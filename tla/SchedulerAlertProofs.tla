----------------------- MODULE SchedulerAlertProofs ------------------------
(***************************************************************************)
(* Alerts and incidents of a monitor whose checks do not overlap. The latch *)
(* of tick() keeps them apart if no call of a batch of several can throw:  *)
(* then, and whenever they stay apart, an outage is announced once, and    *)
(* status and incidents agree unless a call is cut off between its writes. *)
(* Without faults and removals the scheduler does what Outage promises.    *)
(***************************************************************************)
EXTENDS SchedulerProofs

----------------------------------------------------------------------------
(* Checks of one monitor                                                   *)

\* No call can throw, so that Promise.all waits for every one of them.
NoThrow == "db" \notin Faults /\ "remove" \notin Commands

\* A call that throws leaves no other of its batch behind.
Serial == NoThrow \/ \A k, m \in Monitors : k = m

\* Every call belongs to the running tick, and each monitor has at most one.
Sequential ==
    \A m \in Monitors, l \in Lanes : Busy(m, l) =>
        /\ ticking /\ jobs[m][l].awaited
        /\ "remove" \notin Commands => row[m] = "live"
        /\ \A n \in Lanes : Busy(m, n) => n = l

\* Nothing throws, or what throws was the only call.
LEMMA CallSequential ==
    ASSUME TypeOK, Sequential, Serial, NEW m \in Monitors, NEW l \in Lanes,
           JobStep(m, l) \/ DbError(m, l) \/ UpdateLost(m, l) \/ TelegramError(m, l)
    PROVE  Sequential'
<1>1. CASE Rejected(m, l) \/ DbError(m, l) \/ UpdateLost(m, l)
  <2>1. Throw(m, l) /\ Busy(m, l)
    BY <1>1 DEF Rejected, DbError, UpdateLost, WriteStatus, Busy
  <2>2. ~NoThrow
    BY <1>1, <2>1 DEF NoThrow, Rejected, DbError, UpdateLost, Fault, Sequential
  <2>3. \A k \in Monitors : k = m
    BY <2>2 DEF Serial
  <2>4. ASSUME NEW k \in Monitors, NEW n \in Lanes PROVE jobs'[k][n].pc = "idle"
    <3>1. k = m /\ (n # l => jobs[m][n].pc = "idle")
      BY <2>1, <2>3 DEF Sequential, Busy
    <3>2. NoJob.pc = "idle" /\ jobs[k][n] \in Job
      BY JobOf DEF NoJob
    <3> QED BY <2>1, <3>1, <3>2, ThrowIdles, ThrowCases DEF Job
  <2> QED BY <2>4 DEF Sequential, Busy
<1>2. CASE ~Rejected(m, l) /\ ~DbError(m, l) /\ ~UpdateLost(m, l)
  <2>1. UNCHANGED <<ticking, row>> /\ Busy(m, l)
    BY <1>2, CallOnly
  <2>2. \A k \in Monitors, n \in Lanes :
            jobs'[k][n].pc # "idle" => Busy(k, n) /\ jobs'[k][n].awaited = jobs[k][n].awaited
    BY <1>2, CallOnly DEF Busy
  <2> QED BY <2>1, <2>2 DEF Sequential, Busy
<1> QED BY <1>1, <1>2

\* A tick begins when no call is left, and ends so.
LEMMA TickSequential == ASSUME TypeOK, Sequential, Tick PROVE Sequential'
<1>1. CASE StartTick
  <2> DEFINE q(m) == [NoJob EXCEPT !.pc = "queued", !.prev = status[m],
                                   !.mute = muteLeft[m], !.awaited = TRUE]
  <2>1. PICK lane \in [Due -> Lanes] :
           jobs' = [m \in Monitors |-> [l \in Lanes |->
                       IF m \in Due /\ l = lane[m] THEN q(m) ELSE jobs[m][l]]]
    BY <1>1 DEF StartTick
  <2>2. \A m \in Monitors, l \in Lanes : jobs[m][l].pc = "idle"
    BY <1>1 DEF StartTick, Sequential, Busy
  <2>3. ticking' = TRUE /\ row' = row
    BY <1>1 DEF StartTick, db
  <2>4. \A m \in Monitors : q(m).awaited
    BY DEF NoJob
  <2> HIDE DEF q
  <2>5. \A m \in Monitors, l \in Lanes :
            jobs'[m][l] = IF m \in Due /\ l = lane[m] THEN q(m) ELSE jobs[m][l]
    BY <2>1
  <2> QED BY <2>2, <2>3, <2>4, <2>5 DEF Sequential, Busy, Due
<1>2. CASE StartBatch
  <2>1. PICK batch \in SUBSET Queued :
           jobs' = [m \in Monitors |-> [l \in Lanes |->
              IF <<m, l>> \in batch THEN [jobs[m][l] EXCEPT !.pc = "check"] ELSE jobs[m][l]]]
    BY <1>2 DEF StartBatch
  <2>2. ASSUME NEW m \in Monitors, NEW l \in Lanes
        PROVE  /\ jobs'[m][l].awaited = jobs[m][l].awaited
               /\ jobs'[m][l].pc = "idle" <=> jobs[m][l].pc = "idle"
    <3>1. CASE <<m, l>> \in batch
      <4>1. jobs[m][l].pc = "queued"
        BY <3>1 DEF Queued
      <4>2. jobs'[m][l] = [jobs[m][l] EXCEPT !.pc = "check"]
        BY <2>1, <3>1
      <4> QED BY <4>1, <4>2, JobOf DEF Job
    <3>2. CASE <<m, l>> \notin batch
      BY <2>1, <3>2
    <3> QED BY <3>1, <3>2
  <2>3. UNCHANGED <<ticking, row>>
    BY <1>2 DEF StartBatch, db
  <2> QED BY <2>2, <2>3 DEF Sequential, Busy
<1>3. CASE EndTick
  <2>1. ASSUME NEW m \in Monitors, NEW l \in Lanes PROVE jobs[m][l].pc = "idle"
    <3>1. <<m, l>> \notin Awaited /\ <<m, l>> \notin Queued
      BY <1>3 DEF EndTick
    <3> QED BY <3>1 DEF Awaited, Queued, Slots, Sequential, Busy
  <2>2. UNCHANGED <<jobs, row>>
    BY <1>3 DEF EndTick, db
  <2> QED BY <2>1, <2>2 DEF Sequential, Busy
<1> QED BY <1>1, <1>2, <1>3 DEF Tick

LEMMA StepSequential == ASSUME TypeOK, Sequential, Serial, [Next]_vars PROVE Sequential'
<1>1. CASE Crash
  <2>1. \A m \in Monitors, l \in Lanes : jobs'[m][l].pc = "idle"
    BY <1>1 DEF Crash, NoJob
  <2> QED BY <2>1 DEF Sequential, Busy
<1>2. CASE Elapse
  <2>1. UNCHANGED <<ticking, row>>
    BY <1>2 DEF Elapse
  <2>2. ASSUME NEW m \in Monitors, NEW l \in Lanes
        PROVE  jobs'[m][l].awaited = jobs[m][l].awaited /\ jobs'[m][l].pc = jobs[m][l].pc
    <3>1. PICK x, y : \/ jobs'[m][l] = [jobs[m][l] EXCEPT !.mute = x]
                      \/ jobs'[m][l] = [jobs[m][l] EXCEPT !.since = y]
      BY <1>2 DEF Elapse
    <3> QED BY <3>1, JobOf DEF Job
  <2> QED BY <2>1, <2>2 DEF Sequential, Busy
<1>3. ASSUME NEW m \in Monitors, Add(m) \/ Remove(m) PROVE Sequential'
  <2>1. UNCHANGED <<ticking, jobs>>
    BY <1>3 DEF Add, Remove, memory
  <2>2. "remove" \notin Commands => \A k \in Monitors : row[k] = "live" => row'[k] = "live"
    BY <1>3 DEF Add, Remove, TypeOK
  <2> QED BY <2>1, <2>2 DEF Sequential, Busy
<1>4. ASSUME UNCHANGED <<ticking, jobs, row>> PROVE Sequential'
  BY <1>4 DEF Sequential, Busy
<1>5. ASSUME NEW m \in Monitors, FlipSite(m) PROVE UNCHANGED <<ticking, jobs, row>>
  BY <1>5 DEF FlipSite, db, memory
<1>6. ASSUME NEW u \in Users, NEW len \in MuteLens, Mute(u, len)
      PROVE  UNCHANGED <<ticking, jobs, row>>
  BY <1>6 DEF Mute, memory
<1>7. ASSUME UNCHANGED vars PROVE UNCHANGED <<ticking, jobs, row>>
  BY <1>7 DEF vars, db, memory
<1> QED BY <1>1, <1>2, <1>3, <1>4, <1>5, <1>6, <1>7, CallSequential, TickSequential DEF Next

LEMMA Serially == ASSUME Serial PROVE Spec => [](TypeOK /\ Sequential)
<1>1. Init => Sequential
  BY DEF Init, Sequential, Busy, NoJob
<1>2. Sequential /\ TypeOK /\ [Next]_vars => Sequential'
  BY StepSequential
<1> QED BY <1>1, <1>2, InitTypeOK, StepTypeOK, PTL DEF Spec

\* The latch of tick() keeps the ticks apart, and with them the checks of a monitor, as its
\* comment says ("never overlap ticks", scheduler.ts): as long as no call of a batch of
\* several can throw.
THEOREM TicksNeverOverlap == ASSUME Serial PROVE Spec => [](NeverOverlapTicks /\ Apart)
<1>1. Sequential => NeverOverlapTicks /\ Apart
  BY DEF Sequential, NeverOverlapTicks, Apart
<1> QED BY <1>1, Serially, PTL

\* And with the checks, the counter and the record of one monitor.
THEOREM IncidentsNeedRetriesIfSerial == ASSUME Serial PROVE Spec => ThresholdRespected
BY IncidentsNeedRetries, TicksNeverOverlap, PTL

----------------------------------------------------------------------------
(* The alerts                                                              *)

\* What a call relies on of its monitor's row, status st and count of alerts al.
Agrees(job, life, st, al) ==
    /\ job.pc # "idle" => life # "absent" /\ (al = 1 => st = "down")
    /\ job.pc \in {"queued", "check", "beat", "count"} => job.prev = st
    /\ job.pc \in {"find", "close", "tellUp"} => st = "down" /\ job.tr = "recovered"
    /\ job.pc = "open" => st # "down" /\ job.tr = "went-down" /\ al = 0
    /\ job.pc = "update" /\ job.tr = "went-down" => st # "down" /\ al = 0
    /\ job.pc = "tellDown" => (life = "live" => st = "down") /\ al = 0

\* The alert of an outage on record has been sent at most once, and of no other.  That
\* of an outage found while the monitor is removed may be the last one to be sent.
OneAlert(life, st, al) == al <= 1 /\ (al = 1 => life = "removed" \/ st = "down")

Consistent ==
    \A m \in Monitors : /\ OneAlert(row[m], status[m], alerts[m])
                        /\ \A l \in Lanes : Agrees(jobs[m][l], row[m], status[m], alerts[m])

AlertInv == TypeOK /\ Consistent

LEMMA IdleAgrees == \A life, st, al : Agrees(NoJob, life, st, al) /\ NoJob.pc = "idle"
BY DEF Agrees, NoJob

LEMMA InitAlertInv == Init => AlertInv
<1> SUFFICES ASSUME Init PROVE AlertInv
  OBVIOUS
<1>1. \A m \in Monitors, l \in Lanes : jobs[m][l] = NoJob
  BY DEF Init
<1>2. \A m \in Monitors : OneAlert(row[m], status[m], alerts[m])
  BY DEF Init, OneAlert
<1>3. Consistent
  BY <1>1, <1>2, IdleAgrees DEF Consistent
<1> QED BY <1>3, InitTypeOK DEF AlertInv

\* A step of one call to the record r: its monitor has no other call, and the
\* other monitors see nothing of it.
LEMMA Frame ==
    ASSUME AlertInv, Apart, NEW m \in Monitors, NEW l \in Lanes, Busy(m, l), NEW r,
           \A k \in Monitors, n \in Lanes :
               jobs'[k][n] = IF k = m /\ n = l THEN r ELSE jobs[k][n],
           row' = row,
           \A k \in Monitors : k # m => status'[k] = status[k] /\ alerts'[k] = alerts[k],
           OneAlert(row[m], status'[m], alerts'[m]),
           Agrees(r, row[m], status'[m], alerts'[m])
    PROVE  Consistent'
<1>1. ASSUME NEW k \in Monitors, k # m
      PROVE  /\ OneAlert(row[k], status'[k], alerts'[k])
             /\ \A n \in Lanes : Agrees(jobs'[k][n], row[k], status'[k], alerts'[k])
  BY <1>1 DEF AlertInv, Consistent
<1>2. ASSUME NEW n \in Lanes PROVE Agrees(jobs'[m][n], row[m], status'[m], alerts'[m])
  <2>1. CASE n = l
    BY <2>1
  <2>2. CASE n # l
    <3>1. jobs'[m][n].pc = "idle"
      BY <2>2 DEF Apart, Busy
    <3> QED BY <3>1 DEF Agrees
  <2> QED BY <2>1, <2>2
<1> QED BY <1>1, <1>2 DEF Consistent

LEMMA BusyFacts ==
    ASSUME AlertInv, NEW m \in Monitors, NEW l \in Lanes, jobs[m][l].pc # "idle"
    PROVE  /\ Busy(m, l) /\ jobs[m][l] \in Job /\ jobs \in JobTable /\ row[m] # "absent"
           /\ Agrees(jobs[m][l], row[m], status[m], alerts[m])
           /\ OneAlert(row[m], status[m], alerts[m])
<1>1. OneAlert(row[m], status[m], alerts[m]) /\ Agrees(jobs[m][l], row[m], status[m], alerts[m])
  BY DEF AlertInv, Consistent
<1> QED BY <1>1 DEF AlertInv, Busy, TypeOK, JobTable, Agrees

LEMMA CheckAlert ==
    ASSUME AlertInv, Apart, NEW m \in Monitors, NEW l \in Lanes, Check(m, l)
    PROVE  Consistent'
<1> DEFINE r == [jobs[m][l] EXCEPT !.pc = "beat", !.out = site[m],
                                   !.muted = jobs[m][l].mute > 0, !.mute = 0]
<1>1. jobs[m][l].pc = "check"
  BY DEF Check
<1>2. r \in Job
  <2>1. site[m] \in HeartbeatStatus /\ (jobs[m][l].mute > 0) \in BOOLEAN
    BY DEF AlertInv, TypeOK
  <2>2. jobs[m][l] \in Job
    BY <1>1, BusyFacts
  <2> QED BY <2>1, <2>2 DEF Job, Pc
<1>3. Agrees(r, row[m], status[m], alerts[m])
  BY <1>1, BusyFacts DEF Agrees, Job
<1>4. jobs' = [jobs EXCEPT ![m][l] = r]
  BY <1>1, BusyFacts DEF Check, JobTable
<1>5. UNCHANGED <<row, status, alerts>>
  BY DEF Check, db, user
<1> HIDE DEF r
<1>6. Busy(m, l) /\ jobs \in JobTable /\ OneAlert(row[m], status[m], alerts[m])
  BY <1>1, BusyFacts
<1>7. \A k \in Monitors, n \in Lanes :
          jobs'[k][n] = IF k = m /\ n = l THEN r ELSE jobs[k][n]
  BY <1>2, <1>4, <1>6 DEF JobTable
<1> QED BY <1>3, <1>5, <1>6, <1>7, Frame

LEMMA BeatAlert ==
    ASSUME AlertInv, Apart, NEW m \in Monitors, NEW l \in Lanes, Beat(m, l)
    PROVE  Consistent'
<1> DEFINE r == [jobs[m][l] EXCEPT !.pc = "count"]
<1>1. jobs[m][l].pc = "beat" /\ UNCHANGED <<row, status, alerts>>
  BY DEF Beat, user
<1>2. /\ jobs[m][l] \in Job /\ jobs \in JobTable /\ Busy(m, l)
      /\ OneAlert(row[m], status[m], alerts[m]) /\ Agrees(jobs[m][l], row[m], status[m], alerts[m])
  BY <1>1, BusyFacts
<1>3. Agrees(r, row[m], status[m], alerts[m])
  BY <1>1, <1>2 DEF Agrees, Job
<1>4. \A k \in Monitors, n \in Lanes :
          jobs'[k][n] = IF k = m /\ n = l THEN r ELSE jobs[k][n]
  <2>1. GoTo(m, l, "count") /\ "count" \in Pc
    BY DEF Beat, Pc
  <2> QED BY <1>2, <2>1, GoToOK
<1> HIDE DEF r
<1> QED BY <1>1, <1>2, <1>3, <1>4, Frame

\* The decision is taken from the status the row still has.
LEMMA CountAlert ==
    ASSUME AlertInv, Apart, NEW m \in Monitors, NEW l \in Lanes, Count(m, l)
    PROVE  Consistent'
<1> DEFINE out == jobs[m][l].out
           tr  == Decide(jobs[m][l].prev, out, NextFails(m, out), Retries)
           r   == [jobs[m][l] EXCEPT !.pc = NextPc(tr), !.tr = tr]
<1>1. /\ jobs[m][l].pc = "count" /\ jobs[m][l].prev = status[m]
      /\ jobs[m][l] \in Job /\ row[m] # "absent" /\ OneAlert(row[m], status[m], alerts[m])
      /\ alerts[m] \in 0..2 /\ (alerts[m] = 1 => status[m] = "down")
  BY BusyFacts DEF Count, Agrees, AlertInv, TypeOK
<1>2. tr \in Transition /\ NextPc(tr) \in Pc
  BY DecideOK DEF NextPc, Pc
<1>3. /\ tr = "recovered" => status[m] = "down"
      /\ tr = "went-down" => status[m] # "down" /\ alerts[m] = 0
  BY <1>1 DEF Decide, OneAlert
<1>4. /\ NextPc(tr) = "find" => tr = "recovered"
      /\ NextPc(tr) = "open" => tr = "went-down"
      /\ NextPc(tr) \in {"find", "open", "update"}
  <2> HIDE DEF tr
  <2> QED BY DEF NextPc
<1>5. jobs' = [jobs EXCEPT ![m][l] = r]
  BY <1>1, BusyFacts DEF Count, JobTable
<1>6. UNCHANGED <<row, status, alerts>>
  BY DEF Count, db, user
<1> HIDE DEF tr
<1>7. r \in Job /\ r.pc = NextPc(tr) /\ r.tr = tr
  BY <1>1, <1>2 DEF Job
<1> HIDE DEF r
<1>8. Agrees(r, row[m], status[m], alerts[m])
  BY <1>1, <1>3, <1>4, <1>7 DEF Agrees
<1>9. Busy(m, l) /\ jobs \in JobTable
  BY <1>1, BusyFacts
<1>10. \A k \in Monitors, n \in Lanes :
           jobs'[k][n] = IF k = m /\ n = l THEN r ELSE jobs[k][n]
  BY <1>5, <1>7, <1>9 DEF JobTable
<1> QED BY <1>1, <1>6, <1>8, <1>9, <1>10, Frame

LEMMA RecoveryAlert ==
    ASSUME AlertInv, Apart, NEW m \in Monitors, NEW l \in Lanes,
           FindIncident(m, l) \/ CloseIncident(m, l) \/ TellUp(m, l)
    PROVE  Consistent'
<1>1. jobs[m][l].pc \in {"find", "close", "tellUp"}
  BY DEF FindIncident, CloseIncident, TellUp
<1>2. /\ jobs[m][l] \in Job /\ jobs \in JobTable /\ Busy(m, l)
      /\ jobs[m][l].tr = "recovered" /\ status[m] = "down"
      /\ row[m] # "absent" /\ OneAlert(row[m], status[m], alerts[m])
      /\ Agrees(jobs[m][l], row[m], status[m], alerts[m])
  BY <1>1, BusyFacts DEF Agrees
<1>3. UNCHANGED <<row, status, alerts>>
  BY DEF FindIncident, CloseIncident, TellUp, db, user
<1>4. PICK pc \in {"close", "tellUp", "update"}, inc \in IncidentIds \cup {NoIncident} :
          jobs' = [jobs EXCEPT ![m][l] = [jobs[m][l] EXCEPT !.pc = pc, !.inc = inc]]
  <2>1. CASE GoTo(m, l, "update")
    <3>1. jobs' = [jobs EXCEPT ![m][l] =
                      [jobs[m][l] EXCEPT !.pc = "update", !.inc = jobs[m][l].inc]]
      BY <2>1, <1>2 DEF GoTo, JobTable, Job
    <3>2. jobs[m][l].inc \in IncidentIds \cup {NoIncident}
      BY <1>2 DEF Job
    <3> QED BY <3>1, <3>2
  <2>2. ASSUME NEW i \in openInc[m],
               jobs' = [jobs EXCEPT ![m][l].pc = "close", ![m][l].inc = i]
        PROVE  jobs' = [jobs EXCEPT ![m][l] = [jobs[m][l] EXCEPT !.pc = "close", !.inc = i]]
               /\ i \in IncidentIds
    BY <2>2, <1>2 DEF JobTable, AlertInv, TypeOK
  <2>3. ASSUME CloseIncident(m, l)
        PROVE  jobs' = [jobs EXCEPT ![m][l] = [jobs[m][l] EXCEPT
                  !.pc = IF jobs[m][l].muted THEN "update" ELSE "tellUp", !.inc = NoIncident]]
    BY <2>3, <1>2 DEF CloseIncident, JobTable
  <2> QED BY <2>1, <2>2, <2>3 DEF FindIncident, TellUp
<1> DEFINE r == [jobs[m][l] EXCEPT !.pc = pc, !.inc = inc]
<1>5. r \in Job
  BY <1>2 DEF Job, Pc
<1>6. Agrees(r, row[m], status[m], alerts[m])
  BY <1>2 DEF Agrees, Job
<1>7. jobs' = [jobs EXCEPT ![m][l] = r]
  BY <1>4
<1> HIDE DEF r
<1>8. \A k \in Monitors, n \in Lanes :
          jobs'[k][n] = IF k = m /\ n = l THEN r ELSE jobs[k][n]
  BY <1>2, <1>5, <1>7 DEF JobTable
<1>9. OneAlert(row[m], status'[m], alerts'[m]) /\ Agrees(r, row[m], status'[m], alerts'[m])
  BY <1>2, <1>3, <1>6
<1> QED BY <1>2, <1>3, <1>5, <1>8, <1>9, Frame

LEMMA OutageAlert ==
    ASSUME AlertInv, Apart, NEW m \in Monitors, NEW l \in Lanes,
           OpenIncident(m, l) \/ TellDown(m, l)
    PROVE  Consistent'
<1>1. jobs[m][l].pc \in {"open", "tellDown"}
  BY DEF OpenIncident, TellDown
<1>2. /\ jobs[m][l] \in Job /\ jobs \in JobTable /\ Busy(m, l)
      /\ OneAlert(row[m], status[m], alerts[m]) /\ Agrees(jobs[m][l], row[m], status[m], alerts[m])
  BY <1>1, BusyFacts
<1>3. CASE OpenIncident(m, l)
  <2> DEFINE r == [jobs[m][l] EXCEPT !.pc = "update"]
  <2>1. UNCHANGED <<row, status, alerts>>
    BY <1>3 DEF OpenIncident, user
  <2>2. Agrees(r, row[m], status[m], alerts[m])
    BY <1>2, <1>3 DEF Agrees, Job, OpenIncident
  <2>3. GoTo(m, l, "update") /\ "update" \in Pc
    BY <1>3 DEF OpenIncident, Pc
  <2>4. \A k \in Monitors, n \in Lanes :
            jobs'[k][n] = IF k = m /\ n = l THEN r ELSE jobs[k][n]
    BY <1>2, <2>3, GoToOK
  <2> HIDE DEF r
  <2>5. OneAlert(row[m], status'[m], alerts'[m]) /\ Agrees(r, row[m], status'[m], alerts'[m])
    BY <1>2, <2>1, <2>2
  <2>6. \A k \in Monitors : k # m => status'[k] = status[k] /\ alerts'[k] = alerts[k]
    BY <2>1
  <2>7. row' = row /\ Busy(m, l)
    BY <1>2, <2>1
  <2> QED BY <2>2, <2>4, <2>5, <2>6, <2>7, Frame
<1>4. CASE TellDown(m, l)
  <2>1. UNCHANGED <<row, status>> /\ Finish(m, l)
    BY <1>4 DEF TellDown, db
  <2>2. (row[m] = "live" => status[m] = "down") /\ row[m] # "absent" /\ alerts[m] = 0
    BY <1>2, <1>4 DEF TellDown, Agrees
  <2>3. alerts' = [alerts EXCEPT ![m] = 1]
    BY <1>4, <2>2 DEF TellDown, Upto
  <2>4. alerts'[m] = 1 /\ \A k \in Monitors : k # m => alerts'[k] = alerts[k]
    BY <2>3 DEF AlertInv, TypeOK
  <2>5. OneAlert(row[m], status'[m], alerts'[m])
    BY <2>1, <2>2, <2>4 DEF OneAlert, AlertInv, TypeOK
  <2>6. \A k \in Monitors, n \in Lanes :
            jobs'[k][n] = IF k = m /\ n = l THEN NoJob ELSE jobs[k][n]
    BY <1>2, <2>1, FinishOK
  <2> QED BY <1>2, <2>1, <2>4, <2>5, <2>6, IdleAgrees, Frame
<1> QED BY <1>3, <1>4
\* The status is written before the alert, unless the row is gone by now.
LEMMA UpdateAlert ==
    ASSUME AlertInv, Apart, NEW m \in Monitors, NEW l \in Lanes, Update(m, l)
    PROVE  Consistent'
<1> DEFINE job == jobs[m][l]
           new == IF row[m] = "live" THEN Written(status[m], job.tr) ELSE status[m]
           r   == IF job.tr = "went-down" /\ ~job.muted
                  THEN [job EXCEPT !.pc = "tellDown"] ELSE NoJob
<1>1. job.pc = "update"
  BY DEF Update, WriteStatus
<1>2. /\ job \in Job /\ jobs \in JobTable /\ Busy(m, l) /\ row[m] # "absent"
      /\ OneAlert(row[m], status[m], alerts[m]) /\ Agrees(job, row[m], status[m], alerts[m])
  BY <1>1, BusyFacts
<1>3. /\ status' = [status EXCEPT ![m] = new]
      /\ alerts' = [alerts EXCEPT ![m] = IF new = "up" THEN 0 ELSE alerts[m]]
      /\ row' = row
  BY DEF Update, WriteStatus
<1>4. /\ status'[m] = new /\ alerts'[m] = IF new = "up" THEN 0 ELSE alerts[m]
      /\ \A k \in Monitors : k # m => status'[k] = status[k] /\ alerts'[k] = alerts[k]
  BY <1>3 DEF AlertInv, TypeOK
<1>5. \A k \in Monitors, n \in Lanes :
          jobs'[k][n] = IF k = m /\ n = l THEN r ELSE jobs[k][n]
  <2>1. CASE job.tr = "went-down" /\ ~job.muted
    <3>1. GoTo(m, l, "tellDown") /\ "tellDown" \in Pc
      BY <2>1 DEF Update, Pc
    <3> QED BY <1>2, <2>1, <3>1, GoToOK
  <2>2. CASE ~(job.tr = "went-down" /\ ~job.muted)
    BY <1>2, <2>2, FinishOK DEF Update
  <2> QED BY <2>1, <2>2
<1>6. alerts[m] \in 0..2
  BY DEF AlertInv, TypeOK
<1>7. OneAlert(row[m], status'[m], alerts'[m])
  BY <1>2, <1>4, <1>6 DEF OneAlert, Written, AlertInv, TypeOK
<1>8. Agrees(r, row[m], status'[m], alerts'[m])
  <2>1. CASE job.tr = "went-down" /\ ~job.muted
    <3>1. alerts[m] = 0 /\ (row[m] = "live" => new = "down")
      BY <1>1, <1>2, <2>1 DEF Written, Agrees
    <3>2. alerts'[m] = 0 /\ (row[m] = "live" => status'[m] = "down")
      BY <1>4, <3>1
    <3>3. r.pc = "tellDown"
      BY <1>2, <2>1 DEF Job
    <3> HIDE DEF r
    <3> QED BY <1>2, <3>2, <3>3 DEF Agrees
  <2>2. CASE ~(job.tr = "went-down" /\ ~job.muted)
    BY <2>2, IdleAgrees
  <2> QED BY <2>1, <2>2
<1> HIDE DEF r, new, job
<1> QED BY <1>2, <1>3, <1>4, <1>5, <1>7, <1>8, Frame DEF job

\* A call that an exception leaves running knows what it knew.
LEMMA ThrowAlert ==
    ASSUME AlertInv, NEW m \in Monitors, NEW l \in Lanes, Rejected(m, l) \/ DbError(m, l)
    PROVE  Consistent'
<1>1. Throw(m, l) /\ UNCHANGED <<row, status, alerts>> /\ TypeOK
  BY DEF Rejected, DbError, db, user, AlertInv
<1>2. ASSUME NEW k \in Monitors, NEW n \in Lanes
      PROVE  Agrees(jobs'[k][n], row[k], status[k], alerts[k])
  <2>1. jobs[k][n] \in Job /\ Agrees(jobs[k][n], row[k], status[k], alerts[k])
    BY <1>1, JobOf DEF AlertInv, Consistent
  <2>2. CASE jobs'[k][n] = [jobs[k][n] EXCEPT !.awaited = FALSE]
    BY <2>1, <2>2 DEF Agrees, Job
  <2>3. CASE jobs'[k][n] = NoJob
    BY <2>3, IdleAgrees
  <2>4. jobs'[k][n] \in {NoJob, jobs[k][n], [jobs[k][n] EXCEPT !.awaited = FALSE]}
    BY <1>1, ThrowCases
  <2> QED BY <2>1, <2>2, <2>3, <2>4
<1> QED BY <1>1, <1>2 DEF AlertInv, Consistent

\* The UPDATE that is done and throws: no alert follows it.
LEMMA UpdateLostAlert ==
    ASSUME AlertInv, Apart, NEW m \in Monitors, NEW l \in Lanes, UpdateLost(m, l)
    PROVE  Consistent'
<1> DEFINE job == jobs[m][l]
           new == IF row[m] = "live" THEN Written(status[m], job.tr) ELSE status[m]
<1>1. job.pc = "update" /\ Throw(m, l) /\ TypeOK
  BY DEF UpdateLost, WriteStatus, AlertInv
<1>2. /\ Busy(m, l) /\ OneAlert(row[m], status[m], alerts[m])
      /\ Agrees(job, row[m], status[m], alerts[m])
  BY <1>1, BusyFacts
<1>3. /\ status' = [status EXCEPT ![m] = new]
      /\ alerts' = [alerts EXCEPT ![m] = IF new = "up" THEN 0 ELSE alerts[m]]
      /\ row' = row
  BY DEF UpdateLost, WriteStatus
<1>4. /\ status'[m] = new /\ alerts'[m] = IF new = "up" THEN 0 ELSE alerts[m]
      /\ \A k \in Monitors : k # m => status'[k] = status[k] /\ alerts'[k] = alerts[k]
  BY <1>3, <1>1 DEF TypeOK
<1>5. OneAlert(row[m], status'[m], alerts'[m])
  BY <1>2, <1>4 DEF OneAlert, Written, Agrees
<1>6. ASSUME NEW k \in Monitors, NEW n \in Lanes
      PROVE  Agrees(jobs'[k][n], row[k], status'[k], alerts'[k])
  <2>1. CASE k = m
    <3>1. jobs'[m][n] \in {NoJob, jobs[m][n], [jobs[m][n] EXCEPT !.awaited = FALSE]}
      BY <1>1, ThrowCases
    <3>2. n # l => jobs[m][n].pc = "idle" /\ jobs[m][n] \in Job
      BY <1>1, <1>2, JobOf DEF Apart, Busy
    <3>3. n = l => jobs'[m][n] = NoJob
      BY <1>1, ThrowIdles
    <3>4. jobs'[m][n].pc = "idle"
      BY <3>1, <3>2, <3>3, IdleAgrees DEF Job
    <3> QED BY <2>1, <3>4 DEF Agrees
  <2>2. CASE k # m
    <3>1. jobs[k][n] \in Job /\ Agrees(jobs[k][n], row[k], status[k], alerts[k])
      BY <1>1, JobOf DEF AlertInv, Consistent
    <3>2. jobs'[k][n] \in {NoJob, jobs[k][n], [jobs[k][n] EXCEPT !.awaited = FALSE]}
      BY <1>1, ThrowCases
    <3>3. CASE jobs'[k][n] = [jobs[k][n] EXCEPT !.awaited = FALSE]
      BY <1>4, <2>2, <3>1, <3>3 DEF Agrees, Job
    <3>4. CASE jobs'[k][n] \in {NoJob, jobs[k][n]}
      BY <1>4, <2>2, <3>1, <3>4, IdleAgrees
    <3> QED BY <3>2, <3>3, <3>4
  <2> QED BY <2>1, <2>2
<1>7. ASSUME NEW k \in Monitors, k # m PROVE OneAlert(row[k], status'[k], alerts'[k])
  BY <1>4, <1>7 DEF AlertInv, Consistent
<1> HIDE DEF new, job
<1> QED BY <1>3, <1>5, <1>6, <1>7 DEF Consistent

LEMMA TelegramAlert ==
    ASSUME AlertInv, Apart, NEW m \in Monitors, NEW l \in Lanes, TelegramError(m, l)
    PROVE  Consistent'
<1>1. jobs[m][l].pc \in {"tellUp", "tellDown"}
  BY DEF TelegramError
<1>2. /\ jobs[m][l] \in Job /\ jobs \in JobTable /\ Busy(m, l)
      /\ OneAlert(row[m], status[m], alerts[m]) /\ Agrees(jobs[m][l], row[m], status[m], alerts[m])
  BY <1>1, BusyFacts
<1>3. UNCHANGED <<row, status, alerts>>
  BY DEF TelegramError, db, user
<1>4. CASE jobs[m][l].pc = "tellUp" /\ GoTo(m, l, "update")
  <2> DEFINE r == [jobs[m][l] EXCEPT !.pc = "update"]
  <2>1. \A k \in Monitors, n \in Lanes :
            jobs'[k][n] = IF k = m /\ n = l THEN r ELSE jobs[k][n]
    <3>1. "update" \in Pc
      BY DEF Pc
    <3> QED BY <1>2, <1>4, <3>1, GoToOK
  <2>2. Agrees(r, row[m], status[m], alerts[m])
    BY <1>2, <1>4 DEF Agrees, Job
  <2> HIDE DEF r
  <2>3. OneAlert(row[m], status'[m], alerts'[m]) /\ Agrees(r, row[m], status'[m], alerts'[m])
    BY <1>2, <1>3, <2>2
  <2> QED BY <1>2, <1>3, <2>1, <2>2, <2>3, Frame
<1>5. CASE Finish(m, l)
  <2>1. \A k \in Monitors, n \in Lanes :
            jobs'[k][n] = IF k = m /\ n = l THEN NoJob ELSE jobs[k][n]
    BY <1>2, <1>5, FinishOK
  <2>2. OneAlert(row[m], status'[m], alerts'[m])
    BY <1>2, <1>3
  <2> QED BY <1>2, <1>3, <2>1, <2>2, IdleAgrees, Frame
<1> QED BY <1>4, <1>5 DEF TelegramError

\* The queue holds what the rows say.
LEMMA TickAlert == ASSUME AlertInv, Tick PROVE Consistent'
<1>1. UNCHANGED <<row, status, alerts>>
  BY DEF Tick, StartTick, StartBatch, EndTick, db, user
<1> SUFFICES ASSUME NEW m \in Monitors, NEW l \in Lanes
             PROVE  Agrees(jobs'[m][l], row[m], status[m], alerts[m])
  BY <1>1 DEF AlertInv, Consistent
<1>2. jobs[m][l] \in Job /\ Agrees(jobs[m][l], row[m], status[m], alerts[m])
  BY JobOf DEF AlertInv, Consistent
<1>3. CASE StartTick
  <2> DEFINE q(k) == [NoJob EXCEPT !.pc = "queued", !.prev = status[k],
                                   !.mute = muteLeft[k], !.awaited = TRUE]
  <2>1. PICK lane \in [Due -> Lanes] :
           jobs' = [k \in Monitors |-> [n \in Lanes |->
                       IF k \in Due /\ n = lane[k] THEN q(k) ELSE jobs[k][n]]]
    BY <1>3 DEF StartTick
  <2>2. q(m).pc = "queued" /\ q(m).prev = status[m]
    BY DEF NoJob
  <2> HIDE DEF q
  <2>3. jobs'[m][l] = IF m \in Due /\ l = lane[m] THEN q(m) ELSE jobs[m][l]
    BY <2>1
  <2>4. m \in Due => row[m] = "live" /\ (alerts[m] = 1 => status[m] = "down")
    BY DEF Due, AlertInv, Consistent, OneAlert
  <2>5. CASE jobs'[m][l] = q(m) /\ m \in Due
    BY <2>2, <2>4, <2>5 DEF Agrees
  <2> QED BY <1>2, <2>3, <2>5
<1>4. CASE StartBatch
  <2>1. PICK batch \in SUBSET Queued :
           jobs' = [k \in Monitors |-> [n \in Lanes |->
              IF <<k, n>> \in batch THEN [jobs[k][n] EXCEPT !.pc = "check"] ELSE jobs[k][n]]]
    BY <1>4 DEF StartBatch
  <2>2. CASE <<m, l>> \in batch
    <3>1. jobs[m][l].pc = "queued"
      BY <2>2 DEF Queued
    <3>2. jobs'[m][l] = [jobs[m][l] EXCEPT !.pc = "check"]
      BY <2>1, <2>2
    <3> QED BY <1>2, <3>1, <3>2 DEF Agrees, Job
  <2>3. CASE <<m, l>> \notin batch
    BY <1>2, <2>1, <2>3
  <2> QED BY <2>2, <2>3
<1>5. CASE EndTick
  BY <1>2, <1>5 DEF EndTick
<1> QED BY <1>3, <1>4, <1>5 DEF Tick

\* Steps of users, sites, time and the process.
LEMMA OtherAlert ==
    ASSUME AlertInv,
           \/ Crash \/ Elapse \/ UNCHANGED vars
           \/ \E m \in Monitors : Add(m) \/ Remove(m) \/ FlipSite(m)
           \/ \E u \in Users, len \in MuteLens : Mute(u, len)
    PROVE  Consistent'
<1>1. CASE Crash
  <2>1. \A m \in Monitors, l \in Lanes : jobs'[m][l] = NoJob
    BY <1>1 DEF Crash
  <2>2. UNCHANGED <<row, status, alerts>>
    BY <1>1 DEF Crash, db, user
  <2> QED BY <2>1, <2>2, IdleAgrees DEF AlertInv, Consistent
<1>2. CASE Elapse
  <2>1. UNCHANGED <<row, status, alerts>>
    BY <1>2 DEF Elapse
  <2>2. ASSUME NEW m \in Monitors, NEW l \in Lanes
        PROVE  Agrees(jobs'[m][l], row[m], status[m], alerts[m])
    <3>1. jobs[m][l] \in Job /\ Agrees(jobs[m][l], row[m], status[m], alerts[m])
      BY JobOf DEF AlertInv, Consistent
    <3>2. PICK x, y : \/ jobs'[m][l] = [jobs[m][l] EXCEPT !.mute = x]
                      \/ jobs'[m][l] = [jobs[m][l] EXCEPT !.since = y]
      BY <1>2 DEF Elapse
    <3> QED BY <3>1, <3>2 DEF Agrees, Job
  <2> QED BY <2>1, <2>2 DEF AlertInv, Consistent
<1>3. ASSUME NEW m \in Monitors, Add(m) \/ Remove(m) PROVE Consistent'
  <2>1. UNCHANGED <<jobs, status, alerts>>
    BY <1>3 DEF Add, Remove, memory, user
  <2>2. \A k \in Monitors : row'[k] = row[k] \/ (row[k] = "absent" /\ row'[k] = "live")
                             \/ (row[k] = "live" /\ row'[k] = "removed")
    BY <1>3 DEF Add, Remove, AlertInv, TypeOK
  <2>3. ASSUME NEW k \in Monitors
        PROVE  /\ OneAlert(row'[k], status[k], alerts[k])
               /\ \A l \in Lanes : Agrees(jobs[k][l], row'[k], status[k], alerts[k])
    <3>1. /\ OneAlert(row[k], status[k], alerts[k])
          /\ \A l \in Lanes : Agrees(jobs[k][l], row[k], status[k], alerts[k])
      BY DEF AlertInv, Consistent
    <3> QED BY <2>2, <3>1 DEF OneAlert, Agrees
  <2> QED BY <2>1, <2>3 DEF Consistent
<1>4. ASSUME UNCHANGED <<jobs, row, status, alerts>> PROVE Consistent'
  BY <1>4 DEF AlertInv, Consistent
<1>5. ASSUME NEW m \in Monitors, FlipSite(m) PROVE UNCHANGED <<jobs, row, status, alerts>>
  BY <1>5 DEF FlipSite, db, memory, user
<1>6. ASSUME NEW u \in Users, NEW len \in MuteLens, Mute(u, len)
      PROVE  UNCHANGED <<jobs, row, status, alerts>>
  BY <1>6 DEF Mute, memory, user
<1>7. ASSUME UNCHANGED vars PROVE UNCHANGED <<jobs, row, status, alerts>>
  BY <1>7 DEF vars, db, memory, user
<1> QED BY <1>1, <1>2, <1>3, <1>4, <1>5, <1>6, <1>7

LEMMA StepAlertInv == ASSUME AlertInv, Apart, [Next]_vars PROVE AlertInv'
<1>1. TypeOK'
  BY StepTypeOK DEF AlertInv
<1>2. ASSUME NEW m \in Monitors, NEW l \in Lanes,
             JobStep(m, l) \/ DbError(m, l) \/ UpdateLost(m, l) \/ TelegramError(m, l)
      PROVE  Consistent'
  BY <1>2, CheckAlert, BeatAlert, CountAlert, UpdateLostAlert, RecoveryAlert, OutageAlert, UpdateAlert, ThrowAlert,
     TelegramAlert DEF JobStep
<1>3. Consistent'
  BY <1>2, TickAlert, OtherAlert DEF Next
<1> QED BY <1>1, <1>3 DEF AlertInv

\* Unless two checks of a monitor overlap, an outage is announced at most once: through
\* crashes, restarts, exceptions, lost messages, mutes and removals (processMonitor).
THEOREM OneAlertPerOutage == Spec /\ []Apart => []AlertOncePerOutage
<1>1. AlertInv /\ Apart /\ [Next]_vars => AlertInv'
  BY StepAlertInv
<1>2. AlertInv => AlertOncePerOutage
  BY DEF AlertInv, Consistent, OneAlert, AlertOncePerOutage
<1> QED BY <1>1, <1>2, InitAlertInv, PTL DEF Spec

\* So the latch of tick() is enough if nothing can throw, or there is one monitor.
THEOREM OneAlertIfSerial == ASSUME Serial PROVE Spec => []AlertOncePerOutage
BY OneAlertPerOutage, TicksNeverOverlap, PTL

----------------------------------------------------------------------------
(* The incidents on record while no call is cut short                      *)

\* Nothing stops a call between two of its writes, unless its monitor is removed.
Whole == "db" \notin Faults /\ "crash" \notin Faults

Undisturbed == NoThrow /\ "crash" \notin Faults

HalfwayPcs == {"find", "close", "tellUp", "open", "update"}

\* What a call knows of the incidents inc of its monitor, the status being st.
Recorded(job, st, inc) ==
    /\ job.pc \in {"find", "close"} => inc # {}
    /\ job.pc = "close" => job.inc \in inc
    /\ job.pc \in {"tellUp", "open"} => inc = {}
    /\ job.pc = "update" => (inc # {} <=> Written(st, job.tr) = "down")
    /\ job.pc = "tellDown" => job.tr = "went-down" /\ ~job.muted

Single(inc) == \A i, j \in inc : i = j

Matches(st, inc) == inc # {} <=> st = "down"

Records(m) == row[m] # "removed" =>
    /\ Single(openInc[m])
    /\ ~Halfway(m) => Matches(status[m], openInc[m])
    /\ \A l \in Lanes : Recorded(jobs[m][l], status[m], openInc[m])

\* Incidents and status agree, or one call is between the writes and knows how they differ.
OutageInv == AlertInv /\ \A m \in Monitors : Records(m)

\* The alert a call owes, read off its record, and off the records of a monitor.
Debt(job) ==
    CASE job.pc = "tellUp" -> "up"
      [] job.pc \in {"update", "tellDown"} /\ job.tr = "went-down" /\ ~job.muted -> "down"
      [] OTHER -> "nothing"

DebtOf(calls) ==
    IF \E l \in Lanes : Debt(calls[l]) # "nothing"
    THEN Debt(calls[CHOOSE l \in Lanes : Debt(calls[l]) # "nothing"])
    ELSE "nothing"

LEMMA OwedIsDebt == \A m : Owed(m) = DebtOf(jobs[m]) /\ Owed(m)' = DebtOf(jobs'[m])
BY DEF Owed, Owes, Debt, DebtOf

LEMMA OneDebt ==
    ASSUME NEW calls, NEW l \in Lanes, \A n \in Lanes : n # l => Debt(calls[n]) = "nothing"
    PROVE  DebtOf(calls) = Debt(calls[l])
<1>1. CASE Debt(calls[l]) = "nothing"
  BY <1>1 DEF DebtOf
<1>2. CASE Debt(calls[l]) # "nothing"
  <2>1. (CHOOSE n \in Lanes : Debt(calls[n]) # "nothing") = l
    BY <1>2
  <2> QED BY <1>2, <2>1 DEF DebtOf
<1> QED BY <1>1, <1>2

LEMMA IdleDebt == \A job : job.pc \in {"idle", "queued", "check", "beat", "count", "find", "close", "open"}
                           => Debt(job) = "nothing"
BY DEF Debt

\* What Outage sees of the monitor m does not change.
Hidden(m) ==
    /\ openInc'[m] # {} <=> openInc[m] # {}
    /\ Owed(m)' = Owed(m)
    /\ told'[m] = told[m]

\* What Outage sees of m changes as one of its actions says.
Shown(m) ==
    \/ /\ Owed(m) = "nothing" /\ openInc[m] = {} /\ openInc'[m] # {}
       /\ Owed(m)' \in {"down", "nothing"} /\ told'[m] = told[m]
    \/ /\ Owed(m) = "nothing" /\ openInc[m] # {} /\ openInc'[m] = {}
       /\ Owed(m)' \in {"up", "nothing"} /\ told'[m] = told[m]
    \/ /\ Owed(m) # "nothing" /\ Owed(m)' = "nothing" /\ told'[m] = Owed(m)
       /\ openInc'[m] # {} <=> openInc[m] # {}

LEMMA ShownIsStep ==
    ASSUME NEW m \in Monitors, Hidden(m) \/ Shown(m),
           \A k \in Monitors : k # m => Hidden(k),
           told \in [Monitors -> Promise!News], told' \in [Monitors -> Promise!News]
    PROVE  [Promise!Next]_(Promise!vars)
<1> DEFINE down == [k \in Monitors |-> openInc[k] # {}]
           owed == [k \in Monitors |-> Owed(k)]
<1>1. CASE Hidden(m)
  <2>1. \A k \in Monitors : Hidden(k)
    BY <1>1
  <2>2. down' = down /\ owed' = owed /\ told' = told
    BY <2>1 DEF Hidden
  <2> QED BY <2>2 DEF Promise!vars
<1>2. CASE Shown(m)
  <2>1. ASSUME NEW b \in BOOLEAN, openInc'[m] # {} <=> b
        PROVE  down' = [down EXCEPT ![m] = b]
    BY <2>1 DEF Hidden
  <2>2. owed' = [owed EXCEPT ![m] = Owed(m)']
    BY DEF Hidden
  <2>3. told' = [told EXCEPT ![m] = told'[m]]
    BY DEF Hidden
  <2>4. down[m] = (openInc[m] # {}) /\ owed[m] = Owed(m)
    OBVIOUS
  <2> HIDE DEF down, owed
  <2>5. CASE /\ Owed(m) = "nothing" /\ openInc[m] = {} /\ openInc'[m] # {}
             /\ Owed(m)' \in {"down", "nothing"} /\ told'[m] = told[m]
    <3>1. down' = [down EXCEPT ![m] = TRUE] /\ told' = told /\ down[m] # TRUE
      BY <2>1, <2>3, <2>4, <2>5
    <3>2. \E n \in {"down", "nothing"} : owed' = [owed EXCEPT ![m] = n]
      BY <2>2, <2>5
    <3> QED BY <2>4, <2>5, <3>1, <3>2
            DEF Promise!Next, Promise!Begin, Promise!Change, down, owed
  <2>6. CASE /\ Owed(m) = "nothing" /\ openInc[m] # {} /\ openInc'[m] = {}
             /\ Owed(m)' \in {"up", "nothing"} /\ told'[m] = told[m]
    <3>1. down' = [down EXCEPT ![m] = FALSE] /\ told' = told /\ down[m] # FALSE
      BY <2>1, <2>3, <2>4, <2>6
    <3>2. \E n \in {"up", "nothing"} : owed' = [owed EXCEPT ![m] = n]
      BY <2>2, <2>6
    <3> QED BY <2>4, <2>6, <3>1, <3>2
            DEF Promise!Next, Promise!End, Promise!Change, down, owed
  <2>7. CASE /\ Owed(m) # "nothing" /\ Owed(m)' = "nothing" /\ told'[m] = Owed(m)
             /\ openInc'[m] # {} <=> openInc[m] # {}
    <3>1. down' = down
      BY <2>7 DEF Hidden, down
    <3>2. /\ owed[m] # "nothing" /\ owed' = [owed EXCEPT ![m] = "nothing"]
          /\ told' = [told EXCEPT ![m] = owed[m]]
      BY <2>2, <2>3, <2>4, <2>7
    <3> QED BY <3>1, <3>2 DEF Promise!Next, Promise!Tell, down, owed
  <2> QED BY <1>2, <2>5, <2>6, <2>7 DEF Shown
<1> QED BY <1>1, <1>2

\* What a step does for the incidents on record, and shows of them.
Keeps == \A k \in Monitors : Records(k)'

Shows(m) == (Hidden(m) \/ Shown(m)) /\ \A k \in Monitors : k # m => Hidden(k)

\* The call goes on with the record r; other calls, and other monitors' rows, stay.
Moves(m, l, r) ==
    /\ \A k \in Monitors, n \in Lanes :
          jobs'[k][n] = IF k = m /\ n = l THEN r ELSE jobs[k][n]
    /\ row' = row
    /\ \A k \in Monitors : k # m => /\ status'[k] = status[k] /\ openInc'[k] = openInc[k]
                                    /\ told'[k] = told[k]

\* The record r fits what is then on record of the monitor.
Fits(m, r) ==
    /\ Single(openInc'[m])
    /\ Recorded(r, status'[m], openInc'[m])
    /\ r.pc \notin HalfwayPcs => Matches(status'[m], openInc'[m])

LEMMA CallStep ==
    ASSUME OutageInv, AlertInv', Apart, NEW m \in Monitors, NEW l \in Lanes, Busy(m, l), NEW r,
           Moves(m, l, r), Fits(m, r)
    PROVE  /\ Keeps
           /\ \A k \in Monitors : k # m => Hidden(k)
           /\ Owed(m) = Debt(jobs[m][l]) /\ Owed(m)' = Debt(r)
<1>1. \A n \in Lanes : n # l => jobs[m][n].pc = "idle" /\ jobs'[m][n] = jobs[m][n]
  BY DEF Apart, Busy, Moves
<1>2. jobs'[m][l] = r
  BY DEF Moves
<1>3. ASSUME NEW k \in Monitors, k # m PROVE Records(k)' /\ Hidden(k)
  <2>1. jobs'[k] = jobs[k]
    BY <1>3 DEF OutageInv, AlertInv, TypeOK, Moves
  <2>2. /\ status'[k] = status[k] /\ openInc'[k] = openInc[k] /\ told'[k] = told[k]
        /\ row'[k] = row[k]
    BY <1>3 DEF Moves
  <2> QED BY <2>1, <2>2, OwedIsDebt DEF OutageInv, Records, Halfway, Hidden
<1>4. Records(m)'
  <2>1. Halfway(m)' <=> r.pc \in HalfwayPcs
    BY <1>1, <1>2 DEF Halfway, HalfwayPcs
  <2>2. \A n \in Lanes : Recorded(jobs[m][n], status[m], openInc[m])'
    BY <1>1, <1>2 DEF Recorded, Fits
  <2> QED BY <2>1, <2>2 DEF Records, Fits
<1>5. Owed(m) = Debt(jobs[m][l])
  <2>1. \A n \in Lanes : n # l => Debt(jobs[m][n]) = "nothing"
    BY <1>1, IdleDebt
  <2> QED BY <2>1, OneDebt, OwedIsDebt
<1>6. Owed(m)' = Debt(r)
  <2>1. \A n \in Lanes : n # l => Debt(jobs'[m][n]) = "nothing"
    BY <1>1, IdleDebt
  <2> QED BY <1>2, <2>1, OneDebt, OwedIsDebt
<1> QED BY <1>3, <1>4, <1>5, <1>6 DEF Keeps

LEMMA CallFacts ==
    ASSUME OutageInv, Apart, NEW m \in Monitors, NEW l \in Lanes, jobs[m][l].pc # "idle",
           row[m] = "live"
    PROVE  /\ Busy(m, l) /\ jobs[m][l] \in Job /\ jobs \in JobTable
           /\ Agrees(jobs[m][l], row[m], status[m], alerts[m])
           /\ Single(openInc[m]) /\ Recorded(jobs[m][l], status[m], openInc[m])
           /\ jobs[m][l].pc \notin HalfwayPcs => Matches(status[m], openInc[m])
<1>1. AlertInv /\ Records(m)
  BY DEF OutageInv
<1>2. \A n \in Lanes : n # l => jobs[m][n].pc = "idle"
  BY DEF Apart, Busy
<1>3. jobs[m][l].pc \notin HalfwayPcs => ~Halfway(m)
  BY <1>2 DEF Halfway, HalfwayPcs
<1> QED BY <1>1, <1>3, BusyFacts DEF Records

\* A call that goes on without a write the owner could see.
LEMMA CheckOutage ==
    ASSUME OutageInv, AlertInv', Apart, NEW m \in Monitors, NEW l \in Lanes, row[m] = "live",
           Check(m, l)
    PROVE  Keeps /\ Shows(m)
<1> DEFINE r == [jobs[m][l] EXCEPT !.pc = "beat", !.out = site[m],
                                   !.muted = jobs[m][l].mute > 0, !.mute = 0]
<1>1. jobs[m][l].pc = "check" /\ UNCHANGED <<row, status, openInc, told>>
  BY DEF Check, db, user
<1>2. r.pc = "beat"
  BY <1>1, CallFacts DEF Job
<1>3. jobs' = [jobs EXCEPT ![m][l] = r]
  BY <1>1, CallFacts DEF Check, JobTable
<1> HIDE DEF r
<1>4. Moves(m, l, r)
  BY <1>1, <1>3, CallFacts DEF JobTable, Moves
<1>5. Fits(m, r)
  BY <1>1, <1>2, CallFacts DEF Fits, Recorded, HalfwayPcs
<1>6. /\ Keeps /\ \A k \in Monitors : k # m => Hidden(k)
      /\ Owed(m) = Debt(jobs[m][l]) /\ Owed(m)' = Debt(r)
  BY <1>1, <1>4, <1>5, CallFacts, CallStep
<1>7. Hidden(m)
  BY <1>1, <1>2, <1>6, IdleDebt DEF Hidden
<1> QED BY <1>6, <1>7 DEF Shows

LEMMA BeatOutage ==
    ASSUME OutageInv, AlertInv', Apart, NEW m \in Monitors, NEW l \in Lanes, row[m] = "live",
           Beat(m, l)
    PROVE  Keeps /\ Shows(m)
<1> DEFINE r == [jobs[m][l] EXCEPT !.pc = "count"]
<1>1. /\ jobs[m][l].pc = "beat" /\ UNCHANGED <<row, status, openInc, told>>
      /\ GoTo(m, l, "count") /\ "count" \in Pc
  BY DEF Beat, Pc, user
<1>2. r.pc = "count"
  BY <1>1, CallFacts DEF Job
<1>3. \A k \in Monitors, n \in Lanes :
          jobs'[k][n] = IF k = m /\ n = l THEN r ELSE jobs[k][n]
  BY <1>1, CallFacts, GoToOK
<1> HIDE DEF r
<1>4. Moves(m, l, r) /\ Fits(m, r)
  BY <1>1, <1>2, <1>3, CallFacts DEF Moves, Fits, Recorded, HalfwayPcs
<1>5. /\ Keeps /\ \A k \in Monitors : k # m => Hidden(k)
      /\ Owed(m) = Debt(jobs[m][l]) /\ Owed(m)' = Debt(r)
  BY <1>1, <1>4, CallFacts, CallStep
<1>6. Hidden(m)
  BY <1>1, <1>2, <1>5, IdleDebt DEF Hidden
<1> QED BY <1>5, <1>6 DEF Shows

\* The decision fits the incidents, because it fits the status.
LEMMA CountOutage ==
    ASSUME OutageInv, AlertInv', Apart, NEW m \in Monitors, NEW l \in Lanes, row[m] = "live",
           Count(m, l)
    PROVE  Keeps /\ Shows(m)
<1> DEFINE out == jobs[m][l].out
           tr  == Decide(jobs[m][l].prev, out, NextFails(m, out), Retries)
           r   == [jobs[m][l] EXCEPT !.pc = NextPc(tr), !.tr = tr]
<1>1. /\ jobs[m][l].pc = "count" /\ jobs[m][l].prev = status[m] /\ jobs[m][l] \in Job
      /\ jobs \in JobTable /\ Busy(m, l)
      /\ Matches(status[m], openInc[m]) /\ Single(openInc[m])
      /\ UNCHANGED <<row, status, openInc, told>>
  BY CallFacts DEF Count, Agrees, HalfwayPcs, db, user
<1>2. /\ tr = "recovered" => status[m] = "down"
      /\ tr = "went-down" => status[m] # "down"
      /\ tr = "stay-up" => status[m] # "down"
      /\ tr \in Transition
  BY <1>1, DecideOK DEF Decide
<1>3. /\ NextPc(tr) = "find" => tr = "recovered"
      /\ NextPc(tr) = "open" => tr = "went-down"
      /\ NextPc(tr) = "update" => tr \in {"stay-up", "pending-down", "stay-down"}
      /\ NextPc(tr) \in {"find", "open", "update"}
  <2> HIDE DEF tr
  <2> QED BY <1>2 DEF NextPc, Transition
<1>4. jobs' = [jobs EXCEPT ![m][l] = r]
  BY <1>1 DEF Count, JobTable
<1> HIDE DEF tr
<1>5. r.pc = NextPc(tr) /\ r.tr = tr
  BY <1>1 DEF Job
<1> HIDE DEF r
<1>6. Moves(m, l, r)
  BY <1>1, <1>4 DEF JobTable, Moves
<1>7. Fits(m, r)
  BY <1>1, <1>2, <1>3, <1>5 DEF Fits, Recorded, Matches, Written
<1>8. /\ Keeps /\ \A k \in Monitors : k # m => Hidden(k)
      /\ Owed(m) = Debt(jobs[m][l]) /\ Owed(m)' = Debt(r)
  BY <1>1, <1>6, <1>7, CallStep
<1>9. Debt(jobs[m][l]) = "nothing" /\ Debt(r) = "nothing"
  BY <1>1, <1>3, <1>5, IdleDebt DEF Debt
<1> QED BY <1>1, <1>8, <1>9 DEF Shows, Hidden

LEMMA FindOutage ==
    ASSUME OutageInv, AlertInv', Apart, NEW m \in Monitors, NEW l \in Lanes, row[m] = "live",
           FindIncident(m, l)
    PROVE  Keeps /\ Shows(m)
<1>1. /\ jobs[m][l].pc = "find" /\ jobs[m][l] \in Job /\ jobs \in JobTable /\ Busy(m, l)
      /\ Single(openInc[m]) /\ openInc[m] # {}
      /\ UNCHANGED <<row, status, openInc, told>>
  BY CallFacts DEF FindIncident, Recorded, db, user
<1>2. PICK i \in openInc[m] : jobs' = [jobs EXCEPT ![m][l].pc = "close", ![m][l].inc = i]
  BY <1>1 DEF FindIncident
<1> DEFINE r == [jobs[m][l] EXCEPT !.pc = "close", !.inc = i]
<1>3. r.pc = "close" /\ r.inc = i
  BY <1>1 DEF Job
<1>4. jobs' = [jobs EXCEPT ![m][l] = r]
  BY <1>1, <1>2 DEF JobTable
<1> HIDE DEF r
<1>5. Moves(m, l, r)
  BY <1>1, <1>4 DEF JobTable, Moves
<1>6. Fits(m, r)
  BY <1>1, <1>3 DEF Fits, Recorded, HalfwayPcs
<1>7. /\ Keeps /\ \A k \in Monitors : k # m => Hidden(k)
      /\ Owed(m) = Debt(jobs[m][l]) /\ Owed(m)' = Debt(r)
  BY <1>1, <1>5, <1>6, CallStep
<1>8. Debt(jobs[m][l]) = "nothing" /\ Debt(r) = "nothing"
  BY <1>1, <1>3, IdleDebt
<1> QED BY <1>1, <1>7, <1>8 DEF Shows, Hidden

\* The one open incident ends: the end of the outage, to be told unless muted.
LEMMA CloseOutage ==
    ASSUME OutageInv, AlertInv', Apart, NEW m \in Monitors, NEW l \in Lanes, row[m] = "live",
           CloseIncident(m, l)
    PROVE  Keeps /\ Shows(m)
<1> DEFINE pc == IF jobs[m][l].muted THEN "update" ELSE "tellUp"
           r  == [jobs[m][l] EXCEPT !.pc = pc, !.inc = NoIncident]
<1>1. /\ jobs[m][l].pc = "close" /\ jobs[m][l] \in Job /\ jobs \in JobTable /\ Busy(m, l)
      /\ Single(openInc[m]) /\ jobs[m][l].inc \in openInc[m] /\ jobs[m][l].tr = "recovered"
      /\ UNCHANGED <<row, status, told>>
  BY CallFacts DEF CloseIncident, Recorded, Agrees, user
<1>2. openInc' = [openInc EXCEPT ![m] = @ \ {jobs[m][l].inc}]
  BY DEF CloseIncident
<1>3. openInc[m] # {} /\ openInc'[m] = {} /\ \A k \in Monitors : k # m => openInc'[k] = openInc[k]
  BY <1>1, <1>2 DEF Single, OutageInv, AlertInv, TypeOK
<1>4. r.pc = pc /\ r.tr = "recovered"
  BY <1>1 DEF Job
<1>5. jobs' = [jobs EXCEPT ![m][l] = r]
  BY <1>1 DEF CloseIncident, JobTable
<1> HIDE DEF r
<1>6. Moves(m, l, r)
  BY <1>1, <1>3, <1>5 DEF JobTable, Moves
<1>7. Fits(m, r)
  BY <1>3, <1>4 DEF Fits, Recorded, Written, Single, HalfwayPcs
<1>8. /\ Keeps /\ \A k \in Monitors : k # m => Hidden(k)
      /\ Owed(m) = Debt(jobs[m][l]) /\ Owed(m)' = Debt(r)
  BY <1>1, <1>6, <1>7, CallStep
<1>9. Debt(jobs[m][l]) = "nothing" /\ Debt(r) \in {"up", "nothing"}
  BY <1>1, <1>4, IdleDebt DEF Debt
<1>10. Shown(m)
  BY <1>1, <1>3, <1>8, <1>9 DEF Shown
<1> QED BY <1>8, <1>10 DEF Shows

\* notifyRecovery: what was owed is told.
LEMMA TellUpOutage ==
    ASSUME OutageInv, AlertInv', Apart, NEW m \in Monitors, NEW l \in Lanes, row[m] = "live",
           jobs[m][l].pc = "tellUp", GoTo(m, l, "update"), UNCHANGED <<row, status, openInc>>,
           \A k \in Monitors : k # m => told'[k] = told[k]
    PROVE  /\ Keeps /\ \A k \in Monitors : k # m => Hidden(k)
           /\ Owed(m) = "up" /\ Owed(m)' = "nothing"
<1> DEFINE r == [jobs[m][l] EXCEPT !.pc = "update"]
<1>1. /\ jobs[m][l] \in Job /\ jobs \in JobTable /\ Busy(m, l)
      /\ openInc[m] = {} /\ jobs[m][l].tr = "recovered"
  BY CallFacts DEF Recorded, Agrees
<1>2. r.pc = "update" /\ r.tr = "recovered"
  BY <1>1 DEF Job
<1>3. \A k \in Monitors, n \in Lanes :
          jobs'[k][n] = IF k = m /\ n = l THEN r ELSE jobs[k][n]
  <2>1. GoTo(m, l, "update") /\ "update" \in Pc
    BY DEF Pc
  <2> QED BY <1>1, <2>1, GoToOK
<1> HIDE DEF r
<1>4. Moves(m, l, r) /\ Fits(m, r)
  BY <1>1, <1>2, <1>3 DEF Moves, Fits, Recorded, Written, Single, HalfwayPcs
<1>5. /\ Keeps /\ \A k \in Monitors : k # m => Hidden(k)
      /\ Owed(m) = Debt(jobs[m][l]) /\ Owed(m)' = Debt(r)
  BY <1>1, <1>4, CallStep
<1> QED BY <1>2, <1>5 DEF Debt

\* The outage begins with its incident.
LEMMA OpenOutage ==
    ASSUME OutageInv, AlertInv', Apart, NEW m \in Monitors, NEW l \in Lanes, row[m] = "live",
           OpenIncident(m, l)
    PROVE  Keeps /\ Shows(m)
<1> DEFINE r == [jobs[m][l] EXCEPT !.pc = "update"]
<1>1. /\ jobs[m][l].pc = "open" /\ jobs[m][l] \in Job /\ jobs \in JobTable /\ Busy(m, l)
      /\ openInc[m] = {} /\ jobs[m][l].tr = "went-down"
      /\ UNCHANGED <<row, status, told>>
  BY CallFacts DEF OpenIncident, Recorded, Agrees, user
<1>2. PICK i : openInc' = [openInc EXCEPT ![m] = @ \cup {i}]
  BY DEF OpenIncident
<1>3. openInc'[m] = {i} /\ \A k \in Monitors : k # m => openInc'[k] = openInc[k]
  BY <1>1, <1>2 DEF OutageInv, AlertInv, TypeOK
<1>4. r.pc = "update" /\ r.tr = "went-down"
  BY <1>1 DEF Job
<1>5. \A k \in Monitors, n \in Lanes :
          jobs'[k][n] = IF k = m /\ n = l THEN r ELSE jobs[k][n]
  <2>1. GoTo(m, l, "update") /\ "update" \in Pc
    BY DEF OpenIncident, Pc
  <2> QED BY <1>1, <2>1, GoToOK
<1> HIDE DEF r
<1>6. Moves(m, l, r) /\ Fits(m, r)
  BY <1>1, <1>3, <1>4, <1>5 DEF Moves, Fits, Recorded, Written, Single, HalfwayPcs
<1>7. /\ Keeps /\ \A k \in Monitors : k # m => Hidden(k)
      /\ Owed(m) = Debt(jobs[m][l]) /\ Owed(m)' = Debt(r)
  BY <1>1, <1>6, CallStep
<1>8. Debt(jobs[m][l]) = "nothing" /\ Debt(r) \in {"down", "nothing"}
  BY <1>1, <1>4, IdleDebt DEF Debt
<1>9. Shown(m)
  BY <1>1, <1>3, <1>7, <1>8 DEF Shown
<1> QED BY <1>7, <1>9 DEF Shows

\* The write of the status makes it agree with the incidents again.
LEMMA UpdateOutage ==
    ASSUME OutageInv, AlertInv', Apart, NEW m \in Monitors, NEW l \in Lanes, row[m] = "live",
           Update(m, l)
    PROVE  Keeps /\ Shows(m)
<1> DEFINE job == jobs[m][l]
           new == Written(status[m], job.tr)
           r   == IF job.tr = "went-down" /\ ~job.muted
                  THEN [job EXCEPT !.pc = "tellDown"] ELSE NoJob
<1>1. /\ job.pc = "update" /\ job \in Job /\ jobs \in JobTable /\ Busy(m, l)
      /\ Single(openInc[m]) /\ (openInc[m] # {} <=> new = "down")
      /\ UNCHANGED <<row, openInc, told>>
  BY CallFacts DEF Update, WriteStatus, Recorded
<1>2. status' = [status EXCEPT ![m] = new]
  BY <1>1 DEF Update, WriteStatus
<1>3. status'[m] = new /\ \A k \in Monitors : k # m => status'[k] = status[k]
  BY <1>2 DEF OutageInv, AlertInv, TypeOK
<1>4. \A k \in Monitors, n \in Lanes :
          jobs'[k][n] = IF k = m /\ n = l THEN r ELSE jobs[k][n]
  <2>1. CASE job.tr = "went-down" /\ ~job.muted
    <3>1. GoTo(m, l, "tellDown") /\ "tellDown" \in Pc
      BY <2>1 DEF Update, Pc
    <3> QED BY <1>1, <2>1, <3>1, GoToOK
  <2>2. CASE ~(job.tr = "went-down" /\ ~job.muted)
    BY <1>1, <2>2, FinishOK DEF Update
  <2> QED BY <2>1, <2>2
<1>5. \/ r.pc = "tellDown" /\ r.tr = "went-down" /\ ~r.muted /\ Debt(r) = Debt(job)
      \/ r.pc = "idle" /\ Debt(r) = "nothing" /\ Debt(job) = "nothing"
  <2>1. CASE job.tr = "went-down" /\ ~job.muted
    <3>1. r.pc = "tellDown" /\ r.tr = "went-down" /\ ~r.muted
      BY <1>1, <2>1 DEF Job
    <3> HIDE DEF r
    <3> QED BY <1>1, <2>1, <3>1 DEF Debt
  <2>2. CASE ~(job.tr = "went-down" /\ ~job.muted)
    BY <1>1, <2>2 DEF Debt, NoJob
  <2> QED BY <2>1, <2>2
<1> HIDE DEF r, job, new
<1>6. Moves(m, l, r) /\ Fits(m, r)
  BY <1>1, <1>3, <1>4, <1>5 DEF Moves, Fits, Recorded, Matches
<1>7. /\ Keeps /\ \A k \in Monitors : k # m => Hidden(k)
      /\ Owed(m) = Debt(job) /\ Owed(m)' = Debt(r)
  BY <1>1, <1>6, CallStep DEF job
<1> QED BY <1>1, <1>5, <1>7 DEF Shows, Hidden

\* notifyDown: what was owed is told, and the call is over.
LEMMA TellDownOutage ==
    ASSUME OutageInv, AlertInv', Apart, NEW m \in Monitors, NEW l \in Lanes, row[m] = "live",
           jobs[m][l].pc = "tellDown", Finish(m, l), UNCHANGED <<row, status, openInc>>,
           \A k \in Monitors : k # m => told'[k] = told[k]
    PROVE  /\ Keeps /\ \A k \in Monitors : k # m => Hidden(k)
           /\ Owed(m) = "down" /\ Owed(m)' = "nothing"
<1>1. /\ jobs[m][l] \in Job /\ jobs \in JobTable /\ Busy(m, l)
      /\ Single(openInc[m]) /\ Matches(status[m], openInc[m])
      /\ jobs[m][l].tr = "went-down" /\ ~jobs[m][l].muted
  BY CallFacts DEF Recorded, HalfwayPcs
<1>2. \A k \in Monitors, n \in Lanes :
          jobs'[k][n] = IF k = m /\ n = l THEN NoJob ELSE jobs[k][n]
  BY <1>1, FinishOK
<1>3. Moves(m, l, NoJob) /\ Fits(m, NoJob) /\ NoJob.pc = "idle"
  BY <1>1, <1>2 DEF Moves, Fits, Recorded, NoJob
<1>4. /\ Keeps /\ \A k \in Monitors : k # m => Hidden(k)
      /\ Owed(m) = Debt(jobs[m][l]) /\ Owed(m)' = Debt(NoJob)
  BY <1>1, <1>3, CallStep
<1> QED BY <1>1, <1>3, <1>4 DEF Debt

LEMMA TellOutage ==
    ASSUME OutageInv, AlertInv', Apart, NEW m \in Monitors, NEW l \in Lanes, row[m] = "live",
           TellUp(m, l) \/ TellDown(m, l)
    PROVE  Keeps /\ Shows(m)
<1>1. told[m] \in {"nothing", "down", "up"} /\ told \in [Monitors -> {"nothing", "down", "up"}]
  BY DEF OutageInv, AlertInv, TypeOK
<1>2. CASE TellUp(m, l)
  <2>1. /\ told'[m] = "up" /\ \A k \in Monitors : k # m => told'[k] = told[k]
        /\ UNCHANGED <<row, status, openInc>> /\ jobs[m][l].pc = "tellUp" /\ GoTo(m, l, "update")
    BY <1>1, <1>2 DEF TellUp, db
  <2>2. /\ Keeps /\ \A k \in Monitors : k # m => Hidden(k)
        /\ Owed(m) = "up" /\ Owed(m)' = "nothing"
    BY <2>1, TellUpOutage
  <2> QED BY <2>1, <2>2 DEF Shows, Shown
<1>3. CASE TellDown(m, l)
  <2>1. /\ told'[m] = "down" /\ \A k \in Monitors : k # m => told'[k] = told[k]
        /\ UNCHANGED <<row, status, openInc>> /\ jobs[m][l].pc = "tellDown" /\ Finish(m, l)
    BY <1>1, <1>3 DEF TellDown, db
  <2>2. /\ Keeps /\ \A k \in Monitors : k # m => Hidden(k)
        /\ Owed(m) = "down" /\ Owed(m)' = "nothing"
    BY <2>1, TellDownOutage
  <2> QED BY <2>1, <2>2 DEF Shows, Shown
<1> QED BY <1>2, <1>3

\* A message that is lost leaves the records as they should be, though it was owed.
LEMMA LostOutage ==
    ASSUME OutageInv, AlertInv', Apart, NEW m \in Monitors, NEW l \in Lanes, row[m] = "live",
           TelegramError(m, l)
    PROVE  Keeps
<1>1. UNCHANGED <<row, status, openInc, told>>
  BY DEF TelegramError, db, user
<1> QED BY <1>1, TellUpOutage, TellDownOutage DEF TelegramError

\* The calls of k stay where they are, or are queued, begun or dropped from the queue.
Still(k) ==
    /\ status'[k] = status[k] /\ openInc'[k] = openInc[k]
    /\ \A n \in Lanes :
          \/ jobs'[k][n] = jobs[k][n]
          \/ {jobs[k][n].pc, jobs'[k][n].pc} \subseteq {"idle", "queued", "check"}
          \/ /\ jobs'[k][n].pc = jobs[k][n].pc /\ jobs'[k][n].tr = jobs[k][n].tr
             /\ jobs'[k][n].muted = jobs[k][n].muted /\ jobs'[k][n].inc = jobs[k][n].inc

LEMMA StillCalls ==
    ASSUME NEW k \in Monitors, Still(k), NEW n \in Lanes, NEW st, NEW inc,
           Recorded(jobs[k][n], st, inc)
    PROVE  /\ jobs'[k][n].pc \in HalfwayPcs <=> jobs[k][n].pc \in HalfwayPcs
           /\ Recorded(jobs'[k][n], st, inc)
BY DEF Still, Recorded, HalfwayPcs

LEMMA StillDebt ==
    ASSUME NEW k \in Monitors, Still(k), NEW n \in Lanes
    PROVE  Debt(jobs'[k][n]) = Debt(jobs[k][n])
BY IdleDebt DEF Still, Debt

LEMMA StillRecords ==
    ASSUME OutageInv, NEW k \in Monitors, row[k] # "removed", Still(k)
    PROVE  Records(k)'
<1>1. Records(k)
  BY DEF OutageInv
<1>2. ASSUME NEW n \in Lanes
      PROVE  /\ jobs'[k][n].pc \in HalfwayPcs <=> jobs[k][n].pc \in HalfwayPcs
             /\ Recorded(jobs'[k][n], status[k], openInc[k])
  BY <1>1, StillCalls DEF Records
<1>3. Halfway(k)' <=> Halfway(k)
  BY <1>2 DEF Halfway, HalfwayPcs
<1>4. status'[k] = status[k] /\ openInc'[k] = openInc[k]
  BY DEF Still
<1> QED BY <1>1, <1>2, <1>3, <1>4 DEF Records

LEMMA StillHidden ==
    ASSUME Apart, NEW k \in Monitors, Still(k), told' = told
    PROVE  Hidden(k)
<1>1. DebtOf(jobs'[k]) = DebtOf(jobs[k])
  <2>1. CASE \A n \in Lanes : Debt(jobs[k][n]) = "nothing"
    BY <2>1, StillDebt DEF DebtOf
  <2>2. ASSUME NEW l \in Lanes, Debt(jobs[k][l]) # "nothing"
        PROVE  DebtOf(jobs'[k]) = DebtOf(jobs[k])
    <3>1. Busy(k, l)
      BY <2>2, IdleDebt DEF Busy
    <3>2. \A n \in Lanes : n # l => jobs[k][n].pc = "idle"
      BY <3>1 DEF Apart, Busy
    <3>3. \A n \in Lanes : n # l => Debt(jobs[k][n]) = "nothing" /\ Debt(jobs'[k][n]) = "nothing"
      BY <3>2, IdleDebt, StillDebt
    <3>4. DebtOf(jobs[k]) = Debt(jobs[k][l]) /\ DebtOf(jobs'[k]) = Debt(jobs'[k][l])
      BY <3>3, OneDebt
    <3> QED BY <3>4, StillDebt
  <2> QED BY <2>1, <2>2
<1>2. openInc'[k] = openInc[k]
  BY DEF Still
<1> QED BY <1>1, <1>2, OwedIsDebt DEF Hidden

\* Ticks, time, sites and bot commands.
LEMMA OtherStill ==
    ASSUME OutageInv, Whole,
           \/ Tick \/ Crash \/ Elapse \/ UNCHANGED vars
           \/ \E m \in Monitors : Add(m) \/ Remove(m) \/ FlipSite(m)
           \/ \E u \in Users, len \in MuteLens : Mute(u, len),
           NEW k \in Monitors
    PROVE  /\ told' = told
           /\ \/ Still(k) /\ (row[k] = "removed" => row'[k] = "removed")
              \/ "remove" \in Commands /\ row'[k] = "removed"
<1>1. UNCHANGED <<status, told>>
  BY DEF Tick, StartTick, StartBatch, EndTick, Crash, Elapse, vars, Add, Remove, FlipSite, Mute,
         Whole, Fault, db, user
<1>2. ASSUME NEW m \in Monitors, Remove(m)
      PROVE  \/ Still(k) /\ row'[k] = row[k]
             \/ "remove" \in Commands /\ row'[k] = "removed"
  <2>1. CASE k = m
    BY <1>2, <2>1 DEF Remove, OutageInv, AlertInv, TypeOK
  <2>2. CASE k # m
    <3>1. UNCHANGED jobs /\ openInc'[k] = openInc[k] /\ row'[k] = row[k]
      BY <1>2, <2>2 DEF Remove, OutageInv, AlertInv, TypeOK, memory
    <3> QED BY <1>1, <3>1 DEF Still
  <2> QED BY <2>1, <2>2
<1>3. CASE \A m \in Monitors : ~Remove(m)
  <2>1. openInc' = openInc
    BY <1>3 DEF Tick, StartTick, StartBatch, EndTick, Crash, Elapse, vars, Add, FlipSite, Mute,
           Whole, Fault, db
  <2>2. row[k] = "removed" => row'[k] = "removed"
    <3>1. row' = row \/ \E m \in Monitors : Add(m)
      BY <1>3 DEF Tick, StartTick, StartBatch, EndTick, Crash, Elapse, vars, FlipSite, Mute,
             Whole, Fault, db
    <3> QED BY <3>1 DEF Add, OutageInv, AlertInv, TypeOK
  <2>3. ASSUME NEW n \in Lanes
        PROVE  \/ jobs'[k][n] = jobs[k][n]
               \/ {jobs[k][n].pc, jobs'[k][n].pc} \subseteq {"idle", "queued", "check"}
               \/ /\ jobs'[k][n].pc = jobs[k][n].pc /\ jobs'[k][n].tr = jobs[k][n].tr
                  /\ jobs'[k][n].muted = jobs[k][n].muted /\ jobs'[k][n].inc = jobs[k][n].inc
    <3>1. jobs[k][n] \in Job
      BY JobOf DEF OutageInv, AlertInv
    <3>2. CASE StartTick
      <4> DEFINE q(m) == [NoJob EXCEPT !.pc = "queued", !.prev = status[m],
                                       !.mute = muteLeft[m], !.awaited = TRUE]
      <4>1. PICK lane \in [Due -> Lanes] :
               /\ \A m \in Due : ~Busy(m, lane[m])
               /\ jobs' = [m \in Monitors |-> [l \in Lanes |->
                             IF m \in Due /\ l = lane[m] THEN q(m) ELSE jobs[m][l]]]
        BY <3>2 DEF StartTick
      <4>2. q(k).pc = "queued"
        BY DEF NoJob
      <4> HIDE DEF q
      <4>3. jobs'[k][n] = IF k \in Due /\ n = lane[k] THEN q(k) ELSE jobs[k][n]
        BY <4>1
      <4> QED BY <4>1, <4>2, <4>3 DEF Busy
    <3>3. CASE StartBatch
      <4>1. PICK batch \in SUBSET Queued :
               jobs' = [m \in Monitors |-> [l \in Lanes |->
                  IF <<m, l>> \in batch THEN [jobs[m][l] EXCEPT !.pc = "check"]
                  ELSE jobs[m][l]]]
        BY <3>3 DEF StartBatch
      <4>2. CASE <<k, n>> \in batch
        <5>1. jobs[k][n].pc = "queued"
          BY <4>2 DEF Queued
        <5>2. jobs'[k][n] = [jobs[k][n] EXCEPT !.pc = "check"]
          BY <4>1, <4>2
        <5> QED BY <3>1, <5>1, <5>2 DEF Job
      <4> QED BY <4>1, <4>2
    <3>4. CASE Elapse
      <4>1. PICK x, y : \/ jobs'[k][n] = [jobs[k][n] EXCEPT !.mute = x]
                        \/ jobs'[k][n] = [jobs[k][n] EXCEPT !.since = y]
        BY <3>4 DEF Elapse
      <4> QED BY <3>1, <4>1 DEF Job
    <3>5. CASE ~StartTick /\ ~StartBatch /\ ~Elapse
      <4>1. UNCHANGED jobs
        BY <1>3, <3>5 DEF Tick, EndTick, Crash, vars, Add, FlipSite, Mute, memory, Whole, Fault
      <4> QED BY <4>1
    <3> QED BY <3>2, <3>3, <3>4, <3>5
  <2> QED BY <1>1, <2>1, <2>2, <2>3 DEF Still
<1> QED BY <1>1, <1>2, <1>3

\* A call whose monitor is removed leaves the others' records alone.
LEMMA GoneOutage ==
    ASSUME OutageInv, Whole, NEW m \in Monitors, NEW l \in Lanes, row[m] # "live",
           JobStep(m, l) \/ TelegramError(m, l)
    PROVE  Keeps
<1>1. jobs[m][l].pc # "idle" /\ TypeOK
  BY DEF JobStep, Check, Beat, Count, FindIncident, CloseIncident, TellUp, OpenIncident,
         Update, WriteStatus, TellDown, Rejected, TelegramError, OutageInv, AlertInv
<1>2. row[m] = "removed"
  BY <1>1, BusyFacts DEF OutageInv, TypeOK
<1>3. row' = row
  BY <1>1, CallOnly DEF Rejected, db
<1>4. ASSUME NEW k \in Monitors, k # m, row[k] # "removed" PROVE Still(k)
  <2>1. CASE Rejected(m, l)
    <3>1. Throw(m, l) /\ UNCHANGED <<status, openInc>>
      BY <2>1 DEF Rejected, db
    <3>2. ASSUME NEW n \in Lanes
          PROVE  \/ jobs'[k][n] = NoJob /\ jobs[k][n].pc = "queued"
                 \/ jobs'[k][n] \in {jobs[k][n], [jobs[k][n] EXCEPT !.awaited = FALSE]}
      BY <1>1, <1>4, <3>1, ThrowCases
    <3>3. \A n \in Lanes : jobs[k][n] \in Job
      BY <1>1, JobOf
    <3>4. NoJob.pc = "idle"
      BY DEF NoJob
    <3> QED BY <3>1, <3>2, <3>3, <3>4 DEF Still, Job
  <2>2. CASE ~Rejected(m, l)
    <3>1. status'[k] = status[k] /\ openInc'[k] = openInc[k]
      BY <1>1, <1>4, <2>2, CallOnly
    <3>2. \A n \in Lanes : jobs'[k][n] = jobs[k][n]
      BY <1>1, <1>4, <2>2, CallOnly
    <3> QED BY <3>1, <3>2 DEF Still
  <2> QED BY <2>1, <2>2
<1>5. ASSUME NEW k \in Monitors PROVE Records(k)'
  <2>1. CASE row[k] = "removed"
    BY <1>3, <2>1 DEF Records
  <2>2. CASE row[k] # "removed"
    BY <1>2, <1>4, <2>2, StillRecords
  <2> QED BY <2>1, <2>2
<1> QED BY <1>5 DEF Keeps

\* A step of a call, and of the database under it.
LEMMA JobOutage ==
    ASSUME OutageInv, AlertInv', Apart, Whole, NEW m \in Monitors, NEW l \in Lanes,
           JobStep(m, l) \/ DbError(m, l) \/ UpdateLost(m, l) \/ TelegramError(m, l)
    PROVE  Keeps /\ (row[m] = "live" => Shows(m) \/ TelegramError(m, l))
<1>1. ~DbError(m, l) /\ ~UpdateLost(m, l)
  BY DEF Whole, DbError, UpdateLost, Fault
<1>2. CASE row[m] = "live"
  <2>1. ~Rejected(m, l)
    BY <1>2 DEF Rejected
  <2> QED BY <1>1, <1>2, <2>1, CheckOutage, BeatOutage, CountOutage, FindOutage, CloseOutage,
             OpenOutage, UpdateOutage, TellOutage, LostOutage DEF JobStep
<1>3. CASE row[m] # "live"
  BY <1>1, <1>3, GoneOutage
<1> QED BY <1>2, <1>3

LEMMA StepOutageInv == ASSUME Whole, OutageInv, Apart, [Next]_vars PROVE OutageInv'
<1>1. AlertInv'
  BY StepAlertInv DEF OutageInv
<1>2. ASSUME NEW m \in Monitors, NEW l \in Lanes,
             JobStep(m, l) \/ DbError(m, l) \/ UpdateLost(m, l) \/ TelegramError(m, l)
      PROVE  Keeps
  BY <1>1, <1>2, JobOutage
<1>3. ASSUME \/ Tick \/ Crash \/ Elapse \/ UNCHANGED vars
             \/ \E m \in Monitors : Add(m) \/ Remove(m) \/ FlipSite(m)
             \/ \E u \in Users, len \in MuteLens : Mute(u, len)
      PROVE  Keeps
  <2> SUFFICES ASSUME NEW k \in Monitors PROVE Records(k)'
    BY DEF Keeps
  <2>1. CASE row'[k] = "removed"
    BY <2>1 DEF Records
  <2>2. CASE row'[k] # "removed"
    <3>1. Still(k) /\ row[k] # "removed"
      BY <1>3, <2>2, OtherStill
    <3> QED BY <3>1, StillRecords
  <2> QED BY <2>1, <2>2
<1>4. Keeps
  BY <1>2, <1>3 DEF Next
<1> QED BY <1>1, <1>4 DEF OutageInv, Keeps

LEMMA InitOutageInv == Init => OutageInv
<1> SUFFICES ASSUME Init PROVE OutageInv
  OBVIOUS
<1>1. AlertInv
  BY InitAlertInv
<1>2. ASSUME NEW m \in Monitors PROVE Records(m)
  <2>1. \A l \in Lanes : jobs[m][l].pc = "idle"
    BY DEF Init, NoJob
  <2>2. openInc[m] = {} /\ status[m] = "unknown"
    BY DEF Init
  <2> QED BY <2>1, <2>2 DEF Records, Halfway, Recorded, Single, Matches
<1> QED BY <1>1, <1>2 DEF OutageInv

\* Unless two checks of a monitor overlap, its status and its incidents agree whenever no
\* check is between the two writes, and at most one incident is open (processMonitor): for
\* any mutes, removals and lost messages, as long as no call is cut off between the writes
\* by the database or the end of the process.
THEOREM StatusMatchesIncidentsHolds ==
    ASSUME Whole PROVE Spec /\ []Apart => []StatusMatchesIncidents
<1>1. OutageInv /\ Apart /\ [Next]_vars => OutageInv'
  BY StepOutageInv
<1>2. OutageInv => StatusMatchesIncidents
  BY DEF OutageInv, Records, Matches, Single, StatusMatchesIncidents
<1> QED BY <1>1, <1>2, InitOutageInv, PTL DEF Spec

\* So the latch of tick() is enough if nothing is removed either, or there is one monitor.
THEOREM StatusMatchesIfSerial ==
    ASSUME Whole, Serial PROVE Spec => []StatusMatchesIncidents
BY StatusMatchesIncidentsHolds, TicksNeverOverlap, PTL

----------------------------------------------------------------------------
(* Every step is one of Outage, or none it can see                         *)

LEMMA InitShows == Init => Promise!Init
<1> SUFFICES ASSUME Init PROVE Promise!Init
  OBVIOUS
<1>1. ASSUME NEW m \in Monitors PROVE openInc[m] = {} /\ Owed(m) = "nothing"
  <2>1. \A l \in Lanes : Debt(jobs[m][l]) = "nothing"
    BY IdleDebt DEF Init, NoJob
  <2> QED BY <2>1, OwedIsDebt DEF Init, DebtOf
<1> QED BY <1>1 DEF Init, Promise!Init

LEMMA StepShows ==
    ASSUME Undisturbed, "telegram" \notin Faults, OutageInv, Sequential, [Next]_vars
    PROVE  [Promise!Next]_(Promise!vars)
<1>1. Apart /\ Whole
  BY DEF Sequential, Apart, Undisturbed, NoThrow, Whole
<1>2. OutageInv'
  BY <1>1, StepOutageInv
<1>3. told \in [Monitors -> Promise!News] /\ told' \in [Monitors -> Promise!News]
  BY <1>2 DEF OutageInv, AlertInv, TypeOK, Promise!News
<1>4. ASSUME NEW m \in Monitors, NEW l \in Lanes,
             JobStep(m, l) \/ DbError(m, l) \/ UpdateLost(m, l) \/ TelegramError(m, l)
      PROVE  [Promise!Next]_(Promise!vars)
  <2>1. ~DbError(m, l) /\ ~UpdateLost(m, l) /\ ~TelegramError(m, l)
    BY DEF Undisturbed, NoThrow, DbError, UpdateLost, TelegramError, Fault
  <2>2. Busy(m, l)
    BY <1>4, <2>1 DEF Busy, JobStep, Check, Beat, Count, FindIncident, CloseIncident, TellUp,
                      OpenIncident, Update, WriteStatus, TellDown, Rejected
  <2>3. row[m] = "live"
    BY <2>2 DEF Sequential, Undisturbed, NoThrow
  <2>4. Shows(m)
    BY <1>1, <1>2, <1>4, <2>1, <2>3, JobOutage DEF OutageInv
  <2> QED BY <1>3, <2>4, ShownIsStep DEF Shows
<1>5. ASSUME \A k \in Monitors : Hidden(k), UNCHANGED told
      PROVE  UNCHANGED Promise!vars
  <2>1. /\ [k \in Monitors |-> openInc[k] # {}]' = [k \in Monitors |-> openInc[k] # {}]
        /\ [k \in Monitors |-> Owed(k)]' = [k \in Monitors |-> Owed(k)]
    BY <1>5 DEF Hidden
  <2> QED BY <1>5, <2>1 DEF Promise!vars
<1>6. ASSUME \/ Tick \/ Crash \/ Elapse \/ UNCHANGED vars
             \/ \E m \in Monitors : Add(m) \/ Remove(m) \/ FlipSite(m)
             \/ \E u \in Users, len \in MuteLens : Mute(u, len)
      PROVE  UNCHANGED Promise!vars
  <2>1. told' = told
    BY <1>6 DEF Tick, StartTick, StartBatch, EndTick, Crash, Elapse, vars, Add, Remove, FlipSite,
                Mute, user, Undisturbed, Fault
  <2>2. ASSUME NEW k \in Monitors PROVE Hidden(k)
    <3>1. Still(k)
      BY <1>1, <1>6, OtherStill DEF Undisturbed, NoThrow
    <3> QED BY <1>1, <2>1, <3>1, StillHidden
  <2> QED BY <1>5, <2>1, <2>2
<1> QED BY <1>4, <1>6 DEF Next

\* Whatever the order of ticks, batches, awaits, mutes and the clock, the scheduler begins
\* an outage only where none is on record, ends only the one that is, tells each end once
\* and in this order, and starts no outage before the last one is told (processMonitor).
THEOREM StepsImplementOutage ==
    ASSUME Undisturbed, "telegram" \notin Faults PROVE Spec => Promise!Safety
<1>1. Serial /\ Whole
  BY DEF Serial, Undisturbed, NoThrow, Whole
<1>2. OutageInv /\ Sequential /\ [Next]_vars => OutageInv'
  <2>1. Sequential => Apart
    BY DEF Sequential, Apart
  <2> QED BY <1>1, <2>1, StepOutageInv
<1>3. OutageInv /\ Sequential /\ [Next]_vars => [Promise!Next]_(Promise!vars)
  BY StepShows
<1>4. Spec => [](TypeOK /\ Sequential)
  BY <1>1, Serially
<1> QED BY <1>2, <1>3, <1>4, InitOutageInv, InitShows, PTL DEF Spec, Promise!Safety
============================================================================
