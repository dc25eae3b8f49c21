-------------------------- MODULE SchedulerProofs --------------------------
(***************************************************************************)
(* What holds of the scheduler for every number of monitors, lanes and     *)
(* retries, with every fault and command allowed: type correctness, the    *)
(* threshold of an incident, and a removed monitor without incidents.      *)
(***************************************************************************)
EXTENDS Scheduler, FiniteSetTheorems, TLAPS

JobTable == [Monitors -> [Lanes -> Job]]

\* A step that rewrites one call leaves the others as they are.
LEMMA SetJob ==
    ASSUME jobs \in JobTable, NEW m \in Monitors, NEW l \in Lanes, NEW r \in Job,
           jobs' = [jobs EXCEPT ![m][l] = r]
    PROVE  /\ jobs' \in JobTable
           /\ \A k \in Monitors, n \in Lanes :
                 jobs'[k][n] = IF k = m /\ n = l THEN r ELSE jobs[k][n]
BY DEF JobTable

LEMMA NoJobOK == NoJob \in Job
BY NumberAssumption, IncidentAssumption
   DEF NoJob, Job, Pc, MonitorStatus, HeartbeatStatus, Transition

LEMMA JobFields ==
    ASSUME jobs \in JobTable, NEW m \in Monitors, NEW l \in Lanes
    PROVE  jobs[m][l] \in Job
BY DEF JobTable

\* What each rewriting of one call amounts to.
LEMMA GoToOK ==
    ASSUME jobs \in JobTable, NEW m \in Monitors, NEW l \in Lanes, NEW pc \in Pc,
           GoTo(m, l, pc)
    PROVE  /\ jobs' \in JobTable
           /\ \A k \in Monitors, n \in Lanes :
                 jobs'[k][n] = IF k = m /\ n = l THEN [jobs[m][l] EXCEPT !.pc = pc]
                               ELSE jobs[k][n]
<1> DEFINE r == [jobs[m][l] EXCEPT !.pc = pc]
<1>1. r \in Job
  BY JobFields DEF Job
<1>2. jobs' = [jobs EXCEPT ![m][l] = r]
  BY DEF GoTo, JobTable
<1> HIDE DEF r
<1>3. jobs' \in JobTable /\ \A k \in Monitors, n \in Lanes :
          jobs'[k][n] = IF k = m /\ n = l THEN r ELSE jobs[k][n]
  BY <1>1, <1>2, SetJob
<1> QED BY <1>3 DEF r

LEMMA FinishOK ==
    ASSUME jobs \in JobTable, NEW m \in Monitors, NEW l \in Lanes, Finish(m, l)
    PROVE  /\ jobs' \in JobTable
           /\ \A k \in Monitors, n \in Lanes :
                 jobs'[k][n] = IF k = m /\ n = l THEN NoJob ELSE jobs[k][n]
BY NoJobOK, SetJob DEF Finish

LEMMA ThrowOK ==
    ASSUME jobs \in JobTable, ticking \in BOOLEAN,
           NEW m \in Monitors, NEW l \in Lanes, Throw(m, l)
    PROVE  jobs' \in JobTable /\ ticking' \in BOOLEAN
<1>1. CASE jobs[m][l].awaited
  <2> DEFINE r(k, n) == IF (k = m /\ n = l) \/ jobs[k][n].pc = "queued"
                        THEN NoJob ELSE [jobs[k][n] EXCEPT !.awaited = FALSE]
  <2>1. ASSUME NEW k \in Monitors, NEW n \in Lanes PROVE r(k, n) \in Job
    <3>1. jobs[k][n] \in Job
      BY JobFields
    <3>2. [jobs[k][n] EXCEPT !.awaited = FALSE] \in Job
      BY <3>1 DEF Job
    <3> QED BY <3>2, NoJobOK
  <2>2. ticking' = FALSE /\ jobs' = [k \in Monitors |-> [n \in Lanes |-> r(k, n)]]
    BY <1>1 DEF Throw
  <2> HIDE DEF r
  <2> QED BY <2>1, <2>2 DEF JobTable
<1>2. CASE ~jobs[m][l].awaited
  BY <1>2, FinishOK DEF Throw
<1> QED BY <1>1, <1>2

----------------------------------------------------------------------------
(* Type correctness                                                        *)

LEMMA InitTypeOK == Init => TypeOK
<1> SUFFICES ASSUME Init PROVE TypeOK
  OBVIOUS
<1>1. jobs \in JobTable
  BY NoJobOK DEF Init, JobTable
<1>2. 0 \in 0..Retries /\ 0 \in 0..MaxFaults /\ Interval + 1 \in 0..Interval + 1
  BY NumberAssumption
<1>3. site \in [Monitors -> HeartbeatStatus]
  BY DEF Init
<1>4. /\ status \in [Monitors -> MonitorStatus]
      /\ row \in [Monitors -> {"absent", "live", "removed"}]
      /\ told \in [Monitors -> {"nothing", "down", "up"}]
  BY DEF Init, MonitorStatus
<1>5. /\ age \in [Monitors -> 0..Interval + 1] /\ muteLeft \in [Monitors -> Nat]
      /\ alerts \in [Monitors -> 0..2] /\ streak \in [Monitors -> 0..Retries]
      /\ fails \in [Monitors -> 0..Retries] /\ faults \in 0..MaxFaults
      /\ late \in [Monitors -> Nat] /\ missed \in [Monitors -> BOOLEAN]
  BY <1>2 DEF Init
<1>6. openInc \in [Monitors -> SUBSET IncidentIds] /\ ticking \in BOOLEAN
  BY DEF Init
<1> QED BY <1>1, <1>3, <1>4, <1>5, <1>6 DEF TypeOK, JobTable

\* The queue is filled with copies of rows, in the lanes of the due monitors.
LEMMA StartTickTypeOK == ASSUME TypeOK, StartTick PROVE TypeOK'
<1> DEFINE q(m) == [NoJob EXCEPT !.pc = "queued", !.prev = status[m],
                                 !.mute = muteLeft[m], !.awaited = TRUE]
<1>1. ASSUME NEW m \in Monitors PROVE q(m) \in Job
  BY NoJobOK DEF TypeOK, Job, Pc
<1>2. PICK lane \in [Due -> Lanes] :
         jobs' = [m \in Monitors |-> [l \in Lanes |->
                     IF m \in Due /\ l = lane[m] THEN q(m) ELSE jobs[m][l]]]
  BY DEF StartTick
<1> HIDE DEF q
<1>3. jobs' \in JobTable
  BY <1>1, <1>2 DEF TypeOK, JobTable
<1> QED BY <1>3 DEF StartTick, TypeOK, JobTable, db, user

LEMMA StartBatchTypeOK == ASSUME TypeOK, StartBatch PROVE TypeOK'
<1> DEFINE r(m, l) == [jobs[m][l] EXCEPT !.pc = "check"]
<1>1. ASSUME NEW m \in Monitors, NEW l \in Lanes PROVE r(m, l) \in Job
  <2>1. jobs[m][l] \in Job
    BY DEF TypeOK
  <2> QED BY <2>1 DEF Job, Pc
<1>2. PICK batch \in SUBSET Queued :
         jobs' = [m \in Monitors |-> [l \in Lanes |->
                     IF <<m, l>> \in batch THEN r(m, l) ELSE jobs[m][l]]]
  BY DEF StartBatch
<1> HIDE DEF r
<1>3. jobs' \in JobTable
  BY <1>1, <1>2 DEF TypeOK, JobTable
<1> QED BY <1>3 DEF StartBatch, TypeOK, JobTable, db, user

\* The steps that write nothing but the call's own record, or hand over to the owner.
LEMMA CheckTypeOK ==
    ASSUME TypeOK, NEW m \in Monitors, NEW l \in Lanes, Check(m, l)
    PROVE  TypeOK'
<1> DEFINE r == [jobs[m][l] EXCEPT !.pc = "beat", !.out = site[m],
                                   !.muted = jobs[m][l].mute > 0, !.mute = 0]
<1>1. jobs[m][l] \in Job /\ site[m] \in HeartbeatStatus
  BY DEF TypeOK
<1>2. (jobs[m][l].mute > 0) \in BOOLEAN
  OBVIOUS
<1>3. r \in Job
  BY <1>1, <1>2 DEF Job, Pc
<1>4. jobs' = [jobs EXCEPT ![m][l] = r]
  BY <1>1 DEF Check, TypeOK
<1> HIDE DEF r
<1>5. jobs' \in JobTable
  BY <1>3, <1>4, SetJob DEF TypeOK, JobTable
<1> QED BY <1>5 DEF Check, TypeOK, JobTable, db, user
LEMMA CounterOK ==
    ASSUME TypeOK, NEW m \in Monitors, NEW out
    PROVE  NextFails(m, out) \in 0..Retries /\ Upto(streak[m] + 1, Retries) \in 0..Retries
BY NumberAssumption DEF NextFails, Upto, TypeOK

LEMMA DecideOK ==
    ASSUME NEW prev, NEW check, NEW n, NEW k
    PROVE  Decide(prev, check, n, k) \in Transition
BY DEF Decide, Transition

LEMMA BeatTypeOK ==
    ASSUME TypeOK, NEW m \in Monitors, NEW l \in Lanes, Beat(m, l)
    PROVE  TypeOK'
<1>1. jobs' \in JobTable
  <2>1. jobs \in JobTable /\ "count" \in Pc /\ GoTo(m, l, "count")
    BY DEF Beat, TypeOK, JobTable, Pc
  <2> QED BY <2>1, GoToOK
<1>2. streak' \in [Monitors -> 0..Retries]
  <2>1. PICK n \in {Upto(streak[m] + 1, Retries), 0} : streak' = [streak EXCEPT ![m] = n]
    BY DEF Beat
  <2>2. n \in 0..Retries
    BY CounterOK, NumberAssumption
  <2> QED BY <2>1, <2>2 DEF TypeOK
<1> QED BY <1>1, <1>2 DEF Beat, TypeOK, JobTable, user

LEMMA CountTypeOK ==
    ASSUME TypeOK, NEW m \in Monitors, NEW l \in Lanes, Count(m, l)
    PROVE  TypeOK'
<1> DEFINE out == jobs[m][l].out
           tr  == Decide(jobs[m][l].prev, out, NextFails(m, out), Retries)
           r   == [jobs[m][l] EXCEPT !.pc = NextPc(tr), !.tr = tr]
<1>1. jobs[m][l] \in Job
  BY DEF TypeOK
<1>2. tr \in Transition /\ NextPc(tr) \in Pc
  BY DecideOK DEF NextPc, Pc
<1>3. r \in Job
  <2> HIDE DEF tr
  <2> QED BY <1>1, <1>2 DEF Job
<1>4. jobs' = [jobs EXCEPT ![m][l] = r]
  BY DEF Count, TypeOK
<1>5. jobs' \in JobTable
  <2> HIDE DEF r
  <2> QED BY <1>3, <1>4, SetJob DEF TypeOK, JobTable
<1>6. fails' \in [Monitors -> 0..Retries]
  BY CounterOK, NumberAssumption DEF Count, TypeOK
<1>7. missed' \in [Monitors -> BOOLEAN]
  <2>1. missed' = [missed EXCEPT ![m] = missed[m] /\ out = "down"]
    BY DEF Count
  <2> QED BY <2>1 DEF TypeOK
<1> QED BY <1>5, <1>6, <1>7 DEF Count, TypeOK, JobTable, db, user

LEMMA FindTypeOK ==
    ASSUME TypeOK, NEW m \in Monitors, NEW l \in Lanes, FindIncident(m, l)
    PROVE  TypeOK'
<1>1. jobs[m][l] \in Job /\ openInc[m] \subseteq IncidentIds
  BY DEF TypeOK
<1>2. jobs' \in JobTable
  <2>1. CASE GoTo(m, l, "update")
    BY <2>1, GoToOK DEF TypeOK, JobTable, Pc
  <2>2. CASE ~GoTo(m, l, "update")
    <3>1. PICK i \in openInc[m] :
             jobs' = [jobs EXCEPT ![m][l].pc = "close", ![m][l].inc = i]
      BY <2>2 DEF FindIncident
    <3> DEFINE r == [jobs[m][l] EXCEPT !.pc = "close", !.inc = i]
    <3>2. r \in Job
      BY <1>1 DEF Job, Pc
    <3>3. jobs' = [jobs EXCEPT ![m][l] = r]
      BY <3>1 DEF TypeOK
    <3> HIDE DEF r
    <3> QED BY <3>2, <3>3, SetJob DEF TypeOK, JobTable
  <2> QED BY <2>1, <2>2
<1> QED BY <1>2 DEF FindIncident, TypeOK, JobTable, db, user

LEMMA CloseTypeOK ==
    ASSUME TypeOK, NEW m \in Monitors, NEW l \in Lanes, CloseIncident(m, l)
    PROVE  TypeOK'
<1> DEFINE pc == IF jobs[m][l].muted THEN "update" ELSE "tellUp"
           r  == [jobs[m][l] EXCEPT !.pc = pc, !.inc = NoIncident]
<1>1. jobs[m][l] \in Job
  BY DEF TypeOK
<1>2. r \in Job
  BY <1>1 DEF Job, Pc
<1>3. jobs' = [jobs EXCEPT ![m][l] = r]
  BY DEF CloseIncident, TypeOK
<1>4. jobs' \in JobTable
  <2> HIDE DEF r
  <2> QED BY <1>2, <1>3, SetJob DEF TypeOK, JobTable
<1>5. openInc' \in [Monitors -> SUBSET IncidentIds]
  BY DEF CloseIncident, TypeOK
<1> QED BY <1>4, <1>5 DEF CloseIncident, TypeOK, JobTable, user

LEMMA OpenTypeOK ==
    ASSUME TypeOK, NEW m \in Monitors, NEW l \in Lanes, OpenIncident(m, l)
    PROVE  TypeOK'
<1>1. jobs' \in JobTable
  BY GoToOK DEF OpenIncident, TypeOK, JobTable, Pc
<1>2. openInc' \in [Monitors -> SUBSET IncidentIds]
  BY DEF OpenIncident, FreeIds, TypeOK
<1> QED BY <1>1, <1>2 DEF OpenIncident, TypeOK, JobTable, user

LEMMA HeardOK == ASSUME TypeOK, NEW m \in Monitors, Heard(m) PROVE late' \in [Monitors -> Nat]
<1>1. Cardinality(Lanes) \in Nat
  BY LanesAssumption, FS_CardinalityType
<1>2. late[m] \in Nat /\ late \in [Monitors -> Nat]
  BY DEF TypeOK
<1> QED BY <1>1, <1>2 DEF Heard, Upto

LEMMA TellTypeOK ==
    ASSUME TypeOK, NEW m \in Monitors, NEW l \in Lanes, TellUp(m, l) \/ TellDown(m, l)
    PROVE  TypeOK'
<1>1. jobs' \in JobTable
  BY GoToOK, FinishOK DEF TellUp, TellDown, TypeOK, JobTable, Pc
<1>2. told' \in [Monitors -> {"nothing", "down", "up"}]
  BY DEF TellUp, TellDown, TypeOK
<1>3. alerts' \in [Monitors -> 0..2]
  <2>1. Upto(alerts[m] + 1, 2) \in 0..2
    BY DEF TypeOK, Upto
  <2>2. alerts' = alerts \/ alerts' = [alerts EXCEPT ![m] = Upto(@ + 1, 2)]
    BY DEF TellUp, TellDown
  <2> QED BY <2>1, <2>2 DEF TypeOK
<1>4. late' \in [Monitors -> Nat]
  BY HeardOK DEF TellUp, TellDown
<1> QED BY <1>1, <1>2, <1>3, <1>4 DEF TellUp, TellDown, TypeOK, JobTable, db

LEMMA WriteTypeOK ==
    ASSUME TypeOK, NEW m \in Monitors, NEW l \in Lanes, WriteStatus(m, l),
           jobs' \in JobTable, ticking' \in BOOLEAN, faults' \in 0..MaxFaults
    PROVE  TypeOK'
<1>1. jobs[m][l] \in Job /\ status[m] \in MonitorStatus
  BY DEF TypeOK
<1>2. Written(status[m], jobs[m][l].tr) \in MonitorStatus
  BY <1>1 DEF Written, MonitorStatus
<1>3. status' \in [Monitors -> MonitorStatus]
  BY <1>1, <1>2 DEF WriteStatus, TypeOK
<1>4. age' \in [Monitors -> 0..Interval + 1]
  BY <1>1 DEF WriteStatus, TypeOK, Job
<1>5. alerts' \in [Monitors -> 0..2]
  BY DEF WriteStatus, TypeOK
<1> QED BY <1>3, <1>4, <1>5 DEF WriteStatus, TypeOK, JobTable

LEMMA UpdateTypeOK ==
    ASSUME TypeOK, NEW m \in Monitors, NEW l \in Lanes, Update(m, l)
    PROVE  TypeOK'
<1>1. jobs' \in JobTable
  BY GoToOK, FinishOK DEF Update, TypeOK, JobTable, Pc
<1> QED BY <1>1, WriteTypeOK DEF Update, TypeOK

LEMMA FaultOK == ASSUME TypeOK, NEW kind, Fault(kind) PROVE faults' \in 0..MaxFaults
BY NumberAssumption DEF Fault, TypeOK

LEMMA FailureTypeOK ==
    ASSUME TypeOK, NEW m \in Monitors, NEW l \in Lanes,
           \/ Rejected(m, l)
           \/ DbError(m, l) \/ UpdateLost(m, l) \/ TelegramError(m, l)
    PROVE  TypeOK'
<1>1. jobs' \in JobTable /\ ticking' \in BOOLEAN
  BY ThrowOK, GoToOK, FinishOK
     DEF Rejected, DbError, UpdateLost, TelegramError, TypeOK, JobTable, Pc
<1>2. faults' \in 0..MaxFaults
  BY FaultOK DEF Rejected, DbError, UpdateLost, TelegramError, TypeOK
<1>3. CASE UpdateLost(m, l)
  BY <1>1, <1>2, <1>3, WriteTypeOK DEF UpdateLost
<1>4. CASE ~UpdateLost(m, l)
  <2>1. missed' \in [Monitors -> BOOLEAN]
    <3>1. \/ missed' = missed
          \/ \E b \in BOOLEAN : missed' = [missed EXCEPT ![m] = missed[m] \/ b]
      BY <1>4 DEF Rejected, DbError, TelegramError
    <3> QED BY <3>1 DEF TypeOK
  <2> QED BY <1>1, <1>2, <1>4, <2>1 DEF Rejected, DbError, TelegramError, TypeOK, JobTable, db, user
<1> QED BY <1>3, <1>4

LEMMA CrashTypeOK == ASSUME TypeOK, Crash PROVE TypeOK'
<1>1. jobs' \in JobTable
  BY NoJobOK DEF Crash, JobTable
<1>2. fails' \in [Monitors -> 0..Retries] /\ missed' \in [Monitors -> BOOLEAN]
  BY NumberAssumption DEF Crash
<1> QED BY <1>1, <1>2, FaultOK DEF Crash, TypeOK, JobTable, db, user

LEMMA CommandTypeOK ==
    ASSUME TypeOK,
           \/ \E m \in Monitors : Add(m) \/ Remove(m) \/ FlipSite(m)
           \/ \E u \in Users, len \in MuteLens : Mute(u, len)
    PROVE  TypeOK'
<1>1. ASSUME NEW m \in Monitors, Add(m) PROVE TypeOK'
  BY <1>1 DEF Add, TypeOK, memory, user
<1>2. ASSUME NEW m \in Monitors, Remove(m) PROVE TypeOK'
  BY <1>2, NumberAssumption DEF Remove, TypeOK, memory, user
<1>3. ASSUME NEW m \in Monitors, FlipSite(m) PROVE TypeOK'
  BY <1>3 DEF FlipSite, TypeOK, HeartbeatStatus, db, memory, user
<1>4. ASSUME NEW u \in Users, NEW len \in MuteLens, Mute(u, len) PROVE TypeOK'
  BY <1>4, NumberAssumption DEF Mute, TypeOK, memory, user
<1> QED BY <1>1, <1>2, <1>3, <1>4

LEMMA ElapseTypeOK == ASSUME TypeOK, Elapse PROVE TypeOK'
<1> DEFINE r(m, l) == IF jobs[m][l].pc \in {"idle", "queued", "check", "tellDown"}
                      THEN [jobs[m][l] EXCEPT !.mute = Sooner(@)]
                      ELSE [jobs[m][l] EXCEPT !.since = Later(@)]
<1>1. \A n \in Nat : Sooner(n) \in Nat
  BY DEF Sooner
<1>2. \A n \in 0..Interval + 1 : Later(n) \in 0..Interval + 1
  BY NumberAssumption DEF Later, Upto
<1>3. ASSUME NEW m \in Monitors, NEW l \in Lanes PROVE r(m, l) \in Job
  <2>1. jobs[m][l] \in Job
    BY DEF TypeOK
  <2> QED BY <2>1, <1>1, <1>2 DEF Job
<1>4. jobs' = [m \in Monitors |-> [l \in Lanes |-> r(m, l)]]
  BY DEF Elapse
<1>5. jobs' \in JobTable
  <2> HIDE DEF r
  <2> QED BY <1>3, <1>4 DEF JobTable
<1>6. age' \in [Monitors -> 0..Interval + 1] /\ muteLeft' \in [Monitors -> Nat]
      /\ late' \in [Monitors -> Nat]
  BY <1>1, <1>2 DEF Elapse, TypeOK
<1> QED BY <1>5, <1>6 DEF Elapse, TypeOK, JobTable, user

LEMMA StepTypeOK == TypeOK /\ [Next]_vars => TypeOK'
<1> SUFFICES ASSUME TypeOK, [Next]_vars PROVE TypeOK'
  OBVIOUS
<1>1. CASE Tick
  <2>1. CASE EndTick
    BY <2>1 DEF EndTick, TypeOK, db, user
  <2> QED BY <1>1, <2>1, StartTickTypeOK, StartBatchTypeOK DEF Tick
<1>2. ASSUME NEW m \in Monitors, NEW l \in Lanes, JobStep(m, l) PROVE TypeOK'
  BY <1>2, CheckTypeOK, BeatTypeOK, CountTypeOK, FindTypeOK, CloseTypeOK, OpenTypeOK, TellTypeOK,
     UpdateTypeOK, FailureTypeOK DEF JobStep
<1>3. ASSUME NEW m \in Monitors, NEW l \in Lanes,
             DbError(m, l) \/ UpdateLost(m, l) \/ TelegramError(m, l)
      PROVE  TypeOK'
  BY <1>3, FailureTypeOK
<1>4. CASE UNCHANGED vars
  BY <1>4 DEF vars, db, memory, user, TypeOK
<1> QED BY <1>1, <1>2, <1>3, <1>4, CrashTypeOK, CommandTypeOK, ElapseTypeOK DEF Next

\* The state of the scheduler is well formed under every fault, command and overlap.
THEOREM TypeCorrect == Spec => []TypeOK
BY InitTypeOK, StepTypeOK, PTL DEF Spec

----------------------------------------------------------------------------
(* Steps of one call                                                       *)

LEMMA JobOf == ASSUME TypeOK, NEW m \in Monitors, NEW l \in Lanes
               PROVE  jobs[m][l] \in Job /\ jobs \in JobTable
BY DEF TypeOK, JobTable

\* A step of one call rewrites its record, and of the rows at most its monitor's.
LEMMA CallOnly ==
    ASSUME TypeOK, NEW m \in Monitors, NEW l \in Lanes,
           JobStep(m, l) \/ TelegramError(m, l), ~Rejected(m, l)
    PROVE  /\ UNCHANGED <<ticking, row>>
           /\ \A k \in Monitors : k # m => status'[k] = status[k] /\ openInc'[k] = openInc[k]
           /\ Busy(m, l)
           /\ \E r : /\ \A k \in Monitors, n \in Lanes :
                           jobs'[k][n] = IF k = m /\ n = l THEN r ELSE jobs[k][n]
                     /\ r.pc # "idle" => r.awaited = jobs[m][l].awaited
<1> DEFINE Rewrites(r) == /\ jobs' = [jobs EXCEPT ![m][l] = r]
                          /\ r.pc # "idle" => r.awaited = jobs[m][l].awaited
<1>1. UNCHANGED <<ticking, row>>
  BY DEF JobStep, Check, Beat, Count, FindIncident, CloseIncident, TellUp, OpenIncident, Update, WriteStatus,
         TellDown, TelegramError, db
<1>2. \A k \in Monitors : k # m => status'[k] = status[k] /\ openInc'[k] = openInc[k]
  BY DEF TypeOK, JobStep, Check, Beat, Count, FindIncident, CloseIncident, TellUp, OpenIncident, Update, WriteStatus,
         TellDown, TelegramError, db
<1>3. Busy(m, l)
  BY DEF Busy, JobStep, Check, Beat, Count, FindIncident, CloseIncident, TellUp, OpenIncident, Update, WriteStatus,
         TellDown, TelegramError
<1>4. ASSUME NEW pc, GoTo(m, l, pc) PROVE \E r : Rewrites(r)
  <2> DEFINE r == [jobs[m][l] EXCEPT !.pc = pc]
  <2>1. r.awaited = jobs[m][l].awaited
    BY JobOf DEF Job
  <2>2. jobs' = [jobs EXCEPT ![m][l] = r]
    BY <1>4, JobOf DEF GoTo, JobTable
  <2> HIDE DEF r
  <2> QED BY <2>1, <2>2
<1>5. ASSUME Finish(m, l) PROVE \E r : Rewrites(r)
  <2>1. NoJob.pc = "idle"
    BY DEF NoJob
  <2>2. jobs' = [jobs EXCEPT ![m][l] = NoJob]
    BY <1>5 DEF Finish
  <2> QED BY <2>1, <2>2
<1>6. ASSUME Check(m, l) PROVE \E r : Rewrites(r)
  <2> DEFINE r == [jobs[m][l] EXCEPT !.pc = "beat", !.out = site[m],
                                     !.muted = jobs[m][l].mute > 0, !.mute = 0]
  <2>1. r.awaited = jobs[m][l].awaited
    BY JobOf DEF Job
  <2>2. jobs' = [jobs EXCEPT ![m][l] = r]
    BY <1>6, JobOf DEF Check, JobTable
  <2> HIDE DEF r
  <2> QED BY <2>1, <2>2
<1>7. ASSUME Count(m, l) PROVE \E r : Rewrites(r)
  <2> DEFINE tr == Decide(jobs[m][l].prev, jobs[m][l].out, NextFails(m, jobs[m][l].out), Retries)
             r  == [jobs[m][l] EXCEPT !.pc = NextPc(tr), !.tr = tr]
  <2>1. jobs' = [jobs EXCEPT ![m][l].pc = NextPc(tr), ![m][l].tr = tr]
    BY <1>7 DEF Count
  <2> HIDE DEF tr
  <2>2. r.awaited = jobs[m][l].awaited
    BY JobOf DEF Job
  <2>3. jobs' = [jobs EXCEPT ![m][l] = r]
    BY <2>1, JobOf DEF JobTable
  <2> HIDE DEF r
  <2> QED BY <2>2, <2>3
<1>8. ASSUME NEW pc, NEW inc, jobs' = [jobs EXCEPT ![m][l].pc = pc, ![m][l].inc = inc]
      PROVE  \E r : Rewrites(r)
  <2> DEFINE r == [jobs[m][l] EXCEPT !.pc = pc, !.inc = inc]
  <2>1. r.awaited = jobs[m][l].awaited
    BY JobOf DEF Job
  <2>2. jobs' = [jobs EXCEPT ![m][l] = r]
    BY <1>8, JobOf DEF JobTable
  <2> HIDE DEF r
  <2> QED BY <2>1, <2>2
<1>9. PICK r : Rewrites(r)
  BY <1>4, <1>5, <1>6, <1>7, <1>8
     DEF JobStep, Beat, FindIncident, CloseIncident, TellUp, OpenIncident, Update, TellDown, TelegramError
<1>10. \A k \in Monitors, n \in Lanes :
           jobs'[k][n] = IF k = m /\ n = l THEN r ELSE jobs[k][n]
  BY <1>9, JobOf DEF JobTable
<1> QED BY <1>1, <1>2, <1>3, <1>9, <1>10

\* What an exception makes of the calls.
LEMMA ThrowCases ==
    ASSUME TypeOK, NEW m \in Monitors, NEW l \in Lanes, Throw(m, l),
           NEW k \in Monitors, NEW n \in Lanes
    PROVE  \/ jobs'[k][n] = NoJob /\ ((k = m /\ n = l) \/ jobs[k][n].pc = "queued")
           \/ jobs'[k][n] \in {jobs[k][n], [jobs[k][n] EXCEPT !.awaited = FALSE]}
<1>1. CASE jobs[m][l].awaited
  <2>1. jobs' = [i \in Monitors |-> [j \in Lanes |->
                   IF (i = m /\ j = l) \/ jobs[i][j].pc = "queued" THEN NoJob
                   ELSE [jobs[i][j] EXCEPT !.awaited = FALSE]]]
    BY <1>1 DEF Throw
  <2> QED BY <2>1
<1>2. CASE ~jobs[m][l].awaited
  BY <1>2, JobOf, FinishOK DEF Throw
<1> QED BY <1>1, <1>2

LEMMA ThrowIdles ==
    ASSUME TypeOK, NEW m \in Monitors, NEW l \in Lanes, Throw(m, l) PROVE jobs'[m][l] = NoJob
<1>1. CASE jobs[m][l].awaited
  BY <1>1 DEF Throw
<1>2. CASE ~jobs[m][l].awaited
  BY <1>2, JobOf, FinishOK DEF Throw
<1> QED BY <1>1, <1>2

----------------------------------------------------------------------------
(* Removed monitors                                                        *)

RecordInv == TypeOK /\ RemovedLeavesNothing

\* Incidents are inserted for a row that is there, and go with it.
LEMMA StepRemoved ==
    ASSUME TypeOK, RemovedLeavesNothing, [Next]_vars PROVE RemovedLeavesNothing'
<1>1. ASSUME NEW m \in Monitors, NEW l \in Lanes, OpenIncident(m, l) \/ CloseIncident(m, l)
      PROVE  RemovedLeavesNothing'
  <2>1. CASE OpenIncident(m, l)
    <3>1. row[m] = "live" /\ row' = row /\ \A k \in Monitors : k # m => openInc'[k] = openInc[k]
      BY <2>1 DEF OpenIncident, TypeOK
    <3> QED BY <3>1 DEF RemovedLeavesNothing
  <2>2. CASE CloseIncident(m, l)
    <3>1. row' = row /\ \A k \in Monitors : openInc'[k] \subseteq openInc[k]
      BY <2>2 DEF CloseIncident, TypeOK
    <3> QED BY <3>1 DEF RemovedLeavesNothing
  <2> QED BY <1>1, <2>1, <2>2
<1>2. ASSUME NEW m \in Monitors, Add(m) \/ Remove(m) PROVE RemovedLeavesNothing'
  BY <1>2 DEF Add, Remove, RemovedLeavesNothing, TypeOK
<1>3. CASE UNCHANGED <<row, openInc>>
  BY <1>3 DEF RemovedLeavesNothing
<1>4. ASSUME NEW m \in Monitors, NEW l \in Lanes, JobStep(m, l),
             ~OpenIncident(m, l), ~CloseIncident(m, l)
      PROVE  UNCHANGED <<row, openInc>>
  BY <1>4 DEF JobStep, Check, Beat, Count, FindIncident, TellUp, Update, WriteStatus, TellDown,
              Rejected, db
<1>5. ASSUME NEW m \in Monitors, NEW l \in Lanes,
             DbError(m, l) \/ UpdateLost(m, l) \/ TelegramError(m, l)
      PROVE  UNCHANGED <<row, openInc>>
  BY <1>5 DEF DbError, UpdateLost, WriteStatus, TelegramError, db
<1>6. CASE Tick \/ Elapse \/ Crash \/ UNCHANGED vars
  BY <1>3, <1>6 DEF Tick, StartTick, StartBatch, EndTick, Elapse, Crash, vars, db
<1>7. ASSUME NEW m \in Monitors, FlipSite(m) PROVE UNCHANGED <<row, openInc>>
  BY <1>7 DEF FlipSite, db
<1>8. ASSUME NEW u \in Users, NEW len \in MuteLens, Mute(u, len)
      PROVE  UNCHANGED <<row, openInc>>
  BY <1>8 DEF Mute
<1> QED BY <1>1, <1>2, <1>3, <1>4, <1>5, <1>6, <1>7, <1>8 DEF Next

LEMMA RecordInvariance == Spec => []RecordInv
<1>1. Init => RecordInv
  BY InitTypeOK DEF Init, RecordInv, RemovedLeavesNothing
<1>2. RecordInv /\ [Next]_vars => RecordInv'
  BY StepTypeOK, StepRemoved DEF RecordInv
<1> QED BY <1>1, <1>2, PTL DEF Spec

\* No incident outlives its monitor, whatever checks were under way when the
\* owner removed it and however many of them overlap.
THEOREM RemovedMonitorsLeaveNothing == Spec => []RemovedLeavesNothing
<1>1. RecordInv => RemovedLeavesNothing
  BY DEF RecordInv
<1> QED BY <1>1, RecordInvariance, PTL

----------------------------------------------------------------------------
(* The threshold                                                           *)

\* No two calls of processMonitor work on one monitor at once.
Apart == \A m \in Monitors : \A l, n \in Lanes : Busy(m, l) /\ Busy(m, n) => l = n

\* The counter in memory does not exceed the failures on record, also once a call that
\* has recorded one has counted it.  A removal deletes the heartbeats and leaves the
\* counter, so the row must not be removed.
NeverAhead(m) ==
    row[m] # "removed" /\ ~missed[m] =>
        /\ (\A l \in Lanes : jobs[m][l].pc # "count") => fails[m] <= streak[m]
        /\ \A l \in Lanes :
              /\ jobs[m][l].pc = "count" => NextFails(m, jobs[m][l].out) <= streak[m]
              /\ jobs[m][l].pc = "open" => streak[m] >= Retries

CountInv == TypeOK /\ \A m \in Monitors : NeverAhead(m)

LEMMA InitCountInv == Init => CountInv
<1> SUFFICES ASSUME Init, NEW m \in Monitors PROVE NeverAhead(m)
  BY InitTypeOK DEF CountInv
<1>1. \A l \in Lanes : jobs[m][l].pc = "idle"
  BY DEF Init, NoJob
<1> QED BY <1>1 DEF Init, NeverAhead

\* A step in which nobody starts or ends counting, or comes to open an incident.
LEMMA NobodyCounts ==
    ASSUME NEW m \in Monitors, NeverAhead(m),
           row'[m] = row[m], streak'[m] = streak[m], fails'[m] = fails[m], missed'[m] = missed[m],
           \A l \in Lanes :
               /\ jobs[m][l].pc = "count" => jobs'[m][l].pc = "count"
               /\ jobs'[m][l].pc = "count" => jobs[m][l].pc = "count" /\ jobs'[m][l].out = jobs[m][l].out
               /\ jobs'[m][l].pc = "open" => jobs[m][l].pc = "open"
    PROVE  NeverAhead(m)'
BY DEF NeverAhead, NextFails

\* A call that throws while it is the only one of its monitor.
LEMMA ThrowCounts ==
    ASSUME CountInv, Apart, NEW m \in Monitors, NEW l \in Lanes, Busy(m, l), Throw(m, l),
           UNCHANGED <<row, streak, fails>>,
           missed' = [missed EXCEPT ![m] =
               @ \/ (jobs[m][l].pc = "count" /\ jobs[m][l].out = "up" /\ fails[m] # 0)],
           NEW k \in Monitors
    PROVE  NeverAhead(k)'
<1>0. TypeOK /\ NeverAhead(k) /\ missed \in [Monitors -> BOOLEAN] /\ NoJob.pc = "idle"
  BY DEF CountInv, TypeOK, NoJob
<1>1. ASSUME NEW n \in Lanes
      PROVE  \/ jobs'[k][n].pc = "idle" /\ ((k = m /\ n = l) \/ jobs[k][n].pc = "queued")
             \/ jobs'[k][n].pc = jobs[k][n].pc /\ jobs'[k][n].out = jobs[k][n].out
  <2>1. jobs[k][n] \in Job
    BY <1>0, JobOf
  <2>2. LET j == [jobs[k][n] EXCEPT !.awaited = FALSE]
        IN  j.pc = jobs[k][n].pc /\ j.out = jobs[k][n].out
    BY <2>1 DEF Job
  <2>3. \/ jobs'[k][n] = NoJob /\ ((k = m /\ n = l) \/ jobs[k][n].pc = "queued")
        \/ jobs'[k][n] \in {jobs[k][n], [jobs[k][n] EXCEPT !.awaited = FALSE]}
    BY <1>0, ThrowCases
  <2> QED BY <1>0, <2>2, <2>3
<1>2. CASE k # m
  <2>1. missed'[k] = missed[k]
    BY <1>0, <1>2
  <2> QED BY <1>0, <1>1, <1>2, <2>1, NobodyCounts
<1>3. CASE k = m
  <2>1. \A n \in Lanes : jobs'[m][n].pc = "idle"
    BY <1>0, <1>1, <1>3, ThrowIdles DEF Apart, Busy
  <2>2. missed'[m] = (missed[m] \/ (jobs[m][l].pc = "count" /\ jobs[m][l].out = "up" /\ fails[m] # 0))
    BY <1>0
  <2>3. ASSUME row[m] # "removed", ~missed'[m] PROVE fails[m] <= streak[m]
    <3>1. fails[m] \in 0..Retries /\ streak[m] \in 0..Retries
      BY <1>0 DEF TypeOK
    <3>2. CASE jobs[m][l].pc = "count"
      <4>1. NextFails(m, jobs[m][l].out) <= streak[m]
        BY <1>0, <1>3, <2>2, <2>3, <3>2 DEF NeverAhead
      <4>2. jobs[m][l].out # "down" => fails[m] = 0
        <5>1. jobs[m][l].out \in HeartbeatStatus
          BY <1>0, JobOf DEF Job
        <5> QED BY <2>2, <2>3, <3>2, <5>1 DEF HeartbeatStatus
      <4> QED BY <3>1, <4>1, <4>2, NumberAssumption DEF NextFails, Upto
    <3>3. CASE jobs[m][l].pc # "count"
      <4>1. \A n \in Lanes : jobs[m][n].pc # "count"
        BY <3>3 DEF Apart, Busy
      <4> QED BY <1>0, <1>3, <2>2, <2>3, <4>1 DEF NeverAhead
    <3> QED BY <3>2, <3>3
  <2> QED BY <1>3, <2>1, <2>3 DEF NeverAhead
<1> QED BY <1>2, <1>3

\* The heartbeat of the only call of its monitor.
LEMMA BeatCounts ==
    ASSUME CountInv, Apart, NEW m \in Monitors, NEW l \in Lanes, Beat(m, l), NEW k \in Monitors
    PROVE  NeverAhead(k)'
<1>0. TypeOK /\ NeverAhead(k)
  BY DEF CountInv
<1>1. \A i \in Monitors, n \in Lanes :
          jobs'[i][n] = IF i = m /\ n = l THEN [jobs[m][l] EXCEPT !.pc = "count"] ELSE jobs[i][n]
  <2>1. jobs \in JobTable /\ "count" \in Pc /\ GoTo(m, l, "count")
    BY <1>0, JobOf DEF Beat, Pc
  <2> QED BY <2>1, GoToOK
<1>2. /\ UNCHANGED <<row, fails, missed>> /\ jobs[m][l].pc = "beat"
      /\ streak' = [streak EXCEPT ![m] = IF jobs[m][l].out = "down"
                                         THEN Upto(streak[m] + 1, Retries) ELSE 0]
  BY DEF Beat
<1>3. CASE k # m
  <2>1. streak'[k] = streak[k]
    BY <1>0, <1>2, <1>3 DEF TypeOK
  <2> QED BY <1>0, <1>1, <1>2, <1>3, <2>1, NobodyCounts
<1>4. CASE k = m
  <2>1. \A n \in Lanes : n # l => jobs'[m][n].pc = "idle"
    BY <1>1, <1>2 DEF Apart, Busy
  <2>2. jobs'[m][l].pc = "count" /\ jobs'[m][l].out = jobs[m][l].out
    BY <1>0, <1>1, JobOf DEF Job
  <2>3. \A n \in Lanes : jobs[m][n].pc # "count"
    BY <1>2 DEF Apart, Busy
  <2>4. fails[m] \in 0..Retries /\ streak[m] \in 0..Retries /\ streak \in [Monitors -> 0..Retries]
    BY <1>0 DEF TypeOK
  <2>5. ASSUME row[m] # "removed", ~missed[m]
        PROVE  NextFails(m, jobs[m][l].out) <= streak'[m]
    <3>1. fails[m] <= streak[m]
      BY <1>0, <1>4, <2>3, <2>5 DEF NeverAhead
    <3> QED BY <1>2, <2>4, <3>1, NumberAssumption DEF NextFails, Upto
  <2>6. NextFails(m, jobs[m][l].out)' = NextFails(m, jobs[m][l].out)
    BY <1>2, <2>2 DEF NextFails
  <2> QED BY <1>2, <1>4, <2>1, <2>2, <2>5, <2>6 DEF NeverAhead
<1> QED BY <1>3, <1>4

\* It is counted, and found to be enough or not.
LEMMA CountCounts ==
    ASSUME CountInv, Apart, NEW m \in Monitors, NEW l \in Lanes, Count(m, l), NEW k \in Monitors
    PROVE  NeverAhead(k)'
<1> DEFINE out == jobs[m][l].out
           tr  == Decide(jobs[m][l].prev, out, NextFails(m, out), Retries)
           r   == [jobs[m][l] EXCEPT !.pc = NextPc(tr), !.tr = tr]
<1>0. /\ TypeOK /\ NeverAhead(k) /\ jobs[m][l] \in Job /\ jobs \in JobTable
      /\ fails \in [Monitors -> 0..Retries] /\ missed \in [Monitors -> BOOLEAN]
  BY JobOf DEF CountInv, TypeOK
<1>1. jobs' = [jobs EXCEPT ![m][l] = r]
  BY <1>0 DEF Count, JobTable
<1>2. /\ UNCHANGED <<row, streak>> /\ jobs[m][l].pc = "count"
      /\ fails' = [fails EXCEPT ![m] = NextFails(m, out)]
      /\ missed' = [missed EXCEPT ![m] = missed[m] /\ out = "down"]
  BY DEF Count, db
<1>3. /\ NextPc(tr) \in {"find", "open", "update"}
      /\ NextPc(tr) = "open" => out = "down" /\ NextFails(m, out) >= Retries
  <2>1. tr = "went-down" => out = "down" /\ NextFails(m, out) >= Retries
    <3>1. out \in HeartbeatStatus
      BY <1>0 DEF Job
    <3> QED BY <3>1 DEF Decide, HeartbeatStatus
  <2> HIDE DEF tr
  <2> QED BY <2>1 DEF NextPc
<1> HIDE DEF tr
<1>4. r.pc = NextPc(tr)
  BY <1>0 DEF Job
<1> HIDE DEF r
<1>5. \A i \in Monitors, n \in Lanes : jobs'[i][n] = IF i = m /\ n = l THEN r ELSE jobs[i][n]
  BY <1>0, <1>1 DEF JobTable
<1>6. CASE k # m
  <2>1. fails'[k] = fails[k] /\ missed'[k] = missed[k]
    BY <1>0, <1>2, <1>6
  <2> QED BY <1>0, <1>2, <1>5, <1>6, <2>1, NobodyCounts
<1>7. CASE k = m
  <2>1. \A n \in Lanes : n # l => jobs'[m][n].pc = "idle"
    BY <1>2, <1>5 DEF Apart, Busy
  <2>2. jobs'[m][l].pc = NextPc(tr)
    BY <1>4, <1>5
  <2>3. fails'[m] = NextFails(m, out) /\ missed'[m] = (missed[m] /\ out = "down")
    BY <1>0, <1>2
  <2>4. NextFails(m, out) \in 0..Retries /\ streak[m] \in 0..Retries
    BY <1>0, CounterOK DEF TypeOK
  <2>5. ASSUME row[m] # "removed", ~missed'[m] PROVE NextFails(m, out) <= streak[m]
    <3>1. CASE out = "down"
      BY <1>0, <1>2, <1>7, <2>3, <2>5, <3>1 DEF NeverAhead
    <3>2. CASE out # "down"
      BY <2>4, <3>2 DEF NextFails
    <3> QED BY <3>1, <3>2
  <2>6. ASSUME row[m] # "removed", ~missed'[m], NextPc(tr) = "open" PROVE streak[m] >= Retries
    BY <1>3, <2>4, <2>5, <2>6, NumberAssumption
  <2>7. \A n \in Lanes : jobs'[m][n].pc # "count" /\ (jobs'[m][n].pc = "open" => NextPc(tr) = "open")
    BY <1>3, <2>1, <2>2
  <2> QED BY <1>2, <1>7, <2>3, <2>5, <2>6, <2>7 DEF NeverAhead
<1> QED BY <1>6, <1>7

LEMMA StepCounts ==
    ASSUME CountInv, Apart, [Next]_vars, NEW k \in Monitors PROVE NeverAhead(k)'
<1>0. TypeOK /\ NeverAhead(k) /\ jobs \in JobTable
  BY DEF CountInv, TypeOK, JobTable
<1>1. ASSUME NEW m \in Monitors, NEW l \in Lanes,
             Rejected(m, l) \/ DbError(m, l) \/ UpdateLost(m, l)
      PROVE  NeverAhead(k)'
  <2>1. Throw(m, l) /\ Busy(m, l) /\ UNCHANGED <<row, streak, fails>>
    BY <1>1 DEF Rejected, DbError, UpdateLost, WriteStatus, Busy, db
  <2>2. missed' = [missed EXCEPT ![m] =
            @ \/ (jobs[m][l].pc = "count" /\ jobs[m][l].out = "up" /\ fails[m] # 0)]
    BY <1>0, <1>1 DEF Rejected, DbError, UpdateLost, WriteStatus, TypeOK
  <2> QED BY <2>1, <2>2, ThrowCounts
<1>2. ASSUME NEW m \in Monitors, NEW l \in Lanes, JobStep(m, l) \/ TelegramError(m, l),
             ~Rejected(m, l), ~Beat(m, l), ~Count(m, l)
      PROVE  NeverAhead(k)'
  <2>1. UNCHANGED <<row, streak, fails, missed>> /\ jobs[m][l].pc # "count"
    BY <1>2 DEF JobStep, TelegramError, Check, FindIncident, CloseIncident, TellUp,
       OpenIncident, Update, WriteStatus, TellDown, db
  <2>2. \A i \in Monitors, n \in Lanes : ~(i = m /\ n = l) => jobs'[i][n] = jobs[i][n]
    BY <1>0, <1>2, CallOnly
  <2>3. jobs'[m][l].pc \notin {"count", "open"}
    <3>1. ASSUME NEW pc, GoTo(m, l, pc) PROVE jobs'[m][l].pc = pc
      BY <1>0, <3>1, JobOf DEF GoTo, JobTable, Job
    <3>2. Finish(m, l) => jobs'[m][l].pc = "idle"
      BY <1>0 DEF Finish, JobTable, NoJob
    <3>3. Check(m, l) => jobs'[m][l].pc = "beat"
      BY <1>0, JobOf DEF Check, JobTable, Job
    <3>4. FindIncident(m, l) => jobs'[m][l].pc \in {"close", "update"}
      BY <1>0, <3>1, JobOf DEF FindIncident, JobTable, Job
    <3>5. CloseIncident(m, l) => jobs'[m][l].pc \in {"tellUp", "update"}
      BY <1>0, JobOf DEF CloseIncident, JobTable, Job
    <3> QED BY <1>2, <3>1, <3>2, <3>3, <3>4, <3>5
            DEF JobStep, TelegramError, TellUp, OpenIncident, Update, TellDown
  <2> QED BY <1>0, <2>1, <2>2, <2>3, NobodyCounts
<1>3. CASE Crash
  <2>1. \A l \in Lanes : jobs'[k][l].pc = "idle"
    BY <1>3 DEF Crash, NoJob
  <2>2. fails'[k] = 0 /\ streak'[k] \in Nat
    BY <1>0, <1>3, NumberAssumption DEF Crash, db, TypeOK
  <2> QED BY <2>1, <2>2 DEF NeverAhead
<1>4. CASE Tick
  <2>1. UNCHANGED <<row, streak, fails, missed>>
    BY <1>4 DEF Tick, StartTick, StartBatch, EndTick, db
  <2>2. ASSUME NEW l \in Lanes
        PROVE  \/ jobs'[k][l] = jobs[k][l]
               \/ jobs[k][l].pc \in {"idle", "queued"} /\ jobs'[k][l].pc \in {"queued", "check"}
    <3>1. CASE StartTick
      <4> DEFINE q(m) == [NoJob EXCEPT !.pc = "queued", !.prev = status[m],
                                       !.mute = muteLeft[m], !.awaited = TRUE]
      <4>1. PICK lane \in [Due -> Lanes] :
               /\ \A m \in Due : ~Busy(m, lane[m])
               /\ jobs' = [m \in Monitors |-> [n \in Lanes |->
                           IF m \in Due /\ n = lane[m] THEN q(m) ELSE jobs[m][n]]]
        BY <3>1 DEF StartTick
      <4>2. q(k).pc = "queued"
        BY DEF NoJob
      <4> HIDE DEF q
      <4> QED BY <4>1, <4>2 DEF Busy
    <3>2. CASE StartBatch
      <4>1. PICK batch \in SUBSET Queued :
               jobs' = [m \in Monitors |-> [n \in Lanes |->
                  IF <<m, n>> \in batch THEN [jobs[m][n] EXCEPT !.pc = "check"] ELSE jobs[m][n]]]
        BY <3>2 DEF StartBatch
      <4> QED BY <1>0, <4>1, JobOf DEF Queued, Job
    <3>3. CASE EndTick
      BY <3>3 DEF EndTick
    <3> QED BY <1>4, <3>1, <3>2, <3>3 DEF Tick
  <2> QED BY <1>0, <2>1, <2>2, NobodyCounts
<1>5. CASE Elapse
  <2>1. UNCHANGED <<row, streak, fails, missed>>
    BY <1>5 DEF Elapse
  <2>2. ASSUME NEW l \in Lanes
        PROVE  jobs'[k][l].pc = jobs[k][l].pc /\ jobs'[k][l].out = jobs[k][l].out
    <3>1. PICK x, y : \/ jobs'[k][l] = [jobs[k][l] EXCEPT !.mute = x]
                      \/ jobs'[k][l] = [jobs[k][l] EXCEPT !.since = y]
      BY <1>5 DEF Elapse
    <3> QED BY <1>0, <3>1, JobOf DEF Job
  <2> QED BY <1>0, <2>1, <2>2, NobodyCounts
<1>6. ASSUME NEW m \in Monitors, Add(m) \/ Remove(m) PROVE NeverAhead(k)'
  <2>1. UNCHANGED <<fails, missed, jobs>>
    BY <1>6 DEF Add, Remove, memory
  <2>2. \/ row'[k] = "removed"
        \/ streak'[k] = streak[k] /\ (row'[k] # "removed" => row[k] # "removed")
    BY <1>0, <1>6 DEF Add, Remove, TypeOK
  <2> QED BY <1>0, <2>1, <2>2 DEF NeverAhead, NextFails
<1>7. ASSUME UNCHANGED <<row, streak, fails, missed, jobs>> PROVE NeverAhead(k)'
  BY <1>0, <1>7, NobodyCounts
<1>8. ASSUME NEW m \in Monitors, FlipSite(m) PROVE NeverAhead(k)'
  BY <1>7, <1>8 DEF FlipSite, db, memory
<1>9. ASSUME NEW u \in Users, NEW len \in MuteLens, Mute(u, len) PROVE NeverAhead(k)'
  BY <1>7, <1>9 DEF Mute, memory
<1>10. CASE UNCHANGED vars
  BY <1>7, <1>10 DEF vars, db, memory
<1> QED BY <1>1, <1>2, <1>3, <1>4, <1>5, <1>6, <1>8, <1>9, <1>10, BeatCounts, CountCounts
        DEF Next, JobStep

\* An incident is inserted by a call that has decided so.
LEMMA OnlyOpenOpens ==
    ASSUME TypeOK, [Next]_vars, NEW m \in Monitors, openInc'[m] \ openInc[m] # {}
    PROVE  row[m] = "live" /\ \E l \in Lanes : jobs[m][l].pc = "open"
<1>1. ASSUME NEW k \in Monitors, NEW l \in Lanes, OpenIncident(k, l)
      PROVE  row[m] = "live" /\ jobs[m][l].pc = "open"
  <2>1. k = m
    BY <1>1 DEF OpenIncident, TypeOK
  <2> QED BY <1>1, <2>1 DEF OpenIncident
<1>2. ASSUME NEW k \in Monitors, NEW l \in Lanes,
             JobStep(k, l) \/ DbError(k, l) \/ UpdateLost(k, l) \/ TelegramError(k, l),
             ~OpenIncident(k, l)
      PROVE  openInc'[m] \subseteq openInc[m]
  BY <1>2 DEF JobStep, Check, Beat, Count, FindIncident, CloseIncident, TellUp, Update,
     WriteStatus, TellDown, Rejected, DbError, UpdateLost, TelegramError, TypeOK, db
<1>3. CASE Tick \/ Crash \/ Elapse \/ UNCHANGED vars
  BY <1>3 DEF Tick, StartTick, StartBatch, EndTick, Crash, Elapse, vars, db
<1>4. ASSUME \/ \E k \in Monitors : Add(k) \/ Remove(k) \/ FlipSite(k)
             \/ \E u \in Users, len \in MuteLens : Mute(u, len)
      PROVE  openInc'[m] \subseteq openInc[m]
  BY <1>4 DEF Add, Remove, FlipSite, Mute, TypeOK, db
<1> QED BY <1>1, <1>2, <1>3, <1>4 DEF Next

\* As long as the checks of a monitor stay apart, Retries consecutive failures are on record
\* before an incident is opened: through crashes, restarts, counters that are lost and
\* calls that throw before or after their writes, unless it is the write of a success.
THEOREM IncidentsNeedRetries == Spec /\ []Apart => ThresholdRespected
<1> DEFINE Justified == \A m \in Monitors :
             openInc'[m] \ openInc[m] # {} => streak[m] >= Retries \/ missed[m]
<1>1. ASSUME CountInv, [Next]_vars PROVE Justified
  <2> SUFFICES ASSUME NEW m \in Monitors, openInc'[m] \ openInc[m] # {}
               PROVE  streak[m] >= Retries \/ missed[m]
    OBVIOUS
  <2>1. NeverAhead(m) /\ TypeOK
    BY <1>1 DEF CountInv
  <2> QED BY <1>1, <2>1, OnlyOpenOpens DEF NeverAhead
<1>2. CountInv /\ Apart /\ [Next]_vars => CountInv'
  BY StepTypeOK, StepCounts DEF CountInv
<1>3. CountInv /\ [Next]_vars => [Justified]_vars
  BY <1>1
<1> QED BY <1>2, <1>3, InitCountInv, PTL DEF Spec, ThresholdRespected
============================================================================
