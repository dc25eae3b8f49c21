------------------------ MODULE SchedulerMuteProofs -------------------------
(***************************************************************************)
(* A /mute under running checks: every fault, command and overlap allowed, *)
(* no more alerts come while it lasts than calls can have been under way.  *)
(***************************************************************************)
EXTENDS SchedulerProofs

\* The call may still alert, although `left` seconds of a mute are left: it works on an
\* older copy of the mute, or has found that there is none.
Deaf(job, left) ==
    \/ job.pc \in {"queued", "check"} /\ job.mute # left
    \/ job.pc \in {"beat", "count", "find", "close", "open"} /\ ~job.muted
    \/ job.pc = "update" /\ job.tr = "went-down" /\ ~job.muted
    \/ job.pc \in {"tellUp", "tellDown"}

DeafLanes(m) == {l \in Lanes : Deaf(jobs[m][l], muteLeft[m])}

\* Alerts that came and calls that may still send one share the lanes.
Allowance(m) ==
    IF muteLeft[m] = 0 THEN late[m] = 0
    ELSE late[m] + Cardinality(DeafLanes(m)) <= Cardinality(Lanes)

\* A call tells of a recovery once and of nothing else.
Recovers(job) == job.pc \in {"find", "close", "tellUp"} => job.tr = "recovered"

Muted ==
    /\ \A m \in Monitors : Allowance(m)
    /\ \A m \in Monitors, l \in Lanes : Recovers(jobs[m][l])

MuteInv == TypeOK /\ Muted

LEMMA IdleHears == \A left : ~Deaf(NoJob, left) /\ Recovers(NoJob)
BY DEF Deaf, Recovers, NoJob

LEMMA LanesCount ==
    ASSUME NEW S, S \subseteq Lanes
    PROVE  /\ IsFiniteSet(S) /\ Cardinality(S) \in Nat /\ Cardinality(Lanes) \in Nat
           /\ Cardinality(S) <= Cardinality(Lanes)
BY LanesAssumption, FS_Subset, FS_CardinalityType

\* Fewer calls, the same alerts.
LEMMA Fewer ==
    ASSUME TypeOK, NEW m \in Monitors, Allowance(m), late'[m] = late[m],
           muteLeft'[m] # 0 => muteLeft[m] # 0,
           muteLeft'[m] = 0 => late'[m] = 0,
           muteLeft'[m] # 0 => \A l \in Lanes :
               Deaf(jobs'[m][l], muteLeft'[m]) => Deaf(jobs[m][l], muteLeft[m])
    PROVE  Allowance(m)'
<1>1. CASE muteLeft'[m] = 0
  BY <1>1 DEF Allowance
<1>2. CASE muteLeft'[m] # 0
  <2>1. DeafLanes(m)' \subseteq DeafLanes(m) /\ DeafLanes(m) \subseteq Lanes
    BY <1>2 DEF DeafLanes
  <2>2. /\ Cardinality(DeafLanes(m)') <= Cardinality(DeafLanes(m))
        /\ Cardinality(DeafLanes(m)') \in Nat /\ Cardinality(DeafLanes(m)) \in Nat
    BY <2>1, LanesCount, FS_Subset, FS_CardinalityType
  <2>3. late[m] \in Nat /\ late[m] + Cardinality(DeafLanes(m)) <= Cardinality(Lanes)
    BY <1>2 DEF TypeOK, Allowance
  <2>4. Cardinality(Lanes) \in Nat
    BY LanesCount
  <2>5. late'[m] + Cardinality(DeafLanes(m)') <= Cardinality(Lanes)
    BY <2>2, <2>3, <2>4
  <2> QED BY <1>2, <2>5 DEF Allowance
<1> QED BY <1>1, <1>2

\* A step that leaves mutes and alerts alone, after which no call may alert that might
\* not before.
LEMMA Quiet ==
    ASSUME MuteInv, UNCHANGED <<muteLeft, late>>,
           \A m \in Monitors, l \in Lanes :
               /\ Deaf(jobs'[m][l], muteLeft[m]) => Deaf(jobs[m][l], muteLeft[m])
               /\ Recovers(jobs'[m][l])
    PROVE  Muted'
<1>1. ASSUME NEW m \in Monitors PROVE Allowance(m)'
  <2>1. Allowance(m) /\ TypeOK
    BY DEF MuteInv, Muted
  <2> QED BY <2>1, Fewer DEF Allowance
<1> QED BY <1>1 DEF Muted

\* The same for a step of one call, to the record r.
LEMMA QuietJob ==
    ASSUME MuteInv, UNCHANGED <<muteLeft, late>>, NEW m \in Monitors, NEW l \in Lanes, NEW r,
           \A k \in Monitors, n \in Lanes :
               jobs'[k][n] = IF k = m /\ n = l THEN r ELSE jobs[k][n],
           Deaf(r, muteLeft[m]) => Deaf(jobs[m][l], muteLeft[m]),
           Recovers(r)
    PROVE  Muted'
<1>1. ASSUME NEW k \in Monitors, NEW n \in Lanes
      PROVE  /\ Deaf(jobs'[k][n], muteLeft[k]) => Deaf(jobs[k][n], muteLeft[k])
             /\ Recovers(jobs'[k][n])
  <2>1. CASE k = m /\ n = l
    BY <2>1
  <2>2. CASE ~(k = m /\ n = l)
    <3>1. jobs'[k][n] = jobs[k][n]
      BY <2>2
    <3> QED BY <3>1 DEF MuteInv, Muted
  <2> QED BY <2>1, <2>2
<1> QED BY <1>1, Quiet

\* A call that alerts uses up its lane: afterwards it is silent.
LEMMA Alerting ==
    ASSUME MuteInv, NEW m \in Monitors, NEW l \in Lanes, NEW r, Heard(m),
           jobs[m][l].pc \in {"tellUp", "tellDown"}, muteLeft' = muteLeft,
           \A k \in Monitors, n \in Lanes :
               jobs'[k][n] = IF k = m /\ n = l THEN r ELSE jobs[k][n],
           ~Deaf(r, muteLeft[m]), Recovers(r)
    PROVE  Muted'
<1>1. CASE muteLeft[m] = 0
  BY <1>1, QuietJob DEF Heard
<1>2. CASE muteLeft[m] # 0
  <2>1. late' = [late EXCEPT ![m] = Upto(late[m] + 1, Cardinality(Lanes) + 1)]
    BY <1>2 DEF Heard
  <2>2. late \in [Monitors -> Nat] /\ Allowance(m)
    BY DEF MuteInv, Muted, TypeOK
  <2>3. l \in DeafLanes(m) /\ DeafLanes(m) \subseteq Lanes
    BY DEF DeafLanes, Deaf
  <2>4. DeafLanes(m)' \subseteq DeafLanes(m) \ {l}
    <3>1. ASSUME NEW n \in Lanes, Deaf(jobs'[m][n], muteLeft'[m])
          PROVE  n # l /\ Deaf(jobs[m][n], muteLeft[m])
      <4>1. n # l
        BY <3>1
      <4>2. jobs'[m][n] = jobs[m][n]
        BY <4>1
      <4> QED BY <3>1, <4>1, <4>2
    <3> QED BY <3>1 DEF DeafLanes
  <2>5. /\ Cardinality(DeafLanes(m) \ {l}) = Cardinality(DeafLanes(m)) - 1
        /\ Cardinality(DeafLanes(m)) \in Nat
    BY <2>3, LanesCount, FS_RemoveElement
  <2>6. /\ Cardinality(DeafLanes(m)') <= Cardinality(DeafLanes(m) \ {l})
        /\ Cardinality(DeafLanes(m)') \in Nat /\ Cardinality(DeafLanes(m) \ {l}) \in Nat
    BY <2>3, <2>4, LanesCount, FS_Subset, FS_RemoveElement, FS_CardinalityType
  <2>7. late[m] + Cardinality(DeafLanes(m)) <= Cardinality(Lanes) /\ Cardinality(Lanes) \in Nat
    BY <1>2, <2>2, LanesCount DEF Allowance
  <2>8. late'[m] = late[m] + 1
    BY <2>1, <2>2, <2>5, <2>6, <2>7 DEF Upto
  <2>9. late'[m] + Cardinality(DeafLanes(m)') <= Cardinality(Lanes)
    BY <2>2, <2>5, <2>6, <2>7, <2>8
  <2>10. Allowance(m)'
    BY <1>2, <2>9 DEF Allowance
  <2>11. ASSUME NEW k \in Monitors, k # m PROVE Allowance(k)'
    <3>1. late'[k] = late[k] /\ Allowance(k) /\ \A n \in Lanes : jobs'[k][n] = jobs[k][n]
      BY <2>1, <2>2, <2>11 DEF MuteInv, Muted
    <3> QED BY <3>1, Fewer DEF MuteInv, Muted, Allowance
  <2>12. ASSUME NEW k \in Monitors, NEW n \in Lanes PROVE Recovers(jobs'[k][n])
    BY DEF MuteInv, Muted
  <2> QED BY <2>10, <2>11, <2>12 DEF Muted
<1> QED BY <1>1, <1>2

----------------------------------------------------------------------------

\* What a job's record says of one call's next state.
LEMMA CallFacts ==
    ASSUME MuteInv, NEW m \in Monitors, NEW l \in Lanes
    PROVE  jobs[m][l] \in Job /\ jobs \in JobTable /\ Recovers(jobs[m][l])
BY DEF MuteInv, Muted, TypeOK, JobTable

LEMMA CheckMuted ==
    ASSUME MuteInv, NEW m \in Monitors, NEW l \in Lanes, Check(m, l)
    PROVE  Muted'
<1> DEFINE r == [jobs[m][l] EXCEPT !.pc = "beat", !.out = site[m],
                                   !.muted = jobs[m][l].mute > 0, !.mute = 0]
<1>1. jobs[m][l].pc = "check" /\ jobs[m][l] \in Job /\ jobs \in JobTable
  BY CallFacts DEF Check
<1>2. r \in Job
  <2>1. site[m] \in HeartbeatStatus /\ (jobs[m][l].mute > 0) \in BOOLEAN
    BY DEF MuteInv, TypeOK
  <2> QED BY <1>1, <2>1 DEF Job, Pc
<1>3. jobs' = [jobs EXCEPT ![m][l] = r]
  BY CallFacts DEF Check, JobTable
<1>4. UNCHANGED <<muteLeft, late>>
  BY DEF Check, db, user
<1>5. r.pc = "beat" /\ r.muted = (jobs[m][l].mute > 0)
  BY <1>1 DEF Job
<1>6. muteLeft[m] = 0 \/ (Deaf(r, muteLeft[m]) => Deaf(jobs[m][l], muteLeft[m]))
  <2>1. muteLeft[m] \in Nat /\ jobs[m][l].mute \in Nat
    BY <1>1 DEF MuteInv, TypeOK, Job
  <2> HIDE DEF r
  <2>2. CASE jobs[m][l].mute > 0
    BY <1>5, <2>2 DEF Deaf
  <2>3. CASE jobs[m][l].mute = 0
    BY <1>1, <2>1, <2>3 DEF Deaf
  <2> QED BY <2>1, <2>2, <2>3
<1> HIDE DEF r
<1>7. Recovers(r)
  BY <1>5 DEF Recovers
<1>8. \A k \in Monitors, n \in Lanes : jobs'[k][n] = IF k = m /\ n = l THEN r ELSE jobs[k][n]
  BY <1>1, <1>2, <1>3 DEF JobTable
<1>9. ASSUME NEW k \in Monitors PROVE Allowance(k)'
  <2>1. \A n \in Lanes : muteLeft[k] # 0 /\ Deaf(jobs'[k][n], muteLeft[k])
                            => Deaf(jobs[k][n], muteLeft[k])
    BY <1>6, <1>8
  <2>2. Allowance(k) /\ TypeOK
    BY DEF MuteInv, Muted
  <2> QED BY <1>4, <2>1, <2>2, Fewer DEF Allowance
<1>10. \A k \in Monitors, n \in Lanes : Recovers(jobs'[k][n])
  BY <1>7, <1>8, CallFacts
<1> QED BY <1>9, <1>10 DEF Muted

LEMMA CountMuted ==
    ASSUME MuteInv, NEW m \in Monitors, NEW l \in Lanes, Count(m, l)
    PROVE  Muted'
<1> DEFINE out == jobs[m][l].out
           tr  == Decide(jobs[m][l].prev, out, NextFails(m, out), Retries)
           r   == [jobs[m][l] EXCEPT !.pc = NextPc(tr), !.tr = tr]
<1>1. jobs[m][l].pc = "count" /\ jobs[m][l] \in Job
  BY CallFacts DEF Count
<1>2. tr \in Transition
  BY DecideOK
<1>3. jobs' = [jobs EXCEPT ![m][l] = r]
  BY CallFacts DEF Count, JobTable
<1>4. UNCHANGED <<muteLeft, late>>
  BY DEF Count, db, user
<1> HIDE DEF tr
<1>5. /\ NextPc(tr) \in Pc /\ NextPc(tr) \in {"find", "open", "update"}
      /\ NextPc(tr) = "find" => tr = "recovered"
  BY DEF NextPc, Pc
<1>6. r \in Job /\ r.pc = NextPc(tr) /\ r.tr = tr /\ r.muted = jobs[m][l].muted
  BY <1>1, <1>2, <1>5 DEF Job
<1> HIDE DEF r
<1>7. Deaf(r, muteLeft[m]) => Deaf(jobs[m][l], muteLeft[m])
  BY <1>1, <1>5, <1>6 DEF Deaf
<1>8. Recovers(r)
  BY <1>5, <1>6 DEF Recovers
<1>9. \A k \in Monitors, n \in Lanes : jobs'[k][n] = IF k = m /\ n = l THEN r ELSE jobs[k][n]
  BY <1>3, <1>6, CallFacts DEF JobTable
<1> QED BY <1>4, <1>7, <1>8, <1>9, QuietJob

LEMMA FindMuted ==
    ASSUME MuteInv, NEW m \in Monitors, NEW l \in Lanes,
           FindIncident(m, l) \/ CloseIncident(m, l)
    PROVE  Muted'
<1>1. jobs[m][l].pc \in {"find", "close"} /\ jobs[m][l].tr = "recovered" /\ jobs[m][l] \in Job
  BY CallFacts DEF FindIncident, CloseIncident, Recovers
<1>2. UNCHANGED <<muteLeft, late>>
  BY DEF FindIncident, CloseIncident, db, user
<1>3. PICK pc \in {"close", "tellUp", "update"}, inc \in IncidentIds \cup {NoIncident} :
          /\ jobs' = [jobs EXCEPT ![m][l] = [jobs[m][l] EXCEPT !.pc = pc, !.inc = inc]]
          /\ pc = "tellUp" => ~jobs[m][l].muted
  <2>1. CASE GoTo(m, l, "update")
    <3>1. jobs' = [jobs EXCEPT ![m][l] =
                      [jobs[m][l] EXCEPT !.pc = "update", !.inc = jobs[m][l].inc]]
      BY <2>1, CallFacts DEF GoTo, JobTable, Job
    <3>2. jobs[m][l].inc \in IncidentIds \cup {NoIncident}
      BY <1>1 DEF Job
    <3> QED BY <3>1, <3>2
  <2>2. ASSUME NEW i \in openInc[m],
               jobs' = [jobs EXCEPT ![m][l].pc = "close", ![m][l].inc = i]
        PROVE  jobs' = [jobs EXCEPT ![m][l] = [jobs[m][l] EXCEPT !.pc = "close", !.inc = i]]
               /\ i \in IncidentIds
    BY <2>2, CallFacts DEF JobTable, MuteInv, TypeOK
  <2>3. ASSUME CloseIncident(m, l)
        PROVE  jobs' = [jobs EXCEPT ![m][l] = [jobs[m][l] EXCEPT
                  !.pc = IF jobs[m][l].muted THEN "update" ELSE "tellUp", !.inc = NoIncident]]
    BY <2>3, CallFacts DEF CloseIncident, JobTable
  <2> QED BY <2>1, <2>2, <2>3 DEF FindIncident
<1> DEFINE r == [jobs[m][l] EXCEPT !.pc = pc, !.inc = inc]
<1>4. r \in Job /\ r.pc = pc /\ r.tr = "recovered" /\ r.muted = jobs[m][l].muted
  BY <1>1 DEF Job, Pc
<1>5. jobs' = [jobs EXCEPT ![m][l] = r]
  BY <1>3
<1> HIDE DEF r
<1>6. Deaf(r, muteLeft[m]) => Deaf(jobs[m][l], muteLeft[m])
  BY <1>1, <1>3, <1>4 DEF Deaf
<1>7. Recovers(r)
  BY <1>4 DEF Recovers
<1>8. \A k \in Monitors, n \in Lanes : jobs'[k][n] = IF k = m /\ n = l THEN r ELSE jobs[k][n]
  BY <1>4, <1>5, CallFacts DEF JobTable
<1> QED BY <1>2, <1>6, <1>7, <1>8, QuietJob

\* The steps that go on to another point of the call, or end it.
LEMMA MoveMuted ==
    ASSUME MuteInv, NEW m \in Monitors, NEW l \in Lanes,
           Beat(m, l) \/ OpenIncident(m, l) \/ Update(m, l)
    PROVE  Muted'
<1>1. jobs[m][l].pc \in {"beat", "open", "update"} /\ jobs[m][l] \in Job
  BY CallFacts DEF Beat, OpenIncident, Update, WriteStatus
<1>2. UNCHANGED <<muteLeft, late>>
  BY DEF Beat, OpenIncident, Update, WriteStatus, db, user
<1>3. CASE Finish(m, l)
  BY <1>2, <1>3, CallFacts, FinishOK, IdleHears, QuietJob
<1>4. ASSUME NEW pc \in Pc, GoTo(m, l, pc),
             \/ pc = "count" /\ jobs[m][l].pc = "beat"
             \/ pc = "update" /\ jobs[m][l].pc = "open"
             \/ pc = "tellDown" /\ jobs[m][l].pc = "update"
                /\ jobs[m][l].tr = "went-down" /\ ~jobs[m][l].muted
      PROVE  Muted'
  <2> DEFINE r == [jobs[m][l] EXCEPT !.pc = pc]
  <2>1. \A k \in Monitors, n \in Lanes : jobs'[k][n] = IF k = m /\ n = l THEN r ELSE jobs[k][n]
    BY <1>4, CallFacts, GoToOK
  <2>2. r.pc = pc /\ r.muted = jobs[m][l].muted /\ r.tr = jobs[m][l].tr
    BY <1>1 DEF Job
  <2> HIDE DEF r
  <2>3. (Deaf(r, muteLeft[m]) => Deaf(jobs[m][l], muteLeft[m])) /\ Recovers(r)
    BY <1>4, <2>2 DEF Deaf, Recovers
  <2> QED BY <1>2, <2>1, <2>3, QuietJob
<1>5. Beat(m, l) \/ OpenIncident(m, l) => Muted'
  BY <1>4 DEF Beat, OpenIncident, Pc
<1>6. Update(m, l) => Muted'
  BY <1>3, <1>4 DEF Update, WriteStatus, Pc
<1> QED BY <1>5, <1>6

LEMMA TellMuted ==
    ASSUME MuteInv, NEW m \in Monitors, NEW l \in Lanes,
           TellUp(m, l) \/ TellDown(m, l) \/ TelegramError(m, l)
    PROVE  Muted'
<1>1. jobs[m][l].pc \in {"tellUp", "tellDown"} /\ jobs[m][l] \in Job
  BY CallFacts DEF TellUp, TellDown, TelegramError
<1>2. muteLeft' = muteLeft /\ (Heard(m) \/ late' = late)
  BY DEF TellUp, TellDown, TelegramError, db, user
<1>3. PICK r : /\ \A k \in Monitors, n \in Lanes :
                     jobs'[k][n] = IF k = m /\ n = l THEN r ELSE jobs[k][n]
               /\ ~Deaf(r, muteLeft[m]) /\ Recovers(r)
  <2>1. CASE Finish(m, l)
    BY <2>1, CallFacts, FinishOK, IdleHears
  <2>2. CASE GoTo(m, l, "update") /\ jobs[m][l].pc = "tellUp"
    <3> DEFINE r == [jobs[m][l] EXCEPT !.pc = "update"]
    <3>1. \A k \in Monitors, n \in Lanes :
              jobs'[k][n] = IF k = m /\ n = l THEN r ELSE jobs[k][n]
      <4>1. "update" \in Pc
        BY DEF Pc
      <4> QED BY <2>2, <4>1, CallFacts, GoToOK
    <3>2. r.pc = "update" /\ r.tr = "recovered"
      BY <1>1, <2>2, CallFacts DEF Job, Recovers
    <3> HIDE DEF r
    <3>3. ~Deaf(r, muteLeft[m]) /\ Recovers(r)
      BY <3>2 DEF Deaf, Recovers
    <3> QED BY <3>1, <3>3
  <2> QED BY <2>1, <2>2 DEF TellUp, TellDown, TelegramError
<1>4. CASE Heard(m)
  BY <1>1, <1>2, <1>3, <1>4, Alerting
<1>5. CASE late' = late
  BY <1>2, <1>3, <1>5, QuietJob
<1> QED BY <1>2, <1>4, <1>5

\* An exception ends calls and changes nothing in the others that they alert by.
LEMMA ThrowMuted ==
    ASSUME MuteInv, NEW m \in Monitors, NEW l \in Lanes,
           Rejected(m, l) \/ DbError(m, l) \/ UpdateLost(m, l)
    PROVE  Muted'
<1>1. Throw(m, l) /\ UNCHANGED <<muteLeft, late>>
  BY DEF Rejected, DbError, UpdateLost, WriteStatus, db, user
<1>2. ASSUME NEW k \in Monitors, NEW n \in Lanes
      PROVE  /\ Deaf(jobs'[k][n], muteLeft[k]) => Deaf(jobs[k][n], muteLeft[k])
             /\ Recovers(jobs'[k][n])
  <2>1. jobs[k][n] \in Job /\ jobs \in JobTable /\ Recovers(jobs[k][n])
    BY CallFacts
  <2>2. jobs'[k][n] \in {NoJob, jobs[k][n], [jobs[k][n] EXCEPT !.awaited = FALSE]}
    BY <1>1, ThrowCases DEF MuteInv
  <2>3. CASE jobs'[k][n] = [jobs[k][n] EXCEPT !.awaited = FALSE]
    BY <2>1, <2>3 DEF Deaf, Recovers, Job
  <2> QED BY <2>1, <2>2, <2>3, IdleHears
<1> QED BY <1>1, <1>2, Quiet

\* A tick copies the mute as it is, and a batch keeps the copies.
LEMMA TickMuted == ASSUME MuteInv, Tick PROVE Muted'
<1>1. UNCHANGED <<muteLeft, late>>
  BY DEF Tick, StartTick, StartBatch, EndTick, db, user
<1>2. CASE StartTick
  <2> DEFINE q(k) == [NoJob EXCEPT !.pc = "queued", !.prev = status[k],
                                   !.mute = muteLeft[k], !.awaited = TRUE]
  <2>1. PICK lane \in [Due -> Lanes] :
           jobs' = [k \in Monitors |-> [n \in Lanes |->
                       IF k \in Due /\ n = lane[k] THEN q(k) ELSE jobs[k][n]]]
    BY <1>2 DEF StartTick
  <2>2. \A k \in Monitors : q(k).pc = "queued" /\ q(k).mute = muteLeft[k]
    BY DEF NoJob
  <2> HIDE DEF q
  <2>3. \A k \in Monitors : ~Deaf(q(k), muteLeft[k]) /\ Recovers(q(k))
    BY <2>2 DEF Deaf, Recovers
  <2> QED BY <1>1, <2>1, <2>3, CallFacts, Quiet
<1>3. CASE StartBatch
  <2>1. PICK batch \in SUBSET Queued :
           jobs' = [k \in Monitors |-> [n \in Lanes |->
              IF <<k, n>> \in batch THEN [jobs[k][n] EXCEPT !.pc = "check"] ELSE jobs[k][n]]]
    BY <1>3 DEF StartBatch
  <2>2. ASSUME NEW k \in Monitors, NEW n \in Lanes
        PROVE  /\ Deaf(jobs'[k][n], muteLeft[k]) => Deaf(jobs[k][n], muteLeft[k])
               /\ Recovers(jobs'[k][n])
    <3>1. jobs[k][n] \in Job /\ Recovers(jobs[k][n])
      BY CallFacts
    <3>2. CASE <<k, n>> \in batch
      <4>1. jobs[k][n].pc = "queued" /\ jobs'[k][n] = [jobs[k][n] EXCEPT !.pc = "check"]
        BY <2>1, <3>2 DEF Queued
      <4>2. jobs'[k][n].pc = "check" /\ jobs'[k][n].mute = jobs[k][n].mute
        BY <3>1, <4>1 DEF Job
      <4> QED BY <4>1, <4>2 DEF Deaf, Recovers
    <3>3. CASE <<k, n>> \notin batch
      <4>1. jobs'[k][n] = jobs[k][n]
        BY <2>1, <3>3
      <4> QED BY <3>1, <4>1
    <3> QED BY <3>2, <3>3
  <2> QED BY <1>1, <2>2, Quiet
<1>4. CASE EndTick
  <2>1. jobs' = jobs
    BY <1>4 DEF EndTick
  <2> QED BY <1>1, <2>1, CallFacts, Quiet
<1> QED BY <1>2, <1>3, <1>4 DEF Tick

\* A second takes as much from the copies as from the rows.
LEMMA ElapseMuted == ASSUME MuteInv, Elapse PROVE Muted'
<1>1. ASSUME NEW m \in Monitors, NEW l \in Lanes
      PROVE  /\ jobs'[m][l].pc = jobs[m][l].pc /\ jobs'[m][l].tr = jobs[m][l].tr
             /\ jobs'[m][l].muted = jobs[m][l].muted
             /\ jobs[m][l].pc \in {"queued", "check"} =>
                    jobs'[m][l].mute = Sooner(jobs[m][l].mute)
  <2>1. jobs[m][l] \in Job
    BY CallFacts
  <2>2. jobs'[m][l] = IF jobs[m][l].pc \in {"idle", "queued", "check", "tellDown"}
                      THEN [jobs[m][l] EXCEPT !.mute = Sooner(@)]
                      ELSE [jobs[m][l] EXCEPT !.since = Later(@)]
    BY DEF Elapse
  <2> QED BY <2>1, <2>2 DEF Job
<1>2. ASSUME NEW m \in Monitors PROVE Allowance(m)'
  <2>1. /\ Allowance(m) /\ TypeOK /\ muteLeft[m] \in Nat
        /\ muteLeft'[m] = Sooner(muteLeft[m])
        /\ late'[m] = IF muteLeft'[m] = 0 THEN 0 ELSE late[m]
    BY DEF MuteInv, Muted, TypeOK, Elapse
  <2>2. CASE muteLeft'[m] = 0
    BY <2>1, <2>2 DEF Allowance
  <2>3. CASE muteLeft'[m] # 0
    <3>1. muteLeft[m] # 0 /\ late'[m] = late[m]
      BY <2>1, <2>3 DEF Sooner
    <3>2. ASSUME NEW l \in Lanes, Deaf(jobs'[m][l], muteLeft'[m])
          PROVE  Deaf(jobs[m][l], muteLeft[m])
      <4>1. jobs[m][l].mute = muteLeft[m] => Sooner(jobs[m][l].mute) = muteLeft'[m]
        BY <2>1
      <4> QED BY <1>1, <3>2, <4>1 DEF Deaf
    <3> QED BY <2>1, <2>3, <3>1, <3>2, Fewer
  <2> QED BY <2>2, <2>3
<1>3. \A m \in Monitors, l \in Lanes : Recovers(jobs'[m][l])
  BY <1>1, CallFacts DEF Recovers
<1> QED BY <1>2, <1>3 DEF Muted

LEMMA CommandMuted ==
    ASSUME MuteInv,
           \/ Crash \/ UNCHANGED vars
           \/ \E m \in Monitors : Add(m) \/ Remove(m) \/ FlipSite(m)
           \/ \E u \in Users, len \in MuteLens : Mute(u, len)
    PROVE  Muted'
<1>1. CASE Crash
  BY <1>1, IdleHears, Quiet DEF Crash, db, user
<1>2. CASE UNCHANGED <<muteLeft, late, jobs>>
  BY <1>2, CallFacts, Quiet
<1>3. ASSUME NEW m \in Monitors, Add(m) \/ Remove(m) \/ FlipSite(m)
      PROVE  UNCHANGED <<muteLeft, late, jobs>>
  BY <1>3 DEF Add, Remove, FlipSite, db, memory, user
<1>4. ASSUME NEW u \in Users, NEW len \in MuteLens, Mute(u, len) PROVE Muted'
  <2>1. ASSUME NEW m \in Monitors PROVE Allowance(m)'
    <3>1. jobs' = jobs /\ Allowance(m) /\ TypeOK
      BY <1>4 DEF Mute, memory, MuteInv, Muted
    <3>2. CASE row[m] = "live" /\ Owner[m] = u
      <4>1. late'[m] = 0
        BY <1>4, <3>2 DEF Mute
      <4>2. DeafLanes(m)' \subseteq Lanes
        BY DEF DeafLanes
      <4>3. /\ Cardinality(DeafLanes(m)') \in Nat
            /\ Cardinality(DeafLanes(m)') <= Cardinality(Lanes)
        BY <4>2, LanesCount
      <4>4. late'[m] + Cardinality(DeafLanes(m)') <= Cardinality(Lanes)
        BY <4>1, <4>3
      <4> QED BY <4>1, <4>4 DEF Allowance
    <3>3. CASE ~(row[m] = "live" /\ Owner[m] = u)
      <4>1. muteLeft'[m] = muteLeft[m] /\ late'[m] = late[m]
        BY <1>4, <3>3 DEF Mute
      <4> QED BY <3>1, <4>1, Fewer DEF Allowance
    <3> QED BY <3>2, <3>3
  <2>2. jobs' = jobs
    BY <1>4 DEF Mute, memory
  <2> QED BY <2>1, <2>2, CallFacts DEF Muted
<1> QED BY <1>1, <1>2, <1>3, <1>4 DEF vars, db, memory, user

LEMMA StepMuteInv == MuteInv /\ [Next]_vars => MuteInv'
<1> SUFFICES ASSUME MuteInv, [Next]_vars PROVE MuteInv'
  OBVIOUS
<1>1. TypeOK'
  BY StepTypeOK DEF MuteInv
<1>2. ASSUME NEW m \in Monitors, NEW l \in Lanes,
             JobStep(m, l) \/ DbError(m, l) \/ UpdateLost(m, l) \/ TelegramError(m, l)
      PROVE  Muted'
  BY <1>2, CheckMuted, CountMuted, FindMuted, MoveMuted, TellMuted, ThrowMuted DEF JobStep
<1>3. Muted'
  BY <1>2, TickMuted, ElapseMuted, CommandMuted DEF Next
<1> QED BY <1>1, <1>3 DEF MuteInv

LEMMA InitMuteInv == Init => MuteInv
<1> SUFFICES ASSUME Init PROVE MuteInv
  OBVIOUS
<1>1. \A m \in Monitors : muteLeft[m] = 0 /\ late[m] = 0
  BY DEF Init
<1>2. \A m \in Monitors, l \in Lanes : jobs[m][l] = NoJob
  BY DEF Init
<1> QED BY <1>1, <1>2, IdleHears, InitTypeOK DEF MuteInv, Muted, Allowance

\* A muted monitor alerts no more often than it has calls under way, whatever fails,
\* crashes, overlaps, is muted again or removed.
THEOREM LateOnlyOfRunningCallsHolds == Spec => []LateOnlyOfRunningCalls
<1>1. MuteInv => LateOnlyOfRunningCalls
  <2> SUFFICES ASSUME MuteInv, NEW m \in Monitors PROVE late[m] <= Cardinality(Lanes)
    BY DEF LateOnlyOfRunningCalls
  <2>1. DeafLanes(m) \subseteq Lanes
    BY DEF DeafLanes
  <2>2. /\ Cardinality(DeafLanes(m)) \in Nat /\ Cardinality(Lanes) \in Nat
        /\ late[m] \in Nat /\ Allowance(m)
    BY <2>1, LanesCount DEF MuteInv, Muted, TypeOK
  <2> QED BY <2>2 DEF Allowance
<1> QED BY <1>1, InitMuteInv, StepMuteInv, PTL DEF Spec
============================================================================
