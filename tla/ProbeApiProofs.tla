--------------------------- MODULE ProbeApiProofs ---------------------------
(***************************************************************************)
(* Probe and api for every number of monitors, handlers, events, attempts  *)
(* and upsets: type correctness; that no retry, lost reply or restart      *)
(* announces an outage twice while no handler outlives its client; and,    *)
(* until something goes wrong, that status and incidents agree and the two *)
(* processes together do what Outage promises.                             *)
(***************************************************************************)
EXTENDS ProbeApi, WellFoundedInduction, NaturalsInduction, TLAPS

JobTable == [Monitors -> Job]

Table == [Monitors -> [Handlers -> Handler]]

----------------------------------------------------------------------------
(* Helpers of the model                                                    *)

LEMMA LeastIn == ASSUME NEW S, S \subseteq Nat, S # {} PROVE Least(S) \in S
<1> DEFINE R == OpToRel(<, Nat)
<1>1. \A x, y \in Nat : x < y => <<x, y>> \in R
  BY DEF OpToRel
<1>2. IsWellFoundedOn(R, Nat)
  BY NatLessThanWellFounded
<1> HIDE DEF R
<1>3. PICK x \in S : \A y \in S : ~(<<y, x>> \in R)
  BY <1>2, WFMin
<1>4. ASSUME NEW y \in S PROVE x <= y
  <2>1. ~(y < x)
    BY <1>1, <1>3, Zenon
  <2>2. x \in Nat /\ y \in Nat
    OBVIOUS
  <2> QED BY <2>1, <2>2
<1> QED BY <1>4 DEF Least

LEMMA NoJobOK == NoJob \in Job
BY ProbeAssumption DEF NoJob, Job, MonitorStatus, Transition

LEMMA NoHandlerOK == NoHandler \in Handler
BY DEF NoHandler, Handler, Kind

LEMMA OnwardOK == \A h : Onward(h) \in {"status", "tell", "mark"}
BY DEF Onward

LEMMA DecideOK ==
    ASSUME NEW prev, NEW check, NEW n, NEW k PROVE Decide(prev, check, n, k) \in Transition
BY DEF Decide, Transition

\* A step of one handler, to the record r.
LEMMA SetHandler ==
    ASSUME handlers \in Table, NEW m \in Monitors, NEW s \in Handlers, NEW r \in Handler,
           handlers' = [handlers EXCEPT ![m][s] = r]
    PROVE  /\ handlers' \in Table
           /\ \A k \in Monitors, n \in Handlers :
                 handlers'[k][n] = IF k = m /\ n = s THEN r ELSE handlers[k][n]
BY DEF Table

LEMMA GoToOK ==
    ASSUME handlers \in Table, NEW m \in Monitors, NEW s \in Handlers,
           NEW pc \in {"find", "reply"}, GoTo(m, s, pc)
    PROVE  /\ handlers' \in Table
           /\ \E r \in Handler :
                 /\ r.pc \in {"find", "reply"} /\ r.awaited = handlers[m][s].awaited
                 /\ \A k \in Monitors, n \in Handlers :
                       handlers'[k][n] = IF k = m /\ n = s THEN r ELSE handlers[k][n]
<1> DEFINE r == [handlers[m][s] EXCEPT !.pc = pc]
<1>1. handlers[m][s] \in Handler
  BY DEF Table
<1>2. r \in Handler /\ r.pc \in {"find", "reply"} /\ r.awaited = handlers[m][s].awaited
  BY <1>1 DEF Handler
<1>3. handlers' = [handlers EXCEPT ![m][s] = r]
  BY DEF GoTo, Table
<1> HIDE DEF r
<1>4. /\ handlers' \in Table
      /\ \A k \in Monitors, n \in Handlers :
            handlers'[k][n] = IF k = m /\ n = s THEN r ELSE handlers[k][n]
  BY <1>2, <1>3, SetHandler
<1> QED BY <1>2, <1>4

LEMMA GoOnwardOK ==
    ASSUME handlers \in Table, NEW m \in Monitors, NEW s \in Handlers,
           GoTo(m, s, Onward(handlers[m][s]))
    PROVE  /\ handlers' \in Table
           /\ \A k \in Monitors, n \in Handlers :
                 handlers'[k][n] = IF k = m /\ n = s
                                   THEN [handlers[m][s] EXCEPT !.pc = Onward(handlers[m][s])]
                                   ELSE handlers[k][n]
<1> DEFINE o == Onward(handlers[m][s])
           r == [handlers[m][s] EXCEPT !.pc = o]
<1>1. o \in {"status", "tell", "mark"}
  BY OnwardOK
<1>2. handlers' = [handlers EXCEPT ![m][s] = r]
  BY DEF GoTo, Table
<1> HIDE DEF o
<1>3. handlers[m][s] \in Handler
  BY DEF Table
<1>4. r \in Handler
  BY <1>1, <1>3 DEF Handler
<1> HIDE DEF r
<1>5. /\ handlers' \in Table
      /\ \A k \in Monitors, n \in Handlers :
            handlers'[k][n] = IF k = m /\ n = s THEN r ELSE handlers[k][n]
  BY <1>2, <1>4, SetHandler
<1> QED BY <1>5 DEF r, o

\* A step of one goroutine.
LEMMA SetJob ==
    ASSUME jobs \in JobTable, NEW m \in Monitors, NEW r \in Job, jobs' = [jobs EXCEPT ![m] = r]
    PROVE  /\ jobs' \in JobTable
           /\ \A k \in Monitors : jobs'[k] = IF k = m THEN r ELSE jobs[k]
BY DEF JobTable

LEMMA FinishOK ==
    ASSUME jobs \in JobTable, NEW m \in Monitors, Finish(m)
    PROVE  /\ jobs' \in JobTable
           /\ \A k \in Monitors : jobs'[k] = IF k = m THEN NoJob ELSE jobs[k]
BY NoJobOK, SetJob DEF Finish

LEMMA AttemptFailsOK ==
    ASSUME jobs \in JobTable, NEW m \in Monitors, AttemptFails(m)
    PROVE  /\ jobs' \in JobTable
           /\ \A k \in Monitors : k # m => jobs'[k] = jobs[k]
<1>1. CASE jobs[m].attempt < Attempts
  <2> DEFINE r == [jobs[m] EXCEPT !.pc = "send", !.attempt = @ + 1]
  <2>1. jobs[m] \in Job /\ jobs[m].attempt + 1 \in 1..Attempts
    BY <1>1, ProbeAssumption DEF JobTable, Job
  <2>2. r \in Job
    BY <2>1 DEF Job
  <2>3. jobs' = [jobs EXCEPT ![m] = r]
    BY <1>1 DEF AttemptFails, JobTable
  <2> HIDE DEF r
  <2> QED BY <2>2, <2>3, SetJob
<1>2. CASE ~(jobs[m].attempt < Attempts)
  BY <1>2, FinishOK DEF AttemptFails
<1> QED BY <1>1, <1>2

LEMMA AfterTickOK ==
    ASSUME jobs \in JobTable, NEW m \in Monitors, NEW late \in BOOLEAN, AfterTick(m, late)
    PROVE  /\ jobs' \in JobTable
           /\ \A k \in Monitors : k # m => jobs'[k] = jobs[k]
<1> DEFINE r == IF Reports(jobs[m].tr)
                THEN [jobs[m] EXCEPT !.pc = "event", !.behind = late, !.prev = "unknown"]
                ELSE NoJob
<1>1. jobs[m] \in Job
  BY DEF JobTable
<1>2. r \in Job
  <2>1. [jobs[m] EXCEPT !.pc = "event", !.behind = late, !.prev = "unknown"] \in Job
    BY <1>1 DEF Job, MonitorStatus
  <2> QED BY <2>1, NoJobOK
<1>3. jobs' = [jobs EXCEPT ![m] = r]
  BY DEF AfterTick, JobTable
<1> HIDE DEF r
<1> QED BY <1>2, <1>3, SetJob

LEMMA EndsOK ==
    ASSUME handlers \in Table, jobs \in JobTable, NEW m \in Monitors, NEW s \in Handlers,
           Ends(m, s)
    PROVE  /\ handlers' \in Table /\ jobs' \in JobTable
           /\ \A k \in Monitors, n \in Handlers :
                 handlers'[k][n] = IF k = m /\ n = s THEN NoHandler ELSE handlers[k][n]
           /\ \A k \in Monitors : k # m => jobs'[k] = jobs[k]
BY NoHandlerOK, SetHandler, AttemptFailsOK DEF Ends

----------------------------------------------------------------------------
(* Type correctness                                                        *)

LEMMA InitTypeOK == Init => TypeOK
<1> SUFFICES ASSUME Init PROVE TypeOK
  OBVIOUS
<1>1. jobs \in JobTable /\ handlers \in Table
  BY NoJobOK, NoHandlerOK DEF Init, JobTable, Table
<1>2. 0 \in 0..Retries /\ 0 \in 0..MaxUpsets
  BY ProbeAssumption
<1>3. /\ status \in [Monitors -> MonitorStatus]
      /\ told \in [Monitors -> {"nothing", "down", "up"}]
  BY DEF Init, MonitorStatus
<1> QED BY <1>1, <1>2, <1>3 DEF Init, TypeOK, JobTable, Table

LEMMA StartTickTypeOK == ASSUME TypeOK, StartTick PROVE TypeOK'
<1> DEFINE r(m) == IF due[m] THEN [NoJob EXCEPT !.pc = "check", !.prev = status[m],
                                                !.muted = muted[m]]
                   ELSE NoJob
<1>1. ASSUME NEW m \in Monitors PROVE r(m) \in Job
  BY NoJobOK DEF TypeOK, Job
<1>2. jobs' = [m \in Monitors |-> r(m)]
  BY DEF StartTick
<1> HIDE DEF r
<1>3. jobs' \in JobTable
  BY <1>1, <1>2 DEF JobTable
<1> QED BY <1>3 DEF StartTick, TypeOK, JobTable, db, user

LEMMA CheckTypeOK == ASSUME TypeOK, NEW m \in Monitors, Check(m) PROVE TypeOK'
<1> DEFINE count == IF site[m] = "down" THEN Upto(fails[m] + 1, Retries) ELSE 0
           tr    == Decide(jobs[m].prev, site[m], count, Retries)
           r     == [jobs[m] EXCEPT !.pc = "tick", !.covered = muted[m], !.tr = tr]
<1>1. count \in 0..Retries
  BY ProbeAssumption DEF TypeOK, Upto
<1>2. tr \in Transition
  BY DecideOK
<1>3. jobs' = [jobs EXCEPT ![m] = r] /\ fails' = [fails EXCEPT ![m] = count]
  BY DEF Check, TypeOK
<1> HIDE DEF count, tr
<1>4. r \in Job
  <2>1. jobs[m] \in Job /\ muted[m] \in BOOLEAN
    BY DEF TypeOK
  <2> QED BY <1>2, <2>1 DEF Job
<1> HIDE DEF r
<1>5. jobs' \in JobTable
  BY <1>3, <1>4, SetJob DEF TypeOK, JobTable
<1>6. fails' \in [Monitors -> 0..Retries]
  BY <1>1, <1>3 DEF TypeOK
<1> QED BY <1>5, <1>6 DEF Check, TypeOK, JobTable, db, user

LEMMA UpdateTypeOK == ASSUME TypeOK, NEW m \in Monitors, UpdateMonitorTick(m) PROVE TypeOK'
<1> DEFINE h(k, s) == IF k = m /\ handlers[k][s].pc = "read"
                      THEN [handlers[k][s] EXCEPT !.behind = TRUE] ELSE handlers[k][s]
<1>1. jobs[m] \in Job
  BY DEF TypeOK
<1>2. MonitorStatusAfter(jobs[m].prev, jobs[m].tr) \in MonitorStatus
  BY <1>1 DEF MonitorStatusAfter, MonitorStatus, Job
<1>3. status' \in [Monitors -> MonitorStatus] /\ due' \in [Monitors -> BOOLEAN]
  BY <1>2 DEF UpdateMonitorTick, TypeOK
<1>4. ASSUME NEW k \in Monitors, NEW s \in Handlers PROVE h(k, s) \in Handler
  <2>1. handlers[k][s] \in Handler
    BY DEF TypeOK
  <2> QED BY <2>1 DEF Handler
<1>5. handlers' = [k \in Monitors |-> [s \in Handlers |-> h(k, s)]]
  BY DEF UpdateMonitorTick, TypeOK
<1>6. handlers' \in Table
  <2> HIDE DEF h
  <2> QED BY <1>4, <1>5 DEF Table
<1>7. jobs' \in JobTable
  BY AfterTickOK DEF UpdateMonitorTick, TypeOK, JobTable
<1> QED BY <1>3, <1>6, <1>7 DEF UpdateMonitorTick, TypeOK, JobTable, Table, user

LEMMA WriteEventTypeOK == ASSUME TypeOK, NEW m \in Monitors, WriteEvent(m) PROVE TypeOK'
<1>1. Least(NewEventIds(m)) \in EventIds
  <2>1. NewEventIds(m) \subseteq Nat /\ NewEventIds(m) # {} /\ NewEventIds(m) \subseteq EventIds
    BY IdAssumption DEF NewEventIds, WriteEvent
  <2> QED BY <2>1, LeastIn
<1> DEFINE e == Least(NewEventIds(m))
           r == [jobs[m] EXCEPT !.pc = "send", !.event = e]
<1>2. jobs' \in JobTable
  <2>1. CASE Finish(m)
    BY <2>1, FinishOK DEF TypeOK, JobTable
  <2>2. CASE jobs' = [jobs EXCEPT ![m].pc = "send", ![m].event = e]
    <3>1. jobs[m] \in Job
      BY DEF TypeOK
    <3> HIDE DEF e
    <3>2. r \in Job
      BY <1>1, <3>1 DEF Job, e
    <3>3. jobs' = [jobs EXCEPT ![m] = r]
      BY <2>2 DEF TypeOK
    <3> HIDE DEF r
    <3> QED BY <3>2, <3>3, SetJob DEF TypeOK, JobTable
  <2> QED BY <2>1, <2>2 DEF WriteEvent
<1>3. pending' \in [Monitors -> SUBSET EventIds]
  BY <1>1 DEF WriteEvent, TypeOK
<1>4. left' \in [Monitors -> BOOLEAN]
  <2>1. \/ left' = [left EXCEPT ![m] = TRUE]
        \/ left' = [left EXCEPT ![m] = left[m] \/ e \in pending[m]]
    <3> HIDE DEF e
    <3> QED BY DEF WriteEvent, e, TypeOK
  <2>2. (left[m] \/ e \in pending[m]) \in BOOLEAN
    BY DEF TypeOK
  <2> HIDE DEF e
  <2> QED BY <2>1, <2>2 DEF TypeOK
<1> QED BY <1>2, <1>3, <1>4 DEF WriteEvent, TypeOK, JobTable, user

LEMMA SendTypeOK ==
    ASSUME TypeOK, NEW m \in Monitors, Send(m)
    PROVE  /\ TypeOK'
           /\ \E s \in Handlers, r \in Handler :
                 /\ r.pc = "read" /\ r.awaited /\ handlers[m][s].pc = "idle"
                 /\ \A k \in Monitors, n \in Handlers :
                       handlers'[k][n] = IF k = m /\ n = s THEN r ELSE handlers[k][n]
           /\ \A k \in Monitors : jobs'[k] = IF k = m THEN [jobs[m] EXCEPT !.pc = "await"]
                                             ELSE jobs[k]
<1> DEFINE s == Least(Handlers \ Running(m))
           r == [NoHandler EXCEPT !.pc = "read", !.event = jobs[m].event, !.awaited = TRUE,
                    !.kind = IF jobs[m].tr = "recovered" THEN "recovery" ELSE "incident",
                    !.behind = jobs[m].behind, !.covered = jobs[m].covered]
           j == [jobs[m] EXCEPT !.pc = "await"]
<1>1. jobs[m] \in Job
  BY DEF TypeOK
<1>2. s \in Handlers \ Running(m)
  <2>1. Handlers \ Running(m) \subseteq Nat /\ Handlers \ Running(m) # {}
    BY IdAssumption DEF Send, Running
  <2> QED BY <2>1, LeastIn
<1>3. handlers[m][s].pc = "idle"
  <2> HIDE DEF s
  <2> QED BY <1>2 DEF Running
<1>4. r \in Handler /\ r.pc = "read" /\ r.awaited
  BY <1>1, NoHandlerOK DEF Handler, Kind, Job
<1>5. j \in Job
  BY <1>1 DEF Job
<1>6. jobs' = [jobs EXCEPT ![m] = j] /\ handlers' = [handlers EXCEPT ![m][s] = r]
  BY DEF Send, TypeOK
<1> HIDE DEF s, r
<1>7. /\ handlers' \in Table
      /\ \A k \in Monitors, n \in Handlers :
            handlers'[k][n] = IF k = m /\ n = s THEN r ELSE handlers[k][n]
  BY <1>2, <1>4, <1>6, SetHandler DEF TypeOK, Table
<1>8. jobs' \in JobTable /\ \A k \in Monitors : jobs'[k] = IF k = m THEN j ELSE jobs[k]
  <2> HIDE DEF j
  <2> QED BY <1>5, <1>6, SetJob DEF TypeOK, JobTable
<1>9. TypeOK'
  BY <1>7, <1>8 DEF Send, TypeOK, JobTable, Table, db, user
<1> QED BY <1>2, <1>3, <1>4, <1>7, <1>8, <1>9

LEMMA ReadTypeOK ==
    ASSUME TypeOK, NEW m \in Monitors, NEW s \in Handlers, Read(m, s)
    PROVE  TypeOK'
<1>1. handlers' \in Table
  BY GoToOK DEF Read, TypeOK, Table
<1> QED BY <1>1 DEF Read, TypeOK, Table, db, user

LEMMA FindTypeOK ==
    ASSUME TypeOK, NEW m \in Monitors, NEW s \in Handlers, FindIncident(m, s)
    PROVE  /\ TypeOK'
           /\ \E i \in IF openInc[m] = {} THEN {NoIncident} ELSE openInc[m] :
                 LET h == [handlers[m][s] EXCEPT !.inc = i]
                     r == [h EXCEPT !.pc = IF News(h) THEN "record" ELSE Onward(h)]
                 IN  /\ r \in Handler
                     /\ \A k \in Monitors, n \in Handlers :
                           handlers'[k][n] = IF k = m /\ n = s THEN r ELSE handlers[k][n]
<1>1. PICK i \in IF openInc[m] = {} THEN {NoIncident} ELSE openInc[m] :
           LET h == [handlers[m][s] EXCEPT !.inc = i]
           IN  handlers' = [handlers EXCEPT ![m][s] =
                   [h EXCEPT !.pc = IF News(h) THEN "record" ELSE Onward(h)]]
  BY DEF FindIncident
<1> DEFINE h == [handlers[m][s] EXCEPT !.inc = i]
           p == IF News(h) THEN "record" ELSE Onward(h)
           r == [h EXCEPT !.pc = p]
<1>2. h \in Handler
  <2>1. handlers[m][s] \in Handler /\ i \in IncidentIds \cup {NoIncident}
    BY <1>1 DEF TypeOK
  <2> QED BY <2>1 DEF Handler
<1>3. r \in Handler
  <2>1. p \in {"record", "status", "tell", "mark"}
    BY OnwardOK
  <2> HIDE DEF h, p
  <2> QED BY <1>2, <2>1 DEF Handler
<1>4. handlers' = [handlers EXCEPT ![m][s] = r]
  BY <1>1
<1> HIDE DEF r
<1>5. /\ handlers' \in Table
      /\ \A k \in Monitors, n \in Handlers :
            handlers'[k][n] = IF k = m /\ n = s THEN r ELSE handlers[k][n]
  BY <1>3, <1>4, SetHandler DEF TypeOK, Table
<1>6. TypeOK'
  BY <1>5 DEF FindIncident, TypeOK, Table, db, user
<1> QED BY <1>1, <1>3, <1>5, <1>6 DEF r

LEMMA NewIncident ==
    ASSUME NEW m \in Monitors, NewIncidentIds(m) # {}
    PROVE  Least(NewIncidentIds(m)) \in IncidentIds
<1>1. NewIncidentIds(m) \subseteq IncidentIds /\ NewIncidentIds(m) \subseteq Nat
  BY IdAssumption DEF NewIncidentIds
<1> QED BY <1>1, LeastIn

\* The handler that records: what becomes of the incidents, the alerts and its pc.
LEMMA RecordTypeOK ==
    ASSUME TypeOK, NEW m \in Monitors, NEW s \in Handlers, Record(m, s)
    PROVE  /\ TypeOK'
           /\ \A k \in Monitors, n \in Handlers :
                 handlers'[k][n] = IF k = m /\ n = s
                                   THEN [handlers[m][s] EXCEPT !.pc = Onward(handlers[m][s])]
                                   ELSE handlers[k][n]
           /\ \A k \in Monitors : k # m => openInc'[k] = openInc[k] /\ alerts'[k] = alerts[k]
           /\ IF handlers[m][s].kind = "incident"
              THEN openInc'[m] # {} /\ alerts'[m] = alerts[m]
              ELSE alerts'[m] = 0
<1> DEFINE h == handlers[m][s]
<1>1. GoTo(m, s, Onward(h))
  BY DEF Record
<1>2. /\ handlers' \in Table
      /\ \A k \in Monitors, n \in Handlers :
            handlers'[k][n] = IF k = m /\ n = s
                              THEN [handlers[m][s] EXCEPT !.pc = Onward(handlers[m][s])]
                              ELSE handlers[k][n]
  BY <1>1, GoOnwardOK DEF TypeOK, Table
<1>3. CASE h.kind = "incident"
  <2> DEFINE i == Least(NewIncidentIds(m))
  <2>1. i \in IncidentIds /\ openInc' = [openInc EXCEPT ![m] = @ \cup {i}] /\ alerts' = alerts
    BY <1>3, NewIncident DEF Record
  <2> HIDE DEF i
  <2>2. /\ openInc' \in [Monitors -> SUBSET IncidentIds] /\ i \in openInc'[m]
        /\ \A k \in Monitors : k # m => openInc'[k] = openInc[k]
    BY <2>1 DEF TypeOK
  <2>3. TypeOK'
    BY <1>2, <2>1, <2>2 DEF Record, TypeOK, Table
  <2> QED BY <1>2, <1>3, <2>1, <2>2, <2>3
<1>4. CASE h.kind # "incident"
  <2>1. openInc' = [openInc EXCEPT ![m] = @ \ {h.inc}] /\ alerts' = [alerts EXCEPT ![m] = 0]
    BY <1>4 DEF Record
  <2>2. /\ openInc' \in [Monitors -> SUBSET IncidentIds] /\ alerts' \in [Monitors -> 0..2]
        /\ alerts'[m] = 0
        /\ \A k \in Monitors : k # m => openInc'[k] = openInc[k] /\ alerts'[k] = alerts[k]
    BY <2>1 DEF TypeOK
  <2>3. TypeOK'
    BY <1>2, <2>2 DEF Record, TypeOK, Table
  <2> QED BY <1>2, <1>4, <2>2, <2>3
<1> QED BY <1>3, <1>4

\* The status write also moves last_check_at under the handlers still to read it.
LEMMA SetStatusTypeOK ==
    ASSUME TypeOK, NEW m \in Monitors, NEW s \in Handlers, SetStatus(m, s)
    PROVE  /\ TypeOK'
           /\ handlers'[m][s] = [handlers[m][s] EXCEPT !.pc = Onward(handlers[m][s])]
           /\ \A n \in Handlers \ {s} :
                 /\ handlers'[m][n].pc = handlers[m][n].pc
                 /\ handlers'[m][n].awaited = handlers[m][n].awaited
                 /\ handlers[m][n].pc # "read" => handlers'[m][n] = handlers[m][n]
           /\ \A k \in Monitors : k # m => handlers'[k] = handlers[k]
           /\ \A k \in Monitors : jobs'[k].pc = jobs[k].pc
<1> DEFINE h    == handlers[m][s]
           o    == Onward(h)
           b(n) == handlers[m][n].event < h.event
           g(n) == CASE n = s -> [h EXCEPT !.pc = o]
                     [] n # s /\ handlers[m][n].pc = "read" -> [handlers[m][n] EXCEPT !.behind = b(n)]
                     [] OTHER -> handlers[m][n]
           j    == [jobs[m] EXCEPT !.behind = FALSE]
<1>1. o \in {"status", "tell", "mark"}
  BY OnwardOK
<1>2. \A n \in Handlers : b(n) \in BOOLEAN
  OBVIOUS
<1>3. handlers' = [handlers EXCEPT ![m] = [n \in Handlers |-> g(n)]]
  BY DEF SetStatus, TypeOK
<1>4. \A n \in Handlers : handlers[m][n] \in Handler
  BY DEF TypeOK
<1> HIDE DEF o, b
<1>5. ASSUME NEW n \in Handlers
      PROVE  /\ g(n) \in Handler
             /\ n # s => /\ g(n).pc = handlers[m][n].pc
                         /\ g(n).awaited = handlers[m][n].awaited
                         /\ handlers[m][n].pc # "read" => g(n) = handlers[m][n]
  BY <1>1, <1>2, <1>4, <1>5 DEF Handler
<1>6. g(s) = [h EXCEPT !.pc = o]
  OBVIOUS
<1> HIDE DEF g
<1>7. /\ handlers' \in Table
      /\ \A n \in Handlers : handlers'[m][n] = g(n)
      /\ \A k \in Monitors : k # m => handlers'[k] = handlers[k]
  BY <1>3, <1>5 DEF TypeOK, Table
<1>8. jobs[m] \in Job /\ jobs' = [jobs EXCEPT ![m] = j]
  BY DEF SetStatus, TypeOK
<1>9. j \in Job /\ j.pc = jobs[m].pc
  BY <1>8 DEF Job
<1> HIDE DEF j
<1>10. jobs' \in JobTable /\ \A k \in Monitors : jobs'[k] = IF k = m THEN j ELSE jobs[k]
  BY <1>8, <1>9, SetJob DEF TypeOK, JobTable
<1>11. status' \in [Monitors -> MonitorStatus] /\ due' \in [Monitors -> BOOLEAN]
  BY DEF SetStatus, TypeOK, MonitorStatus
<1>12. TypeOK'
  BY <1>7, <1>10, <1>11 DEF SetStatus, TypeOK, JobTable, Table, user
<1> QED BY <1>5, <1>6, <1>7, <1>9, <1>10, <1>12 DEF o

LEMMA TellTypeOK ==
    ASSUME TypeOK, NEW m \in Monitors, NEW s \in Handlers, Tell(m, s)
    PROVE  /\ TypeOK'
           /\ \A k \in Monitors, n \in Handlers :
                 handlers'[k][n] = IF k = m /\ n = s
                                   THEN [handlers[m][s] EXCEPT !.pc = Onward(handlers[m][s])]
                                   ELSE handlers[k][n]
           /\ \A k \in Monitors : k # m => alerts'[k] = alerts[k]
           /\ alerts'[m] = IF handlers[m][s].kind = "incident" THEN Upto(alerts[m] + 1, 2)
                           ELSE alerts[m]
<1>1. GoTo(m, s, Onward(handlers[m][s]))
  BY DEF Tell
<1>2. /\ handlers' \in Table
      /\ \A k \in Monitors, n \in Handlers :
            handlers'[k][n] = IF k = m /\ n = s
                              THEN [handlers[m][s] EXCEPT !.pc = Onward(handlers[m][s])]
                              ELSE handlers[k][n]
  BY <1>1, GoOnwardOK DEF TypeOK, Table
<1> DEFINE a == IF handlers[m][s].kind = "incident" THEN Upto(alerts[m] + 1, 2) ELSE alerts[m]
<1>3. a \in 0..2
  BY DEF TypeOK, Upto
<1>4. alerts' = [alerts EXCEPT ![m] = a]
  BY DEF Tell, TypeOK
<1>5. \A k \in Monitors : alerts'[k] = IF k = m THEN a ELSE alerts[k]
  BY <1>4 DEF TypeOK
<1> HIDE DEF a
<1>6. alerts' \in [Monitors -> 0..2] /\ told' \in [Monitors -> {"nothing", "down", "up"}]
  BY <1>3, <1>4 DEF Tell, TypeOK
<1>7. TypeOK'
  BY <1>2, <1>6 DEF Tell, TypeOK, Table, db
<1> QED BY <1>2, <1>5, <1>7 DEF a

LEMMA MarkTypeOK ==
    ASSUME TypeOK, NEW m \in Monitors, NEW s \in Handlers, MarkDelivered(m, s)
    PROVE  TypeOK'
<1>1. handlers' \in Table
  BY GoToOK DEF MarkDelivered, TypeOK, Table
<1> QED BY <1>1 DEF MarkDelivered, TypeOK, Table, user

LEMMA ReplyTypeOK ==
    ASSUME TypeOK, NEW m \in Monitors, NEW s \in Handlers, Reply(m, s)
    PROVE  /\ TypeOK'
           /\ \A k \in Monitors, n \in Handlers :
                 handlers'[k][n] = IF k = m /\ n = s THEN NoHandler ELSE handlers[k][n]
           /\ \A k \in Monitors : k # m => jobs'[k] = jobs[k]
<1>1. /\ handlers' \in Table
      /\ \A k \in Monitors, n \in Handlers :
            handlers'[k][n] = IF k = m /\ n = s THEN NoHandler ELSE handlers[k][n]
  BY NoHandlerOK, SetHandler DEF Reply, TypeOK, Table
<1>2. jobs' \in JobTable /\ \A k \in Monitors : k # m => jobs'[k] = jobs[k]
  BY FinishOK DEF Reply, TypeOK, JobTable
<1> QED BY <1>1, <1>2 DEF Reply, TypeOK, JobTable, Table, db, user

LEMMA UpsetOK == ASSUME TypeOK, NEW kind, Upset(kind) PROVE upsets' \in 0..MaxUpsets
BY ProbeAssumption DEF TypeOK, Upset

LEMMA TickFailsTypeOK == ASSUME TypeOK, NEW m \in Monitors, TickFails(m) PROVE TypeOK'
<1>1. jobs' \in JobTable
  BY AfterTickOK DEF TickFails, TypeOK, JobTable
<1>2. upsets' \in 0..MaxUpsets
  BY UpsetOK DEF TickFails
<1> QED BY <1>1, <1>2 DEF TickFails, TypeOK, JobTable, db, user

LEMMA EventFailsTypeOK == ASSUME TypeOK, NEW m \in Monitors, EventFails(m) PROVE TypeOK'
<1>1. jobs' \in JobTable
  BY FinishOK DEF EventFails, TypeOK, JobTable
<1>2. upsets' \in 0..MaxUpsets
  BY UpsetOK DEF EventFails
<1> QED BY <1>1, <1>2 DEF EventFails, TypeOK, JobTable, db, user

LEMMA HandlerFailsTypeOK ==
    ASSUME TypeOK, NEW m \in Monitors, NEW s \in Handlers, HandlerFails(m, s)
    PROVE  TypeOK'
<1>1. handlers' \in Table /\ jobs' \in JobTable
  BY EndsOK DEF HandlerFails, TypeOK, JobTable, Table
<1>2. upsets' \in 0..MaxUpsets
  BY UpsetOK DEF HandlerFails
<1> QED BY <1>1, <1>2 DEF HandlerFails, TypeOK, JobTable, Table, db, user

\* A request that fails moves no handler but, at most, the one whose reply is lost.
LEMMA NetworkErrorTypeOK ==
    ASSUME TypeOK, NEW m \in Monitors, NetworkError(m)
    PROVE  /\ TypeOK'
           /\ \A k \in Monitors : k # m => jobs'[k] = jobs[k]
           /\ \/ handlers' = handlers /\ jobs[m].pc = "send"
              \/ \E s \in Handlers :
                    \A k \in Monitors, n \in Handlers :
                       handlers'[k][n] = IF k = m /\ n = s THEN NoHandler ELSE handlers[k][n]
<1>1. upsets' \in 0..MaxUpsets
  BY UpsetOK DEF NetworkError
<1>2. jobs \in JobTable /\ handlers \in Table
  BY DEF TypeOK, JobTable, Table
<1>3. /\ handlers' \in Table /\ jobs' \in JobTable
      /\ \A k \in Monitors : k # m => jobs'[k] = jobs[k]
      /\ \/ handlers' = handlers /\ jobs[m].pc = "send"
         \/ \E s \in Handlers :
               \A k \in Monitors, n \in Handlers :
                  handlers'[k][n] = IF k = m /\ n = s THEN NoHandler ELSE handlers[k][n]
  <2>1. CASE jobs[m].pc = "send" /\ AttemptFails(m) /\ UNCHANGED handlers
    BY <1>2, <2>1, AttemptFailsOK
  <2>2. CASE jobs[m].pc = "send" /\ Finish(m) /\ UNCHANGED handlers
    BY <1>2, <2>2, FinishOK
  <2>3. CASE \E s \in Awaited(m) : handlers[m][s].pc = "reply" /\ Ends(m, s)
    <3>1. PICK s \in Handlers : Ends(m, s)
      BY <2>3 DEF Awaited
    <3> QED BY <1>2, <3>1, EndsOK
  <2> QED BY <2>1, <2>2, <2>3 DEF NetworkError
<1>4. TypeOK'
  BY <1>1, <1>3 DEF NetworkError, TypeOK, JobTable, Table, db, user
<1> QED BY <1>3, <1>4

LEMMA TimeoutTypeOK ==
    ASSUME TypeOK, NEW m \in Monitors, NEW s \in Handlers, Timeout(m, s)
    PROVE  /\ TypeOK'
           /\ overrun'[m]
           /\ \A k \in Monitors : k # m => /\ jobs'[k] = jobs[k] /\ overrun'[k] = overrun[k]
                                           /\ handlers'[k] = handlers[k]
<1> DEFINE r == [handlers[m][s] EXCEPT !.awaited = FALSE]
<1>1. handlers[m][s] \in Handler
  BY DEF TypeOK
<1>2. r \in Handler
  BY <1>1 DEF Handler
<1>3. handlers' = [handlers EXCEPT ![m][s] = r]
  BY DEF Timeout, TypeOK
<1> HIDE DEF r
<1>4. handlers' \in Table /\ \A k \in Monitors : k # m => handlers'[k] = handlers[k]
  BY <1>2, <1>3 DEF TypeOK, Table
<1>5. jobs' \in JobTable /\ \A k \in Monitors : k # m => jobs'[k] = jobs[k]
  BY AttemptFailsOK DEF Timeout, TypeOK, JobTable
<1>6. /\ overrun' \in [Monitors -> BOOLEAN] /\ overrun'[m]
      /\ \A k \in Monitors : k # m => overrun'[k] = overrun[k]
  BY DEF Timeout, TypeOK
<1>7. upsets' \in 0..MaxUpsets
  BY UpsetOK DEF Timeout
<1>8. TypeOK'
  BY <1>4, <1>5, <1>6, <1>7 DEF Timeout, TypeOK, JobTable, Table, db, user
<1> QED BY <1>4, <1>5, <1>6, <1>8

LEMMA TelegramErrorTypeOK ==
    ASSUME TypeOK, NEW m \in Monitors, NEW s \in Handlers, TelegramError(m, s)
    PROVE  /\ TypeOK'
           /\ \A k \in Monitors, n \in Handlers :
                 handlers'[k][n] = IF k = m /\ n = s
                                   THEN [handlers[m][s] EXCEPT !.pc = Onward(handlers[m][s])]
                                   ELSE handlers[k][n]
<1>1. GoTo(m, s, Onward(handlers[m][s]))
  BY DEF TelegramError
<1>2. /\ handlers' \in Table
      /\ \A k \in Monitors, n \in Handlers :
            handlers'[k][n] = IF k = m /\ n = s
                              THEN [handlers[m][s] EXCEPT !.pc = Onward(handlers[m][s])]
                              ELSE handlers[k][n]
  BY <1>1, GoOnwardOK DEF TypeOK, Table
<1>3. upsets' \in 0..MaxUpsets
  BY UpsetOK DEF TelegramError
<1>4. TypeOK'
  BY <1>2, <1>3 DEF TelegramError, TypeOK, Table, db, user
<1> QED BY <1>2, <1>4

LEMMA CrashProbeTypeOK == ASSUME TypeOK, CrashProbe PROVE TypeOK'
<1> DEFINE h(m, s) == [handlers[m][s] EXCEPT !.awaited = FALSE]
<1>1. ASSUME NEW m \in Monitors, NEW s \in Handlers PROVE h(m, s) \in Handler
  <2>1. handlers[m][s] \in Handler
    BY DEF TypeOK
  <2> QED BY <2>1 DEF Handler
<1>2. handlers' = [m \in Monitors |-> [s \in Handlers |-> h(m, s)]]
  BY DEF CrashProbe
<1> HIDE DEF h
<1>3. handlers' \in Table
  BY <1>1, <1>2 DEF Table
<1>4. jobs' \in JobTable
  BY NoJobOK DEF CrashProbe, JobTable
<1>5. fails' \in [Monitors -> 0..Retries]
  BY ProbeAssumption DEF CrashProbe
<1>6. overrun' \in [Monitors -> BOOLEAN]
  <2>1. \A m \in Monitors : (overrun[m] \/ Awaited(m) # {}) \in BOOLEAN
    OBVIOUS
  <2> QED BY <2>1 DEF CrashProbe
<1>7. upsets' \in 0..MaxUpsets
  BY UpsetOK DEF CrashProbe
<1> QED BY <1>3, <1>4, <1>5, <1>6, <1>7 DEF CrashProbe, TypeOK, JobTable, Table, db, user

LEMMA CrashApiTypeOK == ASSUME TypeOK, CrashApi PROVE TypeOK'
<1> DEFINE r(m) == CASE Awaited(m) = {}            -> jobs[m]
                     [] jobs[m].attempt < Attempts -> [jobs[m] EXCEPT !.pc = "send", !.attempt = @ + 1]
                     [] OTHER                      -> NoJob
<1>1. ASSUME NEW m \in Monitors PROVE r(m) \in Job
  <2>1. jobs[m] \in Job
    BY DEF TypeOK
  <2>2. CASE jobs[m].attempt < Attempts
    <3>1. jobs[m].attempt + 1 \in 1..Attempts
      BY <2>1, <2>2, ProbeAssumption DEF Job
    <3>2. [jobs[m] EXCEPT !.pc = "send", !.attempt = @ + 1] \in Job
      BY <2>1, <3>1 DEF Job
    <3> QED BY <2>1, <2>2, <3>2
  <2>3. CASE ~(jobs[m].attempt < Attempts)
    BY <2>1, <2>3, NoJobOK
  <2> QED BY <2>2, <2>3
<1>2. jobs' = [m \in Monitors |-> r(m)]
  BY DEF CrashApi
<1> HIDE DEF r
<1>3. jobs' \in JobTable
  BY <1>1, <1>2 DEF JobTable
<1>4. handlers' \in Table
  BY NoHandlerOK DEF CrashApi, Table
<1>5. upsets' \in 0..MaxUpsets
  BY UpsetOK DEF CrashApi
<1> QED BY <1>3, <1>4, <1>5 DEF CrashApi, TypeOK, JobTable, Table, db, user

LEMMA MuteTypeOK == ASSUME TypeOK, Mute PROVE TypeOK'
<1> DEFINE r(m) == IF jobs[m].pc \in {"idle", "check"} THEN jobs[m]
                   ELSE [jobs[m] EXCEPT !.covered = TRUE]
           h(m, s) == IF handlers[m][s].pc = "read" THEN [handlers[m][s] EXCEPT !.covered = TRUE]
                      ELSE handlers[m][s]
<1>1. ASSUME NEW m \in Monitors PROVE r(m) \in Job
  <2>1. jobs[m] \in Job
    BY DEF TypeOK
  <2> QED BY <2>1 DEF Job
<1>2. ASSUME NEW m \in Monitors, NEW s \in Handlers PROVE h(m, s) \in Handler
  <2>1. handlers[m][s] \in Handler
    BY DEF TypeOK
  <2> QED BY <2>1 DEF Handler
<1>3. /\ jobs' = [m \in Monitors |-> r(m)]
      /\ handlers' = [m \in Monitors |-> [s \in Handlers |-> h(m, s)]]
  BY DEF Mute
<1> HIDE DEF r, h
<1>4. jobs' \in JobTable /\ handlers' \in Table
  BY <1>1, <1>2, <1>3 DEF JobTable, Table
<1>5. upsets' \in 0..MaxUpsets
  BY UpsetOK DEF Mute
<1>6. muted' \in [Monitors -> BOOLEAN]
  BY DEF Mute
<1> QED BY <1>4, <1>5, <1>6 DEF Mute, TypeOK, JobTable, Table, user

LEMMA UnmuteTypeOK ==
    ASSUME TypeOK, NEW m \in Monitors, Unmute(m)
    PROVE  TypeOK' /\ \A k \in Monitors : jobs'[k].pc = jobs[k].pc
<1> DEFINE b == IF jobs[m].pc = "check" THEN FALSE ELSE jobs[m].muted
           r == [jobs[m] EXCEPT !.muted = b]
<1>1. jobs[m] \in Job
  BY DEF TypeOK
<1>2. b \in BOOLEAN
  BY <1>1 DEF Job
<1>3. jobs' = [jobs EXCEPT ![m] = r]
  BY DEF Unmute, TypeOK
<1> HIDE DEF b
<1>4. r \in Job /\ r.pc = jobs[m].pc
  BY <1>1, <1>2 DEF Job
<1> HIDE DEF r
<1>5. jobs' \in JobTable /\ \A k \in Monitors : jobs'[k] = IF k = m THEN r ELSE jobs[k]
  BY <1>3, <1>4, SetJob DEF TypeOK, JobTable
<1>6. TypeOK'
  BY <1>5 DEF Unmute, TypeOK, JobTable, user
<1> QED BY <1>4, <1>5, <1>6

LEMMA FlipTypeOK == ASSUME TypeOK, NEW m \in Monitors, FlipSite(m) PROVE TypeOK'
<1>1. site' \in [Monitors -> HeartbeatStatus]
  BY DEF FlipSite, TypeOK, HeartbeatStatus
<1> QED BY <1>1 DEF FlipSite, TypeOK, db, user

LEMMA DueTypeOK == ASSUME TypeOK, NEW m \in Monitors, BecomesDue(m) PROVE TypeOK'
BY DEF BecomesDue, TypeOK, user

LEMMA StepTypeOK == TypeOK /\ [Next]_vars => TypeOK'
<1> SUFFICES ASSUME TypeOK, [Next]_vars PROVE TypeOK'
  OBVIOUS
<1>1. CASE StartTick \/ Mute \/ CrashProbe \/ CrashApi
  BY <1>1, StartTickTypeOK, MuteTypeOK, CrashProbeTypeOK, CrashApiTypeOK
<1>2. ASSUME NEW m \in Monitors,
             BecomesDue(m) \/ ProbeStep(m) \/ Unmute(m) \/ FlipSite(m)
      PROVE  TypeOK'
  BY <1>2, DueTypeOK, CheckTypeOK, UpdateTypeOK, WriteEventTypeOK, SendTypeOK, UnmuteTypeOK,
     FlipTypeOK DEF ProbeStep
<1>3. ASSUME NEW m \in Monitors, TickFails(m) \/ EventFails(m) \/ NetworkError(m)
      PROVE  TypeOK'
  BY <1>3, TickFailsTypeOK, EventFailsTypeOK, NetworkErrorTypeOK
<1>4. ASSUME NEW m \in Monitors, NEW s \in Handlers, HandlerStep(m, s)
      PROVE  TypeOK'
  BY <1>4, ReadTypeOK, FindTypeOK, RecordTypeOK, SetStatusTypeOK, TellTypeOK, MarkTypeOK,
     ReplyTypeOK DEF HandlerStep
<1>5. ASSUME NEW m \in Monitors, NEW s \in Handlers,
             HandlerFails(m, s) \/ Timeout(m, s) \/ TelegramError(m, s)
      PROVE  TypeOK'
  BY <1>5, HandlerFailsTypeOK, TimeoutTypeOK, TelegramErrorTypeOK
<1>6. CASE UNCHANGED vars
  BY <1>6 DEF vars, db, user, TypeOK
<1> QED BY <1>1, <1>2, <1>3, <1>4, <1>5, <1>6 DEF Next

\* Whatever interleaving of probe, handlers, faults and users: every row, goroutine and
\* handler keeps to its type (main.go, internal.ts).
THEOREM TypeCorrect == Spec => []TypeOK
<1>1. Init => TypeOK
  BY InitTypeOK
<1>2. TypeOK /\ [Next]_vars => TypeOK'
  BY StepTypeOK
<1> QED BY <1>1, <1>2, PTL DEF Spec

----------------------------------------------------------------------------
(* One alert for each outage                                               *)

\* What the alert of an outage asks of the handler h of m: it inserts an incident only
\* where none is open, and sends only the first alert of one that is.
Fits(m, h) ==
    /\ h.pc = "record" /\ h.kind = "incident" => openInc[m] = {}
    /\ h.pc = "tell" /\ h.kind = "incident" => ToTell(h)
    /\ h.pc \in {"status", "tell"} /\ h.kind = "incident" /\ ToTell(h) =>
          alerts[m] = 0 /\ openInc[m] # {}

\* The handler that runs is the only one, and its client waits for it.
Alone(m) ==
    /\ \A s \in Running(m) : handlers[m][s].awaited /\ jobs[m].pc = "await"
    /\ \A s, n \in Running(m) : s = n

Once(m) ==
    /\ alerts[m] <= 1
    /\ alerts[m] = 1 => openInc[m] # {}
    /\ \A s \in Handlers : Fits(m, handlers[m][s])
    /\ Alone(m)

Kept(m) == overrun[m] \/ Once(m)

AlertInv == TypeOK /\ \A m \in Monitors : Kept(m)

\* A step that moves no handler of m, and takes no waiting client away.
LEMMA KeptStays ==
    ASSUME NEW m \in Monitors, Kept(m),
           openInc'[m] = openInc[m], alerts'[m] = alerts[m], overrun'[m] = overrun[m],
           \A n \in Handlers :
              /\ handlers'[m][n].pc = handlers[m][n].pc
              /\ handlers'[m][n].awaited = handlers[m][n].awaited
              /\ handlers[m][n].pc # "read" => handlers'[m][n] = handlers[m][n],
           jobs[m].pc = "await" => jobs'[m].pc = "await"
    PROVE  Kept(m)'
<1> SUFFICES ASSUME Once(m) PROVE Once(m)'
  BY DEF Kept
<1>1. ASSUME NEW n \in Handlers PROVE Fits(m, handlers[m][n])'
  <2>1. CASE handlers[m][n].pc = "read"
    BY <2>1 DEF Fits
  <2>2. CASE handlers[m][n].pc # "read"
    <3>1. handlers'[m][n] = handlers[m][n] /\ Fits(m, handlers[m][n])
      BY <2>2 DEF Once
    <3> QED BY <3>1 DEF Fits, ToTell, News
  <2> QED BY <2>1, <2>2
<1>2. Alone(m)'
  BY DEF Once, Alone, Running
<1> QED BY <1>1, <1>2 DEF Once

\* A step of the handler s that goes on.
LEMMA KeptMoves ==
    ASSUME NEW m \in Monitors, Once(m), NEW s \in Handlers, handlers[m][s].pc # "idle",
           handlers'[m][s].awaited = handlers[m][s].awaited,
           \A n \in Handlers \ {s} : handlers'[m][n].pc = handlers[m][n].pc,
           jobs'[m].pc = jobs[m].pc,
           alerts'[m] <= 1, alerts'[m] = 1 => openInc'[m] # {},
           Fits(m, handlers[m][s])'
    PROVE  Once(m)'
<1>1. \A n \in Handlers \ {s} : handlers[m][n].pc = "idle"
  BY DEF Once, Alone, Running
<1>2. \A n \in Handlers : Fits(m, handlers[m][n])'
  BY <1>1 DEF Fits
<1>3. Alone(m)'
  BY <1>1 DEF Once, Alone, Running
<1> QED BY <1>2, <1>3 DEF Once

\* A step after which no handler of m runs.
LEMMA KeptEnds ==
    ASSUME NEW m \in Monitors, Once(m), \A n \in Handlers : handlers'[m][n].pc = "idle",
           openInc'[m] = openInc[m], alerts'[m] = alerts[m]
    PROVE  Once(m)'
<1>1. (\A n \in Handlers : Fits(m, handlers[m][n])) '
  BY DEF Fits
<1>2. Alone(m)'
  BY DEF Alone, Running
<1> QED BY <1>1, <1>2 DEF Once

\* Where no client waits no handler runs.
LEMMA NobodyRuns ==
    ASSUME NEW m \in Monitors, Once(m), jobs[m].pc # "await"
    PROVE  \A n \in Handlers : handlers[m][n].pc = "idle"
BY DEF Once, Alone, Running

LEMMA SendKeeps ==
    ASSUME AlertInv, NEW m \in Monitors, Send(m), NEW k \in Monitors
    PROVE  Kept(k)'
<1>1. UNCHANGED <<openInc, alerts, overrun>>
  BY DEF Send, db, user
<1>2. PICK s \in Handlers, r \in Handler :
         /\ r.pc = "read" /\ r.awaited /\ handlers[m][s].pc = "idle"
         /\ \A i \in Monitors, n \in Handlers :
               handlers'[i][n] = IF i = m /\ n = s THEN r ELSE handlers[i][n]
  BY SendTypeOK DEF AlertInv
<1>3. \A i \in Monitors : jobs'[i] = IF i = m THEN [jobs[m] EXCEPT !.pc = "await"] ELSE jobs[i]
  BY SendTypeOK DEF AlertInv
<1>4. jobs[m] \in Job /\ Kept(k)
  BY DEF AlertInv, TypeOK
<1>5. CASE k # m
  BY <1>1, <1>2, <1>3, <1>4, <1>5, KeptStays
<1>6. CASE k = m /\ Once(k)
  <2>1. jobs[m].pc = "send" /\ jobs'[m].pc = "await"
    BY <1>3, <1>4 DEF Send, Job
  <2>2. \A n \in Handlers : handlers[m][n].pc = "idle"
    BY <1>6, <2>1, NobodyRuns
  <2>3. \A n \in Handlers : handlers'[m][n] = IF n = s THEN r ELSE handlers[m][n]
    BY <1>2
  <2>4. \A n \in Handlers : Fits(m, handlers[m][n])'
    BY <1>2, <2>2, <2>3 DEF Fits
  <2>5. Alone(m)'
    BY <1>2, <2>1, <2>2, <2>3 DEF Alone, Running
  <2> QED BY <1>1, <1>6, <2>4, <2>5 DEF Kept, Once
<1>7. CASE overrun[k]
  BY <1>1, <1>7 DEF Kept
<1> QED BY <1>4, <1>5, <1>6, <1>7 DEF Kept

LEMMA ReadKeeps ==
    ASSUME AlertInv, NEW m \in Monitors, NEW s \in Handlers, NEW k \in Monitors,
           Read(m, s) \/ MarkDelivered(m, s)
    PROVE  Kept(k)'
<1>1. UNCHANGED <<openInc, alerts, overrun, jobs>> /\ handlers[m][s].pc # "idle"
  BY DEF Read, MarkDelivered, db, user
<1>2. handlers \in Table /\ handlers[m][s] \in Handler
  BY DEF AlertInv, TypeOK, Table
<1>3. PICK r \in Handler :
         /\ r.pc \in {"find", "reply"} /\ r.awaited = handlers[m][s].awaited
         /\ \A i \in Monitors, n \in Handlers :
               handlers'[i][n] = IF i = m /\ n = s THEN r ELSE handlers[i][n]
  BY <1>2, GoToOK DEF Read, MarkDelivered
<1>4. Kept(k)
  BY DEF AlertInv
<1>5. CASE k # m
  BY <1>1, <1>3, <1>4, <1>5, KeptStays
<1>6. CASE k = m /\ Once(k)
  <2>1. handlers'[m][s] = r /\ \A n \in Handlers \ {s} : handlers'[m][n] = handlers[m][n]
    BY <1>3
  <2>2. Fits(m, handlers[m][s])'
    BY <1>3, <2>1 DEF Fits
  <2>3. Once(m)'
    BY <1>1, <1>3, <1>6, <2>1, <2>2, KeptMoves DEF Once
  <2> QED BY <1>6, <2>3 DEF Kept
<1>7. CASE overrun[k]
  BY <1>1, <1>7 DEF Kept
<1> QED BY <1>4, <1>5, <1>6, <1>7 DEF Kept

\* The steps of a handler that goes on at Onward.
LEMMA OnwardKeeps ==
    ASSUME AlertInv, NEW m \in Monitors, NEW s \in Handlers, NEW k \in Monitors,
           handlers[m][s].pc \in {"record", "status", "tell"},
           handlers'[m][s] = [handlers[m][s] EXCEPT !.pc = Onward(handlers[m][s])],
           \A n \in Handlers \ {s} :
              /\ handlers'[m][n].pc = handlers[m][n].pc
              /\ handlers'[m][n].awaited = handlers[m][n].awaited
              /\ handlers[m][n].pc # "read" => handlers'[m][n] = handlers[m][n],
           \A i \in Monitors : i # m => \A n \in Handlers : handlers'[i][n] = handlers[i][n],
           \A i \in Monitors : jobs'[i].pc = jobs[i].pc /\ overrun'[i] = overrun[i],
           \A i \in Monitors : i # m => openInc'[i] = openInc[i] /\ alerts'[i] = alerts[i],
           Once(m) => /\ alerts'[m] <= 1
                      /\ alerts'[m] = 1 => openInc'[m] # {}
                      /\ /\ handlers[m][s].pc \in {"record", "status"}
                         /\ handlers[m][s].kind = "incident"
                         /\ ToTell(handlers[m][s])
                         => alerts'[m] = 0 /\ openInc'[m] # {}
    PROVE  Kept(k)'
<1>1. handlers[m][s] \in Handler /\ Kept(k)
  BY DEF AlertInv, TypeOK
<1>2. CASE k # m
  BY <1>1, <1>2, KeptStays
<1>3. CASE k = m /\ Once(k)
  <2> DEFINE h == handlers[m][s]
             o == Onward(h)
  <2>1. /\ o \in {"status", "tell", "mark"}
        /\ h.kind = "incident" /\ o = "tell" => ToTell(h)
        /\ h.kind = "incident" /\ h.pc = "tell" => o = "mark"
    BY DEF Onward
  <2> HIDE DEF o
  <2>2. handlers'[m][s] = [h EXCEPT !.pc = o]
    BY DEF o
  <2>3. /\ handlers'[m][s].pc = o /\ handlers'[m][s].awaited = h.awaited
        /\ handlers'[m][s].kind = h.kind /\ handlers'[m][s].inc = h.inc
        /\ handlers'[m][s].covered = h.covered
    BY <1>1, <2>2 DEF Handler
  <2>4. ToTell(handlers[m][s])' <=> ToTell(handlers[m][s])
    BY <2>3 DEF ToTell, News
  <2>5. Fits(m, handlers[m][s])'
    BY <1>3, <2>1, <2>3, <2>4 DEF Fits
  <2>6. Once(m)'
    BY <1>3, <2>1, <2>3, <2>5, KeptMoves
  <2> QED BY <1>3, <2>6 DEF Kept
<1>4. CASE overrun[k]
  BY <1>4 DEF Kept
<1> QED BY <1>1, <1>2, <1>3, <1>4 DEF Kept

LEMMA FindKeeps ==
    ASSUME AlertInv, NEW m \in Monitors, NEW s \in Handlers, NEW k \in Monitors,
           FindIncident(m, s)
    PROVE  Kept(k)'
<1>1. UNCHANGED <<openInc, alerts, overrun, jobs>> /\ handlers[m][s].pc = "find"
  BY DEF FindIncident, db, user
<1>2. handlers[m][s] \in Handler /\ Kept(k) /\ openInc[m] \subseteq IncidentIds
  BY DEF AlertInv, TypeOK
<1>3. PICK i \in IF openInc[m] = {} THEN {NoIncident} ELSE openInc[m] :
           LET h == [handlers[m][s] EXCEPT !.inc = i]
               r == [h EXCEPT !.pc = IF News(h) THEN "record" ELSE Onward(h)]
           IN  /\ r \in Handler
               /\ \A j \in Monitors, n \in Handlers :
                     handlers'[j][n] = IF j = m /\ n = s THEN r ELSE handlers[j][n]
  BY FindTypeOK DEF AlertInv
<1> DEFINE h == [handlers[m][s] EXCEPT !.inc = i]
           p == IF News(h) THEN "record" ELSE Onward(h)
           r == [h EXCEPT !.pc = p]
<1>4. \A j \in Monitors, n \in Handlers :
         handlers'[j][n] = IF j = m /\ n = s THEN r ELSE handlers[j][n]
  BY <1>3
<1>5. /\ h.pc = "find" /\ h.kind = handlers[m][s].kind /\ h.inc = i
      /\ h.awaited = handlers[m][s].awaited /\ h.covered = handlers[m][s].covered
  BY <1>1, <1>2 DEF Handler
<1>6. /\ r.pc = p /\ r.kind = h.kind /\ r.inc = h.inc /\ r.covered = h.covered
      /\ r.awaited = h.awaited
  BY <1>2 DEF Handler
<1>7. /\ p \in {"record", "status", "tell", "mark"}
      /\ p = "record" => News(h)
      /\ p # "record" => ~News(h)
      /\ p = "tell" /\ h.kind = "incident" => ToTell(h)
  BY OnwardOK DEF Onward
<1>8. (News(h) <=> News(r)) /\ (ToTell(h) <=> ToTell(r))
  BY <1>6 DEF News, ToTell
<1> HIDE DEF h, p, r
<1>9. CASE k # m
  BY <1>1, <1>2, <1>4, <1>9, KeptStays
<1>10. CASE k = m /\ Once(k)
  <2>1. handlers'[m][s] = r
    BY <1>4
  <2>2. r.pc = "record" /\ r.kind = "incident" => openInc[m] = {}
    <3>1. News(r) /\ r.kind = "incident" => r.inc = NoIncident
      BY DEF News
    <3>2. openInc[m] # {} => r.inc # NoIncident
      BY <1>2, <1>3, <1>5, <1>6, IdAssumption
    <3> QED BY <1>6, <1>7, <1>8, <3>1, <3>2
  <2>3. r.pc = "tell" /\ r.kind = "incident" => ToTell(r)
    BY <1>6, <1>7, <1>8
  <2>4. r.pc \in {"status", "tell"} => ~ToTell(r)
    BY <1>6, <1>7, <1>8 DEF ToTell
  <2>5. Fits(m, handlers[m][s])'
    <3>1. ToTell(handlers[m][s])' <=> ToTell(r)
      BY <2>1 DEF ToTell, News
    <3> QED BY <1>1, <2>1, <2>2, <2>3, <2>4, <3>1 DEF Fits
  <2>6. handlers'[m][s].awaited = handlers[m][s].awaited
    BY <1>5, <1>6, <2>1
  <2>7. \A n \in Handlers \ {s} : handlers'[m][n].pc = handlers[m][n].pc
    BY <1>4
  <2>8. Once(m)'
    BY <1>1, <1>10, <2>5, <2>6, <2>7, KeptMoves DEF Once
  <2> QED BY <1>10, <2>8 DEF Kept
<1>11. CASE overrun[k]
  BY <1>1, <1>11 DEF Kept
<1> QED BY <1>2, <1>9, <1>10, <1>11 DEF Kept

LEMMA RecordKeeps ==
    ASSUME AlertInv, NEW m \in Monitors, NEW s \in Handlers, NEW k \in Monitors, Record(m, s)
    PROVE  Kept(k)'
<1> DEFINE h == handlers[m][s]
<1>1. TypeOK /\ UNCHANGED <<jobs, overrun>> /\ h.pc = "record"
  BY DEF AlertInv, Record
<1>2. /\ handlers'[m][s] = [handlers[m][s] EXCEPT !.pc = Onward(handlers[m][s])]
      /\ \A i \in Monitors, n \in Handlers : i # m \/ n # s => handlers'[i][n] = handlers[i][n]
      /\ \A i \in Monitors : i # m => openInc'[i] = openInc[i] /\ alerts'[i] = alerts[i]
      /\ IF h.kind = "incident" THEN openInc'[m] # {} /\ alerts'[m] = alerts[m]
         ELSE alerts'[m] = 0
  BY <1>1, RecordTypeOK
<1>3. ASSUME Once(m)
      PROVE  /\ alerts'[m] <= 1
             /\ alerts'[m] = 1 => openInc'[m] # {}
             /\ h.kind = "incident" => alerts'[m] = 0 /\ openInc'[m] # {}
  <2>1. alerts[m] \in 0..2 /\ alerts[m] <= 1 /\ Fits(m, h) /\ (alerts[m] = 1 => openInc[m] # {})
    BY <1>1, <1>3 DEF Once, TypeOK
  <2>2. h.kind = "incident" => openInc[m] = {}
    BY <1>1, <2>1 DEF Fits
  <2> QED BY <1>2, <2>1, <2>2
<1> QED BY <1>1, <1>2, <1>3, OnwardKeeps

LEMMA SetStatusKeeps ==
    ASSUME AlertInv, NEW m \in Monitors, NEW s \in Handlers, NEW k \in Monitors,
           SetStatus(m, s)
    PROVE  Kept(k)'
<1> DEFINE h == handlers[m][s]
<1>1. TypeOK /\ UNCHANGED <<openInc, alerts, overrun>> /\ h.pc = "status"
  BY DEF AlertInv, SetStatus, user
<1>2. /\ handlers'[m][s] = [handlers[m][s] EXCEPT !.pc = Onward(handlers[m][s])]
      /\ \A n \in Handlers \ {s} :
            /\ handlers'[m][n].pc = handlers[m][n].pc
            /\ handlers'[m][n].awaited = handlers[m][n].awaited
            /\ handlers[m][n].pc # "read" => handlers'[m][n] = handlers[m][n]
      /\ \A i \in Monitors : i # m => handlers'[i] = handlers[i]
      /\ \A i \in Monitors : jobs'[i].pc = jobs[i].pc
  BY <1>1, SetStatusTypeOK
<1>3. ASSUME Once(m)
      PROVE  /\ alerts[m] <= 1
             /\ alerts[m] = 1 => openInc[m] # {}
             /\ h.kind = "incident" /\ ToTell(h) => alerts[m] = 0 /\ openInc[m] # {}
  BY <1>1, <1>3 DEF Once, Fits
<1> QED BY <1>1, <1>2, <1>3, OnwardKeeps

LEMMA TellKeeps ==
    ASSUME AlertInv, NEW m \in Monitors, NEW s \in Handlers, NEW k \in Monitors, Tell(m, s)
    PROVE  Kept(k)'
<1> DEFINE h == handlers[m][s]
<1>1. TypeOK /\ UNCHANGED <<openInc, jobs, overrun>> /\ h.pc = "tell"
  BY DEF AlertInv, Tell, db
<1>2. /\ handlers'[m][s] = [handlers[m][s] EXCEPT !.pc = Onward(handlers[m][s])]
      /\ \A i \in Monitors, n \in Handlers : i # m \/ n # s => handlers'[i][n] = handlers[i][n]
      /\ \A i \in Monitors : i # m => alerts'[i] = alerts[i]
      /\ alerts'[m] = IF h.kind = "incident" THEN Upto(alerts[m] + 1, 2) ELSE alerts[m]
  BY <1>1, TellTypeOK
<1>3. ASSUME Once(m)
      PROVE  alerts'[m] <= 1 /\ (alerts'[m] = 1 => openInc'[m] # {})
  <2>1. alerts[m] <= 1 /\ (alerts[m] = 1 => openInc[m] # {}) /\ Fits(m, h)
    BY <1>3 DEF Once
  <2>2. h.kind = "incident" => alerts[m] = 0 /\ openInc[m] # {}
    BY <1>1, <2>1 DEF Fits
  <2> QED BY <1>1, <1>2, <2>1, <2>2 DEF Upto
<1> QED BY <1>1, <1>2, <1>3, OnwardKeeps

LEMMA TelegramErrorKeeps ==
    ASSUME AlertInv, NEW m \in Monitors, NEW s \in Handlers, NEW k \in Monitors,
           TelegramError(m, s)
    PROVE  Kept(k)'
<1> DEFINE h == handlers[m][s]
<1>1. TypeOK /\ UNCHANGED <<openInc, alerts, jobs, overrun>> /\ h.pc = "tell"
  BY DEF AlertInv, TelegramError, db, user
<1>2. /\ handlers'[m][s] = [handlers[m][s] EXCEPT !.pc = Onward(handlers[m][s])]
      /\ \A i \in Monitors, n \in Handlers : i # m \/ n # s => handlers'[i][n] = handlers[i][n]
  BY <1>1, TelegramErrorTypeOK
<1>3. ASSUME Once(m)
      PROVE  alerts[m] <= 1 /\ (alerts[m] = 1 => openInc[m] # {})
  BY <1>3 DEF Once
<1> QED BY <1>1, <1>2, <1>3, OnwardKeeps

\* A handler that ends leaves none behind: it was alone.
LEMMA AloneEnds ==
    ASSUME NEW m \in Monitors, NEW s \in Handlers, NEW k \in Monitors, Kept(k),
           handlers[m][s].pc # "idle",
           UNCHANGED <<openInc, alerts, overrun>>,
           \A i \in Monitors, n \in Handlers :
              handlers'[i][n] = IF i = m /\ n = s THEN NoHandler ELSE handlers[i][n],
           \A i \in Monitors : i # m => jobs'[i] = jobs[i]
    PROVE  Kept(k)'
<1>1. CASE k # m
  BY <1>1, KeptStays
<1>2. CASE k = m /\ Once(k)
  <2>1. \A n \in Handlers \ {s} : handlers[m][n].pc = "idle"
    BY <1>2 DEF Once, Alone, Running
  <2>2. \A n \in Handlers : handlers'[m][n].pc = "idle"
    BY <2>1 DEF NoHandler
  <2> QED BY <1>2, <2>2, KeptEnds DEF Kept
<1>3. CASE overrun[k]
  BY <1>3 DEF Kept
<1> QED BY <1>1, <1>2, <1>3 DEF Kept

LEMMA EndKeeps ==
    ASSUME AlertInv, NEW m \in Monitors, NEW s \in Handlers, NEW k \in Monitors,
           Reply(m, s) \/ HandlerFails(m, s)
    PROVE  Kept(k)'
<1>1. /\ TypeOK /\ Kept(k) /\ UNCHANGED <<openInc, alerts, overrun>>
      /\ handlers[m][s].pc # "idle"
  BY DEF AlertInv, Reply, HandlerFails, db, user
<1>2. /\ \A i \in Monitors, n \in Handlers :
            handlers'[i][n] = IF i = m /\ n = s THEN NoHandler ELSE handlers[i][n]
      /\ \A i \in Monitors : i # m => jobs'[i] = jobs[i]
  <2>1. CASE Reply(m, s)
    BY <1>1, <2>1, ReplyTypeOK
  <2>2. CASE HandlerFails(m, s)
    BY <1>1, <2>2, EndsOK DEF HandlerFails, TypeOK, JobTable, Table
  <2> QED BY <2>1, <2>2
<1> QED BY <1>1, <1>2, AloneEnds

LEMMA NetworkErrorKeeps ==
    ASSUME AlertInv, NEW m \in Monitors, NEW k \in Monitors, NetworkError(m)
    PROVE  Kept(k)'
<1>1. /\ TypeOK /\ Kept(k) /\ UNCHANGED <<openInc, alerts, overrun>>
  BY DEF AlertInv, NetworkError, db, user
<1>2. \A i \in Monitors : i # m => jobs'[i] = jobs[i]
  BY <1>1, NetworkErrorTypeOK
<1>3. CASE handlers' = handlers /\ jobs[m].pc = "send"
  BY <1>1, <1>2, <1>3, KeptStays
<1>4. CASE ~(handlers' = handlers /\ jobs[m].pc = "send")
  <2>1. PICK s \in Awaited(m) : handlers[m][s].pc = "reply" /\ Ends(m, s)
    BY <1>4 DEF NetworkError
  <2>2. s \in Handlers
    BY DEF Awaited
  <2>3. \A i \in Monitors, n \in Handlers :
           handlers'[i][n] = IF i = m /\ n = s THEN NoHandler ELSE handlers[i][n]
    BY <1>1, <2>1, <2>2, EndsOK DEF TypeOK, JobTable, Table
  <2> QED BY <1>1, <1>2, <2>1, <2>2, <2>3, AloneEnds
<1> QED BY <1>3, <1>4

LEMMA TimeoutKeeps ==
    ASSUME AlertInv, NEW m \in Monitors, NEW s \in Handlers, NEW k \in Monitors, Timeout(m, s)
    PROVE  Kept(k)'
<1>1. TypeOK /\ Kept(k) /\ UNCHANGED <<openInc, alerts>>
  BY DEF AlertInv, Timeout, db, user
<1>2. /\ overrun'[m]
      /\ \A i \in Monitors : i # m => /\ jobs'[i] = jobs[i] /\ overrun'[i] = overrun[i]
                                      /\ handlers'[i] = handlers[i]
  BY <1>1, TimeoutTypeOK
<1>3. CASE k # m
  BY <1>1, <1>2, <1>3, KeptStays
<1> QED BY <1>2, <1>3 DEF Kept

\* The probe's death leaves a handler of m without a client, or finds none running.
LEMMA CrashProbeKeeps ==
    ASSUME AlertInv, CrashProbe, NEW k \in Monitors
    PROVE  Kept(k)'
<1>1. Kept(k) /\ UNCHANGED <<openInc, alerts>>
  BY DEF AlertInv, CrashProbe, db, user
<1>2. CASE overrun[k] \/ Awaited(k) # {}
  BY <1>2 DEF CrashProbe, Kept
<1>3. CASE Once(k) /\ Awaited(k) = {}
  <2>1. \A n \in Handlers : handlers[k][n].pc = "idle" /\ handlers[k][n] \in Handler
    BY <1>3 DEF Once, Alone, Running, Awaited, AlertInv, TypeOK
  <2>2. \A n \in Handlers : handlers'[k][n] = [handlers[k][n] EXCEPT !.awaited = FALSE]
    BY DEF CrashProbe
  <2>3. \A n \in Handlers : handlers'[k][n].pc = "idle"
    BY <2>1, <2>2 DEF Handler
  <2> QED BY <1>1, <1>3, <2>3, KeptEnds DEF Kept
<1> QED BY <1>1, <1>2, <1>3 DEF Kept

LEMMA CrashApiKeeps ==
    ASSUME AlertInv, CrashApi, NEW k \in Monitors
    PROVE  Kept(k)'
<1>1. Kept(k) /\ UNCHANGED <<openInc, alerts, overrun>>
  BY DEF AlertInv, CrashApi, db, user
<1>2. \A n \in Handlers : handlers'[k][n].pc = "idle"
  BY DEF CrashApi, NoHandler
<1> QED BY <1>1, <1>2, KeptEnds DEF Kept

\* The steps of the probe, of users and of the environment that move no handler.
LEMMA ProbeKeeps ==
    ASSUME AlertInv, NEW m \in Monitors, NEW k \in Monitors,
           \/ BecomesDue(m) \/ Check(m) \/ UpdateMonitorTick(m) \/ WriteEvent(m)
           \/ TickFails(m) \/ EventFails(m) \/ Unmute(m) \/ FlipSite(m)
    PROVE  Kept(k)'
<1>1. TypeOK /\ Kept(k) /\ UNCHANGED <<openInc, alerts, overrun>>
  BY DEF AlertInv, BecomesDue, Check, UpdateMonitorTick, WriteEvent, TickFails, EventFails,
         Unmute, FlipSite, db, user
<1>2. jobs[k].pc = "await" => jobs'[k].pc = "await"
  <2>1. CASE BecomesDue(m) \/ FlipSite(m)
    BY <2>1 DEF BecomesDue, FlipSite
  <2>2. CASE Check(m) \/ WriteEvent(m) \/ EventFails(m)
    BY <1>1, <2>2 DEF Check, WriteEvent, EventFails, Finish, TypeOK
  <2>3. CASE UpdateMonitorTick(m) \/ TickFails(m)
    <3>1. jobs[m].pc = "tick" /\ (\E late \in BOOLEAN : AfterTick(m, late))
      BY <2>3 DEF UpdateMonitorTick, TickFails
    <3>2. PICK late \in BOOLEAN : AfterTick(m, late)
      BY <3>1
    <3>3. jobs \in JobTable
      BY <1>1 DEF TypeOK, JobTable
    <3>4. \A n \in Monitors : n # m => jobs'[n] = jobs[n]
      BY <3>2, <3>3, AfterTickOK
    <3> QED BY <3>1, <3>4
  <2>4. CASE Unmute(m)
    BY <1>1, <2>4, UnmuteTypeOK
  <2> QED BY <2>1, <2>2, <2>3, <2>4
<1>3. ASSUME NEW n \in Handlers
      PROVE  /\ handlers'[k][n].pc = handlers[k][n].pc
             /\ handlers'[k][n].awaited = handlers[k][n].awaited
             /\ handlers[k][n].pc # "read" => handlers'[k][n] = handlers[k][n]
  <2>1. CASE UpdateMonitorTick(m)
    <3>1. handlers'[k][n] = IF k = m /\ handlers[k][n].pc = "read"
                            THEN [handlers[k][n] EXCEPT !.behind = TRUE] ELSE handlers[k][n]
      BY <1>1, <2>1 DEF UpdateMonitorTick, TypeOK
    <3>2. handlers[k][n] \in Handler
      BY <1>1 DEF TypeOK
    <3> QED BY <3>1, <3>2 DEF Handler
  <2>2. CASE ~UpdateMonitorTick(m)
    BY <2>2 DEF BecomesDue, Check, WriteEvent, TickFails, EventFails, Unmute, FlipSite
  <2> QED BY <2>1, <2>2
<1> QED BY <1>1, <1>2, <1>3, KeptStays

LEMMA StartTickKeeps == ASSUME AlertInv, StartTick, NEW k \in Monitors PROVE Kept(k)'
<1>1. Kept(k) /\ UNCHANGED <<openInc, alerts, overrun, handlers>> /\ jobs[k].pc # "await"
  BY DEF AlertInv, StartTick, db, user
<1> QED BY <1>1, KeptStays

LEMMA MuteKeeps == ASSUME AlertInv, Mute, NEW k \in Monitors PROVE Kept(k)'
<1>1. Kept(k) /\ UNCHANGED <<openInc, alerts, overrun>> /\ jobs[k] \in Job
  BY DEF AlertInv, Mute, TypeOK, user
<1>2. jobs'[k].pc = jobs[k].pc
  BY <1>1 DEF Mute, Job
<1>3. ASSUME NEW n \in Handlers
      PROVE  /\ handlers'[k][n].pc = handlers[k][n].pc
             /\ handlers'[k][n].awaited = handlers[k][n].awaited
             /\ handlers[k][n].pc # "read" => handlers'[k][n] = handlers[k][n]
  <2>1. handlers[k][n] \in Handler
    BY DEF AlertInv, TypeOK
  <2>2. handlers'[k][n] = IF handlers[k][n].pc = "read"
                          THEN [handlers[k][n] EXCEPT !.covered = TRUE] ELSE handlers[k][n]
    BY DEF Mute
  <2> QED BY <2>1, <2>2 DEF Handler
<1> QED BY <1>1, <1>2, <1>3, KeptStays

LEMMA StepKeeps == AlertInv /\ [Next]_vars => AlertInv'
<1> SUFFICES ASSUME AlertInv, [Next]_vars PROVE AlertInv'
  OBVIOUS
<1>1. TypeOK'
  BY StepTypeOK DEF AlertInv
<1>2. ASSUME NEW k \in Monitors PROVE Kept(k)'
  <2>1. CASE StartTick \/ Mute \/ CrashProbe \/ CrashApi
    BY <2>1, StartTickKeeps, MuteKeeps, CrashProbeKeeps, CrashApiKeeps
  <2>2. ASSUME NEW m \in Monitors,
               \/ BecomesDue(m) \/ ProbeStep(m) \/ Unmute(m) \/ FlipSite(m)
               \/ TickFails(m) \/ EventFails(m) \/ NetworkError(m)
        PROVE  Kept(k)'
    BY <2>2, ProbeKeeps, SendKeeps, NetworkErrorKeeps DEF ProbeStep
  <2>3. ASSUME NEW m \in Monitors, NEW s \in Handlers,
               HandlerStep(m, s) \/ HandlerFails(m, s) \/ Timeout(m, s) \/ TelegramError(m, s)
        PROVE  Kept(k)'
    BY <2>3, ReadKeeps, FindKeeps, RecordKeeps, SetStatusKeeps, TellKeeps, EndKeeps,
       TimeoutKeeps, TelegramErrorKeeps DEF HandlerStep
  <2>4. CASE UNCHANGED vars
    <3>1. Kept(k) /\ UNCHANGED <<openInc, alerts, overrun, handlers, jobs>>
      BY <2>4 DEF AlertInv, vars, db, user
    <3> QED BY <3>1, KeptStays
  <2> QED BY <2>1, <2>2, <2>3, <2>4 DEF Next
<1> QED BY <1>1, <1>2 DEF AlertInv

LEMMA InitKeeps == Init => AlertInv
<1> SUFFICES ASSUME Init PROVE AlertInv
  OBVIOUS
<1>1. ASSUME NEW m \in Monitors PROVE Kept(m)
  <2>1. \A n \in Handlers : handlers[m][n].pc = "idle"
    BY DEF Init, NoHandler
  <2>2. alerts[m] = 0
    BY DEF Init
  <2> QED BY <2>1, <2>2 DEF Kept, Once, Alone, Running, Fits
<1> QED BY <1>1, InitTypeOK DEF AlertInv

\* Retries, lost replies, failed writes and crashes of either process never announce an
\* outage twice, while every handler ends before its client gives up (main.go's post,
\* internal.ts): for every number of monitors, attempts, handlers and faults.
THEOREM AlertOncePerOutageHolds == Spec => []AlertOncePerOutage
<1>1. Init => AlertInv
  BY InitKeeps
<1>2. AlertInv /\ [Next]_vars => AlertInv'
  BY StepKeeps
<1>3. AlertInv => AlertOncePerOutage
  BY DEF AlertInv, Kept, Once, AlertOncePerOutage
<1> QED BY <1>1, <1>2, <1>3, PTL DEF Spec

----------------------------------------------------------------------------
(* Status and incidents, until something goes wrong                        *)

\* Nothing has gone wrong yet but messages of Telegram that were lost.
Smooth == upsets = 0 \/ Upsets \subseteq {"telegram"}

After(kind) == IF kind = "incident" THEN "down" ELSE "up"

\* The probe has written the status, and no handler the incident.
Ahead(m, kind) == status[m] = After(kind) /\ (openInc[m] = {} <=> kind = "incident")

Agreed(m) == openInc[m] # {} <=> status[m] = "down"

KindOf(transition) == IF transition = "recovered" THEN "recovery" ELSE "incident"

JobSynced(m) ==
    LET job == jobs[m]
    IN  /\ ~job.muted
        /\ job.pc \in {"idle", "check", "tick"} => Agreed(m)
        /\ job.pc \in {"check", "tick"} => job.prev = status[m]
        /\ job.pc = "tick" => (status[m] = "down" <=> job.tr \in {"recovered", "stay-down"})
        /\ job.pc \in {"event", "send"} => Reports(job.tr) /\ Ahead(m, KindOf(job.tr))

HandlerSynced(m, h) ==
    /\ h.pc \in {"read", "find", "record"} => Ahead(m, h.kind)
    /\ h.pc = "record" =>
          IF h.kind = "incident" THEN h.inc = NoIncident ELSE h.inc \in openInc[m]
    /\ h.pc \in {"status", "tell", "mark", "reply"} => Agreed(m) /\ status[m] = After(h.kind)

Single(m) == \A i, j \in openInc[m] : i = j

Synced(m) ==
    /\ ~overrun[m] /\ ~muted[m]
    /\ Single(m)
    /\ JobSynced(m)
    /\ \A s \in Handlers : HandlerSynced(m, handlers[m][s])

\* Status and incidents agree, or one job or handler is between the writes and knows how.
SyncInv == AlertInv /\ (Smooth => \A m \in Monitors : Synced(m))

\* The alert a handler owes, read off its record, and off the handlers of a monitor.
Debt(h) ==
    CASE h.kind = "incident" /\ h.pc \in {"status", "tell"} /\ ToTell(h) -> "down"
      [] h.kind = "recovery" /\ h.pc = "tell"                          -> "up"
      [] OTHER                                                         -> "nothing"

DebtOf(table) ==
    IF \E s \in Handlers : Debt(table[s]) # "nothing"
    THEN Debt(table[CHOOSE s \in Handlers : Debt(table[s]) # "nothing"])
    ELSE "nothing"

LEMMA OwedIsDebt == \A m : Owed(m) = DebtOf(handlers[m]) /\ Owed(m)' = DebtOf(handlers'[m])
BY DEF Owed, Owes, Debt, DebtOf, ToTell, News

LEMMA OneDebt ==
    ASSUME NEW table, NEW s \in Handlers, \A n \in Handlers : n # s => Debt(table[n]) = "nothing"
    PROVE  DebtOf(table) = Debt(table[s])
<1>1. CASE Debt(table[s]) = "nothing"
  BY <1>1 DEF DebtOf
<1>2. CASE Debt(table[s]) # "nothing"
  <2>1. (CHOOSE n \in Handlers : Debt(table[n]) # "nothing") = s
    BY <1>2
  <2> QED BY <1>2, <2>1 DEF DebtOf
<1> QED BY <1>1, <1>2

LEMMA OtherDebt == \A h : h.pc \notin {"status", "tell"} => Debt(h) = "nothing"
BY DEF Debt

LEMMA IdleDebt ==
    ASSUME NEW table, \A n \in Handlers : table[n].pc = "idle"
    PROVE  DebtOf(table) = "nothing"
BY OtherDebt DEF DebtOf

\* What Outage sees of the monitor m does not change.
Hidden(m) ==
    /\ openInc'[m] # {} <=> openInc[m] # {}
    /\ Owed(m)' = Owed(m)
    /\ told'[m] = told[m]

\* What Outage sees of m changes as one of its actions says.
Shown(m) ==
    \/ /\ Owed(m) = "nothing" /\ openInc[m] = {} /\ openInc'[m] # {}
       /\ Owed(m)' \in {"down", "nothing"} /\ told'[m] = told[m]
    \/ /\ Owed(m) = "nothing" /\ openInc[m] # {} /\ openInc'[m] = {}
       /\ Owed(m)' \in {"up", "nothing"} /\ told'[m] = told[m]
    \/ /\ Owed(m) # "nothing" /\ Owed(m)' = "nothing" /\ told'[m] = Owed(m)
       /\ openInc'[m] # {} <=> openInc[m] # {}

\* What a step does for status and incidents, and shows of them.
Syncs == \A k \in Monitors : Synced(k)'

Shows(m) == (Hidden(m) \/ Shown(m)) /\ \A k \in Monitors : k # m => Hidden(k)

\* Nobody but Telegram fails in a step that leaves the run smooth.
LEMMA NoUpset ==
    ASSUME TypeOK, Smooth', NEW kind, Upset(kind) PROVE kind = "telegram" /\ Smooth
<1>1. upsets' # 0
  BY ProbeAssumption DEF TypeOK, Upset
<1> QED BY <1>1 DEF Smooth, Upset

\* A monitor of which a step changes nothing.
LEMMA SyncedStays ==
    ASSUME NEW k \in Monitors, Synced(k),
           jobs'[k] = jobs[k], handlers'[k] = handlers[k], openInc'[k] = openInc[k],
           status'[k] = status[k], told'[k] = told[k],
           overrun'[k] = overrun[k], muted'[k] = muted[k]
    PROVE  Synced(k)' /\ Hidden(k)
<1>1. Synced(k)'
  BY DEF Synced, Single, JobSynced, HandlerSynced, Agreed, Ahead
<1>2. Hidden(k)
  BY OwedIsDebt DEF Hidden
<1> QED BY <1>1, <1>2

\* Steps while no handler of m runs.
LEMMA ProbeSynced ==
    ASSUME NEW m \in Monitors, Synced(m), Once(m), jobs[m].pc # "await",
           \A n \in Handlers : handlers'[m][n].pc = handlers[m][n].pc,
           overrun'[m] = overrun[m], muted'[m] = muted[m], openInc'[m] = openInc[m],
           told'[m] = told[m], JobSynced(m)'
    PROVE  Synced(m)' /\ Hidden(m)
<1>1. \A n \in Handlers : handlers[m][n].pc = "idle" /\ handlers'[m][n].pc = "idle"
  BY NobodyRuns
<1>2. (\A n \in Handlers : HandlerSynced(m, handlers[m][n]))'
  BY <1>1 DEF HandlerSynced
<1>3. Synced(m)'
  BY <1>2 DEF Synced, Single
<1>4. Owed(m) = "nothing" /\ Owed(m)' = "nothing"
  BY <1>1, IdleDebt, OwedIsDebt
<1> QED BY <1>3, <1>4 DEF Hidden

\* A step of the handler s of m, which is the only one.
LEMMA HandlerMoves ==
    ASSUME NEW m \in Monitors, Synced(m), Once(m), NEW s \in Handlers,
           handlers[m][s].pc # "idle",
           \A n \in Handlers \ {s} : handlers'[m][n].pc = handlers[m][n].pc,
           jobs'[m].pc = jobs[m].pc, jobs'[m].muted = jobs[m].muted,
           overrun'[m] = overrun[m], muted'[m] = muted[m],
           Single(m)', HandlerSynced(m, handlers[m][s])'
    PROVE  /\ Synced(m)'
           /\ Owed(m) = Debt(handlers[m][s]) /\ Owed(m)' = Debt(handlers'[m][s])
<1>1. /\ \A n \in Handlers \ {s} : handlers[m][n].pc = "idle" /\ handlers'[m][n].pc = "idle"
      /\ jobs[m].pc = "await"
  BY DEF Once, Alone, Running
<1>2. (\A n \in Handlers : HandlerSynced(m, handlers[m][n]))'
  BY <1>1 DEF HandlerSynced
<1>3. JobSynced(m)'
  BY <1>1 DEF Synced, JobSynced
<1>4. Synced(m)'
  BY <1>2, <1>3 DEF Synced
<1>5. \A n \in Handlers :
         n # s => Debt(handlers[m][n]) = "nothing" /\ Debt(handlers'[m][n]) = "nothing"
  BY <1>1, OtherDebt
<1> QED BY <1>4, <1>5, OneDebt, OwedIsDebt

LEMMA SyncFacts ==
    ASSUME SyncInv, Smooth, NEW k \in Monitors
    PROVE  AlertInv /\ TypeOK /\ Synced(k) /\ Once(k) /\ ~overrun[k] /\ ~muted[k]
BY DEF SyncInv, AlertInv, Kept, Synced

LEMMA CheckSyncs ==
    ASSUME SyncInv, Smooth, NEW m \in Monitors, Check(m)
    PROVE  Syncs /\ Shows(m)
<1> DEFINE count == IF site[m] = "down" THEN Upto(fails[m] + 1, Retries) ELSE 0
           tr    == Decide(jobs[m].prev, site[m], count, Retries)
           r     == [jobs[m] EXCEPT !.pc = "tick", !.covered = muted[m], !.tr = tr]
<1>1. /\ UNCHANGED <<status, muted, openInc, handlers, told, overrun>>
      /\ jobs[m].pc = "check" /\ jobs[m] \in Job
  BY SyncFacts DEF Check, TypeOK, db, user
<1>2. jobs' = [jobs EXCEPT ![m] = r]
  BY SyncFacts DEF Check, TypeOK
<1>3. ~jobs[m].muted /\ Agreed(m) /\ jobs[m].prev = status[m]
  BY <1>1, SyncFacts DEF Synced, JobSynced
<1>4. /\ site[m] \in {"up", "down"} /\ status[m] \in MonitorStatus
      /\ status[m] = "down" <=> tr \in {"recovered", "stay-down"}
  BY <1>3, SyncFacts DEF Decide, TypeOK, HeartbeatStatus
<1> HIDE DEF count, tr
<1>5. r.pc = "tick" /\ r.prev = status[m] /\ r.tr = tr /\ ~r.muted
  BY <1>1, <1>3 DEF Job
<1> HIDE DEF r
<1>6. jobs'[m] = r /\ \A k \in Monitors : k # m => jobs'[k] = jobs[k]
  BY <1>2, SyncFacts DEF TypeOK
<1>7. JobSynced(m)'
  BY <1>1, <1>3, <1>4, <1>5, <1>6 DEF JobSynced, Agreed
<1>8. Synced(m)' /\ Hidden(m)
  BY <1>1, <1>7, SyncFacts, ProbeSynced
<1>9. ASSUME NEW k \in Monitors, k # m PROVE Synced(k)' /\ Hidden(k)
  BY <1>1, <1>6, <1>9, SyncFacts, SyncedStays
<1> QED BY <1>8, <1>9 DEF Syncs, Shows

\* The status as the transition says: the incidents are what they should be, or it is to
\* be reported.
LEMMA UpdateSyncs ==
    ASSUME SyncInv, Smooth, NEW m \in Monitors, UpdateMonitorTick(m)
    PROVE  Syncs /\ Shows(m)
<1> DEFINE st == MonitorStatusAfter(jobs[m].prev, jobs[m].tr)
<1>1. /\ UNCHANGED <<muted, openInc, told, overrun>>
      /\ jobs[m].pc = "tick" /\ jobs[m] \in Job /\ status' = [status EXCEPT ![m] = st]
  BY SyncFacts DEF UpdateMonitorTick, TypeOK, user
<1>2. /\ ~jobs[m].muted /\ Agreed(m) /\ jobs[m].prev = status[m]
      /\ status[m] = "down" <=> jobs[m].tr \in {"recovered", "stay-down"}
  BY <1>1, SyncFacts DEF Synced, JobSynced
<1>3. PICK late \in BOOLEAN : AfterTick(m, late)
  BY DEF UpdateMonitorTick
<1> DEFINE r == IF Reports(jobs[m].tr)
                THEN [jobs[m] EXCEPT !.pc = "event", !.behind = late, !.prev = "unknown"]
                ELSE NoJob
<1>4. jobs' = [jobs EXCEPT ![m] = r]
  BY <1>3, SyncFacts DEF AfterTick, TypeOK
<1>5. IF Reports(jobs[m].tr) THEN r.pc = "event" /\ r.tr = jobs[m].tr /\ ~r.muted
      ELSE r.pc = "idle" /\ ~r.muted
  BY <1>1, <1>2 DEF Job, NoJob
<1> HIDE DEF r
<1>6. /\ jobs'[m] = r /\ \A k \in Monitors : k # m => jobs'[k] = jobs[k]
      /\ status'[m] = st /\ \A k \in Monitors : k # m => status'[k] = status[k]
  BY <1>1, <1>4, SyncFacts DEF TypeOK
<1>7. /\ jobs[m].tr = "recovered" => st = "up" /\ openInc[m] # {}
      /\ jobs[m].tr = "went-down" => st = "down" /\ openInc[m] = {}
      /\ ~Reports(jobs[m].tr) => (st = "down" <=> openInc[m] # {})
  BY <1>1, <1>2 DEF MonitorStatusAfter, Agreed, Job, Transition, Reports
<1> HIDE DEF st
<1>8. JobSynced(m)'
  <2>1. CASE Reports(jobs[m].tr)
    BY <1>1, <1>5, <1>6, <1>7, <2>1 DEF JobSynced, Ahead, After, KindOf, Reports
  <2>2. CASE ~Reports(jobs[m].tr)
    BY <1>1, <1>5, <1>6, <1>7, <2>2 DEF JobSynced, Agreed
  <2> QED BY <2>1, <2>2
<1>9. /\ \A n \in Handlers : handlers'[m][n].pc = handlers[m][n].pc
      /\ \A k \in Monitors : k # m => handlers'[k] = handlers[k]
  <2>1. /\ \A n \in Handlers : handlers'[m][n] = IF handlers[m][n].pc = "read"
                                                 THEN [handlers[m][n] EXCEPT !.behind = TRUE]
                                                 ELSE handlers[m][n]
        /\ \A k \in Monitors : k # m => handlers'[k] = handlers[k]
    BY SyncFacts DEF UpdateMonitorTick, TypeOK
  <2>2. \A n \in Handlers : handlers[m][n] \in Handler
    BY SyncFacts DEF TypeOK
  <2> QED BY <2>1, <2>2 DEF Handler
<1>10. Synced(m)' /\ Hidden(m)
  BY <1>1, <1>8, <1>9, SyncFacts, ProbeSynced
<1>11. ASSUME NEW k \in Monitors, k # m PROVE Synced(k)' /\ Hidden(k)
  BY <1>1, <1>6, <1>9, <1>11, SyncFacts, SyncedStays
<1> QED BY <1>10, <1>11 DEF Syncs, Shows

\* The event is written and posted: the monitor was not muted.
LEMMA WriteSyncs ==
    ASSUME SyncInv, Smooth, NEW m \in Monitors, WriteEvent(m)
    PROVE  Syncs /\ Shows(m)
<1> DEFINE e == Least(NewEventIds(m))
           r == [jobs[m] EXCEPT !.pc = "send", !.event = e]
<1>1. /\ UNCHANGED <<status, muted, openInc, handlers, told, overrun>>
      /\ jobs[m].pc = "event" /\ jobs[m] \in Job
  BY SyncFacts DEF WriteEvent, TypeOK, user
<1>2. ~jobs[m].muted /\ Reports(jobs[m].tr) /\ Ahead(m, KindOf(jobs[m].tr))
  BY <1>1, SyncFacts DEF Synced, JobSynced
<1> HIDE DEF e
<1>3. jobs' = [jobs EXCEPT ![m] = r]
  BY <1>2, SyncFacts DEF WriteEvent, TypeOK, e
<1>4. r.pc = "send" /\ r.tr = jobs[m].tr /\ ~r.muted
  BY <1>1, <1>2 DEF Job
<1> HIDE DEF r
<1>5. jobs'[m] = r /\ \A k \in Monitors : k # m => jobs'[k] = jobs[k]
  BY <1>3, SyncFacts DEF TypeOK
<1>6. JobSynced(m)'
  BY <1>1, <1>2, <1>4, <1>5 DEF JobSynced, Ahead
<1>7. Synced(m)' /\ Hidden(m)
  BY <1>1, <1>6, SyncFacts, ProbeSynced
<1>8. ASSUME NEW k \in Monitors, k # m PROVE Synced(k)' /\ Hidden(k)
  BY <1>1, <1>5, <1>8, SyncFacts, SyncedStays
<1> QED BY <1>7, <1>8 DEF Syncs, Shows

\* The request carries to the handler what the probe knows.
LEMMA SendSyncs ==
    ASSUME SyncInv, Smooth, NEW m \in Monitors, Send(m)
    PROVE  Syncs /\ Shows(m)
<1> DEFINE s == Least(Handlers \ Running(m))
           r == [NoHandler EXCEPT !.pc = "read", !.event = jobs[m].event, !.awaited = TRUE,
                    !.kind = IF jobs[m].tr = "recovered" THEN "recovery" ELSE "incident",
                    !.behind = jobs[m].behind, !.covered = jobs[m].covered]
<1>1. /\ UNCHANGED <<status, muted, openInc, told, overrun>>
      /\ jobs[m].pc = "send" /\ jobs[m] \in Job
  BY SyncFacts DEF Send, TypeOK, db, user
<1>2. ~jobs[m].muted /\ Ahead(m, KindOf(jobs[m].tr))
  BY <1>1, SyncFacts DEF Synced, JobSynced
<1>3. s \in Handlers
  <2>1. Handlers \ Running(m) \subseteq Nat /\ Handlers \ Running(m) # {}
    BY IdAssumption DEF Send, Running
  <2> QED BY <2>1, LeastIn
<1>4. r.pc = "read" /\ r.kind = KindOf(jobs[m].tr)
  BY DEF NoHandler, KindOf
<1>5. handlers' = [handlers EXCEPT ![m][s] = r]
  BY DEF Send
<1> HIDE DEF s, r
<1>6. /\ \A n \in Handlers : handlers'[m][n] = IF n = s THEN r ELSE handlers[m][n]
      /\ \A k \in Monitors : k # m => handlers'[k] = handlers[k]
  BY <1>5, SyncFacts DEF TypeOK
<1>7. /\ jobs'[m] = [jobs[m] EXCEPT !.pc = "await"]
      /\ \A k \in Monitors : k # m => jobs'[k] = jobs[k]
  BY SyncFacts DEF Send, TypeOK
<1>8. jobs'[m].pc = "await" /\ ~jobs'[m].muted
  BY <1>1, <1>2, <1>7 DEF Job
<1>9. \A n \in Handlers : handlers[m][n].pc = "idle"
  BY <1>1, SyncFacts, NobodyRuns
<1>10. (\A n \in Handlers : HandlerSynced(m, handlers[m][n]))'
  BY <1>1, <1>2, <1>4, <1>6, <1>9 DEF HandlerSynced, Ahead
<1>11. JobSynced(m)'
  BY <1>8 DEF JobSynced
<1>12. Synced(m)'
  BY <1>1, <1>10, <1>11, SyncFacts DEF Synced, Single
<1>13. Owed(m) = "nothing" /\ Owed(m)' = "nothing"
  <2>1. \A n \in Handlers : Debt(handlers'[m][n]) = "nothing"
    BY <1>4, <1>6, <1>9, OtherDebt
  <2>2. DebtOf(handlers'[m]) = "nothing"
    BY <2>1 DEF DebtOf
  <2> QED BY <1>9, <2>2, IdleDebt, OwedIsDebt
<1>14. ASSUME NEW k \in Monitors, k # m PROVE Synced(k)' /\ Hidden(k)
  BY <1>1, <1>6, <1>7, <1>14, SyncFacts, SyncedStays
<1> QED BY <1>1, <1>12, <1>13, <1>14 DEF Syncs, Shows, Hidden

LEMMA StartTickSyncs ==
    ASSUME SyncInv, Smooth, StartTick, NEW k \in Monitors
    PROVE  Synced(k)' /\ Hidden(k)
<1>1. /\ UNCHANGED <<status, muted, openInc, handlers, told, overrun>>
      /\ jobs[k].pc = "idle"
  BY DEF StartTick, db, user
<1>2. Agreed(k) /\ ~muted[k]
  BY <1>1, SyncFacts DEF Synced, JobSynced
<1>3. jobs'[k] = IF due[k] THEN [NoJob EXCEPT !.pc = "check", !.prev = status[k],
                                             !.muted = muted[k]]
                 ELSE NoJob
  BY DEF StartTick
<1>4. JobSynced(k)'
  BY <1>1, <1>2, <1>3 DEF JobSynced, NoJob, Agreed
<1> QED BY <1>1, <1>4, SyncFacts, ProbeSynced

\* The steps of time, of mutes that end and of the site touch none of it.
LEMMA OtherSyncs ==
    ASSUME SyncInv, Smooth, NEW m \in Monitors, BecomesDue(m) \/ FlipSite(m) \/ Unmute(m),
           NEW k \in Monitors
    PROVE  Synced(k)' /\ Hidden(k)
<1>1. UNCHANGED <<status, muted, openInc, handlers, jobs, told, overrun>>
  BY SyncFacts DEF BecomesDue, FlipSite, Unmute, db, user
<1> QED BY <1>1, SyncFacts, SyncedStays

\* Handlers read, find and mark without a write that Outage could see.
LEMMA ReadSyncs ==
    ASSUME SyncInv, Smooth, NEW m \in Monitors, NEW s \in Handlers,
           Read(m, s) \/ MarkDelivered(m, s)
    PROVE  Syncs /\ Shows(m)
<1> DEFINE h  == handlers[m][s]
           pc == IF h.pc = "read" THEN "find" ELSE "reply"
           r  == [h EXCEPT !.pc = pc]
<1>1. /\ UNCHANGED <<status, muted, openInc, jobs, told, overrun>>
      /\ h.pc \in {"read", "mark"} /\ h \in Handler
      /\ handlers' = [handlers EXCEPT ![m][s] = r]
  BY SyncFacts DEF Read, MarkDelivered, GoTo, TypeOK, db, user
<1>2. /\ r.pc = pc /\ r.kind = h.kind /\ pc \in {"find", "reply"}
      /\ h.pc = "read" <=> pc = "find"
  BY <1>1 DEF Handler
<1> HIDE DEF pc, r
<1>3. /\ \A n \in Handlers : handlers'[m][n] = IF n = s THEN r ELSE handlers[m][n]
      /\ \A k \in Monitors : k # m => handlers'[k] = handlers[k]
  BY <1>1, SyncFacts DEF TypeOK
<1>4. HandlerSynced(m, h)
  BY SyncFacts DEF Synced
<1>5. HandlerSynced(m, handlers[m][s])'
  BY <1>1, <1>2, <1>3, <1>4 DEF HandlerSynced, Ahead, Agreed
<1>6. Synced(m)' /\ Owed(m) = Debt(h) /\ Owed(m)' = Debt(r)
  <2>1. Single(m)'
    BY <1>1, SyncFacts DEF Synced, Single
  <2> QED BY <1>1, <1>3, <1>5, <2>1, SyncFacts, HandlerMoves
<1>7. Hidden(m)
  BY <1>1, <1>2, <1>6, OtherDebt DEF Hidden
<1>8. ASSUME NEW k \in Monitors, k # m PROVE Synced(k)' /\ Hidden(k)
  BY <1>1, <1>3, <1>8, SyncFacts, SyncedStays
<1> QED BY <1>6, <1>7, <1>8 DEF Syncs, Shows

\* What is found is what the event says: an incident to insert, or one to end.
LEMMA FindSyncs ==
    ASSUME SyncInv, Smooth, NEW m \in Monitors, NEW s \in Handlers, FindIncident(m, s)
    PROVE  Syncs /\ Shows(m)
<1>1. /\ UNCHANGED <<status, muted, openInc, jobs, told, overrun>>
      /\ handlers[m][s].pc = "find" /\ handlers[m][s] \in Handler
      /\ openInc[m] \subseteq IncidentIds
  BY SyncFacts DEF FindIncident, TypeOK, db, user
<1>2. PICK i \in IF openInc[m] = {} THEN {NoIncident} ELSE openInc[m] :
           LET h == [handlers[m][s] EXCEPT !.inc = i]
           IN  handlers' = [handlers EXCEPT ![m][s] =
                   [h EXCEPT !.pc = IF News(h) THEN "record" ELSE Onward(h)]]
  BY DEF FindIncident
<1> DEFINE h == [handlers[m][s] EXCEPT !.inc = i]
           p == IF News(h) THEN "record" ELSE Onward(h)
           r == [h EXCEPT !.pc = p]
<1>3. h \in Handler /\ h.inc = i /\ h.kind = handlers[m][s].kind
  <2>1. i \in IncidentIds \cup {NoIncident}
    BY <1>1, <1>2
  <2> QED BY <1>1, <2>1 DEF Handler
<1>4. Ahead(m, h.kind)
  BY <1>1, <1>3, SyncFacts DEF Synced, HandlerSynced
<1>5. News(h)
  BY <1>1, <1>2, <1>3, <1>4, IdAssumption DEF News, Ahead, Kind
<1>6. r.pc = "record" /\ r.kind = h.kind /\ r.inc = i
  BY <1>3, <1>5 DEF Handler
<1>7. handlers' = [handlers EXCEPT ![m][s] = r]
  BY <1>2
<1> HIDE DEF r, h
<1>8. /\ \A n \in Handlers : handlers'[m][n] = IF n = s THEN r ELSE handlers[m][n]
      /\ \A k \in Monitors : k # m => handlers'[k] = handlers[k]
  BY <1>7, SyncFacts DEF TypeOK
<1>9. HandlerSynced(m, handlers[m][s])'
  BY <1>1, <1>2, <1>4, <1>6, <1>8 DEF HandlerSynced, Ahead
<1>10. Synced(m)' /\ Owed(m) = Debt(handlers[m][s]) /\ Owed(m)' = Debt(r)
  <2>1. Single(m)'
    BY <1>1, SyncFacts DEF Synced, Single
  <2> QED BY <1>1, <1>8, <1>9, <2>1, SyncFacts, HandlerMoves
<1>11. Hidden(m)
  BY <1>1, <1>6, <1>10, OtherDebt DEF Hidden
<1>12. ASSUME NEW k \in Monitors, k # m PROVE Synced(k)' /\ Hidden(k)
  BY <1>1, <1>8, <1>12, SyncFacts, SyncedStays
<1> QED BY <1>10, <1>11, <1>12 DEF Syncs, Shows

\* What a handler that goes on at Onward becomes.
LEMMA OnwardFacts ==
    ASSUME NEW h \in Handler, NEW r, r = [h EXCEPT !.pc = Onward(h)]
    PROVE  /\ r.pc \in {"status", "tell", "mark"} /\ r.pc = Onward(h)
           /\ r.kind = h.kind /\ r.inc = h.inc /\ r.covered = h.covered
           /\ ToTell(r) <=> ToTell(h)
<1> DEFINE o == Onward(h)
<1>1. o \in {"status", "tell", "mark"}
  BY OnwardOK
<1> HIDE DEF o
<1>2. r.pc = o /\ r.kind = h.kind /\ r.inc = h.inc /\ r.covered = h.covered
  BY DEF Handler, o
<1> QED BY <1>1, <1>2 DEF ToTell, News, o

\* The outage begins or ends on record, to be told unless muted.
LEMMA RecordSyncs ==
    ASSUME SyncInv, Smooth, NEW m \in Monitors, NEW s \in Handlers, Record(m, s)
    PROVE  Syncs /\ Shows(m)
<1> DEFINE h == handlers[m][s]
           r == [h EXCEPT !.pc = Onward(h)]
<1>1. /\ UNCHANGED <<status, muted, jobs, told, overrun>>
      /\ h.pc = "record" /\ h \in Handler /\ openInc[m] \subseteq IncidentIds
      /\ handlers' = [handlers EXCEPT ![m][s] = r]
  BY SyncFacts DEF Record, GoTo, TypeOK
<1>2. /\ r.pc \in {"status", "tell", "mark"} /\ r.pc = Onward(h)
      /\ r.kind = h.kind /\ r.inc = h.inc /\ r.covered = h.covered
      /\ ToTell(r) <=> ToTell(h)
  BY <1>1, OnwardFacts
<1> HIDE DEF r
<1>3. /\ \A n \in Handlers : handlers'[m][n] = IF n = s THEN r ELSE handlers[m][n]
      /\ \A k \in Monitors : k # m => handlers'[k] = handlers[k]
  BY <1>1, SyncFacts DEF TypeOK
<1>4. /\ Ahead(m, h.kind) /\ Single(m)
      /\ IF h.kind = "incident" THEN h.inc = NoIncident ELSE h.inc \in openInc[m]
  BY <1>1, SyncFacts DEF Synced, HandlerSynced
<1>5. /\ \A k \in Monitors : k # m => openInc'[k] = openInc[k]
      /\ h.kind = "incident" => openInc[m] = {} /\ \E i : openInc'[m] = {i}
      /\ h.kind = "recovery" => openInc[m] # {} /\ openInc'[m] = {}
  <2>1. CASE h.kind = "incident"
    <3> DEFINE i == Least(NewIncidentIds(m))
    <3>1. openInc' = [openInc EXCEPT ![m] = @ \cup {i}]
      BY <2>1 DEF Record
    <3> HIDE DEF i
    <3> QED BY <1>4, <2>1, <3>1, SyncFacts DEF TypeOK, Ahead
  <2>2. CASE h.kind # "incident"
    <3>1. openInc' = [openInc EXCEPT ![m] = @ \ {h.inc}]
      BY <2>2 DEF Record
    <3>2. openInc'[m] = openInc[m] \ {h.inc} /\ \A k \in Monitors : k # m => openInc'[k] = openInc[k]
      BY <3>1, SyncFacts DEF TypeOK
    <3> QED BY <1>4, <2>2, <3>2 DEF Single
  <2> QED BY <2>1, <2>2
<1>6. h.kind \in {"incident", "recovery"}
  BY <1>1 DEF Handler, Kind
<1>7. HandlerSynced(m, handlers[m][s])'
  BY <1>1, <1>2, <1>3, <1>4, <1>5, <1>6 DEF HandlerSynced, Agreed, Ahead, After
<1>8. Synced(m)' /\ Owed(m) = Debt(h) /\ Owed(m)' = Debt(r)
  <2>1. Single(m)'
    BY <1>5, <1>6 DEF Single
  <2> QED BY <1>1, <1>3, <1>7, <2>1, SyncFacts, HandlerMoves
<1>9. /\ Debt(h) = "nothing"
      /\ h.kind = "incident" => Debt(r) \in {"down", "nothing"}
      /\ h.kind = "recovery" => Debt(r) \in {"up", "nothing"}
  BY <1>1, <1>2 DEF Debt
<1>10. Shown(m)
  BY <1>1, <1>5, <1>6, <1>8, <1>9 DEF Shown
<1>11. ASSUME NEW k \in Monitors, k # m PROVE Synced(k)' /\ Hidden(k)
  BY <1>1, <1>3, <1>5, <1>11, SyncFacts, SyncedStays
<1> QED BY <1>8, <1>10, <1>11 DEF Syncs, Shows

\* The status is already what the handler writes: the probe wrote it.
LEMMA SetStatusSyncs ==
    ASSUME SyncInv, Smooth, NEW m \in Monitors, NEW s \in Handlers, SetStatus(m, s)
    PROVE  Syncs /\ Shows(m)
<1> DEFINE h == handlers[m][s]
           r == [h EXCEPT !.pc = Onward(h)]
<1>1. /\ UNCHANGED <<muted, openInc, told, overrun>>
      /\ h.pc = "status" /\ h \in Handler /\ jobs[m] \in Job
      /\ status' = [status EXCEPT ![m] = IF h.kind = "incident" THEN "down" ELSE "up"]
      /\ jobs' = [jobs EXCEPT ![m].behind = FALSE]
  BY SyncFacts DEF SetStatus, TypeOK, user
<1>2. /\ r.pc \in {"status", "tell", "mark"} /\ r.pc = Onward(h)
      /\ r.kind = h.kind /\ r.inc = h.inc /\ r.covered = h.covered
      /\ ToTell(r) <=> ToTell(h)
  BY <1>1, OnwardFacts
<1>3. /\ handlers'[m][s] = r
      /\ \A n \in Handlers \ {s} : handlers'[m][n].pc = handlers[m][n].pc
      /\ \A k \in Monitors : k # m => handlers'[k] = handlers[k]
  BY SyncFacts, SetStatusTypeOK
<1> HIDE DEF r
<1>4. Agreed(m) /\ status[m] = After(h.kind)
  BY <1>1, SyncFacts DEF Synced, HandlerSynced
<1>5. /\ status' = status
      /\ jobs'[m].pc = jobs[m].pc /\ jobs'[m].muted = jobs[m].muted
      /\ \A k \in Monitors : k # m => jobs'[k] = jobs[k]
  BY <1>1, <1>4, SyncFacts DEF TypeOK, After, Job
<1>6. HandlerSynced(m, handlers[m][s])'
  BY <1>1, <1>2, <1>3, <1>4, <1>5 DEF HandlerSynced, Agreed
<1>7. Synced(m)' /\ Owed(m) = Debt(h) /\ Owed(m)' = Debt(r)
  <2>1. Single(m)'
    BY <1>1, SyncFacts DEF Synced, Single
  <2> QED BY <1>1, <1>3, <1>5, <1>6, <2>1, SyncFacts, HandlerMoves
<1>8. Debt(r) = Debt(h)
  BY <1>1, <1>2 DEF Debt, Onward, Handler, Kind
<1>9. ASSUME NEW k \in Monitors, k # m PROVE Synced(k)' /\ Hidden(k)
  BY <1>1, <1>3, <1>5, <1>9, SyncFacts, SyncedStays
<1> QED BY <1>1, <1>7, <1>8, <1>9 DEF Syncs, Shows, Hidden

\* What is owed is told, or lost on its way.
LEMMA TellSyncs ==
    ASSUME SyncInv, Smooth, NEW m \in Monitors, NEW s \in Handlers,
           Tell(m, s) \/ TelegramError(m, s)
    PROVE  Syncs /\ (Tell(m, s) => Shows(m))
<1> DEFINE h == handlers[m][s]
           r == [h EXCEPT !.pc = Onward(h)]
<1>1. /\ UNCHANGED <<status, muted, openInc, jobs, overrun>>
      /\ h.pc = "tell" /\ h \in Handler
      /\ handlers' = [handlers EXCEPT ![m][s] = r]
  BY SyncFacts DEF Tell, TelegramError, GoTo, TypeOK, db
<1>2. /\ r.pc \in {"status", "tell", "mark"} /\ r.pc = Onward(h)
      /\ r.kind = h.kind /\ r.inc = h.inc /\ r.covered = h.covered
      /\ ToTell(r) <=> ToTell(h)
  BY <1>1, OnwardFacts
<1> HIDE DEF r
<1>3. /\ \A n \in Handlers : handlers'[m][n] = IF n = s THEN r ELSE handlers[m][n]
      /\ \A k \in Monitors : k # m => handlers'[k] = handlers[k]
  BY <1>1, SyncFacts DEF TypeOK
<1>4. Agreed(m) /\ status[m] = After(h.kind) /\ Fits(m, h)
  BY <1>1, SyncFacts DEF Synced, HandlerSynced, Once
<1>5. HandlerSynced(m, handlers[m][s])'
  BY <1>1, <1>2, <1>3, <1>4 DEF HandlerSynced, Agreed
<1>6. Synced(m)' /\ Owed(m) = Debt(h) /\ Owed(m)' = Debt(r)
  <2>1. Single(m)'
    BY <1>1, SyncFacts DEF Synced, Single
  <2> QED BY <1>1, <1>3, <1>5, <2>1, SyncFacts, HandlerMoves
<1>7. /\ Debt(r) = "nothing"
      /\ Debt(h) = IF h.kind = "incident" THEN "down" ELSE "up"
  BY <1>1, <1>2, <1>4 DEF Debt, Onward, Handler, Kind, Fits
<1>8. ASSUME Tell(m, s)
      PROVE  /\ told'[m] = IF h.kind = "incident" THEN "down" ELSE "up"
             /\ \A k \in Monitors : k # m => told'[k] = told[k]
  BY <1>8, SyncFacts DEF Tell, TypeOK
<1>9. ASSUME NEW k \in Monitors, k # m PROVE Synced(k)' /\ (Tell(m, s) => Hidden(k))
  <2>1. told'[k] = told[k]
    BY <1>8, <1>9 DEF TelegramError, user
  <2> QED BY <1>1, <1>3, <1>9, <2>1, SyncFacts, SyncedStays
<1>10. Tell(m, s) => Shown(m)
  BY <1>1, <1>6, <1>7, <1>8 DEF Shown
<1> QED BY <1>6, <1>9, <1>10 DEF Syncs, Shows

\* The answer ends the post, and nothing of the monitor is under way.
LEMMA ReplySyncs ==
    ASSUME SyncInv, Smooth, NEW m \in Monitors, NEW s \in Handlers, Reply(m, s)
    PROVE  Syncs /\ Shows(m)
<1>1. /\ UNCHANGED <<status, muted, openInc, told, overrun>> /\ handlers[m][s].pc = "reply"
  BY DEF Reply, db, user
<1>2. /\ \A k \in Monitors, n \in Handlers :
            handlers'[k][n] = IF k = m /\ n = s THEN NoHandler ELSE handlers[k][n]
      /\ \A k \in Monitors : k # m => jobs'[k] = jobs[k] /\ handlers'[k] = handlers[k]
  <2>1. /\ \A k \in Monitors, n \in Handlers :
              handlers'[k][n] = IF k = m /\ n = s THEN NoHandler ELSE handlers[k][n]
        /\ \A k \in Monitors : k # m => jobs'[k] = jobs[k]
    BY SyncFacts, ReplyTypeOK
  <2>2. \A k \in Monitors : k # m => handlers'[k] = handlers[k]
    BY SyncFacts DEF Reply, TypeOK
  <2> QED BY <2>1, <2>2
<1>3. /\ handlers[m][s].awaited
      /\ \A n \in Handlers \ {s} : handlers[m][n].pc = "idle"
  BY <1>1, SyncFacts DEF Once, Alone, Running
<1>4. jobs'[m] = NoJob
  BY <1>3, SyncFacts DEF Reply, Finish, TypeOK
<1>5. Agreed(m)
  BY <1>1, SyncFacts DEF Synced, HandlerSynced
<1>6. JobSynced(m)'
  BY <1>1, <1>4, <1>5 DEF JobSynced, NoJob, Agreed
<1>7. \A n \in Handlers : handlers'[m][n].pc = "idle"
  BY <1>2, <1>3 DEF NoHandler
<1>8. Synced(m)'
  <2>1. (\A n \in Handlers : HandlerSynced(m, handlers[m][n]))'
    BY <1>7 DEF HandlerSynced
  <2> QED BY <1>1, <1>6, <2>1, SyncFacts DEF Synced, Single
<1>9. Owed(m) = "nothing" /\ Owed(m)' = "nothing"
  <2>1. \A n \in Handlers : Debt(handlers[m][n]) = "nothing"
    BY <1>1, <1>3, OtherDebt
  <2>2. DebtOf(handlers[m]) = "nothing"
    BY <2>1 DEF DebtOf
  <2> QED BY <1>7, <2>2, IdleDebt, OwedIsDebt
<1>10. ASSUME NEW k \in Monitors, k # m PROVE Synced(k)' /\ Hidden(k)
  BY <1>1, <1>2, <1>10, SyncFacts, SyncedStays
<1> QED BY <1>1, <1>8, <1>9, <1>10 DEF Syncs, Shows, Hidden

LEMMA HandlerSyncs ==
    ASSUME SyncInv, Smooth, NEW m \in Monitors, NEW s \in Handlers, HandlerStep(m, s)
    PROVE  Syncs /\ Shows(m)
BY ReadSyncs, FindSyncs, RecordSyncs, SetStatusSyncs, TellSyncs, ReplySyncs DEF HandlerStep

LEMMA ProbeSyncs ==
    ASSUME SyncInv, Smooth, NEW m \in Monitors, ProbeStep(m)
    PROVE  Syncs /\ Shows(m)
BY CheckSyncs, UpdateSyncs, WriteSyncs, SendSyncs DEF ProbeStep

\* A step that leaves the run smooth is a fault of Telegram, or none at all.
LEMMA SmoothStep ==
    ASSUME TypeOK, Smooth', [Next]_vars
    PROVE  /\ Smooth
           /\ \/ StartTick \/ UNCHANGED vars
              \/ \E m \in Monitors : BecomesDue(m) \/ ProbeStep(m) \/ Unmute(m) \/ FlipSite(m)
              \/ \E m \in Monitors, s \in Handlers : HandlerStep(m, s) \/ TelegramError(m, s)
<1>1. /\ \A kind \in {"mute", "crash", "db", "network", "slow"} : ~Upset(kind)
      /\ Upset("telegram") => Smooth
  BY NoUpset
<1>2. /\ ~Mute /\ ~CrashProbe /\ ~CrashApi
      /\ \A m \in Monitors : ~TickFails(m) /\ ~EventFails(m) /\ ~NetworkError(m)
      /\ \A m \in Monitors, s \in Handlers : ~HandlerFails(m, s) /\ ~Timeout(m, s)
  BY <1>1 DEF Mute, CrashProbe, CrashApi, TickFails, EventFails, NetworkError, HandlerFails, Timeout
<1>3. \/ StartTick \/ UNCHANGED vars
      \/ \E m \in Monitors : BecomesDue(m) \/ ProbeStep(m) \/ Unmute(m) \/ FlipSite(m)
      \/ \E m \in Monitors, s \in Handlers : HandlerStep(m, s) \/ TelegramError(m, s)
  BY <1>2 DEF Next
<1>4. Smooth
  <2>1. CASE \E m \in Monitors, s \in Handlers : TelegramError(m, s)
    BY <1>1, <2>1 DEF TelegramError
  <2>2. CASE upsets' = upsets
    BY <2>2 DEF Smooth
  <2>3. CASE StartTick \/ UNCHANGED vars
    BY <2>2, <2>3 DEF StartTick, vars
  <2>4. ASSUME NEW m \in Monitors, BecomesDue(m) \/ ProbeStep(m) \/ Unmute(m) \/ FlipSite(m)
        PROVE  Smooth
    BY <2>2, <2>4 DEF BecomesDue, ProbeStep, Check, UpdateMonitorTick, WriteEvent, Send, Unmute,
                      FlipSite
  <2>5. ASSUME NEW m \in Monitors, NEW s \in Handlers, HandlerStep(m, s) PROVE Smooth
    BY <2>2, <2>5 DEF HandlerStep, Read, FindIncident, Record, SetStatus, Tell, MarkDelivered, Reply
  <2> QED BY <1>3, <2>1, <2>3, <2>4, <2>5
<1> QED BY <1>3, <1>4

LEMMA StepSyncs == SyncInv /\ [Next]_vars => SyncInv'
<1> SUFFICES ASSUME SyncInv, [Next]_vars PROVE SyncInv'
  OBVIOUS
<1>1. AlertInv'
  BY StepKeeps DEF SyncInv
<1>2. ASSUME Smooth' PROVE Syncs
  <2>1. Smooth /\ TypeOK
    BY <1>2, SmoothStep DEF SyncInv, AlertInv
  <2>2. CASE StartTick
    BY <2>1, <2>2, StartTickSyncs DEF Syncs
  <2>3. CASE UNCHANGED vars
    <3>1. UNCHANGED <<jobs, handlers, openInc, status, told, overrun, muted>>
      BY <2>3 DEF vars, db, user
    <3>2. ASSUME NEW k \in Monitors PROVE Synced(k)'
      BY <2>1, <3>1, SyncFacts, SyncedStays
    <3> QED BY <3>2 DEF Syncs
  <2>4. ASSUME NEW m \in Monitors, BecomesDue(m) \/ Unmute(m) \/ FlipSite(m) PROVE Syncs
    BY <2>1, <2>4, OtherSyncs DEF Syncs
  <2> QED BY <1>2, <2>1, <2>2, <2>3, <2>4, SmoothStep, ProbeSyncs, HandlerSyncs, TellSyncs
<1> QED BY <1>1, <1>2 DEF SyncInv, Syncs

LEMMA InitSyncs == Init => SyncInv
<1> SUFFICES ASSUME Init PROVE SyncInv
  OBVIOUS
<1>1. ASSUME NEW m \in Monitors PROVE Synced(m)
  <2>1. \A n \in Handlers : handlers[m][n].pc = "idle"
    BY DEF Init, NoHandler
  <2>2. jobs[m].pc = "idle" /\ ~jobs[m].muted
    BY DEF Init, NoJob
  <2>3. openInc[m] = {} /\ status[m] = "unknown" /\ ~overrun[m] /\ ~muted[m]
    BY DEF Init
  <2> QED BY <2>1, <2>2, <2>3 DEF Synced, Single, JobSynced, HandlerSynced, Agreed
<1> QED BY <1>1, InitKeeps DEF SyncInv

\* The status the probe writes and the incidents the api's handlers record agree whenever
\* neither is at work on a monitor, and at most one incident is open, until the first fault
\* or mute (main.go's process, internal.ts): whatever is lost at Telegram, and whatever the
\* interleaving of ticks, posts and handlers.
THEOREM StatusMatchesIncidentsHolds == Spec => [](Smooth => StatusMatchesIncidents)
<1>1. SyncInv /\ [Next]_vars => SyncInv'
  BY StepSyncs
<1>2. SyncInv => (Smooth => StatusMatchesIncidents)
  BY DEF SyncInv, Synced, Single, JobSynced, Agreed, StatusMatchesIncidents, Quiet
<1> QED BY <1>1, <1>2, InitSyncs, PTL DEF Spec

----------------------------------------------------------------------------
(* Every step is one of Outage, or none it can see                         *)

LEMMA InitShows == Init => Promise!Init
<1> SUFFICES ASSUME Init PROVE Promise!Init
  OBVIOUS
<1>1. ASSUME NEW m \in Monitors PROVE openInc[m] = {} /\ Owed(m) = "nothing"
  <2>1. \A n \in Handlers : handlers[m][n].pc = "idle"
    BY DEF Init, NoHandler
  <2> QED BY <2>1, IdleDebt, OwedIsDebt DEF Init
<1> QED BY <1>1 DEF Init, Promise!Init

LEMMA AllHidden ==
    ASSUME \A k \in Monitors : Hidden(k), told \in [Monitors -> Promise!News],
           told' \in [Monitors -> Promise!News]
    PROVE  UNCHANGED Promise!vars
<1>1. /\ [k \in Monitors |-> openInc[k] # {}]' = [k \in Monitors |-> openInc[k] # {}]
      /\ [k \in Monitors |-> Owed(k)]' = [k \in Monitors |-> Owed(k)]
      /\ told' = told
  BY DEF Hidden
<1> QED BY <1>1 DEF Promise!vars

LEMMA ShownIsStep ==
    ASSUME NEW m \in Monitors, Shown(m), \A k \in Monitors : k # m => Hidden(k),
           told \in [Monitors -> Promise!News], told' \in [Monitors -> Promise!News]
    PROVE  Promise!Next
<1> DEFINE down == [k \in Monitors |-> openInc[k] # {}]
           owed == [k \in Monitors |-> Owed(k)]
<1>1. ASSUME NEW b \in BOOLEAN, openInc'[m] # {} <=> b
      PROVE  down' = [down EXCEPT ![m] = b]
  BY <1>1 DEF Hidden
<1>2. owed' = [owed EXCEPT ![m] = Owed(m)']
  BY DEF Hidden
<1>3. told' = [told EXCEPT ![m] = told'[m]]
  BY DEF Hidden
<1>4. down[m] = (openInc[m] # {}) /\ owed[m] = Owed(m)
  OBVIOUS
<1> HIDE DEF down, owed
<1>5. CASE /\ Owed(m) = "nothing" /\ openInc[m] = {} /\ openInc'[m] # {}
           /\ Owed(m)' \in {"down", "nothing"} /\ told'[m] = told[m]
  <2>1. down' = [down EXCEPT ![m] = TRUE] /\ told' = told /\ down[m] # TRUE
    BY <1>1, <1>3, <1>4, <1>5
  <2>2. \E n \in {"down", "nothing"} : owed' = [owed EXCEPT ![m] = n]
    BY <1>2, <1>5
  <2> QED BY <1>4, <1>5, <2>1, <2>2 DEF Promise!Next, Promise!Begin, Promise!Change, down, owed
<1>6. CASE /\ Owed(m) = "nothing" /\ openInc[m] # {} /\ openInc'[m] = {}
           /\ Owed(m)' \in {"up", "nothing"} /\ told'[m] = told[m]
  <2>1. down' = [down EXCEPT ![m] = FALSE] /\ told' = told /\ down[m] # FALSE
    BY <1>1, <1>3, <1>4, <1>6
  <2>2. \E n \in {"up", "nothing"} : owed' = [owed EXCEPT ![m] = n]
    BY <1>2, <1>6
  <2> QED BY <1>4, <1>6, <2>1, <2>2 DEF Promise!Next, Promise!End, Promise!Change, down, owed
<1>7. CASE /\ Owed(m) # "nothing" /\ Owed(m)' = "nothing" /\ told'[m] = Owed(m)
           /\ openInc'[m] # {} <=> openInc[m] # {}
  <2>1. down' = down
    BY <1>7 DEF Hidden, down
  <2>2. /\ owed[m] # "nothing" /\ owed' = [owed EXCEPT ![m] = "nothing"]
        /\ told' = [told EXCEPT ![m] = owed[m]]
    BY <1>2, <1>3, <1>4, <1>7
  <2> QED BY <2>1, <2>2 DEF Promise!Next, Promise!Tell, down, owed
<1> QED BY <1>5, <1>6, <1>7 DEF Shown

LEMMA StepShows ==
    ASSUME Upsets = {}, SyncInv, [Next]_vars
    PROVE  [Promise!Next]_(Promise!vars)
<1>1. Smooth /\ Smooth' /\ TypeOK /\ SyncInv'
  BY StepSyncs DEF Smooth, SyncInv, AlertInv
<1>2. told \in [Monitors -> Promise!News] /\ told' \in [Monitors -> Promise!News]
  BY <1>1 DEF SyncInv, AlertInv, TypeOK, Promise!News
<1>3. ASSUME NEW m \in Monitors, Shows(m) PROVE [Promise!Next]_(Promise!vars)
  <2>1. CASE Hidden(m)
    BY <1>2, <1>3, <2>1, AllHidden DEF Shows
  <2>2. CASE Shown(m)
    BY <1>2, <1>3, <2>2, ShownIsStep DEF Shows
  <2> QED BY <1>3, <2>1, <2>2 DEF Shows
<1>4. CASE \A k \in Monitors : Hidden(k)
  BY <1>2, <1>4, AllHidden
<1>5. CASE UNCHANGED vars
  <2>1. UNCHANGED <<jobs, handlers, openInc, status, told, overrun, muted>>
    BY <1>5 DEF vars, db, user
  <2>2. \A k \in Monitors : Hidden(k)
    BY <1>1, <2>1, SyncFacts, SyncedStays
  <2> QED BY <1>4, <2>2
<1>6. \A m \in Monitors, s \in Handlers : ~TelegramError(m, s)
  BY DEF TelegramError, Upset
<1> QED BY <1>1, <1>3, <1>4, <1>5, <1>6, SmoothStep, StartTickSyncs, OtherSyncs, ProbeSyncs,
           HandlerSyncs

\* Whatever the interleaving of ticks, posts, handlers and the site, two processes that fail
\* at nothing begin an outage only where none is on record, end only the one that is, tell
\* each end once and in this order, and start no outage before the last one is told
\* (main.go's process and post, internal.ts).
THEOREM StepsImplementOutage == ASSUME Upsets = {} PROVE Spec => Promise!Safety
<1>1. SyncInv /\ [Next]_vars => SyncInv'
  BY StepSyncs
<1>2. SyncInv /\ [Next]_vars => [Promise!Next]_(Promise!vars)
  BY StepShows
<1> QED BY <1>1, <1>2, InitSyncs, InitShows, PTL DEF Spec, Promise!Safety
=============================================================================
