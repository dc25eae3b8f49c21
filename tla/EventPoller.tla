---------------------------- MODULE EventPoller ----------------------------
(***************************************************************************)
(* The end of the scheduler's tick: pollPendingEvents (event-poller.ts)    *)
(* works through events a probe has left, with one action for each await.  *)
(*                                                                         *)
(* Of the checks that come before it in the tick (Scheduler has them in    *)
(* detail) there are the awaits that read or write what the poll does.     *)
(* They begin between the polls, but where the check of another monitor    *)
(* throws they go on into the next tick and its poll.                      *)
(***************************************************************************)
EXTENDS Tables

CONSTANTS
    Batch,          \* events a poll takes at most
    Retries         \* consecutive failures that open an incident

ASSUME PollerAssumption == Batch \in Nat \ {0} /\ Retries \in Nat \ {0}

VARIABLES
    batch,          \* events of the running poll that are still to be handled
    event,          \* the one processEvent is at work on
    checks,         \* the check at work on each monitor; bound: one at a time
    newest,         \* latest event of the monitor that has been handled, or begun
    overtaken,      \* an event was handled after a later one, or is pending when a
                    \* check changes the status or finds otherwise than the last event
    torn,           \* status and incidents did not fit at the start, with no event left
                    \* to mend it, or a check was cut off between the two
    crowded,        \* more than one of the monitor's incidents was open at the start
    told,           \* events of the monitor that were announced
    repeated,       \* one of them was announced twice
    late            \* alerts since the monitor was last muted or removed; -1: never was

history == <<newest, overtaken, torn, crowded, told, repeated, late>>
poller  == <<batch, event, checks, history>>

\* `raced`: a check has closed an incident since this event found one to close.
Work == [pc : {"idle", "find", "record", "tell", "status", "mark"}, id : Ids \cup {0},
         e : 0..Events, behind : BOOLEAN, muted : BOOLEAN, raced : BOOLEAN]

NoEvent == [pc |-> "idle", id |-> 0, e |-> 0, behind |-> FALSE, muted |-> FALSE, raced |-> FALSE]

\* `raced`: the poll has closed an incident since this check found one to close.
CheckWork == [pc : {"idle", "incident", "find", "close", "status"}, tr : Transition, raced : BOOLEAN]

NoCheck == [pc |-> "idle", tr |-> "stay-up", raced |-> FALSE]

Matches(id) == openInc[id] = IF status[id] = "down" THEN 1 ELSE 0

\* At the start: what is pending will make status and incidents fit, or they do.
Explained(id) ==
    /\ openInc[id] <= 1
    /\ IF Events \in pending[id] THEN lastCheck[id] = Later => status[id] = StatusAt(id, Events)
       ELSE Matches(id)

PollerInit(last) ==
    /\ batch = {}
    /\ event = NoEvent
    /\ checks = [id \in Ids |-> NoCheck]
    /\ newest = last
    /\ overtaken = [id \in Ids |-> \E e \in pending[id] : e < last[id]]
    /\ torn = [id \in Ids |-> ~Explained(id)]
    /\ crowded = [id \in Ids |-> openInc[id] > 1]
    /\ told = [id \in Ids |-> {}]
    /\ repeated = [id \in Ids |-> FALSE]
    /\ late = [id \in Ids |-> -1]

----------------------------------------------------------------------------

Polling == batch # {} \/ event.pc # "idle"

Pending == {p \in Ids \X (1..Events) : p[2] \in pending[p[1]]}

CheckGoes(id, pc) == checks' = [checks EXCEPT ![id].pc = pc]

CheckEnds(id) == checks' = [checks EXCEPT ![id] = NoCheck]

Changes(tr) == tr \in {"went-down", "recovered"}

\* The row is loaded, the URL checked and decide() taken; the first await that matters
\* here is next.  Of the failures before it anything may be true.
CheckBegins(id, out) ==
    /\ ~Polling
    /\ Live(id)
    /\ checks[id].pc = "idle"
    /\ \E fails \in 1..Retries :
           LET tr == Decide(status[id], out, fails, Retries)
           IN  /\ checks' = [checks EXCEPT ![id] =
                      [pc |-> CASE tr = "went-down" -> "incident"
                                [] tr = "recovered" -> "find"
                                [] OTHER            -> "status",
                       tr |-> tr, raced |-> FALSE]]
               /\ overtaken' = [overtaken EXCEPT ![id] =
                      @ \/ (pending[id] # {} /\ (Changes(tr) \/ status[id] # StatusAt(id, Events)))]
    /\ UNCHANGED <<tables, batch, event, newest, torn, crowded, told, repeated, late>>

\* A monitor that went down: the INSERT, which throws if the row is gone.
CheckOpens(id) ==
    /\ checks[id].pc = "incident"
    /\ IF Live(id)
       THEN /\ openInc[id] < MaxOpen
            /\ openInc' = [openInc EXCEPT ![id] = @ + 1]
            /\ CheckGoes(id, "status")
       ELSE CheckEnds(id) /\ UNCHANGED openInc
    /\ UNCHANGED <<users, rows, status, lastCheck, mutedUntil, pending, batch, event, history>>

\* One that recovered: openIncident, and the UPDATE of what it has found.
CheckFinds(id) ==
    /\ checks[id].pc = "find"
    /\ CheckGoes(id, IF openInc[id] = 0 THEN "status" ELSE "close")
    /\ UNCHANGED <<tables, batch, event, history>>

\* Where poll and check have both found an incident, the second UPDATE may be of one that
\* is closed already.
Closes(id, raced) ==
    \E again \in {FALSE, raced} :
        openInc' = [openInc EXCEPT ![id] = IF again \/ @ = 0 THEN @ ELSE @ - 1]

CheckCloses(id) ==
    /\ checks[id].pc = "close"
    /\ Closes(id, checks[id].raced)
    /\ event' = [event EXCEPT !.raced = @ \/ (event.pc = "record" /\ event.id = id)]
    /\ CheckGoes(id, "status")
    /\ UNCHANGED <<users, rows, status, lastCheck, mutedUntil, pending, batch, history>>

\* The UPDATE of the row, which leaves the status of one that stays as it is alone.
CheckWrites(id) ==
    LET tr == checks[id].tr
        st == CASE tr \in {"stay-up", "recovered"} -> "up"
                [] tr = "went-down"                -> "down"
                [] OTHER                           -> status[id]
    IN  /\ checks[id].pc = "status"
        /\ IF Live(id)
           THEN /\ status' = [status EXCEPT ![id] = st]
                /\ lastCheck' = [lastCheck EXCEPT ![id] = Later]
                /\ overtaken' = [overtaken EXCEPT ![id] =
                       @ \/ (pending[id] # {} /\ (st # status[id] \/ st # StatusAt(id, Events)))]
           ELSE UNCHANGED <<status, lastCheck, overtaken>>
        /\ CheckEnds(id)
        /\ UNCHANGED <<users, rows, mutedUntil, openInc, pending, batch, event, newest, torn,
                       crowded, told, repeated, late>>

\* Between the incident and the status.
Halfway(id) == checks[id].pc = "status" /\ Changes(checks[id].tr)

\* A call throws.  If it had its effect first, that is the step and then the throw of the
\* next call.
CheckFails(id) ==
    /\ checks[id].pc # "idle"
    /\ torn' = [torn EXCEPT ![id] = @ \/ Halfway(id)]
    /\ CheckEnds(id)
    /\ UNCHANGED <<tables, batch, event, newest, overtaken, crowded, told, repeated, late>>

CheckStep(id) ==
    \/ \E out \in HeartbeatStatus : CheckBegins(id, out)
    \/ CheckOpens(id) \/ CheckFinds(id) \/ CheckCloses(id) \/ CheckWrites(id)

\* The SELECT of the pending events, with a limit and no order.
Poll ==
    /\ ~Polling
    /\ Pending # {}
    /\ batch' \in {b \in SUBSET Pending :
                       Cardinality(b) = IF Cardinality(Pending) < Batch THEN Cardinality(Pending)
                                        ELSE Batch}
    /\ UNCHANGED <<tables, event, checks, history>>

\* Mutant of Covers: a mute that ends with the event does not cover it.
CoversLess(until, e) == until > e + 1

Covers(until, e) == until > e

\* The next event's monitor is read, and with it whether the event is older than the
\* last check, and whether it is muted; without a monitor there is nothing to do.
Read(id, e) ==
    /\ event.pc = "idle"
    /\ <<id, e>> \in batch
    /\ batch' = batch \ {<<id, e>>}
    /\ event' = [pc |-> IF Live(id) THEN "find" ELSE "mark", id |-> id, e |-> e,
                 behind |-> lastCheck[id] > e, muted |-> Covers(mutedUntil[id], e),
                 raced |-> FALSE]
    /\ overtaken' = [overtaken EXCEPT ![id] = @ \/ (Live(id) /\ newest[id] > e)]
    /\ newest' = [newest EXCEPT ![id] = IF @ < e /\ Live(id) THEN e ELSE @]
    /\ UNCHANGED <<tables, checks, torn, crowded, told, repeated, late>>

\* An incident is opened if none is open, and one that is open is closed; only then
\* is there something to tell.  The status follows, unless the event is behind.
AfterRecord == IF event.muted THEN IF event.behind THEN "mark" ELSE "status" ELSE "tell"

Onward(pc) == event' = [event EXCEPT !.pc = pc]

\* Mutant of FindIncident: an incident is opened without looking for an open one.
FindIncidentBlind ==
    /\ event.pc = "find"
    /\ IF Incident(event.id, event.e) \/ openInc[event.id] # 0 THEN Onward("record")
       ELSE Onward(IF event.behind THEN "mark" ELSE "status")
    /\ UNCHANGED <<tables, batch, checks, history>>

FindIncident ==
    /\ event.pc = "find"
    /\ IF (Incident(event.id, event.e)) <=> (openInc[event.id] = 0) THEN Onward("record")
       ELSE Onward(IF event.behind THEN "mark" ELSE "status")
    /\ UNCHANGED <<tables, batch, checks, history>>

\* The INSERT needs the monitor's row; the UPDATE of an incident that is gone with it
\* changes nothing.
Record ==
    /\ event.pc = "record"
    /\ IF Incident(event.id, event.e)
       THEN /\ Live(event.id)
            /\ openInc' = [openInc EXCEPT ![event.id] = @ + 1]
            /\ UNCHANGED checks
       ELSE /\ Closes(event.id, event.raced)
            /\ checks' = [checks EXCEPT ![event.id].raced = @ \/ checks[event.id].pc = "close"]
    /\ Onward(AfterRecord)
    /\ UNCHANGED <<users, rows, status, lastCheck, mutedUntil, pending, batch, history>>

AfterTell == IF event.behind THEN "mark" ELSE "status"

\* notifyDown or notifyRecovery: the owner is told even if the row is gone by now.
Tell ==
    /\ event.pc = "tell"
    /\ told' = [told EXCEPT ![event.id] = @ \cup {event.e}]
    /\ repeated' = [repeated EXCEPT ![event.id] = @ \/ event.e \in told[event.id]]
    /\ late' = [late EXCEPT ![event.id] = IF @ = -1 \/ @ = 2 THEN @ ELSE @ + 1]
    /\ Onward(AfterTell)
    /\ UNCHANGED <<tables, batch, checks, newest, overtaken, torn, crowded>>

\* Status and time are the event's.
SetStatus ==
    /\ event.pc = "status"
    /\ IF Live(event.id)
       THEN /\ status' = [status EXCEPT ![event.id] = StatusAt(event.id, event.e)]
            /\ lastCheck' = [lastCheck EXCEPT ![event.id] = event.e]
       ELSE UNCHANGED <<status, lastCheck>>
    /\ Onward("mark")
    /\ UNCHANGED <<users, rows, mutedUntil, openInc, pending, batch, checks, history>>

\* Mutant of Mark: an event that is older than the last check is left as it is.
MarkUnlessBehind ==
    /\ event.pc = "mark"
    /\ pending' = IF event.behind THEN pending ELSE [pending EXCEPT ![event.id] = @ \ {event.e}]
    /\ event' = NoEvent
    /\ UNCHANGED <<users, rows, status, lastCheck, mutedUntil, openInc, batch, checks, history>>

\* The event is delivered.
Mark ==
    /\ event.pc = "mark"
    /\ pending' = [pending EXCEPT ![event.id] = @ \ {event.e}]
    /\ event' = NoEvent
    /\ UNCHANGED <<users, rows, status, lastCheck, mutedUntil, openInc, batch, checks, history>>

\* The INSERT of an incident of a monitor that has been removed throws; the event has
\* gone with the row.
Rejected ==
    /\ event.pc = "record"
    /\ Incident(event.id, event.e)
    /\ ~Live(event.id)
    /\ event' = NoEvent
    /\ UNCHANGED <<tables, batch, checks, history>>

\* A database call throws: the event stays pending and the loop goes on to the next.
EventFails ==
    /\ \/ event.pc # "idle" /\ event' = NoEvent /\ UNCHANGED batch
       \/ event.pc = "idle" /\ (\E b \in batch : batch' = batch \ {b}) /\ UNCHANGED event
    /\ UNCHANGED <<tables, checks, history>>

\* send() swallows an error of the Telegram API.
TellFails ==
    /\ event.pc = "tell"
    /\ Onward(AfterTell)
    /\ UNCHANGED <<tables, batch, checks, history>>

\* The owner does not want to hear of these monitors any more.
Silence(ids) ==
    /\ late' = [id \in Ids |-> IF id \in ids THEN 0 ELSE late[id]]
    /\ UNCHANGED <<batch, event, checks, newest, overtaken, torn, crowded, told, repeated>>

\* A new monitor has no history.
Begin(id) ==
    /\ newest' = [newest EXCEPT ![id] = 0]
    /\ overtaken' = [overtaken EXCEPT ![id] = FALSE]
    /\ torn' = [torn EXCEPT ![id] = FALSE]
    /\ crowded' = [crowded EXCEPT ![id] = FALSE]
    /\ told' = [told EXCEPT ![id] = {}]
    /\ repeated' = [repeated EXCEPT ![id] = FALSE]
    /\ late' = [late EXCEPT ![id] = -1]
    /\ UNCHANGED <<batch, event, checks>>

EventStep ==
    \/ \E id \in Ids, e \in 1..Events : Read(id, e)
    \/ FindIncident \/ Record \/ Tell \/ SetStatus \/ Mark \/ Rejected
=============================================================================
