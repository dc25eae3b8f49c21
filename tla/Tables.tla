------------------------------- MODULE Tables -------------------------------
(***************************************************************************)
(* The tables that the bot commands and the event poller share.            *)
(*                                                                         *)
(* Times are places in the order of the events of a monitor: event e is at *)
(* time e, 0 is null or before them all, Later is after them all.  No new  *)
(* event is written: the probe that left the backlog has stopped.          *)
(***************************************************************************)
EXTENDS FiniteSets, CheckDecision

CONSTANTS
    Chats,          \* Telegram chats; a user is a chat with a row in users
    Urls,
    Ids,            \* bound: monitors there are, or that somebody works on, at once
    Events,         \* length of a monitor's backlog
    Kind,           \* what its events are, one after the other
    Mutes,          \* bound: times until which a monitor may be muted at the start
    MaxOpen,        \* bound: open incidents of a monitor
    Backlogs        \* sets of rows there may be at the start, each with a backlog

ASSUME TablesAssumption ==
    /\ Events \in Nat \ {0} /\ IsFiniteSet(Ids)
    /\ MaxOpen \in Nat /\ MaxOpen >= 2

EventType == {"incident", "recovery"}

ASSUME KindAssumption == Kind \in [Ids -> [1..Events -> EventType]]

Later == Events + 1

ASSUME MutesAssumption == Mutes \subseteq 0..Later /\ 0 \in Mutes

Row == [id : Ids, chat : Chats, url : Urls]

ASSUME BacklogAssumption ==
    \A B \in Backlogs :
        /\ B \subseteq Row /\ IsFiniteSet(B)
        /\ \A r, s \in B : r.id = s.id \/ <<r.chat, r.url>> = <<s.chat, s.url>> => r = s

VARIABLES
    users,
    rows,           \* of the table monitors
    status,
    lastCheck,
    mutedUntil,
    openInc,        \* number of the monitor's incidents with ended_at null
    pending         \* its events that are not delivered

tables == <<users, rows, status, lastCheck, mutedUntil, openInc, pending>>

Least(a, b) == IF a < b THEN a ELSE b

Live(id) == \E r \in rows : r.id = id

RowsOf(c) == {r \in rows : r.chat = c}

Incident(id, e) == Kind[id][e] = "incident"

StatusAt(id, e) == IF Incident(id, e) THEN "down" ELSE "up"

\* The last event of each monitor that the api handled before the probe stopped, 0 for
\* none: those after it are pending, and any of those before it may be.
LastHandled(last) ==
    \A id \in Ids :
        Live(id) => last[id] \notin pending[id] /\ last[id] + 1..Events \subseteq pending[id]

\* What the row may say of the last check is bounded by the events alone.  The status of
\* an earlier one than theirs stands where the UPDATE of each check since has failed,
\* which therefore decided the same; no status at all makes for incidents only.
RowLeft(id) ==
    /\ status[id] = "unknown" => \A e \in 1..Events : Incident(id, e)
    /\ lastCheck[id] = 0 => status[id] = "unknown"
    /\ lastCheck[id] \in 1..Events /\ status[id] # StatusAt(id, lastCheck[id])
           => \A e \in lastCheck[id]..Events : Incident(id, e) <=> Incident(id, lastCheck[id])

\* A probe does not write status and event together: either may have failed, or be cut off
\* by a crash.  A handler of the api may have written the event's status late, and handlers
\* of one event, or a check and a handler, may each have opened an incident.
TablesInit(last) ==
    /\ rows \in Backlogs
    /\ users = {r.chat : r \in rows}
    /\ pending \in {p \in [Ids -> SUBSET (1..Events)] : \A id \in Ids : Live(id) \/ p[id] = {}}
    /\ LastHandled(last)
    /\ \A id \in Ids : Live(id) \/ last[id] = 0
    /\ lastCheck \in {f \in [Ids -> 0..Later] : \A id \in Ids : Live(id) \/ f[id] = 0}
    /\ status \in {f \in [Ids -> MonitorStatus] : \A id \in Ids : Live(id) \/ f[id] = "unknown"}
    /\ \A id \in Ids : Live(id) => RowLeft(id)
    /\ mutedUntil \in {f \in [Ids -> Mutes] : \A id \in Ids : Live(id) \/ f[id] = 0}
    /\ openInc \in {f \in [Ids -> 0..MaxOpen] : \A id \in Ids : Live(id) \/ f[id] = 0}

\* ON DELETE CASCADE: incidents and events go with the row.
DeleteRow(r) ==
    /\ rows' = rows \ {r}
    /\ status' = [status EXCEPT ![r.id] = "unknown"]
    /\ lastCheck' = [lastCheck EXCEPT ![r.id] = 0]
    /\ mutedUntil' = [mutedUntil EXCEPT ![r.id] = 0]
    /\ openInc' = [openInc EXCEPT ![r.id] = 0]
    /\ pending' = [pending EXCEPT ![r.id] = {}]
=============================================================================
