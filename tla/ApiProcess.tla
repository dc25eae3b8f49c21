----------------------------- MODULE ApiProcess -----------------------------
(***************************************************************************)
(* The bot and the event poller in the one process of the monolith, over   *)
(* one database: a command may come between any two steps of a poll.       *)
(***************************************************************************)
EXTENDS BotCommands, EventPoller

CONSTANTS
    Enabled,        \* SCHEDULER_ENABLED: whether there are ticks
    Sent,           \* bound: the commands that users send
    Faults,         \* which of "crash", "db", "telegram" may happen
    MaxFaults       \* bound: how many of them, in a behaviour

ASSUME FaultAssumption == MaxFaults \in Nat

ASSUME SentAssumption == Enabled \in BOOLEAN /\ Sent \subseteq Command

VARIABLE faults

vars == <<tables, bot, poller, faults>>

Init ==
    /\ \E last \in [Ids -> 0..Events] : TablesInit(last) /\ PollerInit(last)
    /\ BotInit
    /\ faults = 0

----------------------------------------------------------------------------

\* A UUID is new: nothing refers to it, the poll's copies of its events included.
NewIds == {id \in Ids : /\ ~Live(id)
                        /\ event.id # id
                        /\ checks[id].pc = "idle"
                        /\ \A e \in 1..Events : <<id, e>> \notin batch}

\* A command's step, and what it means for the history of the monitors.
HandStep ==
    /\ \/ /\ Resolve \/ FindUser \/ Dedupe \/ Count \/ Look \/ Reply
          /\ UNCHANGED poller
       \/ \E id \in NewIds : Create(id) /\ Begin(id)
       \/ Delete /\ Silence({hand.row.id})
       \/ MuteAll /\ Silence({r.id : r \in RowsOf(hand.chat)})
    /\ UNCHANGED faults

TakeStep(c) ==
    /\ \E cmd \in Sent : \E u \in Argument(cmd) : Take(c, cmd, u)
    /\ UNCHANGED <<poller, faults>>

PollStep == Enabled /\ (Poll \/ EventStep) /\ UNCHANGED <<bot, faults>>

MonitorStep(id) == Enabled /\ CheckStep(id) /\ UNCHANGED <<bot, faults>>

Clock == Elapse /\ UNCHANGED <<poller, faults>>

Fault(kind) ==
    /\ kind \in Faults
    /\ faults < MaxFaults
    /\ faults' = faults + 1

DbError ==
    /\ Fault("db")
    /\ \/ CommandFails /\ UNCHANGED poller
       \/ EventFails /\ UNCHANGED bot
       \/ \E id \in Ids : CheckFails(id) /\ UNCHANGED bot

TelegramError ==
    /\ Fault("telegram")
    /\ \/ ReplyFails /\ UNCHANGED poller
       \/ TellFails /\ UNCHANGED bot

\* Shutdown waits neither for a command nor for a tick, and the memory is lost.
Crash ==
    /\ Fault("crash")
    /\ BotRestarts
    /\ batch' = {}
    /\ event' = NoEvent
    /\ checks' = [id \in Ids |-> NoCheck]
    /\ torn' = [id \in Ids |-> torn[id] \/ Halfway(id)]
    /\ UNCHANGED <<tables, newest, overtaken, crowded, told, repeated, late>>

Next ==
    \/ \E c \in Chats : TakeStep(c)
    \/ \E id \in Ids : MonitorStep(id)
    \/ HandStep \/ PollStep \/ Clock
    \/ DbError \/ TelegramError \/ Crash

\* The clock runs, ticks come that get as far as the poll, and what is awaited settles.
\* Nothing is assumed of users, checks and faults.
Fairness == WF_vars(Clock) /\ WF_vars(HandStep) /\ WF_vars(PollStep)

Spec == Init /\ [][Next]_vars /\ Fairness

----------------------------------------------------------------------------
(* Properties                                                              *)

TypeOK ==
    /\ users \subseteq Chats
    /\ rows \subseteq Row
    /\ status \in [Ids -> MonitorStatus]
    /\ lastCheck \in [Ids -> 0..Later]
    /\ mutedUntil \in [Ids -> 0..Later]
    /\ openInc \in [Ids -> 0..MaxOpen]
    /\ pending \in [Ids -> SUBSET (1..Events)]
    /\ hand \in Hand
    /\ bucket \in [Chats -> [tokens : 0..Full, lag : 0..Full]]
    /\ busiest \in [Chats -> Nat]
    /\ batch \subseteq Ids \X (1..Events)
    /\ event \in Work
    /\ checks \in [Ids -> CheckWork]
    /\ late \in [Ids -> -1..2]
    /\ faults \in 0..MaxFaults

\* No user gets past the plan's limit: between the look at the table and the insert lie
\* other awaits, errors, apologies for what was done after all, and the command sent again.
WithinLimit == \A c \in Chats : Cardinality(RowsOf(c)) <= Limit

\* The bucket is refilled lazily, when a command comes.  Still the commands answered in
\* a window of any length cost no more than a full bucket, the length of the window and
\* another full bucket for each restart in it,
AnsweredWithinRate == \A c \in Chats : busiest[c] <= Full

\* and a command is refused only if answering it would exceed that.
RefusedOnlyAtRate ==
    [][hand.pc = "idle" /\ hand'.say = "slow down" => busiest[hand'.chat] + Cost > Full]_vars

\* Refusals cost nothing: a chat that sends one command after another, never pausing, is
\* answered again and again.
NotStarved ==
    \A c \in Chats :
        []<>(hand.pc # "idle" /\ hand.chat = c)
            => []<>(hand.pc # "idle" /\ hand.chat = c /\ hand.say # "slow down")

\* Every event is handled in the end, or goes with its monitor: those that failed are
\* tried again, and neither the limit of a poll nor its order leaves one behind.
EventsHandled == <>(\A id \in Ids : pending[id] = {})

\* When nothing is left to handle and no check is at work, a monitor has one open incident
\* if it is down and none otherwise, over any failure, crash and repetition of the poll,
\* unless an event was overtaken: by a later one, which is handled first if this one fails,
\* or by a check of the monitor; or status and incident were torn apart, by a probe that
\* wrote a status and no event or by a check that was cut off between the two.
StatusMatchesIncidents ==
    \A id \in Ids :
        Live(id) /\ pending[id] = {} /\ event.id # id /\ checks[id].pc = "idle"
            => overtaken[id] \/ torn[id] \/ Matches(id)

\* An event that was not overtaken is announced once at most, however often it is handled.
\* A recovery that finds the two incidents handlers have left may announce the end of both.
AnnouncedOnce == \A id \in Ids : repeated[id] => overtaken[id] \/ crowded[id]

\* Of the whole backlog of a monitor, at most the alert in hand reaches its owner after a
\* /mute or a /remove: the poller reads the row again for each event.
AtMostOneLate == \A id \in Ids : late[id] <= 1
=============================================================================
