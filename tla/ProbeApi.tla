------------------------------ MODULE ProbeApi ------------------------------
(***************************************************************************)
(* The split deployment of docker-compose.yml: the Go probe checks the     *)
(* monitors (main.go) and reports what changed to the api, whose internal  *)
(* routes (internal.ts) record the incident and alert the owner.           *)
(*                                                                         *)
(* The two share the database.  The probe writes the status itself, leaves *)
(* an event in pending_events and posts it, up to Attempts times; the api  *)
(* runs one handler for each request that reaches it, and goes on with it  *)
(* when the client has stopped waiting.  The scheduler of the api, and the *)
(* event poller it calls, are off (SCHEDULER_ENABLED).                     *)
(*                                                                         *)
(* There is no clock.  The two comparisons of times the handlers make are  *)
(* kept as facts about the event: `behind` and `covered` (see Job).      *)
(***************************************************************************)
EXTENDS CheckDecision

CONSTANTS
    Monitors,
    Retries,        \* consecutive failures that are an outage
    Attempts,       \* requests a post makes before it gives up
    Handlers,       \* bound: handlers of one monitor that may run at once
    EventIds,       \* bound: events of one monitor that somebody works on
    NoEvent,
    IncidentIds,    \* bound: incidents of a monitor open, or held by a handler
    NoIncident,
    Upsets,         \* which of "crash", "db", "network", "slow", "telegram", "mute" may come
    MaxUpsets       \* bound: how many of them, in a behaviour

ASSUME ProbeAssumption ==
    /\ Retries \in Nat \ {0} /\ Attempts \in Nat \ {0} /\ MaxUpsets \in Nat

ASSUME IdAssumption ==
    /\ Handlers \subseteq Nat /\ EventIds \subseteq Nat /\ IncidentIds \subseteq Nat
    /\ NoEvent \notin EventIds /\ NoIncident \notin IncidentIds

VARIABLES
    site,       \* what a check of the monitor would see now (environment)
    due,        \* last_check_at is null or older than the interval
    status,     \* monitors.status
    muted,      \* monitors.muted_until is in the future
    openInc,    \* incidents of the monitor with ended_at null
    pending,    \* events somebody holds, or held last, that are not delivered
    left,       \* there are more pending events, which nobody works on
    fails,      \* the probe's failCounts, saturating at Retries
    jobs,       \* the probe's goroutine of each monitor
    handlers,   \* the api's handlers of each monitor's requests
    told,       \* last alert the owner received
    alerts,     \* DOWN alerts sent since an incident was last closed
    overrun,    \* a handler of the monitor has outlived its client's patience
    upsets

db   == <<due, status, muted, openInc, pending, left>>
user == <<told, alerts>>
vars == <<site, db, fails, jobs, handlers, user, overrun, upsets>>

\* behind: last_check_at is later than the time of the event, or of the check it
\* comes from; covered: muted_until is.  muted is what the tick has loaded.
Job == [pc : {"idle", "check", "tick", "event", "send", "await"},
        prev : MonitorStatus, muted : BOOLEAN, tr : Transition,
        event : EventIds \cup {NoEvent}, attempt : 1..Attempts,
        behind : BOOLEAN, covered : BOOLEAN]

NoJob == [pc |-> "idle", prev |-> "unknown", muted |-> FALSE, tr |-> "stay-up",
          event |-> NoEvent, attempt |-> 1, behind |-> FALSE, covered |-> FALSE]

Kind == {"incident", "recovery"}

\* One pc for each await of the two handlers; inc is what openIncident returned.
Handler == [pc : {"idle", "read", "find", "record", "status", "tell", "mark", "reply"},
            kind : Kind, event : EventIds \cup {NoEvent},
            behind : BOOLEAN, covered : BOOLEAN,
            inc : IncidentIds \cup {NoIncident}, awaited : BOOLEAN]

NoHandler == [pc |-> "idle", kind |-> "incident", event |-> NoEvent, behind |-> FALSE,
              covered |-> FALSE, inc |-> NoIncident, awaited |-> FALSE]

TypeOK ==
    /\ site \in [Monitors -> HeartbeatStatus]
    /\ due \in [Monitors -> BOOLEAN]
    /\ status \in [Monitors -> MonitorStatus]
    /\ muted \in [Monitors -> BOOLEAN]
    /\ openInc \in [Monitors -> SUBSET IncidentIds]
    /\ pending \in [Monitors -> SUBSET EventIds]
    /\ left \in [Monitors -> BOOLEAN]
    /\ fails \in [Monitors -> 0..Retries]
    /\ jobs \in [Monitors -> Job]
    /\ handlers \in [Monitors -> [Handlers -> Handler]]
    /\ told \in [Monitors -> {"nothing", "down", "up"}]
    /\ alerts \in [Monitors -> 0..2]
    /\ overrun \in [Monitors -> BOOLEAN]
    /\ upsets \in 0..MaxUpsets

Init ==
    /\ site \in [Monitors -> HeartbeatStatus]
    /\ due = [m \in Monitors |-> TRUE]
    /\ status = [m \in Monitors |-> "unknown"]
    /\ muted = [m \in Monitors |-> FALSE]
    /\ openInc = [m \in Monitors |-> {}]
    /\ pending = [m \in Monitors |-> {}]
    /\ left = [m \in Monitors |-> FALSE]
    /\ fails = [m \in Monitors |-> 0]
    /\ jobs = [m \in Monitors |-> NoJob]
    /\ handlers = [m \in Monitors |-> [s \in Handlers |-> NoHandler]]
    /\ told = [m \in Monitors |-> "nothing"]
    /\ alerts = [m \in Monitors |-> 0]
    /\ overrun = [m \in Monitors |-> FALSE]
    /\ upsets = 0

----------------------------------------------------------------------------
(* Helpers                                                                 *)

Upto(n, cap) == IF n > cap THEN cap ELSE n

Least(S) == CHOOSE n \in S : \A k \in S : n <= k

Running(m) == {s \in Handlers : handlers[m][s].pc # "idle"}

Quiet(m) == jobs[m].pc = "idle" /\ Running(m) = {}

Awaited(m) == {s \in Handlers : handlers[m][s].awaited}

Held(m) == ({jobs[m].event} \cup {handlers[m][s].event : s \in Handlers}) \ {NoEvent}

\* Ids follow the order of the checks they are about; ids nobody holds come again.
NewEventIds(m) == {e \in EventIds : \A h \in Held(m) : e > h}

NewIncidentIds(m) ==
    {i \in IncidentIds \ openInc[m] : \A s \in Handlers : handlers[m][s].inc # i}

Upset(kind) ==
    /\ kind \in Upsets
    /\ upsets < MaxUpsets
    /\ upsets' = upsets + 1

Finish(m) == jobs' = [jobs EXCEPT ![m] = NoJob]

\* A request has failed: post() has another attempt or gives up, and the probe
\* logs "event-poller will retry".
AttemptFails(m) ==
    IF jobs[m].attempt < Attempts
    THEN jobs' = [jobs EXCEPT ![m].pc = "send", ![m].attempt = @ + 1]
    ELSE Finish(m)

----------------------------------------------------------------------------
(* The probe                                                               *)

\* Time passes, and the monitor's interval is over.
BecomesDue(m) ==
    /\ ~due[m]
    /\ due' = [due EXCEPT ![m] = TRUE]
    /\ UNCHANGED <<site, status, muted, openInc, pending, left, fails, jobs, handlers,
                   user, overrun, upsets>>

\* wg.Wait: a tick begins when every goroutine of the last one has returned.
StartTick ==
    /\ \A m \in Monitors : jobs[m].pc = "idle"
    /\ \E m \in Monitors : due[m]
    /\ jobs' = [m \in Monitors |->
           IF due[m] THEN [NoJob EXCEPT !.pc = "check", !.prev = status[m], !.muted = muted[m]]
           ELSE NoJob]
    /\ UNCHANGED <<site, db, fails, handlers, user, overrun, upsets>>

\* CheckURL answers and fixes `now`; count and decision follow.  The heartbeat
\* written in between is read by nobody here, and its failure only logged.
Check(m) ==
    LET out   == site[m]
        count == IF out = "down" THEN Upto(fails[m] + 1, Retries) ELSE 0
    IN  /\ jobs[m].pc = "check"
        /\ fails' = [fails EXCEPT ![m] = count]
        /\ jobs' = [jobs EXCEPT ![m].pc = "tick", ![m].covered = muted[m],
                                ![m].tr = Decide(jobs[m].prev, out, count, Retries)]
        /\ UNCHANGED <<site, db, handlers, user, overrun, upsets>>

Reports(transition) == transition \in {"went-down", "recovered"}

\* UpdateMonitorTick is over, done or failed; `late` if its second is a later one
\* than that of the check.
AfterTick(m, late) ==
    jobs' = [jobs EXCEPT ![m] = IF Reports(@.tr)
                                THEN [@ EXCEPT !.pc = "event", !.behind = late, !.prev = "unknown"]
                                ELSE NoJob]

UpdateMonitorTick(m) ==
    /\ jobs[m].pc = "tick"
    /\ status' = [status EXCEPT ![m] = MonitorStatusAfter(jobs[m].prev, jobs[m].tr)]
    /\ due' = [due EXCEPT ![m] = FALSE]
    /\ handlers' = [handlers EXCEPT ![m] = [s \in Handlers |->
           IF @[s].pc = "read" THEN [@[s] EXCEPT !.behind = TRUE] ELSE @[s]]]
    /\ \E late \in BOOLEAN : AfterTick(m, late)
    /\ UNCHANGED <<site, muted, openInc, pending, left, fails, user, overrun, upsets>>

\* WriteEvent; the event of a monitor that was muted is left to nobody.
WriteEvent(m) ==
    LET e == Least(NewEventIds(m))
    IN  /\ jobs[m].pc = "event"
        /\ NewEventIds(m) # {}
        /\ IF jobs[m].muted
           THEN /\ left' = [left EXCEPT ![m] = TRUE]
                /\ Finish(m)
                /\ UNCHANGED pending
           ELSE /\ left' = [left EXCEPT ![m] = @ \/ e \in pending[m]]
                /\ pending' = [pending EXCEPT ![m] = @ \cup {e}]
                /\ jobs' = [jobs EXCEPT ![m].pc = "send", ![m].event = e]
        /\ UNCHANGED <<site, due, status, muted, openInc, fails, handlers, user, overrun, upsets>>

\* The request reaches the api.
Send(m) ==
    /\ jobs[m].pc = "send"
    /\ Running(m) # Handlers
    /\ handlers' = [handlers EXCEPT ![m][Least(Handlers \ Running(m))] =
           [NoHandler EXCEPT !.pc = "read", !.event = jobs[m].event, !.awaited = TRUE,
                             !.kind = IF jobs[m].tr = "recovered" THEN "recovery" ELSE "incident",
                             !.behind = jobs[m].behind, !.covered = jobs[m].covered]]
    /\ jobs' = [jobs EXCEPT ![m].pc = "await"]
    /\ UNCHANGED <<site, db, fails, user, overrun, upsets>>

----------------------------------------------------------------------------
(* The handlers of /internal/incident and /internal/recovery               *)

\* Mutant of News: an incident is recorded without looking for an open one.
NewsUnchecked(h) == h.kind = "incident" \/ h.inc # NoIncident

\* The handler has something new to record, and to tell.
News(h) == h.kind = "incident" <=> h.inc = NoIncident

\* Mutant of ToTell: the sense of the mute is reversed.
ToTellMuted(h) == News(h) /\ h.covered

ToTell(h) == News(h) /\ ~h.covered

\* Where a handler goes on once it has recorded what there is to record.  The one
\* writes the status and then tells, the other tells first; both may skip both.
Onward(h) ==
    IF h.kind = "incident"
    THEN IF h.pc \in {"find", "record"} /\ ~h.behind THEN "status"
         ELSE IF h.pc # "tell" /\ ToTell(h) THEN "tell" ELSE "mark"
    ELSE IF h.pc = "record" /\ ToTell(h) THEN "tell"
         ELSE IF h.pc # "status" /\ ~h.behind THEN "status" ELSE "mark"

GoTo(m, s, pc) == handlers' = [handlers EXCEPT ![m][s].pc = pc]

\* The SELECT of the monitor: last_check_at and muted_until are compared as read here.
Read(m, s) ==
    /\ handlers[m][s].pc = "read"
    /\ GoTo(m, s, "find")
    /\ UNCHANGED <<site, db, fails, jobs, user, overrun, upsets>>

\* openIncident: which of several open incidents it is makes no difference here.
FindIncident(m, s) ==
    /\ handlers[m][s].pc = "find"
    /\ \E i \in IF openInc[m] = {} THEN {NoIncident} ELSE openInc[m] :
          LET h == [handlers[m][s] EXCEPT !.inc = i]
          IN  handlers' = [handlers EXCEPT ![m][s] =
                  [h EXCEPT !.pc = IF News(h) THEN "record" ELSE Onward(h)]]
    /\ UNCHANGED <<site, db, fails, jobs, user, overrun, upsets>>

\* Mutant of Record: an incident that is found is never ended.
RecordInsertOnly(m, s) ==
    LET h == handlers[m][s]
    IN  /\ h.pc = "record"
        /\ openInc' = IF h.kind = "incident"
                      THEN [openInc EXCEPT ![m] = @ \cup {Least(NewIncidentIds(m))}]
                      ELSE openInc
        /\ GoTo(m, s, Onward(h))
        /\ UNCHANGED <<site, due, status, muted, pending, left, fails, jobs, user,
                       overrun, upsets>>

\* The INSERT of a new incident, or the UPDATE that ends the one found.
Record(m, s) ==
    LET h == handlers[m][s]
    IN  /\ h.pc = "record"
        /\ IF h.kind = "incident"
           THEN /\ NewIncidentIds(m) # {}
                /\ openInc' = [openInc EXCEPT ![m] = @ \cup {Least(NewIncidentIds(m))}]
                /\ UNCHANGED alerts
           ELSE /\ openInc' = [openInc EXCEPT ![m] = @ \ {h.inc}]
                /\ alerts' = [alerts EXCEPT ![m] = 0]
        /\ GoTo(m, s, Onward(h))
        /\ UNCHANGED <<site, due, status, muted, pending, left, fails, jobs, told,
                       overrun, upsets>>

\* last_check_at becomes the event's time, even if the probe has written a later
\* one since this handler read the row.
SetStatus(m, s) ==
    LET h == handlers[m][s]
    IN  /\ h.pc = "status"
        /\ status' = [status EXCEPT ![m] = IF h.kind = "incident" THEN "down" ELSE "up"]
        /\ due' = [due EXCEPT ![m] = FALSE]
        /\ handlers' = [handlers EXCEPT ![m] = [n \in Handlers |->
               CASE n = s -> [h EXCEPT !.pc = Onward(h)]
                 [] n # s /\ @[n].pc = "read" -> [@[n] EXCEPT !.behind = handlers[m][n].event < h.event]
                 [] OTHER -> @[n]]]
        /\ jobs' = [jobs EXCEPT ![m].behind = FALSE]
        /\ UNCHANGED <<site, muted, openInc, pending, left, fails, user, overrun, upsets>>

Tell(m, s) ==
    LET h == handlers[m][s]
    IN  /\ h.pc = "tell"
        /\ told' = [told EXCEPT ![m] = IF h.kind = "incident" THEN "down" ELSE "up"]
        /\ alerts' = [alerts EXCEPT ![m] =
               IF h.kind = "incident" THEN Upto(@ + 1, 2) ELSE @]
        /\ GoTo(m, s, Onward(h))
        /\ UNCHANGED <<site, db, fails, jobs, overrun, upsets>>

MarkDelivered(m, s) ==
    /\ handlers[m][s].pc = "mark"
    /\ pending' = [pending EXCEPT ![m] = @ \ {handlers[m][s].event}]
    /\ GoTo(m, s, "reply")
    /\ UNCHANGED <<site, due, status, muted, openInc, left, fails, jobs, user, overrun, upsets>>

\* The client that still waits gets its answer, and the post is over.
Reply(m, s) ==
    /\ handlers[m][s].pc = "reply"
    /\ handlers' = [handlers EXCEPT ![m][s] = NoHandler]
    /\ IF handlers[m][s].awaited THEN Finish(m) ELSE UNCHANGED jobs
    /\ UNCHANGED <<site, db, fails, user, overrun, upsets>>

----------------------------------------------------------------------------
(* Faults, each an upset that counts against MaxUpsets                      *)

\* UpdateMonitorTick fails and is logged; the event is written all the same.
TickFails(m) ==
    /\ Upset("db")
    /\ jobs[m].pc = "tick"
    /\ AfterTick(m, FALSE)
    /\ UNCHANGED <<site, db, fails, handlers, user, overrun>>

\* WriteEvent fails: the status has changed and the api is never told.
EventFails(m) ==
    /\ Upset("db")
    /\ jobs[m].pc = "event"
    /\ Finish(m)
    /\ UNCHANGED <<site, db, fails, handlers, user, overrun>>

\* The handler ends; a client that still waits for it sees its attempt fail.
Ends(m, s) ==
    /\ handlers' = [handlers EXCEPT ![m][s] = NoHandler]
    /\ IF handlers[m][s].awaited THEN AttemptFails(m) ELSE UNCHANGED jobs

\* Any database call of a handler may throw, those of the alerts included: a 500.
HandlerFails(m, s) ==
    /\ Upset("db")
    /\ handlers[m][s].pc \in {"read", "find", "record", "status", "tell", "mark"}
    /\ Ends(m, s)
    /\ UNCHANGED <<site, db, fails, user, overrun>>

\* A request does not arrive or is refused, by the rate limiter for one; or the
\* circuit is open and none is sent; or the reply is lost.
NetworkError(m) ==
    /\ Upset("network")
    /\ \/ jobs[m].pc = "send" /\ AttemptFails(m) /\ UNCHANGED handlers
       \/ jobs[m].pc = "send" /\ jobs[m].attempt = 1 /\ Finish(m) /\ UNCHANGED handlers
       \/ \E s \in Awaited(m) : handlers[m][s].pc = "reply" /\ Ends(m, s)
    /\ UNCHANGED <<site, db, fails, user, overrun>>

\* The client's five seconds are over before the handler answers.
Timeout(m, s) ==
    /\ Upset("slow")
    /\ handlers[m][s].awaited
    /\ handlers' = [handlers EXCEPT ![m][s].awaited = FALSE]
    /\ AttemptFails(m)
    /\ overrun' = [overrun EXCEPT ![m] = TRUE]
    /\ UNCHANGED <<site, db, fails, user>>

\* send() swallows an error of the Telegram API: the alert is lost.
TelegramError(m, s) ==
    /\ Upset("telegram")
    /\ handlers[m][s].pc = "tell"
    /\ GoTo(m, s, Onward(handlers[m][s]))
    /\ UNCHANGED <<site, db, fails, jobs, user, overrun>>

\* The probe dies and starts again: counts and posts are lost, the handlers of its
\* requests go on.
CrashProbe ==
    /\ Upset("crash")
    /\ fails' = [m \in Monitors |-> 0]
    /\ jobs' = [m \in Monitors |-> NoJob]
    /\ handlers' = [m \in Monitors |-> [s \in Handlers |->
           [handlers[m][s] EXCEPT !.awaited = FALSE]]]
    /\ overrun' = [m \in Monitors |-> overrun[m] \/ Awaited(m) # {}]
    /\ UNCHANGED <<site, db, user>>

\* Mutant of CrashApi: a client whose connection is gone waits on.
CrashApiUnnoticed ==
    /\ Upset("crash")
    /\ handlers' = [m \in Monitors |-> [s \in Handlers |-> NoHandler]]
    /\ UNCHANGED <<site, db, fails, jobs, user, overrun>>

\* The api dies and starts again: every request it was handling fails.
CrashApi ==
    /\ Upset("crash")
    /\ handlers' = [m \in Monitors |-> [s \in Handlers |-> NoHandler]]
    /\ jobs' = [m \in Monitors |->
           CASE Awaited(m) = {}             -> jobs[m]
             [] jobs[m].attempt < Attempts  -> [jobs[m] EXCEPT !.pc = "send", !.attempt = @ + 1]
             [] OTHER                       -> NoJob]
    /\ UNCHANGED <<site, db, fails, user, overrun>>

----------------------------------------------------------------------------
(* Users and the environment                                               *)

\* muteUserMonitors, sent by the owner of the monitors: muted_until becomes later
\* than the time of every event there is.
Mute ==
    /\ Upset("mute")
    /\ muted' = [m \in Monitors |-> TRUE]
    /\ jobs' = [m \in Monitors |-> IF jobs[m].pc \in {"idle", "check"} THEN jobs[m]
                                   ELSE [jobs[m] EXCEPT !.covered = TRUE]]
    /\ handlers' = [m \in Monitors |-> [s \in Handlers |->
           IF handlers[m][s].pc = "read" THEN [handlers[m][s] EXCEPT !.covered = TRUE]
           ELSE handlers[m][s]]]
    /\ UNCHANGED <<site, due, status, openInc, pending, left, fails, user, overrun>>

\* muted_until goes by, for the row and for the copy of it a check has loaded.
Unmute(m) ==
    /\ muted[m]
    /\ muted' = [muted EXCEPT ![m] = FALSE]
    /\ jobs' = [jobs EXCEPT ![m].muted = IF jobs[m].pc = "check" THEN FALSE ELSE @]
    /\ UNCHANGED <<site, due, status, openInc, pending, left, fails, handlers, user,
                   overrun, upsets>>

FlipSite(m) ==
    /\ site' = [site EXCEPT ![m] = IF @ = "up" THEN "down" ELSE "up"]
    /\ UNCHANGED <<db, fails, jobs, handlers, user, overrun, upsets>>

----------------------------------------------------------------------------

ProbeStep(m) == Check(m) \/ UpdateMonitorTick(m) \/ WriteEvent(m) \/ Send(m)

HandlerStep(m, s) ==
    \/ Read(m, s) \/ FindIncident(m, s) \/ Record(m, s) \/ SetStatus(m, s)
    \/ Tell(m, s) \/ MarkDelivered(m, s) \/ Reply(m, s)

Next ==
    \/ StartTick \/ Mute \/ CrashProbe \/ CrashApi
    \/ \E m \in Monitors :
          \/ BecomesDue(m) \/ ProbeStep(m) \/ Unmute(m) \/ FlipSite(m)
          \/ TickFails(m) \/ EventFails(m) \/ NetworkError(m)
    \/ \E m \in Monitors, s \in Handlers :
          HandlerStep(m, s) \/ HandlerFails(m, s) \/ Timeout(m, s) \/ TelegramError(m, s)

\* The clock runs and the probe's ticker fires, goroutines run, and what a handler
\* awaits settles.  Nothing is assumed of sites, users and faults.
Fairness ==
    /\ WF_vars(StartTick)
    /\ \A m \in Monitors : WF_vars(BecomesDue(m)) /\ WF_vars(ProbeStep(m))
    /\ \A m \in Monitors, s \in Handlers : WF_vars(HandlerStep(m, s))

Spec == Init /\ [][Next]_vars /\ Fairness

----------------------------------------------------------------------------
(* Properties                                                              *)

\* Between the probe's write of the status and the handler's of the incident the two
\* differ; once nothing is under way for a monitor they agree again.
StatusMatchesIncidents ==
    \A m \in Monitors : Quiet(m) =>
        /\ openInc[m] # {} <=> status[m] = "down"
        /\ \A i, j \in openInc[m] : i = j

\* Retries, lost replies and restarts never make an outage be announced twice, as
\* long as no handler is left running behind its client's back ("idempotency").
AlertOncePerOutage == \A m \in Monitors : overrun[m] \/ alerts[m] <= 1

\* The status settles on what the site is, if the site settles: late handlers and
\* failed writes do not keep it wrong.
StatusFollowsSite ==
    \A m \in Monitors : \A s \in HeartbeatStatus :
        <>[](site[m] = s) => <>[](status[m] = s)

\* A tick waits for all its posts and their retries, and still they all end.
TickEnds == []<>(\A m \in Monitors : jobs[m].pc = "idle")

\* The owner of a monitor learns of a lasting outage, and of nothing after it.
OutageAnnounced ==
    \A m \in Monitors : <>[](site[m] = "down") => <>[](told[m] = "down")

\* Events of m are pending and no post of them is under way.
Unposted(m) == left[m] \/ \E e \in pending[m] : jobs[m].event # e

\* "event-poller will retry": what a failed post has left pending is delivered.
EventsRetried == \A m \in Monitors : Unposted(m) ~> ~Unposted(m)

\* plan.md: "DOWN -> pass -> UP (incident closed, recovery fired); mute suppresses
\* alerts", not the end of the incident.
RecoveryClosesIncident ==
    \A m \in Monitors : Quiet(m) /\ status[m] = "up" => openInc[m] = {}

----------------------------------------------------------------------------
(* Without faults and mutes the two processes implement Outage             *)

\* The announcement a handler has recorded the reason for and not yet made.
Owes(m, s) ==
    LET h == handlers[m][s]
    IN  CASE h.kind = "incident" /\ h.pc \in {"status", "tell"} /\ ToTell(h) -> "down"
          [] h.kind = "recovery" /\ h.pc = "tell"                          -> "up"
          [] OTHER                                                         -> "nothing"

Owed(m) ==
    IF \E s \in Handlers : Owes(m, s) # "nothing"
    THEN Owes(m, CHOOSE s \in Handlers : Owes(m, s) # "nothing")
    ELSE "nothing"

Promise == INSTANCE Outage WITH
    down <- [m \in Monitors |-> openInc[m] # {}],
    owed <- [m \in Monitors |-> Owed(m)]

\* Every outage recorded once, announced once at each end, and every alert sent.
ImplementsOutage == Promise!Spec
=============================================================================
