----------------------------- MODULE Scheduler -----------------------------
(***************************************************************************)
(* The monolith: the check scheduler (scheduler.ts) and the bot commands   *)
(* that change the rows it works on, over one database.                    *)
(*                                                                         *)
(* A tick loads the due monitors, checks them batch by batch and runs each *)
(* result through the state machine.  Every await of processMonitor is a   *)
(* step boundary: other jobs, bot commands, time and crashes come between. *)
(* Time is relative and exact: ages and remaining mutes move with Elapse.  *)
(***************************************************************************)
EXTENDS FiniteSets, CheckDecision

CONSTANTS
    Monitors,       \* rows of the monitors table
    Users,
    Owner,          \* monitor -> its user
    Lanes,          \* bound: checks of one monitor that may be in flight at once
    IncidentIds,    \* bound: incidents of a monitor open, or held by a job, at once
    NoIncident,
    Retries,        \* consecutive failures that open an incident
    Interval,       \* seconds between two checks of a monitor
    MuteLens,       \* lengths a /mute may have
    BatchSize,
    Flaky,          \* monitors whose site may go down; the others' stays up
    Commands,       \* which of "mute", "remove" users send
    Faults,         \* which of "crash", "db", "telegram" may happen
    MaxFaults       \* bound: how many of them, in a behaviour

ASSUME OwnerAssumption == Owner \in [Monitors -> Users]
ASSUME FlakyAssumption == Flaky \subseteq Monitors
ASSUME LanesAssumption == IsFiniteSet(Monitors) /\ IsFiniteSet(Lanes)
ASSUME IncidentAssumption == IncidentIds \subseteq Nat /\ NoIncident \notin IncidentIds
ASSUME NumberAssumption ==
    /\ Retries \in Nat \ {0} /\ Interval \in Nat /\ BatchSize \in Nat \ {0}
    /\ MaxFaults \in Nat /\ MuteLens \subseteq Nat

VARIABLES
    site,       \* what a check of the monitor's target would see now (environment)
    row,        \* life of the monitor's row
    status,     \* monitors.status
    age,        \* now - monitors.last_check_at, saturating one past Interval
    muteLeft,   \* monitors.muted_until - now, 0 once past
    openInc,    \* incidents of the monitor with ended_at null
    streak,     \* trailing run of "down" heartbeats on record, saturating at Retries
    ticking,    \* the module variable of the same name
    fails,      \* failCounts, saturating at Retries (Decide only compares it to Retries)
    missed,     \* a success is on record that failCounts was to forget and never heard of
    jobs,       \* the processMonitor calls, and the queue of the running tick
    told,       \* last alert the owner received
    alerts,     \* DOWN alerts sent since the row's status was last written "up"
    late,       \* alerts that came all the same, since a /mute that still lasts
    faults      \* faults so far

db     == <<row, status, age, muteLeft, openInc, streak>>
memory == <<ticking, fails, missed, jobs>>
user   == <<told, alerts, late>>
vars   == <<site, db, memory, user, faults>>

Pc == {"idle", "queued", "check", "beat", "count", "find", "close", "tellUp",
       "open", "update", "tellDown"}

Job == [pc : Pc, prev : MonitorStatus, mute : Nat, muted : BOOLEAN,
        out : HeartbeatStatus, tr : Transition, since : 0..Interval + 1,
        inc : IncidentIds \cup {NoIncident}, awaited : BOOLEAN]

NoJob == [pc |-> "idle", prev |-> "unknown", mute |-> 0, muted |-> FALSE,
          out |-> "up", tr |-> "stay-up", since |-> 0, inc |-> NoIncident,
          awaited |-> FALSE]

TypeOK ==
    /\ site \in [Monitors -> HeartbeatStatus]
    /\ row \in [Monitors -> {"absent", "live", "removed"}]
    /\ status \in [Monitors -> MonitorStatus]
    /\ age \in [Monitors -> 0..Interval + 1]
    /\ muteLeft \in [Monitors -> Nat]
    /\ openInc \in [Monitors -> SUBSET IncidentIds]
    /\ streak \in [Monitors -> 0..Retries]
    /\ ticking \in BOOLEAN
    /\ fails \in [Monitors -> 0..Retries]
    /\ missed \in [Monitors -> BOOLEAN]
    /\ jobs \in [Monitors -> [Lanes -> Job]]
    /\ told \in [Monitors -> {"nothing", "down", "up"}]
    /\ alerts \in [Monitors -> 0..2]
    /\ late \in [Monitors -> Nat]
    /\ faults \in 0..MaxFaults

Init ==
    /\ site \in {f \in [Monitors -> HeartbeatStatus] : \A m \in Monitors \ Flaky : f[m] = "up"}
    /\ row = [m \in Monitors |-> "absent"]
    /\ status = [m \in Monitors |-> "unknown"]
    /\ age = [m \in Monitors |-> Interval + 1]
    /\ muteLeft = [m \in Monitors |-> 0]
    /\ openInc = [m \in Monitors |-> {}]
    /\ streak = [m \in Monitors |-> 0]
    /\ ticking = FALSE
    /\ fails = [m \in Monitors |-> 0]
    /\ missed = [m \in Monitors |-> FALSE]
    /\ jobs = [m \in Monitors |-> [l \in Lanes |-> NoJob]]
    /\ told = [m \in Monitors |-> "nothing"]
    /\ alerts = [m \in Monitors |-> 0]
    /\ late = [m \in Monitors |-> 0]
    /\ faults = 0

----------------------------------------------------------------------------
(* Helpers                                                                 *)

Upto(n, cap) == IF n > cap THEN cap ELSE n

Slots == Monitors \X Lanes

Busy(m, l) == jobs[m][l].pc # "idle"

Queued == {s \in Slots : jobs[s[1]][s[2]].pc = "queued"}

\* Calls the running tick's Promise.all waits for.
Awaited == {s \in Slots : /\ jobs[s[1]][s[2]].awaited
                          /\ jobs[s[1]][s[2]].pc # "queued"}

\* The WHERE clause of loadDueMonitors; no code ever sets is_paused.
Due == {m \in Monitors : row[m] = "live" /\ age[m] > Interval}

GoTo(m, l, pc) == jobs' = [jobs EXCEPT ![m][l].pc = pc]

Finish(m, l) == jobs' = [jobs EXCEPT ![m][l] = NoJob]

\* Mutant of Throw: no finally block, the tick never gets past the failed call.
ThrowNoFinally(m, l) ==
    /\ jobs' = [jobs EXCEPT ![m][l] = [NoJob EXCEPT !.awaited = TRUE]]
    /\ UNCHANGED ticking

\* An exception leaves processMonitor.  If the tick awaits the call, Promise.all
\* rejects: the queued monitors are dropped, the finally block ends the tick and
\* the batch's other calls run on with nobody waiting for them.
Throw(m, l) ==
    IF jobs[m][l].awaited
    THEN /\ ticking' = FALSE
         /\ jobs' = [k \in Monitors |-> [n \in Lanes |->
                IF (k = m /\ n = l) \/ jobs[k][n].pc = "queued"
                THEN NoJob
                ELSE [jobs[k][n] EXCEPT !.awaited = FALSE]]]
    ELSE /\ ticking' = ticking
         /\ Finish(m, l)

----------------------------------------------------------------------------
(* tick()                                                                  *)

\* tick() to the return of loadDueMonitors: each due row is copied into the queue.
\* A tick that finds nothing due changes nothing and is not a step.
StartTick ==
    /\ ~ticking
    /\ Due # {}
    /\ \E lane \in [Due -> Lanes] :
          /\ \A m \in Due : ~Busy(m, lane[m])
          /\ jobs' = [m \in Monitors |-> [l \in Lanes |->
                IF m \in Due /\ l = lane[m]
                THEN [NoJob EXCEPT !.pc = "queued", !.prev = status[m],
                                   !.mute = muteLeft[m], !.awaited = TRUE]
                ELSE jobs[m][l]]]
    /\ ticking' = TRUE
    /\ UNCHANGED <<site, db, fails, missed, user, faults>>

\* The next batch starts when every call of the last one has returned.
StartBatch ==
    /\ ticking
    /\ Awaited = {}
    /\ \E batch \in SUBSET Queued :
          /\ batch # {}
          /\ Cardinality(batch) = Upto(Cardinality(Queued), BatchSize)
          /\ jobs' = [m \in Monitors |-> [l \in Lanes |->
                IF <<m, l>> \in batch THEN [jobs[m][l] EXCEPT !.pc = "check"]
                ELSE jobs[m][l]]]
    /\ UNCHANGED <<site, db, ticking, fails, missed, user, faults>>

EndTick ==
    /\ ticking
    /\ Awaited = {} /\ Queued = {}
    /\ ticking' = FALSE
    /\ UNCHANGED <<site, db, fails, missed, jobs, user, faults>>

----------------------------------------------------------------------------
(* processMonitor(), one action for each await                             *)

\* checkUrl answers; `at` and, with it, `muted` are fixed from the loaded row.
Check(m, l) ==
    /\ jobs[m][l].pc = "check"
    /\ jobs' = [jobs EXCEPT ![m][l].pc = "beat", ![m][l].out = site[m],
                            ![m][l].muted = jobs[m][l].mute > 0, ![m][l].mute = 0]
    /\ UNCHANGED <<site, db, ticking, fails, missed, user, faults>>

\* Mutant of NextPc: a recovery writes the status and forgets the incident.
NextPcNoClose(transition) == IF transition = "went-down" THEN "open" ELSE "update"

NextPc(transition) ==
    CASE transition = "recovered" -> "find"
      [] transition = "went-down" -> "open"
      [] OTHER                    -> "update"

\* Mutant of NextFails: a success does not clear the counter.
NextFailsKept(m, out) == IF out = "down" THEN Upto(fails[m] + 1, Retries) ELSE fails[m]

\* failCounts after a check; a deleted entry counts as 0.
NextFails(m, out) == IF out = "down" THEN Upto(fails[m] + 1, Retries) ELSE 0

\* The heartbeat is inserted.
Beat(m, l) ==
    /\ jobs[m][l].pc = "beat"
    /\ row[m] = "live"
    /\ streak' = [streak EXCEPT ![m] =
                     IF jobs[m][l].out = "down" THEN Upto(streak[m] + 1, Retries) ELSE 0]
    /\ GoTo(m, l, "count")
    /\ UNCHANGED <<site, row, status, age, muteLeft, openInc, ticking, fails, missed, user, faults>>

\* The call resumes: the failure count and the decision, with the status the row had
\* when the tick loaded it.  Two calls that overlap need not resume in the order in which
\* the connections of the pool have committed their heartbeats.
Count(m, l) ==
    LET out == jobs[m][l].out
        tr  == Decide(jobs[m][l].prev, out, NextFails(m, out), Retries)
    IN  /\ jobs[m][l].pc = "count"
        /\ fails' = [fails EXCEPT ![m] = NextFails(m, out)]
        /\ missed' = [missed EXCEPT ![m] = @ /\ out = "down"]
        /\ jobs' = [jobs EXCEPT ![m][l].pc = NextPc(tr), ![m][l].tr = tr]
        /\ UNCHANGED <<site, db, ticking, user, faults>>

\* openIncident(): the open incident with the latest started_at.
FindIncident(m, l) ==
    /\ jobs[m][l].pc = "find"
    /\ \/ /\ openInc[m] = {}
          /\ GoTo(m, l, "update")
       \/ \E i \in openInc[m] :
             /\ \A j \in openInc[m] : j <= i
             /\ jobs' = [jobs EXCEPT ![m][l].pc = "close", ![m][l].inc = i]
    /\ UNCHANGED <<site, db, ticking, fails, missed, user, faults>>

\* Mutant of CloseIncident: a recovery is told, muted or not.
CloseIncidentLoud(m, l) ==
    /\ jobs[m][l].pc = "close"
    /\ openInc' = [openInc EXCEPT ![m] = @ \ {jobs[m][l].inc}]
    /\ jobs' = [jobs EXCEPT ![m][l].pc = "tellUp", ![m][l].inc = NoIncident]
    /\ UNCHANGED <<site, row, status, age, muteLeft, streak, ticking, fails, missed, user, faults>>

CloseIncident(m, l) ==
    /\ jobs[m][l].pc = "close"
    /\ openInc' = [openInc EXCEPT ![m] = @ \ {jobs[m][l].inc}]
    /\ jobs' = [jobs EXCEPT ![m][l].pc = IF jobs[m][l].muted THEN "update" ELSE "tellUp",
                            ![m][l].inc = NoIncident]
    /\ UNCHANGED <<site, row, status, age, muteLeft, streak, ticking, fails, missed, user, faults>>

\* The owner hears of the monitor, muted or not.
Heard(m) ==
    late' = IF muteLeft[m] = 0 THEN late
            ELSE [late EXCEPT ![m] = Upto(@ + 1, Cardinality(Lanes) + 1)]

\* notifyRecovery: the owner is told even if the row is gone by now.
TellUp(m, l) ==
    /\ jobs[m][l].pc = "tellUp"
    /\ told' = [told EXCEPT ![m] = "up"]
    /\ Heard(m)
    /\ GoTo(m, l, "update")
    /\ UNCHANGED <<site, db, ticking, fails, missed, alerts, faults>>

\* An incident's id stands for its place in the order of started_at: a new one comes
\* after the open ones, and an id that no row and no job holds is used again.
FreeIds(m) ==
    {i \in IncidentIds : /\ \A j \in openInc[m] : i > j
                         /\ \A n \in Lanes : jobs[m][n].inc # i}

\* Mutant of OpenIncident: the insert does not need the monitor's row.
OpenIncidentUnchecked(m, l) ==
    /\ jobs[m][l].pc = "open"
    /\ \E i \in FreeIds(m) : openInc' = [openInc EXCEPT ![m] = @ \cup {i}]
    /\ GoTo(m, l, "update")
    /\ UNCHANGED <<site, row, status, age, muteLeft, streak, ticking, fails, missed, user, faults>>

OpenIncident(m, l) ==
    /\ jobs[m][l].pc = "open"
    /\ row[m] = "live"
    /\ \E i \in FreeIds(m) :
          /\ \A j \in FreeIds(m) : i <= j
          /\ openInc' = [openInc EXCEPT ![m] = @ \cup {i}]
    /\ GoTo(m, l, "update")
    /\ UNCHANGED <<site, row, status, age, muteLeft, streak, ticking, fails, missed, user, faults>>

\* Mutant of Written: the name of the transition is written as the status.
WrittenTransition(old, transition) == transition

\* Mutant of Written: the branch of an outage does not write the status.
WrittenUpOnly(old, transition) ==
    IF transition \in {"recovered", "stay-up"} THEN "up" ELSE old

\* What each branch of the switch writes to status; the last two do not write it.
Written(old, transition) ==
    CASE transition \in {"recovered", "stay-up"} -> "up"
      [] transition = "went-down"                -> "down"
      [] OTHER                                   -> old

\* The UPDATE that ends every branch matches no row once the monitor is removed.
WriteStatus(m, l) ==
    LET job  == jobs[m][l]
        live == row[m] = "live"
        new  == IF live THEN Written(status[m], job.tr) ELSE status[m]
    IN  /\ job.pc = "update"
        /\ status' = [status EXCEPT ![m] = new]
        /\ age' = [age EXCEPT ![m] = IF live THEN job.since ELSE @]
        /\ alerts' = [alerts EXCEPT ![m] = IF new = "up" THEN 0 ELSE @]
        /\ UNCHANGED <<site, row, muteLeft, openInc, streak, fails, missed, told, late>>

Update(m, l) ==
    /\ WriteStatus(m, l)
    /\ IF jobs[m][l].tr = "went-down" /\ ~jobs[m][l].muted THEN GoTo(m, l, "tellDown")
       ELSE Finish(m, l)
    /\ UNCHANGED <<ticking, faults>>

TellDown(m, l) ==
    /\ jobs[m][l].pc = "tellDown"
    /\ told' = [told EXCEPT ![m] = "down"]
    /\ alerts' = [alerts EXCEPT ![m] = Upto(@ + 1, 2)]
    /\ Heard(m)
    /\ Finish(m, l)
    /\ UNCHANGED <<site, db, ticking, fails, missed, faults>>

\* Both inserts have a foreign key on the monitor and throw once it is removed.
Rejected(m, l) ==
    /\ jobs[m][l].pc \in {"beat", "open"}
    /\ row[m] # "live"
    /\ Throw(m, l)
    /\ UNCHANGED <<site, db, fails, missed, user, faults>>

----------------------------------------------------------------------------
(* Faults, each counted against MaxFaults                                  *)

Fault(kind) ==
    /\ kind \in Faults
    /\ faults < MaxFaults
    /\ faults' = faults + 1

\* Any database call of processMonitor may throw, those of the alerts included: without
\* effect or, its reply being lost, after the write.  The second is a call that throws
\* where it would have resumed, which for the heartbeat is "count".
DbError(m, l) ==
    /\ Fault("db")
    /\ jobs[m][l].pc \in Pc \ {"idle", "queued", "check"}
    /\ missed' = [missed EXCEPT ![m] =
           @ \/ (jobs[m][l].pc = "count" /\ jobs[m][l].out = "up" /\ fails[m] # 0)]
    /\ Throw(m, l)
    /\ UNCHANGED <<site, db, fails, user>>

\* The last UPDATE is done and throws.
UpdateLost(m, l) ==
    /\ Fault("db")
    /\ WriteStatus(m, l)
    /\ Throw(m, l)

\* send() swallows an error of the Telegram API: the alert is lost, the job goes on.
TelegramError(m, l) ==
    /\ Fault("telegram")
    /\ \/ jobs[m][l].pc = "tellUp" /\ GoTo(m, l, "update")
       \/ jobs[m][l].pc = "tellDown" /\ Finish(m, l)
    /\ UNCHANGED <<site, db, ticking, fails, missed, user>>

\* The process ends (shutdown does not wait for a tick either) and starts again:
\* the database stays, the memory does not.
Crash ==
    /\ Fault("crash")
    /\ ticking' = FALSE
    /\ fails' = [m \in Monitors |-> 0]
    /\ missed' = [m \in Monitors |-> FALSE]
    /\ jobs' = [m \in Monitors |-> [l \in Lanes |-> NoJob]]
    /\ UNCHANGED <<site, db, user>>

----------------------------------------------------------------------------
(* Bot commands, time and the environment                                  *)

\* createMonitor: a row with the defaults of the schema.
Add(m) ==
    /\ row[m] = "absent"
    /\ row' = [row EXCEPT ![m] = "live"]
    /\ UNCHANGED <<site, status, age, muteLeft, openInc, streak, memory, user, faults>>

\* removeMonitorByUrl: heartbeats and incidents go with the row (ON DELETE CASCADE).
Remove(m) ==
    /\ "remove" \in Commands
    /\ row[m] = "live"
    /\ row' = [row EXCEPT ![m] = "removed"]
    /\ openInc' = [openInc EXCEPT ![m] = {}]
    /\ streak' = [streak EXCEPT ![m] = 0]
    /\ UNCHANGED <<site, status, age, muteLeft, memory, user, faults>>

\* muteUserMonitors: all the rows the user has now.
Mute(u, len) ==
    LET of == {m \in Monitors : row[m] = "live" /\ Owner[m] = u}
    IN  /\ "mute" \in Commands
        /\ muteLeft' = [m \in Monitors |-> IF m \in of THEN len ELSE muteLeft[m]]
        /\ late' = [m \in Monitors |-> IF m \in of THEN 0 ELSE late[m]]
        /\ UNCHANGED <<site, row, status, age, openInc, streak, memory, told, alerts, faults>>

Later(n) == Upto(n + 1, Interval + 1)

Sooner(n) == IF n = 0 THEN 0 ELSE n - 1

\* One second passes.  A job's copy of the mute counts until `at` is fixed, the
\* seconds since `at` count from then on.
Elapse ==
    /\ age' = [m \in Monitors |-> IF row[m] = "live" THEN Later(age[m]) ELSE age[m]]
    /\ muteLeft' = [m \in Monitors |-> Sooner(muteLeft[m])]
    /\ late' = [m \in Monitors |-> IF muteLeft'[m] = 0 THEN 0 ELSE late[m]]
    /\ jobs' = [m \in Monitors |-> [l \in Lanes |->
           IF jobs[m][l].pc \in {"idle", "queued", "check", "tellDown"}
           THEN [jobs[m][l] EXCEPT !.mute = Sooner(@)]
           ELSE [jobs[m][l] EXCEPT !.since = Later(@)]]]
    /\ UNCHANGED <<site, row, status, openInc, streak, ticking, fails, missed, told, alerts, faults>>

FlipSite(m) ==
    /\ m \in Flaky
    /\ site' = [site EXCEPT ![m] = IF @ = "up" THEN "down" ELSE "up"]
    /\ UNCHANGED <<db, memory, user, faults>>

----------------------------------------------------------------------------

JobStep(m, l) ==
    \/ Check(m, l) \/ Beat(m, l) \/ Count(m, l)
    \/ FindIncident(m, l) \/ CloseIncident(m, l) \/ TellUp(m, l)
    \/ OpenIncident(m, l) \/ Update(m, l) \/ TellDown(m, l)
    \/ Rejected(m, l)

Tick == StartTick \/ StartBatch \/ EndTick

Next ==
    \/ Tick
    \/ \E m \in Monitors, l \in Lanes :
          JobStep(m, l) \/ DbError(m, l) \/ UpdateLost(m, l) \/ TelegramError(m, l)
    \/ Crash
    \/ \E m \in Monitors : Add(m) \/ Remove(m) \/ FlipSite(m)
    \/ \E u \in Users, len \in MuteLens : Mute(u, len)
    \/ Elapse

\* The clock runs, setInterval keeps calling tick(), and every awaited call
\* settles: checkUrl has a timeout, the database and Telegram answer or throw.
\* Nothing is assumed of users, of sites or of faults.
Fairness ==
    /\ WF_vars(Elapse)
    /\ WF_vars(StartTick) /\ WF_vars(StartBatch) /\ WF_vars(EndTick)
    /\ \A m \in Monitors, l \in Lanes : WF_vars(JobStep(m, l))

Spec == Init /\ [][Next]_vars /\ Fairness

----------------------------------------------------------------------------
(* Properties                                                              *)

\* A call has changed part of what its check found and not yet the rest.
Halfway(m) == \E l \in Lanes : jobs[m][l].pc \in {"find", "close", "tellUp", "open", "update"}

\* The status of a row and its incidents agree whenever no check of the monitor is
\* between the writes: one open incident while "down", none otherwise.
StatusMatchesIncidents ==
    \A m \in Monitors : row[m] = "live" /\ ~Halfway(m) =>
        /\ openInc[m] # {} <=> status[m] = "down"
        /\ \A i, j \in openInc[m] : i = j

\* An outage is announced at most once: no second DOWN alert before the status of
\* the row has been "up" again (scheduler.ts: "re-alert at most once").
AlertOncePerOutage == \A m \in Monitors : alerts[m] <= 1

\* An incident is inserted only when the heartbeats on record end in at least Retries
\* failures: the counter in memory, lost by restarts and kept by calls that throw, never
\* runs ahead of the record, except when a success was recorded whose reply was lost.
ThresholdRespected ==
    [][\A m \in Monitors :
         openInc'[m] \ openInc[m] # {} => streak[m] >= Retries \/ missed[m]]_vars

\* Whatever jobs are still working on a monitor when its owner removes it, no
\* incident of it is left or written afterwards.
RemovedLeavesNothing == \A m \in Monitors : row[m] = "removed" => openInc[m] = {}

\* A /mute is not seen by a check whose row is loaded: its alert still comes.  But no
\* more of them come while the mute lasts than calls can have been under way.
LateOnlyOfRunningCalls == \A m \in Monitors : late[m] <= Cardinality(Lanes)

\* "never overlap ticks": while a tick runs, no call of an earlier tick does.
NeverOverlapTicks ==
    ticking => \A m \in Monitors, l \in Lanes : Busy(m, l) => jobs[m][l].awaited

\* The latch of tick() never sticks: every tick ends, whatever its calls throw.
TickEnds == []<>~ticking

\* The status on record settles on what the site is, if the site settles and the
\* monitor stays.
StatusFollowsSite ==
    \A m \in Monitors : \A s \in HeartbeatStatus :
        <>[](row[m] = "live" /\ site[m] = s) => <>[](status[m] = s)

\* The owner of a monitor that was never muted learns of a lasting outage, and no
\* later message says otherwise.
OutageAnnounced ==
    \A m \in Monitors :
        <>[](row[m] = "live" /\ site[m] = "down") /\ [](muteLeft[m] = 0)
            => <>[](told[m] = "down")

----------------------------------------------------------------------------
(* Without faults and removals the scheduler implements Outage             *)

\* The alert a call that has changed the incidents is still going to send.
Owes(m, l) ==
    LET job == jobs[m][l]
    IN  CASE job.pc = "tellUp" -> "up"
          [] job.pc \in {"update", "tellDown"} /\ job.tr = "went-down" /\ ~job.muted -> "down"
          [] OTHER -> "nothing"

Owed(m) ==
    IF \E l \in Lanes : Owes(m, l) # "nothing"
    THEN Owes(m, CHOOSE l \in Lanes : Owes(m, l) # "nothing")
    ELSE "nothing"

Promise == INSTANCE Outage WITH
    down <- [m \in Monitors |-> openInc[m] # {}],
    owed <- [m \in Monitors |-> Owed(m)]

\* Every outage recorded once, announced once at each end, and every alert sent.
ImplementsOutage == Promise!Spec
============================================================================
