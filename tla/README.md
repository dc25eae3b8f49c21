# Verification of pulsegram

pulsegram watches web sites and tells their owners, in Telegram, when a site
goes down and when it is back. This directory is a TLA+ model of it: modules
translated from the source, TLC configurations that check them on small
instances, and theorems about them that TLAPS proves for every instance.
Paths below are relative to the root of the repository.

Run from this directory, with the community modules on the library path:

    tlc -config scheduler_steady.cfg MCScheduler     # any run of the tables below
    tlapm SchedulerProofs.tla                        # any module of proofs

## 1. The system

There are two deployments. In the **monolith** one process does everything. In
the **split deployment** (`docker-compose.yml`) the api runs with the scheduler
off, a Go probe checks the sites and reports to the api, a third process runs
the bot, and all share one Postgres database. A probe's undelivered events stay
in `pending_events`; they are handled when an api runs with its scheduler on,
that is, as a monolith over the same database.

| Part | State | Operations | Talks to |
|---|---|---|---|
| check scheduler, `api/src/scheduler/scheduler.ts` | `ticking`, `failCounts`, `lastCleanupDay` in memory; monitors, heartbeats, incidents in the database | a tick every 10 s: load what is due, check in batches, cleanup, poll | database, alerts, event poller |
| state machine, `state-machine.ts`, `probe/internal/state/machine.go` | none | `decide` | called by both schedulers |
| monitor service, `modules/monitors/monitor.service.ts` | users, monitors | create, remove, mute, list, count, `openIncident`, uptime | called by bot, scheduler, routes, poller |
| alerts, `bot/notifications.ts` | none | `notifyDown`, `notifyRecovery` | Telegram, which may fail |
| probe loop, `probe/cmd/probe/main.go` | `failCounts` in memory, one goroutine for each due monitor | tick with a barrier at its end; check, write, report | store, callback client |
| probe store, `probe/internal/store/db.go` | the shared tables and `pending_events` | load due, write heartbeat, update, write event | database |
| callback client, `probe/internal/callback/client.go` | circuit breaker under a mutex | `post` with retries; `allow`, `recordSuccess`, `recordFailure` | internal routes, over HTTP |
| internal routes, `api/src/routes/internal.ts` | none of their own; one handler for each request | incident, recovery, `markDelivered` | database, alerts |
| event poller, `scheduler/event-poller.ts` | `pending_events` | handle up to 50 pending events | called by the scheduler's tick only |
| check of a target, `lib/http-check.ts`, `probe/internal/probe/check.go` | none | follow redirects by hand, judge the last reply | the address guard, the site |
| bot commands and rate limit, `bot/commands/*`, `bot/bot.ts` | a token bucket for each chat | /add, /remove, /mute, /list, /status | monitor service |
| configuration, plugins, migrations, texts, schemas | files, environment | start of a process, formatting, validation | |

What makes each correct, and what makes that hard:

* **Scheduler**: ticks do not overlap and always end; an outage opens one
  incident, is announced once at each end, and only after `retries` failures in
  a row; status and incidents agree. *Hard*: every await of `processMonitor` is
  a point where bot commands, other checks or a crash come in, the row it
  decides on was loaded earlier, and an exception in one check abandons the
  rest of its batch while it runs.
* **Probe and api**: the same promise, kept by two processes: the one writes the
  status, the other the incidents and the alerts. *Hard*: between the two lie
  retries, lost replies, handlers that run on after their client has given up,
  and crashes of either side.
* **Circuit breaker**: it opens after five failed posts, and only then, and it
  never keeps a healthy api cut off. *Hard*: a post sends and waits outside the
  lock, so it reports into a circuit that has changed since.
* **Check**: the two implementations give the same verdict, the documented one.
* **Bot**: nobody gets more monitors than the plan allows, and a chat gets
  answers at a bounded rate, but is never shut out. *Hard*: look-up, count and
  insert are awaits of their own, a command may fail after it took effect and be
  sent again, and the rate limiter is refilled lazily, by fractions of a token.
* **Event poller**: every event a probe has left behind is handled, and what it
  stands for is recorded and announced once. *Hard*: events come in no order, a
  failed one comes again after later ones, a crash may fall between any two of
  its writes, and commands change or delete the monitor meanwhile.

`PROJECT.json` lists the hazards one by one, with their lines.

## 2. Modules

| Module | Models | Composition |
|---|---|---|
| `CheckDecision` | `decide` and the probe's `monitorStatusAfter` | used by both schedulers |
| `Outage` | nothing in the code: what a monitor promises its owner | implemented by `Scheduler` and by `ProbeApi` |
| `Scheduler` | the monolith: ticks and checks, the bot's effects on monitors, the database, alerts | EXTENDS `CheckDecision`, refines `Outage` |
| `ProbeApi` | the split deployment: probe loop, store, posts, handlers of the internal routes | EXTENDS `CheckDecision`, refines `Outage` |
| `CircuitBreaker` | the callback client in itself | stands alone; `ProbeApi` keeps of it the attempts of a post, and an open circuit as one way a post can fail |
| `HttpCheck` | the two loops of a check | stands alone; elsewhere a check is one step whose result is what the site is |
| `Tables` | the rows the bot and the poller share, and their cascade | EXTENDS `CheckDecision` |
| `BotCommands` | /add, /remove, /mute await by await, `guard`, the token bucket | EXTENDS `Tables` |
| `EventPoller` | `pollPendingEvents`, `processEvent`, and the awaits of a check that meet them | EXTENDS `Tables` |
| `ApiProcess` | bot and poller in one process, and its faults | EXTENDS `BotCommands`, `EventPoller` |
| `MC...` | model values for TLC | |
| `SchedulerProofs`, `SchedulerAlertProofs`, `SchedulerMuteProofs` | theorems about `Scheduler` | each EXTENDS its module |
| `ProbeApiProofs`, `CircuitBreakerProofs`, `HttpCheckProofs` | theorems about `ProbeApi`, `CircuitBreaker`, `HttpCheck` | |
| `ApiProcessProofs`, `EventPollerProofs` | theorems about `ApiProcess`: the bot; the poller and its backlog | |

### Scheduler and the code

`StartTick` is `tick()` up to the return of `loadDueMonitors`: the rows' status
and mute are copied into `jobs`, as the code copies them into objects, and
decisions are made on the copies. `StartBatch` and `EndTick` are the loop over
`Promise.all`; a call is `awaited` while that `Promise.all` is pending. Then one
action for each await of `processMonitor`:

    Check          checkUrl answers, `at` and `muted` are fixed
    Beat           the heartbeat is inserted
    Count          the call resumes: failCounts and decide()
    FindIncident   openIncident()                        (recovered)
    CloseIncident  the incident's UPDATE                 (recovered)
    TellUp         notifyRecovery()                      (recovered)
    OpenIncident   the incident's INSERT                 (went-down)
    Update         the UPDATE of the monitor that ends every branch
    TellDown       notifyDown()                          (went-down)

`Beat` and `Count` are apart because calls that overlap write over several
connections of the pool (`db/index.ts:29`) and need not resume in the order of
their commits. `Rejected` is a foreign key that fails because the monitor is
gone, `DbError` any other database error. A write whose reply is lost is the
write and then a `DbError` where the call would have resumed; for the last
UPDATE, after which a call may have nothing left to do, that is `UpdateLost`.
`TelegramError` is the error that `send()` swallows, and `Throw` what an
exception does to the tick: `Promise.all` rejects, the queue is dropped,
`finally` frees the latch, and the batch's other calls run on. `Crash` loses the
memory and keeps the database. `Add`, `Remove` and `Mute` are the bot commands'
effects. Time is in seconds, relative (`age`, `muteLeft`, `since`), and moves
with `Elapse`. `streak`, `alerts`, `told`, `late` and `missed` are history:
nothing the code does depends on them, properties do. `missed` marks a monitor
whose success is on record while the counter still holds the failures before it,
the reply to that INSERT having been lost. The two calls at the end of a tick
are elsewhere or left out: the poll is in `ApiProcess`; `maybeCleanup` deletes
heartbeats past the retention window, which no decision reads.

### ProbeApi and the code

`jobs[m]` is the goroutine of a monitor: `Check`, `UpdateMonitorTick`,
`WriteEvent`, `Send`; `StartTick` needs all of them idle, which is `wg.Wait`.
`handlers[m]` are the handlers of its requests: `Read`, `FindIncident`,
`Record`, `SetStatus`, `Tell`, `MarkDelivered`, `Reply`, in the order the code
has for each kind (`Onward`): the incident route writes the status before it
tells, the recovery route after. A client that times out (`Timeout`) leaves its
handler running, and so does a crash of the probe; a crash of the api ends the
handlers and fails their requests.

There is no clock here. The handlers compare two pairs of times, and the model
keeps the outcome of each comparison as a flag of the event: `behind`
(`lastCheckAt > checked_at`) and `covered` (`mutedUntil > checked_at`). Every
action that writes one of these times updates the flags of the events whose
handlers have not read the row yet; a handler that has read it works with what
it read. Ids of events follow the order of the checks, so that a handler that
writes its own time into the row knows which events that is later than.

Left out: removals (the scheduler's model has them), the limit on concurrent
goroutines (it only delays them), heartbeats (nothing here reads them), the
event poller (not running in this deployment, see below). All monitors belong
to one owner.

### ApiProcess and the code

`hand` is the one command in hand: grammY's long polling hands updates to the
handlers one after another, and those sent while the bot was down are dropped
(`drop_pending_updates`), so commands never overlap. `Take` is `guard` with
`allowCommand`; each await of a handler is an action (`Resolve`, `FindUser`,
`Dedupe`, `Count`, `Create`, `Look`, `Delete`, `MuteAll`, `Reply`).
`CommandFails` and `ReplyFails` are a call of a handler that throws and a reply
that does: the user gets the same apology, whether or not the command took
effect. /list and /status are `FindUser` and a reply; /start, /help, /upgrade
and arguments that do not parse change nothing but the bucket and are left out.
The bucket counts time in units of which a token takes `Cost` to come back (the
code: one second a token, capacity 10), so fractions of a token exist.

`event` is the one event `processEvent` works on, `batch` those of the poll
still to come: `Poll` is the SELECT (any `Batch` of the pending events, there
being no ORDER BY), `Read` the row and the two comparisons of times made on it,
`FindIncident`, `Record`, `Tell`, `SetStatus` the awaits in the code's order,
`Mark` the update to "delivered". `EventFails` is a call that throws: the event
stays pending, the loop goes on.

The backlog (`TablesInit`) is any a probe can leave. `Kind` gives the types of a
monitor's events, in any sequence, since a status or an event may have failed to be
written (`main.go:173`, `185`) and the next check then decides the same again.
`LastHandled` is the last event the api has handled: those after it are pending, any
before it may be. The row (`RowLeft`) has the status of one of the events, or of an
earlier check, or a later status with no event at all; up to `MaxOpen` incidents are
open, two being what handlers that outlive their clients, or a check that was cut
off, leave behind.

`checks[id]` is a check of the monitor, of which `Scheduler` has the rest in detail:
only the awaits that read or write what the poll does are steps here.
`CheckBegins` is all up to `decide`, `CheckOpens`, `CheckFinds`, `CheckCloses` and
`CheckWrites` are the awaits of the branches, `CheckFails` is a call that throws, at
any of them. Checks begin between polls, as in a tick; but one that an exception in
another monitor's check has left running goes on beside the next tick's poll, and
so may any of these, one for each monitor. Both may find the same incident to close,
which the flags `raced` keep. `Enabled` is `SCHEDULER_ENABLED` (`index.ts:30`): a
process without a scheduler neither checks nor polls.

`newest`, `overtaken`, `torn`, `crowded`, `told`, `repeated`, `late` and `busiest`
are history variables. Three of them mark the monitors for which the code promises
less, and the properties except these and no others:

* `overtaken`: an event was handled after a later one of the same monitor, or was
  still pending when a check changed the status, or found otherwise than the last
  event. The code leaves an incident open beside status "up" or announces twice.
* `torn`: status and incidents did not fit at the start, with no event left that
  would make them, or a check was cut off between its incident and its status.
* `crowded`: more than one incident was open at the start. A recovery that is
  repeated then closes, and announces, the end of both.

`busiest` is the most that the commands answered in any window up to now cost beyond
its length and a full bucket for each restart in it, for the buckets are in memory
and a restart fills them; the property is that it never exceeds the one bucket the
window began with.

No new event is written, the probe being gone. Self-hosting lifts the plan's
limit, which is a `Limit` above the number of monitors.

### CircuitBreaker and HttpCheck

`CircuitBreaker` has one action for each critical section (`Start` is `allow`,
`RecordSuccess`, `RecordFailure`) and for the sends and delays between them.
`HttpCheck` writes both loops as functions of what each address of a small web
answers (`TsVisit`, `GoVisit`: what the loop answers from an address with so many
redirects followed); `Answer` changes the web, so TLC visits every one. Status lines
are the same for both loops, but each has its own guard, client and URL parser: an
address may be `shut` to one loop and open to the other, and a redirect leads each
loop `to` an address of its own. A Location that a loop cannot parse (`/50%` for
Go's `url.Parse`) is one that leads it to an address shut to it; an empty one leads
the TypeScript loop back to the same address and is none to the Go loop.

## 3. Runs

| Run | Instance | Shows |
|---|---|---|
| `scheduler_steady` | 2 monitors in batches of 1, 2 retries, mutes, no fault | `StatusMatchesIncidents`, `OutageAnnounced`, `ImplementsOutage` |
| `scheduler_faults` | 1 monitor, 3 retries, mutes, removal, any 2 of crash, database error, lost message | `AlertOncePerOutage`, `RemovedLeavesNothing`, `LateOnlyOfRunningCalls`, `ThresholdRespected`, `StatusFollowsSite`, `TickEnds` |
| `scheduler_never_overlap` | 2 monitors in one batch, removals, 2 checks of a monitor at once | **violated**: "never overlap ticks" |
| `probe_steady` | 2 monitors, 2 retries, 2 attempts, no fault | `StatusMatchesIncidents`, `OutageAnnounced`, `ImplementsOutage` |
| `probe_faults` | 1 monitor, 2 handlers, any 2 of crash of either process, database error, lost request or reply, client timeout, lost message, mute | `AlertOncePerOutage`, `StatusFollowsSite`, `TickEnds` |
| `probe_retry` | 1 monitor, 2 lost requests | **violated**: "event-poller will retry" |
| `probe_muted` | 1 monitor, a mute | **violated**: "incident closed" by a recovery |
| `circuit` | 3 goroutines, threshold 3, 2 attempts | `ClosedBelowThreshold`, `HalfOpenResolves`, `SettlesClosed` |
| `circuit_half_open` | 3 goroutines, the code's parameters | **violated**: half-open lets one request through |
| `api_commands` | 2 chats, 2 URLs, limit 1, a bucket of 1 token of 2 units, any 2 of crash, database and Telegram error; no scheduler | `WithinLimit`, `AnsweredWithinRate`, `RefusedOnlyAtRate`, `NotStarved` |
| `api_backlog` | 1 chat, a monitor with an outage and its end as its backlog, up to 2 open incidents, polls of 1, checks, /remove, /mute, any 1 fault | `StatusMatchesIncidents`, `AnnouncedOnce`, `AtMostOneLate`, `EventsHandled` |
| `http_check` | every web of 3 addresses, 1 redirect, each address shut to neither, either or both loops | `UpIsFinal2xxOr3xx`, `SameVerdict` |

`steady` runs have no faults because what they check is not true with them, and
the code does not say it is: a crash between the insert of an incident and the
write of the status opens a second incident, and a lost alert is lost.

**Bounds.** Two monitors are enough for what monitors do to each other: share a
batch or a tick, wait for it, be dropped with it. `Lanes` (2) and `Handlers` (2)
let two checks (in `scheduler_never_overlap`), or two handlers, of one monitor
race. Two faults give a fault in the recovery from a fault. Incident and event ids
are used again once nothing holds them, so the outages of a behaviour are not
bounded; a job that never found a free id would never end, against `TickEnds`,
`StatusFollowsSite` and `OutageAnnounced`. `age`, `streak`, `fails` and `alerts`
saturate where the code, or the property, stops telling values apart. In
`api_backlog` two events are the least that can come in the wrong order, and a
poll of one leaves the other to the next poll; which of them is handled, what the
row says and how many incidents are open at the start is open, so there are
statuses without an event among the initial states. Longer backlogs, and those
whose events do not alternate, are left to the theorems. One fault suffices for
the repetition of an event, and for a check cut off half-way. In `api_commands` a
limit of one and two URLs give the command that is one too many, and a token of
two units has a half. In `http_check` three addresses and one redirect give chains
that end at the cap and one past it, circles, and redirects that part the loops.
The theorems below have none of these bounds. The interval is 1 s or 0 s against a
clock that may move at any step, so a check may take longer than the interval and
a mute may end inside a check.

**Fairness.** The clock moves, the timer of the tick fires, and every await
settles: requests have timeouts, the database and Telegram answer or fail. This
is weak fairness of each of those actions; in `ApiProcess` it includes that ticks
come that get as far as their poll, which a tick with a check that throws does
not; nothing is assumed of the checks. No fairness is assumed of users,
sites, faults, of the posts' success, or of goroutines beginning a post.

**Deadlock** is checked in every run.

### Where code and documents differ

The four violated properties are statements of the repository:

1. `scheduler.ts:34`, "never overlap ticks". An exception in one check ends the
   tick while its batch still runs; the next tick loads the same monitors.
2. `client.go:18`, half-open means "test with one request". `allow()` lets every
   goroutine through until the first result is recorded.
3. `main.go:192`, "event-poller will retry". The poller is called by the
   scheduler's tick only, and `docker-compose.yml:15` turns the scheduler off. An
   event whose post failed stays pending, and as the probe has already written
   the new status, the outage is never reported again.
4. `plan.md:166`, a recovery closes the incident, a mute suppresses alerts. The
   probe does not post the event of a muted recovery, so the incident stays open,
   and the next outage finds it and is not announced.

`http_check` records a fifth difference, between the two implementations: a
final 3xx without a Location is up for the monolith ("2xx or 3xx",
`http-check.ts:22`) and down for the probe (`check.go:66`). A sixth it can only
allow for: where the two guards or parsers disagree on an address, the verdicts may,
too. Which addresses those are is a matter of parsing (`/50%` in a Location is one).

## 4. Proofs

All theorems hold for every value of the constants that the modules' ASSUMEs
admit: any number of monitors, lanes, retries, any interval, faults and commands.

* `SchedulerProofs!TypeCorrect`. `TypeOK` is inductive as it stands.
* `SchedulerProofs!RemovedMonitorsLeaveNothing` and `IncidentsNeedRetries`. The
  second is an action property of the heartbeats on record, while the code
  decides by a counter in memory. It assumes `Apart`, that no two calls of
  `processMonitor` for one monitor run at once: without it the heartbeats of a
  failure and a success may be committed in one order and their calls resume in the
  other, and the counter is ahead of the record. The invariant is
  `NeverAhead`: for a monitor that is not removed, the counter, with the result a
  call at `count` has yet to add, is at most the trailing run of failures on
  record, unless the monitor is `missed`. It survives crashes (the counter goes to
  0) and errors before and after each write. `IncidentsNeedRetriesIfSerial`, in
  `SchedulerAlertProofs`, replaces `Apart` by assumptions on the constants alone.
* `SchedulerAlertProofs`: what holds of a monitor whose checks do not overlap
  (`Apart`).
  - `TicksNeverOverlap`: the latch of `tick()` achieves that if nothing can throw
    (`NoThrow`: no database error, no removal), or if there is one monitor, whose
    call leaves no other of its batch behind (`Serial`). The invariant is
    `Sequential`: a call runs only while its tick waits for it. Beyond `Serial` the
    run `scheduler_never_overlap` shows the opposite.
  - `OneAlertPerOutage` and `OneAlertIfSerial`: from `Apart` alone, with every
    fault and command. `Consistent` says what each point of a check knows of the
    row, the status and the alerts so far (`Agrees`): a call about to announce
    finds "down" written and nothing announced, or the row removed; `OneAlert`
    says the same of a monitor at rest.
  - `StatusMatchesIncidentsHolds` and `StatusMatchesIfSerial`: from `Apart` and
    `Whole`, no database error and no crash, because either may cut a call off
    between the incident and the status, after which they disagree until the next
    transition. `OutageInv` adds to the above what each point of a call knows of
    the incidents (`Recorded`), and that at most one is open (`Single`).
  - `StepsImplementOutage`: without faults and removals each step of `Scheduler` is a
    step of `Outage` (`Shown`) or changes nothing it sees (`Hidden`). `Debt` is the
    alert a call still owes, which only the calls of its monitor can change.
* `SchedulerMuteProofs!LateOnlyOfRunningCallsHolds`. `Allowance` counts: alerts
  sent since the mute, and calls still running that did not see it, are together
  no more than the lanes. Each alert uses up a call, and a call that starts under
  the mute sees it; the count is over finite sets, hence `FiniteSetTheorems`.
  Faults, removals and overlapping checks are all allowed.
* `ProbeApiProofs!TypeCorrect` and `AlertOncePerOutageHolds`, for all faults. For
  each monitor, either a handler has outlived its client (`overrun`) or `Once`
  holds: the handler that runs is the only one and its client waits for it
  (`Alone`), so between its look for an open incident and its insert nobody else
  writes one; and `Fits` says what it knows at each await. The alerts sent since
  an incident was last closed are then at most one, and one only if an incident
  is open.
* `ProbeApiProofs!StatusMatchesIncidentsHolds`. The statuses are the probe's and the
  incidents the api's, so each is behind the other in turn: `Synced` says, for each
  point of the probe's job and of the handler's work, which of the two has moved
  (`JobSynced`, `HandlerSynced`, `Ahead`), and that at rest they agree. It
  holds while the run is `Smooth`: no fault and no mute has happened yet, or none
  can but the loss of a Telegram message. After one they may disagree for good:
  see 3 and 4 of the differences in section 3.
* `ProbeApiProofs!StepsImplementOutage`, without faults and mutes, on the same
  invariant and along the lines of the scheduler's.
* `ApiProcessProofs!RateHolds` and `RefusalHolds`, from `BucketExact`: what the
  bucket would hold if refilled now is a full bucket less the excess of the
  busiest window, exactly; so the rate is kept, and a refusal is never early. A
  restart takes a full bucket off the excess and fills the bucket: windows that
  span it are measured on, with the bucket it bought. `LimitHolds`: a command past
  the count has found fewer than `Limit` rows of its chat, and commands come one
  at a time; `OneRowPerUrlHolds` is the same of the look-up by URL (in the run,
  with a limit of one, it says no more than the limit, so it is proved only).
* `EventPollerProofs!TypeCorrect`, and `LateHolds`, from `LateInv`: a monitor its
  owner has silenced is gone or muted beyond all its events, and once one more
  alert has come the event in hand, if it is that monitor's, is not going to alert.
* `EventPollerProofs!BacklogMatches` and `AnnouncedOnceHolds`, for backlogs of any
  length, kind and beginning. For a monitor that was not overtaken, events are
  handled in their order however often they fail and come back, so the newest one
  begun decides. The invariant `InOrder` has three parts. `Waits`: a check that is
  going to change the status does so with nothing pending. `Tells`, unless
  `crowded`: while events are pending at most one incident is open, and an event
  that was told is recorded (`Owing`); the event in hand is the newest, and each of
  its awaits knows whether the incidents are as it would have them (`Working`); one
  that is going to be told was not before (`Telling`, `ToldOnce`). `Fits`, unless
  `torn`: with nothing pending the incidents follow the status (`Settled`); while
  something is, the last event is still to be handled or repeated and the checks
  have agreed with it (`Following`, `Checking`). A check that is cut off half-way
  spoils `Fits` and nothing else (`CutInOrder`), which is why nothing is told twice
  even then.
* `HttpCheckProofs!UpIsFinalHolds` and `SameVerdictHolds`, for every web and any number
  of redirects. The loops are functions recursive over the redirects followed, of
  which a proof knows nothing but the equation: induction over data is out of
  reach. So two solutions of one equation are shown equal by their least
  difference (a set of naturals that is not empty has a least element), and the
  verdict read off the chains of redirects (`Verdict`) is shown to be a solution.
  `SameVerdictHolds` follows from it for the web as each loop sees it: along a chain
  of addresses alike to both (`Alike`) the loops stay together, and where they part
  they do so at an address both have come to (`Parted`).

Only model-checked: everything about liveness (`OutageAnnounced`, `StatusFollowsSite`,
`TickEnds`, `HalfOpenResolves`, `SettlesClosed`, `NotStarved`, `EventsHandled`), which
TLAPS does not do under fairness, and with it the other half of the two
refinements: `ImplementsOutage` adds to the steps proved here that what is owed
is told in the end (`Outage!Liveness`).

## 5. Not modelled

* `maybeCleanup`, heartbeats of the split deployment, the uptime figure: written
  and read by nothing that decides.
* The cadence of the checks (`loadDueMonitors` compares strictly, against a tick of
  ten seconds): `Scheduler` lets the clock move between any two steps and
  `ProbeApi` lets a monitor be due at any time, so no property depends on it.
* Two checks of one monitor beside a poll: `EventPoller` has one at a time.
  `Scheduler` has two, without the poll.
* `ensureAuthSecret` (`config.ts:56`): two processes that start at once may each
  write a secret. `docker-compose.yml` passes the internal secret to api and
  probe, and no code reads the other.
* Removals and several owners in `ProbeApi`; with them the 404 of a removed
  monitor, which the client retries like any other refusal.

Out of reach or out of scope: parsing of addresses and ranges
(`lib/ssrf-guard.ts`, `ssrf.go`), validation schemas and message texts, which are
data and not behaviour; opening and migrating the database, HTTP plugins, static
sites (`dash`, `status`, `landing`), images and CI, which are I/O or
configuration.
