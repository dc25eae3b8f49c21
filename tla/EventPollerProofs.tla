------------------------- MODULE EventPollerProofs -------------------------
(***************************************************************************)
(* What holds of the event poller for every backlog, batch and number of   *)
(* monitors, with commands and checks in between and every fault allowed:  *)
(* type correctness, the end of the alerts after a /mute or /remove, and   *)
(* the agreement of status, incidents and alerts.                          *)
(***************************************************************************)
EXTENDS ApiProcessProofs

----------------------------------------------------------------------------
(* The steps                                                               *)

\* The poller, its tables but for the users, and the alerts stay as they are.
Untouched == UNCHANGED <<rows, status, lastCheck, mutedUntil, openInc, pending, poller>>

\* A crash, as far as the poller and the checks go.
Crashes ==
    /\ event' = NoEvent /\ batch' = {} /\ hand' = NoHand
    /\ checks' = [id \in Ids |-> NoCheck]
    /\ torn' = [id \in Ids |-> torn[id] \/ Halfway(id)]
    /\ UNCHANGED <<tables, newest, overtaken, crowded, told, repeated, late>>

LEMMA PollCases ==
    ASSUME [Next]_vars
    PROVE  \/ \E id \in NewIds : Create(id) /\ Begin(id)
           \/ Delete /\ Silence({hand.row.id})
           \/ MuteAll /\ Silence({r.id : r \in RowsOf(hand.chat)})
           \/ \E id \in Ids : (CheckStep(id) \/ CheckFails(id)) /\ UNCHANGED bot
           \/ (Poll \/ EventStep \/ EventFails \/ TellFails) /\ UNCHANGED bot
           \/ Crashes
           \/ Untouched
<1>1. CASE \E c \in Chats : TakeStep(c)
  BY <1>1 DEF TakeStep, Take, tables, Untouched
<1>2. CASE \E id \in Ids : MonitorStep(id)
  BY <1>2 DEF MonitorStep
<1>3. CASE HandStep
  BY <1>3 DEF HandStep, Resolve, FindUser, Dedupe, Count, Look, Reply, tables, Untouched
<1>4. CASE PollStep
  BY <1>4 DEF PollStep
<1>5. CASE Clock
  BY <1>5 DEF Clock, Elapse, tables, Untouched
<1>6. CASE DbError \/ TelegramError
  BY <1>6 DEF DbError, TelegramError, CommandFails, ReplyFails, tables, Untouched
<1>7. CASE Crash
  BY <1>7 DEF Crash, BotRestarts, Crashes
<1>8. CASE UNCHANGED vars
  BY <1>8 DEF vars, tables, Untouched
<1> QED BY <1>1, <1>2, <1>3, <1>4, <1>5, <1>6, <1>7, <1>8 DEF Next

----------------------------------------------------------------------------
(* The row that /remove has in hand is there                               *)

UniqueIds == \A r, s \in rows : r.id = s.id => r = s

DeletesRow ==
    /\ UniqueIds
    /\ hand.pc = "delete" => hand.row \in rows

LEMMA InitDeletesRow == Init => DeletesRow
BY BacklogAssumption DEF Init, TablesInit, BotInit, NoHand, DeletesRow, UniqueIds

LEMMA NextDeletesRow == DeletesRow /\ HandInv /\ [Next]_vars => DeletesRow'
<1> SUFFICES ASSUME DeletesRow, HandInv, [Next]_vars PROVE DeletesRow'
  OBVIOUS
<1>1. ASSUME rows' = rows, hand'.pc # "delete" PROVE DeletesRow'
  BY <1>1 DEF DeletesRow, UniqueIds
<1>2. ASSUME NEW c \in Chats, NEW cmd \in Command, NEW u \in Argument(cmd), Take(c, cmd, u)
      PROVE  DeletesRow'
  BY <1>1, <1>2, TakeHand DEF Take, tables
<1>3. CASE Resolve \/ FindUser \/ Dedupe \/ Count \/ MuteAll \/ CommandFails
  <2>1. hand'.pc = "delete" => Look
    BY <1>3, HandlerMoves DEF HandInv
  <2>2. ~Look
    BY <1>3 DEF Look, Resolve, FindUser, Dedupe, Count, MuteAll, CommandFails, Says,
       HandInv, HandOK, Hand
  <2> QED BY <1>1, <1>3, <2>1, <2>2
       DEF Resolve, FindUser, Dedupe, Count, MuteAll, CommandFails, tables
<1>4. CASE Look
  <2>1. rows' = rows
    BY <1>4 DEF Look, tables
  <2>2. CASE Says("was not")
    BY <1>1, <2>1, <2>2 DEF Says, HandInv, HandOK, Hand
  <2>3. ASSUME NEW r \in Found, hand' = [hand EXCEPT !.pc = "delete", !.row = r]
        PROVE  DeletesRow'
    BY <2>1, <2>3 DEF Found, DeletesRow, UniqueIds, HandInv, HandOK, Hand
  <2> QED BY <1>4, <2>2, <2>3 DEF Look
<1>5. CASE Delete
  <2>1. rows' \subseteq rows /\ hand'.pc = "reply"
    BY <1>5 DEF Delete, DeleteRow, Says, HandInv, HandOK, Hand
  <2> QED BY <2>1 DEF DeletesRow, UniqueIds
<1>6. ASSUME NEW id \in NewIds, Create(id) PROVE DeletesRow'
  <2>1. hand'.pc = "reply"
    BY <1>6 DEF Create, Says, HandInv, HandOK, Hand
  <2>2. UniqueIds'
    BY <1>6 DEF Create, NewIds, Live, DeletesRow, UniqueIds
  <2> QED BY <2>1, <2>2 DEF DeletesRow
<1>7. CASE Reply
  BY <1>1, <1>7 DEF Reply, NoHand, tables
<1>8. CASE ReplyFails
  <2>1. CASE hand' = NoHand
    BY <1>1, <1>8, <2>1 DEF ReplyFails, NoHand, tables
  <2>2. CASE Says("something went wrong")
    BY <1>1, <1>8, <2>2 DEF ReplyFails, Says, HandInv, HandOK, Hand, tables
  <2> QED BY <1>8, <2>1, <2>2 DEF ReplyFails
<1>9. CASE hand' = NoHand /\ UNCHANGED <<users, rows>>
  BY <1>1, <1>9 DEF NoHand
<1>10. CASE UNCHANGED <<hand, users, rows>>
  BY <1>10 DEF DeletesRow, UniqueIds
<1> QED BY <1>2, <1>3, <1>4, <1>5, <1>6, <1>7, <1>8, <1>9, <1>10, HandCases

----------------------------------------------------------------------------
(* Types, and what the event at work and those of the batch are            *)

Types ==
    /\ status \in [Ids -> MonitorStatus]
    /\ lastCheck \in [Ids -> 0..Later]
    /\ mutedUntil \in [Ids -> 0..Later]
    /\ openInc \in [Ids -> 0..MaxOpen]
    /\ pending \in [Ids -> SUBSET (1..Events)]
    /\ batch \subseteq Ids \X (1..Events)
    /\ event \in Work
    /\ checks \in [Ids -> CheckWork]
    /\ newest \in [Ids -> 0..Events]
    /\ overtaken \in [Ids -> BOOLEAN]
    /\ torn \in [Ids -> BOOLEAN]
    /\ crowded \in [Ids -> BOOLEAN]
    /\ told \in [Ids -> SUBSET (1..Events)]
    /\ repeated \in [Ids -> BOOLEAN]
    /\ late \in [Ids -> -1..2]

\* An event that is going to open an incident has found none; at most one check may come
\* in between.
RecordOK ==
    event.pc = "record" /\ Incident(event.id, event.e)
        => openInc[event.id] <= IF checks[event.id].pc = "incident" THEN 0 ELSE 1

CheckOK(c) ==
    /\ c.pc = "incident" => c.tr = "went-down"
    /\ c.pc \in {"find", "close"} => c.tr = "recovered"

WorkOK ==
    /\ event.pc # "idle" => event.id \in Ids /\ event.e \in 1..Events
    /\ RecordOK
    /\ \A id \in Ids : CheckOK(checks[id])

PollTypes == Types /\ WorkOK

LEMMA EventsType == Events \in Nat /\ Later = Events + 1 /\ Events >= 1
BY TablesAssumption DEF Later

LEMMA StatusAtType == \A id, e : StatusAt(id, e) \in MonitorStatus
BY DEF StatusAt, MonitorStatus

LEMMA NoEventOK == NoEvent \in Work /\ NoEvent.pc = "idle"
BY EventsType DEF NoEvent, Work

LEMMA NoCheckOK == NoCheck \in CheckWork /\ NoCheck.pc = "idle"
BY DEF NoCheck, CheckWork, Transition

LEMMA InitPollTypes == Init => PollTypes
<1> SUFFICES ASSUME Init PROVE PollTypes
  OBVIOUS
<1>1. PICK last \in [Ids -> 0..Events] : TablesInit(last) /\ PollerInit(last)
  BY DEF Init
<1> USE <1>1, EventsType
<1>3. /\ lastCheck \in [Ids -> 0..Later] /\ pending \in [Ids -> SUBSET (1..Events)]
      /\ status \in [Ids -> MonitorStatus] /\ openInc \in [Ids -> 0..MaxOpen]
  BY DEF TablesInit
<1>5. mutedUntil \in [Ids -> 0..Later]
  BY MutesAssumption DEF TablesInit
<1>6. checks \in [Ids -> CheckWork] /\ \A id \in Ids : checks[id].pc = "idle"
  BY NoCheckOK DEF PollerInit
<1>7. /\ newest \in [Ids -> 0..Events] /\ overtaken \in [Ids -> BOOLEAN]
      /\ torn \in [Ids -> BOOLEAN] /\ crowded \in [Ids -> BOOLEAN]
  BY DEF PollerInit
<1>8. told \in [Ids -> SUBSET (1..Events)] /\ repeated \in [Ids -> BOOLEAN] /\ late \in [Ids -> -1..2]
  BY DEF PollerInit
<1>9. batch = {} /\ event = NoEvent
  BY DEF PollerInit
<1> QED BY <1>3, <1>5, <1>6, <1>7, <1>8, <1>9, NoEventOK DEF PollTypes, Types, WorkOK, RecordOK, CheckOK

----------------------------------------------------------------------------
(* The steps of a check                                                    *)

\* The checks of other monitors are not concerned, and this one is at c.
CheckAt(id, c) == c \in CheckWork /\ checks' = [checks EXCEPT ![id] = c]

LEMMA BeginsOK ==
    ASSUME PollTypes, NEW id \in Ids, NEW out \in HeartbeatStatus, CheckBegins(id, out)
    PROVE  \E c \in CheckWork :
               /\ CheckAt(id, c) /\ ~c.raced
               /\ c.pc = CASE c.tr = "went-down" -> "incident"
                           [] c.tr = "recovered" -> "find"
                           [] OTHER              -> "status"
               /\ c.tr \in {"recovered", "stay-down"} <=> status[id] = "down"
               /\ overtaken' = [overtaken EXCEPT ![id] =
                      @ \/ (pending[id] # {} /\ (Changes(c.tr) \/ status[id] # StatusAt(id, Events)))]
<1>1. PICK fails \in 1..Retries :
          LET tr == Decide(status[id], out, fails, Retries)
          IN  /\ checks' = [checks EXCEPT ![id] =
                     [pc |-> CASE tr = "went-down" -> "incident"
                               [] tr = "recovered" -> "find"
                               [] OTHER            -> "status",
                      tr |-> tr, raced |-> FALSE]]
              /\ overtaken' = [overtaken EXCEPT ![id] =
                     @ \/ (pending[id] # {} /\ (Changes(tr) \/ status[id] # StatusAt(id, Events)))]
  BY DEF CheckBegins
<1> DEFINE tr == Decide(status[id], out, fails, Retries)
           c == [pc |-> CASE tr = "went-down" -> "incident"
                          [] tr = "recovered" -> "find"
                          [] OTHER            -> "status",
                 tr |-> tr, raced |-> FALSE]
<1>2. /\ tr \in Transition
      /\ tr \in {"recovered", "stay-down"} <=> status[id] = "down"
  BY DEF Decide, Transition
<1>3. /\ checks' = [checks EXCEPT ![id] = c]
      /\ overtaken' = [overtaken EXCEPT ![id] =
             @ \/ (pending[id] # {} /\ (Changes(tr) \/ status[id] # StatusAt(id, Events)))]
  BY <1>1
<1> HIDE DEF tr
<1>4. c \in CheckWork /\ c.tr = tr
  BY <1>2 DEF CheckWork
<1>5. CheckAt(id, c)
  BY <1>3, <1>4 DEF CheckAt
<1> QED BY <1>2, <1>3, <1>4, <1>5

LEMMA GoesOK ==
    ASSUME PollTypes, NEW id \in Ids, NEW pc \in {"incident", "find", "close", "status"},
           CheckGoes(id, pc)
    PROVE  /\ CheckAt(id, [checks[id] EXCEPT !.pc = pc])
           /\ checks'[id].pc = pc /\ checks'[id].tr = checks[id].tr
           /\ checks'[id].raced = checks[id].raced
BY DEF CheckAt, CheckGoes, CheckWork, PollTypes, Types

LEMMA EndsOK ==
    ASSUME PollTypes, NEW id \in Ids, CheckEnds(id)
    PROVE  CheckAt(id, NoCheck) /\ checks'[id].pc = "idle"
BY NoCheckOK DEF CheckAt, CheckEnds, PollTypes, Types

\* A close takes an incident away, or none.
LEMMA ClosesOK ==
    ASSUME PollTypes, NEW id \in Ids, NEW raced \in BOOLEAN, Closes(id, raced)
    PROVE  /\ openInc' \in [Ids -> 0..MaxOpen]
           /\ \A k \in Ids : k # id => openInc'[k] = openInc[k]
           /\ openInc'[id] <= openInc[id]
           /\ ~raced => openInc'[id] = IF openInc[id] = 0 THEN 0 ELSE openInc[id] - 1
<1>1. PICK again \in {FALSE, raced} :
          openInc' = [openInc EXCEPT ![id] = IF again \/ @ = 0 THEN @ ELSE @ - 1]
  BY DEF Closes
<1> DEFINE n == IF again \/ openInc[id] = 0 THEN openInc[id] ELSE openInc[id] - 1
<1>2. openInc' = [openInc EXCEPT ![id] = n]
  BY <1>1
<1>3. openInc[id] \in 0..MaxOpen /\ MaxOpen \in Nat
  BY TablesAssumption DEF PollTypes, Types
<1>4. /\ n \in 0..MaxOpen /\ n <= openInc[id]
      /\ ~raced => n = IF openInc[id] = 0 THEN 0 ELSE openInc[id] - 1
  <2>1. CASE again
    <3>1. raced
      BY <2>1
    <3>2. n = openInc[id]
      BY <2>1
    <3> QED BY <1>3, <3>1, <3>2
  <2>2. CASE ~again
    <3>1. n = IF openInc[id] = 0 THEN openInc[id] ELSE openInc[id] - 1
      BY <2>2
    <3> QED BY <1>3, <3>1
  <2> QED BY <2>1, <2>2
<1> HIDE DEF n
<1> QED BY <1>2, <1>4 DEF PollTypes, Types

\* How a step of a check may go, and what it leaves alone.
LEMMA CheckCases ==
    ASSUME NEW id \in Ids, CheckStep(id) \/ CheckFails(id)
    PROVE  /\ UNCHANGED <<users, rows, mutedUntil, pending, batch, newest, crowded, told, repeated, late>>
           /\ \/ \E out \in HeartbeatStatus : CheckBegins(id, out)
              \/ CheckOpens(id) \/ CheckFinds(id) \/ CheckCloses(id) \/ CheckWrites(id)
              \/ CheckFails(id)
<1>1. ASSUME NEW out \in HeartbeatStatus, CheckBegins(id, out)
      PROVE  UNCHANGED <<users, rows, mutedUntil, pending, batch, newest, crowded, told, repeated, late>>
  BY <1>1 DEF CheckBegins, tables
<1>2. CASE CheckOpens(id) \/ CheckCloses(id)
  BY <1>2 DEF CheckOpens, CheckCloses, history
<1>3. CASE CheckFinds(id)
  BY <1>3 DEF CheckFinds, tables, history
<1>4. CASE CheckWrites(id)
  BY <1>4 DEF CheckWrites
<1>5. CASE CheckFails(id)
  BY <1>5 DEF CheckFails, tables
<1> QED BY <1>1, <1>2, <1>3, <1>4, <1>5 DEF CheckStep

----------------------------------------------------------------------------

\* The event at work moves on.
SameEvent ==
    event'.id = event.id /\ event'.e = event.e /\ event'.behind = event.behind
        /\ event'.muted = event.muted /\ event'.raced = event.raced

LEMMA OnwardOK ==
    ASSUME PollTypes, NEW pc \in {"find", "record", "tell", "status", "mark"}, Onward(pc)
    PROVE  event' \in Work /\ event'.pc = pc /\ SameEvent
BY DEF PollTypes, Types, Work, Onward, SameEvent

LEMMA AfterOK ==
    /\ AfterTell \in {"status", "mark"}
    /\ AfterRecord \in {"tell", "status", "mark"}
    /\ AfterRecord = "tell" => ~event.muted
BY DEF AfterTell, AfterRecord

LEMMA FindOK ==
    ASSUME PollTypes, FindIncident
    PROVE  /\ event' \in Work /\ SameEvent /\ event.pc = "find"
           /\ event'.pc \in {"record", "status", "mark"}
           /\ event'.pc = "record" <=> (Incident(event.id, event.e) <=> (openInc[event.id] = 0))
<1>1. CASE Incident(event.id, event.e) <=> (openInc[event.id] = 0)
  BY <1>1, OnwardOK DEF FindIncident
<1>2. CASE ~(Incident(event.id, event.e) <=> (openInc[event.id] = 0))
  <2> DEFINE pc == IF event.behind THEN "mark" ELSE "status"
  <2>1. pc \in {"status", "mark"} /\ Onward(pc)
    BY <1>2 DEF FindIncident
  <2> HIDE DEF pc
  <2>2. event' \in Work /\ event'.pc = pc /\ SameEvent
    BY <2>1, OnwardOK
  <2> QED BY <1>2, <2>1, <2>2 DEF FindIncident
<1> QED BY <1>1, <1>2

LEMMA NextWorkOK ==
    ASSUME PollTypes, openInc' = openInc, event' \in Work,
           \/ event'.pc = "idle"
           \/ SameEvent /\ event.pc # "idle" /\ (event'.pc = "record" =>
                (Incident(event.id, event.e) => openInc[event.id] = 0)),
           checks' = checks
    PROVE  WorkOK'
<1>1. RecordOK'
  <2>1. ASSUME event'.pc = "record", Incident(event'.id, event'.e) PROVE openInc[event.id] = 0
    BY <2>1 DEF Work, SameEvent
  <2>2. CASE event'.pc = "record"
    BY <2>1, <2>2 DEF RecordOK, SameEvent
  <2> QED BY <2>2 DEF RecordOK
<1>2. event'.pc # "idle" => event'.id \in Ids /\ event'.e \in 1..Events
  BY DEF PollTypes, WorkOK, SameEvent
<1> QED BY <1>1, <1>2 DEF PollTypes, WorkOK

\* The types hold after a check has got to another place if they do of what it wrote.
LEMMA CheckAtTypes ==
    ASSUME PollTypes, NEW id \in Ids, NEW c \in CheckWork, CheckAt(id, c), CheckOK(c), RecordOK',
           event' \in Work, event'.pc = event.pc, event'.id = event.id, event'.e = event.e,
           openInc' \in [Ids -> 0..MaxOpen], status' \in [Ids -> MonitorStatus],
           lastCheck' \in [Ids -> 0..Later],
           overtaken' \in [Ids -> BOOLEAN], torn' \in [Ids -> BOOLEAN],
           UNCHANGED <<mutedUntil, pending, batch, newest, crowded, told, repeated, late>>
    PROVE  PollTypes'
<1>1. checks' \in [Ids -> CheckWork]
  BY DEF CheckAt, PollTypes, Types
<1>2. Types'
  BY <1>1 DEF PollTypes, Types
<1>3. \A k \in Ids : checks'[k] = IF k = id THEN c ELSE checks[k]
  BY DEF CheckAt, PollTypes, Types
<1>4. \A k \in Ids : CheckOK(checks[k])'
  BY <1>3 DEF CheckOK, PollTypes, WorkOK
<1>5. WorkOK'
  BY <1>4 DEF WorkOK, PollTypes
<1> QED BY <1>2, <1>5 DEF PollTypes

LEMMA RecordStays ==
    ASSUME PollTypes, NEW id \in Ids, NEW c \in CheckWork, CheckAt(id, c), c.pc # "incident",
           UNCHANGED <<openInc, event>>
    PROVE  RecordOK'
<1> SUFFICES ASSUME event.pc = "record", Incident(event.id, event.e)
             PROVE  openInc[event.id] <= IF checks'[event.id].pc = "incident" THEN 0 ELSE 1
  BY DEF RecordOK
<1>1. event.id \in Ids /\ openInc[event.id] <= IF checks[event.id].pc = "incident" THEN 0 ELSE 1
  BY DEF PollTypes, WorkOK, RecordOK
<1>2. checks'[event.id] = IF event.id = id THEN c ELSE checks[event.id]
  BY <1>1 DEF CheckAt, PollTypes, Types
<1>3. openInc[event.id] \in Nat
  BY <1>1, TablesAssumption DEF PollTypes, Types
<1> QED BY <1>1, <1>2, <1>3

LEMMA CheckTypes ==
    ASSUME PollTypes, NEW id \in Ids, CheckStep(id) \/ CheckFails(id)
    PROVE  PollTypes'
<1> USE EventsType
<1>0. /\ UNCHANGED <<mutedUntil, pending, batch, newest, crowded, told, repeated, late>>
      /\ CheckOK(checks[id])
      /\ event \in Work /\ openInc \in [Ids -> 0..MaxOpen] /\ overtaken \in [Ids -> BOOLEAN]
      /\ status \in [Ids -> MonitorStatus] /\ lastCheck \in [Ids -> 0..Later]
      /\ torn \in [Ids -> BOOLEAN] /\ MaxOpen \in Nat
  BY CheckCases, TablesAssumption DEF PollTypes, Types, WorkOK
<1>1. ASSUME NEW out \in HeartbeatStatus, CheckBegins(id, out) PROVE PollTypes'
  <2>1. PICK c \in CheckWork :
            /\ CheckAt(id, c)
            /\ c.pc = CASE c.tr = "went-down" -> "incident"
                        [] c.tr = "recovered" -> "find"
                        [] OTHER              -> "status"
            /\ overtaken' = [overtaken EXCEPT ![id] =
                   @ \/ (pending[id] # {} /\ (Changes(c.tr) \/ status[id] # StatusAt(id, Events)))]
    BY <1>1, BeginsOK
  <2>2. overtaken' \in [Ids -> BOOLEAN]
    BY <1>0, <2>1
  <2>3. event.pc = "idle" /\ UNCHANGED <<event, openInc, status, lastCheck, torn>>
    BY <1>1 DEF CheckBegins, Polling, tables
  <2>4. CheckOK(c) /\ RecordOK'
    BY <2>1, <2>3 DEF CheckOK, RecordOK
  <2> QED BY <1>0, <2>1, <2>2, <2>3, <2>4, CheckAtTypes
<1>2. CASE CheckOpens(id)
  <2>1. UNCHANGED <<status, lastCheck, event, overtaken, torn>> /\ checks[id].pc = "incident"
    BY <1>2 DEF CheckOpens, history
  <2>2. CASE Live(id)
    <3>1. openInc' = [openInc EXCEPT ![id] = @ + 1] /\ openInc[id] < MaxOpen /\ CheckGoes(id, "status")
      BY <1>2, <2>2 DEF CheckOpens
    <3>2. openInc' \in [Ids -> 0..MaxOpen]
      BY <1>0, <3>1
    <3> DEFINE c == [checks[id] EXCEPT !.pc = "status"]
    <3>3. CheckAt(id, c) /\ c \in CheckWork /\ CheckOK(c) /\ checks'[id].pc = "status"
      BY <3>1, GoesOK DEF CheckAt, CheckWork, CheckOK
    <3> HIDE DEF c
    <3>4. RecordOK'
      <4> SUFFICES ASSUME event.pc = "record", Incident(event.id, event.e)
                   PROVE  openInc'[event.id] <= IF checks'[event.id].pc = "incident" THEN 0 ELSE 1
        BY <2>1 DEF RecordOK
      <4>1. event.id \in Ids /\ openInc[event.id] <= IF checks[event.id].pc = "incident" THEN 0 ELSE 1
        BY DEF PollTypes, WorkOK, RecordOK
      <4>2. CASE event.id = id
        BY <1>0, <2>1, <3>1, <3>3, <4>1, <4>2
      <4>3. CASE event.id # id
        <5>1. checks'[event.id] = checks[event.id] /\ openInc'[event.id] = openInc[event.id]
          BY <1>0, <3>1, <3>3, <4>1, <4>3 DEF CheckAt, PollTypes, Types
        <5> QED BY <4>1, <5>1
      <4> QED BY <4>2, <4>3
    <3> QED BY <1>0, <2>1, <3>2, <3>3, <3>4, CheckAtTypes
  <2>3. CASE ~Live(id)
    <3>1. openInc' = openInc /\ CheckAt(id, NoCheck) /\ CheckOK(NoCheck)
      BY <1>2, <2>3, EndsOK, NoCheckOK DEF CheckOpens, CheckOK
    <3>2. RecordOK'
      BY <2>1, <3>1, NoCheckOK, RecordStays
    <3> QED BY <1>0, <2>1, <3>1, <3>2, NoCheckOK, CheckAtTypes
  <2> QED BY <2>2, <2>3
<1>3. CASE CheckFinds(id)
  <2>1. UNCHANGED <<status, lastCheck, openInc, event, overtaken, torn>> /\ checks[id].pc = "find"
    BY <1>3 DEF CheckFinds, tables, history
  <2>2. PICK pc \in {"status", "close"} : CheckGoes(id, pc)
    BY <1>3 DEF CheckFinds
  <2> DEFINE c == [checks[id] EXCEPT !.pc = pc]
  <2>3. CheckAt(id, c) /\ c \in CheckWork /\ c.pc # "incident" /\ CheckOK(c)
    BY <1>0, <2>1, <2>2, GoesOK DEF CheckAt, CheckOK, CheckWork
  <2> HIDE DEF c
  <2>4. RecordOK'
    BY <2>1, <2>3, RecordStays
  <2> QED BY <1>0, <2>1, <2>3, <2>4, CheckAtTypes
<1>4. CASE CheckCloses(id)
  <2>1. UNCHANGED <<status, lastCheck, overtaken, torn>> /\ Closes(id, checks[id].raced)
        /\ CheckGoes(id, "status")
    BY <1>4 DEF CheckCloses, history
  <2>2. checks[id].raced \in BOOLEAN
    BY DEF PollTypes, Types, CheckWork
  <2>3. /\ openInc' \in [Ids -> 0..MaxOpen] /\ openInc'[id] <= openInc[id]
        /\ \A k \in Ids : k # id => openInc'[k] = openInc[k]
    BY <2>1, <2>2, ClosesOK
  <2> DEFINE c == [checks[id] EXCEPT !.pc = "status"]
  <2>4. CheckAt(id, c) /\ c \in CheckWork /\ CheckOK(c) /\ checks'[id].pc = "status"
    BY <2>1, GoesOK DEF CheckAt, CheckWork, CheckOK
  <2> HIDE DEF c
  <2>5. event' \in Work /\ event'.pc = event.pc /\ event'.id = event.id /\ event'.e = event.e
    BY <1>0, <1>4 DEF CheckCloses, Work
  <2>6. RecordOK'
    <3> SUFFICES ASSUME event.pc = "record", Incident(event.id, event.e)
                 PROVE  openInc'[event.id] <= IF checks'[event.id].pc = "incident" THEN 0 ELSE 1
      BY <2>5 DEF RecordOK
    <3>1. event.id \in Ids /\ openInc[event.id] <= IF checks[event.id].pc = "incident" THEN 0 ELSE 1
      BY DEF PollTypes, WorkOK, RecordOK
    <3>2. CASE event.id = id
      <4>1. openInc[id] <= 1 /\ openInc[id] \in Nat /\ openInc'[id] \in Nat
        BY <1>0, <2>3, <3>1, <3>2
      <4> QED BY <2>3, <2>4, <3>2, <4>1
    <3>3. CASE event.id # id
      <4>1. checks'[event.id] = checks[event.id] /\ openInc'[event.id] = openInc[event.id]
        BY <2>3, <2>4, <3>1, <3>3 DEF CheckAt, PollTypes, Types
      <4> QED BY <3>1, <4>1
    <3> QED BY <3>2, <3>3
  <2> QED BY <1>0, <2>1, <2>3, <2>4, <2>5, <2>6, CheckAtTypes
<1>5. CASE CheckWrites(id)
  <2>1. UNCHANGED <<openInc, event, torn>> /\ CheckAt(id, NoCheck) /\ CheckOK(NoCheck)
    BY <1>5, EndsOK, NoCheckOK DEF CheckWrites, CheckOK
  <2>2. status' \in [Ids -> MonitorStatus] /\ lastCheck' \in [Ids -> 0..Later]
    BY <1>0, <1>5 DEF CheckWrites, MonitorStatus
  <2>3. overtaken' \in [Ids -> BOOLEAN]
    BY <1>0, <1>5 DEF CheckWrites
  <2>4. RecordOK'
    BY <2>1, NoCheckOK, RecordStays
  <2> QED BY <1>0, <2>1, <2>2, <2>3, <2>4, NoCheckOK, CheckAtTypes
<1>6. CASE CheckFails(id)
  <2>1. UNCHANGED <<status, lastCheck, openInc, event, overtaken>> /\ CheckAt(id, NoCheck)
        /\ CheckOK(NoCheck)
    BY <1>6, EndsOK, NoCheckOK DEF CheckFails, tables, CheckOK
  <2>2. torn' \in [Ids -> BOOLEAN]
    BY <1>0, <1>6 DEF CheckFails, Halfway
  <2>3. RecordOK'
    BY <2>1, NoCheckOK, RecordStays
  <2> QED BY <1>0, <2>1, <2>2, <2>3, NoCheckOK, CheckAtTypes
<1> QED BY <1>1, <1>2, <1>3, <1>4, <1>5, <1>6, CheckCases

LEMMA NextPollTypes == PollTypes /\ HandInv /\ DeletesRow /\ [Next]_vars => PollTypes'
<1> SUFFICES ASSUME PollTypes, HandInv, DeletesRow, [Next]_vars PROVE PollTypes'
  OBVIOUS
<1> USE EventsType DEF PollTypes
<1>1. ASSUME NEW id \in NewIds, Create(id), Begin(id) PROVE PollTypes'
  <2>1. Types'
    BY <1>1 DEF Create, Begin, NewIds, Types
  <2>2. WorkOK'
    BY <1>1 DEF Create, Begin, WorkOK, RecordOK, CheckOK
  <2> QED BY <2>1, <2>2
<1>2. CASE Delete /\ Silence({hand.row.id})
  <2>0. hand.row.id \in Ids
    BY <1>2 DEF Delete, DeletesRow, HandInv, Row
  <2>1. openInc' \in [Ids -> 0..MaxOpen] /\ \A id \in Ids : openInc'[id] \in {openInc[id], 0}
    BY <1>2, <2>0, TablesAssumption DEF Delete, DeleteRow, Types
  <2>2. status' \in [Ids -> MonitorStatus]
    BY <1>2, <2>0 DEF Delete, DeleteRow, Types, MonitorStatus
  <2>3. lastCheck' \in [Ids -> 0..Later] /\ mutedUntil' \in [Ids -> 0..Later]
    BY <1>2, <2>0 DEF Delete, DeleteRow, Types
  <2>4. pending' \in [Ids -> SUBSET (1..Events)] /\ late' \in [Ids -> -1..2]
    BY <1>2, <2>0 DEF Delete, DeleteRow, Silence, Types
  <2>5. Types'
    BY <1>2, <2>1, <2>2, <2>3, <2>4 DEF Silence, Types
  <2>6. WorkOK'
    <3>1. RecordOK'
      BY <1>2, <2>1 DEF Silence, WorkOK, RecordOK, Types
    <3> QED BY <1>2, <3>1 DEF Silence, WorkOK
  <2> QED BY <2>5, <2>6
<1>3. CASE MuteAll /\ Silence({r.id : r \in RowsOf(hand.chat)})
  <2>1. mutedUntil' \in [Ids -> 0..Later] /\ late' \in [Ids -> -1..2]
    BY <1>3 DEF MuteAll, Silence, Types
  <2>2. Types'
    BY <1>3, <2>1 DEF MuteAll, Silence, Types
  <2>3. WorkOK'
    BY <1>3 DEF MuteAll, Silence, WorkOK, RecordOK, CheckOK
  <2> QED BY <2>2, <2>3
<1>4. ASSUME NEW id \in Ids, CheckStep(id) \/ CheckFails(id) PROVE PollTypes'
  BY <1>4, CheckTypes
<1>5. CASE Poll
  <2>1. batch' \subseteq Ids \X (1..Events)
    BY <1>5 DEF Poll, Pending
  <2> QED BY <1>5, <2>1 DEF Poll, tables, history, Types, WorkOK, RecordOK, CheckOK, Polling
<1>6. ASSUME NEW id \in Ids, NEW e \in 1..Events, Read(id, e) PROVE PollTypes'
  <2> DEFINE ev == [pc |-> IF Live(id) THEN "find" ELSE "mark", id |-> id, e |-> e,
                    behind |-> lastCheck[id] > e, muted |-> Covers(mutedUntil[id], e),
                    raced |-> FALSE]
  <2>1. ev \in Work /\ ev.pc \in {"find", "mark"} /\ ev.id = id /\ ev.e = e
    BY DEF Work, Covers, Types
  <2>2. event' = ev
    BY <1>6 DEF Read
  <2> HIDE DEF ev
  <2>3. newest' \in [Ids -> 0..Events] /\ overtaken' \in [Ids -> BOOLEAN]
    BY <1>6 DEF Read, Types
  <2> QED BY <1>6, <2>1, <2>2, <2>3 DEF Read, tables, Types, WorkOK, RecordOK, CheckOK
<1>7. CASE FindIncident
  <2>1. WorkOK'
    BY <1>7, FindOK, NextWorkOK DEF FindIncident, tables
  <2> QED BY <1>7, <2>1, FindOK DEF FindIncident, tables, history, Types
<1>8. CASE Record
  <2>1. event' \in Work /\ event'.pc \in {"tell", "status", "mark"} /\ SameEvent
    BY <1>8, OnwardOK, AfterOK DEF Record
  <2>2. event.pc = "record" /\ event.id \in Ids /\ event.raced \in BOOLEAN
    BY <1>8 DEF Record, WorkOK, RecordOK, CheckOK, Types, Work
  <2>3. CASE Incident(event.id, event.e)
    <3>1. openInc' = [openInc EXCEPT ![event.id] = @ + 1] /\ checks' = checks
      BY <1>8, <2>3 DEF Record
    <3>2. openInc[event.id] <= 1
      BY <2>2, <2>3 DEF WorkOK, RecordOK, CheckOK, Types
    <3>3. openInc' \in [Ids -> 0..MaxOpen]
      BY <2>2, <3>1, <3>2, TablesAssumption DEF Types
    <3>4. Types'
      BY <1>8, <2>1, <3>1, <3>3 DEF Record, history, Types
    <3>5. WorkOK'
      BY <2>1, <2>2, <3>1 DEF WorkOK, RecordOK, SameEvent
    <3> QED BY <3>4, <3>5
  <2>4. CASE ~Incident(event.id, event.e)
    <3>1. openInc' \in [Ids -> 0..MaxOpen]
      BY <1>8, <2>2, <2>4, ClosesOK DEF Record
    <3>2. checks' = [checks EXCEPT ![event.id].raced = @ \/ checks[event.id].pc = "close"]
      BY <1>8, <2>4 DEF Record
    <3>3. /\ checks' \in [Ids -> CheckWork]
          /\ \A k \in Ids : checks'[k].pc = checks[k].pc /\ checks'[k].tr = checks[k].tr
      <4> DEFINE c == [checks[event.id] EXCEPT !.raced = @ \/ checks[event.id].pc = "close"]
      <4>1. checks' = [checks EXCEPT ![event.id] = c]
        BY <3>2
      <4>2. /\ c \in CheckWork
            /\ c.pc = checks[event.id].pc /\ c.tr = checks[event.id].tr
        <5>1. checks[event.id] \in CheckWork
          BY <2>2 DEF Types
        <5> QED BY <5>1 DEF CheckWork
      <4> HIDE DEF c
      <4> QED BY <2>2, <4>1, <4>2 DEF Types
    <3>4. Types'
      BY <1>8, <2>1, <3>1, <3>3 DEF Record, history, Types
    <3>5. WorkOK'
      BY <2>1, <2>2, <3>3 DEF WorkOK, RecordOK, CheckOK, SameEvent
    <3> QED BY <3>4, <3>5
  <2> QED BY <2>3, <2>4
<1>9. CASE Tell
  <2>1. event' \in Work /\ event'.pc \in {"status", "mark"} /\ SameEvent /\ event.pc = "tell"
    BY <1>9, OnwardOK, AfterOK DEF Tell
  <2>2. WorkOK'
    BY <1>9, <2>1 DEF Tell, WorkOK, RecordOK, CheckOK, SameEvent
  <2>3. told' \in [Ids -> SUBSET (1..Events)] /\ repeated' \in [Ids -> BOOLEAN]
    BY <1>9, <2>1 DEF Tell, Types, WorkOK, RecordOK, CheckOK
  <2>4. late' \in [Ids -> -1..2]
    <3> DEFINE v == IF late[event.id] = -1 \/ late[event.id] = 2 THEN late[event.id]
                    ELSE late[event.id] + 1
    <3>1. v \in -1..2
      BY <2>1 DEF Types, WorkOK, RecordOK, CheckOK
    <3>2. late' = [late EXCEPT ![event.id] = v]
      BY <1>9 DEF Tell
    <3> HIDE DEF v
    <3> QED BY <3>1, <3>2 DEF Types
  <2> QED BY <1>9, <2>1, <2>2, <2>3, <2>4 DEF Tell, tables, Types
<1>10. CASE SetStatus
  <2>1. event' \in Work /\ event'.pc = "mark" /\ SameEvent /\ event.pc = "status"
    BY <1>10, OnwardOK DEF SetStatus
  <2>2. status' \in [Ids -> MonitorStatus] /\ lastCheck' \in [Ids -> 0..Later]
    BY <1>10, <2>1, StatusAtType DEF SetStatus, Types, WorkOK, RecordOK, CheckOK
  <2> QED BY <1>10, <2>1, <2>2 DEF SetStatus, history, Types, WorkOK, RecordOK, CheckOK, SameEvent
<1>11. CASE Mark
  <2>1. pending' \in [Ids -> SUBSET (1..Events)]
    BY <1>11 DEF Mark, Types
  <2> QED BY <1>11, <2>1, NoEventOK DEF Mark, history, Types, WorkOK, RecordOK, CheckOK
<1>12. CASE Rejected
  BY <1>12, NoEventOK DEF Rejected, tables, history, Types, WorkOK, RecordOK, CheckOK
<1>13. CASE EventFails
  <2>1. event' \in Work /\ (event' = NoEvent \/ event' = event)
    BY <1>13, NoEventOK DEF EventFails, Types
  <2>2. batch' \subseteq Ids \X (1..Events)
    BY <1>13 DEF EventFails, Types
  <2> QED BY <1>13, <2>1, <2>2, NoEventOK DEF EventFails, tables, history, Types, WorkOK, RecordOK, CheckOK
<1>14. CASE TellFails
  <2>1. event' \in Work /\ event'.pc \in {"status", "mark"} /\ SameEvent /\ event.pc = "tell"
    BY <1>14, OnwardOK, AfterOK DEF TellFails
  <2> QED BY <1>14, <2>1 DEF TellFails, tables, history, Types, WorkOK, RecordOK, CheckOK, SameEvent
<1>15. CASE Crashes
  <2>1. checks' \in [Ids -> CheckWork] /\ \A id \in Ids : checks'[id].pc = "idle"
    BY <1>15, NoCheckOK DEF Crashes
  <2>2. torn' \in [Ids -> BOOLEAN]
    BY <1>15 DEF Crashes, Halfway, Types
  <2> QED BY <1>15, <2>1, <2>2, NoEventOK DEF Crashes, tables, Types, WorkOK, RecordOK, CheckOK
<1>16. CASE Untouched
  BY <1>16 DEF Untouched, poller, history, Types, WorkOK, RecordOK, CheckOK
<1> QED BY <1>1, <1>2, <1>3, <1>4, <1>5, <1>6, <1>7, <1>8, <1>9, <1>10, <1>11, <1>12, <1>13,
           <1>14, <1>15, <1>16, PollCases DEF EventStep

LEMMA DeletesRowHolds == Spec => []DeletesRow
BY InitDeletesRow, NextDeletesRow, HandIsOK, PTL DEF Spec

LEMMA PollTypesHold == Spec => []PollTypes
BY InitPollTypes, NextPollTypes, DeletesRowHolds, HandIsOK, PTL DEF Spec

\* Users are chats that have written; faults are counted.
Rest == users \subseteq Chats /\ faults \in 0..MaxFaults

LEMMA InitRest == Init => Rest
<1> SUFFICES ASSUME Init PROVE Rest
  OBVIOUS
<1>1. users = {r.chat : r \in rows} /\ rows \in Backlogs /\ faults = 0
  BY DEF Init, TablesInit
<1> QED BY <1>1, BacklogAssumption, FaultAssumption DEF Rest, Row

LEMMA NextRest == Rest /\ HandInv /\ [Next]_vars => Rest'
<1> SUFFICES ASSUME Rest, HandInv, [Next]_vars PROVE Rest'
  OBVIOUS
<1>1. faults' \in {faults, faults + 1} /\ (faults' # faults => faults < MaxFaults)
  BY DEF Next, TakeStep, MonitorStep, HandStep, PollStep, Clock, DbError, TelegramError, Crash,
     Fault, vars, Rest
<1>2. faults' \in 0..MaxFaults
  BY <1>1, FaultAssumption DEF Rest
<1>3. CASE FindUser
  <2>1. hand.chat \in Chats
    BY <1>3 DEF FindUser, HandInv, HandArgs
  <2> QED BY <1>2, <1>3, <2>1 DEF FindUser, Rest
<1>4. CASE users' = users
  BY <1>2, <1>4 DEF Rest
<1>5. FindUser \/ users' = users
  BY HandCases DEF Take, Resolve, Dedupe, Count, Look, Delete, MuteAll, Reply, Create,
     CommandFails, ReplyFails, tables
<1> QED BY <1>3, <1>4, <1>5

\* The tables, the command, the bucket and the poll are of their types, with every bound
\* on them: no command and no failure makes the poller open more incidents than MaxOpen.
THEOREM TypeCorrect == Spec => []TypeOK
<1>1. PollTypes /\ HandInv /\ BucketExact /\ Rest => TypeOK
  BY FullType DEF PollTypes, Types, HandInv, HandOK, BucketExact, Rest, TypeOK
<1>2. Spec => []Rest
  BY InitRest, NextRest, HandIsOK, PTL DEF Spec
<1> QED BY <1>1, <1>2, PollTypesHold, HandIsOK, BucketIsExact, PTL

----------------------------------------------------------------------------
(* After a /mute or a /remove                                              *)

\* A monitor whose owner wants no more alerts is gone or muted beyond all its events, and
\* once one more alert has come, no event at work on it is going to alert.
LateInv ==
    /\ event.pc = "tell" => ~event.muted
    /\ \A id \in Ids :
          /\ late[id] >= 0 /\ Live(id) => mutedUntil[id] = Later
          /\ late[id] >= 1 => /\ late[id] = 1
                              /\ event.id = id /\ event.pc \in {"find", "record", "tell"} => event.muted

LEMMA InitLate == Init => LateInv
BY DEF Init, PollerInit, NoEvent, LateInv

LEMMA NextLate == LateInv /\ PollTypes /\ DeletesRow /\ HandInv /\ [Next]_vars => LateInv'
<1> SUFFICES ASSUME LateInv, PollTypes, DeletesRow, HandInv, [Next]_vars PROVE LateInv'
  OBVIOUS
<1> USE EventsType
<1>0. ASSUME UNCHANGED <<rows, mutedUntil, late>>, event'.pc = "tell" => ~event'.muted,
             SameEvent,
             event'.pc \in {"find", "record", "tell"} => event.pc \in {"find", "record", "tell"}
      PROVE  LateInv'
  BY <1>0 DEF LateInv, SameEvent, Live
<1>1. ASSUME NEW id \in NewIds, Create(id), Begin(id) PROVE LateInv'
  <2>1. \A k \in Ids : late'[k] = IF k = id THEN -1 ELSE late[k]
    BY <1>1 DEF Begin, PollTypes, Types
  <2>2. \A k \in Ids : k # id => (Live(k)' <=> Live(k))
    BY <1>1 DEF Create, Live
  <2> QED BY <1>1, <2>1, <2>2 DEF Create, Begin, LateInv
<1>2. CASE Delete /\ Silence({hand.row.id})
  <2>0. hand.row \in rows /\ hand.row.id \in Ids
    BY <1>2 DEF Delete, DeletesRow, HandInv, Row
  <2>1. \A k \in Ids : /\ late'[k] = IF k = hand.row.id THEN 0 ELSE late[k]
                       /\ k # hand.row.id => mutedUntil'[k] = mutedUntil[k]
    BY <1>2, <2>0 DEF Delete, DeleteRow, Silence, PollTypes, Types
  <2>2. \A k \in Ids : Live(k)' => Live(k) /\ k # hand.row.id
    BY <1>2, <2>0 DEF Delete, DeleteRow, Live, DeletesRow, UniqueIds
  <2> QED BY <1>2, <2>1, <2>2 DEF Silence, LateInv
<1>3. CASE MuteAll /\ Silence({r.id : r \in RowsOf(hand.chat)})
  <2>1. \A k \in Ids : IF \E r \in RowsOf(hand.chat) : r.id = k
                       THEN late'[k] = 0 /\ mutedUntil'[k] = Later
                       ELSE late'[k] = late[k] /\ mutedUntil'[k] = mutedUntil[k]
    BY <1>3 DEF MuteAll, Silence
  <2> QED BY <1>3, <2>1 DEF MuteAll, Silence, LateInv, Live
<1>4. ASSUME NEW id \in Ids, CheckStep(id) \/ CheckFails(id) PROVE LateInv'
  <2>1. UNCHANGED <<rows, mutedUntil, late>>
    BY <1>4, CheckCases
  <2>2. event'.pc = event.pc /\ event'.id = event.id /\ event'.muted = event.muted
    <3>1. CASE CheckCloses(id)
      BY <3>1 DEF CheckCloses, PollTypes, Types, Work
    <3>2. CASE event' = event
      BY <3>2
    <3>3. CheckCloses(id) \/ event' = event
      BY <1>4 DEF CheckStep, CheckBegins, CheckOpens, CheckFinds, CheckWrites, CheckFails
    <3> QED BY <3>1, <3>2, <3>3
  <2> QED BY <2>1, <2>2 DEF LateInv, Live
<1>5. CASE Poll
  BY <1>5 DEF Poll, tables, history, LateInv, Live
<1>6. ASSUME NEW id \in Ids, NEW e \in 1..Events, Read(id, e) PROVE LateInv'
  <2>1. /\ event'.pc = IF Live(id) THEN "find" ELSE "mark"
        /\ event'.id = id /\ event'.muted = Covers(mutedUntil[id], e)
    BY <1>6 DEF Read
  <2>2. UNCHANGED <<rows, mutedUntil, late>>
    BY <1>6 DEF Read, tables
  <2>3. ASSUME Live(id), late[id] >= 1 PROVE event'.muted
    <3>1. mutedUntil[id] = Later
      BY <2>3 DEF LateInv, PollTypes, Types
    <3>2. Covers(mutedUntil[id], e)
      BY <3>1 DEF Covers
    <3> QED BY <2>1, <3>2
  <2> QED BY <2>1, <2>2, <2>3 DEF LateInv, Live
<1>7. CASE FindIncident
  BY <1>7, <1>0, FindOK DEF FindIncident, tables, history
<1>8. CASE Record
  <2>1. /\ event'.pc = AfterRecord /\ SameEvent /\ event.pc = "record"
    BY <1>8, OnwardOK, AfterOK DEF Record
  <2> QED BY <1>8, <1>0, <2>1, AfterOK DEF Record, history, SameEvent
<1>9. CASE Tell
  <2>1. event'.pc \in {"status", "mark"} /\ SameEvent /\ event.pc = "tell"
    BY <1>9, OnwardOK, AfterOK DEF Tell
  <2>2. event.id \in Ids /\ ~event.muted
    BY <2>1 DEF PollTypes, WorkOK, LateInv
  <2>3. late[event.id] \in {-1, 0}
    BY <2>1, <2>2 DEF LateInv, PollTypes, Types
  <2>4. \A k \in Ids : late'[k] = IF k # event.id \/ late[k] = -1 THEN late[k] ELSE 1
    BY <1>9, <2>2, <2>3 DEF Tell, PollTypes, Types
  <2>5. UNCHANGED <<rows, mutedUntil>>
    BY <1>9 DEF Tell, tables
  <2> QED BY <2>1, <2>2, <2>3, <2>4, <2>5 DEF LateInv, Live, SameEvent
<1>10. CASE SetStatus
  <2>1. event'.pc = "mark" /\ SameEvent
    BY <1>10, OnwardOK DEF SetStatus
  <2> QED BY <1>10, <1>0, <2>1 DEF SetStatus, history
<1>11. ASSUME UNCHANGED <<rows, mutedUntil, late>>, event' \in {NoEvent, event} PROVE LateInv'
  BY <1>11, NoEventOK DEF LateInv, Live
<1>12. CASE Mark
  BY <1>11, <1>12 DEF Mark, history
<1>13. CASE Rejected
  BY <1>11, <1>13 DEF Rejected, tables, history
<1>14. CASE EventFails
  BY <1>11, <1>14 DEF EventFails, tables, history
<1>15. CASE TellFails
  <2>1. event'.pc \in {"status", "mark"} /\ SameEvent
    BY <1>15, OnwardOK, AfterOK DEF TellFails
  <2> QED BY <1>15, <1>0, <2>1 DEF TellFails, tables, history
<1>16. CASE Crashes
  BY <1>11, <1>16 DEF Crashes, tables
<1>17. CASE Untouched
  BY <1>11, <1>17 DEF Untouched, poller, history
<1> QED BY <1>1, <1>2, <1>3, <1>4, <1>5, <1>6, <1>7, <1>8, <1>9, <1>10, <1>12, <1>13,
           <1>14, <1>15, <1>16, <1>17, PollCases DEF EventStep

\* However long the backlog of a monitor is, and whatever fails and is handled again: of
\* its alerts at most the one in hand still comes after a /mute or a /remove.
THEOREM LateHolds == Spec => []AtMostOneLate
<1>1. LateInv /\ PollTypes => AtMostOneLate
  BY DEF LateInv, AtMostOneLate, PollTypes, Types
<1>2. Spec => []LateInv
  BY InitLate, NextLate, PollTypesHold, DeletesRowHolds, HandIsOK, PTL DEF Spec
<1> QED BY <1>1, <1>2, PollTypesHold, PTL

----------------------------------------------------------------------------
(* A backlog of any length, polled in any order: a monitor of which no     *)
(* event was overtaken has an open incident exactly if it is down, once    *)
(* nothing is pending, and none of its events was announced twice.         *)

\* A monitor that is not there has nothing, and events that are to be handled are pending.
BatchOK ==
    /\ \A id \in Ids : ~Live(id) => openInc[id] = 0 /\ pending[id] = {} /\ status[id] = "unknown"
    /\ \A id \in Ids, e \in 1..Events : <<id, e>> \in batch /\ Live(id) => e \in pending[id]
    /\ event.pc # "idle" => /\ Live(event.id) => event.e \in pending[event.id]
                            /\ <<event.id, event.e>> \notin batch
    /\ event.pc = "status" => ~event.behind

\* The incidents are as event e would have them.
Agrees(id, e) == openInc[id] = IF Incident(id, e) THEN 1 ELSE 0

\* While events are pending there is one open incident at most, and what was told of the
\* newest event is recorded.
Owing(id) ==
    pending[id] # {} =>
        /\ openInc[id] \in {0, 1}
        /\ newest[id] \in told[id] => Agrees(id, newest[id])

AtWork(id) == event.pc # "idle" /\ event.id = id

\* An event at work is the newest; it disagrees with the incidents until it is recorded.
Working(id) ==
    AtWork(id) =>
        /\ event.e = newest[id]
        /\ event.pc \in {"find", "record"} => ~event.raced
        /\ event.pc = "record" => ~Agrees(id, event.e)
        /\ event.pc \in {"tell", "status", "mark"} => Agrees(id, event.e)

\* An event that is going to be told was not told before, even if the row goes meanwhile.
Telling(id) ==
    event.id = id /\ (\/ event.pc = "tell"
                      \/ event.pc = "record" /\ (Live(id) \/ ~Incident(id, event.e)))
        => event.e = newest[id] /\ newest[id] \notin told[id]

ToldOnce(id) == told[id] \subseteq 1..newest[id] /\ ~repeated[id]

\* A check that is going to change the status does so with nothing pending.
Waiting(id) ==
    /\ checks[id].pc # "idle" /\ Changes(checks[id].tr) => pending[id] = {}
    /\ checks[id].pc \in {"find", "close"} => ~checks[id].raced

\* With nothing pending the incidents follow the status, ahead of it in a check.
Settled(id) ==
    pending[id] = {} => openInc[id] = IF (status[id] = "down") <=> ~Halfway(id) THEN 1 ELSE 0

\* While events are pending the last one is still to come, or is being handled or retried,
\* and a check has agreed with it.
Following(id) ==
    /\ pending[id] # {} => /\ Events \in pending[id] \/ newest[id] = Events
                           /\ lastCheck[id] = Later => status[id] = StatusAt(id, Events)
    /\ AtWork(id) =>
           /\ event.behind /\ event.e = Events => lastCheck[id] = Later
           /\ event.pc = "mark" /\ ~event.behind => status[id] = StatusAt(id, event.e)

\* What a check has decided still goes with the status.
Checking(id) ==
    checks[id].pc # "idle" =>
        /\ checks[id].tr = "went-down" => status[id] # "down"
        /\ checks[id].tr = "recovered" => status[id] = "down"
        /\ checks[id].tr = "stay-up" => IF pending[id] = {} THEN status[id] # "down"
                                        ELSE ~Incident(id, Events)

Waits(id) == ~overtaken[id] /\ Live(id) => Waiting(id)

Tells(id) ==
    ~overtaken[id] /\ ~crowded[id] =>
        /\ Live(id) => Owing(id) /\ Working(id)
        /\ Telling(id) /\ ToldOnce(id)

Fits(id) ==
    ~overtaken[id] /\ ~torn[id] =>
        /\ ~crowded[id]
        /\ Live(id) => Settled(id) /\ Following(id) /\ Checking(id)

InOrder(id) == Waits(id) /\ Tells(id) /\ Fits(id)

BacklogInv == BatchOK /\ \A id \in Ids : InOrder(id)

----------------------------------------------------------------------------

LEMMA InitBatchOK == Init => BatchOK
<1> SUFFICES ASSUME Init PROVE BatchOK
  OBVIOUS
<1>1. PICK last \in [Ids -> 0..Events] : TablesInit(last) /\ PollerInit(last)
  BY DEF Init
<1>2. ASSUME NEW id \in Ids, ~Live(id)
      PROVE  openInc[id] = 0 /\ pending[id] = {} /\ status[id] = "unknown"
  BY <1>1, <1>2 DEF TablesInit
<1>3. batch = {} /\ event.pc = "idle"
  BY <1>1 DEF PollerInit, NoEvent
<1> QED BY <1>2, <1>3 DEF BatchOK

LEMMA InitInOrder == Init => \A id \in Ids : InOrder(id)
<1> SUFFICES ASSUME Init, NEW id \in Ids PROVE InOrder(id)
  OBVIOUS
<1>1. PICK last \in [Ids -> 0..Events] : TablesInit(last) /\ PollerInit(last)
  BY DEF Init
<1> USE EventsType
<1>2. /\ event.pc = "idle" /\ told[id] = {} /\ repeated[id] = FALSE /\ newest = last
      /\ checks[id].pc = "idle"
  BY <1>1, NoCheckOK DEF PollerInit, NoEvent
<1>3. openInc[id] \in 0..MaxOpen
  BY <1>1 DEF TablesInit
<1>9. crowded[id] <=> openInc[id] > 1
  BY <1>1 DEF PollerInit
<1>4. Waits(id)
  BY <1>2 DEF Waits, Waiting
<1>5. Tells(id)
  <2>1. ~crowded[id] => openInc[id] \in {0, 1}
    BY <1>3, <1>9, TablesAssumption
  <2> QED BY <1>2, <2>1 DEF Tells, Owing, Working, AtWork, Telling, ToldOnce
<1>6. ASSUME ~overtaken[id], ~torn[id] PROVE ~crowded[id] /\ (Live(id) => Settled(id) /\ Following(id))
  <2>1. Explained(id)
    BY <1>1, <1>6 DEF PollerInit
  <2>2. ~crowded[id]
    BY <1>3, <1>9, <2>1, TablesAssumption DEF Explained
  <2>3. \A e \in pending[id] : ~(e < last[id])
    BY <1>1, <1>6 DEF PollerInit
  <2>4. pending[id] \subseteq 1..Events /\ last[id] \in 0..Events
    BY <1>1 DEF TablesInit
  <2> SUFFICES ASSUME Live(id) PROVE Settled(id) /\ Following(id)
    BY <2>2
  <2>5. last[id] \notin pending[id] /\ (last[id] + 1)..Events \subseteq pending[id]
    BY <1>1 DEF TablesInit, LastHandled
  <2>6. Settled(id)
    BY <1>2, <2>1 DEF Settled, Halfway, Explained, Matches
  <2>7. ASSUME pending[id] # {} PROVE Events \in pending[id]
    <3>1. PICK e \in pending[id] : TRUE
      BY <2>7
    <3>2. e \in 1..Events /\ e > last[id]
      BY <2>3, <2>4, <2>5
    <3>3. Events \in (last[id] + 1)..Events
      BY <2>4, <3>2
    <3> QED BY <2>5, <3>3
  <2>8. Following(id)
    BY <1>2, <2>1, <2>7 DEF Following, Explained, AtWork
  <2> QED BY <2>6, <2>8
<1> QED BY <1>2, <1>4, <1>5, <1>6 DEF InOrder, Fits, Checking

----------------------------------------------------------------------------
(* The rows, the batch and the event at work                               *)

\* Steps that leave the tables and the batch alone but move the event on.
LEMMA MovesBatchOK ==
    ASSUME BatchOK, PollTypes, SameEvent, event.pc # "idle", event'.pc = "status" => ~event.behind,
           UNCHANGED <<rows, pending, batch>>,
           \A id \in Ids : ~Live(id) => openInc'[id] = 0 /\ status'[id] = status[id]
    PROVE  BatchOK'
BY DEF BatchOK, SameEvent, Live

\* Only a new monitor comes to live.
LEMMA CreateLive ==
    ASSUME NEW id \in Ids, Create(id)
    PROVE  \A k \in Ids : Live(k)' <=> k = id \/ Live(k)
<1> DEFINE n == [id |-> id, chat |-> hand.chat, url |-> hand.url]
<1>1. rows' = rows \cup {n} /\ n.id = id
  BY DEF Create
<1> HIDE DEF n
<1> QED BY <1>1 DEF Live

\* The event at work goes through the steps of a check, but for what it has to know of a close.
LEMMA CheckEvent ==
    ASSUME PollTypes, NEW id \in Ids, CheckStep(id) \/ CheckFails(id)
    PROVE  /\ event'.pc = event.pc /\ event'.id = event.id /\ event'.e = event.e
           /\ event'.behind = event.behind
           /\ event' = event \/ (AtWork(id) /\ CheckCloses(id))
<1>1. CASE CheckCloses(id)
  <2>1. event' = [event EXCEPT !.raced = @ \/ (event.pc = "record" /\ event.id = id)]
    BY <1>1 DEF CheckCloses
  <2>2. event \in Work
    BY DEF PollTypes, Types
  <2>3. CASE AtWork(id)
    BY <1>1, <2>1, <2>2, <2>3 DEF Work
  <2>4. CASE ~AtWork(id)
    <3>1. event.raced \in BOOLEAN /\ ~(event.pc = "record" /\ event.id = id)
      BY <2>2, <2>4 DEF Work, AtWork
    <3> DEFINE raced == event.raced \/ (event.pc = "record" /\ event.id = id)
    <3>2. event' = [event EXCEPT !.raced = raced]
      BY <2>1
    <3>3. raced = event.raced
      BY <3>1, Zenon
    <3> HIDE DEF raced
    <3> QED BY <2>2, <3>2, <3>3 DEF Work
  <2> QED BY <2>3, <2>4
<1>2. CASE ~CheckCloses(id)
  <2>1. event' = event
    BY <1>2 DEF CheckStep, CheckBegins, CheckOpens, CheckFinds, CheckWrites, CheckFails
  <2> QED BY <2>1
<1> QED BY <1>1, <1>2

LEMMA CheckBatchOK ==
    ASSUME BatchOK, PollTypes, NEW id \in Ids, CheckStep(id) \/ CheckFails(id)
    PROVE  BatchOK'
<1>1. UNCHANGED <<rows, pending, batch>>
  BY CheckCases
<1>2. \A k \in Ids : ~Live(k) => openInc'[k] = 0 /\ status'[k] = status[k]
  <2> SUFFICES ASSUME NEW k \in Ids, ~Live(k) PROVE openInc'[k] = 0 /\ status'[k] = status[k]
    OBVIOUS
  <2>1. openInc[k] = 0
    BY DEF BatchOK
  <2>2. CASE CheckOpens(id)
    BY <2>1, <2>2 DEF CheckOpens, PollTypes, Types
  <2>3. CASE CheckCloses(id)
    <3>1. checks[id].raced \in BOOLEAN /\ Closes(id, checks[id].raced) /\ status' = status
      BY <2>3 DEF CheckCloses, PollTypes, Types, CheckWork
    <3>2. /\ openInc' \in [Ids -> 0..MaxOpen] /\ openInc'[id] <= openInc[id]
          /\ k # id => openInc'[k] = openInc[k]
      BY <3>1, ClosesOK
    <3>3. openInc'[k] \in 0..MaxOpen /\ openInc'[k] <= 0
      BY <2>1, <3>2, TablesAssumption
    <3> QED BY <3>1, <3>3, TablesAssumption
  <2>4. CASE CheckWrites(id)
    <3>1. openInc' = openInc
      BY <2>4 DEF CheckWrites
    <3>2. status'[k] = status[k]
      BY <2>4 DEF CheckWrites, PollTypes, Types
    <3> QED BY <2>1, <3>1, <3>2
  <2>5. CASE openInc' = openInc /\ status' = status
    BY <2>1, <2>5
  <2>6. \/ CheckOpens(id) \/ CheckCloses(id) \/ CheckWrites(id)
        \/ openInc' = openInc /\ status' = status
    BY DEF CheckStep, CheckBegins, CheckFinds, CheckFails, tables
  <2> QED BY <2>2, <2>3, <2>4, <2>5, <2>6
<1>3. event'.pc = event.pc /\ event'.id = event.id /\ event'.e = event.e /\ event'.behind = event.behind
  BY CheckEvent
<1> QED BY <1>1, <1>2, <1>3 DEF BatchOK, Live

LEMMA NextBatchOK == BatchOK /\ PollTypes /\ DeletesRow /\ HandInv /\ [Next]_vars => BatchOK'
<1> SUFFICES ASSUME BatchOK, PollTypes, DeletesRow, HandInv, [Next]_vars PROVE BatchOK'
  OBVIOUS
<1>1. ASSUME NEW id \in NewIds, Create(id), Begin(id) PROVE BatchOK'
  <2>1. \A k \in Ids : Live(k)' <=> k = id \/ Live(k)
    BY <1>1, CreateLive DEF NewIds
  <2>2. /\ \A e \in 1..Events : <<id, e>> \notin batch
        /\ event.id # id
    BY <1>1 DEF NewIds
  <2>3. event.pc # "idle" => event.id \in Ids /\ event.e \in 1..Events
    BY DEF PollTypes, WorkOK
  <2>4. UNCHANGED <<batch, event, status, openInc, pending>>
    BY <1>1 DEF Create, Begin
  <2> QED BY <2>1, <2>2, <2>3, <2>4 DEF BatchOK
<1>2. CASE Delete /\ Silence({hand.row.id})
  <2>1. hand.row \in rows /\ hand.row.id \in Ids
    BY <1>2 DEF Delete, DeletesRow, HandInv, Row
  <2>2. \A k \in Ids : Live(k)' <=> Live(k) /\ k # hand.row.id
    BY <1>2, <2>1 DEF Delete, DeleteRow, Live, DeletesRow, UniqueIds
  <2>3. \A k \in Ids : IF k = hand.row.id
                       THEN openInc'[k] = 0 /\ pending'[k] = {} /\ status'[k] = "unknown"
                       ELSE openInc'[k] = openInc[k] /\ pending'[k] = pending[k] /\ status'[k] = status[k]
    BY <1>2, <2>1 DEF Delete, DeleteRow, PollTypes, Types
  <2>4. UNCHANGED <<batch, event>>
    BY <1>2 DEF Silence
  <2>5. event.pc # "idle" => event.id \in Ids /\ event.e \in 1..Events
    BY DEF PollTypes, WorkOK
  <2> QED BY <2>2, <2>3, <2>4, <2>5 DEF BatchOK
<1>3. CASE MuteAll /\ Silence({r.id : r \in RowsOf(hand.chat)})
  BY <1>3 DEF MuteAll, Silence, BatchOK, Live
<1>4. ASSUME NEW id \in Ids, CheckStep(id) \/ CheckFails(id) PROVE BatchOK'
  BY <1>4, CheckBatchOK
<1>5. CASE Poll
  <2>1. batch' \subseteq Pending /\ event.pc = "idle"
    BY <1>5 DEF Poll, Polling
  <2> QED BY <1>5, <2>1 DEF Poll, Pending, tables, BatchOK, Live
<1>6. ASSUME NEW id \in Ids, NEW e \in 1..Events, Read(id, e) PROVE BatchOK'
  <2>1. /\ event'.pc \in {"find", "mark"} /\ event'.id = id /\ event'.e = e
        /\ batch' = batch \ {<<id, e>>} /\ <<id, e>> \in batch
        /\ UNCHANGED <<rows, status, openInc, pending>>
    BY <1>6 DEF Read, tables
  <2> QED BY <2>1 DEF BatchOK, Live
<1>7. CASE FindIncident
  <2>1. SameEvent /\ event.pc = "find" /\ (event'.pc = "status" => ~event.behind)
    <3>1. CASE Incident(event.id, event.e) <=> (openInc[event.id] = 0)
      BY <1>7, <3>1, FindOK
    <3>2. CASE event.behind /\ ~(Incident(event.id, event.e) <=> (openInc[event.id] = 0))
      BY <1>7, <3>2, OnwardOK, FindOK DEF FindIncident
    <3>3. CASE ~event.behind
      BY <1>7, <3>3, FindOK
    <3> QED BY <3>1, <3>2, <3>3
  <2> QED BY <1>7, <2>1, MovesBatchOK DEF FindIncident, tables, BatchOK
<1>8. CASE Record
  <2>1. event'.pc = AfterRecord /\ SameEvent /\ event.pc = "record"
    BY <1>8, OnwardOK, AfterOK DEF Record
  <2>2. event'.pc = "status" => ~event.behind
    BY <2>1 DEF AfterRecord
  <2>3. \A id \in Ids : ~Live(id) => openInc'[id] = 0
    <3>1. CASE Incident(event.id, event.e)
      BY <1>8, <3>1 DEF Record, BatchOK, PollTypes, Types
    <3>2. CASE ~Incident(event.id, event.e)
      <4>1. event.id \in Ids /\ event.raced \in BOOLEAN /\ Closes(event.id, event.raced)
        BY <1>8, <2>1, <3>2 DEF Record, PollTypes, Types, WorkOK, Work
      <4>2. /\ openInc' \in [Ids -> 0..MaxOpen]
            /\ \A k \in Ids : k # event.id => openInc'[k] = openInc[k]
            /\ openInc'[event.id] <= openInc[event.id]
        BY <4>1, ClosesOK
      <4>3. ASSUME NEW id \in Ids, ~Live(id) PROVE openInc'[id] = 0
        <5>1. openInc[id] = 0
          BY <4>3 DEF BatchOK
        <5>2. openInc'[id] \in 0..MaxOpen /\ openInc'[id] <= 0
          BY <4>2, <5>1, TablesAssumption
        <5> QED BY <5>2, TablesAssumption
      <4> QED BY <4>3
    <3> QED BY <3>1, <3>2
  <2> QED BY <1>8, <2>1, <2>2, <2>3, MovesBatchOK DEF Record
<1>9. CASE Tell \/ TellFails
  <2>1. event'.pc = AfterTell /\ SameEvent /\ event.pc = "tell"
    BY <1>9, OnwardOK, AfterOK DEF Tell, TellFails
  <2>2. event'.pc = "status" => ~event.behind
    BY <2>1 DEF AfterTell
  <2> QED BY <1>9, <2>1, <2>2, MovesBatchOK DEF Tell, TellFails, tables, BatchOK
<1>10. CASE SetStatus
  <2>1. event'.pc = "mark" /\ SameEvent /\ event.pc = "status"
    BY <1>10, OnwardOK DEF SetStatus
  <2>2. \A id \in Ids : ~Live(id) => status'[id] = status[id]
    BY <1>10 DEF SetStatus, PollTypes, Types
  <2> QED BY <1>10, <2>1, <2>2, MovesBatchOK DEF SetStatus, BatchOK
<1>11. CASE Mark
  <2>1. event.pc = "mark" /\ event'.pc = "idle" /\ UNCHANGED <<rows, status, openInc, batch>>
    BY <1>11, NoEventOK DEF Mark
  <2>2. \A id \in Ids : pending'[id] = IF id = event.id THEN pending[id] \ {event.e} ELSE pending[id]
    BY <1>11 DEF Mark, PollTypes, Types
  <2> QED BY <2>1, <2>2 DEF BatchOK, Live
<1>12. ASSUME UNCHANGED <<rows, status, openInc, pending>>, batch' \subseteq batch,
              event' = event \/ event'.pc = "idle"
       PROVE  BatchOK'
  BY <1>12 DEF BatchOK, Live
<1>13. CASE Rejected \/ EventFails
  BY <1>12, <1>13, NoEventOK DEF Rejected, EventFails, tables
<1>14. CASE Crashes
  BY <1>12, <1>14, NoEventOK DEF Crashes, tables
<1>15. CASE Untouched
  BY <1>12, <1>15 DEF Untouched, poller
<1> QED BY <1>1, <1>2, <1>3, <1>4, <1>5, <1>6, <1>7, <1>8, <1>9, <1>10, <1>11, <1>13, <1>14, <1>15,
           PollCases DEF EventStep

----------------------------------------------------------------------------
(* Commands, and what cuts a check or an event off                         *)

\* A monitor that a step does not concern.
Aside(k) ==
    /\ openInc'[k] = openInc[k] /\ status'[k] = status[k] /\ lastCheck'[k] = lastCheck[k]
    /\ pending'[k] = pending[k] /\ checks'[k] = checks[k]
    /\ newest'[k] = newest[k] /\ overtaken'[k] = overtaken[k]
    /\ torn'[k] = torn[k] /\ crowded'[k] = crowded[k]
    /\ told'[k] = told[k] /\ repeated'[k] = repeated[k]

LEMMA AsideInOrder ==
    ASSUME NEW k \in Ids, InOrder(k), Aside(k), Live(k)' <=> Live(k),
           event' = event \/ event'.pc = "idle" \/ event'.id # k
    PROVE  InOrder(k)'
<1>1. Waiting(k)' <=> Waiting(k)
  BY DEF Waiting, Aside
<1>2. Owing(k)' <=> Owing(k)
  BY DEF Owing, Aside, Agrees
<1>3. Working(k) => Working(k)'
  BY DEF Working, AtWork, Aside, Agrees
<1>4. Telling(k) => Telling(k)'
  BY DEF Telling, Aside
<1>5. ToldOnce(k)' <=> ToldOnce(k)
  BY DEF ToldOnce, Aside
<1>6. Settled(k)' <=> Settled(k)
  BY DEF Settled, Halfway, Aside
<1>7. Following(k) => Following(k)'
  BY DEF Following, AtWork, Aside
<1>8. Checking(k)' <=> Checking(k)
  BY DEF Checking, Aside
<1> QED BY <1>1, <1>2, <1>3, <1>4, <1>5, <1>6, <1>7, <1>8 DEF InOrder, Waits, Tells, Fits, Aside

\* A check that is cut off tears status and incidents apart, or has changed neither.
LEMMA CutInOrder ==
    ASSUME PollTypes, NEW k \in Ids, InOrder(k), checks'[k] = NoCheck,
           torn'[k] <=> torn[k] \/ Halfway(k),
           UNCHANGED <<rows, openInc, status, lastCheck, pending, newest, overtaken, crowded,
                       told, repeated>>,
           event' = event \/ event'.pc = "idle"
    PROVE  InOrder(k)'
<1>1. Live(k)' <=> Live(k)
  BY DEF Live
<1>2. Waiting(k)' /\ Checking(k)'
  BY NoCheckOK DEF Waiting, Checking
<1>3. /\ Owing(k) => Owing(k)'
      /\ Working(k) => Working(k)'
      /\ Following(k) => Following(k)'
  BY DEF Owing, Working, Following, AtWork, Agrees
<1>4. (Telling(k) => Telling(k)') /\ (ToldOnce(k) => ToldOnce(k)')
  BY DEF Telling, ToldOnce, Live
<1>5. Settled(k) /\ ~Halfway(k) => Settled(k)'
  <2>1. ~Halfway(k)'
    BY NoCheckOK DEF Halfway
  <2> QED BY <2>1 DEF Settled
<1> QED BY <1>1, <1>2, <1>3, <1>4, <1>5 DEF InOrder, Waits, Tells, Fits

LEMMA CreateInOrder ==
    ASSUME BacklogInv, PollTypes, NEW id \in NewIds, Create(id), Begin(id), NEW k \in Ids
    PROVE  InOrder(k)'
<1>1. UNCHANGED <<event, checks, openInc, status, lastCheck, pending>>
  BY DEF Create, Begin
<1>2. CASE k = id
  <2>1. /\ ~Live(id) /\ event.id # id /\ id \in Ids /\ checks[id].pc = "idle"
        /\ newest'[id] = 0 /\ told'[id] = {} /\ repeated'[id] = FALSE /\ crowded'[id] = FALSE
    BY DEF NewIds, Begin, PollTypes, Types
  <2>2. openInc[id] = 0 /\ pending[id] = {} /\ status[id] = "unknown"
    BY <2>1 DEF BacklogInv, BatchOK
  <2>3. Waits(id)' /\ Tells(id)'
    BY <1>1, <2>1, <2>2
       DEF Waits, Waiting, Tells, Owing, Working, AtWork, Telling, ToldOnce
  <2>4. Settled(id)' /\ Following(id)' /\ Checking(id)'
    BY <1>1, <2>1, <2>2 DEF Settled, Halfway, Following, AtWork, Checking
  <2> QED BY <1>2, <2>1, <2>3, <2>4 DEF InOrder, Fits
<1>3. CASE k # id
  <2>1. Live(k)' <=> Live(k)
    BY <1>3, CreateLive DEF NewIds
  <2>2. Aside(k)
    BY <1>1, <1>3 DEF Begin, Aside, NewIds, PollTypes, Types
  <2> QED BY <1>1, <2>1, <2>2, AsideInOrder DEF BacklogInv
<1> QED BY <1>2, <1>3

LEMMA DeleteInOrder ==
    ASSUME BacklogInv, PollTypes, DeletesRow, HandInv, Delete, Silence({hand.row.id}), NEW k \in Ids
    PROVE  InOrder(k)'
<1>1. hand.row \in rows /\ hand.row.id \in Ids
  BY DEF Delete, DeletesRow, HandInv, Row
<1>2. Live(k)' <=> Live(k) /\ k # hand.row.id
  BY <1>1 DEF Delete, DeleteRow, Live, DeletesRow, UniqueIds
<1>3. UNCHANGED <<event, checks, newest, overtaken, torn, crowded, told, repeated>>
  BY DEF Silence
<1>4. CASE k = hand.row.id
  <2>1. ~Live(k)'
    BY <1>2, <1>4
  <2>2. Telling(k) => Telling(k)'
    BY <1>3, <2>1 DEF Telling
  <2>3. ToldOnce(k)' <=> ToldOnce(k)
    BY <1>3 DEF ToldOnce
  <2> QED BY <1>3, <2>1, <2>2, <2>3 DEF BacklogInv, InOrder, Waits, Tells, Fits
<1>5. CASE k # hand.row.id
  <2>1. Aside(k)
    BY <1>1, <1>3, <1>5 DEF Delete, DeleteRow, Aside, PollTypes, Types
  <2> QED BY <1>2, <1>3, <1>5, <2>1, AsideInOrder DEF BacklogInv
<1> QED BY <1>4, <1>5

----------------------------------------------------------------------------
(* The steps of a check                                                    *)

LEMMA OtherCheckInOrder ==
    ASSUME BacklogInv, PollTypes, NEW id \in Ids, CheckStep(id) \/ CheckFails(id),
           NEW k \in Ids, k # id
    PROVE  InOrder(k)'
<1>1. UNCHANGED <<rows, pending, newest, crowded, told, repeated>>
  BY CheckCases
<1>2. event' = event \/ event'.id # k
  BY CheckEvent DEF AtWork
<1>3. checks'[k] = checks[k]
  BY DEF CheckStep, CheckBegins, CheckOpens, CheckFinds, CheckCloses, CheckWrites, CheckFails,
         CheckGoes, CheckEnds, PollTypes, Types
<1>4. openInc'[k] = openInc[k]
  BY DEF CheckStep, CheckBegins, CheckOpens, CheckFinds, CheckCloses, Closes, CheckWrites,
         CheckFails, tables, PollTypes, Types
<1>5. /\ status'[k] = status[k] /\ lastCheck'[k] = lastCheck[k]
      /\ overtaken'[k] = overtaken[k] /\ torn'[k] = torn[k]
  BY DEF CheckStep, CheckBegins, CheckOpens, CheckFinds, CheckCloses, CheckWrites,
         CheckFails, tables, history, PollTypes, Types
<1>6. Aside(k) /\ (Live(k)' <=> Live(k))
  BY <1>1, <1>3, <1>4, <1>5 DEF Aside, Live
<1> QED BY <1>2, <1>6, AsideInOrder DEF BacklogInv

\* What holds of a live monitor while a check is going to change its status.
LEMMA Alone ==
    ASSUME BacklogInv, PollTypes, NEW id \in Ids, Live(id), ~overtaken[id],
           checks[id].pc # "idle", Changes(checks[id].tr)
    PROVE  /\ pending[id] = {} /\ ~AtWork(id)
           /\ checks[id].pc \in {"find", "close"} => ~checks[id].raced
<1>1. Waiting(id)
  BY DEF BacklogInv, InOrder, Waits
<1>2. AtWork(id) => event.e \in pending[id]
  BY DEF AtWork, BacklogInv, BatchOK
<1> QED BY <1>1, <1>2 DEF Waiting

\* Such a check takes a step: with nothing pending only what concerns the status counts.
LEMMA AloneInOrder ==
    ASSUME BacklogInv, PollTypes, NEW id \in Ids, checks[id].pc # "idle", Changes(checks[id].tr),
           UNCHANGED <<rows, status, lastCheck, pending, newest, overtaken, torn, crowded,
                       told, repeated>>,
           event'.pc = event.pc, event'.id = event.id, event'.e = event.e,
           Live(id) => /\ checks'[id].tr = checks[id].tr /\ checks'[id].pc # "idle"
                       /\ checks'[id].raced = checks[id].raced
                       /\ checks'[id].pc \in {"find", "close"} => checks[id].pc \in {"find", "close"},
           Live(id) /\ ~overtaken[id] /\ ~torn[id] => (Settled(id) /\ Checking(id) => Settled(id)')
    PROVE  InOrder(id)'
<1>1. InOrder(id) /\ (Live(id)' <=> Live(id))
  BY DEF BacklogInv, Live
<1>2. (Telling(id) => Telling(id)') /\ (ToldOnce(id) => ToldOnce(id)')
  BY DEF Telling, ToldOnce, Live
<1>3. ASSUME Live(id), ~overtaken[id] PROVE Waiting(id)' /\ Owing(id)' /\ Working(id)' /\ Following(id)'
  <2>1. pending[id] = {} /\ ~AtWork(id) /\ (checks[id].pc \in {"find", "close"} => ~checks[id].raced)
    BY <1>3, Alone
  <2> QED BY <1>3, <2>1 DEF Waiting, Owing, Working, Following, AtWork
<1>4. ASSUME Live(id), Checking(id) PROVE Checking(id)'
  BY <1>4 DEF Checking
<1> QED BY <1>1, <1>2, <1>3, <1>4 DEF InOrder, Waits, Tells, Fits

LEMMA BeginsInOrder ==
    ASSUME BacklogInv, PollTypes, NEW id \in Ids, NEW out \in HeartbeatStatus, CheckBegins(id, out)
    PROVE  InOrder(id)'
<1>1. /\ UNCHANGED <<rows, openInc, status, lastCheck, pending, event, newest, torn, crowded,
                     told, repeated>>
      /\ event.pc = "idle" /\ checks[id].pc = "idle"
  BY DEF CheckBegins, Polling, tables
<1>2. PICK c \in CheckWork :
          /\ CheckAt(id, c) /\ ~c.raced
          /\ c.pc = CASE c.tr = "went-down" -> "incident"
                      [] c.tr = "recovered" -> "find"
                      [] OTHER              -> "status"
          /\ c.tr \in {"recovered", "stay-down"} <=> status[id] = "down"
          /\ overtaken' = [overtaken EXCEPT ![id] =
                 @ \/ (pending[id] # {} /\ (Changes(c.tr) \/ status[id] # StatusAt(id, Events)))]
  BY BeginsOK
<1>3. checks'[id] = c /\ (Live(id)' <=> Live(id))
  BY <1>1, <1>2 DEF CheckAt, PollTypes, Types, Live
<1>4. ~overtaken'[id] => /\ ~overtaken[id]
                         /\ pending[id] # {} => ~Changes(c.tr) /\ status[id] = StatusAt(id, Events)
  BY <1>2 DEF PollTypes, Types
<1> HIDE <1>2
<1>5. /\ ~c.raced
      /\ c.pc = "status" <=> ~Changes(c.tr)
      /\ c.tr \in {"recovered", "stay-down"} <=> status[id] = "down"
  <2>1. c.pc = CASE c.tr = "went-down" -> "incident"
                 [] c.tr = "recovered" -> "find"
                 [] OTHER              -> "status"
    BY <1>2
  <2> QED BY <1>2, <2>1 DEF Changes
<1> SUFFICES ASSUME ~overtaken'[id] PROVE InOrder(id)'
  BY DEF InOrder, Waits, Tells, Fits
<1>6. ~overtaken[id] /\ InOrder(id)
  BY <1>4 DEF BacklogInv
<1>7. Waiting(id)'
  BY <1>1, <1>3, <1>4, <1>5 DEF Waiting
<1>8. /\ Owing(id) => Owing(id)'
      /\ Working(id)' /\ Telling(id)'
      /\ ToldOnce(id) => ToldOnce(id)'
  BY <1>1 DEF Owing, Agrees, Working, AtWork, Telling, ToldOnce
<1>9. Settled(id) => Settled(id)'
  <2>1. ~Halfway(id) /\ ~Halfway(id)'
    BY <1>1, <1>3, <1>5 DEF Halfway
  <2> QED BY <1>1, <2>1 DEF Settled
<1>10. Following(id) => Following(id)'
  BY <1>1 DEF Following, AtWork
<1>11. Checking(id)'
  <2>1. pending[id] # {} /\ status[id] # "down" => ~Incident(id, Events)
    BY <1>4 DEF StatusAt
  <2> QED BY <1>1, <1>3, <1>5, <2>1 DEF Checking
<1> QED BY <1>1, <1>3, <1>6, <1>7, <1>8, <1>9, <1>10, <1>11 DEF InOrder, Waits, Tells, Fits

LEMMA OpensInOrder ==
    ASSUME BacklogInv, PollTypes, NEW id \in Ids, CheckOpens(id)
    PROVE  InOrder(id)'
<1>1. /\ UNCHANGED <<rows, status, lastCheck, pending, event, newest, overtaken, torn, crowded,
                     told, repeated>>
      /\ checks[id].pc = "incident" /\ checks[id].tr = "went-down"
  BY DEF CheckOpens, history, PollTypes, WorkOK, CheckOK
<1>2. ASSUME Live(id)
      PROVE  /\ checks'[id].pc = "status" /\ checks'[id].tr = checks[id].tr
             /\ checks'[id].raced = checks[id].raced
             /\ openInc'[id] = openInc[id] + 1
  BY <1>2, GoesOK DEF CheckOpens, PollTypes, Types
<1>3. ASSUME Live(id), Settled(id), Checking(id) PROVE Settled(id)'
  <2>1. status[id] # "down" /\ ~Halfway(id) /\ Halfway(id)'
    BY <1>1, <1>2, <1>3 DEF Checking, Halfway, Changes
  <2> QED BY <1>1, <1>2, <1>3, <2>1 DEF Settled
<1> QED BY <1>1, <1>2, <1>3, AloneInOrder DEF Changes

LEMMA FindsInOrder ==
    ASSUME BacklogInv, PollTypes, NEW id \in Ids, CheckFinds(id)
    PROVE  InOrder(id)'
<1>1. /\ UNCHANGED <<rows, status, lastCheck, openInc, pending, event, newest, overtaken, torn,
                     crowded, told, repeated>>
      /\ checks[id].pc = "find" /\ checks[id].tr = "recovered"
  BY DEF CheckFinds, tables, history, PollTypes, WorkOK, CheckOK
<1>2. /\ checks'[id].pc = IF openInc[id] = 0 THEN "status" ELSE "close"
      /\ checks'[id].tr = checks[id].tr /\ checks'[id].raced = checks[id].raced
  <2> DEFINE pc == IF openInc[id] = 0 THEN "status" ELSE "close"
  <2>1. pc \in {"incident", "find", "close", "status"} /\ CheckGoes(id, pc)
    BY DEF CheckFinds
  <2> HIDE DEF pc
  <2>2. checks'[id].pc = pc /\ checks'[id].tr = checks[id].tr /\ checks'[id].raced = checks[id].raced
    BY <2>1, GoesOK
  <2> QED BY <2>2 DEF pc
<1>3. ASSUME Live(id), ~overtaken[id], Settled(id), Checking(id) PROVE Settled(id)'
  <2>1. pending[id] = {}
    BY <1>1, <1>3, Alone DEF Changes
  <2>2. status[id] = "down" /\ ~Halfway(id)
    BY <1>1, <1>3 DEF Checking, Halfway
  <2>3. openInc[id] = 1
    BY <1>3, <2>1, <2>2 DEF Settled
  <2>4. ~Halfway(id)'
    BY <1>2, <2>3 DEF Halfway
  <2> QED BY <1>1, <2>2, <2>3, <2>4 DEF Settled
<1> QED BY <1>1, <1>2, <1>3, AloneInOrder DEF Changes

LEMMA ClosesInOrder ==
    ASSUME BacklogInv, PollTypes, NEW id \in Ids, CheckCloses(id)
    PROVE  InOrder(id)'
<1>1. /\ UNCHANGED <<rows, status, lastCheck, pending, newest, overtaken, torn, crowded,
                     told, repeated>>
      /\ checks[id].pc = "close" /\ checks[id].tr = "recovered" /\ checks[id].raced \in BOOLEAN
      /\ Closes(id, checks[id].raced)
  BY DEF CheckCloses, history, PollTypes, Types, CheckWork, WorkOK, CheckOK
<1>2. event'.pc = event.pc /\ event'.id = event.id /\ event'.e = event.e
  BY CheckEvent DEF CheckStep
<1>3. /\ checks'[id].pc = "status" /\ checks'[id].tr = checks[id].tr
      /\ checks'[id].raced = checks[id].raced
  BY GoesOK DEF CheckCloses
<1>4. ASSUME Live(id), ~overtaken[id], Settled(id), Checking(id) PROVE Settled(id)'
  <2>1. pending[id] = {} /\ ~checks[id].raced
    BY <1>1, <1>4, Alone DEF Changes
  <2>2. status[id] = "down" /\ ~Halfway(id) /\ Halfway(id)'
    BY <1>1, <1>3, <1>4 DEF Checking, Halfway, Changes
  <2>3. openInc[id] = 1
    BY <1>4, <2>1, <2>2 DEF Settled
  <2>4. openInc'[id] = 0
    BY <1>1, <2>1, <2>3, ClosesOK
  <2> QED BY <1>1, <2>2, <2>4 DEF Settled
<1> QED BY <1>1, <1>2, <1>3, <1>4, AloneInOrder DEF Changes

LEMMA WritesInOrder ==
    ASSUME BacklogInv, PollTypes, NEW id \in Ids, CheckWrites(id)
    PROVE  InOrder(id)'
<1>1. /\ UNCHANGED <<rows, openInc, pending, event, newest, torn, crowded, told, repeated>>
      /\ checks[id].pc = "status" /\ checks'[id].pc = "idle"
  BY EndsOK DEF CheckWrites
<1>2. Live(id)' <=> Live(id)
  BY <1>1 DEF Live
<1>3. Waiting(id)' /\ Checking(id)'
  BY <1>1 DEF Waiting, Checking
<1>4. /\ Owing(id) => Owing(id)'
      /\ Working(id) => Working(id)'
      /\ Telling(id) => Telling(id)'
      /\ ToldOnce(id) => ToldOnce(id)'
  BY <1>1, <1>2 DEF Owing, Agrees, Working, AtWork, Telling, ToldOnce
<1>5. CASE ~Live(id)
  <2>1. overtaken' = overtaken
    BY <1>5 DEF CheckWrites
  <2> QED BY <1>1, <1>2, <1>3, <1>4, <1>5, <2>1 DEF BacklogInv, InOrder, Waits, Tells, Fits
<1>6. CASE Live(id)
  <2> DEFINE tr == checks[id].tr
             st == CASE tr \in {"stay-up", "recovered"} -> "up"
                     [] tr = "went-down"                -> "down"
                     [] OTHER                           -> status[id]
  <2>1. /\ status'[id] = st /\ lastCheck'[id] = Later
        /\ ~overtaken'[id] => /\ ~overtaken[id]
                              /\ pending[id] # {} => st = status[id] /\ st = StatusAt(id, Events)
    BY <1>6 DEF CheckWrites, PollTypes, Types
  <2> SUFFICES ASSUME ~overtaken'[id] PROVE InOrder(id)'
    BY DEF InOrder, Waits, Tells, Fits
  <2>2. InOrder(id) /\ ~overtaken[id]
    BY <2>1 DEF BacklogInv
  <2>3. Settled(id) /\ Checking(id) => Settled(id)'
    <3> SUFFICES ASSUME pending[id] = {}, Settled(id), Checking(id)
                 PROVE  openInc[id] = IF st = "down" THEN 1 ELSE 0
      BY <1>1, <2>1 DEF Settled, Halfway
    <3>1. openInc[id] = IF (status[id] = "down") <=> ~Changes(tr) THEN 1 ELSE 0
      BY <1>1 DEF Settled, Halfway
    <3>2. /\ tr = "went-down" => status[id] # "down"
          /\ tr = "recovered" => status[id] = "down"
          /\ tr = "stay-up" => status[id] # "down"
      BY <1>1 DEF Checking
    <3> QED BY <3>1, <3>2 DEF Changes
  <2>4. Following(id) => Following(id)'
    <3>1. AtWork(id) => event.e \in pending[id]
      BY <1>6 DEF AtWork, BacklogInv, BatchOK
    <3> QED BY <1>1, <2>1, <3>1 DEF Following, AtWork
  <2> QED BY <1>1, <1>2, <1>3, <1>4, <2>2, <2>3, <2>4 DEF InOrder, Waits, Tells, Fits
<1> QED BY <1>5, <1>6

LEMMA CheckInOrder ==
    ASSUME BacklogInv, PollTypes, NEW id \in Ids, CheckStep(id) \/ CheckFails(id), NEW k \in Ids
    PROVE  InOrder(k)'
<1>1. CASE k # id
  BY <1>1, OtherCheckInOrder
<1>2. CASE CheckFails(id) /\ k = id
  <2>1. /\ UNCHANGED <<rows, openInc, status, lastCheck, pending, event, newest, overtaken, crowded,
                       told, repeated>>
        /\ checks'[id] = NoCheck
        /\ torn'[id] <=> torn[id] \/ Halfway(id)
    BY <1>2 DEF CheckFails, CheckEnds, tables, PollTypes, Types
  <2> QED BY <1>2, <2>1, CutInOrder DEF BacklogInv
<1> QED BY <1>1, <1>2, CheckCases, BeginsInOrder, OpensInOrder, FindsInOrder, ClosesInOrder,
           WritesInOrder

----------------------------------------------------------------------------
(* The steps of an event                                                   *)

LEMMA ReadInOrder ==
    ASSUME BacklogInv, PollTypes, NEW id \in Ids, NEW e \in 1..Events, Read(id, e), NEW k \in Ids
    PROVE  InOrder(k)'
<1> USE EventsType
<1>1. /\ UNCHANGED <<rows, status, lastCheck, openInc, pending, checks, torn, crowded, told, repeated>>
      /\ event'.id = id /\ event'.e = e /\ event'.pc = (IF Live(id) THEN "find" ELSE "mark")
      /\ event'.behind = (lastCheck[id] > e) /\ event'.raced = FALSE /\ <<id, e>> \in batch
  BY DEF Read, tables
<1>2. CASE k # id
  <2>1. Aside(k)
    BY <1>1, <1>2 DEF Read, Aside, PollTypes, Types
  <2> QED BY <1>1, <1>2, <2>1, AsideInOrder DEF BacklogInv, Live
<1>3. CASE k = id
  <2>1. /\ overtaken'[id] = (overtaken[id] \/ (Live(id) /\ newest[id] > e))
        /\ newest'[id] = IF newest[id] < e /\ Live(id) THEN e ELSE newest[id]
        /\ newest[id] \in 0..Events /\ lastCheck[id] \in 0..Later
    BY DEF Read, PollTypes, Types
  <2> SUFFICES ASSUME ~overtaken'[id] PROVE InOrder(id)'
    BY <1>3 DEF InOrder, Waits, Tells, Fits
  <2>2. ~overtaken[id] /\ InOrder(id) /\ (Live(id) => newest[id] <= e)
    <3>1. ~overtaken[id] /\ ~(Live(id) /\ newest[id] > e)
      BY <2>1, Zenon
    <3>2. ~(newest[id] > e) => newest[id] <= e
      BY <2>1
    <3> QED BY <3>1, <3>2 DEF BacklogInv
  <2>3. CASE ~Live(id)
    <3>1. ~Live(id)' /\ newest'[id] = newest[id]
      BY <1>1, <2>1, <2>3 DEF Live
    <3>2. (ToldOnce(id) => ToldOnce(id)') /\ Telling(id)'
      BY <1>1, <2>3, <3>1 DEF ToldOnce, Telling
    <3> QED BY <1>1, <2>2, <3>1, <3>2 DEF InOrder, Waits, Tells, Fits
  <2>4. CASE Live(id)
    <3>1. newest'[id] = e /\ Live(id)' /\ event'.pc = "find"
      BY <1>1, <2>1, <2>2, <2>4 DEF Live
    <3>2. e \in pending[id]
      BY <1>1, <2>4 DEF BacklogInv, BatchOK
    <3>3. ToldOnce(id) => ToldOnce(id)'
      BY <1>1, <2>1, <2>2, <2>4, <3>1 DEF ToldOnce
    <3>4. Owing(id) /\ ToldOnce(id) => Owing(id)'
      <4>1. e \in told[id] /\ ToldOnce(id) => newest[id] = e
        BY <2>1, <2>2, <2>4 DEF ToldOnce
      <4> QED BY <1>1, <3>1, <3>2, <4>1 DEF Owing, Agrees
    <3>5. Working(id)' /\ Telling(id)'
      BY <1>1, <3>1 DEF Working, AtWork, Telling
    <3>6. /\ Waiting(id)' <=> Waiting(id)
          /\ Settled(id)' <=> Settled(id)
          /\ Checking(id)' <=> Checking(id)
      BY <1>1 DEF Waiting, Settled, Halfway, Checking
    <3>7. Following(id) => Following(id)'
      <4>1. newest[id] = Events => e = Events
        BY <2>1, <2>2, <2>4
      <4>2. event'.behind /\ e = Events => lastCheck[id] = Later
        <5>1. lastCheck[id] > Events => lastCheck[id] = Later
          BY <2>1
        <5> QED BY <1>1, <5>1, Zenon
      <4> QED BY <1>1, <3>1, <3>2, <4>1, <4>2 DEF Following, AtWork
    <3> QED BY <1>1, <2>2, <2>4, <3>1, <3>3, <3>4, <3>5, <3>6, <3>7 DEF InOrder, Waits, Tells, Fits
  <2> QED BY <2>3, <2>4
<1> QED BY <1>2, <1>3

\* An event at work goes on: other monitors have nothing to do with it.
LEMMA OthersInOrder ==
    ASSUME BacklogInv, PollTypes, rows' = rows, SameEvent \/ event'.pc = "idle",
           NEW k \in Ids, k # event.id, Aside(k)
    PROVE  InOrder(k)'
BY AsideInOrder DEF BacklogInv, SameEvent, Live

\* What is known of the monitor of an event at work.
LEMMA WorkInOrder ==
    ASSUME BacklogInv, PollTypes, event.pc # "idle"
    PROVE  /\ event.id \in Ids /\ event.e \in 1..Events /\ AtWork(event.id)
           /\ InOrder(event.id)
           /\ Live(event.id) => event.e \in pending[event.id]
           /\ ~Live(event.id) => openInc[event.id] = 0
<1>1. event.id \in Ids /\ event.e \in 1..Events
  BY DEF PollTypes, WorkOK
<1> QED BY <1>1 DEF BacklogInv, BatchOK, AtWork

LEMMA FindInOrder ==
    ASSUME BacklogInv, PollTypes, FindIncident, NEW k \in Ids
    PROVE  InOrder(k)'
<1>1. UNCHANGED <<tables, batch, checks, history>>
  BY DEF FindIncident
<1>2. Aside(k) /\ rows' = rows
  BY <1>1 DEF tables, history, Aside
<1>3. /\ SameEvent /\ event.pc = "find"
      /\ event'.pc \in {"record", "status", "mark"}
      /\ event'.pc = "record" <=> (Incident(event.id, event.e) <=> (openInc[event.id] = 0))
  BY FindOK
<1>4. CASE k # event.id
  BY <1>2, <1>3, <1>4, OthersInOrder
<1>5. CASE k = event.id
  <2>1. /\ InOrder(k) /\ AtWork(k)
        /\ Live(k) => event.e \in pending[k]
        /\ ~Live(k) => openInc[k] = 0
    BY <1>3, <1>5, WorkInOrder
  <2>2. /\ Live(k)' <=> Live(k)
        /\ ToldOnce(k) => ToldOnce(k)'
        /\ Owing(k) => Owing(k)'
        /\ Waiting(k) => Waiting(k)'
        /\ Settled(k) => Settled(k)'
        /\ Checking(k) => Checking(k)'
    BY <1>2 DEF Aside, ToldOnce, Owing, Agrees, Waiting, Settled, Halfway, Checking, Live
  <2>3. event'.pc = "mark" => event.behind
    BY <1>3 DEF FindIncident, Onward, PollTypes, Types, Work
  <2>4. Following(k) => Following(k)'
    BY <1>2, <1>3, <1>5, <2>1, <2>3 DEF Following, AtWork, Aside, SameEvent
  <2>5. ASSUME Live(k), Owing(k), Working(k) PROVE Working(k)' /\ Telling(k)'
    <3>1. event.e \in pending[k] /\ event.e = newest[k] /\ ~event.raced
      BY <1>3, <2>1, <2>5 DEF Working
    <3>2. openInc[k] \in {0, 1} /\ (event.e \in told[k] => Agrees(k, event.e))
      BY <2>5, <3>1 DEF Owing
    <3>3. event'.pc = "record" <=> ~Agrees(k, event.e)
      BY <1>3, <1>5, <3>2 DEF Agrees
    <3>4. Agrees(k, event.e)' <=> Agrees(k, event.e)
      BY <1>2, <1>3 DEF Agrees, Aside, SameEvent
    <3>5. Working(k)'
      BY <1>2, <1>3, <1>5, <3>1, <3>3, <3>4 DEF Working, AtWork, Aside, SameEvent
    <3>6. Telling(k)'
      BY <1>2, <1>3, <1>5, <3>1, <3>2, <3>3 DEF Telling, Aside, SameEvent
    <3> QED BY <3>5, <3>6
  <2>6. ASSUME ~Live(k) PROVE Telling(k)'
    <3>1. event'.pc = "record" => Incident(event.id, event.e)
      BY <1>3, <1>5, <2>1, <2>6
    <3> QED BY <1>3, <1>5, <2>2, <2>6, <3>1 DEF Telling, SameEvent
  <2> QED BY <1>2, <2>1, <2>2, <2>4, <2>5, <2>6 DEF InOrder, Waits, Tells, Fits, Aside
<1> QED BY <1>4, <1>5

LEMMA RecordInOrder ==
    ASSUME BacklogInv, PollTypes, Record, NEW k \in Ids
    PROVE  InOrder(k)'
<1>1. /\ UNCHANGED <<rows, status, lastCheck, pending, newest, overtaken, torn, crowded, told, repeated>>
      /\ event.pc = "record" /\ event.id \in Ids
  BY DEF Record, history, PollTypes, WorkOK
<1>2. event'.pc = AfterRecord /\ AfterRecord \in {"tell", "status", "mark"} /\ SameEvent
  BY OnwardOK, AfterOK DEF Record
<1>3. CASE k # event.id
  <2>1. openInc'[k] = openInc[k]
    BY <1>1, <1>3 DEF Record, Closes, PollTypes, Types
  <2>2. checks'[k] = checks[k]
    BY <1>1, <1>3 DEF Record, PollTypes, Types
  <2> QED BY <1>1, <1>2, <1>3, <2>1, <2>2, OthersInOrder DEF Aside
<1>4. CASE k = event.id
  <2>1. /\ InOrder(k) /\ AtWork(k) /\ event.e \in 1..Events
        /\ Live(k) => event.e \in pending[k]
    BY <1>1, <1>4, WorkInOrder
  <2>2. /\ checks'[k].pc = checks[k].pc /\ checks'[k].tr = checks[k].tr
        /\ checks[k].pc # "close" => checks'[k].raced = checks[k].raced
    <3>1. CASE checks' = checks
      BY <3>1
    <3>2. CASE checks' = [checks EXCEPT ![k].raced = @ \/ checks[k].pc = "close"]
      <4> DEFINE c == [checks[k] EXCEPT !.raced = @ \/ checks[k].pc = "close"]
      <4>1. checks[k] \in CheckWork
        BY DEF PollTypes, Types
      <4>2. checks'[k] = c
        BY <3>2 DEF PollTypes, Types
      <4>3. c.pc = checks[k].pc /\ c.tr = checks[k].tr /\ c.raced = (checks[k].raced \/ checks[k].pc = "close")
        BY <4>1 DEF CheckWork
      <4>4. checks[k].pc # "close" => (checks[k].raced \/ checks[k].pc = "close") = checks[k].raced
        BY <4>1 DEF CheckWork
      <4> HIDE DEF c
      <4> QED BY <4>2, <4>3, <4>4
    <3> QED BY <1>4, <3>1, <3>2 DEF Record
  <2>3. /\ Live(k)' <=> Live(k)
        /\ ToldOnce(k) => ToldOnce(k)'
    BY <1>1 DEF ToldOnce, Live
  <2>4. event'.pc = "mark" => event.behind
    BY <1>2 DEF AfterRecord
  <2>5. ASSUME Live(k), Waiting(k) PROVE Waiting(k)'
    <3>1. checks[k].pc \notin {"find", "close"}
      <4>1. checks[k].pc \in {"find", "close"} => checks[k].tr = "recovered"
        BY DEF PollTypes, WorkOK, CheckOK
      <4> QED BY <2>1, <2>5, <4>1 DEF Waiting, Changes
    <3> QED BY <1>1, <2>2, <2>5, <3>1 DEF Waiting
  <2>6. ASSUME Live(k) PROVE /\ Settled(k)'
                             /\ Following(k) => Following(k)'
                             /\ Checking(k) => Checking(k)'
    <3>1. Settled(k)'
      BY <1>1, <2>1, <2>6 DEF Settled
    <3>2. Following(k) => Following(k)'
      BY <1>1, <1>2, <1>4, <2>1, <2>4 DEF Following, AtWork, SameEvent
    <3>3. Checking(k) => Checking(k)'
      BY <1>1, <2>2 DEF Checking
    <3> QED BY <3>1, <3>2, <3>3
  <2>7. ASSUME Live(k), Owing(k), Working(k), Telling(k) PROVE Owing(k)' /\ Working(k)' /\ Telling(k)'
    <3>1. /\ ~Agrees(k, event.e) /\ newest[k] \notin told[k] /\ event.e = newest[k] /\ ~event.raced
          /\ openInc[k] \in {0, 1}
      BY <1>1, <1>4, <2>1, <2>7 DEF Working, Telling, Owing
    <3>2. openInc'[k] = IF Incident(k, event.e) THEN 1 ELSE 0
      <4>1. CASE Incident(k, event.e)
        BY <1>1, <1>4, <3>1, <4>1 DEF Record, Agrees, PollTypes, Types
      <4>2. CASE ~Incident(k, event.e)
        <5>1. event.raced \in BOOLEAN /\ Closes(k, event.raced)
          BY <1>4, <4>2 DEF Record, PollTypes, Types, Work
        <5>2. openInc'[k] = IF openInc[k] = 0 THEN 0 ELSE openInc[k] - 1
          BY <1>1, <1>4, <3>1, <5>1, ClosesOK
        <5> QED BY <3>1, <4>2, <5>2
      <4> QED BY <4>1, <4>2
    <3>3. Owing(k)'
      BY <1>1, <3>1, <3>2 DEF Owing
    <3>4. Working(k)'
      <4>1. Agrees(k, event.e)' /\ event'.e = event.e
        BY <1>2, <3>2 DEF Agrees, SameEvent
      <4> QED BY <1>1, <1>2, <1>4, <3>1, <4>1 DEF Working, AtWork, SameEvent
    <3>5. Telling(k)'
      BY <1>1, <1>2, <3>1 DEF Telling, SameEvent
    <3> QED BY <3>3, <3>4, <3>5
  <2>8. ASSUME ~Live(k), Telling(k) PROVE Telling(k)'
    <3>1. ~Incident(event.id, event.e)
      BY <1>4, <2>8 DEF Record
    <3> QED BY <1>1, <1>2, <1>4, <2>3, <2>8, <3>1 DEF Telling, SameEvent
  <2> QED BY <1>1, <2>1, <2>3, <2>5, <2>6, <2>7, <2>8 DEF InOrder, Waits, Tells, Fits
<1> QED BY <1>3, <1>4

LEMMA TellInOrder ==
    ASSUME BacklogInv, PollTypes, Tell \/ TellFails, NEW k \in Ids
    PROVE  InOrder(k)'
<1>1. /\ UNCHANGED <<rows, status, lastCheck, openInc, pending, checks, newest, overtaken, torn, crowded>>
      /\ event.pc = "tell" /\ event.id \in Ids
  BY DEF Tell, TellFails, tables, history, PollTypes, WorkOK
<1>2. event'.pc = AfterTell /\ AfterTell \in {"status", "mark"} /\ SameEvent
  BY OnwardOK, AfterOK DEF Tell, TellFails
<1>3. CASE k # event.id
  <2>1. Aside(k)
    BY <1>1, <1>3 DEF Tell, TellFails, history, Aside, PollTypes, Types
  <2> QED BY <1>1, <1>2, <1>3, <2>1, OthersInOrder
<1>4. CASE k = event.id
  <2>1. /\ InOrder(k) /\ AtWork(k) /\ event.e \in 1..Events
        /\ Live(k) => event.e \in pending[k]
    BY <1>1, <1>4, WorkInOrder
  <2>2. /\ Live(k)' <=> Live(k)
        /\ Waiting(k) => Waiting(k)'
        /\ Settled(k) => Settled(k)'
        /\ Checking(k) => Checking(k)'
    BY <1>1 DEF Live, Waiting, Settled, Halfway, Checking
  <2>3. event'.pc = "mark" => event.behind
    BY <1>2 DEF AfterTell
  <2>4. Following(k) => Following(k)'
    BY <1>1, <1>2, <1>4, <2>1, <2>3 DEF Following, AtWork, SameEvent
  <2>5. Telling(k)'
    BY <1>2 DEF Telling
  <2>6. ASSUME Telling(k), ToldOnce(k)
        PROVE  /\ event.e = newest[k] /\ ToldOnce(k)'
               /\ told'[k] \in {told[k], told[k] \cup {event.e}}
    <3>1. event.e = newest[k] /\ newest[k] \notin told[k]
      BY <1>1, <1>4, <2>6 DEF Telling
    <3>2. /\ told'[k] \in {told[k], told[k] \cup {event.e}}
          /\ ~repeated'[k]
      <4>1. CASE Tell
        <5>1. /\ told' = [told EXCEPT ![k] = @ \cup {event.e}]
              /\ repeated' = [repeated EXCEPT ![k] = @ \/ event.e \in told[k]]
          BY <1>4, <4>1 DEF Tell
        <5>2. ~repeated[k] /\ event.e \notin told[k]
          BY <2>6, <3>1 DEF ToldOnce
        <5> QED BY <5>1, <5>2 DEF PollTypes, Types
      <4>2. CASE TellFails
        BY <2>6, <4>2 DEF TellFails, history, ToldOnce
      <4> QED BY <4>1, <4>2
    <3> QED BY <1>1, <2>1, <2>6, <3>1, <3>2 DEF ToldOnce
  <2>7. ASSUME Live(k), Owing(k), Working(k), Telling(k), ToldOnce(k) PROVE Owing(k)' /\ Working(k)'
    <3>1. Agrees(k, event.e) /\ (Agrees(k, event.e)' <=> openInc[k] = IF Incident(k, event'.e) THEN 1 ELSE 0)
      BY <1>1, <2>1, <2>7 DEF Working, Agrees
    <3>2. Owing(k)'
      BY <1>1, <2>1, <2>6, <2>7, <3>1 DEF Owing, Agrees
    <3>3. Working(k)'
      BY <1>1, <1>2, <1>4, <2>1, <2>7, <3>1 DEF Working, AtWork, SameEvent, Agrees
    <3> QED BY <3>2, <3>3
  <2> QED BY <1>1, <2>1, <2>2, <2>4, <2>5, <2>6, <2>7 DEF InOrder, Waits, Tells, Fits
<1> QED BY <1>3, <1>4

LEMMA SetStatusInOrder ==
    ASSUME BacklogInv, PollTypes, SetStatus, NEW k \in Ids
    PROVE  InOrder(k)'
<1>1. /\ UNCHANGED <<rows, openInc, pending, checks, newest, overtaken, torn, crowded, told, repeated>>
      /\ event.pc = "status" /\ event.id \in Ids /\ ~event.behind
  BY DEF SetStatus, history, PollTypes, WorkOK, BacklogInv, BatchOK
<1>2. event'.pc = "mark" /\ SameEvent
  BY OnwardOK DEF SetStatus
<1>3. CASE k # event.id
  <2>1. Aside(k)
    BY <1>1, <1>3 DEF SetStatus, Aside, PollTypes, Types
  <2> QED BY <1>1, <1>2, <1>3, <2>1, OthersInOrder
<1>4. CASE k = event.id
  <2>1. /\ InOrder(k) /\ AtWork(k) /\ event.e \in 1..Events
        /\ Live(k) => event.e \in pending[k]
    BY <1>1, <1>4, WorkInOrder
  <2>2. /\ Live(k)' <=> Live(k)
        /\ ToldOnce(k) => ToldOnce(k)'
        /\ Telling(k)'
        /\ Waiting(k) => Waiting(k)'
        /\ Owing(k) => Owing(k)'
    BY <1>1, <1>2 DEF Live, ToldOnce, Telling, Waiting, Owing, Agrees
  <2>3. Working(k) => Working(k)'
    BY <1>1, <1>2, <1>4, <2>1 DEF Working, AtWork, SameEvent, Agrees
  <2>4. ASSUME Live(k), Waiting(k), Following(k), Checking(k)
        PROVE  Settled(k)' /\ Following(k)' /\ Checking(k)'
    <3>1. status'[k] = StatusAt(k, event.e) /\ lastCheck'[k] = event.e
      BY <1>4, <2>4 DEF SetStatus, PollTypes, Types
    <3>2. lastCheck'[k] # Later
      BY <2>1, <3>1, EventsType
    <3>3. Settled(k)'
      BY <1>1, <2>1, <2>4 DEF Settled
    <3>4. Following(k)'
      BY <1>1, <1>2, <2>1, <2>4, <3>1, <3>2 DEF Following, AtWork, SameEvent
    <3>5. Checking(k)'
      BY <1>1, <2>1, <2>4 DEF Checking, Waiting, Changes
    <3> QED BY <3>3, <3>4, <3>5
  <2> QED BY <1>1, <2>1, <2>2, <2>3, <2>4 DEF InOrder, Waits, Tells, Fits
<1> QED BY <1>3, <1>4

\* The last event to be marked is the last there is, and the status its own.
LEMMA MarkInOrder ==
    ASSUME BacklogInv, PollTypes, Mark, NEW k \in Ids
    PROVE  InOrder(k)'
<1>1. /\ UNCHANGED <<rows, status, lastCheck, openInc, checks, newest, overtaken, torn, crowded, told, repeated>>
      /\ event.pc = "mark" /\ event'.pc = "idle" /\ event.id \in Ids
  BY NoEventOK DEF Mark, history, PollTypes, WorkOK
<1>2. pending'[k] = IF k = event.id THEN pending[k] \ {event.e} ELSE pending[k]
  BY DEF Mark, PollTypes, Types
<1>3. CASE k # event.id
  <2>1. Aside(k)
    BY <1>1, <1>2, <1>3 DEF Aside
  <2> QED BY <1>1, <1>3, <2>1, OthersInOrder
<1>4. CASE k = event.id
  <2>1. /\ InOrder(k) /\ AtWork(k) /\ event.e \in 1..Events
        /\ Live(k) => event.e \in pending[k]
    BY <1>1, <1>4, WorkInOrder
  <2>2. /\ Live(k)' <=> Live(k)
        /\ ToldOnce(k) => ToldOnce(k)'
        /\ Telling(k)' /\ Working(k)'
        /\ Live(k) /\ Waiting(k) => Waiting(k)'
    BY <1>1, <1>2, <2>1 DEF Live, ToldOnce, Telling, Working, AtWork, Waiting
  <2>3. Owing(k) => Owing(k)'
    BY <1>1, <1>2 DEF Owing, Agrees
  <2>4. ASSUME Live(k), Waiting(k), Working(k), Following(k), Checking(k)
        PROVE  Settled(k)' /\ Following(k)' /\ Checking(k)'
    <3>1. /\ Agrees(k, event.e) /\ event.e = newest[k]
          /\ event.behind /\ event.e = Events => lastCheck[k] = Later
          /\ ~event.behind => status[k] = StatusAt(k, event.e)
      BY <1>1, <2>1, <2>4 DEF Working, Following
    <3>2. /\ Events \in pending[k] \/ event.e = Events
          /\ lastCheck[k] = Later => status[k] = StatusAt(k, Events)
      BY <2>1, <2>4, <3>1 DEF Following
    <3>3. pending'[k] = {} => event.e = Events /\ status[k] = StatusAt(k, Events)
      BY <1>2, <1>4, <3>1, <3>2
    <3>4. Settled(k)'
      <4>1. ~Halfway(k)'
        BY <1>1, <2>1, <2>4 DEF Halfway, Waiting
      <4>2. pending'[k] = {} => openInc[k] = IF status[k] = "down" THEN 1 ELSE 0
        BY <3>1, <3>3 DEF Agrees, StatusAt
      <4> QED BY <1>1, <4>1, <4>2 DEF Settled
    <3>5. Following(k)'
      BY <1>1, <1>2, <1>4, <3>1, <3>2 DEF Following, AtWork
    <3>6. Checking(k)'
      <4>1. checks[k].pc # "idle" => ~Changes(checks[k].tr)
        BY <2>1, <2>4 DEF Waiting
      <4>2. checks[k].pc # "idle" /\ checks[k].tr = "stay-up" => ~Incident(k, Events)
        BY <2>1, <2>4 DEF Checking
      <4> QED BY <1>1, <3>3, <4>1, <4>2 DEF Checking, Changes, StatusAt
    <3> QED BY <3>4, <3>5, <3>6
  <2> QED BY <1>1, <2>1, <2>2, <2>3, <2>4 DEF InOrder, Waits, Tells, Fits
<1> QED BY <1>3, <1>4

----------------------------------------------------------------------------

LEMMA NextInOrder ==
    ASSUME BacklogInv, PollTypes, DeletesRow, HandInv, [Next]_vars, NEW k \in Ids
    PROVE  InOrder(k)'
<1>1. ASSUME Aside(k), rows' = rows, event' = event \/ event'.pc = "idle"
      PROVE  InOrder(k)'
  BY <1>1, AsideInOrder DEF BacklogInv, Live
<1>2. CASE MuteAll /\ Silence({r.id : r \in RowsOf(hand.chat)})
  BY <1>1, <1>2 DEF MuteAll, Silence, Aside
<1>3. CASE Poll
  BY <1>1, <1>3 DEF Poll, tables, history, Aside
<1>4. CASE Rejected \/ EventFails
  BY <1>1, <1>4, NoEventOK DEF Rejected, EventFails, tables, history, Aside
<1>5. CASE Crashes
  <2>1. /\ UNCHANGED <<rows, openInc, status, lastCheck, pending, newest, overtaken, crowded, told, repeated>>
        /\ checks'[k] = NoCheck /\ event'.pc = "idle"
        /\ torn'[k] <=> torn[k] \/ Halfway(k)
    BY <1>5, NoEventOK DEF Crashes, tables
  <2> QED BY <2>1, CutInOrder DEF BacklogInv
<1>6. CASE Untouched
  BY <1>1, <1>6 DEF Untouched, poller, history, Aside
<1>7. ASSUME NEW id \in Ids, CheckStep(id) \/ CheckFails(id) PROVE InOrder(k)'
  BY <1>7, CheckInOrder
<1> QED BY <1>2, <1>3, <1>4, <1>5, <1>6, <1>7, CreateInOrder, DeleteInOrder, ReadInOrder,
           FindInOrder, RecordInOrder, TellInOrder, SetStatusInOrder, MarkInOrder, PollCases
        DEF EventStep

LEMMA BacklogHolds == Spec => []BacklogInv
<1>1. Init => BacklogInv
  BY InitBatchOK, InitInOrder DEF BacklogInv
<1>2. BacklogInv /\ PollTypes /\ DeletesRow /\ HandInv /\ [Next]_vars => BacklogInv'
  BY NextBatchOK, NextInOrder DEF BacklogInv
<1> QED BY <1>1, <1>2, PollTypesHold, DeletesRowHolds, HandIsOK, PTL DEF Spec

\* When a backlog of any length has been worked off and no check is at work, a monitor has
\* one open incident if it is down and none otherwise, over any failures, crashes, commands
\* and checks; excepted is one of which an event was overtaken, or whose status and
\* incidents were torn apart, by a probe or by a check that was cut off.
THEOREM BacklogMatches == Spec => []StatusMatchesIncidents
<1>1. ASSUME BacklogInv, PollTypes PROVE StatusMatchesIncidents
  <2> SUFFICES ASSUME NEW id \in Ids, Live(id), pending[id] = {}, checks[id].pc = "idle",
                      ~overtaken[id], ~torn[id]
               PROVE  Matches(id)
    BY DEF StatusMatchesIncidents
  <2>1. Settled(id) /\ ~Halfway(id)
    BY <1>1 DEF BacklogInv, InOrder, Fits, Halfway
  <2> QED BY <2>1 DEF Settled, Matches
<1> QED BY <1>1, BacklogHolds, PollTypesHold, PTL

\* And each of its events was announced once at most, however often it was handled, even
\* where a probe or a check had torn status and incidents apart: the exceptions are an
\* event that was overtaken, and a backlog begun with two incidents open.
THEOREM AnnouncedOnceHolds == Spec => []AnnouncedOnce
<1>1. BacklogInv /\ PollTypes => AnnouncedOnce
  BY DEF BacklogInv, InOrder, Tells, ToldOnce, AnnouncedOnce, PollTypes, Types
<1> QED BY <1>1, BacklogHolds, PollTypesHold, PTL
=============================================================================
