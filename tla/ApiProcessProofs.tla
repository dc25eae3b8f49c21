-------------------------- MODULE ApiProcessProofs --------------------------
(***************************************************************************)
(* What holds of the bot for every number of chats, URLs and monitors, for *)
(* every plan and bucket, with every fault allowed: the rate of a chat's   *)
(* commands, and what its monitors may be.                                 *)
(***************************************************************************)
EXTENDS ApiProcess, FiniteSetTheorems, TLAPS

----------------------------------------------------------------------------
(* The token bucket                                                        *)

\* Lazily refilled, the bucket holds what the busiest window has left over.
BucketExact ==
    /\ bucket \in [Chats -> [tokens : 0..Full, lag : 0..Full]]
    /\ busiest \in [Chats -> 0..Full]
    /\ \A c \in Chats : Least(Full, bucket[c].tokens + bucket[c].lag) = Full - busiest[c]

LEMMA FullType == Full \in Nat /\ Cost \in Nat \ {0}
<1>1. Capacity \in Nat /\ Cost \in Nat \ {0}
  BY BotAssumption
<1>2. Capacity * Cost \in Nat
  BY <1>1
<1> QED BY <1>1, <1>2 DEF Full

LEMMA InitBucket == Init => BucketExact
BY FullType DEF Init, BotInit, BucketExact, Least

\* Only a command that comes, the clock and a restart touch the bucket.
LEMMA LimiterCases ==
    ASSUME [Next]_vars
    PROVE  \/ \E c \in Chats, cmd \in Command : \E u \in Argument(cmd) : Take(c, cmd, u)
           \/ Elapse
           \/ BotRestarts
           \/ UNCHANGED limiter
<1>1. CASE \E c \in Chats : TakeStep(c)
  BY <1>1, SentAssumption DEF TakeStep
<1>2. CASE \E id \in Ids : MonitorStep(id)
  BY <1>2 DEF MonitorStep, bot
<1>3. CASE HandStep
  BY <1>3 DEF HandStep, Resolve, FindUser, Dedupe, Count, Look, Reply, Create, Delete, MuteAll
<1>4. CASE PollStep \/ UNCHANGED vars
  BY <1>4 DEF PollStep, bot, vars
<1>5. CASE Clock
  BY <1>5 DEF Clock
<1>6. CASE DbError \/ TelegramError
  BY <1>6 DEF DbError, TelegramError, CommandFails, ReplyFails, bot
<1>7. CASE Crash
  BY <1>7 DEF Crash
<1> QED BY <1>1, <1>2, <1>3, <1>4, <1>5, <1>6, <1>7 DEF Next

LEMMA TakeBucket ==
    ASSUME BucketExact, NEW c \in Chats, NEW cmd \in Command, NEW u, Take(c, cmd, u)
    PROVE  BucketExact'
<1> DEFINE left == Refill(c)
           price == Charge(c)
<1>1. left \in 0..Full /\ left = Full - busiest[c]
  BY FullType DEF BucketExact, Refill, Least
<1>2. price \in 0..left
  BY <1>1, FullType DEF Charge
<1>3. /\ bucket' = [bucket EXCEPT ![c] = [tokens |-> left - price, lag |-> 0]]
      /\ busiest' = [busiest EXCEPT ![c] = @ + price]
  BY DEF Take, Charge
<1> HIDE DEF left, price
<1>4. busiest[c] + price \in 0..Full
  BY <1>1, <1>2, FullType DEF BucketExact
<1>5. left - price \in 0..Full
  BY <1>1, <1>2, FullType
<1>6. Least(Full, (left - price) + 0) = Full - (busiest[c] + price)
  BY <1>1, <1>2, <1>5, FullType DEF BucketExact, Least
<1> QED BY <1>3, <1>4, <1>5, <1>6, FullType DEF BucketExact

LEMMA ElapseBucket == ASSUME BucketExact, Elapse PROVE BucketExact'
<1>1. ASSUME NEW c \in Chats
      PROVE  /\ bucket'[c] = [tokens |-> bucket[c].tokens, lag |-> Least(Full, bucket[c].lag + 1)]
             /\ busiest'[c] = IF busiest[c] = 0 THEN 0 ELSE busiest[c] - 1
             /\ Least(Full, bucket'[c].tokens + bucket'[c].lag) = Full - busiest'[c]
             /\ bucket'[c] \in [tokens : 0..Full, lag : 0..Full]
             /\ busiest'[c] \in 0..Full
  <2>1. bucket[c] \in [tokens : 0..Full, lag : 0..Full] /\ busiest[c] \in 0..Full
    BY DEF BucketExact
  <2>2. /\ bucket'[c] = [tokens |-> bucket[c].tokens, lag |-> Least(Full, bucket[c].lag + 1)]
        /\ busiest'[c] = IF busiest[c] = 0 THEN 0 ELSE busiest[c] - 1
    BY <2>1 DEF Elapse
  <2>3. Least(Full, bucket[c].tokens + bucket[c].lag) = Full - busiest[c]
    BY DEF BucketExact
  <2> QED BY <2>1, <2>2, <2>3, FullType DEF Least
<1>2. bucket' \in [Chats -> [tokens : 0..Full, lag : 0..Full]] /\ busiest' \in [Chats -> 0..Full]
  BY <1>1 DEF Elapse
<1> QED BY <1>1, <1>2 DEF BucketExact

LEMMA NextBucket == BucketExact /\ [Next]_vars => BucketExact'
<1> SUFFICES ASSUME BucketExact, [Next]_vars PROVE BucketExact'
  OBVIOUS
<1>1. CASE BotRestarts
  <2>1. \A c \in Chats : busiest[c] \in 0..Full
    BY DEF BucketExact
  <2>2. busiest' = [c \in Chats |-> 0]
    BY <1>1, <2>1, FullType DEF BotRestarts
  <2> QED BY <1>1, <2>2, FullType DEF BotRestarts, BucketExact, Least
<1>2. CASE UNCHANGED limiter
  BY <1>2 DEF limiter, BucketExact
<1> QED BY <1>1, <1>2, LimiterCases, TakeBucket, ElapseBucket

LEMMA BucketIsExact == Spec => []BucketExact
BY InitBucket, NextBucket, PTL DEF Spec

\* Whatever the capacity and the price of a command, a chat is answered no more, in a
\* window of any length, than its length and a full bucket pay for, and another full
\* bucket for each restart in the window.
THEOREM RateHolds == Spec => []AnsweredWithinRate
<1>1. BucketExact => AnsweredWithinRate
  BY FullType DEF BucketExact, AnsweredWithinRate
<1> QED BY <1>1, BucketIsExact, PTL

----------------------------------------------------------------------------
(* The command in hand                                                     *)

\* Between commands there is nothing in hand.
HandIdle == hand.pc = "idle" => hand = NoHand

LEMMA NoHandIdle == NoHand.pc = "idle" /\ NoHand.say = "nothing"
BY DEF NoHand

HandOK == hand \in Hand /\ HandIdle

LEMMA CheckRows == \A id \in Ids : CheckStep(id) \/ CheckFails(id) => UNCHANGED <<users, rows>>
<1> SUFFICES ASSUME NEW id \in Ids, CheckStep(id) \/ CheckFails(id)
             PROVE  UNCHANGED <<users, rows>>
  OBVIOUS
<1>1. CASE \E out \in HeartbeatStatus : CheckBegins(id, out)
  BY <1>1 DEF CheckBegins, tables
<1>2. CASE CheckOpens(id) \/ CheckFinds(id) \/ CheckCloses(id) \/ CheckWrites(id)
  BY <1>2 DEF CheckOpens, CheckFinds, CheckCloses, CheckWrites, tables
<1>3. CASE CheckFails(id)
  BY <1>3 DEF CheckFails, tables
<1> QED BY <1>1, <1>2, <1>3 DEF CheckStep

\* How a step may treat the command and the rows.
LEMMA HandCases ==
    ASSUME [Next]_vars
    PROVE  \/ \E c \in Chats, cmd \in Command : \E u \in Argument(cmd) : Take(c, cmd, u)
           \/ Resolve \/ FindUser \/ Dedupe \/ Count \/ Look \/ Delete \/ MuteAll \/ Reply
           \/ \E id \in NewIds : Create(id)
           \/ CommandFails \/ ReplyFails
           \/ hand' = NoHand /\ UNCHANGED <<users, rows>>
           \/ UNCHANGED <<hand, users, rows>>
<1>1. CASE \E c \in Chats : TakeStep(c)
  BY <1>1, SentAssumption DEF TakeStep
<1>2. CASE \E id \in Ids : MonitorStep(id)
  BY <1>2, CheckRows DEF MonitorStep, bot
<1>3. CASE HandStep
  BY <1>3 DEF HandStep
<1>4. CASE PollStep
  BY <1>4 DEF PollStep, bot, EventStep, Poll, Read, FindIncident, Record, Tell, SetStatus,
              Mark, Rejected, tables
<1>5. CASE Clock
  BY <1>5 DEF Clock, Elapse, tables
<1>6. CASE DbError \/ TelegramError
  BY <1>6, CheckRows DEF DbError, TelegramError, EventFails, TellFails, bot, tables
<1>7. CASE Crash
  BY <1>7 DEF Crash, BotRestarts, tables
<1>8. CASE UNCHANGED vars
  BY <1>8 DEF vars, bot, tables
<1> QED BY <1>1, <1>2, <1>3, <1>4, <1>5, <1>6, <1>7, <1>8 DEF Next

LEMMA InitHand == Init => HandOK
<1>1. NoHand \in Hand
  BY DEF NoHand, Hand, HandPc, Saying, Command
<1> QED BY <1>1 DEF Init, BotInit, HandOK, HandIdle

LEMMA TakeHand ==
    ASSUME NEW c \in Chats, NEW cmd \in Command, NEW u \in Argument(cmd), Take(c, cmd, u)
    PROVE  /\ hand' \in Hand
           /\ hand'.pc \in {"reply", "resolve", "user"}
           /\ hand'.say = IF Refill(c) >= Cost THEN "nothing" ELSE "slow down"
           /\ hand'.chat = c
<1> DEFINE pc == IF ~(Refill(c) >= Cost) THEN "reply" ELSE IF cmd = "add" THEN "resolve" ELSE "user"
           say == IF Refill(c) >= Cost THEN "nothing" ELSE "slow down"
<1>1. hand' = [NoHand EXCEPT !.cmd = cmd, !.chat = c, !.url = u, !.pc = pc, !.say = say]
  BY DEF Take
<1>2. u \in Urls \cup {"none"}
  BY DEF Argument, Command
<1>3. pc \in {"reply", "resolve", "user"}
  OBVIOUS
<1> HIDE DEF pc, say
<1>4. hand' = [pc |-> pc, cmd |-> cmd, chat |-> c, url |-> u, row |-> NoRow, say |-> say]
  BY <1>1 DEF NoHand
<1>5. pc \in HandPc /\ say \in Saying
  BY DEF pc, say, HandPc, Saying
<1> QED BY <1>2, <1>3, <1>4, <1>5 DEF Hand, say

\* Places only /add comes to.
AddPc == {"dedupe", "count", "create"}

\* A handler's step moves the command on; what it was sent as stays.
SameCommand ==
    /\ hand' \in Hand
    /\ hand'.pc # "idle"
    /\ hand'.say # "slow down"
    /\ hand'.cmd = hand.cmd /\ hand'.chat = hand.chat /\ hand'.url = hand.url

LEMMA HandMoves ==
    ASSUME HandOK, hand.pc # "idle",
           NEW pc \in HandPc \ {"idle"}, NEW say \in Saying \ {"slow down"},
           hand' = [hand EXCEPT !.pc = pc, !.say = say]
    PROVE  SameCommand /\ hand'.pc = pc
BY DEF HandOK, Hand, SameCommand

LEMMA GoesOn ==
    ASSUME HandOK, hand.pc # "idle", hand.say # "slow down",
           NEW pc \in HandPc \ {"idle"}, Goes(pc)
    PROVE  SameCommand /\ hand'.pc = pc
BY DEF Goes, HandOK, Hand, SameCommand

LEMMA PlacesToGo ==
    {"user", "dedupe", "look", "mute", "count", "create"} \subseteq HandPc \ {"idle"}
BY DEF HandPc

LEMMA SaysSo ==
    ASSUME HandOK, hand.pc # "idle", NEW say \in Saying \ {"slow down"}, Says(say)
    PROVE  SameCommand /\ hand'.pc = "reply"
BY DEF Says, HandOK, Hand, HandPc, SameCommand

\* Only a reply is "slow down".
Refusal == hand.say = "slow down" => hand.pc = "reply"

LEMMA HandlerMoves ==
    ASSUME HandOK, Refusal, rows \subseteq Row,
           \/ Resolve \/ FindUser \/ Dedupe \/ Count \/ Look \/ Delete \/ MuteAll
           \/ (\E id \in Ids : Create(id)) \/ CommandFails
    PROVE  /\ SameCommand /\ hand.pc # "idle"
           /\ hand'.pc \in AddPc => hand.pc \in AddPc \/ hand.cmd = "add"
           /\ hand'.pc = "count" => Dedupe
           /\ hand'.pc = "create" => Count
           /\ hand'.pc = "delete" => Look
<1>1. CASE Resolve
  <2>1. hand.pc = "resolve" /\ hand.say # "slow down"
    BY <1>1 DEF Resolve, Refusal
  <2>2. CASE Goes("user")
    <3>1. SameCommand /\ hand'.pc = "user"
      BY <2>1, <2>2, GoesOn, PlacesToGo
    <3> QED BY <2>1, <3>1 DEF AddPc
  <2>3. CASE Says("refused")
    BY <2>1, <2>3, SaysSo DEF Saying, AddPc
  <2> QED BY <1>1, <2>1, <2>2, <2>3 DEF Resolve
<1>2. CASE FindUser
  <2>1. hand.pc = "user" /\ hand.say # "slow down" /\ hand.cmd \in Command
    BY <1>2 DEF FindUser, Refusal, HandOK, Hand
  <2>2. \/ Says("no monitors") \/ Says("list") \/ Goes("look") \/ Goes("mute")
        \/ Goes("dedupe") /\ hand.cmd = "add"
    BY <1>2, <2>1, Zenon DEF FindUser, Command
  <2>3. CASE Says("no monitors") \/ Says("list")
    BY <2>1, <2>3, SaysSo DEF Saying, AddPc
  <2>4. CASE Goes("look") \/ Goes("mute")
    <3>1. SameCommand /\ hand'.pc \in {"look", "mute"}
      BY <2>1, <2>4, GoesOn, PlacesToGo
    <3> QED BY <2>1, <3>1 DEF AddPc
  <2>5. CASE Goes("dedupe") /\ hand.cmd = "add"
    <3>1. SameCommand /\ hand'.pc = "dedupe"
      BY <2>1, <2>5, GoesOn, PlacesToGo
    <3> QED BY <2>1, <2>5, <3>1
  <2> QED BY <2>1, <2>2, <2>3, <2>4, <2>5
<1>3. CASE Dedupe
  <2>1. hand.pc = "dedupe" /\ hand.say # "slow down"
    BY <1>3 DEF Dedupe, Refusal
  <2>2. CASE Says("known")
    BY <2>1, <2>2, SaysSo DEF Saying, AddPc
  <2>3. CASE Goes("count")
    <3>1. SameCommand /\ hand'.pc = "count"
      BY <2>1, <2>3, GoesOn, PlacesToGo
    <3> QED BY <1>3, <2>1, <3>1 DEF AddPc
  <2> QED BY <1>3, <2>1, <2>2, <2>3 DEF Dedupe
<1>4. CASE Count
  <2>1. hand.pc = "count" /\ hand.say # "slow down"
    BY <1>4 DEF Count, Refusal
  <2>2. CASE Says("limit")
    BY <2>1, <2>2, SaysSo DEF Saying, AddPc
  <2>3. CASE Goes("create")
    <3>1. SameCommand /\ hand'.pc = "create"
      BY <2>1, <2>3, GoesOn, PlacesToGo
    <3> QED BY <1>4, <2>1, <3>1 DEF AddPc
  <2> QED BY <1>4, <2>1, <2>2, <2>3 DEF Count
<1>5. CASE Look
  <2>1. hand.pc = "look" /\ hand.say # "slow down"
    BY <1>5 DEF Look, Refusal
  <2>2. CASE Says("was not")
    BY <2>1, <2>2, SaysSo DEF Saying, AddPc
  <2>3. ASSUME NEW r \in Found, hand' = [hand EXCEPT !.pc = "delete", !.row = r]
        PROVE  SameCommand /\ hand'.pc = "delete"
    BY <2>1, <2>3 DEF Found, HandOK, Hand, HandPc, SameCommand
  <2> QED BY <1>5, <2>1, <2>2, <2>3 DEF Look, AddPc
<1>6. CASE Delete \/ MuteAll \/ (\E id \in Ids : Create(id)) \/ CommandFails
  <2>1. hand.pc \notin {"idle", "reply"} /\ hand.say # "slow down"
    BY <1>6 DEF Delete, MuteAll, Create, CommandFails, Refusal
  <2>2. Says("removed") \/ Says("muted") \/ Says("added") \/ Says("something went wrong")
    BY <1>6 DEF Delete, MuteAll, Create, CommandFails
  <2> QED BY <2>1, <2>2, SaysSo DEF Saying, AddPc
<1> QED BY <1>1, <1>2, <1>3, <1>4, <1>5, <1>6

HandArgs ==
    hand.pc # "idle" =>
        /\ hand.chat \in Chats
        /\ hand.url \in Argument(hand.cmd)
        /\ hand.pc \in AddPc => hand.cmd = "add"

HandInv == HandOK /\ Refusal /\ HandArgs /\ rows \subseteq Row

LEMMA InitHandInv == Init => HandInv
BY InitHand, NoHandIdle, BacklogAssumption
   DEF Init, BotInit, TablesInit, HandInv, Refusal, HandArgs

LEMMA NextHandInv == HandInv /\ [Next]_vars => HandInv'
<1> SUFFICES ASSUME HandInv, [Next]_vars PROVE HandInv'
  OBVIOUS
<1> USE DEF HandInv
<1>1. ASSUME NEW c \in Chats, NEW cmd \in Command, NEW u \in Argument(cmd), Take(c, cmd, u)
      PROVE  HandInv'
  <2>1. /\ hand' \in Hand
        /\ hand'.pc \in {"reply", "resolve", "user"}
        /\ hand'.say = IF Refill(c) >= Cost THEN "nothing" ELSE "slow down"
        /\ hand'.chat = c
    BY <1>1, TakeHand
  <2>2. hand'.cmd = cmd /\ hand'.url = u
    BY <1>1 DEF Take, NoHand
  <2>3. Refusal'
    <3>1. Refill(c) >= Cost => hand'.say # "slow down"
      BY <2>1
    <3>2. ~(Refill(c) >= Cost) => hand'.pc = "reply"
      BY <1>1 DEF Take, NoHand
    <3> QED BY <3>1, <3>2 DEF Refusal
  <2>4. rows' = rows
    BY <1>1 DEF Take, tables
  <2> QED BY <2>1, <2>2, <2>3, <2>4 DEF HandOK, HandIdle, HandArgs, AddPc
<1>2. ASSUME \/ Resolve \/ FindUser \/ Dedupe \/ Count \/ Look \/ Delete \/ MuteAll
             \/ (\E id \in Ids : Create(id)) \/ CommandFails
      PROVE  HandInv'
  <2>1. /\ SameCommand /\ hand.pc # "idle"
        /\ hand'.pc \in AddPc => hand.pc \in AddPc \/ hand.cmd = "add"
    BY <1>2, HandlerMoves
  <2>2. HandOK' /\ Refusal' /\ HandArgs'
    BY <2>1 DEF SameCommand, HandOK, HandIdle, Refusal, HandArgs
  <2>3. CASE \E id \in Ids : Create(id)
    <3>1. PICK id \in Ids : Create(id)
      BY <2>3
    <3>2. hand.chat \in Chats /\ hand.url \in Urls
      BY <3>1, <2>1 DEF Create, HandArgs, AddPc, Argument
    <3> QED BY <2>2, <3>1, <3>2 DEF Create, Row
  <2>4. CASE Delete
    BY <2>2, <2>4 DEF Delete, DeleteRow
  <2>5. CASE ~Delete /\ ~(\E id \in Ids : Create(id))
    BY <1>2, <2>2, <2>5 DEF Resolve, FindUser, Dedupe, Count, Look, MuteAll, CommandFails, tables
  <2> QED BY <2>3, <2>4, <2>5
<1>3. ASSUME hand' = NoHand, rows' = rows
      PROVE  HandInv'
  BY <1>3, NoHandIdle, InitHand DEF HandOK, HandIdle, Refusal, HandArgs, NoHand, Hand, HandPc,
     Saying, Command
<1>4. CASE Reply
  BY <1>3, <1>4 DEF Reply, tables
<1>5. CASE ReplyFails
  <2>1. hand.pc = "reply" /\ rows' = rows
    BY <1>5 DEF ReplyFails, tables
  <2>2. CASE hand' = NoHand
    BY <1>3, <2>1, <2>2
  <2>3. CASE Says("something went wrong") /\ hand.say # "slow down"
    <3>1. SameCommand /\ hand'.pc = "reply"
      BY <2>1, <2>3, SaysSo DEF Saying
    <3> QED BY <2>1, <3>1 DEF SameCommand, HandOK, HandIdle, Refusal, HandArgs, AddPc
  <2> QED BY <1>5, <2>2, <2>3 DEF ReplyFails
<1>6. CASE hand' = NoHand /\ UNCHANGED <<users, rows>>
  BY <1>3, <1>6
<1>7. CASE UNCHANGED <<hand, users, rows>>
  BY <1>7 DEF HandOK, HandIdle, Refusal, HandArgs
<1> QED BY <1>1, <1>2, <1>4, <1>5, <1>6, <1>7, HandCases DEF NewIds

LEMMA HandIsOK == Spec => []HandInv
BY InitHandInv, NextHandInv, PTL DEF Spec

LEMMA RefusedAtRate ==
    ASSUME BucketExact, NEW c \in Chats, ~(Refill(c) >= Cost)
    PROVE  busiest[c] + Cost > Full
<1>1. Refill(c) = Full - busiest[c] /\ busiest[c] \in 0..Full
  BY FullType DEF BucketExact, Refill, Least
<1> QED BY <1>1, FullType

LEMMA RefusalStep ==
    ASSUME HandInv, BucketExact, [Next]_vars, hand.pc = "idle", hand'.say = "slow down"
    PROVE  busiest[hand'.chat] + Cost > Full
<1>1. hand = NoHand
  BY DEF HandInv, HandOK, HandIdle
<1>2. PICK c \in Chats, cmd \in Command : \E u \in Argument(cmd) : Take(c, cmd, u)
  <2>1. ~(hand' = NoHand) /\ hand' # hand
    BY <1>1, NoHandIdle
  <2>2. ~(\/ Resolve \/ FindUser \/ Dedupe \/ Count \/ Look \/ Delete \/ MuteAll
          \/ (\E id \in Ids : Create(id)) \/ CommandFails)
    BY HandlerMoves DEF HandInv
  <2>3. ~Reply /\ ~ReplyFails
    BY DEF Reply, ReplyFails
  <2> QED BY <2>1, <2>2, <2>3, HandCases DEF NewIds
<1>3. hand'.chat = c /\ ~(Refill(c) >= Cost)
  BY <1>2, TakeHand
<1> QED BY <1>3, RefusedAtRate

\* Nor is a chat refused that the rate allows to be answered.
THEOREM RefusalHolds == Spec => RefusedOnlyAtRate
<1>1. ASSUME HandInv, BucketExact, [Next]_vars
      PROVE  [hand.pc = "idle" /\ hand'.say = "slow down" => busiest[hand'.chat] + Cost > Full]_vars
  BY <1>1, RefusalStep
<1> QED BY <1>1, HandIsOK, BucketIsExact, PTL DEF Spec, RefusedOnlyAtRate

----------------------------------------------------------------------------
(* The monitors of a user                                                  *)

\* Nobody's URL is monitored twice, though errors, lost replies and restarts make users
\* send the same command again.
OneRowPerUrl == \A r, s \in rows : r.chat = s.chat /\ r.url = s.url => r = s

\* What /add knows when it has come so far, and what stays true until it inserts.
AddChecked ==
    /\ hand.pc \in {"count", "create"} => Found = {}
    /\ hand.pc = "create" => Cardinality(RowsOf(hand.chat)) < Limit

RowsInv == IsFiniteSet(rows) /\ OneRowPerUrl /\ WithinLimit /\ AddChecked

LEMMA InitRows == Init => RowsInv
<1> SUFFICES ASSUME Init PROVE RowsInv
  OBVIOUS
<1>1. rows \in Backlogs /\ hand.pc = "idle"
  BY DEF Init, TablesInit, BotInit, NoHand
<1>2. OneRowPerUrl
  BY <1>1, BacklogAssumption DEF OneRowPerUrl
<1>3. WithinLimit
  BY <1>1, LimitAssumption DEF WithinLimit, RowsOf
<1> QED BY <1>1, <1>2, <1>3, BacklogAssumption DEF RowsInv, AddChecked

LEMMA RowsOfFinite ==
    ASSUME IsFiniteSet(rows), NEW c
    PROVE  IsFiniteSet(RowsOf(c)) /\ Cardinality(RowsOf(c)) \in Nat
<1>1. RowsOf(c) \in SUBSET rows
  BY DEF RowsOf
<1> QED BY <1>1, FS_Subset, FS_CardinalityType

LEMMA CreateRows ==
    ASSUME RowsInv, HandInv, NEW id \in Ids, Create(id)
    PROVE  RowsInv'
<1> DEFINE n == [id |-> id, chat |-> hand.chat, url |-> hand.url]
<1>1. hand.pc = "create" /\ rows' = rows \cup {n} /\ n.chat = hand.chat /\ n.url = hand.url
  BY DEF Create
<1>2. Found = {} /\ Cardinality(RowsOf(hand.chat)) < Limit
  BY <1>1 DEF RowsInv, AddChecked
<1> HIDE DEF n
<1>3. IsFiniteSet(rows')
  BY <1>1, FS_AddElement DEF RowsInv
<1>4. OneRowPerUrl'
  BY <1>1, <1>2 DEF RowsInv, OneRowPerUrl, Found
<1>5. WithinLimit'
  <2> SUFFICES ASSUME NEW c \in Chats PROVE Cardinality(RowsOf(c)') <= Limit
    BY DEF WithinLimit
  <2>1. CASE c = hand.chat
    <3>1. RowsOf(c)' = RowsOf(c) \cup {n}
      BY <1>1, <2>1 DEF RowsOf
    <3>2. IsFiniteSet(RowsOf(c)) /\ Cardinality(RowsOf(c)) \in Nat
      BY RowsOfFinite DEF RowsInv
    <3>3. Cardinality(RowsOf(c) \cup {n}) =
              IF n \in RowsOf(c) THEN Cardinality(RowsOf(c)) ELSE Cardinality(RowsOf(c)) + 1
      BY <3>2, FS_AddElement
    <3>4. Cardinality(RowsOf(c) \cup {n}) <= Limit
      BY <1>2, <2>1, <3>2, <3>3, BotAssumption
    <3> QED BY <3>1, <3>4
  <2>2. CASE c # hand.chat
    <3>1. RowsOf(c)' = RowsOf(c)
      BY <1>1, <2>2 DEF RowsOf
    <3> QED BY <3>1 DEF RowsInv, WithinLimit
  <2> QED BY <2>1, <2>2
<1>6. hand'.pc = "reply"
  BY DEF Create, Says, HandInv, HandOK, Hand
<1> QED BY <1>3, <1>4, <1>5, <1>6 DEF RowsInv, AddChecked

LEMMA DeleteRows == ASSUME RowsInv, HandInv, Delete PROVE RowsInv'
<1>1. rows' \subseteq rows /\ hand'.pc = "reply"
  BY DEF Delete, DeleteRow, Says, HandInv, HandOK, Hand
<1>2. IsFiniteSet(rows')
  BY <1>1, FS_Subset DEF RowsInv
<1>3. OneRowPerUrl'
  BY <1>1 DEF RowsInv, OneRowPerUrl
<1>4. WithinLimit'
  <2> SUFFICES ASSUME NEW c \in Chats PROVE Cardinality(RowsOf(c)') <= Limit
    BY DEF WithinLimit
  <2>1. RowsOf(c)' \in SUBSET RowsOf(c)
    BY <1>1 DEF RowsOf
  <2>2. IsFiniteSet(RowsOf(c)) /\ Cardinality(RowsOf(c)) \in Nat
    BY RowsOfFinite DEF RowsInv
  <2>3. Cardinality(RowsOf(c)') <= Cardinality(RowsOf(c)) /\ Cardinality(RowsOf(c)') \in Nat
    BY <2>1, <2>2, FS_Subset, FS_CardinalityType
  <2> QED BY <2>2, <2>3, BotAssumption DEF RowsInv, WithinLimit
<1> QED BY <1>1, <1>2, <1>3, <1>4 DEF RowsInv, AddChecked

LEMMA NextRows == RowsInv /\ HandInv /\ [Next]_vars => RowsInv'
<1> SUFFICES ASSUME RowsInv, HandInv, [Next]_vars PROVE RowsInv'
  OBVIOUS
<1>1. ASSUME rows' = rows, AddChecked' PROVE RowsInv'
  BY <1>1 DEF RowsInv, OneRowPerUrl, WithinLimit, RowsOf
<1>2. ASSUME rows' = rows, hand'.pc \notin {"count", "create"} PROVE RowsInv'
  BY <1>1, <1>2 DEF AddChecked
<1>3. ASSUME NEW c \in Chats, NEW cmd \in Command, NEW u \in Argument(cmd), Take(c, cmd, u)
      PROVE  RowsInv'
  BY <1>2, <1>3, TakeHand DEF Take, tables
<1>4. ASSUME Resolve \/ FindUser \/ Dedupe \/ Count \/ Look \/ MuteAll \/ CommandFails
      PROVE  RowsInv'
  <2>1. /\ SameCommand
        /\ hand'.pc = "count" => Dedupe
        /\ hand'.pc = "create" => Count
    BY <1>4, HandlerMoves DEF HandInv
  <2>0. rows' = rows
    BY <1>4 DEF Resolve, FindUser, Dedupe, Count, Look, MuteAll, CommandFails, tables
  <2>2. rows' = rows /\ RowsOf(hand.chat)' = RowsOf(hand.chat) /\ Found' = Found
    BY <2>1, <2>0 DEF RowsOf, Found, SameCommand
  <2>3. CASE hand'.pc = "count"
    <3>1. Found = {}
      BY <2>1, <2>3 DEF Dedupe, Says, HandInv, HandOK, Hand
    <3> QED BY <1>1, <2>2, <2>3, <3>1 DEF AddChecked
  <2>4. CASE hand'.pc = "create"
    <3>1. Found = {} /\ ~(Cardinality(RowsOf(hand.chat)) >= Limit)
      BY <2>1, <2>4 DEF Count, Says, HandInv, HandOK, Hand, RowsInv, AddChecked
    <3>2. Cardinality(RowsOf(hand.chat)) \in Nat
      BY RowsOfFinite DEF RowsInv
    <3>3. Cardinality(RowsOf(hand.chat)) < Limit
      BY <3>1, <3>2, BotAssumption
    <3> QED BY <1>1, <2>1, <2>2, <3>1, <3>3 DEF AddChecked, SameCommand, RowsOf
  <2> QED BY <1>2, <2>2, <2>3, <2>4
<1>5. CASE Reply
  BY <1>2, <1>5, NoHandIdle DEF Reply, tables, NoHand
<1>6. CASE ReplyFails
  <2>1. hand' = NoHand \/ Says("something went wrong")
    BY <1>6, Zenon DEF ReplyFails
  <2>2. hand'.pc \in {"idle", "reply"}
    <3>1. CASE hand' = NoHand
      BY <3>1, NoHandIdle DEF NoHand
    <3>2. CASE Says("something went wrong")
      BY <3>2 DEF Says, HandInv, HandOK, Hand
    <3> QED BY <2>1, <3>1, <3>2
  <2> QED BY <1>2, <1>6, <2>2 DEF ReplyFails, tables
<1>7. CASE hand' = NoHand /\ UNCHANGED <<users, rows>>
  BY <1>2, <1>7 DEF NoHand
<1>8. CASE UNCHANGED <<hand, users, rows>>
  BY <1>8, <1>1 DEF RowsInv, AddChecked, Found, RowsOf
<1> QED BY <1>3, <1>4, <1>5, <1>6, <1>7, <1>8, CreateRows, DeleteRows, HandCases DEF NewIds

LEMMA RowsAreOK == Spec => []RowsInv
BY InitRows, NextRows, HandIsOK, PTL DEF Spec

\* Whatever the plan, no user has more monitors than it allows.
THEOREM LimitHolds == Spec => []WithinLimit
BY RowsAreOK, PTL DEF RowsInv

\* Nor the same one twice.
THEOREM OneRowPerUrlHolds == Spec => []OneRowPerUrl
BY RowsAreOK, PTL DEF RowsInv
=============================================================================
