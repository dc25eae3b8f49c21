---------------------------- MODULE BotCommands ----------------------------
(***************************************************************************)
(* The bot (bot/): commands taken one after another by grammY's polling,   *)
(* each through the token bucket of its chat, and each await of a command  *)
(* a step of its own.  Every command answers; what it answers is `say`.    *)
(*                                                                         *)
(* Time is counted in units of which a token takes Cost to come back.      *)
(***************************************************************************)
EXTENDS Tables

CONSTANTS
    Limit,          \* monitors a user may have: PLAN_LIMITS of the plan
    Capacity,       \* tokens of a full bucket
    Cost            \* units of time a token stands for

ASSUME BotAssumption == Limit \in Nat /\ Capacity \in Nat \ {0} /\ Cost \in Nat \ {0}

ASSUME LimitAssumption ==
    \A B \in Backlogs, c \in Chats : Cardinality({r \in B : r.chat = c}) <= Limit

VARIABLES
    hand,           \* the command being handled
    bucket,         \* tokens (in units of time) and the time since `updated`
    busiest         \* over all windows that end now, the most that answered commands
                    \* cost beyond the length of the window and a full bucket for
                    \* each restart in it

limiter == <<bucket, busiest>>
bot     == <<hand, limiter>>

Command == {"add", "remove", "mute", "list"}

\* The awaits of the handlers.
HandPc == {"idle", "resolve", "user", "dedupe", "count", "create", "look", "delete", "mute", "reply"}

Saying == {"nothing", "slow down", "something went wrong", "refused", "no monitors", "known",
           "limit", "added", "was not", "removed", "muted", "list"}

\* `row` is what findMonitorByUrl has returned to /remove.
NoRow == [id |-> 0]

Hand == [pc : HandPc, cmd : Command, chat : Chats \cup {"nobody"}, url : Urls \cup {"none"},
         row : Row \cup {NoRow}, say : Saying]

NoHand == [pc |-> "idle", cmd |-> "list", chat |-> "nobody", url |-> "none",
           row |-> NoRow, say |-> "nothing"]

Argument(cmd) == IF cmd \in {"add", "remove"} THEN Urls ELSE {"none"}

Full == Capacity * Cost

BotInit ==
    /\ hand = NoHand
    /\ bucket = [c \in Chats |-> [tokens |-> Full, lag |-> 0]]
    /\ busiest = [c \in Chats |-> 0]

----------------------------------------------------------------------------

\* Mutant of Refill: the bucket has no bottom to its generosity.
RefillUncapped(c) == bucket[c].tokens + bucket[c].lag

\* Mutant of Refill: only whole tokens come back, and `updated` moves all the same.
RefillWhole(c) == Least(Full, bucket[c].tokens + Cost * (bucket[c].lag \div Cost))

\* allowCommand up to the comparison: what has come back since, up to a full bucket.
Refill(c) == Least(Full, bucket[c].tokens + bucket[c].lag)

\* Mutant of Charge: the token is taken before the bucket is looked into.
ChargeAlways(c) == Cost

\* A token, if there is a whole one.
Charge(c) == IF Refill(c) >= Cost THEN Cost ELSE 0

Goes(pc) == hand' = [hand EXCEPT !.pc = pc]

Says(what) == hand' = [hand EXCEPT !.pc = "reply", !.say = what]

\* guard() and allowCommand: the bucket is written whether the command passes or not.
Take(c, cmd, u) ==
    LET passes == Refill(c) >= Cost
    IN  /\ hand.pc = "idle"
        /\ bucket' = [bucket EXCEPT ![c] =
               [tokens |-> Refill(c) - Charge(c), lag |-> 0]]
        /\ busiest' = [busiest EXCEPT ![c] = @ + (IF passes THEN Cost ELSE 0)]
        /\ hand' = [NoHand EXCEPT !.cmd = cmd, !.chat = c, !.url = u,
                        !.pc = IF ~passes THEN "reply" ELSE IF cmd = "add" THEN "resolve" ELSE "user",
                        !.say = IF passes THEN "nothing" ELSE "slow down"]
        /\ UNCHANGED tables

\* assertSafeUrl of /add: the address is resolved, and safe to check or not.
Resolve ==
    /\ hand.pc = "resolve"
    /\ Goes("user") \/ Says("refused")
    /\ UNCHANGED <<tables, limiter>>

\* findOrCreateUserByTelegram for /add, getUserByTelegram for the others, which may
\* be of nobody.  /list and /status go on to read the monitors and change nothing; nor
\* does a command refused for its argument, or /start, /help and /upgrade.
FindUser ==
    /\ hand.pc = "user"
    /\ users' = IF hand.cmd = "add" THEN users \cup {hand.chat} ELSE users
    /\ IF hand.chat \in users'
       THEN CASE hand.cmd = "add"    -> Goes("dedupe")
              [] hand.cmd = "remove" -> Goes("look")
              [] hand.cmd = "mute"   -> Goes("mute")
              [] hand.cmd = "list"   -> Says("list")
       ELSE Says("no monitors")
    /\ UNCHANGED <<rows, status, lastCheck, mutedUntil, openInc, pending, limiter>>

\* findMonitorByUrl and the URL's row, if there is one.
Found == {r \in rows : r.chat = hand.chat /\ r.url = hand.url}

Dedupe ==
    /\ hand.pc = "dedupe"
    /\ IF Found # {} THEN Says("known") ELSE Goes("count")
    /\ UNCHANGED <<tables, limiter>>

\* Mutant of Count: the limit is the last number that still passes.
CountOneMore ==
    /\ hand.pc = "count"
    /\ IF Cardinality(RowsOf(hand.chat)) > Limit THEN Says("limit") ELSE Goes("create")
    /\ UNCHANGED <<tables, limiter>>

Count ==
    /\ hand.pc = "count"
    /\ IF Cardinality(RowsOf(hand.chat)) >= Limit THEN Says("limit") ELSE Goes("create")
    /\ UNCHANGED <<tables, limiter>>

\* createMonitor, the rest of the row being the defaults of the schema.
Create(id) ==
    /\ hand.pc = "create"
    /\ rows' = rows \cup {[id |-> id, chat |-> hand.chat, url |-> hand.url]}
    /\ Says("added")
    /\ UNCHANGED <<users, status, lastCheck, mutedUntil, openInc, pending, limiter>>

\* removeMonitorByUrl: the row is looked up, and deleted by its id.
Look ==
    /\ hand.pc = "look"
    /\ IF Found = {} THEN Says("was not")
       ELSE \E r \in Found : hand' = [hand EXCEPT !.pc = "delete", !.row = r]
    /\ UNCHANGED <<tables, limiter>>

Delete ==
    /\ hand.pc = "delete"
    /\ DeleteRow(hand.row)
    /\ Says("removed")
    /\ UNCHANGED <<users, limiter>>

\* muteUserMonitors: an hour or more from now, for the rows the user has now.
MuteAll ==
    /\ hand.pc = "mute"
    /\ mutedUntil' = [id \in Ids |-> IF \E r \in RowsOf(hand.chat) : r.id = id THEN Later
                                     ELSE mutedUntil[id]]
    /\ Says("muted")
    /\ UNCHANGED <<users, rows, status, lastCheck, openInc, pending, limiter>>

Reply ==
    /\ hand.pc = "reply"
    /\ hand' = NoHand
    /\ UNCHANGED <<tables, limiter>>

\* A call of the handler throws, and guard() apologises.
CommandFails ==
    /\ hand.pc \notin {"idle", "reply", "resolve"}
    /\ Says("something went wrong")
    /\ UNCHANGED <<tables, limiter>>

\* ctx.reply throws: the same apology, if it was the handler's reply, else bot.catch.
ReplyFails ==
    /\ hand.pc = "reply"
    /\ IF hand.say \in {"slow down", "something went wrong"} THEN hand' = NoHand
       ELSE Says("something went wrong")
    /\ UNCHANGED <<tables, limiter>>

\* A unit of time passes; a lag beyond a full bucket makes no difference.
Elapse ==
    /\ bucket' = [c \in Chats |-> [bucket[c] EXCEPT !.lag = Least(Full, @ + 1)]]
    /\ busiest' = [c \in Chats |-> IF busiest[c] = 0 THEN 0 ELSE busiest[c] - 1]
    /\ UNCHANGED <<tables, hand>>

\* The buckets are in memory, full again in the new process, and updates sent
\* meanwhile are dropped.
BotRestarts ==
    /\ hand' = NoHand
    /\ bucket' = [c \in Chats |-> [tokens |-> Full, lag |-> 0]]
    /\ busiest' = [c \in Chats |-> IF busiest[c] > Full THEN busiest[c] - Full ELSE 0]
=============================================================================
