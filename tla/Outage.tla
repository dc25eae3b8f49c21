------------------------------- MODULE Outage -------------------------------
(***************************************************************************)
(* What the monitor promises its user: each outage is recorded once, from  *)
(* its beginning to its end; an outage is announced when it begins and     *)
(* again when it ends, each time at most once and in this order, unless    *)
(* the monitor is muted; and an announcement that is owed is made.         *)
(***************************************************************************)
CONSTANT Monitors

VARIABLES
    down,   \* the outage on record has not ended
    owed,   \* the announcement still to be made
    told    \* the last announcement made

vars == <<down, owed, told>>

News == {"nothing", "down", "up"}

Init ==
    /\ down = [m \in Monitors |-> FALSE]
    /\ owed = [m \in Monitors |-> "nothing"]
    /\ told = [m \in Monitors |-> "nothing"]

\* The next change waits until the last one is announced.
Change(m, isDown, news) ==
    /\ owed[m] = "nothing"
    /\ down[m] # isDown
    /\ down' = [down EXCEPT ![m] = isDown]
    /\ \E n \in {news, "nothing"} : owed' = [owed EXCEPT ![m] = n]
    /\ UNCHANGED told

Begin(m) == Change(m, TRUE, "down")

End(m) == Change(m, FALSE, "up")

Tell(m) ==
    /\ owed[m] # "nothing"
    /\ told' = [told EXCEPT ![m] = owed[m]]
    /\ owed' = [owed EXCEPT ![m] = "nothing"]
    /\ UNCHANGED down

Next == \E m \in Monitors : Begin(m) \/ End(m) \/ Tell(m)

\* What is never done, and what is done in the end.
Safety == Init /\ [][Next]_vars

Liveness == \A m \in Monitors : WF_vars(Tell(m))

Spec == Safety /\ Liveness
=============================================================================
