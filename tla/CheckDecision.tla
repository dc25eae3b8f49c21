--------------------------- MODULE CheckDecision ---------------------------
(***************************************************************************)
(* The pure decision both schedulers take after one check of a monitor:    *)
(* decide() of the TypeScript scheduler, which state.Decide of the Go      *)
(* probe repeats line by line.                                             *)
(***************************************************************************)
EXTENDS Integers

MonitorStatus == {"unknown", "up", "down"}

HeartbeatStatus == {"up", "down"}

Transition == {"stay-up", "recovered", "pending-down", "went-down", "stay-down"}

\* Mutant of Decide: anything that is not "up" already counts as down.
DecideUnknownIsDown(prev, check, fails, retries) ==
    IF check = "up"
    THEN IF prev = "down" THEN "recovered" ELSE "stay-up"
    ELSE IF prev # "up" THEN "stay-down"
         ELSE IF fails >= retries THEN "went-down" ELSE "pending-down"

\* Mutant of Decide: an outage already on record begins again.
DecideForgetsPrev(prev, check, fails, retries) ==
    IF check = "up"
    THEN IF prev = "down" THEN "recovered" ELSE "stay-up"
    ELSE IF fails >= retries THEN "went-down" ELSE "pending-down"

\* fails counts the consecutive failures, the current check included.
Decide(prev, check, fails, retries) ==
    IF check = "up"
    THEN IF prev = "down" THEN "recovered" ELSE "stay-up"
    ELSE IF prev = "down" THEN "stay-down"
         ELSE IF fails >= retries THEN "went-down" ELSE "pending-down"

\* Mutant of MonitorStatusAfter: the name of the transition is the status.
MonitorStatusTransition(prev, transition) == transition

\* Mutant of MonitorStatusAfter: a failure below the threshold already is "down".
MonitorStatusPendingDown(prev, transition) ==
    IF transition \in {"stay-up", "recovered"} THEN "up" ELSE "down"

\* Mutant of MonitorStatusAfter: only the transitions that are reported write it.
MonitorStatusReported(prev, transition) ==
    CASE transition = "recovered" -> "up"
      [] transition = "went-down" -> "down"
      [] OTHER                    -> prev

\* The status the probe writes after a transition; a pending one keeps what it read.
MonitorStatusAfter(prev, transition) ==
    CASE transition \in {"stay-up", "recovered"}   -> "up"
      [] transition \in {"went-down", "stay-down"} -> "down"
      [] OTHER                                     -> prev

============================================================================
