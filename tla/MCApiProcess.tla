---------------------------- MODULE MCApiProcess ----------------------------
(* Model values for ApiProcess: chats without monitors, or one chat with a  *)
(* monitor that has a backlog, an outage and its end.                       *)
EXTENDS ApiProcess, Sequences

CONSTANTS c1, c2, u1, u2

NoMonitor == {{}}

OneMonitor == {{[id |-> 1, chat |-> c1, url |-> u1]}}

Outages == [id \in Ids |-> <<"incident">>]

OutageAndEnd == [id \in Ids |-> <<"incident", "recovery">>]
=============================================================================
