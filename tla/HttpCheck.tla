----------------------------- MODULE HttpCheck -----------------------------
(***************************************************************************)
(* One check of a target, as checkUrl (http-check.ts) and as CheckURL      *)
(* (check.go) do it: both validate an address, request it and follow       *)
(* redirects by hand, at most MaxRedirects of them.                        *)
(*                                                                         *)
(* The web is what each address would answer; it changes from check to     *)
(* check.  The loops see one status line, but each has its own guard, its  *)
(* own client and its own URL parser: an address may be shut to one and    *)
(* open to the other, and a Location may lead them to two addresses.       *)
(***************************************************************************)
EXTENDS Integers, Sequences

CONSTANTS
    Urls,
    MaxRedirects

ASSUME RedirectAssumption == MaxRedirects \in Nat

VARIABLE web

Loops == {"ts", "go"}

\* bad: 4xx, 5xx; bare: 3xx without a Location; empty: with an empty one.
Plain == {"ok", "bad", "bare", "empty"}

\* An address gives no answer to the loops it is shut to: the guard of the loop rejects
\* it, its host is not found, it refuses, times out or fails in TLS.  A Location that a
\* loop cannot parse is one that leads it to an address shut to it.
Reply ==
    [kind : Plain, shut : SUBSET Loops]
    \cup [kind : {"redirect"}, to : [Loops -> Urls], shut : SUBSET Loops]

Init == web = [u \in Urls |-> [kind |-> "ok", shut |-> {}]]

Answer(u, reply) == web' = [web EXCEPT ![u] = reply]

Next == \E u \in Urls, reply \in Reply : Answer(u, reply)

Spec == Init /\ [][Next]_web

----------------------------------------------------------------------------
(* The two loops, from address u with hop redirects followed               *)

\* Mutant of TsTarget: a Location header is not looked for.
TsTargetAny(reply, u) ==
    IF reply.kind = "redirect" THEN {reply.to["ts"]}
    ELSE IF reply.kind \in {"empty", "bare"} THEN {u} ELSE {}

\* Where the TypeScript loop follows a reply to: headers.has("location") accepts an
\* empty one, which is the same address again.
TsTarget(reply, u) ==
    IF reply.kind = "redirect" THEN {reply.to["ts"]}
    ELSE IF reply.kind = "empty" THEN {u} ELSE {}

TsVisit[hop \in 0..MaxRedirects] ==
    [u \in Urls |->
        IF "ts" \in web[u].shut THEN "down"
        ELSE IF TsTarget(web[u], u) = {}
        THEN IF web[u].kind \in {"ok", "bare"} THEN "up" ELSE "down"
        ELSE IF hop = MaxRedirects THEN "down"
             ELSE TsVisit[hop + 1][CHOOSE v \in TsTarget(web[u], u) : TRUE]]

CheckUrl(start) == TsVisit[0][start]

\* Mutant of CheckURL: the last redirect is followed, too.
GoVisitOneMore[hop \in 0..MaxRedirects + 1] ==
    [u \in Urls |->
        IF "go" \in web[u].shut THEN "down"
        ELSE IF web[u].kind = "redirect" /\ hop <= MaxRedirects
        THEN GoVisitOneMore[hop + 1][web[u].to["go"]]
        ELSE IF web[u].kind = "ok" THEN "up" ELSE "down"]

CheckURLOneMore(start) == GoVisitOneMore[0][start]

\* The Go loop: a 3xx without a Location to follow is down, whatever comes after it
\* in the code says of 3xx.
GoVisit[hop \in 0..MaxRedirects] ==
    [u \in Urls |->
        IF "go" \in web[u].shut THEN "down"
        ELSE IF web[u].kind = "redirect" /\ hop < MaxRedirects
        THEN GoVisit[hop + 1][web[u].to["go"]]
        ELSE IF web[u].kind = "ok" THEN "up" ELSE "down"]

CheckURL(start) == GoVisit[0][start]

----------------------------------------------------------------------------
(* Properties                                                              *)

\* An address answers a loop in one of these ways; it sends it on to another.
Gives(loop, u, kinds) == loop \notin web[u].shut /\ web[u].kind \in kinds

SendsOn(loop, u, v) == Gives(loop, u, {"redirect"}) /\ web[u].to[loop] = v

\* The addresses a loop may request in turn.
Chains(loop) ==
    UNION {{c \in [1..n -> Urls] : \A i \in 1..n - 1 : SendsOn(loop, c[i], c[i + 1])}
           : n \in 1..MaxRedirects + 1}

Final(loop, start, kinds) ==
    \E c \in Chains(loop) : c[1] = start /\ Gives(loop, c[Len(c)], kinds)

\* Both loops get an answer or neither does, and a redirect leads both to one address.
Alike(u) ==
    /\ web[u].shut \in {{}, Loops}
    /\ web[u].kind = "redirect" => web[u].to["ts"] = web[u].to["go"]

\* The loops come together to an address that is not one to them.
Parted(start) ==
    \E c \in Chains("ts") \cap Chains("go") : c[1] = start /\ ~Alike(c[Len(c)])

\* "Up = final response is 2xx or 3xx", and everything else is down: whatever redirects,
\* loops, rejections and failures lie on the way (http-check.ts).
UpIsFinal2xxOr3xx == \A u \in Urls : CheckUrl(u) = "up" <=> Final("ts", u, {"ok", "bare"})

\* The probe gives the verdict of the api's own check, so that a monitor does not
\* change when the deployment does (check.go, http-check.ts).  They differ on a final
\* 3xx without a Location, and where an address on the way, the same for both, is open
\* to one loop only or has a Location the two resolve apart; on nothing else, be it the
\* count of redirects, an empty Location or a circle.
SameVerdict ==
    \A u \in Urls :
        \/ CheckURL(u) = CheckUrl(u)
        \/ Final("ts", u, {"bare"}) /\ CheckURL(u) = "down"
        \/ Parted(u)
=============================================================================
