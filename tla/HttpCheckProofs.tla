-------------------------- MODULE HttpCheckProofs --------------------------
(***************************************************************************)
(* The verdict of a check for every web and every number of redirects: the *)
(* TypeScript loop is up exactly if a chain of redirects it may follow     *)
(* ends at a 2xx or a bare 3xx, the Go loop exactly if one ends at a 2xx;  *)
(* and a chain is the same to both, up to where they part.                 *)
(*                                                                         *)
(* A loop is a recursive function, known only by its equation.  Two of its *)
(* solutions are the same, and the verdict by chains is one.               *)
(***************************************************************************)
EXTENDS HttpCheck, SequenceTheorems, WellFoundedInduction, NaturalsInduction, TLAPS

\* Every address has an answer.
WebOK == web \in [Urls -> Reply]

LEMMA WebHolds == Spec => []WebOK
<1>1. Init => WebOK
  BY DEF Init, WebOK, Reply, Plain
<1>2. WebOK /\ [Next]_web => WebOK'
  BY DEF WebOK, Next, Answer
<1> QED BY <1>1, <1>2, PTL DEF Spec

----------------------------------------------------------------------------
(* Loops                                                                   *)

\* Who answers, at the end of up to `redirects` of them, where a loop goes from each of
\* the addresses `on` to the one at `to`, and says `end` of the others.
Loop(f, on, to, end) ==
    \A hop \in 0..MaxRedirects, u \in Urls :
       f[hop][u] = IF u \notin on THEN end[u]
                   ELSE IF hop = MaxRedirects THEN "down" ELSE f[hop + 1][to[u]]

\* Two loops with the same equation say the same of every address.
LEMMA SameLoop ==
    ASSUME NEW f, NEW g, NEW on, NEW end, NEW to \in [on -> Urls],
           Loop(f, on, to, end), Loop(g, on, to, end),
           NEW hop \in 0..MaxRedirects, NEW u \in Urls
    PROVE  f[hop][u] = g[hop][u]
<1> DEFINE R == OpToRel(<, Nat)
           Differ == {n \in 0..MaxRedirects :
                         \E v \in Urls : f[MaxRedirects - n][v] # g[MaxRedirects - n][v]}
<1>1. \A x, y \in Nat : x < y => <<x, y>> \in R
  BY DEF OpToRel
<1>2. IsWellFoundedOn(R, Nat)
  BY NatLessThanWellFounded
<1> HIDE DEF R
<1>3. Differ = {}
  <2> SUFFICES ASSUME Differ # {} PROVE FALSE
    OBVIOUS
  <2>1. Differ \subseteq Nat
    BY RedirectAssumption
  <2> HIDE DEF Differ
  <2>2. PICK n \in Differ : \A k \in Differ : ~(<<k, n>> \in R)
    BY <1>2, <2>1, WFMin
  <2> USE DEF Differ
  <2>3. PICK v \in Urls : f[MaxRedirects - n][v] # g[MaxRedirects - n][v]
    BY <2>2
  <2> DEFINE h == MaxRedirects - n
  <2>4. n \in 0..MaxRedirects /\ h \in 0..MaxRedirects /\ f[h][v] # g[h][v]
    BY <2>2, <2>3, RedirectAssumption
  <2>5. v \in on /\ h # MaxRedirects
    BY <2>4 DEF Loop
  <2>6. h + 1 \in 0..MaxRedirects /\ h + 1 = MaxRedirects - (n - 1) /\ n - 1 \in 0..MaxRedirects
        /\ n - 1 < n
    BY <2>4, <2>5, RedirectAssumption
  <2>7. f[h][v] = f[h + 1][to[v]] /\ g[h][v] = g[h + 1][to[v]] /\ to[v] \in Urls
    BY <2>4, <2>5 DEF Loop
  <2>8. n - 1 \in Differ
    BY <2>4, <2>6, <2>7
  <2>9. ~(<<n - 1, n>> \in R)
    BY <2>2, <2>8
  <2>10. n - 1 \in Nat /\ n \in Nat
    BY <2>4, <2>6, RedirectAssumption
  <2> QED BY <1>1, <2>6, <2>9, <2>10
<1>4. MaxRedirects - hop \in 0..MaxRedirects /\ MaxRedirects - (MaxRedirects - hop) = hop
  BY RedirectAssumption
<1> QED BY <1>3, <1>4

----------------------------------------------------------------------------
(* Chains of redirects                                                     *)

\* A chain of addresses, each of which sends the loop on to the next.
Linked(loop, c, k) == \A i \in 1..k - 1 : SendsOn(loop, c[i], c[i + 1])

\* It leads from u to an answer of these kinds.
Leads(loop, c, k, u, kinds) == c[1] = u /\ Linked(loop, c, k) /\ Gives(loop, c[k], kinds)

\* Some chain of at most n addresses does.
Path(loop, u, n, kinds) ==
    \E k \in 1..n : \E c \in [1..k -> Urls] : Leads(loop, c, k, u, kinds)

LEMMA RedirectOK ==
    ASSUME WebOK, NEW loop \in Loops, NEW u \in Urls, Gives(loop, u, {"redirect"})
    PROVE  web[u].to[loop] \in Urls
<1>1. web[u] \in Reply /\ web[u].kind = "redirect" /\ "redirect" \notin Plain
  BY DEF WebOK, Gives, Plain
<1>2. web[u] \in [kind : {"redirect"}, to : [Loops -> Urls], shut : SUBSET Loops]
  BY <1>1 DEF Reply
<1> QED BY <1>2

LEMMA ChainsAre ==
    ASSUME NEW loop
    PROVE  \A c : c \in Chains(loop)
                  <=> \E k \in 1..MaxRedirects + 1 : c \in [1..k -> Urls] /\ Linked(loop, c, k)
<1> DEFINE Of(n) == {c \in [1..n -> Urls] : Linked(loop, c, n)}
<1>1. Chains(loop) = UNION {Of(n) : n \in 1..MaxRedirects + 1}
  BY DEF Chains, Linked
<1>2. \A n : \A c : c \in Of(n) <=> c \in [1..n -> Urls] /\ Linked(loop, c, n)
  OBVIOUS
<1> HIDE DEF Of
<1> QED BY <1>1, <1>2

LEMMA ChainLen ==
    ASSUME NEW k \in 1..MaxRedirects + 1, NEW c \in [1..k -> Urls] PROVE Len(c) = k
BY RedirectAssumption, LenProperties

LEMMA FinalIsPath ==
    ASSUME NEW loop
    PROVE  \A u, kinds : Final(loop, u, kinds) <=> Path(loop, u, MaxRedirects + 1, kinds)
BY ChainsAre, ChainLen DEF Final, Path, Leads

\* An answer that is no redirect ends the chain.
LEMMA PathEnds ==
    ASSUME NEW loop, NEW u \in Urls, ~Gives(loop, u, {"redirect"}),
           NEW n \in Nat \ {0}, NEW kinds
    PROVE  Path(loop, u, n, kinds) <=> Gives(loop, u, kinds)
<1>1. ASSUME Path(loop, u, n, kinds) PROVE Gives(loop, u, kinds)
  <2>0. PICK k \in 1..n : \E c \in [1..k -> Urls] : Leads(loop, c, k, u, kinds)
    BY <1>1 DEF Path
  <2>1. PICK c \in [1..k -> Urls] : c[1] = u /\ Linked(loop, c, k) /\ Gives(loop, c[k], kinds)
    BY <2>0 DEF Leads
  <2>2. CASE k = 1
    BY <2>1, <2>2
  <2>3. CASE k # 1
    <3>1. 1 \in 1..k - 1
      BY <2>3
    <3>2. SendsOn(loop, u, c[1 + 1])
      BY <2>1, <3>1 DEF Linked
    <3> QED BY <3>2 DEF SendsOn
  <2> QED BY <2>2, <2>3
<1>2. ASSUME Gives(loop, u, kinds) PROVE Path(loop, u, n, kinds)
  <2> DEFINE c == [i \in 1..1 |-> u]
  <2>1. c \in [1..1 -> Urls] /\ c[1] = u /\ Linked(loop, c, 1) /\ 1 \in 1..n
    BY DEF Linked
  <2> QED BY <1>2, <2>1 DEF Path, Leads
<1> QED BY <1>1, <1>2

\* A redirect makes it longer by one.
LEMMA PathGoes ==
    ASSUME WebOK, NEW loop \in Loops, NEW u \in Urls, Gives(loop, u, {"redirect"}),
           NEW n \in Nat, NEW kinds, "redirect" \notin kinds
    PROVE  Path(loop, u, n + 1, kinds) <=> Path(loop, web[u].to[loop], n, kinds)
<1> DEFINE v == web[u].to[loop]
<1>1. v \in Urls /\ SendsOn(loop, u, v) /\ ~Gives(loop, u, kinds)
  BY RedirectOK DEF SendsOn, Gives
<1>2. ASSUME Path(loop, u, n + 1, kinds) PROVE Path(loop, v, n, kinds)
  <2>0. PICK k \in 1..n + 1 : \E c \in [1..k -> Urls] : Leads(loop, c, k, u, kinds)
    BY <1>2 DEF Path
  <2>1. PICK c \in [1..k -> Urls] : c[1] = u /\ Linked(loop, c, k) /\ Gives(loop, c[k], kinds)
    BY <2>0 DEF Leads
  <2>2. k # 1
    BY <1>1, <2>1
  <2>3. k - 1 \in 1..n /\ 1 \in 1..k - 1 /\ k \in Nat
    BY <2>2
  <2> DEFINE d == [i \in 1..k - 1 |-> c[i + 1]]
  <2>4. d \in [1..k - 1 -> Urls] /\ \A i \in 1..k - 1 : d[i] = c[i + 1]
    BY <2>3
  <2> HIDE DEF d
  <2>5. d[1] = v
    <3>1. SendsOn(loop, u, c[1 + 1])
      BY <2>1, <2>3 DEF Linked
    <3>2. v = c[1 + 1]
      BY <3>1 DEF SendsOn
    <3> QED BY <2>3, <2>4, <3>2
  <2>6. Linked(loop, d, k - 1)
    <3> SUFFICES ASSUME NEW i \in 1..(k - 1) - 1
                 PROVE  SendsOn(loop, d[i], d[i + 1])
      BY DEF Linked
    <3>1. i \in 1..k - 1 /\ i + 1 \in 1..k - 1
      BY <2>3
    <3>2. SendsOn(loop, c[i + 1], c[(i + 1) + 1])
      BY <2>1, <3>1 DEF Linked
    <3> QED BY <2>4, <3>1, <3>2
  <2>7. d[k - 1] = c[k]
    BY <2>3, <2>4
  <2> QED BY <2>1, <2>3, <2>4, <2>5, <2>6, <2>7 DEF Path, Leads
<1>3. ASSUME Path(loop, v, n, kinds) PROVE Path(loop, u, n + 1, kinds)
  <2>0. PICK k \in 1..n : \E c \in [1..k -> Urls] : Leads(loop, c, k, v, kinds)
    BY <1>3 DEF Path
  <2>1. PICK c \in [1..k -> Urls] : c[1] = v /\ Linked(loop, c, k) /\ Gives(loop, c[k], kinds)
    BY <2>0 DEF Leads
  <2> DEFINE d == [i \in 1..k + 1 |-> IF i = 1 THEN u ELSE c[i - 1]]
  <2>2. /\ d \in [1..k + 1 -> Urls] /\ d[1] = u
        /\ \A i \in 1..k : d[i + 1] = c[i]
        /\ k + 1 \in 1..n + 1
    OBVIOUS
  <2> HIDE DEF d
  <2>3. Linked(loop, d, k + 1)
    <3> SUFFICES ASSUME NEW i \in 1..(k + 1) - 1
                 PROVE  SendsOn(loop, d[i], d[i + 1])
      BY DEF Linked
    <3>1. CASE i = 1
      BY <1>1, <2>1, <2>2, <3>1
    <3>2. CASE i # 1
      <4>1. i - 1 \in 1..k - 1 /\ i - 1 \in 1..k /\ i \in 1..k
        BY <3>2
      <4>2. SendsOn(loop, c[i - 1], c[(i - 1) + 1])
        BY <2>1, <4>1 DEF Linked
      <4>3. d[(i - 1) + 1] = c[i - 1] /\ d[i + 1] = c[i] /\ (i - 1) + 1 = i
        BY <2>2, <4>1
      <4> QED BY <4>1, <4>2, <4>3
    <3> QED BY <3>1, <3>2
  <2> QED BY <2>1, <2>2, <2>3 DEF Path, Leads
<1> QED BY <1>2, <1>3

LEMMA NoPath == \A loop, u, kinds : ~Path(loop, u, 0, kinds)
BY DEF Path

----------------------------------------------------------------------------
(* The verdict by chains solves both loops                                 *)

Verdict(loop, kinds) ==
    [hop \in 0..MaxRedirects |-> [u \in Urls |->
        IF Path(loop, u, MaxRedirects - hop + 1, kinds) THEN "up" ELSE "down"]]

EndAt(loop, kinds) == [u \in Urls |-> IF Gives(loop, u, kinds) THEN "up" ELSE "down"]

\* A loop that goes on from redirects, and from the addresses `again` to themselves.
LEMMA VerdictLoops ==
    ASSUME WebOK, NEW loop \in Loops, NEW kinds, "redirect" \notin kinds, NEW again,
           \A u \in again : ~Gives(loop, u, kinds \cup {"redirect"}),
           NEW on, NEW to,
           \A u \in Urls : u \in on <=> Gives(loop, u, {"redirect"}) \/ u \in again,
           \A u \in Urls : Gives(loop, u, {"redirect"}) => to[u] = web[u].to[loop],
           \A u \in again : to[u] = u
    PROVE  Loop(Verdict(loop, kinds), on, to, EndAt(loop, kinds))
<1> SUFFICES ASSUME NEW hop \in 0..MaxRedirects, NEW u \in Urls
             PROVE  Verdict(loop, kinds)[hop][u] =
                       IF u \notin on THEN EndAt(loop, kinds)[u]
                       ELSE IF hop = MaxRedirects THEN "down" ELSE Verdict(loop, kinds)[hop + 1][to[u]]
  BY DEF Loop
<1> DEFINE n == MaxRedirects - hop
<1>1. n \in Nat /\ n + 1 \in Nat \ {0} /\ (hop # MaxRedirects => n \in Nat \ {0})
  BY RedirectAssumption
<1>2. Verdict(loop, kinds)[hop][u] = IF Path(loop, u, n + 1, kinds) THEN "up" ELSE "down"
  BY DEF Verdict
<1>3. ASSUME hop # MaxRedirects, NEW v \in Urls
      PROVE  Verdict(loop, kinds)[hop + 1][v] = IF Path(loop, v, n, kinds) THEN "up" ELSE "down"
  <2>1. hop + 1 \in 0..MaxRedirects /\ MaxRedirects - (hop + 1) + 1 = n
    BY <1>3, RedirectAssumption
  <2> QED BY <2>1 DEF Verdict
<1> HIDE DEF n
<1>4. CASE u \notin on
  BY <1>1, <1>2, <1>4, PathEnds DEF EndAt
<1>5. CASE u \in on /\ Gives(loop, u, {"redirect"})
  <2>1. web[u].to[loop] \in Urls /\ to[u] = web[u].to[loop]
    BY <1>5, RedirectOK
  <2>2. Path(loop, u, n + 1, kinds) <=> Path(loop, web[u].to[loop], n, kinds)
    BY <1>1, <1>5, PathGoes
  <2>3. hop = MaxRedirects => n = 0
    BY DEF n
  <2> QED BY <1>2, <1>3, <1>5, <2>1, <2>2, <2>3, NoPath
<1>6. CASE u \in on /\ ~Gives(loop, u, {"redirect"})
  <2>1. u \in again /\ to[u] = u /\ ~Gives(loop, u, kinds)
    BY <1>6 DEF Gives
  <2>2. ~Path(loop, u, n + 1, kinds) /\ (hop # MaxRedirects => ~Path(loop, u, n, kinds))
    BY <1>1, <1>6, <2>1, PathEnds
  <2> QED BY <1>2, <1>3, <1>6, <2>1, <2>2
<1> QED BY <1>4, <1>5, <1>6

\* The addresses the TypeScript loop goes on from, and where to.
TsOn == {u \in Urls : "ts" \notin web[u].shut /\ TsTarget(web[u], u) # {}}

TsTo == [u \in TsOn |-> CHOOSE v \in TsTarget(web[u], u) : TRUE]

TsBody(f) ==
    [hop \in 0..MaxRedirects |-> [u \in Urls |->
        IF "ts" \in web[u].shut THEN "down"
        ELSE IF TsTarget(web[u], u) = {}
        THEN IF web[u].kind \in {"ok", "bare"} THEN "up" ELSE "down"
        ELSE IF hop = MaxRedirects THEN "down"
             ELSE f[hop + 1][CHOOSE v \in TsTarget(web[u], u) : TRUE]]]

LEMMA TsVerdictLoops ==
    ASSUME WebOK
    PROVE  /\ Loop(Verdict("ts", {"ok", "bare"}), TsOn, TsTo, EndAt("ts", {"ok", "bare"}))
           /\ TsTo \in [TsOn -> Urls]
<1> DEFINE again == {u \in Urls : Gives("ts", u, {"empty"})}
<1>1. ASSUME NEW u \in Urls
      PROVE  /\ u \in TsOn <=> Gives("ts", u, {"redirect"}) \/ u \in again
             /\ Gives("ts", u, {"redirect"}) => TsTo[u] = web[u].to["ts"]
             /\ u \in again => TsTo[u] = u /\ ~Gives("ts", u, {"ok", "bare"} \cup {"redirect"})
  BY DEF TsOn, TsTo, TsTarget, Gives
<1>2. Loop(Verdict("ts", {"ok", "bare"}), TsOn, TsTo, EndAt("ts", {"ok", "bare"}))
  BY <1>1, VerdictLoops DEF Loops
<1>3. TsTo \in [TsOn -> Urls]
  <2>1. \A u \in TsOn : TsTo[u] \in Urls
    BY <1>1, RedirectOK DEF TsOn, Loops
  <2> QED BY <2>1 DEF TsTo
<1> QED BY <1>2, <1>3

LEMMA TsBodyAt ==
    ASSUME NEW f, NEW hop \in 0..MaxRedirects, NEW u \in Urls
    PROVE  TsBody(f)[hop][u] = IF u \notin TsOn THEN EndAt("ts", {"ok", "bare"})[u]
                               ELSE IF hop = MaxRedirects THEN "down" ELSE f[hop + 1][TsTo[u]]
<1> DEFINE v == CHOOSE w \in TsTarget(web[u], u) : TRUE
<1>1. TsBody(f)[hop][u] = IF "ts" \in web[u].shut THEN "down"
                          ELSE IF TsTarget(web[u], u) = {}
                          THEN IF web[u].kind \in {"ok", "bare"} THEN "up" ELSE "down"
                          ELSE IF hop = MaxRedirects THEN "down" ELSE f[hop + 1][v]
  BY DEF TsBody
<1>2. u \in TsOn => TsTo[u] = v
  BY DEF TsTo
<1>3. u \in TsOn <=> "ts" \notin web[u].shut /\ TsTarget(web[u], u) # {}
  BY DEF TsOn
<1>4. EndAt("ts", {"ok", "bare"})[u] = IF "ts" \notin web[u].shut /\ web[u].kind \in {"ok", "bare"}
                                       THEN "up" ELSE "down"
  BY DEF EndAt, Gives
<1> HIDE DEF v
<1> QED BY <1>1, <1>2, <1>3, <1>4

\* The function the loop is: it exists, since the verdict is one, and is no other.
LEMMA TsVisitIsVerdict ==
    ASSUME WebOK, NEW u \in Urls PROVE TsVisit[0][u] = Verdict("ts", {"ok", "bare"})[0][u]
<1> DEFINE F == Verdict("ts", {"ok", "bare"})
<1>1. Loop(F, TsOn, TsTo, EndAt("ts", {"ok", "bare"})) /\ TsTo \in [TsOn -> Urls]
  BY TsVerdictLoops
<1>2. F = TsBody(F)
  <2>1. \A hop \in 0..MaxRedirects : \A v \in Urls : F[hop][v] = TsBody(F)[hop][v]
    BY <1>1, TsBodyAt DEF Loop
  <2>2. /\ F = [hop \in 0..MaxRedirects |-> [v \in Urls |-> F[hop][v]]]
        /\ TsBody(F) = [hop \in 0..MaxRedirects |-> [v \in Urls |-> TsBody(F)[hop][v]]]
    BY DEF Verdict, TsBody
  <2> HIDE DEF F
  <2> QED BY <2>1, <2>2
<1>3. TsVisit = TsBody(TsVisit)
  <2>1. TsVisit = CHOOSE f : f = TsBody(f)
    BY DEF TsVisit, TsBody
  <2> HIDE DEF F
  <2> QED BY <1>2, <2>1
<1>4. Loop(TsVisit, TsOn, TsTo, EndAt("ts", {"ok", "bare"}))
  BY <1>3, TsBodyAt DEF Loop
<1>5. 0 \in 0..MaxRedirects
  BY RedirectAssumption
<1> QED BY <1>1, <1>4, <1>5, SameLoop

\* The Go loop goes on from redirects alone.
GoOn == {u \in Urls : Gives("go", u, {"redirect"})}

GoTo == [u \in GoOn |-> web[u].to["go"]]

GoBody(f) ==
    [hop \in 0..MaxRedirects |-> [u \in Urls |->
        IF "go" \in web[u].shut THEN "down"
        ELSE IF web[u].kind = "redirect" /\ hop < MaxRedirects
        THEN f[hop + 1][web[u].to["go"]]
        ELSE IF web[u].kind = "ok" THEN "up" ELSE "down"]]

LEMMA GoVerdictLoops ==
    ASSUME WebOK
    PROVE  Loop(Verdict("go", {"ok"}), GoOn, GoTo, EndAt("go", {"ok"})) /\ GoTo \in [GoOn -> Urls]
<1>1. Loop(Verdict("go", {"ok"}), GoOn, GoTo, EndAt("go", {"ok"}))
  <2> DEFINE again == {}
  <2>1. \A u \in Urls : Gives("go", u, {"redirect"}) => GoTo[u] = web[u].to["go"]
    BY DEF GoTo, GoOn
  <2>2. \A u \in Urls : u \in GoOn <=> Gives("go", u, {"redirect"}) \/ u \in again
    BY DEF GoOn
  <2>3. \A u \in again : ~Gives("go", u, {"ok"} \cup {"redirect"}) /\ GoTo[u] = u
    OBVIOUS
  <2> HIDE DEF again
  <2> QED BY <2>1, <2>2, <2>3, VerdictLoops DEF Loops
<1>2. GoTo \in [GoOn -> Urls]
  BY RedirectOK DEF GoTo, GoOn, Loops
<1> QED BY <1>1, <1>2

LEMMA GoBodyAt ==
    ASSUME NEW f, NEW hop \in 0..MaxRedirects, NEW u \in Urls
    PROVE  GoBody(f)[hop][u] = IF u \notin GoOn THEN EndAt("go", {"ok"})[u]
                               ELSE IF hop = MaxRedirects THEN "down" ELSE f[hop + 1][GoTo[u]]
<1>1. GoBody(f)[hop][u] = IF "go" \in web[u].shut THEN "down"
                          ELSE IF web[u].kind = "redirect" /\ hop < MaxRedirects
                          THEN f[hop + 1][web[u].to["go"]]
                          ELSE IF web[u].kind = "ok" THEN "up" ELSE "down"
  BY DEF GoBody
<1>2. u \in GoOn => GoTo[u] = web[u].to["go"]
  BY DEF GoTo
<1>3. u \in GoOn <=> "go" \notin web[u].shut /\ web[u].kind = "redirect"
  BY DEF GoOn, Gives
<1>4. EndAt("go", {"ok"})[u] = IF "go" \notin web[u].shut /\ web[u].kind = "ok" THEN "up" ELSE "down"
  BY DEF EndAt, Gives
<1>5. hop < MaxRedirects <=> hop # MaxRedirects
  BY RedirectAssumption
<1> QED BY <1>1, <1>2, <1>3, <1>4, <1>5

LEMMA GoVisitIsVerdict ==
    ASSUME WebOK, NEW u \in Urls PROVE GoVisit[0][u] = Verdict("go", {"ok"})[0][u]
<1> DEFINE F == Verdict("go", {"ok"})
<1>1. Loop(F, GoOn, GoTo, EndAt("go", {"ok"})) /\ GoTo \in [GoOn -> Urls]
  BY GoVerdictLoops
<1>2. F = GoBody(F)
  <2>1. \A hop \in 0..MaxRedirects : \A v \in Urls : F[hop][v] = GoBody(F)[hop][v]
    BY <1>1, GoBodyAt DEF Loop
  <2>2. /\ F = [hop \in 0..MaxRedirects |-> [v \in Urls |-> F[hop][v]]]
        /\ GoBody(F) = [hop \in 0..MaxRedirects |-> [v \in Urls |-> GoBody(F)[hop][v]]]
    BY DEF Verdict, GoBody
  <2> HIDE DEF F
  <2> QED BY <2>1, <2>2
<1>3. GoVisit = GoBody(GoVisit)
  <2>1. GoVisit = CHOOSE f : f = GoBody(f)
    BY DEF GoVisit, GoBody
  <2> HIDE DEF F
  <2> QED BY <1>2, <2>1
<1>4. Loop(GoVisit, GoOn, GoTo, EndAt("go", {"ok"}))
  BY <1>3, GoBodyAt DEF Loop
<1>5. 0 \in 0..MaxRedirects
  BY RedirectAssumption
<1> QED BY <1>1, <1>4, <1>5, SameLoop

----------------------------------------------------------------------------
(* The verdicts                                                            *)

LEMMA VerdictIsFinal ==
    ASSUME NEW loop, NEW u \in Urls, NEW kinds
    PROVE  Verdict(loop, kinds)[0][u] = IF Final(loop, u, kinds) THEN "up" ELSE "down"
<1>1. 0 \in 0..MaxRedirects /\ MaxRedirects - 0 + 1 = MaxRedirects + 1
  BY RedirectAssumption
<1> QED BY <1>1, FinalIsPath DEF Verdict

LEMMA TsVerdict ==
    ASSUME WebOK, NEW u \in Urls
    PROVE  CheckUrl(u) = IF Final("ts", u, {"ok", "bare"}) THEN "up" ELSE "down"
BY TsVisitIsVerdict, VerdictIsFinal DEF CheckUrl

LEMMA GoVerdict ==
    ASSUME WebOK, NEW u \in Urls
    PROVE  CheckURL(u) = IF Final("go", u, {"ok"}) THEN "up" ELSE "down"
BY GoVisitIsVerdict, VerdictIsFinal DEF CheckURL

\* Of every web, and for every cap on redirects, checkUrl is up exactly if a chain of
\* redirects it may follow ends at a 2xx or a 3xx without a Location: circles, addresses
\* its guard rejects and one redirect too many included (http-check.ts).
THEOREM UpIsFinalHolds == Spec => []UpIsFinal2xxOr3xx
<1>1. WebOK => UpIsFinal2xxOr3xx
  BY TsVerdict DEF UpIsFinal2xxOr3xx
<1> QED BY <1>1, WebHolds, PTL

----------------------------------------------------------------------------
(* Where the loops part                                                    *)

\* An address alike to both sends the one on to where it sends the other.
LEMMA AlikeSendsOn ==
    ASSUME NEW p \in Loops, NEW q \in Loops, NEW u, Alike(u)
    PROVE  /\ \A v : SendsOn(p, u, v) => SendsOn(q, u, v)
           /\ \A kinds : Gives(p, u, kinds) => Gives(q, u, kinds)
BY DEF Alike, SendsOn, Gives, Loops

\* Up to the first address that is not, a chain of one loop is one of the other.
LEMMA ChainShared ==
    ASSUME NEW u, ~Parted(u), NEW p \in Loops, NEW q \in Loops,
           NEW k \in 1..MaxRedirects + 1, NEW c \in [1..k -> Urls],
           c[1] = u, Linked(p, c, k)
    PROVE  Linked(q, c, k) /\ Alike(c[k])
<1> DEFINE Odd == {i \in 1..k : ~Alike(c[i])}
           R == OpToRel(<, Nat)
<1>1. \A x, y \in Nat : x < y => <<x, y>> \in R
  BY DEF OpToRel
<1>2. IsWellFoundedOn(R, Nat)
  BY NatLessThanWellFounded
<1> HIDE DEF R
<1>3. Odd = {}
  <2> SUFFICES ASSUME Odd # {} PROVE FALSE
    OBVIOUS
  <2>1. Odd \subseteq Nat
    OBVIOUS
  <2> HIDE DEF Odd
  <2>2. PICK n \in Odd : \A j \in Odd : ~(<<j, n>> \in R)
    BY <1>2, <2>1, WFMin
  <2> USE DEF Odd
  <2>3. n \in 1..k /\ ~Alike(c[n]) /\ \A j \in 1..n - 1 : j \in 1..k /\ Alike(c[j])
    <3>1. n \in 1..k /\ ~Alike(c[n])
      OBVIOUS
    <3>2. ASSUME NEW j \in 1..n - 1 PROVE j \in 1..k /\ Alike(c[j])
      <4>1. j \in 1..k /\ j \in Nat /\ n \in Nat /\ j < n
        BY <3>1
      <4>2. j \notin Odd
        BY <1>1, <2>2, <4>1
      <4> QED BY <4>1, <4>2
    <3> QED BY <3>1, <3>2
  <2> HIDE DEF Odd
  <2> DEFINE d == [i \in 1..n |-> c[i]]
  <2>4. /\ d \in [1..n -> Urls] /\ \A i \in 1..n : d[i] = c[i]
        /\ n \in 1..MaxRedirects + 1
    BY <2>3, RedirectAssumption
  <2> HIDE DEF d
  <2>5. Linked(p, d, n) /\ Linked(q, d, n)
    <3> SUFFICES ASSUME NEW i \in 1..n - 1
                 PROVE  SendsOn(p, d[i], d[i + 1]) /\ SendsOn(q, d[i], d[i + 1])
      BY DEF Linked
    <3>1. i \in 1..k - 1 /\ i \in 1..n /\ i + 1 \in 1..n
      BY <2>3
    <3>2. SendsOn(p, c[i], c[i + 1])
      BY <3>1 DEF Linked
    <3>3. SendsOn(q, c[i], c[i + 1])
      BY <2>3, <3>2, AlikeSendsOn
    <3> QED BY <2>4, <3>1, <3>2, <3>3
  <2>6. d \in Chains(p) /\ d \in Chains(q)
    BY <2>4, <2>5, ChainsAre
  <2>7. Len(d) = n /\ d[1] = u /\ d[n] = c[n]
    BY <2>3, <2>4, ChainLen
  <2>8. p = q \/ {p, q} = {"ts", "go"}
    BY DEF Loops
  <2>9. CASE p # q
    BY <2>3, <2>6, <2>7, <2>8, <2>9 DEF Parted
  <2>10. CASE p = q
    <3>1. PICK r \in Loops : r # p
      BY DEF Loops
    <3>2. Linked(r, d, n)
      <4> SUFFICES ASSUME NEW i \in 1..n - 1 PROVE SendsOn(r, d[i], d[i + 1])
        BY DEF Linked
      <4>1. i \in 1..k - 1 /\ i \in 1..n /\ i + 1 \in 1..n
        BY <2>3
      <4>2. SendsOn(p, c[i], c[i + 1])
        BY <4>1 DEF Linked
      <4> QED BY <2>3, <2>4, <4>1, <4>2, <3>1, AlikeSendsOn
    <3>3. d \in Chains(r)
      BY <2>4, <3>2, ChainsAre
    <3>4. {p, r} = {"ts", "go"}
      BY <3>1 DEF Loops
    <3> QED BY <2>3, <2>6, <2>7, <3>3, <3>4 DEF Parted
  <2> QED BY <2>9, <2>10
<1>4. \A i \in 1..k : Alike(c[i])
  BY <1>3
<1>5. Linked(q, c, k)
  BY <1>4, AlikeSendsOn DEF Linked
<1> QED BY <1>4, <1>5

\* Where they do not part, they come to the same answers.
LEMMA FinalShared ==
    ASSUME NEW u, ~Parted(u), NEW p \in Loops, NEW q \in Loops, NEW kinds, Final(p, u, kinds)
    PROVE  Final(q, u, kinds)
<1>0. PICK k \in 1..MaxRedirects + 1 : \E c \in [1..k -> Urls] : Leads(p, c, k, u, kinds)
  BY FinalIsPath DEF Path
<1>1. PICK c \in [1..k -> Urls] : Leads(p, c, k, u, kinds)
  BY <1>0
<1>2. Linked(q, c, k) /\ Alike(c[k])
  BY <1>1, ChainShared DEF Leads
<1>3. Gives(q, c[k], kinds)
  BY <1>1, <1>2, AlikeSendsOn DEF Leads
<1> QED BY <1>1, <1>2, <1>3, FinalIsPath DEF Path, Leads

LEMMA FinalSplits ==
    ASSUME NEW u, Final("ts", u, {"ok", "bare"})
    PROVE  Final("ts", u, {"ok"}) \/ Final("ts", u, {"bare"})
BY DEF Final, Gives

\* Of every web, and for every cap on redirects, the two loops give the same verdict, but
\* that the Go one is down where a chain ends at a 3xx without a Location, and unless they
\* part: come together to an address that answers one of them only or leads them apart
\* (check.go, http-check.ts).
THEOREM SameVerdictHolds == Spec => []SameVerdict
<1>1. ASSUME WebOK, NEW u \in Urls, ~Parted(u)
      PROVE  CheckURL(u) = CheckUrl(u) \/ (Final("ts", u, {"bare"}) /\ CheckURL(u) = "down")
  <2>1. Final("go", u, {"ok"}) <=> Final("ts", u, {"ok"})
    BY <1>1, FinalShared DEF Loops
  <2>2. Final("ts", u, {"ok"}) => Final("ts", u, {"ok", "bare"})
    BY DEF Final, Gives
  <2> QED BY <1>1, <2>1, <2>2, TsVerdict, GoVerdict, FinalSplits
<1>2. WebOK => SameVerdict
  BY <1>1 DEF SameVerdict
<1> QED BY <1>2, WebHolds, PTL
=============================================================================
