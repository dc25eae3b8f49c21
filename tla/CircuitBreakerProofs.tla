------------------------ MODULE CircuitBreakerProofs ------------------------
(***************************************************************************)
(* For any number of goroutines, attempts and failures allowed: the        *)
(* circuit is closed exactly below the threshold.                          *)
(***************************************************************************)
EXTENDS CircuitBreaker, TLAPS

\* TypeOK alone does not survive Retry: a post waits only while it has a delay left.
WaitsHaveDelays == \A c \in Callers : call[c].pc = "wait" => call[c].attempt < Attempts

IInv == TypeOK /\ WaitsHaveDelays /\ ClosedBelowThreshold

LEMMA InitIInv == Init => IInv
<1> SUFFICES ASSUME Init PROVE IInv
  OBVIOUS
<1>1. NoCall \in Call /\ NoCall.pc # "wait"
  BY BreakerAssumption DEF NoCall, Call
<1>2. TypeOK
  <2>1. 0 \in 0..Threshold /\ 0 \in 0..OpenFor
    BY BreakerAssumption
  <2>2. call \in [Callers -> Call]
    BY <1>1 DEF Init
  <2> QED BY <2>1, <2>2 DEF Init, TypeOK
<1>3. WaitsHaveDelays
  BY <1>1 DEF Init, WaitsHaveDelays
<1>4. ClosedBelowThreshold
  BY BreakerAssumption DEF Init, ClosedBelowThreshold
<1> QED BY <1>2, <1>3, <1>4 DEF IInv

\* Replacing one goroutine's record by a well-formed one keeps the others' facts.
LEMMA CallUpdate ==
    ASSUME TypeOK, WaitsHaveDelays, NEW c \in Callers, NEW r \in Call,
           r.pc = "wait" => r.attempt < Attempts,
           call' = [call EXCEPT ![c] = r]
    PROVE  call' \in [Callers -> Call] /\ WaitsHaveDelays'
BY DEF TypeOK, WaitsHaveDelays

LEMMA NoCallOK == NoCall \in Call /\ NoCall.pc # "wait"
BY BreakerAssumption DEF NoCall, Call

LEMMA StartIInv == ASSUME IInv, NEW c \in Callers, Start(c) PROVE IInv'
<1> DEFINE r == [pc |-> "send", attempt |-> 1, trial |-> state' = "half-open"]
<1>1. r \in Call /\ r.pc # "wait"
  BY BreakerAssumption DEF Call
<1>2. call' = [call EXCEPT ![c] = r]
  BY DEF Start
<1>3. call' \in [Callers -> Call] /\ WaitsHaveDelays'
  <2> HIDE DEF r
  <2> QED BY <1>1, <1>2, CallUpdate DEF IInv
<1>4. state' = "closed" <=> state = "closed"
  BY DEF Start
<1> QED BY <1>3, <1>4 DEF IInv, TypeOK, ClosedBelowThreshold, Start

\* Sending, waiting and giving up leave the circuit alone.
LEMMA AttemptIInv ==
    ASSUME IInv, NEW c \in Callers, Send(c) \/ Retry(c) \/ Abandon(c)
    PROVE  IInv'
<1> USE DEF IInv
<1>1. call[c] \in Call
  BY DEF TypeOK
<1>2. call' \in [Callers -> Call] /\ WaitsHaveDelays'
  <2>1. CASE Send(c)
    <3> DEFINE pc == IF api /\ ~stopping THEN "won"
                     ELSE IF MoreDelays(call[c].attempt) THEN "wait" ELSE "lost"
               r == [call[c] EXCEPT !.pc = pc]
    <3>1. r \in Call /\ (r.pc = "wait" => r.attempt < Attempts)
      BY <1>1 DEF Call, MoreDelays
    <3>2. call' = [call EXCEPT ![c] = r]
      BY <2>1, <1>1 DEF Send, TypeOK
    <3> HIDE DEF r
    <3> QED BY <3>1, <3>2, CallUpdate
  <2>2. CASE Retry(c)
    <3> DEFINE r == [call[c] EXCEPT !.pc = "send", !.attempt = @ + 1]
    <3>0. call[c].attempt + 1 \in 1..Attempts
      <4>1. call[c].attempt < Attempts
        BY <2>2 DEF Retry, WaitsHaveDelays
      <4>2. call[c].attempt \in 1..Attempts
        BY <1>1 DEF Call
      <4> QED BY <4>1, <4>2, BreakerAssumption
    <3>1. r \in Call /\ r.pc # "wait"
      BY <3>0, <1>1 DEF Call
    <3>2. call' = [call EXCEPT ![c] = r]
      BY <2>2, <1>1 DEF Retry, TypeOK
    <3> HIDE DEF r
    <3> QED BY <3>1, <3>2, CallUpdate
  <2>3. CASE Abandon(c)
    BY <2>3, NoCallOK, CallUpdate DEF Abandon, Return
  <2> QED BY <2>1, <2>2, <2>3
<1>3. UNCHANGED <<api, stopping, circuit>>
  BY DEF Send, Retry, Abandon
<1> QED BY <1>2, <1>3 DEF TypeOK, ClosedBelowThreshold, circuit

\* The two results a post can have are what moves the circuit.
LEMMA RecordIInv ==
    ASSUME IInv, NEW c \in Callers, RecordSuccess(c) \/ RecordFailure(c)
    PROVE  IInv'
<1>1. call' \in [Callers -> Call] /\ WaitsHaveDelays'
  BY NoCallOK, CallUpdate DEF IInv, RecordSuccess, RecordFailure, Return
<1>2. CASE RecordSuccess(c)
  BY <1>1, <1>2, BreakerAssumption DEF IInv, TypeOK, ClosedBelowThreshold, RecordSuccess
<1>3. CASE RecordFailure(c)
  <2>1. failures' \in 0..Threshold
    BY <1>3, BreakerAssumption DEF IInv, TypeOK, RecordFailure
  <2>2. Trips(failures') <=> (failures' >= Threshold \/ state = "half-open")
    BY DEF Trips
  <2>3. CASE Trips(failures')
    <3>1. failures' = Threshold
      BY <1>3, <2>1, <2>2, <2>3, BreakerAssumption
         DEF IInv, TypeOK, ClosedBelowThreshold, RecordFailure
    <3> QED BY <1>1, <1>3, <2>1, <2>3, <3>1, BreakerAssumption
            DEF IInv, TypeOK, ClosedBelowThreshold, RecordFailure
  <2>4. CASE ~Trips(failures')
    <3>1. state = "closed" <=> failures' < Threshold
      BY <1>3, <2>1, <2>2, <2>4, BreakerAssumption
         DEF IInv, TypeOK, ClosedBelowThreshold, RecordFailure
    <3> QED BY <1>1, <1>3, <2>1, <2>4, <3>1
            DEF IInv, TypeOK, ClosedBelowThreshold, RecordFailure
  <2> QED BY <2>3, <2>4
<1> QED BY <1>2, <1>3

LEMMA StepIInv == IInv /\ [Next]_vars => IInv'
<1> SUFFICES ASSUME IInv, [Next]_vars PROVE IInv'
  OBVIOUS
<1>1. ASSUME NEW c \in Callers, Start(c) PROVE IInv'
  BY <1>1, StartIInv
<1>2. ASSUME NEW c \in Callers, PostStep(c) PROVE IInv'
  BY <1>2, AttemptIInv, RecordIInv DEF PostStep
<1>3. CASE Elapse
  BY <1>3, BreakerAssumption DEF Elapse, IInv, TypeOK, WaitsHaveDelays, ClosedBelowThreshold
<1>4. CASE Shutdown \/ ApiFlips
  BY <1>4 DEF Shutdown, ApiFlips, IInv, TypeOK, WaitsHaveDelays, ClosedBelowThreshold, circuit
<1>5. CASE UNCHANGED vars
  BY <1>5 DEF vars, circuit, IInv, TypeOK, WaitsHaveDelays, ClosedBelowThreshold
<1> QED BY <1>1, <1>2, <1>3, <1>4, <1>5 DEF Next

\* The inductive invariant holds in every behaviour.
THEOREM Invariance == Spec => []IInv
BY InitIInv, StepIInv, PTL DEF Spec

\* The client's state is well formed: no post makes more attempts than it has delays.
THEOREM TypeCorrect == Spec => []TypeOK
<1>1. IInv => TypeOK
  BY DEF IInv
<1> QED BY <1>1, Invariance, PTL

\* The circuit is closed exactly while fewer than Threshold posts have failed in a
\* row, for every number of goroutines: half-open needs no counter of its own.
THEOREM ClosedExactlyBelowThreshold == Spec => []ClosedBelowThreshold
<1>1. IInv => ClosedBelowThreshold
  BY DEF IInv
<1> QED BY <1>1, Invariance, PTL
=============================================================================
