--------------------------- MODULE CircuitBreaker ---------------------------
(***************************************************************************)
(* The probe's callback client (probe/internal/callback/client.go): posts  *)
(* made by concurrent goroutines, each with its retries, share one circuit *)
(* breaker under a mutex.  The lock is held for allow, recordSuccess and   *)
(* recordFailure only, so a post sends and waits with the circuit free to  *)
(* change under it.                                                        *)
(***************************************************************************)
EXTENDS Integers

CONSTANTS
    Callers,    \* goroutines that may be inside post() at once
    Threshold,  \* consecutive failed posts that open the circuit (5)
    Attempts,   \* length of the list of delays (4)
    OpenFor     \* how long the circuit stays open (30 s)

ASSUME BreakerAssumption ==
    Threshold \in Nat \ {0} /\ Attempts \in Nat \ {0} /\ OpenFor \in Nat \ {0}

VARIABLES
    api,        \* whether a request sent now is answered with success (environment)
    stopping,   \* the context is cancelled: SIGTERM
    state,
    failures,   \* saturating at Threshold, the only number it is compared with
    openLeft,   \* openUntil - now, 0 once past
    call        \* what each goroutine's post() is doing

circuit == <<state, failures, openLeft>>
vars    == <<api, stopping, circuit, call>>

\* trial: the circuit let the post through while half-open.
Call == [pc : {"idle", "send", "wait", "won", "lost"}, attempt : 1..Attempts, trial : BOOLEAN]

NoCall == [pc |-> "idle", attempt |-> 1, trial |-> FALSE]

TypeOK ==
    /\ api \in BOOLEAN
    /\ stopping \in BOOLEAN
    /\ state \in {"closed", "open", "half-open"}
    /\ failures \in 0..Threshold
    /\ openLeft \in 0..OpenFor
    /\ call \in [Callers -> Call]

Init ==
    /\ api \in BOOLEAN
    /\ stopping = FALSE
    /\ state = "closed"
    /\ failures = 0
    /\ openLeft = 0
    /\ call = [c \in Callers |-> NoCall]

----------------------------------------------------------------------------

Return(c) == call' = [call EXCEPT ![c] = NoCall]

\* allow() lets the post through; refused, post() returns and nothing has changed.
Start(c) ==
    /\ call[c].pc = "idle"
    /\ state = "open" => openLeft = 0
    /\ state' = IF state = "open" THEN "half-open" ELSE state
    /\ call' = [call EXCEPT ![c] = [pc |-> "send", attempt |-> 1,
                                    trial |-> state' = "half-open"]]
    /\ UNCHANGED <<api, stopping, failures, openLeft>>

\* Mutant of MoreDelays: one attempt too many.
MoreDelaysOffByOne(attempt) == attempt <= Attempts

\* post() has a delay left, and so another attempt.
MoreDelays(attempt) == attempt < Attempts

\* doPost(): a cancelled context fails the request whatever the api would say.
Send(c) ==
    /\ call[c].pc = "send"
    /\ call' = [call EXCEPT ![c].pc = IF api /\ ~stopping THEN "won"
                                      ELSE IF MoreDelays(call[c].attempt) THEN "wait"
                                      ELSE "lost"]
    /\ UNCHANGED <<api, stopping, circuit>>

\* The delay is over first ...
Retry(c) ==
    /\ call[c].pc = "wait"
    /\ call' = [call EXCEPT ![c].pc = "send", ![c].attempt = @ + 1]
    /\ UNCHANGED <<api, stopping, circuit>>

\* ... or the context is cancelled first, and nothing is recorded.
Abandon(c) ==
    /\ call[c].pc = "wait"
    /\ stopping
    /\ Return(c)
    /\ UNCHANGED <<api, stopping, circuit>>

\* Mutant of RecordSuccess: the counter is reset and the state is not.
RecordSuccessCountOnly(c) ==
    /\ call[c].pc = "won"
    /\ failures' = 0
    /\ Return(c)
    /\ UNCHANGED <<api, stopping, state, openLeft>>

\* The circuit closes, even if it has been opened since the post began.
RecordSuccess(c) ==
    /\ call[c].pc = "won"
    /\ state' = "closed"
    /\ failures' = 0
    /\ Return(c)
    /\ UNCHANGED <<api, stopping, openLeft>>

\* Mutant of Trips: one failure too many before the circuit opens.
TripsLate(n) == n > Threshold \/ state = "half-open"

\* Mutant of Trips: a failed trial leaves the circuit half-open.
TripsClosedOnly(n) == n >= Threshold /\ state # "half-open"

Trips(n) == n >= Threshold \/ state = "half-open"

\* The circuit opens, or stays open for another OpenFor.
RecordFailure(c) ==
    /\ call[c].pc = "lost"
    /\ failures' = IF failures < Threshold THEN failures + 1 ELSE failures
    /\ IF Trips(failures') THEN state' = "open" /\ openLeft' = OpenFor
       ELSE UNCHANGED <<state, openLeft>>
    /\ Return(c)
    /\ UNCHANGED <<api, stopping>>

Elapse ==
    /\ openLeft > 0
    /\ openLeft' = openLeft - 1
    /\ UNCHANGED <<api, stopping, state, failures, call>>

Shutdown ==
    /\ ~stopping
    /\ stopping' = TRUE
    /\ UNCHANGED <<api, circuit, call>>

ApiFlips ==
    /\ api' = ~api
    /\ UNCHANGED <<stopping, circuit, call>>

----------------------------------------------------------------------------

PostStep(c) ==
    \/ Send(c) \/ Retry(c) \/ Abandon(c) \/ RecordSuccess(c) \/ RecordFailure(c)

Next ==
    \/ \E c \in Callers : Start(c) \/ PostStep(c)
    \/ Elapse \/ Shutdown \/ ApiFlips

\* Requests and delays end (the http.Client has a timeout) and the clock runs;
\* nobody has to post, the api has to answer nothing.
Fairness == WF_vars(Elapse) /\ \A c \in Callers : WF_vars(PostStep(c))

Spec == Init /\ [][Next]_vars /\ Fairness

----------------------------------------------------------------------------
(* Properties                                                              *)

\* Closed exactly while fewer than Threshold posts have failed since the last
\* success: no interleaving of late successes and failures opens the circuit
\* early, or leaves it closed with the count at its limit.
ClosedBelowThreshold == state = "closed" <=> failures < Threshold

\* The circuit does not stay half-open: the trial's result closes or reopens it.
\* (Only a shutdown may abandon the trial before it has a result.)
HalfOpenResolves == []~stopping => (state = "half-open" ~> state # "half-open")

\* Once the api is well, the circuit closes for good if posts go on being sent:
\* no leftover failure keeps the probe away from a healthy api.
SettlesClosed ==
    []~stopping /\ <>[]api /\ []<>(\E c \in Callers : call[c].pc = "send")
        => <>[](state = "closed")

\* "test with one request": while half-open, the circuit has let one post through.
HalfOpenAllowsOneRequest ==
    \A c, d \in Callers :
        state = "half-open" /\ call[c].trial /\ call[d].trial => c = d
=============================================================================
