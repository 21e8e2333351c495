------------------------------- MODULE LlmCall -------------------------------
(***************************************************************************)
(* A call_<provider>_with_tools among the other users of its provider: the *)
(* tool loop goes through the circuit breaker at each of its rounds, a     *)
(* round that ends in an error is one more failure of the provider, and    *)
(* time is the same for both.  The others do one request after another.    *)
(*                                                                         *)
(* To the breaker the loop is a caller like any other (Gate).              *)
(***************************************************************************)
EXTENDS CircuitBreaker, ToolLoop

CONSTANT Me     \* the caller whose loop is modelled

ASSUME MeAssumption == Me \notin Callers

llmVars == <<vars, loopVars>>

LlmInit == Init /\ LoopInit

\* Mutant of Begins: a round is begun without a look at the circuit.
BeginsAnyway == BeginRound /\ UNCHANGED vars

\* The gate of call_<provider>_raw, in every round.
Begins  == ~Open /\ BeginRound /\ UNCHANGED vars
Refused == Open /\ CircuitOpen /\ UNCHANGED vars

Goes ==
    /\ \/ BeginCall \/ RoundsCapHit \/ DurationCapHit
       \/ Headers \/ WakeUp \/ Answer \/ ToolCalls \/ ToolsDone
    /\ UNCHANGED vars

\* A failed attempt counts when it was the last one of its round.
Fails ==
    /\ TransportError \/ TimedOut \/ TransientStatus \/ HardFailure
    /\ failures' = IF phase' = "err" THEN Append(Pruned(failures), 0) ELSE failures
    /\ UNCHANGED pc

Loops == Begins \/ Refused \/ Goes \/ Fails

OthersCall == \E c \in Callers :
    /\ Call(c) \/ Pass(c) \/ ShortCircuit(c) \/ Fail(c) \/ Succeed(c)
    /\ UNCHANGED loopVars

\* Time passes for both; a step of the loop is taken at its deadline.
Passes ==
    /\ Tick
    /\ IF phase = "idle" \/ Ended THEN UNCHANGED loopVars ELSE LoopTick

LlmNext == Passes \/ Loops \/ OthersCall

LlmSpec == LlmInit /\ [][LlmNext]_llmVars

-----------------------------------------------------------------------------
(* The loop as one more caller of the breaker: at the gate when it has a   *)
(* round to begin, posting until the round has its answer or its error.    *)

MyPlace ==
    CASE phase = "round" /\ round < MaxRounds /\ elapsed <= MaxDuration -> "gate"
      [] phase \in {"post", "sleep", "body"}                            -> "posting"
      [] OTHER                                                          -> "idle"

Places == [c \in Callers \cup {Me} |-> IF c = Me THEN MyPlace ELSE pc[c]]

Gate == INSTANCE CircuitBreaker WITH Callers <- Callers \cup {Me}, pc <- Places

\* However its rounds, retries and caps fall, a tool loop is to the breaker a
\* caller that looks at the gate before each request and records each outcome
\* once (call_*_with_tools over call_*_raw, check_circuit_open, record_failure).
ImplementsBreaker == Gate!Spec

\* Its tools run once a round, retried requests or not, and the call takes at
\* most the duration cap and a round with all its retries, which is what makes
\* an in_progress row of llm_call_logs surely dead (retry_http_post).
CallBounded == LoopTypeOK /\ ToolsRunOnce /\ CallTimeBounded

\* The deque of failures stays bounded with the loop among the callers: those
\* past the gate may still fail after the circuit opened, and nobody else
\* (check_circuit_open, record_failure).
FailuresBounded == Gate!DequeBounded

\* Once begun, a call ends whatever the provider does, and the circuit closes
\* again whatever the callers do (call_*_with_tools, check_circuit_open).
EndsAndCloses == (phase # "idle" ~> Ended) /\ ClosesByDecay
=============================================================================
