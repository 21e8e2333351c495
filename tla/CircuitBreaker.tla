--------------------------- MODULE CircuitBreaker ---------------------------
(***************************************************************************)
(* The in-memory health of one LLM provider, shared by every tenant of the *)
(* process: check_circuit_open gates each call_*_raw, record_failure keeps *)
(* the times of recent failures in a deque that it prunes lazily, and      *)
(* nothing but time closes the circuit.                                    *)
(*                                                                         *)
(* A failure is kept as its age, saturated at FailWindow: time is          *)
(* unbounded and the state stays finite.                                   *)
(***************************************************************************)
EXTENDS Naturals, Sequences, SequencesExt, FiniteSets

CONSTANTS
    Callers,         \* concurrent users of the provider
    FailThreshold,   \* FAIL_THRESHOLD
    FailWindow       \* FAIL_WINDOW, in ticks

ASSUME BreakerAssumption ==
    FailThreshold \in Nat \ {0} /\ FailWindow \in Nat \ {0} /\ IsFiniteSet(Callers)

VARIABLES
    failures,   \* recent_failures, oldest first, as ages
    pc          \* where each caller is

vars == <<failures, pc>>

Fresh(deque) == Cardinality({i \in DOMAIN deque : deque[i] < FailWindow})
Open         == Fresh(failures) >= FailThreshold

Init ==
    /\ failures = <<>>
    /\ pc = [c \in Callers |-> "idle"]

Call(c) ==
    /\ pc[c] = "idle"
    /\ pc' = [pc EXCEPT ![c] = "gate"]
    /\ UNCHANGED failures

Pass(c) ==
    /\ pc[c] = "gate"
    /\ ~ Open
    /\ pc' = [pc EXCEPT ![c] = "posting"]
    /\ UNCHANGED failures

\* Mutant of Pruned: forgets to drop the expired failures.
PrunedNever(deque) == deque

\* The front of the deque is dropped while it is older than the window.
Pruned(deque) ==
    LET first == SelectInSeq(deque, LAMBDA age : age < FailWindow) IN
    IF first = 0 THEN <<>> ELSE SubSeq(deque, first, Len(deque))

\* An open circuit answers the caller at once and records nothing.
ShortCircuit(c) ==
    /\ pc[c] = "gate"
    /\ Open
    /\ pc' = [pc EXCEPT ![c] = "idle"]
    /\ UNCHANGED failures

\* Any error of the provider counts: exhausted retries, an unreadable body,
\* and the error object of a 4xx.
Fail(c) ==
    /\ pc[c] = "posting"
    /\ pc' = [pc EXCEPT ![c] = "idle"]
    /\ failures' = Append(Pruned(failures), 0)

\* record_success keeps the failures.
Succeed(c) ==
    /\ pc[c] = "posting"
    /\ pc' = [pc EXCEPT ![c] = "idle"]
    /\ UNCHANGED failures

Tick ==
    /\ failures' = [i \in DOMAIN failures |->
                      IF failures[i] < FailWindow THEN failures[i] + 1 ELSE FailWindow]
    /\ UNCHANGED pc

Next ==
    \/ Tick
    \/ \E c \in Callers :
        Call(c) \/ Pass(c) \/ ShortCircuit(c) \/ Fail(c) \/ Succeed(c)

Spec == Init /\ [][Next]_vars

\* Time passes, the gate answers, and every request ends (it has a timeout).
Fairness ==
    /\ WF_vars(Tick)
    /\ \A c \in Callers : /\ WF_vars(Pass(c) \/ ShortCircuit(c))
                          /\ WF_vars(Fail(c) \/ Succeed(c))

FairSpec == Spec /\ Fairness
-----------------------------------------------------------------------------
\* The kind of value each variable holds; the ages never grow along the
\* deque, which is what pruning only its front relies on.
TypeOK ==
    /\ failures \in Seq(0 .. FailWindow)
    /\ IsSorted(failures, >=)
    /\ pc \in [Callers -> {"idle", "gate", "posting"}]

\* "Prunes any failure timestamp older than FAIL_WINDOW so the deque stays
\* bounded": callers past the gate may still fail after the circuit opened,
\* but never more of them than there are callers.
DequeBounded == Len(failures) <= FailThreshold - 1 + Cardinality(Callers)

\* "After FAIL_WINDOW with no new failures the circuit closes again
\* automatically", even if callers keep knocking on it.
ClosesByDecay == []<>(~ Open)
=============================================================================
