--------------------------- MODULE TurnCalls_proofs ---------------------------
(***************************************************************************)
(* Proofs about what a turn calls: the LLM, for every number of callers,   *)
(* rounds and tools, and every threshold, window, timeout and backoff, and *)
(* the session log, for any number of sessions and events, any capacity of *)
(* the channel and any number of faults.                                   *)
(*                                                                         *)
(* A step of the loop is a step of the breaker, or none: only the phase    *)
(* says where the loop is for the breaker, and no time passes at the head  *)
(* of a round (Positioned).  How long a call takes follows from what each  *)
(* attempt may still take (Budgeted); that no tool runs twice, from the    *)
(* tools of later rounds not having been run (Dispatching).                *)
(*                                                                         *)
(* EventsInOrder of the log speaks of the table only, but an event that is *)
(* stored out of order was out of order in the channel already: every      *)
(* mutation of a session, stored or queued, is placed before those queued  *)
(* behind it and before the next one its producer will number.             *)
(***************************************************************************)
EXTENDS LlmCall, SessionLog, FiniteSetTheorems, WellFoundedInduction, TLAPS

Phases == {"idle", "round", "sleep", "post", "body", "tools", "ok", "err"}

\* What the refinement rests on.
Positioned ==
    /\ phase \in Phases
    /\ phase \in {"idle", "round"} => timer = 0
    /\ pc = [c \in Callers |-> pc[c]]

-----------------------------------------------------------------------------
(* How long a call takes, and how often its tools run.                     *)

\* What the attempts before the n-th have cost at most, with their delays.
Spent(n) ==
      (IF n > 1 THEN Timeout + BodyTime + LongestDelay(1) ELSE 0)
    + (IF n > 2 THEN Timeout + BodyTime + LongestDelay(2) ELSE 0)
    + (IF n > 3 THEN Timeout + BodyTime + LongestDelay(3) ELSE 0)

\* What is left to the step under way fits in what its attempt may cost.
Budgeted ==
    /\ phase \in Phases
    /\ attempt \in 0 .. 4
    /\ timer \in Nat
    /\ elapsed \in Nat
    /\ phase = "idle"  => elapsed = 0 /\ timer = 0
    /\ phase = "post"  => /\ attempt \in 1 .. 4
                          /\ elapsed + timer <= MaxDuration + Spent(attempt) + Timeout
    /\ phase = "body"  => /\ attempt \in 1 .. 4
                          /\ elapsed + timer <= MaxDuration + Spent(attempt) + Timeout + BodyTime
    /\ phase = "sleep" => /\ attempt \in 1 .. 3
                          /\ elapsed + timer <= MaxDuration + Spent(attempt + 1)
    /\ phase \in {"round", "tools", "ok", "err"} => elapsed + timer <= CallTime

\* The tools of this round have not run while its request is under way, and
\* those of the rounds to come have not run at all.
Dispatching ==
    /\ round \in 0 .. MaxRounds
    /\ dispatched \in [1 .. MaxRounds -> 0 .. 2]
    /\ ToolsRunOnce
    /\ \A r \in 1 .. MaxRounds : r > round => dispatched[r] = 0
    /\ phase \in {"post", "body", "sleep"} => round >= 1 /\ dispatched[round] = 0

\* The steps of the loop, without what they do to the breaker.
LoopStep ==
    \/ BeginCall \/ RoundsCapHit \/ DurationCapHit \/ CircuitOpen \/ BeginRound
    \/ Headers \/ TransportError \/ TimedOut \/ TransientStatus \/ HardFailure
    \/ WakeUp \/ Answer \/ ToolCalls \/ ToolsDone \/ LoopTick

\* A step of LlmCall is one of the loop, or leaves the loop alone.
LEMMA StepsOfTheLoop == [LlmNext]_llmVars => [LoopStep]_loopVars
BY DEF LlmNext, Passes, Loops, Begins, Refused, Goes, Fails, OthersCall, LoopStep, llmVars

\* The sums of lengths are lengths.
LEMMA Lengths ==
    /\ MaxDuration \in Nat /\ Timeout \in Nat /\ BodyTime \in Nat /\ ToolTime \in Nat
    /\ \A n \in 1 .. 3 : LongestDelay(n) \in Nat
    /\ CallTime = MaxDuration + Spent(4) + Timeout + BodyTime + ToolTime
    /\ CallTime \in Nat
<1>1. \A n \in 1 .. 3 : LongestDelay(n) \in Nat
  BY LoopAssumption DEF LongestDelay, MaxOf, Retries
<1> QED
  BY <1>1, LoopAssumption DEF Spent, CallTime, RoundTime, Retries

\* What is spent grows with the attempts, by an attempt and its delay each time.
LEMMA Spending ==
    ASSUME NEW n \in 1 .. 4
    PROVE  /\ Spent(n) \in Nat
           /\ Spent(n) <= Spent(4)
           /\ n # 4 => /\ Spent(n + 1) \in Nat
                      /\ Spent(n + 1) = Spent(n) + Timeout + BodyTime + LongestDelay(n)
<1>1. LongestDelay(1) \in Nat /\ LongestDelay(2) \in Nat /\ LongestDelay(3) \in Nat
  BY Lengths
<1>2. /\ Spent(1) = 0
      /\ Spent(2) = Timeout + BodyTime + LongestDelay(1)
      /\ Spent(3) = Spent(2) + Timeout + BodyTime + LongestDelay(2)
      /\ Spent(4) = Spent(3) + Timeout + BodyTime + LongestDelay(3)
  BY <1>1, Lengths DEF Spent
<1>3. Spent(2) \in Nat /\ Spent(3) \in Nat /\ Spent(4) \in Nat
  BY <1>1, <1>2, Lengths
<1>4. n = 1 \/ n = 2 \/ n = 3 \/ n = 4
  OBVIOUS
<1>5. CASE n = 1
  BY <1>1, <1>2, <1>3, <1>5, Lengths
<1>6. CASE n = 2
  BY <1>1, <1>2, <1>3, <1>6, Lengths
<1>7. CASE n = 3
  BY <1>1, <1>2, <1>3, <1>7, Lengths
<1>8. CASE n = 4
  BY <1>3, <1>8
<1> QED
  BY <1>4, <1>5, <1>6, <1>7, <1>8

\* A sleep before a retry is no longer than the longest delay of its attempt.
LEMMA DelayBounded ==
    ASSUME NEW n \in 1 .. 3, NEW o \in 0 .. NoRetryAfter
    PROVE  Delay(n, o) \in 0 .. LongestDelay(n)
BY LoopAssumption DEF Delay, LongestDelay, MinOf, MaxOf, NoRetryAfter, Retries

\* A failed attempt leaves enough for the attempts that may follow it.
LEMMA RetryInBudget ==
    ASSUME Budgeted, NEW o \in 0 .. NoRetryAfter, RetryOrGiveUp(o), phase \in {"post", "body"}
    PROVE  Budgeted'
<1>0. attempt \in 1 .. 4 /\ elapsed \in Nat /\ timer \in Nat
  BY DEF Budgeted
<1>1. elapsed <= MaxDuration + Spent(attempt) + Timeout + BodyTime
  <2>1. Spent(attempt) \in Nat
    BY <1>0, Spending
  <2> QED
    BY <1>0, <2>1, Lengths DEF Budgeted
<1>2. CASE attempt <= Retries
  <2>1. attempt \in 1 .. 3 /\ attempt # 4
    BY <1>0, <1>2 DEF Retries
  <2>2. /\ timer' \in 0 .. LongestDelay(attempt)
        /\ phase' = "sleep"
        /\ UNCHANGED <<attempt, elapsed>>
    BY <1>2, <2>1, DelayBounded DEF RetryOrGiveUp
  <2>3. /\ LongestDelay(attempt) \in Nat
        /\ Spent(attempt) \in Nat
        /\ Spent(attempt + 1) = Spent(attempt) + Timeout + BodyTime + LongestDelay(attempt)
    BY <1>0, <2>1, Lengths, Spending
  <2>4. elapsed + timer' <= MaxDuration + Spent(attempt + 1)
    BY <1>0, <1>1, <2>2, <2>3, Lengths
  <2> QED
    BY <1>0, <2>1, <2>2, <2>3, <2>4, Lengths DEF Budgeted, Phases
<1>3. CASE ~(attempt <= Retries)
  <2>1. attempt = 4 /\ Finish("err")
    BY <1>0, <1>3 DEF Retries, RetryOrGiveUp
  <2>2. elapsed <= CallTime
    BY <1>0, <1>1, <2>1, Lengths, Spending
  <2> QED
    BY <1>0, <2>1, <2>2, Lengths DEF Budgeted, Phases, Finish
<1> QED
  BY <1>2, <1>3

\* An answer leaves the time its tools may take.
LEMMA BodyInBudget ==
    ASSUME Budgeted, phase = "body"
    PROVE  elapsed + ToolTime <= CallTime
<1>1. attempt \in 1 .. 4 /\ elapsed \in Nat /\ timer \in Nat
  BY DEF Budgeted
<1>2. Spent(attempt) \in Nat /\ Spent(4) \in Nat /\ Spent(attempt) <= Spent(4)
  BY <1>1, Spending
<1> QED
  BY <1>1, <1>2, Lengths DEF Budgeted

\* A call that has not ended within its budget has time left.
LEMMA WithinCallTime == Budgeted => elapsed + timer <= CallTime
<1> SUFFICES ASSUME Budgeted
             PROVE  elapsed + timer <= CallTime
  OBVIOUS
<1>1. phase \in Phases /\ elapsed \in Nat /\ timer \in Nat
  BY DEF Budgeted
<1>2. CASE phase \in {"post", "body"}
  <2>1. attempt \in 1 .. 4
    BY <1>2 DEF Budgeted
  <2>2. Spent(attempt) \in Nat /\ Spent(4) \in Nat /\ Spent(attempt) <= Spent(4)
    BY <2>1, Spending
  <2> QED
    BY <1>1, <1>2, <2>2, Lengths DEF Budgeted
<1>3. CASE phase = "sleep"
  <2>1. attempt + 1 \in 1 .. 4
    BY <1>3 DEF Budgeted
  <2>2. Spent(attempt + 1) \in Nat /\ Spent(4) \in Nat /\ Spent(attempt + 1) <= Spent(4)
    BY <2>1, Spending
  <2> QED
    BY <1>1, <1>3, <2>2, Lengths DEF Budgeted
<1> QED
  BY <1>1, <1>2, <1>3, Lengths DEF Budgeted, Phases

\* Every step of the loop keeps within its budget.
LEMMA NextBudgeted == Budgeted /\ [LoopStep]_loopVars => Budgeted'
<1> SUFFICES ASSUME Budgeted, [LoopStep]_loopVars
             PROVE  Budgeted'
  OBVIOUS
<1>a. NoRetryAfter \in 0 .. NoRetryAfter
  BY LoopAssumption DEF NoRetryAfter
<1>b. \A n \in 1 .. 4 : Spent(n) \in Nat
  BY Spending
<1>1. CASE BeginCall
  BY <1>1, Lengths DEF Budgeted, Phases, BeginCall
<1>2. CASE RoundsCapHit \/ DurationCapHit \/ CircuitOpen
  BY <1>2, Lengths DEF Budgeted, Phases, RoundsCapHit, DurationCapHit, CircuitOpen, Finish
<1>3. CASE BeginRound
  <2>1. Spent(1) = 0
    BY DEF Spent
  <2> QED
    BY <1>3, <2>1, Lengths DEF Budgeted, Phases, BeginRound, Post
<1>4. CASE Headers
  BY <1>4, <1>b, Lengths DEF Budgeted, Phases, Headers
<1>5. CASE TransportError \/ TimedOut
  BY <1>5, <1>a, RetryInBudget DEF TransportError, TimedOut
<1>6. CASE TransientStatus
  BY <1>6, RetryInBudget DEF TransientStatus
<1>7. CASE HardFailure \/ Answer
  BY <1>7, BodyInBudget, Lengths DEF Budgeted, Phases, HardFailure, Answer, Finish
<1>8. CASE WakeUp
  <2>1. attempt \in 1 .. 3 /\ attempt' = attempt + 1 /\ attempt' \in 1 .. 4
    BY <1>8 DEF Budgeted, WakeUp, Post
  <2>2. Spent(attempt') \in Nat /\ attempt' = attempt + 1
    BY <1>b, <2>1
  <2> QED
    BY <1>8, <2>1, <2>2, Lengths DEF Budgeted, Phases, WakeUp, Post
<1>9. CASE ToolCalls
  BY <1>9, BodyInBudget, Lengths DEF Budgeted, Phases, ToolCalls
<1>10. CASE ToolsDone
  BY <1>10, Lengths DEF Budgeted, Phases, ToolsDone
<1>11. CASE LoopTick
  <2>1. elapsed \in Nat /\ timer \in Nat /\ timer > 0 /\ elapsed + timer <= CallTime
    BY <1>11, WithinCallTime DEF Budgeted, LoopTick
  <2>2. elapsed' = elapsed + 1 /\ timer' = timer - 1
    BY <1>11, <2>1, Lengths DEF LoopTick, MinOf
  <2>3. /\ elapsed' \in Nat
        /\ timer' \in Nat
        /\ elapsed' + timer' = elapsed + timer
    BY <2>1, <2>2
  <2>4. phase' = phase /\ attempt' = attempt /\ phase # "idle"
    BY <1>11 DEF Budgeted, LoopTick
  <2> QED
    BY <2>3, <2>4 DEF Budgeted
<1>12. CASE UNCHANGED loopVars
  BY <1>12 DEF Budgeted, loopVars
<1> QED
  BY <1>1, <1>2, <1>3, <1>4, <1>5, <1>6, <1>7, <1>8, <1>9, <1>10, <1>11, <1>12 DEF LoopStep

\* Every step of the loop keeps the tools of the rounds to come unrun.
LEMMA NextDispatching == Dispatching /\ Budgeted /\ [LoopStep]_loopVars => Dispatching'
<1> SUFFICES ASSUME Dispatching, Budgeted, [LoopStep]_loopVars
             PROVE  Dispatching'
  OBVIOUS
<1> USE LoopAssumption DEF Dispatching, ToolsRunOnce
<1>1. CASE BeginCall \/ RoundsCapHit \/ DurationCapHit \/ CircuitOpen \/ Headers \/ HardFailure
           \/ WakeUp \/ Answer \/ ToolsDone \/ LoopTick
  BY <1>1 DEF BeginCall, RoundsCapHit, DurationCapHit, CircuitOpen, Headers, HardFailure, WakeUp,
              Answer, ToolsDone, LoopTick, Finish, Post, Phases
<1>2. CASE TransportError \/ TimedOut \/ TransientStatus
  BY <1>2 DEF TransportError, TimedOut, TransientStatus, RetryOrGiveUp, Finish
<1>3. CASE BeginRound
  BY <1>3 DEF BeginRound, Post
<1>4. CASE ToolCalls
  BY <1>4 DEF ToolCalls, MinOf
<1>5. CASE UNCHANGED loopVars
  BY <1>5 DEF loopVars
<1> QED
  BY <1>1, <1>2, <1>3, <1>4, <1>5 DEF LoopStep

\* A call is within its budget at all times.
LEMMA CallStaysInBudget == LlmSpec => [](Budgeted /\ Dispatching)
<1>1. LlmInit => Budgeted /\ Dispatching
  BY LoopAssumption DEF LlmInit, LoopInit, Budgeted, Dispatching, ToolsRunOnce, Phases
<1>2. Budgeted /\ Dispatching /\ [LlmNext]_llmVars => (Budgeted /\ Dispatching)'
  BY StepsOfTheLoop, NextBudgeted, NextDispatching
<1> QED
  BY <1>1, <1>2, PTL DEF LlmSpec

\* Its tools run once a round, retried requests or not, and a call takes at
\* most the duration cap and one round with all its retries, whatever the caps,
\* timeouts and delays are (retry_http_post, call_*_with_tools).
THEOREM CallIsBounded == LlmSpec => []CallBounded
<1>1. Budgeted /\ Dispatching => CallBounded
  <2> SUFFICES ASSUME Budgeted, Dispatching
               PROVE  CallBounded
    OBVIOUS
  <2>1. elapsed <= CallTime
    BY WithinCallTime, Lengths DEF Budgeted
  <2> QED
    BY <2>1, Lengths
       DEF Budgeted, Dispatching, CallBounded, LoopTypeOK, CallTimeBounded, Retries, Phases
<1> QED
  BY <1>1, CallStaysInBudget, PTL

-----------------------------------------------------------------------------
(* A call is a caller of the breaker.                                      *)

\* Every step of the loop or of another caller keeps the refinement's invariant.
LEMMA NextPositioned == Positioned /\ [LlmNext]_llmVars => Positioned'
<1> SUFFICES ASSUME Positioned, [LlmNext]_llmVars
             PROVE  Positioned'
  OBVIOUS
<1> USE DEF Positioned, Phases
<1>1. CASE Passes
  BY <1>1 DEF Passes, Tick, LoopTick, loopVars, Ended
<1>2. CASE Begins
  BY <1>2 DEF Begins, BeginRound, Post, vars
<1>3. CASE Refused
  BY <1>3 DEF Refused, CircuitOpen, Finish, vars
<1>4. CASE Goes
  BY <1>4 DEF Goes, BeginCall, RoundsCapHit, DurationCapHit, Headers, WakeUp, Answer, ToolCalls,
              ToolsDone, Finish, Post, vars
<1>5. CASE Fails
  BY <1>5 DEF Fails, TransportError, TimedOut, TransientStatus, HardFailure, RetryOrGiveUp, Finish
<1>6. CASE OthersCall
  <2>1. PICK c \in Callers : /\ Call(c) \/ Pass(c) \/ ShortCircuit(c) \/ Fail(c) \/ Succeed(c)
                             /\ UNCHANGED loopVars
    BY <1>6 DEF OthersCall
  <2> QED
    BY <2>1 DEF loopVars, Call, Pass, ShortCircuit, Fail, Succeed
<1>7. CASE UNCHANGED llmVars
  BY <1>7 DEF llmVars, vars, loopVars
<1> QED
  BY <1>1, <1>2, <1>3, <1>4, <1>5, <1>6, <1>7 DEF LlmNext, Loops

\* The breaker seen by the loop opens when the breaker does, and drops the same
\* failures (check_circuit_open, record_failure).
LEMMA SameCircuit == (Gate!Open <=> Open) /\ Gate!Pruned(failures) = Pruned(failures)
<1>1. Gate!Fresh(failures) = Fresh(failures)
  BY DEF Gate!Fresh, Fresh, Cardinality, Gate!Cardinality
<1>2. Gate!Pruned(failures) = Pruned(failures)
  BY DEF Gate!Pruned, Pruned, SelectInSeq, Gate!SelectInSeq, Min, Gate!Min
<1> QED
  BY <1>1, <1>2 DEF Gate!Open, Open

\* Where the loop stands for the breaker depends on three variables.
LEMMA StaysInPlace ==
    ASSUME UNCHANGED <<phase, round, elapsed>>
    PROVE  MyPlace' = MyPlace
BY DEF MyPlace

\* A step that moves the loop alone moves its place alone.
LEMMA MovesAlone ==
    ASSUME Positioned, UNCHANGED pc, NEW where, MyPlace' = where
    PROVE  Places' = [Places EXCEPT ![Me] = where]
BY DEF Places

\* A step of another caller moves that caller alone.
LEMMA OtherMoves ==
    ASSUME Positioned, NEW c \in Callers, NEW where, pc' = [pc EXCEPT ![c] = where],
           UNCHANGED loopVars
    PROVE  /\ Places' = [Places EXCEPT ![c] = where]
           /\ Places[c] = pc[c]
<1>1. MyPlace' = MyPlace
  BY StaysInPlace DEF loopVars
<1> QED
  BY <1>1, MeAssumption DEF Places, Positioned

\* The initial states of a call are initial states of the breaker.
LEMMA InitRefines == LlmInit => Gate!Init
BY DEF LlmInit, LoopInit, Init, Gate!Init, Places, MyPlace

\* Every step of a call is a step of the breaker, or leaves it alone.
LEMMA NextRefines == Positioned /\ Budgeted /\ [LlmNext]_llmVars => [Gate!Next]_(Gate!vars)
<1> SUFFICES ASSUME Positioned, Budgeted, [LlmNext]_llmVars
             PROVE  [Gate!Next]_(Gate!vars)
  OBVIOUS
<1>a. Me \in Callers \cup {Me} /\ Places[Me] = MyPlace
  BY DEF Places
<1>1. CASE Passes
  <2>1. UNCHANGED pc /\ MyPlace' = MyPlace
    BY <1>1 DEF Passes, Tick, LoopTick, loopVars, Ended, MyPlace, Positioned
  <2>2. Places' = Places
    BY <2>1 DEF Places
  <2> QED
    BY <1>1, <2>2 DEF Passes, Tick, Gate!Next, Gate!Tick
<1>2. CASE Begins
  <2>1. MyPlace = "gate" /\ MyPlace' = "posting" /\ UNCHANGED vars
    BY <1>2 DEF Begins, BeginRound, Post, MyPlace
  <2>2. Places' = [Places EXCEPT ![Me] = "posting"]
    BY <2>1, MovesAlone DEF vars
  <2>3. Gate!Pass(Me)
    BY <1>2, <1>a, <2>1, <2>2, SameCircuit DEF Gate!Pass, Begins, vars
  <2> QED
    BY <1>a, <2>3 DEF Gate!Next
<1>3. CASE Refused
  <2>1. MyPlace = "gate" /\ MyPlace' = "idle" /\ UNCHANGED vars
    BY <1>3 DEF Refused, CircuitOpen, Finish, MyPlace
  <2>2. Places' = [Places EXCEPT ![Me] = "idle"]
    BY <2>1, MovesAlone DEF vars
  <2>3. Gate!ShortCircuit(Me)
    BY <1>3, <1>a, <2>1, <2>2, SameCircuit DEF Gate!ShortCircuit, Refused, vars
  <2> QED
    BY <1>a, <2>3 DEF Gate!Next
<1>4. CASE Goes
  <2>0. UNCHANGED vars
    BY <1>4 DEF Goes
  <2>1. CASE MyPlace' = MyPlace
    BY <2>0, <2>1 DEF Gate!vars, Places, vars
  <2>2. CASE MyPlace = "idle" /\ MyPlace' = "gate"
    <3>1. Places' = [Places EXCEPT ![Me] = "gate"]
      BY <2>0, <2>2, MovesAlone DEF vars
    <3>2. Gate!Call(Me)
      BY <1>a, <2>0, <2>2, <3>1 DEF Gate!Call, vars
    <3> QED
      BY <1>a, <3>2 DEF Gate!Next
  <2>3. CASE MyPlace = "posting" /\ MyPlace' = "idle"
    <3>1. Places' = [Places EXCEPT ![Me] = "idle"]
      BY <2>0, <2>3, MovesAlone DEF vars
    <3>2. Gate!Succeed(Me)
      BY <1>a, <2>0, <2>3, <3>1 DEF Gate!Succeed, vars
    <3> QED
      BY <1>a, <3>2 DEF Gate!Next
  <2>4. \/ MyPlace' = MyPlace
        \/ MyPlace = "idle" /\ MyPlace' = "gate"
        \/ MyPlace = "posting" /\ MyPlace' = "idle"
    <3>1. CASE BeginCall \/ ToolsDone
      BY <3>1 DEF BeginCall, ToolsDone, MyPlace
    <3>2. CASE RoundsCapHit \/ DurationCapHit
      BY <3>2, LoopAssumption DEF Budgeted, RoundsCapHit, DurationCapHit, Finish, MyPlace
    <3>3. CASE Headers \/ WakeUp
      BY <3>3 DEF Headers, WakeUp, Post, MyPlace
    <3>4. CASE Answer \/ ToolCalls
      BY <3>4 DEF Answer, ToolCalls, Finish, MyPlace
    <3> QED
      BY <1>4, <3>1, <3>2, <3>3, <3>4 DEF Goes
  <2> QED
    BY <2>1, <2>2, <2>3, <2>4
<1>5. CASE Fails
  <2>1. MyPlace = "posting" /\ UNCHANGED pc
    BY <1>5 DEF Fails, TransportError, TimedOut, TransientStatus, HardFailure, MyPlace
  <2>2. phase' \in {"sleep", "err"}
    BY <1>5 DEF Fails, TransportError, TimedOut, TransientStatus, HardFailure, RetryOrGiveUp, Finish
  <2>3. CASE phase' = "err"
    <3>1. MyPlace' = "idle"
      BY <2>3 DEF MyPlace
    <3>2. Places' = [Places EXCEPT ![Me] = "idle"]
      BY <2>1, <3>1, MovesAlone
    <3>3. failures' = Append(Pruned(failures), 0)
      BY <1>5, <2>3 DEF Fails
    <3>4. Gate!Fail(Me)
      BY <1>a, <2>1, <3>2, <3>3, SameCircuit DEF Gate!Fail
    <3> QED
      BY <1>a, <3>4 DEF Gate!Next
  <2>4. CASE phase' = "sleep"
    <3>1. MyPlace' = MyPlace
      BY <2>1, <2>4 DEF MyPlace
    <3>2. UNCHANGED failures
      BY <1>5, <2>4 DEF Fails
    <3> QED
      BY <2>1, <3>1, <3>2 DEF Gate!vars, Places
  <2> QED
    BY <2>2, <2>3, <2>4
<1>6. CASE OthersCall
  <2>1. PICK c \in Callers : /\ Call(c) \/ Pass(c) \/ ShortCircuit(c) \/ Fail(c) \/ Succeed(c)
                             /\ UNCHANGED loopVars
    BY <1>6 DEF OthersCall
  <2>2. c \in Callers \cup {Me}
    OBVIOUS
  <2>3. CASE Call(c)
    <3>1. Gate!Call(c)
      BY <2>1, <2>3, OtherMoves DEF Call, Gate!Call
    <3> QED
      BY <2>2, <3>1 DEF Gate!Next
  <2>4. CASE Pass(c)
    <3>1. Gate!Pass(c)
      BY <2>1, <2>4, OtherMoves, SameCircuit DEF Pass, Gate!Pass
    <3> QED
      BY <2>2, <3>1 DEF Gate!Next
  <2>5. CASE ShortCircuit(c)
    <3>1. Gate!ShortCircuit(c)
      BY <2>1, <2>5, OtherMoves, SameCircuit DEF ShortCircuit, Gate!ShortCircuit
    <3> QED
      BY <2>2, <3>1 DEF Gate!Next
  <2>6. CASE Fail(c)
    <3>1. Gate!Fail(c)
      BY <2>1, <2>6, OtherMoves, SameCircuit DEF Fail, Gate!Fail
    <3> QED
      BY <2>2, <3>1 DEF Gate!Next
  <2>7. CASE Succeed(c)
    <3>1. Gate!Succeed(c)
      BY <2>1, <2>7, OtherMoves DEF Succeed, Gate!Succeed
    <3> QED
      BY <2>2, <3>1 DEF Gate!Next
  <2> QED
    BY <2>1, <2>3, <2>4, <2>5, <2>6, <2>7
<1>7. CASE UNCHANGED llmVars
  <2>1. MyPlace' = MyPlace
    BY <1>7, StaysInPlace DEF llmVars, loopVars
  <2> QED
    BY <1>7, <2>1 DEF llmVars, vars, Gate!vars, Places
<1> QED
  BY <1>1, <1>2, <1>3, <1>4, <1>5, <1>6, <1>7 DEF LlmNext, Loops

\* However its rounds, retries and caps fall, a tool loop is to the circuit
\* breaker a caller that looks at the gate before each request and records each
\* outcome once (call_*_raw, check_circuit_open, record_failure).
THEOREM LoopIsACaller == LlmSpec => ImplementsBreaker
<1>1. LlmInit => Positioned
  BY DEF LlmInit, LoopInit, Init, Positioned, Phases
<1> QED
  BY <1>1, CallStaysInBudget, NextPositioned, InitRefines, NextRefines, PTL
     DEF LlmSpec, ImplementsBreaker, Gate!Spec

-----------------------------------------------------------------------------
(* The failures kept for the breaker. *)

\* A set of naturals has a least element.
LEMMA LeastOfTimes ==
    ASSUME NEW T, T \subseteq Nat, T # {}
    PROVE  \E x \in T : \A y \in T : x <= y
<1> DEFINE R == OpToRel(<, Nat)
<1>1. IsWellFoundedOn(R, Nat)
  BY NatLessThanWellFounded
<1> HIDE DEF R
<1>2. PICK x \in T : \A y \in T : ~ (<<y, x>> \in R)
  BY <1>1, WFMin
<1>3. \A y \in T : x <= y
  <2> SUFFICES ASSUME NEW y \in T, y < x PROVE FALSE
    OBVIOUS
  <2> QED
    BY <1>2 DEF R, OpToRel
<1> QED
  BY <1>3

\* What Min returns of a set of naturals.
LEMMA MinIsLeast ==
    ASSUME NEW S, S \subseteq Nat, S # {}
    PROVE  Min(S) \in S /\ \A y \in S : Min(S) <= y
<1>1. \E x \in S : \A y \in S : x =< y
  BY LeastOfTimes
<1> QED
  BY <1>1, Zenon DEF Min

\* Ages never grow along a deque.
Aging(deque) == \A i, j \in 1..Len(deque) : i < j => deque[i] >= deque[j]

FreshOf(deque) == {i \in DOMAIN deque : deque[i] < FailWindow}

\* The fresh failures of a deque are counted.
LEMMA FreshCounts ==
    ASSUME NEW d \in Seq(Nat)
    PROVE  /\ FreshOf(d) \subseteq 1..Len(d) /\ IsFiniteSet(FreshOf(d))
           /\ Fresh(d) = Cardinality(FreshOf(d)) /\ Fresh(d) \in Nat /\ Fresh(d) <= Len(d)
<1>0. Len(d) \in Nat /\ DOMAIN d = 1..Len(d) /\ 1 \in Int /\ Len(d) \in Int
  OBVIOUS
<1>1. IsFiniteSet(1..Len(d)) /\ Cardinality(1..Len(d)) = Len(d)
  BY <1>0, FS_Interval
<1>2. FreshOf(d) \subseteq 1..Len(d)
  BY <1>0 DEF FreshOf
<1>3. IsFiniteSet(FreshOf(d)) /\ Cardinality(FreshOf(d)) <= Len(d)
  BY <1>1, <1>2, FS_Subset
<1>4. Fresh(d) = Cardinality(FreshOf(d))
  BY DEF Fresh, FreshOf
<1> QED
  BY <1>2, <1>3, <1>4, FS_CardinalityType

\* Pruning keeps the order, and nothing but fresh failures.
LEMMA PrunedIsFresh ==
    ASSUME NEW d \in Seq(Nat), Aging(d)
    PROVE  Pruned(d) \in Seq(Nat) /\ Aging(Pruned(d)) /\ Len(Pruned(d)) <= Fresh(d)
<1> DEFINE I == {i \in 1..Len(d) : d[i] < FailWindow}
           first == IF I # {} THEN Min(I) ELSE 0
<1>0. Len(d) \in Nat /\ \A i \in 1..Len(d) : d[i] \in Nat
  OBVIOUS
<1>1. Pruned(d) = IF first = 0 THEN <<>> ELSE SubSeq(d, first, Len(d))
  BY DEF Pruned, SelectInSeq
<1>2. I = FreshOf(d)
  BY DEF FreshOf
<1>3. CASE I = {}
  <2>1. Pruned(d) = <<>>
    BY <1>1, <1>3
  <2> QED
    BY <2>1, FreshCounts DEF Aging
<1>4. ASSUME I # {}
      PROVE  Pruned(d) \in Seq(Nat) /\ Aging(Pruned(d)) /\ Len(Pruned(d)) <= Fresh(d)
  <2>1. PICK m : m = Min(I)
    OBVIOUS
  <2>2. I \subseteq Nat
    OBVIOUS
  <2>3. m \in I /\ \A y \in I : m <= y
    BY <1>4, <2>1, <2>2, MinIsLeast
  <2>4. m \in 1..Len(d) /\ d[m] < FailWindow
    BY <2>3
  <2>5. Pruned(d) = SubSeq(d, m, Len(d))
    <3>1. first = m /\ m # 0
      BY <1>4, <2>1, <2>4
    <3> HIDE DEF first
    <3> QED
      BY <1>1, <3>1
  <2>6. /\ Pruned(d) \in Seq(Nat) /\ Len(Pruned(d)) = Len(d) - m + 1
        /\ \A k \in 1..(Len(d) - m + 1) : Pruned(d)[k] = d[m + k - 1]
    BY <1>0, <2>4, <2>5
  <2>7. Aging(Pruned(d))
    <3> SUFFICES ASSUME NEW i \in 1..(Len(d) - m + 1), NEW j \in 1..(Len(d) - m + 1), i < j
                 PROVE  Pruned(d)[i] >= Pruned(d)[j]
      BY <2>6 DEF Aging
    <3>1. m + i - 1 \in 1..Len(d) /\ m + j - 1 \in 1..Len(d) /\ m + i - 1 < m + j - 1
      BY <1>0, <2>4
    <3>2. d[m + i - 1] >= d[m + j - 1]
      BY <3>1 DEF Aging
    <3> QED
      BY <2>6, <3>2
  <2>8. m..Len(d) \subseteq FreshOf(d)
    <3> SUFFICES ASSUME NEW k \in m..Len(d) PROVE k \in FreshOf(d)
      OBVIOUS
    <3>1. k \in 1..Len(d) /\ k \in DOMAIN d
      BY <1>0, <2>4
    <3>2. m = k \/ d[m] >= d[k]
      BY <1>0, <2>4, <3>1 DEF Aging
    <3>3. d[m] \in Nat /\ d[k] \in Nat
      BY <1>0, <2>4, <3>1
    <3> QED
      BY <2>4, <3>1, <3>2, <3>3, BreakerAssumption DEF FreshOf
  <2>9. Cardinality(m..Len(d)) = Len(d) - m + 1
    <3>1. m \in Int /\ Len(d) \in Int /\ m <= Len(d)
      BY <1>0, <2>4
    <3> QED
      BY <3>1, FS_Interval
  <2>10. Cardinality(m..Len(d)) <= Fresh(d)
    BY <2>8, FreshCounts, FS_Subset
  <2> QED
    BY <2>6, <2>7, <2>9, <2>10
<1> QED
  BY <1>3, <1>4

Everybody == Callers \cup {Me}
Posting   == {c \in Everybody : Places[c] = "posting"}

\* Who got past the gate did so while the circuit was closed, so the fresh
\* failures and the requests that may still add to them are within the bound.
FailInv ==
    /\ failures \in Seq(Nat) /\ Aging(failures)
    /\ Fresh(failures) + Cardinality(Posting) <= FailThreshold - 1 + Cardinality(Everybody)
    /\ Len(failures) <= FailThreshold - 1 + Cardinality(Everybody)

LEMMA CallersCount ==
    ASSUME NEW P, P \subseteq Everybody
    PROVE  /\ IsFiniteSet(Everybody) /\ Cardinality(Everybody) \in Nat /\ Cardinality(Everybody) > 0
           /\ IsFiniteSet(P) /\ Cardinality(P) \in Nat /\ Cardinality(P) <= Cardinality(Everybody)
<1>1. IsFiniteSet(Everybody) /\ Everybody # {}
  BY BreakerAssumption, FS_AddElement DEF Everybody
<1>2. IsFiniteSet(P) /\ Cardinality(P) <= Cardinality(Everybody)
  BY <1>1, FS_Subset
<1> QED
  BY <1>1, <1>2, FS_CardinalityType, FS_EmptySet

LEMMA PostingCounts ==
    /\ IsFiniteSet(Everybody) /\ Cardinality(Everybody) \in Nat /\ Cardinality(Everybody) > 0
    /\ IsFiniteSet(Posting) /\ Cardinality(Posting) \in Nat
    /\ Cardinality(Posting) <= Cardinality(Everybody)
<1>1. Posting \subseteq Everybody
  BY DEF Posting
<1> QED
  BY <1>1, CallersCount

\* A step of the breaker keeps the bound.
LEMMA NextFailures ==
    ASSUME FailInv, [Gate!Next]_Gate!vars
    PROVE  FailInv'
<1> USE BreakerAssumption
<1>0. Fresh(failures) \in Nat /\ Fresh(failures) <= Len(failures) /\ Len(failures) \in Nat
  BY FreshCounts DEF FailInv
<1>a. IsFiniteSet(Posting') /\ Cardinality(Posting') \in Nat
      /\ Cardinality(Posting') <= Cardinality(Everybody)
  <2>1. Posting' \subseteq Everybody
    BY DEF Posting, Everybody
  <2> QED
    BY <2>1, CallersCount
<1>b. DOMAIN Places = Everybody
  BY DEF Places, Everybody
<1>1. ASSUME UNCHANGED failures, Posting' \subseteq Posting
      PROVE  FailInv'
  <2>1. Cardinality(Posting') <= Cardinality(Posting)
    BY <1>1, PostingCounts, FS_Subset
  <2> QED
    BY <1>0, <1>1, <1>a, <2>1, PostingCounts DEF FailInv, Fresh, Aging
<1>2. CASE Gate!Tick
  <2>1. Posting' = Posting
    BY <1>2 DEF Gate!Tick, Posting
  <2>2. /\ failures' \in Seq(Nat) /\ Len(failures') = Len(failures)
        /\ \A i \in 1..Len(failures) :
              failures'[i] = IF failures[i] < FailWindow THEN failures[i] + 1 ELSE FailWindow
    BY <1>2 DEF Gate!Tick, FailInv
  <2>3. Aging(failures')
    <3> SUFFICES ASSUME NEW i \in 1..Len(failures), NEW j \in 1..Len(failures), i < j
                 PROVE  failures'[i] >= failures'[j]
      BY <2>2 DEF Aging
    <3>1. failures[i] >= failures[j] /\ failures[i] \in Nat /\ failures[j] \in Nat
      BY DEF FailInv, Aging
    <3> QED
      BY <2>2, <3>1
  <2>4. FreshOf(failures') \subseteq FreshOf(failures)
    BY <2>2 DEF FreshOf, FailInv
  <2>5. Fresh(failures') <= Fresh(failures) /\ Fresh(failures') \in Nat
    BY <2>2, <2>4, FreshCounts, FS_Subset DEF FailInv
  <2> QED
    BY <1>0, <2>1, <2>2, <2>3, <2>5, PostingCounts DEF FailInv, Fresh, Aging
<1>3. ASSUME NEW c \in Everybody, Gate!Pass(c)
      PROVE  FailInv'
  <2>1. UNCHANGED failures /\ ~ Open
    BY <1>3, SameCircuit DEF Gate!Pass
  <2>2. Fresh(failures) <= FailThreshold - 1
    BY <1>0, <2>1 DEF Open
  <2> QED
    BY <1>0, <1>a, <2>1, <2>2, PostingCounts DEF FailInv, Fresh, Aging
<1>4. ASSUME NEW c \in Everybody, Gate!Fail(c)
      PROVE  FailInv'
  <2>1. c \in Posting /\ failures' = Append(Pruned(failures), 0)
    BY <1>4, SameCircuit DEF Gate!Fail, Posting
  <2>2. Posting' = Posting \ {c}
    BY <1>4, <1>b DEF Gate!Fail, Posting, Everybody
  <2>3. Cardinality(Posting') = Cardinality(Posting) - 1
    BY <2>1, <2>2, PostingCounts, FS_RemoveElement
  <2>4. Pruned(failures) \in Seq(Nat) /\ Aging(Pruned(failures))
        /\ Len(Pruned(failures)) <= Fresh(failures)
    BY PrunedIsFresh DEF FailInv
  <2>5. failures' \in Seq(Nat) /\ Len(failures') = Len(Pruned(failures)) + 1
    BY <2>1, <2>4
  <2>6. Aging(failures')
    <3> SUFFICES ASSUME NEW i \in 1..Len(failures'), NEW j \in 1..Len(failures'), i < j
                 PROVE  failures'[i] >= failures'[j]
      BY DEF Aging
    <3>1. i \in 1..Len(Pruned(failures)) /\ failures'[i] = Pruned(failures)[i]
      BY <2>1, <2>4, <2>5
    <3>2. CASE j = Len(Pruned(failures)) + 1
      BY <2>1, <2>4, <3>1, <3>2
    <3>3. CASE j \in 1..Len(Pruned(failures))
      BY <2>1, <2>4, <3>1, <3>3 DEF Aging
    <3> QED
      BY <2>4, <2>5, <3>2, <3>3
  <2>7. Fresh(failures') <= Len(failures') /\ Fresh(failures') \in Nat
    BY <2>5, FreshCounts
  <2>8. Len(failures') <= Fresh(failures) + 1 /\ Len(failures') \in Nat
    BY <1>0, <2>4, <2>5
  <2>9. Fresh(failures') + Cardinality(Posting') <= FailThreshold - 1 + Cardinality(Everybody)
    BY <1>0, <2>3, <2>7, <2>8, PostingCounts DEF FailInv
  <2>10. Cardinality(Posting) >= 1
    BY <1>a, <2>3, PostingCounts
  <2>11. Len(failures') <= FailThreshold - 1 + Cardinality(Everybody)
    BY <1>0, <2>8, <2>10, PostingCounts DEF FailInv
  <2> QED
    BY <2>5, <2>6, <2>9, <2>11 DEF FailInv, Fresh, Aging
<1>5. ASSUME NEW c \in Everybody, Gate!Call(c) \/ Gate!ShortCircuit(c) \/ Gate!Succeed(c)
      PROVE  FailInv'
  <2>1. UNCHANGED failures /\ Posting' \subseteq Posting
    BY <1>5, <1>b DEF Gate!Call, Gate!ShortCircuit, Gate!Succeed, Posting, Everybody
  <2> QED
    BY <1>1, <2>1
<1>6. CASE UNCHANGED Gate!vars
  BY <1>1, <1>6 DEF Gate!vars, Posting
<1> QED
  BY <1>2, <1>3, <1>4, <1>5, <1>6 DEF Gate!Next, Everybody

\* However many callers were past the gate when the circuit opened, the tool
\* loop among them, no more failures are kept than the threshold lets in and
\* one for each of them (check_circuit_open, record_failure).
THEOREM FailuresStayBounded == LlmSpec => []FailuresBounded
<1>1. LlmInit => FailInv
  <2> SUFFICES ASSUME LlmInit PROVE FailInv
    OBVIOUS
  <2>1. failures = <<>> /\ Posting = {}
    BY DEF LlmInit, LoopInit, Init, Posting, Places, MyPlace, Everybody
  <2>2. Cardinality(Posting) = 0
    BY <2>1, FS_EmptySet
  <2>3. failures \in Seq(Nat) /\ Len(failures) = 0 /\ Aging(failures)
    BY <2>1 DEF Aging
  <2>4. Fresh(failures) <= 0 /\ Fresh(failures) \in Nat
    BY <2>3, FreshCounts
  <2> QED
    BY <2>2, <2>3, <2>4, PostingCounts, BreakerAssumption DEF FailInv
<1>2. FailInv /\ [Gate!Next]_Gate!vars => FailInv'
  BY NextFailures
<1>3. FailInv => FailuresBounded
  <2>1. Gate!Cardinality(Callers \cup {Me}) = Cardinality(Everybody)
    BY DEF Gate!Cardinality, Cardinality, Everybody
  <2> QED
    BY <2>1 DEF FailInv, FailuresBounded, Gate!DequeBounded
<1> QED
  BY <1>1, <1>2, <1>3, LoopIsACaller, PTL DEF LlmSpec, ImplementsBreaker, Gate!Spec

-----------------------------------------------------------------------------
(* The session log: order. *)

Mutations == [op : {"create", "append", "complete"}, session : Sessions, number : Nat]
SessionRows      == [created : BOOLEAN, status : {"none", "active", "completed"}]

SessionTyped ==
    /\ queue \in Seq(Mutations)
    /\ emitted \in [Sessions -> Nat]
    /\ row \in [Sessions -> SessionRows]
    /\ events \in [Sessions -> Seq(Nat)]

\* The mutations of a session in the channel are in the order of their making,
QueueInOrder ==
    /\ \A i, j \in DOMAIN queue :
          i < j /\ queue[i].session = queue[j].session => queue[i].number < queue[j].number
    /\ \A i \in DOMAIN queue : queue[i].number < emitted[queue[i].session]

\* and what is stored is older than what is in the channel or not yet made.
StoredIsOlder ==
    \A s \in Sessions : \A k \in DOMAIN events[s] :
        /\ events[s][k] < emitted[s]
        /\ \A i \in DOMAIN queue : queue[i].session = s => events[s][k] < queue[i].number

OrderInv == SessionTyped /\ Len(queue) <= Capacity /\ QueueInOrder /\ StoredIsOlder /\ EventsInOrder

USE SessionAssumption

\* The initial states satisfy the invariant: the channel and the tables are
\* empty.
LEMMA InitOrderInv == SessionInit => OrderInv
<1> SUFFICES ASSUME SessionInit
             PROVE  OrderInv
  OBVIOUS
<1>1. SessionTyped
  BY DEF SessionInit, SessionTyped, Mutations, SessionRows, NoRow
<1>2. Len(queue) <= Capacity /\ QueueInOrder
  BY DEF SessionInit, QueueInOrder
<1>3. StoredIsOlder /\ EventsInOrder
  BY DEF SessionInit, StoredIsOlder, EventsInOrder
<1> QED
  BY <1>1, <1>2, <1>3 DEF OrderInv

\* A mutation put on the channel by try_send, or dropped, is newer than
\* everything of its session.
LEMMA EnqueueKeeps ==
    ASSUME OrderInv, NEW s \in Sessions, NEW op \in {"create", "append", "complete"},
           Enqueue(Mutation(op, s)), UNCHANGED <<row, events>>
    PROVE  OrderInv'
<1> DEFINE m == Mutation(op, s)
<1>1. m \in Mutations /\ m.session = s /\ m.number = emitted[s] /\ emitted[s] \in Nat
  BY DEF Mutation, Mutations, OrderInv, SessionTyped
<1>2. /\ emitted' \in [Sessions -> Nat]
      /\ emitted'[s] = emitted[s] + 1
      /\ \A u \in Sessions : emitted[u] <= emitted'[u]
  BY <1>1 DEF Enqueue, OrderInv, SessionTyped
<1> HIDE DEF m
<1>3. CASE queue' = queue
  <2>1. SessionTyped' /\ (Len(queue) <= Capacity)'
    BY <1>2, <1>3 DEF OrderInv, SessionTyped
  <2>2. QueueInOrder'
    <3>1. ASSUME NEW i \in DOMAIN queue
          PROVE  queue[i].number < emitted'[queue[i].session]
      <4>1. queue[i] \in Mutations
        BY DEF OrderInv, SessionTyped
      <4>2. queue[i].session \in Sessions /\ queue[i].number \in Nat
        BY <4>1 DEF Mutations
      <4> QED
        BY <1>2, <4>2 DEF OrderInv, QueueInOrder, SessionTyped
    <3> QED
      BY <1>3, <3>1 DEF OrderInv, QueueInOrder
  <2>3. StoredIsOlder'
    <3>1. ASSUME NEW u \in Sessions, NEW k \in DOMAIN events[u]
          PROVE  events[u][k] < emitted'[u]
      BY <1>2 DEF OrderInv, StoredIsOlder, SessionTyped
    <3> QED
      BY <1>3, <3>1 DEF OrderInv, StoredIsOlder
  <2>4. EventsInOrder'
    BY DEF OrderInv, EventsInOrder
  <2> QED
    BY <2>1, <2>2, <2>3, <2>4 DEF OrderInv
<1>4. CASE Len(queue) < Capacity /\ queue' = Append(queue, m)
  <2>1. /\ DOMAIN queue' = 1 .. Len(queue) + 1
        /\ DOMAIN queue = 1 .. Len(queue)
        /\ Len(queue') = Len(queue) + 1
        /\ queue'[Len(queue) + 1] = m
        /\ \A i \in DOMAIN queue : queue'[i] = queue[i]
        /\ queue' \in Seq(Mutations)
        /\ Len(queue) \in Nat
    BY <1>1, <1>4 DEF OrderInv, SessionTyped
  <2>2. \A i \in DOMAIN queue : queue[i].session \in Sessions /\ queue[i].number \in Nat
    <3>1. \A i \in DOMAIN queue : queue[i] \in Mutations
      BY DEF OrderInv, SessionTyped
    <3> QED
      BY <3>1 DEF Mutations
  <2>3. SessionTyped' /\ (Len(queue) <= Capacity)'
    BY <1>2, <1>4, <2>1 DEF OrderInv, SessionTyped
  <2>4. QueueInOrder'
    <3>1. ASSUME NEW i \in DOMAIN queue'
          PROVE  queue'[i].number < emitted'[queue'[i].session]
      <4>1. CASE i \in DOMAIN queue
        BY <1>2, <2>1, <2>2, <4>1 DEF OrderInv, QueueInOrder, SessionTyped
      <4>2. CASE i = Len(queue) + 1
        BY <1>1, <1>2, <2>1, <4>2
      <4> QED
        BY <2>1, <4>1, <4>2
    <3>2. ASSUME NEW i \in DOMAIN queue', NEW j \in DOMAIN queue', i < j,
                 queue'[i].session = queue'[j].session
          PROVE  queue'[i].number < queue'[j].number
      <4>1. CASE j \in DOMAIN queue
        <5>1. i \in DOMAIN queue
          BY <2>1, <3>2, <4>1
        <5> QED
          BY <2>1, <3>2, <4>1, <5>1 DEF OrderInv, QueueInOrder
      <4>2. CASE j = Len(queue) + 1
        <5>1. i \in DOMAIN queue
          BY <2>1, <3>2, <4>2
        <5> QED
          BY <1>1, <2>1, <3>2, <4>2, <5>1 DEF OrderInv, QueueInOrder
      <4> QED
        BY <2>1, <4>1, <4>2
    <3> QED
      BY <3>1, <3>2 DEF QueueInOrder
  <2>5. StoredIsOlder'
    <3>1. ASSUME NEW u \in Sessions, NEW k \in DOMAIN events[u]
          PROVE  events[u][k] < emitted'[u]
      BY <1>2 DEF OrderInv, StoredIsOlder, SessionTyped
    <3>2. ASSUME NEW u \in Sessions, NEW k \in DOMAIN events[u],
                 NEW i \in DOMAIN queue', queue'[i].session = u
          PROVE  events[u][k] < queue'[i].number
      <4>1. CASE i \in DOMAIN queue
        BY <2>1, <3>2, <4>1 DEF OrderInv, StoredIsOlder
      <4>2. CASE i = Len(queue) + 1
        BY <1>1, <2>1, <3>2, <4>2 DEF OrderInv, StoredIsOlder
      <4> QED
        BY <2>1, <4>1, <4>2
    <3> QED
      BY <3>1, <3>2 DEF StoredIsOlder
  <2>6. EventsInOrder'
    BY DEF OrderInv, EventsInOrder
  <2> QED
    BY <2>3, <2>4, <2>5, <2>6 DEF OrderInv
<1> QED
  BY <1>3, <1>4 DEF Enqueue, m

\* The drain takes the oldest mutation away and applies it, or fails to:
\* apply_session_mutation appends at most that mutation's number.
LEMMA DrainKeeps == OrderInv /\ Drain => OrderInv'
<1> SUFFICES ASSUME OrderInv, Drain
             PROVE  OrderInv'
  OBVIOUS
<1> DEFINE m == Head(queue)
           n == m.session
<1>1. /\ queue # <<>> /\ queue' = Tail(queue) /\ UNCHANGED emitted
      /\ Apply(m) \/ UNCHANGED <<row, events>>
  BY DEF Drain
<1>2. /\ Len(queue) \in Nat /\ Len(queue) >= 1
      /\ DOMAIN queue = 1 .. Len(queue)
      /\ queue' \in Seq(Mutations)
      /\ DOMAIN queue' = 1 .. Len(queue) - 1
      /\ Len(queue') = Len(queue) - 1
      /\ \A i \in DOMAIN queue' : queue'[i] = queue[i + 1] /\ i + 1 \in DOMAIN queue
      /\ m = queue[1] /\ m \in Mutations
  BY <1>1 DEF OrderInv, SessionTyped
<1>3. n \in Sessions /\ m.number \in Nat
  BY <1>2 DEF Mutations
<1> HIDE DEF m, n
<1>4. row' \in [Sessions -> SessionRows]
  <2>1. CASE UNCHANGED <<row, events>>
    BY <2>1 DEF OrderInv, SessionTyped
  <2>2. CASE row' = [row EXCEPT ![n] = [created |-> TRUE, status |-> "active"]]
    BY <1>3, <2>2 DEF OrderInv, SessionTyped, SessionRows
  <2>3. CASE row' = [row EXCEPT ![n].status = "completed"]
    BY <1>3, <2>3 DEF OrderInv, SessionTyped, SessionRows
  <2>4. CASE UNCHANGED row
    BY <2>4 DEF OrderInv, SessionTyped
  <2> QED
    BY <1>1, <2>1, <2>2, <2>3, <2>4 DEF Apply, n
<1>5. UNCHANGED events \/ events' = [events EXCEPT ![n] = Append(events[n], m.number)]
  BY <1>1 DEF Apply, n
<1>6. QueueInOrder'
  <2>1. ASSUME NEW i \in DOMAIN queue'
        PROVE  queue'[i].number < emitted'[queue'[i].session]
    BY <1>1, <1>2 DEF OrderInv, QueueInOrder
  <2>2. ASSUME NEW i \in DOMAIN queue', NEW j \in DOMAIN queue', i < j,
               queue'[i].session = queue'[j].session
        PROVE  queue'[i].number < queue'[j].number
    BY <1>2, <2>2 DEF OrderInv, QueueInOrder
  <2> QED
    BY <2>1, <2>2 DEF QueueInOrder
<1>7. CASE UNCHANGED events
  <2>1. SessionTyped' /\ (Len(queue) <= Capacity)'
    BY <1>1, <1>2, <1>4, <1>7 DEF OrderInv, SessionTyped
  <2>2. StoredIsOlder'
    BY <1>1, <1>2, <1>7 DEF OrderInv, StoredIsOlder
  <2>3. EventsInOrder'
    BY <1>7 DEF OrderInv, EventsInOrder
  <2> QED
    BY <1>6, <2>1, <2>2, <2>3 DEF OrderInv
<1>8. CASE events' = [events EXCEPT ![n] = Append(events[n], m.number)]
  <2>1. events \in [Sessions -> Seq(Nat)]
    BY DEF OrderInv, SessionTyped
  <2>2. /\ events' \in [Sessions -> Seq(Nat)]
        /\ events'[n] = Append(events[n], m.number)
        /\ \A u \in Sessions \ {n} : events'[u] = events[u]
    BY <1>3, <1>8, <2>1
  <2>3. /\ Len(events[n]) \in Nat
        /\ DOMAIN events[n] = 1 .. Len(events[n])
        /\ DOMAIN events'[n] = 1 .. Len(events[n]) + 1
        /\ \A k \in DOMAIN events[n] : events'[n][k] = events[n][k]
        /\ events'[n][Len(events[n]) + 1] = m.number
    BY <1>3, <2>1, <2>2
  <2>4. SessionTyped' /\ (Len(queue) <= Capacity)'
    BY <1>1, <1>2, <1>4, <2>2 DEF OrderInv, SessionTyped
  <2>5. StoredIsOlder'
    <3> SUFFICES ASSUME NEW u \in Sessions, NEW k \in DOMAIN events'[u]
                 PROVE  /\ events'[u][k] < emitted[u]
                        /\ \A i \in DOMAIN queue' :
                              queue'[i].session = u => events'[u][k] < queue'[i].number
      BY <1>1 DEF StoredIsOlder
    <3>1. CASE u # n
      BY <1>2, <2>2, <3>1 DEF OrderInv, StoredIsOlder
    <3>2. CASE u = n /\ k \in DOMAIN events[n]
      BY <1>2, <2>3, <3>2 DEF OrderInv, StoredIsOlder
    <3>3. CASE u = n /\ k = Len(events[n]) + 1
      <4>1. events'[u][k] = queue[1].number /\ queue[1].session = u
        BY <1>2, <2>3, <3>3 DEF n
      <4> QED
        BY <1>2, <4>1 DEF OrderInv, QueueInOrder
    <3> QED
      BY <2>3, <3>1, <3>2, <3>3
  <2>6. EventsInOrder'
    <3> SUFFICES ASSUME NEW u \in Sessions,
                        NEW i \in DOMAIN events'[u], NEW j \in DOMAIN events'[u], i < j
                 PROVE  events'[u][i] < events'[u][j]
      BY DEF EventsInOrder
    <3>1. CASE u # n
      BY <2>2, <3>1 DEF OrderInv, EventsInOrder
    <3>2. CASE u = n /\ j \in DOMAIN events[n]
      <4>1. i \in DOMAIN events[n]
        BY <2>3, <3>2
      <4> QED
        BY <1>3, <2>3, <3>2, <4>1 DEF OrderInv, EventsInOrder
    <3>3. CASE u = n /\ j = Len(events[n]) + 1
      <4>1. i \in DOMAIN events[n]
        BY <2>3, <3>3
      <4>2. events[n][i] < queue[1].number
        BY <1>2, <1>3, <4>1 DEF OrderInv, StoredIsOlder, n
      <4> QED
        BY <1>2, <2>3, <3>3, <4>1, <4>2
    <3> QED
      BY <2>3, <3>1, <3>2, <3>3
  <2> QED
    BY <1>6, <2>4, <2>5, <2>6 DEF OrderInv
<1> QED
  BY <1>5, <1>7, <1>8

\* Every step of the producers, the drain and the process keeps the invariant.
LEMMA NextOrderInv == OrderInv /\ [SessionNext]_sessionVars => OrderInv'
<1> SUFFICES ASSUME OrderInv, [SessionNext]_sessionVars
             PROVE  OrderInv'
  OBVIOUS
<1>1. ASSUME NEW s \in Sessions, OpenSession(s)
      PROVE  OrderInv'
  BY <1>1, EnqueueKeeps DEF OpenSession
<1>2. ASSUME NEW s \in Sessions, Emit(s)
      PROVE  OrderInv'
  BY <1>2, EnqueueKeeps DEF Emit
<1>3. ASSUME NEW s \in Sessions, Complete(s)
      PROVE  OrderInv'
  BY <1>3, EnqueueKeeps DEF Complete
<1>4. CASE Drain
  BY <1>4, DrainKeeps
<1>5. CASE Restart
  <2>1. queue' = <<>> /\ UNCHANGED <<emitted, row, events>>
    BY <1>5 DEF Restart
  <2>2. SessionTyped' /\ (Len(queue) <= Capacity)'
    BY <2>1 DEF OrderInv, SessionTyped
  <2>3. QueueInOrder' /\ StoredIsOlder' /\ EventsInOrder'
    BY <2>1 DEF OrderInv, QueueInOrder, StoredIsOlder, EventsInOrder
  <2> QED
    BY <2>2, <2>3 DEF OrderInv
<1>6. CASE UNCHANGED <<queue, emitted, row, events>>
  BY <1>6 DEF OrderInv, SessionTyped, QueueInOrder, StoredIsOlder, EventsInOrder
<1> QED
  BY <1>1, <1>2, <1>3, <1>4, <1>5, <1>6 DEF SessionNext, Abandon, sessionVars

\* The inductive invariant holds in every reachable state of the session log.
THEOREM OrderInductive == SessionSpec => []OrderInv
BY InitOrderInv, NextOrderInv, PTL DEF SessionSpec

\* The channel keeps to SESSION_SENDER_CAPACITY and no status is invented.
THEOREM SessionTypeCorrect == SessionSpec => []SessionTypeOK
<1>1. OrderInv => SessionTypeOK
  BY DEF OrderInv, SessionTyped, SessionRows, SessionTypeOK
<1> QED
  BY OrderInductive, <1>1, PTL

\* The events of a session are stored in the order in which they were emitted
\* and none twice, whatever the channel dropped, the drain failed to apply or
\* a restart lost.
THEOREM EventsOrdered == SessionSpec => []EventsInOrder
<1>1. OrderInv => EventsInOrder
  BY DEF OrderInv
<1> QED
  BY OrderInductive, <1>1, PTL

-----------------------------------------------------------------------------
(* A session that lost nothing: the table shows the mutations up to some   *)
(* number, and the channel holds all the others.                           *)

\* The number tells what a mutation does,
Numbered ==
    \A i \in DOMAIN queue :
        queue[i].op = IF queue[i].number = 0 THEN "create"
                      ELSE IF queue[i].number <= Events THEN "append" ELSE "complete"

\* since a producer numbers them in this order.
Producing ==
    /\ producer \in [Sessions -> {"start", "open", "closed", "ended"}]
    /\ \A s \in Sessions : producer[s] = "start" => emitted[s] = 0
    /\ \A s \in Sessions : producer[s] = "open" => emitted[s] \in 1 .. Events + 1
    /\ \A i \in DOMAIN queue : queue[i].number <= Events + 1

\* The mutation the table waits for.
Due(s) == IF ~ row[s].created THEN 0
          ELSE IF row[s].status = "active" THEN Len(events[s]) + 1 ELSE Events + 2

\* What the table shows of a session that lost nothing,
Shown(s) ==
    /\ events[s] = [i \in 1 .. Len(events[s]) |-> i]
    /\ Len(events[s]) <= Events
    /\ ~ row[s].created => row[s].status = "none" /\ events[s] = <<>>
    /\ row[s].created => row[s].status \in {"active", "completed"}
    /\ row[s].status = "completed" => Len(events[s]) = Events

\* and what the channel holds of it: all that is due, and nothing else.
Whole(s) ==
    /\ Due(s) <= emitted[s]
    /\ \A k \in Nat : Due(s) <= k /\ k < emitted[s] =>
          \E i \in DOMAIN queue : queue[i].session = s /\ queue[i].number = k
    /\ \A i \in DOMAIN queue : queue[i].session = s => Due(s) <= queue[i].number

WholeInv == Numbered /\ Producing /\ \A s \in Sessions \ lost : Shown(s) /\ Whole(s)

\* Nothing is shown and nothing is due at the beginning.
LEMMA InitWholeInv == SessionInit => WholeInv
<1> SUFFICES ASSUME SessionInit
             PROVE  WholeInv
  OBVIOUS
<1>1. Numbered /\ Producing
  BY DEF SessionInit, Numbered, Producing
<1>2. ASSUME NEW s \in Sessions
      PROVE  Shown(s) /\ Whole(s)
  BY DEF SessionInit, Shown, Whole, Due, NoRow
<1> QED
  BY <1>1, <1>2 DEF WholeInv

\* A mutation is put behind those of its session, or the session has lost it.
LEMMA EnqueueWhole ==
    ASSUME OrderInv, WholeInv, NEW s \in Sessions, NEW op \in {"create", "append", "complete"},
           op = IF emitted[s] = 0 THEN "create"
                ELSE IF emitted[s] <= Events THEN "append" ELSE "complete",
           emitted[s] <= Events + 1,
           Enqueue(Mutation(op, s)), UNCHANGED <<row, events>>
    PROVE  /\ Numbered' /\ \A i \in DOMAIN queue' : queue'[i].number <= Events + 1
           /\ \A u \in Sessions \ lost' : (Shown(u) /\ Whole(u))'
<1> DEFINE m == Mutation(op, s)
<1>1. m \in Mutations /\ m.session = s /\ m.number = emitted[s] /\ m.op = op /\ emitted[s] \in Nat
  BY DEF Mutation, Mutations, OrderInv, SessionTyped
<1>2. emitted' = [emitted EXCEPT ![s] = @ + 1] /\ emitted \in [Sessions -> Nat] /\ lost \subseteq lost'
  BY <1>1 DEF Enqueue, OrderInv, SessionTyped
<1>3. \A u \in Sessions : Due(u)' = Due(u) /\ Shown(u)' = Shown(u)
  BY DEF Due, Shown
<1>4. \A u \in Sessions : Due(u) \in Nat
  BY SessionAssumption DEF Due, OrderInv, SessionTyped
<1> HIDE DEF m
<1>5. CASE queue' = queue /\ lost' = lost \cup {s}
  <2>1. \A u \in Sessions \ lost' : u # s /\ u \notin lost /\ emitted'[u] = emitted[u]
    BY <1>2, <1>5
  <2>2. \A u \in Sessions \ lost' : Whole(u)'
    BY <1>3, <1>5, <2>1 DEF WholeInv, Whole
  <2> QED
    BY <1>3, <1>5, <2>1, <2>2 DEF WholeInv, Numbered, Producing
<1>6. CASE queue' = Append(queue, m) /\ lost' = lost
  <2>1. /\ DOMAIN queue' = 1 .. Len(queue) + 1 /\ DOMAIN queue = 1 .. Len(queue)
        /\ queue'[Len(queue) + 1] = m /\ \A i \in DOMAIN queue : queue'[i] = queue[i]
        /\ Len(queue) \in Nat
    BY <1>1, <1>6 DEF OrderInv, SessionTyped
  <2>2. Numbered' /\ \A i \in DOMAIN queue' : queue'[i].number <= Events + 1
    BY <1>1, <2>1 DEF WholeInv, Numbered, Producing
  <2>3. ASSUME NEW u \in Sessions \ lost'
        PROVE  Whole(u)'
    <3>1. Whole(u)
      BY <1>6 DEF WholeInv
    <3>2. ASSUME NEW k \in Nat, Due(u) <= k, k < emitted'[u]
          PROVE  \E i \in DOMAIN queue' : queue'[i].session = u /\ queue'[i].number = k
      <4>1. CASE k < emitted[u]
        BY <2>1, <3>1, <3>2, <4>1 DEF Whole
      <4>2. CASE ~ (k < emitted[u])
        <5>1. u = s /\ k = emitted[s]
          BY <1>2, <3>2, <4>2
        <5> QED
          BY <1>1, <2>1, <5>1
      <4> QED
        BY <4>1, <4>2
    <3>3. Due(u) <= emitted[u] /\ emitted[u] <= emitted'[u]
      BY <1>2, <3>1 DEF Whole
    <3>4. ASSUME NEW i \in DOMAIN queue', queue'[i].session = u
          PROVE  Due(u) <= queue'[i].number
      BY <1>1, <1>6, <2>1, <3>1, <3>3, <3>4 DEF Whole
    <3> QED
      BY <1>2, <1>3, <1>4, <3>2, <3>3, <3>4 DEF Whole
  <2> QED
    BY <1>3, <1>6, <2>2, <2>3 DEF WholeInv
<1> QED
  BY <1>1, <1>5, <1>6 DEF Enqueue, m

\* The oldest mutation of a session that lost nothing is the one that is due.
LEMMA HeadIsDue ==
    ASSUME OrderInv, WholeInv, queue # <<>>, queue[1].session \notin lost
    PROVE  queue[1].number = Due(queue[1].session)
<1> DEFINE s == queue[1].session
           n == queue[1].number
<1>1. 1 \in DOMAIN queue /\ queue[1] \in Mutations /\ DOMAIN queue = 1 .. Len(queue) /\ Len(queue) \in Nat
  BY DEF OrderInv, SessionTyped
<1>2. s \in Sessions /\ n \in Nat
  BY <1>1 DEF Mutations
<1>3. Due(s) \in Nat
  BY <1>2, SessionAssumption DEF Due, OrderInv, SessionTyped
<1>4. Whole(s)
  BY <1>2 DEF WholeInv
<1>5. Due(s) <= n /\ n < emitted[s] /\ emitted[s] \in Nat
  BY <1>1, <1>2, <1>4 DEF Whole, OrderInv, QueueInOrder, SessionTyped
<1>6. PICK i \in DOMAIN queue : queue[i].session = s /\ queue[i].number = Due(s)
  BY <1>2, <1>3, <1>4, <1>5 DEF Whole
<1>7. CASE i = 1
  BY <1>6, <1>7
<1>8. CASE i # 1
  <2>1. n < Due(s)
    BY <1>1, <1>6, <1>8 DEF OrderInv, QueueInOrder
  <2> QED
    BY <1>2, <1>3, <1>5, <2>1
<1> QED
  BY <1>7, <1>8

\* The drain shows the mutation that is due, or the session has lost it.
LEMMA DrainWhole ==
    ASSUME OrderInv, WholeInv, Drain
    PROVE  WholeInv'
<1> DEFINE h == Head(queue)
<1>0. queue # <<>> /\ Head(queue) \in Mutations
  BY DEF Drain, OrderInv, SessionTyped
<1> SUFFICES ASSUME NEW n \in Sessions, n = h.session
             PROVE  WholeInv'
  BY <1>0 DEF Mutations
<1>1. /\ queue # <<>> /\ queue' = Tail(queue) /\ UNCHANGED <<emitted, producer>>
      /\ \/ Apply(h) /\ UNCHANGED lost
         \/ UNCHANGED <<row, events>> /\ lost' = lost \cup {n}
  BY DEF Drain
<1>2. /\ Len(queue) \in Nat /\ Len(queue) >= 1
      /\ DOMAIN queue = 1 .. Len(queue)
      /\ DOMAIN queue' = 1 .. Len(queue) - 1
      /\ \A i \in DOMAIN queue' : queue'[i] = queue[i + 1] /\ i + 1 \in DOMAIN queue
      /\ h = queue[1] /\ h \in Mutations
  BY <1>1 DEF OrderInv, SessionTyped
<1>3. n \in Sessions /\ h.number \in Nat
  BY <1>2 DEF Mutations
<1> HIDE DEF h
<1>4. Numbered' /\ Producing'
  BY <1>1, <1>2 DEF WholeInv, Numbered, Producing
<1>5. \A u \in Sessions \ {n} : row'[u] = row[u] /\ events'[u] = events[u]
  BY <1>1, <1>3 DEF Apply, OrderInv, SessionTyped
<1>6. ASSUME NEW u \in Sessions \ lost', u # n
      PROVE  (Shown(u) /\ Whole(u))'
  <2>1. Shown(u) /\ Whole(u)
    BY <1>1 DEF WholeInv
  <2>2. Shown(u)' /\ Due(u)' = Due(u)
    BY <1>5, <1>6, <2>1 DEF Shown, Due
  <2>3. ASSUME NEW i \in DOMAIN queue, queue[i].session = u
        PROVE  i - 1 \in DOMAIN queue' /\ queue'[i - 1] = queue[i]
    <3>1. i # 1
      BY <1>2, <1>6, <2>3
    <3> QED
      BY <1>2, <3>1
  <2>4. Whole(u)'
    BY <1>1, <1>2, <2>1, <2>2, <2>3 DEF Whole
  <2> QED
    BY <2>2, <2>4
<1>7. ASSUME n \notin lost'
      PROVE  (Shown(n) /\ Whole(n))'
  <2>1. n \notin lost /\ Shown(n) /\ Whole(n) /\ Apply(h)
    BY <1>1, <1>3, <1>7 DEF WholeInv
  <2>2. h.number = Due(n) /\ h.number <= Events + 1
    BY <1>1, <1>2, <2>1, HeadIsDue DEF WholeInv, Producing
  <2>3. h.op = IF h.number = 0 THEN "create"
               ELSE IF h.number <= Events THEN "append" ELSE "complete"
    BY <1>2 DEF WholeInv, Numbered
  <2>4. row[n] \in SessionRows /\ events[n] \in Seq(Nat) /\ Len(events[n]) \in Nat
    BY <1>3 DEF OrderInv, SessionTyped
  <2>5. Shown(n)' /\ Due(n)' = h.number + 1
    <3>1. CASE h.op = "create"
      <4>1. ~ row[n].created /\ h.number = 0
        BY <1>3, <2>1, <2>2, <2>3, <2>4, <3>1, SessionAssumption DEF Due, Shown
      <4>2. row'[n] = [created |-> TRUE, status |-> "active"] /\ events'[n] = <<>>
        BY <1>3, <2>1, <3>1, <4>1 DEF Apply, Shown, OrderInv, SessionTyped
      <4> QED
        BY <4>1, <4>2, SessionAssumption DEF Shown, Due
    <3>2. CASE h.op = "append"
      <4>1. row[n].created /\ row[n].status = "active" /\ h.number = Len(events[n]) + 1 /\ h.number <= Events
        BY <1>3, <2>1, <2>2, <2>3, <2>4, <3>2, SessionAssumption DEF Due, Shown
      <4>2. row'[n] = row[n] /\ events'[n] = Append(events[n], h.number)
        BY <1>3, <2>1, <3>2 DEF Apply, OrderInv, SessionTyped
      <4>3. Len(events'[n]) = h.number /\ events'[n] = [i \in 1 .. h.number |-> i]
        BY <2>1, <2>4, <4>1, <4>2 DEF Shown
      <4> QED
        BY <1>3, <4>1, <4>2, <4>3 DEF Shown, Due
    <3>3. CASE h.op = "complete"
      <4>1. row[n].created /\ row[n].status = "active" /\ h.number = Len(events[n]) + 1 /\ h.number = Events + 1
        BY <1>3, <2>1, <2>2, <2>3, <2>4, <3>3, SessionAssumption DEF Due, Shown
      <4>2. row'[n].created /\ row'[n].status = "completed" /\ events'[n] = events[n]
        <5>1. row' = [row EXCEPT ![n].status = "completed"] /\ events' = events
          BY <2>1, <3>3 DEF Apply
        <5>2. row'[n] = [row[n] EXCEPT !.status = "completed"]
          BY <5>1 DEF OrderInv, SessionTyped
        <5> QED
          BY <2>4, <4>1, <5>1, <5>2 DEF SessionRows
      <4> QED
        BY <2>1, <2>4, <4>1, <4>2, SessionAssumption DEF Shown, Due
    <3> QED
      BY <2>3, <3>1, <3>2, <3>3
  <2>6. Whole(n)'
    <3>1. h.number < emitted[n] /\ emitted[n] \in Nat /\ emitted'[n] = emitted[n]
      BY <1>1, <1>2, <1>3 DEF OrderInv, QueueInOrder, SessionTyped
    <3>2. ASSUME NEW k \in Nat, h.number + 1 <= k, k < emitted'[n]
          PROVE  \E i \in DOMAIN queue' : queue'[i].session = n /\ queue'[i].number = k
      <4>1. PICK i \in DOMAIN queue : queue[i].session = n /\ queue[i].number = k
        BY <1>3, <2>1, <2>2, <3>1, <3>2 DEF Whole
      <4>2. i # 1
        BY <1>2, <1>3, <3>2, <4>1
      <4>3. i - 1 \in DOMAIN queue' /\ queue'[i - 1] = queue[i]
        BY <1>2, <4>2
      <4> QED
        BY <4>1, <4>3
    <3>3. ASSUME NEW i \in DOMAIN queue', queue'[i].session = n
          PROVE  h.number + 1 <= queue'[i].number
      <4>1. queue[i + 1] \in Mutations
        BY <1>2 DEF OrderInv, SessionTyped
      <4>2. h.number < queue[i + 1].number /\ queue[i + 1].number \in Nat
        BY <1>2, <3>3, <4>1 DEF OrderInv, QueueInOrder, Mutations
      <4> QED
        BY <1>2, <1>3, <4>2
    <3> QED
      BY <1>3, <2>5, <3>1, <3>2, <3>3 DEF Whole
  <2> QED
    BY <2>5, <2>6
<1> QED
  BY <1>4, <1>6, <1>7 DEF WholeInv

\* Every step keeps the sessions that lost nothing whole.
LEMMA NextWholeInv == OrderInv /\ WholeInv /\ [SessionNext]_sessionVars => WholeInv'
<1> SUFFICES ASSUME OrderInv, WholeInv, [SessionNext]_sessionVars
             PROVE  WholeInv'
  OBVIOUS
<1>1. ASSUME NEW s \in Sessions, OpenSession(s)
      PROVE  WholeInv'
  <2>1. emitted[s] = 0 /\ emitted' = [emitted EXCEPT ![s] = @ + 1]
        /\ producer' = [producer EXCEPT ![s] = "open"]
    BY <1>1 DEF OpenSession, Enqueue, Mutation, WholeInv, Producing
  <2>2. /\ Numbered' /\ \A i \in DOMAIN queue' : queue'[i].number <= Events + 1
        /\ \A u \in Sessions \ lost' : (Shown(u) /\ Whole(u))'
    BY <1>1, <2>1, EnqueueWhole DEF OpenSession
  <2>3. Producing'
    BY <2>1, <2>2 DEF WholeInv, Producing, OrderInv, SessionTyped
  <2> QED
    BY <2>2, <2>3 DEF WholeInv
<1>2. ASSUME NEW s \in Sessions, Emit(s)
      PROVE  WholeInv'
  <2>1. emitted[s] \in 1 .. Events /\ emitted' = [emitted EXCEPT ![s] = @ + 1]
        /\ producer' = producer /\ producer[s] = "open"
    BY <1>2 DEF Emit, Enqueue, Mutation, WholeInv, Producing
  <2>2. /\ Numbered' /\ \A i \in DOMAIN queue' : queue'[i].number <= Events + 1
        /\ \A u \in Sessions \ lost' : (Shown(u) /\ Whole(u))'
    BY <1>2, <2>1, EnqueueWhole DEF Emit
  <2>3. Producing'
    BY <2>1, <2>2 DEF WholeInv, Producing, OrderInv, SessionTyped
  <2> QED
    BY <2>2, <2>3 DEF WholeInv
<1>3. ASSUME NEW s \in Sessions, Complete(s)
      PROVE  WholeInv'
  <2>1. emitted[s] = Events + 1 /\ emitted' = [emitted EXCEPT ![s] = @ + 1]
        /\ producer' = [producer EXCEPT ![s] = "closed"]
    BY <1>3 DEF Complete, Enqueue, Mutation
  <2>2. /\ Numbered' /\ \A i \in DOMAIN queue' : queue'[i].number <= Events + 1
        /\ \A u \in Sessions \ lost' : (Shown(u) /\ Whole(u))'
    BY <1>3, <2>1, EnqueueWhole DEF Complete
  <2>3. Producing'
    BY <2>1, <2>2 DEF WholeInv, Producing, OrderInv, SessionTyped
  <2> QED
    BY <2>2, <2>3 DEF WholeInv
<1>4. CASE Drain
  BY <1>4, DrainWhole
<1>5. CASE Restart
  <2>1. queue' = <<>> /\ UNCHANGED <<emitted, row, events>> /\ lost \subseteq lost'
        /\ lost' = lost \cup {m.session : m \in ToSet(queue)}
        /\ producer' = [s \in Sessions |-> IF producer[s] = "open" THEN "ended" ELSE producer[s]]
    BY <1>5 DEF Restart
  <2>2. Numbered' /\ Producing'
    BY <2>1 DEF WholeInv, Numbered, Producing
  <2>3. ASSUME NEW s \in Sessions \ lost'
        PROVE  (Shown(s) /\ Whole(s))'
    <3>1. \A i \in DOMAIN queue : queue[i].session # s
      BY <2>1 DEF ToSet
    <3>2. Shown(s) /\ Whole(s)
      BY <2>1 DEF WholeInv
    <3>3. Shown(s)' /\ Due(s)' = Due(s)
      BY <2>1, <3>2 DEF Shown, Due
    <3> QED
      BY <2>1, <3>1, <3>2, <3>3 DEF Whole
  <2> QED
    BY <2>2, <2>3 DEF WholeInv
<1>6. CASE UNCHANGED <<queue, emitted, row, events, lost>> /\ (Producing => Producing')
  BY <1>6 DEF WholeInv, Numbered, Shown, Whole, Due
<1>7. ASSUME NEW s \in Sessions, Abandon(s)
      PROVE  Producing'
  BY <1>7 DEF Abandon, WholeInv, Producing
<1>8. UNCHANGED sessionVars => Producing'
  BY DEF sessionVars, WholeInv, Producing
<1> QED
  BY <1>1, <1>2, <1>3, <1>4, <1>5, <1>6, <1>7, <1>8 DEF SessionNext, Abandon, sessionVars

\* As long as nothing of a session was lost, the tables show a prefix of what
\* happened, and "completed" only with all of it (try_send,
\* apply_session_mutation).
THEOREM PrefixesShown == SessionSpec => []PrefixUnlessLost
<1>1. WholeInv => PrefixUnlessLost
  BY DEF WholeInv, Shown, PrefixUnlessLost
<1> QED
  BY <1>1, InitWholeInv, NextWholeInv, OrderInductive, PTL DEF SessionSpec
=============================================================================
