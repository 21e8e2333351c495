------------------------------ MODULE ToolLoop ------------------------------
(***************************************************************************)
(* One call_<provider>_with_tools: rounds of a provider request followed   *)
(* by the tools it asks for, each request retried by retry_http_post with  *)
(* backoff, a Retry-After override and a timeout per attempt.  Time is     *)
(* counted in ticks; a step that takes time has a deadline in timer.       *)
(*                                                                         *)
(* What the tools of a round do (act at once, or return a record that the  *)
(* caller acts on when the call has succeeded) is one step, ToolCalls.     *)
(***************************************************************************)
EXTENDS Naturals, FiniteSets

CONSTANTS
    MaxRounds,       \* config_max_tool_rounds or DEFAULT_MAX_TOOL_ROUNDS
    MaxDuration,     \* config_max_duration_ms or DEFAULT_MAX_DURATION_MS
    Timeout,         \* per-attempt timeout
    Backoff,         \* RETRY_BACKOFFS
    RetryAfterCap,   \* RETRY_AFTER_CAP
    BodyTime,        \* longest time the body of an answer takes (*)
    ToolTime,        \* longest time the tools of a round take (*)
    MaxRetryAfter    \* bound on the Retry-After a provider sends
\* (*) assumed of the environment: the code sets no timeout on either.

Retries == 3
NoRetryAfter == MaxRetryAfter + 1

ASSUME LoopAssumption ==
    /\ MaxRounds \in Nat \ {0} /\ MaxDuration \in Nat
    /\ Timeout \in Nat /\ BodyTime \in Nat /\ ToolTime \in Nat
    /\ RetryAfterCap \in Nat /\ MaxRetryAfter \in Nat
    /\ Backoff \in [1 .. Retries -> Nat]

MinOf(a, b) == IF a < b THEN a ELSE b
MaxOf(a, b) == IF a < b THEN b ELSE a

\* The longest a round and a whole call can take: the duration is checked
\* between rounds only.
LongestDelay(n) == MaxOf(Backoff[n], RetryAfterCap)
RoundTime ==
    (Retries + 1) * (Timeout + BodyTime) + LongestDelay(1) + LongestDelay(2) + LongestDelay(3)
             + ToolTime
CallTime  == MaxDuration + RoundTime

VARIABLES
    phase,      \* "idle", "round", "sleep", "post", "body", "tools", "ok", "err"
    round,      \* rounds begun
    attempt,    \* attempts of this round so far
    timer,      \* ticks left to the step under way
    elapsed,    \* loop_started.elapsed(), saturated above CallTime
    dispatched  \* history: how often the tools of each round were run, up to 2

loopVars == <<phase, round, attempt, timer, elapsed, dispatched>>

LoopInit ==
    /\ phase = "idle" /\ round = 0 /\ attempt = 0 /\ timer = 0 /\ elapsed = 0
    /\ dispatched = [r \in 1 .. MaxRounds |-> 0]

Finish(outcome) ==
    /\ phase' = outcome
    /\ timer' = 0
    /\ UNCHANGED <<round, attempt, elapsed, dispatched>>

BeginCall ==
    /\ phase = "idle"
    /\ phase' = "round"
    /\ UNCHANGED <<round, attempt, timer, elapsed, dispatched>>

\* The head of the for loop: rounds left, duration left, circuit closed.
RoundsCapHit   == phase = "round" /\ round = MaxRounds /\ Finish("err")
DurationCapHit == phase = "round" /\ round < MaxRounds /\ elapsed > MaxDuration /\ Finish("err")
CircuitOpen    == phase = "round" /\ round < MaxRounds /\ elapsed <= MaxDuration /\ Finish("err")

Post(n) ==
    /\ phase' = "post"
    /\ attempt' = n
    /\ timer' = Timeout

BeginRound ==
    /\ phase = "round"
    /\ round < MaxRounds
    /\ elapsed <= MaxDuration
    /\ round' = round + 1
    /\ Post(1)
    /\ UNCHANGED <<elapsed, dispatched>>

\* The sleep before the n-th retry, given the Retry-After of the answer.
Delay(n, o) == IF o = NoRetryAfter THEN Backoff[n] ELSE MinOf(o, RetryAfterCap)

\* Mutant of RetryOrGiveUp: the attempts are never used up.
RetryOrGiveUpNever(o) ==
    /\ phase' = "sleep"
    /\ timer' = Delay(MinOf(attempt, Retries), o)
    /\ attempt' = MinOf(attempt, Retries)
    /\ UNCHANGED <<round, elapsed, dispatched>>

\* After a transient failure: sleep before the next attempt, or give up.
RetryOrGiveUp(o) ==
    IF attempt <= Retries
    THEN /\ phase' = "sleep"
         /\ timer' = Delay(attempt, o)
         /\ UNCHANGED <<round, attempt, elapsed, dispatched>>
    ELSE Finish("err")

\* Connect and status headers within the timeout; then the body is read.
Headers ==
    /\ phase = "post"
    /\ phase' = "body"
    /\ timer' = BodyTime
    /\ UNCHANGED <<round, attempt, elapsed, dispatched>>

TransportError == phase = "post" /\ RetryOrGiveUp(NoRetryAfter)
TimedOut       == phase = "post" /\ timer = 0 /\ RetryOrGiveUp(NoRetryAfter)

\* 429 and 5xx, with or without Retry-After.
TransientStatus == phase = "body" /\ \E o \in 0 .. NoRetryAfter : RetryOrGiveUp(o)

\* Any other 4xx, a body that cannot be read, an error object: no retry.
HardFailure == phase = "body" /\ Finish("err")

WakeUp ==
    /\ phase = "sleep"
    /\ timer = 0
    /\ Post(attempt + 1)
    /\ UNCHANGED <<round, elapsed, dispatched>>

Answer == phase = "body" /\ Finish("ok")

ToolCalls ==
    /\ phase = "body"
    /\ phase' = "tools"
    /\ timer' = ToolTime
    /\ dispatched' = [dispatched EXCEPT ![round] = MinOf(@ + 1, 2)]
    /\ UNCHANGED <<round, attempt, elapsed>>

\* Mutant of ToolsDone: a failed tool sends the loop back to the same round.
ToolsDoneAgain ==
    /\ phase = "tools"
    /\ phase' = "round"
    /\ round' \in {round, round - 1}
    /\ timer' = 0
    /\ UNCHANGED <<attempt, elapsed, dispatched>>

ToolsDone ==
    /\ phase = "tools"
    /\ phase' = "round"
    /\ timer' = 0
    /\ UNCHANGED <<round, attempt, elapsed, dispatched>>

Ended == phase \in {"ok", "err"}

LoopTick ==
    /\ timer > 0
    /\ timer' = timer - 1
    /\ elapsed' = MinOf(elapsed + 1, CallTime + 1)
    /\ UNCHANGED <<phase, round, attempt, dispatched>>

-----------------------------------------------------------------------------
\* The kind of value each variable holds; a round makes at most one attempt
\* more than RETRY_BACKOFFS has delays.
LoopTypeOK ==
    /\ phase \in {"idle", "round", "sleep", "post", "body", "tools", "ok", "err"}
    /\ round \in 0 .. MaxRounds
    /\ attempt \in 0 .. Retries + 1
    /\ timer \in Nat
    /\ elapsed \in 0 .. CallTime + 1
    /\ dispatched \in [1 .. MaxRounds -> 0 .. 2]

\* INVARIANT (R1, T2.2): "the tool execution loop never re-runs on HTTP
\* retry", so no tool side effect is duplicated.
ToolsRunOnce == \A r \in 1 .. MaxRounds : dispatched[r] <= 1

\* A call takes at most the duration cap plus one round with all its retries:
\* the time after which an in_progress row of llm_call_logs is surely dead.
CallTimeBounded == elapsed <= CallTime
=============================================================================
