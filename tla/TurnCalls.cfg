\* The LLM: a call of three rounds beside one other caller; Retry-After beyond
\* its cap, a duration cap hit between rounds, a circuit that opens at two
\* failures.  The session log: two sessions of five mutations share a channel of
\* three; two statements fail, or the process restarts.
CONSTANTS
    u1 = u1
    me = me
    Callers = {u1}
    Me = me
    FailThreshold = 2
    FailWindow = 3
    MaxRounds = 3
    MaxDuration = 2
    Timeout = 3
    Backoff <- Delays
    RetryAfterCap = 4
    BodyTime = 1
    ToolTime = 1
    MaxRetryAfter = 6
    s1 = s1
    s2 = s2
    Sessions = {s1, s2}
    Events = 3
    Capacity = 3
    MaxFaults = 2
SPECIFICATION TurnCallsSpec
INVARIANTS CallBounded FailuresBounded PrefixUnlessLost
PROPERTIES ImplementsBreaker EndsAndCloses ClosedIsCompleted
CHECK_DEADLOCK FALSE
