\* Two tasks at once.  Times are half hours of a day of eight, opened from 2 to 6;
\* the first has passed.
CONSTANTS
    NTasks = 2
    Guests = {"g1"}
    RateLimit = 2
    Appts = {"a1", "a2"}
    Slots <- SlotsAsked
    Edits <- EditsAsked
    Past = {1}
    Hours <- OpenHours
    Days = 8
    a1 = a1
    a2 = a2
    Assistants = {a1, a2}
    p1 = p1
    p2 = p2
    Phones = {p1, p2}
    Integrations = {"i1", "i2"}
    FailLimit = 3
    Objectives = {"o1", "o2"}
    KeyResults = {"k1", "k2"}
    Cycles = {"q1", "q2"}
    SpanOf <- Spans
    Values = {1, 2}
    Confidences = {3}
    Users = {"ann", "bob"}
    TokenLimit = 2
    Forms = {"f1", "f2", "f3"}
    Answers <- AllAnswers
    MaxStops = 1
SYMMETRY Alike
SPECIFICATION OfficeSpec
INVARIANTS
    DoorHolds  NumbersResolve  SharesHold
    ApprovalsHold PaysOnce
PROPERTIES OnlyOrphansCleaned
CHECK_DEADLOCK FALSE
