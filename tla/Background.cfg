\* Three tasks at once.  Lengths are of messages, a tick of curation is half a day.
CONSTANTS
    NTasks = 3
    Users = {}
    Lengths = {0, 3, 5}
    Costs = {1, 2}
    Wide = 5
    Narrow = 3
    KeepRecent = 2
    MinMessages = 3
    MinTokens = 2
    TranscriptCap = 2
    c1 = c1
    c2 = c2
    Conversations = {c1, c2}
    MaxConcurrent = 2
    ScanLimit = 2
    Attempts = 2
    a1 = a1
    a2 = a2
    Assistants = {a1, a2}
    Day = 2
    Window = 3
    MinCalls = 1
    Tolerated = 2
    LogLimit = 1
    SuggestionLimit = 2
    PassTime = 1
    MaxCalls = 2
    MaxFaults = 1
    LastTick = 6
SYMMETRY Alike
SPECIFICATION BackgroundSpec
INVARIANTS CompactionHolds EvaluationsHold SuggestionsHold
CHECK_DEADLOCK FALSE
