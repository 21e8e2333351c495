\* Slow turns of two assistants, one crash, every call may fail.
CONSTANTS
    t1 = t1
    t2 = t2
    c1 = c1
    c2 = c2
    a1 = a1
    a2 = a2
    None = None
    Turns = {t1, t2}
    Conversations = {c1, c2}
    Assistants = {a1, a2}
    ConvOf <- TwoConversations
    AssistantOf <- TwoAssistants
    StaleAfter = 1
    DriftThreshold = 1
    MaxTurnTime = 3
    PromptDrain = FALSE
    LastTick = 3
    MaxCrashes = 1
    Faults = TRUE
SPECIFICATION FairSpec
INVARIANT CompletedMeansAnswered
PROPERTY ClosedRowsStay
CHECK_DEADLOCK FALSE
