\* Prompt turns of one conversation, one crash, no database or provider errors.
CONSTANTS
    t1 = t1
    t2 = t2
    c1 = c1
    c2 = c2
    a1 = a1
    a2 = a2
    None = None
    Turns = {t1, t2}
    Conversations = {c1}
    Assistants = {a1}
    ConvOf <- OneConversation
    AssistantOf <- OneAssistant
    StaleAfter = 2
    DriftThreshold = 1
    MaxTurnTime = 2
    PromptDrain = TRUE
    LastTick = 5
    MaxCrashes = 1
    Faults = FALSE
SPECIFICATION FairSpec
 
PROPERTIES NoApologyToLiveTurn OrphansGetApology
CHECK_DEADLOCK FALSE
