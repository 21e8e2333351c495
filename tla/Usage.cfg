\* Three metered turns and a playground turn over midnight.  One of the metered
\* turns is answered, by a model that reports no tokens.
CONSTANTS
    w1 = w1
    w2 = w2
    w3 = w3
    p1 = p1
    MeteredTurns = {w1, w2, w3}
    UnmeteredTurns = {p1}
    AnsweredTurns = {w1, p1}
    Cost <- OneFree
    Limit = 3
    LastDay = 2
    RefusedReadable = TRUE
SPECIFICATION FairSpec
INVARIANTS UsageHonest ReservationsRespectLimit
PROPERTY EveryTurnEnds
CHECK_DEADLOCK FALSE
