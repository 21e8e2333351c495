\* One answered turn whose overwrite races with the reservations of others.
CONSTANTS
    w1 = w1
    w2 = w2
    w3 = w3
    p1 = p1
    MeteredTurns = {w1, w2, w3}
    UnmeteredTurns = {}
    AnsweredTurns = {w1}
    Cost <- OneToken
    Limit = 3
    LastDay = 1
    RefusedReadable = TRUE
SPECIFICATION FairSpec
INVARIANT LimitRespected
CHECK_DEADLOCK FALSE
