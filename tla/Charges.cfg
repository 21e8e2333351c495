\* Poller, live check and webhook; one call fails or the process restarts.
CONSTANTS
    p1 = p1
    c1 = c1
    h1 = h1
    Poller = p1
    Checks = {c1}
    Hooks = {h1}
    Moves <- AllMoves
    MaxPolls = 2
    MaxFaults = 1
    RefusedReadable = TRUE
SPECIFICATION FairSpec
INVARIANT ChargeTrue
PROPERTIES OnlyWebhooksReopen PaidIsRecorded
CHECK_DEADLOCK FALSE
