\* Two messages, a dedup that may fail, and an operator who deletes and writes;
\* notifications of two members, of whom bob has accepted a share.
CONSTANTS
    Areas = {"turns", "notifications"}
    d1 = d1
    d2 = d2
    d3 = d3
    m1 = m1
    m2 = m2
    op = op
    Operator = op
    Deliveries = {d1, d2}
    MessageOf <- TwoMessages
    ConvIds = {1, 2}
    Parts = 2
    HistoryLimit = 1
    OperatorActs = {"delete", "write"}
    MaxLog = 1
    DedupMayFail = TRUE
    RefusedReadable = TRUE
    NTasks = 2
    Users = {"ann", "bob"}
    Emails = {"e"}
    Passwords = {"p", "q"}
    MaxAttempts = 2
    TokenLimit = 2
    CodeLimit = 2
    Members = {"ann", "bob"}
    TokenUsers = {"bob"}
    ListLimit = 2
    Capacity = 1
    Servers = {"v1", "v2"}
    Names = {"a"}
    Urls = {"u1", "u2"}
    Credentials = {"k1"}
SPECIFICATION DashboardSpec
INVARIANTS LogIsTrue InboxHolds
CHECK_DEADLOCK FALSE
