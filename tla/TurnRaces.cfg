\* Three deliveries, two of them of one message, and an operator who pauses
\* and resumes; two accounts with one e-mail; two MCP servers of one name.
CONSTANTS
    Areas = {"turns", "accounts", "mcp"}
    d1 = d1
    d2 = d2
    d3 = d3
    m1 = m1
    m2 = m2
    op = op
    Operator = op
    Deliveries = {d1, d2, d3}
    MessageOf <- Redelivered
    ConvIds = {1, 2}
    Parts = 2
    HistoryLimit = 1
    OperatorActs = {"pause", "resume"}
    MaxLog = 0
    DedupMayFail = FALSE
    RefusedReadable = TRUE
    NTasks = 2
    Users = {"ann", "bob"}
    Emails = {"e"}
    Passwords = {"p", "q"}
    MaxAttempts = 2
    TokenLimit = 2
    CodeLimit = 2
    Members = {"ann", "bob"}
    TokenUsers = {"bob"}
    ListLimit = 2
    Capacity = 1
    Servers = {"v1", "v2"}
    Names = {"a"}
    Urls = {"u1", "u2"}
    Credentials = {"k1"}
SPECIFICATION DashboardSpec
INVARIANTS  TurnHeeds AccountsHold McpHolds
CHECK_DEADLOCK FALSE
