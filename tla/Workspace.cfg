\* Two tasks at once, two users, of whom ann creates the workspace and the team.
CONSTANTS
    NTasks = 2
    Users = {"ann", "bob"}
    Owner = "ann"
    Invites = {"i1"}
    Names = {"n1", "n2"}
    s1 = s1
    s2 = s2
    Secrets = {s1, s2}
    Providers = {"openai", "grok"}
    Strict = {"openai"}
    MaxKeyVersion = 3
    Rooms = {"r1", "r2"}
    Pages = {"m1", "m2", "n", "c"}
    KindOf <- Kinds
    Leader = "ann"
    TeamNames = {"n1", "n2"}
    Cards = {"c1", "c2"}
    Columns = {"todo", "done"}
SYMMETRY AlikeSecrets
SPECIFICATION WorkspaceSpec
INVARIANTS  RemovedStaysOut  ListsAreClean  SecretsSurvive
CHECK_DEADLOCK FALSE
