------------------------------ MODULE MCDashboard ------------------------------
(* The turns beside an operator of the dashboard; and what else is done from   *)
(* there: users manage their accounts and read their notifications, an editor  *)
(* sets up MCP servers.  The four share no table that their properties read,   *)
(* and a behaviour is one of one of them (area); the others are then as after  *)
(* their first Init.                                                           *)
EXTENDS MessageTurn, Accounts, Notifications, McpServers, TLC

CONSTANTS
    d1, d2, d3, m1, m2, op,
    Areas       \* that a run looks at

\* m1 is delivered twice.
Redelivered == (d1 :> m1) @@ (d2 :> m1) @@ (d3 :> m2)
TwoMessages == (d1 :> m1) @@ (d2 :> m2)

VARIABLE area

Budget == [turns         |-> {[calls |-> 0, drops |-> 0]},
           accounts      |-> {[calls |-> 3, drops |-> 0], [calls |-> 2, drops |-> 1]},
           notifications |-> {[calls |-> 2, drops |-> 0], [calls |-> 1, drops |-> 1]},
           mcp           |-> {[calls |-> 3, drops |-> 0], [calls |-> 2, drops |-> 1]}]

DashboardInit ==
    /\ area \in Areas /\ TasksInit(Budget[area])
    /\ Init /\ AccountsInit /\ NotificationsInit /\ McpInit
    /\ area # "accounts" => sessions = {} /\ \A u \in Users : things[u] = {}
    /\ area # "notifications" => wants = Users /\ reads_mail = {} /\ inbox = [u \in Users |-> <<>>]
    /\ area # "mcp" => server = [s \in Servers |-> NoServer]

DashboardNext ==
    \/ /\ area = "turns" /\ Next
       /\ UNCHANGED <<area, tasking, acVars, ntVars, mcVars>>
    \/ /\ area = "accounts" /\ AccountsNext
       /\ UNCHANGED <<area, vars, ntVars, mcVars>>
    \/ /\ area = "notifications" /\ NotificationsNext
       /\ UNCHANGED <<area, vars, acVars, mcVars>>
    \/ /\ area = "mcp" /\ McpNext
       /\ UNCHANGED <<area, vars, acVars, ntVars>>

DashboardSpec ==
    DashboardInit /\ [][DashboardNext]_<<area, tasking, vars, acVars, ntVars, mcVars>>
=============================================================================
