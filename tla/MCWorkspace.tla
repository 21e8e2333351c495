----------------------------- MODULE MCWorkspace -----------------------------
(* A workspace: its members and invites, its keys, its channels and its teams. *)
(* The four share no table that their properties read, and a behaviour is one  *)
(* of one of them (area); the others are then as after their first Init.       *)
EXTENDS Workspaces, KeyRotation, Channels, Teams, TLC

CONSTANTS s1, s2

Kinds == [m1 |-> "message", m2 |-> "message", n |-> "note", c |-> "canvas"]

\* Keys and numbers are compared and stored, never looked into.
AlikeSecrets == Permutations({s1, s2})

VARIABLE area

Budget == [workspaces |-> {[calls |-> 4, drops |-> 0], [calls |-> 2, drops |-> 1]},
           keys       |-> {[calls |-> 3, drops |-> 0], [calls |-> 2, drops |-> 1]},
           channels   |-> {[calls |-> 3, drops |-> 0], [calls |-> 2, drops |-> 1]},
           teams      |-> {[calls |-> 3, drops |-> 0], [calls |-> 2, drops |-> 1]}]

\* A component that does not run starts as its fewest rows; a channel that is
\* there from the start leaves two calls; and as no property relates keys to
\* numbers, the number is the secret some provider has.
WorkspaceInit ==
    /\ area \in DOMAIN Budget /\ TasksInit(Budget[area])
    /\ WorkspacesInit /\ KeyRotationInit /\ ChannelsInit /\ TeamsInit
    /\ area # "workspaces" => workspace = NoSpace
    /\ area # "keys" => row = NoKeyRow /\ saved["openai"] = s1
    /\ row.cols["grok"] = Empty /\ \E p \in Providers : saved[p] = number
    /\ area # "channels" => sidebar = {}
    /\ sidebar # {} => calls = 2
    /\ area # "teams" => team = NoTeam

WorkspaceNext ==
    \/ /\ area = "workspaces" /\ \E t \in Tasks : WorkspacesStep(t)
       /\ UNCHANGED <<area, krVars, chVars, tmVars>>
    \/ /\ area = "keys" /\ KeyRotationNext
       /\ UNCHANGED <<area, wsVars, chVars, tmVars>>
    \/ /\ area = "channels" /\ \E t \in Tasks : ChannelsStep(t)
       /\ UNCHANGED <<area, wsVars, krVars, tmVars>>
    \/ /\ area = "teams" /\ \E t \in Tasks : TeamsStep(t)
       /\ UNCHANGED <<area, wsVars, krVars, chVars>>

WorkspaceSpec ==
    WorkspaceInit /\ [][WorkspaceNext]_<<area, tasking, wsVars, krVars, chVars, tmVars>>
=============================================================================
