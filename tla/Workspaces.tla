----------------------------- MODULE Workspaces -----------------------------
(***************************************************************************)
(* One workspace, its members and its invites.  A membership is kept       *)
(* twice: in `workspace_members`, which the permission checks read, and in *)
(* `user_workspaces`, which lists a user's workspaces; the workspace a     *)
(* user works in is a third place, `users.active_workspace_id`.            *)
(*                                                                         *)
(* An UPDATE of a row that is not there writes one, with only the columns  *)
(* it names.  Such a row has no joined_at ("whole" is FALSE): list_members *)
(* skips it, get_member_role does not.                                     *)
(***************************************************************************)
EXTENDS Tasks

CONSTANTS
    Owner,          \* the user who creates the workspace
    Invites,        \* ids of invites
    Names           \* names a workspace can be given

ASSUME WorkspacesAssumption == Owner \in Users /\ Names # {}

VARIABLES
    workspace,      \* the row of workspaces
    members,        \* workspace_members: the row of each user
    mine,           \* user_workspaces: the row of each user
    active,         \* is the workspace the one the user works in?
    invites,        \* workspace_invites: the row of each id
    geral,          \* the #geral channel: is there one, and its members
    wsMessy,        \* history: users whose rows two tasks wrote at once, or a
                    \* dropped task left
    revived,        \* history: users a change of role has written a row for
    out             \* history: users who were removed, and not invited since

wsTables  == <<workspace, members, mine, active, invites, geral>>
wsHistory == <<wsMessy, revived, out>>
wsVars    == <<wsTables, wsHistory>>

Absent   == [role |-> "none", whole |-> FALSE]
NotMine  == [role |-> "none", whole |-> FALSE, name |-> "none"]
NoSpace  == [name |-> "none", whole |-> FALSE]
NoInvite == [to |-> "none", role |-> "none", state |-> "none"]
NoRoom   == [made |-> FALSE, people |-> {}]

\* Nothing yet, or a workspace that was created and has its owner.
WorkspacesInit ==
    /\ \/ /\ workspace = NoSpace /\ geral = NoRoom
          /\ members = [u \in Users |-> Absent] /\ mine = [u \in Users |-> NotMine]
       \/ \E n \in Names :
          /\ workspace = [name |-> n, whole |-> TRUE]
          /\ geral = [made |-> TRUE, people |-> {Owner}]
          /\ members = [u \in Users |->
                IF u = Owner THEN [role |-> "owner", whole |-> TRUE] ELSE Absent]
          /\ mine = [u \in Users |->
                IF u = Owner THEN [role |-> "owner", whole |-> TRUE, name |-> n] ELSE NotMine]
    /\ active = [u \in Users |-> FALSE]
    /\ invites = [i \in Invites |-> NoInvite]
    /\ wsMessy = {} /\ revived = {} /\ out = {}

Role(u)  == members[u].role
Listed   == {u \in Users : members[u].whole}
Managers == {"owner", "admin"}

\* The users whose membership a call writes, or makes possible.
WsWrites(op, arg) ==
    CASE op \in {"update", "delete"}                        -> Users
      [] op = "invite"                                      -> {arg.to}
      [] op \in {"create", "accept", "remove", "set_role", "switch"} -> {arg.user}
      [] OTHER                                              -> {}

BeginWs(t, op, at, arg) ==
    /\ Begin(t, op, at, arg)
    /\ wsMessy' = wsMessy \cup {u \in WsWrites(op, arg) :
                    \E o \in Others(t) : u \in WsWrites(call[o].op, Arg(o))}
    /\ UNCHANGED <<wsTables, revived, out>>

-----------------------------------------------------------------------------
(* Calls begin, and the ones a manager makes read the caller's role. *)

CreateCall(t) ==
    /\ workspace = NoSpace /\ Role(Owner) = "none" /\ ~geral.made
    /\ \A u \in Tasks : call[u].op # "create"
    /\ \E n \in Names :
            BeginWs(t, "create", "workspace", [user |-> Owner, role |-> "owner", name |-> n])

ManagerCalls(t) ==
    \E by \in {u \in Users : Role(u) # "none"} :
        \/ \E n \in Names \ {workspace.name} :
                BeginWs(t, "update", "role", [by |-> by, name |-> n])
        \/ BeginWs(t, "delete", "role", [by |-> by])
        \/ \E u \in Users : BeginWs(t, "remove", "role", [by |-> by, user |-> u])
        \/ \E u \in Users, r \in {"admin", "member"} :
                r # Role(u) /\ BeginWs(t, "set_role", "role", [by |-> by, user |-> u, role |-> r])
        \/ \E i \in Invites, u \in Users, r \in {"admin", "member"} :
                /\ invites[i] = NoInvite
                /\ \A o \in Tasks : call[o].op = "invite" => Arg(o).invite # i
                /\ BeginWs(t, "invite", "role", [by |-> by, invite |-> i, to |-> u, role |-> r])

\* The user an invite was sent to opens it; a user switches.
MemberCalls(t) ==
    \/ \E i \in Invites :
            /\ invites[i] # NoInvite
            /\ BeginWs(t, "accept", "read", [user |-> invites[i].to, invite |-> i])
    \/ \E u \in Users :
            Role(u) # "none" /\ ~active[u] /\ BeginWs(t, "switch", "role", [user |-> u])

Guarded == {"update", "delete", "remove", "set_role", "invite"}

ReadRole(t) ==
    /\ \E op \in Guarded :
        /\ On(t, op, "role")
        /\ LET role == Role(Arg(t).by) IN
            IF role \in (IF op \in {"delete", "set_role"} THEN {"owner"} ELSE Managers)
            THEN Goto(t, CASE op = "set_role" -> "set" [] op = "update" -> "name" [] OTHER -> "get")
            ELSE Finish(t)
    /\ UNCHANGED wsVars

\* get_workspace: a row that is not whole is not found.  The owner is not removed.
ReadWorkspace(t) ==
    /\ \E op \in {"delete", "remove", "invite"} :
        /\ On(t, op, "get")
        /\ IF ~workspace.whole \/ (op = "remove" /\ Arg(t).user = Owner)
           THEN Finish(t)
           ELSE Goto(t, CASE op = "delete" -> "list" [] op = "remove" -> "member"
                          [] OTHER -> "insert")
    /\ UNCHANGED wsVars

-----------------------------------------------------------------------------
(* create, and add_member as create and accept call it *)

InsertWorkspace(t) ==
    /\ On(t, "create", "workspace")
    /\ workspace' = [name |-> Arg(t).name, whole |-> TRUE]
    /\ Learn(t, "add", Owner)
    /\ UNCHANGED <<members, mine, active, invites, geral, wsHistory>>

WsAdds == {"create", "accept"}

\* What an invite says was read with it; an INSERT replaces the member's role.
AddedRole(t) == IF call[t].op = "create" THEN "owner" ELSE Got(t).role

InsertMembership(t) ==
    /\ \E op \in WsAdds : On(t, op, "add")
    /\ members' = [members EXCEPT ![Arg(t).user] = [role |-> AddedRole(t), whole |-> TRUE]]
    /\ Goto(t, "named")
    /\ UNCHANGED <<workspace, mine, active, invites, geral, wsHistory>>

ReadName(t) ==
    /\ \E op \in WsAdds : On(t, op, "named")
    /\ IF ~workspace.whole THEN Finish(t)
       ELSE Learn(t, "mine", [role |-> AddedRole(t), name |-> workspace.name])
    /\ UNCHANGED wsVars

InsertMine(t) ==
    /\ \E op \in WsAdds : On(t, op, "mine")
    /\ mine' = [mine EXCEPT ![Arg(t).user] =
            [role |-> Got(t).role, whole |-> TRUE, name |-> Got(t).name]]
    /\ Goto(t, IF call[t].op = "create" THEN "room" ELSE "rooms")
    /\ UNCHANGED <<workspace, members, active, invites, geral, wsHistory>>

\* The #geral channel: its creator, then the members there are.
InsertRoom(t) ==
    /\ On(t, "create", "room")
    /\ geral' = [made |-> TRUE, people |-> {}]
    /\ Goto(t, "enter")
    /\ UNCHANGED <<workspace, members, mine, active, invites, wsHistory>>

ListForRoom(t) ==
    /\ On(t, "create", "fill")
    /\ IF Listed \ {Owner} = {} THEN Finish(t) ELSE Learn(t, "filling", Listed \ {Owner})
    /\ UNCHANGED wsVars

FillRoom(t) ==
    /\ On(t, "create", "filling")
    /\ \E u \in Got(t) :
        /\ geral' = [geral EXCEPT !.people = @ \cup {u}]
        /\ IF Got(t) = {u} THEN Finish(t) ELSE Learn(t, "filling", Got(t) \ {u})
    /\ UNCHANGED <<workspace, members, mine, active, invites, wsHistory>>

EnterRoom(t) ==
    /\ \E op \in WsAdds : On(t, op, "enter")
    /\ geral' = [geral EXCEPT !.people = @ \cup {Arg(t).user}]
    /\ Goto(t, IF call[t].op = "create" THEN "fill" ELSE "check")
    /\ UNCHANGED <<workspace, members, mine, active, invites, wsHistory>>

-----------------------------------------------------------------------------
(* accept: the invite is marked before the member is added *)

InsertInvite(t) ==
    /\ On(t, "invite", "insert")
    /\ invites' = [invites EXCEPT ![Arg(t).invite] =
            [to |-> Arg(t).to, role |-> Arg(t).role, state |-> "open"]]
    /\ Finish(t)
    /\ UNCHANGED <<workspace, members, mine, active, geral, wsHistory>>

\* It may have expired.
AcceptReads(t) ==
    /\ On(t, "accept", "read")
    /\ LET invite == invites[Arg(t).invite] IN
        \/ Finish(t)
        \/ invite.state = "open" /\ Learn(t, "mark", invite)
    /\ UNCHANGED wsVars

\* An invite that was deleted leaves a row without a token: nobody finds it.
MarkAccepted(t) ==
    /\ On(t, "accept", "mark")
    /\ LET i == Arg(t).invite IN
        /\ invites' = [invites EXCEPT ![i].state = IF @ = "none" THEN "none" ELSE "accepted"]
        /\ out' = IF invites[i].state = "open" THEN out \ {Arg(t).user} ELSE out
    /\ Goto(t, "add")
    /\ UNCHANGED <<workspace, members, mine, active, geral, wsMessy, revived>>

ListRooms(t) ==
    /\ On(t, "accept", "rooms")
    /\ Goto(t, IF geral.made THEN "enter" ELSE "check")
    /\ UNCHANGED wsVars

\* switch_workspace, of accept and of switch.
CheckMember(t) ==
    /\ On(t, "accept", "check") \/ On(t, "switch", "role")
    /\ IF Role(Arg(t).user) = "none" THEN Finish(t) ELSE Goto(t, "activate")
    /\ UNCHANGED wsVars

Activate(t) ==
    /\ On(t, "accept", "activate") \/ On(t, "switch", "activate")
    /\ active' = [active EXCEPT ![Arg(t).user] = TRUE]
    /\ Finish(t)
    /\ UNCHANGED <<workspace, members, mine, invites, geral, wsHistory>>

-----------------------------------------------------------------------------
(* update_member_role: two UPDATEs, of rows that may not be there *)

SetRole(t) ==
    /\ On(t, "set_role", "set")
    /\ LET u == Arg(t).user IN
        /\ members' = [members EXCEPT ![u].role = Arg(t).role]
        /\ revived' = IF Role(u) = "none" THEN revived \cup {u} ELSE revived
        /\ out' = out \ {u}
    /\ Goto(t, "mine")
    /\ UNCHANGED <<workspace, mine, active, invites, geral, wsMessy>>

\* Mutant of SetMine: the user's own list keeps the old role.
SetMineNot(t) ==
    /\ On(t, "set_role", "mine")
    /\ Finish(t)
    /\ UNCHANGED wsVars

SetMine(t) ==
    /\ On(t, "set_role", "mine")
    /\ mine' = [mine EXCEPT ![Arg(t).user].role = Arg(t).role]
    /\ Finish(t)
    /\ UNCHANGED <<workspace, members, active, invites, geral, wsHistory>>

-----------------------------------------------------------------------------
(* update_workspace: the name, then its copy at each member *)

Rename(t) ==
    /\ On(t, "update", "name")
    /\ workspace' = [workspace EXCEPT !.name = Arg(t).name]
    /\ Goto(t, "list")
    /\ UNCHANGED <<members, mine, active, invites, geral, wsHistory>>

ListToRename(t) ==
    /\ On(t, "update", "list")
    /\ IF Listed = {} THEN Finish(t) ELSE Learn(t, "each", Listed)
    /\ UNCHANGED wsVars

RenameMine(t) ==
    /\ On(t, "update", "each")
    /\ \E u \in Got(t) :
        /\ mine' = [mine EXCEPT ![u].name = Arg(t).name]
        /\ IF Got(t) = {u} THEN Finish(t) ELSE Learn(t, "each", Got(t) \ {u})
    /\ UNCHANGED <<workspace, members, active, invites, geral, wsHistory>>

-----------------------------------------------------------------------------
(* remove_member, for one user or for each of a workspace that is deleted *)

ListToDelete(t) ==
    /\ On(t, "delete", "list")
    /\ IF Listed = {} THEN Goto(t, "invites")
       ELSE \E u \in Listed : Learn(t, "member", [user |-> u, rest |-> Listed \ {u}])
    /\ UNCHANGED wsVars

Removes == {"remove", "delete"}
Removed(t) == IF call[t].op = "remove" THEN Arg(t).user ELSE Got(t).user

\* Mutant of DeleteMembership: the row that the permission checks read stays.
DeleteMembershipNot(t) ==
    /\ \E op \in Removes : On(t, op, "member")
    /\ Goto(t, "mine")
    /\ UNCHANGED wsVars

DeleteMembership(t) ==
    /\ \E op \in Removes : On(t, op, "member")
    /\ members' = [members EXCEPT ![Removed(t)] = Absent]
    /\ Goto(t, "mine")
    /\ UNCHANGED <<workspace, mine, active, invites, geral, wsHistory>>

DeleteMine(t) ==
    /\ \E op \in Removes : On(t, op, "mine")
    /\ mine' = [mine EXCEPT ![Removed(t)] = NotMine]
    /\ Goto(t, "active")
    /\ UNCHANGED <<workspace, members, active, invites, geral, wsHistory>>

\* The user is done; a deletion goes on with the next one.
Done(t) ==
    /\ out' = IF Removed(t) \in wsMessy THEN out ELSE out \cup {Removed(t)}
    /\ IF call[t].op = "remove" THEN Finish(t)
       ELSE IF Got(t).rest = {} THEN Goto(t, "invites")
       ELSE \E u \in Got(t).rest :
                Learn(t, "member", [user |-> u, rest |-> Got(t).rest \ {u}])

ReadActive(t) ==
    /\ \E op \in Removes : On(t, op, "active")
    /\ IF active[Removed(t)] THEN Goto(t, "reset") /\ UNCHANGED out ELSE Done(t)
    /\ UNCHANGED <<wsTables, wsMessy, revived>>

ResetActive(t) ==
    /\ \E op \in Removes : On(t, op, "reset")
    /\ active' = [active EXCEPT ![Removed(t)] = FALSE]
    /\ Done(t)
    /\ UNCHANGED <<workspace, members, mine, invites, geral, wsMessy, revived>>

DeleteInvites(t) ==
    /\ On(t, "delete", "invites")
    /\ invites' = [i \in Invites |-> [invites[i] EXCEPT !.state = "none"]]
    /\ Goto(t, "keys")
    /\ UNCHANGED <<workspace, members, mine, active, geral, wsHistory>>

\* The workspace's API keys (KeyRotation) go, then its row; its channels stay.
DeleteKeys(t) ==
    /\ On(t, "delete", "keys")
    /\ Goto(t, "workspace")
    /\ UNCHANGED wsVars

DeleteWorkspace(t) ==
    /\ On(t, "delete", "workspace")
    /\ workspace' = NoSpace
    /\ Goto(t, "home")
    /\ UNCHANGED <<members, mine, active, invites, geral, wsHistory>>

\* The caller works in the personal workspace again.
GoHome(t) ==
    /\ On(t, "delete", "home")
    /\ active' = [active EXCEPT ![Arg(t).by] = FALSE]
    /\ Finish(t)
    /\ UNCHANGED <<workspace, members, mine, invites, geral, wsHistory>>

-----------------------------------------------------------------------------

DropMember(t) ==
    /\ Drop(t)
    /\ wsMessy' = wsMessy \cup WsWrites(call[t].op, Arg(t))
    /\ UNCHANGED <<wsTables, revived, out>>

WorkspacesStep(t) ==
    \/ CreateCall(t) \/ ManagerCalls(t) \/ MemberCalls(t) \/ ReadRole(t) \/ ReadWorkspace(t)
    \/ InsertWorkspace(t) \/ InsertMembership(t) \/ ReadName(t) \/ InsertMine(t)
    \/ InsertRoom(t) \/ ListForRoom(t) \/ FillRoom(t) \/ EnterRoom(t)
    \/ InsertInvite(t) \/ AcceptReads(t) \/ MarkAccepted(t) \/ ListRooms(t)
    \/ CheckMember(t) \/ Activate(t)
    \/ SetRole(t) \/ SetMine(t)
    \/ Rename(t) \/ ListToRename(t) \/ RenameMine(t)
    \/ ListToDelete(t) \/ DeleteMembership(t) \/ DeleteMine(t) \/ ReadActive(t) \/ ResetActive(t)
    \/ DeleteInvites(t) \/ DeleteKeys(t) \/ DeleteWorkspace(t) \/ GoHome(t)
    \/ DropMember(t)

-----------------------------------------------------------------------------
(* What membership promises, to a user whose rows one task wrote at a time. *)

Settled(u) == u \notin wsMessy /\ \A t \in Tasks : u \notin WsWrites(call[t].op, Arg(t))

\* The two tables name the same members, in the same role and under the
\* workspace's name: after joins, role changes, renames, removals and rejoins,
\* and although both tables are written with statements that revive rows.
MembershipAgrees ==
    \A u \in Users : Settled(u) =>
        /\ members[u].whole = mine[u].whole
        /\ members[u].whole => members[u].role = mine[u].role /\ mine[u].name = workspace.name

\* A user who was removed is no member again until an invite that was still
\* open is accepted, or a change of role writes the row again: an invite that
\* has served, or one that was sent before the workspace was deleted, is void.
RemovedStaysOut ==
    \A u \in out : Settled(u) => members[u] = Absent

\* A user works in the workspace only as a member of a workspace that exists.
ActiveIsMember ==
    \A u \in Users \ revived : Settled(u) /\ active[u] => members[u].whole /\ workspace.whole

\* Members are the same in every table, and work only where they are members
\* (add_member, update_member_role, remove_member, rename, switch).
MembersAgree == MembershipAgrees /\ ActiveIsMember
=============================================================================
