------------------------------- MODULE Teams --------------------------------
(***************************************************************************)
(* One team of a workspace and its board of tasks ("cards").  A member of  *)
(* the team has a row in `team_members` and one in `user_teams`, which     *)
(* holds a copy of the team's name.  A card is placed in its column by a   *)
(* number that is computed from how many are there.  All columns of these  *)
(* tables are read as optional, so a row that an UPDATE has written after  *)
(* its deletion is shown like any other.                                   *)
(***************************************************************************)
EXTENDS Tasks

CONSTANTS
    Leader,         \* the one who creates the team
    TeamNames,
    Cards,          \* ids of tasks
    Columns         \* the statuses of a task

ASSUME TeamsAssumption ==
    /\ Leader \in Users
    /\ TeamNames # {} /\ "none" \notin TeamNames
    /\ IsFiniteSet(Cards)

VARIABLES
    team,           \* the row of teams: its name
    team_members,   \* the users in team_members
    lists,          \* user_teams: the name each user's row holds
    cards,          \* the row of each task
    comments,       \* tasks with comments
    files,          \* tasks with attachments
    tmMessy,        \* history: users whose rows two calls wrote at once, or a
                    \* call left half written
    intruded,       \* history: has a call run beside the deletion of the team,
                    \* has the deletion ended early, or has a comment come on
                    \* a card whose comments were deleted before?
    loose           \* history: columns a card has left, was placed in by hand,
                    \* or was added to by two calls at once

tmTables  == <<team, team_members, lists, cards, comments, files>>
tmHistory == <<tmMessy, intruded, loose>>
tmVars    == <<tmTables, tmHistory>>

NoTeam == "none"
NoCard == [is |-> FALSE, column |-> "none", place |-> 0]

Board      == {c \in Cards : cards[c].is}
InColumn(k) == {c \in Board : cards[c].column = k}

TeamsInit ==
    /\ \E n \in TeamNames \cup {NoTeam} :
        /\ team = n
        /\ team_members = IF n = NoTeam THEN {} ELSE {Leader}
        /\ lists = [u \in Users |-> IF n # NoTeam /\ u = Leader THEN n ELSE NoTeam]
    /\ cards = [c \in Cards |-> NoCard]
    /\ comments = {} /\ files = {}
    /\ tmMessy = {} /\ intruded = FALSE /\ loose = {}

\* The users whose rows a call writes, and the column it counts.
TmWrites(c) ==
    CASE c.op \in {"rename_team", "delete_team"} -> Users
      [] c.op \in {"create_team", "add_to_team", "remove_from_team"} -> {c.arg.user}
      [] OTHER -> {}

BeginTm(t, op, at, arg) ==
    /\ Begin(t, op, at, arg)
    /\ LET me == [op |-> op, arg |-> arg]
           others == {call[o] : o \in Others(t)} IN
        /\ tmMessy' = tmMessy \cup (TmWrites(me) \cap UNION {TmWrites(c) : c \in others})
        /\ intruded' = (intruded \/ (op = "delete_team" /\ others # {})
                            \/ \E c \in others : c.op = "delete_team")
        /\ loose' = loose \cup (IF op \in {"add_card", "edit_card"}
                                   /\ \E c \in others : c.op \in {"add_card", "edit_card"}
                                THEN Columns ELSE {})
    /\ UNCHANGED tmTables

-----------------------------------------------------------------------------
(* Calls begin.  Screens may show what is gone. *)

TeamCalls(t) ==
    \/ /\ team = NoTeam /\ team_members = {} /\ \A o \in Tasks : call[o].op # "create_team"
       /\ \E n \in TeamNames : BeginTm(t, "create_team", "team", [user |-> Leader, name |-> n])
    \/ \E n \in TeamNames : BeginTm(t, "rename_team", "find", [name |-> n])
    \/ BeginTm(t, "delete_team", "find", <<>>)
    \/ \E u \in Users, op \in {"add_to_team", "remove_from_team"} :
            BeginTm(t, op, "find", [user |-> u])

NewCards == LET free == {c \in Cards : ~cards[c].is /\ c \notin files
                            /\ \A o \in Tasks : call[o].op = "add_card" => Arg(o).card # c} IN
            IF free = {} THEN {} ELSE {CHOOSE c \in free : TRUE}

CardCalls(t) ==
    \/ \E c \in NewCards, k \in Columns :
            BeginTm(t, "add_card", "find", [card |-> c, column |-> k])
    \/ \E c \in Board :
        \/ \E k \in Columns, op \in {"edit_card", "move_card"} :
                BeginTm(t, op, "find", [card |-> c, column |-> k])
        \/ BeginTm(t, "delete_card", "find", [card |-> c])
        \/ \E op \in {"comment", "attach", "detach"} : BeginTm(t, op, "row", [card |-> c])

\* find_team_and_verify: the row is read, and with it the name.
FindTeam(t) ==
    /\ \E op \in {"rename_team", "delete_team", "add_to_team", "remove_from_team", "add_card",
                  "edit_card", "move_card", "delete_card"} : On(t, op, "find")
    /\ IF team = NoTeam THEN Finish(t)
       ELSE Learn(t, CASE call[t].op \in {"add_to_team", "rename_team", "edit_card"} -> "row"
                       [] call[t].op = "delete_team" -> "cards"
                       [] call[t].op = "remove_from_team"      -> "list"
                       [] call[t].op = "add_card"    -> "count"
                       [] OTHER                      -> "get",
                  team)
    /\ UNCHANGED tmVars

-----------------------------------------------------------------------------
(* The team and its members *)

InsertTeam(t) ==
    /\ On(t, "create_team", "team")
    /\ team' = Arg(t).name
    /\ Learn(t, "row", Arg(t).name)
    /\ UNCHANGED <<team_members, lists, cards, comments, files, tmHistory>>

TmAdds == {"create_team", "add_to_team"}

InsertTeamMember(t) ==
    /\ \E op \in TmAdds : On(t, op, "row")
    /\ team_members' = team_members \cup {Arg(t).user}
    /\ Goto(t, "list")
    /\ UNCHANGED <<team, lists, cards, comments, files, tmHistory>>

\* The name that was read with the team.
InsertList(t) ==
    /\ \E op \in TmAdds : On(t, op, "list")
    /\ lists' = [lists EXCEPT ![Arg(t).user] = Got(t)]
    /\ Finish(t)
    /\ UNCHANGED <<team, team_members, cards, comments, files, tmHistory>>

DeleteList(t) ==
    /\ On(t, "remove_from_team", "list")
    /\ lists' = [lists EXCEPT ![Arg(t).user] = NoTeam]
    /\ Goto(t, "row")
    /\ UNCHANGED <<team, team_members, cards, comments, files, tmHistory>>

DeleteTeamMember(t) ==
    /\ On(t, "remove_from_team", "row")
    /\ team_members' = team_members \ {Arg(t).user}
    /\ Finish(t)
    /\ UNCHANGED <<team, lists, cards, comments, files, tmHistory>>

\* Writes the row of a team that was deleted since it was found, too.
RenameTeam(t) ==
    /\ On(t, "rename_team", "row")
    /\ team' = Arg(t).name
    /\ Goto(t, "team_members")
    /\ UNCHANGED <<team_members, lists, cards, comments, files, tmHistory>>

ListPeople(t) ==
    /\ \E op \in {"rename_team", "delete_team"} : On(t, op, "team_members")
    /\ Learn(t, "lists", team_members)
    /\ UNCHANGED tmVars

\* Mutant of WriteLists: the copies are left.
WriteListsNot(t) ==
    /\ \E op \in {"rename_team", "delete_team"} : On(t, op, "lists")
    /\ IF call[t].op = "rename_team" THEN Finish(t) ELSE Goto(t, "clear")
    /\ UNCHANGED tmVars

\* An error of one copy is ignored.
WriteLists(t) ==
    /\ \E op \in {"rename_team", "delete_team"} : On(t, op, "lists")
    /\ \/ \E u \in Got(t) :
            /\ lists' = [lists EXCEPT
                    ![u] = IF call[t].op = "rename_team" THEN Arg(t).name ELSE NoTeam]
            /\ Learn(t, "lists", Got(t) \ {u})
       \/ /\ Got(t) = {} /\ UNCHANGED lists
          /\ IF call[t].op = "rename_team" THEN Finish(t) ELSE Goto(t, "clear")
    /\ UNCHANGED <<team, team_members, cards, comments, files, tmHistory>>

-----------------------------------------------------------------------------
(* delete_team: comments, tasks, members, then the team.  Attachments stay. *)

ListCards(t) ==
    /\ On(t, "delete_team", "cards")
    /\ Learn(t, "comments", Board)
    /\ UNCHANGED tmVars

DeleteComments(t) ==
    /\ On(t, "delete_team", "comments")
    /\ \/ \E c \in Got(t) : comments' = comments \ {c} /\ Learn(t, "comments", Got(t) \ {c})
       \/ Got(t) = {} /\ Goto(t, "board") /\ UNCHANGED comments
    /\ UNCHANGED <<team, team_members, lists, cards, files, tmHistory>>

DeleteBoard(t) ==
    /\ On(t, "delete_team", "board")
    /\ cards' = [c \in Cards |-> NoCard]
    /\ Goto(t, "team_members")
    /\ UNCHANGED <<team, team_members, lists, comments, files, tmHistory>>

ClearMembers(t) ==
    /\ On(t, "delete_team", "clear")
    /\ team_members' = {}
    /\ Goto(t, "team")
    /\ UNCHANGED <<team, lists, cards, comments, files, tmHistory>>

DeleteTeam(t) ==
    /\ On(t, "delete_team", "team")
    /\ team' = NoTeam
    /\ loose' = {}
    /\ Finish(t)
    /\ UNCHANGED <<team_members, lists, cards, comments, files, tmMessy, intruded>>

-----------------------------------------------------------------------------
(* Cards *)

\* count * 1000, in thousands
PlaceIn(k) == Cardinality(InColumn(k))

CountColumn(t) ==
    /\ On(t, "add_card", "count")
    /\ Learn(t, "row", PlaceIn(Arg(t).column))
    /\ UNCHANGED tmVars

GetCard(t) ==
    /\ \E op \in {"move_card", "delete_card"} : On(t, op, "get")
    /\ IF ~cards[Arg(t).card].is THEN Finish(t)
       ELSE Goto(t, IF call[t].op = "move_card" THEN "row" ELSE "comments")
    /\ UNCHANGED tmVars

\* update_task sets the status alone, move_task the place as well.
WriteCard(t) ==
    /\ \E op \in {"add_card", "edit_card", "move_card"} : On(t, op, "row")
    /\ LET c == Arg(t).card  k == Arg(t).column IN
        /\ \E place \in IF call[t].op = "add_card" THEN {Got(t)}
                        ELSE IF call[t].op = "edit_card" THEN {cards[c].place}
                        ELSE 0..Cardinality(Cards) :
            cards' = [cards EXCEPT ![c] = [is |-> TRUE, column |-> k, place |-> place]]
        /\ loose' = IF call[t].op = "add_card" THEN loose ELSE loose \cup {cards[c].column, k}
    /\ Finish(t)
    /\ UNCHANGED <<team, team_members, lists, comments, files, tmMessy, intruded>>

DeleteCardComments(t) ==
    /\ On(t, "delete_card", "comments")
    /\ comments' = comments \ {Arg(t).card}
    /\ Goto(t, "row")
    /\ UNCHANGED <<team, team_members, lists, cards, files, tmHistory>>

DeleteCard(t) ==
    /\ On(t, "delete_card", "row")
    /\ cards' = [cards EXCEPT ![Arg(t).card] = NoCard]
    /\ loose' = loose \cup {cards[Arg(t).card].column}
    /\ intruded' = (intruded \/ Arg(t).card \in comments)
    /\ Finish(t)
    /\ UNCHANGED <<team, team_members, lists, comments, files, tmMessy>>

\* Neither the team nor the card is read.
WriteOnCard(t) ==
    /\ \E op \in {"comment", "attach", "detach"} : On(t, op, "row")
    /\ comments' = IF call[t].op = "comment" THEN comments \cup {Arg(t).card} ELSE comments
    /\ files' = CASE call[t].op = "attach" -> files \cup {Arg(t).card}
                  [] call[t].op = "detach" -> files \ {Arg(t).card}
                  [] OTHER -> files
    /\ intruded' = (intruded \/ (call[t].op = "comment" /\ ~cards[Arg(t).card].is))
    /\ Finish(t)
    /\ UNCHANGED <<team, team_members, lists, cards, tmMessy, loose>>

DropTm(t) ==
    /\ Drop(t)
    /\ tmMessy' = tmMessy \cup TmWrites(call[t])
    /\ intruded' = (intruded \/ call[t].op = "delete_team")
    /\ UNCHANGED <<tmTables, loose>>

TeamsStep(t) ==
    \/ TeamCalls(t) \/ CardCalls(t) \/ FindTeam(t)
    \/ InsertTeam(t) \/ InsertTeamMember(t) \/ InsertList(t) \/ DeleteList(t) \/ DeleteTeamMember(t)
    \/ RenameTeam(t) \/ ListPeople(t) \/ WriteLists(t)
    \/ ListCards(t) \/ DeleteComments(t) \/ DeleteBoard(t) \/ ClearMembers(t) \/ DeleteTeam(t)
    \/ CountColumn(t) \/ GetCard(t) \/ WriteCard(t) \/ DeleteCardComments(t) \/ DeleteCard(t)
    \/ WriteOnCard(t) \/ DropTm(t)

-----------------------------------------------------------------------------
(* What a board shows. *)

\* The team is in the list of each of its members, under its name, and in no
\* other user's list: through additions, removals, renames and the deletion,
\* except where two calls wrote the same user's rows or one ended early.
TeamListsAgree ==
    \A u \in Users \ tmMessy :
        (\A t \in Tasks : u \notin TmWrites(call[t])) =>
            lists[u] = (IF u \in team_members THEN team ELSE NoTeam)

\* Nothing is left of a deleted team, except the attachments, when no other
\* call ran beside the deletion, it came to its end, and no comment came on a
\* card whose comments were deleted before.
NothingLeft ==
    team = NoTeam /\ ~intruded /\ (\A t \in Tasks : ~Running(t)) =>
        team_members = {} /\ Board = {} /\ comments = {}

\* Two cards of a column have the same place only after a card has left it or
\* was put there by hand, or when two were added at once, or beside
\* the deletion of the team.
PlacesApart ==
    ~intruded => \A k \in Columns \ loose : \A c, d \in InColumn(k) :
        c # d => cards[c].place # cards[d].place

\* A board belongs to its members and has room for each card (add_member,
\* remove_member, delete_team, create_task, move_task).
BoardHolds == TeamListsAgree /\ NothingLeft /\ PlacesApart
=============================================================================
