------------------------------ MODULE Channels ------------------------------
(***************************************************************************)
(* The channels and direct messages of one workspace.  A member of a       *)
(* channel has a row in `channel_members`, which the permission checks     *)
(* read, and one in `user_channels`, which is the sidebar: it holds the    *)
(* count of unread messages, and its key holds the time of the last        *)
(* message, so to change it is to delete the row and insert another.       *)
(*                                                                         *)
(* Messages, notes and canvases are pages of a channel.  An UPDATE of a    *)
(* page, a channel or a member that is not there writes a row with only    *)
(* the columns it names ("bare"); the lists of channels, members, messages *)
(* and notes skip such a row, that of canvases does not.                   *)
(***************************************************************************)
EXTENDS Tasks, Sequences, SequencesExt

CONSTANTS
    Rooms,          \* ids of channels
    Pages,          \* ids of pages
    KindOf          \* message, note or canvas

\* Ids are uuids, and a workspace has the users who joined it.
ASSUME ChannelsAssumption ==
    /\ KindOf \in [Pages -> {"message", "note", "canvas"}]
    /\ Rooms # {} /\ Rooms \cap Pages = {} /\ "none" \notin Rooms
    /\ IsFiniteSet(Users)

VARIABLES
    rooms,          \* the row of each channel: its type
    channel_members, \* the row of each user in each channel
    sidebar,        \* user_channels: a set of rows
    pages,          \* the row of each page and its channel
    clock,          \* the time, in calls that took it
    due,            \* history: messages of others since a user joined or read
    chMessy,        \* history: <<room, user>> whose rows two tasks wrote at
                    \* once, a dropped task left, or a second add doubled
    deleted,        \* history: channels and pages that were deleted
    rivals          \* history: two tasks looked for a direct message at once, one of
                    \* them ended early, or somebody was added or removed

chTables  == <<rooms, channel_members, sidebar, pages, clock>>
chHistory == <<due, chMessy, deleted, rivals>>
chVars    == <<chTables, chHistory>>

Places == Rooms \X Users
NoPage == [room |-> "none", is |-> "none"]

Whole(r)   == {u \in Users : channel_members[r][u] = "whole"}
IsMember(r, u) == channel_members[r][u] # "none"
RowsOf(r, u) == {row \in sidebar : row.room = r /\ row.user = u}
Newest(rows) == CHOOSE row \in rows : \A other \in rows : other.at <= row.at

\* The rows of channels all of whose members have read what there is.
ReadUp(made) == {[room |-> r, user |-> u, at |-> 0, unread |-> 0] : r \in made, u \in Users}

\* A workspace with no channel yet, or with one of all its members, who have
\* read the page that is in it.
ChannelsInit ==
    /\ \E made \in {{}, {CHOOSE r \in Rooms : TRUE}} :
        /\ rooms = [r \in Rooms |-> IF r \in made THEN "public" ELSE "none"]
        /\ channel_members =
                [r \in Rooms |-> [u \in Users |-> IF r \in made THEN "whole" ELSE "none"]]
        /\ sidebar = ReadUp(made)
        /\ \E old \in Pages : pages = [p \in Pages |->
                IF p = old /\ made # {} THEN [room |-> CHOOSE r \in made : TRUE, is |-> "whole"]
                ELSE NoPage]
    /\ clock = 1
    /\ due = [pl \in Places |-> 0]
    /\ chMessy = {} /\ deleted = {} /\ rivals = FALSE

\* The places whose rows a call writes.
ChWrites(op, arg) ==
    CASE op \in {"create_channel", "dm"}   -> {arg.room} \X Users
      [] op = "send"                      -> {arg.room} \X (Users \ {arg.by})
      [] op \in {"read", "join", "leave"} -> {<<arg.room, arg.user>>}
      [] OTHER                            -> {}

BeginCh(t, op, at, arg) ==
    /\ Begin(t, op, at, arg)
    /\ chMessy' = chMessy
        \cup (ChWrites(op, arg) \cap UNION {ChWrites(call[o].op, Arg(o)) : o \in Others(t)})
        \cup (IF op = "join" /\ IsMember(arg.room, arg.user) THEN ChWrites(op, arg) ELSE {})
    /\ rivals' = \/ rivals
                  \/ (op = "dm" /\ \E o \in Others(t) : call[o].op = "dm")
                  \/ (op \in {"join", "leave"} /\ rooms[arg.room] = "dm")
    /\ UNCHANGED <<chTables, due, deleted>>

-----------------------------------------------------------------------------
(* Calls begin.  A new channel or page takes an id nobody has.  The roles   *)
(* that let an admin remove a member or a channel do not change here.      *)

Unused(r) == rooms[r] = "none" /\ r \notin deleted /\ \A t \in Tasks :
                call[t].op \in {"create_channel", "dm"} => Arg(t).room # r
FreshRoom == LET free == {r \in Rooms : Unused(r)} IN
             IF free = {} THEN {} ELSE {CHOOSE r \in free : TRUE}
\* The channels some screen still shows.
Known == {r \in Rooms : rooms[r] # "none" \/ r \in deleted}

FreshPage(kind) == {p \in Pages : KindOf[p] = kind /\ pages[p] = NoPage /\ p \notin deleted
                        /\ \A t \in Tasks : call[t].op \in {"send", "write"} => Arg(t).page # p}

RoomCalls(t) ==
    \/ \E r \in FreshRoom, u \in Users, kind \in {"public", "private"} :
            BeginCh(t, "create_channel", "row", [room |-> r, by |-> u, kind |-> kind])
    \/ \E r \in FreshRoom, u, v \in Users :
            u # v /\ BeginCh(t, "dm", "find", [room |-> r, by |-> u, with |-> v, kind |-> "dm"])
    \/ \E r \in Known, u \in Users :
            \/ BeginCh(t, "join", "list", [room |-> r, user |-> u])
            \/ BeginCh(t, "leave", "list", [room |-> r, user |-> u])
            \/ BeginCh(t, "read", "mark", [room |-> r, user |-> u])
            \/ BeginCh(t, "rename", "check", [room |-> r, by |-> u])
    \/ \E r \in Known : BeginCh(t, "delete", "list", [room |-> r])

PageCalls(t) ==
    \E r \in Known, u \in Users :
        \/ \E p \in FreshPage("message") :
                BeginCh(t, "send", "check", [room |-> r, by |-> u, page |-> p])
        \/ \E p \in FreshPage("note") \cup FreshPage("canvas") :
                BeginCh(t, "write", "check", [room |-> r, by |-> u, page |-> p])
        \/ \E p \in {q \in Pages : pages[q].room = r}, op \in {"edit", "erase"} :
                BeginCh(t, op, "check", [room |-> r, by |-> u, page |-> p])

\* is_member, which takes a bare row for a member.
CheckChannelMember(t) ==
    /\ \E op \in {"send", "write", "edit", "erase", "rename"} : On(t, op, "check")
    /\ IF IsMember(Arg(t).room, Arg(t).by)
       THEN Goto(t, IF call[t].op = "rename" THEN "list" ELSE "page")
       ELSE Finish(t)
    /\ UNCHANGED chVars

\* The workspace of a channel is that of its first member.
FindWorkspace(t) ==
    /\ \E op \in {"join", "leave", "rename", "delete"} : On(t, op, "list")
    /\ IF Whole(Arg(t).room) = {} THEN Finish(t)
       ELSE CASE call[t].op = "join"    -> Learn(t, "member", [todo |-> <<Arg(t).user>>, at |-> 0])
              [] call[t].op = "leave" -> Goto(t, "rows")
              [] OTHER                 -> Goto(t, "row")
    /\ UNCHANGED chVars

-----------------------------------------------------------------------------
(* create_channel, find_or_create_dm, and add_member that both call *)

\* A direct message of exactly the two.
DmOf(u, v) == {r \in Rooms : rooms[r] = "dm" /\ Whole(r) = {u, v}}

FindDm(t) ==
    /\ On(t, "dm", "find")
    /\ IF DmOf(Arg(t).by, Arg(t).with) # {} THEN Finish(t) ELSE Goto(t, "row")
    /\ UNCHANGED chVars

\* The creator is added first, then all of the workspace when it is public.
ToAdd(arg) ==
    CASE arg.kind = "public"  -> <<arg.by>> \o SetToSeq(Users \ {arg.by})
      [] arg.kind = "private" -> <<arg.by>>
      [] OTHER                -> <<arg.by, arg.with>>

InsertChannel(t) ==
    /\ \E op \in {"create_channel", "dm"} : On(t, op, "row")
    /\ rooms' = [rooms EXCEPT ![Arg(t).room] = Arg(t).kind]
    /\ Learn(t, "member", [todo |-> ToAdd(Arg(t)), at |-> 0])
    /\ UNCHANGED <<channel_members, sidebar, pages, clock, chHistory>>

ChAdds == {"create_channel", "dm", "join"}

InsertChannelMember(t) ==
    /\ \E op \in ChAdds : On(t, op, "member")
    /\ LET r == Arg(t).room  u == Head(Got(t).todo) IN
        /\ channel_members' = [channel_members EXCEPT ![r][u] = "whole"]
        /\ due' = [due EXCEPT ![<<r, u>>] = 0]
    /\ clock' = clock + 1
    /\ Learn(t, "name", [Got(t) EXCEPT !.at = clock])
    /\ UNCHANGED <<rooms, sidebar, pages, chMessy, deleted, rivals>>

AfterAdd(t) ==
    IF Len(Got(t).todo) = 1 THEN Finish(t)
    ELSE Learn(t, "member", [Got(t) EXCEPT !.todo = Tail(@)])

\* A channel without a name and a type has no place in the sidebar.
ReadChannelName(t) ==
    /\ \E op \in ChAdds : On(t, op, "name")
    /\ IF rooms[Arg(t).room] \in {"none", "bare"} THEN AfterAdd(t) ELSE Goto(t, "box")
    /\ UNCHANGED chVars

InsertBox(t) ==
    /\ \E op \in ChAdds : On(t, op, "box")
    /\ sidebar' = sidebar \cup {[room |-> Arg(t).room, user |-> Head(Got(t).todo),
                                 at |-> Got(t).at, unread |-> 0]}
    /\ AfterAdd(t)
    /\ UNCHANGED <<rooms, channel_members, pages, clock, chHistory>>

-----------------------------------------------------------------------------
(* send_message: the message, then the row of every other member *)

InsertMessage(t) ==
    /\ On(t, "send", "page")
    /\ pages' = [pages EXCEPT ![Arg(t).page] = [room |-> Arg(t).room, is |-> "whole"]]
    /\ clock' = clock + 1
    /\ Learn(t, "list", clock)
    /\ UNCHANGED <<rooms, channel_members, sidebar, chHistory>>

ListMembers(t) ==
    /\ On(t, "send", "list")
    /\ LET r == Arg(t).room
           others == Whole(r) \ {Arg(t).by} IN
        /\ due' = [pl \in Places |-> IF pl \in {r} \X others THEN due[pl] + 1 ELSE due[pl]]
        /\ IF others = {} THEN Finish(t)
           ELSE Learn(t, "peek", [todo |-> SetToSeq(others), at |-> Got(t)])
    /\ UNCHANGED <<chTables, chMessy, deleted, rivals>>

AfterBump(t) ==
    IF Len(Got(t).todo) = 1 THEN Finish(t)
    ELSE Learn(t, "peek", [todo |-> Tail(Got(t).todo), at |-> Got(t).at])

\* Whoever has no row in the sidebar is not counted for.
PeekBox(t) ==
    /\ On(t, "send", "peek")
    /\ LET rows == RowsOf(Arg(t).room, Head(Got(t).todo)) IN
        IF rows = {} THEN AfterBump(t)
        ELSE Learn(t, "unbox", [todo |-> Got(t).todo, at |-> Got(t).at, old |-> Newest(rows)])
    /\ UNCHANGED chVars

\* Mutant of DeleteOld: the row is inserted again and the old one left.
DeleteOldNot(t) ==
    /\ On(t, "send", "unbox")
    /\ Goto(t, "box")
    /\ UNCHANGED chVars

DeleteOld(t) ==
    /\ On(t, "send", "unbox")
    /\ LET rows == RowsOf(Arg(t).room, Head(Got(t).todo)) IN
        sidebar' = sidebar \ {row \in rows : row.at = Got(t).old.at}
    /\ Goto(t, "box")
    /\ UNCHANGED <<rooms, channel_members, pages, clock, chHistory>>

\* The count that was read, plus one.
InsertBumped(t) ==
    /\ On(t, "send", "box")
    /\ sidebar' = sidebar \cup {[Got(t).old EXCEPT !.at = Got(t).at, !.unread = @ + 1]}
    /\ AfterBump(t)
    /\ UNCHANGED <<rooms, channel_members, pages, clock, chHistory>>

-----------------------------------------------------------------------------
(* mark_read and remove_member: the rows of one user are read, then deleted *)

\* There is no check that the user is a member.
MarkMember(t) ==
    /\ On(t, "read", "mark")
    /\ LET r == Arg(t).room  u == Arg(t).user IN
        channel_members' = [channel_members EXCEPT ![r][u] = IF @ = "none" THEN "bare" ELSE @]
    /\ clock' = clock + 1
    /\ Learn(t, "who", [at |-> clock, rows |-> {}])
    /\ UNCHANGED <<rooms, sidebar, pages, chHistory>>

FindReader(t) ==
    /\ On(t, "read", "who")
    /\ IF Arg(t).user \in Whole(Arg(t).room) THEN Goto(t, "rows") ELSE Finish(t)
    /\ UNCHANGED chVars

\* delete_user_channel
ReadBoxes(t) ==
    /\ \E op \in {"read", "leave"} : On(t, op, "rows")
    /\ Learn(t, "unbox", [at |-> IF call[t].op = "read" THEN Got(t).at ELSE 0,
                          rows |-> RowsOf(Arg(t).room, Arg(t).user)])
    /\ UNCHANGED chVars

DeleteBoxes(t) ==
    /\ \E op \in {"read", "leave"} : On(t, op, "unbox")
    /\ \/ \E row \in Got(t).rows :
            /\ sidebar' = sidebar \ {x \in RowsOf(row.room, row.user) : x.at = row.at}
            /\ Learn(t, "unbox", [Got(t) EXCEPT !.rows = @ \ {row}])
       \/ Got(t).rows = {} /\ Goto(t, "last") /\ UNCHANGED sidebar
    /\ UNCHANGED <<rooms, channel_members, pages, clock, chHistory>>

InsertRead(t) ==
    /\ On(t, "read", "last")
    /\ sidebar' = sidebar \cup {[room |-> Arg(t).room, user |-> Arg(t).user,
                                 at |-> Got(t).at, unread |-> 0]}
    /\ due' = [due EXCEPT ![<<Arg(t).room, Arg(t).user>>] = 0]
    /\ Finish(t)
    /\ UNCHANGED <<rooms, channel_members, pages, clock, chMessy, deleted, rivals>>

DeleteChannelMember(t) ==
    /\ On(t, "leave", "last")
    /\ channel_members' = [channel_members EXCEPT ![Arg(t).room][Arg(t).user] = "none"]
    /\ Finish(t)
    /\ UNCHANGED <<rooms, sidebar, pages, clock, chHistory>>

-----------------------------------------------------------------------------
(* The channel's own row, and its pages *)

UpdateRoom(t) ==
    /\ On(t, "rename", "row")
    /\ rooms' = [rooms EXCEPT ![Arg(t).room] = IF @ = "none" THEN "bare" ELSE @]
    /\ Finish(t)
    /\ UNCHANGED <<channel_members, sidebar, pages, clock, chHistory>>

\* Members, sidebar and messages are left.
DeleteRoom(t) ==
    /\ On(t, "delete", "row")
    /\ rooms' = [rooms EXCEPT ![Arg(t).room] = "none"]
    /\ deleted' = deleted \cup {Arg(t).room}
    /\ Finish(t)
    /\ UNCHANGED <<channel_members, sidebar, pages, clock, due, chMessy, rivals>>

WritePage(t) ==
    /\ \E op \in {"write", "edit", "erase"} : On(t, op, "page")
    /\ LET op == call[t].op  p == Arg(t).page IN
        /\ pages' = [pages EXCEPT ![p].room = Arg(t).room,
                        ![p].is = CASE op = "write" -> "whole"
                                    [] op = "erase" -> "none"
                                    [] OTHER -> IF @ = "none" THEN "bare" ELSE @]
        /\ deleted' = IF op = "erase" THEN deleted \cup {p} ELSE deleted
    /\ Finish(t)
    /\ UNCHANGED <<rooms, channel_members, sidebar, clock, due, chMessy, rivals>>

DropCh(t) ==
    /\ Drop(t)
    /\ chMessy' = chMessy \cup ChWrites(call[t].op, Arg(t))
    /\ rivals' = (rivals \/ call[t].op = "dm")
    /\ UNCHANGED <<chTables, due, deleted>>

ChannelsStep(t) ==
    \/ RoomCalls(t) \/ PageCalls(t) \/ CheckChannelMember(t) \/ FindWorkspace(t)
    \/ FindDm(t) \/ InsertChannel(t) \/ InsertChannelMember(t) \/ ReadChannelName(t) \/ InsertBox(t)
    \/ InsertMessage(t) \/ ListMembers(t) \/ PeekBox(t) \/ DeleteOld(t) \/ InsertBumped(t)
    \/ MarkMember(t) \/ FindReader(t) \/ ReadBoxes(t) \/ DeleteBoxes(t) \/ InsertRead(t)
    \/ DeleteChannelMember(t) \/ UpdateRoom(t) \/ DeleteRoom(t) \/ WritePage(t)
    \/ DropCh(t)

-----------------------------------------------------------------------------
(* What a user sees. *)

Quiet(pl) == \A t \in Tasks : pl \notin ChWrites(call[t].op, Arg(t))

\* The sidebar and the members agree: who is in a channel has one row for it
\* with as many unread messages as others have sent since the user joined or
\* read, and who is not has none.  Excepted are the rows that two calls wrote
\* at once, that a call left when it ended early, or that were added twice,
\* and the channels that were deleted.
SidebarCounts ==
    \A r \in Rooms, u \in Users :
        <<r, u>> \notin chMessy /\ Quiet(<<r, u>>) /\ r \notin deleted =>
            {row.unread : row \in RowsOf(r, u)} = (IF u \in Whole(r) THEN {due[<<r, u>>]} ELSE {})
            /\ Cardinality(RowsOf(r, u)) <= 1

\* Two users have one direct message, whoever of them opens it, unless both
\* looked for it at once, a call that made one ended early, or somebody was
\* added to it or removed from it.
OneDmEach ==
    ~rivals => \A u, v \in Users : Cardinality(DmOf(u, v)) <= 1

\* Mutant of Shown: the list of notes reads missing columns as empty.
ShownAnyway(p) == pages[p].is # "none"

\* The lists of messages and notes skip a row without an author.
Shown(p) == pages[p].is = "whole" \/ (KindOf[p] = "canvas" /\ pages[p].is # "none")

\* A message or a note that was deleted is not listed again, even when an
\* edit that was on its way writes its row anew.
DeletedIsGone ==
    \A p \in deleted \cap Pages : KindOf[p] # "canvas" => ~Shown(p)

\* The lists show one direct message a pair, and nothing that was deleted
\* (find_or_create_dm, delete_message, edit_message).
ListsAreClean == OneDmEach /\ DeletedIsGone
=============================================================================
