------------------------------ MODULE Meetings ------------------------------
(***************************************************************************)
(* One meeting and its guests.  The meeting is kept twice: in `meetings`,  *)
(* which the dashboard reads, and in `meetings_by_code`, which guests read.*)
(* Handlers write the two with unconditional statements, one after the     *)
(* other, on what they read earlier.                                       *)
(*                                                                         *)
(* An UPDATE of a deleted row writes a row again, without the columns the  *)
(* statement does not name: it has no host, no code, no room and no        *)
(* workspace_member_count ("whole" is FALSE).                              *)
(***************************************************************************)
EXTENDS Tasks

CONSTANTS
    Guests,         \* participant ids given to guests
    RateLimit       \* RATE_LIMIT_PER_HOUR

VARIABLES
    meeting,        \* the row of meetings
    door,           \* the row of meetings_by_code
    made,           \* has the meeting been created? (its id is new)
    seat,           \* join_status of each guest in meeting_participants
    inside,         \* users with an approved row in meeting_participants
    chat,           \* are there rows in meeting_messages?
    rate,           \* the owner's meetings of this hour
    mustKnock,      \* history: was it created for guests who knock?
    letIn,          \* history: guests the host has approved
    admitted,       \* history: guests handed a token for the room
    over,           \* history: the meeting was ended, or deleted, alone
    entered         \* history: was a token handed out after that?

mtgHistory == <<mustKnock, letIn, admitted, over, entered>>
mtgTables  == <<meeting, door, made, seat, inside, chat, rate>>
mtgVars    == <<mtgTables, mtgHistory>>

Account == {"host", "member"}
Gone  == [status |-> "none", whole |-> FALSE]
Shut  == [status |-> "none", whole |-> FALSE, knocks |-> FALSE]

MeetingsInit ==
    /\ meeting = Gone /\ door = Shut /\ made = FALSE
    /\ seat = [g \in Guests |-> "none"] /\ inside = {} /\ chat = FALSE
    /\ rate \in {0, RateLimit}
    /\ mustKnock = FALSE /\ letIn = {} /\ admitted = {} /\ over = FALSE /\ entered = FALSE

\* An UPDATE of the status: it revives a row that was deleted.
SetMeeting(status) == meeting' = [meeting EXCEPT !.status = status]
SetDoor(status)    == door' = [door EXCEPT !.status = status]

\* A token for the room of a row: a row without a room opens no room.
Admit(g) ==
    /\ admitted' = admitted \cup {g}
    /\ entered' = (entered \/ over)
    /\ UNCHANGED <<mustKnock, letIn, over>>

\* End or delete has written its last row.
Close(t) ==
    /\ over' = (over \/ ~crowded)
    /\ UNCHANGED <<mustKnock, letIn, admitted, entered>>

-----------------------------------------------------------------------------
(* create, of the dashboard and of the create_meeting tool.  The tool      *)
(* chooses the mode from the number of members, and adds no participant.   *)

BeginCreate(t, by, now, knocks) ==
    /\ ~made /\ made' = TRUE
    /\ mustKnock' = knocks
    /\ Begin(t, "create_meeting", "rate", [by |-> by, now |-> now, knocks |-> knocks])
    /\ UNCHANGED <<meeting, door, seat, inside, chat, rate, letIn, admitted, over, entered>>

CreateMeeting(t) ==
    \E mode \in {"workspace", "personal"}, members \in 1..2, now \in BOOLEAN :
        BeginCreate(t, "user", now, mode = "workspace" /\ members > 1)

ToolCreatesMeeting(t) ==
    \E members \in 1..2, now \in BOOLEAN : BeginCreate(t, "tool", now, members > 1)

ReadRate(t) ==
    /\ On(t, "create_meeting", "rate")
    /\ IF rate >= RateLimit THEN Finish(t) ELSE Goto(t, "count")
    /\ UNCHANGED mtgVars

CountMeeting(t) ==
    /\ On(t, "create_meeting", "count")
    /\ rate' = rate + 1
    /\ Goto(t, "insert")
    /\ UNCHANGED <<meeting, door, made, seat, inside, chat, mtgHistory>>

InsertMeeting(t) ==
    /\ On(t, "create_meeting", "insert")
    /\ meeting' = [status |-> IF Arg(t).now THEN "active" ELSE "scheduled", whole |-> TRUE]
    /\ Goto(t, "door")
    /\ UNCHANGED <<door, made, seat, inside, chat, rate, mtgHistory>>

InsertDoor(t) ==
    /\ On(t, "create_meeting", "door")
    /\ door' = [status |-> IF Arg(t).now THEN "active" ELSE "scheduled",
                whole |-> TRUE, knocks |-> Arg(t).knocks]
    /\ IF Arg(t).by = "tool" THEN Finish(t) ELSE Goto(t, "host")
    /\ UNCHANGED <<meeting, made, seat, inside, chat, rate, mtgHistory>>

SeatHost(t) ==
    /\ On(t, "create_meeting", "host")
    /\ inside' = inside \cup {"host"}
    /\ Finish(t)
    /\ UNCHANGED <<meeting, door, made, seat, chat, rate, mtgHistory>>

-----------------------------------------------------------------------------
(* The host's handlers read the row first and compare the host. *)

Ensured == {"end", "delete", "approve", "deny"}

HostCalls(t) ==
    /\ \/ \E op \in {"end", "delete"} : Begin(t, op, "ensure", "host")
       \/ \E op \in {"approve", "deny"}, g \in Guests :
            seat[g] # "none" /\ Begin(t, op, "ensure", g)
    /\ UNCHANGED mtgVars

EnsureHost(t) ==
    /\ \E op \in Ensured :
        /\ On(t, op, "ensure")
        /\ IF \/ meeting.status = "none" \/ ~meeting.whole
              \/ op = "delete" /\ meeting.status = "active"
           THEN Finish(t)
           ELSE Goto(t, IF op \in {"approve", "deny"} THEN "seat" ELSE "get")
    /\ UNCHANGED mtgVars

\* end_meeting and delete_meeting read the row again, for its code.
ReadCode(t) ==
    /\ \E op \in {"end", "delete"} : On(t, op, "get")
    /\ IF meeting.status = "none" THEN Finish(t) ELSE Learn(t, "row", meeting.whole)
    /\ UNCHANGED mtgVars

\* A row without a code: the second statement has no key and fails.
EndMeeting(t) ==
    /\ On(t, "end", "row")
    /\ SetMeeting("ended")
    /\ IF Got(t) THEN Goto(t, "door") ELSE Finish(t)
    /\ UNCHANGED <<door, made, seat, inside, chat, rate, mtgHistory>>

EndDoor(t) ==
    /\ On(t, "end", "door")
    /\ SetDoor("ended")
    /\ Close(t) /\ Finish(t)
    /\ UNCHANGED <<meeting, made, seat, inside, chat, rate>>

DeleteMeeting(t) ==
    /\ On(t, "delete", "row")
    /\ meeting' = Gone
    /\ IF Got(t) THEN Goto(t, "door") ELSE Finish(t)
    /\ UNCHANGED <<door, made, seat, inside, chat, rate, mtgHistory>>

DeleteDoor(t) ==
    /\ On(t, "delete", "door")
    /\ door' = Shut
    /\ Goto(t, "people")
    /\ UNCHANGED <<meeting, made, seat, inside, chat, rate, mtgHistory>>

DeletePeople(t) ==
    /\ On(t, "delete", "people")
    /\ seat' = [g \in Guests |-> "none"] /\ inside' = {}
    /\ Goto(t, "chat")
    /\ UNCHANGED <<meeting, door, made, chat, rate, mtgHistory>>

DeleteChat(t) ==
    /\ On(t, "delete", "chat")
    /\ chat' = FALSE
    /\ Close(t) /\ Finish(t)
    /\ UNCHANGED <<meeting, door, made, seat, inside, rate>>

\* approve_guest and deny_guest: an UPDATE, whatever the row holds.
SeatGuest(t) ==
    /\ \E op \in {"approve", "deny"} :
        /\ On(t, op, "seat")
        /\ seat' = [seat EXCEPT ![Arg(t)] = IF op = "approve" THEN "approved" ELSE "denied"]
        /\ letIn' = IF op = "approve" THEN letIn \cup {Arg(t)} ELSE letIn
    /\ Finish(t)
    /\ UNCHANGED <<meeting, door, made, inside, chat, rate, mustKnock, admitted, over, entered>>

-----------------------------------------------------------------------------
(* A user of the workspace joins, or writes in the chat. *)

UserCalls(t) ==
    /\ \E op \in {"join", "send_chat"}, u \in Account : Begin(t, op, "get", u)
    /\ UNCHANGED mtgVars

JoinReads(t) ==
    /\ On(t, "join", "get")
    /\ CASE meeting.status \in {"none", "ended"} -> Finish(t)
         [] meeting.status = "scheduled"         -> Goto(t, "activate")
         [] OTHER                                -> Goto(t, "seat")
    /\ UNCHANGED mtgVars

MarkActive(t) ==
    /\ On(t, "join", "activate")
    /\ SetMeeting("active")
    /\ Goto(t, "door")
    /\ UNCHANGED <<door, made, seat, inside, chat, rate, mtgHistory>>

MarkDoorActive(t) ==
    /\ On(t, "join", "door")
    /\ SetDoor("active")
    /\ Goto(t, "seat")
    /\ UNCHANGED <<meeting, made, seat, inside, chat, rate, mtgHistory>>

\* The participant's row, then the token.
SeatUser(t) ==
    /\ On(t, "join", "seat")
    /\ inside' = inside \cup {Arg(t)}
    /\ entered' = (entered \/ over)
    /\ Finish(t)
    /\ UNCHANGED <<meeting, door, made, seat, chat, rate, mustKnock, letIn, admitted, over>>

ChatReads(t) ==
    /\ On(t, "send_chat", "get")
    /\ IF meeting.status = "none" THEN Finish(t) ELSE Goto(t, "insert")
    /\ UNCHANGED mtgVars

\* The row, then an event to each approved user.
InsertChat(t) ==
    /\ On(t, "send_chat", "insert")
    /\ chat' = TRUE
    /\ Finish(t)
    /\ UNCHANGED <<meeting, door, made, seat, inside, rate, mtgHistory>>

-----------------------------------------------------------------------------
(* The guest's two calls, by the code. *)

GuestCalls(t) ==
    /\ \E g \in Guests :
        \/ /\ seat[g] = "none" /\ g \notin letIn \cup admitted
           /\ \A u \in Tasks : call[u].op = "guest_join" => Arg(u) # g
           /\ Begin(t, "guest_join", "lookup", g)
        \/ seat[g] # "none" /\ Begin(t, "guest_status", "lookup", g)
    /\ UNCHANGED mtgVars

\* lookup_by_code; the id and the room of a row that is not whole are empty,
\* and no such participant exists.
GuestLooksUp(t) ==
    /\ \E op \in {"guest_join", "guest_status"} : On(t, op, "lookup")
    /\ IF door.status \in {"none", "ended"} \/ ~door.whole
       THEN Finish(t)
       ELSE Learn(t, "seat", door.knocks)
    /\ UNCHANGED mtgVars

GuestJoins(t) ==
    /\ On(t, "guest_join", "seat")
    /\ seat' = [seat EXCEPT ![Arg(t)] = IF Got(t) THEN "pending" ELSE "approved"]
    /\ IF Got(t) THEN UNCHANGED mtgHistory ELSE Admit(Arg(t))
    /\ Finish(t)
    /\ UNCHANGED <<meeting, door, made, inside, chat, rate>>

\* Mutant of GuestAsks: a guest who is not denied is let in.
GuestAsksAgain(t) ==
    /\ On(t, "guest_status", "seat")
    /\ IF seat[Arg(t)] \in {"pending", "approved"} THEN Admit(Arg(t)) ELSE UNCHANGED mtgHistory
    /\ Finish(t)
    /\ UNCHANGED mtgTables

GuestAsks(t) ==
    /\ On(t, "guest_status", "seat")
    /\ IF seat[Arg(t)] = "approved" THEN Admit(Arg(t)) ELSE UNCHANGED mtgHistory
    /\ Finish(t)
    /\ UNCHANGED mtgTables

MeetingsStep(t) ==
    \/ CreateMeeting(t) \/ ToolCreatesMeeting(t) \/ ReadRate(t) \/ CountMeeting(t)
    \/ InsertMeeting(t) \/ InsertDoor(t) \/ SeatHost(t)
    \/ HostCalls(t) \/ EnsureHost(t) \/ ReadCode(t)
    \/ EndMeeting(t) \/ EndDoor(t)
    \/ DeleteMeeting(t) \/ DeleteDoor(t) \/ DeletePeople(t) \/ DeleteChat(t)
    \/ SeatGuest(t)
    \/ UserCalls(t) \/ JoinReads(t) \/ MarkActive(t) \/ MarkDoorActive(t) \/ SeatUser(t)
    \/ ChatReads(t) \/ InsertChat(t)
    \/ GuestCalls(t) \/ GuestLooksUp(t) \/ GuestJoins(t) \/ GuestAsks(t)

-----------------------------------------------------------------------------
(* What a meeting promises. *)

\* Where the code says that guests knock, a guest holds a token for the room
\* only after the host has approved that guest: whatever the order of joins,
\* approvals and status polls, and after rows were deleted and written again.
GuestsKnock ==
    mustKnock => admitted \subseteq letIn

\* Once the host has ended or deleted a meeting and nobody else was at work on
\* it, no later call opens it again in either table or hands out a token.
OverIsOver ==
    over => /\ meeting.status \in {"none", "ended"}
            /\ door.status \in {"none", "ended"}
            /\ ~entered

\* Guests enter with the host's leave, and never after the end (create,
\* approve_guest, guest_join, end and delete_meeting, mark_active).
DoorHolds == GuestsKnock /\ OverIsOver
=============================================================================
