----------------------------- MODULE Office_proofs -----------------------------
(***************************************************************************)
(* Proofs about meetings, appointments, shares, the public payment form    *)
(* and integrations, each on its own, for any number of tasks, calls and   *)
(* dropped futures.                                                        *)
(*                                                                         *)
(* A handler reads in one await and writes in another, so what has to be   *)
(* carried along is what a task still knows while others run: each         *)
(* invariant is one about the tables and one about every task.  Where a    *)
(* promise is made only for calls that do not overlap, the invariant says  *)
(* that a task which is not in a crowd is alone (Alone), and any step of   *)
(* one task makes a crowd of whoever else runs (Acts).                     *)
(***************************************************************************)
EXTENDS Tasks_proofs, Meetings, Appointments, Sharing, CardForm, Integrations, FiniteSetTheorems, SequenceTheorems, TLAPS

USE TasksAssumption

-----------------------------------------------------------------------------
(* Meetings: guests, and the end of a meeting. *)

\* The component on its own, however many calls there are.
DoorNext == \E t \in Tasks : MeetingsStep(t) \/ (Drop(t) /\ UNCHANGED mtgVars)
DoorSpec == MeetingsInit /\ TasksInit(Budgets) /\ [][DoorNext]_<<tasking, mtgVars>>

\* Rows have their columns.
Rows ==
    /\ meeting = [status |-> meeting.status, whole |-> meeting.whole]
    /\ door = [status |-> door.status, whole |-> door.whole, knocks |-> door.knocks]
    /\ seat = [g \in Guests |-> seat[g]]

\* Before the meeting is created there is nothing of it.
Unmade ==
    ~ made => /\ meeting.status = "none" /\ door.status = "none" /\ door.whole = FALSE
              /\ admitted = {} /\ \A g \in Guests : seat[g] = "none"

\* The row guests read says whether they knock, and a seat is approved by the
\* host where they do.
Knocking ==
    /\ door.whole = TRUE => door.knocks = mustKnock
    /\ mustKnock = TRUE => \A g \in Guests : seat[g] = "approved" => g \in letIn

\* What is over was made, and nobody has entered since.
Ended == (over => made) /\ ~ entered

Doors == Rows /\ Unmade /\ Knocking /\ Ended /\ GuestsKnock /\ OverIsOver

\* What a task knows and may still do: nothing that was read before the end is
\* left when it is over.
Knows(t) ==
    LET c == call[t] IN
    /\ c.op = "create_meeting" => made /\ ~ over /\ c.arg.knocks = mustKnock
    /\ c.op \in {"end", "delete"} /\ c.at # "ensure" => made
    /\ c.op \in {"approve", "deny"} => made
    /\ c.op = "join" /\ c.at # "get" => made /\ ~ over
    /\ c.op \in {"guest_join", "guest_status"} =>
        c.arg \in Guests /\ (c.at = "seat" => made /\ ~ over)
    /\ c.op = "guest_join" /\ c.at = "seat" => c.got = mustKnock

\* Where a host that works alone has brought the two rows.
Closing(t) ==
    ~ crowded =>
        /\ On(t, "end", "door") => meeting.status = "ended"
        /\ call[t].op = "delete" /\ call[t].at \in {"door", "people", "chat"} => meeting.status = "none"
        /\ call[t].op = "delete" /\ call[t].at \in {"people", "chat"} => door.status = "none"

DoorInv == Shaped /\ Alone /\ Doors /\ \A t \in Tasks : Knows(t) /\ Closing(t)

\* The others know what they knew, unless the meeting is created or closed.
LEMMA OthersKnow ==
    ASSUME DoorInv, NEW t \in Tasks, NEW u \in Tasks, u # t, Acts(t),
           made => made' /\ mustKnock' = mustKnock,
           over' => over \/ ~ Running(u)
    PROVE  Knows(u)' /\ Closing(u)'
<1>1. call'[u] = call[u] /\ Knows(u) /\ (Running(u) => crowded')
  BY DEF DoorInv, Acts, Only
<1>2. CASE ~ Running(u)
  BY <1>1, <1>2 DEF Running, Knows, Closing, On
<1>3. CASE Running(u)
  <2>1. Knows(u)'
    BY <1>1, <1>3 DEF Knows
  <2>2. Closing(u)'
    BY <1>1, <1>3 DEF Closing
  <2> QED
    BY <2>1, <2>2
<1> QED
  BY <1>2, <1>3

\* A step that closes and creates nothing.
LEMMA DoorStep ==
    ASSUME DoorInv, NEW t \in Tasks, Acts(t), UNCHANGED <<made, mustKnock, over>>, Doors',
           Knows(t)', Closing(t)'
    PROVE  DoorInv'
<1>1. \A u \in Tasks : u # t => Knows(u)' /\ Closing(u)'
  BY OthersKnow
<1> QED
  BY <1>1 DEF DoorInv, Acts

\* What leaves the tables alone leaves them right.
LEMMA DoorsStay == ASSUME Doors, UNCHANGED mtgVars PROVE Doors'
  BY DEF Doors, mtgVars, mtgTables, mtgHistory, Rows, Unmade, Knocking, Ended, GuestsKnock, OverIsOver

\* A task that has ended knows nothing.
LEMMA GoneKnows ==
    ASSUME NEW t \in Tasks, call'[t].op = "none"
    PROVE  Knows(t)' /\ Closing(t)'
  BY DEF Knows, Closing, On

\* A task ends, and neither creates nor closes.
LEMMA EndsDoor ==
    ASSUME DoorInv, NEW t \in Tasks, Running(t), Finish(t) \/ Drop(t),
           UNCHANGED <<made, mustKnock, over>>, Doors'
    PROVE  DoorInv'
<1>1. Shaped /\ Alone
  BY DEF DoorInv
<1>2. Acts(t) /\ call'[t].op = "none"
  BY <1>1, Leaves, LeaveActs
<1> QED
  BY <1>2, GoneKnows, DoorStep

-----------------------------------------------------------------------------

\* The one creation of the meeting.
LEMMA CreateSteps ==
    ASSUME DoorInv, NEW t \in Tasks, CreateMeeting(t) \/ ToolCreatesMeeting(t)
    PROVE  DoorInv'
<1>1. PICK by, now, knocks : BeginCreate(t, by, now, knocks) /\ knocks \in BOOLEAN
  <2>1. \A m, n : (m = "workspace" /\ n > 1) \in BOOLEAN /\ (n > 1) \in BOOLEAN
    OBVIOUS
  <2>2. \E by, now, knocks : BeginCreate(t, by, now, knocks) /\ knocks \in BOOLEAN
    BY <2>1, Zenon DEF CreateMeeting, ToolCreatesMeeting
  <2> QED
    BY <2>2, Zenon
<1>2. Shaped /\ Alone /\ Doors
  BY DEF DoorInv
<1>3. /\ ~ made /\ made' = TRUE /\ mustKnock' = knocks
      /\ UNCHANGED <<meeting, door, seat, letIn, admitted, over, entered>>
  BY <1>1 DEF BeginCreate
<1>4. /\ Begun(t) /\ call'[t].op = "create_meeting" /\ call'[t].at = "rate"
      /\ call'[t].arg = [by |-> by, now |-> now, knocks |-> knocks]
  BY <1>1, <1>2 DEF BeginCreate, Begin, BeginWith, Shaped, Only, Begun, Running
<1>5. Acts(t)
  BY <1>2, <1>4, BeginActs
<1>6. Doors'
  <2>1. /\ meeting.status = "none" /\ door.status = "none" /\ door.whole = FALSE /\ ~ over /\ ~ entered
        /\ admitted = {} /\ \A g \in Guests : seat[g] = "none"
    BY <1>2, <1>3 DEF Doors, Unmade, Ended
  <2>2. Rows' /\ Unmade' /\ Ended'
    BY <1>2, <1>3, <2>1 DEF Doors, Rows, Unmade, Ended
  <2>3. Knocking' /\ GuestsKnock' /\ OverIsOver'
    BY <1>3, <2>1 DEF Knocking, GuestsKnock, OverIsOver
  <2> QED
    BY <2>2, <2>3 DEF Doors
<1>7. Knows(t)' /\ Closing(t)'
  <2>1. call'[t].arg.knocks = knocks
    BY <1>4
  <2>2. ~ over'
    BY <1>2, <1>3 DEF Doors, Ended
  <2> QED
    BY <1>3, <1>4, <2>1, <2>2 DEF Knows, Closing, On
<1>8. \A u \in Tasks : u # t => Knows(u)' /\ Closing(u)'
  BY <1>3, <1>5, OthersKnow
<1> QED
  BY <1>5, <1>6, <1>7, <1>8 DEF DoorInv, Acts

\* The calls of the host, of the members and of the guests.
LEMMA CallSteps ==
    ASSUME DoorInv, NEW t \in Tasks, HostCalls(t) \/ UserCalls(t) \/ GuestCalls(t)
    PROVE  DoorInv'
<1>1. Shaped /\ Alone /\ Doors /\ UNCHANGED mtgVars
  BY DEF DoorInv, HostCalls, UserCalls, GuestCalls
<1>2. UNCHANGED <<made, mustKnock, over, meeting, door, seat>> /\ Doors'
  BY <1>1, DoorsStay DEF mtgVars, mtgTables, mtgHistory
<1>3. ASSUME NEW op \in {"end", "delete"}, Begin(t, op, "ensure", "host")
      PROVE  DoorInv'
  <2>1. Begun(t) /\ call'[t].op = op /\ call'[t].at = "ensure"
    BY <1>1, <1>3 DEF Begin, BeginWith, Shaped, Only, Begun, Running
  <2>2. Knows(t)' /\ Closing(t)'
    BY <2>1 DEF Knows, Closing, On
  <2> QED
    BY <1>1, <1>2, <2>1, <2>2, BeginActs, DoorStep
<1>4. ASSUME NEW op \in {"approve", "deny"}, NEW g \in Guests, seat[g] # "none", Begin(t, op, "ensure", g)
      PROVE  DoorInv'
  <2>1. Begun(t) /\ call'[t].op = op /\ call'[t].at = "ensure"
    BY <1>1, <1>4 DEF Begin, BeginWith, Shaped, Only, Begun, Running
  <2>2. made
    BY <1>1, <1>4 DEF Doors, Unmade
  <2>3. Knows(t)' /\ Closing(t)'
    BY <1>2, <2>1, <2>2 DEF Knows, Closing, On
  <2> QED
    BY <1>1, <1>2, <2>1, <2>3, BeginActs, DoorStep
<1>5. ASSUME NEW op \in {"join", "send_chat"}, NEW u \in Account, Begin(t, op, "get", u)
      PROVE  DoorInv'
  <2>1. Begun(t) /\ call'[t].op = op /\ call'[t].at = "get"
    BY <1>1, <1>5 DEF Begin, BeginWith, Shaped, Only, Begun, Running
  <2>2. Knows(t)' /\ Closing(t)'
    BY <2>1 DEF Knows, Closing, On
  <2> QED
    BY <1>1, <1>2, <2>1, <2>2, BeginActs, DoorStep
<1>6. ASSUME NEW op \in {"guest_join", "guest_status"}, NEW g \in Guests, Begin(t, op, "lookup", g)
      PROVE  DoorInv'
  <2>1. Begun(t) /\ call'[t].op = op /\ call'[t].at = "lookup" /\ call'[t].arg = g
    BY <1>1, <1>6 DEF Begin, BeginWith, Shaped, Only, Begun, Running
  <2>2. Knows(t)' /\ Closing(t)'
    BY <2>1 DEF Knows, Closing, On
  <2> QED
    BY <1>1, <1>2, <2>1, <2>2, BeginActs, DoorStep
<1> QED
  BY <1>3, <1>4, <1>5, <1>6 DEF HostCalls, UserCalls, GuestCalls

\* The reads: who goes on past one has read an open row.
LEMMA ReadSteps ==
    ASSUME DoorInv, NEW t \in Tasks,
           ReadRate(t) \/ EnsureHost(t) \/ ReadCode(t) \/ JoinReads(t) \/ ChatReads(t) \/ GuestLooksUp(t)
    PROVE  DoorInv'
<1>1. /\ Shaped /\ Alone /\ Doors /\ Knows(t) /\ Closing(t)
      /\ UNCHANGED mtgVars
  BY DEF DoorInv, ReadRate, EnsureHost, ReadCode, JoinReads, ChatReads, GuestLooksUp
<1>2. UNCHANGED <<made, mustKnock, over, meeting, door>> /\ Doors'
  BY <1>1, DoorsStay DEF mtgVars, mtgTables, mtgHistory
<1>3. Running(t)
  BY DEF Running, ReadRate, EnsureHost, ReadCode, JoinReads, ChatReads, GuestLooksUp, On, Ensured
<1>4. CASE Finish(t)
  BY <1>2, <1>3, <1>4, EndsDoor
<1>5. ASSUME NEW at, Goto(t, at), Knows(t)', Closing(t)'
      PROVE  DoorInv'
  BY <1>1, <1>2, <1>3, <1>5, MoveActs, DoorStep
<1>6. ASSUME NEW at, Goto(t, at)
      PROVE  /\ call'[t].op = call[t].op /\ call'[t].at = at /\ call'[t].arg = call[t].arg
             /\ call'[t].got = call[t].got /\ crowded' = crowded
  BY <1>1, <1>6 DEF Goto, Shaped
<1>7. CASE ReadRate(t)
  <2>1. ASSUME Goto(t, "count")
        PROVE  DoorInv'
    <3>1. Knows(t)' /\ Closing(t)'
      BY <1>1, <1>2, <1>6, <1>7, <2>1 DEF Knows, Closing, On, ReadRate
    <3> QED
      BY <1>5, <2>1, <3>1
  <2> QED
    BY <1>4, <1>7, <2>1 DEF ReadRate
<1>8. CASE EnsureHost(t)
  <2>1. ASSUME NEW at \in {"seat", "get"}, Goto(t, at), meeting.status # "none"
        PROVE  DoorInv'
    <3>1. made /\ call[t].op \in Ensured
      BY <1>1, <1>8, <2>1 DEF Doors, Unmade, EnsureHost, On
    <3>2. Knows(t)' /\ Closing(t)'
      BY <1>1, <1>2, <1>6, <2>1, <3>1 DEF Knows, Closing, On, Ensured
    <3> QED
      BY <1>5, <2>1, <3>2
  <2> QED
    BY <1>4, <1>8, <2>1 DEF EnsureHost
<1>9. CASE ReadCode(t)
  <2>1. ASSUME Learn(t, "row", meeting.whole)
        PROVE  DoorInv'
    <3>1. call'[t].op = call[t].op /\ call'[t].at = "row" /\ call'[t].arg = call[t].arg /\ crowded' = crowded
      BY <1>1, <2>1 DEF Learn, Shaped
    <3>2. Knows(t)' /\ Closing(t)'
      BY <1>1, <1>2, <1>9, <3>1 DEF Knows, Closing, On, ReadCode
    <3> QED
      BY <1>1, <1>2, <1>3, <2>1, <3>2, MoveActs, DoorStep
  <2> QED
    BY <1>4, <1>9, <2>1 DEF ReadCode
<1>10. CASE JoinReads(t)
  <2>1. ASSUME NEW at \in {"activate", "seat"}, Goto(t, at), meeting.status \notin {"none", "ended"}
        PROVE  DoorInv'
    <3>1. made /\ ~ over
      BY <1>1, <2>1 DEF Doors, Unmade, OverIsOver
    <3>2. Knows(t)' /\ Closing(t)'
      BY <1>1, <1>2, <1>6, <1>10, <2>1, <3>1 DEF Knows, Closing, On, JoinReads
    <3> QED
      BY <1>5, <2>1, <3>2
  <2>2. CASE meeting.status \in {"none", "ended"}
    BY <1>4, <1>10, <2>2 DEF JoinReads
  <2>3. CASE meeting.status \notin {"none", "ended"}
    <3>1. Goto(t, "activate") \/ Goto(t, "seat")
      BY <1>10, <2>3 DEF JoinReads
    <3> QED
      BY <2>1, <2>3, <3>1
  <2> QED
    BY <2>2, <2>3
<1>11. CASE ChatReads(t)
  <2>1. ASSUME Goto(t, "insert")
        PROVE  DoorInv'
    <3>1. Knows(t)' /\ Closing(t)'
      BY <1>1, <1>2, <1>6, <1>11, <2>1 DEF Knows, Closing, On, ChatReads
    <3> QED
      BY <1>5, <2>1, <3>1
  <2> QED
    BY <1>4, <1>11, <2>1 DEF ChatReads
<1>12. CASE GuestLooksUp(t)
  <2>1. ASSUME Learn(t, "seat", door.knocks), door.status \notin {"none", "ended"}, door.whole
        PROVE  DoorInv'
    <3>1. /\ call'[t].op = call[t].op /\ call'[t].at = "seat" /\ call'[t].arg = call[t].arg
          /\ call'[t].got = door.knocks
      BY <1>1, <2>1, Moves, Learns
    <3>2. made /\ ~ over /\ door.knocks = mustKnock
      BY <1>1, <2>1 DEF Doors, Unmade, OverIsOver, Knocking
    <3>3. Knows(t)' /\ Closing(t)'
      BY <1>1, <1>2, <1>12, <3>1, <3>2 DEF Knows, Closing, On, GuestLooksUp
    <3> QED
      BY <1>1, <1>2, <1>3, <2>1, <3>3, MoveActs, DoorStep
  <2> QED
    BY <1>4, <1>12, <2>1 DEF GuestLooksUp
<1> QED
  BY <1>7, <1>8, <1>9, <1>10, <1>11, <1>12

\* Writes of tables whose rows others do not depend on, and of the rows of a
\* meeting that is being made.
LEMMA MakingSteps ==
    ASSUME DoorInv, NEW t \in Tasks,
           CountMeeting(t) \/ InsertMeeting(t) \/ InsertDoor(t) \/ SeatHost(t) \/ InsertChat(t)
    PROVE  DoorInv'
<1>1. /\ Shaped /\ Alone /\ Doors /\ Knows(t) /\ Closing(t)
      /\ UNCHANGED <<made, seat, mustKnock, letIn, admitted, over, entered>>
  BY DEF DoorInv, CountMeeting, InsertMeeting, InsertDoor, SeatHost, InsertChat, mtgHistory
<1>2. Running(t)
  BY DEF Running, CountMeeting, InsertMeeting, InsertDoor, SeatHost, InsertChat, On
<1>3. call[t].op = "create_meeting" => made /\ ~ over
  BY <1>1 DEF Knows
<1>4. ASSUME call[t].op = "create_meeting", NEW at, Goto(t, at), Doors'
      PROVE  DoorInv'
  <2>1. call'[t].op = call[t].op /\ call'[t].arg = call[t].arg
    BY <1>1, <1>4, Moves
  <2>2. Knows(t)' /\ Closing(t)'
    BY <1>1, <1>4, <2>1 DEF Knows, Closing, On
  <2> QED
    BY <1>1, <1>2, <1>4, <2>2, MoveActs, DoorStep
<1>5. ASSUME UNCHANGED <<meeting, door>>
      PROVE  Doors'
  BY <1>1, <1>5 DEF Doors, Rows, Unmade, Knocking, Ended, GuestsKnock, OverIsOver
<1>6. CASE CountMeeting(t)
  BY <1>4, <1>5, <1>6 DEF CountMeeting, On
<1>7. CASE InsertMeeting(t)
  <2>1. \E status : meeting' = [status |-> status, whole |-> TRUE]
    BY <1>7 DEF InsertMeeting
  <2>2. Doors'
    <3>1. door' = door /\ made /\ ~ over
      BY <1>3, <1>7 DEF InsertMeeting, On
    <3> QED
      BY <1>1, <2>1, <3>1 DEF Doors, Rows, Unmade, Knocking, Ended, GuestsKnock, OverIsOver
  <2> QED
    BY <1>4, <1>7, <2>2 DEF InsertMeeting, On
<1>8. CASE InsertDoor(t)
  <2>1. meeting' = meeting /\ made /\ ~ over /\ Arg(t).knocks = mustKnock
    BY <1>1, <1>3, <1>8 DEF InsertDoor, On, Knows, Arg
  <2>2. PICK status : door' = [status |-> status, whole |-> TRUE, knocks |-> Arg(t).knocks]
    BY <1>8 DEF InsertDoor
  <2>3. door' = [status |-> door'.status, whole |-> door'.whole, knocks |-> door'.knocks]
    BY <2>2
  <2>4. door'.knocks = Arg(t).knocks
    BY <2>2
  <2>5. Knocking'
    BY <1>1, <2>1, <2>4 DEF Doors, Knocking
  <2>6. Doors'
    BY <1>1, <2>1, <2>3, <2>5 DEF Doors, Rows, Unmade, Ended, GuestsKnock, OverIsOver
  <2> QED
    BY <1>1, <1>2, <1>4, <1>8, <2>6, EndsDoor DEF InsertDoor, On
<1>9. CASE SeatHost(t) \/ InsertChat(t)
  BY <1>1, <1>2, <1>5, <1>9, EndsDoor DEF SeatHost, InsertChat
<1> QED
  BY <1>6, <1>7, <1>8, <1>9

\* An UPDATE of the status leaves the other columns.
LEMMA SetStatus ==
    ASSUME Rows, NEW status
    PROVE  /\ SetMeeting(status) => meeting' = [status |-> status, whole |-> meeting.whole]
           /\ SetDoor(status) => door' = [status |-> status, whole |-> door.whole, knocks |-> door.knocks]
  BY DEF Rows, SetMeeting, SetDoor

\* Ending the meeting: alone, both rows have ended.
LEMMA EndSteps ==
    ASSUME DoorInv, NEW t \in Tasks, EndMeeting(t) \/ EndDoor(t)
    PROVE  DoorInv'
<1>1. Shaped /\ Alone /\ Doors /\ Rows /\ Knows(t) /\ Closing(t)
  BY DEF DoorInv, Doors
<1>2. Running(t) /\ made
  BY <1>1 DEF Running, EndMeeting, EndDoor, On, Knows
<1>3. CASE EndMeeting(t)
  <2>1. UNCHANGED <<door, made, seat, mustKnock, letIn, admitted, over, entered>>
    BY <1>3 DEF EndMeeting, mtgHistory
  <2>2. meeting' = [status |-> "ended", whole |-> meeting.whole]
    BY <1>1, <1>3, SetStatus DEF EndMeeting
  <2>3. meeting'.status = "ended" /\ meeting' = [status |-> meeting'.status, whole |-> meeting'.whole]
    BY <2>2
  <2>4. Doors'
    BY <1>1, <1>2, <2>1, <2>3 DEF Doors, Rows, Unmade, Knocking, Ended, GuestsKnock, OverIsOver
  <2>5. CASE Goto(t, "door")
    <3>1. call'[t].op = call[t].op /\ call'[t].at = "door"
      BY <1>1, <2>5, Moves
    <3>2. Knows(t)' /\ Closing(t)'
      BY <1>2, <1>3, <2>1, <2>3, <3>1 DEF Knows, Closing, On, EndMeeting
    <3> QED
      BY <1>1, <1>2, <2>1, <2>4, <2>5, <3>2, MoveActs, DoorStep
  <2>6. CASE Finish(t)
    BY <1>2, <2>1, <2>4, <2>6, EndsDoor
  <2> QED
    BY <1>3, <2>5, <2>6 DEF EndMeeting
<1>4. CASE EndDoor(t)
  <2>1. /\ UNCHANGED <<meeting, made, seat, mustKnock, letIn, admitted, entered>>
        /\ over' = (over \/ ~ crowded)
    BY <1>4 DEF EndDoor, Close
  <2>2. door' = [status |-> "ended", whole |-> door.whole, knocks |-> door.knocks]
    BY <1>1, <1>4, SetStatus DEF EndDoor
  <2>3. /\ door'.status = "ended" /\ door'.whole = door.whole /\ door'.knocks = door.knocks
        /\ door' = [status |-> door'.status, whole |-> door'.whole, knocks |-> door'.knocks]
    BY <2>2
  <2>4. Acts(t) /\ call'[t].op = "none"
    BY <1>1, <1>2, <1>4, Leaves, LeaveActs DEF EndDoor
  <2>5. ~ crowded => meeting.status = "ended"
    BY <1>1, <1>4 DEF EndDoor, Closing
  <2>6. Doors'
    <3>1. Rows' /\ Unmade' /\ Knocking'
      BY <1>1, <1>2, <2>1, <2>3 DEF Doors, Rows, Unmade, Knocking
    <3>2. Ended' /\ GuestsKnock' /\ OverIsOver'
      BY <1>1, <1>2, <2>1, <2>3, <2>5 DEF Doors, Ended, GuestsKnock, OverIsOver
    <3> QED
      BY <3>1, <3>2 DEF Doors
  <2>7. \A u \in Tasks : u # t => Knows(u)' /\ Closing(u)'
    <3> SUFFICES ASSUME NEW u \in Tasks, u # t
                 PROVE  Knows(u)' /\ Closing(u)'
      OBVIOUS
    <3>1. over' => over \/ ~ Running(u)
      BY <1>1, <1>2, <2>1 DEF Alone
    <3> QED
      BY <2>1, <2>4, <3>1, OthersKnow
  <2> QED
    BY <2>4, <2>6, <2>7, GoneKnows DEF DoorInv, Acts
<1> QED
  BY <1>3, <1>4

\* Deleting it: alone, both rows are gone.
LEMMA DeleteSteps ==
    ASSUME DoorInv, NEW t \in Tasks,
           DeleteMeeting(t) \/ DeleteDoor(t) \/ DeletePeople(t) \/ DeleteChat(t)
    PROVE  DoorInv'
<1>1. Shaped /\ Alone /\ Doors /\ Knows(t) /\ Closing(t)
  BY DEF DoorInv
<1>2. Running(t) /\ made /\ call[t].op = "delete"
  BY <1>1 DEF Running, DeleteMeeting, DeleteDoor, DeletePeople, DeleteChat, On, Knows
<1>3. ASSUME NEW at, Goto(t, at)
      PROVE  Acts(t) /\ call'[t].op = call[t].op /\ call'[t].at = at /\ crowded' = crowded
  BY <1>1, <1>2, <1>3, Moves, MoveActs DEF Goto
<1>4. CASE DeleteMeeting(t)
  <2>1. meeting' = Gone /\ UNCHANGED <<door, made, seat, mustKnock, letIn, admitted, over, entered>>
    BY <1>4 DEF DeleteMeeting, mtgHistory
  <2>2. meeting'.status = "none" /\ meeting' = [status |-> meeting'.status, whole |-> meeting'.whole]
    BY <2>1 DEF Gone
  <2>3. Doors'
    BY <1>1, <1>2, <2>1, <2>2 DEF Doors, Rows, Unmade, Knocking, Ended, GuestsKnock, OverIsOver
  <2>4. CASE Goto(t, "door")
    <3>1. Knows(t)' /\ Closing(t)'
      BY <1>2, <1>3, <2>1, <2>2, <2>4 DEF Knows, Closing, On
    <3> QED
      BY <1>3, <2>1, <2>3, <2>4, <3>1, DoorStep
  <2>5. CASE Finish(t)
    BY <1>2, <2>1, <2>3, <2>5, EndsDoor
  <2> QED
    BY <1>4, <2>4, <2>5 DEF DeleteMeeting
<1>5. CASE DeleteDoor(t)
  <2>1. door' = Shut /\ UNCHANGED <<meeting, made, seat, mustKnock, letIn, admitted, over, entered>>
    BY <1>5 DEF DeleteDoor, mtgHistory
  <2>2. /\ door'.status = "none" /\ door'.whole = FALSE
        /\ door' = [status |-> door'.status, whole |-> door'.whole, knocks |-> door'.knocks]
    BY <2>1 DEF Shut
  <2>3. Doors'
    BY <1>1, <1>2, <2>1, <2>2 DEF Doors, Rows, Unmade, Knocking, Ended, GuestsKnock, OverIsOver
  <2>4. Goto(t, "people") /\ (~ crowded => meeting.status = "none")
    BY <1>1, <1>5 DEF DeleteDoor, Closing, On
  <2>5. Knows(t)' /\ Closing(t)'
    BY <1>2, <1>3, <2>1, <2>2, <2>4 DEF Knows, Closing, On
  <2> QED
    BY <1>3, <2>1, <2>3, <2>4, <2>5, DoorStep
<1>6. CASE DeletePeople(t)
  <2>1. /\ seat' = [g \in Guests |-> "none"]
        /\ UNCHANGED <<meeting, door, made, mustKnock, letIn, admitted, over, entered>>
    BY <1>6 DEF DeletePeople, mtgHistory
  <2>2. seat' = [g \in Guests |-> seat'[g]] /\ \A g \in Guests : seat'[g] = "none"
    BY <2>1
  <2>3. Doors'
    BY <1>1, <1>2, <2>1, <2>2 DEF Doors, Rows, Unmade, Knocking, Ended, GuestsKnock, OverIsOver
  <2>4. Goto(t, "chat") /\ (~ crowded => meeting.status = "none" /\ door.status = "none")
    BY <1>1, <1>6 DEF DeletePeople, Closing, On
  <2>5. Knows(t)' /\ Closing(t)'
    BY <1>2, <1>3, <2>1, <2>4 DEF Knows, Closing, On
  <2> QED
    BY <1>3, <2>1, <2>3, <2>4, <2>5, DoorStep
<1>7. CASE DeleteChat(t)
  <2>1. /\ UNCHANGED <<meeting, door, made, seat, mustKnock, letIn, admitted, entered>>
        /\ over' = (over \/ ~ crowded)
    BY <1>7 DEF DeleteChat, Close
  <2>2. Acts(t) /\ call'[t].op = "none"
    BY <1>1, <1>2, <1>7, Leaves, LeaveActs DEF DeleteChat
  <2>3. ~ crowded => meeting.status = "none" /\ door.status = "none"
    BY <1>1, <1>7 DEF DeleteChat, Closing, On
  <2>4. Doors'
    <3>1. Rows' /\ Unmade' /\ Knocking'
      BY <1>1, <1>2, <2>1 DEF Doors, Rows, Unmade, Knocking
    <3>2. Ended' /\ GuestsKnock' /\ OverIsOver'
      BY <1>1, <1>2, <2>1, <2>3 DEF Doors, Ended, GuestsKnock, OverIsOver
    <3> QED
      BY <3>1, <3>2 DEF Doors
  <2>5. \A u \in Tasks : u # t => Knows(u)' /\ Closing(u)'
    <3> SUFFICES ASSUME NEW u \in Tasks, u # t
                 PROVE  Knows(u)' /\ Closing(u)'
      OBVIOUS
    <3>1. over' => over \/ ~ Running(u)
      BY <1>1, <1>2, <2>1 DEF Alone
    <3> QED
      BY <2>1, <2>2, <3>1, OthersKnow
  <2> QED
    BY <2>2, <2>4, <2>5, GoneKnows DEF DoorInv, Acts
<1> QED
  BY <1>4, <1>5, <1>6, <1>7

\* A member joins: the rows are opened only when it is not over.
LEMMA JoinSteps ==
    ASSUME DoorInv, NEW t \in Tasks, MarkActive(t) \/ MarkDoorActive(t) \/ SeatUser(t)
    PROVE  DoorInv'
<1>1. Shaped /\ Alone /\ Doors /\ Rows /\ Knows(t) /\ Closing(t)
  BY DEF DoorInv, Doors
<1>2. Running(t) /\ made /\ ~ over /\ call[t].op = "join" /\ call[t].at # "get"
  BY <1>1 DEF Running, MarkActive, MarkDoorActive, SeatUser, On, Knows
<1>3. ASSUME NEW at \in {"door", "seat"}, Goto(t, at), UNCHANGED <<made, over>>
      PROVE  Acts(t) /\ Knows(t)' /\ Closing(t)'
  <2>1. Acts(t) /\ call'[t].op = call[t].op /\ call'[t].at = at
    BY <1>1, <1>2, <1>3, Moves, MoveActs
  <2> QED
    BY <1>2, <1>3, <2>1 DEF Knows, Closing, On
<1>4. CASE MarkActive(t)
  <2>1. UNCHANGED <<door, made, seat, mustKnock, letIn, admitted, over, entered>> /\ Goto(t, "door")
    BY <1>4 DEF MarkActive, mtgHistory
  <2>2. meeting' = [status |-> "active", whole |-> meeting.whole]
    BY <1>1, <1>4, SetStatus DEF MarkActive
  <2>3. meeting' = [status |-> meeting'.status, whole |-> meeting'.whole]
    BY <2>2
  <2>4. Doors'
    BY <1>1, <1>2, <2>1, <2>3 DEF Doors, Rows, Unmade, Knocking, Ended, GuestsKnock, OverIsOver
  <2> QED
    BY <1>3, <2>1, <2>4, DoorStep
<1>5. CASE MarkDoorActive(t)
  <2>1. UNCHANGED <<meeting, made, seat, mustKnock, letIn, admitted, over, entered>> /\ Goto(t, "seat")
    BY <1>5 DEF MarkDoorActive, mtgHistory
  <2>2. door' = [status |-> "active", whole |-> door.whole, knocks |-> door.knocks]
    BY <1>1, <1>5, SetStatus DEF MarkDoorActive
  <2>3. /\ door'.whole = door.whole /\ door'.knocks = door.knocks
        /\ door' = [status |-> door'.status, whole |-> door'.whole, knocks |-> door'.knocks]
    BY <2>2
  <2>4. Doors'
    BY <1>1, <1>2, <2>1, <2>3 DEF Doors, Rows, Unmade, Knocking, Ended, GuestsKnock, OverIsOver
  <2> QED
    BY <1>3, <2>1, <2>4, DoorStep
<1>6. CASE SeatUser(t)
  <2>1. /\ UNCHANGED <<meeting, door, made, seat, mustKnock, letIn, admitted, over>> /\ Finish(t)
        /\ entered' = (entered \/ over)
    BY <1>6 DEF SeatUser
  <2>2. Doors'
    BY <1>1, <1>2, <2>1 DEF Doors, Rows, Unmade, Knocking, Ended, GuestsKnock, OverIsOver
  <2> QED
    BY <1>2, <2>1, <2>2, EndsDoor
<1> QED
  BY <1>4, <1>5, <1>6

\* The host lets a guest in, or does not; a guest asks.
LEMMA GuestSteps ==
    ASSUME DoorInv, NEW t \in Tasks, SeatGuest(t) \/ GuestJoins(t) \/ GuestAsks(t)
    PROVE  DoorInv'
<1>1. Shaped /\ Alone /\ Doors /\ Rows /\ Knows(t)
  BY DEF DoorInv, Doors
<1>2. Running(t) /\ made /\ Finish(t)
  BY <1>1 DEF Running, SeatGuest, GuestJoins, GuestAsks, On, Knows
<1>3. UNCHANGED <<meeting, door, made, mustKnock, over>>
  BY DEF SeatGuest, GuestJoins, GuestAsks, mtgTables, mtgHistory, Admit
<1>4. CASE SeatGuest(t)
  <2>1. /\ \E s : seat' = [seat EXCEPT ![Arg(t)] = s]
        /\ letIn \subseteq letIn' /\ UNCHANGED <<admitted, entered>>
    BY <1>4 DEF SeatGuest
  <2>2. seat' = [g \in Guests |-> seat'[g]]
    BY <1>1, <2>1 DEF Rows
  <2>3. \A g \in Guests : seat'[g] = "approved" => seat[g] = "approved" \/ g \in letIn'
    BY <1>1, <1>4 DEF SeatGuest, Rows
  <2>4. Doors'
    BY <1>1, <1>2, <1>3, <2>1, <2>2, <2>3 DEF Doors, Rows, Unmade, Knocking, Ended, GuestsKnock, OverIsOver
  <2> QED
    BY <1>2, <1>3, <2>4, EndsDoor
<1>5. CASE GuestJoins(t)
  <2>1. Arg(t) \in Guests /\ ~ over /\ Got(t) = mustKnock /\ letIn' = letIn
    BY <1>1, <1>5 DEF GuestJoins, On, Knows, Arg, Got, Admit, mtgHistory
  <2>2. seat' = [seat EXCEPT ![Arg(t)] = IF Got(t) THEN "pending" ELSE "approved"]
    BY <1>5 DEF GuestJoins
  <2>3. seat' = [g \in Guests |-> seat'[g]]
    BY <1>1, <2>2 DEF Rows
  <2>4. mustKnock => \A g \in Guests : seat'[g] = "approved" => seat[g] = "approved"
    BY <1>1, <2>1, <2>2 DEF Rows
  <2>5. mustKnock => admitted' = admitted
    BY <1>5, <2>1 DEF GuestJoins, mtgHistory
  <2>6. ~ entered'
    <3>1. entered' = entered \/ entered' = (entered \/ over)
      BY <1>5 DEF GuestJoins, Admit, mtgHistory
    <3> QED
      BY <1>1, <2>1, <3>1 DEF Doors, Ended
  <2>7. Doors'
    BY <1>1, <1>2, <1>3, <2>1, <2>3, <2>4, <2>5, <2>6
       DEF Doors, Rows, Unmade, Knocking, Ended, GuestsKnock, OverIsOver
  <2> QED
    BY <1>2, <1>3, <2>7, EndsDoor
<1>6. CASE GuestAsks(t)
  <2>1. Arg(t) \in Guests /\ ~ over /\ UNCHANGED <<seat, letIn>>
    BY <1>1, <1>6 DEF GuestAsks, On, Knows, Arg, Admit, mtgHistory, mtgTables
  <2>2. ~ entered'
    <3>1. entered' = entered \/ entered' = (entered \/ over)
      BY <1>6 DEF GuestAsks, Admit, mtgHistory
    <3> QED
      BY <1>1, <2>1, <3>1 DEF Doors, Ended
  <2>3. mustKnock => admitted' \subseteq letIn'
    <3>1. admitted' = admitted \/ (seat[Arg(t)] = "approved" /\ admitted' = admitted \cup {Arg(t)})
      BY <1>6 DEF GuestAsks, Admit, mtgHistory
    <3> QED
      BY <1>1, <2>1, <3>1 DEF Doors, GuestsKnock, Knocking
  <2>4. Doors'
    BY <1>1, <1>2, <1>3, <2>1, <2>2, <2>3
       DEF Doors, Rows, Unmade, Knocking, Ended, GuestsKnock, OverIsOver
  <2> QED
    BY <1>2, <1>3, <2>4, EndsDoor
<1> QED
  BY <1>4, <1>5, <1>6

-----------------------------------------------------------------------------

\* Nobody runs and there is no meeting at the beginning.
LEMMA InitDoorInv == MeetingsInit /\ TasksInit(Budgets) => DoorInv
<1> SUFFICES ASSUME MeetingsInit, TasksInit(Budgets)
             PROVE  DoorInv
  OBVIOUS
<1>1. call = [t \in Tasks |-> NoCall]
  BY DEF TasksInit
<1>2. Shaped /\ Alone /\ \A t \in Tasks : Knows(t) /\ Closing(t)
  BY <1>1 DEF Shaped, Alone, Running, Knows, Closing, On, NoCall
<1>3. Doors
  BY DEF MeetingsInit, Doors, Rows, Unmade, Knocking, Ended, GuestsKnock, OverIsOver, Gone, Shut
<1> QED
  BY <1>2, <1>3 DEF DoorInv

\* Every step of a task keeps the invariant.
LEMMA NextDoorInv == DoorInv /\ [DoorNext]_<<tasking, mtgVars>> => DoorInv'
<1> SUFFICES ASSUME DoorInv, [DoorNext]_<<tasking, mtgVars>>
             PROVE  DoorInv'
  OBVIOUS
<1>1. ASSUME NEW t \in Tasks, MeetingsStep(t)
      PROVE  DoorInv'
  BY <1>1, CreateSteps, CallSteps, ReadSteps, MakingSteps, EndSteps, DeleteSteps, JoinSteps, GuestSteps
     DEF MeetingsStep
<1>2. ASSUME NEW t \in Tasks, Drop(t), UNCHANGED mtgVars
      PROVE  DoorInv'
  <2>1. Doors' /\ UNCHANGED <<made, mustKnock, over>> /\ Running(t)
    BY <1>2, DoorsStay DEF DoorInv, mtgVars, mtgTables, mtgHistory, Drop
  <2> QED
    BY <1>2, <2>1, EndsDoor
<1>3. CASE UNCHANGED <<tasking, mtgVars>>
  <2>1. Doors' /\ UNCHANGED <<call, crowded, made, mustKnock, over, meeting, door>>
    BY <1>3, DoorsStay DEF DoorInv, mtgVars, mtgTables, mtgHistory, tasking
  <2>2. Shaped' /\ Alone' /\ \A t \in Tasks : Knows(t)' /\ Closing(t)'
    BY <2>1 DEF DoorInv, Shaped, Alone, Running, Knows, Closing, On
  <2> QED
    BY <2>1, <2>2 DEF DoorInv
<1> QED
  BY <1>1, <1>2, <1>3 DEF DoorNext

\* Guests who have to knock hold a token only after the host has let them in,
\* and what the host has ended or deleted alone nobody enters any more
\* (guest_join, guest_status, approve_guest, end_meeting, delete_meeting,
\* mark_active).
THEOREM DoorsKept == DoorSpec => []DoorHolds
<1>1. DoorInv => DoorHolds
  BY DEF DoorInv, Doors, DoorHolds
<1> QED
  BY <1>1, InitDoorInv, NextDoorInv, PTL DEF DoorSpec

-----------------------------------------------------------------------------
(* Appointments.  Validation holds for the calendar it has seen, and a task *)
(* notices when that changes (stale, void): a request not yet stale that    *)
(* has passed the look around is free of overlaps (FreeKnown), and a        *)
(* promise not yet void would pass again (ToolKnown, TurnKnown).  The two   *)
(* tables of an appointment agree when no task is at work on it, and a task *)
(* knows how far it has brought them (ListingKnown).                        *)

\* The component on its own, however many calls there are.
ApptNext == \E t \in Tasks : AppointmentsStep(t)
ApptSpec == AppointmentsInit /\ TasksInit(Budgets) /\ [][ApptNext]_<<tasking, apVars>>

ApptShape(a) ==
    /\ a = [start |-> a.start, dur |-> a.dur, status |-> a.status, with |-> a.with]
    /\ a.start \in Nat /\ a.dur \in 0..Window

CfgShape(c) ==
    /\ c = [set |-> c.set, usual |-> c.usual, buffer |-> c.buffer, most |-> c.most]
    /\ c.usual \in 1..2 /\ c.buffer \in 0..1

RowShape(r) ==
    /\ r = [id |-> r.id, start |-> r.start, dur |-> r.dur, status |-> r.status]
    /\ r.id \in Appts /\ r.start \in Nat /\ r.dur \in 0..Window

\* What a task on an appointment knows.
GotOf(bad, cfg, old, late, void) ==
    [bad |-> bad, cfg |-> cfg, old |-> old, stale |-> late, void |-> void]
GotShape(g) ==
    /\ g = GotOf(g.bad, g.cfg, g.old, g.stale, g.void)
    /\ CfgShape(g.cfg) /\ ApptShape(g.old)

\* What a booking asks for.
AskShape(a) ==
    a = [id |-> a.id, start |-> a.start, dur |-> a.dur, status |-> a.status, with |-> a.with, dated |-> a.dated,
         promised |-> a.promised]

ApTables ==
    /\ book = [id \in Appts |-> book[id]] /\ \A id \in Appts : ApptShape(book[id])
    /\ \A r \in calendar : RowShape(r)
    /\ CfgShape(avail)

Mine(t) == call[t].op \in Booking

\* Where a call can be.
ApPlaces ==
    [book   |-> {"begin", "window", "avail", "day", "buffer", "judge", "main", "list"},
     change |-> {"get", "window", "avail", "day", "buffer", "judge", "main", "unlist", "list"},
     tool   |-> {"usual", "window", "avail", "day", "buffer", "judge", "queued"},
     remove |-> {"get", "main", "unlist"}]

\* The request has a row in the calendar to write.
ListsRow(t) == IF call[t].op = "book" THEN Arg(t).with ELSE Got(t).old.with

\* What a call asks for, and where it is.
ApAsks(t) ==
    /\ Mine(t) =>
        /\ call[t].at \in ApPlaces[call[t].op] /\ GotShape(Got(t))
        /\ Arg(t).id \in Appts /\ Arg(t).id \in born
    /\ call[t].op \in {"book", "change", "tool"} => Arg(t).start \in Nat /\ Arg(t).dur \in 0..Window
    /\ call[t].op = "book" => Arg(t).dated /\ Arg(t).dur # 0 /\ Arg(t).status = "confirmed"
    /\ call[t].op = "change" /\ ~ Arg(t).dated => Arg(t).status \in {"same", "cancelled", "confirmed"}
    /\ call[t].op = "tool" => /\ Arg(t).with /\ Arg(t).promised /\ AskShape(Arg(t))
                              /\ IF Arg(t).dated THEN Arg(t).status \in {"confirmed", "rescheduled"}
                                 ELSE Arg(t).status = "cancelled" /\ call[t].at = "queued"
    /\ call[t].op \in {"book", "change"} =>
        /\ call[t].at \in {"window", "avail", "day", "buffer", "judge"} => ListsRow(t) /\ Arg(t).dated
        /\ call[t].at \in {"unlist", "list"} => ListsRow(t)
    /\ call[t].op = "remove" /\ call[t].at = "unlist" => Got(t).old.with
    /\ call[t].op = "avail" =>
        /\ Arg(t).field \in {"buffer", "most", "usual"}
        /\ Arg(t).field = "buffer" => Arg(t).is \in 0..1
        /\ Arg(t).field = "usual" => Arg(t).is \in 1..2
        /\ call[t].at = "write" => CfgShape(Got(t))

-----------------------------------------------------------------------------
(* The two tables *)

RowOf(id, a) == [id |-> id, start |-> a.start, dur |-> a.dur, status |-> a.status]
ListingOf(id)   == {r \in calendar : r.id = id}
Agrees(id)   == ListingOf(id) = IF ~ book[id].with THEN {} ELSE {RowOf(id, book[id])}

\* The row a request is going to list.
NewStatus(t) == IF Arg(t).status = "same" THEN Got(t).old.status ELSE Arg(t).status
NewRow(t) == [id |-> Arg(t).id, start |-> Start(t), dur |-> Dur(t), status |-> NewStatus(t)]

\* An appointment to be created.
Creates(t) == call[t].op = "book" \/ (call[t].op = "tool" /\ Arg(t).status = "confirmed")

ListingKnown(t) ==
    Mine(t) /\ Arg(t).id \notin tangled =>
        /\ call[t].at \notin {"unlist", "list"} => Agrees(Arg(t).id)
        /\ Creates(t) /\ call[t].at # "list" => book[Arg(t).id] = NoAppt
        /\ call[t].op \in {"change", "remove"} /\ call[t].at \notin {"get", "unlist", "list"} =>
                Got(t).old = book[Arg(t).id]
        /\ call[t].at = "unlist" => ListingOf(Arg(t).id) = {RowOf(Arg(t).id, Got(t).old)}
        /\ call[t].at = "list" => ListingOf(Arg(t).id) = {}
        /\ call[t].op \in {"book", "change"} /\ call[t].at \in {"unlist", "list"} =>
                book[Arg(t).id].with /\ RowOf(Arg(t).id, book[Arg(t).id]) = NewRow(t)
        /\ call[t].op = "remove" /\ call[t].at = "unlist" => book[Arg(t).id] = NoAppt

OneBooker ==
    \A t, v \in Tasks : t # v /\ Mine(t) /\ Mine(v) /\ Arg(t).id = Arg(v).id => Arg(t).id \in tangled

\* An id that was not given to an appointment is nowhere.
Unborn == born \subseteq Appts /\ \A id \in Appts \ born : book[id] = NoAppt /\ ListingOf(id) = {}

\* Nobody is at work on it.
Untouched(id) == \A t \in Tasks : Mine(t) => Arg(t).id # id

-----------------------------------------------------------------------------
(* Validation *)

\* The time overlaps no other appointment, or none that was validated.
Free(s, d, id) ==
    \A r \in calendar : r.status # "cancelled" /\ r.id # id => ~ Overlap(s, d, r.start, r.dur)
FreeOfSeen(s, d, id) ==
    \A r \in calendar : r.status # "cancelled" /\ r.id # id /\ r.id \notin unseen =>
        ~ Overlap(s, d, r.start, r.dur)

FreeKnown(t) ==
    call[t].op \in {"book", "change"} /\ ~ Got(t).stale =>
        /\ call[t].at \in {"avail", "day", "buffer", "judge"} /\ ~ Got(t).bad => Free(Start(t), Dur(t), Arg(t).id)
        /\ call[t].at \in {"main", "unlist", "list"} /\ ListsRow(t) =>
            IF Arg(t).dated THEN Free(Start(t), Dur(t), Arg(t).id)
            ELSE Arg(t).dur = 0 /\ Arg(t).status = "same" /\ Got(t).old.status # "cancelled"
                 /\ Arg(t).id \notin tangled \cup unseen => FreeOfSeen(Start(t), Dur(t), Arg(t).id)

\* A request that would pass validation now.
OpenNow(s, d)     == avail.set => Open(s, d)
RoomNow(s, but)   == avail.set /\ avail.most > 0 => ~ DayFull(s, avail.most, but)
FarNow(s, d, but) == avail.set /\ avail.buffer > 0 => ~ TooClose(s, d, avail.buffer, but)
Valid(s, d, but) ==
    s \notin Past /\ ~ Conflicts(s, d, but) /\ OpenNow(s, d) /\ RoomNow(s, but) /\ FarNow(s, d, but)

\* What the tool has found so far would be found again.
PassedSoFar(t, s, d, but) ==
    /\ s \notin Past
    /\ call[t].at # "window" => ~ Conflicts(s, d, but)
    /\ call[t].at \in {"day", "buffer", "judge"} => OpenNow(s, d)
    /\ call[t].at \in {"buffer", "judge"} => RoomNow(s, but)
    /\ call[t].at = "judge" => FarNow(s, d, but)

ToolKnown(t) ==
    call[t].op = "tool" /\ Arg(t).dated /\ ~ Got(t).void =>
        /\ call[t].at \in {"window", "avail", "day", "buffer", "judge"} /\ ~ Got(t).bad =>
                PassedSoFar(t, Start(t), Dur(t), But(t))
        /\ call[t].at \in {"day", "buffer"} => Got(t).cfg = avail /\ avail.set
        /\ call[t].at = "queued" => Valid(Start(t), Dur(t), But(t))
        /\ /\ call[t].at # "usual" /\ Arg(t).status = "rescheduled" /\ Arg(t).id \notin tangled
           /\ book[Arg(t).id] # NoAppt
           => Got(t).old.dur = book[Arg(t).id].dur

\* The turn finds what the tool has found.
TurnKnown(t) ==
    call[t].op \in {"book", "change"} /\ Arg(t).promised /\ ~ Got(t).void /\ Arg(t).id \notin tangled =>
        /\ call[t].op = "change" /\ call[t].at = "get" =>
            /\ book[Arg(t).id] # NoAppt
            /\ Arg(t).dated => Valid(Arg(t).start, IF Arg(t).dur # 0 THEN Arg(t).dur ELSE book[Arg(t).id].dur,
                                     Arg(t).id)
        /\ call[t].at \in {"begin", "window", "avail", "day", "buffer"} => Valid(Start(t), Dur(t), But(t))
        /\ call[t].at \in {"window", "avail", "day", "buffer", "judge"} => ~ Got(t).bad
        /\ call[t].at \in {"day", "buffer"} => Got(t).cfg = avail /\ avail.set

ApKnows(t) == ListingKnown(t) /\ FreeKnown(t) /\ ToolKnown(t) /\ TurnKnown(t)

ApptInv ==
    /\ Shaped /\ ApTables /\ \A t \in Tasks : ApAsks(t)
    /\ NoDoubleBooking /\ OneBooker /\ Unborn /\ ~ broken
    /\ \A id \in Appts \ tangled : Untouched(id) => Agrees(id)
    /\ \A t \in Tasks : ApKnows(t)

-----------------------------------------------------------------------------
(* The parts of what is read and written. *)

LEMMA GotParts ==
    ASSUME NEW b, NEW c, NEW o, NEW s, NEW v
    PROVE  /\ GotOf(b, c, o, s, v).bad = b /\ GotOf(b, c, o, s, v).cfg = c /\ GotOf(b, c, o, s, v).old = o
           /\ GotOf(b, c, o, s, v).stale = s /\ GotOf(b, c, o, s, v).void = v
  BY Zenon DEF GotOf

LEMMA GotShaped ==
    ASSUME NEW b, NEW c, NEW o, NEW s, NEW v, CfgShape(c), ApptShape(o)
    PROVE  GotShape(GotOf(b, c, o, s, v))
<1> DEFINE g == GotOf(b, c, o, s, v)
<1>1. g.bad = b /\ g.cfg = c /\ g.old = o /\ g.stale = s /\ g.void = v
  BY GotParts
<1> HIDE DEF g
<1>2. g = GotOf(b, c, o, s, v)
  BY DEF g
<1>3. GotShape(g)
  BY <1>1, <1>2, Zenon DEF GotShape
<1> QED
  BY <1>2, <1>3

LEMMA NoApptIs == ApptShape(NoAppt) /\ ~ NoAppt.with
<1>1. ~ NoAppt.with
  BY Zenon DEF NoAppt
<1>2. NoAppt.start = 0 /\ NoAppt.dur = 0 /\ NoAppt.status = "none" /\ NoAppt.with = FALSE
  BY Zenon DEF NoAppt
<1>3. NoAppt = [start |-> NoAppt.start, dur |-> NoAppt.dur, status |-> NoAppt.status, with |-> NoAppt.with]
  BY <1>2, Zenon DEF NoAppt
<1> QED
  BY <1>1, <1>2, <1>3 DEF ApptShape, Window

LEMMA NoAvailIs == CfgShape(NoAvail) /\ ~ NoAvail.set
<1>1. ~ NoAvail.set
  BY Zenon DEF NoAvail
<1>2. NoAvail.set = FALSE /\ NoAvail.usual = Usual /\ NoAvail.buffer = 0 /\ NoAvail.most = 0
  BY Zenon DEF NoAvail
<1>3. NoAvail = [set |-> NoAvail.set, usual |-> NoAvail.usual, buffer |-> NoAvail.buffer, most |-> NoAvail.most]
  BY <1>2, Zenon DEF NoAvail
<1> QED
  BY <1>1, <1>2, <1>3 DEF CfgShape, Usual

LEMMA BlankIs ==
    /\ Blank = GotOf(FALSE, NoAvail, NoAppt, FALSE, FALSE) /\ GotShape(Blank)
    /\ ~ Blank.bad /\ ~ Blank.stale /\ ~ Blank.void /\ Blank.old = NoAppt /\ Blank.cfg = NoAvail
<1>1. Blank = GotOf(FALSE, NoAvail, NoAppt, FALSE, FALSE)
  BY Zenon DEF Blank, GotOf
<1>2. ~ Blank.bad /\ ~ Blank.stale /\ ~ Blank.void /\ Blank.old = NoAppt /\ Blank.cfg = NoAvail
  BY Zenon DEF Blank
<1> QED
  BY <1>1, <1>2, GotShaped, NoApptIs, NoAvailIs

\* What a task learns, and what it keeps of what it knew.
Judged(g, b) == [g EXCEPT !.bad = b]
Timed(g, b, s) == [g EXCEPT !.bad = b, !.stale = s]
Fetched(g, o, b, s) == [g EXCEPT !.old = o, !.bad = b, !.stale = s]
Measured(g, o, b) == [g EXCEPT !.old = o, !.bad = b]
Looked(g, c, b) == [g EXCEPT !.cfg = c, !.bad = b]
FoundOut(g, o) == [g EXCEPT !.old = o]
Noticed(g, s, v) == [g EXCEPT !.stale = s, !.void = v]

LEMMA LearnedIs ==
    ASSUME NEW g, GotShape(g), NEW b, NEW c, NEW o, NEW s, NEW v
    PROVE  /\ Judged(g, b) = GotOf(b, g.cfg, g.old, g.stale, g.void)
           /\ Timed(g, b, s) = GotOf(b, g.cfg, g.old, s, g.void)
           /\ Fetched(g, o, b, s) = GotOf(b, g.cfg, o, s, g.void)
           /\ Measured(g, o, b) = GotOf(b, g.cfg, o, g.stale, g.void)
           /\ Looked(g, c, b) = GotOf(b, c, g.old, g.stale, g.void)
           /\ FoundOut(g, o) = GotOf(g.bad, g.cfg, o, g.stale, g.void)
           /\ Noticed(g, s, v) = GotOf(g.bad, g.cfg, g.old, s, v)
<1>1. g = GotOf(g.bad, g.cfg, g.old, g.stale, g.void)
  BY DEF GotShape
<1> SUFFICES ASSUME NEW b0, NEW c0, NEW o0, NEW s0, NEW v0, g = GotOf(b0, c0, o0, s0, v0)
             PROVE  /\ [g EXCEPT !.bad = b] = GotOf(b, c0, o0, s0, v0)
                    /\ [g EXCEPT !.bad = b, !.stale = s] = GotOf(b, c0, o0, s, v0)
                    /\ [g EXCEPT !.old = o, !.bad = b, !.stale = s] = GotOf(b, c0, o, s, v0)
                    /\ [g EXCEPT !.old = o, !.bad = b] = GotOf(b, c0, o, s0, v0)
                    /\ [g EXCEPT !.cfg = c, !.bad = b] = GotOf(b, c, o0, s0, v0)
                    /\ [g EXCEPT !.old = o] = GotOf(b0, c0, o, s0, v0)
                    /\ [g EXCEPT !.stale = s, !.void = v] = GotOf(b0, c0, o0, s, v)
  BY <1>1 DEF Judged, Timed, Fetched, Measured, Looked, FoundOut, Noticed
<1>2. [g EXCEPT !.bad = b] = GotOf(b, c0, o0, s0, v0)
  BY SMT DEF GotOf
<1>3. [g EXCEPT !.bad = b, !.stale = s] = GotOf(b, c0, o0, s, v0)
  <2> DEFINE h == [g EXCEPT !.bad = b]
  <2>1. [g EXCEPT !.bad = b, !.stale = s] = [h EXCEPT !.stale = s]
    OBVIOUS
  <2>2. h = GotOf(b, c0, o0, s0, v0)
    BY SMT DEF GotOf
  <2> HIDE DEF h
  <2>3. [h EXCEPT !.stale = s] = GotOf(b, c0, o0, s, v0)
    BY <2>2, SMT DEF GotOf
  <2> QED
    BY <2>1, <2>3
<1>4. [g EXCEPT !.old = o, !.bad = b, !.stale = s] = GotOf(b, c0, o, s, v0)
  <2> DEFINE h == [g EXCEPT !.old = o]
             i == [h EXCEPT !.bad = b]
  <2>1. [g EXCEPT !.old = o, !.bad = b, !.stale = s] = [i EXCEPT !.stale = s]
    OBVIOUS
  <2>2. h = GotOf(b0, c0, o, s0, v0)
    BY SMT DEF GotOf
  <2> HIDE DEF h
  <2>3. i = GotOf(b, c0, o, s0, v0)
    BY <2>2, SMT DEF GotOf
  <2> HIDE DEF i
  <2>4. [i EXCEPT !.stale = s] = GotOf(b, c0, o, s, v0)
    BY <2>3, SMT DEF GotOf
  <2> QED
    BY <2>1, <2>4
<1>5. [g EXCEPT !.old = o, !.bad = b] = GotOf(b, c0, o, s0, v0)
  <2> DEFINE h == [g EXCEPT !.old = o]
  <2>1. [g EXCEPT !.old = o, !.bad = b] = [h EXCEPT !.bad = b]
    OBVIOUS
  <2>2. h = GotOf(b0, c0, o, s0, v0)
    BY SMT DEF GotOf
  <2> HIDE DEF h
  <2>3. [h EXCEPT !.bad = b] = GotOf(b, c0, o, s0, v0)
    BY <2>2, SMT DEF GotOf
  <2> QED
    BY <2>1, <2>3
<1>6. [g EXCEPT !.cfg = c, !.bad = b] = GotOf(b, c, o0, s0, v0)
  <2> DEFINE h == [g EXCEPT !.cfg = c]
  <2>1. [g EXCEPT !.cfg = c, !.bad = b] = [h EXCEPT !.bad = b]
    OBVIOUS
  <2>2. h = GotOf(b0, c, o0, s0, v0)
    BY SMT DEF GotOf
  <2> HIDE DEF h
  <2>3. [h EXCEPT !.bad = b] = GotOf(b, c, o0, s0, v0)
    BY <2>2, SMT DEF GotOf
  <2> QED
    BY <2>1, <2>3
<1>7. [g EXCEPT !.old = o] = GotOf(b0, c0, o, s0, v0)
  BY SMT DEF GotOf
<1>8. [g EXCEPT !.stale = s, !.void = v] = GotOf(b0, c0, o0, s, v)
  <2> DEFINE h == [g EXCEPT !.stale = s]
  <2>1. [g EXCEPT !.stale = s, !.void = v] = [h EXCEPT !.void = v]
    OBVIOUS
  <2>2. h = GotOf(b0, c0, o0, s, v0)
    BY SMT DEF GotOf
  <2> HIDE DEF h
  <2>3. [h EXCEPT !.void = v] = GotOf(b0, c0, o0, s, v)
    BY <2>2, SMT DEF GotOf
  <2> QED
    BY <2>1, <2>3
<1> QED
  BY <1>2, <1>3, <1>4, <1>5, <1>6, <1>7, <1>8

\* A row with another duration.
LEMMA DurIs ==
    ASSUME NEW a, ApptShape(a), NEW d \in 0..Window
    PROVE  /\ ApptShape([a EXCEPT !.dur = d]) /\ [a EXCEPT !.dur = d].dur = d /\ [a EXCEPT !.dur = d].start = a.start
<1>1. a = [start |-> a.start, dur |-> a.dur, status |-> a.status, with |-> a.with]
  BY DEF ApptShape
<1> DEFINE e == [a EXCEPT !.dur = d]
<1>2. e = [start |-> a.start, dur |-> d, status |-> a.status, with |-> a.with]
  BY <1>1
<1>3. e.start = a.start /\ e.dur = d /\ e.status = a.status /\ e.with = a.with
  BY <1>2, Zenon
<1> HIDE DEF e
<1>4. ApptShape(e)
  BY <1>2, <1>3 DEF ApptShape
<1> QED
  BY <1>3, <1>4 DEF e

\* A row as it is written.
LEMMA ApptIs ==
    ASSUME NEW s, NEW d, NEW st, NEW w
    PROVE  LET a == [start |-> s, dur |-> d, status |-> st, with |-> w] IN
           /\ a.start = s /\ a.dur = d /\ a.status = st /\ a.with = w
           /\ s \in Nat /\ d \in 0..Window => ApptShape(a)
<1> DEFINE a == [start |-> s, dur |-> d, status |-> st, with |-> w]
<1>1. a.start = s /\ a.dur = d /\ a.status = st /\ a.with = w
  BY Zenon
<1>2. a = [start |-> s, dur |-> d, status |-> st, with |-> w]
  OBVIOUS
<1> HIDE DEF a
<1>3. s \in Nat /\ d \in 0..Window => ApptShape(a)
  BY <1>1, <1>2 DEF ApptShape
<1> QED
  BY <1>1, <1>3 DEF a

-----------------------------------------------------------------------------
(* What a step of one task leaves to the others. *)

\* The other tasks stay where they are, and notice what has changed.
Spared(t) ==
    \A v \in Tasks \ {t} :
        /\ call'[v].op = call[v].op /\ call'[v].at = call[v].at /\ call'[v].arg = call[v].arg
        /\ ~ Mine(v) => call'[v].got = call[v].got
        /\ Mine(v) =>
            /\ GotShape(call'[v].got)
            /\ call'[v].got.bad = call[v].got.bad /\ call'[v].got.cfg = call[v].got.cfg
            /\ call'[v].got.old = call[v].got.old
            /\ (call[v].got.stale => call'[v].got.stale) /\ (call[v].got.void => call'[v].got.void)
            /\ calendar' = calendar \/ (call'[v].got.stale /\ call'[v].got.void)
            /\ avail' = avail \/ call'[v].got.void

\* It writes about its own appointment.
KeepsRest(t) ==
    /\ tangled \subseteq tangled' /\ unseen \subseteq unseen'
    /\ born \subseteq born' /\ born' \subseteq born \cup Appts
    /\ \A id \in Appts : ~ (Mine(t) /\ Arg(t).id = id) => book'[id] = book[id] /\ ListingOf(id)' = ListingOf(id)

LEMMA SameForOthers ==
    ASSUME NEW t \in Tasks, NEW v \in Tasks \ {t}, Spared(t), Mine(v)
    PROVE  /\ Mine(v)' /\ Arg(v)' = Arg(v) /\ Start(v)' = Start(v) /\ Dur(v)' = Dur(v) /\ But(v)' = But(v)
           /\ NewStatus(v)' = NewStatus(v) /\ NewRow(v)' = NewRow(v)
           /\ (ListsRow(v)' <=> ListsRow(v)) /\ (Creates(v)' <=> Creates(v))
<1>1. /\ call'[v].op = call[v].op /\ call'[v].at = call[v].at /\ call'[v].arg = call[v].arg
      /\ call'[v].got.old = call[v].got.old
  BY DEF Spared
<1>2. Mine(v)' /\ Arg(v)' = Arg(v) /\ Start(v)' = Start(v) /\ Dur(v)' = Dur(v) /\ But(v)' = But(v) /\ NewStatus(v)' = NewStatus(v)
  BY <1>1 DEF Mine, Arg, Got, Start, Dur, But, NewStatus
<1>3. NewRow(v)' = NewRow(v)
  BY <1>2 DEF NewRow
<1>4. (ListsRow(v)' <=> ListsRow(v)) /\ (Creates(v)' <=> Creates(v))
  BY <1>1 DEF ListsRow, Creates, Arg, Got
<1> QED
  BY <1>2, <1>3, <1>4

\* The same calendar gives the same answers.
LEMMA SameLooks ==
    ASSUME calendar' = calendar
    PROVE  \A s, d, b : /\ Conflicts(s, d, b)' <=> Conflicts(s, d, b)
                        /\ Free(s, d, b)' <=> Free(s, d, b)
                        /\ avail' = avail => /\ OpenNow(s, d)' <=> OpenNow(s, d)
                                             /\ RoomNow(s, b)' <=> RoomNow(s, b)
                                             /\ FarNow(s, d, b)' <=> FarNow(s, d, b)
<1> SUFFICES ASSUME NEW s, NEW d, NEW b
             PROVE  /\ Conflicts(s, d, b)' <=> Conflicts(s, d, b)
                    /\ Free(s, d, b)' <=> Free(s, d, b)
                    /\ avail' = avail => /\ OpenNow(s, d)' <=> OpenNow(s, d)
                                         /\ RoomNow(s, b)' <=> RoomNow(s, b)
                                         /\ FarNow(s, d, b)' <=> FarNow(s, d, b)
  OBVIOUS
<1>1. \A from, to, but : InRange(from, to, but)' = InRange(from, to, but)
  BY DEF InRange
<1>2. Conflicts(s, d, b)' <=> Conflicts(s, d, b)
  BY <1>1 DEF Conflicts
<1>3. Free(s, d, b)' <=> Free(s, d, b)
  BY DEF Free
<1>4. \A m : DayFull(s, m, b)' <=> DayFull(s, m, b)
  BY <1>1 DEF DayFull
<1>5. \A m : TooClose(s, d, m, b)' <=> TooClose(s, d, m, b)
  BY <1>1 DEF TooClose
<1>6. ASSUME avail' = avail
      PROVE  /\ OpenNow(s, d)' <=> OpenNow(s, d)
             /\ RoomNow(s, b)' <=> RoomNow(s, b)
             /\ FarNow(s, d, b)' <=> FarNow(s, d, b)
  BY <1>4, <1>5, <1>6 DEF OpenNow, RoomNow, FarNow
<1> QED
  BY <1>2, <1>3, <1>6

LEMMA ListingSpared ==
    ASSUME NEW t \in Tasks, NEW v \in Tasks \ {t}, Spared(t), KeepsRest(t), OneBooker, ApAsks(v), ListingKnown(v)
    PROVE  ListingKnown(v)'
<1> SUFFICES ASSUME Mine(v)', Arg(v)'.id \notin tangled'
             PROVE  ListingKnown(v)'
  BY DEF ListingKnown
<1>1. Mine(v) /\ call'[v].op = call[v].op /\ call'[v].at = call[v].at
  BY DEF Spared, Mine
<1>2. /\ Arg(v)' = Arg(v) /\ NewRow(v)' = NewRow(v) /\ (Creates(v)' <=> Creates(v))
      /\ Got(v)'.old = Got(v).old
  BY <1>1, SameForOthers DEF Spared, Got
<1> SUFFICES ASSUME NEW id \in Appts, id = Arg(v).id
             PROVE  ListingKnown(v)'
  BY <1>1 DEF ApAsks
<1>3. id \notin tangled' /\ id \notin tangled
  BY <1>2 DEF KeepsRest
<1>4. book'[id] = book[id] /\ ListingOf(id)' = ListingOf(id)
  BY <1>1, <1>3 DEF KeepsRest, OneBooker
<1>5. Agrees(id)' <=> Agrees(id)
  BY <1>4 DEF Agrees, RowOf
<1> QED
  BY <1>1, <1>2, <1>3, <1>4, <1>5 DEF ListingKnown, RowOf

LEMMA FreeSpared ==
    ASSUME NEW t \in Tasks, NEW v \in Tasks \ {t}, Spared(t), KeepsRest(t), FreeKnown(v)
    PROVE  FreeKnown(v)'
<1> SUFFICES ASSUME call'[v].op \in {"book", "change"}, ~ Got(v)'.stale
             PROVE  FreeKnown(v)'
  BY DEF FreeKnown
<1>1. Mine(v) /\ call'[v].op = call[v].op /\ call'[v].at = call[v].at
  BY DEF Spared, Mine, Booking
<1>2. /\ Arg(v)' = Arg(v) /\ Start(v)' = Start(v) /\ Dur(v)' = Dur(v) /\ (ListsRow(v)' <=> ListsRow(v))
      /\ Got(v)'.old = Got(v).old /\ Got(v)'.bad = Got(v).bad
  BY <1>1, SameForOthers DEF Spared, Got
<1>3. ~ Got(v).stale /\ calendar' = calendar /\ unseen \subseteq unseen' /\ tangled \subseteq tangled'
  BY <1>1 DEF Spared, KeepsRest, Got
<1> SUFFICES ASSUME NEW s, NEW d, NEW id, s = Start(v), d = Dur(v), id = Arg(v).id
             PROVE  FreeKnown(v)'
  OBVIOUS
<1>4. (Free(s, d, id)' <=> Free(s, d, id)) /\ (FreeOfSeen(s, d, id) => FreeOfSeen(s, d, id)')
  BY <1>3, SameLooks DEF FreeOfSeen
<1> QED
  BY <1>1, <1>2, <1>3, <1>4 DEF FreeKnown

LEMMA ToolSpared ==
    ASSUME NEW t \in Tasks, NEW v \in Tasks \ {t}, Spared(t), KeepsRest(t), OneBooker, ApAsks(v), ToolKnown(v)
    PROVE  ToolKnown(v)'
<1> SUFFICES ASSUME call'[v].op = "tool", Arg(v)'.dated, ~ Got(v)'.void
             PROVE  ToolKnown(v)'
  BY DEF ToolKnown
<1>1. Mine(v) /\ call'[v].op = call[v].op /\ call'[v].at = call[v].at
  BY DEF Spared, Mine, Booking
<1>2. /\ Arg(v)' = Arg(v) /\ Start(v)' = Start(v) /\ Dur(v)' = Dur(v) /\ But(v)' = But(v)
      /\ Got(v)'.old = Got(v).old /\ Got(v)'.bad = Got(v).bad /\ Got(v)'.cfg = Got(v).cfg
  BY <1>1, SameForOthers DEF Spared, Got
<1>3. ~ Got(v).void /\ calendar' = calendar /\ avail' = avail /\ tangled \subseteq tangled'
  BY <1>1 DEF Spared, KeepsRest, Got
<1> SUFFICES ASSUME NEW s, NEW d, NEW b, NEW id \in Appts, s = Start(v), d = Dur(v), b = But(v), id = Arg(v).id
             PROVE  ToolKnown(v)'
  BY <1>1 DEF ApAsks
<1>4. /\ Conflicts(s, d, b)' <=> Conflicts(s, d, b)
      /\ OpenNow(s, d)' <=> OpenNow(s, d)
      /\ RoomNow(s, b)' <=> RoomNow(s, b)
      /\ FarNow(s, d, b)' <=> FarNow(s, d, b)
  BY <1>3, SameLooks
<1>5. (PassedSoFar(v, s, d, b)' <=> PassedSoFar(v, s, d, b)) /\ (Valid(s, d, b)' <=> Valid(s, d, b))
  BY <1>1, <1>4 DEF PassedSoFar, Valid
<1>6. id \notin tangled' => book'[id] = book[id] /\ id \notin tangled
  BY <1>1, <1>3 DEF KeepsRest, OneBooker
<1> QED
  BY <1>1, <1>2, <1>3, <1>5, <1>6 DEF ToolKnown

LEMMA TurnSpared ==
    ASSUME NEW t \in Tasks, NEW v \in Tasks \ {t}, Spared(t), KeepsRest(t), OneBooker, ApAsks(v), TurnKnown(v)
    PROVE  TurnKnown(v)'
<1> SUFFICES ASSUME call'[v].op \in {"book", "change"}, Arg(v)'.promised, ~ Got(v)'.void, Arg(v)'.id \notin tangled'
             PROVE  TurnKnown(v)'
  BY DEF TurnKnown
<1>1. Mine(v) /\ call'[v].op = call[v].op /\ call'[v].at = call[v].at
  BY DEF Spared, Mine, Booking
<1>2. /\ Arg(v)' = Arg(v) /\ Start(v)' = Start(v) /\ Dur(v)' = Dur(v) /\ But(v)' = But(v)
      /\ Got(v)'.bad = Got(v).bad /\ Got(v)'.cfg = Got(v).cfg
  BY <1>1, SameForOthers DEF Spared, Got
<1>3. ~ Got(v).void /\ calendar' = calendar /\ avail' = avail /\ tangled \subseteq tangled'
  BY <1>1 DEF Spared, KeepsRest, Got
<1> SUFFICES ASSUME NEW id \in Appts, id = Arg(v).id
             PROVE  TurnKnown(v)'
  BY <1>1 DEF ApAsks
<1>4. id \notin tangled /\ id \notin tangled' /\ book'[id] = book[id]
  BY <1>1, <1>2, <1>3 DEF KeepsRest, OneBooker
<1>5. \A s, d, b : Valid(s, d, b)' <=> Valid(s, d, b)
  BY <1>3, SameLooks DEF Valid
<1> SUFFICES ASSUME NEW s, NEW d, NEW b, NEW s2, NEW d2, s = Start(v), d = Dur(v), b = But(v), s2 = Arg(v).start,
                    d2 = (IF Arg(v).dur # 0 THEN Arg(v).dur ELSE book[id].dur)
             PROVE  TurnKnown(v)'
  OBVIOUS
<1>6. (Valid(s, d, b)' <=> Valid(s, d, b)) /\ (Valid(s2, d2, id)' <=> Valid(s2, d2, id))
  BY <1>5
<1> QED
  BY <1>1, <1>2, <1>3, <1>4, <1>6 DEF TurnKnown

LEMMA AsksSpared ==
    ASSUME NEW t \in Tasks, NEW v \in Tasks \ {t}, Spared(t), KeepsRest(t), ApAsks(v)
    PROVE  ApAsks(v)'
<1>1. call'[v].op = call[v].op /\ call'[v].at = call[v].at /\ Arg(v)' = Arg(v) /\ born \subseteq born'
  BY DEF Spared, KeepsRest, Arg
<1>2. CASE Mine(v)
  <2>1. (ListsRow(v)' <=> ListsRow(v)) /\ GotShape(Got(v))' /\ Got(v)'.old = Got(v).old
    BY <1>2, SameForOthers DEF Spared, Got, GotShape, CfgShape, ApptShape, GotOf
  <2> QED
    BY <1>1, <1>2, <2>1 DEF ApAsks, Mine, Booking
<1>3. CASE ~ Mine(v)
  <2>1. Got(v)' = Got(v) /\ CfgShape(Got(v))' = CfgShape(Got(v)) /\ ~ Mine(v)'
    BY <1>1, <1>3 DEF Spared, Got, CfgShape, Mine
  <2> QED
    BY <1>1, <1>3, <2>1 DEF ApAsks, Mine, Booking
<1> QED
  BY <1>2, <1>3

\* A task that takes an appointment up is alone with it, or tangles it.
AloneOrTangled(t) ==
    Mine(t)' => IF Mine(t) THEN call'[t].arg.id = Arg(t).id
                ELSE \A v \in Tasks \ {t} :
                        Mine(v) /\ Arg(v).id = call'[t].arg.id => call'[t].arg.id \in tangled'

\* And leaves it with its two tables in agreement.
LeavesItTidy(t) ==
    \A id \in Appts \ tangled' : Mine(t) /\ Arg(t).id = id /\ ~ Mine(t)' => Agrees(id)'

\* A step that keeps all this keeps the invariant.
LEMMA ApptStep ==
    ASSUME ApptInv, NEW t \in Tasks, Shaped', ApTables', NoDoubleBooking', ~ broken',
           Spared(t), KeepsRest(t), AloneOrTangled(t), LeavesItTidy(t), ApAsks(t)', ApKnows(t)'
    PROVE  ApptInv'
<1>1. ASSUME NEW v \in Tasks
      PROVE  ApAsks(v)' /\ ApKnows(v)'
  <2>1. CASE v # t
    BY <2>1, ListingSpared, FreeSpared, ToolSpared, TurnSpared, AsksSpared DEF ApptInv, ApKnows
  <2> QED
    BY <2>1
<1>2. OneBooker'
  <2> SUFFICES ASSUME NEW u \in Tasks, NEW v \in Tasks, u # v, Mine(u)', Mine(v)', Arg(u)'.id = Arg(v)'.id
               PROVE  Arg(u)'.id \in tangled'
    BY DEF OneBooker
  <2>1. \A w \in Tasks \ {t} : (Mine(w)' <=> Mine(w)) /\ Arg(w)' = Arg(w)
    BY DEF Spared, Mine, Arg
  <2>2. CASE u # t /\ v # t
    BY <2>1, <2>2 DEF ApptInv, OneBooker, KeepsRest
  <2>3. CASE u = t
    BY <2>1, <2>3 DEF ApptInv, OneBooker, KeepsRest, AloneOrTangled, Arg
  <2>4. CASE v = t
    BY <2>1, <2>4 DEF ApptInv, OneBooker, KeepsRest, AloneOrTangled, Arg
  <2> QED
    BY <2>2, <2>3, <2>4
<1>3. Unborn'
  <2> SUFFICES ASSUME NEW id \in Appts \ born'
               PROVE  book'[id] = NoAppt /\ ListingOf(id)' = {}
    BY DEF Unborn, KeepsRest, ApptInv
  <2>1. id \notin born
    BY DEF KeepsRest
  <2>2. ~ (Mine(t) /\ Arg(t).id = id)
    BY <2>1 DEF ApptInv, ApAsks
  <2> QED
    BY <2>1, <2>2 DEF KeepsRest, ApptInv, Unborn
<1>4. ASSUME NEW id \in Appts \ tangled', Untouched(id)'
      PROVE  Agrees(id)'
  <2>1. id \notin tangled
    BY DEF KeepsRest
  <2>2. \A w \in Tasks \ {t} : (Mine(w)' <=> Mine(w)) /\ Arg(w)' = Arg(w)
    BY DEF Spared, Mine, Arg
  <2>3. CASE Mine(t) /\ Arg(t).id = id
    <3>1. ~ Mine(t)'
      BY <1>4, <2>3 DEF Untouched, AloneOrTangled, ApptInv, OneBooker, Arg
    <3> QED
      BY <2>3, <3>1 DEF LeavesItTidy
  <2>4. CASE ~ (Mine(t) /\ Arg(t).id = id)
    <3>1. Untouched(id)
      BY <1>4, <2>2, <2>4 DEF Untouched
    <3>2. Agrees(id)
      BY <2>1, <3>1 DEF ApptInv
    <3>3. book'[id] = book[id] /\ ListingOf(id)' = ListingOf(id)
      BY <2>4 DEF KeepsRest
    <3> QED
      BY <3>2, <3>3 DEF Agrees, RowOf
  <2> QED
    BY <2>3, <2>4
<1> QED
  BY <1>1, <1>2, <1>3, <1>4 DEF ApptInv

\* The tables stay as they are.
LEMMA QuietTables ==
    ASSUME ApptInv, NEW t \in Tasks, Only(t), UNCHANGED apTables,
           tangled \subseteq tangled', unseen \subseteq unseen', born \subseteq born', born' \subseteq born \cup Appts
    PROVE  ApTables' /\ NoDoubleBooking' /\ Spared(t) /\ KeepsRest(t)
<1>1. book' = book /\ calendar' = calendar /\ avail' = avail
  BY DEF apTables
<1>2. ApTables'
  BY <1>1 DEF ApptInv, ApTables
<1>3. NoDoubleBooking'
  BY <1>1 DEF ApptInv, NoDoubleBooking, Live
<1>4. Spared(t)
  BY <1>1 DEF ApptInv, ApAsks, Spared, Only, Got
<1>5. KeepsRest(t)
  BY <1>1 DEF KeepsRest, ListingOf
<1> QED
  BY <1>2, <1>3, <1>4, <1>5

\* A task on no appointment knows nothing of them.
LEMMA IdleKnows ==
    ASSUME NEW t \in Tasks, call'[t].op \notin Booking
    PROVE  ApKnows(t)' /\ AloneOrTangled(t)
  BY DEF ApKnows, ListingKnown, FreeKnown, ToolKnown, TurnKnown, AloneOrTangled, Mine, Booking

LEMMA CeasesAsks ==
    ASSUME NEW t \in Tasks, Ceases(t)
    PROVE  ApAsks(t)' /\ ApKnows(t)' /\ AloneOrTangled(t)
<1>1. call'[t].op = "none"
  BY DEF Ceases
<1>2. ApAsks(t)'
  BY <1>1 DEF ApAsks, Mine, Booking
<1> QED
  BY <1>1, <1>2, IdleKnows DEF Booking

\* A call that goes on asks for the same thing.
LEMMA SameArgs ==
    ASSUME NEW t \in Tasks, Mine(t), call'[t].op = call[t].op, call'[t].arg = call[t].arg, call'[t].got.old = call[t].got.old
    PROVE  /\ Mine(t)' /\ Arg(t)' = Arg(t) /\ Start(t)' = Start(t) /\ Dur(t)' = Dur(t) /\ But(t)' = But(t)
           /\ NewStatus(t)' = NewStatus(t) /\ NewRow(t)' = NewRow(t)
           /\ (ListsRow(t)' <=> ListsRow(t)) /\ (Creates(t)' <=> Creates(t)) /\ AloneOrTangled(t) /\ LeavesItTidy(t)
<1>1. /\ Mine(t)' /\ Arg(t)' = Arg(t) /\ Start(t)' = Start(t) /\ Dur(t)' = Dur(t) /\ But(t)' = But(t)
      /\ NewStatus(t)' = NewStatus(t)
  BY DEF Mine, Arg, Got, Start, Dur, But, NewStatus
<1>2. NewRow(t)' = NewRow(t)
  BY <1>1 DEF NewRow
<1>3. (ListsRow(t)' <=> ListsRow(t)) /\ (Creates(t)' <=> Creates(t))
  BY DEF ListsRow, Creates, Arg, Got
<1>4. AloneOrTangled(t) /\ LeavesItTidy(t)
  BY <1>1 DEF AloneOrTangled, LeavesItTidy, Arg
<1> QED
  BY <1>1, <1>2, <1>3, <1>4

LEMMA SameForOwn ==
    ASSUME NEW t \in Tasks, Mine(t), NEW at, NEW got, Continues(t, at, got), got.old = Got(t).old
    PROVE  /\ Mine(t)' /\ Arg(t)' = Arg(t) /\ Start(t)' = Start(t) /\ Dur(t)' = Dur(t) /\ But(t)' = But(t)
           /\ NewStatus(t)' = NewStatus(t) /\ NewRow(t)' = NewRow(t)
           /\ (ListsRow(t)' <=> ListsRow(t)) /\ (Creates(t)' <=> Creates(t)) /\ AloneOrTangled(t) /\ LeavesItTidy(t)
<1>1. call'[t].op = call[t].op /\ call'[t].arg = call[t].arg /\ call'[t].got.old = call[t].got.old
  BY DEF Continues, Got
<1> QED
  BY <1>1, SameArgs

-----------------------------------------------------------------------------
(* Calls begin and end. *)

\* A task that begins was at nothing.
LEMMA TakesUp ==
    ASSUME Shaped, NEW t \in Tasks, NEW op, NEW at, NEW arg, NEW got, BeginWith(t, op, at, arg, got)
    PROVE  /\ Shaped' /\ Only(t) /\ ~ Mine(t) /\ call[t].op = "none"
           /\ call'[t].op = op /\ call'[t].at = at /\ call'[t].arg = arg /\ call'[t].got = got
  BY DEF BeginWith, Shaped, Only, Mine, Running, Booking

LEMMA TakesUpOn ==
    ASSUME ApptInv, NEW t \in Tasks, NEW op \in Booking, NEW at, NEW arg, BeginOn(t, op, at, arg)
    PROVE  /\ Shaped' /\ Only(t) /\ ~ Mine(t) /\ AloneOrTangled(t) /\ LeavesItTidy(t)
           /\ call'[t].op = op /\ call'[t].at = at /\ call'[t].arg = arg /\ call'[t].got = Blank
           /\ tangled \subseteq tangled'
           /\ arg.id \in Appts \ tangled' => arg.id \notin tangled /\ Agrees(arg.id)
<1>1. /\ Shaped' /\ Only(t) /\ ~ Mine(t) /\ call[t].op = "none"
      /\ call'[t].op = op /\ call'[t].at = at /\ call'[t].arg = arg /\ call'[t].got = Blank
  BY TakesUp DEF BeginOn, ApptInv
<1>2. \A u \in Tasks \ {t} : Mine(u) => u \in Others(t)
  BY DEF Mine, Others, Running, Booking
<1>3. /\ tangled \subseteq tangled'
      /\ \A u \in Tasks \ {t} : Mine(u) /\ Arg(u).id = arg.id => arg.id \in tangled'
  BY <1>2 DEF BeginOn, Mine
<1>4. AloneOrTangled(t) /\ LeavesItTidy(t)
  BY <1>1, <1>3 DEF AloneOrTangled, LeavesItTidy
<1>5. arg.id \in Appts \ tangled' => arg.id \notin tangled /\ Agrees(arg.id)
  BY <1>1, <1>3 DEF ApptInv, Untouched
<1> QED
  BY <1>1, <1>3, <1>4, <1>5

LEMMA CallKeeps ==
    ASSUME ApptInv, NEW t \in Tasks, NEW op \in Booking, NEW at, NEW arg, BeginOn(t, op, at, arg),
           UNCHANGED <<apTables, unseen, broken>>, born \subseteq born', born' \subseteq born \cup Appts,
           ApAsks(t)', ApKnows(t)'
    PROVE  ApptInv'
<1>1. /\ Shaped' /\ Only(t) /\ AloneOrTangled(t) /\ LeavesItTidy(t) /\ tangled \subseteq tangled'
  BY TakesUpOn
<1>2. ApTables' /\ NoDoubleBooking' /\ Spared(t) /\ KeepsRest(t)
  BY <1>1, QuietTables
<1>3. ~ broken'
  BY DEF ApptInv
<1> QED
  BY <1>1, <1>2, <1>3, ApptStep

LEMMA SlotIs == \A slot \in Slots : slot.start \in Nat /\ slot.dur \in 0..Window
  BY AppointmentsAssumption

LEMMA BookCallKeeps ==
    ASSUME ApptInv, NEW t \in Tasks, BookCall(t)
    PROVE  ApptInv'
<1>1. PICK id \in Appts \ born, slot \in Slots, with \in BOOLEAN :
        /\ slot.dur # 0
        /\ BeginOn(t, "book", "begin",
             [id |-> id, start |-> slot.start, dur |-> slot.dur, status |-> "confirmed",
              with |-> with, dated |-> TRUE, promised |-> FALSE])
        /\ born' = born \cup {id}
  BY DEF BookCall
<1> DEFINE arg == [id |-> id, start |-> slot.start, dur |-> slot.dur, status |-> "confirmed",
                   with |-> with, dated |-> TRUE, promised |-> FALSE]
<1>2. arg.id = id /\ arg.start = slot.start /\ arg.dur = slot.dur /\ arg.status = "confirmed" /\ arg.dated /\ ~ arg.promised
  BY Zenon
<1>3. BeginOn(t, "book", "begin", arg)
  BY <1>1
<1> HIDE DEF arg
<1>4. UNCHANGED <<apTables, unseen, broken>>
  BY DEF BookCall
<1>5. call'[t].op = "book" /\ call'[t].at = "begin" /\ call'[t].arg = arg /\ call'[t].got = Blank /\ tangled \subseteq tangled'
  BY <1>3, TakesUpOn DEF Booking
<1>6. book' = book /\ ListingOf(id)' = ListingOf(id)
  BY <1>4 DEF apTables, ListingOf
<1>7. book[id] = NoAppt /\ Agrees(id)
  BY <1>1, NoApptIs DEF ApptInv, Unborn, Agrees
<1>8. ApAsks(t)'
  <2>1. GotShape(Got(t))'
    BY <1>5, BlankIs DEF Got, GotShape, CfgShape, ApptShape, GotOf
  <2> QED
    BY <1>1, <1>2, <1>5, <2>1, SlotIs DEF ApAsks, Mine, Booking, Arg, Got, ApPlaces, ListsRow
<1>9. ListingKnown(t)'
  BY <1>2, <1>5, <1>6, <1>7 DEF ListingKnown, Creates, Arg, Mine, Agrees, RowOf
<1>10. FreeKnown(t)' /\ ToolKnown(t)' /\ TurnKnown(t)'
  BY <1>2, <1>5 DEF FreeKnown, ToolKnown, TurnKnown, Arg
<1> QED
  BY <1>1, <1>3, <1>4, <1>8, <1>9, <1>10, CallKeeps DEF ApKnows, Booking

LEMMA ChangeCallKeeps ==
    ASSUME ApptInv, NEW t \in Tasks, ChangeCall(t)
    PROVE  ApptInv'
<1>1. PICK id \in born, edit \in Edits :
        BeginOn(t, "change", "get",
            [id |-> id, start |-> edit.start, dur |-> edit.dur, status |-> edit.status,
             with |-> TRUE, dated |-> edit.start # 0, promised |-> FALSE])
  BY DEF ChangeCall
<1> SUFFICES ASSUME NEW b, b = (edit.start # 0)
             PROVE  ApptInv'
  OBVIOUS
<1> DEFINE arg == [id |-> id, start |-> edit.start, dur |-> edit.dur, status |-> edit.status,
                   with |-> TRUE, dated |-> b, promised |-> FALSE]
<1>2. arg.id = id /\ arg.start = edit.start /\ arg.dur = edit.dur /\ arg.status = edit.status /\ arg.dated = b /\ ~ arg.promised
  BY Zenon
<1>3. BeginOn(t, "change", "get", arg)
  BY <1>1, Zenon
<1> HIDE DEF arg
<1>4. UNCHANGED <<apTables, born, unseen, broken>>
  BY DEF ChangeCall
<1>5. /\ call'[t].op = "change" /\ call'[t].at = "get" /\ call'[t].arg = arg /\ call'[t].got = Blank
      /\ tangled \subseteq tangled'
      /\ id \in Appts \ tangled' => Agrees(id)
  BY <1>2, <1>3, TakesUpOn DEF Booking
<1>6. book' = book /\ ListingOf(id)' = ListingOf(id)
  BY <1>4 DEF apTables, ListingOf
<1>7. id \in Appts
  BY DEF ApptInv, Unborn
<1>8. ApAsks(t)'
  <2>1. GotShape(Got(t))'
    BY <1>5, BlankIs DEF Got, GotShape, CfgShape, ApptShape, GotOf
  <2>2. edit.start \in Nat /\ edit.dur \in 0..Window /\ edit.status \in {"same", "cancelled", "confirmed"}
    BY AppointmentsAssumption
  <2> QED
    BY <1>1, <1>2, <1>4, <1>5, <1>7, <2>1, <2>2 DEF ApAsks, Mine, Booking, Arg, Got, ApPlaces, ListsRow
<1>9. ListingKnown(t)'
  BY <1>2, <1>5, <1>6, <1>7 DEF ListingKnown, Creates, Arg, Mine, Agrees, RowOf
<1>10. FreeKnown(t)' /\ ToolKnown(t)' /\ TurnKnown(t)'
  BY <1>2, <1>5 DEF FreeKnown, ToolKnown, TurnKnown, Arg
<1> QED
  BY <1>1, <1>3, <1>4, <1>8, <1>9, <1>10, CallKeeps DEF ApKnows, Booking

LEMMA RemoveCallKeeps ==
    ASSUME ApptInv, NEW t \in Tasks, RemoveCall(t)
    PROVE  ApptInv'
<1>1. PICK id \in born : BeginOn(t, "remove", "get", [id |-> id])
  BY DEF RemoveCall
<1>2. UNCHANGED <<apTables, born, unseen, broken>>
  BY DEF RemoveCall
<1>3. /\ call'[t].op = "remove" /\ call'[t].at = "get" /\ call'[t].arg.id = id /\ call'[t].got = Blank
      /\ tangled \subseteq tangled'
      /\ id \in Appts \ tangled' => Agrees(id)
  BY <1>1, TakesUpOn DEF Booking
<1>4. book' = book /\ ListingOf(id)' = ListingOf(id)
  BY <1>2 DEF apTables, ListingOf
<1>5. id \in Appts
  BY DEF ApptInv, Unborn
<1>6. ApAsks(t)'
  <2>1. GotShape(Got(t))'
    BY <1>3, BlankIs DEF Got, GotShape, CfgShape, ApptShape, GotOf
  <2> QED
    BY <1>1, <1>2, <1>3, <1>5, <2>1 DEF ApAsks, Mine, Booking, Arg, Got, ApPlaces, ListsRow
<1>7. ListingKnown(t)'
  BY <1>3, <1>4, <1>5 DEF ListingKnown, Creates, Arg, Mine, Agrees, RowOf
<1>8. FreeKnown(t)' /\ ToolKnown(t)' /\ TurnKnown(t)'
  BY <1>3 DEF FreeKnown, ToolKnown, TurnKnown, Arg
<1> QED
  BY <1>1, <1>2, <1>6, <1>7, <1>8, CallKeeps DEF ApKnows, Booking

LEMMA ToolCallKeeps ==
    ASSUME ApptInv, NEW t \in Tasks, ToolCall(t)
    PROVE  ApptInv'
<1>1. UNCHANGED <<apTables, unseen, broken>>
  BY DEF ToolCall
<1>2. ASSUME NEW id \in Appts, NEW slot \in Slots, born' = born \cup {id},
             BeginOn(t, "tool", "usual",
                 [id |-> id, start |-> slot.start, dur |-> slot.dur,
                  status |-> IF id \in born THEN "rescheduled" ELSE "confirmed",
                  with |-> TRUE, dated |-> TRUE, promised |-> TRUE])
      PROVE  ApptInv'
  <2> DEFINE arg == [id |-> id, start |-> slot.start, dur |-> slot.dur,
                     status |-> IF id \in born THEN "rescheduled" ELSE "confirmed",
                     with |-> TRUE, dated |-> TRUE, promised |-> TRUE]
  <2>1. /\ arg.id = id /\ arg.start = slot.start /\ arg.dur = slot.dur
        /\ arg.status = (IF id \in born THEN "rescheduled" ELSE "confirmed")
        /\ arg.with /\ arg.dated /\ arg.promised
    BY Zenon
  <2>9. AskShape(arg)
    BY <2>1, Zenon DEF AskShape
  <2>2. BeginOn(t, "tool", "usual", arg)
    BY <1>2
  <2> HIDE DEF arg
  <2>3. /\ call'[t].op = "tool" /\ call'[t].at = "usual" /\ call'[t].arg = arg /\ call'[t].got = Blank
        /\ tangled \subseteq tangled'
        /\ id \in Appts \ tangled' => Agrees(id)
    BY <2>1, <2>2, TakesUpOn DEF Booking
  <2>4. book' = book /\ ListingOf(id)' = ListingOf(id)
    BY <1>1 DEF apTables, ListingOf
  <2>5. id \notin born => book[id] = NoAppt
    BY DEF ApptInv, Unborn
  <2>6. ApAsks(t)'
    <3>1. GotShape(Got(t))'
      BY <2>3, BlankIs DEF Got, GotShape, CfgShape, ApptShape, GotOf
    <3> QED
      BY <1>2, <2>1, <2>3, <2>9, <3>1, SlotIs DEF AskShape, ApAsks, Mine, Booking, Arg, Got, ApPlaces, ListsRow
  <2>7. ListingKnown(t)'
    BY <2>1, <2>3, <2>4, <2>5 DEF ListingKnown, Creates, Arg, Mine, Agrees, RowOf
  <2>8. FreeKnown(t)' /\ ToolKnown(t)' /\ TurnKnown(t)'
    BY <2>1, <2>3 DEF FreeKnown, ToolKnown, TurnKnown, Arg
  <2> QED
    BY <1>1, <1>2, <2>2, <2>6, <2>7, <2>8, CallKeeps DEF ApKnows, Booking
<1>3. ASSUME NEW id \in born, UNCHANGED born,
             BeginOn(t, "tool", "queued",
                 [id |-> id, start |-> 0, dur |-> 0, status |-> "cancelled",
                  with |-> TRUE, dated |-> FALSE, promised |-> TRUE])
      PROVE  ApptInv'
  <2> DEFINE arg == [id |-> id, start |-> 0, dur |-> 0, status |-> "cancelled",
                     with |-> TRUE, dated |-> FALSE, promised |-> TRUE]
  <2>1. /\ arg.id = id /\ arg.start = 0 /\ arg.dur = 0 /\ arg.status = "cancelled"
        /\ arg.with /\ ~ arg.dated /\ arg.promised
    BY Zenon
  <2>9. AskShape(arg)
    BY <2>1, Zenon DEF AskShape
  <2>2. BeginOn(t, "tool", "queued", arg)
    BY <1>3
  <2> HIDE DEF arg
  <2>3. /\ call'[t].op = "tool" /\ call'[t].at = "queued" /\ call'[t].arg = arg /\ call'[t].got = Blank
        /\ tangled \subseteq tangled'
        /\ id \in Appts \ tangled' => Agrees(id)
    BY <2>1, <2>2, TakesUpOn DEF Booking
  <2>4. book' = book /\ ListingOf(id)' = ListingOf(id)
    BY <1>1 DEF apTables, ListingOf
  <2>5. id \in Appts
    BY DEF ApptInv, Unborn
  <2>6. ApAsks(t)'
    <3>1. GotShape(Got(t))'
      BY <2>3, BlankIs DEF Got, GotShape, CfgShape, ApptShape, GotOf
    <3> QED
      BY <1>3, <2>1, <2>3, <2>5, <2>9, <3>1 DEF AskShape, ApAsks, Mine, Booking, Arg, Got, ApPlaces, ListsRow, Window
  <2>7. ListingKnown(t)'
    BY <2>1, <2>3, <2>4, <2>5 DEF ListingKnown, Creates, Arg, Mine, Agrees, RowOf
  <2>8. FreeKnown(t)' /\ ToolKnown(t)' /\ TurnKnown(t)'
    BY <2>1, <2>3 DEF FreeKnown, ToolKnown, TurnKnown, Arg
  <2> QED
    BY <1>1, <1>3, <2>2, <2>6, <2>7, <2>8, CallKeeps DEF ApKnows, Booking
<1> QED
  BY <1>2, <1>3 DEF ToolCall

\* A call on the availability is on no appointment.
LEMMA AvailCallKeeps ==
    ASSUME ApptInv, NEW t \in Tasks, AvailCall(t)
    PROVE  ApptInv'
<1>1. UNCHANGED apVars
  BY DEF AvailCall
<1>2. PICK arg : /\ BeginWith(t, "avail", "read", arg, <<>>)
                 /\ \/ arg.field = "buffer" /\ arg.is \in 0..1
                    \/ arg.field = "most"
                    \/ arg.field = "usual" /\ arg.is \in 1..2
  <2>1. CASE \E b \in 0..1 : Begin(t, "avail", "read", [field |-> "buffer", is |-> b])
    BY <2>1 DEF Begin
  <2>2. CASE \E m \in 0..1 : Begin(t, "avail", "read", [field |-> "most", is |-> m])
    BY <2>2 DEF Begin
  <2>3. CASE \E d \in 1..2 : Begin(t, "avail", "read", [field |-> "usual", is |-> d])
    BY <2>3 DEF Begin
  <2> QED
    BY <2>1, <2>2, <2>3 DEF AvailCall
<1>3. /\ Shaped' /\ Only(t) /\ ~ Mine(t)
      /\ call'[t].op = "avail" /\ call'[t].at = "read" /\ call'[t].arg = arg
  BY <1>2, TakesUp DEF ApptInv
<1>4. ApTables' /\ NoDoubleBooking' /\ Spared(t) /\ KeepsRest(t)
  BY <1>1, <1>3, QuietTables DEF apVars
<1>5. ApAsks(t)'
  BY <1>2, <1>3 DEF ApAsks, Mine, Booking, Arg
<1>6. ApKnows(t)' /\ AloneOrTangled(t)
  BY <1>3, IdleKnows DEF Booking
<1>7. LeavesItTidy(t) /\ ~ broken'
  BY <1>1, <1>3 DEF LeavesItTidy, apVars, ApptInv
<1> QED
  BY <1>3, <1>4, <1>5, <1>6, <1>7, ApptStep

\* A call ends and has nothing left to write.
LEMMA QuietEnd ==
    ASSUME ApptInv, NEW t \in Tasks, Ceases(t), UNCHANGED <<apTables, born, unseen>>, tangled \subseteq tangled', ~ broken',
           Mine(t) /\ Arg(t).id \notin tangled' => call[t].at \notin {"unlist", "list"}
    PROVE  ApptInv'
<1>1. Shaped' /\ Only(t)
  BY DEF Ceases
<1>2. ApTables' /\ NoDoubleBooking' /\ Spared(t) /\ KeepsRest(t)
  BY <1>1, QuietTables
<1>3. LeavesItTidy(t)
  <2> SUFFICES ASSUME NEW id \in Appts \ tangled', Mine(t), Arg(t).id = id
               PROVE  Agrees(id)'
    BY DEF LeavesItTidy
  <2>1. Agrees(id)
    BY DEF ApptInv, ApKnows, ListingKnown
  <2>2. book' = book /\ calendar' = calendar
    BY DEF apTables
  <2> QED
    BY <2>1, <2>2 DEF Agrees, RowOf, ListingOf
<1> QED
  BY <1>1, <1>2, <1>3, CeasesAsks, ApptStep

\* A call goes on, with what it has read.
LEMMA QuietGoes ==
    ASSUME ApptInv, NEW t \in Tasks, Mine(t), NEW at, NEW got, Continues(t, at, got), UNCHANGED apVars,
           ApAsks(t)', ApKnows(t)'
    PROVE  ApptInv'
<1>1. Shaped' /\ Only(t) /\ call'[t].op = call[t].op /\ call'[t].arg = call[t].arg
  BY DEF Continues
<1>2. ApTables' /\ NoDoubleBooking' /\ Spared(t) /\ KeepsRest(t)
  BY <1>1, QuietTables DEF apVars
<1>3. AloneOrTangled(t) /\ LeavesItTidy(t)
  BY <1>1 DEF AloneOrTangled, LeavesItTidy, Mine, Arg
<1>4. ~ broken'
  BY DEF apVars, ApptInv
<1> QED
  BY <1>1, <1>2, <1>3, <1>4, ApptStep

LEMMA DropApptKeeps ==
    ASSUME ApptInv, NEW t \in Tasks, DropAppt(t)
    PROVE  ApptInv'
<1>1. Ceases(t)
  BY LeavesEnds DEF DropAppt, ApptInv
<1>2. UNCHANGED <<apTables, born, unseen>> /\ tangled \subseteq tangled' /\ ~ broken'
  BY DEF DropAppt, ApptInv
<1>3. Mine(t) => Arg(t).id \in tangled'
  BY DEF DropAppt, Mine
<1> QED
  BY <1>1, <1>2, <1>3, QuietEnd

\* The turn is not refused what it was promised.
LEMMA NoBreak ==
    ASSUME ApptInv, NEW t \in Tasks, Validating(t, "judge"), Got(t).bad
    PROVE  ~ Breaks(t)
  BY DEF ApptInv, ApKnows, TurnKnown, Breaks, Validating, On

LEMMA RefusedKeeps ==
    ASSUME ApptInv, NEW t \in Tasks, Refused(t)
    PROVE  ApptInv'
<1>1. Ceases(t)
  BY LeavesEnds DEF Refused, ApptInv
<1>2. UNCHANGED <<apTables, born, unseen, tangled>> /\ ~ broken'
  BY NoBreak DEF Refused, ApptInv
<1>3. call[t].at = "judge"
  BY DEF Refused, Validating, On
<1> QED
  BY <1>1, <1>2, <1>3, QuietEnd

-----------------------------------------------------------------------------
(* The reads of a validation. *)

Reading == {"window", "avail", "day", "buffer", "judge"}

\* A read of a validation adds to what the task knows, and only judges.
Reads(t, at, b, c) ==
    /\ Mine(t) /\ call[t].op # "remove" /\ call[t].at \in Reading
    /\ at \in Reading \/ at = (IF call[t].op = "tool" THEN "queued" ELSE "main")
    /\ Continues(t, at, GotOf(b, c, Got(t).old, Got(t).stale, Got(t).void))
    /\ CfgShape(c) /\ UNCHANGED apVars

LEMMA ReadsIs ==
    ASSUME NEW t \in Tasks, NEW at, NEW b, NEW c, Reads(t, at, b, c)
    PROVE  /\ Got(t)'.bad = b /\ Got(t)'.cfg = c /\ Got(t)'.old = Got(t).old /\ Got(t)'.stale = Got(t).stale
           /\ Got(t)'.void = Got(t).void
           /\ call'[t].op = call[t].op /\ call'[t].at = at
           /\ Mine(t)' /\ Arg(t)' = Arg(t) /\ Start(t)' = Start(t) /\ Dur(t)' = Dur(t) /\ But(t)' = But(t)
           /\ NewRow(t)' = NewRow(t) /\ (ListsRow(t)' <=> ListsRow(t)) /\ (Creates(t)' <=> Creates(t))
<1> DEFINE g == GotOf(b, c, Got(t).old, Got(t).stale, Got(t).void)
<1>1. g.bad = b /\ g.cfg = c /\ g.old = Got(t).old /\ g.stale = Got(t).stale /\ g.void = Got(t).void
  BY GotParts
<1>2. Mine(t) /\ Continues(t, at, g)
  BY DEF Reads
<1> HIDE DEF g
<1>3. call'[t].op = call[t].op /\ call'[t].at = at /\ call'[t].got = g
  BY <1>2 DEF Continues
<1>4. /\ Mine(t)' /\ Arg(t)' = Arg(t) /\ Start(t)' = Start(t) /\ Dur(t)' = Dur(t) /\ But(t)' = But(t)
      /\ NewRow(t)' = NewRow(t) /\ (ListsRow(t)' <=> ListsRow(t)) /\ (Creates(t)' <=> Creates(t))
  BY <1>1, <1>2, SameForOwn
<1> QED
  BY <1>1, <1>3, <1>4 DEF Got

LEMMA ReadsAsks ==
    ASSUME ApptInv, NEW t \in Tasks, NEW at, NEW b, NEW c, Reads(t, at, b, c)
    PROVE  ApAsks(t)' /\ ListingKnown(t)'
<1>1. /\ call'[t].op = call[t].op /\ call'[t].at = at /\ Got(t)'.old = Got(t).old
      /\ Mine(t)' /\ Arg(t)' = Arg(t) /\ NewRow(t)' = NewRow(t)
      /\ (ListsRow(t)' <=> ListsRow(t)) /\ (Creates(t)' <=> Creates(t))
  BY ReadsIs
<1>2. Mine(t) /\ call[t].op # "remove" /\ call[t].at \in Reading
  BY DEF Reads
<1>3. at \in Reading \/ at = (IF call[t].op = "tool" THEN "queued" ELSE "main")
  BY DEF Reads
<1>4. book' = book /\ calendar' = calendar /\ born' = born /\ tangled' = tangled
  BY DEF Reads, apVars, apTables
<1>5. ApAsks(t)'
  <2>1. GotShape(Got(t))'
    <3>1. GotShape(GotOf(b, c, Got(t).old, Got(t).stale, Got(t).void))
      BY <1>2, GotShaped DEF Reads, ApptInv, ApAsks, GotShape
    <3>2. call'[t].got = GotOf(b, c, Got(t).old, Got(t).stale, Got(t).void)
      BY DEF Reads, Continues
    <3> QED
      BY <3>1, <3>2 DEF Got, GotShape, CfgShape, ApptShape, GotOf
  <2>2. ApAsks(t)
    BY DEF ApptInv
  <2>3. at \in ApPlaces[call[t].op]
    BY <1>2, <1>3, <2>2 DEF ApAsks, Mine, Booking, ApPlaces, Reading
  <2>4. call[t].op = "tool" /\ ~ Arg(t).dated => FALSE
    BY <1>2, <2>2 DEF ApAsks, Reading
  <2> QED
    BY <1>1, <1>2, <1>3, <1>4, <2>1, <2>2, <2>3, <2>4 DEF ApAsks, Mine, Booking, Reading
<1>6. ListingKnown(t)'
  <2> SUFFICES ASSUME NEW id, id = Arg(t).id
               PROVE  ListingKnown(t)'
    OBVIOUS
  <2>1. ListingOf(id)' = ListingOf(id) /\ (Agrees(id)' <=> Agrees(id))
    BY <1>4 DEF ListingOf, Agrees, RowOf
  <2>2. ListingKnown(t)
    BY DEF ApptInv, ApKnows
  <2> QED
    BY <1>1, <1>2, <1>3, <1>4, <2>1, <2>2 DEF ListingKnown, RowOf, Reading
<1> QED
  BY <1>5, <1>6

\* No overlap with what the window finds is no overlap.
LEMMA NoConflict ==
    ASSUME ApTables, NEW s \in Nat, NEW d \in 0..Window, NEW id \in Appts, NEW but \in {id, "none"},
           ~ Conflicts(s, d, but)
    PROVE  Free(s, d, id)
<1> SUFFICES ASSUME NEW r \in calendar, r.status # "cancelled", r.id # id, Overlap(s, d, r.start, r.dur)
             PROVE  FALSE
  BY DEF Free
<1>1. r.id \in Appts /\ r.start \in Nat /\ r.dur \in 0..Window
  BY DEF ApTables, RowShape
<1>2. r.id # but
  BY <1>1, AppointmentsAssumption
<1>3. r.start <= s + Window /\ r.start >= (IF s > Window THEN s - Window ELSE 0)
  BY <1>1 DEF Overlap, Window
<1>4. r \in InRange(IF s > Window THEN s - Window ELSE 0, s + Window, but)
  BY <1>2, <1>3 DEF InRange
<1> QED
  BY <1>4 DEF Conflicts

LEMMA AskedIs ==
    ASSUME NEW t \in Tasks, ApAsks(t), Mine(t), call[t].op # "remove"
    PROVE  /\ Start(t) \in Nat /\ Dur(t) \in 0..Window /\ Arg(t).id \in Appts /\ But(t) \in {Arg(t).id, "none"}
           /\ GotShape(Got(t))
<1>1. Got(t).old.start \in Nat /\ Got(t).old.dur \in 0..Window
  BY DEF ApAsks, GotShape, ApptShape
<1> QED
  BY <1>1 DEF ApAsks, Mine, Booking, Start, Dur, But

LEMMA ChecksConflictsKeeps ==
    ASSUME ApptInv, NEW t \in Tasks, ChecksConflicts(t)
    PROVE  ApptInv'
<1> SUFFICES ASSUME NEW b, b = (Got(t).bad \/ Conflicts(Start(t), Dur(t), But(t)))
             PROVE  ApptInv'
  OBVIOUS
<1>1. call[t].op \in {"book", "change", "tool"} /\ call[t].at = "window" /\ Mine(t) /\ ApAsks(t) /\ ApKnows(t)
  BY DEF ChecksConflicts, Validating, On, Mine, Booking, ApptInv
<1>2. Know(t, "avail", Judged(Got(t), b))
  BY Zenon DEF ChecksConflicts, Judged
<1>3. /\ Start(t) \in Nat /\ Dur(t) \in 0..Window /\ Arg(t).id \in Appts /\ But(t) \in {Arg(t).id, "none"}
      /\ GotShape(Got(t))
  BY <1>1, AskedIs
<1>4. Reads(t, "avail", b, Got(t).cfg)
  BY <1>1, <1>2, <1>3, LearnedIs, LearnGoes DEF Know, Reads, GotShape, Reading, ApptInv
<1>5. /\ Got(t)'.bad = b /\ Got(t)'.cfg = Got(t).cfg /\ Got(t)'.old = Got(t).old /\ Got(t)'.stale = Got(t).stale
      /\ Got(t)'.void = Got(t).void
      /\ call'[t].op = call[t].op /\ call'[t].at = "avail"
      /\ Arg(t)' = Arg(t) /\ Start(t)' = Start(t) /\ Dur(t)' = Dur(t) /\ But(t)' = But(t)
  BY <1>4, ReadsIs
<1>6. UNCHANGED apVars
  BY <1>4 DEF Reads
<1> SUFFICES ASSUME NEW s, NEW d, NEW but, NEW id, s = Start(t), d = Dur(t), but = But(t), id = Arg(t).id
             PROVE  ApptInv'
  OBVIOUS
<1>7. /\ Conflicts(s, d, but)' <=> Conflicts(s, d, but)
      /\ Free(s, d, id)' <=> Free(s, d, id)
      /\ Valid(s, d, but)' <=> Valid(s, d, but)
      /\ book' = book /\ tangled' = tangled
  BY <1>6, SameLooks DEF apVars, apTables, Valid
<1>8. ~ Conflicts(s, d, but) => Free(s, d, id)
  BY <1>3, NoConflict DEF ApptInv
<1>9. FreeKnown(t)'
  BY <1>1, <1>5, <1>7, <1>8 DEF FreeKnown
<1>10. ToolKnown(t)'
  BY <1>1, <1>5, <1>7 DEF ToolKnown, PassedSoFar, ApKnows
<1>11. TurnKnown(t)'
  BY <1>1, <1>5, <1>7 DEF TurnKnown, Valid, ApKnows
<1> QED
  BY <1>1, <1>4, <1>6, <1>9, <1>10, <1>11, ReadsAsks, QuietGoes DEF ApKnows, Reads

LEMMA ReadsAvailKeeps ==
    ASSUME ApptInv, NEW t \in Tasks, ReadsAvail(t)
    PROVE  ApptInv'
<1> SUFFICES ASSUME NEW b, b = (Got(t).bad \/ (avail.set /\ ~ Open(Start(t), Dur(t)))),
                    NEW to, to = (IF avail.set THEN "day" ELSE "judge")
             PROVE  ApptInv'
  OBVIOUS
<1>1. call[t].op \in {"book", "change", "tool"} /\ call[t].at = "avail" /\ Mine(t) /\ ApAsks(t) /\ ApKnows(t)
  BY DEF ReadsAvail, Validating, On, Mine, Booking, ApptInv
<1>2. Know(t, to, Looked(Got(t), avail, b))
  BY Zenon DEF ReadsAvail, Looked
<1>3. GotShape(Got(t)) /\ CfgShape(avail)
  BY <1>1, AskedIs DEF ApptInv, ApTables
<1>4. Reads(t, to, b, avail)
  BY <1>1, <1>2, <1>3, LearnedIs, LearnGoes DEF Know, Reads, GotShape, Reading, ApptInv
<1>5. /\ Got(t)'.bad = b /\ Got(t)'.cfg = avail /\ Got(t)'.old = Got(t).old /\ Got(t)'.stale = Got(t).stale
      /\ Got(t)'.void = Got(t).void
      /\ call'[t].op = call[t].op /\ call'[t].at = to
      /\ Arg(t)' = Arg(t) /\ Start(t)' = Start(t) /\ Dur(t)' = Dur(t) /\ But(t)' = But(t)
  BY <1>4, ReadsIs
<1>6. UNCHANGED apVars
  BY <1>4 DEF Reads
<1> SUFFICES ASSUME NEW s, NEW d, NEW but, NEW id, s = Start(t), d = Dur(t), but = But(t), id = Arg(t).id
             PROVE  ApptInv'
  OBVIOUS
<1>7. /\ Conflicts(s, d, but)' <=> Conflicts(s, d, but)
      /\ Free(s, d, id)' <=> Free(s, d, id)
      /\ OpenNow(s, d)' <=> OpenNow(s, d)
      /\ RoomNow(s, but)' <=> RoomNow(s, but)
      /\ FarNow(s, d, but)' <=> FarNow(s, d, but)
      /\ Valid(s, d, but)' <=> Valid(s, d, but)
      /\ book' = book /\ tangled' = tangled /\ avail' = avail
  BY <1>6, SameLooks DEF apVars, apTables, Valid
<1>8. FreeKnown(t)'
  BY <1>1, <1>5, <1>7 DEF FreeKnown, ApKnows
<1>9. ToolKnown(t)'
  BY <1>1, <1>5, <1>7 DEF ToolKnown, PassedSoFar, ApKnows, OpenNow, RoomNow, FarNow
<1>10. TurnKnown(t)'
  BY <1>1, <1>5, <1>7 DEF TurnKnown, Valid, ApKnows, OpenNow, RoomNow, FarNow
<1> QED
  BY <1>1, <1>4, <1>6, <1>8, <1>9, <1>10, ReadsAsks, QuietGoes DEF ApKnows, Reads

LEMMA ChecksDayKeeps ==
    ASSUME ApptInv, NEW t \in Tasks, ChecksDay(t)
    PROVE  ApptInv'
<1> SUFFICES ASSUME NEW b, b = (Got(t).bad \/ (Got(t).cfg.most > 0 /\ DayFull(Start(t), Got(t).cfg.most, But(t)))),
                    NEW to, to = ("buffer")
             PROVE  ApptInv'
  OBVIOUS
<1>1. call[t].op \in {"book", "change", "tool"} /\ call[t].at = "day" /\ Mine(t) /\ ApAsks(t) /\ ApKnows(t)
  BY DEF ChecksDay, Validating, On, Mine, Booking, ApptInv
<1>2. Know(t, to, Judged(Got(t), b))
  BY Zenon DEF ChecksDay, Judged
<1>3. GotShape(Got(t)) /\ CfgShape(avail)
  BY <1>1, AskedIs DEF ApptInv, ApTables
<1>4. Reads(t, to, b, Got(t).cfg)
  BY <1>1, <1>2, <1>3, LearnedIs, LearnGoes DEF Know, Reads, GotShape, Reading, ApptInv
<1>5. /\ Got(t)'.bad = b /\ Got(t)'.cfg = Got(t).cfg /\ Got(t)'.old = Got(t).old /\ Got(t)'.stale = Got(t).stale
      /\ Got(t)'.void = Got(t).void
      /\ call'[t].op = call[t].op /\ call'[t].at = to
      /\ Arg(t)' = Arg(t) /\ Start(t)' = Start(t) /\ Dur(t)' = Dur(t) /\ But(t)' = But(t)
  BY <1>4, ReadsIs
<1>6. UNCHANGED apVars
  BY <1>4 DEF Reads
<1> SUFFICES ASSUME NEW s, NEW d, NEW but, NEW id, s = Start(t), d = Dur(t), but = But(t), id = Arg(t).id
             PROVE  ApptInv'
  OBVIOUS
<1>7. /\ Conflicts(s, d, but)' <=> Conflicts(s, d, but)
      /\ Free(s, d, id)' <=> Free(s, d, id)
      /\ OpenNow(s, d)' <=> OpenNow(s, d)
      /\ RoomNow(s, but)' <=> RoomNow(s, but)
      /\ FarNow(s, d, but)' <=> FarNow(s, d, but)
      /\ Valid(s, d, but)' <=> Valid(s, d, but)
      /\ book' = book /\ tangled' = tangled /\ avail' = avail
  BY <1>6, SameLooks DEF apVars, apTables, Valid
<1>8. FreeKnown(t)'
  BY <1>1, <1>5, <1>7 DEF FreeKnown, ApKnows
<1>9. ToolKnown(t)'
  BY <1>1, <1>5, <1>7 DEF ToolKnown, PassedSoFar, ApKnows, RoomNow
<1>10. TurnKnown(t)'
  BY <1>1, <1>5, <1>7 DEF TurnKnown, Valid, ApKnows, RoomNow
<1> QED
  BY <1>1, <1>4, <1>6, <1>8, <1>9, <1>10, ReadsAsks, QuietGoes DEF ApKnows, Reads

LEMMA ChecksBufferKeeps ==
    ASSUME ApptInv, NEW t \in Tasks, ChecksBuffer(t)
    PROVE  ApptInv'
<1> SUFFICES ASSUME NEW b, b = (Got(t).bad \/ (Got(t).cfg.buffer > 0 /\ TooClose(Start(t), Dur(t), Got(t).cfg.buffer, But(t)))),
                    NEW to, to = ("judge")
             PROVE  ApptInv'
  OBVIOUS
<1>1. call[t].op \in {"book", "change", "tool"} /\ call[t].at = "buffer" /\ Mine(t) /\ ApAsks(t) /\ ApKnows(t)
  BY DEF ChecksBuffer, Validating, On, Mine, Booking, ApptInv
<1>2. Know(t, to, Judged(Got(t), b))
  BY Zenon DEF ChecksBuffer, Judged
<1>3. GotShape(Got(t)) /\ CfgShape(avail)
  BY <1>1, AskedIs DEF ApptInv, ApTables
<1>4. Reads(t, to, b, Got(t).cfg)
  BY <1>1, <1>2, <1>3, LearnedIs, LearnGoes DEF Know, Reads, GotShape, Reading, ApptInv
<1>5. /\ Got(t)'.bad = b /\ Got(t)'.cfg = Got(t).cfg /\ Got(t)'.old = Got(t).old /\ Got(t)'.stale = Got(t).stale
      /\ Got(t)'.void = Got(t).void
      /\ call'[t].op = call[t].op /\ call'[t].at = to
      /\ Arg(t)' = Arg(t) /\ Start(t)' = Start(t) /\ Dur(t)' = Dur(t) /\ But(t)' = But(t)
  BY <1>4, ReadsIs
<1>6. UNCHANGED apVars
  BY <1>4 DEF Reads
<1> SUFFICES ASSUME NEW s, NEW d, NEW but, NEW id, s = Start(t), d = Dur(t), but = But(t), id = Arg(t).id
             PROVE  ApptInv'
  OBVIOUS
<1>7. /\ Conflicts(s, d, but)' <=> Conflicts(s, d, but)
      /\ Free(s, d, id)' <=> Free(s, d, id)
      /\ OpenNow(s, d)' <=> OpenNow(s, d)
      /\ RoomNow(s, but)' <=> RoomNow(s, but)
      /\ FarNow(s, d, but)' <=> FarNow(s, d, but)
      /\ Valid(s, d, but)' <=> Valid(s, d, but)
      /\ book' = book /\ tangled' = tangled /\ avail' = avail
  BY <1>6, SameLooks DEF apVars, apTables, Valid
<1>8. FreeKnown(t)'
  BY <1>1, <1>5, <1>7 DEF FreeKnown, ApKnows
<1>9. ToolKnown(t)'
  BY <1>1, <1>5, <1>7 DEF ToolKnown, PassedSoFar, ApKnows, FarNow
<1>10. TurnKnown(t)'
  BY <1>1, <1>5, <1>7 DEF TurnKnown, Valid, ApKnows, FarNow
<1> QED
  BY <1>1, <1>4, <1>6, <1>8, <1>9, <1>10, ReadsAsks, QuietGoes DEF ApKnows, Reads

LEMMA AcceptedKeeps ==
    ASSUME ApptInv, NEW t \in Tasks, Accepted(t)
    PROVE  ApptInv'
<1> SUFFICES ASSUME NEW to, to = (IF call[t].op = "tool" THEN "queued" ELSE "main")
             PROVE  ApptInv'
  OBVIOUS
<1>1. call[t].op \in {"book", "change", "tool"} /\ call[t].at = "judge" /\ ~ Got(t).bad /\ Mine(t) /\ ApAsks(t) /\ ApKnows(t)
  BY DEF Accepted, Validating, On, Mine, Booking, ApptInv
<1>2. GotShape(Got(t))
  BY <1>1, AskedIs
<1>3. Continues(t, to, Got(t)) /\ UNCHANGED apVars
  BY GotoGoes DEF Accepted, ApptInv
<1>4. Reads(t, to, Got(t).bad, Got(t).cfg)
  BY <1>1, <1>2, <1>3 DEF Reads, GotShape, Reading
<1>5. /\ Got(t)'.bad = Got(t).bad /\ Got(t)'.cfg = Got(t).cfg /\ Got(t)'.old = Got(t).old /\ Got(t)'.stale = Got(t).stale
      /\ Got(t)'.void = Got(t).void
      /\ call'[t].op = call[t].op /\ call'[t].at = to
      /\ Arg(t)' = Arg(t) /\ Start(t)' = Start(t) /\ Dur(t)' = Dur(t) /\ But(t)' = But(t)
      /\ (ListsRow(t)' <=> ListsRow(t))
  BY <1>4, ReadsIs
<1> SUFFICES ASSUME NEW s, NEW d, NEW but, NEW id, s = Start(t), d = Dur(t), but = But(t), id = Arg(t).id
             PROVE  ApptInv'
  OBVIOUS
<1>6. /\ Free(s, d, id)' <=> Free(s, d, id)
      /\ Valid(s, d, but)' <=> Valid(s, d, but)
      /\ book' = book /\ tangled' = tangled /\ avail' = avail
  BY <1>3, SameLooks DEF apVars, apTables, Valid
<1>7. FreeKnown(t)'
  BY <1>1, <1>5, <1>6 DEF FreeKnown, ApKnows, ApAsks
<1>8. ToolKnown(t)'
  BY <1>1, <1>5, <1>6 DEF ToolKnown, PassedSoFar, Valid, ApKnows
<1>9. TurnKnown(t)'
  BY <1>1, <1>5, <1>6 DEF TurnKnown, ApKnows
<1> QED
  BY <1>1, <1>3, <1>4, <1>7, <1>8, <1>9, ReadsAsks, QuietGoes DEF ApKnows

-----------------------------------------------------------------------------
(* What a call reads first. *)

LEMMA KnowsNow ==
    ASSUME NEW t \in Tasks, NEW at, NEW b, NEW c, NEW o, NEW s, NEW v, Continues(t, at, GotOf(b, c, o, s, v))
    PROVE  /\ Got(t)'.bad = b /\ Got(t)'.cfg = c /\ Got(t)'.old = o /\ Got(t)'.stale = s /\ Got(t)'.void = v
           /\ call'[t].op = call[t].op /\ call'[t].at = at /\ Arg(t)' = Arg(t)
           /\ CfgShape(c) /\ ApptShape(o) => GotShape(Got(t))'
<1>1. call'[t].op = call[t].op /\ call'[t].at = at /\ call'[t].arg = call[t].arg /\ call'[t].got = GotOf(b, c, o, s, v)
  BY DEF Continues
<1>2. /\ Got(t)'.bad = b /\ Got(t)'.cfg = c /\ Got(t)'.old = o /\ Got(t)'.stale = s /\ Got(t)'.void = v
  BY <1>1, GotParts DEF Got
<1>3. CfgShape(c) /\ ApptShape(o) => GotShape(Got(t))'
  BY <1>1, GotShaped DEF Got, GotShape, CfgShape, ApptShape, GotOf
<1> QED
  BY <1>1, <1>2, <1>3 DEF Arg

LEMMA BeginsToBookKeeps ==
    ASSUME ApptInv, NEW t \in Tasks, BeginsToBook(t)
    PROVE  ApptInv'
<1>1. call[t].op = "book" /\ call[t].at = "begin" /\ Mine(t) /\ ApAsks(t) /\ ApKnows(t)
  BY DEF BeginsToBook, On, Mine, Booking, ApptInv
<1>2. CASE ~ Arg(t).with /\ Start(t) \in Past
  <2>1. Ceases(t) /\ UNCHANGED apVars
    BY <1>2, LeavesEnds DEF BeginsToBook, ApptInv
  <2> QED
    BY <1>1, <2>1, QuietEnd DEF apVars, ApptInv
<1>3. CASE ~ (~ Arg(t).with /\ Start(t) \in Past)
  <2> SUFFICES ASSUME NEW no, no = FALSE, NEW b, b = (Start(t) \in Past),
                      NEW to, to = (IF Arg(t).with THEN "window" ELSE "main")
               PROVE  ApptInv'
    OBVIOUS
  <2>1. Know(t, to, Timed(Got(t), b, no))
    BY <1>3, Zenon DEF BeginsToBook, Timed
  <2>2. GotShape(Got(t))
    BY <1>1, AskedIs
  <2>3. Continues(t, to, GotOf(b, Got(t).cfg, Got(t).old, no, Got(t).void)) /\ UNCHANGED apVars
    BY <2>1, <2>2, LearnedIs, LearnGoes DEF Know, ApptInv
  <2>4. /\ Got(t)'.bad = b /\ Got(t)'.old = Got(t).old /\ Got(t)'.void = Got(t).void
        /\ call'[t].op = "book" /\ call'[t].at = to /\ GotShape(Got(t))'
    BY <1>1, <2>2, <2>3, KnowsNow DEF GotShape
  <2>5. /\ Mine(t)' /\ Arg(t)' = Arg(t) /\ Start(t)' = Start(t) /\ Dur(t)' = Dur(t) /\ But(t)' = But(t)
        /\ (ListsRow(t)' <=> ListsRow(t)) /\ (Creates(t)' <=> Creates(t))
    <3>1. GotOf(b, Got(t).cfg, Got(t).old, no, Got(t).void).old = Got(t).old
      BY GotParts
    <3> QED
      BY <1>1, <2>3, <3>1, SameForOwn
  <2> SUFFICES ASSUME NEW s, NEW d, NEW but, NEW id, s = Start(t), d = Dur(t), but = But(t), id = Arg(t).id
               PROVE  ApptInv'
    OBVIOUS
  <2>6. /\ Valid(s, d, but)' <=> Valid(s, d, but)
        /\ ListingOf(id)' = ListingOf(id) /\ (Agrees(id)' <=> Agrees(id))
        /\ book' = book /\ tangled' = tangled /\ avail' = avail /\ born' = born
    BY <2>3, SameLooks DEF apVars, apTables, Valid, ListingOf, Agrees, RowOf
  <2>7. ApAsks(t)'
    BY <1>1, <2>4, <2>5, <2>6 DEF ApAsks, Mine, Booking, ApPlaces, ListsRow
  <2>8. ListingKnown(t)'
    BY <1>1, <2>4, <2>5, <2>6 DEF ListingKnown, ApKnows
  <2>9. FreeKnown(t)' /\ ToolKnown(t)'
    BY <1>1, <2>4, <2>5 DEF FreeKnown, ToolKnown, ListsRow
  <2>10. TurnKnown(t)'
    BY <1>1, <2>4, <2>5, <2>6 DEF TurnKnown, ApKnows, Valid
  <2> QED
    BY <1>1, <2>3, <2>7, <2>8, <2>9, <2>10, QuietGoes DEF ApKnows
<1> QED
  BY <1>2, <1>3

\* The row as it is read, when the tables agree, overlaps no validated one.
LEMMA KeptApart ==
    ASSUME ApptInv, NEW id \in Appts \ (tangled \cup unseen), Agrees(id), book[id].with, book[id].status # "cancelled"
    PROVE  FreeOfSeen(book[id].start, book[id].dur, id)
<1> SUFFICES ASSUME NEW r \in calendar, r.status # "cancelled", r.id # id, r.id \notin unseen
             PROVE  ~ Overlap(book[id].start, book[id].dur, r.start, r.dur)
  BY DEF FreeOfSeen
<1> DEFINE q == RowOf(id, book[id])
<1>1. q \in calendar /\ q.id = id /\ q.start = book[id].start /\ q.dur = book[id].dur /\ q.status = book[id].status
  BY DEF Agrees, ListingOf, RowOf
<1> HIDE DEF q
<1>2. q \in Live /\ r \in Live
  BY <1>1 DEF Live
<1> QED
  BY <1>1, <1>2 DEF ApptInv, NoDoubleBooking

LEMMA BeginsToChangeKeeps ==
    ASSUME ApptInv, NEW t \in Tasks, BeginsToChange(t)
    PROVE  ApptInv'
<1>1. call[t].op = "change" /\ call[t].at = "get" /\ Mine(t) /\ ApAsks(t) /\ ApKnows(t)
  BY DEF BeginsToChange, On, Mine, Booking, ApptInv
<1> SUFFICES ASSUME NEW id \in Appts, id = Arg(t).id, NEW old, old = book[id],
                    NEW no, no = FALSE, NEW late, late = (Arg(t).dated /\ Arg(t).start \in Past)
             PROVE  ApptInv'
  BY <1>1 DEF ApAsks
<1>2. ApptShape(old)
  BY DEF ApptInv, ApTables
<1>3. CASE old = NoAppt \/ (late /\ ~ old.with)
  <2>1. Ceases(t) /\ UNCHANGED <<apTables, born, unseen, tangled>> /\ broken' = (broken \/ Breaks(t))
    BY <1>3, LeavesEnds DEF BeginsToChange, ApptInv
  <2>2. ~ Breaks(t)
    BY <1>1, <1>3 DEF ApKnows, TurnKnown, Breaks, Valid
  <2> QED
    BY <1>1, <2>1, <2>2, QuietEnd DEF ApptInv
<1>4. CASE ~ (old = NoAppt \/ (late /\ ~ old.with))
  <2> SUFFICES ASSUME NEW to, to = (IF Arg(t).dated /\ old.with THEN "window" ELSE "main")
               PROVE  ApptInv'
    OBVIOUS
  <2>1. Know(t, to, Fetched(Got(t), old, late, no))
    BY <1>4, Zenon DEF BeginsToChange, Fetched
  <2>2. GotShape(Got(t))
    BY <1>1, AskedIs
  <2>3. Continues(t, to, GotOf(late, Got(t).cfg, old, no, Got(t).void)) /\ UNCHANGED apVars
    BY <2>1, <2>2, LearnedIs, LearnGoes DEF Know, ApptInv
  <2>4. /\ Got(t)'.bad = late /\ Got(t)'.old = old /\ Got(t)'.void = Got(t).void /\ Arg(t)' = Arg(t)
        /\ call'[t].op = "change" /\ call'[t].at = to /\ GotShape(Got(t))'
    BY <1>1, <1>2, <2>2, <2>3, KnowsNow DEF GotShape
  <2>5. /\ Mine(t)' /\ (ListsRow(t)' <=> old.with) /\ (~ Creates(t)')
        /\ Start(t)' = (IF Arg(t).dated THEN Arg(t).start ELSE old.start)
        /\ Dur(t)' = (IF Arg(t).dur # 0 THEN Arg(t).dur ELSE old.dur)
        /\ But(t)' = id
    BY <2>4 DEF Mine, Booking, ListsRow, Creates, Start, Dur, But
  <2> SUFFICES ASSUME NEW s, NEW d, s = (IF Arg(t).dated THEN Arg(t).start ELSE old.start),
                      d = (IF Arg(t).dur # 0 THEN Arg(t).dur ELSE old.dur)
               PROVE  ApptInv'
    OBVIOUS
  <2>6. /\ Valid(s, d, id)' <=> Valid(s, d, id)
        /\ ListingOf(id)' = ListingOf(id) /\ (Agrees(id)' <=> Agrees(id))
        /\ FreeOfSeen(s, d, id)' <=> FreeOfSeen(s, d, id)
        /\ book' = book /\ tangled' = tangled /\ unseen' = unseen /\ avail' = avail /\ born' = born
    BY <2>3, SameLooks DEF apVars, apTables, Valid, ListingOf, Agrees, RowOf, FreeOfSeen
  <2>7. ApAsks(t)'
    BY <1>1, <2>4, <2>5, <2>6 DEF ApAsks, Mine, Booking, ApPlaces
  <2>8. ListingKnown(t)'
    BY <1>1, <2>4, <2>5, <2>6 DEF ListingKnown, ApKnows
  <2>9. FreeKnown(t)'
    <3> SUFFICES ASSUME to = "main", old.with, ~ Arg(t).dated, Arg(t).dur = 0, old.status # "cancelled",
                        id \notin tangled \cup unseen
                 PROVE  FreeOfSeen(s, d, id)
      BY <2>4, <2>5, <2>6 DEF FreeKnown
    <3>1. Agrees(id)
      BY <1>1 DEF ApKnows, ListingKnown
    <3> QED
      BY <3>1, KeptApart
  <2>10. ToolKnown(t)'
    BY <2>4 DEF ToolKnown
  <2>11. TurnKnown(t)'
    BY <1>1, <2>4, <2>5, <2>6 DEF TurnKnown, ApKnows, Valid
  <2> QED
    BY <1>1, <2>3, <2>7, <2>8, <2>9, <2>10, <2>11, QuietGoes DEF ApKnows
<1> QED
  BY <1>3, <1>4

LEMMA ToolReadsKeeps ==
    ASSUME ApptInv, NEW t \in Tasks, ToolReads(t)
    PROVE  ApptInv'
<1>1. call[t].op = "tool" /\ call[t].at = "usual" /\ Mine(t) /\ ApAsks(t) /\ ApKnows(t)
  BY DEF ToolReads, On, Mine, Booking, ApptInv
<1> SUFFICES ASSUME NEW id \in Appts, id = Arg(t).id, NEW b, b = (Start(t) \in Past),
                    NEW usual, usual = (IF Arg(t).status = "rescheduled"
                                        THEN IF book[id] = NoAppt THEN Usual ELSE book[id].dur
                                        ELSE avail.usual),
                    NEW old, old = [book[id] EXCEPT !.dur = usual]
             PROVE  ApptInv'
  BY <1>1 DEF ApAsks
<1>2. usual \in 0..Window
  BY DEF ApptInv, ApTables, ApptShape, CfgShape, Usual, Window
<1>3. ApptShape(old) /\ old.dur = usual
  BY <1>2, DurIs DEF ApptInv, ApTables
<1>4. Know(t, "window", Measured(Got(t), old, b))
  BY Zenon DEF ToolReads, Measured
<1>5. GotShape(Got(t))
  BY <1>1, AskedIs
<1>6. Continues(t, "window", GotOf(b, Got(t).cfg, old, Got(t).stale, Got(t).void)) /\ UNCHANGED apVars
  BY <1>4, <1>5, LearnedIs, LearnGoes DEF Know, ApptInv
<1>7. /\ Got(t)'.bad = b /\ Got(t)'.old = old /\ Got(t)'.void = Got(t).void /\ Arg(t)' = Arg(t)
      /\ call'[t].op = "tool" /\ call'[t].at = "window" /\ GotShape(Got(t))'
  BY <1>1, <1>3, <1>5, <1>6, KnowsNow DEF GotShape
<1>8. /\ Mine(t)' /\ (Creates(t)' <=> Creates(t)) /\ Arg(t).dated
      /\ Start(t)' = Start(t)
  BY <1>1, <1>7 DEF Mine, Booking, Creates, Start, ApAsks
<1>9. /\ ListingOf(id)' = ListingOf(id) /\ (Agrees(id)' <=> Agrees(id))
      /\ book' = book /\ tangled' = tangled /\ born' = born
  BY <1>6 DEF apVars, apTables, ListingOf, Agrees, RowOf
<1>10. ApAsks(t)'
  BY <1>1, <1>7, <1>8, <1>9 DEF ApAsks, Mine, Booking, ApPlaces
<1>11. ListingKnown(t)'
  BY <1>1, <1>7, <1>8, <1>9 DEF ListingKnown, ApKnows
<1>12. FreeKnown(t)' /\ TurnKnown(t)'
  BY <1>7 DEF FreeKnown, TurnKnown
<1>13. ToolKnown(t)'
  BY <1>3, <1>7, <1>8, <1>9 DEF ToolKnown, PassedSoFar
<1> QED
  BY <1>1, <1>6, <1>10, <1>11, <1>12, <1>13, QuietGoes DEF ApKnows

LEMMA ReadsToRemoveKeeps ==
    ASSUME ApptInv, NEW t \in Tasks, ReadsToRemove(t)
    PROVE  ApptInv'
<1>1. call[t].op = "remove" /\ call[t].at = "get" /\ Mine(t) /\ ApAsks(t) /\ ApKnows(t)
  BY DEF ReadsToRemove, On, Mine, Booking, ApptInv
<1> SUFFICES ASSUME NEW id \in Appts, id = Arg(t).id, NEW old, old = book[id]
             PROVE  ApptInv'
  BY <1>1 DEF ApAsks
<1>2. CASE old = NoAppt
  <2>1. Ceases(t) /\ UNCHANGED apVars
    BY <1>2, LeavesEnds DEF ReadsToRemove, ApptInv
  <2> QED
    BY <1>1, <2>1, QuietEnd DEF apVars, ApptInv
<1>3. CASE old # NoAppt
  <2>1. Know(t, "main", FoundOut(Got(t), old))
    BY <1>3, Zenon DEF ReadsToRemove, FoundOut
  <2>2. GotShape(Got(t)) /\ ApptShape(old)
    BY <1>1 DEF ApAsks, ApptInv, ApTables
  <2>3. Continues(t, "main", GotOf(Got(t).bad, Got(t).cfg, old, Got(t).stale, Got(t).void)) /\ UNCHANGED apVars
    BY <2>1, <2>2, LearnedIs, LearnGoes DEF Know, ApptInv
  <2>4. /\ Got(t)'.old = old /\ Arg(t)' = Arg(t)
        /\ call'[t].op = "remove" /\ call'[t].at = "main" /\ GotShape(Got(t))'
    BY <1>1, <2>2, <2>3, KnowsNow DEF GotShape
  <2>5. /\ ListingOf(id)' = ListingOf(id) /\ (Agrees(id)' <=> Agrees(id))
        /\ book' = book /\ tangled' = tangled /\ born' = born
    BY <2>3 DEF apVars, apTables, ListingOf, Agrees, RowOf
  <2>6. ApAsks(t)'
    BY <1>1, <2>4, <2>5 DEF ApAsks, Mine, Booking, ApPlaces
  <2>7. ListingKnown(t)'
    BY <1>1, <2>4, <2>5 DEF ListingKnown, ApKnows, Creates, Mine
  <2>8. FreeKnown(t)' /\ ToolKnown(t)' /\ TurnKnown(t)'
    BY <2>4 DEF FreeKnown, ToolKnown, TurnKnown
  <2> QED
    BY <1>1, <2>3, <2>6, <2>7, <2>8, QuietGoes DEF ApKnows
<1> QED
  BY <1>2, <1>3

-----------------------------------------------------------------------------
(* The turn takes the call of its tool over. *)

Resized(r, d) == [r EXCEPT !.dur = d]
TakenOver(c, o, a, d, g) == [c EXCEPT !.op = o, !.at = a, !.arg.dur = d, !.got = g]

LEMMA TakenOverIs ==
    ASSUME NEW o0, NEW a0, NEW r0, NEW g0, NEW c, c = [op |-> o0, at |-> a0, arg |-> r0, got |-> g0],
           NEW o, NEW a, NEW d, NEW g
    PROVE  TakenOver(c, o, a, d, g) = [op |-> o, at |-> a, arg |-> Resized(r0, d), got |-> g]
<1> SUFFICES [c EXCEPT !.op = o, !.at = a, !.arg.dur = d, !.got = g] = [op |-> o, at |-> a, arg |-> Resized(r0, d), got |-> g]
  BY DEF TakenOver
<1> DEFINE c1 == [c EXCEPT !.op = o]
    c2 == [c1 EXCEPT !.at = a]
    c3 == [c2 EXCEPT !.arg.dur = d]
<1>1. [c EXCEPT !.op = o, !.at = a, !.arg.dur = d, !.got = g] = [c3 EXCEPT !.got = g]
  OBVIOUS
<1>2. c1 = [op |-> o, at |-> a0, arg |-> r0, got |-> g0]
  OBVIOUS
<1> HIDE DEF c1
<1>3. c2 = [op |-> o, at |-> a, arg |-> r0, got |-> g0]
  BY <1>2
<1> HIDE DEF c2
<1>4. c3 = [op |-> o, at |-> a, arg |-> Resized(r0, d), got |-> g0]
  BY <1>3 DEF Resized
<1> HIDE DEF c3
<1>5. [c3 EXCEPT !.got = g] = [op |-> o, at |-> a, arg |-> Resized(r0, d), got |-> g]
  BY <1>4
<1> QED BY <1>1, <1>5

TurnTook(t, o, a, d, g) == call' = [call EXCEPT ![t].op = o, ![t].at = a, ![t].arg.dur = d, ![t].got = g]

LEMMA TurnTakes ==
    ASSUME Shaped, NEW t \in Tasks, NEW o, NEW a, NEW d, NEW g,
           TurnTook(t, o, a, d, g)
    PROVE  /\ Shaped' /\ Only(t)
           /\ call'[t].op = o /\ call'[t].at = a /\ call'[t].arg = Resized(call[t].arg, d) /\ call'[t].got = g
<1>1. PICK o0, a0, r0, g0 : /\ call[t] = [op |-> o0, at |-> a0, arg |-> r0, got |-> g0] /\ t \in DOMAIN call
                            /\ r0 = call[t].arg
  BY DEF Shaped
<1>2. call'[t] = TakenOver(call[t], o, a, d, g)
  BY <1>1, Zenon DEF TakenOver, TurnTook
<1>3. TakenOver(call[t], o, a, d, g) = [op |-> o, at |-> a, arg |-> Resized(r0, d), got |-> g]
  BY <1>1, TakenOverIs
<1>4. call'[t] = [op |-> o, at |-> a, arg |-> Resized(call[t].arg, d), got |-> g]
  BY <1>1, <1>2, <1>3
<1>5. Only(t) /\ DOMAIN call' = Tasks
  BY DEF Only, Shaped, TurnTook
<1>6. call' = [u \in Tasks |-> call'[u]]
  BY DEF Shaped, TurnTook
<1>7. call'[t].op = o /\ call'[t].at = a /\ call'[t].arg = Resized(call[t].arg, d) /\ call'[t].got = g
  BY <1>4
<1>8. \A u \in Tasks : call'[u] = [op |-> call'[u].op, at |-> call'[u].at, arg |-> call'[u].arg, got |-> call'[u].got]
  BY <1>4, <1>5, <1>7 DEF Shaped, Only
<1> QED
  BY <1>5, <1>6, <1>7, <1>8 DEF Shaped

\* What is left of a promise.
Promise(v) == [Blank EXCEPT !.void = v]

LEMMA PromiseIs ==
    ASSUME NEW v, NEW no, no = FALSE
    PROVE  Promise(v) = GotOf(no, NoAvail, NoAppt, no, v)
<1>1. Blank = GotOf(no, NoAvail, NoAppt, no, no)
  BY Zenon DEF Blank, GotOf
<1>2. [GotOf(no, NoAvail, NoAppt, no, no) EXCEPT !.void = v] = GotOf(no, NoAvail, NoAppt, no, v)
  BY SMT DEF GotOf
<1> QED
  BY <1>1, <1>2, Zenon DEF Promise

LEMMA TurnBooksKeeps ==
    ASSUME ApptInv, NEW t \in Tasks, TurnBooks(t)
    PROVE  ApptInv'
<1>1. call[t].op = "tool" /\ call[t].at = "queued" /\ Mine(t) /\ ApAsks(t) /\ ApKnows(t)
  BY DEF TurnBooks, On, Mine, Booking, ApptInv
<1> SUFFICES ASSUME NEW id \in Appts, id = Arg(t).id, NEW no, no = FALSE,
                    NEW again, again = (Arg(t).status # "confirmed"),
                    NEW dur, dur = (IF again \/ Arg(t).dur # 0 THEN Arg(t).dur ELSE Usual),
                    NEW op, op = (IF again THEN "change" ELSE "book"),
                    NEW at, at = (IF again THEN "get" ELSE "begin"),
                    NEW void, void = (\/ Got(t).void
                                      \/ ~ again /\ dur # Dur(t)
                                      \/ again /\ book[id] = NoAppt),
                    NEW left, left = Promise(void)
             PROVE  ApptInv'
  BY <1>1 DEF ApAsks
<1>2. /\ TurnTook(t, op, at, dur, left)
      /\ UNCHANGED apVars
  BY Zenon DEF TurnBooks, Promise, TurnTook
<1>3. call'[t].op = op /\ call'[t].at = at /\ Arg(t)' = Resized(Arg(t), dur) /\ Got(t)' = left
  <2>1. Shaped /\ TurnTook(t, op, at, dur, left)
    BY <1>2 DEF ApptInv
  <2>2. call'[t].op = op /\ call'[t].at = at /\ call'[t].arg = Resized(call[t].arg, dur) /\ call'[t].got = left
    BY <2>1, TurnTakes, Zenon
  <2> QED
    BY <2>2, Zenon DEF Arg, Got
<1>4. Shaped' /\ Only(t)
  BY <1>2, TurnTakes DEF ApptInv
<1>5. /\ Arg(t)'.id = id /\ Arg(t)'.start = Arg(t).start /\ Arg(t)'.status = Arg(t).status /\ Arg(t)'.with = Arg(t).with
      /\ Arg(t)'.dated = Arg(t).dated /\ Arg(t)'.promised = Arg(t).promised /\ Arg(t)'.dur = dur
  <2>1. AskShape(Arg(t)) /\ Arg(t)' = Resized(Arg(t), dur)
    BY <1>1, <1>3 DEF ApAsks
  <2>2. Arg(t)' = [id |-> id, start |-> Arg(t).start, dur |-> dur, status |-> Arg(t).status, with |-> Arg(t).with,
                   dated |-> Arg(t).dated, promised |-> Arg(t).promised]
    <3> SUFFICES ASSUME NEW a, a = Arg(t), NEW i, NEW s, NEW d, NEW st, NEW w, NEW da, NEW pr,
                        a = [id |-> i, start |-> s, dur |-> d, status |-> st, with |-> w, dated |-> da, promised |-> pr]
                 PROVE  [a EXCEPT !.dur = dur] = [id |-> i, start |-> s, dur |-> dur, status |-> st, with |-> w,
                                                  dated |-> da, promised |-> pr]
      BY <2>1 DEF AskShape, Resized
    <3> QED
      OBVIOUS
  <2> QED
    BY <2>2
<1>6. call'[t].op = op /\ call'[t].at = at /\ Got(t)' = GotOf(no, NoAvail, NoAppt, no, void)
  <2>1. left = GotOf(no, NoAvail, NoAppt, no, void)
    BY PromiseIs, Zenon
  <2> QED
    BY <1>3, <2>1
<1>7. ~ Got(t)'.bad /\ (Got(t)'.void <=> void) /\ GotShape(Got(t))'
  BY <1>6, GotParts, GotShaped, NoApptIs, NoAvailIs DEF GotShape, CfgShape, ApptShape, GotOf
<1>8. ApTables' /\ NoDoubleBooking' /\ Spared(t) /\ KeepsRest(t)
  BY <1>2, <1>4, QuietTables DEF apVars
<1>9. /\ Mine(t)' /\ AloneOrTangled(t) /\ LeavesItTidy(t) /\ ~ broken'
  BY <1>1, <1>2, <1>5, <1>6 DEF Mine, Booking, AloneOrTangled, LeavesItTidy, Arg, apVars, ApptInv
<1> SUFFICES ASSUME NEW s, s = Arg(t).start
             PROVE  ApptInv'
  OBVIOUS
<1>10. /\ \A d, but : Valid(s, d, but)' <=> Valid(s, d, but)
       /\ ListingOf(id)' = ListingOf(id) /\ (Agrees(id)' <=> Agrees(id))
       /\ book' = book /\ tangled' = tangled /\ avail' = avail /\ born' = born
  BY <1>2, SameLooks DEF apVars, apTables, Valid, ListingOf, Agrees, RowOf
<1>11. ApAsks(t)'
  <2>1. dur \in 0..Window /\ (~ again => dur # 0 /\ Arg(t).dated)
    <3>1. ~ again => Arg(t).dated /\ dur = (IF Arg(t).dur # 0 THEN Arg(t).dur ELSE 1)
      BY <1>1 DEF ApAsks, Usual
    <3>2. again => dur = Arg(t).dur
      OBVIOUS
    <3> QED
      BY <1>1, <3>1, <3>2 DEF ApAsks, Window
  <2> QED
    <3>1. call'[t].at \in ApPlaces[call'[t].op]
      BY <1>6 DEF ApPlaces
    <3>2. Arg(t).start \in Nat /\ id \in born' /\ (again /\ ~ Arg(t).dated => Arg(t).status = "cancelled")
      BY <1>1, <1>10 DEF ApAsks, Mine
    <3>3. (call'[t].op = "change" <=> again) /\ (call'[t].op = "book" <=> ~ again) /\ call'[t].at \in {"get", "begin"}
      BY <1>6
    <3> QED
      BY <1>5, <1>6, <1>7, <2>1, <3>1, <3>2, <3>3 DEF ApAsks, Mine, Booking
<1>12. ListingKnown(t)'
  BY <1>1, <1>5, <1>6, <1>10 DEF ListingKnown, ApKnows, Creates, Mine
<1>13. FreeKnown(t)' /\ ToolKnown(t)'
  BY <1>6 DEF FreeKnown, ToolKnown
<1>14. TurnKnown(t)'
  <2> SUFFICES ASSUME ~ void, id \notin tangled
               PROVE  TurnKnown(t)'
    BY <1>5, <1>7, <1>10 DEF TurnKnown
  <2>1. ~ Got(t).void
    OBVIOUS
  <2>2. CASE again
    <3>1. book[id] # NoAppt
      BY <2>2
    <3>2. Arg(t).dated => Valid(s, IF Arg(t).dur # 0 THEN Arg(t).dur ELSE book[id].dur, id)
      BY <1>1, <2>1, <2>2, <3>1 DEF ApKnows, ToolKnown, ApAsks, Start, Dur, But
    <3>3. dur = Arg(t).dur
      BY <2>2
    <3> SUFFICES ASSUME NEW d, d = (IF dur # 0 THEN dur ELSE book[id].dur)
                 PROVE  TurnKnown(t)'
      OBVIOUS
    <3>4. Valid(s, d, id)' <=> Valid(s, d, id)
      BY <1>10
    <3> QED
      BY <1>5, <1>6, <1>10, <2>2, <3>1, <3>2, <3>3, <3>4 DEF TurnKnown
  <2>3. CASE ~ again
    <3>1. Arg(t).dated /\ dur = Dur(t) /\ dur # 0
      <4>1. dur = (IF Arg(t).dur # 0 THEN Arg(t).dur ELSE 1) /\ Arg(t).status = "confirmed"
        BY <2>3 DEF Usual
      <4> QED
        BY <1>1, <2>3, <4>1 DEF ApAsks
    <3>2. Valid(s, dur, "none")
      BY <1>1, <2>1, <2>3, <3>1 DEF ApKnows, ToolKnown, Start, But
    <3>3. Start(t)' = s /\ Dur(t)' = dur /\ But(t)' = "none"
      BY <1>5, <1>6, <2>3, <3>1 DEF Start, Dur, But
    <3> QED
      BY <1>6, <1>10, <2>3, <3>2, <3>3 DEF TurnKnown
  <2> QED
    BY <2>2, <2>3
<1> QED
  BY <1>4, <1>8, <1>9, <1>11, <1>12, <1>13, <1>14, ApptStep DEF ApKnows

-----------------------------------------------------------------------------
(* The statements. *)

\* The row of the main table is written.
LEMMA WritesRow ==
    ASSUME ApptInv, NEW t \in Tasks, Mine(t), Only(t), NEW id \in Appts, id = Arg(t).id, NEW new, ApptShape(new),
           book' = [book EXCEPT ![id] = new], UNCHANGED <<calendar, avail, born, unseen, tangled, broken>>
    PROVE  /\ ApTables' /\ NoDoubleBooking' /\ Spared(t) /\ KeepsRest(t) /\ ~ broken'
           /\ book'[id] = new /\ ListingOf(id)' = ListingOf(id)
<1>1. book'[id] = new /\ ListingOf(id)' = ListingOf(id) /\ \A i \in Appts \ {id} : book'[i] = book[i]
  BY DEF ApptInv, ApTables, ListingOf
<1>2. ApTables'
  <2>1. book' = [i \in Appts |-> book'[i]]
    BY DEF ApptInv, ApTables
  <2> QED
    BY <1>1, <2>1 DEF ApptInv, ApTables, ApptShape, RowShape, CfgShape
<1>3. NoDoubleBooking'
  BY DEF ApptInv, NoDoubleBooking, Live
<1>4. Spared(t)
  BY DEF ApptInv, ApAsks, Spared, Only, Got
<1>5. KeepsRest(t)
  BY <1>1 DEF KeepsRest, ListingOf
<1>6. ~ broken'
  BY DEF ApptInv
<1> QED
  BY <1>1, <1>2, <1>3, <1>4, <1>5, <1>6

LEMMA WriteMainKeeps ==
    ASSUME ApptInv, NEW t \in Tasks, WriteMain(t)
    PROVE  ApptInv'
<1>1. call[t].op \in {"book", "change"} /\ call[t].at = "main" /\ Mine(t) /\ ApAsks(t) /\ ApKnows(t)
  BY DEF WriteMain, Validating, On, Mine, Booking, ApptInv, ApAsks, ApPlaces
<1> SUFFICES ASSUME NEW id \in Appts, id = Arg(t).id, NEW s, s = Start(t), NEW d, d = Dur(t), NEW st, st = NewStatus(t),
                    NEW w, w = (IF call[t].op = "book" THEN Arg(t).with ELSE book[id].with)
             PROVE  ApptInv'
  BY <1>1 DEF ApAsks
<1>10. SUFFICES ASSUME NEW new, new = [start |-> s, dur |-> d, status |-> st, with |-> w]
                PROVE  ApptInv'
  OBVIOUS
<1>2. book' = [book EXCEPT ![id] = new] /\ UNCHANGED <<calendar, avail, born, unseen, tangled, broken>>
  BY <1>10, Zenon DEF WriteMain, NewStatus
<1>3. s \in Nat /\ d \in 0..Window
  BY <1>1, AskedIs
<1>4. ApptShape(new) /\ new.start = s /\ new.dur = d /\ new.status = st /\ new.with = w
  BY <1>3, <1>10, ApptIs
<1>11. Only(t)
  BY Moves, Leaves DEF WriteMain, ApptInv
<1>12. /\ ApTables' /\ NoDoubleBooking' /\ Spared(t) /\ KeepsRest(t) /\ ~ broken'
       /\ book'[id] = new /\ ListingOf(id)' = ListingOf(id)
  BY <1>1, <1>2, <1>4, <1>11, WritesRow
<1>5. RowOf(id, new) = NewRow(t)
  BY <1>4 DEF RowOf, NewRow
<1>6. id \notin tangled =>
        /\ ListingOf(id) = IF ~ book[id].with THEN {} ELSE {RowOf(id, book[id])}
        /\ call[t].op = "book" => book[id] = NoAppt
        /\ call[t].op = "change" => Got(t).old = book[id]
  BY <1>1 DEF ApKnows, ListingKnown, Creates, Agrees
<1>7. ListsRow(t) <=> (IF call[t].op = "book" THEN Arg(t).with ELSE Got(t).old.with)
  BY DEF ListsRow
<1>8. CASE ~ ListsRow(t)
  <2>1. Ceases(t)
    BY <1>1, <1>7, <1>8, LeavesEnds DEF WriteMain, ApptInv
  <2>2. ~ Mine(t)'
    BY <2>1 DEF Ceases, Mine, Booking
  <2>3. Shaped' /\ Only(t)
    BY <2>1 DEF Ceases
  <2>4. /\ ApTables' /\ NoDoubleBooking' /\ Spared(t) /\ KeepsRest(t) /\ ~ broken'
        /\ book'[id] = new /\ ListingOf(id)' = ListingOf(id)
    BY <1>12
  <2>5. LeavesItTidy(t)
    <3> SUFFICES ASSUME id \notin tangled'
                 PROVE  Agrees(id)'
      BY DEF LeavesItTidy
    <3>1. id \notin tangled
      BY <1>2
    <3>2. ~ w
      BY <1>1, <1>6, <1>7, <1>8, <3>1
    <3>3. ListingOf(id) = {}
      BY <1>1, <1>6, <1>7, <1>8, <3>1, NoApptIs
    <3>4. ~ book'[id].with /\ ListingOf(id)' = {}
      BY <1>4, <2>4, <3>2, <3>3
    <3> QED
      BY <3>4 DEF Agrees
  <2> QED
    BY <2>1, <2>3, <2>4, <2>5, CeasesAsks, ApptStep
<1>9. CASE ListsRow(t)
  <2> SUFFICES ASSUME NEW to, to = (IF call[t].op = "book" THEN "list" ELSE "unlist")
               PROVE  ApptInv'
    OBVIOUS
  <2>1. Continues(t, to, Got(t))
    BY <1>1, <1>7, <1>9, GotoGoes DEF WriteMain, ApptInv
  <2>2. Shaped' /\ Only(t) /\ call'[t].op = call[t].op /\ call'[t].at = to /\ Got(t)' = Got(t)
    BY <2>1 DEF Continues, Got
  <2>3. /\ Mine(t)' /\ Arg(t)' = Arg(t) /\ Start(t)' = Start(t) /\ Dur(t)' = Dur(t)
        /\ NewRow(t)' = NewRow(t)
        /\ (ListsRow(t)' <=> ListsRow(t)) /\ (Creates(t)' <=> Creates(t)) /\ AloneOrTangled(t) /\ LeavesItTidy(t)
    BY <1>1, <2>1, SameForOwn
  <2>4. /\ ApTables' /\ NoDoubleBooking' /\ Spared(t) /\ KeepsRest(t) /\ ~ broken'
        /\ book'[id] = new /\ ListingOf(id)' = ListingOf(id)
    BY <1>12
  <2>5. ApAsks(t)'
    <3>1. GotShape(Got(t))'
      BY <1>1, <2>2 DEF ApAsks, GotShape, CfgShape, ApptShape, GotOf
    <3> QED
      BY <1>1, <1>2, <1>9, <2>2, <2>3, <3>1 DEF ApAsks, Mine, Booking, ApPlaces
  <2>6. ListingKnown(t)'
    <3> SUFFICES ASSUME id \notin tangled
                 PROVE  ListingKnown(t)'
      BY <1>2, <2>3 DEF ListingKnown
    <3>1. w
      BY <1>1, <1>6, <1>7, <1>9
    <3>2. call[t].op = "book" => ListingOf(id) = {}
      BY <1>6, NoApptIs
    <3>3. call[t].op = "change" => ListingOf(id) = {RowOf(id, Got(t).old)}
      BY <1>6, <1>7, <1>9
    <3>4. book'[id].with /\ RowOf(id, book'[id]) = NewRow(t)
      BY <1>4, <1>5, <2>4, <3>1
    <3>5. (call[t].op = "book" => to = "list") /\ (call[t].op = "change" => to = "unlist")
      BY <1>1
    <3>6. CASE call[t].op = "book"
      BY <2>2, <2>3, <2>4, <3>2, <3>4, <3>5, <3>6 DEF ListingKnown
    <3>7. CASE call[t].op = "change"
      <4>1. RowOf(id, Got(t).old)' = RowOf(id, Got(t).old)
        BY <2>2 DEF RowOf
      <4>2. ~ Creates(t)
        BY <3>7 DEF Creates
      <4> QED
        BY <2>2, <2>3, <2>4, <3>3, <3>4, <3>5, <3>7, <4>1, <4>2 DEF ListingKnown
    <3> QED
      BY <1>1, <3>6, <3>7
  <2>7. FreeKnown(t)'
    <3>1. calendar' = calendar /\ unseen' = unseen /\ tangled' = tangled
      BY <1>2
    <3>2. (Free(s, d, id)' <=> Free(s, d, id)) /\ (FreeOfSeen(s, d, id)' <=> FreeOfSeen(s, d, id))
      BY <3>1, SameLooks DEF FreeOfSeen
    <3> QED
      BY <1>1, <2>2, <2>3, <3>1, <3>2 DEF FreeKnown, ApKnows
  <2>8. ToolKnown(t)' /\ TurnKnown(t)'
    BY <1>1, <2>2 DEF ToolKnown, TurnKnown
  <2> QED
    BY <2>2, <2>3, <2>4, <2>5, <2>6, <2>7, <2>8, ApptStep DEF ApKnows
<1> QED
  BY <1>8, <1>9

LEMMA DeleteMainKeeps ==
    ASSUME ApptInv, NEW t \in Tasks, DeleteMain(t)
    PROVE  ApptInv'
<1>1. call[t].op = "remove" /\ call[t].at = "main" /\ Mine(t) /\ ApAsks(t) /\ ApKnows(t)
  BY DEF DeleteMain, On, Mine, Booking, ApptInv
<1> SUFFICES ASSUME NEW id \in Appts, id = Arg(t).id
             PROVE  ApptInv'
  BY <1>1 DEF ApAsks
<1>2. book' = [book EXCEPT ![id] = NoAppt] /\ UNCHANGED <<calendar, avail, born, unseen, tangled, broken>>
  BY Zenon DEF DeleteMain
<1>3. id \notin tangled =>
        /\ ListingOf(id) = IF ~ book[id].with THEN {} ELSE {RowOf(id, book[id])}
        /\ Got(t).old = book[id]
  BY <1>1 DEF ApKnows, ListingKnown, Agrees
<1>4. CASE ~ Got(t).old.with
  <2>1. Ceases(t)
    BY <1>4, LeavesEnds DEF DeleteMain, ApptInv
  <2>2. Shaped' /\ Only(t)
    BY <2>1 DEF Ceases
  <2>3. /\ ApTables' /\ NoDoubleBooking' /\ Spared(t) /\ KeepsRest(t) /\ ~ broken'
        /\ book'[id] = NoAppt /\ ListingOf(id)' = ListingOf(id)
    BY <1>1, <1>2, <2>2, NoApptIs, WritesRow
  <2>4. LeavesItTidy(t)
    BY <1>2, <1>3, <1>4, <2>3, NoApptIs DEF LeavesItTidy, Agrees
  <2> QED
    BY <2>1, <2>2, <2>3, <2>4, CeasesAsks, ApptStep
<1>5. CASE Got(t).old.with
  <2>1. Continues(t, "unlist", Got(t))
    BY <1>5, GotoGoes DEF DeleteMain, ApptInv
  <2>2. Shaped' /\ Only(t) /\ call'[t].op = call[t].op /\ call'[t].at = "unlist" /\ Got(t)' = Got(t)
    BY <2>1 DEF Continues, Got
  <2>3. Mine(t)' /\ Arg(t)' = Arg(t) /\ AloneOrTangled(t) /\ LeavesItTidy(t)
    BY <1>1, <2>1, SameForOwn
  <2>4. /\ ApTables' /\ NoDoubleBooking' /\ Spared(t) /\ KeepsRest(t) /\ ~ broken'
        /\ book'[id] = NoAppt /\ ListingOf(id)' = ListingOf(id)
    BY <1>1, <1>2, <2>2, NoApptIs, WritesRow
  <2>5. ApAsks(t)'
    <3>1. GotShape(Got(t))'
      BY <1>1, <2>2 DEF ApAsks, GotShape, CfgShape, ApptShape, GotOf
    <3> QED
      BY <1>1, <1>2, <1>5, <2>2, <2>3, <3>1 DEF ApAsks, Mine, Booking, ApPlaces
  <2>6. ListingKnown(t)'
    BY <1>1, <1>2, <1>3, <1>5, <2>2, <2>3, <2>4 DEF ListingKnown, RowOf, Creates
  <2>7. FreeKnown(t)' /\ ToolKnown(t)' /\ TurnKnown(t)'
    BY <1>1, <2>2 DEF FreeKnown, ToolKnown, TurnKnown
  <2> QED
    BY <2>2, <2>3, <2>4, <2>5, <2>6, <2>7, ApptStep DEF ApKnows
<1> QED
  BY <1>4, <1>5

\* Everybody at work on an appointment notices that something has changed.
NoticedCall(c, x, y) == [c EXCEPT !.got.stale = x, !.got.void = y]

LEMMA OneNotices ==
    ASSUME NEW o0, NEW a0, NEW r0, NEW g0, NEW c, c = [op |-> o0, at |-> a0, arg |-> r0, got |-> g0], NEW x, NEW y
    PROVE  NoticedCall(c, x, y) = [op |-> o0, at |-> a0, arg |-> r0, got |-> Noticed(g0, x, y)]
<1> DEFINE c1 == [c EXCEPT !.got.stale = x]
           g1 == [g0 EXCEPT !.stale = x]
<1>1. NoticedCall(c, x, y) = [c1 EXCEPT !.got.void = y]
  BY DEF NoticedCall
<1>2. c1 = [op |-> o0, at |-> a0, arg |-> r0, got |-> g1]
  OBVIOUS
<1>3. Noticed(g0, x, y) = [g1 EXCEPT !.void = y]
  BY DEF Noticed
<1> HIDE DEF c1, g1
<1>4. [c1 EXCEPT !.got.void = y] = [op |-> o0, at |-> a0, arg |-> r0, got |-> [g1 EXCEPT !.void = y]]
  BY <1>2
<1> QED
  BY <1>1, <1>3, <1>4

LEMMA NoticedIs ==
    ASSUME NEW c, c = [op |-> c.op, at |-> c.at, arg |-> c.arg, got |-> c.got], NEW x, NEW y
    PROVE  NoticedCall(c, x, y) = [op |-> c.op, at |-> c.at, arg |-> c.arg, got |-> Noticed(c.got, x, y)]
<1> SUFFICES ASSUME NEW o0, NEW a0, NEW r0, NEW g0, c = [op |-> o0, at |-> a0, arg |-> r0, got |-> g0]
             PROVE  NoticedCall(c, x, y) = [op |-> o0, at |-> a0, arg |-> r0, got |-> Noticed(g0, x, y)]
  OBVIOUS
<1> QED
  BY OneNotices

LEMMA ChangedIs ==
    ASSUME ApptInv, NEW t \in Tasks, NEW at, NEW listed \in BOOLEAN, Changed(t, at, listed),
           calendar' = calendar \/ listed
    PROVE  /\ Shaped' /\ Spared(t)
           /\ at = "end" => call'[t].op = "none"
<1>1. /\ call' = [u \in Tasks |-> call'[u]]
      /\ at = "end" => call'[t] = NoCall
      /\ at # "end" => call'[t] = [call[t] EXCEPT !.at = at]
      /\ \A u \in Tasks \ {t} : ~ Mine(u) => call'[u] = call[u]
  BY DEF Changed, Mine
<1>2. ASSUME NEW u \in Tasks \ {t}, Mine(u), NEW x, x = (call[u].got.stale \/ listed), NEW y, y = TRUE
      PROVE  call'[u] = NoticedCall(call[u], x, y)
  BY <1>2, Zenon DEF Changed, Mine, NoticedCall
<1>3. ASSUME NEW u \in Tasks \ {t}, Mine(u), NEW x, x = (call[u].got.stale \/ listed), NEW y, y = TRUE
      PROVE  call'[u] = [op |-> call[u].op, at |-> call[u].at, arg |-> call[u].arg,
                         got |-> GotOf(call[u].got.bad, call[u].got.cfg, call[u].got.old, x, y)]
  <2>1. call'[u] = NoticedCall(call[u], x, y)
    BY <1>2, <1>3
  <2>2. call[u] = [op |-> call[u].op, at |-> call[u].at, arg |-> call[u].arg, got |-> call[u].got]
    BY DEF ApptInv, Shaped
  <2>3. GotShape(call[u].got)
    BY <1>3 DEF ApptInv, ApAsks, Got
  <2>4. Noticed(call[u].got, x, y) = GotOf(call[u].got.bad, call[u].got.cfg, call[u].got.old, x, y)
    BY <2>3, LearnedIs
  <2>5. NoticedCall(call[u], x, y) = [op |-> call[u].op, at |-> call[u].at, arg |-> call[u].arg,
                                      got |-> Noticed(call[u].got, x, y)]
    BY <2>2, NoticedIs
  <2> QED
    BY <2>1, <2>4, <2>5
<1>4. /\ at # "end" => /\ call'[t].op = call[t].op /\ call'[t].at = at
                      /\ call'[t].arg = call[t].arg /\ call'[t].got = call[t].got
                      /\ call'[t] = [op |-> call'[t].op, at |-> call'[t].at, arg |-> call'[t].arg, got |-> call'[t].got]
      /\ at = "end" => /\ call'[t].op = "none"
                      /\ call'[t] = [op |-> call'[t].op, at |-> call'[t].at, arg |-> call'[t].arg, got |-> call'[t].got]
  BY <1>1 DEF ApptInv, Shaped, NoCall
<1>5. ASSUME NEW u \in Tasks \ {t}, Mine(u), NEW x, x = (call[u].got.stale \/ listed), NEW y, y = TRUE
      PROVE  /\ call'[u] = [op |-> call'[u].op, at |-> call'[u].at, arg |-> call'[u].arg, got |-> call'[u].got]
             /\ call'[u].op = call[u].op /\ call'[u].at = call[u].at /\ call'[u].arg = call[u].arg
             /\ GotShape(call'[u].got)
             /\ call'[u].got.bad = call[u].got.bad /\ call'[u].got.cfg = call[u].got.cfg
             /\ call'[u].got.old = call[u].got.old
             /\ call'[u].got.stale = x /\ call'[u].got.void = y
  <2> SUFFICES ASSUME NEW b, b = call[u].got.bad, NEW c, c = call[u].got.cfg, NEW o, o = call[u].got.old
               PROVE  /\ call'[u] = [op |-> call'[u].op, at |-> call'[u].at, arg |-> call'[u].arg, got |-> call'[u].got]
                      /\ call'[u].op = call[u].op /\ call'[u].at = call[u].at /\ call'[u].arg = call[u].arg
                      /\ GotShape(call'[u].got)
                      /\ call'[u].got.bad = b /\ call'[u].got.cfg = c
                      /\ call'[u].got.old = o
                      /\ call'[u].got.stale = x /\ call'[u].got.void = y
    OBVIOUS
  <2>1. call'[u] = [op |-> call[u].op, at |-> call[u].at, arg |-> call[u].arg, got |-> GotOf(b, c, o, x, y)]
    BY <1>3, <1>5
  <2>2. /\ call'[u].op = call[u].op /\ call'[u].at = call[u].at /\ call'[u].arg = call[u].arg
        /\ call'[u].got = GotOf(b, c, o, x, y)
    BY <2>1
  <2>3. CfgShape(c) /\ ApptShape(o)
    BY <1>5 DEF ApptInv, ApAsks, Got, GotShape
  <2>4. GotShape(GotOf(b, c, o, x, y))
    BY <2>3, GotShaped, Zenon
  <2>5. /\ GotOf(b, c, o, x, y).bad = b /\ GotOf(b, c, o, x, y).cfg = c /\ GotOf(b, c, o, x, y).old = o
        /\ GotOf(b, c, o, x, y).stale = x /\ GotOf(b, c, o, x, y).void = y
    BY GotParts
  <2> QED
    BY <2>1, <2>2, <2>4, <2>5
<1>6. Shaped'
  <2>1. ASSUME NEW u \in Tasks
        PROVE  call'[u] = [op |-> call'[u].op, at |-> call'[u].at, arg |-> call'[u].arg, got |-> call'[u].got]
    <3>1. CASE u = t
      BY <1>4, <3>1
    <3>2. CASE u # t /\ Mine(u)
      <4> SUFFICES ASSUME NEW x, x = (call[u].got.stale \/ listed), NEW y, y = TRUE
                   PROVE  call'[u] = [op |-> call'[u].op, at |-> call'[u].at, arg |-> call'[u].arg, got |-> call'[u].got]
        OBVIOUS
      <4> QED
        BY <1>5, <3>2
    <3>3. CASE u # t /\ ~ Mine(u)
      BY <1>1, <3>3 DEF ApptInv, Shaped
    <3> QED
      BY <3>1, <3>2, <3>3
  <2> QED
    BY <1>1, <2>1 DEF Shaped
<1>7. Spared(t)
  <2> SUFFICES ASSUME NEW u \in Tasks \ {t}
               PROVE  /\ call'[u].op = call[u].op /\ call'[u].at = call[u].at /\ call'[u].arg = call[u].arg
                      /\ ~ Mine(u) => call'[u].got = call[u].got
                      /\ Mine(u) =>
                          /\ GotShape(call'[u].got)
                          /\ call'[u].got.bad = call[u].got.bad /\ call'[u].got.cfg = call[u].got.cfg
                          /\ call'[u].got.old = call[u].got.old
                          /\ (call[u].got.stale => call'[u].got.stale) /\ (call[u].got.void => call'[u].got.void)
                          /\ calendar' = calendar \/ (call'[u].got.stale /\ call'[u].got.void)
                          /\ avail' = avail \/ call'[u].got.void
    BY DEF Spared
  <2>1. CASE Mine(u)
    <3>1. PICK x, y : x = (call[u].got.stale \/ listed) /\ y = TRUE
      OBVIOUS
    <3>2. /\ call'[u].op = call[u].op /\ call'[u].at = call[u].at /\ call'[u].arg = call[u].arg
          /\ GotShape(call'[u].got)
          /\ call'[u].got.bad = call[u].got.bad /\ call'[u].got.cfg = call[u].got.cfg
          /\ call'[u].got.old = call[u].got.old
          /\ call'[u].got.stale = x /\ call'[u].got.void = y
      BY <1>5, <2>1, <3>1
    <3> QED
      BY <2>1, <3>1, <3>2
  <2>2. CASE ~ Mine(u)
    BY <1>1, <2>2
  <2> QED
    BY <2>1, <2>2
<1> QED
  BY <1>4, <1>6, <1>7

\* A task that goes on asks for what it asked.
LEMMA ChangedOn ==
    ASSUME ApptInv, NEW t \in Tasks, NEW at, at # "end", NEW listed, Changed(t, at, listed)
    PROVE  /\ call'[t].op = call[t].op /\ call'[t].at = at
           /\ call'[t].arg = call[t].arg /\ call'[t].got = call[t].got
<1>1. call'[t] = [call[t] EXCEPT !.at = at]
  BY DEF Changed
<1> QED
  BY <1>1 DEF ApptInv, Shaped

LEMMA UnlistKeeps ==
    ASSUME ApptInv, NEW t \in Tasks, Unlist(t)
    PROVE  ApptInv'
<1>1. call[t].op \in {"change", "remove"} /\ call[t].at = "unlist" /\ Mine(t) /\ ApAsks(t) /\ ApKnows(t)
  BY DEF Unlist, On, Mine, Booking, ApptInv
<1> SUFFICES ASSUME NEW id \in Appts, id = Arg(t).id
             PROVE  ApptInv'
  BY <1>1 DEF ApAsks
<1>to. SUFFICES ASSUME NEW to, to = (IF call[t].op = "remove" THEN "end" ELSE "list")
                PROVE  ApptInv'
  OBVIOUS
<1>2. /\ calendar' = {r \in calendar : ~ (r.id = id /\ r.start = Got(t).old.start)}
      /\ UNCHANGED <<book, avail, born, unseen, tangled, broken>>
  BY DEF Unlist
<1>3. Changed(t, to, TRUE)
  BY <1>to, Zenon DEF Unlist
<1>4. /\ Shaped' /\ Spared(t)
      /\ to = "end" => call'[t].op = "none"
      /\ to # "end" => /\ call'[t].op = call[t].op /\ call'[t].at = to
                      /\ call'[t].arg = call[t].arg /\ call'[t].got = call[t].got
  <2>1. Shaped' /\ Spared(t) /\ (to = "end" => call'[t].op = "none")
    BY <1>3, ChangedIs
  <2>2. to # "end" => /\ call'[t].op = call[t].op /\ call'[t].at = to
                     /\ call'[t].arg = call[t].arg /\ call'[t].got = call[t].got
    BY <1>3, ChangedOn
  <2> QED
    BY <2>1, <2>2
<1>5. ApTables'
  BY <1>2 DEF ApptInv, ApTables, ApptShape, RowShape, CfgShape
<1>6. NoDoubleBooking'
  BY <1>2 DEF ApptInv, NoDoubleBooking, Live
<1>7. KeepsRest(t)
  <2>1. \A i \in Appts \ {id} : ListingOf(i)' = ListingOf(i)
    BY <1>2 DEF ListingOf
  <2> QED
    BY <1>1, <1>2, <2>1 DEF KeepsRest
<1>8. id \notin tangled => ListingOf(id)' = {}
  <2> SUFFICES ASSUME id \notin tangled, NEW r \in ListingOf(id)'
               PROVE  FALSE
    OBVIOUS
  <2>1. r \in calendar /\ r.id = id /\ r.start # Got(t).old.start
    BY <1>2 DEF ListingOf
  <2>2. ListingOf(id) = {RowOf(id, Got(t).old)}
    BY <1>1 DEF ApKnows, ListingKnown
  <2>3. r = RowOf(id, Got(t).old)
    BY <2>1, <2>2 DEF ListingOf
  <2> QED
    BY <2>1, <2>3 DEF RowOf
<1>9. ~ broken'
  BY <1>2 DEF ApptInv
<1>10. CASE call[t].op = "remove"
  <2>1. call'[t].op = "none"
    BY <1>to, <1>4, <1>10
  <2>2. ApAsks(t)' /\ ApKnows(t)' /\ AloneOrTangled(t)
    BY <2>1, IdleKnows DEF ApAsks, Mine, Booking
  <2>3. LeavesItTidy(t)
    BY <1>1, <1>2, <1>8, <1>10, NoApptIs DEF LeavesItTidy, Agrees, ApKnows, ListingKnown
  <2> QED
    BY <1>4, <1>5, <1>6, <1>7, <1>9, <2>2, <2>3, ApptStep
<1>11. CASE call[t].op = "change"
  <2>1. call'[t].op = "change" /\ call'[t].at = "list" /\ Got(t)' = Got(t)
    BY <1>to, <1>4, <1>11 DEF Got
  <2>2. /\ Mine(t)' /\ Arg(t)' = Arg(t) /\ Start(t)' = Start(t) /\ Dur(t)' = Dur(t)
        /\ NewRow(t)' = NewRow(t)
        /\ (ListsRow(t)' <=> ListsRow(t)) /\ AloneOrTangled(t) /\ LeavesItTidy(t)
    BY <1>to, <1>1, <1>4, <1>11, SameArgs
  <2>3. ApAsks(t)'
    <3>1. GotShape(Got(t))'
      BY <1>1, <2>1 DEF ApAsks, GotShape, CfgShape, ApptShape, GotOf
    <3> QED
      BY <1>1, <1>2, <1>11, <2>1, <2>2, <3>1 DEF ApAsks, Mine, Booking, ApPlaces
  <2>4. ListingKnown(t)'
    BY <1>1, <1>2, <1>8, <1>11, <2>1, <2>2 DEF ApKnows, ListingKnown, RowOf, Creates
  <2>5. FreeKnown(t)'
    <3> SUFFICES ASSUME NEW s, s = Start(t), NEW d, d = Dur(t)
                 PROVE  FreeKnown(t)'
      OBVIOUS
    <3>1. (Free(s, d, id) => Free(s, d, id)') /\ (FreeOfSeen(s, d, id) => FreeOfSeen(s, d, id)')
      BY <1>2 DEF Free, FreeOfSeen
    <3> QED
      BY <1>1, <1>2, <1>11, <2>1, <2>2, <3>1 DEF FreeKnown, ApKnows
  <2>6. ToolKnown(t)' /\ TurnKnown(t)'
    BY <2>1 DEF ToolKnown, TurnKnown
  <2> QED
    BY <1>4, <1>5, <1>6, <1>7, <1>9, <2>2, <2>3, <2>4, <2>5, <2>6, ApptStep DEF ApKnows
<1> QED
  BY <1>1, <1>10, <1>11

\* A row that was validated is free of those that were.
LEMMA ListedApart ==
    ASSUME ApptInv, NEW t \in Tasks, call[t].op \in {"book", "change"}, call[t].at = "list", ~ Got(t).stale,
           Arg(t).id \notin unseen, NewStatus(t) # "cancelled",
           Arg(t).dated \/ (Arg(t).dur = 0 /\ Arg(t).status # "confirmed" /\ Arg(t).id \notin tangled)
    PROVE  FreeOfSeen(Start(t), Dur(t), Arg(t).id)
<1>1. Mine(t) /\ ApAsks(t) /\ FreeKnown(t)
  BY DEF ApptInv, ApKnows, Mine, Booking
<1>2. ListsRow(t)
  BY <1>1 DEF ApAsks
<1>3. CASE Arg(t).dated
  BY <1>1, <1>2, <1>3 DEF FreeKnown, Free, FreeOfSeen
<1>4. CASE ~ Arg(t).dated
  <2>1. Arg(t).status = "same" /\ Got(t).old.status # "cancelled"
    BY <1>1, <1>4 DEF ApAsks, NewStatus
  <2> QED
    BY <1>1, <1>2, <1>4, <2>1 DEF FreeKnown
<1> QED
  BY <1>3, <1>4

LEMMA ListKeeps ==
    ASSUME ApptInv, NEW t \in Tasks, List(t)
    PROVE  ApptInv'
<1>1. call[t].op \in {"book", "change"} /\ call[t].at = "list" /\ Mine(t) /\ ApAsks(t) /\ ApKnows(t)
  BY DEF List, Validating, On, Mine, Booking, ApptInv, ApAsks, ApPlaces
<1>2. Changed(t, "end", TRUE)
  BY DEF List
<1>3. Shaped' /\ Spared(t) /\ call'[t].op = "none"
  BY <1>2, ChangedIs
<1> SUFFICES ASSUME NEW id \in Appts, id = Arg(t).id, NEW s \in Nat, s = Start(t), NEW d \in 0..Window, d = Dur(t),
                    NEW st, st = NewStatus(t)
             PROVE  ApptInv'
  BY <1>1, AskedIs DEF ApAsks
<1>4. SUFFICES ASSUME NEW new, new = [id |-> id, start |-> s, dur |-> d, status |-> st]
               PROVE  ApptInv'
  OBVIOUS
<1>5. new.id = id /\ new.start = s /\ new.dur = d /\ new.status = st /\ new = NewRow(t)
  BY <1>4 DEF NewRow
<1>6. RowShape(new)
  BY <1>4, <1>5 DEF RowShape
<1>7. calendar' = {r \in calendar : ~ (r.id = new.id /\ r.start = new.start)} \cup {new}
  BY <1>4, Zenon DEF List, NewStatus
<1>8. /\ unseen' = IF \/ Got(t).stale
                      \/ ~ Arg(t).dated /\ (Arg(t).dur # 0 \/ Arg(t).status = "confirmed" \/ Arg(t).id \in tangled)
                   THEN unseen \cup {Arg(t).id} ELSE unseen
      /\ UNCHANGED <<book, avail, born, tangled, broken>>
  BY DEF List
<1>9. ApTables'
  <2>1. \A r \in calendar' : RowShape(r)
    BY <1>6, <1>7 DEF ApptInv, ApTables
  <2> QED
    BY <1>8, <2>1 DEF ApptInv, ApTables, ApptShape, RowShape, CfgShape
<1>10. KeepsRest(t)
  <2>1. \A i \in Appts \ {id} : ListingOf(i)' = ListingOf(i)
    BY <1>5, <1>7 DEF ListingOf
  <2> QED
    BY <1>1, <1>8, <2>1 DEF KeepsRest
<1>11. NoDoubleBooking'
  <2>1. ASSUME NEW q \in calendar, q.id # id, q.status # "cancelled", st # "cancelled", {id, q.id} \cap unseen' = {}
        PROVE  ~ Overlap(s, d, q.start, q.dur) /\ ~ Overlap(q.start, q.dur, s, d)
    <3>1. /\ ~ Got(t).stale /\ id \notin unseen /\ q.id \notin unseen
          /\ Arg(t).dated \/ (Arg(t).dur = 0 /\ Arg(t).status # "confirmed" /\ Arg(t).id \notin tangled)
      BY <1>8, <2>1
    <3>2. FreeOfSeen(s, d, id)
      BY <1>1, <2>1, <3>1, ListedApart
    <3>3. ~ Overlap(s, d, q.start, q.dur)
      BY <2>1, <3>1, <3>2 DEF FreeOfSeen
    <3>4. q.start \in Nat /\ q.dur \in Nat
      BY DEF ApptInv, ApTables, RowShape, Window
    <3> QED
      BY <3>3, <3>4 DEF Overlap, Window
  <2> SUFFICES ASSUME NEW r \in calendar', r.status # "cancelled", NEW q \in calendar', q.status # "cancelled",
                      r.id # q.id, {r.id, q.id} \cap unseen' = {}
               PROVE  ~ Overlap(r.start, r.dur, q.start, q.dur)
    BY DEF NoDoubleBooking, Live
  <2>2. CASE r = new
    BY <1>5, <1>7, <2>1, <2>2
  <2>3. CASE q = new
    BY <1>5, <1>7, <2>1, <2>3
  <2>4. CASE r # new /\ q # new
    <3>1. r \in Live /\ q \in Live /\ {r.id, q.id} \cap unseen = {}
      BY <1>7, <1>8, <2>4 DEF Live
    <3> QED
      BY <3>1 DEF ApptInv, NoDoubleBooking
  <2> QED
    BY <2>2, <2>3, <2>4
<1>12. ApAsks(t)' /\ ApKnows(t)' /\ AloneOrTangled(t)
  BY <1>3, IdleKnows DEF ApAsks, Mine, Booking
<1>13. LeavesItTidy(t)
  <2> SUFFICES ASSUME id \notin tangled
               PROVE  Agrees(id)'
    BY <1>8 DEF LeavesItTidy
  <2>1. ListingOf(id) = {} /\ book[id].with /\ RowOf(id, book[id]) = new
    BY <1>1, <1>5 DEF ApKnows, ListingKnown
  <2>2. ListingOf(id)' = {new}
    BY <1>5, <1>7, <2>1 DEF ListingOf
  <2> QED
    BY <1>8, <2>1, <2>2 DEF Agrees, RowOf
<1>14. ~ broken'
  BY <1>8 DEF ApptInv
<1> QED
  BY <1>3, <1>9, <1>10, <1>11, <1>12, <1>13, <1>14, ApptStep

\* The availability is read, and the whole row is written.
WithField(a, f, x) == [a EXCEPT !.set = TRUE, ![f] = x]

LEMMA WithFieldIs ==
    ASSUME NEW a, CfgShape(a), NEW f \in {"buffer", "most", "usual"}, NEW x,
           f = "buffer" => x \in 0..1, f = "usual" => x \in 1..2
    PROVE  CfgShape(WithField(a, f, x))
<1>1. PICK s0, u0, b0, m0 : a = [set |-> s0, usual |-> u0, buffer |-> b0, most |-> m0] /\ u0 \in 1..2 /\ b0 \in 0..1
  BY DEF CfgShape
<1> DEFINE k == WithField(a, f, x)
<1>2. DOMAIN a = {"set", "usual", "buffer", "most"}
  BY <1>1
<1>3. /\ DOMAIN k = {"set", "usual", "buffer", "most"} /\ k = [i \in DOMAIN k |-> k[i]]
      /\ \A i \in {"usual", "buffer", "most"} : k[i] = IF i = f THEN x ELSE a[i]
  BY <1>2 DEF WithField
<1> HIDE DEF k
<1>4. k = [set |-> k["set"], usual |-> k["usual"], buffer |-> k["buffer"], most |-> k["most"]]
  BY <1>3
<1>5. k.usual \in 1..2 /\ k.buffer \in 0..1
  BY <1>1, <1>3
<1>6. CfgShape(k)
  BY <1>4, <1>5 DEF CfgShape
<1> QED
  BY <1>6 DEF k

LEMMA ReadsToSetKeeps ==
    ASSUME ApptInv, NEW t \in Tasks, ReadsToSet(t)
    PROVE  ApptInv'
<1>1. call[t].op = "avail" /\ ~ Mine(t) /\ ApAsks(t)
  BY DEF ReadsToSet, On, Mine, Booking, ApptInv
<1>2. Know(t, "write", WithField(avail, Arg(t).field, Arg(t).is))
  BY Zenon DEF ReadsToSet, WithField
<1> SUFFICES ASSUME NEW g, g = WithField(avail, Arg(t).field, Arg(t).is)
             PROVE  ApptInv'
  OBVIOUS
<1>3. CfgShape(g)
  BY <1>1, WithFieldIs DEF ApAsks, ApptInv, ApTables
<1>4. Continues(t, "write", g) /\ UNCHANGED apVars
  BY <1>2, LearnGoes DEF Know, ApptInv
<1>5. /\ Shaped' /\ Only(t) /\ call'[t].op = "avail" /\ call'[t].at = "write" /\ Arg(t)' = Arg(t) /\ Got(t)' = g
  BY <1>1, <1>4 DEF Continues, Arg, Got
<1>6. ApTables' /\ NoDoubleBooking' /\ Spared(t) /\ KeepsRest(t)
  BY <1>4, <1>5, QuietTables DEF apVars
<1>7. ApAsks(t)'
  <2>1. CfgShape(Got(t))'
    BY <1>3, <1>5 DEF CfgShape
  <2> QED
    BY <1>1, <1>5, <2>1 DEF ApAsks, Mine, Booking
<1>8. ApKnows(t)' /\ AloneOrTangled(t)
  BY <1>5, IdleKnows DEF Booking
<1>9. LeavesItTidy(t) /\ ~ broken'
  BY <1>1, <1>4 DEF LeavesItTidy, apVars, ApptInv
<1> QED
  BY <1>5, <1>6, <1>7, <1>8, <1>9, ApptStep

LEMMA WriteAvailKeeps ==
    ASSUME ApptInv, NEW t \in Tasks, WriteAvail(t)
    PROVE  ApptInv'
<1>1. call[t].op = "avail" /\ call[t].at = "write" /\ ~ Mine(t) /\ ApAsks(t)
  BY DEF WriteAvail, On, Mine, Booking, ApptInv
<1>2. avail' = Got(t) /\ UNCHANGED <<book, calendar, born, unseen, tangled, broken>> /\ Changed(t, "end", FALSE)
  BY DEF WriteAvail
<1>3. Shaped' /\ Spared(t) /\ call'[t].op = "none"
  BY <1>2, ChangedIs
<1>4. ApTables'
  <2>1. CfgShape(Got(t))
    BY <1>1 DEF ApAsks
  <2> QED
    BY <1>2, <2>1 DEF ApptInv, ApTables, ApptShape, RowShape, CfgShape
<1>5. NoDoubleBooking' /\ KeepsRest(t) /\ ~ broken' /\ LeavesItTidy(t)
  BY <1>1, <1>2 DEF ApptInv, NoDoubleBooking, Live, KeepsRest, ListingOf, LeavesItTidy
<1>6. ApAsks(t)' /\ ApKnows(t)' /\ AloneOrTangled(t)
  BY <1>3, IdleKnows DEF ApAsks, Mine, Booking
<1> QED
  BY <1>3, <1>4, <1>5, <1>6, ApptStep

-----------------------------------------------------------------------------
(* What is offered *)

LEMMA WithinADay == \A s \in 0..Days - 1 : s % Days = s
  BY AppointmentsAssumption

LEMMA Offers ==
    ASSUME ApTables
    PROVE  OffersAreBookable
<1> SUFFICES ASSUME NEW s \in Offered(avail)
             PROVE  /\ ~ Conflicts(s, avail.usual, "none")
                    /\ Open(s, avail.usual)
                    /\ avail.buffer > 0 => ~ TooClose(s, avail.usual, avail.buffer, "none")
  BY DEF OffersAreBookable
<1>1. /\ s \in Nat /\ avail.usual \in 1..2 /\ avail.buffer \in 0..1 /\ Days \in Nat \ {0}
      /\ Hours[1] \in Nat /\ Hours[2] \in 0..Days - 1
      /\ s >= Hours[1] /\ s + avail.usual <= Hours[2]
  BY AppointmentsAssumption DEF ApTables, CfgShape, Offered, Starts
<1>2. \A r \in InRange(0, Days - 1, "none") :
        ~ (s < r.start + r.dur + avail.buffer /\ s + avail.usual + avail.buffer > r.start)
  BY DEF Offered
<1>3. ASSUME NEW r \in calendar, r.status # "cancelled", r.id # "none", r.start < Days
      PROVE  ~ (s < r.start + r.dur + avail.buffer /\ s + avail.usual + avail.buffer > r.start)
  <2>1. r.start \in Nat
    BY DEF ApTables, RowShape
  <2>2. r \in InRange(0, Days - 1, "none")
    BY <1>1, <1>3, <2>1 DEF InRange
  <2> QED
    BY <1>2, <2>2
<1>4. ~ Conflicts(s, avail.usual, "none")
  <2> SUFFICES ASSUME NEW r \in calendar, r.status # "cancelled", r.id # "none",
                      Overlap(s, avail.usual, r.start, r.dur)
               PROVE  FALSE
    BY DEF Conflicts, InRange
  <2>1. r.start \in Nat /\ r.dur \in Nat
    BY DEF ApTables, RowShape, Window
  <2>2. s < r.start + r.dur /\ s + avail.usual > r.start
    BY DEF Overlap
  <2> QED
    BY <1>1, <1>3, <2>1, <2>2
<1>5. Open(s, avail.usual)
  <2>1. s \in 0..Days - 1 /\ s + avail.usual \in 0..Days - 1
    BY <1>1
  <2>2. s % Days = s /\ (s + avail.usual) % Days = s + avail.usual
    BY <2>1, WithinADay
  <2> QED
    BY <1>1, <2>2 DEF Open
<1>6. ASSUME avail.buffer > 0
      PROVE  ~ TooClose(s, avail.usual, avail.buffer, "none")
  <2> SUFFICES ASSUME NEW r \in calendar, r.status # "cancelled", r.id # "none",
                      s < r.start + r.dur + avail.buffer, s + avail.usual + avail.buffer > r.start
               PROVE  FALSE
    BY DEF TooClose, InRange
  <2>1. r.start \in Nat
    BY DEF ApTables, RowShape
  <2> QED
    BY <1>1, <1>3, <2>1
<1> QED
  BY <1>4, <1>5, <1>6

-----------------------------------------------------------------------------

\* Nothing is forgotten while nothing happens.
LEMMA SameAll ==
    ASSUME NEW t, call' = call
    PROVE  /\ Arg(t)' = Arg(t) /\ Got(t)' = Got(t) /\ (Mine(t)' <=> Mine(t))
           /\ Start(t)' = Start(t) /\ Dur(t)' = Dur(t) /\ But(t)' = But(t) /\ NewRow(t)' = NewRow(t)
           /\ (ListsRow(t)' <=> ListsRow(t)) /\ (Creates(t)' <=> Creates(t))
<1>1. Arg(t)' = Arg(t) /\ Got(t)' = Got(t) /\ (Mine(t)' <=> Mine(t))
  BY DEF Arg, Got, Mine
<1>2. Start(t)' = Start(t) /\ Dur(t)' = Dur(t) /\ But(t)' = But(t) /\ NewStatus(t)' = NewStatus(t)
  BY <1>1 DEF Start, Dur, But, NewStatus
<1>3. NewRow(t)' = NewRow(t)
  BY <1>1, <1>2 DEF NewRow
<1>4. (ListsRow(t)' <=> ListsRow(t)) /\ (Creates(t)' <=> Creates(t))
  BY <1>1 DEF ListsRow, Creates
<1> QED
  BY <1>1, <1>2, <1>3, <1>4

LEMMA AsksOn ==
    ASSUME NEW t \in Tasks, UNCHANGED <<call, born>>, ApAsks(t)
    PROVE  ApAsks(t)'
<1>1. (GotShape(Got(t))' <=> GotShape(Got(t))) /\ (CfgShape(Got(t))' <=> CfgShape(Got(t)))
  BY SameAll DEF GotShape, GotOf, CfgShape, ApptShape
<1>2. AskShape(Arg(t))' <=> AskShape(Arg(t))
  BY SameAll DEF AskShape
<1> QED
  BY <1>1, <1>2, SameAll DEF ApAsks

LEMMA KnowsOn ==
    ASSUME NEW t \in Tasks, UNCHANGED <<call, book, calendar, avail, unseen, tangled>>, ApKnows(t)
    PROVE  ApKnows(t)'
<1>1. /\ Arg(t)' = Arg(t) /\ Got(t)' = Got(t) /\ (Mine(t)' <=> Mine(t))
      /\ Start(t)' = Start(t) /\ Dur(t)' = Dur(t) /\ But(t)' = But(t) /\ NewRow(t)' = NewRow(t)
      /\ (ListsRow(t)' <=> ListsRow(t)) /\ (Creates(t)' <=> Creates(t))
  BY SameAll
<1> SUFFICES ASSUME NEW id, NEW s, NEW d, NEW b, id = Arg(t).id, s = Start(t), d = Dur(t), b = But(t)
             PROVE  ApKnows(t)'
  OBVIOUS
<1>2. ListingOf(id)' = ListingOf(id) /\ (Agrees(id)' <=> Agrees(id))
  BY DEF ListingOf, Agrees, RowOf
<1>3. ListingKnown(t)'
  BY <1>1, <1>2 DEF ApKnows, ListingKnown, RowOf
<1>4. /\ Conflicts(s, d, b)' <=> Conflicts(s, d, b)
      /\ Free(s, d, id)' <=> Free(s, d, id)
      /\ OpenNow(s, d)' <=> OpenNow(s, d)
      /\ RoomNow(s, b)' <=> RoomNow(s, b)
      /\ FarNow(s, d, b)' <=> FarNow(s, d, b)
  BY SameLooks
<1>5. FreeKnown(t)'
  <2>1. FreeOfSeen(s, d, id)' <=> FreeOfSeen(s, d, id)
    BY DEF FreeOfSeen
  <2> QED
    BY <1>1, <1>4, <2>1 DEF ApKnows, FreeKnown
<1>6. ToolKnown(t)'
  <2>1. (PassedSoFar(t, s, d, b)' <=> PassedSoFar(t, s, d, b)) /\ (Valid(s, d, b)' <=> Valid(s, d, b))
    BY <1>4 DEF PassedSoFar, Valid
  <2> QED
    BY <1>1, <2>1 DEF ApKnows, ToolKnown
<1>7. TurnKnown(t)'
  <2>1. \A u, e, c : Valid(u, e, c)' <=> Valid(u, e, c)
    BY SameLooks DEF Valid
  <2> SUFFICES ASSUME NEW s2, NEW d2, s2 = Arg(t).start,
                      d2 = (IF Arg(t).dur # 0 THEN Arg(t).dur ELSE book[id].dur)
               PROVE  TurnKnown(t)'
    OBVIOUS
  <2>2. (Valid(s, d, b)' <=> Valid(s, d, b)) /\ (Valid(s2, d2, id)' <=> Valid(s2, d2, id))
    BY <2>1
  <2> QED
    BY <1>1, <2>2 DEF ApKnows, TurnKnown
<1> QED
  BY <1>3, <1>5, <1>6, <1>7 DEF ApKnows

LEMMA ApptInit ==
    ASSUME AppointmentsInit, TasksInit(Budgets)
    PROVE  ApptInv
<1>1. call = [t \in Tasks |-> NoCall] /\ book = [id \in Appts |-> NoAppt] /\ calendar = {} /\ avail = NoAvail
  BY DEF AppointmentsInit, TasksInit
<1>2. \A t \in Tasks : call[t] = NoCall /\ call[t].op = "none" /\ ~ Mine(t)
  BY <1>1 DEF NoCall, Mine, Booking
<1>3. Shaped
  BY <1>1 DEF Shaped, NoCall
<1>4. ApTables /\ Unborn /\ \A id \in Appts : Agrees(id)
  BY <1>1, NoApptIs, NoAvailIs DEF ApTables, Unborn, AppointmentsInit, Agrees, ListingOf
<1>5. \A t \in Tasks : ApAsks(t) /\ ApKnows(t)
  BY <1>2 DEF ApAsks, ApKnows, ListingKnown, FreeKnown, ToolKnown, TurnKnown
<1>6. NoDoubleBooking /\ OneBooker /\ ~ broken
  BY <1>1, <1>2 DEF NoDoubleBooking, Live, OneBooker, AppointmentsInit
<1> QED
  BY <1>3, <1>4, <1>5, <1>6 DEF ApptInv

LEMMA ApptInvHolds ==
    ASSUME ApptInv
    PROVE  AppointmentsHold
<1>1. ListingAgrees
  <2> SUFFICES ASSUME NEW id \in Appts \ tangled, \A t \in Tasks : call[t].op \in Booking => Arg(t).id # id
               PROVE  {r \in calendar : r.id = id} =
                          IF ~ book[id].with THEN {}
                          ELSE {[id |-> id, start |-> book[id].start, dur |-> book[id].dur, status |-> book[id].status]}
    BY DEF ListingAgrees
  <2>1. Agrees(id)
    BY DEF ApptInv, Untouched, Mine
  <2> QED
    BY <2>1 DEF Agrees, ListingOf, RowOf
<1> QED
  BY <1>1, Offers DEF ApptInv, AppointmentsHold, PromiseKept

\* The calendar of an assistant is free of overlaps among the appointments
\* that were validated against it, says what the appointments say, keeps what
\* the tool has promised and offers only times that can be booked, whoever
\* books, changes, cancels and sets the availability meanwhile
\* (services/appointment.rs, the schedule_appointment tool and the turn).
THEOREM AppointmentsHoldAlways == ApptSpec => []AppointmentsHold
<1>1. AppointmentsInit /\ TasksInit(Budgets) => ApptInv
  BY ApptInit
<1>2. ApptInv /\ [ApptNext]_<<tasking, apVars>> => ApptInv'
  <2> SUFFICES ASSUME ApptInv, [ApptNext]_<<tasking, apVars>>
               PROVE  ApptInv'
    OBVIOUS
  <2>1. ASSUME NEW t \in Tasks, AppointmentsStep(t)
        PROVE  ApptInv'
    BY <2>1, BookCallKeeps, ChangeCallKeeps, RemoveCallKeeps, ToolCallKeeps, AvailCallKeeps,
       BeginsToBookKeeps, BeginsToChangeKeeps, ToolReadsKeeps, ChecksConflictsKeeps, ReadsAvailKeeps,
       ChecksDayKeeps, ChecksBufferKeeps, RefusedKeeps, AcceptedKeeps, TurnBooksKeeps, WriteMainKeeps,
       UnlistKeeps, ListKeeps, ReadsToRemoveKeeps, DeleteMainKeeps, ReadsToSetKeeps, WriteAvailKeeps,
       DropApptKeeps
       DEF AppointmentsStep
  <2>2. CASE UNCHANGED <<tasking, apVars>>
    <3> USE <2>2 DEF tasking, apVars, apTables
    <3>1. Shaped' /\ ApTables' /\ NoDoubleBooking' /\ OneBooker' /\ Unborn' /\ ~ broken'
      BY DEF ApptInv, Shaped, ApTables, NoDoubleBooking, Live, OneBooker, Unborn, ListingOf, Mine, Arg,
             ApptShape, RowShape, CfgShape
    <3>2. ASSUME NEW id \in Appts
          PROVE  (Agrees(id)' <=> Agrees(id)) /\ (Untouched(id)' <=> Untouched(id)) /\ ListingOf(id)' = ListingOf(id)
      BY DEF Agrees, ListingOf, RowOf, Untouched, Mine, Arg
    <3>3. ASSUME NEW t \in Tasks
          PROVE  ApAsks(t)' /\ ApKnows(t)'
      BY AsksOn, KnowsOn DEF ApptInv
    <3> QED
      BY <3>1, <3>2, <3>3 DEF ApptInv
  <2> QED
    BY <2>1, <2>2 DEF ApptNext
<1>3. ApptInv => AppointmentsHold
  BY ApptInvHolds
<1> QED
  BY <1>1, <1>2, <1>3, PTL DEF ApptSpec

-----------------------------------------------------------------------------
(* Sharing: a token that has ended opens nothing.  The handlers look a      *)
(* token up in one await and the assistant in another.  What matters is    *)
(* what is true of ended tokens in every state (EndedShut), and what a     *)
(* task that carries one may have learned: if a row still let it through,  *)
(* the assistant is gone (LateCall).                                       *)

\* The component on its own, however many calls there are.
ShareNext  == \E t \in Tasks : SharingStep(t)
ShareSpec  == SharingInit /\ TasksInit(Budgets) /\ [][ShareNext]_<<tasking, shVars>>

\* The types of what a token is looked up in.
Typed ==
    /\ minted \in 0 .. TokenLimit /\ share \in 0 .. minted /\ ended \subseteq 1 .. minted
    /\ alive \in BOOLEAN
    /\ access \in [Tokens -> {"none", "live", "revoked"}]

\* A token is the share token or a row, and the next one is neither.
Apart ==
    /\ share # 0 => access[share] = "none"
    /\ \A k \in Tokens : access[k] # "none" => k <= minted

\* Where an ended token is looked for, it is not found.
EndedShut == alive => \A k \in ended : share # k /\ access[k] # "live"

\* The owner withdraws rows only.
Withdraws(t) == call[t].op \in {"revoke_token", "delete_token"} =>
                    Arg(t) \in 1 .. minted /\ Arg(t) # share

\* A call that was made with an ended token, and got past its row.
LateCall(t) == call[t].op \in TokenOps /\ Arg(t).late =>
               /\ Arg(t).token \in ended
               /\ call[t].at = "assistant" => ~ alive

TokenTables == Typed /\ Apart /\ EndedShut /\ EndedTokensOpenNothing

TokenInv == Shaped /\ TokenTables /\ \A t \in Tasks : Withdraws(t) /\ LateCall(t)

USE SharingAssumption

-----------------------------------------------------------------------------

\* Tokens are numbered as they are made, an ended one stays so, and a deleted
\* assistant does not come back.
Grows ==
    /\ minted <= minted' /\ minted' \in Nat /\ ended \subseteq ended'
    /\ alive' => alive
    /\ share' \in {share, 0} \/ (minted < minted' /\ share' = minted')

\* What is known of the other tasks stays true while tokens only grow and end.
LEMMA OthersHold ==
    ASSUME TokenInv, NEW t \in Tasks, NEW u \in Tasks, u # t, Only(t), Grows
    PROVE  Withdraws(u)' /\ LateCall(u)'
<1>1. call'[u] = call[u] /\ Withdraws(u) /\ LateCall(u) /\ minted \in Nat
  BY DEF TokenInv, Only, TokenTables, Typed
<1>2. Withdraws(u)'
  BY <1>1 DEF Withdraws, Grows, Arg
<1>3. LateCall(u)'
  BY <1>1 DEF LateCall, Grows, Arg
<1> QED
  BY <1>2, <1>3

\* A step that leaves the tables alone, or only writes the lists of the
\* accepted shares.
Aside == UNCHANGED <<alive, minted, share, access, ended, served>>

\* It keeps the tables as they should be.
LEMMA AsideKeeps == ASSUME TokenInv, Aside PROVE TokenTables' /\ Grows
  BY DEF TokenInv, Aside, TokenTables, Typed, Apart, EndedShut, EndedTokensOpenNothing, Grows

\* Such a step of a task whose call withdraws nothing, and is not past the row
\* of an ended token.
LEMMA AsideStep ==
    ASSUME TokenInv, NEW t \in Tasks, Aside, Shaped', Only(t), Withdraws(t)', LateCall(t)'
    PROVE  TokenInv'
<1>1. TokenTables' /\ Grows
  BY AsideKeeps
<1>2. \A u \in Tasks : u # t => Withdraws(u)' /\ LateCall(u)'
  BY <1>1, OthersHold
<1> QED
  BY <1>1, <1>2 DEF TokenInv

\* A task that is done, when the tables are right.
LEMMA EndStep ==
    ASSUME TokenInv, NEW t \in Tasks, TokenTables', Grows, Shaped', Only(t), call'[t].op = "none"
    PROVE  TokenInv'
<1>1. Withdraws(t)' /\ LateCall(t)'
  BY DEF Withdraws, LateCall, TokenOps
<1>2. \A u \in Tasks : u # t => Withdraws(u)' /\ LateCall(u)'
  BY OthersHold
<1> QED
  BY <1>1, <1>2 DEF TokenInv

\* A task that goes on with its call, when the tables are right.
LEMMA MoveStep ==
    ASSUME TokenInv, NEW t \in Tasks, TokenTables', Grows, Shaped', Only(t),
           call'[t].op = call[t].op, call'[t].arg = call[t].arg, call'[t].at # "assistant",
           share' \in {share, 0}
    PROVE  TokenInv'
<1>1. Withdraws(t) /\ LateCall(t)
  BY DEF TokenInv
<1>2. Withdraws(t)'
  <2>1. minted \in Nat
    BY DEF TokenInv, TokenTables, Typed
  <2> QED
    BY <1>1, <2>1 DEF Withdraws, Arg, Grows
<1>3. LateCall(t)'
  BY <1>1 DEF LateCall, Arg, Grows
<1>4. \A u \in Tasks : u # t => Withdraws(u)' /\ LateCall(u)'
  BY OthersHold
<1> QED
  BY <1>2, <1>3, <1>4 DEF TokenInv

-----------------------------------------------------------------------------
(* The steps. *)

\* A call is made: of the owner with a row that is there, of a user with any
\* token there has been.
LEMMA BeginSteps ==
    ASSUME TokenInv, NEW t \in Tasks, OwnerBegins(t) \/ TokenCalls(t)
    PROVE  TokenInv'
<1>1. Aside /\ Shaped /\ TokenTables
  BY DEF OwnerBegins, TokenCalls, shVars, shHistory, Aside, TokenInv
<1>2. ASSUME NEW op \in {"create_share_token", "create_token", "revoke_share_token", "delete_assistant"},
             Begin(t, op, "get", 0)
      PROVE  TokenInv'
  <2>1. Shaped' /\ Only(t) /\ call'[t].op = op
    BY <1>1, <1>2 DEF Begin, BeginWith, Shaped, Only
  <2>2. Withdraws(t)' /\ LateCall(t)'
    BY <2>1 DEF Withdraws, LateCall, TokenOps
  <2> QED
    BY <1>1, <2>1, <2>2, AsideStep
<1>3. ASSUME NEW op \in {"revoke_token", "delete_token"}, NEW k \in Tokens, access[k] # "none",
             Begin(t, op, "get", k)
      PROVE  TokenInv'
  <2>1. Shaped' /\ Only(t) /\ call'[t].op = op /\ call'[t].arg = k
    BY <1>1, <1>3 DEF Begin, BeginWith, Shaped, Only
  <2>2. k \in 1 .. minted /\ k # share
    BY <1>1, <1>3 DEF TokenTables, Typed, Apart, Tokens
  <2>3. Withdraws(t)' /\ LateCall(t)'
    BY <1>1, <2>1, <2>2 DEF Withdraws, LateCall, TokenOps, Arg, Aside
  <2> QED
    BY <1>1, <2>1, <2>3, AsideStep
<1>4. ASSUME NEW u \in Users, NEW op \in {"get_shared_assistant", "accept_share"}, NEW k \in 1 .. minted,
             Begin(t, op, "share", [user |-> u, token |-> k, late |-> k \in ended])
      PROVE  TokenInv'
  <2>1. Shaped' /\ Only(t) /\ call'[t].op = op /\ call'[t].at = "share"
        /\ call'[t].arg = [user |-> u, token |-> k, late |-> k \in ended]
    BY <1>1, <1>4 DEF Begin, BeginWith, Shaped, Only
  <2>2. Withdraws(t)'
    BY <2>1 DEF Withdraws
  <2>3. LateCall(t)'
    <3>1. \A late : [user |-> u, token |-> k, late |-> late].token = k
                    /\ [user |-> u, token |-> k, late |-> late].late = late
      OBVIOUS
    <3>2. call'[t].arg.token = k /\ call'[t].arg.late = (k \in ended)
      BY <2>1, <3>1, Zenon
    <3>3. call'[t].arg.late => k \in ended
      BY <3>2, Zenon
    <3> QED
      BY <1>1, <2>1, <3>2, <3>3 DEF LateCall, Aside, Arg
  <2> QED
    BY <1>1, <2>1, <2>2, <2>3, AsideStep
<1>5. ASSUME NEW u \in Users,
             Begin(t, "remove_accepted_share", "get", [user |-> u, token |-> 0, late |-> FALSE])
      PROVE  TokenInv'
  <2>1. Shaped' /\ Only(t) /\ call'[t].op = "remove_accepted_share"
    BY <1>1, <1>5 DEF Begin, BeginWith, Shaped, Only
  <2>2. Withdraws(t)' /\ LateCall(t)'
    BY <2>1 DEF Withdraws, LateCall, TokenOps
  <2> QED
    BY <1>1, <2>1, <2>2, AsideStep
<1> QED
  BY <1>2, <1>3, <1>4, <1>5 DEF OwnerBegins, TokenCalls

\* Reading the assistant, and everything about accepted shares but the look-up
\* of the token.
LEMMA AsideSteps ==
    ASSUME TokenInv, NEW t \in Tasks,
           OwnerReads(t) \/ DeleteGuests(t) \/ WriteMine(t) \/ WriteGuest(t)
           \/ ReadMine(t) \/ RemoveMine(t) \/ RemoveGuest(t) \/ Drops(t)
    PROVE  TokenInv'
<1>1. Aside /\ Shaped
  BY DEF OwnerReads, DeleteGuests, WriteMine, WriteGuest, ReadMine, RemoveMine, RemoveGuest, Drops,
         shVars, shHistory, Aside, TokenInv
<1>2. TokenTables' /\ Grows
  BY <1>1, AsideKeeps
<1>3. ASSUME Finish(t) \/ Drop(t)
      PROVE  TokenInv'
  BY <1>1, <1>2, <1>3, Leaves, EndStep
<1>4. ASSUME NEW at \in {"write", "row", "guest", "mine"}, Goto(t, at) \/ \E got : Learn(t, at, got)
      PROVE  TokenInv'
  <2>1. Shaped' /\ Only(t) /\ call'[t].op = call[t].op /\ call'[t].at = at /\ call'[t].arg = call[t].arg
    BY <1>1, <1>4, Moves
  <2> QED
    BY <1>1, <1>2, <2>1, MoveStep DEF Aside
<1> QED
  BY <1>3, <1>4 DEF OwnerReads, DeleteGuests, WriteMine, WriteGuest, ReadMine, RemoveMine, RemoveGuest, Drops

\* The owner replaces, adds, withdraws and deletes.
LEMMA OwnerSteps ==
    ASSUME TokenInv, NEW t \in Tasks,
           SetShareToken(t) \/ CreateToken(t) \/ WithdrawToken(t) \/ DeleteAssistant(t)
    PROVE  TokenInv'
<1>1. Shaped /\ TokenTables /\ Withdraws(t)
  BY DEF TokenInv
<1>2. Finish(t)
  BY DEF SetShareToken, CreateToken, WithdrawToken, DeleteAssistant
<1>3. Shaped' /\ Only(t) /\ call'[t].op = "none"
  BY <1>1, <1>2, Leaves
<1>4. minted \in 0 .. TokenLimit /\ share \in 0 .. minted
  BY <1>1 DEF TokenTables, Typed
<1>5. CASE SetShareToken(t)
  <2>1. /\ minted' \in 0 .. TokenLimit /\ minted <= minted'
        /\ share' = 0 \/ (share' = minted' /\ minted' = minted + 1)
        /\ ended' = IF share = 0 THEN ended ELSE ended \cup {share}
        /\ UNCHANGED <<alive, access, served>>
    BY <1>4, <1>5 DEF SetShareToken, Mints
  <2>2. TokenTables'
    BY <1>1, <1>4, <2>1 DEF TokenTables, Typed, Apart, EndedShut, EndedTokensOpenNothing, Tokens
  <2>3. Grows
    BY <1>4, <2>1 DEF Grows
  <2> QED
    BY <1>3, <2>2, <2>3, EndStep
<1>6. CASE CreateToken(t)
  <2>1. /\ minted' \in 0 .. TokenLimit /\ minted' = minted + 1
        /\ access' = [access EXCEPT ![minted'] = "live"]
        /\ UNCHANGED <<alive, share, ended, served>>
    BY <1>4, <1>6 DEF CreateToken, Mints, shHistory
  <2>2. TokenTables'
    BY <1>1, <1>4, <2>1 DEF TokenTables, Typed, Apart, EndedShut, EndedTokensOpenNothing, Tokens
  <2>3. Grows
    BY <1>4, <2>1 DEF Grows
  <2> QED
    BY <1>3, <2>2, <2>3, EndStep
<1>7. CASE WithdrawToken(t)
  <2>1. /\ Arg(t) \in 1 .. minted /\ Arg(t) # share
        /\ access'[Arg(t)] \in {"none", "revoked"}
        /\ access' \in [Tokens -> {"none", "live", "revoked"}]
        /\ \A k \in Tokens : access'[k] # "none" => access[k] # "none"
        /\ \A k \in Tokens : access'[k] = "live" => access[k] = "live"
        /\ ended' = ended \cup {Arg(t)}
        /\ UNCHANGED <<alive, minted, share, served>>
    BY <1>1, <1>4, <1>7 DEF WithdrawToken, On, Withdraws, TokenTables, Typed, Tokens
  <2>2. TokenTables'
    <3> ended' \subseteq 1 .. minted
      BY <1>1, <2>1 DEF TokenTables, Typed
    <3>1. Typed' /\ Apart'
      BY <1>1, <1>4, <2>1 DEF TokenTables, Typed, Apart, Tokens
    <3>2. EndedShut' /\ EndedTokensOpenNothing'
      BY <1>1, <1>4, <2>1 DEF TokenTables, Typed, EndedShut, EndedTokensOpenNothing, Tokens
    <3> QED
      BY <3>1, <3>2 DEF TokenTables
  <2>3. Grows
    BY <1>4, <2>1 DEF Grows
  <2> QED
    BY <1>3, <2>2, <2>3, EndStep
<1>8. CASE DeleteAssistant(t)
  <2>1. alive' = FALSE /\ share' = 0 /\ ended' = ended \cup 1 .. minted /\ UNCHANGED <<minted, access, served>>
    BY <1>8 DEF DeleteAssistant
  <2>2. TokenTables'
    <3> minted \in Nat /\ ended' \subseteq 1 .. minted
      BY <1>1, <1>4, <2>1 DEF TokenTables, Typed
    <3> minted' \in 0 .. TokenLimit /\ share' \in 0 .. minted'
      BY <1>4, <2>1
    <3> access' \in [Tokens -> {"none", "live", "revoked"}] /\ alive' \in BOOLEAN
      BY <1>1, <2>1 DEF TokenTables, Typed
    <3>1. Typed' /\ Apart'
      BY <1>1, <2>1 DEF TokenTables, Typed, Apart
    <3>2. EndedShut' /\ EndedTokensOpenNothing'
      BY <1>1, <2>1 DEF TokenTables, EndedShut, EndedTokensOpenNothing
    <3> QED
      BY <3>1, <3>2 DEF TokenTables
  <2>3. Grows
    BY <1>4, <2>1 DEF Grows
  <2> QED
    BY <1>3, <2>2, <2>3, EndStep
<1> QED
  BY <1>5, <1>6, <1>7, <1>8

\* delete_assistant begins with the rows of its tokens.
LEMMA DeleteTokensStep ==
    ASSUME TokenInv, NEW t \in Tasks, DeleteTokens(t)
    PROVE  TokenInv'
<1>1. Shaped /\ TokenTables /\ minted \in Nat
  BY DEF TokenInv, TokenTables, Typed
<1>2. /\ access' = [k \in Tokens |-> "none"] /\ Goto(t, "guests")
      /\ UNCHANGED <<alive, minted, share, ended, served>>
  BY DEF DeleteTokens, shHistory
<1>3. TokenTables' /\ Grows
  BY <1>1, <1>2 DEF TokenTables, Typed, Apart, EndedShut, EndedTokensOpenNothing, Tokens, Grows
<1>4. Shaped' /\ Only(t) /\ call'[t].op = call[t].op /\ call'[t].at = "guests" /\ call'[t].arg = call[t].arg
  BY <1>1, <1>2, Moves
<1> QED
  BY <1>2, <1>3, <1>4, MoveStep

\* The look-up of a token: in the assistant, then in access_tokens, then the
\* assistant again.
LEMMA LookUpSteps ==
    ASSUME TokenInv, NEW t \in Tasks, TryShareToken(t) \/ TryAccessToken(t) \/ ReadAssistant(t)
    PROVE  TokenInv'
<1>1. Shaped /\ TokenTables /\ LateCall(t) /\ Withdraws(t)
  BY DEF TokenInv
<1>2. call[t].op \in TokenOps
  BY DEF TryShareToken, TryAccessToken, ReadAssistant, On
<1>3. ASSUME Opens(t), ~ Arg(t).late
      PROVE  TokenInv'
  <2>1. Aside
    BY <1>3 DEF Opens, Aside
  <2>2. TokenTables' /\ Grows
    BY <2>1, AsideKeeps
  <2>3. CASE Finish(t)
    BY <1>1, <2>2, <2>3, Leaves, EndStep
  <2>4. CASE Goto(t, "mine")
    <3>1. Shaped' /\ Only(t) /\ call'[t].op = call[t].op /\ call'[t].at = "mine" /\ call'[t].arg = call[t].arg
      BY <1>1, <2>4, Moves
    <3> QED
      BY <2>1, <2>2, <3>1, MoveStep DEF Aside
  <2> QED
    BY <1>3, <2>3, <2>4 DEF Opens
<1>4. ASSUME UNCHANGED shVars, Finish(t) \/ Goto(t, "access")
      PROVE  TokenInv'
  <2>1. Aside
    BY <1>4 DEF Aside, shVars, shHistory
  <2>2. TokenTables' /\ Grows
    BY <2>1, AsideKeeps
  <2>3. CASE Finish(t)
    BY <1>1, <2>2, <2>3, Leaves, EndStep
  <2>4. CASE Goto(t, "access")
    <3>1. Shaped' /\ Only(t) /\ call'[t].op = call[t].op /\ call'[t].at = "access" /\ call'[t].arg = call[t].arg
      BY <1>1, <2>4, Moves
    <3> QED
      BY <2>1, <2>2, <3>1, MoveStep DEF Aside
  <2> QED
    BY <1>4, <2>3, <2>4
<1>5. CASE TryShareToken(t)
  <2>1. alive /\ share = Arg(t).token => ~ Arg(t).late
    BY <1>1, <1>2 DEF LateCall, TokenTables, EndedShut
  <2> QED
    BY <1>3, <1>4, <1>5, <2>1 DEF TryShareToken
<1>6. CASE TryAccessToken(t)
  <2>1. CASE access[Arg(t).token] = "live"
    <3>1. Aside /\ Goto(t, "assistant")
      BY <1>6, <2>1 DEF TryAccessToken, Aside, shVars, shHistory
    <3>2. Shaped' /\ Only(t) /\ call'[t].op = call[t].op /\ call'[t].arg = call[t].arg
      BY <1>1, <3>1, Moves
    <3>3. Arg(t).late => Arg(t).token \in ended /\ ~ alive
      BY <1>1, <1>2, <2>1 DEF LateCall, TokenTables, EndedShut
    <3>4. Withdraws(t)' /\ LateCall(t)'
      BY <1>1, <3>1, <3>2, <3>3 DEF Withdraws, LateCall, Arg, Aside
    <3> QED
      BY <3>1, <3>2, <3>4, AsideStep
  <2>2. CASE access[Arg(t).token] # "live"
    BY <1>4, <1>6, <2>2 DEF TryAccessToken
  <2> QED
    BY <2>1, <2>2
<1>7. CASE ReadAssistant(t)
  <2>1. alive => ~ Arg(t).late
    BY <1>1, <1>2, <1>7 DEF LateCall, ReadAssistant, On
  <2> QED
    BY <1>3, <1>4, <1>7, <2>1 DEF ReadAssistant
<1> QED
  BY <1>5, <1>6, <1>7

-----------------------------------------------------------------------------

\* No task runs and no token exists at the beginning.
LEMMA InitTokenInv == SharingInit /\ TasksInit(Budgets) => TokenInv
<1> SUFFICES ASSUME SharingInit, TasksInit(Budgets)
             PROVE  TokenInv
  OBVIOUS
<1>1. call = [t \in Tasks |-> NoCall]
  BY DEF TasksInit
<1>2. Shaped /\ \A t \in Tasks : Withdraws(t) /\ LateCall(t)
  BY <1>1 DEF Shaped, Withdraws, LateCall, TokenOps, NoCall
<1>3. TokenTables
  BY DEF SharingInit, TokenTables, Typed, Apart, EndedShut, EndedTokensOpenNothing, Tokens
<1> QED
  BY <1>2, <1>3 DEF TokenInv

\* Every call of the owner and of the users keeps the invariant.
LEMMA NextTokenInv == TokenInv /\ [ShareNext]_<<tasking, shVars>> => TokenInv'
<1> SUFFICES ASSUME TokenInv, [ShareNext]_<<tasking, shVars>>
             PROVE  TokenInv'
  OBVIOUS
<1>1. ASSUME NEW t \in Tasks, SharingStep(t)
      PROVE  TokenInv'
  BY <1>1, BeginSteps, AsideSteps, OwnerSteps, DeleteTokensStep, LookUpSteps DEF SharingStep
<1>2. CASE UNCHANGED <<tasking, shVars>>
  <2>1. Aside /\ call' = call
    BY <1>2 DEF tasking, shVars, shHistory, Aside
  <2>2. TokenTables'
    BY <2>1, AsideKeeps
  <2>3. Shaped' /\ \A t \in Tasks : Withdraws(t)' /\ LateCall(t)'
    BY <2>1 DEF Aside, TokenInv, Shaped, Withdraws, LateCall, Arg
  <2> QED
    BY <2>2, <2>3 DEF TokenInv
<1> QED
  BY <1>1, <1>2 DEF ShareNext

\* A token that was revoked, deleted or replaced, or whose assistant was
\* deleted, opens the assistant to nobody who asks afterwards, whatever the
\* owner's other calls write meanwhile and wherever they end
\* (get_by_any_token).
THEOREM EndedTokensStayOut == ShareSpec => []EndedTokensOpenNothing
<1>1. TokenInv => EndedTokensOpenNothing
  BY DEF TokenInv, TokenTables
<1> QED
  BY <1>1, InitTokenInv, NextTokenInv, PTL DEF ShareSpec

-----------------------------------------------------------------------------
(* Sharing: the two lists agree.  Each of the three writers of the lists   *)
(* leaves them apart between its two writes, so the invariant says, for a  *)
(* user whose calls no others ran beside, what they hold there (Halfway),  *)
(* and that they agree when no task is there (Lists).                      *)

\* The types of what the lists are made of: a row of the owner's list has a
\* time, which an empty entry of the user's has not.
ListRows ==
    /\ mine = [u \in Users |-> mine[u]] /\ clock \in Nat
    /\ \A g \in guests : g.at # 0

\* A task calls for a user there is, and carries an acceptance that was made.
\* Alone, it removes what it has read.
Carries(t) ==
    /\ call[t].op \in {"accept_share", "remove_accepted_share"} => Arg(t).user \in Users
    /\ On(t, "accept_share", "guest") => Got(t).at # 0
    /\ ~ crowded /\ On(t, "remove_accepted_share", "mine") => Got(t) = mine[Arg(t).user]

\* Task t has written one list of u and not yet the other.
Between(t, u) ==
    \/ On(t, "accept_share", "guest") /\ Arg(t).user = u
    \/ On(t, "remove_accepted_share", "guest") /\ Arg(t).user = u
    \/ On(t, "delete_assistant", "row")

\* The lists of u are then as the task has left them.
Halfway(t, u) ==
    /\ On(t, "accept_share", "guest") /\ Arg(t).user = u =>
        Got(t) = mine[u] /\ NothingElseSeen(u)
    /\ On(t, "remove_accepted_share", "guest") /\ Arg(t).user = u =>
        mine[u] = NoShare /\ (u \notin twice => RowsOf(u) \subseteq {GuestRow(u, Got(t))})
    /\ On(t, "delete_assistant", "row") => RowsOf(u) = {}

\* The two lists of a user nobody has run beside.
Lists(u) ==
    u \notin muddled =>
        /\ (\A t \in Tasks : ~ Between(t, u)) => AcceptedIsSeen(u) /\ NothingElseSeen(u)
        /\ \A t \in Tasks : Halfway(t, u)

ListInv ==
    Shaped /\ Alone /\ ListRows /\ (\A t \in Tasks : Carries(t)) /\ (\A u \in Users : Lists(u))

\* The lists of u are not touched, and no task comes or goes between them.
LEMMA ListsStay ==
    ASSUME Shaped, ListRows, NEW t \in Tasks, NEW u \in Users, Lists(u), Only(t),
           muddled \subseteq muddled', alive' => alive, u \in twice' <=> u \in twice,
           mine'[u] = mine[u], RowsOf(u)' = RowsOf(u),
           u \notin muddled' => ~ Between(t, u) /\ ~ Between(t, u)'
    PROVE  Lists(u)'
<1> SUFFICES ASSUME u \notin muddled'
             PROVE  /\ (\A v \in Tasks : ~ Between(v, u)') => AcceptedIsSeen(u)' /\ NothingElseSeen(u)'
                    /\ \A v \in Tasks : Halfway(v, u)'
  BY DEF Lists
<1>1. u \notin muddled /\ ~ Between(t, u) /\ ~ Between(t, u)'
  OBVIOUS
<1>2. \A v \in Tasks \ {t} : call'[v] = call[v]
  BY DEF Only
<1>3. \A v \in Tasks \ {t} : Between(v, u)' <=> Between(v, u)
  BY <1>2 DEF Between, On, Arg
<1>4. AcceptedIsSeen(u) => AcceptedIsSeen(u)'
  BY DEF AcceptedIsSeen, RowsOf, GuestRow
<1>5. NothingElseSeen(u) => NothingElseSeen(u)'
  BY DEF NothingElseSeen
<1>6. ASSUME NEW v \in Tasks
      PROVE  Halfway(v, u)'
  <2>1. CASE v = t
    BY <1>1, <2>1 DEF Halfway, Between, On, Arg
  <2>2. CASE v # t
    <3>1. Halfway(v, u) /\ call'[v] = call[v]
      BY <1>1, <1>2, <2>2 DEF Lists
    <3> QED
      BY <1>5, <3>1 DEF Halfway, On, Arg, Got
  <2> QED
    BY <2>1, <2>2
<1>7. ASSUME \A v \in Tasks : ~ Between(v, u)'
      PROVE  AcceptedIsSeen(u)' /\ NothingElseSeen(u)'
  <2>1. \A v \in Tasks : ~ Between(v, u)
    BY <1>1, <1>3, <1>7
  <2> QED
    BY <1>1, <1>4, <1>5, <2>1 DEF Lists
<1> QED
  BY <1>6, <1>7

\* What the other tasks carry is still right when their users' entries are, or
\* they are in a crowd.
LEMMA OthersCarry ==
    ASSUME ListInv, NEW t \in Tasks, Acts(t), NEW u \in Tasks, u # t
    PROVE  Carries(u)'
<1>1. call'[u] = call[u] /\ Carries(u) /\ (Running(u) => crowded')
  BY DEF ListInv, Acts, Only
<1> QED
  BY <1>1 DEF Carries, On, Arg, Got, Running

\* A step that writes no list, and neither begins nor ends a pair of writes.
LEMMA QuietStep ==
    ASSUME ListInv, NEW t \in Tasks, Acts(t), UNCHANGED <<mine, guests, clock, twice>>,
           muddled \subseteq muddled', alive' => alive, Carries(t)',
           \A u \in Users : u \notin muddled' => ~ Between(t, u) /\ ~ Between(t, u)'
    PROVE  ListInv'
<1>1. ListRows'
  BY DEF ListInv, ListRows
<1>2. \A u \in Tasks : Carries(u)'
  BY OthersCarry
<1>3. ASSUME NEW u \in Users
      PROVE  Lists(u)'
  <2>1. RowsOf(u)' = RowsOf(u)
    BY DEF RowsOf
  <2> QED
    BY <2>1, ListsStay DEF ListInv, Acts
<1> QED
  BY <1>1, <1>2, <1>3 DEF ListInv, Acts

\* A call is made, or a task that is between no writes goes on to the next
\* await, ends or is dropped.
LEMMA QuietSteps ==
    ASSUME ListInv, NEW t \in Tasks,
           OwnerBegins(t) \/ OwnerReads(t) \/ SetShareToken(t) \/ CreateToken(t) \/ WithdrawToken(t)
           \/ DeleteTokens(t) \/ TokenCalls(t) \/ TryShareToken(t) \/ TryAccessToken(t)
           \/ ReadAssistant(t) \/ ReadMine(t) \/ Drops(t)
    PROVE  ListInv'
<1>1. /\ Shaped /\ Alone /\ ListRows /\ Carries(t)
      /\ UNCHANGED <<mine, guests, clock, twice, alive>> /\ muddled \subseteq muddled'
  BY DEF ListInv, OwnerBegins, OwnerReads, SetShareToken, CreateToken, WithdrawToken, DeleteTokens,
         TokenCalls, TryShareToken, TryAccessToken, ReadAssistant, Opens, ReadMine, Drops, shVars, shHistory
<1>2. ASSUME Running(t), Finish(t) \/ Drop(t), \A u \in Users : u \notin muddled' => ~ Between(t, u)
      PROVE  ListInv'
  <2>1. Acts(t) /\ call'[t].op = "none"
    BY <1>1, <1>2, Leaves, LeaveActs
  <2>2. Carries(t)' /\ \A u \in Users : ~ Between(t, u)'
    BY <2>1 DEF Carries, Between, On
  <2> QED
    BY <1>1, <1>2, <2>1, <2>2, QuietStep
<1>3. ASSUME Running(t), NEW at \in {"write", "guests", "mine", "access", "assistant"}, Goto(t, at),
             \A u \in Users : ~ Between(t, u), call[t].op # "remove_accepted_share"
      PROVE  ListInv'
  <2>1. Acts(t) /\ call'[t].op = call[t].op /\ call'[t].at = at /\ call'[t].arg = call[t].arg
    BY <1>1, <1>3, Moves, MoveActs
  <2>2. Carries(t)' /\ \A u \in Users : ~ Between(t, u)'
    BY <1>1, <1>3, <2>1 DEF Carries, Between, On, Arg
  <2> QED
    BY <1>1, <1>3, <2>1, <2>2, QuietStep
<1>4. ASSUME Begun(t), call'[t].at \in {"get", "share"},
             call'[t].op \in {"accept_share", "remove_accepted_share"} => call'[t].arg.user \in Users
      PROVE  ListInv'
  <2>1. Acts(t)
    BY <1>1, <1>4, BeginActs
  <2>2. Carries(t)' /\ \A u \in Users : ~ Between(t, u) /\ ~ Between(t, u)'
    BY <1>4 DEF Carries, Between, On, Arg, Begun, Running
  <2> QED
    BY <1>1, <2>1, <2>2, QuietStep
<1>5. CASE OwnerBegins(t)
  <2>1. \E op \in OwnerOps : \E k : Begin(t, op, "get", k)
    BY <1>5 DEF OwnerBegins, OwnerOps
  <2>2. PICK op \in OwnerOps : \E k : Begin(t, op, "get", k)
    BY <2>1
  <2>3. Begun(t) /\ call'[t].op = op /\ call'[t].at = "get"
    BY <1>1, <2>2 DEF Begin, BeginWith, Shaped, Only, Begun, Running, OwnerOps
  <2> QED
    BY <1>4, <2>3 DEF OwnerOps
<1>6. CASE TokenCalls(t)
  <2>1. ASSUME NEW u \in Users, NEW op \in {"get_shared_assistant", "accept_share"}, NEW k \in 1 .. minted,
               Begin(t, op, "share", [user |-> u, token |-> k, late |-> k \in ended])
        PROVE  ListInv'
    <3>1. Begun(t) /\ call'[t].op = op /\ call'[t].at = "share"
          /\ call'[t].arg = [user |-> u, token |-> k, late |-> k \in ended]
      BY <1>1, <2>1 DEF Begin, BeginWith, Shaped, Only, Begun, Running
    <3>2. \A late : [user |-> u, token |-> k, late |-> late].user = u
      OBVIOUS
    <3>3. call'[t].arg.user = u
      BY <3>1, <3>2, Zenon
    <3> QED
      BY <1>4, <3>1, <3>3
  <2>2. ASSUME NEW u \in Users,
               Begin(t, "remove_accepted_share", "get", [user |-> u, token |-> 0, late |-> FALSE])
        PROVE  ListInv'
    <3>1. Begun(t) /\ call'[t].op = "remove_accepted_share" /\ call'[t].at = "get"
          /\ call'[t].arg = [user |-> u, token |-> 0, late |-> FALSE]
      BY <1>1, <2>2 DEF Begin, BeginWith, Shaped, Only, Begun, Running
    <3> QED
      BY <1>4, <3>1
  <2> QED
    BY <1>6, <2>1, <2>2 DEF TokenCalls
<1>7. CASE OwnerReads(t) \/ SetShareToken(t) \/ CreateToken(t) \/ WithdrawToken(t) \/ DeleteTokens(t)
  <2>1. /\ Running(t) /\ \A u \in Users : ~ Between(t, u)
        /\ call[t].op # "remove_accepted_share"
    BY <1>7 DEF OwnerReads, SetShareToken, CreateToken, WithdrawToken, DeleteTokens, Running, Between,
                On, OwnerOps
  <2>2. Finish(t) \/ Goto(t, "write") \/ Goto(t, "guests")
    BY <1>7 DEF OwnerReads, SetShareToken, CreateToken, WithdrawToken, DeleteTokens
  <2> QED
    BY <1>2, <1>3, <2>1, <2>2
<1>8. CASE TryShareToken(t) \/ TryAccessToken(t) \/ ReadAssistant(t)
  <2>1. /\ Running(t) /\ \A u \in Users : ~ Between(t, u)
        /\ call[t].op # "remove_accepted_share"
    BY <1>8 DEF TryShareToken, TryAccessToken, ReadAssistant, Running, Between, On, TokenOps
  <2>2. Finish(t) \/ Goto(t, "mine") \/ Goto(t, "access") \/ Goto(t, "assistant")
    BY <1>8 DEF TryShareToken, TryAccessToken, ReadAssistant, Opens
  <2> QED
    BY <1>2, <1>3, <2>1, <2>2
<1>9. CASE ReadMine(t)
  <2>1. Running(t) /\ (\A u \in Users : ~ Between(t, u)) /\ Learn(t, "mine", mine[Arg(t).user])
    BY <1>9 DEF ReadMine, Running, Between, On
  <2>2. /\ Acts(t) /\ call'[t].op = call[t].op /\ call'[t].at = "mine" /\ call'[t].arg = call[t].arg
        /\ call'[t].got = mine[Arg(t).user]
    BY <1>1, <2>1, Moves, MoveActs, Learns
  <2>3. Carries(t)' /\ \A u \in Users : ~ Between(t, u)'
    BY <1>1, <1>9, <2>2 DEF Carries, Between, On, Arg, Got, ReadMine
  <2> QED
    BY <1>1, <2>1, <2>2, <2>3, QuietStep
<1>10. CASE Drops(t)
  <2>1. Drop(t) /\ Running(t)
    BY <1>10 DEF Drops, Drop
  <2>2. ASSUME NEW u \in Users, Between(t, u)
        PROVE  u \in muddled'
    BY <1>10, <2>2 DEF Drops, Between, On
  <2> QED
    BY <1>2, <2>1, <2>2
<1> QED
  BY <1>5, <1>6, <1>7, <1>8, <1>9, <1>10

\* Nobody else runs: no other task is between the lists, whatever the user.
LEMMA AloneBetween ==
    ASSUME Alone, ~ crowded, NEW t \in Tasks, Running(t), Only(t), NEW v \in Tasks, v # t, NEW u
    PROVE  ~ Between(v, u) /\ ~ Between(v, u)' /\ Halfway(v, u)'
<1>1. ~ Running(v) /\ call'[v] = call[v]
  BY DEF Alone, Only
<1> QED
  BY <1>1 DEF Running, Between, Halfway, On

\* What is written of one user leaves the lists of the others.
LEMMA WriteStep ==
    ASSUME ListInv, NEW t \in Tasks, Acts(t), ListRows', Carries(t)', NEW w \in Users,
           alive' => alive, muddled \subseteq muddled',
           \A u \in Users : u # w => /\ u \in twice' <=> u \in twice
                                     /\ mine'[u] = mine[u] /\ RowsOf(u)' = RowsOf(u)
                                     /\ ~ Between(t, u) /\ ~ Between(t, u)',
           Lists(w)'
    PROVE  ListInv'
<1>1. \A u \in Tasks : Carries(u)'
  BY OthersCarry
<1>2. ASSUME NEW u \in Users
      PROVE  Lists(u)'
  <2>1. CASE u = w
    BY <2>1
  <2>2. CASE u # w
    BY <2>2, ListsStay DEF ListInv, Acts
  <2> QED
    BY <2>1, <2>2
<1> QED
  BY <1>1, <1>2 DEF ListInv, Acts

\* accept_share: the user's list, then the owner's.
LEMMA AcceptSteps ==
    ASSUME ListInv, NEW t \in Tasks, WriteMine(t) \/ WriteGuest(t)
    PROVE  ListInv'
<1>1. Shaped /\ Alone /\ ListRows /\ Carries(t) /\ call[t].op = "accept_share" /\ Running(t)
  BY DEF ListInv, WriteMine, WriteGuest, On, Running
<1>2. PICK w \in Users : w = Arg(t).user /\ Lists(w)
  BY <1>1 DEF Carries, ListInv
<1>3. /\ UNCHANGED alive
      /\ muddled' = IF crowded THEN muddled \cup {w} ELSE muddled
  BY <1>2 DEF WriteMine, WriteGuest, Mark
<1>4. CASE WriteMine(t)
  <2>1. /\ On(t, "accept_share", "mine") /\ guests' = guests /\ clock' = clock + 1
        /\ mine' = [mine EXCEPT ![w] = [token |-> Arg(t).token, at |-> clock']]
        /\ twice' = IF mine[w] = NoShare THEN twice ELSE twice \cup {w}
        /\ Learn(t, "guest", mine'[w])
    BY <1>2, <1>4 DEF WriteMine
  <2>2. mine'[w] = [token |-> Arg(t).token, at |-> clock'] /\ \A u \in Users : u # w => mine'[u] = mine[u]
    BY <1>1, <1>2, <2>1 DEF ListRows
  <2>3. mine'[w].at # 0
    BY <1>1, <2>1, <2>2 DEF ListRows
  <2>4. /\ Acts(t) /\ call'[t].op = call[t].op /\ call'[t].at = "guest" /\ call'[t].arg = call[t].arg
        /\ call'[t].got = mine'[w]
    BY <1>1, <2>1, Moves, MoveActs, Learns
  <2>5. ListRows' /\ Carries(t)'
    BY <1>1, <1>2, <2>1, <2>3, <2>4 DEF ListRows, Carries, On, Arg, Got
  <2>6. \A u \in Users : u # w => /\ u \in twice' <=> u \in twice
                                  /\ RowsOf(u)' = RowsOf(u)
                                  /\ ~ Between(t, u) /\ ~ Between(t, u)'
    BY <1>1, <1>2, <2>1, <2>4 DEF RowsOf, Between, On, Arg
  <2>7. Lists(w)'
    <3> SUFFICES ASSUME w \notin muddled'
                 PROVE  (\E v \in Tasks : Between(v, w)') /\ \A v \in Tasks : Halfway(v, w)'
      BY DEF Lists
    <3>1. ~ crowded /\ w \notin muddled
      BY <1>3
    <3>2. \A v \in Tasks : v # t => ~ Between(v, w) /\ Halfway(v, w)'
      BY <1>1, <2>4, <3>1, AloneBetween DEF Acts
    <3>3. ~ Between(t, w)
      BY <2>1 DEF Between, On
    <3>4. NothingElseSeen(w)
      BY <1>2, <3>1, <3>2, <3>3 DEF Lists
    <3>5. w \notin twice' => RowsOf(w)' = {}
      <4> SUFFICES ASSUME w \notin twice'
                   PROVE  RowsOf(w)' = {}
        OBVIOUS
      <4>1. w \notin twice /\ mine[w] = NoShare
        BY <2>1
      <4>2. RowsOf(w) \subseteq {GuestRow(w, NoShare)}
        BY <3>4, <4>1 DEF NothingElseSeen
      <4>3. GuestRow(w, NoShare) \notin guests
        BY <1>1 DEF ListRows, GuestRow, NoShare
      <4> QED
        BY <2>1, <4>2, <4>3 DEF RowsOf
    <3>6. Halfway(t, w)'
      <4>1. NothingElseSeen(w)'
        BY <3>5 DEF NothingElseSeen
      <4> QED
        BY <1>1, <1>2, <2>4, <4>1 DEF Halfway, On, Arg, Got
    <3>7. Between(t, w)'
      BY <1>1, <1>2, <2>4 DEF Between, On, Arg
    <3> QED
      BY <3>2, <3>6, <3>7
  <2> QED
    BY <1>2, <1>3, <2>2, <2>4, <2>5, <2>6, <2>7, WriteStep
<1>5. CASE WriteGuest(t)
  <2>1. /\ On(t, "accept_share", "guest") /\ UNCHANGED <<mine, clock, twice>> /\ Finish(t)
        /\ guests' = guests \cup {GuestRow(w, Got(t))}
    BY <1>2, <1>5 DEF WriteGuest
  <2>2. Acts(t) /\ call'[t].op = "none"
    BY <1>1, <2>1, Leaves, LeaveActs
  <2>3. ListRows' /\ Carries(t)'
    <3>1. GuestRow(w, Got(t)).at # 0
      BY <1>1, <2>1 DEF Carries, GuestRow
    <3> QED
      BY <1>1, <2>1, <2>2, <3>1 DEF ListRows, Carries, On
  <2>4. GuestRow(w, Got(t)).user = w
    BY DEF GuestRow
  <2>5. \A u \in Users : u # w => RowsOf(u)' = RowsOf(u) /\ ~ Between(t, u) /\ ~ Between(t, u)'
    BY <1>2, <2>1, <2>2, <2>4 DEF RowsOf, Between, On, Arg
  <2>6. Lists(w)'
    <3> SUFFICES ASSUME w \notin muddled'
                 PROVE  AcceptedIsSeen(w)' /\ NothingElseSeen(w)' /\ \A v \in Tasks : Halfway(v, w)'
      BY DEF Lists
    <3>1. ~ crowded /\ w \notin muddled
      BY <1>3
    <3>2. \A v \in Tasks : Halfway(v, w)'
      BY <1>1, <2>2, <3>1, AloneBetween DEF Acts, Halfway, On
    <3>3. Got(t) = mine[w] /\ NothingElseSeen(w)
      BY <1>2, <2>1, <3>1 DEF Lists, Halfway
    <3>4. RowsOf(w)' = RowsOf(w) \cup {GuestRow(w, mine[w])}
      BY <2>1, <2>4, <3>3 DEF RowsOf
    <3>5. AcceptedIsSeen(w)'
      BY <2>1, <3>3 DEF AcceptedIsSeen
    <3>6. NothingElseSeen(w)'
      BY <2>1, <3>3, <3>4 DEF NothingElseSeen
    <3> QED
      BY <3>2, <3>5, <3>6
  <2> QED
    BY <1>2, <1>3, <2>1, <2>2, <2>3, <2>5, <2>6, WriteStep
<1> QED
  BY <1>4, <1>5

\* remove_accepted_share: the user's list, then the owner's.
LEMMA RemoveSteps ==
    ASSUME ListInv, NEW t \in Tasks, RemoveMine(t) \/ RemoveGuest(t)
    PROVE  ListInv'
<1>1. Shaped /\ Alone /\ ListRows /\ Carries(t) /\ call[t].op = "remove_accepted_share" /\ Running(t)
  BY DEF ListInv, RemoveMine, RemoveGuest, On, Running
<1>2. PICK w \in Users : w = Arg(t).user /\ Lists(w)
  BY <1>1 DEF Carries, ListInv
<1>3. /\ UNCHANGED <<alive, clock, twice>>
      /\ muddled' = IF crowded THEN muddled \cup {w} ELSE muddled
  BY <1>2 DEF RemoveMine, RemoveGuest, Mark
<1>4. CASE RemoveMine(t)
  <2>1. /\ On(t, "remove_accepted_share", "mine") /\ guests' = guests
        /\ mine' = [mine EXCEPT ![w] = NoShare]
        /\ IF Got(t) = NoShare THEN Finish(t) ELSE Goto(t, "guest")
    BY <1>2, <1>4 DEF RemoveMine
  <2>2. mine'[w] = NoShare /\ \A u \in Users : u # w => mine'[u] = mine[u]
    BY <1>1, <1>2, <2>1 DEF ListRows
  <2>3. ListRows' /\ \A u : RowsOf(u)' = RowsOf(u)
    BY <1>1, <1>3, <2>1 DEF ListRows, RowsOf
  <2>4. /\ Acts(t)
        /\ \/ call'[t].op = "none" /\ Got(t) = NoShare
           \/ call'[t].op = call[t].op /\ call'[t].at = "guest" /\ call'[t].arg = call[t].arg
              /\ call'[t].got = call[t].got
    <3>1. CASE Finish(t) /\ Got(t) = NoShare
      BY <1>1, <3>1, Leaves, LeaveActs
    <3>2. CASE Goto(t, "guest")
      <4>1. call'[t].got = call[t].got
        BY <1>1, <3>2 DEF Goto, Shaped
      <4> QED
        BY <1>1, <3>2, <4>1, Moves, MoveActs
    <3> QED
      BY <2>1, <3>1, <3>2
  <2>5. Carries(t)' /\ \A u \in Users : u # w => ~ Between(t, u) /\ ~ Between(t, u)'
    BY <1>1, <1>2, <2>1, <2>4 DEF Carries, Between, On, Arg
  <2>6. Lists(w)'
    <3> SUFFICES ASSUME w \notin muddled'
                 PROVE  /\ (\A v \in Tasks : ~ Between(v, w)') => AcceptedIsSeen(w)' /\ NothingElseSeen(w)'
                        /\ \A v \in Tasks : Halfway(v, w)'
      BY DEF Lists
    <3>1. ~ crowded /\ w \notin muddled /\ Got(t) = mine[w]
      BY <1>1, <1>2, <1>3, <2>1 DEF Carries
    <3>2. \A v \in Tasks : v # t => ~ Between(v, w) /\ Halfway(v, w)'
      BY <1>1, <2>4, <3>1, AloneBetween DEF Acts
    <3>3. NothingElseSeen(w)
      <4>1. ~ Between(t, w)
        BY <2>1 DEF Between, On
      <4> QED
        BY <1>2, <3>1, <3>2, <4>1 DEF Lists
    <3>4. Halfway(t, w)'
      BY <1>1, <1>3, <2>2, <2>3, <2>4, <3>1, <3>3 DEF Halfway, NothingElseSeen, On, Got
    <3>5. CASE Got(t) = NoShare
      BY <1>3, <2>2, <2>3, <3>1, <3>2, <3>3, <3>4, <3>5 DEF AcceptedIsSeen, NothingElseSeen
    <3>6. CASE Got(t) # NoShare
      <4>1. Between(t, w)'
        BY <1>1, <1>2, <2>4, <3>6 DEF Between, On, Arg
      <4> QED
        BY <3>2, <3>4, <4>1
    <3> QED
      BY <3>5, <3>6
  <2> QED
    BY <1>2, <1>3, <2>2, <2>3, <2>4, <2>5, <2>6, WriteStep
<1>5. CASE RemoveGuest(t)
  <2>1. /\ On(t, "remove_accepted_share", "guest") /\ UNCHANGED mine /\ Finish(t)
        /\ guests' = guests \ {GuestRow(w, Got(t))}
    BY <1>2, <1>5 DEF RemoveGuest
  <2>2. Acts(t) /\ call'[t].op = "none"
    BY <1>1, <2>1, Leaves, LeaveActs
  <2>3. ListRows' /\ Carries(t)'
    BY <1>1, <1>3, <2>1, <2>2 DEF ListRows, Carries, On
  <2>4. GuestRow(w, Got(t)).user = w
    BY DEF GuestRow
  <2>5. \A u \in Users : u # w => RowsOf(u)' = RowsOf(u) /\ ~ Between(t, u) /\ ~ Between(t, u)'
    BY <1>2, <2>1, <2>2, <2>4 DEF RowsOf, Between, On, Arg
  <2>6. Lists(w)'
    <3> SUFFICES ASSUME w \notin muddled'
                 PROVE  AcceptedIsSeen(w)' /\ NothingElseSeen(w)' /\ \A v \in Tasks : Halfway(v, w)'
      BY DEF Lists
    <3>1. ~ crowded /\ w \notin muddled
      BY <1>3
    <3>2. \A v \in Tasks : Halfway(v, w)'
      BY <1>1, <2>2, <3>1, AloneBetween DEF Acts, Halfway, On
    <3>3. mine[w] = NoShare /\ (w \notin twice => RowsOf(w) \subseteq {GuestRow(w, Got(t))})
      BY <1>2, <2>1, <3>1 DEF Lists, Halfway
    <3>4. w \notin twice => RowsOf(w)' = {}
      BY <2>1, <3>3 DEF RowsOf
    <3> QED
      BY <1>3, <2>1, <3>2, <3>3, <3>4 DEF AcceptedIsSeen, NothingElseSeen
  <2> QED
    BY <1>2, <1>3, <2>1, <2>2, <2>3, <2>5, <2>6, WriteStep
<1> QED
  BY <1>4, <1>5

\* delete_assistant: the owner's list, and then the assistant.
LEMMA DeleteListSteps ==
    ASSUME ListInv, NEW t \in Tasks, DeleteGuests(t) \/ DeleteAssistant(t)
    PROVE  ListInv'
<1>1. Shaped /\ Alone /\ ListRows /\ call[t].op = "delete_assistant" /\ Running(t)
  BY DEF ListInv, DeleteGuests, DeleteAssistant, On, Running
<1>2. UNCHANGED <<mine, clock, twice>>
  BY DEF DeleteGuests, DeleteAssistant
<1>3. CASE DeleteGuests(t)
  <2>1. /\ guests' = {} /\ alive' = alive /\ Goto(t, "row")
        /\ muddled' = IF crowded THEN muddled \cup Users ELSE muddled
    BY <1>3 DEF DeleteGuests, Mark
  <2>2. Acts(t) /\ call'[t].op = "delete_assistant" /\ call'[t].at = "row"
    BY <1>1, <2>1, Moves, MoveActs
  <2>3. ListRows' /\ Carries(t)' /\ \A u : RowsOf(u)' = {}
    BY <1>1, <1>2, <2>1, <2>2 DEF ListRows, Carries, On, RowsOf
  <2>4. \A u \in Tasks : Carries(u)'
    BY <2>2, <2>3, OthersCarry
  <2>5. ASSUME NEW u \in Users, u \notin muddled'
        PROVE  Between(t, u)' /\ \A v \in Tasks : Halfway(v, u)'
    <3>1. ~ crowded
      BY <2>1, <2>5
    <3>2. \A v \in Tasks : v # t => Halfway(v, u)'
      BY <1>1, <2>2, <3>1, AloneBetween DEF Acts
    <3>3. Between(t, u)' /\ Halfway(t, u)'
      BY <2>2, <2>3 DEF Between, Halfway, On
    <3> QED
      BY <3>2, <3>3
  <2>6. \A u \in Users : Lists(u)'
    BY <2>5 DEF Lists
  <2> QED
    BY <2>2, <2>3, <2>4, <2>6 DEF ListInv, Acts
<1>4. CASE DeleteAssistant(t)
  <2>1. alive' = FALSE /\ UNCHANGED <<guests, muddled>> /\ Finish(t) /\ On(t, "delete_assistant", "row")
    BY <1>4 DEF DeleteAssistant
  <2>2. Acts(t) /\ call'[t].op = "none"
    BY <1>1, <2>1, Leaves, LeaveActs
  <2>3. ListRows' /\ Carries(t)' /\ \A u : RowsOf(u)' = RowsOf(u)
    BY <1>1, <1>2, <2>1, <2>2 DEF ListRows, Carries, On, RowsOf
  <2>4. \A u \in Tasks : Carries(u)'
    BY <2>2, <2>3, OthersCarry
  <2>5. ASSUME NEW u \in Users, u \notin muddled
        PROVE  AcceptedIsSeen(u)' /\ NothingElseSeen(u)' /\ \A v \in Tasks : Halfway(v, u)'
    <3>1. RowsOf(u) = {} /\ \A v \in Tasks : Halfway(v, u)
      BY <2>1, <2>5 DEF ListInv, Lists, Halfway
    <3>2. NothingElseSeen(u)' /\ AcceptedIsSeen(u)'
      BY <2>1, <2>3, <3>1 DEF NothingElseSeen, AcceptedIsSeen
    <3>3. ASSUME NEW v \in Tasks
          PROVE  Halfway(v, u)'
      <4>1. CASE v = t
        BY <2>2, <4>1 DEF Halfway, On
      <4>2. CASE v # t
        <5>1. call'[v] = call[v] /\ Halfway(v, u)
          BY <2>2, <3>1, <4>2 DEF Acts, Only
        <5> QED
          BY <1>2, <2>3, <3>2, <5>1 DEF Halfway, On, Arg, Got
      <4> QED
        BY <4>1, <4>2
    <3> QED
      BY <3>2, <3>3
  <2>6. \A u \in Users : Lists(u)'
    BY <2>1, <2>5 DEF Lists
  <2> QED
    BY <2>2, <2>3, <2>4, <2>6 DEF ListInv, Acts
<1> QED
  BY <1>3, <1>4

\* Nobody has accepted anything at the beginning.
LEMMA InitListInv == SharingInit /\ TasksInit(Budgets) => ListInv
<1> SUFFICES ASSUME SharingInit, TasksInit(Budgets)
             PROVE  ListInv
  OBVIOUS
<1>1. call = [t \in Tasks |-> NoCall]
  BY DEF TasksInit
<1>2. Shaped /\ Alone /\ \A t \in Tasks : Carries(t)
  BY <1>1 DEF Shaped, Alone, Running, Carries, On, NoCall
<1>3. ListRows /\ guests = {} /\ \A u \in Users : mine[u] = NoShare
  BY DEF SharingInit, ListRows
<1>4. \A u \in Users : Lists(u)
  BY <1>1, <1>3 DEF Lists, AcceptedIsSeen, NothingElseSeen, RowsOf, Halfway, On, NoCall
<1> QED
  BY <1>2, <1>3, <1>4 DEF ListInv

\* Every call of the owner and of the users keeps it.
LEMMA NextListInv == ListInv /\ [ShareNext]_<<tasking, shVars>> => ListInv'
<1> SUFFICES ASSUME ListInv, [ShareNext]_<<tasking, shVars>>
             PROVE  ListInv'
  OBVIOUS
<1>1. ASSUME NEW t \in Tasks, SharingStep(t)
      PROVE  ListInv'
  BY <1>1, QuietSteps, AcceptSteps, RemoveSteps, DeleteListSteps DEF SharingStep
<1>2. CASE UNCHANGED <<tasking, shVars>>
  <2>1. UNCHANGED <<call, crowded, mine, guests, clock, twice, muddled, alive>>
    BY <1>2 DEF tasking, shVars, shHistory
  <2>2. Shaped' /\ Alone' /\ ListRows' /\ \A t \in Tasks : Carries(t)'
    BY <2>1 DEF ListInv, Shaped, Alone, Running, ListRows, Carries, On, Arg, Got
  <2>3. ASSUME NEW u \in Users
        PROVE  Lists(u)'
    <3>1. RowsOf(u)' = RowsOf(u) /\ Lists(u)
      BY <2>1 DEF RowsOf, ListInv
    <3>2. \A v \in Tasks : (Between(v, u)' <=> Between(v, u)) /\ (Halfway(v, u)' <=> Halfway(v, u))
      BY <2>1, <3>1 DEF Between, Halfway, On, Arg, Got, NothingElseSeen
    <3>3. (AcceptedIsSeen(u)' <=> AcceptedIsSeen(u)) /\ (NothingElseSeen(u)' <=> NothingElseSeen(u))
      BY <2>1, <3>1 DEF AcceptedIsSeen, NothingElseSeen
    <3> QED
      BY <2>1, <3>1, <3>2, <3>3 DEF Lists
  <2> QED
    BY <2>2, <2>3 DEF ListInv
<1> QED
  BY <1>1, <1>2 DEF ShareNext

\* A token that has ended lets nobody in, and what a user lists is what the
\* owner lists of that user, when nothing ran beside its calls and none was cut
\* off (accept_share, remove_accepted_share, delete_assistant).
THEOREM SharesAgree == ShareSpec => []SharesHold
<1>1. ListInv => ShareListsAgree
  <2> SUFFICES ASSUME ListInv, NEW u \in Users \ muddled, NobodyRuns
               PROVE  AcceptedIsSeen(u) /\ NothingElseSeen(u)
    BY DEF ShareListsAgree
  <2>1. \A t \in Tasks : ~ Between(t, u)
    BY DEF NobodyRuns, Running, Between, On
  <2> QED
    BY <2>1 DEF ListInv, Lists
<1>2. ShareSpec => []ListInv
  BY InitListInv, NextListInv, PTL DEF ShareSpec
<1> QED
  BY <1>1, <1>2, EndedTokensStayOut, PTL DEF SharesHold

-----------------------------------------------------------------------------
(* The card form.  What a table or a message says comes from the answer a  *)
(* submission keeps while it waits, and the provider's own state may move  *)
(* on meanwhile.  The invariant therefore speaks of the answers kept as    *)
(* well (Backed), and says that a submission pays at most once (PaidOnce): *)
(* an approved payment is never overwritten by a later answer.             *)

\* Whatever says "approved" somewhere, an approved payment stands behind it.
Backed ==
    "approved" \in {main, listing} \/ told \/ (\E f \in Forms : seen[f] = "approved")
        => Approved # {}

\* A submission that has not called the provider has no payment, and one that
\* is about to tell has kept an approval.
PaidOnce ==
    \A f \in Forms : /\ pc[f] \in {"idle", "post"} => paid[f] = None
                     /\ pc[f] = "tell" => seen[f] = "approved"

\* An approval in card_charges has been announced, or the submission that
\* wrote it is on its way to do so.
Announcing ==
    main = "approved" /\ stops = 0 =>
        \/ told
        \/ \E f \in Forms : pc[f] \in {"listing", "tell"} /\ seen[f] = "approved"

FormInv == TypeOK /\ Backed /\ PaidOnce /\ Announcing

USE FormAssumption

\* The initial states satisfy the invariant: the charge is pending and no
\* submission has been made.
LEMMA InitFormInv == Init => FormInv
<1> SUFFICES ASSUME Init
             PROVE  FormInv
  OBVIOUS
<1>1. TypeOK
  <2>1. /\ pc \in [Forms -> {"idle", "post", "main", "listing", "tell", "done", "refused"}]
        /\ \A f \in Forms : pc[f] = "idle"
    BY DEF Init
  <2>2. paid \in [Forms -> Payment \cup {None}] /\ seen \in [Forms -> Statuses \cup {None}]
    BY DEF Init
  <2>3. {main, listing} \subseteq Statuses
    BY DEF Init, Statuses
  <2>4. told \in BOOLEAN /\ overlap \in BOOLEAN
    BY DEF Init
  <2>5. stops \in 0 .. MaxStops
    BY DEF Init
  <2> QED
    BY <2>1, <2>2, <2>3, <2>4, <2>5 DEF TypeOK
<1>2. Backed /\ PaidOnce /\ Announcing
  BY DEF Init, Backed, PaidOnce, Announcing, None
<1> QED
  BY <1>1, <1>2 DEF FormInv

\* Only a payment the provider approved reads as approved.
LEMMA MappedSound ==
    ASSUME NEW answer \in Payment
    PROVE  Mapped(answer) \in Statuses /\ (Mapped(answer) = "approved" => answer = "approved")
BY DEF Payment, Mapped, Statuses

\* Every step of a submission and of the provider keeps the type of the state.
LEMMA NextTypeOK == TypeOK /\ [Next]_vars => TypeOK'
<1> SUFFICES ASSUME TypeOK, [Next]_vars
             PROVE  TypeOK'
  OBVIOUS
<1> USE DEF TypeOK, None
<1>1. ASSUME NEW f \in Forms, Submit(f)
      PROVE  TypeOK'
  BY <1>1 DEF Submit, MoveTo, Settled
<1>2. ASSUME NEW f \in Forms, Charge(f)
      PROVE  TypeOK'
  <2>1. UNCHANGED <<main, listing, told, overlap, stops>>
    BY <1>2 DEF Charge
  <2>2. CASE UNCHANGED <<paid, seen>> /\ pc' = [pc EXCEPT ![f] = "done"]
    BY <2>1, <2>2
  <2>3. CASE \E answer \in Payment :
               /\ paid' = [paid EXCEPT ![f] = answer]
               /\ seen' = [seen EXCEPT ![f] = Mapped(answer)]
               /\ pc' = [pc EXCEPT ![f] = "main"]
    <3>1. PICK answer \in Payment :
               /\ paid' = [paid EXCEPT ![f] = answer]
               /\ seen' = [seen EXCEPT ![f] = Mapped(answer)]
               /\ pc' = [pc EXCEPT ![f] = "main"]
      BY <2>3
    <3>2. Mapped(answer) \in Statuses /\ Mapped(answer) # None
      BY MappedSound DEF Statuses
    <3> QED
      BY <2>1, <3>1, <3>2
  <2> QED
    BY <1>2, <2>2, <2>3 DEF Charge, MoveTo
<1>3. ASSUME NEW f \in Forms, UpdateMain(f) \/ UpdateListing(f)
      PROVE  TypeOK'
  <2>1. seen[f] \in Statuses
    BY <1>3 DEF UpdateMain, UpdateListing
  <2>2. /\ {main', listing'} \subseteq Statuses
        /\ UNCHANGED <<paid, seen, told, overlap, stops>>
    BY <1>3, <2>1 DEF UpdateMain, UpdateListing
  <2>3. \E l \in {"listing", "tell", "done"} : pc' = [pc EXCEPT ![f] = l]
    BY <1>3 DEF UpdateMain, UpdateListing, AfterUpdate, MoveTo
  <2>4. seen[f] # None
    BY <2>1 DEF Statuses
  <2> QED
    BY <2>2, <2>3, <2>4
<1>4. ASSUME NEW f \in Forms, Tell(f) \/ Stop(f)
      PROVE  TypeOK'
  <2>1. /\ UNCHANGED <<main, listing, paid, seen, overlap>>
        /\ pc' = [pc EXCEPT ![f] = "done"]
        /\ told' \in BOOLEAN
    BY <1>4 DEF Tell, Stop, MoveTo
  <2>2. stops' \in 0 .. MaxStops
    BY <1>4 DEF Tell, Stop
  <2> QED
    BY <2>1, <2>2
<1>5. ASSUME NEW f \in Forms, Review(f)
      PROVE  TypeOK'
  BY <1>5 DEF Review, Payment
<1>6. CASE UNCHANGED vars
  BY <1>6 DEF vars
<1> QED
  BY <1>1, <1>2, <1>3, <1>4, <1>5, <1>6 DEF Next, Step

\* Every step of a submission and of the provider keeps the invariant.
LEMMA NextFormInv == FormInv /\ [Next]_vars => FormInv'
<1> SUFFICES ASSUME FormInv, [Next]_vars
             PROVE  FormInv'
  OBVIOUS
<1>0. TypeOK /\ TypeOK'
  BY NextTypeOK DEF FormInv
<1>1. ASSUME NEW f \in Forms, Submit(f)
      PROVE  FormInv'
  <2>1. /\ UNCHANGED <<main, listing, paid, seen, told, stops>>
        /\ pc[f] = "idle"
        /\ \E l \in {"post", "refused"} : pc' = [pc EXCEPT ![f] = l]
    BY <1>1 DEF Submit, MoveTo
  <2> QED
    BY <1>0, <2>1 DEF FormInv, TypeOK, Backed, Approved, PaidOnce, Announcing
<1>2. ASSUME NEW f \in Forms, Charge(f)
      PROVE  FormInv'
  <2>1. UNCHANGED <<main, listing, told, overlap, stops>> /\ pc[f] = "post"
    BY <1>2 DEF Charge
  <2>2. CASE UNCHANGED <<paid, seen>> /\ pc' = [pc EXCEPT ![f] = "done"]
    BY <1>0, <2>1, <2>2 DEF FormInv, TypeOK, Backed, Approved, PaidOnce, Announcing
  <2>3. ASSUME NEW answer \in Payment,
               paid' = [paid EXCEPT ![f] = answer],
               seen' = [seen EXCEPT ![f] = Mapped(answer)],
               pc' = [pc EXCEPT ![f] = "main"]
        PROVE  FormInv'
    <3>1. paid[f] = None
      BY <2>1 DEF FormInv, PaidOnce
    <3>2. Approved \subseteq Approved'
      BY <1>0, <2>3, <3>1 DEF Approved, TypeOK, None
    <3>3. seen'[f] = "approved" => f \in Approved'
      BY <1>0, <2>3, MappedSound DEF Approved, TypeOK
    <3>4. Backed'
      BY <1>0, <2>1, <2>3, <3>2, <3>3 DEF FormInv, Backed, TypeOK
    <3>5. PaidOnce'
      BY <1>0, <2>3 DEF FormInv, PaidOnce, TypeOK
    <3>6. Announcing'
      BY <1>0, <2>1, <2>3 DEF FormInv, Announcing, TypeOK
    <3> QED
      BY <1>0, <3>4, <3>5, <3>6 DEF FormInv
  <2> QED
    BY <1>2, <2>2, <2>3 DEF Charge, MoveTo
<1>3. ASSUME NEW f \in Forms, UpdateMain(f)
      PROVE  FormInv'
  <2>1. /\ UNCHANGED <<listing, paid, seen, told, overlap, stops>>
        /\ pc[f] = "main" /\ main' = seen[f] /\ pc' = [pc EXCEPT ![f] = "listing"]
    BY <1>3 DEF UpdateMain, MoveTo
  <2> QED
    BY <1>0, <2>1 DEF FormInv, TypeOK, Backed, Approved, PaidOnce, Announcing
<1>4. ASSUME NEW f \in Forms, UpdateListing(f)
      PROVE  FormInv'
  <2>1. /\ UNCHANGED <<main, paid, seen, told, overlap, stops>>
        /\ pc[f] = "listing" /\ listing' = seen[f]
        /\ pc' = [pc EXCEPT ![f] = IF seen[f] = "approved" THEN "tell" ELSE "done"]
    BY <1>4 DEF UpdateListing, AfterUpdate, MoveTo
  <2> QED
    BY <1>0, <2>1 DEF FormInv, TypeOK, Backed, Approved, PaidOnce, Announcing
<1>5. ASSUME NEW f \in Forms, Tell(f)
      PROVE  FormInv'
  <2>1. /\ UNCHANGED <<main, listing, paid, seen, overlap, stops>>
        /\ pc[f] = "tell" /\ told' = TRUE /\ pc' = [pc EXCEPT ![f] = "done"]
    BY <1>5 DEF Tell, MoveTo
  <2> QED
    BY <1>0, <2>1 DEF FormInv, TypeOK, Backed, Approved, PaidOnce, Announcing
<1>6. ASSUME NEW f \in Forms, Stop(f)
      PROVE  FormInv'
  <2>1. /\ UNCHANGED <<main, listing, paid, seen, told, overlap>>
        /\ stops' = stops + 1 /\ pc' = [pc EXCEPT ![f] = "done"]
    BY <1>6 DEF Stop, MoveTo
  <2>2. stops' # 0
    BY <1>0, <2>1 DEF TypeOK
  <2> QED
    BY <1>0, <2>1, <2>2 DEF FormInv, TypeOK, Backed, Approved, PaidOnce, Announcing
<1>7. ASSUME NEW f \in Forms, Review(f)
      PROVE  FormInv'
  <2>1. /\ UNCHANGED <<main, listing, pc, seen, told, overlap, stops>>
        /\ paid[f] = "in_process"
        /\ \E answer \in {"approved", "rejected"} : paid' = [paid EXCEPT ![f] = answer]
    BY <1>7 DEF Review
  <2>2. Approved \subseteq Approved'
    BY <1>0, <2>1 DEF Approved, TypeOK
  <2>3. PaidOnce'
    BY <1>0, <2>1 DEF FormInv, PaidOnce, TypeOK, None
  <2> QED
    BY <1>0, <2>1, <2>2, <2>3 DEF FormInv, Backed, Announcing
<1>8. CASE UNCHANGED vars
  BY <1>0, <1>8 DEF vars, FormInv, Backed, Approved, PaidOnce, Announcing
<1> QED
  BY <1>1, <1>2, <1>3, <1>4, <1>5, <1>6, <1>7, <1>8 DEF Next, Step

\* The inductive invariant holds in every reachable state of the form.
THEOREM FormInductive == Spec => []FormInv
BY InitFormInv, NextFormInv, PTL DEF Spec

\* Every variable of the form's model keeps its type.
THEOREM FormTypeCorrect == Spec => []TypeOK
<1>1. FormInv => TypeOK
  BY DEF FormInv
<1> QED
  BY FormInductive, <1>1, PTL

\* No table or message of process_mp_card_payment says "approved" without a
\* payment the provider approved, however the submissions overlap.
THEOREM ApprovalsBacked == Spec => []ApprovedMeansPaid
<1>1. FormInv => ApprovedMeansPaid
  BY DEF FormInv, Backed, ApprovedMeansPaid
<1> QED
  BY FormInductive, <1>1, PTL

\* When every submission is over and none was stopped, a charge shown as
\* approved has been announced.
THEOREM ApprovalsTold == Spec => []PaidIsTold
<1>1. FormInv => PaidIsTold
  BY DEF FormInv, Announcing, PaidIsTold, AtRest, Settled
<1> QED
  BY FormInductive, <1>1, PTL

\* Approved is shown only when it is true, and told whenever it is shown, for
\* any number of submissions at once (process_mp_card_payment).
THEOREM ApprovalsTrue == Spec => []ApprovalsHold
BY ApprovalsBacked, ApprovalsTold, PTL DEF ApprovalsHold

-----------------------------------------------------------------------------
(* Submissions in turn.  The status read first keeps the next submission   *)
(* out only once card_charges is written, so the invariant follows the one *)
(* submission that may be under way from await to await.                   *)

\* What a submission keeps is the provider's word, unless it is "pending":
\* only a payment in review can still change.
KeptIsFinal ==
    \A f \in Forms : seen[f] # "pending" =>
        /\ paid[f] = "approved" <=> seen[f] = "approved"
        /\ paid[f] # "in_process"

\* One submission at a time, and one payment.
OneAtATime ==
    /\ \A f, g \in Forms : ~ Settled(f) /\ ~ Settled(g) => f = g
    /\ \A f, g \in Approved : f = g

\* How far the tables are behind the submission under way.
Behind ==
    \A f \in Forms :
        /\ pc[f] = "post" => main = "pending" /\ Approved = {}
        /\ pc[f] = "main" => Approved \subseteq {f}
        /\ pc[f] = "listing" => main = seen[f] /\ Approved \subseteq {f}
        /\ pc[f] = "tell" => main = "approved" /\ listing = "approved" /\ Approved \subseteq {f}

\* Nobody is under way: the tables show the payment.
Shown ==
    (\A f \in Forms : Settled(f)) /\ Approved # {} => main = "approved" /\ listing = "approved"

\* Nothing is kept before the provider has answered.
Unread == \A f \in Forms : pc[f] \in {"idle", "post"} => seen[f] = None

InTurnInv == FormInv /\ Unread /\ KeptIsFinal /\ (InTurn => OneAtATime /\ Behind /\ Shown)

\* What is out of turn stays so: the histories grow, and what was read as
\* "pending" is not read again.
LEMMA OutOfTurnStays ==
    ASSUME InTurnInv, [Next]_vars
    PROVE  InTurn' => InTurn
<1>1. TypeOK /\ PaidOnce
  BY DEF InTurnInv, FormInv
<1>2. ASSUME NEW f \in Forms, Charge(f)
      PROVE  InTurn' => InTurn
  <2>1. CASE UNCHANGED seen
    BY <1>2, <2>1 DEF Charge, InTurn
  <2>2. CASE \E answer : seen' = [seen EXCEPT ![f] = answer]
    <3>1. seen[f] = None /\ UNCHANGED <<overlap, stops>>
      BY <1>2 DEF InTurnInv, Unread, Charge
    <3>2. \A g \in Forms : g # f => seen'[g] = seen[g]
      BY <1>1, <2>2 DEF TypeOK
    <3> QED
      BY <3>1, <3>2 DEF InTurn, None
  <2> QED
    BY <1>2, <2>1, <2>2 DEF Charge
<1>3. ASSUME NEW f \in Forms,
             Submit(f) \/ UpdateMain(f) \/ UpdateListing(f) \/ Tell(f) \/ Stop(f) \/ Review(f)
      PROVE  InTurn' => InTurn
  <2>1. UNCHANGED seen /\ (~ overlap' => ~ overlap) /\ (stops' = 0 => stops = 0)
    BY <1>1, <1>3 DEF Submit, UpdateMain, UpdateListing, Tell, Stop, Review, TypeOK
  <2> QED
    BY <2>1 DEF InTurn
<1>4. CASE UNCHANGED vars
  BY <1>4 DEF vars, InTurn
<1> QED
  BY <1>2, <1>3, <1>4 DEF Next, Step

\* Every step of a submission and of the provider keeps it, too.
LEMMA NextInTurn == InTurnInv /\ [Next]_vars => InTurnInv'
<1> SUFFICES ASSUME InTurnInv, [Next]_vars
             PROVE  InTurnInv'
  OBVIOUS
<1>0. TypeOK /\ TypeOK' /\ PaidOnce /\ FormInv' /\ (InTurn' => InTurn) /\ Unread /\ KeptIsFinal
  BY NextFormInv, NextTypeOK, OutOfTurnStays DEF InTurnInv, FormInv
<1>1. SUFFICES Unread' /\ KeptIsFinal' /\ (InTurn' => OneAtATime' /\ Behind' /\ Shown')
  BY <1>0 DEF InTurnInv
<1>2. InTurn => OneAtATime /\ Behind /\ Shown
  BY DEF InTurnInv
<1>3. ASSUME NEW f \in Forms, Submit(f)
      PROVE  Unread' /\ KeptIsFinal' /\ (InTurn' => OneAtATime' /\ Behind' /\ Shown')
  <2>1. /\ UNCHANGED <<main, listing, paid, seen, told, stops>> /\ Approved' = Approved
        /\ pc[f] = "idle" /\ pc' = [pc EXCEPT ![f] = IF main = "pending" THEN "post" ELSE "refused"]
        /\ ~ overlap' => \A g \in Forms : Settled(g)
    BY <1>3 DEF Submit, MoveTo, Approved
  <2>2. Unread' /\ KeptIsFinal'
    BY <1>0, <2>1 DEF Unread, KeptIsFinal, TypeOK
  <2>3. ASSUME InTurn'
        PROVE  OneAtATime' /\ Behind' /\ Shown'
    <3>1. OneAtATime /\ Behind /\ Shown /\ \A g \in Forms : Settled(g)
      BY <1>0, <1>2, <2>1, <2>3 DEF InTurn
    <3>2. \A g \in Forms : g # f => Settled(g)'
      BY <1>0, <2>1, <3>1 DEF Settled, TypeOK
    <3>3. OneAtATime'
      BY <2>1, <3>1, <3>2 DEF OneAtATime
    <3>4. Behind'
      BY <1>0, <2>1, <3>1 DEF Behind, Settled, Shown, TypeOK
    <3>5. Shown'
      BY <2>1, <3>1 DEF Shown
    <3> QED
      BY <3>3, <3>4, <3>5
  <2> QED
    BY <2>2, <2>3
<1>4. ASSUME NEW f \in Forms, Charge(f)
      PROVE  Unread' /\ KeptIsFinal' /\ (InTurn' => OneAtATime' /\ Behind' /\ Shown')
  <2>1. UNCHANGED <<main, listing, told, overlap, stops>> /\ pc[f] = "post" /\ ~ Settled(f)
    BY <1>4 DEF Charge, Settled
  <2>2. paid[f] = None /\ seen[f] = None
    BY <1>0, <2>1 DEF PaidOnce, Unread
  <2>3. CASE UNCHANGED <<paid, seen>> /\ pc' = [pc EXCEPT ![f] = "done"]
    <3>1. Unread' /\ KeptIsFinal' /\ Approved' = Approved
      BY <1>0, <2>3 DEF Unread, KeptIsFinal, TypeOK, Approved
    <3>2. ASSUME InTurn'
          PROVE  OneAtATime' /\ Behind' /\ Shown'
      <4>1. OneAtATime /\ Behind /\ Approved = {}
        BY <1>0, <1>2, <2>1, <3>2 DEF Behind
      <4> QED
        BY <1>0, <2>1, <2>3, <3>1, <4>1 DEF OneAtATime, Behind, Shown, Settled, TypeOK
    <3> QED
      BY <3>1, <3>2
  <2>4. ASSUME NEW answer \in Payment,
               paid' = [paid EXCEPT ![f] = answer],
               seen' = [seen EXCEPT ![f] = Mapped(answer)],
               pc' = [pc EXCEPT ![f] = "main"]
        PROVE  Unread' /\ KeptIsFinal' /\ (InTurn' => OneAtATime' /\ Behind' /\ Shown')
    <3>1. Mapped(answer) # "pending" =>
              (answer = "approved" <=> Mapped(answer) = "approved") /\ answer # "in_process"
      BY DEF Mapped, Payment
    <3>2. Unread' /\ KeptIsFinal'
      <4>1. Unread'
        BY <1>0, <2>4 DEF Unread, TypeOK
      <4>2. KeptIsFinal'
        BY <1>0, <2>4, <3>1 DEF KeptIsFinal, TypeOK
      <4> QED
        BY <4>1, <4>2
    <3>3. ASSUME InTurn'
          PROVE  OneAtATime' /\ Behind' /\ Shown'
      <4>1. OneAtATime /\ Behind /\ Approved = {}
        BY <1>0, <1>2, <2>1, <3>3 DEF Behind
      <4>2. Approved' \subseteq {f}
        BY <1>0, <2>4, <4>1 DEF Approved, TypeOK
      <4>3. \A g \in Forms : g # f => Settled(g) /\ Settled(g)' /\ pc'[g] = pc[g]
        BY <1>0, <2>1, <2>4, <4>1 DEF OneAtATime, Settled, TypeOK
      <4>4. ~ Settled(f)'
        BY <1>0, <2>4 DEF Settled, TypeOK
      <4>5. OneAtATime' /\ Shown'
        BY <4>2, <4>3, <4>4 DEF OneAtATime, Shown
      <4>6. Behind'
        BY <1>0, <2>4, <4>2, <4>3 DEF Behind, Settled, TypeOK
      <4> QED
        BY <4>5, <4>6
    <3> QED
      BY <3>2, <3>3
  <2> QED
    BY <1>4, <2>3, <2>4 DEF Charge, MoveTo
<1>5. ASSUME NEW f \in Forms, UpdateMain(f)
      PROVE  Unread' /\ KeptIsFinal' /\ (InTurn' => OneAtATime' /\ Behind' /\ Shown')
  <2>1. /\ UNCHANGED <<listing, paid, seen, told, overlap, stops>> /\ Approved' = Approved
        /\ pc[f] = "main" /\ main' = seen[f] /\ pc' = [pc EXCEPT ![f] = "listing"]
    BY <1>5 DEF UpdateMain, MoveTo, Approved
  <2>2. Unread' /\ KeptIsFinal'
    BY <1>0, <2>1 DEF Unread, KeptIsFinal, TypeOK
  <2>3. ASSUME InTurn'
        PROVE  OneAtATime' /\ Behind' /\ Shown'
    <3>1. OneAtATime /\ Behind /\ ~ Settled(f)
      BY <1>0, <1>2, <2>1, <2>3 DEF Settled
    <3>2. \A g \in Forms : Settled(g) <=> Settled(g)'
      BY <1>0, <2>1 DEF Settled, TypeOK
    <3>3. OneAtATime' /\ Shown'
      BY <2>1, <3>1, <3>2 DEF OneAtATime, Shown
    <3>4. \A g \in Forms : g # f => pc[g] \notin {"post", "main", "listing", "tell"}
      BY <3>1 DEF OneAtATime, Settled
    <3>5. Behind'
      BY <1>0, <2>1, <3>1, <3>4 DEF Behind, TypeOK
    <3> QED
      BY <3>3, <3>5
  <2> QED
    BY <2>2, <2>3
<1>6. ASSUME NEW f \in Forms, UpdateListing(f)
      PROVE  Unread' /\ KeptIsFinal' /\ (InTurn' => OneAtATime' /\ Behind' /\ Shown')
  <2>1. /\ UNCHANGED <<main, paid, seen, told, overlap, stops>> /\ Approved' = Approved
        /\ pc[f] = "listing" /\ listing' = seen[f]
        /\ pc' = [pc EXCEPT ![f] = IF seen[f] = "approved" THEN "tell" ELSE "done"]
    BY <1>6 DEF UpdateListing, AfterUpdate, MoveTo, Approved
  <2>2. Unread' /\ KeptIsFinal'
    BY <1>0, <2>1 DEF Unread, KeptIsFinal, TypeOK
  <2>3. ASSUME InTurn'
        PROVE  OneAtATime' /\ Behind' /\ Shown'
    <3>1. /\ OneAtATime /\ main = seen[f] /\ Approved \subseteq {f}
          /\ \A g \in Forms : g # f => Settled(g)
      BY <1>0, <1>2, <2>1, <2>3 DEF Settled, OneAtATime, Behind
    <3>2. \A g \in Forms : g # f => Settled(g)' /\ pc'[g] \notin {"post", "main", "listing", "tell"}
      BY <1>0, <2>1, <3>1 DEF Settled, TypeOK
    <3>3. OneAtATime'
      BY <2>1, <3>1, <3>2 DEF OneAtATime
    <3>4. Behind'
      BY <1>0, <2>1, <3>1, <3>2 DEF Behind, TypeOK
    <3>5. Shown'
      <4>1. seen[f] # "pending" /\ (paid[f] = "approved" => seen[f] = "approved")
        BY <1>0, <2>1, <2>3 DEF InTurn, KeptIsFinal
      <4>2. Approved # {} => seen[f] = "approved"
        BY <3>1, <4>1 DEF Approved
      <4> QED
        BY <2>1, <3>1, <4>2 DEF Shown
    <3> QED
      BY <3>3, <3>4, <3>5
  <2> QED
    BY <2>2, <2>3
<1>7. ASSUME NEW f \in Forms, Tell(f)
      PROVE  Unread' /\ KeptIsFinal' /\ (InTurn' => OneAtATime' /\ Behind' /\ Shown')
  <2>1. /\ UNCHANGED <<main, listing, paid, seen, overlap, stops>> /\ Approved' = Approved
        /\ pc[f] = "tell" /\ pc' = [pc EXCEPT ![f] = "done"]
    BY <1>7 DEF Tell, MoveTo, Approved
  <2>2. Unread' /\ KeptIsFinal'
    BY <1>0, <2>1 DEF Unread, KeptIsFinal, TypeOK
  <2>3. InTurn' => OneAtATime' /\ Behind' /\ Shown'
    BY <1>0, <1>2, <2>1 DEF OneAtATime, Behind, Shown, Settled, TypeOK
  <2> QED
    BY <2>2, <2>3
<1>8. ASSUME NEW f \in Forms, Stop(f)
      PROVE  Unread' /\ KeptIsFinal' /\ (InTurn' => OneAtATime' /\ Behind' /\ Shown')
  <2>1. /\ UNCHANGED <<paid, seen>> /\ stops' # 0 /\ pc' = [pc EXCEPT ![f] = "done"]
    BY <1>0, <1>8 DEF Stop, MoveTo, TypeOK
  <2> QED
    BY <1>0, <2>1 DEF Unread, KeptIsFinal, InTurn, TypeOK
<1>9. ASSUME NEW f \in Forms, Review(f)
      PROVE  Unread' /\ KeptIsFinal' /\ (InTurn' => OneAtATime' /\ Behind' /\ Shown')
  <2>1. /\ UNCHANGED <<main, listing, pc, seen, told, overlap, stops>> /\ paid[f] = "in_process"
        /\ \E answer \in {"approved", "rejected"} : paid' = [paid EXCEPT ![f] = answer]
    BY <1>9 DEF Review
  <2>2. seen[f] = "pending"
    BY <1>0, <2>1 DEF KeptIsFinal
  <2> QED
    BY <1>0, <2>1, <2>2 DEF Unread, KeptIsFinal, InTurn, TypeOK
<1>10. CASE UNCHANGED vars
  <2>1. UNCHANGED <<main, listing, pc, paid, seen, overlap, stops>>
    BY <1>10 DEF vars
  <2> QED
    BY <1>0, <1>2, <2>1 DEF Unread, KeptIsFinal, InTurn, OneAtATime, Behind, Shown, Settled, Approved
<1> QED
  BY <1>3, <1>4, <1>5, <1>6, <1>7, <1>8, <1>9, <1>10 DEF Next, Step

\* Submissions that follow one another, none stopped and none left in review,
\* charge the card at most once, and once they are over both tables show it
\* (process_mp_card_payment).
THEOREM InTurnPaysOnce == Spec => []PaysOnce
<1>1. Init => InTurnInv
  <2> SUFFICES ASSUME Init
               PROVE  InTurnInv
    OBVIOUS
  <2>1. FormInv /\ Approved = {}
    BY InitFormInv DEF Init, Approved, None
  <2>2. Unread /\ KeptIsFinal
    BY DEF Init, Unread, KeptIsFinal, None
  <2>3. OneAtATime /\ Behind /\ Shown
    BY <2>1 DEF Init, OneAtATime, Behind, Shown, Settled
  <2> QED
    BY <2>1, <2>2, <2>3 DEF InTurnInv
<1>2. InTurnInv => PaysOnce
  <2> SUFFICES ASSUME InTurnInv
               PROVE  PaysOnce
    OBVIOUS
  <2>1. ChargedOnceInTurn
    <3> SUFFICES ASSUME InTurn
                 PROVE  Cardinality(Approved) <= 1
      BY DEF ChargedOnceInTurn
    <3>1. \A f, g \in Approved : f = g
      BY DEF InTurnInv, OneAtATime
    <3>2. CASE Approved = {}
      BY <3>2, FS_EmptySet
    <3>3. ASSUME NEW f \in Approved
          PROVE  Cardinality(Approved) <= 1
      <4>1. Approved = {f}
        BY <3>1, <3>3
      <4>2. Cardinality({f}) = 1
        BY FS_Singleton
      <4> QED
        BY <4>1, <4>2
    <3> QED
      BY <3>2, <3>3
  <2>2. PaidIsShown
    BY DEF InTurnInv, Shown, AtRest, PaidIsShown
  <2> QED
    BY <2>1, <2>2 DEF PaysOnce
<1> QED
  BY <1>1, <1>2, NextInTurn, PTL DEF Spec

-----------------------------------------------------------------------------
(* Integrations: a number leads to the one that has it.  A call takes a     *)
(* number in three awaits: it looks for the fingerprint, writes the row and *)
(* then its fingerprint.  In between the number is held by a row that the   *)
(* index does not show under it, so the invariant counts both columns       *)
(* (Holds), says who may leave them apart (FingerprintFollows), and what    *)
(* the lookup has shown a call that is about to write (FreeFor).            *)

\* The component on its own, however many calls there are.
NumberNext == \E t \in Tasks : IntegrationsStep(t)
NumberSpec == IntegrationsInit /\ TasksInit(Budgets) /\ [][NumberNext]_<<tasking, inVars>>

RowStatuses == {"none", "active", "connecting", "connected", "disconnected"}

RowSet == [is : {"none", "whole", "bare"}, of : Assistants \cup {"none"},
           phone : Phones \cup {"none"}, fp : Phones \cup {"none"}, status : RowStatuses]

\* What a lookup by number returns of a row.
Hits == [id : Integrations, of : Assistants \cup {"none"}, status : RowStatuses]

Lookups == [pass : {1, 2}, left : SUBSET Hits, valid : SUBSET Hits, orphans : SUBSET Integrations]

TakeOps   == {"create", "update"}
UpdateOps == {"update", "connect", "poll", "webhook"}

\* A listed row that one call at a time has written, and the numbers it has.
Clean(i)    == Listed(i) /\ i \notin stale
Holds(p, i) == Clean(i) /\ p \in {rows[i].phone, rows[i].fp}

IntegrationTables ==
    /\ rows \in [Integrations -> RowSet] /\ used \subseteq Integrations
    /\ \A i \in Integrations : Listed(i) => i \in used /\ rows[i].phone \in Phones

\* The fingerprint is that of the number, or a call is about to write it.
FingerprintFollows ==
    \A i \in Integrations : Clean(i) =>
        \/ rows[i].fp = rows[i].phone
        \/ \E t \in Tasks : call[t].op \in TakeOps /\ call[t].at = "fp" /\ Arg(t).id = i

NumbersApart ==
    \A p \in Phones \ claimed, i, j \in Integrations : Holds(p, i) /\ Holds(p, j) => i = j

\* Two calls that write one row, or take one number, have left their mark; and
\* no two create one row.
OneWriter ==
    \A t, u \in Tasks : t # u =>
        /\ Writes(call[t]) \cap Writes(call[u]) \subseteq stale
        /\ Takes(call[t]) \cap Takes(call[u]) \subseteq claimed
        /\ call[t].op = "create" /\ call[u].op = "create" => Arg(t).id # Arg(u).id

\* What a call asks for.
Asks(t) ==
    /\ call[t].op \in TakeOps => Arg(t).id \in Integrations /\ Arg(t).phone \in Phones
    /\ call[t].op = "create" =>
            Arg(t).of \in Assistants /\ Arg(t).id \in used /\ (call[t].at # "fp" => ~ Listed(Arg(t).id))
    /\ call[t].op = "update" => Arg(t).status = "same"
    /\ call[t].op \in {"connect", "poll"} =>
            Arg(t).id \in Integrations /\ Arg(t).phone = "same" /\ Arg(t).status \in RowStatuses

\* What a webhook has found.
Looks(t) ==
    /\ call[t].op = "webhook" /\ call[t].at \in {"find", "check", "event", "list"} =>
            Got(t) \in Lookups
    /\ call[t].op = "webhook" /\ call[t].at = "list" => Got(t).valid # {}

\* What update_integration has read is still in the row, and what it will write
\* is that or what was asked for.
ReadRow(t) ==
    call[t].op \in UpdateOps /\ call[t].at \in {"unique", "evict", "write"} =>
        /\ Got(t)[1] \in Integrations /\ Got(t)[2] \in RowSet
        /\ call[t].op # "webhook" => Got(t)[1] = Arg(t).id
        /\ call[t].op = "update" => Got(t)[2].phone = Arg(t).phone
        /\ Clean(Got(t)[1]) =>
            /\ Got(t)[2].of = rows[Got(t)[1]].of
            /\ call[t].op # "update" => Got(t)[2].phone = rows[Got(t)[1]].phone
        /\ Got(t)[2].phone \in Phones

\* The tuples it keeps have the lengths they have.
Keeps(t) ==
    /\ call[t].op = "create" /\ call[t].at \in {"exists", "unique"} => Got(t) = <<>>
    /\ call[t].op = "create" /\ call[t].at = "evict" => Got(t) = <<Got(t)[1]>>
    /\ call[t].op = "update" /\ call[t].at = "unique" => Got(t) = <<Got(t)[1], Got(t)[2]>>
    /\ call[t].op = "update" /\ call[t].at = "evict" => Got(t) = <<Got(t)[1], Got(t)[2], Got(t)[3]>>

\* The fingerprint it will write is that of the number it has written.
WroteRow(t) ==
    /\ call[t].op = "create" /\ call[t].at = "fp" =>
        /\ Got(t)[1] = Arg(t).phone
        /\ Clean(Arg(t).id) => rows[Arg(t).id].phone = Arg(t).phone
    /\ call[t].op \in UpdateOps /\ call[t].at = "fp" =>
        /\ Got(t)[1] \in Phones /\ Got(t)[2] \in Integrations
        /\ call[t].op # "webhook" => Got(t)[2] = Arg(t).id
        /\ call[t].op = "update" => Got(t)[1] = Arg(t).phone
        /\ Clean(Got(t)[2]) => rows[Got(t)[2]].phone = Got(t)[1]

Victim(t) == Got(t)[Len(Got(t))]

\* Nobody else has the number that a call will write, once its victim is gone.
FreeFor(t) ==
    call[t].op \in TakeOps /\ call[t].at \in {"evict", "insert", "write"}
        /\ Arg(t).phone \notin claimed /\ Arg(t).id \notin stale
    => \A j \in Integrations \ {Arg(t).id} :
            Holds(Arg(t).phone, j) => call[t].at = "evict" /\ j = Victim(t)

\* An assistant that had no integration has none with the number.
NoneYet(t) ==
    call[t].op = "create" /\ call[t].at = "unique" /\ Arg(t).phone \notin claimed
    => \A j \in Integrations : Holds(Arg(t).phone, j) => rows[j].of # Arg(t).of

Holding(t) == Asks(t) /\ Looks(t) /\ Keeps(t) /\ ReadRow(t) /\ WroteRow(t) /\ FreeFor(t) /\ NoneYet(t)

NumberInv ==
    /\ Shaped /\ IntegrationTables /\ FingerprintFollows /\ NumbersApart /\ OneWriter
    /\ \A t \in Tasks : Holding(t)

-----------------------------------------------------------------------------
(* What a step does to the calls. *)

LEMMA ShrugGoes ==
    ASSUME Shaped, NEW t \in Tasks, NEW at, NEW got, Shrug(t, at, got)
    PROVE  Continues(t, at, got)
<1>1. Learn(t, at, got) \/ call' = [call EXCEPT ![t].at = at, ![t].got = got]
  BY DEF Shrug
<1>2. call'[t] = [[call[t] EXCEPT !.at = at] EXCEPT !.got = got]
  BY <1>1 DEF Learn, Shaped
<1>3. "got" \in DOMAIN [call[t] EXCEPT !.at = at]
  BY DEF Shaped
<1>4. call'[t].got = got
  BY <1>2, <1>3, Zenon
<1>5. Shaped' /\ Only(t) /\ call'[t].op = call[t].op /\ call'[t].at = at /\ call'[t].arg = call[t].arg
  BY <1>1 DEF Learn, Shaped, Only
<1> QED
  BY <1>4, <1>5 DEF Continues

\* What a call writes and takes.
LEMMA WritesAndTakes ==
    ASSUME NEW c
    PROVE  /\ c.op \in {"create", "update", "connect", "poll", "disconnect", "delete_integration"}
                => Writes(c) = {c.arg.id}
           /\ c.op \in {"webhook", "health", "delete_assistant"} => Writes(c) = Integrations
           /\ c.op = "none" => Writes(c) = {} /\ Takes(c) = {}
           /\ c.op \in TakeOps => Takes(c) = {c.arg.phone} \cap Phones
           /\ c.op \notin TakeOps => Takes(c) = {}
  BY DEF Writes, Takes, TakeOps

-----------------------------------------------------------------------------
(* What a step of one task leaves to the others. *)

\* A number is gained by a call that takes it, in a row that call writes.
Gains(t) ==
    \A p \in Phones, j \in Integrations : Holds(p, j)' =>
        \/ Holds(p, j) /\ rows'[j].of = rows[j].of
        \/ p \in Takes(call[t]) /\ j \in Writes(call[t]) /\ call[t].at \in {"insert", "write"}

\* Rows are listed by the call that creates them, and those of others are left
\* alone, or deleted.
Spares(t) ==
    \A j \in Integrations :
        /\ Listed(j)' => Listed(j) \/ (call[t].op = "create" /\ j = Arg(t).id)
        /\ Clean(j)' /\ j \notin Writes(call[t]) =>
            Clean(j) /\ rows'[j].of = rows[j].of /\ rows'[j].phone = rows[j].phone

Histories == stale \subseteq stale' /\ claimed \subseteq claimed' /\ used \subseteq used'

LEMMA OthersHolding ==
    ASSUME NumberInv, NEW t \in Tasks, Gains(t), Spares(t), Histories,
           NEW u \in Tasks \ {t}, call'[u] = call[u]
    PROVE  Holding(u)'
<1>1. Holding(u) /\ u # t /\ u \in Tasks
  BY DEF NumberInv
<1>2. /\ Writes(call[t]) \cap Writes(call[u]) \subseteq stale
      /\ Takes(call[t]) \cap Takes(call[u]) \subseteq claimed
      /\ call[t].op = "create" /\ call[u].op = "create" => Arg(t).id # Arg(u).id
  BY <1>1 DEF NumberInv, OneWriter
<1>3. Asks(u)' /\ Looks(u)' /\ Keeps(u)'
  <2>1. call[u].op = "create" /\ call[u].at # "fp" => rows'[Arg(u).id].is # "whole"
    BY <1>1, <1>2 DEF Spares, Holding, Asks, TakeOps, Listed
  <2>2. Arg(u)' = Arg(u) /\ Got(u)' = Got(u)
    BY DEF Arg, Got
  <2>3. Asks(u)'
    BY <1>1, <2>1, <2>2 DEF Holding, Asks, Histories, Listed
  <2> QED
    BY <1>1, <2>2, <2>3 DEF Holding, Looks, Keeps
<1>4. ASSUME NEW i \in Writes(call[u]), i \in Integrations, Clean(i)'
      PROVE  Clean(i) /\ rows'[i].of = rows[i].of /\ rows'[i].phone = rows[i].phone
  <2>1. i \notin stale
    BY <1>4 DEF Clean, Histories
  <2>2. i \notin Writes(call[t])
    BY <1>2, <2>1
  <2> QED
    BY <1>4, <2>2 DEF Spares
<1>5. ReadRow(u)' /\ WroteRow(u)'
  <2>1. Arg(u)' = Arg(u) /\ Got(u)' = Got(u)
    BY DEF Arg, Got
  <2>2. ReadRow(u)'
    <3> SUFFICES ASSUME call[u].op \in UpdateOps, call[u].at \in {"unique", "evict", "write"},
                        NEW i, i = Got(u)[1]
                 PROVE  Clean(i)' =>
                            /\ Got(u)[2].of = rows'[i].of
                            /\ call[u].op # "update" => Got(u)[2].phone = rows'[i].phone
      BY <1>1, <2>1 DEF Holding, ReadRow, Clean, Listed
    <3>1. i \in Writes(call[u]) /\ i \in Integrations
      BY <1>1, WritesAndTakes DEF Holding, ReadRow, UpdateOps, Arg
    <3> QED
      BY <1>1, <1>4, <3>1 DEF Holding, ReadRow
  <2>3. WroteRow(u)'
    <3>1. CASE call[u].op = "create" /\ call[u].at = "fp"
      <4>1. Arg(u).id \in Writes(call[u]) /\ Arg(u).id \in Integrations
        BY <1>1, <3>1, WritesAndTakes DEF Holding, Asks, TakeOps, Arg
      <4> QED
        BY <1>1, <1>4, <2>1, <3>1, <4>1 DEF Holding, WroteRow, UpdateOps
    <3>2. CASE call[u].op \in UpdateOps /\ call[u].at = "fp"
      <4>1. Got(u)[2] \in Writes(call[u]) /\ Got(u)[2] \in Integrations
        BY <1>1, <3>2, WritesAndTakes DEF Holding, WroteRow, UpdateOps, Arg
      <4> QED
        BY <1>1, <1>4, <2>1, <3>2, <4>1 DEF Holding, WroteRow, UpdateOps
    <3> QED
      BY <3>1, <3>2 DEF WroteRow
  <2> QED
    BY <2>2, <2>3
<1>6. ASSUME call[u].op \in TakeOps, NEW p, p = Arg(u).phone, p \notin claimed', NEW j \in Integrations, Holds(p, j)'
      PROVE  Holds(p, j) /\ rows'[j].of = rows[j].of /\ p \notin claimed
  <2>1. p \in Takes(call[u]) /\ p \in Phones
    BY <1>1, <1>6, WritesAndTakes DEF Holding, Asks, Arg
  <2>2. p \notin Takes(call[t]) /\ p \notin claimed
    BY <1>2, <1>6, <2>1 DEF Histories
  <2> QED
    BY <1>6, <2>1, <2>2 DEF Gains
<1>7. Arg(u)' = Arg(u) /\ Victim(u)' = Victim(u)
  BY DEF Arg, Got, Victim
<1>8. FreeFor(u)'
  <2> SUFFICES ASSUME call[u].op \in TakeOps, call[u].at \in {"evict", "insert", "write"},
                      NEW p, p = Arg(u).phone, p \notin claimed', Arg(u).id \notin stale',
                      NEW j \in Integrations \ {Arg(u).id}, Holds(p, j)'
               PROVE  call[u].at = "evict" /\ j = Victim(u)
    BY <1>7 DEF FreeFor, Holds, Clean, Listed
  <2>1. Holds(p, j) /\ p \notin claimed /\ Arg(u).id \notin stale
    BY <1>6 DEF Histories
  <2> QED
    BY <1>1, <2>1 DEF Holding, FreeFor
<1>9. NoneYet(u)'
  <2> SUFFICES ASSUME call[u].op = "create", call[u].at = "unique", NEW p, p = Arg(u).phone, p \notin claimed',
                      NEW j \in Integrations, Holds(p, j)'
               PROVE  rows'[j].of # Arg(u).of
    BY <1>7 DEF NoneYet, Holds, Clean, Listed
  <2>1. Holds(p, j) /\ rows'[j].of = rows[j].of /\ p \notin claimed
    BY <1>6 DEF TakeOps
  <2> QED
    BY <1>1, <2>1 DEF Holding, NoneYet
<1> QED
  BY <1>3, <1>5, <1>8, <1>9 DEF Holding

\* A call that goes on or ends writes and takes no more than before.
Onwards(t) ==
    /\ Shaped' /\ Only(t)
    /\ call'[t].op = "none" \/ (call'[t].op = call[t].op /\ call'[t].arg = call[t].arg)

LEMMA StepHolds ==
    ASSUME NumberInv, NEW t \in Tasks, Gains(t), Spares(t), Histories, Onwards(t),
           IntegrationTables', FingerprintFollows', Holding(t)'
    PROVE  NumberInv'
<1>1. \A u \in Tasks \ {t} : call'[u] = call[u]
  BY DEF Onwards, Only
<1>2. \A u \in Tasks : Holding(u)'
  <2> SUFFICES ASSUME NEW u \in Tasks \ {t} PROVE Holding(u)'
    OBVIOUS
  <2> QED
    BY <1>1, OthersHolding
<1>3. OneWriter'
  <2>1. /\ Writes(call'[t]) \subseteq Writes(call[t]) /\ Takes(call'[t]) \subseteq Takes(call[t])
        /\ call'[t].op = "create" => call[t].op = "create" /\ call'[t].arg = call[t].arg
    BY WritesAndTakes DEF Onwards, Writes, Takes
  <2>2. \A u \in Tasks :
          /\ Writes(call'[u]) \subseteq Writes(call[u]) /\ Takes(call'[u]) \subseteq Takes(call[u])
          /\ call'[u].op = "create" => call[u].op = "create" /\ call'[u].arg = call[u].arg
    BY <1>1, <2>1
  <2> QED
    BY <2>2 DEF NumberInv, OneWriter, Histories, Arg
<1>4. NumbersApart'
  <2> SUFFICES ASSUME NEW p \in Phones \ claimed', NEW i \in Integrations, NEW j \in Integrations,
                      Holds(p, i)', Holds(p, j)', i # j
               PROVE  FALSE
    BY DEF NumbersApart
  <2>1. p \notin claimed
    BY DEF Histories
  <2>2. ~ (Holds(p, i) /\ Holds(p, j))
    BY <2>1 DEF NumberInv, NumbersApart
  <2>3. ASSUME NEW k \in Integrations, NEW l \in Integrations, k # l, Holds(p, k)', Holds(p, l)', ~ Holds(p, k)
        PROVE  FALSE
    <3>1. p \in Takes(call[t]) /\ k \in Writes(call[t]) /\ call[t].at \in {"insert", "write"}
      BY <2>3 DEF Gains
    <3>2. call[t].op \in TakeOps
      BY <3>1, WritesAndTakes
    <3>3. p = Arg(t).phone /\ k = Arg(t).id
      BY <3>1, <3>2, WritesAndTakes DEF TakeOps, Arg
    <3>4. k \notin stale
      BY <2>3 DEF Holds, Clean, Histories
    <3>5. ~ Holds(p, l)
      BY <2>1, <2>3, <3>1, <3>2, <3>3, <3>4 DEF NumberInv, Holding, FreeFor
    <3>6. l \in Writes(call[t])
      BY <2>3, <3>5 DEF Gains
    <3> QED
      BY <2>3, <3>2, <3>3, <3>6, WritesAndTakes DEF TakeOps, Arg
  <2> QED
    BY <2>2, <2>3
<1> QED
  BY <1>2, <1>3, <1>4 DEF NumberInv, Onwards

\* Most steps leave the numbers as they are, or delete rows.
Quiet ==
    /\ rows' \in [Integrations -> RowSet]
    /\ \A j \in Integrations : Listed(j)' =>
        /\ Listed(j) /\ rows'[j].of = rows[j].of
        /\ rows'[j].phone = rows[j].phone /\ rows'[j].fp = rows[j].fp

LEMMA QuietGains ==
    ASSUME NumberInv, NEW t \in Tasks, Quiet, Histories
    PROVE  Gains(t) /\ Spares(t)
<1>1. \A j \in Integrations : Clean(j)' => Clean(j)
  BY DEF Quiet, Clean, Histories
<1> QED
  BY <1>1 DEF Gains, Spares, Quiet, Holds, Clean

LEMMA QuietHolds ==
    ASSUME NumberInv, NEW t \in Tasks, Quiet, Histories, used' = used, Onwards(t), Holding(t)',
           call[t].op \in TakeOps /\ call[t].at = "fp" => Writes(call[t]) \subseteq stale'
    PROVE  NumberInv'
<1>1. Gains(t) /\ Spares(t)
  BY QuietGains
<1>2. IntegrationTables'
  BY DEF NumberInv, IntegrationTables, Quiet
<1>3. FingerprintFollows'
  <2> SUFFICES ASSUME NEW i \in Integrations, Clean(i)', rows'[i].fp # rows'[i].phone
               PROVE  \E u \in Tasks : call'[u].op \in TakeOps /\ call'[u].at = "fp" /\ call'[u].arg.id = i
    BY DEF FingerprintFollows, Arg
  <2>1. Clean(i) /\ rows[i].fp # rows[i].phone /\ i \notin stale'
    BY DEF Quiet, Clean, Histories
  <2>2. PICK u \in Tasks : call[u].op \in TakeOps /\ call[u].at = "fp" /\ Arg(u).id = i
    BY <2>1 DEF NumberInv, FingerprintFollows
  <2>3. i \in Writes(call[u])
    BY <2>2, WritesAndTakes DEF TakeOps, Arg
  <2>4. u # t
    BY <2>1, <2>2, <2>3
  <2> QED
    BY <2>2, <2>4 DEF Onwards, Only, Arg
<1> QED
  BY <1>1, <1>2, <1>3, StepHolds

\* A call that is over knows nothing.
LEMMA EndHolding ==
    ASSUME NEW t \in Tasks, call'[t].op = "none"
    PROVE  Holding(t)'
  BY DEF Holding, Asks, Looks, Keeps, ReadRow, WroteRow, FreeFor, NoneYet, TakeOps, UpdateOps

LEMMA EndHolds ==
    ASSUME NumberInv, NEW t \in Tasks, Quiet, Histories, used' = used, Ceases(t),
           call[t].op \in TakeOps /\ call[t].at = "fp" => Writes(call[t]) \subseteq stale'
    PROVE  NumberInv'
  BY QuietHolds, EndHolding DEF Ceases, Onwards

\* Rows are left alone, or deleted.
LEMMA RowsSpared ==
    ASSUME NumberInv, rows' = rows \/ \E gone : rows' = [i \in Integrations |-> IF i \in gone THEN NoRow ELSE rows[i]]
    PROVE  Quiet
<1>1. NoRow \in RowSet
  BY DEF NoRow, RowSet, RowStatuses
<1> QED
  BY <1>1 DEF NumberInv, IntegrationTables, Quiet, Listed, NoRow
-----------------------------------------------------------------------------
(* Calls begin. *)

LEMMA BeginKeeps ==
    ASSUME NumberInv, NEW t \in Tasks, NEW op, NEW at, NEW arg, NEW got, BeginIn(t, op, at, arg, got),
           op # "none", op = "create" => arg.id \in Integrations \ used,
           Shaped' /\ call'[t].op = op /\ call'[t].arg = arg => Holding(t)'
    PROVE  NumberInv'
<1>1. /\ call[t].op = "none" /\ Only(t) /\ Shaped' /\ rows' = rows /\ Histories
      /\ call'[t] = [op |-> op, at |-> at, arg |-> arg, got |-> got]
      /\ used' = IF op = "create" THEN used \cup {arg.id} ELSE used
  BY DEF BeginIn, BeginWith, Running, NumberInv, Shaped, Only, Histories, inTables
<1> DEFINE me == [op |-> op, arg |-> arg]
<1>2. Writes(call'[t]) = Writes(me) /\ Takes(call'[t]) = Takes(me)
  BY <1>1 DEF Writes, Takes
<1>3. /\ stale' = stale \cup (Writes(me) \cap UNION {Writes(call[o]) : o \in Others(t)})
      /\ claimed' = claimed \cup (Takes(me) \cap UNION {Takes(call[o]) : o \in Others(t)})
  BY DEF BeginIn
<1> HIDE DEF me
<1>4. Quiet /\ Gains(t) /\ Spares(t)
  BY <1>1, RowsSpared, QuietGains
<1>5. \A u \in Tasks \ {t} : call'[u] = call[u]
  BY <1>1 DEF Only
<1>6. \A u \in Tasks : Holding(u)'
  <2>1. \A u \in Tasks \ {t} : Holding(u)'
    <3> SUFFICES ASSUME NEW u \in Tasks \ {t} PROVE Holding(u)'
      OBVIOUS
    <3> QED
      BY <1>1, <1>4, <1>5, OthersHolding
  <2> QED
    BY <1>1, <2>1
<1>7. OneWriter'
  <2>1. ASSUME NEW u \in Tasks \ {t}
        PROVE  /\ Writes(call'[t]) \cap Writes(call'[u]) \subseteq stale'
               /\ Takes(call'[t]) \cap Takes(call'[u]) \subseteq claimed'
               /\ call'[t].op = "create" /\ call'[u].op = "create" => call'[t].arg.id # call'[u].arg.id
    <3>1. CASE call[u].op = "none"
      BY <1>5, <3>1, WritesAndTakes
    <3>2. CASE call[u].op # "none"
      <4>1. u \in Others(t)
        BY <3>2 DEF Others, Running
      <4>2. Writes(me) \cap Writes(call[u]) \subseteq stale' /\ Takes(me) \cap Takes(call[u]) \subseteq claimed'
        BY <1>3, <4>1
      <4>3. call[u].op = "create" => Arg(u).id \in used
        BY DEF NumberInv, Holding, Asks
      <4> QED
        BY <1>1, <1>2, <1>5, <4>2, <4>3 DEF Arg
    <3> QED
      BY <3>1, <3>2
  <2>2. \A u, v \in Tasks \ {t} : u # v =>
               /\ Writes(call'[u]) \cap Writes(call'[v]) \subseteq stale'
               /\ Takes(call'[u]) \cap Takes(call'[v]) \subseteq claimed'
               /\ call'[u].op = "create" /\ call'[v].op = "create" => call'[u].arg.id # call'[v].arg.id
    BY <1>1, <1>5 DEF NumberInv, OneWriter, Arg, Histories
  <2>3. \A u, v \in Tasks : u # v =>
               /\ Writes(call'[u]) \cap Writes(call'[v]) \subseteq stale'
               /\ Takes(call'[u]) \cap Takes(call'[v]) \subseteq claimed'
               /\ call'[u].op = "create" /\ call'[v].op = "create" => call'[u].arg.id # call'[v].arg.id
    BY <2>1, <2>2
  <2> QED
    BY <2>3 DEF OneWriter, Arg
<1>8. IntegrationTables' /\ NumbersApart'
  <2>1. \A i \in Integrations : Listed(i)' = Listed(i)
    BY <1>1 DEF Listed
  <2>2. \A p \in Phones, i \in Integrations : Holds(p, i)' => Holds(p, i)
    BY <1>1 DEF Listed, Holds, Clean, Histories
  <2>3. used' \subseteq Integrations /\ used \subseteq used'
    BY <1>1 DEF NumberInv, IntegrationTables
  <2> QED
    BY <1>1, <2>1, <2>2, <2>3 DEF NumberInv, IntegrationTables, NumbersApart, Histories
<1>9. FingerprintFollows'
  <2> SUFFICES ASSUME NEW i \in Integrations, Clean(i)', rows'[i].fp # rows'[i].phone
               PROVE  \E u \in Tasks : call'[u].op \in TakeOps /\ call'[u].at = "fp" /\ call'[u].arg.id = i
    BY DEF FingerprintFollows, Arg
  <2>1. Clean(i) /\ rows[i].fp # rows[i].phone
    BY <1>1 DEF Clean, Listed, Histories
  <2>2. PICK u \in Tasks : call[u].op \in TakeOps /\ call[u].at = "fp" /\ Arg(u).id = i
    BY <2>1 DEF NumberInv, FingerprintFollows
  <2> QED
    BY <1>1, <1>5, <2>2 DEF Arg, TakeOps
<1> QED
  BY <1>1, <1>6, <1>7, <1>8, <1>9 DEF NumberInv

LEMMA OwnerCallsKeep ==
    ASSUME NumberInv, NEW t \in Tasks, OwnerCalls(t)
    PROVE  NumberInv'
<1>1. ASSUME NEW a \in Assistants, NEW i \in Fresh, NEW p \in Phones,
             BeginIn(t, "create", "exists", [id |-> i, of |-> a, phone |-> p, status |-> "active"], <<>>)
      PROVE  NumberInv'
  <2> DEFINE arg == [id |-> i, of |-> a, phone |-> p, status |-> "active"]
  <2>1. i \in Integrations \ used
    <3>1. Fresh # {} => used # Integrations /\ i = CHOOSE x \in Integrations : x \notin used
      BY DEF Fresh
    <3>2. \E x \in Integrations : x \notin used
      BY <3>1 DEF NumberInv, IntegrationTables
    <3> QED
      BY <3>1, <3>2, Zenon
  <2>2. ~ Listed(i)
    BY <2>1 DEF NumberInv, IntegrationTables
  <2>3. /\ call'[t] = [op |-> "create", at |-> "exists", arg |-> arg, got |-> <<>>]
        /\ rows' = rows /\ used' = used \cup {i}
    BY <1>1 DEF BeginIn, BeginWith, NumberInv, Shaped, inTables
  <2>4. Holding(t)'
    BY <2>1, <2>2, <2>3
       DEF Holding, Asks, Looks, Keeps, ReadRow, WroteRow, FreeFor, NoneYet, TakeOps, UpdateOps, Arg, Got, Listed
  <2> QED
    BY <1>1, <2>1, <2>4, BeginKeeps
<1>2. ASSUME NEW i \in Integrations, NEW p \in Phones,
             BeginIn(t, "update", "list", [NoWish EXCEPT !.id = i, !.phone = p], <<>>)
      PROVE  NumberInv'
  <2> DEFINE arg == [NoWish EXCEPT !.id = i, !.phone = p]
  <2>1. arg.id = i /\ arg.phone = p /\ arg.status = "same"
    BY DEF NoWish
  <2> HIDE DEF arg
  <2>2. call'[t] = [op |-> "update", at |-> "list", arg |-> arg, got |-> <<>>]
    BY <1>2 DEF BeginIn, BeginWith, NumberInv, Shaped, arg
  <2>3. Holding(t)'
    BY <2>1, <2>2
       DEF Holding, Asks, Looks, Keeps, ReadRow, WroteRow, FreeFor, NoneYet, TakeOps, UpdateOps, Arg, Got, Listed
  <2> QED
    BY <1>2, <2>3, BeginKeeps DEF arg
<1>3. ASSUME NEW i \in Integrations, NEW op \in {"connect", "poll"}, NEW to \in RowStatuses,
             BeginIn(t, op, "get", [NoWish EXCEPT !.id = i, !.status = to], <<>>)
      PROVE  NumberInv'
  <2> DEFINE arg == [NoWish EXCEPT !.id = i, !.status = to]
  <2>1. arg.id = i /\ arg.phone = "same" /\ arg.status = to
    BY DEF NoWish
  <2> HIDE DEF arg
  <2>2. call'[t] = [op |-> op, at |-> "get", arg |-> arg, got |-> <<>>]
    BY <1>3 DEF BeginIn, BeginWith, NumberInv, Shaped, arg
  <2>3. Holding(t)'
    BY <2>1, <2>2
       DEF Holding, Asks, Looks, Keeps, ReadRow, WroteRow, FreeFor, NoneYet, TakeOps, UpdateOps, Arg, Got, Listed
  <2> QED
    BY <1>3, <2>3, BeginKeeps DEF arg
<1>4. ASSUME NEW op \in {"disconnect", "delete_integration", "update_assistant", "delete_assistant"},
             NEW at, NEW arg, BeginIn(t, op, at, arg, <<>>)
      PROVE  NumberInv'
  <2>1. call'[t].op = op => Holding(t)'
    BY DEF Holding, Asks, Looks, Keeps, ReadRow, WroteRow, FreeFor, NoneYet, TakeOps, UpdateOps
  <2> QED
    BY <1>4, <2>1, BeginKeeps
<1> QED
  BY <1>1, <1>2, <1>3, <1>4 DEF OwnerCalls, RowStatuses

LEMMA OutsideCallsKeep ==
    ASSUME NumberInv, NEW t \in Tasks, OutsideCalls(t)
    PROVE  NumberInv'
<1>1. ASSUME NEW arg, BeginIn(t, "webhook", "find", arg, Lookup(1))
      PROVE  NumberInv'
  <2>1. call'[t] = [op |-> "webhook", at |-> "find", arg |-> arg, got |-> Lookup(1)]
    BY <1>1 DEF BeginIn, BeginWith, NumberInv, Shaped
  <2>2. Lookup(1) \in Lookups
    BY DEF Lookup, Lookups
  <2>3. Holding(t)'
    BY <2>1, <2>2
       DEF Holding, Asks, Looks, Keeps, ReadRow, WroteRow, FreeFor, NoneYet, TakeOps, UpdateOps, Got
  <2> QED
    BY <1>1, <2>3, BeginKeeps
<1>2. ASSUME BeginIn(t, "health", "scan", <<>>, {})
      PROVE  NumberInv'
  <2>1. call'[t].op = "health" => Holding(t)'
    BY DEF Holding, Asks, Looks, Keeps, ReadRow, WroteRow, FreeFor, NoneYet, TakeOps, UpdateOps
  <2> QED
    BY <1>2, <2>1, BeginKeeps
<1> QED
  BY <1>1, <1>2 DEF OutsideCalls
-----------------------------------------------------------------------------
(* The steps that leave the numbers alone. *)

LEMMA GoesOnwards ==
    ASSUME NEW t \in Tasks, NEW at, NEW got, Continues(t, at, got)
    PROVE  Onwards(t)
  BY DEF Continues, Onwards

LEMMA AsksStays ==
    ASSUME NumberInv, NEW t \in Tasks, NEW at, NEW got, Continues(t, at, got), Quiet, used' = used,
           call[t].at # "fp"
    PROVE  Asks(t)'
<1>1. Arg(t)' = Arg(t)
  BY DEF Continues, Arg
<1>2. call[t].op = "create" => rows'[Arg(t).id].is # "whole"
  BY DEF NumberInv, Holding, Asks, Quiet, Listed, TakeOps
<1> QED
  BY <1>1, <1>2 DEF NumberInv, Holding, Asks, Continues, Listed

\* Between the awaits of which something is said, a call only keeps what it
\* asks for.
LEMMA PlainHolds ==
    ASSUME NumberInv, NEW t \in Tasks, NEW at, NEW got, Continues(t, at, got), Quiet, Histories, used' = used,
           \/ call[t].op \notin TakeOps \cup UpdateOps
           \/ /\ call[t].at # "fp" /\ call[t].op \in {"connect", "poll"}
              /\ at \in {"post", "list"}
    PROVE  NumberInv'
<1>1. Holding(t)'
  <2>1. CASE call[t].op \notin TakeOps \cup UpdateOps
    BY <2>1
       DEF Continues, Holding, Asks, Looks, Keeps, ReadRow, WroteRow, FreeFor, NoneYet, TakeOps, UpdateOps
  <2>2. CASE call[t].at # "fp" /\ call[t].op \in {"connect", "poll"} /\ at \in {"post", "list"}
    <3>1. Asks(t)'
      BY <2>2, AsksStays
    <3> QED
      BY <2>2, <3>1 DEF Continues, Holding, Looks, Keeps, ReadRow, WroteRow, FreeFor, NoneYet, TakeOps
  <2> QED
    BY <2>1, <2>2
<1>2. ~ (call[t].op \in TakeOps /\ call[t].at = "fp")
  BY DEF TakeOps
<1> QED
  BY <1>1, <1>2, GoesOnwards, QuietHolds

\* The health check changes a status.
LEMMA MarkDownSpares ==
    ASSUME NumberInv, NEW t \in Tasks, MarkDown(t)
    PROVE  Quiet
<1> SUFFICES ASSUME NEW i, i = Got(t)[1] PROVE Quiet
  OBVIOUS
<1>1. rows' = [rows EXCEPT ![i] = IF @.is = "none" THEN [NoRow EXCEPT !.is = "bare", !.status = "disconnected"]
                                                   ELSE [@ EXCEPT !.status = "disconnected"]]
  BY DEF MarkDown
<1>2. rows \in [Integrations -> RowSet]
  BY DEF NumberInv, IntegrationTables
<1>3. /\ [NoRow EXCEPT !.is = "bare", !.status = "disconnected"] \in RowSet
      /\ [NoRow EXCEPT !.is = "bare", !.status = "disconnected"].is = "bare"
  BY DEF RowSet, RowStatuses, NoRow
<1>4. ASSUME NEW r \in RowSet
      PROVE  LET down == [r EXCEPT !.status = "disconnected"] IN
             /\ down \in RowSet /\ down.is = r.is /\ down.of = r.of
             /\ down.phone = r.phone /\ down.fp = r.fp
  BY DEF RowSet, RowStatuses
<1>5. ASSUME NEW j \in Integrations
      PROVE  /\ rows'[j] \in RowSet
             /\ Listed(j)' => /\ Listed(j) /\ rows'[j].of = rows[j].of
                              /\ rows'[j].phone = rows[j].phone /\ rows'[j].fp = rows[j].fp
  <2>1. rows[j] \in RowSet
    BY <1>2
  <2>2. CASE j # i
    BY <1>1, <1>2, <2>1, <2>2 DEF Listed
  <2>3. CASE j = i /\ rows[i].is = "none"
    BY <1>1, <1>2, <1>3, <2>3 DEF Listed
  <2>4. CASE j = i /\ rows[i].is # "none"
    BY <1>1, <1>2, <1>4, <2>1, <2>4 DEF Listed
  <2> QED
    BY <2>2, <2>3, <2>4
<1>6. rows' = [j \in Integrations |-> rows'[j]]
  BY <1>1, <1>2
<1> QED
  BY <1>5, <1>6 DEF Quiet

LEMMA PlainStepsKeep ==
    ASSUME NumberInv, NEW t \in Tasks,
           \/ GetRow(t) \/ PostConnect(t) \/ Unlink(t) \/ DeleteRow(t)
           \/ Scan(t) \/ Probe(t) \/ MarkDown(t)
           \/ GetAssistant(t) \/ DeleteRows(t) \/ WriteAssistant(t)
    PROVE  NumberInv'
<1>1. Histories /\ used' = used
  BY DEF GetRow, PostConnect, Unlink, DeleteRow, Scan, Probe, MarkDown, GetAssistant, DeleteRows,
         WriteAssistant, inVars, inHistory, Histories
<1>2. ASSUME Quiet, call[t].op \notin TakeOps, call[t].at # "fp",
             \/ Finish(t) \/ Drop(t)
             \/ /\ call[t].op \notin UpdateOps
                /\ \E at, got : Goto(t, at) \/ Learn(t, at, got)
             \/ call[t].op \in {"connect", "poll"} /\ \E at \in {"post", "list"} : Goto(t, at)
      PROVE  NumberInv'
  <2>1. CASE Finish(t) \/ Drop(t)
    BY <1>1, <1>2, <2>1, LeavesEnds, EndHolds DEF NumberInv
  <2>2. CASE \E at, got : Continues(t, at, got) /\ call[t].op \notin TakeOps \cup UpdateOps
    BY <1>1, <1>2, <2>2, PlainHolds
  <2>3. CASE call[t].op \in {"connect", "poll"} /\ \E at \in {"post", "list"} : Goto(t, at)
    <3>1. PICK at \in {"post", "list"} : Continues(t, at, Got(t))
      BY <2>3, GotoGoes DEF NumberInv
    <3> QED
      BY <1>1, <1>2, <2>3, <3>1, PlainHolds
  <2> QED
    BY <1>2, <2>1, <2>2, <2>3, GotoGoes, LearnGoes DEF NumberInv
<1>3. CASE GetRow(t)
  <2>1. Quiet
    BY <1>3, RowsSpared DEF GetRow, inVars, inTables
  <2> QED
    BY <1>2, <1>3, <2>1 DEF GetRow, On, TakeOps, UpdateOps
<1>4. CASE PostConnect(t)
  <2>1. Quiet
    BY <1>4, RowsSpared DEF PostConnect, inVars, inTables
  <2> QED
    BY <1>2, <1>4, <2>1 DEF PostConnect, On, TakeOps, UpdateOps
<1>5. CASE Unlink(t) \/ Scan(t) \/ Probe(t) \/ GetAssistant(t) \/ WriteAssistant(t)
  <2>1. Quiet
    BY <1>5, RowsSpared DEF Unlink, Scan, Probe, GetAssistant, WriteAssistant, inVars, inTables
  <2> QED
    BY <1>2, <1>5, <2>1 DEF Unlink, Scan, Probe, GetAssistant, WriteAssistant, On, TakeOps, UpdateOps
<1>6. CASE DeleteRow(t)
  <2>1. rows' = [i \in Integrations |-> IF i \in {Arg(t).id} THEN NoRow ELSE rows[i]]
    BY <1>6 DEF DeleteRow, NumberInv, IntegrationTables
  <2>2. Quiet
    BY <2>1, RowsSpared
  <2> QED
    BY <1>2, <1>6, <2>2 DEF DeleteRow, On, TakeOps, UpdateOps
<1>7. CASE DeleteRows(t)
  <2>1. rows' = [i \in Integrations |->
            IF i \in {j \in Integrations : rows[j].of = Arg(t).of} THEN NoRow ELSE rows[i]]
    BY <1>7 DEF DeleteRows
  <2>2. Quiet
    BY <2>1, RowsSpared
  <2> QED
    BY <1>2, <1>7, <2>2 DEF DeleteRows, On, TakeOps, UpdateOps
<1>8. CASE MarkDown(t)
  <2>1. Quiet
    BY <1>8, MarkDownSpares
  <2> QED
    BY <1>2, <1>8, <2>1 DEF MarkDown, On, TakeOps, UpdateOps
<1> QED
  BY <1>3, <1>4, <1>5, <1>6, <1>7, <1>8

LEMMA DropInKeeps ==
    ASSUME NumberInv, NEW t \in Tasks, DropIn(t)
    PROVE  NumberInv'
<1>1. Ceases(t)
  BY LeavesEnds DEF DropIn, NumberInv
<1>2. Quiet
  BY RowsSpared DEF DropIn, inTables
<1> QED
  BY <1>1, <1>2, EndHolds DEF DropIn, Histories

-----------------------------------------------------------------------------
(* The webhook. *)

LEMMA WebhookHolds ==
    ASSUME NumberInv, NEW t \in Tasks, call[t].op = "webhook", Quiet, Histories, used' = used,
           NEW at \in {"find", "check", "event", "list"}, NEW got \in Lookups, at = "list" => got.valid # {},
           Continues(t, at, got)
    PROVE  NumberInv'
<1>1. Holding(t)'
  BY DEF Continues, Holding, Asks, Looks, Keeps, ReadRow, WroteRow, FreeFor, NoneYet, TakeOps, UpdateOps, Lookups, Got
<1> QED
  BY <1>1, GoesOnwards, QuietHolds DEF TakeOps

LEMMA AfterLookupHolds ==
    ASSUME NumberInv, NEW t \in Tasks, call[t].op = "webhook", Got(t) \in Lookups, Quiet, Histories, used' = used,
           NEW valid \in SUBSET Hits, AfterLookup(t, valid)
    PROVE  NumberInv'
<1>1. CASE Finish(t)
  BY <1>1, LeavesEnds, EndHolds DEF NumberInv, TakeOps
<1> DEFINE got == [Got(t) EXCEPT !.valid = valid]
<1>2. got \in Lookups /\ got.valid = valid
  BY DEF Lookups
<1>3. CASE Learn(t, "event", got)
  <2>1. Continues(t, "event", got)
    BY <1>3, LearnGoes DEF NumberInv
  <2> HIDE DEF got
  <2> QED
    BY <1>2, <2>1, WebhookHolds
<1>4. CASE valid # {} /\ Learn(t, "list", got)
  <2>1. Continues(t, "list", got)
    BY <1>4, LearnGoes DEF NumberInv
  <2> HIDE DEF got
  <2> QED
    BY <1>2, <1>4, <2>1, WebhookHolds
<1> QED
  BY <1>1, <1>3, <1>4 DEF AfterLookup

LEMMA FindKeeps ==
    ASSUME NumberInv, NEW t \in Tasks, Find(t)
    PROVE  NumberInv'
<1>1. call[t].op = "webhook" /\ Got(t) \in Lookups
  BY DEF Find, On, NumberInv, Holding, Looks
<1>2. Quiet /\ Histories /\ used' = used
  BY RowsSpared DEF Find, inVars, inTables, inHistory, Histories
<1>3. CASE AfterLookup(t, {})
  BY <1>1, <1>2, <1>3, AfterLookupHolds
<1> DEFINE hits == {[id |-> i, of |-> rows[i].of, status |-> rows[i].status] :
                        i \in {j \in Indexed(Arg(t).phone) : rows[j].status # "disconnected"}}
           got == [Got(t) EXCEPT !.left = hits]
<1>4. CASE Learn(t, "check", got)
  <2>1. Continues(t, "check", got)
    BY <1>4, LearnGoes DEF NumberInv
  <2>2. hits \subseteq Hits
    BY DEF Indexed, Hits, NumberInv, IntegrationTables, RowSet
  <2> HIDE DEF hits
  <2>3. got \in Lookups
    BY <1>1, <2>2 DEF Lookups
  <2> HIDE DEF got
  <2> QED
    BY <1>1, <1>2, <2>1, <2>3, WebhookHolds
<1> QED
  BY <1>3, <1>4 DEF Find

LEMMA CheckAssistantKeeps ==
    ASSUME NumberInv, NEW t \in Tasks, CheckAssistant(t)
    PROVE  NumberInv'
<1>1. call[t].op = "webhook" /\ Got(t) \in Lookups
  BY DEF CheckAssistant, On, NumberInv, Holding, Looks
<1>2. Quiet /\ Histories /\ used' = used
  BY RowsSpared DEF CheckAssistant, inTables, Histories
<1>3. ASSUME NEW got, got \in Lookups, Learn(t, "check", got) \/ Shrug(t, "check", got)
      PROVE  NumberInv'
  <2>1. Continues(t, "check", got)
    BY <1>3, LearnGoes, ShrugGoes DEF NumberInv
  <2> QED
    BY <1>1, <1>2, <1>3, <2>1, WebhookHolds
<1>4. PICK r \in Got(t).left :
        LET g == [Got(t) EXCEPT !.left = @ \ {r}] IN
        \/ Learn(t, "check", [g EXCEPT !.valid = IF @ = {} THEN {r} ELSE @])
        \/ Learn(t, "check", [g EXCEPT !.orphans = @ \cup {r.id}])
        \/ Shrug(t, "check", [g EXCEPT !.orphans = @ \cup {r.id}])
  BY DEF CheckAssistant
<1> DEFINE g == [Got(t) EXCEPT !.left = @ \ {r}]
<1>5. r \in Hits /\ g \in Lookups
  BY <1>1 DEF Lookups
<1> HIDE DEF g
<1>6. /\ [g EXCEPT !.valid = IF @ = {} THEN {r} ELSE @] \in Lookups
      /\ [g EXCEPT !.orphans = @ \cup {r.id}] \in Lookups
  BY <1>5 DEF Lookups, Hits
<1> QED
  BY <1>3, <1>4, <1>6 DEF g

LEMMA CleanOrphanKeeps ==
    ASSUME NumberInv, NEW t \in Tasks, CleanOrphan(t)
    PROVE  NumberInv'
<1>1. call[t].op = "webhook" /\ Got(t) \in Lookups
  BY DEF CleanOrphan, On, NumberInv, Holding, Looks
<1>2. Histories /\ used' = used
  BY DEF CleanOrphan, inHistory, Histories
<1>3. ASSUME NEW i \in Got(t).orphans,
             LET rest == [Got(t) EXCEPT !.orphans = @ \ {i}] IN
             \/ rows' = [rows EXCEPT ![i] = NoRow] /\ Learn(t, "check", rest)
             \/ Shrug(t, "check", rest) /\ UNCHANGED rows
      PROVE  NumberInv'
  <2> DEFINE rest == [Got(t) EXCEPT !.orphans = @ \ {i}]
  <2>1. rest \in Lookups
    BY <1>1 DEF Lookups
  <2>2. Continues(t, "check", rest)
    BY <1>3, LearnGoes, ShrugGoes DEF NumberInv
  <2> HIDE DEF rest
  <2>3. rows' = rows \/ rows' = [k \in Integrations |-> IF k \in {i} THEN NoRow ELSE rows[k]]
    BY <1>3 DEF NumberInv, IntegrationTables
  <2>4. Quiet
    BY <2>3, RowsSpared
  <2> QED
    BY <1>1, <1>2, <2>1, <2>2, <2>4, WebhookHolds
<1>4. CASE AfterLookup(t, Got(t).valid) /\ UNCHANGED rows
  <2>1. Got(t).valid \in SUBSET Hits
    BY <1>1 DEF Lookups
  <2> QED
    BY <1>1, <1>2, <1>4, <2>1, RowsSpared, AfterLookupHolds
<1> QED
  BY <1>3, <1>4 DEF CleanOrphan

LEMMA KeepEventKeeps ==
    ASSUME NumberInv, NEW t \in Tasks, KeepEvent(t)
    PROVE  NumberInv'
<1>1. call[t].op = "webhook"
  BY DEF KeepEvent, On
<1>2. Quiet /\ Histories /\ used' = used
  BY RowsSpared DEF KeepEvent, inHistory, Histories
<1>3. CASE Finish(t)
  BY <1>1, <1>2, <1>3, LeavesEnds, EndHolds DEF NumberInv, TakeOps
<1>4. CASE Learn(t, "find", Lookup(2))
  <2>1. Continues(t, "find", Lookup(2)) /\ Lookup(2) \in Lookups
    BY <1>4, LearnGoes DEF NumberInv, Lookup, Lookups
  <2> QED
    BY <1>1, <1>2, <2>1, WebhookHolds
<1> QED
  BY <1>3, <1>4 DEF KeepEvent
-----------------------------------------------------------------------------
(* A call takes a number. *)

LEMMA CheckExistingKeeps ==
    ASSUME NumberInv, NEW t \in Tasks, CheckExisting(t)
    PROVE  NumberInv'
<1>1. call[t].op = "create" /\ call[t].at = "exists" /\ Got(t) = <<>>
  BY DEF CheckExisting, On, NumberInv, Holding, Keeps
<1>2. Quiet /\ Histories /\ used' = used /\ UNCHANGED <<rows, stale, claimed>>
  BY RowsSpared DEF CheckExisting, inVars, inTables, inHistory, Histories
<1>3. CASE Finish(t)
  BY <1>1, <1>2, <1>3, LeavesEnds, EndHolds DEF NumberInv
<1>4. CASE Goto(t, "unique") /\ ~ \E i \in Integrations : Listed(i) /\ rows[i].of = Arg(t).of
  <2>1. Continues(t, "unique", <<>>)
    BY <1>1, <1>4, GotoGoes DEF NumberInv
  <2>2. Asks(t)'
    BY <1>1, <1>2, <2>1, AsksStays
  <2>3. NoneYet(t)'
    BY <1>2, <1>4, <2>1 DEF Continues, NoneYet, Holds, Clean, Listed, Arg
  <2>4. Holding(t)'
    BY <1>1, <2>1, <2>2, <2>3
       DEF Continues, Holding, Looks, Keeps, ReadRow, WroteRow, FreeFor, TakeOps, UpdateOps, Got
  <2> QED
    BY <1>1, <1>2, <2>1, <2>4, GoesOnwards, QuietHolds
<1> QED
  BY <1>3, <1>4 DEF CheckExisting

\* Whoever has a number that no other call takes is in the index under it.
LEMMA HolderIsIndexed ==
    ASSUME NumberInv, NEW t \in Tasks, call[t].op \in TakeOps, call[t].at = "unique",
           NEW p, p = Arg(t).phone, p \notin claimed, NEW j \in Integrations, Holds(p, j)
    PROVE  j \in Indexed(p)
<1>1. Listed(j) /\ (rows[j].fp = p \/ rows[j].phone = p)
  BY DEF Holds, Clean
<1>2. CASE rows[j].fp = p
  BY <1>1, <1>2 DEF Indexed, Listed
<1>3. CASE rows[j].phone = p /\ rows[j].fp # p
  <2>1. PICK u \in Tasks : call[u].op \in TakeOps /\ call[u].at = "fp" /\ Arg(u).id = j
    BY <1>3 DEF Holds, NumberInv, FingerprintFollows
  <2>2. Arg(u).phone = p
    BY <1>3, <2>1 DEF Holds, NumberInv, Holding, WroteRow, TakeOps, UpdateOps
  <2>3. p \in Takes(call[t]) /\ p \in Takes(call[u])
    BY <2>1, <2>2, WritesAndTakes DEF NumberInv, Holding, Asks, Arg
  <2> QED
    BY <2>1, <2>3 DEF NumberInv, OneWriter
<1> QED
  BY <1>1, <1>2, <1>3

\* A pair with one more.
LEMMA Longer ==
    ASSUME NEW a, NEW b, NEW c
    PROVE  <<a, b>> \o <<c>> = <<a, b, c>>
<1> DEFINE S == {a, b, c}
           l == <<a, b>> \o <<c>>
           r == <<a, b, c>>
<1>1. <<a, b>> \in Seq(S) /\ <<c>> \in Seq(S) /\ r \in Seq(S)
      /\ Len(<<a, b>>) = 2 /\ Len(<<c>>) = 1 /\ Len(r) = 3
  OBVIOUS
<1>2. l \in Seq(S) /\ Len(l) = 3
  BY <1>1
<1>3. \A k \in 1..3 : l[k] = r[k]
  BY <1>1
<1>4. l \in [1..3 -> S] /\ r \in [1..3 -> S]
  BY <1>1, <1>2, LenProperties
<1> HIDE DEF l, r, S
<1>5. l = r
  BY <1>3, <1>4
<1> QED
  BY <1>5 DEF l, r

\* A call that has looked goes on to take the number, or to evict who has it.
LEMMA LookedHolds ==
    ASSUME NumberInv, NEW t \in Tasks, call[t].op \in TakeOps, call[t].at \in {"unique", "evict"},
           NEW at \in {"evict", "insert", "write"}, NEW got, Continues(t, at, got), Quiet, Histories, used' = used,
           at = "evict" => \/ call[t].op = "create" /\ got = <<got[1]>>
                           \/ call[t].op = "update" /\ got = <<got[1], got[2], got[3]>>,
           call[t].op = "update" => got[1] = Got(t)[1] /\ got[2] = Got(t)[2],
           at # "evict" => at = Taking(t),
           NEW p, p = Arg(t).phone,
           p \notin claimed' /\ Arg(t).id \notin stale' => \A j \in Integrations \ {Arg(t).id} :
                Holds(p, j)' => at = "evict" /\ j = got[Len(got)]
    PROVE  NumberInv'
<1>1. Asks(t)'
  BY AsksStays
<1>2. Arg(t)' = Arg(t) /\ Got(t)' = got /\ call'[t].op = call[t].op /\ call'[t].at = at
  BY DEF Continues, Arg, Got
<1>3. Keeps(t)'
  BY <1>2 DEF Keeps, TakeOps
<1>4. ReadRow(t)'
  <2> SUFFICES ASSUME call[t].op = "update", NEW i, i = Got(t)[1]
               PROVE  /\ i \in Integrations /\ Got(t)[2] \in RowSet /\ i = Arg(t).id
                      /\ Got(t)[2].phone = Arg(t).phone /\ Got(t)[2].phone \in Phones
                      /\ Clean(i)' => Got(t)[2].of = rows'[i].of
    BY <1>2 DEF ReadRow, UpdateOps, TakeOps, Clean, Listed
  <2>1. ReadRow(t)
    BY DEF NumberInv, Holding
  <2>2. /\ i \in Integrations /\ Got(t)[2] \in RowSet /\ i = Arg(t).id
        /\ Got(t)[2].phone = Arg(t).phone /\ Got(t)[2].phone \in Phones
        /\ Clean(i) => Got(t)[2].of = rows[i].of
    BY <2>1 DEF ReadRow, UpdateOps
  <2>3. Clean(i)' => Clean(i) /\ rows'[i].of = rows[i].of
    BY <2>2 DEF Quiet, Clean, Histories
  <2> QED
    BY <2>2, <2>3
<1>5. FreeFor(t)'
  <2> SUFFICES ASSUME p \notin claimed', Arg(t).id \notin stale',
                      NEW j \in Integrations \ {Arg(t).id}, Holds(p, j)'
               PROVE  at = "evict" /\ j = got[Len(got)]
    BY <1>2 DEF FreeFor, Victim, Holds, Clean, Listed
  <2> QED
    OBVIOUS
<1>6. Holding(t)'
  BY <1>1, <1>2, <1>3, <1>4, <1>5 DEF Holding, Looks, WroteRow, NoneYet, TakeOps
<1> QED
  BY <1>6, GoesOnwards, QuietHolds

LEMMA CheckPhoneKeeps ==
    ASSUME NumberInv, NEW t \in Tasks, CheckPhone(t)
    PROVE  NumberInv'
<1> SUFFICES ASSUME NEW p, p = Arg(t).phone, NEW got, got = Got(t)
             PROVE  NumberInv'
  OBVIOUS
<1>1. call[t].op \in TakeOps /\ call[t].at = "unique"
  BY DEF CheckPhone, On, TakeOps
<1>2. Quiet /\ UNCHANGED <<rows, stale, used>>
  BY RowsSpared DEF CheckPhone, inTables
<1>3. Taking(t) \in {"insert", "write"} /\ p \in Phones
      /\ (call[t].op = "create" => got = <<>>) /\ (call[t].op = "update" => got = <<got[1], got[2]>>)
  BY <1>1 DEF Taking, NumberInv, Holding, Keeps, Asks
<1>4. \A j \in Integrations : Holds(p, j)' <=> Holds(p, j)
  BY <1>2 DEF Holds, Clean, Listed
<1>5. ASSUME Goto(t, Taking(t)) \/ Shrug(t, Taking(t), got), claimed \subseteq claimed',
             p \notin claimed' => \A j \in Integrations \ {Arg(t).id} : ~ Holds(p, j)
      PROVE  NumberInv'
  <2> DEFINE at == Taking(t)
  <2>1. Continues(t, at, got)
    BY <1>5, GotoGoes, ShrugGoes DEF NumberInv
  <2>2. Histories /\ used' = used
    BY <1>2, <1>5 DEF Histories
  <2> HIDE DEF at
  <2>3. at \in {"insert", "write"} /\ at = Taking(t)
    BY <1>3 DEF at
  <2> QED
    BY <1>1, <1>2, <1>4, <1>5, <2>1, <2>2, <2>3, LookedHolds
<1>6. CASE Indexed(p) = {} /\ Goto(t, Taking(t)) /\ UNCHANGED claimed
  BY <1>1, <1>5, <1>6, HolderIsIndexed
<1>7. CASE Shrug(t, Taking(t), got) /\ claimed' = claimed \cup {p}
  BY <1>5, <1>7
<1>8. ASSUME NEW i \in Indexed(p),
             claimed' = IF Listed(i) /\ i \notin stale THEN claimed ELSE claimed \cup {p},
             IF ~Listed(i) \/ ~InTheWay(t, i) THEN Goto(t, Taking(t))
             ELSE IF rows[i].status = "disconnected" THEN Learn(t, "evict", got \o <<i>>)
             ELSE Finish(t)
      PROVE  NumberInv'
  <2>1. claimed \subseteq claimed' /\ i \in Integrations
    BY <1>8 DEF Indexed
  <2>2. p \notin claimed' => Holds(p, i) /\ p \notin claimed
    BY <1>8 DEF Indexed, Holds, Clean
  <2>3. p \notin claimed' => \A j \in Integrations : Holds(p, j) => j = i
    BY <1>3, <2>1, <2>2 DEF NumberInv, NumbersApart
  <2>4. CASE Finish(t)
    BY <1>1, <1>2, <2>1, <2>4, LeavesEnds, EndHolds DEF NumberInv, Histories
  <2>5. CASE Goto(t, Taking(t)) /\ (~ Listed(i) \/ ~ InTheWay(t, i))
    <3>1. p \notin claimed' => i = Arg(t).id
      <4> SUFFICES ASSUME p \notin claimed' PROVE i = Arg(t).id
        OBVIOUS
      <4>1. ~ InTheWay(t, i)
        BY <2>2, <2>5 DEF Holds, Clean
      <4>2. call[t].op # "create"
        BY <1>1, <2>1, <2>2, <4>1 DEF InTheWay, NumberInv, Holding, NoneYet
      <4> QED
        BY <4>1, <4>2 DEF InTheWay
    <3> QED
      BY <1>5, <2>1, <2>3, <2>5, <3>1
  <2>6. CASE Learn(t, "evict", got \o <<i>>)
    <3> DEFINE more == got \o <<i>>
    <3>1. /\ call[t].op = "create" => more = <<i>>
          /\ call[t].op = "update" => more = <<got[1], got[2], i>>
      <4>1. <<>> \o <<i>> = <<i>>
        OBVIOUS
      <4>2. <<got[1], got[2]>> \o <<i>> = <<got[1], got[2], i>>
        BY Longer
      <4> QED
        BY <1>3, <4>1, <4>2
    <3>2. Continues(t, "evict", more)
      BY <2>6, LearnGoes DEF NumberInv
    <3> HIDE DEF more
    <3>3. more[Len(more)] = i
      <4>1. <<i>>[Len(<<i>>)] = i /\ <<got[1], got[2], i>>[Len(<<got[1], got[2], i>>)] = i
        OBVIOUS
      <4>2. more = <<i>> \/ more = <<got[1], got[2], i>>
        BY <1>1, <3>1 DEF TakeOps
      <4>3. CASE more = <<i>>
        BY <4>1, <4>3, Zenon
      <4>4. CASE more = <<got[1], got[2], i>>
        BY <4>1, <4>4, Zenon
      <4> QED
        BY <4>2, <4>3, <4>4
    <3>4. /\ call[t].op = "create" => more = <<more[1]>>
          /\ call[t].op = "update" => more = <<more[1], more[2], more[3]>> /\ more[1] = got[1] /\ more[2] = got[2]
      BY <3>1
    <3>5. Histories /\ used' = used
      BY <1>2, <2>1 DEF Histories
    <3> QED
      BY <1>1, <1>2, <1>4, <2>3, <3>2, <3>3, <3>4, <3>5, LookedHolds DEF TakeOps
  <2> QED
    BY <1>8, <2>4, <2>5, <2>6
<1> QED
  BY <1>6, <1>7, <1>8 DEF CheckPhone

LEMMA EvictKeeps ==
    ASSUME NumberInv, NEW t \in Tasks, Evict(t)
    PROVE  NumberInv'
<1> SUFFICES ASSUME NEW p, p = Arg(t).phone, NEW got, got = Got(t), NEW i, i = got[Len(got)],
                    NEW at, at = Taking(t)
             PROVE  NumberInv'
  OBVIOUS
<1>1. call[t].op \in TakeOps /\ call[t].at = "evict" /\ at \in {"insert", "write"}
  BY DEF Evict, On, TakeOps, Taking
<1>2. UNCHANGED <<stale, used>> /\ claimed \subseteq claimed' /\ Histories
  BY DEF Evict, Histories
<1>3. Continues(t, at, got)
  BY GotoGoes, ShrugGoes DEF Evict, NumberInv
<1>4. rows' = rows \/ rows' = [k \in Integrations |-> IF k \in {i} THEN NoRow ELSE rows[k]]
  BY DEF Evict, NumberInv, IntegrationTables
<1>5. Quiet
  BY <1>4, RowsSpared
<1>6. p \notin claimed' /\ Arg(t).id \notin stale' => \A j \in Integrations \ {Arg(t).id} : ~ Holds(p, j)'
  <2> SUFFICES ASSUME p \notin claimed', Arg(t).id \notin stale', NEW j \in Integrations \ {Arg(t).id}, Holds(p, j)'
               PROVE  FALSE
    OBVIOUS
  <2>1. rows' = [k \in Integrations |-> IF k \in {i} THEN NoRow ELSE rows[k]]
    BY DEF Evict, NumberInv, IntegrationTables
  <2>2. j # i
    BY <2>1 DEF Holds, Clean, Listed, NoRow
  <2>3. Holds(p, j) /\ p \notin claimed
    BY <1>2, <2>1, <2>2 DEF Holds, Clean, Listed
  <2>4. Arg(t).id \in stale
    BY <1>1, <2>2, <2>3 DEF NumberInv, Holding, FreeFor, Victim
  <2> QED
    BY <1>1, <1>2, <2>4
<1> QED
  BY <1>1, <1>2, <1>3, <1>5, <1>6, LookedHolds

\* The row is listed, and its fingerprint is still to be written.
LEMMA InsertRowKeeps ==
    ASSUME NumberInv, NEW t \in Tasks, InsertRow(t)
    PROVE  NumberInv'
<1> SUFFICES ASSUME NEW p, p = Arg(t).phone, NEW i, i = Arg(t).id
             PROVE  NumberInv'
  OBVIOUS
<1>1. call[t].op = "create" /\ call[t].at = "insert"
  BY DEF InsertRow, On
<1>2. /\ i \in Integrations /\ p \in Phones /\ i \in used /\ ~ Listed(i)
      /\ [is |-> "whole", of |-> Arg(t).of, phone |-> p, fp |-> "none", status |-> "active"] \in RowSet
  BY <1>1 DEF NumberInv, Holding, Asks, TakeOps, RowSet, RowStatuses
<1>3. /\ rows' \in [Integrations -> RowSet] /\ \A j \in Integrations \ {i} : rows'[j] = rows[j]
      /\ rows'[i] = [is |-> "whole", of |-> Arg(t).of, phone |-> p, fp |-> "none", status |-> "active"]
  BY <1>2 DEF InsertRow, NumberInv, IntegrationTables
<1>4. UNCHANGED <<stale, claimed, used>> /\ Histories
  BY DEF InsertRow, inHistory, Histories
<1>5. Continues(t, "fp", <<p>>)
  BY LearnGoes DEF InsertRow, NumberInv
<1>6. \A j \in Integrations \ {i} : Listed(j)' = Listed(j) /\ Clean(j)' = Clean(j)
  BY <1>3, <1>4 DEF Listed, Clean
<1>7. Takes(call[t]) = {p} /\ Writes(call[t]) = {i}
  BY <1>1, <1>2, WritesAndTakes DEF TakeOps, Arg
<1>8. Gains(t)
  <2> SUFFICES ASSUME NEW q \in Phones, NEW j \in Integrations, Holds(q, j)'
               PROVE  (Holds(q, j) /\ rows'[j].of = rows[j].of) \/ (q = p /\ j = i)
    BY <1>1, <1>7 DEF Gains
  <2>1. CASE j = i
    BY <1>3, <2>1, IntegrationsAssumption DEF Holds
  <2>2. CASE j # i
    BY <1>3, <1>6, <2>2 DEF Holds
  <2> QED
    BY <2>1, <2>2
<1>9. Spares(t)
  BY <1>1, <1>3, <1>6, <1>7 DEF Spares
<1>10. IntegrationTables'
  BY <1>2, <1>3, <1>4, <1>6 DEF IntegrationTables, NumberInv
<1>11. FingerprintFollows'
  <2> SUFFICES ASSUME NEW j \in Integrations, Clean(j)', rows'[j].fp # rows'[j].phone
               PROVE  \E u \in Tasks : call'[u].op \in TakeOps /\ call'[u].at = "fp" /\ call'[u].arg.id = j
    BY DEF FingerprintFollows, Arg
  <2>1. CASE j = i
    BY <1>1, <1>5, <2>1 DEF Continues, TakeOps, Arg
  <2>2. CASE j # i
    <3>1. PICK u \in Tasks : call[u].op \in TakeOps /\ call[u].at = "fp" /\ Arg(u).id = j
      BY <1>3, <1>6, <2>2 DEF NumberInv, FingerprintFollows
    <3> QED
      BY <1>1, <1>5, <3>1 DEF Continues, Only, Arg
  <2> QED
    BY <2>1, <2>2
<1>12. Holding(t)'
  <2>1. call'[t].op = "create" /\ call'[t].at = "fp" /\ Arg(t)' = Arg(t) /\ Got(t)' = <<p>>
    BY <1>1, <1>5 DEF Continues, Arg, Got
  <2>2. Asks(t)'
    BY <1>1, <1>4, <2>1 DEF NumberInv, Holding, Asks
  <2>3. WroteRow(t)'
    BY <1>3, <2>1 DEF WroteRow, UpdateOps
  <2> QED
    BY <2>1, <2>2, <2>3 DEF Holding, Looks, Keeps, ReadRow, FreeFor, NoneYet, UpdateOps
<1> QED
  BY <1>4, <1>5, <1>8, <1>9, <1>10, <1>11, <1>12, GoesOnwards, StepHolds

\* What a call wishes of a row.
LEMMA Wishes ==
    ASSUME NumberInv, NEW t \in Tasks, call[t].op \in UpdateOps, call[t].at = "list"
    PROVE  /\ Wish(t).id \in Integrations /\ Wish(t).status \in RowStatuses \cup {"same"}
           /\ call[t].op = "update" => Wish(t).phone = Arg(t).phone /\ Arg(t).phone \in Phones
           /\ call[t].op # "update" => Wish(t).phone = "same"
           /\ call[t].op # "webhook" => Wish(t).id = Arg(t).id
<1>1. CASE call[t].op = "webhook"
  <2>1. Got(t).valid # {} /\ Got(t).valid \subseteq Hits
    BY <1>1 DEF NumberInv, Holding, Looks, Lookups
  <2>2. (CHOOSE v \in Got(t).valid : TRUE) \in Hits
    BY <2>1
  <2> QED
    BY <1>1, <2>2 DEF Wish, Hits, RowStatuses
<1>2. CASE call[t].op # "webhook"
  <2>1. Wish(t) = Arg(t)
    BY <1>2 DEF Wish
  <2> QED
    BY <1>2, <2>1 DEF NumberInv, Holding, Asks, UpdateOps, TakeOps
<1> QED
  BY <1>1, <1>2

LEMMA ListRowKeeps ==
    ASSUME NumberInv, NEW t \in Tasks, ListRow(t)
    PROVE  NumberInv'
<1> SUFFICES ASSUME NEW w, w = Wish(t), NEW r, r = rows[w.id],
                    NEW new, new = [r EXCEPT !.phone = IF w.phone = "same" THEN @ ELSE w.phone,
                                             !.status = IF w.status = "same" THEN @ ELSE w.status],
                    NEW at, at = IF w.phone \notin {"same", r.phone} THEN "unique" ELSE "write"
             PROVE  NumberInv'
  OBVIOUS
<1>1. call[t].op \in UpdateOps /\ call[t].at = "list"
  BY DEF ListRow, On, UpdateOps
<1>2. Quiet /\ Histories /\ used' = used /\ UNCHANGED <<rows, stale, claimed>>
  BY RowsSpared DEF ListRow, inVars, inTables, inHistory, Histories
<1>3. /\ w.id \in Integrations /\ w.status \in RowStatuses \cup {"same"}
      /\ call[t].op = "update" => w.phone = Arg(t).phone /\ Arg(t).phone \in Phones
      /\ call[t].op # "update" => w.phone = "same"
      /\ call[t].op # "webhook" => w.id = Arg(t).id
  BY <1>1, Wishes
<1>4. CASE Finish(t)
  BY <1>1, <1>2, <1>4, LeavesEnds, EndHolds DEF NumberInv
<1>5. CASE Listed(w.id) /\ Learn(t, at, <<w.id, new>>)
  <2>1. Continues(t, at, <<w.id, new>>)
    BY <1>5, LearnGoes DEF NumberInv
  <2>2. r \in RowSet /\ r.phone \in Phones
    BY <1>3, <1>5 DEF NumberInv, IntegrationTables
  <2>3. /\ new \in RowSet /\ new.of = r.of /\ new.phone \in Phones
        /\ call[t].op = "update" => new.phone = Arg(t).phone
        /\ call[t].op # "update" => new.phone = r.phone
    BY <1>3, <2>2, IntegrationsAssumption DEF RowSet
  <2>4. /\ call'[t].op = call[t].op /\ call'[t].at = at /\ Arg(t)' = Arg(t) /\ Got(t)' = <<w.id, new>>
        /\ at \in {"unique", "write"} /\ (call[t].op # "update" => at = "write")
    BY <1>3, <2>1 DEF Continues, Arg, Got
  <2>5. Asks(t)'
    BY <1>1, <1>2, <2>1, AsksStays
  <2>6. ReadRow(t)' /\ Keeps(t)'
    <3>1. Got(t)'[1] = w.id /\ Got(t)'[2] = new
      BY <2>4
    <3>2. Clean(w.id)' => new.of = rows'[w.id].of /\ (call[t].op # "update" => new.phone = rows'[w.id].phone)
      BY <1>2, <2>3
    <3>3. ReadRow(t)'
      BY <1>3, <2>3, <2>4, <3>1, <3>2 DEF ReadRow, Clean, Listed
    <3> QED
      BY <1>1, <2>4, <3>1, <3>3 DEF Keeps, UpdateOps
  <2>7. FreeFor(t)'
    <3> SUFFICES ASSUME call[t].op = "update", at = "write", NEW p, p = Arg(t).phone, p \notin claimed,
                        w.id \notin stale, NEW j \in Integrations \ {w.id}, Holds(p, j)
                 PROVE  FALSE
      BY <1>1, <1>2, <1>3, <2>4 DEF FreeFor, UpdateOps, TakeOps, Holds, Clean, Listed
    <3>1. p = r.phone /\ p \in Phones
      BY <1>3, <2>2, IntegrationsAssumption
    <3>2. Holds(p, w.id)
      BY <1>5, <3>1 DEF Holds, Clean
    <3> QED
      BY <1>3, <3>1, <3>2 DEF NumberInv, NumbersApart
  <2>8. Holding(t)'
    BY <1>1, <2>4, <2>5, <2>6, <2>7 DEF Holding, Looks, WroteRow, NoneYet, UpdateOps
  <2> QED
    BY <1>1, <1>2, <2>1, <2>8, GoesOnwards, QuietHolds
<1> QED
  BY <1>4, <1>5 DEF ListRow

LEMMA UpdateRowKeeps ==
    ASSUME NumberInv, NEW t \in Tasks, UpdateRow(t)
    PROVE  NumberInv'
<1> SUFFICES ASSUME NEW i, i = Got(t)[1], NEW new, new = Got(t)[2]
             PROVE  NumberInv'
  OBVIOUS
<1>1. call[t].op \in UpdateOps /\ call[t].at = "write"
  BY DEF UpdateRow, On, UpdateOps
<1>2. /\ i \in Integrations /\ new \in RowSet /\ new.phone \in Phones
      /\ call[t].op # "webhook" => i = Arg(t).id
      /\ call[t].op = "update" => new.phone = Arg(t).phone
      /\ Clean(i) => /\ new.of = rows[i].of
                     /\ call[t].op # "update" => new.phone = rows[i].phone
  BY <1>1 DEF NumberInv, Holding, ReadRow
<1>3. /\ rows' \in [Integrations -> RowSet] /\ \A j \in Integrations \ {i} : rows'[j] = rows[j]
      /\ Listed(i)' => /\ Listed(i) /\ rows'[i].of = new.of
                       /\ rows'[i].phone = new.phone /\ rows'[i].fp = rows[i].fp
  BY <1>2 DEF UpdateRow, NumberInv, IntegrationTables, RowSet, Listed
<1>4. UNCHANGED <<stale, claimed, used>> /\ Histories
  BY DEF UpdateRow, inHistory, Histories
<1>5. Continues(t, "fp", <<new.phone, i, new.of>>)
  BY LearnGoes DEF UpdateRow, NumberInv
<1>6. \A j \in Integrations : (Listed(j)' => Listed(j)) /\ (Clean(j)' => Clean(j))
  BY <1>3, <1>4 DEF Listed, Clean
<1>7. i \in Writes(call[t]) /\ (call[t].op = "update" => new.phone \in Takes(call[t]))
  BY <1>1, <1>2, WritesAndTakes DEF UpdateOps, TakeOps, Arg
<1>8. Gains(t)
  <2> SUFFICES ASSUME NEW q \in Phones, NEW j \in Integrations, Holds(q, j)'
               PROVE  \/ Holds(q, j) /\ rows'[j].of = rows[j].of
                      \/ q \in Takes(call[t]) /\ j \in Writes(call[t])
    BY <1>1 DEF Gains
  <2>1. CASE j = i
    BY <1>2, <1>3, <1>6, <1>7, <2>1 DEF Holds, Clean
  <2>2. CASE j # i
    BY <1>3, <1>6, <2>2 DEF Holds
  <2> QED
    BY <2>1, <2>2
<1>9. Spares(t)
  BY <1>3, <1>6, <1>7 DEF Spares
<1>10. IntegrationTables'
  BY <1>2, <1>3, <1>4, <1>6 DEF IntegrationTables, NumberInv
<1>11. FingerprintFollows'
  <2> SUFFICES ASSUME NEW j \in Integrations, Clean(j)', rows'[j].fp # rows'[j].phone
               PROVE  \E u \in Tasks : call'[u].op \in TakeOps /\ call'[u].at = "fp" /\ call'[u].arg.id = j
    BY DEF FingerprintFollows, Arg
  <2>1. CASE j = i /\ call[t].op = "update"
    BY <1>2, <1>5, <2>1 DEF Continues, TakeOps, Arg
  <2>2. CASE j # i \/ call[t].op # "update"
    <3>1. rows[j].fp # rows[j].phone /\ Clean(j)
      BY <1>2, <1>3, <1>6, <2>2 DEF Clean
    <3>2. PICK u \in Tasks : call[u].op \in TakeOps /\ call[u].at = "fp" /\ Arg(u).id = j
      BY <3>1 DEF NumberInv, FingerprintFollows
    <3> QED
      BY <1>1, <1>5, <3>2 DEF Continues, Only, Arg
  <2> QED
    BY <2>1, <2>2
<1>12. Holding(t)'
  <2>1. /\ call'[t].op = call[t].op /\ call'[t].at = "fp" /\ Arg(t)' = Arg(t)
        /\ Got(t)' = <<new.phone, i, new.of>>
    BY <1>5 DEF Continues, Arg, Got
  <2>2. Asks(t)'
    BY <1>1, <1>4, <2>1 DEF NumberInv, Holding, Asks, UpdateOps
  <2>3. WroteRow(t)'
    BY <1>1, <1>2, <1>3, <2>1 DEF WroteRow, UpdateOps, Clean
  <2> QED
    BY <1>1, <2>1, <2>2, <2>3 DEF Holding, Looks, Keeps, ReadRow, FreeFor, NoneYet, UpdateOps
<1> QED
  BY <1>4, <1>5, <1>8, <1>9, <1>10, <1>11, <1>12, GoesOnwards, StepHolds

LEMMA WriteFpKeeps ==
    ASSUME NumberInv, NEW t \in Tasks, WriteFp(t)
    PROVE  NumberInv'
<1> SUFFICES ASSUME NEW i, i = IF call[t].op = "create" THEN Arg(t).id ELSE Got(t)[2], NEW p, p = Got(t)[1]
             PROVE  NumberInv'
  OBVIOUS
<1>1. call[t].op \in TakeOps \cup UpdateOps /\ call[t].at = "fp"
  BY DEF WriteFp, On, UpdateOps, TakeOps
<1>2. /\ i \in Integrations /\ p \in Phones /\ (call[t].op # "webhook" => i = Arg(t).id)
      /\ Clean(i) => rows[i].phone = p
  BY <1>1 DEF NumberInv, Holding, WroteRow, Asks, TakeOps, UpdateOps
<1>3. /\ rows' \in [Integrations -> RowSet] /\ \A j \in Integrations \ {i} : rows'[j] = rows[j]
      /\ Listed(i)' => /\ Listed(i) /\ rows'[i].of = rows[i].of
                       /\ rows'[i].phone = rows[i].phone /\ rows'[i].fp = p
  <2>1. rows' = [rows EXCEPT ![i] = IF @.is = "none" THEN [NoRow EXCEPT !.is = "bare", !.fp = p]
                                                        ELSE [@ EXCEPT !.fp = p]]
    BY DEF WriteFp
  <2>2. rows[i] \in RowSet /\ rows \in [Integrations -> RowSet]
    BY <1>2 DEF NumberInv, IntegrationTables
  <2>3. /\ [NoRow EXCEPT !.is = "bare", !.fp = p] \in RowSet /\ [NoRow EXCEPT !.is = "bare", !.fp = p].is = "bare"
        /\ [rows[i] EXCEPT !.fp = p] \in RowSet
    BY <1>2, <2>2 DEF RowSet, NoRow, RowStatuses
  <2> QED
    BY <1>2, <2>1, <2>2, <2>3 DEF Listed, RowSet
<1>4. UNCHANGED <<stale, claimed, used>> /\ Histories
  BY DEF WriteFp, inHistory, Histories
<1>5. Ceases(t)
  BY LeavesEnds DEF WriteFp, NumberInv
<1>6. \A j \in Integrations : (Listed(j)' => Listed(j)) /\ (Clean(j)' => Clean(j))
  BY <1>3, <1>4 DEF Listed, Clean
<1>7. i \in Writes(call[t])
  BY <1>1, <1>2, WritesAndTakes DEF UpdateOps, TakeOps, Arg
<1>8. Gains(t)
  <2> SUFFICES ASSUME NEW q \in Phones, NEW j \in Integrations, Holds(q, j)'
               PROVE  Holds(q, j) /\ rows'[j].of = rows[j].of
    BY DEF Gains
  <2>1. CASE j = i
    BY <1>2, <1>3, <1>6, <2>1 DEF Holds, Clean
  <2>2. CASE j # i
    BY <1>3, <1>6, <2>2 DEF Holds
  <2> QED
    BY <2>1, <2>2
<1>9. Spares(t)
  BY <1>3, <1>6, <1>7 DEF Spares
<1>10. IntegrationTables'
  BY <1>2, <1>3, <1>4, <1>6 DEF IntegrationTables, NumberInv
<1>11. FingerprintFollows'
  <2> SUFFICES ASSUME NEW j \in Integrations, Clean(j)', rows'[j].fp # rows'[j].phone
               PROVE  \E u \in Tasks : call'[u].op \in TakeOps /\ call'[u].at = "fp" /\ call'[u].arg.id = j
    BY DEF FingerprintFollows, Arg
  <2>1. j # i
    BY <1>2, <1>3, <1>6 DEF Clean
  <2>2. PICK u \in Tasks : call[u].op \in TakeOps /\ call[u].at = "fp" /\ Arg(u).id = j
    BY <1>3, <1>6, <2>1 DEF NumberInv, FingerprintFollows
  <2> QED
    BY <1>2, <1>5, <2>1, <2>2 DEF Ceases, Only, Arg, TakeOps
<1> QED
  BY <1>4, <1>5, <1>8, <1>9, <1>10, <1>11, EndHolding, StepHolds DEF Ceases, Onwards

-----------------------------------------------------------------------------
LEMMA NumberStarts ==
    ASSUME IntegrationsInit, TasksInit(Budgets)
    PROVE  NumberInv
<1>1. Shaped /\ \A t \in Tasks : call[t].op = "none"
  BY DEF TasksInit, Shaped, NoCall
<1>2. OneWriter /\ \A t \in Tasks : Holding(t)
  BY <1>1, WritesAndTakes
     DEF OneWriter, Holding, Asks, Looks, Keeps, ReadRow, WroteRow, FreeFor, NoneYet, TakeOps, UpdateOps
<1> DEFINE first == CHOOSE i \in Integrations : TRUE
<1>3. first \in Integrations
  BY IntegrationsAssumption
<1>4. PICK have \in {{}, {first}}, a \in Assistants, p \in Phones, n \in 0..(FailLimit - 1) :
        /\ rows = [i \in Integrations |-> IF i \notin have THEN NoRow ELSE
                [is |-> "whole", of |-> a, phone |-> p, fp |-> p, status |-> "connected"]]
        /\ fails = [i \in Integrations |-> IF i \in have THEN n ELSE 0]
        /\ used = have
  BY Zenon DEF IntegrationsInit
<1> HIDE DEF first
<1>5. IntegrationTables
  <2>1. /\ NoRow \in RowSet /\ NoRow.is = "none"
        /\ [is |-> "whole", of |-> a, phone |-> p, fp |-> p, status |-> "connected"] \in RowSet
    BY DEF NoRow, RowSet, RowStatuses
  <2> QED
    BY <1>3, <1>4, <2>1 DEF IntegrationTables, Listed
<1>6. FingerprintFollows /\ NumbersApart
  BY <1>4 DEF FingerprintFollows, NumbersApart, Holds, Clean, Listed, NoRow
<1> QED
  BY <1>1, <1>2, <1>5, <1>6 DEF NumberInv

LEMMA NumberSteps == NumberInv /\ [NumberNext]_<<tasking, inVars>> => NumberInv'
<1> SUFFICES ASSUME NumberInv, [NumberNext]_<<tasking, inVars>> PROVE NumberInv'
  OBVIOUS
<1>1. ASSUME NEW t \in Tasks, IntegrationsStep(t)
      PROVE  NumberInv'
  BY <1>1, OwnerCallsKeep, OutsideCallsKeep, CheckExistingKeeps, CheckPhoneKeeps, EvictKeeps, InsertRowKeeps,
     PlainStepsKeep, ListRowKeeps, UpdateRowKeeps, WriteFpKeeps, FindKeeps, CheckAssistantKeeps,
     CleanOrphanKeeps, KeepEventKeeps, DropInKeeps DEF IntegrationsStep
<1>2. CASE UNCHANGED <<tasking, inVars>>
  BY <1>2 DEF tasking, inVars, inTables, inHistory, NumberInv, Shaped, IntegrationTables, FingerprintFollows,
     NumbersApart, OneWriter, Holding, Asks, Looks, Keeps, ReadRow, WroteRow, FreeFor, NoneYet, Victim,
     Holds, Clean, Listed, Arg, Got
<1> QED
  BY <1>1, <1>2 DEF NumberNext

LEMMA NumberInvGives == NumberInv => NumbersResolve
<1> SUFFICES ASSUME NumberInv PROVE NumbersResolve
  OBVIOUS
<1>1. NumberHasOneOwner
  BY DEF NumberHasOneOwner, NumberInv, NumbersApart, IntegrationTables, Holds, Clean
<1>2. FoundByNumber
  <2> SUFFICES ASSUME NEW i \in Integrations, Clean(i), Written(i), rows[i].fp # rows[i].phone
               PROVE  FALSE
    BY DEF FoundByNumber, Clean
  <2>1. PICK t \in Tasks : call[t].op \in TakeOps /\ call[t].at = "fp" /\ Arg(t).id = i
    BY DEF NumberInv, FingerprintFollows
  <2>2. i \in Writes(call[t])
    BY <2>1, WritesAndTakes DEF TakeOps, Arg
  <2> QED
    BY <2>1, <2>2 DEF Written
<1> QED
  BY <1>1, <1>2 DEF NumbersResolve

\* A number answers for one integration and that one is found by it, however
\* creations, edits, webhooks, probes and deletions interleave, unless two
\* calls took the number or wrote the row at once, or a failed call to the
\* database let one of them through.
THEOREM NumbersResolveAlways == NumberSpec => []NumbersResolve
<1>1. IntegrationsInit /\ TasksInit(Budgets) => NumberInv
  BY NumberStarts
<1> QED
  BY <1>1, NumberSteps, NumberInvGives, PTL DEF NumberSpec

-----------------------------------------------------------------------------
(* What a lookup deletes is an orphan.  Between what it reads and what it   *)
(* deletes other calls write the rows: they never list a row again, nor     *)
(* give it to another assistant.                                            *)

\* An id that was given out, and whose row was written.
Known(i) ==
    i \in used /\ \A u \in Tasks : call[u].op = "create" /\ call[u].at # "fp" => Arg(u).id # i

\* As long as a row that a call has read is listed it is of the same assistant,
\* and what a lookup takes for an orphan is one, or a read has failed.
Owned(t) ==
    /\ call[t].op \in UpdateOps /\ call[t].at \in {"unique", "evict", "write"} =>
        Known(Got(t)[1]) /\ (Listed(Got(t)[1]) => Got(t)[2].of = rows[Got(t)[1]].of)
    /\ call[t].op = "webhook" /\ call[t].at \in {"find", "check"} =>
        /\ \A r \in Got(t).left : Known(r.id) /\ (Listed(r.id) => r.of = rows[r.id].of)
        /\ \A i \in Got(t).orphans : Known(i) /\ (Listed(i) => ~ Exists(rows[i].of) \/ misread)

AssistantTables ==
    /\ assistants \in [Assistants -> {"none", "whole", "bare"}]
    /\ \A i \in Integrations : Listed(i) => rows[i].of \in Assistants

OrphanInv == NumberInv /\ AssistantTables /\ \A t \in Tasks : Owned(t)

\* What a step does to what the invariant is about.
Stays ==
    /\ AssistantTables' /\ \A a \in Assistants : Exists(a)' => Exists(a)
    /\ misread => misread'
    /\ \A i \in Integrations : Known(i) =>
        /\ Known(i)'
        /\ Listed(i)' => Listed(i) /\ rows'[i].of = rows[i].of

\* What a call refers to is an integration.
LEMMA RefersTo ==
    ASSUME NumberInv, NEW i, Known(i)
    PROVE  i \in Integrations
  BY DEF NumberInv, IntegrationTables, Known

LEMMA ListedKnown ==
    ASSUME NumberInv, NEW i \in Integrations, Listed(i)
    PROVE  Known(i)
  BY DEF NumberInv, IntegrationTables, Known, Holding, Asks

\* What a webhook has read still holds after any step.
LEMMA StillOwned ==
    ASSUME OrphanInv, Stays, NEW t \in Tasks, call[t].op = "webhook", call[t].at \in {"find", "check"}
    PROVE  /\ \A r \in Got(t).left : Known(r.id)' /\ (Listed(r.id)' => r.of = rows'[r.id].of)
           /\ \A i \in Got(t).orphans : Known(i)' /\ (Listed(i)' => ~ Exists(rows[i].of)' \/ misread')
<1>1. Owned(t)
  BY DEF OrphanInv
<1>2. ASSUME NEW i, Known(i)
      PROVE  Known(i)' /\ (Listed(i)' => Listed(i) /\ rows'[i].of = rows[i].of)
  BY <1>2, RefersTo DEF OrphanInv, Stays
<1>3. ASSUME NEW i, Known(i), Listed(i) => ~ Exists(rows[i].of) \/ misread, Listed(i)'
      PROVE  ~ Exists(rows[i].of)' \/ misread'
  <2>1. i \in Integrations /\ Listed(i) /\ rows'[i].of = rows[i].of
    BY <1>2, <1>3, RefersTo DEF OrphanInv
  <2>2. rows[i].of \in Assistants
    BY <2>1 DEF OrphanInv, AssistantTables
  <2>3. Exists(rows[i].of)' => Exists(rows[i].of)
    BY <2>1, <2>2 DEF Stays, Exists
  <2> QED
    BY <1>3, <2>1, <2>3 DEF Stays
<1>4. ASSUME NEW r \in Got(t).left, NEW j, j = r.id
      PROVE  Known(j)' /\ (Listed(j)' => r.of = rows'[j].of)
  BY <1>1, <1>2, <1>4 DEF Owned
<1>5. ASSUME NEW i \in Got(t).orphans
      PROVE  Known(i)' /\ (Listed(i)' => ~ Exists(rows[i].of)' \/ misread')
  BY <1>1, <1>2, <1>3, <1>5 DEF Owned
<1> QED
  BY <1>4, <1>5 DEF Known, Listed, Arg

LEMMA OthersOwned ==
    ASSUME OrphanInv, Stays, NEW u \in Tasks, call'[u] = call[u]
    PROVE  Owned(u)'
<1>1. Owned(u) /\ Got(u)' = Got(u)
  BY DEF OrphanInv, Got
<1>2. ASSUME call[u].op \in UpdateOps, call[u].at \in {"unique", "evict", "write"},
             NEW i, i = Got(u)[1]
      PROVE  Known(i)' /\ (Listed(i)' => Got(u)[2].of = rows'[i].of)
  <2>1. Known(i) /\ i \in Integrations /\ (Listed(i) => Got(u)[2].of = rows[i].of)
    BY <1>1, <1>2, RefersTo DEF Owned, OrphanInv
  <2> QED
    BY <2>1 DEF Stays
<1> QED
  BY <1>1, <1>2, StillOwned DEF Owned, Known, Listed, Exists, Arg

-----------------------------------------------------------------------------
(* What each step does to the tables. *)

\* A step that goes on or ends makes no id unknown.
LEMMA KnownStays ==
    ASSUME NEW t \in Tasks, Onwards(t), used \subseteq used',
           call[t].at = "fp" => call'[t].op = "none" \/ call'[t].at = "fp",
           NEW i, Known(i)
    PROVE  Known(i)'
<1> SUFFICES ASSUME NEW u \in Tasks, call'[u].op = "create", call'[u].at # "fp"
             PROVE  call'[u].arg.id # i
  BY DEF Known, Arg
<1>1. CASE u = t
  BY <1>1 DEF Onwards, Known, Arg
<1>2. CASE u # t
  BY <1>2 DEF Onwards, Only, Known, Arg
<1> QED
  BY <1>1, <1>2

LEMMA QuietStays ==
    ASSUME OrphanInv, NEW t \in Tasks, Quiet, Onwards(t), used \subseteq used', misread => misread',
           assistants' = assistants,
           call[t].at = "fp" => call'[t].op = "none" \/ call'[t].at = "fp"
    PROVE  Stays
<1>1. \A i : Known(i) => Known(i)'
  BY KnownStays
<1>2. AssistantTables' /\ \A a \in Assistants : Exists(a)' => Exists(a)
  BY DEF OrphanInv, AssistantTables, Quiet, Listed, Exists
<1> QED
  BY <1>1, <1>2 DEF Stays, Quiet, Listed

LEMMA BeginStays ==
    ASSUME OrphanInv, NEW t \in Tasks, NEW op, NEW at, NEW arg, NEW got, BeginIn(t, op, at, arg, got),
           op = "create" => arg.id \notin used
    PROVE  Stays /\ Only(t) /\ call'[t] = [op |-> op, at |-> at, arg |-> arg, got |-> got]
<1>1. /\ call' = [call EXCEPT ![t] = [op |-> op, at |-> at, arg |-> arg, got |-> got]]
      /\ rows' = rows /\ assistants' = assistants /\ misread' = misread /\ used \subseteq used'
  BY DEF BeginIn, BeginWith, inTables
<1>2. Only(t) /\ call'[t] = [op |-> op, at |-> at, arg |-> arg, got |-> got]
  BY <1>1 DEF OrphanInv, NumberInv, Shaped, Only
<1>3. ASSUME NEW i, Known(i)
      PROVE  Known(i)'
  <2> SUFFICES ASSUME NEW u \in Tasks, call'[u].op = "create", call'[u].at # "fp"
               PROVE  call'[u].arg.id # i
    BY <1>1, <1>3 DEF Known, Arg
  <2> QED
    BY <1>2, <1>3 DEF Known, Only, Arg
<1> QED
  BY <1>1, <1>2, <1>3 DEF Stays, OrphanInv, AssistantTables, Listed, Exists

LEMMA MovesOnwards ==
    ASSUME Shaped, NEW t \in Tasks,
           \/ Finish(t) \/ Drop(t)
           \/ \E at, got : Goto(t, at) \/ Learn(t, at, got) \/ Shrug(t, at, got)
    PROVE  Onwards(t)
<1>1. Ceases(t) \/ \E at, got : Continues(t, at, got)
  BY GotoGoes, LearnGoes, ShrugGoes, LeavesEnds
<1> QED
  BY <1>1, GoesOnwards DEF Ceases, Onwards

LEMMA AfterLookupMoves ==
    ASSUME NEW t \in Tasks, NEW valid, AfterLookup(t, valid)
    PROVE  Finish(t) \/ \E got : Learn(t, "event", got) \/ Learn(t, "list", got)
  BY DEF AfterLookup

\* The steps that only look.
LEMMA LooksStay ==
    ASSUME OrphanInv, NEW t \in Tasks,
           \/ CheckExisting(t) \/ CheckPhone(t) \/ GetRow(t) \/ PostConnect(t) \/ Unlink(t) \/ ListRow(t)
           \/ Find(t) \/ CheckAssistant(t) \/ KeepEvent(t) \/ Scan(t) \/ Probe(t) \/ GetAssistant(t)
    PROVE  Stays /\ Onwards(t)
<1>1. NumberInv /\ Shaped
  BY DEF OrphanInv, NumberInv
<1>2. Quiet
  <2>1. rows' = rows
    BY DEF CheckExisting, CheckPhone, GetRow, PostConnect, Unlink, ListRow, Find, CheckAssistant, KeepEvent,
           Scan, Probe, GetAssistant, inVars, inTables
  <2> QED
    BY <1>1, <2>1, RowsSpared
<1>3. used' = used /\ assistants' = assistants
  BY DEF CheckExisting, CheckPhone, GetRow, PostConnect, Unlink, ListRow, Find, CheckAssistant, KeepEvent,
         Scan, Probe, GetAssistant, inVars, inTables, inHistory
<1>7. misread => misread'
  <2>1. CASE CheckAssistant(t)
    BY <2>1, Zenon DEF CheckAssistant
  <2>2. CASE ~ CheckAssistant(t)
    BY <2>2 DEF CheckExisting, CheckPhone, GetRow, PostConnect, Unlink, ListRow, Find, KeepEvent,
                Scan, Probe, GetAssistant, inVars, inTables, inHistory
  <2> QED
    BY <2>1, <2>2
<1>4. call[t].at # "fp"
  BY DEF CheckExisting, CheckPhone, GetRow, PostConnect, Unlink, ListRow, Find, CheckAssistant, KeepEvent,
         Scan, Probe, GetAssistant, On
<1>5. \/ Finish(t)
      \/ \E at, got : Goto(t, at) \/ Learn(t, at, got) \/ Shrug(t, at, got)
  <2>1. CASE CheckExisting(t) \/ CheckPhone(t)
    BY <2>1 DEF CheckExisting, CheckPhone
  <2>2. CASE GetRow(t) \/ PostConnect(t) \/ Unlink(t) \/ GetAssistant(t)
    BY <2>2 DEF GetRow, PostConnect, Unlink, GetAssistant
  <2>3. CASE ListRow(t)
    BY <2>3 DEF ListRow
  <2>4. CASE Find(t)
    BY <2>4, AfterLookupMoves DEF Find
  <2>5. CASE CheckAssistant(t)
    BY <2>5 DEF CheckAssistant
  <2>6. CASE KeepEvent(t) \/ Scan(t) \/ Probe(t)
    BY <2>6 DEF KeepEvent, Scan, Probe
  <2> QED
    BY <2>1, <2>2, <2>3, <2>4, <2>5, <2>6
<1>6. Onwards(t)
  BY <1>1, <1>5, MovesOnwards
<1> QED
  BY <1>2, <1>3, <1>4, <1>6, <1>7, QuietStays

\* The steps that delete rows, or change their status.
LEMMA DeletionsStay ==
    ASSUME OrphanInv, NEW t \in Tasks,
           Evict(t) \/ DeleteRow(t) \/ CleanOrphan(t) \/ MarkDown(t) \/ DeleteRows(t) \/ DropIn(t)
    PROVE  Stays /\ Onwards(t)
<1>1. NumberInv /\ Shaped /\ rows \in [Integrations -> RowSet]
  BY DEF OrphanInv, NumberInv, IntegrationTables
<1>2. Quiet
  <2>1. ASSUME NEW i, rows' = [rows EXCEPT ![i] = NoRow]
        PROVE  Quiet
    <3>1. rows' = [k \in Integrations |-> IF k \in {i} THEN NoRow ELSE rows[k]]
      BY <1>1, <2>1
    <3> QED
      BY <1>1, <3>1, RowsSpared
  <2>2. CASE rows' = rows
    BY <1>1, <2>2, RowsSpared
  <2>3. CASE DeleteRows(t)
    <3>1. rows' = [i \in Integrations |->
              IF i \in {j \in Integrations : rows[j].of = Arg(t).of} THEN NoRow ELSE rows[i]]
      BY <2>3 DEF DeleteRows
    <3> QED
      BY <1>1, <3>1, RowsSpared
  <2>4. CASE Evict(t) \/ DeleteRow(t) \/ CleanOrphan(t) \/ DropIn(t)
    BY <2>1, <2>2, <2>4 DEF Evict, DeleteRow, CleanOrphan, DropIn, inTables
  <2> QED
    BY <1>1, <2>3, <2>4, MarkDownSpares
<1>3. used' = used /\ assistants' = assistants /\ misread' = misread
  BY DEF Evict, DeleteRow, CleanOrphan, MarkDown, DeleteRows, DropIn, inTables, inHistory
<1>4. \/ Finish(t) \/ Drop(t)
      \/ call[t].at # "fp" /\ \E at, got : Goto(t, at) \/ Learn(t, at, got) \/ Shrug(t, at, got)
  <2>1. CASE CleanOrphan(t)
    BY <2>1, AfterLookupMoves DEF CleanOrphan, On
  <2>2. CASE Evict(t) \/ DeleteRow(t) \/ MarkDown(t) \/ DeleteRows(t) \/ DropIn(t)
    BY <2>2 DEF Evict, DeleteRow, MarkDown, DeleteRows, DropIn, On
  <2> QED
    BY <2>1, <2>2
<1>5. Onwards(t) /\ (call[t].at = "fp" => call'[t].op = "none")
  BY <1>1, <1>4, MovesOnwards, LeavesEnds DEF Ceases
<1> QED
  BY <1>2, <1>3, <1>5, QuietStays

\* The steps that write rows, and an assistant.  An UPDATE writes the assistant
\* that it has read back.
LEMMA WritesStay ==
    ASSUME OrphanInv, NEW t \in Tasks, InsertRow(t) \/ UpdateRow(t) \/ WriteFp(t) \/ WriteAssistant(t)
    PROVE  Stays /\ Onwards(t)
<1>1. NumberInv /\ Shaped /\ rows \in [Integrations -> RowSet]
  BY DEF OrphanInv, NumberInv, IntegrationTables
<1>2. used' = used /\ misread' = misread
  BY DEF InsertRow, UpdateRow, WriteFp, WriteAssistant, inHistory
<1>3. \/ Finish(t)
      \/ call[t].at # "fp" /\ \E at, got : Learn(t, at, got)
  BY DEF InsertRow, UpdateRow, WriteFp, WriteAssistant, On
<1>4. Onwards(t) /\ (call[t].at = "fp" => call'[t].op = "none")
  BY <1>1, <1>3, MovesOnwards, LeavesEnds DEF Ceases
<1>5. \A i : Known(i) => Known(i)'
  BY <1>2, <1>4, KnownStays
<1>6. CASE InsertRow(t)
  <2> SUFFICES ASSUME NEW i, i = Arg(t).id, NEW a, a = Arg(t).of PROVE Stays
    BY <1>4
  <2>1. i \in Integrations /\ a \in Assistants /\ ~ Known(i)
    BY <1>6 DEF InsertRow, On, OrphanInv, NumberInv, Holding, Asks, TakeOps, Known
  <2>2. /\ assistants' = assistants /\ \A j \in Integrations \ {i} : rows'[j] = rows[j]
        /\ rows'[i].of = a
    BY <1>1, <1>6, <2>1 DEF InsertRow
  <2> QED
    BY <1>2, <1>5, <2>1, <2>2 DEF Stays, OrphanInv, AssistantTables, Listed, Exists
<1>7. CASE UpdateRow(t)
  <2> SUFFICES ASSUME NEW i, i = Got(t)[1], NEW new, new = Got(t)[2] PROVE Stays
    BY <1>4
  <2>1. call[t].op \in UpdateOps /\ call[t].at = "write"
    BY <1>7 DEF UpdateRow, On, UpdateOps
  <2>2. i \in Integrations /\ new \in RowSet /\ (Listed(i) => new.of = rows[i].of)
    BY <2>1 DEF OrphanInv, Owned, NumberInv, Holding, ReadRow
  <2>3. /\ assistants' = assistants /\ \A j \in Integrations \ {i} : rows'[j] = rows[j]
        /\ Listed(i)' => Listed(i) /\ rows'[i].of = new.of
    BY <1>1, <1>7, <2>2 DEF UpdateRow, RowSet, Listed
  <2>4. \A j \in Integrations : Listed(j)' => Listed(j) /\ rows'[j].of = rows[j].of
    BY <2>2, <2>3 DEF Listed
  <2> QED
    BY <1>2, <1>5, <2>3, <2>4 DEF Stays, OrphanInv, AssistantTables, Exists
<1>8. CASE WriteFp(t)
  <2> SUFFICES ASSUME NEW i, i = IF call[t].op = "create" THEN Arg(t).id ELSE Got(t)[2], NEW p, p = Got(t)[1]
               PROVE  Stays
    BY <1>4
  <2>1. i \in Integrations /\ p \in Phones
    BY <1>8 DEF WriteFp, On, OrphanInv, NumberInv, Holding, WroteRow, Asks, TakeOps, UpdateOps
  <2>2. rows' = [rows EXCEPT ![i] = IF @.is = "none" THEN [NoRow EXCEPT !.is = "bare", !.fp = p]
                                                        ELSE [@ EXCEPT !.fp = p]]
    BY <1>8 DEF WriteFp
  <2>3. [NoRow EXCEPT !.is = "bare", !.fp = p].is = "bare"
    BY DEF NoRow
  <2>4. assistants' = assistants
    BY <1>8 DEF WriteFp
  <2>5. \A j \in Integrations : Listed(j)' => Listed(j) /\ rows'[j].of = rows[j].of
    BY <1>1, <2>1, <2>2, <2>3 DEF Listed, RowSet
  <2> QED
    BY <1>2, <1>5, <2>4, <2>5 DEF Stays, OrphanInv, AssistantTables, Exists
<1>9. CASE WriteAssistant(t)
  <2>1. rows' = rows
    BY <1>9 DEF WriteAssistant
  <2>2. /\ assistants' \in [Assistants -> {"none", "whole", "bare"}]
        /\ \A a \in Assistants : Exists(a)' => Exists(a)
    BY <1>9 DEF WriteAssistant, OrphanInv, AssistantTables, Exists
  <2> QED
    BY <1>2, <1>4, <1>5, <2>1, <2>2 DEF Stays, OrphanInv, AssistantTables, Listed
<1> QED
  BY <1>4, <1>6, <1>7, <1>8, <1>9

-----------------------------------------------------------------------------
(* What a call has read. *)

LEMMA BegunOwned ==
    ASSUME OrphanInv, NEW t \in Tasks, OwnerCalls(t) \/ OutsideCalls(t)
    PROVE  Stays /\ Only(t) /\ Owned(t)'
<1>1. ASSUME NEW op, NEW at, NEW arg, NEW got, BeginIn(t, op, at, arg, got),
             op = "create" => arg.id \notin used,
             at \in {"exists", "list", "get", "row", "scan"} \/ (at = "find" /\ got = Lookup(1))
      PROVE  Stays /\ Only(t) /\ Owned(t)'
  <2>1. Stays /\ Only(t) /\ call'[t] = [op |-> op, at |-> at, arg |-> arg, got |-> got]
    BY <1>1, BeginStays
  <2>2. Lookup(1).left = {} /\ Lookup(1).orphans = {}
    BY DEF Lookup
  <2>3. Owned(t)'
    BY <1>1, <2>1, <2>2 DEF Owned, Got
  <2> QED
    BY <2>1, <2>3
<1>2. \A i \in Fresh : i \notin used
  <2> SUFFICES ASSUME NEW i \in Fresh PROVE i \notin used
    OBVIOUS
  <2>1. used # Integrations /\ i = CHOOSE x \in Integrations : x \notin used
    BY DEF Fresh
  <2>2. \E x \in Integrations : x \notin used
    BY <2>1 DEF OrphanInv, NumberInv, IntegrationTables
  <2> QED
    BY <2>1, <2>2, Zenon
<1>3. CASE OwnerCalls(t)
  BY <1>1, <1>2, <1>3 DEF OwnerCalls
<1>4. CASE OutsideCalls(t)
  BY <1>1, <1>4 DEF OutsideCalls
<1> QED
  BY <1>3, <1>4

LEMMA EndOwned ==
    ASSUME Shaped, NEW t \in Tasks, Finish(t) \/ Drop(t)
    PROVE  Owned(t)'
  BY LeavesEnds DEF Ceases, Owned, UpdateOps

\* A call stands where nothing is said of what it has read.
LEMMA PlainOwned ==
    ASSUME OrphanInv, NEW t \in Tasks,
           \/ CheckExisting(t) \/ InsertRow(t) \/ GetRow(t) \/ PostConnect(t) \/ Unlink(t) \/ DeleteRow(t)
           \/ UpdateRow(t) \/ WriteFp(t) \/ KeepEvent(t) \/ Scan(t) \/ Probe(t) \/ MarkDown(t)
           \/ GetAssistant(t) \/ DeleteRows(t) \/ WriteAssistant(t) \/ DropIn(t)
    PROVE  Owned(t)'
<1>1. Shaped
  BY DEF OrphanInv, NumberInv
<1>2. ASSUME NEW at, NEW got, Continues(t, at, got),
             \/ call[t].op \notin UpdateOps
             \/ at \in {"post", "list", "fp", "event"}
             \/ call[t].op = "webhook" /\ at = "find" /\ got = Lookup(2)
      PROVE  Owned(t)'
  <2>1. Lookup(2).left = {} /\ Lookup(2).orphans = {}
    BY DEF Lookup
  <2>2. call'[t].op = call[t].op /\ call'[t].at = at /\ Got(t)' = got
    BY <1>2 DEF Continues, Got
  <2> QED
    BY <1>2, <2>1, <2>2 DEF Owned, UpdateOps
<1>3. \/ Finish(t) \/ Drop(t)
      \/ /\ call[t].op \notin UpdateOps \/ call[t].op = "webhook" \/ call[t].at \in {"get", "post", "write"}
         /\ \E at, got :
              /\ Goto(t, at) \/ Learn(t, at, got)
              /\ \/ call[t].op \notin UpdateOps
                 \/ at \in {"post", "list", "fp"}
                 \/ call[t].op = "webhook" /\ at = "find" /\ got = Lookup(2) /\ Learn(t, at, got)
  <2>1. CASE CheckExisting(t) \/ InsertRow(t) \/ Unlink(t) \/ DeleteRow(t)
    BY <2>1 DEF CheckExisting, InsertRow, Unlink, DeleteRow, On, UpdateOps
  <2>2. CASE GetRow(t) \/ PostConnect(t) \/ UpdateRow(t)
    BY <2>2 DEF GetRow, PostConnect, UpdateRow, On, UpdateOps
  <2>3. CASE WriteFp(t) \/ KeepEvent(t) \/ DropIn(t)
    BY <2>3 DEF WriteFp, KeepEvent, DropIn, On, UpdateOps
  <2>4. CASE Scan(t) \/ Probe(t) \/ MarkDown(t)
    BY <2>4 DEF Scan, Probe, MarkDown, On, UpdateOps
  <2>5. CASE GetAssistant(t) \/ DeleteRows(t) \/ WriteAssistant(t)
    BY <2>5 DEF GetAssistant, DeleteRows, WriteAssistant, On, UpdateOps
  <2> QED
    BY <2>1, <2>2, <2>3, <2>4, <2>5
<1>4. CASE Finish(t) \/ Drop(t)
  BY <1>1, <1>4, EndOwned
<1>5. ASSUME NEW at, NEW got, Goto(t, at) \/ Learn(t, at, got),
             \/ call[t].op \notin UpdateOps
             \/ at \in {"post", "list", "fp"}
             \/ call[t].op = "webhook" /\ at = "find" /\ got = Lookup(2) /\ Learn(t, at, got)
      PROVE  Owned(t)'
  <2>1. CASE Learn(t, at, got)
    BY <1>1, <1>2, <1>5, <2>1, LearnGoes
  <2>2. CASE Goto(t, at) /\ ~ Learn(t, at, got)
    BY <1>1, <1>2, <1>5, <2>2, GotoGoes
  <2> QED
    BY <1>5, <2>1, <2>2
<1> QED
  BY <1>3, <1>4, <1>5

\* update_integration lists the row it will write.
LEMMA ListRowOwned ==
    ASSUME OrphanInv, NEW t \in Tasks, ListRow(t)
    PROVE  Owned(t)'
<1> SUFFICES ASSUME NEW w, w = Wish(t), NEW r, r = rows[w.id],
                    NEW new, new = [r EXCEPT !.phone = IF w.phone = "same" THEN @ ELSE w.phone,
                                             !.status = IF w.status = "same" THEN @ ELSE w.status],
                    NEW at, at = IF w.phone \notin {"same", r.phone} THEN "unique" ELSE "write"
             PROVE  Owned(t)'
  OBVIOUS
<1>1. call[t].op \in UpdateOps /\ call[t].at = "list" /\ NumberInv /\ Shaped
  BY DEF ListRow, On, UpdateOps, OrphanInv, NumberInv
<1>2. w.id \in Integrations
  BY <1>1, Wishes
<1>3. CASE Finish(t)
  BY <1>1, <1>3, EndOwned
<1>4. CASE Listed(w.id) /\ Learn(t, at, <<w.id, new>>)
  <2>1. Continues(t, at, <<w.id, new>>)
    BY <1>1, <1>4, LearnGoes
  <2>2. r \in RowSet
    BY <1>1, <1>2 DEF NumberInv, IntegrationTables
  <2>3. new.of = r.of
    BY <2>2 DEF RowSet
  <2>4. Known(w.id)' /\ rows' = rows
    <3>1. Known(w.id) /\ Stays
      BY <1>1, <1>2, <1>4, ListedKnown, LooksStay
    <3> QED
      BY <1>2, <3>1 DEF Stays, ListRow, inVars, inTables
  <2>5. call'[t].op = call[t].op /\ call'[t].at = at /\ Got(t)'[1] = w.id /\ Got(t)'[2] = new
    BY <2>1 DEF Continues, Got
  <2>6. at \in {"unique", "write"}
    OBVIOUS
  <2>7. \A i : Listed(i)' = Listed(i)
    BY <2>4 DEF Listed
  <2> QED
    BY <2>3, <2>4, <2>5, <2>6, <2>7 DEF Owned
<1> QED
  BY <1>3, <1>4 DEF ListRow

\* While it makes sure of the number it keeps the row it has read.
LEMMA TakingOwned ==
    ASSUME OrphanInv, NEW t \in Tasks, CheckPhone(t) \/ Evict(t)
    PROVE  Owned(t)'
<1> SUFFICES ASSUME NEW got, got = Got(t) PROVE Owned(t)'
  OBVIOUS
<1>1. call[t].op \in TakeOps /\ call[t].at \in {"unique", "evict"} /\ NumberInv /\ Shaped
  BY DEF CheckPhone, Evict, On, TakeOps, OrphanInv, NumberInv
<1>2. Stays
  BY LooksStay, DeletionsStay
<1>3. ASSUME NEW at, NEW more, Continues(t, at, more), more[1] = got[1], more[2] = got[2], call[t].op = "update"
      PROVE  Owned(t)'
  <2> SUFFICES ASSUME NEW i, i = got[1]
               PROVE  Known(i)' /\ (Listed(i)' => got[2].of = rows'[i].of)
    BY <1>3 DEF Owned, Continues, Got, Known, Listed, UpdateOps
  <2>1. Known(i) /\ (Listed(i) => got[2].of = rows[i].of)
    BY <1>1, <1>3 DEF OrphanInv, Owned, UpdateOps
  <2>2. i \in Integrations
    BY <1>1, <2>1, RefersTo
  <2> QED
    BY <1>2, <2>1, <2>2 DEF Stays
<1>4. CASE call[t].op = "create"
  <2>1. Onwards(t)
    BY LooksStay, DeletionsStay
  <2> QED
    BY <1>4, <2>1 DEF Onwards, Owned, UpdateOps
<1>5. CASE call[t].op = "update" /\ (Goto(t, Taking(t)) \/ Shrug(t, Taking(t), got))
  <2>1. \E at : Continues(t, at, got)
    BY <1>1, <1>5, GotoGoes, ShrugGoes
  <2> QED
    BY <1>3, <1>5, <2>1
<1>6. ASSUME NEW i, call[t].op = "update", call[t].at = "unique", Learn(t, "evict", got \o <<i>>)
      PROVE  Owned(t)'
  <2> DEFINE more == got \o <<i>>
  <2>1. got = <<got[1], got[2]>>
    BY <1>1, <1>6 DEF NumberInv, Holding, Keeps
  <2>2. <<got[1], got[2]>> \o <<i>> = <<got[1], got[2], i>>
    BY Longer
  <2>3. more = <<got[1], got[2], i>>
    BY <2>1, <2>2
  <2>4. Continues(t, "evict", more)
    BY <1>1, <1>6, LearnGoes
  <2> HIDE DEF more
  <2> QED
    BY <1>3, <1>6, <2>3, <2>4
<1>7. CASE Finish(t)
  BY <1>1, <1>7, EndOwned
<1>8. CASE CheckPhone(t)
  <2>1. \/ Finish(t) \/ Goto(t, Taking(t)) \/ Shrug(t, Taking(t), got)
        \/ call[t].at = "unique" /\ \E i : Learn(t, "evict", got \o <<i>>)
    BY <1>8 DEF CheckPhone, On
  <2> QED
    BY <1>1, <1>4, <1>5, <1>6, <1>7, <2>1 DEF TakeOps
<1>9. CASE Evict(t)
  BY <1>1, <1>4, <1>5, <1>9 DEF Evict, TakeOps
<1> QED
  BY <1>8, <1>9

\* After its lookup a webhook no longer needs what is left of it.
LEMMA AfterLookupOwned ==
    ASSUME Shaped, NEW t \in Tasks, NEW valid, AfterLookup(t, valid)
    PROVE  Owned(t)'
<1>1. CASE Finish(t)
  BY <1>1, EndOwned
<1>2. ASSUME NEW got, NEW at \in {"event", "list"}, Learn(t, at, got)
      PROVE  Owned(t)'
  BY <1>2, LearnGoes DEF Continues, Owned
<1> QED
  BY <1>1, <1>2, AfterLookupMoves

\* The webhook goes on with what is left, and with its orphans.
LEMMA LookupOwned ==
    ASSUME Shaped, NEW t \in Tasks, call[t].op = "webhook", NEW got,
           Learn(t, "check", got) \/ Shrug(t, "check", got),
           \A r \in got.left : Known(r.id)' /\ (Listed(r.id)' => r.of = rows'[r.id].of),
           \A i \in got.orphans : Known(i)' /\ (Listed(i)' => ~ Exists(rows[i].of)' \/ misread')
    PROVE  Owned(t)'
<1>1. Continues(t, "check", got)
  BY LearnGoes, ShrugGoes
<1>2. call'[t].op = "webhook" /\ call'[t].at = "check" /\ Got(t)' = got
  BY <1>1 DEF Continues, Got
<1> QED
  BY <1>2 DEF Owned, UpdateOps, Known, Listed, Exists, Arg

LEMMA FindOwned ==
    ASSUME OrphanInv, NEW t \in Tasks, Find(t)
    PROVE  Owned(t)'
<1> SUFFICES ASSUME NEW found, found = Indexed(Arg(t).phone),
                    NEW hits, hits = {[id |-> i, of |-> rows[i].of, status |-> rows[i].status] :
                                        i \in {j \in found : rows[j].status # "disconnected"}}
             PROVE  Owned(t)'
  OBVIOUS
<1>1. /\ call[t].op = "webhook" /\ call[t].at = "find" /\ Stays /\ NumberInv /\ Shaped
      /\ rows' = rows /\ found \subseteq Integrations
  BY LooksStay DEF Find, On, OrphanInv, NumberInv, inVars, inTables, Indexed
<1>2. CASE AfterLookup(t, {})
  BY <1>1, <1>2, AfterLookupOwned
<1>3. CASE (\A i \in found : Listed(i)) /\ Learn(t, "check", [Got(t) EXCEPT !.left = hits])
  <2> DEFINE got == [Got(t) EXCEPT !.left = hits]
  <2>1. Got(t) \in Lookups
    BY <1>1 DEF NumberInv, Holding, Looks
  <2>2. got.left = hits /\ got.orphans = Got(t).orphans
    BY <2>1 DEF Lookups
  <2> HIDE DEF got
  <2>3. ASSUME NEW r \in hits
        PROVE  Known(r.id)' /\ (Listed(r.id)' => r.of = rows'[r.id].of)
    <3>1. r.id \in found /\ r.of = rows[r.id].of
      BY <2>3
    <3>2. Known(r.id)
      BY <1>1, <1>3, <3>1, ListedKnown
    <3> QED
      BY <1>1, <3>1, <3>2 DEF Stays
  <2>4. \A i \in got.orphans : Known(i)' /\ (Listed(i)' => ~ Exists(rows[i].of)' \/ misread')
    BY <1>1, <2>2, StillOwned
  <2>5. Learn(t, "check", got)
    BY <1>3 DEF got
  <2> QED
    BY <1>1, <2>2, <2>3, <2>4, <2>5, LookupOwned
<1> QED
  BY <1>2, <1>3 DEF Find

LEMMA CheckAssistantOwned ==
    ASSUME OrphanInv, NEW t \in Tasks, CheckAssistant(t)
    PROVE  Owned(t)'
<1>1. /\ call[t].op = "webhook" /\ call[t].at = "check" /\ Stays /\ NumberInv /\ Shaped
      /\ Got(t) \in Lookups /\ rows' = rows /\ assistants' = assistants
  <2>1. call[t].op = "webhook" /\ call[t].at = "check"
    BY DEF CheckAssistant, On
  <2>2. Stays /\ NumberInv /\ Shaped
    BY LooksStay DEF OrphanInv, NumberInv
  <2> QED
    BY <2>1, <2>2 DEF CheckAssistant, NumberInv, Holding, Looks, inTables
<1>2. PICK r \in Got(t).left :
        LET g == [Got(t) EXCEPT !.left = @ \ {r}] IN
        \/ Learn(t, "check", [g EXCEPT !.valid = IF @ = {} THEN {r} ELSE @])
        \/ ~ Exists(r.of) /\ Learn(t, "check", [g EXCEPT !.orphans = @ \cup {r.id}])
        \/ Shrug(t, "check", [g EXCEPT !.orphans = @ \cup {r.id}]) /\ misread'
  BY DEF CheckAssistant
<1> DEFINE g     == [Got(t) EXCEPT !.left = @ \ {r}]
           right == [g EXCEPT !.valid = IF @ = {} THEN {r} ELSE @]
           wrong == [g EXCEPT !.orphans = @ \cup {r.id}]
<1>3. /\ right.left = Got(t).left \ {r} /\ right.orphans = Got(t).orphans
      /\ wrong.left = Got(t).left \ {r} /\ wrong.orphans = Got(t).orphans \cup {r.id}
  BY <1>1 DEF Lookups
<1>4. \/ Learn(t, "check", right)
      \/ ~ Exists(r.of) /\ Learn(t, "check", wrong)
      \/ Shrug(t, "check", wrong) /\ misread'
  BY <1>2
<1> HIDE DEF right, wrong
<1>5. /\ \A q \in Got(t).left : Known(q.id)' /\ (Listed(q.id)' => q.of = rows'[q.id].of)
      /\ \A i \in Got(t).orphans : Known(i)' /\ (Listed(i)' => ~ Exists(rows[i].of)' \/ misread')
  BY <1>1, StillOwned
<1>6. CASE Learn(t, "check", right)
  BY <1>1, <1>3, <1>5, <1>6, LookupOwned
<1>7. ASSUME ~ Exists(r.of) \/ misread', Learn(t, "check", wrong) \/ Shrug(t, "check", wrong)
      PROVE  Owned(t)'
  <2>1. Known(r.id)' /\ (Listed(r.id)' => ~ Exists(rows[r.id].of)' \/ misread')
    BY <1>1, <1>5, <1>7 DEF Exists
  <2> QED
    BY <1>1, <1>3, <1>5, <1>7, <2>1, LookupOwned
<1> QED
  BY <1>4, <1>6, <1>7

LEMMA CleanOrphanOwned ==
    ASSUME OrphanInv, NEW t \in Tasks, CleanOrphan(t)
    PROVE  Owned(t)'
<1>1. call[t].op = "webhook" /\ call[t].at = "check" /\ Stays /\ NumberInv /\ Shaped /\ Got(t) \in Lookups
  <2>1. call[t].op = "webhook" /\ call[t].at = "check"
    BY DEF CleanOrphan, On
  <2>2. Stays /\ NumberInv /\ Shaped
    BY DeletionsStay DEF OrphanInv, NumberInv
  <2> QED
    BY <2>1, <2>2 DEF NumberInv, Holding, Looks
<1>2. ASSUME NEW i, NEW rest, rest = [Got(t) EXCEPT !.orphans = @ \ {i}],
             Learn(t, "check", rest) \/ Shrug(t, "check", rest)
      PROVE  Owned(t)'
  <2>1. rest.left = Got(t).left /\ rest.orphans \subseteq Got(t).orphans
    BY <1>1, <1>2 DEF Lookups
  <2>2. /\ \A q \in Got(t).left : Known(q.id)' /\ (Listed(q.id)' => q.of = rows'[q.id].of)
        /\ \A j \in Got(t).orphans : Known(j)' /\ (Listed(j)' => ~ Exists(rows[j].of)' \/ misread')
    BY <1>1, StillOwned
  <2> QED
    BY <1>1, <1>2, <2>1, <2>2, LookupOwned
<1>3. CASE AfterLookup(t, Got(t).valid)
  BY <1>1, <1>3, AfterLookupOwned
<1> QED
  BY <1>2, <1>3 DEF CleanOrphan

-----------------------------------------------------------------------------
LEMMA OrphanStarts ==
    ASSUME IntegrationsInit, TasksInit(Budgets)
    PROVE  OrphanInv
<1>1. NumberInv
  BY NumberStarts
<1>2. \A t \in Tasks : Owned(t)
  BY DEF TasksInit, NoCall, Owned, UpdateOps
<1>3. AssistantTables
  <2>1. assistants \in [Assistants -> {"none", "whole", "bare"}]
    BY DEF IntegrationsInit
  <2>2. PICK have \in {{}, {CHOOSE i \in Integrations : TRUE}}, a \in Assistants, p \in Phones, n \in 0..(FailLimit - 1) :
        /\ rows = [i \in Integrations |-> IF i \notin have THEN NoRow ELSE
                [is |-> "whole", of |-> a, phone |-> p, fp |-> p, status |-> "connected"]]
        /\ fails = [i \in Integrations |-> IF i \in have THEN n ELSE 0]
        /\ used = have
    BY Zenon DEF IntegrationsInit
  <2>3. \A i \in Integrations : Listed(i) => rows[i].of = a
    BY <2>2 DEF Listed, NoRow
  <2> QED
    BY <2>1, <2>3 DEF AssistantTables
<1> QED
  BY <1>1, <1>2, <1>3 DEF OrphanInv

LEMMA OrphanStep ==
    ASSUME OrphanInv, NEW t \in Tasks, IntegrationsStep(t)
    PROVE  Stays /\ Only(t) /\ Owned(t)'
<1>1. CASE OwnerCalls(t) \/ OutsideCalls(t)
  BY <1>1, BegunOwned
<1>2. CASE ~ (OwnerCalls(t) \/ OutsideCalls(t))
  <2>1. Stays /\ Onwards(t)
    BY <1>2, LooksStay, DeletionsStay, WritesStay DEF IntegrationsStep
  <2>2. Owned(t)'
    BY <1>2, PlainOwned, ListRowOwned, TakingOwned, FindOwned, CheckAssistantOwned, CleanOrphanOwned
       DEF IntegrationsStep
  <2> QED
    BY <2>1, <2>2 DEF Onwards
<1> QED
  BY <1>1, <1>2

LEMMA OrphanSteps == OrphanInv /\ [NumberNext]_<<tasking, inVars>> => OrphanInv'
<1> SUFFICES ASSUME OrphanInv, [NumberNext]_<<tasking, inVars>> PROVE OrphanInv'
  OBVIOUS
<1>1. NumberInv'
  BY NumberSteps DEF OrphanInv
<1>2. ASSUME NEW t \in Tasks, IntegrationsStep(t)
      PROVE  OrphanInv'
  <2>1. Stays /\ Only(t) /\ Owned(t)'
    BY <1>2, OrphanStep
  <2>2. ASSUME NEW u \in Tasks \ {t}
        PROVE  Owned(u)'
    BY <2>1, OthersOwned DEF Only
  <2> QED
    BY <1>1, <2>1, <2>2 DEF OrphanInv, Stays
<1>3. CASE UNCHANGED <<tasking, inVars>>
  BY <1>1, <1>3 DEF tasking, inVars, inTables, inHistory, OrphanInv, AssistantTables, Owned, Known,
     Listed, Exists, Arg, Got
<1> QED
  BY <1>2, <1>3 DEF NumberNext

\* Only the cleaning of a lookup, and a refusal, makes a webhook at its lookup
\* go on; the cleaning deletes orphans.
LEMMA OnlyOrphansDeleted ==
    ASSUME OrphanInv, [NumberNext]_<<tasking, inVars>>, NEW t \in Tasks, NEW i \in Integrations,
           On(t, "webhook", "check"), call'[t] # call[t], Listed(i), ~ (rows'[i].is = "whole")
    PROVE  ~ Exists(rows[i].of) \/ misread
<1>1. PICK u \in Tasks : IntegrationsStep(u)
  BY DEF NumberNext, tasking
<1>2. u = t
  BY <1>1, OrphanStep DEF Only
<1>3. rows' # rows /\ call[t].op = "webhook" /\ call[t].at = "check"
  BY DEF Listed, On
<1>4. CleanOrphan(t)
  <2>1. ~ (OwnerCalls(t) \/ OutsideCalls(t))
    BY <1>3 DEF OwnerCalls, OutsideCalls, BeginIn, BeginWith, Running
  <2>2. ~ (CheckAssistant(t) \/ DropIn(t))
    BY <1>3 DEF CheckAssistant, DropIn, inTables
  <2> QED
    BY <1>1, <1>2, <1>3, <2>1, <2>2
       DEF IntegrationsStep, On, CheckExisting, CheckPhone, Evict, InsertRow, GetRow, PostConnect, Unlink,
           DeleteRow, ListRow, UpdateRow, WriteFp, Find, KeepEvent, Scan, Probe, MarkDown, GetAssistant,
           DeleteRows, WriteAssistant
<1>5. PICK j \in Got(t).orphans : rows' = [rows EXCEPT ![j] = NoRow]
  BY <1>3, <1>4 DEF CleanOrphan
<1>6. i = j
  BY <1>5 DEF OrphanInv, NumberInv, IntegrationTables, Listed
<1> QED
  BY <1>3, <1>5, <1>6 DEF OrphanInv, Owned

\* The lookup of a webhook never deletes an integration of an assistant that is
\* there, whatever was deleted, relisted or edited between its reads and its
\* deletions, unless reading an assistant has failed.
THEOREM OnlyOrphansCleanedAlways == NumberSpec => OnlyOrphansCleaned
<1>1. IntegrationsInit /\ TasksInit(Budgets) => OrphanInv
  BY OrphanStarts
<1>2. OrphanInv /\ [NumberNext]_<<tasking, inVars>> =>
        [\A t \in Tasks, i \in Integrations :
            On(t, "webhook", "check") /\ call'[t] # call[t] /\ Listed(i) /\ ~(rows'[i].is = "whole")
                => ~Exists(rows[i].of) \/ misread]_<<rows, call>>
  BY OnlyOrphansDeleted
<1> QED
  BY <1>1, <1>2, OrphanSteps, PTL DEF NumberSpec, OnlyOrphansCleaned
=============================================================================
