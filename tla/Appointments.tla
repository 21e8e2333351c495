---------------------------- MODULE Appointments ----------------------------
(***************************************************************************)
(* The appointments of one assistant, booked from the dashboard and by the *)
(* schedule_appointment tool.  An appointment is kept in `appointments`    *)
(* and again in `appointments_by_assistant`, keyed by its time; validation *)
(* reads the second table only.  A booking validates, with up to four      *)
(* queries, and then inserts: nothing holds the slot in between.           *)
(*                                                                         *)
(* The tool is two calls.  execute_tool validates while the model waits    *)
(* and answers "queued"; the turn creates the appointment after the        *)
(* model's last answer, and only logs an error.                            *)
(*                                                                         *)
(* Time is in half hours of one day; the assistant's time zone, and the    *)
(* blocked dates, weekdays and opening hours that a request is compared    *)
(* with, are one predicate (Open).                                         *)
(***************************************************************************)
EXTENDS Tasks

CONSTANTS
    Appts,          \* ids of appointments
    Slots,          \* times and durations bookings ask for (0: left out)
    Edits,          \* what changes ask for: a time, a duration, a status
    Past,           \* the times that have passed
    Hours,          \* opening hours: the start and the end of the one slot
    Days            \* half hours of a day

Usual  == 1         \* 30 minutes, where no duration is given
Window == 24        \* check_conflicts looks 12 hours around

\* The window of check_conflicts is searched by start time: a longer
\* appointment that has begun before it would not be found.
ASSUME AppointmentsAssumption ==
    /\ Slots \subseteq [start : Nat, dur : 0..Window]
    /\ Edits \subseteq [start : Nat, dur : 0..Window,
                       status : {"same", "cancelled", "confirmed"}]
    /\ Days \in Nat \ {0} /\ Hours \in Nat \X (0..Days - 1) /\ Past \subseteq Nat
    /\ "none" \notin Appts

Starts == {slot.start : slot \in Slots}

VARIABLES
    book,           \* appointments: the row of each id, or NoAppt
    calendar,       \* appointments_by_assistant: its rows
    avail,          \* assistant_availability of the assistant
    born,           \* ids given to an appointment: a new one has a new id
    unseen,         \* history: ids written without validation, on one that was
                    \* out of date, or from a row two tasks worked on
    tangled,        \* history: ids two tasks have worked on at once, or that
                    \* a dropped task has left
    broken          \* history: was a promise refused though nothing changed?

apTables == <<book, calendar, avail>>
apVars   == <<apTables, born, unseen, tangled, broken>>

NoAppt == [start |-> 0, dur |-> 0, status |-> "none", with |-> FALSE]
\* buffer_minutes and max_per_day; 0 is no limit.
NoAvail == [set |-> FALSE, usual |-> Usual, buffer |-> 0, most |-> 0]

AppointmentsInit ==
    /\ book = [id \in Appts |-> NoAppt] /\ calendar = {} /\ avail = NoAvail
    /\ born = {} /\ unseen = {} /\ tangled = {} /\ broken = FALSE

-----------------------------------------------------------------------------
(* validate_appointment, and get_available_slots *)

Overlap(s, d, s2, d2) == s < s2 + d2 /\ s + d > s2

\* list_by_assistant_range: by start time, without the cancelled ones.
InRange(from, to, but) ==
    {r \in calendar : r.start >= from /\ r.start <= to /\ r.status # "cancelled" /\ r.id # but}

Conflicts(s, d, but) ==
    \E r \in InRange(IF s > Window THEN s - Window ELSE 0, s + Window, but) :
        Overlap(s, d, r.start, r.dur)

\* The end is a time of day: it passes midnight without passing the slot's end.
Open(s, d) ==
    /\ s % Days >= Hours[1]
    /\ (s + d) % Days <= Hours[2]

DayFull(s, most, but) ==
    Cardinality(InRange((s \div Days) * Days, (s \div Days) * Days + Days - 1, but)) >= most

\* The buffer is counted twice: around the request and around the others,
\* but only those that start in the first are looked at.
TooClose(s, d, buffer, but) ==
    \E r \in InRange(IF s > buffer THEN s - buffer ELSE 0, s + d + buffer, but) :
        s < r.start + r.dur + buffer /\ s + d + buffer > r.start

\* get_available_slots of the day, before the list is cut to max_per_day.
Offered(cfg) ==
    {s \in Starts :
        /\ s \notin Past
        /\ s >= Hours[1] /\ s + cfg.usual <= Hours[2]
        /\ (s - Hours[1]) % (cfg.usual + cfg.buffer) = 0
        /\ ~\E r \in InRange(0, Days - 1, "none") :
                s < r.start + r.dur + cfg.buffer /\ s + cfg.usual + cfg.buffer > r.start}

-----------------------------------------------------------------------------
(* What the operations have in common.  A task works on one appointment:   *)
(* the arguments name it, and say which of its fields the request gives.   *)

\* What a task knows: has validation found an error, the availability and the
\* row it has read; history: has the calendar changed since validation began,
\* and is a promise void (the calendar, the availability or the duration has
\* changed since it was given)?
Blank == [bad |-> FALSE, cfg |-> NoAvail, old |-> NoAppt, stale |-> FALSE, void |-> FALSE]

Booking == {"book", "change", "remove", "tool"}

\* A call on an id; "tangled" remembers that another task was at work on it.
BeginOn(t, op, at, arg) ==
    /\ BeginWith(t, op, at, arg, Blank)
    /\ tangled' = IF \E u \in Others(t) : call[u].op \in Booking /\ Arg(u).id = arg.id
                  THEN tangled \cup {arg.id} ELSE tangled

Know(t, at, got) == Learn(t, at, got) /\ UNCHANGED apVars

\* A statement that others may have validated against has been made.
Changed(t, at, listed) ==
    /\ call' = [u \in Tasks |->
            IF u = t THEN (IF at = "end" THEN NoCall ELSE [call[t] EXCEPT !.at = at])
            ELSE IF call[u].op \in Booking
            THEN [call[u] EXCEPT !.got.stale = @ \/ listed, !.got.void = TRUE]
            ELSE call[u]]
    /\ crowded' = (crowded /\ (at # "end" \/ Others(t) # {}))
    /\ UNCHANGED <<calls, drops>>

-----------------------------------------------------------------------------
(* Calls begin. *)

\* The dashboard: an appointment of its own time, or a change of one.
BookCall(t) ==
    /\ \E id \in Appts \ born, slot \in Slots, with \in BOOLEAN :
        /\ slot.dur # 0
        /\ BeginOn(t, "book", "begin",
             [id |-> id, start |-> slot.start, dur |-> slot.dur, status |-> "confirmed",
              with |-> with, dated |-> TRUE, promised |-> FALSE])
        /\ born' = born \cup {id}
    /\ UNCHANGED <<apTables, unseen, broken>>

\* A field the request leaves out is 0 or "same".
ChangeCall(t) ==
    /\ \E id \in born, edit \in Edits :
        BeginOn(t, "change", "get",
            [id |-> id, start |-> edit.start, dur |-> edit.dur, status |-> edit.status,
             with |-> TRUE, dated |-> edit.start # 0, promised |-> FALSE])
    /\ UNCHANGED <<apTables, born, unseen, broken>>

RemoveCall(t) ==
    /\ \E id \in born : BeginOn(t, "remove", "get", [id |-> id])
    /\ UNCHANGED <<apTables, born, unseen, broken>>

\* The model calls schedule_appointment, to create, to reschedule or to
\* cancel, which is "queued" without a look at the appointment.
ToolCall(t) ==
    /\ \/ \E id \in Appts, slot \in Slots :
            /\ BeginOn(t, "tool", "usual",
                 [id |-> id, start |-> slot.start, dur |-> slot.dur,
                  status |-> IF id \in born THEN "rescheduled" ELSE "confirmed",
                  with |-> TRUE, dated |-> TRUE, promised |-> TRUE])
            /\ born' = born \cup {id}
       \/ \E id \in born :
            /\ BeginOn(t, "tool", "queued",
                 [id |-> id, start |-> 0, dur |-> 0, status |-> "cancelled",
                  with |-> TRUE, dated |-> FALSE, promised |-> TRUE])
            /\ UNCHANGED born
    /\ UNCHANGED <<apTables, unseen, broken>>

\* upsert_availability sets some fields, and writes the whole row.
AvailCall(t) ==
    /\ \/ \E b \in 0..1 : Begin(t, "avail", "read", [field |-> "buffer", is |-> b])
       \/ \E m \in 0..1 : Begin(t, "avail", "read", [field |-> "most", is |-> m])
       \/ \E d \in 1..2 : Begin(t, "avail", "read", [field |-> "usual", is |-> d])
    /\ UNCHANGED apVars

-----------------------------------------------------------------------------
(* Validation: it goes on after an error, and collects them. *)

\* The time and the duration that are validated and written.
Start(t) == IF Arg(t).dated THEN Arg(t).start ELSE Got(t).old.start
Dur(t)   == IF Arg(t).dur # 0 THEN Arg(t).dur ELSE Got(t).old.dur

\* The id a change or a reschedule leaves out of its own conflicts.
But(t) ==
    IF call[t].op = "change" \/ Arg(t).status = "rescheduled" THEN Arg(t).id ELSE "none"

Validating(t, at) == \E op \in {"book", "change", "tool"} : On(t, op, at)

\* The turn is refused what its tool has promised.
Breaks(t) ==
    call[t].op # "tool" /\ Arg(t).promised /\ ~Got(t).void /\ Arg(t).id \notin tangled

\* Without an assistant a booking is only compared with the clock.
BeginsToBook(t) ==
    /\ On(t, "book", "begin")
    /\ IF ~Arg(t).with /\ Start(t) \in Past
       THEN Finish(t) /\ UNCHANGED apVars
       ELSE Know(t, IF Arg(t).with THEN "window" ELSE "main",
                 [Got(t) EXCEPT !.bad = Start(t) \in Past, !.stale = FALSE])

\* update_appointment reads the row; it validates when a date is given.
BeginsToChange(t) ==
    /\ On(t, "change", "get")
    /\ LET old == book[Arg(t).id]
           late == Arg(t).dated /\ Arg(t).start \in Past IN
        IF old = NoAppt \/ (late /\ ~old.with)
        THEN /\ Finish(t)
             /\ broken' = (broken \/ Breaks(t))
             /\ UNCHANGED <<apTables, born, unseen, tangled>>
        ELSE Know(t, IF Arg(t).dated /\ old.with THEN "window" ELSE "main",
                  [Got(t) EXCEPT !.old = old, !.bad = late, !.stale = FALSE])

\* The tool: the usual duration, or that of the row, or 30 minutes.
ToolReads(t) ==
    /\ On(t, "tool", "usual")
    /\ LET old == book[Arg(t).id]
           usual == IF Arg(t).status = "rescheduled"
                    THEN IF old = NoAppt THEN Usual ELSE old.dur
                    ELSE avail.usual IN
        Know(t, "window", [Got(t) EXCEPT !.old = [old EXCEPT !.dur = usual],
                                         !.bad = Start(t) \in Past])

ChecksConflicts(t) ==
    /\ Validating(t, "window")
    /\ Know(t, "avail", [Got(t) EXCEPT !.bad = @ \/ Conflicts(Start(t), Dur(t), But(t))])

ReadsAvail(t) ==
    /\ Validating(t, "avail")
    /\ Know(t, IF avail.set THEN "day" ELSE "judge",
            [Got(t) EXCEPT !.cfg = avail,
                           !.bad = @ \/ (avail.set /\ ~Open(Start(t), Dur(t)))])

ChecksDay(t) ==
    /\ Validating(t, "day")
    /\ LET most == Got(t).cfg.most IN
        Know(t, "buffer", [Got(t) EXCEPT
            !.bad = @ \/ (most > 0 /\ DayFull(Start(t), most, But(t)))])

ChecksBuffer(t) ==
    /\ Validating(t, "buffer")
    /\ LET buffer == Got(t).cfg.buffer IN
        Know(t, "judge", [Got(t) EXCEPT
            !.bad = @ \/ (buffer > 0 /\ TooClose(Start(t), Dur(t), buffer, But(t)))])

\* A request with errors ends; the turn only logs that a promise is refused.
Refused(t) ==
    /\ Validating(t, "judge") /\ Got(t).bad
    /\ broken' = (broken \/ Breaks(t))
    /\ Finish(t)
    /\ UNCHANGED <<apTables, born, unseen, tangled>>

Accepted(t) ==
    /\ Validating(t, "judge") /\ ~Got(t).bad
    /\ Goto(t, IF call[t].op = "tool" THEN "queued" ELSE "main")
    /\ UNCHANGED apVars

\* The model has answered, and the turn does what the tool has promised.  A
\* creation without a duration gets 30 minutes here.
TurnBooks(t) ==
    /\ On(t, "tool", "queued")
    /\ LET again == Arg(t).status # "confirmed"
           dur   == IF again \/ Arg(t).dur # 0 THEN Arg(t).dur ELSE Usual IN
        call' = [call EXCEPT
            ![t].op = IF again THEN "change" ELSE "book",
            ![t].at = IF again THEN "get" ELSE "begin",
            ![t].arg.dur = dur,
            ![t].got = [Blank EXCEPT
                !.void = \/ Got(t).void
                         \/ ~again /\ dur # Dur(t)
                         \/ again /\ book[Arg(t).id] = NoAppt]]
    /\ UNCHANGED <<calls, drops, crowded, apVars>>

-----------------------------------------------------------------------------
(* The statements. *)

\* INSERT, with the meeting's fields in an UPDATE after it; or the UPDATE of a
\* change, which writes a deleted row again, without its assistant.
WriteMain(t) ==
    /\ Validating(t, "main")
    /\ LET id  == Arg(t).id
           old == Got(t).old IN
        /\ book' = [book EXCEPT ![id] =
                [start |-> Start(t), dur |-> Dur(t),
                 status |-> IF Arg(t).status = "same" THEN old.status ELSE Arg(t).status,
                 with |-> IF call[t].op = "book" THEN Arg(t).with ELSE book[id].with]]
        /\ IF call[t].op = "book"
           THEN IF Arg(t).with THEN Goto(t, "list") ELSE Finish(t)
           ELSE IF old.with THEN Goto(t, "unlist") ELSE Finish(t)
    /\ UNCHANGED <<calendar, avail, born, unseen, tangled, broken>>

\* Mutant of Unlist: the old row is looked for at the new time.
UnlistByNew(t) ==
    /\ \E op \in {"change", "remove"} : On(t, op, "unlist")
    /\ LET at == IF call[t].op = "change" THEN Start(t) ELSE Got(t).old.start IN
        calendar' = {r \in calendar : ~(r.id = Arg(t).id /\ r.start = at)}
    /\ Changed(t, IF call[t].op = "remove" THEN "end" ELSE "list", TRUE)
    /\ UNCHANGED <<book, avail, born, unseen, tangled, broken>>

\* The old row goes by its old key.
Unlist(t) ==
    /\ \E op \in {"change", "remove"} : On(t, op, "unlist")
    /\ calendar' = {r \in calendar : ~(r.id = Arg(t).id /\ r.start = Got(t).old.start)}
    /\ Changed(t, IF call[t].op = "remove" THEN "end" ELSE "list", TRUE)
    /\ UNCHANGED <<book, avail, born, unseen, tangled, broken>>

List(t) ==
    /\ Validating(t, "list")
    /\ LET a   == Arg(t)
           new == [id |-> a.id, start |-> Start(t), dur |-> Dur(t),
                   status |-> IF a.status = "same" THEN Got(t).old.status ELSE a.status] IN
        /\ calendar' = {r \in calendar : ~(r.id = new.id /\ r.start = new.start)} \cup {new}
        /\ unseen' = IF \/ Got(t).stale
                        \/ ~a.dated /\ (a.dur # 0 \/ a.status = "confirmed" \/ a.id \in tangled)
                     THEN unseen \cup {a.id} ELSE unseen
    /\ Changed(t, "end", TRUE)
    /\ UNCHANGED <<book, avail, born, tangled, broken>>

ReadsToRemove(t) ==
    /\ On(t, "remove", "get")
    /\ IF book[Arg(t).id] = NoAppt THEN Finish(t) /\ UNCHANGED apVars
       ELSE Know(t, "main", [Got(t) EXCEPT !.old = book[Arg(t).id]])

DeleteMain(t) ==
    /\ On(t, "remove", "main")
    /\ book' = [book EXCEPT ![Arg(t).id] = NoAppt]
    /\ IF Got(t).old.with THEN Goto(t, "unlist") ELSE Finish(t)
    /\ UNCHANGED <<calendar, avail, born, unseen, tangled, broken>>

ReadsToSet(t) ==
    /\ On(t, "avail", "read")
    /\ Know(t, "write", [avail EXCEPT !.set = TRUE, ![Arg(t).field] = Arg(t).is])

WriteAvail(t) ==
    /\ On(t, "avail", "write")
    /\ avail' = Got(t)
    /\ Changed(t, "end", FALSE)
    /\ UNCHANGED <<book, calendar, born, unseen, tangled, broken>>

\* A task ends at an await: what it has written may disagree.
DropAppt(t) ==
    /\ Drop(t)
    /\ tangled' = IF call[t].op \in Booking THEN tangled \cup {Arg(t).id} ELSE tangled
    /\ UNCHANGED <<apTables, born, unseen, broken>>

AppointmentsStep(t) ==
    \/ BookCall(t) \/ ChangeCall(t) \/ RemoveCall(t) \/ ToolCall(t) \/ AvailCall(t)
    \/ BeginsToBook(t) \/ BeginsToChange(t) \/ ToolReads(t)
    \/ ChecksConflicts(t) \/ ReadsAvail(t) \/ ChecksDay(t) \/ ChecksBuffer(t)
    \/ Refused(t) \/ Accepted(t) \/ TurnBooks(t)
    \/ WriteMain(t) \/ Unlist(t) \/ List(t)
    \/ ReadsToRemove(t) \/ DeleteMain(t) \/ ReadsToSet(t) \/ WriteAvail(t) \/ DropAppt(t)

-----------------------------------------------------------------------------
(* What the calendar promises. *)

Live == {r \in calendar : r.status # "cancelled"}

\* Two appointments that hold, each validated on a calendar that was still true
\* when it was written, do not overlap: neither after reschedules, whose own
\* old time is left out, nor around the buffers and the 12 hour window.
NoDoubleBooking ==
    \A r, q \in Live :
        r.id # q.id /\ {r.id, q.id} \cap unseen = {} => ~Overlap(r.start, r.dur, q.start, q.dur)

\* When nobody works on an appointment that was worked on by one task at a
\* time, and to the end, the calendar holds it once, as the main table has it.
ListingAgrees ==
    \A id \in Appts \ tangled :
        (\A t \in Tasks : call[t].op \in Booking => Arg(t).id # id) =>
            {r \in calendar : r.id = id} =
                IF ~book[id].with THEN {}
                ELSE {[id |-> id, start |-> book[id].start, dur |-> book[id].dur,
                       status |-> book[id].status]}

\* An appointment the tool has called queued is written by the turn, unless
\* the calendar, the availability or the duration has changed since.
PromiseKept == ~broken

\* Every time the tool offers passes the validation of a booking made at once,
\* with the usual duration, where the day has room.
OffersAreBookable ==
    \A s \in Offered(avail) :
        /\ ~Conflicts(s, avail.usual, "none")
        /\ Open(s, avail.usual)
        /\ avail.buffer > 0 => ~TooClose(s, avail.usual, avail.buffer, "none")

\* The calendar is free of overlaps and says what the appointments say, and
\* what the tools tell a client about times is true (validate_appointment,
\* create, update and delete_appointment, get_available_slots, the booking
\* tool, and the turn that books afterwards).
AppointmentsHold == NoDoubleBooking /\ ListingAgrees /\ PromiseKept /\ OffersAreBookable
=============================================================================
