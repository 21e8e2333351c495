------------------------------ MODULE SessionLog ------------------------------
(***************************************************************************)
(* The session log.  Turns and voice sessions never wait for the database: *)
(* they put mutations (create, append, complete) on one bounded channel,   *)
(* which drops what does not fit, and a single drain task applies them in  *)
(* order.  The queue dies with the process.                                *)
(***************************************************************************)
EXTENDS Naturals, Sequences, SequencesExt

CONSTANTS
    Sessions,
    Events,        \* events a session emits between create and completed
    Capacity,      \* SESSION_SENDER_CAPACITY
    MaxFaults      \* bound: statements that fail, and restarts

ASSUME SessionAssumption ==
    Events \in Nat /\ Capacity \in Nat \ {0} /\ MaxFaults \in Nat

VARIABLES
    queue,      \* the channel
    emitted,    \* history: mutations a session's producer has made
    producer,   \* each producer: "start", "open", "closed" or "ended"
    row,        \* the sessions table: was the row created, and its status
    events,     \* the session_events table, in order of arrival
    lost,       \* history: sessions a mutation of which was lost
    faults      \* history: failed statements, and restarts

sessionVars == <<queue, emitted, producer, row, events, lost, faults>>

NoRow == [created |-> FALSE, status |-> "none"]

SessionInit ==
    /\ queue = <<>>
    /\ emitted = [s \in Sessions |-> 0]
    /\ producer = [s \in Sessions |-> "start"]
    /\ row = [s \in Sessions |-> NoRow]
    /\ events = [s \in Sessions |-> <<>>]
    /\ lost = {}
    /\ faults = 0

Mutation(op, s) == [op |-> op, session |-> s, number |-> emitted[s]]

\* Mutant of Enqueue: makes room by dropping the oldest mutation.
EnqueueNewest(m) ==
    /\ queue' = IF Len(queue) < Capacity THEN Append(queue, m) ELSE Append(Tail(queue), m)
    /\ lost' = lost
    /\ emitted' = [emitted EXCEPT ![m.session] = @ + 1]

\* try_send: a mutation that does not fit is dropped, and the caller goes on.
Enqueue(m) ==
    /\ IF Len(queue) < Capacity
       THEN queue' = Append(queue, m) /\ lost' = lost
       ELSE queue' = queue /\ lost' = lost \cup {m.session}
    /\ emitted' = [emitted EXCEPT ![m.session] = @ + 1]

\* create_session returns the id whatever became of the mutation.
OpenSession(s) ==
    /\ producer[s] = "start"
    /\ Enqueue(Mutation("create", s))
    /\ producer' = [producer EXCEPT ![s] = "open"]
    /\ UNCHANGED <<row, events, faults>>

Emit(s) ==
    /\ producer[s] = "open" /\ emitted[s] <= Events
    /\ Enqueue(Mutation("append", s))
    /\ UNCHANGED <<producer, row, events, faults>>

\* The last event has been appended: update_status "completed".
Complete(s) ==
    /\ producer[s] = "open" /\ emitted[s] = Events + 1
    /\ Enqueue(Mutation("complete", s))
    /\ producer' = [producer EXCEPT ![s] = "closed"]
    /\ UNCHANGED <<row, events, faults>>

\* A turn that fails leaves its session open: nothing is put on the channel.
Abandon(s) ==
    /\ producer[s] = "open"
    /\ producer' = [producer EXCEPT ![s] = "ended"]
    /\ UNCHANGED <<queue, emitted, row, events, lost, faults>>

\* apply_session_mutation.  The UPDATE of the status is an upsert.
Apply(m) ==
    LET s == m.session IN
    CASE m.op = "create" -> /\ row' = [row EXCEPT ![s] = [created |-> TRUE, status |-> "active"]]
                            /\ UNCHANGED events
      [] m.op = "append" -> events' = [events EXCEPT ![s] = Append(@, m.number)] /\ UNCHANGED row
      [] OTHER -> row' = [row EXCEPT ![s].status = "completed"] /\ UNCHANGED events

\* Mutant of Drain: stops for good at a failed statement.
DrainStops ==
    /\ queue # <<>> /\ faults = 0
    /\ \/ Apply(Head(queue)) /\ queue' = Tail(queue) /\ UNCHANGED <<lost, faults>>
       \/ faults < MaxFaults /\ faults' = faults + 1 /\ UNCHANGED <<queue, row, events, lost>>
    /\ UNCHANGED <<emitted, producer>>

\* The drain applies the oldest mutation; one that fails is logged and gone.
Drain ==
    /\ queue # <<>>
    /\ queue' = Tail(queue)
    /\ \/ Apply(Head(queue)) /\ UNCHANGED <<lost, faults>>
       \/ /\ faults < MaxFaults /\ faults' = faults + 1
          /\ lost' = lost \cup {Head(queue).session}
          /\ UNCHANGED <<row, events>>
    /\ UNCHANGED <<emitted, producer>>

Restart ==
    /\ faults < MaxFaults /\ faults' = faults + 1
    /\ queue' = <<>>
    /\ lost' = lost \cup {m.session : m \in ToSet(queue)}
    /\ producer' = [s \in Sessions |-> IF producer[s] = "open" THEN "ended" ELSE producer[s]]
    /\ UNCHANGED <<emitted, row, events>>

SessionNext ==
    \/ \E s \in Sessions : OpenSession(s) \/ Emit(s) \/ Complete(s) \/ Abandon(s)
    \/ Drain
    \/ Restart

\* The drain task runs whenever there is something in the channel.
SessionSpec == SessionInit /\ [][SessionNext]_sessionVars /\ WF_sessionVars(Drain)

-----------------------------------------------------------------------------
(* Properties. *)

\* The channel never outgrows its capacity, and no status is invented.
SessionTypeOK ==
    /\ Len(queue) <= Capacity
    /\ \A s \in Sessions : row[s].status \in {"none", "active", "completed"}

\* The events of a session are stored in the order in which they were
\* emitted, and none twice, whatever was dropped, failed or died in between.
EventsInOrder ==
    \A s \in Sessions : \A i, j \in DOMAIN events[s] : i < j => events[s][i] < events[s][j]

\* As long as nothing of a session was lost, what the tables show of it is a
\* prefix of what happened: the row before its events, no event missing, and
\* "completed" only with all of them.
PrefixUnlessLost ==
    \A s \in Sessions \ lost :
        /\ events[s] = [i \in 1 .. Len(events[s]) |-> i]
        /\ events[s] # <<>> => row[s].created
        /\ row[s].status = "completed" => row[s].created /\ Len(events[s]) = Events

\* A session that was closed and lost nothing shows as completed in the end.
ClosedIsCompleted ==
    \A s \in Sessions : (producer[s] = "closed") ~> (row[s].status = "completed" \/ s \in lost)

=============================================================================
