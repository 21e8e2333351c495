----------------------------- MODULE Evaluator -----------------------------
(***************************************************************************)
(* The evaluation of a reply, after it was sent.  A spawned task takes one *)
(* of a few permits or gives up, asks a cheap model for a verdict within a *)
(* timeout, and when there are issues marks the log row of its own call,   *)
(* which it looks for among the newest rows of its partition: the call     *)
(* itself does not tell the task its id.  Rows are written by the drain of *)
(* the call log, behind a queue, in the order the calls were made.         *)
(*                                                                         *)
(* A call is known by its number, and its row is ordered by it.            *)
(***************************************************************************)
EXTENDS Tasks, Sequences

LOCAL INSTANCE FiniteSetsExt

CONSTANTS
    Conversations,  \* of the assistant of one partition of the log
    MaxConcurrent,  \* evaluator_max_concurrent
    ScanLimit,      \* SCAN_LIMIT
    Attempts        \* times the row is looked for

ASSUME EvaluatorAssumption ==
    /\ MaxConcurrent \in Nat \ {0} /\ ScanLimit \in Nat /\ Attempts \in Nat \ {0}

\* Sophie's calls have a partition of their own and no conversation.
Sophie == "sophie"
ASSUME Sophie \notin Conversations

VARIABLES
    asked,      \* calls made: the kind and the conversation of each
    log,        \* llm_call_logs: the status of each call, and the evaluation
                \* that marked it or 0
    queue,      \* events of the drain: the call and its new status
    excused,    \* history: evaluations that could not know their row: it was not
                \* there, or another evaluation of the conversation came after
    issues,     \* history: evaluations with a verdict of issues
    lost        \* history: calls an event or a mark of which was lost

evVars == <<asked, log, queue, excused, issues, lost>>

Unlogged == [status |-> "none", mark |-> 0]

Row(i) == IF i \in DOMAIN log THEN log[i] ELSE Unlogged

EvaluatorInit ==
    /\ asked = <<>> /\ log = <<>> /\ queue = <<>>
    /\ excused = {} /\ issues = {} /\ lost = {}

Own(t)     == Got(t).own
Judges(t)  == call[t].op = "evaluation" /\ call[t].at # "permit"
Judging(c) == {t \in Tasks : Judges(t) /\ Arg(t).conv = c}
Partition(c) == c = Sophie

\* enqueue(Started): the row is not written yet.
Logs(kind, c) ==
    /\ asked' = Append(asked, [kind |-> kind, conv |-> c])
    /\ queue' = Append(queue, [call |-> Len(asked) + 1, status |-> "in_progress"])
    /\ log' = Append(log, Unlogged)

Ends(i, status) == queue' = Append(queue, [call |-> i, status |-> status])

-----------------------------------------------------------------------------
(* The turns of the assistant *)

TurnCalls(t) ==
    /\ \E c \in Conversations :
        /\ BeginWith(t, "reply", "answer", [conv |-> c], [own |-> Len(asked) + 1])
        /\ Logs("primary", c)
    /\ UNCHANGED <<excused, issues, lost>>

TurnEnds(t) ==
    /\ On(t, "reply", "answer")
    /\ Ends(Own(t), "completed") /\ Finish(t)
    /\ UNCHANGED <<asked, log, excused, issues, lost>>

-----------------------------------------------------------------------------
(* spawn_evaluation and spawn_sophie_evaluation *)

Spawn(t) ==
    /\ \E c \in Conversations : Begin(t, "evaluation", "permit", [conv |-> c])
    /\ UNCHANGED evVars

SpawnSophie(t) == Begin(t, "evaluation", "permit", [conv |-> Sophie]) /\ UNCHANGED evVars

Permits == MaxConcurrent - Cardinality({u \in Tasks : Judges(u)})

\* No permit: the evaluation is dropped.
Saturated(t) ==
    /\ On(t, "evaluation", "permit")
    /\ Permits <= 0
    /\ Finish(t) /\ UNCHANGED evVars

\* No key for the provider: the permit is given back.
NoKey(t) ==
    /\ On(t, "evaluation", "permit")
    /\ Permits > 0
    /\ Finish(t) /\ UNCHANGED evVars

Asks(t, kind) ==
    /\ Permits > 0
    /\ Learn(t, "verdict", [own |-> Len(asked) + 1])
    /\ Logs(kind, Arg(t).conv)
    /\ excused' = excused \cup {Own(u) : u \in Judging(Arg(t).conv)}
    /\ UNCHANGED <<issues, lost>>

Ask(t) ==
    On(t, "evaluation", "permit") /\ Arg(t).conv # Sophie /\ Asks(t, "evaluator")

AskSophie(t) ==
    On(t, "evaluation", "permit") /\ Arg(t).conv = Sophie /\ Asks(t, "sophie_evaluator")

\* The reply is fine.
Fine(t) ==
    /\ On(t, "evaluation", "verdict")
    /\ Ends(Own(t), "completed") /\ Finish(t)
    /\ UNCHANGED <<asked, log, excused, issues, lost>>

\* parse_verdict finds none in the answer: it is one that the call has logged
\* as completed, and nothing is marked.
Unreadable(t) == Fine(t)

Alerts(t) ==
    /\ Ends(Own(t), "completed")
    /\ issues' = issues \cup {Own(t)}
    /\ Learn(t, "find", [own |-> Own(t), attempt |-> 1])
    /\ UNCHANGED <<asked, log, excused, lost>>

HasIssues(t)       == On(t, "evaluation", "verdict") /\ Arg(t).conv # Sophie /\ Alerts(t)
SophieHasIssues(t) == On(t, "evaluation", "verdict") /\ Arg(t).conv = Sophie /\ Alerts(t)

AskFails(t) ==
    /\ On(t, "evaluation", "verdict")
    /\ Ends(Own(t), "failed") /\ Finish(t)
    /\ UNCHANGED <<asked, log, excused, issues, lost>>

\* The call is dropped where it stands: no event says so.
TimesOut(t) ==
    /\ On(t, "evaluation", "verdict")
    /\ Finish(t)
    /\ lost' = lost \cup {Own(t)}
    /\ UNCHANGED <<asked, log, queue, excused, issues>>

-----------------------------------------------------------------------------
(* mark_evaluator_row_with_issues *)

Visible(c) ==
    {i \in DOMAIN log : log[i].status # "none" /\ Partition(asked[i].conv) = Partition(c)}

\* The newest rows of the partition.
Scanned(c) ==
    {i \in Visible(c) : Cardinality({j \in Visible(c) : j > i}) < ScanLimit}

\* Mutant of Matches: evaluations of any conversation.
MatchesAny(c) == {i \in Scanned(c) : asked[i].kind = "evaluator"}

Matches(c) == {i \in Scanned(c) : asked[i].kind = "evaluator" /\ asked[i].conv = c}

FindsRow(t) ==
    /\ On(t, "evaluation", "find")
    /\ Matches(Arg(t).conv) # {}
    /\ Learn(t, "mark", [own |-> Own(t), row |-> Max(Matches(Arg(t).conv))])
    /\ excused' = IF Row(Own(t)).status = "none" THEN excused \cup {Own(t)} ELSE excused
    /\ UNCHANGED <<asked, log, queue, issues, lost>>

\* No row, or an error: again after a pause, and then never.
FindsNone(t) ==
    /\ On(t, "evaluation", "find")
    /\ \E failed \in BOOLEAN :
        /\ failed \/ Matches(Arg(t).conv) = {}
        /\ IF Got(t).attempt < Attempts
           THEN Learn(t, "find", [Got(t) EXCEPT !.attempt = @ + 1]) /\ UNCHANGED <<excused, lost>>
           ELSE /\ Finish(t)
                /\ lost' = IF failed THEN lost \cup {Own(t)} ELSE lost
                /\ excused' = IF Row(Own(t)).status = "none" THEN excused \cup {Own(t)} ELSE excused
    /\ UNCHANGED <<asked, log, queue, issues>>

\* Then subscribers of the user's events are told.
MarksRow(t) ==
    /\ On(t, "evaluation", "mark")
    /\ log' = [log EXCEPT ![Got(t).row].mark = Own(t)]
    /\ Finish(t)
    /\ UNCHANGED <<asked, queue, excused, issues, lost>>

\* The UPDATE fails, or the task ends at an await.
Stops(t) ==
    /\ Drop(t)
    /\ lost' = IF "own" \in DOMAIN Got(t) THEN lost \cup {Own(t)} ELSE lost
    /\ UNCHANGED <<asked, log, queue, excused, issues>>

-----------------------------------------------------------------------------
(* The drain of the call log *)

\* Started inserts the row; the others apply IF status = 'in_progress'.
Drains ==
    /\ queue # <<>> /\ queue' = Tail(queue)
    /\ LET event == Head(queue) IN
        log' = IF event.status = "in_progress" \/ log[event.call].status = "in_progress"
               THEN [log EXCEPT ![event.call].status = event.status] ELSE log
    /\ UNCHANGED <<asked, excused, issues, lost, tasking>>

\* The write fails: a warning, and the event is gone.
DrainFails ==
    /\ queue # <<>> /\ queue' = Tail(queue)
    /\ drops > 0 /\ drops' = drops - 1
    /\ lost' = lost \cup {Head(queue).call}
    /\ UNCHANGED <<asked, log, excused, issues, call, calls, crowded>>

EvaluatorStep(t) ==
    \/ TurnCalls(t) \/ TurnEnds(t)
    \/ Spawn(t) \/ SpawnSophie(t) \/ Saturated(t) \/ NoKey(t) \/ Ask(t) \/ AskSophie(t)
    \/ Fine(t) \/ Unreadable(t) \/ HasIssues(t) \/ SophieHasIssues(t) \/ AskFails(t) \/ TimesOut(t)
    \/ FindsRow(t) \/ FindsNone(t) \/ MarksRow(t) \/ Stops(t)

-----------------------------------------------------------------------------

Over(i) == ~\E t \in Tasks : Running(t) /\ "own" \in DOMAIN Got(t) /\ Own(t) = i

Pending(i) == \E k \in DOMAIN queue : queue[k].call = i

\* A mark is on the row of the evaluation that found the issues, or, when that
\* row was not there yet or a later evaluation of the conversation had one, on
\* the row of another evaluation of the same conversation.
MarksAreItsOwn ==
    \A i \in DOMAIN log : log[i].mark # 0 =>
        /\ asked[i].kind = "evaluator" /\ asked[i].conv = asked[log[i].mark].conv
        /\ log[i].mark = i \/ log[i].mark \in excused

\* Issues of an assistant's reply are marked on the row of their evaluation as
\* long as fewer calls than are scanned were made after it.
IssuesSurface ==
    \A i \in issues :
        /\ Over(i) /\ i \notin excused \cup lost /\ asked[i].conv # Sophie
        /\ Cardinality({j \in DOMAIN asked : j > i /\ asked[j].conv # Sophie}) < ScanLimit
        => log[i].mark # 0

\* A call that is over is in progress in the log only if it was given up at its
\* timeout, or its task or its event was lost; what is in progress otherwise
\* has an event on its way.
NoneLeftOpen ==
    \A i \in DOMAIN log :
        Over(i) /\ ~Pending(i) /\ i \notin lost => log[i].status \in {"completed", "failed"}

\* Evaluations never run in greater numbers than there are permits.
PermitsHold == Cardinality({t \in Tasks : Judges(t)}) <= MaxConcurrent

\* Marks are where they belong, and evaluations are few at a time and leave no
\* open row (mark_evaluator_row_with_issues, spawn_evaluation,
\* spawn_sophie_evaluation, the semaphore).
EvaluationsHold == MarksAreItsOwn /\ IssuesSurface /\ NoneLeftOpen /\ PermitsHold
=============================================================================
