------------------------------ MODULE Curation ------------------------------
(***************************************************************************)
(* The curation agent.  Once a day it goes through all assistants; when    *)
(* the calls of one in the last days failed too often it leaves its user a *)
(* suggestion, unless there is one from the last day.  A pass compares     *)
(* with the time it began, a suggestion carries the time it was written,   *)
(* so a suggestion is younger than a day when the next pass comes by.      *)
(*                                                                         *)
(* Time is counted in ticks; a step of a pass may take any number of them. *)
(***************************************************************************)
EXTENDS Naturals, Sequences, FiniteSets

LOCAL INSTANCE SequencesExt
LOCAL INSTANCE FiniteSetsExt

CONSTANTS
    Assistants,         \* of one user
    Day,                \* POLL_INTERVAL, in ticks; SUGGESTION_DEDUP_HOURS is the same
    Window,             \* CURATION_WINDOW_DAYS, in ticks
    MinCalls,           \* CURATION_MIN_CALLS
    Tolerated,          \* 1 / CURATION_ERROR_THRESHOLD
    LogLimit,           \* LLM_LOG_SCAN_LIMIT
    SuggestionLimit,    \* NOTIFICATION_SCAN_LIMIT
    PassTime,           \* the longest a pass takes
    MaxCalls,           \* bound: calls of an assistant
    MaxFaults,          \* bound: calls to the database that fail, and restarts
    LastTick            \* bound on the clock

ASSUME CurationAssumption ==
    /\ Day \in Nat \ {0} /\ PassTime \in 0..(Day - 1)
    /\ Window \in Nat /\ MinCalls \in Nat /\ Tolerated \in Nat
    /\ LogLimit \in Nat /\ SuggestionLimit \in Nat

VARIABLES
    clock,
    due,            \* when the interval fires next
    calls_of,       \* llm_call_logs of each assistant, oldest first: when, and
                    \* whether it failed
    suggestions,    \* notifications of the type curation_suggestion
    pass,           \* where the poller is, when its pass began, the assistants
                    \* it has still to look at and the one it looks at
    failing,        \* history: assistants this pass has found to fail too often
    missed,         \* history: assistants a fault made this pass skip
    faults          \* faults so far

cuVars == <<clock, due, calls_of, suggestions, pass, failing, missed, faults>>

Resting == [at |-> "rest", now |-> 0, left |-> {}, of |-> "none"]

CurationInit ==
    /\ clock = 0 /\ due = Day /\ faults = 0
    /\ calls_of = [a \in Assistants |-> <<>>] /\ suggestions = <<>>
    /\ pass = Resting /\ failing = {} /\ missed = {}

-----------------------------------------------------------------------------
(* The decisions *)

\* fetch_recent_llm_calls: the newest rows, those of the window.
RecentCalls(a, now) ==
    LET made   == calls_of[a]
        newest == SubSeq(made, Max({1, (Len(made) - LogLimit) + 1}), Len(made))
    IN  SelectSeq(newest, LAMBDA c : c.at + Window >= now)

Errors(recent) == Len(SelectSeq(recent, LAMBDA c : c.failed))

\* should_emit
ShouldEmit(recent) ==
    Len(recent) >= MinCalls /\ Errors(recent) * Tolerated > Len(recent)

\* fetch_last_curation_suggestion_at: when the suggestions of an assistant
\* among some rows were written.  Rows are in no order, so when there are more
\* than are read these are any of them.
Looked ==
    {s \in SUBSET (DOMAIN suggestions) :
        Cardinality(s) = Min({SuggestionLimit, Len(suggestions)})}

WrittenAt(a, rows) == {suggestions[i].at : i \in {j \in rows : suggestions[j].of = a}}

\* Mutant of WithinDedup: two days.
WithinTwoDays(now, times) == times # {} /\ now < Max(times) + 2 * Day

\* within_dedup_window
WithinDedup(now, times) == times # {} /\ now < Max(times) + Day

-----------------------------------------------------------------------------
(* The poller *)

Goes(at) == pass' = [pass EXCEPT !.at = at]

\* The next assistant, or the end of the pass.
NextOne(left) ==
    pass' = IF left = {} THEN [Resting EXCEPT !.now = pass.now]
            ELSE [pass EXCEPT !.at = "calls", !.left = left, !.of = "none"]

\* The interval fires; the first time a day after the start.
Fires ==
    /\ pass.at = "rest" /\ clock >= due
    /\ Goes("list")
    /\ due' = due + Day
    /\ failing' = {} /\ missed' = {}
    /\ UNCHANGED <<clock, calls_of, suggestions, faults>>

ListAll ==
    /\ pass.at = "list"
    /\ pass' = [at |-> "calls", now |-> clock, left |-> Assistants, of |-> "none"]
    /\ UNCHANGED <<clock, due, calls_of, suggestions, failing, missed, faults>>

ReadCalls ==
    /\ pass.at = "calls"
    /\ \E a \in pass.left :
        IF ShouldEmit(RecentCalls(a, pass.now))
        THEN /\ pass' = [pass EXCEPT !.at = "last", !.left = @ \ {a}, !.of = a]
             /\ failing' = failing \cup {a}
        ELSE NextOne(pass.left \ {a}) /\ UNCHANGED failing
    /\ UNCHANGED <<clock, due, calls_of, suggestions, missed, faults>>

ReadLast ==
    /\ pass.at = "last"
    /\ \E rows \in Looked :
        IF WithinDedup(pass.now, WrittenAt(pass.of, rows)) THEN NextOne(pass.left) ELSE Goes("emit")
    /\ UNCHANGED <<clock, due, calls_of, suggestions, failing, missed, faults>>

Emit ==
    /\ pass.at = "emit"
    /\ suggestions' = Append(suggestions, [of |-> pass.of, at |-> clock])
    /\ NextOne(pass.left)
    /\ UNCHANGED <<clock, due, calls_of, failing, missed, faults>>

\* Without the list there is no pass; without one assistant the next is tried.
PassFails ==
    /\ pass.at \in {"list", "calls", "last", "emit"}
    /\ faults < MaxFaults /\ faults' = faults + 1
    /\ CASE pass.at = "list" -> pass' = Resting /\ missed' = Assistants
         [] pass.at = "calls" -> \E a \in pass.left :
                NextOne(pass.left \ {a}) /\ missed' = missed \cup {a}
         [] OTHER -> NextOne(pass.left) /\ missed' = missed \cup {pass.of}
    /\ UNCHANGED <<clock, due, calls_of, suggestions, failing>>

\* The process starts again, and waits a day.
Restarts ==
    /\ faults < MaxFaults /\ faults' = faults + 1
    /\ pass' = Resting /\ due' = clock + Day
    /\ failing' = {} /\ missed' = {}
    /\ UNCHANGED <<clock, calls_of, suggestions>>

-----------------------------------------------------------------------------
(* Around it.  That a user may delete suggestions is left out. *)

\* A call of an assistant ends, and its row is written.
LogsCall ==
    /\ \E a \in Assistants, failed \in BOOLEAN :
        /\ Len(calls_of[a]) < MaxCalls
        /\ calls_of' = [calls_of EXCEPT ![a] = Append(@, [at |-> clock, failed |-> failed])]
    /\ UNCHANGED <<clock, due, suggestions, pass, failing, missed, faults>>

\* A pass begins when it is due and does not take a day.
TimePasses ==
    /\ clock < LastTick /\ clock' = clock + 1
    /\ IF pass.at = "rest" THEN clock < due ELSE clock + Day < due + PassTime
    /\ UNCHANGED <<due, calls_of, suggestions, pass, failing, missed, faults>>

CurationNext ==
    \/ Fires \/ ListAll \/ ReadCalls \/ ReadLast \/ Emit \/ PassFails \/ Restarts
    \/ LogsCall \/ TimePasses

-----------------------------------------------------------------------------

\* An assistant gets at most one suggestion a day, however late in its pass the
\* last was written, as long as the user has no more of them than are read.
OnceADay ==
    Len(suggestions) <= SuggestionLimit + 1 =>
        \A i, j \in DOMAIN suggestions :
            i < j /\ suggestions[i].of = suggestions[j].of =>
                suggestions[i].at + Day <= suggestions[j].at

\* After a pass an assistant that fails too often has a suggestion written less
\* than a day before the pass began, or by it.
FailingIsTold ==
    pass.at = "rest" =>
        \A a \in failing \ missed :
            \E i \in DOMAIN suggestions :
                suggestions[i].of = a /\ pass.now < suggestions[i].at + Day

\* Neither a second suggestion nor none (should_emit, within_dedup_window).
SuggestionsHold == OnceADay /\ FailingIsTold
=============================================================================
