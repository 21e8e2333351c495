------------------------------- MODULE Tasks -------------------------------
(***************************************************************************)
(* The tasks of the server.  A request handler, a spawned job or a tool    *)
(* call is one task; it runs alone from one await to the next, so a step   *)
(* of a task is one call to the database (or to a service) and the code    *)
(* that follows it up to the next await.  Whatever a task has read before  *)
(* is kept in its continuation and may be stale when it is used.           *)
(*                                                                         *)
(* Every await is a `?` in the code: when the call fails, or the client    *)
(* goes away and axum drops the future, or the process stops, the task     *)
(* ends there and nothing it has written is undone (Drop).                 *)
(***************************************************************************)
EXTENDS Naturals, FiniteSets

CONSTANTS
    NTasks,     \* tasks that run at once
    Users       \* ids of users, for the components that tell them apart

ASSUME TasksAssumption == NTasks \in Nat

VARIABLES
    call,       \* the continuation of each task: the operation, the await it
                \* stands at, its arguments and what it has learned
    calls,      \* bound: tasks that may still begin
    drops,      \* bound: tasks that may still end at an await
    crowded     \* history: have two tasks run since none ran?

tasking == <<call, calls, drops, crowded>>

Tasks == 1..NTasks

NoCall == [op |-> "none", at |-> "none", arg |-> <<>>, got |-> <<>>]

TasksInit(budgets) ==
    /\ call = [t \in Tasks |-> NoCall] /\ crowded = FALSE
    /\ \E b \in budgets : calls = b.calls /\ drops = b.drops

Running(t)    == call[t].op # "none"
On(t, op, at) == call[t].op = op /\ call[t].at = at
Arg(t)        == call[t].arg
Got(t)        == call[t].got
Others(t)     == {u \in Tasks \ {t} : Running(u)}

\* Free tasks are alike: the first one takes the call.
BeginWith(t, op, at, arg, got) ==
    /\ ~Running(t) /\ \A u \in 1..(t - 1) : Running(u)
    /\ calls > 0 /\ calls' = calls - 1
    /\ call' = [call EXCEPT ![t] = [op |-> op, at |-> at, arg |-> arg, got |-> got]]
    /\ crowded' = (crowded \/ Others(t) # {})
    /\ UNCHANGED drops

Begin(t, op, at, arg) == BeginWith(t, op, at, arg, <<>>)

Goto(t, at) == call' = [call EXCEPT ![t].at = at] /\ UNCHANGED <<calls, drops, crowded>>

Learn(t, at, got) ==
    call' = [call EXCEPT ![t].at = at, ![t].got = got]
    /\ UNCHANGED <<calls, drops, crowded>>

Leave(t) ==
    /\ call' = [call EXCEPT ![t] = NoCall]
    /\ crowded' = (crowded /\ Others(t) # {})

Finish(t) == Leave(t) /\ UNCHANGED <<calls, drops>>

Drop(t) ==
    /\ Running(t)
    /\ drops > 0 /\ drops' = drops - 1
    /\ Leave(t)
    /\ UNCHANGED calls
=============================================================================
