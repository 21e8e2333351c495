---------------------------- MODULE Tasks_proofs ----------------------------
(***************************************************************************)
(* What the tasks of a component do, whichever component it is: lemmas for *)
(* the proofs about those that run as tasks.  And the greatest and least   *)
(* of a set of naturals, which FiniteSetsExt chooses.                      *)
(***************************************************************************)
EXTENDS Tasks, WellFoundedInduction, TLAPS

LOCAL INSTANCE FiniteSetsExt

\* A component on its own may begin any number of calls and lose any.
Budgets == [calls : Nat, drops : Nat]

USE TasksAssumption

\* A continuation has its four parts.
Shaped ==
    /\ call = [t \in Tasks |-> call[t]]
    /\ \A t \in Tasks : call[t] = [op |-> call[t].op, at |-> call[t].at,
                                   arg |-> call[t].arg, got |-> call[t].got]

\* The other tasks stay where they are.
Only(t) == \A u \in Tasks \ {t} : call'[u] = call[u]

\* Not crowded: at most one task runs.
Alone == ~ crowded => \A t, u \in Tasks : Running(t) /\ Running(u) => t = u

\* What a step of t does to the tasks: whoever else runs makes them a crowd.
Acts(t) == Shaped' /\ Alone' /\ Only(t) /\ \A u \in Tasks \ {t} : Running(u) => crowded'

\* A task that goes on is in the same call.
LEMMA Moves ==
    ASSUME Shaped, NEW t \in Tasks, NEW at, Goto(t, at) \/ \E got : Learn(t, at, got)
    PROVE  Shaped' /\ Only(t) /\ call'[t].op = call[t].op /\ call'[t].at = at
           /\ call'[t].arg = call[t].arg
  BY DEF Goto, Learn, Shaped, Only

\* What it has learned is kept.
LEMMA Learns ==
    ASSUME Shaped, NEW t \in Tasks, NEW at, NEW got, Learn(t, at, got)
    PROVE  call'[t].got = got /\ crowded' = crowded
<1>1. call'[t] = [[call[t] EXCEPT !.at = at] EXCEPT !.got = got]
  BY DEF Learn, Shaped
<1>2. "got" \in DOMAIN [call[t] EXCEPT !.at = at]
  BY DEF Shaped
<1>3. call'[t].got = got
  BY <1>1, <1>2, Zenon
<1> QED
  BY <1>3 DEF Learn

\* A task that ends, or is dropped, is in no call.
LEMMA Leaves ==
    ASSUME Shaped, NEW t \in Tasks, Finish(t) \/ Drop(t)
    PROVE  Shaped' /\ Only(t) /\ call'[t].op = "none"
  BY DEF Finish, Drop, Leave, Shaped, Only, NoCall

\* A call goes on, with what it now knows; or it is over.
Continues(t, at, got) ==
    /\ Shaped' /\ Only(t) /\ call'[t].op = call[t].op /\ call'[t].arg = call[t].arg
    /\ call'[t].at = at /\ call'[t].got = got
Ceases(t) == Shaped' /\ Only(t) /\ call'[t].op = "none"

LEMMA GotoGoes ==
    ASSUME Shaped, NEW t \in Tasks, NEW at, Goto(t, at)
    PROVE  Continues(t, at, Got(t))
  BY DEF Goto, Continues, Shaped, Only, Got

LEMMA LearnGoes ==
    ASSUME Shaped, NEW t \in Tasks, NEW at, NEW got, Learn(t, at, got)
    PROVE  Continues(t, at, got)
  BY Moves, Learns DEF Continues

LEMMA LeavesEnds ==
    ASSUME Shaped, NEW t \in Tasks, Finish(t) \/ Drop(t)
    PROVE  Ceases(t)
  BY Leaves DEF Ceases

\* A running task that goes on is as alone as it was.
LEMMA MoveActs ==
    ASSUME Shaped, Alone, NEW t \in Tasks, Running(t), NEW at, Goto(t, at) \/ \E got : Learn(t, at, got)
    PROVE  Acts(t)
<1>1. Shaped' /\ Only(t) /\ call'[t].op = call[t].op
  BY Moves
<1>2. crowded' = crowded
  BY DEF Goto, Learn
<1>3. \A u \in Tasks : Running(u)' <=> Running(u)
  BY <1>1 DEF Running, Only
<1>4. Alone'
  BY <1>2, <1>3 DEF Alone
<1>5. \A u \in Tasks \ {t} : Running(u) => crowded
  BY DEF Alone
<1> QED
  BY <1>1, <1>2, <1>4, <1>5 DEF Acts

\* When a task ends, a crowd is over once no other runs.
LEMMA LeaveActs ==
    ASSUME Shaped, Alone, NEW t \in Tasks, Running(t), Finish(t) \/ Drop(t)
    PROVE  Acts(t)
<1>1. Shaped' /\ Only(t) /\ call'[t].op = "none"
  BY Leaves
<1>2. crowded' = (crowded /\ Others(t) # {})
  BY DEF Finish, Drop, Leave
<1>3. \A u \in Tasks : Running(u)' <=> u # t /\ Running(u)
  BY <1>1 DEF Running, Only
<1>4. \A u \in Tasks \ {t} : Running(u) => crowded /\ u \in Others(t)
  BY DEF Alone, Others
<1>5. Alone'
  <2> SUFFICES ASSUME ~ crowded', NEW u \in Tasks, NEW v \in Tasks, Running(u)', Running(v)'
               PROVE  u = v
    BY DEF Alone
  <2>1. u # t /\ v # t /\ Running(u) /\ Running(v)
    BY <1>3
  <2> QED
    BY <1>2, <1>4, <2>1
<1> QED
  BY <1>1, <1>2, <1>4, <1>5 DEF Acts

\* A task has begun a call.
Begun(t) ==
    /\ ~ Running(t) /\ Shaped' /\ Only(t) /\ call'[t].op # "none"
    /\ crowded' = (crowded \/ Others(t) # {})

\* It makes a crowd with the task that runs.
LEMMA BeginActs ==
    ASSUME Alone, NEW t \in Tasks, Begun(t)
    PROVE  Acts(t)
<1>1. \A u \in Tasks \ {t} : Running(u) => crowded'
  BY DEF Begun, Others
<1>2. \A u \in Tasks : Running(u)' <=> u = t \/ Running(u)
  BY DEF Running, Only, Begun
<1>3. Alone'
  <2> SUFFICES ASSUME ~ crowded', NEW u \in Tasks, NEW v \in Tasks, Running(u)', Running(v)'
               PROVE  u = v
    BY DEF Alone
  <2>1. \A w \in Tasks \ {t} : ~ Running(w)
    BY <1>1
  <2> QED
    BY <1>2, <2>1
<1> QED
  BY <1>1, <1>3 DEF Acts, Begun

-----------------------------------------------------------------------------
\* A set of naturals has a least element.
LEMMA Least ==
    ASSUME NEW T, T \subseteq Nat, T # {}
    PROVE  \E x \in T : \A y \in T : x <= y
<1> DEFINE R == OpToRel(<, Nat)
<1>1. IsWellFoundedOn(R, Nat)
  BY NatLessThanWellFounded
<1> HIDE DEF R
<1>2. PICK x \in T : \A y \in T : ~ (<<y, x>> \in R)
  BY <1>1, WFMin
<1>3. \A y \in T : x <= y
  <2> SUFFICES ASSUME NEW y \in T, y < x PROVE FALSE
    OBVIOUS
  <2> QED
    BY <1>2 DEF R, OpToRel
<1> QED
  BY <1>3

\* With a bound it has a greatest one.
LEMMA Greatest ==
    ASSUME NEW S, S \subseteq Nat, S # {}, NEW n \in Nat, \A x \in S : x <= n
    PROVE  \E k \in S : \A y \in S : k >= y
<1> DEFINE Below == {d \in Nat : \E x \in S : d = n - x}
<1>1. Below # {}
  <2>1. PICK x \in S : TRUE
    OBVIOUS
  <2>2. n - x \in Below
    BY <2>1
  <2> QED
    BY <2>2
<1>2. PICK d \in Below : \A e \in Below : d <= e
  BY <1>1, Least
<1>3. PICK m \in S : d = n - m
  BY <1>2
<1>4. \A y \in S : m >= y
  <2> SUFFICES ASSUME NEW y \in S PROVE m >= y
    OBVIOUS
  <2>1. y \in Nat /\ y <= n /\ m \in Nat /\ m <= n
    OBVIOUS
  <2>2. n - y \in Below
    BY <2>1
  <2>3. n - m <= n - y
    BY <1>2, <1>3, <2>2
  <2> QED
    BY <2>1, <2>3
<1> HIDE DEF Below
<1> QED
  BY <1>4

\* That is what Max returns.
LEMMA MaxIsGreatest ==
    ASSUME NEW S, S \subseteq Nat, S # {}, NEW n \in Nat, \A x \in S : x <= n
    PROVE  Max(S) \in S /\ \A y \in S : y <= Max(S)
<1>1. \E k \in S : \A y \in S : k >= y
  BY Greatest
<1>2. Max(S) \in S /\ \A y \in S : Max(S) >= y
  BY <1>1, Zenon DEF Max
<1> QED
  BY <1>2
=============================================================================
