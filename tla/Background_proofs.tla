--------------------------- MODULE Background_proofs ---------------------------
(***************************************************************************)
(* Proofs about what runs behind the turns, each part on its own: the      *)
(* daily curation, the compaction of a conversation, the evaluation of     *)
(* replies, the MCP servers with the tools kept of them, and who is told   *)
(* by the notifications, for any number of tasks, calls and faults; and    *)
(* the daily quota, for any set of turns, costs, limit and number of days. *)
(***************************************************************************)
EXTENDS Tasks_proofs, Compaction, Evaluator, Curation, McpServers, Notifications, UsageLimiter,
        FiniteSetTheorems, TLAPS

LOCAL INSTANCE FiniteSetsExt

\* What Min returns of two naturals.
LEMMA MinOfTwo ==
    ASSUME NEW m \in Nat, NEW n \in Nat
    PROVE  Min({m, n}) = IF m <= n THEN m ELSE n
<1>1. \E x \in {m, n} : \A y \in {m, n} : x =< y
  OBVIOUS
<1>2. Min({m, n}) \in {m, n} /\ \A y \in {m, n} : Min({m, n}) =< y
  BY <1>1, Zenon DEF Min
<1> QED
  BY <1>2

-----------------------------------------------------------------------------
(* The curation agent. *)

CurationSpec == CurationInit /\ [][CurationNext]_cuVars

Places == {"rest", "list", "calls", "last", "emit"}

\* Times are not in the future, and the assistant a pass looks at is one.
Curated ==
    /\ clock \in Nat
    /\ suggestions \in Seq([of : Assistants, at : Nat])
    /\ \A i \in DOMAIN suggestions : suggestions[i].at <= clock
    /\ pass \in [at : Places, now : Nat, left : SUBSET Assistants, of : Assistants \cup {"none"}]
    /\ pass.now <= clock
    /\ pass.at \in {"last", "emit"} => pass.of \in Assistants

\* What the pass has read before it writes a suggestion: the last is a day old.
Aged ==
    pass.at = "emit" /\ Len(suggestions) <= SuggestionLimit =>
        \A i \in DOMAIN suggestions :
            suggestions[i].of = pass.of => suggestions[i].at + Day <= pass.now

\* There is a suggestion for a from the day before the pass, or by it.
Told(a) ==
    \E i \in DOMAIN suggestions : suggestions[i].of = a /\ pass.now < suggestions[i].at + Day

\* Whoever fails too often is told, or is the one the pass looks at.
Heeded ==
    /\ pass.at = "list" => failing = {}
    /\ \A a \in failing \ missed : Told(a) \/ (pass.at \in {"last", "emit"} /\ a = pass.of)

CurationInv == Curated /\ OnceADay /\ Aged /\ Heeded

\* A suggestion has its assistant and its time.
LEMMA Dated ==
    ASSUME Curated
    PROVE  /\ DOMAIN suggestions = 1..Len(suggestions) /\ Len(suggestions) \in Nat
           /\ \A i \in DOMAIN suggestions :
                suggestions[i].of \in Assistants /\ suggestions[i].at \in Nat /\ suggestions[i].at <= clock
<1> DEFINE Suggestion == [of : Assistants, at : Nat]
<1>1. suggestions \in Seq(Suggestion)
  BY DEF Curated
<1>2. \A x \in Suggestion : x.of \in Assistants /\ x.at \in Nat
  OBVIOUS
<1> HIDE DEF Suggestion
<1>3. \A i \in DOMAIN suggestions : suggestions[i] \in Suggestion
  BY <1>1
<1> QED
  BY <1>1, <1>2, <1>3 DEF Curated

\* When all rows are read they are all of them.
LEMMA LooksAtAll ==
    ASSUME Curated, NEW rows \in Looked, Len(suggestions) <= SuggestionLimit
    PROVE  rows = DOMAIN suggestions
<1>1. Len(suggestions) \in Nat /\ SuggestionLimit \in Nat /\ DOMAIN suggestions = 1..Len(suggestions)
  BY CurationAssumption, Dated
<1>2. Min({SuggestionLimit, Len(suggestions)}) = Len(suggestions)
  BY <1>1, MinOfTwo
<1>3. IsFiniteSet(DOMAIN suggestions) /\ Cardinality(DOMAIN suggestions) = Len(suggestions)
  <2>1. 1 \in Int /\ Len(suggestions) \in Int
    BY <1>1
  <2>2. IsFiniteSet(1..Len(suggestions))
        /\ Cardinality(1..Len(suggestions)) = IF 1 > Len(suggestions) THEN 0 ELSE Len(suggestions) - 1 + 1
    BY <2>1, FS_Interval, Zenon
  <2> QED
    BY <1>1, <2>2
<1>4. rows \in SUBSET (DOMAIN suggestions) /\ Cardinality(rows) = Len(suggestions)
  BY <1>2 DEF Looked
<1> QED
  BY <1>3, <1>4, FS_Subset

\* The times of some rows of an assistant, and the latest of them.
LEMMA LatestIsWritten ==
    ASSUME Curated, NEW rows \in Looked, NEW a, WrittenAt(a, rows) # {}
    PROVE  /\ Max(WrittenAt(a, rows)) \in WrittenAt(a, rows)
           /\ \A x \in WrittenAt(a, rows) : x \in Nat /\ x <= Max(WrittenAt(a, rows))
<1>1. rows \subseteq DOMAIN suggestions
  BY DEF Looked
<1>2. \A x \in WrittenAt(a, rows) : x \in Nat /\ x <= clock
  BY <1>1, Dated DEF WrittenAt
<1>3. clock \in Nat
  BY DEF Curated
<1> QED
  BY <1>2, <1>3, MaxIsGreatest

\* The next assistant, or the end of the pass.
LEMMA GoesOn ==
    ASSUME Curated, NEW left \in SUBSET Assistants, NextOne(left)
    PROVE  /\ pass' \in [at : {"rest", "calls"}, now : Nat, left : SUBSET Assistants, of : {"none"}]
           /\ pass'.now = pass.now
  BY DEF Curated, NextOne, Resting

\* A step after which the suggestions are the same and no pass is to write one.
LEMMA NothingWritten ==
    ASSUME CurationInv, UNCHANGED suggestions, pass'.at # "emit", Curated', Heeded'
    PROVE  CurationInv'
  BY DEF CurationInv, OnceADay, Aged

LEMMA FiresStep == ASSUME CurationInv, Fires PROVE CurationInv'
<1>1. pass' = [pass EXCEPT !.at = "list"] /\ UNCHANGED <<clock, suggestions>> /\ failing' = {}
  BY DEF Fires, Goes
<1>2. Curated' /\ pass'.at = "list"
  BY <1>1 DEF CurationInv, Curated, Places
<1> QED
  BY <1>1, <1>2, NothingWritten DEF Heeded

LEMMA ListAllStep == ASSUME CurationInv, ListAll PROVE CurationInv'
<1>1. /\ pass' = [at |-> "calls", now |-> clock, left |-> Assistants, of |-> "none"]
      /\ pass.at = "list" /\ UNCHANGED <<clock, suggestions, failing>>
  BY DEF ListAll
<1>2. Curated'
  BY <1>1 DEF CurationInv, Curated, Places
<1>3. failing' = {}
  BY <1>1 DEF CurationInv, Heeded
<1> QED
  BY <1>1, <1>2, <1>3, NothingWritten DEF Heeded

\* The calls of an assistant failed too often, or not.
LEMMA ReadCallsStep == ASSUME CurationInv, ReadCalls PROVE CurationInv'
<1>1. /\ pass.at = "calls" /\ UNCHANGED <<clock, suggestions, missed>>
      /\ Curated /\ Heeded
  BY DEF ReadCalls, CurationInv
<1>2. \A a \in failing \ missed : Told(a)
  BY <1>1 DEF Heeded
<1>3. ASSUME NEW a \in pass.left, failing' = failing \cup {a},
             pass' = [pass EXCEPT !.at = "last", !.left = @ \ {a}, !.of = a]
      PROVE  CurationInv'
  <2>1. pass'.at = "last" /\ pass'.of = a /\ pass'.now = pass.now
    BY <1>1, <1>3 DEF Curated
  <2>2. Curated'
    BY <1>1, <1>3 DEF Curated, Places
  <2>3. Heeded'
    BY <1>1, <1>2, <1>3, <2>1 DEF Heeded, Told
  <2> QED
    BY <1>1, <2>1, <2>2, <2>3, NothingWritten
<1>4. ASSUME NEW a \in pass.left, NextOne(pass.left \ {a}), UNCHANGED failing
      PROVE  CurationInv'
  <2>1. pass.left \ {a} \in SUBSET Assistants
    BY <1>1 DEF Curated
  <2>2. /\ pass' \in [at : {"rest", "calls"}, now : Nat, left : SUBSET Assistants, of : {"none"}]
        /\ pass'.now = pass.now
    BY <1>1, <1>4, <2>1, GoesOn
  <2>3. Curated'
    BY <1>1, <2>2 DEF Curated, Places
  <2>4. Heeded'
    BY <1>1, <1>2, <1>4, <2>2 DEF Heeded, Told
  <2> QED
    BY <1>1, <2>2, <2>3, <2>4, NothingWritten
<1> QED
  BY <1>3, <1>4 DEF ReadCalls

\* The last suggestion is younger than a day, or there is none that is.
LEMMA ReadLastStep == ASSUME CurationInv, ReadLast PROVE CurationInv'
<1>1. /\ pass.at = "last" /\ UNCHANGED <<clock, suggestions, failing, missed>>
      /\ Curated /\ Heeded /\ OnceADay /\ pass.of \in Assistants
      /\ clock \in Nat /\ pass.now \in Nat /\ Day \in Nat
  BY CurationAssumption DEF ReadLast, CurationInv, Curated
<1>2. PICK rows \in Looked :
        IF WithinDedup(pass.now, WrittenAt(pass.of, rows)) THEN NextOne(pass.left) ELSE Goes("emit")
  BY DEF ReadLast
<1>3. CASE WithinDedup(pass.now, WrittenAt(pass.of, rows))
  <2>1. NextOne(pass.left) /\ pass.left \in SUBSET Assistants
    BY <1>1, <1>2, <1>3 DEF Curated
  <2>2. /\ pass' \in [at : {"rest", "calls"}, now : Nat, left : SUBSET Assistants, of : {"none"}]
        /\ pass'.now = pass.now
    BY <1>1, <2>1, GoesOn
  <2>3. Curated'
    BY <1>1, <2>2 DEF Curated, Places
  <2>4. /\ WrittenAt(pass.of, rows) # {}
        /\ pass.now < Max(WrittenAt(pass.of, rows)) + Day
    BY <1>3 DEF WithinDedup
  <2>5. Max(WrittenAt(pass.of, rows)) \in WrittenAt(pass.of, rows)
    BY <1>1, <2>4, LatestIsWritten
  <2>6. PICK i \in rows : suggestions[i].of = pass.of /\ Max(WrittenAt(pass.of, rows)) = suggestions[i].at
    BY <2>5 DEF WrittenAt
  <2>7. Told(pass.of)
    BY <2>4, <2>6 DEF Told, Looked
  <2>8. Heeded'
    BY <1>1, <2>2, <2>7 DEF Heeded, Told
  <2> QED
    BY <1>1, <2>2, <2>3, <2>8, NothingWritten
<1>4. CASE ~ WithinDedup(pass.now, WrittenAt(pass.of, rows))
  <2>1. pass' = [pass EXCEPT !.at = "emit"]
    BY <1>2, <1>4 DEF Goes
  <2>2. pass'.at = "emit" /\ pass'.now = pass.now /\ pass'.of = pass.of
    BY <1>1, <2>1 DEF Curated
  <2>3. Curated'
    BY <1>1, <2>1 DEF Curated, Places
  <2>4. Heeded'
    BY <1>1, <2>2 DEF Heeded, Told
  <2>5. ASSUME Len(suggestions) <= SuggestionLimit,
               NEW i \in DOMAIN suggestions, suggestions[i].of = pass.of
        PROVE  suggestions[i].at + Day <= pass.now
    <3>1. rows = DOMAIN suggestions
      BY <1>1, <2>5, LooksAtAll
    <3>2. suggestions[i].at \in WrittenAt(pass.of, rows)
      BY <2>5, <3>1 DEF WrittenAt
    <3> DEFINE latest == Max(WrittenAt(pass.of, rows))
    <3>3. /\ latest \in WrittenAt(pass.of, rows)
          /\ \A x \in WrittenAt(pass.of, rows) : x \in Nat /\ x <= latest
      BY <1>1, <3>2, LatestIsWritten
    <3>4. ~ (pass.now < latest + Day)
      BY <1>4, <3>2 DEF WithinDedup
    <3>5. latest \in Nat /\ suggestions[i].at \in Nat /\ suggestions[i].at <= latest
      BY <3>2, <3>3
    <3> HIDE DEF latest
    <3> QED
      BY <1>1, <3>4, <3>5
  <2>6. Aged'
    BY <1>1, <2>2, <2>5 DEF Aged
  <2>7. OnceADay'
    BY <1>1 DEF OnceADay
  <2> QED
    BY <2>3, <2>4, <2>6, <2>7 DEF CurationInv
<1> QED
  BY <1>3, <1>4

\* The suggestion is written at the time of the clock.
LEMMA EmitStep == ASSUME CurationInv, Emit PROVE CurationInv'
<1> DEFINE new == [of |-> pass.of, at |-> clock]
<1>1. /\ pass.at = "emit" /\ UNCHANGED <<clock, failing, missed>>
      /\ suggestions' = Append(suggestions, new) /\ NextOne(pass.left)
      /\ Curated /\ Heeded /\ OnceADay /\ Aged /\ pass.of \in Assistants
      /\ clock \in Nat /\ pass.now \in Nat /\ pass.now <= clock
      /\ Day \in Nat \ {0} /\ SuggestionLimit \in Nat
  BY CurationAssumption DEF Emit, CurationInv, Curated
<1>2. /\ pass' \in [at : {"rest", "calls"}, now : Nat, left : SUBSET Assistants, of : {"none"}]
      /\ pass'.now = pass.now
  <2>1. pass.left \in SUBSET Assistants
    BY <1>1 DEF Curated
  <2> QED
    BY <1>1, <2>1, GoesOn
<1>3. /\ suggestions \in Seq([of : Assistants, at : Nat]) /\ new \in [of : Assistants, at : Nat]
      /\ DOMAIN suggestions = 1..Len(suggestions) /\ Len(suggestions) \in Nat
  BY <1>1 DEF Curated
<1>4. /\ suggestions' \in Seq([of : Assistants, at : Nat])
      /\ Len(suggestions') = Len(suggestions) + 1
      /\ DOMAIN suggestions' = 1..(Len(suggestions) + 1)
      /\ suggestions'[Len(suggestions) + 1] = new
      /\ \A i \in 1..Len(suggestions) : suggestions'[i] = suggestions[i]
  BY <1>1, <1>3
<1>5. new.of = pass.of /\ new.at = clock
  OBVIOUS
<1> HIDE DEF new
<1>6. \A i \in 1..Len(suggestions) : suggestions[i].at \in Nat
  BY <1>1, <1>3, Dated
<1>7. Curated'
  <2>1. \A i \in DOMAIN suggestions' : suggestions'[i].at <= clock
    BY <1>1, <1>3, <1>4, <1>5 DEF Curated
  <2>2. suggestions' \in Seq([of : Assistants, at : Nat]) /\ clock' = clock /\ clock \in Nat
    BY <1>1, <1>4
  <2>3. pass'.now <= clock' /\ pass'.at \notin {"last", "emit"}
    BY <1>1, <1>2
  <2>4. pass' \in [at : Places, now : Nat, left : SUBSET Assistants, of : Assistants \cup {"none"}]
    BY <1>2 DEF Places
  <2> QED
    BY <2>1, <2>2, <2>3, <2>4 DEF Curated
<1>8. Heeded'
  <2>1. \A a : Told(a) => Told(a)'
    BY <1>2, <1>3, <1>4 DEF Told
  <2>2. ASSUME NEW a, a = pass.of PROVE Told(a)'
    <3>1. pass'.now = pass.now /\ pass.now < clock + Day
      BY <1>1, <1>2
    <3>2. Len(suggestions) + 1 \in DOMAIN suggestions'
      BY <1>3, <1>4
    <3> QED
      BY <1>4, <1>5, <2>2, <3>1, <3>2 DEF Told
  <2>3. \A a \in failing' \ missed' : Told(a)'
    <3> SUFFICES ASSUME NEW a \in failing \ missed PROVE Told(a)'
      BY <1>1
    <3>1. CASE Told(a)
      BY <2>1, <3>1
    <3>2. CASE a = pass.of
      BY <2>2, <3>2
    <3> QED
      BY <1>1, <3>1, <3>2 DEF Heeded
  <2> QED
    BY <1>2, <2>3 DEF Heeded
<1>9. OnceADay'
  <2> SUFFICES ASSUME Len(suggestions') <= SuggestionLimit + 1,
                      NEW i \in DOMAIN suggestions', NEW j \in DOMAIN suggestions',
                      i < j, suggestions'[i].of = suggestions'[j].of
               PROVE  suggestions'[i].at + Day <= suggestions'[j].at
    BY DEF OnceADay
  <2>1. Len(suggestions) <= SuggestionLimit /\ i \in 1..Len(suggestions) /\ suggestions'[i] = suggestions[i]
    BY <1>1, <1>3, <1>4
  <2>2. CASE j = Len(suggestions) + 1
    <3>1. suggestions[i].at + Day <= pass.now
      BY <1>1, <1>3, <1>4, <1>5, <2>1, <2>2 DEF Aged
    <3> QED
      BY <1>1, <1>4, <1>5, <1>6, <2>1, <2>2, <3>1
  <2>3. CASE j # Len(suggestions) + 1
    <3>1. j \in 1..Len(suggestions) /\ suggestions'[j] = suggestions[j]
      BY <1>3, <1>4, <2>3
    <3> QED
      BY <1>1, <1>3, <2>1, <3>1 DEF OnceADay
  <2> QED
    BY <2>2, <2>3
<1> QED
  BY <1>2, <1>7, <1>8, <1>9 DEF CurationInv, Aged

\* A fault of the pass, and a restart.
LEMMA FaultSteps == ASSUME CurationInv, PassFails \/ Restarts PROVE CurationInv'
<1>1. UNCHANGED <<clock, suggestions>> /\ Curated /\ Heeded /\ clock \in Nat
  BY DEF PassFails, Restarts, CurationInv, Curated
<1>2. ASSUME pass' = Resting, failing' \ missed' = {} PROVE CurationInv'
  <2>1. Curated'
    BY <1>1, <1>2 DEF Curated, Resting, Places
  <2>2. Heeded' /\ pass'.at = "rest"
    BY <1>2 DEF Heeded, Resting
  <2> QED
    BY <1>1, <2>1, <2>2, NothingWritten
<1>3. ASSUME NEW left \in SUBSET Assistants, NextOne(left), UNCHANGED failing,
             NEW a, missed' = missed \cup {a},
             pass.at \in {"last", "emit"} => a = pass.of
      PROVE  CurationInv'
  <2>1. /\ pass' \in [at : {"rest", "calls"}, now : Nat, left : SUBSET Assistants, of : {"none"}]
        /\ pass'.now = pass.now
    BY <1>1, <1>3, GoesOn
  <2>2. Curated'
    BY <1>1, <2>1 DEF Curated, Places
  <2>3. Heeded'
    BY <1>1, <1>3, <2>1 DEF Heeded, Told
  <2> QED
    BY <1>1, <2>1, <2>2, <2>3, NothingWritten
<1>4. CASE PassFails /\ pass.at = "list"
  <2>1. pass' = Resting /\ UNCHANGED failing
    BY <1>4 DEF PassFails
  <2>2. failing = {}
    BY <1>1, <1>4 DEF Heeded
  <2> QED
    BY <1>2, <2>1, <2>2
<1>5. CASE PassFails /\ pass.at = "calls"
  <2>1. PICK a \in pass.left : NextOne(pass.left \ {a}) /\ missed' = missed \cup {a} /\ UNCHANGED failing
    BY <1>5 DEF PassFails
  <2>2. pass.left \ {a} \in SUBSET Assistants
    BY <1>1 DEF Curated
  <2> QED
    BY <1>3, <1>5, <2>1, <2>2
<1>6. CASE PassFails /\ pass.at \notin {"list", "calls"}
  <2>1. NextOne(pass.left) /\ missed' = missed \cup {pass.of} /\ UNCHANGED failing
    BY <1>6 DEF PassFails
  <2>2. pass.left \in SUBSET Assistants
    BY <1>1 DEF Curated
  <2> QED
    BY <1>3, <2>1, <2>2
<1>7. CASE Restarts
  BY <1>2, <1>7 DEF Restarts
<1> QED
  BY <1>4, <1>5, <1>6, <1>7

LEMMA AroundSteps == ASSUME CurationInv, LogsCall \/ TimePasses PROVE CurationInv'
<1>1. UNCHANGED <<suggestions, pass, failing, missed>> /\ clock' \in {clock, clock + 1}
  BY DEF LogsCall, TimePasses
<1>2. Curated'
  <2>1. Curated /\ clock \in Nat /\ pass.now \in Nat
    BY DEF CurationInv, Curated
  <2>2. \A i \in DOMAIN suggestions : suggestions[i].at \in Nat /\ suggestions[i].at <= clock'
    BY <1>1, <2>1, Dated
  <2> QED
    BY <1>1, <2>1, <2>2 DEF Curated
<1> QED
  BY <1>1, <1>2 DEF CurationInv, OnceADay, Aged, Heeded, Told

\* Every step keeps the invariant, and it holds at the start.
LEMMA CurationInductive ==
    /\ CurationInit => CurationInv
    /\ CurationInv /\ [CurationNext]_cuVars => CurationInv'
<1>1. ASSUME CurationInit PROVE CurationInv
  BY <1>1 DEF CurationInit, CurationInv, Curated, OnceADay, Aged, Heeded, Resting, Places
<1>2. ASSUME CurationInv, UNCHANGED cuVars PROVE CurationInv'
  BY <1>2 DEF cuVars, CurationInv, Curated, OnceADay, Aged, Heeded, Told
<1>3. ASSUME CurationInv, CurationNext PROVE CurationInv'
  BY <1>3, FiresStep, ListAllStep, ReadCallsStep, ReadLastStep, EmitStep, FaultSteps, AroundSteps
     DEF CurationNext
<1> QED
  BY <1>1, <1>2, <1>3

\* However long a pass takes and whatever fails in it, an assistant gets at
\* most one suggestion a day, and one that fails too often and was not missed
\* has one after the pass; for any number of assistants, passes and faults.
THEOREM SuggestionsAreRight == CurationSpec => []SuggestionsHold
<1>1. CurationInv => SuggestionsHold
  BY DEF CurationInv, SuggestionsHold, FailingIsTold, Heeded, Told
<1> QED
  BY <1>1, CurationInductive, PTL DEF CurationSpec

-----------------------------------------------------------------------------
(* The history of a turn, and its compaction. *)

CompactionNext == SlotExpires \/ \E t \in Tasks : CompactionStep(t)
CompactionSpec == CompactionInit /\ TasksInit(Budgets) /\ [][CompactionNext]_<<tasking, cpVars>>

\* A claim is won only while no row is there.
Claimed == won \in Nat /\ won <= 1 /\ (~ slot => won = 0)

\* What was read of the conversation ends with the newest message, and has as
\* many as a turn is shown unless there are fewer.
WideOf(g) ==
    /\ g.wide = Run(g.wide.first, g.wide.last)
    /\ g.wide.first \in Nat \ {0} /\ g.wide.last \in Nat
    /\ g.wide.first = 1 \/ g.wide.first + Narrow <= g.wide.last + 1
    /\ g.mine \in Nat \ {0} /\ g.mine <= g.wide.last

\* What a turn shows: the tail, or a summary and what it kept.
Plain(g)     == g.summary = NoRun /\ g.history = FallbackTail(g.wide)
Compacted(g) ==
    /\ Length(Older(g.wide)) > 0
    /\ g.summary = Transcript(Older(g.wide)) /\ g.history = Kept(g.wide)

Whole(g) == g = [mine |-> g.mine, wide |-> g.wide, summary |-> g.summary,
                 history |-> g.history, handoff |-> g.handoff]

Shows(t) ==
    LET g == call[t].got IN
    call[t].op = "turn" =>
        /\ g.mine \in Nat \ {0} /\ g.mine <= Len(messages)
        /\ call[t].at # "read" => Whole(g) /\ WideOf(g) /\ (Plain(g) \/ Compacted(g))

CompactionInv == Shaped /\ messages \in Seq(Nat) /\ Claimed /\ \A t \in Tasks : Shows(t)

\* What Recent returns of a conversation, for either limit.
LEMMA RecentIsWide ==
    ASSUME messages \in Seq(Nat), NEW limit \in {Wide, Narrow}, NEW g, g.wide = Recent(limit),
           g.mine \in Nat \ {0}, g.mine <= Len(messages)
    PROVE  WideOf(g)
<1>1. /\ Len(messages) \in Nat /\ limit \in Nat \ {0} /\ Narrow \in Nat \ {0} /\ Narrow <= limit
  BY CompactionAssumption
<1>2. CASE Len(messages) > limit
  <2>1. g.wide = [first |-> (Len(messages) + 1) - limit, last |-> Len(messages)]
    BY <1>1, <1>2 DEF Recent, LastOf, Run, Length
  <2>2. g.wide.first = (Len(messages) + 1) - limit /\ g.wide.last = Len(messages)
    BY <2>1
  <2> QED
    BY <1>1, <1>2, <2>1, <2>2 DEF WideOf, Run
<1>3. CASE ~ (Len(messages) > limit)
  <2>1. g.wide = [first |-> 1, last |-> Len(messages)]
    BY <1>1, <1>3 DEF Recent, LastOf, Run, Length
  <2>2. g.wide.first = 1 /\ g.wide.last = Len(messages)
    BY <2>1
  <2> QED
    BY <1>1, <2>1, <2>2 DEF WideOf, Run
<1> QED
  BY <1>2, <1>3

\* The tail has the message the turn answers, unless so many came after it.
LEMMA PlainIsSeamless ==
    ASSUME NEW g, WideOf(g), Plain(g)
    PROVE  /\ g.history.last = g.wide.last
           /\ g.wide.last - g.mine < Narrow => g.mine \in g.history.first..g.history.last
<1>1. Narrow \in Nat \ {0}
  BY CompactionAssumption
<1>2. CASE Length(g.wide) > Narrow
  <2>1. g.history = [first |-> (g.wide.last + 1) - Narrow, last |-> g.wide.last]
    BY <1>2 DEF Plain, FallbackTail, LastOf, Run
  <2>2. g.history.first = (g.wide.last + 1) - Narrow /\ g.history.last = g.wide.last
    BY <2>1
  <2> QED
    BY <1>1, <2>2 DEF WideOf
<1>3. CASE ~ (Length(g.wide) > Narrow)
  <2>1. g.history = g.wide
    BY <1>3 DEF Plain, FallbackTail, LastOf
  <2> QED
    BY <1>1, <2>1 DEF WideOf
<1> QED
  BY <1>2, <1>3

\* A summary ends where what was kept begins, or before when it was cut.
LEMMA CompactedIsSeamless ==
    ASSUME NEW g, WideOf(g), Compacted(g)
    PROVE  /\ g.history.last = g.wide.last
           /\ g.summary.first = g.wide.first /\ g.summary.last < g.history.first
           /\ Length(Older(g.wide)) <= TranscriptCap => g.summary.last + 1 = g.history.first
           /\ g.wide.last - g.mine < KeepRecent => g.mine \in g.history.first..g.history.last
<1>1. /\ KeepRecent \in Nat \ {0} /\ TranscriptCap \in Nat \ {0}
      /\ g.wide.first \in Nat \ {0} /\ g.wide.last \in Nat /\ g.mine \in Nat /\ g.mine <= g.wide.last
  BY CompactionAssumption DEF WideOf
<1>2. Length(g.wide) > KeepRecent
  <2> SUFFICES ASSUME ~ (Length(g.wide) > KeepRecent) PROVE FALSE
    OBVIOUS
  <2>1. LastOf(g.wide, KeepRecent) = g.wide
    BY DEF LastOf
  <2>2. Older(g.wide) = [first |-> g.wide.first, last |-> g.wide.last - ((g.wide.last + 1) - g.wide.first)]
    BY <2>1 DEF Older, Length, Run
  <2>3. Length(Older(g.wide)) = (g.wide.last - ((g.wide.last + 1) - g.wide.first) + 1) - g.wide.first
    BY <2>2 DEF Length
  <2> QED
    BY <1>1, <2>3 DEF Compacted
<1>3. LastOf(g.wide, KeepRecent) = [first |-> (g.wide.last + 1) - KeepRecent, last |-> g.wide.last]
  BY <1>2 DEF LastOf, Run
<1>4. Older(g.wide) = [first |-> g.wide.first, last |-> g.wide.last - KeepRecent]
  <2>1. Length(LastOf(g.wide, KeepRecent)) = KeepRecent
    BY <1>1, <1>3 DEF Length
  <2> QED
    BY <2>1 DEF Older, Run
<1>5. g.history.first = (g.wide.last + 1) - KeepRecent /\ g.history.last = g.wide.last
  BY <1>3 DEF Compacted, Kept
<1>6. /\ Older(g.wide).first = g.wide.first /\ Older(g.wide).last = g.wide.last - KeepRecent
      /\ Length(Older(g.wide)) = ((g.wide.last - KeepRecent) + 1) - g.wide.first
  BY <1>4 DEF Length
<1>7. CASE Length(Older(g.wide)) > TranscriptCap
  <2>1. g.summary = Run(Older(g.wide).first, Older(g.wide).first + TranscriptCap - 1)
    BY <1>7 DEF Compacted, Transcript
  <2>2. g.summary = Run(g.wide.first, g.wide.first + TranscriptCap - 1)
    BY <1>6, <2>1
  <2>3. g.summary.first = g.wide.first /\ g.summary.last = g.wide.first + TranscriptCap - 1
    BY <2>2 DEF Run
  <2> QED
    BY <1>1, <1>5, <1>6, <1>7, <2>3
<1>8. CASE ~ (Length(Older(g.wide)) > TranscriptCap)
  <2>1. g.summary = Older(g.wide)
    BY <1>8 DEF Compacted, Transcript
  <2> QED
    BY <1>1, <1>5, <1>6, <1>8, <2>1
<1> QED
  BY <1>7, <1>8

\* What every task shows is right.
LEMMA ShownIsSeamless == ASSUME CompactionInv PROVE HistoryIsSeamless
<1> SUFFICES ASSUME NEW t \in Tasks, On(t, "turn", "load") \/ On(t, "turn", "answer")
             PROVE  LET got == Got(t) IN
                    /\ got.history.last = got.wide.last
                    /\ got.summary # NoRun =>
                        /\ got.summary.first = got.wide.first /\ got.summary.last < got.history.first
                        /\ Length(Older(got.wide)) <= TranscriptCap =>
                            got.summary.last + 1 = got.history.first
                    /\ got.wide.last - got.mine < KeepRecent /\ got.wide.last - got.mine < Narrow
                        => got.mine \in got.history.first..got.history.last
  BY DEF HistoryIsSeamless
<1>1. WideOf(call[t].got) /\ (Plain(call[t].got) \/ Compacted(call[t].got))
  BY DEF CompactionInv, Shows, On
<1>2. CASE Plain(call[t].got)
  BY <1>1, <1>2, PlainIsSeamless DEF Plain, Got
<1>3. CASE Compacted(call[t].got)
  BY <1>1, <1>3, CompactedIsSeamless DEF Got
<1> QED
  BY <1>1, <1>2, <1>3

-----------------------------------------------------------------------------

\* A step of one task that takes no message away.
LEMMA TurnStep ==
    ASSUME CompactionInv, NEW t \in Tasks, Shaped', Only(t), Claimed', Shows(t)',
           messages' \in Seq(Nat), Len(messages') >= Len(messages)
    PROVE  CompactionInv'
<1>1. ASSUME NEW u \in Tasks, u # t PROVE Shows(u)'
  <2>1. call'[u] = call[u] /\ Shows(u) /\ Len(messages) \in Nat /\ Len(messages') \in Nat
    BY <1>1 DEF CompactionInv, Only
  <2> QED
    BY <2>1 DEF Shows
<1> QED
  BY <1>1 DEF CompactionInv

\* A turn that goes on with what it knows.
LEMMA GoesWithIt ==
    ASSUME CompactionInv, NEW t \in Tasks, NEW at, Goto(t, at), call[t].op = "turn",
           call[t].at # "read", UNCHANGED messages, Claimed'
    PROVE  CompactionInv'
<1>1. Shaped /\ Shows(t) /\ messages \in Seq(Nat)
  BY DEF CompactionInv
<1>2. Shaped' /\ Only(t) /\ call'[t].op = "turn" /\ call'[t].got = call[t].got
  <2>1. Shaped' /\ Only(t) /\ call'[t].op = "turn"
    BY <1>1, Moves
  <2>2. call'[t].got = call[t].got
    BY <1>1 DEF Goto, Shaped
  <2> QED
    BY <2>1, <2>2
<1>3. Shows(t)'
  BY <1>1, <1>2 DEF Shows
<1>4. Len(messages') >= Len(messages)
  BY <1>1
<1> QED
  BY <1>1, <1>2, <1>3, <1>4, TurnStep

\* A turn that has learned more.
LEMMA LearnsMore ==
    ASSUME CompactionInv, NEW t \in Tasks, NEW at, NEW g, Learn(t, at, g), call[t].op = "turn",
           UNCHANGED <<messages, slot, won>>, g.mine = call[t].got.mine,
           Whole(g), WideOf(g), Plain(g) \/ Compacted(g)
    PROVE  CompactionInv'
<1>1. Shaped /\ Shows(t) /\ messages \in Seq(Nat) /\ Claimed
  BY DEF CompactionInv
<1>2. Shaped' /\ Only(t) /\ call'[t].op = "turn" /\ call'[t].got = g
  BY <1>1, Moves, Learns
<1>3. g.mine \in Nat \ {0} /\ g.mine <= Len(messages)
  BY <1>1 DEF Shows
<1>4. Shows(t)'
  BY <1>2, <1>3 DEF Shows
<1>5. Claimed' /\ Len(messages') >= Len(messages)
  BY <1>1 DEF Claimed
<1> QED
  BY <1>1, <1>2, <1>4, <1>5, TurnStep

LEMMA TakeMessageStep ==
    ASSUME CompactionInv, NEW t \in Tasks, TakeMessage(t)
    PROVE  CompactionInv'
<1>1. Shaped /\ messages \in Seq(Nat) /\ Claimed /\ Len(messages) \in Nat
  BY DEF CompactionInv
<1>2. PICK compact \in BOOLEAN :
        BeginWith(t, "turn", "read", [compact |-> compact], [mine |-> Len(messages) + 1])
  BY DEF TakeMessage
<1>3. Shaped' /\ Only(t) /\ call'[t].at = "read" /\ call'[t].got = [mine |-> Len(messages) + 1]
  BY <1>1, <1>2 DEF BeginWith, Shaped, Only
<1>4. messages' \in Seq(Nat) /\ Len(messages') = Len(messages) + 1 /\ UNCHANGED <<slot, won>>
  BY <1>1 DEF TakeMessage
<1>5. Shows(t)'
  BY <1>1, <1>3, <1>4 DEF Shows
<1>6. Claimed'
  BY <1>1, <1>4 DEF Claimed
<1> QED
  BY <1>1, <1>3, <1>4, <1>5, <1>6, TurnStep

LEMMA ReadHistoryStep ==
    ASSUME CompactionInv, NEW t \in Tasks, ReadHistory(t)
    PROVE  CompactionInv'
<1>1. PICK limit \in {Wide, Narrow} : \E at \in {"claim", "load"} :
        Learn(t, at, [mine |-> Got(t).mine, wide |-> Recent(limit), summary |-> NoRun,
                      history |-> FallbackTail(Recent(limit)), handoff |-> NoRun])
  BY DEF ReadHistory
<1> DEFINE g == [mine |-> Got(t).mine, wide |-> Recent(limit), summary |-> NoRun,
                 history |-> FallbackTail(Recent(limit)), handoff |-> NoRun]
<1>2. PICK at \in {"claim", "load"} : Learn(t, at, g)
  BY <1>1
<1>3. /\ g.mine = call[t].got.mine /\ g.wide = Recent(limit) /\ g.summary = NoRun
      /\ g.history = FallbackTail(g.wide) /\ Whole(g)
  BY DEF Got, Whole
<1> HIDE DEF g
<1>4. call[t].op = "turn" /\ UNCHANGED <<messages, slot, won>>
  BY DEF ReadHistory, On, cpVars
<1>5. messages \in Seq(Nat) /\ g.mine \in Nat \ {0} /\ g.mine <= Len(messages)
  BY <1>3, <1>4 DEF CompactionInv, Shows
<1>6. WideOf(g)
  BY <1>3, <1>5, RecentIsWide
<1> QED
  BY <1>2, <1>3, <1>4, <1>6, LearnsMore DEF Plain

\* The slot, and the calls that may fail.
LEMMA CompactSteps ==
    ASSUME CompactionInv, NEW t \in Tasks,
           \/ Claim(t) \/ ClaimFails(t) \/ SummariseFails(t)
           \/ ExtractHandoff(t) \/ NoHandoff(t) \/ SaveHandoff(t)
    PROVE  CompactionInv'
<1>1. call[t].op = "turn" /\ call[t].at # "read" /\ UNCHANGED messages /\ Claimed
  BY DEF Claim, ClaimFails, SummariseFails, ExtractHandoff, NoHandoff, SaveHandoff, On, cpVars, CompactionInv
<1>2. \E at : Goto(t, at)
  BY DEF Claim, ClaimFails, SummariseFails, ExtractHandoff, NoHandoff, SaveHandoff, FallBack
<1>3. Claimed'
  <2>1. CASE Claim(t)
    BY <1>1, <2>1 DEF Claim, Claimed
  <2>2. CASE ClaimFails(t)
    <3>1. won' = won /\ (slot' = slot \/ slot' = TRUE)
      BY <2>2 DEF ClaimFails
    <3> QED
      BY <1>1, <3>1 DEF Claimed
  <2>3. CASE UNCHANGED <<slot, won>>
    BY <1>1, <2>3 DEF Claimed
  <2> QED
    BY <2>1, <2>2, <2>3 DEF SummariseFails, ExtractHandoff, NoHandoff, SaveHandoff, cpVars
<1> QED
  BY <1>1, <1>2, <1>3, GoesWithIt

LEMMA SummariseStep ==
    ASSUME CompactionInv, NEW t \in Tasks, Summarise(t)
    PROVE  CompactionInv'
<1> DEFINE old == call[t].got
           g   == [old EXCEPT !.summary = Transcript(Older(old.wide)), !.history = Kept(old.wide)]
<1>1. Learn(t, "extract", g) /\ Length(Older(old.wide)) > 0
  BY DEF Summarise, Got
<1>2. call[t].op = "turn" /\ call[t].at # "read" /\ UNCHANGED <<messages, slot, won>>
  BY DEF Summarise, On, cpVars
<1>3. Whole(old) /\ WideOf(old)
  BY <1>2 DEF CompactionInv, Shows
<1>4. g = [mine |-> old.mine, wide |-> old.wide, summary |-> Transcript(Older(old.wide)),
           history |-> Kept(old.wide), handoff |-> old.handoff]
  <2> DEFINE half == [old EXCEPT !.summary = Transcript(Older(old.wide))]
  <2>1. half = [mine |-> old.mine, wide |-> old.wide, summary |-> Transcript(Older(old.wide)),
                history |-> old.history, handoff |-> old.handoff]
    BY <1>3 DEF Whole
  <2>2. g = [half EXCEPT !.history = Kept(old.wide)]
    OBVIOUS
  <2> HIDE DEF half, g
  <2> QED
    BY <2>1, <2>2
<1>5. /\ g.mine = old.mine /\ g.wide = old.wide /\ g.summary = Transcript(Older(old.wide))
      /\ g.history = Kept(old.wide) /\ g.handoff = old.handoff
  BY <1>4
<1>6. Whole(g)
  BY <1>4, <1>5 DEF Whole
<1> HIDE DEF g
<1>7. WideOf(g) /\ Compacted(g)
  BY <1>1, <1>3, <1>5 DEF WideOf, Compacted
<1> QED
  BY <1>1, <1>2, <1>5, <1>6, <1>7, LearnsMore

LEMMA LoadHandoffStep ==
    ASSUME CompactionInv, NEW t \in Tasks, LoadHandoff(t)
    PROVE  CompactionInv'
<1> DEFINE old == call[t].got
<1>1. PICK h : Learn(t, "answer", [old EXCEPT !.handoff = h])
  BY DEF LoadHandoff, Got
<1> DEFINE g == [old EXCEPT !.handoff = h]
<1>2. call[t].op = "turn" /\ call[t].at # "read" /\ UNCHANGED <<messages, slot, won>>
  BY DEF LoadHandoff, On, cpVars
<1>3. Whole(old) /\ WideOf(old) /\ (Plain(old) \/ Compacted(old))
  BY <1>2 DEF CompactionInv, Shows
<1>4. g = [mine |-> old.mine, wide |-> old.wide, summary |-> old.summary,
           history |-> old.history, handoff |-> h]
  BY <1>3 DEF Whole
<1>5. /\ g.mine = old.mine /\ g.wide = old.wide /\ g.summary = old.summary
      /\ g.history = old.history /\ g.handoff = h
  BY <1>4
<1>6. Whole(g)
  BY <1>4, <1>5 DEF Whole
<1>7. Learn(t, "answer", g)
  BY <1>1
<1> HIDE DEF g
<1>8. WideOf(g) /\ (Plain(g) \/ Compacted(g))
  BY <1>3, <1>5 DEF WideOf, Plain, Compacted
<1> QED
  BY <1>2, <1>5, <1>6, <1>7, <1>8, LearnsMore

\* A reply, or the end of a task that stops.
LEMMA TurnEndsStep ==
    ASSUME CompactionInv, NEW t \in Tasks, SaveReply(t) \/ (Drop(t) /\ UNCHANGED cpVars)
    PROVE  CompactionInv'
<1>1. Shaped /\ messages \in Seq(Nat) /\ Claimed /\ Len(messages) \in Nat
  BY DEF CompactionInv
<1>2. Finish(t) \/ Drop(t)
  BY DEF SaveReply
<1>3. Shaped' /\ Only(t) /\ call'[t].op = "none"
  BY <1>1, <1>2, Leaves
<1>4. UNCHANGED <<slot, won>> /\ (UNCHANGED messages \/ \E c \in Costs : messages' = Append(messages, c))
  BY DEF SaveReply, cpVars
<1>5. messages' \in Seq(Nat) /\ Len(messages') >= Len(messages)
  BY <1>1, <1>4, CompactionAssumption
<1>6. Shows(t)' /\ Claimed'
  BY <1>1, <1>3, <1>4 DEF Shows, Claimed
<1> QED
  BY <1>3, <1>5, <1>6, TurnStep

LEMMA SlotExpiresStep == ASSUME CompactionInv, SlotExpires PROVE CompactionInv'
<1>1. UNCHANGED <<call, messages>> /\ slot' = FALSE /\ won' = 0
  BY DEF SlotExpires, tasking
<1> QED
  BY <1>1 DEF CompactionInv, Claimed, Shows, Shaped

\* Every step keeps the invariant, and it holds at the start.
LEMMA CompactionInductive ==
    /\ CompactionInit /\ TasksInit(Budgets) => CompactionInv
    /\ CompactionInv /\ [CompactionNext]_<<tasking, cpVars>> => CompactionInv'
<1>1. ASSUME CompactionInit, TasksInit(Budgets) PROVE CompactionInv
  <2>1. call = [t \in Tasks |-> NoCall] /\ won = 0
    BY <1>1 DEF TasksInit, CompactionInit
  <2>2. Shaped /\ Claimed /\ \A t \in Tasks : Shows(t)
    BY <2>1 DEF Shaped, NoCall, Claimed, Shows
  <2>3. PICK n \in Lengths, c \in Costs : messages = [i \in 1..n |-> IF i % 2 = 0 THEN c ELSE 0]
    BY <1>1 DEF CompactionInit
  <2>4. n \in Nat /\ c \in Nat
    BY CompactionAssumption
  <2>5. messages \in Seq(Nat)
    BY <2>3, <2>4
  <2> QED
    BY <2>2, <2>5 DEF CompactionInv
<1>2. ASSUME CompactionInv, UNCHANGED <<tasking, cpVars>> PROVE CompactionInv'
  BY <1>2 DEF tasking, cpVars, CompactionInv, Shaped, Claimed, Shows
<1>3. ASSUME CompactionInv, CompactionNext PROVE CompactionInv'
  BY <1>3, SlotExpiresStep, TakeMessageStep, ReadHistoryStep, CompactSteps, SummariseStep,
     LoadHandoffStep, TurnEndsStep DEF CompactionNext, CompactionStep
<1> QED
  BY <1>1, <1>2, <1>3

\* Claims race, replies come in between and any call may fail: a conversation
\* is compacted once in the life of its slot, and a turn shows the newest
\* messages after a summary that ends where they begin; for any limits, costs
\* and number of turns.
THEOREM CompactionIsSeamless == CompactionSpec => []CompactionHolds
<1>1. CompactionInv => CompactionHolds
  BY ShownIsSeamless DEF CompactionInv, Claimed, CompactionHolds, OneCompactionPerWindow
<1> QED
  BY <1>1, CompactionInductive, PTL DEF CompactionSpec

-----------------------------------------------------------------------------
(* The evaluation of replies. *)

EvaluatorNext == Drains \/ DrainFails \/ \E t \in Tasks : EvaluatorStep(t)
EvaluatorSpec == EvaluatorInit /\ TasksInit(Budgets) /\ [][EvaluatorNext]_<<tasking, evVars>>

Final     == {"completed", "failed"}
Status    == {"none", "in_progress"} \cup Final
AskedCall == [kind : {"primary", "evaluator", "sophie_evaluator"}, conv : Conversations \cup {Sophie}]
LogRow    == [status : Status, mark : Nat]
Event     == [call : Nat, status : {"in_progress"} \cup Final]

\* Calls, their rows and their events.
Sized ==
    /\ asked \in Seq(AskedCall) /\ log \in Seq(LogRow) /\ queue \in Seq(Event)
    /\ Len(log) = Len(asked)
    /\ \A k \in 1..Len(queue) : queue[k].call \in 1..Len(asked)
    /\ \A j \in 1..Len(asked) : asked[j].kind = "evaluator" => asked[j].conv # Sophie

\* The event that begins a row comes first of its events, and once.
BegunOnce ==
    /\ \A k \in 1..Len(queue) : queue[k].status = "in_progress" => log[queue[k].call].status = "none"
    /\ \A k, l \in 1..Len(queue) :
        k < l /\ queue[l].status = "in_progress" => queue[k].call # queue[l].call

\* A call whose events and marks were not lost has its row, or its event.
RowsBegin ==
    \A i \in 1..Len(asked) : i \notin lost /\ log[i].status = "none" =>
        \E k \in 1..Len(queue) : queue[k].call = i /\ queue[k].status = "in_progress"

Awaits(t) == (call[t].op = "reply" /\ call[t].at = "answer")
             \/ (call[t].op = "evaluation" /\ call[t].at = "verdict")
Awaited(i) == \E t \in Tasks : Awaits(t) /\ call[t].got.own = i
Ending(i)  == \E k \in 1..Len(queue) : queue[k].call = i /\ queue[k].status \in Final
Settled(i) == log[i].status \in Final

\* It is closed, or will be by an event on its way or by its task.
RowsEnd ==
    \A i \in 1..Len(asked) : i \in lost \/ Settled(i) \/ Ending(i) \/ Awaited(i)

\* What a task knows of its call: a later evaluation of the conversation has
\* excused it.
Overtaken(c) ==
    \A j \in 1..Len(asked) :
        j > c.got.own /\ asked[j].kind = "evaluator" /\ asked[j].conv = c.arg.conv => c.got.own \in excused

Judged(c) ==
    /\ "own" \in DOMAIN c.got /\ c.got.own \in 1..Len(asked)
    /\ asked[c.got.own].conv = c.arg.conv
    /\ c.arg.conv # Sophie => asked[c.got.own].kind = "evaluator"
    /\ Overtaken(c)
    /\ c.at = "find" => c.got = [own |-> c.got.own, attempt |-> c.got.attempt]
    /\ c.at = "mark" =>
        /\ c.got.row \in 1..Len(asked)
        /\ asked[c.got.row].kind = "evaluator" /\ asked[c.got.row].conv = c.arg.conv
        /\ c.got.row = c.got.own \/ c.got.own \in excused

Holds(t) ==
    LET c == call[t] IN
    /\ c.op \in {"none", "reply", "evaluation"}
    /\ c.op = "reply" => c.at = "answer" /\ "own" \in DOMAIN c.got /\ c.got.own \in 1..Len(asked)
    /\ c.op = "evaluation" =>
        /\ c.at \in {"permit", "verdict", "find", "mark"} /\ c.arg.conv \in Conversations \cup {Sophie}
        /\ c.at # "permit" => Judged(c)

\* Marks are of calls that were made.
Marked == MarksAreItsOwn /\ \A i \in 1..Len(log) : log[i].mark <= Len(asked)

After(i)    == {j \in DOMAIN asked : j > i /\ asked[j].conv # Sophie}
Held(i)     == \E t \in Tasks : call[t].op = "evaluation" /\ call[t].at \in {"find", "mark"}
                                /\ call[t].got.own = i
Resolved(i) == \/ log[i].mark # 0 \/ i \in excused \cup lost \/ asked[i].conv = Sophie
               \/ Cardinality(After(i)) >= ScanLimit

\* Issues are marked, or will be by their task, or need not be.
IssuesHeld == \A i \in issues : i \in 1..Len(asked) /\ (Held(i) \/ Resolved(i))

EvaluatorInv ==
    /\ Shaped /\ Sized /\ BegunOnce /\ RowsBegin /\ RowsEnd /\ Marked /\ IssuesHeld /\ PermitsHold
    /\ \A t \in Tasks : Holds(t)

-----------------------------------------------------------------------------

\* Rows, calls and events are what they are.
LEMMA Sizes ==
    ASSUME Sized
    PROVE  /\ Len(asked) \in Nat /\ Len(queue) \in Nat /\ DOMAIN asked = 1..Len(asked)
           /\ DOMAIN log = 1..Len(asked) /\ DOMAIN queue = 1..Len(queue)
           /\ \A i \in 1..Len(asked) : log[i].status \in Status /\ log[i].mark \in Nat
           /\ \A i \in 1..Len(asked) : log[i] = [status |-> log[i].status, mark |-> log[i].mark]
<1>1. \A x \in LogRow : x.status \in Status /\ x.mark \in Nat /\ x = [status |-> x.status, mark |-> x.mark]
  BY DEF LogRow
<1>2. \A i \in 1..Len(asked) : log[i] \in LogRow
  BY DEF Sized
<1> QED
  BY <1>1, <1>2 DEF Sized

\* Calls are only added.
Grows == Len(asked') >= Len(asked) /\ \A j \in 1..Len(asked) : asked'[j] = asked[j]

\* What was resolved stays so.
LEMMA ResolvedStays ==
    ASSUME Sized, Sized', Grows, excused \subseteq excused', lost \subseteq lost',
           NEW i \in 1..Len(asked), Resolved(i), log[i].mark # 0 => log'[i].mark # 0
    PROVE  Resolved(i)'
<1>1. /\ Len(asked) \in Nat /\ Len(asked') \in Nat
      /\ DOMAIN asked = 1..Len(asked) /\ DOMAIN asked' = 1..Len(asked')
  BY DEF Sized
<1>2. i \in excused => i \in excused'
  OBVIOUS
<1>3. i \in lost => i \in lost'
  OBVIOUS
<1>4. asked[i].conv = Sophie => asked'[i].conv = Sophie
  BY DEF Grows
<1>5. CASE Cardinality(After(i)) >= ScanLimit
  <2> DEFINE later == {j \in DOMAIN asked' : j > i /\ asked'[j].conv # Sophie}
  <2>1. 1 \in Int /\ Len(asked') \in Int
    BY <1>1
  <2>2. IsFiniteSet(DOMAIN asked')
    BY <1>1, <2>1, FS_Interval
  <2>3. IsFiniteSet(later)
    BY <2>2, FS_Subset
  <2>4. After(i) \in SUBSET later
    BY <1>1 DEF After, Grows
  <2>5. /\ IsFiniteSet(After(i)) /\ Cardinality(After(i)) <= Cardinality(later)
        /\ Cardinality(After(i)) \in Nat /\ Cardinality(later) \in Nat
    BY <2>3, <2>4, FS_Subset, FS_CardinalityType
  <2>6. Cardinality(later) >= ScanLimit
    BY <1>5, <2>5, EvaluatorAssumption
  <2> QED
    BY <2>6 DEF Resolved, After
<1> QED
  BY <1>2, <1>3, <1>4, <1>5 DEF Resolved

\* Issues stay held when the task that had them did.
LEMMA IssuesStay ==
    ASSUME Sized, Sized', IssuesHeld, Grows, excused \subseteq excused', lost \subseteq lost',
           \A i \in 1..Len(asked) : log[i].mark # 0 => log'[i].mark # 0,
           UNCHANGED issues, \A i \in issues : Held(i) => Held(i)' \/ Resolved(i)'
    PROVE  IssuesHeld'
<1> SUFFICES ASSUME NEW i \in issues
             PROVE  i \in 1..Len(asked') /\ (Held(i)' \/ Resolved(i)')
  BY DEF IssuesHeld
<1>1. i \in 1..Len(asked) /\ (Held(i) \/ Resolved(i)) /\ Len(asked) \in Nat /\ Len(asked') \in Nat
  BY DEF IssuesHeld, Sized
<1>2. CASE Resolved(i)
  BY <1>1, <1>2, ResolvedStays DEF Grows
<1>3. CASE Held(i)
  BY <1>1, <1>3 DEF Grows
<1> QED
  BY <1>1, <1>2, <1>3

\* What the other tasks know holds as calls are made, as long as those that a
\* new evaluation overtakes are excused.
LEMMA OthersHold ==
    ASSUME EvaluatorInv, NEW t \in Tasks, Only(t), Grows, excused \subseteq excused',
           Len(asked') \in Nat,
           \A j \in 1..Len(asked'), u \in Tasks :
               j > Len(asked) /\ asked'[j].kind = "evaluator" /\ Judges(u)
               /\ asked'[j].conv = call[u].arg.conv => call[u].got.own \in excused'
    PROVE  \A u \in Tasks : u # t => Holds(u)'
<1> SUFFICES ASSUME NEW u \in Tasks, u # t PROVE Holds(u)'
  OBVIOUS
<1>1. call'[u] = call[u] /\ Holds(u) /\ Len(asked) \in Nat
  BY DEF Only, EvaluatorInv, Sized
<1>2. \A j \in 1..Len(asked) : j \in 1..Len(asked') /\ asked'[j] = asked[j]
  BY <1>1 DEF Grows
<1>3. ASSUME call[u].op = "evaluation", call[u].at # "permit"
      PROVE  Judged(call[u])'
  <2>1. Judged(call[u]) /\ call[u].got.own \in 1..Len(asked) /\ Judges(u)
    BY <1>1, <1>3 DEF Holds, Judged, Judges
  <2>2. Overtaken(call[u])'
    <3> SUFFICES ASSUME NEW j \in 1..Len(asked'), j > call[u].got.own,
                        asked'[j].kind = "evaluator", asked'[j].conv = call[u].arg.conv
                 PROVE  call[u].got.own \in excused'
      BY <1>1 DEF Overtaken
    <3>1. CASE j \in 1..Len(asked)
      BY <1>2, <2>1, <3>1 DEF Judged, Overtaken
    <3>2. CASE j > Len(asked)
      BY <2>1, <3>2
    <3> QED
      BY <1>1, <3>1, <3>2
  <2> QED
    BY <1>1, <1>2, <2>1, <2>2 DEF Judged
<1> QED
  BY <1>1, <1>2, <1>3 DEF Holds

\* When no call is made.
LEMMA OthersKeep ==
    ASSUME EvaluatorInv, NEW t \in Tasks, Only(t), UNCHANGED asked, excused \subseteq excused'
    PROVE  Grows /\ \A u \in Tasks : u # t => Holds(u)'
<1>1. Len(asked) \in Nat
  BY DEF EvaluatorInv, Sized
<1>2. Grows
  BY <1>1 DEF Grows
<1> QED
  BY <1>1, <1>2, OthersHold

\* No more evaluations run than did.
LEMMA PermitsStay ==
    ASSUME PermitsHold, \A u \in Tasks : Judges(u)' => Judges(u)
    PROVE  PermitsHold'
<1> DEFINE before == {u \in Tasks : Judges(u)}
           after  == {u \in Tasks : Judges(u)'}
<1>1. IsFiniteSet(Tasks)
  <2>1. 1 \in Int /\ NTasks \in Int
    BY TasksAssumption
  <2> QED
    BY <2>1, FS_Interval DEF Tasks
<1>2. IsFiniteSet(before)
  BY <1>1, FS_Subset
<1>3. after \in SUBSET before
  OBVIOUS
<1>4. /\ IsFiniteSet(after) /\ Cardinality(after) <= Cardinality(before)
      /\ Cardinality(before) \in Nat /\ Cardinality(after) \in Nat
  BY <1>2, <1>3, FS_Subset, FS_CardinalityType
<1>5. Cardinality(before) <= MaxConcurrent /\ MaxConcurrent \in Nat
  BY EvaluatorAssumption DEF PermitsHold
<1>6. Cardinality(after) <= MaxConcurrent
  BY <1>4, <1>5
<1> QED
  BY <1>6 DEF PermitsHold

\* One more runs when there was a permit.
LEMMA PermitTaken ==
    ASSUME Permits > 0, NEW t \in Tasks, \A u \in Tasks : u # t /\ Judges(u)' => Judges(u)
    PROVE  PermitsHold'
<1> DEFINE before == {u \in Tasks : Judges(u)}
           after  == {u \in Tasks : Judges(u)'}
<1>1. IsFiniteSet(Tasks)
  <2>1. 1 \in Int /\ NTasks \in Int
    BY TasksAssumption
  <2> QED
    BY <2>1, FS_Interval DEF Tasks
<1>2. IsFiniteSet(before)
  BY <1>1, FS_Subset
<1>3. IsFiniteSet(before \cup {t}) /\ Cardinality(before) \in Nat
      /\ Cardinality(before \cup {t}) \in {Cardinality(before), Cardinality(before) + 1}
  BY <1>2, FS_AddElement, FS_CardinalityType
<1>4. after \in SUBSET (before \cup {t})
  OBVIOUS
<1>5. IsFiniteSet(after) /\ Cardinality(after) \in Nat /\ Cardinality(after) <= Cardinality(before \cup {t})
  BY <1>3, <1>4, FS_Subset, FS_CardinalityType
<1>6. MaxConcurrent - Cardinality(before) > 0 /\ MaxConcurrent \in Nat
  BY EvaluatorAssumption DEF Permits
<1> HIDE DEF before
<1>7. Cardinality(after) <= MaxConcurrent
  BY <1>3, <1>5, <1>6
<1> QED
  BY <1>7 DEF PermitsHold

\* The event that closes a row.
LEMMA QueueEnds ==
    ASSUME Sized, BegunOnce, RowsBegin, NEW i \in 1..Len(asked), NEW s \in Final, Ends(i, s),
           UNCHANGED <<asked, log>>, lost \subseteq lost'
    PROVE  Sized' /\ BegunOnce' /\ RowsBegin' /\ Ending(i)' /\ \A j : Ending(j) => Ending(j)'
<1> DEFINE new == [call |-> i, status |-> s]
<1>1. queue' = Append(queue, new) /\ queue \in Seq(Event) /\ Len(queue) \in Nat
  BY DEF Ends, Sized
<1>2. new \in Event /\ new.call = i /\ new.status \in Final /\ new.status # "in_progress"
  <2>1. i \in Nat /\ s \in Final
    BY DEF Sized
  <2> QED
    BY <2>1 DEF Event, Final
<1> HIDE DEF new
<1>3. /\ queue' \in Seq(Event) /\ Len(queue') = Len(queue) + 1
      /\ queue'[Len(queue) + 1] = new
      /\ \A k \in 1..Len(queue) : queue'[k] = queue[k]
  BY <1>1, <1>2
<1>4. \A k \in 1..Len(queue') : k \in 1..Len(queue) \/ k = Len(queue) + 1
  BY <1>1, <1>3
<1>5. \A k \in 1..Len(queue) : k \in 1..Len(queue')
  BY <1>1, <1>3
<1>6. Sized'
  BY <1>2, <1>3, <1>4 DEF Sized
<1>7. BegunOnce'
  <2>1. \A k \in 1..Len(queue') : queue'[k].status = "in_progress" => log'[queue'[k].call].status = "none"
    BY <1>2, <1>3, <1>4 DEF BegunOnce
  <2>2. ASSUME NEW k \in 1..Len(queue'), NEW l \in 1..Len(queue'), k < l, queue'[l].status = "in_progress"
        PROVE  queue'[k].call # queue'[l].call
    <3>1. l \in 1..Len(queue)
      BY <1>2, <1>3, <1>4, <2>2
    <3>2. k \in 1..Len(queue)
      BY <1>1, <2>2, <3>1
    <3> QED
      BY <1>3, <2>2, <3>1, <3>2 DEF BegunOnce
  <2> QED
    BY <2>1, <2>2 DEF BegunOnce
<1>8. RowsBegin'
  BY <1>3, <1>5 DEF RowsBegin
<1>9. Ending(i)' /\ \A j : Ending(j) => Ending(j)'
  <2>1. Len(queue) + 1 \in 1..Len(queue')
    BY <1>1, <1>3
  <2> QED
    BY <1>2, <1>3, <1>5, <2>1 DEF Ending
<1> QED
  BY <1>6, <1>7, <1>8, <1>9

\* A call and the event that begins its row.
LEMMA QueueLogs ==
    ASSUME Sized, BegunOnce, RowsBegin, UNCHANGED lost, NEW kind, NEW c, Logs(kind, c),
           [kind |-> kind, conv |-> c] \in AskedCall, kind = "evaluator" => c # Sophie
    PROVE  /\ Sized' /\ BegunOnce' /\ RowsBegin' /\ Grows
           /\ Len(asked') = Len(asked) + 1 /\ asked'[Len(asked) + 1] = [kind |-> kind, conv |-> c]
           /\ \A j \in 1..Len(asked) : log'[j] = log[j]
           /\ log'[Len(asked) + 1] = Unlogged
           /\ \A j : Ending(j) => Ending(j)'
<1> DEFINE new   == [call |-> Len(asked) + 1, status |-> "in_progress"]
           made == [kind |-> kind, conv |-> c]
<1>1. /\ queue' = Append(queue, new) /\ asked' = Append(asked, made) /\ log' = Append(log, Unlogged)
      /\ queue \in Seq(Event) /\ asked \in Seq(AskedCall) /\ log \in Seq(LogRow)
      /\ Len(queue) \in Nat /\ Len(asked) \in Nat /\ Len(log) = Len(asked)
  BY DEF Logs, Sized
<1>2. new \in Event /\ new.call = Len(asked) + 1 /\ new.status = "in_progress"
  BY <1>1 DEF Event
<1>3. Unlogged \in LogRow /\ Unlogged.status = "none" /\ Unlogged.mark = 0
  BY DEF Unlogged, LogRow, Status
<1>4. made \in AskedCall /\ made.kind = kind /\ made.conv = c
  OBVIOUS
<1> HIDE DEF new, made
<1>5. /\ queue' \in Seq(Event) /\ Len(queue') = Len(queue) + 1 /\ queue'[Len(queue) + 1] = new
      /\ \A k \in 1..Len(queue) : queue'[k] = queue[k] /\ k \in 1..Len(queue')
  BY <1>1, <1>2
<1>6. /\ asked' \in Seq(AskedCall) /\ Len(asked') = Len(asked) + 1 /\ asked'[Len(asked) + 1] = made
      /\ \A k \in 1..Len(asked) : asked'[k] = asked[k]
  BY <1>1, <1>4
<1>7. /\ log' \in Seq(LogRow) /\ Len(log') = Len(asked) + 1 /\ log'[Len(asked) + 1] = Unlogged
      /\ \A k \in 1..Len(asked) : log'[k] = log[k]
  BY <1>1, <1>3
<1>8. \A k \in 1..Len(queue') : k \in 1..Len(queue) \/ k = Len(queue) + 1
  BY <1>1, <1>5
<1>9. \A j \in 1..Len(asked') : j \in 1..Len(asked) \/ j = Len(asked) + 1
  BY <1>1, <1>6
<1>10. \A k \in 1..Len(queue) : queue[k].call \in 1..Len(asked)
  BY DEF Sized
<1>11. Sized'
  <2>1. \A k \in 1..Len(queue') : queue'[k].call \in 1..Len(asked')
    BY <1>1, <1>2, <1>5, <1>6, <1>8, <1>10
  <2>2. \A j \in 1..Len(asked') : asked'[j].kind = "evaluator" => asked'[j].conv # Sophie
    BY <1>4, <1>6, <1>9 DEF Sized
  <2> QED
    BY <1>5, <1>6, <1>7, <2>1, <2>2 DEF Sized
<1>12. BegunOnce'
  <2>1. ASSUME NEW k \in 1..Len(queue'), queue'[k].status = "in_progress"
        PROVE  log'[queue'[k].call].status = "none"
    BY <1>2, <1>3, <1>5, <1>7, <1>8, <1>10, <2>1 DEF BegunOnce
  <2>2. ASSUME NEW k \in 1..Len(queue'), NEW l \in 1..Len(queue'), k < l, queue'[l].status = "in_progress"
        PROVE  queue'[k].call # queue'[l].call
    <3>1. k \in 1..Len(queue)
      BY <1>1, <1>5, <2>2
    <3>2. CASE l \in 1..Len(queue)
      BY <1>5, <2>2, <3>1, <3>2 DEF BegunOnce
    <3>3. CASE l = Len(queue) + 1
      BY <1>1, <1>2, <1>5, <1>10, <3>1, <3>3
    <3> QED
      BY <1>8, <3>2, <3>3
  <2> QED
    BY <2>1, <2>2 DEF BegunOnce
<1>13. RowsBegin'
  <2> SUFFICES ASSUME NEW i \in 1..Len(asked'), i \notin lost, log'[i].status = "none"
               PROVE  \E k \in 1..Len(queue') : queue'[k].call = i /\ queue'[k].status = "in_progress"
    BY DEF RowsBegin
  <2>1. CASE i \in 1..Len(asked)
    BY <1>5, <1>7, <2>1 DEF RowsBegin
  <2>2. CASE i = Len(asked) + 1
    <3>1. Len(queue) + 1 \in 1..Len(queue')
      BY <1>1, <1>5
    <3> QED
      BY <1>2, <1>5, <2>2, <3>1
  <2> QED
    BY <1>9, <2>1, <2>2
<1>14. Grows
  BY <1>1, <1>6 DEF Grows
<1>15. \A j : Ending(j) => Ending(j)'
  BY <1>5 DEF Ending
<1> QED
  BY <1>6, <1>7, <1>11, <1>12, <1>13, <1>14, <1>15 DEF made

\* The first event is applied, if its row is open.
LEMMA QueueDrains ==
    ASSUME Sized, BegunOnce, RowsBegin, Drains
    PROVE  /\ Sized' /\ BegunOnce' /\ RowsBegin'
           /\ \A i \in 1..Len(asked) : log'[i].mark = log[i].mark
           /\ \A i \in 1..Len(asked) : i \in lost \/ Settled(i) \/ Ending(i) => i \in lost \/ Settled(i)' \/ Ending(i)'
<1> DEFINE event == Head(queue)
<1>1. /\ queue \in Seq(Event) /\ queue # <<>> /\ queue' = Tail(queue) /\ UNCHANGED <<asked, lost>>
      /\ Len(queue) \in Nat /\ Len(asked) \in Nat
      /\ log \in Seq(LogRow) /\ Len(log) = Len(asked)
      /\ log' = IF event.status = "in_progress" \/ log[event.call].status = "in_progress"
                THEN [log EXCEPT ![event.call].status = event.status] ELSE log
  BY DEF Drains, Sized
<1>2. /\ Len(queue') = Len(queue) - 1 /\ Len(queue) \in Nat \ {0} /\ queue' \in Seq(Event)
      /\ \A k \in 1..Len(queue') : queue'[k] = queue[k + 1] /\ k + 1 \in 1..Len(queue)
      /\ \A k \in 2..Len(queue) : queue[k] = queue'[k - 1] /\ k - 1 \in 1..Len(queue')
      /\ event = queue[1] /\ 1 \in 1..Len(queue)
  BY <1>1
<1> HIDE DEF event
<1>3. event.call \in 1..Len(asked) /\ event.status \in Status /\ event.status # "none"
  <2>1. \A x \in Event : x.status \in Status /\ x.status # "none"
    BY DEF Event, Status, Final
  <2>2. event \in Event
    BY <1>1, <1>2
  <2> QED
    BY <1>2, <2>1, <2>2 DEF Sized
<1>4. \A i \in 1..Len(asked) : log[i] \in LogRow /\ log[i] = [status |-> log[i].status, mark |-> log[i].mark]
                               /\ log[i].mark \in Nat /\ log[i].status \in Status
  BY Sizes, <1>1
<1>5. /\ log' \in Seq(LogRow) /\ Len(log') = Len(asked)
      /\ \A i \in 1..Len(asked) : i # event.call => log'[i] = log[i]
      /\ log'[event.call].mark = log[event.call].mark
      /\ log'[event.call].status =
            IF event.status = "in_progress" \/ log[event.call].status = "in_progress"
            THEN event.status ELSE log[event.call].status
  <2>1. CASE event.status = "in_progress" \/ log[event.call].status = "in_progress"
    <3> DEFINE row == [status |-> event.status, mark |-> log[event.call].mark]
    <3>1. row \in LogRow /\ row.status = event.status /\ row.mark = log[event.call].mark
      BY <1>3, <1>4 DEF LogRow
    <3>2. log' = [log EXCEPT ![event.call] = row]
      <4>1. [log[event.call] EXCEPT !.status = event.status] = row
        <5>1. log[event.call] = [status |-> log[event.call].status, mark |-> log[event.call].mark]
          BY <1>3, <1>4
        <5> QED
          BY <5>1
      <4>2. log' = [log EXCEPT ![event.call] = [log[event.call] EXCEPT !.status = event.status]]
        BY <1>1, <2>1
      <4> QED
        BY <4>1, <4>2
    <3> HIDE DEF row
    <3> QED
      BY <1>1, <1>3, <2>1, <3>1, <3>2
  <2>2. CASE ~ (event.status = "in_progress" \/ log[event.call].status = "in_progress")
    BY <1>1, <2>2
  <2> QED
    BY <2>1, <2>2
<1>6. \A k \in 2..Len(queue) : queue[k].status = "in_progress" => queue[k].call # event.call
  <2> SUFFICES ASSUME NEW k \in 2..Len(queue), queue[k].status = "in_progress"
               PROVE  queue[k].call # queue[1].call
    BY <1>2
  <2>1. k \in 1..Len(queue) /\ 1 \in 1..Len(queue) /\ 1 < k
    BY <1>2
  <2> QED
    BY <2>1 DEF BegunOnce
<1>7. Sized'
  <2>1. \A k \in 1..Len(queue') : queue'[k].call \in 1..Len(asked)
    BY <1>2 DEF Sized
  <2> QED
    BY <1>1, <1>2, <1>5, <2>1 DEF Sized
<1>8. BegunOnce'
  <2>1. ASSUME NEW k \in 1..Len(queue'), queue'[k].status = "in_progress"
        PROVE  log'[queue'[k].call].status = "none"
    <3>1. k + 1 \in 2..Len(queue) /\ queue'[k] = queue[k + 1]
      BY <1>2
    <3>2. queue[k + 1].call # event.call /\ queue[k + 1].call \in 1..Len(asked)
      BY <1>6, <2>1, <3>1 DEF Sized
    <3>3. log[queue[k + 1].call].status = "none"
      BY <2>1, <3>1 DEF BegunOnce
    <3> QED
      BY <1>5, <3>1, <3>2, <3>3
  <2>2. ASSUME NEW k \in 1..Len(queue'), NEW l \in 1..Len(queue'), k < l, queue'[l].status = "in_progress"
        PROVE  queue'[k].call # queue'[l].call
    <3>1. /\ k + 1 \in 1..Len(queue) /\ l + 1 \in 1..Len(queue) /\ k + 1 < l + 1
          /\ queue'[k] = queue[k + 1] /\ queue'[l] = queue[l + 1]
      BY <1>2, <2>2
    <3> QED
      BY <2>2, <3>1 DEF BegunOnce
  <2> QED
    BY <2>1, <2>2 DEF BegunOnce
<1>9. RowsBegin'
  <2> SUFFICES ASSUME NEW i \in 1..Len(asked), i \notin lost, log'[i].status = "none"
               PROVE  \E k \in 1..Len(queue') : queue'[k].call = i /\ queue'[k].status = "in_progress"
    BY <1>1 DEF RowsBegin
  <2>1. log[i].status = "none"
    <3>1. CASE i # event.call
      BY <1>5, <3>1
    <3>2. CASE i = event.call /\ event.status = "in_progress"
      BY <1>5, <3>2
    <3>3. CASE i = event.call /\ event.status # "in_progress" /\ log[i].status = "in_progress"
      BY <1>3, <1>5, <3>3
    <3> QED
      BY <1>5, <3>1, <3>2, <3>3
  <2>2. PICK k \in 1..Len(queue) : queue[k].call = i /\ queue[k].status = "in_progress"
    BY <2>1 DEF RowsBegin
  <2>3. CASE k = 1
    BY <1>2, <1>5, <2>2, <2>3
  <2>4. CASE k # 1
    <3>1. k \in 2..Len(queue)
      BY <1>1, <2>4
    <3> QED
      BY <1>2, <2>2, <3>1
  <2> QED
    BY <2>3, <2>4
<1>10. ASSUME NEW i \in 1..Len(asked), i \notin lost, Settled(i) \/ Ending(i)
       PROVE  Settled(i)' \/ Ending(i)'
  <2>1. CASE Ending(i)
    <3>1. PICK k \in 1..Len(queue) : queue[k].call = i /\ queue[k].status \in Final
      BY <2>1 DEF Ending
    <3>2. CASE k = 1
      <4>1. event.call = i /\ event.status \in Final /\ event.status # "in_progress"
        BY <1>2, <3>1, <3>2 DEF Final
      <4>2. log[i].status # "none"
        <5> SUFFICES ASSUME log[i].status = "none" PROVE FALSE
          OBVIOUS
        <5>1. PICK l \in 1..Len(queue) : queue[l].call = i /\ queue[l].status = "in_progress"
          BY <1>10 DEF RowsBegin
        <5>2. l = 1 \/ l \in 2..Len(queue)
          BY <1>1
        <5> QED
          BY <1>2, <1>6, <4>1, <5>1, <5>2
      <4> QED
        BY <1>4, <1>5, <4>1, <4>2 DEF Settled, Status
    <3>3. CASE k # 1
      <4>1. k \in 2..Len(queue)
        BY <1>1, <3>3
      <4> QED
        BY <1>2, <3>1, <4>1 DEF Ending
    <3> QED
      BY <3>2, <3>3
  <2>2. CASE Settled(i)
    <3>1. CASE i # event.call
      BY <1>5, <2>2, <3>1 DEF Settled
    <3>2. CASE i = event.call
      <4>1. event.status # "in_progress"
        BY <1>2, <2>2, <3>2 DEF BegunOnce, Settled, Final
      <4>2. log[i].status # "in_progress"
        BY <2>2 DEF Settled, Final
      <4> QED
        BY <1>5, <2>2, <3>2, <4>1, <4>2 DEF Settled
    <3> QED
      BY <3>1, <3>2
  <2> QED
    BY <1>10, <2>1, <2>2
<1> QED
  BY <1>1, <1>5, <1>7, <1>8, <1>9, <1>10

\* The first event is lost.
LEMMA QueueLoses ==
    ASSUME Sized, BegunOnce, RowsBegin, DrainFails
    PROVE  /\ Sized' /\ BegunOnce' /\ RowsBegin' /\ lost \subseteq lost'
           /\ \A i \in 1..Len(asked) : Ending(i) => i \in lost' \/ Ending(i)'
<1>1. /\ queue \in Seq(Event) /\ queue # <<>> /\ queue' = Tail(queue) /\ UNCHANGED <<asked, log>>
      /\ Len(queue) \in Nat /\ lost' = lost \cup {Head(queue).call}
  BY DEF DrainFails, Sized
<1>2. /\ Len(queue') = Len(queue) - 1 /\ queue' \in Seq(Event) /\ Head(queue) = queue[1]
      /\ \A k \in 1..Len(queue') : queue'[k] = queue[k + 1] /\ k + 1 \in 1..Len(queue)
      /\ \A k \in 2..Len(queue) : queue[k] = queue'[k - 1] /\ k - 1 \in 1..Len(queue')
  BY <1>1
<1>3. \A k \in 1..Len(queue) : queue[k].call \in lost' \/ k \in 2..Len(queue)
  BY <1>1, <1>2
<1>4. Sized'
  <2>1. \A k \in 1..Len(queue') : queue'[k].call \in 1..Len(asked)
    BY <1>2 DEF Sized
  <2> QED
    BY <1>1, <1>2, <2>1 DEF Sized
<1>5. BegunOnce'
  <2>1. ASSUME NEW k \in 1..Len(queue'), NEW l \in 1..Len(queue'), k < l
        PROVE  k + 1 < l + 1
    BY <1>1, <1>2, <2>1
  <2> QED
    BY <1>1, <1>2, <2>1 DEF BegunOnce
<1>6. RowsBegin'
  <2> SUFFICES ASSUME NEW i \in 1..Len(asked), i \notin lost', log[i].status = "none"
               PROVE  \E k \in 1..Len(queue') : queue'[k].call = i /\ queue'[k].status = "in_progress"
    BY <1>1 DEF RowsBegin
  <2>1. PICK k \in 1..Len(queue) : queue[k].call = i /\ queue[k].status = "in_progress"
    BY <1>1 DEF RowsBegin
  <2>2. k \in 2..Len(queue)
    BY <1>3, <2>1
  <2> QED
    BY <1>2, <2>1, <2>2
<1>7. \A i \in 1..Len(asked) : Ending(i) => i \in lost' \/ Ending(i)'
  BY <1>2, <1>3 DEF Ending
<1> QED
  BY <1>1, <1>4, <1>5, <1>6, <1>7

-----------------------------------------------------------------------------

\* Who waits for a call to end, and who looks for its row, are the other tasks
\* and perhaps this one.
LEMMA OthersStay ==
    ASSUME NEW t \in Tasks, Only(t)
    PROVE  /\ \A i : Awaited(i) => Awaited(i)' \/ (Awaits(t) /\ call[t].got.own = i)
           /\ \A i : Held(i) => \/ Held(i)'
                                \/ /\ call[t].op = "evaluation" /\ call[t].at \in {"find", "mark"}
                                   /\ call[t].got.own = i
           /\ \A u \in Tasks : u # t => (Judges(u)' <=> Judges(u))
  BY DEF Only, Awaited, Awaits, Held, Judges

\* A step that makes no call, ends none and marks nothing: what the task held
\* is lost, resolved or still held.
LEMMA QuietStep ==
    ASSUME EvaluatorInv, NEW t \in Tasks, Shaped', Only(t), Holds(t)',
           UNCHANGED <<asked, log, queue, issues>>, excused \subseteq excused', lost \subseteq lost',
           Judges(t)' => Judges(t), Awaits(t) => call[t].got.own \in lost',
           \A i : call[t].op = "evaluation" /\ call[t].at \in {"find", "mark"} /\ call[t].got.own = i
                    => Held(i)' \/ Resolved(i)'
    PROVE  EvaluatorInv'
<1>1. Sized /\ BegunOnce /\ RowsBegin /\ RowsEnd /\ Marked /\ IssuesHeld /\ PermitsHold
  BY DEF EvaluatorInv
<1>2. Grows /\ \A u \in Tasks : Holds(u)'
  BY OthersKeep
<1>3. Sized' /\ BegunOnce'
  BY <1>1 DEF Sized, BegunOnce
<1>4. RowsBegin'
  BY <1>1 DEF RowsBegin
<1>5. RowsEnd'
  <2> SUFFICES ASSUME NEW i \in 1..Len(asked), i \notin lost'
               PROVE  Settled(i)' \/ Ending(i)' \/ Awaited(i)'
    BY DEF RowsEnd
  <2>1. Settled(i) \/ Ending(i) \/ Awaited(i)
    BY <1>1 DEF RowsEnd
  <2>2. Awaited(i) => Awaited(i)'
    BY OthersStay
  <2> QED
    BY <2>1, <2>2 DEF Settled, Ending
<1>6. Marked'
  BY <1>1 DEF Marked, MarksAreItsOwn
<1>7. IssuesHeld'
  <2>1. \A i \in issues : Held(i) => Held(i)' \/ Resolved(i)'
    BY OthersStay
  <2> QED
    BY <1>1, <1>2, <1>3, <2>1, IssuesStay
<1>8. PermitsHold'
  <2>1. \A u \in Tasks : Judges(u)' => Judges(u)
    BY OthersStay
  <2> QED
    BY <1>1, <2>1, PermitsStay
<1> QED
  BY <1>2, <1>3, <1>4, <1>5, <1>6, <1>7, <1>8 DEF EvaluatorInv

\* The call of a task ends, with issues or without.
LEMMA EndsStep ==
    ASSUME EvaluatorInv, NEW t \in Tasks, Shaped', Only(t), Holds(t)', Awaits(t),
           NEW i \in 1..Len(asked), call[t].got.own = i, NEW s \in Final, Ends(i, s),
           UNCHANGED <<asked, log, excused, lost>>, Judges(t)' => Judges(t),
           UNCHANGED issues \/ (issues' = issues \cup {i} /\ Held(i)')
    PROVE  EvaluatorInv'
<1>1. Sized /\ BegunOnce /\ RowsBegin /\ RowsEnd /\ Marked /\ IssuesHeld /\ PermitsHold
  BY DEF EvaluatorInv
<1>2. Grows /\ \A u \in Tasks : Holds(u)'
  BY OthersKeep
<1>3. Sized' /\ BegunOnce' /\ RowsBegin' /\ Ending(i)' /\ \A j : Ending(j) => Ending(j)'
  BY <1>1, QueueEnds
<1>4. RowsEnd'
  <2> SUFFICES ASSUME NEW j \in 1..Len(asked), j \notin lost
               PROVE  Settled(j)' \/ Ending(j)' \/ Awaited(j)'
    BY DEF RowsEnd
  <2>1. Settled(j) \/ Ending(j) \/ Awaited(j)
    BY <1>1 DEF RowsEnd
  <2>2. Awaited(j) => Awaited(j)' \/ j = i
    BY OthersStay
  <2>3. j = i => Ending(j)'
    BY <1>3
  <2>4. Settled(j) => Settled(j)'
    BY DEF Settled
  <2> QED
    BY <1>3, <2>1, <2>2, <2>3, <2>4
<1>5. Marked'
  BY <1>1 DEF Marked, MarksAreItsOwn
<1>6. IssuesHeld'
  <2> SUFFICES ASSUME NEW j \in issues'
               PROVE  j \in 1..Len(asked) /\ (Held(j)' \/ Resolved(j)')
    BY DEF IssuesHeld
  <2>1. CASE j \in issues
    <3>1. j \in 1..Len(asked) /\ (Held(j) \/ Resolved(j))
      BY <1>1, <2>1 DEF IssuesHeld
    <3>2. Held(j) => Held(j)'
      BY OthersStay DEF Awaits
    <3>3. Resolved(j) => Resolved(j)'
      BY DEF Resolved, After
    <3> QED
      BY <3>1, <3>2, <3>3
  <2>2. CASE j \notin issues
    <3>1. j = i /\ Held(i)'
      BY <2>2
    <3> QED
      BY <3>1
  <2> QED
    BY <2>1, <2>2
<1>7. PermitsHold'
  <2>1. \A u \in Tasks : Judges(u)' => Judges(u)
    BY OthersStay
  <2> QED
    BY <1>1, <2>1, PermitsStay
<1> QED
  BY <1>2, <1>3, <1>4, <1>5, <1>6, <1>7 DEF EvaluatorInv

\* A task makes a call.
LEMMA AsksStep ==
    ASSUME EvaluatorInv, NEW t \in Tasks, Shaped', Only(t), Holds(t)', PermitsHold',
           call[t].op = "none" \/ (call[t].op = "evaluation" /\ call[t].at = "permit"),
           NEW kind, NEW c, Logs(kind, c), UNCHANGED <<issues, lost>>, excused \subseteq excused',
           [kind |-> kind, conv |-> c] \in AskedCall, kind = "evaluator" => c # Sophie,
           Awaits(t)', call'[t].got.own = Len(asked) + 1,
           kind = "evaluator" => \A u \in Judging(c) : call[u].got.own \in excused'
    PROVE  EvaluatorInv'
<1>1. Sized /\ BegunOnce /\ RowsBegin /\ RowsEnd /\ Marked /\ IssuesHeld
  BY DEF EvaluatorInv
<1>2. /\ Sized' /\ BegunOnce' /\ RowsBegin' /\ Grows
      /\ Len(asked') = Len(asked) + 1 /\ asked'[Len(asked) + 1] = [kind |-> kind, conv |-> c]
      /\ \A j \in 1..Len(asked) : log'[j] = log[j]
      /\ log'[Len(asked) + 1] = Unlogged
      /\ \A j : Ending(j) => Ending(j)'
  BY <1>1, QueueLogs
<1>3. Len(asked) \in Nat /\ Len(asked') \in Nat
  BY <1>1, <1>2 DEF Sized
<1>4. \A j \in 1..Len(asked') : j \in 1..Len(asked) \/ j = Len(asked) + 1
  BY <1>2, <1>3
<1>5. \A u \in Tasks : Holds(u)'
  <2>1. ASSUME NEW j \in 1..Len(asked'), NEW u \in Tasks, j > Len(asked), asked'[j].kind = "evaluator",
               Judges(u), asked'[j].conv = call[u].arg.conv
        PROVE  call[u].got.own \in excused'
    <3>1. j = Len(asked) + 1
      BY <1>3, <1>4, <2>1
    <3>2. asked'[j].kind = kind /\ asked'[j].conv = c
      BY <1>2, <3>1
    <3> QED
      BY <2>1, <3>2 DEF Judging, Arg
  <2>2. \A u \in Tasks : u # t => Holds(u)'
    BY <1>2, <1>3, <2>1, OthersHold
  <2> QED
    BY <2>2
<1>6. RowsEnd'
  <2> SUFFICES ASSUME NEW j \in 1..Len(asked'), j \notin lost
               PROVE  Settled(j)' \/ Ending(j)' \/ Awaited(j)'
    BY DEF RowsEnd
  <2>1. CASE j \in 1..Len(asked)
    <3>1. Settled(j) \/ Ending(j) \/ Awaited(j)
      BY <1>1, <2>1 DEF RowsEnd
    <3>2. Awaited(j) => Awaited(j)'
      BY OthersStay DEF Awaits
    <3>3. Settled(j) => Settled(j)'
      BY <1>2, <2>1 DEF Settled
    <3> QED
      BY <1>2, <3>1, <3>2, <3>3
  <2>2. CASE j = Len(asked) + 1
    BY <2>2 DEF Awaited
  <2> QED
    BY <1>4, <2>1, <2>2
<1>7. Marked'
  <2>1. /\ DOMAIN log = 1..Len(asked) /\ DOMAIN log' = 1..Len(asked') /\ Len(log) = Len(asked)
        /\ Len(log') = Len(asked') /\ \A i \in 1..Len(asked) : log[i].mark \in Nat
    BY <1>1, <1>2, Sizes DEF Sized
  <2>2. ASSUME NEW i \in 1..Len(asked')
        PROVE  /\ log'[i].mark # 0 =>
                    /\ asked'[i].kind = "evaluator" /\ asked'[i].conv = asked'[log'[i].mark].conv
                    /\ log'[i].mark = i \/ log'[i].mark \in excused'
               /\ log'[i].mark <= Len(asked')
    <3>1. CASE i \in 1..Len(asked)
      <4>1. /\ log'[i].mark = log[i].mark /\ asked'[i] = asked[i] /\ log[i].mark \in Nat
            /\ log[i].mark <= Len(asked)
        BY <1>1, <1>2, <2>1, <3>1 DEF Grows, Marked
      <4>2. ASSUME log[i].mark # 0
            PROVE  /\ asked'[log[i].mark] = asked[log[i].mark]
                   /\ asked[i].kind = "evaluator" /\ asked[i].conv = asked[log[i].mark].conv
                   /\ log[i].mark = i \/ log[i].mark \in excused'
        <5>1. log[i].mark \in 1..Len(asked)
          BY <1>3, <4>1, <4>2
        <5> QED
          BY <1>1, <1>2, <2>1, <3>1, <4>2, <5>1 DEF Grows, Marked, MarksAreItsOwn
      <4> QED
        BY <1>2, <1>3, <4>1, <4>2
    <3>2. CASE i = Len(asked) + 1
      <4>1. log'[i].mark = 0
        BY <1>2, <3>2 DEF Unlogged
      <4> QED
        BY <1>3, <4>1
    <3> QED
      BY <1>4, <3>1, <3>2
  <2> QED
    BY <2>1, <2>2 DEF Marked, MarksAreItsOwn
<1>8. IssuesHeld'
  <2>1. \A i \in issues : Held(i) => Held(i)' \/ Resolved(i)'
    BY OthersStay
  <2>2. \A i \in 1..Len(asked) : log[i].mark # 0 => log'[i].mark # 0
    BY <1>2
  <2> QED
    BY <1>1, <1>2, <2>1, <2>2, IssuesStay
<1> QED
  BY <1>2, <1>5, <1>6, <1>7, <1>8 DEF EvaluatorInv

-----------------------------------------------------------------------------

\* A reply is asked for, and has come.
LEMMA TurnSteps ==
    ASSUME EvaluatorInv, NEW t \in Tasks, TurnCalls(t) \/ TurnEnds(t)
    PROVE  EvaluatorInv'
<1>1. Shaped /\ Sized /\ Holds(t) /\ PermitsHold /\ Len(asked) \in Nat
  BY DEF EvaluatorInv, Sized
<1>2. CASE TurnCalls(t)
  <2>1. PICK c \in Conversations :
          BeginWith(t, "reply", "answer", [conv |-> c], [own |-> Len(asked) + 1]) /\ Logs("primary", c)
    BY <1>2 DEF TurnCalls
  <2>2. /\ call[t].op = "none" /\ Shaped' /\ Only(t)
        /\ call'[t] = [op |-> "reply", at |-> "answer", arg |-> [conv |-> c], got |-> [own |-> Len(asked) + 1]]
    BY <1>1, <2>1 DEF BeginWith, Running, Shaped, Only
  <2>3. call'[t].op = "reply" /\ call'[t].at = "answer" /\ call'[t].got = [own |-> Len(asked) + 1]
    BY <2>2
  <2>4. UNCHANGED <<issues, lost, excused>>
    BY <1>2 DEF TurnCalls
  <2>5. [kind |-> "primary", conv |-> c] \in AskedCall
    BY DEF AskedCall
  <2>6. Len(asked') = Len(asked) + 1
    BY <1>1, <2>1 DEF Logs, Sized
  <2>7. Holds(t)'
    BY <1>1, <2>3, <2>6 DEF Holds
  <2>8. PermitsHold'
    <3>1. \A u \in Tasks : Judges(u)' => Judges(u)
      BY <2>2, <2>3, OthersStay DEF Judges
    <3> QED
      BY <1>1, <3>1, PermitsStay
  <2>9. Awaits(t)' /\ call'[t].got.own = Len(asked) + 1
    BY <2>3 DEF Awaits
  <2> QED
    BY <2>1, <2>2, <2>4, <2>5, <2>7, <2>8, <2>9, AsksStep
<1>3. CASE TurnEnds(t)
  <2>1. /\ call[t].op = "reply" /\ call[t].at = "answer" /\ Finish(t) /\ Ends(call[t].got.own, "completed")
        /\ UNCHANGED <<asked, log, excused, issues, lost>>
    BY <1>3 DEF TurnEnds, On, Own, Got
  <2>2. Shaped' /\ Only(t) /\ call'[t].op = "none"
    BY <1>1, <2>1, Leaves
  <2>3. Holds(t)' /\ ~ Judges(t)'
    BY <2>2 DEF Holds, Judges
  <2>4. call[t].got.own \in 1..Len(asked) /\ "completed" \in Final /\ Awaits(t)
    BY <1>1, <2>1 DEF Holds, Final, Awaits
  <2> QED
    BY <2>1, <2>2, <2>3, <2>4, EndsStep
<1> QED
  BY <1>2, <1>3

\* An evaluation is spawned, or finds no permit or no key.
LEMMA SpawnSteps ==
    ASSUME EvaluatorInv, NEW t \in Tasks, Spawn(t) \/ SpawnSophie(t) \/ Saturated(t) \/ NoKey(t)
    PROVE  EvaluatorInv'
<1>1. Shaped /\ UNCHANGED evVars
  BY DEF EvaluatorInv, Spawn, SpawnSophie, Saturated, NoKey
<1>2. UNCHANGED <<asked, log, queue, issues, excused, lost>>
  BY <1>1 DEF evVars
<1>3. CASE Spawn(t) \/ SpawnSophie(t)
  <2>1. PICK c \in Conversations \cup {Sophie} : Begin(t, "evaluation", "permit", [conv |-> c])
    BY <1>3 DEF Spawn, SpawnSophie
  <2>2. /\ call[t].op = "none" /\ Shaped' /\ Only(t)
        /\ call'[t] = [op |-> "evaluation", at |-> "permit", arg |-> [conv |-> c], got |-> <<>>]
    BY <1>1, <2>1 DEF Begin, BeginWith, Running, Shaped, Only
  <2>3. call'[t].op = "evaluation" /\ call'[t].at = "permit" /\ call'[t].arg = [conv |-> c]
    BY <2>2
  <2>4. Holds(t)' /\ ~ Judges(t)' /\ ~ Awaits(t)
    BY <2>2, <2>3 DEF Holds, Judges, Awaits
  <2> QED
    BY <1>2, <2>2, <2>4, QuietStep
<1>4. CASE Saturated(t) \/ NoKey(t)
  <2>1. call[t].op = "evaluation" /\ call[t].at = "permit" /\ Finish(t)
    BY <1>4 DEF Saturated, NoKey, On
  <2>2. Shaped' /\ Only(t) /\ call'[t].op = "none"
    BY <1>1, <2>1, Leaves
  <2>3. Holds(t)' /\ ~ Judges(t)' /\ ~ Awaits(t)
    BY <2>1, <2>2 DEF Holds, Judges, Awaits
  <2> QED
    BY <1>2, <2>1, <2>2, <2>3, QuietStep
<1> QED
  BY <1>3, <1>4

\* The cheap model is asked for a verdict.
LEMMA AskSteps ==
    ASSUME EvaluatorInv, NEW t \in Tasks, Ask(t) \/ AskSophie(t)
    PROVE  EvaluatorInv'
<1>1. Shaped /\ Sized /\ Holds(t) /\ Len(asked) \in Nat
  BY DEF EvaluatorInv, Sized
<1>2. call[t].op = "evaluation" /\ call[t].at = "permit"
  BY DEF Ask, AskSophie, On
<1>3. PICK c : c = call[t].arg.conv
  OBVIOUS
<1>4. PICK kind \in {"evaluator", "sophie_evaluator"} :
        Asks(t, kind) /\ (kind = "evaluator" <=> c # Sophie)
  BY <1>3 DEF Ask, AskSophie, Arg
<1>5. /\ Permits > 0 /\ Learn(t, "verdict", [own |-> Len(asked) + 1]) /\ Logs(kind, c)
      /\ excused' = excused \cup {call[u].got.own : u \in Judging(c)} /\ UNCHANGED <<issues, lost>>
  BY <1>3, <1>4 DEF Asks, Arg, Own, Got
<1>6. /\ Shaped' /\ Only(t) /\ call'[t].op = "evaluation" /\ call'[t].at = "verdict"
      /\ call'[t].arg = call[t].arg /\ call'[t].got = [own |-> Len(asked) + 1]
  BY <1>1, <1>2, <1>5, Moves, Learns
<1>7. c \in Conversations \cup {Sophie} /\ [kind |-> kind, conv |-> c] \in AskedCall
  BY <1>1, <1>2, <1>3 DEF Holds, AskedCall
<1>8. Len(asked') = Len(asked) + 1 /\ asked'[Len(asked) + 1] = [kind |-> kind, conv |-> c]
  BY <1>1, <1>5, <1>7 DEF Logs, Sized
<1>9. Holds(t)'
  <2>1. call'[t].got.own = Len(asked) + 1 /\ "own" \in DOMAIN call'[t].got /\ call'[t].arg.conv = c
    BY <1>3, <1>6
  <2>2. Judged(call[t])'
    <3>1. Overtaken(call[t])'
      BY <1>1, <1>8, <2>1 DEF Overtaken
    <3> QED
      BY <1>1, <1>4, <1>6, <1>8, <2>1, <3>1 DEF Judged
  <2> QED
    BY <1>6, <1>7, <2>1, <2>2 DEF Holds
<1>10. PermitsHold'
  <2>1. \A u \in Tasks : u # t /\ Judges(u)' => Judges(u)
    BY <1>6, OthersStay
  <2> QED
    BY <1>5, <2>1, PermitTaken
<1>11. Awaits(t)' /\ call'[t].got.own = Len(asked) + 1
  BY <1>6 DEF Awaits
<1>12. excused \subseteq excused' /\ \A u \in Judging(c) : call[u].got.own \in excused'
  BY <1>5
<1> QED
  BY <1>2, <1>4, <1>5, <1>6, <1>7, <1>9, <1>10, <1>11, <1>12, AsksStep

\* The verdict: none, fine, issues, an error, or too late.
LEMMA VerdictSteps ==
    ASSUME EvaluatorInv, NEW t \in Tasks,
           \/ Fine(t) \/ Unreadable(t) \/ HasIssues(t) \/ SophieHasIssues(t)
           \/ AskFails(t) \/ TimesOut(t)
    PROVE  EvaluatorInv'
<1>1. Shaped /\ Sized /\ Holds(t)
  BY DEF EvaluatorInv
<1>2. call[t].op = "evaluation" /\ call[t].at = "verdict"
  BY DEF Fine, Unreadable, HasIssues, SophieHasIssues, AskFails, TimesOut, On
<1>3. Judged(call[t]) /\ call[t].got.own \in 1..Len(asked) /\ Awaits(t) /\ Judges(t)
  BY <1>1, <1>2 DEF Holds, Judged, Awaits, Judges
<1>4. ASSUME Finish(t), NEW s \in Final, Ends(call[t].got.own, s),
             UNCHANGED <<asked, log, excused, issues, lost>>
      PROVE  EvaluatorInv'
  <2>1. Shaped' /\ Only(t) /\ call'[t].op = "none"
    BY <1>1, <1>4, Leaves
  <2>2. Holds(t)'
    BY <2>1 DEF Holds
  <2> QED
    BY <1>3, <1>4, <2>1, <2>2, EndsStep
<1>5. ASSUME Alerts(t) PROVE EvaluatorInv'
  <2>1. PICK i \in 1..Len(asked) : i = call[t].got.own
    BY <1>3
  <2>2. /\ Ends(i, "completed") /\ issues' = issues \cup {i}
        /\ Learn(t, "find", [own |-> i, attempt |-> 1]) /\ UNCHANGED <<asked, log, excused, lost>>
    BY <1>5, <2>1 DEF Alerts, Own, Got
  <2>3. /\ Shaped' /\ Only(t) /\ call'[t].op = "evaluation" /\ call'[t].at = "find"
        /\ call'[t].arg = call[t].arg /\ call'[t].got = [own |-> i, attempt |-> 1]
    BY <1>1, <1>2, <2>2, Moves, Learns
  <2>4. /\ call'[t].got.own = i /\ "own" \in DOMAIN call'[t].got
        /\ call'[t].got = [own |-> call'[t].got.own, attempt |-> call'[t].got.attempt]
    BY <2>3
  <2>5. Holds(t)'
    <3>1. Overtaken(call[t])'
      BY <1>3, <2>1, <2>2, <2>3, <2>4 DEF Judged, Overtaken
    <3>2. Judged(call[t])'
      BY <1>3, <2>1, <2>2, <2>3, <2>4, <3>1 DEF Judged
    <3> QED
      BY <1>1, <1>2, <2>3, <3>2 DEF Holds
  <2>6. Held(i)' /\ Judges(t)
    BY <1>3, <2>3, <2>4 DEF Held
  <2>7. "completed" \in Final
    BY DEF Final
  <2> QED
    BY <1>3, <2>1, <2>2, <2>3, <2>5, <2>6, <2>7, EndsStep
<1>6. CASE Fine(t) \/ Unreadable(t) \/ AskFails(t)
  <2>1. /\ Finish(t) /\ UNCHANGED <<asked, log, excused, issues, lost>>
        /\ \E s \in Final : Ends(call[t].got.own, s)
    BY <1>6 DEF Fine, Unreadable, AskFails, Own, Got, Final
  <2> QED
    BY <1>4, <2>1
<1>7. CASE TimesOut(t)
  <2>1. Finish(t) /\ lost' = lost \cup {call[t].got.own} /\ UNCHANGED <<asked, log, queue, excused, issues>>
    BY <1>7 DEF TimesOut, Own, Got
  <2>2. Shaped' /\ Only(t) /\ call'[t].op = "none"
    BY <1>1, <2>1, Leaves
  <2>3. Holds(t)'
    BY <2>2 DEF Holds
  <2> QED
    BY <1>2, <1>3, <2>1, <2>2, <2>3, QuietStep
<1> QED
  BY <1>5, <1>6, <1>7 DEF HasIssues, SophieHasIssues

-----------------------------------------------------------------------------

\* The newest rows: whatever is newer than one of them is one.
LEMMA NewerIsScanned ==
    ASSUME Sized, NEW c, NEW i \in Scanned(c), NEW j \in Visible(c), j > i
    PROVE  j \in Scanned(c)
<1> DEFINE above(k) == {l \in Visible(c) : l > k}
<1>1. DOMAIN log = 1..Len(asked) /\ Len(asked) \in Nat
  BY Sizes
<1>2. 1 \in Int /\ Len(asked) \in Int
  BY <1>1
<1>3. IsFiniteSet(Visible(c))
  <2>1. IsFiniteSet(1..Len(asked))
    BY <1>2, FS_Interval
  <2>2. Visible(c) \in SUBSET (1..Len(asked))
    BY <1>1 DEF Visible
  <2> QED
    BY <2>1, <2>2, FS_Subset
<1>4. IsFiniteSet(above(i)) /\ Cardinality(above(i)) < ScanLimit
  BY <1>3, FS_Subset DEF Scanned
<1>5. above(j) \in SUBSET above(i)
  BY <1>1 DEF Scanned, Visible
<1>6. Cardinality(above(j)) <= Cardinality(above(i)) /\ Cardinality(above(j)) \in Nat /\ Cardinality(above(i)) \in Nat
  BY <1>4, <1>5, FS_Subset, FS_CardinalityType
<1>7. Cardinality(above(j)) < ScanLimit
  BY <1>4, <1>6, EvaluatorAssumption
<1> QED
  BY <1>7 DEF Scanned

\* The row that is found.
LEMMA LatestMatches ==
    ASSUME Sized, NEW c, Matches(c) # {}
    PROVE  /\ Max(Matches(c)) \in Matches(c)
           /\ \A i \in Matches(c) : i \in 1..Len(asked) /\ i <= Max(Matches(c))
<1>1. DOMAIN log = 1..Len(asked) /\ Len(asked) \in Nat
  BY Sizes
<1>2. \A i \in Matches(c) : i \in 1..Len(asked)
  BY <1>1 DEF Matches, Scanned, Visible
<1>3. Matches(c) \subseteq Nat /\ \A i \in Matches(c) : i <= Len(asked)
  BY <1>1, <1>2
<1> QED
  BY <1>1, <1>2, <1>3, MaxIsGreatest

\* Its own, or one that excuses it.
LEMMA FindsRowStep ==
    ASSUME EvaluatorInv, NEW t \in Tasks, FindsRow(t)
    PROVE  EvaluatorInv'
<1>1. Shaped /\ Sized /\ Holds(t)
  BY DEF EvaluatorInv
<1>2. PICK own, c : own = call[t].got.own /\ c = call[t].arg.conv
  OBVIOUS
<1>3. PICK row : row = Max(Matches(c))
  OBVIOUS
<1>4. /\ call[t].op = "evaluation" /\ call[t].at = "find" /\ Matches(c) # {}
      /\ Learn(t, "mark", [own |-> own, row |-> row])
      /\ excused' = IF Row(own).status = "none" THEN excused \cup {own} ELSE excused
      /\ UNCHANGED <<asked, log, queue, issues, lost>>
  BY <1>2, <1>3 DEF FindsRow, On, Arg, Own, Got
<1>5. Judged(call[t]) /\ own \in 1..Len(asked) /\ asked[own].conv = c
  BY <1>1, <1>2, <1>4 DEF Holds, Judged
<1>6. /\ Shaped' /\ Only(t) /\ call'[t].op = "evaluation" /\ call'[t].at = "mark"
      /\ call'[t].arg = call[t].arg /\ call'[t].got = [own |-> own, row |-> row]
  BY <1>1, <1>4, Moves, Learns
<1>7. call'[t].got.own = own /\ call'[t].got.row = row /\ "own" \in DOMAIN call'[t].got
  BY <1>6
<1>8. /\ row \in Matches(c) /\ row \in 1..Len(asked) /\ \A i \in Matches(c) : i <= row
      /\ asked[row].kind = "evaluator" /\ asked[row].conv = c
  BY <1>1, <1>3, <1>4, LatestMatches DEF Matches
<1>9. c # Sophie /\ asked[own].kind = "evaluator"
  BY <1>1, <1>2, <1>5, <1>8 DEF Sized, Judged
<1>10. row = own \/ own \in excused'
  <2>1. CASE Row(own).status = "none"
    BY <1>4, <2>1
  <2>2. CASE Row(own).status # "none"
    <3>1. own \in Visible(c)
      BY <1>1, <1>5, <2>2, Sizes DEF Visible, Row, Partition
    <3>2. ~ (own > row)
      <4> SUFFICES ASSUME own > row PROVE FALSE
        OBVIOUS
      <4>1. own \in Scanned(c)
        BY <1>1, <1>8, <3>1, NewerIsScanned DEF Matches
      <4>2. own \in Matches(c)
        BY <1>5, <1>9, <4>1 DEF Matches
      <4> QED
        BY <1>5, <1>8, <4>2
    <3>3. row > own => own \in excused
      BY <1>2, <1>5, <1>8 DEF Judged, Overtaken
    <3> QED
      BY <1>4, <1>5, <1>8, <3>2, <3>3
  <2> QED
    BY <2>1, <2>2
<1>11. Holds(t)'
  <2>1. Overtaken(call[t])'
    BY <1>2, <1>4, <1>5, <1>6, <1>7 DEF Judged, Overtaken
  <2>2. Judged(call[t])'
    BY <1>2, <1>4, <1>5, <1>6, <1>7, <1>8, <1>9, <1>10, <2>1 DEF Judged
  <2> QED
    BY <1>1, <1>4, <1>6, <2>2 DEF Holds
<1>12. excused \subseteq excused'
  BY <1>4
<1>13. \A i : call[t].got.own = i => Held(i)'
  BY <1>2, <1>6, <1>7 DEF Held
<1>14. Judges(t) /\ ~ Awaits(t)
  BY <1>4 DEF Judges, Awaits
<1> QED
  BY <1>4, <1>6, <1>11, <1>12, <1>13, <1>14, QuietStep

\* A row that is there and is not found has too many after it.
LEMMA BuriedIsResolved ==
    ASSUME Sized, NEW i \in 1..Len(asked), NEW c, asked[i].conv = c, c # Sophie,
           asked[i].kind = "evaluator", Matches(c) = {}, Row(i).status # "none"
    PROVE  Resolved(i)
<1> DEFINE above == {l \in Visible(c) : l > i}
<1>1. DOMAIN log = 1..Len(asked) /\ DOMAIN asked = 1..Len(asked) /\ Len(asked) \in Nat
  BY Sizes
<1>2. i \in Visible(c)
  BY <1>1 DEF Visible, Row, Partition
<1>3. ~ (Cardinality(above) < ScanLimit)
  BY <1>2 DEF Scanned, Matches
<1>4. above \in SUBSET After(i)
  BY <1>1 DEF Visible, Partition, After
<1>5. 1 \in Int /\ Len(asked) \in Int
  BY <1>1
<1>6. IsFiniteSet(DOMAIN asked)
  BY <1>1, <1>5, FS_Interval
<1>7. IsFiniteSet(After(i))
  <2>1. After(i) \in SUBSET (DOMAIN asked)
    BY DEF After
  <2> QED
    BY <1>6, <2>1, FS_Subset
<1>8. /\ IsFiniteSet(above) /\ Cardinality(above) <= Cardinality(After(i))
      /\ Cardinality(above) \in Nat /\ Cardinality(After(i)) \in Nat
  BY <1>4, <1>7, FS_Subset, FS_CardinalityType
<1> HIDE DEF above
<1>9. Cardinality(After(i)) >= ScanLimit
  BY <1>3, <1>8, EvaluatorAssumption
<1> QED
  BY <1>9 DEF Resolved

\* None found: again, or never.
LEMMA FindsNoneStep ==
    ASSUME EvaluatorInv, NEW t \in Tasks, FindsNone(t)
    PROVE  EvaluatorInv'
<1>1. Shaped /\ Sized /\ Holds(t)
  BY DEF EvaluatorInv
<1>2. PICK own, c : own = call[t].got.own /\ c = call[t].arg.conv
  OBVIOUS
<1>3. /\ call[t].op = "evaluation" /\ call[t].at = "find"
      /\ UNCHANGED <<asked, log, queue, issues>>
  BY DEF FindsNone, On
<1>4. /\ Judged(call[t]) /\ own \in 1..Len(asked) /\ asked[own].conv = c
      /\ call[t].got = [own |-> own, attempt |-> call[t].got.attempt]
      /\ Judges(t) /\ ~ Awaits(t)
  BY <1>1, <1>2, <1>3 DEF Holds, Judged, Judges, Awaits
<1>5. ASSUME Learn(t, "find", [Got(t) EXCEPT !.attempt = @ + 1]), UNCHANGED <<excused, lost>>
      PROVE  EvaluatorInv'
  <2>1. PICK n : n = call[t].got.attempt + 1
    OBVIOUS
  <2>2. [Got(t) EXCEPT !.attempt = @ + 1] = [own |-> own, attempt |-> n]
    BY <1>4, <2>1 DEF Got
  <2>3. /\ Shaped' /\ Only(t) /\ call'[t].op = "evaluation" /\ call'[t].at = "find"
        /\ call'[t].arg = call[t].arg /\ call'[t].got = [own |-> own, attempt |-> n]
    BY <1>1, <1>3, <1>5, <2>2, Moves, Learns
  <2>4. /\ call'[t].got.own = own /\ "own" \in DOMAIN call'[t].got
        /\ call'[t].got = [own |-> call'[t].got.own, attempt |-> call'[t].got.attempt]
    BY <2>3
  <2>5. Holds(t)'
    <3>1. Overtaken(call[t])'
      BY <1>2, <1>3, <1>4, <1>5, <2>3, <2>4 DEF Judged, Overtaken
    <3>2. Judged(call[t])'
      BY <1>2, <1>3, <1>4, <1>5, <2>3, <2>4, <3>1 DEF Judged
    <3> QED
      BY <1>1, <1>3, <2>3, <3>2 DEF Holds
  <2>6. \A i : call[t].got.own = i => Held(i)'
    BY <1>2, <2>3, <2>4 DEF Held
  <2> QED
    BY <1>3, <1>4, <1>5, <2>3, <2>5, <2>6, QuietStep
<1>6. ASSUME Finish(t), NEW failed \in BOOLEAN, failed \/ Matches(c) = {},
             lost' = IF failed THEN lost \cup {own} ELSE lost,
             excused' = IF Row(own).status = "none" THEN excused \cup {own} ELSE excused
      PROVE  EvaluatorInv'
  <2>1. Shaped' /\ Only(t) /\ call'[t].op = "none"
    BY <1>1, <1>6, Leaves
  <2>2. Holds(t)' /\ ~ Judges(t)'
    BY <2>1 DEF Holds, Judges
  <2>3. excused \subseteq excused' /\ lost \subseteq lost'
    BY <1>6
  <2>4. Resolved(own)'
    <3>1. CASE own \in excused' \cup lost'
      BY <3>1 DEF Resolved
    <3>2. CASE own \notin excused' \cup lost'
      <4>1. Matches(c) = {} /\ Row(own).status # "none"
        BY <1>6, <3>2
      <4>2. CASE c = Sophie
        BY <1>3, <1>4, <4>2 DEF Resolved
      <4>3. CASE c # Sophie
        <5>1. Resolved(own)
          BY <1>1, <1>2, <1>4, <4>1, <4>3, BuriedIsResolved DEF Judged
        <5>2. Sized'
          BY <1>1, <1>3 DEF Sized
        <5>3. Grows
          BY <1>1, <1>3 DEF Grows, Sized
        <5> QED
          BY <1>1, <1>3, <1>4, <2>3, <5>1, <5>2, <5>3, ResolvedStays
      <4> QED
        BY <4>2, <4>3
    <3> QED
      BY <3>1, <3>2
  <2>5. \A i : call[t].got.own = i => Resolved(i)'
    BY <1>2, <2>4
  <2> QED
    BY <1>3, <1>4, <2>1, <2>2, <2>3, <2>5, QuietStep
<1> QED
  BY <1>2, <1>5, <1>6 DEF FindsNone, Arg, Own, Got

\* The mark.
LEMMA MarksRowStep ==
    ASSUME EvaluatorInv, NEW t \in Tasks, MarksRow(t)
    PROVE  EvaluatorInv'
<1>1. Shaped /\ Sized /\ BegunOnce /\ RowsBegin /\ RowsEnd /\ Marked /\ IssuesHeld /\ PermitsHold /\ Holds(t)
  BY DEF EvaluatorInv
<1>2. PICK own, row, c : own = call[t].got.own /\ row = call[t].got.row /\ c = call[t].arg.conv
  OBVIOUS
<1>3. /\ call[t].op = "evaluation" /\ call[t].at = "mark" /\ Finish(t)
      /\ log' = [log EXCEPT ![row].mark = own] /\ UNCHANGED <<asked, queue, excused, issues, lost>>
  BY <1>2 DEF MarksRow, On, Own, Got
<1>4. /\ Judged(call[t]) /\ own \in 1..Len(asked) /\ asked[own].conv = c
      /\ row \in 1..Len(asked) /\ asked[row].kind = "evaluator" /\ asked[row].conv = c
      /\ row = own \/ own \in excused
  BY <1>1, <1>2, <1>3 DEF Holds, Judged
<1>5. Shaped' /\ Only(t) /\ call'[t].op = "none"
  BY <1>1, <1>3, Leaves
<1>6. Holds(t)' /\ ~ Judges(t)' /\ ~ Awaits(t)
  BY <1>3, <1>5 DEF Holds, Judges, Awaits
<1>7. Grows /\ \A u \in Tasks : Holds(u)'
  BY <1>3, <1>5, <1>6, OthersKeep
<1>8. /\ log' \in Seq(LogRow) /\ Len(log') = Len(asked) /\ Len(asked) \in Nat
      /\ \A i \in 1..Len(asked) : log'[i].status = log[i].status
      /\ \A i \in 1..Len(asked) : log'[i].mark = IF i = row THEN own ELSE log[i].mark
  <2> DEFINE new == [status |-> log[row].status, mark |-> own]
  <2>1. log[row] = [status |-> log[row].status, mark |-> log[row].mark] /\ log[row].status \in Status
    BY <1>1, <1>4, Sizes
  <2>2. own \in Nat /\ Len(asked) \in Nat
    BY <1>1, <1>4 DEF Sized
  <2>3. new \in LogRow /\ new.status = log[row].status /\ new.mark = own
    BY <2>1, <2>2 DEF LogRow
  <2>4. log' = [log EXCEPT ![row] = [log[row] EXCEPT !.mark = own]]
    BY <1>3
  <2>5. [log[row] EXCEPT !.mark = own] = new
    BY <2>1
  <2>6. log' = [log EXCEPT ![row] = new]
    BY <2>4, <2>5
  <2> HIDE DEF new
  <2>7. log \in Seq(LogRow) /\ Len(log) = Len(asked)
    BY <1>1 DEF Sized
  <2> QED
    BY <1>4, <2>2, <2>3, <2>6, <2>7
<1>9. Sized'
  BY <1>1, <1>3, <1>8 DEF Sized
<1>10. BegunOnce'
  <2>1. \A k \in 1..Len(queue) : log'[queue[k].call].status = log[queue[k].call].status
    BY <1>1, <1>8 DEF Sized
  <2> QED
    BY <1>1, <1>3, <2>1 DEF BegunOnce
<1>11. RowsBegin'
  BY <1>1, <1>3, <1>8 DEF RowsBegin
<1>12. RowsEnd'
  <2> SUFFICES ASSUME NEW i \in 1..Len(asked), i \notin lost
               PROVE  Settled(i)' \/ Ending(i)' \/ Awaited(i)'
    BY <1>3 DEF RowsEnd
  <2>1. Settled(i) \/ Ending(i) \/ Awaited(i)
    BY <1>1 DEF RowsEnd
  <2>2. Awaited(i) => Awaited(i)'
    BY <1>5, <1>6, OthersStay
  <2>3. Settled(i) => Settled(i)'
    BY <1>8 DEF Settled
  <2>4. Ending(i) => Ending(i)'
    BY <1>3 DEF Ending
  <2> QED
    BY <2>1, <2>2, <2>3, <2>4
<1>13. Marked'
  <2>1. DOMAIN log = 1..Len(asked) /\ DOMAIN log' = 1..Len(asked) /\ Len(log) = Len(asked)
    BY <1>1, <1>8, Sizes DEF Sized
  <2>2. \A i \in 1..Len(asked) : log'[i].mark # 0 =>
            /\ asked[i].kind = "evaluator" /\ asked[i].conv = asked[log'[i].mark].conv
            /\ log'[i].mark = i \/ log'[i].mark \in excused
    BY <1>1, <1>4, <1>8, <2>1 DEF Marked, MarksAreItsOwn
  <2>3. \A i \in 1..Len(asked) : log'[i].mark <= Len(asked)
    BY <1>1, <1>4, <1>8, <2>1 DEF Marked
  <2> QED
    BY <1>3, <1>8, <2>1, <2>2, <2>3 DEF Marked, MarksAreItsOwn
<1>14. IssuesHeld'
  <2>1. \A i \in 1..Len(asked) : log[i].mark # 0 => log'[i].mark # 0
    BY <1>4, <1>8
  <2>2. Resolved(own)'
    BY <1>3, <1>4, <1>8 DEF Resolved
  <2>3. \A i : i = own => Resolved(i)'
    BY <2>2
  <2>4. \A i \in issues : Held(i) => Held(i)' \/ Resolved(i)'
    BY <1>2, <1>5, <2>3, OthersStay
  <2> QED
    BY <1>1, <1>3, <1>7, <1>9, <2>1, <2>4, IssuesStay
<1>15. PermitsHold'
  <2>1. \A u \in Tasks : Judges(u)' => Judges(u)
    BY <1>5, <1>6, OthersStay
  <2> QED
    BY <1>1, <2>1, PermitsStay
<1> QED
  BY <1>5, <1>7, <1>9, <1>10, <1>11, <1>12, <1>13, <1>14, <1>15 DEF EvaluatorInv

\* A task stops where it stands.
LEMMA StopsStep ==
    ASSUME EvaluatorInv, NEW t \in Tasks, Stops(t)
    PROVE  EvaluatorInv'
<1>1. Shaped /\ Sized /\ Holds(t)
  BY DEF EvaluatorInv
<1>2. /\ Drop(t) /\ UNCHANGED <<asked, log, queue, excused, issues>>
      /\ lost' = IF "own" \in DOMAIN call[t].got THEN lost \cup {call[t].got.own} ELSE lost
  BY DEF Stops, Own, Got
<1>3. Shaped' /\ Only(t) /\ call'[t].op = "none"
  BY <1>1, <1>2, Leaves
<1>4. Holds(t)' /\ ~ Judges(t)'
  BY <1>3 DEF Holds, Judges
<1>5. Awaits(t) \/ Judges(t) => call[t].got.own \in lost'
  BY <1>1, <1>2 DEF Holds, Judged, Awaits, Judges
<1>6. \A i : call[t].op = "evaluation" /\ call[t].at \in {"find", "mark"} /\ call[t].got.own = i => Resolved(i)'
  BY <1>5 DEF Judges, Resolved
<1>7. lost \subseteq lost'
  BY <1>2
<1> QED
  BY <1>2, <1>3, <1>4, <1>5, <1>6, <1>7, QuietStep

\* A step of the drain changes no task.
LEMMA DrainSteps ==
    ASSUME EvaluatorInv, Drains \/ DrainFails
    PROVE  EvaluatorInv'
<1>1. Shaped /\ Sized /\ BegunOnce /\ RowsBegin /\ RowsEnd /\ Marked /\ IssuesHeld /\ PermitsHold
  BY DEF EvaluatorInv
<1>2. UNCHANGED <<asked, excused, issues, call>>
  BY DEF Drains, DrainFails, tasking
<1>3. /\ Sized' /\ BegunOnce' /\ RowsBegin' /\ lost \subseteq lost'
      /\ \A i \in 1..Len(asked) : log'[i].mark = log[i].mark
      /\ \A i \in 1..Len(asked) :
            i \in lost \/ Settled(i) \/ Ending(i) => i \in lost' \/ Settled(i)' \/ Ending(i)'
  <2>1. CASE Drains
    <3>1. UNCHANGED lost
      BY <2>1 DEF Drains
    <3> QED
      BY <1>1, <2>1, <3>1, QueueDrains
  <2>2. CASE DrainFails
    <3>1. UNCHANGED log
      BY <2>2 DEF DrainFails
    <3> QED
      BY <1>1, <2>2, <3>1, QueueLoses DEF Settled
  <2> QED
    BY <2>1, <2>2
<1>4. RowsEnd'
  <2>1. \A i : Awaited(i) => Awaited(i)'
    BY <1>2 DEF Awaited, Awaits
  <2> QED
    BY <1>1, <1>2, <1>3, <2>1 DEF RowsEnd
<1>5. /\ DOMAIN log = 1..Len(asked) /\ DOMAIN log' = 1..Len(asked) /\ Len(log) = Len(asked)
      /\ Len(log') = Len(asked)
  BY <1>1, <1>2, <1>3, Sizes DEF Sized
<1>6. Marked'
  BY <1>1, <1>2, <1>3, <1>5 DEF Marked, MarksAreItsOwn
<1>7. IssuesHeld'
  <2>1. \A i : Held(i) => Held(i)'
    BY <1>2 DEF Held
  <2>2. Grows
    BY <1>1, <1>2 DEF Grows, Sized
  <2> QED
    BY <1>1, <1>2, <1>3, <2>1, <2>2, IssuesStay
<1>8. PermitsHold' /\ Shaped'
  BY <1>1, <1>2 DEF PermitsHold, Judges, Shaped
<1>9. \A t \in Tasks : Holds(t)'
  BY <1>2 DEF EvaluatorInv, Holds, Judged, Overtaken
<1> QED
  BY <1>3, <1>4, <1>6, <1>7, <1>8, <1>9 DEF EvaluatorInv

\* Every step keeps the invariant, and it holds at the start.
LEMMA EvaluatorInductive ==
    /\ EvaluatorInit /\ TasksInit(Budgets) => EvaluatorInv
    /\ EvaluatorInv /\ [EvaluatorNext]_<<tasking, evVars>> => EvaluatorInv'
<1>1. ASSUME EvaluatorInit, TasksInit(Budgets) PROVE EvaluatorInv
  <2>1. /\ call = [t \in Tasks |-> NoCall] /\ asked = <<>> /\ log = <<>> /\ queue = <<>> /\ issues = {}
    BY <1>1 DEF TasksInit, EvaluatorInit
  <2>2. Shaped /\ \A t \in Tasks : Holds(t) /\ ~ Judges(t)
    BY <2>1 DEF Shaped, NoCall, Holds, Judges
  <2>3. Sized /\ BegunOnce /\ RowsBegin /\ RowsEnd /\ Marked /\ IssuesHeld
    BY <2>1 DEF Sized, BegunOnce, RowsBegin, RowsEnd, Marked, MarksAreItsOwn, IssuesHeld
  <2>4. PermitsHold
    <3>1. {t \in Tasks : Judges(t)} = {}
      BY <2>2
    <3>2. Cardinality({t \in Tasks : Judges(t)}) = 0
      BY <3>1, FS_EmptySet
    <3> QED
      BY <3>2, EvaluatorAssumption DEF PermitsHold
  <2> QED
    BY <2>2, <2>3, <2>4 DEF EvaluatorInv
<1>2. ASSUME EvaluatorInv, UNCHANGED <<tasking, evVars>> PROVE EvaluatorInv'
  <2>1. UNCHANGED <<call, asked, log, queue, excused, issues, lost>>
    BY <1>2 DEF tasking, evVars
  <2>2. Shaped' /\ Sized' /\ BegunOnce' /\ RowsBegin' /\ Marked' /\ PermitsHold'
    BY <1>2, <2>1 DEF EvaluatorInv, Shaped, Sized, BegunOnce, RowsBegin, Marked, MarksAreItsOwn,
       PermitsHold, Judges
  <2>3. RowsEnd' /\ IssuesHeld'
    BY <1>2, <2>1 DEF EvaluatorInv, RowsEnd, Settled, Ending, Awaited, Awaits, IssuesHeld, Held,
       Resolved, After
  <2>4. \A t \in Tasks : Holds(t)'
    BY <1>2, <2>1 DEF EvaluatorInv, Holds, Judged, Overtaken
  <2> QED
    BY <2>2, <2>3, <2>4 DEF EvaluatorInv
<1>3. ASSUME EvaluatorInv, EvaluatorNext PROVE EvaluatorInv'
  BY <1>3, TurnSteps, SpawnSteps, AskSteps, VerdictSteps, FindsRowStep, FindsNoneStep, MarksRowStep,
     StopsStep, DrainSteps DEF EvaluatorNext, EvaluatorStep
<1> QED
  BY <1>1, <1>2, <1>3

\* What the promises are made of.
LEMMA EvaluationsAreRight == ASSUME EvaluatorInv PROVE EvaluationsHold
<1>1. Sized /\ RowsEnd /\ Marked /\ IssuesHeld /\ PermitsHold
  BY DEF EvaluatorInv
<1>2. /\ DOMAIN log = 1..Len(asked) /\ DOMAIN queue = 1..Len(queue) /\ DOMAIN asked = 1..Len(asked)
      /\ Len(asked) \in Nat
  BY <1>1, Sizes
<1>3. ASSUME NEW t \in Tasks, Awaits(t) \/ Judges(t)
      PROVE  Running(t) /\ "own" \in DOMAIN Got(t)
  <2>1. Holds(t)
    BY DEF EvaluatorInv
  <2> QED
    BY <1>3, <2>1 DEF Holds, Judged, Awaits, Judges, Running, Got
<1>4. NoneLeftOpen
  <2> SUFFICES ASSUME NEW i \in DOMAIN log, Over(i), ~ Pending(i), i \notin lost
               PROVE  log[i].status \in {"completed", "failed"}
    BY DEF NoneLeftOpen
  <2>1. ~ Awaited(i)
    BY <1>3 DEF Over, Awaited, Own, Got
  <2>2. ~ Ending(i)
    BY <1>2 DEF Pending, Ending
  <2> QED
    BY <1>1, <1>2, <2>1, <2>2 DEF RowsEnd, Settled, Final
<1>5. IssuesSurface
  <2> SUFFICES ASSUME NEW i \in issues, Over(i), i \notin excused \cup lost, asked[i].conv # Sophie,
                      Cardinality(After(i)) < ScanLimit
               PROVE  log[i].mark # 0
    BY DEF IssuesSurface, After
  <2>1. ~ Held(i)
    BY <1>3 DEF Over, Held, Own, Got, Judges
  <2>2. ~ (Cardinality(After(i)) >= ScanLimit)
    <3>1. 1 \in Int /\ Len(asked) \in Int
      BY <1>2
    <3>2. IsFiniteSet(DOMAIN asked)
      BY <1>2, <3>1, FS_Interval
    <3>3. After(i) \in SUBSET (DOMAIN asked)
      BY DEF After
    <3>4. Cardinality(After(i)) \in Nat
      BY <3>2, <3>3, FS_Subset, FS_CardinalityType
    <3> QED
      BY <3>4, EvaluatorAssumption
  <2> QED
    BY <1>1, <2>1, <2>2 DEF IssuesHeld, Resolved
<1> QED
  BY <1>1, <1>4, <1>5 DEF EvaluationsHold, Marked

\* However evaluations, turns, the drain and faults interleave: a mark is on
\* the row of its own call unless that could not be known, issues are marked
\* unless buried, no row stays open without a cause, and the permits are kept;
\* for any number of tasks, conversations, attempts and rows scanned.
THEOREM EvaluationsTrue == EvaluatorSpec => []EvaluationsHold
  BY EvaluatorInductive, EvaluationsAreRight, PTL DEF EvaluatorSpec

-----------------------------------------------------------------------------
(* The MCP servers of a workspace. *)

McpSpec == McpInit /\ TasksInit(Budgets) /\ [][McpNext]_<<mcVars, tasking>>

\* Two calls that may write one thing have entangled it.
OneMcpWriter ==
    \A t, u \in Tasks : t # u => McpWrites(call[t]) \cap McpWrites(call[u]) \subseteq entangled

\* A fetch has ended and what came of it is being written.
Outcomes == {"persist", "clear", "record"}
UnsettledBy(t, s) == \E at \in Outcomes : Ensuring(t, at) /\ Got(t).id = s
Unsettled(s) == \E t \in Tasks : UnsettledBy(t, s)

\* A row has its columns.
Columned(r) == DOMAIN r = {"is", "slug", "url", "cred", "kept", "fresh", "error"}

\* What was read of a server still holds.
Sound(s, row) == s \notin entangled => Exists(s) /\ row.cred = server[s].cred

KnowsCreate(t) ==
    call[t].at = "insert" /\ "slugs" \notin entangled =>
        \A s \in Servers \ entangled : Exists(s) => server[s].slug # Got(t)

\* What an update will write, but for the columns it changes, is what is there.
KnowsUpdate(t) ==
    LET s == Arg(t).id  g == Got(t) IN
    call[t].at # "get" =>
        /\ Columned(g) /\ (call[t].at = "slug" => Arg(t).name # "same")
        /\ s \notin entangled =>
            /\ Exists(s)
            /\ g.url = IF Arg(t).url = "same" THEN server[s].url ELSE Arg(t).url
            /\ g.cred = IF Arg(t).cred = "same" THEN server[s].cred ELSE Arg(t).cred
            /\ g.kept # <<>> => g.kept[2] = g.cred
            /\ Arg(t).name = "same" => g.slug = server[s].slug
            /\ call[t].at = "write" /\ Arg(t).name # "same" /\ "slugs" \notin entangled =>
                \A r \in Servers \ entangled : r # s /\ Exists(r) => server[r].slug # g.slug

KnowsFetch(t) ==
    call[t].at \in Outcomes \cup {"fetch"} =>
        /\ Got(t) # <<>> /\ Got(t).id \in Servers
        /\ Sound(Got(t).id, Got(t).row)
        /\ Got(t).id \notin entangled /\ call[t].at # "fetch" =>
            fetched[Got(t).id] = (call[t].at = "record")

KnowsTurn(t) ==
    /\ call[t].at # "links" => \A r \in Got(t).rows : r.id \in Servers /\ Sound(r.id, r.row)
    /\ call[t].at = "get" => Got(t).todo \subseteq Servers

ById == {"update", "delete", "link", "unlink", "refresh"}
McpOps == {"none", "create", "turn"} \cup ById

McpKnows(t) ==
    /\ call[t].op \in McpOps
    /\ call[t].op \in ById => Arg(t).id \in Servers
    /\ call[t].op = "create" => KnowsCreate(t)
    /\ call[t].op = "update" => KnowsUpdate(t)
    /\ On(t, "delete", "row") /\ Arg(t).id \notin entangled => Arg(t).id \notin linked
    /\ On(t, "link", "insert") /\ Arg(t).id \notin entangled => Exists(Arg(t).id)
    /\ call[t].op = "refresh" /\ call[t].at # "get" => Got(t).id = Arg(t).id
    /\ call[t].op = "turn" => KnowsTurn(t)
    /\ call[t].op \in {"turn", "refresh"} => KnowsFetch(t)

McpTyped ==
    /\ server = [s \in Servers |-> server[s]] /\ \A s \in Servers : Columned(server[s])
    /\ fetched = [s \in Servers |-> fetched[s]] /\ asked_for = [s \in Servers |-> asked_for[s]]
    /\ linked \subseteq Servers /\ removed \subseteq Servers

\* The red badge, also while a turn goes on to the next server.
BadgeSettles ==
    \A s \in Servers \ entangled :
        /\ Exists(s) /\ ~ Unsettled(s) => server[s].error = fetched[s]
        /\ ~ Exists(s) /\ s \notin removed => fetched[s] = FALSE

McpTables == McpTyped /\ PrefixesDiffer /\ SettingsKept /\ KeptListIsOurs /\ BadgeSettles /\ RemovedIsGone

McpInv == Shaped /\ McpTables /\ OneMcpWriter /\ \A t \in Tasks : McpKnows(t)

\* The tasks, after a step of t that goes on with its call or ends it.
Onward(t) ==
    /\ Running(t) /\ Shaped' /\ Only(t) /\ entangled \subseteq entangled'
    /\ call'[t].op # "none" => call'[t].op = call[t].op /\ call'[t].arg = call[t].arg

\* For who reads it, a server stays what it is.
Same(s) ==
    /\ Exists(s) => /\ Exists(s)' /\ server'[s].cred = server[s].cred /\ server'[s].url = server[s].url
                    /\ server'[s].slug = server[s].slug /\ fetched'[s] = fetched[s]
    /\ s \in linked' => s \in linked

SlugsStay == \A r \in Servers \ entangled' : Exists(r)' => Exists(r) /\ server'[r].slug = server[r].slug

\* What a call may write is known from its operation and its arguments.
LEMMA McpWritesOf ==
    ASSUME NEW c, NEW d, c.op = d.op, c.arg = d.arg
    PROVE  McpWrites(c) = McpWrites(d)
  BY DEF McpWrites

LEMMA McpWritesNothing ==
    ASSUME NEW c, c.op = "none"
    PROVE  McpWrites(c) = {}
  BY DEF McpWrites

LEMMA GoesOnward ==
    ASSUME Shaped, NEW t \in Tasks, Running(t), entangled \subseteq entangled',
           (\E at : Goto(t, at) \/ \E got : Learn(t, at, got)) \/ Finish(t) \/ Drop(t)
    PROVE  Onward(t)
<1>1. CASE \E at : Goto(t, at) \/ \E got : Learn(t, at, got)
  BY <1>1, Moves DEF Onward
<1>2. CASE Finish(t) \/ Drop(t)
  BY <1>2, Leaves DEF Onward
<1> QED
  BY <1>1, <1>2

LEMMA OneMcpWriterKept ==
    ASSUME McpInv, NEW t \in Tasks, Onward(t)
    PROVE  OneMcpWriter'
<1>1. McpWrites(call'[t]) \subseteq McpWrites(call[t])
  <2>1. CASE call'[t].op = "none"
    BY <2>1, McpWritesNothing
  <2>2. CASE call'[t].op # "none"
    BY <2>2, McpWritesOf DEF Onward
  <2> QED
    BY <2>1, <2>2
<1>2. \A u \in Tasks \ {t} : call'[u] = call[u]
  BY DEF Onward, Only
<1> SUFFICES ASSUME NEW u \in Tasks, NEW v \in Tasks, u # v
             PROVE  McpWrites(call'[u]) \cap McpWrites(call'[v]) \subseteq entangled'
  BY DEF OneMcpWriter
<1>3. McpWrites(call'[u]) \subseteq McpWrites(call[u]) /\ McpWrites(call'[v]) \subseteq McpWrites(call[v])
  BY <1>1, <1>2
<1>4. McpWrites(call[u]) \cap McpWrites(call[v]) \subseteq entangled
  BY DEF McpInv, OneMcpWriter
<1> QED
  BY <1>3, <1>4 DEF Onward

\* What a task knows stays true while what it may write is left alone.
LEMMA KnowledgeStays ==
    ASSUME McpInv, NEW u \in Tasks, call'[u] = call[u], entangled \subseteq entangled',
           \A s \in Servers : s \in McpWrites(call[u]) /\ s \notin entangled' => Same(s),
           "slugs" \in McpWrites(call[u]) /\ "slugs" \notin entangled' => SlugsStay
    PROVE  McpKnows(u)'
<1>1. call'[u] = call[u] /\ entangled \subseteq entangled'
  OBVIOUS
<1>2. \A s \in Servers : s \in McpWrites(call[u]) /\ s \notin entangled' => Same(s)
  OBVIOUS
<1>3. "slugs" \in McpWrites(call[u]) /\ "slugs" \notin entangled' => SlugsStay
  OBVIOUS
<1>4. McpKnows(u)
  BY DEF McpInv
<1>5. call[u].op \in McpOps /\ (call[u].op \in ById => Arg(u).id \in Servers)
  BY <1>4 DEF McpKnows
<1>6. CASE call[u].op = "create"
  <2>1. "slugs" \in McpWrites(call[u])
    BY <1>6 DEF McpWrites
  <2>2. KnowsCreate(u)'
    BY <1>1, <1>3, <1>4, <1>6, <2>1 DEF McpKnows, KnowsCreate, SlugsStay, Got
  <2> QED
    BY <1>1, <1>5, <1>6, <2>2 DEF McpKnows, ById, On, Arg, McpOps
<1>7. CASE call[u].op = "update"
  <2>1. Arg(u).id \in McpWrites(call[u]) /\ (Arg(u).name # "same" => "slugs" \in McpWrites(call[u]))
    BY <1>7 DEF McpWrites, Arg
  <2>2. KnowsUpdate(u)
    BY <1>4, <1>7 DEF McpKnows
  <2> DEFINE s == Arg(u).id
  <2>3. s \notin entangled' => Same(s)
    BY <1>2, <1>5, <1>7, <2>1 DEF ById
  <2>4. Arg(u).name # "same" /\ "slugs" \notin entangled' => SlugsStay
    BY <1>3, <2>1
  <2>5. Arg(u)' = Arg(u) /\ Got(u)' = Got(u)
    BY <1>1 DEF Arg, Got
  <2>6. KnowsUpdate(u)'
    BY <1>1, <2>2, <2>3, <2>4, <2>5 DEF KnowsUpdate, Same, SlugsStay, Columned
  <2> QED
    BY <1>1, <1>5, <1>7, <2>6 DEF McpKnows, ById, On, Arg, McpOps
<1>8. CASE call[u].op \in {"delete", "link", "unlink"}
  <2>1. call[u].op # "unlink" => Arg(u).id \in McpWrites(call[u])
    BY <1>8 DEF McpWrites, Arg
  <2>2. call[u].op # "unlink" /\ Arg(u).id \notin entangled' => Same(Arg(u).id)
    BY <1>2, <1>5, <1>8, <2>1 DEF ById
  <2>3. Arg(u)' = Arg(u) /\ Arg(u).id \in Servers
    BY <1>1, <1>5, <1>8 DEF Arg, ById
  <2> QED
    BY <1>1, <1>4, <1>8, <2>2, <2>3 DEF McpKnows, On, Same, McpOps
<1>9. CASE call[u].op \in {"turn", "refresh"}
  <2>1. Arg(u)' = Arg(u) /\ Got(u)' = Got(u)
    BY <1>1 DEF Arg, Got
  <2>2. call[u].op = "turn" => KnowsTurn(u)'
    <3> SUFFICES ASSUME call[u].op = "turn", call[u].at # "links", NEW r \in Got(u).rows
                 PROVE  r.id \in Servers /\ Sound(r.id, r.row)'
      BY <1>1, <1>4, <2>1 DEF KnowsTurn, McpKnows
    <3>1. r.id \in Servers /\ Sound(r.id, r.row)
      BY <1>4 DEF McpKnows, KnowsTurn
    <3>2. r.id \notin entangled' => Same(r.id)
      BY <1>2, <3>1 DEF McpWrites
    <3> QED
      BY <1>1, <3>1, <3>2 DEF Sound, Same
  <2>3. KnowsFetch(u)'
    <3> SUFFICES ASSUME call[u].at \in Outcomes \cup {"fetch"}
                 PROVE  KnowsFetch(u)'
      BY <1>1 DEF KnowsFetch
    <3>1. KnowsFetch(u)
      BY <1>4, <1>9 DEF McpKnows
    <3>2. Got(u).id \in Servers /\ Sound(Got(u).id, Got(u).row)
      BY <3>1 DEF KnowsFetch
    <3>3. Got(u).id \in McpWrites(call[u])
      <4>1. CASE call[u].op = "turn"
        BY <4>1, <3>2 DEF McpWrites
      <4>2. CASE call[u].op = "refresh"
        BY <4>2, <1>4 DEF McpWrites, McpKnows, Outcomes, Arg
      <4> QED
        BY <1>9, <4>1, <4>2
    <3>4. Got(u).id \notin entangled' => Same(Got(u).id)
      BY <1>2, <3>2, <3>3
    <3>5. Sound(Got(u).id, Got(u).row)'
      BY <1>1, <2>1, <3>2, <3>4 DEF Sound, Same
    <3>6. Got(u).id \notin entangled' => fetched'[Got(u).id] = fetched[Got(u).id]
      BY <1>1, <3>2, <3>4 DEF Sound, Same
    <3> QED
      BY <1>1, <2>1, <3>1, <3>5, <3>6, Zenon DEF KnowsFetch
  <2> QED
    BY <1>1, <1>4, <1>5, <1>9, <2>1, <2>2, <2>3 DEF McpKnows, On, McpOps, ById
<1>10. CASE call[u].op = "none"
  BY <1>1, <1>10 DEF McpKnows, On, McpOps, ById
<1> QED
  BY <1>5, <1>6, <1>7, <1>8, <1>9, <1>10 DEF McpOps, ById

\* What another task knows of its server, t leaves alone.
LEMMA OthersKnow ==
    ASSUME McpInv, NEW t \in Tasks, Only(t), entangled \subseteq entangled',
           \A s \in Servers : s \in McpWrites(call[t]) \/ Same(s),
           "slugs" \in McpWrites(call[t]) \/ SlugsStay,
           NEW u \in Tasks \ {t}
    PROVE  McpKnows(u)'
<1>1. call'[u] = call[u]
  BY DEF Only
<1>2. McpWrites(call[t]) \cap McpWrites(call[u]) \subseteq entangled
  BY DEF McpInv, OneMcpWriter
<1> QED
  BY <1>1, <1>2, KnowledgeStays

LEMMA McpStep ==
    ASSUME McpInv, NEW t \in Tasks, Onward(t), McpTables', McpKnows(t)',
           \A s \in Servers : s \in McpWrites(call[t]) \/ Same(s),
           "slugs" \in McpWrites(call[t]) \/ SlugsStay
    PROVE  McpInv'
<1>1. OneMcpWriter'
  BY OneMcpWriterKept
<1>2. \A u \in Tasks \ {t} : McpKnows(u)'
  BY OthersKnow DEF Onward
<1> QED
  BY <1>1, <1>2 DEF McpInv, Onward

\* What is pending for another task stays pending.
LEMMA UnsettledKept ==
    ASSUME NEW t \in Tasks, Only(t), NEW s, UnsettledBy(t, s) => UnsettledBy(t, s)', Unsettled(s)
    PROVE  Unsettled(s)'
<1>1. PICK u \in Tasks : UnsettledBy(u, s)
  BY DEF Unsettled
<1>2. CASE u = t
  BY <1>1, <1>2 DEF Unsettled
<1>3. CASE u # t
  BY <1>1, <1>3 DEF Unsettled, UnsettledBy, Ensuring, On, Got, Only
<1> QED
  BY <1>2, <1>3

\* A step that writes none of the tables.
LEMMA McpTablesKept ==
    ASSUME McpInv, NEW t \in Tasks, Only(t), entangled \subseteq entangled',
           UNCHANGED <<server, linked, fetched, asked_for, removed>>,
           \A s \in Servers \ entangled' : UnsettledBy(t, s) => UnsettledBy(t, s)'
    PROVE  McpTables' /\ SlugsStay /\ \A s \in Servers : Same(s)
<1>2. \A s : Exists(s)' <=> Exists(s)
  BY DEF Exists
<1>3. BadgeSettles'
  <2> SUFFICES ASSUME NEW s \in Servers \ entangled'
               PROVE  /\ Exists(s) /\ ~ Unsettled(s)' => server[s].error = fetched[s]
                      /\ ~ Exists(s) /\ s \notin removed => fetched[s] = FALSE
    BY <1>2 DEF BadgeSettles
  <2>1. Unsettled(s) => Unsettled(s)'
    BY UnsettledKept
  <2> QED
    BY <2>1, Zenon DEF McpInv, McpTables, BadgeSettles
<1>4. McpTables'
  BY <1>2, <1>3 DEF McpInv, McpTables, McpTyped, PrefixesDiffer, SettingsKept, KeptListIsOurs,
                          RemovedIsGone, Columned, Tools
<1>5. SlugsStay /\ \A s \in Servers : Same(s)
  BY <1>2 DEF SlugsStay, Same
<1> QED
  BY <1>4, <1>5

LEMMA McpQuiet ==
    ASSUME McpInv, NEW t \in Tasks, Onward(t), McpKnows(t)',
           UNCHANGED <<server, linked, fetched, asked_for, removed>>,
           \A s \in Servers \ entangled' : UnsettledBy(t, s) => UnsettledBy(t, s)'
    PROVE  McpInv'
<1>1. McpTables' /\ SlugsStay /\ \A s \in Servers : Same(s)
  BY McpTablesKept DEF Onward
<1> QED
  BY <1>1, McpStep

\* A row that may be written for s.
RowFits(s, row) ==
    s \notin entangled' =>
        /\ row.is # "none" /\ s \notin removed
        /\ row.kept # <<>> => row.kept[2] = row.cred
        /\ Tools(row) = asked_for'[s]
        /\ "slugs" \notin entangled' =>
            \A r \in Servers \ entangled' : r # s /\ Exists(r) => server[r].slug # row.slug

\* Nothing is said of the other servers.
OthersAlone(t, s) ==
    /\ fetched' = [r \in Servers |-> fetched'[r]] /\ asked_for' = [r \in Servers |-> asked_for'[r]]
    /\ UNCHANGED <<linked, removed>>
    /\ \A r \in Servers \ {s} :
        /\ fetched'[r] = fetched[r] /\ asked_for'[r] = asked_for[r]
        /\ r \notin entangled' /\ UnsettledBy(t, r) => UnsettledBy(t, r)'

\* A step that writes the row of one server.
LEMMA McpRow ==
    ASSUME McpInv, NEW t \in Tasks, Onward(t), McpKnows(t)', NEW s \in Servers, NEW row,
           Columned(row), Writing(s, row), RowFits(s, row), OthersAlone(t, s),
           s \notin entangled' /\ ~ Unsettled(s)' => row.error = fetched'[s],
           s \in McpWrites(call[t]) \/ ~ Exists(s),
           "slugs" \in McpWrites(call[t])
              \/ (s \notin entangled' => Exists(s) /\ row.slug = server[s].slug)
    PROVE  McpInv'
<1>1. entangled \subseteq entangled' /\ Only(t)
  BY DEF Onward
<1>2. server'[s] = row /\ (\A r \in Servers \ {s} : server'[r] = server[r])
      /\ server' = [r \in Servers |-> server'[r]]
  BY DEF McpInv, McpTables, McpTyped, Writing
<1>3. (Exists(s)' <=> row.is # "none") /\ \A r \in Servers \ {s} : Exists(r)' <=> Exists(r)
  BY <1>2 DEF Exists
<1>4. McpTyped'
  BY <1>2 DEF McpInv, McpTables, McpTyped, OthersAlone, Columned
<1>5. PrefixesDiffer'
  <2> SUFFICES ASSUME "slugs" \notin entangled', NEW a \in Servers \ entangled', NEW b \in Servers \ entangled',
                      a # b, Exists(a)', Exists(b)'
               PROVE  server'[a].slug # server'[b].slug
    BY DEF PrefixesDiffer
  <2>1. CASE a # s /\ b # s
    BY <1>1, <1>2, <1>3, <2>1 DEF McpInv, McpTables, PrefixesDiffer
  <2>2. CASE a = s \/ b = s
    BY <1>2, <1>3, <2>2 DEF RowFits
  <2> QED
    BY <2>1, <2>2
<1>6. SettingsKept'
  <2> SUFFICES ASSUME NEW r \in Servers \ entangled', Exists(r)'
               PROVE  Tools(server'[r]) = asked_for'[r]
    BY DEF SettingsKept
  <2>1. CASE r = s
    BY <1>2, <2>1 DEF RowFits
  <2>2. CASE r # s
    BY <1>1, <1>2, <1>3, <2>2 DEF McpInv, McpTables, SettingsKept, OthersAlone
  <2> QED
    BY <2>1, <2>2
<1>7. KeptListIsOurs'
  <2> SUFFICES ASSUME NEW r \in Servers \ entangled', server'[r].kept # <<>>
               PROVE  server'[r].kept[2] = server'[r].cred
    BY DEF KeptListIsOurs
  <2>1. CASE r = s
    BY <1>2, <2>1 DEF RowFits
  <2>2. CASE r # s
    BY <1>1, <1>2, <2>2 DEF McpInv, McpTables, KeptListIsOurs
  <2> QED
    BY <2>1, <2>2
<1>8. BadgeSettles'
  <2> SUFFICES ASSUME NEW r \in Servers \ entangled'
               PROVE  /\ Exists(r)' /\ ~ Unsettled(r)' => server'[r].error = fetched'[r]
                      /\ ~ Exists(r)' /\ r \notin removed' => fetched'[r] = FALSE
    BY DEF BadgeSettles
  <2>1. CASE r = s
    BY <1>2, <1>3, <2>1, Zenon DEF RowFits
  <2>2. CASE r # s
    <3>1. Unsettled(r) => Unsettled(r)'
      BY <1>1, <2>2, UnsettledKept DEF OthersAlone
    <3>2. /\ Exists(r) /\ ~ Unsettled(r) => server[r].error = fetched[r]
          /\ ~ Exists(r) /\ r \notin removed => fetched[r] = FALSE
      BY <1>1, Zenon DEF McpInv, McpTables, BadgeSettles
    <3>3. fetched'[r] = fetched[r] /\ server'[r] = server[r] /\ (Exists(r)' <=> Exists(r)) /\ removed' = removed
      BY <1>2, <1>3, <2>2 DEF OthersAlone
    <3> QED
      BY <3>1, <3>2, <3>3, Zenon
  <2> QED
    BY <2>1, <2>2
<1>9. RemovedIsGone'
  <2>1. \A r \in removed' \ entangled' : ~ Exists(r)'
    <3> SUFFICES ASSUME NEW r \in removed', r \notin entangled'
                 PROVE  ~ Exists(r)'
      OBVIOUS
    <3>1. r \in removed \ entangled /\ r \in Servers
      BY <1>1 DEF OthersAlone, McpInv, McpTables, McpTyped
    <3>2. r # s
      BY <3>1 DEF RowFits
    <3> QED
      BY <1>3, <3>1, <3>2 DEF McpInv, McpTables, RemovedIsGone
  <2>2. \A r \in linked' \ entangled' : Exists(r)'
    <3> SUFFICES ASSUME NEW r \in linked', r \notin entangled'
                 PROVE  Exists(r)'
      OBVIOUS
    <3>1. r \in linked \ entangled /\ r \in Servers
      BY <1>1 DEF OthersAlone, McpInv, McpTables, McpTyped
    <3>2. CASE r = s
      BY <1>3, <3>2 DEF RowFits
    <3>3. CASE r # s
      BY <1>3, <3>1, <3>3 DEF McpInv, McpTables, RemovedIsGone
    <3> QED
      BY <3>2, <3>3
  <2> QED
    BY <2>1, <2>2 DEF RemovedIsGone
<1>10. McpTables'
  BY <1>4, <1>5, <1>6, <1>7, <1>8, <1>9 DEF McpTables
<1>11. \A r \in Servers \ {s} : Same(r)
  BY <1>2, <1>3, Zenon DEF Same, OthersAlone
<1>12. ~ Exists(s) => Same(s)
  BY DEF Same, OthersAlone
<1>13. \A r \in Servers : r \in McpWrites(call[t]) \/ Same(r)
  BY <1>11, <1>12
<1>14. (s \notin entangled' => Exists(s) /\ row.slug = server[s].slug) => SlugsStay
  BY <1>2, <1>3 DEF SlugsStay
<1>15. "slugs" \in McpWrites(call[t]) \/ SlugsStay
  BY <1>14
<1> QED
  BY <1>10, <1>13, <1>15, McpStep

\* unique_slug gives what no other server has: there are more suffixes than
\* servers.
LEMMA SlugIsFree ==
    ASSUME NEW base, NEW but, NEW o \in Servers, o # but, Exists(o)
    PROVE  server[o].slug # FreeSlug(base, but)
<1> DEFINE taken == {server[s].slug : s \in {x \in Servers \ {but} : Exists(x)}}
<1> DEFINE free == {n \in 1..(Cardinality(Servers) + 1) : <<base, n>> \notin taken}
<1>1. IsFiniteSet(Servers) /\ Cardinality(Servers) \in Nat
  <2>1. IsFiniteSet(Servers)
    BY McpAssumption, Zenon
  <2> QED
    BY <2>1, FS_CardinalityType, Zenon
<1> DEFINE C == Cardinality(Servers)
<1>2. IsFiniteSet(1..(C + 1)) /\ Cardinality(1..(C + 1)) = C + 1
  <2>1. 1 \in Int /\ C + 1 \in Int /\ ~ (1 > C + 1) /\ (C + 1) - 1 + 1 = C + 1
    BY <1>1
  <2>2. IsFiniteSet(1..(C + 1)) /\ Cardinality(1..(C + 1)) = IF 1 > C + 1 THEN 0 ELSE (C + 1) - 1 + 1
    BY <2>1, FS_Interval
  <2> QED
    BY <2>1, <2>2
<1>3. free # {}
  <2> SUFFICES ASSUME free = {} PROVE FALSE
    OBVIOUS
  <2> DEFINE f == [n \in 1..(C + 1) |-> CHOOSE r \in Servers : server[r].slug = <<base, n>>]
  <2>1. \A n \in 1..(C + 1) : \E r \in Servers : server[r].slug = <<base, n>>
    OBVIOUS
  <2>2. \A n \in 1..(C + 1) : f[n] \in Servers /\ server[f[n]].slug = <<base, n>>
    <3> SUFFICES ASSUME NEW n \in 1..(C + 1)
                 PROVE  f[n] \in Servers /\ server[f[n]].slug = <<base, n>>
      OBVIOUS
    <3>1. f[n] = CHOOSE r \in Servers : server[r].slug = <<base, n>>
      OBVIOUS
    <3> HIDE DEF f
    <3> QED
      BY <2>1, <3>1, Zenon
  <2>3. f \in [1..(C + 1) -> Servers]
    <3>1. f = [n \in 1..(C + 1) |-> f[n]]
      OBVIOUS
    <3> HIDE DEF f
    <3> QED
      BY <2>2, <3>1
  <2>4. Cardinality(Servers) < Cardinality(1..(C + 1))
    BY <1>1, <1>2
  <2> HIDE DEF f
  <2>5. PICK m \in 1..(C + 1), n \in 1..(C + 1) : m # n /\ f[m] = f[n]
    BY <1>1, <1>2, <2>3, <2>4, FS_PigeonHole
  <2>6. <<base, m>> = <<base, n>>
    BY <2>2, <2>5
  <2> QED
    BY <2>5, <2>6
<1>4. \E n \in free : \A m \in free : n <= m
  <2>1. free \subseteq Nat
    BY <1>1
  <2> HIDE DEF free
  <2> QED
    BY <1>3, <2>1, Least
<1> DEFINE n0 == CHOOSE n \in free : \A m \in free : n <= m
<1>5. n0 \in free
  <2> HIDE DEF free
  <2> QED
    BY <1>4, Zenon
<1>6. FreeSlug(base, but) = <<base, n0>>
  <2> HIDE DEF n0
  <2>1. n0 = CHOOSE n \in free : \A m \in free : n <= m
    BY Zenon DEF n0
  <2> QED
    BY <2>1, Zenon DEF FreeSlug
<1>7. server[o].slug \in taken
  OBVIOUS
<1> HIDE DEF n0, taken
<1>8. <<base, n0>> \notin taken
  BY <1>5
<1> QED
  BY <1>6, <1>7, <1>8

-----------------------------------------------------------------------------
\* What is written into a row, and what is not.
LEMMA NoServerColumns ==
    Columned(NoServer) /\ NoServer.is = "none" /\ NoServer.kept = <<>> /\ NoServer.error = FALSE
  BY DEF Columned, NoServer

LEMMA SlugWritten ==
    ASSUME NEW r, Columned(r), NEW v
    PROVE  LET w == [r EXCEPT !.slug = v] IN
           /\ Columned(w) /\ w.slug = v /\ w.is = r.is /\ w.url = r.url /\ w.cred = r.cred
           /\ w.kept = r.kept /\ w.error = r.error
  BY DEF Columned

LEMMA FreshWritten ==
    ASSUME NEW r, Columned(r), NEW v
    PROVE  LET w == [r EXCEPT !.fresh = v] IN
           /\ Columned(w) /\ w.slug = r.slug /\ w.is = r.is /\ w.url = r.url /\ w.cred = r.cred
           /\ w.kept = r.kept /\ w.error = r.error
  BY DEF Columned

LEMMA ErrorWritten ==
    ASSUME NEW r, Columned(r), NEW v
    PROVE  LET w == [r EXCEPT !.error = v] IN
           /\ Columned(w) /\ w.slug = r.slug /\ w.is = r.is /\ w.url = r.url /\ w.cred = r.cred
           /\ w.kept = r.kept /\ w.error = v
  BY DEF Columned

Cached(r, k) == [r EXCEPT !.kept = k, !.fresh = TRUE]

LEMMA KeptWritten ==
    ASSUME NEW r, Columned(r), NEW k
    PROVE  LET w == Cached(r, k) IN
           /\ Columned(w) /\ w.slug = r.slug /\ w.is = r.is /\ w.url = r.url /\ w.cred = r.cred
           /\ w.kept = k /\ w.error = r.error
  BY DEF Columned, Cached

Rewritten(r, i, e) == [r EXCEPT !.is = i, !.error = e]

LEMMA StateWritten ==
    ASSUME NEW r, Columned(r), NEW i, NEW e
    PROVE  LET w == Rewritten(r, i, e) IN
           /\ Columned(w) /\ w.slug = r.slug /\ w.is = i /\ w.url = r.url /\ w.cred = r.cred
           /\ w.kept = r.kept /\ w.error = e
  BY DEF Columned, Rewritten

Inserted(g, u, k) == [NoServer EXCEPT !.is = "whole", !.slug = g, !.url = u, !.cred = k]

LEMMA RowInserted ==
    ASSUME NEW g, NEW u, NEW k
    PROVE  LET w == Inserted(g, u, k) IN
           /\ Columned(w) /\ w.slug = g /\ w.is = "whole" /\ w.url = u /\ w.cred = k
           /\ w.kept = <<>> /\ w.error = NoServer.error
  BY DEF Columned, NoServer, Inserted

LEMMA RowChanged ==
    ASSUME NEW r, Columned(r), NEW c
    PROVE  LET w == Changed(r, c) IN
           /\ Columned(w) /\ w.slug = r.slug
           /\ w.url = (IF c.url = "same" THEN r.url ELSE c.url)
           /\ w.cred = (IF c.cred = "same" THEN r.cred ELSE c.cred)
           /\ w.kept = (IF c.cred = "same" THEN r.kept ELSE <<>>)
  BY DEF Columned, Changed

LEMMA GhostColumns ==
    Columned(Ghost)
  BY NoServerColumns DEF Ghost, Columned

\* Its parts.
LEMMA AtParts ==
    ASSUME NEW s, NEW row, NEW todo, NEW rows
    PROVE  LET g == At(s, row, todo, rows) IN
           g # <<>> /\ g.id = s /\ g.row = row /\ g.todo = todo /\ g.rows = rows
  BY DEF At

-----------------------------------------------------------------------------
(* The steps of the calls *)

LEMMA McpCallsKeep ==
    ASSUME McpInv, NEW t \in Tasks, McpCalls(t)
    PROVE  McpInv'
<1>1. UNCHANGED <<server, linked, fetched, asked_for, removed>> /\ entangled \subseteq entangled'
  BY DEF McpCalls, mcTables
<1>2. PICK op, at, arg :
        /\ op \in McpOps \ {"none"} /\ at \in {"list", "get", "links"}
        /\ Begin(t, op, at, arg) /\ (op \in ById => arg.id \in Servers)
        /\ op = "turn" => at = "links"
        /\ op \in {"refresh", "update"} => at = "get"
  <2>1. CASE \E n \in Names, u \in Urls, k \in Credentials \cup {"none"} :
                Begin(t, "create", "list", [name |-> n, url |-> u, cred |-> k])
    BY <2>1 DEF McpOps, ById
  <2>2. CASE \E s \in Servers :
                \E c \in [name : Names, url : {"same"}, cred : {"same"}]
                            \cup [name : {"same"}, url : Urls, cred : {"same"}]
                            \cup [name : {"same"}, url : {"same"}, cred : Credentials \cup {"none"}] :
                    Begin(t, "update", "get", [id |-> s, name |-> c.name, url |-> c.url, cred |-> c.cred])
    BY <2>2 DEF McpOps, ById
  <2>3. CASE \E s \in Servers : \E op \in {"delete", "unlink"} : Begin(t, op, "links", [id |-> s])
    BY <2>3 DEF McpOps, ById
  <2>4. CASE \E s \in Servers : \E op \in {"link", "refresh"} : Begin(t, op, "get", [id |-> s])
    BY <2>4 DEF McpOps, ById
  <2>5. CASE Begin(t, "turn", "links", <<>>)
    BY <2>5 DEF McpOps, ById
  <2> QED
    BY <2>1, <2>2, <2>3, <2>4, <2>5 DEF McpCalls
<1>3. /\ Shaped' /\ Only(t) /\ ~ Running(t)
      /\ call'[t].op = op /\ call'[t].at = at /\ call'[t].arg = arg
  BY <1>2 DEF McpInv, Begin, BeginWith, Shaped, Only, Running
<1>4. McpTables' /\ SlugsStay /\ \A s \in Servers : Same(s)
  <2>1. \A s : ~ UnsettledBy(t, s)
    BY <1>3 DEF UnsettledBy, Ensuring, On, Running
  <2> QED
    BY <1>1, <1>3, <2>1, McpTablesKept
<1>5. \A u \in Tasks \ {t} : McpKnows(u)'
  BY <1>1, <1>3, <1>4, OthersKnow
<1>6. McpKnows(t)'
  BY <1>2, <1>3 DEF McpKnows, KnowsCreate, KnowsUpdate, KnowsFetch, KnowsTurn, On, Arg, Outcomes, ById
<1>7. OneMcpWriter'
  <2> SUFFICES ASSUME NEW u \in Tasks, NEW v \in Tasks, u # v
               PROVE  McpWrites(call'[u]) \cap McpWrites(call'[v]) \subseteq entangled'
    BY DEF OneMcpWriter
  <2>1. ASSUME NEW w \in Tasks \ {t}
        PROVE  call'[w] = call[w] /\ McpWrites(call'[t]) \cap McpWrites(call'[w]) \subseteq entangled'
    <3>1. call'[w] = call[w]
      BY <1>3 DEF Only
    <3>2. CASE Running(w)
      <4>1. entangled' = entangled \cup
                (McpWrites(call'[t]) \cap UNION {McpWrites(call[o]) : o \in Others(t)})
        BY DEF McpCalls
      <4>2. w \in Others(t)
        BY <3>2 DEF Others
      <4>3. McpWrites(call'[t]) \cap McpWrites(call[w]) \subseteq entangled'
        BY <4>1, <4>2
      <4> QED
        BY <3>1, <4>3
    <3>3. CASE ~ Running(w)
      BY <3>1, <3>3, McpWritesNothing DEF Running
    <3> QED
      BY <3>2, <3>3
  <2>2. McpWrites(call[u]) \cap McpWrites(call[v]) \subseteq entangled
    BY DEF McpInv, OneMcpWriter
  <2> QED
    BY <1>1, <2>1, <2>2
<1> QED
  BY <1>3, <1>4, <1>5, <1>6, <1>7 DEF McpInv

\* A task that has ended knows nothing.
LEMMA McpEnds ==
    ASSUME NEW t \in Tasks, call'[t].op = "none"
    PROVE  McpKnows(t)'
  BY DEF McpKnows, On, McpOps, ById

\* A step that is no fetch leaves nothing pending behind.
LEMMA NotUnsettled ==
    ASSUME NEW t \in Tasks, ~ \E at \in Outcomes : Ensuring(t, at), NEW s
    PROVE  ~ UnsettledBy(t, s)
  BY DEF UnsettledBy

LEMMA McpFinish ==
    ASSUME McpInv, NEW t \in Tasks, Running(t), Finish(t), UNCHANGED mcVars,
           ~ \E at \in Outcomes : Ensuring(t, at)
    PROVE  McpInv'
<1>1. UNCHANGED <<server, linked, fetched, asked_for, removed, entangled>>
  BY DEF mcVars
<1>2. Onward(t)
  BY <1>1, GoesOnward DEF McpInv
<1>3. call'[t].op = "none"
  BY Leaves DEF McpInv
<1> QED
  BY <1>1, <1>2, <1>3, McpEnds, NotUnsettled, McpQuiet

LEMMA ListSlugsKeeps ==
    ASSUME McpInv, NEW t \in Tasks, ListSlugs(t)
    PROVE  McpInv'
<1>1. Running(t) /\ call[t].op = "create" /\ UNCHANGED <<server, linked, fetched, asked_for, removed, entangled>>
  BY DEF ListSlugs, On, Running, mcVars, mcTables
<1>2. Learn(t, "insert", FreeSlug(Arg(t).name, "none"))
  BY DEF ListSlugs
<1>3. /\ call'[t].op = "create" /\ call'[t].got = FreeSlug(Arg(t).name, "none")
  BY <1>1, <1>2, Moves, Learns DEF McpInv
<1>4. Onward(t)
  BY <1>1, <1>2, GoesOnward DEF McpInv
<1>5. \A s \in Servers : Exists(s) => server[s].slug # FreeSlug(Arg(t).name, "none")
  BY SlugIsFree, McpAssumption
<1>6. KnowsCreate(t)'
  BY <1>1, <1>3, <1>5 DEF KnowsCreate, Got, Exists
<1>7. McpKnows(t)'
  BY <1>3, <1>6 DEF McpKnows, On, McpOps, ById
<1>8. \A s : ~ UnsettledBy(t, s)
  BY <1>1 DEF UnsettledBy, Ensuring, On
<1> QED
  BY <1>1, <1>4, <1>7, <1>8, McpQuiet

LEMMA InsertServerKeeps ==
    ASSUME McpInv, NEW t \in Tasks, InsertServer(t)
    PROVE  McpInv'
<1>1. Running(t) /\ call[t].op = "create" /\ call[t].at = "insert" /\ Finish(t)
      /\ UNCHANGED <<linked, fetched, removed, entangled>>
  BY DEF InsertServer, On, Running
<1>2. PICK s \in Servers \ removed :
        /\ ~ Exists(s)
        /\ Writing(s, [NoServer EXCEPT !.is = "whole", !.slug = Got(t), !.url = Arg(t).url, !.cred = Arg(t).cred])
        /\ asked_for' = [asked_for EXCEPT ![s] = <<Arg(t).url, Arg(t).cred>>]
  BY DEF InsertServer
<1> SUFFICES ASSUME NEW row, row = Inserted(Got(t), Arg(t).url, Arg(t).cred)
             PROVE  McpInv'
  OBVIOUS
<1>3. /\ Columned(row) /\ row.slug = Got(t) /\ row.is = "whole" /\ row.url = Arg(t).url
      /\ row.cred = Arg(t).cred /\ row.kept = <<>> /\ row.error = NoServer.error
  BY RowInserted
<1>4. Onward(t)
  BY <1>1, GoesOnward DEF McpInv
<1>5. McpKnows(t)'
  BY <1>1, Leaves, McpEnds DEF McpInv
<1>6. "slugs" \in McpWrites(call[t])
  BY <1>1 DEF McpWrites
<1>7. Writing(s, row)
  BY <1>2 DEF Inserted
<1>8. asked_for' = [r \in Servers |-> asked_for'[r]] /\ asked_for'[s] = <<Arg(t).url, Arg(t).cred>>
      /\ \A r \in Servers \ {s} : asked_for'[r] = asked_for[r]
  BY <1>2 DEF McpInv, McpTables, McpTyped
<1>9. \A r : ~ UnsettledBy(t, r)
  BY <1>1 DEF UnsettledBy, Ensuring, On
<1>10. RowFits(s, row)
  <2>1. KnowsCreate(t)
    BY <1>1 DEF McpInv, McpKnows
  <2>2. "slugs" \notin entangled => \A r \in Servers \ entangled : Exists(r) => server[r].slug # Got(t)
    BY <1>1, <2>1 DEF KnowsCreate
  <2> QED
    BY <1>1, <1>2, <1>3, <1>8, <2>2 DEF RowFits, Tools
<1>11. OthersAlone(t, s)
  BY <1>1, <1>8, <1>9 DEF OthersAlone, McpInv, McpTables, McpTyped
<1>12. s \notin entangled => fetched[s] = FALSE
  BY <1>2, Zenon DEF McpInv, McpTables, BadgeSettles
<1>13. s \notin entangled' /\ ~ Unsettled(s)' => row.error = fetched'[s]
  BY <1>1, <1>3, <1>12, NoServerColumns, Zenon
<1> QED
  BY <1>2, <1>3, <1>4, <1>5, <1>6, <1>7, <1>10, <1>11, <1>13, McpRow

LEMMA GetToUpdateKeeps ==
    ASSUME McpInv, NEW t \in Tasks, GetToUpdate(t)
    PROVE  McpInv'
<1>1. Running(t) /\ On(t, "update", "get") /\ UNCHANGED mcVars
  BY DEF GetToUpdate, On, Running
<1>2. CASE Finish(t)
  BY <1>1, <1>2, McpFinish DEF Ensuring, On
<1>3. CASE ~ Finish(t)
  <2> DEFINE s == Arg(t).id
  <2>1. Exists(s) /\ \E at : /\ Learn(t, at, Changed(server[s], Arg(t)))
                             /\ at = IF Arg(t).name = "same" \/ server[s].slug = <<Arg(t).name, 1>>
                                     THEN "write" ELSE "slug"
    BY <1>3, Zenon DEF GetToUpdate
  <2>2. PICK at : /\ Learn(t, at, Changed(server[s], Arg(t)))
                  /\ at = IF Arg(t).name = "same" \/ server[s].slug = <<Arg(t).name, 1>>
                          THEN "write" ELSE "slug"
    BY <2>1
  <2>3. /\ call'[t].op = "update" /\ call'[t].at = at /\ call'[t].arg = Arg(t)
        /\ call'[t].got = Changed(server[s], Arg(t))
    BY <1>1, <2>2, Moves, Learns DEF McpInv, On, Arg
  <2>4. Onward(t)
    BY <1>1, <2>2, GoesOnward DEF McpInv, mcVars
  <2>5. s \in Servers /\ Columned(server[s])
    BY <1>1 DEF McpInv, McpKnows, On, ById, McpTables, McpTyped
  <2> DEFINE g == Changed(server[s], Arg(t))
  <2>6. /\ Columned(g) /\ g.slug = server[s].slug
        /\ g.url = (IF Arg(t).url = "same" THEN server[s].url ELSE Arg(t).url)
        /\ g.cred = (IF Arg(t).cred = "same" THEN server[s].cred ELSE Arg(t).cred)
        /\ g.kept = (IF Arg(t).cred = "same" THEN server[s].kept ELSE <<>>)
    BY <2>5, RowChanged, Zenon
  <2>12. call'[t].got = g
    BY <2>3
  <2> HIDE DEF g
  <2>7. s \notin entangled => (g.kept # <<>> => g.kept[2] = g.cred)
    BY <2>5, <2>6 DEF McpInv, McpTables, KeptListIsOurs
  <2>8. s \notin entangled /\ "slugs" \notin entangled =>
            \A r \in Servers \ entangled : r # s /\ Exists(r) => server[r].slug # g.slug
    BY <2>1, <2>5, <2>6 DEF McpInv, McpTables, PrefixesDiffer
  <2>9. KnowsUpdate(t)'
    BY <1>1, <2>1, <2>2, <2>3, <2>6, <2>7, <2>8, <2>12 DEF KnowsUpdate, Arg, Got, Exists, mcVars, mcTables
  <2>10. McpKnows(t)'
    BY <2>3, <2>5, <2>9 DEF McpKnows, On, McpOps, ById, Arg
  <2>11. \A r : ~ UnsettledBy(t, r)
    BY <1>1 DEF UnsettledBy, Ensuring, On
  <2> QED
    BY <1>1, <2>4, <2>10, <2>11, McpQuiet DEF mcVars, mcTables
<1> QED
  BY <1>2, <1>3

LEMMA NewSlugKeeps ==
    ASSUME McpInv, NEW t \in Tasks, NewSlug(t)
    PROVE  McpInv'
<1>1. Running(t) /\ On(t, "update", "slug") /\ UNCHANGED mcVars
  BY DEF NewSlug, On, Running
<1> DEFINE s == Arg(t).id
           f == FreeSlug(Arg(t).name, s)
           g == [Got(t) EXCEPT !.slug = f]
<1>2. Learn(t, "write", g)
  BY DEF NewSlug
<1>3. s \in Servers /\ KnowsUpdate(t) /\ Columned(Got(t))
  BY <1>1 DEF McpInv, McpKnows, On, ById, KnowsUpdate
<1>4. /\ Columned(g) /\ g.slug = f /\ g.url = Got(t).url /\ g.cred = Got(t).cred /\ g.kept = Got(t).kept
  BY <1>3, SlugWritten, Zenon
<1>5. \A r \in Servers : r # s /\ Exists(r) => server[r].slug # f
  BY SlugIsFree
<1> HIDE DEF g, f
<1>6. /\ call'[t].op = "update" /\ call'[t].at = "write" /\ call'[t].arg = Arg(t) /\ call'[t].got = g
  BY <1>1, <1>2, Moves, Learns DEF McpInv, On, Arg
<1>7. Onward(t)
  BY <1>1, <1>2, GoesOnward DEF McpInv, mcVars
<1>8. Arg(t).name # "same"
  BY <1>1, <1>3 DEF KnowsUpdate, On
<1>9. KnowsUpdate(t)'
  BY <1>1, <1>3, <1>4, <1>5, <1>6, <1>8 DEF KnowsUpdate, Arg, Got, Exists, On, mcVars, mcTables
<1>10. McpKnows(t)'
  BY <1>3, <1>6, <1>9 DEF McpKnows, On, McpOps, ById, Arg
<1>11. \A r : ~ UnsettledBy(t, r)
  BY <1>1 DEF UnsettledBy, Ensuring, On
<1> QED
  BY <1>1, <1>7, <1>10, <1>11, McpQuiet DEF mcVars, mcTables

LEMMA UpdateServerKeeps ==
    ASSUME McpInv, NEW t \in Tasks, UpdateServer(t)
    PROVE  McpInv'
<1> SUFFICES ASSUME NEW s, s = Arg(t).id, NEW row, row = Rewritten(Got(t), Column(s).is, Column(s).error)
             PROVE  McpInv'
  OBVIOUS
<1>1. Running(t) /\ On(t, "update", "write") /\ Finish(t)
      /\ UNCHANGED <<linked, fetched, removed, entangled>>
  BY DEF UpdateServer, On, Running
<1>2. /\ Writing(s, row)
      /\ asked_for' = [asked_for EXCEPT ![s] =
            <<IF Arg(t).url = "same" THEN @[1] ELSE Arg(t).url, IF Arg(t).cred = "same" THEN @[2] ELSE Arg(t).cred>>]
  BY DEF UpdateServer, Rewritten
<1>3. s \in Servers /\ KnowsUpdate(t) /\ Columned(Got(t))
  BY <1>1 DEF McpInv, McpKnows, On, ById, KnowsUpdate
<1>4. /\ Columned(row) /\ row.slug = Got(t).slug /\ row.is = Column(s).is /\ row.url = Got(t).url
      /\ row.cred = Got(t).cred /\ row.kept = Got(t).kept /\ row.error = Column(s).error
  BY <1>3, StateWritten
<1>5. Onward(t)
  BY <1>1, GoesOnward DEF McpInv
<1>6. McpKnows(t)'
  BY <1>1, Leaves, McpEnds DEF McpInv
<1>7. s \in McpWrites(call[t]) /\ (Arg(t).name # "same" => "slugs" \in McpWrites(call[t]))
  BY <1>1 DEF McpWrites, On, Arg
<1>8. /\ asked_for' = [r \in Servers |-> asked_for'[r]]
      /\ \A r \in Servers \ {s} : asked_for'[r] = asked_for[r]
      /\ asked_for'[s] = <<IF Arg(t).url = "same" THEN asked_for[s][1] ELSE Arg(t).url,
                           IF Arg(t).cred = "same" THEN asked_for[s][2] ELSE Arg(t).cred>>
  BY <1>2, <1>3 DEF McpInv, McpTables, McpTyped
<1>9. s \notin entangled => Exists(s) /\ Column(s) = server[s] /\ s \notin removed
  BY <1>1, <1>3 DEF KnowsUpdate, On, Column, McpInv, McpTables, RemovedIsGone
<1>10. RowFits(s, row)
  <2> SUFFICES ASSUME s \notin entangled
               PROVE  /\ row.is # "none" /\ s \notin removed
                      /\ row.kept # <<>> => row.kept[2] = row.cred
                      /\ Tools(row) = asked_for'[s]
                      /\ "slugs" \notin entangled =>
                            \A r \in Servers \ entangled : r # s /\ Exists(r) => server[r].slug # row.slug
    BY <1>1 DEF RowFits
  <2>1. row.is # "none" /\ s \notin removed /\ (row.kept # <<>> => row.kept[2] = row.cred)
    BY <1>1, <1>3, <1>4, <1>9 DEF KnowsUpdate, On, Exists
  <2>2. Tools(server[s]) = asked_for[s]
    BY <1>3, <1>9 DEF McpInv, McpTables, SettingsKept
  <2>3. Tools(row) = asked_for'[s]
    BY <1>1, <1>3, <1>4, <1>8, <2>2 DEF Tools, KnowsUpdate, On
  <2>4. CASE Arg(t).name = "same"
    <3>1. row.slug = server[s].slug /\ Exists(s)
      BY <1>1, <1>3, <1>4, <1>9, <2>4 DEF KnowsUpdate, On
    <3> QED
      BY <1>3, <2>1, <2>3, <3>1 DEF McpInv, McpTables, PrefixesDiffer
  <2>5. CASE Arg(t).name # "same"
    BY <1>1, <1>3, <1>4, <2>1, <2>3, <2>5 DEF KnowsUpdate, On
  <2> QED
    BY <2>4, <2>5
<1>11. OthersAlone(t, s)
  BY <1>1, <1>8 DEF OthersAlone, McpInv, McpTables, McpTyped, UnsettledBy, Ensuring, On
<1>12. s \notin entangled' /\ ~ Unsettled(s)' => row.error = fetched'[s]
  <2> SUFFICES ASSUME s \notin entangled, ~ Unsettled(s)'
               PROVE  row.error = fetched[s]
    BY <1>1, Zenon
  <2>1. \A r : ~ UnsettledBy(t, r)
    BY <1>1 DEF UnsettledBy, Ensuring, On
  <2>2. ~ Unsettled(s)
    BY <1>5, <2>1, UnsettledKept DEF Onward
  <2>3. server[s].error = fetched[s]
    BY <1>3, <1>9, <2>2, Zenon DEF McpInv, McpTables, BadgeSettles
  <2> QED
    BY <1>4, <1>9, <2>3, Zenon
<1>13. "slugs" \in McpWrites(call[t]) \/ (s \notin entangled' => Exists(s) /\ row.slug = server[s].slug)
  BY <1>1, <1>3, <1>4, <1>7 DEF KnowsUpdate, On
<1> QED
  BY <1>2, <1>3, <1>4, <1>5, <1>6, <1>7, <1>10, <1>11, <1>12, <1>13, McpRow

LEMMA FindLinksKeeps ==
    ASSUME McpInv, NEW t \in Tasks, FindLinks(t)
    PROVE  McpInv'
<1>1. Running(t) /\ On(t, "delete", "links") /\ UNCHANGED mcVars
  BY DEF FindLinks, On, Running
<1>2. PICK at : Goto(t, at) /\ at = IF Arg(t).id \in linked THEN "unlink" ELSE "row"
  BY DEF FindLinks
<1>3. /\ call'[t].op = "delete" /\ call'[t].at = at /\ call'[t].arg = Arg(t)
  BY <1>1, <1>2, Moves DEF McpInv, On, Arg
<1>4. Onward(t)
  BY <1>1, <1>2, GoesOnward DEF McpInv, mcVars
<1>5. McpKnows(t)'
  BY <1>1, <1>2, <1>3 DEF McpInv, McpKnows, On, McpOps, ById, Arg, mcVars, mcTables
<1>6. \A r : ~ UnsettledBy(t, r)
  BY <1>1 DEF UnsettledBy, Ensuring, On
<1> QED
  BY <1>1, <1>4, <1>5, <1>6, McpQuiet DEF mcVars, mcTables

\* A step that writes linked only, and links what exists.
LEMMA McpLinks ==
    ASSUME McpInv, NEW t \in Tasks, Onward(t), McpKnows(t)', NEW s \in Servers,
           UNCHANGED <<server, fetched, asked_for, removed>>,
           \/ linked' = linked \ {s}
           \/ linked' = linked \cup {s} /\ s \in McpWrites(call[t]) /\ (s \notin entangled' => Exists(s)),
           \A r : ~ UnsettledBy(t, r)
    PROVE  McpInv'
<1>1. entangled \subseteq entangled' /\ Only(t)
  BY DEF Onward
<1>2. \A r : Exists(r)' <=> Exists(r)
  BY DEF Exists
<1>3. BadgeSettles'
  <2> SUFFICES ASSUME NEW r \in Servers \ entangled'
               PROVE  /\ Exists(r) /\ ~ Unsettled(r)' => server[r].error = fetched[r]
                      /\ ~ Exists(r) /\ r \notin removed => fetched[r] = FALSE
    BY <1>2 DEF BadgeSettles
  <2>1. Unsettled(r) => Unsettled(r)'
    BY <1>1, UnsettledKept
  <2> QED
    BY <1>1, <2>1, Zenon DEF McpInv, McpTables, BadgeSettles
<1>4. RemovedIsGone'
  BY <1>1, <1>2 DEF McpInv, McpTables, RemovedIsGone
<1>5. McpTables'
  BY <1>1, <1>2, <1>3, <1>4 DEF McpInv, McpTables, McpTyped, PrefixesDiffer, SettingsKept, KeptListIsOurs,
                               Columned, Tools
<1>6. SlugsStay /\ \A r \in Servers : r \in McpWrites(call[t]) \/ Same(r)
  BY <1>2 DEF SlugsStay, Same
<1> QED
  BY <1>5, <1>6, McpStep

LEMMA DeleteLinkKeeps ==
    ASSUME McpInv, NEW t \in Tasks, DeleteLink(t)
    PROVE  McpInv'
<1> SUFFICES ASSUME NEW s, s = Arg(t).id
             PROVE  McpInv'
  OBVIOUS
<1>1. Running(t) /\ On(t, "delete", "unlink") /\ UNCHANGED <<server, fetched, asked_for, removed>>
  BY DEF DeleteLink, On, Running
<1>2. s \in Servers
  BY <1>1 DEF McpInv, McpKnows, On, ById
<1>3. \A r : ~ UnsettledBy(t, r)
  BY <1>1 DEF UnsettledBy, Ensuring, On
<1>4. CASE linked' = linked \ {s} /\ Goto(t, "row") /\ UNCHANGED entangled
  <2>1. /\ call'[t].op = "delete" /\ call'[t].at = "row" /\ call'[t].arg = Arg(t)
    BY <1>1, <1>4, Moves DEF McpInv, On, Arg
  <2>2. Onward(t)
    BY <1>1, <1>4, GoesOnward DEF McpInv
  <2>3. McpKnows(t)'
    BY <1>2, <1>4, <2>1 DEF McpKnows, On, McpOps, ById, Arg
  <2> QED
    BY <1>1, <1>2, <1>3, <1>4, <2>2, <2>3, McpLinks
<1>5. CASE /\ call' = [call EXCEPT ![t].at = "row"] /\ UNCHANGED linked
           /\ entangled' = entangled \cup {s}
  <2>1. /\ Shaped' /\ Only(t)
        /\ call'[t].op = "delete" /\ call'[t].at = "row" /\ call'[t].arg = Arg(t)
    BY <1>1, <1>5 DEF McpInv, Shaped, Only, On, Arg
  <2>2. Onward(t)
    BY <1>1, <1>5, <2>1 DEF Onward, On, Arg
  <2>3. McpKnows(t)'
    BY <1>2, <1>5, <2>1 DEF McpKnows, On, McpOps, ById, Arg
  <2> QED
    BY <1>1, <1>3, <1>5, <2>2, <2>3, McpQuiet
<1> QED
  BY <1>4, <1>5 DEF DeleteLink

LEMMA DeleteServerKeeps ==
    ASSUME McpInv, NEW t \in Tasks, DeleteServer(t)
    PROVE  McpInv'
<1> SUFFICES ASSUME NEW s, s = Arg(t).id
             PROVE  McpInv'
  OBVIOUS
<1>1. Running(t) /\ On(t, "delete", "row") /\ Finish(t) /\ Writing(s, NoServer)
      /\ removed' = removed \cup {s} /\ UNCHANGED <<linked, fetched, asked_for, entangled>>
  BY DEF DeleteServer, On, Running
<1>2. s \in Servers /\ (s \notin entangled => s \notin linked)
  BY <1>1 DEF McpInv, McpKnows, On, ById
<1>3. \A r : ~ UnsettledBy(t, r)
  BY <1>1 DEF UnsettledBy, Ensuring, On
<1>4. Onward(t) /\ Only(t)
  BY <1>1, GoesOnward DEF McpInv, Onward
<1>5. McpKnows(t)'
  BY <1>1, Leaves, McpEnds DEF McpInv
<1>6. server'[s] = NoServer /\ (\A r \in Servers \ {s} : server'[r] = server[r])
      /\ server' = [r \in Servers |-> server'[r]]
  BY <1>1, <1>2 DEF McpInv, McpTables, McpTyped, Writing
<1>7. ~ Exists(s)' /\ \A r \in Servers \ {s} : Exists(r)' <=> Exists(r)
  BY <1>6, NoServerColumns DEF Exists
<1>8. McpTyped'
  BY <1>1, <1>2, <1>6, NoServerColumns DEF McpInv, McpTables, McpTyped, Columned
<1>9. PrefixesDiffer'
  BY <1>1, <1>6, <1>7 DEF McpInv, McpTables, PrefixesDiffer
<1>10. SettingsKept'
  BY <1>1, <1>6, <1>7 DEF McpInv, McpTables, SettingsKept
<1>11. KeptListIsOurs'
  <2> SUFFICES ASSUME NEW r \in Servers \ entangled, server'[r].kept # <<>>
               PROVE  server'[r].kept[2] = server'[r].cred
    BY <1>1 DEF KeptListIsOurs
  <2>1. r # s
    BY <1>6, NoServerColumns
  <2> QED
    BY <1>6, <2>1 DEF McpInv, McpTables, KeptListIsOurs
<1>12. BadgeSettles'
  <2> SUFFICES ASSUME NEW r \in Servers \ entangled
               PROVE  /\ Exists(r)' /\ ~ Unsettled(r)' => server'[r].error = fetched[r]
                      /\ ~ Exists(r)' /\ r \notin removed' => fetched[r] = FALSE
    BY <1>1, Zenon DEF BadgeSettles
  <2>1. CASE r = s
    BY <1>1, <1>7, <2>1
  <2>2. CASE r # s
    <3>1. Unsettled(r) => Unsettled(r)'
      BY <1>3, <1>4, UnsettledKept
    <3>2. /\ Exists(r) /\ ~ Unsettled(r) => server[r].error = fetched[r]
          /\ ~ Exists(r) /\ r \notin removed => fetched[r] = FALSE
      BY Zenon DEF McpInv, McpTables, BadgeSettles
    <3>3. server'[r] = server[r] /\ (Exists(r)' <=> Exists(r)) /\ (r \notin removed' => r \notin removed)
      BY <1>1, <1>6, <1>7, <2>2
    <3> QED
      BY <3>1, <3>2, <3>3, Zenon
  <2> QED
    BY <2>1, <2>2
<1>13. RemovedIsGone'
  BY <1>1, <1>2, <1>7, <1>8 DEF McpInv, McpTables, McpTyped, RemovedIsGone
<1>14. McpTables'
  BY <1>8, <1>9, <1>10, <1>11, <1>12, <1>13 DEF McpTables
<1>15. s \in McpWrites(call[t])
  BY <1>1 DEF McpWrites, On, Arg
<1>16. SlugsStay /\ \A r \in Servers : r \in McpWrites(call[t]) \/ Same(r)
  BY <1>1, <1>6, <1>7, <1>15 DEF SlugsStay, Same
<1> QED
  BY <1>4, <1>5, <1>14, <1>16, McpStep

LEMMA GetToLinkKeeps ==
    ASSUME McpInv, NEW t \in Tasks, GetToLink(t)
    PROVE  McpInv'
<1>1. Running(t) /\ On(t, "link", "get") /\ UNCHANGED mcVars
  BY DEF GetToLink, On, Running
<1>2. CASE Finish(t)
  BY <1>1, <1>2, McpFinish DEF Ensuring, On
<1>3. CASE Exists(Arg(t).id) /\ Goto(t, "insert")
  <2>1. /\ call'[t].op = "link" /\ call'[t].at = "insert" /\ call'[t].arg = Arg(t)
    BY <1>1, <1>3, Moves DEF McpInv, On, Arg
  <2>2. Onward(t)
    BY <1>1, <1>3, GoesOnward DEF McpInv, mcVars
  <2>3. McpKnows(t)'
    BY <1>1, <1>3, <2>1 DEF McpInv, McpKnows, On, McpOps, ById, Arg, Exists, mcVars, mcTables
  <2>4. \A r : ~ UnsettledBy(t, r)
    BY <1>1 DEF UnsettledBy, Ensuring, On
  <2> QED
    BY <1>1, <2>2, <2>3, <2>4, McpQuiet DEF mcVars, mcTables
<1> QED
  BY <1>2, <1>3 DEF GetToLink

LEMMA LinkKeeps ==
    ASSUME McpInv, NEW t \in Tasks, Link(t)
    PROVE  McpInv'
<1> SUFFICES ASSUME NEW s, s = Arg(t).id
             PROVE  McpInv'
  OBVIOUS
<1>1. Running(t) /\ Finish(t) /\ UNCHANGED <<server, fetched, asked_for, removed, entangled>>
      /\ (\/ On(t, "link", "insert") /\ linked' = linked \cup {s}
          \/ On(t, "unlink", "links") /\ linked' = linked \ {s})
  BY DEF Link, On, Running
<1>2. s \in Servers /\ (On(t, "link", "insert") /\ s \notin entangled => Exists(s))
  BY <1>1 DEF McpInv, McpKnows, On, ById
<1>3. \A r : ~ UnsettledBy(t, r)
  BY <1>1 DEF UnsettledBy, Ensuring, On
<1>4. Onward(t)
  BY <1>1, GoesOnward DEF McpInv
<1>5. McpKnows(t)'
  BY <1>1, Leaves, McpEnds DEF McpInv
<1>6. On(t, "link", "insert") => s \in McpWrites(call[t])
  BY DEF McpWrites, On, Arg
<1> QED
  BY <1>1, <1>2, <1>3, <1>4, <1>5, <1>6, McpLinks

(* The fetches *)

LEMMA GetToRefreshKeeps ==
    ASSUME McpInv, NEW t \in Tasks, GetToRefresh(t)
    PROVE  McpInv'
<1> SUFFICES ASSUME NEW s, s = Arg(t).id
             PROVE  McpInv'
  OBVIOUS
<1>1. Running(t) /\ On(t, "refresh", "get") /\ UNCHANGED mcVars
  BY DEF GetToRefresh, On, Running
<1>2. CASE Finish(t)
  BY <1>1, <1>2, McpFinish DEF Ensuring, On, Outcomes
<1>3. CASE Exists(s) /\ Learn(t, "fetch", At(s, server[s], {}, {}))
  <2>1. /\ call'[t].op = "refresh" /\ call'[t].at = "fetch" /\ call'[t].arg = Arg(t)
        /\ call'[t].got = At(s, server[s], {}, {})
    BY <1>1, <1>3, Moves, Learns DEF McpInv, On, Arg
  <2>2. Onward(t)
    BY <1>1, <1>3, GoesOnward DEF McpInv, mcVars
  <2>3. s \in Servers
    BY <1>1 DEF McpInv, McpKnows, On, ById
  <2>4. Got(t)' # <<>> /\ Got(t)'.id = s /\ Got(t)'.row = server[s]
    BY <2>1, AtParts DEF Got
  <2>5. KnowsFetch(t)'
    BY <1>1, <1>3, <2>1, <2>3, <2>4 DEF KnowsFetch, Sound, Exists, mcVars, mcTables
  <2>6. McpKnows(t)'
    BY <2>1, <2>3, <2>4, <2>5 DEF McpKnows, On, McpOps, ById, Arg
  <2>7. \A r : ~ UnsettledBy(t, r)
    BY <1>1 DEF UnsettledBy, Ensuring, On, Outcomes
  <2> QED
    BY <1>1, <2>2, <2>6, <2>7, McpQuiet DEF mcVars, mcTables
<1> QED
  BY <1>2, <1>3 DEF GetToRefresh

\* A turn looks at the next link, and has read sound rows.
LEMMA TurnLearns ==
    ASSUME McpInv, NEW t \in Tasks, Running(t), call[t].op = "turn", call[t].at \in {"links", "get"},
           UNCHANGED mcVars, NEW g, Learn(t, "get", g),
           g.todo \subseteq Servers, \A r \in g.rows : r.id \in Servers /\ Sound(r.id, r.row)
    PROVE  McpInv'
<1>1. /\ call'[t].op = "turn" /\ call'[t].at = "get" /\ call'[t].got = g
  BY Moves, Learns DEF McpInv
<1>2. Onward(t)
  BY GoesOnward DEF McpInv, mcVars
<1>3. KnowsTurn(t)'
  BY <1>1 DEF KnowsTurn, Sound, Exists, Got, mcVars, mcTables
<1>4. McpKnows(t)'
  BY <1>1, <1>3 DEF McpKnows, On, McpOps, ById, KnowsFetch, Outcomes
<1>5. \A r : ~ UnsettledBy(t, r)
  BY DEF UnsettledBy, Ensuring, On, Outcomes
<1> QED
  BY <1>2, <1>4, <1>5, McpQuiet DEF mcVars, mcTables

LEMMA ReadLinksKeeps ==
    ASSUME McpInv, NEW t \in Tasks, ReadLinks(t)
    PROVE  McpInv'
<1> SUFFICES ASSUME NEW g, g = At("none", NoServer, linked, {})
             PROVE  McpInv'
  OBVIOUS
<1>1. Running(t) /\ On(t, "turn", "links") /\ UNCHANGED mcVars /\ Learn(t, "get", g)
  BY DEF ReadLinks, On, Running
<1>2. g.rows = {} /\ g.todo \subseteq Servers
  BY AtParts DEF McpInv, McpTables, McpTyped
<1> QED
  BY <1>1, <1>2, TurnLearns DEF On

LEMMA GetLinkedKeeps ==
    ASSUME McpInv, NEW t \in Tasks, GetLinked(t)
    PROVE  McpInv'
<1>1. Running(t) /\ On(t, "turn", "get") /\ UNCHANGED mcVars
  BY DEF GetLinked, On, Running
<1>2. KnowsTurn(t)
  BY <1>1 DEF McpInv, McpKnows, On
<1>3. CASE Goto(t, "next")
  <2>1. /\ call'[t].op = "turn" /\ call'[t].at = "next" /\ Got(t)' = Got(t)
    BY <1>1, <1>3 DEF McpInv, On, Goto, Shaped, Got
  <2>2. Onward(t)
    BY <1>1, <1>3, GoesOnward DEF McpInv, mcVars
  <2>3. McpKnows(t)'
    BY <1>1, <1>2, <2>1 DEF McpKnows, On, McpOps, ById, KnowsFetch, KnowsTurn, Sound, Exists, Outcomes,
                            mcVars, mcTables
  <2>4. \A r : ~ UnsettledBy(t, r)
    BY <1>1 DEF UnsettledBy, Ensuring, On, Outcomes
  <2> QED
    BY <1>1, <2>2, <2>3, <2>4, McpQuiet DEF mcVars, mcTables
<1>4. CASE \E s \in Got(t).todo :
                Learn(t, "get", At("none", NoServer, Got(t).todo \ {s},
                    IF Exists(s) THEN Got(t).rows \cup {[id |-> s, row |-> server[s]]} ELSE Got(t).rows))
  <2>1. PICK s \in Got(t).todo :
                Learn(t, "get", At("none", NoServer, Got(t).todo \ {s},
                    IF Exists(s) THEN Got(t).rows \cup {[id |-> s, row |-> server[s]]} ELSE Got(t).rows))
    BY <1>4
  <2> SUFFICES ASSUME NEW rows,
                      rows = IF Exists(s) THEN Got(t).rows \cup {[id |-> s, row |-> server[s]]} ELSE Got(t).rows
               PROVE  McpInv'
    OBVIOUS
  <2> SUFFICES ASSUME NEW g, g = At("none", NoServer, Got(t).todo \ {s}, rows)
               PROVE  McpInv'
    OBVIOUS
  <2>2. Learn(t, "get", g)
    BY <2>1
  <2>3. g.rows = rows /\ g.todo \subseteq Servers
    BY <1>1, <1>2, AtParts DEF KnowsTurn, On
  <2>4. \A r \in rows : r.id \in Servers /\ Sound(r.id, r.row)
    BY <1>1, <1>2 DEF KnowsTurn, On, Sound
  <2> QED
    BY <1>1, <2>2, <2>3, <2>4, TurnLearns DEF On
<1> QED
  BY <1>3, <1>4 DEF GetLinked

LEMMA NextServerKeeps ==
    ASSUME McpInv, NEW t \in Tasks, NextServer(t)
    PROVE  McpInv'
<1>1. Running(t) /\ On(t, "turn", "next") /\ UNCHANGED mcVars
  BY DEF NextServer, On, Running
<1>2. KnowsTurn(t)
  BY <1>1 DEF McpInv, McpKnows, On
<1>3. CASE Finish(t)
  BY <1>1, <1>3, McpFinish DEF Ensuring, On, Outcomes
<1>4. CASE \E r \in Got(t).rows : Learn(t, "fetch", At(r.id, r.row, {}, Got(t).rows \ {r}))
  <2>1. PICK r \in Got(t).rows : Learn(t, "fetch", At(r.id, r.row, {}, Got(t).rows \ {r}))
    BY <1>4
  <2> SUFFICES ASSUME NEW g, g = At(r.id, r.row, {}, Got(t).rows \ {r})
               PROVE  McpInv'
    OBVIOUS
  <2>2. g # <<>> /\ g.id = r.id /\ g.row = r.row /\ g.rows = Got(t).rows \ {r}
    BY AtParts
  <2>3. /\ call'[t].op = "turn" /\ call'[t].at = "fetch" /\ call'[t].got = g
    BY <1>1, <2>1, Moves, Learns DEF McpInv, On
  <2>4. Onward(t)
    BY <1>1, <2>1, GoesOnward DEF McpInv, mcVars
  <2>5. \A q \in Got(t).rows : q.id \in Servers /\ Sound(q.id, q.row)
    BY <1>1, <1>2 DEF KnowsTurn, On
  <2>6. KnowsTurn(t)' /\ KnowsFetch(t)'
    BY <1>1, <2>2, <2>3, <2>5 DEF KnowsTurn, KnowsFetch, Sound, Exists, Got, mcVars, mcTables
  <2>7. McpKnows(t)'
    BY <2>3, <2>6 DEF McpKnows, On, McpOps, ById
  <2>8. \A s : ~ UnsettledBy(t, s)
    BY <1>1 DEF UnsettledBy, Ensuring, On, Outcomes
  <2> QED
    BY <1>1, <2>4, <2>7, <2>8, McpQuiet DEF mcVars, mcTables
<1>5. \/ Finish(t) \/ \E r \in Got(t).rows : Learn(t, "fetch", At(r.id, r.row, {}, Got(t).rows \ {r}))
  <2> DEFINE stale == {r \in Got(t).rows : ~ r.row.fresh}
  <2>1. IF stale = {} THEN Finish(t)
        ELSE \E r \in stale : Learn(t, "fetch", At(r.id, r.row, {}, Got(t).rows \ {r}))
    BY DEF NextServer
  <2>2. stale \subseteq Got(t).rows
    OBVIOUS
  <2> HIDE DEF stale
  <2> QED
    BY <2>1, <2>2
<1> QED
  BY <1>3, <1>4, <1>5

\* The server a fetch is about is one its task may write.
LEMMA Target ==
    ASSUME McpInv, NEW t \in Tasks, NEW at \in Outcomes \cup {"fetch"}, Ensuring(t, at)
    PROVE  /\ Running(t) /\ call[t].op \in {"turn", "refresh"} /\ call[t].at = at
           /\ McpKnows(t) /\ KnowsFetch(t) /\ Got(t) # <<>> /\ Got(t).id \in Servers
           /\ Got(t).id \in McpWrites(call[t]) /\ Sound(Got(t).id, Got(t).row)
<1>1. Running(t) /\ call[t].op \in {"turn", "refresh"} /\ call[t].at = at /\ McpKnows(t)
  BY DEF Ensuring, On, Running, McpInv
<1>2. KnowsFetch(t)
  BY <1>1 DEF McpKnows
<1>3. Got(t) # <<>> /\ Got(t).id \in Servers /\ Sound(Got(t).id, Got(t).row)
  BY <1>1, <1>2 DEF KnowsFetch
<1>4. Got(t).id \in McpWrites(call[t])
  <2>1. CASE call[t].op = "turn"
    BY <1>3, <2>1 DEF McpWrites
  <2>2. CASE call[t].op = "refresh"
    BY <1>1, <2>2 DEF McpKnows, McpWrites, Outcomes, Arg
  <2> QED
    BY <1>1, <2>1, <2>2
<1> QED
  BY <1>1, <1>2, <1>3, <1>4

\* It goes to the next place with what it has, which is as sound as before.
LEMMA FetchGoesOn ==
    ASSUME McpInv, NEW t \in Tasks, NEW at \in Outcomes \cup {"fetch"}, Ensuring(t, at),
           NEW to \in Outcomes \cup {"next"}, to = "next" => call[t].op = "turn",
           Shaped', entangled \subseteq entangled',
           call'[t].op = call[t].op, call'[t].arg = call[t].arg, call'[t].got = call[t].got, call'[t].at = to,
           \A s \in Servers \ entangled' :
              Exists(s) => Exists(s)' /\ server'[s].cred = server[s].cred,
           Got(t).id \notin entangled' /\ to # "next" => fetched'[Got(t).id] = (to = "record")
    PROVE  McpKnows(t)'
<1>1. /\ Running(t) /\ call[t].op \in {"turn", "refresh"} /\ call[t].at = at
      /\ McpKnows(t) /\ KnowsFetch(t) /\ Got(t) # <<>> /\ Got(t).id \in Servers
      /\ Sound(Got(t).id, Got(t).row)
  BY Target
<1>2. Got(t)' = Got(t) /\ Arg(t)' = Arg(t)
  BY DEF Got, Arg
<1>3. \A r, row : r \in Servers /\ Sound(r, row) => Sound(r, row)'
  BY DEF Sound
<1>4. KnowsFetch(t)'
  <2>1. Sound(Got(t).id, Got(t).row)'
    BY <1>1, <1>2, <1>3 DEF Sound
  <2>2. call'[t].at \in Outcomes \cup {"fetch"} => to # "next"
    BY DEF Outcomes
  <2>3. Got(t).id \notin entangled' /\ call'[t].at \in Outcomes \cup {"fetch"} =>
            fetched'[Got(t).id] = (call'[t].at = "record")
    BY <2>2, Zenon
  <2> QED
    BY <1>1, <1>2, <2>1, <2>3, Zenon DEF KnowsFetch
<1>5. call[t].op = "turn" => KnowsTurn(t)'
  <2> SUFFICES ASSUME call[t].op = "turn"
               PROVE  KnowsTurn(t)'
    OBVIOUS
  <2>1. \A r \in Got(t).rows : r.id \in Servers /\ Sound(r.id, r.row)
    BY <1>1 DEF McpKnows, KnowsTurn, Outcomes
  <2>2. \A r \in Got(t).rows : r.id \in Servers /\ Sound(r.id, r.row)'
    BY <1>3, <2>1
  <2> QED
    BY <1>2, <2>2 DEF KnowsTurn, Outcomes, Sound
<1>6. call[t].op = "refresh" => Got(t).id = Arg(t).id /\ Arg(t).id \in Servers
  BY <1>1 DEF McpKnows, Outcomes, ById
<1> QED
  BY <1>1, <1>2, <1>4, <1>5, <1>6 DEF McpKnows, On, McpOps, ById, Outcomes

LEMMA FetchesKeeps ==
    ASSUME McpInv, NEW t \in Tasks, Fetches(t)
    PROVE  McpInv'
<1> SUFFICES ASSUME NEW s, s = Got(t).id
             PROVE  McpInv'
  OBVIOUS
<1>1. Ensuring(t, "fetch") /\ UNCHANGED <<server, linked, asked_for, removed, entangled>>
  BY DEF Fetches, mcTables
<1>2. PICK well \in BOOLEAN :
        /\ Goto(t, IF well THEN "persist" ELSE "record")
        /\ fetched' = [fetched EXCEPT ![Got(t).id] = ~ well]
  BY DEF Fetches
<1>3. /\ Running(t) /\ call[t].op \in {"turn", "refresh"} /\ call[t].at = "fetch"
      /\ s \in Servers /\ s \in McpWrites(call[t]) /\ Sound(s, Got(t).row)
  BY <1>1, Target
<1> SUFFICES ASSUME NEW to, to = IF well THEN "persist" ELSE "record"
             PROVE  McpInv'
  OBVIOUS
<1>4. Goto(t, to) /\ to \in Outcomes /\ fetched' = [fetched EXCEPT ![s] = ~ well]
  BY <1>2 DEF Outcomes
<1>5. fetched'[s] = (to = "record")
  <2>1. fetched'[s] = ~ well
    BY <1>3, <1>4, Zenon DEF McpInv, McpTables, McpTyped
  <2>2. (~ well) = (to = "record")
    <3>1. well => to # "record"
      OBVIOUS
    <3>2. ~ well => to = "record"
      OBVIOUS
    <3> QED
      BY <3>1, <3>2, Zenon
  <2> QED
    BY <2>1, <2>2, Zenon
<1>6. /\ fetched' = [r \in Servers |-> fetched'[r]]
      /\ \A r \in Servers \ {s} : fetched'[r] = fetched[r]
  BY <1>3, <1>4 DEF McpInv, McpTables, McpTyped
<1>7. /\ Shaped' /\ Only(t) /\ call'[t].op = call[t].op /\ call'[t].at = to
      /\ call'[t].arg = call[t].arg /\ call'[t].got = call[t].got
  BY <1>4 DEF McpInv, Goto, Shaped, Only
<1>8. Onward(t)
  BY <1>1, <1>3, <1>7 DEF Onward
<1>9. McpKnows(t)'
  BY <1>1, <1>3, <1>4, <1>5, <1>7, FetchGoesOn DEF Exists, Outcomes
<1>10. \A r : Exists(r)' <=> Exists(r)
  BY <1>1 DEF Exists
<1>11. UnsettledBy(t, s)' /\ \A r : ~ UnsettledBy(t, r)
  BY <1>3, <1>4, <1>7 DEF UnsettledBy, Ensuring, On, Got, Outcomes
<1>12. BadgeSettles'
  <2> SUFFICES ASSUME NEW r \in Servers \ entangled
               PROVE  /\ Exists(r) /\ ~ Unsettled(r)' => server[r].error = fetched'[r]
                      /\ ~ Exists(r) /\ r \notin removed => fetched'[r] = FALSE
    BY <1>1, <1>10, Zenon DEF BadgeSettles
  <2>1. CASE r = s
    BY <1>3, <1>11, <2>1 DEF Unsettled, Sound
  <2>2. CASE r # s
    <3>1. Unsettled(r) => Unsettled(r)'
      BY <1>7, <1>11, UnsettledKept
    <3>2. /\ Exists(r) /\ ~ Unsettled(r) => server[r].error = fetched[r]
          /\ ~ Exists(r) /\ r \notin removed => fetched[r] = FALSE
      BY Zenon DEF McpInv, McpTables, BadgeSettles
    <3>3. fetched'[r] = fetched[r]
      BY <1>6, <2>2
    <3> QED
      BY <3>1, <3>2, <3>3, Zenon
  <2> QED
    BY <2>1, <2>2
<1>13. McpTables'
  BY <1>1, <1>6, <1>10, <1>12 DEF McpInv, McpTables, McpTyped, PrefixesDiffer, SettingsKept, KeptListIsOurs,
                                  RemovedIsGone, Columned, Tools
<1>14. SlugsStay /\ \A r \in Servers : r \in McpWrites(call[t]) \/ Same(r)
  BY <1>1, <1>3, <1>6, <1>10 DEF SlugsStay, Same
<1> QED
  BY <1>8, <1>9, <1>13, <1>14, McpStep

\* A column written for the server of a fetch, by a step that may end the task.
LEMMA ColumnKeeps ==
    ASSUME McpInv, NEW t \in Tasks, NEW at \in Outcomes, Ensuring(t, at), Onward(t), McpKnows(t)',
           UNCHANGED <<linked, fetched, asked_for, removed, entangled>>,
           NEW s, s = Got(t).id, NEW row, Writing(s, row), Columned(Column(s)) => Columned(row),
           row.is = Column(s).is, row.url = Column(s).url, row.cred = Column(s).cred, row.slug = Column(s).slug,
           \/ row.kept = Column(s).kept
           \/ \E u : row.kept = <<u, Got(t).row.cred>>,
           \/ UnsettledBy(t, s)'
           \/ row.error = (at = "record")
    PROVE  McpInv'
<1>1. /\ s \in Servers /\ s \in McpWrites(call[t]) /\ Sound(s, Got(t).row)
      /\ call[t].op \in {"turn", "refresh"} /\ call[t].at = at /\ KnowsFetch(t)
  BY Target
<1>2. Columned(row)
  BY <1>1, GhostColumns DEF Column, McpInv, McpTables, McpTyped
<1>3. s \notin entangled => Exists(s) /\ Column(s) = server[s] /\ s \notin removed
  BY <1>1 DEF Sound, Column, McpInv, McpTables, RemovedIsGone
<1>4. RowFits(s, row)
  <2> SUFFICES ASSUME s \notin entangled
               PROVE  /\ row.is # "none" /\ s \notin removed
                      /\ row.kept # <<>> => row.kept[2] = row.cred
                      /\ Tools(row) = asked_for[s]
                      /\ "slugs" \notin entangled =>
                            \A r \in Servers \ entangled : r # s /\ Exists(r) => server[r].slug # row.slug
    BY DEF RowFits
  <2>1. /\ Exists(s) /\ s \notin removed /\ row.is = server[s].is /\ row.url = server[s].url
        /\ row.cred = server[s].cred /\ row.slug = server[s].slug
    BY <1>3
  <2>2. row.kept # <<>> => row.kept[2] = row.cred
    <3>1. CASE row.kept = Column(s).kept
      BY <1>1, <1>3, <2>1, <3>1 DEF McpInv, McpTables, KeptListIsOurs
    <3>2. CASE \E u : row.kept = <<u, Got(t).row.cred>>
      BY <1>1, <2>1, <3>2 DEF Sound
    <3> QED
      BY <3>1, <3>2
  <2>3. Tools(row) = asked_for[s]
    BY <1>1, <2>1 DEF McpInv, McpTables, SettingsKept, Tools
  <2>4. "slugs" \notin entangled =>
            \A r \in Servers \ entangled : r # s /\ Exists(r) => server[r].slug # row.slug
    BY <1>1, <2>1 DEF McpInv, McpTables, PrefixesDiffer
  <2> QED
    BY <2>1, <2>2, <2>3, <2>4 DEF Exists
<1>5. OthersAlone(t, s)
  BY <1>1 DEF OthersAlone, McpInv, McpTables, McpTyped, UnsettledBy
<1>6. s \notin entangled' /\ ~ Unsettled(s)' => row.error = fetched'[s]
  <2> SUFFICES ASSUME s \notin entangled, ~ Unsettled(s)'
               PROVE  row.error = fetched[s]
    BY Zenon
  <2>1. row.error = (at = "record")
    BY Zenon DEF Unsettled
  <2>2. at \in Outcomes \cup {"fetch"} /\ at # "fetch"
    BY DEF Outcomes
  <2>3. fetched[s] = (at = "record")
    BY <1>1, <2>2, Zenon DEF KnowsFetch
  <2> QED
    BY <2>1, <2>3, Zenon
<1>7. s \notin entangled' => Exists(s) /\ row.slug = server[s].slug
  BY <1>3
<1> QED
  BY <1>1, <1>2, <1>4, <1>5, <1>6, <1>7, McpRow

LEMMA PersistKeeps ==
    ASSUME McpInv, NEW t \in Tasks, Persist(t)
    PROVE  McpInv'
<1> SUFFICES ASSUME NEW s, s = Got(t).id,
                    NEW row, row = Cached(Column(s), Tools(Got(t).row))
             PROVE  McpInv'
  OBVIOUS
<1>1. /\ Ensuring(t, "persist") /\ Goto(t, "clear") /\ Writing(s, row)
      /\ UNCHANGED <<linked, fetched, asked_for, removed, entangled>>
  BY DEF Persist, Cached
<1>2. "persist" \in Outcomes /\ "clear" \in Outcomes
  BY DEF Outcomes
<1>3. /\ Running(t) /\ call[t].op \in {"turn", "refresh"} /\ call[t].at = "persist" /\ KnowsFetch(t)
      /\ s \in Servers /\ Sound(s, Got(t).row)
  BY <1>1, <1>2, Target
<1>4. Onward(t)
  BY <1>1, <1>3, GoesOnward DEF McpInv
<1>5. /\ Shaped' /\ Only(t) /\ call'[t].op = call[t].op /\ call'[t].at = "clear"
      /\ call'[t].arg = call[t].arg /\ call'[t].got = call[t].got
  BY <1>1 DEF McpInv, Goto, Shaped, Only
<1>6. Columned(Column(s))
  BY <1>3, GhostColumns DEF Column, McpInv, McpTables, McpTyped
<1>7. /\ Columned(row) /\ row.slug = Column(s).slug /\ row.is = Column(s).is /\ row.url = Column(s).url
      /\ row.cred = Column(s).cred /\ row.kept = Tools(Got(t).row)
  BY <1>6, KeptWritten
<1>8. server'[s] = row /\ \A r \in Servers \ {s} : server'[r] = server[r]
  BY <1>1, <1>3 DEF McpInv, McpTables, McpTyped, Writing
<1>9. s \notin entangled => Exists(s) /\ Column(s) = server[s]
  BY <1>3 DEF Sound, Column
<1>10. \A r \in Servers \ entangled' : Exists(r) => Exists(r)' /\ server'[r].cred = server[r].cred
  <2> SUFFICES ASSUME NEW r \in Servers \ entangled, Exists(r)
               PROVE  Exists(r)' /\ server'[r].cred = server[r].cred
    BY <1>1
  <2>1. CASE r = s
    BY <1>7, <1>8, <1>9, <2>1 DEF Exists
  <2>2. CASE r # s
    BY <1>7, <1>8, <1>9, <2>2 DEF Exists
  <2> QED
    BY <2>1, <2>2
<1>11. s \notin entangled => fetched[s] = ("clear" = "record")
  <2>1. s \notin entangled => fetched[s] = ("persist" = "record")
    BY <1>2, <1>3, Zenon DEF KnowsFetch
  <2>2. "clear" # "record" /\ "persist" # "record" /\ "persist" # "fetch"
    OBVIOUS
  <2> QED
    BY <2>1, <2>2, Zenon
<1>12. McpKnows(t)'
  <2>1. s \notin entangled' => fetched'[s] = ("clear" = "record")
    BY <1>1, <1>11, Zenon
  <2> QED
    BY <1>1, <1>2, <1>5, <1>10, <2>1, FetchGoesOn
<1>13. UnsettledBy(t, s)'
  BY <1>2, <1>3, <1>5 DEF UnsettledBy, Ensuring, On, Got
<1> QED
  BY <1>1, <1>2, <1>4, <1>7, <1>12, <1>13, ColumnKeeps DEF Tools

LEMMA WriteErrorKeeps ==
    ASSUME McpInv, NEW t \in Tasks, WriteError(t)
    PROVE  McpInv'
<1>1. PICK at \in {"clear", "record"} :
        Ensuring(t, at) /\ Writing(Got(t).id, [Column(Got(t).id) EXCEPT !.error = at = "record"])
  BY DEF WriteError
<1> SUFFICES ASSUME NEW s, s = Got(t).id, NEW row, row = [Column(s) EXCEPT !.error = at = "record"]
             PROVE  McpInv'
  OBVIOUS
<1>2. Ensuring(t, at) /\ Writing(s, row) /\ Ensured(t) /\ at \in Outcomes
      /\ UNCHANGED <<linked, fetched, asked_for, removed, entangled>>
  BY <1>1 DEF WriteError, Outcomes
<1>3. /\ Running(t) /\ call[t].op \in {"turn", "refresh"} /\ call[t].at = at
      /\ s \in Servers /\ Sound(s, Got(t).row)
  BY <1>2, Target
<1>4. Columned(Column(s))
  BY <1>3, GhostColumns DEF Column, McpInv, McpTables, McpTyped
<1>5. /\ Columned(row) /\ row.slug = Column(s).slug /\ row.is = Column(s).is /\ row.url = Column(s).url
      /\ row.cred = Column(s).cred /\ row.kept = Column(s).kept /\ row.error = (at = "record")
  BY <1>4, ErrorWritten, Zenon
<1>6. server'[s] = row /\ \A r \in Servers \ {s} : server'[r] = server[r]
  BY <1>2, <1>3 DEF McpInv, McpTables, McpTyped, Writing
<1>7. s \notin entangled => Exists(s) /\ Column(s) = server[s]
  BY <1>3 DEF Sound, Column
<1>8. \A r \in Servers \ entangled' : Exists(r) => Exists(r)' /\ server'[r].cred = server[r].cred
  <2> SUFFICES ASSUME NEW r \in Servers \ entangled, Exists(r)
               PROVE  Exists(r)' /\ server'[r].cred = server[r].cred
    BY <1>2
  <2>1. CASE r = s
    BY <1>5, <1>6, <1>7, <2>1 DEF Exists
  <2>2. CASE r # s
    BY <1>5, <1>6, <1>7, <2>2 DEF Exists
  <2> QED
    BY <2>1, <2>2
<1>9. CASE call[t].op = "turn"
  <2>1. Goto(t, "next")
    BY <1>2, <1>9 DEF Ensured
  <2>2. /\ Shaped' /\ call'[t].op = call[t].op /\ call'[t].at = "next"
        /\ call'[t].arg = call[t].arg /\ call'[t].got = call[t].got
    BY <2>1 DEF McpInv, Goto, Shaped
  <2>3. Onward(t)
    BY <1>2, <1>3, <2>1, GoesOnward DEF McpInv
  <2>4. McpKnows(t)'
    BY <1>2, <1>8, <1>9, <2>2, FetchGoesOn
  <2> QED
    BY <1>2, <1>5, <2>3, <2>4, ColumnKeeps, Zenon
<1>10. CASE call[t].op = "refresh"
  <2>1. Finish(t)
    BY <1>2, <1>10 DEF Ensured
  <2>2. Onward(t)
    BY <1>2, <1>3, <2>1, GoesOnward DEF McpInv
  <2>3. McpKnows(t)'
    BY <2>1, Leaves, McpEnds DEF McpInv
  <2> QED
    BY <1>2, <1>5, <2>2, <2>3, ColumnKeeps, Zenon
<1> QED
  BY <1>3, <1>9, <1>10

LEMMA WriteFailsKeeps ==
    ASSUME McpInv, NEW t \in Tasks, WriteFails(t)
    PROVE  McpInv'
<1> SUFFICES ASSUME NEW s, s = Got(t).id
             PROVE  McpInv'
  OBVIOUS
<1>1. PICK at \in Outcomes : Ensuring(t, at)
  BY DEF WriteFails, Outcomes
<1>2. entangled' = entangled \cup {s} /\ UNCHANGED <<server, linked, fetched, asked_for, removed>>
  BY DEF WriteFails, mcTables
<1>3. /\ Running(t) /\ call[t].op \in {"turn", "refresh"} /\ call[t].at = at
  BY <1>1, Target
<1>4. \A r \in Servers \ entangled' : ~ UnsettledBy(t, r)
  BY <1>2 DEF UnsettledBy
<1>5. ASSUME NEW to \in {"clear", "next"}, to = "next" => call[t].op = "turn",
             call' = [call EXCEPT ![t].at = to]
      PROVE  McpInv'
  <2>1. /\ Shaped' /\ Only(t) /\ call'[t].op = call[t].op /\ call'[t].at = to
        /\ call'[t].arg = call[t].arg /\ call'[t].got = call[t].got
    BY <1>5 DEF McpInv, Shaped, Only
  <2>2. Onward(t)
    BY <1>2, <1>3, <2>1 DEF Onward
  <2>3. to \in Outcomes \cup {"next"}
    BY DEF Outcomes
  <2>4. McpKnows(t)'
    BY <1>1, <1>2, <1>5, <2>1, <2>3, FetchGoesOn DEF Exists
  <2> QED
    BY <1>2, <1>4, <2>2, <2>4, McpQuiet
<1>6. CASE call[t].at = "persist" /\ call' = [call EXCEPT ![t].at = "clear"]
  BY <1>5, <1>6
<1>7. CASE call[t].op = "turn" /\ call' = [call EXCEPT ![t].at = "next"]
  BY <1>5, <1>7
<1>8. CASE Drop(t)
  <2>1. Onward(t)
    BY <1>2, <1>3, <1>8, GoesOnward DEF McpInv
  <2>2. McpKnows(t)'
    BY <1>8, Leaves, McpEnds DEF McpInv
  <2> QED
    BY <1>2, <1>4, <2>1, <2>2, McpQuiet
<1> QED
  BY <1>3, <1>6, <1>7, <1>8 DEF WriteFails, Drop

LEMMA DropMcpKeeps ==
    ASSUME McpInv, NEW t \in Tasks, DropMcp(t)
    PROVE  McpInv'
<1>1. Drop(t) /\ Running(t) /\ entangled \subseteq entangled'
      /\ UNCHANGED <<server, linked, fetched, asked_for, removed>>
  BY DEF DropMcp, Drop, mcTables
<1>2. Onward(t)
  BY <1>1, GoesOnward DEF McpInv
<1>3. McpKnows(t)'
  BY <1>1, Leaves, McpEnds DEF McpInv
<1>4. \A r \in Servers \ entangled' : ~ UnsettledBy(t, r)
  BY DEF DropMcp, UnsettledBy, Outcomes
<1> QED
  BY <1>1, <1>2, <1>3, <1>4, McpQuiet

\* The clock touches one column, of which nothing is said.
LEMMA ExpiresKeeps ==
    ASSUME McpInv, Expires
    PROVE  McpInv'
<1>1. PICK s \in Servers : Writing(s, [server[s] EXCEPT !.fresh = FALSE])
  BY DEF Expires
<1>2. UNCHANGED <<linked, fetched, asked_for, removed, entangled, call>>
  BY DEF Expires, tasking
<1> SUFFICES ASSUME NEW row, row = [server[s] EXCEPT !.fresh = FALSE]
             PROVE  McpInv'
  OBVIOUS
<1>3. Columned(server[s])
  BY DEF McpInv, McpTables, McpTyped
<1>4. /\ Columned(row) /\ row.slug = server[s].slug /\ row.is = server[s].is /\ row.url = server[s].url
      /\ row.cred = server[s].cred /\ row.kept = server[s].kept /\ row.error = server[s].error
  BY <1>3, FreshWritten
<1>5. Writing(s, row)
  BY <1>1
<1>6. /\ server' = [r \in Servers |-> server'[r]] /\ server'[s] = row
      /\ \A r \in Servers \ {s} : server'[r] = server[r]
  BY <1>5 DEF McpInv, McpTables, McpTyped, Writing
<1>7. \A r \in Servers :
        /\ server'[r].slug = server[r].slug /\ server'[r].is = server[r].is /\ server'[r].url = server[r].url
        /\ server'[r].cred = server[r].cred /\ server'[r].kept = server[r].kept
        /\ server'[r].error = server[r].error /\ Columned(server'[r])
  <2> SUFFICES ASSUME NEW r \in Servers
               PROVE  /\ server'[r].slug = server[r].slug /\ server'[r].is = server[r].is
                      /\ server'[r].url = server[r].url /\ server'[r].cred = server[r].cred
                      /\ server'[r].kept = server[r].kept /\ server'[r].error = server[r].error
                      /\ Columned(server'[r])
    OBVIOUS
  <2>1. CASE r = s
    BY <1>4, <1>6, <2>1, Zenon
  <2>2. CASE r # s
    BY <1>6, <2>2, Zenon DEF McpInv, McpTables, McpTyped
  <2> QED
    BY <2>1, <2>2
<1>8. (\A r \in Servers : Exists(r)' <=> Exists(r)) /\ \A r : Unsettled(r)' <=> Unsettled(r)
  BY <1>2, <1>7 DEF Exists, Unsettled, UnsettledBy, Ensuring, On, Got
<1>9. BadgeSettles'
  <2> SUFFICES ASSUME NEW r \in Servers \ entangled
               PROVE  /\ Exists(r)' /\ ~ Unsettled(r)' => server'[r].error = fetched[r]
                      /\ ~ Exists(r)' /\ r \notin removed => fetched[r] = FALSE
    BY <1>2, Zenon DEF BadgeSettles
  <2>1. /\ Exists(r) /\ ~ Unsettled(r) => server[r].error = fetched[r]
        /\ ~ Exists(r) /\ r \notin removed => fetched[r] = FALSE
    BY Zenon DEF McpInv, McpTables, BadgeSettles
  <2>2. server'[r].error = server[r].error
    BY <1>7
  <2> QED
    BY <1>8, <2>1, <2>2, Zenon
<1>10. McpTables'
  <2>1. McpTyped' /\ RemovedIsGone'
    BY <1>2, <1>6, <1>7, <1>8 DEF McpInv, McpTables, McpTyped, RemovedIsGone
  <2>2. PrefixesDiffer' /\ SettingsKept' /\ KeptListIsOurs'
    BY <1>2, <1>7, <1>8 DEF McpInv, McpTables, PrefixesDiffer, SettingsKept, KeptListIsOurs, Tools
  <2> QED
    BY <1>9, <2>1, <2>2 DEF McpTables
<1>11. \A u \in Tasks : McpKnows(u)'
  BY <1>2, <1>7, <1>8, KnowledgeStays DEF SlugsStay, Same
<1> QED
  BY <1>2, <1>10, <1>11 DEF McpInv, Shaped, OneMcpWriter

LEMMA McpSteps ==
    ASSUME McpInv, [McpNext]_<<mcVars, tasking>>
    PROVE  McpInv'
<1>1. CASE Expires
  BY <1>1, ExpiresKeeps
<1>2. ASSUME NEW t \in Tasks,
             \/ McpCalls(t) \/ ListSlugs(t) \/ InsertServer(t) \/ GetToUpdate(t) \/ NewSlug(t)
             \/ UpdateServer(t) \/ FindLinks(t) \/ DeleteLink(t) \/ DeleteServer(t)
             \/ GetToLink(t) \/ Link(t)
      PROVE  McpInv'
  BY <1>2, McpCallsKeep, ListSlugsKeeps, InsertServerKeeps, GetToUpdateKeeps, NewSlugKeeps, UpdateServerKeeps,
     FindLinksKeeps, DeleteLinkKeeps, DeleteServerKeeps, GetToLinkKeeps, LinkKeeps
<1>3. ASSUME NEW t \in Tasks,
             \/ GetToRefresh(t) \/ ReadLinks(t) \/ GetLinked(t) \/ NextServer(t) \/ Fetches(t)
             \/ Persist(t) \/ WriteError(t) \/ WriteFails(t) \/ DropMcp(t)
      PROVE  McpInv'
  BY <1>3, GetToRefreshKeeps, ReadLinksKeeps, GetLinkedKeeps, NextServerKeeps, FetchesKeeps, PersistKeeps,
     WriteErrorKeeps, WriteFailsKeeps, DropMcpKeeps
<1>4. CASE UNCHANGED <<mcVars, tasking>>
  <2>1. UNCHANGED <<server, linked, fetched, asked_for, removed, entangled, call>>
    BY <1>4 DEF mcVars, mcTables, tasking
  <2>2. \A u \in Tasks : McpKnows(u)'
    BY <2>1, KnowledgeStays DEF SlugsStay, Same, Exists
  <2>3. McpTyped' /\ PrefixesDiffer' /\ SettingsKept' /\ KeptListIsOurs' /\ RemovedIsGone'
    BY <2>1 DEF McpInv, McpTables, McpTyped, PrefixesDiffer, SettingsKept, KeptListIsOurs, RemovedIsGone,
                Exists, Tools, Columned
  <2>4. \A s : (Exists(s)' <=> Exists(s)) /\ (Unsettled(s)' <=> Unsettled(s))
    BY <2>1 DEF Exists, Unsettled, UnsettledBy, Ensuring, On, Got
  <2>5. BadgeSettles'
    BY <2>1, <2>4, Zenon DEF McpInv, McpTables, BadgeSettles
  <2> QED
    BY <2>1, <2>2, <2>3, <2>5 DEF McpInv, McpTables, Shaped, OneMcpWriter
<1> QED
  BY <1>1, <1>2, <1>3, <1>4 DEF McpNext

LEMMA McpStarts ==
    ASSUME McpInit, TasksInit(Budgets)
    PROVE  McpInv
<1>1. Shaped /\ \A t \in Tasks : call[t].op = "none"
  BY DEF TasksInit, Shaped, NoCall
<1>2. OneMcpWriter /\ (\A t \in Tasks : McpKnows(t)) /\ ~ \E s : Unsettled(s)
  BY <1>1, McpWritesNothing DEF OneMcpWriter, McpKnows, On, McpOps, ById, Unsettled, UnsettledBy, Ensuring
<1> DEFINE u == CHOOSE x \in Urls : TRUE
           k == CHOOSE x \in Credentials : TRUE
           new == Inserted(<<CHOOSE n \in Names : TRUE, 1>>, u, k)
           first == CHOOSE x \in Servers : TRUE
<1>3. /\ \E r \in {NoServer, [new EXCEPT !.error = TRUE], Cached(new, <<u, k>>)} :
            server = [x \in Servers |-> IF x = first THEN r ELSE NoServer]
      /\ linked \in IF Exists(first) THEN {{}, {first}} ELSE {{}}
      /\ fetched = [x \in Servers |-> server[x].error]
      /\ asked_for = [x \in Servers |-> Tools(server[x])]
      /\ removed = {} /\ entangled = {}
  BY DEF McpInit, Inserted, Cached
<1>4. first \in Servers
  BY McpAssumption
<1>5. PICK r \in {NoServer, [new EXCEPT !.error = TRUE], Cached(new, <<u, k>>)} :
            server = [x \in Servers |-> IF x = first THEN r ELSE NoServer]
  BY <1>3
<1>6. Columned(r) /\ (r.kept # <<>> => r.kept[2] = r.cred)
  <2>1. /\ Columned(new) /\ new.cred = k /\ new.kept = <<>>
    BY RowInserted
  <2> HIDE DEF new, u, k
  <2>2. CASE r = NoServer
    BY <2>2, NoServerColumns
  <2>3. CASE r = [new EXCEPT !.error = TRUE]
    BY <2>1, <2>3, ErrorWritten
  <2>4. CASE r = Cached(new, <<u, k>>)
    BY <2>1, <2>4, KeptWritten
  <2> QED
    BY <1>5, <2>2, <2>3, <2>4
<1> HIDE DEF new, u, k, first
<1>7. /\ server = [x \in Servers |-> server[x]] /\ server[first] = r
      /\ \A x \in Servers \ {first} : server[x] = NoServer
  BY <1>4, <1>5
<1>8. \A x \in Servers \ {first} : ~ Exists(x)
  BY <1>7, NoServerColumns DEF Exists
<1>9. McpTyped /\ RemovedIsGone /\ PrefixesDiffer /\ SettingsKept /\ KeptListIsOurs
  <2>1. /\ fetched = [x \in Servers |-> fetched[x]] /\ linked \subseteq {first}
        /\ asked_for = [x \in Servers |-> asked_for[x]] /\ \A x \in Servers : asked_for[x] = Tools(server[x])
    BY <1>3
  <2>2. \A x \in Servers : Columned(server[x]) /\ (server[x].kept # <<>> => server[x].kept[2] = server[x].cred)
    BY <1>6, <1>7, NoServerColumns
  <2>3. first \in linked => Exists(first)
    BY <1>3
  <2> QED
    BY <1>3, <1>4, <1>7, <1>8, <2>1, <2>2, <2>3
       DEF McpTyped, RemovedIsGone, PrefixesDiffer, SettingsKept, KeptListIsOurs
<1>10. BadgeSettles
  <2> SUFFICES ASSUME NEW x \in Servers
               PROVE  /\ server[x].error = fetched[x]
                      /\ ~ Exists(x) => fetched[x] = FALSE
    BY Zenon DEF BadgeSettles
  <2>1. fetched[x] = server[x].error
    BY <1>3, Zenon
  <2>2. ~ Exists(x) => server[x] = NoServer
    <3>1. \A y \in {NoServer, [new EXCEPT !.error = TRUE], Cached(new, <<u, k>>)} :
              y.is = "none" => y = NoServer
      <4>1. Columned(new) /\ new.is = "whole"
        BY RowInserted DEF new
      <4>2. [new EXCEPT !.error = TRUE].is = "whole"
        BY <4>1, ErrorWritten
      <4>3. Cached(new, <<u, k>>).is = "whole"
        BY <4>1, KeptWritten
      <4> QED
        BY <4>2, <4>3
    <3> QED
      BY <1>5, <1>7, <3>1 DEF Exists
  <2>3. ~ Exists(x) => server[x].error = FALSE
    BY <2>2, NoServerColumns, Zenon
  <2> QED
    BY <2>1, <2>3, Zenon
<1> QED
  BY <1>1, <1>2, <1>9, <1>10 DEF McpInv, McpTables

\* Whatever is pending is asked for.
LEMMA McpInvGives ==
    ASSUME McpInv
    PROVE  McpHolds
<1>1. BadgeIsTrue
  <2> SUFFICES ASSUME NEW s \in Servers \ entangled, Exists(s), ~ Asked(s)
               PROVE  server[s].error = fetched[s]
    BY DEF BadgeIsTrue
  <2>1. ~ Unsettled(s)
    <3> SUFFICES ASSUME NEW t \in Tasks, NEW at \in Outcomes, Ensuring(t, at), Got(t).id = s
                 PROVE  FALSE
      BY DEF Unsettled, UnsettledBy
    <3>1. call[t].at = at /\ Got(t) # <<>>
      BY Target
    <3> QED
      BY <3>1 DEF Asked
  <2> QED
    BY <2>1, Zenon DEF McpInv, McpTables, BadgeSettles
<1> QED
  BY <1>1 DEF McpInv, McpTables, McpHolds

\* Servers of a workspace keep what their editors made them, their tools are
\* told apart, and the kept lists and the badges are true, however edits, turns,
\* refreshes and deletions interleave and whichever of them fail.
THEOREM McpHoldsAlways == McpSpec => []McpHolds
<1>1. McpInit /\ TasksInit(Budgets) => McpInv
  BY McpStarts
<1>2. McpInv /\ [McpNext]_<<mcVars, tasking>> => McpInv'
  BY McpSteps
<1>3. McpInv => McpHolds
  BY McpInvGives
<1> QED
  BY <1>1, <1>2, <1>3, PTL DEF McpSpec

-----------------------------------------------------------------------------
(* Notifications.                                                           *)

\* The component on its own, however many calls there are.
NtSpec == NotificationsInit /\ TasksInit(Budgets) /\ [][NotificationsNext]_<<tasking, ntVars>>

\* Who is told.  A notification that is due is done once its row was written or
\* spared, and mailed to a guest.
Due(topic, u, part) == [topic |-> topic, user |-> u, part |-> part]
Done(d) == d \in told \cup spared /\ (d.part = "guests" => d \in mailed)

\* At work on one recipient.
Doing == {"prefs", "insert", "publish", "online", "mail"}

\* Whom to tell of which is a user and a topic there was.
Listed ==
    /\ topics \in Nat
    /\ \A d \in meant : d = Due(d.topic, d.user, d.part) /\ d.topic \in 1..topics /\ d.user \in Users

\* What a sender holds is its own topic's: whom it has listed is due.
SenderKnows(t) == Sending(t) =>
    /\ Arg(t).topic \in 1..topics
    /\ call[t].at \in {"owner", "members", "deliver", "guests"} \cup Doing
    /\ call[t].at \in {"owner", "members"} =>
        call[t].op # "mention" /\ \A d \in meant : d.topic # Arg(t).topic
    /\ call[t].at \notin {"owner", "members"} =>
        /\ Got(t) = [todo |-> Got(t).todo, to |-> Got(t).to, part |-> Got(t).part]
        /\ Got(t).todo \subseteq Users
        /\ \A u \in Got(t).todo : Due(Arg(t).topic, u, Got(t).part) \in meant
    /\ call[t].at \in Doing => Got(t).to \in Users /\ This(t) \in meant
    /\ call[t].at = "insert" => Got(t).to \in wants \/ This(t) \in spared
    /\ call[t].at = "online" => Got(t).part # "guests"
    /\ call[t].at = "guests" => Got(t).todo = {}

\* Whoever is due is in its queue, at work on, or done, unless it was cut short.
SenderTells(t) == Sending(t) /\ call[t].at \notin {"owner", "members"} /\ Arg(t).topic \notin cut =>
    \A d \in meant : d.topic = Arg(t).topic =>
        \/ d.part = Got(t).part /\ d.user \in Got(t).todo
        \/ call[t].at \in Doing /\ d = This(t) /\ (call[t].at \notin {"prefs", "insert"} => d \in told \cup spared)
        \/ Done(d)

\* A topic has one sender, and when it is through all are done.
OneSender == \A t, v \in Tasks : Sending(t) /\ Sending(v) /\ Arg(t).topic = Arg(v).topic => t = v
Ended == \A d \in meant : ~ Through(d.topic) \/ d.topic \in cut \/ Done(d)

SenderInv ==
    /\ Listed /\ NobodyElseIsTold /\ OneSender /\ Ended
    /\ \A t \in Tasks : SenderKnows(t) /\ SenderTells(t)

\* The tables of the bell.
Marks == {"none", "unread", "read", "ghost"}

Streams ==
    /\ inbox = [u \in Users |-> inbox[u]] /\ \A u \in Users : inbox[u] \in Seq(Marks)
    /\ pending = [u \in Users |-> pending[u]] /\ \A u \in Users : pending[u] \in Nat \cup {0 - 1}
    /\ shown = [u \in Users |-> shown[u]]

\* A list s of the inbox of u is faithful: what it holds is so, and it holds
\* everything once nothing is announced or about to be.
SoFar(u, s) ==
    /\ s = [n \in DOMAIN s |-> s[n]] /\ DOMAIN s \subseteq Rows(u)
    /\ u \notin cropped => \A n \in DOMAIN s : s[n] = inbox[u][n]

Publishing(u) == \E t \in Tasks : On(t, call[t].op, "publish") /\ Got(t).to = u

Complete(u, s) == u \notin cropped /\ Online(u) /\ pending[u] = 0 /\ ~ Publishing(u) => Rows(u) \subseteq DOMAIN s

Faithful(u, s) == SoFar(u, s) /\ Complete(u, s)

\* What the bell will show when its request has come back.
Coming(t) ==
    LET s == shown[Arg(t).user] IN
    CASE call[t].op = "list"          -> Got(t)
      [] call[t].op = "mark_read"     -> [n \in DOMAIN s |-> IF n = Arg(t).row THEN "read" ELSE s[n]]
      [] call[t].op = "mark_all_read" -> [n \in DOMAIN s |-> "read"]
      [] call[t].op = "delete"        -> [n \in DOMAIN s \ {Arg(t).row} |-> s[n]]
      [] call[t].op = "delete_all"    -> Nothing

\* Where a request can be.
BellPlaces(op) ==
    CASE op = "list"          -> {"list", "answer"}
      [] op = "mark_all_read" -> {"list", "mark", "answer"}
      [] OTHER                -> {"write", "answer"}

BellAsks(t) ==
    /\ Asking(t) => Arg(t).user \in Users /\ call[t].at \in BellPlaces(call[t].op)
    /\ call[t].at = "publish" => Sending(t)

\* What the bell will show is faithful, as what it shows is before the request
\* has changed the inbox; while the rows are marked, those not yet marked are
\* known.
BellKnows(t) == Asking(t) /\ Arg(t).user \notin mixed =>
    LET u == Arg(t).user IN
    /\ call[t].at = "answer" => Faithful(u, Coming(t))
    /\ call[t].at = "write" \/ (call[t].op = "mark_all_read" /\ call[t].at = "list") => Faithful(u, shown[u])
    /\ call[t].at = "write" /\ call[t].op = "mark_read" => Arg(t).row \in DOMAIN shown[u]
    /\ call[t].at = "mark" =>
        /\ Got(t) \subseteq Rows(u) /\ DOMAIN shown[u] \subseteq Rows(u)
        /\ u \notin cropped => \A n \in DOMAIN shown[u] : n \in Got(t) \/ inbox[u][n] = "read"
        /\ Complete(u, shown[u])

\* Unless requests overlapped, at most one asks for a user.
AskerOf(u, t) == Asking(t) /\ Arg(t).user = u

OneAsker ==
    \A t, v \in Tasks :
        Asking(t) /\ Asking(v) /\ Arg(t).user = Arg(v).user /\ Arg(t).user \notin mixed => t = v

\* The bell of whom no request is under way is faithful.
RestingFaithful == \A u \in Users \ mixed : (\A t \in Tasks : ~ AskerOf(u, t)) => Faithful(u, shown[u])

BellInv ==
    /\ Streams /\ InboxReadable /\ OneAsker /\ RestingFaithful
    /\ \A t \in Tasks : BellAsks(t) /\ BellKnows(t)

-----------------------------------------------------------------------------
(* The senders. *)

LEMMA EntryMoves ==
    ASSUME Shaped, NEW t \in Tasks, NEW at, call' = [call EXCEPT ![t].at = at]
    PROVE  Continues(t, at, Got(t))
  BY DEF Continues, Shaped, Only, Got

LEMMA EntryLearns ==
    ASSUME Shaped, NEW t \in Tasks, NEW at, NEW got, call' = [call EXCEPT ![t].at = at, ![t].got = got]
    PROVE  Continues(t, at, got)
<1> DEFINE c == [call[t] EXCEPT !.at = at]
<1>1. call'[t] = [c EXCEPT !.got = got]
  BY DEF Shaped
<1>2. c = [op |-> call[t].op, at |-> at, arg |-> call[t].arg, got |-> call[t].got]
  BY DEF Shaped
<1> HIDE DEF c
<1>3. call'[t] = [op |-> call[t].op, at |-> at, arg |-> call[t].arg, got |-> got]
  BY <1>1, <1>2
<1>4. call' = [u \in Tasks |-> call'[u]] /\ \A u \in Tasks \ {t} : call'[u] = call[u]
  BY DEF Shaped
<1> QED
  BY <1>3, <1>4 DEF Continues, Shaped, Only

LEMMA BegunIs ==
    ASSUME Shaped, NEW t \in Tasks, NEW op, NEW at, NEW arg, NEW got, BeginWith(t, op, at, arg, got)
    PROVE  /\ Shaped' /\ Only(t) /\ call[t].op = "none"
           /\ call'[t].op = op /\ call'[t].at = at /\ call'[t].arg = arg /\ call'[t].got = got
  BY DEF BeginWith, Shaped, Only, Running

\* What is told is never untold.
Grow ==
    /\ meant \subseteq meant' /\ told \subseteq told' /\ spared \subseteq spared' /\ mailed \subseteq mailed'
    /\ cut \subseteq cut' /\ topics <= topics' /\ wants' = wants

LEMMA DoneStays ==
    ASSUME Grow, NEW d, Done(d)
    PROVE  Done(d)'
  BY DEF Grow, Done

\* A sender that stands by goes on with its own topic.
LEMMA SenderStands ==
    ASSUME Grow, Listed, Listed', NEW v \in Tasks, call'[v] = call[v], SenderKnows(v), SenderTells(v),
           \A d \in meant' \ meant : Sending(v) => d.topic # Arg(v).topic
    PROVE  SenderKnows(v)' /\ SenderTells(v)'
<1> SUFFICES ASSUME Sending(v)
             PROVE  SenderKnows(v)' /\ SenderTells(v)'
  BY DEF SenderKnows, SenderTells, Sending
<1>1. /\ Sending(v)' /\ Arg(v)' = Arg(v) /\ Got(v)' = Got(v) /\ call'[v].at = call[v].at /\ call'[v].op = call[v].op
      /\ This(v)' = This(v)
  BY DEF Sending, Arg, Got, This
<1>2. Arg(v).topic \in 1..topics'
  BY DEF Grow, SenderKnows, Listed
<1>3. SenderKnows(v)'
  BY <1>1, <1>2 DEF SenderKnows, Grow, Due
<1>4. SenderTells(v)'
  <2> SUFFICES ASSUME call[v].at \notin {"owner", "members"}, Arg(v).topic \notin cut',
                      NEW d \in meant', d.topic = Arg(v).topic
               PROVE  \/ d.part = Got(v).part /\ d.user \in Got(v).todo
                      \/ /\ call[v].at \in Doing /\ d = This(v)
                         /\ call[v].at \notin {"prefs", "insert"} => d \in told' \cup spared'
                      \/ Done(d)'
    BY <1>1 DEF SenderTells, Doing
  <2>1. d \in meant /\ Arg(v).topic \notin cut
    BY DEF Grow
  <2>2. \/ d.part = Got(v).part /\ d.user \in Got(v).todo
        \/ /\ call[v].at \in Doing /\ d = This(v)
           /\ call[v].at \notin {"prefs", "insert"} => d \in told \cup spared
        \/ Done(d)
    BY <2>1 DEF SenderTells
  <2> QED
    BY <2>2, DoneStays DEF Grow
<1> QED
  BY <1>3, <1>4

\* The topic of a task is its own.
Keeps(t) ==
    Sending(t)' => \/ Sending(t) /\ Arg(t)'.topic = Arg(t).topic
                   \/ ~ Sending(t) /\ Arg(t)'.topic = topics + 1

\* And is through with it when it ends.
Leaving(t) ==
    Sending(t) /\ ~ Sending(t)' =>
        Arg(t).topic \in cut' \/ \A d \in meant : d.topic = Arg(t).topic => Done(d)'

LEMMA SenderStep ==
    ASSUME SenderInv, NEW t \in Tasks, Only(t), Grow, Listed', NobodyElseIsTold',
           \A d \in meant' \ meant : Sending(t)' /\ d.topic = Arg(t)'.topic,
           Keeps(t), Leaving(t), SenderKnows(t)', SenderTells(t)'
    PROVE  SenderInv'
<1>1. \A v \in Tasks \ {t} : call'[v] = call[v] /\ (Sending(v)' <=> Sending(v)) /\ Arg(v)' = Arg(v)
  BY DEF Only, Sending, Arg
<1>2. \A v \in Tasks : Sending(v) => Arg(v).topic \in 1..topics
  BY DEF SenderInv, SenderKnows
<1>3. OneSender'
  <2> SUFFICES ASSUME NEW u \in Tasks, NEW v \in Tasks, Sending(u)', Sending(v)', Arg(u)'.topic = Arg(v)'.topic
               PROVE  u = v
    BY DEF OneSender
  <2>1. CASE u # t /\ v # t
    BY <1>1, <2>1 DEF SenderInv, OneSender
  <2>2. CASE u = t /\ v # t
    BY <1>1, <1>2, <2>2 DEF SenderInv, OneSender, Keeps, Listed
  <2>3. CASE v = t /\ u # t
    BY <1>1, <1>2, <2>3 DEF SenderInv, OneSender, Keeps, Listed
  <2> QED
    BY <2>1, <2>2, <2>3
<1>4. Ended'
  <2> SUFFICES ASSUME NEW d \in meant', Through(d.topic)', d.topic \notin cut'
               PROVE  Done(d)'
    BY DEF Ended
  <2>1. \A v \in Tasks : Sending(v)' => Arg(v)'.topic # d.topic
    BY DEF Through
  <2>2. d \in meant /\ d.topic \notin cut
    BY <2>1 DEF Grow
  <2>3. CASE Done(d)
    BY <2>3, DoneStays
  <2>4. CASE ~ Through(d.topic)
    <3>1. PICK v \in Tasks : Sending(v) /\ Arg(v).topic = d.topic
      BY <2>4 DEF Through
    <3>2. v = t /\ ~ Sending(t)'
      BY <1>1, <2>1, <3>1 DEF Keeps
    <3> QED
      BY <2>2, <3>1, <3>2 DEF Leaving
  <2> QED
    BY <2>2, <2>3, <2>4 DEF SenderInv, Ended
<1>5. ASSUME NEW v \in Tasks
      PROVE  SenderKnows(v)' /\ SenderTells(v)'
  <2>1. CASE v # t
    <3>1. \A d \in meant' \ meant : Sending(v) => d.topic # Arg(v).topic
      BY <1>1, <1>2, <2>1 DEF SenderInv, OneSender, Keeps, Listed
    <3> QED
      BY <1>1, <2>1, <3>1, SenderStands DEF SenderInv
  <2> QED
    BY <2>1
<1> QED
  BY <1>3, <1>4, <1>5 DEF SenderInv

\* A step that tells nobody.
LEMMA TellsNobody ==
    ASSUME SenderInv, NEW t \in Tasks, Only(t), ~ Sending(t), ~ Sending(t)',
           UNCHANGED <<topics, meant, told, spared, mailed, cut, wants>>
    PROVE  SenderInv'
<1>1. Grow /\ Listed' /\ NobodyElseIsTold'
  BY DEF Grow, SenderInv, Listed, NobodyElseIsTold, Due
<1>2. Keeps(t) /\ Leaving(t) /\ SenderKnows(t)' /\ SenderTells(t)'
  BY DEF Keeps, Leaving, SenderKnows, SenderTells
<1> QED
  BY <1>1, <1>2, SenderStep

\* Nothing is sent either.
LEMMA NobodySends ==
    ASSUME SenderInv, call' = call, UNCHANGED <<topics, meant, told, spared, mailed, cut, wants>>
    PROVE  SenderInv'
<1>1. Grow /\ Listed' /\ NobodyElseIsTold'
  BY DEF Grow, SenderInv, Listed, NobodyElseIsTold, Due
<1>2. \A v \in Tasks : SenderKnows(v)' /\ SenderTells(v)'
  BY <1>1, SenderStands DEF SenderInv
<1>3. OneSender' /\ Ended'
  BY DEF SenderInv, OneSender, Ended, Sending, Arg, Through, Done
<1> QED
  BY <1>1, <1>2, <1>3 DEF SenderInv

\* A sender goes on with its topic.
LEMMA SenderGoes ==
    ASSUME NEW t \in Tasks, NEW at, NEW got, Sending(t), Continues(t, at, got)
    PROVE  /\ Sending(t)' /\ Arg(t)' = Arg(t) /\ Got(t)' = got /\ call'[t].at = at /\ call'[t].op = call[t].op
           /\ Only(t)
  BY DEF Continues, Sending, Arg, Got

LEMMA WorksOn ==
    ASSUME SenderInv, NEW t \in Tasks, NEW at, NEW got, Sending(t), Continues(t, at, got), Grow,
           topics' = topics, meant' = meant, NobodyElseIsTold', SenderKnows(t)', SenderTells(t)'
    PROVE  SenderInv'
<1>1. Sending(t)' /\ Arg(t)' = Arg(t) /\ Only(t)
  BY SenderGoes
<1>2. Keeps(t) /\ Leaving(t)
  BY <1>1 DEF Keeps, Leaving
<1>3. Listed'
  BY DEF SenderInv, Listed, Due
<1> QED
  BY <1>1, <1>2, <1>3, SenderStep

LEMMA SenderCallsIs ==
    ASSUME SenderInv, Shaped, NEW t \in Tasks, SenderCalls(t)
    PROVE  SenderInv'
<1>1. PICK op, at, arg :
        /\ op \in {"escalate", "appointment", "announce"} /\ at \in {"owner", "members"}
        /\ BeginWith(t, op, at, arg, <<>>) /\ arg.topic = topics + 1
  BY DEF SenderCalls, Begin
<1>2. /\ Only(t) /\ ~ Sending(t) /\ Sending(t)' /\ Arg(t)'.topic = topics + 1 /\ call'[t].op # "mention"
      /\ call'[t].at \in {"owner", "members"}
  BY <1>1, BegunIs DEF Sending, SenderOps, Arg
<1>3. Grow /\ Listed' /\ NobodyElseIsTold' /\ meant' = meant /\ topics' = topics + 1
  BY DEF SenderCalls, ntHistory, Grow, SenderInv, Listed, Due, NobodyElseIsTold
<1>4. \A d \in meant : d.topic # topics + 1
  BY DEF SenderInv, Listed
<1>5. Arg(t)'.topic \in 1..topics'
  BY <1>2, <1>3 DEF SenderInv, Listed
<1>6. SenderKnows(t)'
  BY <1>2, <1>3, <1>4, <1>5 DEF SenderKnows, Doing
<1>7. SenderTells(t)' /\ Keeps(t) /\ Leaving(t)
  BY <1>2 DEF SenderTells, Keeps, Leaving
<1> QED
  BY <1>2, <1>3, <1>6, <1>7, SenderStep

LEMMA MentionsIs ==
    ASSUME SenderInv, Shaped, NEW t \in Tasks, Mentions(t)
    PROVE  SenderInv'
<1>1. PICK heard \in SUBSET Users :
        /\ BeginWith(t, "mention", "deliver", [topic |-> topics'], Queued(heard, "mention"))
        /\ meant' = meant \cup {[topic |-> topics', user |-> u, part |-> "mention"] : u \in heard}
  BY NotificationsAssumption DEF Mentions
<1>2. /\ Only(t) /\ ~ Sending(t) /\ Sending(t)' /\ Arg(t)' = [topic |-> topics'] /\ call'[t].op = "mention"
      /\ call'[t].at = "deliver" /\ Got(t)' = Queued(heard, "mention")
  BY <1>1, BegunIs DEF Sending, SenderOps, Arg, Got
<1>3. topics' = topics + 1 /\ UNCHANGED <<told, spared, mailed, cut, wants>>
  BY DEF Mentions
<1>4. Grow /\ Listed' /\ NobodyElseIsTold'
  BY <1>1, <1>3 DEF Grow, SenderInv, Listed, Due, NobodyElseIsTold
<1>5. \A d \in meant : d.topic # topics + 1
  BY DEF SenderInv, Listed
<1>6. Arg(t)'.topic \in 1..topics'
  BY <1>2, <1>3 DEF SenderInv, Listed
<1>7. SenderKnows(t)'
  <2>1. Got(t)' = [todo |-> heard, to |-> "none", part |-> "mention"]
    BY <1>2 DEF Queued
  <2>2. \A u \in heard : Due(topics', u, "mention") \in meant'
    BY <1>1 DEF Due
  <2> QED
    BY <1>2, <1>6, <2>1, <2>2 DEF SenderKnows, Doing
<1>8. SenderTells(t)'
  BY <1>1, <1>2, <1>3, <1>5 DEF SenderTells, Doing, Queued
<1>9. Keeps(t) /\ Leaving(t)
  BY <1>2, <1>3 DEF Keeps, Leaving
<1>10. \A d \in meant' \ meant : Sending(t)' /\ d.topic = Arg(t)'.topic
  BY <1>1, <1>2
<1> QED
  BY <1>2, <1>4, <1>7, <1>8, <1>9, <1>10, SenderStep

LEMMA ReadOwnerIs ==
    ASSUME SenderInv, Shaped, NEW t \in Tasks, ReadOwner(t)
    PROVE  SenderInv'
<1>1. Sending(t) /\ call[t].at = "owner" /\ Continues(t, "members", Got(t))
  BY GotoGoes DEF ReadOwner, On, Sending, SenderOps
<1>2. Sending(t)' /\ Arg(t)' = Arg(t) /\ call'[t].at = "members" /\ call'[t].op = call[t].op
  BY <1>1, SenderGoes
<1>3. Grow /\ NobodyElseIsTold' /\ UNCHANGED <<topics, meant>>
  BY DEF ReadOwner, ntVars, ntTables, ntHistory, Grow, SenderInv, Listed, NobodyElseIsTold
<1>4. SenderKnows(t)'
  BY <1>1, <1>2, <1>3 DEF SenderInv, SenderKnows, Doing
<1>5. SenderTells(t)'
  BY <1>2 DEF SenderTells
<1> QED
  BY <1>1, <1>3, <1>4, <1>5, WorksOn

\* Those who are listed are queued, and due.
LEMMA Queues ==
    ASSUME SenderInv, NEW t \in Tasks, Sending(t), NEW us \in SUBSET Users, NEW part,
           Continues(t, "deliver", Queued(us, part)),
           \A d \in meant : d.topic = Arg(t).topic /\ Arg(t).topic \notin cut => Done(d),
           meant' = meant \cup Dues(us, t, part), UNCHANGED <<topics, told, spared, mailed, cut, wants>>
    PROVE  SenderInv'
<1>1. /\ Sending(t)' /\ Arg(t)' = Arg(t) /\ call'[t].at = "deliver" /\ call'[t].op = call[t].op
      /\ Got(t)' = Queued(us, part) /\ Only(t)
  BY SenderGoes
<1>2. Arg(t).topic \in 1..topics
  BY DEF SenderInv, SenderKnows
<1>3. Grow /\ Listed' /\ NobodyElseIsTold'
  BY <1>2 DEF Grow, SenderInv, Listed, Due, NobodyElseIsTold, Dues
<1>4. SenderKnows(t)'
  BY <1>1, <1>2 DEF SenderKnows, Doing, Queued, Due, Dues
<1>5. SenderTells(t)'
  <2> SUFFICES ASSUME Arg(t).topic \notin cut, NEW d \in meant', d.topic = Arg(t).topic
               PROVE  (d.part = part /\ d.user \in us) \/ Done(d)'
    BY <1>1 DEF SenderTells, Queued
  <2>1. CASE d \in meant
    BY <1>3, <2>1, DoneStays
  <2>2. CASE d \in Dues(us, t, part)
    BY <2>2 DEF Dues
  <2> QED
    BY <2>1, <2>2
<1>6. Keeps(t) /\ Leaving(t)
  BY <1>1 DEF Keeps, Leaving
<1>7. \A d \in meant' \ meant : Sending(t)' /\ d.topic = Arg(t)'.topic
  BY <1>1 DEF Dues
<1> QED
  BY <1>1, <1>3, <1>4, <1>5, <1>6, <1>7, SenderStep

LEMMA ResolveIs ==
    ASSUME SenderInv, Shaped, NEW t \in Tasks, Resolve(t)
    PROVE  SenderInv'
<1> DEFINE us == Arg(t).scope \cap Members
<1>1. Sending(t) /\ call[t].at = "members" /\ Continues(t, "deliver", Queued(us, "members"))
  BY LearnGoes DEF Resolve, On, Sending
<1>2. us \in SUBSET Users
  BY NotificationsAssumption
<1>3. \A d \in meant : d.topic # Arg(t).topic
  BY <1>1 DEF SenderInv, SenderKnows
<1>4. meant' = meant \cup Dues(us, t, "members") /\ UNCHANGED <<topics, told, spared, mailed, cut, wants>>
  BY DEF Resolve, ntTables
<1> HIDE DEF us
<1> QED
  BY <1>1, <1>2, <1>3, <1>4, Queues

LEMMA ListGuestsIs ==
    ASSUME SenderInv, Shaped, NEW t \in Tasks, ListGuests(t)
    PROVE  SenderInv'
<1>1. Sending(t) /\ call[t].at = "guests" /\ Continues(t, "deliver", Queued(TokenUsers, "guests"))
  BY LearnGoes DEF ListGuests
<1>2. TokenUsers \in SUBSET Users
  BY NotificationsAssumption
<1>3. \A d \in meant : d.topic = Arg(t).topic /\ Arg(t).topic \notin cut => Done(d)
  BY <1>1 DEF SenderInv, SenderKnows, SenderTells, Doing
<1>4. meant' = meant \cup Dues(TokenUsers, t, "guests") /\ UNCHANGED <<topics, told, spared, mailed, cut, wants>>
  BY DEF ListGuests, ntTables
<1> QED
  BY <1>1, <1>2, <1>3, <1>4, Queues

LEMMA ResolveFailsIs ==
    ASSUME SenderInv, Shaped, NEW t \in Tasks, ResolveFails(t)
    PROVE  SenderInv'
<1>1. Sending(t) /\ call[t].at = "members" /\ Continues(t, "deliver", Queued({}, "members"))
  BY EntryLearns DEF ResolveFails, On, Sending
<1>2. Sending(t)' /\ Arg(t)' = Arg(t) /\ call'[t].at = "deliver" /\ Got(t)' = Queued({}, "members")
  BY <1>1, SenderGoes
<1>3. cut' = cut \cup {Arg(t).topic} /\ UNCHANGED <<topics, wants, meant, told, spared, mailed>>
  BY DEF ResolveFails, ntTables
<1>4. Grow /\ NobodyElseIsTold'
  BY <1>3 DEF Grow, SenderInv, Listed, NobodyElseIsTold
<1>5. SenderKnows(t)'
  BY <1>1, <1>2, <1>3 DEF SenderInv, SenderKnows, Doing, Queued
<1>6. SenderTells(t)'
  BY <1>2, <1>3 DEF SenderTells
<1> QED
  BY <1>1, <1>3, <1>4, <1>5, <1>6, WorksOn

LEMMA PickedIs ==
    ASSUME NEW g, g = [todo |-> g.todo, to |-> g.to, part |-> g.part], NEW u
    PROVE  [g EXCEPT !.to = u, !.todo = @ \ {u}] = [todo |-> g.todo \ {u}, to |-> u, part |-> g.part]
<1> DEFINE h == [g EXCEPT !.to = u]
<1>1. h = [todo |-> g.todo, to |-> u, part |-> g.part]
  OBVIOUS
<1>2. [g EXCEPT !.to = u, !.todo = @ \ {u}] = [h EXCEPT !.todo = @ \ {u}]
  OBVIOUS
<1> HIDE DEF h
<1>3. [h EXCEPT !.todo = @ \ {u}] = [todo |-> g.todo \ {u}, to |-> u, part |-> g.part]
  BY <1>1
<1> QED
  BY <1>2, <1>3

LEMMA NextRecipientIs ==
    ASSUME SenderInv, Shaped, NEW t \in Tasks, NextRecipient(t)
    PROVE  SenderInv'
<1>1. Sending(t) /\ call[t].at = "deliver" /\ SenderKnows(t) /\ SenderTells(t)
  BY DEF NextRecipient, SenderInv
<1>2. Grow /\ NobodyElseIsTold' /\ Listed' /\ UNCHANGED <<topics, meant, told, spared, mailed, cut, wants>>
  <2>1. UNCHANGED <<topics, meant, told, spared, mailed, cut, wants>>
    BY DEF NextRecipient, ntVars, ntTables, ntHistory
  <2> QED
    BY <2>1 DEF Grow, SenderInv, Listed, Due, NobodyElseIsTold
<1>3. ASSUME NEW u \in Got(t).todo, Learn(t, "prefs", [Got(t) EXCEPT !.to = u, !.todo = @ \ {u}])
      PROVE  SenderInv'
  <2> DEFINE next == [Got(t) EXCEPT !.to = u, !.todo = @ \ {u}]
  <2>1. next = [todo |-> Got(t).todo \ {u}, to |-> u, part |-> Got(t).part]
    BY <1>1, PickedIs DEF SenderKnows
  <2>2. Continues(t, "prefs", next)
    BY <1>3, LearnGoes
  <2> HIDE DEF next
  <2>3. Sending(t)' /\ Arg(t)' = Arg(t) /\ call'[t].at = "prefs" /\ Got(t)' = next
    BY <1>1, <2>2, SenderGoes
  <2>4. This(t)' = Due(Arg(t).topic, u, Got(t).part)
    BY <2>1, <2>3 DEF This, Due
  <2>5. SenderKnows(t)'
    BY <1>1, <1>2, <2>1, <2>3, <2>4 DEF SenderKnows, Doing
  <2>6. SenderTells(t)'
    <3> SUFFICES ASSUME Arg(t).topic \notin cut, NEW d \in meant, d.topic = Arg(t).topic
                 PROVE  (d.part = Got(t).part /\ d.user \in Got(t).todo \ {u}) \/ d = This(t)' \/ Done(d)'
      BY <1>2, <2>1, <2>3 DEF SenderTells, Doing
    <3>1. (d.part = Got(t).part /\ d.user \in Got(t).todo) \/ Done(d)
      BY <1>1 DEF SenderTells, Doing
    <3>2. d = Due(d.topic, d.user, d.part)
      BY DEF SenderInv, Listed
    <3> QED
      BY <1>2, <2>4, <3>1, <3>2, DoneStays
  <2> QED
    BY <1>1, <1>2, <2>2, <2>5, <2>6, WorksOn
<1>4. ASSUME Got(t).todo = {}, Goto(t, "guests"), call[t].op \in {"escalate", "appointment"}
      PROVE  SenderInv'
  <2>1. Continues(t, "guests", Got(t))
    BY <1>4, GotoGoes
  <2>2. /\ Sending(t)' /\ Arg(t)' = Arg(t) /\ call'[t].at = "guests" /\ Got(t)' = Got(t)
    BY <1>1, <2>1, SenderGoes
  <2>3. SenderKnows(t)'
    BY <1>1, <1>2, <1>4, <2>2 DEF SenderKnows, Doing
  <2>4. SenderTells(t)'
    BY <1>1, <1>2, <2>2, DoneStays DEF SenderTells, Doing
  <2> QED
    BY <1>1, <1>2, <2>1, <2>3, <2>4, WorksOn
<1>5. ASSUME Got(t).todo = {}, Finish(t)
      PROVE  SenderInv'
  <2>1. Only(t) /\ ~ Sending(t)'
    BY <1>5, LeavesEnds DEF Ceases, Sending, SenderOps
  <2>2. Leaving(t)
    BY <1>1, <1>2, <1>5, DoneStays DEF Leaving, SenderTells, Doing
  <2>3. Keeps(t) /\ SenderKnows(t)' /\ SenderTells(t)'
    BY <2>1 DEF Keeps, SenderKnows, SenderTells
  <2> QED
    BY <1>2, <2>1, <2>2, <2>3, SenderStep
<1> QED
  BY <1>3, <1>4, <1>5 DEF NextRecipient

\* The row of this recipient is written, or will not be.
RowSettled(t) == Arg(t).topic \in cut \/ This(t) \in told' \cup spared' \/ Got(t).to \in Got(t).todo

LEMMA AfterRowIs ==
    ASSUME NEW part
    PROVE  /\ AfterRow(part) \in {"deliver", "mail", "online"}
           /\ AfterRow(part) = "online" => part # "guests"
           /\ AfterRow(part) = "deliver" => part # "guests"
  BY DEF AfterRow

LEMMA RowIsSettled ==
    ASSUME SenderInv, NEW t \in Tasks, Sending(t), call[t].at \in {"prefs", "insert", "publish"},
           Continues(t, AfterRow(Got(t).part), Got(t)), Grow, topics' = topics, meant' = meant,
           NobodyElseIsTold', RowSettled(t)
    PROVE  SenderInv'
<1> DEFINE at == AfterRow(Got(t).part)
<1>1. /\ at \in {"deliver", "mail", "online"}
      /\ at = "online" => Got(t).part # "guests"
      /\ at = "deliver" => Got(t).part # "guests"
  BY AfterRowIs
<1> HIDE DEF at
<1>2. Sending(t)' /\ Arg(t)' = Arg(t) /\ Got(t)' = Got(t) /\ call'[t].at = at
  BY SenderGoes DEF at
<1>3. This(t)' = This(t)
  BY <1>2 DEF This
<1>4. SenderKnows(t) /\ SenderTells(t)
  BY DEF SenderInv
<1>5. SenderKnows(t)'
  BY <1>1, <1>2, <1>3, <1>4 DEF SenderKnows, Doing, Grow
<1>6. SenderTells(t)'
  <2> SUFFICES ASSUME Arg(t).topic \notin cut', NEW d \in meant, d.topic = Arg(t).topic
               PROVE  \/ d.part = Got(t).part /\ d.user \in Got(t).todo
                      \/ at \in Doing /\ d = This(t) /\ d \in told' \cup spared'
                      \/ Done(d)'
    BY <1>2, <1>3 DEF SenderTells
  <2>1. \/ d.part = Got(t).part /\ d.user \in Got(t).todo
        \/ d = This(t)
        \/ Done(d)
    BY <1>4 DEF SenderTells, Doing, Grow
  <2>2. CASE d = This(t)
    <3>1. d.part = Got(t).part /\ d.user = Got(t).to
      BY <2>2 DEF This
    <3>2. CASE at = "deliver"
      BY <1>1, <2>2, <3>1, <3>2 DEF RowSettled, Done, Grow
    <3>3. CASE at # "deliver"
      BY <1>1, <2>2, <3>1, <3>3 DEF RowSettled, Doing, Grow
    <3> QED
      BY <3>2, <3>3
  <2> QED
    BY <2>1, <2>2, DoneStays
<1> QED
  BY <1>5, <1>6, WorksOn DEF at

\* The row can be written.
LEMMA GoesToInsert ==
    ASSUME SenderInv, NEW t \in Tasks, Sending(t), call[t].at = "prefs",
           Continues(t, "insert", Got(t)), Grow, topics' = topics, meant' = meant,
           NobodyElseIsTold', Got(t).to \in wants \/ This(t) \in spared'
    PROVE  SenderInv'
<1>1. Sending(t)' /\ Arg(t)' = Arg(t) /\ Got(t)' = Got(t) /\ call'[t].at = "insert"
  BY SenderGoes
<1>2. This(t)' = This(t)
  BY <1>1 DEF This
<1>3. SenderKnows(t) /\ SenderTells(t)
  BY DEF SenderInv
<1>4. SenderKnows(t)'
  BY <1>1, <1>2, <1>3 DEF SenderKnows, Doing, Grow
<1>5. SenderTells(t)'
  <2> SUFFICES ASSUME Arg(t).topic \notin cut', NEW d \in meant, d.topic = Arg(t).topic
               PROVE  (d.part = Got(t).part /\ d.user \in Got(t).todo) \/ d = This(t) \/ Done(d)'
    BY <1>1, <1>2 DEF SenderTells, Doing
  <2> QED
    BY <1>3, DoneStays DEF SenderTells, Doing, Grow
<1> QED
  BY <1>4, <1>5, WorksOn

\* Only the spared are more.
LEMMA SparesOnly ==
    ASSUME SenderInv, spared \subseteq spared', UNCHANGED <<topics, meant, told, mailed, cut, wants>>
    PROVE  Grow /\ NobodyElseIsTold'
  BY DEF Grow, SenderInv, Listed, NobodyElseIsTold

LEMMA ReadWishIs ==
    ASSUME SenderInv, Shaped, NEW t \in Tasks, ReadWish(t)
    PROVE  SenderInv'
<1>1. Sending(t) /\ call[t].at = "prefs" /\ UNCHANGED <<topics, meant, told, mailed, cut, wants>>
  BY DEF ReadWish, ntTables
<1>2. CASE Goto(t, "insert") /\ UNCHANGED spared /\ Got(t).to \in wants
  BY <1>1, <1>2, GotoGoes, SparesOnly, GoesToInsert
<1>3. CASE Goto(t, AfterRow(Got(t).part)) /\ spared' = spared \cup {This(t)}
  <2>1. RowSettled(t) /\ spared \subseteq spared'
    BY <1>3 DEF RowSettled
  <2>2. Continues(t, AfterRow(Got(t).part), Got(t))
    BY <1>3, GotoGoes
  <2> QED
    BY <1>1, <2>1, <2>2, SparesOnly, RowIsSettled
<1> QED
  BY <1>2, <1>3 DEF ReadWish

LEMMA ReadWishFailsIs ==
    ASSUME SenderInv, Shaped, NEW t \in Tasks, ReadWishFails(t)
    PROVE  SenderInv'
<1>1. /\ Sending(t) /\ call[t].at = "prefs" /\ UNCHANGED <<topics, meant, told, mailed, cut, wants>>
      /\ spared' = spared \cup {This(t)} /\ Continues(t, "insert", Got(t))
  BY EntryMoves DEF ReadWishFails, ntTables
<1>2. Grow /\ NobodyElseIsTold'
  BY <1>1, SparesOnly
<1> QED
  BY <1>1, <1>2, GoesToInsert

LEMMA InsertFailsIs ==
    ASSUME SenderInv, Shaped, NEW t \in Tasks, InsertFails(t)
    PROVE  SenderInv'
<1>1. /\ Sending(t) /\ call[t].at = "insert" /\ UNCHANGED <<topics, meant, told, mailed, cut, wants>>
      /\ spared' = spared \cup {This(t)} /\ Continues(t, AfterRow(Got(t).part), Got(t))
  BY EntryMoves DEF InsertFails, ntTables
<1>2. Grow /\ NobodyElseIsTold' /\ RowSettled(t)
  BY <1>1, SparesOnly DEF RowSettled
<1> QED
  BY <1>1, <1>2, RowIsSettled

LEMMA InsertIs ==
    ASSUME SenderInv, Shaped, NEW t \in Tasks, InsertNotification(t)
    PROVE  SenderInv'
<1>1. /\ Sending(t) /\ call[t].at = "insert" /\ UNCHANGED <<topics, meant, spared, mailed, cut, wants>>
      /\ told' = told \cup {This(t)} /\ Continues(t, "publish", Got(t))
  BY GotoGoes DEF InsertNotification, ntBell
<1>2. SenderKnows(t) /\ SenderTells(t)
  BY DEF SenderInv
<1>3. This(t) \in meant /\ (Got(t).to \in wants \/ This(t) \in spared) /\ This(t).user = Got(t).to
  BY <1>1, <1>2 DEF SenderKnows, Doing, This
<1>4. Grow /\ NobodyElseIsTold'
  BY <1>1, <1>3 DEF Grow, SenderInv, Listed, NobodyElseIsTold
<1>5. Sending(t)' /\ Arg(t)' = Arg(t) /\ Got(t)' = Got(t) /\ call'[t].at = "publish"
  BY <1>1, SenderGoes
<1>6. This(t)' = This(t)
  BY <1>5 DEF This
<1>7. SenderKnows(t)'
  BY <1>1, <1>2, <1>5, <1>6 DEF SenderKnows, Doing
<1>8. SenderTells(t)'
  <2> SUFFICES ASSUME Arg(t).topic \notin cut, NEW d \in meant, d.topic = Arg(t).topic
               PROVE  \/ d.part = Got(t).part /\ d.user \in Got(t).todo
                      \/ d = This(t) /\ d \in told' \cup spared'
                      \/ Done(d)'
    BY <1>1, <1>5, <1>6 DEF SenderTells, Doing
  <2> QED
    BY <1>1, <1>2, <1>4, DoneStays DEF SenderTells
<1> QED
  BY <1>1, <1>4, <1>7, <1>8, WorksOn

LEMMA PublishIs ==
    ASSUME SenderInv, Shaped, NEW t \in Tasks, Publish(t)
    PROVE  SenderInv'
<1>1. /\ Sending(t) /\ call[t].at = "publish" /\ UNCHANGED <<topics, meant, told, spared, mailed, cut, wants>>
      /\ Continues(t, AfterRow(Got(t).part), Got(t))
  BY GotoGoes DEF Publish, ntHistory
<1>2. Grow /\ NobodyElseIsTold'
  BY <1>1, SparesOnly
<1>3. RowSettled(t)
  <2>1. SenderKnows(t) /\ SenderTells(t)
    BY DEF SenderInv
  <2>2. This(t) \in meant /\ This(t).topic = Arg(t).topic /\ This(t).user = Got(t).to
    BY <1>1, <2>1 DEF SenderKnows, Doing, This
  <2> QED
    BY <1>1, <2>1, <2>2 DEF SenderTells, RowSettled, Done
<1> QED
  BY <1>1, <1>2, <1>3, RowIsSettled

\* Whoever has been told, and mailed to as a guest, is done.
LEMMA GoesToDeliver ==
    ASSUME SenderInv, NEW t \in Tasks, Sending(t), call[t].at \in {"online", "mail"},
           Continues(t, "deliver", Got(t)), Grow, topics' = topics, meant' = meant, NobodyElseIsTold',
           Got(t).part = "guests" => This(t) \in mailed' \/ Arg(t).topic \in cut'
    PROVE  SenderInv'
<1>1. Sending(t)' /\ Arg(t)' = Arg(t) /\ Got(t)' = Got(t) /\ call'[t].at = "deliver"
  BY SenderGoes
<1>2. SenderKnows(t) /\ SenderTells(t)
  BY DEF SenderInv
<1>3. SenderKnows(t)'
  BY <1>1, <1>2 DEF SenderKnows, Doing, Grow
<1>4. SenderTells(t)'
  <2> SUFFICES ASSUME Arg(t).topic \notin cut', NEW d \in meant, d.topic = Arg(t).topic
               PROVE  (d.part = Got(t).part /\ d.user \in Got(t).todo) \/ Done(d)'
    BY <1>1 DEF SenderTells
  <2>1. \/ d.part = Got(t).part /\ d.user \in Got(t).todo
        \/ d = This(t) /\ d \in told \cup spared
        \/ Done(d)
    BY <1>2 DEF SenderTells, Doing, Grow
  <2>2. This(t).part = Got(t).part
    BY DEF This
  <2> QED
    BY <2>1, <2>2, DoneStays DEF Done, Grow
<1> QED
  BY <1>3, <1>4, WorksOn

LEMMA AskOnlineIs ==
    ASSUME SenderInv, Shaped, NEW t \in Tasks, AskOnline(t)
    PROVE  SenderInv'
<1>1. Sending(t) /\ call[t].at = "online" /\ UNCHANGED <<topics, meant, told, spared, mailed, cut, wants>>
  BY DEF AskOnline, ntVars, ntTables, ntHistory
<1>2. Grow /\ NobodyElseIsTold'
  BY <1>1, SparesOnly
<1>3. SenderKnows(t) /\ SenderTells(t)
  BY DEF SenderInv
<1>4. Got(t).part # "guests"
  BY <1>1, <1>3 DEF SenderKnows
<1>5. CASE Goto(t, "deliver")
  BY <1>1, <1>2, <1>4, <1>5, GotoGoes, GoesToDeliver
<1>6. CASE Goto(t, "mail")
  <2>1. Continues(t, "mail", Got(t))
    BY <1>6, GotoGoes
  <2>2. Sending(t)' /\ Arg(t)' = Arg(t) /\ Got(t)' = Got(t) /\ call'[t].at = "mail"
    BY <1>1, <2>1, SenderGoes
  <2>3. This(t)' = This(t)
    BY <2>2 DEF This
  <2>4. SenderKnows(t)'
    BY <1>1, <1>3, <2>2, <2>3 DEF SenderKnows, Doing
  <2>5. SenderTells(t)'
    BY <1>1, <1>2, <1>3, <2>2, <2>3, DoneStays DEF SenderTells, Doing
  <2> QED
    BY <1>1, <1>2, <2>1, <2>4, <2>5, WorksOn
<1> QED
  BY <1>5, <1>6 DEF AskOnline

LEMMA MailIs ==
    ASSUME SenderInv, Shaped, NEW t \in Tasks, Mail(t)
    PROVE  SenderInv'
<1>1. /\ Sending(t) /\ call[t].at = "mail" /\ UNCHANGED <<topics, meant, told, spared, cut, wants>>
      /\ mailed' = mailed \cup {This(t)} /\ Continues(t, "deliver", Got(t))
  BY GotoGoes DEF Mail, ntTables
<1>2. Grow /\ NobodyElseIsTold'
  BY <1>1 DEF Grow, SenderInv, Listed, NobodyElseIsTold
<1> QED
  BY <1>1, <1>2, GoesToDeliver

LEMMA MailFailsIs ==
    ASSUME SenderInv, Shaped, NEW t \in Tasks, MailFails(t)
    PROVE  SenderInv'
<1>1. /\ Sending(t) /\ call[t].at = "mail" /\ UNCHANGED <<topics, meant, told, spared, mailed, wants>>
      /\ cut' = cut \cup {Arg(t).topic} /\ Continues(t, "deliver", Got(t))
  BY EntryMoves DEF MailFails, ntTables
<1>2. Grow /\ NobodyElseIsTold'
  BY <1>1 DEF Grow, SenderInv, Listed, NobodyElseIsTold
<1> QED
  BY <1>1, <1>2, GoesToDeliver

LEMMA DropNtIs ==
    ASSUME SenderInv, Shaped, NEW t \in Tasks, DropNt(t)
    PROVE  SenderInv'
<1>1. Only(t) /\ ~ Sending(t)'
  BY LeavesEnds DEF DropNt, Ceases, Sending, SenderOps
<1>2. /\ UNCHANGED <<topics, meant, told, spared, mailed, wants>>
      /\ cut' = IF Sending(t) THEN cut \cup {Arg(t).topic} ELSE cut
  BY DEF DropNt, ntTables
<1>3. Grow /\ Listed' /\ NobodyElseIsTold'
  BY <1>2 DEF Grow, SenderInv, Listed, Due, NobodyElseIsTold
<1>4. Keeps(t) /\ Leaving(t) /\ SenderKnows(t)' /\ SenderTells(t)'
  BY <1>1, <1>2 DEF Keeps, Leaving, SenderKnows, SenderTells
<1> QED
  BY <1>1, <1>2, <1>3, <1>4, SenderStep

-----------------------------------------------------------------------------
\* The bell tells nobody.
LEMMA BellsTell ==
    ASSUME SenderInv, Shaped, NEW t \in Tasks,
           Fetch(t) \/ Click(t) \/ ListInbox(t) \/ MarkRead(t) \/ MarkNext(t) \/ Delete(t) \/ Answer(t)
    PROVE  SenderInv'
<1>1. UNCHANGED <<topics, meant, told, spared, mailed, cut, wants>>
  BY DEF Fetch, Click, ListInbox, MarkRead, MarkNext, Delete, Answer, ntTables, ntHistory
<1>2. CASE Fetch(t) \/ Click(t)
  <2>1. PICK op \in Bells : \E at, arg : BeginWith(t, op, at, arg, <<>>)
    BY <1>2 DEF Fetch, Click, Requests, Begin, Bells
  <2>2. Only(t) /\ ~ Sending(t) /\ ~ Sending(t)'
    BY <2>1, BegunIs DEF Sending, SenderOps, Bells
  <2> QED
    BY <1>1, <2>2, TellsNobody
<1>3. CASE ListInbox(t) \/ MarkRead(t) \/ MarkNext(t) \/ Delete(t) \/ Answer(t)
  <2>1. call[t].op \in Bells
    BY <1>3 DEF ListInbox, MarkRead, MarkNext, Delete, Answer, On, Bells, Asking
  <2>2. (\E at : Goto(t, at) \/ \E got : Learn(t, at, got)) \/ Finish(t)
    BY <1>3 DEF ListInbox, MarkRead, MarkNext, Delete, Answer
  <2>3. Only(t) /\ call'[t].op \in {call[t].op, "none"}
    BY <2>2, Moves, Leaves
  <2>4. ~ Sending(t) /\ ~ Sending(t)'
    BY <2>1, <2>3 DEF Sending, SenderOps, Bells
  <2> QED
    BY <1>1, <2>3, <2>4, TellsNobody
<1> QED
  BY <1>2, <1>3

LEMMA StreamsTell ==
    ASSUME SenderInv, Subscribe \/ Disconnect
    PROVE  SenderInv'
<1>1. call' = call /\ UNCHANGED <<topics, meant, told, spared, mailed, cut, wants>>
  BY DEF Subscribe, Disconnect, ntHistory, tasking
<1> QED
  BY <1>1, NobodySends

-----------------------------------------------------------------------------
(* The bell. *)

\* Nothing that the list of u holds has changed, and what is new is announced.
KeepsFaith(u) ==
    /\ Rows(u) \subseteq Rows(u)' /\ \A n \in Rows(u) : inbox'[u][n] = inbox[u][n]
    /\ u \in cropped' <=> u \in cropped
    /\ Online(u)' /\ pending'[u] = 0 /\ ~ Publishing(u)' =>
        Online(u) /\ pending[u] = 0 /\ ~ Publishing(u) /\ Rows(u)' = Rows(u)

LEMMA FaithfulStays ==
    ASSUME NEW u, KeepsFaith(u), NEW s, Faithful(u, s)
    PROVE  Faithful(u, s)'
<1>1. SoFar(u, s) /\ Complete(u, s)
  BY DEF Faithful
<1>2. SoFar(u, s)'
  BY <1>1 DEF SoFar, KeepsFaith
<1>3. Complete(u, s)'
  BY <1>1 DEF Complete, KeepsFaith
<1> QED
  BY <1>2, <1>3 DEF Faithful

LEMMA CompleteStays ==
    ASSUME NEW u, KeepsFaith(u), NEW s, Complete(u, s)
    PROVE  Complete(u, s)'
  BY DEF Complete, KeepsFaith

LEMMA KnowsStays ==
    ASSUME NEW t \in Tasks, BellKnows(t), Asking(t), NEW u, u = Arg(t).user, u \notin mixed,
           call'[t] = call[t], KeepsFaith(u), shown'[u] = shown[u]
    PROVE  BellKnows(t)'
<1>1. Asking(t)' /\ Arg(t)' = Arg(t) /\ Got(t)' = Got(t) /\ call'[t].op = call[t].op /\ call'[t].at = call[t].at
  BY DEF Asking, Arg, Got
<1>2. Coming(t)' = Coming(t)
  BY <1>1 DEF Coming
<1>3. \A s : Faithful(u, s) => Faithful(u, s)'
  BY FaithfulStays
<1>4. \A s : Complete(u, s) => Complete(u, s)'
  BY CompleteStays
<1>5. call[t].at = "answer" => Faithful(u, Coming(t))'
  BY <1>1, <1>2, <1>3 DEF BellKnows
<1>6. call[t].at = "write" \/ (call[t].op = "mark_all_read" /\ call[t].at = "list") =>
        Faithful(u, shown[u])'
  BY <1>1, <1>3 DEF BellKnows
<1>7. call[t].at = "mark" => Complete(u, shown[u])'
  BY <1>1, <1>4 DEF BellKnows
<1>8. call[t].at = "mark" =>
        /\ Got(t) \subseteq Rows(u)' /\ DOMAIN shown[u] \subseteq Rows(u)'
        /\ u \notin cropped' => \A n \in DOMAIN shown[u] : n \in Got(t) \/ inbox'[u][n] = "read"
  <2> SUFFICES ASSUME call[t].at = "mark"
               PROVE  /\ Got(t) \subseteq Rows(u)' /\ DOMAIN shown[u] \subseteq Rows(u)'
                      /\ u \notin cropped' => \A n \in DOMAIN shown[u] : n \in Got(t) \/ inbox'[u][n] = "read"
    OBVIOUS
  <2>1. /\ Got(t) \subseteq Rows(u) /\ DOMAIN shown[u] \subseteq Rows(u)
        /\ u \notin cropped => \A n \in DOMAIN shown[u] : n \in Got(t) \/ inbox[u][n] = "read"
    BY DEF BellKnows
  <2> QED
    BY <2>1 DEF KeepsFaith
<1> QED
  BY <1>1, <1>5, <1>6, <1>7, <1>8 DEF BellKnows

\* What a step of t does to the bell of u: it is beside it, or its own and the
\* only one.
Beside(u, t) == ~ AskerOf(u, t) /\ ~ AskerOf(u, t)' /\ KeepsFaith(u) /\ shown'[u] = shown[u]
OwnBell(u, t) ==
    /\ \A v \in Tasks \ {t} : ~ AskerOf(u, v)
    /\ AskerOf(u, t)' => BellKnows(t)'
    /\ ~ AskerOf(u, t)' => Faithful(u, shown[u])'

LEMMA BellStep ==
    ASSUME BellInv, NEW t \in Tasks, Only(t), mixed \subseteq mixed', Streams', InboxReadable', BellAsks(t)',
           \A u \in Users \ mixed' : Beside(u, t) \/ OwnBell(u, t)
    PROVE  BellInv'
<1>1. ASSUME NEW v \in Tasks \ {t}
      PROVE  /\ (Asking(v)' <=> Asking(v)) /\ Arg(v)' = Arg(v) /\ call'[v] = call[v]
             /\ \A u : AskerOf(u, v)' <=> AskerOf(u, v)
  BY DEF Only, Asking, Arg, AskerOf
<1>2. \A v \in Tasks : BellAsks(v)'
  <2> SUFFICES ASSUME NEW v \in Tasks \ {t}
               PROVE  BellAsks(v)'
    OBVIOUS
  <2>1. BellAsks(v)
    BY DEF BellInv
  <2> QED
    BY <1>1, <2>1 DEF BellAsks, Sending
<1>3. \A v \in Tasks : Asking(v)' => \E u \in Users : u = Arg(v)'.user /\ AskerOf(u, v)'
  BY <1>2 DEF BellAsks, AskerOf
<1>4. \A u \in Users, v \in Tasks : AskerOf(u, v)' => Asking(v)' /\ Arg(v)'.user = u
  BY DEF AskerOf
<1>5. OneAsker'
  <2> SUFFICES ASSUME NEW v \in Tasks, NEW w \in Tasks, NEW u \in Users \ mixed', AskerOf(u, v)', AskerOf(u, w)'
               PROVE  v = w
    BY <1>3 DEF OneAsker
  <2>1. CASE Beside(u, t)
    <3>1. AskerOf(u, v) /\ AskerOf(u, w)
      BY <1>1, <2>1 DEF Beside
    <3> QED
      BY <3>1 DEF BellInv, OneAsker, AskerOf
  <2>2. CASE OwnBell(u, t)
    BY <1>1, <2>2 DEF OwnBell
  <2> QED
    BY <2>1, <2>2
<1>6. \A v \in Tasks : BellKnows(v)'
  <2> SUFFICES ASSUME NEW v \in Tasks, Asking(v)', Arg(v)'.user \notin mixed'
               PROVE  BellKnows(v)'
    BY DEF BellKnows
  <2>1. PICK u \in Users \ mixed' : u = Arg(v)'.user /\ AskerOf(u, v)'
    BY <1>3
  <2>2. CASE v = t
    BY <2>1, <2>2 DEF Beside, OwnBell
  <2>3. CASE v # t
    <3>1. AskerOf(u, v) /\ Asking(v) /\ Arg(v).user = u /\ call'[v] = call[v]
      BY <1>1, <2>1, <2>3 DEF AskerOf
    <3>2. Beside(u, t)
      BY <2>1, <2>3, <3>1 DEF OwnBell
    <3>3. KeepsFaith(u) /\ shown'[u] = shown[u]
      BY <3>1, <3>2 DEF Beside
    <3>4. BellKnows(v) /\ u \notin mixed
      BY <2>1, <3>1 DEF BellInv
    <3> QED
      BY <3>1, <3>3, <3>4, KnowsStays
  <2> QED
    BY <2>2, <2>3
<1>7. RestingFaithful'
  <2> SUFFICES ASSUME NEW u \in Users \ mixed', \A v \in Tasks : ~ AskerOf(u, v)'
               PROVE  Faithful(u, shown[u])'
    BY DEF RestingFaithful
  <2>1. CASE Beside(u, t)
    <3>1. \A v \in Tasks : ~ AskerOf(u, v)
      BY <1>1, <2>1 DEF Beside
    <3>2. Faithful(u, shown[u])
      BY <3>1 DEF BellInv, RestingFaithful
    <3>3. KeepsFaith(u) /\ shown'[u] = shown[u]
      BY <2>1 DEF Beside
    <3> SUFFICES ASSUME NEW s, s = shown[u]
                 PROVE  Faithful(u, s)'
      BY <3>3
    <3> QED
      BY <3>2, <3>3, FaithfulStays
  <2>2. CASE OwnBell(u, t)
    BY <2>2 DEF OwnBell
  <2> QED
    BY <2>1, <2>2
<1> QED
  BY <1>2, <1>5, <1>6, <1>7 DEF BellInv

\* Who is not asking.
LEMMA SendersAskNot ==
    ASSUME NEW t \in Tasks, Sending(t) \/ ~ Running(t)
    PROVE  ~ Asking(t)
  BY DEF Sending, SenderOps, Asking, Bells, Running

LEMMA CeasesIs ==
    ASSUME Shaped, NEW t \in Tasks, Finish(t) \/ Drop(t)
    PROVE  Only(t) /\ ~ Asking(t)' /\ call'[t].at = "none"
  BY DEF Finish, Drop, Leave, Shaped, Only, NoCall, Asking, Bells

\* An announcement to come is to come, unless t is the one to send it.
LEMMA PublishingStays ==
    ASSUME NEW t \in Tasks, Only(t), NEW u, call[t].at # "publish" \/ Got(t).to # u, Publishing(u)
    PROVE  Publishing(u)'
<1>1. PICK v \in Tasks : On(v, call[v].op, "publish") /\ Got(v).to = u
  BY DEF Publishing
<1>2. v # t
  BY <1>1 DEF On
<1>3. call'[v] = call[v]
  BY <1>2 DEF Only
<1>4. call'[v].at = "publish" /\ call'[v].got.to = u
  BY <1>1, <1>3 DEF On, Got
<1> QED
  BY <1>4 DEF Publishing, On, Got

\* Nothing of u is touched.
LEMMA LeftAlone ==
    ASSUME NEW t \in Tasks, Only(t), NEW u, inbox'[u] = inbox[u], pending'[u] = pending[u],
           u \in cropped' <=> u \in cropped, call[t].at # "publish" \/ Got(t).to # u
    PROVE  KeepsFaith(u)
<1>1. Publishing(u) => Publishing(u)'
  BY PublishingStays
<1>2. Rows(u)' = Rows(u) /\ (Online(u)' <=> Online(u))
  BY DEF Rows, Online
<1> QED
  BY <1>1, <1>2 DEF KeepsFaith

\* A step of a sender that touches no bell.
LEMMA SenderBells ==
    ASSUME BellInv, NEW t \in Tasks, Only(t), ~ Asking(t), ~ Asking(t)',
           Sending(t)' \/ call'[t].at # "publish", call[t].at # "publish",
           UNCHANGED <<inbox, pending, shown, cropped, mixed>>
    PROVE  BellInv'
<1>1. Streams' /\ InboxReadable' /\ mixed \subseteq mixed'
  BY DEF BellInv, Streams, InboxReadable, Readable
<1>2. BellAsks(t)'
  BY DEF BellAsks
<1>3. \A u \in Users \ mixed' : Beside(u, t)
  BY LeftAlone DEF Beside, AskerOf
<1> QED
  BY <1>1, <1>2, <1>3, BellStep

LEMMA SendersGoOn ==
    ASSUME BellInv, Shaped, NEW t \in Tasks, Sending(t), call[t].at # "publish", NEW at, NEW got,
           Continues(t, at, got) \/ Finish(t),
           UNCHANGED <<inbox, pending, shown, cropped, mixed>>
    PROVE  BellInv'
<1>1. ~ Asking(t)
  BY SendersAskNot
<1>2. CASE Continues(t, at, got)
  <2>1. Sending(t)' /\ Only(t) /\ ~ Asking(t)'
    BY <1>1, <1>2, SenderGoes DEF Continues, Asking
  <2> QED
    BY <1>1, <2>1, SenderBells
<1>3. CASE Finish(t)
  <2>1. Only(t) /\ ~ Asking(t)' /\ call'[t].at = "none"
    BY <1>3, CeasesIs
  <2> QED
    BY <1>1, <2>1, SenderBells
<1> QED
  BY <1>2, <1>3

LEMMA SendersBell ==
    ASSUME BellInv, Shaped, NEW t \in Tasks,
           \/ ReadOwner(t) \/ Resolve(t) \/ ResolveFails(t) \/ NextRecipient(t) \/ ListGuests(t)
           \/ ReadWish(t) \/ ReadWishFails(t) \/ InsertFails(t) \/ AskOnline(t) \/ Mail(t) \/ MailFails(t)
    PROVE  BellInv'
<1>1. UNCHANGED <<inbox, pending, shown, cropped, mixed>>
  BY DEF ReadOwner, Resolve, ResolveFails, NextRecipient, ListGuests, ReadWish, ReadWishFails, InsertFails,
         AskOnline, Mail, MailFails, ntVars, ntTables, ntHistory, ntBell
<1>2. Sending(t) /\ call[t].at # "publish"
  BY DEF ReadOwner, Resolve, ResolveFails, NextRecipient, ListGuests, ReadWish, ReadWishFails, InsertFails,
         AskOnline, Mail, MailFails, On, Sending, SenderOps
<1>3. (\E at, got : Continues(t, at, got)) \/ Finish(t)
  <2>1. CASE ReadOwner(t) \/ ReadWish(t) \/ AskOnline(t) \/ Mail(t)
    BY <2>1, GotoGoes DEF ReadOwner, ReadWish, AskOnline, Mail
  <2>2. CASE Resolve(t) \/ ListGuests(t) \/ NextRecipient(t)
    BY <2>2, GotoGoes, LearnGoes DEF Resolve, ListGuests, NextRecipient
  <2>3. CASE ReadWishFails(t) \/ InsertFails(t) \/ MailFails(t)
    BY <2>3, EntryMoves DEF ReadWishFails, InsertFails, MailFails
  <2>4. CASE ResolveFails(t)
    BY <2>4, EntryLearns DEF ResolveFails
  <2> QED
    BY <2>1, <2>2, <2>3, <2>4
<1> QED
  BY <1>1, <1>2, <1>3, SendersGoOn

LEMMA CallersBell ==
    ASSUME BellInv, Shaped, NEW t \in Tasks, SenderCalls(t) \/ Mentions(t)
    PROVE  BellInv'
<1>1. UNCHANGED <<inbox, pending, shown, cropped, mixed>>
  BY DEF SenderCalls, Mentions, ntHistory, ntBell
<1>2. PICK op \in SenderOps : \E at, arg, got : BeginWith(t, op, at, arg, got)
  BY DEF SenderCalls, Mentions, Begin, SenderOps
<1>3. Only(t) /\ call[t].op = "none" /\ Sending(t)'
  BY <1>2, BegunIs DEF Sending
<1>4. ~ Asking(t) /\ ~ Asking(t)' /\ call[t].at # "publish"
  BY <1>3 DEF Asking, Bells, Sending, SenderOps, BellInv, BellAsks
<1> QED
  BY <1>1, <1>3, <1>4, SenderBells

\* The row is new; what announces it is still to come.
LEMMA InsertBells ==
    ASSUME SenderInv, BellInv, Shaped, NEW t \in Tasks, InsertNotification(t)
    PROVE  BellInv'
<1>1. /\ Sending(t) /\ call[t].at = "insert" /\ Continues(t, "publish", Got(t))
      /\ UNCHANGED <<pending, shown, cropped, mixed>>
  BY GotoGoes DEF InsertNotification, ntBell
<1>2. Sending(t)' /\ Only(t) /\ Got(t)' = Got(t) /\ call'[t].at = "publish"
  BY <1>1, SenderGoes
<1>3. ~ Asking(t) /\ ~ Asking(t)'
  BY <1>1, <1>2, SendersAskNot DEF Sending, SenderOps, Asking, Bells
<1> SUFFICES ASSUME NEW o, o = Got(t).to
             PROVE  BellInv'
  OBVIOUS
<1>4. o \in Users
  BY <1>1 DEF SenderInv, SenderKnows, Doing
<1>5. /\ inbox' = [u \in Users |-> inbox'[u]] /\ \A u \in Users \ {o} : inbox'[u] = inbox[u]
      /\ inbox'[o] = Append(inbox[o], "unread") /\ \A u \in Users : inbox[u] \in Seq(Marks)
  BY <1>4 DEF InsertNotification, BellInv, Streams
<1>6. /\ inbox'[o] \in Seq(Marks) /\ DOMAIN inbox[o] \subseteq DOMAIN inbox'[o]
      /\ \A n \in DOMAIN inbox[o] : inbox'[o][n] = inbox[o][n]
      /\ \A n \in DOMAIN inbox'[o] \ DOMAIN inbox[o] : inbox'[o][n] = "unread"
  BY <1>4, <1>5 DEF Marks
<1>7. Streams'
  BY <1>1, <1>5, <1>6 DEF BellInv, Streams
<1>8. InboxReadable'
  <2> SUFFICES ASSUME NEW u \in Users \ mixed
               PROVE  Readable(inbox'[u])
    BY <1>1 DEF InboxReadable, Readable
  <2>1. Readable(inbox[u])
    BY DEF BellInv, InboxReadable
  <2>2. CASE u = o
    BY <1>6, <2>1, <2>2 DEF Readable
  <2>3. CASE u # o
    BY <1>5, <2>1, <2>3
  <2> QED
    BY <2>2, <2>3
<1>9. BellAsks(t)'
  BY <1>2, <1>3 DEF BellAsks
<1>10. Publishing(o)'
  BY <1>2 DEF Publishing, On
<1>11. KeepsFaith(o)
  BY <1>1, <1>6, <1>10 DEF KeepsFaith, Rows
<1>12. \A u \in Users \ mixed' : Beside(u, t)
  <2> SUFFICES ASSUME NEW u \in Users \ mixed'
               PROVE  KeepsFaith(u)
    BY <1>1, <1>3 DEF Beside, AskerOf
  <2>1. CASE u # o
    BY <1>1, <1>2, <1>5, <2>1, LeftAlone
  <2> QED
    BY <1>11, <2>1
<1> QED
  BY <1>1, <1>2, <1>7, <1>8, <1>9, <1>12, BellStep

LEMMA PublishBells ==
    ASSUME SenderInv, BellInv, Shaped, NEW t \in Tasks, Publish(t)
    PROVE  BellInv'
<1>1. /\ Sending(t) /\ call[t].at = "publish" /\ Continues(t, AfterRow(Got(t).part), Got(t))
      /\ UNCHANGED <<inbox, shown, cropped, mixed>>
  BY GotoGoes DEF Publish, ntHistory, ntBell
<1>2. Sending(t)' /\ Only(t)
  BY <1>1, SenderGoes
<1>3. ~ Asking(t) /\ ~ Asking(t)'
  BY <1>1, <1>2, SendersAskNot DEF Sending, SenderOps, Asking, Bells
<1> SUFFICES ASSUME NEW o, o = Got(t).to
             PROVE  BellInv'
  OBVIOUS
<1>4. o \in Users
  BY <1>1 DEF SenderInv, SenderKnows, Doing
<1>5. /\ pending' = [u \in Users |-> pending'[u]] /\ \A u \in Users \ {o} : pending'[u] = pending[u]
      /\ pending'[o] = IF Online(o) /\ pending[o] < Capacity THEN pending[o] + 1 ELSE pending[o]
      /\ pending[o] \in Nat \cup {0 - 1} /\ \A u \in Users : pending[u] \in Nat \cup {0 - 1}
  BY <1>4 DEF Publish, BellInv, Streams
<1>6. pending'[o] \in Nat \cup {0 - 1} /\ ~ (pending'[o] >= 0 /\ pending'[o] = 0)
  BY <1>5, NotificationsAssumption DEF Online
<1>7. Streams' /\ InboxReadable'
  BY <1>1, <1>5, <1>6 DEF BellInv, Streams, InboxReadable, Readable
<1>8. BellAsks(t)'
  BY <1>2, <1>3 DEF BellAsks
<1>9. KeepsFaith(o)
  BY <1>1, <1>6 DEF KeepsFaith, Rows, Online
<1>10. \A u \in Users \ mixed' : Beside(u, t)
  <2> SUFFICES ASSUME NEW u \in Users \ mixed'
               PROVE  KeepsFaith(u)
    BY <1>1, <1>3 DEF Beside, AskerOf
  <2>1. CASE u # o
    BY <1>1, <1>2, <1>5, <2>1, LeftAlone
  <2> QED
    BY <1>9, <2>1
<1> QED
  BY <1>1, <1>2, <1>7, <1>8, <1>10, BellStep

\* Whose request or announcement is lost is told apart.
LEMMA DropBells ==
    ASSUME BellInv, Shaped, NEW t \in Tasks, DropNt(t)
    PROVE  BellInv'
<1>1. Only(t) /\ ~ Asking(t)' /\ call'[t].at = "none"
  BY CeasesIs DEF DropNt
<1>2. /\ UNCHANGED <<inbox, pending, shown, cropped>> /\ mixed \subseteq mixed'
      /\ Asking(t) => Arg(t).user \in mixed'
      /\ ~ Asking(t) /\ call[t].at = "publish" => Got(t).to \in mixed'
  BY DEF DropNt, ntTables
<1>3. Asking(t) => call[t].at # "publish"
  BY SendersAskNot DEF BellInv, BellAsks
<1>4. Streams' /\ InboxReadable'
  BY <1>2 DEF BellInv, Streams, InboxReadable, Readable
<1>5. BellAsks(t)'
  BY <1>1 DEF BellAsks
<1>6. \A u \in Users \ mixed' : Beside(u, t)
  <2> SUFFICES ASSUME NEW u \in Users \ mixed'
               PROVE  Beside(u, t)
    OBVIOUS
  <2>1. ~ AskerOf(u, t) /\ ~ AskerOf(u, t)' /\ (call[t].at # "publish" \/ Got(t).to # u)
    BY <1>1, <1>2, <1>3 DEF AskerOf
  <2>2. KeepsFaith(u)
    BY <1>1, <1>2, <2>1, LeftAlone
  <2> QED
    BY <1>2, <2>1, <2>2 DEF Beside
<1> QED
  BY <1>1, <1>2, <1>4, <1>5, <1>6, BellStep

\* No task takes a step.
LEMMA StreamsBell ==
    ASSUME BellInv, Subscribe \/ Disconnect
    PROVE  BellInv'
<1>1. /\ UNCHANGED <<inbox, shown, cropped, mixed, call>>
      /\ \E u \in Users, p \in {1, 0 - 1} : pending' = [pending EXCEPT ![u] = p]
  BY DEF Subscribe, Disconnect, ntHistory, ntBell, tasking
<1>2. PICK o \in Users, p \in {1, 0 - 1} : pending' = [pending EXCEPT ![o] = p]
  BY <1>1
<1>3. /\ pending' = [u \in Users |-> pending'[u]] /\ \A u \in Users \ {o} : pending'[u] = pending[u]
      /\ pending'[o] = p
  BY <1>2 DEF BellInv, Streams
<1>4. Streams' /\ InboxReadable'
  BY <1>1, <1>3 DEF BellInv, Streams, InboxReadable, Readable
<1>5. \A u : (Publishing(u)' <=> Publishing(u)) /\ Rows(u)' = Rows(u)
  BY <1>1 DEF Publishing, On, Got, Rows
<1>6. \A u \in Users : KeepsFaith(u)
  BY <1>1, <1>3, <1>5 DEF KeepsFaith, Online
<1>7. \A t \in Tasks : (Asking(t)' <=> Asking(t)) /\ Arg(t)' = Arg(t) /\ call'[t] = call[t] /\ BellAsks(t)'
  BY <1>1 DEF Asking, Arg, BellAsks, BellInv, Sending
<1>8. \A t \in Tasks : BellKnows(t)'
  <2> SUFFICES ASSUME NEW t \in Tasks, Asking(t), Arg(t).user \notin mixed
               PROVE  BellKnows(t)'
    BY <1>1, <1>7 DEF BellKnows
  <2>1. PICK u \in Users : u = Arg(t).user
    BY DEF BellInv, BellAsks
  <2>2. BellKnows(t) /\ KeepsFaith(u) /\ shown'[u] = shown[u]
    BY <1>1, <1>6 DEF BellInv
  <2> QED
    BY <1>7, <2>1, <2>2, KnowsStays
<1>9. RestingFaithful'
  <2> SUFFICES ASSUME NEW u \in Users \ mixed, \A t \in Tasks : ~ AskerOf(u, t)
               PROVE  Faithful(u, shown[u])'
    BY <1>1, <1>7 DEF RestingFaithful, AskerOf
  <2> SUFFICES ASSUME NEW s, s = shown[u]
               PROVE  Faithful(u, s)'
    BY <1>1
  <2> QED
    BY <1>6, FaithfulStays DEF BellInv, RestingFaithful
<1>10. OneAsker'
  BY <1>1, <1>7 DEF BellInv, OneAsker
<1> QED
  BY <1>4, <1>7, <1>8, <1>9, <1>10 DEF BellInv

-----------------------------------------------------------------------------
\* A request begins.
LEMMA BellBegins ==
    ASSUME BellInv, Shaped, NEW t \in Tasks, NEW o \in Users, NEW op \in Bells, NEW n,
           NEW at \in BellPlaces(op), Requests(t, op, at, o, n),
           Streams', UNCHANGED <<inbox, shown, cropped>>, \A u \in Users \ {o} : pending'[u] = pending[u],
           o \notin mixed /\ Faithful(o, shown[o]) => BellKnows(t)'
    PROVE  BellInv'
<1>1. BeginWith(t, op, at, [user |-> o, row |-> n], <<>>)
  BY DEF Requests, Begin
<1>2. /\ Only(t) /\ call[t].op = "none" /\ call'[t].op = op /\ call'[t].at = at
      /\ call'[t].arg = [user |-> o, row |-> n]
  BY <1>1, BegunIs
<1>3. ~ Asking(t) /\ call[t].at # "publish"
  BY <1>2 DEF Asking, Bells, BellInv, BellAsks, Sending, SenderOps
<1>4. mixed \subseteq mixed' /\ ((\E v \in Tasks \ {t} : AskerOf(o, v)) => o \in mixed')
  BY DEF Requests, AskerOf, Others, Running, Asking, Bells
<1>5. Asking(t)' /\ Arg(t)'.user = o
  BY <1>2 DEF Asking, Arg
<1>6. at # "publish"
  BY DEF BellPlaces
<1>7. BellAsks(t)'
  BY <1>2, <1>5, <1>6 DEF BellAsks
<1>8. InboxReadable'
  BY <1>4 DEF BellInv, InboxReadable, Readable
<1>9. \A u \in Users \ mixed' : Beside(u, t) \/ OwnBell(u, t)
  <2> SUFFICES ASSUME NEW u \in Users \ mixed'
               PROVE  Beside(u, t) \/ OwnBell(u, t)
    OBVIOUS
  <2>1. CASE u # o
    <3>1. KeepsFaith(u)
      BY <1>2, <1>3, <2>1, LeftAlone
    <3> QED
      BY <1>3, <1>5, <2>1, <3>1 DEF Beside, AskerOf
  <2>2. CASE u = o
    <3>1. \A v \in Tasks : ~ AskerOf(o, v)
      BY <1>3, <1>4, <2>2 DEF AskerOf
    <3>2. Faithful(o, shown[o]) /\ o \notin mixed
      BY <1>4, <2>2, <3>1 DEF BellInv, RestingFaithful
    <3>3. AskerOf(o, t)'
      BY <1>5 DEF AskerOf
    <3> QED
      BY <2>2, <3>1, <3>2, <3>3 DEF OwnBell
  <2> QED
    BY <2>1, <2>2
<1> QED
  BY <1>2, <1>4, <1>7, <1>8, <1>9, BellStep

LEMMA FetchIs ==
    ASSUME BellInv, Shaped, NEW t \in Tasks, Fetch(t)
    PROVE  BellInv'
<1>1. PICK o \in Users :
        /\ Online(o) /\ pending' = [pending EXCEPT ![o] = IF @ > 0 THEN @ - 1 ELSE @]
        /\ Requests(t, "list", "list", o, 0)
  BY DEF Fetch
<1>2. UNCHANGED <<inbox, shown, cropped>>
  BY DEF Fetch
<1>3. /\ pending' = [u \in Users |-> pending'[u]] /\ \A u \in Users \ {o} : pending'[u] = pending[u]
      /\ pending'[o] = IF pending[o] > 0 THEN pending[o] - 1 ELSE pending[o]
      /\ \A u \in Users : pending[u] \in Nat \cup {0 - 1}
  BY <1>1 DEF BellInv, Streams
<1>4. Streams'
  <2>1. pending'[o] \in Nat \cup {0 - 1}
    BY <1>3
  <2>2. \A u \in Users : pending'[u] \in Nat \cup {0 - 1}
    BY <1>3, <2>1
  <2> QED
    BY <1>2, <1>3, <2>2 DEF BellInv, Streams
<1>5. call'[t].op = "list" /\ call'[t].at = "list"
  BY <1>1, BegunIs DEF Requests, Begin
<1>6. BellKnows(t)'
  BY <1>5 DEF BellKnows
<1>7. "list" \in Bells /\ "list" \in BellPlaces("list")
  BY DEF Bells, BellPlaces
<1> QED
  BY <1>1, <1>2, <1>3, <1>4, <1>6, <1>7, BellBegins

LEMMA ClickIs ==
    ASSUME BellInv, Shaped, NEW t \in Tasks, Click(t)
    PROVE  BellInv'
<1>1. UNCHANGED <<inbox, pending, shown, cropped>>
  BY DEF Click, ntTables
<1>2. PICK o \in Users :
        \/ \E n \in DOMAIN shown[o] : \/ Requests(t, "mark_read", "write", o, n)
                                      \/ Requests(t, "delete", "write", o, n)
        \/ Requests(t, "mark_all_read", "list", o, 0)
        \/ Requests(t, "delete_all", "write", o, 0)
  BY DEF Click
<1>a. PICK op \in {"mark_read", "delete", "mark_all_read", "delete_all"} : \E n :
        /\ Requests(t, op, IF op = "mark_all_read" THEN "list" ELSE "write", o, n)
        /\ op = "mark_read" => n \in DOMAIN shown[o]
  BY <1>2
<1>3. PICK n :
        /\ Requests(t, op, IF op = "mark_all_read" THEN "list" ELSE "write", o, n)
        /\ op = "mark_read" => n \in DOMAIN shown[o]
  BY <1>a
<1> DEFINE at == IF op = "mark_all_read" THEN "list" ELSE "write"
<1>4. op \in Bells /\ at \in BellPlaces(op) /\ at \in {"list", "write"}
      /\ (at = "list" <=> op = "mark_all_read")
  BY DEF Bells, BellPlaces
<1> HIDE DEF at
<1>5. BeginWith(t, op, at, [user |-> o, row |-> n], <<>>)
  BY <1>3 DEF Requests, Begin, at
<1>6. /\ Only(t) /\ call[t].op = "none" /\ call'[t].op = op /\ call'[t].at = at
      /\ call'[t].arg = [user |-> o, row |-> n]
  BY <1>5, BegunIs
<1>7. call[t].at # "publish"
  BY <1>6 DEF BellInv, BellAsks, Sending, SenderOps
<1>8. KeepsFaith(o)
  BY <1>1, <1>6, <1>7, LeftAlone
<1>9. ASSUME o \notin mixed, Faithful(o, shown[o])
      PROVE  BellKnows(t)'
  <2>1. Arg(t)' = [user |-> o, row |-> n] /\ shown'[o] = shown[o]
    BY <1>1, <1>6 DEF Arg
  <2>2. Faithful(o, shown[o])'
    <3> SUFFICES ASSUME NEW s, s = shown[o]
                 PROVE  Faithful(o, s)'
      BY <2>1
    <3> QED
      BY <1>8, <1>9, FaithfulStays
  <2>3. op = "mark_read" => n \in DOMAIN shown'[o]
    BY <1>3, <2>1
  <2>4. Arg(t)'.user = o /\ Arg(t)'.row = n
    BY <2>1
  <2> QED
    BY <1>4, <1>6, <2>2, <2>3, <2>4 DEF BellKnows
<1>10. Streams'
  BY <1>1 DEF BellInv, Streams
<1>11. Requests(t, op, at, o, n)
  BY <1>3 DEF at
<1> QED
  BY <1>1, <1>4, <1>9, <1>10, <1>11, BellBegins

\* A request goes on.
LEMMA BellGoes ==
    ASSUME BellInv, NEW t \in Tasks, Asking(t), NEW o, o = Arg(t).user, NEW at, NEW got, Continues(t, at, got),
           at \in BellPlaces(call[t].op), Streams', UNCHANGED <<pending, shown, mixed>>,
           o \notin mixed => Readable(inbox'[o]),
           \A u \in Users \ {o} : inbox'[u] = inbox[u] /\ (u \in cropped' <=> u \in cropped),
           o \notin mixed => BellKnows(t)'
    PROVE  BellInv'
<1>1. /\ Asking(t)' /\ Arg(t)' = Arg(t) /\ Only(t) /\ call'[t].op = call[t].op /\ call'[t].at = at
  BY DEF Continues, Asking, Arg
<1>2. o \in Users /\ call[t].at # "publish" /\ at # "publish"
  <2>1. BellAsks(t)
    BY DEF BellInv
  <2> QED
    BY <2>1, SendersAskNot DEF BellAsks, BellPlaces
<1>3. BellAsks(t)'
  BY <1>1, <1>2 DEF BellAsks
<1>4. InboxReadable'
  BY DEF BellInv, InboxReadable, Readable
<1>5. \A u \in Users \ mixed' : Beside(u, t) \/ OwnBell(u, t)
  <2> SUFFICES ASSUME NEW u \in Users \ mixed'
               PROVE  Beside(u, t) \/ OwnBell(u, t)
    OBVIOUS
  <2>1. CASE u # o
    <3>1. KeepsFaith(u)
      BY <1>1, <1>2, <2>1, LeftAlone
    <3> QED
      BY <1>1, <2>1, <3>1 DEF Beside, AskerOf
  <2>2. CASE u = o
    <3>1. \A v \in Tasks \ {t} : ~ AskerOf(o, v)
      BY <2>2 DEF BellInv, OneAsker, AskerOf
    <3>2. AskerOf(o, t)'
      BY <1>1 DEF AskerOf
    <3> QED
      BY <2>2, <3>1, <3>2 DEF OwnBell
  <2> QED
    BY <2>1, <2>2
<1> QED
  BY <1>1, <1>3, <1>4, <1>5, BellStep

\* A request is over.
LEMMA BellEnds ==
    ASSUME BellInv, Shaped, NEW t \in Tasks, Asking(t), NEW o, o = Arg(t).user, Finish(t),
           Streams', UNCHANGED <<inbox, pending, cropped>>, mixed \subseteq mixed',
           \A u \in Users \ {o} : shown'[u] = shown[u],
           o \notin mixed' => \E s : Faithful(o, s) /\ shown'[o] = s
    PROVE  BellInv'
<1>1. Only(t) /\ ~ Asking(t)' /\ call'[t].at = "none"
  BY CeasesIs
<1>2. o \in Users /\ call[t].at # "publish"
  <2>1. BellAsks(t)
    BY DEF BellInv
  <2> QED
    BY <2>1, SendersAskNot DEF BellAsks
<1>3. BellAsks(t)' /\ InboxReadable'
  BY <1>1 DEF BellAsks, BellInv, InboxReadable, Readable
<1>4. \A u \in Users : KeepsFaith(u)
  BY <1>1, <1>2, LeftAlone
<1>5. \A u \in Users \ mixed' : Beside(u, t) \/ OwnBell(u, t)
  <2> SUFFICES ASSUME NEW u \in Users \ mixed'
               PROVE  Beside(u, t) \/ OwnBell(u, t)
    OBVIOUS
  <2>1. CASE u # o
    BY <1>1, <1>4, <2>1 DEF Beside, AskerOf
  <2>2. CASE u = o
    <3>1. \A v \in Tasks \ {t} : ~ AskerOf(o, v)
      BY <2>2 DEF BellInv, OneAsker, AskerOf
    <3>2. ~ AskerOf(o, t)'
      BY <1>1 DEF AskerOf
    <3>3. PICK s : Faithful(o, s) /\ shown'[o] = s
      BY <2>2
    <3>4. Faithful(o, s)'
      BY <1>2, <1>4, <3>3, FaithfulStays
    <3>5. Faithful(o, shown[o])'
      BY <3>3, <3>4
    <3> QED
      BY <2>2, <3>1, <3>2, <3>5 DEF OwnBell
  <2> QED
    BY <2>1, <2>2
<1> QED
  BY <1>1, <1>3, <1>5, BellStep

-----------------------------------------------------------------------------
\* The steps of a request.

\* A readable row that is there is marked; nothing else changes.
LEMMA MarkIs ==
    ASSUME Streams, NEW o \in Users, NEW n, Mark(o, n)
    PROVE  /\ inbox' = [u \in Users |-> inbox'[u]] /\ \A u \in Users : inbox'[u] \in Seq(Marks)
           /\ \A u \in Users \ {o} : inbox'[u] = inbox[u]
           /\ DOMAIN inbox'[o] = DOMAIN inbox[o]
           /\ \A m \in DOMAIN inbox[o] : m # n => inbox'[o][m] = inbox[o][m]
           /\ n \in Rows(o) /\ Readable(inbox[o]) => inbox'[o][n] = "read"
<1> DEFINE one == [inbox[o] EXCEPT ![n] = IF @ = "none" THEN "ghost" ELSE IF @ = "ghost" THEN @ ELSE "read"]
<1>1. inbox' = [inbox EXCEPT ![o] = one]
  BY DEF Mark
<1>2. inbox[o] \in Seq(Marks) /\ inbox = [u \in Users |-> inbox[u]] /\ \A u \in Users : inbox[u] \in Seq(Marks)
  BY DEF Streams
<1>3. /\ DOMAIN one = DOMAIN inbox[o] /\ \A m \in DOMAIN inbox[o] : m # n => one[m] = inbox[o][m]
      /\ n \in DOMAIN inbox[o] => one[n] = IF inbox[o][n] = "none" THEN "ghost"
                                         ELSE IF inbox[o][n] = "ghost" THEN "ghost" ELSE "read"
  OBVIOUS
<1>4. one \in Seq(Marks)
  <2>1. PICK k \in Nat : inbox[o] \in [1..k -> Marks]
    BY <1>2
  <2>2. \A m \in 1..k : one[m] \in Marks
    BY <1>3, <2>1 DEF Marks
  <2>3. one = [m \in 1..k |-> one[m]]
    BY <2>1
  <2>4. one \in [1..k -> Marks]
    BY <2>2, <2>3
  <2> QED
    BY <2>1, <2>4 DEF one
<1> HIDE DEF one
<1>5. inbox'[o] = one /\ \A u \in Users \ {o} : inbox'[u] = inbox[u]
  BY <1>1, <1>2
<1>6. n \in Rows(o) /\ Readable(inbox[o]) => one[n] = "read"
  BY <1>3 DEF Rows, Readable
<1>7. inbox' = [u \in Users |-> inbox'[u]]
  BY <1>1, <1>2
<1> QED
  BY <1>2, <1>3, <1>4, <1>5, <1>6, <1>7

LEMMA MarkReadIs ==
    ASSUME BellInv, Shaped, NEW t \in Tasks, MarkRead(t)
    PROVE  BellInv'
<1>1. /\ call[t].op = "mark_read" /\ call[t].at = "write" /\ Continues(t, "answer", Got(t))
      /\ UNCHANGED <<pending, shown, cropped, mixed>>
  BY GotoGoes DEF MarkRead, On, ntHistory, ntBell
<1> SUFFICES ASSUME NEW o, o = Arg(t).user, NEW n, n = Arg(t).row
             PROVE  BellInv'
  OBVIOUS
<1>2. Mark(o, n)
  BY DEF MarkRead
<1>3. Asking(t) /\ "answer" \in BellPlaces(call[t].op)
  BY <1>1 DEF Asking, Bells, BellPlaces
<1>4. o \in Users /\ Streams
  BY <1>3 DEF BellInv, BellAsks
<1>5. /\ inbox' = [u \in Users |-> inbox'[u]] /\ \A u \in Users : inbox'[u] \in Seq(Marks)
      /\ \A u \in Users \ {o} : inbox'[u] = inbox[u]
      /\ DOMAIN inbox'[o] = DOMAIN inbox[o]
      /\ \A m \in DOMAIN inbox[o] : m # n => inbox'[o][m] = inbox[o][m]
      /\ n \in Rows(o) /\ Readable(inbox[o]) => inbox'[o][n] = "read"
  BY <1>2, <1>4, MarkIs
<1>6. Streams'
  BY <1>1, <1>4, <1>5 DEF Streams
<1>7. ASSUME o \notin mixed
      PROVE  Readable(inbox'[o]) /\ BellKnows(t)'
  <2>1. Faithful(o, shown[o]) /\ n \in DOMAIN shown[o] /\ Readable(inbox[o])
    BY <1>1, <1>3, <1>4, <1>7 DEF BellInv, BellKnows, InboxReadable
  <2>2. n \in Rows(o)
    BY <2>1 DEF Faithful, SoFar
  <2>3. inbox'[o][n] = "read" /\ Readable(inbox'[o])
    BY <1>5, <2>1, <2>2 DEF Readable
  <2>4. Rows(o)' = Rows(o)
    BY <1>5, <2>2, <2>3 DEF Rows
  <2> SUFFICES ASSUME NEW s, s = Coming(t)'
               PROVE  Readable(inbox'[o]) /\ BellKnows(t)'
    OBVIOUS
  <2>5. /\ call'[t].op = "mark_read" /\ call'[t].at = "answer" /\ Arg(t)' = Arg(t) /\ shown' = shown
    BY <1>1 DEF Continues, Arg
  <2>6. s = [m \in DOMAIN shown[o] |-> IF m = n THEN "read" ELSE shown[o][m]]
    BY <2>5 DEF Coming
  <2>7. SoFar(o, s)'
    <3>1. /\ DOMAIN shown[o] \subseteq Rows(o)
          /\ o \notin cropped => \A m \in DOMAIN shown[o] : shown[o][m] = inbox[o][m]
      BY <2>1 DEF Faithful, SoFar
    <3>2. DOMAIN s = DOMAIN shown[o] /\ \A m \in DOMAIN s : s[m] = IF m = n THEN "read" ELSE shown[o][m]
      BY <2>6
    <3>3. s = [m \in DOMAIN s |-> s[m]]
      BY <2>6
    <3>4. Rows(o) \subseteq DOMAIN inbox[o]
      BY DEF Rows
    <3>5. o \notin cropped => \A m \in DOMAIN s : s[m] = inbox'[o][m]
      BY <1>5, <2>3, <3>1, <3>2, <3>4
    <3> QED
      BY <1>1, <2>4, <3>1, <3>2, <3>3, <3>5 DEF SoFar
  <2>8. Complete(o, s)'
    <3>1. DOMAIN s = DOMAIN shown[o]
      BY <2>6
    <3>2. Complete(o, shown[o])
      BY <2>1 DEF Faithful
    <3>3. Publishing(o) => Publishing(o)'
      BY <1>1, PublishingStays DEF Continues
    <3> QED
      BY <1>1, <2>4, <3>1, <3>2, <3>3 DEF Complete, Online
  <2>9. Faithful(o, s)'
    BY <2>7, <2>8 DEF Faithful
  <2>10. BellKnows(t)'
    BY <2>5, <2>9 DEF BellKnows
  <2> QED
    BY <2>3, <2>10
<1> QED
  BY <1>1, <1>3, <1>5, <1>6, <1>7, BellGoes

LEMMA MarkNextIs ==
    ASSUME BellInv, Shaped, NEW t \in Tasks, MarkNext(t)
    PROVE  BellInv'
<1>1. /\ call[t].op = "mark_all_read" /\ call[t].at = "mark"
      /\ UNCHANGED <<pending, shown, cropped, mixed>>
  BY DEF MarkNext, On, ntHistory, ntBell
<1> SUFFICES ASSUME NEW o, o = Arg(t).user, NEW todo, todo = Got(t)
             PROVE  BellInv'
  OBVIOUS
<1>2. Asking(t) /\ "answer" \in BellPlaces(call[t].op) /\ "mark" \in BellPlaces(call[t].op)
  BY <1>1 DEF Asking, Bells, BellPlaces
<1>3. o \in Users /\ Streams
  BY <1>2 DEF BellInv, BellAsks
<1>4. o \notin mixed =>
        /\ Readable(inbox[o]) /\ todo \subseteq Rows(o) /\ DOMAIN shown[o] \subseteq Rows(o)
        /\ o \notin cropped => \A n \in DOMAIN shown[o] : n \in todo \/ inbox[o][n] = "read"
        /\ Complete(o, shown[o])
  BY <1>1, <1>2, <1>3 DEF BellInv, BellKnows, InboxReadable
<1>5. CASE todo = {} /\ Goto(t, "answer") /\ UNCHANGED inbox
  <2>1. Continues(t, "answer", todo)
    BY <1>5, GotoGoes
  <2>2. Streams'
    BY <1>1, <1>3, <1>5 DEF Streams
  <2>3. ASSUME o \notin mixed
        PROVE  BellKnows(t)'
    <3> SUFFICES ASSUME NEW s, s = Coming(t)'
                 PROVE  BellKnows(t)'
      OBVIOUS
    <3>1. /\ call'[t].op = "mark_all_read" /\ call'[t].at = "answer" /\ Arg(t)' = Arg(t) /\ shown' = shown
      BY <1>1, <2>1 DEF Continues, Arg
    <3>2. s = [m \in DOMAIN shown[o] |-> "read"]
      BY <3>1 DEF Coming
    <3>3. DOMAIN s = DOMAIN shown[o] /\ s = [m \in DOMAIN s |-> s[m]] /\ \A m \in DOMAIN s : s[m] = "read"
      BY <3>2
    <3>4. KeepsFaith(o)
      BY <1>1, <1>5, <2>1, LeftAlone DEF Continues
    <3>5. SoFar(o, s)
      BY <1>4, <1>5, <2>3, <3>3 DEF SoFar
    <3>6. Complete(o, s)
      BY <1>4, <2>3, <3>3 DEF Complete
    <3>7. Faithful(o, s)'
      BY <3>4, <3>5, <3>6, FaithfulStays DEF Faithful
    <3> QED
      BY <3>1, <3>7 DEF BellKnows
  <2> QED
    BY <1>1, <1>2, <1>4, <1>5, <2>1, <2>2, <2>3, BellGoes
<1>6. ASSUME NEW n \in todo, Mark(o, n), Learn(t, "mark", todo \ {n})
      PROVE  BellInv'
  <2>1. Continues(t, "mark", todo \ {n})
    BY <1>6, LearnGoes
  <2>2. /\ inbox' = [u \in Users |-> inbox'[u]] /\ \A u \in Users : inbox'[u] \in Seq(Marks)
        /\ \A u \in Users \ {o} : inbox'[u] = inbox[u]
        /\ DOMAIN inbox'[o] = DOMAIN inbox[o]
        /\ \A m \in DOMAIN inbox[o] : m # n => inbox'[o][m] = inbox[o][m]
        /\ n \in Rows(o) /\ Readable(inbox[o]) => inbox'[o][n] = "read"
    BY <1>3, <1>6, MarkIs
  <2>3. Streams'
    BY <1>1, <1>3, <2>2 DEF Streams
  <2>4. ASSUME o \notin mixed
        PROVE  Readable(inbox'[o]) /\ BellKnows(t)'
    <3>1. n \in Rows(o) /\ Readable(inbox[o])
      BY <1>4, <1>6, <2>4
    <3>2. inbox'[o][n] = "read" /\ Readable(inbox'[o])
      BY <2>2, <3>1 DEF Readable
    <3>3. Rows(o)' = Rows(o)
      BY <2>2, <3>1, <3>2 DEF Rows
    <3>4. /\ Asking(t)' /\ call'[t].op = "mark_all_read" /\ call'[t].at = "mark" /\ Arg(t)' = Arg(t)
          /\ shown' = shown /\ Got(t)' = todo \ {n}
      BY <1>1, <1>2, <2>1 DEF Continues, Arg, Got, Asking
    <3>5. Publishing(o) => Publishing(o)'
      BY <1>1, <2>1, PublishingStays DEF Continues
    <3>6. Complete(o, shown[o])'
      <4> SUFFICES ASSUME NEW s, s = shown[o]
                   PROVE  Complete(o, s)'
        BY <3>4
      <4>1. Complete(o, s)
        BY <1>4, <2>4
      <4> QED
        BY <1>1, <3>3, <3>5, <4>1 DEF Complete, Online
    <3>7. o \notin cropped => \A m \in DOMAIN shown[o] : m \in todo \ {n} \/ inbox'[o][m] = "read"
      <4> SUFFICES ASSUME o \notin cropped, NEW m \in DOMAIN shown[o]
                   PROVE  m \in todo \ {n} \/ inbox'[o][m] = "read"
        OBVIOUS
      <4>1. m \in DOMAIN inbox[o] /\ (m \in todo \/ inbox[o][m] = "read")
        BY <1>4, <2>4 DEF Rows
      <4> QED
        BY <2>2, <3>2, <4>1
    <3>8. todo \ {n} \subseteq Rows(o)' /\ DOMAIN shown[o] \subseteq Rows(o)'
      BY <1>4, <2>4, <3>3
    <3> QED
      BY <1>1, <3>2, <3>4, <3>6, <3>7, <3>8 DEF BellKnows
  <2> QED
    BY <1>1, <1>2, <2>1, <2>2, <2>3, <2>4, BellGoes
<1> QED
  BY <1>5, <1>6 DEF MarkNext

\* What is deleted is not there, and nothing else changes.
LEMMA DeleteIs ==
    ASSUME BellInv, Shaped, NEW t \in Tasks, Delete(t)
    PROVE  BellInv'
<1>1. /\ call[t].op \in {"delete", "delete_all"} /\ call[t].at = "write" /\ Continues(t, "answer", Got(t))
      /\ UNCHANGED <<pending, shown, cropped, mixed>>
  BY GotoGoes DEF Delete, On, ntHistory, ntBell
<1> SUFFICES ASSUME NEW o, o = Arg(t).user, NEW k, k = Arg(t).row, NEW op, op = call[t].op
             PROVE  BellInv'
  OBVIOUS
<1>2. Asking(t) /\ "answer" \in BellPlaces(call[t].op)
  BY <1>1 DEF Asking, Bells, BellPlaces
<1>3. o \in Users /\ Streams
  BY <1>2 DEF BellInv, BellAsks
<1> DEFINE left == [n \in DOMAIN inbox[o] |-> IF op = "delete_all" \/ n = k THEN "none" ELSE inbox[o][n]]
<1>4. inbox' = [inbox EXCEPT ![o] = left]
  BY DEF Delete
<1>5. /\ DOMAIN left = DOMAIN inbox[o]
      /\ \A n \in DOMAIN left : left[n] = IF op = "delete_all" \/ n = k THEN "none" ELSE inbox[o][n]
  OBVIOUS
<1>6. left \in Seq(Marks)
  <2> inbox[o] \in Seq(Marks)
    BY <1>3 DEF Streams
  <2>1. PICK j \in Nat : inbox[o] \in [1..j -> Marks]
    OBVIOUS
  <2>2. \A n \in 1..j : left[n] \in Marks
    BY <1>5, <2>1 DEF Marks
  <2>3. left = [n \in 1..j |-> left[n]]
    BY <2>1
  <2>4. left \in [1..j -> Marks]
    BY <2>2, <2>3
  <2> QED
    BY <2>1, <2>4 DEF left
<1> HIDE DEF left
<1>7. /\ inbox' = [u \in Users |-> inbox'[u]] /\ \A u \in Users \ {o} : inbox'[u] = inbox[u]
      /\ inbox'[o] = left
  BY <1>3, <1>4 DEF Streams
<1>8. Streams'
  BY <1>1, <1>3, <1>6, <1>7 DEF Streams
<1>9. ASSUME o \notin mixed
      PROVE  Readable(inbox'[o]) /\ BellKnows(t)'
  <2>1. Faithful(o, shown[o]) /\ Readable(inbox[o])
    BY <1>1, <1>2, <1>3, <1>9 DEF BellInv, BellKnows, InboxReadable
  <2>2. Readable(inbox'[o])
    BY <1>5, <1>7, <2>1 DEF Readable
  <2>3. Rows(o)' = IF op = "delete_all" THEN {} ELSE Rows(o) \ {k}
    BY <1>5, <1>7 DEF Rows
  <2> SUFFICES ASSUME NEW s, s = Coming(t)'
               PROVE  BellKnows(t)'
    BY <2>2
  <2>4. /\ call'[t].op = op /\ call'[t].at = "answer" /\ Arg(t)' = Arg(t) /\ shown' = shown
    BY <1>1 DEF Continues, Arg
  <2>5. /\ op = "delete" => s = [m \in DOMAIN shown[o] \ {k} |-> shown[o][m]]
        /\ op = "delete_all" => s = Nothing
    BY <2>4 DEF Coming
  <2>6. /\ s = [m \in DOMAIN s |-> s[m]] /\ DOMAIN s = (IF op = "delete_all" THEN {} ELSE DOMAIN shown[o] \ {k})
        /\ \A m \in DOMAIN s : s[m] = shown[o][m]
    <3>1. DOMAIN Nothing = {} /\ Nothing = [m \in DOMAIN Nothing |-> Nothing[m]]
      BY DEF Nothing
    <3>2. CASE op = "delete_all"
      BY <2>5, <3>1, <3>2
    <3>3. CASE op = "delete"
      BY <2>5, <3>3
    <3> QED
      BY <1>1, <3>2, <3>3
  <2>7. SoFar(o, s)'
    <3>1. /\ DOMAIN shown[o] \subseteq Rows(o)
          /\ o \notin cropped => \A m \in DOMAIN shown[o] : shown[o][m] = inbox[o][m]
      BY <2>1 DEF Faithful, SoFar
    <3>2. Rows(o) \subseteq DOMAIN inbox[o]
      BY DEF Rows
    <3>3. o \notin cropped => \A m \in DOMAIN s : s[m] = inbox'[o][m]
      BY <1>5, <1>7, <2>6, <3>1, <3>2
    <3>4. DOMAIN s \subseteq Rows(o)'
      BY <2>3, <2>6, <3>1
    <3> QED
      BY <1>1, <2>6, <3>3, <3>4 DEF SoFar
  <2>8. Complete(o, s)'
    <3>1. Complete(o, shown[o])
      BY <2>1 DEF Faithful
    <3>2. Publishing(o) => Publishing(o)'
      BY <1>1, PublishingStays DEF Continues
    <3> QED
      BY <1>1, <2>3, <2>6, <3>1, <3>2 DEF Complete, Online
  <2>9. Faithful(o, s)'
    BY <2>7, <2>8 DEF Faithful
  <2> QED
    BY <1>1, <2>4, <2>9 DEF BellKnows
<1> QED
  BY <1>1, <1>2, <1>7, <1>8, <1>9, BellGoes

LEMMA ListInboxIs ==
    ASSUME BellInv, Shaped, NEW t \in Tasks, ListInbox(t)
    PROVE  BellInv'
<1>1. /\ call[t].op \in {"list", "mark_all_read"} /\ call[t].at = "list"
      /\ UNCHANGED <<inbox, pending, shown>>
  BY DEF ListInbox, On, ntTables
<1> SUFFICES ASSUME NEW o, o = Arg(t).user, NEW op, op = call[t].op
             PROVE  BellInv'
  OBVIOUS
<1>2. Asking(t) /\ (op = "list" => "answer" \in BellPlaces(op)) /\ (op = "mark_all_read" => "mark" \in BellPlaces(op))
  BY <1>1 DEF Asking, Bells, BellPlaces
<1>3. o \in Users /\ Streams /\ Streams' /\ (o \notin mixed => Readable(inbox[o]))
  BY <1>1, <1>2 DEF BellInv, BellAsks, Streams, InboxReadable
<1>4. PICK list \in Lists(o) :
        IF ~Readable(list) THEN Finish(t) /\ mixed' = mixed \cup {o} /\ UNCHANGED cropped
        ELSE /\ UNCHANGED mixed
             /\ cropped' = IF DOMAIN list # Rows(o) THEN cropped \cup {o}
                           ELSE IF op = "list" THEN cropped \ {o} ELSE cropped
             /\ IF op = "list" THEN Learn(t, "answer", list)
                ELSE Learn(t, "mark", {n \in DOMAIN list : list[n] = "unread"})
  BY DEF ListInbox
<1>5. PICK S \in SUBSET Rows(o) : list = [n \in S |-> inbox[o][n]]
  BY DEF Lists
<1>6. DOMAIN list = S /\ \A n \in S : list[n] = inbox[o][n]
  BY <1>5
<1>7. CASE ~ Readable(list)
  BY <1>1, <1>2, <1>3, <1>4, <1>7, BellEnds
<1>8. CASE Readable(list) /\ op = "list"
  <2>1. Continues(t, "answer", list)
    BY <1>4, <1>8, LearnGoes
  <2>2. \A u \in Users \ {o} : u \in cropped' <=> u \in cropped
    BY <1>4, <1>8
  <2>3. BellKnows(t)'
    <3> SUFFICES ASSUME NEW s, s = Coming(t)'
                 PROVE  BellKnows(t)'
      OBVIOUS
    <3>1. /\ call'[t].op = "list" /\ call'[t].at = "answer" /\ Arg(t)' = Arg(t) /\ Got(t)' = list
      BY <1>8, <2>1 DEF Continues, Arg, Got
    <3>2. s = list
      BY <3>1 DEF Coming
    <3>3. SoFar(o, s)'
      <4>1. Rows(o)' = Rows(o) /\ s = [n \in DOMAIN s |-> s[n]]
        BY <1>1, <1>5, <3>2 DEF Rows
      <4>2. \A n \in DOMAIN s : s[n] = inbox'[o][n]
        BY <1>1, <1>6, <3>2
      <4> QED
        BY <1>6, <3>2, <4>1, <4>2 DEF SoFar
    <3>4. Complete(o, s)'
      <4>1. Rows(o)' = Rows(o) /\ (o \notin cropped' => DOMAIN s = Rows(o))
        BY <1>1, <1>4, <1>8, <3>2 DEF Rows
      <4> QED
        BY <4>1 DEF Complete
    <3>5. Faithful(o, s)'
      BY <3>3, <3>4 DEF Faithful
    <3> QED
      BY <3>1, <3>5 DEF BellKnows
  <2> QED
    BY <1>1, <1>2, <1>3, <1>4, <1>8, <2>1, <2>2, <2>3, BellGoes
<1>9. CASE Readable(list) /\ op = "mark_all_read"
  <2> DEFINE todo == {n \in DOMAIN list : list[n] = "unread"}
  <2>1. Continues(t, "mark", todo)
    BY <1>4, <1>9, LearnGoes
  <2>2. todo \subseteq Rows(o) /\ \A n \in S : n \in todo \/ inbox[o][n] # "unread"
    BY <1>6
  <2> HIDE DEF todo
  <2>3. \A u \in Users \ {o} : u \in cropped' <=> u \in cropped
    BY <1>4, <1>9
  <2>4. cropped \subseteq cropped' /\ (o \notin cropped' => S = Rows(o))
    BY <1>4, <1>6, <1>9
  <2>5. ASSUME o \notin mixed
        PROVE  BellKnows(t)'
    <3>1. Faithful(o, shown[o])
      BY <1>1, <1>2, <1>9, <2>5 DEF BellInv, BellKnows
    <3>2. DOMAIN shown[o] \subseteq Rows(o) /\ Complete(o, shown[o])
      BY <3>1 DEF Faithful, SoFar
    <3>3. \A n \in Rows(o) : inbox[o][n] \in {"unread", "read"}
      <4> SUFFICES ASSUME NEW n \in Rows(o)
                   PROVE  inbox[o][n] \in {"unread", "read"}
        OBVIOUS
      <4>1. n \in DOMAIN inbox[o] /\ inbox[o][n] \notin {"none", "ghost"}
        BY <1>3, <2>5 DEF Rows, Readable
      <4>2. inbox[o] \in Seq(Marks)
        BY <1>3 DEF Streams
      <4>3. inbox[o][n] \in Marks
        BY <4>1, <4>2
      <4> QED
        BY <4>1, <4>3 DEF Marks
    <3>4. o \notin cropped' => \A n \in DOMAIN shown[o] : n \in todo \/ inbox[o][n] = "read"
      BY <2>2, <2>4, <3>2, <3>3
    <3>5. /\ Rows(o)' = Rows(o) /\ inbox' = inbox /\ shown' = shown
      BY <1>1 DEF Rows
    <3>6. /\ call'[t].op = "mark_all_read" /\ call'[t].at = "mark" /\ Arg(t)' = Arg(t) /\ Got(t)' = todo
      BY <1>9, <2>1 DEF Continues, Arg, Got
    <3>7. Complete(o, shown[o])'
      <4> SUFFICES ASSUME NEW s, s = shown[o]
                   PROVE  Complete(o, s)'
        BY <3>5
      <4>1. Publishing(o) => Publishing(o)'
        BY <1>1, <2>1, PublishingStays DEF Continues
      <4>2. Complete(o, s)
        BY <3>2
      <4> QED
        BY <1>1, <2>4, <3>5, <4>1, <4>2 DEF Complete, Online
    <3>8. /\ todo \subseteq Rows(o)' /\ DOMAIN shown'[o] \subseteq Rows(o)'
          /\ o \notin cropped' => \A n \in DOMAIN shown'[o] : n \in todo \/ inbox'[o][n] = "read"
      BY <2>2, <3>2, <3>4, <3>5
    <3> QED
      BY <3>6, <3>7, <3>8 DEF BellKnows
  <2> QED
    BY <1>1, <1>2, <1>3, <1>4, <1>9, <2>1, <2>3, <2>5, BellGoes
<1> QED
  BY <1>1, <1>7, <1>8, <1>9

LEMMA AnswerIs ==
    ASSUME BellInv, Shaped, NEW t \in Tasks, Answer(t)
    PROVE  BellInv'
<1>1. Asking(t) /\ call[t].at = "answer" /\ Finish(t) /\ UNCHANGED <<inbox, pending, cropped, mixed>>
  BY DEF Answer, ntHistory, ntBell
<1> SUFFICES ASSUME NEW o, o = Arg(t).user
             PROVE  BellInv'
  OBVIOUS
<1>2. o \in Users /\ Streams
  BY <1>1 DEF BellInv, BellAsks
<1>3. shown' = [shown EXCEPT ![o] = Coming(t)]
  BY DEF Answer, Coming
<1>4. shown' = [u \in Users |-> shown'[u]] /\ (\A u \in Users \ {o} : shown'[u] = shown[u]) /\ shown'[o] = Coming(t)
  BY <1>2, <1>3 DEF Streams
<1>5. Streams'
  BY <1>1, <1>2, <1>4 DEF Streams
<1>6. o \notin mixed => Faithful(o, Coming(t))
  BY <1>1 DEF BellInv, BellKnows
<1> QED
  BY <1>1, <1>4, <1>5, <1>6, BellEnds

-----------------------------------------------------------------------------
\* Every call keeps its parts.
LEMMA NtShaped ==
    ASSUME Shaped, NotificationsNext
    PROVE  Shaped'
<1>1. CASE Subscribe \/ Disconnect
  <2>1. call' = call
    BY <1>1 DEF Subscribe, Disconnect, tasking
  <2> QED
    BY <2>1 DEF Shaped
<1>2. ASSUME NEW t \in Tasks, (\E at : Goto(t, at) \/ \E got : Learn(t, at, got)) \/ Finish(t) \/ Drop(t)
      PROVE  Shaped'
  BY <1>2, Moves, Leaves
<1>3. ASSUME NEW t \in Tasks, \E op, at, arg, got : BeginWith(t, op, at, arg, got)
      PROVE  Shaped'
  BY <1>3, BegunIs
<1>4. ASSUME NEW t \in Tasks, \/ ReadOwner(t) \/ Resolve(t) \/ NextRecipient(t) \/ ListGuests(t)
                              \/ ReadWish(t) \/ InsertNotification(t) \/ Publish(t) \/ AskOnline(t) \/ Mail(t)
      PROVE  Shaped'
  BY <1>2, <1>4 DEF ReadOwner, Resolve, NextRecipient, ListGuests, ReadWish, InsertNotification, Publish,
                    AskOnline, Mail
<1>5. ASSUME NEW t \in Tasks, \/ ListInbox(t) \/ MarkRead(t) \/ MarkNext(t) \/ Delete(t) \/ Answer(t) \/ DropNt(t)
      PROVE  Shaped'
  BY <1>2, <1>5 DEF ListInbox, MarkRead, MarkNext, Delete, Answer, DropNt
<1>6. ASSUME NEW t \in Tasks, SenderCalls(t) \/ Mentions(t) \/ Fetch(t) \/ Click(t)
      PROVE  Shaped'
  BY <1>3, <1>6 DEF SenderCalls, Mentions, Fetch, Click, Requests, Begin
<1>7. ASSUME NEW t \in Tasks, ResolveFails(t) \/ ReadWishFails(t) \/ InsertFails(t) \/ MailFails(t)
      PROVE  Shaped'
  BY <1>7, EntryMoves, EntryLearns DEF ResolveFails, ReadWishFails, InsertFails, MailFails, Continues
<1> QED
  BY <1>1, <1>4, <1>5, <1>6, <1>7 DEF NotificationsNext

NtInv == Shaped /\ SenderInv /\ BellInv

LEMMA NtInitial ==
    ASSUME NotificationsInit, TasksInit(Budgets)
    PROVE  NtInv
<1>1. Shaped /\ \A t \in Tasks : call[t].op = "none" /\ call[t].at = "none"
  BY DEF TasksInit, Shaped, NoCall
<1>2. \A t \in Tasks : ~ Sending(t) /\ ~ Asking(t)
  BY <1>1 DEF Sending, SenderOps, Asking, Bells
<1>3. SenderInv
  BY <1>2 DEF NotificationsInit, SenderInv, Listed, NobodyElseIsTold, OneSender, Ended, SenderKnows, SenderTells
<1>4. /\ shown = inbox /\ inbox = [u \in Users |-> inbox[u]] /\ cropped = {}
      /\ \A u \in Users : inbox[u] = <<>> \/ inbox[u] = <<"unread">>
  BY DEF NotificationsInit
<1>5. ASSUME NEW u \in Users
      PROVE  /\ inbox[u] \in Seq(Marks) /\ Readable(inbox[u]) /\ inbox[u] = [n \in DOMAIN inbox[u] |-> inbox[u][n]]
             /\ Rows(u) = DOMAIN inbox[u]
  <2>1. CASE inbox[u] = <<>>
    BY <2>1 DEF Readable, Rows, Marks
  <2>2. CASE inbox[u] = <<"unread">>
    BY <2>2 DEF Readable, Rows, Marks
  <2> QED
    BY <1>4, <2>1, <2>2
<1>6. \A u \in Users : Faithful(u, shown[u])
  BY <1>4, <1>5 DEF Faithful, SoFar, Complete
<1>7. Streams
  BY <1>4, <1>5 DEF Streams, NotificationsInit
<1>8. InboxReadable /\ OneAsker /\ RestingFaithful
  BY <1>2, <1>5, <1>6 DEF InboxReadable, OneAsker, RestingFaithful
<1>9. \A t \in Tasks : BellAsks(t) /\ BellKnows(t)
  BY <1>1, <1>2 DEF BellAsks, BellKnows
<1> QED
  BY <1>1, <1>3, <1>7, <1>8, <1>9 DEF NtInv, BellInv

LEMMA NtSteps ==
    ASSUME NtInv, NotificationsNext
    PROVE  NtInv'
<1> USE DEF NtInv
<1>1. Shaped'
  BY NtShaped
<1>2. CASE Subscribe \/ Disconnect
  BY <1>1, <1>2, StreamsTell, StreamsBell
<1>3. ASSUME NEW t \in Tasks,
             \/ ReadOwner(t) \/ Resolve(t) \/ ResolveFails(t) \/ NextRecipient(t) \/ ListGuests(t)
             \/ ReadWish(t) \/ ReadWishFails(t) \/ InsertFails(t) \/ AskOnline(t) \/ Mail(t) \/ MailFails(t)
      PROVE  NtInv'
  <2>1. BellInv'
    BY <1>3, SendersBell
  <2>2. SenderInv'
    BY <1>3, ReadOwnerIs, ResolveIs, ResolveFailsIs, NextRecipientIs, ListGuestsIs, ReadWishIs, ReadWishFailsIs,
       InsertFailsIs, AskOnlineIs, MailIs, MailFailsIs
  <2> QED
    BY <1>1, <2>1, <2>2
<1>4. ASSUME NEW t \in Tasks, SenderCalls(t) \/ Mentions(t)
      PROVE  NtInv'
  BY <1>1, <1>4, SenderCallsIs, MentionsIs, CallersBell
<1>5. ASSUME NEW t \in Tasks, InsertNotification(t)
      PROVE  NtInv'
  BY <1>1, <1>5, InsertIs, InsertBells
<1>6. ASSUME NEW t \in Tasks, Publish(t)
      PROVE  NtInv'
  BY <1>1, <1>6, PublishIs, PublishBells
<1>7. ASSUME NEW t \in Tasks,
             Fetch(t) \/ Click(t) \/ ListInbox(t) \/ MarkRead(t) \/ MarkNext(t) \/ Delete(t) \/ Answer(t)
      PROVE  NtInv'
  <2>1. SenderInv'
    BY <1>7, BellsTell
  <2>2. BellInv'
    BY <1>7, FetchIs, ClickIs, ListInboxIs, MarkReadIs, MarkNextIs, DeleteIs, AnswerIs
  <2> QED
    BY <1>1, <2>1, <2>2
<1>8. ASSUME NEW t \in Tasks, DropNt(t)
      PROVE  NtInv'
  BY <1>1, <1>8, DropNtIs, DropBells
<1> QED
  BY <1>2, <1>3, <1>4, <1>5, <1>6, <1>7, <1>8 DEF NotificationsNext

LEMMA NtRests ==
    ASSUME NtInv, UNCHANGED <<tasking, ntVars>>
    PROVE  NtInv'
<1>1. /\ call' = call /\ UNCHANGED <<inbox, pending, shown, cropped, mixed>>
      /\ UNCHANGED <<topics, meant, told, spared, mailed, cut, wants>>
  BY DEF tasking, ntVars, ntTables, ntHistory, ntBell
<1>2. SenderInv' /\ Shaped'
  BY <1>1, NobodySends DEF NtInv, Shaped
<1>3. Streams' /\ InboxReadable'
  BY <1>1 DEF NtInv, BellInv, Streams, InboxReadable, Readable
<1>4. /\ \A u, s : Faithful(u, s) => Faithful(u, s)'
      /\ \A u, s : Complete(u, s) => Complete(u, s)'
  BY <1>1 DEF Faithful, SoFar, Complete, Rows, Online, Publishing, On, Got
<1>5. \A t \in Tasks : /\ (Asking(t)' <=> Asking(t)) /\ Arg(t)' = Arg(t) /\ call'[t] = call[t]
                       /\ (\A u : AskerOf(u, t)' <=> AskerOf(u, t)) /\ BellAsks(t)'
  BY <1>1 DEF Asking, Arg, AskerOf, BellAsks, NtInv, BellInv, Sending
<1>6. \A u \in Users : KeepsFaith(u)
  BY <1>1 DEF KeepsFaith, Rows, Online, Publishing, On, Got
<1>7. \A t \in Tasks : BellKnows(t)'
  <2> SUFFICES ASSUME NEW t \in Tasks, Asking(t), Arg(t).user \notin mixed
               PROVE  BellKnows(t)'
    BY <1>1, <1>5 DEF BellKnows
  <2>1. PICK u \in Users : u = Arg(t).user
    BY DEF NtInv, BellInv, BellAsks
  <2>2. BellKnows(t) /\ KeepsFaith(u) /\ shown'[u] = shown[u]
    BY <1>1, <1>6 DEF NtInv, BellInv
  <2> QED
    BY <1>5, <2>1, <2>2, KnowsStays
<1>8. RestingFaithful'
  <2> SUFFICES ASSUME NEW u \in Users \ mixed, \A t \in Tasks : ~ AskerOf(u, t)
               PROVE  Faithful(u, shown[u])'
    BY <1>1, <1>5 DEF RestingFaithful
  <2> SUFFICES ASSUME NEW s, s = shown[u]
               PROVE  Faithful(u, s)'
    BY <1>1
  <2> QED
    BY <1>4 DEF NtInv, BellInv, RestingFaithful
<1>9. OneAsker'
  BY <1>1, <1>5 DEF NtInv, BellInv, OneAsker
<1> QED
  BY <1>2, <1>3, <1>5, <1>7, <1>8, <1>9 DEF NtInv, BellInv

LEMMA NtHolds ==
    ASSUME NtInv
    PROVE  InboxHolds
<1>1. EveryoneIsTold /\ NobodyElseIsTold /\ InboxReadable
  BY DEF NtInv, SenderInv, BellInv, Ended, Done, EveryoneIsTold
<1>2. BellIsCurrent
  <2> SUFFICES ASSUME NEW u \in Users \ mixed, Online(u), pending[u] = 0, ~ Busy(u), u \notin cropped
               PROVE  shown[u] = [n \in Rows(u) |-> inbox[u][n]]
    BY DEF BellIsCurrent
  <2>1. ~ Publishing(u) /\ \A t \in Tasks : ~ AskerOf(u, t)
    BY DEF Busy, Publishing, AskerOf
  <2>2. Faithful(u, shown[u])
    BY <2>1 DEF NtInv, BellInv, RestingFaithful
  <2>3. DOMAIN shown[u] = Rows(u) /\ shown[u] = [n \in DOMAIN shown[u] |-> shown[u][n]]
        /\ \A n \in DOMAIN shown[u] : shown[u][n] = inbox[u][n]
    BY <2>1, <2>2 DEF Faithful, SoFar, Complete
  <2> QED
    BY <2>3
<1> QED
  BY <1>1, <1>2 DEF InboxHolds

\* Everyone the notice is for has a row (and a guest of the share a mail), nobody
\* else has one, an inbox can be read, and the bell that has taken in its
\* announcements shows it, for any number of users, members, requests, failures
\* and calls (notify_recipients, create_notification, sse_stream,
\* useNotificationStore).
THEOREM InboxHoldsAlways == NtSpec => []InboxHolds
<1>1. NotificationsInit /\ TasksInit(Budgets) => NtInv
  BY NtInitial
<1>2. NtInv /\ [NotificationsNext]_<<tasking, ntVars>> => NtInv'
  BY NtSteps, NtRests
<1>3. NtInv => InboxHolds
  BY NtHolds
<1> QED
  BY <1>1, <1>2, <1>3, PTL DEF NtSpec

-----------------------------------------------------------------------------
(* The daily quota.  NeverOvercounts is not inductive: an overwrite writes    *)
(* what the turn read some steps ago.  What a turn keeps is therefore bounded *)
(* too (SeenBounded): the histories slots and billed only grow, so a bound    *)
(* that held when the row was read still holds when it is written back.       *)

\* What a turn has read is bounded by the history of the day it read.
SeenBounded ==
    \A t \in Turns : /\ seen[t].messages <= 2 * slots[day[t]]
                     /\ seen[t].tokens <= billed[day[t]]

\* A turn that is still reserving is metered and has a round left.
RoundsLeft ==
    \A t \in Turns : pc[t] \in {"check", "reserve"}
                        => t \in MeteredTurns /\ attempt[t] < MaxRetries

IInv == TypeOK /\ NeverOvercounts /\ SeenBounded /\ RoundsLeft /\ NoEarlyRefusal

USE TurnsAssumption, LimitAssumption, DayAssumption, ReplyAssumption

\* The initial states satisfy the inductive invariant: is_rate_limited and
\* update_usage_stats start from an empty usage_stats partition.
LEMMA InitIInv == Init => IInv
BY DEF Init, IInv, TypeOK, NeverOvercounts, SeenBounded, RoundsLeft, NoEarlyRefusal,
       Days, Counters, NoRow, Locations, MaxRetries

\* The reservation of a turn keeps every counter and every value read below
\* the histories, because both grow by the same amount.
LEMMA TakeSlotKeeps ==
    ASSUME IInv, NEW t \in Turns, TakeSlot(t), UNCHANGED <<day, seen, billed>>
    PROVE  /\ usage' \in [Days -> Counters]
           /\ slots' \in [Days -> Nat]
           /\ \A d \in Days : slots[d] <= slots'[d]
           /\ NeverOvercounts'
           /\ SeenBounded'
<1>1. day[t] \in Days /\ seen[t] \in Counters /\ usage[day[t]] \in Counters
  BY DEF IInv, TypeOK
<1>2. Reserved(t) \in Counters
  BY <1>1 DEF Reserved, Counters
<1>3. /\ usage' \in [Days -> Counters]
      /\ slots' \in [Days -> Nat]
      /\ \A d \in Days : slots[d] <= slots'[d]
  BY <1>1, <1>2 DEF TakeSlot, IInv, TypeOK
<1>4. NeverOvercounts'
  <2> SUFFICES ASSUME NEW d \in Days
               PROVE  usage'[d].messages <= 2 * slots'[d] /\ usage'[d].tokens <= billed[d]
    BY DEF NeverOvercounts
  <2>1. CASE d = day[t]
    <3>1. usage'[d] = Reserved(t) /\ slots'[d] = slots[d] + 1
      BY <2>1 DEF TakeSlot, IInv, TypeOK
    <3>2. seen[t].messages <= 2 * slots[d] /\ usage[d].tokens <= billed[d]
      BY <2>1 DEF IInv, SeenBounded, NeverOvercounts
    <3>3. slots[d] \in Nat /\ seen[t].messages \in Nat
      BY <1>1 DEF IInv, TypeOK, Counters
    <3> QED
      BY <2>1, <3>1, <3>2, <3>3 DEF Reserved
  <2>2. CASE d # day[t]
    <3>1. usage'[d] = usage[d] /\ slots'[d] = slots[d]
      BY <2>2 DEF TakeSlot, IInv, TypeOK
    <3> QED
      BY <3>1 DEF IInv, NeverOvercounts
  <2> QED
    BY <2>1, <2>2
<1>5. SeenBounded'
  <2> SUFFICES ASSUME NEW u \in Turns
               PROVE  seen[u].messages <= 2 * slots'[day[u]] /\ seen[u].tokens <= billed[day[u]]
    BY DEF SeenBounded
  <2>1. day[u] \in Days /\ seen[u].messages \in Nat /\ slots[day[u]] \in Nat
    BY DEF IInv, TypeOK, Counters
  <2>2. slots'[day[u]] \in Nat /\ slots[day[u]] <= slots'[day[u]]
    BY <1>3, <2>1
  <2> QED
    BY <2>1, <2>2 DEF IInv, SeenBounded
<1> QED
  BY <1>3, <1>4, <1>5

\* The overwrite of update_usage_stats, which writes back what was read.
LEMMA OverwriteKeeps ==
    ASSUME IInv, NEW t \in Turns, Overwrite(t), UNCHANGED <<day, seen>>
    PROVE  /\ usage' \in [Days -> Counters]
           /\ slots' \in [Days -> Nat]
           /\ billed' \in [Days -> Nat]
           /\ \A d \in Days : slots[d] <= slots'[d]
           /\ NeverOvercounts'
           /\ SeenBounded'
<1> DEFINE pairs == IF t \in MeteredTurns THEN 0 ELSE 1
           new   == [exists   |-> TRUE,
                     messages |-> seen[t].messages + 2 * pairs,
                     tokens   |-> seen[t].tokens + Cost[t]]
<1>1. day[t] \in Days /\ seen[t].messages \in Nat /\ seen[t].tokens \in Nat
  BY DEF IInv, TypeOK, Counters
<1>2. Cost[t] \in Nat /\ pairs \in Nat
  OBVIOUS
<1>3. /\ usage'    = [usage EXCEPT ![day[t]] = new]
      /\ slots'  = [slots EXCEPT ![day[t]] = slots[day[t]] + pairs]
      /\ billed' = [billed EXCEPT ![day[t]] = billed[day[t]] + Cost[t]]
  BY DEF Overwrite
<1>4. new \in Counters
  BY <1>1, <1>2 DEF Counters
<1> HIDE DEF pairs
<1>5. /\ usage' \in [Days -> Counters]
      /\ slots' \in [Days -> Nat]
      /\ billed' \in [Days -> Nat]
  BY <1>1, <1>2, <1>3, <1>4 DEF IInv, TypeOK
<1>6. \A d \in Days : slots[d] <= slots'[d] /\ billed[d] <= billed'[d]
  BY <1>1, <1>2, <1>3 DEF IInv, TypeOK
<1>7. NeverOvercounts'
  <2> SUFFICES ASSUME NEW d \in Days
               PROVE  usage'[d].messages <= 2 * slots'[d] /\ usage'[d].tokens <= billed'[d]
    BY DEF NeverOvercounts
  <2>1. CASE d = day[t]
    <3>1. /\ usage'[d] = new
          /\ slots'[d] = slots[d] + pairs
          /\ billed'[d] = billed[d] + Cost[t]
      BY <1>3, <2>1 DEF IInv, TypeOK
    <3>2. seen[t].messages <= 2 * slots[d] /\ seen[t].tokens <= billed[d]
      BY <2>1 DEF IInv, SeenBounded
    <3>3. slots[d] \in Nat /\ billed[d] \in Nat
      BY DEF IInv, TypeOK
    <3> QED
      BY <1>1, <1>2, <3>1, <3>2, <3>3
  <2>2. CASE d # day[t]
    <3>1. usage'[d] = usage[d] /\ slots'[d] = slots[d] /\ billed'[d] = billed[d]
      BY <1>3, <2>2 DEF IInv, TypeOK
    <3> QED
      BY <3>1 DEF IInv, NeverOvercounts
  <2> QED
    BY <2>1, <2>2
<1>8. SeenBounded'
  <2> SUFFICES ASSUME NEW u \in Turns
               PROVE  /\ seen[u].messages <= 2 * slots'[day[u]]
                      /\ seen[u].tokens <= billed'[day[u]]
    BY DEF SeenBounded
  <2>1. /\ day[u] \in Days /\ seen[u].messages \in Nat /\ seen[u].tokens \in Nat
        /\ slots[day[u]] \in Nat /\ billed[day[u]] \in Nat
    BY DEF IInv, TypeOK, Counters
  <2>2. /\ slots'[day[u]] \in Nat /\ slots[day[u]] <= slots'[day[u]]
        /\ billed'[day[u]] \in Nat /\ billed[day[u]] <= billed'[day[u]]
    BY <1>5, <1>6, <2>1
  <2> QED
    BY <2>1, <2>2 DEF IInv, SeenBounded
<1> QED
  BY <1>5, <1>6, <1>7, <1>8

\* A turn that reads a row keeps bounded what it keeps.
LEMMA ReadKeeps ==
    ASSUME IInv, NEW t \in Turns, NEW d \in Days, Read(t, d),
           UNCHANGED <<usage, slots, billed>>
    PROVE  /\ day' \in [Turns -> Days]
           /\ seen' \in [Turns -> Counters]
           /\ day'[t] = d
           /\ \A u \in Turns \ {t} : day'[u] = day[u]
           /\ SeenBounded'
<1>1. /\ day' \in [Turns -> Days]
      /\ seen' \in [Turns -> Counters]
      /\ day'[t] = d /\ seen'[t] = usage[d]
      /\ \A u \in Turns \ {t} : day'[u] = day[u] /\ seen'[u] = seen[u]
  BY DEF Read, IInv, TypeOK
<1>2. SeenBounded'
  BY <1>1 DEF SeenBounded, NeverOvercounts, IInv
<1> QED
  BY <1>1, <1>2

\* A refusal recorded before a step that only grows the slots stays justified.
LEMMA RefusalsKept ==
    ASSUME IInv, slots' \in [Days -> Nat], \A d \in Days : slots[d] <= slots'[d],
           \A t \in Turns : pc'[t] = "limited" => pc[t] = "limited" /\ day'[t] = day[t]
    PROVE  NoEarlyRefusal'
<1> SUFFICES ASSUME NEW t \in Turns, pc'[t] = "limited"
             PROVE  2 * slots'[day'[t]] >= Limit
  BY DEF NoEarlyRefusal
<1>1. day'[t] = day[t] /\ day[t] \in Days /\ 2 * slots[day[t]] >= Limit
  BY DEF IInv, NoEarlyRefusal, TypeOK
<1>2. slots[day[t]] \in Nat /\ slots'[day[t]] \in Nat /\ slots[day[t]] <= slots'[day[t]]
  BY <1>1 DEF IInv, TypeOK
<1> QED
  BY <1>1, <1>2

\* Every step of the limiter keeps the inductive invariant.
LEMMA NextIInv == IInv /\ [Next]_vars => IInv'
<1> SUFFICES ASSUME IInv, [Next]_vars
             PROVE  IInv'
  OBVIOUS
<1>m. \A d \in Days : slots[d] <= slots[d]
  BY DEF IInv, TypeOK
<1>1. ASSUME NEW t \in Turns, CheckLimit(t)
      PROVE  IInv'
  <2> DEFINE d == IF attempt[t] = 0 THEN today ELSE day[t]
  <2>1. d \in Days
    BY DEF IInv, TypeOK
  <2>2. Read(t, d) /\ UNCHANGED <<today, usage, attempt, passed, slots, billed>>
    BY <1>1 DEF CheckLimit
  <2>3. pc' = [pc EXCEPT ![t] = IF usage[d].messages >= Limit THEN "limited" ELSE "reserve"]
    BY <1>1 DEF CheckLimit, Proceed
  <2>4. pc[t] = "check"
    BY <1>1 DEF CheckLimit
  <2> HIDE DEF d
  <2>5. /\ day' \in [Turns -> Days] /\ seen' \in [Turns -> Counters] /\ SeenBounded'
        /\ day'[t] = d /\ \A u \in Turns \ {t} : day'[u] = day[u]
    BY <2>1, <2>2, ReadKeeps
  <2>6. TypeOK'
    BY <2>2, <2>3, <2>5 DEF IInv, TypeOK, Locations
  <2>7. NeverOvercounts'
    BY <2>2 DEF IInv, NeverOvercounts
  <2>8. RoundsLeft'
    BY <2>2, <2>3, <2>4 DEF IInv, TypeOK, RoundsLeft
  <2>9. NoEarlyRefusal'
    <3> SUFFICES ASSUME NEW u \in Turns, pc'[u] = "limited"
                 PROVE  2 * slots[day'[u]] >= Limit
      BY <2>2 DEF NoEarlyRefusal
    <3>1. CASE u = t
      <4>1. usage[d].messages >= Limit
        BY <2>3, <3>1 DEF IInv, TypeOK
      <4>2. usage[d].messages <= 2 * slots[d] /\ usage[d].messages \in Nat /\ slots[d] \in Nat
        BY <2>1 DEF IInv, NeverOvercounts, TypeOK, Counters
      <4> QED
        BY <2>5, <3>1, <4>1, <4>2
    <3>2. CASE u # t
      BY <2>3, <2>5, <3>2 DEF IInv, TypeOK, NoEarlyRefusal
    <3> QED
      BY <3>1, <3>2
  <2> QED
    BY <2>5, <2>6, <2>7, <2>8, <2>9 DEF IInv
<1>2. ASSUME NEW t \in Turns, ReserveApplied(t)
      PROVE  IInv'
  <2>1. TakeSlot(t) /\ LetThrough(t) /\ UNCHANGED <<today, day, seen, attempt, billed>>
    BY <1>2 DEF ReserveApplied
  <2>2. t \in MeteredTurns
    BY <1>2 DEF ReserveApplied, IInv, RoundsLeft
  <2>3. /\ usage' \in [Days -> Counters] /\ slots' \in [Days -> Nat]
        /\ \A d \in Days : slots[d] <= slots'[d]
        /\ NeverOvercounts' /\ SeenBounded'
    BY <2>1, TakeSlotKeeps
  <2>4. pc' = [pc EXCEPT ![t] = "admitted"]
    BY <2>1 DEF LetThrough, Proceed
  <2>5. TypeOK'
    BY <2>1, <2>2, <2>3, <2>4 DEF IInv, TypeOK, Locations, LetThrough
  <2>6. RoundsLeft'
    BY <2>1, <2>4 DEF IInv, TypeOK, RoundsLeft
  <2>7. NoEarlyRefusal'
    BY <2>1, <2>3, <2>4, RefusalsKept DEF IInv, TypeOK
  <2> QED
    BY <2>3, <2>5, <2>6, <2>7 DEF IInv
<1>3. ASSUME NEW t \in Turns, ReserveRefused(t)
      PROVE  IInv'
  <2>1. UNCHANGED <<today, usage, day, seen, slots, billed>> /\ pc[t] = "reserve"
    BY <1>3 DEF ReserveRefused
  <2>2. t \in MeteredTurns /\ attempt[t] < MaxRetries /\ attempt[t] \in Nat
    BY <2>1 DEF IInv, RoundsLeft, TypeOK, MaxRetries
  <2>3. attempt' \in [Turns -> 0 .. MaxRetries]
    BY <1>3, <2>2 DEF ReserveRefused, IInv, TypeOK, MaxRetries
  <2>4. TypeOK'
    BY <1>3, <2>1, <2>2, <2>3 DEF ReserveRefused, LetThrough, Proceed, IInv, TypeOK, Locations
  <2>5. RoundsLeft'
    BY <1>3, <2>1, <2>2 DEF ReserveRefused, LetThrough, Proceed, IInv, TypeOK, RoundsLeft, MaxRetries
  <2>6. NoEarlyRefusal'
    BY <1>3, <2>1 DEF ReserveRefused, LetThrough, Proceed, IInv, TypeOK, NoEarlyRefusal
  <2>7. NeverOvercounts' /\ SeenBounded'
    BY <2>1 DEF IInv, NeverOvercounts, SeenBounded
  <2> QED
    BY <2>4, <2>5, <2>6, <2>7 DEF IInv
<1>4. ASSUME NEW t \in Turns, ReserveError(t)
      PROVE  IInv'
  <2>1. UNCHANGED <<today, day, seen, attempt, passed, billed>> /\ pc[t] = "reserve"
    BY <1>4 DEF ReserveError
  <2>2. pc' = [pc EXCEPT ![t] = "failed"]
    BY <1>4 DEF ReserveError, Proceed
  <2>3. /\ usage' \in [Days -> Counters] /\ slots' \in [Days -> Nat]
        /\ \A d \in Days : slots[d] <= slots'[d]
        /\ NeverOvercounts' /\ SeenBounded'
    <3>1. CASE TakeSlot(t)
      BY <2>1, <3>1, TakeSlotKeeps
    <3>2. CASE UNCHANGED <<usage, slots>>
      BY <1>m, <2>1, <3>2 DEF IInv, TypeOK, NeverOvercounts, SeenBounded
    <3> QED
      BY <1>4, <3>1, <3>2 DEF ReserveError
  <2>4. TypeOK'
    BY <2>1, <2>2, <2>3 DEF IInv, TypeOK, Locations
  <2>5. RoundsLeft'
    BY <2>1, <2>2 DEF IInv, TypeOK, RoundsLeft
  <2>6. NoEarlyRefusal'
    BY <2>1, <2>2, <2>3, RefusalsKept DEF IInv, TypeOK
  <2> QED
    BY <2>3, <2>4, <2>5, <2>6 DEF IInv
<1>5. ASSUME NEW t \in Turns, ReadError(t) \/ StopEarly(t)
      PROVE  IInv'
  <2>1. UNCHANGED <<today, usage, day, seen, attempt, passed, slots, billed>>
    BY <1>5 DEF ReadError, StopEarly
  <2>2. \E l \in {"failed", "done"} : pc' = [pc EXCEPT ![t] = l]
    BY <1>5 DEF ReadError, StopEarly, Proceed
  <2> QED
    BY <2>1, <2>2 DEF IInv, TypeOK, NeverOvercounts, SeenBounded, RoundsLeft, NoEarlyRefusal,
                      Locations
<1>6. ASSUME NEW t \in Turns, ReadStats(t)
      PROVE  IInv'
  <2>1. today \in Days
    BY DEF IInv, TypeOK
  <2>2. /\ Read(t, today) /\ UNCHANGED <<today, usage, attempt, passed, slots, billed>>
        /\ pc[t] = "admitted" /\ pc' = [pc EXCEPT ![t] = "account"]
    BY <1>6 DEF ReadStats, Proceed
  <2>3. /\ day' \in [Turns -> Days] /\ seen' \in [Turns -> Counters] /\ SeenBounded'
        /\ day'[t] = today /\ \A u \in Turns \ {t} : day'[u] = day[u]
    BY <2>1, <2>2, ReadKeeps
  <2>4. TypeOK'
    BY <2>2, <2>3 DEF IInv, TypeOK, Locations
  <2>5. NeverOvercounts' /\ RoundsLeft'
    BY <2>2 DEF IInv, TypeOK, NeverOvercounts, RoundsLeft
  <2>6. NoEarlyRefusal'
    BY <2>2, <2>3 DEF IInv, TypeOK, NoEarlyRefusal
  <2> QED
    BY <2>3, <2>4, <2>5, <2>6 DEF IInv
<1>7. ASSUME NEW t \in Turns, WriteStats(t)
      PROVE  IInv'
  <2>1. UNCHANGED <<today, day, seen, attempt, passed>> /\ pc[t] = "account"
    BY <1>7 DEF WriteStats
  <2>2. PICK l \in {"done", "failed"} : pc' = [pc EXCEPT ![t] = l]
    BY <1>7 DEF WriteStats, Proceed
  <2>3. /\ usage' \in [Days -> Counters] /\ slots' \in [Days -> Nat]
        /\ billed' \in [Days -> Nat]
        /\ \A d \in Days : slots[d] <= slots'[d]
        /\ NeverOvercounts' /\ SeenBounded'
    <3>1. CASE Overwrite(t)
      BY <2>1, <3>1, OverwriteKeeps
    <3>2. CASE UNCHANGED <<usage, slots, billed>>
      BY <1>m, <2>1, <3>2 DEF IInv, TypeOK, NeverOvercounts, SeenBounded
    <3> QED
      BY <1>7, <3>1, <3>2 DEF WriteStats
  <2>4. TypeOK'
    BY <2>1, <2>2, <2>3 DEF IInv, TypeOK, Locations
  <2>5. RoundsLeft'
    BY <2>1, <2>2 DEF IInv, TypeOK, RoundsLeft
  <2>6. NoEarlyRefusal'
    BY <2>1, <2>2, <2>3, RefusalsKept DEF IInv, TypeOK
  <2> QED
    BY <2>3, <2>4, <2>5, <2>6 DEF IInv
<1>8. CASE Midnight
  BY <1>8 DEF Midnight, IInv, TypeOK, Days, NeverOvercounts, SeenBounded, RoundsLeft, NoEarlyRefusal
<1>9. CASE UNCHANGED vars
  BY <1>9 DEF vars, IInv, TypeOK, NeverOvercounts, SeenBounded, RoundsLeft, NoEarlyRefusal
<1> QED
  BY <1>1, <1>2, <1>3, <1>4, <1>5, <1>6, <1>7, <1>8, <1>9 DEF Next, Step

\* The inductive invariant holds in every reachable state of the limiter.
THEOREM Inductive == Spec => []IInv
BY InitIInv, NextIInv, PTL DEF Spec

\* Every variable of the usage_stats model keeps its type.
THEOREM TypeCorrect == Spec => []TypeOK
<1>1. IInv => TypeOK
  BY DEF IInv
<1> QED
  BY Inductive, <1>1, PTL

\* is_rate_limited and update_usage_stats lose updates but never invent any:
\* no day's counters exceed what was reserved and billed on it.
THEOREM UsageNeverInvented == Spec => []NeverOvercounts
<1>1. IInv => NeverOvercounts
  BY DEF IInv
<1> QED
  BY Inductive, <1>1, PTL

\* A customer refused by is_rate_limited shares the day with at least the
\* limit of accounted messages.
THEOREM RefusalsJustified == Spec => []NoEarlyRefusal
<1>1. IInv => NoEarlyRefusal
  BY DEF IInv
<1> QED
  BY Inductive, <1>1, PTL

\* However turns, failures and midnights interleave, is_rate_limited and
\* update_usage_stats neither invent usage nor refuse for usage that was not
\* there.
THEOREM UsageIsHonest == Spec => []UsageHonest
BY UsageNeverInvented, RefusalsJustified, PTL DEF UsageHonest

-----------------------------------------------------------------------------
\* As long as no answer has been accounted, the counter of a day is what was
\* reserved on it, and a day without a row counts nothing.
Exact ==
    \A d \in Days : /\ usage[d].messages = 2 * slots[d]
                    /\ ~ usage[d].exists => usage[d].messages = 0

\* A turn that is about to reserve read a counter below the limit.
ReadBelowLimit == \A t \in Turns : pc[t] = "reserve" => seen[t].messages < Limit

LInv ==
    /\ IInv
    /\ ReadBelowLimit
    /\ NothingAccounted => Exact
    /\ ReservationsRespectLimit

\* The initial states satisfy the invariant: no turn of is_rate_limited has
\* read or reserved anything.
LEMMA InitLInv == Init => LInv
BY InitIInv DEF Init, LInv, Exact, ReadBelowLimit, ReservationsRespectLimit, PairsInLimit,
                Days, NoRow

\* Once update_usage_stats has begun for a turn, or a database error ended it,
\* it never becomes a turn before its accounting again.
LEMMA AccountedStays ==
    ASSUME TypeOK, [Next]_vars, NothingAccounted'
    PROVE  NothingAccounted
<1> SUFFICES ASSUME NEW u \in Turns
             PROVE  pc[u] \in {"check", "reserve", "admitted", "limited"}
  BY DEF NothingAccounted
<1>1. pc'[u] \in {"check", "reserve", "admitted", "limited"}
  BY DEF NothingAccounted
<1>2. CASE \E t \in Turns : Step(t)
  <2>1. PICK t \in Turns : Step(t)
    BY <1>2
  <2>2. PICK l : pc' = [pc EXCEPT ![t] = l]
    BY <2>1 DEF Step, CheckLimit, ReserveApplied, ReserveRefused, ReserveError, ReadError,
                StopEarly, ReadStats, WriteStats, LetThrough, Proceed
  <2>3. CASE u # t
    BY <1>1, <2>2, <2>3 DEF TypeOK
  <2>4. CASE u = t
    <3>1. ~ WriteStats(t)
      BY <1>1, <2>4 DEF WriteStats, Proceed, TypeOK
    <3> QED
      BY <2>1, <2>4, <3>1 DEF Step, CheckLimit, ReserveApplied, ReserveRefused, ReserveError,
                              ReadError, StopEarly, ReadStats
  <2> QED
    BY <2>3, <2>4
<1>3. CASE Midnight \/ UNCHANGED vars
  BY <1>1, <1>3 DEF Midnight, vars
<1> QED
  BY <1>2, <1>3 DEF Next

\* Before the first accounting a transaction of is_rate_limited that applies
\* finds the counter its turn read, so that the pair it adds is within the
\* limit.
LEMMA TakeSlotInLimit ==
    ASSUME IInv, Exact, NEW t \in Turns, seen[t].messages < Limit,
           Applies(t), TakeSlot(t),
           \A d \in Days : slots[d] <= PairsInLimit
    PROVE  Exact' /\ \A d \in Days : slots'[d] <= PairsInLimit
<1>1. day[t] \in Days /\ seen[t].messages \in Nat /\ slots[day[t]] \in Nat
  BY DEF IInv, TypeOK, Counters
<1>2. seen[t].messages = 2 * slots[day[t]]
  BY <1>1 DEF Exact, Applies
<1>3. slots[day[t]] + 1 <= PairsInLimit
  BY <1>1, <1>2 DEF PairsInLimit
<1>4. /\ usage' = [usage EXCEPT ![day[t]] = Reserved(t)]
      /\ slots' = [slots EXCEPT ![day[t]] = slots[day[t]] + 1]
  BY DEF TakeSlot
<1> SUFFICES ASSUME NEW d \in Days
             PROVE  /\ usage'[d].messages = 2 * slots'[d]
                    /\ ~ usage'[d].exists => usage'[d].messages = 0
                    /\ slots'[d] <= PairsInLimit
  BY DEF Exact
<1>5. CASE d = day[t]
  <2>1. usage'[d] = Reserved(t) /\ slots'[d] = slots[d] + 1
    BY <1>4, <1>5 DEF IInv, TypeOK
  <2> QED
    BY <1>1, <1>2, <1>3, <1>5, <2>1 DEF Reserved
<1>6. CASE d # day[t]
  <2>1. usage'[d] = usage[d] /\ slots'[d] = slots[d]
    BY <1>4, <1>6 DEF IInv, TypeOK
  <2> QED
    BY <2>1 DEF Exact
<1> QED
  BY <1>5, <1>6

\* A turn goes on to reserve only from a read below the limit, and what it
\* read stays as it is until it is refused or let through.
LEMMA NextReadBelowLimit == LInv /\ [Next]_vars => ReadBelowLimit'
<1> SUFFICES ASSUME LInv, [Next]_vars, NEW u \in Turns, pc'[u] = "reserve"
             PROVE  seen'[u].messages < Limit
  BY DEF ReadBelowLimit
<1>t. TypeOK
  BY DEF LInv, IInv
<1>1. ASSUME NEW t \in Turns, CheckLimit(t)
      PROVE  seen'[u].messages < Limit
  <2> DEFINE d == IF attempt[t] = 0 THEN today ELSE day[t]
  <2>1. d \in Days
    BY <1>t DEF TypeOK
  <2>2. /\ seen' = [seen EXCEPT ![t] = usage[d]]
        /\ pc' = [pc EXCEPT ![t] = IF usage[d].messages >= Limit THEN "limited" ELSE "reserve"]
    BY <1>1 DEF CheckLimit, Read, Proceed
  <2> HIDE DEF d
  <2>3. CASE u = t
    <3>1. ~ (usage[d].messages >= Limit) /\ seen'[u] = usage[d]
      BY <1>t, <2>2, <2>3 DEF TypeOK
    <3>2. usage[d].messages \in Nat
      BY <1>t, <2>1 DEF TypeOK, Counters
    <3> QED
      BY <3>1, <3>2
  <2>4. CASE u # t
    BY <1>t, <2>2, <2>4 DEF TypeOK, LInv, ReadBelowLimit
  <2> QED
    BY <2>3, <2>4
<1>2. ASSUME NEW t \in Turns, \/ ReserveApplied(t) \/ ReserveRefused(t) \/ ReserveError(t)
                              \/ ReadError(t) \/ StopEarly(t) \/ WriteStats(t)
      PROVE  seen'[u].messages < Limit
  <2>1. seen' = seen
    BY <1>2 DEF ReserveApplied, ReserveRefused, ReserveError, ReadError, StopEarly, WriteStats
  <2>2. \E l \in {"check", "admitted", "failed", "done"} : pc' = [pc EXCEPT ![t] = l]
    BY <1>2 DEF ReserveApplied, ReserveRefused, ReserveError, ReadError, StopEarly, WriteStats,
                LetThrough, Proceed
  <2>3. pc[u] = "reserve"
    BY <1>t, <2>2 DEF TypeOK
  <2> QED
    BY <2>1, <2>3 DEF LInv, ReadBelowLimit
<1>3. ASSUME NEW t \in Turns, ReadStats(t)
      PROVE  seen'[u].messages < Limit
  <2>1. pc' = [pc EXCEPT ![t] = "account"] /\ seen' = [seen EXCEPT ![t] = usage[today]]
    BY <1>3 DEF ReadStats, Read, Proceed
  <2>2. u # t /\ pc[u] = "reserve" /\ seen'[u] = seen[u]
    BY <1>t, <2>1 DEF TypeOK
  <2> QED
    BY <2>2 DEF LInv, ReadBelowLimit
<1>4. CASE Midnight \/ UNCHANGED vars
  BY <1>4 DEF Midnight, vars, LInv, ReadBelowLimit
<1> QED
  BY <1>1, <1>2, <1>3, <1>4 DEF Next, Step

\* Every step of the limiter keeps the invariant of the reservations.
LEMMA NextLInv == LInv /\ [Next]_vars => LInv'
<1> SUFFICES ASSUME LInv, [Next]_vars
             PROVE  LInv'
  OBVIOUS
<1>1. IInv' /\ ReadBelowLimit'
  BY NextIInv, NextReadBelowLimit DEF LInv
<1>2. ASSUME NothingAccounted'
      PROVE  Exact' /\ \A d \in Days : slots'[d] <= PairsInLimit
  <2>1. IInv /\ NothingAccounted /\ Exact /\ \A d \in Days : slots[d] <= PairsInLimit
    BY <1>2, AccountedStays DEF LInv, IInv, ReservationsRespectLimit
  <2>2. CASE UNCHANGED <<usage, slots>>
    BY <2>1, <2>2 DEF Exact
  <2>3. ASSUME NEW t \in Turns, ReserveApplied(t)
        PROVE  Exact' /\ \A d \in Days : slots'[d] <= PairsInLimit
    <3>1. seen[t].messages < Limit /\ Applies(t) /\ TakeSlot(t)
      BY <2>3 DEF ReserveApplied, LInv, ReadBelowLimit
    <3> QED
      BY <2>1, <3>1, TakeSlotInLimit
  <2>4. ASSUME NEW t \in Turns, ReserveError(t) \/ WriteStats(t)
        PROVE  FALSE
    <3>1. pc'[t] \in {"failed", "done"}
      BY <2>1, <2>4 DEF ReserveError, WriteStats, Proceed, IInv, TypeOK
    <3> QED
      BY <1>2, <3>1 DEF NothingAccounted
  <2> QED
    BY <2>2, <2>3, <2>4 DEF Next, Step, CheckLimit, ReserveRefused, ReadError, StopEarly,
                            ReadStats, Midnight, vars
<1> QED
  BY <1>1, <1>2 DEF LInv, ReservationsRespectLimit, PairsInLimit

\* The compare-and-swap of is_rate_limited never reserves more pairs on a day
\* than the limit has room for, as long as no answer has been accounted.
THEOREM ReservationsBounded == Spec => []ReservationsRespectLimit
<1>1. LInv => ReservationsRespectLimit
  BY DEF LInv
<1> QED
  BY InitLInv, NextLInv, <1>1, PTL DEF Spec
=============================================================================
