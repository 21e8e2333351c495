-------------------------------- MODULE Okrs --------------------------------
(***************************************************************************)
(* Objectives and key results of one workspace.  An objective is kept in   *)
(* `okr_objectives`, again in `okr_objectives_by_cycle`, which the page of *)
(* a cycle lists, and under its parent in `okr_objective_children`.  Its   *)
(* progress is not computed when it is read: a check-in and the deletion   *)
(* of a key result read all key results and write it to the first two.     *)
(*                                                                         *)
(* An UPDATE of a deleted row writes a row again, with the columns the     *)
(* statement names: a key result of the type "number", from 0 to 100; an   *)
(* objective without a cycle.                                              *)
(***************************************************************************)
EXTENDS Tasks, Integers, Sequences, Functions, TLC

CONSTANTS
    Objectives,     \* ids of objectives
    KeyResults,     \* ids of key results
    Cycles,         \* cycles, as "2026-Q1"
    SpanOf,         \* start_value, target_value and kr_type of each key result
    Values,         \* values check-ins report
    Confidences     \* confidence of check-ins, in tenths

Scale == 2          \* progress is counted in halves

\* Progress in halves is exact; "none" is the absence of an id and of a cycle.
ASSUME OkrsAssumption ==
    /\ Objectives # {} /\ Cycles # {} /\ "none" \notin Objectives \cup Cycles
    /\ SpanOf \in [KeyResults -> [start : Int, target : Int, type : {"number", "binary"}]]
    /\ \A k \in KeyResults : SpanOf[k].target - SpanOf[k].start \in {-2, -1, 0, 1, 2}
    /\ Values \subseteq Int /\ Confidences \subseteq 0..10

VARIABLES
    objective,      \* okr_objectives: the row of each id, or NoObjective
    by_cycle,       \* okr_objectives_by_cycle: its rows
    children,       \* okr_objective_children: its rows
    key_result,     \* okr_key_results: the row of each id, or NoKeyResult
    kr_lookup,      \* key results in okr_kr_objective_lookup
    check_ins,      \* okr_check_ins of each key result, oldest first
    home,           \* the objective a key result was created for, or "none"
    named,          \* objectives that have been created: a new id is new
    stirred,        \* history: objectives whose key results have changed since
                    \* progress was last computed
    edited,         \* history: key results whose value was changed directly
    moved,          \* history: objectives whose cycle was changed
    unsound         \* history: objectives two tasks have worked on at once, or
                    \* that a dropped task has left

krRows     == <<key_result, kr_lookup, check_ins, home>>
okrRows    == <<objective, by_cycle, children, krRows>>
okrHistory == <<named, stirred, edited, moved, unsound>>
okrVars    == <<okrRows, okrHistory>>

\* A sum of progress and of confidence, over count key results.
Unrolled    == [done |-> 0, conf |-> 5, count |-> 1]
NoObjective == [cycle |-> "none", status |-> "none", roll |-> Unrolled, parent |-> "none"]
Ghostly     == [start |-> 0, target |-> 100, type |-> "number"]
NoKeyResult == [span |-> Ghostly, value |-> 0, conf |-> 5, there |-> FALSE]

NewRow(k)   == [span |-> SpanOf[k], value |-> SpanOf[k].start, conf |-> 5, there |-> TRUE]

-----------------------------------------------------------------------------
(* recompute_objective_progress: the arithmetic *)

Clamp(x) == IF x < 0 THEN 0 ELSE IF x > Scale THEN Scale ELSE x

\* Progress of a value in a span, which may go down; of a span of no length
\* only a binary one can be done.
Progress(span, value) ==
    LET range == span.target - span.start IN
    IF range = 0
    THEN IF span.type = "binary" /\ value >= 1 THEN Scale ELSE 0
    ELSE Clamp(((value - span.start) * range * Scale) \div (range * range))

\* list_objectives_by_cycle and list_children: what a page shows.
PageOf(cycle) == {r \in by_cycle : r.cycle = cycle}
ChildrenOf(p) == {r.child : r \in {q \in children : q.parent = p}}

\* get_objective_id_for_kr and get_workspace_id_for_kr: rows in the lookup.
LookedUp(ks) == ks \cap kr_lookup

KrsOf(o) == {k \in KeyResults : home[k] = o /\ key_result[k].there}

Rolled(ks) ==
    [done  |-> SumFunction([k \in ks |-> Progress(key_result[k].span, key_result[k].value)]),
     conf  |-> SumFunction([k \in ks |-> key_result[k].conf]),
     count |-> Cardinality(ks)]

Judged(roll) ==
    IF roll.conf >= 7 * roll.count THEN "on_track"
    ELSE IF roll.conf >= 4 * roll.count THEN "at_risk" ELSE "behind"

-----------------------------------------------------------------------------
(* Tasks: every one works on one objective. *)

OkrOps == {"new_objective", "set_objective", "del_objective",
           "new_kr", "set_kr", "del_kr", "check_in"}

\* What a request names: the objective, and its parent to be.
Named(arg) ==
    {arg.id} \cup (IF "parent" \in DOMAIN arg THEN {arg.parent} \cap Objectives ELSE {})

WorkedOn == UNION {Named(Arg(t)) : t \in {u \in Tasks : call[u].op \in OkrOps}}

BeginOkr(t, op, at, arg) ==
    /\ Begin(t, op, at, arg)
    /\ unsound' = unsound \cup (Named(arg) \cap WorkedOn)

Seen(t, at, got) == Learn(t, at, got) /\ UNCHANGED okrVars
Quit(t)          == Finish(t) /\ UNCHANGED okrVars

\* The row of a key of by_cycle, written whole.
Listing(o, cycle, status, roll) ==
    {r \in by_cycle : ~(r.id = o /\ r.cycle = cycle)}
        \cup {[id |-> o, cycle |-> cycle, status |-> status, roll |-> roll]}

Unlisted(o, cycle) == {r \in by_cycle : ~(r.id = o /\ r.cycle = cycle)}

Adopted(p, o, roll) ==
    {r \in children : ~(r.parent = p /\ r.child = o)}
        \cup {[parent |-> p, child |-> o, roll |-> roll]}

\* An objective with its key results, those of before the lookup table or not;
\* or none.
OkrsInit ==
    LET o == CHOOSE x \in Objectives : TRUE
        c == CHOOSE x \in Cycles : TRUE IN
    /\ \/ /\ objective = [[x \in Objectives |-> NoObjective]
                              EXCEPT ![o].cycle = c, ![o].status = "on_track"]
          /\ by_cycle = {[id |-> o, cycle |-> c, status |-> "on_track", roll |-> Unrolled]}
          /\ key_result = [k \in KeyResults |-> NewRow(k)]
          /\ home = [k \in KeyResults |-> o] /\ kr_lookup \in {{}, KeyResults}
          /\ stirred = {o} /\ named = {o}
       \/ /\ objective = [x \in Objectives |-> NoObjective] /\ by_cycle = {}
          /\ key_result = [k \in KeyResults |-> NoKeyResult]
          /\ home = [k \in KeyResults |-> "none"] /\ kr_lookup = {} /\ stirred = {} /\ named = {}
    /\ children = {} /\ check_ins = [k \in KeyResults |-> <<>>]
    /\ edited = {} /\ moved = {} /\ unsound = {}

-----------------------------------------------------------------------------
(* Calls begin: by admins of the workspace; a check-in by anybody. *)

\* Objectives a page offers as parents.
Existing == {o \in Objectives : objective[o] # NoObjective}

\* An id is new: it has never been used.
NewObjective(t) ==
    /\ \E o \in Objectives, c \in Cycles, p \in {"none"} \cup Existing :
        /\ o \notin named
        /\ BeginOkr(t, "new_objective", "main", [id |-> o, cycle |-> c, parent |-> p])
        /\ named' = named \cup {o} /\ stirred' = stirred \cup {o}
    /\ UNCHANGED <<okrRows, edited, moved>>

\* One field at a time: the status stands for the title, the description, the
\* type, the owner and the teams as well.
SetObjective(t) ==
    /\ \E o \in named :
        \/ BeginOkr(t, "set_objective", "get", [id |-> o, status |-> "behind"])
        \/ \E c \in Cycles : BeginOkr(t, "set_objective", "get", [id |-> o, cycle |-> c])
        \/ \E p \in Existing \ {o} : BeginOkr(t, "set_objective", "get", [id |-> o, parent |-> p])
    /\ UNCHANGED <<okrRows, named, stirred, edited, moved>>

DelObjective(t) ==
    /\ \E o \in named : BeginOkr(t, "del_objective", "get", [id |-> o])
    /\ UNCHANGED <<okrRows, named, stirred, edited, moved>>

NewKr(t) ==
    /\ \E k \in KeyResults, o \in named :
        /\ home[k] = "none"
        /\ BeginOkr(t, "new_kr", "verify", [id |-> o, kr |-> k])
        /\ home' = [home EXCEPT ![k] = o]
    /\ UNCHANGED <<objective, by_cycle, children, key_result, kr_lookup, check_ins,
                   named, stirred, edited, moved>>

\* A key result of the objective, which may have been deleted.
SetKr(t) ==
    /\ \E k \in KeyResults, v \in Values :
        /\ home[k] # "none"
        /\ BeginOkr(t, "set_kr", "verify", [id |-> home[k], kr |-> k, value |-> v])
    /\ UNCHANGED <<okrRows, named, stirred, edited, moved>>

DelKr(t) ==
    /\ \E k \in KeyResults :
        /\ home[k] # "none"
        /\ BeginOkr(t, "del_kr", "verify", [id |-> home[k], kr |-> k])
    /\ UNCHANGED <<okrRows, named, stirred, edited, moved>>

CheckIn(t) ==
    /\ \E k \in KeyResults, v \in Values, c \in Confidences :
        /\ home[k] # "none"
        /\ BeginOkr(t, "check_in", "value", [id |-> home[k], kr |-> k, value |-> v, conf |-> c])
    /\ UNCHANGED <<okrRows, named, stirred, edited, moved>>

-----------------------------------------------------------------------------
(* create_objective *)

InsertObjective(t) ==
    /\ On(t, "new_objective", "main")
    /\ objective' = [objective EXCEPT ![Arg(t).id] =
            [cycle |-> Arg(t).cycle, status |-> "on_track", roll |-> Unrolled,
             parent |-> Arg(t).parent]]
    /\ Goto(t, "list")
    /\ UNCHANGED <<by_cycle, children, krRows, okrHistory>>

ListObjective(t) ==
    /\ On(t, "new_objective", "list")
    /\ by_cycle' = Listing(Arg(t).id, Arg(t).cycle, "on_track", Unrolled)
    /\ IF Arg(t).parent = "none" THEN Finish(t) ELSE Goto(t, "child")
    /\ UNCHANGED <<objective, children, krRows, okrHistory>>

AdoptObjective(t) ==
    /\ On(t, "new_objective", "child")
    /\ children' = Adopted(Arg(t).parent, Arg(t).id, Unrolled)
    /\ Finish(t)
    /\ UNCHANGED <<objective, by_cycle, krRows, okrHistory>>

-----------------------------------------------------------------------------
(* update_objective: it writes the row of the cycle whole, on what it has  *)
(* read of the objective; the cycle of the objective itself is not written *)

Sets(t, field)  == field \in DOMAIN Arg(t)
Asked(t, field) == IF Sets(t, field) THEN Arg(t)[field] ELSE Got(t)[field]

ReadsObjective(t) ==
    /\ On(t, "set_objective", "get")
    /\ LET old == objective[Arg(t).id] IN
        IF old = NoObjective THEN Quit(t)
        ELSE Seen(t, IF Sets(t, "status") THEN "status"
                     ELSE IF Sets(t, "parent")
                     THEN IF old.parent = "none" THEN "parent" ELSE "leave"
                     ELSE IF Arg(t).cycle # old.cycle THEN "unlist" ELSE "list",
                  old)

WriteStatus(t) ==
    /\ On(t, "set_objective", "status")
    /\ objective' = [objective EXCEPT ![Arg(t).id].status = Arg(t).status]
    /\ Goto(t, "list")
    /\ UNCHANGED <<by_cycle, children, krRows, okrHistory>>

LeaveParent(t) ==
    /\ On(t, "set_objective", "leave")
    /\ children' = {r \in children : ~(r.parent = Got(t).parent /\ r.child = Arg(t).id)}
    /\ Goto(t, "parent")
    /\ UNCHANGED <<objective, by_cycle, krRows, okrHistory>>

WriteParent(t) ==
    /\ On(t, "set_objective", "parent")
    /\ objective' = [objective EXCEPT ![Arg(t).id].parent = Arg(t).parent]
    /\ Goto(t, "adopt")
    /\ UNCHANGED <<by_cycle, children, krRows, okrHistory>>

JoinParent(t) ==
    /\ On(t, "set_objective", "adopt")
    /\ children' = Adopted(Arg(t).parent, Arg(t).id, Got(t).roll)
    /\ Goto(t, "list")
    /\ UNCHANGED <<objective, by_cycle, krRows, okrHistory>>

UnlistOld(t) ==
    /\ On(t, "set_objective", "unlist")
    /\ by_cycle' = Unlisted(Arg(t).id, Got(t).cycle)
    /\ moved' = moved \cup {Arg(t).id}
    /\ Goto(t, "list")
    /\ UNCHANGED <<objective, children, krRows, named, stirred, edited, unsound>>

\* Mutant of ListAgain: the status is taken from what was read.
ListAgainAsWas(t) ==
    /\ On(t, "set_objective", "list")
    /\ by_cycle' = Listing(Arg(t).id, Asked(t, "cycle"), Got(t).status, Got(t).roll)
    /\ Finish(t)
    /\ UNCHANGED <<objective, children, krRows, okrHistory>>

ListAgain(t) ==
    /\ On(t, "set_objective", "list")
    /\ by_cycle' = Listing(Arg(t).id, Asked(t, "cycle"), Asked(t, "status"), Got(t).roll)
    /\ Finish(t)
    /\ UNCHANGED <<objective, children, krRows, okrHistory>>

-----------------------------------------------------------------------------
(* delete_objective *)

ReadsToDelete(t) ==
    /\ On(t, "del_objective", "get")
    /\ LET old == objective[Arg(t).id] IN
        IF old = NoObjective THEN Quit(t) ELSE Seen(t, "krs", [old |-> old, ks |-> {}])

ReadsKrs(t) ==
    /\ On(t, "del_objective", "krs")
    /\ LET ks == KrsOf(Arg(t).id) IN
        Seen(t, IF ks = {} THEN "dropkrs" ELSE "said", [old |-> Got(t).old, ks |-> ks])

\* For each key result in turn: its check-ins, and its row of the lookup.
Forget(t) ==
    /\ On(t, "del_objective", "said")
    /\ \E k \in Got(t).ks :
        /\ check_ins' = [check_ins EXCEPT ![k] = <<>>]
        /\ Learn(t, "unlook", [old |-> Got(t).old, ks |-> Got(t).ks \ {k}, kr |-> k])
    /\ UNCHANGED <<objective, by_cycle, children, key_result, kr_lookup, home, okrHistory>>

Unlook(t) ==
    /\ On(t, "del_objective", "unlook")
    /\ kr_lookup' = kr_lookup \ {Got(t).kr}
    /\ Learn(t, IF Got(t).ks = {} THEN "dropkrs" ELSE "said",
             [old |-> Got(t).old, ks |-> Got(t).ks])
    /\ UNCHANGED <<objective, by_cycle, children, key_result, check_ins, home, okrHistory>>

DropKrs(t) ==
    /\ On(t, "del_objective", "dropkrs")
    /\ key_result' = [k \in KeyResults |->
            IF home[k] = Arg(t).id THEN NoKeyResult ELSE key_result[k]]
    /\ Goto(t, "list")
    /\ UNCHANGED <<objective, by_cycle, children, kr_lookup, check_ins, home, okrHistory>>

UnlistObjective(t) ==
    /\ On(t, "del_objective", "list")
    /\ by_cycle' = Unlisted(Arg(t).id, Got(t).old.cycle)
    /\ Goto(t, "kids")
    /\ UNCHANGED <<objective, children, krRows, okrHistory>>

Orphan(t) ==
    /\ On(t, "del_objective", "kids")
    /\ children' = {r \in children : r.parent # Arg(t).id}
    /\ Goto(t, IF Got(t).old.parent = "none" THEN "main" ELSE "leave")
    /\ UNCHANGED <<objective, by_cycle, krRows, okrHistory>>

LeaveParentForGood(t) ==
    /\ On(t, "del_objective", "leave")
    /\ children' = {r \in children : ~(r.parent = Got(t).old.parent /\ r.child = Arg(t).id)}
    /\ Goto(t, "main")
    /\ UNCHANGED <<objective, by_cycle, krRows, okrHistory>>

DeleteObjective(t) ==
    /\ On(t, "del_objective", "main")
    /\ objective' = [objective EXCEPT ![Arg(t).id] = NoObjective]
    /\ Finish(t)
    /\ UNCHANGED <<by_cycle, children, krRows, okrHistory>>

-----------------------------------------------------------------------------
(* Key results: the handler finds the objective first *)

Verify(t) ==
    \E op \in {"new_kr", "set_kr", "del_kr"} :
        /\ On(t, op, "verify")
        /\ IF objective[Arg(t).id] = NoObjective THEN Quit(t)
           ELSE Goto(t, IF op = "del_kr" THEN "say" ELSE "kr") /\ UNCHANGED okrVars

WriteKr(t, row) ==
    /\ key_result' = [key_result EXCEPT ![Arg(t).kr] = row]
    /\ stirred' = stirred \cup {Arg(t).id}

InsertKr(t) ==
    /\ On(t, "new_kr", "kr")
    /\ WriteKr(t, NewRow(Arg(t).kr))
    /\ Goto(t, "scan")
    /\ UNCHANGED <<objective, by_cycle, children, kr_lookup, check_ins, home,
                  named, edited, moved, unsound>>

\* The workspace is looked for, and without one there is no row to look up.
ScanObjective(t) ==
    /\ On(t, "new_kr", "scan")
    /\ IF objective[Arg(t).id] = NoObjective THEN Quit(t) ELSE Goto(t, "look") /\ UNCHANGED okrVars

InsertLookup(t) ==
    /\ On(t, "new_kr", "look")
    /\ kr_lookup' = kr_lookup \cup {Arg(t).kr}
    /\ Finish(t)
    /\ UNCHANGED <<objective, by_cycle, children, key_result, check_ins, home, okrHistory>>

\* The value stands for the other fields; progress is not computed again.
UpdateKr(t) ==
    /\ On(t, "set_kr", "kr")
    /\ WriteKr(t, [key_result[Arg(t).kr] EXCEPT !.value = Arg(t).value, !.there = TRUE])
    /\ edited' = edited \cup {Arg(t).kr}
    /\ Finish(t)
    /\ UNCHANGED <<objective, by_cycle, children, kr_lookup, check_ins, home,
                  named, moved, unsound>>

ForgetKr(t) ==
    /\ On(t, "del_kr", "say")
    /\ check_ins' = [check_ins EXCEPT ![Arg(t).kr] = <<>>]
    /\ edited' = edited \cup {Arg(t).kr}
    /\ Goto(t, "kr")
    /\ UNCHANGED <<objective, by_cycle, children, key_result, kr_lookup, home,
                  named, stirred, moved, unsound>>

DeleteKr(t) ==
    /\ On(t, "del_kr", "kr")
    /\ WriteKr(t, NoKeyResult)
    /\ Goto(t, "unlook")
    /\ UNCHANGED <<objective, by_cycle, children, kr_lookup, check_ins, home,
                  named, edited, moved, unsound>>

UnlookKr(t) ==
    /\ On(t, "del_kr", "unlook")
    /\ kr_lookup' = kr_lookup \ {Arg(t).kr}
    /\ Goto(t, "roll")
    /\ UNCHANGED <<objective, by_cycle, children, key_result, check_ins, home, okrHistory>>

-----------------------------------------------------------------------------
(* create_check_in *)

\* Through the lookup, or by a scan; the new value if there is no row.
ReadsValue(t) ==
    /\ On(t, "check_in", "value")
    /\ LET k == Arg(t).kr IN
        Seen(t, "say", [prev |-> IF key_result[k].there THEN key_result[k].value ELSE Arg(t).value])

InsertCheckIn(t) ==
    /\ On(t, "check_in", "say")
    /\ check_ins' = [check_ins EXCEPT ![Arg(t).kr] =
            Append(@, [prev |-> Got(t).prev, new |-> Arg(t).value])]
    /\ Goto(t, "find")
    /\ UNCHANGED <<objective, by_cycle, children, key_result, kr_lookup, home, okrHistory>>

\* find_objective_for_kr: by the lookup, or by a scan.
FindsObjective(t) ==
    /\ On(t, "check_in", "find")
    /\ IF LookedUp({Arg(t).kr}) # {} \/ key_result[Arg(t).kr].there
       THEN Goto(t, "kr") /\ UNCHANGED okrVars ELSE Quit(t)

\* The status of the key result, written next, is not modelled.
UpdateFromCheckIn(t) ==
    /\ On(t, "check_in", "kr")
    /\ WriteKr(t, [key_result[Arg(t).kr] EXCEPT
            !.value = Arg(t).value, !.conf = Arg(t).conf, !.there = TRUE])
    /\ Goto(t, "roll")
    /\ UNCHANGED <<objective, by_cycle, children, kr_lookup, check_ins, home,
                  named, edited, moved, unsound>>

-----------------------------------------------------------------------------
(* recompute_objective_progress *)

Recomputing(t, at) == On(t, "check_in", at) \/ On(t, "del_kr", at)

\* Without key results the progress stays what it was.
RollsUp(t) ==
    /\ Recomputing(t, "roll")
    /\ LET ks == KrsOf(Arg(t).id) IN
        IF ks = {} THEN Quit(t) ELSE Seen(t, "find_ws", [roll |-> Rolled(ks), ks |-> ks])

\* The workspace by the lookup of any key result, and then the cycle; or both
\* by a scan of the objectives.
FindsWorkspace(t) ==
    /\ Recomputing(t, "find_ws")
    /\ LET row == objective[Arg(t).id] IN
        IF LookedUp(Got(t).ks) = {} /\ row = NoObjective THEN Quit(t)
        ELSE Seen(t, "main", [roll |-> Got(t).roll, cycle |-> row.cycle])

WriteProgress(t) ==
    /\ Recomputing(t, "main")
    /\ objective' = [objective EXCEPT ![Arg(t).id].roll = Got(t).roll,
                                      ![Arg(t).id].status = Judged(Got(t).roll)]
    /\ stirred' = stirred \ {Arg(t).id}
    /\ IF Got(t).cycle = "none" THEN Finish(t) ELSE Goto(t, "list")
    /\ UNCHANGED <<by_cycle, children, krRows, named, edited, moved, unsound>>

ListProgress(t) ==
    /\ Recomputing(t, "list")
    /\ by_cycle' = Listing(Arg(t).id, Got(t).cycle, Judged(Got(t).roll), Got(t).roll)
    /\ Finish(t)
    /\ UNCHANGED <<objective, children, krRows, okrHistory>>

\* A task ends at an await: what it has written may disagree.
DropOkr(t) ==
    /\ Drop(t)
    /\ unsound' = IF call[t].op \in OkrOps THEN unsound \cup Named(Arg(t)) ELSE unsound
    /\ UNCHANGED <<okrRows, named, stirred, edited, moved>>

OkrsStep(t) ==
    \/ NewObjective(t) \/ SetObjective(t) \/ DelObjective(t)
    \/ NewKr(t) \/ SetKr(t) \/ DelKr(t) \/ CheckIn(t)
    \/ InsertObjective(t) \/ ListObjective(t) \/ AdoptObjective(t)
    \/ ReadsObjective(t) \/ WriteStatus(t) \/ LeaveParent(t) \/ WriteParent(t) \/ JoinParent(t)
    \/ UnlistOld(t) \/ ListAgain(t)
    \/ ReadsToDelete(t) \/ ReadsKrs(t) \/ Forget(t) \/ Unlook(t) \/ DropKrs(t)
    \/ UnlistObjective(t) \/ Orphan(t) \/ LeaveParentForGood(t) \/ DeleteObjective(t)
    \/ Verify(t) \/ InsertKr(t) \/ ScanObjective(t) \/ InsertLookup(t) \/ UpdateKr(t)
    \/ ForgetKr(t) \/ DeleteKr(t) \/ UnlookKr(t)
    \/ ReadsValue(t) \/ InsertCheckIn(t) \/ FindsObjective(t) \/ UpdateFromCheckIn(t)
    \/ RollsUp(t) \/ FindsWorkspace(t) \/ WriteProgress(t) \/ ListProgress(t) \/ DropOkr(t)

-----------------------------------------------------------------------------
(* What the page of a cycle shows. *)

Still(o) == o \notin WorkedOn \cup unsound

\* After a check-in, or the deletion of a key result but the last, the progress
\* of an objective is that of its key results, whether they go up or down and
\* whether they are in the lookup or not.
RolledUp ==
    \A o \in Objectives \ stirred :
        Still(o) /\ objective[o] # NoObjective => objective[o].roll = Rolled(KrsOf(o))

\* The page of its cycle lists an objective once, with the status and the
\* progress of the objective, and no other page does, as long as it has not
\* been moved; and nothing is listed of one that was deleted.
ListedOnce ==
    \A o \in Objectives \ moved : Still(o) =>
        {r \in UNION {PageOf(c) : c \in Cycles} : r.id = o} =
            IF objective[o] = NoObjective THEN {}
            ELSE {[id |-> o, cycle |-> objective[o].cycle, status |-> objective[o].status,
                   roll |-> objective[o].roll]}

\* A parent that was not deleted lists an objective as its child when, and only
\* when, the objective names it as its parent; a deleted one lists nothing.
ChildrenAgree ==
    \A o, p \in Objectives : Still(o) /\ Still(p) =>
        (o \in ChildrenOf(p)
            <=> (objective[p] # NoObjective /\ objective[o] # NoObjective
                 /\ objective[o].parent = p))

\* The check-ins of a key result that was not changed directly are a chain:
\* each begins where the one before it ended, and the last is its value.
CheckInsChain ==
    \A k \in KeyResults :
        home[k] # "none" /\ k \notin edited /\ Still(home[k]) /\ key_result[k].there =>
            LET said == check_ins[k]
                n    == Len(said) IN
            /\ \A i \in 1..n :
                said[i].prev = IF i = 1 THEN key_result[k].span.start ELSE said[i - 1].new
            /\ n > 0 => key_result[k].value = said[n].new

\* An objective's progress is that of its key results, its place on a page and
\* its place under a parent agree, and so do the check-ins with their key
\* result (update_objective, create_check_in, recompute_objective_progress).
ObjectivesAgree == RolledUp /\ ListedOnce /\ ChildrenAgree /\ CheckInsChain
=============================================================================
