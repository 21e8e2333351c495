---------------------------- MODULE MCBackground ----------------------------
(* What runs behind the turns: the compaction of a long conversation, the    *)
(* evaluation of replies, and the daily curation.  The three share no table  *)
(* that their properties read, and a behaviour is one of one of them (area); *)
(* the others are then as after their first Init.                            *)
EXTENDS Compaction, Evaluator, Curation, TLC

CONSTANTS c1, c2, a1, a2

\* Ids are compared and stored, never looked into.
Alike == Permutations({c1, c2}) \cup Permutations({a1, a2})

VARIABLE area

Budget == [compaction |-> {[calls |-> 3, drops |-> 1]},
           evaluator  |-> {[calls |-> 3, drops |-> 0], [calls |-> 2, drops |-> 1]},
           curation   |-> {[calls |-> 0, drops |-> 0]}]

BackgroundInit ==
    /\ area \in DOMAIN Budget /\ TasksInit(Budget[area])
    /\ CompactionInit /\ EvaluatorInit /\ CurationInit
    /\ area # "compaction" => messages = <<>>

BackgroundNext ==
    \/ /\ area = "compaction"
       /\ SlotExpires \/ \E t \in Tasks : CompactionStep(t)
       /\ UNCHANGED <<area, evVars, cuVars>>
    \/ /\ area = "evaluator"
       /\ Drains \/ DrainFails \/ \E t \in Tasks : EvaluatorStep(t)
       /\ UNCHANGED <<area, cpVars, cuVars>>
    \/ /\ area = "curation" /\ CurationNext
       /\ UNCHANGED <<area, tasking, cpVars, evVars>>

BackgroundSpec ==
    BackgroundInit /\ [][BackgroundNext]_<<area, tasking, cpVars, evVars, cuVars>>
=============================================================================
