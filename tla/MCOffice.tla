------------------------------- MODULE MCOffice -------------------------------
(* What an assistant and its team keep: meetings, appointments, integrations, *)
(* objectives, shares and the public payment form.  The six share no table    *)
(* that their properties read, and a behaviour is one of one of them (area);  *)
(* the others are then as after their first Init.                             *)
EXTENDS Meetings, Appointments, Integrations, Okrs, Sharing, CardForm

CONSTANTS a1, a2, p1, p2

\* Ids and numbers are compared and stored, never looked into.
Alike == Permutations({a1, a2}) \cup Permutations({p1, p2})

OpenHours == <<2, 6>>
SlotsAsked == {[start |-> 1, dur |-> 1], [start |-> 2, dur |-> 2], [start |-> 3, dur |-> 0]}
EditsAsked == {[start |-> 3, dur |-> 0, status |-> "same"],
               [start |-> 0, dur |-> 2, status |-> "same"],
               [start |-> 0, dur |-> 0, status |-> "same"],
               [start |-> 0, dur |-> 0, status |-> "cancelled"]}

\* A key result that goes up and one that goes down.
Spans == [k1 |-> [start |-> 0, target |-> 2, type |-> "number"],
          k2 |-> [start |-> 2, target |-> 1, type |-> "number"]]

AllAnswers == Payment \cup {"error"}

VARIABLE area

Budget == [meetings     |-> {[calls |-> 5, drops |-> 0], [calls |-> 4, drops |-> 1]},
           appointments |-> {[calls |-> 3, drops |-> 0], [calls |-> 2, drops |-> 1]},
           integrations |-> {[calls |-> 3, drops |-> 0], [calls |-> 2, drops |-> 1]},
           okrs         |-> {[calls |-> 3, drops |-> 0], [calls |-> 2, drops |-> 1]},
           sharing      |-> {[calls |-> 4, drops |-> 1]},
           form         |-> {[calls |-> 0, drops |-> 0]}]

\* A component that does not run starts as its fewest rows; an integration has
\* failed no probe or all but one; an objective whose key results are
\* not in the lookup leaves two calls.
OfficeInit ==
    /\ area \in DOMAIN Budget /\ TasksInit(Budget[area])
    /\ MeetingsInit /\ AppointmentsInit /\ IntegrationsInit /\ OkrsInit /\ SharingInit /\ Init
    /\ area # "meetings" => rate = 0
    /\ area # "integrations" => used = {}
    /\ \A i \in used : fails[i] \in {0, FailLimit - 1}
    /\ area # "okrs" => named = {}
    /\ named # {} /\ kr_lookup = {} => calls = 2

OfficeNext ==
    \/ /\ area = "meetings"
       /\ \E t \in Tasks : MeetingsStep(t) \/ (Drop(t) /\ UNCHANGED mtgVars)
       /\ UNCHANGED <<area, apVars, inVars, okrVars, shVars, vars>>
    \/ /\ area = "appointments" /\ \E t \in Tasks : AppointmentsStep(t)
       /\ UNCHANGED <<area, mtgVars, inVars, okrVars, shVars, vars>>
    \/ /\ area = "integrations" /\ \E t \in Tasks : IntegrationsStep(t)
       /\ UNCHANGED <<area, mtgVars, apVars, okrVars, shVars, vars>>
    \/ /\ area = "okrs" /\ \E t \in Tasks : OkrsStep(t)
       /\ UNCHANGED <<area, mtgVars, apVars, inVars, shVars, vars>>
    \/ /\ area = "sharing" /\ \E t \in Tasks : SharingStep(t)
       /\ UNCHANGED <<area, mtgVars, apVars, inVars, okrVars, vars>>
    \/ /\ area = "form" /\ Next
       /\ UNCHANGED <<area, tasking, mtgVars, apVars, inVars, okrVars, shVars>>

OfficeSpec ==
    OfficeInit /\ [][OfficeNext]_<<area, tasking, mtgVars, apVars, inVars, okrVars, shVars, vars>>
=============================================================================
