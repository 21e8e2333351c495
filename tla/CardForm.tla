------------------------------- MODULE CardForm -------------------------------
(***************************************************************************)
(* The public payment page of a Mercado Pago card charge.  Its form posts  *)
(* to process_mp_card_payment, which reads the charge, makes a payment at  *)
(* the provider and writes what the provider answered.  The client may     *)
(* submit again, from the same page or from another one, and a submission  *)
(* may stop at any await: a call fails, the client leaves, the process     *)
(* restarts.                                                               *)
(*                                                                         *)
(* Nothing else writes such a charge.  The webhook is logged and dropped;  *)
(* the poller and the live checks search payments by external_reference,   *)
(* which the form does not set, so that they find none.                    *)
(***************************************************************************)
EXTENDS Naturals, FiniteSets

CONSTANTS
    Forms,       \* the submissions of the form
    Answers,     \* what the provider may answer to a payment
    MaxStops     \* bound: submissions that stop at an await

Payment == {"approved", "in_process", "authorized", "rejected"}

ASSUME FormAssumption ==
    /\ IsFiniteSet(Forms)
    /\ Answers \subseteq Payment \cup {"error"}
    /\ MaxStops \in Nat

VARIABLES
    main,       \* status in card_charges
    listing,    \* status in card_charges_by_assistant
    pc,         \* where each submission is
    paid,       \* the answer to its payment, as the provider has it now
    seen,       \* the answer as the handler maps it
    told,       \* history: has anyone been told the charge is paid?
    overlap,    \* history: has a submission begun before another had ended?
    stops       \* history: submissions that stopped

vars == <<main, listing, pc, paid, seen, told, overlap, stops>>

None == "none"

Init ==
    /\ main = "pending" /\ listing = "pending"
    /\ pc = [f \in Forms |-> "idle"]
    /\ paid = [f \in Forms |-> None]
    /\ seen = [f \in Forms |-> None]
    /\ told = FALSE /\ overlap = FALSE /\ stops = 0

MoveTo(f, where) == pc' = [pc EXCEPT ![f] = where]

Settled(f) == pc[f] \in {"idle", "done", "refused"}

\* Mutant of Mapped: a payment the provider reviews counts as approved.
MappedOptimistic(answer) ==
    CASE answer \in {"approved", "in_process"} -> "approved"
      [] answer = "rejected" -> "cancelled"
      [] OTHER -> "pending"

Mapped(answer) ==
    CASE answer = "approved" -> "approved"
      [] answer = "rejected" -> "cancelled"
      [] OTHER -> "pending"

\* Mutant of Submit: forgets to look at the status.
SubmitUnseen(f) ==
    /\ pc[f] = "idle"
    /\ overlap' = (overlap \/ \E g \in Forms : ~ Settled(g))
    /\ MoveTo(f, "post")
    /\ UNCHANGED <<main, listing, paid, seen, told, stops>>

\* "Cobranca ja foi processada" is the answer unless the charge is pending.
Submit(f) ==
    /\ pc[f] = "idle"
    /\ overlap' = (overlap \/ \E g \in Forms : ~ Settled(g))
    /\ MoveTo(f, IF main = "pending" THEN "post" ELSE "refused")
    /\ UNCHANGED <<main, listing, paid, seen, told, stops>>

\* The idempotency key is drawn anew: the provider sees a new payment.  An
\* error is told to the page as a rejection, and nothing is written.
Charge(f) ==
    /\ pc[f] = "post"
    /\ \E answer \in Answers :
        IF answer = "error"
        THEN MoveTo(f, "done") /\ UNCHANGED <<paid, seen>>
        ELSE /\ paid' = [paid EXCEPT ![f] = answer]
             /\ seen' = [seen EXCEPT ![f] = Mapped(answer)]
             /\ MoveTo(f, "main")
    /\ UNCHANGED <<main, listing, told, overlap, stops>>

AfterUpdate(f) == IF seen[f] = "approved" THEN "tell" ELSE "done"

UpdateMain(f) ==
    /\ pc[f] = "main"
    /\ main' = seen[f]
    /\ MoveTo(f, "listing")
    /\ UNCHANGED <<listing, paid, seen, told, overlap, stops>>

UpdateListing(f) ==
    /\ pc[f] = "listing"
    /\ listing' = seen[f]
    /\ MoveTo(f, AfterUpdate(f))
    /\ UNCHANGED <<main, paid, seen, told, overlap, stops>>

Tell(f) ==
    /\ pc[f] = "tell"
    /\ told' = TRUE
    /\ MoveTo(f, "done")
    /\ UNCHANGED <<main, listing, paid, seen, overlap, stops>>

\* What the submission has done is not undone; the page says that the
\* connection failed and asks the client to try again.
Stop(f) ==
    /\ ~ Settled(f)
    /\ stops < MaxStops /\ stops' = stops + 1
    /\ MoveTo(f, "done")
    /\ UNCHANGED <<main, listing, paid, seen, told, overlap>>

-----------------------------------------------------------------------------
(* The provider. *)

\* The provider ends its review.
Review(f) ==
    /\ paid[f] = "in_process"
    /\ \E answer \in {"approved", "rejected"} : paid' = [paid EXCEPT ![f] = answer]
    /\ UNCHANGED <<main, listing, pc, seen, told, overlap, stops>>

-----------------------------------------------------------------------------

Step(f) == Submit(f) \/ Charge(f) \/ UpdateMain(f) \/ UpdateListing(f) \/ Tell(f)

Next == \E f \in Forms : Step(f) \/ Stop(f) \/ Review(f)

Spec == Init /\ [][Next]_vars

-----------------------------------------------------------------------------
(* Properties. *)

Statuses == {"pending", "approved", "cancelled"}

\* The shape of the state: what a submission read is only what Mapped gives.
TypeOK ==
    /\ {main, listing} \subseteq Statuses
    /\ pc \in [Forms -> {"idle", "post", "main", "listing", "tell", "done", "refused"}]
    /\ paid \in [Forms -> Payment \cup {None}]
    /\ seen \in [Forms -> Statuses \cup {None}]
    /\ \A f \in Forms : pc[f] \in {"main", "listing", "tell"} => seen[f] # None
    /\ told \in BOOLEAN /\ overlap \in BOOLEAN /\ stops \in 0 .. MaxStops

Approved == {f \in Forms : paid[f] = "approved"}

\* No overlap of submissions, late answer or stop makes a table or a message
\* say "approved" unless the provider approved a payment
\* (process_mp_card_payment, update_charge_status).
ApprovedMeansPaid == "approved" \in {main, listing} \/ told => Approved # {}

\* Submissions that follow one another, none stopped and none left in review,
\* charge the card at most once: the status read first is enough then.
InTurn == ~ overlap /\ stops = 0 /\ \A f \in Forms : seen[f] # "pending"
ChargedOnceInTurn == InTurn => Cardinality(Approved) <= 1

AtRest == stops = 0 /\ \A f \in Forms : Settled(f)

\* And once they are over, both tables show the payment that was approved.
PaidIsShown ==
    AtRest /\ InTurn /\ Approved # {} => main = "approved" /\ listing = "approved"

\* A charge that the last of overlapping submissions shows as paid has been
\* announced once they are done, unless one was stopped.
PaidIsTold == AtRest /\ main = "approved" => told

\* Approved is shown only when it is true, and told whenever it is shown.
ApprovalsHold == ApprovedMeansPaid /\ PaidIsTold

\* Submissions in turn pay once and show it (process_mp_card_payment).
PaysOnce == ChargedOnceInTurn /\ PaidIsShown
=============================================================================
