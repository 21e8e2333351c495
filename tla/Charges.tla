------------------------------- MODULE Charges -------------------------------
(***************************************************************************)
(* One charge created by the pix_payment or the card_payment tool and paid *)
(* at a provider.  Three kinds of process learn of the payment and write   *)
(* its status: the background poller the charge is created with, the live  *)
(* checks the agent asks for, and the handlers of the provider's webhooks. *)
(* Each fetches the status, updates two tables with unconditional UPDATEs  *)
(* and tells the members and the client; every await is a step boundary.   *)
(*                                                                         *)
(* A card charge has no webhook that writes: Mercado Pago's is logged and   *)
(* dropped, and Stripe's looks for a checkout session id where the charge  *)
(* keeps the id of its payment intent.                                     *)
(*                                                                         *)
(* A status with no meaning for the code (MP's "authorized") is stored as  *)
(* it came.  A charge in "direct" mode has no payment and no process.      *)
(***************************************************************************)
EXTENDS Naturals, FiniteSets

CONSTANTS
    Poller,            \* the poller of the charge
    Checks,            \* concurrent live checks of the charge
    Hooks,             \* concurrent webhook deliveries (none for a card)
    Moves,             \* pairs of raw statuses: what the provider may do
    MaxPolls,          \* max_attempts of the poller
    MaxFaults,         \* bound: failing calls and restarts
    RefusedReadable    \* does the driver decode the reply of a refused LWT?

Writers == {Poller} \cup Checks \cup Hooks
Raw     == {"pending", "in_process", "authorized", "approved", "rejected", "refunded"}

ASSUME ChargeAssumption ==
    /\ Poller \notin Checks \cup Hooks /\ Checks \cap Hooks = {}
    /\ Moves \subseteq Raw \X Raw
    /\ MaxPolls \in Nat /\ MaxFaults \in Nat /\ RefusedReadable \in BOOLEAN

VARIABLES
    payment,    \* the provider's status of the payment
    was,        \* history: every status the payment has had, each announced
                \* by a webhook the provider may deliver again
    stage,      \* how far create_charge has come
    main,       \* status in pix_charges / card_charges
    listing,    \* status in the by_assistant table, at the charge's key
    phantom,    \* status of the row at created_at = 0 of that table
    indexed,    \* is the charge in the by_mp_id table?
    polls,      \* attempts the poller has made
    pc,         \* where each writer is
    seen,       \* the status a writer fetched, as the code maps it
    keyed,      \* did the writer learn the charge's created_at?
    marked,     \* is the event id in processed_webhooks?
    heard,      \* history: the announcements a handler has worked on
    lost,       \* history: was one refused as a duplicate that none worked on?
    told,       \* history: has anyone been told the charge is paid?
    faults      \* history: calls that failed, and restarts

stored  == <<main, listing, phantom, indexed>>
hooking == <<marked, heard, lost>>
vars == <<payment, was, stage, stored, polls, pc, seen, keyed, hooking, told, faults>>

None == "none"

\* Mutant of Mapped: an authorization counts as a payment.
MappedOptimistic(raw) ==
    CASE raw \in {"pending", "in_process"} -> "pending"
      [] raw \in {"authorized", "approved"} -> "approved"
      [] raw = "rejected" -> "cancelled"
      [] OTHER -> raw

\* fetch_mp_payment_status: a status it does not know passes unchanged.
Mapped(raw) ==
    CASE raw \in {"pending", "in_process"} -> "pending"
      [] raw = "rejected" -> "cancelled"
      [] OTHER -> raw

Init ==
    /\ payment = None /\ was = {} /\ stage = "pay"
    /\ main = None /\ listing = None /\ phantom = None /\ indexed = FALSE
    /\ polls = 0
    /\ pc = [w \in Writers |-> IF w = Poller THEN "off" ELSE "idle"]
    /\ seen = [w \in Writers |-> None]
    /\ keyed = [w \in Writers |-> FALSE]
    /\ marked = FALSE /\ heard = {} /\ lost = FALSE
    /\ told = FALSE /\ faults = 0

Goto(w, where) == pc' = [pc EXCEPT ![w] = where]

Fault == faults < MaxFaults /\ faults' = faults + 1

-----------------------------------------------------------------------------
(* The provider. *)

ProviderMoves ==
    /\ \E next \in Raw :
        /\ <<payment, next>> \in Moves
        /\ payment' = next
        /\ was' = was \cup {next}
    /\ UNCHANGED <<stage, stored, polls, pc, seen, keyed, hooking, told, faults>>

-----------------------------------------------------------------------------
(* create_charge and its caller: the payment first, then four statements. *)

CreatePayment ==
    /\ stage = "pay"
    /\ payment' = "pending" /\ was' = {"pending"}
    /\ stage' = "insert"
    /\ UNCHANGED <<stored, polls, pc, seen, keyed, hooking, told, faults>>

InsertCharge ==
    /\ stage = "insert"
    /\ main' = "pending"
    /\ stage' = "fields"
    /\ UNCHANGED <<payment, was, listing, phantom, indexed, polls, pc, seen, keyed,
                   hooking, told, faults>>

SetFields ==
    /\ stage = "fields"
    /\ stage' = "list"
    /\ UNCHANGED <<payment, was, stored, polls, pc, seen, keyed, hooking, told, faults>>

InsertListing ==
    /\ stage = "list"
    /\ listing' = "pending"
    /\ stage' = "index"
    /\ UNCHANGED <<payment, was, main, phantom, indexed, polls, pc, seen, keyed,
                   hooking, told, faults>>

InsertIndex ==
    /\ stage = "index"
    /\ indexed' = TRUE
    /\ stage' = "spawn"
    /\ UNCHANGED <<payment, was, main, listing, phantom, polls, pc, seen, keyed,
                   hooking, told, faults>>

\* The caller hands the charge to the client and spawns the poller.
SpawnPoller ==
    /\ stage = "spawn"
    /\ stage' = "done"
    /\ Goto(Poller, "asleep")
    /\ UNCHANGED <<payment, was, stored, polls, seen, keyed, hooking, told, faults>>

\* The statements already made are not undone.
CreateFails ==
    /\ stage \in {"pay", "insert", "fields", "list", "index"}
    /\ Fault
    /\ stage' = "failed"
    /\ UNCHANGED <<payment, was, stored, polls, pc, seen, keyed, hooking, told>>

-----------------------------------------------------------------------------
(* What the three kinds of writer have in common. *)

End(w) == IF w = Poller THEN "off" ELSE "idle"

\* Where a writer goes when the status is still pending, or was not obtained.
Again(w) == IF w = Poller THEN "asleep" ELSE "idle"

AfterUpdate(w) == IF seen[w] = "approved" THEN "tell" ELSE End(w)

\* A failed UPDATE ends a webhook's handler; the other two ignore it.
AfterFailure(w) == IF w \in Hooks THEN "idle" ELSE AfterUpdate(w)

\* Mutant of Ask: acts on a pending status like on any other.
AskAlways(w) ==
    /\ pc[w] = "asking"
    /\ seen' = [seen EXCEPT ![w] = Mapped(payment)]
    /\ Goto(w, IF w \in Checks THEN "main" ELSE "key")
    /\ UNCHANGED <<payment, was, stage, stored, polls, keyed, hooking, told, faults>>

\* The provider answers.  Only a webhook goes on with a pending status; a
\* check has the charge's key from the row it read.
Ask(w) ==
    /\ pc[w] = "asking"
    /\ seen' = [seen EXCEPT ![w] = Mapped(payment)]
    /\ Goto(w, IF Mapped(payment) = "pending" /\ w \notin Hooks THEN Again(w)
               ELSE IF w \in Checks THEN "main" ELSE "key")
    /\ UNCHANGED <<payment, was, stage, stored, polls, keyed, hooking, told, faults>>

\* The request fails, or the tenant's token is gone: that stops the poller.
AskFails(w) ==
    /\ pc[w] = "asking"
    /\ Fault
    /\ \E next \in {Again(w), End(w)} : Goto(w, next)
    /\ UNCHANGED <<payment, was, stage, stored, polls, seen, keyed, hooking, told>>

ReadKey(w) ==
    /\ pc[w] = "key"
    /\ keyed' = [keyed EXCEPT ![w] = TRUE]
    /\ Goto(w, "main")
    /\ UNCHANGED <<payment, was, stage, stored, polls, seen, hooking, told, faults>>

\* The poller goes on with the epoch as created_at.
ReadKeyFails(w) ==
    /\ pc[w] = "key"
    /\ Fault
    /\ Goto(w, IF w \in Hooks THEN "idle" ELSE "main")
    /\ UNCHANGED <<payment, was, stage, stored, polls, seen, keyed, hooking, told>>

UpdateMain(w) ==
    /\ pc[w] = "main"
    /\ main' = seen[w]
    /\ Goto(w, "listing")
    /\ UNCHANGED <<payment, was, stage, listing, phantom, indexed, polls, seen, keyed,
                   hooking, told, faults>>

\* An UPDATE is an upsert: with the wrong key it makes a row of its own.
UpdateListing(w) ==
    /\ pc[w] = "listing"
    /\ IF keyed[w] THEN listing' = seen[w] /\ UNCHANGED phantom
                   ELSE phantom' = seen[w] /\ UNCHANGED listing
    /\ Goto(w, AfterUpdate(w))
    /\ UNCHANGED <<payment, was, stage, main, indexed, polls, seen, keyed, hooking,
                   told, faults>>

UpdateFails(w) ==
    /\ pc[w] \in {"main", "listing"}
    /\ Fault
    /\ Goto(w, AfterFailure(w))
    /\ UNCHANGED <<payment, was, stage, stored, polls, seen, keyed, hooking, told>>

Tell(w) ==
    /\ pc[w] = "tell"
    /\ told' = TRUE
    /\ Goto(w, End(w))
    /\ UNCHANGED <<payment, was, stage, stored, polls, seen, keyed, hooking, faults>>

\* The poller and the webhook read the charge once more before they tell.
TellFails(w) ==
    /\ pc[w] = "tell" /\ w \notin Checks
    /\ Fault
    /\ Goto(w, End(w))
    /\ UNCHANGED <<payment, was, stage, stored, polls, seen, keyed, hooking, told>>

-----------------------------------------------------------------------------
(* What starts a writer. *)

\* Mutant of Poll: stops one attempt early.
PollShort ==
    /\ pc[Poller] = "asleep"
    /\ IF polls + 1 >= MaxPolls THEN Goto(Poller, "off") /\ UNCHANGED polls
                                ELSE Goto(Poller, "asking") /\ polls' = polls + 1
    /\ UNCHANGED <<payment, was, stage, stored, seen, keyed, hooking, told, faults>>

\* Ten seconds have passed: another attempt, or the time-out.
Poll ==
    /\ pc[Poller] = "asleep"
    /\ IF polls = MaxPolls THEN Goto(Poller, "off") /\ UNCHANGED polls
                           ELSE Goto(Poller, "asking") /\ polls' = polls + 1
    /\ UNCHANGED <<payment, was, stage, stored, seen, keyed, hooking, told, faults>>

\* The agent knows the charge's id once create_charge has returned; a row
\* that is not pending is answered as it stands.
BeginCheck(c) ==
    /\ stage = "done" /\ pc[c] = "idle"
    /\ main = "pending"
    /\ Goto(c, "asking")
    /\ keyed' = [keyed EXCEPT ![c] = TRUE]
    /\ UNCHANGED <<payment, was, stage, stored, polls, seen, hooking, told, faults>>

Work(h, note) ==
    /\ heard' = heard \cup {note}
    /\ Goto(h, "lookup")
    /\ keyed' = [keyed EXCEPT ![h] = FALSE]

\* The event id is the topic and the payment's id: all announcements of one
\* payment have the same.
Receive(h) ==
    /\ pc[h] = "idle"
    /\ \E note \in was :
        \/ /\ marked /\ RefusedReadable
           /\ lost' = (lost \/ note \notin heard)
           /\ UNCHANGED <<marked, heard, pc, keyed, faults>>
        \/ /\ ~ (marked /\ RefusedReadable)
           /\ marked' = TRUE
           /\ Work(h, note)
           /\ UNCHANGED <<lost, faults>>
        \/ /\ Fault                     \* dedup check failed, continuing
           /\ Work(h, note)
           /\ UNCHANGED <<marked, lost>>
    /\ UNCHANGED <<payment, was, stage, stored, polls, seen, told>>

Lookup(h) ==
    /\ pc[h] = "lookup"
    /\ Goto(h, IF indexed THEN "asking" ELSE "idle")
    /\ UNCHANGED <<payment, was, stage, stored, polls, seen, keyed, hooking, told, faults>>

LookupFails(h) ==
    /\ pc[h] = "lookup"
    /\ Fault
    /\ Goto(h, "idle")
    /\ UNCHANGED <<payment, was, stage, stored, polls, seen, keyed, hooking, told>>

\* processed_webhooks keeps an event id for a day.
MarkExpires ==
    /\ marked /\ pc[Poller] = "off" /\ stage \in {"done", "failed"}
    /\ marked' = FALSE
    /\ UNCHANGED <<payment, was, stage, stored, polls, pc, seen, keyed, heard, lost,
                   told, faults>>

\* A restart of the process ends every task, and no poller is spawned again.
Restart ==
    /\ stage # "pay"
    /\ Fault
    /\ stage' = IF stage = "done" THEN "done" ELSE "failed"
    /\ pc' = [w \in Writers |-> End(w)]
    /\ UNCHANGED <<payment, was, stored, polls, seen, keyed, hooking, told>>

-----------------------------------------------------------------------------

Create ==
    CreatePayment \/ InsertCharge \/ SetFields \/ InsertListing \/ InsertIndex \/ SpawnPoller

Write(w) ==
    \/ Ask(w) \/ ReadKey(w) \/ UpdateMain(w) \/ UpdateListing(w) \/ Tell(w)

WriteFails(w) ==
    \/ AskFails(w) \/ ReadKeyFails(w) \/ UpdateFails(w) \/ TellFails(w)

Next ==
    \/ ProviderMoves
    \/ Create
    \/ CreateFails
    \/ Poll
    \/ \E c \in Checks : BeginCheck(c)
    \/ \E h \in Hooks : Receive(h) \/ Lookup(h) \/ LookupFails(h)
    \/ \E w \in Writers : Write(w) \/ WriteFails(w)
    \/ MarkExpires
    \/ Restart

Spec == Init /\ [][Next]_vars

\* A task that can run runs; nobody has to pay, to ask or to call a webhook.
FairSpec ==
    /\ Spec
    /\ WF_vars(Create)
    /\ WF_vars(Poll)
    /\ \A h \in Hooks : WF_vars(Lookup(h))
    /\ \A w \in Writers : WF_vars(Write(w))

-----------------------------------------------------------------------------
(* Properties. *)

Statuses == {None, "pending", "authorized", "approved", "cancelled", "refunded"}

\* The shape of the state, and what each kind of writer can be doing.
TypeOK ==
    /\ payment \in Raw \cup {None} /\ was \subseteq Raw
    /\ {main, listing, phantom} \subseteq Statuses
    /\ polls \in 0 .. MaxPolls /\ faults \in 0 .. MaxFaults
    /\ seen \in [Writers -> Statuses] /\ keyed \in [Writers -> BOOLEAN]
    /\ pc[Poller] \in {"off", "asleep", "asking", "key", "main", "listing", "tell"}
    /\ \A c \in Checks : pc[c] \in {"idle", "asking", "main", "listing", "tell"}
    /\ \A h \in Hooks :
        pc[h] \in {"idle", "lookup", "asking", "key", "main", "listing", "tell"}
    /\ indexed \in BOOLEAN /\ marked \in BOOLEAN /\ told \in BOOLEAN
    /\ lost \in BOOLEAN /\ heard \subseteq was

\* Whatever the writers overwrite of each other's, no table shows the charge
\* as approved and nobody is told so unless the provider approved it
\* (fetch_mp_payment_status, update_charge_status, notify_*).
ApprovedMeansPaid ==
    "approved" \in {main, listing, phantom} \/ told => "approved" \in was

\* A settled charge goes back to pending only by the late answer of a
\* webhook: pollers and live checks stop at a pending status.
Reopened == main \notin {None, "pending"} /\ main' = "pending"
OnlyWebhooksReopen ==
    [][Reopened => \E h \in Hooks : pc[h] = "main" /\ seen[h] = "pending"]_vars

AtRest == stage = "done" /\ \A w \in Writers : pc[w] \in {"off", "idle", "asleep"}

\* As long as the provider has given one final answer and no webhook has been
\* worked on, the dashboard's table and the charge agree whenever no writer is
\* between its two UPDATEs, whichever of poller and live checks came first.
FinalAnswers == was \ {"pending", "in_process"}
TablesAgree ==
    AtRest /\ faults = 0 /\ heard = {} /\ Cardinality(FinalAnswers) <= 1 => main = listing

\* A charge that is shown as approved has been announced to the client once
\* its writers are done, unless a call failed or the process stopped.
PaidIsTold == AtRest /\ faults = 0 /\ main = "approved" => told

\* A payment approved while the poller has an attempt left is recorded, unless
\* it is taken back before.
PaidIsRecorded ==
    (payment = "approved" /\ pc[Poller] = "asleep" /\ polls < MaxPolls)
        ~> (main = "approved" \/ payment # "approved" \/ faults > 0)

\* The handler of the webhooks: type and data.id "uniquely identify the
\* event", so that only what has been worked on is refused as a duplicate.
OnlyRepeatsDropped == ~ lost

\* What the tables and the messages say of a charge is true, and they agree
\* (update_charge_status, notify_*).
ChargeTrue == TypeOK /\ ApprovedMeansPaid /\ TablesAgree /\ PaidIsTold
=============================================================================
