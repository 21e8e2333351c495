---------------------------- MODULE Charges_proofs ----------------------------
(***************************************************************************)
(* Proofs about Charges, for any number of live checks and webhooks, any   *)
(* number of attempts, and whatever a provider may do to a payment.        *)
(*                                                                         *)
(* That the tables agree is not inductive: between its two UPDATEs a       *)
(* writer leaves them apart.  As long as there is one final answer and no  *)
(* webhook (Calm) every writer brings the same answer, and a listing that  *)
(* is behind is behind because some writer is between its UPDATEs          *)
(* (Steady).                                                               *)
(***************************************************************************)
EXTENDS Charges, FiniteSetTheorems, TLAPS

Own == {Poller} \cup Checks

\* Every writer is somewhere.
Places == {"off", "idle", "lookup", "asleep", "asking", "key", "main", "listing", "tell"}
Placed == pc \in [Writers -> Places]

\* A status is only fetched, stored or told when the provider has had it.
Backed ==
    /\ payment # None => payment \in was
    /\ \A w \in Writers : seen[w] = "approved" => "approved" \in was
    /\ \A w \in Writers : pc[w] = "tell" => seen[w] = "approved"
    /\ ApprovedMeansPaid

\* What a poller or a live check has to write is not pending.
NotPending == \A w \in Own : pc[w] \in {"key", "main", "listing", "tell"} => seen[w] # "pending"

\* Who stored the approval has told it, or is about to.
Announcing ==
    faults = 0 /\ main = "approved" =>
        told \/ \E w \in Writers : seen[w] = "approved" /\ pc[w] \in {"listing", "tell"}

\* Nobody writes before the charge is created.
Lifecycle ==
    /\ stage \in {"pay", "insert", "fields", "list", "index", "spawn", "done", "failed"}
    /\ stage = "pay" => payment = None /\ was = {}
    /\ stage \notin {"pay", "failed"} => payment # None
    /\ stage \in {"spawn", "done"} => indexed
    /\ stage # "done" => \A w \in Own : pc[w] = End(w)
    /\ stage \in {"pay", "insert"} => main = None
    /\ stage \in {"pay", "insert", "fields", "list", "index"} => ~ indexed
    /\ ~ indexed => \A h \in Hooks : pc[h] \in {"idle", "lookup"}

Calm   == faults = 0 /\ heard = {} /\ \A x, y \in FinalAnswers : x = y
Finals == {Mapped(f) : f \in FinalAnswers}

\* In the calm nobody brings anything but the final answer, and a listing that
\* is behind has somebody who will update it.
Bringing ==
    \A w \in Own : /\ pc[w] \in {"key", "main", "listing", "tell"} => seen[w] \in Finals
                   /\ pc[w] \in {"main", "listing"} => keyed[w]
                   /\ w \in Checks /\ pc[w] = "asking" => keyed[w]
                   /\ pc[w] = "listing" => main \in Finals
Following ==
    stage = "done" =>
        /\ main \in {"pending"} \cup Finals /\ listing \in {"pending"} \cup Finals
        /\ \/ main = listing
           \/ listing = "pending" /\ \E w \in Own : pc[w] = "listing"
Steady ==
    Calm =>
        /\ \A h \in Hooks : pc[h] = "idle"
        /\ stage \in {"fields", "list", "index", "spawn"} => main = "pending"
        /\ stage \in {"index", "spawn"} => listing = "pending"
        /\ Bringing
        /\ Following

IInv == TypeOK /\ Placed /\ Backed /\ NotPending /\ Announcing /\ Lifecycle /\ Steady

-----------------------------------------------------------------------------

\* The invariant holds before the charge is created.
LEMMA InitIInv == Init => IInv
<1> SUFFICES ASSUME Init
             PROVE  IInv
  OBVIOUS
<1> USE ChargeAssumption DEF Init, None, End, Own, Writers
<1>1. Placed
  BY DEF Placed, Places
<1>2. TypeOK
  <2>1. /\ payment \in Raw \cup {None} /\ was \subseteq Raw
        /\ {main, listing, phantom} \subseteq Statuses
        /\ seen \in [Writers -> Statuses] /\ keyed \in [Writers -> BOOLEAN]
    BY DEF Statuses
  <2>2. polls \in 0 .. MaxPolls /\ faults \in 0 .. MaxFaults
    OBVIOUS
  <2>3. indexed \in BOOLEAN /\ marked \in BOOLEAN /\ told \in BOOLEAN
        /\ lost \in BOOLEAN /\ heard \subseteq was
    OBVIOUS
  <2> QED
    BY <2>1, <2>2, <2>3 DEF TypeOK
<1>3. Backed /\ NotPending /\ Announcing /\ Lifecycle
  BY DEF Backed, ApprovedMeansPaid, NotPending, Announcing, Lifecycle
<1>4. Steady
  BY DEF Steady, Bringing, Following
<1> QED
  BY <1>1, <1>2, <1>3, <1>4 DEF IInv

\* Statuses of a provider are mapped to statuses of the tables.
LEMMA MappedType == \A raw \in Raw \cup {None} : Mapped(raw) \in Statuses
BY DEF Mapped, Raw, Statuses, None

\* Pollers, checks and webhooks are different.
LEMMA Kinds ==
    /\ Poller \in Writers /\ Poller \notin Checks /\ Poller \notin Hooks
    /\ Checks \subseteq Writers /\ Hooks \subseteq Writers
    /\ \A w \in Writers : w = Poller \/ w \in Checks \/ w \in Hooks
    /\ \A h \in Hooks : h \notin Own /\ h \notin Checks
    /\ \A w \in Writers : w \in Own <=> w \notin Hooks
    /\ Own \subseteq Writers
BY ChargeAssumption DEF Writers, Own

\* Pollers, checks and webhooks keep to the places of their kind.
LEMMA NextTypeOK == TypeOK /\ Placed /\ Lifecycle /\ Next => TypeOK' /\ Placed'
<1> SUFFICES ASSUME TypeOK, Placed, Lifecycle, Next
             PROVE  TypeOK' /\ Placed'
  OBVIOUS
<1> USE ChargeAssumption, MappedType, Kinds DEF Placed, Places, Fault, Goto
<1>1. CASE ProviderMoves
  BY <1>1 DEF ProviderMoves, TypeOK, stored, hooking
<1>2. CASE Create \/ CreateFails
  <2>1. CASE CreatePayment
    <3>1. payment' \in Raw /\ was' \subseteq Raw /\ heard' \subseteq was'
      BY <2>1 DEF CreatePayment, hooking, Raw, TypeOK, Lifecycle
    <3> QED
      BY <2>1, <3>1 DEF CreatePayment, TypeOK, stored, hooking
  <2>4. CASE InsertCharge \/ SetFields \/ InsertListing
    BY <2>4 DEF InsertCharge, SetFields, InsertListing, TypeOK, stored, hooking, Statuses
  <2>5. CASE InsertIndex
    <3>1. indexed' \in BOOLEAN
      BY <2>5 DEF InsertIndex
    <3> QED
      BY <2>5, <3>1 DEF InsertIndex, TypeOK, hooking
  <2>2. CASE SpawnPoller
    BY <2>2 DEF SpawnPoller, TypeOK, stored, hooking
  <2>3. CASE CreateFails
    BY <2>3 DEF CreateFails, TypeOK, stored, hooking
  <2> QED
    BY <1>2, <2>1, <2>2, <2>3, <2>4, <2>5 DEF Create
<1>3. CASE Poll
  BY <1>3 DEF Poll, TypeOK, stored, hooking
<1>4. ASSUME NEW c \in Checks, BeginCheck(c)
      PROVE  TypeOK' /\ Placed'
  BY <1>4 DEF BeginCheck, TypeOK, stored, hooking
<1>5. ASSUME NEW h \in Hooks, Receive(h)
      PROVE  TypeOK' /\ Placed'
  <2>1. heard' \subseteq was /\ faults' \in 0 .. MaxFaults
    BY <1>5 DEF Receive, Work, TypeOK
  <2>4. marked' \in BOOLEAN /\ lost' \in BOOLEAN
    BY <1>5, Zenon DEF Receive, TypeOK
  <2>2. keyed' \in [Writers -> BOOLEAN]
    BY <1>5 DEF Receive, Work, TypeOK
  <2>3. pc' = pc \/ pc' = [pc EXCEPT ![h] = "lookup"]
    BY <1>5 DEF Receive, Work
  <2> QED
    BY <1>5, <2>1, <2>2, <2>3, <2>4 DEF Receive, TypeOK, stored
<1>6. ASSUME NEW h \in Hooks, Lookup(h) \/ LookupFails(h)
      PROVE  TypeOK' /\ Placed'
  BY <1>6 DEF Lookup, LookupFails, TypeOK, stored, hooking
<1>7. ASSUME NEW w \in Writers, Write(w) \/ WriteFails(w)
      PROVE  TypeOK' /\ Placed'
  <2>1. CASE Ask(w)
    <3>1. Mapped(payment) \in Statuses
      BY MappedType DEF TypeOK
    <3>2. seen' \in [Writers -> Statuses]
      BY <2>1, <3>1 DEF Ask, TypeOK
    <3> QED
      BY <1>7, <2>1, <3>2 DEF Ask, TypeOK, stored, hooking, Again
  <2>2. CASE AskFails(w)
    BY <1>7, <2>2 DEF AskFails, TypeOK, stored, hooking, Again, End
  <2>3. CASE ReadKey(w) \/ ReadKeyFails(w)
    <3>1. w \notin Checks
      BY <2>3 DEF ReadKey, ReadKeyFails, TypeOK
    <3>2. keyed' \in [Writers -> BOOLEAN]
      BY <2>3 DEF ReadKey, ReadKeyFails, TypeOK
    <3> QED
      BY <1>7, <2>3, <3>1, <3>2 DEF ReadKey, ReadKeyFails, TypeOK, stored, hooking
  <2>4. CASE UpdateMain(w)
    BY <1>7, <2>4 DEF UpdateMain, TypeOK, hooking
  <2>5. CASE UpdateListing(w)
    BY <1>7, <2>5 DEF UpdateListing, TypeOK, hooking, AfterUpdate, End
  <2>6. CASE UpdateFails(w)
    BY <1>7, <2>6 DEF UpdateFails, TypeOK, stored, hooking, AfterFailure, AfterUpdate, End
  <2>7. CASE Tell(w)
    BY <1>7, <2>7 DEF Tell, TypeOK, stored, hooking, End
  <2>8. CASE TellFails(w)
    BY <1>7, <2>8 DEF TellFails, TypeOK, stored, hooking, End
  <2> QED
    BY <1>7, <2>1, <2>2, <2>3, <2>4, <2>5, <2>6, <2>7, <2>8 DEF Write, WriteFails
<1>8. CASE MarkExpires
  BY <1>8 DEF MarkExpires, TypeOK, stored
<1>9. CASE Restart
  BY <1>9 DEF Restart, TypeOK, stored, hooking, End
<1> QED
  BY <1>1, <1>2, <1>3, <1>4, <1>5, <1>6, <1>7, <1>8, <1>9 DEF Next

-----------------------------------------------------------------------------
(* Who is where, and with which answer. *)

\* Nobody writes before there is a charge.
LEMMA NextLifecycle == TypeOK /\ Placed /\ Lifecycle /\ Next => Lifecycle'
<1> SUFFICES ASSUME TypeOK, Placed, Lifecycle, Next
             PROVE  Lifecycle'
  OBVIOUS
<1> USE ChargeAssumption, Kinds DEF Lifecycle, Goto, End, Placed
<1>1. CASE ProviderMoves
  BY <1>1 DEF ProviderMoves, Raw, None, stored
<1>2. CASE Create \/ CreateFails
  BY <1>2 DEF Create, CreatePayment, InsertCharge, SetFields, InsertListing, InsertIndex,
              SpawnPoller, CreateFails, None, stored
<1>3. CASE Poll
  BY <1>3 DEF Poll, Own, stored
<1>4. ASSUME NEW c \in Checks, BeginCheck(c)
      PROVE  Lifecycle'
  BY <1>4 DEF BeginCheck, stored
<1>5. ASSUME NEW h \in Hooks, Receive(h) \/ Lookup(h) \/ LookupFails(h)
      PROVE  Lifecycle'
  BY <1>5 DEF Receive, Work, Lookup, LookupFails, stored
<1>6. ASSUME NEW w \in Writers, Write(w) \/ WriteFails(w)
      PROVE  Lifecycle'
  <2>1. UNCHANGED <<payment, was, stage, indexed>>
    BY <1>6 DEF Write, Ask, ReadKey, UpdateMain, UpdateListing, Tell, WriteFails, AskFails,
                ReadKeyFails, UpdateFails, TellFails, stored
  <2>2. pc[w] \in {"asking", "key", "main", "listing", "tell"}
    BY <1>6 DEF Write, Ask, ReadKey, UpdateMain, UpdateListing, Tell, WriteFails, AskFails,
                ReadKeyFails, UpdateFails, TellFails
  <2>3. \E where : pc' = [pc EXCEPT ![w] = where]
    BY <1>6 DEF Write, Ask, ReadKey, UpdateMain, UpdateListing, Tell, WriteFails, AskFails,
                ReadKeyFails, UpdateFails, TellFails
  <2>4. w \in Own => stage = "done"
    BY <2>2
  <2>5. w \in Hooks => indexed
    BY <2>2
  <2>6. stage \notin {"pay", "insert"} /\ indexed
    BY <2>2, <2>4, <2>5
  <2> QED
    BY <2>1, <2>2, <2>3, <2>4, <2>6
<1>7. CASE MarkExpires
  BY <1>7 DEF MarkExpires, stored
<1>8. CASE Restart
  BY <1>8 DEF Restart, stored
<1> QED
  BY <1>1, <1>2, <1>3, <1>4, <1>5, <1>6, <1>7, <1>8 DEF Next

\* Only a webhook goes on with a pending status.
LEMMA NextNotPending == TypeOK /\ Placed /\ NotPending /\ Next => NotPending'
<1> SUFFICES ASSUME TypeOK, Placed, NotPending, Next
             PROVE  NotPending'
  OBVIOUS
<1> USE Kinds DEF NotPending, Goto, Placed
<1>1. CASE ProviderMoves \/ CreateFails \/ MarkExpires
  BY <1>1 DEF ProviderMoves, CreateFails, MarkExpires
<1>2. CASE Create
  BY <1>2 DEF Create, CreatePayment, InsertCharge, SetFields, InsertListing, InsertIndex, SpawnPoller
<1>3. CASE Poll
  BY <1>3 DEF Poll
<1>4. ASSUME NEW c \in Checks, BeginCheck(c)
      PROVE  NotPending'
  BY <1>4 DEF BeginCheck
<1>5. ASSUME NEW h \in Hooks, Receive(h) \/ Lookup(h) \/ LookupFails(h)
      PROVE  NotPending'
  BY <1>5 DEF Receive, Work, Lookup, LookupFails
<1>6. ASSUME NEW w \in Writers, Write(w) \/ WriteFails(w)
      PROVE  NotPending'
  <2>1. CASE Ask(w)
    BY <1>6, <2>1 DEF Ask, Again, TypeOK
  <2>2. CASE ReadKey(w) \/ UpdateMain(w) \/ UpdateListing(w) \/ Tell(w)
    BY <1>6, <2>2 DEF ReadKey, UpdateMain, UpdateListing, Tell, AfterUpdate, End
  <2>3. CASE WriteFails(w)
    BY <1>6, <2>3 DEF WriteFails, AskFails, ReadKeyFails, UpdateFails, TellFails, Again, End,
                      AfterFailure, AfterUpdate
  <2> QED
    BY <1>6, <2>1, <2>2, <2>3 DEF Write
<1>7. CASE Restart
  BY <1>7 DEF Restart, End, Own
<1> QED
  BY <1>1, <1>2, <1>3, <1>4, <1>5, <1>6, <1>7 DEF Next

\* An approval is fetched from the provider before it is stored or told.
LEMMA NextBacked == TypeOK /\ Placed /\ Backed /\ Lifecycle /\ Next => Backed'
<1> SUFFICES ASSUME TypeOK, Placed, Backed, Lifecycle, Next
             PROVE  Backed'
  OBVIOUS
<1> USE Kinds DEF Backed, ApprovedMeansPaid, Placed, Goto, End
<1>1. CASE ProviderMoves
  BY <1>1 DEF ProviderMoves, stored
<1>2. CASE Create \/ CreateFails
  BY <1>2 DEF Create, CreatePayment, InsertCharge, SetFields, InsertListing, InsertIndex,
              SpawnPoller, CreateFails, stored, Lifecycle
<1>3. CASE Poll \/ MarkExpires \/ Restart
  BY <1>3 DEF Poll, MarkExpires, Restart, stored
<1>4. ASSUME NEW c \in Checks, BeginCheck(c)
      PROVE  Backed'
  BY <1>4 DEF BeginCheck, stored
<1>5. ASSUME NEW h \in Hooks, Receive(h) \/ Lookup(h) \/ LookupFails(h)
      PROVE  Backed'
  BY <1>5 DEF Receive, Work, Lookup, LookupFails, stored
<1>6. ASSUME NEW w \in Writers, Write(w) \/ WriteFails(w)
      PROVE  Backed'
  <2>1. CASE Ask(w)
    <3>1. Mapped(payment) = "approved" => "approved" \in was
      BY DEF Mapped, None
    <3> QED
      BY <2>1, <3>1 DEF Ask, stored, TypeOK, Again
  <2>2. CASE ReadKey(w) \/ WriteFails(w)
    BY <1>6, <2>2 DEF ReadKey, WriteFails, AskFails, ReadKeyFails, UpdateFails, TellFails, stored,
                      Again, AfterFailure, AfterUpdate
  <2>3. CASE UpdateMain(w)
    BY <1>6, <2>3 DEF UpdateMain
  <2>4. CASE UpdateListing(w)
    BY <1>6, <2>4 DEF UpdateListing, AfterUpdate
  <2>5. CASE Tell(w)
    BY <1>6, <2>5 DEF Tell, stored, TypeOK
  <2> QED
    BY <1>6, <2>1, <2>2, <2>3, <2>4, <2>5 DEF Write
<1> QED
  BY <1>1, <1>2, <1>3, <1>4, <1>5, <1>6 DEF Next

\* Only a fault stops the one who has an approval to tell.
LEMMA NextAnnouncing == TypeOK /\ Placed /\ Lifecycle /\ Announcing /\ Next => Announcing'
<1> SUFFICES ASSUME TypeOK, Placed, Lifecycle, Announcing, Next, faults' = 0, main' = "approved"
             PROVE  \/ told'
                    \/ \E w \in Writers : seen'[w] = "approved" /\ pc'[w] \in {"listing", "tell"}
  BY DEF Announcing
<1> USE Kinds DEF Placed, Goto
<1>a. faults = 0 \/ faults' = faults + 1
  BY DEF Next, ProviderMoves, Create, CreatePayment, InsertCharge, SetFields, InsertListing,
         InsertIndex, SpawnPoller, CreateFails, Poll, BeginCheck, Receive, Lookup, LookupFails,
         Write, Ask, ReadKey, UpdateMain, UpdateListing, Tell, WriteFails, AskFails,
         ReadKeyFails, UpdateFails, TellFails, MarkExpires, Restart, Fault
<1>b. faults = 0 /\ ~ Fault
  BY <1>a DEF TypeOK, Fault
<1>c. main = "approved" => told \/ \E w \in Writers : /\ seen[w] = "approved"
                                                      /\ pc[w] \in {"listing", "tell"}
  BY <1>b DEF Announcing
<1>1. CASE ProviderMoves \/ MarkExpires \/ Poll
  BY <1>1, <1>c DEF ProviderMoves, MarkExpires, Poll, stored
<1>2. CASE Create
  BY <1>2, <1>c DEF Create, CreatePayment, InsertCharge, SetFields, InsertListing, InsertIndex,
                    SpawnPoller, stored, Lifecycle, End, Own
<1>3. ASSUME NEW c \in Checks, BeginCheck(c)
      PROVE  told' \/ \E w \in Writers : seen'[w] = "approved" /\ pc'[w] \in {"listing", "tell"}
  BY <1>3, <1>c DEF BeginCheck, stored
<1>4. ASSUME NEW h \in Hooks, Receive(h) \/ Lookup(h)
      PROVE  told' \/ \E w \in Writers : seen'[w] = "approved" /\ pc'[w] \in {"listing", "tell"}
  BY <1>4, <1>c DEF Receive, Work, Lookup, stored
<1>5. ASSUME NEW w \in Writers, Write(w)
      PROVE  told' \/ \E v \in Writers : seen'[v] = "approved" /\ pc'[v] \in {"listing", "tell"}
  <2>1. CASE Ask(w) \/ ReadKey(w)
    BY <1>5, <2>1, <1>c DEF Ask, ReadKey, stored, TypeOK
  <2>2. CASE UpdateMain(w)
    BY <1>5, <2>2 DEF UpdateMain
  <2>3. CASE UpdateListing(w)
    BY <1>5, <2>3, <1>c DEF UpdateListing, AfterUpdate
  <2>4. CASE Tell(w)
    BY <1>5, <2>4 DEF Tell
  <2> QED
    BY <1>5, <2>1, <2>2, <2>3, <2>4 DEF Write
<1>6. ~ (CreateFails \/ Restart \/ \E h \in Hooks : LookupFails(h))
  BY <1>b DEF CreateFails, Restart, LookupFails
<1>7. ~ \E w \in Writers : WriteFails(w)
  BY <1>b DEF WriteFails, AskFails, ReadKeyFails, UpdateFails, TellFails
<1> QED
  BY <1>1, <1>2, <1>3, <1>4, <1>5, <1>6, <1>7 DEF Next

-----------------------------------------------------------------------------
(* In the calm, the tables follow the one final answer. *)

\* The calm does not come back.
LEMMA CalmBefore == TypeOK /\ Lifecycle /\ Next /\ Calm' => Calm /\ UNCHANGED heard /\ faults' = faults /\ Finals \subseteq Finals'
<1> SUFFICES ASSUME TypeOK, Lifecycle, Next, Calm'
             PROVE  Calm /\ UNCHANGED heard /\ faults' = faults /\ Finals \subseteq Finals'
  OBVIOUS
<1>1. faults' = faults \/ faults' = faults + 1
  BY DEF Next, ProviderMoves, Create, CreatePayment, InsertCharge, SetFields, InsertListing,
         InsertIndex, SpawnPoller, CreateFails, Poll, BeginCheck, Receive, Lookup, LookupFails,
         Write, Ask, ReadKey, UpdateMain, UpdateListing, Tell, WriteFails, AskFails,
         ReadKeyFails, UpdateFails, TellFails, MarkExpires, Restart, Fault
<1>2. heard \subseteq heard'
  BY DEF Next, ProviderMoves, Create, CreatePayment, InsertCharge, SetFields, InsertListing,
         InsertIndex, SpawnPoller, CreateFails, Poll, BeginCheck, Receive, Work, Lookup, LookupFails,
         Write, Ask, ReadKey, UpdateMain, UpdateListing, Tell, WriteFails, AskFails,
         ReadKeyFails, UpdateFails, TellFails, MarkExpires, Restart, hooking
<1>3. FinalAnswers \subseteq FinalAnswers'
  BY DEF Next, ProviderMoves, Create, CreatePayment, InsertCharge, SetFields, InsertListing,
         InsertIndex, SpawnPoller, CreateFails, Poll, BeginCheck, Receive, Lookup, LookupFails,
         Write, Ask, ReadKey, UpdateMain, UpdateListing, Tell, WriteFails, AskFails,
         ReadKeyFails, UpdateFails, TellFails, MarkExpires, Restart, FinalAnswers, Lifecycle
<1> QED
  BY <1>1, <1>2, <1>3 DEF Calm, TypeOK, Finals

\* In the calm the final answer is one, and it is not a pending one.
LEMMA OneFinal ==
    /\ Calm => \A x, y \in Finals : x = y
    /\ "pending" \notin Finals
    /\ payment \in was /\ Mapped(payment) # "pending" => Mapped(payment) \in Finals
BY DEF Calm, Finals, FinalAnswers, Mapped

\* In the calm, no step takes the tables apart but between two UPDATEs.
LEMMA NextSteady == IInv /\ Next => Steady'
<1> SUFFICES ASSUME IInv, Next, Calm'
             PROVE  Steady'
  BY DEF Steady
<1>a. /\ TypeOK /\ Placed /\ Lifecycle /\ Backed
      /\ Calm /\ heard = {} /\ faults = 0 /\ heard' = {} /\ faults' = 0 /\ Finals \subseteq Finals'
      /\ \A h \in Hooks : pc[h] = "idle"
  BY CalmBefore DEF IInv, Steady, Calm
<1>b. ~ Fault
  BY <1>a DEF Fault
<1>c. Bringing /\ Following
  BY <1>a DEF IInv, Steady
<1>e. /\ stage \in {"fields", "list", "index", "spawn"} => main = "pending"
      /\ stage \in {"index", "spawn"} => listing = "pending"
  BY <1>a DEF IInv, Steady
<1> USE ChargeAssumption, Kinds DEF Placed, Goto
<1>1. CASE ProviderMoves \/ MarkExpires
  BY <1>1, <1>a, <1>c, <1>e
     DEF Steady, Bringing, Following, ProviderMoves, MarkExpires, stored
<1>2. CASE Create
  <2>1. \A w \in Own : pc[w] \in {"off", "idle"} /\ pc'[w] \in {"off", "idle", "asleep"}
    BY <1>2, <1>a DEF Create, CreatePayment, InsertCharge, SetFields, InsertListing, InsertIndex,
                      SpawnPoller, Lifecycle, End
  <2>2. \A h \in Hooks : pc'[h] = "idle"
    BY <1>2, <1>a DEF Create, CreatePayment, InsertCharge, SetFields, InsertListing, InsertIndex,
                      SpawnPoller
  <2>3. /\ stage' \in {"fields", "list", "index", "spawn"} => main' = "pending"
        /\ stage' \in {"index", "spawn"} => listing' = "pending"
        /\ stage' = "done" => main' = "pending" /\ listing' = "pending"
    BY <1>2, <1>e DEF Create, CreatePayment, InsertCharge, SetFields, InsertListing, InsertIndex,
                      SpawnPoller, stored
  <2>4. Bringing'
    BY <2>1 DEF Bringing
  <2>5. Following'
    BY <2>3 DEF Following
  <2> QED
    BY <2>2, <2>3, <2>4, <2>5 DEF Steady
<1>3. CASE Poll
  BY <1>3, <1>a, <1>c, <1>e DEF Poll, Steady, Bringing, Following, stored
<1>4. ASSUME NEW c \in Checks, BeginCheck(c)
      PROVE  Steady'
  BY <1>4, <1>a, <1>c, <1>e DEF BeginCheck, Steady, Bringing, Following, stored, TypeOK
<1>5. ASSUME NEW h \in Hooks, Receive(h)
      PROVE  Steady'
  <2>1. UNCHANGED <<pc, keyed>>
    BY <1>5, <1>a DEF Receive, Work
  <2> QED
    BY <1>5, <2>1, <1>a, <1>c, <1>e DEF Receive, Steady, Bringing, Following, stored
<1>6. ASSUME NEW w \in Own, Write(w)
      PROVE  Steady'
  <2>0. stage = "done" /\ UNCHANGED stage
    BY <1>6, <1>a DEF Lifecycle, End, Write, Ask, ReadKey, UpdateMain, UpdateListing, Tell
  <2>h. \A h \in Hooks : pc'[h] = "idle"
    BY <1>6, <1>a DEF Write, Ask, ReadKey, UpdateMain, UpdateListing, Tell
  <2>1. CASE Ask(w)
    <3>1. Mapped(payment) # "pending" => Mapped(payment) \in Finals
      BY <1>a, <2>0, OneFinal DEF Lifecycle, Backed
    <3>2. Bringing'
      BY <1>6, <2>1, <3>1, <1>a, <1>c DEF Ask, Again, Bringing, stored, TypeOK
    <3>3. Following'
      BY <1>6, <2>1, <1>a, <1>c DEF Ask, Following, stored
    <3> QED
      BY <2>0, <2>h, <3>2, <3>3 DEF Steady
  <2>2. CASE ReadKey(w) \/ Tell(w)
    <3>1. Bringing'
      BY <1>6, <2>2, <1>a, <1>c DEF ReadKey, Tell, End, Bringing, stored, TypeOK
    <3>2. Following'
      BY <1>6, <2>2, <1>a, <1>c DEF ReadKey, Tell, End, Following, stored
    <3> QED
      BY <2>0, <2>h, <3>1, <3>2 DEF Steady
  <2>3. CASE UpdateMain(w)
    <3>1. seen[w] \in Finals
      BY <1>6, <1>c, <2>3 DEF UpdateMain, Bringing
    <3>2. listing = "pending" \/ listing = seen[w]
      BY <1>a, <1>c, <2>0, <3>1, OneFinal DEF Following
    <3>3. Bringing'
      BY <1>6, <2>3, <3>1, <1>a, <1>c DEF UpdateMain, Bringing
    <3>4. Following'
      BY <1>6, <2>3, <3>1, <3>2, <1>a DEF UpdateMain, Following
    <3> QED
      BY <2>0, <2>h, <3>3, <3>4 DEF Steady
  <2>4. CASE UpdateListing(w)
    <3>1. seen[w] \in Finals /\ main \in Finals /\ keyed[w]
      BY <1>6, <1>c, <2>4 DEF UpdateListing, Bringing
    <3>2. main = seen[w]
      BY <1>a, <3>1, OneFinal
    <3>3. listing' = main /\ UNCHANGED <<main, seen, keyed>>
      BY <2>4, <3>1, <3>2 DEF UpdateListing
    <3>4. pc' = [pc EXCEPT ![w] = IF seen[w] = "approved" THEN "tell" ELSE End(w)]
      BY <2>4 DEF UpdateListing, AfterUpdate
    <3>5. Bringing'
      BY <1>6, <3>1, <3>3, <3>4, <1>a, <1>c DEF End, Bringing
    <3>6. Following'
      BY <3>1, <3>3, <1>a DEF Following
    <3> QED
      BY <2>0, <2>h, <3>5, <3>6 DEF Steady
  <2> QED
    BY <1>6, <2>1, <2>2, <2>3, <2>4 DEF Write
<1>7. ~ (CreateFails \/ Restart)
  BY <1>b DEF CreateFails, Restart
<1>8. ~ \E h \in Hooks : Lookup(h) \/ LookupFails(h) \/ Write(h)
  BY <1>a DEF Lookup, LookupFails, Write, Ask, ReadKey, UpdateMain, UpdateListing, Tell
<1>9. ~ \E w \in Writers : WriteFails(w)
  BY <1>b DEF WriteFails, AskFails, ReadKeyFails, UpdateFails, TellFails
<1> QED
  BY <1>1, <1>2, <1>3, <1>4, <1>5, <1>6, <1>7, <1>8, <1>9 DEF Next, Own

-----------------------------------------------------------------------------

\* Every step keeps the invariant.
LEMMA NextIInv == IInv /\ [Next]_vars => IInv'
<1> SUFFICES ASSUME IInv, [Next]_vars
             PROVE  IInv'
  OBVIOUS
<1>1. CASE Next
  <2>1. TypeOK' /\ Placed' /\ Lifecycle' /\ NotPending'
    BY <1>1, NextTypeOK, NextLifecycle, NextNotPending DEF IInv
  <2>2. Backed' /\ Announcing' /\ Steady'
    BY <1>1, NextBacked, NextAnnouncing, NextSteady DEF IInv
  <2> QED
    BY <2>1, <2>2 DEF IInv
<1>2. CASE UNCHANGED vars
  <2>1. TypeOK' /\ Placed' /\ Lifecycle' /\ NotPending'
    BY <1>2 DEF vars, stored, hooking, IInv, TypeOK, Placed, Lifecycle, NotPending, End
  <2>2. Backed' /\ Announcing'
    BY <1>2 DEF vars, stored, hooking, IInv, Backed, ApprovedMeansPaid, Announcing
  <2>3. Steady'
    BY <1>2 DEF vars, stored, hooking, IInv, Steady, Bringing, Following, Calm, Finals, FinalAnswers
  <2> QED
    BY <2>1, <2>2, <2>3 DEF IInv
<1> QED
  BY <1>1, <1>2

\* The tables and the announcements of a charge are what the invariant says.
LEMMA Inductive == Spec => []IInv
BY InitIInv, NextIInv, PTL DEF Spec

\* At most one final answer, in the words of the proof.
LEMMA CalmIs == TypeOK /\ faults = 0 /\ heard = {} /\ Cardinality(FinalAnswers) <= 1 => Calm
<1> SUFFICES ASSUME TypeOK, Cardinality(FinalAnswers) <= 1, NEW x \in FinalAnswers,
                    NEW y \in FinalAnswers, x # y
             PROVE  FALSE
  BY DEF Calm
<1>1. IsFiniteSet(Raw)
  <2> DEFINE A == {"pending"} \cup {"in_process"}
             B == A \cup {"authorized"}
             C == B \cup {"approved"}
             D == C \cup {"rejected"}
             E == D \cup {"refunded"}
  <2>1. IsFiniteSet(A)
    BY FS_Singleton, FS_AddElement
  <2>2. IsFiniteSet(B)
    BY <2>1, FS_AddElement
  <2>3. IsFiniteSet(C)
    BY <2>2, FS_AddElement
  <2>4. IsFiniteSet(D)
    BY <2>3, FS_AddElement
  <2>5. IsFiniteSet(E)
    BY <2>4, FS_AddElement
  <2>6. Raw = E
    BY DEF Raw
  <2> QED
    BY <2>5, <2>6
<1>2. IsFiniteSet(FinalAnswers)
  BY <1>1, FS_Subset DEF FinalAnswers, TypeOK
<1>3. Cardinality({x} \cup {y}) = Cardinality({x}) + 1
  BY FS_AddElement, FS_Singleton
<1>4. Cardinality({x} \cup {y}) <= Cardinality(FinalAnswers)
  BY <1>2, FS_Subset
<1>5. Cardinality({x}) = 1 /\ Cardinality(FinalAnswers) \in Nat
  BY <1>2, FS_Singleton, FS_CardinalityType
<1> QED
  BY <1>3, <1>4, <1>5

\* Whatever pollers, live checks and webhooks overwrite of each other's, a
\* charge is shown and announced as paid only when the provider said so, its
\* two tables agree while there is one final answer and no webhook, and what is
\* shown is told (update_charge_status, notify_*).
THEOREM ChargesTrue == Spec => []ChargeTrue
<1>1. IInv => ChargeTrue
  <2> SUFFICES ASSUME IInv
               PROVE  ChargeTrue
    OBVIOUS
  <2>1. TypeOK /\ ApprovedMeansPaid
    BY DEF IInv, Backed
  <2>2. AtRest => \A w \in Writers : pc[w] \notin {"listing", "tell"}
    BY DEF AtRest
  <2>3. TablesAgree
    <3>1. AtRest => stage = "done" /\ ~ \E w \in Own : pc[w] = "listing"
      BY <2>2, Kinds DEF AtRest
    <3> QED
      BY <2>1, <3>1, CalmIs DEF TablesAgree, IInv, Steady, Following
  <2>4. PaidIsTold
    BY <2>2 DEF PaidIsTold, IInv, Announcing
  <2> QED
    BY <2>1, <2>3, <2>4 DEF ChargeTrue
<1> QED
  BY Inductive, <1>1, PTL

\* A settled charge goes back to pending by the late answer of a webhook only:
\* pollers and live checks stop at a pending status (poll_charge_status).
THEOREM ReopenedByWebhooks == Spec => OnlyWebhooksReopen
<1>1. IInv /\ [Next]_vars => [Reopened => \E h \in Hooks : pc[h] = "main" /\ seen[h] = "pending"]_vars
  <2> SUFFICES ASSUME IInv, Next, Reopened
               PROVE  \E h \in Hooks : pc[h] = "main" /\ seen[h] = "pending"
    BY DEF vars
  <2>1. PICK w \in Writers : UpdateMain(w)
    BY DEF Next, ProviderMoves, Create, CreatePayment, InsertCharge, SetFields, InsertListing,
           InsertIndex, SpawnPoller, CreateFails, Poll, BeginCheck, Receive, Lookup, LookupFails,
           Write, Ask, ReadKey, UpdateListing, Tell, WriteFails, AskFails, ReadKeyFails,
           UpdateFails, TellFails, MarkExpires, Restart, Reopened, stored, IInv, Lifecycle
  <2>2. pc[w] = "main" /\ seen[w] = "pending"
    BY <2>1 DEF UpdateMain, Reopened
  <2>3. w \in Hooks
    BY <2>2, Kinds DEF IInv, NotPending
  <2> QED
    BY <2>2, <2>3
<1> QED
  BY <1>1, Inductive, PTL DEF Spec, OnlyWebhooksReopen
=============================================================================
