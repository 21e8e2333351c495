-------------------------- MODULE Dashboard_proofs --------------------------
(***************************************************************************)
(* Proofs about what is done from the dashboard.                           *)
(*                                                                         *)
(* The operator beside the turns (MessageTurn), for any number of          *)
(* deliveries, conversations, parts and of messages read back: what a turn *)
(* has done so far is known from where it is.  Its question is in its      *)
(* conversation from "history" on (Asking), its answer is nowhere before   *)
(* "touch" (Unanswered), and a turn that started while the contact was     *)
(* paused is on the way that avoids the LLM (Silent).                      *)
(*                                                                         *)
(* Workspaces and their members (Workspaces), for any number of tasks,     *)
(* users, invites and names: each place of a call says how far it has      *)
(* brought the rows of the users it writes (Halfway), and whoever else     *)
(* writes them at the same time makes a mess of them.                      *)
(*                                                                         *)
(* The keys secrets are encrypted under (KeyRotation), for any number of   *)
(* tasks, providers, secrets and key versions: a request works with the    *)
(* keys that are loaded, for a restart ends it (Saving), a program with    *)
(* some of them (Rewriting), and no cell is under a key that has gone.     *)
(*                                                                         *)
(* The accounts of the users (Accounts), for any number of tasks, users,   *)
(* e-mails, passwords, tokens and codes: what each call has checked is so  *)
(* until it writes (OnCourse), unless a call that writes the same thing    *)
(* overlaps it (Unshared), and an attempt is a code that is compared or    *)
(* still to be (GuessesCounted).                                           *)
(*                                                                         *)
(* Teams and their boards (Teams), for any number of tasks, users and      *)
(* names and any finite set of cards: a call knows how far it has brought  *)
(* the rows of the users it writes (TeamKnows); the place of a new card is *)
(* free as long as its column only grows (PlacesBelow); and with nobody    *)
(* beside its deletion a team that is gone has left nothing (Bare).        *)
(***************************************************************************)
EXTENDS Tasks_proofs, MessageTurn, Workspaces, KeyRotation, Accounts, Teams, FiniteSetTheorems, TLAPS


TurnPlaces == Working \cup {"sent", "refused", "failed", "done"}
OpPlaces   == {"pause", "resume", "delete", "write", "idle", "drop", "touch"}
Entries    == [role : {"user", "assistant"}, by : Actors]

Typed ==
    /\ marked \subseteq Messages
    /\ rows \in [ConvIds -> [exists : BOOLEAN, contact : BOOLEAN, ai : BOOLEAN]]
    /\ log \in [ConvIds -> Seq(Entries)]
    /\ pc \in [Actors -> TurnPlaces \cup OpPlaces]
    /\ conv \in [Actors -> ConvIds \cup {NoConv}]
    /\ ai \in [Deliveries -> BOOLEAN]
    /\ canned \in [Deliveries -> BOOLEAN]
    /\ grounded \in [Deliveries -> BOOLEAN]
    /\ parts \in [Deliveries -> 0 .. Parts]
    /\ paused \subseteq Deliveries
    /\ deletion \in [ConvIds -> {"none", "messages", "done"}]

\* Where an actor is tells what it works on.
Placed ==
    /\ \A t \in Deliveries :
        /\ pc[t] \in TurnPlaces
        /\ pc[t] \in {"store", "history", "call", "send", "reply", "touch"} => conv[t] \in ConvIds
        /\ pc[t] \in {"sent", "refused", "lookup", "create", "store", "history", "call"}
              => parts[t] = 0
        /\ pc[t] = "send" => parts[t] < Parts
        /\ pc[t] = "reply" => parts[t] = Parts
    /\ pc[Operator] \in OperatorActs \cup {"idle", "drop", "touch"}
    /\ pc[Operator] # "idle" => conv[Operator] \in ConvIds

\* A row with the contact's number is a row that was created.
Contacted == \A c \in ConvIds : rows[c].contact => rows[c].exists

Question(t) == [role |-> "user", by |-> t]
Answer(t)   == [role |-> "assistant", by |-> t]

\* The deliveries and the operator.
LEMMA Acting == Deliveries \subseteq Actors /\ Operator \in Actors /\ Operator \notin Deliveries
BY TurnAssumption DEF Actors

\* Every row of the messages table was written by an actor, at its place.
LEMMA InitTyped == Init => Typed /\ Placed
BY TurnAssumption, Acting
   DEF Init, Typed, Placed, NoRow, TurnPlaces, OpPlaces, Entries, NoConv, Working

\* A message stored is added to one conversation.
LEMMA Stored ==
    ASSUME Typed, NEW c \in ConvIds, NEW role \in {"user", "assistant"}, NEW by \in Actors,
           Store(c, role, by)
    PROVE  /\ log' \in [ConvIds -> Seq(Entries)]
           /\ log'[c] = Append(log[c], [role |-> role, by |-> by])
           /\ \A d \in ConvIds \ {c} : log'[d] = log[d]
<1>1. [role |-> role, by |-> by] \in Entries
  BY DEF Entries
<1> QED
  BY <1>1 DEF Store, Typed

\* A row that is touched exists, and is otherwise what it was.
LEMMA TouchedRows ==
    ASSUME Typed, NEW c \in ConvIds
    PROVE  /\ Touched(c) \in [ConvIds -> [exists : BOOLEAN, contact : BOOLEAN, ai : BOOLEAN]]
           /\ Touched(c)[c].contact = rows[c].contact
           /\ Touched(c)[c].ai = rows[c].ai
           /\ Touched(c)[c].exists
           /\ \A d \in ConvIds \ {c} : Touched(c)[d] = rows[d]
BY DEF Touched, Typed

\* The rows that can be found are those that were.
LEMMA TouchedFound ==
    ASSUME Typed, Contacted, NEW c \in ConvIds, rows' = Touched(c)
    PROVE  /\ Found' = Found /\ Contacted'
           /\ \A d \in ConvIds : rows'[d].ai = rows[d].ai
<1>1. /\ \A d \in ConvIds \ {c} : rows'[d] = rows[d]
      /\ rows'[c].contact = rows[c].contact /\ rows'[c].ai = rows[c].ai /\ rows'[c].exists
  BY TouchedRows
<1>2. Contacted'
  BY <1>1 DEF Contacted
<1>3. Found' = Found
  BY <1>1 DEF Found, Contacted
<1> QED
  BY <1>1, <1>2, <1>3

\* Every step of a turn and of the operator keeps the types.
LEMMA NextTyped == Typed /\ Placed /\ Next => Typed' /\ Placed'
<1> SUFFICES ASSUME Typed, Placed, Next
             PROVE  Typed' /\ Placed'
  OBVIOUS
<1> USE Acting, TurnAssumption DEF MoveTo, tables, Working, TurnPlaces, OpPlaces
<1>1. ASSUME NEW t \in Deliveries, Turn(t)
      PROVE  Typed' /\ Placed'
  <2>1. CASE Receive(t)
    <3>1. marked' \subseteq Messages
      BY <2>1 DEF Receive, Messages, Typed
    <3>2. paused' \subseteq Deliveries
      BY <2>1 DEF Receive, Typed
    <3>3. pc' = [pc EXCEPT ![t] = "refused"] \/ pc' = [pc EXCEPT ![t] = "lookup"]
      BY <2>1 DEF Receive
    <3> QED
      BY <2>1, <3>1, <3>2, <3>3 DEF Receive, Typed, Placed
  <2>2. CASE Dismiss(t)
    BY <2>2 DEF Dismiss, Typed, Placed
  <2>3. CASE Lookup(t)
    <3>1. CASE Found = {}
      BY <2>3, <3>1 DEF Lookup, Typed, Placed
    <3>2. CASE Found # {}
      <4>1. PICK c \in Found : /\ conv' = [conv EXCEPT ![t] = c]
                               /\ ai' = [ai EXCEPT ![t] = rows[c].ai]
                               /\ pc' = [pc EXCEPT ![t] = "store"]
        BY <2>3, <3>2 DEF Lookup
      <4>2. c \in ConvIds
        BY DEF Found
      <4> QED
        BY <2>3, <4>1, <4>2 DEF Lookup, Typed, Placed
    <3> QED
      BY <3>1, <3>2
  <2>4. CASE Create(t)
    <3>1. PICK c \in ConvIds :
            /\ rows' = [rows EXCEPT ![c] = [exists |-> TRUE, contact |-> TRUE, ai |-> TRUE]]
            /\ conv' = [conv EXCEPT ![t] = c]
      BY <2>4 DEF Create
    <3>2. rows' \in [ConvIds -> [exists : BOOLEAN, contact : BOOLEAN, ai : BOOLEAN]]
      BY <3>1 DEF Typed
    <3> QED
      BY <2>4, <3>1, <3>2 DEF Create, Typed, Placed
  <2>5. CASE StoreMessage(t)
    <3>1. conv[t] \in ConvIds
      BY <2>5 DEF StoreMessage, Placed
    <3>2. log' \in [ConvIds -> Seq(Entries)]
      BY <2>5, <3>1, Stored DEF StoreMessage
    <3>3. PICK c \in BOOLEAN : canned' = [canned EXCEPT ![t] = c]
      BY <2>5 DEF StoreMessage
    <3>4. \E where \in {"send", "history", "touch"} : pc' = [pc EXCEPT ![t] = where]
      BY <2>5 DEF StoreMessage, AfterStore
    <3>5. canned' \in [Deliveries -> BOOLEAN]
      BY <3>3 DEF Typed
    <3>6. PICK where \in {"send", "history", "touch"} : pc' = [pc EXCEPT ![t] = where]
      BY <3>4
    <3>7. parts[t] = 0
      BY <2>5 DEF StoreMessage, Placed
    <3>8. Placed'
      BY <2>5, <3>1, <3>6, <3>7 DEF StoreMessage, Placed, Typed
    <3> QED
      BY <2>5, <3>2, <3>5, <3>6, <3>8 DEF StoreMessage, Typed
  <2>6. CASE ReadHistory(t) \/ CallLlm(t)
    <3>1. grounded' \in [Deliveries -> BOOLEAN]
      BY <2>6 DEF ReadHistory, CallLlm, Typed
    <3> QED
      BY <2>6, <3>1 DEF ReadHistory, CallLlm, Typed, Placed
  <2>7. CASE SendPart(t)
    BY <2>7 DEF SendPart, Typed, Placed
  <2>8. CASE StoreReply(t)
    <3>1. conv[t] \in ConvIds
      BY <2>8 DEF StoreReply, Placed
    <3>2. log' \in [ConvIds -> Seq(Entries)]
      BY <2>8, <3>1, Stored DEF StoreReply
    <3> QED
      BY <2>8, <3>1, <3>2 DEF StoreReply, Typed, Placed
  <2>9. CASE Touch(t)
    <3>1. rows' \in [ConvIds -> [exists : BOOLEAN, contact : BOOLEAN, ai : BOOLEAN]]
      BY <2>9, TouchedRows DEF Touch, Placed
    <3> QED
      BY <2>9, <3>1 DEF Touch, Typed, Placed
  <2>10. CASE Fails(t)
    BY <2>10 DEF Fails, Typed, Placed
  <2> QED
    BY <1>1, <2>1, <2>2, <2>3, <2>4, <2>5, <2>6, <2>7, <2>8, <2>9, <2>10 DEF Turn
<1>2. CASE Operate
  <2>1. ASSUME NEW act \in OperatorActs, OperatorBegins(act)
        PROVE  Typed' /\ Placed'
    BY <2>1 DEF OperatorBegins, Typed, Placed
  <2>2. ASSUME NEW act \in {"pause", "resume"}, NEW value \in BOOLEAN, Toggle(act, value)
        PROVE  Typed' /\ Placed'
    <3>1. conv[Operator] \in ConvIds
      BY <2>2 DEF Toggle, Placed
    <3>2. Touched(conv[Operator]) \in
            [ConvIds -> [exists : BOOLEAN, contact : BOOLEAN, ai : BOOLEAN]]
      BY <3>1, TouchedRows
    <3>3. rows' \in [ConvIds -> [exists : BOOLEAN, contact : BOOLEAN, ai : BOOLEAN]]
      BY <2>2, <3>2 DEF Toggle
    <3>4. paused' \subseteq Deliveries
      BY <2>2 DEF Toggle, Typed
    <3> QED
      BY <2>2, <3>1, <3>3, <3>4 DEF Toggle, Typed, Placed
  <2>3. CASE DeleteMessages
    <3>1. conv[Operator] \in ConvIds
      BY <2>3 DEF DeleteMessages, Placed
    <3>2. log' \in [ConvIds -> Seq(Entries)]
      BY <2>3, <3>1 DEF DeleteMessages, Typed
    <3> QED
      BY <2>3, <3>1, <3>2 DEF DeleteMessages, Typed, Placed
  <2>4. CASE DeleteRow
    BY <2>4 DEF DeleteRow, NoRow, Typed, Placed
  <2>5. CASE Write
    <3>1. conv[Operator] \in ConvIds
      BY <2>5 DEF Write, Placed
    <3>2. log' \in [ConvIds -> Seq(Entries)]
      BY <2>5, <3>1, Stored DEF Write
    <3> QED
      BY <2>5, <3>1, <3>2 DEF Write, Typed, Placed
  <2>6. CASE WriteTouch
    <3>1. rows' \in [ConvIds -> [exists : BOOLEAN, contact : BOOLEAN, ai : BOOLEAN]]
      BY <2>6, TouchedRows DEF WriteTouch, Placed
    <3> QED
      BY <2>6, <3>1 DEF WriteTouch, Typed, Placed
  <2>7. CASE OperatorFails
    BY <2>7 DEF OperatorFails, Typed, Placed
  <2> QED
    BY <1>2, <2>1, <2>2, <2>3, <2>4, <2>5, <2>6, <2>7 DEF Operate
<1> QED
  BY <1>1, <1>2 DEF Next

-----------------------------------------------------------------------------
(* What the log says. *)

Replies == {"lookup", "create", "store", "history", "call", "send", "reply"}

\* A turn has its question in its conversation, as long as nobody deletes it.
Asked(t) == \E i \in DOMAIN log[conv[t]] : log[conv[t]][i] = Question(t)
Asking ==
    \A t \in Deliveries :
        pc[t] \in {"history", "call", "send", "reply"} /\ deletion[conv[t]] = "none" => Asked(t)

\* A turn that has still to answer has not answered.
Answered(t, c, i) == log[c][i].role = "assistant" /\ log[c][i].by = t
Unanswered ==
    \A t \in Deliveries : pc[t] \in Replies \cup {"sent"} =>
        \A c \in ConvIds : \A i \in DOMAIN log[c] : ~ Answered(t, c, i)

LogInv == Asking /\ Unanswered /\ StoredWasSent /\ AnswerFollowsQuestion

\* Storing grows the log by one entry at its end.
LEMMA StoreGrows ==
    ASSUME Typed, NEW c \in ConvIds, NEW role \in {"user", "assistant"}, NEW by \in Actors,
           Store(c, role, by), UNCHANGED deletion
    PROVE  /\ \A d \in ConvIds : \A i \in DOMAIN log[d] :
                i \in DOMAIN log'[d] /\ log'[d][i] = log[d][i]
           /\ \A d \in ConvIds : \A i \in DOMAIN log'[d] :
                \/ i \in DOMAIN log[d] /\ log'[d][i] = log[d][i]
                \/ /\ d = c /\ i = Len(log[c]) + 1
                   /\ log'[d][i] = [role |-> role, by |-> by]
           /\ Len(log[c]) + 1 \in DOMAIN log'[c]
           /\ log'[c][Len(log[c]) + 1] = [role |-> role, by |-> by]
<1>1. /\ log'[c] = Append(log[c], [role |-> role, by |-> by])
      /\ \A d \in ConvIds \ {c} : log'[d] = log[d]
  BY Stored
<1>2. [role |-> role, by |-> by] \in Entries /\ log[c] \in Seq(Entries)
  BY DEF Entries, Typed
<1>3. /\ Len(log'[c]) = Len(log[c]) + 1
      /\ DOMAIN log'[c] = 1 .. Len(log[c]) + 1
      /\ DOMAIN log[c] = 1 .. Len(log[c])
      /\ log'[c][Len(log[c]) + 1] = [role |-> role, by |-> by]
      /\ \A i \in 1 .. Len(log[c]) : log'[c][i] = log[c][i]
  BY <1>1, <1>2
<1> QED
  BY <1>1, <1>3

\* A turn that moves on without storing anything leaves the log true.
LEMMA QuietTurn ==
    ASSUME Typed, Placed, LogInv, NEW t \in Deliveries,
           Receive(t) \/ Dismiss(t) \/ Lookup(t) \/ Create(t) \/ ReadHistory(t) \/ CallLlm(t)
             \/ SendPart(t) \/ Touch(t) \/ Fails(t)
    PROVE  LogInv'
<1> USE Acting DEF MoveTo, tables, Typed
<1>1. UNCHANGED <<log, deletion>>
  BY DEF Receive, Dismiss, Lookup, Create, ReadHistory, CallLlm, SendPart, Touch, Fails
<1>2. \A s \in Deliveries \ {t} : pc'[s] = pc[s] /\ conv'[s] = conv[s] /\ parts'[s] = parts[s]
  BY DEF Receive, Dismiss, Lookup, Create, ReadHistory, CallLlm, SendPart, Touch, Fails
<1>3. pc'[t] \in {"history", "call", "send", "reply"} =>
        conv'[t] = conv[t] /\ pc[t] \in {"history", "call", "send", "reply"}
  BY DEF Receive, Dismiss, Lookup, Create, ReadHistory, CallLlm, SendPart, Touch, Fails
<1>4. pc'[t] \in Replies \cup {"sent"} => pc[t] \in Replies \cup {"sent"}
  BY DEF Receive, Dismiss, Lookup, Create, ReadHistory, CallLlm, SendPart, Touch, Fails, Replies
<1>5. parts'[t] = parts[t] \/ pc[t] \in Replies
  BY DEF Receive, Dismiss, Lookup, Create, ReadHistory, CallLlm, SendPart, Touch, Fails, Replies
<1>6. Asking'
  <2> SUFFICES ASSUME NEW s \in Deliveries, pc'[s] \in {"history", "call", "send", "reply"},
                      deletion'[conv'[s]] = "none"
               PROVE  Asked(s)'
    BY DEF Asking
  <2>1. conv'[s] = conv[s] /\ pc[s] \in {"history", "call", "send", "reply"}
    BY <1>2, <1>3
  <2>2. Asked(s)
    BY <1>1, <2>1 DEF LogInv, Asking
  <2> QED
    BY <1>1, <2>1, <2>2 DEF Asked, Question
<1>7. Unanswered'
  <2> SUFFICES ASSUME NEW s \in Deliveries, pc'[s] \in Replies \cup {"sent"},
                      NEW c \in ConvIds, NEW i \in DOMAIN log[c]
               PROVE  ~ Answered(s, c, i)
    BY <1>1 DEF Unanswered, Answered
  <2>1. pc[s] \in Replies \cup {"sent"}
    BY <1>2, <1>4
  <2> QED
    BY <2>1 DEF LogInv, Unanswered
<1>8. StoredWasSent'
  <2> SUFFICES ASSUME NEW c \in ConvIds, NEW i \in DOMAIN log[c], Answers(c, i)
               PROVE  parts'[log[c][i].by] = Parts
    BY <1>1 DEF StoredWasSent, Answers
  <2>1. log[c][i] \in Entries
    OBVIOUS
  <2>2. log[c][i].by \in Deliveries /\ log[c][i].role = "assistant"
    BY <2>1 DEF Answers, Entries, Actors
  <2>3. parts[log[c][i].by] = Parts
    BY DEF LogInv, StoredWasSent
  <2> QED
    BY <1>2, <1>5, <2>2, <2>3 DEF LogInv, Unanswered, Answered
<1>9. AnswerFollowsQuestion'
  <2> SUFFICES ASSUME NEW c \in ConvIds, deletion'[c] = "none", NEW i \in DOMAIN log'[c],
                      Answers(c, i)'
               PROVE  \E j \in 1 .. i - 1 : log'[c][j] = Question(log'[c][i].by)
    BY DEF AnswerFollowsQuestion, Question
  <2>1. log' = log /\ deletion' = deletion /\ Answers(c, i)
    BY <1>1 DEF Answers
  <2>2. \E j \in 1 .. i - 1 : log[c][j] = Question(log[c][i].by)
    BY <2>1, Zenon DEF LogInv, AnswerFollowsQuestion, Question
  <2> QED
    BY <2>1, <2>2
<1> QED
  BY <1>6, <1>7, <1>8, <1>9 DEF LogInv

\* What an actor stores keeps the log true, if it answers its own question only.
LEMMA StoringKeeps ==
    ASSUME Typed, Placed, LogInv, NEW c \in ConvIds, NEW role \in {"user", "assistant"}, NEW by \in Actors,
           Store(c, role, by), UNCHANGED <<deletion, parts, conv>>,
           \A s \in Deliveries \ {by} : pc'[s] = pc[s],
           role = "assistant" /\ by \in Deliveries =>
              /\ parts[by] = Parts
              /\ conv[by] = c
              /\ deletion[c] = "none" => Asked(by),
           by \in Deliveries =>
              /\ pc'[by] \in Replies \cup {"sent"} => pc[by] \in Replies /\ role = "user"
              /\ pc'[by] \in {"history", "call", "send", "reply"} => conv[by] = c /\ role = "user"
    PROVE  LogInv'
<1> USE Acting DEF Typed
<1>0. \A d \in ConvIds : Len(log[d]) \in Nat /\ DOMAIN log[d] = 1 .. Len(log[d])
  OBVIOUS
<1>1. /\ \A d \in ConvIds : \A i \in DOMAIN log'[d] :
           \/ i \in DOMAIN log[d] /\ log'[d][i] = log[d][i]
           \/ /\ d = c /\ i = Len(log[c]) + 1
              /\ log'[d][i] = [role |-> role, by |-> by]
      /\ Len(log[c]) + 1 \in DOMAIN log'[c]
      /\ log'[c][Len(log[c]) + 1] = [role |-> role, by |-> by]
  BY StoreGrows
<1>k. \A d \in ConvIds : \A i \in DOMAIN log[d] : i \in DOMAIN log'[d] /\ log'[d][i] = log[d][i]
  BY StoreGrows
<1>6. Asking'
  <2> SUFFICES ASSUME NEW t \in Deliveries, pc'[t] \in {"history", "call", "send", "reply"},
                      deletion[conv[t]] = "none"
               PROVE  Asked(t)'
    BY DEF Asking
  <2>1. CASE t = by
    BY <1>1, <2>1 DEF Asked, Question
  <2>2. CASE t # by
    <3>1. Asked(t) /\ conv[t] \in ConvIds \cup {NoConv}
      BY <2>2 DEF LogInv, Asking
    <3>2. conv[t] \in ConvIds
      BY <2>2 DEF Placed
    <3> QED
      BY <1>k, <3>1, <3>2 DEF Asked
  <2> QED
    BY <2>1, <2>2
<1>7. Unanswered'
  <2> SUFFICES ASSUME NEW t \in Deliveries, pc'[t] \in Replies \cup {"sent"},
                      NEW d \in ConvIds, NEW i \in DOMAIN log'[d], Answered(t, d, i)'
               PROVE  FALSE
    BY DEF Unanswered
  <2>1. pc[t] \in Replies \cup {"sent"}
    OBVIOUS
  <2>2. CASE i \in DOMAIN log[d] /\ log'[d][i] = log[d][i]
    BY <2>1, <2>2 DEF LogInv, Unanswered, Answered
  <2>3. CASE log'[d][i] = [role |-> role, by |-> by]
    BY <2>3 DEF Answered
  <2> QED
    BY <1>1, <2>2, <2>3
<1>8. StoredWasSent'
  <2> SUFFICES ASSUME NEW d \in ConvIds, NEW i \in DOMAIN log'[d], Answers(d, i)'
               PROVE  parts[log'[d][i].by] = Parts
    BY DEF StoredWasSent
  <2>1. CASE i \in DOMAIN log[d] /\ log'[d][i] = log[d][i]
    BY <2>1 DEF LogInv, StoredWasSent, Answers
  <2>2. CASE log'[d][i] = [role |-> role, by |-> by]
    BY <2>2 DEF Answers, Actors
  <2> QED
    BY <1>1, <2>1, <2>2
<1>9. AnswerFollowsQuestion'
  <2> SUFFICES ASSUME NEW d \in ConvIds, deletion[d] = "none", NEW i \in DOMAIN log'[d],
                      Answers(d, i)'
               PROVE  \E j \in 1 .. i - 1 : log'[d][j] = Question(log'[d][i].by)
    BY DEF AnswerFollowsQuestion, Question
  <2>1. CASE i \in DOMAIN log[d] /\ log'[d][i] = log[d][i]
    <3>0. Answers(d, i)
      BY <2>1 DEF Answers
    <3>1. PICK j \in 1 .. i - 1 : log[d][j] = Question(log[d][i].by)
      BY <2>1, <3>0, Zenon DEF LogInv, AnswerFollowsQuestion, Question
    <3>2. j \in DOMAIN log[d]
      BY <1>0, <2>1, <3>1
    <3> QED
      BY <1>k, <2>1, <3>1, <3>2
  <2>2. CASE d = c /\ i = Len(log[c]) + 1 /\ log'[d][i] = [role |-> role, by |-> by]
    <3>1. role = "assistant" /\ by \in Deliveries /\ log'[d][i].by = by
      BY <2>2 DEF Answers, Actors
    <3>2. PICK j \in DOMAIN log[c] : log[c][j] = Question(by)
      BY <2>2, <3>1 DEF Asked
    <3>3. j \in 1 .. i - 1
      BY <1>0, <2>2, <3>2
    <3> QED
      BY <1>k, <2>2, <3>1, <3>2, <3>3
  <2> QED
    BY <1>1, <2>1, <2>2
<1> QED
  BY <1>6, <1>7, <1>8, <1>9 DEF LogInv

\* Who does not touch the log, nor moves a turn, leaves the log true.
LEMMA LogAlone ==
    ASSUME Typed, Placed, LogInv, UNCHANGED <<log, parts>>,
           \A s \in Deliveries : pc'[s] = pc[s] /\ conv'[s] = conv[s],
           \A c \in ConvIds : deletion'[c] = "none" => deletion[c] = "none"
    PROVE  LogInv'
<1>1. Asking'
  <2> SUFFICES ASSUME NEW t \in Deliveries, pc[t] \in {"history", "call", "send", "reply"},
                      deletion'[conv[t]] = "none"
               PROVE  Asked(t)'
    BY DEF Asking
  <2>1. Asked(t)
    BY DEF LogInv, Asking, Placed
  <2> QED
    BY <2>1 DEF Asked, Question
<1>2. Unanswered'
  BY DEF LogInv, Unanswered, Answered
<1>3. StoredWasSent'
  BY DEF LogInv, StoredWasSent, Answers
<1>4. AnswerFollowsQuestion'
  <2> SUFFICES ASSUME NEW c \in ConvIds, deletion'[c] = "none", NEW i \in DOMAIN log'[c],
                      Answers(c, i)'
               PROVE  \E j \in 1 .. i - 1 : log'[c][j] = Question(log'[c][i].by)
    BY DEF AnswerFollowsQuestion, Question
  <2>1. log' = log /\ deletion[c] = "none" /\ Answers(c, i)
    BY DEF Answers
  <2>2. \E j \in 1 .. i - 1 : log[c][j] = Question(log[c][i].by)
    BY <2>1, Zenon DEF LogInv, AnswerFollowsQuestion, Question
  <2> QED
    BY <2>1, <2>2
<1> QED
  BY <1>1, <1>2, <1>3, <1>4 DEF LogInv

\* Every step of a turn and of the operator leaves the log true.
LEMMA NextLogInv == Typed /\ Placed /\ LogInv /\ Next => LogInv'
<1> SUFFICES ASSUME Typed, Placed, LogInv, Next
             PROVE  LogInv'
  OBVIOUS
<1> USE Acting, TurnAssumption DEF MoveTo, tables
<1>p. pc \in [Actors -> TurnPlaces \cup OpPlaces]
  BY DEF Typed
<1>1. ASSUME NEW t \in Deliveries, StoreMessage(t)
      PROVE  LogInv'
  <2>1. /\ pc[t] = "store" /\ conv[t] \in ConvIds
        /\ Store(conv[t], "user", t)
        /\ UNCHANGED <<deletion, parts, conv>>
        /\ \A s \in Deliveries \ {t} : pc'[s] = pc[s]
    BY <1>1, <1>p DEF StoreMessage, Placed
  <2> QED
    BY <2>1, StoringKeeps DEF Replies
<1>2. ASSUME NEW t \in Deliveries, StoreReply(t)
      PROVE  LogInv'
  <2>1. /\ pc[t] = "reply" /\ conv[t] \in ConvIds /\ parts[t] = Parts
        /\ Store(conv[t], "assistant", t)
        /\ UNCHANGED <<deletion, parts, conv>>
        /\ \A s \in Deliveries \ {t} : pc'[s] = pc[s]
        /\ pc'[t] \in {"done", "touch"}
    BY <1>2, <1>p DEF StoreReply, Placed
  <2>2. deletion[conv[t]] = "none" => Asked(t)
    BY <2>1 DEF LogInv, Asking
  <2> QED
    BY <2>1, <2>2, StoringKeeps DEF Replies
<1>3. CASE Write
  <2>1. /\ conv[Operator] \in ConvIds
        /\ Store(conv[Operator], "assistant", Operator)
        /\ UNCHANGED <<deletion, parts, conv>>
        /\ \A s \in Deliveries \ {Operator} : pc'[s] = pc[s]
    BY <1>3, <1>p DEF Write, Placed
  <2> QED
    BY <2>1, StoringKeeps
<1>4. CASE DeleteMessages
  <2>1. /\ conv[Operator] \in ConvIds
        /\ log' = [log EXCEPT ![conv[Operator]] = <<>>]
        /\ deletion' = [deletion EXCEPT ![conv[Operator]] = "messages"]
        /\ UNCHANGED <<parts, conv>>
        /\ \A s \in Deliveries : pc'[s] = pc[s]
    BY <1>4, <1>p DEF DeleteMessages, Placed
  <2>2. /\ \A c \in ConvIds \ {conv[Operator]} : log'[c] = log[c] /\ deletion'[c] = deletion[c]
        /\ log'[conv[Operator]] = <<>> /\ deletion'[conv[Operator]] # "none"
    BY <2>1 DEF Typed
  <2>3. Asking'
    <3> SUFFICES ASSUME NEW t \in Deliveries, pc[t] \in {"history", "call", "send", "reply"},
                        deletion'[conv[t]] = "none"
                 PROVE  Asked(t)'
      BY <2>1 DEF Asking
    <3>1. conv[t] \in ConvIds /\ conv[t] # conv[Operator]
      BY <2>2 DEF Placed
    <3>2. Asked(t)
      BY <2>2, <3>1 DEF LogInv, Asking
    <3> QED
      BY <2>1, <2>2, <3>1, <3>2 DEF Asked, Question
  <2>4. Unanswered'
    BY <2>1, <2>2 DEF LogInv, Unanswered, Answered
  <2>5. StoredWasSent'
    BY <2>1, <2>2 DEF LogInv, StoredWasSent, Answers
  <2>6. AnswerFollowsQuestion'
    <3> SUFFICES ASSUME NEW c \in ConvIds, deletion'[c] = "none", NEW i \in DOMAIN log'[c],
                        Answers(c, i)'
                 PROVE  \E j \in 1 .. i - 1 : log'[c][j] = Question(log'[c][i].by)
      BY DEF AnswerFollowsQuestion, Question
    <3>1. log'[c] = log[c] /\ deletion[c] = "none" /\ Answers(c, i)
      BY <2>2 DEF Answers
    <3>2. \E j \in 1 .. i - 1 : log[c][j] = Question(log[c][i].by)
      BY <3>1, Zenon DEF LogInv, AnswerFollowsQuestion, Question
    <3> QED
      BY <3>1, <3>2
  <2> QED
    BY <2>3, <2>4, <2>5, <2>6 DEF LogInv
<1>5. ASSUME Toggle("pause", FALSE) \/ Toggle("resume", TRUE) \/ DeleteRow \/ WriteTouch
               \/ OperatorFails \/ (\E act \in OperatorActs : OperatorBegins(act))
      PROVE  LogInv'
  <2>1. /\ UNCHANGED <<log, parts>>
        /\ \A s \in Deliveries : pc'[s] = pc[s] /\ conv'[s] = conv[s]
        /\ \A c \in ConvIds : deletion'[c] = "none" => deletion[c] = "none"
    BY <1>5, <1>p DEF Toggle, DeleteRow, WriteTouch, OperatorFails, OperatorBegins, Typed
  <2> QED
    BY <2>1, LogAlone
<1> QED
  BY <1>1, <1>2, <1>3, <1>4, <1>5, QuietTurn DEF Next, Turn, Operate

\* A log is what was said, in an order that makes sense, whatever turns and
\* operator do at once (save_message, send_direct_message, delete_conversation).
THEOREM LogsTrue == Spec => []LogIsTrue
<1>1. Init => Typed /\ Placed /\ LogInv
  <2>1. Init => LogInv
    <3> SUFFICES ASSUME Init
                 PROVE  LogInv
      OBVIOUS
    <3>1. \A c \in ConvIds : DOMAIN log[c] = {}
      BY DEF Init
    <3>2. \A t \in Deliveries : pc[t] = "sent"
      BY Acting DEF Init
    <3> QED
      BY <3>1, <3>2
         DEF LogInv, Asking, Unanswered, StoredWasSent, AnswerFollowsQuestion
  <2> QED
    BY <2>1, InitTyped
<1>2. Typed /\ Placed /\ LogInv /\ [Next]_vars => (Typed /\ Placed /\ LogInv)'
  <2>1. Typed /\ Placed /\ LogInv /\ Next => (Typed /\ Placed /\ LogInv)'
    BY NextTyped, NextLogInv
  <2>2. Typed /\ Placed /\ UNCHANGED vars => (Typed /\ Placed)'
    BY DEF Typed, Placed, vars, tables, turns
  <2>3. Typed /\ Placed /\ LogInv /\ UNCHANGED vars => LogInv'
    BY LogAlone DEF vars, tables, turns
  <2> QED
    BY <2>1, <2>2, <2>3
<1>3. Typed /\ Placed /\ LogInv => LogIsTrue
  <2>1. Typed /\ Placed => TypeOK
    <3> SUFFICES ASSUME Typed, Placed
                 PROVE  TypeOK
      OBVIOUS
    <3>1. \A c \in ConvIds : \A i \in DOMAIN log[c] : log[c][i] \in Entries
      BY DEF Typed
    <3>2. /\ marked \subseteq Messages
          /\ rows \in [ConvIds -> [exists : BOOLEAN, contact : BOOLEAN, ai : BOOLEAN]]
          /\ conv \in [Actors -> ConvIds \cup {NoConv}]
          /\ parts \in [Deliveries -> 0 .. Parts]
      BY DEF Typed
    <3>3. /\ \A t \in Deliveries : pc[t] \in Working \cup {"sent", "refused", "failed", "done"}
          /\ pc[Operator] \in OperatorActs \cup {"idle", "drop", "touch"}
      BY DEF Placed, TurnPlaces
    <3> QED
      BY <3>1, <3>2, <3>3 DEF TypeOK, Entries
  <2> QED
    BY <2>1 DEF LogInv, LogIsTrue
<1> QED
  BY <1>1, <1>2, <1>3, PTL DEF Spec

-----------------------------------------------------------------------------
(* What a turn heeds. *)

\* While a contact is paused there is a conversation to find, and no turn is
\* creating another; its turns are on the way that avoids the LLM.
Silent ==
    /\ Contacted
    /\ paused # {} => /\ Found # {}
                      /\ \A c \in Found : ~ rows[c].ai
                      /\ \A t \in Deliveries : pc[t] # "create"
    /\ \A t \in paused :
        /\ pc[t] \notin {"sent", "create", "history", "call"}
        /\ pc[t] = "store" => ~ ai[t]
        /\ pc[t] \in {"send", "reply"} => canned[t]
        /\ ~ canned[t] => parts[t] = 0

\* Every step keeps the turns of a paused contact on that way.
LEMMA NextSilent == Typed /\ Placed /\ Silent /\ Next => Silent'
<1> SUFFICES ASSUME Typed, Placed, Silent, Next
             PROVE  Silent'
  OBVIOUS
<1> USE Acting, TurnAssumption DEF MoveTo, tables
<1>p. /\ pc \in [Actors -> TurnPlaces \cup OpPlaces]
      /\ ai \in [Deliveries -> BOOLEAN] /\ canned \in [Deliveries -> BOOLEAN]
      /\ parts \in [Deliveries -> 0 .. Parts] /\ paused \subseteq Deliveries
  BY DEF Typed
<1>1. ASSUME NEW t \in Deliveries, Receive(t)
      PROVE  Silent'
  <2>1. UNCHANGED <<rows, ai, canned, parts>>
    BY <1>1 DEF Receive
  <2>2. pc' = [pc EXCEPT ![t] = "refused"] \/ pc' = [pc EXCEPT ![t] = "lookup"]
    BY <1>1 DEF Receive
  <2>3. parts[t] = 0
    BY <1>1 DEF Receive, Placed
  <2>4. paused' = paused \/ (ContactPaused /\ paused' = paused \cup {t})
    BY <1>1 DEF Receive
  <2>5. Contacted' /\ Found' = Found
    BY <2>1 DEF Silent, Contacted, Found
  <2> QED
    BY <1>p, <2>1, <2>2, <2>3, <2>4, <2>5 DEF Silent, ContactPaused
<1>2. ASSUME NEW t \in Deliveries, Dismiss(t) \/ ReadHistory(t) \/ CallLlm(t) \/ SendPart(t)
                                     \/ StoreReply(t) \/ Fails(t)
      PROVE  Silent'
  <2>1. UNCHANGED <<rows, ai, paused>> /\ pc[t] # "sent"
    BY <1>2 DEF Dismiss, ReadHistory, CallLlm, SendPart, StoreReply, Fails, Working
  <2>2. Contacted' /\ Found' = Found
    BY <2>1 DEF Silent, Contacted, Found
  <2>3. pc'[t] \notin {"sent", "create", "store"} /\ \A s \in Deliveries \ {t} : pc'[s] = pc[s]
    BY <1>2, <1>p DEF Dismiss, ReadHistory, CallLlm, SendPart, StoreReply, Fails
  <2>4. \A s \in Deliveries \ {t} : canned'[s] = canned[s] /\ parts'[s] = parts[s]
    BY <1>2, <1>p DEF Dismiss, ReadHistory, CallLlm, SendPart, StoreReply, Fails
  <2>5. t \in paused =>
          /\ pc'[t] \notin {"history", "call"}
          /\ pc'[t] \in {"send", "reply"} => canned'[t]
          /\ ~ canned'[t] => parts'[t] = 0
    BY <1>2, <1>p DEF Dismiss, ReadHistory, CallLlm, SendPart, StoreReply, Fails, Silent
  <2> QED
    BY <1>p, <2>1, <2>2, <2>3, <2>4, <2>5 DEF Silent
<1>3. ASSUME NEW t \in Deliveries, Lookup(t)
      PROVE  Silent'
  <2>1. UNCHANGED <<rows, canned, parts, paused>> /\ pc[t] = "lookup"
    BY <1>3 DEF Lookup
  <2>2. Contacted' /\ Found' = Found
    BY <2>1 DEF Silent, Contacted, Found
  <2>3. CASE Found = {}
    <3>1. paused = {}
      BY <2>3 DEF Silent
    <3> QED
      BY <2>1, <2>2, <3>1 DEF Silent
  <2>4. CASE Found # {}
    <3>1. PICK c \in Found : ai' = [ai EXCEPT ![t] = rows[c].ai] /\ pc' = [pc EXCEPT ![t] = "store"]
      BY <1>3, <2>4 DEF Lookup
    <3> QED
      BY <1>p, <2>1, <2>2, <2>4, <3>1 DEF Silent
  <2> QED
    BY <2>3, <2>4
<1>4. ASSUME NEW t \in Deliveries, Create(t)
      PROVE  Silent'
  <2>1. paused = {} /\ paused' = {}
    BY <1>4 DEF Create, Silent
  <2>2. PICK c \in ConvIds :
          rows' = [rows EXCEPT ![c] = [exists |-> TRUE, contact |-> TRUE, ai |-> TRUE]]
    BY <1>4 DEF Create
  <2>3. rows'[c].exists /\ \A d \in ConvIds \ {c} : rows'[d] = rows[d]
    BY <2>2 DEF Typed
  <2>4. Contacted'
    BY <2>3 DEF Silent, Contacted
  <2> QED
    BY <2>1, <2>4 DEF Silent
<1>5. ASSUME NEW t \in Deliveries, StoreMessage(t)
      PROVE  Silent'
  <2>1. UNCHANGED <<rows, ai, parts, paused>> /\ pc[t] = "store" /\ parts[t] = 0
    BY <1>5 DEF StoreMessage, Placed
  <2>2. Contacted' /\ Found' = Found
    BY <2>1 DEF Silent, Contacted, Found
  <2>3. PICK c \in BOOLEAN : canned' = [canned EXCEPT ![t] = c]
    BY <1>5 DEF StoreMessage
  <2>4. /\ canned'[t] => pc' = [pc EXCEPT ![t] = "send"]
        /\ ~ canned'[t] /\ ~ ai[t] => pc' = [pc EXCEPT ![t] = "touch"]
        /\ \E where \in {"send", "touch", "history"} : pc' = [pc EXCEPT ![t] = where]
    BY <1>5 DEF StoreMessage, AfterStore
  <2>5. \A s \in Deliveries \ {t} : pc'[s] = pc[s] /\ canned'[s] = canned[s]
    BY <1>p, <2>3, <2>4
  <2>6. pc'[t] \in {"send", "touch", "history"}
        /\ (t \in paused => pc'[t] = "touch" \/ (pc'[t] = "send" /\ canned'[t]))
    BY <1>p, <2>1, <2>4 DEF Silent
  <2> QED
    BY <1>p, <2>1, <2>2, <2>5, <2>6 DEF Silent
<1>6. ASSUME NEW t \in Deliveries, Touch(t)
      PROVE  Silent'
  <2>1. UNCHANGED <<ai, canned, parts, paused>> /\ pc' = [pc EXCEPT ![t] = "done"]
        /\ conv[t] \in ConvIds /\ rows' = Touched(conv[t])
    BY <1>6 DEF Touch, Placed
  <2>2. Contacted' /\ Found' = Found /\ \A d \in ConvIds : rows'[d].ai = rows[d].ai
    BY <2>1, TouchedFound DEF Silent
  <2> QED
    BY <1>p, <2>1, <2>2 DEF Silent, Found
<1>7. ASSUME Toggle("pause", FALSE)
      PROVE  Silent'
  <2>1. UNCHANGED <<ai, canned, parts, paused>> /\ pc' = [pc EXCEPT ![Operator] = "idle"]
        /\ conv[Operator] \in ConvIds
        /\ rows' = [Touched(conv[Operator]) EXCEPT ![conv[Operator]].ai = FALSE]
    BY <1>7 DEF Toggle, Placed
  <2>2. /\ \A d \in ConvIds \ {conv[Operator]} : rows'[d] = rows[d]
        /\ rows'[conv[Operator]].contact = rows[conv[Operator]].contact
        /\ rows'[conv[Operator]].exists
        /\ ~ rows'[conv[Operator]].ai
    BY <2>1, TouchedRows
  <2>3. Contacted' /\ Found' = Found
    BY <2>1, <2>2 DEF Silent, Contacted, Found
  <2>4. \A d \in Found : ~ rows[d].ai => ~ rows'[d].ai
    BY <2>2 DEF Found
  <2> QED
    BY <1>p, <2>1, <2>3, <2>4 DEF Silent
<1>8. ASSUME Toggle("resume", TRUE) \/ DeleteRow
      PROVE  Silent'
  <2>1. paused' = {} /\ conv[Operator] \in ConvIds
    BY <1>8 DEF Toggle, DeleteRow, Placed
  <2>2. Contacted'
    <3>1. CASE Toggle("resume", TRUE)
      <4>1. rows' = [Touched(conv[Operator]) EXCEPT ![conv[Operator]].ai = TRUE]
        BY <3>1 DEF Toggle
      <4>2. /\ \A d \in ConvIds \ {conv[Operator]} : rows'[d] = rows[d]
            /\ rows'[conv[Operator]].exists
        BY <2>1, <4>1, TouchedRows
      <4> QED
        BY <4>2 DEF Silent, Contacted
    <3>2. CASE DeleteRow
      BY <2>1, <3>2 DEF DeleteRow, NoRow, Silent, Contacted, Typed
    <3> QED
      BY <1>8, <3>1, <3>2
  <2> QED
    BY <2>1, <2>2 DEF Silent
<1>9. ASSUME WriteTouch
      PROVE  Silent'
  <2>1. UNCHANGED <<ai, canned, parts, paused>> /\ pc' = [pc EXCEPT ![Operator] = "idle"]
        /\ conv[Operator] \in ConvIds /\ rows' = Touched(conv[Operator])
    BY <1>9 DEF WriteTouch, Placed
  <2>2. Contacted' /\ Found' = Found /\ \A d \in ConvIds : rows'[d].ai = rows[d].ai
    BY <2>1, TouchedFound DEF Silent
  <2> QED
    BY <1>p, <2>1, <2>2 DEF Silent, Found
<1>10. ASSUME DeleteMessages \/ Write \/ OperatorFails \/ (\E act \in OperatorActs : OperatorBegins(act))
       PROVE  Silent'
  <2>1. UNCHANGED <<rows, ai, canned, parts, paused>> /\ \A t \in Deliveries : pc'[t] = pc[t]
    BY <1>p, <1>10 DEF DeleteMessages, Write, OperatorFails, OperatorBegins
  <2>2. Contacted' /\ Found' = Found
    BY <2>1 DEF Silent, Contacted, Found
  <2> QED
    BY <1>p, <2>1, <2>2 DEF Silent
<1> QED
  BY <1>1, <1>2, <1>3, <1>4, <1>5, <1>6, <1>7, <1>8, <1>9, <1>10 DEF Next, Turn, Operate

\* Where a turn is after it has asked, and before it has answered.
Asks == {"call", "send", "reply"}

\* Messages are only added at the end of a conversation, until they are deleted.
LEMMA NextGrows ==
    Typed /\ Placed /\ Next =>
        \A c \in ConvIds : deletion'[c] = "none" =>
            /\ deletion[c] = "none"
            /\ Len(log[c]) <= Len(log'[c])
            /\ \A i \in DOMAIN log[c] : i \in DOMAIN log'[c] /\ log'[c][i] = log[c][i]
<1> SUFFICES ASSUME Typed, Placed, Next, NEW c \in ConvIds, deletion'[c] = "none"
             PROVE  /\ deletion[c] = "none"
                    /\ Len(log[c]) <= Len(log'[c])
                    /\ \A i \in DOMAIN log[c] : i \in DOMAIN log'[c] /\ log'[c][i] = log[c][i]
  OBVIOUS
<1> USE Acting DEF tables
<1>0. log[c] \in Seq(Entries) /\ Len(log[c]) \in Nat
  BY DEF Typed
<1>1. ASSUME NEW d \in ConvIds, NEW role \in {"user", "assistant"}, NEW by \in Actors,
             Store(d, role, by), UNCHANGED deletion
      PROVE  /\ deletion[c] = "none"
             /\ Len(log[c]) <= Len(log'[c])
             /\ \A i \in DOMAIN log[c] : i \in DOMAIN log'[c] /\ log'[c][i] = log[c][i]
  <2>1. [role |-> role, by |-> by] \in Entries
    BY DEF Entries
  <2>2. log'[c] = log[c] \/ log'[c] = Append(log[c], [role |-> role, by |-> by])
    BY <1>1, Stored
  <2>3. Len(log[c]) <= Len(log'[c])
    BY <1>0, <2>1, <2>2
  <2> QED
    BY <1>1, <2>3, StoreGrows
<1>2. CASE UNCHANGED <<log, deletion>>
  BY <1>0, <1>2
<1>3. ASSUME NEW t \in Deliveries, Turn(t)
      PROVE  \/ UNCHANGED <<log, deletion>>
             \/ \E role \in {"user", "assistant"} :
                    conv[t] \in ConvIds /\ Store(conv[t], role, t) /\ UNCHANGED deletion
  <2>1. CASE StoreMessage(t) \/ StoreReply(t)
    BY <2>1 DEF StoreMessage, StoreReply, Placed
  <2> QED
    BY <1>3, <2>1 DEF Turn, Receive, Dismiss, Lookup, Create, ReadHistory, CallLlm, SendPart,
                      Touch, Fails
<1>4. CASE DeleteMessages
  <2>1. conv[Operator] \in ConvIds /\ deletion' = [deletion EXCEPT ![conv[Operator]] = "messages"]
    BY <1>4 DEF DeleteMessages, Placed
  <2>2. c # conv[Operator] /\ deletion[c] = "none"
    BY <2>1 DEF Typed
  <2>3. log'[c] = log[c]
    BY <1>4, <2>2 DEF DeleteMessages, Typed
  <2> QED
    BY <1>0, <2>2, <2>3
<1>5. CASE DeleteRow
  <2>1. deletion[c] = "none" /\ log' = log
    BY <1>5 DEF DeleteRow, Placed, Typed
  <2> QED
    BY <1>0, <2>1
<1>6. CASE Write
  <2>1. conv[Operator] \in ConvIds /\ Store(conv[Operator], "assistant", Operator)
        /\ UNCHANGED deletion
    BY <1>6 DEF Write, Placed
  <2> QED
    BY <2>1, <1>1
<1>7. ASSUME Toggle("pause", FALSE) \/ Toggle("resume", TRUE) \/ WriteTouch \/ OperatorFails
               \/ (\E act \in OperatorActs : OperatorBegins(act))
      PROVE  UNCHANGED <<log, deletion>>
  BY <1>7 DEF Toggle, WriteTouch, OperatorFails, OperatorBegins
<1> QED
  BY <1>1, <1>2, <1>3, <1>4, <1>5, <1>6, <1>7 DEF Next, Operate

\* A turn past its call got there by reading the history, and no step of
\* another changes what it remembers.
LEMMA NextAsks ==
    ASSUME Typed, Placed, Next, NEW s \in Deliveries, pc'[s] \in Asks, ~ canned'[s]
    PROVE  /\ conv'[s] = conv[s]
           /\ \/ ReadHistory(s)
              \/ pc[s] \in Asks /\ ~ canned[s] /\ grounded'[s] = grounded[s]
<1> USE Acting DEF MoveTo, tables, Asks
<1>p. /\ pc \in [Actors -> TurnPlaces \cup OpPlaces] /\ conv \in [Actors -> ConvIds \cup {NoConv}]
      /\ canned \in [Deliveries -> BOOLEAN] /\ grounded \in [Deliveries -> BOOLEAN]
  BY DEF Typed
<1>1. ASSUME NEW t \in Deliveries, Turn(t)
      PROVE  /\ conv'[s] = conv[s]
             /\ \/ ReadHistory(s)
                \/ pc[s] \in Asks /\ ~ canned[s] /\ grounded'[s] = grounded[s]
  <2>1. CASE Receive(t) \/ Dismiss(t) \/ Create(t) \/ CallLlm(t) \/ SendPart(t)
               \/ StoreReply(t) \/ Touch(t) \/ Fails(t)
    <3>1. pc'[t] \in Asks => pc[t] \in Asks /\ conv' = conv /\ canned' = canned
      BY <1>p, <2>1 DEF Receive, Dismiss, Create, CallLlm, SendPart, StoreReply, Touch, Fails
    <3>2. grounded' = grounded
      BY <2>1 DEF Receive, Dismiss, Create, CallLlm, SendPart, StoreReply, Touch, Fails
    <3>3. s # t => pc'[s] = pc[s] /\ conv'[s] = conv[s] /\ canned'[s] = canned[s]
      BY <1>p, <2>1 DEF Receive, Dismiss, Create, CallLlm, SendPart, StoreReply, Touch, Fails
    <3>4. CASE s = t
      BY <3>1, <3>2, <3>4
    <3>5. CASE s # t
      BY <3>2, <3>3, <3>5
    <3> QED
      BY <3>4, <3>5
  <2>2. CASE Lookup(t)
    <3>1. pc'[t] \notin Asks /\ UNCHANGED <<canned, grounded>>
      BY <1>p, <2>2 DEF Lookup
    <3>2. s # t => pc'[s] = pc[s] /\ conv'[s] = conv[s]
      BY <1>p, <2>2 DEF Lookup
    <3> QED
      BY <3>1, <3>2
  <2>3. CASE ReadHistory(t)
    <3>1. s # t => pc'[s] = pc[s] /\ grounded'[s] = grounded[s]
      BY <1>p, <2>3 DEF ReadHistory
    <3>2. UNCHANGED <<conv, canned>>
      BY <2>3 DEF ReadHistory
    <3> QED
      BY <2>3, <3>1, <3>2
  <2>4. CASE StoreMessage(t)
    <3>1. UNCHANGED <<conv, grounded>>
      BY <2>4 DEF StoreMessage
    <3>2. PICK c \in BOOLEAN : canned' = [canned EXCEPT ![t] = c]
      BY <2>4 DEF StoreMessage
    <3>3. \E where \in {"send", "touch", "history"} :
            pc' = [pc EXCEPT ![t] = where] /\ (where = "send" => canned'[t])
      BY <2>4 DEF StoreMessage, AfterStore
    <3>4. s # t => pc'[s] = pc[s] /\ canned'[s] = canned[s]
      BY <1>p, <3>2, <3>3
    <3>5. s # t
      BY <1>p, <3>3
    <3> QED
      BY <3>1, <3>4, <3>5
  <2> QED
    BY <1>1, <2>1, <2>2, <2>3, <2>4 DEF Turn
<1>2. ASSUME Operate
      PROVE  pc'[s] = pc[s] /\ conv'[s] = conv[s] /\ UNCHANGED <<canned, grounded>>
  BY <1>p, <1>2 DEF Operate, OperatorBegins, Toggle, DeleteMessages, DeleteRow, Write, WriteTouch, OperatorFails
<1> QED
  BY <1>1, <1>2 DEF Next

\* So a turn that asks has its question before the LLM, or it was crowded out.
LEMMA NextAsked ==
    Typed /\ Placed /\ LogInv /\ AskedAboutItsMessage /\ Next => AskedAboutItsMessage'
<1> SUFFICES ASSUME Typed, Placed, LogInv, AskedAboutItsMessage, Next,
                    NEW s \in Deliveries, pc'[s] \in Asks, ~ canned'[s],
                    deletion'[conv'[s]] = "none"
             PROVE  grounded'[s] \/ CrowdedOut(s)'
  BY DEF AskedAboutItsMessage, Asks
<1>1. /\ conv'[s] = conv[s]
      /\ \/ ReadHistory(s)
         \/ pc[s] \in Asks /\ ~ canned[s] /\ grounded'[s] = grounded[s]
  BY NextAsks
<1>2. conv[s] \in ConvIds
  BY <1>1 DEF Placed, ReadHistory, Asks
<1> DEFINE c == conv[s]
<1>3. /\ deletion[c] = "none"
      /\ Len(log[c]) <= Len(log'[c])
      /\ \A i \in DOMAIN log[c] : i \in DOMAIN log'[c] /\ log'[c][i] = log[c][i]
  BY <1>1, <1>2, NextGrows
<1>4. /\ Len(log[c]) \in Nat /\ Len(log'[c]) \in Nat
      /\ DOMAIN log[c] = 1 .. Len(log[c])
  BY <1>2, NextTyped DEF Typed
<1>5. grounded'[s] \/ (\E i \in DOMAIN log[c] : log[c][i] = Question(s) /\ i + HistoryLimit <= Len(log[c]))
  <2>1. CASE ReadHistory(s)
    <3>1. PICK i \in DOMAIN log[c] : log[c][i] = Question(s)
      BY <1>3, <2>1 DEF LogInv, Asking, Asked, ReadHistory
    <3>2. CASE i + HistoryLimit > Len(log[c])
      <4>1. i \in Recent(c)
        BY <3>2 DEF Recent
      <4> QED
        BY <2>1, <3>1, <4>1 DEF ReadHistory, Typed, Question
    <3>3. CASE ~ (i + HistoryLimit > Len(log[c]))
      <4>1. i + HistoryLimit <= Len(log[c])
        BY <1>4, <3>3, TurnAssumption
      <4> QED
        BY <3>1, <4>1
    <3> QED
      BY <3>2, <3>3
  <2>2. CASE pc[s] \in Asks /\ ~ canned[s] /\ grounded'[s] = grounded[s]
    BY <1>3, <2>2 DEF AskedAboutItsMessage, Asks, CrowdedOut, Question
  <2> QED
    BY <1>1, <2>1, <2>2
<1>6. ASSUME NEW i \in DOMAIN log[c], log[c][i] = Question(s), i + HistoryLimit <= Len(log[c])
      PROVE  CrowdedOut(s)'
  <2>1. i + HistoryLimit <= Len(log'[c])
    BY <1>3, <1>4, <1>6, TurnAssumption
  <2>2. i \in DOMAIN log'[c] /\ log'[c][i] = Question(s)
    BY <1>3, <1>6
  <2> QED
    BY <1>1, <2>1, <2>2 DEF CrowdedOut, Question
<1> QED
  BY <1>5, <1>6

\* The LLM is asked with the message of the turn before it, and a paused
\* contact is not answered, whichever conversation the turn finds.
THEOREM TurnsHeed == Spec => []TurnHeeds
<1> DEFINE Inv == Typed /\ Placed /\ LogInv /\ Silent /\ AskedAboutItsMessage
<1>1. Init => Inv
  <2> SUFFICES ASSUME Init
               PROVE  Inv
    OBVIOUS
  <2>1. \A t \in Deliveries : pc[t] = "sent"
    BY Acting DEF Init
  <2>2. \A c \in ConvIds : DOMAIN log[c] = {} /\ ~ rows[c].contact
    BY DEF Init, NoRow
  <2>3. LogInv
    BY <2>1, <2>2 DEF LogInv, Asking, Unanswered, StoredWasSent, AnswerFollowsQuestion
  <2>4. Silent
    BY <2>2 DEF Silent, Contacted, Init
  <2> QED
    BY <2>1, <2>3, <2>4, InitTyped DEF AskedAboutItsMessage
<1>2. Inv /\ [Next]_vars => Inv'
  <2>1. Inv /\ Next => Inv'
    BY NextTyped, NextLogInv, NextSilent, NextAsked
  <2>2. ASSUME Inv, UNCHANGED vars
        PROVE  Inv'
    <3> USE <2>2 DEF vars, tables, turns
    <3>1. Typed' /\ Placed'
      BY DEF Typed, Placed
    <3>2. LogInv'
      BY LogAlone
    <3>3. Silent'
      BY DEF Silent, Contacted, Found
    <3>4. AskedAboutItsMessage'
      BY DEF AskedAboutItsMessage, CrowdedOut
    <3> QED
      BY <3>1, <3>2, <3>3, <3>4
  <2> QED
    BY <2>1, <2>2
<1>3. Inv => TurnHeeds
  BY DEF Silent, TurnHeeds, PausedMeansSilent
<1> QED
  BY <1>1, <1>2, <1>3, PTL DEF Spec

-----------------------------------------------------------------------------
(* One turn for one message, when the database answers the dedup and the   *)
(* driver reads its refusals.                                              *)

\* The marks are the messages of the turns that started, one turn each.
Marks ==
    /\ \A t \in Deliveries : pc[t] # "sent" => MessageOf[t] \in marked
    /\ \A m \in marked : \E s \in Deliveries : MessageOf[s] = m /\ Started(s)
    /\ \A s, t \in Deliveries :
        Started(s) /\ Started(t) /\ MessageOf[s] = MessageOf[t] => s = t

\* Only a delivery adds to the marks, and a turn that started stays started.
LEMMA NextMarks ==
    ASSUME ~ DedupMayFail, RefusedReadable, Typed, Placed, Marks, Next
    PROVE  Marks'
<1> USE Acting, TurnAssumption DEF MoveTo, tables
<1>p. pc \in [Actors -> TurnPlaces \cup OpPlaces]
  BY DEF Typed
<1>1. ASSUME NEW t \in Deliveries, Receive(t)
      PROVE  Marks'
  <2>1. \A s \in Deliveries \ {t} : pc'[s] = pc[s]
    BY <1>1, <1>p DEF Receive
  <2>2. CASE Taken(t)
    <3>1. pc'[t] = "refused" /\ marked' = marked /\ MessageOf[t] \in marked /\ pc[t] = "sent"
      BY <1>1, <1>p, <2>2 DEF Receive, Taken
    <3> QED
      BY <2>1, <3>1 DEF Marks, Started
  <2>3. CASE ~ Taken(t)
    <3>1. pc'[t] = "lookup" /\ marked' = marked \cup {MessageOf[t]} /\ MessageOf[t] \notin marked
      BY <1>1, <1>p, <2>3 DEF Receive, Taken
    <3>2. \A s \in Deliveries \ {t} : Started(s) => MessageOf[s] # MessageOf[t]
      BY <3>1 DEF Marks, Started
    <3> QED
      BY <2>1, <3>1, <3>2 DEF Marks, Started
  <2> QED
    BY <2>2, <2>3
<1>2. ASSUME NEW t \in Deliveries, Turn(t), ~ Receive(t)
      PROVE  Marks'
  <2>1. marked' = marked /\ \A s \in Deliveries \ {t} : pc'[s] = pc[s]
    BY <1>2, <1>p DEF Turn, Dismiss, Lookup, Create, StoreMessage, ReadHistory, CallLlm, SendPart,
                      StoreReply, Touch, Fails
  <2>2. pc[t] \notin {"sent", "refused"} /\ pc'[t] \notin {"sent", "refused"}
    BY <1>2, <1>p DEF Turn, Dismiss, Lookup, Create, StoreMessage, AfterStore, ReadHistory, CallLlm,
                      SendPart, StoreReply, Touch, Fails, Working
  <2> QED
    BY <2>1, <2>2 DEF Marks, Started
<1>3. CASE Operate
  <2>1. marked' = marked /\ \A s \in Deliveries : pc'[s] = pc[s]
    BY <1>3, <1>p DEF Operate, OperatorBegins, Toggle, DeleteMessages, DeleteRow, Write, WriteTouch, OperatorFails
  <2> QED
    BY <2>1 DEF Marks, Started
<1> QED
  BY <1>1, <1>2, <1>3 DEF Next

\* However often a message is delivered, one turn takes it on and answers
\* once (check_and_mark), provided no statement of the dedup fails and the
\* driver decodes the reply of one that was refused.
THEOREM OneTurn ==
    ASSUME ~ DedupMayFail, RefusedReadable
    PROVE  Spec => []OneTurnEach
<1> DEFINE Inv == Typed /\ Placed /\ Marks
<1>1. Init => Inv
  <2>1. Init => Marks
    BY Acting DEF Init, Marks, Started
  <2> QED
    BY <2>1, InitTyped
<1>2. Inv /\ [Next]_vars => Inv'
  <2>1. Inv /\ Next => Inv'
    BY NextTyped, NextMarks
  <2>2. Inv /\ UNCHANGED vars => Inv'
    BY DEF Typed, Placed, Marks, Started, vars, tables, turns
  <2> QED
    BY <2>1, <2>2
<1>3. Inv => OneTurnEach
  <2>1. Inv => RefusedWasTaken
    BY DEF Marks, RefusedWasTaken, Started
  <2>2. Inv => AnsweredOnce
    <3> SUFFICES ASSUME Inv, NEW s \in Deliveries, NEW t \in Deliveries,
                        s # t, MessageOf[s] = MessageOf[t]
                 PROVE  parts[s] = 0 \/ parts[t] = 0
      BY DEF AnsweredOnce
    <3>1. ~ Started(s) \/ ~ Started(t)
      BY DEF Marks
    <3> QED
      BY <3>1 DEF Started, Placed
  <2> QED
    BY <2>1, <2>2 DEF OneTurnEach
<1> QED
  BY <1>1, <1>2, <1>3, PTL DEF Spec

-----------------------------------------------------------------------------
USE TasksAssumption

(* Workspaces: the members of a workspace in their three places. *)

WorkspacesNext == \E t \in Tasks : WorkspacesStep(t)
WorkspacesSpec == WorkspacesInit /\ TasksInit(Budgets) /\ [][WorkspacesNext]_<<tasking, wsVars>>

Writes(t) == WsWrites(call[t].op, Arg(t))

\* Rows have their columns.
WorkspaceRows ==
    /\ workspace = [name |-> workspace.name, whole |-> workspace.whole] /\ workspace.whole \in BOOLEAN
    /\ members = [u \in Users |-> members[u]] /\ mine = [u \in Users |-> mine[u]]
    /\ \A u \in Users :
        /\ members[u] = [role |-> members[u].role, whole |-> members[u].whole]
        /\ mine[u] = [role |-> mine[u].role, whole |-> mine[u].whole, name |-> mine[u].name]
        /\ members[u].whole \in BOOLEAN /\ mine[u].whole \in BOOLEAN
    /\ active \in [Users -> BOOLEAN]
    /\ invites = [i \in Invites |-> invites[i]]
    /\ \A i \in Invites :
        invites[i] = [to |-> invites[i].to, role |-> invites[i].role, state |-> invites[i].state]
    /\ geral = [made |-> geral.made, people |-> geral.people] /\ geral.made \in BOOLEAN
    /\ out \subseteq Users

\* An invite that was sent names a user and a role.
Sent(i) == invites[i] # NoInvite
InvitesNamed == \A i \in Invites : Sent(i) => invites[i].to \in Users /\ invites[i].role # "none"

\* What a call was made with.  An invite is inserted once.
CalledWith(t) ==
    LET c == call[t] IN
    /\ c.op \in {"none", "create", "update", "delete", "remove", "set_role", "invite", "accept", "switch"}
    /\ c.op = "create" => c.arg.user = Owner
    /\ c.op \in {"remove", "set_role", "switch", "accept"} => c.arg.user \in Users
    /\ c.op = "set_role" => c.arg.role # "none"
    /\ c.op = "invite" => c.arg.invite \in Invites /\ c.arg.to \in Users /\ c.arg.role # "none"
                          /\ ~ Sent(c.arg.invite)
    /\ c.op = "accept" => c.arg.invite \in Invites /\ Sent(c.arg.invite)
                          /\ invites[c.arg.invite].to = c.arg.user

\* A deletion goes through the members it has listed.
Listing(t) ==
    LET c == call[t] IN
    c.op = "delete" /\ c.at \in {"member", "mine", "active", "reset"} =>
        c.got.user \in Users /\ c.got.rest \subseteq Users

CalledOnce ==
    \A t, o \in Tasks : t # o =>
        /\ ~ (call[t].op = "create" /\ call[o].op = "create")
        /\ call[t].op = "invite" /\ call[o].op = "invite" => call[t].arg.invite # call[o].arg.invite

\* The workspace is created once, and then has its channel.
Founding ==
    /\ \A t \in Tasks : call[t].op = "create" =>
        /\ call[t].at \in {"workspace", "add", "named", "mine", "room", "enter", "fill", "filling"}
        /\ call[t].at = "workspace" => ~ workspace.whole
        /\ call[t].at \in {"enter", "fill", "filling"} => geral.made
    /\ Owner \notin wsMessy => 
        /\ workspace.whole /\ (\A t \in Tasks : call[t].op # "create") => geral.made
        /\ Owner \in out => geral.made

-----------------------------------------------------------------------------
\* What holds of a user whose rows one task writes at a time, at any time.
Kept(u) ==
    /\ members[u].whole => workspace.whole /\ Role(u) # "none"
    /\ ~ members[u].whole /\ Role(u) # "none" => u \in revived
    /\ u \in out => members[u] = Absent
    /\ \A i \in Invites : invites[i].to = u /\ invites[i].state = "open" => workspace.whole

Alike(u)   == /\ members[u].whole = mine[u].whole
              /\ members[u].whole => members[u].role = mine[u].role
Named(u)   == members[u].whole => mine[u].name = workspace.name
Agrees(u)  == Alike(u) /\ Named(u)
Works(u)   == u \notin revived /\ active[u] => members[u].whole
Outside(u) == ~ members[u].whole /\ ~ mine[u].whole
Free(u)    == Agrees(u) /\ Works(u)

\* How far a task that writes the rows of u has brought them.
Creating(c, u) ==
    /\ u \notin out /\ Works(u)
    /\ c.at \in {"workspace", "add"} => Outside(u)
    /\ c.at \in {"add", "named", "mine"} => workspace.whole
    /\ c.at = "named" => members[u].whole /\ Role(u) = "owner"
    /\ c.at = "mine" => members[u].whole /\ c.got.role = Role(u) /\ c.got.name = workspace.name
    /\ c.at \in {"room", "enter", "fill", "filling"} => Agrees(u)

Accepting(c, u) ==
    /\ Works(u) /\ c.at \in {"read", "mark", "add", "named", "mine", "rooms", "enter", "check", "activate"}
    /\ c.at # "read" => workspace.whole
    /\ c.at \in {"read", "mark", "add"} => Agrees(u)
    /\ c.at = "mark" => invites[c.arg.invite].state = "open"
    /\ c.at = "add" => u \notin out
    /\ c.at \in {"mark", "add", "named"} => c.got.role # "none"
    /\ c.at = "named" => members[u].whole /\ Role(u) = c.got.role
    /\ c.at = "mine" => members[u].whole /\ c.got.role = Role(u) /\ c.got.name = workspace.name
    /\ c.at \in {"rooms", "enter", "check", "activate"} => members[u].whole /\ Agrees(u)

\* One of the three places after the other.
Leaving(at, u) ==
    /\ at = "member" => Free(u)
    /\ at \in {"mine", "active", "reset"} => members[u] = Absent
    /\ at \in {"active", "reset"} => mine[u] = NotMine

Removing(c, u) ==
    /\ c.at \in {"role", "get", "member", "mine", "active", "reset"}
    /\ c.at \in {"role", "get"} => Free(u)
    /\ c.at \notin {"role", "get"} => u # Owner /\ Leaving(c.at, u)

Deleting(c, u) ==
    /\ c.at \in {"role", "get", "list", "member", "mine", "active", "reset",
                 "invites", "keys", "workspace", "home"}
    /\ c.at \in {"role", "get", "list"} => Free(u)
    /\ c.at \notin {"role", "get"} /\ u = Owner => geral.made
    /\ c.at \in {"member", "mine", "active", "reset"} =>
        /\ c.got.user \notin c.got.rest
        /\ u = c.got.user => Leaving(c.at, u)
        /\ u \in c.got.rest => Free(u)
        /\ u # c.got.user /\ u \notin c.got.rest => Outside(u) /\ Works(u)
    /\ c.at \in {"invites", "keys", "workspace", "home"} => Outside(u) /\ Works(u)
    /\ c.at \in {"keys", "workspace", "home"} =>
        \A i \in Invites : invites[i].to = u => invites[i].state # "open"

Updating(c, u) ==
    /\ Works(u) /\ Alike(u) /\ c.at \in {"role", "name", "list", "each"}
    /\ c.at \in {"role", "name"} => Named(u)
    /\ c.at \in {"list", "each"} /\ members[u].whole => workspace.name = c.arg.name
    /\ c.at = "each" /\ members[u].whole /\ u \notin c.got => mine[u].name = c.arg.name

SettingRole(c, u) ==
    /\ Works(u) /\ Named(u) /\ c.at \in {"role", "set", "mine"}
    /\ members[u].whole = mine[u].whole
    /\ c.at \in {"role", "set"} => Alike(u)
    /\ c.at = "mine" => Role(u) = c.arg.role

Halfway(c, u) ==
    /\ c.op = "create"   => Creating(c, u)
    /\ c.op = "accept"   => Accepting(c, u)
    /\ c.op = "remove"   => Removing(c, u)
    /\ c.op = "delete"   => Deleting(c, u)
    /\ c.op = "update"   => Updating(c, u)
    /\ c.op = "set_role" => SettingRole(c, u)
    /\ c.op \in {"invite", "switch"} => Free(u)
    /\ c.op = "invite" /\ c.at = "insert" => workspace.whole
    /\ c.op = "switch" /\ c.at = "activate" => Role(u) # "none"

\* The rows of a user, and who writes them.
Membership(u) ==
    /\ Kept(u)
    /\ \A t \in Tasks : u \in Writes(t) =>
        /\ Halfway(call[t], u)
        /\ \A o \in Tasks \ {t} : u \notin Writes(o)
    /\ (\A t \in Tasks : u \notin Writes(t)) => Free(u)

MembersInv ==
    /\ Shaped /\ WorkspaceRows /\ InvitesNamed /\ CalledOnce /\ Founding
    /\ \A t \in Tasks : CalledWith(t) /\ Listing(t)
    /\ \A u \in Users \ wsMessy : Membership(u)

\* Who writes whose rows.
LEMMA WritesAre ==
    ASSUME NEW op, NEW arg
    PROVE  /\ op \in {"update", "delete"} => WsWrites(op, arg) = Users
           /\ op = "invite" => WsWrites(op, arg) = {arg.to}
           /\ op \in {"create", "accept", "remove", "set_role", "switch"} => WsWrites(op, arg) = {arg.user}
           /\ op = "none" => WsWrites(op, arg) = {}
  BY DEF WsWrites

\* Of a call that goes on the writes are the same, and of one that has ended none.
LEMMA WritesStay ==
    ASSUME NEW t
    PROVE  /\ call[t].op = "none" => Writes(t) = {}
           /\ call'[t].op = "none" => Writes(t)' = {}
           /\ call'[t].op = call[t].op /\ call'[t].arg = call[t].arg => Writes(t)' = Writes(t)
<1>1. Writes(t) = WsWrites(call[t].op, call[t].arg)
      /\ Writes(t)' = WsWrites(call'[t].op, call'[t].arg)
  BY DEF Writes, Arg, WsWrites
<1> QED
  BY <1>1, WritesAre

\* The rows of u are as they were; the workspace is, or was inserted.
Beside(u) ==
    /\ UNCHANGED <<members[u], mine[u], active[u]>>
    /\ u \in out' <=> u \in out
    /\ u \in revived' <=> u \in revived
    /\ \A i \in Invites : (Sent(i) /\ invites[i].to = u) \/ (Sent(i)' /\ invites'[i].to = u) =>
                            invites'[i] = invites[i]
    /\ geral.made => geral'.made
    /\ workspace' = workspace \/ (~ workspace.whole /\ workspace'.whole)

\* The writer of the rows of u finds them where it left them.
LEMMA BesideKeeps ==
    ASSUME NEW u \in Users, NEW c, Kept(u), Beside(u), Halfway(c, u),
           c.op = "accept" => c.arg.invite \in Invites /\ Sent(c.arg.invite)
                             /\ invites[c.arg.invite].to = u
    PROVE  Halfway(c, u)'
<1>1. members[u].whole => workspace' = workspace
  BY DEF Kept, Beside
<1>2. /\ Works(u) => Works(u)'
      /\ Alike(u) => Alike(u)'
      /\ Named(u) => Named(u)'
      /\ Agrees(u) => Agrees(u)'
      /\ Outside(u) => Outside(u)'
      /\ Free(u) => Free(u)'
  BY <1>1 DEF Beside, Works, Alike, Named, Agrees, Outside, Free
<1>3. workspace.whole => workspace'.whole
  BY DEF Beside
<1>4. CASE c.op = "create"
  BY <1>1, <1>2, <1>3, <1>4 DEF Halfway, Creating, Beside, Role
<1>5. CASE c.op = "accept"
  <2>1. invites'[c.arg.invite] = invites[c.arg.invite]
    BY <1>5 DEF Beside, Sent
  <2> QED
    BY <1>1, <1>2, <1>3, <1>5, <2>1 DEF Halfway, Accepting, Beside, Role
<1>6. CASE c.op = "remove"
  BY <1>1, <1>2, <1>3, <1>6 DEF Halfway, Removing, Leaving, Beside, Role
<1>7. CASE c.op = "delete"
  <2>1. Deleting(c, u)
    BY <1>7 DEF Halfway
  <2>2. \A i \in Invites : invites'[i].to = u => invites'[i] = invites[i] \/ invites'[i].state = "none"
    BY DEF Beside, Sent, NoInvite
  <2>3. \A at : Leaving(at, u) => Leaving(at, u)'
    BY <1>2 DEF Leaving, Beside
  <2>4. Deleting(c, u)'
    BY <1>2, <2>1, <2>2, <2>3 DEF Deleting, Beside
  <2> QED
    BY <1>7, <2>4 DEF Halfway
<1>8. CASE c.op = "update"
  BY <1>1, <1>2, <1>3, <1>8 DEF Halfway, Updating, Beside, Role
<1>9. CASE c.op = "set_role"
  BY <1>1, <1>2, <1>3, <1>9 DEF Halfway, SettingRole, Beside, Role
<1>10. CASE c.op \in {"invite", "switch"}
  BY <1>1, <1>2, <1>3, <1>10 DEF Halfway, Beside, Role
<1>11. CASE c.op \notin {"create", "accept", "remove", "delete", "update", "set_role", "invite", "switch"}
  BY <1>11 DEF Halfway
<1> QED
  BY <1>4, <1>5, <1>6, <1>7, <1>8, <1>9, <1>10, <1>11

LEMMA BesideFree ==
    ASSUME NEW u \in Users, Kept(u), Beside(u)
    PROVE  Kept(u)' /\ (Free(u) => Free(u)')
<1>1. members[u].whole => workspace' = workspace
  BY DEF Kept, Beside
<1>2. workspace.whole => workspace'.whole
  BY DEF Beside
<1> QED
  BY <1>1, <1>2 DEF Beside, Kept, Free, Agrees, Alike, Named, Works, Role, Sent, NoInvite

\* What a step has to show: where it leaves the users its task writes, and that
\* it leaves the others alone.
Leads(t, u) ==
    IF u \in Writes(t)
    THEN Kept(u)' /\ (IF call'[t].op = "none" THEN Free(u)' ELSE Halfway(call[t], u)')
    ELSE Beside(u)

\* Nothing that the calls were made with changes.
Frame(t) ==
    /\ Shaped' /\ Only(t) /\ call[t].op # "none"
    /\ call'[t].op = "none" \/ (call'[t].op = call[t].op /\ call'[t].arg = call[t].arg)
    /\ call[t].op = "delete" => Listing(t)'
    /\ \A i \in Invites : /\ Sent(i) => Sent(i)' /\ invites'[i].to = invites[i].to
                          /\ ~ Sent(i) /\ Sent(i)' => /\ call[t].op = "invite" /\ call[t].arg.invite = i
                                                      /\ call'[t].op = "none"

\* A task that runs takes a step.
LEMMA StepOn ==
    ASSUME MembersInv, NEW t \in Tasks, Frame(t), UNCHANGED wsMessy,
           WorkspaceRows', InvitesNamed', Founding',
           \A u \in Users \ wsMessy : Leads(t, u)
    PROVE  MembersInv'
<1>1. \A o \in Tasks \ {t} : call'[o] = call[o]
  BY DEF Frame, Only
<1>2. \A o \in Tasks \ {t} : Writes(o)' = Writes(o)
  BY <1>1, WritesStay
<1>3. Writes(t)' = (IF call'[t].op = "none" THEN {} ELSE Writes(t))
  BY WritesStay DEF Frame
<1>4. \A o \in Tasks : CalledWith(o)
  BY DEF MembersInv
<1>5. CalledOnce /\ CalledOnce'
  <2>1. CalledOnce
    BY DEF MembersInv
  <2> QED
    BY <1>1, <2>1 DEF CalledOnce, Frame
<1>6. ASSUME NEW o \in Tasks
      PROVE  CalledWith(o)'
  <2>1. call'[o].op = "none" \/ (call'[o].op = call[o].op /\ call'[o].arg = call[o].arg)
    BY <1>1 DEF Frame
  <2>2. CASE call'[o].op = "none"
    BY <2>2 DEF CalledWith
  <2>3. CASE call'[o].op # "none"
    <3>1. call'[o].op = call[o].op /\ call'[o].arg = call[o].arg
      BY <2>1, <2>3
    <3>2. CASE call[o].op = "invite"
      <4>0. call[o].arg.invite \in Invites /\ ~ Sent(call[o].arg.invite)
        BY <1>4, <3>2 DEF CalledWith
      <4>1. invites'[call[o].arg.invite] = NoInvite
        <5>1. ASSUME NEW i \in Invites, i = call[o].arg.invite, Sent(i)'
              PROVE  FALSE
          <6>1. call[t].op = "invite" /\ call[t].arg.invite = i /\ call'[t].op = "none"
            BY <4>0, <5>1 DEF Frame
          <6>2. o # t
            BY <2>3, <6>1
          <6> QED
            BY <1>5, <3>2, <5>1, <6>1, <6>2 DEF CalledOnce
        <5> QED
          BY <4>0, <5>1 DEF Sent
      <4> QED
        BY <1>4, <3>1, <3>2, <4>1 DEF CalledWith, Sent
    <3>3. CASE call[o].op = "accept"
      <4>0. call[o].arg.invite \in Invites /\ Sent(call[o].arg.invite)
        BY <1>4, <3>3 DEF CalledWith
      <4>1. /\ invites'[call[o].arg.invite] # NoInvite
            /\ invites'[call[o].arg.invite].to = invites[call[o].arg.invite].to
        BY <4>0 DEF Frame, Sent
      <4> QED
        BY <1>4, <3>1, <3>3, <4>1 DEF CalledWith, Sent
    <3> QED
      BY <1>4, <3>1, <3>2, <3>3 DEF CalledWith
  <2> QED
    BY <2>2, <2>3
<1>7. ASSUME NEW o \in Tasks
      PROVE  Listing(o)'
  <2>1. CASE o = t
    BY <2>1 DEF Listing, Frame
  <2>2. CASE o # t
    BY <1>1, <2>2 DEF Listing, MembersInv
  <2> QED
    BY <2>1, <2>2
<1>8. ASSUME NEW u \in Users \ wsMessy
      PROVE  Membership(u)'
  <2>1. Membership(u) /\ Kept(u)
    BY DEF MembersInv, Membership
  <2>2. CASE u \in Writes(t)
    <3>1. \A o \in Tasks \ {t} : u \notin Writes(o)
      BY <2>1, <2>2 DEF Membership
    <3>2. \A o \in Tasks \ {t} : u \notin Writes(o)'
      BY <1>2, <3>1
    <3>3. Kept(u)' /\ (IF call'[t].op = "none" THEN Free(u)' ELSE Halfway(call[t], u)')
      BY <2>2 DEF Leads
    <3>4. CASE call'[t].op = "none"
      BY <1>3, <3>2, <3>3, <3>4 DEF Membership
    <3>5. CASE call'[t].op # "none"
      BY <1>3, <2>2, <3>2, <3>3, <3>5 DEF Membership
    <3> QED
      BY <3>4, <3>5
  <2>3. CASE u \notin Writes(t)
    <3>1. Beside(u)
      BY <2>3 DEF Leads
    <3>2. u \notin Writes(t)'
      BY <1>3, <2>3
    <3>3. Kept(u)' /\ (Free(u) => Free(u)')
      BY <2>1, <3>1, BesideFree
    <3>4. ASSUME NEW o \in Tasks, u \in Writes(o)'
          PROVE  Halfway(call[o], u)' /\ \A p \in Tasks \ {o} : u \notin Writes(p)'
      <4>1. o # t /\ call'[o] = call[o] /\ u \in Writes(o)
        BY <1>1, <1>2, <3>2, <3>4
      <4>2. Halfway(call[o], u) /\ \A p \in Tasks \ {o} : u \notin Writes(p)
        BY <2>1, <4>1 DEF Membership
      <4>3. call[o].op = "accept" =>
             call[o].arg.invite \in Invites /\ Sent(call[o].arg.invite) /\ invites[call[o].arg.invite].to = u
        <5>1. call[o].op = "accept" => Writes(o) = {call[o].arg.user}
          BY WritesAre DEF Writes, Arg
        <5> QED
          BY <1>4, <4>1, <5>1 DEF CalledWith
      <4>4. \A c : c = call[o] => Halfway(c, u)'
        BY <2>1, <3>1, <4>2, <4>3, BesideKeeps
      <4>5. Halfway(call[o], u)'
        BY <4>1, <4>4
      <4>6. \A p \in Tasks \ {o} : u \notin Writes(p)'
        BY <1>2, <3>2, <4>2
      <4> QED
        BY <4>5, <4>6
    <3>5. (\A o \in Tasks : u \notin Writes(o)') => Free(u)'
      BY <1>2, <2>1, <2>3, <3>3 DEF Membership
    <3> QED
      BY <3>3, <3>4, <3>5 DEF Membership
  <2> QED
    BY <2>2, <2>3
<1> QED
  BY <1>5, <1>6, <1>7, <1>8 DEF MembersInv, Frame

\* A task that leaves the tables alone.
LEMMA TablesStay ==
    ASSUME UNCHANGED wsVars
    PROVE  /\ WorkspaceRows => WorkspaceRows'
           /\ InvitesNamed => InvitesNamed'
           /\ \A i \in Invites : Sent(i)' <=> Sent(i)
           /\ \A u \in Users : /\ Kept(u) => Kept(u)'
                               /\ Free(u) => Free(u)'
                               /\ Beside(u)
                               /\ \A c : Halfway(c, u) => Halfway(c, u)'
<1>1. UNCHANGED <<workspace, members, mine, active, invites, geral, wsMessy, revived, out>>
  BY DEF wsVars, wsTables, wsHistory
<1>2. WorkspaceRows => WorkspaceRows'
  BY <1>1 DEF WorkspaceRows
<1>3. InvitesNamed => InvitesNamed'
  BY <1>1 DEF InvitesNamed, Sent
<1>4. \A i \in Invites : Sent(i)' <=> Sent(i)
  BY <1>1 DEF Sent
<1>5. ASSUME NEW u \in Users
      PROVE  /\ Kept(u) => Kept(u)'
             /\ Free(u) => Free(u)'
             /\ Beside(u)
             /\ \A c : Halfway(c, u) => Halfway(c, u)'
  <2>1. Kept(u) => Kept(u)'
    BY <1>1 DEF Kept, Role
  <2>2. /\ Works(u) <=> Works(u)'
        /\ Alike(u) <=> Alike(u)'
        /\ Named(u) <=> Named(u)'
        /\ Agrees(u) <=> Agrees(u)'
        /\ Outside(u) <=> Outside(u)'
        /\ Free(u) <=> Free(u)'
    BY <1>1 DEF Works, Alike, Named, Agrees, Outside, Free
  <2>3. Beside(u)
    BY <1>1 DEF Beside, Sent
  <2>4. \A c : Halfway(c, u) => Halfway(c, u)'
    <3> SUFFICES ASSUME NEW c, Halfway(c, u) PROVE Halfway(c, u)'
      OBVIOUS
    <3>1. \A at : Leaving(at, u) => Leaving(at, u)'
      BY <1>1, <2>2 DEF Leaving
    <3>2. /\ Creating(c, u) => Creating(c, u)'
          /\ Accepting(c, u) => Accepting(c, u)'
          /\ Removing(c, u) => Removing(c, u)'
      BY <1>1, <2>2, <3>1 DEF Creating, Accepting, Removing, Role
    <3>3. Deleting(c, u) => Deleting(c, u)'
      BY <1>1, <2>2, <3>1 DEF Deleting
    <3>4. /\ Updating(c, u) => Updating(c, u)'
          /\ SettingRole(c, u) => SettingRole(c, u)'
      BY <1>1, <2>2 DEF Updating, SettingRole, Role
    <3> QED
      BY <1>1, <2>2, <3>2, <3>3, <3>4 DEF Halfway, Role
  <2> QED
    BY <2>1, <2>2, <2>3, <2>4
<1> QED
  BY <1>2, <1>3, <1>4, <1>5

\* Where a task goes on to.
GoesTo(t, at) ==
    /\ Shaped' /\ Only(t) /\ call'[t].op = call[t].op /\ call'[t].arg = call[t].arg
    /\ call'[t].at = at

LEMMA GotoKeeps ==
    ASSUME Shaped, NEW t \in Tasks, NEW at, Goto(t, at)
    PROVE  GoesTo(t, at) /\ call'[t].got = call[t].got
  BY DEF Goto, Shaped, Only, GoesTo

LEMMA LearnKeeps ==
    ASSUME Shaped, NEW t \in Tasks, NEW at, NEW got, Learn(t, at, got)
    PROVE  GoesTo(t, at) /\ call'[t].got = got
  BY Moves, Learns DEF GoesTo

LEMMA ListingStays ==
    ASSUME MembersInv, NEW t \in Tasks, NEW at, GoesTo(t, at),
           at \in {"member", "mine", "active", "reset"} =>
                call[t].at \in {"member", "mine", "active", "reset"} /\ call'[t].got = call[t].got
    PROVE  Listing(t)'
  BY DEF MembersInv, Listing, GoesTo

\* A task reads, or only goes on.
LEMMA ReadsOn ==
    ASSUME MembersInv, NEW t \in Tasks, Running(t), NEW at, GoesTo(t, at), UNCHANGED wsVars,
           call[t].op = "create" =>
                /\ at \in {"add", "named", "mine", "room", "enter", "fill", "filling"}
                /\ at \in {"enter", "fill", "filling"} => geral.made,
           call[t].op = "delete" => Listing(t)',
           \A u \in Users \ wsMessy :
                u \in Writes(t) /\ Halfway(call[t], u) /\ Kept(u) => Halfway(call'[t], u)
    PROVE  MembersInv'
<1>1. Frame(t)
  BY TablesStay DEF GoesTo, Frame, Running, wsVars, wsTables, wsHistory
<1>2. WorkspaceRows' /\ InvitesNamed'
  BY TablesStay DEF MembersInv
<1>3. Founding'
  <2>1. UNCHANGED <<workspace, geral, wsMessy, out>>
    BY DEF wsVars, wsTables, wsHistory
  <2>2. \A o \in Tasks \ {t} : call'[o] = call[o]
    BY DEF GoesTo, Only
  <2>3. Founding
    BY DEF MembersInv
  <2>4. \A o \in Tasks : call'[o].op = call[o].op
    BY <2>2 DEF GoesTo
  <2> QED
    BY <2>1, <2>2, <2>3, <2>4 DEF Founding, GoesTo
<1>4. ASSUME NEW u \in Users \ wsMessy
      PROVE  Leads(t, u)
  <2>1. Membership(u)
    BY DEF MembersInv
  <2>2. CASE u \in Writes(t)
    <3>1. Halfway(call[t], u) /\ Kept(u)
      BY <2>1, <2>2 DEF Membership
    <3>2. Halfway(call'[t], u)
      BY <2>2, <3>1
    <3>3. \A c : c = call'[t] => Halfway(c, u)'
      BY <3>2, TablesStay
    <3>4. Halfway(call[t], u)'
      BY <3>3
    <3>5. call'[t].op # "none"
      BY DEF GoesTo, Running
    <3> QED
      BY <2>2, <3>1, <3>4, <3>5, TablesStay DEF Leads
  <2>3. CASE u \notin Writes(t)
    BY <2>3, TablesStay DEF Leads
  <2> QED
    BY <2>2, <2>3
<1>5. UNCHANGED wsMessy
  BY DEF wsVars, wsHistory
<1> QED
  BY <1>1, <1>2, <1>3, <1>4, <1>5, StepOn

\* A task ends where it leaves nothing half done.
LEMMA EndsFree ==
    ASSUME MembersInv, NEW t \in Tasks, Running(t), Finish(t), UNCHANGED wsVars,
           call[t].op = "create" /\ Owner \notin wsMessy /\ workspace.whole => geral.made,
           \A u \in Users \ wsMessy :
                u \in Writes(t) /\ Halfway(call[t], u) /\ Kept(u) => Free(u)
    PROVE  MembersInv'
<1>0. Shaped' /\ Only(t) /\ call'[t].op = "none"
  BY Leaves DEF MembersInv
<1>1. Frame(t)
  BY <1>0, TablesStay DEF Frame, Listing, Running, wsVars, wsTables, wsHistory
<1>2. WorkspaceRows' /\ InvitesNamed'
  BY TablesStay DEF MembersInv
<1>3. Founding'
  <2>1. UNCHANGED <<workspace, geral, wsMessy, out>>
    BY DEF wsVars, wsTables, wsHistory
  <2>2. \A o \in Tasks \ {t} : call'[o] = call[o]
    BY <1>0 DEF Only
  <2>3. Founding
    BY DEF MembersInv
  <2>4. Owner \notin wsMessy /\ workspace.whole /\ (\A o \in Tasks : call'[o].op # "create") => geral.made
    BY <2>2, <2>3 DEF Founding
  <2> QED
    BY <1>0, <2>1, <2>2, <2>3, <2>4 DEF Founding
<1>4. ASSUME NEW u \in Users \ wsMessy
      PROVE  Leads(t, u)
  <2>1. Membership(u)
    BY DEF MembersInv
  <2>2. CASE u \in Writes(t)
    <3>1. Halfway(call[t], u) /\ Kept(u)
      BY <2>1, <2>2 DEF Membership
    <3>2. Free(u)
      BY <2>2, <3>1
    <3> QED
      BY <1>0, <2>2, <3>1, <3>2, TablesStay DEF Leads
  <2>3. CASE u \notin Writes(t)
    BY <2>3, TablesStay DEF Leads
  <2> QED
    BY <2>2, <2>3
<1>5. UNCHANGED wsMessy
  BY DEF wsVars, wsHistory
<1> QED
  BY <1>1, <1>2, <1>3, <1>4, <1>5, StepOn

\* A dropped task makes a mess of what it writes.
LEMMA DropSteps ==
    ASSUME MembersInv, NEW t \in Tasks, DropMember(t)
    PROVE  MembersInv'
<1>0. Shaped' /\ Only(t) /\ call'[t].op = "none" /\ Running(t)
  BY Leaves DEF MembersInv, DropMember, Drop
<1>1. wsMessy' = wsMessy \cup Writes(t)
      /\ UNCHANGED <<workspace, members, mine, active, invites, geral, revived, out>>
  BY DEF DropMember, Writes, wsTables
<1>2. \A o \in Tasks \ {t} : call'[o] = call[o] /\ Writes(o)' = Writes(o)
  BY <1>0, WritesStay DEF Only
<1>3. Writes(t)' = {}
  BY <1>0, WritesStay
<1>4. WorkspaceRows' /\ InvitesNamed'
  BY <1>1 DEF MembersInv, WorkspaceRows, InvitesNamed, Sent
<1>5. CalledOnce'
  BY <1>0, <1>2 DEF MembersInv, CalledOnce
<1>6. ASSUME NEW o \in Tasks PROVE CalledWith(o)' /\ Listing(o)'
  <2>1. CASE o = t
    BY <1>0, <2>1 DEF CalledWith, Listing
  <2>2. CASE o # t
    BY <1>1, <1>2, <2>2 DEF CalledWith, Listing, MembersInv, Sent
  <2> QED
    BY <2>1, <2>2
<1>7. Founding'
  <2>1. Founding
    BY DEF MembersInv
  <2>2. call[t].op = "create" => Owner \in wsMessy'
    <3>1. call[t].op = "create" => Writes(t) = {call[t].arg.user}
      BY WritesAre DEF Writes, Arg
    <3> QED
      BY <1>1, <3>1 DEF MembersInv, CalledWith
  <2>3. Owner \notin wsMessy' /\ workspace.whole /\ (\A o \in Tasks : call'[o].op # "create") => geral.made
    BY <1>1, <1>2, <2>1, <2>2 DEF Founding
  <2> QED
    BY <1>0, <1>1, <1>2, <2>1, <2>3 DEF Founding
<1>8. ASSUME NEW u \in Users \ wsMessy'
      PROVE  Membership(u)'
  <2>1. u \notin Writes(t) /\ Membership(u)
    BY <1>1 DEF MembersInv
  <2>2. Beside(u)
    BY <1>1 DEF Beside, Sent
  <2>3. Kept(u)' /\ (Free(u) => Free(u)')
    BY <2>1, <2>2, BesideFree DEF Membership
  <2>4. ASSUME NEW o \in Tasks, u \in Writes(o)'
        PROVE  Halfway(call[o], u)' /\ \A p \in Tasks \ {o} : u \notin Writes(p)'
    <3>1. o # t /\ call'[o] = call[o] /\ u \in Writes(o)
      BY <1>2, <1>3, <2>4
    <3>2. Halfway(call[o], u) /\ \A p \in Tasks \ {o} : u \notin Writes(p)
      BY <2>1, <3>1 DEF Membership
    <3>3. call[o].op = "accept" =>
             call[o].arg.invite \in Invites /\ Sent(call[o].arg.invite) /\ invites[call[o].arg.invite].to = u
      <4>1. call[o].op = "accept" => Writes(o) = {call[o].arg.user}
        BY WritesAre DEF Writes, Arg
      <4> QED
        BY <3>1, <4>1 DEF CalledWith, MembersInv
    <3>4. \A c : c = call[o] => Halfway(c, u)'
      BY <2>1, <2>2, <3>2, <3>3, BesideKeeps DEF Membership
    <3>5. Halfway(call[o], u)'
      BY <3>1, <3>4
    <3> QED
      BY <1>2, <1>3, <3>2, <3>5
  <2>5. (\A o \in Tasks : u \notin Writes(o)') => Free(u)'
    BY <1>2, <2>1, <2>3 DEF Membership
  <2> QED
    BY <2>3, <2>4, <2>5 DEF Membership
<1> QED
  BY <1>0, <1>4, <1>5, <1>6, <1>7, <1>8 DEF MembersInv

-----------------------------------------------------------------------------
(* Calls begin: where another call writes the same user, a mess. *)

LEMMA Begins ==
    ASSUME Shaped, NEW t \in Tasks, NEW op, NEW at, NEW arg, op # "none", BeginWs(t, op, at, arg)
    PROVE  /\ call'[t] = [op |-> op, at |-> at, arg |-> arg, got |-> <<>>]
           /\ Shaped' /\ Only(t) /\ call[t].op = "none"
           /\ wsMessy' = wsMessy \cup {u \in WsWrites(op, arg) :
                            \E o \in Tasks \ {t} : u \in Writes(o)}
           /\ UNCHANGED <<workspace, members, mine, active, invites, geral, revived, out>>
<1>1. /\ call'[t] = [op |-> op, at |-> at, arg |-> arg, got |-> <<>>]
      /\ Shaped' /\ Only(t) /\ call[t].op = "none"
  BY DEF BeginWs, Begin, BeginWith, Shaped, Only, Running
<1>2. \A o \in Tasks : call[o].op = "none" => Writes(o) = {}
  BY WritesStay
<1>3. {u \in WsWrites(op, arg) : \E o \in Others(t) : u \in WsWrites(call[o].op, Arg(o))}
      = {u \in WsWrites(op, arg) : \E o \in Tasks \ {t} : u \in Writes(o)}
  BY <1>2 DEF Others, Running, Writes
<1> QED
  BY <1>1, <1>3 DEF BeginWs, wsTables

LEMMA BeginSteps ==
    ASSUME MembersInv, NEW t \in Tasks, NEW op, NEW at, NEW arg, op # "none",
           BeginWs(t, op, at, arg), CalledWith(t)',
           op = "create" => /\ at = "workspace" /\ ~ workspace.whole
                            /\ \A o \in Tasks : call[o].op # "create",
           op = "delete" => at = "role",
           op = "invite" => \A o \in Tasks : call[o].op = "invite" => call[o].arg.invite # arg.invite,
           \A u \in Users \ wsMessy : u \in WsWrites(op, arg) /\ Kept(u) /\ Free(u) =>
                Halfway([op |-> op, at |-> at, arg |-> arg, got |-> <<>>], u)
    PROVE  MembersInv'
<1> DEFINE c == [op |-> op, at |-> at, arg |-> arg, got |-> <<>>]
<1>0. /\ call'[t] = c
      /\ Shaped' /\ Only(t) /\ call[t].op = "none"
      /\ wsMessy' = wsMessy \cup {u \in WsWrites(op, arg) : \E o \in Tasks \ {t} : u \in Writes(o)}
      /\ UNCHANGED <<workspace, members, mine, active, invites, geral, revived, out>>
  BY Begins DEF MembersInv
<1>1. c.op = op /\ c.at = at /\ c.arg = arg
  OBVIOUS
<1> HIDE DEF c
<1>2. \A o \in Tasks \ {t} : call'[o] = call[o] /\ Writes(o)' = Writes(o)
  BY <1>0, WritesStay DEF Only
<1>3. Writes(t)' = WsWrites(op, arg) /\ Writes(t) = {}
  BY <1>0, <1>1, WritesStay DEF Writes, Arg, WsWrites
<1>4. WorkspaceRows' /\ InvitesNamed'
  BY <1>0 DEF MembersInv, WorkspaceRows, InvitesNamed, Sent
<1>5. CalledOnce'
  BY <1>0, <1>1, <1>2 DEF MembersInv, CalledOnce
<1>6. ASSUME NEW o \in Tasks PROVE CalledWith(o)'
  <2>1. CASE o # t
    <3>1. CalledWith(o)
      BY DEF MembersInv
    <3> QED
      BY <1>0, <1>2, <2>1, <3>1 DEF CalledWith, Sent
  <2> QED
    BY <2>1
<1>7. ASSUME NEW o \in Tasks PROVE Listing(o)'
  <2>1. CASE o = t
    BY <1>0, <1>1, <2>1 DEF Listing
  <2>2. CASE o # t
    BY <1>2, <2>2 DEF Listing, MembersInv
  <2> QED
    BY <2>1, <2>2
<1>8. Founding'
  <2>1. Founding
    BY DEF MembersInv
  <2>2. wsMessy \subseteq wsMessy'
    BY <1>0
  <2>3. \A o \in Tasks : call[o].op = "create" => o # t
    BY <1>0
  <2> QED
    BY <1>0, <1>1, <1>2, <2>1, <2>2, <2>3 DEF Founding
<1>9. ASSUME NEW u \in Users \ wsMessy'
      PROVE  Membership(u)'
  <2>0. u \in Users \ wsMessy /\ (u \in WsWrites(op, arg) => \A o \in Tasks \ {t} : u \notin Writes(o))
    BY <1>0
  <2>1. Membership(u) /\ Kept(u)
    BY <2>0 DEF MembersInv, Membership
  <2>2. /\ Kept(u)' /\ (Free(u) => Free(u)')
        /\ \A d : Halfway(d, u) => Halfway(d, u)'
    <3>1. /\ Works(u) <=> Works(u)'
          /\ Alike(u) <=> Alike(u)'
          /\ Named(u) <=> Named(u)'
          /\ Agrees(u) <=> Agrees(u)'
          /\ Outside(u) <=> Outside(u)'
          /\ Free(u) <=> Free(u)'
      BY <1>0 DEF Works, Alike, Named, Agrees, Outside, Free
    <3>2. Kept(u)'
      BY <1>0, <2>1 DEF Kept, Role
    <3>3. ASSUME NEW d, Halfway(d, u)
          PROVE  Halfway(d, u)'
      <4>1. \A a : Leaving(a, u) => Leaving(a, u)'
        BY <1>0, <3>1 DEF Leaving
      <4>2. /\ Creating(d, u) => Creating(d, u)'
            /\ Accepting(d, u) => Accepting(d, u)'
            /\ Removing(d, u) => Removing(d, u)'
        BY <1>0, <3>1, <4>1 DEF Creating, Accepting, Removing, Role
      <4>3. Deleting(d, u) => Deleting(d, u)'
        BY <1>0, <3>1, <4>1 DEF Deleting
      <4>4. /\ Updating(d, u) => Updating(d, u)'
            /\ SettingRole(d, u) => SettingRole(d, u)'
        BY <1>0, <3>1 DEF Updating, SettingRole, Role
      <4> QED
        BY <1>0, <3>1, <3>3, <4>2, <4>3, <4>4 DEF Halfway, Role
    <3> QED
      BY <3>1, <3>2, <3>3
  <2>3. CASE u \in WsWrites(op, arg)
    <3>1. \A o \in Tasks : u \notin Writes(o)
      BY <1>3, <2>0, <2>3
    <3>2. Free(u)
      BY <2>1, <3>1 DEF Membership
    <3>3. Halfway(c, u)
      BY <2>0, <2>1, <2>3, <3>2 DEF c
    <3>4. \A d : d = c => Halfway(d, u)'
      BY <2>2, <3>3
    <3>5. Halfway(call[t], u)'
      BY <1>0, <3>4
    <3> QED
      BY <1>2, <1>3, <2>2, <3>1, <3>5, <2>3 DEF Membership
  <2>4. CASE u \notin WsWrites(op, arg)
    <3>1. ASSUME NEW o \in Tasks, u \in Writes(o)'
          PROVE  Halfway(call[o], u)' /\ \A p \in Tasks \ {o} : u \notin Writes(p)'
      <4>1. o # t /\ call'[o] = call[o] /\ u \in Writes(o)
        BY <1>2, <1>3, <2>4, <3>1
      <4>2. Halfway(call[o], u) /\ \A p \in Tasks \ {o} : u \notin Writes(p)
        BY <2>1, <4>1 DEF Membership
      <4>3. \A d : d = call[o] => Halfway(d, u)'
        BY <2>2, <4>2
      <4>4. Halfway(call[o], u)'
        BY <4>1, <4>3
      <4> QED
        BY <1>2, <1>3, <2>4, <4>2, <4>4
    <3>2. (\A o \in Tasks : u \notin Writes(o)') => Free(u)'
      BY <1>2, <1>3, <2>1, <2>2 DEF Membership
    <3> QED
      BY <2>2, <3>1, <3>2 DEF Membership
  <2> QED
    BY <2>3, <2>4
<1> QED
  BY <1>0, <1>4, <1>5, <1>6, <1>7, <1>8, <1>9 DEF MembersInv

LEMMA CallsBegin ==
    ASSUME MembersInv, NEW t \in Tasks, CreateCall(t) \/ ManagerCalls(t) \/ MemberCalls(t)
    PROVE  MembersInv'
<1> USE WorkspacesAssumption
<1>0. /\ Shaped /\ WorkspaceRows /\ InvitesNamed /\ Founding
  BY DEF MembersInv
<1>1. CASE CreateCall(t)
  <2>1. PICK n \in Names : BeginWs(t, "create", "workspace", [user |-> Owner, role |-> "owner", name |-> n])
    BY <1>1 DEF CreateCall
  <2> DEFINE arg == [user |-> Owner, role |-> "owner", name |-> n]
  <2>2. workspace = NoSpace /\ Role(Owner) = "none" /\ ~ geral.made /\ \A o \in Tasks : call[o].op # "create"
    BY <1>1 DEF CreateCall
  <2>3. WsWrites("create", arg) = {Owner}
    BY WritesAre
  <2>4. CalledWith(t)'
    <3>1. /\ call'[t] = [op |-> "create", at |-> "workspace",
                         arg |-> [user |-> Owner, role |-> "owner", name |-> n], got |-> <<>>]
          /\ invites' = invites
      BY <1>0, <2>1, Begins
    <3> QED
      BY <1>0, <2>1, <3>1 DEF CalledWith
  <2>5. ASSUME NEW u \in Users \ wsMessy, u \in WsWrites("create", arg), Kept(u), Free(u)
        PROVE  Halfway([op |-> "create", at |-> "workspace", arg |-> arg, got |-> <<>>], u)
    <3>1. u = Owner /\ u \notin out
      BY <1>0, <2>2, <2>3, <2>5 DEF Founding
    <3>2. Outside(u)
      BY <2>2, <2>5, <3>1 DEF Kept, Free, Agrees, Alike, Outside
    <3> QED
      BY <2>5, <3>1, <3>2 DEF Halfway, Creating, Free
  <2> QED
    BY <2>1, <2>2, <2>4, <2>5, BeginSteps DEF NoSpace
<1>2. CASE ManagerCalls(t)
  <2>1. PICK by \in Users :
        \/ \E n \in Names \ {workspace.name} : BeginWs(t, "update", "role", [by |-> by, name |-> n])
        \/ BeginWs(t, "delete", "role", [by |-> by])
        \/ \E u \in Users : BeginWs(t, "remove", "role", [by |-> by, user |-> u])
        \/ \E u \in Users, r \in {"admin", "member"} :
                BeginWs(t, "set_role", "role", [by |-> by, user |-> u, role |-> r])
        \/ \E i \in Invites, u \in Users, r \in {"admin", "member"} :
                /\ invites[i] = NoInvite
                /\ \A o \in Tasks : call[o].op = "invite" => Arg(o).invite # i
                /\ BeginWs(t, "invite", "role", [by |-> by, invite |-> i, to |-> u, role |-> r])
    BY <1>2 DEF ManagerCalls
  <2>2. ASSUME NEW n \in Names, BeginWs(t, "update", "role", [by |-> by, name |-> n])
        PROVE  MembersInv'
    <3>1. CalledWith(t)'
      <4>1. /\ call'[t] = [op |-> "update", at |-> "role",
                           arg |-> [by |-> by, name |-> n], got |-> <<>>]
            /\ invites' = invites
        BY <1>0, <2>2, Begins
      <4> QED
        BY <1>0, <2>2, <4>1 DEF CalledWith
    <3>2. \A u \in Users \ wsMessy : Free(u) =>
            Halfway([op |-> "update", at |-> "role", arg |-> [by |-> by, name |-> n], got |-> <<>>], u)
      BY DEF Halfway, Updating, Free, Agrees
    <3> QED
      BY <2>2, <3>1, <3>2, BeginSteps
  <2>3. ASSUME BeginWs(t, "delete", "role", [by |-> by])
        PROVE  MembersInv'
    <3>1. CalledWith(t)'
      <4>1. /\ call'[t] = [op |-> "delete", at |-> "role", arg |-> [by |-> by], got |-> <<>>]
            /\ invites' = invites
        BY <1>0, <2>3, Begins
      <4> QED
        BY <1>0, <2>3, <4>1 DEF CalledWith
    <3>2. \A u \in Users \ wsMessy : Free(u) =>
            Halfway([op |-> "delete", at |-> "role", arg |-> [by |-> by], got |-> <<>>], u)
      BY DEF Halfway, Deleting
    <3> QED
      BY <2>3, <3>1, <3>2, BeginSteps
  <2>4. ASSUME NEW v \in Users, BeginWs(t, "remove", "role", [by |-> by, user |-> v])
        PROVE  MembersInv'
    <3>1. CalledWith(t)'
      <4>1. /\ call'[t] = [op |-> "remove", at |-> "role",
                           arg |-> [by |-> by, user |-> v], got |-> <<>>]
            /\ invites' = invites
        BY <1>0, <2>4, Begins
      <4> QED
        BY <1>0, <2>4, <4>1 DEF CalledWith
    <3>2. \A u \in Users \ wsMessy : Free(u) =>
            Halfway([op |-> "remove", at |-> "role", arg |-> [by |-> by, user |-> v], got |-> <<>>], u)
      BY DEF Halfway, Removing
    <3> QED
      BY <2>4, <3>1, <3>2, BeginSteps
  <2>5. ASSUME NEW v \in Users, NEW r \in {"admin", "member"},
               BeginWs(t, "set_role", "role", [by |-> by, user |-> v, role |-> r])
        PROVE  MembersInv'
    <3>1. CalledWith(t)'
      <4>1. /\ call'[t] = [op |-> "set_role", at |-> "role",
                           arg |-> [by |-> by, user |-> v, role |-> r], got |-> <<>>]
            /\ invites' = invites
        BY <1>0, <2>5, Begins
      <4> QED
        BY <1>0, <2>5, <4>1 DEF CalledWith
    <3>2. \A u \in Users \ wsMessy : Free(u) =>
            Halfway([op |-> "set_role", at |-> "role", arg |-> [by |-> by, user |-> v, role |-> r],
                     got |-> <<>>], u)
      BY DEF Halfway, SettingRole, Free, Agrees, Alike
    <3> QED
      BY <2>5, <3>1, <3>2, BeginSteps
  <2>6. ASSUME NEW i \in Invites, NEW v \in Users, NEW r \in {"admin", "member"}, invites[i] = NoInvite,
               \A o \in Tasks : call[o].op = "invite" => Arg(o).invite # i,
               BeginWs(t, "invite", "role", [by |-> by, invite |-> i, to |-> v, role |-> r])
        PROVE  MembersInv'
    <3>1. CalledWith(t)'
      <4>1. /\ call'[t] = [op |-> "invite", at |-> "role",
                           arg |-> [by |-> by, invite |-> i, to |-> v, role |-> r], got |-> <<>>]
            /\ invites' = invites
        BY <1>0, <2>6, Begins
      <4> QED
        BY <1>0, <2>6, <4>1 DEF CalledWith, Sent
    <3>2. \A u \in Users \ wsMessy : Free(u) =>
            Halfway([op |-> "invite", at |-> "role",
                     arg |-> [by |-> by, invite |-> i, to |-> v, role |-> r], got |-> <<>>], u)
      BY DEF Halfway
    <3> QED
      BY <2>6, <3>1, <3>2, BeginSteps DEF Arg
  <2> QED
    BY <2>1, <2>2, <2>3, <2>4, <2>5, <2>6
<1>3. CASE MemberCalls(t)
  <2>1. ASSUME NEW i \in Invites, invites[i] # NoInvite,
               BeginWs(t, "accept", "read", [user |-> invites[i].to, invite |-> i])
        PROVE  MembersInv'
    <3>1. CalledWith(t)'
      <4>1. /\ call'[t] = [op |-> "accept", at |-> "read",
                           arg |-> [user |-> invites[i].to, invite |-> i], got |-> <<>>]
            /\ invites' = invites
        BY <1>0, <2>1, Begins
      <4> QED
        BY <1>0, <2>1, <4>1 DEF CalledWith, Sent, InvitesNamed
    <3>2. \A u \in Users \ wsMessy : Free(u) =>
            Halfway([op |-> "accept", at |-> "read", arg |-> [user |-> invites[i].to, invite |-> i],
                     got |-> <<>>], u)
      BY DEF Halfway, Accepting, Free
    <3> QED
      BY <2>1, <3>1, <3>2, BeginSteps
  <2>2. ASSUME NEW v \in Users, BeginWs(t, "switch", "role", [user |-> v])
        PROVE  MembersInv'
    <3>1. CalledWith(t)'
      <4>1. /\ call'[t] = [op |-> "switch", at |-> "role", arg |-> [user |-> v], got |-> <<>>]
            /\ invites' = invites
        BY <1>0, <2>2, Begins
      <4> QED
        BY <1>0, <2>2, <4>1 DEF CalledWith
    <3>2. \A u \in Users \ wsMessy : Free(u) =>
            Halfway([op |-> "switch", at |-> "role", arg |-> [user |-> v], got |-> <<>>], u)
      BY DEF Halfway
    <3> QED
      BY <2>2, <3>1, <3>2, BeginSteps
  <2> QED
    BY <1>3, <2>1, <2>2 DEF MemberCalls
<1> QED
  BY <1>1, <1>2, <1>3

-----------------------------------------------------------------------------
(* Steps that only read. *)

\* What a call found is what a step of it works with.
LEMMA WritesOf ==
    ASSUME MembersInv, NEW t \in Tasks, NEW u \in Writes(t),
           call[t].op \in {"create", "accept", "remove", "set_role", "switch"}
    PROVE  u = call[t].arg.user
  BY WritesAre DEF Writes, Arg

LEMMA ReadRoleSteps ==
    ASSUME MembersInv, NEW t \in Tasks, ReadRole(t)
    PROVE  MembersInv'
<1>1. PICK op \in Guarded : On(t, op, "role") /\ 
        \/ Finish(t)
        \/ Goto(t, CASE op = "set_role" -> "set" [] op = "update" -> "name" [] OTHER -> "get")
  BY DEF ReadRole
<1>2. op \in {"update", "delete", "remove", "set_role", "invite"} /\ UNCHANGED wsVars
      /\ call[t].op = op /\ call[t].at = "role" /\ Running(t) /\ Shaped
  BY <1>1 DEF Guarded, ReadRole, On, Running, MembersInv
<1>3. CASE Finish(t)
  <2>1. \A u \in Users : Halfway(call[t], u) => Free(u)
    BY <1>2 DEF Halfway, Removing, Deleting, Updating, SettingRole, Free, Agrees
  <2> QED
    BY <1>2, <1>3, <2>1, EndsFree
<1>4. CASE Goto(t, CASE op = "set_role" -> "set" [] op = "update" -> "name" [] OTHER -> "get")
  <2>1. PICK at : /\ Goto(t, at) /\ at = (IF op = "set_role" THEN "set"
                                           ELSE IF op = "update" THEN "name" ELSE "get")
    BY <1>4
  <2>2. GoesTo(t, at)
    BY <1>2, <2>1, GotoKeeps
  <2>3. \A u \in Users : Halfway(call[t], u) => Halfway(call'[t], u)
    BY <1>2, <2>1, <2>2 DEF Halfway, Removing, Deleting, Updating, SettingRole, GoesTo
  <2> QED
    BY <1>2, <2>1, <2>2, <2>3, ListingStays, ReadsOn
<1> QED
  BY <1>1, <1>3, <1>4

LEMMA ReadWorkspaceSteps ==
    ASSUME MembersInv, NEW t \in Tasks, ReadWorkspace(t)
    PROVE  MembersInv'
<1> USE WorkspacesAssumption
<1>1. PICK op \in {"delete", "remove", "invite"} : 
        /\ On(t, op, "get")
        /\ IF ~workspace.whole \/ (op = "remove" /\ Arg(t).user = Owner)
           THEN Finish(t)
           ELSE Goto(t, CASE op = "delete" -> "list" [] op = "remove" -> "member"
                          [] OTHER -> "insert")
  BY DEF ReadWorkspace
<1>2. UNCHANGED wsVars /\ call[t].op = op /\ call[t].at = "get" /\ Running(t) /\ Shaped /\ Founding
  BY <1>1 DEF ReadWorkspace, On, Running, MembersInv
<1>3. CASE Finish(t)
  <2>1. \A u \in Users : Halfway(call[t], u) => Free(u)
    BY <1>2 DEF Halfway, Removing, Deleting
  <2> QED
    BY <1>2, <1>3, <2>1, EndsFree
<1>4. CASE /\ workspace.whole /\ ~ (op = "remove" /\ Arg(t).user = Owner)
           /\ Goto(t, CASE op = "delete" -> "list" [] op = "remove" -> "member" [] OTHER -> "insert")
  <2>1. PICK at : /\ Goto(t, at) /\ at = (IF op = "delete" THEN "list"
                                           ELSE IF op = "remove" THEN "member" ELSE "insert")
    BY <1>4
  <2>2. GoesTo(t, at)
    BY <1>2, <2>1, GotoKeeps
  <2>3. ASSUME NEW u \in Users \ wsMessy, u \in Writes(t), Halfway(call[t], u)
        PROVE  Halfway(call'[t], u)
    <3>1. CASE op = "delete"
      <4>1. u = Owner => geral.made
        <5>1. SUFFICES ASSUME u = Owner PROVE \A o \in Tasks : call[o].op # "create"
          BY <1>2, <1>4, <5>1 DEF Founding
        <5>2. Membership(u)
          BY DEF MembersInv
        <5>3. \A o \in Tasks \ {t} : u \notin Writes(o)
          BY <2>3, <5>2 DEF Membership
        <5>4. ASSUME NEW o \in Tasks, call[o].op = "create" PROVE FALSE
          <6>1. CalledWith(o) /\ Writes(o) = {call[o].arg.user}
            BY <5>4, WritesAre DEF MembersInv, Writes, Arg
          <6> QED
            BY <1>2, <3>1, <5>1, <5>3, <5>4, <6>1 DEF CalledWith
        <5> QED
          BY <5>4
      <4> QED
        BY <1>2, <2>1, <2>2, <2>3, <3>1, <4>1 DEF Halfway, Deleting, GoesTo
    <3>2. CASE op = "remove"
      <4>1. u = call[t].arg.user
        BY <1>2, <2>3, <3>2, WritesOf
      <4> QED
        BY <1>2, <1>4, <2>1, <2>2, <2>3, <3>2, <4>1 DEF Halfway, Removing, Leaving, GoesTo, Arg
    <3>3. CASE op = "invite"
      BY <1>2, <1>4, <2>1, <2>2, <2>3, <3>3 DEF Halfway, GoesTo
    <3> QED
      BY <3>1, <3>2, <3>3
  <2> QED
    BY <1>2, <2>1, <2>2, <2>3, ListingStays, ReadsOn
<1> QED
  BY <1>1, <1>3, <1>4

LEMMA ReadNameSteps ==
    ASSUME MembersInv, NEW t \in Tasks, ReadName(t)
    PROVE  MembersInv'
<1>1. /\ call[t].op \in {"create", "accept"} /\ call[t].at = "named" /\ UNCHANGED wsVars
      /\ Running(t) /\ Shaped
      /\ IF ~workspace.whole THEN Finish(t)
         ELSE Learn(t, "mine", [role |-> AddedRole(t), name |-> workspace.name])
  BY DEF ReadName, WsAdds, On, Running, MembersInv
<1>2. CASE ~ workspace.whole /\ Finish(t)
  <2>1. \A u \in Users : Halfway(call[t], u) => Free(u)
    BY <1>1, <1>2 DEF Halfway, Creating, Accepting
  <2> QED
    BY <1>1, <1>2, <2>1, EndsFree
<1>3. CASE workspace.whole /\ Learn(t, "mine", [role |-> AddedRole(t), name |-> workspace.name])
  <2>1. GoesTo(t, "mine") /\ call'[t].got = [role |-> AddedRole(t), name |-> workspace.name]
    BY <1>1, <1>3, LearnKeeps
  <2>2. \A u \in Writes(t) : Halfway(call[t], u) => Halfway(call'[t], u)
    <3> SUFFICES ASSUME NEW u \in Writes(t), Halfway(call[t], u) PROVE Halfway(call'[t], u)
      OBVIOUS
    <3>1. u = call[t].arg.user
      BY <1>1, WritesOf
    <3>2. call'[t].op = call[t].op /\ call'[t].arg = call[t].arg /\ call'[t].at = "mine"
          /\ call'[t].got.role = AddedRole(t) /\ call'[t].got.name = workspace.name
      BY <2>1 DEF GoesTo
    <3>3. CASE call[t].op = "create"
      BY <1>1, <3>2, <3>3 DEF Halfway, Creating, AddedRole
    <3>4. CASE call[t].op = "accept"
      BY <1>1, <3>2, <3>4 DEF Halfway, Accepting, AddedRole, Got
    <3> QED
      BY <1>1, <3>3, <3>4
  <2> QED
    BY <1>1, <2>1, <2>2, ReadsOn
<1> QED
  BY <1>1, <1>2, <1>3

LEMMA ListForRoomSteps ==
    ASSUME MembersInv, NEW t \in Tasks, ListForRoom(t)
    PROVE  MembersInv'
<1>1. /\ call[t].op = "create" /\ call[t].at = "fill" /\ UNCHANGED wsVars /\ Running(t) /\ Shaped
      /\ geral.made
  BY DEF ListForRoom, On, Running, MembersInv, Founding
<1>2. CASE Finish(t)
  <2>1. \A u \in Users : Halfway(call[t], u) => Free(u)
    BY <1>1 DEF Halfway, Creating, Free
  <2> QED
    BY <1>1, <1>2, <2>1, EndsFree
<1>3. CASE Learn(t, "filling", Listed \ {Owner})
  <2>1. GoesTo(t, "filling")
    BY <1>1, <1>3, LearnKeeps
  <2>2. \A u \in Users : Halfway(call[t], u) => Halfway(call'[t], u)
    BY <1>1, <2>1 DEF Halfway, Creating, GoesTo
  <2> QED
    BY <1>1, <2>1, <2>2, ReadsOn
<1> QED
  BY <1>2, <1>3 DEF ListForRoom

LEMMA AcceptReadsSteps ==
    ASSUME MembersInv, NEW t \in Tasks, AcceptReads(t)
    PROVE  MembersInv'
<1>1. /\ call[t].op = "accept" /\ call[t].at = "read" /\ UNCHANGED wsVars /\ Running(t) /\ Shaped
      /\ InvitesNamed /\ CalledWith(t)
  BY DEF AcceptReads, On, Running, MembersInv
<1>2. CASE Finish(t)
  <2>1. \A u \in Users : Halfway(call[t], u) => Free(u)
    BY <1>1 DEF Halfway, Accepting, Free
  <2> QED
    BY <1>1, <1>2, <2>1, EndsFree
<1>3. CASE invites[call[t].arg.invite].state = "open" /\ Learn(t, "mark", invites[call[t].arg.invite])
  <2>1. GoesTo(t, "mark") /\ call'[t].got = invites[call[t].arg.invite]
    BY <1>1, <1>3, LearnKeeps
  <2>2. ASSUME NEW u \in Users, u \in Writes(t), Halfway(call[t], u), Kept(u)
        PROVE  Halfway(call'[t], u)
    <3>1. u = call[t].arg.user
      BY <1>1, <2>2, WritesOf
    <3>2. call[t].arg.invite \in Invites /\ Sent(call[t].arg.invite)
          /\ invites[call[t].arg.invite].to = u
      BY <1>1, <3>1 DEF CalledWith
    <3>3. workspace.whole /\ invites[call[t].arg.invite].role # "none"
      BY <1>1, <1>3, <2>2, <3>2 DEF Kept, InvitesNamed
    <3> QED
      BY <1>1, <1>3, <2>1, <2>2, <3>3 DEF Halfway, Accepting, GoesTo
  <2> QED
    BY <1>1, <2>1, <2>2, ReadsOn
<1> QED
  BY <1>2, <1>3 DEF AcceptReads, Arg

LEMMA ListRoomsSteps ==
    ASSUME MembersInv, NEW t \in Tasks, ListRooms(t) \/ DeleteKeys(t)
    PROVE  MembersInv'
<1>1. /\ UNCHANGED wsVars /\ Running(t) /\ Shaped
      /\ \/ call[t].op = "accept" /\ call[t].at = "rooms"
         \/ call[t].op = "delete" /\ call[t].at = "keys"
  BY DEF ListRooms, DeleteKeys, On, Running, MembersInv
<1>2. PICK at : /\ Goto(t, at)
                /\ call[t].op = "accept" => at \in {"enter", "check"}
                /\ call[t].op = "delete" => at = "workspace"
  BY DEF ListRooms, DeleteKeys, On
<1>3. GoesTo(t, at) /\ call'[t].got = call[t].got
  BY <1>1, <1>2, GotoKeeps
<1>4. \A u \in Users : Halfway(call[t], u) => Halfway(call'[t], u)
  BY <1>1, <1>2, <1>3 DEF Halfway, Accepting, Deleting, GoesTo
<1> QED
  BY <1>1, <1>2, <1>3, <1>4, ListingStays, ReadsOn

LEMMA CheckMemberSteps ==
    ASSUME MembersInv, NEW t \in Tasks, CheckMember(t)
    PROVE  MembersInv'
<1>1. /\ UNCHANGED wsVars /\ Running(t) /\ Shaped
      /\ \/ call[t].op = "accept" /\ call[t].at = "check"
         \/ call[t].op = "switch" /\ call[t].at = "role"
  BY DEF CheckMember, On, Running, MembersInv
<1>2. CASE Finish(t)
  <2>1. \A u \in Users : Halfway(call[t], u) => Free(u)
    BY <1>1 DEF Halfway, Accepting, Free
  <2> QED
    BY <1>1, <1>2, <2>1, EndsFree
<1>3. CASE Role(Arg(t).user) # "none" /\ Goto(t, "activate")
  <2>1. GoesTo(t, "activate")
    BY <1>1, <1>3, GotoKeeps
  <2>2. ASSUME NEW u \in Users, u \in Writes(t), Halfway(call[t], u)
        PROVE  Halfway(call'[t], u)
    <3>1. u = call[t].arg.user
      BY <1>1, <2>2, WritesOf
    <3> QED
      BY <1>1, <1>3, <2>1, <2>2, <3>1 DEF Halfway, Accepting, GoesTo, Arg
  <2> QED
    BY <1>1, <2>1, <2>2, ReadsOn
<1> QED
  BY <1>2, <1>3 DEF CheckMember

LEMMA ListToRenameSteps ==
    ASSUME MembersInv, NEW t \in Tasks, ListToRename(t)
    PROVE  MembersInv'
<1>1. /\ call[t].op = "update" /\ call[t].at = "list" /\ UNCHANGED wsVars /\ Running(t) /\ Shaped
  BY DEF ListToRename, On, Running, MembersInv
<1>2. CASE Listed = {} /\ Finish(t)
  <2>1. \A u \in Users : ~ members[u].whole
    BY <1>2 DEF Listed
  <2>2. \A u \in Users : Halfway(call[t], u) => Free(u)
    BY <1>1, <2>1 DEF Halfway, Updating, Free, Agrees, Named
  <2> QED
    BY <1>1, <1>2, <2>2, EndsFree
<1>3. CASE Learn(t, "each", Listed)
  <2>1. GoesTo(t, "each") /\ call'[t].got = Listed
    BY <1>1, <1>3, LearnKeeps
  <2>2. \A u \in Users : Halfway(call[t], u) => Halfway(call'[t], u)
    BY <1>1, <2>1 DEF Halfway, Updating, GoesTo, Listed
  <2> QED
    BY <1>1, <2>1, <2>2, ReadsOn
<1> QED
  BY <1>2, <1>3 DEF ListToRename

LEMMA ListToDeleteSteps ==
    ASSUME MembersInv, NEW t \in Tasks, ListToDelete(t)
    PROVE  MembersInv'
<1>1. /\ call[t].op = "delete" /\ call[t].at = "list" /\ UNCHANGED wsVars /\ Running(t) /\ Shaped
  BY DEF ListToDelete, On, Running, MembersInv
<1>2. \A u \in Users : Free(u) /\ u \notin Listed => Outside(u) /\ Works(u)
  BY DEF Free, Agrees, Alike, Outside, Listed
<1>3. CASE Listed = {} /\ Goto(t, "invites")
  <2>1. GoesTo(t, "invites")
    BY <1>1, <1>3, GotoKeeps
  <2>2. \A u \in Users : Halfway(call[t], u) => Halfway(call'[t], u)
    BY <1>1, <1>2, <1>3, <2>1 DEF Halfway, Deleting, GoesTo
  <2> QED
    BY <1>1, <2>1, <2>2, ListingStays, ReadsOn
<1>4. ASSUME NEW v \in Listed, Learn(t, "member", [user |-> v, rest |-> Listed \ {v}])
      PROVE  MembersInv'
  <2>1. GoesTo(t, "member") /\ call'[t].got = [user |-> v, rest |-> Listed \ {v}]
    BY <1>1, <1>4, LearnKeeps
  <2>2. ASSUME NEW u \in Users, Halfway(call[t], u)
        PROVE  Halfway(call'[t], u)
    <3>1. Free(u) /\ (u = Owner => geral.made)
      BY <1>1, <2>2 DEF Halfway, Deleting
    <3> QED
      BY <1>1, <1>2, <2>1, <3>1 DEF Halfway, Deleting, Leaving, GoesTo
  <2>3. Listing(t)'
    BY <1>4, <2>1 DEF Listing, Listed
  <2> QED
    BY <1>1, <2>1, <2>2, <2>3, ReadsOn
<1> QED
  BY <1>3, <1>4 DEF ListToDelete

-----------------------------------------------------------------------------
(* Steps that write. *)

\* A task writes rows of users: the workspace, the channel and the invites stay.
LEMMA RowsWritten ==
    ASSUME MembersInv, NEW t \in Tasks, Running(t),
           (\E at : GoesTo(t, at)) \/ (Shaped' /\ Only(t) /\ call'[t].op = "none"),
           UNCHANGED <<workspace, geral, invites, wsMessy>>, WorkspaceRows',
           Owner \in out' /\ Owner \notin wsMessy => Owner \in out \/ geral.made,
           call[t].op = "create" => call'[t].op = "create" /\ call'[t].at \in {"named", "room"},
           call[t].op = "delete" => Listing(t)',
           \A u \in Users \ wsMessy : Leads(t, u)
    PROVE  MembersInv'
<1>1. Frame(t)
  BY DEF GoesTo, Frame, Running, Sent
<1>2. InvitesNamed'
  BY DEF MembersInv, InvitesNamed, Sent
<1>3. Founding'
  <2>1. Founding
    BY DEF MembersInv
  <2>2. \A o \in Tasks \ {t} : call'[o] = call[o]
    BY <1>1 DEF Frame, Only
  <2> QED
    BY <1>1, <2>1, <2>2 DEF Founding, Frame
<1> QED
  BY <1>1, <1>2, <1>3, StepOn

LEMMA InsertMembershipSteps ==
    ASSUME MembersInv, NEW t \in Tasks, InsertMembership(t)
    PROVE  MembersInv'
<1> DEFINE v == call[t].arg.user
<1>1. /\ call[t].op \in {"create", "accept"} /\ call[t].at = "add" /\ Running(t) /\ Shaped
      /\ members' = [members EXCEPT ![v] = [role |-> AddedRole(t), whole |-> TRUE]]
      /\ Goto(t, "named") /\ UNCHANGED <<workspace, mine, active, invites, geral, wsMessy, revived, out>>
      /\ WorkspaceRows
  BY DEF InsertMembership, WsAdds, On, Running, MembersInv, wsHistory, Arg
<1>2. GoesTo(t, "named") /\ call'[t].got = call[t].got
  BY <1>1, GotoKeeps
<1>3. WorkspaceRows'
  BY <1>1 DEF WorkspaceRows
<1>4. \A u \in Users : members'[u] = (IF u = v THEN [role |-> AddedRole(t), whole |-> TRUE] ELSE members[u])
  BY <1>1 DEF WorkspaceRows
<1>5. ASSUME NEW u \in Users \ wsMessy PROVE Leads(t, u)
  <2>1. CASE u \in Writes(t)
    <3>1. u = v /\ Halfway(call[t], u) /\ Kept(u)
      BY <1>1, <2>1, WritesOf DEF MembersInv, Membership
    <3>2. workspace.whole /\ AddedRole(t) # "none" /\ u \notin out
      BY <1>1, <3>1 DEF Halfway, Creating, Accepting, AddedRole, Got
    <3>3. Kept(u)'
      BY <1>1, <1>4, <3>1, <3>2 DEF Kept, Role
    <3>4. call'[t].op = call[t].op /\ call'[t].at = "named"
      BY <1>2 DEF GoesTo
    <3>5. Works(u)' /\ members'[u].whole /\ members'[u].role = AddedRole(t)
      BY <1>4, <3>1 DEF Works
    <3>6. Halfway(call[t], u)'
      BY <1>1, <1>2, <3>2, <3>4, <3>5 DEF Halfway, Creating, Accepting, AddedRole, Got, Role
    <3> QED
      BY <1>1, <2>1, <3>3, <3>4, <3>6 DEF Leads
  <2>2. CASE u \notin Writes(t)
    <3>1. u # v
      BY <1>1, <2>2, WritesAre DEF Writes, Arg
    <3> QED
      BY <1>1, <1>4, <2>2, <3>1 DEF Leads, Beside
  <2> QED
    BY <2>1, <2>2
<1> QED
  BY <1>1, <1>2, <1>3, <1>5, RowsWritten DEF GoesTo

LEMMA InsertMineSteps ==
    ASSUME MembersInv, NEW t \in Tasks, InsertMine(t)
    PROVE  MembersInv'
<1> DEFINE v == call[t].arg.user
           kept == [role |-> call[t].got.role, whole |-> TRUE, name |-> call[t].got.name]
           next == IF call[t].op = "create" THEN "room" ELSE "rooms"
<1>1. /\ call[t].op \in {"create", "accept"} /\ call[t].at = "mine" /\ Running(t) /\ Shaped
      /\ mine' = [mine EXCEPT ![v] = kept]
      /\ Goto(t, next) /\ UNCHANGED <<workspace, members, active, invites, geral, wsMessy, revived, out>>
      /\ WorkspaceRows
  BY DEF InsertMine, WsAdds, On, Running, MembersInv, wsHistory, Arg, Got
<1>2. GoesTo(t, next) /\ call'[t].got = call[t].got
  BY <1>1, GotoKeeps
<1>3. WorkspaceRows'
  BY <1>1 DEF WorkspaceRows
<1>4. \A u \in Users : mine'[u] = (IF u = v THEN kept ELSE mine[u])
  BY <1>1 DEF WorkspaceRows
<1>5. ASSUME NEW u \in Users \ wsMessy PROVE Leads(t, u)
  <2>1. CASE u \in Writes(t)
    <3>1. u = v /\ Halfway(call[t], u) /\ Kept(u)
      BY <1>1, <2>1, WritesOf DEF MembersInv, Membership
    <3>2. Kept(u)'
      BY <1>1, <3>1 DEF Kept, Role
    <3>3. call'[t].op = call[t].op /\ call'[t].at = next
      BY <1>2 DEF GoesTo
    <3>4. /\ members[u].whole /\ call[t].got.role = members[u].role /\ call[t].got.name = workspace.name
          /\ Works(u) /\ (call[t].op = "create" => u \notin out) /\ workspace.whole
      BY <1>1, <3>1 DEF Halfway, Creating, Accepting, Role
    <3>5. Works(u)' /\ members'[u].whole /\ Agrees(u)'
      <4>1. mine'[u].whole /\ mine'[u].role = call[t].got.role /\ mine'[u].name = call[t].got.name
        BY <1>4, <3>1
      <4> QED
        BY <1>1, <3>4, <4>1 DEF Works, Agrees, Alike, Named
    <3>6. Halfway(call[t], u)'
      BY <1>1, <3>3, <3>4, <3>5 DEF Halfway, Creating, Accepting
    <3> QED
      BY <1>1, <2>1, <3>2, <3>3, <3>6 DEF Leads
  <2>2. CASE u \notin Writes(t)
    <3>1. u # v
      BY <1>1, <2>2, WritesAre DEF Writes, Arg
    <3> QED
      BY <1>1, <1>4, <2>2, <3>1 DEF Leads, Beside
  <2> QED
    BY <2>1, <2>2
<1> QED
  BY <1>1, <1>2, <1>3, <1>5, RowsWritten DEF GoesTo

LEMMA ActivateSteps ==
    ASSUME MembersInv, NEW t \in Tasks, Activate(t)
    PROVE  MembersInv'
<1> DEFINE v == call[t].arg.user
<1>1. /\ call[t].op \in {"accept", "switch"} /\ call[t].at = "activate" /\ Running(t) /\ Shaped
      /\ active' = [active EXCEPT ![v] = TRUE]
      /\ Finish(t) /\ UNCHANGED <<workspace, members, mine, invites, geral, wsMessy, revived, out>>
      /\ WorkspaceRows
  BY DEF Activate, On, Running, MembersInv, wsHistory, Arg
<1>2. Shaped' /\ Only(t) /\ call'[t].op = "none"
  BY <1>1, Leaves
<1>3. WorkspaceRows'
  BY <1>1 DEF WorkspaceRows
<1>4. \A u \in Users : active'[u] = (IF u = v THEN TRUE ELSE active[u])
  BY <1>1 DEF WorkspaceRows
<1>5. ASSUME NEW u \in Users \ wsMessy PROVE Leads(t, u)
  <2>1. CASE u \in Writes(t)
    <3>1. u = v /\ Halfway(call[t], u) /\ Kept(u)
      BY <1>1, <2>1, WritesOf DEF MembersInv, Membership
    <3>2. Kept(u)'
      BY <1>1, <3>1 DEF Kept, Role
    <3>3. Agrees(u) /\ (u \notin revived => members[u].whole)
      BY <1>1, <3>1 DEF Halfway, Accepting, Free, Kept
    <3>4. Free(u)'
      BY <1>1, <3>3 DEF Free, Agrees, Alike, Named, Works
    <3> QED
      BY <1>2, <2>1, <3>2, <3>4 DEF Leads
  <2>2. CASE u \notin Writes(t)
    <3>1. u # v
      BY <1>1, <2>2, WritesAre DEF Writes, Arg
    <3> QED
      BY <1>1, <1>4, <2>2, <3>1 DEF Leads, Beside
  <2> QED
    BY <2>1, <2>2
<1> QED
  BY <1>1, <1>2, <1>3, <1>5, RowsWritten

LEMMA SetRoleSteps ==
    ASSUME MembersInv, NEW t \in Tasks, SetRole(t)
    PROVE  MembersInv'
<1> DEFINE v == call[t].arg.user
           r == call[t].arg.role
<1>1. /\ call[t].op = "set_role" /\ call[t].at = "set" /\ Running(t) /\ Shaped
      /\ members' = [members EXCEPT ![v].role = r]
      /\ revived' = (IF Role(v) = "none" THEN revived \cup {v} ELSE revived) /\ out' = out \ {v}
      /\ Goto(t, "mine") /\ UNCHANGED <<workspace, mine, active, invites, geral, wsMessy>>
      /\ WorkspaceRows /\ CalledWith(t)
  BY DEF SetRole, On, Running, MembersInv, Arg
<1>2. GoesTo(t, "mine")
  BY <1>1, GotoKeeps
<1>3. \A u \in Users : members'[u] = (IF u = v THEN [role |-> r, whole |-> members[u].whole]
                                  ELSE members[u])
  <2>1. \A u \in Users : members'[u] = (IF u = v THEN [members[u] EXCEPT !.role = r] ELSE members[u])
    BY <1>1 DEF WorkspaceRows
  <2>2. ASSUME NEW u \in Users
        PROVE  [members[u] EXCEPT !.role = r] = [role |-> r, whole |-> members[u].whole]
    <3>1. members[u] = [role |-> members[u].role, whole |-> members[u].whole]
      BY <1>1 DEF WorkspaceRows
    <3> QED
      BY <3>1
  <2> QED
    BY <2>1, <2>2
<1>4. WorkspaceRows'
  <2>1. members' = [u \in Users |-> members'[u]]
    BY <1>1 DEF WorkspaceRows
  <2>2. \A u \in Users : members'[u] = [role |-> members'[u].role, whole |-> members'[u].whole]
                       /\ members'[u].whole \in BOOLEAN
    <3> SUFFICES ASSUME NEW u \in Users
                 PROVE  members'[u] = [role |-> members'[u].role, whole |-> members'[u].whole]
                       /\ members'[u].whole \in BOOLEAN
      OBVIOUS
    <3>1. members[u] = [role |-> members[u].role, whole |-> members[u].whole]
          /\ members[u].whole \in BOOLEAN
      BY <1>1 DEF WorkspaceRows
    <3>2. CASE u = v
      <4>1. members'[u] = [role |-> r, whole |-> members[u].whole]
        BY <1>3, <3>2
      <4> QED
        BY <3>1, <4>1
    <3>3. CASE u # v
      BY <1>3, <3>1, <3>3
    <3> QED
      BY <3>2, <3>3
  <2> QED
    BY <1>1, <2>1, <2>2 DEF WorkspaceRows
<1>5. ASSUME NEW u \in Users \ wsMessy PROVE Leads(t, u)
  <2>1. CASE u \in Writes(t)
    <3>1. u = v /\ Halfway(call[t], u) /\ Kept(u) /\ r # "none"
      BY <1>1, <2>1, WritesOf DEF MembersInv, Membership, CalledWith
    <3>2. Kept(u)'
      BY <1>1, <1>3, <3>1 DEF Kept, Role
    <3>3. call'[t].op = call[t].op /\ call'[t].at = "mine" /\ call'[t].arg = call[t].arg
      BY <1>2 DEF GoesTo
    <3>4. Works(u) /\ Named(u) /\ Alike(u)
      BY <1>1, <3>1 DEF Halfway, SettingRole
    <3>5. Works(u)' /\ Named(u)' /\ members'[u].whole = mine'[u].whole
      BY <1>1, <1>3, <3>1, <3>4 DEF Works, Named, Alike
    <3>6. members'[u].role = r
      <4>1. members'[u] = [role |-> r, whole |-> members[u].whole]
        BY <1>3, <3>1
      <4> QED
        BY <4>1
    <3>7. Halfway(call[t], u)'
      BY <1>1, <3>1, <3>3, <3>5, <3>6 DEF Halfway, SettingRole, Role
    <3> QED
      BY <1>1, <2>1, <3>2, <3>3, <3>7 DEF Leads
  <2>2. CASE u \notin Writes(t)
    <3>1. u # v
      BY <1>1, <2>2, WritesAre DEF Writes, Arg
    <3> QED
      BY <1>1, <1>3, <2>2, <3>1 DEF Leads, Beside
  <2> QED
    BY <2>1, <2>2
<1> QED
  BY <1>1, <1>2, <1>4, <1>5, RowsWritten DEF GoesTo

LEMMA SetMineSteps ==
    ASSUME MembersInv, NEW t \in Tasks, SetMine(t)
    PROVE  MembersInv'
<1> DEFINE v == call[t].arg.user
           r == call[t].arg.role
<1>1. /\ call[t].op = "set_role" /\ call[t].at = "mine" /\ Running(t) /\ Shaped
      /\ mine' = [mine EXCEPT ![v].role = r]
      /\ Finish(t) /\ UNCHANGED <<workspace, members, active, invites, geral, wsMessy, revived, out>>
      /\ WorkspaceRows
  BY DEF SetMine, On, Running, MembersInv, wsHistory, Arg
<1>2. Shaped' /\ Only(t) /\ call'[t].op = "none"
  BY <1>1, Leaves
<1>3. \A u \in Users : mine'[u] = (IF u = v THEN [role |-> r, whole |-> mine[u].whole, name |-> mine[u].name]
                                  ELSE mine[u])
  <2>1. \A u \in Users : mine'[u] = (IF u = v THEN [mine[u] EXCEPT !.role = r] ELSE mine[u])
    BY <1>1 DEF WorkspaceRows
  <2>2. ASSUME NEW u \in Users
        PROVE  [mine[u] EXCEPT !.role = r] = [role |-> r, whole |-> mine[u].whole, name |-> mine[u].name]
    <3>1. mine[u] = [role |-> mine[u].role, whole |-> mine[u].whole, name |-> mine[u].name]
      BY <1>1 DEF WorkspaceRows
    <3> QED
      BY <3>1
  <2> QED
    BY <2>1, <2>2
<1>4. WorkspaceRows'
  <2>1. mine' = [u \in Users |-> mine'[u]]
    BY <1>1 DEF WorkspaceRows
  <2>2. \A u \in Users : mine'[u] = [role |-> mine'[u].role, whole |-> mine'[u].whole, name |-> mine'[u].name]
                       /\ mine'[u].whole \in BOOLEAN
    <3> SUFFICES ASSUME NEW u \in Users
                 PROVE  mine'[u] = [role |-> mine'[u].role, whole |-> mine'[u].whole, name |-> mine'[u].name]
                       /\ mine'[u].whole \in BOOLEAN
      OBVIOUS
    <3>1. mine[u] = [role |-> mine[u].role, whole |-> mine[u].whole, name |-> mine[u].name]
          /\ mine[u].whole \in BOOLEAN
      BY <1>1 DEF WorkspaceRows
    <3>2. CASE u = v
      <4>1. mine'[u] = [role |-> r, whole |-> mine[u].whole, name |-> mine[u].name]
        BY <1>3, <3>2
      <4> QED
        BY <3>1, <4>1
    <3>3. CASE u # v
      BY <1>3, <3>1, <3>3
    <3> QED
      BY <3>2, <3>3
  <2> QED
    BY <1>1, <2>1, <2>2 DEF WorkspaceRows
<1>5. ASSUME NEW u \in Users \ wsMessy PROVE Leads(t, u)
  <2>1. CASE u \in Writes(t)
    <3>1. u = v /\ Halfway(call[t], u) /\ Kept(u)
      BY <1>1, <2>1, WritesOf DEF MembersInv, Membership
    <3>2. Kept(u)'
      BY <1>1, <3>1 DEF Kept, Role
    <3>3. Works(u) /\ Named(u) /\ members[u].whole = mine[u].whole /\ members[u].role = r
      BY <1>1, <3>1 DEF Halfway, SettingRole, Role
    <3>4. mine'[u].role = r /\ mine'[u].whole = mine[u].whole /\ mine'[u].name = mine[u].name
      <4>1. mine'[u] = [role |-> r, whole |-> mine[u].whole, name |-> mine[u].name]
        BY <1>3, <3>1
      <4> QED
        BY <4>1
    <3>5. Free(u)'
      BY <1>1, <3>3, <3>4 DEF Free, Agrees, Alike, Named, Works
    <3> QED
      BY <1>2, <2>1, <3>2, <3>5 DEF Leads
  <2>2. CASE u \notin Writes(t)
    <3>1. u # v
      BY <1>1, <2>2, WritesAre DEF Writes, Arg
    <3> QED
      BY <1>1, <1>3, <2>2, <3>1 DEF Leads, Beside
  <2> QED
    BY <2>1, <2>2
<1> QED
  BY <1>1, <1>2, <1>4, <1>5, RowsWritten

LEMMA RenameMineSteps ==
    ASSUME MembersInv, NEW t \in Tasks, RenameMine(t)
    PROVE  MembersInv'
<1> DEFINE n == call[t].arg.name
<1>1. /\ call[t].op = "update" /\ call[t].at = "each" /\ Running(t) /\ Shaped
      /\ UNCHANGED <<workspace, members, active, invites, geral, wsMessy, revived, out>>
      /\ WorkspaceRows
  BY DEF RenameMine, On, Running, MembersInv, wsHistory
<1>2. PICK w \in call[t].got :
        /\ mine' = [mine EXCEPT ![w].name = n]
        /\ IF call[t].got = {w} THEN Finish(t) ELSE Learn(t, "each", call[t].got \ {w})
  BY DEF RenameMine, Arg, Got
<1>3. \A u \in Users : mine'[u] = (IF u = w THEN [role |-> mine[u].role, whole |-> mine[u].whole, name |-> n]
                                  ELSE mine[u])
  <2>1. \A u \in Users : mine'[u] = (IF u = w THEN [mine[u] EXCEPT !.name = n] ELSE mine[u])
    BY <1>1, <1>2 DEF WorkspaceRows
  <2>2. ASSUME NEW u \in Users
        PROVE  [mine[u] EXCEPT !.name = n] = [role |-> mine[u].role, whole |-> mine[u].whole, name |-> n]
    <3>1. mine[u] = [role |-> mine[u].role, whole |-> mine[u].whole, name |-> mine[u].name]
      BY <1>1 DEF WorkspaceRows
    <3> QED
      BY <3>1
  <2> QED
    BY <2>1, <2>2
<1>4. ASSUME NEW u \in Users
      PROVE  /\ mine'[u] = [role |-> mine[u].role, whole |-> mine[u].whole, name |-> mine'[u].name]
             /\ u = w => mine'[u].name = n
             /\ u # w => mine'[u] = mine[u]
  <2>1. mine[u] = [role |-> mine[u].role, whole |-> mine[u].whole, name |-> mine[u].name]
    BY <1>1 DEF WorkspaceRows
  <2>2. CASE u = w
    <3>1. mine'[u] = [role |-> mine[u].role, whole |-> mine[u].whole, name |-> n]
      BY <1>3, <2>2
    <3> QED
      BY <2>2, <3>1
  <2>3. CASE u # w
    BY <1>3, <2>1, <2>3
  <2> QED
    BY <2>2, <2>3
<1>5. \A u \in Users : /\ mine'[u].role = mine[u].role /\ mine'[u].whole = mine[u].whole
                       /\ mine'[u] = [role |-> mine'[u].role, whole |-> mine'[u].whole, name |-> mine'[u].name]
  <2> SUFFICES ASSUME NEW u \in Users
               PROVE  /\ mine'[u].role = mine[u].role /\ mine'[u].whole = mine[u].whole
                      /\ mine'[u] = [role |-> mine'[u].role, whole |-> mine'[u].whole, name |-> mine'[u].name]
    OBVIOUS
  <2>1. mine'[u] = [role |-> mine[u].role, whole |-> mine[u].whole, name |-> mine'[u].name]
    BY <1>4
  <2> QED
    BY <2>1
<1>6. WorkspaceRows'
  <2>1. mine' = [u \in Users |-> mine'[u]]
    BY <1>1, <1>2 DEF WorkspaceRows
  <2>2. \A u \in Users : mine'[u].whole \in BOOLEAN
    BY <1>1, <1>5 DEF WorkspaceRows
  <2> QED
    BY <1>1, <1>5, <2>1, <2>2 DEF WorkspaceRows
<1>7. \/ call[t].got = {w} /\ Finish(t) /\ Shaped' /\ Only(t) /\ call'[t].op = "none"
      \/ GoesTo(t, "each") /\ call'[t].got = call[t].got \ {w}
  BY <1>1, <1>2, Leaves, LearnKeeps
<1>8. ASSUME NEW u \in Users \ wsMessy PROVE Leads(t, u)
  <2>1. u \in Writes(t)
    BY <1>1, WritesAre DEF Writes
  <2>2. Halfway(call[t], u) /\ Kept(u)
    BY <2>1 DEF MembersInv, Membership
  <2>3. Kept(u)'
    BY <1>1, <2>2 DEF Kept, Role
  <2>4. /\ Works(u) /\ Alike(u) /\ (members[u].whole => workspace.name = n)
        /\ members[u].whole /\ u \notin call[t].got => mine[u].name = n
    BY <1>1, <2>2 DEF Halfway, Updating
  <2>5. Works(u)' /\ Alike(u)'
    BY <1>1, <1>5, <2>4 DEF Works, Alike
  <2>6. members[u].whole /\ u \notin call[t].got \ {w} => mine'[u].name = n
    BY <1>4, <2>4
  <2>7. CASE call[t].got = {w} /\ call'[t].op = "none"
    <3>1. Named(u)'
      BY <1>1, <2>4, <2>6, <2>7 DEF Named
    <3> QED
      BY <2>1, <2>3, <2>5, <2>7, <3>1 DEF Leads, Free, Agrees
  <2>8. CASE GoesTo(t, "each") /\ call'[t].got = call[t].got \ {w}
    <3>1. Halfway(call[t], u)'
      BY <1>1, <2>4, <2>5, <2>6, <2>8 DEF Halfway, Updating, GoesTo
    <3> QED
      BY <1>1, <2>1, <2>3, <2>8, <3>1 DEF Leads, GoesTo
  <2> QED
    BY <1>7, <2>7, <2>8
<1> QED
  BY <1>1, <1>6, <1>7, <1>8, RowsWritten

\* The user whom a call removes.
LEMMA RemovedOne ==
    ASSUME MembersInv, NEW t \in Tasks, call[t].op \in {"remove", "delete"},
           NEW u \in Users, u \in Writes(t)
    PROVE  call[t].op = "remove" => u = Removed(t)
  BY WritesAre DEF Removed, Writes, Arg

LEMMA DeleteMembershipSteps ==
    ASSUME MembersInv, NEW t \in Tasks, DeleteMembership(t)
    PROVE  MembersInv'
<1>1. /\ call[t].op \in {"remove", "delete"} /\ call[t].at = "member" /\ Running(t) /\ Shaped
      /\ members' = [members EXCEPT ![Removed(t)] = Absent]
      /\ Goto(t, "mine") /\ UNCHANGED <<workspace, mine, active, invites, geral, wsMessy, revived, out>>
      /\ WorkspaceRows
  BY DEF DeleteMembership, Removes, On, Running, MembersInv, wsHistory
<1>2. GoesTo(t, "mine") /\ call'[t].got = call[t].got
  BY <1>1, GotoKeeps
<1>3. WorkspaceRows'
  BY <1>1 DEF WorkspaceRows, Absent
<1>4. \A u \in Users : members'[u] = (IF u = Removed(t) THEN Absent ELSE members[u])
  BY <1>1 DEF WorkspaceRows
<1>5. ASSUME NEW u \in Users \ wsMessy PROVE Leads(t, u)
  <2>1. CASE u \in Writes(t)
    <3>1. Halfway(call[t], u) /\ Kept(u) /\ (call[t].op = "remove" => u = Removed(t))
      BY <1>1, <2>1, RemovedOne DEF MembersInv, Membership
    <3>2. call'[t].op = call[t].op /\ call'[t].at = "mine"
      BY <1>2 DEF GoesTo
    <3>3. CASE u = Removed(t)
      <4>1. members'[u] = Absent
        BY <1>4, <3>3
      <4>2. Kept(u)'
        BY <1>1, <3>1, <4>1 DEF Kept, Role, Absent
      <4>3. Halfway(call[t], u)'
        BY <1>1, <1>2, <3>1, <3>2, <3>3, <4>1 DEF Halfway, Removing, Deleting, Leaving, Removed, Got
      <4> QED
        BY <1>1, <2>1, <3>2, <4>2, <4>3 DEF Leads
    <3>4. CASE u # Removed(t)
      <4>1. members'[u] = members[u] /\ call[t].op = "delete" /\ u # call[t].got.user
        BY <1>1, <1>4, <3>1, <3>4 DEF Removed, Got
      <4>2. /\ Kept(u)' /\ (Free(u) => Free(u)') /\ (Outside(u) => Outside(u)') /\ (Works(u) => Works(u)')
        BY <1>1, <3>1, <4>1 DEF Kept, Role, Free, Agrees, Alike, Named, Outside, Works
      <4>3. Halfway(call[t], u)'
        BY <1>1, <1>2, <3>1, <3>2, <4>1, <4>2 DEF Halfway, Deleting
      <4> QED
        BY <1>1, <2>1, <3>2, <4>2, <4>3 DEF Leads
    <3> QED
      BY <3>3, <3>4
  <2>2. CASE u \notin Writes(t)
    <3>1. u # Removed(t)
      BY <1>1, <2>2, WritesAre DEF Writes, Removed, Arg
    <3> QED
      BY <1>1, <1>4, <2>2, <3>1 DEF Leads, Beside
  <2> QED
    BY <2>1, <2>2
<1> QED
  BY <1>1, <1>2, <1>3, <1>5, ListingStays, RowsWritten DEF GoesTo

LEMMA DeleteMineSteps ==
    ASSUME MembersInv, NEW t \in Tasks, DeleteMine(t)
    PROVE  MembersInv'
<1>1. /\ call[t].op \in {"remove", "delete"} /\ call[t].at = "mine" /\ Running(t) /\ Shaped
      /\ mine' = [mine EXCEPT ![Removed(t)] = NotMine]
      /\ Goto(t, "active") /\ UNCHANGED <<workspace, members, active, invites, geral, wsMessy, revived, out>>
      /\ WorkspaceRows
  BY DEF DeleteMine, Removes, On, Running, MembersInv, wsHistory
<1>2. GoesTo(t, "active") /\ call'[t].got = call[t].got
  BY <1>1, GotoKeeps
<1>3. WorkspaceRows'
  BY <1>1 DEF WorkspaceRows, NotMine
<1>4. \A u \in Users : mine'[u] = (IF u = Removed(t) THEN NotMine ELSE mine[u])
  BY <1>1 DEF WorkspaceRows
<1>5. ASSUME NEW u \in Users \ wsMessy PROVE Leads(t, u)
  <2>1. CASE u \in Writes(t)
    <3>1. Halfway(call[t], u) /\ Kept(u) /\ (call[t].op = "remove" => u = Removed(t))
      BY <1>1, <2>1, RemovedOne DEF MembersInv, Membership
    <3>2. call'[t].op = call[t].op /\ call'[t].at = "active"
      BY <1>2 DEF GoesTo
    <3>3. Kept(u)'
      BY <1>1, <3>1 DEF Kept, Role
    <3>4. CASE u = Removed(t)
      <4>1. mine'[u] = NotMine
        BY <1>4, <3>4
      <4>2. Halfway(call[t], u)'
        BY <1>1, <1>2, <3>1, <3>2, <3>4, <4>1 DEF Halfway, Removing, Deleting, Leaving, Removed, Got
      <4> QED
        BY <1>1, <2>1, <3>2, <3>3, <4>2 DEF Leads
    <3>5. CASE u # Removed(t)
      <4>1. mine'[u] = mine[u] /\ call[t].op = "delete" /\ u # call[t].got.user
        BY <1>1, <1>4, <3>1, <3>5 DEF Removed, Got
      <4>2. /\ (Free(u) => Free(u)') /\ (Outside(u) => Outside(u)') /\ (Works(u) => Works(u)')
        BY <1>1, <4>1 DEF Free, Agrees, Alike, Named, Outside, Works
      <4>3. Halfway(call[t], u)'
        BY <1>1, <1>2, <3>1, <3>2, <4>1, <4>2 DEF Halfway, Deleting
      <4> QED
        BY <1>1, <2>1, <3>2, <3>3, <4>3 DEF Leads
    <3> QED
      BY <3>4, <3>5
  <2>2. CASE u \notin Writes(t)
    <3>1. u # Removed(t)
      BY <1>1, <2>2, WritesAre DEF Writes, Removed, Arg
    <3> QED
      BY <1>1, <1>4, <2>2, <3>1 DEF Leads, Beside
  <2> QED
    BY <2>1, <2>2
<1> QED
  BY <1>1, <1>2, <1>3, <1>5, ListingStays, RowsWritten DEF GoesTo

\* The user was active in the workspace: that is reset next.
LEMMA ReadActiveGoesOn ==
    ASSUME MembersInv, NEW t \in Tasks, call[t].op \in {"remove", "delete"}, call[t].at = "active",
           Goto(t, "reset"), UNCHANGED wsVars
    PROVE  MembersInv'
<1>1. Running(t) /\ Shaped
  BY DEF Running, MembersInv
<1>2. GoesTo(t, "reset") /\ call'[t].got = call[t].got
  BY <1>1, GotoKeeps
<1>3. \A u \in Users : Halfway(call[t], u) => Halfway(call'[t], u)
  BY <1>2 DEF Halfway, Removing, Deleting, Leaving, GoesTo
<1> QED
  BY <1>1, <1>2, <1>3, ListingStays, ReadsOn

\* The user is not active, or is no longer: done.
LEMMA DoneSteps ==
    ASSUME MembersInv, NEW t \in Tasks, call[t].op \in {"remove", "delete"},
           call[t].at \in {"active", "reset"}, Done(t),
           UNCHANGED <<workspace, members, mine, invites, geral, wsMessy, revived>>,
           WorkspaceRows',
           \A u \in Users : active'[u] = (IF u = Removed(t) THEN FALSE ELSE active[u])
    PROVE  MembersInv'
<1> DEFINE v == Removed(t)
<1>1. Running(t) /\ Shaped /\ WorkspaceRows
  BY DEF Running, MembersInv
<1>2. out' = (IF v \in wsMessy THEN out ELSE out \cup {v})
  BY DEF Done
<1>3. \/ call[t].op = "remove" /\ Shaped' /\ Only(t) /\ call'[t].op = "none"
      \/ call[t].op = "delete" /\ call[t].got.rest = {} /\ GoesTo(t, "invites")
      \/ \E w \in call[t].got.rest : call[t].op = "delete" /\ GoesTo(t, "member")
            /\ call'[t].got = [user |-> w, rest |-> call[t].got.rest \ {w}]
  BY <1>1, GotoKeeps, LearnKeeps, Leaves DEF Done, Got
<1>4. ASSUME NEW u \in Users \ wsMessy, u \in Writes(t)
      PROVE  /\ Leads(t, u)
             /\ u = Owner /\ u = v => geral.made
  <2>1. Halfway(call[t], u) /\ Kept(u) /\ (call[t].op = "remove" => u = v)
    BY <1>4, RemovedOne DEF MembersInv, Membership
  <2>2. CASE u = v
    <3>1. /\ members[u] = Absent /\ mine[u] = NotMine
          /\ u = Owner => geral.made
          /\ call[t].op = "delete" => u \notin call[t].got.rest /\ (u = Owner => geral.made)
      BY <2>1, <2>2 DEF Halfway, Removing, Deleting, Leaving, Removed, Got
    <3>2. Kept(u)'
      BY <1>2, <2>1, <2>2, <3>1 DEF Kept, Role, Absent
    <3>3. ~ active'[u]
      BY <2>2
    <3>4. Works(u)' /\ Outside(u)' /\ Free(u)'
      BY <3>1, <3>3 DEF Works, Outside, Free, Agrees, Alike, Named, Absent, NotMine
    <3>5. CASE call[t].op = "remove" /\ call'[t].op = "none"
      BY <1>4, <3>1, <3>2, <3>4, <3>5 DEF Leads
    <3>6. CASE call[t].op = "delete" /\ GoesTo(t, "invites")
      <4>1. Halfway(call[t], u)'
        BY <3>1, <3>4, <3>6 DEF Halfway, Deleting, GoesTo
      <4> QED
        BY <1>4, <3>1, <3>2, <3>6, <4>1 DEF Leads, GoesTo
    <3>7. ASSUME NEW w \in call[t].got.rest, call[t].op = "delete", GoesTo(t, "member"),
                 call'[t].got = [user |-> w, rest |-> call[t].got.rest \ {w}]
          PROVE  Leads(t, u)
      <4>1. Halfway(call[t], u)'
        BY <3>1, <3>4, <3>7 DEF Halfway, Deleting, GoesTo
      <4> QED
        BY <1>4, <3>2, <3>7, <4>1 DEF Leads, GoesTo
    <3> QED
      BY <1>3, <3>1, <3>5, <3>6, <3>7
  <2>3. CASE u # v
    <3>1. call[t].op = "delete" /\ u # call[t].got.user
      BY <2>1, <2>3 DEF Removed, Got
    <3>2. /\ u \in call[t].got.rest => Free(u)
          /\ u \notin call[t].got.rest => Outside(u) /\ Works(u)
          /\ u = Owner => geral.made
      BY <2>1, <3>1 DEF Halfway, Deleting
    <3>3. active'[u] = active[u]
      BY <2>3
    <3>4. Kept(u)' /\ (Free(u) => Free(u)') /\ (Outside(u) => Outside(u)') /\ (Works(u) => Works(u)')
      BY <1>2, <2>1, <2>3, <3>3 DEF Kept, Role, Free, Agrees, Alike, Named, Outside, Works
    <3>5. CASE call[t].got.rest = {} /\ GoesTo(t, "invites")
      <4>1. Halfway(call[t], u)'
        BY <3>1, <3>2, <3>4, <3>5 DEF Halfway, Deleting, GoesTo
      <4> QED
        BY <1>4, <2>3, <3>1, <3>4, <3>5, <4>1 DEF Leads, GoesTo
    <3>6. ASSUME NEW w \in call[t].got.rest, GoesTo(t, "member"),
                 call'[t].got = [user |-> w, rest |-> call[t].got.rest \ {w}]
          PROVE  Leads(t, u)
      <4>1. call'[t].got.user = w /\ call'[t].got.rest = call[t].got.rest \ {w}
        BY <3>6
      <4>2. Halfway(call[t], u)'
        BY <3>1, <3>2, <3>4, <3>6, <4>1 DEF Halfway, Deleting, Leaving, GoesTo
      <4> QED
        BY <1>4, <3>1, <3>4, <3>6, <4>2 DEF Leads, GoesTo
    <3> QED
      BY <1>3, <2>3, <3>1, <3>5, <3>6
  <2> QED
    BY <2>2, <2>3
<1>5. ASSUME NEW u \in Users \ wsMessy PROVE Leads(t, u)
  <2>1. CASE u \notin Writes(t)
    <3>1. u # v
      BY <2>1, WritesAre DEF Writes, Removed, Arg
    <3> QED
      BY <1>2, <2>1, <3>1 DEF Leads, Beside
  <2> QED
    BY <1>4, <2>1
<1>6. Owner \in out' /\ Owner \notin wsMessy => Owner \in out \/ geral.made
  <2> SUFFICES ASSUME Owner = v, Owner \notin wsMessy PROVE geral.made
    BY <1>2
  <2>1. Owner \in Users /\ Owner \in Writes(t)
    BY WorkspacesAssumption, WritesAre DEF Writes, Removed, Arg
  <2> QED
    BY <1>4, <2>1
<1>7. Listing(t)'
  <2>1. CASE call[t].op = "delete"
    <3>1. call[t].got.rest \subseteq Users
      BY <2>1 DEF MembersInv, Listing
    <3>2. GoesTo(t, "invites") => Listing(t)'
      BY DEF GoesTo, Listing
    <3>3. ASSUME NEW w \in call[t].got.rest, call'[t].got = [user |-> w, rest |-> call[t].got.rest \ {w}]
          PROVE  Listing(t)'
      <4>1. call'[t].got.user = w /\ call'[t].got.rest = call[t].got.rest \ {w}
        BY <3>3
      <4> QED
        BY <3>1, <4>1 DEF Listing
    <3> QED
      BY <1>3, <2>1, <3>2, <3>3
  <2>2. CASE call[t].op # "delete"
    BY <1>3, <2>2 DEF GoesTo, Listing
  <2> QED
    BY <2>1, <2>2
<1> QED
  BY <1>1, <1>3, <1>5, <1>6, <1>7, RowsWritten

LEMMA ReadActiveSteps ==
    ASSUME MembersInv, NEW t \in Tasks, ReadActive(t) \/ ResetActive(t)
    PROVE  MembersInv'
<1>1. Shaped /\ WorkspaceRows /\ Removed(t) \in Users
  BY DEF MembersInv, CalledWith, Listing, ReadActive, ResetActive, Removes, On, Removed, Arg, Got
<1>2. CASE ReadActive(t)
  <2>1. /\ call[t].op \in {"remove", "delete"} /\ call[t].at = "active"
        /\ UNCHANGED <<workspace, members, mine, active, invites, geral, wsMessy, revived>>
        /\ IF active[Removed(t)] THEN Goto(t, "reset") /\ UNCHANGED out ELSE Done(t)
    BY <1>2 DEF ReadActive, Removes, On, wsTables
  <2>2. CASE active[Removed(t)]
    BY <2>1, <2>2, ReadActiveGoesOn DEF wsVars, wsTables, wsHistory
  <2>3. CASE ~ active[Removed(t)]
    <3>1. WorkspaceRows'
      BY <1>1, <2>1, <2>3 DEF WorkspaceRows, Done
    <3>2. \A u \in Users : active'[u] = (IF u = Removed(t) THEN FALSE ELSE active[u])
      BY <1>1, <2>1, <2>3 DEF WorkspaceRows
    <3> QED
      BY <2>1, <2>3, <3>1, <3>2, DoneSteps
  <2> QED
    BY <2>2, <2>3
<1>3. CASE ResetActive(t)
  <2>1. /\ call[t].op \in {"remove", "delete"} /\ call[t].at = "reset" /\ Done(t)
        /\ UNCHANGED <<workspace, members, mine, invites, geral, wsMessy, revived>>
        /\ active' = [active EXCEPT ![Removed(t)] = FALSE]
    BY <1>3 DEF ResetActive, Removes, On
  <2>2. WorkspaceRows'
    BY <1>1, <2>1 DEF WorkspaceRows, Done
  <2>3. \A u \in Users : active'[u] = (IF u = Removed(t) THEN FALSE ELSE active[u])
    BY <1>1, <2>1 DEF WorkspaceRows
  <2> QED
    BY <2>1, <2>2, <2>3, DoneSteps
<1> QED
  BY <1>2, <1>3

-----------------------------------------------------------------------------
(* Steps that write the workspace, its channel or an invite. *)

LEMMA InsertWorkspaceSteps ==
    ASSUME MembersInv, NEW t \in Tasks, InsertWorkspace(t)
    PROVE  MembersInv'
<1>1. /\ call[t].op = "create" /\ call[t].at = "workspace" /\ Running(t) /\ Shaped
      /\ workspace' = [name |-> call[t].arg.name, whole |-> TRUE] /\ Learn(t, "add", Owner)
      /\ UNCHANGED <<members, mine, active, invites, geral, wsMessy, revived, out>>
      /\ WorkspaceRows /\ InvitesNamed /\ Founding /\ CalledOnce
      /\ ~ workspace.whole
  BY DEF InsertWorkspace, On, Running, MembersInv, wsHistory, Arg, Founding
<1>2. GoesTo(t, "add")
  BY <1>1, LearnKeeps
<1>3. WorkspaceRows' /\ InvitesNamed'
  BY <1>1 DEF WorkspaceRows, InvitesNamed, Sent
<1>4. Frame(t)
  BY <1>1, <1>2 DEF Frame, GoesTo, Running, Sent
<1>5. Founding'
  BY <1>1, <1>2 DEF Founding, GoesTo, Only, CalledOnce
<1>6. ASSUME NEW u \in Users \ wsMessy PROVE Leads(t, u)
  <2>1. CASE u \in Writes(t)
    <3>1. Halfway(call[t], u) /\ Kept(u)
      BY <2>1 DEF MembersInv, Membership
    <3>2. Outside(u) /\ Works(u) /\ u \notin out
      BY <1>1, <3>1 DEF Halfway, Creating
    <3>3. workspace'.whole
      BY <1>1
    <3>4. Kept(u)' /\ Outside(u)' /\ Works(u)'
      BY <1>1, <3>1, <3>2, <3>3 DEF Kept, Role, Outside, Works
    <3>5. Halfway(call[t], u)'
      BY <1>1, <1>2, <3>2, <3>3, <3>4 DEF Halfway, Creating, GoesTo
    <3> QED
      BY <1>1, <1>2, <2>1, <3>4, <3>5 DEF Leads, GoesTo
  <2>2. CASE u \notin Writes(t)
    BY <1>1, <2>2 DEF Leads, Beside
  <2> QED
    BY <2>1, <2>2
<1> QED
  BY <1>1, <1>3, <1>4, <1>5, <1>6, StepOn

LEMMA RenameSteps ==
    ASSUME MembersInv, NEW t \in Tasks, Rename(t)
    PROVE  MembersInv'
<1>1. /\ call[t].op = "update" /\ call[t].at = "name" /\ Running(t) /\ Shaped
      /\ workspace' = [workspace EXCEPT !.name = call[t].arg.name] /\ Goto(t, "list")
      /\ UNCHANGED <<members, mine, active, invites, geral, wsMessy, revived, out>>
      /\ WorkspaceRows /\ InvitesNamed /\ Founding
  BY DEF Rename, On, Running, MembersInv, wsHistory, Arg
<1>2. GoesTo(t, "list")
  BY <1>1, GotoKeeps
<1>3. workspace' = [name |-> call[t].arg.name, whole |-> workspace.whole]
  BY <1>1 DEF WorkspaceRows
<1>4. WorkspaceRows' /\ InvitesNamed'
  BY <1>1, <1>3 DEF WorkspaceRows, InvitesNamed, Sent
<1>5. Frame(t)
  BY <1>1, <1>2 DEF Frame, GoesTo, Running, Sent
<1>6. workspace'.whole = workspace.whole /\ workspace'.name = call[t].arg.name
  BY <1>3
<1>7. Founding'
  BY <1>1, <1>2, <1>6 DEF Founding, GoesTo, Only
<1>8. ASSUME NEW u \in Users \ wsMessy PROVE Leads(t, u)
  <2>1. u \in Writes(t)
    BY <1>1, WritesAre DEF Writes
  <2>2. Halfway(call[t], u) /\ Kept(u)
    BY <2>1 DEF MembersInv, Membership
  <2>3. Kept(u)'
    BY <1>1, <1>6, <2>2 DEF Kept, Role
  <2>4. Works(u) /\ Alike(u)
    BY <1>1, <2>2 DEF Halfway, Updating
  <2>5. Works(u)' /\ Alike(u)'
    BY <1>1, <2>4 DEF Works, Alike
  <2>6. Halfway(call[t], u)'
    BY <1>1, <1>2, <1>6, <2>5 DEF Halfway, Updating, GoesTo
  <2> QED
    BY <1>1, <1>2, <2>1, <2>3, <2>6 DEF Leads, GoesTo
<1> QED
  BY <1>1, <1>4, <1>5, <1>7, <1>8, StepOn

LEMMA DeleteWorkspaceSteps ==
    ASSUME MembersInv, NEW t \in Tasks, DeleteWorkspace(t)
    PROVE  MembersInv'
<1>1. /\ call[t].op = "delete" /\ call[t].at = "workspace" /\ Running(t) /\ Shaped
      /\ workspace' = NoSpace /\ Goto(t, "home")
      /\ UNCHANGED <<members, mine, active, invites, geral, wsMessy, revived, out>>
      /\ WorkspaceRows /\ InvitesNamed /\ Founding
  BY DEF DeleteWorkspace, On, Running, MembersInv, wsHistory
<1>2. GoesTo(t, "home")
  BY <1>1, GotoKeeps
<1>3. WorkspaceRows' /\ InvitesNamed'
  BY <1>1 DEF WorkspaceRows, InvitesNamed, Sent, NoSpace
<1>4. Frame(t)
  BY <1>1, <1>2, ListingStays DEF Frame, GoesTo, Running, Sent
<1>5. Founding'
  BY <1>1, <1>2 DEF Founding, GoesTo, Only, NoSpace
<1>6. ASSUME NEW u \in Users \ wsMessy PROVE Leads(t, u)
  <2>1. u \in Writes(t)
    BY <1>1, WritesAre DEF Writes
  <2>2. Halfway(call[t], u) /\ Kept(u)
    BY <2>1 DEF MembersInv, Membership
  <2>3. /\ Outside(u) /\ Works(u) /\ (u = Owner => geral.made)
        /\ \A i \in Invites : invites[i].to = u => invites[i].state # "open"
    BY <1>1, <2>2 DEF Halfway, Deleting
  <2>4. Kept(u)' /\ Outside(u)' /\ Works(u)'
    BY <1>1, <2>2, <2>3 DEF Kept, Role, Outside, Works
  <2>5. Halfway(call[t], u)'
    BY <1>1, <1>2, <2>3, <2>4 DEF Halfway, Deleting, GoesTo
  <2> QED
    BY <1>1, <1>2, <2>1, <2>4, <2>5 DEF Leads, GoesTo
<1> QED
  BY <1>1, <1>3, <1>4, <1>5, <1>6, StepOn

LEMMA GoHomeSteps ==
    ASSUME MembersInv, NEW t \in Tasks, GoHome(t)
    PROVE  MembersInv'
<1>1. /\ call[t].op = "delete" /\ call[t].at = "home" /\ Running(t) /\ Shaped
      /\ active' = [active EXCEPT ![call[t].arg.by] = FALSE] /\ Finish(t)
      /\ UNCHANGED <<workspace, members, mine, invites, geral, wsMessy, revived, out>>
      /\ WorkspaceRows
  BY DEF GoHome, On, Running, MembersInv, wsHistory, Arg
<1>2. Shaped' /\ Only(t) /\ call'[t].op = "none"
  BY <1>1, Leaves
<1>3. WorkspaceRows'
  BY <1>1 DEF WorkspaceRows
<1>4. \A u \in Users : active'[u] => active[u]
  BY <1>1 DEF WorkspaceRows
<1>5. ASSUME NEW u \in Users \ wsMessy PROVE Leads(t, u)
  <2>1. u \in Writes(t)
    BY <1>1, WritesAre DEF Writes
  <2>2. Halfway(call[t], u) /\ Kept(u)
    BY <2>1 DEF MembersInv, Membership
  <2>3. Outside(u) /\ Works(u)
    BY <1>1, <2>2 DEF Halfway, Deleting
  <2>4. Kept(u)' /\ Free(u)'
    <3>1. members[u].whole = FALSE /\ mine[u].whole = FALSE
      BY <1>1, <2>3 DEF Outside, WorkspaceRows
    <3>2. Kept(u)'
      BY <1>1, <2>2 DEF Kept, Role
    <3> QED
      BY <1>1, <1>4, <2>3, <3>1, <3>2 DEF Works, Free, Agrees, Alike, Named
  <2> QED
    BY <1>2, <2>1, <2>4 DEF Leads
<1> QED
  BY <1>1, <1>2, <1>3, <1>5, RowsWritten DEF Listing

\* The channel: nothing that is kept of a user is about it.
LEMMA RoomSteps ==
    ASSUME MembersInv, NEW t \in Tasks, InsertRoom(t) \/ FillRoom(t) \/ EnterRoom(t)
    PROVE  MembersInv'
<1>1. /\ call[t].op \in {"create", "accept"} /\ Running(t) /\ Shaped
      /\ UNCHANGED <<workspace, members, mine, active, invites, wsMessy, revived, out>>
      /\ WorkspaceRows /\ InvitesNamed /\ Founding
  BY DEF InsertRoom, FillRoom, EnterRoom, WsAdds, On, Running, MembersInv, wsHistory
<1>2. /\ geral' = [made |-> geral'.made, people |-> geral'.people] /\ geral'.made \in BOOLEAN
      /\ geral.made => geral'.made
      /\ call[t].op = "create" => geral'.made
  <2>1. CASE InsertRoom(t)
    <3>1. geral' = [made |-> TRUE, people |-> {}]
      BY <2>1 DEF InsertRoom
    <3> QED
      BY <3>1
  <2>2. CASE FillRoom(t)
    <3>1. call[t].op = "create" /\ call[t].at = "filling" /\ geral.made
      BY <1>1, <2>2 DEF FillRoom, On, Founding
    <3>2. \E u \in Got(t) : geral' = [made |-> geral.made, people |-> geral.people \cup {u}]
      BY <1>1, <2>2 DEF FillRoom, WorkspaceRows
    <3> QED
      BY <1>1, <3>1, <3>2 DEF WorkspaceRows
  <2>3. CASE EnterRoom(t)
    <3>1. call[t].at = "enter" /\ (call[t].op = "create" => geral.made)
      BY <1>1, <2>3 DEF EnterRoom, On, Founding
    <3>2. geral' = [made |-> geral.made, people |-> geral.people \cup {Arg(t).user}]
      BY <1>1, <2>3 DEF EnterRoom, WorkspaceRows
    <3> QED
      BY <1>1, <3>1, <3>2 DEF WorkspaceRows
  <2> QED
    BY <2>1, <2>2, <2>3
<1>3. \/ call[t].op = "create" /\ call[t].at = "filling" /\ Shaped' /\ Only(t) /\ call'[t].op = "none"
      \/ \E at : GoesTo(t, at) /\ \/ call[t].op = "create" /\ call[t].at \in {"room", "enter", "filling"}
                                     /\ at \in {"enter", "fill", "filling"}
                                  \/ call[t].op = "accept" /\ call[t].at = "enter" /\ at = "check"
  <2>1. CASE InsertRoom(t)
    <3>1. GoesTo(t, "enter") /\ call[t].op = "create" /\ call[t].at = "room"
      BY <1>1, <2>1, GotoKeeps DEF InsertRoom, On
    <3> QED
      BY <3>1
  <2>2. CASE FillRoom(t)
    <3>1. call[t].op = "create" /\ call[t].at = "filling"
          /\ (Finish(t) \/ \E got : Learn(t, "filling", got))
      BY <1>1, <2>2 DEF FillRoom, On
    <3>2. CASE Finish(t)
      BY <1>1, <3>1, <3>2, Leaves
    <3>3. ASSUME NEW got, Learn(t, "filling", got)
          PROVE  GoesTo(t, "filling")
      BY <1>1, <3>3, LearnKeeps
    <3> QED
      BY <3>1, <3>2, <3>3
  <2>3. CASE EnterRoom(t)
    <3>1. PICK at : /\ Goto(t, at) /\ call[t].at = "enter"
                    /\ at = (IF call[t].op = "create" THEN "fill" ELSE "check")
      BY <2>3 DEF EnterRoom, On
    <3>2. GoesTo(t, at)
      BY <1>1, <3>1, GotoKeeps
    <3> QED
      BY <1>1, <3>1, <3>2
  <2> QED
    BY <2>1, <2>2, <2>3
<1>4. WorkspaceRows' /\ InvitesNamed'
  BY <1>1, <1>2 DEF WorkspaceRows, InvitesNamed, Sent
<1>5. Frame(t)
  BY <1>1, <1>3 DEF Frame, GoesTo, Running, Sent
<1>6. Founding'
  <2>1. \A o \in Tasks \ {t} : call'[o] = call[o]
    BY <1>5 DEF Frame, Only
  <2>2. call'[t].op = "create" => call[t].op = "create" /\ call'[t].at \in {"enter", "fill", "filling"}
    BY <1>1, <1>3 DEF GoesTo
  <2>3. ASSUME Owner \notin wsMessy, workspace.whole, \A o \in Tasks : call'[o].op # "create"
        PROVE  geral'.made
    <3>1. CASE call[t].op = "create"
      BY <1>2, <3>1
    <3>2. CASE call[t].op # "create"
      BY <1>1, <1>2, <2>1, <2>3, <3>2 DEF Founding
    <3> QED
      BY <3>1, <3>2
  <2> QED
    BY <1>1, <1>2, <2>1, <2>2, <2>3 DEF Founding
<1>7. ASSUME NEW u \in Users \ wsMessy PROVE Leads(t, u)
  <2>1. CASE u \in Writes(t)
    <3>1. Halfway(call[t], u) /\ Kept(u)
      BY <2>1 DEF MembersInv, Membership
    <3>2. Kept(u)'
      BY <1>1, <3>1 DEF Kept, Role
    <3>3. /\ Agrees(u) => Agrees(u)'
          /\ Works(u) => Works(u)'
      BY <1>1 DEF Works, Agrees, Alike, Named
    <3>4. CASE call[t].op = "create" /\ call[t].at = "filling" /\ call'[t].op = "none"
      BY <2>1, <3>1, <3>2, <3>3, <3>4 DEF Leads, Halfway, Creating, Free
    <3>5. ASSUME NEW at, GoesTo(t, at),
                 \/ call[t].op = "create" /\ call[t].at \in {"room", "enter", "filling"}
                    /\ at \in {"enter", "fill", "filling"}
                 \/ call[t].op = "accept" /\ call[t].at = "enter" /\ at = "check"
          PROVE  Leads(t, u)
      <4>1. Halfway(call[t], u)'
        BY <1>1, <3>1, <3>3, <3>5 DEF Halfway, Creating, Accepting, GoesTo
      <4> QED
        BY <1>1, <2>1, <3>2, <3>5, <4>1 DEF Leads, GoesTo
    <3> QED
      BY <1>3, <3>4, <3>5
  <2>2. CASE u \notin Writes(t)
    BY <1>1, <1>2, <2>2 DEF Leads, Beside
  <2> QED
    BY <2>1, <2>2
<1> QED
  BY <1>1, <1>4, <1>5, <1>6, <1>7, StepOn

LEMMA InsertInviteSteps ==
    ASSUME MembersInv, NEW t \in Tasks, InsertInvite(t)
    PROVE  MembersInv'
<1> DEFINE i == call[t].arg.invite
           sent == [to |-> call[t].arg.to, role |-> call[t].arg.role, state |-> "open"]
<1>1. /\ call[t].op = "invite" /\ call[t].at = "insert" /\ Running(t) /\ Shaped
      /\ invites' = [invites EXCEPT ![i] = sent] /\ Finish(t)
      /\ UNCHANGED <<workspace, members, mine, active, geral, wsMessy, revived, out>>
      /\ WorkspaceRows /\ InvitesNamed /\ Founding /\ CalledWith(t)
  BY DEF InsertInvite, On, Running, MembersInv, wsHistory, Arg
<1>2. Shaped' /\ Only(t) /\ call'[t].op = "none"
  BY <1>1, Leaves
<1>3. \A j \in Invites : invites'[j] = (IF j = i THEN sent ELSE invites[j])
  BY <1>1 DEF WorkspaceRows
<1>4. WorkspaceRows'
  BY <1>1 DEF WorkspaceRows
<1>5. /\ i \in Invites /\ ~ Sent(i)
      /\ sent # NoInvite /\ sent.to \in Users /\ sent.role # "none" /\ sent.to = call[t].arg.to
  BY <1>1 DEF CalledWith, NoInvite
<1> HIDE DEF sent
<1>6. InvitesNamed'
  BY <1>1, <1>3, <1>5 DEF InvitesNamed, Sent
<1>7. Frame(t)
  BY <1>1, <1>2, <1>3, <1>5 DEF Frame, Running, Sent
<1>8. Founding'
  BY <1>1, <1>2 DEF Founding, Only
<1>9. ASSUME NEW u \in Users \ wsMessy PROVE Leads(t, u)
  <2>1. CASE u \in Writes(t)
    <3>1. Halfway(call[t], u) /\ Kept(u)
      BY <2>1 DEF MembersInv, Membership
    <3>2. Free(u) /\ workspace.whole
      BY <1>1, <3>1 DEF Halfway
    <3>3. Kept(u)' /\ Free(u)'
      BY <1>1, <3>1, <3>2 DEF Kept, Role, Free, Agrees, Alike, Named, Works
    <3> QED
      BY <1>2, <2>1, <3>3 DEF Leads
  <2>2. CASE u \notin Writes(t)
    <3>1. u # call[t].arg.to
      BY <1>1, <2>2, WritesAre DEF Writes, Arg
    <3> QED
      BY <1>1, <1>3, <1>5, <2>2, <3>1 DEF Leads, Beside, Sent
  <2> QED
    BY <2>1, <2>2
<1> QED
  BY <1>1, <1>4, <1>6, <1>7, <1>8, <1>9, StepOn

LEMMA MarkAcceptedSteps ==
    ASSUME MembersInv, NEW t \in Tasks, MarkAccepted(t)
    PROVE  MembersInv'
<1> DEFINE i == call[t].arg.invite
           v == call[t].arg.user
<1>1. /\ call[t].op = "accept" /\ call[t].at = "mark" /\ Running(t) /\ Shaped
      /\ invites' = [invites EXCEPT ![i].state = IF @ = "none" THEN "none" ELSE "accepted"]
      /\ out' = (IF invites[i].state = "open" THEN out \ {v} ELSE out)
      /\ Goto(t, "add")
      /\ UNCHANGED <<workspace, members, mine, active, geral, wsMessy, revived>>
      /\ WorkspaceRows /\ InvitesNamed /\ Founding /\ CalledWith(t)
  BY DEF MarkAccepted, On, Running, MembersInv, Arg
<1>2. GoesTo(t, "add") /\ call'[t].got = call[t].got
  BY <1>1, GotoKeeps
<1>3. i \in Invites /\ Sent(i) /\ invites[i].to = v
  BY <1>1 DEF CalledWith
<1>4. \A j \in Invites :
        /\ invites'[j] = [to |-> invites[j].to, role |-> invites[j].role, state |-> invites'[j].state]
        /\ j # i => invites'[j] = invites[j]
        /\ invites'[j].state = "open" => invites[j].state = "open"
  <2> SUFFICES ASSUME NEW j \in Invites
               PROVE  /\ invites'[j] = [to |-> invites[j].to, role |-> invites[j].role, state |-> invites'[j].state]
                      /\ j # i => invites'[j] = invites[j]
                      /\ invites'[j].state = "open" => invites[j].state = "open"
    OBVIOUS
  <2>1. invites[j] = [to |-> invites[j].to, role |-> invites[j].role, state |-> invites[j].state]
    BY <1>1 DEF WorkspaceRows
  <2>2. CASE j = i
    <3> DEFINE s == IF invites[i].state = "none" THEN "none" ELSE "accepted"
    <3>1. invites'[j] = [invites[j] EXCEPT !.state = s]
      BY <1>1, <2>2 DEF WorkspaceRows
    <3>2. invites'[j] = [to |-> invites[j].to, role |-> invites[j].role, state |-> s] /\ s # "open"
      BY <2>1, <3>1
    <3> HIDE DEF s
    <3> QED
      BY <2>2, <3>2
  <2>3. CASE j # i
    BY <1>1, <2>1, <2>3 DEF WorkspaceRows
  <2> QED
    BY <2>2, <2>3
<1>5. \A j \in Invites : invites'[j].to = invites[j].to /\ invites'[j].role = invites[j].role
                         /\ (Sent(j)' <=> Sent(j))
  <2> SUFFICES ASSUME NEW j \in Invites
               PROVE  invites'[j].to = invites[j].to /\ invites'[j].role = invites[j].role
                      /\ (Sent(j)' <=> Sent(j))
    OBVIOUS
  <2>1. invites'[j] = [to |-> invites[j].to, role |-> invites[j].role, state |-> invites'[j].state]
    BY <1>4
  <2>2. invites'[j].to = invites[j].to /\ invites'[j].role = invites[j].role
    BY <2>1
  <2>3. j = i => invites[j].role # "none" /\ Sent(j)
    BY <1>1, <1>3 DEF InvitesNamed
  <2>4. CASE j = i
    <3>1. invites'[j].role # "none" /\ Sent(j)
      BY <2>2, <2>3, <2>4
    <3> QED
      BY <2>2, <3>1 DEF Sent, NoInvite
  <2>5. CASE j # i
    BY <1>4, <2>2, <2>5 DEF Sent
  <2> QED
    BY <2>4, <2>5
<1>6. WorkspaceRows'
  <2>1. invites' = [j \in Invites |-> invites'[j]]
    BY <1>1 DEF WorkspaceRows
  <2>2. \A j \in Invites : invites'[j] = [to |-> invites'[j].to, role |-> invites'[j].role,
                                          state |-> invites'[j].state]
    BY <1>4, <1>5
  <2> QED
    BY <1>1, <2>1, <2>2 DEF WorkspaceRows
<1>7. InvitesNamed'
  BY <1>1, <1>5 DEF InvitesNamed
<1>8. Frame(t)
  BY <1>1, <1>2, <1>5 DEF Frame, GoesTo, Running
<1>9. Founding'
  BY <1>1, <1>2 DEF Founding, GoesTo, Only
<1>10. ASSUME NEW u \in Users \ wsMessy PROVE Leads(t, u)
  <2>1. CASE u \in Writes(t)
    <3>1. u = v /\ Halfway(call[t], u) /\ Kept(u)
      BY <1>1, <2>1, WritesOf DEF MembersInv, Membership
    <3>2. /\ Works(u) /\ Agrees(u) /\ workspace.whole /\ invites[i].state = "open"
          /\ call[t].got.role # "none"
      BY <1>1, <3>1 DEF Halfway, Accepting
    <3>3. Kept(u)'
      BY <1>1, <3>1, <3>2 DEF Kept, Role
    <3>4. Works(u)' /\ Agrees(u)'
      BY <1>1, <3>2 DEF Works, Agrees, Alike, Named
    <3>5. Halfway(call[t], u)'
      BY <1>1, <1>2, <3>1, <3>2, <3>4 DEF Halfway, Accepting, GoesTo
    <3> QED
      BY <1>1, <1>2, <2>1, <3>3, <3>5 DEF Leads, GoesTo
  <2>2. CASE u \notin Writes(t)
    <3>1. u # v
      BY <1>1, <2>2, WritesAre DEF Writes, Arg
    <3> QED
      BY <1>1, <1>3, <1>4, <1>5, <2>2, <3>1 DEF Leads, Beside
  <2> QED
    BY <2>1, <2>2
<1> QED
  BY <1>1, <1>6, <1>7, <1>8, <1>9, <1>10, StepOn

LEMMA DeleteInvitesSteps ==
    ASSUME MembersInv, NEW t \in Tasks, DeleteInvites(t)
    PROVE  MembersInv'
<1>1. /\ call[t].op = "delete" /\ call[t].at = "invites" /\ Running(t) /\ Shaped
      /\ invites' = [i \in Invites |-> [invites[i] EXCEPT !.state = "none"]]
      /\ Goto(t, "keys")
      /\ UNCHANGED <<workspace, members, mine, active, geral, wsMessy, revived, out>>
      /\ WorkspaceRows /\ InvitesNamed /\ Founding
  BY DEF DeleteInvites, On, Running, MembersInv, wsHistory
<1>2. GoesTo(t, "keys") /\ call'[t].got = call[t].got
  BY <1>1, GotoKeeps
<1>3. \A j \in Invites :
        /\ invites'[j] = [to |-> invites[j].to, role |-> invites[j].role, state |-> "none"]
        /\ invites'[j].to = invites[j].to /\ invites'[j].role = invites[j].role
        /\ invites'[j].state = "none"
  <2> SUFFICES ASSUME NEW j \in Invites
               PROVE  invites'[j] = [to |-> invites[j].to, role |-> invites[j].role, state |-> "none"]
    OBVIOUS
  <2>1. invites[j] = [to |-> invites[j].to, role |-> invites[j].role, state |-> invites[j].state]
    BY <1>1 DEF WorkspaceRows
  <2>2. invites'[j] = [invites[j] EXCEPT !.state = "none"]
    BY <1>1
  <2> QED
    BY <2>1, <2>2
<1>4. \A j \in Invites : Sent(j)' <=> Sent(j)
  <2> SUFFICES ASSUME NEW j \in Invites PROVE Sent(j)' <=> Sent(j)
    OBVIOUS
  <2>1. CASE Sent(j)
    <3>1. invites'[j].role # "none"
      BY <1>1, <1>3, <2>1 DEF InvitesNamed
    <3> QED
      BY <2>1, <3>1 DEF Sent, NoInvite
  <2>2. CASE ~ Sent(j)
    <3>1. invites[j] = NoInvite
      BY <2>2 DEF Sent
    <3>2. invites'[j] = NoInvite
      BY <1>3, <3>1 DEF NoInvite
    <3> QED
      BY <2>2, <3>2 DEF Sent
  <2> QED
    BY <2>1, <2>2
<1>5. WorkspaceRows'
  <2>1. invites' = [j \in Invites |-> invites'[j]]
    BY <1>1
  <2>2. \A j \in Invites : invites'[j] = [to |-> invites'[j].to, role |-> invites'[j].role,
                                          state |-> invites'[j].state]
    BY <1>3
  <2> QED
    BY <1>1, <2>1, <2>2 DEF WorkspaceRows
<1>6. InvitesNamed'
  BY <1>1, <1>3, <1>4 DEF InvitesNamed
<1>7. Frame(t)
  BY <1>1, <1>2, <1>3, <1>4, ListingStays DEF Frame, GoesTo, Running
<1>8. Founding'
  BY <1>1, <1>2 DEF Founding, GoesTo, Only
<1>9. ASSUME NEW u \in Users \ wsMessy PROVE Leads(t, u)
  <2>1. u \in Writes(t)
    BY <1>1, WritesAre DEF Writes
  <2>2. Halfway(call[t], u) /\ Kept(u)
    BY <2>1 DEF MembersInv, Membership
  <2>3. Outside(u) /\ Works(u) /\ (u = Owner => geral.made)
    BY <1>1, <2>2 DEF Halfway, Deleting
  <2>4. Kept(u)'
    BY <1>1, <1>3, <2>2 DEF Kept, Role
  <2>5. Outside(u)' /\ Works(u)'
    BY <1>1, <2>3 DEF Outside, Works
  <2>6. Halfway(call[t], u)'
    BY <1>1, <1>2, <1>3, <2>3, <2>5 DEF Halfway, Deleting, GoesTo
  <2> QED
    BY <1>1, <1>2, <2>1, <2>4, <2>6 DEF Leads, GoesTo
<1> QED
  BY <1>1, <1>5, <1>6, <1>7, <1>8, <1>9, StepOn

-----------------------------------------------------------------------------
LEMMA MembersStart ==
    WorkspacesInit /\ TasksInit(Budgets) => MembersInv
<1> SUFFICES ASSUME WorkspacesInit, TasksInit(Budgets) PROVE MembersInv
  OBVIOUS
<1> USE WorkspacesAssumption
<1>1. call = [t \in Tasks |-> NoCall] /\ (\A t \in Tasks : call[t] = NoCall)
  BY DEF TasksInit
<1>2. Shaped /\ CalledOnce /\ \A t \in Tasks : CalledWith(t) /\ Listing(t) /\ call[t].op = "none"
  BY <1>1 DEF Shaped, CalledOnce, CalledWith, Listing, NoCall
<1>3. \A t \in Tasks : Writes(t) = {}
  BY <1>2, WritesStay
<1>4. /\ active = [u \in Users |-> FALSE] /\ invites = [i \in Invites |-> NoInvite]
      /\ wsMessy = {} /\ revived = {} /\ out = {}
  BY DEF WorkspacesInit
<1>5. CASE /\ workspace = NoSpace /\ geral = NoRoom
           /\ members = [u \in Users |-> Absent] /\ mine = [u \in Users |-> NotMine]
  <2>1. WorkspaceRows /\ InvitesNamed /\ Founding
    BY <1>2, <1>4, <1>5 DEF WorkspaceRows, InvitesNamed, Founding, Sent, NoSpace, NoRoom, Absent,
                            NotMine, NoInvite
  <2>2. \A u \in Users : Kept(u) /\ Free(u)
    BY <1>4, <1>5 DEF Kept, Role, Free, Agrees, Alike, Named, Works, Absent, NotMine, NoInvite
  <2> QED
    BY <1>2, <1>3, <1>4, <2>1, <2>2 DEF MembersInv, Membership
<1>6. ASSUME NEW n \in Names,
             /\ workspace = [name |-> n, whole |-> TRUE]
             /\ geral = [made |-> TRUE, people |-> {Owner}]
             /\ members = [u \in Users |->
                    IF u = Owner THEN [role |-> "owner", whole |-> TRUE] ELSE Absent]
             /\ mine = [u \in Users |->
                    IF u = Owner THEN [role |-> "owner", whole |-> TRUE, name |-> n] ELSE NotMine]
      PROVE  MembersInv
  <2>1. WorkspaceRows /\ InvitesNamed /\ Founding
    BY <1>2, <1>4, <1>6 DEF WorkspaceRows, InvitesNamed, Founding, Sent, Absent, NotMine, NoInvite
  <2>2. \A u \in Users : Kept(u) /\ Free(u)
    BY <1>4, <1>6 DEF Kept, Role, Free, Agrees, Alike, Named, Works, Absent, NotMine, NoInvite
  <2> QED
    BY <1>2, <1>3, <1>4, <2>1, <2>2 DEF MembersInv, Membership
<1> QED
  BY <1>5, <1>6 DEF WorkspacesInit

LEMMA MembersStep ==
    MembersInv /\ [WorkspacesNext]_<<tasking, wsVars>> => MembersInv'
<1> SUFFICES ASSUME MembersInv, [WorkspacesNext]_<<tasking, wsVars>> PROVE MembersInv'
  OBVIOUS
<1>1. ASSUME NEW t \in Tasks, WorkspacesStep(t)
      PROVE  MembersInv'
  BY <1>1, CallsBegin, ReadRoleSteps, ReadWorkspaceSteps, InsertWorkspaceSteps,
     InsertMembershipSteps, ReadNameSteps, InsertMineSteps, ListForRoomSteps, RoomSteps,
     InsertInviteSteps, AcceptReadsSteps, MarkAcceptedSteps, ListRoomsSteps, CheckMemberSteps,
     ActivateSteps, SetRoleSteps, SetMineSteps, RenameSteps, ListToRenameSteps, RenameMineSteps,
     ListToDeleteSteps, DeleteMembershipSteps, DeleteMineSteps, ReadActiveSteps,
     DeleteInvitesSteps, DeleteWorkspaceSteps, GoHomeSteps, DropSteps DEF WorkspacesStep
<1>2. CASE UNCHANGED <<tasking, wsVars>>
  <2>1. call' = call
    BY <1>2 DEF tasking
  <2>2. UNCHANGED <<workspace, geral, invites, wsMessy, out>>
    BY <1>2 DEF wsVars, wsTables, wsHistory
  <2>3. /\ Shaped' /\ CalledOnce' /\ Founding'
        /\ \A t \in Tasks : CalledWith(t)' /\ Listing(t)' /\ Writes(t)' = Writes(t)
    BY <2>1, <2>2, WritesStay DEF MembersInv, Shaped, CalledOnce, Founding, CalledWith, Listing, Sent
  <2>4. \A u \in Users \ wsMessy : Membership(u)'
    <3> SUFFICES ASSUME NEW u \in Users \ wsMessy PROVE Membership(u)'
      OBVIOUS
    <3>1. Membership(u)
      BY DEF MembersInv
    <3>2. \A c : Halfway(c, u) => Halfway(c, u)'
      BY <1>2, TablesStay
    <3>3. \A t \in Tasks : Halfway(call[t], u) => Halfway(call[t], u)'
      <4> SUFFICES ASSUME NEW t \in Tasks, Halfway(call[t], u) PROVE Halfway(call[t], u)'
        OBVIOUS
      <4>1. \A c : c = call[t] => Halfway(c, u)'
        BY <3>2
      <4> QED
        BY <2>1, <4>1
    <3> QED
      BY <1>2, <2>3, <3>1, <3>3, TablesStay DEF Membership
  <2> QED
    BY <1>2, <2>2, <2>3, <2>4, TablesStay DEF MembersInv
<1> QED
  BY <1>1, <1>2 DEF WorkspacesNext

\* The members of a workspace are the same in every table, and a user works in
\* it only as its member, whoever renames it, joins, leaves, is removed or is
\* given a role, however often: as long as one call at a time writes the user's
\* rows and none is dropped in between (workspaces.rs).
THEOREM MembersAgreeAlways == WorkspacesSpec => []MembersAgree
<1>1. MembersInv => MembersAgree
  <2> SUFFICES ASSUME MembersInv, NEW u \in Users, Settled(u)
               PROVE  /\ members[u].whole = mine[u].whole
                      /\ members[u].whole => members[u].role = mine[u].role
                                             /\ mine[u].name = workspace.name
                      /\ u \notin revived /\ active[u] => members[u].whole /\ workspace.whole
    BY DEF MembersAgree, MembershipAgrees, ActiveIsMember
  <2>1. Kept(u) /\ Free(u)
    BY DEF MembersInv, Membership, Settled, Writes
  <2> QED
    BY <2>1 DEF Kept, Free, Agrees, Alike, Named, Works
<1> QED
  BY <1>1, MembersStart, MembersStep, PTL DEF WorkspacesSpec

\* A user who was removed stays out: no invite that has served, and none that
\* was sent before the workspace was deleted, makes a member of the user again
\* (workspaces.rs, remove_member, accept_invite and delete_workspace).
THEOREM RemovedStaysOutAlways == WorkspacesSpec => []RemovedStaysOut
<1>1. MembersInv => RemovedStaysOut
  <2> SUFFICES ASSUME MembersInv, NEW u \in out, Settled(u) PROVE members[u] = Absent
    BY DEF RemovedStaysOut
  <2>1. u \in Users /\ Kept(u)
    BY DEF MembersInv, Membership, WorkspaceRows, Settled, Writes
  <2> QED
    BY <2>1 DEF Kept
<1> QED
  BY <1>1, MembersStart, MembersStep, PTL DEF WorkspacesSpec

-----------------------------------------------------------------------------
(* Key rotation: what users entered, under the keys that come and go. *)

KeyRotationSpec == KeyRotationInit /\ TasksInit(Budgets) /\ [][KeyRotationNext]_<<tasking, krVars>>

\* A set of key versions.
KeySet(keys) == keys \subseteq 1 .. MaxKeyVersion /\ keys # {}

\* A row whose keys are all of its version, which can be read with the keys.
Sound(r, keys) ==
    \A p \in Providers : r.cols[p] # Empty => r.cols[p].key = Version(r) /\ Version(r) \in keys

\* A column in plaintext, or under one of the keys.
Readable(cell, keys) == cell.key \in keys \cup {0}

Rotating ==
    /\ KeySet(loaded) /\ Sound(row, loaded)
    /\ saved = [p \in Providers |-> saved[p]] /\ legacy = [p \in Providers |-> legacy[p]]
    /\ \A p \in Providers : Readable(legacy[p], loaded)
    /\ \A p \in Strict : legacy[p] # Empty => legacy[p].key \in loaded
    /\ Readable(phone, loaded)

\* The keys a task works with, and whether nobody wrote beside it what it writes.
KeysOf(c)  == IF c.at \in {"read", "delete", "phone"} THEN c.got ELSE c.got.keys
Tidy(what) == what \notin krMessy

\* A request works with the keys that are loaded; what it has read still holds.
Saving(c) ==
    /\ c.op = "save_keys" =>
        /\ c.at \in {"read", "write"} /\ KeysOf(c) = loaded
        /\ c.at = "write" => Sound(c.got.row, loaded) /\ (Tidy("row") => c.got.row = row)
    /\ c.op = "save_integration" =>
        /\ c.at \in {"read", "write", "fp"} /\ KeysOf(c) = loaded
        /\ c.at = "write" /\ c.arg.is # "keep" => c.got.is = c.arg.is
        /\ c.at = "write" /\ c.arg.is = "keep" /\ Tidy("phone") => c.got.is = number
        /\ c.at = "fp" /\ Tidy("phone") => c.got.is = number

\* A program works with the keys that were loaded when it started.
Rewriting(c) ==
    /\ c.op \in Programs =>
        /\ c.at \in {"phone", "write", "legacy", "seal"}
        /\ KeysOf(c) \subseteq loaded /\ KeysOf(c) # {}
        /\ Tidy("phone") => KeysOf(c) = loaded
        /\ Tidy("phone") /\ c.at = "write" => c.got.cell = phone
    /\ c.op \in Programs /\ c.at \in {"legacy", "seal"} =>
        /\ c.op = "encrypt_legacy" /\ c.got.todo \subseteq Providers \ Strict
        /\ c.at = "seal" => c.got.p \in Providers \ Strict
    /\ c.op = "encrypt_legacy" /\ Tidy("legacy") =>
        /\ KeysOf(c) = loaded
        /\ c.at = "seal" => c.got.cell = legacy[c.got.p]

Calls == {"none", "save_keys", "save_integration", "delete_keys"} \cup Programs

\* Two tasks that write the same thing make a mess of it.
OneWriter ==
    \A t, u \in Tasks : t # u => Touches(call[t].op) \cap Touches(call[u].op) \subseteq krMessy

\* What was saved for a provider is in the row, or else in the old column.
Held(p) ==
    Tidy("row") /\ Tidy("legacy") /\ saved[p] # "none" =>
        IF row.cols[p] # Empty THEN row.cols[p].of = saved[p]
        ELSE legacy[p] # Empty /\ legacy[p].of = saved[p]

KeysInv ==
    /\ Shaped /\ Rotating /\ OneWriter
    /\ \A t \in Tasks : call[t].op \in Calls /\ Saving(call[t]) /\ Rewriting(call[t])
    /\ \A p \in Providers : Held(p)
    /\ Tidy("phone") => phone.of = number
    /\ LookupFinds

LEMMA CurrentIs ==
    ASSUME NEW keys, KeySet(keys)
    PROVE  Current(keys) \in keys /\ \A w \in keys : w <= Current(keys)
<1>1. keys \subseteq Nat /\ keys # {} /\ MaxKeyVersion \in Nat /\ \A x \in keys : x <= MaxKeyVersion
  BY KeyRotationAssumption DEF KeySet
<1>2. \E v \in keys : \A w \in keys : v >= w
  BY <1>1, Greatest
<1>3. \E v \in keys : \A w \in keys : w <= v
  BY <1>1, <1>2
<1> QED
  BY <1>3, Zenon DEF Current

LEMMA LowestIs ==
    ASSUME NEW keys, KeySet(keys)
    PROVE  Lowest(keys) \in keys /\ \A w \in keys : Lowest(keys) <= w
<1>1. keys \subseteq Nat /\ keys # {}
  BY KeyRotationAssumption DEF KeySet
<1>2. \E v \in keys : \A w \in keys : v <= w
  BY <1>1, Least
<1> QED
  BY <1>2, Zenon DEF Lowest

\* A cell that is encrypted is not empty, and can be read with the keys.
LEMMA Encrypted ==
    ASSUME NEW keys, KeySet(keys), NEW s
    PROVE  /\ Encrypt(keys, s) # Empty /\ Encrypt(keys, s).of = s
           /\ Encrypt(keys, s).key = Current(keys) /\ Current(keys) \in keys /\ Current(keys) \in Nat \ {0}
<1>1. Current(keys) \in keys /\ Current(keys) \in Nat \ {0}
  <2>1. Current(keys) \in keys
    BY CurrentIs
  <2>2. keys \subseteq 1 .. MaxKeyVersion /\ MaxKeyVersion \in Nat
    BY KeyRotationAssumption DEF KeySet
  <2>3. \A v \in keys : v \in Nat \ {0}
    BY <2>2
  <2> QED
    BY <2>1, <2>3, Zenon
<1> QED
  BY <1>1 DEF Encrypt, Empty

\* What a task t does beside the others.
Alongside(t) ==
    /\ Shaped' /\ Only(t) /\ call'[t].op \in {"none", call[t].op}
    /\ loaded' = loaded /\ krMessy \subseteq krMessy'
    /\ "row" \notin Touches(call[t].op) => row' = row
    /\ "legacy" \notin Touches(call[t].op) => legacy' = legacy
    /\ "phone" \notin Touches(call[t].op) => phone' = phone /\ number' = number

LEMMA TouchesAre ==
    /\ Touches("save_keys") = {"row"} /\ Touches("delete_keys") = {"row"}
    /\ Touches("save_integration") = {"phone"} /\ Touches("backfill_fp") = {"phone"}
    /\ Touches("decrypt_legacy") = {"phone"} /\ Touches("encrypt_legacy") = {"phone", "legacy"}
    /\ Touches("none") = {}
  BY DEF Touches

\* The others find what they work with as they left it.
LEMMA OthersFind ==
    ASSUME KeysInv, NEW t \in Tasks, Alongside(t), NEW o \in Tasks \ {t}
    PROVE  call'[o].op \in Calls /\ Saving(call[o])' /\ Rewriting(call[o])'
<1>1. call'[o] = call[o] /\ loaded' = loaded
  BY DEF Alongside, Only
<1>2. call[o].op \in Calls /\ Saving(call[o]) /\ Rewriting(call[o])
  BY DEF KeysInv
<1>3. \A what : Tidy(what)' => Tidy(what)
  BY DEF Alongside, Tidy
<1>4. \A what : Tidy(what) /\ what \in Touches(call[o].op) => what \notin Touches(call[t].op)
  BY DEF KeysInv, OneWriter, Tidy
<1>5. /\ Tidy("row") /\ call[o].op = "save_keys" => row' = row
      /\ Tidy("legacy") /\ call[o].op = "encrypt_legacy" => legacy' = legacy
      /\ Tidy("phone") /\ call[o].op \in Programs \cup {"save_integration"} => phone' = phone /\ number' = number
  BY <1>4, TouchesAre DEF Alongside, Programs
<1>6. Saving(call[o])'
  BY <1>1, <1>2, <1>3, <1>5 DEF Saving, KeysOf, Sound
<1>7. Rewriting(call[o])'
  BY <1>1, <1>2, <1>3, <1>5 DEF Rewriting, KeysOf, Programs
<1> QED
  BY <1>1, <1>2, <1>6, <1>7

\* What a step has to show besides.
LEMMA KeysOn ==
    ASSUME KeysInv, NEW t \in Tasks, Alongside(t), Rotating',
           Saving(call[t])', Rewriting(call[t])', \A p \in Providers : Held(p)',
           Tidy("phone")' => phone'.of = number', LookupFinds'
    PROVE  KeysInv'
<1>1. \A o \in Tasks \ {t} : call'[o].op \in Calls /\ Saving(call[o])' /\ Rewriting(call[o])'
  BY OthersFind
<1>2. call'[t].op \in Calls
  BY DEF Alongside, KeysInv, Calls
<1>3. OneWriter'
  <2>1. \A o \in Tasks : Touches(call'[o].op) \subseteq Touches(call[o].op)
    BY TouchesAre DEF Alongside, Only
  <2>2. OneWriter /\ krMessy \subseteq krMessy'
    BY DEF KeysInv, Alongside
  <2>3. \A o, v \in Tasks : o # v => Touches(call'[o].op) \cap Touches(call'[v].op) \subseteq krMessy'
    BY <2>1, <2>2 DEF OneWriter
  <2> QED
    BY <2>3 DEF OneWriter, Touches
<1>4. \A o \in Tasks : call'[o].op \in Calls /\ Saving(call[o])' /\ Rewriting(call[o])'
  BY <1>1, <1>2
<1> QED
  BY <1>3, <1>4 DEF KeysInv, Alongside

\* A step that only reads.
LEMMA KeysRead ==
    ASSUME KeysInv, NEW t \in Tasks, Shaped', Only(t), call'[t].op \in {"none", call[t].op},
           UNCHANGED krVars, ~ On(t, "save_integration", "fp"),
           Saving(call[t])', Rewriting(call[t])'
    PROVE  KeysInv'
<1>1. UNCHANGED <<loaded, row, legacy, phone, fp, saved, number, krMessy, unindexed>>
  BY DEF krVars, krTables
<1>2. Alongside(t)
  BY <1>1 DEF Alongside
<1>3. Rotating'
  BY <1>1 DEF KeysInv, Rotating, Sound, Readable
<1>4. \A p \in Providers : Held(p)'
  BY <1>1 DEF KeysInv, Held, Tidy
<1>5. Tidy("phone")' => phone'.of = number'
  BY <1>1 DEF KeysInv, Tidy
<1>6. LookupFinds'
  <2>1. LookupFinds
    BY DEF KeysInv
  <2>2. (\A o \in Tasks : ~ On(o, "save_integration", "fp")') => \A o \in Tasks : ~ On(o, "save_integration", "fp")
    BY DEF On, Only
  <2> QED
    BY <1>1, <2>1, <2>2 DEF LookupFinds, On
<1> QED
  BY <1>2, <1>3, <1>4, <1>5, <1>6, KeysOn

\* A call begins: what it writes beside another is a mess from then on.
LEMMA CallBegins ==
    ASSUME KeysInv, NEW t \in Tasks, NEW op, NEW at, NEW arg, BeginKr(t, op, at, arg), op \in Calls \ {"none"},
           op \in {"save_keys", "save_integration"} => at = "read",
           op \in Programs => at = "phone"
    PROVE  KeysInv'
<1>1. /\ call'[t] = [op |-> op, at |-> at, arg |-> arg, got |-> loaded]
      /\ Shaped' /\ Only(t) /\ call[t].op = "none"
  BY DEF BeginKr, BeginWith, KeysInv, Shaped, Only, Running
<1>2. UNCHANGED <<loaded, row, legacy, phone, fp, saved, number, unindexed>>
  BY DEF BeginKr, krTables
<1>3. krMessy \subseteq krMessy' /\ \A what : Tidy(what)' => Tidy(what)
  BY DEF BeginKr, Tidy
<1>4. \A o \in Tasks \ {t} : Touches(op) \cap Touches(call[o].op) \subseteq krMessy'
  <2> SUFFICES ASSUME NEW o \in Tasks \ {t}, NEW w, w \in Touches(op), w \in Touches(call[o].op)
               PROVE  w \in krMessy'
    OBVIOUS
  <2>1. o \in Others(t)
    BY TouchesAre DEF Others, Running
  <2>2. w \in UNION {Touches(call[u].op) : u \in Others(t)}
    BY <2>1
  <2> QED
    BY <2>2 DEF BeginKr
<1>5. OneWriter'
  <2>1. \A o \in Tasks \ {t} : call'[o].op = call[o].op
    BY <1>1 DEF Only
  <2>2. call'[t].op = op
    BY <1>1
  <2>3. OneWriter
    BY DEF KeysInv
  <2>4. \A o, v \in Tasks : o # v => Touches(call'[o].op) \cap Touches(call'[v].op) \subseteq krMessy'
    <3> SUFFICES ASSUME NEW o \in Tasks, NEW v \in Tasks, o # v
                 PROVE  Touches(call'[o].op) \cap Touches(call'[v].op) \subseteq krMessy'
      OBVIOUS
    <3>1. CASE o = t
      BY <1>4, <2>1, <2>2, <3>1
    <3>2. CASE v = t
      BY <1>4, <2>1, <2>2, <3>2
    <3>3. CASE o # t /\ v # t
      BY <1>3, <2>1, <2>3, <3>3 DEF OneWriter
    <3> QED
      BY <3>1, <3>2, <3>3
  <2> QED
    BY <2>4 DEF OneWriter, Touches
<1>6. ASSUME NEW o \in Tasks \ {t}
      PROVE  call'[o].op \in Calls /\ Saving(call[o])' /\ Rewriting(call[o])'
  <2>1. call'[o] = call[o] /\ call[o].op \in Calls /\ Saving(call[o]) /\ Rewriting(call[o])
    BY <1>1 DEF Only, KeysInv
  <2>2. Saving(call[o])'
    BY <1>2, <1>3, <2>1 DEF Saving, KeysOf, Sound
  <2>3. Rewriting(call[o])'
    BY <1>2, <1>3, <2>1 DEF Rewriting, KeysOf
  <2> QED
    BY <2>1, <2>2, <2>3
<1>7. /\ call'[t].op = op /\ call'[t].at = at /\ call'[t].got = loaded /\ op \in Calls
      /\ loaded # {}
  BY <1>1 DEF KeysInv, Rotating, KeySet
<1>8. Saving(call[t])'
  BY <1>2, <1>7 DEF Saving, KeysOf
<1>9. Rewriting(call[t])'
  BY <1>2, <1>7 DEF Rewriting, KeysOf, Programs
<1>10. Rotating'
  BY <1>2 DEF KeysInv, Rotating, Sound, Readable
<1>11. \A p \in Providers : Held(p)'
  BY <1>2, <1>3 DEF KeysInv, Held
<1>12. Tidy("phone")' => phone'.of = number'
  BY <1>2, <1>3 DEF KeysInv
<1>13. LookupFinds'
  <2>1. (\A o \in Tasks : ~ On(o, "save_integration", "fp")') => \A o \in Tasks : ~ On(o, "save_integration", "fp")
    <3>1. ~ On(t, "save_integration", "fp")
      BY <1>1 DEF On
    <3> QED
      BY <1>1, <3>1 DEF On, Only
  <2> QED
    BY <1>2, <1>3, <2>1 DEF LookupFinds, KeysInv, On
<1>14. \A o \in Tasks : call'[o].op \in Calls /\ Saving(call[o])' /\ Rewriting(call[o])'
  BY <1>6, <1>7, <1>8, <1>9
<1> QED
  BY <1>1, <1>5, <1>10, <1>11, <1>12, <1>13, <1>14 DEF KeysInv

\* A task that has ended has nothing to show.
LEMMA Ended ==
    ASSUME NEW c, c.op \in {"none", "delete_keys"}
    PROVE  Saving(c) /\ Rewriting(c)
  BY DEF Saving, Rewriting, Programs

\* The steps that read.
LEMMA ReadSteps ==
    ASSUME KeysInv, NEW t \in Tasks,
           ReadKeys(t) \/ ReadIntegration(t) \/ ScanPhone(t) \/ ScanLegacy(t)
    PROVE  KeysInv'
<1>0. Shaped /\ Saving(call[t]) /\ Rewriting(call[t]) /\ Rotating /\ UNCHANGED krVars
  BY DEF KeysInv, ReadKeys, ReadIntegration, ScanPhone, ScanLegacy
<1>1. UNCHANGED <<loaded, row, legacy, phone, fp, saved, number, krMessy, unindexed>>
  BY <1>0 DEF krVars, krTables
<1>2. ~ On(t, "save_integration", "fp")
  BY DEF ReadKeys, ReadIntegration, ScanPhone, ScanLegacy, On, Programs
<1>3. CASE Finish(t)
  <2>1. Shaped' /\ Only(t) /\ call'[t].op = "none"
    BY <1>0, <1>3, Leaves
  <2>2. \A c : c = call'[t] => Saving(c)' /\ Rewriting(c)'
    BY <2>1, Ended DEF Saving, Rewriting, Programs
  <2> QED
    BY <1>0, <1>2, <2>1, <2>2, KeysRead
<1>4. CASE On(t, "save_keys", "read") /\ Learn(t, "write", [keys |-> Got(t), row |-> row])
  <2> DEFINE g == [keys |-> Got(t), row |-> row]
  <2>1. /\ Shaped' /\ Only(t) /\ call'[t].op = "save_keys" /\ call'[t].at = "write"
        /\ call'[t].arg = call[t].arg /\ call'[t].got = g
    BY <1>0, <1>4, Moves, Learns DEF On
  <2>2. Got(t) = loaded
    BY <1>0, <1>4 DEF Saving, KeysOf, On, Got
  <2>3. Saving(call[t])'
    BY <1>0, <1>1, <2>1, <2>2 DEF Saving, KeysOf, Rotating, Sound
  <2>4. Rewriting(call[t])'
    BY <2>1 DEF Rewriting, Programs
  <2> QED
    BY <1>0, <1>2, <1>4, <2>1, <2>3, <2>4, KeysRead DEF On
<1>5. CASE ReadIntegration(t)
  <2> DEFINE g == [keys |-> Got(t), is |-> IF Arg(t).is = "keep" THEN Passed(phone, Got(t)) ELSE Arg(t).is]
  <2>0. On(t, "save_integration", "read") /\ Learn(t, "write", g)
    BY <1>5 DEF ReadIntegration
  <2>1. /\ Shaped' /\ Only(t) /\ call'[t].op = "save_integration" /\ call'[t].at = "write"
        /\ call'[t].arg = call[t].arg /\ call'[t].got = g
    BY <1>0, <2>0, Moves, Learns DEF On
  <2>2. Got(t) = loaded
    BY <1>0, <2>0 DEF Saving, KeysOf, On, Got
  <2>3. Tidy("phone") => Passed(phone, loaded) = number
    BY <1>0 DEF KeysInv, Rotating, Readable, Passed, Opens
  <2>4. g.keys = loaded /\ g.is = IF Arg(t).is = "keep" THEN Passed(phone, Got(t)) ELSE Arg(t).is
    BY <2>2
  <2> HIDE DEF g
  <2>5. Saving(call[t])'
    BY <1>0, <1>1, <2>1, <2>2, <2>3, <2>4 DEF Saving, KeysOf, Tidy, Arg
  <2>6. Rewriting(call[t])'
    BY <2>1 DEF Rewriting, Programs
  <2> QED
    BY <1>0, <1>2, <2>0, <2>1, <2>5, <2>6, KeysRead DEF On
<1>6. CASE ScanPhone(t)
  <2>0. PICK op \in Programs : On(t, op, "phone")
    BY <1>6 DEF ScanPhone
  <2>1. /\ Shaped' /\ Only(t) /\ call'[t].op = call[t].op /\ call'[t].at = "write"
        /\ call'[t].got = [keys |-> Got(t), cell |-> phone]
    BY <1>0, <1>6, Moves, Learns DEF ScanPhone
  <2>2. /\ call[t].op \in Programs /\ Got(t) \subseteq loaded /\ Got(t) # {}
        /\ (Tidy("phone") => Got(t) = loaded)
        /\ (call[t].op = "encrypt_legacy" /\ Tidy("legacy") => Got(t) = loaded)
    BY <1>0, <2>0 DEF Rewriting, KeysOf, On, Got
  <2>3. Saving(call[t])'
    BY <2>1, <2>2 DEF Saving, Programs
  <2>4. Rewriting(call[t])'
    BY <1>1, <2>1, <2>2 DEF Rewriting, KeysOf, Tidy
  <2> QED
    BY <1>0, <1>2, <2>1, <2>3, <2>4, KeysRead
<1>7. CASE ScanLegacy(t) /\ ~ Finish(t)
  <2>0. PICK p \in Got(t).todo :
            Learn(t, "seal", [keys |-> Got(t).keys, todo |-> Got(t).todo \ {p},
                              p |-> p, cell |-> legacy[p]])
    BY <1>7 DEF ScanLegacy
  <2> DEFINE got == [keys |-> Got(t).keys, todo |-> Got(t).todo \ {p}, p |-> p, cell |-> legacy[p]]
  <2>1. /\ Shaped' /\ Only(t) /\ call'[t].op = "encrypt_legacy" /\ call'[t].at = "seal"
        /\ call'[t].got = got
    <3>1. Learn(t, "seal", got) /\ call[t].op = "encrypt_legacy"
      BY <1>7, <2>0 DEF ScanLegacy, On
    <3> HIDE DEF got
    <3> QED
      BY <1>0, <3>1, Moves, Learns
  <2>2. /\ Got(t).keys \subseteq loaded /\ Got(t).keys # {} /\ Got(t).todo \subseteq Providers \ Strict
        /\ (Tidy("phone") => Got(t).keys = loaded)
        /\ (Tidy("legacy") => Got(t).keys = loaded)
    BY <1>0, <1>7 DEF Rewriting, KeysOf, On, Got, ScanLegacy, Programs
  <2>3. Saving(call[t])'
    BY <2>1 DEF Saving
  <2>4. Rewriting(call[t])'
    BY <1>1, <2>1, <2>2 DEF Rewriting, KeysOf, Tidy, Programs
  <2> QED
    BY <1>0, <1>2, <1>7, <2>1, <2>3, <2>4, KeysRead DEF On, ScanLegacy
<1> QED
  BY <1>3, <1>4, <1>5, <1>6, <1>7 DEF ReadKeys, ScanLegacy

\* The steps that write the row.  A row carried over from an older version is
\* encrypted as a whole under the current key.
LEMMA RowWritten ==
    ASSUME KeysInv, NEW t \in Tasks, WriteKeys(t)
    PROVE  KeysInv'
<1> DEFINE keys == Got(t).keys
           old  == Got(t).row
           arg  == Arg(t)
           new  == IF arg.is = "clear" THEN Empty ELSE Encrypt(keys, arg.is)
           cols == [p \in Providers |-> IF p = arg.p THEN new ELSE CarryOver(old.cols[p], old, keys)]
<1>0. Shaped /\ Saving(call[t]) /\ Rotating
  BY DEF KeysInv
<1>1. /\ On(t, "save_keys", "write") /\ Finish(t)
      /\ row' = [version |-> Current(keys), cols |-> cols]
      /\ saved' = [saved EXCEPT ![arg.p] = IF arg.is = "clear" THEN "none" ELSE arg.is]
      /\ UNCHANGED <<loaded, legacy, phone, fp, number, krMessy, unindexed>>
  BY DEF WriteKeys
<1>2. Shaped' /\ Only(t) /\ call'[t].op = "none"
  BY <1>0, <1>1, Leaves
<1>3. /\ keys = loaded /\ KeySet(keys) /\ Sound(old, keys)
      /\ (Tidy("row") => old = row)
  BY <1>0, <1>1 DEF Saving, KeysOf, On, Rotating, Got
<1>4. /\ Current(keys) \in keys /\ Current(keys) \in Nat \ {0}
      /\ \A s : Encrypt(keys, s) # Empty /\ Encrypt(keys, s).of = s /\ Encrypt(keys, s).key = Current(keys)
  BY <1>3, Encrypted
<1>5. row'.version = Current(keys) /\ row'.cols = cols /\ Version(row') = Current(keys)
  BY <1>1, <1>4 DEF Version
<1> HIDE DEF keys, old, arg
<1>6. ASSUME NEW p \in Providers
      PROVE  /\ p = arg.p => cols[p] = new
             /\ p # arg.p /\ old.cols[p] = Empty => cols[p] = Empty
             /\ p # arg.p /\ old.cols[p] # Empty =>
                    /\ cols[p] # Empty /\ cols[p].of = old.cols[p].of /\ cols[p].key = Current(keys)
  <2>1. p # arg.p => cols[p] = CarryOver(old.cols[p], old, keys)
    OBVIOUS
  <2>2. old.cols[p] # Empty => old.cols[p].key = Version(old)
    BY <1>3 DEF Sound
  <2> QED
    BY <1>4, <2>1, <2>2 DEF CarryOver
<1> HIDE DEF cols
<1>7. Sound(row', keys)
  BY <1>4, <1>5, <1>6 DEF Sound
<1>8. saved' = [p \in Providers |-> saved'[p]] /\ \A p \in Providers : saved'[p] =
        IF p = arg.p THEN IF arg.is = "clear" THEN "none" ELSE arg.is ELSE saved[p]
  BY <1>0, <1>1 DEF Rotating
<1>9. Rotating'
  BY <1>0, <1>1, <1>3, <1>7, <1>8 DEF Rotating, Readable, Sound
<1>10. Alongside(t)
  BY <1>1, <1>2, TouchesAre DEF Alongside, On
<1>11. ASSUME NEW p \in Providers
       PROVE  Held(p)'
  <2> SUFFICES ASSUME Tidy("row"), Tidy("legacy"), saved'[p] # "none"
               PROVE  IF cols[p] # Empty THEN cols[p].of = saved'[p]
                      ELSE legacy[p] # Empty /\ legacy[p].of = saved'[p]
    BY <1>1, <1>5 DEF Held, Tidy
  <2>1. CASE p = arg.p
    BY <1>4, <1>6, <1>8, <2>1
  <2>2. CASE p # arg.p
    <3>1. Held(p) /\ old = row
      BY <1>3 DEF KeysInv
    <3> QED
      BY <1>6, <1>8, <2>2, <3>1 DEF Held
  <2> QED
    BY <2>1, <2>2
<1>12. Tidy("phone")' => phone'.of = number'
  BY <1>1 DEF KeysInv, Tidy
<1>13. LookupFinds'
  <2>1. (\A o \in Tasks : ~ On(o, "save_integration", "fp")') => \A o \in Tasks : ~ On(o, "save_integration", "fp")
    BY <1>1, <1>2 DEF On, Only
  <2> QED
    BY <1>1, <2>1 DEF LookupFinds, KeysInv, On
<1>14. Saving(call[t])' /\ Rewriting(call[t])'
  BY <1>2 DEF Saving, Rewriting, Programs
<1> QED
  BY <1>9, <1>10, <1>11, <1>12, <1>13, <1>14, KeysOn

LEMMA RowDeleted ==
    ASSUME KeysInv, NEW t \in Tasks, DeleteKeyRow(t)
    PROVE  KeysInv'
<1>0. Shaped /\ Rotating
  BY DEF KeysInv
<1>1. /\ On(t, "delete_keys", "delete") /\ Finish(t)
      /\ row' = NoKeyRow /\ saved' = [p \in Providers |-> "none"]
      /\ UNCHANGED <<loaded, legacy, phone, fp, number, krMessy, unindexed>>
  BY DEF DeleteKeyRow
<1>2. Shaped' /\ Only(t) /\ call'[t].op = "none"
  BY <1>0, <1>1, Leaves
<1>3. Rotating'
  BY <1>0, <1>1 DEF Rotating, Readable, Sound, NoKeyRow
<1>4. Alongside(t)
  BY <1>1, <1>2, TouchesAre DEF Alongside, On
<1>5. \A p \in Providers : Held(p)'
  BY <1>1 DEF Held
<1>6. Tidy("phone")' => phone'.of = number'
  BY <1>1 DEF KeysInv, Tidy
<1>7. LookupFinds'
  <2>1. (\A o \in Tasks : ~ On(o, "save_integration", "fp")') => \A o \in Tasks : ~ On(o, "save_integration", "fp")
    BY <1>1, <1>2 DEF On, Only
  <2> QED
    BY <1>1, <2>1 DEF LookupFinds, KeysInv, On
<1>8. Saving(call[t])' /\ Rewriting(call[t])'
  BY <1>2 DEF Saving, Rewriting, Programs
<1> QED
  BY <1>3, <1>4, <1>5, <1>6, <1>7, <1>8, KeysOn

\* The steps that write the number or its fingerprint leave the keys of the
\* providers alone.
LEMMA PhoneOn ==
    ASSUME KeysInv, NEW t \in Tasks, "phone" \in Touches(call[t].op),
           Shaped', Only(t), call'[t].op \in {"none", call[t].op},
           UNCHANGED <<loaded, row, legacy, saved, krMessy>>,
           Readable(phone', loaded), Saving(call[t])', Rewriting(call[t])',
           Tidy("phone") => phone'.of = number', LookupFinds'
    PROVE  KeysInv'
<1>1. Rotating'
  BY DEF KeysInv, Rotating, Sound, Readable
<1>2. "row" \notin Touches(call[t].op)
  BY DEF Touches
<1>3. Alongside(t)
  BY <1>2 DEF Alongside
<1>4. \A p \in Providers : Held(p)'
  BY DEF KeysInv, Held, Tidy
<1>5. Tidy("phone")' => phone'.of = number'
  BY DEF Tidy
<1> QED
  BY <1>1, <1>3, <1>4, <1>5, KeysOn

\* The number is encrypted under the current key; its fingerprint is to come.
LEMMA IntegrationWritten ==
    ASSUME KeysInv, NEW t \in Tasks, WriteIntegration(t)
    PROVE  KeysInv'
<1>0. Shaped /\ Saving(call[t]) /\ Rotating
  BY DEF KeysInv
<1>1. /\ On(t, "save_integration", "write") /\ Goto(t, "fp")
      /\ phone' = Encrypt(Got(t).keys, Got(t).is)
      /\ number' = IF Arg(t).is = "keep" THEN number ELSE Arg(t).is
      /\ UNCHANGED <<loaded, row, legacy, fp, saved, krMessy, unindexed>>
  BY DEF WriteIntegration
<1>2. /\ Shaped' /\ Only(t) /\ call'[t].op = "save_integration" /\ call'[t].at = "fp"
      /\ call'[t].got = call[t].got
  <2>1. call'[t].got = call[t].got
    BY <1>0, <1>1 DEF Goto, Shaped
  <2> QED
    BY <1>0, <1>1, <2>1, Moves DEF On
<1>3. /\ Got(t).keys = loaded /\ KeySet(loaded)
      /\ (Tidy("phone") => Got(t).is = number')
  BY <1>0, <1>1 DEF Saving, KeysOf, On, Rotating, Got, Arg
<1>4. /\ Current(loaded) \in loaded /\ phone'.of = Got(t).is /\ phone'.key = Current(loaded)
  BY <1>1, <1>3, Encrypted
<1>5. Readable(phone', loaded)
  BY <1>4 DEF Readable
<1>6. Saving(call[t])'
  BY <1>1, <1>2, <1>3 DEF Saving, KeysOf, Tidy, Got
<1>7. Rewriting(call[t])'
  BY <1>2 DEF Rewriting, Programs
<1>8. LookupFinds'
  BY <1>2 DEF LookupFinds, On
<1> QED
  BY <1>1, <1>2, <1>3, <1>4, <1>5, <1>6, <1>7, <1>8, TouchesAre, PhoneOn DEF On

\* A fingerprint under the keys that are loaded is the one that is looked for.
LEMMA FingerprintWritten ==
    ASSUME KeysInv, NEW t \in Tasks, WriteFingerprint(t) \/ BackfillFp(t)
    PROVE  KeysInv'
<1>0. Shaped /\ Saving(call[t]) /\ Rewriting(call[t]) /\ Rotating /\ (Tidy("phone") => phone.of = number)
  BY DEF KeysInv
<1>1. /\ On(t, "save_integration", "fp") \/ On(t, "backfill_fp", "write")
      /\ Finish(t) /\ unindexed' = (Got(t).keys # loaded)
      /\ UNCHANGED <<loaded, row, legacy, phone, saved, number, krMessy>>
  BY DEF WriteFingerprint, BackfillFp
<1>2. Shaped' /\ Only(t) /\ call'[t].op = "none"
  BY <1>0, <1>1, Leaves
<1>3. Saving(call[t])' /\ Rewriting(call[t])'
  BY <1>2 DEF Saving, Rewriting, Programs
<1>4. Tidy("phone") /\ ~ unindexed' => fp' = Fingerprint(loaded, number)
  <2> SUFFICES ASSUME Tidy("phone"), Got(t).keys = loaded PROVE fp' = Fingerprint(loaded, number)
    BY <1>1
  <2>1. CASE WriteFingerprint(t)
    <3>1. Got(t).is = number
      BY <1>0, <2>1 DEF WriteFingerprint, Saving, On, Got
    <3> QED
      BY <2>1, <3>1 DEF WriteFingerprint
  <2>2. CASE BackfillFp(t)
    <3>1. Got(t).cell = phone
      BY <1>0, <2>2 DEF BackfillFp, Rewriting, On, Got, Programs
    <3>2. Passed(phone, loaded) = number
      BY <1>0 DEF Rotating, Readable, Passed, Opens
    <3> QED
      BY <2>2, <3>1, <3>2 DEF BackfillFp
  <2> QED
    BY <2>1, <2>2
<1>5. LookupFinds'
  BY <1>1, <1>4 DEF LookupFinds, Tidy
<1>6. Readable(phone', loaded)
  BY <1>0, <1>1 DEF Rotating
<1> QED
  BY <1>0, <1>1, <1>2, <1>3, <1>5, <1>6, TouchesAre, PhoneOn DEF On

\* The keys of a program are among those that are loaded.
LEMMA ProgramKeys ==
    ASSUME KeysInv, NEW t \in Tasks, call[t].op \in Programs
    PROVE  KeySet(KeysOf(call[t])) /\ KeysOf(call[t]) \subseteq loaded
<1>1. KeysOf(call[t]) \subseteq loaded /\ KeysOf(call[t]) # {} /\ loaded \subseteq 1 .. MaxKeyVersion
  BY DEF KeysInv, Rewriting, Rotating, KeySet
<1> QED
  BY <1>1 DEF KeySet

\* A program writes the column as it has read it, or in plaintext.
LEMMA PhoneRewritten ==
    ASSUME KeysInv, NEW t \in Tasks, WritePhone(t)
    PROVE  KeysInv'
<1> DEFINE cell == Got(t).cell
           keys == Got(t).keys
<1>0. Shaped /\ Rewriting(call[t]) /\ Rotating /\ (Tidy("phone") => phone.of = number)
  BY DEF KeysInv
<1>1. /\ call[t].op \in {"encrypt_legacy", "decrypt_legacy"} /\ call[t].at = "write"
      /\ NextColumn(t)
      /\ UNCHANGED <<loaded, row, legacy, fp, saved, number, krMessy, unindexed>>
  BY DEF WritePhone, On
<1>2. /\ KeySet(keys) /\ keys \subseteq loaded
      /\ (Tidy("phone") => keys = loaded /\ cell = phone)
      /\ (call[t].op = "encrypt_legacy" /\ Tidy("legacy") => keys = loaded)
  BY <1>0, <1>1, ProgramKeys DEF Rewriting, KeysOf, Got, Programs
<1>3. CASE call[t].op = "encrypt_legacy"
  <2>1. phone' = IF Opens(cell, keys) THEN phone
                 ELSE Encrypt(keys, IF cell.key = 0 THEN cell.of ELSE "junk")
    BY <1>3 DEF WritePhone
  <2>2. Readable(phone', loaded)
    <3>1. CASE Opens(cell, keys)
      BY <1>0, <2>1, <3>1 DEF Rotating
    <3>2. CASE ~ Opens(cell, keys)
      BY <1>2, <2>1, <3>2, Encrypted DEF Readable
    <3> QED
      BY <3>1, <3>2
  <2>3. Tidy("phone") => phone'.of = number'
    <3> SUFFICES ASSUME Tidy("phone") PROVE phone'.of = number
      BY <1>1
    <3>1. cell = phone /\ keys = loaded /\ cell.key \in keys \cup {0}
      BY <1>0, <1>2 DEF Rotating, Readable
    <3>2. CASE Opens(cell, keys)
      BY <1>0, <2>1, <3>2
    <3>3. CASE ~ Opens(cell, keys)
      BY <1>0, <1>2, <2>1, <3>1, <3>3, Encrypted DEF Opens
    <3> QED
      BY <3>2, <3>3
  <2>4. /\ Shaped' /\ Only(t) /\ call'[t].op = "encrypt_legacy" /\ call'[t].at = "legacy"
        /\ call'[t].got = [keys |-> keys, todo |-> Providers \ Strict]
    BY <1>0, <1>1, <1>3, Moves, Learns DEF NextColumn
  <2>5. Saving(call[t])'
    BY <2>4 DEF Saving
  <2>6. Rewriting(call[t])'
    <3>1. KeysOf(call[t])' = keys /\ call'[t].got.todo = Providers \ Strict
      BY <2>4 DEF KeysOf
    <3>2. /\ keys # {} /\ keys \subseteq loaded' /\ (Tidy("phone")' => keys = loaded')
          /\ (Tidy("legacy")' => keys = loaded')
      BY <1>1, <1>2, <1>3 DEF KeySet, Tidy
    <3> HIDE DEF keys
    <3> QED
      BY <2>4, <3>1, <3>2 DEF Rewriting, Programs
  <2>7. LookupFinds'
    <3>1. (\A o \in Tasks : ~ On(o, "save_integration", "fp")') => \A o \in Tasks : ~ On(o, "save_integration", "fp")
      BY <1>3, <2>4 DEF On, Only
    <3> QED
      BY <1>1, <3>1 DEF LookupFinds, KeysInv, On
  <2> QED
    BY <1>1, <1>3, <2>2, <2>3, <2>4, <2>5, <2>6, <2>7, TouchesAre, PhoneOn
<1>4. CASE call[t].op = "decrypt_legacy"
  <2>1. phone' = IF Opens(cell, keys) THEN [key |-> 0, of |-> cell.of] ELSE phone
    BY <1>4 DEF WritePhone
  <2>2. Readable(phone', loaded) /\ (Tidy("phone") => phone'.of = number')
    BY <1>0, <1>1, <1>2, <2>1 DEF Readable, Rotating
  <2>3. Shaped' /\ Only(t) /\ call'[t].op = "none"
    BY <1>0, <1>1, <1>4, Leaves DEF NextColumn
  <2>4. Saving(call[t])' /\ Rewriting(call[t])'
    BY <2>3 DEF Saving, Rewriting, Programs
  <2>5. LookupFinds'
    <3>1. (\A o \in Tasks : ~ On(o, "save_integration", "fp")') => \A o \in Tasks : ~ On(o, "save_integration", "fp")
      BY <1>4, <2>3 DEF On, Only
    <3> QED
      BY <1>1, <3>1 DEF LookupFinds, KeysInv, On
  <2> QED
    BY <1>1, <1>4, <2>2, <2>3, <2>4, <2>5, TouchesAre, PhoneOn
<1> QED
  BY <1>1, <1>3, <1>4

\* Only what is still plaintext is encrypted.
LEMMA LegacyRewritten ==
    ASSUME KeysInv, NEW t \in Tasks, WriteLegacy(t)
    PROVE  KeysInv'
<1> DEFINE g   == Got(t)
           new == Encrypt(g.keys, IF g.cell.key = 0 THEN g.cell.of ELSE "junk")
<1>0. Shaped /\ Rewriting(call[t]) /\ Rotating
  BY DEF KeysInv
<1>1. /\ On(t, "encrypt_legacy", "seal") /\ Learn(t, "legacy", [keys |-> g.keys, todo |-> g.todo])
      /\ legacy' = (IF g.cell = Empty \/ Opens(g.cell, g.keys) THEN legacy ELSE [legacy EXCEPT ![g.p] = new])
      /\ UNCHANGED <<loaded, row, phone, fp, saved, number, krMessy, unindexed>>
  BY DEF WriteLegacy
<1>2. /\ KeySet(g.keys) /\ g.keys \subseteq loaded /\ g.todo \subseteq Providers \ Strict
      /\ g.p \in Providers \ Strict
      /\ (Tidy("phone") => g.keys = loaded)
      /\ (Tidy("legacy") => g.keys = loaded /\ g.cell = legacy[g.p])
  BY <1>0, <1>1, ProgramKeys DEF Rewriting, KeysOf, Got, Programs, On
<1>3. /\ Shaped' /\ Only(t) /\ call'[t].op = "encrypt_legacy" /\ call'[t].at = "legacy"
      /\ call'[t].got = [keys |-> g.keys, todo |-> g.todo]
  <2> DEFINE got == [keys |-> g.keys, todo |-> g.todo]
  <2>1. Learn(t, "legacy", got) /\ call[t].op = "encrypt_legacy"
    BY <1>1 DEF On
  <2> HIDE DEF got
  <2>2. /\ Shaped' /\ Only(t) /\ call'[t].op = "encrypt_legacy" /\ call'[t].at = "legacy"
        /\ call'[t].got = got
    BY <1>0, <2>1, Moves, Learns
  <2> QED
    BY <2>2 DEF got
<1>4. new # Empty /\ new.key \in g.keys /\ (g.cell.key = 0 => new.of = g.cell.of)
  BY <1>2, Encrypted
<1> HIDE DEF g, new
<1>5. /\ legacy' = [p \in Providers |-> legacy'[p]]
      /\ \A p \in Providers : \/ legacy'[p] = legacy[p]
                              \/ p = g.p /\ g.cell # Empty /\ ~ Opens(g.cell, g.keys) /\ legacy'[p] = new
  BY <1>0, <1>1 DEF Rotating
<1>6. Rotating'
  <2>1. \A p \in Providers : Readable(legacy'[p], loaded)
    BY <1>0, <1>2, <1>4, <1>5 DEF Rotating, Readable
  <2>2. \A p \in Strict : legacy'[p] = legacy[p]
    BY <1>2, <1>5, KeyRotationAssumption
  <2> QED
    BY <1>0, <1>1, <1>5, <2>1, <2>2 DEF Rotating, Sound, Readable
<1>7. Alongside(t)
  BY <1>1, <1>3, TouchesAre DEF Alongside, On
<1>8. ASSUME NEW p \in Providers
      PROVE  Held(p)'
  <2> SUFFICES ASSUME Tidy("row"), Tidy("legacy"), saved[p] # "none"
               PROVE  IF row.cols[p] # Empty THEN row.cols[p].of = saved[p]
                      ELSE legacy'[p] # Empty /\ legacy'[p].of = saved[p]
    BY <1>1 DEF Held, Tidy
  <2>1. IF row.cols[p] # Empty THEN row.cols[p].of = saved[p]
        ELSE legacy[p] # Empty /\ legacy[p].of = saved[p]
    BY DEF KeysInv, Held
  <2>2. CASE legacy'[p] = legacy[p]
    BY <2>1, <2>2
  <2>3. CASE legacy'[p] # legacy[p]
    <3>1. legacy'[p] = new /\ g.cell = legacy[p] /\ g.keys = loaded /\ ~ Opens(g.cell, g.keys)
      BY <1>2, <1>5, <2>3
    <3>2. g.cell.key = 0
      BY <1>0, <3>1 DEF Rotating, Readable, Opens
    <3> QED
      BY <1>4, <2>1, <3>1, <3>2
  <2> QED
    BY <2>2, <2>3
<1>9. Tidy("phone")' => phone'.of = number'
  BY <1>1 DEF KeysInv, Tidy
<1>10. LookupFinds'
  <2>1. (\A o \in Tasks : ~ On(o, "save_integration", "fp")') => \A o \in Tasks : ~ On(o, "save_integration", "fp")
    BY <1>1, <1>3 DEF On, Only
  <2> QED
    BY <1>1, <2>1 DEF LookupFinds, KeysInv, On
<1>11. Saving(call[t])'
  BY <1>3 DEF Saving
<1>12. Rewriting(call[t])'
  BY <1>1, <1>2, <1>3 DEF Rewriting, KeysOf, Programs, Tidy, KeySet
<1> QED
  BY <1>6, <1>7, <1>8, <1>9, <1>10, <1>11, <1>12, KeysOn

\* A call that ends between the number and its fingerprint makes a mess of it.
LEMMA KeyTaskDropped ==
    ASSUME KeysInv, NEW t \in Tasks, DropKr(t)
    PROVE  KeysInv'
<1>0. Shaped /\ Rotating
  BY DEF KeysInv
<1>1. /\ Drop(t)
      /\ krMessy' = krMessy \cup (IF On(t, "save_integration", "fp") THEN {"phone"} ELSE {})
      /\ UNCHANGED <<loaded, row, legacy, phone, fp, saved, number, unindexed>>
  BY DEF DropKr, krTables
<1>2. Shaped' /\ Only(t) /\ call'[t].op = "none"
  BY <1>0, <1>1, Leaves
<1>3. Rotating'
  BY <1>0, <1>1 DEF Rotating, Readable, Sound
<1>4. Alongside(t)
  BY <1>1, <1>2 DEF Alongside
<1>5. \A p \in Providers : Held(p)'
  BY <1>1 DEF KeysInv, Held, Tidy
<1>6. Tidy("phone")' => phone'.of = number'
  BY <1>1 DEF KeysInv, Tidy
<1>7. LookupFinds'
  <2>1. "phone" \notin krMessy' /\ (\A o \in Tasks : ~ On(o, "save_integration", "fp")')
            => \A o \in Tasks : ~ On(o, "save_integration", "fp")
    BY <1>1, <1>2 DEF On, Only
  <2> QED
    BY <1>1, <2>1 DEF LookupFinds, KeysInv, On
<1>8. Saving(call[t])' /\ Rewriting(call[t])'
  BY <1>2 DEF Saving, Rewriting, Programs
<1> QED
  BY <1>3, <1>4, <1>5, <1>6, <1>7, <1>8, KeysOn

\* After a restart with more keys, or without one that is needed by nothing,
\* no request runs, and whatever a program goes on with is a mess.
LEMMA Restarted ==
    ASSUME KeysInv, NEW keys, Restart(keys), KeySet(keys),
           \A c \in loaded \ keys : /\ Going = {} /\ phone.key # c
                                    /\ \A p \in Providers : row.cols[p].key # c /\ legacy[p].key # c
    PROVE  KeysInv'
<1>0. Shaped /\ Rotating
  BY DEF KeysInv
<1>1. /\ loaded' = keys /\ krMessy \subseteq krMessy'
      /\ UNCHANGED <<row, legacy, phone, fp, saved, number>>
      /\ unindexed' = (unindexed \/ Lowest(keys) # Lowest(loaded))
      /\ call' = [t \in Tasks |-> IF t \in Ending THEN NoCall ELSE call[t]]
  BY DEF Restart
<1>2. \A t \in Tasks : call'[t] = IF t \in Ending THEN NoCall ELSE call[t]
  BY <1>1
<1>3. Shaped'
  BY <1>0, <1>1 DEF Shaped, NoCall
<1>4. \A t \in Tasks : call'[t].op = "none" \/ (call'[t] = call[t] /\ t \in Going)
  <2> TAKE t \in Tasks
  <2>1. CASE t \in Ending
    BY <1>2, <2>1 DEF NoCall
  <2>2. CASE t \notin Ending
    BY <1>2, <2>2 DEF Ending, Going, Running
  <2> QED
    BY <2>1, <2>2
<1>5. \A t \in Going : Touches(call[t].op) \subseteq krMessy'
  BY DEF Restart
<1>6. \A t \in Tasks : On(t, "save_integration", "fp") => "phone" \in krMessy'
  <2> SUFFICES ASSUME NEW t \in Tasks, On(t, "save_integration", "fp") PROVE "phone" \in krMessy'
    OBVIOUS
  <2>1. t \in Ending
    BY DEF Ending, Programs, On, Running
  <2>2. (IF \E u \in Ending : On(u, "save_integration", "fp") THEN {"phone"} ELSE {}) = {"phone"}
    BY <2>1
  <2> QED
    BY <2>2, Zenon DEF Restart
<1>7. Rotating'
  <2>1. \A p \in Providers : row.cols[p] # Empty => row.cols[p].key = Version(row) /\ Version(row) \in keys
    BY <1>0 DEF Rotating, Sound
  <2>2. \A p \in Providers : legacy[p].key \in loaded => legacy[p].key \in keys
    OBVIOUS
  <2>3. phone.key \in loaded => phone.key \in keys
    OBVIOUS
  <2> QED
    BY <1>0, <1>1, <2>1, <2>2, <2>3, KeyRotationAssumption DEF Rotating, Sound, Readable
<1>8. OneWriter'
  <2>1. \A t \in Tasks : Touches(call'[t].op) \subseteq krMessy'
    BY <1>4, <1>5, TouchesAre
  <2>2. \A t, u \in Tasks : t # u => Touches(call'[t].op) \cap Touches(call'[u].op) \subseteq krMessy'
    BY <2>1
  <2> QED
    BY <2>2 DEF OneWriter, Touches
<1>9. ASSUME NEW t \in Tasks
      PROVE  call'[t].op \in Calls /\ Saving(call[t])' /\ Rewriting(call[t])'
  <2>1. CASE call'[t].op = "none"
    BY <2>1 DEF Calls, Saving, Rewriting, Programs
  <2>2. CASE call'[t] = call[t] /\ t \in Going
    <3>1. call[t].op \in Programs /\ Saving(call[t]) /\ Rewriting(call[t])
      BY <2>2 DEF Going, KeysInv
    <3>2. \A what \in Touches(call[t].op) : ~ Tidy(what)'
      BY <1>5, <2>2 DEF Tidy
    <3>3. loaded \subseteq keys
      BY <2>2
    <3>4. ~ Tidy("phone")' /\ (call[t].op = "encrypt_legacy" => ~ Tidy("legacy")')
      BY <3>1, <3>2, TouchesAre DEF Programs
    <3>5. Saving(call[t])'
      BY <2>2, <3>1 DEF Saving, Programs
    <3>6. Rewriting(call[t])'
      BY <1>1, <2>2, <3>1, <3>3, <3>4 DEF Rewriting, KeysOf
    <3> QED
      BY <2>2, <3>1, <3>5, <3>6 DEF Calls
  <2> QED
    BY <1>4, <2>1, <2>2
<1>10. \A p \in Providers : Held(p)'
  BY <1>1 DEF KeysInv, Held, Tidy
<1>11. Tidy("phone")' => phone'.of = number'
  BY <1>1 DEF KeysInv, Tidy
<1>12. LookupFinds'
  <2> SUFFICES ASSUME "phone" \notin krMessy', ~ unindexed'
               PROVE  fp' = Fingerprint(keys, number')
    BY <1>1 DEF LookupFinds
  <2>1. "phone" \notin krMessy /\ ~ unindexed /\ \A t \in Tasks : ~ On(t, "save_integration", "fp")
    BY <1>1, <1>6
  <2>2. fp = Fingerprint(loaded, number)
    BY <2>1 DEF KeysInv, LookupFinds
  <2> QED
    BY <1>1, <2>2 DEF Fingerprint
<1> QED
  BY <1>3, <1>7, <1>8, <1>9, <1>10, <1>11, <1>12 DEF KeysInv

LEMMA KeyAdded ==
    ASSUME KeysInv, AddKey
    PROVE  KeysInv'
<1>1. KeySet(loaded) /\ Current(loaded) \in Nat \ {0} /\ Current(loaded) < MaxKeyVersion
  BY Encrypted DEF KeysInv, Rotating, AddKey
<1>2. KeySet(loaded \cup {Current(loaded) + 1})
  <2>1. loaded \subseteq 1 .. MaxKeyVersion /\ MaxKeyVersion \in Nat
    BY <1>1, KeyRotationAssumption DEF KeySet
  <2>2. Current(loaded) + 1 \in 1 .. MaxKeyVersion
    BY <1>1, <2>1
  <2> QED
    BY <2>1, <2>2 DEF KeySet
<1> QED
  BY <1>2, Restarted DEF AddKey

LEMMA KeyRetired ==
    ASSUME KeysInv, RetireKey
    PROVE  KeysInv'
<1> DEFINE v == Lowest(loaded)
<1>1. /\ v # Current(loaded) /\ Going = {} /\ phone.key # v /\ Restart(loaded \ {v})
      /\ \A p \in Providers : row.cols[p].key # v /\ legacy[p].key # v
  BY DEF RetireKey
<1>2. KeySet(loaded) /\ Current(loaded) \in loaded
  BY CurrentIs DEF KeysInv, Rotating
<1>3. KeySet(loaded \ {v})
  BY <1>1, <1>2 DEF KeySet
<1> HIDE DEF v
<1> QED
  BY <1>1, <1>3, Restarted

LEMMA KeysStart ==
    ASSUME KeyRotationInit, TasksInit(Budgets)
    PROVE  KeysInv
<1>1. Shaped /\ \A t \in Tasks : call[t].op = "none"
  BY DEF TasksInit, Shaped, NoCall
<1>2. KeySet(loaded) /\ loaded = {1}
  BY KeyRotationAssumption DEF KeyRotationInit, KeySet
<1>3. saved = [p \in Providers |-> KeyOf(p)]
  BY DEF KeyRotationInit
<1>4. Rotating /\ \A p \in Providers : Held(p)
  <2>1. PICK p \in Providers, s \in Secrets :
        \/ /\ row = NoKeyRow
           /\ legacy = [NoKeyRow.cols EXCEPT
                ![p] = [key |-> IF p \in Strict THEN 1 ELSE 0, of |-> s]]
        \/ /\ row = [version |-> 0, cols |-> [NoKeyRow.cols EXCEPT ![p] = [key |-> 1, of |-> s]]]
           /\ legacy = NoKeyRow.cols
    BY DEF KeyRotationInit
  <2>2. phone.key = 0
    BY DEF KeyRotationInit
  <2>3. Version(row) = 1 /\ NoKeyRow.cols = [q \in Providers |-> Empty]
    BY <2>1 DEF Version, NoKeyRow
  <2>4. ASSUME NEW q \in Providers
        PROVE  /\ row.cols[q] # Empty => row.cols[q].key = 1
               /\ Readable(legacy[q], loaded)
               /\ q \in Strict /\ legacy[q] # Empty => legacy[q].key = 1
    BY <1>2, <2>1, <2>3 DEF NoKeyRow, Readable, Empty
  <2>5. legacy = [q \in Providers |-> legacy[q]]
    BY <2>1, <2>3
  <2>6. Rotating
    BY <1>2, <1>3, <2>2, <2>3, <2>4, <2>5, KeyRotationAssumption DEF Rotating, Sound, Readable
  <2>7. ASSUME NEW q \in Providers
        PROVE  Held(q)
    <3>1. saved[q] = KeyOf(q)
      BY <1>3
    <3>2. row.cols[q] # Empty => KeyOf(q) = row.cols[q].of
      BY <1>2, <2>3, <2>4 DEF KeyOf
    <3>3. row.cols[q] = Empty /\ legacy[q] = Empty => KeyOf(q) = "none"
      BY DEF KeyOf
    <3>4. row.cols[q] = Empty /\ legacy[q] # Empty => KeyOf(q) = legacy[q].of
      BY <1>2, <2>4 DEF KeyOf, Readable, Opens, Passed
    <3> QED
      BY <3>1, <3>2, <3>3, <3>4 DEF Held
  <2> QED
    BY <2>6, <2>7
<1>5. Tidy("phone") => phone.of = number
  BY DEF KeyRotationInit
<1>6. LookupFinds
  BY DEF KeyRotationInit, LookupFinds
<1>7. OneWriter
  BY <1>1, TouchesAre DEF OneWriter
<1>8. \A t \in Tasks : call[t].op \in Calls /\ Saving(call[t]) /\ Rewriting(call[t])
  BY <1>1 DEF Calls, Saving, Rewriting, Programs
<1> QED
  BY <1>1, <1>4, <1>5, <1>6, <1>7, <1>8 DEF KeysInv

LEMMA KeysStep ==
    ASSUME KeysInv, [KeyRotationNext]_<<tasking, krVars>>
    PROVE  KeysInv'
<1>1. CASE AddKey
  BY <1>1, KeyAdded
<1>2. CASE RetireKey
  BY <1>2, KeyRetired
<1>3. CASE \E t \in Tasks : KeyRotationStep(t)
  <2> PICK t \in Tasks : KeyRotationStep(t)
    BY <1>3
  <2>1. CASE KeyCalls(t) \/ ProgramRuns(t)
    <3>1. /\ \A p, s : ~ BeginKr(t, "save_keys", "read", [p |-> p, is |-> s])
          /\ \A s : ~ BeginKr(t, "save_integration", "read", [is |-> s])
          /\ ~ BeginKr(t, "delete_keys", "delete", <<>>)
          /\ \A op \in Programs : ~ BeginKr(t, op, "phone", <<>>)
          => FALSE
      BY <2>1, Zenon DEF KeyCalls, ProgramRuns
    <3>2. /\ {"save_keys", "save_integration", "delete_keys"} \subseteq Calls \ {"none"}
          /\ {"save_keys", "save_integration", "delete_keys"} \cap Programs = {}
          /\ Programs \subseteq Calls \ {"none", "save_keys", "save_integration"}
      BY DEF Calls, Programs
    <3> QED
      BY <3>1, <3>2, CallBegins
  <2>2. CASE ReadKeys(t) \/ ReadIntegration(t) \/ ScanPhone(t) \/ ScanLegacy(t)
    BY <2>2, ReadSteps
  <2>3. CASE WriteKeys(t)
    BY <2>3, RowWritten
  <2>4. CASE DeleteKeyRow(t)
    BY <2>4, RowDeleted
  <2>5. CASE WriteIntegration(t)
    BY <2>5, IntegrationWritten
  <2>6. CASE WriteFingerprint(t) \/ BackfillFp(t)
    BY <2>6, FingerprintWritten
  <2>7. CASE WritePhone(t)
    BY <2>7, PhoneRewritten
  <2>8. CASE WriteLegacy(t)
    BY <2>8, LegacyRewritten
  <2>9. CASE DropKr(t)
    BY <2>9, KeyTaskDropped
  <2> QED
    BY <2>1, <2>2, <2>3, <2>4, <2>5, <2>6, <2>7, <2>8, <2>9 DEF KeyRotationStep
<1>4. CASE UNCHANGED <<tasking, krVars>>
  <2>1. UNCHANGED <<call, loaded, row, legacy, phone, fp, saved, number, krMessy, unindexed>>
    BY <1>4 DEF tasking, krVars, krTables
  <2>2. Shaped' /\ Rotating' /\ OneWriter'
    BY <2>1 DEF KeysInv, Shaped, Rotating, Sound, Readable, OneWriter
  <2>3. \A t \in Tasks : call'[t].op \in Calls /\ Saving(call[t])' /\ Rewriting(call[t])'
    BY <2>1 DEF KeysInv, Saving, Rewriting, KeysOf, Sound, Tidy
  <2>4. \A p \in Providers : Held(p)'
    BY <2>1 DEF KeysInv, Held, Tidy
  <2>5. (Tidy("phone") => phone.of = number)' /\ LookupFinds'
    BY <2>1 DEF KeysInv, LookupFinds, On, Tidy
  <2> QED
    BY <2>2, <2>3, <2>4, <2>5 DEF KeysInv
<1> QED
  BY <1>1, <1>2, <1>3, <1>4 DEF KeyRotationNext

\* The invariant says what the backend reads.
LEMMA KeysRight ==
    ASSUME KeysInv
    PROVE  SecretsSurvive
<1>0. Rotating
  BY DEF KeysInv
<1>1. KeysSurvive
  <2> SUFFICES ASSUME {"row", "legacy"} \cap krMessy = {}, NEW p \in Providers, saved[p] # "none"
               PROVE  KeyOf(p) = saved[p]
    BY DEF KeysSurvive
  <2>1. IF row.cols[p] # Empty THEN row.cols[p].of = saved[p]
        ELSE legacy[p] # Empty /\ legacy[p].of = saved[p]
    BY DEF KeysInv, Held, Tidy
  <2>2. CASE row.cols[p] # Empty
    BY <1>0, <2>1, <2>2 DEF Rotating, Sound, KeyOf
  <2>3. CASE row.cols[p] = Empty
    BY <1>0, <2>1, <2>3 DEF Rotating, Readable, KeyOf, Passed, Opens
  <2> QED
    BY <2>2, <2>3
<1>2. NumberSurvives
  BY <1>0 DEF KeysInv, NumberSurvives, Rotating, Readable, Passed, Opens, Tidy
<1> QED
  BY <1>1, <1>2 DEF KeysInv, SecretsSurvive

\* What users entered is what the programs read, before, during and after a
\* rotation, however many tasks, providers and key versions there are
\* (update_api_keys, decrypt, the migration and rotation programs).
THEOREM SecretsSurviveAlways == KeyRotationSpec => []SecretsSurvive
<1>1. KeyRotationInit /\ TasksInit(Budgets) => KeysInv
  BY KeysStart
<1>2. KeysInv /\ [KeyRotationNext]_<<tasking, krVars>> => KeysInv'
  BY KeysStep
<1>3. KeysInv => SecretsSurvive
  BY KeysRight
<1> QED
  BY <1>1, <1>2, <1>3, PTL DEF KeyRotationSpec

-----------------------------------------------------------------------------
(* Accounts: what their users and admins were told they do. *)

AccountsSpec == AccountsInit /\ TasksInit(Budgets) /\ [][AccountsNext]_<<tasking, acVars>>

UserRow == [is : {"none", "whole", "ghost"}, email : Emails \cup {"none"}, password : Passwords \cup {"none"},
        flags : Flags, blocked : BOOLEAN]

\* The rows, and that a registered user has a session.
AccountRows ==
    /\ users \in [Users -> UserRow] /\ sessions \subseteq Users /\ gone \subseteq Users
    /\ \A u \in Users : Registered(u) => u \in sessions /\ u \notin gone
    /\ second \in [Users -> [code : Nat, fresh : BOOLEAN, on : BOOLEAN]]
    /\ things \in [Users -> SUBSET {"assistant", "tools", "files"}]
    /\ reset_tokens \in [Tokens -> [of : Users, is : {"none", "valid", "expired", "deleted"}]]
    /\ attempts \in [Users -> 0 .. MaxAttempts] /\ guesses \in [Users -> Nat]
    /\ agreed = [u \in Users |-> agreed[u]] /\ wished \in [Users -> Flags]
    /\ uses \in [Tokens -> Nat]

\* Two accounts have an e-mail in common only when registrations overlapped.
EmailsHold ==
    /\ \A e : Orderly("email", e) => \A u, v \in WithEmail(e) : u = v
    /\ \A u \in Users : Registered(u) => users[u].password = agreed[u]

\* Who has no session has never asked for flags.
FlagsHold ==
    /\ FlagsKept
    /\ \A u \in Users \ sessions : wished[u] = AllOn

\* A token that has set a password is deleted, or is about to be.
TokenSpent(k) ==
    Orderly("token", k) /\ uses[k] # 0 =>
        /\ uses[k] = 1
        /\ \/ reset_tokens[k].is = "deleted"
           \/ \E t \in Tasks : On(t, "reset_password", "delete") /\ Arg(t).token = k

ThingsHold ==
    \A u \in Users : Orderly("things", u) =>
        /\ "tools" \in things[u] => "assistant" \in things[u]
        /\ u \in gone => things[u] \subseteq {"files"}

\* A code that had ended is not the code any more, nor fresh.
CodeEnded(c) ==
    LET code == second[c.arg.user] IN c.arg.code < code.code \/ (c.arg.code = code.code /\ ~code.fresh)

\* The calls, by what they write.
AcCalls ==
    {"none", "register", "create_user", "forgot_password", "reset_password", "change_password", "set_flags",
     "create_assistant", "delete_account", "delete_user", "verify_2fa", "update_profile", "enable_2fa", "block_user"}

Registering(c) ==
    c.op \in {"register", "create_user"} =>
        /\ c.at \in {"find", "insert"} /\ c.arg.email \in Emails /\ c.arg.password \in Passwords
        /\ c.at = "insert" /\ Orderly("email", c.arg.email) => WithEmail(c.arg.email) = {}

Resetting(c) ==
    /\ c.op = "forgot_password" =>
        /\ c.at \in {"find", "save"}
        /\ c.at = "save" => c.got \in Users
    /\ c.op = "reset_password" =>
        /\ c.at \in {"token", "clean", "write", "delete"} /\ c.arg.token \in Tokens
        /\ c.arg.user \in Users /\ c.arg.password \in Passwords
        /\ reset_tokens[c.arg.token].is # "none"
        /\ c.arg.late => reset_tokens[c.arg.token].is # "valid" /\ c.at \in {"token", "clean"}
        /\ c.at = "write" /\ Orderly("token", c.arg.token) => uses[c.arg.token] = 0

Flagging(c) ==
    /\ c.op = "set_flags" =>
        /\ c.at \in {"read", "write"} /\ c.arg.user \in sessions
        /\ c.arg.flag \in {"email", "system"} /\ c.arg.to \in BOOLEAN
        /\ c.at = "write" => c.got \in Flags
        /\ c.at = "write" /\ Registered(c.arg.user) /\ Orderly("flags", c.arg.user) =>
                c.got = users[c.arg.user].flags
    /\ c.op = "change_password" => c.arg.user \in sessions /\ c.arg.new \in Passwords

DeletingAccount(c) ==
    /\ c.op \in {"delete_account", "delete_user"} =>
        /\ c.at \in {"verify", "related", "assistants", "row"} /\ c.arg.user \in Users
        /\ Orderly("things", c.arg.user) =>
            /\ c.at = "assistants" => "tools" \notin things[c.arg.user]
            /\ c.at = "row" => things[c.arg.user] \subseteq {"files"}

Proving(c) ==
    /\ c.op = "verify_2fa" =>
        /\ c.at \in {"read", "enable"} /\ c.arg.user \in Users /\ c.arg.code \in Nat
        /\ c.arg = [user |-> c.arg.user, code |-> c.arg.code, old |-> c.arg.old, late |-> c.arg.late]
        /\ c.arg.late => c.at = "read" /\ CodeEnded(c)
    /\ c.op \in {"update_profile", "create_assistant", "enable_2fa", "block_user"} => c.arg.user \in Users
    /\ c.op = "block_user" => c.arg.to \in BOOLEAN

OnCourse(c) == c.op \in AcCalls /\ Registering(c) /\ Resetting(c) /\ Flagging(c) /\ DeletingAccount(c) /\ Proving(c)

\* Tasks that are still to compare a code counted in this window.
Guessing(u) == {t \in Tasks : On(t, "verify_2fa", "read") /\ Arg(t).user = u /\ ~ Arg(t).old}

GuessesCounted == \A u \in Users : guesses[u] + Cardinality(Guessing(u)) <= attempts[u]

\* Two tasks that write the same thing tangle it.
Unshared == \A t, o \in Tasks : t # o => AcWrites(call[t]) \cap AcWrites(call[o]) \subseteq tangled

AccountsInv ==
    /\ Shaped /\ AccountRows /\ EmailsHold /\ FlagsHold /\ ThingsHold /\ GuessesCounted /\ Unshared /\ misused = FALSE
    /\ \A k \in Tokens : TokenSpent(k)
    /\ \A t \in Tasks : OnCourse(call[t])

USE AccountsAssumption

LEMMA WritesAbout ==
    ASSUME NEW c
    PROVE  /\ c.op \in {"register", "create_user"} => AcWrites(c) = {<<"email", c.arg.email>>}
           /\ c.op = "change_password" => AcWrites(c) = {<<"password", c.arg.user>>}
           /\ c.op = "reset_password" => AcWrites(c) = {<<"token", c.arg.token>>, <<"password", c.arg.user>>}
           /\ c.op = "set_flags" => AcWrites(c) = {<<"flags", c.arg.user>>}
           /\ c.op \in {"create_assistant", "delete_account", "delete_user"} => AcWrites(c) = {<<"things", c.arg.user>>}
           /\ c.op \in {"none", "forgot_password", "verify_2fa", "update_profile", "enable_2fa", "block_user"}
                => AcWrites(c) = {}
<1>1. CASE c.op \in {"register", "create_user"}
  BY <1>1 DEF AcWrites
<1>2. CASE c.op \in {"change_password", "set_flags", "create_assistant"}
  BY <1>2 DEF AcWrites
<1>3. CASE c.op = "reset_password"
  BY <1>3 DEF AcWrites
<1>4. CASE c.op \in {"delete_account", "delete_user"}
  BY <1>4 DEF AcWrites
<1>5. CASE c.op \in {"none", "forgot_password", "verify_2fa", "update_profile", "enable_2fa", "block_user"}
  BY <1>5 DEF AcWrites
<1> QED
  BY <1>1, <1>2, <1>3, <1>4, <1>5

\* A call goes on, with what it was called with, or ends.
GoesOn(t) ==
    /\ Shaped' /\ Only(t) /\ call'[t].op \in {"none", call[t].op}
    /\ call'[t].op # "none" => call'[t].arg = call[t].arg
    /\ tangled \subseteq tangled' /\ sessions \subseteq sessions'

\* What a step does to whatever is not in W.
LeavesBe(W) ==
    /\ \A e : <<"email", e>> \notin W => WithEmail(e)' \subseteq WithEmail(e)
    /\ \A u \in Users : /\ Registered(u)' => Registered(u) \/ u \notin sessions
                        /\ <<"flags", u>> \notin W /\ Registered(u) /\ Registered(u)'
                                => users'[u].flags = users[u].flags
                        /\ <<"things", u>> \notin W => things'[u] = things[u]
                        /\ second'[u].code >= second[u].code
                        /\ second'[u].code = second[u].code /\ ~ second[u].fresh => ~ second'[u].fresh
    /\ \A k \in Tokens : /\ <<"token", k>> \notin W => uses'[k] = uses[k]
                         /\ reset_tokens[k].is # "none" => reset_tokens'[k].is # "none"
                         /\ reset_tokens[k].is \in {"expired", "deleted"}
                                => reset_tokens'[k].is \in {"expired", "deleted"}

\* The other calls find what they write as they left it.
LEMMA OthersOnCourse ==
    ASSUME AccountsInv, AccountRows', NEW W, LeavesBe(W),
           tangled \subseteq tangled', sessions \subseteq sessions',
           NEW o \in Tasks, OnCourse(call[o]), call'[o] = call[o],
           W \cap AcWrites(call[o]) \subseteq tangled'
    PROVE  OnCourse(call[o])'
<1> DEFINE c == call[o]
<1>0. \A what, of : Orderly(what, of)' => Orderly(what, of) /\ <<what, of>> \notin W \cap AcWrites(c)
  BY DEF Orderly
<1>1. Registering(call[o])'
  <2> SUFFICES ASSUME c.op \in {"register", "create_user"}, c.at = "insert", Orderly("email", c.arg.email)'
               PROVE  WithEmail(c.arg.email)' = {}
    BY DEF Registering, OnCourse, WithEmail, Registered, Orderly
  <2>1. <<"email", c.arg.email>> \notin W
    BY <1>0, WritesAbout
  <2>2. WithEmail(c.arg.email) = {}
    BY <1>0 DEF OnCourse, Registering
  <2> QED
    BY <2>1, <2>2 DEF LeavesBe
<1>2. Resetting(call[o])'
  <2>1. CASE c.op = "reset_password"
    <3> DEFINE k == c.arg.token
    <3>1. k \in Tokens /\ <<"token", k>> \in AcWrites(c)
      BY <2>1, WritesAbout DEF OnCourse, Resetting
    <3>2. Orderly("token", k)' => uses'[k] = uses[k] /\ Orderly("token", k)
      BY <1>0, <3>1 DEF LeavesBe
    <3>3. /\ reset_tokens[k].is # "none" => reset_tokens'[k].is # "none"
          /\ reset_tokens[k].is \in {"expired", "deleted"} => reset_tokens'[k].is \in {"expired", "deleted"}
          /\ reset_tokens[k].is \in {"none", "valid", "expired", "deleted"}
      BY <3>1 DEF LeavesBe, AccountsInv, AccountRows
    <3> HIDE DEF k
    <3>4. /\ c.at \in {"token", "clean", "write", "delete"} /\ k \in Tokens
          /\ c.arg.user \in Users /\ c.arg.password \in Passwords
          /\ reset_tokens[k].is # "none"
          /\ c.arg.late => reset_tokens[k].is # "valid" /\ c.at \in {"token", "clean"}
          /\ c.at = "write" /\ Orderly("token", k) => uses[k] = 0
      BY <2>1 DEF OnCourse, Resetting, k
    <3>5. /\ reset_tokens'[k].is # "none"
          /\ c.arg.late => reset_tokens'[k].is # "valid" /\ c.at \in {"token", "clean"}
          /\ c.at = "write" /\ Orderly("token", k)' => uses'[k] = 0
      BY <3>2, <3>3, <3>4
    <3>6. call'[o].op # "forgot_password"
      BY <2>1
    <3> QED
      BY <3>4, <3>5, <3>6 DEF Resetting, k
  <2>2. CASE c.op # "reset_password"
    BY <2>2 DEF OnCourse, Resetting
  <2> QED
    BY <2>1, <2>2
<1>3. Flagging(call[o])'
  <2>1. CASE c.op = "set_flags"
    <3>1. c.arg.user \in sessions /\ c.arg.user \in Users /\ <<"flags", c.arg.user>> \in AcWrites(c)
      BY <2>1, WritesAbout DEF OnCourse, Flagging, AccountsInv, AccountRows
    <3>2. Orderly("flags", c.arg.user)' /\ Registered(c.arg.user)' =>
            /\ users'[c.arg.user].flags = users[c.arg.user].flags
            /\ Registered(c.arg.user) /\ Orderly("flags", c.arg.user)
      BY <1>0, <3>1 DEF LeavesBe
    <3> QED
      BY <2>1, <3>1, <3>2 DEF OnCourse, Flagging
  <2>2. CASE c.op # "set_flags"
    BY <2>2 DEF OnCourse, Flagging
  <2> QED
    BY <2>1, <2>2
<1>4. DeletingAccount(call[o])'
  <2>1. CASE c.op \in {"delete_account", "delete_user"}
    <3>1. c.arg.user \in Users /\ <<"things", c.arg.user>> \in AcWrites(c)
      BY <2>1, WritesAbout DEF OnCourse, DeletingAccount
    <3>2. Orderly("things", c.arg.user)' => things'[c.arg.user] = things[c.arg.user] /\ Orderly("things", c.arg.user)
      BY <1>0, <3>1 DEF LeavesBe
    <3> QED
      BY <2>1, <3>1, <3>2 DEF OnCourse, DeletingAccount
  <2>2. CASE c.op \notin {"delete_account", "delete_user"}
    BY <2>2 DEF OnCourse, DeletingAccount
  <2> QED
    BY <2>1, <2>2
<1>5. Proving(call[o])'
  <2>1. CASE c.op = "verify_2fa" /\ c.arg.late
    <3> DEFINE u == c.arg.user
    <3>1. /\ u \in Users /\ c.arg.code \in Nat /\ CodeEnded(c)
          /\ second[u].code \in Nat /\ second'[u].code \in Nat
      BY <2>1 DEF OnCourse, Proving, AccountsInv, AccountRows
    <3>2. /\ second'[u].code >= second[u].code
          /\ second'[u].code = second[u].code /\ ~ second[u].fresh => ~ second'[u].fresh
      BY <3>1 DEF LeavesBe
    <3>3. CodeEnded(c)'
      BY <3>1, <3>2 DEF CodeEnded
    <3> QED
      BY <2>1, <3>3 DEF OnCourse, Proving, CodeEnded
  <2>2. CASE ~ (c.op = "verify_2fa" /\ c.arg.late)
    BY <2>2 DEF OnCourse, Proving
  <2> QED
    BY <2>1, <2>2
<1> QED
  BY <1>1, <1>2, <1>3, <1>4, <1>5 DEF OnCourse

LEMMA UnsharedOn ==
    ASSUME AccountsInv, NEW t \in Tasks, GoesOn(t)
    PROVE  /\ Unshared'
           /\ \A o \in Tasks \ {t} : AcWrites(call[t]) \cap AcWrites(call[o]) \subseteq tangled'
<1>1. \A o \in Tasks \ {t} : call'[o] = call[o]
  BY DEF GoesOn, Only
<1>2. AcWrites(call'[t]) \subseteq AcWrites(call[t])
  <2>1. CASE call'[t].op = "none"
    BY <2>1, WritesAbout
  <2>2. CASE call'[t].op = call[t].op /\ call'[t].arg = call[t].arg
    BY <2>2 DEF AcWrites
  <2> QED
    BY <2>1, <2>2 DEF GoesOn
<1>3. tangled \subseteq tangled' /\ Unshared
  BY DEF GoesOn, AccountsInv
<1>4. \A v, o \in Tasks : v # o => AcWrites(call[v]) \cap AcWrites(call[o]) \subseteq tangled'
  BY <1>3 DEF Unshared
<1>5. \A v, o \in Tasks : v # o => AcWrites(call'[v]) \cap AcWrites(call'[o]) \subseteq tangled'
  <2> TAKE v, o \in Tasks
  <2>1. AcWrites(call'[v]) \subseteq AcWrites(call[v]) /\ AcWrites(call'[o]) \subseteq AcWrites(call[o])
    BY <1>1, <1>2
  <2> QED
    BY <1>4, <2>1
<1> QED
  BY <1>4, <1>5 DEF Unshared, AcWrites

\* What a step has to show.
LEMMA AccountsOn ==
    ASSUME AccountsInv, NEW t \in Tasks, GoesOn(t), LeavesBe(AcWrites(call[t])),
           AccountRows', EmailsHold', FlagsHold', ThingsHold',
           GuessesCounted', misused' = FALSE, \A k \in Tokens : TokenSpent(k)',
           call'[t].op # "none" => OnCourse(call[t])'
    PROVE  AccountsInv'
<1>1. OnCourse(call[t])'
  <2>1. CASE call'[t].op = "none"
    BY <2>1 DEF OnCourse, AcCalls, Registering, Resetting, Flagging, DeletingAccount, Proving
  <2> QED
    BY <2>1
<1>2. \A o \in Tasks \ {t} : OnCourse(call[o])'
  <2> TAKE o \in Tasks \ {t}
  <2>1. OnCourse(call[o]) /\ call'[o] = call[o] /\ AcWrites(call[t]) \cap AcWrites(call[o]) \subseteq tangled'
    BY UnsharedOn DEF AccountsInv, GoesOn, Only
  <2> QED
    BY <2>1, OthersOnCourse DEF GoesOn
<1>3. \A o \in Tasks : OnCourse(call[o])'
  BY <1>1, <1>2
<1> QED
  BY <1>3, UnsharedOn DEF AccountsInv, GoesOn

-----------------------------------------------------------------------------
\* What each part of the invariant asks of a step.
LEMMA EmailsOn ==
    ASSUME AccountsInv, tangled \subseteq tangled',
           \A e : WithEmail(e)' \subseteq WithEmail(e),
           \A u \in Users : Registered(u)' => users'[u].password = agreed'[u]
    PROVE  EmailsHold'
<1>1. \A e : Orderly("email", e)' => \A u, v \in WithEmail(e)' : u = v
  BY DEF AccountsInv, EmailsHold, Orderly
<1> QED
  BY <1>1 DEF EmailsHold

LEMMA FlagsOn ==
    ASSUME AccountsInv, tangled \subseteq tangled', sessions \subseteq sessions', wished' = wished,
           \A u \in Users : Registered(u)' => Registered(u) /\ users'[u].flags = users[u].flags
    PROVE  FlagsHold'
<1>1. \A u \in Users : Registered(u)' /\ Orderly("flags", u)' => users'[u].flags = wished'[u]
  BY DEF AccountsInv, FlagsHold, FlagsKept, Orderly
<1> QED
  BY <1>1 DEF FlagsHold, FlagsKept, AccountsInv

LEMMA ThingsOn ==
    ASSUME AccountsInv, tangled \subseteq tangled', things' = things, gone' = gone
    PROVE  ThingsHold'
  BY DEF AccountsInv, ThingsHold, Orderly

LEMMA TokensOn ==
    ASSUME AccountsInv, NEW t \in Tasks, GoesOn(t), UNCHANGED <<uses, reset_tokens>>,
           On(t, "reset_password", "delete") => <<"token", Arg(t).token>> \in tangled'
    PROVE  \A k \in Tokens : TokenSpent(k)'
<1> SUFFICES ASSUME NEW k \in Tokens, Orderly("token", k)', uses'[k] # 0
             PROVE  /\ uses'[k] = 1
                    /\ \/ reset_tokens'[k].is = "deleted"
                       \/ \E o \in Tasks : On(o, "reset_password", "delete")' /\ Arg(o)'.token = k
  BY DEF TokenSpent
<1>1. /\ uses[k] = 1
      /\ \/ reset_tokens[k].is = "deleted"
         \/ \E o \in Tasks : On(o, "reset_password", "delete") /\ Arg(o).token = k
  BY DEF AccountsInv, TokenSpent, Orderly, GoesOn
<1>2. ASSUME NEW o \in Tasks, On(o, "reset_password", "delete"), Arg(o).token = k
      PROVE  On(o, "reset_password", "delete")' /\ Arg(o)'.token = k
  <2>1. o # t
    BY <1>2 DEF Orderly
  <2> QED
    BY <1>2, <2>1 DEF GoesOn, Only, On, Arg
<1> QED
  BY <1>1, <1>2

LEMMA TasksFinite == IsFiniteSet(Tasks)
  BY FS_Interval DEF Tasks

LEMMA GuessesOn ==
    ASSUME AccountsInv, NEW t \in Tasks, GoesOn(t), UNCHANGED <<attempts, guesses>>,
           call'[t].op # "none" => call'[t].op # "verify_2fa" \/ call'[t].at # "read"
    PROVE  GuessesCounted'
<1> SUFFICES ASSUME NEW u \in Users
             PROVE  guesses[u] + Cardinality(Guessing(u)') <= attempts[u]
  BY DEF GuessesCounted
<1>1. Guessing(u)' \subseteq Guessing(u)
  BY DEF GoesOn, Only, Guessing, On, Arg
<1>2. IsFiniteSet(Guessing(u))
  BY TasksFinite, FS_Subset DEF Guessing
<1>3. /\ Cardinality(Guessing(u)') \in Nat /\ Cardinality(Guessing(u)) \in Nat
      /\ Cardinality(Guessing(u)') <= Cardinality(Guessing(u))
  BY <1>1, <1>2, FS_Subset, FS_CardinalityType
<1>4. guesses[u] + Cardinality(Guessing(u)) <= attempts[u] /\ guesses[u] \in Nat /\ attempts[u] \in Nat
  BY DEF AccountsInv, GuessesCounted, AccountRows
<1> QED
  BY <1>3, <1>4

\* A step that reads, or ends a call, leaves everything as it was.
LEMMA AccountsRead ==
    ASSUME AccountsInv, NEW t \in Tasks, GoesOn(t), UNCHANGED acTables,
           UNCHANGED <<agreed, wished, gone, uses, guesses, misused>>,
           On(t, "reset_password", "delete") => <<"token", Arg(t).token>> \in tangled',
           call'[t].op # "none" => OnCourse(call[t])' /\ (call'[t].op # "verify_2fa" \/ call'[t].at # "read")
    PROVE  AccountsInv'
<1>1. UNCHANGED <<users, second, things, reset_tokens, attempts, sessions>>
  BY DEF acTables
<1>2. tangled \subseteq tangled'
  BY DEF GoesOn
<1>3. LeavesBe(AcWrites(call[t]))
  BY <1>1 DEF LeavesBe, WithEmail, Registered, AccountsInv, AccountRows
<1>4. AccountRows'
  BY <1>1 DEF AccountsInv, AccountRows, Registered
<1>5. EmailsHold'
  BY <1>1, <1>2, EmailsOn DEF WithEmail, Registered, AccountsInv, EmailsHold
<1>6. FlagsHold'
  BY <1>1, <1>2, FlagsOn DEF Registered
<1>7. ThingsHold' /\ (\A k \in Tokens : TokenSpent(k)') /\ GuessesCounted'
  BY <1>1, <1>2, ThingsOn, TokensOn, GuessesOn
<1>8. misused' = FALSE
  BY DEF AccountsInv, AccountRows
<1> QED
  BY <1>3, <1>4, <1>5, <1>6, <1>7, <1>8, AccountsOn

-----------------------------------------------------------------------------
\* Where the task that takes a step is afterwards.
LEMMA Walks ==
    ASSUME AccountsInv, NEW t \in Tasks, NEW at, tangled \subseteq tangled', sessions \subseteq sessions',
           Goto(t, at) \/ call' = [call EXCEPT ![t].at = at]
    PROVE  /\ GoesOn(t) /\ call'[t].op = call[t].op /\ call'[t].at = at
           /\ call'[t].arg = call[t].arg /\ call'[t].got = call[t].got
<1>1. Shaped /\ call' = [call EXCEPT ![t].at = at]
  BY DEF AccountsInv, Goto
<1>2. call'[t] = [op |-> call[t].op, at |-> at, arg |-> call[t].arg, got |-> call[t].got] /\ Only(t) /\ Shaped'
  BY <1>1 DEF Shaped, Only
<1> QED
  BY <1>2 DEF GoesOn

LEMMA Gets ==
    ASSUME AccountsInv, NEW t \in Tasks, NEW at, NEW got, tangled \subseteq tangled', sessions \subseteq sessions',
           Learn(t, at, got) \/ call' = [call EXCEPT ![t].at = at, ![t].got = got]
    PROVE  /\ GoesOn(t) /\ call'[t].op = call[t].op /\ call'[t].at = at
           /\ call'[t].arg = call[t].arg /\ call'[t].got = got
<1>1. Shaped /\ call' = [call EXCEPT ![t].at = at, ![t].got = got]
  BY DEF AccountsInv, Learn
<1>2. call'[t] = [op |-> call[t].op, at |-> at, arg |-> call[t].arg, got |-> got]
  <2>1. call'[t] = [[call[t] EXCEPT !.at = at] EXCEPT !.got = got]
    BY <1>1 DEF Shaped
  <2>2. [call[t] EXCEPT !.at = at] = [op |-> call[t].op, at |-> at, arg |-> call[t].arg, got |-> call[t].got]
    BY <1>1 DEF Shaped
  <2> QED
    BY <2>1, <2>2
<1>3. Only(t) /\ Shaped'
  BY <1>1, <1>2 DEF Shaped, Only
<1> QED
  BY <1>2, <1>3 DEF GoesOn

LEMMA CallOver ==
    ASSUME AccountsInv, NEW t \in Tasks, tangled \subseteq tangled', sessions \subseteq sessions',
           Leave(t)
    PROVE  GoesOn(t) /\ call'[t].op = "none"
<1>1. Shaped
  BY DEF AccountsInv
<1>2. call'[t] = NoCall /\ Only(t) /\ Shaped'
  BY <1>1 DEF Leave, Shaped, Only, NoCall
<1> QED
  BY <1>2 DEF GoesOn, NoCall

\* The calls that are refused, and those that are dropped.
LEMMA Refused ==
    ASSUME AccountsInv, NEW t \in Tasks, UNCHANGED acVars, Finish(t), ~ On(t, "reset_password", "delete")
    PROVE  AccountsInv'
<1>1. UNCHANGED <<acTables, agreed, wished, gone, uses, guesses, misused, tangled>> /\ sessions' = sessions
  BY DEF acVars, acHistory, acTables
<1>2. GoesOn(t) /\ call'[t].op = "none"
  BY <1>1, CallOver DEF Finish
<1> QED
  BY <1>1, <1>2, AccountsRead

LEMMA AccountTaskDropped ==
    ASSUME AccountsInv, NEW t \in Tasks, DropAc(t)
    PROVE  AccountsInv'
<1>1. /\ UNCHANGED <<acTables, agreed, wished, gone, uses, guesses, misused>> /\ sessions' = sessions
      /\ tangled \subseteq tangled'
  BY DEF DropAc, acTables
<1>2. GoesOn(t) /\ call'[t].op = "none"
  BY <1>1, CallOver DEF DropAc, Drop
<1>3. On(t, "reset_password", "delete") => <<"token", Arg(t).token>> \in tangled'
  BY WritesAbout DEF DropAc, On, Arg
<1> QED
  BY <1>1, <1>2, <1>3, AccountsRead

\* The steps that read before a call goes on.
LEMMA AccountReads ==
    ASSUME AccountsInv, NEW t \in Tasks,
           \/ FindEmail(t) \/ VerifyPassword(t) \/ FindForgotten(t) \/ ReadToken(t) \/ CheckUser(t) \/ VerifyDelete(t)
    PROVE  AccountsInv'
<1>0. UNCHANGED acVars /\ Shaped /\ OnCourse(call[t]) /\ AccountRows
  BY DEF FindEmail, VerifyPassword, FindForgotten, ReadToken, CheckUser, VerifyDelete, AccountsInv
<1>1. /\ UNCHANGED <<acTables, agreed, wished, gone, uses, guesses, misused, tangled, sessions>>
      /\ UNCHANGED <<users, second, things, reset_tokens>>
  BY <1>0 DEF acVars, acHistory, acTables
<1>2. ~ On(t, "reset_password", "delete")
  BY DEF FindEmail, VerifyPassword, FindForgotten, ReadToken, CheckUser, VerifyDelete, On
<1>3. CASE Finish(t)
  BY <1>0, <1>2, <1>3, Refused
<1>4. SUFFICES ASSUME GoesOn(t), call'[t].op = call[t].op, ~ Finish(t)
               PROVE  OnCourse(call[t])' /\ call'[t].op # "verify_2fa"
  <2>1. ~ Finish(t) => GoesOn(t) /\ call'[t].op = call[t].op
    BY <1>1, Walks, Gets
       DEF FindEmail, VerifyPassword, FindForgotten, ReadToken, CheckUser, VerifyDelete
  <2> QED
    BY <1>1, <1>2, <1>3, <2>1, AccountsRead
<1>5. CASE FindEmail(t)
  <2>1. /\ call'[t].op = call[t].op /\ call'[t].at = "insert" /\ call'[t].arg = call[t].arg
        /\ call[t].op \in {"register", "create_user"} /\ WithEmail(call[t].arg.email) = {}
    BY <1>1, <1>4, <1>5, Walks DEF FindEmail, On, Arg
  <2>2. Registering(call[t])'
    BY <1>0, <1>1, <2>1 DEF OnCourse, Registering, WithEmail, Registered, Orderly
  <2> QED
    BY <2>1, <2>2 DEF OnCourse, AcCalls, Resetting, Flagging, DeletingAccount, Proving
<1>6. CASE VerifyPassword(t)
  <2>1. call'[t].op = "change_password" /\ call'[t].arg = call[t].arg /\ call[t].op = "change_password"
    BY <1>1, <1>4, <1>6, Walks DEF VerifyPassword, On
  <2> QED
    BY <1>0, <1>1, <2>1 DEF OnCourse, AcCalls, Registering, Resetting, Flagging, DeletingAccount, Proving
<1>7. CASE FindForgotten(t)
  <2>1. PICK u \in Users : Learn(t, "save", u)
    BY <1>4, <1>7 DEF FindForgotten, WithEmail
  <2>2. call'[t].op = "forgot_password" /\ call'[t].at = "save" /\ call'[t].got = u
    BY <1>1, <1>7, <2>1, Gets DEF FindForgotten, On
  <2> QED
    BY <2>2 DEF OnCourse, AcCalls, Registering, Resetting, Flagging, DeletingAccount, Proving
<1>8. CASE ReadToken(t)
  <2> DEFINE k == call[t].arg.token
  <2>1. call[t].op = "reset_password" /\ call[t].at = "token"
    BY <1>8 DEF ReadToken, On
  <2>2. \/ reset_tokens[k].is = "expired" /\ Goto(t, "clean")
        \/ reset_tokens[k].is = "valid" /\ Goto(t, "write")
    BY <1>4, <1>8 DEF ReadToken, Arg
  <2>3. PICK at \in {"clean", "write"} : /\ Goto(t, at) /\ (at = "write" => reset_tokens[k].is = "valid")
    BY <2>2
  <2>4. /\ call'[t].op = "reset_password" /\ call'[t].at = at /\ call'[t].arg = call[t].arg
    BY <1>1, <2>1, <2>3, Walks
  <2>5. at = "write" /\ Orderly("token", k) => uses[k] = 0
    <3> SUFFICES ASSUME reset_tokens[k].is = "valid", Orderly("token", k), uses[k] # 0 PROVE FALSE
      BY <2>3
    <3>1. k \in Tokens /\ TokenSpent(k) /\ <<"token", k>> \in AcWrites(call[t])
      BY <1>0, <2>1, WritesAbout DEF OnCourse, Resetting, AccountsInv
    <3>2. PICK o \in Tasks : On(o, "reset_password", "delete") /\ Arg(o).token = k
      BY <3>1 DEF TokenSpent
    <3>3. o # t /\ <<"token", k>> \in AcWrites(call[o])
      BY <2>1, <3>2, WritesAbout DEF On, Arg
    <3> QED
      BY <3>1, <3>3 DEF AccountsInv, Unshared, Orderly
  <2>6. Resetting(call[t])'
    BY <1>0, <1>1, <2>1, <2>3, <2>4, <2>5 DEF OnCourse, Resetting, Orderly
  <2> QED
    BY <2>4, <2>6 DEF OnCourse, AcCalls, Registering, Flagging, DeletingAccount, Proving
<1>9. CASE CheckUser(t)
  <2>1. call'[t].op = "block_user" /\ call'[t].arg = call[t].arg /\ call[t].op = "block_user"
    BY <1>1, <1>4, <1>9, Walks DEF CheckUser, On
  <2> QED
    BY <1>0, <1>1, <2>1 DEF OnCourse, AcCalls, Registering, Resetting, Flagging, DeletingAccount, Proving
<1>10. CASE VerifyDelete(t)
  <2>1. /\ call'[t].op = call[t].op /\ call'[t].at = "related" /\ call'[t].arg = call[t].arg
        /\ call[t].op \in {"delete_account", "delete_user"}
    BY <1>1, <1>4, <1>10, Walks DEF VerifyDelete, On
  <2> QED
    BY <1>0, <1>1, <2>1 DEF OnCourse, AcCalls, Registering, Resetting, Flagging, DeletingAccount, Proving
<1> QED
  BY <1>5, <1>6, <1>7, <1>8, <1>9, <1>10

-----------------------------------------------------------------------------
\* A row with one column changed.
LEMMA RowsChange ==
    ASSUME NEW r \in UserRow
    PROVE  /\ [r EXCEPT !.is = "ghost"] \in UserRow /\ [r EXCEPT !.is = "ghost"].is = "ghost"
           /\ \A p \in Passwords : [r EXCEPT !.password = p] =
                [is |-> r.is, email |-> r.email, password |-> p, flags |-> r.flags, blocked |-> r.blocked]
           /\ \A f \in Flags : [r EXCEPT !.flags = f] =
                [is |-> r.is, email |-> r.email, password |-> r.password, flags |-> f, blocked |-> r.blocked]
           /\ \A b \in BOOLEAN : [r EXCEPT !.blocked = b] =
                [is |-> r.is, email |-> r.email, password |-> r.password, flags |-> r.flags, blocked |-> b]
<1>1. r = [is |-> r.is, email |-> r.email, password |-> r.password, flags |-> r.flags, blocked |-> r.blocked]
  BY DEF UserRow
<1>2. [r EXCEPT !.is = "ghost"] =
        [is |-> "ghost", email |-> r.email, password |-> r.password, flags |-> r.flags, blocked |-> r.blocked]
  BY <1>1
<1>3. /\ r.email \in Emails \cup {"none"} /\ r.password \in Passwords \cup {"none"}
      /\ r.flags \in Flags /\ r.blocked \in BOOLEAN
  BY DEF UserRow
<1>4. [r EXCEPT !.is = "ghost"] \in UserRow
  BY <1>2, <1>3 DEF UserRow
<1>5. \A p : [r EXCEPT !.password = p] =
                [is |-> r.is, email |-> r.email, password |-> p, flags |-> r.flags, blocked |-> r.blocked]
  BY <1>1
<1>6. \A f : [r EXCEPT !.flags = f] =
                [is |-> r.is, email |-> r.email, password |-> r.password, flags |-> f, blocked |-> r.blocked]
  BY <1>1
<1>7. \A b : [r EXCEPT !.blocked = b] =
                [is |-> r.is, email |-> r.email, password |-> r.password, flags |-> r.flags, blocked |-> b]
  BY <1>1
<1> QED
  BY <1>2, <1>4, <1>5, <1>6, <1>7

LEMMA RowsFit ==
    ASSUME NEW r \in UserRow, NEW p \in Passwords \cup {"none"}, NEW f \in Flags, NEW b \in BOOLEAN
    PROVE  [is |-> r.is, email |-> r.email, password |-> p, flags |-> f, blocked |-> b] \in UserRow
<1>1. r.is \in {"none", "whole", "ghost"} /\ r.email \in Emails \cup {"none"}
  BY DEF UserRow
<1> QED
  BY <1>1 DEF UserRow

\* An UPDATE registers nobody, and leaves the e-mails and the other users.
LEMMA Upserted ==
    ASSUME AccountRows, NEW u \in Users, NEW cols, Upsert(u, cols),
           Registered(u) => cols \in UserRow /\ cols.is = "whole" /\ cols.email = users[u].email
    PROVE  /\ users' \in [Users -> UserRow]
           /\ \A v \in Users : (Registered(v)' <=> Registered(v)) /\ (v # u => users'[v] = users[v])
           /\ Registered(u) => users'[u] = cols
           /\ \A e : WithEmail(e)' = WithEmail(e)
<1>1. \A v \in Users : users'[v] = IF v # u THEN users[v]
                                   ELSE IF users[u].is = "whole" THEN cols ELSE [users[u] EXCEPT !.is = "ghost"]
  BY DEF Upsert, AccountRows
<1>2. users[u] \in UserRow /\ [users[u] EXCEPT !.is = "ghost"] \in UserRow /\ [users[u] EXCEPT !.is = "ghost"].is = "ghost"
  BY RowsChange DEF AccountRows
<1>3. users' \in [Users -> UserRow]
  <2>1. DOMAIN users' = Users /\ users' = [v \in Users |-> users'[v]]
    BY DEF Upsert, AccountRows
  <2>2. \A v \in Users : users'[v] \in UserRow
    BY <1>1, <1>2 DEF AccountRows, Registered
  <2> QED
    BY <2>1, <2>2
<1>4. \A v \in Users : /\ (Registered(v)' <=> Registered(v)) /\ (v # u => users'[v] = users[v])
                       /\ Registered(v) => users'[v].email = users[v].email
  BY <1>1, <1>2 DEF Registered
<1>5. \A e : WithEmail(e)' = WithEmail(e)
  BY <1>4 DEF WithEmail
<1> QED
  BY <1>1, <1>3, <1>4, <1>5 DEF Registered

\* The steps that write a row of users: what they have to show.
WritesRow(t, u, cols) ==
    /\ GoesOn(t) /\ Upsert(u, cols)
    /\ Registered(u) => cols \in UserRow /\ cols.is = "whole" /\ cols.email = users[u].email
    /\ UNCHANGED <<things, reset_tokens, attempts, sessions, gone, guesses>>
    /\ second' \in [Users -> [code : Nat, fresh : BOOLEAN, on : BOOLEAN]]
    /\ \A v \in Users : /\ second'[v].code >= second[v].code
                        /\ second'[v].code = second[v].code /\ ~ second[v].fresh => ~ second'[v].fresh
    /\ agreed' = [v \in Users |-> agreed'[v]] /\ wished' \in [Users -> Flags] /\ uses' \in [Tokens -> Nat]
    /\ \A v \in Users : v # u => agreed'[v] = agreed[v] /\ wished'[v] = wished[v]
    /\ Registered(u) => cols.password = agreed'[u]
    /\ Registered(u) => \/ wished'[u] = wished[u] /\ cols.flags = users[u].flags
                        \/ /\ <<"flags", u>> \in AcWrites(call[t])
                           /\ <<"flags", u>> \notin tangled' => cols.flags = wished'[u]
    /\ u \notin sessions => wished'[u] = wished[u]
    /\ \A k \in Tokens : <<"token", k>> \notin AcWrites(call[t]) => uses'[k] = uses[k]
    /\ misused' = FALSE
    /\ call'[t].op # "none" => call'[t].op # "verify_2fa" \/ call'[t].at # "read"

LEMMA UsersOn ==
    ASSUME AccountsInv, NEW t \in Tasks, NEW u \in Users, NEW cols, WritesRow(t, u, cols),
           \A k \in Tokens : TokenSpent(k)', call'[t].op # "none" => OnCourse(call[t])'
    PROVE  AccountsInv'
<1> USE DEF WritesRow
<1>0. AccountRows /\ tangled \subseteq tangled'
  BY DEF AccountsInv, GoesOn
<1>1. /\ users' \in [Users -> UserRow]
      /\ \A v \in Users : (Registered(v)' <=> Registered(v)) /\ (v # u => users'[v] = users[v])
      /\ Registered(u) => users'[u] = cols
      /\ \A e : WithEmail(e)' = WithEmail(e)
  BY <1>0, Upserted
<1>2. LeavesBe(AcWrites(call[t]))
  <2>1. \A v \in Users : <<"flags", v>> \notin AcWrites(call[t]) /\ Registered(v) => users'[v].flags = users[v].flags
    BY <1>1
  <2>2. \A k \in Tokens : reset_tokens'[k] = reset_tokens[k]
    OBVIOUS
  <2>3. \A v \in Users : things'[v] = things[v] /\ (Registered(v)' => Registered(v))
    BY <1>1
  <2> QED
    <3>1. \A e : WithEmail(e)' \subseteq WithEmail(e)
      BY <1>1
    <3>2. \A k \in Tokens : <<"token", k>> \notin AcWrites(call[t]) => uses'[k] = uses[k]
      OBVIOUS
    <3>3. \A v \in Users : /\ second'[v].code >= second[v].code
                           /\ second'[v].code = second[v].code /\ ~ second[v].fresh => ~ second'[v].fresh
      BY Zenon DEF WritesRow
    <3> QED
      BY <2>1, <2>2, <2>3, <3>1, <3>2, <3>3 DEF LeavesBe
<1>3. AccountRows'
  BY <1>0, <1>1 DEF AccountRows
<1>4. EmailsHold'
  <2>1. \A v \in Users : Registered(v)' => users'[v].password = agreed'[v]
    BY <1>1 DEF AccountsInv, EmailsHold
  <2> QED
    BY <1>0, <1>1, <2>1, EmailsOn
<1>5. FlagsHold'
  <2>1. \A v \in Users : Registered(v)' /\ Orderly("flags", v)' => users'[v].flags = wished'[v]
    BY <1>0, <1>1 DEF AccountsInv, FlagsHold, FlagsKept, Orderly
  <2>2. \A v \in Users \ sessions : wished'[v] = AllOn
    BY DEF AccountsInv, FlagsHold
  <2> QED
    BY <2>1, <2>2 DEF FlagsHold, FlagsKept
<1>6. ThingsHold' /\ GuessesCounted'
  BY <1>0, ThingsOn, GuessesOn
<1> QED
  BY <1>2, <1>3, <1>4, <1>5, <1>6, AccountsOn

LEMMA PasswordChanged ==
    ASSUME AccountsInv, NEW t \in Tasks, ChangePassword(t)
    PROVE  AccountsInv'
<1> SUFFICES ASSUME NEW u, u = call[t].arg.user,
                    NEW cols, cols = [users[u] EXCEPT !.password = call[t].arg.new]
             PROVE  AccountsInv'
  OBVIOUS
<1>0. AccountRows /\ OnCourse(call[t])
  BY DEF AccountsInv
<1>1. /\ call[t].op = "change_password" /\ Finish(t) /\ Upsert(u, cols)
      /\ agreed' = [agreed EXCEPT ![u] = call[t].arg.new]
      /\ UNCHANGED <<second, things, reset_tokens, attempts, sessions, wished, gone, uses, guesses, misused, tangled>>
  BY DEF ChangePassword, On, Arg
<1>2. u \in Users /\ call[t].arg.new \in Passwords
  BY <1>0, <1>1 DEF OnCourse, Flagging, AccountRows
<1>3. GoesOn(t) /\ call'[t].op = "none"
  BY <1>1, CallOver DEF Finish
<1>4. cols \in UserRow /\ cols.is = users[u].is /\ cols.email = users[u].email /\ cols.flags = users[u].flags
      /\ cols.password = call[t].arg.new
  <2>1. users[u] \in UserRow /\ users[u].flags \in Flags /\ users[u].blocked \in BOOLEAN
    BY <1>0, <1>2 DEF AccountRows, UserRow
  <2>2. cols = [is |-> users[u].is, email |-> users[u].email, password |-> call[t].arg.new,
               flags |-> users[u].flags, blocked |-> users[u].blocked]
    BY <1>2, <2>1, RowsChange
  <2> QED
    BY <1>2, <2>1, <2>2, RowsFit
<1>5. \A k \in Tokens : TokenSpent(k)'
  BY <1>1, <1>3, TokensOn DEF On
<1>6. /\ agreed' = [v \in Users |-> agreed'[v]] /\ agreed'[u] = call[t].arg.new
      /\ \A v \in Users : v # u => agreed'[v] = agreed[v]
  BY <1>0, <1>1, <1>2 DEF AccountRows
<1>7. /\ \A v \in Users : second[v].code >= second[v].code
      /\ second \in [Users -> [code : Nat, fresh : BOOLEAN, on : BOOLEAN]] /\ wished \in [Users -> Flags]
      /\ uses \in [Tokens -> Nat] /\ misused = FALSE /\ (Registered(u) => users[u].is = "whole")
  BY <1>0 DEF AccountRows, AccountsInv, Registered
<1>8. /\ second' \in [Users -> [code : Nat, fresh : BOOLEAN, on : BOOLEAN]]
      /\ \A v \in Users : /\ second'[v].code >= second[v].code
                          /\ second'[v].code = second[v].code /\ ~ second[v].fresh => ~ second'[v].fresh
      /\ wished' \in [Users -> Flags] /\ uses' \in [Tokens -> Nat] /\ misused' = FALSE
  BY <1>1, <1>7
<1>9. Registered(u) => cols \in UserRow /\ cols.is = "whole" /\ cols.email = users[u].email
  BY <1>4, <1>7
<1>10. WritesRow(t, u, cols)
  BY <1>1, <1>3, <1>4, <1>6, <1>8, <1>9 DEF WritesRow
<1> QED
  BY <1>2, <1>3, <1>5, <1>10, UsersOn

\* The token that sets a password is about to be deleted.
LEMMA PasswordReset ==
    ASSUME AccountsInv, NEW t \in Tasks, ResetPassword(t)
    PROVE  AccountsInv'
<1> SUFFICES ASSUME NEW u, u = call[t].arg.user, NEW k, k = call[t].arg.token,
                    NEW cols, cols = [users[u] EXCEPT !.password = call[t].arg.password]
             PROVE  AccountsInv'
  OBVIOUS
<1>0. AccountRows /\ OnCourse(call[t])
  BY DEF AccountsInv
<1>1. /\ On(t, "reset_password", "write") /\ Goto(t, "delete") /\ Upsert(u, cols)
      /\ agreed' = [agreed EXCEPT ![u] = call[t].arg.password]
      /\ uses' = [uses EXCEPT ![k] = @ + 1] /\ misused' = (misused \/ call[t].arg.late)
      /\ UNCHANGED <<second, things, reset_tokens, attempts, sessions, wished, gone, guesses, tangled>>
  BY DEF ResetPassword, Arg
<1>2. /\ u \in Users /\ call[t].arg.password \in Passwords /\ k \in Tokens /\ ~ call[t].arg.late
      /\ reset_tokens[k].is # "none"
      /\ Orderly("token", k) => uses[k] = 0
  BY <1>0, <1>1 DEF OnCourse, Resetting, On
<1>3. /\ GoesOn(t) /\ call'[t].op = "reset_password" /\ call'[t].at = "delete" /\ call'[t].arg = call[t].arg
  BY <1>1, Walks DEF On
<1>4. cols \in UserRow /\ cols.is = users[u].is /\ cols.email = users[u].email /\ cols.flags = users[u].flags
      /\ cols.password = call[t].arg.password
  <2>1. users[u] \in UserRow /\ users[u].flags \in Flags /\ users[u].blocked \in BOOLEAN
    BY <1>0, <1>2 DEF AccountRows, UserRow
  <2>2. cols = [is |-> users[u].is, email |-> users[u].email, password |-> call[t].arg.password,
               flags |-> users[u].flags, blocked |-> users[u].blocked]
    BY <1>2, <2>1, RowsChange
  <2> QED
    BY <1>2, <2>1, <2>2, RowsFit
<1>5. /\ uses' \in [Tokens -> Nat] /\ uses'[k] = uses[k] + 1
      /\ \A j \in Tokens : j # k => uses'[j] = uses[j]
  BY <1>0, <1>1, <1>2 DEF AccountRows
<1>6. \A j \in Tokens : TokenSpent(j)'
  <2> SUFFICES ASSUME NEW j \in Tokens, Orderly("token", j)', uses'[j] # 0
               PROVE  /\ uses'[j] = 1
                      /\ \/ reset_tokens'[j].is = "deleted"
                         \/ \E o \in Tasks : On(o, "reset_password", "delete")' /\ Arg(o)'.token = j
    BY DEF TokenSpent
  <2>1. CASE j = k
    <3>1. uses'[j] = 1
      BY <1>1, <1>2, <1>5, <2>1 DEF Orderly
    <3>2. On(t, "reset_password", "delete")' /\ Arg(t)'.token = j
      BY <1>3, <2>1 DEF On, Arg
    <3> QED
      BY <3>1, <3>2
  <2>2. CASE j # k
    <3>1. /\ uses[j] = 1
          /\ \/ reset_tokens[j].is = "deleted"
             \/ \E o \in Tasks : On(o, "reset_password", "delete") /\ Arg(o).token = j
      BY <1>1, <1>5, <2>2 DEF AccountsInv, TokenSpent, Orderly
    <3>2. ASSUME NEW o \in Tasks, On(o, "reset_password", "delete"), Arg(o).token = j
          PROVE  On(o, "reset_password", "delete")' /\ Arg(o)'.token = j
      <4>1. o # t
        BY <1>1, <3>2 DEF On
      <4> QED
        BY <1>3, <3>2, <4>1 DEF GoesOn, Only, On, Arg
    <3> QED
      BY <1>1, <1>5, <2>2, <3>1, <3>2
  <2> QED
    BY <2>1, <2>2
<1>7. /\ agreed' = [v \in Users |-> agreed'[v]] /\ agreed'[u] = call[t].arg.password
      /\ \A v \in Users : v # u => agreed'[v] = agreed[v]
  BY <1>0, <1>1, <1>2 DEF AccountRows
<1>8. /\ \A v \in Users : second[v].code >= second[v].code
      /\ second \in [Users -> [code : Nat, fresh : BOOLEAN, on : BOOLEAN]] /\ wished \in [Users -> Flags]
      /\ (Registered(u) => users[u].is = "whole")
  BY <1>0 DEF AccountRows, Registered
<1>9. OnCourse(call[t])'
  <2>1. Resetting(call[t])'
    BY <1>0, <1>1, <1>2, <1>3 DEF OnCourse, Resetting, On
  <2> QED
    BY <1>3, <2>1 DEF OnCourse, AcCalls, Registering, Flagging, DeletingAccount, Proving
<1>10. <<"token", k>> \in AcWrites(call[t]) /\ misused' = FALSE
  BY <1>1, <1>2, WritesAbout DEF AccountsInv, On
<1>11. /\ second' \in [Users -> [code : Nat, fresh : BOOLEAN, on : BOOLEAN]]
       /\ \A v \in Users : /\ second'[v].code >= second[v].code
                           /\ second'[v].code = second[v].code /\ ~ second[v].fresh => ~ second'[v].fresh
       /\ wished' \in [Users -> Flags]
  BY <1>1, <1>8
<1>12. Registered(u) => cols \in UserRow /\ cols.is = "whole" /\ cols.email = users[u].email
  BY <1>4, <1>8
<1>13. call'[t].op # "verify_2fa" \/ call'[t].at # "read"
  BY <1>3
<1>14. \A j \in Tokens : <<"token", j>> \notin AcWrites(call[t]) => uses'[j] = uses[j]
  BY <1>5, <1>10
<1>15. WritesRow(t, u, cols)
  BY <1>1, <1>3, <1>4, <1>5, <1>7, <1>10, <1>11, <1>12, <1>13, <1>14 DEF WritesRow
<1> QED
  BY <1>2, <1>6, <1>9, <1>15, UsersOn

\* What the updates that leave the password alone have in common.
LEMMA UpdateOn ==
    ASSUME AccountsInv, NEW t \in Tasks, NEW u \in Users, NEW cols, Upsert(u, cols), Finish(t),
           ~ On(t, "reset_password", "delete"),
           users[u] \in UserRow => cols \in UserRow /\ cols.is = users[u].is /\ cols.email = users[u].email
                               /\ cols.password = users[u].password /\ cols.flags = users[u].flags,
           UNCHANGED <<things, reset_tokens, attempts, sessions, agreed, wished, gone, uses, guesses, tangled>>,
           second' \in [Users -> [code : Nat, fresh : BOOLEAN, on : BOOLEAN]],
           \A v \in Users : /\ second'[v].code >= second[v].code
                            /\ second'[v].code = second[v].code /\ ~ second[v].fresh => ~ second'[v].fresh,
           misused' = FALSE
    PROVE  AccountsInv'
<1>0. AccountRows
  BY DEF AccountsInv
<1>1. GoesOn(t) /\ call'[t].op = "none"
  BY CallOver DEF Finish
<1>2. \A k \in Tokens : TokenSpent(k)'
  BY <1>1, TokensOn
<1>3. /\ Registered(u) => cols \in UserRow /\ cols.is = "whole" /\ cols.email = users[u].email
      /\ cols.flags = users[u].flags /\ (Registered(u) => cols.password = agreed[u])
  BY <1>0 DEF AccountRows, AccountsInv, EmailsHold, Registered
<1>4. /\ agreed = [v \in Users |-> agreed[v]] /\ wished \in [Users -> Flags] /\ uses \in [Tokens -> Nat]
  BY <1>0 DEF AccountRows
<1>5. WritesRow(t, u, cols)
  BY <1>1, <1>3, <1>4 DEF WritesRow
<1> QED
  BY <1>1, <1>2, <1>5, UsersOn

\* The code is the one that counts, and the columns beside it.
LEMMA Secrets2fa ==
    ASSUME AccountRows
    PROVE  /\ second \in [Users -> [code : Nat, fresh : BOOLEAN, on : BOOLEAN]]
           /\ \A v \in Users : /\ second[v].code \in Nat
                               /\ second[v] = [code |-> second[v].code, fresh |-> second[v].fresh, on |-> second[v].on]
                               /\ second[v].fresh \in BOOLEAN /\ second[v].on \in BOOLEAN
  BY DEF AccountRows

LEMMA RowUpdates ==
    ASSUME AccountsInv, NEW t \in Tasks,
           UpdateProfile(t) \/ EnableSecond(t) \/ SecondOn(t) \/ BlockUser(t)
    PROVE  AccountsInv'
<1> SUFFICES ASSUME NEW u, u = call[t].arg.user
             PROVE  AccountsInv'
  OBVIOUS
<1>0. AccountRows /\ OnCourse(call[t]) /\ misused = FALSE
  BY DEF AccountsInv
<1>1. /\ call[t].op \in {"update_profile", "enable_2fa", "verify_2fa", "block_user"} /\ Finish(t)
      /\ UNCHANGED <<things, reset_tokens, attempts, sessions, agreed, wished, gone, uses, guesses, tangled>>
  BY DEF UpdateProfile, EnableSecond, SecondOn, BlockUser, On, acHistory
<1>2. u \in Users /\ ~ On(t, "reset_password", "delete")
  BY <1>0, <1>1 DEF OnCourse, Proving, On
<1>3. users[u] \in UserRow
  BY <1>0, <1>2 DEF AccountRows
<1>4. /\ second \in [Users -> [code : Nat, fresh : BOOLEAN, on : BOOLEAN]]
      /\ \A v \in Users : /\ second[v].code \in Nat
                          /\ second[v] = [code |-> second[v].code, fresh |-> second[v].fresh, on |-> second[v].on]
                          /\ second[v].fresh \in BOOLEAN /\ second[v].on \in BOOLEAN
  BY <1>0, Secrets2fa
<1>5. CASE UpdateProfile(t)
  <2> SUFFICES ASSUME NEW cols, cols = users[u] PROVE AccountsInv'
    OBVIOUS
  <2>1. Upsert(u, cols) /\ second' = second /\ misused' = FALSE
    BY <1>0, <1>5 DEF UpdateProfile, Arg, acHistory
  <2>2. \A v \in Users : second'[v].code >= second[v].code
    BY <1>4, <2>1
  <2> QED
    BY <1>1, <1>2, <1>3, <1>4, <2>1, <2>2, UpdateOn
<1>6. CASE EnableSecond(t)
  <2> SUFFICES ASSUME NEW cols, cols = users[u] PROVE AccountsInv'
    OBVIOUS
  <2>1. /\ Upsert(u, cols) /\ misused' = FALSE
        /\ second' = [second EXCEPT ![u].code = @ + 1, ![u].fresh = TRUE]
    BY <1>0, <1>6 DEF EnableSecond, Arg, acHistory
  <2>2. \A v \in Users : second'[v] = IF v = u THEN [code |-> second[u].code + 1, fresh |-> TRUE, on |-> second[u].on]
                                      ELSE second[v]
    <3>1. \A v \in Users : second'[v] = IF v = u THEN [[second[u] EXCEPT !.code = @ + 1] EXCEPT !.fresh = TRUE]
                                      ELSE second[v]
      BY <1>2, <1>4, <2>1
    <3>2. [second[u] EXCEPT !.code = @ + 1] = [code |-> second[u].code + 1, fresh |-> second[u].fresh, on |-> second[u].on]
      BY <1>2, <1>4
    <3> QED
      BY <3>1, <3>2
  <2>3. second' \in [Users -> [code : Nat, fresh : BOOLEAN, on : BOOLEAN]]
    <3>1. second' = [v \in Users |-> second'[v]]
      BY <1>4, <2>1
    <3>2. [code |-> second[u].code + 1, fresh |-> TRUE, on |-> second[u].on] \in [code : Nat, fresh : BOOLEAN, on : BOOLEAN]
      BY <1>2, <1>4
    <3>3. \A v \in Users : second'[v] \in [code : Nat, fresh : BOOLEAN, on : BOOLEAN]
      BY <1>4, <2>2, <3>2
    <3> QED
      BY <3>1, <3>3
  <2>4. \A v \in Users : /\ second'[v].code >= second[v].code
                         /\ second'[v].code = second[v].code /\ ~ second[v].fresh => ~ second'[v].fresh
    <3> TAKE v \in Users
    <3>1. CASE v = u
      BY <1>2, <1>4, <2>2, <3>1
    <3>2. CASE v # u
      BY <1>4, <2>2, <3>2
    <3> QED
      BY <3>1, <3>2
  <2> QED
    BY <1>1, <1>2, <1>3, <2>1, <2>3, <2>4, UpdateOn
<1>7. CASE SecondOn(t)
  <2> SUFFICES ASSUME NEW cols, cols = users[u] PROVE AccountsInv'
    OBVIOUS
  <2>1. /\ Upsert(u, cols) /\ second' = [second EXCEPT ![u].on = TRUE]
        /\ misused' = (misused \/ call[t].arg.late) /\ call[t].op = "verify_2fa" /\ call[t].at = "enable"
    BY <1>0, <1>7 DEF SecondOn, Arg, On
  <2>2. misused' = FALSE
    BY <1>0, <2>1 DEF OnCourse, Proving
  <2>3. \A v \in Users : second'[v] = IF v = u THEN [code |-> second[u].code, fresh |-> second[u].fresh, on |-> TRUE]
                                      ELSE second[v]
    <3>1. \A v \in Users : second'[v] = IF v = u THEN [second[u] EXCEPT !.on = TRUE] ELSE second[v]
      BY <1>2, <1>4, <2>1
    <3>2. [second[u] EXCEPT !.on = TRUE] = [code |-> second[u].code, fresh |-> second[u].fresh, on |-> TRUE]
      <4>1. \A w \in BOOLEAN : [second[u] EXCEPT !.on = w] =
                [code |-> second[u].code, fresh |-> second[u].fresh, on |-> w]
        BY <1>2, <1>4
      <4> QED
        BY <4>1
    <3> QED
      BY <3>1, <3>2
  <2>4. second' \in [Users -> [code : Nat, fresh : BOOLEAN, on : BOOLEAN]]
    <3>1. second' = [v \in Users |-> second'[v]]
      BY <1>4, <2>1
    <3>2. [code |-> second[u].code, fresh |-> second[u].fresh, on |-> TRUE] \in [code : Nat, fresh : BOOLEAN, on : BOOLEAN]
      BY <1>2, <1>4
    <3>3. \A v \in Users : second'[v] \in [code : Nat, fresh : BOOLEAN, on : BOOLEAN]
      BY <1>4, <2>3, <3>2
    <3> QED
      BY <3>1, <3>3
  <2>5. \A v \in Users : /\ second'[v].code >= second[v].code
                         /\ second'[v].code = second[v].code /\ ~ second[v].fresh => ~ second'[v].fresh
    BY <1>2, <1>4, <2>3
  <2> QED
    BY <1>1, <1>2, <1>3, <2>1, <2>2, <2>4, <2>5, UpdateOn
<1>8. CASE BlockUser(t)
  <2> SUFFICES ASSUME NEW cols, cols = [users[u] EXCEPT !.blocked = call[t].arg.to] PROVE AccountsInv'
    OBVIOUS
  <2>1. Upsert(u, cols) /\ second' = second /\ misused' = FALSE /\ call[t].op = "block_user"
    BY <1>0, <1>8 DEF BlockUser, Arg, acHistory, On
  <2>2. \A v \in Users : second'[v].code >= second[v].code
    BY <1>4, <2>1
  <2>3. call[t].arg.to \in BOOLEAN
    BY <1>0, <2>1 DEF OnCourse, Proving
  <2>4. /\ users[u].password \in Passwords \cup {"none"} /\ users[u].flags \in Flags
    BY <1>3 DEF UserRow
  <2>5. cols \in UserRow /\ cols.is = users[u].is /\ cols.email = users[u].email
        /\ cols.password = users[u].password /\ cols.flags = users[u].flags
    <3>1. cols = [is |-> users[u].is, email |-> users[u].email, password |-> users[u].password,
                 flags |-> users[u].flags, blocked |-> call[t].arg.to]
      BY <1>3, <2>3, RowsChange
    <3> QED
      BY <1>3, <2>3, <2>4, <3>1, RowsFit
  <2> QED
    BY <1>1, <1>2, <1>3, <1>4, <2>1, <2>2, <2>5, UpdateOn
<1> QED
  BY <1>5, <1>6, <1>7, <1>8

\* The flags that are read still hold when they are written, unless tangled.
LEMMA FlagsRead ==
    ASSUME AccountsInv, NEW t \in Tasks, ReadFlags(t)
    PROVE  AccountsInv'
<1> SUFFICES ASSUME NEW u, u = call[t].arg.user PROVE AccountsInv'
  OBVIOUS
<1>0. AccountRows /\ OnCourse(call[t])
  BY DEF AccountsInv
<1>1. /\ call[t].op = "set_flags" /\ UNCHANGED <<acTables, agreed, wished, gone, uses, guesses, misused>>
      /\ UNCHANGED <<users, sessions>> /\ tangled \subseteq tangled'
  BY DEF ReadFlags, On, acTables
<1>2. PICK got : /\ Learn(t, "write", got) \/ call' = [call EXCEPT ![t].at = "write", ![t].got = got]
                 /\ got # users[u].flags => got = AllOn /\ <<"flags", u>> \in tangled'
  <2>1. CASE Learn(t, "write", users[u].flags)
    BY <2>1
  <2>2. CASE call' = [call EXCEPT ![t].at = "write", ![t].got = AllOn] /\ tangled' = tangled \cup {<<"flags", u>>}
    BY <2>2
  <2> QED
    BY <2>1, <2>2 DEF ReadFlags, Arg
<1>3. /\ GoesOn(t) /\ call'[t].op = "set_flags" /\ call'[t].at = "write" /\ call'[t].got = got
      /\ call'[t].arg = call[t].arg
  BY <1>1, <1>2, Gets
<1>4. u \in Users /\ users[u].flags \in Flags /\ AllOn \in Flags
  BY <1>0, <1>1 DEF OnCourse, Flagging, AccountRows, UserRow, Flags, AllOn
<1>5. Flagging(call[t])'
  BY <1>0, <1>1, <1>2, <1>3, <1>4 DEF OnCourse, Flagging, Orderly
<1>6. OnCourse(call[t])'
  BY <1>3, <1>5 DEF OnCourse, AcCalls, Registering, Resetting, DeletingAccount, Proving
<1>7. ~ On(t, "reset_password", "delete")
  BY <1>1 DEF On
<1> QED
  BY <1>1, <1>3, <1>6, <1>7, AccountsRead

LEMMA FlagsChange ==
    ASSUME NEW f \in Flags, NEW flag \in {"email", "system"}, NEW b \in BOOLEAN
    PROVE  [f EXCEPT ![flag] = b] \in Flags
<1>1. f = [email |-> f.email, system |-> f.system] /\ f.email \in BOOLEAN /\ f.system \in BOOLEAN
  BY DEF Flags
<1>2. CASE flag = "email"
  BY <1>1, <1>2 DEF Flags
<1>3. CASE flag = "system"
  BY <1>1, <1>3 DEF Flags
<1> QED
  BY <1>2, <1>3

LEMMA FlagsWritten ==
    ASSUME AccountsInv, NEW t \in Tasks, WriteFlags(t)
    PROVE  AccountsInv'
<1> SUFFICES ASSUME NEW u, u = call[t].arg.user, NEW flag, flag = call[t].arg.flag, NEW b, b = call[t].arg.to,
                    NEW new, new = [call[t].got EXCEPT ![flag] = b],
                    NEW cols, cols = [users[u] EXCEPT !.flags = new]
             PROVE  AccountsInv'
  OBVIOUS
<1>0. AccountRows /\ OnCourse(call[t]) /\ misused = FALSE
  BY DEF AccountsInv
<1>1. /\ On(t, "set_flags", "write") /\ Finish(t) /\ Upsert(u, cols)
      /\ wished' = [wished EXCEPT ![u][flag] = b]
      /\ UNCHANGED <<second, things, reset_tokens, attempts, sessions, agreed, gone, uses, guesses, misused, tangled>>
  BY DEF WriteFlags, Arg, Got
<1>2. /\ u \in Users /\ u \in sessions /\ flag \in {"email", "system"} /\ b \in BOOLEAN
      /\ call[t].got \in Flags
      /\ Registered(u) /\ Orderly("flags", u) => call[t].got = users[u].flags
  BY <1>0, <1>1 DEF OnCourse, Flagging, On, AccountRows
<1>3. GoesOn(t) /\ call'[t].op = "none"
  BY <1>1, CallOver DEF Finish
<1>4. new \in Flags
  BY <1>2, FlagsChange
<1>5. cols \in UserRow /\ cols.is = users[u].is /\ cols.email = users[u].email /\ cols.flags = new
      /\ cols.password = users[u].password
  <2>1. users[u] \in UserRow /\ users[u].password \in Passwords \cup {"none"} /\ users[u].blocked \in BOOLEAN
    BY <1>0, <1>2 DEF AccountRows, UserRow
  <2>2. cols = [is |-> users[u].is, email |-> users[u].email, password |-> users[u].password,
               flags |-> new, blocked |-> users[u].blocked]
    BY <1>4, <2>1, RowsChange
  <2> QED
    BY <1>4, <2>1, <2>2, RowsFit
<1>6. /\ wished' = [v \in Users |-> wished'[v]]
      /\ \A v \in Users : wished'[v] = IF v = u THEN [wished[u] EXCEPT ![flag] = b] ELSE wished[v]
  BY <1>0, <1>1, <1>2 DEF AccountRows
<1>7. wished' \in [Users -> Flags]
  <2>1. \A v \in Users : wished[v] \in Flags
    BY <1>0 DEF AccountRows
  <2>2. [wished[u] EXCEPT ![flag] = b] \in Flags
    BY <1>2, <2>1, FlagsChange
  <2>3. \A v \in Users : wished'[v] \in Flags
    BY <1>6, <2>1, <2>2
  <2> QED
    BY <1>6, <2>3
<1>8. Registered(u) /\ <<"flags", u>> \notin tangled' => cols.flags = wished'[u]
  <2> SUFFICES ASSUME Registered(u), Orderly("flags", u) PROVE new = wished'[u]
    BY <1>1, <1>5 DEF Orderly
  <2>1. call[t].got = wished[u]
    BY <1>2 DEF AccountsInv, FlagsHold, FlagsKept
  <2> QED
    BY <1>2, <1>6, <2>1
<1>9. /\ \A v \in Users : second[v].code >= second[v].code
      /\ second \in [Users -> [code : Nat, fresh : BOOLEAN, on : BOOLEAN]]
      /\ agreed = [v \in Users |-> agreed[v]] /\ uses \in [Tokens -> Nat]
      /\ (Registered(u) => users[u].is = "whole" /\ users[u].password = agreed[u])
  BY <1>0, <1>2 DEF AccountRows, Registered, AccountsInv, EmailsHold
<1>10. <<"flags", u>> \in AcWrites(call[t])
  BY <1>1, WritesAbout DEF On
<1>11. WritesRow(t, u, cols)
  BY <1>0, <1>1, <1>2, <1>3, <1>5, <1>6, <1>7, <1>8, <1>9, <1>10 DEF WritesRow
<1>12. \A k \in Tokens : TokenSpent(k)'
  BY <1>1, <1>3, TokensOn DEF On
<1> QED
  BY <1>2, <1>3, <1>11, <1>12, UsersOn

-----------------------------------------------------------------------------
(* Reset tokens *)

LEMMA TokenSaved ==
    ASSUME AccountsInv, NEW t \in Tasks, SaveToken(t)
    PROVE  AccountsInv'
<1>0. AccountRows /\ OnCourse(call[t]) /\ misused = FALSE
  BY DEF AccountsInv
<1>1. PICK k \in Tokens :
        /\ reset_tokens[k].is = "none"
        /\ reset_tokens' = [reset_tokens EXCEPT ![k] = [of |-> call[t].got, is |-> "valid"]]
  BY DEF SaveToken, Got
<1>2. /\ call[t].op = "forgot_password" /\ call[t].at = "save" /\ Finish(t)
      /\ UNCHANGED <<users, second, things, attempts, sessions, agreed, wished, gone, uses, guesses, misused, tangled>>
  BY DEF SaveToken, On, acHistory
<1>3. GoesOn(t) /\ call'[t].op = "none" /\ call[t].got \in Users
  BY <1>0, <1>2, CallOver DEF Finish, OnCourse, Resetting
<1>4. /\ reset_tokens' \in [Tokens -> [of : Users, is : {"none", "valid", "expired", "deleted"}]]
      /\ \A j \in Tokens : j # k => reset_tokens'[j] = reset_tokens[j]
      /\ reset_tokens'[k].is = "valid"
  BY <1>0, <1>1, <1>3 DEF AccountRows
<1>5. LeavesBe(AcWrites(call[t]))
  BY <1>0, <1>1, <1>2, <1>4 DEF LeavesBe, WithEmail, Registered, AccountRows
<1>6. AccountRows'
  BY <1>0, <1>2, <1>4 DEF AccountRows, Registered
<1>7. EmailsHold'
  BY <1>2, EmailsOn DEF WithEmail, Registered, AccountsInv, EmailsHold
<1>8. FlagsHold' /\ ThingsHold' /\ GuessesCounted'
  BY <1>2, <1>3, FlagsOn, ThingsOn, GuessesOn DEF Registered
<1>9. ASSUME NEW j \in Tokens PROVE TokenSpent(j)'
  <2> SUFFICES ASSUME Orderly("token", j), uses[j] # 0
               PROVE  /\ uses[j] = 1
                      /\ \/ reset_tokens'[j].is = "deleted"
                         \/ \E o \in Tasks : On(o, "reset_password", "delete")' /\ Arg(o)'.token = j
    BY <1>2 DEF TokenSpent, Orderly
  <2>1. /\ uses[j] = 1
        /\ \/ reset_tokens[j].is = "deleted"
           \/ \E o \in Tasks : On(o, "reset_password", "delete") /\ Arg(o).token = j
    BY DEF AccountsInv, TokenSpent
  <2>2. ASSUME NEW o \in Tasks, On(o, "reset_password", "delete"), Arg(o).token = j
        PROVE  On(o, "reset_password", "delete")' /\ Arg(o)'.token = j
    <3>1. o # t
      BY <1>2, <2>2 DEF On
    <3> QED
      BY <1>3, <2>2, <3>1 DEF GoesOn, Only, On, Arg
  <2> QED
    BY <1>1, <1>4, <2>1, <2>2
<1> QED
  BY <1>2, <1>3, <1>5, <1>6, <1>7, <1>8, <1>9, <1>0, AccountsOn

LEMMA TokenDeleted ==
    ASSUME AccountsInv, NEW t \in Tasks, DeleteToken(t)
    PROVE  AccountsInv'
<1> SUFFICES ASSUME NEW k, k = call[t].arg.token PROVE AccountsInv'
  OBVIOUS
<1>0. AccountRows /\ OnCourse(call[t]) /\ misused = FALSE
  BY DEF AccountsInv
<1>1. /\ call[t].op = "reset_password"
      /\ UNCHANGED <<users, second, things, attempts, sessions, agreed, wished, gone, uses, guesses, misused>>
      /\ \/ /\ reset_tokens' = [reset_tokens EXCEPT ![k].is = "deleted"]
            /\ Finish(t) /\ UNCHANGED tangled
         \/ /\ Leave(t) /\ UNCHANGED <<calls, reset_tokens>> /\ tangled' = tangled \cup {<<"token", k>>}
  BY DEF DeleteToken, On, Arg
<1>2. CASE Leave(t) /\ UNCHANGED <<calls, reset_tokens>> /\ tangled' = tangled \cup {<<"token", k>>}
  <2>1. GoesOn(t) /\ call'[t].op = "none"
    BY <1>1, <1>2, CallOver
  <2> QED
    BY <1>1, <1>2, <2>1, AccountsRead DEF acTables, Arg
<1>3. CASE reset_tokens' = [reset_tokens EXCEPT ![k].is = "deleted"] /\ Finish(t) /\ UNCHANGED tangled
  <2>1. GoesOn(t) /\ call'[t].op = "none" /\ k \in Tokens
    BY <1>0, <1>1, <1>3, CallOver DEF Finish, OnCourse, Resetting
  <2>2. \A j \in Tokens : reset_tokens'[j] = IF j = k THEN [of |-> reset_tokens[k].of, is |-> "deleted"]
                                            ELSE reset_tokens[j]
    <3>1. reset_tokens[k] = [of |-> reset_tokens[k].of, is |-> reset_tokens[k].is]
      BY <1>0, <2>1 DEF AccountRows
    <3>2. [reset_tokens[k] EXCEPT !.is = "deleted"] = [of |-> reset_tokens[k].of, is |-> "deleted"]
      BY <3>1
    <3> QED
      BY <1>0, <1>3, <2>1, <3>2 DEF AccountRows
  <2>3. reset_tokens' \in [Tokens -> [of : Users, is : {"none", "valid", "expired", "deleted"}]]
    <3>1. reset_tokens' = [j \in Tokens |-> reset_tokens'[j]] /\ reset_tokens[k].of \in Users
      BY <1>0, <1>3, <2>1 DEF AccountRows
    <3> QED
      BY <1>0, <2>1, <2>2, <3>1 DEF AccountRows
  <2>4. reset_tokens'[k].is = "deleted" /\ \A j \in Tokens : j # k => reset_tokens'[j] = reset_tokens[j]
    BY <2>1, <2>2
  <2>5. LeavesBe(AcWrites(call[t]))
    BY <1>0, <1>1, <1>3, <2>4 DEF LeavesBe, WithEmail, Registered, AccountRows
  <2>6. AccountRows'
    BY <1>0, <1>1, <1>3, <2>3 DEF AccountRows, Registered
  <2>7. EmailsHold'
    BY <1>1, <1>3, EmailsOn DEF WithEmail, Registered, AccountsInv, EmailsHold
  <2>8. FlagsHold' /\ ThingsHold' /\ GuessesCounted'
    BY <1>1, <1>3, <2>1, FlagsOn, ThingsOn, GuessesOn DEF Registered
  <2>9. ASSUME NEW j \in Tokens PROVE TokenSpent(j)'
    <3> SUFFICES ASSUME Orderly("token", j), uses[j] # 0
                 PROVE  /\ uses[j] = 1
                        /\ \/ reset_tokens'[j].is = "deleted"
                           \/ \E o \in Tasks : On(o, "reset_password", "delete")' /\ Arg(o)'.token = j
      BY <1>1, <1>3 DEF TokenSpent, Orderly
    <3>1. /\ uses[j] = 1
          /\ \/ reset_tokens[j].is = "deleted"
             \/ \E o \in Tasks : On(o, "reset_password", "delete") /\ Arg(o).token = j
      BY DEF AccountsInv, TokenSpent
    <3>2. ASSUME NEW o \in Tasks, On(o, "reset_password", "delete"), Arg(o).token = j, j # k
          PROVE  On(o, "reset_password", "delete")' /\ Arg(o)'.token = j
      <4>1. o # t
        BY <3>2 DEF On, Arg
      <4> QED
        BY <2>1, <3>2, <4>1 DEF GoesOn, Only, On, Arg
    <3> QED
      BY <2>4, <3>1, <3>2
  <2> QED
    BY <1>0, <1>1, <2>1, <2>5, <2>6, <2>7, <2>8, <2>9, AccountsOn
<1> QED
  BY <1>1, <1>2, <1>3

-----------------------------------------------------------------------------
(* Time, and the second factor *)

\* What no task does.
LEMMA TimePasses ==
    ASSUME AccountsInv, TokenExpires \/ CodeExpires
    PROVE  AccountsInv'
<1>0. AccountRows
  BY DEF AccountsInv
<1>1. /\ UNCHANGED <<call, users, things, attempts, sessions, agreed, wished, gone, uses, guesses, misused, tangled>>
  BY DEF TokenExpires, CodeExpires, acHistory, tasking
<1>2. /\ reset_tokens' \in [Tokens -> [of : Users, is : {"none", "valid", "expired", "deleted"}]]
      /\ \A k \in Tokens : \/ reset_tokens'[k] = reset_tokens[k]
                           \/ reset_tokens[k].is = "valid" /\ reset_tokens'[k].is = "expired"
  <2>1. CASE UNCHANGED reset_tokens
    BY <1>0, <2>1 DEF AccountRows
  <2>2. CASE TokenExpires
    <3>1. PICK k \in Tokens : /\ reset_tokens[k].is = "valid"
                              /\ reset_tokens' = [reset_tokens EXCEPT ![k].is = "expired"]
      BY <2>2 DEF TokenExpires
    <3>2. reset_tokens[k] = [of |-> reset_tokens[k].of, is |-> reset_tokens[k].is] /\ reset_tokens[k].of \in Users
      BY <1>0 DEF AccountRows
    <3>3. [reset_tokens[k] EXCEPT !.is = "expired"] = [of |-> reset_tokens[k].of, is |-> "expired"]
      BY <3>2
    <3>4. \A j \in Tokens : reset_tokens'[j] = IF j = k THEN [of |-> reset_tokens[k].of, is |-> "expired"]
                                              ELSE reset_tokens[j]
      BY <1>0, <3>1, <3>3 DEF AccountRows
    <3>5. reset_tokens' = [j \in Tokens |-> reset_tokens'[j]]
      BY <1>0, <3>1 DEF AccountRows
    <3> QED
      BY <1>0, <3>1, <3>2, <3>4, <3>5 DEF AccountRows
  <2> QED
    BY <2>1, <2>2 DEF CodeExpires
<1>3. /\ second' \in [Users -> [code : Nat, fresh : BOOLEAN, on : BOOLEAN]]
      /\ \A u \in Users : second'[u].code = second[u].code /\ (~ second[u].fresh => ~ second'[u].fresh)
  <2>1. CASE UNCHANGED second
    BY <1>0, <2>1 DEF AccountRows
  <2>2. CASE CodeExpires
    <3>1. PICK u \in Users : second' = [second EXCEPT ![u].fresh = FALSE]
      BY <2>2 DEF CodeExpires
    <3>2. /\ second[u] = [code |-> second[u].code, fresh |-> second[u].fresh, on |-> second[u].on]
          /\ second[u].code \in Nat /\ second[u].on \in BOOLEAN
      BY <1>0, Secrets2fa
    <3>3. [second[u] EXCEPT !.fresh = FALSE] = [code |-> second[u].code, fresh |-> FALSE, on |-> second[u].on]
      <4>1. \A w \in BOOLEAN : [second[u] EXCEPT !.fresh = w] = [code |-> second[u].code, fresh |-> w, on |-> second[u].on]
        BY <3>2
      <4> QED
        BY <4>1
    <3>4. \A v \in Users : second'[v] = IF v = u THEN [code |-> second[u].code, fresh |-> FALSE, on |-> second[u].on]
                                        ELSE second[v]
      BY <1>0, <3>1, <3>3 DEF AccountRows
    <3>5. second' = [v \in Users |-> second'[v]]
      BY <1>0, <3>1 DEF AccountRows
    <3>6. [code |-> second[u].code, fresh |-> FALSE, on |-> second[u].on] \in [code : Nat, fresh : BOOLEAN, on : BOOLEAN]
      BY <3>2
    <3>7. \A v \in Users : second'[v] \in [code : Nat, fresh : BOOLEAN, on : BOOLEAN]
      BY <1>0, <3>4, <3>6 DEF AccountRows
    <3> QED
      BY <3>4, <3>5, <3>7
  <2> QED
    BY <2>1, <2>2 DEF TokenExpires
<1>4. LeavesBe({})
  <2>1. \A u \in Users : second'[u].code >= second[u].code
    BY <1>0, <1>3 DEF AccountRows
  <2>2. \A k \in Tokens : /\ reset_tokens[k].is # "none" => reset_tokens'[k].is # "none"
                          /\ reset_tokens[k].is \in {"expired", "deleted"} => reset_tokens'[k].is \in {"expired", "deleted"}
    BY <1>2
  <2>3. \A e : WithEmail(e)' = WithEmail(e)
    BY <1>1 DEF WithEmail, Registered
  <2>4. \A u \in Users : Registered(u)' <=> Registered(u)
    BY <1>1 DEF Registered
  <2> QED
    BY <1>1, <1>3, <2>1, <2>2, <2>3, <2>4 DEF LeavesBe
<1>5. AccountRows'
  BY <1>0, <1>1, <1>2, <1>3 DEF AccountRows, Registered
<1>6. \A o \in Tasks : OnCourse(call[o])'
  <2> TAKE o \in Tasks
  <2>1. OnCourse(call[o]) /\ call'[o] = call[o] /\ {} \cap AcWrites(call[o]) \subseteq tangled'
    BY <1>1 DEF AccountsInv
  <2> QED
    BY <1>1, <1>4, <1>5, <2>1, OthersOnCourse
<1>7. EmailsHold'
  BY <1>1, EmailsOn DEF WithEmail, Registered, AccountsInv, EmailsHold
<1>8. FlagsHold' /\ ThingsHold'
  BY <1>1, FlagsOn, ThingsOn DEF Registered
<1>9. GuessesCounted' /\ Unshared' /\ Shaped' /\ misused' = FALSE
  BY <1>1 DEF AccountsInv, GuessesCounted, Guessing, On, Arg, Unshared, Shaped, AcWrites
<1>10. ASSUME NEW k \in Tokens PROVE TokenSpent(k)'
  BY <1>1, <1>2 DEF AccountsInv, TokenSpent, Orderly, On, Arg
<1> QED
  BY <1>5, <1>6, <1>7, <1>8, <1>9, <1>10 DEF AccountsInv

\* When a window ends, the codes that were counted in it are of an older one.
LEMMA WindowOver ==
    ASSUME AccountsInv, WindowEnds
    PROVE  AccountsInv'
<1>0. AccountRows /\ Shaped
  BY DEF AccountsInv
<1>1. PICK u \in Users :
        /\ attempts' = [attempts EXCEPT ![u] = 0] /\ guesses' = [guesses EXCEPT ![u] = 0]
        /\ call' = [t \in Tasks |-> IF call[t].op = "verify_2fa" /\ Arg(t).user = u
                                    THEN [call[t] EXCEPT !.arg.old = TRUE] ELSE call[t]]
  BY DEF WindowEnds
<1>2. UNCHANGED <<users, second, things, reset_tokens, sessions, agreed, wished, gone, uses, misused, tangled>>
  BY DEF WindowEnds
<1>3. \A t \in Tasks : call'[t] =
        IF call[t].op = "verify_2fa" /\ call[t].arg.user = u
        THEN [op |-> call[t].op, at |-> call[t].at, got |-> call[t].got,
              arg |-> [user |-> call[t].arg.user, code |-> call[t].arg.code, old |-> TRUE, late |-> call[t].arg.late]]
        ELSE call[t]
  <2> TAKE t \in Tasks
  <2>1. CASE call[t].op = "verify_2fa" /\ call[t].arg.user = u
    <3>1. call[t] = [op |-> call[t].op, at |-> call[t].at, arg |-> call[t].arg, got |-> call[t].got]
      BY <1>0 DEF Shaped
    <3>2. call[t].arg = [user |-> call[t].arg.user, code |-> call[t].arg.code, old |-> call[t].arg.old, late |-> call[t].arg.late]
      BY <2>1 DEF AccountsInv, OnCourse, Proving
    <3>3. \A w \in BOOLEAN : [call[t].arg EXCEPT !.old = w] =
                [user |-> call[t].arg.user, code |-> call[t].arg.code, old |-> w, late |-> call[t].arg.late]
      BY <3>2
    <3>4. call'[t] = [call[t] EXCEPT !.arg = [call[t].arg EXCEPT !.old = TRUE]]
      BY <1>1, <2>1, <3>1 DEF Arg
    <3>5. \A a : [call[t] EXCEPT !.arg = a] = [op |-> call[t].op, at |-> call[t].at, arg |-> a, got |-> call[t].got]
      BY <3>1
    <3>6. [call[t].arg EXCEPT !.old = TRUE] =
                [user |-> call[t].arg.user, code |-> call[t].arg.code, old |-> TRUE, late |-> call[t].arg.late]
      BY <3>3
    <3> QED
      BY <2>1, <3>4, <3>5, <3>6
  <2>2. CASE ~ (call[t].op = "verify_2fa" /\ call[t].arg.user = u)
    BY <1>1, <2>2 DEF Arg
  <2> QED
    BY <2>1, <2>2
<1>12. ASSUME NEW t \in Tasks
       PROVE  /\ call'[t].op = call[t].op /\ call'[t].at = call[t].at
              /\ call[t].op = "verify_2fa" =>
                    /\ call'[t].arg.user = call[t].arg.user
                    /\ call[t].arg.user = u => call'[t].arg.old
                    /\ call[t].arg.user # u => call'[t].arg.old = call[t].arg.old
  <2>1. CASE call[t].op = "verify_2fa" /\ call[t].arg.user = u
    <3>1. call'[t] = [op |-> call[t].op, at |-> call[t].at, got |-> call[t].got,
              arg |-> [user |-> call[t].arg.user, code |-> call[t].arg.code, old |-> TRUE, late |-> call[t].arg.late]]
      BY <1>3, <2>1
    <3> QED
      BY <2>1, <3>1
  <2>2. CASE ~ (call[t].op = "verify_2fa" /\ call[t].arg.user = u)
    <3>1. call'[t] = call[t]
      BY <1>3, <2>2
    <3> QED
      BY <2>2, <3>1
  <2> QED
    BY <2>1, <2>2
<1>4. Shaped'
  BY <1>0, <1>1, <1>3 DEF Shaped
<1>5. LeavesBe({}) /\ AccountRows'
  <2>1. attempts' \in [Users -> 0 .. MaxAttempts] /\ guesses' \in [Users -> Nat]
    BY <1>0, <1>1 DEF AccountRows
  <2>2. \A v \in Users : second[v].code \in Nat
    BY <1>0 DEF AccountRows
  <2>3. \A e : WithEmail(e)' = WithEmail(e)
    BY <1>2 DEF WithEmail, Registered
  <2>4. \A v \in Users : Registered(v)' <=> Registered(v)
    BY <1>2 DEF Registered
  <2> QED
    BY <1>0, <1>2, <2>1, <2>2, <2>3, <2>4 DEF LeavesBe, AccountRows
<1>6. ASSUME NEW o \in Tasks PROVE OnCourse(call[o])'
  <2>1. CASE call'[o] = call[o]
    <3>1. OnCourse(call[o]) /\ {} \cap AcWrites(call[o]) \subseteq tangled'
      BY DEF AccountsInv
    <3> QED
      BY <1>2, <1>5, <2>1, <3>1, OthersOnCourse
  <2>2. CASE call'[o] # call[o]
    <3>1. /\ call[o].op = "verify_2fa" /\ call'[o].op = "verify_2fa" /\ call'[o].at = call[o].at
          /\ call'[o].arg = [user |-> call[o].arg.user, code |-> call[o].arg.code, old |-> TRUE, late |-> call[o].arg.late]
      <4>1. call[o].op = "verify_2fa" /\ call[o].arg.user = u
        BY <1>3, <2>2
      <4>2. call'[o] = [op |-> call[o].op, at |-> call[o].at, got |-> call[o].got,
              arg |-> [user |-> call[o].arg.user, code |-> call[o].arg.code, old |-> TRUE, late |-> call[o].arg.late]]
        BY <1>3, <4>1
      <4> QED
        BY <4>1, <4>2
    <3>2. OnCourse(call[o])
      BY DEF AccountsInv
    <3>3. Proving(call[o])'
      BY <1>2, <3>1, <3>2 DEF OnCourse, Proving, CodeEnded
    <3> QED
      BY <3>1, <3>3 DEF OnCourse, AcCalls, Registering, Resetting, Flagging, DeletingAccount
  <2> QED
    BY <2>1, <2>2
<1>7. EmailsHold'
  BY <1>2, EmailsOn DEF WithEmail, Registered, AccountsInv, EmailsHold
<1>8. FlagsHold' /\ ThingsHold' /\ misused' = FALSE
  BY <1>2, FlagsOn, ThingsOn DEF Registered, AccountsInv
<1>9. Unshared'
  <2>1. \A o \in Tasks : AcWrites(call'[o]) = AcWrites(call[o])
    BY <1>3, WritesAbout
  <2>2. \A v, o \in Tasks : v # o => AcWrites(call'[v]) \cap AcWrites(call'[o]) \subseteq tangled'
    BY <1>2, <2>1 DEF AccountsInv, Unshared
  <2> QED
    BY <2>2 DEF Unshared, AcWrites
<1>10. ASSUME NEW k \in Tokens PROVE TokenSpent(k)'
  <2>1. \A o \in Tasks : On(o, "reset_password", "delete") => call'[o] = call[o]
    BY <1>3 DEF On
  <2> QED
    BY <1>2, <2>1 DEF AccountsInv, TokenSpent, Orderly, On, Arg
<1>11. GuessesCounted'
  <2> SUFFICES ASSUME NEW v \in Users PROVE guesses'[v] + Cardinality(Guessing(v)') <= attempts'[v]
    BY DEF GuessesCounted
  <2>1. CASE v = u
    <3>1. Guessing(v)' = {}
      BY <1>12, <2>1 DEF Guessing, On, Arg
    <3>2. guesses'[v] = 0 /\ attempts'[v] = 0
      BY <1>0, <1>1, <2>1 DEF AccountRows
    <3> QED
      BY <3>1, <3>2, FS_EmptySet
  <2>2. CASE v # u
    <3>1. Guessing(v)' = Guessing(v)
      BY <1>12, <2>2 DEF Guessing, On, Arg
    <3>2. guesses'[v] = guesses[v] /\ attempts'[v] = attempts[v]
      BY <1>0, <1>1, <2>2 DEF AccountRows
    <3> QED
      BY <3>1, <3>2 DEF AccountsInv, GuessesCounted
  <2> QED
    BY <2>1, <2>2
<1> QED
  BY <1>4, <1>5, <1>6, <1>7, <1>8, <1>9, <1>10, <1>11 DEF AccountsInv

\* A code that is compared is a guess, in the window it was counted in.
LEMMA CodeCompared ==
    ASSUME AccountsInv, NEW t \in Tasks, CompareCode(t)
    PROVE  AccountsInv'
<1> SUFFICES ASSUME NEW u, u = call[t].arg.user PROVE AccountsInv'
  OBVIOUS
<1>0. AccountRows /\ OnCourse(call[t]) /\ misused = FALSE
  BY DEF AccountsInv
<1>1. On(t, "verify_2fa", "read") /\ UNCHANGED acTables
      /\ UNCHANGED <<users, second, things, reset_tokens, attempts, sessions>>
  BY DEF CompareCode, acTables
<1>2. CASE ~ Registered(u) \/ ~ second[u].fresh
  <2>1. UNCHANGED acVars /\ Finish(t)
    BY <1>1, <1>2 DEF CompareCode, Arg, acVars
  <2> QED
    BY <1>1, <2>1, Refused DEF On
<1>3. CASE Registered(u) /\ second[u].fresh
  <2>1. /\ guesses' = [guesses EXCEPT ![u] = IF call[t].arg.old THEN @ ELSE @ + 1]
        /\ UNCHANGED <<agreed, wished, gone, uses, misused, tangled>>
        /\ \/ second[u].code = call[t].arg.code /\ Goto(t, "enable")
           \/ Finish(t)
    BY <1>3 DEF CompareCode, Arg
  <2>2. /\ u \in Users /\ call[t].op = "verify_2fa" /\ call[t].arg.code \in Nat
    BY <1>0, <1>1 DEF OnCourse, Proving, On
  <2>3. /\ GoesOn(t) /\ (call'[t].op # "none" => call'[t].at = "enable" /\ second[u].code = call[t].arg.code)
    BY <1>1, <2>1, Walks, CallOver DEF Finish
  <2>4. LeavesBe(AcWrites(call[t]))
    <3>1. \A v \in Users : second[v].code \in Nat
      BY <1>0 DEF AccountRows
    <3>2. \A e : WithEmail(e)' = WithEmail(e)
      BY <1>1 DEF WithEmail, Registered
    <3>3. \A v \in Users : Registered(v)' <=> Registered(v)
      BY <1>1 DEF Registered
    <3> QED
      BY <1>1, <2>1, <3>1, <3>2, <3>3 DEF LeavesBe
  <2>5. /\ guesses' \in [Users -> Nat]
        /\ \A v \in Users : guesses'[v] = IF v = u /\ ~ call[t].arg.old THEN guesses[u] + 1 ELSE guesses[v]
    BY <1>0, <2>1, <2>2 DEF AccountRows
  <2>6. AccountRows'
    BY <1>0, <1>1, <2>1, <2>5 DEF AccountRows, Registered
  <2>7. EmailsHold'
    BY <1>1, <2>1, EmailsOn DEF WithEmail, Registered, AccountsInv, EmailsHold
  <2>8. FlagsHold' /\ ThingsHold' /\ (\A k \in Tokens : TokenSpent(k)')
    BY <1>1, <2>1, <2>2, <2>3, FlagsOn, ThingsOn, TokensOn DEF Registered, On
  <2>9. GuessesCounted'
    <3> SUFFICES ASSUME NEW v \in Users PROVE guesses'[v] + Cardinality(Guessing(v)') <= attempts[v]
      BY <1>1 DEF GuessesCounted
    <3>1. Guessing(v)' \subseteq Guessing(v) /\ t \notin Guessing(v)'
      BY <2>3 DEF GoesOn, Only, Guessing, On, Arg
    <3>2. IsFiniteSet(Guessing(v))
      BY TasksFinite, FS_Subset DEF Guessing
    <3>3. /\ Cardinality(Guessing(v)') \in Nat /\ Cardinality(Guessing(v)) \in Nat
          /\ guesses[v] \in Nat /\ attempts[v] \in Nat
          /\ guesses[v] + Cardinality(Guessing(v)) <= attempts[v]
      BY <1>0, <3>1, <3>2, FS_Subset, FS_CardinalityType DEF AccountRows, AccountsInv, GuessesCounted
    <3>4. CASE v = u /\ ~ call[t].arg.old
      <4>1. t \in Guessing(v)
        BY <1>1, <3>4 DEF Guessing, Arg
      <4>2. Guessing(v)' \subseteq Guessing(v) \ {t}
        BY <3>1
      <4>3. /\ IsFiniteSet(Guessing(v) \ {t})
            /\ Cardinality(Guessing(v) \ {t}) = Cardinality(Guessing(v)) - 1
        BY <3>2, <4>1, FS_RemoveElement
      <4>4. Cardinality(Guessing(v)') <= Cardinality(Guessing(v) \ {t})
        BY <4>2, <4>3, FS_Subset
      <4> QED
        BY <2>5, <3>3, <3>4, <4>3, <4>4
    <3>5. CASE ~ (v = u /\ ~ call[t].arg.old)
      <4>1. Cardinality(Guessing(v)') <= Cardinality(Guessing(v))
        BY <3>1, <3>2, FS_Subset
      <4>2. guesses'[v] = guesses[v]
        BY <2>5, <3>5
      <4> QED
        BY <3>3, <4>1, <4>2
    <3> QED
      BY <3>4, <3>5
  <2>10. ASSUME call'[t].op # "none" PROVE OnCourse(call[t])'
    <3>1. /\ call'[t].op = "verify_2fa" /\ call'[t].at = "enable" /\ call'[t].arg = call[t].arg
      BY <2>2, <2>3, <2>10 DEF GoesOn
    <3>2. ~ call[t].arg.late
      <4>1. ~ CodeEnded(call[t])
        BY <1>3, <2>2, <2>3, <2>10 DEF CodeEnded
      <4> QED
        BY <1>0, <2>2, <4>1 DEF OnCourse, Proving
    <3>3. Proving(call[t])'
      BY <1>0, <2>2, <3>1, <3>2 DEF OnCourse, Proving
    <3> QED
      BY <3>1, <3>3 DEF OnCourse, AcCalls, Registering, Resetting, Flagging, DeletingAccount
  <2>11. misused' = FALSE
    BY <1>0, <2>1
  <2> QED
    BY <2>3, <2>4, <2>6, <2>7, <2>8, <2>9, <2>10, <2>11, AccountsOn
<1> QED
  BY <1>2, <1>3

-----------------------------------------------------------------------------
(* Registration and deletion *)

\* A new account.
LEMMA AccountIs ==
    ASSUME NEW e, NEW p
    PROVE  Account(e, p) = [is |-> "whole", email |-> e, password |-> p, flags |-> AllOn, blocked |-> FALSE]
<1>1. \A r : [r EXCEPT !.is = "whole", !.email = e, !.password = p] =
             [[[r EXCEPT !.is = "whole"] EXCEPT !.email = e] EXCEPT !.password = p]
  OBVIOUS
<1>2. \A f, b : [[is |-> "none", email |-> "none", password |-> "none", flags |-> f, blocked |-> b]
                    EXCEPT !.is = "whole"] =
                 [is |-> "whole", email |-> "none", password |-> "none", flags |-> f, blocked |-> b]
  OBVIOUS
<1>3. \A f, b : [[is |-> "whole", email |-> "none", password |-> "none", flags |-> f, blocked |-> b]
                    EXCEPT !.email = e] =
                 [is |-> "whole", email |-> e, password |-> "none", flags |-> f, blocked |-> b]
  OBVIOUS
<1>4. \A f, b : [[is |-> "whole", email |-> e, password |-> "none", flags |-> f, blocked |-> b]
                    EXCEPT !.password = p] =
                 [is |-> "whole", email |-> e, password |-> p, flags |-> f, blocked |-> b]
  OBVIOUS
<1>5. Account(e, p) = [[[NoUser EXCEPT !.is = "whole"] EXCEPT !.email = e] EXCEPT !.password = p]
  BY <1>1, Zenon DEF Account
<1>6. [NoUser EXCEPT !.is = "whole"] =
        [is |-> "whole", email |-> "none", password |-> "none", flags |-> AllOn, blocked |-> FALSE]
  BY <1>2, Zenon DEF NoUser
<1>7. [[NoUser EXCEPT !.is = "whole"] EXCEPT !.email = e] =
        [is |-> "whole", email |-> e, password |-> "none", flags |-> AllOn, blocked |-> FALSE]
  BY <1>3, <1>6, Zenon
<1> QED
  BY <1>4, <1>5, <1>7, Zenon

LEMMA UserInserted ==
    ASSUME AccountsInv, NEW t \in Tasks, InsertUser(t)
    PROVE  AccountsInv'
<1> SUFFICES ASSUME NEW e, e = call[t].arg.email, NEW p, p = call[t].arg.password PROVE AccountsInv'
  OBVIOUS
<1>0. AccountRows /\ OnCourse(call[t]) /\ misused = FALSE
  BY DEF AccountsInv
<1>1. PICK u \in Users \ (sessions \cup gone) :
        /\ users' = [users EXCEPT ![u] = Account(e, p)]
        /\ sessions' = sessions \cup {u}
        /\ agreed' = [agreed EXCEPT ![u] = p]
  BY DEF InsertUser, Arg
<1>2. /\ call[t].op \in {"register", "create_user"} /\ call[t].at = "insert" /\ Finish(t)
      /\ UNCHANGED <<second, things, reset_tokens, attempts, wished, gone, uses, guesses, misused, tangled>>
  BY DEF InsertUser, On
<1>3. e \in Emails /\ p \in Passwords /\ (Orderly("email", e) => WithEmail(e) = {})
  BY <1>0, <1>2 DEF OnCourse, Registering
<1>4. GoesOn(t) /\ call'[t].op = "none"
  BY <1>1, <1>2, CallOver DEF Finish
<1>5. Account(e, p) = [is |-> "whole", email |-> e, password |-> p, flags |-> AllOn, blocked |-> FALSE]
  BY AccountIs
<1>6. AllOn \in Flags
  BY DEF AllOn, Flags
<1>7. /\ \A v \in Users : v # u => users'[v] = users[v]
      /\ users'[u].is = "whole" /\ users'[u].email = e /\ users'[u].password = p /\ users'[u].flags = AllOn
      /\ users' \in [Users -> UserRow]
  <2>1. \A v \in Users : users'[v] = IF v = u THEN Account(e, p) ELSE users[v]
    BY <1>0, <1>1 DEF AccountRows
  <2>2. users'[u] = [is |-> "whole", email |-> e, password |-> p, flags |-> AllOn, blocked |-> FALSE]
    BY <1>5, <2>1
  <2>3. users'[u] \in UserRow
    BY <1>3, <1>6, <2>2 DEF UserRow
  <2>4. users' = [v \in Users |-> users'[v]] /\ \A v \in Users : users'[v] \in UserRow
    BY <1>0, <1>1, <2>1, <2>3 DEF AccountRows
  <2> QED
    BY <2>1, <2>2, <2>4
<1>8. ~ Registered(u) /\ Registered(u)' /\ \A v \in Users : v # u => (Registered(v)' <=> Registered(v))
  BY <1>0, <1>1, <1>7 DEF AccountRows, Registered
<1>9. \A f : WithEmail(f)' \subseteq WithEmail(f) \cup (IF f = e THEN {u} ELSE {})
  BY <1>7, <1>8 DEF WithEmail
<1>10. LeavesBe(AcWrites(call[t]))
  <2>1. <<"email", e>> \in AcWrites(call[t])
    BY <1>2, WritesAbout
  <2>2. \A f : <<"email", f>> \notin AcWrites(call[t]) => WithEmail(f)' \subseteq WithEmail(f)
    BY <1>9, <2>1
  <2>3. \A v \in Users : second[v].code \in Nat
    BY <1>0 DEF AccountRows
  <2> QED
    BY <1>1, <1>2, <1>7, <1>8, <2>2, <2>3 DEF LeavesBe
<1>11. AccountRows'
  <2>1. \A v \in Users : Registered(v)' => v \in sessions' /\ v \notin gone'
    BY <1>0, <1>1, <1>2, <1>8 DEF AccountRows
  <2>2. agreed' = [v \in Users |-> agreed'[v]] /\ sessions' \subseteq Users
    BY <1>0, <1>1 DEF AccountRows
  <2> QED
    BY <1>0, <1>2, <1>7, <2>1, <2>2 DEF AccountRows
<1>12. EmailsHold'
  <2>1. \A f : Orderly("email", f)' => \A v, w \in WithEmail(f)' : v = w
    <3> SUFFICES ASSUME NEW f, Orderly("email", f)', NEW v \in WithEmail(f)', NEW w \in WithEmail(f)'
                 PROVE  v = w
      OBVIOUS
    <3>1. Orderly("email", f)
      BY <1>2 DEF Orderly
    <3>2. CASE f = e
      BY <1>3, <1>9, <3>1, <3>2
    <3>3. CASE f # e
      BY <1>9, <3>1, <3>3 DEF AccountsInv, EmailsHold
    <3> QED
      BY <3>2, <3>3
  <2>2. \A v \in Users : Registered(v)' => users'[v].password = agreed'[v]
    <3>1. agreed'[u] = p /\ \A v \in Users : v # u => agreed'[v] = agreed[v]
      BY <1>0, <1>1 DEF AccountRows
    <3> QED
      BY <1>7, <1>8, <3>1 DEF AccountsInv, EmailsHold
  <2> QED
    BY <2>1, <2>2 DEF EmailsHold
<1>13. FlagsHold'
  <2>1. wished[u] = AllOn
    BY <1>1 DEF AccountsInv, FlagsHold
  <2>2. \A v \in Users : Registered(v)' /\ Orderly("flags", v)' => users'[v].flags = wished'[v]
    BY <1>2, <1>7, <1>8, <2>1 DEF AccountsInv, FlagsHold, FlagsKept, Orderly
  <2>3. \A v \in Users \ sessions' : wished'[v] = AllOn
    BY <1>1, <1>2 DEF AccountsInv, FlagsHold
  <2> QED
    BY <2>2, <2>3 DEF FlagsHold, FlagsKept
<1>14. ThingsHold' /\ GuessesCounted' /\ (\A k \in Tokens : TokenSpent(k)')
  BY <1>2, <1>4, ThingsOn, GuessesOn, TokensOn DEF On
<1> QED
  BY <1>0, <1>2, <1>4, <1>10, <1>11, <1>12, <1>13, <1>14, AccountsOn

LEMMA UserDeleted ==
    ASSUME AccountsInv, NEW t \in Tasks, DeleteUser(t)
    PROVE  AccountsInv'
<1> SUFFICES ASSUME NEW u, u = call[t].arg.user PROVE AccountsInv'
  OBVIOUS
<1>0. AccountRows /\ OnCourse(call[t]) /\ misused = FALSE
  BY DEF AccountsInv
<1>1. /\ call[t].op \in {"delete_account", "delete_user"} /\ call[t].at = "row" /\ Finish(t)
      /\ users' = [users EXCEPT ![u] = NoUser]
      /\ second' = [second EXCEPT ![u] = [NoCode EXCEPT !.code = second[u].code]]
      /\ gone' = gone \cup {u}
      /\ UNCHANGED <<things, reset_tokens, attempts, sessions, agreed, wished, uses, guesses, misused, tangled>>
  BY DEF DeleteUser, On, Arg
<1>2. u \in Users /\ (Orderly("things", u) => things[u] \subseteq {"files"})
  BY <1>0, <1>1 DEF OnCourse, DeletingAccount
<1>3. GoesOn(t) /\ call'[t].op = "none"
  BY <1>1, CallOver DEF Finish
<1>4. /\ users' \in [Users -> UserRow] /\ users'[u].is = "none"
      /\ \A v \in Users : v # u => users'[v] = users[v]
  <2>1. NoUser \in UserRow /\ NoUser.is = "none"
    BY DEF NoUser, UserRow, Flags, AllOn
  <2> QED
    BY <1>0, <1>1, <1>2, <2>1 DEF AccountRows
<1>5. /\ second' \in [Users -> [code : Nat, fresh : BOOLEAN, on : BOOLEAN]]
      /\ \A v \in Users : second'[v].code = second[v].code /\ (~ second[v].fresh => ~ second'[v].fresh)
  <2>1. second[u].code \in Nat
    BY <1>0, <1>2 DEF AccountRows
  <2>2. [NoCode EXCEPT !.code = second[u].code] = [code |-> second[u].code, fresh |-> FALSE, on |-> FALSE]
    <3>1. \A n, f, o : [[code |-> 0, fresh |-> f, on |-> o] EXCEPT !.code = n] = [code |-> n, fresh |-> f, on |-> o]
      OBVIOUS
    <3> QED
      BY <3>1, Zenon DEF NoCode
  <2>3. \A v \in Users : second'[v] = IF v = u THEN [code |-> second[u].code, fresh |-> FALSE, on |-> FALSE]
                                      ELSE second[v]
    BY <1>0, <1>1, <2>2 DEF AccountRows
  <2>4. [code |-> second[u].code, fresh |-> FALSE, on |-> FALSE] \in [code : Nat, fresh : BOOLEAN, on : BOOLEAN]
    BY <2>1
  <2>5. second' = [v \in Users |-> second'[v]]
    BY <1>0, <1>1 DEF AccountRows
  <2>6. \A v \in Users : second'[v] \in [code : Nat, fresh : BOOLEAN, on : BOOLEAN]
    BY <1>0, <2>3, <2>4 DEF AccountRows
  <2> QED
    BY <2>3, <2>5, <2>6
<1>6. ~ Registered(u)' /\ \A v \in Users : v # u => (Registered(v)' <=> Registered(v))
  BY <1>4 DEF Registered
<1>7. \A e : WithEmail(e)' \subseteq WithEmail(e)
  BY <1>4, <1>6 DEF WithEmail
<1>8. LeavesBe(AcWrites(call[t]))
  <2>1. \A v \in Users : second[v].code \in Nat
    BY <1>0 DEF AccountRows
  <2> QED
    BY <1>1, <1>4, <1>5, <1>6, <1>7, <2>1 DEF LeavesBe
<1>9. AccountRows'
  BY <1>0, <1>1, <1>4, <1>5, <1>6 DEF AccountRows
<1>10. EmailsHold'
  <2>1. \A v \in Users : Registered(v)' => users'[v].password = agreed'[v]
    BY <1>1, <1>4, <1>6 DEF AccountsInv, EmailsHold
  <2> QED
    BY <1>1, <1>7, <2>1, EmailsOn
<1>11. FlagsHold'
  BY <1>1, <1>4, <1>6, FlagsOn
<1>12. ThingsHold'
  BY <1>1, <1>2 DEF AccountsInv, ThingsHold, Orderly
<1>13. GuessesCounted' /\ (\A k \in Tokens : TokenSpent(k)')
  BY <1>1, <1>3, GuessesOn, TokensOn DEF On
<1> QED
  BY <1>0, <1>1, <1>3, <1>8, <1>9, <1>10, <1>11, <1>12, <1>13, AccountsOn

\* An assistant that is created after its user is deleted stays.
LEMMA AssistantCreated ==
    ASSUME AccountsInv, NEW t \in Tasks, CreateAssistant(t)
    PROVE  AccountsInv'
<1> SUFFICES ASSUME NEW u, u = call[t].arg.user PROVE AccountsInv'
  OBVIOUS
<1>0. AccountRows /\ OnCourse(call[t]) /\ misused = FALSE
  BY DEF AccountsInv
<1>1. /\ call[t].op = "create_assistant" /\ Finish(t)
      /\ things' = [things EXCEPT ![u] = @ \cup {"assistant"}]
      /\ tangled' = IF u \in gone THEN tangled \cup {<<"things", u>>} ELSE tangled
      /\ UNCHANGED <<users, second, reset_tokens, attempts, sessions, agreed, wished, gone, uses, guesses, misused>>
  BY DEF CreateAssistant, On, Arg
<1>2. u \in Users /\ <<"things", u>> \in AcWrites(call[t])
  BY <1>0, <1>1, WritesAbout DEF OnCourse, Proving
<1>3. tangled \subseteq tangled' /\ (u \in gone => ~ Orderly("things", u)')
  BY <1>1 DEF Orderly
<1>4. GoesOn(t) /\ call'[t].op = "none"
  BY <1>1, <1>3, CallOver DEF Finish
<1>5. /\ things' \in [Users -> SUBSET {"assistant", "tools", "files"}]
      /\ things'[u] = things[u] \cup {"assistant"} /\ \A v \in Users : v # u => things'[v] = things[v]
  BY <1>0, <1>1, <1>2 DEF AccountRows
<1>6. \A v \in Users : Registered(v)' <=> Registered(v)
  BY <1>1 DEF Registered
<1>7. \A e : WithEmail(e)' = WithEmail(e)
  BY <1>1 DEF WithEmail, Registered
<1>8. LeavesBe(AcWrites(call[t]))
  <2>1. \A v \in Users : second[v].code \in Nat
    BY <1>0 DEF AccountRows
  <2> QED
    BY <1>1, <1>2, <1>5, <1>6, <1>7, <2>1 DEF LeavesBe
<1>9. AccountRows'
  BY <1>0, <1>1, <1>5 DEF AccountRows, Registered
<1>10. EmailsHold'
  BY <1>1, <1>3, <1>7, EmailsOn DEF Registered, AccountsInv, EmailsHold
<1>11. FlagsHold'
  BY <1>1, <1>3, FlagsOn DEF Registered
<1>12. ThingsHold'
  BY <1>1, <1>3, <1>5 DEF AccountsInv, ThingsHold, Orderly
<1>13. GuessesCounted' /\ (\A k \in Tokens : TokenSpent(k)')
  BY <1>1, <1>4, GuessesOn, TokensOn DEF On
<1> QED
  BY <1>0, <1>1, <1>4, <1>8, <1>9, <1>10, <1>11, <1>12, <1>13, AccountsOn

\* A deletion goes on whether its statements fail or not.
LEMMA SomeDeleted ==
    ASSUME AccountsInv, NEW t \in Tasks, NEW what, NEW at, DeletesSome(t, what, at),
           call[t].op \in {"delete_account", "delete_user"},
           \/ /\ at = "assistants" /\ what \subseteq {"tools", "files"}
              /\ Orderly("things", Arg(t).user) => "tools" \in what \/ "tools" \notin things[Arg(t).user]
           \/ at = "row" /\ what = {"assistant"} /\ call[t].at = "assistants"
    PROVE  AccountsInv'
<1> SUFFICES ASSUME NEW u, u = call[t].arg.user PROVE AccountsInv'
  OBVIOUS
<1>0. AccountRows /\ OnCourse(call[t]) /\ misused = FALSE
  BY DEF AccountsInv
<1>1. /\ UNCHANGED <<users, second, reset_tokens, attempts, sessions, agreed, wished, gone, uses, guesses, misused>>
      /\ \/ things' = [things EXCEPT ![u] = @ \ what] /\ Goto(t, at) /\ UNCHANGED tangled
         \/ /\ call' = [call EXCEPT ![t].at = at] /\ UNCHANGED things
            /\ tangled' = tangled \cup {<<"things", u>>}
  BY DEF DeletesSome, Arg
<1>2. /\ u \in Users /\ <<"things", u>> \in AcWrites(call[t])
      /\ Orderly("things", u) /\ call[t].at = "assistants" => "tools" \notin things[u]
  BY <1>0, WritesAbout DEF OnCourse, DeletingAccount
<1>3. tangled \subseteq tangled'
  BY <1>1
<1>4. /\ GoesOn(t) /\ call'[t].op = call[t].op /\ call'[t].at = at /\ call'[t].arg = call[t].arg
  BY <1>1, <1>3, Walks
<1>5. /\ things' \in [Users -> SUBSET {"assistant", "tools", "files"}]
      /\ \A v \in Users : v # u => things'[v] = things[v]
      /\ things'[u] \subseteq things[u]
      /\ Orderly("things", u)' => Orderly("things", u) /\ things'[u] = things[u] \ what
  <2>1. things \in [Users -> SUBSET {"assistant", "tools", "files"}]
    BY <1>0 DEF AccountRows
  <2>2. CASE things' = [things EXCEPT ![u] = @ \ what] /\ UNCHANGED tangled
    BY <1>2, <2>1, <2>2 DEF Orderly
  <2>3. CASE UNCHANGED things /\ tangled' = tangled \cup {<<"things", u>>}
    BY <1>2, <2>1, <2>3 DEF Orderly
  <2> QED
    BY <1>1, <2>2, <2>3
<1>6. \A v \in Users : Registered(v)' <=> Registered(v)
  BY <1>1 DEF Registered
<1>7. \A e : WithEmail(e)' = WithEmail(e)
  BY <1>1 DEF WithEmail, Registered
<1>8. LeavesBe(AcWrites(call[t]))
  <2>1. \A v \in Users : second[v].code \in Nat
    BY <1>0 DEF AccountRows
  <2> QED
    BY <1>1, <1>2, <1>5, <1>6, <1>7, <2>1 DEF LeavesBe
<1>9. AccountRows'
  BY <1>0, <1>1, <1>5 DEF AccountRows, Registered
<1>10. EmailsHold'
  BY <1>1, <1>3, <1>7, EmailsOn DEF Registered, AccountsInv, EmailsHold
<1>11. FlagsHold'
  BY <1>1, <1>3, FlagsOn DEF Registered
<1>12. Orderly("things", u)' =>
            /\ "tools" \notin things'[u]
            /\ at = "row" => things'[u] \subseteq {"files"}
  <2> SUFFICES ASSUME Orderly("things", u)'
               PROVE  /\ "tools" \notin things'[u]
                      /\ at = "row" => things'[u] \subseteq {"files"}
    OBVIOUS
  <2>1. Orderly("things", u) /\ things'[u] = things[u] \ what
    BY <1>5
  <2>2. things[u] \subseteq {"assistant", "tools", "files"}
    BY <1>0, <1>2 DEF AccountRows
  <2> QED
    BY <1>2, <2>1, <2>2 DEF Arg
<1>13. ThingsHold'
  <2> SUFFICES ASSUME NEW v \in Users, Orderly("things", v)'
               PROVE  /\ "tools" \in things'[v] => "assistant" \in things'[v]
                      /\ v \in gone' => things'[v] \subseteq {"files"}
    BY DEF ThingsHold
  <2>1. /\ Orderly("things", v)
        /\ "tools" \in things[v] => "assistant" \in things[v]
        /\ v \in gone => things[v] \subseteq {"files"}
    BY <1>3 DEF AccountsInv, ThingsHold, Orderly
  <2> QED
    BY <1>1, <1>5, <1>12, <2>1
<1>14. GuessesCounted' /\ (\A k \in Tokens : TokenSpent(k)')
  BY <1>1, <1>4, GuessesOn, TokensOn DEF On
<1>15. OnCourse(call[t])'
  <2>1. DeletingAccount(call[t])'
    BY <1>2, <1>4, <1>12 DEF DeletingAccount
  <2> QED
    BY <1>4, <2>1 DEF OnCourse, AcCalls, Registering, Resetting, Flagging, Proving
<1> QED
  BY <1>0, <1>1, <1>4, <1>8, <1>9, <1>10, <1>11, <1>13, <1>14, <1>15, AccountsOn

LEMMA AccountDeletes ==
    ASSUME AccountsInv, NEW t \in Tasks, DeleteRelated(t) \/ DeleteAssistants(t)
    PROVE  AccountsInv'
<1>1. CASE DeleteRelated(t)
  <2>1. call[t].op \in {"delete_account", "delete_user"}
    BY <1>1 DEF DeleteRelated, On
  <2>2. PICK what \in SUBSET {"tools", "files"} :
            /\ DeletesSome(t, what, "assistants")
            /\ "assistant" \in things[Arg(t).user] => "tools" \in what
    BY <1>1 DEF DeleteRelated
  <2>3. Arg(t).user \in Users
    BY <2>1 DEF AccountsInv, OnCourse, DeletingAccount, Arg
  <2>4. Orderly("things", Arg(t).user) => "tools" \in what \/ "tools" \notin things[Arg(t).user]
    BY <2>2, <2>3 DEF AccountsInv, ThingsHold
  <2> QED
    BY <2>1, <2>2, <2>4, SomeDeleted
<1>2. CASE DeleteAssistants(t)
  <2>1. /\ call[t].op \in {"delete_account", "delete_user"} /\ call[t].at = "assistants"
        /\ DeletesSome(t, {"assistant"}, "row")
    BY <1>2 DEF DeleteAssistants, On
  <2> QED
    BY <2>1, SomeDeleted
<1> QED
  BY <1>1, <1>2

-----------------------------------------------------------------------------
\* A call begins with what its caller names.
AccountCall(t, op, at, arg) ==
    /\ BeginAc(t, op, at, arg)
    /\ UNCHANGED <<users, second, things, reset_tokens, sessions, agreed, wished, gone, uses, guesses, misused>>
    /\ op \in AcCalls \ {"none"} /\ at \in {"find", "token", "verify", "read", "write", "check"}
    /\ \/ UNCHANGED attempts /\ op # "verify_2fa"
       \/ /\ op = "verify_2fa" /\ at = "read" /\ arg.user \in Users /\ attempts[arg.user] < MaxAttempts
          /\ attempts' = [attempts EXCEPT ![arg.user] = @ + 1]

LEMMA AccountCallBegins ==
    ASSUME AccountsInv, NEW t \in Tasks, NEW op, NEW at, NEW arg, AccountCall(t, op, at, arg),
           OnCourse([op |-> op, at |-> at, arg |-> arg, got |-> <<>>])
    PROVE  AccountsInv'
<1> DEFINE c == [op |-> op, at |-> at, arg |-> arg, got |-> <<>>]
<1>0. AccountRows /\ Shaped /\ misused = FALSE /\ Begin(t, op, at, arg)
  BY DEF AccountsInv, AccountCall, BeginAc
<1>1. /\ UNCHANGED <<users, second, things, reset_tokens, sessions, agreed, wished, gone, uses, guesses, misused>>
      /\ op # "none" /\ tangled \subseteq tangled'
      /\ tangled' = tangled \cup (AcWrites([op |-> op, arg |-> arg]) \cap UNION {AcWrites(call[o]) : o \in Others(t)})
  BY DEF AccountCall, BeginAc
<1>2. /\ call[t].op = "none" /\ call'[t] = c /\ Only(t) /\ Shaped'
  BY <1>0 DEF Begin, BeginWith, Running, Shaped, Only
<1>3. /\ \A v \in Users : second[v].code \in Nat
      /\ \A e : WithEmail(e)' = WithEmail(e)
      /\ \A v \in Users : Registered(v)' <=> Registered(v)
  BY <1>0, <1>1 DEF AccountRows, WithEmail, Registered
<1>4. LeavesBe({})
  BY <1>1, <1>3 DEF LeavesBe
<1>5. /\ attempts' \in [Users -> 0 .. MaxAttempts]
      /\ \A v \in Users : attempts'[v] = IF op = "verify_2fa" /\ v = arg.user THEN attempts[v] + 1 ELSE attempts[v]
  <2>1. CASE UNCHANGED attempts /\ op # "verify_2fa"
    BY <1>0, <2>1 DEF AccountRows
  <2>2. CASE /\ op = "verify_2fa" /\ at = "read" /\ arg.user \in Users /\ attempts[arg.user] < MaxAttempts
             /\ attempts' = [attempts EXCEPT ![arg.user] = @ + 1]
    <3>1. attempts[arg.user] + 1 \in 0 .. MaxAttempts
      BY <1>0, <2>2 DEF AccountRows
    <3> QED
      BY <1>0, <2>2, <3>1 DEF AccountRows
  <2> QED
    BY <2>1, <2>2 DEF AccountCall
<1>6. AccountRows'
  BY <1>0, <1>1, <1>3, <1>5 DEF AccountRows
<1>7. EmailsHold' /\ FlagsHold' /\ ThingsHold' /\ misused' = FALSE
  <2>1. \A u \in Users : Registered(u)' => users'[u].password = agreed'[u]
    BY <1>1, <1>3 DEF AccountsInv, EmailsHold
  <2>2. EmailsHold'
    BY <1>1, <1>3, <2>1, EmailsOn
  <2> QED
    BY <1>0, <1>1, <1>3, <2>2, FlagsOn, ThingsOn
<1>8. ASSUME NEW k \in Tokens PROVE TokenSpent(k)'
  <2>1. \A o \in Tasks : On(o, "reset_password", "delete") => call'[o] = call[o]
    BY <1>2 DEF On, Only
  <2> QED
    BY <1>1, <2>1 DEF AccountsInv, TokenSpent, Orderly, On, Arg
<1>9. Unshared'
  <2>1. AcWrites(call'[t]) = AcWrites([op |-> op, arg |-> arg])
    BY <1>2 DEF AcWrites
  <2>2. \A o \in Tasks \ {t} : call'[o] = call[o]
    BY <1>2 DEF Only
  <2>3. \A o \in Tasks \ {t} : AcWrites(call'[t]) \cap AcWrites(call'[o]) \subseteq tangled'
    <3> SUFFICES ASSUME NEW o \in Tasks \ {t}, NEW x \in AcWrites(call'[t]), x \in AcWrites(call[o])
                 PROVE  x \in tangled'
      BY <2>2
    <3>1. o \in Others(t)
      BY WritesAbout DEF Others, Running
    <3>2. x \in UNION {AcWrites(call[v]) : v \in Others(t)}
      BY <3>1
    <3> QED
      BY <1>1, <2>1, <3>2
  <2>4. \A v, o \in Tasks : v # o => AcWrites(call'[v]) \cap AcWrites(call'[o]) \subseteq tangled'
    <3> SUFFICES ASSUME NEW v \in Tasks, NEW o \in Tasks, v # o
                 PROVE  AcWrites(call'[v]) \cap AcWrites(call'[o]) \subseteq tangled'
      OBVIOUS
    <3>1. CASE v = t
      BY <2>3, <3>1
    <3>2. CASE o = t
      BY <2>3, <3>2
    <3>3. CASE v # t /\ o # t
      BY <1>1, <2>2, <3>3 DEF AccountsInv, Unshared
    <3> QED
      BY <3>1, <3>2, <3>3
  <2> QED
    BY <2>4 DEF Unshared, AcWrites
<1>10. ASSUME NEW o \in Tasks PROVE OnCourse(call[o])'
  <2>1. CASE o = t
    <3>1. OnCourse(c)'
      <4>1. c.at \in {"find", "token", "verify", "read", "write", "check"} /\ (\A x, y : Orderly(x, y)' => Orderly(x, y))
        BY <1>1 DEF AccountCall, Orderly
      <4>2. Registering(c)' /\ Resetting(c)'
        BY <1>1, <1>3, <4>1 DEF OnCourse, Registering, Resetting
      <4>3. Flagging(c)'
        BY <1>1, <4>1 DEF OnCourse, Flagging, Registered
      <4>4. DeletingAccount(c)' /\ Proving(c)'
        BY <1>1, <4>1 DEF OnCourse, DeletingAccount, Proving, CodeEnded
      <4> QED
        BY <4>2, <4>3, <4>4 DEF OnCourse
    <3> QED
      BY <1>2, <2>1, <3>1
  <2>2. CASE o # t
    <3>1. OnCourse(call[o]) /\ call'[o] = call[o] /\ {} \cap AcWrites(call[o]) \subseteq tangled'
      BY <1>2, <2>2 DEF AccountsInv, Only
    <3> QED
      BY <1>1, <1>4, <1>6, <3>1, OthersOnCourse
  <2> QED
    BY <2>1, <2>2
<1>11. GuessesCounted'
  <2> SUFFICES ASSUME NEW v \in Users PROVE guesses[v] + Cardinality(Guessing(v)') <= attempts'[v]
    BY <1>1 DEF GuessesCounted
  <2>1. /\ t \notin Guessing(v) /\ Guessing(v)' \subseteq Guessing(v) \cup {t}
        /\ ~ (op = "verify_2fa" /\ v = arg.user) => Guessing(v)' \subseteq Guessing(v)
    BY <1>2 DEF Guessing, On, Arg, Only
  <2>2. IsFiniteSet(Guessing(v))
    BY TasksFinite, FS_Subset DEF Guessing
  <2>3. /\ IsFiniteSet(Guessing(v) \cup {t})
        /\ Cardinality(Guessing(v) \cup {t}) = Cardinality(Guessing(v)) + 1
    BY <2>1, <2>2, FS_AddElement
  <2>4. /\ Cardinality(Guessing(v)) \in Nat /\ guesses[v] \in Nat /\ attempts[v] \in Nat
        /\ guesses[v] + Cardinality(Guessing(v)) <= attempts[v]
    BY <1>0, <2>2, FS_CardinalityType DEF AccountRows, AccountsInv, GuessesCounted
  <2>5. /\ Cardinality(Guessing(v)') \in Nat
        /\ Cardinality(Guessing(v)') <= Cardinality(Guessing(v)) + 1
        /\ ~ (op = "verify_2fa" /\ v = arg.user) => Cardinality(Guessing(v)') <= Cardinality(Guessing(v))
    BY <2>1, <2>2, <2>3, FS_Subset, FS_CardinalityType
  <2> QED
    BY <1>5, <2>4, <2>5
<1> QED
  BY <1>2, <1>6, <1>7, <1>8, <1>9, <1>10, <1>11 DEF AccountsInv

\* Every call that begins is on course.
LEMMA AccountCalls ==
    ASSUME AccountsInv, NEW t \in Tasks,
           GuestCalls(t) \/ ResetCalls(t) \/ SessionCalls(t) \/ VerifyCalls(t) \/ AdminCalls(t)
    PROVE  AccountsInv'
<1>0. AccountRows /\ sessions \subseteq Users
  BY DEF AccountsInv, AccountRows
<1> USE DEF AcCalls, OnCourse, Registering, Resetting, Flagging, DeletingAccount, Proving
<1>1. CASE GuestCalls(t)
  <2>0. UNCHANGED <<users, second, things, reset_tokens, attempts, sessions, agreed, wished, gone, uses, guesses, misused>>
    BY <1>1 DEF GuestCalls, acTables
  <2>1. PICK e \in Emails :
            \/ \E op \in {"register", "create_user"}, p \in Passwords :
                    BeginAc(t, op, "find", [email |-> e, password |-> p])
            \/ BeginAc(t, "forgot_password", "find", [email |-> e])
    BY <1>1 DEF GuestCalls
  <2>2. ASSUME NEW op \in {"register", "create_user"}, NEW p \in Passwords,
               BeginAc(t, op, "find", [email |-> e, password |-> p])
        PROVE  AccountsInv'
    BY <2>0, <2>2, AccountCallBegins DEF AccountCall
  <2>3. CASE BeginAc(t, "forgot_password", "find", [email |-> e])
    BY <2>0, <2>3, AccountCallBegins DEF AccountCall
  <2> QED
    BY <2>1, <2>2, <2>3
<1>2. CASE ResetCalls(t)
  <2>0. UNCHANGED <<users, second, things, reset_tokens, attempts, sessions, agreed, wished, gone, uses, guesses, misused>>
    BY <1>2 DEF ResetCalls, acTables
  <2>1. PICK k \in Tokens, p \in Passwords :
            /\ reset_tokens[k].is # "none"
            /\ BeginAc(t, "reset_password", "token", [token |-> k, user |-> reset_tokens[k].of,
                            password |-> p, late |-> reset_tokens[k].is # "valid"])
    BY <1>2 DEF ResetCalls
  <2> SUFFICES ASSUME NEW arg, arg = [token |-> k, user |-> reset_tokens[k].of,
                            password |-> p, late |-> reset_tokens[k].is # "valid"]
               PROVE  AccountsInv'
    OBVIOUS
  <2>2. arg.token = k /\ arg.user \in Users /\ arg.password = p /\ (arg.late => reset_tokens[k].is # "valid")
    BY <1>0 DEF AccountRows
  <2> QED
    BY <2>0, <2>1, <2>2, AccountCallBegins DEF AccountCall
<1>3. CASE SessionCalls(t)
  <2>0. UNCHANGED <<users, second, things, reset_tokens, attempts, sessions, agreed, wished, gone, uses, guesses, misused>>
    BY <1>3 DEF SessionCalls, acTables
  <2>1. PICK u \in sessions :
            \/ \E p, q \in Passwords : BeginAc(t, "change_password", "verify", [user |-> u, old |-> p, new |-> q])
            \/ \E p \in Passwords : BeginAc(t, "delete_account", "verify", [user |-> u, password |-> p])
            \/ \E flag \in {"email", "system"}, b \in BOOLEAN :
                    BeginAc(t, "set_flags", "read", [user |-> u, flag |-> flag, to |-> b])
            \/ \E op \in {"update_profile", "enable_2fa", "create_assistant"} :
                    (op = "enable_2fa" => second[u].code < CodeLimit) /\ BeginAc(t, op, "write", [user |-> u])
    BY <1>3 DEF SessionCalls
  <2>2. u \in Users
    BY <1>0
  <2>3. ASSUME NEW p \in Passwords, NEW q \in Passwords,
               BeginAc(t, "change_password", "verify", [user |-> u, old |-> p, new |-> q])
        PROVE  AccountsInv'
    BY <2>0, <2>2, <2>3, AccountCallBegins DEF AccountCall
  <2>4. ASSUME NEW p \in Passwords, BeginAc(t, "delete_account", "verify", [user |-> u, password |-> p])
        PROVE  AccountsInv'
    BY <2>0, <2>2, <2>4, AccountCallBegins DEF AccountCall
  <2>5. ASSUME NEW flag \in {"email", "system"}, NEW b \in BOOLEAN,
               BeginAc(t, "set_flags", "read", [user |-> u, flag |-> flag, to |-> b])
        PROVE  AccountsInv'
    BY <2>0, <2>2, <2>5, AccountCallBegins DEF AccountCall
  <2>6. ASSUME NEW op \in {"update_profile", "enable_2fa", "create_assistant"},
               BeginAc(t, op, "write", [user |-> u])
        PROVE  AccountsInv'
    BY <2>0, <2>2, <2>6, AccountCallBegins DEF AccountCall
  <2> QED
    BY <2>1, <2>3, <2>4, <2>5, <2>6
<1>4. CASE VerifyCalls(t)
  <2>0. UNCHANGED <<users, second, things, reset_tokens, sessions, agreed, wished, gone, uses, guesses, misused>>
    BY <1>4 DEF VerifyCalls
  <2>1. PICK u \in sessions, c \in 1..CodeLimit :
            /\ attempts[u] < MaxAttempts
            /\ attempts' = [attempts EXCEPT ![u] = @ + 1]
            /\ BeginAc(t, "verify_2fa", "read", [user |-> u, code |-> c, old |-> FALSE,
                            late |-> c < second[u].code \/ (c = second[u].code /\ ~second[u].fresh)])
    BY <1>4 DEF VerifyCalls
  <2> SUFFICES ASSUME NEW arg, arg = [user |-> u, code |-> c, old |-> FALSE,
                            late |-> c < second[u].code \/ (c = second[u].code /\ ~second[u].fresh)]
               PROVE  AccountsInv'
    OBVIOUS
  <2>2. /\ arg.user = u /\ u \in Users /\ arg.code = c /\ c \in Nat
        /\ arg = [user |-> arg.user, code |-> arg.code, old |-> arg.old, late |-> arg.late]
        /\ arg.late => c < second[u].code \/ (c = second[u].code /\ ~second[u].fresh)
    <3>1. PICK l : /\ arg = [user |-> u, code |-> c, old |-> FALSE, late |-> l]
                   /\ l => c < second[u].code \/ (c = second[u].code /\ ~second[u].fresh)
      BY Zenon
    <3>2. PICK o : arg = [user |-> u, code |-> c, old |-> o, late |-> l]
      BY <3>1, Zenon
    <3>3. /\ arg.user = u /\ arg.code = c /\ arg.late = l
          /\ arg = [user |-> arg.user, code |-> arg.code, old |-> arg.old, late |-> arg.late]
      BY <3>2
    <3>4. arg.late => c < second[u].code \/ (c = second[u].code /\ ~second[u].fresh)
      BY <3>1, <3>3, Zenon
    <3> QED
      BY <1>0, <3>3, <3>4, AccountsAssumption
  <2>3. OnCourse([op |-> "verify_2fa", at |-> "read", arg |-> arg, got |-> <<>>])
    BY <2>2 DEF CodeEnded
  <2>4. AccountCall(t, "verify_2fa", "read", arg)
    BY <2>0, <2>1, <2>2 DEF AccountCall
  <2> QED
    BY <2>3, <2>4, AccountCallBegins
<1>5. CASE AdminCalls(t)
  <2>0. UNCHANGED <<users, second, things, reset_tokens, attempts, sessions, agreed, wished, gone, uses, guesses, misused>>
    BY <1>5 DEF AdminCalls, acTables
  <2>1. PICK u \in Users :
            \/ \E b \in BOOLEAN : BeginAc(t, "block_user", "check", [user |-> u, to |-> b])
            \/ BeginAc(t, "delete_user", "verify", [user |-> u])
    BY <1>5 DEF AdminCalls
  <2>2. ASSUME NEW b \in BOOLEAN, BeginAc(t, "block_user", "check", [user |-> u, to |-> b])
        PROVE  AccountsInv'
    BY <2>0, <2>2, AccountCallBegins DEF AccountCall
  <2>3. CASE BeginAc(t, "delete_user", "verify", [user |-> u])
    BY <2>0, <2>3, AccountCallBegins DEF AccountCall
  <2> QED
    BY <2>1, <2>2, <2>3
<1> QED
  BY <1>1, <1>2, <1>3, <1>4, <1>5

-----------------------------------------------------------------------------
LEMMA AccountsStart ==
    ASSUME AccountsInit, TasksInit(Budgets)
    PROVE  AccountsInv
<1> SUFFICES ASSUME NEW a, a = (CHOOSE u \in Users : TRUE), NEW e, e = (CHOOSE f \in Emails : TRUE),
                    NEW p, p = (CHOOSE q \in Passwords : TRUE)
             PROVE  AccountsInv
  OBVIOUS
<1>1. a \in Users /\ e \in Emails /\ p \in Passwords
  BY AccountsAssumption
<1>2. /\ sessions \in {{}, {a}} /\ users = [u \in Users |-> IF u \in sessions THEN Account(e, p) ELSE NoUser]
      /\ second = [u \in Users |-> NoCode] /\ attempts = [u \in Users |-> 0]
      /\ agreed = [u \in Users |-> users[u].password] /\ wished = [u \in Users |-> AllOn]
      /\ gone = {} /\ uses = [k \in Tokens |-> 0] /\ guesses = [u \in Users |-> 0]
      /\ misused = FALSE /\ tangled = {}
  BY DEF AccountsInit
<1>3. call = [t \in Tasks |-> NoCall]
  BY DEF TasksInit
<1>4. PICK has \in {{}, {"assistant", "tools", "files"}} : things = [u \in Users |-> IF u \in sessions THEN has ELSE {}]
  BY DEF AccountsInit
<1>5. PICK sent \in {"none", "valid"} :
        reset_tokens = [k \in Tokens |-> [of |-> a, is |-> IF k = 1 /\ sessions # {} THEN sent ELSE "none"]]
  BY DEF AccountsInit
<1>6. /\ Account(e, p) = [is |-> "whole", email |-> e, password |-> p, flags |-> AllOn, blocked |-> FALSE]
      /\ AllOn \in Flags
  BY AccountIs DEF AllOn, Flags
<1>7. /\ Account(e, p) \in UserRow /\ Account(e, p).flags = AllOn /\ Account(e, p).is = "whole"
      /\ NoUser \in UserRow /\ NoUser.is = "none"
  <2>1. NoUser \in UserRow /\ NoUser.is = "none"
    BY DEF NoUser, UserRow, Flags, AllOn
  <2>2. [is |-> "whole", email |-> e, password |-> p, flags |-> AllOn, blocked |-> FALSE] \in UserRow
    BY <1>1, <1>6 DEF UserRow
  <2> QED
    BY <1>6, <2>1, <2>2
<1>8. NoCode \in [code : Nat, fresh : BOOLEAN, on : BOOLEAN]
  BY DEF NoCode
<1>9. /\ \A u \in Users : Registered(u) <=> u \in sessions
      /\ \A u \in sessions : u = a /\ u \in Users
  BY <1>1, <1>2, <1>7 DEF Registered
<1>10. AccountRows
  <2>1. users \in [Users -> UserRow] /\ second \in [Users -> [code : Nat, fresh : BOOLEAN, on : BOOLEAN]]
    BY <1>2, <1>7, <1>8
  <2>2. things \in [Users -> SUBSET {"assistant", "tools", "files"}]
    BY <1>4
  <2>3. reset_tokens \in [Tokens -> [of : Users, is : {"none", "valid", "expired", "deleted"}]]
    <3> DEFINE Is(k) == IF k = 1 /\ sessions # {} THEN sent ELSE "none"
    <3>1. \A k \in Tokens : Is(k) \in {"none", "valid", "expired", "deleted"}
      OBVIOUS
    <3>2. reset_tokens = [k \in Tokens |-> [of |-> a, is |-> Is(k)]]
      BY <1>5
    <3> HIDE DEF Is
    <3> QED
      BY <1>1, <3>1, <3>2
  <2>4. attempts \in [Users -> 0 .. MaxAttempts] /\ guesses \in [Users -> Nat] /\ uses \in [Tokens -> Nat]
    BY <1>2, AccountsAssumption
  <2>5. agreed = [u \in Users |-> agreed[u]] /\ wished \in [Users -> Flags]
    BY <1>2, <1>6
  <2> QED
    BY <1>2, <1>9, <2>1, <2>2, <2>3, <2>4, <2>5 DEF AccountRows
<1>11. EmailsHold
  <2>1. \A f : \A u \in WithEmail(f) : u = a
    BY <1>9 DEF WithEmail
  <2>2. \A u \in Users : users[u].password = agreed[u]
    BY <1>2
  <2>3. \A f : \A u, v \in WithEmail(f) : u = v
    BY <2>1, Zenon
  <2> QED
    BY <2>2, <2>3, Zenon DEF EmailsHold
<1>12. FlagsHold
  <2>1. \A u \in Users : Registered(u) => users[u].flags = wished[u]
    BY <1>2, <1>7, <1>9
  <2> QED
    BY <1>2, <2>1 DEF FlagsHold, FlagsKept
<1>13. ThingsHold /\ \A k \in Tokens : TokenSpent(k)
  BY <1>2, <1>4 DEF ThingsHold, TokenSpent
<1>14. \A t \in Tasks : call[t].op = "none"
  BY <1>3 DEF NoCall
<1>15. GuessesCounted
  <2>1. \A u \in Users : Guessing(u) = {}
    BY <1>14 DEF Guessing, On
  <2> QED
    BY <1>2, <2>1, FS_EmptySet DEF GuessesCounted
<1>16. Shaped
  BY <1>3 DEF Shaped, NoCall
<1>17. Unshared /\ \A t \in Tasks : OnCourse(call[t])
  BY <1>14, WritesAbout DEF Unshared, OnCourse, AcCalls, Registering, Resetting, Flagging, DeletingAccount, Proving
<1> QED
  BY <1>2, <1>10, <1>11, <1>12, <1>13, <1>15, <1>16, <1>17 DEF AccountsInv

LEMMA AccountsStep ==
    ASSUME AccountsInv, [AccountsNext]_<<tasking, acVars>>
    PROVE  AccountsInv'
<1>1. CASE TokenExpires \/ CodeExpires
  BY <1>1, TimePasses
<1>2. CASE WindowEnds
  BY <1>2, WindowOver
<1>3. ASSUME NEW t \in Tasks,
             \/ GuestCalls(t) \/ ResetCalls(t) \/ SessionCalls(t) \/ VerifyCalls(t) \/ AdminCalls(t)
      PROVE  AccountsInv'
  BY <1>3, AccountCalls
<1>4. ASSUME NEW t \in Tasks,
             \/ FindEmail(t) \/ VerifyPassword(t) \/ FindForgotten(t) \/ ReadToken(t) \/ CheckUser(t) \/ VerifyDelete(t)
      PROVE  AccountsInv'
  BY <1>4, AccountReads
<1>5. ASSUME NEW t \in Tasks, InsertUser(t) \/ ChangePassword(t) \/ ResetPassword(t) \/ SaveToken(t) \/ DeleteToken(t)
      PROVE  AccountsInv'
  BY <1>5, UserInserted, PasswordChanged, PasswordReset, TokenSaved, TokenDeleted
<1>6. ASSUME NEW t \in Tasks, ReadFlags(t) \/ WriteFlags(t)
      PROVE  AccountsInv'
  BY <1>6, FlagsRead, FlagsWritten
<1>7. ASSUME NEW t \in Tasks, UpdateProfile(t) \/ EnableSecond(t) \/ SecondOn(t) \/ BlockUser(t) \/ CompareCode(t)
      PROVE  AccountsInv'
  BY <1>7, RowUpdates, CodeCompared
<1>8. ASSUME NEW t \in Tasks, CreateAssistant(t) \/ DeleteRelated(t) \/ DeleteAssistants(t) \/ DeleteUser(t)
      PROVE  AccountsInv'
  BY <1>8, AssistantCreated, AccountDeletes, UserDeleted
<1>9. ASSUME NEW t \in Tasks, DropAc(t)
      PROVE  AccountsInv'
  BY <1>9, AccountTaskDropped
<1>10. CASE UNCHANGED <<tasking, acVars>>
  <2>1. UNCHANGED <<call, users, second, things, reset_tokens, attempts, sessions,
                    agreed, wished, gone, uses, guesses, misused, tangled>>
    BY <1>10 DEF tasking, acVars, acTables, acHistory
  <2>2. Shaped' /\ AccountRows' /\ EmailsHold' /\ FlagsHold' /\ ThingsHold'
    BY <2>1 DEF AccountsInv, Shaped, AccountRows, EmailsHold, FlagsHold, FlagsKept, ThingsHold, WithEmail, Registered, Orderly
  <2>3. GuessesCounted' /\ Unshared'
    BY <2>1 DEF AccountsInv, GuessesCounted, Guessing, On, Arg, Unshared, AcWrites
  <2>4. \A k \in Tokens : TokenSpent(k)'
    BY <2>1 DEF AccountsInv, TokenSpent, Orderly, On, Arg
  <2>5. LeavesBe({})
    <3>1. \A v \in Users : second[v].code \in Nat
      BY DEF AccountsInv, AccountRows
    <3>2. \A e : WithEmail(e)' = WithEmail(e)
      BY <2>1 DEF WithEmail, Registered
    <3>3. \A v \in Users : Registered(v)' <=> Registered(v)
      BY <2>1 DEF Registered
    <3> QED
      BY <2>1, <3>1, <3>2, <3>3 DEF LeavesBe
  <2>6. \A t \in Tasks : OnCourse(call[t])'
    <3> TAKE t \in Tasks
    <3>1. OnCourse(call[t]) /\ call'[t] = call[t] /\ {} \cap AcWrites(call[t]) \subseteq tangled'
      BY <2>1 DEF AccountsInv
    <3> QED
      BY <2>1, <2>2, <2>5, <3>1, OthersOnCourse
  <2>7. misused' = FALSE
    BY <2>1 DEF AccountsInv
  <2> QED
    BY <2>2, <2>3, <2>4, <2>6, <2>7 DEF AccountsInv
<1> QED
  BY <1>1, <1>2, <1>3, <1>4, <1>5, <1>6, <1>7, <1>8, <1>9, <1>10 DEF AccountsNext

\* The invariant says what users and admins were told.
LEMMA AccountsRight ==
    ASSUME AccountsInv
    PROVE  AccountsHold
<1>0. AccountRows
  BY DEF AccountsInv
<1>1. LoginWorks
  <2> SUFFICES ASSUME NEW u \in Users, Registered(u), ~ users[u].blocked, Orderly("email", users[u].email)
               PROVE  CanLogin(u, agreed[u])
    BY DEF LoginWorks
  <2>1. u \in WithEmail(users[u].email)
    BY DEF WithEmail
  <2>2. WithEmail(users[u].email) = {u} /\ users[u].password = agreed[u]
    BY <2>1 DEF AccountsInv, EmailsHold
  <2> QED
    BY <2>2 DEF CanLogin
<1>2. FlagsKept
  BY DEF AccountsInv, FlagsHold
<1>3. TokensHold
  <2>1. \A k \in Tokens : Orderly("token", k) => uses[k] <= 1
    BY <1>0 DEF AccountsInv, TokenSpent, AccountRows
  <2> QED
    BY <2>1 DEF TokensHold, AccountsInv
<1>4. GuessesBounded
  <2> SUFFICES ASSUME NEW u \in Users PROVE guesses[u] <= MaxAttempts
    BY DEF GuessesBounded
  <2>1. Cardinality(Guessing(u)) \in Nat
    BY TasksFinite, FS_Subset, FS_CardinalityType DEF Guessing
  <2> QED
    BY <1>0, <2>1, AccountsAssumption DEF AccountRows, AccountsInv, GuessesCounted
<1>5. AccountDeleted
  <2> SUFFICES ASSUME NEW u \in gone PROVE ~ Registered(u) /\ (Orderly("things", u) => things[u] \subseteq {"files"})
    BY DEF AccountDeleted
  <2> QED
    BY <1>0 DEF AccountRows, AccountsInv, ThingsHold
<1> QED
  BY <1>1, <1>2, <1>3, <1>4, <1>5 DEF AccountsHold

\* Whoever was agreed that a password is set can log in with it; a change of a
\* notification flag keeps the other; a reset token or a code that has ended is
\* refused, and a token sets one password; a window compares no more codes than
\* the limit; and a deleted account is never an account again.  Whatever the
\* users, the e-mails, the calls in flight and the statements that fail
\* (services/auth.rs, handlers/auth.rs, services/admin.rs).
THEOREM AccountsHoldAlways == AccountsSpec => []AccountsHold
<1>1. AccountsInit /\ TasksInit(Budgets) => AccountsInv
  BY AccountsStart
<1>2. AccountsInv /\ [AccountsNext]_<<tasking, acVars>> => AccountsInv'
  BY AccountsStep
<1>3. AccountsInv => AccountsHold
  BY AccountsRight
<1> QED
  BY <1>1, <1>2, <1>3, PTL DEF AccountsSpec

-----------------------------------------------------------------------------
(* Teams and their boards.  A user's two rows, and the name they copy, are  *)
(* settled when no call writes them (UsersSettled), and a call that does    *)
(* knows how far it is (TeamKnows).  The place of a new card is free as     *)
(* long as its column only grows, one card at a time (PlacesBelow).  And     *)
(* with nobody beside its deletion a team that is gone has left nothing     *)
(* behind (Bare).                                                           *)

\* The component on its own, however many calls there are.
TeamNext == \E t \in Tasks : TeamsStep(t)
TeamSpec == TeamsInit /\ TasksInit(Budgets) /\ [][TeamNext]_<<tasking, tmVars>>

CardSet == [is : BOOLEAN, column : Columns \cup {"none"}, place : Nat]

TeamTables ==
    /\ team \in TeamNames \cup {NoTeam} /\ team_members \subseteq Users
    /\ lists \in [Users -> TeamNames \cup {NoTeam}]
    /\ cards \in [Cards -> CardSet]

CardOps == {"add_card", "edit_card", "move_card", "delete_card", "comment", "attach", "detach"}

\* What a call asks for, and what it has read that it writes.
TeamAsks(t) ==
    /\ call[t].op \in {"create_team", "rename_team"} => Arg(t).name \in TeamNames
    /\ call[t].op = "create_team" => Arg(t).user = Leader
    /\ call[t].op \in {"add_to_team", "remove_from_team"} => Arg(t).user \in Users
    /\ call[t].op \in CardOps => Arg(t).card \in Cards
    /\ call[t].op \in {"add_card", "edit_card", "move_card"} => Arg(t).column \in Columns
    /\ call[t].op \in TmAdds /\ call[t].at \in {"row", "list"} => Got(t) \in TeamNames \cup {NoTeam}
    /\ call[t].op = "add_card" /\ call[t].at = "row" => Got(t) \in Nat

-----------------------------------------------------------------------------
(* The members *)

TeamSettled(u) == lists[u] = IF u \in team_members THEN team ELSE NoTeam

UsersSettled ==
    \A u \in Users \ tmMessy : (\A t \in Tasks : u \notin TmWrites(call[t])) => TeamSettled(u)

\* A team that is not there has no members.
NoneOfNoTeam == team = NoTeam => team_members \subseteq tmMessy

OneTeamWriter ==
    \A t, v \in Tasks : t # v =>
        /\ TmWrites(call[t]) \cap TmWrites(call[v]) \subseteq tmMessy
        /\ ~ (call[t].op = "create_team" /\ call[v].op = "create_team")

\* How far a call has brought the rows of a user it writes.
Brought(t, u) ==
    /\ call[t].op \in TmAdds /\ call[t].at \in {"find", "team"} => TeamSettled(u)
    /\ call[t].op \in TmAdds /\ call[t].at \in {"row", "list"} => Got(t) = team /\ team # NoTeam
    /\ call[t].op \in TmAdds /\ call[t].at = "list" => u \in team_members
    /\ call[t].op = "remove_from_team" /\ call[t].at = "find" => TeamSettled(u)
    /\ call[t].op = "remove_from_team" /\ call[t].at = "row" => lists[u] = NoTeam
    /\ call[t].op = "rename_team" /\ call[t].at \in {"find", "row"} => TeamSettled(u)
    /\ call[t].op = "rename_team" /\ call[t].at = "row" => team # NoTeam
    /\ call[t].op = "rename_team" /\ call[t].at \in {"team_members", "lists"} => team = Arg(t).name
    /\ call[t].op = "rename_team" /\ call[t].at = "team_members" => u \in team_members \/ lists[u] = NoTeam
    /\ call[t].op = "rename_team" /\ call[t].at = "lists" =>
            IF u \in Got(t) THEN u \in team_members ELSE TeamSettled(u)
    /\ call[t].op = "delete_team" /\ call[t].at \in {"find", "cards", "comments", "board", "team_members"} =>
            TeamSettled(u)
    /\ call[t].op = "delete_team" /\ call[t].at = "lists" => u \in Got(t) \/ lists[u] = NoTeam
    /\ call[t].op = "delete_team" /\ call[t].at \in {"clear", "team"} => lists[u] = NoTeam
    /\ call[t].op = "delete_team" /\ call[t].at = "team" => u \notin team_members

TeamKnows(t) == \A u \in (Users \cap TmWrites(call[t])) \ tmMessy : Brought(t, u)

\* A team is created where there is none.
CreatesAnew(t) ==
    call[t].op = "create_team" /\ call[t].at = "team" => team = NoTeam \/ Users \subseteq tmMessy

TeamRowsInv ==
    /\ UsersSettled /\ NoneOfNoTeam /\ OneTeamWriter
    /\ \A t \in Tasks : TeamKnows(t) /\ CreatesAnew(t)

-----------------------------------------------------------------------------
(* The board *)

\* The places of a column that only grew are below the next one, and differ.
PlacesBelow ==
    \A k \in Columns \ loose : \A c \in InColumn(k) :
        /\ cards[c].place < PlaceIn(k)
        /\ \A d \in InColumn(k) : c # d => cards[c].place # cards[d].place

AddsAlone ==
    \A t, v \in Tasks : t # v /\ {call[t].op, call[v].op} \subseteq {"add_card", "edit_card"} => Columns \subseteq loose

\* A new card takes the place it was given, and leaves none.
PlaceKnown(t) ==
    call[t].op = "add_card" =>
        /\ Arg(t).card \in Board => cards[Arg(t).card].column \in loose
        /\ call[t].at = "row" /\ Arg(t).column \notin loose => Got(t) = PlaceIn(Arg(t).column)

PlacesInv == PlacesBelow /\ AddsAlone /\ \A t \in Tasks : PlaceKnown(t)

-----------------------------------------------------------------------------
(* The deletion *)

\* Beside a deletion nobody is at work.
DeletesAlone == \A t, v \in Tasks : t # v /\ call[t].op = "delete_team" => call[v].op = "none"

\* What a deletion has deleted so far.
Deleted(t) ==
    call[t].op = "delete_team" =>
        /\ call[t].at = "comments" => comments \subseteq Got(t)
        /\ call[t].at \in {"board", "team_members", "lists", "clear", "team"} => comments = {}
        /\ call[t].at \in {"team_members", "lists", "clear", "team"} => Board = {}
        /\ call[t].at = "team" => team_members = {}

\* Where there is no team there is nothing, and no call is past its look at it.
Bare ==
    team = NoTeam =>
        /\ team_members = {} /\ Board = {} /\ comments = {}
        /\ \A t \in Tasks : call[t].op # "none" =>
            call[t].at = "find" \/ (call[t].op = "create_team" /\ call[t].at = "team")

DeletionInv ==
    /\ DeletesAlone /\ Bare /\ comments \subseteq Board
    /\ \A t \in Tasks : Deleted(t)

TeamInv ==
    /\ Shaped /\ TeamTables /\ \A t \in Tasks : TeamAsks(t)
    /\ TeamRowsInv /\ (~ intruded => PlacesInv /\ DeletionInv)

-----------------------------------------------------------------------------
(* What a step of one call leaves to the others. *)

LEMMA TmWritesAre ==
    ASSUME NEW c
    PROVE  /\ c.op \in {"rename_team", "delete_team"} => TmWrites(c) = Users
           /\ c.op \in {"create_team", "add_to_team", "remove_from_team"} => TmWrites(c) = {c.arg.user}
           /\ c.op \notin {"rename_team", "delete_team", "create_team", "add_to_team", "remove_from_team"}
                => TmWrites(c) = {}
  BY DEF TmWrites

\* A call goes on, or is over.
TeamMoves(t) ==
    /\ Shaped' /\ Only(t)
    /\ call'[t].op = "none" \/ (call'[t].op = call[t].op /\ call'[t].arg = call[t].arg)

\* The rows of a user a call does not write are left, and the name of the team
\* is, or there was none.
TeamSpares(t) ==
    /\ tmMessy \subseteq tmMessy'
    /\ team' = team \/ team = NoTeam \/ Users \subseteq TmWrites(call[t])
    /\ \A u \in (Users \ TmWrites(call[t])) \ tmMessy' :
        lists'[u] = lists[u] /\ (u \in team_members' <=> u \in team_members)

LEMMA OthersBrought ==
    ASSUME TeamTables, TeamRowsInv, NEW t \in Tasks, TeamSpares(t),
           NEW v \in Tasks \ {t}, TeamAsks(v), call'[v] = call[v]
    PROVE  TeamKnows(v)'
<1> SUFFICES ASSUME NEW u \in (Users \cap TmWrites(call[v])) \ tmMessy'
             PROVE  Brought(v, u)'
  BY DEF TeamKnows
<1>1. Brought(v, u) /\ u \in Users /\ u \notin tmMessy
  BY DEF TeamRowsInv, TeamKnows, TeamSpares
<1>2. u \notin TmWrites(call[t])
  BY <1>1 DEF TeamRowsInv, OneTeamWriter
<1>3. /\ lists'[u] = lists[u] /\ (u \in team_members' <=> u \in team_members)
      /\ team' = team \/ team = NoTeam
  BY <1>1, <1>2 DEF TeamSpares
<1>4. TeamSettled(u) => TeamSettled(u)'
  BY <1>1, <1>3 DEF TeamSettled, TeamRowsInv, NoneOfNoTeam
<1>5. Arg(v)' = Arg(v) /\ Got(v)' = Got(v)
  BY DEF Arg, Got
<1>6. call[v].op = "rename_team" => Arg(v).name # NoTeam
  BY TeamsAssumption DEF TeamAsks, NoTeam
<1>7. CASE call[v].op \in TmAdds
  BY <1>1, <1>3, <1>4, <1>5, <1>7 DEF Brought, TmAdds
<1>8. CASE call[v].op = "remove_from_team"
  BY <1>1, <1>3, <1>4, <1>5, <1>8 DEF Brought, TmAdds
<1>9. CASE call[v].op = "rename_team"
  BY <1>1, <1>3, <1>4, <1>5, <1>6, <1>9 DEF Brought, TmAdds
<1>10. CASE call[v].op \notin TmAdds \cup {"remove_from_team", "rename_team"}
  BY <1>1, <1>3, <1>4, <1>5, <1>10 DEF Brought, TmAdds
<1> QED
  BY <1>7, <1>8, <1>9, <1>10

\* A step that brings the rows of its users where the place it goes to says.
LEMMA TeamRowsStep ==
    ASSUME TeamTables, \A v \in Tasks : TeamAsks(v), TeamRowsInv,
           NEW t \in Tasks, TeamMoves(t), TeamSpares(t), NoneOfNoTeam', CreatesAnew(t)', TeamKnows(t)',
           \A u \in (Users \cap TmWrites(call[t])) \ tmMessy' : call'[t].op = "none" => TeamSettled(u)',
           \/ team' = team \/ team' = NoTeam \/ team # NoTeam
           \/ Users \subseteq tmMessy' \/ call[t].op = "create_team"
    PROVE  TeamRowsInv'
<1>1. \A v \in Tasks \ {t} : call'[v] = call[v]
  BY DEF TeamMoves, Only
<1>2. TmWrites(call'[t]) \subseteq TmWrites(call[t])
  BY TmWritesAre DEF TeamMoves, TmWrites
<1>3. OneTeamWriter'
  <2>1. \A v \in Tasks : /\ TmWrites(call'[v]) \subseteq TmWrites(call[v])
                         /\ call'[v].op = "create_team" => call[v].op = "create_team"
    BY <1>1, <1>2 DEF TeamMoves
  <2> QED
    BY <2>1 DEF TeamRowsInv, OneTeamWriter, TeamSpares
<1>4. \A v \in Tasks : TeamKnows(v)'
  <2> SUFFICES ASSUME NEW v \in Tasks \ {t} PROVE TeamKnows(v)'
    OBVIOUS
  <2> QED
    BY <1>1, OthersBrought
<1>5. \A v \in Tasks : CreatesAnew(v)'
  <2> SUFFICES ASSUME NEW v \in Tasks \ {t}, call[v].op = "create_team", call[v].at = "team"
               PROVE  team' = NoTeam \/ Users \subseteq tmMessy'
    BY <1>1 DEF CreatesAnew
  <2>1. call[t].op # "create_team" /\ (team = NoTeam \/ Users \subseteq tmMessy)
    BY DEF TeamRowsInv, OneTeamWriter, CreatesAnew
  <2> QED
    BY <2>1 DEF TeamSpares
<1>6. UsersSettled'
  <2> SUFFICES ASSUME NEW u \in Users \ tmMessy', \A v \in Tasks : u \notin TmWrites(call'[v])
               PROVE  TeamSettled(u)'
    BY DEF UsersSettled
  <2>1. u \notin tmMessy
    BY DEF TeamSpares
  <2>2. CASE u \in TmWrites(call[t])
    <3>1. call'[t].op = "none"
      BY <2>2, TmWritesAre DEF TeamMoves
    <3> QED
      BY <2>2, <3>1
  <2>3. CASE u \notin TmWrites(call[t])
    <3>1. TeamSettled(u)
      BY <1>1, <2>1, <2>3 DEF TeamRowsInv, UsersSettled
    <3> QED
      BY <2>1, <2>3, <3>1 DEF TeamSettled, TeamRowsInv, NoneOfNoTeam, TeamSpares
  <2> QED
    BY <2>2, <2>3
<1> QED
  BY <1>3, <1>4, <1>5, <1>6 DEF TeamRowsInv

LEMMA TeamWalks ==
    ASSUME Shaped, NEW t \in Tasks,
           Finish(t) \/ Drop(t) \/ \E at, got : Goto(t, at) \/ Learn(t, at, got)
    PROVE  TeamMoves(t)
<1>1. Ceases(t) \/ \E at, got : Continues(t, at, got)
  BY GotoGoes, LearnGoes, LeavesEnds
<1> QED
  BY <1>1 DEF Ceases, Continues, TeamMoves

TeamCore == Shaped /\ TeamTables /\ TeamRowsInv /\ \A v \in Tasks : TeamAsks(v)

\* The calls on cards leave the members alone.
LEMMA TeamApart ==
    ASSUME TeamCore, NEW t \in Tasks, call[t].op \in CardOps, TeamMoves(t),
           UNCHANGED <<team, team_members, lists>>, tmMessy \subseteq tmMessy'
    PROVE  TeamRowsInv'
<1>1. TmWrites(call[t]) = {} /\ TmWrites(call'[t]) = {}
  BY TmWritesAre DEF CardOps, TeamMoves
<1>2. TeamKnows(t)' /\ CreatesAnew(t)' /\ TeamSpares(t) /\ NoneOfNoTeam'
  BY <1>1 DEF TeamKnows, CreatesAnew, TeamSpares, TeamMoves, CardOps, TeamCore, TeamRowsInv, NoneOfNoTeam
<1> QED
  BY <1>1, <1>2, TeamRowsStep DEF TeamCore

\* A call that ends or goes on without a write.
LEMMA TeamReads ==
    ASSUME TeamCore, NEW t \in Tasks, TeamMoves(t),
           UNCHANGED <<team, team_members, lists>>, tmMessy \subseteq tmMessy',
           call'[t].op = "create_team" => call'[t].at # "team",
           \A u \in (Users \cap TmWrites(call[t])) \ tmMessy' :
                IF call'[t].op = "none" THEN TeamSettled(u) ELSE Brought(t, u)'
    PROVE  TeamRowsInv'
<1>1. TmWrites(call'[t]) \subseteq TmWrites(call[t])
  BY TmWritesAre DEF TeamMoves, TmWrites
<1>2. TeamKnows(t)'
  <2> SUFFICES ASSUME NEW u \in (Users \cap TmWrites(call'[t])) \ tmMessy' PROVE Brought(t, u)'
    BY DEF TeamKnows
  <2>1. CASE call'[t].op = "none"
    BY <2>1, TmWritesAre
  <2>2. CASE call'[t].op # "none"
    BY <1>1, <2>2
  <2> QED
    BY <2>1, <2>2
<1>3. CreatesAnew(t)' /\ TeamSpares(t) /\ NoneOfNoTeam'
  BY DEF CreatesAnew, TeamSpares, TeamCore, TeamRowsInv, NoneOfNoTeam
<1>4. \A u \in (Users \cap TmWrites(call[t])) \ tmMessy' : call'[t].op = "none" => TeamSettled(u)'
  BY DEF TeamSettled
<1> QED
  BY <1>2, <1>3, <1>4, TeamRowsStep DEF TeamCore

LEMMA FindTeamRows ==
    ASSUME TeamCore, NEW t \in Tasks, FindTeam(t)
    PROVE  TeamRowsInv' /\ TeamMoves(t)
<1>1. TeamMoves(t) /\ UNCHANGED <<team, team_members, lists, tmMessy>>
  BY TeamWalks DEF FindTeam, tmVars, tmTables, tmHistory, TeamCore
<1>2. call[t].at = "find" /\ call[t].op \in {"rename_team", "delete_team", "add_to_team", "remove_from_team", "add_card",
                  "edit_card", "move_card", "delete_card"}
  BY DEF FindTeam, On
<1>3. CASE call[t].op \in CardOps
  BY <1>1, <1>3, TeamApart
<1>4. CASE Finish(t) /\ call[t].op \notin CardOps
  <2>1. call'[t].op = "none"
    BY <1>4, LeavesEnds DEF Ceases, TeamCore
  <2>2. \A u \in (Users \cap TmWrites(call[t])) \ tmMessy : TeamSettled(u)
    BY <1>2, <1>4 DEF TeamCore, TeamRowsInv, TeamKnows, Brought, TmAdds, CardOps
  <2> QED
    BY <1>1, <2>1, <2>2, TeamReads
<1>5. ASSUME NEW at, Learn(t, at, team), team # NoTeam,
             \/ call[t].op \in {"add_to_team", "rename_team"} /\ at = "row"
             \/ call[t].op = "delete_team" /\ at = "cards"
             \/ call[t].op = "remove_from_team" /\ at = "list"
      PROVE  TeamRowsInv'
  <2>1. call'[t].op = call[t].op /\ call'[t].at = at /\ Got(t)' = team
    BY <1>5, LearnGoes DEF Continues, Got, TeamCore
  <2>2. ASSUME NEW u \in (Users \cap TmWrites(call[t])) \ tmMessy PROVE Brought(t, u)'
    BY <1>1, <1>2, <1>5, <2>1, <2>2 DEF TeamCore, TeamRowsInv, TeamKnows, Brought, TeamSettled, TmAdds
  <2>3. call'[t].op # "none" /\ call'[t].op # "create_team"
    BY <1>5, <2>1
  <2> QED
    BY <1>1, <2>2, <2>3, TeamReads
<1>6. \/ call[t].op \in CardOps
      \/ Finish(t)
      \/ team # NoTeam /\ call[t].op \in {"add_to_team", "rename_team"} /\ Learn(t, "row", team)
      \/ team # NoTeam /\ call[t].op = "delete_team" /\ Learn(t, "cards", team)
      \/ team # NoTeam /\ call[t].op = "remove_from_team" /\ Learn(t, "list", team)
  BY <1>2 DEF FindTeam, CardOps
<1> QED
  BY <1>1, <1>3, <1>4, <1>5, <1>6

LEMMA CardSteps ==
    ASSUME TeamCore, NEW t \in Tasks,
           \/ CountColumn(t) \/ GetCard(t) \/ WriteCard(t) \/ DeleteCardComments(t) \/ DeleteCard(t)
           \/ WriteOnCard(t)
    PROVE  TeamRowsInv' /\ TeamMoves(t)
<1>1. call[t].op \in CardOps
  BY DEF CountColumn, GetCard, WriteCard, DeleteCardComments, DeleteCard, WriteOnCard, On, CardOps
<1>2. UNCHANGED <<team, team_members, lists, tmMessy>>
  BY DEF CountColumn, GetCard, WriteCard, DeleteCardComments, DeleteCard, WriteOnCard, tmVars, tmTables, tmHistory
<1>3. Finish(t) \/ \E at, got : Goto(t, at) \/ Learn(t, at, got)
  BY DEF CountColumn, GetCard, WriteCard, DeleteCardComments, DeleteCard, WriteOnCard
<1>4. TeamMoves(t)
  BY <1>3, TeamWalks DEF TeamCore
<1> QED
  BY <1>1, <1>2, <1>4, TeamApart

LEMMA DropTmRows ==
    ASSUME TeamCore, NEW t \in Tasks, DropTm(t)
    PROVE  TeamRowsInv' /\ TeamMoves(t)
<1>1. TeamMoves(t) /\ call'[t].op = "none"
  BY TeamWalks, LeavesEnds DEF DropTm, TeamCore, Ceases
<1>2. UNCHANGED <<team, team_members, lists>> /\ tmMessy' = tmMessy \cup TmWrites(call[t])
  BY DEF DropTm, tmTables
<1> QED
  BY <1>1, <1>2, TeamReads

LEMMA InsertTeamRows ==
    ASSUME TeamCore, NEW t \in Tasks, InsertTeam(t)
    PROVE  TeamRowsInv' /\ TeamMoves(t)
<1> SUFFICES ASSUME NEW n, n = Arg(t).name PROVE TeamRowsInv' /\ TeamMoves(t)
  OBVIOUS
<1>1. call[t].op = "create_team" /\ call[t].at = "team" /\ team' = n
      /\ UNCHANGED <<team_members, lists, tmMessy>>
  BY DEF InsertTeam, On, tmHistory
<1>2. n \in TeamNames /\ n # NoTeam /\ (team = NoTeam \/ Users \subseteq tmMessy)
  BY <1>1, TeamsAssumption DEF TeamCore, TeamAsks, NoTeam, TeamRowsInv, CreatesAnew
<1>3. Continues(t, "row", n)
  BY LearnGoes DEF InsertTeam, TeamCore
<1>4. TeamMoves(t) /\ call'[t].op = "create_team" /\ call'[t].at = "row" /\ Got(t)' = n
  BY <1>1, <1>3 DEF Continues, TeamMoves, Got
<1>5. CASE team = NoTeam
  <2>1. TeamKnows(t)'
    BY <1>1, <1>2, <1>4 DEF TeamKnows, Brought, TmAdds
  <2>2. TeamSpares(t) /\ CreatesAnew(t)' /\ NoneOfNoTeam'
    BY <1>1, <1>2, <1>4, <1>5 DEF TeamSpares, CreatesAnew, NoneOfNoTeam
  <2> QED
    BY <1>1, <1>4, <2>1, <2>2, TeamRowsStep DEF TeamCore
<1>6. CASE Users \subseteq tmMessy
  <2>1. OneTeamWriter'
    <3>1. \A v \in Tasks : TmWrites(call'[v]) = TmWrites(call[v]) /\ call'[v].op = call[v].op
      BY <1>1, <1>3 DEF Continues, Only, TmWrites
    <3> QED
      BY <1>1, <3>1 DEF TeamCore, TeamRowsInv, OneTeamWriter
  <2>2. \A v \in Tasks : TeamKnows(v)' /\ CreatesAnew(v)'
    BY <1>1, <1>6 DEF TeamKnows, CreatesAnew
  <2> QED
    BY <1>1, <1>4, <1>6, <2>1, <2>2 DEF TeamRowsInv, UsersSettled, NoneOfNoTeam, TeamCore, TeamTables
<1> QED
  BY <1>2, <1>4, <1>5, <1>6

LEMMA MemberRows ==
    ASSUME TeamCore, NEW t \in Tasks,
           InsertTeamMember(t) \/ InsertList(t) \/ DeleteList(t) \/ DeleteTeamMember(t)
    PROVE  TeamRowsInv' /\ TeamMoves(t)
<1> SUFFICES ASSUME NEW u, u = Arg(t).user PROVE TeamRowsInv' /\ TeamMoves(t)
  OBVIOUS
<1>1. TeamMoves(t) /\ UNCHANGED <<team, tmMessy>>
  BY TeamWalks DEF InsertTeamMember, InsertList, DeleteList, DeleteTeamMember, tmHistory, TeamCore
<1>2. /\ call[t].op \in TmAdds \cup {"remove_from_team"} /\ call[t].at \in {"row", "list"}
      /\ TmWrites(call[t]) = {u} /\ u \in Users /\ lists \in [Users -> TeamNames \cup {NoTeam}]
  <2>1. call[t].op \in TmAdds \cup {"remove_from_team"} /\ call[t].at \in {"row", "list"}
    BY DEF InsertTeamMember, InsertList, DeleteList, DeleteTeamMember, On, TmAdds
  <2> QED
    BY <2>1, TmWritesAre, TeamsAssumption DEF TeamCore, TeamAsks, TmAdds, TeamTables, Arg
<1>3. /\ \A v \in Users \ {u} : lists'[v] = lists[v] /\ (v \in team_members' <=> v \in team_members)
      /\ team_members' \subseteq team_members \cup {u}
  BY <1>2 DEF InsertTeamMember, InsertList, DeleteList, DeleteTeamMember
<1>4. TeamSpares(t)
  BY <1>1, <1>2, <1>3 DEF TeamSpares
<1>5. CreatesAnew(t)'
  <2>1. call'[t].at # "team" \/ call'[t].op = "none"
    <3>1. Finish(t) \/ (\E at \in {"list", "row"} : Goto(t, at))
      BY DEF InsertTeamMember, InsertList, DeleteList, DeleteTeamMember
    <3> QED
      BY <3>1, GotoGoes, LeavesEnds DEF Continues, Ceases, TeamCore
  <2> QED
    BY <2>1 DEF CreatesAnew
<1>6. u \notin tmMessy => Brought(t, u)
  BY <1>2 DEF TeamCore, TeamRowsInv, TeamKnows
<1>7. ASSUME u \notin tmMessy => (IF call'[t].op = "none" THEN TeamSettled(u)' ELSE Brought(t, u)'), NoneOfNoTeam'
      PROVE  TeamRowsInv'
  <2>1. TmWrites(call'[t]) \subseteq {u}
    BY <1>1, <1>2, TmWritesAre DEF TeamMoves, TmWrites
  <2>2. call'[t].op = "none" => TmWrites(call'[t]) = {}
    BY TmWritesAre
  <2>3. TeamKnows(t)'
    BY <1>1, <1>7, <2>1, <2>2 DEF TeamKnows
  <2> QED
    BY <1>1, <1>2, <1>4, <1>5, <1>7, <2>3, TeamRowsStep DEF TeamCore
<1>8. CASE InsertTeamMember(t)
  <2>1. call[t].op \in TmAdds /\ call[t].at = "row" /\ team_members' = team_members \cup {u}
        /\ Continues(t, "list", Got(t))
    BY <1>8, GotoGoes DEF InsertTeamMember, On, TmAdds, TeamCore
  <2>2. u \notin tmMessy => Got(t) = team /\ team # NoTeam
    BY <1>6, <2>1 DEF Brought
  <2>3. NoneOfNoTeam'
    BY <1>1, <2>1, <2>2 DEF NoneOfNoTeam, TeamCore, TeamRowsInv
  <2>4. call'[t].op = call[t].op /\ call'[t].at = "list" /\ Got(t)' = Got(t)
    BY <2>1 DEF Continues, Got
  <2>5. u \notin tmMessy => Brought(t, u)' /\ call'[t].op # "none"
    BY <1>1, <2>1, <2>2, <2>4 DEF Brought, TmAdds
  <2> QED
    BY <1>1, <1>7, <2>3, <2>5
<1>9. CASE InsertList(t)
  <2>1. call[t].op \in TmAdds /\ call[t].at = "list" /\ team_members' = team_members /\ Ceases(t)
        /\ lists' = [lists EXCEPT ![u] = Got(t)]
    BY <1>9, LeavesEnds DEF InsertList, On, TmAdds, TeamCore
  <2>2. u \notin tmMessy => TeamSettled(u)'
    BY <1>1, <1>2, <1>6, <2>1 DEF Brought, TeamSettled
  <2>3. NoneOfNoTeam'
    BY <1>1, <2>1 DEF NoneOfNoTeam, TeamCore, TeamRowsInv
  <2> QED
    BY <1>1, <1>7, <2>1, <2>2, <2>3 DEF Ceases
<1>10. CASE DeleteList(t)
  <2>1. call[t].op = "remove_from_team" /\ team_members' = team_members /\ Continues(t, "row", Got(t))
        /\ lists' = [lists EXCEPT ![u] = NoTeam]
    BY <1>10, GotoGoes DEF DeleteList, On, TeamCore
  <2>2. call'[t].op = "remove_from_team" /\ call'[t].at = "row"
    BY <2>1 DEF Continues
  <2>3. Brought(t, u)'
    BY <1>2, <2>1, <2>2 DEF Brought, TmAdds
  <2>4. NoneOfNoTeam'
    BY <1>1, <2>1 DEF NoneOfNoTeam, TeamCore, TeamRowsInv
  <2> QED
    BY <1>1, <1>7, <2>2, <2>3, <2>4
<1>11. CASE DeleteTeamMember(t)
  <2>1. call[t].op = "remove_from_team" /\ call[t].at = "row" /\ team_members' = team_members \ {u} /\ Ceases(t)
        /\ lists' = lists
    BY <1>11, LeavesEnds DEF DeleteTeamMember, On, TeamCore
  <2>2. u \notin tmMessy => TeamSettled(u)'
    BY <1>1, <1>6, <2>1 DEF Brought, TeamSettled
  <2>3. NoneOfNoTeam'
    BY <1>1, <2>1 DEF NoneOfNoTeam, TeamCore, TeamRowsInv
  <2> QED
    BY <1>1, <1>7, <2>1, <2>2, <2>3 DEF Ceases
<1> QED
  BY <1>8, <1>9, <1>10, <1>11

\* What rename_team and delete_team do to the rows of all users.
LEMMA AllRowsStep ==
    ASSUME TeamCore, NEW t \in Tasks, call[t].op \in {"rename_team", "delete_team"}, TeamMoves(t), tmMessy' = tmMessy,
           \A u \in Users \ tmMessy : IF call'[t].op = "none" THEN TeamSettled(u)' ELSE Brought(t, u)',
           NoneOfNoTeam',
           team' = team \/ team' = NoTeam \/ \A u \in Users \ tmMessy : team # NoTeam
    PROVE  TeamRowsInv'
<1>1. TmWrites(call[t]) = Users /\ call'[t].op # "create_team"
  BY TmWritesAre DEF TeamMoves
<1>2. TeamSpares(t) /\ CreatesAnew(t)'
  BY <1>1 DEF TeamSpares, CreatesAnew
<1>3. call'[t].op = "none" => TmWrites(call'[t]) = {}
  BY TmWritesAre
<1>4. TeamKnows(t)'
  BY <1>3 DEF TeamKnows
<1> QED
  BY <1>1, <1>2, <1>4, TeamRowsStep DEF TeamCore

LEMMA RenameTeamRows ==
    ASSUME TeamCore, NEW t \in Tasks, RenameTeam(t)
    PROVE  TeamRowsInv' /\ TeamMoves(t)
<1> SUFFICES ASSUME NEW n, n = Arg(t).name PROVE TeamRowsInv' /\ TeamMoves(t)
  OBVIOUS
<1>1. call[t].op = "rename_team" /\ call[t].at = "row" /\ team' = n /\ UNCHANGED <<team_members, lists, tmMessy>>
      /\ Continues(t, "team_members", Got(t))
  BY GotoGoes DEF RenameTeam, On, tmHistory, TeamCore
<1>2. n # NoTeam
  BY <1>1, TeamsAssumption DEF TeamCore, TeamAsks, NoTeam
<1>3. \A u \in Users \ tmMessy : Brought(t, u)
  BY <1>1, TmWritesAre DEF TeamCore, TeamRowsInv, TeamKnows
<1>4. call'[t].op = "rename_team" /\ call'[t].at = "team_members" /\ Arg(t)' = Arg(t) /\ TeamMoves(t)
  BY <1>1 DEF Continues, Arg, TeamMoves
<1>5. \A u \in Users \ tmMessy : Brought(t, u)' /\ team # NoTeam
  BY <1>1, <1>3, <1>4 DEF Brought, TeamSettled, TmAdds
<1>6. NoneOfNoTeam'
  BY <1>1, <1>2 DEF NoneOfNoTeam
<1> QED
  BY <1>1, <1>4, <1>5, <1>6, AllRowsStep

LEMMA ListPeopleRows ==
    ASSUME TeamCore, NEW t \in Tasks, ListPeople(t)
    PROVE  TeamRowsInv' /\ TeamMoves(t)
<1>1. call[t].op \in {"rename_team", "delete_team"} /\ call[t].at = "team_members"
      /\ UNCHANGED <<team, team_members, lists, tmMessy>> /\ Continues(t, "lists", team_members)
  BY LearnGoes DEF ListPeople, On, tmVars, tmTables, tmHistory, TeamCore
<1>2. call'[t].op = call[t].op /\ call'[t].at = "lists" /\ Arg(t)' = Arg(t) /\ TeamMoves(t)
      /\ Got(t)' = team_members
  BY <1>1 DEF Continues, Arg, Got, TeamMoves
<1>3. \A u \in Users \ tmMessy : Brought(t, u)
  BY <1>1, TmWritesAre DEF TeamCore, TeamRowsInv, TeamKnows
<1>4. \A u \in Users \ tmMessy : Brought(t, u)'
  BY <1>1, <1>2, <1>3 DEF Brought, TeamSettled, TmAdds
<1>5. NoneOfNoTeam'
  BY <1>1 DEF NoneOfNoTeam, TeamCore, TeamRowsInv
<1> QED
  BY <1>1, <1>2, <1>4, <1>5, AllRowsStep

LEMMA WriteListsRows ==
    ASSUME TeamCore, NEW t \in Tasks, WriteLists(t)
    PROVE  TeamRowsInv' /\ TeamMoves(t)
<1>1. call[t].op \in {"rename_team", "delete_team"} /\ call[t].at = "lists"
      /\ UNCHANGED <<team, team_members, tmMessy>> /\ lists \in [Users -> TeamNames \cup {NoTeam}]
  BY DEF WriteLists, On, tmHistory, TeamCore, TeamTables
<1>2. \A u \in Users \ tmMessy : Brought(t, u)
  BY <1>1, TmWritesAre DEF TeamCore, TeamRowsInv, TeamKnows
<1>3. TeamMoves(t) /\ NoneOfNoTeam'
  BY <1>1, TeamWalks DEF WriteLists, NoneOfNoTeam, TeamCore, TeamRowsInv
<1>4. ASSUME NEW u \in Got(t), Learn(t, "lists", Got(t) \ {u}),
             lists' = [lists EXCEPT ![u] = IF call[t].op = "rename_team" THEN Arg(t).name ELSE NoTeam]
      PROVE  TeamRowsInv'
  <2>1. call'[t].op = call[t].op /\ call'[t].at = "lists" /\ Arg(t)' = Arg(t) /\ Got(t)' = Got(t) \ {u}
    BY <1>4, LearnGoes DEF Continues, Arg, Got, TeamCore
  <2>2. ASSUME NEW v \in Users \ tmMessy PROVE Brought(t, v)'
    <3>1. Brought(t, v)
      BY <1>2
    <3>2. CASE call[t].op = "rename_team"
      BY <1>1, <1>4, <2>1, <3>1, <3>2 DEF Brought, TeamSettled, TmAdds
    <3>3. CASE call[t].op = "delete_team"
      BY <1>1, <1>4, <2>1, <3>1, <3>3 DEF Brought, TeamSettled, TmAdds
    <3> QED
      BY <1>1, <3>2, <3>3
  <2> QED
    BY <1>1, <1>3, <2>1, <2>2, AllRowsStep
<1>5. CASE Got(t) = {} /\ lists' = lists /\ call[t].op = "rename_team" /\ Finish(t)
  <2>1. call'[t].op = "none"
    BY <1>5, LeavesEnds DEF Ceases, TeamCore
  <2>2. \A u \in Users \ tmMessy : TeamSettled(u)'
    BY <1>1, <1>2, <1>5 DEF Brought, TeamSettled
  <2> QED
    BY <1>1, <1>3, <2>1, <2>2, AllRowsStep
<1>6. CASE Got(t) = {} /\ lists' = lists /\ call[t].op = "delete_team" /\ Goto(t, "clear")
  <2>1. call'[t].op = "delete_team" /\ call'[t].at = "clear"
    BY <1>6, GotoGoes DEF Continues, TeamCore
  <2>2. \A u \in Users \ tmMessy : Brought(t, u)'
    BY <1>1, <1>2, <1>6, <2>1 DEF Brought, TmAdds
  <2> QED
    BY <1>1, <1>3, <2>1, <2>2, AllRowsStep
<1> QED
  BY <1>1, <1>3, <1>4, <1>5, <1>6 DEF WriteLists

\* The deletion as far as it leaves the members alone.
LEMMA DeletionRows ==
    ASSUME TeamCore, NEW t \in Tasks, ListCards(t) \/ DeleteComments(t) \/ DeleteBoard(t)
    PROVE  TeamRowsInv' /\ TeamMoves(t)
<1>1. call[t].op = "delete_team" /\ call[t].at \in {"cards", "comments", "board"}
      /\ UNCHANGED <<team, team_members, lists, tmMessy>>
  BY DEF ListCards, DeleteComments, DeleteBoard, On, tmVars, tmTables, tmHistory
<1>2. PICK at \in {"comments", "board", "team_members"} : \E got : Continues(t, at, got)
  BY GotoGoes, LearnGoes DEF ListCards, DeleteComments, DeleteBoard, TeamCore
<1>3. call'[t].op = "delete_team" /\ call'[t].at = at /\ TeamMoves(t)
  BY <1>1, <1>2 DEF Continues, TeamMoves
<1>4. \A u \in Users \ tmMessy : Brought(t, u)
  BY <1>1, TmWritesAre DEF TeamCore, TeamRowsInv, TeamKnows
<1>5. \A u \in Users \ tmMessy : Brought(t, u)'
  BY <1>1, <1>3, <1>4 DEF Brought, TeamSettled, TmAdds
<1>6. NoneOfNoTeam'
  BY <1>1 DEF NoneOfNoTeam, TeamCore, TeamRowsInv
<1> QED
  BY <1>1, <1>3, <1>5, <1>6, AllRowsStep

LEMMA ClearMembersRows ==
    ASSUME TeamCore, NEW t \in Tasks, ClearMembers(t)
    PROVE  TeamRowsInv' /\ TeamMoves(t)
<1>1. call[t].op = "delete_team" /\ call[t].at = "clear" /\ team_members' = {}
      /\ UNCHANGED <<team, lists, tmMessy>> /\ Continues(t, "team", Got(t))
  BY GotoGoes DEF ClearMembers, On, tmHistory, TeamCore
<1>2. call'[t].op = "delete_team" /\ call'[t].at = "team" /\ TeamMoves(t)
  BY <1>1 DEF Continues, TeamMoves
<1>3. \A u \in Users \ tmMessy : Brought(t, u)
  BY <1>1, TmWritesAre DEF TeamCore, TeamRowsInv, TeamKnows
<1>4. \A u \in Users \ tmMessy : Brought(t, u)'
  BY <1>1, <1>2, <1>3 DEF Brought, TmAdds
<1>5. NoneOfNoTeam'
  BY <1>1 DEF NoneOfNoTeam
<1> QED
  BY <1>1, <1>2, <1>4, <1>5, AllRowsStep

LEMMA DeleteTeamRows ==
    ASSUME TeamCore, NEW t \in Tasks, DeleteTeam(t)
    PROVE  TeamRowsInv' /\ TeamMoves(t)
<1>1. call[t].op = "delete_team" /\ call[t].at = "team" /\ team' = NoTeam
      /\ UNCHANGED <<team_members, lists, tmMessy>> /\ Ceases(t)
  BY LeavesEnds DEF DeleteTeam, On, TeamCore
<1>2. call'[t].op = "none" /\ TeamMoves(t)
  BY <1>1 DEF Ceases, TeamMoves
<1>3. \A u \in Users \ tmMessy : Brought(t, u)
  BY <1>1, TmWritesAre DEF TeamCore, TeamRowsInv, TeamKnows
<1>4. \A u \in Users \ tmMessy : TeamSettled(u)' /\ u \notin team_members
  BY <1>1, <1>3 DEF Brought, TeamSettled
<1>5. NoneOfNoTeam'
  BY <1>1, <1>4 DEF NoneOfNoTeam, TeamCore, TeamTables
<1> QED
  BY <1>1, <1>2, <1>4, <1>5, AllRowsStep

-----------------------------------------------------------------------------
(* Calls on teams begin. *)

LEMMA TeamBegins ==
    ASSUME TeamCore, NEW t \in Tasks, NEW op, NEW at, NEW arg, BeginTm(t, op, at, arg),
           \/ op = "create_team" /\ at = "team" /\ arg.user = Leader /\ arg.name \in TeamNames
              /\ team = NoTeam /\ \A o \in Tasks : call[o].op # "create_team"
           \/ op \in {"rename_team", "delete_team"} /\ at = "find"
           \/ op \in {"add_to_team", "remove_from_team"} /\ at = "find" /\ arg.user \in Users
           \/ op \in CardOps
    PROVE  TeamRowsInv'
<1>1. /\ call[t].op = "none" /\ Shaped' /\ Only(t) /\ UNCHANGED <<team, team_members, lists>>
      /\ call'[t] = [op |-> op, at |-> at, arg |-> arg, got |-> <<>>]
  BY DEF BeginTm, Begin, BeginWith, Running, tmTables, TeamCore, Shaped, Only
<1> DEFINE me == [op |-> op, arg |-> arg]
<1>2. tmMessy' = tmMessy \cup (TmWrites(me) \cap UNION {TmWrites(c) : c \in {call[o] : o \in Others(t)}})
  BY DEF BeginTm
<1>3. TmWrites(call'[t]) = TmWrites(me) /\ TmWrites(call[t]) = {}
  BY <1>1, TmWritesAre DEF TmWrites
<1> HIDE DEF me
<1>4. \A v \in Tasks \ {t} : call'[v] = call[v]
  BY <1>1 DEF Only
<1>5. ASSUME NEW v \in Tasks \ {t}
      PROVE  TmWrites(me) \cap TmWrites(call[v]) \subseteq tmMessy'
  <2>1. CASE call[v].op = "none"
    BY <2>1, TmWritesAre
  <2>2. CASE call[v].op # "none"
    <3>1. v \in Others(t)
      BY <2>2 DEF Others, Running
    <3> QED
      BY <1>2, <3>1
  <2> QED
    BY <2>1, <2>2
<1>6. OneTeamWriter'
  <2>1. ASSUME NEW v \in Tasks \ {t}
        PROVE  /\ TmWrites(call'[t]) \cap TmWrites(call'[v]) \subseteq tmMessy'
               /\ ~ (call'[t].op = "create_team" /\ call'[v].op = "create_team")
    <3>1. op = "create_team" => call[v].op # "create_team"
      BY DEF CardOps
    <3> QED
      BY <1>1, <1>3, <1>4, <1>5, <3>1
  <2>2. \A v, w \in Tasks \ {t} : v # w =>
               /\ TmWrites(call'[v]) \cap TmWrites(call'[w]) \subseteq tmMessy'
               /\ ~ (call'[v].op = "create_team" /\ call'[w].op = "create_team")
    BY <1>2, <1>4 DEF TeamCore, TeamRowsInv, OneTeamWriter
  <2>3. \A v, w \in Tasks : v # w =>
               /\ TmWrites(call'[v]) \cap TmWrites(call'[w]) \subseteq tmMessy'
               /\ ~ (call'[v].op = "create_team" /\ call'[w].op = "create_team")
    BY <2>1, <2>2
  <2> QED
    BY <2>3 DEF OneTeamWriter
<1>7. \A v \in Tasks : CreatesAnew(v)'
  <2>1. CreatesAnew(t)'
    BY <1>1 DEF CreatesAnew, CardOps
  <2>2. \A v \in Tasks \ {t} : CreatesAnew(v)'
    BY <1>1, <1>2, <1>4 DEF CreatesAnew, TeamCore, TeamRowsInv
  <2> QED
    BY <2>1, <2>2
<1>8. ASSUME NEW u \in (Users \cap TmWrites(me)) \ tmMessy'
      PROVE  TeamSettled(u)
  <2>1. \A v \in Tasks : u \notin TmWrites(call[v])
    BY <1>3, <1>5
  <2> QED
    BY <1>2, <2>1 DEF TeamCore, TeamRowsInv, UsersSettled
<1>9. TeamKnows(t)'
  <2> SUFFICES ASSUME NEW u \in (Users \cap TmWrites(me)) \ tmMessy' PROVE Brought(t, u)'
    BY <1>3 DEF TeamKnows
  <2>1. TeamSettled(u)'
    BY <1>1, <1>8 DEF TeamSettled
  <2>2. op \notin CardOps
    BY TmWritesAre DEF me, CardOps
  <2> QED
    BY <1>1, <2>1, <2>2 DEF Brought, TmAdds
<1>10. \A v \in Tasks : TeamKnows(v)'
  <2> SUFFICES ASSUME NEW v \in Tasks \ {t} PROVE TeamKnows(v)'
    BY <1>9
  <2>1. TeamSpares(t)
    BY <1>1, <1>2 DEF TeamSpares
  <2> QED
    BY <1>4, <2>1, OthersBrought DEF TeamCore
<1>11. UsersSettled'
  <2> SUFFICES ASSUME NEW u \in Users \ tmMessy', \A v \in Tasks : u \notin TmWrites(call'[v])
               PROVE  TeamSettled(u)
    BY <1>1 DEF UsersSettled, TeamSettled
  <2> QED
    BY <1>2, <1>3, <1>4 DEF TeamCore, TeamRowsInv, UsersSettled
<1>12. NoneOfNoTeam'
  BY <1>1, <1>2 DEF NoneOfNoTeam, TeamCore, TeamRowsInv
<1> QED
  BY <1>6, <1>7, <1>10, <1>11, <1>12 DEF TeamRowsInv

-----------------------------------------------------------------------------
(* The tables. *)

LEMMA CardFields ==
    ASSUME NEW k, NEW p
    PROVE  /\ [is |-> TRUE, column |-> k, place |-> p].is
           /\ [is |-> TRUE, column |-> k, place |-> p].column = k
           /\ [is |-> TRUE, column |-> k, place |-> p].place = p
  BY Zenon

LEMMA NoCardFields == ~ NoCard.is /\ NoCard \in CardSet
<1>1. ~ NoCard.is
  BY Zenon DEF NoCard
<1> QED
  BY <1>1 DEF NoCard, CardSet

\* A card is put into a column.
LEMMA PutCard ==
    ASSUME cards \in [Cards -> CardSet], NEW c \in Cards, NEW k \in Columns, NEW p \in Nat,
           cards' = [cards EXCEPT ![c] = [is |-> TRUE, column |-> k, place |-> p]]
    PROVE  /\ cards' \in [Cards -> CardSet] /\ Board' = Board \cup {c}
           /\ cards'[c].column = k /\ cards'[c].place = p
           /\ \A d \in Cards \ {c} : cards'[d] = cards[d]
<1>1. cards'[c] = [is |-> TRUE, column |-> k, place |-> p] /\ \A d \in Cards \ {c} : cards'[d] = cards[d]
  OBVIOUS
<1>2. cards'[c].is /\ cards'[c].column = k /\ cards'[c].place = p
  BY <1>1, CardFields
<1>3. [is |-> TRUE, column |-> k, place |-> p] \in CardSet
  BY DEF CardSet
<1>4. cards' \in [Cards -> CardSet]
  BY <1>3
<1>5. ASSUME NEW d \in Cards PROVE d \in Board' <=> d \in Board \cup {c}
  <2>1. CASE d = c
    BY <1>2, <2>1, Zenon DEF Board
  <2>2. CASE d # c
    BY <1>1, <2>2, Zenon DEF Board
  <2> QED
    BY <2>1, <2>2
<1>6. Board' = Board \cup {c}
  BY <1>5 DEF Board
<1> QED
  BY <1>1, <1>2, <1>4, <1>6

\* A card is deleted.
LEMMA TakeCard ==
    ASSUME cards \in [Cards -> CardSet], NEW c \in Cards, cards' = [cards EXCEPT ![c] = NoCard]
    PROVE  /\ cards' \in [Cards -> CardSet] /\ Board' = Board \ {c}
           /\ \A d \in Cards \ {c} : cards'[d] = cards[d]
<1>1. cards'[c] = NoCard /\ \A d \in Cards \ {c} : cards'[d] = cards[d]
  OBVIOUS
<1>2. cards' \in [Cards -> CardSet]
  BY NoCardFields
<1>3. ASSUME NEW d \in Cards PROVE d \in Board' <=> d \in Board \ {c}
  <2>1. CASE d = c
    BY <1>1, <2>1, NoCardFields, Zenon DEF Board
  <2>2. CASE d # c
    BY <1>1, <2>2, Zenon DEF Board
  <2> QED
    BY <2>1, <2>2
<1>4. Board' = Board \ {c}
  BY <1>3 DEF Board
<1> QED
  BY <1>1, <1>2, <1>4

\* No card is left.
LEMMA ClearCards ==
    ASSUME cards' = [c \in Cards |-> NoCard]
    PROVE  cards' \in [Cards -> CardSet] /\ Board' = {}
<1>1. \A c \in Cards : ~ cards'[c].is
  BY NoCardFields
<1>2. Board' = {}
  BY <1>1 DEF Board
<1> QED
  BY <1>2, NoCardFields

\* How many cards a column has.
LEMMA ColumnCounts ==
    ASSUME NEW k
    PROVE  IsFiniteSet(InColumn(k)) /\ PlaceIn(k) \in Nat
<1>1. InColumn(k) \subseteq Cards
  BY DEF InColumn, Board
<1>2. IsFiniteSet(InColumn(k))
  BY <1>1, FS_Subset, TeamsAssumption
<1> QED
  BY <1>2, FS_CardinalityType DEF PlaceIn

\* What a call has read is fit to be written.
ReadRight(t) ==
    /\ call[t].op \in TmAdds /\ call[t].at \in {"row", "list"} => Got(t) \in TeamNames \cup {NoTeam}
    /\ call[t].op = "add_card" /\ call[t].at = "row" => Got(t) \in Nat

LEMMA AsksOn ==
    ASSUME \A v \in Tasks : TeamAsks(v), NEW t \in Tasks, TeamMoves(t), ReadRight(t)'
    PROVE  \A v \in Tasks : TeamAsks(v)'
<1>1. TeamAsks(t)'
  <2>1. CASE call'[t].op = "none"
    BY <2>1 DEF TeamAsks, CardOps, TmAdds
  <2>2. CASE call'[t].op = call[t].op /\ Arg(t)' = Arg(t)
    BY <2>2 DEF TeamAsks, ReadRight
  <2> QED
    BY <2>1, <2>2 DEF TeamMoves, Arg
<1>2. ASSUME NEW v \in Tasks \ {t} PROVE TeamAsks(v)'
  <2>1. call'[v] = call[v]
    BY DEF TeamMoves, Only
  <2> QED
    BY <2>1 DEF TeamAsks, Arg, Got
<1> QED
  BY <1>1, <1>2

LEMMA MemberTables ==
    ASSUME TeamCore, NEW t \in Tasks,
           \/ InsertTeam(t) \/ InsertTeamMember(t) \/ InsertList(t) \/ DeleteList(t) \/ DeleteTeamMember(t)
           \/ RenameTeam(t) \/ ListPeople(t) \/ WriteLists(t) \/ ClearMembers(t) \/ DeleteTeam(t)
    PROVE  TeamTables'
<1> USE DEF TeamCore, TeamTables
<1>1. TeamAsks(t) /\ cards' = cards
  BY DEF InsertTeam, InsertTeamMember, InsertList, DeleteList, DeleteTeamMember, RenameTeam, ListPeople,
         WriteLists, ClearMembers, DeleteTeam, tmVars, tmTables
<1>2. CASE InsertTeam(t)
  BY <1>1, <1>2 DEF InsertTeam, On, TeamAsks
<1>3. CASE InsertTeamMember(t)
  BY <1>1, <1>3, TeamsAssumption DEF InsertTeamMember, On, TeamAsks, TmAdds
<1>4. CASE InsertList(t)
  BY <1>1, <1>4 DEF InsertList, On, TeamAsks, TmAdds
<1>5. CASE DeleteList(t)
  BY <1>1, <1>5 DEF DeleteList
<1>6. CASE DeleteTeamMember(t)
  BY <1>1, <1>6 DEF DeleteTeamMember
<1>7. CASE RenameTeam(t)
  BY <1>1, <1>7 DEF RenameTeam, On, TeamAsks
<1>8. CASE ListPeople(t)
  BY <1>1, <1>8 DEF ListPeople, tmVars, tmTables
<1>9. CASE WriteLists(t)
  BY <1>1, <1>9 DEF WriteLists, On, TeamAsks
<1>10. CASE ClearMembers(t) \/ DeleteTeam(t)
  BY <1>1, <1>10 DEF ClearMembers, DeleteTeam
<1> QED
  BY <1>2, <1>3, <1>4, <1>5, <1>6, <1>7, <1>8, <1>9, <1>10

LEMMA CardTables ==
    ASSUME TeamCore, NEW t \in Tasks,
           \/ FindTeam(t) \/ ListCards(t) \/ DeleteComments(t) \/ DeleteBoard(t)
           \/ CountColumn(t) \/ GetCard(t) \/ WriteCard(t) \/ DeleteCardComments(t) \/ DeleteCard(t)
           \/ WriteOnCard(t) \/ DropTm(t)
    PROVE  TeamTables'
<1>1. TeamAsks(t) /\ cards \in [Cards -> CardSet] /\ UNCHANGED <<team, team_members, lists>>
  BY DEF TeamCore, TeamTables, FindTeam, ListCards, DeleteComments, DeleteBoard, CountColumn, GetCard, WriteCard,
         DeleteCardComments, DeleteCard, WriteOnCard, DropTm, tmVars, tmTables
<1>2. ASSUME cards' \in [Cards -> CardSet] PROVE TeamTables'
  BY <1>1, <1>2 DEF TeamCore, TeamTables
<1>3. CASE WriteCard(t)
  <2>1. call[t].op \in {"add_card", "edit_card", "move_card"} /\ call[t].at = "row"
    BY <1>3 DEF WriteCard, On
  <2> SUFFICES ASSUME NEW c, NEW k, c = Arg(t).card, k = Arg(t).column PROVE TeamTables'
    OBVIOUS
  <2>2. c \in Cards /\ k \in Columns
    BY <1>1, <2>1 DEF TeamAsks, CardOps
  <2>3. PICK p \in IF call[t].op = "add_card" THEN {Got(t)}
                    ELSE IF call[t].op = "edit_card" THEN {cards[c].place}
                    ELSE 0..Cardinality(Cards) : cards' = [cards EXCEPT ![c] = [is |-> TRUE, column |-> k, place |-> p]]
    BY <1>3 DEF WriteCard
  <2>4. p \in Nat
    <3>1. cards[c].place \in Nat
      BY <1>1, <2>2 DEF CardSet
    <3> QED
      BY <1>1, <2>1, <2>3, <3>1, FS_CardinalityType, TeamsAssumption DEF TeamAsks
  <2>5. cards' \in [Cards -> CardSet]
    BY <1>1, <2>2, <2>3, <2>4, PutCard
  <2> QED
    BY <1>2, <2>5
<1>4. CASE DeleteCard(t)
  <2> SUFFICES ASSUME NEW c, c = Arg(t).card PROVE TeamTables'
    OBVIOUS
  <2>1. c \in Cards /\ cards' = [cards EXCEPT ![c] = NoCard]
    BY <1>1, <1>4 DEF DeleteCard, On, TeamAsks, CardOps
  <2> QED
    BY <1>1, <1>2, <2>1, TakeCard
<1>5. CASE DeleteBoard(t)
  BY <1>2, <1>5, ClearCards DEF DeleteBoard
<1>6. CASE cards' = cards
  BY <1>1, <1>2, <1>6
<1> QED
  BY <1>3, <1>4, <1>5, <1>6 DEF FindTeam, ListCards, DeleteComments, CountColumn, GetCard,
         DeleteCardComments, WriteOnCard, DropTm, tmVars, tmTables

\* The reads of a team and of a count.
LEMMA ReadsRight ==
    ASSUME TeamCore, NEW t \in Tasks,
           \/ FindTeam(t) \/ InsertTeam(t) \/ InsertTeamMember(t) \/ InsertList(t) \/ DeleteList(t)
           \/ DeleteTeamMember(t) \/ RenameTeam(t) \/ ListPeople(t) \/ WriteLists(t)
           \/ ListCards(t) \/ DeleteComments(t) \/ DeleteBoard(t) \/ ClearMembers(t) \/ DeleteTeam(t)
           \/ CountColumn(t) \/ GetCard(t) \/ WriteCard(t) \/ DeleteCardComments(t) \/ DeleteCard(t)
           \/ WriteOnCard(t) \/ DropTm(t)
    PROVE  ReadRight(t)'
<1>1. CASE Finish(t) \/ Drop(t)
  BY <1>1, LeavesEnds DEF Ceases, ReadRight, TmAdds, TeamCore
<1>2. CASE FindTeam(t) /\ \E at : Learn(t, at, team)
  <2>1. call[t].op = "add_card" => Learn(t, "count", team) \/ Finish(t)
    BY <1>2 DEF FindTeam
  <2>2. PICK at : Continues(t, at, team)
    BY <1>2, LearnGoes DEF TeamCore
  <2>3. call[t].op = "add_card" => Continues(t, "count", team) \/ Ceases(t)
    BY <2>1, LearnGoes, LeavesEnds DEF TeamCore
  <2>4. Got(t)' = team /\ team \in TeamNames \cup {NoTeam} /\ call'[t].op = call[t].op
    BY <2>2 DEF Continues, Got, TeamCore, TeamTables
  <2> QED
    BY <2>3, <2>4 DEF ReadRight, Continues, Ceases, TmAdds
<1>3. CASE InsertTeam(t)
  <2>1. Continues(t, "row", Arg(t).name) /\ call[t].op = "create_team" /\ Arg(t).name \in TeamNames
    BY <1>3, LearnGoes DEF InsertTeam, On, TeamCore, TeamAsks
  <2>2. call'[t].op = "create_team" /\ Got(t)' \in TeamNames
    BY <2>1 DEF Continues, Got
  <2> QED
    BY <2>2 DEF ReadRight
<1>4. CASE InsertTeamMember(t)
  <2>1. Continues(t, "list", Got(t)) /\ call[t].op \in TmAdds /\ Got(t) \in TeamNames \cup {NoTeam}
    BY <1>4, GotoGoes DEF InsertTeamMember, On, TmAdds, TeamCore, TeamAsks
  <2>2. call'[t].op \in TmAdds /\ Got(t)' \in TeamNames \cup {NoTeam}
    BY <2>1 DEF Continues, Got
  <2> QED
    BY <2>2 DEF ReadRight, TmAdds
<1>5. CASE CountColumn(t)
  <2> SUFFICES ASSUME NEW n \in Nat, Continues(t, "row", n), call[t].op = "add_card" PROVE ReadRight(t)'
    BY <1>5, LearnGoes, ColumnCounts DEF CountColumn, On, TeamCore
  <2> QED
    BY DEF Continues, Got, ReadRight, TmAdds
<1>6. CASE (\E at, got : Goto(t, at) \/ Learn(t, at, got)) /\ call[t].op \notin TmAdds \cup {"add_card"}
  <2>1. call'[t].op = call[t].op
    BY <1>6, GotoGoes, LearnGoes DEF Continues, TeamCore
  <2> QED
    BY <1>6, <2>1 DEF ReadRight
<1>7. CASE \/ DeleteList(t) \/ RenameTeam(t) \/ ListPeople(t) \/ WriteLists(t) \/ ListCards(t)
           \/ DeleteComments(t) \/ DeleteBoard(t) \/ ClearMembers(t) \/ GetCard(t) \/ DeleteCardComments(t)
  <2>1. call[t].op \notin TmAdds \cup {"add_card"}
    BY <1>7 DEF DeleteList, RenameTeam, ListPeople, WriteLists, ListCards, DeleteComments, DeleteBoard,
                ClearMembers, GetCard, DeleteCardComments, On, TmAdds
  <2>2. Finish(t) \/ \E at, got : Goto(t, at) \/ Learn(t, at, got)
    BY <1>7 DEF DeleteList, RenameTeam, ListPeople, WriteLists, ListCards, DeleteComments, DeleteBoard,
                ClearMembers, GetCard, DeleteCardComments
  <2> QED
    BY <1>1, <1>6, <2>1, <2>2
<1> QED
  BY <1>1, <1>2, <1>3, <1>4, <1>5, <1>7
     DEF FindTeam, InsertList, DeleteTeamMember, DeleteTeam, WriteCard, DeleteCard, WriteOnCard, DropTm

-----------------------------------------------------------------------------
(* The places. *)

\* A column that only grew keeps its cards, or gains one at the place it was
\* going to give.
Grows(k) ==
    \/ InColumn(k)' = InColumn(k)
       /\ \A c \in InColumn(k) : cards'[c].place = cards[c].place
    \/ \E c \in Cards \ InColumn(k) :
           /\ InColumn(k)' = InColumn(k) \cup {c} /\ cards'[c].place = PlaceIn(k)
           /\ \A d \in InColumn(k) : cards'[d].place = cards[d].place

LEMMA GrownBelow ==
    ASSUME TeamTables, PlacesBelow, loose \subseteq loose', \A k \in Columns \ loose' : Grows(k)
    PROVE  PlacesBelow'
<1> SUFFICES ASSUME NEW k \in Columns \ loose'
             PROVE  \A c \in InColumn(k)' :
                        /\ cards'[c].place < PlaceIn(k)'
                        /\ \A d \in InColumn(k)' : c # d => cards'[c].place # cards'[d].place
  BY DEF PlacesBelow
<1>1. \A c \in InColumn(k) : /\ cards[c].place < PlaceIn(k)
                             /\ \A d \in InColumn(k) : c # d => cards[c].place # cards[d].place
  BY DEF PlacesBelow
<1>2. \A c \in InColumn(k) : cards[c].place \in Nat
  BY DEF InColumn, Board, TeamTables, CardSet
<1>3. IsFiniteSet(InColumn(k)) /\ PlaceIn(k) \in Nat
  BY ColumnCounts
<1>4. CASE InColumn(k)' = InColumn(k) /\ \A c \in InColumn(k) : cards'[c].place = cards[c].place
  <2>1. PlaceIn(k)' = PlaceIn(k)
    BY <1>4 DEF PlaceIn
  <2> QED
    BY <1>1, <1>4, <2>1
<1>5. ASSUME NEW c \in Cards \ InColumn(k), InColumn(k)' = InColumn(k) \cup {c}, cards'[c].place = PlaceIn(k),
             \A d \in InColumn(k) : cards'[d].place = cards[d].place
      PROVE  \A e \in InColumn(k)' :
                        /\ cards'[e].place < PlaceIn(k)'
                        /\ \A d \in InColumn(k)' : e # d => cards'[e].place # cards'[d].place
  <2>1. PlaceIn(k)' = PlaceIn(k) + 1
    BY <1>3, <1>5, FS_AddElement DEF PlaceIn
  <2> QED
    BY <1>1, <1>2, <1>3, <1>5, <2>1
<1> QED
  BY <1>4, <1>5 DEF Grows

\* A call that is over, or whose place is as free as it was.
LEMMA PlacesStep ==
    ASSUME TeamTables, PlacesInv, NEW t \in Tasks, TeamMoves(t), loose \subseteq loose',
           \A k \in Columns \ loose' : Grows(k), PlaceKnown(t)',
           \A v \in Tasks \ {t} : call[v].op = "add_card" =>
                \A c, k : c = Arg(v).card /\ k = Arg(v).column =>
                    /\ c \in Board' => cards'[c].column \in loose'
                    /\ k \notin loose' => PlaceIn(k)' = PlaceIn(k)
    PROVE  PlacesInv'
<1>1. PlacesBelow'
  BY GrownBelow DEF PlacesInv
<1>2. \A v \in Tasks \ {t} : call'[v] = call[v]
  BY DEF TeamMoves, Only
<1>3. AddsAlone'
  <2>1. \A v \in Tasks : call'[v].op \in {"add_card", "edit_card"} => call[v].op \in {"add_card", "edit_card"}
    BY <1>2 DEF TeamMoves
  <2> QED
    BY <2>1 DEF PlacesInv, AddsAlone
<1>4. ASSUME NEW v \in Tasks \ {t} PROVE PlaceKnown(v)'
  <2> SUFFICES ASSUME NEW c, NEW k, c = Arg(v).card, k = Arg(v).column, call[v].op = "add_card"
               PROVE  /\ c \in Board' => cards'[c].column \in loose'
                      /\ call[v].at = "row" /\ k \notin loose' => Got(v) = PlaceIn(k)'
    BY <1>2 DEF PlaceKnown, Arg, Got, PlaceIn
  <2>1. /\ c \in Board' => cards'[c].column \in loose'
        /\ k \notin loose' => PlaceIn(k)' = PlaceIn(k)
    OBVIOUS
  <2>2. call[v].at = "row" /\ k \notin loose => Got(v) = PlaceIn(k)
    BY DEF PlacesInv, PlaceKnown
  <2> QED
    BY <2>1, <2>2
<1> QED
  BY <1>1, <1>3, <1>4 DEF PlacesInv

\* Nothing that counts has changed.
LEMMA PlacesStay ==
    ASSUME TeamTables, PlacesInv, NEW t \in Tasks, TeamMoves(t), cards' = cards, loose' = loose,
           call'[t].op = "add_card" /\ call'[t].at = "row" /\ Arg(t)'.column \notin loose =>
                Got(t)' = PlaceIn(Arg(t)'.column)
    PROVE  PlacesInv'
<1>1. \A k \in Columns : Grows(k)
  BY DEF Grows, InColumn, Board
<1>2. Board' = Board /\ \A k : PlaceIn(k)' = PlaceIn(k)
  BY DEF PlaceIn, InColumn, Board
<1>3. PlaceKnown(t)'
  <2> SUFFICES ASSUME NEW c, NEW k, c = Arg(t)'.card, k = Arg(t)'.column, call'[t].op = "add_card"
               PROVE  /\ c \in Board => cards[c].column \in loose
                      /\ call'[t].at = "row" /\ k \notin loose => Got(t)' = PlaceIn(k)
    BY <1>2 DEF PlaceKnown
  <2>1. call[t].op = "add_card" /\ Arg(t)' = Arg(t)
    BY DEF TeamMoves, Arg
  <2> QED
    BY <2>1 DEF PlacesInv, PlaceKnown
<1>4. \A v \in Tasks \ {t} : call[v].op = "add_card" =>
                \A c, k : c = Arg(v).card /\ k = Arg(v).column => (c \in Board => cards[c].column \in loose)
  BY DEF PlacesInv, PlaceKnown
<1> QED
  BY <1>1, <1>2, <1>3, <1>4, PlacesStep

LEMMA WriteCardPlaces ==
    ASSUME TeamCore, PlacesInv, NEW t \in Tasks, WriteCard(t)
    PROVE  PlacesInv'
<1>1. call[t].op \in {"add_card", "edit_card", "move_card"} /\ call[t].at = "row" /\ Ceases(t)
  BY LeavesEnds DEF WriteCard, On, TeamCore
<1> SUFFICES ASSUME NEW c, NEW k, c = Arg(t).card, k = Arg(t).column PROVE PlacesInv'
  OBVIOUS
<1>2. c \in Cards /\ k \in Columns /\ cards \in [Cards -> CardSet]
  BY <1>1 DEF TeamCore, TeamAsks, CardOps, TeamTables
<1>3. PICK p \in IF call[t].op = "add_card" THEN {Got(t)}
                  ELSE IF call[t].op = "edit_card" THEN {cards[c].place}
                  ELSE 0..Cardinality(Cards) : cards' = [cards EXCEPT ![c] = [is |-> TRUE, column |-> k, place |-> p]]
  BY DEF WriteCard
<1>4. p \in Nat
  <2>1. cards[c].place \in Nat
    BY <1>2 DEF CardSet
  <2> QED
    BY <1>1, <1>3, <2>1, FS_CardinalityType, TeamsAssumption DEF TeamCore, TeamAsks
<1>5. /\ Board' = Board \cup {c} /\ cards'[c].column = k /\ cards'[c].place = p
      /\ \A d \in Cards \ {c} : cards'[d] = cards[d]
  BY <1>2, <1>3, <1>4, PutCard
<1>6. TeamMoves(t) /\ PlaceKnown(t)'
  BY <1>1 DEF Ceases, TeamMoves, PlaceKnown
<1>7. \A j : j # k /\ (c \in Board => cards[c].column # j) =>
            InColumn(j)' = InColumn(j) /\ c \notin InColumn(j)
  BY <1>5 DEF InColumn, Board
<1>8. \A j : c \notin InColumn(j) => \A d \in InColumn(j) : cards'[d].place = cards[d].place
  BY <1>5 DEF InColumn, Board
<1>9. CASE call[t].op = "add_card"
  <2>1. loose' = loose
    BY <1>9 DEF WriteCard
  <2>2. /\ c \in Board => cards[c].column \in loose
        /\ k \notin loose => p = PlaceIn(k)
    BY <1>1, <1>3, <1>9 DEF PlacesInv, PlaceKnown
  <2>3. ASSUME NEW j \in Columns \ loose PROVE Grows(j)
    <3>1. CASE j # k
      BY <1>7, <1>8, <2>2, <2>3, <3>1 DEF Grows
    <3>2. CASE j = k
      <4>1. c \notin InColumn(k) /\ InColumn(k)' = InColumn(k) \cup {c}
        BY <1>2, <1>5, <2>2, <2>3, <3>2 DEF InColumn, Board
      <4> QED
        BY <1>2, <1>5, <1>8, <2>2, <2>3, <3>2, <4>1 DEF Grows
    <3> QED
      BY <3>1, <3>2
  <2>4. ASSUME NEW v \in Tasks \ {t}, call[v].op = "add_card"
        PROVE  \A d, j : d = Arg(v).card /\ j = Arg(v).column =>
                    (d \in Board' => cards'[d].column \in loose) /\ j \in loose
    <3>1. Columns \subseteq loose
      BY <1>9, <2>4 DEF PlacesInv, AddsAlone
    <3>2. Arg(v).column \in Columns /\ Arg(v).card \in Cards
      BY <2>4 DEF TeamCore, TeamAsks, CardOps
    <3>3. Arg(v).card \in Board => cards[Arg(v).card].column \in loose
      BY <2>4 DEF PlacesInv, PlaceKnown
    <3> QED
      BY <1>2, <1>5, <3>1, <3>2, <3>3
  <2> QED
    BY <1>6, <2>1, <2>3, <2>4, PlacesStep DEF TeamCore
<1>10. CASE call[t].op # "add_card"
  <2>1. loose' = loose \cup {cards[c].column, k}
    BY <1>10 DEF WriteCard
  <2>2. \A j : j \notin loose' => InColumn(j)' = InColumn(j) /\ c \notin InColumn(j)
    BY <1>7, <2>1
  <2>3. \A j \in Columns \ loose' : Grows(j)
    BY <1>8, <2>2 DEF Grows
  <2>4. ASSUME NEW v \in Tasks \ {t}, call[v].op = "add_card"
        PROVE  \A d, j : d = Arg(v).card /\ j = Arg(v).column =>
                    /\ d \in Board' => cards'[d].column \in loose'
                    /\ j \notin loose' => PlaceIn(j)' = PlaceIn(j)
    <3>1. Arg(v).card \in Cards
      BY <2>4 DEF TeamCore, TeamAsks, CardOps
    <3>2. Arg(v).card \in Board => cards[Arg(v).card].column \in loose
      BY <2>4 DEF PlacesInv, PlaceKnown
    <3>3. ASSUME NEW j, j \notin loose' PROVE PlaceIn(j)' = PlaceIn(j)
      BY <2>2, <3>3 DEF PlaceIn
    <3>4. ASSUME NEW d \in Cards, d \in Board => cards[d].column \in loose
          PROVE  d \in Board' => cards'[d].column \in loose'
      BY <1>5, <2>1, <3>4
    <3> QED
      BY <3>1, <3>2, <3>3, <3>4
  <2> QED
    BY <1>6, <2>1, <2>3, <2>4, PlacesStep DEF TeamCore
<1> QED
  BY <1>9, <1>10

LEMMA DeleteCardPlaces ==
    ASSUME TeamCore, PlacesInv, NEW t \in Tasks, DeleteCard(t)
    PROVE  PlacesInv'
<1>1. call[t].op = "delete_card" /\ Ceases(t)
  BY LeavesEnds DEF DeleteCard, On, TeamCore
<1> SUFFICES ASSUME NEW c, c = Arg(t).card PROVE PlacesInv'
  OBVIOUS
<1>2. c \in Cards /\ cards \in [Cards -> CardSet] /\ cards' = [cards EXCEPT ![c] = NoCard]
      /\ loose' = loose \cup {cards[c].column}
  BY <1>1 DEF TeamCore, TeamAsks, CardOps, TeamTables, DeleteCard
<1>3. Board' = Board \ {c} /\ \A d \in Cards \ {c} : cards'[d] = cards[d]
  BY <1>2, TakeCard
<1>4. TeamMoves(t) /\ PlaceKnown(t)'
  BY <1>1 DEF Ceases, TeamMoves, PlaceKnown
<1>5. \A j : j \notin loose' => InColumn(j)' = InColumn(j) /\ c \notin InColumn(j)
  BY <1>2, <1>3 DEF InColumn, Board
<1>6. \A j \in Columns \ loose' : Grows(j)
  BY <1>3, <1>5 DEF Grows, InColumn, Board
<1>7. ASSUME NEW v \in Tasks \ {t}, call[v].op = "add_card", NEW d, d = Arg(v).card
      PROVE  d \in Board' => cards'[d].column \in loose'
  <2>1. d \in Cards /\ (d \in Board => cards[d].column \in loose)
    BY <1>7 DEF TeamCore, TeamAsks, CardOps, PlacesInv, PlaceKnown
  <2> QED
    BY <1>2, <1>3, <2>1
<1>8. \A j : j \notin loose' => PlaceIn(j)' = PlaceIn(j)
  BY <1>5 DEF PlaceIn
<1> QED
  BY <1>2, <1>4, <1>6, <1>7, <1>8, PlacesStep DEF TeamCore

\* Beside a deletion no card is added.
LEMMA DeleteBoardPlaces ==
    ASSUME TeamCore, DeletesAlone, NEW t \in Tasks, DeleteBoard(t)
    PROVE  PlacesInv'
<1>1. call[t].op = "delete_team" /\ Continues(t, "team_members", Got(t)) /\ Board' = {}
  BY GotoGoes, ClearCards DEF DeleteBoard, On, TeamCore
<1>2. \A v \in Tasks : call'[v].op \notin {"add_card", "edit_card"}
  BY <1>1 DEF DeletesAlone, Continues, Only
<1>3. AddsAlone' /\ \A v \in Tasks : PlaceKnown(v)'
  BY <1>2 DEF AddsAlone, PlaceKnown
<1>4. PlacesBelow'
  BY <1>1 DEF PlacesBelow, InColumn
<1> QED
  BY <1>3, <1>4 DEF PlacesInv

LEMMA DeleteTeamPlaces ==
    ASSUME TeamCore, DeletesAlone, NEW t \in Tasks, DeleteTeam(t), Deleted(t)
    PROVE  PlacesInv'
<1>1. call[t].op = "delete_team" /\ call[t].at = "team" /\ Ceases(t) /\ cards' = cards
  BY LeavesEnds DEF DeleteTeam, On, TeamCore
<1>2. \A v \in Tasks : call'[v].op \notin {"add_card", "edit_card"}
  BY <1>1 DEF DeletesAlone, Ceases, Only
<1>3. AddsAlone' /\ \A v \in Tasks : PlaceKnown(v)'
  BY <1>2 DEF AddsAlone, PlaceKnown
<1>4. Board' = {}
  BY <1>1 DEF Deleted, Board
<1>5. PlacesBelow'
  BY <1>4 DEF PlacesBelow, InColumn
<1> QED
  BY <1>3, <1>5 DEF PlacesInv

\* The other steps leave the cards.
LEMMA OtherPlaces ==
    ASSUME TeamCore, PlacesInv, NEW t \in Tasks, TeamMoves(t),
           \/ FindTeam(t) \/ InsertTeam(t) \/ InsertTeamMember(t) \/ InsertList(t) \/ DeleteList(t)
           \/ DeleteTeamMember(t) \/ RenameTeam(t) \/ ListPeople(t) \/ WriteLists(t)
           \/ ListCards(t) \/ DeleteComments(t) \/ ClearMembers(t)
           \/ CountColumn(t) \/ GetCard(t) \/ DeleteCardComments(t) \/ WriteOnCard(t) \/ DropTm(t)
    PROVE  PlacesInv'
<1>1. cards' = cards /\ loose' = loose
  BY DEF FindTeam, InsertTeam, InsertTeamMember, InsertList, DeleteList, DeleteTeamMember, RenameTeam, ListPeople,
         WriteLists, ListCards, DeleteComments, ClearMembers, CountColumn, GetCard, DeleteCardComments,
         WriteOnCard, DropTm, tmVars, tmTables, tmHistory
<1>2. CASE CountColumn(t)
  <2> SUFFICES ASSUME NEW k, k = Arg(t).column PROVE PlacesInv'
    OBVIOUS
  <2>1. Continues(t, "row", PlaceIn(k))
    BY <1>2, LearnGoes DEF CountColumn, TeamCore
  <2>2. Got(t)' = PlaceIn(k) /\ Arg(t)' = Arg(t)
    BY <2>1 DEF Continues, Got, Arg
  <2> QED
    BY <1>1, <2>2, PlacesStay DEF TeamCore
<1>3. CASE ~ (call'[t].op = "add_card" /\ call'[t].at = "row")
  BY <1>1, <1>3, PlacesStay DEF TeamCore
<1>4. CASE call[t].op # "add_card" \/ Finish(t) \/ Drop(t)
  <2>1. call'[t].op # "add_card"
    BY <1>4, LeavesEnds DEF Ceases, TeamMoves, TeamCore
  <2> QED
    BY <1>3, <2>1
<1>5. CASE FindTeam(t) /\ call[t].op = "add_card"
  <2>1. Finish(t) \/ Learn(t, "count", team)
    BY <1>5 DEF FindTeam
  <2>2. Ceases(t) \/ Continues(t, "count", team)
    BY <2>1, LeavesEnds, LearnGoes DEF TeamCore
  <2> QED
    BY <1>3, <2>2 DEF Ceases, Continues
<1>6. \/ CountColumn(t) \/ FindTeam(t) \/ Drop(t) \/ call[t].op # "add_card"
  BY DEF InsertTeam, InsertTeamMember, InsertList, DeleteList, DeleteTeamMember, RenameTeam, ListPeople,
         WriteLists, ListCards, DeleteComments, ClearMembers, GetCard, DeleteCardComments,
         WriteOnCard, DropTm, On, TmAdds
<1> QED
  BY <1>2, <1>4, <1>5, <1>6

-----------------------------------------------------------------------------
(* The deletion. *)

\* Whoever goes on does so alone, if it is a deletion.
LEMMA AloneStays ==
    ASSUME DeletesAlone, NEW t \in Tasks, TeamMoves(t)
    PROVE  DeletesAlone'
<1>1. \A v \in Tasks \ {t} : call'[v] = call[v]
  BY DEF TeamMoves, Only
<1>2. \A v \in Tasks : /\ call'[v].op = "delete_team" => call[v].op = "delete_team"
                       /\ call[v].op = "none" /\ v # t => call'[v].op = "none"
  BY <1>1 DEF TeamMoves
<1>3. \A v \in Tasks \ {t} : call[v].op = "delete_team" => call'[t].op = "none"
  BY DEF DeletesAlone, TeamMoves
<1> QED
  BY <1>2, <1>3 DEF DeletesAlone

\* Only the call itself may be a deletion.
LEMMA DeletedByOne ==
    ASSUME DeletesAlone, NEW t \in Tasks, call[t].op # "none", TeamMoves(t), Deleted(t)'
    PROVE  \A v \in Tasks : Deleted(v)'
<1>1. \A v \in Tasks \ {t} : call'[v].op # "delete_team"
  BY DEF TeamMoves, Only, DeletesAlone
<1> QED
  BY <1>1 DEF Deleted

\* Past its look at a team that is not there, no call but the one that creates it.
LEMMA BareMoves ==
    ASSUME Bare, NEW t \in Tasks, call[t].op # "none", call[t].at # "find",
           ~ (call[t].op = "create_team" /\ call[t].at = "team")
    PROVE  team # NoTeam
  BY DEF Bare

\* The steps of other calls than the deletion that leave cards and comments.
LEMMA MembersDeletion ==
    ASSUME TeamCore, DeletionInv, NEW t \in Tasks, TeamMoves(t),
           \/ InsertTeam(t) \/ InsertTeamMember(t) \/ InsertList(t) \/ DeleteList(t)
           \/ DeleteTeamMember(t) \/ RenameTeam(t)
    PROVE  DeletionInv'
<1>1. cards' = cards /\ comments' = comments /\ Board' = Board
  BY DEF InsertTeam, InsertTeamMember, InsertList, DeleteList, DeleteTeamMember, RenameTeam, Board
<1>2. call[t].op \in {"create_team", "add_to_team", "remove_from_team", "rename_team"}
  BY DEF InsertTeam, InsertTeamMember, InsertList, DeleteList, DeleteTeamMember, RenameTeam, On, TmAdds
<1>3. \A v \in Tasks : Deleted(v)'
  <2>1. Deleted(t)'
    BY <1>2 DEF Deleted, TeamMoves
  <2> QED
    BY <1>2, <2>1, DeletedByOne DEF DeletionInv
<1>4. team' # NoTeam
  <2>1. CASE InsertTeam(t) \/ RenameTeam(t)
    BY <2>1, TeamsAssumption DEF InsertTeam, RenameTeam, On, TeamCore, TeamAsks, NoTeam
  <2>2. CASE ~ InsertTeam(t) /\ ~ RenameTeam(t)
    <3>1. team' = team /\ call[t].at \in {"row", "list"}
      BY <2>2 DEF InsertTeamMember, InsertList, DeleteList, DeleteTeamMember, On
    <3> QED
      BY <1>2, <3>1, BareMoves DEF DeletionInv
  <2> QED
    BY <2>1, <2>2
<1> QED
  BY <1>1, <1>3, <1>4, AloneStays DEF DeletionInv, Bare

\* A step that leaves the tables of a team that is there.
LEMMA ReadsDeletion ==
    ASSUME DeletionInv, NEW t \in Tasks, call[t].op # "none", TeamMoves(t),
           cards' = cards, comments' = comments, team' = team, team # NoTeam, Deleted(t)'
    PROVE  DeletionInv'
<1>1. Board' = Board
  BY DEF Board
<1> QED
  BY <1>1, AloneStays, DeletedByOne DEF DeletionInv, Bare

LEMMA ListsDeletion ==
    ASSUME TeamCore, DeletionInv, NEW t \in Tasks, TeamMoves(t), ListPeople(t) \/ WriteLists(t) \/ ListCards(t)
    PROVE  DeletionInv'
<1>1. /\ cards' = cards /\ comments' = comments /\ team' = team
      /\ call[t].op \in {"rename_team", "delete_team"} /\ call[t].at \in {"team_members", "lists", "cards"}
  BY DEF ListPeople, WriteLists, ListCards, On, tmVars, tmTables
<1>2. team # NoTeam
  BY <1>1, BareMoves DEF DeletionInv
<1>3. Board' = Board
  BY <1>1 DEF Board
<1>4. CASE ListCards(t)
  <2>1. Continues(t, "comments", Board) /\ comments \subseteq Board
    BY <1>4, LearnGoes DEF ListCards, TeamCore, DeletionInv
  <2>2. call'[t].at = "comments" /\ Got(t)' = Board
    BY <2>1 DEF Continues, Got
  <2>3. Deleted(t)'
    BY <1>1, <2>1, <2>2 DEF Deleted
  <2> QED
    BY <1>1, <1>2, <2>3, ReadsDeletion
<1>5. CASE ListPeople(t) \/ WriteLists(t)
  <2>1. call[t].at \in {"team_members", "lists"}
    BY <1>5 DEF ListPeople, WriteLists, On
  <2>2. call[t].op = "delete_team" => comments = {} /\ Board = {}
    BY <2>1 DEF DeletionInv, Deleted
  <2>3. call'[t].op = "none" \/ call'[t].at \in {"lists", "clear"}
    <3>1. Finish(t) \/ Goto(t, "clear") \/ \E got : Learn(t, "lists", got)
      BY <1>5 DEF ListPeople, WriteLists
    <3> QED
      BY <3>1, LeavesEnds, GotoGoes, LearnGoes DEF Ceases, Continues, TeamCore
  <2>4. Deleted(t)'
    BY <1>1, <1>3, <2>2, <2>3 DEF Deleted, TeamMoves
  <2> QED
    BY <1>1, <1>2, <2>4, ReadsDeletion
<1> QED
  BY <1>4, <1>5

LEMMA DeletingSteps ==
    ASSUME TeamCore, DeletionInv, NEW t \in Tasks, TeamMoves(t),
           DeleteComments(t) \/ DeleteBoard(t) \/ ClearMembers(t)
    PROVE  DeletionInv'
<1>1. /\ team' = team /\ call[t].op = "delete_team" /\ call[t].at \in {"comments", "board", "clear"}
  BY DEF DeleteComments, DeleteBoard, ClearMembers, On
<1>2. team # NoTeam
  BY <1>1, BareMoves DEF DeletionInv
<1>3. Bare' /\ DeletesAlone'
  BY <1>1, <1>2, AloneStays DEF Bare, DeletionInv
<1>4. ASSUME Deleted(t)', comments' \subseteq Board' PROVE DeletionInv'
  BY <1>1, <1>3, <1>4, DeletedByOne DEF DeletionInv
<1>5. CASE DeleteComments(t)
  <2>1. cards' = cards /\ call[t].at = "comments" /\ Board' = Board
    BY <1>5 DEF DeleteComments, On, Board
  <2>2. comments \subseteq Got(t) /\ comments \subseteq Board
    BY <1>1, <2>1 DEF DeletionInv, Deleted
  <2>3. CASE Got(t) = {} /\ Goto(t, "board") /\ comments' = comments
    <3>1. comments' = {} /\ call'[t].at = "board"
      BY <2>2, <2>3, GotoGoes DEF Continues, TeamCore
    <3>2. Deleted(t)'
      BY <3>1 DEF Deleted
    <3> QED
      BY <1>4, <3>1, <3>2
  <2>4. ASSUME NEW c \in Got(t), comments' = comments \ {c}, Learn(t, "comments", Got(t) \ {c}) PROVE DeletionInv'
    <3>1. call'[t].at = "comments" /\ Got(t)' = Got(t) \ {c}
      BY <2>4, LearnGoes DEF Continues, Got, TeamCore
    <3>2. Deleted(t)'
      BY <2>2, <2>4, <3>1 DEF Deleted
    <3> QED
      BY <1>4, <2>1, <2>2, <2>4, <3>2
  <2> QED
    BY <1>5, <2>3, <2>4 DEF DeleteComments
<1>6. CASE DeleteBoard(t)
  <2>1. Continues(t, "team_members", Got(t)) /\ Board' = {} /\ comments' = comments /\ call[t].at = "board"
    BY <1>6, GotoGoes, ClearCards DEF DeleteBoard, On, TeamCore
  <2>2. comments' = {} /\ call'[t].at = "team_members"
    BY <1>1, <2>1 DEF Deleted, DeletionInv, Continues
  <2>3. Deleted(t)'
    BY <2>1, <2>2 DEF Deleted
  <2> QED
    BY <1>4, <2>2, <2>3
<1>7. CASE ClearMembers(t)
  <2>1. Continues(t, "team", Got(t)) /\ Board' = Board /\ comments' = comments /\ call[t].at = "clear" /\ team_members' = {}
    BY <1>7, GotoGoes DEF ClearMembers, On, TeamCore, Board
  <2>2. comments' = {} /\ Board' = {} /\ call'[t].at = "team"
    BY <1>1, <2>1 DEF Deleted, DeletionInv, Continues
  <2>3. Deleted(t)'
    BY <2>1, <2>2 DEF Deleted
  <2> QED
    BY <1>4, <2>2, <2>3
<1> QED
  BY <1>5, <1>6, <1>7

\* The team is gone, and with it all but the attachments.
LEMMA DeleteTeamDeletion ==
    ASSUME TeamCore, DeletionInv, NEW t \in Tasks, TeamMoves(t), DeleteTeam(t)
    PROVE  DeletionInv'
<1>1. /\ call[t].op = "delete_team" /\ call[t].at = "team" /\ Ceases(t)
      /\ UNCHANGED <<team_members, cards, comments>>
  BY LeavesEnds DEF DeleteTeam, On, TeamCore
<1>2. team_members' = {} /\ Board' = {} /\ comments' = {}
  BY <1>1 DEF DeletionInv, Deleted, Board
<1>3. \A v \in Tasks : call'[v].op = "none"
  BY <1>1 DEF DeletionInv, DeletesAlone, Ceases, Only
<1> QED
  BY <1>2, <1>3 DEF DeletionInv, DeletesAlone, Bare, Deleted

LEMMA FindDeletion ==
    ASSUME TeamCore, DeletionInv, NEW t \in Tasks, TeamMoves(t), FindTeam(t)
    PROVE  DeletionInv'
<1>1. UNCHANGED <<team, team_members, cards, comments>> /\ call[t].op # "none" /\ Board' = Board
  BY DEF FindTeam, On, tmVars, tmTables, Board
<1>2. Deleted(t)'
  <2>1. CASE call[t].op = "delete_team" /\ Learn(t, "cards", team)
    BY <2>1, LearnGoes DEF Continues, TeamCore, Deleted
  <2>2. CASE Finish(t)
    BY <2>2, LeavesEnds DEF Ceases, TeamCore, Deleted
  <2>3. CASE call[t].op # "delete_team"
    BY <2>3 DEF TeamMoves, Deleted
  <2> QED
    BY <2>1, <2>2, <2>3 DEF FindTeam
<1>3. CASE team = NoTeam
  <2>1. Ceases(t)
    BY <1>3, LeavesEnds DEF FindTeam, TeamCore
  <2>2. Bare'
    BY <1>1, <2>1 DEF DeletionInv, Bare, Ceases, Only
  <2> QED
    BY <1>1, <1>2, <2>2, AloneStays, DeletedByOne DEF DeletionInv
<1>4. CASE team # NoTeam
  BY <1>1, <1>2, <1>4, ReadsDeletion
<1> QED
  BY <1>3, <1>4

LEMMA CardsDeletion ==
    ASSUME TeamCore, DeletionInv, NEW t \in Tasks, TeamMoves(t), ~ intruded',
           \/ CountColumn(t) \/ GetCard(t) \/ WriteCard(t) \/ DeleteCardComments(t) \/ DeleteCard(t)
           \/ WriteOnCard(t)
    PROVE  DeletionInv'
<1>1. call[t].op \in CardOps /\ call[t].at # "find" /\ team' = team
  BY DEF CountColumn, GetCard, WriteCard, DeleteCardComments, DeleteCard, WriteOnCard, On, CardOps, tmVars, tmTables
<1>2. team # NoTeam
  BY <1>1, BareMoves DEF DeletionInv, CardOps
<1>3. Bare' /\ DeletesAlone' /\ \A v \in Tasks : Deleted(v)'
  <2>1. Deleted(t)'
    BY <1>1 DEF Deleted, TeamMoves, CardOps
  <2> QED
    BY <1>1, <1>2, <2>1, AloneStays, DeletedByOne DEF Bare, DeletionInv, CardOps
<1> SUFFICES comments' \subseteq Board'
  BY <1>3 DEF DeletionInv
<1> SUFFICES ASSUME NEW c, NEW k, c = Arg(t).card, k = Arg(t).column PROVE comments' \subseteq Board'
  OBVIOUS
<1>4. c \in Cards /\ cards \in [Cards -> CardSet] /\ comments \subseteq Board
  BY <1>1 DEF TeamCore, TeamAsks, TeamTables, DeletionInv
<1>5. CASE CountColumn(t) \/ GetCard(t) \/ DeleteCardComments(t)
  <2>1. cards' = cards /\ comments' \subseteq comments
    BY <1>5 DEF CountColumn, GetCard, DeleteCardComments, tmVars, tmTables
  <2> QED
    BY <1>4, <2>1 DEF Board
<1>6. CASE WriteCard(t)
  <2>1. comments' = comments /\ call[t].op \in {"add_card", "edit_card", "move_card"} /\ call[t].at = "row"
    BY <1>6 DEF WriteCard, On
  <2>2. k \in Columns
    BY <2>1 DEF TeamCore, TeamAsks
  <2>3. PICK p \in IF call[t].op = "add_card" THEN {Got(t)}
                  ELSE IF call[t].op = "edit_card" THEN {cards[c].place}
                  ELSE 0..Cardinality(Cards) : cards' = [cards EXCEPT ![c] = [is |-> TRUE, column |-> k, place |-> p]]
    BY <1>6 DEF WriteCard
  <2>4. p \in Nat
    <3>1. cards[c].place \in Nat
      BY <1>4 DEF CardSet
    <3> QED
      BY <2>1, <2>3, <3>1, FS_CardinalityType, TeamsAssumption DEF TeamCore, TeamAsks
  <2>5. Board' = Board \cup {c}
    BY <1>4, <2>2, <2>3, <2>4, PutCard
  <2> QED
    BY <1>4, <2>1, <2>5
<1>7. CASE DeleteCard(t)
  <2>1. comments' = comments /\ cards' = [cards EXCEPT ![c] = NoCard] /\ c \notin comments
    BY <1>7 DEF DeleteCard
  <2>2. Board' = Board \ {c}
    BY <1>4, <2>1, TakeCard
  <2> QED
    BY <1>4, <2>1, <2>2
<1>8. CASE WriteOnCard(t)
  <2>1. cards' = cards /\ (call[t].op = "comment" => cards[c].is)
    BY <1>8 DEF WriteOnCard
  <2>2. comments' \subseteq comments \cup (IF call[t].op = "comment" THEN {c} ELSE {})
    BY <1>8 DEF WriteOnCard
  <2>3. call[t].op = "comment" => c \in Board
    BY <1>4, <2>1, Zenon DEF Board
  <2>4. Board' = Board
    BY <2>1 DEF Board
  <2> QED
    BY <1>4, <2>2, <2>3, <2>4
<1> QED
  BY <1>5, <1>6, <1>7, <1>8

LEMMA DropDeletion ==
    ASSUME TeamCore, DeletionInv, NEW t \in Tasks, TeamMoves(t), ~ intruded', DropTm(t)
    PROVE  DeletionInv'
<1>1. Ceases(t) /\ call[t].op # "none" /\ UNCHANGED <<team, team_members, cards, comments>> /\ Board' = Board
  BY LeavesEnds DEF DropTm, Drop, Running, TeamCore, tmTables, Board
<1>2. Deleted(t)'
  BY <1>1 DEF Ceases, Deleted
<1>3. Bare'
  BY <1>1 DEF DeletionInv, Bare, Ceases, Only
<1> QED
  BY <1>1, <1>2, <1>3, AloneStays, DeletedByOne DEF DeletionInv

-----------------------------------------------------------------------------
(* Whatever call begins. *)

\* What a screen offers.
Offered(op, at, arg) ==
    \/ op = "create_team" /\ at = "team" /\ arg.user = Leader /\ arg.name \in TeamNames
       /\ team = NoTeam /\ \A o \in Tasks : call[o].op # "create_team"
    \/ op = "rename_team" /\ at = "find" /\ arg.name \in TeamNames
    \/ op = "delete_team" /\ at = "find"
    \/ op \in {"add_to_team", "remove_from_team"} /\ at = "find" /\ arg.user \in Users
    \/ op = "add_card" /\ at = "find" /\ arg.card \in Cards \ Board /\ arg.column \in Columns
    \/ op \in {"edit_card", "move_card"} /\ at = "find" /\ arg.card \in Board /\ arg.column \in Columns
    \/ op = "delete_card" /\ at = "find" /\ arg.card \in Board
    \/ op \in {"comment", "attach", "detach"} /\ at = "row" /\ arg.card \in Board

LEMMA CallsAreOffered ==
    ASSUME NEW t \in Tasks, TeamCalls(t) \/ CardCalls(t)
    PROVE  \E op, at, arg : BeginTm(t, op, at, arg) /\ Offered(op, at, arg)
<1>1. CASE TeamCalls(t)
  <2>1. ASSUME team = NoTeam, \A o \in Tasks : call[o].op # "create_team", NEW n \in TeamNames,
               BeginTm(t, "create_team", "team", [user |-> Leader, name |-> n])
        PROVE  \E op, at, arg : BeginTm(t, op, at, arg) /\ Offered(op, at, arg)
    <3>1. Offered("create_team", "team", [user |-> Leader, name |-> n])
      BY <2>1 DEF Offered
    <3> QED
      BY <2>1, <3>1
  <2>2. ASSUME NEW n \in TeamNames, BeginTm(t, "rename_team", "find", [name |-> n])
        PROVE  \E op, at, arg : BeginTm(t, op, at, arg) /\ Offered(op, at, arg)
    <3>1. Offered("rename_team", "find", [name |-> n])
      BY DEF Offered
    <3> QED
      BY <2>2, <3>1
  <2>3. ASSUME BeginTm(t, "delete_team", "find", <<>>)
        PROVE  \E op, at, arg : BeginTm(t, op, at, arg) /\ Offered(op, at, arg)
    <3>1. Offered("delete_team", "find", <<>>)
      BY DEF Offered
    <3> QED
      BY <2>3, <3>1
  <2>4. ASSUME NEW u \in Users, NEW op \in {"add_to_team", "remove_from_team"}, BeginTm(t, op, "find", [user |-> u])
        PROVE  \E o, at, arg : BeginTm(t, o, at, arg) /\ Offered(o, at, arg)
    <3>1. Offered(op, "find", [user |-> u])
      BY DEF Offered
    <3> QED
      BY <2>4, <3>1
  <2> QED
    BY <1>1, <2>1, <2>2, <2>3, <2>4 DEF TeamCalls
<1>2. CASE CardCalls(t)
  <2>1. ASSUME NEW c \in NewCards, NEW k \in Columns, BeginTm(t, "add_card", "find", [card |-> c, column |-> k])
        PROVE  \E op, at, arg : BeginTm(t, op, at, arg) /\ Offered(op, at, arg)
    <3> DEFINE free == {d \in Cards : ~cards[d].is /\ d \notin files
                            /\ \A o \in Tasks : call[o].op = "add_card" => Arg(o).card # d}
    <3>1. free # {} /\ c = CHOOSE d \in free : TRUE
      BY DEF NewCards
    <3>2. c \in free
      BY <3>1
    <3>3. c \in Cards \ Board
      BY <3>2, Zenon DEF Board
    <3>4. Offered("add_card", "find", [card |-> c, column |-> k])
      BY <3>3 DEF Offered
    <3> QED
      BY <2>1, <3>4
  <2>2. ASSUME NEW c \in Board, NEW k \in Columns, NEW op \in {"edit_card", "move_card"},
               BeginTm(t, op, "find", [card |-> c, column |-> k])
        PROVE  \E o, at, arg : BeginTm(t, o, at, arg) /\ Offered(o, at, arg)
    <3>1. Offered(op, "find", [card |-> c, column |-> k])
      BY DEF Offered
    <3> QED
      BY <2>2, <3>1
  <2>3. ASSUME NEW c \in Board, BeginTm(t, "delete_card", "find", [card |-> c])
        PROVE  \E op, at, arg : BeginTm(t, op, at, arg) /\ Offered(op, at, arg)
    <3>1. Offered("delete_card", "find", [card |-> c])
      BY DEF Offered
    <3> QED
      BY <2>3, <3>1
  <2>4. ASSUME NEW c \in Board, NEW op \in {"comment", "attach", "detach"}, BeginTm(t, op, "row", [card |-> c])
        PROVE  \E o, at, arg : BeginTm(t, o, at, arg) /\ Offered(o, at, arg)
    <3>1. Offered(op, "row", [card |-> c])
      BY DEF Offered
    <3> QED
      BY <2>4, <3>1
  <2> QED
    BY <1>2, <2>1, <2>2, <2>3, <2>4 DEF CardCalls
<1> QED
  BY <1>1, <1>2

LEMMA BeginAll ==
    ASSUME TeamInv, NEW t \in Tasks, NEW op, NEW at, NEW arg, BeginTm(t, op, at, arg), Offered(op, at, arg)
    PROVE  TeamInv'
<1>1. /\ call[t].op = "none" /\ Shaped' /\ Only(t) /\ UNCHANGED <<team, team_members, lists, cards, comments>>
      /\ call'[t] = [op |-> op, at |-> at, arg |-> arg, got |-> <<>>]
  BY DEF BeginTm, Begin, BeginWith, Running, tmTables, TeamInv, Shaped, Only
<1>2. op # "none" /\ Board' = Board /\ \A v \in Tasks \ {t} : call'[v] = call[v]
  BY <1>1 DEF Offered, Board, Only
<1>3. TeamTables' /\ \A v \in Tasks : TeamAsks(v)'
  <2>1. TeamTables'
    BY <1>1 DEF TeamInv, TeamTables
  <2>2. TeamAsks(t)'
    BY <1>1 DEF TeamAsks, Offered, Board, Arg, Got, TmAdds, CardOps
  <2>3. \A v \in Tasks \ {t} : TeamAsks(v)'
    BY <1>2 DEF TeamInv, TeamAsks, Arg, Got
  <2> QED
    BY <2>1, <2>2, <2>3
<1>4. TeamRowsInv'
  BY TeamBegins DEF TeamInv, TeamCore, Offered, CardOps
<1> SUFFICES ASSUME ~ intruded' PROVE PlacesInv' /\ DeletionInv'
  BY <1>1, <1>3, <1>4 DEF TeamInv
<1>5. /\ ~ intruded /\ PlacesInv /\ DeletionInv
      /\ \A v \in Tasks \ {t} : /\ call[v].op # "delete_team"
                                /\ op = "delete_team" => call[v].op = "none"
  <2>1. ~ intruded /\ (op = "delete_team" => {call[o] : o \in Others(t)} = {})
        /\ \A c \in {call[o] : o \in Others(t)} : c.op # "delete_team"
    BY DEF BeginTm
  <2>2. \A v \in Tasks \ {t} : call[v].op = "none" \/ v \in Others(t)
    BY DEF Others, Running
  <2> QED
    BY <2>1, <2>2 DEF TeamInv
<1>6. PlacesInv'
  <2>1. loose \subseteq loose' /\ (op \in {"add_card", "edit_card"} =>
            \A v \in Tasks \ {t} : call[v].op \in {"add_card", "edit_card"} => Columns \subseteq loose')
    <3>1. loose' = loose \cup (IF op \in {"add_card", "edit_card"}
                                  /\ \E c \in {call[o] : o \in Others(t)} : c.op \in {"add_card", "edit_card"}
                               THEN Columns ELSE {})
      BY DEF BeginTm
    <3>2. ASSUME op \in {"add_card", "edit_card"}, NEW v \in Tasks \ {t}, call[v].op \in {"add_card", "edit_card"}
          PROVE  Columns \subseteq loose'
      <4>1. v \in Others(t)
        BY <3>2 DEF Others, Running
      <4> QED
        BY <3>1, <3>2, <4>1
    <3> QED
      BY <3>1, <3>2
  <2>2. \A k \in Columns : Grows(k)
    BY <1>1 DEF Grows, InColumn, Board
  <2>3. PlacesBelow'
    BY <1>5, <2>1, <2>2, GrownBelow DEF PlacesInv, TeamInv
  <2>4. AddsAlone'
    <3>1. ASSUME NEW v \in Tasks, NEW w \in Tasks, v # w, {call'[v].op, call'[w].op} \subseteq {"add_card", "edit_card"}
          PROVE  Columns \subseteq loose'
      <4>1. CASE v # t /\ w # t
        BY <1>2, <1>5, <2>1, <3>1, <4>1 DEF PlacesInv, AddsAlone
      <4>2. CASE v = t \/ w = t
        BY <1>1, <1>2, <2>1, <3>1, <4>2
      <4> QED
        BY <4>1, <4>2
    <3> QED
      BY <3>1 DEF AddsAlone
  <2>5. PlaceKnown(t)'
    <3>1. op = "add_card" => arg.card \notin Board /\ at = "find"
      BY DEF Offered
    <3> QED
      BY <1>1, <1>2, <3>1 DEF PlaceKnown, Arg
  <2>6. ASSUME NEW v \in Tasks \ {t} PROVE PlaceKnown(v)'
    <3>1. \A k : PlaceIn(k)' = PlaceIn(k)
      BY <1>1, <1>2 DEF PlaceIn, InColumn
    <3>2. Arg(v)' = Arg(v) /\ Got(v)' = Got(v) /\ call'[v] = call[v]
      BY <1>2 DEF Arg, Got
    <3> SUFFICES ASSUME NEW c, NEW k, c = Arg(v).card, k = Arg(v).column, call[v].op = "add_card"
                 PROVE  /\ c \in Board => cards[c].column \in loose'
                        /\ call[v].at = "row" /\ k \notin loose' => Got(v) = PlaceIn(k)
      BY <1>1, <1>2, <3>1, <3>2 DEF PlaceKnown
    <3> QED
      BY <1>5, <2>1 DEF PlacesInv, PlaceKnown
  <2> QED
    BY <2>3, <2>4, <2>5, <2>6 DEF PlacesInv
<1>7. DeletionInv'
  <2>1. DeletesAlone'
    <3>1. ASSUME NEW v \in Tasks, NEW w \in Tasks, v # w, call'[v].op = "delete_team" PROVE call'[w].op = "none"
      <4>1. v = t
        BY <1>2, <1>5, <3>1
      <4> QED
        BY <1>1, <1>2, <1>5, <3>1, <4>1
    <3> QED
      BY <3>1 DEF DeletesAlone
  <2>2. Bare'
    <3>1. team = NoTeam => at = "find" \/ (op = "create_team" /\ at = "team")
      BY <1>5 DEF DeletionInv, Bare, Offered
    <3> QED
      BY <1>1, <1>2, <1>5, <3>1 DEF DeletionInv, Bare
  <2>3. \A v \in Tasks : Deleted(v)'
    <3>1. op = "delete_team" => at = "find"
      BY DEF Offered
    <3>2. Deleted(t)'
      BY <1>1, <3>1 DEF Deleted
    <3>3. \A v \in Tasks \ {t} : Deleted(v)'
      BY <1>2, <1>5 DEF Deleted
    <3> QED
      BY <3>2, <3>3
  <2> QED
    BY <1>1, <1>2, <1>5, <2>1, <2>2, <2>3 DEF DeletionInv
<1> QED
  BY <1>6, <1>7

-----------------------------------------------------------------------------
LEMMA TeamInitially == TeamsInit /\ TasksInit(Budgets) => TeamInv
<1> SUFFICES ASSUME TeamsInit, TasksInit(Budgets) PROVE TeamInv
  OBVIOUS
<1>1. call = [t \in Tasks |-> NoCall] /\ Shaped /\ \A t \in Tasks : call[t].op = "none"
  BY DEF TasksInit, Shaped, NoCall
<1>2. PICK n \in TeamNames \cup {NoTeam} :
        /\ team = n /\ team_members = IF n = NoTeam THEN {} ELSE {Leader}
        /\ lists = [u \in Users |-> IF n # NoTeam /\ u = Leader THEN n ELSE NoTeam]
  BY DEF TeamsInit
<1>3. cards = [c \in Cards |-> NoCard] /\ comments = {} /\ tmMessy = {} /\ Board = {}
  <2>1. \A c \in Cards : ([d \in Cards |-> NoCard])[c] = NoCard
    OBVIOUS
  <2> QED
    BY <2>1, NoCardFields DEF TeamsInit, Board
<1>4. TeamTables
  BY <1>2, <1>3, NoCardFields, TeamsAssumption DEF TeamTables
<1>5. \A t \in Tasks : TeamAsks(t) /\ TmWrites(call[t]) = {}
  BY <1>1, TmWritesAre DEF TeamAsks, CardOps, TmAdds
<1>6. TeamRowsInv
  <2>1. UsersSettled /\ NoneOfNoTeam
    BY <1>2 DEF UsersSettled, TeamSettled, NoneOfNoTeam
  <2>2. OneTeamWriter /\ \A t \in Tasks : TeamKnows(t) /\ CreatesAnew(t)
    BY <1>1, <1>5 DEF OneTeamWriter, TeamKnows, CreatesAnew
  <2> QED
    BY <2>1, <2>2 DEF TeamRowsInv
<1>7. PlacesInv
  BY <1>1, <1>3 DEF PlacesInv, PlacesBelow, AddsAlone, PlaceKnown, InColumn
<1>8. DeletionInv
  BY <1>1, <1>2, <1>3 DEF DeletionInv, DeletesAlone, Bare, Deleted
<1> QED
  BY <1>1, <1>4, <1>5, <1>6, <1>7, <1>8 DEF TeamInv

LEMMA TeamSteps ==
    ASSUME TeamInv, NEW t \in Tasks, TeamsStep(t)
    PROVE  TeamInv'
<1>1. TeamCore
  BY DEF TeamInv, TeamCore
<1>2. CASE TeamCalls(t) \/ CardCalls(t)
  BY <1>2, CallsAreOffered, BeginAll
<1> DEFINE Member == \/ InsertTeam(t) \/ InsertTeamMember(t) \/ InsertList(t) \/ DeleteList(t)
                     \/ DeleteTeamMember(t) \/ RenameTeam(t)
           Relisting == ListPeople(t) \/ WriteLists(t)
           Removal == DeleteComments(t) \/ DeleteBoard(t) \/ ClearMembers(t)
           Card == \/ CountColumn(t) \/ GetCard(t) \/ WriteCard(t) \/ DeleteCardComments(t) \/ DeleteCard(t)
                   \/ WriteOnCard(t)
           Known == \/ Member \/ Relisting \/ Removal \/ Card \/ ListCards(t) \/ FindTeam(t) \/ DeleteTeam(t)
                    \/ DropTm(t)
<1>3. Known => TeamRowsInv' /\ TeamMoves(t)
  BY <1>1, FindTeamRows, CardSteps, DropTmRows, InsertTeamRows, MemberRows, RenameTeamRows, ListPeopleRows,
     WriteListsRows, DeletionRows, ClearMembersRows, DeleteTeamRows
<1>4. Known => TeamTables' /\ \A v \in Tasks : TeamAsks(v)'
  <2>1. Known => TeamTables'
    BY <1>1, MemberTables, CardTables
  <2>2. Known => ReadRight(t)'
    BY <1>1, ReadsRight
  <2> QED
    BY <1>1, <1>3, <2>1, <2>2, AsksOn DEF TeamCore
<1>5. Known /\ ~ intruded' => PlacesInv /\ DeletionInv
  <2>1. Known /\ ~ intruded' => ~ intruded
    BY DEF InsertTeam, InsertTeamMember, InsertList, DeleteList, DeleteTeamMember, RenameTeam, ListPeople, WriteLists,
           ListCards, DeleteComments, DeleteBoard, ClearMembers, CountColumn, GetCard, WriteCard,
           DeleteCardComments, DeleteCard, WriteOnCard, FindTeam, DeleteTeam, DropTm, tmVars, tmHistory
  <2> QED
    BY <2>1 DEF TeamInv
<1>6. Known /\ ~ intruded' => PlacesInv'
  BY <1>1, <1>3, <1>5, WriteCardPlaces, DeleteCardPlaces, DeleteBoardPlaces, DeleteTeamPlaces, OtherPlaces
     DEF DeletionInv
<1>7. Known /\ ~ intruded' => DeletionInv'
  BY <1>1, <1>3, <1>5, MembersDeletion, ListsDeletion, DeletingSteps, DeleteTeamDeletion, FindDeletion,
     CardsDeletion, DropDeletion
<1>8. CASE Known
  BY <1>3, <1>4, <1>6, <1>7, <1>8 DEF TeamInv, TeamMoves
<1> QED
  BY <1>2, <1>8 DEF TeamsStep

LEMMA TeamShows == TeamInv => BoardHolds
<1> SUFFICES ASSUME TeamInv PROVE BoardHolds
  OBVIOUS
<1>1. TeamListsAgree
  BY DEF TeamListsAgree, TeamInv, TeamRowsInv, UsersSettled, TeamSettled
<1>2. NothingLeft
  BY DEF NothingLeft, TeamInv, DeletionInv, Bare
<1>3. PlacesApart
  BY DEF PlacesApart, TeamInv, PlacesInv, PlacesBelow
<1> QED
  BY <1>1, <1>2, <1>3 DEF BoardHolds

\* A team is in the lists of its members alone and under its name, nothing but
\* attachments is left of one that was deleted, and the cards that were added
\* to a column have places of their own, whatever calls run and end at once.
THEOREM BoardHoldsAlways == TeamSpec => []BoardHolds
<1>1. TeamInv /\ [TeamNext]_<<tasking, tmVars>> => TeamInv'
  <2> SUFFICES ASSUME TeamInv, [TeamNext]_<<tasking, tmVars>> PROVE TeamInv'
    OBVIOUS
  <2>1. CASE TeamNext
    BY <2>1, TeamSteps DEF TeamNext
  <2>2. CASE UNCHANGED <<tasking, tmVars>>
    <3> USE <2>2 DEF tasking, tmVars, tmTables, tmHistory
    <3>1. Shaped' /\ TeamTables' /\ \A t \in Tasks : TeamAsks(t)'
      BY DEF TeamInv, Shaped, TeamTables, TeamAsks, Arg, Got
    <3>2. TeamRowsInv'
      BY DEF TeamInv, TeamRowsInv, UsersSettled, TeamSettled, NoneOfNoTeam, OneTeamWriter, TeamKnows, Brought,
             CreatesAnew, Arg, Got
    <3>3. Board' = Board /\ (\A k : InColumn(k)' = InColumn(k)) /\ \A k : PlaceIn(k)' = PlaceIn(k)
      BY DEF PlaceIn, InColumn, Board
    <3>4. PlacesBelow' = PlacesBelow
      BY <3>3 DEF PlacesBelow
    <3>5. ASSUME NEW t \in Tasks, PlaceKnown(t) PROVE PlaceKnown(t)'
      BY <3>3, <3>5 DEF PlaceKnown, Arg, Got
    <3>6. PlacesInv => PlacesInv'
      BY <3>4, <3>5 DEF PlacesInv, AddsAlone
    <3>7. DeletionInv => DeletionInv'
      BY <3>3 DEF DeletionInv, DeletesAlone, Bare, Deleted, Got
    <3> QED
      BY <3>1, <3>2, <3>6, <3>7 DEF TeamInv
  <2> QED
    BY <2>1, <2>2
<1> QED
  BY TeamInitially, <1>1, TeamShows, PTL DEF TeamSpec
=============================================================================
