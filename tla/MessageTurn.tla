----------------------------- MODULE MessageTurn -----------------------------
(***************************************************************************)
(* The messages of one contact to one assistant.  The channel delivers a   *)
(* message to the webhook, perhaps more than once; a delivery that passes  *)
(* the dedup runs process_incoming_message: find or create the             *)
(* conversation, store the message, call the LLM, send the reply in parts, *)
(* store the reply.  Meanwhile an operator of the workspace may pause the  *)
(* AI, delete a conversation, or write to the contact.  Turns share        *)
(* nothing but the tables, and every database or network call is a step.   *)
(*                                                                         *)
(* The quota, the LLM call and the charges are modules of their own: here  *)
(* they only succeed or end the turn.                                      *)
(***************************************************************************)
EXTENDS Naturals, Sequences, FiniteSets, FiniteSetsExt

CONSTANTS
    Deliveries,       \* the webhook deliveries
    MessageOf,        \* the message each of them carries
    ConvIds,          \* bound: ids for conversations; random in the code
    Parts,            \* parts of a split reply (config_split_messages)
    HistoryLimit,     \* messages read back for the LLM call
    Operator,         \* a member of the workspace at the dashboard
    OperatorActs,     \* bound: what the operator may do
    MaxLog,           \* bound: the operator writes to shorter conversations only
    DedupMayFail,     \* may the database refuse the dedup statement?
    RefusedReadable   \* does the driver decode the reply of a refused LWT?

Messages == {MessageOf[t] : t \in Deliveries}

ASSUME TurnAssumption ==
    /\ MessageOf \in [Deliveries -> Messages]
    /\ ConvIds \subseteq Nat \ {0} /\ Parts \in Nat \ {0} /\ HistoryLimit \in Nat \ {0}
    /\ Operator \notin Deliveries /\ MaxLog \in Nat
    /\ OperatorActs \subseteq {"pause", "resume", "delete", "write"}
    /\ {DedupMayFail, RefusedReadable} \subseteq BOOLEAN

VARIABLES
    marked,     \* messages in processed_webhooks
    rows,       \* the conversations table
    log,        \* the messages table, by conversation, in order of their ids
    pc,         \* where each delivery and the operator are
    conv,       \* the conversation each of them works on
    ai,         \* ai_enabled, as a turn read it
    canned,     \* will the turn answer without the LLM?
    grounded,   \* was the turn's message in the history it gave the LLM?
    parts,      \* parts of its reply a turn has sent
    paused,     \* history: turns whose contact has been paused throughout
    deletion    \* history: how far the deletion of each conversation came

tables == <<marked, rows, log>>
turns  == <<pc, conv, ai, canned, grounded, parts>>
vars   == <<tables, turns, paused, deletion>>

Actors == Deliveries \cup {Operator}
NoConv == 0
NoRow  == [exists |-> FALSE, contact |-> FALSE, ai |-> TRUE]

Init ==
    /\ marked = {}
    /\ rows = [c \in ConvIds |-> NoRow]
    /\ log = [c \in ConvIds |-> <<>>]
    /\ pc = [a \in Actors |-> IF a = Operator THEN "idle" ELSE "sent"]
    /\ conv = [a \in Actors |-> NoConv]
    /\ ai = [t \in Deliveries |-> TRUE]
    /\ canned = [t \in Deliveries |-> FALSE]
    /\ grounded = [t \in Deliveries |-> FALSE]
    /\ parts = [t \in Deliveries |-> 0]
    /\ paused = {}
    /\ deletion = [c \in ConvIds |-> "none"]

MoveTo(a, where) == pc' = [pc EXCEPT ![a] = where]

\* The conversations get_or_create_conversation can find, by contact_number.
Found == {c \in ConvIds : rows[c].exists /\ rows[c].contact}

\* Every conversation of the contact is paused, and none is being created.
ContactPaused ==
    /\ Found # {}
    /\ \A c \in Found : ~ rows[c].ai
    /\ \A t \in Deliveries : pc[t] # "create"

Store(c, role, by) == log' = [log EXCEPT ![c] = Append(@, [role |-> role, by |-> by])]

-----------------------------------------------------------------------------
(* The webhook handlers, and the turns they run. *)

\* Mutant of Taken: any mark refuses, whoever was marked.
TakenCoarsely(t) == marked # {} /\ RefusedReadable

\* The event id of the dedup is the channel's message id.
Taken(t) == MessageOf[t] \in marked /\ RefusedReadable

\* check_and_mark runs before the turn; when it fails the turn runs anyway.
Receive(t) ==
    /\ pc[t] = "sent"
    /\ paused' = IF ContactPaused THEN paused \cup {t} ELSE paused
    /\ \/ Taken(t) /\ MoveTo(t, "refused") /\ UNCHANGED marked
       \/ ~ Taken(t) /\ MoveTo(t, "lookup") /\ marked' = marked \cup {MessageOf[t]}
       \/ DedupMayFail /\ MoveTo(t, "lookup") /\ UNCHANGED marked
    /\ UNCHANGED <<rows, log, conv, ai, canned, grounded, parts, deletion>>

\* Over the daily quota, or too long: one reply, and no row of any table.
Dismiss(t) ==
    /\ pc[t] = "lookup"
    /\ canned' = [canned EXCEPT ![t] = TRUE]
    /\ parts' = [parts EXCEPT ![t] = Parts]
    /\ MoveTo(t, "done")
    /\ UNCHANGED <<tables, conv, ai, grounded, paused, deletion>>

\* The first row of the partition that has the contact's number: the rows
\* are clustered by id DESC.
Lookup(t) ==
    /\ pc[t] = "lookup"
    /\ IF Found = {}
       THEN MoveTo(t, "create") /\ UNCHANGED <<conv, ai>>
       ELSE /\ \E c \in Found :
                 /\ \A d \in Found : d <= c
                 /\ conv' = [conv EXCEPT ![t] = c]
                 /\ ai' = [ai EXCEPT ![t] = rows[c].ai]
            /\ MoveTo(t, "store")
    /\ UNCHANGED <<tables, canned, grounded, parts, paused, deletion>>

Create(t) ==
    /\ pc[t] = "create"
    /\ \E c \in ConvIds :
        /\ ~ rows[c].exists /\ deletion[c] = "none"
        /\ rows' = [rows EXCEPT ![c] = [exists |-> TRUE, contact |-> TRUE, ai |-> TRUE]]
        /\ conv' = [conv EXCEPT ![t] = c]
    /\ ai' = [ai EXCEPT ![t] = TRUE]
    /\ MoveTo(t, "store")
    /\ UNCHANGED <<marked, log, canned, grounded, parts, paused, deletion>>

\* Media the assistant cannot take are answered before the switch is read.
AfterStore(t) == IF canned'[t] THEN "send" ELSE IF ai[t] THEN "history" ELSE "touch"

StoreMessage(t) ==
    /\ pc[t] = "store"
    /\ Store(conv[t], "user", t)
    /\ \E c \in BOOLEAN : canned' = [canned EXCEPT ![t] = c]
    /\ MoveTo(t, AfterStore(t))
    /\ UNCHANGED <<marked, rows, conv, ai, grounded, parts, paused, deletion>>

\* Mutant of Recent: the newest message is taken for the one being answered
\* and left out.
RecentButOne(c) == {i \in DOMAIN log[c] : i + HistoryLimit > Len(log[c]) /\ i < Len(log[c])}

\* get_recent_messages: ORDER BY id DESC LIMIT HistoryLimit, reversed.
Recent(c) == {i \in DOMAIN log[c] : i + HistoryLimit > Len(log[c])}

ReadHistory(t) ==
    /\ pc[t] = "history"
    /\ grounded' = [grounded EXCEPT ![t] =
            \E i \in Recent(conv[t]) : log[conv[t]][i] = [role |-> "user", by |-> t]]
    /\ MoveTo(t, "call")
    /\ UNCHANGED <<tables, conv, ai, canned, parts, paused, deletion>>

\* An answer, or the friendly reply to a 429; any other error ends the turn.
CallLlm(t) ==
    /\ pc[t] = "call"
    /\ MoveTo(t, "send")
    /\ UNCHANGED <<tables, conv, ai, canned, grounded, parts, paused, deletion>>

\* The parts go out one by one; a canned reply is one message.
SendPart(t) ==
    /\ pc[t] = "send"
    /\ parts' = [parts EXCEPT ![t] = IF canned[t] THEN Parts ELSE @ + 1]
    /\ MoveTo(t, IF parts'[t] = Parts THEN "reply" ELSE "send")
    /\ UNCHANGED <<tables, conv, ai, canned, grounded, paused, deletion>>

\* Mutant of StoreReply: looks the conversation up again.
StoreReplyAnew(t) ==
    /\ pc[t] = "reply"
    /\ Store(IF Found = {} THEN conv[t] ELSE Max(Found), "assistant", t)
    /\ MoveTo(t, IF canned[t] THEN "done" ELSE "touch")
    /\ UNCHANGED <<marked, rows, conv, ai, canned, grounded, parts, paused, deletion>>

StoreReply(t) ==
    /\ pc[t] = "reply"
    /\ Store(conv[t], "assistant", t)
    /\ MoveTo(t, IF canned[t] THEN "done" ELSE "touch")
    /\ UNCHANGED <<marked, rows, conv, ai, canned, grounded, parts, paused, deletion>>

\* UPDATE conversations SET last_message_at is an upsert: of a deleted
\* conversation it makes a row without a contact.
Touched(c) == [rows EXCEPT ![c].exists = TRUE]

Touch(t) ==
    /\ pc[t] = "touch"
    /\ rows' = Touched(conv[t])
    /\ MoveTo(t, "done")
    /\ UNCHANGED <<marked, log, conv, ai, canned, grounded, parts, paused, deletion>>

\* Any call of the turn may fail: the handler logs it and answers 200.
Working == {"lookup", "create", "store", "history", "call", "send", "reply", "touch"}
Fails(t) ==
    /\ pc[t] \in Working
    /\ MoveTo(t, "failed")
    /\ UNCHANGED <<tables, conv, ai, canned, grounded, parts, paused, deletion>>

-----------------------------------------------------------------------------
(* The operator.  get_conversation comes first, so the row exists then. *)

OperatorBegins(act) ==
    /\ pc[Operator] = "idle" /\ act \in OperatorActs
    /\ \E c \in ConvIds : rows[c].exists /\ conv' = [conv EXCEPT ![Operator] = c]
    /\ MoveTo(Operator, act)
    /\ UNCHANGED <<tables, ai, canned, grounded, parts, paused, deletion>>

\* toggle_ai_enabled; an upsert too.
Toggle(act, value) ==
    /\ pc[Operator] = act
    /\ rows' = [Touched(conv[Operator]) EXCEPT ![conv[Operator]].ai = value]
    /\ paused' = IF value THEN {} ELSE paused
    /\ MoveTo(Operator, "idle")
    /\ UNCHANGED <<marked, log, conv, ai, canned, grounded, parts, deletion>>

\* delete_conversation: the messages first, then the conversation.
DeleteMessages ==
    /\ pc[Operator] = "delete"
    /\ log' = [log EXCEPT ![conv[Operator]] = <<>>]
    /\ deletion' = [deletion EXCEPT ![conv[Operator]] = "messages"]
    /\ MoveTo(Operator, "drop")
    /\ UNCHANGED <<marked, rows, conv, ai, canned, grounded, parts, paused>>

DeleteRow ==
    /\ pc[Operator] = "drop"
    /\ rows' = [rows EXCEPT ![conv[Operator]] = NoRow]
    /\ deletion' = [deletion EXCEPT ![conv[Operator]] = "done"]
    /\ paused' = {}
    /\ MoveTo(Operator, "idle")
    /\ UNCHANGED <<marked, log, conv, ai, canned, grounded, parts>>

\* send_direct_message stores first and sends afterwards.
Write ==
    /\ pc[Operator] = "write" /\ Len(log[conv[Operator]]) < MaxLog
    /\ Store(conv[Operator], "assistant", Operator)
    /\ MoveTo(Operator, "touch")
    /\ UNCHANGED <<marked, rows, conv, ai, canned, grounded, parts, paused, deletion>>

WriteTouch ==
    /\ pc[Operator] = "touch"
    /\ rows' = Touched(conv[Operator])
    /\ MoveTo(Operator, "idle")
    /\ UNCHANGED <<marked, log, conv, ai, canned, grounded, parts, paused, deletion>>

OperatorFails ==
    /\ pc[Operator] # "idle"
    /\ MoveTo(Operator, "idle")
    /\ UNCHANGED <<tables, conv, ai, canned, grounded, parts, paused, deletion>>

-----------------------------------------------------------------------------

Turn(t) ==
    \/ Receive(t) \/ Dismiss(t) \/ Lookup(t) \/ Create(t) \/ StoreMessage(t)
    \/ ReadHistory(t) \/ CallLlm(t) \/ SendPart(t) \/ StoreReply(t) \/ Touch(t)
    \/ Fails(t)

Operate ==
    \/ \E act \in OperatorActs : OperatorBegins(act)
    \/ Toggle("pause", FALSE) \/ Toggle("resume", TRUE)
    \/ DeleteMessages \/ DeleteRow
    \/ Write \/ WriteTouch
    \/ OperatorFails

Next == (\E t \in Deliveries : Turn(t)) \/ Operate

Spec == Init /\ [][Next]_vars

-----------------------------------------------------------------------------
(* Properties. *)

\* The shape of the tables: what is stored was written by an actor.
TypeOK ==
    /\ marked \subseteq Messages
    /\ rows \in [ConvIds -> [exists : BOOLEAN, contact : BOOLEAN, ai : BOOLEAN]]
    /\ \A c \in ConvIds : \A i \in DOMAIN log[c] :
        log[c][i] \in [role : {"user", "assistant"}, by : Actors]
    /\ conv \in [Actors -> ConvIds \cup {NoConv}]
    /\ parts \in [Deliveries -> 0 .. Parts]
    /\ \A t \in Deliveries : pc[t] \in Working \cup {"sent", "refused", "failed", "done"}
    /\ pc[Operator] \in OperatorActs \cup {"idle", "drop", "touch"}

\* However often and however close together a message is delivered, the
\* contact gets at most one reply to it: check_and_mark is a lightweight
\* transaction that runs before the turn (provided its refusals are read).
Started(t) == pc[t] \notin {"sent", "refused"}
AnsweredOnce ==
    \A s, t \in Deliveries :
        s # t /\ MessageOf[s] = MessageOf[t] => parts[s] = 0 \/ parts[t] = 0

\* And no message is refused for another's sake: a turn has taken it on.
RefusedWasTaken ==
    \A t \in Deliveries : pc[t] = "refused" =>
        \E s \in Deliveries : MessageOf[s] = MessageOf[t] /\ Started(s)

\* The reply of a turn is stored after the message it answers and in the
\* same conversation, whatever other turns create meanwhile, until the
\* messages of the conversation are deleted.
Answers(c, i) == log[c][i].role = "assistant" /\ log[c][i].by # Operator
AnswerFollowsQuestion ==
    \A c \in ConvIds : deletion[c] = "none" =>
        \A i \in DOMAIN log[c] : Answers(c, i) =>
            \E j \in 1 .. i - 1 : log[c][j] = [role |-> "user", by |-> log[c][i].by]

\* A stored reply has reached the contact in all its parts: the turn sends
\* before it saves.
StoredWasSent ==
    \A c \in ConvIds : \A i \in DOMAIN log[c] : Answers(c, i) => parts[log[c][i].by] = Parts

\* The LLM is asked with the message that started the turn in its history,
\* unless at least HistoryLimit messages of other turns and of the operator
\* slip in after it (save_message, then get_recent_messages).
CrowdedOut(t) ==
    \E i \in DOMAIN log[conv[t]] :
        /\ log[conv[t]][i] = [role |-> "user", by |-> t]
        /\ i + HistoryLimit <= Len(log[conv[t]])
AskedAboutItsMessage ==
    \A t \in Deliveries :
        pc[t] \in {"call", "send", "reply"} /\ ~ canned[t] /\ deletion[conv[t]] = "none"
            => grounded[t] \/ CrowdedOut(t)

\* A contact whose conversations are all paused when a message is delivered,
\* and stay so, gets no reply of the LLM to it, whatever conversation
\* get_or_create_conversation finds (the ai_enabled test; replies about quota,
\* length and media do not look at the switch).
PausedMeansSilent == \A t \in paused : ~ canned[t] => parts[t] = 0

\* One turn for one message, redelivered or not (check_and_mark).
OneTurnEach == AnsweredOnce /\ RefusedWasTaken

\* A turn asks about its own message, and is silent for a paused contact.
TurnHeeds == AskedAboutItsMessage /\ PausedMeansSilent

\* The log is what was said, in an order that makes sense.
LogIsTrue == TypeOK /\ AnswerFollowsQuestion /\ StoredWasSent
=============================================================================
