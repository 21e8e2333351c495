-------------------------- MODULE CallRecovery_proofs --------------------------
(***************************************************************************)
(* Proofs about CallRecovery, for any number of turns, conversations and   *)
(* assistants, any thresholds, any number of crashes, a drain task as late *)
(* as it may be, and with or without failing calls.                        *)
(*                                                                         *)
(* A row is keyed by assistant and start time.  Two calls of one assistant *)
(* that start at the same time share a row, and then a Started reopens and *)
(* a Finished completes what is not its own: what the log says is true as  *)
(* long as that does not happen (NoCollision).                             *)
(***************************************************************************)
EXTENDS CallRecovery, TLAPS

\* The log knows of a call, or is about to.
Recorded(t) == \E k \in Keys : log[k].status # "none" /\ log[k].turn = t
Queued(t)   == \E i \in DOMAIN queue : queue[i].turn = t
Logged(t)   == Recorded(t) \/ Queued(t)

\* No two calls in the log, or on their way to it, have one row.
NoCollision == \A t, u \in Turns : Logged(t) /\ Logged(u) /\ Key(t) = Key(u) => t = u

\* The poller works on a row that is there.
Working == poll \in {"inspect", "send", "save"} =>
               current \in Keys /\ log[current].status # "none"

\* A row belongs to the call that started it,
Owned == \A k \in Keys : log[k].status # "none" =>
             log[k].turn \in Turns /\ Key(log[k].turn) = k

\* which has begun,
Called == \A t \in Turns : Logged(t) => pc[t] \notin {"idle", "saved"}

\* whose Started comes once,
Once == \A i \in DOMAIN queue : queue[i].kind = "started" =>
            /\ ~ Recorded(queue[i].turn)
            /\ \A j \in DOMAIN queue :
                  queue[j].kind = "started" /\ queue[j].turn = queue[i].turn => j = i

\* and whose Finished comes when the provider has answered.
Answered == \A i \in DOMAIN queue : queue[i].kind = "finished" => queue[i].turn \in succeeded

IInv == TypeOK /\ Working /\ Owned /\ Called /\ Once /\ Answered

USE MapsAssumption, TimesAssumption

-----------------------------------------------------------------------------

\* Nothing is logged at the beginning.
LEMMA InitIInv == Init => IInv
<1> SUFFICES ASSUME Init
             PROVE  IInv
  OBVIOUS
<1>1. TypeOK
  BY DEF Init, TypeOK, Times, Keys, Rows, NoRow, Row, Messages, Places, Events
<1>2. \A k \in Keys : log[k].status = "none"
  BY DEF Init, NoRow, Row
<1>3. queue = <<>> /\ poll = "idle"
  BY DEF Init
<1> QED
  BY <1>1, <1>2, <1>3 DEF IInv, Working, Owned, Called, Once, Answered, Logged, Recorded, Queued

\* Where a turn's row is.
LEMMA KeyType == ASSUME TypeOK, NEW t \in Turns PROVE Key(t) \in Keys
  BY DEF TypeOK, Key, Keys

\* A row that some event or claim has written is of the right kind.
LEMMA AppliedType ==
    ASSUME TypeOK, NEW e \in Events
    PROVE  Applied(e) \in [Keys -> Rows]
<1>1. Key(e.turn) \in Keys /\ log[Key(e.turn)] \in Rows
  BY KeyType DEF Events, TypeOK
<1>2. e.turn \in Turns /\ e.kind \in {"started", "finished", "failed"}
  BY DEF Events
<1> QED
  BY <1>1, <1>2 DEF Applied, TypeOK, Rows, Row

\* What an event does to the row of its turn, and to no other.
LEMMA AppliedRow ==
    ASSUME TypeOK, NEW e \in Events
    PROVE  /\ Applied(e)[Key(e.turn)] = log[Key(e.turn)] \/ Applied(e)[Key(e.turn)].status # "none"
           /\ \A k \in Keys : k # Key(e.turn) => Applied(e)[k] = log[k]
           /\ e.kind = "started" => Applied(e)[Key(e.turn)] = Row("in_progress", e.turn)
           /\ e.kind # "started" /\ log[Key(e.turn)].status # "in_progress"
                 => Applied(e)[Key(e.turn)] = log[Key(e.turn)]
           /\ e.kind = "finished" /\ log[Key(e.turn)].status = "in_progress"
                 => Applied(e)[Key(e.turn)] = Row("completed", log[Key(e.turn)].turn)
           /\ e.kind = "failed" /\ log[Key(e.turn)].status = "in_progress"
                 => Applied(e)[Key(e.turn)] = Row("failed", log[Key(e.turn)].turn)
<1>1. Key(e.turn) \in Keys /\ DOMAIN log = Keys
  BY KeyType DEF Events, TypeOK
<1>2. ASSUME NEW k \in Keys, k # Key(e.turn)
      PROVE  Applied(e)[k] = log[k]
  BY <1>1, <1>2 DEF Applied
<1>3. Applied(e)[Key(e.turn)] = log[Key(e.turn)] \/ Applied(e)[Key(e.turn)].status # "none"
  BY <1>1 DEF Applied, Row
<1>4. CASE e.kind = "started"
  BY <1>1, <1>2, <1>3, <1>4 DEF Applied
<1>5. CASE e.kind # "started" /\ log[Key(e.turn)].status # "in_progress"
  BY <1>1, <1>2, <1>3, <1>5 DEF Applied
<1>6. CASE e.kind = "finished" /\ log[Key(e.turn)].status = "in_progress"
  BY <1>1, <1>2, <1>3, <1>6 DEF Applied
<1>7. CASE e.kind = "failed" /\ log[Key(e.turn)].status = "in_progress"
  BY <1>1, <1>2, <1>3, <1>7 DEF Applied
<1> QED
  BY <1>2, <1>3, <1>4, <1>5, <1>6, <1>7 DEF Events

\* The oldest event, and those behind it.
LEMMA Heads ==
    ASSUME TypeOK, queue # <<>>
    PROVE  /\ Head(queue) \in Events /\ Tail(queue) \in Seq(Events)
           /\ 1 \in DOMAIN queue /\ queue[1] = Head(queue)
           /\ \A i \in DOMAIN Tail(queue) : i + 1 \in DOMAIN queue /\ Tail(queue)[i] = queue[i + 1]
  BY DEF TypeOK

\* An event behind those that wait.
LEMMA Appends ==
    ASSUME TypeOK, NEW e \in Events
    PROVE  /\ Append(queue, e) \in Seq(Events)
           /\ \A i \in DOMAIN Append(queue, e) :
                 \/ i \in DOMAIN queue /\ Append(queue, e)[i] = queue[i]
                 \/ i \notin DOMAIN queue /\ i = Len(queue) + 1 /\ Append(queue, e)[i] = e
  BY DEF TypeOK

\* Every step keeps the kinds, and the row the poller works on.
LEMMA NextTypeOK == TypeOK /\ Working /\ Owned /\ [Next]_vars => TypeOK' /\ Working'
<1> SUFFICES ASSUME TypeOK, Working, Owned, [Next]_vars
             PROVE  TypeOK' /\ Working'
  OBVIOUS
<1> USE DEF turnVars, pollVars
<1>1. ASSUME NEW t \in Turns, Turn(t)
      PROVE  TypeOK' /\ Working'
  <2> Event("started", t) \in Events /\ Event("finished", t) \in Events /\ Event("failed", t) \in Events
    BY DEF Event, Events
  <2>1. CASE SaveUserMessage(t)
    <3>1. Message("user", t) \in Messages /\ ConvOf[t] \in Conversations
      BY DEF Message, Messages, TypeOK, Times
    <3> QED
      BY <2>1, <3>1 DEF SaveUserMessage, Goto, TypeOK, Working, Places, Times
  <2>2. CASE StartCall(t)
    BY <2>2, Appends DEF StartCall, Goto, TypeOK, Working, Places, Times
  <2>3. CASE CallEnds(t)
    <3>1. pc' \in [Turns -> Places]
      BY <2>3 DEF CallEnds, Succeeds, Errs, Goto, TypeOK, Places
    <3>2. queue' \in Seq(Events) /\ succeeded' \subseteq Turns
      BY <2>3, Appends DEF CallEnds, Succeeds, Errs, TypeOK
    <3> QED
      BY <2>3, <3>1, <3>2 DEF CallEnds, TypeOK, Working
  <2>4. CASE SendReply(t)
    BY <2>4 DEF SendReply, Goto, TypeOK, Working, Places
  <2>5. CASE SaveReply(t)
    <3>1. Message("assistant", t) \in Messages /\ ConvOf[t] \in Conversations
      BY DEF Message, Messages, TypeOK, Times
    <3>2. pc' \in [Turns -> Places]
      BY <2>5 DEF SaveReply, Goto, TypeOK, Places
    <3>3. last' \in [Conversations -> Messages]
      BY <2>5, <3>1 DEF SaveReply, TypeOK
    <3> QED
      BY <2>5, <3>2, <3>3 DEF SaveReply, TypeOK, Working
  <2> QED
    BY <1>1, <2>1, <2>2, <2>3, <2>4, <2>5 DEF Turn
<1>2. CASE Drain
  <2>1. Head(queue) \in Events /\ Tail(queue) \in Seq(Events)
    BY <1>2, Heads DEF Drain
  <2>2. log' \in [Keys -> Rows]
    BY <1>2, <2>1, AppliedType DEF Drain, TypeOK
  <2>3. \A k \in Keys : log[k].status # "none" => log'[k].status # "none"
    <3>1. Applied(Head(queue))[Key(Head(queue).turn)].status # "none"
             \/ log[Key(Head(queue).turn)].status = "none"
      BY <2>1, AppliedRow
    <3>2. \A k \in Keys : k # Key(Head(queue).turn) => Applied(Head(queue))[k] = log[k]
      BY <2>1, AppliedRow
    <3> QED
      BY <1>2, <3>1, <3>2 DEF Drain
  <2> QED
    BY <1>2, <2>1, <2>2, <2>3 DEF Drain, TypeOK, Working
<1>3. CASE Scan \/ EndPass
  BY <1>3 DEF Scan, EndPass, Stale, TypeOK, Working
<1>4. ASSUME NEW k \in Keys, Claim(k)
      PROVE  TypeOK' /\ Working'
  <2>1. Closed(k) \in [Keys -> Rows]
    BY DEF Closed, TypeOK, Rows
  <2>2. log' \in [Keys -> Rows] /\ poll' \in {"next", "inspect"} /\ current' \in Keys \cup {<<>>}
    BY <1>4, <2>1 DEF Claim, TypeOK
  <2>3. poll' = "inspect" => current' = k /\ log' = Closed(k)
    BY <1>4 DEF Claim
  <2>4. Working'
    BY <2>1, <2>2, <2>3 DEF Working, Closed, TypeOK, Rows
  <2> QED
    BY <1>4, <2>2, <2>4 DEF Claim, TypeOK
<1>5. ASSUME poll \in {"inspect", "send", "save"}
      PROVE  current \in Keys /\ ConvOfRow(current) \in Conversations
  BY <1>5 DEF Working, Owned, ConvOfRow
<1>6. CASE Inspect
  <2>1. last[ConvOfRow(current)] \in Messages
    BY <1>5, <1>6 DEF Inspect, TypeOK
  <2> QED
    BY <1>6, <2>1 DEF Inspect, TypeOK, Working, Messages
<1>7. CASE SendApology
  BY <1>5, <1>7 DEF SendApology, TypeOK, Working
<1>8. CASE SaveApology
  <2>1. Message("assistant", None) \in Messages
    BY DEF Message, Messages, TypeOK
  <2> QED
    BY <1>5, <1>8, <2>1 DEF SaveApology, TypeOK, Working
<1>9. CASE Tick
  BY <1>9 DEF Tick, TypeOK, Working, Times
<1>10. CASE Crash
  <2>1. pc' \in [Turns -> Places]
    BY <1>10 DEF Crash, TypeOK, Places
  <2> QED
    BY <1>10, <2>1 DEF Crash, TypeOK, Working
<1>11. CASE UNCHANGED vars
  BY <1>11 DEF vars, TypeOK, Working
<1> QED
  BY <1>1, <1>2, <1>3, <1>4, <1>6, <1>7, <1>8, <1>9, <1>10, <1>11 DEF Next, Poller

-----------------------------------------------------------------------------

\* A step of a turn brings at most one event, of that turn, and no row.
LEMMA TurnLogs ==
    ASSUME TypeOK, Owned, NEW t \in Turns, Turn(t)
    PROVE  /\ log' = log
           /\ \A u \in Turns : u # t => pc'[u] = pc[u]
           /\ \A i \in DOMAIN queue' :
                 \/ i \in DOMAIN queue /\ queue'[i] = queue[i]
                 \/ i \notin DOMAIN queue /\ i = Len(queue) + 1 /\ queue'[i].turn = t
<1>1. log' = log
  BY DEF Turn, SaveUserMessage, StartCall, CallEnds, SendReply, SaveReply
<1>2. \A u \in Turns : u # t => pc'[u] = pc[u]
  BY DEF Turn, SaveUserMessage, StartCall, CallEnds, Succeeds, Errs, SendReply, SaveReply, Goto, TypeOK
<1>3. queue' = queue \/ \E k \in {"started", "finished", "failed"} : queue' = Append(queue, Event(k, t))
  BY DEF Turn, SaveUserMessage, StartCall, CallEnds, Succeeds, Errs, SendReply, SaveReply
<1>4. ASSUME NEW k \in {"started", "finished", "failed"}, queue' = Append(queue, Event(k, t))
      PROVE  \A i \in DOMAIN queue' :
                 \/ i \in DOMAIN queue /\ queue'[i] = queue[i]
                 \/ i \notin DOMAIN queue /\ i = Len(queue) + 1 /\ queue'[i].turn = t
  <2>1. Event(k, t) \in Events /\ Event(k, t).turn = t
    BY DEF Event, Events
  <2> QED
    BY <1>4, <2>1, Appends
<1> QED
  BY <1>1, <1>2, <1>3, <1>4

\* The rows keep their turns and the calls that began stay so.
Kept ==
    /\ started' = started /\ succeeded' = succeeded
    /\ queue' = queue \/ queue' = <<>>
    /\ \A t \in Turns : pc'[t] \in {"idle", "saved"} => pc[t] \in {"idle", "saved"}
    /\ \A k \in Keys : log'[k].turn = log[k].turn
                       /\ (log'[k].status = "none" <=> log[k].status = "none")

\* All steps but those of a turn and of the drain task.
LEMMA OthersKeep ==
    ASSUME TypeOK, Poller \/ Tick \/ Crash \/ UNCHANGED vars
    PROVE  Kept
<1>1. ASSUME NEW k \in Keys, Claim(k)
      PROVE  Kept
  <2>1. log' = log \/ (log[k].status = "in_progress" /\ log' = Closed(k))
    BY <1>1 DEF Claim
  <2>2. \A j \in Keys : log'[j].turn = log[j].turn
                        /\ (log'[j].status = "none" <=> log[j].status = "none")
    <3>1. DOMAIN log = Keys /\ log[k] \in Rows
      BY DEF TypeOK
    <3>2. Closed(k)[k].turn = log[k].turn /\ Closed(k)[k].status = "failed"
      BY <3>1 DEF Closed, Rows
    <3>3. \A j \in Keys : j # k => Closed(k)[j] = log[j]
      BY <3>1 DEF Closed
    <3> QED
      BY <2>1, <3>2, <3>3
  <2> QED
    BY <1>1, <2>2 DEF Claim, turnVars, Kept
<1>2. CASE Scan \/ EndPass \/ Inspect \/ SendApology \/ SaveApology \/ Tick
  BY <1>2 DEF Scan, EndPass, Inspect, SendApology, SaveApology, Tick, turnVars, Kept
<1>3. CASE Crash
  BY <1>3 DEF Crash, TypeOK, Kept, Alive
<1>4. CASE UNCHANGED vars
  BY <1>4 DEF vars, turnVars, Kept
<1> QED
  BY <1>1, <1>2, <1>3, <1>4 DEF Poller

\* A step that keeps rows and calls keeps what the log says of them.
LEMMA KeptIInv ==
    ASSUME IInv, TypeOK', Kept
    PROVE  (Owned /\ Called /\ Once /\ Answered)'
<1>1. \A t \in Turns : Key(t)' = Key(t)
  BY DEF Kept, Key
<1>2. \A t : Recorded(t)' <=> Recorded(t)
  BY DEF Kept, Recorded
<1>3. \A t : Queued(t)' => Queued(t)
  BY DEF Kept, Queued
<1>4. Owned'
  BY <1>1 DEF IInv, Owned, Kept
<1>5. Called'
  BY <1>2, <1>3 DEF IInv, Called, Kept, Logged
<1>6. Once'
  BY <1>2 DEF IInv, Once, Kept
<1>7. Answered'
  BY DEF IInv, Answered, Kept
<1> QED
  BY <1>4, <1>5, <1>6, <1>7

\* A turn logs its Started before any row is its own.
LEMMA TurnIInv ==
    ASSUME IInv, NEW t \in Turns, Turn(t)
    PROVE  (Owned /\ Called /\ Once /\ Answered)'
<1>1. TypeOK /\ Owned
  BY DEF IInv
<1>2. /\ log' = log
      /\ \A u \in Turns : u # t => pc'[u] = pc[u]
      /\ \A i \in DOMAIN queue' :
            \/ i \in DOMAIN queue /\ queue'[i] = queue[i]
            \/ i \notin DOMAIN queue /\ i = Len(queue) + 1 /\ queue'[i].turn = t
  BY <1>1, TurnLogs
<1>3. \A u : Recorded(u)' <=> Recorded(u)
  BY <1>2 DEF Recorded
<1>4. pc[t] \in {"idle", "saved"} => ~ Logged(t)
  BY DEF IInv, Called
<1>5. \A u \in Turns : u # t \/ pc[t] # "saved" => Key(u)' = Key(u)
  BY DEF Turn, SaveUserMessage, StartCall, CallEnds, SendReply, SaveReply, Key, IInv, TypeOK
<1>6. Owned'
  BY <1>2, <1>4, <1>5 DEF IInv, Owned, Logged, Recorded
<1>7. Called'
  <2>1. ASSUME NEW u \in Turns, Logged(u)', u # t
        PROVE  pc'[u] \notin {"idle", "saved"}
    BY <1>2, <1>3, <2>1 DEF Logged, Queued, IInv, Called
  <2>2. pc'[t] = "idle" => queue' = queue /\ pc[t] = "idle"
    BY DEF Turn, SaveUserMessage, StartCall, CallEnds, Succeeds, Errs, SendReply, SaveReply, Goto, IInv, TypeOK
  <2>3. pc'[t] = "saved" => queue' = queue /\ pc[t] = "idle"
    BY DEF Turn, SaveUserMessage, StartCall, CallEnds, Succeeds, Errs, SendReply, SaveReply, Goto, IInv, TypeOK
  <2>4. Logged(t)' => pc'[t] \notin {"idle", "saved"}
    BY <1>3, <1>4, <2>2, <2>3 DEF Logged, Queued
  <2> QED
    BY <2>1, <2>4 DEF Called
<1>8. \A i \in DOMAIN queue' : i \notin DOMAIN queue /\ queue'[i].kind = "started" => ~ Logged(t)
  <2>1. CASE StartCall(t)
    BY <1>4, <2>1 DEF StartCall
  <2>2. CASE CallEnds(t)
    <3>1. PICK k \in {"finished", "failed"} : queue' = Append(queue, Event(k, t))
      BY <2>2 DEF CallEnds, Succeeds, Errs
    <3>2. Event(k, t) \in Events /\ Event(k, t).kind = k
      BY DEF Event, Events
    <3> QED
      BY <1>1, <3>1, <3>2, Appends
  <2>3. CASE SaveUserMessage(t) \/ SendReply(t) \/ SaveReply(t)
    BY <2>3 DEF SaveUserMessage, SendReply, SaveReply
  <2> QED
    BY <2>1, <2>2, <2>3 DEF Turn
<1>9. Once'
  BY <1>2, <1>3, <1>8 DEF IInv, Once, Logged, Queued
<1>10. Answered'
  <2>1. CASE CallEnds(t)
    <3>1. PICK k \in {"finished", "failed"} :
              queue' = Append(queue, Event(k, t)) /\ (k = "finished" => t \in succeeded')
      BY <2>1 DEF CallEnds, Succeeds, Errs
    <3>2. Event(k, t) \in Events /\ Event(k, t).kind = k
      BY DEF Event, Events
    <3>3. succeeded \subseteq succeeded'
      BY <2>1 DEF CallEnds, Succeeds, Errs
    <3> QED
      BY <1>1, <1>2, <3>1, <3>2, <3>3, Appends DEF IInv, Answered
  <2>2. CASE StartCall(t)
    <3>1. queue' = Append(queue, Event("started", t)) /\ succeeded' = succeeded
      BY <2>2 DEF StartCall
    <3>2. Event("started", t) \in Events /\ Event("started", t).kind = "started"
      BY DEF Event, Events
    <3> QED
      BY <1>1, <3>1, <3>2, Appends DEF IInv, Answered
  <2>3. CASE SaveUserMessage(t) \/ SendReply(t) \/ SaveReply(t)
    BY <2>3 DEF SaveUserMessage, SendReply, SaveReply, IInv, Answered
  <2> QED
    BY <2>1, <2>2, <2>3 DEF Turn
<1> QED
  BY <1>6, <1>7, <1>9, <1>10

\* A drained event writes the row of its own turn, or leaves the turn it finds.
LEMMA DrainIInv ==
    ASSUME IInv, Drain
    PROVE  (Owned /\ Called /\ Once /\ Answered)'
<1> DEFINE h == Head(queue)
<1>1. TypeOK /\ queue # <<>> /\ queue' = Tail(queue) /\ UNCHANGED <<pc, started, succeeded>>
  BY DEF IInv, Drain, turnVars
<1>2. /\ h \in Events /\ 1 \in DOMAIN queue /\ queue[1] = h
      /\ \A i \in DOMAIN queue' : i + 1 \in DOMAIN queue /\ queue'[i] = queue[i + 1]
      /\ \A i \in DOMAIN queue' : i \in Nat \ {0}
  <2>1. Tail(queue) \in Seq(Events)
    BY <1>1, Heads
  <2> QED
    BY <1>1, <2>1, Heads
<1>3. h.turn \in Turns /\ h.kind \in {"started", "finished", "failed"} /\ Key(h.turn) \in Keys
  BY <1>1, <1>2, KeyType DEF Events
<1>4. \A t \in Turns : Key(t)' = Key(t)
  BY <1>1 DEF Key
<1>5. \A k \in Keys :
          \/ log'[k] = log[k]
          \/ k = Key(h.turn) /\ h.kind = "started" /\ log'[k].turn = h.turn
          \/ log[k].status # "none" /\ log'[k].turn = log[k].turn
  <2>1. CASE log' = log
    BY <2>1
  <2>2. CASE log' = Applied(h)
    <3>1. \A k \in Keys : k # Key(h.turn) => log'[k] = log[k]
      BY <1>1, <1>2, <2>2, AppliedRow
    <3>2. h.kind = "started" => log'[Key(h.turn)] = Row("in_progress", h.turn)
      BY <1>1, <1>2, <2>2, AppliedRow
    <3>3. h.kind # "started" /\ log[Key(h.turn)].status # "in_progress"
              => log'[Key(h.turn)] = log[Key(h.turn)]
      BY <1>1, <1>2, <2>2, AppliedRow
    <3>4. h.kind # "started" /\ log[Key(h.turn)].status = "in_progress"
              => log'[Key(h.turn)].turn = log[Key(h.turn)].turn
      <4>1. h.kind # "started" => h.kind = "finished" \/ h.kind = "failed"
        BY <1>3
      <4>2. Row("completed", log[Key(h.turn)].turn).turn = log[Key(h.turn)].turn
            /\ Row("failed", log[Key(h.turn)].turn).turn = log[Key(h.turn)].turn
        BY DEF Row
      <4> QED
        BY <1>1, <1>2, <2>2, <4>1, <4>2, AppliedRow
    <3>5. Row("in_progress", h.turn).turn = h.turn
      BY DEF Row
    <3> QED
      BY <3>1, <3>2, <3>3, <3>4, <3>5
  <2> QED
    BY <2>1, <2>2 DEF Drain
<1>6. Owned'
  BY <1>3, <1>4, <1>5 DEF IInv, Owned
<1>7. \A t : Recorded(t)' => Recorded(t) \/ (t = h.turn /\ h.kind = "started")
  BY <1>5 DEF Recorded
<1>8. \A t : Queued(t)' => Queued(t)
  BY <1>2 DEF Queued
<1>9. Queued(h.turn)
  BY <1>2 DEF Queued
<1>10. Called'
  BY <1>1, <1>7, <1>8, <1>9 DEF IInv, Called, Logged
<1>11. Once'
  <2> SUFFICES ASSUME NEW i \in DOMAIN queue', queue'[i].kind = "started"
               PROVE  /\ (~ Recorded(queue[i].turn))'
                      /\ \A j \in DOMAIN queue' :
                            queue'[j].kind = "started" /\ queue'[j].turn = queue'[i].turn => j = i
    BY DEF Once
  <2>1. i + 1 \in DOMAIN queue /\ queue'[i] = queue[i + 1] /\ i + 1 # 1
    BY <1>2
  <2>2. ~ Recorded(queue'[i].turn)
    BY <2>1 DEF IInv, Once
  <2>3. ~ (queue'[i].turn = h.turn /\ h.kind = "started")
    BY <1>2, <2>1 DEF IInv, Once
  <2>4. ASSUME NEW j \in DOMAIN queue', queue'[j].kind = "started", queue'[j].turn = queue'[i].turn
        PROVE  j = i
    <3>1. j + 1 \in DOMAIN queue /\ queue'[j] = queue[j + 1]
      BY <1>2
    <3>2. j + 1 = i + 1
      BY <2>1, <2>4, <3>1 DEF IInv, Once
    <3> QED
      BY <1>2, <3>2
  <2> QED
    BY <1>7, <2>2, <2>3, <2>4 DEF Recorded
<1>12. Answered'
  BY <1>1, <1>2 DEF IInv, Answered
<1> QED
  BY <1>6, <1>10, <1>11, <1>12

\* The invariant is inductive.
LEMMA NextIInv == IInv /\ [Next]_vars => IInv'
<1> SUFFICES ASSUME IInv, [Next]_vars
             PROVE  IInv'
  OBVIOUS
<1>1. TypeOK' /\ Working'
  BY NextTypeOK DEF IInv
<1>2. ASSUME NEW t \in Turns, Turn(t)
      PROVE  IInv'
  BY <1>1, <1>2, TurnIInv DEF IInv
<1>3. CASE Drain
  BY <1>1, <1>3, DrainIInv DEF IInv
<1>4. CASE Poller \/ Tick \/ Crash \/ UNCHANGED vars
  <2>1. Kept
    BY <1>4, OthersKeep DEF IInv
  <2> QED
    BY <1>1, <2>1, KeptIInv DEF IInv
<1> QED
  BY <1>2, <1>3, <1>4 DEF Next

-----------------------------------------------------------------------------

\* What a closed row becomes when no two calls share a row: nothing else.
LEMMA ClosedStep ==
    IInv /\ NoCollision /\ [Next]_vars =>
        \A k \in Keys : log[k].status \in {"completed", "failed"} => log'[k] = log[k]
<1> SUFFICES ASSUME IInv, NoCollision, [Next]_vars,
                    NEW k \in Keys, log[k].status \in {"completed", "failed"}
             PROVE  log'[k] = log[k]
  OBVIOUS
<1>1. ASSUME Drain
      PROVE  log'[k] = log[k]
  <2> DEFINE h == Head(queue)
  <2>1. /\ h \in Events /\ h.turn \in Turns /\ h.kind \in {"started", "finished", "failed"}
        /\ 1 \in DOMAIN queue /\ queue[1] = h
    BY <1>1, Heads DEF IInv, Drain, Events
  <2>2. log[k].turn \in Turns /\ Key(log[k].turn) = k /\ Recorded(log[k].turn)
    BY DEF IInv, Owned, Recorded
  <2>3. ~ (h.kind = "started" /\ Key(h.turn) = k)
    <3> SUFFICES ASSUME h.kind = "started", Key(h.turn) = k
                 PROVE  FALSE
      OBVIOUS
    <3>1. Logged(h.turn) /\ Logged(log[k].turn)
      BY <2>1, <2>2 DEF Logged, Queued
    <3>2. h.turn = log[k].turn
      BY <2>1, <2>2, <3>1 DEF NoCollision
    <3>3. ~ Recorded(h.turn)
      BY <2>1 DEF IInv, Once
    <3> QED
      BY <2>2, <3>2, <3>3
  <2>4. Applied(h)[k] = log[k]
    BY <2>1, <2>3, AppliedRow DEF IInv
  <2> QED
    BY <1>1, <2>4 DEF Drain
<1>2. ASSUME NEW j \in Keys, Claim(j)
      PROVE  log'[k] = log[k]
  <2>1. log' = log \/ (log[j].status = "in_progress" /\ log' = Closed(j))
    BY <1>2 DEF Claim
  <2>2. j # k => Closed(j)[k] = log[k]
    BY DEF Closed, IInv, TypeOK
  <2> QED
    BY <2>1, <2>2
<1>3. ASSUME NEW t \in Turns, Turn(t)
      PROVE  log'[k] = log[k]
  BY <1>3, TurnLogs DEF IInv
<1>4. CASE Scan \/ EndPass \/ Inspect \/ SendApology \/ SaveApology \/ Tick \/ Crash \/ UNCHANGED vars
  BY <1>4 DEF Scan, EndPass, Inspect, SendApology, SaveApology, Tick, Crash, vars
<1> QED
  BY <1>1, <1>2, <1>3, <1>4 DEF Next, Poller

\* What a step completes, the provider has answered.
LEMMA CompletedStep ==
    IInv /\ NoCollision /\ CompletedMeansAnswered /\ [Next]_vars => CompletedMeansAnswered'
<1> SUFFICES ASSUME IInv, NoCollision, CompletedMeansAnswered, [Next]_vars,
                    NEW k \in Keys, log'[k].status = "completed"
             PROVE  log'[k].turn \in succeeded'
  BY DEF CompletedMeansAnswered
<1>1. succeeded \subseteq succeeded'
  <2>1. ASSUME NEW t \in Turns, Turn(t)
        PROVE  succeeded \subseteq succeeded'
    BY <2>1 DEF Turn, SaveUserMessage, StartCall, CallEnds, Succeeds, Errs, SendReply, SaveReply
  <2>2. CASE Drain
    BY <2>2 DEF Drain
  <2>3. CASE Poller \/ Tick \/ Crash \/ UNCHANGED vars
    BY <2>3, OthersKeep DEF IInv, Kept
  <2> QED
    BY <2>1, <2>2, <2>3 DEF Next
<1>2. CASE log'[k] = log[k]
  BY <1>1, <1>2 DEF CompletedMeansAnswered
<1>3. CASE Drain /\ log'[k] # log[k]
  <2> DEFINE h == Head(queue)
  <2>1. /\ h \in Events /\ h.turn \in Turns /\ h.kind \in {"started", "finished", "failed"}
        /\ 1 \in DOMAIN queue /\ queue[1] = h /\ log' = Applied(h)
    BY <1>3, Heads DEF IInv, Drain, Events
  <2>2. k = Key(h.turn)
    BY <1>3, <2>1, AppliedRow DEF IInv
  <2>3. h.kind = "finished" /\ log[k].status = "in_progress" /\ log'[k].turn = log[k].turn
    <3> \A s, t : Row(s, t).status = s /\ Row(s, t).turn = t
      BY DEF Row
    <3>1. h.kind # "started"
      BY <2>1, <2>2, AppliedRow DEF IInv
    <3>2. log[k].status = "in_progress"
      BY <1>3, <2>1, <2>2, <3>1, AppliedRow DEF IInv
    <3>3. h.kind # "failed"
      BY <2>1, <2>2, <3>2, AppliedRow DEF IInv
    <3>4. log'[k] = Row("completed", log[k].turn)
      BY <2>1, <2>2, <3>1, <3>2, <3>3, AppliedRow DEF IInv
    <3> QED
      BY <2>1, <3>1, <3>2, <3>3, <3>4
  <2>4. log[k].turn \in Turns /\ Key(log[k].turn) = k /\ Recorded(log[k].turn)
    BY <2>3 DEF IInv, Owned, Recorded
  <2>5. Logged(h.turn) /\ Logged(log[k].turn)
    BY <2>1, <2>4 DEF Logged, Queued
  <2>6. h.turn = log[k].turn
    BY <2>1, <2>2, <2>4, <2>5 DEF NoCollision
  <2>7. h.turn \in succeeded
    BY <2>1, <2>3 DEF IInv, Answered
  <2> QED
    BY <1>1, <2>3, <2>6, <2>7
<1>4. ASSUME NEW j \in Keys, Claim(j), log'[k] # log[k]
      PROVE  FALSE
  <2>1. log' = Closed(j) /\ log[j] \in Rows /\ DOMAIN log = Keys
    BY <1>4 DEF Claim, IInv, TypeOK
  <2>2. j = k /\ log'[k].status = "failed"
    BY <1>4, <2>1 DEF Closed, Rows
  <2> QED
    BY <2>2
<1>5. ASSUME NEW t \in Turns, Turn(t)
      PROVE  log'[k] = log[k]
  BY <1>5, TurnLogs DEF IInv
<1>6. CASE Scan \/ EndPass \/ Inspect \/ SendApology \/ SaveApology \/ Tick \/ Crash \/ UNCHANGED vars
  <2>1. log'[k] = log[k]
    BY <1>6 DEF Scan, EndPass, Inspect, SendApology, SaveApology, Tick, Crash, vars
  <2> QED
    BY <1>2, <2>1
<1> QED
  BY <1>2, <1>3, <1>4, <1>5, <1>6 DEF Next, Poller

-----------------------------------------------------------------------------

\* The invariant, from which the rest follows.
LEMMA Invariant == Spec => []IInv
  BY InitIInv, NextIInv, PTL DEF Spec

\* The variables of the log, of the turns and of the poller stay of their kinds
\* (llm_call_log.rs, messaging_recovery.rs).
THEOREM TypeCorrect == Spec => []TypeOK
<1>1. IInv => TypeOK
  BY DEF IInv
<1> QED
  BY <1>1, Invariant, PTL

\* While no two calls share a row, a closed row never changes again, whatever
\* order the drain task, the poller and the crashes come in.
THEOREM ClosedStay == Spec /\ []NoCollision => ClosedRowsStay
<1>1. IInv /\ NoCollision /\ [Next]_vars
        => [\A k \in Keys : log[k].status \in {"completed", "failed"} => log'[k] = log[k]]_vars
  BY ClosedStep
<1> QED
  BY <1>1, Invariant, PTL DEF Spec, ClosedRowsStay

\* While no two calls share a row, only a call the provider answered is logged
\* as completed.
THEOREM CompletedIsTrue == Spec /\ []NoCollision => []CompletedMeansAnswered
<1>1. Init => CompletedMeansAnswered
  BY DEF Init, CompletedMeansAnswered, NoRow, Row
<1>2. IInv /\ NoCollision /\ CompletedMeansAnswered /\ [Next]_vars => CompletedMeansAnswered'
  BY CompletedStep
<1> QED
  BY <1>1, <1>2, Invariant, PTL DEF Spec
=============================================================================
