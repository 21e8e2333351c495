---------------------------- MODULE CallRecovery ----------------------------
(***************************************************************************)
(* The llm_call_logs table as the memory of a crash.  A message turn saves *)
(* the user's message, logs Started, calls the provider, logs Finished or  *)
(* Failed, sends the reply and saves it.  The log events go through an     *)
(* in-memory queue that one drain task applies to the table.  The recovery *)
(* poller scans for rows left in_progress, claims each one with a          *)
(* lightweight transaction, inspects the conversation and, when its guards *)
(* hold, tells the user to repeat the message (here: an apology).          *)
(*                                                                         *)
(* Time is a clock of coarse ticks.  A row is keyed by assistant and start *)
(* time, as timeuuid_from_ms derives the row id from the start time alone. *)
(***************************************************************************)
EXTENDS Naturals, Sequences, SequencesExt

CONSTANTS
    Turns,          \* message turns
    Conversations,
    Assistants,
    ConvOf,         \* the conversation of a turn
    AssistantOf,    \* the assistant of a conversation
    StaleAfter,     \* STALE_IN_PROGRESS_MS, in ticks
    DriftThreshold, \* RECOVERY_DRIFT_THRESHOLD_MS, in ticks
    MaxTurnTime,    \* longest time from saving the message to saving the reply
    PromptDrain,    \* does the drain task keep up, within a tick?
    LastTick,       \* bound on the clock
    MaxCrashes,     \* bound on the crashes of the backend
    Faults,         \* do database calls and provider sends fail?
    None

ASSUME MapsAssumption ==
    /\ ConvOf \in [Turns -> Conversations]
    /\ AssistantOf \in [Conversations -> Assistants]
    /\ None \notin Turns
ASSUME TimesAssumption ==
    /\ StaleAfter \in Nat /\ DriftThreshold \in Nat /\ MaxTurnTime \in Nat
    /\ LastTick \in Nat /\ MaxCrashes \in Nat
    /\ PromptDrain \in BOOLEAN /\ Faults \in BOOLEAN

Times == 0 .. LastTick
Keys  == Assistants \X Times

VARIABLES
    clock,
    crashes,    \* crashes so far
    pc,         \* where each turn is
    began,      \* when each turn saved the user's message
    started,    \* when each turn called the provider
    last,       \* the last message of each conversation
    queue,      \* events waiting for the drain task
    log,        \* llm_call_logs
    poll,       \* where the poller is
    batch,      \* rows of the current pass not yet attempted
    current,    \* the row the poller works on
    judged,     \* history: the turn whose message the guards looked at
    succeeded,  \* history: turns whose call the provider answered
    apologies   \* history: recovery messages sent since the last user message

turnVars == <<pc, began, started>>
pollVars == <<poll, batch, current, judged>>
vars == <<clock, crashes, pc, began, started, last, queue, log, poll, batch, current,
          judged, succeeded, apologies>>

Row(s, t)    == [status |-> s, turn |-> t]
NoRow        == Row("none", None)
Message(r, t) == [role |-> r, at |-> clock, by |-> t]
Event(k, t)  == [kind |-> k, turn |-> t]
Key(t)       == <<AssistantOf[ConvOf[t]], started[t]>>

Rows     == [status : {"none", "in_progress", "completed", "failed"}, turn : Turns \cup {None}]
Messages == [role : {"none", "user", "assistant"}, at : Times, by : Turns \cup {None}]
Events   == [kind : {"started", "finished", "failed"}, turn : Turns]
Places   == {"idle", "saved", "calling", "answered", "sent", "done", "failed", "lost"}

Init ==
    /\ clock = 0 /\ crashes = 0
    /\ pc      = [t \in Turns |-> "idle"]
    /\ began   = [t \in Turns |-> 0]
    /\ started = [t \in Turns |-> 0]
    /\ last    = [c \in Conversations |-> [role |-> "none", at |-> 0, by |-> None]]
    /\ queue   = <<>>
    /\ log     = [k \in Keys |-> NoRow]
    /\ poll = "idle" /\ batch = {} /\ current = <<>> /\ judged = None
    /\ apologies = [c \in Conversations |-> 0]
    /\ succeeded = {}

-----------------------------------------------------------------------------
(* The message turn. *)

Goto(t, where) == pc' = [pc EXCEPT ![t] = where]

SaveUserMessage(t) ==
    /\ pc[t] = "idle"
    /\ Goto(t, "saved")
    /\ began'     = [began EXCEPT ![t] = clock]
    /\ last'      = [last EXCEPT ![ConvOf[t]] = Message("user", t)]
    /\ apologies' = [apologies EXCEPT ![ConvOf[t]] = 0]
    /\ UNCHANGED <<clock, crashes, started, queue, log, pollVars, succeeded>>

\* Bound: no call starts so late that the clock ends before it is stale.
StartCall(t) ==
    /\ pc[t] = "saved"
    /\ clock + StaleAfter < LastTick
    /\ Goto(t, "calling")
    /\ started' = [started EXCEPT ![t] = clock]
    /\ queue'   = Append(queue, Event("started", t))
    /\ UNCHANGED <<clock, crashes, began, last, log, pollVars, succeeded,
                   apologies>>

\* Mutant of CallEnds: logs Finished whatever the provider returned.
CallEndsFinished(t) ==
    /\ pc[t] = "calling"
    /\ \/ Goto(t, "answered") /\ succeeded' = succeeded \cup {t}
       \/ Goto(t, "failed") /\ UNCHANGED succeeded
    /\ queue' = Append(queue, Event("finished", t))
    /\ UNCHANGED <<clock, crashes, began, started, last, log, pollVars, apologies>>

Succeeds(t) ==
    /\ Goto(t, "answered")
    /\ succeeded' = succeeded \cup {t}
    /\ queue' = Append(queue, Event("finished", t))

\* Over quota a friendly reply is sent instead of the answer; any other
\* error is returned by the turn.
Errs(t) ==
    /\ Goto(t, "answered") \/ Goto(t, "failed")
    /\ queue' = Append(queue, Event("failed", t))
    /\ UNCHANGED succeeded

CallEnds(t) ==
    /\ pc[t] = "calling"
    /\ Succeeds(t) \/ Errs(t)
    /\ UNCHANGED <<clock, crashes, began, started, last, log, pollVars, apologies>>

SendReply(t) ==
    /\ pc[t] = "answered"
    /\ \/ Goto(t, "sent")
       \/ Faults /\ Goto(t, "failed")
    /\ UNCHANGED <<clock, crashes, began, started, last, queue, log, pollVars,
                   succeeded, apologies>>

SaveReply(t) ==
    /\ pc[t] = "sent"
    /\ \/ /\ Goto(t, "done")
          /\ last' = [last EXCEPT ![ConvOf[t]] = Message("assistant", t)]
       \/ Faults /\ Goto(t, "failed") /\ UNCHANGED last
    /\ UNCHANGED <<clock, crashes, began, started, queue, log, pollVars, succeeded,
                   apologies>>

Turn(t) ==
    \/ SaveUserMessage(t)
    \/ StartCall(t)
    \/ CallEnds(t)
    \/ SendReply(t)
    \/ SaveReply(t)

-----------------------------------------------------------------------------
(* The drain task. *)

\* Mutant of Applied: an UPDATE without IF status = 'in_progress'.
AppliedBlindly(e) ==
    [log EXCEPT ![Key(e.turn)] =
        CASE e.kind = "started"  -> Row("in_progress", e.turn)
          [] e.kind = "finished" -> Row("completed", @.turn)
          [] e.kind = "failed"   -> Row("failed", @.turn)]

\* Started is a plain INSERT; Finished and Failed close an open row only.
Applied(e) ==
    [log EXCEPT ![Key(e.turn)] =
        IF e.kind = "started" THEN Row("in_progress", e.turn)
        ELSE IF @.status # "in_progress" THEN @
        ELSE Row(IF e.kind = "finished" THEN "completed" ELSE "failed", @.turn)]

\* A write that fails is logged and forgotten.
Drain ==
    /\ queue # <<>>
    /\ queue' = Tail(queue)
    /\ \/ log' = Applied(Head(queue))
       \/ Faults /\ UNCHANGED log
    /\ UNCHANGED <<clock, crashes, turnVars, last, pollVars, succeeded, apologies>>

-----------------------------------------------------------------------------
(* The recovery poller. *)

\* scan_stale_in_progress: started_at < now - STALE_IN_PROGRESS_MS.
Stale == {k \in Keys : log[k].status = "in_progress" /\ k[2] + StaleAfter < clock}

Scan ==
    /\ poll = "idle"
    /\ Stale # {}
    /\ batch' = Stale
    /\ poll'  = "next"
    /\ UNCHANGED <<clock, crashes, turnVars, last, queue, log, current, judged,
                   succeeded, apologies>>

EndPass ==
    /\ poll = "next"
    /\ batch = {}
    /\ poll' = "idle"
    /\ UNCHANGED <<clock, crashes, turnVars, last, queue, log, batch, current,
                   judged, succeeded, apologies>>

Closed(k) == [log EXCEPT ![k].status = "failed"]

\* claim_stale_row; a claim that errors may have been applied.
Claim(k) ==
    /\ poll = "next"
    /\ k \in batch
    /\ batch' = batch \ {k}
    /\ IF log[k].status = "in_progress"
       THEN \/ log' = Closed(k) /\ poll' = "inspect" /\ current' = k
            \/ Faults /\ log' \in {log, Closed(k)} /\ UNCHANGED <<poll, current>>
       ELSE UNCHANGED <<log, poll, current>>
    /\ UNCHANGED <<clock, crashes, turnVars, last, queue, judged, succeeded,
                   apologies>>

ConvOfRow(k) == ConvOf[log[k].turn]

Distance(a, b) == IF a < b THEN b - a ELSE a - b

\* Mutants of ShouldSend: without the role guard, and with a strict time guard.
ShouldSendAnyRole(startedAt, m) ==
    m.role # "none" /\ m.at <= startedAt /\ Distance(m.at, startedAt) <= DriftThreshold
ShouldSendStrict(startedAt, m) ==
    m.at < startedAt /\ m.role = "user" /\ Distance(m.at, startedAt) <= DriftThreshold

\* should_send_recovery, with the third guard as its only caller computes it.
ShouldSend(startedAt, m) ==
    /\ ~ (m.at > startedAt)
    /\ m.role = "user"
    /\ Distance(m.at, startedAt) <= DriftThreshold

\* fetch_last_message and the guards; a database error ends the attempt.
Inspect ==
    /\ poll = "inspect"
    /\ \/ /\ poll' = IF ShouldSend(current[2], last[ConvOfRow(current)]) THEN "send" ELSE "next"
          /\ judged' = last[ConvOfRow(current)].by
       \/ /\ Faults
          /\ poll' = "next"
          /\ UNCHANGED judged
    /\ UNCHANGED <<clock, crashes, turnVars, last, queue, log, batch, current,
                   succeeded, apologies>>

SendApology ==
    /\ poll = "send"
    /\ \/ /\ poll' = "save"
          /\ apologies' = [apologies EXCEPT ![ConvOfRow(current)] = @ + 1]
       \/ Faults /\ poll' = "next" /\ UNCHANGED apologies
    /\ UNCHANGED <<clock, crashes, turnVars, last, queue, log, batch, current,
                   judged, succeeded>>

\* Mutant of SaveApology: the apology is not saved as a message.
SaveApologyNever ==
    /\ poll = "save"
    /\ poll' = "next"
    /\ UNCHANGED <<clock, crashes, turnVars, last, queue, log, batch, current,
                   judged, succeeded, apologies>>

\* save_recovery_message, whose failure is not fatal.
SaveApology ==
    /\ poll = "save"
    /\ poll' = "next"
    /\ \/ last' = [last EXCEPT ![ConvOfRow(current)] = Message("assistant", None)]
       \/ Faults /\ UNCHANGED last
    /\ UNCHANGED <<clock, crashes, turnVars, queue, log, batch, current, judged,
                   succeeded, apologies>>

Poller ==
    \/ Scan
    \/ EndPass
    \/ \E k \in Keys : Claim(k)
    \/ Inspect
    \/ SendApology
    \/ SaveApology

-----------------------------------------------------------------------------
(* The environment. *)

Alive == {"saved", "calling", "answered", "sent"}

Tick ==
    /\ clock < LastTick
    /\ \A t \in Turns : pc[t] \in Alive => clock < began[t] + MaxTurnTime
    /\ PromptDrain => queue = <<>>
    /\ clock' = clock + 1
    /\ UNCHANGED <<crashes, turnVars, last, queue, log, pollVars, succeeded,
                   apologies>>

\* The process dies and is started again: tasks and queue are gone, the
\* tables stay.
Crash ==
    /\ crashes < MaxCrashes
    /\ crashes' = crashes + 1
    /\ pc' = [t \in Turns |-> IF pc[t] \in Alive THEN "lost" ELSE pc[t]]
    /\ queue' = <<>>
    /\ poll' = "idle" /\ batch' = {} /\ current' = <<>> /\ judged' = None
    /\ UNCHANGED <<clock, began, started, last, log, succeeded, apologies>>

Next ==
    \/ \E t \in Turns : Turn(t)
    \/ Drain
    \/ Poller
    \/ Tick
    \/ Crash

Spec == Init /\ [][Next]_vars

\* Tasks that can run are run and time passes; nothing makes a user write or
\* the backend crash.
Fairness ==
    /\ \A t \in Turns : WF_vars(pc[t] # "idle" /\ Turn(t))
    /\ WF_vars(Drain)
    /\ WF_vars(Poller)
    /\ WF_vars(Tick)

FairSpec == Spec /\ Fairness

-----------------------------------------------------------------------------
\* The kind of value each variable holds.
TypeOK ==
    /\ clock \in Times /\ crashes \in 0 .. MaxCrashes
    /\ pc \in [Turns -> Places]
    /\ began \in [Turns -> Times]
    /\ started \in [Turns -> Times]
    /\ last \in [Conversations -> Messages]
    /\ queue \in Seq(Events)
    /\ log \in [Keys -> Rows]
    /\ poll \in {"idle", "next", "inspect", "send", "save"}
    /\ batch \subseteq Keys
    /\ current \in Keys \cup {<<>>} /\ judged \in Turns \cup {None}
    /\ apologies \in [Conversations -> Nat]
    /\ succeeded \subseteq Turns

\* A closed row never changes again: a late Finished cannot undo the claim of
\* the poller, nor a claim a completed call.
ClosedRowsStay ==
    [][\A k \in Keys : log[k].status \in {"completed", "failed"} => log'[k] = log[k]]_vars

\* Only a call the provider answered is logged as completed.
CompletedMeansAnswered ==
    \A k \in Keys : log[k].status = "completed" => log[k].turn \in succeeded

\* "Texto enviado ao usuario quando detectamos que a conversa ficou orfa por
\* um crash do backend": no apology goes out for a message whose turn is still
\* running or has answered.
NoApologyToLiveTurn ==
    [][\A c \in Conversations : apologies'[c] > apologies[c]
          => pc[judged] \notin Alive \cup {"done"}]_vars

\* "O LWT sozinho basta contra duplicate recovery": a user message is
\* apologised for at most once, however many rows point at its conversation.
OneApologyPerMessage == \A c \in Conversations : apologies[c] <= 1

\* A turn cut by a crash whose Started row reached the table and whose
\* message is still the last one, close enough to the start of the call.
Recoverable(t) ==
    LET m == last[ConvOf[t]] IN
    /\ pc[t] = "lost"
    /\ log[Key(t)] = Row("in_progress", t)
    /\ m.role = "user" /\ m.by = t
    /\ started[t] <= m.at + DriftThreshold

\* The user of such a turn gets an apology, unless the conversation moves on.
OrphansGetApology ==
    \A t \in Turns : Recoverable(t) ~>
        (apologies[ConvOf[t]] > 0 \/ last[ConvOf[t]].by # t)

\* Apologies are as few as the messages they are about, whatever the tables
\* went through (should_send_recovery, attempt_recover_one).
ApologiesMeasured == TypeOK /\ OneApologyPerMessage
=============================================================================
