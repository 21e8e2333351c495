----------------------------- MODULE Compaction -----------------------------
(***************************************************************************)
(* The history a turn shows to the model, and its compaction.  A turn has  *)
(* saved the message it answers; it reads the last messages, and when they *)
(* are many and cost much it claims the slot of the conversation, which is *)
(* free again after an hour, and lets a cheap model summarise all but the  *)
(* most recent ones.  The summary is shown to this one turn and kept       *)
(* nowhere; a second call extracts a handoff from the same messages, which *)
(* is stored and shown to this and to every later turn.                    *)
(*                                                                         *)
(* Messages are numbered as they are saved.  A summary, a handoff and a    *)
(* history stand for the runs of messages they are made of.                *)
(***************************************************************************)
EXTENDS Tasks, Sequences

LOCAL INSTANCE SequencesExt

CONSTANTS
    Lengths,        \* messages a conversation may begin with
    Costs,          \* tokens a reply may use
    Wide,           \* messages read to judge the conversation
    Narrow,         \* messages a turn is shown without compaction
    KeepRecent,     \* compaction_keep_recent
    MinMessages,    \* compaction_min_messages
    TranscriptCap,  \* TRANSCRIPT_CAP, in messages: they are taken to be of one size
    MinTokens       \* compaction_threshold_pct of the assistant's max_tokens

ASSUME CompactionAssumption ==
    /\ Lengths \subseteq Nat /\ Costs \subseteq Nat
    /\ Wide \in Nat \ {0} /\ Narrow \in 1..Wide /\ KeepRecent \in Nat \ {0}
    /\ TranscriptCap \in Nat \ {0} /\ MinMessages \in Nat /\ MinTokens \in Nat

VARIABLES
    messages,       \* tokens_used of each message of the conversation
    slot,           \* is there a row in compaction_rate_limits?
    handoff,        \* the run the row of conversation_handoffs was made of
    won             \* history: claims won since the row was last gone

cpVars == <<messages, slot, handoff, won>>

\* A run of messages; an empty one ends before it begins.
Run(first, last) == [first |-> first, last |-> last]
Length(run)      == (run.last + 1) - run.first
NoRun            == Run(1, 0)

\* The last limit messages of a run.
LastOf(run, limit) ==
    IF Length(run) > limit THEN Run((run.last + 1) - limit, run.last) ELSE run

FallbackTail(wide) == LastOf(wide, Narrow)

\* get_recent_messages: the newest ones, in the order they were saved.
Recent(limit) == LastOf(Run(1, Len(messages)), limit)

TokensOf(run) == FoldLeft(+, 0, SubSeq(messages, run.first, run.last))

\* evaluate_trigger of an assistant that compacts.
Triggered(wide) == Length(wide) >= MinMessages /\ TokensOf(wide) >= MinTokens

\* What compact_conversation summarises of the messages read, and what the
\* turn keeps of them.
Older(wide) == Run(wide.first, wide.last - Length(LastOf(wide, KeepRecent)))

Kept(wide) == LastOf(wide, KeepRecent)

\* A transcript over its cap loses its end: the newest of the older messages.
Transcript(older) ==
    IF Length(older) > TranscriptCap THEN Run(older.first, older.first + TranscriptCap - 1)
    ELSE older

CompactionInit ==
    /\ \E n \in Lengths, c \in Costs : messages = [i \in 1..n |-> IF i % 2 = 0 THEN c ELSE 0]
    /\ slot = FALSE /\ handoff = NoRun /\ won = 0

-----------------------------------------------------------------------------
(* Continuations: `compact` is what the assistant was set to when the turn *)
(* began; a turn learns the message it answers, what it has read of the     *)
(* conversation, and the summary, the history and the handoff it will show. *)

\* Without a compaction, or when it fails.
FallBack(t) == Goto(t, "load")

\* save_message_with_media: the message of the client.
TakeMessage(t) ==
    /\ \E compact \in BOOLEAN :
        BeginWith(t, "turn", "read", [compact |-> compact], [mine |-> Len(messages) + 1])
    /\ messages' = Append(messages, 0)
    /\ UNCHANGED <<slot, handoff, won>>

\* The slot is not asked for unless the messages call for it.
ReadHistory(t) ==
    /\ On(t, "turn", "read")
    /\ LET wide == Recent(IF Arg(t).compact THEN Wide ELSE Narrow) IN
        Learn(t, IF Arg(t).compact /\ Triggered(wide) THEN "claim" ELSE "load",
              [mine |-> Got(t).mine, wide |-> wide, summary |-> NoRun,
               history |-> FallbackTail(wide), handoff |-> NoRun])
    /\ UNCHANGED cpVars

\* Mutant of Claim: a plain INSERT, always applied.
ClaimAnyway(t) ==
    /\ On(t, "turn", "claim")
    /\ slot' = TRUE /\ won' = won + 1
    /\ Goto(t, "summarise")
    /\ UNCHANGED <<messages, handoff>>

\* try_claim_rate_limit_slot: INSERT IF NOT EXISTS.
Claim(t) ==
    /\ On(t, "turn", "claim")
    /\ IF slot THEN FallBack(t) /\ UNCHANGED <<slot, won>>
       ELSE slot' = TRUE /\ won' = won + 1 /\ Goto(t, "summarise")
    /\ UNCHANGED <<messages, handoff>>

\* The INSERT failed, applied or not.
ClaimFails(t) ==
    /\ On(t, "turn", "claim")
    /\ FallBack(t)
    /\ slot' \in {slot, TRUE}
    /\ UNCHANGED <<messages, handoff, won>>

\* compact_conversation: the first call.  The slot stays claimed when there is
\* nothing to summarise, the call fails or its answer is empty.
SummariseFails(t) ==
    /\ On(t, "turn", "summarise")
    /\ FallBack(t)
    /\ UNCHANGED cpVars

Summarise(t) ==
    /\ On(t, "turn", "summarise")
    /\ LET older == Older(Got(t).wide) IN
        /\ Length(older) > 0
        /\ Learn(t, "extract", [Got(t) EXCEPT !.summary = Transcript(older),
                                             !.history = Kept(Got(t).wide)])
    /\ UNCHANGED cpVars

\* build_handoff: the second call, on the same transcript.
ExtractHandoff(t) ==
    /\ On(t, "turn", "extract")
    /\ Goto(t, "store")
    /\ UNCHANGED cpVars

\* The call, the parsing of its answer or the INSERT fails: the turn goes on.
NoHandoff(t) ==
    /\ On(t, "turn", "extract") \/ On(t, "turn", "store")
    /\ Goto(t, "load")
    /\ UNCHANGED cpVars

\* save_handoff overwrites.
SaveHandoff(t) ==
    /\ On(t, "turn", "store")
    /\ handoff' = Got(t).summary
    /\ Goto(t, "load")
    /\ UNCHANGED <<messages, slot, won>>

\* load_handoff; an error counts as no row.
LoadHandoff(t) ==
    /\ On(t, "turn", "load")
    /\ \E h \in {handoff, NoRun} : Learn(t, "answer", [Got(t) EXCEPT !.handoff = h])
    /\ UNCHANGED cpVars

SaveReply(t) ==
    /\ On(t, "turn", "answer")
    /\ \E c \in Costs : messages' = Append(messages, c)
    /\ Finish(t)
    /\ UNCHANGED <<slot, handoff, won>>

\* From reading the history to storing the handoff.
Compacting(t) == \E at \in {"claim", "summarise", "extract", "store"} : On(t, "turn", at)

\* The row is gone after an hour, which is longer than any turn needs for its
\* two calls.
SlotExpires ==
    /\ slot /\ ~\E t \in Tasks : Compacting(t)
    /\ slot' = FALSE /\ won' = 0
    /\ UNCHANGED <<messages, handoff, tasking>>

CompactionStep(t) ==
    \/ TakeMessage(t) \/ ReadHistory(t)
    \/ Claim(t) \/ ClaimFails(t) \/ SummariseFails(t) \/ Summarise(t)
    \/ ExtractHandoff(t) \/ NoHandoff(t) \/ SaveHandoff(t)
    \/ LoadHandoff(t) \/ SaveReply(t)
    \/ Drop(t) /\ UNCHANGED cpVars

-----------------------------------------------------------------------------

\* In the hour after a claim no other turn compacts the conversation, however
\* many run at once and whatever fails.
OneCompactionPerWindow == won <= 1

\* The history a turn shows is a run of messages without a gap or an overlap
\* after the summary, unless the transcript was cut, and has the message the
\* turn answers, unless as many as it keeps arrived in between.
HistoryIsSeamless ==
    \A t \in Tasks : On(t, "turn", "load") \/ On(t, "turn", "answer") =>
        LET got == Got(t) IN
        /\ got.history.last = got.wide.last
        /\ got.summary # NoRun =>
            /\ got.summary.first = got.wide.first /\ got.summary.last < got.history.first
            /\ Length(Older(got.wide)) <= TranscriptCap => got.summary.last + 1 = got.history.first
        /\ got.wide.last - got.mine < KeepRecent /\ got.wide.last - got.mine < Narrow
            => got.mine \in got.history.first..got.history.last

\* A window compacts once, and what a turn is shown has no hole
\* (try_claim_rate_limit_slot, compact_conversation, process_incoming_message).
CompactionHolds == OneCompactionPerWindow /\ HistoryIsSeamless
=============================================================================
