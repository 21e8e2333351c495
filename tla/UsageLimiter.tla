---------------------------- MODULE UsageLimiter ----------------------------
(***************************************************************************)
(* The daily message quota of one assistant: the row of the usage_stats    *)
(* table keyed by (user, assistant, day), the compare-and-swap reservation *)
(* made by is_rate_limited, and the read-then-overwrite made by            *)
(* update_usage_stats when the answer has been sent.                       *)
(*                                                                         *)
(* A turn is one invocation of the message pipeline.  Each database call   *)
(* is one step; whatever the turn keeps between two calls is in its local  *)
(* variables day, seen and attempt, so the turns interleave at every       *)
(* await.                                                                  *)
(***************************************************************************)
EXTENDS Naturals, FiniteSets

CONSTANTS
    MeteredTurns,      \* turns of a channel whose assistant has a daily limit
    UnmeteredTurns,    \* playground turns: no limit check, same row
    AnsweredTurns,     \* turns that reach update_usage_stats: the others stop
                       \* earlier (message too long, AI off, quota reply, ...)
    Cost,              \* tokens the answer to a turn costs
    Limit,             \* config_rate_limit_per_day
    LastDay,           \* bound: the days are 1 .. LastDay
    RefusedReadable    \* does the driver decode the reply of a refused LWT?

Turns == MeteredTurns \cup UnmeteredTurns
Days  == 1 .. LastDay

ASSUME TurnsAssumption ==
    /\ MeteredTurns \cap UnmeteredTurns = {}
    /\ AnsweredTurns \subseteq Turns
    /\ Cost \in [Turns -> Nat]
ASSUME LimitAssumption == Limit \in Nat
ASSUME DayAssumption == LastDay \in Nat \ {0}
ASSUME ReplyAssumption == RefusedReadable \in BOOLEAN

MaxRetries == 3

VARIABLES
    today,      \* the current date
    usage,      \* usage_stats, one row a day
    pc,         \* where each turn is
    day,        \* the date a turn computed before its last read
    seen,       \* the counters a turn read last
    attempt,    \* compare-and-swap rounds a turn has lost
    passed,     \* history: the turns the limit check of a day let through
    slots,      \* history: message pairs really added to a day's counter
    billed      \* history: tokens of the answers accounted to a day

vars == <<today, usage, pc, day, seen, attempt, passed, slots, billed>>

Counters == [exists : BOOLEAN, messages : Nat, tokens : Nat]
NoRow    == [exists |-> FALSE, messages |-> 0, tokens |-> 0]

Locations == {"check", "reserve", "admitted", "account", "done", "limited", "failed"}

Init ==
    /\ today   = 1
    /\ usage   = [d \in Days |-> NoRow]
    /\ pc      = [t \in Turns |-> IF t \in MeteredTurns THEN "check" ELSE "admitted"]
    /\ day     = [t \in Turns |-> 1]
    /\ seen    = [t \in Turns |-> NoRow]
    /\ attempt = [t \in Turns |-> 0]
    /\ passed  = [d \in Days |-> {}]
    /\ slots   = [d \in Days |-> 0]
    /\ billed  = [d \in Days |-> 0]

Proceed(t, where) == pc' = [pc EXCEPT ![t] = where]

\* The SELECT of a turn: the date is taken on the first attempt only.
Read(t, d) ==
    /\ day'  = [day EXCEPT ![t] = d]
    /\ seen' = [seen EXCEPT ![t] = usage[d]]

\* is_rate_limited up to the limit test.
CheckLimit(t) ==
    /\ pc[t] = "check"
    /\ LET d == IF attempt[t] = 0 THEN today ELSE day[t] IN
        /\ Read(t, d)
        /\ Proceed(t, IF usage[d].messages >= Limit THEN "limited" ELSE "reserve")
    /\ UNCHANGED <<today, usage, attempt, passed, slots, billed>>

\* Mutant of Applies: a plain UPDATE, without its IF.
AppliesBlindly(t) == usage[day[t]].exists \/ seen[t].messages = 0

\* The condition of the lightweight transaction: a turn that read two zeros
\* sends INSERT IF NOT EXISTS, any other UPDATE IF total_messages = <read>.
Applies(t) ==
    LET now == usage[day[t]] IN
    IF seen[t].messages = 0 /\ seen[t].tokens = 0
    THEN ~ now.exists
    ELSE now.exists /\ now.messages = seen[t].messages

\* The row after the transaction applied: the UPDATE leaves the tokens alone.
Reserved(t) ==
    LET now == usage[day[t]] IN
    [exists |-> TRUE, messages |-> seen[t].messages + 2, tokens |-> now.tokens]

LetThrough(t) ==
    /\ Proceed(t, "admitted")
    /\ passed' = [passed EXCEPT ![day[t]] = @ \cup {t}]

TakeSlot(t) ==
    /\ usage' = [usage EXCEPT ![day[t]] = Reserved(t)]
    /\ slots' = [slots EXCEPT ![day[t]] = @ + 1]

ReserveApplied(t) ==
    /\ pc[t] = "reserve"
    /\ Applies(t)
    /\ TakeSlot(t)
    /\ LetThrough(t)
    /\ UNCHANGED <<today, day, seen, attempt, billed>>

\* Mutants of ReserveRefused: rounds without a bound, and one round too many.
ReserveRefusedForever(t) ==
    /\ pc[t] = "reserve"
    /\ ~ Applies(t)
    /\ Proceed(t, "check")
    /\ UNCHANGED <<today, usage, day, seen, attempt, passed, slots, billed>>

\* A refused transaction: another round if the reply could be decoded and
\* rounds are left; otherwise the message is let through.
ReserveRefused(t) ==
    /\ pc[t] = "reserve"
    /\ ~ Applies(t)
    /\ attempt' = [attempt EXCEPT ![t] = IF RefusedReadable THEN @ + 1 ELSE @]
    /\ IF RefusedReadable /\ attempt[t] + 1 < MaxRetries
       THEN Proceed(t, "check") /\ UNCHANGED passed
       ELSE LetThrough(t)
    /\ UNCHANGED <<today, usage, day, seen, slots, billed>>

\* A database error ends the turn; a transaction that timed out may have
\* been applied all the same.
ReserveError(t) ==
    /\ pc[t] = "reserve"
    /\ \/ Applies(t) /\ TakeSlot(t)
       \/ UNCHANGED <<usage, slots>>
    /\ Proceed(t, "failed")
    /\ UNCHANGED <<today, day, seen, attempt, passed, billed>>

ReadError(t) ==
    /\ pc[t] \in {"check", "admitted"}
    /\ Proceed(t, "failed")
    /\ UNCHANGED <<today, usage, day, seen, attempt, passed, slots, billed>>

\* A turn that ends before its answer is accounted.
StopEarly(t) ==
    /\ pc[t] = "admitted"
    /\ t \notin AnsweredTurns
    /\ Proceed(t, "done")
    /\ UNCHANGED <<today, usage, day, seen, attempt, passed, slots, billed>>

\* update_usage_stats: the date is taken again, the row read ...
ReadStats(t) ==
    /\ pc[t] = "admitted"
    /\ t \in AnsweredTurns
    /\ Read(t, today)
    /\ Proceed(t, "account")
    /\ UNCHANGED <<today, usage, attempt, passed, slots, billed>>

\* Mutant of Overwrite: counts the messages of a metered turn once more.
OverwriteTwice(t) ==
    /\ usage' = [usage EXCEPT ![day[t]] =
                 [exists   |-> TRUE,
                  messages |-> seen[t].messages + 2,
                  tokens   |-> seen[t].tokens + Cost[t]]]
    /\ slots'  = [slots EXCEPT ![day[t]] = @ + IF t \in MeteredTurns THEN 0 ELSE 1]
    /\ billed' = [billed EXCEPT ![day[t]] = @ + Cost[t]]

\* ... and overwritten with what was read plus the tokens, unconditionally.
Overwrite(t) ==
    LET pairs == IF t \in MeteredTurns THEN 0 ELSE 1 IN
    /\ usage' = [usage EXCEPT ![day[t]] =
                 [exists   |-> TRUE,
                  messages |-> seen[t].messages + 2 * pairs,
                  tokens   |-> seen[t].tokens + Cost[t]]]
    /\ slots'  = [slots EXCEPT ![day[t]] = @ + pairs]
    /\ billed' = [billed EXCEPT ![day[t]] = @ + Cost[t]]

WriteStats(t) ==
    /\ pc[t] = "account"
    /\ \/ Overwrite(t) /\ Proceed(t, "done")
       \/ Overwrite(t) /\ Proceed(t, "failed")      \* timed out, yet applied
       \/ Proceed(t, "failed") /\ UNCHANGED <<usage, slots, billed>>
    /\ UNCHANGED <<today, day, seen, attempt, passed>>

Midnight ==
    /\ today < LastDay
    /\ today' = today + 1
    /\ UNCHANGED <<usage, pc, day, seen, attempt, passed, slots, billed>>

Step(t) ==
    \/ CheckLimit(t)
    \/ ReserveApplied(t)
    \/ ReserveRefused(t)
    \/ ReserveError(t)
    \/ ReadError(t)
    \/ StopEarly(t)
    \/ ReadStats(t)
    \/ WriteStats(t)

Next == Midnight \/ \E t \in Turns : Step(t)

Spec == Init /\ [][Next]_vars

\* The runtime polls every task that can progress.
Fairness == \A t \in Turns : WF_vars(Step(t))

FairSpec == Spec /\ Fairness

-----------------------------------------------------------------------------
\* The kind of value each variable holds.
TypeOK ==
    /\ today   \in Days
    /\ usage   \in [Days -> Counters]
    /\ pc      \in [Turns -> Locations]
    /\ day     \in [Turns -> Days]
    /\ seen    \in [Turns -> Counters]
    /\ attempt \in [Turns -> 0 .. MaxRetries]
    /\ passed  \in [Days -> SUBSET MeteredTurns]
    /\ slots   \in [Days -> Nat]
    /\ billed  \in [Days -> Nat]

\* However the overwrites of update_usage_stats race with reservations, the
\* counters of a day never exceed what was really reserved and billed on it:
\* the races only lose updates, they never invent usage.
NeverOvercounts ==
    \A d \in Days : /\ usage[d].messages <= 2 * slots[d]
                    /\ usage[d].tokens <= billed[d]

\* A customer who is told that the daily limit is reached really shares the
\* day with that many accounted messages (is_rate_limited returning true).
NoEarlyRefusal ==
    \A t \in Turns : pc[t] = "limited" => 2 * slots[day[t]] >= Limit

\* Message pairs that may be reserved on a day before its counter reaches
\* the limit.
PairsInLimit == (Limit + 1) \div 2

\* "This prevents race conditions where concurrent requests both pass the
\* limit check": no more turns pass is_rate_limited on a day than the limit
\* has room for.
LimitRespected ==
    \A d \in Days : Cardinality(passed[d]) <= PairsInLimit

\* The compare-and-swap alone does keep to the limit: as long as no answer has
\* been accounted, no more pairs are reserved on a day than there is room for,
\* however the rounds interleave.  (A turn that loses all its rounds passes
\* without a reservation.)
NothingAccounted == \A t \in Turns : pc[t] \in {"check", "reserve", "admitted", "limited"}
ReservationsRespectLimit ==
    NothingAccounted => \A d \in Days : slots[d] <= PairsInLimit

\* The rounds of the reservation are bounded, so that every turn is decided
\* and ends, whatever the other turns do.
EveryTurnEnds == \A t \in Turns : <>(pc[t] \in {"done", "limited", "failed"})

\* Races neither invent usage nor refuse for usage that was not there.
UsageHonest == NeverOvercounts /\ NoEarlyRefusal
=============================================================================
