---------------------------- MODULE Integrations ----------------------------
(***************************************************************************)
(* Assistants and the phone numbers they answer on.  An integration is a   *)
(* row in the partition of its assistant; it is found for an incoming      *)
(* message by the fingerprint of its number, a column that is written by a *)
(* second UPDATE after the row itself.  An UPDATE of a row that was        *)
(* deleted writes one without created_at: the lists skip it, the lookup    *)
(* by fingerprint ends with an error.                                      *)
(*                                                                         *)
(* The provider reports the link of a number by webhooks.  What it said    *)
(* last is kept in memory, next to the status in the row.                  *)
(***************************************************************************)
EXTENDS Tasks, Sequences

CONSTANTS
    Assistants,     \* ids of assistants
    Integrations,   \* ids of integrations
    Phones,         \* numbers
    FailLimit       \* failed probes before an integration is disconnected

ASSUME IntegrationsAssumption ==
    /\ FailLimit \in Nat \ {0} /\ Integrations # {}
    /\ "none" \notin Assistants \cup Phones /\ "same" \notin Phones

VARIABLES
    assistants,     \* the row of each assistant: none, whole or bare
    rows,           \* the row of each integration
    store,          \* ConnectionStateStore: what the provider said of a number
    fails,          \* FAIL_COUNTS of the health check
    claimed,        \* history: numbers that two calls took at once, or that
                    \* were taken after a lookup or a deletion that failed, or
                    \* that found a stale row
    stale,          \* history: integrations whose fingerprint was not written
                    \* after the number, or which two calls wrote at once
    misread,        \* history: has a read of an assistant failed?
    used            \* history: ids that were given out

inTables  == <<assistants, rows, store, fails>>
inHistory == <<claimed, stale, misread, used>>
inVars    == <<inTables, inHistory>>

NoRow == [is |-> "none", of |-> "none", phone |-> "none", fp |-> "none", status |-> "none"]

Listed(i)   == rows[i].is = "whole"
Indexed(p)  == {i \in Integrations : rows[i].is # "none" /\ rows[i].fp = p}
Exists(a)   == assistants[a] = "whole"

\* Assistants without integrations, or one connected, with some failed probes.
IntegrationsInit ==
    /\ assistants = [a \in Assistants |-> "whole"]
    /\ store = [p \in Phones |-> "none"]
    /\ \E made \in {{}, {CHOOSE i \in Integrations : TRUE}},
          a \in Assistants, p \in Phones, n \in 0..(FailLimit - 1) :
        /\ rows = [i \in Integrations |-> IF i \notin made THEN NoRow ELSE
                [is |-> "whole", of |-> a, phone |-> p, fp |-> p, status |-> "connected"]]
        /\ fails = [i \in Integrations |-> IF i \in made THEN n ELSE 0]
        /\ used = made
    /\ claimed = {} /\ stale = {} /\ misread = FALSE

\* The integration a call writes, and the number it takes.
Writes(c) ==
    CASE c.op \in {"create", "update", "connect", "poll", "disconnect", "delete_integration"} ->
            {c.arg.id}
      [] c.op \in {"webhook", "health", "delete_assistant"} -> Integrations
      [] OTHER -> {}
Takes(c) == IF c.op \in {"create", "update"} THEN {c.arg.phone} \cap Phones ELSE {}

BeginIn(t, op, at, arg, got) ==
    /\ BeginWith(t, op, at, arg, got)
    /\ LET me == [op |-> op, arg |-> arg] IN
        /\ stale' = stale \cup (Writes(me) \cap UNION {Writes(call[o]) : o \in Others(t)})
        /\ claimed' = claimed \cup (Takes(me) \cap UNION {Takes(call[o]) : o \in Others(t)})
    /\ used' = IF op = "create" THEN used \cup {arg.id} ELSE used
    /\ UNCHANGED <<inTables, misread>>

-----------------------------------------------------------------------------
(* Calls begin *)

NoWish == [id |-> "none", phone |-> "same", status |-> "same"]

\* The call fails, and its error is ignored.
Shrug(t, at, got) ==
    /\ drops > 0 /\ drops' = drops - 1
    /\ call' = [call EXCEPT ![t].at = at, ![t].got = got]
    /\ UNCHANGED <<calls, crowded>>

Fresh == IF used = Integrations THEN {} ELSE {CHOOSE i \in Integrations : i \notin used}

OwnerCalls(t) ==
    \/ \E a \in Assistants, i \in Fresh, p \in Phones :
            /\ BeginIn(t, "create", "exists",
                       [id |-> i, of |-> a, phone |-> p, status |-> "active"], <<>>)
    \/ \E i \in Integrations :
        /\ rows[i] # NoRow
        /\ \/ \E p \in Phones :
                BeginIn(t, "update", "list", [NoWish EXCEPT !.id = i, !.phone = p], <<>>)
           \/ BeginIn(t, "connect", "get", [NoWish EXCEPT !.id = i, !.status = "connecting"], <<>>)
           \/ BeginIn(t, "poll", "get", [NoWish EXCEPT !.id = i, !.status = "connected"], <<>>)
           \/ BeginIn(t, "disconnect", "get", [NoWish EXCEPT !.id = i], <<>>)
           \/ BeginIn(t, "delete_integration", "row", [NoWish EXCEPT !.id = i], <<>>)
    \/ \E a \in Assistants : Exists(a) /\ \E op \in {"update_assistant", "delete_assistant"} :
            BeginIn(t, op, "get", [of |-> a], <<>>)

Lookup(pass) == [pass |-> pass, left |-> {}, valid |-> {}, orphans |-> {}]

Events == {"open", "close", "logout", "message"}

OutsideCalls(t) ==
    \/ \E p \in Phones, ev \in Events :
            BeginIn(t, "webhook", "find", [phone |-> p, event |-> ev], Lookup(1))
    \/ /\ \A o \in Tasks : call[o].op # "health"
       /\ BeginIn(t, "health", "scan", <<>>, {})

-----------------------------------------------------------------------------
(* create_integration *)

\* One integration of a channel and a provider for each assistant.
CheckExisting(t) ==
    /\ On(t, "create", "exists")
    /\ IF \E i \in Integrations : Listed(i) /\ rows[i].of = Arg(t).of
       THEN Finish(t) ELSE Goto(t, "unique")
    /\ UNCHANGED inVars

\* find_any_integration_by_phone meets a row of somebody else.
InTheWay(t, i) ==
    IF call[t].op = "create" THEN rows[i].of # Arg(t).of ELSE i # Arg(t).id

\* Where a call takes the number it asked for.
Taking(t) == IF call[t].op = "create" THEN "insert" ELSE "write"

\* The index returns its rows in no order; the first one is looked at.  A
\* lookup that fails, a row that cannot be read, or no row, lets the number be
\* taken.
CheckPhone(t) ==
    /\ \E op \in {"create", "update"} : On(t, op, "unique")
    /\ LET p == Arg(t).phone IN
        \/ Indexed(p) = {} /\ Goto(t, Taking(t)) /\ UNCHANGED claimed
        \/ \E i \in Indexed(p) :
            /\ claimed' = IF Listed(i) /\ i \notin stale THEN claimed ELSE claimed \cup {p}
            /\ IF ~Listed(i) \/ ~InTheWay(t, i) THEN Goto(t, Taking(t))
               ELSE IF rows[i].status = "disconnected" THEN Learn(t, "evict", Got(t) \o <<i>>)
               ELSE Finish(t)
        \/ Shrug(t, Taking(t), Got(t)) /\ claimed' = claimed \cup {p}
    /\ UNCHANGED <<inTables, stale, misread, used>>

\* A disconnected integration makes room, or is thought to.
Evict(t) ==
    /\ \E op \in {"create", "update"} : On(t, op, "evict")
    /\ \/ /\ rows' = [rows EXCEPT ![Got(t)[Len(Got(t))]] = NoRow]
          /\ Goto(t, Taking(t)) /\ UNCHANGED claimed
       \/ /\ Shrug(t, Taking(t), Got(t)) /\ UNCHANGED rows
          /\ claimed' = claimed \cup {Arg(t).phone}
    /\ UNCHANGED <<assistants, store, fails, stale, misread, used>>

InsertRow(t) ==
    /\ On(t, "create", "insert")
    /\ rows' = [rows EXCEPT ![Arg(t).id] =
            [is |-> "whole", of |-> Arg(t).of, phone |-> Arg(t).phone, fp |-> "none",
             status |-> "active"]]
    /\ Learn(t, "fp", <<Arg(t).phone>>)
    /\ UNCHANGED <<assistants, store, fails, inHistory>>

-----------------------------------------------------------------------------
(* connect, the poll of the connection page, and disconnect read the row   *)
(* first; all changes of it go through update_integration                  *)

GetRow(t) ==
    /\ \E op \in {"connect", "poll", "disconnect"} : On(t, op, "get")
    /\ LET i == Arg(t).id IN
        IF ~Listed(i) THEN Finish(t)
        ELSE CASE call[t].op = "connect" -> Goto(t, "post")
               [] call[t].op = "poll" ->
                    IF store[rows[i].phone] = "connected" /\ rows[i].status # "connected"
                    THEN Goto(t, "list") ELSE Finish(t)
               [] OTHER -> Learn(t, "unlink", rows[i].phone)
    /\ UNCHANGED inVars

\* The provider is asked for a link, and may refuse.
PostConnect(t) ==
    /\ On(t, "connect", "post")
    /\ Goto(t, "list") \/ Finish(t)
    /\ UNCHANGED inVars

Unlink(t) ==
    /\ On(t, "disconnect", "unlink")
    /\ store' = [store EXCEPT ![Got(t)] = "none"]
    /\ Goto(t, "row")
    /\ UNCHANGED <<assistants, rows, fails, inHistory>>

DeleteRow(t) ==
    /\ \E op \in {"disconnect", "delete_integration"} : On(t, op, "row")
    /\ rows' = [rows EXCEPT ![Arg(t).id] = NoRow]
    /\ Finish(t)
    /\ UNCHANGED <<assistants, store, fails, inHistory>>

Wish(t) == IF call[t].op = "webhook"
           THEN [id |-> (CHOOSE v \in Got(t).valid : TRUE).id, phone |-> "same",
                 status |-> IF Arg(t).event = "open" THEN "connected" ELSE "disconnected"]
           ELSE Arg(t)

\* update_integration: what is not asked for is kept as it was read.  Got is
\* what it will write, then the number to write a fingerprint of.
ListRow(t) ==
    /\ \E op \in {"update", "connect", "poll", "webhook"} : On(t, op, "list")
    /\ LET w == Wish(t)  r == rows[w.id] IN
        IF ~Listed(w.id) THEN Finish(t)
        ELSE Learn(t, IF w.phone \notin {"same", r.phone} THEN "unique" ELSE "write",
                <<w.id,
                  [r EXCEPT !.phone = IF w.phone = "same" THEN @ ELSE w.phone,
                            !.status = IF w.status = "same" THEN @ ELSE w.status]>>)
    /\ UNCHANGED inVars

UpdateRow(t) ==
    /\ \E op \in {"update", "connect", "poll", "webhook"} : On(t, op, "write")
    /\ LET i == Got(t)[1]  new == Got(t)[2] IN
        /\ rows' = [rows EXCEPT ![i] = IF rows[i].is = "none"
                THEN [new EXCEPT !.is = "bare", !.fp = "none"]
                ELSE [new EXCEPT !.is = rows[i].is, !.fp = rows[i].fp]]
        /\ Learn(t, "fp", <<new.phone, i, new.of>>)
    /\ UNCHANGED <<assistants, store, fails, inHistory>>

\* Mutant of WriteFp: only a new row gets its fingerprint.
WriteFpOnce(t) ==
    /\ \E op \in {"create", "update", "connect", "poll", "webhook"} :
        /\ On(t, op, "fp")
        /\ rows' = IF op = "create" THEN [rows EXCEPT ![Arg(t).id].fp = Got(t)[1]] ELSE rows
    /\ Finish(t)
    /\ UNCHANGED <<assistants, store, fails, inHistory>>

WriteFp(t) ==
    /\ \E op \in {"create", "update", "connect", "poll", "webhook"} : On(t, op, "fp")
    /\ LET i == IF call[t].op = "create" THEN Arg(t).id ELSE Got(t)[2] IN
        rows' = [rows EXCEPT ![i] = IF @.is = "none"
                    THEN [NoRow EXCEPT !.is = "bare", !.fp = Got(t)[1]]
                    ELSE [@ EXCEPT !.fp = Got(t)[1]]]
    /\ Finish(t)
    /\ UNCHANGED <<assistants, store, fails, inHistory>>

-----------------------------------------------------------------------------
(* A webhook of the provider: find_integration_by_phone, the event, and for *)
(* a link that opened or was logged out find_integration_by_phone again.    *)

AfterLookup(t, valid) ==
    IF Got(t).pass = 1 THEN
        IF Arg(t).event = "message" THEN Finish(t)
        ELSE Learn(t, "event", [Got(t) EXCEPT !.valid = valid])
    ELSE IF \E v \in valid :
                v.status # (IF Arg(t).event = "open" THEN "connected" ELSE "disconnected")
         THEN Learn(t, "list", [Got(t) EXCEPT !.valid = valid])
         ELSE Finish(t)

\* One row that cannot be read fails the lookup.
Find(t) ==
    /\ On(t, "webhook", "find")
    /\ LET found == Indexed(Arg(t).phone) IN
        IF \E i \in found : ~Listed(i) THEN AfterLookup(t, {})
        ELSE Learn(t, "check", [Got(t) EXCEPT
                !.left = {[id |-> i, of |-> rows[i].of, status |-> rows[i].status] :
                            i \in {j \in found : rows[j].status # "disconnected"}}])
    /\ UNCHANGED inVars

\* An assistant that is not found, or that could not be read, leaves an orphan.
\* Of the others the first is the one.
CheckAssistant(t) ==
    /\ On(t, "webhook", "check")
    /\ \E r \in Got(t).left :
        LET g == [Got(t) EXCEPT !.left = @ \ {r}] IN
        \/ /\ Exists(r.of) /\ UNCHANGED misread
           /\ Learn(t, "check", [g EXCEPT !.valid = IF @ = {} THEN {r} ELSE @])
        \/ /\ ~Exists(r.of) /\ UNCHANGED misread
           /\ Learn(t, "check", [g EXCEPT !.orphans = @ \cup {r.id}])
        \/ /\ Shrug(t, "check", [g EXCEPT !.orphans = @ \cup {r.id}])
           /\ misread' = TRUE
    /\ UNCHANGED <<inTables, claimed, stale, used>>

\* Mutant of CleanOrphan: what is not the one is cleaned up.
CleanOrphanOrOther(t) ==
    /\ On(t, "webhook", "check") /\ Got(t).left = {}
    /\ LET away == Indexed(Arg(t).phone) \ {v.id : v \in Got(t).valid} IN
        \/ \E i \in away : rows' = [rows EXCEPT ![i] = NoRow]
                /\ Learn(t, "check", [Got(t) EXCEPT !.orphans = @ \cup {i}])
        \/ away = {} /\ AfterLookup(t, Got(t).valid) /\ UNCHANGED rows
    /\ UNCHANGED <<assistants, store, fails, inHistory>>

CleanOrphan(t) ==
    /\ On(t, "webhook", "check") /\ Got(t).left = {}
    /\ \/ \E i \in Got(t).orphans :
            LET rest == [Got(t) EXCEPT !.orphans = @ \ {i}] IN
            \/ rows' = [rows EXCEPT ![i] = NoRow] /\ Learn(t, "check", rest)
            \/ Shrug(t, "check", rest) /\ UNCHANGED rows
       \/ Got(t).orphans = {} /\ AfterLookup(t, Got(t).valid) /\ UNCHANGED rows
    /\ UNCHANGED <<assistants, store, fails, inHistory>>

\* The event is kept whether or not there is an integration.
KeepEvent(t) ==
    /\ On(t, "webhook", "event")
    /\ store' = [store EXCEPT ![Arg(t).phone] =
            CASE Arg(t).event = "open" -> "connected"
              [] Arg(t).event = "logout" -> "none"
              [] OTHER -> "reconnecting"]
    /\ IF Arg(t).event = "close" THEN Finish(t) ELSE Learn(t, "find", Lookup(2))
    /\ UNCHANGED <<assistants, rows, fails, inHistory>>

-----------------------------------------------------------------------------
(* The health check: the connected integrations, one probe each *)

Scan(t) ==
    /\ On(t, "health", "scan")
    /\ Learn(t, "probe", {i \in Integrations : rows[i].status = "connected"})
    /\ UNCHANGED inVars

Probe(t) ==
    /\ On(t, "health", "probe")
    /\ \/ Got(t) = {} /\ Finish(t) /\ UNCHANGED fails
       \/ \E i \in Got(t) :
            \/ fails' = [fails EXCEPT ![i] = 0] /\ Learn(t, "probe", Got(t) \ {i})
            \/ IF fails[i] + 1 >= FailLimit
               THEN fails' = [fails EXCEPT ![i] = 0] /\ Learn(t, "down", <<i, Got(t) \ {i}>>)
               ELSE fails' = [fails EXCEPT ![i] = @ + 1] /\ Learn(t, "probe", Got(t) \ {i})
    /\ UNCHANGED <<assistants, rows, store, inHistory>>

MarkDown(t) ==
    /\ On(t, "health", "down")
    /\ rows' = [rows EXCEPT ![Got(t)[1]] = IF @.is = "none"
                    THEN [NoRow EXCEPT !.is = "bare", !.status = "disconnected"]
                    ELSE [@ EXCEPT !.status = "disconnected"]]
    /\ Learn(t, "probe", Got(t)[2])
    /\ UNCHANGED <<assistants, store, fails, inHistory>>

-----------------------------------------------------------------------------
(* update_assistant and delete_assistant; what else hangs on an assistant   *)
(* is deleted between its integrations and the assistant itself.            *)

GetAssistant(t) ==
    /\ \E op \in {"update_assistant", "delete_assistant"} : On(t, op, "get")
    /\ IF Exists(Arg(t).of) THEN Goto(t, IF call[t].op = "update_assistant" THEN "row" ELSE "rows")
       ELSE Finish(t)
    /\ UNCHANGED inVars

DeleteRows(t) ==
    /\ On(t, "delete_assistant", "rows")
    /\ rows' = [i \in Integrations |-> IF rows[i].of = Arg(t).of THEN NoRow ELSE rows[i]]
    /\ Goto(t, "row")
    /\ UNCHANGED <<assistants, store, fails, inHistory>>

WriteAssistant(t) ==
    /\ \E op \in {"update_assistant", "delete_assistant"} :
        /\ On(t, op, "row")
        /\ assistants' = [assistants EXCEPT ![Arg(t).of] =
                IF op = "delete_assistant" THEN "none" ELSE IF @ = "none" THEN "bare" ELSE @]
    /\ Finish(t)
    /\ UNCHANGED <<rows, store, fails, inHistory>>

DropIn(t) ==
    /\ Drop(t)
    /\ stale' = stale \cup (IF call[t].at = "fp" THEN Writes(call[t]) ELSE {})
    /\ UNCHANGED <<inTables, claimed, misread, used>>

IntegrationsStep(t) ==
    \/ OwnerCalls(t) \/ OutsideCalls(t)
    \/ CheckExisting(t) \/ CheckPhone(t) \/ Evict(t) \/ InsertRow(t)
    \/ GetRow(t) \/ PostConnect(t) \/ Unlink(t) \/ DeleteRow(t)
    \/ ListRow(t) \/ UpdateRow(t) \/ WriteFp(t)
    \/ Find(t) \/ CheckAssistant(t) \/ CleanOrphan(t) \/ KeepEvent(t)
    \/ Scan(t) \/ Probe(t) \/ MarkDown(t)
    \/ GetAssistant(t) \/ DeleteRows(t) \/ WriteAssistant(t) \/ DropIn(t)

-----------------------------------------------------------------------------
(* One number, one integration; found as long as it is there. *)

Written(i) == \A t \in Tasks : i \in Writes(call[t]) => call[t].at # "fp"

\* A number answers for one integration: two listed ones never hold the same
\* number, unless two calls took it at once, or one took it in spite of a
\* failed call to the database (claimed), or the fingerprint that shows it is
\* taken was lost or is that of another call (stale).
NumberHasOneOwner ==
    \A i, j \in Integrations :
        i # j /\ Listed(i) /\ Listed(j) /\ rows[i].phone = rows[j].phone
            => rows[i].phone \in claimed \/ i \in stale \/ j \in stale

\* A listed integration is in the index under its own number, and nowhere
\* else, once the call that wrote it has ended.
FoundByNumber ==
    \A i \in Integrations :
        Listed(i) /\ i \notin stale /\ Written(i) => rows[i].fp = rows[i].phone

\* The lookup of a webhook deletes integrations of deleted assistants only,
\* unless reading an assistant has failed.
OnlyOrphansCleaned ==
    [][\A t \in Tasks, i \in Integrations :
        On(t, "webhook", "check") /\ call'[t] # call[t] /\ Listed(i) /\ ~(rows'[i].is = "whole")
            => ~Exists(rows[i].of) \/ misread]_<<rows, call>>

\* A number leads to the one integration that has it (create_integration,
\* update_integration, find_integration_by_phone).
NumbersResolve == NumberHasOneOwner /\ FoundByNumber
=============================================================================
