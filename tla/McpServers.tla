----------------------------- MODULE McpServers -----------------------------
(***************************************************************************)
(* The MCP servers of a workspace, the links of an assistant to them, and  *)
(* the list of tools that is kept on the row of each server for ten        *)
(* minutes.  A setting is changed by reading the row and writing it back   *)
(* whole, the kept list with it; a turn and a refresh write the kept list  *)
(* and the error, each by an UPDATE of its own, which makes a row out of   *)
(* defaults (a ghost) when the server has been deleted meanwhile.          *)
(*                                                                         *)
(* A list of tools is known by the address and the credential it was       *)
(* fetched with.  Encryption, the transport and the validation of the      *)
(* address are left out, and so is the call of a tool, which reads the row *)
(* again and writes nothing.                                               *)
(***************************************************************************)
EXTENDS Tasks

CONSTANTS
    Servers,    \* ids; one is used once
    Names,      \* what slugify makes of the names given
    Urls, Credentials

ASSUME McpAssumption ==
    /\ Servers # {} /\ IsFiniteSet(Servers) /\ "none" \notin Servers
    /\ "none" \notin Credentials /\ "same" \notin Names \cup Urls \cup Credentials

VARIABLES
    server,     \* rows of mcp_servers
    linked,     \* assistant_mcp_servers of the assistant
    fetched,    \* history: did the last fetch from each server fail?
    asked_for,  \* history: the address and the credential each was last given
    removed,    \* history: deleted servers
    entangled   \* history: what overlapping or dropped calls have written

mcTables == <<server, linked>>
mcVars   == <<server, linked, fetched, asked_for, removed, entangled>>

NoServer == [is |-> "none", slug |-> <<"", 0>>, url |-> "", cred |-> "none",
             kept |-> <<>>, fresh |-> FALSE, error |-> FALSE]
Ghost    == [NoServer EXCEPT !.is = "ghost"]

Exists(s) == server[s].is # "none"
Tools(r)  == <<r.url, r.cred>>

\* An UPDATE of some columns: of no row it makes one.
Writing(s, row) == server' = [server EXCEPT ![s] = row]
Column(s) == IF Exists(s) THEN server[s] ELSE Ghost

\* unique_slug: the first of base, base_2, base_3, ... no other server has.
FreeSlug(base, but) ==
    LET taken == {server[s].slug : s \in {x \in Servers \ {but} : Exists(x)}}
        free  == {n \in 1..(Cardinality(Servers) + 1) : <<base, n>> \notin taken} IN
    <<base, CHOOSE n \in free : \A m \in free : n <= m>>

\* No server; or one, linked or not, with its tools kept or an error.
McpInit ==
    /\ LET s == CHOOSE x \in Servers : TRUE
           u == CHOOSE x \in Urls : TRUE
           k == CHOOSE x \in Credentials : TRUE
           row == [NoServer EXCEPT !.is = "whole", !.slug = <<CHOOSE n \in Names : TRUE, 1>>,
                                   !.url = u, !.cred = k] IN
        /\ server \in {[x \in Servers |-> IF x = s THEN r ELSE NoServer] :
                r \in {NoServer, [row EXCEPT !.error = TRUE], [row EXCEPT !.kept = <<u, k>>, !.fresh = TRUE]}}
        /\ linked \in IF Exists(s) THEN {{}, {s}} ELSE {{}}
    /\ fetched = [s \in Servers |-> server[s].error]
    /\ asked_for = [s \in Servers |-> Tools(server[s])]
    /\ removed = {} /\ entangled = {}

\* What a call may write.
McpWrites(c) ==
    CASE c.op = "create" -> {"slugs"}
      [] c.op = "update" -> {c.arg.id} \cup IF c.arg.name = "same" THEN {} ELSE {"slugs"}
      [] c.op = "turn"   -> Servers
      [] c.op \in {"delete", "link", "refresh"} -> {c.arg.id}
      [] OTHER           -> {}

McpCalls(t) ==
    /\ \/ \E n \in Names, u \in Urls, k \in Credentials \cup {"none"} :
            Begin(t, "create", "list", [name |-> n, url |-> u, cred |-> k])
       \/ \E s \in Servers :
            \/ \E c \in [name : Names, url : {"same"}, cred : {"same"}]
                        \cup [name : {"same"}, url : Urls, cred : {"same"}]
                        \cup [name : {"same"}, url : {"same"}, cred : Credentials \cup {"none"}] :
                    Begin(t, "update", "get", [id |-> s, name |-> c.name, url |-> c.url, cred |-> c.cred])
            \/ \E op \in {"delete", "unlink"} : Begin(t, op, "links", [id |-> s])
            \/ \E op \in {"link", "refresh"} : Begin(t, op, "get", [id |-> s])
       \/ Begin(t, "turn", "links", <<>>)
    /\ entangled' = entangled \cup
            (McpWrites(call'[t]) \cap UNION {McpWrites(call[o]) : o \in Others(t)})
    /\ UNCHANGED <<mcTables, fetched, asked_for, removed>>

-----------------------------------------------------------------------------
(* create, update and delete *)

ListSlugs(t) ==
    /\ On(t, "create", "list")
    /\ Learn(t, "insert", FreeSlug(Arg(t).name, "none"))
    /\ UNCHANGED mcVars

InsertServer(t) ==
    /\ On(t, "create", "insert")
    /\ \E s \in Servers \ removed :
        /\ ~Exists(s)
        /\ Writing(s, [NoServer EXCEPT !.is = "whole", !.slug = Got(t), !.url = Arg(t).url, !.cred = Arg(t).cred])
        /\ asked_for' = [asked_for EXCEPT ![s] = <<Arg(t).url, Arg(t).cred>>]
    /\ Finish(t)
    /\ UNCHANGED <<linked, fetched, removed, entangled>>

\* Mutant of Changed: a new credential leaves the kept list.
ChangedOnly(row, c) ==
    [row EXCEPT !.url = IF c.url = "same" THEN @ ELSE c.url, !.cred = IF c.cred = "same" THEN @ ELSE c.cred]

\* The row as it is written back, but for its slug: only a new credential
\* clears the kept list.
Changed(row, c) ==
    [row EXCEPT !.url   = IF c.url = "same" THEN @ ELSE c.url,
                !.cred  = IF c.cred = "same" THEN @ ELSE c.cred,
                !.kept  = IF c.cred = "same" THEN @ ELSE <<>>,
                !.fresh = @ /\ c.cred = "same"]

GetToUpdate(t) ==
    /\ On(t, "update", "get")
    /\ IF ~Exists(Arg(t).id) THEN Finish(t)
       ELSE Learn(t, IF Arg(t).name = "same" \/ server[Arg(t).id].slug = <<Arg(t).name, 1>>
                     THEN "write" ELSE "slug", Changed(server[Arg(t).id], Arg(t)))
    /\ UNCHANGED mcVars

NewSlug(t) ==
    /\ On(t, "update", "slug")
    /\ Learn(t, "write", [Got(t) EXCEPT !.slug = FreeSlug(Arg(t).name, Arg(t).id)])
    /\ UNCHANGED mcVars

\* Every column of the row as it was read, but for the error.
UpdateServer(t) ==
    /\ On(t, "update", "write")
    /\ LET s == Arg(t).id IN
        /\ Writing(s, [Got(t) EXCEPT !.is = Column(s).is, !.error = Column(s).error])
        /\ asked_for' = [asked_for EXCEPT ![s] =
                <<IF Arg(t).url = "same" THEN @[1] ELSE Arg(t).url, IF Arg(t).cred = "same" THEN @[2] ELSE Arg(t).cred>>]
    /\ Finish(t)
    /\ UNCHANGED <<linked, fetched, removed, entangled>>

FindLinks(t) ==
    /\ On(t, "delete", "links")
    /\ Goto(t, IF Arg(t).id \in linked THEN "unlink" ELSE "row")
    /\ UNCHANGED mcVars

\* Its error is not heeded.
DeleteLink(t) ==
    /\ On(t, "delete", "unlink")
    /\ \/ linked' = linked \ {Arg(t).id} /\ Goto(t, "row") /\ UNCHANGED entangled
       \/ /\ drops > 0 /\ drops' = drops - 1
          /\ call' = [call EXCEPT ![t].at = "row"] /\ UNCHANGED <<calls, crowded, linked>>
          /\ entangled' = entangled \cup {Arg(t).id}
    /\ UNCHANGED <<server, fetched, asked_for, removed>>

DeleteServer(t) ==
    /\ On(t, "delete", "row")
    /\ Writing(Arg(t).id, NoServer)
    /\ removed' = removed \cup {Arg(t).id}
    /\ Finish(t)
    /\ UNCHANGED <<linked, fetched, asked_for, entangled>>

-----------------------------------------------------------------------------
(* link and unlink *)

GetToLink(t) ==
    /\ On(t, "link", "get")
    /\ IF Exists(Arg(t).id) THEN Goto(t, "insert") ELSE Finish(t)
    /\ UNCHANGED mcVars

Link(t) ==
    /\ \/ On(t, "link", "insert") /\ linked' = linked \cup {Arg(t).id}
       \/ On(t, "unlink", "links") /\ linked' = linked \ {Arg(t).id}
    /\ Finish(t)
    /\ UNCHANGED <<server, fetched, asked_for, removed, entangled>>

-----------------------------------------------------------------------------
(* ensure_tools_cached: for one server by refresh_tools, which treats the  *)
(* kept list as stale, and for those that are linked by a turn.            *)

\* Got is a server, its row, the links that are left, and the servers read.
At(s, row, todo, rows) == [id |-> s, row |-> row, todo |-> todo, rows |-> rows]

GetToRefresh(t) ==
    /\ On(t, "refresh", "get")
    /\ IF Exists(Arg(t).id)
       THEN Learn(t, "fetch", At(Arg(t).id, server[Arg(t).id], {}, {})) ELSE Finish(t)
    /\ UNCHANGED mcVars

ReadLinks(t) ==
    /\ On(t, "turn", "links")
    /\ Learn(t, "get", At("none", NoServer, linked, {}))
    /\ UNCHANGED mcVars

\* All of them are read before the first is asked.
GetLinked(t) ==
    /\ On(t, "turn", "get")
    /\ IF Got(t).todo = {} THEN Goto(t, "next")
       ELSE \E s \in Got(t).todo :
                Learn(t, "get", At("none", NoServer, Got(t).todo \ {s},
                    IF Exists(s) THEN Got(t).rows \cup {[id |-> s, row |-> server[s]]} ELSE Got(t).rows))
    /\ UNCHANGED mcVars

NextServer(t) ==
    /\ On(t, "turn", "next")
    /\ LET stale == {r \in Got(t).rows : ~r.row.fresh} IN
        IF stale = {} THEN Finish(t)
        ELSE \E r \in stale : Learn(t, "fetch", At(r.id, r.row, {}, Got(t).rows \ {r}))
    /\ UNCHANGED mcVars

Ensuring(t, at) == \E op \in {"refresh", "turn"} : On(t, op, at)
Ensured(t) == IF call[t].op = "turn" THEN Goto(t, "next") ELSE Finish(t)

Fetches(t) ==
    /\ Ensuring(t, "fetch")
    /\ \E well \in BOOLEAN :
        /\ Goto(t, IF well THEN "persist" ELSE "record")
        /\ fetched' = [fetched EXCEPT ![Got(t).id] = ~well]
    /\ UNCHANGED <<mcTables, asked_for, removed, entangled>>

Persist(t) ==
    /\ Ensuring(t, "persist")
    /\ LET s == Got(t).id IN
        Writing(s, [Column(s) EXCEPT !.kept = Tools(Got(t).row), !.fresh = TRUE])
    /\ Goto(t, "clear")
    /\ UNCHANGED <<linked, fetched, asked_for, removed, entangled>>

\* clear_error and record_error
WriteError(t) ==
    /\ \E at \in {"clear", "record"} :
        Ensuring(t, at) /\ Writing(Got(t).id, [Column(Got(t).id) EXCEPT !.error = at = "record"])
    /\ Ensured(t)
    /\ UNCHANGED <<linked, fetched, asked_for, removed, entangled>>

\* Errors of these writes are not heeded.
WriteFails(t) ==
    /\ \E at \in {"persist", "clear", "record"} : Ensuring(t, at)
    /\ drops > 0 /\ drops' = drops - 1
    /\ entangled' = entangled \cup {Got(t).id}
    /\ \/ call[t].at = "persist" /\ call' = [call EXCEPT ![t].at = "clear"] /\ UNCHANGED crowded
       \/ call[t].at # "persist" /\ call[t].op = "turn"
          /\ call' = [call EXCEPT ![t].at = "next"] /\ UNCHANGED crowded
       \/ call[t].at # "persist" /\ call[t].op = "refresh" /\ Leave(t)
    /\ UNCHANGED <<calls, mcTables, fetched, asked_for, removed>>

Expires ==
    /\ \E s \in Servers : server[s].fresh /\ Writing(s, [server[s] EXCEPT !.fresh = FALSE])
    /\ UNCHANGED <<linked, fetched, asked_for, removed, entangled, tasking>>

DropMcp(t) ==
    /\ Drop(t)
    /\ entangled' = entangled \cup IF \E at \in {"persist", "clear", "record"} : Ensuring(t, at)
                                   THEN {Got(t).id} ELSE {}
    /\ UNCHANGED <<mcTables, fetched, asked_for, removed>>

McpNext ==
    \/ Expires
    \/ \E t \in Tasks :
        \/ McpCalls(t) \/ ListSlugs(t) \/ InsertServer(t) \/ GetToUpdate(t) \/ NewSlug(t)
        \/ UpdateServer(t) \/ FindLinks(t) \/ DeleteLink(t) \/ DeleteServer(t)
        \/ GetToLink(t) \/ Link(t) \/ GetToRefresh(t) \/ ReadLinks(t) \/ GetLinked(t)
        \/ NextServer(t) \/ Fetches(t) \/ Persist(t) \/ WriteError(t) \/ WriteFails(t) \/ DropMcp(t)

-----------------------------------------------------------------------------

\* The tools of two servers never have the same prefix, unless two namings
\* overlapped (unique_slug, schemas_to_llm_tools).
PrefixesDiffer ==
    "slugs" \notin entangled =>
        \A s, r \in Servers \ entangled :
            s # r /\ Exists(s) /\ Exists(r) => server[s].slug # server[r].slug

\* A server keeps the address and the credential it was last given, whatever
\* has been written of its name, its tools and its errors (update).
SettingsKept == \A s \in Servers \ entangled : Exists(s) => Tools(server[s]) = asked_for[s]

\* A kept list was fetched with the credential the server has (the address
\* may be an earlier one: only a new credential clears the list).
KeptListIsOurs ==
    \A s \in Servers \ entangled : server[s].kept # <<>> => server[s].kept[2] = server[s].cred

Asked(s) == \E t \in Tasks : Ensuring(t, call[t].at) /\ Got(t) # <<>> /\ Got(t).id = s

\* The red badge of a server is there just if the last fetch failed
\* (record_error, clear_error).
BadgeIsTrue ==
    \A s \in Servers \ entangled : Exists(s) /\ ~Asked(s) => server[s].error = fetched[s]

\* Nothing is left of a deleted server, and no link leads to none (delete, link).
RemovedIsGone ==
    /\ \A s \in removed \ entangled : ~Exists(s)
    /\ \A s \in linked \ entangled : Exists(s)

\* A server is what its editors made it, and its kept list and its badge are
\* true (services/mcp/server.rs, cache.rs, client.rs).
McpHolds == PrefixesDiffer /\ SettingsKept /\ KeptListIsOurs /\ BadgeIsTrue /\ RemovedIsGone
=============================================================================
