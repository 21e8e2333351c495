------------------------------ MODULE Sharing ------------------------------
(***************************************************************************)
(* The tokens that open one assistant to other workspaces, and the shares  *)
(* those have accepted.  A token is the assistant's share token, one at a  *)
(* time, or a row of access_tokens.  An accepted share is written twice:   *)
(* in accepted_shares, one row per user, for its list of assistants, and   *)
(* in accepted_shares_by_assistant, one row per acceptance, for the        *)
(* owner's list of token users.                                            *)
(*                                                                         *)
(* What a token permits is left out, and so is the owner's own acceptance, *)
(* which reads and writes nothing.  Writes to a deleted assistant or token *)
(* leave a row without a name, which no query of the code can decode.      *)
(***************************************************************************)
EXTENDS Tasks

CONSTANT TokenLimit     \* bound: tokens the owner generates

ASSUME SharingAssumption == TokenLimit \in Nat

VARIABLES
    alive,      \* is the assistant in assistants?
    minted,     \* tokens generated so far; they are numbered
    share,      \* assistants.share_token, 0 when there is none
    access,     \* the row of each token in access_tokens
    mine,       \* accepted_shares of each user
    guests,     \* accepted_shares_by_assistant
    clock,      \* the latest accepted_at
    ended,      \* history: tokens withdrawn, or replaced, or left behind
    served,     \* history: tokens that opened the assistant when asked after that
    twice,      \* history: users who accepted what they had accepted
    muddled     \* history: users whose calls overlapped others or were dropped

shHistory == <<ended, served, twice, muddled>>
shVars    == <<alive, minted, share, access, mine, guests, clock, shHistory>>

Tokens  == 1..TokenLimit
NoShare == [token |-> 0, at |-> 0]
GuestRow(u, s) == [user |-> u, token |-> s.token, at |-> s.at]
RowsOf(u) == {g \in guests : g.user = u}

SharingInit ==
    /\ alive = TRUE /\ minted = 0 /\ share = 0
    /\ access = [k \in Tokens |-> "none"]
    /\ mine = [u \in Users |-> NoShare] /\ guests = {} /\ clock = 0
    /\ ended = {} /\ served = {} /\ twice = {} /\ muddled = {}

\* A write for u: from here on its two tables may differ if others run.
Mark(us) == muddled' = IF crowded THEN muddled \cup us ELSE muddled

-----------------------------------------------------------------------------
(* The owner's handlers read the assistant first. *)

OwnerBegins(t) ==
    /\ \/ \E op \in {"create_share_token", "create_token"} :
            minted < TokenLimit /\ Begin(t, op, "get", 0)
       \/ \E op \in {"revoke_share_token", "delete_assistant"} : Begin(t, op, "get", 0)
       \/ \E op \in {"revoke_token", "delete_token"}, k \in Tokens :
            access[k] # "none" /\ Begin(t, op, "get", k)
    /\ UNCHANGED shVars

OwnerOps == {"create_share_token", "revoke_share_token", "create_token", "revoke_token",
             "delete_token", "delete_assistant"}

OwnerReads(t) ==
    /\ \E op \in OwnerOps :
        /\ On(t, op, "get")
        /\ IF alive THEN Goto(t, "write") ELSE Finish(t)
    /\ UNCHANGED shVars

Mints == minted < TokenLimit /\ minted' = minted + 1

SetShareToken(t) ==
    /\ \/ On(t, "create_share_token", "write") /\ Mints /\ share' = minted'
       \/ On(t, "revoke_share_token", "write") /\ share' = 0 /\ UNCHANGED minted
    /\ ended' = IF share = 0 THEN ended ELSE ended \cup {share}
    /\ Finish(t)
    /\ UNCHANGED <<alive, access, mine, guests, clock, served, twice, muddled>>

CreateToken(t) ==
    /\ On(t, "create_token", "write")
    /\ Mints /\ access' = [access EXCEPT ![minted'] = "live"]
    /\ Finish(t)
    /\ UNCHANGED <<alive, share, mine, guests, clock, shHistory>>

\* revoke_token is an UPDATE: of a deleted row it makes no token.
WithdrawToken(t) ==
    /\ \/ /\ On(t, "revoke_token", "write")
          /\ access' = [access EXCEPT ![Arg(t)] = IF @ = "none" THEN @ ELSE "revoked"]
       \/ On(t, "delete_token", "write") /\ access' = [access EXCEPT ![Arg(t)] = "none"]
    /\ ended' = ended \cup {Arg(t)}
    /\ Finish(t)
    /\ UNCHANGED <<alive, minted, share, mine, guests, clock, served, twice, muddled>>

\* delete_assistant: the tables of this module, in its order.
DeleteTokens(t) ==
    /\ On(t, "delete_assistant", "write")
    /\ access' = [k \in Tokens |-> "none"]
    /\ Goto(t, "guests")
    /\ UNCHANGED <<alive, minted, share, mine, guests, clock, shHistory>>

DeleteGuests(t) ==
    /\ On(t, "delete_assistant", "guests")
    /\ guests' = {}
    /\ Mark(Users)
    /\ Goto(t, "row")
    /\ UNCHANGED <<alive, minted, share, access, mine, clock, ended, served, twice>>

DeleteAssistant(t) ==
    /\ On(t, "delete_assistant", "row")
    /\ alive' = FALSE /\ share' = 0
    /\ ended' = ended \cup 1..minted
    /\ Finish(t)
    /\ UNCHANGED <<minted, access, mine, guests, clock, served, twice, muddled>>

-----------------------------------------------------------------------------
(* get_shared_assistant and accept_share: both resolve a token first, by   *)
(* get_by_any_token; the one that only looks has then finished.            *)

TokenCalls(t) ==
    /\ \E u \in Users :
        \/ \E op \in {"get_shared_assistant", "accept_share"}, k \in 1..minted :
            Begin(t, op, "share", [user |-> u, token |-> k, late |-> k \in ended])
        \/ Begin(t, "remove_accepted_share", "get", [user |-> u, token |-> 0, late |-> FALSE])
    /\ UNCHANGED shVars

TokenOps == {"get_shared_assistant", "accept_share"}

\* The token has opened the assistant for task t.
Opens(t) ==
    /\ served' = IF Arg(t).late THEN served \cup {Arg(t).token} ELSE served
    /\ IF call[t].op = "accept_share" THEN Goto(t, "mine") ELSE Finish(t)
    /\ UNCHANGED <<alive, minted, share, access, mine, guests, clock, ended, twice, muddled>>

TryShareToken(t) ==
    /\ \E op \in TokenOps : On(t, op, "share")
    /\ IF alive /\ share = Arg(t).token
       THEN Opens(t)
       ELSE Goto(t, "access") /\ UNCHANGED shVars

\* Mutant of TryAccessToken: is_revoked is not read.
TryAnyToken(t) ==
    /\ \E op \in TokenOps : On(t, op, "access")
    /\ IF access[Arg(t).token] # "none" THEN Goto(t, "assistant") ELSE Finish(t)
    /\ UNCHANGED shVars

TryAccessToken(t) ==
    /\ \E op \in TokenOps : On(t, op, "access")
    /\ IF access[Arg(t).token] = "live" THEN Goto(t, "assistant") ELSE Finish(t)
    /\ UNCHANGED shVars

ReadAssistant(t) ==
    /\ \E op \in TokenOps : On(t, op, "assistant")
    /\ IF alive THEN Opens(t) ELSE Finish(t) /\ UNCHANGED shVars

WriteMine(t) ==
    /\ On(t, "accept_share", "mine")
    /\ LET u == Arg(t).user IN
        /\ clock' = clock + 1
        /\ mine' = [mine EXCEPT ![u] = [token |-> Arg(t).token, at |-> clock']]
        /\ twice' = IF mine[u] = NoShare THEN twice ELSE twice \cup {u}
        /\ Mark({u})
        /\ Learn(t, "guest", mine'[u])
    /\ UNCHANGED <<alive, minted, share, access, guests, ended, served>>

WriteGuest(t) ==
    /\ On(t, "accept_share", "guest")
    /\ guests' = guests \cup {GuestRow(Arg(t).user, Got(t))}
    /\ Mark({Arg(t).user})
    /\ Finish(t)
    /\ UNCHANGED <<alive, minted, share, access, mine, clock, ended, served, twice>>

-----------------------------------------------------------------------------
(* remove_accepted_share: the time of the acceptance is in the key of the  *)
(* second row.  That its deletion failed is not told: see Drops.           *)

ReadMine(t) ==
    /\ On(t, "remove_accepted_share", "get")
    /\ Learn(t, "mine", mine[Arg(t).user])
    /\ UNCHANGED shVars

RemoveMine(t) ==
    /\ On(t, "remove_accepted_share", "mine")
    /\ mine' = [mine EXCEPT ![Arg(t).user] = NoShare]
    /\ Mark({Arg(t).user})
    /\ IF Got(t) = NoShare THEN Finish(t) ELSE Goto(t, "guest")
    /\ UNCHANGED <<alive, minted, share, access, guests, clock, ended, served, twice>>

RemoveGuest(t) ==
    /\ On(t, "remove_accepted_share", "guest")
    /\ guests' = guests \ {GuestRow(Arg(t).user, Got(t))}
    /\ Mark({Arg(t).user})
    /\ Finish(t)
    /\ UNCHANGED <<alive, minted, share, access, mine, clock, ended, served, twice>>

Drops(t) ==
    /\ Drop(t)
    /\ muddled' = muddled \cup (IF call[t].at \in {"guest", "row"}
                                THEN IF call[t].op = "delete_assistant" THEN Users
                                                                        ELSE {Arg(t).user}
                                ELSE {})
    /\ UNCHANGED <<alive, minted, share, access, mine, guests, clock, ended, served, twice>>

SharingStep(t) ==
    \/ OwnerBegins(t) \/ OwnerReads(t) \/ SetShareToken(t) \/ CreateToken(t)
    \/ WithdrawToken(t) \/ DeleteTokens(t) \/ DeleteGuests(t) \/ DeleteAssistant(t)
    \/ TokenCalls(t) \/ TryShareToken(t) \/ TryAccessToken(t) \/ ReadAssistant(t)
    \/ WriteMine(t) \/ WriteGuest(t)
    \/ ReadMine(t) \/ RemoveMine(t) \/ RemoveGuest(t) \/ Drops(t)

-----------------------------------------------------------------------------

\* A token that was revoked, deleted or replaced, or whose assistant was
\* deleted, opens the assistant to nobody who asks afterwards, whatever the
\* owner's other calls write meanwhile (get_by_any_token).
EndedTokensOpenNothing == served = {}

\* What a user lists is what the owner lists of that user, when its calls
\* were not cut off and nothing ran beside them: an accepted share of a living
\* assistant has its row, and there is no other row unless the user accepted
\* again what it had accepted (accept_share, remove_accepted_share,
\* delete_assistant).
NobodyRuns == \A t \in Tasks : ~Running(t)

AcceptedIsSeen(u)  == alive /\ mine[u] # NoShare => GuestRow(u, mine[u]) \in guests
NothingElseSeen(u) == u \notin twice => RowsOf(u) \subseteq {GuestRow(u, mine[u])}

ShareListsAgree ==
    \A u \in Users \ muddled : NobodyRuns => AcceptedIsSeen(u) /\ NothingElseSeen(u)

\* Both at once: who may come in, and who is seen to have come in.
SharesHold == EndedTokensOpenNothing /\ ShareListsAgree
=============================================================================
