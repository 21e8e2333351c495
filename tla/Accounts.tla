------------------------------ MODULE Accounts ------------------------------
(***************************************************************************)
(* The accounts of the users: registration, the password and its reset,    *)
(* the notification flags, the second factor, and deletion by the user or  *)
(* by an admin.  An account is one row of users, found by its e-mail in an *)
(* index that keeps nothing unique, and changed by UPDATEs: one that comes *)
(* after the deletion leaves a row without e-mail, password or dates (a    *)
(* ghost), which no query decodes.  A session outlives its account.        *)
(*                                                                         *)
(* Hashes, mails, pictures and the personal workspace are left out.        *)
(***************************************************************************)
EXTENDS Tasks

CONSTANTS
    Emails, Passwords,
    MaxAttempts,    \* VERIFY_2FA_MAX_ATTEMPTS
    TokenLimit,     \* bound: reset tokens
    CodeLimit       \* bound: codes of the second factor

ASSUME AccountsAssumption ==
    /\ TokenLimit \in Nat /\ CodeLimit \in Nat /\ MaxAttempts \in Nat /\ "none" \notin Passwords
    /\ Users # {} /\ Emails # {} /\ Passwords # {}

VARIABLES
    users,      \* rows of users
    second,     \* their columns of the second factor
    things,     \* what an account has: "assistant" rows, their "tools", and
                \* their "files", which stand for conversations and integrations
    reset_tokens,   \* each token: of a user, and "none" until it is sent
    attempts,   \* VERIFY_2FA_ATTEMPTS of each user, in memory
    sessions,   \* users who hold a session
    agreed,       \* history: the password each user was last agreed to have
    wished,     \* history: the notification flags each user asked for
    gone,       \* history: deleted accounts
    uses,       \* history: passwords set with each reset token
    guesses,    \* history: codes compared in the current window
    misused,    \* history: was a token or a code accepted that had ended before?
    tangled     \* history: what overlapping or dropped calls have written

acTables  == <<users, second, things, reset_tokens, attempts, sessions>>
acHistory == <<agreed, wished, gone, uses, guesses, misused, tangled>>
acVars    == <<acTables, acHistory>>

Tokens == 1..TokenLimit
Flags  == [email : BOOLEAN, system : BOOLEAN]
AllOn  == [email |-> TRUE, system |-> TRUE]
NoUser == [is |-> "none", email |-> "none", password |-> "none", flags |-> AllOn, blocked |-> FALSE]
NoCode == [code |-> 0, fresh |-> FALSE, on |-> FALSE]

Registered(u) == users[u].is = "whole"
WithEmail(e) == {u \in Users : Registered(u) /\ users[u].email = e}
Account(e, p) == [NoUser EXCEPT !.is = "whole", !.email = e, !.password = p]

\* An UPDATE of the columns in row.
Upsert(u, row) == users' = [users EXCEPT ![u] = IF @.is = "whole" THEN row ELSE [@ EXCEPT !.is = "ghost"]]

\* Nobody has registered, or one user has, with assistants or a reset token sent.
AccountsInit ==
    /\ sessions \in {{}, {CHOOSE u \in Users : TRUE}}
    /\ users = [u \in Users |-> IF u \in sessions
                    THEN Account(CHOOSE e \in Emails : TRUE, CHOOSE p \in Passwords : TRUE) ELSE NoUser]
    /\ \E has \in {{}, {"assistant", "tools", "files"}} :
            things = [u \in Users |-> IF u \in sessions THEN has ELSE {}]
    /\ \E sent \in {"none", "valid"} : reset_tokens = [k \in Tokens |->
            [of |-> CHOOSE u \in Users : TRUE, is |-> IF k = 1 /\ sessions # {} THEN sent ELSE "none"]]
    /\ second = [u \in Users |-> NoCode] /\ attempts = [u \in Users |-> 0]
    /\ agreed = [u \in Users |-> users[u].password] /\ wished = [u \in Users |-> AllOn]
    /\ gone = {} /\ uses = [k \in Tokens |-> 0] /\ guesses = [u \in Users |-> 0]
    /\ misused = FALSE /\ tangled = {}

\* What a call may write, by what it is about.
AcWrites(c) ==
    CASE c.op \in {"register", "create_user"} -> {<<"email", c.arg.email>>}
      [] c.op = "change_password"       -> {<<"password", c.arg.user>>}
      [] c.op = "reset_password"        -> {<<"token", c.arg.token>>, <<"password", c.arg.user>>}
      [] c.op = "set_flags"             -> {<<"flags", c.arg.user>>}
      [] c.op = "create_assistant"      -> {<<"things", c.arg.user>>}
      [] c.op \in {"delete_account", "delete_user"} -> {<<"things", c.arg.user>>}
      [] OTHER                          -> {}

BeginAc(t, op, at, arg) ==
    /\ Begin(t, op, at, arg)
    /\ tangled' = tangled \cup
            (AcWrites([op |-> op, arg |-> arg]) \cap UNION {AcWrites(call[o]) : o \in Others(t)})

\* An ignored error of a statement.
Failing == drops > 0 /\ drops' = drops - 1

-----------------------------------------------------------------------------
(* What begins.  The caller's session names the user; an admin names one. *)

GuestCalls(t) ==
    /\ \E e \in Emails :
        \/ \E op \in {"register", "create_user"}, p \in Passwords :
                BeginAc(t, op, "find", [email |-> e, password |-> p])
        \/ BeginAc(t, "forgot_password", "find", [email |-> e])
    /\ UNCHANGED <<acTables, agreed, wished, gone, uses, guesses, misused>>

\* A request with a token that was sent: late if it has ended.
ResetCalls(t) ==
    /\ \E k \in Tokens, p \in Passwords :
        /\ reset_tokens[k].is # "none"
        /\ BeginAc(t, "reset_password", "token", [token |-> k, user |-> reset_tokens[k].of,
                        password |-> p, late |-> reset_tokens[k].is # "valid"])
    /\ UNCHANGED <<acTables, agreed, wished, gone, uses, guesses, misused>>

SessionCalls(t) ==
    /\ \E u \in sessions :
        \/ \E p, q \in Passwords : BeginAc(t, "change_password", "verify", [user |-> u, old |-> p, new |-> q])
        \/ \E p \in Passwords : BeginAc(t, "delete_account", "verify", [user |-> u, password |-> p])
        \/ \E flag \in {"email", "system"}, b \in BOOLEAN :
                BeginAc(t, "set_flags", "read", [user |-> u, flag |-> flag, to |-> b])
        \/ \E op \in {"update_profile", "enable_2fa", "create_assistant"} :
                (op = "enable_2fa" => second[u].code < CodeLimit) /\ BeginAc(t, op, "write", [user |-> u])
    /\ UNCHANGED <<acTables, agreed, wished, gone, uses, guesses, misused>>

\* check_2fa_rate_limit counts before anything is read.
VerifyCalls(t) ==
    /\ \E u \in sessions, c \in 1..CodeLimit :
        /\ attempts[u] < MaxAttempts
        /\ attempts' = [attempts EXCEPT ![u] = @ + 1]
        /\ BeginAc(t, "verify_2fa", "read", [user |-> u, code |-> c, old |-> FALSE,
                        late |-> c < second[u].code \/ (c = second[u].code /\ ~second[u].fresh)])
    /\ UNCHANGED <<users, second, things, reset_tokens, sessions, agreed, wished, gone, uses, guesses, misused>>

AdminCalls(t) ==
    /\ \E u \in Users :
        \/ \E b \in BOOLEAN : BeginAc(t, "block_user", "check", [user |-> u, to |-> b])
        \/ BeginAc(t, "delete_user", "verify", [user |-> u])
    /\ UNCHANGED <<acTables, agreed, wished, gone, uses, guesses, misused>>

-----------------------------------------------------------------------------
(* register_user and create_user *)

FindEmail(t) ==
    /\ \E op \in {"register", "create_user"} : On(t, op, "find")
    /\ IF WithEmail(Arg(t).email) # {} THEN Finish(t) ELSE Goto(t, "insert")
    /\ UNCHANGED acVars

InsertUser(t) ==
    /\ \E op \in {"register", "create_user"} : On(t, op, "insert")
    /\ \E u \in Users \ (sessions \cup gone) :
        /\ users' = [users EXCEPT ![u] = Account(Arg(t).email, Arg(t).password)]
        /\ sessions' = sessions \cup {u}
        /\ agreed' = [agreed EXCEPT ![u] = Arg(t).password]
    /\ Finish(t)
    /\ UNCHANGED <<second, things, reset_tokens, attempts, wished, gone, uses, guesses, misused, tangled>>

-----------------------------------------------------------------------------
(* The password *)

VerifyPassword(t) ==
    /\ On(t, "change_password", "verify")
    /\ IF Registered(Arg(t).user) /\ users[Arg(t).user].password = Arg(t).old
       THEN Goto(t, "write") ELSE Finish(t)
    /\ UNCHANGED acVars

ChangePassword(t) ==
    /\ On(t, "change_password", "write")
    /\ Upsert(Arg(t).user, [users[Arg(t).user] EXCEPT !.password = Arg(t).new])
    /\ agreed' = [agreed EXCEPT ![Arg(t).user] = Arg(t).new]
    /\ Finish(t)
    /\ UNCHANGED <<second, things, reset_tokens, attempts, sessions, wished, gone, uses, guesses, misused, tangled>>

\* The first of the accounts with that e-mail; then the token is mailed.
FindForgotten(t) ==
    /\ On(t, "forgot_password", "find")
    /\ \/ WithEmail(Arg(t).email) = {} /\ Finish(t)
       \/ \E u \in WithEmail(Arg(t).email) : Learn(t, "save", u)
    /\ UNCHANGED acVars

SaveToken(t) ==
    /\ On(t, "forgot_password", "save")
    /\ \E k \in Tokens :
        /\ reset_tokens[k].is = "none" /\ \A j \in 1..(k - 1) : reset_tokens[j].is # "none"
        /\ reset_tokens' = [reset_tokens EXCEPT ![k] = [of |-> Got(t), is |-> "valid"]]
    /\ Finish(t)
    /\ UNCHANGED <<users, second, things, attempts, sessions, acHistory>>

\* After half an hour.
TokenExpires ==
    /\ \E k \in Tokens : reset_tokens[k].is = "valid"
            /\ reset_tokens' = [reset_tokens EXCEPT ![k].is = "expired"]
    /\ UNCHANGED <<users, second, things, attempts, sessions, acHistory, tasking>>

ReadToken(t) ==
    /\ On(t, "reset_password", "token")
    /\ LET is == reset_tokens[Arg(t).token].is IN
        \/ is = "deleted" /\ Finish(t)
        \/ is = "expired" /\ Goto(t, "clean")
        \/ is = "valid" /\ Goto(t, "write")
    /\ UNCHANGED acVars

ResetPassword(t) ==
    /\ On(t, "reset_password", "write")
    /\ Upsert(Arg(t).user, [users[Arg(t).user] EXCEPT !.password = Arg(t).password])
    /\ agreed' = [agreed EXCEPT ![Arg(t).user] = Arg(t).password]
    /\ uses' = [uses EXCEPT ![Arg(t).token] = @ + 1]
    /\ misused' = (misused \/ Arg(t).late)
    /\ Goto(t, "delete")
    /\ UNCHANGED <<second, things, reset_tokens, attempts, sessions, wished, gone, guesses, tangled>>

\* "Single-use": but an error is not heeded.
DeleteToken(t) ==
    /\ \E at \in {"clean", "delete"} : On(t, "reset_password", at)
    /\ \/ /\ reset_tokens' = [reset_tokens EXCEPT ![Arg(t).token].is = "deleted"]
          /\ Finish(t) /\ UNCHANGED tangled
       \/ /\ Failing /\ Leave(t) /\ UNCHANGED <<calls, reset_tokens>>
          /\ tangled' = tangled \cup {<<"token", Arg(t).token>>}
    /\ UNCHANGED <<users, second, things, attempts, sessions, agreed, wished, gone, uses, guesses, misused>>

-----------------------------------------------------------------------------
(* update_notification_prefs reads both flags and writes both; an error of *)
(* the reading counts as a missing row.                                    *)

ReadFlags(t) ==
    /\ On(t, "set_flags", "read")
    /\ \/ Learn(t, "write", users[Arg(t).user].flags) /\ UNCHANGED tangled
       \/ /\ Failing
          /\ call' = [call EXCEPT ![t].at = "write", ![t].got = AllOn]
          /\ tangled' = tangled \cup {<<"flags", Arg(t).user>>}
          /\ UNCHANGED <<calls, crowded>>
    /\ UNCHANGED <<acTables, agreed, wished, gone, uses, guesses, misused>>

\* Mutant of WriteFlags: what is not asked for is on.
WriteFlagsOn(t) ==
    /\ On(t, "set_flags", "write")
    /\ Upsert(Arg(t).user, [users[Arg(t).user] EXCEPT !.flags = [AllOn EXCEPT ![Arg(t).flag] = Arg(t).to]])
    /\ wished' = [wished EXCEPT ![Arg(t).user][Arg(t).flag] = Arg(t).to]
    /\ Finish(t)
    /\ UNCHANGED <<second, things, reset_tokens, attempts, sessions, agreed, gone, uses, guesses, misused, tangled>>

WriteFlags(t) ==
    /\ On(t, "set_flags", "write")
    /\ Upsert(Arg(t).user, [users[Arg(t).user] EXCEPT !.flags = [Got(t) EXCEPT ![Arg(t).flag] = Arg(t).to]])
    /\ wished' = [wished EXCEPT ![Arg(t).user][Arg(t).flag] = Arg(t).to]
    /\ Finish(t)
    /\ UNCHANGED <<second, things, reset_tokens, attempts, sessions, agreed, gone, uses, guesses, misused, tangled>>

\* update_profile, upload_avatar, delete_avatar: one UPDATE of other columns.
UpdateProfile(t) ==
    /\ On(t, "update_profile", "write")
    /\ Upsert(Arg(t).user, users[Arg(t).user])
    /\ Finish(t)
    /\ UNCHANGED <<second, things, reset_tokens, attempts, sessions, acHistory>>

-----------------------------------------------------------------------------
(* The second factor.  A code is known by its number. *)

EnableSecond(t) ==
    /\ On(t, "enable_2fa", "write")
    /\ LET u == Arg(t).user IN
        /\ second[u].code < CodeLimit
        /\ second' = [second EXCEPT ![u].code = @ + 1, ![u].fresh = TRUE]
        /\ Upsert(u, users[u])
    /\ Finish(t)
    /\ UNCHANGED <<things, reset_tokens, attempts, sessions, acHistory>>

CodeExpires ==
    /\ \E u \in Users : second[u].fresh /\ second' = [second EXCEPT ![u].fresh = FALSE]
    /\ UNCHANGED <<users, things, reset_tokens, attempts, sessions, acHistory, tasking>>

\* The window of a user's attempts is over.
WindowEnds ==
    /\ \E u \in Users :
        /\ attempts[u] > 0
        /\ attempts' = [attempts EXCEPT ![u] = 0] /\ guesses' = [guesses EXCEPT ![u] = 0]
        /\ call' = [t \in Tasks |-> IF call[t].op = "verify_2fa" /\ Arg(t).user = u
                                    THEN [call[t] EXCEPT !.arg.old = TRUE] ELSE call[t]]
    /\ UNCHANGED <<users, second, things, reset_tokens, sessions, agreed, wished, gone, uses, misused, tangled>>
    /\ UNCHANGED <<calls, drops, crowded>>

CompareCode(t) ==
    /\ On(t, "verify_2fa", "read")
    /\ LET u == Arg(t).user IN
        IF ~Registered(u) \/ ~second[u].fresh
        THEN Finish(t) /\ UNCHANGED acHistory
        ELSE /\ guesses' = [guesses EXCEPT ![u] = IF Arg(t).old THEN @ ELSE @ + 1]
             /\ IF second[u].code = Arg(t).code THEN Goto(t, "enable") ELSE Finish(t)
             /\ UNCHANGED <<agreed, wished, gone, uses, misused, tangled>>
    /\ UNCHANGED acTables

SecondOn(t) ==
    /\ On(t, "verify_2fa", "enable")
    /\ second' = [second EXCEPT ![Arg(t).user].on = TRUE]
    /\ Upsert(Arg(t).user, users[Arg(t).user])
    /\ misused' = (misused \/ Arg(t).late)
    /\ Finish(t)
    /\ UNCHANGED <<things, reset_tokens, attempts, sessions, agreed, wished, gone, uses, guesses, tangled>>

-----------------------------------------------------------------------------
(* block_user, delete_user and delete_account *)

CheckUser(t) ==
    /\ On(t, "block_user", "check")
    /\ IF users[Arg(t).user].is = "none" THEN Finish(t) ELSE Goto(t, "write")
    /\ UNCHANGED acVars

BlockUser(t) ==
    /\ On(t, "block_user", "write")
    /\ Upsert(Arg(t).user, [users[Arg(t).user] EXCEPT !.blocked = Arg(t).to])
    /\ Finish(t)
    /\ UNCHANGED <<second, things, reset_tokens, attempts, sessions, acHistory>>

CreateAssistant(t) ==
    /\ On(t, "create_assistant", "write")
    /\ things' = [things EXCEPT ![Arg(t).user] = @ \cup {"assistant"}]
    /\ tangled' = IF Arg(t).user \in gone THEN tangled \cup {<<"things", Arg(t).user>>} ELSE tangled
    /\ Finish(t)
    /\ UNCHANGED <<users, second, reset_tokens, attempts, sessions, agreed, wished, gone, uses, guesses, misused>>

VerifyDelete(t) ==
    /\ \/ /\ On(t, "delete_account", "verify")
          /\ IF Registered(Arg(t).user) /\ users[Arg(t).user].password = Arg(t).password
             THEN Goto(t, "related") ELSE Finish(t)
       \/ /\ On(t, "delete_user", "verify")
          /\ IF users[Arg(t).user].is # "none" THEN Goto(t, "related") ELSE Finish(t)
    /\ UNCHANGED acVars

\* What is deleted of u by statements whose errors are not heeded.
DeletesSome(t, what, at) ==
    LET u == Arg(t).user IN
    /\ \/ /\ things' = [things EXCEPT ![u] = @ \ what]
          /\ Goto(t, at) /\ UNCHANGED tangled
       \/ /\ Failing /\ call' = [call EXCEPT ![t].at = at] /\ UNCHANGED <<calls, crowded, things>>
          /\ tangled' = tangled \cup {<<"things", u>>}
    /\ UNCHANGED <<users, second, reset_tokens, attempts, sessions, agreed, wished, gone, uses, guesses, misused>>

\* The user's own deletion names files, integrations and conversations by half
\* of their partition key or in a table that does not exist: it deletes none.
DeleteRelated(t) ==
    \/ /\ On(t, "delete_account", "related")
       /\ DeletesSome(t, IF "assistant" \in things[Arg(t).user] THEN {"tools"} ELSE {}, "assistants")
    \/ /\ On(t, "delete_user", "related")
       /\ DeletesSome(t, IF "assistant" \in things[Arg(t).user] THEN {"tools", "files"} ELSE {}, "assistants")

DeleteAssistants(t) ==
    /\ \E op \in {"delete_account", "delete_user"} : On(t, op, "assistants")
    /\ DeletesSome(t, {"assistant"}, "row")

DeleteUser(t) ==
    /\ \E op \in {"delete_account", "delete_user"} : On(t, op, "row")
    /\ users' = [users EXCEPT ![Arg(t).user] = NoUser]
    /\ second' = [second EXCEPT ![Arg(t).user] = [NoCode EXCEPT !.code = second[Arg(t).user].code]]
    /\ gone' = gone \cup {Arg(t).user}
    /\ Finish(t)
    /\ UNCHANGED <<things, reset_tokens, attempts, sessions, agreed, wished, uses, guesses, misused, tangled>>

DropAc(t) ==
    /\ Drop(t)
    /\ tangled' = IF call[t].at \in {"delete", "assistants", "row"}
                  THEN tangled \cup AcWrites(call[t]) ELSE tangled
    /\ UNCHANGED <<acTables, agreed, wished, gone, uses, guesses, misused>>

AccountsNext ==
    \/ TokenExpires \/ CodeExpires \/ WindowEnds
    \/ \E t \in Tasks :
        \/ GuestCalls(t) \/ ResetCalls(t) \/ SessionCalls(t) \/ VerifyCalls(t) \/ AdminCalls(t)
        \/ FindEmail(t) \/ InsertUser(t) \/ VerifyPassword(t) \/ ChangePassword(t)
        \/ FindForgotten(t) \/ SaveToken(t) \/ ReadToken(t) \/ ResetPassword(t) \/ DeleteToken(t)
        \/ ReadFlags(t) \/ WriteFlags(t) \/ UpdateProfile(t)
        \/ EnableSecond(t) \/ CompareCode(t) \/ SecondOn(t)
        \/ CheckUser(t) \/ BlockUser(t) \/ CreateAssistant(t) \/ VerifyDelete(t)
        \/ DeleteRelated(t) \/ DeleteAssistants(t) \/ DeleteUser(t) \/ DropAc(t)

-----------------------------------------------------------------------------

Orderly(what, of) == <<what, of>> \notin tangled

\* login_user: the only account of its e-mail, not blocked, with that password.
CanLogin(u, p) ==
    WithEmail(users[u].email) = {u} /\ ~users[u].blocked /\ users[u].password = p

\* Whoever was agreed that a password is set can log in with it, as long as no
\* two registrations of the e-mail overlapped, nor two settings of the
\* password, and the account is not blocked (register_user, create_user,
\* change_password, reset_password, login_user).
LoginWorks ==
    \A u \in Users :
        /\ Registered(u) /\ ~users[u].blocked
        /\ Orderly("email", users[u].email) /\ Orderly("password", u)
        => CanLogin(u, agreed[u])

\* A change of one flag leaves the other as it was asked for last, unless two
\* changes overlapped or the flags could not be read (update_notification_prefs).
FlagsKept ==
    \A u \in Users : Registered(u) /\ Orderly("flags", u) => users[u].flags = wished[u]

\* A reset token sets one password, unless it was used twice at once or its
\* deletion failed; and neither a token nor a code is accepted when it had
\* ended before it was sent in (reset_password, verify_2fa).
TokensHold ==
    /\ \A k \in Tokens : Orderly("token", k) => uses[k] <= 1
    /\ ~misused

\* No more codes of a user are compared in one window than the limit, but for
\* those counted in the window before (check_2fa_rate_limit).
GuessesBounded == \A u \in Users : guesses[u] <= MaxAttempts

\* A deleted account is never an account again, whatever its sessions still
\* write; and its assistants and their tools are gone with it unless a
\* statement failed or an assistant was created meanwhile or afterwards
\* (delete_account, delete_user).
AccountDeleted ==
    \A u \in gone :
        ~Registered(u) /\ (Orderly("things", u) => things[u] \subseteq {"files"})

\* Accounts do what their users and admins were told they do (services/auth.rs,
\* handlers/auth.rs, services/admin.rs).
AccountsHold == LoginWorks /\ FlagsKept /\ TokensHold /\ GuessesBounded /\ AccountDeleted
=============================================================================
