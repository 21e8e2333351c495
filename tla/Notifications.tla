--------------------------- MODULE Notifications ---------------------------
(***************************************************************************)
(* Notifications: written to the inbox of each recipient, announced on the *)
(* recipient's event stream, and mailed to some; and the bell of the       *)
(* dashboard, which fetches the inbox at each announcement and answers a   *)
(* click by a request and, when it has come back, by a change of its own.  *)
(*                                                                         *)
(* The n-th row of an inbox has the number n: the ids of the code are      *)
(* random, so that a list that is cut off at its limit is any part of the  *)
(* inbox.  An UPDATE of a row that was deleted makes a row without a date  *)
(* (a ghost), which makes the list unreadable.  The mail to the owner, who  *)
(* is one of the members, is left out.                                     *)
(***************************************************************************)
EXTENDS Tasks, Sequences

CONSTANTS
    Members,        \* of the workspace
    TokenUsers,     \* users who accepted a share of the assistant
    ListLimit,      \* of list_notifications
    Capacity        \* CHANNEL_CAPACITY

ASSUME NotificationsAssumption ==
    Members \subseteq Users /\ TokenUsers \subseteq Users /\ ListLimit \in Nat /\ Capacity \in Nat \ {0}

VARIABLES
    inbox,      \* notifications: the rows of each user
    wants,      \* users whose system notifications are on
    reads_mail, \* users whose e-mail notifications are on
    pending,    \* events not yet read from each stream, -1 without a stream
    shown,      \* what the bell of each user shows
    topics,     \* events there was something to tell about
    meant,      \* history: whom to tell of which, and in what part of the work
    told,       \* history: those who got a row
    spared,     \* history: those who did not want one, or whose wish or row failed
    mailed,     \* history: those who got a mail
    cut,        \* history: topics that a failure or a drop ended
    mixed,      \* history: users whose requests overlapped, failed or were dropped
    cropped     \* history: users whose last list left rows out

ntTables  == <<inbox, wants, reads_mail, pending, shown, topics>>
ntBell    == <<mixed, cropped>>
ntHistory == <<meant, told, spared, mailed, cut, ntBell>>
ntVars    == <<ntTables, ntHistory>>

Nothing == <<>>

\* Nobody is looking and no inbox has a row, or everyone is and each has one.
NotificationsInit ==
    /\ wants \in {Users, Users \ Members, Users \ TokenUsers} /\ reads_mail \in {{}, Users}
    /\ \/ inbox = [u \in Users |-> <<>>] /\ pending = [u \in Users |-> 0 - 1]
       \/ inbox = [u \in Users |-> <<"unread">>] /\ pending = [u \in Users |-> 0]
    /\ shown = inbox /\ topics = 0
    /\ meant = {} /\ told = {} /\ spared = {} /\ mailed = {} /\ cut = {}
    /\ mixed = {} /\ cropped = {}

Online(u)   == pending[u] >= 0
Rows(u)     == {n \in DOMAIN inbox[u] : inbox[u][n] # "none"}
Readable(s) == \A n \in DOMAIN s : s[n] # "ghost"

\* LIMIT: the order is that of the ids, and so no order at all.
Lists(u) ==
    LET most == IF Cardinality(Rows(u)) < ListLimit THEN Cardinality(Rows(u)) ELSE ListLimit IN
    {[n \in S |-> inbox[u][n]] : S \in {P \in SUBSET Rows(u) : Cardinality(P) = most}}

-----------------------------------------------------------------------------
(* The senders: notify_human_agent, notify_appointment_event, the users of *)
(* notify_workspace_members, and send_message with its mentions.           *)

SenderOps == {"escalate", "appointment", "announce", "mention"}
Sending(t) == call[t].op \in SenderOps
Dues(us, t, part) == {[topic |-> Arg(t).topic, user |-> u, part |-> part] : u \in us}
This(t) == [topic |-> Arg(t).topic, user |-> Got(t).to, part |-> Got(t).part]

Queued(us, part) == [todo |-> us, to |-> "none", part |-> part]

SenderCalls(t) ==
    /\ topics' = topics + 1
    /\ \/ \E scope \in {Members, TokenUsers} :
            Begin(t, "escalate", "owner", [topic |-> topics', scope |-> scope])
       \/ Begin(t, "appointment", "owner", [topic |-> topics', scope |-> Users])
       \/ Begin(t, "announce", "members", [topic |-> topics', scope |-> Users])
    /\ UNCHANGED <<inbox, wants, reads_mail, pending, shown, ntHistory>>

\* resolve_recipients: members of the channel, but for the sender.
Mentions(t) ==
    /\ topics' = topics + 1
    /\ \E sender \in Members, S \in SUBSET Users :
        LET heard == (S \cap Members) \ {sender} IN
        /\ heard # {}
        /\ BeginWith(t, "mention", "deliver", [topic |-> topics'], Queued(heard, "mention"))
        /\ meant' = meant \cup {[topic |-> topics', user |-> u, part |-> "mention"] : u \in heard}
    /\ UNCHANGED <<inbox, wants, reads_mail, pending, shown, told, spared, mailed, cut, ntBell>>

\* The owner's account is read first: without it nobody is told.
ReadOwner(t) ==
    /\ \E op \in {"escalate", "appointment"} : On(t, op, "owner")
    /\ Goto(t, "members")
    /\ UNCHANGED ntVars

\* resolve_scope_recipients, or all members.
Resolve(t) ==
    /\ \E op \in SenderOps : On(t, op, "members")
    /\ Learn(t, "deliver", Queued(Arg(t).scope \cap Members, "members"))
    /\ meant' = meant \cup Dues(Arg(t).scope \cap Members, t, "members")
    /\ UNCHANGED <<ntTables, told, spared, mailed, cut, ntBell>>

\* An error counts as no recipients.
ResolveFails(t) ==
    /\ \E op \in SenderOps : On(t, op, "members")
    /\ drops > 0 /\ drops' = drops - 1
    /\ call' = [call EXCEPT ![t].at = "deliver", ![t].got = Queued({}, "members")]
    /\ cut' = cut \cup {Arg(t).topic}
    /\ UNCHANGED <<calls, crowded, ntTables, meant, told, spared, mailed, ntBell>>

\* Mutant of NextRecipient: an error for one recipient ends the loop.
NextRecipientWhileWell(t) ==
    /\ Sending(t) /\ call[t].at = "deliver"
    /\ IF Got(t).todo # {} /\ This(t) \notin spared
       THEN \E u \in Got(t).todo : Learn(t, "prefs", [Got(t) EXCEPT !.to = u, !.todo = @ \ {u}])
       ELSE IF call[t].op \in {"escalate", "appointment"} /\ Got(t).part = "members"
            THEN Goto(t, "guests") ELSE Finish(t)
    /\ UNCHANGED ntVars

NextRecipient(t) ==
    /\ Sending(t) /\ call[t].at = "deliver"
    /\ IF Got(t).todo # {}
       THEN \E u \in Got(t).todo : Learn(t, "prefs", [Got(t) EXCEPT !.to = u, !.todo = @ \ {u}])
       ELSE IF call[t].op \in {"escalate", "appointment"} /\ Got(t).part = "members"
            THEN Goto(t, "guests") ELSE Finish(t)
    /\ UNCHANGED ntVars

ListGuests(t) ==
    /\ Sending(t) /\ call[t].at = "guests"
    /\ Learn(t, "deliver", Queued(TokenUsers, "guests"))
    /\ meant' = meant \cup Dues(TokenUsers, t, "guests")
    /\ UNCHANGED <<ntTables, told, spared, mailed, cut, ntBell>>

-----------------------------------------------------------------------------
(* create_notification, for one recipient after the other.  Its error is   *)
(* not heeded by any of the loops.                                         *)

AfterRow(part) == CASE part = "members" -> "deliver" [] part = "guests" -> "mail" [] OTHER -> "online"

ReadWish(t) ==
    /\ Sending(t) /\ call[t].at = "prefs"
    /\ IF Got(t).to \in wants
       THEN Goto(t, "insert") /\ UNCHANGED spared
       ELSE Goto(t, AfterRow(Got(t).part)) /\ spared' = spared \cup {This(t)}
    /\ UNCHANGED <<ntTables, meant, told, mailed, cut, ntBell>>

\* get_notification_prefs: who cannot be asked wants one.
ReadWishFails(t) ==
    /\ Sending(t) /\ call[t].at = "prefs"
    /\ drops > 0 /\ drops' = drops - 1
    /\ call' = [call EXCEPT ![t].at = "insert"]
    /\ spared' = spared \cup {This(t)}
    /\ UNCHANGED <<calls, crowded, ntTables, meant, told, mailed, cut, ntBell>>

InsertNotification(t) ==
    /\ Sending(t) /\ call[t].at = "insert"
    /\ inbox' = [inbox EXCEPT ![Got(t).to] = Append(@, "unread")]
    /\ told' = told \cup {This(t)}
    /\ Goto(t, "publish")
    /\ UNCHANGED <<wants, reads_mail, pending, shown, topics, meant, spared, mailed, cut, ntBell>>

InsertFails(t) ==
    /\ Sending(t) /\ call[t].at = "insert"
    /\ drops > 0 /\ drops' = drops - 1
    /\ call' = [call EXCEPT ![t].at = AfterRow(Got(t).part)]
    /\ spared' = spared \cup {This(t)}
    /\ UNCHANGED <<calls, crowded, ntTables, meant, told, mailed, cut, ntBell>>

\* A stream that lags loses its oldest event for the new one.
Publish(t) ==
    /\ Sending(t) /\ call[t].at = "publish"
    /\ LET u == Got(t).to IN
        pending' = [pending EXCEPT ![u] = IF Online(u) /\ @ < Capacity THEN @ + 1 ELSE @]
    /\ Goto(t, AfterRow(Got(t).part))
    /\ UNCHANGED <<inbox, wants, reads_mail, shown, topics, ntHistory>>

\* A mention is mailed to those who are not looking and want mails.
AskOnline(t) ==
    /\ Sending(t) /\ call[t].at = "online"
    /\ Goto(t, IF Online(Got(t).to) \/ Got(t).to \notin reads_mail THEN "deliver" ELSE "mail")
    /\ UNCHANGED ntVars

Mail(t) ==
    /\ Sending(t) /\ call[t].at = "mail"
    /\ mailed' = mailed \cup {This(t)}
    /\ Goto(t, "deliver")
    /\ UNCHANGED <<ntTables, meant, told, spared, cut, ntBell>>

MailFails(t) ==
    /\ Sending(t) /\ call[t].at = "mail"
    /\ drops > 0 /\ drops' = drops - 1
    /\ call' = [call EXCEPT ![t].at = "deliver"]
    /\ cut' = cut \cup {Arg(t).topic}
    /\ UNCHANGED <<calls, crowded, ntTables, meant, told, spared, mailed, ntBell>>

-----------------------------------------------------------------------------
(* The bell: sse_stream, and the requests of its user *)

Bells == {"list", "mark_read", "mark_all_read", "delete", "delete_all"}
Asking(t) == call[t].op \in Bells

\* A request that others of the same user are beside.
Requests(t, op, at, u, n) ==
    /\ Begin(t, op, at, [user |-> u, row |-> n])
    /\ mixed' = IF \E o \in Others(t) : Asking(o) /\ Arg(o).user = u THEN mixed \cup {u} ELSE mixed

Subscribe ==
    /\ \E u \in Users : ~Online(u) /\ pending' = [pending EXCEPT ![u] = 1]
    /\ UNCHANGED <<inbox, wants, reads_mail, shown, topics, ntHistory, tasking>>

Disconnect ==
    /\ \E u \in Users : Online(u) /\ pending' = [pending EXCEPT ![u] = 0 - 1]
    /\ UNCHANGED <<inbox, wants, reads_mail, shown, topics, ntHistory, tasking>>

\* At an announcement, when it is mounted and every minute, the bell fetches.
Fetch(t) ==
    /\ \E u \in Users :
        /\ Online(u) /\ pending' = [pending EXCEPT ![u] = IF @ > 0 THEN @ - 1 ELSE @]
        /\ Requests(t, "list", "list", u, 0)
    /\ UNCHANGED <<inbox, wants, reads_mail, shown, topics, meant, told, spared, mailed, cut, cropped>>

Click(t) ==
    /\ \E u \in Users :
        /\ Online(u)
        /\ \/ \E n \in DOMAIN shown[u] :
                \/ shown[u][n] = "unread" /\ Requests(t, "mark_read", "write", u, n)
                \/ Requests(t, "delete", "write", u, n)
           \/ Requests(t, "mark_all_read", "list", u, 0)
           \/ Requests(t, "delete_all", "write", u, 0)
    /\ UNCHANGED <<ntTables, meant, told, spared, mailed, cut, cropped>>

\* One row that cannot be decoded is an error for the whole list.  A list that
\* leaves rows out leaves them unmarked, or out of the bell.
ListInbox(t) ==
    /\ \E op \in {"list", "mark_all_read"} : On(t, op, "list")
    /\ \E list \in Lists(Arg(t).user) :
        IF ~Readable(list) THEN Finish(t) /\ mixed' = mixed \cup {Arg(t).user} /\ UNCHANGED cropped
        ELSE /\ UNCHANGED mixed
             /\ cropped' = IF DOMAIN list # Rows(Arg(t).user) THEN cropped \cup {Arg(t).user}
                           ELSE IF call[t].op = "list" THEN cropped \ {Arg(t).user} ELSE cropped
             /\ IF call[t].op = "list" THEN Learn(t, "answer", list)
                ELSE Learn(t, "mark", {n \in DOMAIN list : list[n] = "unread"})
    /\ UNCHANGED <<ntTables, meant, told, spared, mailed, cut>>

\* mark_as_read
Mark(u, n) == inbox' = [inbox EXCEPT ![u][n] = IF @ = "none" THEN "ghost" ELSE IF @ = "ghost" THEN @ ELSE "read"]

MarkRead(t) ==
    /\ On(t, "mark_read", "write")
    /\ Mark(Arg(t).user, Arg(t).row) /\ Goto(t, "answer")
    /\ UNCHANGED <<wants, reads_mail, pending, shown, topics, ntHistory>>

MarkNext(t) ==
    /\ On(t, "mark_all_read", "mark")
    /\ \/ Got(t) = {} /\ Goto(t, "answer") /\ UNCHANGED inbox
       \/ \E n \in Got(t) : Mark(Arg(t).user, n) /\ Learn(t, "mark", Got(t) \ {n})
    /\ UNCHANGED <<wants, reads_mail, pending, shown, topics, ntHistory>>

Delete(t) ==
    /\ \E op \in {"delete", "delete_all"} : On(t, op, "write")
    /\ LET u == Arg(t).user IN
        inbox' = [inbox EXCEPT ![u] = [n \in DOMAIN @ |->
                    IF call[t].op = "delete_all" \/ n = Arg(t).row THEN "none" ELSE @[n]]]
    /\ Goto(t, "answer")
    /\ UNCHANGED <<wants, reads_mail, pending, shown, topics, ntHistory>>

\* The bell changes what it shows when its request has come back.
Answer(t) ==
    /\ Asking(t) /\ call[t].at = "answer"
    /\ LET u == Arg(t).user IN
        shown' = [shown EXCEPT ![u] =
            CASE call[t].op = "list"          -> Got(t)
              [] call[t].op = "mark_read"     -> [n \in DOMAIN @ |-> IF n = Arg(t).row THEN "read" ELSE @[n]]
              [] call[t].op = "mark_all_read" -> [n \in DOMAIN @ |-> "read"]
              [] call[t].op = "delete"        -> [n \in DOMAIN @ \ {Arg(t).row} |-> @[n]]
              [] call[t].op = "delete_all"    -> Nothing]
    /\ Finish(t)
    /\ UNCHANGED <<inbox, wants, reads_mail, pending, topics, ntHistory>>

DropNt(t) ==
    /\ Drop(t)
    /\ cut'   = IF Sending(t) THEN cut \cup {Arg(t).topic} ELSE cut
    /\ mixed' = mixed \cup (IF Asking(t) THEN {Arg(t).user}
                          ELSE IF call[t].at = "publish" THEN {Got(t).to} ELSE {})
    /\ UNCHANGED <<ntTables, meant, told, spared, mailed, cropped>>

NotificationsNext ==
    \/ Subscribe \/ Disconnect
    \/ \E t \in Tasks :
        \/ SenderCalls(t) \/ Mentions(t) \/ ReadOwner(t) \/ Resolve(t) \/ ResolveFails(t)
        \/ NextRecipient(t) \/ ListGuests(t) \/ ReadWish(t) \/ ReadWishFails(t) \/ InsertNotification(t)
        \/ InsertFails(t) \/ Publish(t) \/ AskOnline(t) \/ Mail(t) \/ MailFails(t)
        \/ Fetch(t) \/ Click(t) \/ ListInbox(t) \/ MarkRead(t) \/ MarkNext(t) \/ Delete(t)
        \/ Answer(t) \/ DropNt(t)

-----------------------------------------------------------------------------

Through(topic) == ~\E t \in Tasks : Sending(t) /\ Arg(t).topic = topic

\* When the sender is through, everyone in its scope who wants notifications
\* has a row, whatever went wrong for the others; users of the share got a
\* mail too (notify_recipients, notify_human_agent, notify_appointment_event,
\* send_message).
EveryoneIsTold ==
    \A d \in meant : Through(d.topic) /\ d.topic \notin cut =>
        d \in told \cup spared /\ (d.part = "guests" => d \in mailed)

\* A row is only for whom its topic is about, as the members were when they
\* were listed, and for nobody who is known not to want notifications.
NobodyElseIsTold == told \subseteq {d \in meant : d.user \in wants \/ d \in spared}

Busy(u) == \E t \in Tasks : (Asking(t) /\ Arg(t).user = u) \/ (On(t, call[t].op, "publish") /\ Got(t).to = u)

\* An inbox can be read, unless a row was marked and deleted at once
\* (mark_as_read, mark_all_read, delete_notification, list_notifications).
InboxReadable == \A u \in Users \ mixed : Readable(inbox[u])

\* A bell that has taken in its announcements shows the inbox as it is, even
\* if the stream lagged, unless its requests overlapped or one failed, or its
\* last list left rows out (create_notification, publish, sse_stream).
BellIsCurrent ==
    \A u \in Users \ mixed :
        Online(u) /\ pending[u] = 0 /\ ~Busy(u) /\ u \notin cropped
        => shown[u] = [n \in Rows(u) |-> inbox[u][n]]

\* Everyone is told, nobody else is, and the bell shows it (notify_recipients,
\* create_notification, the handlers of the inbox, useNotificationStore).
InboxHolds == EveryoneIsTold /\ NobodyElseIsTold /\ InboxReadable /\ BellIsCurrent
=============================================================================
