-------------------------- MODULE Collaboration_proofs --------------------------
(***************************************************************************)
(* Proofs about what the members of a workspace share.                     *)
(*                                                                         *)
(* Channels, their members and the sidebar (Channels), for any number of   *)
(* tasks, channels and pages and any finite set of users: each place of a  *)
(* call says how far it has brought the rows of the users it writes        *)
(* (PartWay), a direct message has two members or is being made            *)
(* (PairRooms), and a page that was deleted is never whole again           *)
(* (PagesHold).                                                            *)
(*                                                                         *)
(* Objectives and key results (Okrs), for any number of tasks, objectives, *)
(* key results, values and cycles: the call that works on an objective     *)
(* says how far its rows have been written (Holds), and the rows of the    *)
(* children follow from how far the calls of child and parent are (Binds). *)
(***************************************************************************)
EXTENDS Tasks_proofs, Channels, Okrs, FiniteSetTheorems, TLAPS

-----------------------------------------------------------------------------
(* Channels and direct messages.                                              *)

USE ChannelsAssumption

ChSpec ==
    ChannelsInit /\ TasksInit(Budgets) /\ [][\E t \in Tasks : ChannelsStep(t)]_<<tasking, chVars>>

-----------------------------------------------------------------------------
(* Users in a line: nobody stands in it twice. *)

Lined(s)  == s \in Seq(Users) /\ \A i, j \in DOMAIN s : s[i] = s[j] => i = j
InLine(s) == {s[i] : i \in DOMAIN s}
Queue(s)  == Lined(s) /\ s # <<>>

\* A finite set of users makes a line.
LEMMA SetToSeqIs ==
    ASSUME NEW S, S \subseteq Users
    PROVE  Lined(SetToSeq(S)) /\ InLine(SetToSeq(S)) = S
<1> DEFINE n == Cardinality(S)
<1>1. IsFiniteSet(S)
  BY FS_Subset
<1>2. n \in Nat /\ ExistsBijection(1 .. n, S)
  BY <1>1, FS_CardinalityType
<1>3. PICK b : b \in Bijection(1 .. n, S)
  BY <1>2 DEF ExistsBijection
<1>4. b \in [1 .. n -> S] /\ IsInjective(b) /\ \A x \in S : \E i \in 1 .. n : b[i] = x
  BY <1>3 DEF Bijection, Injection, Surjection, IsInjective
<1>5. SetToSeq(S) \in [1 .. n -> S] /\ IsInjective(SetToSeq(S))
  BY <1>4, Zenon DEF SetToSeq
<1> DEFINE s == SetToSeq(S)
<1>6. DOMAIN s = 1 .. n /\ \A i, j \in DOMAIN s : s[i] = s[j] => i = j
  BY <1>5 DEF IsInjective
<1>7. s \in Seq(Users)
  BY <1>2, <1>5
<1>8. s \in Injection(1 .. n, S)
  BY <1>5, <1>6 DEF Injection
<1>9. IsFiniteSet(1 .. n) /\ Cardinality(1 .. n) = n
  BY <1>2, FS_Interval
<1>10. s \in Surjection(1 .. n, S)
  BY <1>1, <1>8, <1>9, FS_Injection
<1>11. InLine(s) = S
  BY <1>5, <1>6, <1>10 DEF InLine, Surjection
<1> QED
  BY <1>6, <1>7, <1>11 DEF Lined

\* Who stands first, and the line behind.
LEMMA FirstInLine ==
    ASSUME NEW s, Queue(s)
    PROVE  /\ Head(s) \in Users /\ Head(s) \in InLine(s) /\ InLine(s) \subseteq Users
           /\ Len(s) = 1 => InLine(s) = {Head(s)}
           /\ Len(s) # 1 => Queue(Tail(s)) /\ InLine(Tail(s)) = InLine(s) \ {Head(s)}
<1>1. s \in Seq(Users) /\ s # <<>> /\ DOMAIN s = 1 .. Len(s) /\ Len(s) \in Nat /\ Len(s) > 0
  BY DEF Queue, Lined
<1>2. \A i \in 1 .. Len(s) : s[i] \in Users
  BY <1>1
<1>3. Head(s) = s[1] /\ \A i, j \in 1 .. Len(s) : s[i] = s[j] => i = j
  BY <1>1 DEF Queue, Lined
<1>4. ASSUME Len(s) # 1
      PROVE  Queue(Tail(s)) /\ InLine(Tail(s)) = InLine(s) \ {Head(s)}
  <2>1. /\ Tail(s) \in Seq(Users) /\ Len(Tail(s)) = Len(s) - 1 /\ DOMAIN Tail(s) = 1 .. Len(s) - 1
        /\ \A i \in 1 .. Len(s) - 1 : Tail(s)[i] = s[i + 1]
    BY <1>1
  <2>2. Tail(s) # <<>>
    <3> SUFFICES ASSUME Tail(s) = <<>>
                 PROVE  Len(s) = 1
      BY <1>4
    <3>1. Len(Tail(s)) = 0
      BY Len(<<>>) = 0, Zenon
    <3>2. Len(s) - 1 = 0
      BY <2>1, <3>1, Zenon
    <3>3. Len(s) \in Nat
      BY <1>1
    <3> QED
      BY <3>2, <3>3
  <2>3. Lined(Tail(s))
    <3> SUFFICES ASSUME NEW i \in 1 .. Len(s) - 1, NEW j \in 1 .. Len(s) - 1, Tail(s)[i] = Tail(s)[j]
                 PROVE  i = j
      BY <2>1 DEF Lined
    <3>1. i + 1 \in 1 .. Len(s) /\ j + 1 \in 1 .. Len(s) /\ s[i + 1] = s[j + 1]
      BY <1>1, <2>1
    <3>2. i + 1 = j + 1
      BY <1>3, <3>1
    <3> QED
      BY <3>2
  <2>4. InLine(Tail(s)) \subseteq InLine(s) \ {Head(s)}
    <3> SUFFICES ASSUME NEW i \in 1 .. Len(s) - 1
                 PROVE  Tail(s)[i] \in InLine(s) \ {Head(s)}
      BY <2>1 DEF InLine
    <3>1. i + 1 \in 1 .. Len(s) /\ 1 \in 1 .. Len(s) /\ i + 1 # 1
      BY <1>1
    <3>2. s[i + 1] # s[1]
      BY <1>3, <3>1
    <3> QED
      BY <1>1, <1>3, <2>1, <3>1, <3>2 DEF InLine
  <2>5. InLine(s) \ {Head(s)} \subseteq InLine(Tail(s))
    <3> SUFFICES ASSUME NEW i \in 1 .. Len(s), i # 1
                 PROVE  s[i] \in InLine(Tail(s))
      BY <1>1, <1>3 DEF InLine
    <3>1. i - 1 \in 1 .. Len(s) - 1 /\ (i - 1) + 1 = i
      BY <1>1
    <3>2. Tail(s)[i - 1] = s[i]
      BY <2>1, <3>1
    <3> QED
      BY <2>1, <3>1, <3>2 DEF InLine
  <2> QED
    BY <2>2, <2>3, <2>4, <2>5 DEF Queue
<1>5. Len(s) = 1 => InLine(s) = {Head(s)}
  BY <1>1, <1>3 DEF InLine
<1>6. Head(s) \in Users /\ Head(s) \in InLine(s) /\ InLine(s) \subseteq Users
  BY <1>1, <1>2, <1>3 DEF InLine
<1> QED
  BY <1>4, <1>5, <1>6

\* Whom a new channel is for.
LEMMA ToAddIs ==
    ASSUME NEW arg, arg.by \in Users, arg.kind \in {"public", "private", "dm"},
           arg.kind = "dm" => arg.with \in Users \ {arg.by}
    PROVE  Queue(ToAdd(arg)) /\ (arg.kind = "dm" => ToAdd(arg) = <<arg.by, arg.with>>)
<1>1. CASE arg.kind = "private"
  <2>1. ToAdd(arg) = <<arg.by>>
    BY <1>1 DEF ToAdd
  <2> QED
    BY <1>1, <2>1 DEF Queue, Lined
<1>2. CASE arg.kind = "dm"
  <2>1. ToAdd(arg) = <<arg.by, arg.with>>
    BY <1>2 DEF ToAdd
  <2> QED
    BY <1>2, <2>1 DEF Queue, Lined
<1>3. CASE arg.kind = "public"
  <2> DEFINE rest == SetToSeq(Users \ {arg.by})
  <2>1. Lined(rest) /\ InLine(rest) = Users \ {arg.by}
    BY SetToSeqIs
  <2> HIDE DEF rest
  <2> DEFINE all == <<arg.by>> \o rest
  <2>2. /\ rest \in Seq(Users) /\ Len(rest) \in Nat /\ DOMAIN rest = 1 .. Len(rest)
        /\ \A i, j \in 1 .. Len(rest) : rest[i] = rest[j] => i = j
        /\ \A i \in 1 .. Len(rest) : rest[i] # arg.by
    BY <2>1 DEF Lined, InLine
  <2>3. /\ all \in Seq(Users) /\ Len(all) = 1 + Len(rest) /\ all[1] = arg.by /\ DOMAIN all = 1 .. 1 + Len(rest)
        /\ \A i \in 2 .. 1 + Len(rest) : all[i] = rest[i - 1]
    BY <2>2
  <2>4. ToAdd(arg) = all
    BY <1>3 DEF ToAdd, rest
  <2> HIDE DEF all
  <2>5. ASSUME NEW i \in DOMAIN all, NEW j \in DOMAIN all, all[i] = all[j]
        PROVE  i = j
    <3>1. i \in 1 .. 1 + Len(rest) /\ j \in 1 .. 1 + Len(rest)
      BY <2>3
    <3>2. ASSUME NEW k \in 1 .. 1 + Len(rest), k # 1
          PROVE  k - 1 \in 1 .. Len(rest) /\ all[k] = rest[k - 1] /\ all[k] # arg.by
      BY <2>2, <2>3, <3>2
    <3>3. CASE i = 1 \/ j = 1
      BY <2>3, <2>5, <3>1, <3>2, <3>3
    <3>4. CASE i # 1 /\ j # 1
      <4>1. i - 1 = j - 1
        BY <2>2, <2>5, <3>1, <3>2, <3>4
      <4> QED
        BY <3>1, <4>1
    <3> QED
      BY <3>3, <3>4
  <2>6. all # <<>>
    BY <2>2, <2>3
  <2> QED
    BY <1>3, <2>3, <2>4, <2>5, <2>6 DEF Queue, Lined
<1> QED
  BY <1>1, <1>2, <1>3

-----------------------------------------------------------------------------
(* What a call of the channels knows. *)

ChMakers == {"create_channel", "dm"}
ChOps    == ChMakers \cup {"join", "leave", "read", "send", "rename", "delete", "write", "edit", "erase", "none"}

MakesRoom(t) == call[t].op \in ChMakers
AddsTo(t)    == call[t].op \in ChAdds

RoomTypes == {"none", "bare", "public", "private", "dm"}
SideRow(box) ==
    /\ box = [room |-> box.room, user |-> box.user, at |-> box.at, unread |-> box.unread]
    /\ box.room \in Rooms /\ box.user \in Users /\ box.at \in 0 .. clock /\ box.unread \in Nat

RoomTables ==
    /\ rooms \in [Rooms -> RoomTypes]
    /\ channel_members \in [Rooms -> [Users -> {"none", "bare", "whole"}]]
    /\ \A box \in sidebar : SideRow(box)
    /\ clock \in Nat
    /\ due \in [Places -> Nat]

\* A channel nobody has made yet has nothing, and one without a type was deleted.
RoomsHold ==
    /\ \A r \in Rooms \ Known, u \in Users : channel_members[r][u] = "none" /\ RowsOf(r, u) = {}
    /\ \A r \in Rooms : rooms[r] = "bare" => r \in deleted

OneRoomMaker == \A t, v \in Tasks : MakesRoom(t) /\ MakesRoom(v) /\ Arg(t).room = Arg(v).room => t = v

\* What a call was asked, and that only a maker's channel is still to be made.
ChAsks(t) ==
    LET op == call[t].op IN
    /\ op \in ChOps
    /\ op # "none" => Arg(t).room \in Rooms
    /\ op \in ChMakers =>
        /\ Arg(t).by \in Users /\ Arg(t).kind \in {"public", "private", "dm"} /\ (op = "dm" <=> Arg(t).kind = "dm")
        /\ call[t].at \in {"find", "row"} <=> Arg(t).room \notin Known
    /\ op = "dm" => Arg(t).with \in Users \ {Arg(t).by}
    /\ op \notin ChMakers \cup {"none"} => Arg(t).room \in Known
    /\ op \in {"join", "leave", "read"} => Arg(t).user \in Users
    /\ op = "send" => Arg(t).by \in Users

\* What it has learned since.
ToBeAdded(got) == got = [todo |-> got.todo, at |-> got.at] /\ Queue(got.todo) /\ got.at \in 0 .. clock
ToBeTold(t, got) == Queue(got.todo) /\ got.at \in 0 .. clock /\ Arg(t).by \notin InLine(got.todo)
OwnRow(t, box, u) == SideRow(box) /\ box.room = Arg(t).room /\ box.user = u
Unboxing(t, got) ==
    /\ got = [at |-> got.at, rows |-> got.rows] /\ got.at \in 0 .. clock
    /\ \A box \in got.rows : box.room = Arg(t).room /\ box.user = Arg(t).user

ChLearned(t) ==
    LET op == call[t].op  at == call[t].at IN
    /\ op \in ChAdds /\ at \in {"member", "name", "box"} =>
        ToBeAdded(Got(t)) /\ (op = "join" => InLine(Got(t).todo) \subseteq {Arg(t).user})
    /\ op = "send" /\ at = "list" => Got(t) \in 0 .. clock
    /\ op = "send" /\ at \in {"peek", "unbox", "box"} => ToBeTold(t, Got(t))
    /\ op = "send" /\ at \in {"unbox", "box"} => OwnRow(t, Got(t).old, Head(Got(t).todo))
    /\ op = "read" /\ at \in {"who", "rows", "last"} => Got(t).at \in 0 .. clock
    /\ op \in {"read", "leave"} /\ at = "unbox" => Unboxing(t, Got(t))

ChBase == Shaped /\ RoomTables /\ RoomsHold /\ OneRoomMaker /\ \A t \in Tasks : ChAsks(t) /\ ChLearned(t)

\* Time passes and channels become known: to whom stands by it is all the same.
ChPasses == clock \in Nat /\ clock' \in Nat /\ clock <= clock' /\ Known \subseteq Known'

LEMMA RowKept ==
    ASSUME ChPasses, NEW box, SideRow(box)
    PROVE  SideRow(box)'
  BY DEF ChPasses, SideRow

LEMMA ChStandsBy ==
    ASSUME ChPasses, NEW v \in Tasks, call'[v] = call[v], ChAsks(v), ChLearned(v),
           MakesRoom(v) => Arg(v).room \notin Known' \ Known
    PROVE  ChAsks(v)' /\ ChLearned(v)'
<1>1. Arg(v)' = Arg(v) /\ Got(v)' = Got(v)
  BY DEF Arg, Got
<1>2. \A x : x \in 0 .. clock => x \in 0 .. clock'
  BY DEF ChPasses
<1>3. ChAsks(v)'
  BY <1>1 DEF ChAsks, MakesRoom, ChPasses
<1>4. ASSUME NEW g
      PROVE  /\ ToBeAdded(g) => ToBeAdded(g)'
             /\ ToBeTold(v, g) => ToBeTold(v, g)'
             /\ Unboxing(v, g) => Unboxing(v, g)'
             /\ \A u : OwnRow(v, g, u) => OwnRow(v, g, u)'
  BY <1>1, <1>2, RowKept DEF ToBeAdded, ToBeTold, Unboxing, OwnRow
<1>5. ChLearned(v)'
  <2> SUFFICES ASSUME NEW g, g = Got(v), NEW o, o = Got(v).old, NEW h, h = Head(Got(v).todo)
               PROVE  ChLearned(v)'
    OBVIOUS
  <2>1. /\ ToBeAdded(g) => ToBeAdded(g)'
        /\ ToBeTold(v, g) => ToBeTold(v, g)'
        /\ Unboxing(v, g) => Unboxing(v, g)'
        /\ OwnRow(v, o, h) => OwnRow(v, o, h)'
    BY <1>4
  <2> QED
    BY <1>1, <1>2, <2>1 DEF ChLearned
<1> QED
  BY <1>3, <1>5

LEMMA OneMakerStays ==
    ASSUME OneRoomMaker, NEW t \in Tasks, Continues(t, call'[t].at, call'[t].got) \/ Ceases(t)
    PROVE  OneRoomMaker'
<1>1. \A v \in Tasks : MakesRoom(v)' => MakesRoom(v) /\ Arg(v)' = Arg(v)
  BY DEF Continues, Ceases, Only, MakesRoom, Arg, ChMakers
<1> QED
  BY <1>1 DEF OneRoomMaker

\* A call that goes on, or ends.
LEMMA ChGoes ==
    ASSUME ChBase, ChPasses, NEW t \in Tasks, NEW at, NEW got, Continues(t, at, got), RoomTables', RoomsHold',
           \A v \in Tasks \ {t} : MakesRoom(v) => Arg(v).room \notin Known' \ Known,
           ChAsks(t)', ChLearned(t)'
    PROVE  ChBase'
<1>1. OneRoomMaker' /\ Shaped'
  BY OneMakerStays DEF ChBase, Continues
<1>2. \A v \in Tasks \ {t} : ChAsks(v)' /\ ChLearned(v)'
  BY ChStandsBy DEF ChBase, Continues, Only
<1> QED
  BY <1>1, <1>2 DEF ChBase

LEMMA ChEnds ==
    ASSUME ChBase, ChPasses, NEW t \in Tasks, Ceases(t), RoomTables', RoomsHold',
           \A v \in Tasks \ {t} : MakesRoom(v) => Arg(v).room \notin Known' \ Known
    PROVE  ChBase'
<1>1. OneRoomMaker' /\ Shaped'
  BY OneMakerStays DEF ChBase, Ceases
<1>2. \A v \in Tasks \ {t} : ChAsks(v)' /\ ChLearned(v)'
  BY ChStandsBy DEF ChBase, Ceases, Only
<1>3. ChAsks(t)' /\ ChLearned(t)'
  BY DEF Ceases, ChAsks, ChLearned, ChOps, ChMakers, ChAdds
<1> QED
  BY <1>1, <1>2, <1>3 DEF ChBase

-----------------------------------------------------------------------------
(* Calls begin. *)

\* What a page call works on: a fresh page, or one of the channel.
PageOps  == {"send", "write", "edit", "erase"}
Pagers   == {"send", "write"}
OnPage(t) == call[t].op \in Pagers

ChCall(op, at, arg) ==
    /\ op \in ChOps \ {"none"} /\ arg.room \in Rooms
    /\ op \in ChMakers =>
        /\ Unused(arg.room) /\ arg.by \in Users /\ at \in {"find", "row"}
        /\ arg.kind \in {"public", "private", "dm"} /\ (op = "dm" <=> arg.kind = "dm")
    /\ op = "dm" => at = "find" /\ arg.with \in Users \ {arg.by}
    /\ op \notin ChMakers => arg.room \in Known
    /\ op \in {"join", "leave", "delete"} => at = "list"
    /\ op = "read" => at = "mark"
    /\ op \in PageOps \cup {"rename"} => at = "check"
    /\ op \in {"join", "leave", "read"} => arg.user \in Users
    /\ op \in PageOps => arg.by \in Users /\ arg.page \in Pages
    /\ op \in Pagers => /\ pages[arg.page] = NoPage
                        /\ \A v \in Tasks : OnPage(v) => Arg(v).page # arg.page
    /\ op \in {"edit", "erase"} => pages[arg.page].room = arg.room

LEMMA FreshRoomIs ==
    ASSUME NEW r \in FreshRoom
    PROVE  r \in Rooms /\ Unused(r)
<1> DEFINE free == {q \in Rooms : Unused(q)}
<1>1. free # {} /\ r = CHOOSE q \in free : TRUE
  BY DEF FreshRoom
<1>2. r \in free
  BY <1>1
<1> QED
  BY <1>2

LEMMA ChCallsBegin ==
    ASSUME NEW t \in Tasks, RoomCalls(t) \/ PageCalls(t)
    PROVE  \E op, at, arg : ChCall(op, at, arg) /\ BeginCh(t, op, at, arg)
<1> USE DEF ChCall, ChOps, ChMakers, PageOps, Pagers
<1>1. ASSUME NEW r \in FreshRoom, NEW u \in Users, NEW kind \in {"public", "private"},
             BeginCh(t, "create_channel", "row", [room |-> r, by |-> u, kind |-> kind])
      PROVE  \E op, at, arg : ChCall(op, at, arg) /\ BeginCh(t, op, at, arg)
  <2>1. ChCall("create_channel", "row", [room |-> r, by |-> u, kind |-> kind])
    BY FreshRoomIs
  <2> QED
    BY <1>1, <2>1
<1>2. ASSUME NEW r \in FreshRoom, NEW u \in Users, NEW v \in Users, u # v,
             BeginCh(t, "dm", "find", [room |-> r, by |-> u, with |-> v, kind |-> "dm"])
      PROVE  \E op, at, arg : ChCall(op, at, arg) /\ BeginCh(t, op, at, arg)
  <2>1. ChCall("dm", "find", [room |-> r, by |-> u, with |-> v, kind |-> "dm"])
    BY <1>2, FreshRoomIs
  <2> QED
    BY <1>2, <2>1
<1>3. ASSUME NEW r \in Known, NEW u \in Users, NEW op \in {"join", "leave", "read"}, NEW at,
             at = IF op = "read" THEN "mark" ELSE "list", BeginCh(t, op, at, [room |-> r, user |-> u])
      PROVE  \E o, a, arg : ChCall(o, a, arg) /\ BeginCh(t, o, a, arg)
  <2>1. ChCall(op, at, [room |-> r, user |-> u])
    BY <1>3 DEF Known
  <2> QED
    BY <1>3, <2>1
<1>4. ASSUME NEW r \in Known, NEW u \in Users, BeginCh(t, "rename", "check", [room |-> r, by |-> u])
      PROVE  \E o, a, arg : ChCall(o, a, arg) /\ BeginCh(t, o, a, arg)
  <2>1. ChCall("rename", "check", [room |-> r, by |-> u])
    BY DEF Known
  <2> QED
    BY <1>4, <2>1
<1>5. ASSUME NEW r \in Known, BeginCh(t, "delete", "list", [room |-> r])
      PROVE  \E o, a, arg : ChCall(o, a, arg) /\ BeginCh(t, o, a, arg)
  <2>1. ChCall("delete", "list", [room |-> r])
    BY DEF Known
  <2> QED
    BY <1>5, <2>1
<1>6. ASSUME NEW r \in Known, NEW u \in Users, NEW op \in Pagers, NEW p, \E kind : p \in FreshPage(kind),
             BeginCh(t, op, "check", [room |-> r, by |-> u, page |-> p])
      PROVE  \E o, a, arg : ChCall(o, a, arg) /\ BeginCh(t, o, a, arg)
  <2>1. p \in Pages /\ pages[p] = NoPage /\ \A v \in Tasks : OnPage(v) => Arg(v).page # p
    BY <1>6 DEF FreshPage, OnPage
  <2>2. ChCall(op, "check", [room |-> r, by |-> u, page |-> p])
    BY <2>1 DEF Known
  <2> QED
    BY <1>6, <2>2
<1>7. ASSUME NEW r \in Known, NEW u \in Users, NEW p \in {q \in Pages : pages[q].room = r},
             NEW op \in {"edit", "erase"}, BeginCh(t, op, "check", [room |-> r, by |-> u, page |-> p])
      PROVE  \E o, a, arg : ChCall(o, a, arg) /\ BeginCh(t, o, a, arg)
  <2>1. ChCall(op, "check", [room |-> r, by |-> u, page |-> p])
    BY DEF Known
  <2> QED
    BY <1>7, <2>1
<1> HIDE DEF ChCall, ChOps, ChMakers, PageOps, Pagers
<1>8. CASE RoomCalls(t)
  <2> SUFFICES ASSUME ~ \E o, a, arg : ChCall(o, a, arg) /\ BeginCh(t, o, a, arg)
               PROVE  FALSE
    OBVIOUS
  <2>1. \A r \in Known, u \in Users : ~ BeginCh(t, "join", "list", [room |-> r, user |-> u])
                                      /\ ~ BeginCh(t, "leave", "list", [room |-> r, user |-> u])
                                      /\ ~ BeginCh(t, "read", "mark", [room |-> r, user |-> u])
    BY <1>3
  <2> QED
    BY <1>1, <1>2, <1>4, <1>5, <1>8, <2>1, Zenon DEF RoomCalls
<1>9. CASE PageCalls(t)
  <2> SUFFICES ASSUME ~ \E o, a, arg : ChCall(o, a, arg) /\ BeginCh(t, o, a, arg)
               PROVE  FALSE
    OBVIOUS
  <2>1. \A kind : \A r \in Known, u \in Users, p \in FreshPage(kind) :
            /\ ~ BeginCh(t, "send", "check", [room |-> r, by |-> u, page |-> p])
            /\ ~ BeginCh(t, "write", "check", [room |-> r, by |-> u, page |-> p])
    BY <1>6 DEF Pagers
  <2>2. PICK r \in Known : \E u \in Users :
            \/ \E p \in FreshPage("message") :
                    BeginCh(t, "send", "check", [room |-> r, by |-> u, page |-> p])
            \/ \E p \in FreshPage("note") \cup FreshPage("canvas") :
                    BeginCh(t, "write", "check", [room |-> r, by |-> u, page |-> p])
            \/ \E p \in {q \in Pages : pages[q].room = r}, op \in {"edit", "erase"} :
                    BeginCh(t, op, "check", [room |-> r, by |-> u, page |-> p])
    BY <1>9, Zenon DEF PageCalls
  <2> QED
    BY <1>7, <2>1, <2>2, Zenon
<1> QED
  BY <1>8, <1>9

LEMMA ChBegunIs ==
    ASSUME Shaped, NEW t \in Tasks, NEW op, NEW at, NEW arg, BeginCh(t, op, at, arg)
    PROVE  /\ Shaped' /\ Only(t) /\ call[t].op = "none"
           /\ call'[t].op = op /\ call'[t].at = at /\ call'[t].arg = arg
           /\ UNCHANGED <<chTables, due, deleted>>
  BY DEF BeginCh, Begin, BeginWith, Shaped, Only, Running

\* Nothing in the tables of the channels but what is of a known one.
LEMMA ChRoomsStill ==
    ASSUME ChBase, UNCHANGED <<rooms, deleted>>, clock' \in Nat, clock <= clock', due' \in [Places -> Nat],
           channel_members' \in [Rooms -> [Users -> {"none", "bare", "whole"}]],
           \A r \in Rooms \ Known, u \in Users : channel_members'[r][u] = channel_members[r][u],
           \A box \in sidebar' : box \in sidebar \/ (SideRow(box)' /\ box.room \in Known)
    PROVE  RoomTables' /\ RoomsHold' /\ ChPasses /\ Known' = Known
<1>1. Known' = Known
  BY DEF Known
<1>2. ChPasses
  BY <1>1 DEF ChPasses, ChBase, RoomTables
<1>3. RoomTables'
  BY <1>2, RowKept DEF ChBase, RoomTables
<1>4. \A r \in Rooms \ Known, u \in Users : RowsOf(r, u)' = {}
  BY DEF ChBase, RoomsHold, RowsOf
<1>5. RoomsHold'
  BY <1>1, <1>4 DEF ChBase, RoomsHold
<1> QED
  BY <1>1, <1>2, <1>3, <1>5

LEMMA ChTablesStill ==
    ASSUME ChBase, UNCHANGED <<rooms, channel_members, sidebar, deleted>>, clock' \in Nat, clock <= clock',
           due' \in [Places -> Nat]
    PROVE  RoomTables' /\ RoomsHold' /\ ChPasses /\ Known' = Known
<1>1. channel_members' \in [Rooms -> [Users -> {"none", "bare", "whole"}]]
  BY DEF ChBase, RoomTables
<1> QED
  BY <1>1, ChRoomsStill

LEMMA ChBegins ==
    ASSUME ChBase, NEW t \in Tasks, RoomCalls(t) \/ PageCalls(t)
    PROVE  ChBase'
<1>1. PICK op, at, arg : ChCall(op, at, arg) /\ BeginCh(t, op, at, arg)
  BY ChCallsBegin
<1>2. /\ Shaped' /\ Only(t) /\ call'[t].op = op /\ call'[t].at = at /\ call'[t].arg = arg
      /\ UNCHANGED <<rooms, channel_members, sidebar, pages, clock, due, deleted>>
  BY <1>1, ChBegunIs DEF ChBase, chTables
<1>3. RoomTables' /\ RoomsHold' /\ ChPasses /\ Known' = Known
  BY <1>2, ChTablesStill DEF ChBase, RoomTables
<1>4. \A v \in Tasks \ {t} : ChAsks(v)' /\ ChLearned(v)'
  BY <1>2, <1>3, ChStandsBy DEF ChBase, Only
<1>5. Arg(t)' = arg
  BY <1>2 DEF Arg
<1>6. op \in ChMakers => arg.room \notin Known /\ \A v \in Tasks : MakesRoom(v) => Arg(v).room # arg.room
  BY <1>1 DEF ChCall, Unused, Known, MakesRoom, ChMakers
<1>7. ChAsks(t)'
  BY <1>1, <1>2, <1>3, <1>5, <1>6 DEF ChCall, ChAsks, PageOps, ChMakers
<1>8. ChLearned(t)'
  BY <1>1, <1>2 DEF ChCall, ChLearned, ChAdds, ChMakers, PageOps
<1>9. OneRoomMaker'
  <2> SUFFICES ASSUME NEW v \in Tasks, NEW w \in Tasks, MakesRoom(v)', MakesRoom(w)', Arg(v)'.room = Arg(w)'.room
               PROVE  v = w
    BY DEF OneRoomMaker
  <2>1. \A x \in Tasks \ {t} : (MakesRoom(x)' <=> MakesRoom(x)) /\ Arg(x)' = Arg(x)
    BY <1>2 DEF Only, MakesRoom, Arg
  <2>2. MakesRoom(t)' <=> op \in ChMakers
    BY <1>2 DEF MakesRoom
  <2> QED
    BY <1>5, <1>6, <2>1, <2>2 DEF ChBase, OneRoomMaker
<1> QED
  BY <1>2, <1>3, <1>4, <1>7, <1>8, <1>9 DEF ChBase

-----------------------------------------------------------------------------
(* Steps that read. *)

LEMMA NewestIs ==
    ASSUME ChBase, NEW r \in Rooms, NEW u \in Users, RowsOf(r, u) # {}
    PROVE  Newest(RowsOf(r, u)) \in RowsOf(r, u)
<1> DEFINE times == {box.at : box \in RowsOf(r, u)}
<1>1. \A box \in RowsOf(r, u) : box.at \in 0 .. clock
  BY DEF ChBase, RoomTables, SideRow, RowsOf
<1>2. times \subseteq Nat /\ times # {} /\ clock \in Nat /\ \A x \in times : x <= clock
  BY <1>1 DEF ChBase, RoomTables
<1>3. PICK k \in times : \A y \in times : k >= y
  BY <1>2, Greatest
<1>4. PICK box \in RowsOf(r, u) : box.at = k
  BY <1>3
<1>5. \A other \in RowsOf(r, u) : other.at <= box.at
  BY <1>1, <1>3, <1>4
<1> HIDE DEF times
<1> QED
  BY <1>5, Zenon DEF Newest

\* What a call was asked stays, when no channel becomes known and it is as far
\* from making one as before.
LEMMA AsksStay ==
    ASSUME ChBase, ChPasses, Known' = Known, NEW t \in Tasks, NEW at, NEW got, Continues(t, at, got),
           MakesRoom(t) => (at \in {"find", "row"} <=> call[t].at \in {"find", "row"})
    PROVE  ChAsks(t)'
<1>1. call'[t].op = call[t].op /\ call'[t].at = at /\ Arg(t)' = Arg(t)
  BY DEF Continues, Arg
<1> QED
  BY <1>1 DEF ChBase, ChAsks, MakesRoom

LEMMA AfterAddIs ==
    ASSUME Shaped, NEW t \in Tasks, ToBeAdded(Got(t)), AfterAdd(t)
    PROVE  \/ Len(Got(t).todo) = 1 /\ Ceases(t)
           \/ Len(Got(t).todo) # 1 /\ Continues(t, "member", [todo |-> Tail(Got(t).todo), at |-> Got(t).at])
<1> SUFFICES ASSUME NEW g, g = Got(t)
             PROVE  \/ Len(g.todo) = 1 /\ Ceases(t)
                    \/ Len(g.todo) # 1 /\ Continues(t, "member", [todo |-> Tail(g.todo), at |-> g.at])
  OBVIOUS
<1>1. [g EXCEPT !.todo = Tail(@)] = [todo |-> Tail(g.todo), at |-> g.at]
  <2>1. PICK s, n : g = [todo |-> s, at |-> n]
    BY DEF ToBeAdded
  <2>2. ASSUME NEW q
        PROVE  [g EXCEPT !.todo = q] = [todo |-> q, at |-> n]
    BY <2>1
  <2>3. g.todo = s /\ g.at = n
    BY <2>1
  <2> QED
    BY <2>2, <2>3
<1>2. CASE Len(g.todo) = 1
  BY <1>2, LeavesEnds DEF AfterAdd
<1>3. CASE Len(g.todo) # 1
  BY <1>1, <1>3, LearnGoes DEF AfterAdd
<1> QED
  BY <1>2, <1>3

\* A call that has added one user goes on with the next.
LEMMA AfterAddKnows ==
    ASSUME ChBase, ChPasses, Known' = Known, NEW t \in Tasks, AddsTo(t), call[t].at \in {"name", "box"}, AfterAdd(t)
    PROVE  /\ Ceases(t) \/ \E at, got : Continues(t, at, got)
           /\ ~ Ceases(t) => ChAsks(t)' /\ ChLearned(t)'
<1>1. ToBeAdded(Got(t)) /\ (call[t].op = "join" => InLine(Got(t).todo) \subseteq {Arg(t).user}) /\ Shaped
  BY DEF ChBase, ChLearned, AddsTo
<1> SUFFICES ASSUME NEW g, g = Got(t), ~ Ceases(t)
             PROVE  (\E at, got : Continues(t, at, got)) /\ ChAsks(t)' /\ ChLearned(t)'
  OBVIOUS
<1>2. Len(g.todo) # 1 /\ Continues(t, "member", [todo |-> Tail(g.todo), at |-> g.at])
  BY <1>1, AfterAddIs
<1>3. ChAsks(t)'
  BY <1>2, AsksStay
<1>4. Queue(Tail(g.todo)) /\ InLine(Tail(g.todo)) \subseteq InLine(g.todo) /\ g.at \in 0 .. clock'
  BY <1>1, <1>2, FirstInLine DEF ToBeAdded, ChPasses
<1>5. /\ call'[t].op = call[t].op /\ call'[t].at = "member" /\ Arg(t)' = Arg(t)
      /\ Got(t)' = [todo |-> Tail(g.todo), at |-> g.at]
  BY <1>2 DEF Continues, Arg, Got
<1>6. ToBeAdded([todo |-> Tail(g.todo), at |-> g.at])'
  BY <1>4 DEF ToBeAdded
<1>7. ChLearned(t)'
  BY <1>1, <1>4, <1>5, <1>6 DEF ChLearned, AddsTo, ChAdds
<1> QED
  BY <1>2, <1>3, <1>7

\* A call that looks on.
ChLooks(t) ==
    \/ CheckChannelMember(t) \/ FindWorkspace(t) \/ FindDm(t) \/ ReadChannelName(t) \/ ListMembers(t)
    \/ PeekBox(t) \/ FindReader(t) \/ ReadBoxes(t) \/ DropCh(t)

LEMMA ChLooksStill ==
    ASSUME ChBase, NEW t \in Tasks, ChLooks(t)
    PROVE  UNCHANGED <<chTables, deleted>> /\ due' \in [Places -> Nat]
<1>1. CASE ListMembers(t)
  <2>1. due \in [Places -> Nat] /\ UNCHANGED <<chTables, deleted>>
    BY <1>1 DEF ChBase, RoomTables, ListMembers
  <2>2. PICK S : due' = [pl \in Places |-> IF pl \in S THEN due[pl] + 1 ELSE due[pl]]
    BY <1>1 DEF ListMembers
  <2> QED
    BY <2>1, <2>2
<1>2. CASE ~ ListMembers(t)
  <2>1. UNCHANGED <<chTables, due, deleted>>
    BY <1>2 DEF ChLooks, chVars, chHistory, CheckChannelMember, FindWorkspace, FindDm, ReadChannelName,
                PeekBox, FindReader, ReadBoxes, DropCh
  <2> QED
    BY <2>1 DEF ChBase, RoomTables
<1> QED
  BY <1>1, <1>2

LEMMA ChLooksKeeps ==
    ASSUME ChBase, NEW t \in Tasks, ChLooks(t)
    PROVE  ChBase'
<1>1. UNCHANGED <<rooms, channel_members, sidebar, pages, clock, deleted>> /\ due' \in [Places -> Nat] /\ Shaped
  BY ChLooksStill DEF chTables, ChBase
<1>2. RoomTables' /\ RoomsHold' /\ ChPasses /\ Known' = Known /\ clock' = clock
  BY <1>1, ChTablesStill DEF ChBase, RoomTables
<1>3. ChAsks(t) /\ ChLearned(t)
  BY DEF ChBase
<1>4. CASE Ceases(t)
  BY <1>2, <1>4, ChEnds
<1>5. ASSUME NEW at, NEW got, Continues(t, at, got), ChAsks(t)', ChLearned(t)'
      PROVE  ChBase'
  BY <1>2, <1>5, ChGoes
<1>6. ASSUME NEW at, at \in {"page", "list", "row", "rows"} \cup {"box"}, Goto(t, at), call[t].op = "send" => at = "page",
             MakesRoom(t) => (at = "row" <=> call[t].at = "find"), call[t].at # "row", at = "box" => call[t].at = "name",
             call[t].op = "read" => call[t].at = "who"
      PROVE  ChBase'
  <2>1. Continues(t, at, Got(t))
    BY <1>1, <1>6, GotoGoes
  <2>2. ChAsks(t)'
    BY <1>2, <1>6, <2>1, AsksStay
  <2>3. /\ call'[t].op = call[t].op /\ call'[t].at = at /\ Arg(t)' = Arg(t) /\ Got(t)' = Got(t)
    BY <2>1 DEF Continues, Arg, Got
  <2>4. \A g : ToBeAdded(g)' <=> ToBeAdded(g)
    BY <1>2 DEF ToBeAdded
  <2>5. ChLearned(t)'
    BY <1>2, <1>3, <1>6, <2>3, <2>4 DEF ChLearned, ChAdds
  <2> QED
    BY <1>5, <2>1, <2>2, <2>5
<1>7. CASE CheckChannelMember(t)
  <2>1. CASE Finish(t)
    BY <1>1, <1>4, <2>1, LeavesEnds
  <2>2. CASE ~ Finish(t)
    <3>1. PICK at \in {"list", "page"} : Goto(t, at) /\ (call[t].op = "rename" <=> at = "list")
      BY <1>7, <2>2 DEF CheckChannelMember
    <3>2. call[t].at = "check" /\ call[t].op \notin ChMakers \cup {"read"}
      BY <1>7 DEF CheckChannelMember, On, ChMakers
    <3> QED
      BY <1>6, <3>1, <3>2 DEF MakesRoom
  <2> QED
    BY <2>1, <2>2
<1>8. CASE FindWorkspace(t)
  <2>1. call[t].at = "list" /\ call[t].op \in {"join", "leave", "rename", "delete"} /\ ~ MakesRoom(t)
    BY <1>8 DEF FindWorkspace, On, MakesRoom, ChMakers
  <2>2. CASE Finish(t)
    BY <1>1, <1>4, <2>2, LeavesEnds
  <2>3. CASE ~ Finish(t) /\ call[t].op # "join"
    <3>1. PICK at \in {"rows", "row"} : Goto(t, at)
      BY <1>8, <2>1, <2>3 DEF FindWorkspace
    <3> QED
      BY <1>6, <2>1, <3>1
  <2>4. CASE ~ Finish(t) /\ call[t].op = "join"
    <3> SUFFICES ASSUME NEW u, u = Arg(t).user, NEW g, g = [todo |-> <<u>>, at |-> 0]
                 PROVE  ChBase'
      OBVIOUS
    <3>1. Learn(t, "member", g)
      BY <1>8, <2>4 DEF FindWorkspace
    <3>2. Continues(t, "member", g)
      BY <1>1, <3>1, LearnGoes
    <3>3. ChAsks(t)'
      BY <1>2, <2>1, <3>2, AsksStay
    <3>4. u \in Users
      BY <1>3, <2>4 DEF ChAsks
    <3>5. Queue(<<u>>) /\ InLine(<<u>>) \subseteq {u}
      BY <3>4 DEF Queue, Lined, InLine
    <3>6. ToBeAdded(g)'
      BY <1>2, <3>5 DEF ToBeAdded, ChPasses
    <3>7. call'[t].op = "join" /\ call'[t].at = "member" /\ Arg(t)' = Arg(t) /\ Got(t)' = g
      BY <2>4, <3>2 DEF Continues, Arg, Got
    <3>8. ChLearned(t)'
      BY <3>5, <3>6, <3>7 DEF ChLearned
    <3> QED
      BY <1>5, <3>2, <3>3, <3>8
  <2> QED
    BY <2>2, <2>3, <2>4
<1>9. CASE FindDm(t)
  <2>1. call[t].at = "find" /\ call[t].op = "dm" /\ (Finish(t) \/ Goto(t, "row"))
    BY <1>9 DEF FindDm, On
  <2> QED
    BY <1>1, <1>4, <1>6, <2>1, LeavesEnds DEF MakesRoom
<1>10. CASE ReadChannelName(t)
  <2>1. call[t].at = "name" /\ AddsTo(t) /\ call[t].op \notin {"read", "send"} /\ (AfterAdd(t) \/ Goto(t, "box"))
    BY <1>10 DEF ReadChannelName, On, AddsTo, ChAdds
  <2>2. CASE AfterAdd(t)
    BY <1>2, <1>4, <1>5, <2>1, <2>2, AfterAddKnows
  <2>3. CASE Goto(t, "box")
    BY <1>6, <2>1, <2>3
  <2> QED
    BY <2>1, <2>2, <2>3
<1>11. CASE ListMembers(t)
  <2>1. call[t].at = "list" /\ call[t].op = "send" /\ ~ MakesRoom(t)
    BY <1>11 DEF ListMembers, On, MakesRoom, ChMakers
  <2>2. PICK S : S = Whole(Arg(t).room) \ {Arg(t).by}
                 /\ IF S = {} THEN Finish(t) ELSE Learn(t, "peek", [todo |-> SetToSeq(S), at |-> Got(t)])
    BY <1>11 DEF ListMembers
  <2>3. CASE S = {}
    BY <1>1, <1>4, <2>2, <2>3, LeavesEnds
  <2>4. CASE S # {}
    <3> SUFFICES ASSUME NEW s, s = SetToSeq(S), NEW g, g = [todo |-> s, at |-> Got(t)]
                 PROVE  ChBase'
      OBVIOUS
    <3>1. Continues(t, "peek", g)
      BY <1>1, <2>2, <2>4, LearnGoes
    <3>2. Lined(s) /\ InLine(s) = S
      BY <2>2, SetToSeqIs DEF Whole
    <3>3. Queue(s) /\ Arg(t).by \notin InLine(s)
      <4>1. InLine(<<>>) = {}
        BY DEF InLine
      <4>2. s # <<>>
        BY <2>4, <3>2, <4>1
      <4> QED
        BY <2>2, <3>2, <4>2 DEF Queue
    <3>4. ChAsks(t)'
      BY <1>2, <2>1, <3>1, AsksStay
    <3>5. call'[t].op = "send" /\ call'[t].at = "peek" /\ Arg(t)' = Arg(t) /\ Got(t)' = g
      BY <2>1, <3>1 DEF Continues, Arg, Got
    <3>6. Got(t) \in 0 .. clock
      BY <1>3, <2>1 DEF ChLearned
    <3>7. ToBeTold(t, g)'
      BY <1>2, <3>3, <3>5, <3>6 DEF ToBeTold
    <3>8. ChLearned(t)'
      BY <3>5, <3>7 DEF ChLearned, ChAdds
    <3> QED
      BY <1>5, <3>1, <3>4, <3>8
  <2> QED
    BY <2>3, <2>4
<1>12. CASE PeekBox(t)
  <2>1. call[t].at = "peek" /\ call[t].op = "send" /\ ~ MakesRoom(t) /\ ToBeTold(t, Got(t))
    BY <1>3, <1>12 DEF PeekBox, On, MakesRoom, ChMakers, ChLearned
  <2> SUFFICES ASSUME NEW g, g = Got(t)
               PROVE  ChBase'
    OBVIOUS
  <2>2. Queue(g.todo) /\ Head(g.todo) \in Users /\ Arg(t).room \in Rooms
    BY <1>3, <2>1, FirstInLine DEF ToBeTold, ChAsks
  <2>3. CASE Finish(t)
    BY <1>1, <1>4, <2>3, LeavesEnds
  <2>4. ASSUME NEW at \in {"peek", "unbox"}, NEW got, Learn(t, at, got), ToBeTold(t, got),
               at = "unbox" => OwnRow(t, got.old, Head(got.todo))
        PROVE  ChBase'
    <3>1. Continues(t, at, got)
      BY <1>1, <2>4, LearnGoes
    <3>2. ChAsks(t)'
      BY <1>2, <2>1, <3>1, AsksStay
    <3>3. call'[t].op = "send" /\ call'[t].at = at /\ Arg(t)' = Arg(t) /\ Got(t)' = got
      BY <2>1, <3>1 DEF Continues, Arg, Got
    <3>4. ToBeTold(t, got)'
      BY <1>2, <2>4, <3>3 DEF ToBeTold
    <3>5. \A o, h : OwnRow(t, o, h) => OwnRow(t, o, h)'
      BY <1>2, <3>3, RowKept DEF OwnRow
    <3> SUFFICES ASSUME NEW o, o = got.old, NEW h, h = Head(got.todo)
                 PROVE  ChBase'
      OBVIOUS
    <3>6. at = "unbox" => OwnRow(t, o, h)'
      BY <2>4, <3>5
    <3>7. ChLearned(t)'
      BY <3>3, <3>4, <3>6 DEF ChLearned, ChAdds
    <3> QED
      BY <1>5, <3>1, <3>2, <3>7
  <2>5. CASE RowsOf(Arg(t).room, Head(g.todo)) = {} /\ Len(g.todo) # 1
    <3>1. Learn(t, "peek", [todo |-> Tail(g.todo), at |-> g.at])
      BY <1>12, <2>5 DEF PeekBox, AfterBump
    <3>2. ToBeTold(t, [todo |-> Tail(g.todo), at |-> g.at])
      BY <2>1, <2>2, <2>5, FirstInLine DEF ToBeTold
    <3> QED
      BY <2>4, <3>1, <3>2
  <2>6. CASE RowsOf(Arg(t).room, Head(g.todo)) # {}
    <3> DEFINE old == Newest(RowsOf(Arg(t).room, Head(g.todo)))
    <3>1. old \in RowsOf(Arg(t).room, Head(g.todo))
      BY <2>2, <2>6, NewestIs
    <3>2. OwnRow(t, old, Head(g.todo))
      BY <3>1 DEF OwnRow, RowsOf, ChBase, RoomTables
    <3>3. Learn(t, "unbox", [todo |-> g.todo, at |-> g.at, old |-> old])
      BY <1>12, <2>6 DEF PeekBox
    <3> HIDE DEF old
    <3>4. ToBeTold(t, [todo |-> g.todo, at |-> g.at, old |-> old])
      BY <2>1 DEF ToBeTold
    <3> QED
      BY <2>4, <3>2, <3>3, <3>4
  <2> QED
    BY <1>12, <2>3, <2>5, <2>6 DEF PeekBox, AfterBump
<1>13. CASE FindReader(t)
  <2>1. call[t].at = "who" /\ call[t].op = "read" /\ ~ MakesRoom(t) /\ (Finish(t) \/ Goto(t, "rows"))
    BY <1>13 DEF FindReader, On, MakesRoom, ChMakers
  <2> QED
    BY <1>1, <1>4, <1>6, <2>1, LeavesEnds
<1>14. CASE ReadBoxes(t)
  <2> SUFFICES ASSUME NEW got, got = [at |-> IF call[t].op = "read" THEN Got(t).at ELSE 0,
                                      rows |-> RowsOf(Arg(t).room, Arg(t).user)]
               PROVE  ChBase'
    OBVIOUS
  <2>1. call[t].at = "rows" /\ call[t].op \in {"read", "leave"} /\ ~ MakesRoom(t) /\ Learn(t, "unbox", got)
    BY <1>14 DEF ReadBoxes, On, MakesRoom, ChMakers
  <2>2. Continues(t, "unbox", got)
    BY <1>1, <2>1, LearnGoes
  <2>3. ChAsks(t)'
    BY <1>2, <2>1, <2>2, AsksStay
  <2>4. call'[t].op = call[t].op /\ call'[t].at = "unbox" /\ Arg(t)' = Arg(t) /\ Got(t)' = got
    BY <2>2 DEF Continues, Arg, Got
  <2>5. Unboxing(t, got)'
    BY <1>2, <1>3, <2>1, <2>4 DEF Unboxing, ChLearned, RowsOf, ChPasses
  <2>6. ChLearned(t)'
    BY <2>1, <2>4, <2>5 DEF ChLearned, ChAdds
  <2> QED
    BY <1>5, <2>2, <2>3, <2>6
<1>15. CASE DropCh(t)
  BY <1>1, <1>4, <1>15, LeavesEnds DEF DropCh
<1> QED
  BY <1>7, <1>8, <1>9, <1>10, <1>11, <1>12, <1>13, <1>14, <1>15 DEF ChLooks

-----------------------------------------------------------------------------
(* Steps that write. *)

\* Records of a task and of the sidebar, one part changed.
LEMMA LineTimed ==
    ASSUME NEW g, g = [todo |-> g.todo, at |-> g.at], NEW n
    PROVE  [g EXCEPT !.at = n] = [todo |-> g.todo, at |-> n]
<1>1. PICK s, m : g = [todo |-> s, at |-> m]
  OBVIOUS
<1>2. [g EXCEPT !.at = n] = [todo |-> s, at |-> n] /\ g.todo = s
  BY <1>1
<1> QED
  BY <1>2

LEMMA RowsLeft ==
    ASSUME NEW g, g = [at |-> g.at, rows |-> g.rows], NEW left
    PROVE  [g EXCEPT !.rows = left] = [at |-> g.at, rows |-> left]
<1>1. PICK s, m : g = [at |-> m, rows |-> s]
  OBVIOUS
<1>2. [g EXCEPT !.rows = left] = [at |-> m, rows |-> left] /\ g.at = m
  BY <1>1
<1> QED
  BY <1>2

BumpedRow(box, n) == [room |-> box.room, user |-> box.user, at |-> n, unread |-> box.unread + 1]

LEMMA BumpedIs ==
    ASSUME NEW box, SideRow(box), NEW n
    PROVE  [box EXCEPT !.at = n, !.unread = @ + 1] = BumpedRow(box, n)
<1> DEFINE half == [box EXCEPT !.at = n]
<1>1. PICK r, u, m, k : box = [room |-> r, user |-> u, at |-> m, unread |-> k]
  BY DEF SideRow
<1>2. half = [room |-> r, user |-> u, at |-> n, unread |-> k]
  BY <1>1
<1>3. box.room = r /\ box.user = u /\ box.unread = k /\ half.unread = k
  BY <1>1, <1>2
<1>4. [box EXCEPT !.at = n, !.unread = @ + 1] = [half EXCEPT !.unread = half.unread + 1]
  BY Zenon
<1> HIDE DEF half
<1>5. ASSUME NEW j
      PROVE  [half EXCEPT !.unread = j] = [room |-> r, user |-> u, at |-> n, unread |-> j]
  BY <1>2
<1> QED
  BY <1>3, <1>4, <1>5 DEF BumpedRow

LEMMA AfterBumpIs ==
    ASSUME Shaped, NEW t \in Tasks, AfterBump(t)
    PROVE  \/ Len(Got(t).todo) = 1 /\ Ceases(t)
           \/ Len(Got(t).todo) # 1 /\ Continues(t, "peek", [todo |-> Tail(Got(t).todo), at |-> Got(t).at])
  BY LeavesEnds, LearnGoes DEF AfterBump

LEMMA DueWritten ==
    ASSUME RoomTables, NEW r \in Rooms, NEW u \in Users, due' = [due EXCEPT ![<<r, u>>] = 0]
    PROVE  /\ due' \in [Places -> Nat] /\ due'[<<r, u>>] = 0
           /\ \A q \in Rooms, w \in Users : q # r \/ w # u => due'[<<q, w>>] = due[<<q, w>>]
  BY DEF RoomTables, Places

\* A call goes on in a channel that was known before.
LEMMA ChGoesOn ==
    ASSUME ChBase, NEW t \in Tasks, NEW at, NEW got, Continues(t, at, got), ~ MakesRoom(t) \/ at \notin {"find", "row"},
           MakesRoom(t) => call[t].at \notin {"find", "row"},
           RoomTables', RoomsHold', ChPasses, Known' = Known, ChLearned(t)'
    PROVE  ChBase'
<1>1. ChAsks(t)'
  BY AsksStay
<1> QED
  BY <1>1, ChGoes

LEMMA ChEndsHere ==
    ASSUME ChBase, NEW t \in Tasks, Ceases(t), RoomTables', RoomsHold', ChPasses, Known' = Known
    PROVE  ChBase'
  BY ChEnds

LEMMA InsertChannelKeeps ==
    ASSUME ChBase, NEW t \in Tasks, InsertChannel(t)
    PROVE  ChBase'
<1> SUFFICES ASSUME NEW r, r = Arg(t).room, NEW s, s = ToAdd(Arg(t)), NEW g, g = [todo |-> s, at |-> 0]
             PROVE  ChBase'
  OBVIOUS
<1>1. /\ MakesRoom(t) /\ call[t].at = "row" /\ call[t].op \in ChMakers /\ call[t].op \notin {"send", "read", "leave"}
      /\ rooms' = [rooms EXCEPT ![r] = Arg(t).kind] /\ Learn(t, "member", g)
      /\ UNCHANGED <<channel_members, sidebar, clock, due, deleted>>
  BY DEF InsertChannel, On, MakesRoom, ChMakers, chHistory
<1>2. r \in Rooms /\ r \notin Known /\ Arg(t).kind \in {"public", "private", "dm"} /\ ChAsks(t) /\ Shaped
  BY <1>1 DEF ChBase, ChAsks, ChMakers
<1>3. Continues(t, "member", g)
  BY <1>1, <1>2, LearnGoes
<1>4. /\ Known' = Known \cup {r} /\ rooms' \in [Rooms -> RoomTypes] /\ rooms'[r] # "bare"
      /\ \A q \in Rooms \ {r} : rooms'[q] = rooms[q]
  BY <1>1, <1>2 DEF Known, ChBase, RoomTables, RoomTypes
<1>5. ChPasses
  BY <1>1, <1>4 DEF ChPasses, ChBase, RoomTables
<1>6. RoomTables'
  BY <1>1, <1>4, <1>5, RowKept DEF ChBase, RoomTables
<1>7. RoomsHold'
  <2>1. \A q, u : RowsOf(q, u)' = RowsOf(q, u)
    BY <1>1 DEF RowsOf
  <2>2. \A q \in Rooms \ Known', w \in Users : channel_members'[q][w] = "none" /\ RowsOf(q, w)' = {}
    BY <1>1, <1>4, <2>1 DEF ChBase, RoomsHold
  <2>3. \A q \in Rooms : rooms'[q] = "bare" => q \in deleted'
    <3>1. \A q \in Rooms : rooms[q] = "bare" => q \in deleted
      BY DEF ChBase, RoomsHold
    <3>2. deleted' = deleted
      BY <1>1
    <3> QED
      BY <1>4, <3>1, <3>2
  <2> QED
    BY <2>2, <2>3 DEF RoomsHold
<1>8. \A v \in Tasks \ {t} : MakesRoom(v) => Arg(v).room \notin Known' \ Known
  BY <1>1, <1>4 DEF ChBase, OneRoomMaker
<1>9. call'[t].op = call[t].op /\ call'[t].at = "member" /\ Arg(t)' = Arg(t) /\ Got(t)' = g
  BY <1>3 DEF Continues, Arg, Got
<1>10. ChAsks(t)'
  BY <1>1, <1>2, <1>4, <1>9 DEF ChAsks
<1>11. Queue(s)
  BY <1>1, <1>2, ToAddIs DEF ChAsks
<1>12. ChLearned(t)'
  <2>1. ToBeAdded(g)'
    BY <1>5, <1>11 DEF ToBeAdded, ChPasses
  <2> QED
    BY <1>1, <1>9, <2>1 DEF ChLearned, ChMakers
<1> QED
  BY <1>3, <1>5, <1>6, <1>7, <1>8, <1>10, <1>12, ChGoes

LEMMA InsertChannelMemberKeeps ==
    ASSUME ChBase, NEW t \in Tasks, InsertChannelMember(t)
    PROVE  ChBase'
<1> SUFFICES ASSUME NEW r, r = Arg(t).room, NEW g, g = Got(t), NEW u, u = Head(g.todo),
                    NEW h, h = [todo |-> g.todo, at |-> clock]
             PROVE  ChBase'
  OBVIOUS
<1>1. /\ AddsTo(t) /\ call[t].at = "member" /\ call[t].op \in ChAdds /\ clock' = clock + 1
      /\ channel_members' = [channel_members EXCEPT ![r][u] = "whole"] /\ due' = [due EXCEPT ![<<r, u>>] = 0]
      /\ Learn(t, "name", [g EXCEPT !.at = clock]) /\ UNCHANGED <<rooms, sidebar, deleted>>
  BY DEF InsertChannelMember, On, AddsTo, ChAdds
<1>2. /\ Shaped /\ RoomTables /\ ToBeAdded(g) /\ (call[t].op = "join" => InLine(g.todo) \subseteq {Arg(t).user})
      /\ r \in Rooms /\ r \in Known
  BY <1>1 DEF ChBase, ChLearned, ChAsks, ChAdds, ChMakers, Known
<1>3. u \in Users
  BY <1>2, FirstInLine DEF ToBeAdded
<1>4. [g EXCEPT !.at = clock] = h
  BY <1>2, LineTimed DEF ToBeAdded
<1>5. Continues(t, "name", h)
  BY <1>1, <1>2, <1>4, LearnGoes
<1>6. /\ channel_members' \in [Rooms -> [Users -> {"none", "bare", "whole"}]]
      /\ \A q \in Rooms, w \in Users : q # r \/ w # u => channel_members'[q][w] = channel_members[q][w]
      /\ due' \in [Places -> Nat]
  <2>1. channel_members' = [channel_members EXCEPT ![r][u] = "whole"] /\ RoomTables
    BY <1>1, <1>2
  <2>2. due' = [due EXCEPT ![<<r, u>>] = 0]
    BY <1>1
  <2>3. due' \in [Places -> Nat]
    BY <1>2, <1>3, <2>2, DueWritten
  <2>4. /\ channel_members' \in [Rooms -> [Users -> {"none", "bare", "whole"}]]
        /\ \A q \in Rooms, w \in Users : q # r \/ w # u => channel_members'[q][w] = channel_members[q][w]
    <3> HIDE DEF ChBase
    <3>1. r \in Rooms /\ u \in Users
      BY <1>2, <1>3
    <3> QED
      BY <2>1, <3>1 DEF RoomTables
  <2> QED
    BY <2>1, <2>3, <2>4
<1>61. clock \in Nat /\ clock' \in Nat /\ clock <= clock'
  BY <1>1, <1>2 DEF RoomTables
<1>7. RoomTables' /\ RoomsHold' /\ ChPasses /\ Known' = Known
  BY <1>1, <1>2, <1>6, <1>61, ChRoomsStill
<1>8. call'[t].op = call[t].op /\ call'[t].at = "name" /\ Arg(t)' = Arg(t) /\ Got(t)' = h
  BY <1>5 DEF Continues, Arg, Got
<1>9. ChLearned(t)'
  <2>1. ToBeAdded(h)'
    BY <1>1, <1>2, <1>61 DEF ToBeAdded
  <2> QED
    BY <1>1, <1>2, <1>8, <2>1 DEF ChLearned, ChAdds
<1> QED
  BY <1>1, <1>5, <1>7, <1>9, ChGoesOn

LEMMA InsertBoxKeeps ==
    ASSUME ChBase, NEW t \in Tasks, InsertBox(t)
    PROVE  ChBase'
<1> SUFFICES ASSUME NEW r, r = Arg(t).room, NEW g, g = Got(t),
                    NEW new, new = [room |-> r, user |-> Head(g.todo), at |-> g.at, unread |-> 0]
             PROVE  ChBase'
  OBVIOUS
<1>1. /\ AddsTo(t) /\ call[t].at = "box" /\ call[t].op \in ChAdds
      /\ sidebar' = sidebar \cup {new} /\ AfterAdd(t) /\ UNCHANGED <<rooms, channel_members, clock, due, deleted>>
  BY DEF InsertBox, On, AddsTo, ChAdds, chHistory
<1>2. Shaped /\ RoomTables /\ ToBeAdded(g) /\ r \in Known /\ r \in Rooms
  BY <1>1 DEF ChBase, ChLearned, ChAsks, ChAdds, ChMakers, Known
<1>3. SideRow(new)'
  BY <1>1, <1>2, FirstInLine DEF SideRow, ToBeAdded
<1>4. RoomTables' /\ RoomsHold' /\ ChPasses /\ Known' = Known
  <2>1. clock' \in Nat /\ clock <= clock' /\ due' \in [Places -> Nat]
        /\ channel_members' \in [Rooms -> [Users -> {"none", "bare", "whole"}]]
    BY <1>1, <1>2 DEF RoomTables
  <2> QED
    BY <1>1, <1>2, <1>3, <2>1, ChRoomsStill
<1>5. (Ceases(t) \/ \E at, got : Continues(t, at, got)) /\ (~ Ceases(t) => ChAsks(t)' /\ ChLearned(t)')
  BY <1>1, <1>4, AfterAddKnows
<1> QED
  BY <1>4, <1>5, ChEnds, ChGoes

LEMMA InsertMessageKeeps ==
    ASSUME ChBase, NEW t \in Tasks, InsertMessage(t)
    PROVE  ChBase'
<1>1. /\ call[t].op = "send" /\ ~ MakesRoom(t) /\ clock' = clock + 1 /\ Learn(t, "list", clock)
      /\ UNCHANGED <<rooms, channel_members, sidebar, due, deleted>>
  BY DEF InsertMessage, On, MakesRoom, ChMakers, chHistory
<1> SUFFICES ASSUME NEW n, n = clock
             PROVE  ChBase'
  OBVIOUS
<1>2. clock' \in Nat /\ clock <= clock' /\ due' \in [Places -> Nat] /\ Shaped /\ n \in 0 .. clock'
  BY <1>1 DEF ChBase, RoomTables
<1>3. Continues(t, "list", n)
  BY <1>1, <1>2, LearnGoes
<1>4. RoomTables' /\ RoomsHold' /\ ChPasses /\ Known' = Known
  BY <1>1, <1>2, ChTablesStill
<1>5. call'[t].op = "send" /\ call'[t].at = "list" /\ Got(t)' = n
  BY <1>1, <1>3 DEF Continues, Got
<1>6. ChLearned(t)'
  BY <1>2, <1>5 DEF ChLearned, ChAdds
<1> QED
  BY <1>1, <1>3, <1>4, <1>6, ChGoesOn

LEMMA DeleteOldKeeps ==
    ASSUME ChBase, NEW t \in Tasks, DeleteOld(t)
    PROVE  ChBase'
<1>1. /\ call[t].op = "send" /\ call[t].at = "unbox" /\ ~ MakesRoom(t) /\ Goto(t, "box") /\ sidebar' \subseteq sidebar
      /\ UNCHANGED <<rooms, channel_members, clock, due, deleted>>
  BY DEF DeleteOld, On, MakesRoom, ChMakers, chHistory
<1>2. clock' \in Nat /\ clock <= clock' /\ due' \in [Places -> Nat] /\ Shaped
      /\ channel_members' \in [Rooms -> [Users -> {"none", "bare", "whole"}]]
  BY <1>1 DEF ChBase, RoomTables
<1>3. Continues(t, "box", Got(t))
  BY <1>1, <1>2, GotoGoes
<1>4. RoomTables' /\ RoomsHold' /\ ChPasses /\ Known' = Known
  BY <1>1, <1>2, ChRoomsStill
<1>5. call'[t].op = "send" /\ call'[t].at = "box" /\ Got(t)' = Got(t) /\ Arg(t)' = Arg(t)
  BY <1>1, <1>3 DEF Continues, Got, Arg
<1>6. ChLearned(t)'
  <2> SUFFICES ASSUME NEW g, g = Got(t), NEW o, o = g.old, NEW u, u = Head(g.todo)
               PROVE  ChLearned(t)'
    OBVIOUS
  <2>1. ToBeTold(t, g) /\ OwnRow(t, o, u)
    BY <1>1 DEF ChBase, ChLearned
  <2>2. ToBeTold(t, g)' /\ OwnRow(t, o, u)'
    BY <1>1, <1>5, <2>1 DEF ToBeTold, OwnRow, SideRow
  <2> QED
    BY <1>5, <2>2 DEF ChLearned, ChAdds
<1> QED
  BY <1>1, <1>3, <1>4, <1>6, ChGoesOn

LEMMA InsertBumpedKeeps ==
    ASSUME ChBase, NEW t \in Tasks, InsertBumped(t)
    PROVE  ChBase'
<1> SUFFICES ASSUME NEW g, g = Got(t), NEW new, new = BumpedRow(g.old, g.at),
                    NEW h, h = [todo |-> Tail(g.todo), at |-> g.at]
             PROVE  ChBase'
  OBVIOUS
<1>1. call[t].op = "send" /\ call[t].at = "box" /\ ~ MakesRoom(t)
  BY DEF InsertBumped, On, MakesRoom, ChMakers
<1>2. Shaped /\ RoomTables /\ ToBeTold(t, g) /\ OwnRow(t, g.old, Head(g.todo)) /\ Arg(t).room \in Known
  BY <1>1 DEF ChBase, ChLearned, ChAsks, ChMakers
<1>3. sidebar' = sidebar \cup {new} /\ AfterBump(t) /\ UNCHANGED <<rooms, channel_members, clock, due, deleted>>
  BY <1>2, BumpedIs DEF InsertBumped, OwnRow, chHistory
<1>4. SideRow(new)' /\ new.room \in Known
  BY <1>2, <1>3 DEF OwnRow, SideRow, BumpedRow, ToBeTold
<1>5. clock' \in Nat /\ clock <= clock' /\ due' \in [Places -> Nat]
      /\ channel_members' \in [Rooms -> [Users -> {"none", "bare", "whole"}]]
  BY <1>2, <1>3 DEF RoomTables
<1>6. RoomTables' /\ RoomsHold' /\ ChPasses /\ Known' = Known
  BY <1>3, <1>4, <1>5, ChRoomsStill
<1>7. CASE Ceases(t)
  BY <1>6, <1>7, ChEndsHere
<1>8. CASE Len(g.todo) # 1 /\ Continues(t, "peek", h)
  <2>1. call'[t].op = "send" /\ call'[t].at = "peek" /\ Got(t)' = h /\ Arg(t)' = Arg(t)
    BY <1>1, <1>8 DEF Continues, Got, Arg
  <2>2. ToBeTold(t, h)'
    BY <1>2, <1>3, <1>8, <2>1, FirstInLine DEF ToBeTold
  <2>3. ChLearned(t)'
    BY <2>1, <2>2 DEF ChLearned, ChAdds
  <2> QED
    BY <1>1, <1>6, <1>8, <2>3, ChGoesOn
<1> QED
  BY <1>2, <1>3, <1>7, <1>8, AfterBumpIs

LEMMA MarkMemberKeeps ==
    ASSUME ChBase, NEW t \in Tasks, MarkMember(t)
    PROVE  ChBase'
<1> SUFFICES ASSUME NEW r, r = Arg(t).room, NEW u, u = Arg(t).user, NEW g, g = [at |-> clock, rows |-> {}],
                    NEW x, x = IF channel_members[r][u] = "none" THEN "bare" ELSE channel_members[r][u]
             PROVE  ChBase'
  OBVIOUS
<1>1. /\ call[t].op = "read" /\ call[t].at = "mark" /\ ~ MakesRoom(t) /\ clock' = clock + 1 /\ Learn(t, "who", g)
      /\ UNCHANGED <<rooms, sidebar, due, deleted>>
  BY DEF MarkMember, On, MakesRoom, ChMakers, chHistory
<1>2. r \in Known /\ r \in Rooms /\ u \in Users /\ Shaped /\ RoomTables
  BY <1>1 DEF ChBase, ChAsks, ChMakers, Known
<1>3. channel_members' = [channel_members EXCEPT ![r][u] = x]
  BY DEF MarkMember
<1>4. x \in {"none", "bare", "whole"}
  BY <1>2 DEF RoomTables
<1>5. /\ channel_members' \in [Rooms -> [Users -> {"none", "bare", "whole"}]]
      /\ \A q \in Rooms, w \in Users : q # r \/ w # u => channel_members'[q][w] = channel_members[q][w]
  BY <1>2, <1>3, <1>4 DEF RoomTables
<1>6. clock \in Nat /\ clock' \in Nat /\ clock <= clock' /\ due' \in [Places -> Nat]
  BY <1>1, <1>2 DEF RoomTables
<1>7. RoomTables' /\ RoomsHold' /\ ChPasses /\ Known' = Known
  BY <1>1, <1>2, <1>5, <1>6, ChRoomsStill
<1>8. Continues(t, "who", g)
  BY <1>1, <1>2, LearnGoes
<1>9. call'[t].op = "read" /\ call'[t].at = "who" /\ Got(t)' = g
  BY <1>1, <1>8 DEF Continues, Got
<1>10. g.at \in 0 .. clock'
  BY <1>1, <1>6
<1>11. ChLearned(t)'
  BY <1>9, <1>10 DEF ChLearned, ChAdds
<1> QED
  BY <1>1, <1>7, <1>8, <1>11, ChGoesOn

LEMMA DeleteBoxesKeeps ==
    ASSUME ChBase, NEW t \in Tasks, DeleteBoxes(t)
    PROVE  ChBase'
<1> SUFFICES ASSUME NEW g, g = Got(t)
             PROVE  ChBase'
  OBVIOUS
<1>1. /\ call[t].op \in {"read", "leave"} /\ call[t].at = "unbox" /\ ~ MakesRoom(t) /\ sidebar' \subseteq sidebar
      /\ UNCHANGED <<rooms, channel_members, clock, due, deleted>>
  BY DEF DeleteBoxes, On, MakesRoom, ChMakers, chHistory
<1>2. Shaped /\ RoomTables /\ Unboxing(t, g)
  BY <1>1 DEF ChBase, ChLearned
<1>3. clock' \in Nat /\ clock <= clock' /\ due' \in [Places -> Nat]
      /\ channel_members' \in [Rooms -> [Users -> {"none", "bare", "whole"}]]
  BY <1>1, <1>2 DEF RoomTables
<1>4. RoomTables' /\ RoomsHold' /\ ChPasses /\ Known' = Known
  BY <1>1, <1>3, ChRoomsStill
<1>5. ASSUME NEW box \in g.rows, Learn(t, "unbox", [g EXCEPT !.rows = @ \ {box}])
      PROVE  ChBase'
  <2> SUFFICES ASSUME NEW h, h = [at |-> g.at, rows |-> g.rows \ {box}]
               PROVE  ChBase'
    OBVIOUS
  <2>1. [g EXCEPT !.rows = @ \ {box}] = h
    BY <1>2, RowsLeft DEF Unboxing
  <2>2. Continues(t, "unbox", h)
    BY <1>2, <1>5, <2>1, LearnGoes
  <2>3. call'[t].op = call[t].op /\ call'[t].at = "unbox" /\ Got(t)' = h /\ Arg(t)' = Arg(t)
    BY <2>2 DEF Continues, Got, Arg
  <2>4. Unboxing(t, h)'
    BY <1>1, <1>2, <2>3 DEF Unboxing
  <2>5. ChLearned(t)'
    BY <1>1, <2>3, <2>4 DEF ChLearned, ChAdds
  <2> QED
    BY <1>1, <1>4, <2>2, <2>5, ChGoesOn
<1>6. CASE Goto(t, "last")
  <2>1. Continues(t, "last", g)
    BY <1>2, <1>6, GotoGoes
  <2>2. call'[t].op = call[t].op /\ call'[t].at = "last" /\ Got(t)' = g
    BY <2>1 DEF Continues, Got
  <2>3. ChLearned(t)'
    BY <1>1, <1>2, <2>2 DEF ChLearned, ChAdds, Unboxing
  <2> QED
    BY <1>1, <1>4, <2>1, <2>3, ChGoesOn
<1> QED
  BY <1>5, <1>6 DEF DeleteBoxes

LEMMA InsertReadKeeps ==
    ASSUME ChBase, NEW t \in Tasks, InsertRead(t)
    PROVE  ChBase'
<1> SUFFICES ASSUME NEW r, r = Arg(t).room, NEW u, u = Arg(t).user,
                    NEW new, new = [room |-> r, user |-> u, at |-> Got(t).at, unread |-> 0]
             PROVE  ChBase'
  OBVIOUS
<1>1. /\ call[t].op = "read" /\ call[t].at = "last" /\ Finish(t) /\ sidebar' = sidebar \cup {new}
      /\ due' = [due EXCEPT ![<<r, u>>] = 0] /\ UNCHANGED <<rooms, channel_members, clock, deleted>>
  BY DEF InsertRead, On
<1>2. r \in Known /\ r \in Rooms /\ u \in Users /\ Shaped /\ RoomTables /\ Got(t).at \in 0 .. clock
  BY <1>1 DEF ChBase, ChAsks, ChLearned, ChMakers, Known
<1>3. SideRow(new)' /\ new.room \in Known
  BY <1>1, <1>2 DEF SideRow
<1>4. due' \in [Places -> Nat]
  BY <1>1, <1>2, DueWritten
<1>5. clock' \in Nat /\ clock <= clock' /\ channel_members' \in [Rooms -> [Users -> {"none", "bare", "whole"}]]
  BY <1>1, <1>2 DEF RoomTables
<1>6. RoomTables' /\ RoomsHold' /\ ChPasses /\ Known' = Known
  BY <1>1, <1>3, <1>4, <1>5, ChRoomsStill
<1> QED
  BY <1>1, <1>2, <1>6, LeavesEnds, ChEndsHere

LEMMA DeleteChannelMemberKeeps ==
    ASSUME ChBase, NEW t \in Tasks, DeleteChannelMember(t)
    PROVE  ChBase'
<1> SUFFICES ASSUME NEW r, r = Arg(t).room, NEW u, u = Arg(t).user
             PROVE  ChBase'
  OBVIOUS
<1>1. /\ call[t].op = "leave" /\ Finish(t) /\ channel_members' = [channel_members EXCEPT ![r][u] = "none"]
      /\ UNCHANGED <<rooms, sidebar, clock, due, deleted>>
  BY DEF DeleteChannelMember, On, chHistory
<1>2. r \in Known /\ r \in Rooms /\ u \in Users /\ Shaped /\ RoomTables
  BY <1>1 DEF ChBase, ChAsks, ChMakers, Known
<1>3. /\ channel_members' \in [Rooms -> [Users -> {"none", "bare", "whole"}]]
      /\ \A q \in Rooms, w \in Users : q # r \/ w # u => channel_members'[q][w] = channel_members[q][w]
  BY <1>1, <1>2 DEF RoomTables
<1>4. clock' \in Nat /\ clock <= clock' /\ due' \in [Places -> Nat]
  BY <1>1, <1>2 DEF RoomTables
<1>5. RoomTables' /\ RoomsHold' /\ ChPasses /\ Known' = Known
  BY <1>1, <1>2, <1>3, <1>4, ChRoomsStill
<1> QED
  BY <1>1, <1>2, <1>5, LeavesEnds, ChEndsHere

\* The row of a known channel is written, or deleted.
LEMMA RoomRowKeeps ==
    ASSUME ChBase, NEW t \in Tasks, UpdateRoom(t) \/ DeleteRoom(t)
    PROVE  ChBase'
<1> SUFFICES ASSUME NEW r, r = Arg(t).room,
                    NEW x, x = IF DeleteRoom(t) THEN "none" ELSE IF rooms[r] = "none" THEN "bare" ELSE rooms[r]
             PROVE  ChBase'
  OBVIOUS
<1>1. /\ call[t].op \in {"rename", "delete"} /\ Finish(t)
      /\ UNCHANGED <<channel_members, sidebar, clock, due>> /\ deleted \subseteq deleted'
      /\ deleted' = deleted \cup (IF DeleteRoom(t) THEN {r} ELSE {})
  BY DEF UpdateRoom, DeleteRoom, On, chHistory
<1>2. r \in Known /\ r \in Rooms /\ Shaped /\ RoomTables
  BY <1>1 DEF ChBase, ChAsks, ChMakers, Known
<1>3. rooms' = [rooms EXCEPT ![r] = x]
  BY DEF UpdateRoom, DeleteRoom
<1>4. /\ x \in RoomTypes /\ rooms' \in [Rooms -> RoomTypes] /\ rooms'[r] = x
      /\ \A q \in Rooms \ {r} : rooms'[q] = rooms[q] /\ (q \in deleted' <=> q \in deleted)
  BY <1>1, <1>2, <1>3 DEF RoomTables, RoomTypes
<1>5. r \in Known' /\ (x = "bare" => r \in deleted')
  BY <1>1, <1>2, <1>4 DEF Known, ChBase, RoomsHold
<1>6. Known' = Known
  BY <1>2, <1>4, <1>5 DEF Known
<1>7. ChPasses
  BY <1>1, <1>2, <1>6 DEF ChPasses, RoomTables
<1>8. RoomTables'
  BY <1>1, <1>2, <1>4, <1>7, RowKept DEF RoomTables
<1>9. RoomsHold'
  <2>1. \A q, u : RowsOf(q, u)' = RowsOf(q, u)
    BY <1>1 DEF RowsOf
  <2>2. \A q \in Rooms \ Known', w \in Users : channel_members'[q][w] = "none" /\ RowsOf(q, w)' = {}
    BY <1>1, <1>6, <2>1 DEF ChBase, RoomsHold
  <2>3. \A q \in Rooms : rooms'[q] = "bare" => q \in deleted'
    BY <1>4, <1>5 DEF ChBase, RoomsHold
  <2> QED
    BY <2>2, <2>3 DEF RoomsHold
<1> QED
  BY <1>1, <1>2, <1>6, <1>7, <1>8, <1>9, LeavesEnds, ChEndsHere

LEMMA WritePageKeeps ==
    ASSUME ChBase, NEW t \in Tasks, WritePage(t), \A p \in deleted' \ deleted : p \in Pages
    PROVE  ChBase'
<1>1. Finish(t) /\ UNCHANGED <<rooms, channel_members, sidebar, clock, due>>
      /\ \A r \in Rooms : r \in deleted' <=> r \in deleted
  <2>1. Finish(t) /\ UNCHANGED <<rooms, channel_members, sidebar, clock, due>> /\ deleted \subseteq deleted'
    BY DEF WritePage
  <2> QED
    BY <2>1
<1>2. Known' = Known
  BY <1>1 DEF Known
<1>3. ChPasses /\ Shaped
  BY <1>1, <1>2 DEF ChPasses, ChBase, RoomTables
<1>4. RoomTables'
  BY <1>1, <1>3, RowKept DEF ChBase, RoomTables
<1>5. RoomsHold'
  <2>1. \A q, u : RowsOf(q, u)' = RowsOf(q, u)
    BY <1>1 DEF RowsOf
  <2> QED
    BY <1>1, <1>2, <2>1 DEF ChBase, RoomsHold
<1> QED
  BY <1>1, <1>2, <1>3, <1>4, <1>5, LeavesEnds, ChEndsHere

LEMMA ChBaseSteps ==
    ASSUME ChBase, NEW t \in Tasks, ChannelsStep(t), WritePage(t) => \A p \in deleted' \ deleted : p \in Pages
    PROVE  ChBase'
<1>1. CASE ChLooks(t)
  BY <1>1, ChLooksKeeps
<1>2. CASE RoomCalls(t) \/ PageCalls(t)
  BY <1>2, ChBegins
<1>3. CASE InsertChannel(t) \/ InsertChannelMember(t) \/ InsertBox(t) \/ InsertMessage(t) \/ DeleteOld(t)
  BY <1>3, InsertChannelKeeps, InsertChannelMemberKeeps, InsertBoxKeeps, InsertMessageKeeps, DeleteOldKeeps
<1>4. CASE InsertBumped(t) \/ MarkMember(t) \/ DeleteBoxes(t) \/ InsertRead(t) \/ DeleteChannelMember(t)
  BY <1>4, InsertBumpedKeeps, MarkMemberKeeps, DeleteBoxesKeeps, InsertReadKeeps, DeleteChannelMemberKeeps
<1>5. CASE UpdateRoom(t) \/ DeleteRoom(t) \/ WritePage(t)
  BY <1>5, RoomRowKeeps, WritePageKeeps
<1> QED
  BY <1>1, <1>2, <1>3, <1>4, <1>5 DEF ChannelsStep, ChLooks

-----------------------------------------------------------------------------
(* Pages: an id is taken once, a page that is written has a channel, and one  *)
(* that was deleted is not whole again.                                       *)

PageAsks(t) ==
    /\ call[t].op \in PageOps => Arg(t).page \in Pages
    /\ OnPage(t) /\ call[t].at \in {"check", "page"} => pages[Arg(t).page] = NoPage
    /\ call[t].op \in {"edit", "erase"} => pages[Arg(t).page].room # "none"

PagesHold ==
    /\ pages \in [Pages -> [room : Rooms \cup {"none"}, is : {"none", "bare", "whole"}]]
    /\ \A p \in Pages : pages[p].room = "none" => pages[p] = NoPage
    /\ \A p \in deleted \cap Pages : pages[p].room # "none" /\ pages[p].is # "whole"
    /\ \A t \in Tasks : PageAsks(t)
    /\ \A t, v \in Tasks : OnPage(t) /\ OnPage(v) /\ Arg(t).page = Arg(v).page => t = v

\* A step of a call that has begun.
ChWorks(t) ==
    \/ ChLooks(t) \/ InsertChannel(t) \/ InsertChannelMember(t) \/ InsertBox(t) \/ InsertMessage(t)
    \/ DeleteOld(t) \/ InsertBumped(t) \/ MarkMember(t) \/ DeleteBoxes(t) \/ InsertRead(t)
    \/ DeleteChannelMember(t) \/ UpdateRoom(t) \/ DeleteRoom(t) \/ WritePage(t)

LEMMA ChGoesOnOrEnds ==
    ASSUME Shaped, NEW t \in Tasks, ChWorks(t)
    PROVE  \/ Ceases(t)
           \/ \E at, got : /\ Continues(t, at, got)
                           /\ at # "check" /\ (at = "page" => call[t].at = "check" /\ call[t].op # "rename")
<1> DEFINE Through == \E at, got : /\ Continues(t, at, got)
                                   /\ at # "check" /\ (at = "page" => call[t].at = "check" /\ call[t].op # "rename")
<1> SUFFICES Ceases(t) \/ Through
  OBVIOUS
<1>1. ASSUME Finish(t) \/ Drop(t)
      PROVE  Ceases(t)
  BY <1>1, LeavesEnds
<1>2. ASSUME NEW at, Goto(t, at), at # "check", at = "page" => call[t].at = "check" /\ call[t].op # "rename"
      PROVE  Through
  BY <1>2, GotoGoes
<1>3. ASSUME NEW at, NEW got, Learn(t, at, got), at \notin {"check", "page"}
      PROVE  Through
  BY <1>3, LearnGoes
<1> HIDE DEF Through
<1>4. CASE CheckChannelMember(t)
  BY <1>1, <1>2, <1>4 DEF CheckChannelMember, On
<1>5. CASE FindWorkspace(t) \/ FindDm(t) \/ FindReader(t) \/ DropCh(t)
  BY <1>1, <1>2, <1>3, <1>5 DEF FindWorkspace, FindDm, FindReader, DropCh
<1>6. CASE ReadChannelName(t) \/ InsertBox(t) \/ PeekBox(t) \/ InsertBumped(t)
  BY <1>1, <1>2, <1>3, <1>6 DEF ReadChannelName, InsertBox, PeekBox, InsertBumped, AfterAdd, AfterBump
<1>7. CASE ListMembers(t) \/ ReadBoxes(t) \/ InsertChannel(t) \/ InsertMessage(t) \/ DeleteOld(t)
  BY <1>1, <1>2, <1>3, <1>7 DEF ListMembers, ReadBoxes, InsertChannel, InsertMessage, DeleteOld
<1>8. CASE InsertChannelMember(t) \/ MarkMember(t)
  BY <1>1, <1>2, <1>3, <1>8 DEF InsertChannelMember, MarkMember
<1>11. CASE DeleteBoxes(t)
  <2>1. (\E got : Learn(t, "unbox", got)) \/ Goto(t, "last")
    BY <1>11 DEF DeleteBoxes
  <2> QED
    BY <1>2, <1>3, <2>1
<1>9. CASE InsertRead(t) \/ DeleteChannelMember(t) \/ UpdateRoom(t) \/ DeleteRoom(t) \/ WritePage(t)
  BY <1>1, <1>9 DEF InsertRead, DeleteChannelMember, UpdateRoom, DeleteRoom, WritePage
<1> QED
  BY <1>4, <1>5, <1>6, <1>7, <1>8, <1>9, <1>11 DEF ChWorks, ChLooks

\* When a call goes on or ends, the others' pages are as before.
LEMMA PagersStay ==
    ASSUME Shaped, NEW t \in Tasks, ChWorks(t)
    PROVE  /\ \A v \in Tasks : OnPage(v)' => OnPage(v) /\ Arg(v)' = Arg(v)
           /\ \A v \in Tasks : call'[v].op \in PageOps => call'[v].op = call[v].op /\ Arg(v)' = Arg(v)
           /\ \A v \in Tasks : OnPage(v)' /\ call'[v].at \in {"check", "page"} => call[v].at \in {"check", "page"}
<1>1. CASE Ceases(t)
  BY <1>1 DEF Ceases, Only, OnPage, Arg, Pagers, PageOps
<1>2. ASSUME NEW at, NEW got, Continues(t, at, got), at # "check", at = "page" => call[t].at = "check"
      PROVE  /\ \A v \in Tasks : OnPage(v)' => OnPage(v) /\ Arg(v)' = Arg(v)
             /\ \A v \in Tasks : call'[v].op \in PageOps => call'[v].op = call[v].op /\ Arg(v)' = Arg(v)
             /\ \A v \in Tasks : OnPage(v)' /\ call'[v].at \in {"check", "page"} => call[v].at \in {"check", "page"}
  BY <1>2 DEF Continues, Only, OnPage, Arg
<1> QED
  BY <1>1, <1>2, ChGoesOnOrEnds

LEMMA PagesStill ==
    ASSUME ChBase, PagesHold, NEW t \in Tasks, ChWorks(t), pages' = pages, deleted' \cap Pages = deleted \cap Pages
    PROVE  PagesHold'
<1>1. /\ \A v \in Tasks : OnPage(v)' => OnPage(v) /\ Arg(v)' = Arg(v)
      /\ \A v \in Tasks : call'[v].op \in PageOps => call'[v].op = call[v].op /\ Arg(v)' = Arg(v)
      /\ \A v \in Tasks : OnPage(v)' /\ call'[v].at \in {"check", "page"} => call[v].at \in {"check", "page"}
  BY PagersStay DEF ChBase
<1>2. \A v \in Tasks : PageAsks(v)'
  BY <1>1 DEF PagesHold, PageAsks, PageOps
<1>3. \A v, w \in Tasks : OnPage(v)' /\ OnPage(w)' /\ Arg(v)'.page = Arg(w)'.page => v = w
  BY <1>1 DEF PagesHold
<1> QED
  BY <1>2, <1>3 DEF PagesHold

\* A page is written by whoever has its id, or by one who saw it in a channel.
LEMMA PageWritten ==
    ASSUME ChBase, PagesHold, NEW t \in Tasks, ChWorks(t), NEW p \in Pages, NEW new,
           pages' = [pages EXCEPT ![p] = new], call[t].op \in PageOps, p = Arg(t).page,
           new \in [room : Rooms, is : {"none", "bare", "whole"}],
           \A q \in deleted' \cap Pages : q \in deleted \ {p} \/ (q = p /\ new.is # "whole"),
           call'[t].op = "none" \/ call'[t].at \notin {"check", "page"}, call'[t].op \notin {"edit", "erase"}
    PROVE  PagesHold'
<1>1. /\ \A v \in Tasks : OnPage(v)' => OnPage(v) /\ Arg(v)' = Arg(v)
      /\ \A v \in Tasks : call'[v].op \in PageOps => call'[v].op = call[v].op /\ Arg(v)' = Arg(v)
      /\ \A v \in Tasks : OnPage(v)' /\ call'[v].at \in {"check", "page"} => call[v].at \in {"check", "page"}
  BY PagersStay DEF ChBase
<1>2. pages' \in [Pages -> [room : Rooms \cup {"none"}, is : {"none", "bare", "whole"}]]
      /\ pages'[p] = new /\ (\A q \in Pages \ {p} : pages'[q] = pages[q]) /\ new.room # "none"
  BY DEF PagesHold
<1>3. pages[p].room = "none" => pages[p] = NoPage
  BY DEF PagesHold
<1>4. ASSUME NEW v \in Tasks
      PROVE  PageAsks(v)'
  <2>1. PageAsks(v)
    BY DEF PagesHold
  <2>2. CASE v = t
    BY <1>1, <1>2, <2>1, <2>2 DEF PageAsks, PageOps, OnPage, Pagers
  <2>3. CASE v # t
    <3>1. OnPage(v)' /\ call'[v].at \in {"check", "page"} => Arg(v).page # p
      <4> SUFFICES ASSUME OnPage(v), call[v].at \in {"check", "page"}, Arg(v).page = p
                   PROVE  FALSE
        BY <1>1
      <4>1. pages[p] = NoPage
        BY <2>1 DEF PageAsks
      <4>2. call[t].op \notin {"edit", "erase"}
        BY <4>1 DEF PagesHold, PageAsks, NoPage
      <4> QED
        BY <2>3, <4>2 DEF PagesHold, OnPage, PageOps, Pagers
    <3>2. call'[v].op \in PageOps => Arg(v)'.page \in Pages
      BY <1>1, <2>1 DEF PageAsks
    <3>3. OnPage(v)' /\ call'[v].at \in {"check", "page"} => pages'[Arg(v)'.page] = NoPage
      <4> SUFFICES ASSUME OnPage(v)', call'[v].at \in {"check", "page"}
                   PROVE  pages'[Arg(v)'.page] = NoPage
        OBVIOUS
      <4>1. OnPage(v) /\ Arg(v)' = Arg(v) /\ call[v].at \in {"check", "page"}
        BY <1>1
      <4>2. Arg(v).page \in Pages \ {p} /\ pages[Arg(v).page] = NoPage
        BY <2>1, <3>1, <4>1 DEF PageAsks, OnPage, PageOps, Pagers
      <4> QED
        BY <1>2, <4>1, <4>2
    <3>4. call'[v].op \in {"edit", "erase"} => pages'[Arg(v)'.page].room # "none"
      <4> SUFFICES ASSUME call'[v].op \in {"edit", "erase"}
                   PROVE  pages'[Arg(v)'.page].room # "none"
        OBVIOUS
      <4>1. call[v].op \in {"edit", "erase"} /\ Arg(v)' = Arg(v)
        BY <1>1 DEF PageOps
      <4>2. Arg(v).page \in Pages /\ pages[Arg(v).page].room # "none"
        BY <2>1, <4>1 DEF PageAsks, PageOps
      <4> QED
        BY <1>2, <4>1, <4>2
    <3> QED
      BY <3>2, <3>3, <3>4 DEF PageAsks
  <2> QED
    BY <2>2, <2>3
<1>5. \A v, w \in Tasks : OnPage(v)' /\ OnPage(w)' /\ Arg(v)'.page = Arg(w)'.page => v = w
  BY <1>1 DEF PagesHold
<1>6. \A q \in Pages : pages'[q].room = "none" => pages'[q] = NoPage
  BY <1>2 DEF PagesHold
<1>7. \A q \in deleted' \cap Pages : pages'[q].room # "none" /\ pages'[q].is # "whole"
  BY <1>2 DEF PagesHold
<1> QED
  BY <1>2, <1>4, <1>5, <1>6, <1>7 DEF PagesHold

LEMMA InsertMessagePages ==
    ASSUME ChBase, PagesHold, NEW t \in Tasks, InsertMessage(t)
    PROVE  PagesHold'
<1> SUFFICES ASSUME NEW p, p = Arg(t).page, NEW new, new = [room |-> Arg(t).room, is |-> "whole"], NEW n, n = clock
             PROVE  PagesHold'
  OBVIOUS
<1>1. /\ call[t].op = "send" /\ call[t].at = "page" /\ pages' = [pages EXCEPT ![p] = new]
      /\ Learn(t, "list", n) /\ deleted' = deleted /\ ChWorks(t)
  BY DEF InsertMessage, On, chHistory, ChWorks
<1>2. p \in Pages /\ pages[p] = NoPage /\ Arg(t).room \in Rooms /\ Shaped
  BY <1>1 DEF ChBase, ChAsks, PagesHold, PageAsks, PageOps, OnPage, Pagers
<1>3. call'[t].op = "send" /\ call'[t].at = "list"
  BY <1>1, <1>2, LearnGoes DEF Continues
<1>4. p \notin deleted
  BY <1>2 DEF PagesHold, NoPage
<1>5. call[t].op \in PageOps /\ new \in [room : Rooms, is : {"none", "bare", "whole"}]
  BY <1>1, <1>2 DEF PageOps
<1>6. \A q \in deleted' \cap Pages : q \in deleted \ {p} \/ (q = p /\ new.is # "whole")
  BY <1>1, <1>4
<1>7. /\ call'[t].op = "none" \/ call'[t].at \notin {"check", "page"}
      /\ call'[t].op \notin {"edit", "erase"}
  BY <1>3
<1>8. /\ ChBase /\ PagesHold /\ ChWorks(t) /\ p \in Pages /\ p = Arg(t).page
      /\ pages' = [pages EXCEPT ![p] = new]
  BY <1>1, <1>2
<1> QED
  BY <1>5, <1>6, <1>7, <1>8, PageWritten, Zenon

LEMMA WritePagePages ==
    ASSUME ChBase, PagesHold, NEW t \in Tasks, WritePage(t)
    PROVE  PagesHold' /\ \A q \in deleted' \ deleted : q \in Pages
<1> SUFFICES ASSUME NEW p, p = Arg(t).page, NEW op, op = call[t].op, NEW r, r = Arg(t).room,
                    NEW cells, cells = CASE op = "write" -> "whole"
                                   [] op = "erase" -> "none"
                                   [] OTHER -> IF pages[p].is = "none" THEN "bare" ELSE pages[p].is
             PROVE  PagesHold' /\ \A q \in deleted' \ deleted : q \in Pages
  OBVIOUS
<1>0. PICK new : new = [room |-> r, is |-> cells]
  OBVIOUS
<1>1. /\ op \in {"write", "edit", "erase"} /\ call[t].at = "page" /\ Finish(t)
      /\ deleted' = (IF op = "erase" THEN deleted \cup {p} ELSE deleted) /\ ChWorks(t)
  BY DEF WritePage, On, ChWorks
<1>2. /\ p \in Pages /\ r \in Rooms /\ Shaped /\ pages[p] \in [room : Rooms \cup {"none"}, is : {"none", "bare", "whole"}]
      /\ (op = "write" => pages[p] = NoPage)
  BY <1>1 DEF ChBase, ChAsks, PagesHold, PageAsks, PageOps, OnPage, Pagers
<1>3. pages' = [pages EXCEPT ![p] = new]
  <2>1. PICK q, j : pages[p] = [room |-> q, is |-> j]
    BY <1>2
  <2>2. PICK box : box = pages[p]
    OBVIOUS
  <2> DEFINE placed == [box EXCEPT !.room = r]
             half   == [pages EXCEPT ![p] = placed]
  <2>3. placed = [room |-> r, is |-> j]
    BY <2>1, <2>2
  <2>4. [placed EXCEPT !.is = cells] = new
    <3> HIDE DEF placed
    <3> QED
      BY <1>0, <2>3
  <2>5. box.is = j /\ placed.is = j
    BY <2>1, <2>2, <2>3
  <2> HIDE DEF placed
  <2>6. half[p] = placed /\ [half EXCEPT ![p] = new] = [pages EXCEPT ![p] = new]
    BY <1>2 DEF PagesHold
  <2>7. pages' = [half EXCEPT ![p] = [half[p] EXCEPT !.is = cells]]
    <3>1. pages' = [half EXCEPT ![p].is = cells]
      <4>1. half[p].is = pages[p].is
        BY <2>2, <2>5, <2>6
      <4>2. half = [pages EXCEPT ![p].room = r]
        BY <2>2, Zenon DEF placed
      <4>3. pages' = [pages EXCEPT ![p].room = r, ![p].is = CASE op = "write" -> "whole"
                                    [] op = "erase" -> "none"
                                    [] OTHER -> IF @ = "none" THEN "bare" ELSE @]
        BY Zenon DEF WritePage
      <4> QED
        BY <4>1, <4>2, <4>3
    <3> QED
      BY <3>1, Zenon
  <2> QED
    BY <2>4, <2>6, <2>7
<1>4. p \in deleted => cells # "whole"
  BY <1>1, <1>2 DEF PagesHold, NoPage
<1>5. cells \in {"none", "bare", "whole"}
  BY <1>1, <1>2
<1>6. call'[t].op = "none"
  BY <1>1, <1>2, LeavesEnds DEF Ceases
<1>7. \A q \in deleted' \cap Pages : q \in deleted \ {p} \/ (q = p /\ new.is # "whole")
  BY <1>0, <1>1, <1>4
<1>8. new \in [room : Rooms, is : {"none", "bare", "whole"}] /\ op \in PageOps
  BY <1>0, <1>1, <1>2, <1>5 DEF PageOps
<1>9. \A q \in deleted' \ deleted : q \in Pages
  BY <1>1, <1>2
<1> QED
  <2>1. /\ call'[t].op = "none" \/ call'[t].at \notin {"check", "page"}
        /\ call'[t].op \notin {"edit", "erase"}
    BY <1>6
  <2>2. ChWorks(t) /\ call[t].op \in PageOps /\ p = Arg(t).page /\ p \in Pages
    BY <1>1, <1>2, <1>8
  <2>3. new \in [room : Rooms, is : {"none", "bare", "whole"}]
    BY <1>8
  <2>4. PagesHold'
    BY <1>3, <1>7, <2>1, <2>2, <2>3, PageWritten
  <2> QED
    BY <1>9, <2>4

LEMMA PagesSteps ==
    ASSUME ChBase, PagesHold, NEW t \in Tasks, ChannelsStep(t)
    PROVE  PagesHold' /\ (WritePage(t) => \A q \in deleted' \ deleted : q \in Pages)
<1>1. CASE WritePage(t)
  BY <1>1, WritePagePages
<1>2. ASSUME ~ WritePage(t)
      PROVE  PagesHold'
  <2>1. CASE InsertMessage(t)
    BY <2>1, InsertMessagePages
  <2>2. CASE DeleteRoom(t)
    <3>1. pages' = pages /\ deleted' = deleted \cup {Arg(t).room} /\ Arg(t).room \in Rooms
      BY <2>2 DEF DeleteRoom, On, ChBase, ChAsks
    <3> QED
      BY <2>2, <3>1, PagesStill DEF ChWorks
  <2>3. CASE ChLooks(t)
    BY <2>3, ChLooksStill, PagesStill DEF ChWorks, chTables
  <2>4. CASE \/ InsertChannel(t) \/ InsertChannelMember(t) \/ InsertBox(t) \/ DeleteOld(t) \/ InsertBumped(t)
             \/ MarkMember(t) \/ DeleteBoxes(t) \/ InsertRead(t) \/ DeleteChannelMember(t) \/ UpdateRoom(t)
    <3>1. UNCHANGED <<pages, deleted>>
      BY <2>4 DEF InsertChannel, InsertChannelMember, InsertBox, DeleteOld, InsertBumped, MarkMember, DeleteBoxes,
                  InsertRead, DeleteChannelMember, UpdateRoom, chHistory
    <3> QED
      BY <2>4, <3>1, PagesStill DEF ChWorks
  <2>5. CASE RoomCalls(t) \/ PageCalls(t)
    <3>1. PICK op, at, arg : ChCall(op, at, arg) /\ BeginCh(t, op, at, arg)
      BY <2>5, ChCallsBegin
    <3>2. /\ Only(t) /\ call[t].op = "none" /\ call'[t].op = op /\ call'[t].at = at /\ Arg(t)' = arg
          /\ UNCHANGED <<pages, deleted>>
      BY <3>1, ChBegunIs DEF ChBase, chTables, Arg
    <3>3. \A v \in Tasks \ {t} : call'[v] = call[v] /\ Arg(v)' = Arg(v) /\ (OnPage(v)' <=> OnPage(v))
      BY <3>2 DEF Only, Arg, OnPage
    <3>4. OnPage(t)' => op \in Pagers /\ arg.page \in Pages /\ pages[arg.page] = NoPage
                        /\ \A v \in Tasks : OnPage(v) => Arg(v).page # arg.page
      BY <3>1, <3>2 DEF OnPage, ChCall, Pagers, PageOps
    <3>5. ASSUME NEW v \in Tasks
          PROVE  PageAsks(v)'
      <4>1. CASE v = t
        <5>1. op \in PageOps => arg.page \in Pages
          BY <3>1 DEF ChCall
        <5>2. op \in {"edit", "erase"} => pages[arg.page].room \in Rooms
          BY <3>1 DEF ChCall
        <5> QED
          BY <3>2, <3>4, <4>1, <5>1, <5>2 DEF PageAsks
      <4>2. CASE v # t
        BY <3>2, <3>3, <4>2 DEF PagesHold, PageAsks
      <4> QED
        BY <4>1, <4>2
    <3>6. \A v, w \in Tasks : OnPage(v)' /\ OnPage(w)' /\ Arg(v)'.page = Arg(w)'.page => v = w
      <4> SUFFICES ASSUME NEW v \in Tasks, NEW w \in Tasks, OnPage(v)', OnPage(w)', Arg(v)'.page = Arg(w)'.page
                   PROVE  v = w
        OBVIOUS
      <4>1. CASE v # t /\ w # t
        BY <3>3, <4>1 DEF PagesHold
      <4>2. CASE v = t \/ w = t
        BY <3>2, <3>3, <3>4, <4>2
      <4> QED
        BY <4>1, <4>2
    <3> QED
      BY <3>2, <3>5, <3>6 DEF PagesHold
  <2> QED
    BY <1>2, <2>1, <2>2, <2>3, <2>4, <2>5 DEF ChannelsStep, ChLooks
<1> QED
  BY <1>1, <1>2

\* What was deleted is not listed again.
LEMMA PagesGone ==
    ASSUME PagesHold
    PROVE  DeletedIsGone
  BY DEF PagesHold, DeletedIsGone, Shown

-----------------------------------------------------------------------------
(* Direct messages: unless two look for one at once, one ends early, or       *)
(* somebody is added or removed, each is of two users or is being made.       *)

PairsUp(t) == call[t].op = "dm"

\* How far the direct message r of u and v is made.
DmMade(t, r, u, v) ==
    /\ call[t].at \in {"row", "member", "name", "box"} => \A q \in DmOf(u, v) : q = r
    /\ call[t].at = "member" /\ rooms[r] = "dm" =>
        \/ Got(t).todo = <<u, v>> /\ Whole(r) = {}
        \/ Got(t).todo = <<v>> /\ Whole(r) = {u}
    /\ call[t].at \in {"name", "box"} /\ rooms[r] = "dm" =>
        \/ Got(t).todo = <<u, v>> /\ Whole(r) = {u}
        \/ Got(t).todo = <<v>> /\ Whole(r) = {u, v}
DmKnows(t) == PairsUp(t) => DmMade(t, Arg(t).room, Arg(t).by, Arg(t).with)

OfTwo(r) == \E u, v \in Users : u # v /\ Whole(r) = {u, v}

OnePair   == \A t, v \in Tasks : PairsUp(t) /\ PairsUp(v) => t = v
ApartOnes == \A t \in Tasks : call[t].op \in {"create_channel", "join", "leave"} => rooms[Arg(t).room] # "dm"
PairRooms == \A r \in Rooms : rooms[r] = "dm" => OfTwo(r) \/ \E t \in Tasks : PairsUp(t) /\ Arg(t).room = r
PairsDiffer ==
    \A r, q \in Rooms : rooms[r] = "dm" /\ rooms[q] = "dm" /\ Whole(r) = Whole(q) /\ Whole(r) # {} => r = q

PairsHold == ~ rivals => OnePair /\ ApartOnes /\ PairRooms /\ PairsDiffer /\ \A t \in Tasks : DmKnows(t)

\* No direct message appears or gets another member.
DmsStill == \A r \in Rooms : rooms'[r] = "dm" => rooms[r] = "dm" /\ Whole(r)' = Whole(r)

LEMMA DmOfStill ==
    ASSUME DmsStill, NEW u, NEW v
    PROVE  DmOf(u, v)' \subseteq DmOf(u, v)
  BY DEF DmsStill, DmOf

LEMMA DmStandsBy ==
    ASSUME ChBase, DmsStill, NEW v \in Tasks, call'[v] = call[v], DmKnows(v)
    PROVE  DmKnows(v)'
<1> SUFFICES ASSUME PairsUp(v)
             PROVE  DmKnows(v)'
  BY DEF DmKnows, PairsUp
<1>1. Arg(v)' = Arg(v) /\ Got(v)' = Got(v) /\ call'[v].at = call[v].at /\ PairsUp(v)'
  BY DEF Arg, Got, PairsUp
<1> SUFFICES ASSUME NEW r, r = Arg(v).room, NEW x, x = Arg(v).by, NEW y, y = Arg(v).with
             PROVE  DmMade(v, r, x, y)'
  BY <1>1 DEF DmKnows
<1>2. DmMade(v, r, x, y) /\ r \in Rooms
  BY DEF DmKnows, PairsUp, ChBase, ChAsks
<1>3. DmOf(x, y)' \subseteq DmOf(x, y)
  BY DmOfStill
<1>4. rooms'[r] = "dm" => rooms[r] = "dm" /\ Whole(r)' = Whole(r)
  BY <1>2 DEF DmsStill
<1> QED
  BY <1>1, <1>2, <1>3, <1>4 DEF DmMade

LEMMA PairsMove ==
    ASSUME ChBase, PairsHold, NEW t \in Tasks, Ceases(t) \/ (\E at, got : Continues(t, at, got)), DmsStill,
           ~ rivals' => ~ rivals,
           ~ rivals /\ ~ rivals' /\ PairsUp(t)' => DmKnows(t)',
           ~ rivals /\ ~ rivals' /\ PairsUp(t) /\ Ceases(t) /\ rooms[Arg(t).room] = "dm" => OfTwo(Arg(t).room)
    PROVE  PairsHold'
<1> SUFFICES ASSUME ~ rivals'
             PROVE  (OnePair /\ ApartOnes /\ PairRooms /\ PairsDiffer /\ \A v \in Tasks : DmKnows(v))'
  BY DEF PairsHold
<1>1. ~ rivals /\ OnePair /\ ApartOnes /\ PairRooms /\ PairsDiffer /\ \A v \in Tasks : DmKnows(v)
  BY DEF PairsHold
<1>2. \A v \in Tasks : call'[v].op # "none" => call'[v].op = call[v].op /\ Arg(v)' = Arg(v)
  BY DEF Ceases, Continues, Only, Arg
<1>3. \A v \in Tasks : PairsUp(v) /\ ~ PairsUp(v)' => v = t /\ Ceases(t)
  BY DEF Ceases, Continues, Only, PairsUp
<1>4. OnePair'
  BY <1>1, <1>2 DEF OnePair, PairsUp
<1>5. ApartOnes'
  <2> SUFFICES ASSUME NEW v \in Tasks, call'[v].op \in {"create_channel", "join", "leave"}
               PROVE  rooms'[Arg(v)'.room] # "dm"
    BY DEF ApartOnes
  <2>1. call[v].op = call'[v].op /\ Arg(v)' = Arg(v)
    BY <1>2
  <2>2. rooms[Arg(v).room] # "dm" /\ Arg(v).room \in Rooms
    BY <1>1, <2>1 DEF ApartOnes, ChBase, ChAsks
  <2> QED
    BY <2>1, <2>2 DEF DmsStill
<1>6. \A r \in Rooms : rooms'[r] = "dm" /\ OfTwo(r) => OfTwo(r)'
  BY DEF OfTwo, DmsStill
<1>7. PairRooms'
  <2> SUFFICES ASSUME NEW r \in Rooms, rooms'[r] = "dm", ~ OfTwo(r)'
               PROVE  \E v \in Tasks : PairsUp(v)' /\ Arg(v)'.room = r
    BY DEF PairRooms
  <2>1. rooms[r] = "dm" /\ ~ OfTwo(r)
    BY <1>6 DEF DmsStill
  <2>2. PICK v \in Tasks : PairsUp(v) /\ Arg(v).room = r
    BY <1>1, <2>1 DEF PairRooms
  <2>3. PairsUp(v)'
    BY <1>1, <1>3, <2>1, <2>2
  <2> QED
    BY <1>2, <2>2, <2>3 DEF PairsUp
<1>8. PairsDiffer'
  BY <1>1 DEF PairsDiffer, DmsStill
<1>9. \A v \in Tasks : DmKnows(v)'
  <2> SUFFICES ASSUME NEW v \in Tasks
               PROVE  DmKnows(v)'
    OBVIOUS
  <2>1. CASE v = t
    BY <1>1, <2>1 DEF DmKnows
  <2>2. CASE v # t
    <3>1. call'[v] = call[v]
      BY <2>2 DEF Ceases, Continues, Only
    <3> QED
      BY <1>1, <3>1, DmStandsBy
  <2> QED
    BY <2>1, <2>2
<1> QED
  BY <1>4, <1>5, <1>7, <1>8, <1>9

LEMMA NotPairing ==
    ASSUME Shaped, NEW t \in Tasks, ChWorks(t)
    PROVE  /\ Ceases(t) \/ \E at, got : Continues(t, at, got)
           /\ Ceases(t) => ~ PairsUp(t)'
           /\ ~ PairsUp(t) => ~ PairsUp(t)'
  BY ChGoesOnOrEnds DEF Ceases, Continues, PairsUp

\* The steps of a call that makes no direct message.
LEMMA PairsApart ==
    ASSUME ChBase, PairsHold, NEW t \in Tasks, ChWorks(t), ~ PairsUp(t)
    PROVE  PairsHold'
<1>1. (Ceases(t) \/ \E at, got : Continues(t, at, got)) /\ ~ PairsUp(t)' /\ (rivals => rivals')
  <2>1. rivals => rivals'
    BY DEF ChWorks, ChLooks, CheckChannelMember, FindWorkspace, FindDm, ReadChannelName, ListMembers, PeekBox,
           FindReader, ReadBoxes, DropCh, InsertChannel, InsertChannelMember, InsertBox, InsertMessage, DeleteOld,
           InsertBumped, MarkMember, DeleteBoxes, InsertRead, DeleteChannelMember, UpdateRoom, DeleteRoom,
           WritePage, chVars, chHistory
  <2> QED
    BY <2>1, NotPairing DEF ChBase
<1> SUFFICES ASSUME ~ rivals
             PROVE  DmsStill
  <2>1. CASE rivals
    BY <1>1, <2>1 DEF PairsHold
  <2>2. CASE ~ rivals
    BY <1>1, <2>2, PairsMove
  <2> QED
    BY <2>1, <2>2
<1>2. ApartOnes
  BY DEF PairsHold
<1> SUFFICES ASSUME NEW r, r = Arg(t).room
             PROVE  DmsStill
  OBVIOUS
<1>3. CASE ChLooks(t) \/ InsertBox(t) \/ InsertMessage(t) \/ DeleteOld(t) \/ InsertBumped(t) \/ DeleteBoxes(t)
           \/ InsertRead(t) \/ WritePage(t)
  <2>1. UNCHANGED <<rooms, channel_members>>
    <3>1. CASE ChLooks(t)
      BY <3>1, ChLooksStill DEF chTables
    <3>2. CASE ~ ChLooks(t)
      BY <1>3, <3>2 DEF InsertBox, InsertMessage, DeleteOld, InsertBumped, DeleteBoxes, InsertRead, WritePage
    <3> QED
      BY <3>1, <3>2
  <2> QED
    BY <2>1 DEF DmsStill, Whole
<1>4. CASE MarkMember(t)
  <2>1. rooms' = rooms
    BY <1>4 DEF MarkMember
  <2>2. PICK u : channel_members' = [channel_members EXCEPT ![r][u] = IF @ = "none" THEN "bare" ELSE @]
    BY <1>4 DEF MarkMember
  <2>3. \A q \in Rooms, w \in Users : channel_members'[q][w] = "whole" <=> channel_members[q][w] = "whole"
    BY <2>2 DEF ChBase, RoomTables
  <2>4. \A q \in Rooms : Whole(q)' = Whole(q)
    BY <2>3 DEF Whole
  <2> QED
    BY <2>1, <2>4 DEF DmsStill
<1>5. CASE DeleteChannelMember(t) \/ InsertChannelMember(t)
  <2>1. rooms' = rooms /\ call[t].op \in {"create_channel", "join", "leave"}
    BY <1>5 DEF DeleteChannelMember, InsertChannelMember, On, PairsUp, ChAdds
  <2>2. rooms[r] # "dm"
    BY <1>2, <2>1 DEF ApartOnes
  <2>3. \E u, x : channel_members' = [channel_members EXCEPT ![r][u] = x]
    BY <1>5 DEF DeleteChannelMember, InsertChannelMember
  <2>4. \A q \in Rooms \ {r}, w \in Users : channel_members'[q][w] = channel_members[q][w]
    BY <2>3 DEF ChBase, RoomTables
  <2>5. \A q \in Rooms \ {r} : Whole(q)' = Whole(q)
    BY <2>4 DEF Whole
  <2> QED
    BY <2>1, <2>2, <2>5 DEF DmsStill
<1>6. CASE InsertChannel(t)
  <2>1. call[t].op = "create_channel" /\ rooms' = [rooms EXCEPT ![r] = Arg(t).kind] /\ channel_members' = channel_members
    BY <1>6 DEF InsertChannel, On, PairsUp
  <2>2. Arg(t).kind # "dm"
    BY <2>1 DEF ChBase, ChAsks, ChMakers
  <2>3. \A q \in Rooms : rooms'[q] = "dm" => rooms[q] = "dm"
    BY <2>1, <2>2 DEF ChBase, RoomTables
  <2> QED
    BY <2>1, <2>3 DEF DmsStill, Whole
<1>7. CASE UpdateRoom(t) \/ DeleteRoom(t)
  <2>1. channel_members' = channel_members
        /\ rooms' = [rooms EXCEPT ![r] = IF DeleteRoom(t) THEN "none" ELSE IF rooms[r] = "none" THEN "bare" ELSE rooms[r]]
    BY <1>7 DEF UpdateRoom, DeleteRoom
  <2>2. \A q \in Rooms : rooms'[q] = "dm" => rooms[q] = "dm"
    BY <2>1 DEF ChBase, RoomTables
  <2> QED
    BY <2>1, <2>2 DEF DmsStill, Whole
<1> QED
  BY <1>3, <1>4, <1>5, <1>6, <1>7 DEF ChWorks

\* The call that makes one: it reads and fills the sidebar.
LEMMA PairLooks ==
    ASSUME ChBase, PairsHold, NEW t \in Tasks, PairsUp(t),
           FindDm(t) \/ ReadChannelName(t) \/ InsertBox(t) \/ DropCh(t)
    PROVE  PairsHold'
<1>1. /\ UNCHANGED <<rooms, channel_members>> /\ (rivals => rivals') /\ (DropCh(t) => rivals')
      /\ ChWorks(t) /\ call[t].op = "dm" /\ call[t].op \in ChMakers /\ call[t].op \in ChAdds
  <2>1. /\ UNCHANGED <<rooms, channel_members>> /\ (rivals => rivals') /\ (DropCh(t) => rivals')
    <3>1. CASE FindDm(t) \/ ReadChannelName(t)
      <4>1. UNCHANGED <<rooms, channel_members, rivals>>
        BY <3>1 DEF FindDm, ReadChannelName, chVars, chTables, chHistory
      <4> QED
        BY <4>1 DEF DropCh, PairsUp
    <3>2. CASE InsertBox(t)
      <4>1. UNCHANGED <<rooms, channel_members, rivals>>
        BY <3>2 DEF InsertBox, chHistory
      <4> QED
        BY <4>1 DEF DropCh, PairsUp
    <3>3. CASE DropCh(t)
      BY <3>3 DEF DropCh, chTables, PairsUp
    <3> QED
      BY <3>1, <3>2, <3>3
  <2>2. ChWorks(t)
    BY DEF ChWorks, ChLooks
  <2> QED
    BY <2>1, <2>2 DEF PairsUp, ChMakers, ChAdds
<1> SUFFICES ASSUME ~ rivals, ~ rivals'
             PROVE  PairsHold'
  BY <1>1 DEF PairsHold
<1>2. DmsStill /\ (\A x, y : DmOf(x, y)' = DmOf(x, y)) /\ \A q : Whole(q)' = Whole(q)
  BY <1>1 DEF DmsStill, Whole, DmOf
<1> SUFFICES ASSUME NEW r, r = Arg(t).room, NEW u, u = Arg(t).by, NEW v, v = Arg(t).with, NEW g, g = Got(t)
             PROVE  PairsHold'
  OBVIOUS
<1>3. DmMade(t, r, u, v) /\ r \in Rooms /\ u \in Users /\ v \in Users /\ u # v /\ Shaped
      /\ (call[t].at \in {"find", "row"} <=> r \notin Known)
      /\ (call[t].at \in {"member", "name", "box"} => ToBeAdded(g))
  BY <1>1 DEF PairsHold, DmKnows, ChBase, ChAsks, ChLearned
<1>4. ASSUME NEW at, NEW got, Continues(t, at, got), DmMade(t, r, u, v)'
      PROVE  PairsHold'
  <2>1. Arg(t)' = Arg(t) /\ ~ Ceases(t)
    BY <1>1, <1>4 DEF Continues, Ceases, Arg
  <2>2. DmKnows(t)'
    <3>1. Arg(t)'.room = r /\ Arg(t)'.by = u /\ Arg(t)'.with = v
      BY <2>1
    <3> QED
      BY <1>4, <3>1 DEF DmKnows
  <2> QED
    BY <1>2, <1>4, <2>1, <2>2, PairsMove
<1>5. ASSUME Ceases(t), rooms[r] = "dm" => OfTwo(r)
      PROVE  PairsHold'
  <2>1. ~ PairsUp(t)'
    BY <1>5 DEF Ceases, PairsUp
  <2> QED
    BY <1>2, <1>5, <2>1, PairsMove
<1>6. CASE FindDm(t)
  <2>1. call[t].at = "find" /\ (IF DmOf(u, v) # {} THEN Finish(t) ELSE Goto(t, "row"))
    BY <1>6 DEF FindDm, On
  <2>2. CASE DmOf(u, v) # {}
    <3>1. rooms[r] # "dm"
      BY <1>3, <2>1 DEF Known
    <3> QED
      BY <1>3, <1>5, <2>1, <2>2, <3>1, LeavesEnds
  <2>3. CASE DmOf(u, v) = {}
    <3>1. Continues(t, "row", g)
      BY <1>3, <2>1, <2>3, GotoGoes
    <3>2. DmMade(t, r, u, v)'
      BY <1>2, <2>3, <3>1 DEF DmMade, Continues
    <3> QED
      BY <1>4, <3>1, <3>2
  <2> QED
    BY <2>2, <2>3
<1>7. ASSUME AfterAdd(t), call[t].at \in {"name", "box"}
      PROVE  PairsHold'
  <2>1. Len(<<u, v>>) = 2 /\ Len(<<v>>) = 1 /\ Tail(<<u, v>>) = <<v>>
    OBVIOUS
  <2>2. CASE Len(g.todo) = 1 /\ Ceases(t)
    <3>1. rooms[r] = "dm" => Whole(r) = {u, v}
      BY <1>3, <1>7, <2>1, <2>2 DEF DmMade
    <3> QED
      BY <1>3, <1>5, <2>2, <3>1 DEF OfTwo
  <2>3. CASE Len(g.todo) # 1 /\ Continues(t, "member", [todo |-> Tail(g.todo), at |-> g.at])
    <3>1. call'[t].at = "member" /\ Got(t)'.todo = Tail(g.todo)
      BY <2>3 DEF Continues, Got
    <3>2. rooms[r] = "dm" => g.todo = <<u, v>> /\ Whole(r) = {u}
      BY <1>3, <1>7, <2>1, <2>3 DEF DmMade
    <3>3. DmMade(t, r, u, v)'
      BY <1>1, <1>2, <1>3, <1>7, <2>1, <3>1, <3>2 DEF DmMade
    <3> QED
      BY <1>4, <2>3, <3>3
  <2> QED
    BY <1>3, <1>7, <2>2, <2>3, AfterAddIs
<1>8. CASE ReadChannelName(t)
  <2>1. call[t].at = "name" /\ (AfterAdd(t) \/ Goto(t, "box"))
    BY <1>8 DEF ReadChannelName, On
  <2>2. CASE Goto(t, "box")
    <3>1. Continues(t, "box", g)
      BY <1>3, <2>2, GotoGoes
    <3>2. call'[t].at = "box" /\ Got(t)' = g
      BY <3>1 DEF Continues, Got
    <3>3. DmMade(t, r, u, v)'
      BY <1>1, <1>2, <1>3, <2>1, <3>2 DEF DmMade
    <3> QED
      BY <1>4, <3>1, <3>3
  <2> QED
    BY <1>7, <2>1, <2>2
<1>9. CASE InsertBox(t)
  <2>1. call[t].at = "box" /\ AfterAdd(t)
    BY <1>9 DEF InsertBox, On
  <2> QED
    BY <1>7, <2>1
<1> QED
  BY <1>1, <1>6, <1>8, <1>9

\* The channel of two is inserted.
LEMMA PairInserts ==
    ASSUME ChBase, PairsHold, NEW t \in Tasks, PairsUp(t), InsertChannel(t)
    PROVE  PairsHold'
<1> SUFFICES ASSUME NEW r, r = Arg(t).room, NEW u, u = Arg(t).by, NEW v, v = Arg(t).with,
                    NEW s, s = ToAdd(Arg(t))
             PROVE  PairsHold'
  OBVIOUS
<1>0. PICK g : g = [todo |-> s, at |-> 0]
  OBVIOUS
<1>1. /\ call[t].at = "row" /\ call[t].op = "dm" /\ call[t].op \in ChMakers /\ rooms' = [rooms EXCEPT ![r] = Arg(t).kind]
      /\ Learn(t, "member", g) /\ UNCHANGED <<channel_members, rivals>>
  BY <1>0 DEF InsertChannel, On, PairsUp, ChMakers, chHistory
<1>2. /\ r \in Rooms /\ r \notin Known /\ Arg(t).kind = "dm" /\ Shaped /\ u \in Users /\ v \in Users /\ u # v
  BY <1>1 DEF ChBase, ChAsks
<1> SUFFICES ASSUME ~ rivals
             PROVE  (OnePair /\ ApartOnes /\ PairRooms /\ PairsDiffer /\ \A w \in Tasks : DmKnows(w))'
  BY <1>1 DEF PairsHold
<1>3. OnePair /\ ApartOnes /\ PairRooms /\ PairsDiffer /\ DmMade(t, r, u, v)
  BY DEF PairsHold, DmKnows
<1>4. Continues(t, "member", g)
  BY <1>1, <1>2, LearnGoes
<1>5. /\ call'[t].op = "dm" /\ call'[t].at = "member" /\ Arg(t)' = Arg(t) /\ Got(t)' = g
      /\ \A w \in Tasks \ {t} : call'[w] = call[w] /\ Arg(w)' = Arg(w)
  BY <1>1, <1>4 DEF Continues, Only, Arg, Got
<1>6. /\ rooms'[r] = "dm" /\ (\A q \in Rooms \ {r} : rooms'[q] = rooms[q]) /\ \A q : Whole(q)' = Whole(q)
  BY <1>1, <1>2 DEF ChBase, RoomTables, Whole
<1>7. Whole(r) = {}
  BY <1>2 DEF ChBase, RoomsHold, Whole
<1>8. OnePair' /\ \A w \in Tasks \ {t} : ~ PairsUp(w)'
  BY <1>1, <1>3, <1>5 DEF OnePair, PairsUp
<1>9. ApartOnes'
  <2> SUFFICES ASSUME NEW w \in Tasks, call'[w].op \in {"create_channel", "join", "leave"}
               PROVE  rooms'[Arg(w)'.room] # "dm"
    BY DEF ApartOnes
  <2>1. w # t /\ call[w].op \in {"create_channel", "join", "leave"} /\ Arg(w)' = Arg(w)
    BY <1>5
  <2>2. Arg(w).room \in Rooms /\ rooms[Arg(w).room] # "dm"
    BY <1>3, <2>1 DEF ApartOnes, ChBase, ChAsks
  <2>3. Arg(w).room # r
    <3>1. CASE call[w].op = "create_channel"
      BY <1>1, <2>1, <3>1 DEF ChBase, OneRoomMaker, MakesRoom, ChMakers
    <3>2. CASE call[w].op # "create_channel"
      BY <1>2, <2>1, <3>2 DEF ChBase, ChAsks, ChMakers
    <3> QED
      BY <3>1, <3>2
  <2> QED
    BY <1>6, <2>1, <2>2, <2>3
<1>10. PairRooms'
  <2> SUFFICES ASSUME NEW q \in Rooms, rooms'[q] = "dm"
               PROVE  OfTwo(q)' \/ \E w \in Tasks : PairsUp(w)' /\ Arg(w)'.room = q
    BY DEF PairRooms
  <2>1. CASE q = r
    BY <1>5, <2>1 DEF PairsUp
  <2>2. CASE q # r
    <3>1. OfTwo(q) \/ \E w \in Tasks : PairsUp(w) /\ Arg(w).room = q
      BY <1>3, <1>6, <2>2 DEF PairRooms
    <3>2. \A w \in Tasks : PairsUp(w) => w = t
      BY <1>3, <1>1 DEF OnePair, PairsUp
    <3> QED
      BY <1>6, <2>2, <3>1, <3>2 DEF OfTwo
  <2> QED
    BY <2>1, <2>2
<1>11. PairsDiffer'
  BY <1>3, <1>6, <1>7 DEF PairsDiffer
<1>12. DmMade(t, r, u, v)'
  <2>1. DmOf(u, v)' \subseteq DmOf(u, v)
    BY <1>6, <1>7 DEF DmOf
  <2>2. \A q \in DmOf(u, v) : q = r
    BY <1>1, <1>3 DEF DmMade
  <2>3. g.todo = <<u, v>>
    BY <1>0, <1>2, ToAddIs
  <2> QED
    BY <1>5, <1>6, <1>7, <2>1, <2>2, <2>3 DEF DmMade
<1>13. DmKnows(t)'
  <2>1. Arg(t)'.room = r /\ Arg(t)'.by = u /\ Arg(t)'.with = v
    BY <1>5
  <2> QED
    BY <1>12, <2>1 DEF DmKnows
<1>14. \A w \in Tasks : DmKnows(w)'
  BY <1>8, <1>13 DEF DmKnows
<1> QED
  BY <1>8, <1>9, <1>10, <1>11, <1>14

\* One of the two is added.
LEMMA PairAdds ==
    ASSUME ChBase, PairsHold, NEW t \in Tasks, PairsUp(t), InsertChannelMember(t)
    PROVE  PairsHold'
<1> SUFFICES ASSUME NEW r, r = Arg(t).room, NEW u, u = Arg(t).by, NEW v, v = Arg(t).with,
                    NEW g, g = Got(t), NEW x, x = Head(g.todo)
             PROVE  PairsHold'
  OBVIOUS
<1>0. PICK h : h = [todo |-> g.todo, at |-> clock]
  OBVIOUS
<1>1. /\ call[t].at = "member" /\ call[t].op = "dm" /\ call[t].op \in ChMakers /\ call[t].op \in ChAdds
      /\ channel_members' = [channel_members EXCEPT ![r][x] = "whole"]
      /\ Learn(t, "name", [g EXCEPT !.at = clock]) /\ UNCHANGED <<rooms, rivals>> /\ ChWorks(t)
  BY DEF InsertChannelMember, On, PairsUp, ChMakers, ChAdds, ChWorks
<1>2. /\ r \in Rooms /\ Shaped /\ u \in Users /\ v \in Users /\ u # v /\ ToBeAdded(g)
  BY <1>1 DEF ChBase, ChAsks, ChLearned
<1>3. x \in Users /\ [g EXCEPT !.at = clock] = h
  BY <1>0, <1>2, FirstInLine, LineTimed DEF ToBeAdded
<1>4. Continues(t, "name", h)
  BY <1>1, <1>2, <1>3, LearnGoes
<1>5. /\ call'[t].op = "dm" /\ call'[t].at = "name" /\ Arg(t)' = Arg(t) /\ Got(t)' = h /\ h.todo = g.todo
      /\ (\A w \in Tasks \ {t} : call'[w] = call[w] /\ Arg(w)' = Arg(w)) /\ ~ Ceases(t)
  BY <1>0, <1>1, <1>4 DEF Continues, Only, Arg, Got, Ceases
<1>6. \A q \in Rooms : Whole(q)' = IF q = r THEN Whole(r) \cup {x} ELSE Whole(q)
  <2>1. \A q \in Rooms, w \in Users : channel_members'[q][w] = IF q = r /\ w = x THEN "whole" ELSE channel_members[q][w]
    BY <1>1, <1>2, <1>3 DEF ChBase, RoomTables
  <2> QED
    BY <1>3, <2>1 DEF Whole
<1> SUFFICES ASSUME ~ rivals
             PROVE  (OnePair /\ ApartOnes /\ PairRooms /\ PairsDiffer /\ \A w \in Tasks : DmKnows(w))'
  BY <1>1 DEF PairsHold
<1>7. OnePair /\ ApartOnes /\ PairRooms /\ PairsDiffer /\ DmMade(t, r, u, v)
  BY DEF PairsHold, DmKnows
<1>8. OnePair' /\ \A w \in Tasks \ {t} : ~ PairsUp(w)' /\ ~ PairsUp(w)
  BY <1>1, <1>5, <1>7 DEF OnePair, PairsUp
<1>9. ApartOnes'
  BY <1>1, <1>5, <1>7 DEF ApartOnes
<1>10. \A q \in Rooms \ {r} : rooms[q] = "dm" => OfTwo(q)
  BY <1>7, <1>8 DEF PairRooms
<1>11. PairRooms'
  <2> SUFFICES ASSUME NEW q \in Rooms, rooms'[q] = "dm"
               PROVE  OfTwo(q)' \/ \E w \in Tasks : PairsUp(w)' /\ Arg(w)'.room = q
    BY DEF PairRooms
  <2>1. CASE q = r
    BY <1>5, <2>1 DEF PairsUp
  <2>2. CASE q # r
    BY <1>1, <1>6, <1>10, <2>2 DEF OfTwo
  <2> QED
    BY <2>1, <2>2
<1>12. rooms[r] = "dm" => \/ g.todo = <<u, v>> /\ Whole(r)' = {u}
                          \/ g.todo = <<v>> /\ Whole(r)' = {u, v}
  <2>1. rooms[r] = "dm" => \/ g.todo = <<u, v>> /\ Whole(r) = {}
                           \/ g.todo = <<v>> /\ Whole(r) = {u}
    BY <1>1, <1>7 DEF DmMade
  <2>2. Head(<<u, v>>) = u /\ Head(<<v>>) = v
    OBVIOUS
  <2> QED
    BY <1>2, <1>6, <2>1, <2>2
<1>13. \A q \in DmOf(u, v) : q = r
  BY <1>1, <1>7 DEF DmMade
<1>14. PairsDiffer'
  <2>1. ASSUME NEW q \in Rooms \ {r}, rooms[q] = "dm", rooms[r] = "dm"
        PROVE  Whole(q) # Whole(r)'
    <3>1. PICK y \in Users, z \in Users : y # z /\ Whole(q) = {y, z}
      BY <1>10, <2>1 DEF OfTwo
    <3>2. Whole(q) # {u, v}
      BY <1>13, <2>1 DEF DmOf
    <3> QED
      BY <1>12, <2>1, <3>1, <3>2
  <2>2. ASSUME NEW p \in Rooms, NEW q \in Rooms, rooms[p] = "dm", rooms[q] = "dm", Whole(p)' = Whole(q)', Whole(p)' # {}
        PROVE  p = q
    <3>1. CASE p # r /\ q # r
      BY <1>6, <1>7, <2>2, <3>1 DEF PairsDiffer
    <3>2. CASE p = r \/ q = r
      BY <1>6, <2>1, <2>2, <3>2
    <3> QED
      BY <3>1, <3>2
  <2> QED
    BY <1>1, <2>2 DEF PairsDiffer
<1>15. DmMade(t, r, u, v)'
  <2>1. \A q \in DmOf(u, v)' : q = r
    BY <1>1, <1>6, <1>13 DEF DmOf
  <2> QED
    BY <1>1, <1>5, <1>12, <2>1 DEF DmMade
<1>16. DmKnows(t)'
  <2>1. Arg(t)'.room = r /\ Arg(t)'.by = u /\ Arg(t)'.with = v
    BY <1>5
  <2> QED
    BY <1>15, <2>1 DEF DmKnows
<1>17. \A w \in Tasks : DmKnows(w)'
  BY <1>8, <1>16 DEF DmKnows
<1> QED
  BY <1>8, <1>9, <1>11, <1>14, <1>17

LEMMA PairsBegin ==
    ASSUME ChBase, PairsHold, NEW t \in Tasks, RoomCalls(t) \/ PageCalls(t)
    PROVE  PairsHold'
<1>1. PICK op, at, arg : ChCall(op, at, arg) /\ BeginCh(t, op, at, arg)
  BY ChCallsBegin
<1>2. /\ Shaped' /\ Only(t) /\ call[t].op = "none" /\ call'[t].op = op /\ call'[t].at = at /\ Arg(t)' = arg
      /\ UNCHANGED <<rooms, channel_members>>
  BY <1>1, ChBegunIs DEF ChBase, chTables, Arg
<1>3. rivals' = \/ rivals
                \/ (op = "dm" /\ \E o \in Others(t) : call[o].op = "dm")
                \/ (op \in {"join", "leave"} /\ rooms[arg.room] = "dm")
  BY <1>1 DEF BeginCh
<1> SUFFICES ASSUME ~ rivals'
             PROVE  (OnePair /\ ApartOnes /\ PairRooms /\ PairsDiffer /\ \A w \in Tasks : DmKnows(w))'
  BY DEF PairsHold
<1>4. ~ rivals /\ OnePair /\ ApartOnes /\ PairRooms /\ PairsDiffer /\ \A w \in Tasks : DmKnows(w)
  BY <1>3 DEF PairsHold
<1>5. \A w \in Tasks \ {t} : call'[w] = call[w] /\ Arg(w)' = Arg(w) /\ (PairsUp(w)' <=> PairsUp(w))
  BY <1>2 DEF Only, Arg, PairsUp
<1>6. DmsStill /\ \A q : (OfTwo(q)' <=> OfTwo(q)) /\ Whole(q)' = Whole(q)
  BY <1>2 DEF DmsStill, Whole, OfTwo
<1>7. PairsUp(t)' => op = "dm" /\ \A w \in Tasks \ {t} : ~ PairsUp(w)
  BY <1>2, <1>3 DEF PairsUp, Others, Running
<1>8. OnePair'
  BY <1>4, <1>5, <1>7 DEF OnePair
<1>9. op \in {"create_channel", "join", "leave"} => rooms[arg.room] # "dm"
  BY <1>1, <1>3 DEF ChCall, Unused, ChMakers
<1>10. ApartOnes'
  BY <1>2, <1>4, <1>5, <1>9 DEF ApartOnes
<1>11. PairRooms'
  <2> SUFFICES ASSUME NEW q \in Rooms, rooms[q] = "dm", ~ OfTwo(q)
               PROVE  \E w \in Tasks : PairsUp(w)' /\ Arg(w)'.room = q
    BY <1>2, <1>6 DEF PairRooms
  <2>1. PICK w \in Tasks : PairsUp(w) /\ Arg(w).room = q
    BY <1>4 DEF PairRooms
  <2>2. w # t
    BY <1>2, <2>1 DEF PairsUp
  <2> QED
    BY <1>5, <2>1, <2>2
<1>12. PairsDiffer'
  BY <1>2, <1>4, <1>6 DEF PairsDiffer
<1>13. \A w \in Tasks : DmKnows(w)'
  <2> SUFFICES ASSUME NEW w \in Tasks
               PROVE  DmKnows(w)'
    OBVIOUS
  <2>1. CASE w # t
    BY <1>4, <1>5, <1>6, <2>1, DmStandsBy
  <2>2. CASE w = t
    <3> SUFFICES ASSUME PairsUp(t)', NEW x, NEW y, NEW z
                 PROVE  DmMade(t, x, y, z)'
      BY <2>2 DEF DmKnows
    <3>1. call'[t].at = "find"
      BY <1>1, <1>2, <1>7 DEF ChCall
    <3> QED
      BY <3>1 DEF DmMade
  <2> QED
    BY <2>1, <2>2
<1> QED
  BY <1>8, <1>10, <1>11, <1>12, <1>13

LEMMA PairsSteps ==
    ASSUME ChBase, PairsHold, NEW t \in Tasks, ChannelsStep(t)
    PROVE  PairsHold'
<1>1. CASE RoomCalls(t) \/ PageCalls(t)
  BY <1>1, PairsBegin
<1>2. CASE ChWorks(t) /\ ~ PairsUp(t)
  BY <1>2, PairsApart
<1>3. CASE ChWorks(t) /\ PairsUp(t)
  <2>1. FindDm(t) \/ ReadChannelName(t) \/ InsertBox(t) \/ DropCh(t) \/ InsertChannel(t) \/ InsertChannelMember(t)
    <3>1. /\ ~ CheckChannelMember(t) /\ ~ FindWorkspace(t) /\ ~ ListMembers(t) /\ ~ PeekBox(t) /\ ~ FindReader(t)
          /\ ~ ReadBoxes(t) /\ ~ InsertMessage(t) /\ ~ DeleteOld(t) /\ ~ InsertBumped(t) /\ ~ MarkMember(t)
      BY <1>3 DEF PairsUp, On, CheckChannelMember, FindWorkspace, ListMembers, PeekBox, FindReader, ReadBoxes,
                  InsertMessage, DeleteOld, InsertBumped, MarkMember
    <3>2. /\ ~ DeleteBoxes(t) /\ ~ InsertRead(t) /\ ~ DeleteChannelMember(t) /\ ~ UpdateRoom(t) /\ ~ DeleteRoom(t)
          /\ ~ WritePage(t)
      BY <1>3 DEF PairsUp, On, DeleteBoxes, InsertRead, DeleteChannelMember, UpdateRoom, DeleteRoom, WritePage
    <3> QED
      BY <1>3, <3>1, <3>2 DEF ChWorks, ChLooks
  <2> QED
    BY <1>3, <2>1, PairLooks, PairInserts, PairAdds
<1> QED
  BY <1>1, <1>2, <1>3 DEF ChannelsStep, ChWorks, ChLooks

\* Two users have at most one direct message that is theirs alone.
LEMMA PairsAreOne ==
    ASSUME PairsHold, ~ rivals, NEW u \in Users, NEW v \in Users
    PROVE  Cardinality(DmOf(u, v)) <= 1
<1>1. \A r, q \in DmOf(u, v) : r = q
  BY DEF PairsHold, PairsDiffer, DmOf
<1>2. CASE DmOf(u, v) = {}
  BY <1>2, FS_EmptySet
<1>3. CASE DmOf(u, v) # {}
  <2>1. PICK r : r \in DmOf(u, v)
    BY <1>3
  <2>2. DmOf(u, v) = {r}
    BY <1>1, <2>1
  <2> QED
    BY <2>2, FS_Singleton
<1> QED
  BY <1>2, <1>3

LEMMA ListsClean ==
    ASSUME PairsHold, PagesHold
    PROVE  ListsAreClean
  BY PairsAreOne, PagesGone DEF ListsAreClean, OneDmEach

-----------------------------------------------------------------------------
(* The sidebar: what a call has done so far to the rows of the users it       *)
(* writes.                                                                    *)

OnPlace(t, r, u) == <<r, u>> \in ChWrites(call[t].op, Arg(t))
Undisturbed(r, u) == <<r, u>> \notin chMessy /\ r \notin deleted

Outside(r, u)  == u \notin Whole(r) /\ RowsOf(r, u) = {}
InBox(r, u, n) == \E box : RowsOf(r, u) = {box} /\ box.unread = n
RowAgrees(r, u)   == Outside(r, u) \/ (u \in Whole(r) /\ InBox(r, u, due[<<r, u>>]))
OneBehind(r, u) ==
    u \in Whole(r) /\ \E box : RowsOf(r, u) = {box} /\ box.unread + 1 = due[<<r, u>>]

AddHalf(t, r, u) ==
    LET at == call[t].at  todo == Got(t).todo IN
    /\ at \in {"find", "row", "list"} => Outside(r, u)
    /\ at = "member" => IF u \in InLine(todo) THEN Outside(r, u) ELSE RowAgrees(r, u)
    /\ at \in {"name", "box"} =>
        IF u = Head(todo) THEN u \in Whole(r) /\ RowsOf(r, u) = {} /\ due[<<r, u>>] = 0
        ELSE IF u \in InLine(todo) THEN Outside(r, u) ELSE RowAgrees(r, u)

SendHalf(t, r, u) ==
    LET at == call[t].at  todo == Got(t).todo IN
    /\ at \in {"check", "page", "list"} => RowAgrees(r, u)
    /\ at \in {"peek", "unbox", "box"} =>
        IF u \notin InLine(todo) THEN RowAgrees(r, u)
        ELSE IF u # Head(todo) \/ at = "peek" THEN OneBehind(r, u)
        ELSE /\ u \in Whole(r) /\ Got(t).old.unread + 1 = due[<<r, u>>]
             /\ RowsOf(r, u) = IF at = "unbox" THEN {Got(t).old} ELSE {}

ClearHalf(t, r, u) ==
    LET at == call[t].at IN
    /\ at \in {"mark", "who", "list", "rows"} => RowAgrees(r, u)
    /\ at \in {"rows", "unbox", "last"} /\ call[t].op = "read" => u \in Whole(r)
    /\ at = "unbox" => RowsOf(r, u) = Got(t).rows /\ (Got(t).rows = {} \/ \E box : Got(t).rows = {box})
    /\ at = "last" => RowsOf(r, u) = {}

PartWay(t, r, u) ==
    /\ AddsTo(t) => AddHalf(t, r, u)
    /\ call[t].op = "send" => SendHalf(t, r, u)
    /\ call[t].op \in {"read", "leave"} => ClearHalf(t, r, u)

OneAtAPlace ==
    \A r \in Rooms, u \in Users, t, v \in Tasks :
        <<r, u>> \notin chMessy /\ OnPlace(t, r, u) /\ OnPlace(v, r, u) => t = v
Counted(r, u) ==
    Undisturbed(r, u) => /\ (\A t \in Tasks : ~ OnPlace(t, r, u)) => RowAgrees(r, u)
                  /\ \A t \in Tasks : OnPlace(t, r, u) => PartWay(t, r, u)
CountHolds == OneAtAPlace /\ \A r \in Rooms, u \in Users : Counted(r, u)

\* A place is as before.
SamePlace(r, u) ==
    /\ u \in Whole(r)' <=> u \in Whole(r)
    /\ RowsOf(r, u)' = RowsOf(r, u) /\ due'[<<r, u>>] = due[<<r, u>>]

LEMMA SamePlaceKeeps ==
    ASSUME NEW r, NEW u, SamePlace(r, u)
    PROVE  /\ Outside(r, u)' <=> Outside(r, u)
           /\ RowAgrees(r, u)' <=> RowAgrees(r, u)
           /\ OneBehind(r, u)' <=> OneBehind(r, u)
  BY DEF SamePlace, Outside, RowAgrees, OneBehind, InBox

LEMMA PartWayStays ==
    ASSUME NEW r, NEW u, SamePlace(r, u), NEW v \in Tasks, call'[v] = call[v], PartWay(v, r, u)
    PROVE  PartWay(v, r, u)'
<1>1. /\ Got(v)' = Got(v) /\ call'[v].at = call[v].at /\ call'[v].op = call[v].op /\ (AddsTo(v)' <=> AddsTo(v))
  BY DEF Got, AddsTo
<1>2. /\ Outside(r, u)' <=> Outside(r, u)
      /\ RowAgrees(r, u)' <=> RowAgrees(r, u)
      /\ OneBehind(r, u)' <=> OneBehind(r, u)
      /\ u \in Whole(r)' <=> u \in Whole(r)
      /\ RowsOf(r, u)' = RowsOf(r, u) /\ due'[<<r, u>>] = due[<<r, u>>]
  BY SamePlaceKeeps DEF SamePlace
<1>3. AddHalf(v, r, u) => AddHalf(v, r, u)'
  BY <1>1, <1>2 DEF AddHalf
<1>4. SendHalf(v, r, u) => SendHalf(v, r, u)'
  BY <1>1, <1>2 DEF SendHalf
<1>5. ClearHalf(v, r, u) => ClearHalf(v, r, u)'
  BY <1>1, <1>2 DEF ClearHalf
<1> QED
  BY <1>1, <1>3, <1>4, <1>5 DEF PartWay

LEMMA CountMoves ==
    ASSUME CountHolds, NEW t \in Tasks, Ceases(t) \/ (\E at, got : Continues(t, at, got)),
           chMessy \subseteq chMessy', deleted \subseteq deleted',
           \A r \in Rooms, u \in Users : ~ OnPlace(t, r, u) => SamePlace(r, u),
           \A r \in Rooms, u \in Users : Undisturbed(r, u)' /\ OnPlace(t, r, u) /\ PartWay(t, r, u) =>
                IF Ceases(t) THEN RowAgrees(r, u)' ELSE PartWay(t, r, u)'
    PROVE  CountHolds'
<1>1. \A v \in Tasks \ {t} : call'[v] = call[v]
  BY DEF Ceases, Continues, Only
<1>2. \A v \in Tasks : \A r, u : OnPlace(v, r, u)' <=> OnPlace(v, r, u) /\ (v = t => ~ Ceases(t))
  <2>1. ASSUME NEW v \in Tasks, NEW r, NEW u, v # t \/ ~ Ceases(t)
        PROVE  OnPlace(v, r, u)' <=> OnPlace(v, r, u)
    <3>1. call'[v].op = call[v].op /\ Arg(v)' = Arg(v)
      BY <1>1, <2>1 DEF Continues, Arg
    <3> QED
      BY <3>1 DEF OnPlace, ChWrites
  <2>2. ASSUME Ceases(t), NEW r, NEW u
        PROVE  ~ OnPlace(t, r, u)'
    BY <2>2 DEF Ceases, OnPlace, ChWrites
  <2> QED
    BY <2>1, <2>2
<1>3. OneAtAPlace'
  BY <1>2 DEF CountHolds, OneAtAPlace
<1>4. ASSUME NEW r \in Rooms, NEW u \in Users, Undisturbed(r, u)'
      PROVE  /\ (\A v \in Tasks : ~ OnPlace(v, r, u)') => RowAgrees(r, u)'
             /\ \A v \in Tasks : OnPlace(v, r, u)' => PartWay(v, r, u)'
  <2>1. Undisturbed(r, u) /\ Counted(r, u)
    BY <1>4 DEF Undisturbed, CountHolds
  <2>2. CASE OnPlace(t, r, u)
    <3>1. PartWay(t, r, u) /\ \A v \in Tasks \ {t} : ~ OnPlace(v, r, u)
      BY <2>1, <2>2 DEF Counted, CountHolds, OneAtAPlace, Undisturbed
    <3>2. IF Ceases(t) THEN RowAgrees(r, u)' ELSE PartWay(t, r, u)'
      BY <1>4, <2>2, <3>1
    <3> QED
      BY <1>2, <2>2, <3>1, <3>2
  <2>3. CASE ~ OnPlace(t, r, u)
    <3>1. SamePlace(r, u)
      BY <2>3
    <3>2. RowAgrees(r, u)' <=> RowAgrees(r, u)
      BY <3>1, SamePlaceKeeps
    <3>3. \A v \in Tasks \ {t} : PartWay(v, r, u) => PartWay(v, r, u)'
      BY <1>1, <3>1, PartWayStays
    <3> QED
      BY <1>2, <2>1, <2>3, <3>2, <3>3 DEF Counted
  <2> QED
    BY <2>2, <2>3
<1> QED
  BY <1>3, <1>4 DEF CountHolds, Counted

LEMMA PlacesStill ==
    ASSUME UNCHANGED <<channel_members, sidebar, due>>
    PROVE  \A r, u : SamePlace(r, u)
  BY DEF SamePlace, Whole, RowsOf

\* Where a call writes.
LEMMA PlaceIs ==
    ASSUME ChBase, NEW t \in Tasks, NEW r \in Rooms, NEW u \in Users
    PROVE  /\ OnPlace(t, r, u) => r = Arg(t).room /\ call[t].op \in ChAdds \cup {"send", "read", "leave"}
           /\ call[t].op \in ChMakers => (OnPlace(t, r, u) <=> r = Arg(t).room)
           /\ call[t].op = "send" => (OnPlace(t, r, u) <=> r = Arg(t).room /\ u # Arg(t).by)
           /\ call[t].op \in {"read", "join", "leave"} => (OnPlace(t, r, u) <=> r = Arg(t).room /\ u = Arg(t).user)
  BY DEF OnPlace, ChWrites, ChAdds, ChMakers

\* Calls begin.
LEMMA CountBegins ==
    ASSUME ChBase, CountHolds, NEW t \in Tasks, RoomCalls(t) \/ PageCalls(t)
    PROVE  CountHolds'
<1>1. PICK op, at, arg : ChCall(op, at, arg) /\ BeginCh(t, op, at, arg)
  BY ChCallsBegin
<1>2. /\ Only(t) /\ call[t].op = "none" /\ call'[t].op = op /\ call'[t].at = at /\ Arg(t)' = arg
      /\ UNCHANGED <<channel_members, sidebar, due, deleted>>
  BY <1>1, ChBegunIs DEF ChBase, chTables, Arg
<1>3. chMessy' = chMessy
        \cup (ChWrites(op, arg) \cap UNION {ChWrites(call[o].op, Arg(o)) : o \in Others(t)})
        \cup (IF op = "join" /\ IsMember(arg.room, arg.user) THEN ChWrites(op, arg) ELSE {})
  BY <1>1 DEF BeginCh
<1>4. \A v \in Tasks \ {t} : call'[v] = call[v] /\ \A r, u : OnPlace(v, r, u)' <=> OnPlace(v, r, u)
  BY <1>2 DEF Only, OnPlace, Arg
<1>5. \A r, u : ~ OnPlace(t, r, u) /\ (OnPlace(t, r, u)' <=> <<r, u>> \in ChWrites(op, arg))
  BY <1>2 DEF OnPlace, ChWrites
<1>6. ASSUME NEW r, NEW u, <<r, u>> \notin chMessy', OnPlace(t, r, u)', NEW v \in Tasks \ {t}
      PROVE  ~ OnPlace(v, r, u)
  <2> SUFFICES ASSUME OnPlace(v, r, u)
               PROVE  FALSE
    OBVIOUS
  <2>1. v \in Others(t)
    BY DEF Others, Running, OnPlace, ChWrites
  <2>2. <<r, u>> \in UNION {ChWrites(call[o].op, Arg(o)) : o \in Others(t)}
    BY <2>1 DEF OnPlace
  <2> QED
    BY <1>3, <1>5, <1>6, <2>2
<1>7. OneAtAPlace'
  BY <1>3, <1>4, <1>5, <1>6 DEF CountHolds, OneAtAPlace
<1>8. \A r, u : SamePlace(r, u)
  BY <1>2, PlacesStill
<1>9. ASSUME NEW r \in Rooms, NEW u \in Users, Undisturbed(r, u)'
      PROVE  /\ (\A v \in Tasks : ~ OnPlace(v, r, u)') => RowAgrees(r, u)'
             /\ \A v \in Tasks : OnPlace(v, r, u)' => PartWay(v, r, u)'
  <2>1. Undisturbed(r, u) /\ Counted(r, u)
    BY <1>2, <1>3, <1>9 DEF Undisturbed, CountHolds
  <2>2. (RowAgrees(r, u)' <=> RowAgrees(r, u)) /\ (Outside(r, u)' <=> Outside(r, u))
    BY <1>8, SamePlaceKeeps
  <2>3. \A v \in Tasks \ {t} : PartWay(v, r, u) => PartWay(v, r, u)'
    BY <1>4, <1>8, PartWayStays
  <2>4. CASE ~ OnPlace(t, r, u)'
    BY <1>4, <1>5, <2>1, <2>2, <2>3, <2>4 DEF Counted
  <2>5. CASE OnPlace(t, r, u)'
    <3>1. \A v \in Tasks : ~ OnPlace(v, r, u)
      BY <1>5, <1>6, <1>9, <2>5 DEF Undisturbed
    <3>2. RowAgrees(r, u) /\ \A v \in Tasks \ {t} : ~ OnPlace(v, r, u)'
      BY <1>4, <2>1, <3>1 DEF Counted
    <3>3. <<r, u>> \in ChWrites(op, arg)
      BY <1>5, <2>5
    <3>4. op \in ChMakers => Outside(r, u)
      <4> SUFFICES ASSUME op \in ChMakers
                   PROVE  Outside(r, u)
        OBVIOUS
      <4>1. r = arg.room
        BY <3>3 DEF ChWrites, ChMakers
      <4>2. r \notin Known
        BY <1>1, <4>1 DEF ChCall, Unused, Known
      <4> QED
        BY <4>2 DEF ChBase, RoomsHold, Outside, Whole
    <3>5. op = "join" => Outside(r, u)
      <4> SUFFICES ASSUME op = "join"
                   PROVE  Outside(r, u)
        OBVIOUS
      <4>1. r = arg.room /\ u = arg.user
        BY <3>3 DEF ChWrites
      <4>2. ~ IsMember(r, u)
        BY <1>3, <1>9, <3>3, <4>1 DEF Undisturbed
      <4> QED
        BY <3>2, <4>2 DEF IsMember, RowAgrees, Whole
    <3>6. PartWay(t, r, u)'
      <4>1. CASE op \in ChAdds
        <5>1. Outside(r, u)'
          BY <2>2, <3>4, <3>5, <4>1 DEF ChAdds, ChMakers
        <5>2. at \in {"find", "row", "list"}
          BY <1>1, <4>1 DEF ChCall, ChAdds, ChMakers
        <5> QED
          BY <1>2, <4>1, <5>1, <5>2 DEF PartWay, AddHalf, ChAdds
      <4>2. CASE op = "send"
        <5>1. at = "check"
          BY <1>1, <4>2 DEF ChCall, PageOps
        <5> QED
          BY <1>2, <2>2, <3>2, <4>2, <5>1 DEF PartWay, SendHalf, AddsTo, ChAdds
      <4>3. CASE op \in {"read", "leave"}
        <5>1. at \in {"mark", "list"}
          BY <1>1, <4>3 DEF ChCall
        <5> QED
          BY <1>2, <2>2, <3>2, <4>3, <5>1 DEF PartWay, ClearHalf, AddsTo, ChAdds
      <4> QED
        BY <1>2, <4>1, <4>2, <4>3 DEF PartWay, AddsTo
    <3> QED
      BY <2>5, <3>2, <3>6
  <2> QED
    BY <2>4, <2>5
<1> QED
  BY <1>7, <1>9 DEF CountHolds, Counted

\* A step that leaves the rows and the members.
LEMMA CountRests ==
    ASSUME CountHolds, NEW t \in Tasks, Ceases(t) \/ (\E at, got : Continues(t, at, got)),
           UNCHANGED <<channel_members, sidebar, due>>, chMessy \subseteq chMessy', deleted \subseteq deleted',
           \A r \in Rooms, u \in Users :
                Undisturbed(r, u)' /\ OnPlace(t, r, u) /\ PartWay(t, r, u)
                            /\ (RowAgrees(r, u)' <=> RowAgrees(r, u)) /\ (Outside(r, u)' <=> Outside(r, u))
                            /\ (OneBehind(r, u)' <=> OneBehind(r, u))
                            /\ (u \in Whole(r)' <=> u \in Whole(r)) /\ RowsOf(r, u)' = RowsOf(r, u)
                            /\ due'[<<r, u>>] = due[<<r, u>>] =>
                IF Ceases(t) THEN RowAgrees(r, u) ELSE PartWay(t, r, u)'
    PROVE  CountHolds'
<1>1. \A r, u : SamePlace(r, u)
  BY PlacesStill
<1>2. \A r, u : /\ RowAgrees(r, u)' <=> RowAgrees(r, u)
                /\ Outside(r, u)' <=> Outside(r, u)
                /\ OneBehind(r, u)' <=> OneBehind(r, u)
                /\ (u \in Whole(r)' <=> u \in Whole(r)) /\ RowsOf(r, u)' = RowsOf(r, u)
                /\ due'[<<r, u>>] = due[<<r, u>>]
  BY <1>1, SamePlaceKeeps DEF SamePlace
<1>3. \A r \in Rooms, u \in Users : Undisturbed(r, u)' /\ OnPlace(t, r, u) /\ PartWay(t, r, u) =>
            IF Ceases(t) THEN RowAgrees(r, u)' ELSE PartWay(t, r, u)'
  BY <1>2
<1> QED
  BY <1>1, <1>3, CountMoves

LEMMA CheckMemberCounts ==
    ASSUME ChBase, CountHolds, NEW t \in Tasks, CheckChannelMember(t)
    PROVE  CountHolds'
<1>1. /\ call[t].at = "check" /\ call[t].op \in {"send", "write", "edit", "erase", "rename"} /\ Shaped
      /\ UNCHANGED <<channel_members, sidebar, due, chMessy, deleted>>
  BY DEF CheckChannelMember, On, chVars, chTables, chHistory, ChBase
<1>2. \/ Ceases(t)
      \/ \E at \in {"list", "page"} : Continues(t, at, Got(t)) /\ (at = "list" => call[t].op = "rename")
  BY <1>1, LeavesEnds, GotoGoes DEF CheckChannelMember
<1>3. ASSUME NEW r \in Rooms, NEW u \in Users, OnPlace(t, r, u), PartWay(t, r, u), RowAgrees(r, u)' <=> RowAgrees(r, u)
      PROVE  IF Ceases(t) THEN RowAgrees(r, u) ELSE PartWay(t, r, u)'
  <2>1. call[t].op = "send"
    BY <1>1, <1>3, PlaceIs DEF ChAdds
  <2>2. RowAgrees(r, u)
    BY <1>1, <1>3, <2>1 DEF PartWay, SendHalf
  <2>3. CASE Continues(t, "page", Got(t))
    BY <1>3, <2>1, <2>2, <2>3 DEF Continues, PartWay, SendHalf, AddsTo, ChAdds
  <2> QED
    BY <1>2, <2>1, <2>2, <2>3
<1> QED
  BY <1>1, <1>2, <1>3, CountRests

LEMMA FindWorkspaceCounts ==
    ASSUME ChBase, CountHolds, NEW t \in Tasks, FindWorkspace(t)
    PROVE  CountHolds'
<1>1. /\ call[t].at = "list" /\ call[t].op \in {"join", "leave", "rename", "delete"} /\ Shaped
      /\ UNCHANGED <<channel_members, sidebar, due, chMessy, deleted>>
  BY DEF FindWorkspace, On, chVars, chTables, chHistory, ChBase
<1> SUFFICES ASSUME NEW x, x = Arg(t).user, NEW g, g = [todo |-> <<x>>, at |-> 0]
             PROVE  CountHolds'
  OBVIOUS
<1>2. \/ Ceases(t)
      \/ call[t].op = "join" /\ Continues(t, "member", g)
      \/ call[t].op = "leave" /\ Continues(t, "rows", Got(t))
      \/ call[t].op \in {"rename", "delete"} /\ Continues(t, "row", Got(t))
  BY <1>1, LeavesEnds, GotoGoes, LearnGoes DEF FindWorkspace
<1>3. ASSUME NEW r \in Rooms, NEW u \in Users, OnPlace(t, r, u), PartWay(t, r, u),
             RowAgrees(r, u)' <=> RowAgrees(r, u), Outside(r, u)' <=> Outside(r, u)
      PROVE  IF Ceases(t) THEN RowAgrees(r, u) ELSE PartWay(t, r, u)'
  <2>1. call[t].op \in {"join", "leave"} /\ u = x
    BY <1>1, <1>3, PlaceIs DEF ChAdds
  <2>2. RowAgrees(r, u) /\ (call[t].op = "join" => Outside(r, u))
    BY <1>1, <1>3, <2>1 DEF PartWay, AddHalf, ClearHalf, AddsTo, ChAdds, RowAgrees
  <2>3. CASE call[t].op = "join" /\ Continues(t, "member", g)
    <3>1. x \in InLine(<<x>>)
      BY DEF InLine
    <3>2. call'[t].op = "join" /\ call'[t].at = "member" /\ Got(t)'.todo = <<x>>
      BY <2>3 DEF Continues, Got
    <3>3. AddHalf(t, r, u)'
      BY <1>3, <2>1, <2>2, <2>3, <3>1, <3>2 DEF AddHalf
    <3> QED
      BY <2>2, <3>2, <3>3 DEF PartWay
  <2>4. CASE call[t].op = "leave" /\ Continues(t, "rows", Got(t))
    BY <1>3, <2>2, <2>4 DEF Continues, PartWay, ClearHalf, AddsTo, ChAdds
  <2> QED
    BY <1>2, <2>1, <2>2, <2>3, <2>4
<1> QED
  BY <1>1, <1>2, <1>3, CountRests

LEMMA FindDmCounts ==
    ASSUME ChBase, CountHolds, NEW t \in Tasks, FindDm(t)
    PROVE  CountHolds'
<1>1. /\ call[t].at = "find" /\ call[t].op = "dm" /\ Shaped
      /\ UNCHANGED <<channel_members, sidebar, due, chMessy, deleted>>
  BY DEF FindDm, On, chVars, chTables, chHistory, ChBase
<1>2. Ceases(t) \/ Continues(t, "row", Got(t))
  BY <1>1, LeavesEnds, GotoGoes DEF FindDm
<1>3. ASSUME NEW r \in Rooms, NEW u \in Users, PartWay(t, r, u), Outside(r, u)' <=> Outside(r, u)
      PROVE  IF Ceases(t) THEN RowAgrees(r, u) ELSE PartWay(t, r, u)'
  <2>1. RowAgrees(r, u) /\ Outside(r, u)
    BY <1>1, <1>3 DEF PartWay, AddHalf, AddsTo, ChAdds, RowAgrees
  <2> QED
    BY <1>1, <1>2, <1>3, <2>1 DEF Continues, PartWay, AddHalf, AddsTo, ChAdds
<1> QED
  BY <1>1, <1>2, <1>3, CountRests

LEMMA ReadNameCounts ==
    ASSUME ChBase, CountHolds, NEW t \in Tasks, ReadChannelName(t)
    PROVE  CountHolds'
<1>1. /\ call[t].at = "name" /\ call[t].op \in ChAdds /\ AddsTo(t) /\ Shaped
      /\ UNCHANGED <<channel_members, sidebar, due, chMessy, deleted>>
  BY DEF ReadChannelName, On, AddsTo, chVars, chTables, chHistory, ChBase
<1>2. ToBeAdded(Got(t)) /\ Arg(t).room \in Known
  BY <1>1 DEF ChBase, ChLearned, ChAsks, ChAdds, ChMakers, Known
<1>3. CASE AfterAdd(t) /\ rooms[Arg(t).room] \in {"none", "bare"}
  <2>1. Arg(t).room \in deleted
    BY <1>2, <1>3 DEF Known, ChBase, RoomsHold
  <2>2. \A r \in Rooms, u \in Users : OnPlace(t, r, u) => ~ Undisturbed(r, u)'
    BY <1>1, <2>1, PlaceIs DEF Undisturbed
  <2>3. Ceases(t) \/ \E at, got : Continues(t, at, got)
    BY <1>1, <1>2, <1>3, AfterAddIs
  <2> QED
    BY <1>1, <2>2, <2>3, CountRests
<1>4. CASE Goto(t, "box")
  <2>1. Continues(t, "box", Got(t))
    BY <1>1, <1>4, GotoGoes
  <2>2. /\ call'[t].op = call[t].op /\ call'[t].at = "box" /\ Got(t)' = Got(t) /\ AddsTo(t)' /\ ~ Ceases(t)
        /\ call[t].op \notin {"send", "read", "leave"}
    BY <1>1, <2>1 DEF Continues, Got, AddsTo, Ceases, ChAdds
  <2>3. ASSUME NEW r \in Rooms, NEW u \in Users, PartWay(t, r, u), RowAgrees(r, u)' <=> RowAgrees(r, u),
               Outside(r, u)' <=> Outside(r, u), u \in Whole(r)' <=> u \in Whole(r), RowsOf(r, u)' = RowsOf(r, u),
               due'[<<r, u>>] = due[<<r, u>>]
        PROVE  PartWay(t, r, u)'
    <3>1. AddHalf(t, r, u)
      BY <1>1, <2>3 DEF PartWay
    <3>2. AddHalf(t, r, u)'
      BY <1>1, <2>2, <2>3, <3>1 DEF AddHalf
    <3> QED
      BY <2>2, <3>2 DEF PartWay
  <2> QED
    BY <1>1, <2>1, <2>2, <2>3, CountRests
<1> QED
  BY <1>3, <1>4 DEF ReadChannelName

LEMMA FindReaderCounts ==
    ASSUME ChBase, CountHolds, NEW t \in Tasks, FindReader(t)
    PROVE  CountHolds'
<1>1. /\ call[t].at = "who" /\ call[t].op = "read" /\ Shaped
      /\ UNCHANGED <<channel_members, sidebar, due, chMessy, deleted>>
  BY DEF FindReader, On, chVars, chTables, chHistory, ChBase
<1>2. Ceases(t) \/ (Continues(t, "rows", Got(t)) /\ Arg(t).user \in Whole(Arg(t).room))
  BY <1>1, LeavesEnds, GotoGoes DEF FindReader
<1>3. ASSUME NEW r \in Rooms, NEW u \in Users, OnPlace(t, r, u), PartWay(t, r, u), RowAgrees(r, u)' <=> RowAgrees(r, u),
             u \in Whole(r)' <=> u \in Whole(r)
      PROVE  IF Ceases(t) THEN RowAgrees(r, u) ELSE PartWay(t, r, u)'
  <2>1. RowAgrees(r, u) /\ r = Arg(t).room /\ u = Arg(t).user
    BY <1>1, <1>3, PlaceIs DEF PartWay, ClearHalf
  <2> QED
    BY <1>1, <1>2, <1>3, <2>1 DEF Continues, PartWay, ClearHalf, AddsTo, ChAdds
<1> QED
  BY <1>1, <1>2, <1>3, CountRests

\* Whoever agrees has one row or none.
LEMMA ReadBoxesCounts ==
    ASSUME ChBase, CountHolds, NEW t \in Tasks, ReadBoxes(t)
    PROVE  CountHolds'
<1> SUFFICES ASSUME NEW boxes, boxes = RowsOf(Arg(t).room, Arg(t).user),
                    NEW got, got = [at |-> IF call[t].op = "read" THEN Got(t).at ELSE 0, rows |-> boxes]
             PROVE  CountHolds'
  OBVIOUS
<1>1. /\ call[t].at = "rows" /\ call[t].op \in {"read", "leave"} /\ Shaped
      /\ UNCHANGED <<channel_members, sidebar, due, chMessy, deleted>>
  BY DEF ReadBoxes, On, chVars, chTables, chHistory, ChBase
<1>2. Continues(t, "unbox", got)
  BY <1>1, LearnGoes DEF ReadBoxes
<1>3. call'[t].op = call[t].op /\ call'[t].at = "unbox" /\ Got(t)'.rows = boxes /\ ~ Ceases(t)
  BY <1>1, <1>2 DEF Continues, Got, Ceases
<1>4. ASSUME NEW r \in Rooms, NEW u \in Users, OnPlace(t, r, u), PartWay(t, r, u),
             u \in Whole(r)' <=> u \in Whole(r), RowsOf(r, u)' = RowsOf(r, u)
      PROVE  PartWay(t, r, u)'
  <2>1. RowAgrees(r, u) /\ RowsOf(r, u) = boxes /\ (call[t].op = "read" => u \in Whole(r))
    BY <1>1, <1>4, PlaceIs DEF PartWay, ClearHalf
  <2>2. boxes = {} \/ \E box : boxes = {box}
    BY <2>1 DEF RowAgrees, Outside, InBox
  <2>3. ClearHalf(t, r, u)'
    BY <1>3, <1>4, <2>1, <2>2 DEF ClearHalf
  <2> QED
    BY <1>1, <1>3, <2>3 DEF PartWay, AddsTo, ChAdds
<1> QED
  BY <1>1, <1>2, <1>3, <1>4, CountRests

LEMMA InsertChannelCounts ==
    ASSUME ChBase, CountHolds, NEW t \in Tasks, InsertChannel(t)
    PROVE  CountHolds'
<1> SUFFICES ASSUME NEW g, g = [todo |-> ToAdd(Arg(t)), at |-> 0]
             PROVE  CountHolds'
  OBVIOUS
<1>1. /\ call[t].at = "row" /\ AddsTo(t) /\ call[t].op \in {"create_channel", "dm"} /\ Shaped
      /\ UNCHANGED <<channel_members, sidebar, due, chMessy, deleted>>
  BY DEF InsertChannel, On, AddsTo, ChAdds, chHistory, ChBase
<1>2. Continues(t, "member", g)
  BY <1>1, LearnGoes DEF InsertChannel
<1>3. call'[t].op = call[t].op /\ call'[t].at = "member" /\ ~ Ceases(t)
  BY <1>1, <1>2 DEF Continues, Ceases
<1>4. ASSUME NEW r \in Rooms, NEW u \in Users, PartWay(t, r, u), RowAgrees(r, u)' <=> RowAgrees(r, u),
             Outside(r, u)' <=> Outside(r, u)
      PROVE  PartWay(t, r, u)'
  <2>1. Outside(r, u) /\ RowAgrees(r, u)
    BY <1>1, <1>4 DEF PartWay, AddHalf, RowAgrees
  <2>2. AddHalf(t, r, u)'
    BY <1>3, <1>4, <2>1 DEF AddHalf
  <2> QED
    BY <1>1, <1>3, <2>2 DEF PartWay
<1> QED
  BY <1>1, <1>2, <1>3, <1>4, CountRests

LEMMA InsertMessageCounts ==
    ASSUME ChBase, CountHolds, NEW t \in Tasks, InsertMessage(t)
    PROVE  CountHolds'
<1>1. /\ call[t].at = "page" /\ call[t].op = "send" /\ Shaped
      /\ UNCHANGED <<channel_members, sidebar, due, chMessy, deleted>>
  BY DEF InsertMessage, On, chHistory, ChBase
<1> SUFFICES ASSUME NEW n, n = clock
             PROVE  CountHolds'
  OBVIOUS
<1>2. Continues(t, "list", n)
  BY <1>1, LearnGoes DEF InsertMessage
<1>3. call'[t].op = "send" /\ call'[t].at = "list" /\ ~ Ceases(t)
  BY <1>1, <1>2 DEF Continues, Ceases
<1>4. ASSUME NEW r \in Rooms, NEW u \in Users, PartWay(t, r, u), RowAgrees(r, u)' <=> RowAgrees(r, u)
      PROVE  PartWay(t, r, u)'
  BY <1>1, <1>3, <1>4 DEF PartWay, SendHalf, AddsTo, ChAdds
<1> QED
  BY <1>1, <1>2, <1>3, <1>4, CountRests

\* The rows of channels and pages are not those of the sidebar.
LEMMA RoomRowCounts ==
    ASSUME ChBase, CountHolds, NEW t \in Tasks, UpdateRoom(t) \/ DeleteRoom(t) \/ WritePage(t)
    PROVE  CountHolds'
<1>1. /\ call[t].op \in {"rename", "delete", "write", "edit", "erase"} /\ Shaped /\ Finish(t)
      /\ UNCHANGED <<channel_members, sidebar, due, chMessy>>
  BY DEF UpdateRoom, DeleteRoom, WritePage, On, chHistory, ChBase
<1>2. deleted \subseteq deleted'
  BY DEF UpdateRoom, DeleteRoom, WritePage, chHistory
<1>3. Ceases(t) /\ \A r \in Rooms, u \in Users : ~ OnPlace(t, r, u)
  BY <1>1, LeavesEnds, PlaceIs DEF ChAdds
<1> QED
  BY <1>1, <1>2, <1>3, CountRests

\* The places of a call that is dropped are counted no more.
LEMMA DropCounts ==
    ASSUME ChBase, CountHolds, NEW t \in Tasks, DropCh(t)
    PROVE  CountHolds'
<1>1. /\ Shaped /\ UNCHANGED <<channel_members, sidebar, due, deleted>> /\ Drop(t)
      /\ chMessy' = chMessy \cup ChWrites(call[t].op, Arg(t))
  BY DEF DropCh, chTables, ChBase
<1>2. Ceases(t) /\ \A r, u : OnPlace(t, r, u) => ~ Undisturbed(r, u)'
  BY <1>1, LeavesEnds DEF OnPlace, Undisturbed
<1> QED
  BY <1>1, <1>2, CountRests

\* A message is for whoever is in the channel now, but its author.
LEMMA ListMembersCounts ==
    ASSUME ChBase, CountHolds, NEW t \in Tasks, ListMembers(t)
    PROVE  CountHolds'
<1> SUFFICES ASSUME NEW q, q = Arg(t).room, NEW S, S = Whole(q) \ {Arg(t).by},
                    NEW s, s = SetToSeq(S), NEW g, g = [todo |-> s, at |-> Got(t)]
             PROVE  CountHolds'
  OBVIOUS
<1>1. /\ call[t].at = "list" /\ call[t].op = "send" /\ Shaped
      /\ UNCHANGED <<channel_members, sidebar, chMessy, deleted>>
  BY DEF ListMembers, On, chTables, ChBase
<1>2. due' = [pl \in Places |-> IF pl \in {q} \X S THEN due[pl] + 1 ELSE due[pl]]
  BY DEF ListMembers
<1>3. (S = {} /\ Ceases(t)) \/ (S # {} /\ Continues(t, "peek", g) /\ ~ Ceases(t))
  <2>1. IF S = {} THEN Finish(t) ELSE Learn(t, "peek", g)
    BY DEF ListMembers
  <2> QED
    BY <1>1, <2>1, LeavesEnds, LearnGoes DEF Continues, Ceases
<1>4. S \subseteq Users /\ InLine(s) = S
  BY SetToSeqIs DEF Whole
<1>5. \A r, u : (u \in Whole(r)' <=> u \in Whole(r)) /\ RowsOf(r, u)' = RowsOf(r, u)
  BY <1>1 DEF Whole, RowsOf
<1>6. \A r \in Rooms, u \in Users :
            due'[<<r, u>>] = IF r = q /\ u \in S THEN due[<<r, u>>] + 1 ELSE due[<<r, u>>]
  BY <1>2 DEF Places
<1>7. \A r \in Rooms, u \in Users : r # q \/ u \notin S => SamePlace(r, u)
  BY <1>5, <1>6 DEF SamePlace
<1>8. \A r \in Rooms, u \in Users : OnPlace(t, r, u) <=> r = q /\ u # Arg(t).by
  BY <1>1, PlaceIs
<1>9. ASSUME NEW r \in Rooms, NEW u \in Users, OnPlace(t, r, u), PartWay(t, r, u)
      PROVE  IF Ceases(t) THEN RowAgrees(r, u)' ELSE PartWay(t, r, u)'
  <2>1. RowAgrees(r, u) /\ r = q
    BY <1>1, <1>8, <1>9 DEF PartWay, SendHalf
  <2>2. u \notin S => RowAgrees(r, u)'
    BY <1>7, <2>1, SamePlaceKeeps
  <2>3. u \in S => OneBehind(r, u)'
    <3> SUFFICES ASSUME u \in S
                 PROVE  OneBehind(r, u)'
      OBVIOUS
    <3>1. PICK box : RowsOf(r, u) = {box} /\ box.unread = due[<<r, u>>]
      BY <2>1 DEF RowAgrees, Outside, InBox
    <3> QED
      BY <1>5, <1>6, <2>1, <3>1 DEF OneBehind
  <2>4. CASE Continues(t, "peek", g)
    <3>1. call'[t].op = "send" /\ call'[t].at = "peek" /\ Got(t)'.todo = s
      BY <1>1, <2>4 DEF Continues, Got
    <3>2. SendHalf(t, r, u)'
      BY <1>4, <2>2, <2>3, <3>1 DEF SendHalf
    <3> QED
      BY <1>3, <2>4, <3>1, <3>2 DEF PartWay, AddsTo, ChAdds, Ceases
  <2> QED
    BY <1>3, <2>2, <2>4
<1>10. \A r \in Rooms, u \in Users : ~ OnPlace(t, r, u) => SamePlace(r, u)
  BY <1>7, <1>8
<1>11. Ceases(t) \/ \E at, got : Continues(t, at, got)
  BY <1>3
<1> QED
  BY <1>1, <1>9, <1>10, <1>11, CountMoves

\* One user of a line is told, or has nothing to be told in; the next one's turn.
LEMMA AfterBumpCounts ==
    ASSUME ChBase, NEW t \in Tasks, call[t].op = "send", ToBeTold(t, Got(t)), AfterBump(t),
           NEW r \in Rooms, NEW u \in Users,
           u \notin InLine(Got(t).todo) => RowAgrees(r, u)',
           u = Head(Got(t).todo) => RowAgrees(r, u)',
           u \in InLine(Got(t).todo) \ {Head(Got(t).todo)} => OneBehind(r, u)'
    PROVE  IF Ceases(t) THEN RowAgrees(r, u)' ELSE PartWay(t, r, u)'
<1> SUFFICES ASSUME NEW g, g = Got(t), NEW h, h = [todo |-> Tail(g.todo), at |-> g.at]
             PROVE  IF Ceases(t) THEN RowAgrees(r, u)' ELSE PartWay(t, r, u)'
  OBVIOUS
<1>1. Queue(g.todo) /\ Shaped
  BY DEF ToBeTold, ChBase
<1>2. CASE Len(g.todo) = 1 /\ Ceases(t)
  BY <1>1, <1>2, FirstInLine
<1>3. CASE Len(g.todo) # 1 /\ Continues(t, "peek", h)
  <2>1. call'[t].op = "send" /\ call'[t].at = "peek" /\ Got(t)'.todo = Tail(g.todo) /\ ~ Ceases(t)
    BY <1>3 DEF Continues, Got, Ceases
  <2>2. InLine(Tail(g.todo)) = InLine(g.todo) \ {Head(g.todo)}
    BY <1>1, <1>3, FirstInLine
  <2>3. SendHalf(t, r, u)'
    BY <2>1, <2>2 DEF SendHalf
  <2> QED
    BY <2>1, <2>3 DEF PartWay, AddsTo, ChAdds
<1> QED
  BY <1>1, <1>2, <1>3, AfterBumpIs

LEMMA PeekBoxCounts ==
    ASSUME ChBase, CountHolds, NEW t \in Tasks, PeekBox(t)
    PROVE  CountHolds'
<1> SUFFICES ASSUME NEW g, g = Got(t), NEW x, x = Head(g.todo), NEW q, q = Arg(t).room
             PROVE  CountHolds'
  OBVIOUS
<1>1. /\ call[t].at = "peek" /\ call[t].op = "send" /\ Shaped
      /\ UNCHANGED <<channel_members, sidebar, due, chMessy, deleted>>
  BY DEF PeekBox, On, chVars, chTables, chHistory, ChBase
<1>2. ToBeTold(t, g) /\ q \in Rooms
  BY <1>1 DEF ChBase, ChLearned, ChAsks
<1>3. Queue(g.todo) /\ x \in Users /\ x \in InLine(g.todo)
  BY <1>2, FirstInLine DEF ToBeTold
<1>4. \A r \in Rooms, u \in Users : OnPlace(t, r, u) => r = q
  BY PlaceIs
<1>5. CASE RowsOf(q, x) = {}
  <2>1. AfterBump(t)
    BY <1>5 DEF PeekBox
  <2>2. ASSUME NEW r \in Rooms, NEW u \in Users, OnPlace(t, r, u), PartWay(t, r, u),
               RowAgrees(r, u)' <=> RowAgrees(r, u), OneBehind(r, u)' <=> OneBehind(r, u)
        PROVE  IF Ceases(t) THEN RowAgrees(r, u) ELSE PartWay(t, r, u)'
    <3>1. IF u \notin InLine(g.todo) THEN RowAgrees(r, u) ELSE OneBehind(r, u)
      BY <1>1, <2>2 DEF PartWay, SendHalf
    <3>2. u # x
      BY <1>3, <1>4, <1>5, <2>2, <3>1 DEF OneBehind
    <3> QED
      BY <1>1, <1>2, <2>1, <2>2, <3>1, <3>2, AfterBumpCounts
  <2>3. Ceases(t) \/ \E at, got : Continues(t, at, got)
    BY <1>1, <2>1, AfterBumpIs
  <2> QED
    BY <1>1, <2>2, <2>3, CountRests
<1>6. CASE RowsOf(q, x) # {}
  <2> SUFFICES ASSUME NEW old, old = Newest(RowsOf(q, x)), NEW h, h = [todo |-> g.todo, at |-> g.at, old |-> old]
               PROVE  CountHolds'
    OBVIOUS
  <2>1. Learn(t, "unbox", h)
    BY <1>6 DEF PeekBox
  <2>2. Continues(t, "unbox", h)
    BY <1>1, <2>1, LearnGoes
  <2>3. /\ call'[t].op = "send" /\ call'[t].at = "unbox" /\ Got(t)'.todo = g.todo /\ Got(t)'.old = old /\ ~ Ceases(t)
    BY <1>1, <2>2 DEF Continues, Got, Ceases
  <2>4. old \in RowsOf(q, x)
    BY <1>2, <1>3, <1>6, NewestIs
  <2>5. ASSUME NEW r \in Rooms, NEW u \in Users, OnPlace(t, r, u), PartWay(t, r, u), RowAgrees(r, u)' <=> RowAgrees(r, u),
               OneBehind(r, u)' <=> OneBehind(r, u), u \in Whole(r)' <=> u \in Whole(r),
               RowsOf(r, u)' = RowsOf(r, u), due'[<<r, u>>] = due[<<r, u>>]
        PROVE  PartWay(t, r, u)'
    <3>1. r = q /\ IF u \notin InLine(g.todo) THEN RowAgrees(r, u) ELSE OneBehind(r, u)
      BY <1>1, <1>4, <2>5 DEF PartWay, SendHalf
    <3>2. u = x => /\ u \in Whole(r)' /\ old.unread + 1 = due'[<<r, u>>]
                   /\ RowsOf(r, u)' = {old}
      BY <1>3, <2>4, <2>5, <3>1 DEF OneBehind
    <3>3. SendHalf(t, r, u)'
      BY <2>3, <2>5, <3>1, <3>2 DEF SendHalf
    <3> QED
      BY <2>3, <3>3 DEF PartWay, AddsTo, ChAdds
  <2> QED
    BY <1>1, <2>2, <2>3, <2>5, CountRests
<1> QED
  BY <1>5, <1>6

-----------------------------------------------------------------------------
(* Steps that write the rows of one user in one channel. *)

LEMMA RowAdded ==
    ASSUME NEW new, sidebar' = sidebar \cup {new}
    PROVE  \A r, u : RowsOf(r, u)' = IF new.room = r /\ new.user = u THEN RowsOf(r, u) \cup {new} ELSE RowsOf(r, u)
  BY DEF RowsOf

LEMMA RowsCut ==
    ASSUME NEW q, NEW x, NEW n, sidebar' = sidebar \ {box \in RowsOf(q, x) : box.at = n}
    PROVE  \A r, u : RowsOf(r, u)' = IF r = q /\ u = x THEN {box \in RowsOf(q, x) : box.at # n} ELSE RowsOf(r, u)
  BY DEF RowsOf

\* Only the place <<q, x>> is written, and the call works on it.
LEMMA CountWrites ==
    ASSUME CountHolds, NEW t \in Tasks, Ceases(t) \/ (\E at, got : Continues(t, at, got)),
           chMessy \subseteq chMessy', deleted \subseteq deleted', NEW q \in Rooms, NEW x \in Users, OnPlace(t, q, x),
           \A r \in Rooms, u \in Users : r # q \/ u # x => SamePlace(r, u),
           \A r \in Rooms, u \in Users : Undisturbed(r, u)' /\ OnPlace(t, r, u) /\ PartWay(t, r, u)
                    /\ (r # q \/ u # x => SamePlace(r, u) /\ (RowAgrees(r, u)' <=> RowAgrees(r, u))
                            /\ (Outside(r, u)' <=> Outside(r, u)) /\ (OneBehind(r, u)' <=> OneBehind(r, u))) =>
                IF Ceases(t) THEN RowAgrees(r, u)' ELSE PartWay(t, r, u)'
    PROVE  CountHolds'
<1>1. \A r \in Rooms, u \in Users : r # q \/ u # x =>
            SamePlace(r, u) /\ (RowAgrees(r, u)' <=> RowAgrees(r, u))
                /\ (Outside(r, u)' <=> Outside(r, u)) /\ (OneBehind(r, u)' <=> OneBehind(r, u))
  BY SamePlaceKeeps
<1>2. \A r \in Rooms, u \in Users : ~ OnPlace(t, r, u) => SamePlace(r, u)
  BY <1>1
<1>3. \A r \in Rooms, u \in Users : Undisturbed(r, u)' /\ OnPlace(t, r, u) /\ PartWay(t, r, u) =>
            IF Ceases(t) THEN RowAgrees(r, u)' ELSE PartWay(t, r, u)'
  BY <1>1
<1> QED
  BY <1>2, <1>3, CountMoves

LEMMA InsertChannelMemberCounts ==
    ASSUME ChBase, CountHolds, NEW t \in Tasks, InsertChannelMember(t)
    PROVE  CountHolds'
<1> SUFFICES ASSUME NEW q, q = Arg(t).room, NEW g, g = Got(t), NEW x, x = Head(g.todo),
                    NEW h, h = [todo |-> g.todo, at |-> clock]
             PROVE  CountHolds'
  OBVIOUS
<1>1. /\ AddsTo(t) /\ call[t].at = "member" /\ call[t].op \in ChAdds
      /\ channel_members' = [channel_members EXCEPT ![q][x] = "whole"] /\ due' = [due EXCEPT ![<<q, x>>] = 0]
      /\ Learn(t, "name", [g EXCEPT !.at = clock]) /\ UNCHANGED <<sidebar, chMessy, deleted>>
  BY DEF InsertChannelMember, On, AddsTo, ChAdds
<1>2. /\ Shaped /\ RoomTables /\ ToBeAdded(g) /\ (call[t].op = "join" => InLine(g.todo) \subseteq {Arg(t).user})
      /\ q \in Rooms
  BY <1>1 DEF ChBase, ChLearned, ChAsks, ChAdds
<1>3. x \in Users /\ x \in InLine(g.todo)
  BY <1>2, FirstInLine DEF ToBeAdded
<1>4. [g EXCEPT !.at = clock] = h
  BY <1>2, LineTimed DEF ToBeAdded
<1>5. Continues(t, "name", h)
  BY <1>1, <1>2, <1>4, LearnGoes
<1>6. /\ call'[t].op = call[t].op /\ call'[t].at = "name" /\ Got(t)'.todo = g.todo /\ ~ Ceases(t) /\ AddsTo(t)'
      /\ call[t].op \notin {"send", "read", "leave"}
  BY <1>1, <1>5 DEF Continues, Got, Ceases, AddsTo, ChAdds
<1>7. \A r \in Rooms, u \in Users : channel_members'[r][u] = IF r = q /\ u = x THEN "whole" ELSE channel_members[r][u]
  BY <1>1, <1>2, <1>3 DEF RoomTables
<1>8. due'[<<q, x>>] = 0 /\ \A r \in Rooms, u \in Users : r # q \/ u # x => due'[<<r, u>>] = due[<<r, u>>]
  <2>1. due' = [due EXCEPT ![<<q, x>>] = 0] /\ due \in [Places -> Nat] /\ x \in Users /\ q \in Rooms
    BY <1>1, <1>2, <1>3 DEF RoomTables
  <2> QED
    BY <2>1, Zenon DEF Places
<1>9. \A r, u : RowsOf(r, u)' = RowsOf(r, u)
  BY <1>1 DEF RowsOf
<1>10. x \in Whole(q)' /\ \A r \in Rooms, u \in Users : r # q \/ u # x => SamePlace(r, u)
  BY <1>2, <1>3, <1>7, <1>8, <1>9 DEF SamePlace, Whole
<1>11. OnPlace(t, q, x)
  BY <1>1, <1>2, <1>3, PlaceIs DEF ChAdds, ChMakers
<1>12. ASSUME NEW r \in Rooms, NEW u \in Users, OnPlace(t, r, u), PartWay(t, r, u),
              r # q \/ u # x => (RowAgrees(r, u)' <=> RowAgrees(r, u)) /\ (Outside(r, u)' <=> Outside(r, u))
       PROVE  PartWay(t, r, u)'
  <2>1. r = q /\ IF u \in InLine(g.todo) THEN Outside(r, u) ELSE RowAgrees(r, u)
    BY <1>1, <1>12, PlaceIs DEF PartWay, AddHalf
  <2>2. u = x => u \in Whole(r)' /\ RowsOf(r, u)' = {} /\ due'[<<r, u>>] = 0
    BY <1>3, <1>8, <1>9, <1>10, <2>1 DEF Outside
  <2>3. AddHalf(t, r, u)'
    BY <1>6, <1>12, <2>1, <2>2 DEF AddHalf
  <2> QED
    BY <1>6, <2>3 DEF PartWay
<1> QED
  BY <1>1, <1>2, <1>3, <1>5, <1>6, <1>10, <1>11, <1>12, CountWrites

LEMMA InsertBoxCounts ==
    ASSUME ChBase, CountHolds, NEW t \in Tasks, InsertBox(t)
    PROVE  CountHolds'
<1> SUFFICES ASSUME NEW q, q = Arg(t).room, NEW g, g = Got(t), NEW x, x = Head(g.todo),
                    NEW h, h = [todo |-> Tail(g.todo), at |-> g.at]
             PROVE  CountHolds'
  OBVIOUS
<1>0. PICK new : new = [room |-> q, user |-> x, at |-> g.at, unread |-> 0]
  OBVIOUS
<1>1. /\ AddsTo(t) /\ call[t].at = "box" /\ call[t].op \in ChAdds
      /\ sidebar' = sidebar \cup {new} /\ AfterAdd(t) /\ UNCHANGED <<channel_members, due, chMessy, deleted>>
  BY <1>0 DEF InsertBox, On, AddsTo, ChAdds, chHistory
<1>2. /\ Shaped /\ ToBeAdded(g) /\ (call[t].op = "join" => InLine(g.todo) \subseteq {Arg(t).user}) /\ q \in Rooms
  BY <1>1 DEF ChBase, ChLearned, ChAsks, ChAdds
<1>3. Queue(g.todo) /\ x \in Users /\ x \in InLine(g.todo)
  BY <1>2, FirstInLine DEF ToBeAdded
<1>4. (Len(g.todo) = 1 /\ Ceases(t)) \/ (Len(g.todo) # 1 /\ Continues(t, "member", h))
  BY <1>1, <1>2, AfterAddIs
<1>5. new.room = q /\ new.user = x /\ new.unread = 0
  BY <1>0
<1>6. \A r, u : RowsOf(r, u)' = IF q = r /\ x = u THEN RowsOf(r, u) \cup {new} ELSE RowsOf(r, u)
  BY <1>1, <1>5, RowAdded
<1>7. \A r, u : (u \in Whole(r)' <=> u \in Whole(r)) /\ due'[<<r, u>>] = due[<<r, u>>]
  BY <1>1 DEF Whole
<1>8. \A r \in Rooms, u \in Users : r # q \/ u # x => SamePlace(r, u)
  BY <1>6, <1>7 DEF SamePlace
<1>9. OnPlace(t, q, x)
  BY <1>1, <1>2, <1>3, PlaceIs DEF ChAdds, ChMakers
<1>10. ASSUME NEW r \in Rooms, NEW u \in Users, OnPlace(t, r, u), PartWay(t, r, u),
              r # q \/ u # x => (RowAgrees(r, u)' <=> RowAgrees(r, u)) /\ (Outside(r, u)' <=> Outside(r, u))
       PROVE  IF Ceases(t) THEN RowAgrees(r, u)' ELSE PartWay(t, r, u)'
  <2>1. r = q /\ AddHalf(t, r, u)
    BY <1>1, <1>10, PlaceIs DEF PartWay
  <2>2. u # x => IF u \in InLine(g.todo) THEN Outside(r, u)' ELSE RowAgrees(r, u)'
    BY <1>1, <1>10, <2>1 DEF AddHalf
  <2>3. u = x => RowAgrees(r, u)'
    <3> SUFFICES ASSUME u = x
                 PROVE  RowAgrees(r, u)'
      OBVIOUS
    <3>1. u \in Whole(r) /\ RowsOf(r, u) = {} /\ due[<<r, u>>] = 0
      BY <1>1, <2>1 DEF AddHalf
    <3>2. RowsOf(r, u)' = {new} /\ u \in Whole(r)' /\ new.unread = due'[<<r, u>>]
      BY <1>5, <1>6, <1>7, <2>1, <3>1
    <3> QED
      BY <3>2 DEF RowAgrees, InBox
  <2>4. CASE Len(g.todo) = 1 /\ Ceases(t)
    <3>1. InLine(g.todo) = {x}
      BY <1>3, <2>4, FirstInLine
    <3> QED
      BY <2>2, <2>3, <2>4, <3>1
  <2>5. CASE Len(g.todo) # 1 /\ Continues(t, "member", h)
    <3>1. call'[t].op = call[t].op /\ call'[t].at = "member" /\ Got(t)'.todo = Tail(g.todo) /\ ~ Ceases(t)
      BY <1>1, <2>5 DEF Continues, Got, Ceases, ChAdds
    <3>2. InLine(Tail(g.todo)) = InLine(g.todo) \ {x}
      BY <1>3, <2>5, FirstInLine
    <3>3. AddHalf(t, r, u)'
      BY <2>2, <2>3, <3>1, <3>2 DEF AddHalf
    <3> QED
      BY <1>1, <3>1, <3>3 DEF PartWay, ChAdds
  <2> QED
    BY <1>4, <2>4, <2>5
<1>11. Ceases(t) \/ \E at, got : Continues(t, at, got)
  BY <1>4
<1> QED
  BY <1>1, <1>2, <1>3, <1>8, <1>9, <1>10, <1>11, CountWrites

LEMMA DeleteOldCounts ==
    ASSUME ChBase, CountHolds, NEW t \in Tasks, DeleteOld(t)
    PROVE  CountHolds'
<1> SUFFICES ASSUME NEW q, q = Arg(t).room, NEW g, g = Got(t), NEW x, x = Head(g.todo), NEW old, old = g.old
             PROVE  CountHolds'
  OBVIOUS
<1>1. /\ call[t].op = "send" /\ call[t].at = "unbox" /\ Goto(t, "box")
      /\ sidebar' = sidebar \ {box \in RowsOf(q, x) : box.at = old.at}
      /\ UNCHANGED <<channel_members, due, chMessy, deleted>>
  BY DEF DeleteOld, On, chHistory
<1>2. Shaped /\ ToBeTold(t, g) /\ q \in Rooms
  BY <1>1 DEF ChBase, ChLearned, ChAsks
<1>3. x \in Users /\ x \in InLine(g.todo)
  BY <1>2, FirstInLine DEF ToBeTold
<1>4. Continues(t, "box", g)
  BY <1>1, <1>2, GotoGoes
<1>5. call'[t].op = "send" /\ call'[t].at = "box" /\ Got(t)' = g /\ ~ Ceases(t)
  BY <1>1, <1>4 DEF Continues, Got, Ceases
<1>6. \A r, u : RowsOf(r, u)' = IF r = q /\ u = x THEN {box \in RowsOf(q, x) : box.at # old.at} ELSE RowsOf(r, u)
  <2>1. sidebar' = sidebar \ {box \in RowsOf(q, x) : box.at = old.at}
    BY <1>1
  <2> QED
    BY <2>1 DEF RowsOf
<1>7. \A r, u : (u \in Whole(r)' <=> u \in Whole(r)) /\ due'[<<r, u>>] = due[<<r, u>>]
  BY <1>1 DEF Whole
<1>8. \A r \in Rooms, u \in Users : r # q \/ u # x => SamePlace(r, u)
  BY <1>6, <1>7 DEF SamePlace
<1>9. OnPlace(t, q, x)
  BY <1>1, <1>2, <1>3, PlaceIs DEF ToBeTold
<1>10. ASSUME NEW r \in Rooms, NEW u \in Users, OnPlace(t, r, u), PartWay(t, r, u),
              r # q \/ u # x => (RowAgrees(r, u)' <=> RowAgrees(r, u)) /\ (OneBehind(r, u)' <=> OneBehind(r, u))
       PROVE  PartWay(t, r, u)'
  <2>1. r = q /\ SendHalf(t, r, u)
    BY <1>1, <1>10, PlaceIs DEF PartWay
  <2>2. u # x => IF u \in InLine(g.todo) THEN OneBehind(r, u)' ELSE RowAgrees(r, u)'
    BY <1>1, <1>10, <2>1 DEF SendHalf
  <2>3. u = x => u \in Whole(r)' /\ old.unread + 1 = due'[<<r, u>>] /\ RowsOf(r, u)' = {}
    <3> SUFFICES ASSUME u = x
                 PROVE  u \in Whole(r)' /\ old.unread + 1 = due'[<<r, u>>] /\ RowsOf(r, u)' = {}
      OBVIOUS
    <3>1. u \in Whole(r) /\ old.unread + 1 = due[<<r, u>>] /\ RowsOf(r, u) = {old}
      BY <1>1, <1>3, <2>1 DEF SendHalf
    <3> QED
      BY <1>6, <1>7, <2>1, <3>1
  <2>4. SendHalf(t, r, u)'
    BY <1>5, <1>3, <2>2, <2>3 DEF SendHalf
  <2> QED
    BY <1>5, <2>4 DEF PartWay, AddsTo, ChAdds
<1> QED
  BY <1>1, <1>2, <1>3, <1>4, <1>5, <1>8, <1>9, <1>10, CountWrites

LEMMA InsertBumpedCounts ==
    ASSUME ChBase, CountHolds, NEW t \in Tasks, InsertBumped(t)
    PROVE  CountHolds'
<1> SUFFICES ASSUME NEW q, q = Arg(t).room, NEW g, g = Got(t), NEW x, x = Head(g.todo), NEW old, old = g.old
             PROVE  CountHolds'
  OBVIOUS
<1>0. PICK new : new = BumpedRow(old, g.at)
  OBVIOUS
<1>1. call[t].op = "send" /\ call[t].at = "box" /\ AfterBump(t) /\ UNCHANGED <<channel_members, due, chMessy, deleted>>
  BY DEF InsertBumped, On, chHistory
<1>2. Shaped /\ ToBeTold(t, g) /\ OwnRow(t, old, x) /\ q \in Rooms
  BY <1>1 DEF ChBase, ChLearned, ChAsks
<1>3. x \in Users /\ x \in InLine(g.todo)
  BY <1>2, FirstInLine DEF ToBeTold
<1>4. sidebar' = sidebar \cup {new}
  BY <1>0, <1>2, BumpedIs DEF InsertBumped, OwnRow
<1>5. new.room = q /\ new.user = x /\ new.unread = old.unread + 1
  BY <1>0, <1>2 DEF OwnRow, BumpedRow
<1>6. \A r, u : RowsOf(r, u)' = IF q = r /\ x = u THEN RowsOf(r, u) \cup {new} ELSE RowsOf(r, u)
  BY <1>4, <1>5, RowAdded
<1>7. \A r, u : (u \in Whole(r)' <=> u \in Whole(r)) /\ due'[<<r, u>>] = due[<<r, u>>]
  BY <1>1 DEF Whole
<1>8. \A r \in Rooms, u \in Users : r # q \/ u # x => SamePlace(r, u)
  BY <1>6, <1>7 DEF SamePlace
<1>9. OnPlace(t, q, x)
  BY <1>1, <1>2, <1>3, PlaceIs DEF ToBeTold
<1>10. ASSUME NEW r \in Rooms, NEW u \in Users, OnPlace(t, r, u), PartWay(t, r, u),
              r # q \/ u # x => (RowAgrees(r, u)' <=> RowAgrees(r, u)) /\ (OneBehind(r, u)' <=> OneBehind(r, u))
       PROVE  IF Ceases(t) THEN RowAgrees(r, u)' ELSE PartWay(t, r, u)'
  <2>1. r = q /\ SendHalf(t, r, u)
    BY <1>1, <1>10, PlaceIs DEF PartWay
  <2>2. u # x => IF u \in InLine(g.todo) THEN OneBehind(r, u)' ELSE RowAgrees(r, u)'
    BY <1>1, <1>10, <2>1 DEF SendHalf
  <2>3. u = x => RowAgrees(r, u)'
    <3> SUFFICES ASSUME u = x
                 PROVE  RowAgrees(r, u)'
      OBVIOUS
    <3>1. u \in Whole(r) /\ old.unread + 1 = due[<<r, u>>] /\ RowsOf(r, u) = {}
      BY <1>1, <1>3, <2>1 DEF SendHalf
    <3>2. RowsOf(r, u)' = {new} /\ u \in Whole(r)' /\ new.unread = due'[<<r, u>>]
      BY <1>5, <1>6, <1>7, <2>1, <3>1
    <3> QED
      BY <3>2 DEF RowAgrees, InBox
  <2> QED
    BY <1>1, <1>2, <1>3, <2>2, <2>3, AfterBumpCounts
<1>11. Ceases(t) \/ \E at, got : Continues(t, at, got)
  BY <1>1, <1>2, AfterBumpIs
<1> QED
  BY <1>1, <1>2, <1>3, <1>8, <1>9, <1>10, <1>11, CountWrites

\* A reader's row may be bare, which makes nobody a member.
LEMMA MarkMemberCounts ==
    ASSUME ChBase, CountHolds, NEW t \in Tasks, MarkMember(t)
    PROVE  CountHolds'
<1> SUFFICES ASSUME NEW q, q = Arg(t).room, NEW x, x = Arg(t).user, NEW g, g = [at |-> clock, rows |-> {}],
                    NEW m, m = IF channel_members[q][x] = "none" THEN "bare" ELSE channel_members[q][x]
             PROVE  CountHolds'
  OBVIOUS
<1>1. /\ call[t].op = "read" /\ call[t].at = "mark" /\ Learn(t, "who", g)
      /\ UNCHANGED <<sidebar, due, chMessy, deleted>>
  BY DEF MarkMember, On, chHistory
<1>2. q \in Rooms /\ x \in Users /\ Shaped /\ RoomTables
  BY <1>1 DEF ChBase, ChAsks
<1>3. channel_members' = [channel_members EXCEPT ![q][x] = m]
  BY DEF MarkMember
<1>4. \A r \in Rooms, u \in Users : channel_members'[r][u] = IF r = q /\ u = x THEN m ELSE channel_members[r][u]
  BY <1>2, <1>3 DEF RoomTables
<1>5. \A r \in Rooms, u \in Users : SamePlace(r, u)
  BY <1>1, <1>4 DEF SamePlace, Whole, RowsOf
<1>6. Continues(t, "who", g)
  BY <1>1, <1>2, LearnGoes
<1>7. call'[t].op = "read" /\ call'[t].at = "who" /\ ~ Ceases(t)
  BY <1>1, <1>6 DEF Continues, Ceases
<1>8. ASSUME NEW r \in Rooms, NEW u \in Users, PartWay(t, r, u), RowAgrees(r, u)' <=> RowAgrees(r, u)
      PROVE  PartWay(t, r, u)'
  BY <1>1, <1>7, <1>8 DEF PartWay, ClearHalf, AddsTo, ChAdds
<1>9. OnPlace(t, q, x)
  BY <1>1, <1>2, PlaceIs
<1>10. \A r \in Rooms, u \in Users : RowAgrees(r, u)' <=> RowAgrees(r, u)
  BY <1>5, SamePlaceKeeps
<1>11. \A r \in Rooms, u \in Users : PartWay(t, r, u) => IF Ceases(t) THEN RowAgrees(r, u)' ELSE PartWay(t, r, u)'
  BY <1>7, <1>8, <1>10
<1> QED
  BY <1>1, <1>2, <1>5, <1>6, <1>9, <1>11, CountWrites

LEMMA DeleteBoxesCounts ==
    ASSUME ChBase, CountHolds, NEW t \in Tasks, DeleteBoxes(t)
    PROVE  CountHolds'
<1> SUFFICES ASSUME NEW q, q = Arg(t).room, NEW x, x = Arg(t).user, NEW g, g = Got(t)
             PROVE  CountHolds'
  OBVIOUS
<1>1. /\ call[t].op \in {"read", "leave"} /\ call[t].at = "unbox"
      /\ UNCHANGED <<channel_members, due, chMessy, deleted>>
  BY DEF DeleteBoxes, On, chHistory
<1>2. Shaped /\ Unboxing(t, g) /\ q \in Rooms /\ x \in Users
  BY <1>1 DEF ChBase, ChLearned, ChAsks
<1>3. OnPlace(t, q, x) /\ \A r \in Rooms, u \in Users : OnPlace(t, r, u) => r = q /\ u = x
  BY <1>1, <1>2, PlaceIs
<1>4. \A r, u : (u \in Whole(r)' <=> u \in Whole(r)) /\ due'[<<r, u>>] = due[<<r, u>>]
  BY <1>1 DEF Whole
<1>5. ASSUME NEW box \in g.rows, sidebar' = sidebar \ {y \in RowsOf(box.room, box.user) : y.at = box.at},
             Learn(t, "unbox", [g EXCEPT !.rows = @ \ {box}])
      PROVE  CountHolds'
  <2> SUFFICES ASSUME NEW h, h = [at |-> g.at, rows |-> g.rows \ {box}]
               PROVE  CountHolds'
    OBVIOUS
  <2>1. [g EXCEPT !.rows = @ \ {box}] = h
    BY <1>2, RowsLeft DEF Unboxing
  <2>2. Continues(t, "unbox", h)
    BY <1>2, <1>5, <2>1, LearnGoes
  <2>3. /\ call'[t].op = call[t].op /\ call'[t].at = "unbox" /\ Got(t)'.rows = g.rows \ {box} /\ ~ Ceases(t)
        /\ call[t].op \notin ChAdds \cup {"send"}
    BY <1>1, <2>2 DEF Continues, Got, Ceases, ChAdds
  <2>4. box.room = q /\ box.user = x
    BY <1>2 DEF Unboxing
  <2>5. \A r, u : RowsOf(r, u)' = IF r = q /\ u = x THEN {y \in RowsOf(q, x) : y.at # box.at} ELSE RowsOf(r, u)
    BY <1>5, <2>4 DEF RowsOf
  <2>6. \A r \in Rooms, u \in Users : r # q \/ u # x => SamePlace(r, u)
    BY <1>4, <2>5 DEF SamePlace
  <2>7. ASSUME NEW r \in Rooms, NEW u \in Users, OnPlace(t, r, u), PartWay(t, r, u)
        PROVE  PartWay(t, r, u)'
    <3>1. r = q /\ u = x /\ ClearHalf(t, r, u)
      BY <1>1, <1>3, <2>7 DEF PartWay
    <3>2. RowsOf(r, u) = g.rows /\ g.rows = {box} /\ (call[t].op = "read" => u \in Whole(r))
      BY <1>1, <1>5, <3>1 DEF ClearHalf
    <3>3. RowsOf(r, u)' = {} /\ g.rows \ {box} = {} /\ (call[t].op = "read" => u \in Whole(r)')
      BY <1>4, <2>5, <3>1, <3>2
    <3>4. ClearHalf(t, r, u)'
      BY <2>3, <3>3 DEF ClearHalf
    <3> QED
      BY <2>3, <3>4 DEF PartWay, AddsTo
  <2> QED
    BY <1>1, <1>2, <1>3, <2>2, <2>3, <2>6, <2>7, CountWrites
<1>6. CASE g.rows = {} /\ Goto(t, "last") /\ UNCHANGED sidebar
  <2>1. Continues(t, "last", g)
    BY <1>2, <1>6, GotoGoes
  <2>2. /\ call'[t].op = call[t].op /\ call'[t].at = "last" /\ ~ Ceases(t)
        /\ call[t].op \notin ChAdds \cup {"send"}
    BY <1>1, <2>1 DEF Continues, Ceases, ChAdds
  <2>3. ASSUME NEW r \in Rooms, NEW u \in Users, PartWay(t, r, u),
               u \in Whole(r)' <=> u \in Whole(r), RowsOf(r, u)' = RowsOf(r, u)
        PROVE  PartWay(t, r, u)'
    <3>1. RowsOf(r, u) = {} /\ (call[t].op = "read" => u \in Whole(r))
      BY <1>1, <1>6, <2>3 DEF PartWay, ClearHalf
    <3>2. ClearHalf(t, r, u)'
      BY <2>2, <2>3, <3>1 DEF ClearHalf
    <3> QED
      BY <2>2, <3>2 DEF PartWay, AddsTo
  <2> QED
    BY <1>1, <1>6, <2>1, <2>2, <2>3, CountRests
<1> QED
  BY <1>5, <1>6 DEF DeleteBoxes

LEMMA InsertReadCounts ==
    ASSUME ChBase, CountHolds, NEW t \in Tasks, InsertRead(t)
    PROVE  CountHolds'
<1> SUFFICES ASSUME NEW q, q = Arg(t).room, NEW x, x = Arg(t).user
             PROVE  CountHolds'
  OBVIOUS
<1>0. PICK new : new = [room |-> q, user |-> x, at |-> Got(t).at, unread |-> 0]
  OBVIOUS
<1>1. /\ call[t].op = "read" /\ call[t].at = "last" /\ Finish(t) /\ sidebar' = sidebar \cup {new}
      /\ UNCHANGED <<channel_members, chMessy, deleted>>
  BY <1>0 DEF InsertRead, On
<1>2. q \in Rooms /\ x \in Users /\ Shaped /\ due \in [Places -> Nat]
  BY <1>1 DEF ChBase, ChAsks, RoomTables
<1>3. due'[<<q, x>>] = 0 /\ \A r \in Rooms, u \in Users : r # q \/ u # x => due'[<<r, u>>] = due[<<r, u>>]
  <2>1. due' = [due EXCEPT ![<<q, x>>] = 0]
    BY DEF InsertRead
  <2> QED
    BY <1>2, <2>1, Zenon DEF Places
<1>4. new.room = q /\ new.user = x /\ new.unread = 0
  BY <1>0
<1>5. \A r, u : RowsOf(r, u)' = IF q = r /\ x = u THEN RowsOf(r, u) \cup {new} ELSE RowsOf(r, u)
  BY <1>1, <1>4, RowAdded
<1>6. \A r, u : u \in Whole(r)' <=> u \in Whole(r)
  BY <1>1 DEF Whole
<1>7. \A r \in Rooms, u \in Users : r # q \/ u # x => SamePlace(r, u)
  BY <1>3, <1>5, <1>6 DEF SamePlace
<1>8. OnPlace(t, q, x) /\ \A r \in Rooms, u \in Users : OnPlace(t, r, u) => r = q /\ u = x
  BY <1>1, <1>2, PlaceIs
<1>9. ASSUME NEW r \in Rooms, NEW u \in Users, OnPlace(t, r, u), PartWay(t, r, u)
      PROVE  RowAgrees(r, u)'
  <2>1. r = q /\ u = x /\ u \in Whole(r) /\ RowsOf(r, u) = {}
    BY <1>1, <1>8, <1>9 DEF PartWay, ClearHalf
  <2>2. u \in Whole(r)' /\ RowsOf(r, u)' = {new} /\ new.unread = due'[<<r, u>>]
    BY <1>3, <1>4, <1>5, <1>6, <2>1
  <2> QED
    BY <2>2 DEF RowAgrees, InBox
<1>10. Ceases(t)
  BY <1>1, <1>2, LeavesEnds
<1> QED
  BY <1>1, <1>2, <1>7, <1>8, <1>9, <1>10, CountWrites

LEMMA DeleteChannelMemberCounts ==
    ASSUME ChBase, CountHolds, NEW t \in Tasks, DeleteChannelMember(t)
    PROVE  CountHolds'
<1> SUFFICES ASSUME NEW q, q = Arg(t).room, NEW x, x = Arg(t).user
             PROVE  CountHolds'
  OBVIOUS
<1>1. /\ call[t].op = "leave" /\ call[t].at = "last" /\ Finish(t)
      /\ UNCHANGED <<sidebar, due, chMessy, deleted>>
  BY DEF DeleteChannelMember, On, chHistory
<1>2. q \in Rooms /\ x \in Users /\ Shaped /\ RoomTables
  BY <1>1 DEF ChBase, ChAsks
<1>3. channel_members' = [channel_members EXCEPT ![q][x] = "none"]
  BY DEF DeleteChannelMember
<1>4. \A r \in Rooms, u \in Users : channel_members'[r][u] = IF r = q /\ u = x THEN "none" ELSE channel_members[r][u]
  BY <1>2, <1>3 DEF RoomTables
<1>5. \A r, u : RowsOf(r, u)' = RowsOf(r, u)
  BY <1>1 DEF RowsOf
<1>6. \A r \in Rooms, u \in Users : r # q \/ u # x => SamePlace(r, u)
  BY <1>1, <1>4, <1>5 DEF SamePlace, Whole
<1>7. OnPlace(t, q, x) /\ \A r \in Rooms, u \in Users : OnPlace(t, r, u) => r = q /\ u = x
  BY <1>1, <1>2, PlaceIs
<1>8. ASSUME NEW r \in Rooms, NEW u \in Users, OnPlace(t, r, u), PartWay(t, r, u)
      PROVE  RowAgrees(r, u)'
  <2>1. r = q /\ u = x /\ RowsOf(r, u) = {}
    BY <1>1, <1>7, <1>8 DEF PartWay, ClearHalf
  <2>2. u \notin Whole(r)'
    BY <1>4, <2>1 DEF Whole
  <2> QED
    BY <1>5, <2>1, <2>2 DEF RowAgrees, Outside
<1>9. Ceases(t)
  BY <1>1, <1>2, LeavesEnds
<1> QED
  BY <1>1, <1>2, <1>6, <1>7, <1>8, <1>9, CountWrites

LEMMA CountSteps ==
    ASSUME ChBase, CountHolds, NEW t \in Tasks, ChannelsStep(t)
    PROVE  CountHolds'
<1>1. CASE RoomCalls(t) \/ PageCalls(t)
  BY <1>1, CountBegins
<1>2. CASE CheckChannelMember(t) \/ FindWorkspace(t) \/ FindDm(t) \/ ReadChannelName(t) \/ ListMembers(t)
  BY <1>2, CheckMemberCounts, FindWorkspaceCounts, FindDmCounts, ReadNameCounts, ListMembersCounts
<1>3. CASE PeekBox(t) \/ FindReader(t) \/ ReadBoxes(t) \/ DropCh(t) \/ InsertChannel(t) \/ InsertMessage(t)
  BY <1>3, PeekBoxCounts, FindReaderCounts, ReadBoxesCounts, DropCounts, InsertChannelCounts, InsertMessageCounts
<1>4. CASE InsertChannelMember(t) \/ InsertBox(t) \/ DeleteOld(t) \/ InsertBumped(t) \/ MarkMember(t)
  BY <1>4, InsertChannelMemberCounts, InsertBoxCounts, DeleteOldCounts, InsertBumpedCounts, MarkMemberCounts
<1>5. CASE DeleteBoxes(t) \/ InsertRead(t) \/ DeleteChannelMember(t) \/ UpdateRoom(t) \/ DeleteRoom(t) \/ WritePage(t)
  BY <1>5, DeleteBoxesCounts, InsertReadCounts, DeleteChannelMemberCounts, RoomRowCounts
<1> QED
  BY <1>1, <1>2, <1>3, <1>4, <1>5 DEF ChannelsStep

\* Where nobody works the sidebar agrees with the members.
LEMMA CountsShown ==
    ASSUME CountHolds
    PROVE  SidebarCounts
<1> SUFFICES ASSUME NEW r \in Rooms, NEW u \in Users, <<r, u>> \notin chMessy, Quiet(<<r, u>>), r \notin deleted
             PROVE  /\ {box.unread : box \in RowsOf(r, u)} = (IF u \in Whole(r) THEN {due[<<r, u>>]} ELSE {})
                    /\ Cardinality(RowsOf(r, u)) <= 1
  BY DEF SidebarCounts
<1>1. RowAgrees(r, u)
  BY DEF CountHolds, Counted, Undisturbed, Quiet, OnPlace
<1>2. CASE Outside(r, u)
  BY <1>2, FS_EmptySet DEF Outside
<1>3. CASE u \in Whole(r) /\ InBox(r, u, due[<<r, u>>])
  <2>1. PICK box : RowsOf(r, u) = {box} /\ box.unread = due[<<r, u>>]
    BY <1>3 DEF InBox
  <2>2. {x.unread : x \in RowsOf(r, u)} = {due[<<r, u>>]}
    BY <2>1
  <2>3. Cardinality(RowsOf(r, u)) = 1
    BY <2>1, FS_Singleton
  <2> QED
    BY <1>3, <2>2, <2>3
<1> QED
  BY <1>1, <1>2, <1>3 DEF RowAgrees

-----------------------------------------------------------------------------
(* The invariant, from the first state on. *)

ChInv == ChBase /\ PagesHold /\ PairsHold /\ CountHolds

LEMMA ChInitial ==
    ASSUME ChannelsInit, TasksInit(Budgets)
    PROVE  ChInv
<1>1. Shaped /\ \A t \in Tasks : call[t].op = "none"
  BY DEF TasksInit, Shaped, NoCall
<1>2. PICK made \in {{}, {CHOOSE r \in Rooms : TRUE}} :
        /\ rooms = [r \in Rooms |-> IF r \in made THEN "public" ELSE "none"]
        /\ channel_members =
                [r \in Rooms |-> [u \in Users |-> IF r \in made THEN "whole" ELSE "none"]]
        /\ sidebar = ReadUp(made)
        /\ \E old \in Pages : pages = [p \in Pages |->
                IF p = old /\ made # {} THEN [room |-> CHOOSE r \in made : TRUE, is |-> "whole"]
                ELSE NoPage]
  BY Zenon DEF ChannelsInit
<1>3. clock = 1 /\ due = [pl \in Places |-> 0] /\ chMessy = {} /\ deleted = {} /\ rivals = FALSE
  BY DEF ChannelsInit
<1>4. made \subseteq Rooms
  <2>1. (CHOOSE r \in Rooms : TRUE) \in Rooms
    OBVIOUS
  <2> QED
    BY <1>2, <2>1
<1>5. \A r \in Rooms : rooms[r] \in {"public", "none"} /\ (rooms[r] = "public" <=> r \in made)
  BY <1>2
<1>6. \A r \in Rooms, u \in Users : channel_members[r][u] = IF r \in made THEN "whole" ELSE "none"
  BY <1>2
<1>7. \A r, u : RowsOf(r, u) \subseteq {[room |-> r, user |-> u, at |-> 0, unread |-> 0]}
                /\ (r \in made /\ u \in Users => RowsOf(r, u) = {[room |-> r, user |-> u, at |-> 0, unread |-> 0]})
                /\ (r \notin made => RowsOf(r, u) = {})
  <2>1. sidebar = {[room |-> q, user |-> v, at |-> 0, unread |-> 0] : q \in made, v \in Users}
    BY <1>2 DEF ReadUp
  <2>2. ASSUME NEW r, NEW u, NEW box \in RowsOf(r, u)
        PROVE  box = [room |-> r, user |-> u, at |-> 0, unread |-> 0] /\ r \in made
    BY <2>1 DEF RowsOf
  <2>3. ASSUME NEW r \in made, NEW u \in Users
        PROVE  [room |-> r, user |-> u, at |-> 0, unread |-> 0] \in RowsOf(r, u)
    BY <2>1 DEF RowsOf
  <2> QED
    BY <2>2, <2>3
<1>8. RoomTables
  <2>1. rooms \in [Rooms -> RoomTypes]
    BY <1>2 DEF RoomTypes
  <2>2. channel_members \in [Rooms -> [Users -> {"none", "bare", "whole"}]]
    BY <1>2
  <2>3. \A box \in sidebar : SideRow(box)
    <3>1. sidebar = {[room |-> q, user |-> v, at |-> 0, unread |-> 0] : q \in made, v \in Users}
      BY <1>2 DEF ReadUp
    <3> SUFFICES ASSUME NEW q \in made, NEW v \in Users
                 PROVE  SideRow([room |-> q, user |-> v, at |-> 0, unread |-> 0])
      BY <3>1
    <3> QED
      BY <1>3, <1>4 DEF SideRow
  <2> QED
    BY <1>3, <2>1, <2>2, <2>3 DEF RoomTables
<1>9. RoomsHold
  <2>1. \A r \in Rooms \ Known : r \notin made
    BY <1>5 DEF Known
  <2> QED
    BY <1>5, <1>6, <1>7, <2>1 DEF RoomsHold
<1>10. ChBase
  <2>1. \A t \in Tasks : ~ MakesRoom(t) /\ ChAsks(t) /\ ChLearned(t)
    BY <1>1 DEF MakesRoom, ChAsks, ChLearned, ChOps, ChMakers, ChAdds
  <2> QED
    BY <1>1, <1>8, <1>9, <2>1 DEF ChBase, OneRoomMaker
<1>11. PagesHold
  <2> SUFFICES ASSUME NEW c, c = CHOOSE r \in made : TRUE
               PROVE  PagesHold
    OBVIOUS
  <2>1. PICK old \in Pages : pages = [p \in Pages |->
                IF p = old /\ made # {} THEN [room |-> c, is |-> "whole"] ELSE NoPage]
    BY <1>2
  <2>2. made # {} => c \in Rooms
    BY <1>4
  <2>3. \A t \in Tasks : PageAsks(t) /\ ~ OnPage(t)
    BY <1>1 DEF PageAsks, OnPage, PageOps, Pagers
  <2>4. c # "none" \/ made = {}
    BY <2>2
  <2>5. pages \in [Pages -> [room : Rooms \cup {"none"}, is : {"none", "bare", "whole"}]]
    BY <2>1, <2>2 DEF NoPage
  <2>6. \A p \in Pages : pages[p].room = "none" => pages[p] = NoPage
    BY <2>1, <2>4
  <2> QED
    BY <1>3, <2>3, <2>5, <2>6 DEF PagesHold
<1>12. PairsHold
  <2>1. \A t \in Tasks : ~ PairsUp(t)
    BY <1>1 DEF PairsUp
  <2> QED
    BY <1>1, <1>5, <2>1 DEF PairsHold, OnePair, ApartOnes, PairRooms, PairsDiffer, DmKnows
<1>13. CountHolds
  <2>1. \A t \in Tasks : \A r, u : ~ OnPlace(t, r, u)
    BY <1>1 DEF OnPlace, ChWrites
  <2>2. ASSUME NEW r \in Rooms, NEW u \in Users
        PROVE  RowAgrees(r, u)
    <3>1. CASE r \notin made
      BY <1>6, <1>7, <3>1 DEF RowAgrees, Outside, Whole
    <3>2. CASE r \in made
      <4>1. PICK box : box = [room |-> r, user |-> u, at |-> 0, unread |-> 0]
        OBVIOUS
      <4>2. RowsOf(r, u) = {box} /\ box.unread = 0 /\ due[<<r, u>>] = 0
        BY <1>3, <1>7, <3>2, <4>1 DEF Places
      <4>3. u \in Whole(r)
        BY <1>6, <3>2 DEF Whole
      <4> QED
        BY <4>2, <4>3 DEF RowAgrees, InBox
    <3> QED
      BY <3>1, <3>2
  <2> QED
    BY <2>1, <2>2 DEF CountHolds, OneAtAPlace, Counted
<1> QED
  BY <1>10, <1>11, <1>12, <1>13 DEF ChInv

LEMMA ChRests ==
    ASSUME ChInv, UNCHANGED <<tasking, chVars>>
    PROVE  ChInv'
<1>1. /\ UNCHANGED <<rooms, channel_members, sidebar, pages, clock, due, chMessy, deleted, rivals>>
      /\ call' = call
  BY DEF chVars, chTables, chHistory, tasking
<1>2. RoomTables' /\ RoomsHold' /\ ChPasses /\ Known' = Known
  BY <1>1, ChTablesStill DEF ChInv, ChBase, RoomTables
<1>3. \A t \in Tasks : /\ call'[t] = call[t] /\ Arg(t)' = Arg(t) /\ Got(t)' = Got(t)
                       /\ (MakesRoom(t)' <=> MakesRoom(t)) /\ (PairsUp(t)' <=> PairsUp(t)) /\ (OnPage(t)' <=> OnPage(t))
                       /\ (\A r, u : OnPlace(t, r, u)' <=> OnPlace(t, r, u))
  BY <1>1 DEF Arg, Got, MakesRoom, PairsUp, OnPage, OnPlace
<1>4. ChBase'
  <2>1. \A t \in Tasks : ChAsks(t)' /\ ChLearned(t)'
    BY <1>2, <1>3, ChStandsBy DEF ChInv, ChBase
  <2>2. Shaped' /\ OneRoomMaker'
    BY <1>1, <1>3 DEF ChInv, ChBase, Shaped, OneRoomMaker
  <2> QED
    BY <1>2, <2>1, <2>2 DEF ChBase
<1>5. PagesHold'
  BY <1>1, <1>3 DEF ChInv, PagesHold, PageAsks
<1>6. PairsHold'
  <2>1. \A r : Whole(r)' = Whole(r) /\ (OfTwo(r)' <=> OfTwo(r))
    BY <1>1 DEF Whole, OfTwo
  <2>2. \A t \in Tasks : DmKnows(t) => DmKnows(t)'
    BY <1>1 DEF DmKnows, DmMade, PairsUp, Arg, Got, DmOf, Whole
  <2> QED
    BY <1>1, <1>3, <2>1, <2>2 DEF ChInv, PairsHold, OnePair, ApartOnes, PairRooms, PairsDiffer
<1>7. CountHolds'
  <2>1. \A r, u : SamePlace(r, u)
    BY <1>1, PlacesStill
  <2>2. \A r, u : /\ RowAgrees(r, u)' <=> RowAgrees(r, u)
                  /\ \A t \in Tasks : PartWay(t, r, u) => PartWay(t, r, u)'
    BY <1>3, <2>1, SamePlaceKeeps, PartWayStays
  <2> QED
    BY <1>1, <1>3, <2>2 DEF ChInv, CountHolds, OneAtAPlace, Counted, Undisturbed
<1> QED
  BY <1>4, <1>5, <1>6, <1>7 DEF ChInv

LEMMA ChSteps ==
    ASSUME ChInv, NEW t \in Tasks, ChannelsStep(t)
    PROVE  ChInv'
<1>1. PagesHold' /\ (WritePage(t) => \A q \in deleted' \ deleted : q \in Pages)
  BY PagesSteps DEF ChInv
<1>2. ChBase'
  BY <1>1, ChBaseSteps DEF ChInv
<1> QED
  BY <1>1, <1>2, PairsSteps, CountSteps DEF ChInv

LEMMA ChAlways == ChSpec => []ChInv
<1>1. ChannelsInit /\ TasksInit(Budgets) => ChInv
  BY ChInitial
<1>2. ChInv /\ [\E t \in Tasks : ChannelsStep(t)]_<<tasking, chVars>> => ChInv'
  BY ChSteps, ChRests
<1> QED
  BY <1>1, <1>2, PTL DEF ChSpec

\* Whoever is in a channel has one row for it in the sidebar, with as many
\* unread messages as others have sent since, and nobody else has one, for any
\* number of users, channels, calls and dropped calls (send_message, mark_read,
\* add_member, remove_member).
THEOREM SidebarCountsAlways == ChSpec => []SidebarCounts
<1>1. ChInv => SidebarCounts
  BY CountsShown DEF ChInv
<1> QED
  BY <1>1, ChAlways, PTL

\* Two users have one direct message, and a message or note that was deleted
\* is not listed again, whatever edit was on its way (find_or_create_dm,
\* delete_message, edit_message).
THEOREM ListsAreCleanAlways == ChSpec => []ListsAreClean
<1>1. ChInv => ListsAreClean
  BY ListsClean DEF ChInv
<1> QED
  BY <1>1, ChAlways, PTL

-----------------------------------------------------------------------------
(* Objectives and key results.                                                *)

HIDE ChannelsAssumption
USE OkrsAssumption

\* The key results that were created for an objective, and the stages of the
\* calls that work on it: one that is at no call when there are none.
Own(o)      == {k \in KeyResults : home[k] = o}
Works(t, o) == call[t].op \in OkrOps /\ Arg(t).id = o
Workers(o)  == {t \in Tasks : Works(t, o)}
Stages(o)   == IF Workers(o) = {} THEN {NoCall} ELSE {call[t] : t \in Workers(o)}

At(c, op, ats) == c.op = op /\ c.at \in ats
Recomputes(c, ats) == c.op \in {"check_in", "del_kr"} /\ c.at \in ats

KrOps == {"new_kr", "set_kr", "del_kr", "check_in"}

\* What the tables hold, whoever works on them.
Parts(row) == row = [cycle |-> row.cycle, status |-> row.status, roll |-> row.roll,
                     parent |-> row.parent]

Spans   == [start : Int, target : Int, type : {"number", "binary"}]
Linked(o, p) == \E r \in children : r.parent = p /\ r.child = o

OkTables ==
    /\ objective = [o \in Objectives |-> objective[o]]
    /\ \A o \in Objectives : Parts(objective[o]) /\ objective[o].parent # o /\ ~ Linked(o, o)
    /\ key_result \in [KeyResults -> [span : Spans, value : Int, conf : Int, there : BOOLEAN]]
    /\ kr_lookup \subseteq KeyResults
    /\ check_ins \in [KeyResults -> Seq([prev : Int, new : Int])]
    /\ named \subseteq Objectives /\ \A o \in Objectives \ named : objective[o] = NoObjective
    /\ home \in [KeyResults -> named \cup {"none"}]
    /\ \A k \in Own("none") : key_result[k] = NoKeyResult /\ check_ins[k] = <<>> /\ k \notin kr_lookup

\* What a call asks for, and what it has seen of key results.
OkAsks(t) ==
    /\ call[t].op \in OkrOps \cup {"none"}
    /\ call[t].op \in OkrOps => Arg(t).id \in named
    /\ call[t].op \in KrOps =>
        /\ Arg(t).kr \in KeyResults /\ home[Arg(t).kr] = Arg(t).id /\ "parent" \notin DOMAIN Arg(t)
    /\ call[t].op \in {"set_kr", "check_in"} => Arg(t).value \in Int
    /\ call[t].op = "check_in" => Arg(t).conf \in Int
    /\ call[t].op = "new_objective" =>
        /\ Arg(t).cycle \in Cycles /\ Arg(t).parent \in ({"none"} \cup Objectives) \ {Arg(t).id}
        /\ "parent" \in DOMAIN Arg(t)
    /\ call[t].op = "set_objective" =>
        /\ \E field \in {"status", "cycle", "parent"} : DOMAIN Arg(t) = {"id", field}
        /\ Sets(t, "cycle") => Arg(t).cycle \in Cycles
        /\ Sets(t, "parent") => Arg(t).parent \in Objectives \ {Arg(t).id}
        /\ call[t].at \in {"leave", "parent", "adopt"} => Sets(t, "parent")
        /\ call[t].at = "status" => Sets(t, "status")
        /\ call[t].at = "unlist" => Sets(t, "cycle")
    /\ call[t].op = "del_objective" =>
        /\ "parent" \notin DOMAIN Arg(t)
        /\ call[t].at \in {"said", "unlook"} => Got(t).ks \subseteq Own(Arg(t).id)
        /\ call[t].at = "unlook" => Got(t).kr \in Own(Arg(t).id)
    /\ On(t, "check_in", "say") => Got(t).prev \in Int

\* Two calls that work on an objective at once make it unsound.
Sole ==
    \A t, u \in Tasks : t # u /\ call[t].op \in OkrOps /\ call[u].op \in OkrOps =>
        Named(Arg(t)) \cap Named(Arg(u)) \subseteq unsound

OkBase == Shaped /\ OkTables /\ Sole /\ \A t \in Tasks : OkAsks(t)

\* A call at the stage c works on o: how far the rows of o have been written.
Entry(o)    == [id |-> o, cycle |-> objective[o].cycle, status |-> objective[o].status,
                roll |-> objective[o].roll]
ListedAs(o) == {r \in by_cycle : r.id = o}
Exists(o)   == objective[o] # NoObjective

\* The progress is that of the key results.
RollHolds(o, c) ==
    o \notin stirred /\ Exists(o) /\ ~ At(c, "del_objective", {"list", "kids", "leave", "main"}) =>
        objective[o].roll = Rolled(KrsOf(o))

\* It is listed once, on the page of its cycle.
ListHolds(o, c) ==
    o \notin moved =>
        IF ~ Exists(o) \/ At(c, "new_objective", {"list"}) \/ At(c, "del_objective", {"kids", "leave", "main"})
        THEN ListedAs(o) = {}
        ELSE IF At(c, "set_objective", {"list"}) \/ Recomputes(c, {"list"})
        THEN \A r \in ListedAs(o) : r.cycle = objective[o].cycle
        ELSE ListedAs(o) = {Entry(o)}

\* The check-ins of a key result are a chain that ends in its value.
LinksUp(k) ==
    \A i \in 1 .. Len(check_ins[k]) :
        check_ins[k][i].prev = IF i = 1 THEN key_result[k].span.start ELSE check_ins[k][i - 1].new
LastSaid(k) ==
    IF check_ins[k] = <<>> THEN key_result[k].span.start ELSE check_ins[k][Len(check_ins[k])].new

ChainHolds(k, c) ==
    key_result[k].there /\ k \notin edited /\ ~ At(c, "del_objective", {"said", "unlook", "dropkrs"}) =>
        /\ LinksUp(k)
        /\ IF At(c, "check_in", {"find", "kr"}) /\ c.arg.kr = k
           THEN check_ins[k] # <<>> /\ LastSaid(k) = c.arg.value
           ELSE LastSaid(k) = key_result[k].value

KrHolds(o, k, c) ==
    /\ k \in kr_lookup /\ ~ (At(c, "del_kr", {"unlook"}) /\ c.arg.kr = k) => key_result[k].there
    /\ ~ Exists(o) => ~ key_result[k].there
    /\ ChainHolds(k, c)

\* Stages that have not found the objective.
Early(c) ==
    \/ c.op = "none"
    \/ At(c, "new_objective", {"main"})
    \/ At(c, "set_objective", {"get"}) \/ At(c, "del_objective", {"get"})
    \/ (c.op \in KrOps /\ c.at = "verify")
    \/ At(c, "check_in", {"value", "say", "find"})

RowHolds(o, c) ==
    /\ Exists(o) => objective[o].cycle \in Cycles
    /\ o \notin named \/ At(c, "new_objective", {"main"}) => ~ Exists(o)
    /\ ~ Early(c) => Exists(o)

\* What a call knows.
Creates(o, c) ==
    c.op = "new_objective" =>
        /\ o \in stirred
        /\ c.at \in {"list", "child"} =>
            objective[o] = [cycle |-> c.arg.cycle, status |-> "on_track", roll |-> Unrolled,
                            parent |-> c.arg.parent]

Changes(o, c) ==
    c.op = "set_objective" /\ c.at # "get" =>
        /\ c.got.cycle = objective[o].cycle /\ c.got.roll = objective[o].roll
        /\ objective[o].status = IF "status" \in DOMAIN c.arg /\ c.at = "list" THEN c.arg.status ELSE c.got.status
        /\ c.at \in {"leave", "parent"} => c.got.parent = objective[o].parent
        /\ c.at = "adopt" => c.arg.parent = objective[o].parent
        /\ c.at = "list" /\ "cycle" \in DOMAIN c.arg => o \in moved \/ c.arg.cycle = objective[o].cycle

Deletes(o, c) ==
    c.op = "del_objective" /\ c.at # "get" =>
        /\ c.got.old.cycle = objective[o].cycle /\ c.got.old.parent = objective[o].parent
        /\ c.at = "said" => Own(o) \cap kr_lookup \subseteq c.got.ks
        /\ c.at = "unlook" => Own(o) \cap kr_lookup \subseteq c.got.ks \cup {c.got.kr}
        /\ c.at \notin {"krs", "said", "unlook"} => Own(o) \cap kr_lookup = {}
        /\ c.at \in {"list", "kids", "leave", "main"} => KrsOf(o) = {}

Reports(o, c) ==
    /\ c.op \in {"check_in", "new_kr"} => c.arg.kr \in Own(o)
    /\ At(c, "check_in", {"say"}) =>
        c.got.prev = IF key_result[c.arg.kr].there THEN key_result[c.arg.kr].value ELSE c.arg.value
    /\ At(c, "check_in", {"kr"}) \/ At(c, "new_kr", {"scan", "look"}) => key_result[c.arg.kr].there
    /\ At(c, "new_kr", {"verify", "kr"}) => check_ins[c.arg.kr] = <<>>

Recounts(o, c) ==
    /\ Recomputes(c, {"find_ws", "main"}) => c.got.roll = Rolled(KrsOf(o))
    /\ Recomputes(c, {"main", "list"}) => c.got.cycle = objective[o].cycle
    /\ Recomputes(c, {"list"}) => c.got.roll = objective[o].roll /\ objective[o].status = Judged(c.got.roll)

Holds(o, c) ==
    /\ RowHolds(o, c) /\ RollHolds(o, c) /\ ListHolds(o, c) /\ \A k \in Own(o) : KrHolds(o, k, c)
    /\ Creates(o, c) /\ Changes(o, c) /\ Deletes(o, c) /\ Reports(o, c) /\ Recounts(o, c)

\* Whoever works on a sound objective, its rows are as far as the call is.
OwnHolds == \A o \in Objectives \ unsound : \A c \in Stages(o) : Holds(o, c)

\* An objective is listed under the parent it names, unless it is on its way
\* there or the parent is being deleted.
Moving(c) ==
    \/ At(c, "new_objective", {"list", "child"}) \/ At(c, "set_objective", {"parent", "adopt"})
    \/ At(c, "del_objective", {"main"})
Parting(c) == At(c, "del_objective", {"leave", "main"})

Family(o, p) == Exists(o) /\ Exists(p) /\ objective[o].parent = p

Binds(o, p, c, e) == Linked(o, p) <=> Family(o, p) /\ ~ Moving(c) /\ ~ Parting(e)

FamiliesHold ==
    \A o, p \in Objectives \ unsound : o # p =>
        \A c \in Stages(o), e \in Stages(p) : Binds(o, p, c, e)

\* Nothing names a parent that has no row yet, and the parent a call names has one.
Unborn(p) == p \notin named \/ \E t \in Tasks : On(t, "new_objective", "main") /\ Arg(t).id = p

UnbornHolds ==
    \A p \in Objectives \ unsound : Unborn(p) => \A o \in Objectives : objective[o].parent # p

ParentsHold ==
    \A t \in Tasks : call[t].op \in OkrOps /\ "parent" \in DOMAIN Arg(t)
                     /\ Arg(t).parent \in Objectives \ unsound => Exists(Arg(t).parent)

OkInv == OkBase /\ OwnHolds /\ FamiliesHold /\ UnbornHolds /\ ParentsHold

-----------------------------------------------------------------------------
(* What a call leaves alone. *)

\* Nothing of any other objective changes.
Apart(o) ==
    /\ \A q \in Objectives \ {o} :
        /\ objective'[q] = objective[q] /\ ListedAs(q)' = ListedAs(q)
        /\ q \in stirred' <=> q \in stirred
        /\ q \in moved' <=> q \in moved
        /\ q \in named' <=> q \in named
        /\ \A p \in Objectives \ {o} : Linked(q, p)' <=> Linked(q, p)
    /\ \A k \in KeyResults : home'[k] # home[k] => home[k] = "none" /\ home'[k] = o
    /\ \A k \in KeyResults : home[k] # o /\ home'[k] # o =>
        /\ key_result'[k] = key_result[k] /\ check_ins'[k] = check_ins[k]
        /\ k \in kr_lookup' <=> k \in kr_lookup
        /\ k \in edited' <=> k \in edited

LEMMA RolledSame ==
    ASSUME NEW q, KrsOf(q)' = KrsOf(q), \A k \in KrsOf(q) : key_result'[k] = key_result[k]
    PROVE  Rolled(KrsOf(q))' = Rolled(KrsOf(q))
<1>1. [k \in KrsOf(q)' |-> Progress(key_result'[k].span, key_result'[k].value)]
        = [k \in KrsOf(q) |-> Progress(key_result[k].span, key_result[k].value)]
  OBVIOUS
<1>2. [k \in KrsOf(q)' |-> key_result'[k].conf] = [k \in KrsOf(q) |-> key_result[k].conf]
  OBVIOUS
<1>3. Cardinality(KrsOf(q)') = Cardinality(KrsOf(q))
  OBVIOUS
<1> QED
  BY <1>1, <1>2, <1>3, Zenon DEF Rolled

LEMMA ApartHolds ==
    ASSUME OkBase, NEW o, Apart(o), NEW q \in Objectives, q # o, NEW c, Holds(q, c)
    PROVE  Holds(q, c)'
<1>1. Own(q)' = Own(q)
  BY DEF Apart, Own, OkBase, OkTables
<1>2. \A k \in Own(q) : /\ key_result'[k] = key_result[k] /\ check_ins'[k] = check_ins[k]
                        /\ k \in kr_lookup' <=> k \in kr_lookup
                        /\ k \in edited' <=> k \in edited
  BY <1>1 DEF Apart, Own
<1>3. KrsOf(q)' = KrsOf(q) /\ KrsOf(q) \subseteq Own(q)
  BY <1>1, <1>2 DEF KrsOf, Own
<1>4. Rolled(KrsOf(q))' = Rolled(KrsOf(q))
  BY <1>2, <1>3, RolledSame
<1>5. /\ objective'[q] = objective[q] /\ ListedAs(q)' = ListedAs(q) /\ Entry(q)' = Entry(q)
      /\ Exists(q)' <=> Exists(q)
      /\ q \in stirred' <=> q \in stirred
      /\ q \in moved' <=> q \in moved
      /\ q \in named' <=> q \in named
  BY DEF Apart, Entry, Exists
<1>6. RowHolds(q, c)' /\ RollHolds(q, c)'
  BY <1>4, <1>5 DEF Holds, RowHolds, RollHolds
<1>7. ListHolds(q, c)'
  BY <1>5 DEF Holds, ListHolds
<1>8. ASSUME NEW k \in Own(q)'
      PROVE  KrHolds(q, k, c)'
  BY <1>1, <1>2, <1>5 DEF Holds, KrHolds, ChainHolds, LinksUp, LastSaid
<1>9. Creates(q, c)' /\ Changes(q, c)'
  BY <1>5 DEF Holds, Creates, Changes
<1>10. Deletes(q, c)'
  <2>1. (Own(q) \cap kr_lookup)' = Own(q) \cap kr_lookup
    BY <1>1, <1>2
  <2> QED
    BY <1>1, <1>3, <1>5, <2>1 DEF Holds, Deletes
<1>11. Reports(q, c)'
  BY <1>1, <1>2, <1>5 DEF Holds, Reports, At
<1>12. Recounts(q, c)'
  BY <1>4, <1>5 DEF Holds, Recounts
<1> QED
  BY <1>6, <1>7, <1>8, <1>9, <1>10, <1>11, <1>12 DEF Holds

-----------------------------------------------------------------------------
(* A call goes on, or ends. *)

Turns(t, c, d) ==
    /\ c = call[t] /\ d = call'[t] /\ Shaped' /\ Only(t) /\ c.op \in OkrOps
    /\ d = NoCall \/ (d.op = c.op /\ d.arg = c.arg)
    /\ UNCHANGED <<home, named, unsound>>

\* With nobody else on an objective, it is at one stage.
LEMMA OneStage ==
    ASSUME OkBase, NEW o \in Objectives \ unsound, NEW t \in Tasks, Works(t, o)
    PROVE  Stages(o) = {call[t]}
<1>1. \A u \in Tasks : Works(u, o) => u = t
  BY DEF OkBase, Sole, Works, Named
<1>2. Workers(o) = {t}
  BY <1>1 DEF Workers
<1> QED
  BY <1>2 DEF Stages

LEMMA SoleStays ==
    ASSUME OkBase, NEW t \in Tasks, NEW c, NEW d, Turns(t, c, d)
    PROVE  Sole'
<1>1. \A u \in Tasks : call'[u].op \in OkrOps => call[u].op \in OkrOps /\ Arg(u)' = Arg(u)
  BY DEF Turns, Only, Arg, NoCall, OkrOps
<1>2. \A u \in Tasks : call'[u].op \in OkrOps => Named(Arg(u))' = Named(Arg(u))
  BY <1>1 DEF Named
<1> QED
  BY <1>1, <1>2 DEF Turns, OkBase, Sole

LEMMA OtherStages ==
    ASSUME NEW t \in Tasks, NEW c, NEW d, Turns(t, c, d), NEW q, q # c.arg.id
    PROVE  Stages(q)' = Stages(q)
<1>1. \A u \in Tasks : Works(u, q)' <=> Works(u, q)
  BY DEF Turns, Only, Works, Arg, NoCall, OkrOps
<1>2. Workers(q)' = Workers(q)
  BY <1>1 DEF Workers
<1>3. \A u \in Workers(q) : u # t /\ call'[u] = call[u]
  BY DEF Workers, Works, Turns, Only, Arg
<1>4. {call'[u] : u \in Workers(q)} = {call[u] : u \in Workers(q)}
  BY <1>3
<1> QED
  BY <1>2, <1>4 DEF Stages

LEMMA OwnStage ==
    ASSUME OkBase, Sole', NEW t \in Tasks, NEW c, NEW d, Turns(t, c, d), NEW o \in Objectives \ unsound, o = c.arg.id
    PROVE  Stages(o) = {c} /\ Stages(o)' = {d}
<1>1. Works(t, o)
  BY DEF Works, Turns, Arg
<1>2. Stages(o) = {c}
  BY <1>1, OneStage DEF Turns
<1>3. \A u \in Tasks : Works(u, o) => u = t
  BY <1>1 DEF OkBase, Sole, Works, Named
<1>4. \A u \in Tasks : Works(u, o)' => u = t
  BY <1>3 DEF Turns, Only, Works, Arg
<1>5. CASE d = NoCall
  <2>1. call'[t].op \notin OkrOps
    BY <1>5 DEF Turns, NoCall, OkrOps
  <2>2. Workers(o)' = {}
    BY <1>4, <2>1 DEF Workers, Works
  <2> QED
    BY <1>2, <1>5, <2>2 DEF Stages
<1>6. CASE d.op = c.op /\ d.arg = c.arg
  <2>1. Workers(o)' = {t}
    BY <1>1, <1>4, <1>6 DEF Workers, Works, Turns, Arg
  <2> QED
    BY <1>2, <2>1 DEF Stages, Turns
<1> QED
  BY <1>2, <1>5, <1>6 DEF Turns

FamilyKept(o, d) ==
    \A q \in Objectives \ unsound : q # o =>
        \A e \in Stages(q) : Binds(o, q, d, e)' /\ Binds(q, o, e, d)'

\* Parents an objective may come to have.
ParentKept(o, c) ==
    \/ objective'[o].parent \in {objective[o].parent, "none"}
    \/ "parent" \in DOMAIN c.arg /\ objective'[o].parent = c.arg.parent

LEMMA UnbornMissing ==
    ASSUME OwnHolds, NEW p \in Objectives \ unsound, Unborn(p)
    PROVE  ~ Exists(p)
<1>1. CASE p \notin named
  <2>1. PICK c : c \in Stages(p)
    BY DEF Stages
  <2> QED
    BY <1>1, <2>1 DEF OwnHolds, Holds, RowHolds
<1>2. ASSUME NEW t \in Tasks, On(t, "new_objective", "main"), Arg(t).id = p
      PROVE  ~ Exists(p)
  <2>1. PICK c : c = call[t]
    OBVIOUS
  <2>2. t \in Workers(p)
    BY <1>2 DEF Workers, Works, On, OkrOps
  <2>3. c \in Stages(p) /\ At(c, "new_objective", {"main"})
    BY <1>2, <2>1, <2>2 DEF Stages, At, On
  <2> QED
    BY <2>3 DEF OwnHolds, Holds, RowHolds
<1> QED
  BY <1>1, <1>2 DEF Unborn

LEMMA TurnHolds ==
    ASSUME OkInv, NEW t \in Tasks, NEW c, NEW d, Turns(t, c, d), NEW o, o = c.arg.id,
           OkTables', OkAsks(t)', Apart(o), o \notin unsound => Holds(o, d)' /\ FamilyKept(o, d),
           ParentKept(o, c), ~ At(d, "new_objective", {"main"})
    PROVE  OkInv'
<1>1. Sole'
  BY SoleStays DEF OkInv
<1>2. o \in Objectives /\ o \in named
  BY DEF OkInv, OkBase, OkAsks, Turns, OkTables, Arg
<1>3. \A q : q # o => Stages(q)' = Stages(q)
  BY OtherStages
<1>4. o \notin unsound => Stages(o) = {c} /\ Stages(o)' = {d}
  BY <1>1, <1>2, OwnStage DEF OkInv
<1>5. unsound' = unsound
  BY DEF Turns
<1>6. OkBase'
  <2>1. ASSUME NEW u \in Tasks, u # t
        PROVE  OkAsks(u)'
    BY <2>1 DEF OkInv, OkBase, OkAsks, Turns, Only, Own, On, Arg, Got, Sets
  <2> QED
    BY <1>1, <2>1 DEF OkBase, Turns
<1>7. OwnHolds'
  <2> SUFFICES ASSUME NEW q \in Objectives \ unsound, NEW e \in Stages(q)'
               PROVE  Holds(q, e)'
    BY <1>5 DEF OwnHolds
  <2>1. CASE q = o
    BY <1>4, <2>1
  <2>2. CASE q # o
    <3>1. Holds(q, e)
      BY <1>3, <2>2 DEF OkInv, OwnHolds
    <3> QED
      BY <2>2, <3>1, ApartHolds DEF OkInv
  <2> QED
    BY <2>1, <2>2
<1>8. FamiliesHold'
  <2> SUFFICES ASSUME NEW x \in Objectives \ unsound, NEW p \in Objectives \ unsound, x # p,
                      NEW e \in Stages(x)', NEW f \in Stages(p)'
               PROVE  Binds(x, p, e, f)'
    BY <1>5 DEF FamiliesHold
  <2>1. CASE x = o
    BY <1>3, <1>4, <2>1 DEF FamilyKept
  <2>2. CASE p = o
    BY <1>3, <1>4, <2>2 DEF FamilyKept
  <2>3. CASE x # o /\ p # o
    <3>1. Binds(x, p, e, f)
      BY <1>3, <2>3 DEF OkInv, FamiliesHold
    <3>2. (Linked(x, p)' <=> Linked(x, p)) /\ (Family(x, p)' <=> Family(x, p))
      BY <2>3 DEF Apart, Family, Exists
    <3> QED
      BY <3>1, <3>2 DEF Binds
  <2> QED
    BY <2>1, <2>2, <2>3
<1>9. UnbornHolds'
  <2> SUFFICES ASSUME NEW p \in Objectives \ unsound, Unborn(p)', NEW x \in Objectives
               PROVE  objective'[x].parent # p
    BY <1>5 DEF UnbornHolds
  <2>1. Unborn(p)
    BY DEF Unborn, Turns, Only, On, Arg, At
  <2>2. ~ Exists(p) /\ objective[x].parent # p
    BY <2>1, UnbornMissing DEF OkInv, UnbornHolds
  <2>3. CASE x # o
    BY <2>2, <2>3 DEF Apart
  <2>4. CASE x = o
    <3>1. "parent" \in DOMAIN c.arg => c.arg.parent # p
      BY <2>2 DEF OkInv, ParentsHold, Turns, Arg
    <3> QED
      BY <2>2, <2>4, <3>1 DEF ParentKept
  <2> QED
    BY <2>3, <2>4
<1>10. ParentsHold'
  <2> SUFFICES ASSUME NEW u \in Tasks, call'[u].op \in OkrOps, "parent" \in DOMAIN Arg(u)', NEW p, p = Arg(u)'.parent,
                      p \in Objectives \ unsound
               PROVE  Exists(p)'
    BY <1>5 DEF ParentsHold
  <2>1. call[u].op \in OkrOps /\ Arg(u)' = Arg(u)
    BY DEF Turns, Only, Arg, NoCall, OkrOps
  <2>2. Exists(p)
    BY <2>1 DEF OkInv, ParentsHold
  <2>3. p # o
    <3>1. CASE u = t
      BY <2>1, <3>1 DEF OkInv, OkBase, OkAsks, Turns, Arg, OkrOps, KrOps, Sets
    <3>2. CASE u # t
      BY <2>1, <3>2 DEF OkInv, OkBase, Sole, Named, Turns, Arg
    <3> QED
      BY <3>1, <3>2
  <2> QED
    BY <2>2, <2>3 DEF Apart, Exists
<1> QED
  BY <1>6, <1>7, <1>8, <1>9, <1>10 DEF OkInv

LEMMA OkGoes ==
    ASSUME OkBase, NEW t \in Tasks, NEW c, c = call[t], c.op \in OkrOps, NEW d, d = call'[t], NEW at, NEW got,
           Learn(t, at, got), UNCHANGED <<home, named, unsound>>
    PROVE  Turns(t, c, d) /\ d.op = c.op /\ d.arg = c.arg /\ d.at = at /\ d.got = got
<1>1. Continues(t, at, got)
  BY LearnGoes DEF OkBase
<1> QED
  BY <1>1 DEF Continues, Turns

LEMMA OkJumps ==
    ASSUME OkBase, NEW t \in Tasks, NEW c, c = call[t], c.op \in OkrOps, NEW d, d = call'[t], NEW at,
           Goto(t, at), UNCHANGED <<home, named, unsound>>
    PROVE  Turns(t, c, d) /\ d.op = c.op /\ d.arg = c.arg /\ d.at = at /\ d.got = c.got
<1>1. Continues(t, at, c.got)
  BY GotoGoes DEF OkBase, Got
<1> QED
  BY <1>1 DEF Continues, Turns

LEMMA OkEnds ==
    ASSUME OkBase, NEW t \in Tasks, NEW c, c = call[t], c.op \in OkrOps, NEW d, d = call'[t],
           Finish(t), UNCHANGED <<home, named, unsound>>
    PROVE  Turns(t, c, d) /\ d = NoCall /\ OkAsks(t)'
<1>1. Shaped' /\ Only(t) /\ call'[t].op = "none"
  BY Leaves DEF OkBase
<1>2. d = NoCall
  BY DEF Finish, Leave, OkBase, Shaped
<1>3. OkAsks(t)'
  BY <1>1 DEF OkAsks, OkrOps, KrOps, On
<1> QED
  BY <1>1, <1>2, <1>3 DEF Turns

LEMMA FamilyStill ==
    ASSUME OkInv, NEW t \in Tasks, NEW c, NEW d, Turns(t, c, d), NEW o \in Objectives \ unsound, o = c.arg.id,
           Apart(o), children' = children, Exists(o)' <=> Exists(o), objective'[o].parent = objective[o].parent,
           (Moving(d) <=> Moving(c)) \/ objective[o].parent \notin Objectives, Parting(d) <=> Parting(c)
    PROVE  FamilyKept(o, d)
<1>1. Stages(o) = {c}
  BY OwnStage, SoleStays DEF OkInv
<1> SUFFICES ASSUME NEW q \in Objectives \ unsound, q # o, NEW e \in Stages(q)
             PROVE  Binds(o, q, d, e)' /\ Binds(q, o, e, d)'
  BY DEF FamilyKept
<1>2. Binds(o, q, c, e) /\ Binds(q, o, e, c)
  BY <1>1 DEF OkInv, FamiliesHold
<1>3. (Linked(o, q)' <=> Linked(o, q)) /\ (Linked(q, o)' <=> Linked(q, o))
  BY DEF Linked
<1>4. (Family(o, q)' <=> Family(o, q)) /\ (Family(q, o)' <=> Family(q, o))
  BY DEF Family, Apart, Exists
<1>5. objective[o].parent \notin Objectives => ~ Family(o, q)
  BY DEF Family
<1> QED
  BY <1>2, <1>3, <1>4, <1>5 DEF Binds

\* A call looks, and changes nothing.
LEMMA LookHolds ==
    ASSUME OkInv, NEW t \in Tasks, NEW c, NEW d, Turns(t, c, d), NEW o, o = c.arg.id, UNCHANGED okrVars, OkAsks(t)',
           o \notin unsound => Holds(o, d), ~ At(d, "new_objective", {"main"}),
           (Moving(d) <=> Moving(c)) \/ objective[o].parent \notin Objectives, Parting(d) <=> Parting(c)
    PROVE  OkInv'
<1>1. UNCHANGED <<objective, by_cycle, children, key_result, kr_lookup, check_ins, home, named, stirred, edited,
                  moved, unsound>>
  BY DEF okrVars, okrRows, krRows, okrHistory
<1>2. OkTables'
  BY <1>1 DEF OkInv, OkBase, OkTables, Parts, Linked, Own
<1>3. Apart(o)
  BY <1>1 DEF Apart, ListedAs, Linked
<1>4. o \in Objectives
  BY DEF OkInv, OkBase, OkAsks, Turns, OkTables, Arg
<1>5. o \notin unsound => Holds(o, d)'
  BY <1>1 DEF Holds, RowHolds, RollHolds, ListHolds, KrHolds, ChainHolds, LinksUp, LastSaid, Creates, Changes,
              Deletes, Reports, Recounts, Exists, Entry, ListedAs, Own, KrsOf, Rolled
<1>6. o \notin unsound => FamilyKept(o, d)
  BY <1>1, <1>3, <1>4, FamilyStill DEF Exists
<1> QED
  BY <1>1, <1>2, <1>3, <1>5, <1>6, TurnHolds DEF ParentKept

LEMMA Stands ==
    ASSUME OkInv, NEW t \in Tasks, NEW c, c = call[t], c.op \in OkrOps, NEW o, o = c.arg.id
    PROVE  o \in Objectives /\ o \in named /\ (o \notin unsound => Holds(o, c))
<1>1. o \in Objectives /\ o \in named
  BY DEF OkInv, OkBase, OkAsks, OkTables, Arg
<1>2. t \in Workers(o)
  BY DEF Workers, Works, Arg
<1>3. c \in Stages(o)
  BY <1>2 DEF Stages
<1> QED
  BY <1>1, <1>3 DEF OkInv, OwnHolds

LEMMA QuitHolds ==
    ASSUME OkInv, NEW t \in Tasks, NEW c, c = call[t], c.op \in OkrOps, Quit(t),
           c.arg.id \notin unsound => Holds(c.arg.id, NoCall),
           ~ Moving(c), ~ Parting(c)
    PROVE  OkInv'
<1>1. UNCHANGED okrVars /\ UNCHANGED <<home, named, unsound>> /\ Finish(t)
  BY DEF Quit, okrVars, okrRows, krRows, okrHistory
<1>2. PICK d : d = call'[t]
  OBVIOUS
<1>3. Turns(t, c, d) /\ d = NoCall /\ OkAsks(t)'
  BY <1>1, <1>2, OkEnds DEF OkInv
<1>4. ~ Moving(d) /\ ~ Parting(d) /\ ~ At(d, "new_objective", {"main"})
  BY <1>3 DEF Moving, Parting, At, NoCall
<1> QED
  BY <1>1, <1>3, <1>4, LookHolds

LEMMA ReadsObjectiveHolds ==
    ASSUME OkInv, NEW t \in Tasks, ReadsObjective(t)
    PROVE  OkInv'
<1>0. PICK c : c = call[t]
  OBVIOUS
<1> DEFINE o   == c.arg.id
           old == objective[o]
<1>1. c.op = "set_objective" /\ c.at = "get" /\ c.op \in OkrOps
  BY <1>0 DEF ReadsObjective, On, OkrOps
<1>2. o \in Objectives /\ (o \notin unsound => Holds(o, c))
  BY <1>0, <1>1, Stands
<1>3. CASE old = NoObjective
  <2>1. Quit(t)
    BY <1>0, <1>3 DEF ReadsObjective, Arg
  <2>2. o \notin unsound => Holds(o, NoCall)
    BY <1>1, <1>2, <1>3 DEF NoCall, Holds, RowHolds, RollHolds, ListHolds, KrHolds, ChainHolds, Creates, Changes,
              Deletes, Reports, Recounts, At, Recomputes, Early, Exists
  <2> QED
    BY <1>0, <1>1, <2>1, <2>2, QuitHolds DEF Moving, Parting, At
<1>4. CASE old # NoObjective
  <2> DEFINE at == IF Sets(t, "status") THEN "status"
                   ELSE IF Sets(t, "parent") THEN IF old.parent = "none" THEN "parent" ELSE "leave"
                   ELSE IF Arg(t).cycle # old.cycle THEN "unlist" ELSE "list"
  <2>1. Learn(t, at, old) /\ UNCHANGED okrVars /\ UNCHANGED <<home, named, unsound>>
    BY <1>0, <1>4 DEF ReadsObjective, Seen, Arg, okrVars, okrRows, krRows, okrHistory
  <2>2. PICK d : d = call'[t]
    OBVIOUS
  <2>3. Turns(t, c, d) /\ d.op = c.op /\ d.arg = c.arg /\ d.at = at /\ d.got = old
    BY <1>0, <1>1, <2>1, <2>2, OkGoes DEF OkInv
  <2> DEFINE a == c.arg
  <2>a. PICK field \in {"status", "cycle", "parent"} : DOMAIN a = {"id", field}
    BY <1>0, <1>1 DEF OkInv, OkBase, OkAsks, Arg
  <2>b. "cycle" \in DOMAIN a => a.cycle \in Cycles
    BY <1>0, <1>1 DEF OkInv, OkBase, OkAsks, Arg, Sets
  <2>c. "parent" \in DOMAIN a => a.parent \in Objectives \ {a.id}
    BY <1>0, <1>1 DEF OkInv, OkBase, OkAsks, Arg, Sets
  <2>e. at = IF "status" \in DOMAIN a THEN "status"
             ELSE IF "parent" \in DOMAIN a THEN IF old.parent = "none" THEN "parent" ELSE "leave"
             ELSE IF a.cycle # old.cycle THEN "unlist" ELSE "list"
    BY <1>0 DEF Arg, Sets
  <2>4. OkAsks(t)'
    <3>1. Arg(t)' = a /\ call'[t].op = "set_objective" /\ call'[t].at = at /\ a.id \in named
      BY <1>0, <1>1, <2>2, <2>3 DEF OkInv, OkBase, OkAsks, Arg
    <3> HIDE DEF at, a
    <3> QED
      BY <2>1, <2>a, <2>b, <2>c, <2>e, <3>1 DEF OkAsks, Sets, KrOps, On, OkrOps
  <2>5. o \notin unsound => Holds(o, d)
    <3> SUFFICES ASSUME Holds(o, c) PROVE Holds(o, d)
      BY <1>2
    <3>0. a = c.arg
      OBVIOUS
    <3> HIDE DEF o, a, at
    <3> USE <1>1, <1>4, <2>3 DEF Holds, At, Recomputes
    <3>1. RowHolds(o, d)
      BY DEF RowHolds, Exists
    <3>2. RollHolds(o, d) /\ ListHolds(o, d)
      BY <2>e DEF RollHolds, ListHolds, Exists, Entry
    <3>3. \A k \in Own(o) : KrHolds(o, k, d)
      BY DEF KrHolds, ChainHolds
    <3>4. Creates(o, d) /\ Deletes(o, d) /\ Reports(o, d) /\ Recounts(o, d)
      BY DEF Creates, Deletes, Reports, Recounts
    <3>5. Changes(o, d)
      BY <2>a, <2>e, <3>0 DEF Changes
    <3> QED
      BY <3>1, <3>2, <3>3, <3>4, <3>5
  <2>6. (Moving(d) <=> Moving(c)) \/ old.parent \notin Objectives
    BY <1>1, <2>3 DEF Moving, At
  <2>7. Parting(d) <=> Parting(c)
    BY <1>1, <2>3 DEF Parting, At
  <2> QED
    BY <1>1, <2>1, <2>3, <2>4, <2>5, <2>6, <2>7, LookHolds DEF At
<1> QED
  BY <1>3, <1>4

LEMMA ReadsToDeleteHolds ==
    ASSUME OkInv, NEW t \in Tasks, ReadsToDelete(t)
    PROVE  OkInv'
<1>0. PICK c : c = call[t]
  OBVIOUS
<1> DEFINE o   == c.arg.id
           old == objective[o]
<1>1. c.op = "del_objective" /\ c.at = "get" /\ c.op \in OkrOps
  BY <1>0 DEF ReadsToDelete, On, OkrOps
<1>2. o \in Objectives /\ (o \notin unsound => Holds(o, c))
  BY <1>0, <1>1, Stands
<1>3. CASE old = NoObjective
  <2>1. Quit(t)
    BY <1>0, <1>3 DEF ReadsToDelete, Arg
  <2>2. o \notin unsound => Holds(o, NoCall)
    BY <1>1, <1>2, <1>3 DEF NoCall, Holds, RowHolds, RollHolds, ListHolds, KrHolds, ChainHolds, Creates, Changes,
              Deletes, Reports, Recounts, At, Recomputes, Early, Exists
  <2> QED
    BY <1>0, <1>1, <2>1, <2>2, QuitHolds DEF Moving, Parting, At
<1>4. CASE old # NoObjective
  <2> DEFINE got == [old |-> old, ks |-> {}]
  <2>1. Learn(t, "krs", got) /\ UNCHANGED okrVars /\ UNCHANGED <<home, named, unsound>>
    BY <1>0, <1>4 DEF ReadsToDelete, Seen, Arg, okrVars, okrRows, krRows, okrHistory
  <2>2. PICK d : d = call'[t]
    OBVIOUS
  <2>3. Turns(t, c, d) /\ d.op = c.op /\ d.arg = c.arg /\ d.at = "krs" /\ d.got = got
    BY <1>0, <1>1, <2>1, <2>2, OkGoes DEF OkInv
  <2>4. OkAsks(t)'
    BY <1>0, <1>1, <2>1, <2>2, <2>3 DEF OkInv, OkBase, OkAsks, Arg, Sets, KrOps, On, OkrOps
  <2>5. o \notin unsound => Holds(o, d)
    <3> SUFFICES ASSUME Holds(o, c) PROVE Holds(o, d)
      BY <1>2
    <3>0. d.got.old = objective[o]
      BY <2>3
    <3> HIDE DEF o, got
    <3> USE <1>1, <1>4, <2>3 DEF Holds, At, Recomputes
    <3>1. RowHolds(o, d)
      BY DEF RowHolds, Exists
    <3>2. RollHolds(o, d) /\ ListHolds(o, d)
      BY DEF RollHolds, ListHolds, Exists
    <3>3. \A k \in Own(o) : KrHolds(o, k, d)
      BY DEF KrHolds, ChainHolds
    <3>4. Creates(o, d) /\ Changes(o, d) /\ Reports(o, d) /\ Recounts(o, d)
      BY DEF Creates, Changes, Reports, Recounts
    <3>5. Deletes(o, d)
      BY <3>0 DEF Deletes
    <3> QED
      BY <3>1, <3>2, <3>3, <3>4, <3>5
  <2> QED
    BY <1>1, <2>1, <2>3, <2>4, <2>5, LookHolds DEF At, Moving, Parting
<1> QED
  BY <1>3, <1>4

LEMMA ReadsKrsHolds ==
    ASSUME OkInv, NEW t \in Tasks, ReadsKrs(t)
    PROVE  OkInv'
<1>0. PICK c : c = call[t]
  OBVIOUS
<1> DEFINE o   == c.arg.id
           ks  == KrsOf(o)
           at  == IF ks = {} THEN "dropkrs" ELSE "said"
           got == [old |-> c.got.old, ks |-> ks]
<1>1. c.op = "del_objective" /\ c.at = "krs" /\ c.op \in OkrOps
  BY <1>0 DEF ReadsKrs, On, OkrOps
<1>2. o \in Objectives /\ (o \notin unsound => Holds(o, c))
  BY <1>0, <1>1, Stands
<1>3. Learn(t, at, got) /\ UNCHANGED okrVars /\ UNCHANGED <<home, named, unsound>>
  BY <1>0 DEF ReadsKrs, Seen, Arg, Got, okrVars, okrRows, krRows, okrHistory
<1>4. PICK d : d = call'[t]
  OBVIOUS
<1>5. Turns(t, c, d) /\ d.op = c.op /\ d.arg = c.arg /\ d.at = at /\ d.got = got
  BY <1>0, <1>1, <1>3, <1>4, OkGoes DEF OkInv
<1>6. ks \subseteq Own(o)
  BY DEF KrsOf, Own
<1>7. d.got.ks = ks /\ d.got.old = c.got.old /\ d.at \in {"dropkrs", "said"} /\ (d.at = "dropkrs" => ks = {})
  BY <1>5
<1>8. OkAsks(t)'
  <2>1. Own(o)' = Own(o)
    BY <1>3 DEF Own
  <2>2. Arg(t)' = c.arg /\ Got(t)'.ks \subseteq Own(Arg(t).id)' /\ call'[t].op = "del_objective"
        /\ call'[t].at \in {"dropkrs", "said"}
    BY <1>1, <1>4, <1>5, <1>6, <1>7, <2>1 DEF Arg, Got, Own
  <2> QED
    BY <1>0, <1>1, <1>3, <2>2 DEF OkInv, OkBase, OkAsks, Arg, Sets, KrOps, On, OkrOps
<1>9. o \notin unsound => Holds(o, d)
  <2> SUFFICES ASSUME Holds(o, c) PROVE Holds(o, d)
    BY <1>2
  <2>0. d.at = "dropkrs" => \A k \in Own(o) : ~ key_result[k].there
    BY <1>7 DEF KrsOf, Own
  <2>1. \A k \in Own(o) : key_result[k].there => k \in ks
    BY DEF KrsOf, Own
  <2> HIDE DEF o, got, ks, at
  <2> USE <1>1, <1>5, <1>7 DEF Holds, At, Recomputes
  <2>2. RowHolds(o, d)
    BY DEF RowHolds, Early, KrOps, At
  <2>3. RollHolds(o, d) /\ ListHolds(o, d)
    BY DEF RollHolds, ListHolds
  <2>4. \A k \in Own(o) : KrHolds(o, k, d)
    BY DEF KrHolds, ChainHolds
  <2>5. Creates(o, d) /\ Changes(o, d) /\ Reports(o, d) /\ Recounts(o, d)
    BY DEF Creates, Changes, Reports, Recounts
  <2>6. \A k \in Own(o) : k \in kr_lookup => key_result[k].there
    BY DEF KrHolds
  <2>7. Deletes(o, d)
    BY <2>0, <2>1, <2>6 DEF Deletes
  <2> QED
    BY <2>2, <2>3, <2>4, <2>5, <2>7
<1>10. ~ Moving(d) /\ ~ Moving(c) /\ ~ Parting(c) /\ ~ Parting(d) /\ ~ At(d, "new_objective", {"main"})
  BY <1>1, <1>5, <1>7 DEF Moving, Parting, At
<1> QED
  BY <1>3, <1>5, <1>8, <1>9, <1>10, LookHolds

LEMMA VerifyHolds ==
    ASSUME OkInv, NEW t \in Tasks, Verify(t)
    PROVE  OkInv'
<1>0. PICK c : c = call[t]
  OBVIOUS
<1> DEFINE o  == c.arg.id
           at == IF c.op = "del_kr" THEN "say" ELSE "kr"
<1>1. c.op \in {"new_kr", "set_kr", "del_kr"} /\ c.at = "verify" /\ c.op \in OkrOps
  BY <1>0 DEF Verify, On, OkrOps
<1>2. o \in Objectives /\ (o \notin unsound => Holds(o, c))
  BY <1>0, <1>1, Stands
<1>3. CASE objective[o] = NoObjective
  <2>1. Quit(t)
    BY <1>0, <1>3 DEF Verify, Arg
  <2>2. o \notin unsound => Holds(o, NoCall)
    BY <1>1, <1>2, <1>3 DEF NoCall, Holds, RowHolds, RollHolds, ListHolds, KrHolds, ChainHolds, Creates, Changes,
              Deletes, Reports, Recounts, At, Recomputes, Early, Exists
  <2> QED
    BY <1>0, <1>1, <2>1, <2>2, QuitHolds DEF Moving, Parting, At
<1>4. CASE objective[o] # NoObjective
  <2>1. Goto(t, at) /\ UNCHANGED okrVars /\ UNCHANGED <<home, named, unsound>>
    BY <1>0, <1>4 DEF Verify, On, Arg, okrVars, okrRows, krRows, okrHistory
  <2>2. PICK d : d = call'[t]
    OBVIOUS
  <2>3. Turns(t, c, d) /\ d.op = c.op /\ d.arg = c.arg /\ d.at = at /\ d.got = c.got
    BY <1>0, <1>1, <2>1, <2>2, OkJumps DEF OkInv
  <2>4. d.at \in {"say", "kr"}
    BY <2>3
  <2>5. OkAsks(t)'
    BY <1>0, <1>1, <2>1, <2>2, <2>3, <2>4 DEF OkInv, OkBase, OkAsks, Arg, Sets, KrOps, On, OkrOps
  <2>6. o \notin unsound => Holds(o, d)
    <3> SUFFICES ASSUME Holds(o, c) PROVE Holds(o, d)
      BY <1>2
    <3> HIDE DEF o, at
    <3> USE <1>1, <1>4, <2>3, <2>4 DEF Holds, At, Recomputes
    <3>1. RowHolds(o, d)
      BY DEF RowHolds, Exists
    <3>2. RollHolds(o, d) /\ ListHolds(o, d)
      BY DEF RollHolds, ListHolds, Exists
    <3>3. \A k \in Own(o) : KrHolds(o, k, d)
      BY DEF KrHolds, ChainHolds
    <3>4. Creates(o, d) /\ Changes(o, d) /\ Deletes(o, d) /\ Reports(o, d) /\ Recounts(o, d)
      BY DEF Creates, Changes, Deletes, Reports, Recounts
    <3> QED
      BY <3>1, <3>2, <3>3, <3>4
  <2> QED
    BY <1>1, <2>1, <2>3, <2>5, <2>6, LookHolds DEF At, Moving, Parting
<1> QED
  BY <1>3, <1>4

LEMMA ScanObjectiveHolds ==
    ASSUME OkInv, NEW t \in Tasks, ScanObjective(t)
    PROVE  OkInv'
<1>0. PICK c : c = call[t]
  OBVIOUS
<1> DEFINE o == c.arg.id
<1>1. c.op = "new_kr" /\ c.at = "scan" /\ c.op \in OkrOps
  BY <1>0 DEF ScanObjective, On, OkrOps
<1>2. o \in Objectives /\ (o \notin unsound => Holds(o, c))
  BY <1>0, <1>1, Stands
<1>3. CASE objective[o] = NoObjective
  <2>1. Quit(t)
    BY <1>0, <1>3 DEF ScanObjective, Arg
  <2>2. o \notin unsound => Holds(o, NoCall)
    BY <1>1, <1>2, <1>3 DEF Holds, RowHolds, Early, KrOps, At, Exists
  <2> QED
    BY <1>0, <1>1, <2>1, <2>2, QuitHolds DEF Moving, Parting, At
<1>4. CASE objective[o] # NoObjective
  <2>1. Goto(t, "look") /\ UNCHANGED okrVars /\ UNCHANGED <<home, named, unsound>>
    BY <1>0, <1>4 DEF ScanObjective, On, Arg, okrVars, okrRows, krRows, okrHistory
  <2>2. PICK d : d = call'[t]
    OBVIOUS
  <2>3. Turns(t, c, d) /\ d.op = c.op /\ d.arg = c.arg /\ d.at = "look" /\ d.got = c.got
    BY <1>0, <1>1, <2>1, <2>2, OkJumps DEF OkInv
  <2>5. OkAsks(t)'
    BY <1>0, <1>1, <2>1, <2>2, <2>3 DEF OkInv, OkBase, OkAsks, Arg, Sets, KrOps, On, OkrOps
  <2>6. o \notin unsound => Holds(o, d)
    <3> SUFFICES ASSUME Holds(o, c) PROVE Holds(o, d)
      BY <1>2
    <3> HIDE DEF o
    <3> USE <1>1, <1>4, <2>3 DEF Holds, At, Recomputes
    <3>1. RowHolds(o, d)
      BY DEF RowHolds, Exists
    <3>2. RollHolds(o, d) /\ ListHolds(o, d)
      BY DEF RollHolds, ListHolds, Exists
    <3>3. \A k \in Own(o) : KrHolds(o, k, d)
      BY DEF KrHolds, ChainHolds
    <3>4. Creates(o, d) /\ Changes(o, d) /\ Deletes(o, d) /\ Reports(o, d) /\ Recounts(o, d)
      BY DEF Creates, Changes, Deletes, Reports, Recounts
    <3> QED
      BY <3>1, <3>2, <3>3, <3>4
  <2> QED
    BY <1>1, <2>1, <2>3, <2>5, <2>6, LookHolds DEF At, Moving, Parting
<1> QED
  BY <1>3, <1>4

LEMMA ReadsValueHolds ==
    ASSUME OkInv, NEW t \in Tasks, ReadsValue(t)
    PROVE  OkInv'
<1>0. PICK c : c = call[t]
  OBVIOUS
<1> DEFINE o    == c.arg.id
           k    == c.arg.kr
           prev == IF key_result[k].there THEN key_result[k].value ELSE c.arg.value
           got  == [prev |-> prev]
<1>1. c.op = "check_in" /\ c.at = "value" /\ c.op \in OkrOps
  BY <1>0 DEF ReadsValue, On, OkrOps
<1>2. o \in Objectives /\ (o \notin unsound => Holds(o, c))
  BY <1>0, <1>1, Stands
<1>3. Learn(t, "say", got) /\ UNCHANGED okrVars /\ UNCHANGED <<home, named, unsound>>
  BY <1>0 DEF ReadsValue, Seen, Arg, okrVars, okrRows, krRows, okrHistory
<1>4. PICK d : d = call'[t]
  OBVIOUS
<1>5. Turns(t, c, d) /\ d.op = c.op /\ d.arg = c.arg /\ d.at = "say" /\ d.got = got
  BY <1>0, <1>1, <1>3, <1>4, OkGoes DEF OkInv
<1>6. k \in KeyResults /\ c.arg.value \in Int /\ prev \in Int
  BY <1>0, <1>1 DEF OkInv, OkBase, OkTables, OkAsks, Arg, KrOps
<1>7. OkAsks(t)'
  BY <1>0, <1>1, <1>3, <1>4, <1>5, <1>6 DEF OkInv, OkBase, OkAsks, Arg, Got, Sets, KrOps, On, OkrOps
<1>8. o \notin unsound => Holds(o, d)
  <2> SUFFICES ASSUME Holds(o, c) PROVE Holds(o, d)
    BY <1>2
  <2>0. d.got.prev = prev /\ k = c.arg.kr
    BY <1>5
  <2> HIDE DEF o, got
  <2> USE <1>1, <1>5 DEF Holds, At, Recomputes
  <2>1. RowHolds(o, d)
    BY DEF RowHolds, Early
  <2>2. RollHolds(o, d) /\ ListHolds(o, d)
    BY DEF RollHolds, ListHolds
  <2>3. \A j \in Own(o) : KrHolds(o, j, d)
    BY DEF KrHolds, ChainHolds
  <2>4. Creates(o, d) /\ Changes(o, d) /\ Deletes(o, d) /\ Recounts(o, d)
    BY DEF Creates, Changes, Deletes, Recounts
  <2>5. Reports(o, d)
    BY <2>0 DEF Reports
  <2> QED
    BY <2>1, <2>2, <2>3, <2>4, <2>5
<1> QED
  BY <1>1, <1>3, <1>5, <1>7, <1>8, LookHolds DEF At, Moving, Parting

LEMMA FindsObjectiveHolds ==
    ASSUME OkInv, NEW t \in Tasks, FindsObjective(t)
    PROVE  OkInv'
<1>0. PICK c : c = call[t]
  OBVIOUS
<1> DEFINE o == c.arg.id
           k == c.arg.kr
<1>1. c.op = "check_in" /\ c.at = "find" /\ c.op \in OkrOps
  BY <1>0 DEF FindsObjective, On, OkrOps
<1>2. o \in Objectives /\ (o \notin unsound => Holds(o, c))
  BY <1>0, <1>1, Stands
<1>3. CASE ~ (k \in kr_lookup \/ key_result[k].there)
  <2>1. Quit(t)
    BY <1>0, <1>3 DEF FindsObjective, LookedUp, Arg
  <2>2. o \notin unsound => Holds(o, NoCall)
    <3> SUFFICES ASSUME Holds(o, c) PROVE Holds(o, NoCall)
      BY <1>2
    <3> HIDE DEF o
    <3> USE <1>1, <1>3 DEF Holds, At, Recomputes, NoCall
    <3>1. RowHolds(o, NoCall) /\ RollHolds(o, NoCall) /\ ListHolds(o, NoCall)
      BY DEF RowHolds, RollHolds, ListHolds, Early
    <3>2. \A j \in Own(o) : KrHolds(o, j, NoCall)
      BY DEF KrHolds, ChainHolds
    <3>3. Creates(o, NoCall) /\ Changes(o, NoCall) /\ Deletes(o, NoCall) /\ Reports(o, NoCall) /\ Recounts(o, NoCall)
      BY DEF Creates, Changes, Deletes, Reports, Recounts
    <3> QED
      BY <3>1, <3>2, <3>3
  <2> QED
    BY <1>0, <1>1, <2>1, <2>2, QuitHolds DEF Moving, Parting, At
<1>4. CASE k \in kr_lookup \/ key_result[k].there
  <2>1. Goto(t, "kr") /\ UNCHANGED okrVars /\ UNCHANGED <<home, named, unsound>>
    BY <1>0, <1>4 DEF FindsObjective, LookedUp, Arg, okrVars, okrRows, krRows, okrHistory
  <2>2. PICK d : d = call'[t]
    OBVIOUS
  <2>3. Turns(t, c, d) /\ d.op = c.op /\ d.arg = c.arg /\ d.at = "kr" /\ d.got = c.got
    BY <1>0, <1>1, <2>1, <2>2, OkJumps DEF OkInv
  <2>5. OkAsks(t)'
    BY <1>0, <1>1, <2>1, <2>2, <2>3 DEF OkInv, OkBase, OkAsks, Arg, Sets, KrOps, On, OkrOps
  <2>6. o \notin unsound => Holds(o, d)
    <3> SUFFICES ASSUME Holds(o, c) PROVE Holds(o, d)
      BY <1>2
    <3>0. d.arg.kr = k /\ c.arg.kr = k
      BY <2>3
    <3> HIDE DEF o, k
    <3> USE <1>1, <1>4, <2>3, <3>0 DEF Holds, At, Recomputes
    <3>1. k \in Own(o)
      BY DEF Reports
    <3>2. key_result[k].there /\ Exists(o)
      BY <3>1 DEF KrHolds
    <3>3. RowHolds(o, d)
      BY <3>2 DEF RowHolds
    <3>4. RollHolds(o, d) /\ ListHolds(o, d)
      BY DEF RollHolds, ListHolds
    <3>5. \A j \in Own(o) : KrHolds(o, j, d)
      BY DEF KrHolds, ChainHolds
    <3>6. Creates(o, d) /\ Changes(o, d) /\ Deletes(o, d) /\ Reports(o, d) /\ Recounts(o, d)
      BY <3>1, <3>2 DEF Creates, Changes, Deletes, Reports, Recounts
    <3> QED
      BY <3>3, <3>4, <3>5, <3>6
  <2> QED
    BY <1>1, <2>1, <2>3, <2>5, <2>6, LookHolds DEF At, Moving, Parting
<1> QED
  BY <1>3, <1>4

LEMMA RollsUpHolds ==
    ASSUME OkInv, NEW t \in Tasks, RollsUp(t)
    PROVE  OkInv'
<1>0. PICK c : c = call[t]
  OBVIOUS
<1> DEFINE o   == c.arg.id
           ks  == KrsOf(o)
           got == [roll |-> Rolled(ks), ks |-> ks]
<1>1. c.op \in {"check_in", "del_kr"} /\ c.at = "roll" /\ c.op \in OkrOps
  BY <1>0 DEF RollsUp, Recomputing, On, OkrOps
<1>2. o \in Objectives /\ (o \notin unsound => Holds(o, c))
  BY <1>0, <1>1, Stands
<1>3. CASE ks = {}
  <2>1. Quit(t)
    BY <1>0, <1>3 DEF RollsUp, Arg
  <2>2. o \notin unsound => Holds(o, NoCall)
    <3> SUFFICES ASSUME Holds(o, c) PROVE Holds(o, NoCall)
      BY <1>2
    <3> HIDE DEF o, ks
    <3> USE <1>1 DEF Holds, At, Recomputes, NoCall
    <3>1. RowHolds(o, NoCall) /\ RollHolds(o, NoCall) /\ ListHolds(o, NoCall)
      BY DEF RowHolds, RollHolds, ListHolds, Early
    <3>2. \A j \in Own(o) : KrHolds(o, j, NoCall)
      BY DEF KrHolds, ChainHolds
    <3>3. Creates(o, NoCall) /\ Changes(o, NoCall) /\ Deletes(o, NoCall) /\ Reports(o, NoCall) /\ Recounts(o, NoCall)
      BY DEF Creates, Changes, Deletes, Reports, Recounts
    <3> QED
      BY <3>1, <3>2, <3>3
  <2> QED
    BY <1>0, <1>1, <2>1, <2>2, QuitHolds DEF Moving, Parting, At
<1>4. CASE ks # {}
  <2>1. Learn(t, "find_ws", got) /\ UNCHANGED okrVars /\ UNCHANGED <<home, named, unsound>>
    BY <1>0, <1>4 DEF RollsUp, Seen, Arg, okrVars, okrRows, krRows, okrHistory
  <2>2. PICK d : d = call'[t]
    OBVIOUS
  <2> HIDE DEF got
  <2>3. Turns(t, c, d) /\ d.op = c.op /\ d.arg = c.arg /\ d.at = "find_ws" /\ d.got = got
    BY <1>0, <1>1, <2>1, <2>2, OkGoes DEF OkInv
  <2>5. OkAsks(t)'
    BY <1>0, <1>1, <2>1, <2>2, <2>3 DEF OkInv, OkBase, OkAsks, Arg, Sets, KrOps, On, OkrOps
  <2>6. o \notin unsound => Holds(o, d)
    <3> SUFFICES ASSUME Holds(o, c) PROVE Holds(o, d)
      BY <1>2
    <3>0. d.got.roll = Rolled(KrsOf(o))
      BY <2>3 DEF got
    <3> HIDE DEF o, ks
    <3> USE <1>1, <2>3 DEF Holds, At, Recomputes
    <3>1. RowHolds(o, d)
      BY DEF RowHolds, Early, KrOps
    <3>2. RollHolds(o, d) /\ ListHolds(o, d)
      BY DEF RollHolds, ListHolds
    <3>3. \A j \in Own(o) : KrHolds(o, j, d)
      BY DEF KrHolds, ChainHolds
    <3>4. Creates(o, d) /\ Changes(o, d) /\ Deletes(o, d) /\ Reports(o, d)
      BY DEF Creates, Changes, Deletes, Reports
    <3>5. Recounts(o, d)
      BY <3>0 DEF Recounts
    <3> QED
      BY <3>1, <3>2, <3>3, <3>4, <3>5
  <2> QED
    BY <1>1, <2>1, <2>3, <2>5, <2>6, LookHolds DEF At, Moving, Parting
<1> QED
  BY <1>3, <1>4

LEMMA FindsWorkspaceHolds ==
    ASSUME OkInv, NEW t \in Tasks, FindsWorkspace(t)
    PROVE  OkInv'
<1>0. PICK c : c = call[t]
  OBVIOUS
<1> DEFINE o   == c.arg.id
           got == [roll |-> c.got.roll, cycle |-> objective[o].cycle]
<1>1. c.op \in {"check_in", "del_kr"} /\ c.at = "find_ws" /\ c.op \in OkrOps
  BY <1>0 DEF FindsWorkspace, Recomputing, On, OkrOps
<1>2. o \in Objectives /\ (o \notin unsound => Holds(o, c))
  BY <1>0, <1>1, Stands
<1>3. o \notin unsound => Exists(o)
  BY <1>1, <1>2 DEF Holds, RowHolds, Early, At, KrOps
<1>4. CASE Quit(t) /\ ~ Exists(o)
  BY <1>0, <1>1, <1>3, <1>4, QuitHolds DEF Moving, Parting, At
<1>5. CASE Learn(t, "main", got) /\ UNCHANGED okrVars
  <2>1. UNCHANGED <<home, named, unsound>>
    BY <1>5 DEF okrVars, okrRows, krRows, okrHistory
  <2>2. PICK d : d = call'[t]
    OBVIOUS
  <2>3. Turns(t, c, d) /\ d.op = c.op /\ d.arg = c.arg /\ d.at = "main" /\ d.got = got
    BY <1>0, <1>1, <1>5, <2>1, <2>2, OkGoes DEF OkInv
  <2>5. OkAsks(t)'
    BY <1>0, <1>1, <2>1, <2>2, <2>3 DEF OkInv, OkBase, OkAsks, Arg, Sets, KrOps, On, OkrOps
  <2>6. o \notin unsound => Holds(o, d)
    <3> SUFFICES ASSUME Holds(o, c), Exists(o) PROVE Holds(o, d)
      BY <1>2, <1>3
    <3>0. d.got.roll = c.got.roll /\ d.got.cycle = objective[o].cycle
      BY <2>3
    <3> HIDE DEF o, got
    <3> USE <1>1, <2>3 DEF Holds, At, Recomputes
    <3>1. RowHolds(o, d)
      BY DEF RowHolds
    <3>2. RollHolds(o, d) /\ ListHolds(o, d)
      BY DEF RollHolds, ListHolds
    <3>3. \A j \in Own(o) : KrHolds(o, j, d)
      BY DEF KrHolds, ChainHolds
    <3>4. Creates(o, d) /\ Changes(o, d) /\ Deletes(o, d) /\ Reports(o, d)
      BY DEF Creates, Changes, Deletes, Reports
    <3>5. Recounts(o, d)
      BY <3>0 DEF Recounts
    <3> QED
      BY <3>1, <3>2, <3>3, <3>4, <3>5
  <2> QED
    BY <1>1, <1>5, <2>3, <2>5, <2>6, LookHolds DEF At, Moving, Parting
<1> QED
  BY <1>0, <1>4, <1>5 DEF FindsWorkspace, Seen, Arg, Got, Exists

-----------------------------------------------------------------------------
(* The row of an objective is written. *)

KrStill(o) ==
    /\ Own(o)' = Own(o) /\ KrsOf(o)' = KrsOf(o) /\ Rolled(KrsOf(o))' = Rolled(KrsOf(o))
    /\ UNCHANGED <<key_result, kr_lookup, check_ins, edited>>

LEMMA RowWritten ==
    ASSUME OkInv, NEW t \in Tasks, NEW c, NEW d, Turns(t, c, d), NEW o \in named, NEW new, Parts(new), new.parent # o,
           objective' = [objective EXCEPT ![o] = new], stirred' \in {stirred, stirred \ {o}},
           UNCHANGED <<by_cycle, children, krRows, edited, moved>>
    PROVE  /\ OkTables' /\ Apart(o) /\ KrStill(o)
           /\ objective'[o] = new /\ ListedAs(o)' = ListedAs(o)
<1>1. UNCHANGED <<by_cycle, children, key_result, kr_lookup, check_ins, home, named, edited, moved>>
  BY DEF krRows, Turns
<1>2. objective' = [q \in Objectives |-> objective'[q]] /\ objective'[o] = new
      /\ \A q \in Objectives \ {o} : objective'[q] = objective[q]
  BY DEF OkInv, OkBase, OkTables
<1>3. \A p, q : Linked(p, q)' <=> Linked(p, q)
  BY <1>1 DEF Linked
<1>4. Own(o)' = Own(o) /\ KrsOf(o)' = KrsOf(o) /\ Own("none")' = Own("none")
  BY <1>1 DEF Own, KrsOf
<1>5. Rolled(KrsOf(o))' = Rolled(KrsOf(o))
  BY <1>1, <1>4, RolledSame
<1>6. ASSUME NEW q \in Objectives
      PROVE  Parts(objective'[q]) /\ objective'[q].parent # q /\ ~ Linked(q, q)'
  BY <1>2, <1>3 DEF OkInv, OkBase, OkTables
<1>7. \A q \in Objectives : (Parts(objective[q]))'
  BY <1>6 DEF Parts
<1>8. OkTables'
  BY <1>1, <1>2, <1>4, <1>6, <1>7 DEF OkInv, OkBase, OkTables
<1>9. Apart(o)
  BY <1>1, <1>2, <1>3 DEF Apart, ListedAs
<1> QED
  BY <1>1, <1>2, <1>4, <1>5, <1>8, <1>9 DEF KrStill, ListedAs

LEMMA InsertObjectiveHolds ==
    ASSUME OkInv, NEW t \in Tasks, InsertObjective(t)
    PROVE  OkInv'
<1>0. PICK c : c = call[t]
  OBVIOUS
<1> DEFINE o == c.arg.id
<1>a. PICK new : new = [cycle |-> c.arg.cycle, status |-> "on_track", roll |-> Unrolled, parent |-> c.arg.parent]
  OBVIOUS
<1>1. c.op = "new_objective" /\ c.at = "main" /\ c.op \in OkrOps
  BY <1>0 DEF InsertObjective, On, OkrOps
<1>2. o \in Objectives /\ o \in named /\ (o \notin unsound => Holds(o, c))
  BY <1>0, <1>1, Stands
<1>3. /\ Goto(t, "list") /\ objective' = [objective EXCEPT ![o] = new]
      /\ UNCHANGED <<by_cycle, children, krRows, edited, moved, stirred>> /\ UNCHANGED <<home, named, unsound>>
  BY <1>0, <1>a DEF InsertObjective, Arg, krRows, okrHistory
<1>4. PICK d : d = call'[t]
  OBVIOUS
<1>5. Turns(t, c, d) /\ d.op = c.op /\ d.arg = c.arg /\ d.at = "list" /\ d.got = c.got
  BY <1>0, <1>1, <1>3, <1>4, OkJumps DEF OkInv
<1>6. c.arg.cycle \in Cycles /\ c.arg.parent \in ({"none"} \cup Objectives) \ {o} /\ "parent" \in DOMAIN c.arg /\ o \in named
  BY <1>0, <1>1 DEF OkInv, OkBase, OkAsks, Arg
<1>7. Parts(new) /\ new.parent # o /\ new.cycle = c.arg.cycle /\ new.parent = c.arg.parent /\ new # NoObjective
  BY <1>a, <1>6 DEF Parts, NoObjective
<1>8. /\ OkTables' /\ Apart(o) /\ KrStill(o)
      /\ objective'[o] = new /\ ListedAs(o)' = ListedAs(o)
  BY <1>2, <1>3, <1>5, <1>7, RowWritten
<1>9. OkAsks(t)'
  BY <1>0, <1>1, <1>3, <1>4, <1>5 DEF OkInv, OkBase, OkAsks, Arg, Sets, KrOps, On, OkrOps
<1>10. o \notin unsound => Holds(o, d)'
  <2> SUFFICES ASSUME Holds(o, c) PROVE Holds(o, d)'
    BY <1>2
  <2> HIDE DEF o
  <2> USE <1>1, <1>3, <1>5, <1>7, <1>8 DEF Holds, At, Recomputes, Exists, KrStill
  <2>1. RowHolds(o, d)'
    BY <1>6 DEF RowHolds
  <2>2. o \in stirred /\ ~ Exists(o)
    BY DEF Creates, RowHolds
  <2>3. RollHolds(o, d)'
    BY <2>2 DEF RollHolds
  <2>4. ListHolds(o, d)'
    BY <2>2 DEF ListHolds
  <2>5. \A k \in Own(o)' : KrHolds(o, k, d)'
    BY DEF KrHolds, ChainHolds, LinksUp, LastSaid
  <2>6. Creates(o, d)'
    BY <1>a, <2>2 DEF Creates
  <2>7. Changes(o, d)' /\ Deletes(o, d)' /\ Reports(o, d)' /\ Recounts(o, d)'
    BY DEF Changes, Deletes, Reports, Recounts
  <2> QED
    BY <2>1, <2>3, <2>4, <2>5, <2>6, <2>7
<1>11. ASSUME o \notin unsound
       PROVE  FamilyKept(o, d)
  <2>1. Stages(o) = {c}
    BY <1>2, <1>5, <1>11, OwnStage, SoleStays DEF OkInv
  <2> SUFFICES ASSUME NEW q \in Objectives \ unsound, q # o, NEW e \in Stages(q)
               PROVE  Binds(o, q, d, e)' /\ Binds(q, o, e, d)'
    BY DEF FamilyKept
  <2>2. Binds(o, q, c, e) /\ Binds(q, o, e, c)
    BY <1>2, <1>11, <2>1 DEF OkInv, FamiliesHold
  <2>3. ~ Exists(o)
    BY <1>1, <1>2, <1>11 DEF Holds, RowHolds, At
  <2>4. ~ Linked(o, q)' /\ ~ Linked(q, o)'
    BY <1>3, <2>2, <2>3 DEF Binds, Family, Linked
  <2>5. Moving(d)
    BY <1>1, <1>5 DEF Moving, At
  <2>6. Unborn(o)
    BY <1>0, <1>1 DEF Unborn, On, Arg
  <2>7. objective'[q].parent # o
    BY <1>2, <1>8, <1>11, <2>6 DEF OkInv, UnbornHolds, Apart
  <2> QED
    BY <2>4, <2>5, <2>7 DEF Binds, Family
<1>12. ParentKept(o, c) /\ ~ At(d, "new_objective", {"main"})
  BY <1>5, <1>6, <1>7, <1>8 DEF ParentKept, At
<1> QED
  BY <1>5, <1>8, <1>9, <1>10, <1>11, <1>12, TurnHolds

LEMMA WriteStatusHolds ==
    ASSUME OkInv, NEW t \in Tasks, WriteStatus(t)
    PROVE  OkInv'
<1>0. PICK c : c = call[t]
  OBVIOUS
<1> DEFINE o == c.arg.id
<1>1. c.op = "set_objective" /\ c.at = "status" /\ c.op \in OkrOps
  BY <1>0 DEF WriteStatus, On, OkrOps
<1>2. o \in Objectives /\ o \in named /\ (o \notin unsound => Holds(o, c))
  BY <1>0, <1>1, Stands
<1>a. PICK new : new = [objective[o] EXCEPT !.status = c.arg.status]
  OBVIOUS
<1>b. Parts(objective[o]) /\ objective[o].parent # o /\ objective = [q \in Objectives |-> objective[q]]
  BY <1>2 DEF OkInv, OkBase, OkTables
<1>3. /\ Goto(t, "list") /\ objective' = [objective EXCEPT ![o] = new]
      /\ UNCHANGED <<by_cycle, children, krRows, edited, moved, stirred>> /\ UNCHANGED <<home, named, unsound>>
  BY <1>0, <1>2, <1>a, <1>b DEF WriteStatus, Arg, krRows, okrHistory
<1>4. PICK d : d = call'[t]
  OBVIOUS
<1>5. Turns(t, c, d) /\ d.op = c.op /\ d.arg = c.arg /\ d.at = "list" /\ d.got = c.got
  BY <1>0, <1>1, <1>3, <1>4, OkJumps DEF OkInv
<1>7. /\ Parts(new) /\ new.cycle = objective[o].cycle /\ new.roll = objective[o].roll
      /\ new.parent = objective[o].parent /\ new.status = c.arg.status
  BY <1>a, <1>b DEF Parts
<1>8. /\ OkTables' /\ Apart(o) /\ KrStill(o)
      /\ objective'[o] = new /\ ListedAs(o)' = ListedAs(o)
  BY <1>2, <1>3, <1>5, <1>7, <1>b, RowWritten
<1>9. OkAsks(t)'
  BY <1>0, <1>1, <1>3, <1>4, <1>5 DEF OkInv, OkBase, OkAsks, Arg, Sets, KrOps, On, OkrOps
<1>10. o \notin unsound => Exists(o) /\ Exists(o)' /\ objective[o].cycle \in Cycles
  <2> SUFFICES ASSUME Holds(o, c) PROVE Exists(o) /\ Exists(o)' /\ objective[o].cycle \in Cycles
    BY <1>2
  <2>1. Exists(o) /\ objective[o].cycle \in Cycles
    BY <1>1 DEF Holds, RowHolds, Early, At, KrOps
  <2> QED
    BY <1>7, <1>8, <2>1 DEF Exists, NoObjective
<1>11. o \notin unsound => Holds(o, d)'
  <2> SUFFICES ASSUME Holds(o, c), Exists(o), Exists(o)', objective[o].cycle \in Cycles PROVE Holds(o, d)'
    BY <1>2, <1>10
  <2>0. DOMAIN c.arg = {"id", "status"}
    BY <1>0, <1>1 DEF OkInv, OkBase, OkAsks, Arg, Sets
  <2> HIDE DEF o
  <2> USE <1>1, <1>3, <1>5, <1>7, <1>8 DEF Holds, At, Recomputes, KrStill
  <2>1. RowHolds(o, d)'
    BY DEF RowHolds
  <2>2. RollHolds(o, d)'
    BY DEF RollHolds
  <2>3. ListHolds(o, d)'
    BY DEF ListHolds, Entry
  <2>4. \A k \in Own(o)' : KrHolds(o, k, d)'
    BY DEF KrHolds, ChainHolds, LinksUp, LastSaid
  <2>5. Changes(o, d)'
    BY <2>0 DEF Changes
  <2>6. Creates(o, d)' /\ Deletes(o, d)' /\ Reports(o, d)' /\ Recounts(o, d)'
    BY DEF Creates, Deletes, Reports, Recounts
  <2> QED
    BY <2>1, <2>2, <2>3, <2>4, <2>5, <2>6
<1>12. o \notin unsound => FamilyKept(o, d)
  BY <1>1, <1>2, <1>3, <1>5, <1>7, <1>8, <1>10, FamilyStill DEF Moving, Parting, At
<1>13. ParentKept(o, c) /\ ~ At(d, "new_objective", {"main"})
  BY <1>5, <1>1, <1>7, <1>8 DEF ParentKept, At
<1> QED
  BY <1>5, <1>8, <1>9, <1>11, <1>12, <1>13, TurnHolds

LEMMA WriteParentHolds ==
    ASSUME OkInv, NEW t \in Tasks, WriteParent(t)
    PROVE  OkInv'
<1>0. PICK c : c = call[t]
  OBVIOUS
<1> DEFINE o == c.arg.id
<1>1. c.op = "set_objective" /\ c.at = "parent" /\ c.op \in OkrOps
  BY <1>0 DEF WriteParent, On, OkrOps
<1>2. o \in Objectives /\ o \in named /\ (o \notin unsound => Holds(o, c))
  BY <1>0, <1>1, Stands
<1>a. PICK new : new = [objective[o] EXCEPT !.parent = c.arg.parent]
  OBVIOUS
<1>b. Parts(objective[o]) /\ objective[o].parent # o /\ objective = [q \in Objectives |-> objective[q]]
  BY <1>2 DEF OkInv, OkBase, OkTables
<1>3. /\ Goto(t, "adopt") /\ objective' = [objective EXCEPT ![o] = new]
      /\ UNCHANGED <<by_cycle, children, krRows, edited, moved, stirred>> /\ UNCHANGED <<home, named, unsound>>
  BY <1>0, <1>2, <1>a, <1>b DEF WriteParent, Arg, krRows, okrHistory
<1>4. PICK d : d = call'[t]
  OBVIOUS
<1>5. Turns(t, c, d) /\ d.op = c.op /\ d.arg = c.arg /\ d.at = "adopt" /\ d.got = c.got
  BY <1>0, <1>1, <1>3, <1>4, OkJumps DEF OkInv
<1>6. "parent" \in DOMAIN c.arg /\ c.arg.parent \in Objectives \ {o}
  BY <1>0, <1>1 DEF OkInv, OkBase, OkAsks, Arg, Sets
<1>7. /\ Parts(new) /\ new.cycle = objective[o].cycle /\ new.roll = objective[o].roll
      /\ new.parent = c.arg.parent /\ new.status = objective[o].status /\ new.parent # o
  BY <1>a, <1>b, <1>6 DEF Parts
<1>8. /\ OkTables' /\ Apart(o) /\ KrStill(o)
      /\ objective'[o] = new /\ ListedAs(o)' = ListedAs(o)
  BY <1>2, <1>3, <1>5, <1>7, RowWritten
<1>9. OkAsks(t)'
  BY <1>0, <1>1, <1>3, <1>4, <1>5 DEF OkInv, OkBase, OkAsks, Arg, Sets, KrOps, On, OkrOps
<1>10. o \notin unsound => Exists(o) /\ Exists(o)' /\ objective[o].cycle \in Cycles
  <2> SUFFICES ASSUME Holds(o, c) PROVE Exists(o) /\ Exists(o)' /\ objective[o].cycle \in Cycles
    BY <1>2
  <2>1. Exists(o) /\ objective[o].cycle \in Cycles
    BY <1>1 DEF Holds, RowHolds, Early, At, KrOps
  <2> QED
    BY <1>7, <1>8, <2>1 DEF Exists, NoObjective
<1>11. o \notin unsound => Holds(o, d)'
  <2> SUFFICES ASSUME Holds(o, c), Exists(o), Exists(o)', objective[o].cycle \in Cycles PROVE Holds(o, d)'
    BY <1>2, <1>10
  <2>0. DOMAIN c.arg = {"id", "parent"}
    BY <1>0, <1>1 DEF OkInv, OkBase, OkAsks, Arg, Sets
  <2> HIDE DEF o
  <2> USE <1>1, <1>3, <1>5, <1>7, <1>8 DEF Holds, At, Recomputes, KrStill
  <2>1. RowHolds(o, d)'
    BY DEF RowHolds
  <2>2. RollHolds(o, d)'
    BY DEF RollHolds
  <2>3. ListHolds(o, d)'
    BY DEF ListHolds, Entry
  <2>4. \A k \in Own(o)' : KrHolds(o, k, d)'
    BY DEF KrHolds, ChainHolds, LinksUp, LastSaid
  <2>5. Changes(o, d)'
    BY <2>0 DEF Changes
  <2>6. Creates(o, d)' /\ Deletes(o, d)' /\ Reports(o, d)' /\ Recounts(o, d)'
    BY DEF Creates, Deletes, Reports, Recounts
  <2> QED
    BY <2>1, <2>2, <2>3, <2>4, <2>5, <2>6
<1>12. ASSUME o \notin unsound
       PROVE  FamilyKept(o, d)
  <2>1. Stages(o) = {c}
    BY <1>2, <1>5, <1>12, OwnStage, SoleStays DEF OkInv
  <2> SUFFICES ASSUME NEW q \in Objectives \ unsound, q # o, NEW e \in Stages(q)
               PROVE  Binds(o, q, d, e)' /\ Binds(q, o, e, d)'
    BY DEF FamilyKept
  <2>2. Binds(o, q, c, e) /\ Binds(q, o, e, c)
    BY <1>2, <1>12, <2>1 DEF OkInv, FamiliesHold
  <2>3. Moving(c) /\ Moving(d) /\ ~ Parting(c) /\ ~ Parting(d)
    BY <1>1, <1>5 DEF Moving, Parting, At
  <2>4. (Linked(o, q)' <=> Linked(o, q)) /\ (Linked(q, o)' <=> Linked(q, o))
    BY <1>3 DEF Linked
  <2>5. Family(q, o)' <=> Family(q, o)
    BY <1>8, <1>10, <1>12 DEF Family, Apart, Exists
  <2> QED
    BY <2>2, <2>3, <2>4, <2>5 DEF Binds
<1>13. ParentKept(o, c) /\ ~ At(d, "new_objective", {"main"})
  BY <1>5, <1>1, <1>6, <1>7, <1>8 DEF ParentKept, At
<1> QED
  BY <1>5, <1>8, <1>9, <1>11, <1>12, <1>13, TurnHolds

LEMMA DeleteObjectiveHolds ==
    ASSUME OkInv, NEW t \in Tasks, DeleteObjective(t)
    PROVE  OkInv'
<1>0. PICK c : c = call[t]
  OBVIOUS
<1> DEFINE o == c.arg.id
<1>1. c.op = "del_objective" /\ c.at = "main" /\ c.op \in OkrOps
  BY <1>0 DEF DeleteObjective, On, OkrOps
<1>2. o \in Objectives /\ o \in named /\ (o \notin unsound => Holds(o, c))
  BY <1>0, <1>1, Stands
<1>3. /\ Finish(t) /\ objective' = [objective EXCEPT ![o] = NoObjective]
      /\ UNCHANGED <<by_cycle, children, krRows, edited, moved, stirred>> /\ UNCHANGED <<home, named, unsound>>
  BY <1>0 DEF DeleteObjective, Arg, krRows, okrHistory
<1>4. PICK d : d = call'[t]
  OBVIOUS
<1>5. Turns(t, c, d) /\ d = NoCall /\ OkAsks(t)'
  BY <1>0, <1>1, <1>3, <1>4, OkEnds DEF OkInv
<1>6. d.op = "none" /\ d.at = "none"
  BY <1>5 DEF NoCall
<1>7. Parts(NoObjective) /\ NoObjective.parent = "none" /\ NoObjective.parent # o
  BY <1>2 DEF Parts, NoObjective
<1>8. /\ OkTables' /\ Apart(o) /\ KrStill(o)
      /\ objective'[o] = NoObjective /\ ListedAs(o)' = ListedAs(o)
  BY <1>2, <1>3, <1>5, <1>7, RowWritten
<1>9. ~ Exists(o)'
  BY <1>8 DEF Exists
<1>10. o \notin unsound => Holds(o, d)'
  <2> SUFFICES ASSUME Holds(o, c) PROVE Holds(o, d)'
    BY <1>2
  <2> HIDE DEF o
  <2> USE <1>1, <1>3, <1>6, <1>8, <1>9 DEF Holds, At, Recomputes, KrStill
  <2>1. RowHolds(o, d)'
    BY DEF RowHolds, Early
  <2>2. RollHolds(o, d)' /\ ListHolds(o, d)'
    BY DEF RollHolds, ListHolds
  <2>3. KrsOf(o) = {} /\ Own(o) \cap kr_lookup = {}
    BY DEF Deletes
  <2>4. \A k \in Own(o) : ~ key_result[k].there /\ k \notin kr_lookup
    BY <2>3 DEF KrsOf, Own
  <2>5. \A k \in Own(o)' : KrHolds(o, k, d)'
    BY <2>4 DEF KrHolds, ChainHolds
  <2>6. Creates(o, d)' /\ Changes(o, d)' /\ Deletes(o, d)' /\ Reports(o, d)' /\ Recounts(o, d)'
    BY DEF Creates, Changes, Deletes, Reports, Recounts
  <2> QED
    BY <2>1, <2>2, <2>5, <2>6
<1>11. ASSUME o \notin unsound
       PROVE  FamilyKept(o, d)
  <2>1. Stages(o) = {c}
    BY <1>2, <1>5, <1>11, OwnStage, SoleStays DEF OkInv
  <2> SUFFICES ASSUME NEW q \in Objectives \ unsound, q # o, NEW e \in Stages(q)
               PROVE  Binds(o, q, d, e)' /\ Binds(q, o, e, d)'
    BY DEF FamilyKept
  <2>2. Binds(o, q, c, e) /\ Binds(q, o, e, c)
    BY <1>2, <1>11, <2>1 DEF OkInv, FamiliesHold
  <2>3. Moving(c) /\ Parting(c)
    BY <1>1 DEF Moving, Parting, At
  <2>4. ~ Linked(o, q)' /\ ~ Linked(q, o)'
    BY <1>3, <2>2, <2>3 DEF Binds, Linked
  <2> QED
    BY <1>9, <2>4 DEF Binds, Family
<1>12. ParentKept(o, c) /\ ~ At(d, "new_objective", {"main"})
  BY <1>6, <1>7, <1>8 DEF ParentKept, At
<1> QED
  BY <1>5, <1>8, <1>10, <1>11, <1>12, TurnHolds

LEMMA WriteProgressHolds ==
    ASSUME OkInv, NEW t \in Tasks, WriteProgress(t)
    PROVE  OkInv'
<1>0. PICK c : c = call[t]
  OBVIOUS
<1> DEFINE o == c.arg.id
<1>1. c.op \in {"check_in", "del_kr"} /\ c.at = "main" /\ c.op \in OkrOps
  BY <1>0 DEF WriteProgress, Recomputing, On, OkrOps
<1>2. o \in Objectives /\ o \in named /\ (o \notin unsound => Holds(o, c))
  BY <1>0, <1>1, Stands
<1>a. PICK new : new = [objective[o] EXCEPT !.roll = c.got.roll, !.status = Judged(c.got.roll)]
  OBVIOUS
<1>b. Parts(objective[o]) /\ objective[o].parent # o /\ objective = [q \in Objectives |-> objective[q]]
  BY <1>2 DEF OkInv, OkBase, OkTables
<1>3. /\ objective' = [objective EXCEPT ![o] = new] /\ stirred' = stirred \ {o}
      /\ UNCHANGED <<by_cycle, children, krRows, edited, moved>> /\ UNCHANGED <<home, named, unsound>>
  BY <1>0, <1>2, <1>a, <1>b DEF WriteProgress, Arg, Got, krRows
<1>4. PICK d : d = call'[t]
  OBVIOUS
<1>7. /\ Parts(new) /\ new.cycle = objective[o].cycle /\ new.roll = c.got.roll
      /\ new.parent = objective[o].parent /\ new.status = Judged(c.got.roll)
  BY <1>a, <1>b DEF Parts
<1>8. ParentKept(o, c) /\ (Turns(t, c, d) => OkTables' /\ Apart(o) /\ KrStill(o)
                             /\ objective'[o] = new /\ ListedAs(o)' = ListedAs(o))
  BY <1>2, <1>3, <1>7, <1>b, RowWritten DEF ParentKept, OkInv, OkBase, OkTables
<1>5. CASE c.got.cycle = "none"
  <2>1. Finish(t)
    BY <1>0, <1>5 DEF WriteProgress, Got
  <2>2. Turns(t, c, d) /\ d = NoCall /\ OkAsks(t)'
    BY <1>0, <1>1, <1>3, <1>4, <2>1, OkEnds DEF OkInv
  <2>3. ~ At(d, "new_objective", {"main"})
    BY <2>2 DEF At, NoCall
  <2>4. o \in unsound
    BY <1>1, <1>2, <1>5 DEF Holds, RowHolds, Recounts, Recomputes, Early, At, KrOps
  <2> QED
    BY <1>8, <2>2, <2>3, <2>4, TurnHolds
<1>6. CASE c.got.cycle # "none"
  <2>1. Goto(t, "list")
    BY <1>0, <1>6 DEF WriteProgress, Got
  <2>2. Turns(t, c, d) /\ d.op = c.op /\ d.arg = c.arg /\ d.at = "list" /\ d.got = c.got
    BY <1>0, <1>1, <1>3, <1>4, <2>1, OkJumps DEF OkInv
  <2>3. OkAsks(t)'
    BY <1>0, <1>1, <1>3, <1>4, <2>1, <2>2 DEF OkInv, OkBase, OkAsks, Arg, Sets, KrOps, On, OkrOps
  <2>4. o \notin unsound => Exists(o) /\ Exists(o)' /\ objective[o].cycle \in Cycles
    <3> SUFFICES ASSUME Holds(o, c) PROVE Exists(o) /\ Exists(o)' /\ objective[o].cycle \in Cycles
      BY <1>2
    <3>1. Exists(o) /\ objective[o].cycle \in Cycles
      BY <1>1 DEF Holds, RowHolds, Early, At, KrOps
    <3> QED
      BY <1>7, <1>8, <2>2, <3>1 DEF Exists, NoObjective
  <2>5. o \notin unsound => Holds(o, d)'
    <3> SUFFICES ASSUME Holds(o, c), Exists(o), Exists(o)', objective[o].cycle \in Cycles PROVE Holds(o, d)'
      BY <1>2, <2>4
    <3>0. o \notin stirred'
      BY <1>3
    <3> HIDE DEF o
    <3> USE <1>1, <1>3, <1>7, <1>8, <2>2 DEF Holds, At, Recomputes, KrStill
    <3>a. c.got.roll = Rolled(KrsOf(o)) /\ c.got.cycle = objective[o].cycle
      BY DEF Recounts
    <3>1. RowHolds(o, d)'
      BY DEF RowHolds
    <3>2. RollHolds(o, d)'
      BY <3>0, <3>a DEF RollHolds
    <3>3. ListHolds(o, d)'
      BY DEF ListHolds, Entry
    <3>4. \A k \in Own(o)' : KrHolds(o, k, d)'
      BY DEF KrHolds, ChainHolds, LinksUp, LastSaid
    <3>5. Changes(o, d)' /\ Creates(o, d)' /\ Deletes(o, d)' /\ Reports(o, d)'
      BY DEF Changes, Creates, Deletes, Reports
    <3>6. Recounts(o, d)'
      BY <3>a DEF Recounts
    <3> QED
      BY <3>1, <3>2, <3>3, <3>4, <3>5, <3>6
  <2>6. o \notin unsound => FamilyKept(o, d)
    BY <1>1, <1>2, <1>3, <1>7, <1>8, <2>2, <2>4, FamilyStill DEF Moving, Parting, At
  <2>7. ~ At(d, "new_objective", {"main"})
    BY <1>1, <2>2 DEF At
  <2> QED
    BY <1>8, <2>2, <2>3, <2>5, <2>6, <2>7, TurnHolds
<1> QED
  BY <1>5, <1>6

-----------------------------------------------------------------------------
(* A row of a page is written, or removed. *)

LEMMA PlaceWritten ==
    ASSUME OkInv, NEW t \in Tasks, NEW c, NEW d, Turns(t, c, d), NEW o \in Objectives, o = c.arg.id,
           \A r : r.id # o => (r \in by_cycle' <=> r \in by_cycle),
           moved' \in {moved, moved \cup {o}},
           UNCHANGED <<objective, children, krRows, stirred, edited>>,
           o \notin unsound => (Moving(d) <=> Moving(c)) \/ objective[o].parent \notin Objectives,
           Parting(d) <=> Parting(c)
    PROVE  /\ OkTables' /\ Apart(o) /\ KrStill(o) /\ ParentKept(o, c)
           /\ o \notin unsound => FamilyKept(o, d)
<1>1. UNCHANGED <<objective, children, key_result, kr_lookup, check_ins, home, named, stirred, edited>>
  BY DEF krRows, Turns
<1>2. OkTables'
  BY <1>1 DEF OkInv, OkBase, OkTables, Parts, Linked, Own
<1>3. \A q \in Objectives \ {o} : ListedAs(q)' = ListedAs(q)
  BY DEF ListedAs
<1>4. Apart(o)
  BY <1>1, <1>3 DEF Apart, Linked
<1>5. Own(o)' = Own(o) /\ KrsOf(o)' = KrsOf(o)
  BY <1>1 DEF Own, KrsOf
<1>6. Rolled(KrsOf(o))' = Rolled(KrsOf(o))
  BY <1>1, <1>5, RolledSame
<1>7. o \notin unsound => FamilyKept(o, d)
  BY <1>1, <1>4, FamilyStill DEF Exists
<1> QED
  BY <1>1, <1>2, <1>4, <1>5, <1>6, <1>7 DEF KrStill, ParentKept

LEMMA OnceListed ==
    ASSUME NEW o, NEW cycle, NEW status, NEW roll, by_cycle' = Listing(o, cycle, status, roll)
    PROVE  /\ \A r : r.id # o => (r \in by_cycle' <=> r \in by_cycle)
           /\ (\A r \in ListedAs(o) : r.cycle = cycle)
                => ListedAs(o)' = {[id |-> o, cycle |-> cycle, status |-> status, roll |-> roll]}
  BY DEF Listing, ListedAs

LEMMA OnceUnlisted ==
    ASSUME NEW o, NEW cycle, by_cycle' = Unlisted(o, cycle)
    PROVE  /\ \A r : r.id # o => (r \in by_cycle' <=> r \in by_cycle)
           /\ (\A r \in ListedAs(o) : r.cycle = cycle) => ListedAs(o)' = {}
  BY DEF Unlisted, ListedAs

LEMMA KrsStand ==
    ASSUME NEW o, NEW c, NEW d, KrStill(o), Exists(o)' <=> Exists(o), \A k \in Own(o) : KrHolds(o, k, c),
           c.op \notin {"check_in", "del_kr", "del_objective"}, d.op \notin {"check_in", "del_kr", "del_objective"}
    PROVE  \A k \in Own(o)' : KrHolds(o, k, d)'
<1>1. ASSUME NEW k \in Own(o)'
      PROVE  KrHolds(o, k, d)'
  <2>1. KrHolds(o, k, c)
    BY <1>1 DEF KrStill
  <2> QED
    BY <2>1 DEF KrStill, KrHolds, ChainHolds, LinksUp, LastSaid, At
<1> QED
  BY <1>1

LEMMA ListObjectiveHolds ==
    ASSUME OkInv, NEW t \in Tasks, ListObjective(t)
    PROVE  OkInv'
<1>0. PICK c : c = call[t]
  OBVIOUS
<1> DEFINE o == c.arg.id
<1>1. c.op = "new_objective" /\ c.at = "list" /\ c.op \in OkrOps
  BY <1>0 DEF ListObjective, On, OkrOps
<1>2. o \in Objectives /\ (o \notin unsound => Holds(o, c))
  BY <1>0, <1>1, Stands
<1>3. /\ by_cycle' = Listing(o, c.arg.cycle, "on_track", Unrolled)
      /\ UNCHANGED <<objective, children, krRows, stirred, edited>> /\ UNCHANGED <<home, named, unsound, moved>>
  BY <1>0 DEF ListObjective, Arg, krRows, okrHistory
<1>4. PICK d : d = call'[t]
  OBVIOUS
<1>5. Turns(t, c, d) /\ OkAsks(t)' /\ IF c.arg.parent = "none" THEN d = NoCall
                                      ELSE d.op = c.op /\ d.arg = c.arg /\ d.at = "child"
  <2>1. CASE c.arg.parent = "none"
    <3>1. Finish(t)
      BY <1>0, <2>1 DEF ListObjective, Arg
    <3> QED
      BY <1>0, <1>1, <1>3, <1>4, <2>1, <3>1, OkEnds DEF OkInv
  <2>2. CASE c.arg.parent # "none"
    <3>1. Goto(t, "child")
      BY <1>0, <2>2 DEF ListObjective, Arg
    <3>2. Turns(t, c, d) /\ d.op = c.op /\ d.arg = c.arg /\ d.at = "child" /\ d.got = c.got
      BY <1>0, <1>1, <1>3, <1>4, <3>1, OkJumps DEF OkInv
    <3>3. OkAsks(t)'
      BY <1>0, <1>1, <1>3, <1>4, <3>1, <3>2 DEF OkInv, OkBase, OkAsks, Arg, Sets, KrOps, On, OkrOps
    <3> QED
      BY <2>2, <3>2, <3>3
  <2> QED
    BY <2>1, <2>2
<1>6. d = NoCall \/ (d.op = "new_objective" /\ d.at = "child" /\ d.arg = c.arg)
  BY <1>1, <1>5
<1>7. ~ At(d, "new_objective", {"main"}) /\ Moving(c) /\ ~ Parting(c) /\ ~ Parting(d)
      /\ (c.arg.parent # "none" => Moving(d))
  BY <1>1, <1>5, <1>6 DEF At, NoCall, Moving, Parting
<1>8. o \notin unsound => objective[o] = [cycle |-> c.arg.cycle, status |-> "on_track", roll |-> Unrolled,
                                         parent |-> c.arg.parent]
  BY <1>1, <1>2 DEF Holds, Creates
<1>9. \A r : r.id # o => (r \in by_cycle' <=> r \in by_cycle)
  BY <1>3, OnceListed
<1>10. o \notin unsound => (Moving(d) <=> Moving(c)) \/ objective[o].parent \notin Objectives
  BY <1>7, <1>8
<1>11. OkTables' /\ Apart(o) /\ KrStill(o) /\ ParentKept(o, c) /\ (o \notin unsound => FamilyKept(o, d))
  BY <1>2, <1>3, <1>5, <1>7, <1>9, <1>10, PlaceWritten
<1>12. o \notin unsound => Holds(o, d)'
  <2> SUFFICES ASSUME Holds(o, c) PROVE Holds(o, d)'
    BY <1>2
  <2> HIDE DEF o
  <2> USE <1>1, <1>3, <1>11 DEF Holds, At, Recomputes, KrStill, Exists
  <2>1. Exists(o) /\ objective[o].cycle = c.arg.cycle /\ objective[o].status = "on_track"
        /\ objective[o].roll = Unrolled
    BY DEF RowHolds, Early, Creates, KrOps
  <2>2. o \notin moved => \A r \in ListedAs(o) : r.cycle = c.arg.cycle
    BY DEF ListHolds
  <2>3. o \notin moved => ListedAs(o)' = {Entry(o)}
    BY <2>1, <2>2, OnceListed DEF Entry
  <2>4. CASE d = NoCall
    <3> USE <2>4 DEF NoCall
    <3>1. RowHolds(o, d)' /\ RollHolds(o, d)'
      BY DEF RowHolds, RollHolds, Creates, Early
    <3>2. ListHolds(o, d)'
      BY <2>1, <2>3 DEF ListHolds, Entry
    <3>3. \A k \in Own(o)' : KrHolds(o, k, d)'
      BY KrsStand
    <3>4. Creates(o, d)' /\ Changes(o, d)' /\ Deletes(o, d)' /\ Reports(o, d)' /\ Recounts(o, d)'
      BY DEF Creates, Changes, Deletes, Reports, Recounts
    <3> QED
      BY <3>1, <3>2, <3>3, <3>4
  <2>5. CASE d.op = "new_objective" /\ d.at = "child" /\ d.arg = c.arg
    <3> USE <2>5
    <3>1. RowHolds(o, d)' /\ RollHolds(o, d)'
      BY DEF RowHolds, RollHolds, Creates, Early
    <3>2. ListHolds(o, d)'
      BY <2>1, <2>3 DEF ListHolds, Entry
    <3>3. \A k \in Own(o)' : KrHolds(o, k, d)'
      BY KrsStand
    <3>4. Creates(o, d)' /\ Changes(o, d)' /\ Deletes(o, d)' /\ Reports(o, d)' /\ Recounts(o, d)'
      BY DEF Creates, Changes, Deletes, Reports, Recounts
    <3> QED
      BY <3>1, <3>2, <3>3, <3>4
  <2> QED
    BY <1>6, <2>4, <2>5
<1> QED
  BY <1>5, <1>7, <1>11, <1>12, TurnHolds

LEMMA ListAgainHolds ==
    ASSUME OkInv, NEW t \in Tasks, ListAgain(t)
    PROVE  OkInv'
<1>0. PICK c : c = call[t]
  OBVIOUS
<1> DEFINE o == c.arg.id
<1>a. PICK cycle : cycle = IF "cycle" \in DOMAIN c.arg THEN c.arg.cycle ELSE c.got.cycle
  OBVIOUS
<1>b. PICK status : status = IF "status" \in DOMAIN c.arg THEN c.arg.status ELSE c.got.status
  OBVIOUS
<1>1. c.op = "set_objective" /\ c.at = "list" /\ c.op \in OkrOps
  BY <1>0 DEF ListAgain, On, OkrOps
<1>2. o \in Objectives /\ (o \notin unsound => Holds(o, c))
  BY <1>0, <1>1, Stands
<1>3. /\ by_cycle' = Listing(o, cycle, status, c.got.roll) /\ Finish(t)
      /\ UNCHANGED <<objective, children, krRows, stirred, edited>> /\ UNCHANGED <<home, named, unsound, moved>>
  BY <1>0, <1>a, <1>b DEF ListAgain, Asked, Sets, Arg, Got, krRows, okrHistory
<1>4. PICK d : d = call'[t]
  OBVIOUS
<1>5. Turns(t, c, d) /\ d = NoCall /\ OkAsks(t)'
  BY <1>0, <1>1, <1>3, <1>4, OkEnds DEF OkInv
<1>6. ~ At(d, "new_objective", {"main"}) /\ ~ Moving(c) /\ ~ Parting(c) /\ ~ Parting(d) /\ ~ Moving(d)
  BY <1>1, <1>5 DEF At, NoCall, Moving, Parting
<1>9. \A r : r.id # o => (r \in by_cycle' <=> r \in by_cycle)
  BY <1>3, OnceListed
<1>10. OkTables' /\ Apart(o) /\ KrStill(o) /\ ParentKept(o, c) /\ (o \notin unsound => FamilyKept(o, d))
  BY <1>2, <1>3, <1>5, <1>6, <1>9, PlaceWritten
<1>11. o \notin unsound => Holds(o, d)'
  <2> SUFFICES ASSUME Holds(o, c) PROVE Holds(o, d)'
    BY <1>2
  <2> HIDE DEF o
  <2> USE <1>1, <1>3, <1>5, <1>10 DEF Holds, At, Recomputes, KrStill, Exists, NoCall
  <2>1. Exists(o) /\ objective[o].status = status /\ objective[o].roll = c.got.roll
        /\ (o \notin moved => objective[o].cycle = cycle)
    BY <1>a, <1>b DEF RowHolds, Early, Changes, KrOps
  <2>2. o \notin moved => \A r \in ListedAs(o) : r.cycle = cycle
    BY <2>1 DEF ListHolds
  <2>3. o \notin moved => ListedAs(o)' = {Entry(o)}
    BY <2>1, <2>2, OnceListed DEF Entry
  <2>4. RowHolds(o, d)' /\ RollHolds(o, d)'
    BY DEF RowHolds, RollHolds, Early
  <2>5. ListHolds(o, d)'
    BY <2>1, <2>3 DEF ListHolds, Entry
  <2>6. \A k \in Own(o)' : KrHolds(o, k, d)'
    BY KrsStand
  <2>7. Creates(o, d)' /\ Changes(o, d)' /\ Deletes(o, d)' /\ Reports(o, d)' /\ Recounts(o, d)'
    BY DEF Creates, Changes, Deletes, Reports, Recounts
  <2> QED
    BY <2>4, <2>5, <2>6, <2>7
<1> QED
  BY <1>5, <1>6, <1>10, <1>11, TurnHolds

LEMMA UnlistOldHolds ==
    ASSUME OkInv, NEW t \in Tasks, UnlistOld(t)
    PROVE  OkInv'
<1>0. PICK c : c = call[t]
  OBVIOUS
<1> DEFINE o == c.arg.id
<1>1. c.op = "set_objective" /\ c.at = "unlist" /\ c.op \in OkrOps
  BY <1>0 DEF UnlistOld, On, OkrOps
<1>2. o \in Objectives /\ (o \notin unsound => Holds(o, c))
  BY <1>0, <1>1, Stands
<1>3. /\ by_cycle' = Unlisted(o, c.got.cycle) /\ moved' = moved \cup {o} /\ Goto(t, "list")
      /\ UNCHANGED <<objective, children, krRows, stirred, edited>> /\ UNCHANGED <<home, named, unsound>>
  BY <1>0 DEF UnlistOld, Arg, Got, krRows
<1>4. PICK d : d = call'[t]
  OBVIOUS
<1>5. Turns(t, c, d) /\ d.op = c.op /\ d.arg = c.arg /\ d.at = "list" /\ d.got = c.got
  BY <1>0, <1>1, <1>3, <1>4, OkJumps DEF OkInv
<1>6. ~ At(d, "new_objective", {"main"}) /\ ~ Moving(c) /\ ~ Parting(c) /\ ~ Parting(d) /\ ~ Moving(d)
  BY <1>1, <1>5 DEF At, Moving, Parting
<1>7. OkAsks(t)'
  BY <1>0, <1>1, <1>3, <1>4, <1>5 DEF OkInv, OkBase, OkAsks, Arg, Sets, KrOps, On, OkrOps
<1>9. \A r : r.id # o => (r \in by_cycle' <=> r \in by_cycle)
  BY <1>3, OnceUnlisted
<1>10. OkTables' /\ Apart(o) /\ KrStill(o) /\ ParentKept(o, c) /\ (o \notin unsound => FamilyKept(o, d))
  BY <1>2, <1>3, <1>5, <1>6, <1>9, PlaceWritten
<1>11. o \notin unsound => Holds(o, d)'
  <2> SUFFICES ASSUME Holds(o, c) PROVE Holds(o, d)'
    BY <1>2
  <2>0. DOMAIN c.arg = {"id", "cycle"}
    BY <1>0, <1>1 DEF OkInv, OkBase, OkAsks, Arg, Sets
  <2> HIDE DEF o
  <2> USE <1>1, <1>3, <1>5, <1>10 DEF Holds, At, Recomputes, KrStill, Exists
  <2>1. o \in moved'
    BY <1>3
  <2>4. RowHolds(o, d)' /\ RollHolds(o, d)'
    BY DEF RowHolds, RollHolds, Early, KrOps
  <2>5. ListHolds(o, d)'
    BY <2>1 DEF ListHolds
  <2>6. \A k \in Own(o)' : KrHolds(o, k, d)'
    BY KrsStand
  <2>7. Creates(o, d)' /\ Deletes(o, d)' /\ Reports(o, d)' /\ Recounts(o, d)'
    BY DEF Creates, Deletes, Reports, Recounts
  <2>8. Changes(o, d)'
    BY <2>0, <2>1 DEF Changes
  <2> QED
    BY <2>4, <2>5, <2>6, <2>7, <2>8
<1> QED
  BY <1>5, <1>6, <1>7, <1>10, <1>11, TurnHolds

LEMMA UnlistObjectiveHolds ==
    ASSUME OkInv, NEW t \in Tasks, UnlistObjective(t)
    PROVE  OkInv'
<1>0. PICK c : c = call[t]
  OBVIOUS
<1> DEFINE o == c.arg.id
<1>1. c.op = "del_objective" /\ c.at = "list" /\ c.op \in OkrOps
  BY <1>0 DEF UnlistObjective, On, OkrOps
<1>2. o \in Objectives /\ (o \notin unsound => Holds(o, c))
  BY <1>0, <1>1, Stands
<1>3. /\ by_cycle' = Unlisted(o, c.got.old.cycle) /\ Goto(t, "kids")
      /\ UNCHANGED <<objective, children, krRows, stirred, edited>> /\ UNCHANGED <<home, named, unsound, moved>>
  BY <1>0 DEF UnlistObjective, Arg, Got, krRows, okrHistory
<1>4. PICK d : d = call'[t]
  OBVIOUS
<1>5. Turns(t, c, d) /\ d.op = c.op /\ d.arg = c.arg /\ d.at = "kids" /\ d.got = c.got
  BY <1>0, <1>1, <1>3, <1>4, OkJumps DEF OkInv
<1>6. ~ At(d, "new_objective", {"main"}) /\ ~ Moving(c) /\ ~ Parting(c) /\ ~ Parting(d) /\ ~ Moving(d)
  BY <1>1, <1>5 DEF At, Moving, Parting
<1>7. OkAsks(t)'
  BY <1>0, <1>1, <1>3, <1>4, <1>5 DEF OkInv, OkBase, OkAsks, Arg, Sets, KrOps, On, OkrOps
<1>9. \A r : r.id # o => (r \in by_cycle' <=> r \in by_cycle)
  BY <1>3, OnceUnlisted
<1>10. OkTables' /\ Apart(o) /\ KrStill(o) /\ ParentKept(o, c) /\ (o \notin unsound => FamilyKept(o, d))
  BY <1>2, <1>3, <1>5, <1>6, <1>9, PlaceWritten
<1>11. o \notin unsound => Holds(o, d)'
  <2> SUFFICES ASSUME Holds(o, c) PROVE Holds(o, d)'
    BY <1>2
  <2> HIDE DEF o
  <2> USE <1>1, <1>3, <1>5, <1>10 DEF Holds, At, Recomputes, KrStill, Exists
  <2>1. Exists(o) /\ c.got.old.cycle = objective[o].cycle
    BY DEF RowHolds, Early, Deletes, KrOps
  <2>2. o \notin moved => \A r \in ListedAs(o) : r.cycle = c.got.old.cycle
    BY <2>1 DEF ListHolds, Entry
  <2>3. o \notin moved => ListedAs(o)' = {}
    BY <2>2, OnceUnlisted
  <2>4. RowHolds(o, d)' /\ RollHolds(o, d)'
    BY <2>1 DEF RowHolds, RollHolds
  <2>5. ListHolds(o, d)'
    BY <2>3 DEF ListHolds
  <2>6. \A k \in Own(o) : KrHolds(o, k, d)
    BY DEF KrHolds, ChainHolds
  <2>7. \A k \in Own(o)' : KrHolds(o, k, d)'
    BY <2>6 DEF KrHolds, ChainHolds, LinksUp, LastSaid
  <2>8. Creates(o, d)' /\ Changes(o, d)' /\ Deletes(o, d)' /\ Reports(o, d)' /\ Recounts(o, d)'
    BY DEF Creates, Changes, Deletes, Reports, Recounts
  <2> QED
    BY <2>4, <2>5, <2>7, <2>8
<1> QED
  BY <1>5, <1>6, <1>7, <1>10, <1>11, TurnHolds

LEMMA ListProgressHolds ==
    ASSUME OkInv, NEW t \in Tasks, ListProgress(t)
    PROVE  OkInv'
<1>0. PICK c : c = call[t]
  OBVIOUS
<1> DEFINE o == c.arg.id
<1>1. c.op \in {"check_in", "del_kr"} /\ c.at = "list" /\ c.op \in OkrOps
  BY <1>0 DEF ListProgress, Recomputing, On, OkrOps
<1>2. o \in Objectives /\ (o \notin unsound => Holds(o, c))
  BY <1>0, <1>1, Stands
<1>3. /\ by_cycle' = Listing(o, c.got.cycle, Judged(c.got.roll), c.got.roll) /\ Finish(t)
      /\ UNCHANGED <<objective, children, krRows, stirred, edited>> /\ UNCHANGED <<home, named, unsound, moved>>
  BY <1>0 DEF ListProgress, Arg, Got, krRows, okrHistory
<1>4. PICK d : d = call'[t]
  OBVIOUS
<1>5. Turns(t, c, d) /\ d = NoCall /\ OkAsks(t)'
  BY <1>0, <1>1, <1>3, <1>4, OkEnds DEF OkInv
<1>6. ~ At(d, "new_objective", {"main"}) /\ ~ Moving(c) /\ ~ Parting(c) /\ ~ Parting(d) /\ ~ Moving(d)
  BY <1>1, <1>5 DEF At, NoCall, Moving, Parting
<1>9. \A r : r.id # o => (r \in by_cycle' <=> r \in by_cycle)
  BY <1>3, OnceListed
<1>10. OkTables' /\ Apart(o) /\ KrStill(o) /\ ParentKept(o, c) /\ (o \notin unsound => FamilyKept(o, d))
  BY <1>2, <1>3, <1>5, <1>6, <1>9, PlaceWritten
<1>11. o \notin unsound => Holds(o, d)'
  <2> SUFFICES ASSUME Holds(o, c) PROVE Holds(o, d)'
    BY <1>2
  <2> HIDE DEF o
  <2> USE <1>1, <1>3, <1>5, <1>10 DEF Holds, At, Recomputes, KrStill, Exists, NoCall
  <2>1. Exists(o) /\ objective[o].status = Judged(c.got.roll) /\ objective[o].roll = c.got.roll
        /\ objective[o].cycle = c.got.cycle
    BY DEF RowHolds, Early, Recounts, KrOps
  <2>2. o \notin moved => \A r \in ListedAs(o) : r.cycle = c.got.cycle
    BY <2>1 DEF ListHolds
  <2>3. o \notin moved => ListedAs(o)' = {Entry(o)}
    BY <2>1, <2>2, OnceListed DEF Entry
  <2>4. RowHolds(o, d)' /\ RollHolds(o, d)'
    BY DEF RowHolds, RollHolds, Early
  <2>5. ListHolds(o, d)'
    BY <2>1, <2>3 DEF ListHolds, Entry
  <2>6. \A k \in Own(o) : KrHolds(o, k, d)
    BY DEF KrHolds, ChainHolds
  <2>7. \A k \in Own(o)' : KrHolds(o, k, d)'
    BY <2>6 DEF KrHolds, ChainHolds, LinksUp, LastSaid
  <2>8. Creates(o, d)' /\ Changes(o, d)' /\ Deletes(o, d)' /\ Reports(o, d)' /\ Recounts(o, d)'
    BY DEF Creates, Changes, Deletes, Reports, Recounts
  <2> QED
    BY <2>4, <2>5, <2>7, <2>8
<1> QED
  BY <1>5, <1>6, <1>10, <1>11, TurnHolds

-----------------------------------------------------------------------------
(* A row of the children is written, or removed. *)

LEMMA ChildrenWritten ==
    ASSUME OkInv, NEW t \in Tasks, NEW c, NEW d, Turns(t, c, d), NEW o \in Objectives, o = c.arg.id,
           UNCHANGED <<objective, by_cycle, krRows, stirred, edited, moved>>,
           \A x, y : x # o /\ y # o => (Linked(x, y)' <=> Linked(x, y)), ~ Linked(o, o)'
    PROVE  /\ OkTables' /\ Apart(o) /\ ParentKept(o, c)
           /\ Holds(o, d) => Holds(o, d)'
           /\ \A x, y : Family(x, y)' <=> Family(x, y)
<1>1. UNCHANGED <<objective, by_cycle, key_result, kr_lookup, check_ins, home, named, stirred, edited, moved>>
  BY DEF krRows, Turns
<1>2. \A q \in Objectives : ~ Linked(q, q)'
  BY DEF OkInv, OkBase, OkTables
<1>3. OkTables'
  BY <1>1, <1>2 DEF OkInv, OkBase, OkTables, Parts, Own
<1>4. Apart(o)
  BY <1>1 DEF Apart, ListedAs
<1>5. Holds(o, d) => Holds(o, d)'
  BY <1>1 DEF Turns, Holds, RowHolds, RollHolds, ListHolds, KrHolds, ChainHolds, LinksUp, LastSaid, Creates, Changes,
              Deletes, Reports, Recounts, Exists, Entry, ListedAs, Own, KrsOf, Rolled
<1>6. \A x, y : Family(x, y)' <=> Family(x, y)
  BY <1>1 DEF Family, Exists
<1> QED
  BY <1>1, <1>3, <1>4, <1>5, <1>6 DEF ParentKept

LEMMA Adopts ==
    ASSUME NEW o, NEW p, NEW roll, children' = Adopted(p, o, roll)
    PROVE  \A x, y : Linked(x, y)' <=> Linked(x, y) \/ (x = o /\ y = p)
<1>1. ASSUME NEW x, NEW y, x # o \/ y # p
      PROVE  Linked(x, y)' <=> Linked(x, y)
  BY <1>1 DEF Linked, Adopted
<1>2. [parent |-> p, child |-> o, roll |-> roll] \in children'
  BY DEF Adopted
<1>3. Linked(o, p)'
  BY <1>2 DEF Linked
<1> QED
  BY <1>1, <1>3

LEMMA Disowns ==
    ASSUME NEW o, NEW p, children' = {r \in children : ~(r.parent = p /\ r.child = o)}
    PROVE  \A x, y : Linked(x, y)' <=> Linked(x, y) /\ ~ (x = o /\ y = p)
  BY DEF Linked

\* Nobody works on a sound parent that a call is about to name.
LEMMA ParentStill ==
    ASSUME OkInv, NEW t \in Tasks, call[t].op \in OkrOps, "parent" \in DOMAIN Arg(t), NEW p, p = Arg(t).parent,
           p \in Objectives \ unsound, p # Arg(t).id
    PROVE  Exists(p) /\ Stages(p) = {NoCall}
<1>1. Exists(p)
  BY DEF OkInv, ParentsHold
<1>2. \A u \in Tasks : ~ Works(u, p)
  BY DEF OkInv, OkBase, Sole, Works, Named
<1>3. Workers(p) = {}
  BY <1>2 DEF Workers
<1> QED
  BY <1>1, <1>3 DEF Stages

LEMMA AdoptsHold ==
    ASSUME OkInv, NEW t \in Tasks, NEW c, NEW d, Turns(t, c, d), NEW o \in Objectives \ unsound, o = c.arg.id, Holds(o, c),
           \A x, y : Linked(x, y)' <=> Linked(x, y) \/ (x = o /\ y = c.arg.parent),
           \A x, y : Family(x, y)' <=> Family(x, y),
           At(c, "new_objective", {"child"}) \/ At(c, "set_objective", {"adopt"}),
           "parent" \in DOMAIN c.arg, c.arg.parent # o, ~ Moving(d), ~ Parting(d)
    PROVE  FamilyKept(o, d)
<1>1. Stages(o) = {c}
  BY OwnStage, SoleStays DEF OkInv
<1> SUFFICES ASSUME NEW q \in Objectives \ unsound, q # o, NEW e \in Stages(q)
             PROVE  Binds(o, q, d, e)' /\ Binds(q, o, e, d)'
  BY DEF FamilyKept
<1>2. Binds(o, q, c, e) /\ Binds(q, o, e, c)
  BY <1>1 DEF OkInv, FamiliesHold
<1>3. Moving(c) /\ ~ Parting(c)
  BY DEF Moving, Parting, At
<1>4. Exists(o) /\ objective[o].parent = c.arg.parent
  BY DEF Holds, RowHolds, Creates, Changes, At, Early, KrOps
<1>5. Linked(o, q)' <=> q = c.arg.parent
  BY <1>2, <1>3 DEF Binds
<1>6. Linked(q, o)' <=> Linked(q, o)
  OBVIOUS
<1>7. q = c.arg.parent => Exists(q) /\ e = NoCall
  BY ParentStill DEF Turns, Arg
<1>8. q = c.arg.parent => ~ Parting(e)
  BY <1>7 DEF Parting, At, NoCall
<1> QED
  BY <1>2, <1>3, <1>4, <1>5, <1>6, <1>7, <1>8 DEF Binds, Family

LEMMA AdoptObjectiveHolds ==
    ASSUME OkInv, NEW t \in Tasks, AdoptObjective(t)
    PROVE  OkInv'
<1>0. PICK c : c = call[t]
  OBVIOUS
<1> DEFINE o == c.arg.id
<1>1. c.op = "new_objective" /\ c.at = "child" /\ c.op \in OkrOps
  BY <1>0 DEF AdoptObjective, On, OkrOps
<1>2. o \in Objectives /\ (o \notin unsound => Holds(o, c))
  BY <1>0, <1>1, Stands
<1>3. /\ children' = Adopted(c.arg.parent, o, Unrolled) /\ Finish(t)
      /\ UNCHANGED <<objective, by_cycle, krRows, stirred, edited, moved>> /\ UNCHANGED <<home, named, unsound>>
  BY <1>0 DEF AdoptObjective, Arg, Got, krRows, okrHistory
<1>4. PICK d : d = call'[t]
  OBVIOUS
<1>5. Turns(t, c, d) /\ d = NoCall /\ OkAsks(t)'
  BY <1>0, <1>1, <1>3, <1>4, OkEnds DEF OkInv
<1>6. ~ At(d, "new_objective", {"main"}) /\ ~ Parting(d) /\ ~ Moving(d)
  BY <1>5 DEF At, NoCall, Moving, Parting
<1>7. "parent" \in DOMAIN c.arg /\ c.arg.parent # o
  BY <1>0, <1>1 DEF OkInv, OkBase, OkAsks, Arg
<1>8. \A x, y : Linked(x, y)' <=> Linked(x, y) \/ (x = o /\ y = c.arg.parent)
  BY <1>3, Adopts
<1>9. ~ Linked(o, o)'
  BY <1>2, <1>7, <1>8 DEF OkInv, OkBase, OkTables
<1>10. /\ OkTables' /\ Apart(o) /\ ParentKept(o, c)
       /\ Holds(o, d) => Holds(o, d)'
       /\ \A x, y : Family(x, y)' <=> Family(x, y)
  BY <1>2, <1>3, <1>5, <1>8, <1>9, ChildrenWritten
<1>11. o \notin unsound => Holds(o, d)
  <2> SUFFICES ASSUME Holds(o, c) PROVE Holds(o, d)
    BY <1>2
  <2> HIDE DEF o
  <2> USE <1>1, <1>5 DEF Holds, At, Recomputes, NoCall
  <2>1. RowHolds(o, d) /\ RollHolds(o, d) /\ ListHolds(o, d)
    BY DEF RowHolds, RollHolds, ListHolds, Early
  <2>2. \A k \in Own(o) : KrHolds(o, k, d)
    BY DEF KrHolds, ChainHolds
  <2>3. Creates(o, d) /\ Changes(o, d) /\ Deletes(o, d) /\ Reports(o, d) /\ Recounts(o, d)
    BY DEF Creates, Changes, Deletes, Reports, Recounts
  <2> QED
    BY <2>1, <2>2, <2>3
<1>12. o \notin unsound => FamilyKept(o, d)
  BY <1>1, <1>2, <1>5, <1>6, <1>7, <1>8, <1>10, AdoptsHold DEF At
<1> QED
  BY <1>5, <1>6, <1>10, <1>11, <1>12, TurnHolds

LEMMA JoinParentHolds ==
    ASSUME OkInv, NEW t \in Tasks, JoinParent(t)
    PROVE  OkInv'
<1>0. PICK c : c = call[t]
  OBVIOUS
<1> DEFINE o == c.arg.id
<1>1. c.op = "set_objective" /\ c.at = "adopt" /\ c.op \in OkrOps
  BY <1>0 DEF JoinParent, On, OkrOps
<1>2. o \in Objectives /\ (o \notin unsound => Holds(o, c))
  BY <1>0, <1>1, Stands
<1>3. /\ children' = Adopted(c.arg.parent, o, c.got.roll) /\ Goto(t, "list")
      /\ UNCHANGED <<objective, by_cycle, krRows, stirred, edited, moved>> /\ UNCHANGED <<home, named, unsound>>
  BY <1>0 DEF JoinParent, Arg, Got, krRows, okrHistory
<1>4. PICK d : d = call'[t]
  OBVIOUS
<1>5. Turns(t, c, d) /\ d.op = c.op /\ d.arg = c.arg /\ d.at = "list" /\ d.got = c.got
  BY <1>0, <1>1, <1>3, <1>4, OkJumps DEF OkInv
<1>a. OkAsks(t)'
  BY <1>0, <1>1, <1>3, <1>4, <1>5 DEF OkInv, OkBase, OkAsks, Arg, Sets, KrOps, On, OkrOps
<1>6. ~ At(d, "new_objective", {"main"}) /\ ~ Parting(d) /\ ~ Moving(d)
  BY <1>1, <1>5 DEF At, Moving, Parting
<1>7. "parent" \in DOMAIN c.arg /\ c.arg.parent # o /\ DOMAIN c.arg = {"id", "parent"}
  BY <1>0, <1>1 DEF OkInv, OkBase, OkAsks, Arg, Sets
<1>8. \A x, y : Linked(x, y)' <=> Linked(x, y) \/ (x = o /\ y = c.arg.parent)
  BY <1>3, Adopts
<1>9. ~ Linked(o, o)'
  BY <1>2, <1>7, <1>8 DEF OkInv, OkBase, OkTables
<1>10. /\ OkTables' /\ Apart(o) /\ ParentKept(o, c)
       /\ Holds(o, d) => Holds(o, d)'
       /\ \A x, y : Family(x, y)' <=> Family(x, y)
  BY <1>2, <1>3, <1>5, <1>8, <1>9, ChildrenWritten
<1>11. o \notin unsound => Holds(o, d)
  <2> SUFFICES ASSUME Holds(o, c) PROVE Holds(o, d)
    BY <1>2
  <2> HIDE DEF o
  <2> USE <1>1, <1>5 DEF Holds, At, Recomputes
  <2>0. Exists(o)
    BY DEF RowHolds, Early, KrOps
  <2>1. RowHolds(o, d) /\ RollHolds(o, d)
    BY <2>0 DEF RowHolds, RollHolds
  <2>2. ListHolds(o, d)
    BY <2>0 DEF ListHolds, Entry
  <2>3. \A k \in Own(o) : KrHolds(o, k, d)
    BY DEF KrHolds, ChainHolds
  <2>4. Creates(o, d) /\ Deletes(o, d) /\ Reports(o, d) /\ Recounts(o, d)
    BY DEF Creates, Deletes, Reports, Recounts
  <2>5. Changes(o, d)
    BY <1>7 DEF Changes
  <2> QED
    BY <2>1, <2>2, <2>3, <2>4, <2>5
<1>12. o \notin unsound => FamilyKept(o, d)
  BY <1>1, <1>2, <1>5, <1>6, <1>7, <1>8, <1>10, AdoptsHold DEF At
<1> QED
  BY <1>5, <1>6, <1>a, <1>10, <1>11, <1>12, TurnHolds

LEMMA LeaveParentHolds ==
    ASSUME OkInv, NEW t \in Tasks, LeaveParent(t)
    PROVE  OkInv'
<1>0. PICK c : c = call[t]
  OBVIOUS
<1> DEFINE o == c.arg.id
<1>1. c.op = "set_objective" /\ c.at = "leave" /\ c.op \in OkrOps
  BY <1>0 DEF LeaveParent, On, OkrOps
<1>2. o \in Objectives /\ (o \notin unsound => Holds(o, c))
  BY <1>0, <1>1, Stands
<1>3. /\ children' = {r \in children : ~(r.parent = c.got.parent /\ r.child = o)} /\ Goto(t, "parent")
      /\ UNCHANGED <<objective, by_cycle, krRows, stirred, edited, moved>> /\ UNCHANGED <<home, named, unsound>>
  BY <1>0 DEF LeaveParent, Arg, Got, krRows, okrHistory
<1>4. PICK d : d = call'[t]
  OBVIOUS
<1>5. Turns(t, c, d) /\ d.op = c.op /\ d.arg = c.arg /\ d.at = "parent" /\ d.got = c.got
  BY <1>0, <1>1, <1>3, <1>4, OkJumps DEF OkInv
<1>6. OkAsks(t)'
  BY <1>0, <1>1, <1>3, <1>4, <1>5 DEF OkInv, OkBase, OkAsks, Arg, Sets, KrOps, On, OkrOps
<1>7. ~ At(d, "new_objective", {"main"}) /\ ~ Moving(c) /\ ~ Parting(c) /\ ~ Parting(d) /\ Moving(d)
  BY <1>1, <1>5 DEF At, Moving, Parting
<1>8. \A x, y : Linked(x, y)' <=> Linked(x, y) /\ ~ (x = o /\ y = c.got.parent)
  BY <1>3, Disowns
<1>9. ~ Linked(o, o)'
  BY <1>2, <1>8 DEF OkInv, OkBase, OkTables
<1>10. /\ OkTables' /\ Apart(o) /\ ParentKept(o, c)
       /\ Holds(o, d) => Holds(o, d)'
       /\ \A x, y : Family(x, y)' <=> Family(x, y)
  BY <1>2, <1>3, <1>5, <1>8, <1>9, ChildrenWritten
<1>11. o \notin unsound => Holds(o, d)
  <2> SUFFICES ASSUME Holds(o, c) PROVE Holds(o, d)
    BY <1>2
  <2> HIDE DEF o
  <2> USE <1>1, <1>5 DEF Holds, At, Recomputes
  <2>0. Exists(o)
    BY DEF RowHolds, Early, KrOps
  <2>1. RowHolds(o, d) /\ RollHolds(o, d)
    BY <2>0 DEF RowHolds, RollHolds
  <2>2. ListHolds(o, d)
    BY <2>0 DEF ListHolds, Entry
  <2>3. \A k \in Own(o) : KrHolds(o, k, d)
    BY DEF KrHolds, ChainHolds
  <2>4. Creates(o, d) /\ Changes(o, d) /\ Deletes(o, d) /\ Reports(o, d) /\ Recounts(o, d)
    BY DEF Creates, Changes, Deletes, Reports, Recounts
  <2> QED
    BY <2>1, <2>2, <2>3, <2>4
<1>12. ASSUME o \notin unsound
       PROVE  FamilyKept(o, d)
  <2>1. Stages(o) = {c}
    BY <1>2, <1>5, <1>12, OwnStage, SoleStays DEF OkInv
  <2> SUFFICES ASSUME NEW q \in Objectives \ unsound, q # o, NEW e \in Stages(q)
               PROVE  Binds(o, q, d, e)' /\ Binds(q, o, e, d)'
    BY DEF FamilyKept
  <2>2. Binds(o, q, c, e) /\ Binds(q, o, e, c)
    BY <1>2, <1>12, <2>1 DEF OkInv, FamiliesHold
  <2>3. c.got.parent = objective[o].parent
    BY <1>1, <1>2, <1>12 DEF Holds, Changes
  <2>4. ~ Linked(o, q)'
    BY <1>8, <2>2, <2>3 DEF Binds, Family
  <2> QED
    BY <1>7, <1>8, <1>10, <2>2, <2>4 DEF Binds
<1> QED
  BY <1>5, <1>6, <1>7, <1>10, <1>11, <1>12, TurnHolds


LEMMA OrphanHolds ==
    ASSUME OkInv, NEW t \in Tasks, Orphan(t)
    PROVE  OkInv'
<1>0. PICK c : c = call[t]
  OBVIOUS
<1> DEFINE o == c.arg.id
<1>1. c.op = "del_objective" /\ c.at = "kids" /\ c.op \in OkrOps
  BY <1>0 DEF Orphan, On, OkrOps
<1>2. o \in Objectives /\ (o \notin unsound => Holds(o, c))
  BY <1>0, <1>1, Stands
<1>3. /\ children' = {r \in children : r.parent # o} /\ Goto(t, IF c.got.old.parent = "none" THEN "main" ELSE "leave")
      /\ UNCHANGED <<objective, by_cycle, krRows, stirred, edited, moved>> /\ UNCHANGED <<home, named, unsound>>
  BY <1>0 DEF Orphan, Arg, Got, krRows, okrHistory
<1>4. PICK d : d = call'[t]
  OBVIOUS
<1>5. Turns(t, c, d) /\ d.op = c.op /\ d.arg = c.arg
      /\ d.at = (IF c.got.old.parent = "none" THEN "main" ELSE "leave") /\ d.got = c.got
  BY <1>0, <1>1, <1>3, <1>4, OkJumps DEF OkInv
<1>6. OkAsks(t)'
  BY <1>0, <1>1, <1>3, <1>4, <1>5 DEF OkInv, OkBase, OkAsks, Arg, Sets, KrOps, On, OkrOps
<1>7. ~ At(d, "new_objective", {"main"}) /\ ~ Moving(c) /\ ~ Parting(c)
      /\ Parting(d) /\ (Moving(d) => c.got.old.parent = "none")
  BY <1>1, <1>5 DEF At, Moving, Parting
<1>8. \A x, y : Linked(x, y)' <=> Linked(x, y) /\ y # o
  BY <1>3 DEF Linked
<1>9. ~ Linked(o, o)'
  BY <1>2, <1>8 DEF OkInv, OkBase, OkTables
<1>10. /\ OkTables' /\ Apart(o) /\ ParentKept(o, c)
       /\ Holds(o, d) => Holds(o, d)'
       /\ \A x, y : Family(x, y)' <=> Family(x, y)
  BY <1>2, <1>3, <1>5, <1>8, <1>9, ChildrenWritten
<1>11. o \notin unsound => Holds(o, d)
  <2> SUFFICES ASSUME Holds(o, c) PROVE Holds(o, d)
    BY <1>2
  <2> HIDE DEF o
  <2> USE <1>1, <1>5 DEF Holds, At, Recomputes
  <2>0. Exists(o)
    BY DEF RowHolds, Early, KrOps
  <2>1. RowHolds(o, d) /\ RollHolds(o, d)
    BY <2>0 DEF RowHolds, RollHolds
  <2>2. ListHolds(o, d)
    BY <2>0 DEF ListHolds, Entry
  <2>3. \A k \in Own(o) : KrHolds(o, k, d)
    BY DEF KrHolds, ChainHolds
  <2>4. Creates(o, d) /\ Changes(o, d) /\ Deletes(o, d) /\ Reports(o, d) /\ Recounts(o, d)
    BY DEF Creates, Changes, Deletes, Reports, Recounts
  <2> QED
    BY <2>1, <2>2, <2>3, <2>4
<1>12. ASSUME o \notin unsound
       PROVE  FamilyKept(o, d)
  <2>1. Stages(o) = {c}
    BY <1>2, <1>5, <1>12, OwnStage, SoleStays DEF OkInv
  <2> SUFFICES ASSUME NEW q \in Objectives \ unsound, q # o, NEW e \in Stages(q)
               PROVE  Binds(o, q, d, e)' /\ Binds(q, o, e, d)'
    BY DEF FamilyKept
  <2>2. Binds(o, q, c, e) /\ Binds(q, o, e, c)
    BY <1>2, <1>12, <2>1 DEF OkInv, FamiliesHold
  <2>3. c.got.old.parent = objective[o].parent
    BY <1>1, <1>2, <1>12 DEF Holds, Deletes
  <2>4. Moving(d) => ~ Family(o, q)
    BY <1>7, <2>3 DEF Family
  <2> QED
    BY <1>7, <1>8, <1>10, <2>2, <2>4 DEF Binds
<1> QED
  BY <1>5, <1>6, <1>7, <1>10, <1>11, <1>12, TurnHolds


LEMMA LeaveParentForGoodHolds ==
    ASSUME OkInv, NEW t \in Tasks, LeaveParentForGood(t)
    PROVE  OkInv'
<1>0. PICK c : c = call[t]
  OBVIOUS
<1> DEFINE o == c.arg.id
<1>1. c.op = "del_objective" /\ c.at = "leave" /\ c.op \in OkrOps
  BY <1>0 DEF LeaveParentForGood, On, OkrOps
<1>2. o \in Objectives /\ (o \notin unsound => Holds(o, c))
  BY <1>0, <1>1, Stands
<1>3. /\ children' = {r \in children : ~(r.parent = c.got.old.parent /\ r.child = o)} /\ Goto(t, "main")
      /\ UNCHANGED <<objective, by_cycle, krRows, stirred, edited, moved>> /\ UNCHANGED <<home, named, unsound>>
  BY <1>0 DEF LeaveParentForGood, Arg, Got, krRows, okrHistory
<1>4. PICK d : d = call'[t]
  OBVIOUS
<1>5. Turns(t, c, d) /\ d.op = c.op /\ d.arg = c.arg /\ d.at = "main" /\ d.got = c.got
  BY <1>0, <1>1, <1>3, <1>4, OkJumps DEF OkInv
<1>6. OkAsks(t)'
  BY <1>0, <1>1, <1>3, <1>4, <1>5 DEF OkInv, OkBase, OkAsks, Arg, Sets, KrOps, On, OkrOps
<1>7. ~ At(d, "new_objective", {"main"}) /\ ~ Moving(c) /\ Parting(c) /\ Parting(d) /\ Moving(d)
  BY <1>1, <1>5 DEF At, Moving, Parting
<1>8. \A x, y : Linked(x, y)' <=> Linked(x, y) /\ ~ (x = o /\ y = c.got.old.parent)
  BY <1>3, Disowns
<1>9. ~ Linked(o, o)'
  BY <1>2, <1>8 DEF OkInv, OkBase, OkTables
<1>10. /\ OkTables' /\ Apart(o) /\ ParentKept(o, c)
       /\ Holds(o, d) => Holds(o, d)'
       /\ \A x, y : Family(x, y)' <=> Family(x, y)
  BY <1>2, <1>3, <1>5, <1>8, <1>9, ChildrenWritten
<1>11. o \notin unsound => Holds(o, d)
  <2> SUFFICES ASSUME Holds(o, c) PROVE Holds(o, d)
    BY <1>2
  <2> HIDE DEF o
  <2> USE <1>1, <1>5 DEF Holds, At, Recomputes
  <2>0. Exists(o)
    BY DEF RowHolds, Early, KrOps
  <2>1. RowHolds(o, d) /\ RollHolds(o, d)
    BY <2>0 DEF RowHolds, RollHolds
  <2>2. ListHolds(o, d)
    BY <2>0 DEF ListHolds, Entry
  <2>3. \A k \in Own(o) : KrHolds(o, k, d)
    BY DEF KrHolds, ChainHolds
  <2>4. Creates(o, d) /\ Changes(o, d) /\ Deletes(o, d) /\ Reports(o, d) /\ Recounts(o, d)
    BY DEF Creates, Changes, Deletes, Reports, Recounts
  <2> QED
    BY <2>1, <2>2, <2>3, <2>4
<1>12. ASSUME o \notin unsound
       PROVE  FamilyKept(o, d)
  <2>1. Stages(o) = {c}
    BY <1>2, <1>5, <1>12, OwnStage, SoleStays DEF OkInv
  <2> SUFFICES ASSUME NEW q \in Objectives \ unsound, q # o, NEW e \in Stages(q)
               PROVE  Binds(o, q, d, e)' /\ Binds(q, o, e, d)'
    BY DEF FamilyKept
  <2>2. Binds(o, q, c, e) /\ Binds(q, o, e, c)
    BY <1>2, <1>12, <2>1 DEF OkInv, FamiliesHold
  <2>3. c.got.old.parent = objective[o].parent
    BY <1>1, <1>2, <1>12 DEF Holds, Deletes
  <2>4. ~ Linked(o, q)'
    BY <1>8, <2>2, <2>3 DEF Binds, Family
  <2> QED
    BY <1>7, <1>8, <1>10, <2>2, <2>4 DEF Binds
<1> QED
  BY <1>5, <1>6, <1>7, <1>10, <1>11, <1>12, TurnHolds

-----------------------------------------------------------------------------
(* Key results, their lookup and their check-ins. *)

\* Only key results of an objective change.
KrsApart(o) ==
    \A j \in KeyResults : home[j] # o =>
        /\ key_result'[j] = key_result[j] /\ check_ins'[j] = check_ins[j]
        /\ j \in kr_lookup' <=> j \in kr_lookup
        /\ j \in edited' <=> j \in edited

KrTables ==
    /\ key_result \in [KeyResults -> [span : Spans, value : Int, conf : Int, there : BOOLEAN]]
    /\ kr_lookup \subseteq KeyResults
    /\ check_ins \in [KeyResults -> Seq([prev : Int, new : Int])]

LEMMA KrWritten ==
    ASSUME OkInv, NEW t \in Tasks, NEW c, NEW d, Turns(t, c, d), NEW o \in Objectives, o = c.arg.id,
           KrsApart(o), KrTables', stirred' \in {stirred, stirred \cup {o}},
           UNCHANGED <<objective, by_cycle, children, moved>>,
           Moving(d) <=> Moving(c), Parting(d) <=> Parting(c)
    PROVE  /\ OkTables' /\ Apart(o) /\ ParentKept(o, c) /\ Own(o)' = Own(o)
           /\ ListedAs(o)' = ListedAs(o)
           /\ o \notin unsound => FamilyKept(o, d)
<1>1. UNCHANGED <<objective, by_cycle, children, home, named, moved>>
  BY DEF Turns
<1>2. \A q \in Objectives : (Parts(objective[q]))' /\ objective'[q].parent # q /\ ~ Linked(q, q)'
  BY <1>1 DEF OkInv, OkBase, OkTables, Parts, Linked
<1>3. \A k \in Own("none") : home[k] # o
  BY DEF Own
<1>4. ASSUME NEW k \in Own("none")'
      PROVE  key_result'[k] = NoKeyResult /\ check_ins'[k] = <<>> /\ k \notin kr_lookup'
  <2>1. k \in Own("none") /\ k \in KeyResults
    BY <1>1 DEF Own
  <2> QED
    BY <1>3, <2>1 DEF OkInv, OkBase, OkTables, KrsApart
<1>5. OkTables'
  BY <1>1, <1>2, <1>4 DEF OkInv, OkBase, OkTables, KrTables
<1>6. Apart(o)
  BY <1>1 DEF Apart, KrsApart, ListedAs, Linked
<1>7. o \notin unsound => FamilyKept(o, d)
  BY <1>1, <1>6, FamilyStill DEF Exists
<1> QED
  BY <1>1, <1>5, <1>6, <1>7 DEF ParentKept, Own, ListedAs

\* The key results of the objective a call does not write.
LEMMA OtherKrs ==
    ASSUME NEW o, NEW c, NEW d, NEW k, k = c.arg.kr, NEW j, j # k, KrHolds(o, j, c),
           Exists(o)' <=> Exists(o),
           key_result'[j] = key_result[j], check_ins'[j] = check_ins[j],
           j \in kr_lookup' <=> j \in kr_lookup, j \in edited' <=> j \in edited,
           c.op \in KrOps, d = NoCall \/ (d.op = c.op /\ d.arg = c.arg)
    PROVE  KrHolds(o, j, d)'
<1>1. c.op # "del_objective" /\ d.op # "del_objective"
  BY DEF KrOps, NoCall
<1>2. d.op = c.op => d.arg = c.arg
  BY DEF KrOps, NoCall
<1>3. d.op \in {c.op, "none"}
  BY DEF NoCall
<1>4. KrHolds(o, j, d)
  BY <1>1, <1>2, <1>3 DEF KrHolds, ChainHolds, At
<1> QED
  BY <1>4 DEF KrHolds, ChainHolds, LinksUp, LastSaid

\* What a call of a key result names.
LEMMA KrAsked ==
    ASSUME OkInv, NEW t \in Tasks, NEW c, c = call[t], c.op \in KrOps
    PROVE  /\ c.op \in OkrOps /\ c.arg.kr \in KeyResults /\ home[c.arg.kr] = c.arg.id
           /\ c.arg.kr \in Own(c.arg.id) /\ c.arg.id \in Objectives
           /\ KrTables
           /\ c.op \in {"set_kr", "check_in"} => c.arg.value \in Int
           /\ c.op = "check_in" => c.arg.conf \in Int
  BY DEF OkInv, OkBase, OkAsks, OkTables, KrTables, Arg, Own, KrOps, OkrOps

LEMMA InsertKrHolds ==
    ASSUME OkInv, NEW t \in Tasks, InsertKr(t)
    PROVE  OkInv'
<1>0. PICK c : c = call[t]
  OBVIOUS
<1> DEFINE o == c.arg.id
           k == c.arg.kr
<1>1. c.op = "new_kr" /\ c.at = "kr" /\ c.op \in KrOps
  BY <1>0 DEF InsertKr, On, KrOps
<1>a. PICK new : new = NewRow(k)
  OBVIOUS
<1>b. /\ c.op \in OkrOps /\ k \in KeyResults /\ home[k] = o /\ k \in Own(o) /\ o \in Objectives
      /\ KrTables
  BY <1>0, <1>1, KrAsked
<1>2. o \notin unsound => Holds(o, c)
  BY <1>0, <1>b, Stands
<1>3. /\ Goto(t, "scan") /\ key_result' = [key_result EXCEPT ![k] = new] /\ stirred' = stirred \cup {o}
      /\ UNCHANGED <<objective, by_cycle, children, kr_lookup, check_ins, home, named, edited, moved, unsound>>
  BY <1>0, <1>a DEF InsertKr, WriteKr, Arg
<1>4. PICK d : d = call'[t]
  OBVIOUS
<1>5. Turns(t, c, d) /\ d.op = c.op /\ d.arg = c.arg /\ d.at = "scan" /\ d.got = c.got
  BY <1>0, <1>b, <1>3, <1>4, OkJumps DEF OkInv
<1>6. OkAsks(t)'
  BY <1>0, <1>1, <1>3, <1>4, <1>5 DEF OkInv, OkBase, OkAsks, Arg, Sets, KrOps, On, OkrOps
<1>7. ~ At(d, "new_objective", {"main"}) /\ ~ Moving(c) /\ ~ Moving(d) /\ ~ Parting(c) /\ ~ Parting(d)
  BY <1>1, <1>5 DEF At, Moving, Parting
<1>8. /\ new \in [span : Spans, value : Int, conf : Int, there : BOOLEAN]
      /\ new.there /\ new.value = new.span.start
  BY <1>a, <1>b DEF NewRow, Spans
<1>9. KrTables' /\ KrsApart(o) /\ key_result'[k] = new /\ \A j \in KeyResults \ {k} : key_result'[j] = key_result[j]
  BY <1>b, <1>3, <1>8 DEF KrTables, KrsApart
<1>10. /\ OkTables' /\ Apart(o) /\ ParentKept(o, c) /\ Own(o)' = Own(o)
       /\ ListedAs(o)' = ListedAs(o)
       /\ o \notin unsound => FamilyKept(o, d)
  BY <1>b, <1>3, <1>5, <1>7, <1>9, KrWritten
<1>11. o \notin unsound => Holds(o, d)'
  <2> SUFFICES ASSUME Holds(o, c) PROVE Holds(o, d)'
    BY <1>2
  <2>0. k = c.arg.kr
    OBVIOUS
  <2> HIDE DEF o, k
  <2> USE <1>1, <1>b, <1>3, <1>5, <1>8, <1>9, <1>10 DEF Holds, At, Recomputes, Exists
  <2>1. RowHolds(o, d)'
    BY DEF RowHolds, Early, KrOps
  <2>2. RollHolds(o, d)'
    BY DEF RollHolds
  <2>3. ListHolds(o, d)'
    BY DEF ListHolds, Entry
  <2>4. \A j \in Own(o) : j # k => KrHolds(o, j, d)'
    BY <2>0, OtherKrs DEF Own
  <2>5. Exists(o) /\ check_ins[k] = <<>>
    BY <2>0 DEF RowHolds, Early, KrOps, Reports
  <2>6. KrHolds(o, k, d)'
    BY <2>5 DEF KrHolds, ChainHolds, LinksUp, LastSaid
  <2>7. Creates(o, d)' /\ Changes(o, d)' /\ Deletes(o, d)' /\ Recounts(o, d)'
    BY DEF Creates, Changes, Deletes, Recounts
  <2>8. Reports(o, d)'
    BY <2>0 DEF Reports
  <2> QED
    BY <2>1, <2>2, <2>3, <2>4, <2>6, <2>7, <2>8
<1> QED
  BY <1>5, <1>6, <1>7, <1>10, <1>11, TurnHolds

LEMMA UpdateKrHolds ==
    ASSUME OkInv, NEW t \in Tasks, UpdateKr(t)
    PROVE  OkInv'
<1>0. PICK c : c = call[t]
  OBVIOUS
<1> DEFINE o == c.arg.id
           k == c.arg.kr
<1>1. c.op = "set_kr" /\ c.at = "kr" /\ c.op \in KrOps
  BY <1>0 DEF UpdateKr, On, KrOps
<1>a. PICK new : new = [key_result[k] EXCEPT !.value = c.arg.value, !.there = TRUE]
  OBVIOUS
<1>b. /\ c.op \in OkrOps /\ k \in KeyResults /\ home[k] = o /\ k \in Own(o) /\ o \in Objectives
      /\ KrTables /\ (c.op \in {"set_kr", "check_in"} => c.arg.value \in Int)
      /\ (c.op = "check_in" => c.arg.conf \in Int)
  BY <1>0, <1>1, KrAsked
<1>2. o \notin unsound => Holds(o, c)
  BY <1>0, <1>b, Stands
<1>3. /\ Finish(t) /\ key_result' = [key_result EXCEPT ![k] = new]
      /\ stirred' = stirred \cup {o} /\ edited' = edited \cup {k}
      /\ UNCHANGED <<objective, by_cycle, children, kr_lookup, check_ins, home, named, moved, unsound>>
  BY <1>0, <1>a, <1>b DEF UpdateKr, WriteKr, Arg, Got, okrHistory
<1>4. PICK d : d = call'[t]
  OBVIOUS
<1>5. Turns(t, c, d) /\ d = NoCall /\ OkAsks(t)'
  BY <1>0, <1>b, <1>3, <1>4, OkEnds DEF OkInv
<1>7. ~ At(d, "new_objective", {"main"}) /\ ~ Moving(c) /\ ~ Moving(d) /\ ~ Parting(c) /\ ~ Parting(d)
  BY <1>1, <1>5 DEF At, Moving, Parting, NoCall
<1>8. new \in [span : Spans, value : Int, conf : Int, there : BOOLEAN] /\ new.there
  BY <1>1, <1>a, <1>b DEF KrTables
<1>9. KrTables' /\ KrsApart(o)
      /\ key_result'[k] = new /\ \A j \in KeyResults \ {k} : key_result'[j] = key_result[j]
  BY <1>b, <1>3, <1>8 DEF KrTables, KrsApart
<1>10. /\ OkTables' /\ Apart(o) /\ ParentKept(o, c) /\ Own(o)' = Own(o)
       /\ ListedAs(o)' = ListedAs(o)
       /\ o \notin unsound => FamilyKept(o, d)
  BY <1>b, <1>3, <1>5, <1>7, <1>9, KrWritten
<1>11. o \notin unsound => Holds(o, d)'
  <2> SUFFICES ASSUME Holds(o, c) PROVE Holds(o, d)'
    BY <1>2
  <2>0. k = c.arg.kr
    OBVIOUS
  <2> HIDE DEF o, k
  <2> USE <1>1, <1>b, <1>3, <1>5, <1>8, <1>9, <1>10 DEF Holds, At, Recomputes, Exists, NoCall
  <2>1. RowHolds(o, d)'
    BY DEF RowHolds, Early, KrOps
  <2>2. RollHolds(o, d)'
    BY DEF RollHolds
  <2>3. ListHolds(o, d)'
    BY DEF ListHolds, Entry
  <2>4. \A j \in Own(o) : j # k => KrHolds(o, j, d)'
    BY <2>0, OtherKrs DEF Own
  <2>5. Exists(o)
    BY DEF RowHolds, Early, KrOps
  <2>6. KrHolds(o, k, d)'
    BY <2>5 DEF KrHolds, ChainHolds
  <2>7. Creates(o, d)' /\ Changes(o, d)' /\ Deletes(o, d)' /\ Recounts(o, d)'
    BY DEF Creates, Changes, Deletes, Recounts
  <2>8. Reports(o, d)'
    BY <2>0 DEF Reports
  <2> QED
    BY <2>1, <2>2, <2>3, <2>4, <2>6, <2>7, <2>8
<1> QED
  BY <1>5, <1>7, <1>10, <1>11, TurnHolds


LEMMA DeleteKrHolds ==
    ASSUME OkInv, NEW t \in Tasks, DeleteKr(t)
    PROVE  OkInv'
<1>0. PICK c : c = call[t]
  OBVIOUS
<1> DEFINE o == c.arg.id
           k == c.arg.kr
<1>1. c.op = "del_kr" /\ c.at = "kr" /\ c.op \in KrOps
  BY <1>0 DEF DeleteKr, On, KrOps
<1>b. /\ c.op \in OkrOps /\ k \in KeyResults /\ home[k] = o /\ k \in Own(o) /\ o \in Objectives
      /\ KrTables /\ (c.op \in {"set_kr", "check_in"} => c.arg.value \in Int)
      /\ (c.op = "check_in" => c.arg.conf \in Int)
  BY <1>0, <1>1, KrAsked
<1>2. o \notin unsound => Holds(o, c)
  BY <1>0, <1>b, Stands
<1>3. /\ Goto(t, "unlook") /\ key_result' = [key_result EXCEPT ![k] = NoKeyResult] /\ stirred' = stirred \cup {o}
      /\ UNCHANGED <<objective, by_cycle, children, kr_lookup, check_ins, home, named, edited, moved, unsound>>
  BY <1>0, <1>b DEF DeleteKr, WriteKr, Arg, Got, okrHistory
<1>4. PICK d : d = call'[t]
  OBVIOUS
<1>5. Turns(t, c, d) /\ d.op = c.op /\ d.arg = c.arg /\ d.at = "unlook" /\ d.got = c.got
  BY <1>0, <1>b, <1>3, <1>4, OkJumps DEF OkInv
<1>6. OkAsks(t)'
  BY <1>0, <1>1, <1>3, <1>4, <1>5 DEF OkInv, OkBase, OkAsks, Arg, Sets, KrOps, On, OkrOps
<1>7. ~ At(d, "new_objective", {"main"}) /\ ~ Moving(c) /\ ~ Moving(d) /\ ~ Parting(c) /\ ~ Parting(d)
  BY <1>1, <1>5 DEF At, Moving, Parting
<1>8. NoKeyResult \in [span : Spans, value : Int, conf : Int, there : BOOLEAN] /\ ~ NoKeyResult.there
  BY DEF NoKeyResult, Ghostly, Spans
<1>9. KrTables' /\ KrsApart(o)
      /\ key_result'[k] = NoKeyResult /\ \A j \in KeyResults \ {k} : key_result'[j] = key_result[j]
  BY <1>b, <1>3, <1>8 DEF KrTables, KrsApart
<1>10. /\ OkTables' /\ Apart(o) /\ ParentKept(o, c) /\ Own(o)' = Own(o)
       /\ ListedAs(o)' = ListedAs(o)
       /\ o \notin unsound => FamilyKept(o, d)
  BY <1>b, <1>3, <1>5, <1>7, <1>9, KrWritten
<1>11. o \notin unsound => Holds(o, d)'
  <2> SUFFICES ASSUME Holds(o, c) PROVE Holds(o, d)'
    BY <1>2
  <2>0. k = c.arg.kr
    OBVIOUS
  <2> HIDE DEF o, k
  <2> USE <1>1, <1>b, <1>3, <1>5, <1>8, <1>9, <1>10 DEF Holds, At, Recomputes, Exists
  <2>1. RowHolds(o, d)'
    BY DEF RowHolds, Early, KrOps
  <2>2. RollHolds(o, d)'
    BY DEF RollHolds
  <2>3. ListHolds(o, d)'
    BY DEF ListHolds, Entry
  <2>4. \A j \in Own(o) : j # k => KrHolds(o, j, d)'
    BY <2>0, OtherKrs DEF Own
  <2>6. KrHolds(o, k, d)'
    BY <2>0 DEF KrHolds, ChainHolds
  <2>7. Creates(o, d)' /\ Changes(o, d)' /\ Deletes(o, d)' /\ Recounts(o, d)'
    BY DEF Creates, Changes, Deletes, Recounts
  <2>8. Reports(o, d)'
    BY <2>0 DEF Reports
  <2> QED
    BY <2>1, <2>2, <2>3, <2>4, <2>6, <2>7, <2>8
<1> QED
  BY <1>5, <1>6, <1>7, <1>10, <1>11, TurnHolds


LEMMA UpdateFromCheckInHolds ==
    ASSUME OkInv, NEW t \in Tasks, UpdateFromCheckIn(t)
    PROVE  OkInv'
<1>0. PICK c : c = call[t]
  OBVIOUS
<1> DEFINE o == c.arg.id
           k == c.arg.kr
<1>1. c.op = "check_in" /\ c.at = "kr" /\ c.op \in KrOps
  BY <1>0 DEF UpdateFromCheckIn, On, KrOps
<1>a. PICK new : new = [key_result[k] EXCEPT !.value = c.arg.value, !.conf = c.arg.conf, !.there = TRUE]
  OBVIOUS
<1>b. /\ c.op \in OkrOps /\ k \in KeyResults /\ home[k] = o /\ k \in Own(o) /\ o \in Objectives
      /\ KrTables /\ (c.op \in {"set_kr", "check_in"} => c.arg.value \in Int)
      /\ (c.op = "check_in" => c.arg.conf \in Int)
  BY <1>0, <1>1, KrAsked
<1>2. o \notin unsound => Holds(o, c)
  BY <1>0, <1>b, Stands
<1>3. /\ Goto(t, "roll") /\ key_result' = [key_result EXCEPT ![k] = new] /\ stirred' = stirred \cup {o}
      /\ UNCHANGED <<objective, by_cycle, children, kr_lookup, check_ins, home, named, edited, moved, unsound>>
  BY <1>0, <1>a, <1>b DEF UpdateFromCheckIn, WriteKr, Arg, Got, okrHistory
<1>4. PICK d : d = call'[t]
  OBVIOUS
<1>5. Turns(t, c, d) /\ d.op = c.op /\ d.arg = c.arg /\ d.at = "roll" /\ d.got = c.got
  BY <1>0, <1>b, <1>3, <1>4, OkJumps DEF OkInv
<1>6. OkAsks(t)'
  BY <1>0, <1>1, <1>3, <1>4, <1>5 DEF OkInv, OkBase, OkAsks, Arg, Sets, KrOps, On, OkrOps
<1>7. ~ At(d, "new_objective", {"main"}) /\ ~ Moving(c) /\ ~ Moving(d) /\ ~ Parting(c) /\ ~ Parting(d)
  BY <1>1, <1>5 DEF At, Moving, Parting
<1>8. /\ new \in [span : Spans, value : Int, conf : Int, there : BOOLEAN]
      /\ new.value = c.arg.value /\ new.span = key_result[k].span
  BY <1>1, <1>a, <1>b DEF KrTables
<1>9. KrTables' /\ KrsApart(o)
      /\ key_result'[k] = new /\ \A j \in KeyResults \ {k} : key_result'[j] = key_result[j]
  BY <1>b, <1>3, <1>8 DEF KrTables, KrsApart
<1>10. /\ OkTables' /\ Apart(o) /\ ParentKept(o, c) /\ Own(o)' = Own(o)
       /\ ListedAs(o)' = ListedAs(o)
       /\ o \notin unsound => FamilyKept(o, d)
  BY <1>b, <1>3, <1>5, <1>7, <1>9, KrWritten
<1>11. o \notin unsound => Holds(o, d)'
  <2> SUFFICES ASSUME Holds(o, c) PROVE Holds(o, d)'
    BY <1>2
  <2>0. k = c.arg.kr
    OBVIOUS
  <2> HIDE DEF o, k
  <2> USE <1>1, <1>b, <1>3, <1>5, <1>8, <1>9, <1>10 DEF Holds, At, Recomputes, Exists
  <2>1. RowHolds(o, d)'
    BY DEF RowHolds, Early, KrOps
  <2>2. RollHolds(o, d)'
    BY DEF RollHolds
  <2>3. ListHolds(o, d)'
    BY DEF ListHolds, Entry
  <2>4. \A j \in Own(o) : j # k => KrHolds(o, j, d)'
    BY <2>0, OtherKrs DEF Own
  <2>5. Exists(o)
    BY DEF RowHolds, Early, KrOps
  <2>6. KrHolds(o, k, d)'
    <3>1. key_result[k].there /\ KrHolds(o, k, c)
      BY <2>0 DEF Reports
    <3>2. LinksUp(k)' <=> LinksUp(k)
      BY DEF LinksUp
    <3>3. LastSaid(k)' = LastSaid(k)
      BY DEF LastSaid
    <3>4. k \notin edited => LinksUp(k) /\ LastSaid(k) = c.arg.value
      BY <2>0, <3>1 DEF KrHolds, ChainHolds
    <3>5. k \in kr_lookup' => key_result'[k].there
      BY <3>1, <1>a
    <3> QED
      BY <2>5, <3>2, <3>3, <3>4, <3>5 DEF KrHolds, ChainHolds
  <2>7. Creates(o, d)' /\ Changes(o, d)' /\ Deletes(o, d)' /\ Recounts(o, d)'
    BY DEF Creates, Changes, Deletes, Recounts
  <2>8. Reports(o, d)'
    BY <2>0 DEF Reports
  <2> QED
    BY <2>1, <2>2, <2>3, <2>4, <2>6, <2>7, <2>8
<1> QED
  BY <1>5, <1>6, <1>7, <1>10, <1>11, TurnHolds


LEMMA InsertLookupHolds ==
    ASSUME OkInv, NEW t \in Tasks, InsertLookup(t)
    PROVE  OkInv'
<1>0. PICK c : c = call[t]
  OBVIOUS
<1> DEFINE o == c.arg.id
           k == c.arg.kr
<1>1. c.op = "new_kr" /\ c.at = "look" /\ c.op \in KrOps
  BY <1>0 DEF InsertLookup, On, KrOps
<1>b. /\ c.op \in OkrOps /\ k \in KeyResults /\ home[k] = o /\ k \in Own(o) /\ o \in Objectives
      /\ KrTables /\ (c.op \in {"set_kr", "check_in"} => c.arg.value \in Int)
      /\ (c.op = "check_in" => c.arg.conf \in Int)
  BY <1>0, <1>1, KrAsked
<1>2. o \notin unsound => Holds(o, c)
  BY <1>0, <1>b, Stands
<1>3. /\ Finish(t) /\ kr_lookup' = kr_lookup \cup {k}
      /\ UNCHANGED <<objective, by_cycle, children, key_result, check_ins, home>>
      /\ UNCHANGED <<named, stirred, edited, moved, unsound>>
  BY <1>0, <1>b DEF InsertLookup, WriteKr, Arg, Got, okrHistory
<1>4. PICK d : d = call'[t]
  OBVIOUS
<1>5. Turns(t, c, d) /\ d = NoCall /\ OkAsks(t)'
  BY <1>0, <1>b, <1>3, <1>4, OkEnds DEF OkInv
<1>7. ~ At(d, "new_objective", {"main"}) /\ ~ Moving(c) /\ ~ Moving(d) /\ ~ Parting(c) /\ ~ Parting(d)
  BY <1>1, <1>5 DEF At, Moving, Parting, NoCall
<1>8. TRUE
  OBVIOUS
<1>9. KrTables' /\ KrsApart(o)
      /\ \A j \in KeyResults \ {k} : j \in kr_lookup' <=> j \in kr_lookup
  BY <1>b, <1>3, <1>8 DEF KrTables, KrsApart
<1>10. /\ OkTables' /\ Apart(o) /\ ParentKept(o, c) /\ Own(o)' = Own(o)
       /\ ListedAs(o)' = ListedAs(o)
       /\ o \notin unsound => FamilyKept(o, d)
  BY <1>b, <1>3, <1>5, <1>7, <1>9, KrWritten
<1>11. o \notin unsound => Holds(o, d)'
  <2> SUFFICES ASSUME Holds(o, c) PROVE Holds(o, d)'
    BY <1>2
  <2>0. k = c.arg.kr
    OBVIOUS
  <2> HIDE DEF o, k
  <2> USE <1>1, <1>b, <1>3, <1>5, <1>8, <1>9, <1>10 DEF Holds, At, Recomputes, Exists, NoCall
  <2>1. RowHolds(o, d)'
    BY DEF RowHolds, Early, KrOps
  <2>2. RollHolds(o, d)'
    <3>1. KrsOf(o)' = KrsOf(o)
      BY DEF KrsOf
    <3>2. Rolled(KrsOf(o))' = Rolled(KrsOf(o))
      BY <3>1, RolledSame
    <3> QED
      BY <3>2 DEF RollHolds
  <2>3. ListHolds(o, d)'
    BY DEF ListHolds, Entry
  <2>4. \A j \in Own(o) : j # k => KrHolds(o, j, d)'
    BY <2>0, OtherKrs DEF Own
  <2>5. key_result[k].there /\ KrHolds(o, k, c)
    BY <2>0 DEF Reports
  <2>6. KrHolds(o, k, d)'
    BY <2>5 DEF KrHolds, ChainHolds, LinksUp, LastSaid
  <2>7. Creates(o, d)' /\ Changes(o, d)' /\ Deletes(o, d)' /\ Recounts(o, d)'
    BY DEF Creates, Changes, Deletes, Recounts
  <2>8. Reports(o, d)'
    BY <2>0 DEF Reports
  <2> QED
    BY <2>1, <2>2, <2>3, <2>4, <2>6, <2>7, <2>8
<1> QED
  BY <1>5, <1>7, <1>10, <1>11, TurnHolds


LEMMA UnlookKrHolds ==
    ASSUME OkInv, NEW t \in Tasks, UnlookKr(t)
    PROVE  OkInv'
<1>0. PICK c : c = call[t]
  OBVIOUS
<1> DEFINE o == c.arg.id
           k == c.arg.kr
<1>1. c.op = "del_kr" /\ c.at = "unlook" /\ c.op \in KrOps
  BY <1>0 DEF UnlookKr, On, KrOps
<1>b. /\ c.op \in OkrOps /\ k \in KeyResults /\ home[k] = o /\ k \in Own(o) /\ o \in Objectives
      /\ KrTables /\ (c.op \in {"set_kr", "check_in"} => c.arg.value \in Int)
      /\ (c.op = "check_in" => c.arg.conf \in Int)
  BY <1>0, <1>1, KrAsked
<1>2. o \notin unsound => Holds(o, c)
  BY <1>0, <1>b, Stands
<1>3. /\ Goto(t, "roll") /\ kr_lookup' = kr_lookup \ {k}
      /\ UNCHANGED <<objective, by_cycle, children, key_result, check_ins, home>>
      /\ UNCHANGED <<named, stirred, edited, moved, unsound>>
  BY <1>0, <1>b DEF UnlookKr, WriteKr, Arg, Got, okrHistory
<1>4. PICK d : d = call'[t]
  OBVIOUS
<1>5. Turns(t, c, d) /\ d.op = c.op /\ d.arg = c.arg /\ d.at = "roll" /\ d.got = c.got
  BY <1>0, <1>b, <1>3, <1>4, OkJumps DEF OkInv
<1>6. OkAsks(t)'
  BY <1>0, <1>1, <1>3, <1>4, <1>5 DEF OkInv, OkBase, OkAsks, Arg, Sets, KrOps, On, OkrOps
<1>7. ~ At(d, "new_objective", {"main"}) /\ ~ Moving(c) /\ ~ Moving(d) /\ ~ Parting(c) /\ ~ Parting(d)
  BY <1>1, <1>5 DEF At, Moving, Parting
<1>8. TRUE
  OBVIOUS
<1>9. KrTables' /\ KrsApart(o)
      /\ \A j \in KeyResults \ {k} : j \in kr_lookup' <=> j \in kr_lookup
  BY <1>b, <1>3, <1>8 DEF KrTables, KrsApart
<1>10. /\ OkTables' /\ Apart(o) /\ ParentKept(o, c) /\ Own(o)' = Own(o)
       /\ ListedAs(o)' = ListedAs(o)
       /\ o \notin unsound => FamilyKept(o, d)
  BY <1>b, <1>3, <1>5, <1>7, <1>9, KrWritten
<1>11. o \notin unsound => Holds(o, d)'
  <2> SUFFICES ASSUME Holds(o, c) PROVE Holds(o, d)'
    BY <1>2
  <2>0. k = c.arg.kr
    OBVIOUS
  <2> HIDE DEF o, k
  <2> USE <1>1, <1>b, <1>3, <1>5, <1>8, <1>9, <1>10 DEF Holds, At, Recomputes, Exists
  <2>1. RowHolds(o, d)'
    BY DEF RowHolds, Early, KrOps
  <2>2. RollHolds(o, d)'
    <3>1. KrsOf(o)' = KrsOf(o)
      BY DEF KrsOf
    <3>2. Rolled(KrsOf(o))' = Rolled(KrsOf(o))
      BY <3>1, RolledSame
    <3> QED
      BY <3>2 DEF RollHolds
  <2>3. ListHolds(o, d)'
    BY DEF ListHolds, Entry
  <2>4. \A j \in Own(o) : j # k => KrHolds(o, j, d)'
    BY <2>0, OtherKrs DEF Own
  <2>5. KrHolds(o, k, c)
    OBVIOUS
  <2>6. KrHolds(o, k, d)'
    BY <2>5 DEF KrHolds, ChainHolds, LinksUp, LastSaid
  <2>7. Creates(o, d)' /\ Changes(o, d)' /\ Deletes(o, d)' /\ Recounts(o, d)'
    BY DEF Creates, Changes, Deletes, Recounts
  <2>8. Reports(o, d)'
    BY <2>0 DEF Reports
  <2> QED
    BY <2>1, <2>2, <2>3, <2>4, <2>6, <2>7, <2>8
<1> QED
  BY <1>5, <1>6, <1>7, <1>10, <1>11, TurnHolds


LEMMA ForgetKrHolds ==
    ASSUME OkInv, NEW t \in Tasks, ForgetKr(t)
    PROVE  OkInv'
<1>0. PICK c : c = call[t]
  OBVIOUS
<1> DEFINE o == c.arg.id
           k == c.arg.kr
<1>1. c.op = "del_kr" /\ c.at = "say" /\ c.op \in KrOps
  BY <1>0 DEF ForgetKr, On, KrOps
<1>b. /\ c.op \in OkrOps /\ k \in KeyResults /\ home[k] = o /\ k \in Own(o) /\ o \in Objectives
      /\ KrTables /\ (c.op \in {"set_kr", "check_in"} => c.arg.value \in Int)
      /\ (c.op = "check_in" => c.arg.conf \in Int)
  BY <1>0, <1>1, KrAsked
<1>2. o \notin unsound => Holds(o, c)
  BY <1>0, <1>b, Stands
<1>3. /\ Goto(t, "kr") /\ check_ins' = [check_ins EXCEPT ![k] = <<>>] /\ edited' = edited \cup {k}
      /\ UNCHANGED <<objective, by_cycle, children, key_result, kr_lookup, home, named, stirred, moved, unsound>>
  BY <1>0, <1>b DEF ForgetKr, WriteKr, Arg, Got, okrHistory
<1>4. PICK d : d = call'[t]
  OBVIOUS
<1>5. Turns(t, c, d) /\ d.op = c.op /\ d.arg = c.arg /\ d.at = "kr" /\ d.got = c.got
  BY <1>0, <1>b, <1>3, <1>4, OkJumps DEF OkInv
<1>6. OkAsks(t)'
  BY <1>0, <1>1, <1>3, <1>4, <1>5 DEF OkInv, OkBase, OkAsks, Arg, Sets, KrOps, On, OkrOps
<1>7. ~ At(d, "new_objective", {"main"}) /\ ~ Moving(c) /\ ~ Moving(d) /\ ~ Parting(c) /\ ~ Parting(d)
  BY <1>1, <1>5 DEF At, Moving, Parting
<1>8. <<>> \in Seq([prev : Int, new : Int])
  OBVIOUS
<1>9. KrTables' /\ KrsApart(o)
      /\ \A j \in KeyResults \ {k} : check_ins'[j] = check_ins[j]
  BY <1>b, <1>3, <1>8 DEF KrTables, KrsApart
<1>10. /\ OkTables' /\ Apart(o) /\ ParentKept(o, c) /\ Own(o)' = Own(o)
       /\ ListedAs(o)' = ListedAs(o)
       /\ o \notin unsound => FamilyKept(o, d)
  BY <1>b, <1>3, <1>5, <1>7, <1>9, KrWritten
<1>11. o \notin unsound => Holds(o, d)'
  <2> SUFFICES ASSUME Holds(o, c) PROVE Holds(o, d)'
    BY <1>2
  <2>0. k = c.arg.kr
    OBVIOUS
  <2> HIDE DEF o, k
  <2> USE <1>1, <1>b, <1>3, <1>5, <1>8, <1>9, <1>10 DEF Holds, At, Recomputes, Exists
  <2>1. RowHolds(o, d)'
    BY DEF RowHolds, Early, KrOps
  <2>2. RollHolds(o, d)'
    <3>1. KrsOf(o)' = KrsOf(o)
      BY DEF KrsOf
    <3>2. Rolled(KrsOf(o))' = Rolled(KrsOf(o))
      BY <3>1, RolledSame
    <3> QED
      BY <3>2 DEF RollHolds
  <2>3. ListHolds(o, d)'
    BY DEF ListHolds, Entry
  <2>4. \A j \in Own(o) : j # k => KrHolds(o, j, d)'
    BY <2>0, OtherKrs DEF Own
  <2>5. KrHolds(o, k, c)
    OBVIOUS
  <2>6. KrHolds(o, k, d)'
    BY <2>5 DEF KrHolds, ChainHolds
  <2>7. Creates(o, d)' /\ Changes(o, d)' /\ Deletes(o, d)' /\ Recounts(o, d)'
    BY DEF Creates, Changes, Deletes, Recounts
  <2>8. Reports(o, d)'
    BY <2>0 DEF Reports
  <2> QED
    BY <2>1, <2>2, <2>3, <2>4, <2>6, <2>7, <2>8
<1> QED
  BY <1>5, <1>6, <1>7, <1>10, <1>11, TurnHolds

LEMMA Appended ==
    ASSUME NEW R, NEW s \in Seq(R), NEW x \in R, NEW n, n = Len(s)
    PROVE  /\ n \in Nat /\ Append(s, x) \in Seq(R) /\ Len(Append(s, x)) = n + 1
           /\ Append(s, x)[n + 1] = x /\ Append(s, x) # <<>>
           /\ \A i \in 1 .. n : Append(s, x)[i] = s[i]
           /\ s # <<>> <=> n > 0
<1>1. n \in Nat /\ Append(s, x) \in Seq(R) /\ Len(Append(s, x)) = n + 1
  OBVIOUS
<1>2. Append(s, x)[n + 1] = x
  OBVIOUS
<1>3. \A i \in 1 .. n : Append(s, x)[i] = s[i]
  OBVIOUS
<1>4. s # <<>> <=> n > 0
  OBVIOUS
<1>5. Append(s, x) # <<>>
  BY <1>1
<1> QED
  BY <1>1, <1>2, <1>3, <1>4, <1>5

LEMMA InsertCheckInHolds ==
    ASSUME OkInv, NEW t \in Tasks, InsertCheckIn(t)
    PROVE  OkInv'
<1>0. PICK c : c = call[t]
  OBVIOUS
<1> DEFINE o == c.arg.id
           k == c.arg.kr
<1>1. c.op = "check_in" /\ c.at = "say" /\ c.op \in KrOps
  BY <1>0 DEF InsertCheckIn, On, KrOps
<1>a. PICK said : said = [prev |-> c.got.prev, new |-> c.arg.value]
  OBVIOUS
<1>b. /\ c.op \in OkrOps /\ k \in KeyResults /\ home[k] = o /\ k \in Own(o) /\ o \in Objectives
      /\ KrTables /\ c.arg.value \in Int
  BY <1>0, <1>1, KrAsked
<1>c. c.got.prev \in Int
  BY <1>0, <1>1 DEF OkInv, OkBase, OkAsks, On, Got
<1>2. o \notin unsound => Holds(o, c)
  BY <1>0, <1>b, Stands
<1>3. /\ Goto(t, "find") /\ check_ins' = [check_ins EXCEPT ![k] = Append(check_ins[k], said)]
      /\ UNCHANGED <<objective, by_cycle, children, key_result, kr_lookup, home>>
      /\ UNCHANGED <<named, stirred, edited, moved, unsound>>
  BY <1>0, <1>a, <1>b DEF InsertCheckIn, Arg, Got, okrHistory, KrTables
<1>4. PICK d : d = call'[t]
  OBVIOUS
<1>5. Turns(t, c, d) /\ d.op = c.op /\ d.arg = c.arg /\ d.at = "find" /\ d.got = c.got
  BY <1>0, <1>b, <1>3, <1>4, OkJumps DEF OkInv
<1>6. OkAsks(t)'
  BY <1>0, <1>1, <1>3, <1>4, <1>5 DEF OkInv, OkBase, OkAsks, Arg, Sets, KrOps, On, OkrOps
<1>7. ~ At(d, "new_objective", {"main"}) /\ ~ Moving(c) /\ ~ Moving(d) /\ ~ Parting(c) /\ ~ Parting(d)
  BY <1>1, <1>5 DEF At, Moving, Parting
<1>8. said \in [prev : Int, new : Int] /\ check_ins[k] \in Seq([prev : Int, new : Int])
  BY <1>a, <1>b, <1>c DEF KrTables
<1>d. PICK s : s = check_ins[k]
  OBVIOUS
<1>e. PICK n : n = Len(s)
  OBVIOUS
<1>f. /\ n \in Nat /\ Append(s, said) \in Seq([prev : Int, new : Int]) /\ Len(Append(s, said)) = n + 1
      /\ Append(s, said)[n + 1] = said /\ \A i \in 1 .. n : Append(s, said)[i] = s[i]
      /\ s # <<>> <=> n > 0
      /\ Append(s, said) # <<>>
  <2> DEFINE R == [prev : Int, new : Int]
  <2>1. s \in Seq(R) /\ said \in R
    BY <1>8, <1>d
  <2> HIDE DEF R
  <2>2. /\ n \in Nat /\ Append(s, said) \in Seq(R) /\ Len(Append(s, said)) = n + 1
        /\ Append(s, said)[n + 1] = said /\ \A i \in 1 .. n : Append(s, said)[i] = s[i]
        /\ s # <<>> <=> n > 0
        /\ Append(s, said) # <<>>
    BY <1>e, <2>1, Appended
  <2> QED
    BY <2>2 DEF R
<1>9. KrTables' /\ KrsApart(o) /\ check_ins'[k] = Append(s, said)
      /\ \A j \in KeyResults \ {k} : check_ins'[j] = check_ins[j]
  BY <1>b, <1>d, <1>3, <1>f DEF KrTables, KrsApart
<1>10. /\ OkTables' /\ Apart(o) /\ ParentKept(o, c) /\ Own(o)' = Own(o)
       /\ ListedAs(o)' = ListedAs(o)
       /\ o \notin unsound => FamilyKept(o, d)
  BY <1>b, <1>3, <1>5, <1>7, <1>9, KrWritten
<1>11. o \notin unsound => Holds(o, d)'
  <2> SUFFICES ASSUME Holds(o, c) PROVE Holds(o, d)'
    BY <1>2
  <2>0. k = c.arg.kr
    OBVIOUS
  <2> HIDE DEF o, k
  <2> USE <1>1, <1>b, <1>3, <1>5, <1>9, <1>10 DEF Holds, At, Recomputes, Exists
  <2>1. RowHolds(o, d)'
    BY DEF RowHolds, Early, KrOps
  <2>2. RollHolds(o, d)'
    <3>1. KrsOf(o)' = KrsOf(o)
      BY DEF KrsOf
    <3>2. Rolled(KrsOf(o))' = Rolled(KrsOf(o))
      BY <3>1, RolledSame
    <3> QED
      BY <3>2 DEF RollHolds
  <2>3. ListHolds(o, d)'
    BY DEF ListHolds, Entry
  <2>4. \A j \in Own(o) : j # k => KrHolds(o, j, d)'
    BY <2>0, OtherKrs DEF Own
  <2>5. ASSUME key_result[k].there, k \notin edited
        PROVE  LinksUp(k)' /\ LastSaid(k)' = c.arg.value /\ check_ins'[k] # <<>>
    <3>1. LinksUp(k) /\ LastSaid(k) = key_result[k].value
      BY <2>5 DEF KrHolds, ChainHolds
    <3>2. said.prev = key_result[k].value /\ said.new = c.arg.value
      BY <1>a, <2>0, <2>5 DEF Reports
    <3>3. LastSaid(k)' = c.arg.value /\ check_ins'[k] # <<>>
      BY <1>f, <3>2 DEF LastSaid
    <3>4. ASSUME NEW i \in 1 .. Len(check_ins'[k])
          PROVE  check_ins'[k][i].prev = IF i = 1 THEN key_result'[k].span.start ELSE check_ins'[k][i - 1].new
      <4>1. i \in 1 .. n + 1
        BY <1>f, <3>4
      <4>2. CASE i = n + 1
        <5>1. check_ins'[k][i] = said
          BY <1>f, <4>2
        <5>2. n = 0 => said.prev = key_result[k].span.start
          BY <1>d, <1>e, <1>f, <3>1, <3>2 DEF LastSaid
        <5>3. n > 0 => said.prev = s[n].new
          BY <1>d, <1>e, <1>f, <3>1, <3>2 DEF LastSaid
        <5>4. n > 0 => check_ins'[k][i - 1] = s[n]
          BY <1>f, <4>2
        <5> QED
          BY <1>f, <4>2, <5>1, <5>2, <5>3, <5>4
      <4>3. CASE i # n + 1
        <5>1. i \in 1 .. n
          BY <1>f, <4>1, <4>3
        <5>2. s[i].prev = IF i = 1 THEN key_result[k].span.start ELSE s[i - 1].new
          BY <1>d, <1>e, <3>1, <5>1 DEF LinksUp
        <5>3. check_ins'[k][i] = s[i]
          BY <1>f, <5>1
        <5>4. i # 1 => check_ins'[k][i - 1] = s[i - 1]
          <6>1. i # 1 => i - 1 \in 1 .. n
            BY <1>f, <5>1
          <6> QED
            BY <1>f, <6>1
        <5> QED
          BY <5>2, <5>3, <5>4
      <4> QED
        BY <4>2, <4>3
    <3>5. LinksUp(k)'
      BY <3>4, Zenon DEF LinksUp
    <3> QED
      BY <3>3, <3>5
  <2>6. KrHolds(o, k, d)'
    BY <2>0, <2>5 DEF KrHolds, ChainHolds
  <2>7. Creates(o, d)' /\ Changes(o, d)' /\ Deletes(o, d)' /\ Recounts(o, d)'
    BY DEF Creates, Changes, Deletes, Recounts
  <2>8. Reports(o, d)'
    BY <2>0 DEF Reports
  <2> QED
    BY <2>1, <2>2, <2>3, <2>4, <2>6, <2>7, <2>8
<1> QED
  BY <1>5, <1>6, <1>7, <1>10, <1>11, TurnHolds

LEMMA UnlookHolds ==
    ASSUME OkInv, NEW t \in Tasks, Unlook(t)
    PROVE  OkInv'
<1>0. PICK c : c = call[t]
  OBVIOUS
<1> DEFINE o   == c.arg.id
           at  == IF c.got.ks = {} THEN "dropkrs" ELSE "said"
           got == [old |-> c.got.old, ks |-> c.got.ks]
<1>1. c.op = "del_objective" /\ c.at = "unlook" /\ c.op \in OkrOps
  BY <1>0 DEF Unlook, On, OkrOps
<1>2. o \in Objectives /\ (o \notin unsound => Holds(o, c))
  BY <1>0, <1>1, Stands
<1>a. PICK k : k = c.got.kr
  OBVIOUS
<1>b. k \in Own(o) /\ k \in KeyResults /\ home[k] = o /\ c.got.ks \subseteq Own(o) /\ KrTables
  BY <1>0, <1>1, <1>a DEF OkInv, OkBase, OkTables, KrTables, OkAsks, Arg, Got, Own
<1>3. /\ Learn(t, at, got) /\ kr_lookup' = kr_lookup \ {k}
      /\ UNCHANGED <<objective, by_cycle, children, key_result, check_ins, home>>
      /\ UNCHANGED <<named, stirred, edited, moved, unsound>>
  BY <1>0, <1>a DEF Unlook, Arg, Got, okrHistory
<1>4. PICK d : d = call'[t]
  OBVIOUS
<1>5. Turns(t, c, d) /\ d.op = c.op /\ d.arg = c.arg /\ d.at = at /\ d.got = got
  BY <1>0, <1>1, <1>3, <1>4, OkGoes DEF OkInv
<1>6. d.got.ks = c.got.ks /\ d.got.old = c.got.old /\ d.at \in {"dropkrs", "said"} /\ (d.at = "dropkrs" => c.got.ks = {})
  BY <1>5
<1>7. OkAsks(t)'
  <2>1. Own(o)' = Own(o)
    BY <1>3 DEF Own
  <2>2. Arg(t)' = c.arg /\ Got(t)'.ks \subseteq Own(Arg(t).id)' /\ call'[t].op = "del_objective"
        /\ call'[t].at \in {"dropkrs", "said"}
    BY <1>1, <1>4, <1>5, <1>6, <1>b, <2>1 DEF Arg, Got, Own
  <2> QED
    BY <1>0, <1>1, <1>3, <2>2 DEF OkInv, OkBase, OkAsks, Arg, Sets, KrOps, On, OkrOps
<1>8. ~ At(d, "new_objective", {"main"}) /\ ~ Moving(c) /\ ~ Moving(d) /\ ~ Parting(c) /\ ~ Parting(d)
  BY <1>1, <1>5, <1>6 DEF At, Moving, Parting
<1>9. KrTables' /\ KrsApart(o)
  BY <1>b, <1>3 DEF KrTables, KrsApart
<1>10. /\ OkTables' /\ Apart(o) /\ ParentKept(o, c) /\ Own(o)' = Own(o)
       /\ ListedAs(o)' = ListedAs(o)
       /\ o \notin unsound => FamilyKept(o, d)
  BY <1>2, <1>3, <1>5, <1>8, <1>9, KrWritten
<1>11. o \notin unsound => Holds(o, d)'
  <2> SUFFICES ASSUME Holds(o, c) PROVE Holds(o, d)'
    BY <1>2
  <2>0. KrsOf(o)' = KrsOf(o)
    BY <1>3 DEF KrsOf
  <2>1. Rolled(KrsOf(o))' = Rolled(KrsOf(o))
    BY <1>3, <2>0, RolledSame
  <2> HIDE DEF o, got, at
  <2> USE <1>1, <1>3, <1>5, <1>6, <1>10 DEF Holds, At, Recomputes, Exists
  <2>2. RowHolds(o, d)'
    BY DEF RowHolds, Early, KrOps
  <2>3. RollHolds(o, d)'
    BY <2>1 DEF RollHolds
  <2>4. ListHolds(o, d)'
    BY DEF ListHolds, Entry
  <2>5. Own(o) \cap kr_lookup \subseteq c.got.ks \cup {k}
    BY <1>a DEF Deletes
  <2>6. ASSUME NEW j \in Own(o)
        PROVE  KrHolds(o, j, d)'
    <3>1. (j \in kr_lookup => key_result[j].there) /\ (~ Exists(o) => ~ key_result[j].there)
      BY DEF KrHolds
    <3>2. ChainHolds(j, d)'
      <4>1. CASE d.at = "said"
        BY <4>1 DEF ChainHolds
      <4>2. CASE d.at = "dropkrs"
        BY <4>2 DEF ChainHolds
      <4> QED
        BY <4>1, <4>2
    <3> QED
      BY <3>1, <3>2 DEF KrHolds
  <2>7. Creates(o, d)' /\ Changes(o, d)' /\ Reports(o, d)' /\ Recounts(o, d)'
    BY DEF Creates, Changes, Reports, Recounts
  <2>8. Deletes(o, d)'
    BY <2>0, <2>5 DEF Deletes
  <2> QED
    BY <2>2, <2>3, <2>4, <2>6, <2>7, <2>8
<1> QED
  BY <1>5, <1>7, <1>8, <1>10, <1>11, TurnHolds

LEMMA ForgetHolds ==
    ASSUME OkInv, NEW t \in Tasks, Forget(t)
    PROVE  OkInv'
<1>0. PICK c : c = call[t]
  OBVIOUS
<1> DEFINE o == c.arg.id
<1>1. c.op = "del_objective" /\ c.at = "said" /\ c.op \in OkrOps
  BY <1>0 DEF Forget, On, OkrOps
<1>2. o \in Objectives /\ (o \notin unsound => Holds(o, c))
  BY <1>0, <1>1, Stands
<1>a. PICK k \in c.got.ks : /\ check_ins' = [check_ins EXCEPT ![k] = <<>>]
                            /\ Learn(t, "unlook", [old |-> c.got.old, ks |-> c.got.ks \ {k}, kr |-> k])
  BY <1>0 DEF Forget, Got
<1> DEFINE got == [old |-> c.got.old, ks |-> c.got.ks \ {k}, kr |-> k]
<1>b. c.got.ks \subseteq Own(o) /\ k \in Own(o) /\ k \in KeyResults /\ home[k] = o /\ KrTables
  BY <1>0, <1>1 DEF OkInv, OkBase, OkTables, KrTables, OkAsks, Arg, Got, Own
<1>3. /\ Learn(t, "unlook", got)
      /\ UNCHANGED <<objective, by_cycle, children, key_result, kr_lookup, home>>
      /\ UNCHANGED <<named, stirred, edited, moved, unsound>>
  BY <1>0, <1>a DEF Forget, okrHistory
<1>4. PICK d : d = call'[t]
  OBVIOUS
<1>5. Turns(t, c, d) /\ d.op = c.op /\ d.arg = c.arg /\ d.at = "unlook" /\ d.got = got
  BY <1>0, <1>1, <1>3, <1>4, OkGoes DEF OkInv
<1>6. d.got.ks = c.got.ks \ {k} /\ d.got.old = c.got.old /\ d.got.kr = k
  BY <1>5
<1>7. OkAsks(t)'
  <2>1. Own(o)' = Own(o)
    BY <1>3 DEF Own
  <2>2. Arg(t)' = c.arg /\ Got(t)'.ks \subseteq Own(Arg(t).id)' /\ Got(t)'.kr \in Own(Arg(t).id)'
        /\ call'[t].op = "del_objective" /\ call'[t].at = "unlook"
    BY <1>1, <1>4, <1>5, <1>6, <1>b, <2>1 DEF Arg, Got, Own
  <2> QED
    BY <1>0, <1>1, <1>3, <2>2 DEF OkInv, OkBase, OkAsks, Arg, Sets, KrOps, On, OkrOps
<1>8. ~ At(d, "new_objective", {"main"}) /\ ~ Moving(c) /\ ~ Moving(d) /\ ~ Parting(c) /\ ~ Parting(d)
  BY <1>1, <1>5 DEF At, Moving, Parting
<1>9. KrTables' /\ KrsApart(o)
  BY <1>a, <1>b, <1>3 DEF KrTables, KrsApart
<1>10. /\ OkTables' /\ Apart(o) /\ ParentKept(o, c) /\ Own(o)' = Own(o)
       /\ ListedAs(o)' = ListedAs(o)
       /\ o \notin unsound => FamilyKept(o, d)
  BY <1>2, <1>3, <1>5, <1>8, <1>9, KrWritten
<1>11. o \notin unsound => Holds(o, d)'
  <2> SUFFICES ASSUME Holds(o, c) PROVE Holds(o, d)'
    BY <1>2
  <2>0. KrsOf(o)' = KrsOf(o)
    BY <1>3 DEF KrsOf
  <2>1. Rolled(KrsOf(o))' = Rolled(KrsOf(o))
    BY <1>3, <2>0, RolledSame
  <2> HIDE DEF o, got
  <2> USE <1>1, <1>3, <1>5, <1>6, <1>10 DEF Holds, At, Recomputes, Exists
  <2>2. RowHolds(o, d)'
    BY DEF RowHolds, Early, KrOps
  <2>3. RollHolds(o, d)'
    BY <2>1 DEF RollHolds
  <2>4. ListHolds(o, d)'
    BY DEF ListHolds, Entry
  <2>5. Own(o) \cap kr_lookup \subseteq c.got.ks
    BY DEF Deletes
  <2>6. ASSUME NEW j \in Own(o)
        PROVE  KrHolds(o, j, d)'
    <3>1. (j \in kr_lookup => key_result[j].there) /\ (~ Exists(o) => ~ key_result[j].there)
      BY DEF KrHolds
    <3>2. ChainHolds(j, d)'
      BY DEF ChainHolds
    <3> QED
      BY <3>1, <3>2 DEF KrHolds
  <2>7. Creates(o, d)' /\ Changes(o, d)' /\ Reports(o, d)' /\ Recounts(o, d)'
    BY DEF Creates, Changes, Reports, Recounts
  <2>8. Deletes(o, d)'
    BY <2>0, <2>5 DEF Deletes
  <2> QED
    BY <2>2, <2>3, <2>4, <2>6, <2>7, <2>8
<1> QED
  BY <1>5, <1>7, <1>8, <1>10, <1>11, TurnHolds

LEMMA DropKrsHolds ==
    ASSUME OkInv, NEW t \in Tasks, DropKrs(t)
    PROVE  OkInv'
<1>0. PICK c : c = call[t]
  OBVIOUS
<1> DEFINE o == c.arg.id
<1>1. c.op = "del_objective" /\ c.at = "dropkrs" /\ c.op \in OkrOps
  BY <1>0 DEF DropKrs, On, OkrOps
<1>2. o \in Objectives /\ (o \notin unsound => Holds(o, c))
  BY <1>0, <1>1, Stands
<1>3. /\ Goto(t, "list")
      /\ key_result' = [k \in KeyResults |-> IF home[k] = o THEN NoKeyResult ELSE key_result[k]]
      /\ UNCHANGED <<objective, by_cycle, children, kr_lookup, check_ins, home>>
      /\ UNCHANGED <<named, stirred, edited, moved, unsound>>
  BY <1>0 DEF DropKrs, Arg, okrHistory
<1>4. PICK d : d = call'[t]
  OBVIOUS
<1>5. Turns(t, c, d) /\ d.op = c.op /\ d.arg = c.arg /\ d.at = "list" /\ d.got = c.got
  BY <1>0, <1>1, <1>3, <1>4, OkJumps DEF OkInv
<1>7. OkAsks(t)'
  BY <1>0, <1>1, <1>3, <1>4, <1>5 DEF OkInv, OkBase, OkAsks, Arg, Sets, KrOps, On, OkrOps
<1>8. ~ At(d, "new_objective", {"main"}) /\ ~ Moving(c) /\ ~ Moving(d) /\ ~ Parting(c) /\ ~ Parting(d)
  BY <1>1, <1>5 DEF At, Moving, Parting
<1>9. NoKeyResult \in [span : Spans, value : Int, conf : Int, there : BOOLEAN] /\ ~ NoKeyResult.there
  BY DEF NoKeyResult, Ghostly, Spans
<1>a. KrTables
  BY DEF OkInv, OkBase, OkTables, KrTables
<1>b. KrTables' /\ KrsApart(o) /\ \A k \in Own(o) : key_result'[k] = NoKeyResult
  BY <1>a, <1>3, <1>9 DEF KrTables, KrsApart, Own
<1>10. /\ OkTables' /\ Apart(o) /\ ParentKept(o, c) /\ Own(o)' = Own(o)
       /\ ListedAs(o)' = ListedAs(o)
       /\ o \notin unsound => FamilyKept(o, d)
  BY <1>2, <1>3, <1>5, <1>8, <1>b, KrWritten
<1>11. o \notin unsound => Holds(o, d)'
  <2> SUFFICES ASSUME Holds(o, c) PROVE Holds(o, d)'
    BY <1>2
  <2>0. KrsOf(o)' = {}
    BY <1>3, <1>9 DEF KrsOf
  <2> HIDE DEF o
  <2> USE <1>1, <1>5, <1>10 DEF Holds, At, Recomputes, Exists
  <2>2. RowHolds(o, d)'
    BY <1>3 DEF RowHolds, Early, KrOps
  <2>3. RollHolds(o, d)'
    BY DEF RollHolds
  <2>4. ListHolds(o, d)'
    BY <1>3 DEF ListHolds, Entry
  <2>5. Own(o) \cap kr_lookup = {}
    BY DEF Deletes
  <2>6. ASSUME NEW j \in Own(o)
        PROVE  KrHolds(o, j, d)'
    BY <1>3, <1>9, <1>b, <2>5 DEF KrHolds, ChainHolds
  <2>7. Creates(o, d)' /\ Changes(o, d)' /\ Reports(o, d)' /\ Recounts(o, d)'
    BY DEF Creates, Changes, Reports, Recounts
  <2>8. Deletes(o, d)'
    BY <1>3, <2>0, <2>5 DEF Deletes
  <2> QED
    BY <2>2, <2>3, <2>4, <2>6, <2>7, <2>8
<1> QED
  BY <1>5, <1>7, <1>8, <1>10, <1>11, TurnHolds

-----------------------------------------------------------------------------
(* A call begins, or is dropped. *)

OpensOkr(t, arg, d) ==
    /\ call[t].op = "none" /\ d = call'[t] /\ Shaped' /\ Only(t)
    /\ d.op \in OkrOps /\ d.arg = arg
    /\ unsound' = unsound \cup (Named(arg) \cap WorkedOn)

LEMMA OkBegins ==
    ASSUME OkBase, NEW t \in Tasks, NEW op \in OkrOps, NEW at, NEW arg, BeginOkr(t, op, at, arg), NEW d, d = call'[t]
    PROVE  OpensOkr(t, arg, d) /\ d.op = op /\ d.at = at
  BY DEF BeginOkr, Begin, BeginWith, OpensOkr, OkBase, Shaped, Only, Running

\* An objective nobody works on is at no stage; a new call is all there is.
LEMMA OpenStages ==
    ASSUME OkBase, NEW t \in Tasks, NEW arg, NEW d, OpensOkr(t, arg, d), NEW o, o = arg.id
    PROVE  /\ o \in Objectives \ unsound' => Stages(o) = {NoCall} /\ Stages(o)' = {d}
           /\ \A q : q # o => Stages(q)' = Stages(q)
<1>1. \A q : \A u \in Tasks : Works(u, q)' <=> Works(u, q) \/ (u = t /\ q = o)
  BY DEF OpensOkr, Only, Works, Arg, OkrOps
<1>2. \A q : ~ Works(t, q)
  BY DEF OpensOkr, Works, OkrOps
<1>3. ASSUME o \notin unsound', NEW u \in Tasks
      PROVE  ~ Works(u, o)
  <2>1. o \notin WorkedOn
    BY <1>3 DEF OpensOkr, Named
  <2> QED
    BY <2>1 DEF WorkedOn, Works, Named
<1>4. ASSUME o \notin unsound'
      PROVE  Stages(o) = {NoCall} /\ Stages(o)' = {d}
  <2>1. Workers(o) = {} /\ Workers(o)' = {t}
    BY <1>1, <1>3, <1>4 DEF Workers
  <2> QED
    BY <2>1 DEF Stages, OpensOkr
<1>5. ASSUME NEW q, q # o
      PROVE  Stages(q)' = Stages(q)
  <2>1. Workers(q)' = Workers(q)
    BY <1>1, <1>5 DEF Workers
  <2>2. \A u \in Workers(q) : u \in Tasks \ {t}
    BY <1>2 DEF Workers
  <2>3. \A u \in Workers(q) : call'[u] = call[u]
    BY <2>2 DEF OpensOkr, Only
  <2>4. {call'[u] : u \in Workers(q)} = {call[u] : u \in Workers(q)}
    BY <2>3
  <2> QED
    BY <2>1, <2>4 DEF Stages
<1> QED
  BY <1>4, <1>5

LEMMA OpenSole ==
    ASSUME OkBase, NEW t \in Tasks, NEW arg, NEW d, OpensOkr(t, arg, d)
    PROVE  Sole'
<1>1. \A u \in Tasks \ {t} : call'[u].op = call[u].op /\ Named(Arg(u))' = Named(Arg(u))
  BY DEF OpensOkr, Only, Arg, Named
<1>2. Named(Arg(t))' = Named(arg)
  BY DEF OpensOkr, Arg, Named
<1>3. \A u \in Tasks \ {t} : call'[u].op \in OkrOps => Named(arg) \cap Named(Arg(u)) \subseteq unsound'
  BY <1>1 DEF OpensOkr, WorkedOn
<1>4. unsound \subseteq unsound'
  BY DEF OpensOkr
<1> SUFFICES ASSUME NEW u \in Tasks, NEW v \in Tasks, u # v, call'[u].op \in OkrOps, call'[v].op \in OkrOps
             PROVE  Named(Arg(u))' \cap Named(Arg(v))' \subseteq unsound'
  BY DEF Sole
<1>5. CASE u = t
  BY <1>1, <1>2, <1>3, <1>5
<1>6. CASE v = t
  BY <1>1, <1>2, <1>3, <1>6
<1>7. CASE u # t /\ v # t
  <2>1. Named(Arg(u)) \cap Named(Arg(v)) \subseteq unsound
    BY <1>1, <1>7 DEF OkBase, Sole
  <2> QED
    BY <1>1, <1>4, <1>7, <2>1
<1> QED
  BY <1>5, <1>6, <1>7

LEMMA BeginHolds ==
    ASSUME OkInv, NEW t \in Tasks, NEW arg, NEW d, OpensOkr(t, arg, d), NEW o \in Objectives, o = arg.id,
           UNCHANGED <<objective, by_cycle, children, key_result, kr_lookup, check_ins, edited, moved>>,
           named' = named \/ (named' = named \cup {o} /\ d.op = "new_objective" /\ o \notin named),
           stirred' \in {stirred, stirred \cup {o}},
           home' = home \/ \E k \in KeyResults : home[k] = "none" /\ home' = [home EXCEPT ![k] = o] /\ o \in named,
           OkAsks(t)', ~ Moving(d), ~ Parting(d),
           d.op = "new_objective" => o \notin named,
           o \notin unsound /\ Holds(o, NoCall) => Holds(o, d)',
           "parent" \in DOMAIN arg /\ arg.parent \in Objectives => Exists(arg.parent) /\ arg.parent # o
    PROVE  OkInv'
<1>1. Sole'
  BY OpenSole DEF OkInv
<1>2. /\ o \in Objectives \ unsound' => Stages(o) = {NoCall} /\ Stages(o)' = {d}
      /\ \A q : q # o => Stages(q)' = Stages(q)
  BY OpenStages DEF OkInv
<1>3. unsound \subseteq unsound' /\ named \subseteq named' /\ named' \subseteq Objectives
  BY DEF OpensOkr, OkInv, OkBase, OkTables
<1>4. \A k \in KeyResults : home'[k] = home[k] \/ (home[k] = "none" /\ home'[k] = o)
  BY DEF OkInv, OkBase, OkTables
<1>5. home' \in [KeyResults -> named' \cup {"none"}]
  BY <1>3 DEF OkInv, OkBase, OkTables
<1>6. \A q : Linked(q, q)' <=> Linked(q, q)
  BY DEF Linked
<1>7. OkTables'
  <2>1. Own("none")' \subseteq Own("none")
    BY <1>4 DEF Own, OkInv, OkBase, OkTables
  <2>2. \A q \in Objectives : (Parts(objective[q]))' /\ objective'[q].parent # q /\ ~ Linked(q, q)'
    BY <1>6 DEF OkInv, OkBase, OkTables, Parts
  <2> QED
    BY <1>3, <1>5, <2>1, <2>2 DEF OkInv, OkBase, OkTables
<1>8. Apart(o)
  BY <1>4 DEF Apart, ListedAs, Linked
<1>9. ASSUME NEW u \in Tasks, u # t
      PROVE  OkAsks(u)'
  <2>1. call'[u] = call[u]
    BY <1>9 DEF OpensOkr, Only
  <2>2. call[u].op \in OkrOps => Arg(u).id \in named /\ Arg(u).id # "none"
    BY DEF OkInv, OkBase, OkAsks, OkTables
  <2>3. call[u].op \in OkrOps => Own(Arg(u).id) \subseteq Own(Arg(u).id)'
    BY <1>4, <2>1, <2>2 DEF Own, Arg
  <2>4. call[u].op \in KrOps => home'[Arg(u).kr] = home[Arg(u).kr]
    BY <1>4, <2>2 DEF OkInv, OkBase, OkAsks, KrOps, OkrOps
  <2>5. OkAsks(u)
    BY DEF OkInv, OkBase
  <2> QED
    BY <1>3, <2>1, <2>3, <2>4, <2>5 DEF OkAsks, Arg, Got, On, Sets, OkrOps, KrOps, Own
<1>10. OkBase'
  BY <1>1, <1>7, <1>9 DEF OkBase, OpensOkr
<1>11. OwnHolds'
  <2> SUFFICES ASSUME NEW q \in Objectives, q \notin unsound', NEW e \in Stages(q)'
               PROVE  Holds(q, e)'
    BY DEF OwnHolds
  <2>1. CASE q = o
    BY <1>2, <1>3, <2>1 DEF OkInv, OwnHolds
  <2>2. CASE q # o
    <3>1. Holds(q, e)
      BY <1>2, <1>3, <2>2 DEF OkInv, OwnHolds
    <3> QED
      BY <1>8, <2>2, <3>1, ApartHolds DEF OkInv
  <2> QED
    BY <2>1, <2>2
<1>12. FamiliesHold'
  <2> SUFFICES ASSUME NEW x \in Objectives, x \notin unsound', NEW p \in Objectives, p \notin unsound', x # p,
                      NEW e \in Stages(x)', NEW f \in Stages(p)'
               PROVE  Binds(x, p, e, f)'
    BY DEF FamiliesHold
  <2>1. (Linked(x, p)' <=> Linked(x, p)) /\ (Family(x, p)' <=> Family(x, p))
    BY DEF Linked, Family, Exists
  <2>2. PICK a \in Stages(x) : Moving(e) <=> Moving(a)
    <3>1. CASE x = o
      BY <1>2, <3>1 DEF Moving, At, NoCall
    <3> QED
      BY <1>2, <3>1
  <2>3. PICK b \in Stages(p) : Parting(f) <=> Parting(b)
    <3>1. CASE p = o
      BY <1>2, <3>1 DEF Parting, At, NoCall
    <3> QED
      BY <1>2, <3>1
  <2>4. Binds(x, p, a, b)
    BY <1>3 DEF OkInv, FamiliesHold
  <2> QED
    BY <2>1, <2>2, <2>3, <2>4 DEF Binds
<1>13. UnbornHolds'
  <2> SUFFICES ASSUME NEW p \in Objectives, p \notin unsound', Unborn(p)', NEW x \in Objectives
               PROVE  objective'[x].parent # p
    BY DEF UnbornHolds
  <2>1. Unborn(p)
    <3>1. CASE p \notin named'
      BY <1>3, <3>1 DEF Unborn
    <3>2. ASSUME NEW u \in Tasks, On(u, "new_objective", "main")', Arg(u)'.id = p
          PROVE  Unborn(p)
      <4>1. CASE u = t
        BY <3>2, <4>1 DEF Unborn, OpensOkr, On, Arg
      <4>2. CASE u # t
        BY <3>2, <4>2 DEF Unborn, OpensOkr, On, Arg, Only
      <4> QED
        BY <4>1, <4>2
    <3> QED
      BY <3>1, <3>2 DEF Unborn
  <2> QED
    BY <1>3, <2>1 DEF OkInv, UnbornHolds
<1>14. ParentsHold'
  <2> SUFFICES ASSUME NEW u \in Tasks, call'[u].op \in OkrOps, "parent" \in DOMAIN Arg(u)', NEW p, p = Arg(u)'.parent,
                      p \in Objectives, p \notin unsound'
               PROVE  Exists(p)'
    BY DEF ParentsHold
  <2>1. CASE u = t
    BY <2>1 DEF OpensOkr, Arg, Exists
  <2>2. CASE u # t
    <3>1. call[u].op \in OkrOps /\ Arg(u)' = Arg(u)
      BY <2>2 DEF OpensOkr, Only, Arg
    <3> QED
      BY <1>3, <3>1 DEF OkInv, ParentsHold, Exists
  <2> QED
    BY <2>1, <2>2
<1> QED
  BY <1>10, <1>11, <1>12, <1>13, <1>14 DEF OkInv

\* A call that has looked at nothing knows nothing.
LEMMA OpensHold ==
    ASSUME NEW o, NEW d, Holds(o, NoCall),
           UNCHANGED <<objective, by_cycle, children, key_result, kr_lookup, check_ins, home,
                       named, stirred, edited, moved>>,
           \/ At(d, "set_objective", {"get"}) \/ At(d, "del_objective", {"get"})
           \/ At(d, "set_kr", {"verify"}) \/ At(d, "del_kr", {"verify"})
           \/ At(d, "check_in", {"value"}) /\ d.arg.kr \in Own(o)
    PROVE  Holds(o, d)'
<1> USE DEF Holds, At, Recomputes, NoCall
<1>1. RowHolds(o, d) /\ RollHolds(o, d) /\ ListHolds(o, d)
  BY DEF RowHolds, RollHolds, ListHolds, Early, KrOps
<1>2. \A k \in Own(o) : KrHolds(o, k, d)
  BY DEF KrHolds, ChainHolds
<1>3. Creates(o, d) /\ Changes(o, d) /\ Deletes(o, d) /\ Reports(o, d) /\ Recounts(o, d)
  BY DEF Creates, Changes, Deletes, Reports, Recounts
<1>4. Holds(o, d)
  BY <1>1, <1>2, <1>3
<1> QED
  BY <1>4 DEF RowHolds, RollHolds, ListHolds, KrHolds, ChainHolds, LinksUp, LastSaid, Creates, Changes,
              Deletes, Reports, Recounts, Exists, Entry, ListedAs, Own, KrsOf, Rolled

LEMMA NewObjectiveHolds ==
    ASSUME OkInv, NEW t \in Tasks, NewObjective(t)
    PROVE  OkInv'
<1>1. PICK o \in Objectives, cy \in Cycles, p \in {"none"} \cup Existing :
          o \notin named /\ BeginOkr(t, "new_objective", "main", [id |-> o, cycle |-> cy, parent |-> p])
          /\ named' = named \cup {o} /\ stirred' = stirred \cup {o}
  BY DEF NewObjective
<1>2. PICK arg : arg = [id |-> o, cycle |-> cy, parent |-> p]
  OBVIOUS
<1>3. PICK d : d = call'[t]
  OBVIOUS
<1>4. OpensOkr(t, arg, d) /\ d.op = "new_objective" /\ d.at = "main"
  BY <1>1, <1>2, <1>3, OkBegins DEF OkInv, OkrOps
<1>5. UNCHANGED <<objective, by_cycle, children, key_result, kr_lookup, check_ins, home, edited, moved>>
  BY DEF NewObjective, okrRows, krRows
<1>6. /\ arg.id = o /\ arg.cycle = cy /\ arg.parent = p /\ DOMAIN arg = {"id", "cycle", "parent"}
  BY <1>2
<1>7. p \in Objectives => Exists(p) /\ p # o
  BY <1>1 DEF Existing, Exists, OkInv, OkBase, OkTables
<1>8. p \in ({"none"} \cup Objectives) \ {o}
  BY <1>7 DEF Existing
<1>9. OkAsks(t)'
  BY <1>1, <1>3, <1>4, <1>6, <1>8 DEF OkAsks, OpensOkr, Arg, Sets, KrOps, On, OkrOps
<1>10. ASSUME o \notin unsound, Holds(o, NoCall)
       PROVE  Holds(o, d)'
  <2>1. ~ Exists(o) /\ o \in stirred'
    BY <1>1, <1>10 DEF Holds, RowHolds
  <2>2. Own(o)' = Own(o)
    BY <1>5 DEF Own
  <2> USE <1>4, <1>5, <1>10, <2>1, <2>2 DEF Holds, At, Recomputes, NoCall, Exists
  <2>3. RowHolds(o, d)' /\ RollHolds(o, d)'
    BY DEF RowHolds, RollHolds, Early
  <2>4. ListHolds(o, d)'
    BY DEF ListHolds, ListedAs
  <2>5. ASSUME NEW k \in Own(o)
        PROVE  KrHolds(o, k, d)'
    BY DEF KrHolds, ChainHolds
  <2>6. Creates(o, d)' /\ Changes(o, d)' /\ Deletes(o, d)' /\ Reports(o, d)' /\ Recounts(o, d)'
    BY DEF Creates, Changes, Deletes, Reports, Recounts
  <2> QED
    BY <2>3, <2>4, <2>5, <2>6
<1>11. ~ Moving(d) /\ ~ Parting(d)
  BY <1>4 DEF Moving, Parting, At
<1> QED
  BY <1>1, <1>4, <1>5, <1>6, <1>7, <1>9, <1>10, <1>11, BeginHolds

LEMMA SetKrHolds ==
    ASSUME OkInv, NEW t \in Tasks, SetKr(t)
    PROVE  OkInv'
<1>1. PICK k \in KeyResults, v \in Values : home[k] # "none"
          /\ BeginOkr(t, "set_kr", "verify", [id |-> home[k], kr |-> k, value |-> v])
  BY DEF SetKr
<1>2. PICK arg : arg = [id |-> home[k], kr |-> k, value |-> v]
  OBVIOUS
<1>a. PICK o : o = home[k]
  OBVIOUS
<1>3. PICK d : d = call'[t]
  OBVIOUS
<1>4. OpensOkr(t, arg, d) /\ d.op = "set_kr" /\ d.at = "verify"
  BY <1>1, <1>2, <1>3, OkBegins DEF OkInv, OkrOps
<1>5. UNCHANGED <<objective, by_cycle, children, key_result, kr_lookup, check_ins, home,
                  named, stirred, edited, moved>>
  BY DEF SetKr, okrRows, krRows
<1>6. /\ arg.id = o /\ arg.kr = k /\ DOMAIN arg = {"id", "kr", "value"} /\ arg.value = v
      /\ home[k] = o
  BY <1>2, <1>a
<1>7. o \in Objectives /\ o \in named /\ v \in Int
  BY <1>1, <1>a DEF OkInv, OkBase, OkTables
<1>8. OkAsks(t)'
  BY <1>1, <1>3, <1>4, <1>5, <1>6, <1>7 DEF OkAsks, OpensOkr, Arg, Sets, KrOps, On, OkrOps
<1>9. Holds(o, NoCall) => Holds(o, d)'
  BY <1>4, <1>5, <1>6, <1>7, OpensHold DEF At, OpensOkr, Own
<1>10. ~ Moving(d) /\ ~ Parting(d) /\ d.op # "new_objective"
  BY <1>4 DEF Moving, Parting, At
<1> QED
  BY <1>4, <1>5, <1>6, <1>7, <1>8, <1>9, <1>10, BeginHolds

LEMMA DelKrHolds ==
    ASSUME OkInv, NEW t \in Tasks, DelKr(t)
    PROVE  OkInv'
<1>1. PICK k \in KeyResults : home[k] # "none"
          /\ BeginOkr(t, "del_kr", "verify", [id |-> home[k], kr |-> k])
  BY DEF DelKr
<1>2. PICK arg : arg = [id |-> home[k], kr |-> k]
  OBVIOUS
<1>a. PICK o : o = home[k]
  OBVIOUS
<1>3. PICK d : d = call'[t]
  OBVIOUS
<1>4. OpensOkr(t, arg, d) /\ d.op = "del_kr" /\ d.at = "verify"
  BY <1>1, <1>2, <1>3, OkBegins DEF OkInv, OkrOps
<1>5. UNCHANGED <<objective, by_cycle, children, key_result, kr_lookup, check_ins, home,
                  named, stirred, edited, moved>>
  BY DEF DelKr, okrRows, krRows
<1>6. /\ arg.id = o /\ arg.kr = k /\ DOMAIN arg = {"id", "kr"}
      /\ home[k] = o
  BY <1>2, <1>a
<1>7. o \in Objectives /\ o \in named
  BY <1>1, <1>a DEF OkInv, OkBase, OkTables
<1>8. OkAsks(t)'
  BY <1>1, <1>3, <1>4, <1>5, <1>6, <1>7 DEF OkAsks, OpensOkr, Arg, Sets, KrOps, On, OkrOps
<1>9. Holds(o, NoCall) => Holds(o, d)'
  BY <1>4, <1>5, <1>6, <1>7, OpensHold DEF At, OpensOkr, Own
<1>10. ~ Moving(d) /\ ~ Parting(d) /\ d.op # "new_objective"
  BY <1>4 DEF Moving, Parting, At
<1> QED
  BY <1>4, <1>5, <1>6, <1>7, <1>8, <1>9, <1>10, BeginHolds

LEMMA CheckInHolds ==
    ASSUME OkInv, NEW t \in Tasks, CheckIn(t)
    PROVE  OkInv'
<1>1. PICK k \in KeyResults, v \in Values, x \in Confidences : home[k] # "none"
          /\ BeginOkr(t, "check_in", "value", [id |-> home[k], kr |-> k, value |-> v, conf |-> x])
  BY DEF CheckIn
<1>2. PICK arg : arg = [id |-> home[k], kr |-> k, value |-> v, conf |-> x]
  OBVIOUS
<1>a. PICK o : o = home[k]
  OBVIOUS
<1>3. PICK d : d = call'[t]
  OBVIOUS
<1>4. OpensOkr(t, arg, d) /\ d.op = "check_in" /\ d.at = "value"
  BY <1>1, <1>2, <1>3, OkBegins DEF OkInv, OkrOps
<1>5. UNCHANGED <<objective, by_cycle, children, key_result, kr_lookup, check_ins, home,
                  named, stirred, edited, moved>>
  BY DEF CheckIn, okrRows, krRows
<1>6. /\ arg.id = o /\ arg.kr = k /\ DOMAIN arg = {"id", "kr", "value", "conf"} /\ arg.value = v /\ arg.conf = x
      /\ home[k] = o
  BY <1>2, <1>a
<1>7. o \in Objectives /\ o \in named /\ v \in Int /\ x \in Int
  <2>1. o \in Objectives /\ o \in named /\ v \in Int
    BY <1>1, <1>a DEF OkInv, OkBase, OkTables
  <2>2. x \in 0 .. 10
    BY <1>1
  <2> QED
    BY <2>1, <2>2
<1>8. OkAsks(t)'
  BY <1>1, <1>3, <1>4, <1>5, <1>6, <1>7 DEF OkAsks, OpensOkr, Arg, Sets, KrOps, On, OkrOps
<1>9. Holds(o, NoCall) => Holds(o, d)'
  BY <1>4, <1>5, <1>6, <1>7, OpensHold DEF At, OpensOkr, Own
<1>10. ~ Moving(d) /\ ~ Parting(d) /\ d.op # "new_objective"
  BY <1>4 DEF Moving, Parting, At
<1> QED
  BY <1>4, <1>5, <1>6, <1>7, <1>8, <1>9, <1>10, BeginHolds

LEMMA DelObjectiveHolds ==
    ASSUME OkInv, NEW t \in Tasks, DelObjective(t)
    PROVE  OkInv'
<1>1. PICK o \in named : BeginOkr(t, "del_objective", "get", [id |-> o])
  BY DEF DelObjective
<1>2. PICK arg : arg = [id |-> o]
  OBVIOUS
<1>3. PICK d : d = call'[t]
  OBVIOUS
<1>4. OpensOkr(t, arg, d) /\ d.op = "del_objective" /\ d.at = "get"
  BY <1>1, <1>2, <1>3, OkBegins DEF OkInv, OkrOps
<1>5. UNCHANGED <<objective, by_cycle, children, key_result, kr_lookup, check_ins, home,
                  named, stirred, edited, moved>>
  BY DEF DelObjective, okrRows, krRows
<1>6. arg.id = o /\ DOMAIN arg = {"id"}
  BY <1>2
<1>7. o \in Objectives
  BY DEF OkInv, OkBase, OkTables
<1>8. OkAsks(t)'
  BY <1>1, <1>3, <1>4, <1>5, <1>6, <1>7 DEF OkAsks, OpensOkr, Arg, Sets, KrOps, On, OkrOps
<1>9. Holds(o, NoCall) => Holds(o, d)'
  BY <1>4, <1>5, <1>6, <1>7, OpensHold DEF At, OpensOkr, Own
<1>10. ~ Moving(d) /\ ~ Parting(d) /\ d.op # "new_objective"
  BY <1>4 DEF Moving, Parting, At
<1> QED
  BY <1>4, <1>5, <1>6, <1>7, <1>8, <1>9, <1>10, BeginHolds

LEMMA SetObjectiveHolds ==
    ASSUME OkInv, NEW t \in Tasks, SetObjective(t)
    PROVE  OkInv'
<1>1. PICK o \in named :
          \/ BeginOkr(t, "set_objective", "get", [id |-> o, status |-> "behind"])
          \/ \E x \in Cycles : BeginOkr(t, "set_objective", "get", [id |-> o, cycle |-> x])
          \/ \E p \in Existing \ {o} : BeginOkr(t, "set_objective", "get", [id |-> o, parent |-> p])
  BY DEF SetObjective
<1>2. PICK arg : /\ BeginOkr(t, "set_objective", "get", arg) /\ arg.id = o
                 /\ \/ DOMAIN arg = {"id", "status"}
                    \/ DOMAIN arg = {"id", "cycle"} /\ arg.cycle \in Cycles
                    \/ DOMAIN arg = {"id", "parent"} /\ arg.parent \in Existing \ {o}
  <2>1. CASE BeginOkr(t, "set_objective", "get", [id |-> o, status |-> "behind"])
    <3>1. LET a == [id |-> o, status |-> "behind"] IN a.id = o /\ DOMAIN a = {"id", "status"}
      OBVIOUS
    <3> QED
      BY <2>1, <3>1
  <2>2. ASSUME NEW x \in Cycles, BeginOkr(t, "set_objective", "get", [id |-> o, cycle |-> x])
        PROVE  \E a : /\ BeginOkr(t, "set_objective", "get", a) /\ a.id = o
                      /\ DOMAIN a = {"id", "cycle"} /\ a.cycle \in Cycles
    <3>1. LET a == [id |-> o, cycle |-> x] IN a.id = o /\ DOMAIN a = {"id", "cycle"} /\ a.cycle \in Cycles
      OBVIOUS
    <3> QED
      BY <2>2, <3>1
  <2>3. ASSUME NEW p \in Existing \ {o}, BeginOkr(t, "set_objective", "get", [id |-> o, parent |-> p])
        PROVE  \E a : /\ BeginOkr(t, "set_objective", "get", a) /\ a.id = o
                      /\ DOMAIN a = {"id", "parent"} /\ a.parent \in Existing \ {o}
    <3>1. LET a == [id |-> o, parent |-> p]
          IN  a.id = o /\ DOMAIN a = {"id", "parent"} /\ a.parent \in Existing \ {o}
      OBVIOUS
    <3> QED
      BY <2>3, <3>1
  <2> QED
    BY <1>1, <2>1, <2>2, <2>3
<1>3. PICK d : d = call'[t]
  OBVIOUS
<1>4. OpensOkr(t, arg, d) /\ d.op = "set_objective" /\ d.at = "get"
  BY <1>2, <1>3, OkBegins DEF OkInv, OkrOps
<1>5. UNCHANGED <<objective, by_cycle, children, key_result, kr_lookup, check_ins, home,
                  named, stirred, edited, moved>>
  BY DEF SetObjective, okrRows, krRows
<1>6. o \in Objectives
  BY DEF OkInv, OkBase, OkTables
<1>7. "parent" \in DOMAIN arg => arg.parent \in Objectives \ {o} /\ Exists(arg.parent)
  BY <1>2 DEF Existing, Exists
<1>8. OkAsks(t)'
  BY <1>2, <1>3, <1>4, <1>5, <1>6, <1>7 DEF OkAsks, OpensOkr, Arg, Sets, KrOps, On, OkrOps
<1>9. Holds(o, NoCall) => Holds(o, d)'
  BY <1>4, <1>5, OpensHold DEF At
<1>10. ~ Moving(d) /\ ~ Parting(d) /\ d.op # "new_objective"
  BY <1>4 DEF Moving, Parting, At
<1> QED
  BY <1>2, <1>4, <1>5, <1>6, <1>7, <1>8, <1>9, <1>10, BeginHolds

LEMMA NewKrHolds ==
    ASSUME OkInv, NEW t \in Tasks, NewKr(t)
    PROVE  OkInv'
<1>1. PICK k \in KeyResults, o \in named :
          /\ home[k] = "none"
          /\ BeginOkr(t, "new_kr", "verify", [id |-> o, kr |-> k])
          /\ home' = [home EXCEPT ![k] = o]
  BY DEF NewKr
<1>2. PICK arg : arg = [id |-> o, kr |-> k]
  OBVIOUS
<1>3. PICK d : d = call'[t]
  OBVIOUS
<1>4. OpensOkr(t, arg, d) /\ d.op = "new_kr" /\ d.at = "verify"
  BY <1>1, <1>2, <1>3, OkBegins DEF OkInv, OkrOps
<1>5. UNCHANGED <<objective, by_cycle, children, key_result, kr_lookup, check_ins,
                  named, stirred, edited, moved>>
  BY DEF NewKr
<1>6. arg.id = o /\ arg.kr = k /\ DOMAIN arg = {"id", "kr"}
  BY <1>2
<1>7. o \in Objectives /\ home'[k] = o /\ home \in [KeyResults -> named \cup {"none"}]
  BY <1>1 DEF OkInv, OkBase, OkTables
<1>8. OkAsks(t)'
  BY <1>1, <1>3, <1>4, <1>5, <1>6, <1>7 DEF OkAsks, OpensOkr, Arg, Sets, KrOps, On, OkrOps
<1>9. key_result[k] = NoKeyResult /\ ~ key_result[k].there /\ check_ins[k] = <<>> /\ k \notin kr_lookup
  BY <1>1 DEF OkInv, OkBase, OkTables, Own, NoKeyResult
<1>10. ASSUME o \notin unsound, Holds(o, NoCall)
       PROVE  Holds(o, d)'
  <2>1. Own(o)' = Own(o) \cup {k}
    BY <1>1, <1>7 DEF Own
  <2>2. KrsOf(o)' = KrsOf(o)
    BY <1>1, <1>5, <1>7, <1>9 DEF KrsOf
  <2>3. Rolled(KrsOf(o))' = Rolled(KrsOf(o))
    BY <1>5, <2>2, RolledSame
  <2>4. d.arg = arg
    BY <1>4 DEF OpensOkr
  <2> USE <1>4, <1>5, <1>10 DEF Holds, At, Recomputes, NoCall, Exists
  <2>5. RowHolds(o, d)'
    BY DEF RowHolds, Early, KrOps
  <2>6. RollHolds(o, d)'
    BY <2>3 DEF RollHolds
  <2>7. ListHolds(o, d)'
    BY DEF ListHolds, ListedAs, Entry
  <2>8. ASSUME NEW j \in Own(o)'
        PROVE  KrHolds(o, j, d)'
    <3>1. CASE j = k
      BY <1>9, <3>1 DEF KrHolds, ChainHolds
    <3>2. CASE j # k
      <4>1. KrHolds(o, j, NoCall)
        BY <2>1, <3>2
      <4> QED
        BY <4>1 DEF KrHolds, ChainHolds, LinksUp, LastSaid
    <3> QED
      BY <3>1, <3>2
  <2>9. Creates(o, d)' /\ Changes(o, d)' /\ Deletes(o, d)' /\ Recounts(o, d)'
    BY DEF Creates, Changes, Deletes, Recounts
  <2>10. Reports(o, d)'
    BY <1>6, <1>9, <2>1, <2>4 DEF Reports
  <2> QED
    BY <2>5, <2>6, <2>7, <2>8, <2>9, <2>10
<1>11. ~ Moving(d) /\ ~ Parting(d) /\ d.op # "new_objective"
  BY <1>4 DEF Moving, Parting, At
<1> QED
  BY <1>1, <1>4, <1>5, <1>6, <1>7, <1>8, <1>10, <1>11, BeginHolds

LEMMA DropOkrHolds ==
    ASSUME OkInv, NEW t \in Tasks, DropOkr(t)
    PROVE  OkInv'
<1>0. PICK o : o = Arg(t).id
  OBVIOUS
<1>1. call[t].op \in OkrOps /\ o \in Objectives
  BY <1>0 DEF DropOkr, Drop, Running, OkInv, OkBase, OkAsks, OkTables
<1>2. UNCHANGED <<objective, by_cycle, children, key_result, kr_lookup, check_ins, home, named, stirred, edited, moved>>
      /\ unsound' = unsound \cup Named(Arg(t))
  BY <1>1 DEF DropOkr, okrRows, krRows
<1>3. Shaped' /\ Only(t) /\ call'[t].op = "none"
  BY Leaves DEF DropOkr, OkInv, OkBase
<1>4. unsound \subseteq unsound' /\ o \in unsound'
  BY <1>0, <1>2 DEF Named
<1>5. \A q : q # o => Stages(q)' = Stages(q)
  <2> SUFFICES ASSUME NEW q, q # o
               PROVE  Stages(q)' = Stages(q)
    OBVIOUS
  <2>1. \A u \in Tasks : Works(u, q)' <=> Works(u, q)
    BY <1>0, <1>3 DEF Only, Works, Arg, OkrOps
  <2>2. Workers(q)' = Workers(q)
    BY <2>1 DEF Workers
  <2>3. \A u \in Workers(q) : call'[u] = call[u]
    BY <1>0, <1>3 DEF Workers, Works, Only
  <2>4. {call'[u] : u \in Workers(q)} = {call[u] : u \in Workers(q)}
    BY <2>3
  <2> QED
    BY <2>2, <2>4 DEF Stages
<1>6. Sole'
  <2>1. \A u \in Tasks : call'[u].op \in OkrOps => call[u].op \in OkrOps /\ Named(Arg(u))' = Named(Arg(u))
    BY <1>3 DEF Only, Arg, Named, OkrOps
  <2> QED
    BY <1>4, <2>1 DEF OkInv, OkBase, Sole
<1>7. OkTables'
  BY <1>2 DEF OkInv, OkBase, OkTables, Parts, Linked, Own
<1>8. ASSUME NEW u \in Tasks
      PROVE  OkAsks(u)'
  <2>1. CASE u = t
    BY <1>3, <2>1 DEF OkAsks, OkrOps, KrOps, On
  <2>2. CASE u # t
    BY <1>2, <1>3, <2>2 DEF OkInv, OkBase, OkAsks, Only, Own, On, Arg, Got, Sets
  <2> QED
    BY <2>1, <2>2
<1>9. Apart(o)
  BY <1>2 DEF Apart, ListedAs, Linked
<1>10. OwnHolds'
  <2> SUFFICES ASSUME NEW q \in Objectives, q \notin unsound', NEW e \in Stages(q)'
               PROVE  Holds(q, e)'
    BY DEF OwnHolds
  <2>1. q # o /\ Holds(q, e)
    BY <1>4, <1>5 DEF OkInv, OwnHolds
  <2> QED
    BY <1>9, <2>1, ApartHolds DEF OkInv
<1>11. FamiliesHold'
  <2> SUFFICES ASSUME NEW x \in Objectives, x \notin unsound', NEW p \in Objectives, p \notin unsound', x # p,
                      NEW e \in Stages(x)', NEW f \in Stages(p)'
               PROVE  Binds(x, p, e, f)'
    BY DEF FamiliesHold
  <2>1. (Linked(x, p)' <=> Linked(x, p)) /\ (Family(x, p)' <=> Family(x, p))
    BY <1>2 DEF Linked, Family, Exists
  <2>2. Binds(x, p, e, f)
    BY <1>4, <1>5 DEF OkInv, FamiliesHold
  <2> QED
    BY <2>1, <2>2 DEF Binds
<1>12. UnbornHolds'
  <2>1. \A p : Unborn(p)' => Unborn(p)
    BY <1>2, <1>3 DEF Unborn, Only, On, Arg
  <2> QED
    BY <1>2, <1>4, <2>1 DEF OkInv, UnbornHolds
<1>13. ParentsHold'
  <2>1. \A u \in Tasks : call'[u].op \in OkrOps => call[u].op \in OkrOps /\ Arg(u)' = Arg(u)
    BY <1>3 DEF Only, Arg, OkrOps
  <2> QED
    BY <1>2, <1>4, <2>1 DEF OkInv, ParentsHold, Exists
<1> QED
  BY <1>3, <1>6, <1>7, <1>8, <1>10, <1>11, <1>12, <1>13 DEF OkInv, OkBase

-----------------------------------------------------------------------------
(* The invariant holds at first, and says what a page shows. *)

LEMMA IdleHolds ==
    ASSUME Shaped, OkTables, unsound = {}, \A t \in Tasks : call[t] = NoCall,
           \A o \in Objectives : Holds(o, NoCall),
           children = {}, \A o, p \in Objectives : objective[o].parent # p
    PROVE  OkInv
<1>1. \A t \in Tasks : call[t].op = "none" /\ call[t].op \notin OkrOps /\ call[t].at = "none"
  BY DEF NoCall, OkrOps
<1>2. \A o : Stages(o) = {NoCall}
  BY <1>1 DEF Stages, Workers, Works
<1>3. OkBase
  BY <1>1 DEF OkBase, Sole, OkAsks, OkrOps, KrOps, On
<1>4. OwnHolds
  BY <1>2 DEF OwnHolds
<1>5. FamiliesHold
  BY DEF FamiliesHold, Binds, Linked, Family
<1>6. UnbornHolds /\ ParentsHold
  BY <1>1 DEF UnbornHolds, ParentsHold
<1> QED
  BY <1>3, <1>4, <1>5, <1>6 DEF OkInv

LEMMA OkStarts ==
    ASSUME OkrsInit, TasksInit(Budgets)
    PROVE  OkInv
<1>1. Shaped /\ \A t \in Tasks : call[t] = NoCall
  BY DEF TasksInit, Shaped, NoCall
<1>2. PICK o \in Objectives, cy \in Cycles :
    /\ \/ /\ objective = [[x \in Objectives |-> NoObjective] EXCEPT ![o].cycle = cy, ![o].status = "on_track"]
          /\ by_cycle = {[id |-> o, cycle |-> cy, status |-> "on_track", roll |-> Unrolled]}
          /\ key_result = [k \in KeyResults |-> NewRow(k)]
          /\ home = [k \in KeyResults |-> o] /\ kr_lookup \in {{}, KeyResults}
          /\ stirred = {o} /\ named = {o}
       \/ /\ objective = [x \in Objectives |-> NoObjective] /\ by_cycle = {}
          /\ key_result = [k \in KeyResults |-> NoKeyResult]
          /\ home = [k \in KeyResults |-> "none"] /\ kr_lookup = {} /\ stirred = {} /\ named = {}
    /\ children = {} /\ check_ins = [k \in KeyResults |-> <<>>]
    /\ edited = {} /\ moved = {} /\ unsound = {}
  BY Zenon DEF OkrsInit
<1>3. <<>> \in Seq([prev : Int, new : Int])
  OBVIOUS
<1>4. \A q \in Objectives : q # "none" /\ ~ Linked(q, q)
  BY <1>2 DEF Linked
<1>5. NoObjective.parent = "none" /\ Parts(NoObjective)
  BY DEF NoObjective, Parts
<1>6. \A k \in KeyResults : NoKeyResult \in [span : Spans, value : Int, conf : Int, there : BOOLEAN]
                            /\ ~ NoKeyResult.there
  BY DEF NoKeyResult, Ghostly, Spans
<1>7. \A k \in KeyResults : NewRow(k) \in [span : Spans, value : Int, conf : Int, there : BOOLEAN]
                            /\ NewRow(k).value = NewRow(k).span.start /\ NewRow(k).there
  BY DEF NewRow, Spans
<1>8. CASE /\ objective = [[x \in Objectives |-> NoObjective] EXCEPT ![o].cycle = cy, ![o].status = "on_track"]
           /\ by_cycle = {[id |-> o, cycle |-> cy, status |-> "on_track", roll |-> Unrolled]}
           /\ key_result = [k \in KeyResults |-> NewRow(k)]
           /\ home = [k \in KeyResults |-> o] /\ kr_lookup \in {{}, KeyResults}
           /\ stirred = {o} /\ named = {o}
  <2>1. PICK row : row = [cycle |-> cy, status |-> "on_track", roll |-> Unrolled, parent |-> "none"]
    OBVIOUS
  <2>2. objective = [x \in Objectives |-> IF x = o THEN row ELSE NoObjective]
    <3> DEFINE f == [[x \in Objectives |-> NoObjective] EXCEPT ![o].cycle = cy]
               m == [NoObjective EXCEPT !.cycle = cy]
    <3>1. f = [x \in Objectives |-> IF x = o THEN m ELSE NoObjective]
      OBVIOUS
    <3>2. m = [cycle |-> cy, status |-> "none", roll |-> Unrolled, parent |-> "none"]
      BY DEF NoObjective
    <3>3. objective = [f EXCEPT ![o].status = "on_track"]
      BY <1>8
    <3> HIDE DEF f, m
    <3>4. [m EXCEPT !.status = "on_track"] = row
      BY <2>1, <3>2
    <3> QED
      BY <3>1, <3>3, <3>4
  <2>3. row # NoObjective /\ row.cycle = cy /\ row.parent = "none" /\ row.status = "on_track"
        /\ row.roll = Unrolled /\ Parts(row)
    BY <2>1 DEF NoObjective, Parts
  <2>4. OkTables
    <3>1. objective = [x \in Objectives |-> objective[x]]
      BY <2>2
    <3>2. \A q \in Objectives : Parts(objective[q]) /\ objective[q].parent # q /\ ~ Linked(q, q)
      BY <1>4, <1>5, <2>2, <2>3
    <3>3. key_result \in [KeyResults -> [span : Spans, value : Int, conf : Int, there : BOOLEAN]]
      BY <1>7, <1>8
    <3>4. check_ins \in [KeyResults -> Seq([prev : Int, new : Int])]
      BY <1>2, <1>3
    <3>5. home \in [KeyResults -> named \cup {"none"}] /\ kr_lookup \subseteq KeyResults /\ Own("none") = {}
      BY <1>8 DEF Own
    <3>6. named \subseteq Objectives /\ \A q \in Objectives \ named : objective[q] = NoObjective
      BY <1>8, <2>2
    <3> QED
      BY <3>1, <3>2, <3>3, <3>4, <3>5, <3>6 DEF OkTables
  <2>5. ASSUME NEW q \in Objectives
        PROVE  Holds(q, NoCall)
    <3> USE <1>2 DEF At, Recomputes, NoCall, Holds, Exists
    <3>1. RowHolds(q, NoCall)
      BY <1>8, <2>2, <2>3 DEF RowHolds, Early
    <3>2. RollHolds(q, NoCall)
      BY <1>8, <2>2 DEF RollHolds
    <3>3. ListHolds(q, NoCall)
      <4>1. CASE q = o
        <5>1. Entry(o) = [id |-> o, cycle |-> cy, status |-> "on_track", roll |-> Unrolled]
          BY <2>2, <2>3 DEF Entry
        <5>2. ListedAs(o) = {Entry(o)}
          BY <1>8, <5>1 DEF ListedAs
        <5> QED
          BY <2>2, <2>3, <4>1, <5>2 DEF ListHolds
      <4>2. CASE q # o
        <5>1. ListedAs(q) = {}
          BY <1>8, <4>2 DEF ListedAs
        <5> QED
          BY <2>2, <4>2, <5>1 DEF ListHolds
      <4> QED
        BY <4>1, <4>2
    <3>4. ASSUME NEW k \in Own(q)
          PROVE  KrHolds(q, k, NoCall)
      <4>1. k \in KeyResults /\ q = o
        BY <1>8 DEF Own
      <4>2. key_result[k].there /\ key_result[k].value = key_result[k].span.start /\ check_ins[k] = <<>>
        BY <1>7, <1>8, <4>1
      <4>3. LinksUp(k) /\ LastSaid(k) = key_result[k].value
        BY <4>2 DEF LinksUp, LastSaid
      <4> QED
        BY <2>2, <2>3, <4>1, <4>2, <4>3 DEF KrHolds, ChainHolds
    <3>5. Creates(q, NoCall) /\ Changes(q, NoCall) /\ Deletes(q, NoCall) /\ Reports(q, NoCall) /\ Recounts(q, NoCall)
      BY DEF Creates, Changes, Deletes, Reports, Recounts
    <3> QED
      BY <3>1, <3>2, <3>3, <3>4, <3>5
  <2>6. \A x, p \in Objectives : objective[x].parent # p
    BY <1>5, <2>2, <2>3
  <2> QED
    BY <1>1, <1>2, <2>4, <2>5, <2>6, IdleHolds
<1>9. CASE /\ objective = [x \in Objectives |-> NoObjective] /\ by_cycle = {}
           /\ key_result = [k \in KeyResults |-> NoKeyResult]
           /\ home = [k \in KeyResults |-> "none"] /\ kr_lookup = {} /\ stirred = {} /\ named = {}
  <2>1. OkTables
    <3>1. key_result \in [KeyResults -> [span : Spans, value : Int, conf : Int, there : BOOLEAN]]
      BY <1>6, <1>9
    <3>2. check_ins \in [KeyResults -> Seq([prev : Int, new : Int])]
      BY <1>2, <1>3
    <3> QED
      BY <1>2, <1>4, <1>5, <1>9, <3>1, <3>2 DEF OkTables, Own
  <2>2. ASSUME NEW q \in Objectives
        PROVE  Holds(q, NoCall)
    <3> USE <1>2, <1>9 DEF At, Recomputes, NoCall, Holds, Exists
    <3>1. RowHolds(q, NoCall) /\ RollHolds(q, NoCall)
      BY DEF RowHolds, RollHolds, Early
    <3>2. ListHolds(q, NoCall)
      BY DEF ListHolds, ListedAs
    <3>3. Own(q) = {}
      BY <1>4 DEF Own
    <3>4. Creates(q, NoCall) /\ Changes(q, NoCall) /\ Deletes(q, NoCall) /\ Reports(q, NoCall) /\ Recounts(q, NoCall)
      BY DEF Creates, Changes, Deletes, Reports, Recounts
    <3> QED
      BY <3>1, <3>2, <3>3, <3>4
  <2>3. \A x, p \in Objectives : objective[x].parent # p
    BY <1>5, <1>9
  <2> QED
    BY <1>1, <1>2, <2>1, <2>2, <2>3, IdleHolds
<1> QED
  BY <1>2, <1>8, <1>9

LEMMA OkRests ==
    ASSUME OkInv, UNCHANGED <<tasking, okrVars>>
    PROVE  OkInv'
<1>1. UNCHANGED <<call, objective, by_cycle, children, key_result, kr_lookup, check_ins, home, named, stirred,
                  edited, moved, unsound>>
  BY DEF tasking, okrVars, okrRows, krRows, okrHistory
<1>2. OkBase'
  <2>1. Shaped'
    BY <1>1 DEF OkInv, OkBase, Shaped
  <2>2. OkTables'
    BY <1>1 DEF OkInv, OkBase, OkTables, Parts, Linked, Own
  <2>3. Sole' /\ \A t \in Tasks : OkAsks(t)'
    BY <1>1 DEF OkInv, OkBase, Sole, OkAsks, Arg, Got, On, Sets, Named, Own
  <2> QED
    BY <2>1, <2>2, <2>3 DEF OkBase
<1>3. \A o : Stages(o)' = Stages(o)
  BY <1>1 DEF Stages, Workers, Works, Arg
<1>4. OwnHolds'
  <2> SUFFICES ASSUME NEW o \in Objectives, o \notin unsound, NEW c \in Stages(o)
               PROVE  Holds(o, c)'
    BY <1>1, <1>3 DEF OwnHolds
  <2>1. Holds(o, c)
    BY DEF OkInv, OwnHolds
  <2> QED
    BY <1>1, <2>1 DEF Holds, RowHolds, RollHolds, ListHolds, KrHolds, ChainHolds, LinksUp, LastSaid, Creates, Changes,
                      Deletes, Reports, Recounts, Exists, Entry, ListedAs, Own, KrsOf, Rolled
<1>5. FamiliesHold'
  BY <1>1, <1>3 DEF OkInv, FamiliesHold, Binds, Family, Linked, Exists
<1>6. UnbornHolds' /\ ParentsHold'
  BY <1>1 DEF OkInv, UnbornHolds, Unborn, ParentsHold, Arg, On, Exists
<1> QED
  BY <1>2, <1>4, <1>5, <1>6 DEF OkInv

\* Nobody is at work on an objective that is still.
LEMMA StillHolds ==
    ASSUME OkInv, NEW o \in Objectives, Still(o)
    PROVE  o \notin unsound /\ Stages(o) = {NoCall} /\ Holds(o, NoCall)
<1>1. \A t \in Tasks : ~ Works(t, o)
  BY DEF Still, WorkedOn, Works, Named
<1>2. Stages(o) = {NoCall}
  BY <1>1 DEF Stages, Workers
<1> QED
  BY <1>2 DEF Still, OkInv, OwnHolds

LEMMA OkAgrees ==
    ASSUME OkInv
    PROVE  ObjectivesAgree
<1>1. RolledUp
  BY StillHolds DEF RolledUp, Holds, RollHolds, Exists, At, NoCall
<1>2. ListedOnce
  <2> SUFFICES ASSUME NEW o \in Objectives, o \notin moved, Still(o)
               PROVE  {r \in UNION {PageOf(c) : c \in Cycles} : r.id = o} =
                        IF objective[o] = NoObjective THEN {}
                        ELSE {[id |-> o, cycle |-> objective[o].cycle, status |-> objective[o].status,
                               roll |-> objective[o].roll]}
    BY DEF ListedOnce
  <2>1. Holds(o, NoCall)
    BY StillHolds
  <2>2. ListedAs(o) = IF Exists(o) THEN {Entry(o)} ELSE {}
    BY <2>1 DEF Holds, ListHolds, At, Recomputes, NoCall
  <2>3. Exists(o) => Entry(o).cycle \in Cycles
    BY <2>1 DEF Holds, RowHolds, Entry
  <2>4. {r \in UNION {PageOf(c) : c \in Cycles} : r.id = o} = {r \in ListedAs(o) : r.cycle \in Cycles}
    BY DEF PageOf, ListedAs
  <2> QED
    BY <2>2, <2>3, <2>4 DEF Exists, Entry
<1>3. ChildrenAgree
  <2> SUFFICES ASSUME NEW o \in Objectives, NEW p \in Objectives, Still(o), Still(p)
               PROVE  o \in ChildrenOf(p) <=> Family(o, p)
    BY DEF ChildrenAgree, Family, Exists
  <2>1. o \in ChildrenOf(p) <=> Linked(o, p)
    BY DEF ChildrenOf, Linked
  <2>2. CASE o = p
    BY <2>1, <2>2 DEF OkInv, OkBase, OkTables, Family
  <2>3. CASE o # p
    <3>1. Binds(o, p, NoCall, NoCall)
      BY <2>3, StillHolds DEF OkInv, FamiliesHold
    <3> QED
      BY <2>1, <3>1 DEF Binds, Moving, Parting, At, NoCall
  <2> QED
    BY <2>2, <2>3
<1>4. CheckInsChain
  <2> SUFFICES ASSUME NEW k \in KeyResults, home[k] # "none", k \notin edited, Still(home[k]), key_result[k].there
               PROVE  /\ \A i \in 1 .. Len(check_ins[k]) :
                            check_ins[k][i].prev = IF i = 1 THEN key_result[k].span.start ELSE check_ins[k][i - 1].new
                      /\ Len(check_ins[k]) > 0 => key_result[k].value = check_ins[k][Len(check_ins[k])].new
    BY DEF CheckInsChain
  <2>1. home[k] \in Objectives /\ k \in Own(home[k])
    BY DEF OkInv, OkBase, OkTables, Own
  <2>2. ChainHolds(k, NoCall)
    BY <2>1, StillHolds DEF Holds, KrHolds
  <2>3. LinksUp(k) /\ LastSaid(k) = key_result[k].value
    BY <2>2 DEF ChainHolds, At, NoCall
  <2>4. Len(check_ins[k]) > 0 => check_ins[k] # <<>>
    OBVIOUS
  <2> QED
    BY <2>3, <2>4 DEF LinksUp, LastSaid
<1> QED
  BY <1>1, <1>2, <1>3, <1>4 DEF ObjectivesAgree

LEMMA OkSteps ==
    ASSUME OkInv, NEW t \in Tasks, OkrsStep(t)
    PROVE  OkInv'
  BY NewObjectiveHolds, SetObjectiveHolds, DelObjectiveHolds, NewKrHolds, SetKrHolds, DelKrHolds, CheckInHolds,
     InsertObjectiveHolds, ListObjectiveHolds, AdoptObjectiveHolds, ReadsObjectiveHolds, WriteStatusHolds,
     LeaveParentHolds, WriteParentHolds, JoinParentHolds, UnlistOldHolds, ListAgainHolds, ReadsToDeleteHolds,
     ReadsKrsHolds, ForgetHolds, UnlookHolds, DropKrsHolds, UnlistObjectiveHolds, OrphanHolds,
     LeaveParentForGoodHolds, DeleteObjectiveHolds, VerifyHolds, InsertKrHolds, ScanObjectiveHolds,
     InsertLookupHolds, UpdateKrHolds, ForgetKrHolds, DeleteKrHolds, UnlookKrHolds, ReadsValueHolds,
     InsertCheckInHolds, FindsObjectiveHolds, UpdateFromCheckInHolds, RollsUpHolds, FindsWorkspaceHolds,
     WriteProgressHolds, ListProgressHolds, DropOkrHolds
  DEF OkrsStep

-----------------------------------------------------------------------------
(* The theorem. *)

OkSpec ==
    /\ OkrsInit /\ TasksInit(Budgets)
    /\ [][\E t \in Tasks : OkrsStep(t)]_<<tasking, okrVars>>

\* The progress of an objective is that of its key results, the page of its cycle
\* lists it as it is, its parent has it among the children, and the check-ins of a
\* key result are a chain, for any number of objectives, key results, calls and
\* dropped calls, wherever no two calls worked on the objective at once and none
\* was dropped on the way (update_objective, delete_objective, create_check_in,
\* recompute_objective_progress).
THEOREM ObjectivesAgreeAlways == OkSpec => []ObjectivesAgree
<1>1. OkrsInit /\ TasksInit(Budgets) => OkInv
  BY OkStarts
<1>2. OkInv /\ [\E t \in Tasks : OkrsStep(t)]_<<tasking, okrVars>> => OkInv'
  BY OkSteps, OkRests
<1>3. OkInv => ObjectivesAgree
  BY OkAgrees
<1> QED
  BY <1>1, <1>2, <1>3, PTL DEF OkSpec
=============================================================================
