----------------------------- MODULE Rooms_proofs -----------------------------
(***************************************************************************)
(* Who has joined a room knows it: the own nick, the occupants, and the    *)
(* messages that were missed; for any nicks, any number of commands,       *)
(* losses and moves of others, whatever crosses on the stream.  Inv says   *)
(* what is still to come on the stream, and is preserved by every action.  *)
(***************************************************************************)
EXTENDS Rooms, FiniteSetTheorems, SequenceTheorems, TLAPS

-----------------------------------------------------------------------------
(* What is on the stream.                                                  *)

PingIds == {Min(S) : S \in SUBSET (1..MaxPings)}

Requests ==
  [what : {"join", "nick"}, nick : Nicks] \union
  [what : {"ping"}, nick : Nicks, id : PingIds] \union [what : {"items", "leave"}]

Stanzas ==
  [what : {"here"}, nick : Nicks, self : BOOLEAN, full : BOOLEAN] \union
  [what : {"gone"}, nick : Nicks, self : BOOLEAN, to : Nicks \union {NoNick}] \union
  [what : {"msg"}, live : BOOLEAN] \union [what : {"error"}] \union
  [what : {"pong"}, id : PingIds, answer : {"in", "out", "ambiguous"}] \union
  [what : {"items"}, nicks : SUBSET Nicks]

Own(x)  == x.what \in {"here", "gone"} /\ x.self
Full(x) == x.what = "here" /\ x.full
Live(x) == x.what = "msg" /\ x.live

Shows(x, n) == (x.what = "here" /\ x.nick = n) \/ (x.what = "items" /\ n \in x.nicks)
Hides(x, n) == x.what = "gone" /\ x.nick = n

\* From the k-th stanza of s on: n is taken off the list, or is on it at the end.
HiddenFrom(s, n, k) == \E m \in 1..Len(s) : m >= k /\ Hides(s[m], n)
ShownFrom(s, n, k) ==
  \E i \in 1..Len(s) : i >= k /\ Shows(s[i], n) /\ ~HiddenFrom(s, n, i + 1)

\* The last stanza of s about us has us as n; no stanza of it is about us.
LastOwn(s, n) ==
  \E i \in 1..Len(s) : /\ s[i].what = "here" /\ s[i].self /\ s[i].nick = n
                       /\ \A m \in 1..Len(s) : m > i => ~Own(s[m])
NoOwn(s)  == \A i \in 1..Len(s) : ~Own(s[i])
Errors(s) == \E i \in 1..Len(s) : s[i].what = "error"

AskedBy(a, what) == \E i \in 1..Len(a.out) : a.out[i].what = what

-----------------------------------------------------------------------------
(* The inductive invariant.                                                *)

Account(a) ==
  /\ DOMAIN a = {"up", "sm", "out", "chan", "nickname", "pings"}
  /\ DOMAIN a.chan = {"open", "joining", "self_nick", "due", "present", "joined"}
  /\ a.out \in Seq(Requests) /\ a.nickname \in Nicks
  /\ a.chan.open => a.chan.self_nick \in Nicks
  /\ IsFiniteSet(a.pings)

Typed ==
  /\ Account(acct) /\ s2c \in Seq(Stanzas)
  /\ room \in [{Self, Other} -> Nicks \union {NoNick}]
  /\ DOMAIN seen = {"refused", "left", "gap"}

\* Two occupants have two nicks; the last presence of a flood is one's own.
Sound ==
  /\ room[Self] = room[Other] => room[Self] = NoNick
  /\ \A f \in 1..Len(s2c) : Full(s2c[f]) => s2c[f].self

In     == room[Self] # NoNick
IsIn   == acct.chan.open /\ acct.chan.joined
Known(n) == ShownFrom(s2c, n, 1) \/ (n \in acct.chan.present /\ ~HiddenFrom(s2c, n, 1))

\* The last that the stream says of us is the nick we have, if no join is under way.
NickFollows ==
  In /\ ~seen.refused /\ ~Errors(s2c) /\ ~AskedBy(acct, "join") =>
    \/ LastOwn(s2c, room[Self])
    \/ NoOwn(s2c) /\ (IsIn => acct.chan.self_nick = room[Self])

\* A flood is one: who has read its last presence has read the others, or will ask who is there.
OccupantsFollow ==
  In /\ ~AskedBy(acct, "items") => \A who \in {Self, Other} : room[who] # NoNick =>
    /\ IsIn => Known(room[who])
    /\ \A f \in 1..Len(s2c) : Full(s2c[f]) =>
         /\ f > 1 => ShownFrom(s2c, room[who], f - 1)
         /\ f = 1 /\ acct.chan.open /\ ~acct.chan.joining => Known(room[who])

\* The archive is asked when the room confirms the join; no message comes before that.
GapFollows ==
  seen.gap =>
    /\ acct.chan.open /\ acct.chan.joining
    /\ In => ~NoOwn(s2c)
    /\ \A j \in 1..Len(s2c) : Live(s2c[j]) => \E i \in 1..Len(s2c) : i < j /\ Own(s2c[i])

Inv == Typed /\ Sound /\ NickFollows /\ OccupantsFollow /\ GapFollows

LEMMA InvImplies == Inv => RoomIsKnown
<1> SUFFICES ASSUME Inv PROVE RoomIsKnown
  OBVIOUS
<1> SUFFICES ASSUME Joined PROVE /\ ~seen.refused => acct.chan.self_nick = room[Self]
                                 /\ \A who \in {Self, Other} :
                                      room[who] \in acct.chan.present \union {NoNick}
                                 /\ ~seen.gap
  BY DEF RoomIsKnown, OwnNickAgrees, OccupantsAreShown, GapIsFetched
<1>1. /\ Len(s2c) = 0 /\ Len(acct.out) = 0 /\ In /\ IsIn
  BY DEF Joined, Settled, In, IsIn
<1>2. /\ NoOwn(s2c) /\ ~Errors(s2c) /\ ~AskedBy(acct, "join") /\ ~AskedBy(acct, "items")
      /\ \A n : ~ShownFrom(s2c, n, 1) /\ ~LastOwn(s2c, n)
  BY <1>1 DEF NoOwn, Errors, AskedBy, ShownFrom, LastOwn
<1> QED
  BY <1>1, <1>2 DEF Inv, NickFollows, OccupantsFollow, GapFollows, Known

-----------------------------------------------------------------------------
(* Sequences: a stanza is read, and stanzas are added.                     *)

LEMMA TailFacts ==
  ASSUME NEW S, NEW s \in Seq(S), Len(s) > 0
  PROVE  /\ Tail(s) \in Seq(S) /\ Len(Tail(s)) = Len(s) - 1 /\ Head(s) = s[1] /\ s[1] \in S
         /\ \A i \in 1..Len(Tail(s)) : Tail(s)[i] = s[i + 1]
BY HeadTailProperties, EmptySeq, ElementOfSeq

LEMMA ConcatFacts ==
  ASSUME NEW S, NEW s \in Seq(S), NEW t \in Seq(S)
  PROVE  /\ s \o t \in Seq(S) /\ Len(s \o t) = Len(s) + Len(t)
         /\ \A i \in 1..Len(s) : (s \o t)[i] = s[i]
         /\ \A i \in 1..Len(t) : (s \o t)[Len(s) + i] = t[i]
BY ConcatProperties

\* A stanza of s \o t is of s or of t.
LEMMA Halves ==
  ASSUME NEW S, NEW s \in Seq(S), NEW t \in Seq(S), NEW u, u = s \o t
  PROVE  /\ \A i \in 1..Len(u) : \/ i \in 1..Len(s) /\ u[i] = s[i]
                                 \/ i - Len(s) \in 1..Len(t) /\ u[i] = t[i - Len(s)]
         /\ \A i \in 1..Len(s) : i \in 1..Len(u) /\ u[i] = s[i]
         /\ \A i \in 1..Len(t) : Len(s) + i \in 1..Len(u) /\ u[Len(s) + i] = t[i]
<1>1. /\ Len(s) \in Nat /\ Len(t) \in Nat /\ Len(u) = Len(s) + Len(t)
      /\ \A i \in 1..Len(s) : u[i] = s[i]
      /\ \A i \in 1..Len(t) : u[Len(s) + i] = t[i]
  BY ConcatFacts
<1> QED BY <1>1

LEMMA ReadOne ==
  ASSUME NEW s \in Seq(Stanzas), Len(s) > 0, NEW n, NEW k \in Nat \ {0}
  PROVE  /\ ShownFrom(s, n, k + 1) => ShownFrom(Tail(s), n, k)
         /\ ShownFrom(s, n, 1) =>
              ShownFrom(Tail(s), n, 1) \/ (Shows(s[1], n) /\ ~HiddenFrom(Tail(s), n, 1))
         /\ ~HiddenFrom(s, n, 1) => ~HiddenFrom(Tail(s), n, 1) /\ ~Hides(s[1], n)
<1> DEFINE t == Tail(s)
<1>1. /\ Len(s) \in Nat /\ Len(t) = Len(s) - 1
      /\ \A i \in 1..Len(t) : t[i] = s[i + 1]
  BY TailFacts
<1> HIDE DEF t
<1>2. ASSUME NEW j \in Nat \ {0}
      PROVE  HiddenFrom(t, n, j) => HiddenFrom(s, n, j + 1)
  BY <1>1 DEF HiddenFrom
<1>3. ASSUME NEW i \in 1..Len(s), i >= k + 1, Shows(s[i], n), ~HiddenFrom(s, n, i + 1)
      PROVE  ShownFrom(t, n, k)
  <2>1. i - 1 \in 1..Len(t) /\ t[i - 1] = s[i] /\ i - 1 >= k /\ (i - 1) + 1 = i
    BY <1>1, <1>3
  <2>2. ~HiddenFrom(t, n, i)
    BY <1>2, <1>3
  <2> QED BY <1>3, <2>1, <2>2 DEF ShownFrom
<1>4. ShownFrom(s, n, k + 1) => ShownFrom(t, n, k)
  BY <1>3 DEF ShownFrom
<1>5. ASSUME NEW i \in 1..Len(s), i >= 1, Shows(s[i], n), ~HiddenFrom(s, n, i + 1)
      PROVE  ShownFrom(t, n, 1) \/ (Shows(s[1], n) /\ ~HiddenFrom(t, n, 1))
  <2>1. CASE i = 1
    BY <1>2, <1>5, <2>1
  <2>2. CASE i > 1
    <3>1. i - 1 \in 1..Len(t) /\ t[i - 1] = s[i] /\ i - 1 >= 1 /\ (i - 1) + 1 = i
      BY <1>1, <1>5, <2>2
    <3>2. ~HiddenFrom(t, n, i)
      BY <1>2, <1>5
    <3> QED BY <1>5, <3>1, <3>2 DEF ShownFrom
  <2> QED BY <1>5, <2>1, <2>2
<1>6. ~HiddenFrom(s, n, 1) => ~HiddenFrom(t, n, 1) /\ ~Hides(s[1], n)
  BY <1>1 DEF HiddenFrom
<1>7. ShownFrom(s, n, 1) => ShownFrom(t, n, 1) \/ (Shows(s[1], n) /\ ~HiddenFrom(t, n, 1))
  BY <1>5 DEF ShownFrom
<1> QED BY <1>4, <1>6, <1>7 DEF t

LEMMA MoreToRead ==
  ASSUME NEW s \in Seq(Stanzas), NEW t \in Seq(Stanzas), NEW n, NEW k \in Nat
  PROVE  /\ ShownFrom(t, n, 1) /\ k <= Len(s) + 1 => ShownFrom(s \o t, n, k)
         /\ ShownFrom(s, n, k) /\ ~HiddenFrom(t, n, 1) => ShownFrom(s \o t, n, k)
         /\ ~HiddenFrom(s, n, k) /\ ~HiddenFrom(t, n, 1) => ~HiddenFrom(s \o t, n, k)
<1> DEFINE u == s \o t
<1>1. /\ Len(s) \in Nat /\ Len(t) \in Nat /\ Len(u) = Len(s) + Len(t)
      /\ \A i \in 1..Len(s) : u[i] = s[i]
      /\ \A i \in 1..Len(t) : u[Len(s) + i] = t[i]
  BY ConcatFacts
<1> HIDE DEF u
<1>2. \A m \in 1..Len(u) : \/ m \in 1..Len(s) /\ u[m] = s[m]
                           \/ m - Len(s) \in 1..Len(t) /\ u[m] = t[m - Len(s)]
  BY <1>1
<1>3. ASSUME NEW j \in Nat, ~HiddenFrom(s, n, j), ~HiddenFrom(t, n, 1)
      PROVE  ~HiddenFrom(u, n, j)
  BY <1>1, <1>2, <1>3 DEF HiddenFrom
<1>4. ASSUME NEW i \in 1..Len(t), ~HiddenFrom(t, n, i + 1)
      PROVE  ~HiddenFrom(u, n, Len(s) + i + 1)
  <2>1. ASSUME NEW m \in 1..Len(u), m >= Len(s) + i + 1
        PROVE  ~Hides(u[m], n)
    <3>1. m - Len(s) \in 1..Len(t) /\ m - Len(s) >= i + 1 /\ u[m] = t[m - Len(s)]
      BY <1>1, <1>2, <2>1
    <3> QED BY <1>4, <3>1 DEF HiddenFrom
  <2> QED BY <2>1 DEF HiddenFrom
<1>5. ASSUME ShownFrom(t, n, 1), k <= Len(s) + 1 PROVE ShownFrom(u, n, k)
  <2>1. PICK i \in 1..Len(t) : Shows(t[i], n) /\ ~HiddenFrom(t, n, i + 1)
    BY <1>5 DEF ShownFrom
  <2>2. /\ Len(s) + i \in 1..Len(u) /\ u[Len(s) + i] = t[i] /\ Len(s) + i >= k
    BY <1>1, <1>5
  <2> QED BY <1>4, <2>1, <2>2 DEF ShownFrom
<1>6. ASSUME ShownFrom(s, n, k), ~HiddenFrom(t, n, 1) PROVE ShownFrom(u, n, k)
  <2>1. PICK i \in 1..Len(s) : i >= k /\ Shows(s[i], n) /\ ~HiddenFrom(s, n, i + 1)
    BY <1>6 DEF ShownFrom
  <2>2. i \in 1..Len(u) /\ u[i] = s[i] /\ ~HiddenFrom(u, n, i + 1)
    BY <1>1, <1>3, <1>6, <2>1
  <2> QED BY <2>1, <2>2 DEF ShownFrom
<1> QED BY <1>3, <1>5, <1>6 DEF u

-----------------------------------------------------------------------------
(* What the operators on the account do.                                   *)

\* b asks for whatever a asks for; nothing else of the room has changed.
Keeps(a, b) ==
  /\ Account(b)
  /\ \A what \in {"join", "items"} : AskedBy(a, what) => AskedBy(b, what)

LEMMA SendFacts ==
  ASSUME NEW a, Account(a), NEW x \in Requests
  PROVE  /\ Keeps(a, Send(a, x)) /\ AskedBy(Send(a, x), x.what)
         /\ Send(a, x).chan = a.chan /\ Send(a, x).nickname = a.nickname
         /\ Send(a, x).pings = a.pings
<1> DEFINE b == Send(a, x)
<1>1. /\ b.chan = a.chan /\ b.nickname = a.nickname /\ b.pings = a.pings
      /\ b.out = Append(a.out, x) /\ DOMAIN b = DOMAIN a
  BY DEF Send, Account
<1>2. a.out \in Seq(Requests)
  BY DEF Account
<1>3. /\ b.out \in Seq(Requests) /\ Len(b.out) = Len(a.out) + 1
      /\ Len(a.out) \in Nat /\ b.out[Len(a.out) + 1] = x
      /\ \A i \in 1..Len(a.out) : b.out[i] = a.out[i]
  BY <1>1, <1>2
<1> HIDE DEF b
<1>4. Account(b)
  BY <1>1, <1>3 DEF Account
<1>5. \A what : AskedBy(a, what) => AskedBy(b, what)
  BY <1>3 DEF AskedBy
<1>6. AskedBy(b, x.what)
  BY <1>3 DEF AskedBy
<1> QED BY <1>1, <1>4, <1>5, <1>6 DEF Keeps, b

\* A change that sends nothing.
LEMMA SilentFacts ==
  ASSUME NEW a, Account(a), NEW b, DOMAIN b = DOMAIN a, DOMAIN b.chan = DOMAIN a.chan,
         b.out = a.out, b.nickname \in Nicks, b.chan.open => b.chan.self_nick \in Nicks,
         IsFiniteSet(b.pings)
  PROVE  Keeps(a, b)
BY DEF Account, Keeps, AskedBy

LEMMA KeepsOn ==
  ASSUME NEW a, NEW b, NEW c, Keeps(a, b), Keeps(b, c)
  PROVE  Keeps(a, c)
BY DEF Keeps

LEMMA JoinNickFacts ==
  ASSUME NEW a, Account(a)
  PROVE  JoinNick(a) \in Nicks
BY RoomConstants DEF JoinNick, Account

LEMMA SendJoinFacts ==
  ASSUME NEW a, Account(a), NEW nick \in Nicks
  PROVE  LET b == SendJoin(a, nick)
         IN  /\ Keeps(a, b) /\ AskedBy(b, "join") /\ b.pings = a.pings
             /\ b.chan.open = a.chan.open /\ b.chan.joining = a.chan.joining
             /\ b.chan.present = a.chan.present /\ b.chan.joined = a.chan.joined
<1> DEFINE x == [what |-> "join", nick |-> nick]
           b == Send(a, x)
           c == SendJoin(a, nick)
<1>1. x \in Requests /\ x.what = "join"
  BY DEF Requests
<1>2. /\ Keeps(a, b) /\ AskedBy(b, "join") /\ b.chan = a.chan /\ b.nickname = a.nickname
      /\ b.pings = a.pings
  BY <1>1, SendFacts
<1>3. c = IF a.chan.open THEN [b EXCEPT !.chan.self_nick = nick] ELSE b
  BY DEF SendJoin
<1> HIDE DEF b, c
<1>4. Account(b)
  BY <1>2 DEF Keeps
<1>5. /\ DOMAIN c = DOMAIN b /\ DOMAIN c.chan = DOMAIN b.chan /\ c.out = b.out
      /\ c.nickname = b.nickname /\ c.pings = b.pings
      /\ c.chan.open = b.chan.open /\ c.chan.joining = b.chan.joining
      /\ c.chan.present = b.chan.present /\ c.chan.joined = b.chan.joined
      /\ c.chan.open => c.chan.self_nick \in Nicks
  BY <1>3, <1>4 DEF Account
<1>6. Keeps(b, c)
  BY <1>4, <1>5, SilentFacts DEF Account
<1>7. AskedBy(c, "join")
  BY <1>2, <1>6 DEF Keeps
<1> QED BY <1>2, <1>5, <1>6, <1>7, KeepsOn DEF c

LEMMA EnterFacts ==
  ASSUME NEW a, Account(a), NEW nick \in Nicks
  PROVE  LET b == Enter(a, nick)
         IN  /\ Keeps(a, b) /\ AskedBy(b, "join") /\ b.chan.open /\ b.chan.joining
             /\ a.chan.open => b.chan.present = a.chan.present /\ b.chan.joined = a.chan.joined
             /\ ~a.chan.open => ~b.chan.joined
<1> DEFINE b == IF a.chan.open THEN a ELSE [a EXCEPT !.chan = NewChannel(a)]
           c == [b EXCEPT !.chan.joining = TRUE]
<1>1. /\ DOMAIN b = DOMAIN a /\ DOMAIN b.chan = DOMAIN a.chan /\ b.out = a.out
      /\ b.nickname = a.nickname /\ b.pings = a.pings /\ b.chan.open
      /\ b.chan.self_nick \in Nicks
      /\ a.chan.open => b.chan.present = a.chan.present /\ b.chan.joined = a.chan.joined
      /\ ~a.chan.open => ~b.chan.joined
  BY JoinNickFacts DEF NewChannel, Account
<1> HIDE DEF b
<1>2. /\ DOMAIN c = DOMAIN a /\ DOMAIN c.chan = DOMAIN a.chan /\ c.out = a.out
      /\ c.nickname = a.nickname /\ c.pings = a.pings /\ c.chan.open
      /\ c.chan.self_nick \in Nicks /\ c.chan.joining
      /\ a.chan.open => c.chan.present = a.chan.present /\ c.chan.joined = a.chan.joined
      /\ ~a.chan.open => ~c.chan.joined
  BY <1>1 DEF Account
<1>3. Enter(a, nick) = SendJoin(c, nick)
  BY DEF Enter, b
<1> HIDE DEF c
<1>4. Keeps(a, c)
  <2>1. c.nickname \in Nicks /\ IsFiniteSet(c.pings)
    BY <1>2 DEF Account
  <2> QED BY <1>2, <2>1, SilentFacts
<1>5. Account(c)
  BY <1>4 DEF Keeps
<1> QED BY <1>2, <1>3, <1>4, <1>5, SendJoinFacts, KeepsOn

LEMMA RejoinFacts ==
  ASSUME NEW a, Account(a)
  PROVE  LET b == Rejoin(a)
         IN  /\ Keeps(a, b) /\ b.chan.open = a.chan.open
             /\ b.chan.open => b.chan.joining /\ AskedBy(b, "join")
<1> DEFINE c == [a EXCEPT !.chan.joining = TRUE]
<1>1. CASE a.chan.open
  <2>1. /\ DOMAIN c = DOMAIN a /\ DOMAIN c.chan = DOMAIN a.chan /\ c.out = a.out
        /\ c.nickname = a.nickname /\ c.pings = a.pings /\ c.chan.open
        /\ c.chan.self_nick = a.chan.self_nick /\ c.chan.joining
    BY <1>1 DEF Account
  <2>2. Rejoin(a) = SendJoin(c, JoinNick(a)) /\ JoinNick(a) \in Nicks
    BY <1>1, JoinNickFacts DEF Rejoin
  <2> HIDE DEF c
  <2>3. Keeps(a, c)
    <3>1. c.nickname \in Nicks /\ IsFiniteSet(c.pings) /\ c.chan.self_nick \in Nicks
      BY <1>1, <2>1 DEF Account
    <3> QED BY <2>1, <3>1, SilentFacts
  <2>4. Account(c)
    BY <2>3 DEF Keeps
  <2> QED BY <1>1, <2>1, <2>2, <2>3, <2>4, SendJoinFacts, KeepsOn
<1>2. CASE ~a.chan.open
  BY <1>2 DEF Rejoin, Keeps
<1> QED BY <1>1, <1>2

LEMMA SelfPingFacts ==
  ASSUME NEW a, Account(a), a.chan.open, FreeIds(a) \subseteq 1..MaxPings
  PROVE  LET b == SelfPing(a)
         IN  /\ Keeps(a, b)
             /\ b.chan.open = a.chan.open /\ b.chan.joining = a.chan.joining
             /\ b.chan.present = a.chan.present /\ b.chan.joined = a.chan.joined
             /\ b.chan.self_nick = a.chan.self_nick
<1> DEFINE id == Min(FreeIds(a))
           x == [what |-> "ping", nick |-> a.chan.self_nick, id |-> id]
           b == Send(a, x)
           c == SelfPing(a)
<1>1. id \in PingIds /\ a.chan.self_nick \in Nicks
  BY DEF PingIds, Account
<1> HIDE DEF id
<1>2. x \in Requests
  BY <1>1 DEF Requests
<1>3. Keeps(a, b) /\ b.chan = a.chan /\ b.nickname = a.nickname /\ b.pings = a.pings
  BY <1>2, SendFacts
<1>4. c = [b EXCEPT !.pings = @ \union {[id |-> id, old |-> FALSE]}, !.chan.due = FALSE]
  BY DEF SelfPing, id
<1> HIDE DEF b, c, x
<1>5. Account(b)
  BY <1>3 DEF Keeps
<1>6. /\ DOMAIN c = DOMAIN b /\ DOMAIN c.chan = DOMAIN b.chan /\ c.out = b.out
      /\ c.nickname = b.nickname /\ c.pings = b.pings \union {[id |-> id, old |-> FALSE]}
      /\ c.chan.open = b.chan.open /\ c.chan.joining = b.chan.joining
      /\ c.chan.present = b.chan.present /\ c.chan.joined = b.chan.joined
      /\ c.chan.self_nick = b.chan.self_nick
  BY <1>4, <1>5 DEF Account
<1>7. IsFiniteSet(c.pings)
  <2>1. IsFiniteSet(b.pings)
    BY <1>5 DEF Account
  <2>2. IsFiniteSet(b.pings \union {[id |-> id, old |-> FALSE]})
    BY <2>1, FS_AddElement
  <2> QED BY <1>6, <2>2
<1>8. Keeps(b, c)
  BY <1>5, <1>6, <1>7, SilentFacts DEF Account
<1> QED BY <1>3, <1>6, <1>8, KeepsOn DEF c

LEMMA SweepFacts ==
  ASSUME NEW a, Account(a)
  PROVE  Keeps(a, Sweep(a)) /\ Sweep(a).chan = a.chan
<1> DEFINE stale == {q \in a.pings : q.old}
           nick == IF a.chan.open THEN a.chan.self_nick ELSE a.nickname
           x == [what |-> "join", nick |-> nick]
           joins == [k \in 1..Cardinality(stale) |-> x]
           b == Sweep(a)
<1>1. IsFiniteSet(stale) /\ IsFiniteSet(a.pings \ stale) /\ Cardinality(stale) \in Nat
  BY FS_Subset, FS_CardinalityType, FS_Difference DEF Account
<1>2. x \in Requests
  BY DEF Requests, Account
<1>3. /\ DOMAIN b = DOMAIN a /\ b.out = a.out \o joins /\ b.chan = a.chan
      /\ b.nickname = a.nickname /\ b.pings = a.pings \ stale
  BY DEF Sweep, Account
<1> HIDE DEF stale, x, b
<1>4. joins \in Seq(Requests)
  BY <1>1, <1>2
<1> HIDE DEF joins
<1>5. /\ b.out \in Seq(Requests) /\ Len(b.out) = Len(a.out) + Len(joins)
      /\ Len(joins) \in Nat /\ Len(a.out) \in Nat
      /\ \A i \in 1..Len(a.out) : b.out[i] = a.out[i]
  BY <1>3, <1>4, ConcatFacts DEF Account
<1>6. Account(b)
  BY <1>1, <1>3, <1>5 DEF Account
<1>7. \A what : AskedBy(a, what) => AskedBy(b, what)
  BY <1>5 DEF AskedBy
<1> QED BY <1>3, <1>6, <1>7 DEF Keeps, b

-----------------------------------------------------------------------------
(* What the handlers do with a stanza.                                     *)

LEMMA ConfirmedFacts ==
  ASSUME NEW a, Account(a), a.chan.open, NEW nick \in Nicks
  PROVE  LET b == Confirmed(a, nick)
         IN  /\ Keeps(a, b) /\ b.chan.open /\ b.chan.self_nick = nick
             /\ b.chan.present = a.chan.present /\ b.chan.joined = a.chan.joined
             /\ a.chan.joining => AskedBy(b, "items")
<1> DEFINE c == [a EXCEPT !.chan.self_nick = nick, !.chan.joining = FALSE]
           x == [what |-> "items"]
<1>1. /\ DOMAIN c = DOMAIN a /\ DOMAIN c.chan = DOMAIN a.chan /\ c.out = a.out
      /\ c.nickname = a.nickname /\ c.pings = a.pings /\ c.chan.open
      /\ c.chan.self_nick = nick /\ c.chan.present = a.chan.present
      /\ c.chan.joined = a.chan.joined
  BY DEF Account
<1>2. x \in Requests /\ x.what = "items"
  BY DEF Requests
<1>3. Confirmed(a, nick) = IF a.chan.joining THEN Send(c, x) ELSE c
  BY DEF Confirmed
<1> HIDE DEF c, x
<1>4. Keeps(a, c)
  <2>1. c.nickname \in Nicks /\ IsFiniteSet(c.pings)
    BY <1>1 DEF Account
  <2> QED BY <1>1, <2>1, SilentFacts
<1>5. Account(c)
  BY <1>4 DEF Keeps
<1>6. Keeps(c, Send(c, x)) /\ AskedBy(Send(c, x), "items") /\ Send(c, x).chan = c.chan
  BY <1>2, <1>5, SendFacts
<1> QED BY <1>1, <1>3, <1>4, <1>6, KeepsOn

\* The account a becomes b when it reads x.
Heeds(a, b, x) ==
  /\ Keeps(a, b)
  /\ a.chan.open => b.chan.open
  /\ a.chan.open => \A n : (n \in a.chan.present /\ ~Hides(x, n)) \/ Shows(x, n) =>
                             n \in b.chan.present
  /\ b.chan.open /\ b.chan.joined => a.chan.open /\ (a.chan.joined \/ Full(x))
  /\ b.chan.open /\ ~a.chan.open => x.what = "msg"
  /\ a.chan.open /\ Own(x) =>
       /\ a.chan.joining => AskedBy(b, "items")
       /\ x.what = "here" => b.chan.self_nick = x.nick
  /\ a.chan.open /\ ~Own(x) =>
       /\ b.chan.self_nick = a.chan.self_nick \/ AskedBy(b, "join")
       /\ a.chan.joining /\ ~Live(x) => b.chan.joining

LEMMA EnteredHeeds ==
  ASSUME NEW a, Account(a), a.chan.open, NEW x \in Stanzas, x.what = "here",
         Full(x) => x.self
  PROVE  Heeds(a, Entered(a, x), x)
<1> DEFINE b == IF x.self THEN Confirmed(a, x.nick) ELSE a
           c == Entered(a, x)
<1>1. x.nick \in Nicks /\ x.self \in BOOLEAN /\ x.full \in BOOLEAN
  BY DEF Stanzas
<1>2. /\ Keeps(a, b) /\ b.chan.open
      /\ b.chan.present = a.chan.present /\ b.chan.joined = a.chan.joined
      /\ x.self => b.chan.self_nick = x.nick /\ (a.chan.joining => AskedBy(b, "items"))
      /\ ~x.self => b = a
  BY <1>1, ConfirmedFacts DEF Keeps
<1>3. c = [b EXCEPT !.chan.present = @ \union {x.nick}, !.chan.joined = @ \/ x.full]
  BY DEF Entered
<1> HIDE DEF b, c
<1>4. Account(b)
  BY <1>2 DEF Keeps
<1>5. /\ DOMAIN c = DOMAIN b /\ DOMAIN c.chan = DOMAIN b.chan /\ c.out = b.out
      /\ c.nickname = b.nickname /\ c.pings = b.pings /\ c.chan.open = b.chan.open
      /\ c.chan.self_nick = b.chan.self_nick /\ c.chan.joining = b.chan.joining
      /\ c.chan.present = b.chan.present \union {x.nick}
      /\ c.chan.joined => b.chan.joined \/ x.full
  BY <1>3, <1>4 DEF Account
<1>6. Keeps(b, c)
  BY <1>4, <1>5, SilentFacts DEF Account
<1>7. Keeps(a, c)
  BY <1>2, <1>6, KeepsOn
<1>8. x.self /\ a.chan.joining => AskedBy(c, "items")
  BY <1>2, <1>6 DEF Keeps
<1>9. \A n : (n \in a.chan.present /\ ~Hides(x, n)) \/ Shows(x, n) => n \in c.chan.present
  BY <1>2, <1>5 DEF Shows
<1> QED BY <1>2, <1>5, <1>7, <1>8, <1>9 DEF Heeds, Own, Full, c

LEMMA LeftHeeds ==
  ASSUME NEW a, Account(a), a.chan.open, NEW x \in Stanzas, x.what = "gone"
  PROVE  Heeds(a, Left(a, x), x)
<1> DEFINE b == IF x.self THEN Confirmed(a, x.nick) ELSE a
           c == [b EXCEPT !.chan.present = @ \ {x.nick}]
           d == Left(a, x)
<1>1. x.nick \in Nicks /\ x.self \in BOOLEAN /\ x.to \in Nicks \union {NoNick}
  BY DEF Stanzas
<1>2. /\ Keeps(a, b) /\ b.chan.open
      /\ b.chan.present = a.chan.present /\ b.chan.joined = a.chan.joined
      /\ x.self /\ a.chan.joining => AskedBy(b, "items")
      /\ ~x.self => b = a
  BY <1>1, ConfirmedFacts DEF Keeps
<1> HIDE DEF b
<1>3. Account(b)
  BY <1>2 DEF Keeps
<1>4. /\ DOMAIN c = DOMAIN b /\ DOMAIN c.chan = DOMAIN b.chan /\ c.out = b.out
      /\ c.nickname = b.nickname /\ c.pings = b.pings /\ c.chan.open = b.chan.open
      /\ c.chan.self_nick = b.chan.self_nick /\ c.chan.joining = b.chan.joining
      /\ c.chan.present = b.chan.present \ {x.nick} /\ c.chan.joined = b.chan.joined
  BY <1>3 DEF Account
<1>5. d = IF x.self /\ x.to # NoNick THEN [c EXCEPT !.nickname = x.to, !.chan.self_nick = x.to]
          ELSE c
  BY DEF Left, RemoveMember, b
<1> HIDE DEF c, d
<1>6. /\ DOMAIN d = DOMAIN b /\ DOMAIN d.chan = DOMAIN b.chan /\ d.out = b.out
      /\ d.nickname \in Nicks /\ d.pings = b.pings /\ d.chan.open = b.chan.open
      /\ d.chan.self_nick \in Nicks /\ d.chan.joining = b.chan.joining
      /\ d.chan.present = b.chan.present \ {x.nick} /\ d.chan.joined = b.chan.joined
      /\ ~x.self => d.chan.self_nick = b.chan.self_nick
  <2>1. b.nickname \in Nicks /\ b.chan.self_nick \in Nicks
    BY <1>2, <1>3 DEF Account
  <2>2. CASE x.self /\ x.to # NoNick
    <3>1. d = [c EXCEPT !.nickname = x.to, !.chan.self_nick = x.to] /\ x.to \in Nicks
      BY <1>1, <1>5, <2>2
    <3> QED BY <1>3, <1>4, <2>2, <3>1 DEF Account
  <2>3. CASE ~(x.self /\ x.to # NoNick)
    BY <1>4, <1>5, <2>1, <2>3
  <2> QED BY <2>2, <2>3
<1>7. Keeps(b, d)
  <2>1. IsFiniteSet(d.pings)
    BY <1>3, <1>6 DEF Account
  <2> QED BY <1>3, <1>6, <2>1, SilentFacts
<1>8. Keeps(a, d)
  BY <1>2, <1>7, KeepsOn
<1>9. x.self /\ a.chan.joining => AskedBy(d, "items")
  BY <1>2, <1>7 DEF Keeps
<1>10. \A n : (n \in a.chan.present /\ ~Hides(x, n)) \/ Shows(x, n) => n \in d.chan.present
  BY <1>2, <1>6 DEF Shows, Hides
<1> QED BY <1>2, <1>6, <1>8, <1>9, <1>10 DEF Heeds, Own, Full, d

LEMMA ListHeeds ==
  ASSUME NEW a, Account(a), a.chan.open, NEW x \in Stanzas, x.what = "items"
  PROVE  Heeds(a, [a EXCEPT !.chan.present = @ \union x.nicks], x)
<1> DEFINE b == [a EXCEPT !.chan.present = @ \union x.nicks]
<1>1. /\ DOMAIN b = DOMAIN a /\ DOMAIN b.chan = DOMAIN a.chan /\ b.out = a.out
      /\ b.nickname = a.nickname /\ b.pings = a.pings /\ b.chan.open = a.chan.open
      /\ b.chan.self_nick = a.chan.self_nick /\ b.chan.joining = a.chan.joining
      /\ b.chan.present = a.chan.present \union x.nicks /\ b.chan.joined = a.chan.joined
  BY DEF Account
<1> HIDE DEF b
<1>2. Keeps(a, b)
  BY <1>1, SilentFacts DEF Account
<1>3. \A n : (n \in a.chan.present /\ ~Hides(x, n)) \/ Shows(x, n) => n \in b.chan.present
  BY <1>1 DEF Shows, Hides
<1> QED BY <1>1, <1>2, <1>3 DEF Heeds, Own, b

LEMMA SpokenHeeds ==
  ASSUME NEW a, Account(a), NEW x \in Stanzas, x.what = "msg"
  PROVE  Heeds(a, Spoken(a, x), x)
<1> DEFINE b == IF a.chan.open THEN a ELSE [a EXCEPT !.chan = NewChannel(a)]
           c == Spoken(a, x)
<1>1. /\ DOMAIN b = DOMAIN a /\ DOMAIN b.chan = DOMAIN a.chan /\ b.out = a.out
      /\ b.nickname = a.nickname /\ b.pings = a.pings /\ b.chan.open
      /\ b.chan.self_nick \in Nicks
      /\ a.chan.open => b = a
      /\ ~a.chan.open => ~b.chan.joined
  BY JoinNickFacts DEF NewChannel, Account
<1>2. c = IF x.live THEN [b EXCEPT !.chan.joining = FALSE] ELSE b
  BY DEF Spoken
<1> HIDE DEF b, c
<1>3. /\ DOMAIN c = DOMAIN a /\ DOMAIN c.chan = DOMAIN a.chan /\ c.out = a.out
      /\ c.nickname = a.nickname /\ c.pings = a.pings /\ c.chan.open
      /\ c.chan.self_nick = b.chan.self_nick /\ c.chan.present = b.chan.present
      /\ c.chan.joined = b.chan.joined
      /\ ~x.live => c.chan.joining = b.chan.joining
  BY <1>1, <1>2 DEF Account
<1>4. Keeps(a, c)
  <2>1. c.nickname \in Nicks /\ IsFiniteSet(c.pings)
    BY <1>3 DEF Account
  <2> QED BY <1>1, <1>3, <2>1, SilentFacts
<1>5. ~Own(x) /\ \A n : ~Shows(x, n)
  BY DEF Own, Shows
<1>6. a.chan.open => /\ c.chan.self_nick = a.chan.self_nick /\ c.chan.present = a.chan.present
                     /\ c.chan.joined = a.chan.joined
                     /\ ~Live(x) => c.chan.joining = a.chan.joining
  BY <1>1, <1>3 DEF Live
<1>7. ~a.chan.open => ~c.chan.joined
  BY <1>1, <1>3
<1>8. Heeds(a, c, x)
  BY <1>3, <1>4, <1>5, <1>6, <1>7 DEF Heeds
<1> QED BY <1>8 DEF c

LEMMA PongHeeds ==
  ASSUME NEW a, Account(a), NEW x \in Stanzas, x.what = "pong"
  PROVE  Heeds(a, Pong(a, x), x)
<1> DEFINE b == [a EXCEPT !.pings = {q \in @ : q.id # x.id}]
           c == Pong(a, x)
<1>1. /\ DOMAIN b = DOMAIN a /\ b.out = a.out /\ b.chan = a.chan
      /\ b.nickname = a.nickname /\ b.pings = {q \in a.pings : q.id # x.id}
  BY DEF Account
<1>2. c = a \/ c = b \/ c = SendJoin(b, a.nickname)
  BY DEF Pong
<1> HIDE DEF b, c
<1>3. IsFiniteSet(b.pings)
  BY <1>1, FS_Subset DEF Account
<1>4. Keeps(a, b)
  BY <1>1, <1>3, SilentFacts DEF Account
<1>5. Account(b) /\ a.nickname \in Nicks
  BY <1>4 DEF Keeps, Account
<1>6. ASSUME Keeps(a, c), c.chan = a.chan
      PROVE  Heeds(a, c, x)
  BY <1>6 DEF Heeds, Own, Shows
<1>7. CASE c = a
  BY <1>6, <1>7 DEF Keeps, c
<1>8. CASE c = b
  BY <1>1, <1>4, <1>6, <1>8 DEF c
<1>9. CASE c = SendJoin(b, a.nickname)
  <2>1. /\ Keeps(b, c) /\ AskedBy(c, "join") /\ c.chan.open = b.chan.open
        /\ c.chan.joining = b.chan.joining /\ c.chan.present = b.chan.present
        /\ c.chan.joined = b.chan.joined
    BY <1>5, <1>9, SendJoinFacts
  <2>2. Keeps(a, c)
    BY <1>4, <2>1, KeepsOn
  <2>3. \A n : ~Shows(x, n)
    BY DEF Shows
  <2> QED BY <1>1, <2>1, <2>2, <2>3 DEF Heeds, Own, c
<1> QED BY <1>2, <1>7, <1>8, <1>9 DEF c

LEMMA HandleHeeds ==
  ASSUME NEW a, Account(a), NEW x \in Stanzas, Full(x) => x.self
  PROVE  Heeds(a, Handle(a, x), x)
<1>1. CASE x.what = "msg"
  BY <1>1, SpokenHeeds DEF Handle
<1>2. CASE x.what = "pong"
  BY <1>2, PongHeeds DEF Handle
<1>3. CASE x.what \notin {"msg", "pong"} /\ a.chan.open
  <2>1. Handle(a, x) = Presented(a, x) /\ x.what \in {"here", "gone", "items", "error"}
    BY <1>3 DEF Handle, Stanzas
  <2>2. CASE x.what = "here"
    BY <1>3, <2>1, <2>2, EnteredHeeds DEF Presented
  <2>3. CASE x.what = "gone"
    BY <1>3, <2>1, <2>3, LeftHeeds DEF Presented
  <2>4. CASE x.what = "items"
    BY <1>3, <2>1, <2>4, ListHeeds DEF Presented
  <2>5. CASE x.what = "error"
    BY <2>1, <2>5 DEF Presented, Heeds, Own, Shows, Keeps
  <2> QED BY <2>1, <2>2, <2>3, <2>4, <2>5
<1>4. CASE x.what \notin {"msg", "pong"} /\ ~a.chan.open
  <2>1. Handle(a, x) = a
    BY <1>4 DEF Handle
  <2> QED BY <1>4, <2>1 DEF Heeds, Keeps
<1> QED BY <1>1, <1>2, <1>3, <1>4

-----------------------------------------------------------------------------
(* A stanza is read.                                                       *)

LEMMA ReceiveStep == ASSUME Inv, Receive PROVE Inv'
<1> DEFINE x == s2c[1]
           t == Tail(s2c)
           a == acct
           b == acct'
<1>1. /\ Len(s2c) > 0 /\ Len(s2c) \in Nat /\ t \in Seq(Stanzas) /\ Len(t) = Len(s2c) - 1
      /\ Head(s2c) = x /\ x \in Stanzas
      /\ \A i \in 1..Len(t) : t[i] = s2c[i + 1]
  <2>1. s2c \in Seq(Stanzas) /\ s2c # <<>>
    BY DEF Receive, Inv, Typed
  <2>2. Len(s2c) > 0 /\ Len(s2c) \in Nat
    BY <2>1, EmptySeq
  <2> QED BY <2>1, <2>2, TailFacts
<1>2. s2c' = t /\ room' = room /\ b = Handle(a, x)
  BY <1>1 DEF Receive
<1>3. /\ seen' = [seen EXCEPT !.refused = @ \/ x.what = "error",
                              !.gap = @ /\ ~(a.chan.joining /\ Own(x))]
  BY <1>1 DEF Receive, Own
<1>4. Full(x) => x.self /\ Own(x)
  BY <1>1 DEF Inv, Sound, Full, Own
<1>5. Account(a) /\ s2c \in Seq(Stanzas)
  BY DEF Inv, Typed
<1>6. Heeds(a, b, x)
  BY <1>1, <1>2, <1>4, <1>5, HandleHeeds
<1> HIDE DEF x, t
<1>7. Typed'
  BY <1>1, <1>2, <1>3, <1>6 DEF Inv, Typed, Heeds, Keeps
<1>8. Sound'
  BY <1>1, <1>2 DEF Inv, Sound
<1>9. /\ AskedBy(a, "join") => AskedBy(b, "join")
      /\ AskedBy(a, "items") => AskedBy(b, "items")
  BY <1>6 DEF Heeds, Keeps
<1>10. NickFollows'
  <2> SUFFICES ASSUME In', ~seen'.refused, ~Errors(t), ~AskedBy(b, "join")
               PROVE  \/ LastOwn(t, room[Self])
                      \/ NoOwn(t) /\ (IsIn' => b.chan.self_nick = room[Self])
    BY <1>2 DEF NickFollows
  <2>1. In /\ ~AskedBy(a, "join") /\ ~seen.refused /\ x.what # "error"
    BY <1>2, <1>3, <1>9 DEF In, Inv, Typed
  <2>2. ~Errors(s2c)
    <3>1. ASSUME NEW i \in 1..Len(s2c) PROVE s2c[i].what # "error"
      <4>1. CASE i = 1
        BY <2>1, <4>1 DEF x
      <4>2. CASE i > 1
        <5>1. i - 1 \in 1..Len(t) /\ t[i - 1] = s2c[i]
          BY <1>1, <4>2
        <5> QED BY <5>1 DEF Errors
      <4> QED BY <4>1, <4>2
    <3> QED BY <3>1 DEF Errors
  <2>3. \/ LastOwn(s2c, room[Self])
        \/ NoOwn(s2c) /\ (IsIn => a.chan.self_nick = room[Self])
    BY <2>1, <2>2 DEF Inv, NickFollows
  <2>4. IsIn' => a.chan.open /\ (a.chan.joined \/ Full(x))
    BY <1>6 DEF IsIn, Heeds
  <2>5. CASE LastOwn(s2c, room[Self])
    <3>1. PICK i \in 1..Len(s2c) :
            /\ s2c[i].what = "here" /\ s2c[i].self /\ s2c[i].nick = room[Self]
            /\ \A m \in 1..Len(s2c) : m > i => ~Own(s2c[m])
      BY <2>5 DEF LastOwn
    <3>2. CASE i > 1
      <4>1. i - 1 \in 1..Len(t) /\ t[i - 1] = s2c[i]
        BY <1>1, <3>2
      <4>2. ASSUME NEW m \in 1..Len(t), m > i - 1 PROVE ~Own(t[m])
        <5>1. m + 1 \in 1..Len(s2c) /\ m + 1 > i /\ t[m] = s2c[m + 1]
          BY <1>1, <4>2
        <5> QED BY <3>1, <5>1
      <4> QED BY <3>1, <4>1, <4>2 DEF LastOwn
    <3>3. CASE i = 1
      <4>1. NoOwn(t)
        BY <1>1, <3>1, <3>3 DEF NoOwn
      <4>2. x.what = "here" /\ x.self /\ x.nick = room[Self] /\ Own(x)
        BY <3>1, <3>3 DEF x, Own
      <4> QED BY <1>6, <2>4, <4>1, <4>2 DEF Heeds
    <3> QED BY <3>2, <3>3
  <2>6. CASE NoOwn(s2c) /\ (IsIn => a.chan.self_nick = room[Self])
    <3>1. NoOwn(t) /\ ~Own(x)
      BY <1>1, <2>6 DEF NoOwn, x
    <3>2. ~Full(x)
      BY <1>4, <3>1
    <3> QED BY <1>6, <2>4, <2>6, <3>1, <3>2 DEF Heeds, IsIn
  <2> QED BY <2>3, <2>5, <2>6
<1>11. OccupantsFollow'
  <2> SUFFICES ASSUME In, ~AskedBy(b, "items"), NEW who \in {Self, Other}, room[who] # NoNick
               PROVE  /\ IsIn' => Known(room[who])'
                      /\ \A f \in 1..Len(t) : Full(t[f]) =>
                           /\ f > 1 => ShownFrom(t, room[who], f - 1)
                           /\ f = 1 /\ b.chan.open /\ ~b.chan.joining => Known(room[who])'
    BY <1>2 DEF OccupantsFollow, In
  <2> DEFINE n == room[who]
  <2>1. ~AskedBy(a, "items") /\ ~(Own(x) /\ a.chan.open /\ a.chan.joining)
    BY <1>6, <1>9 DEF Heeds
  <2>2. /\ IsIn => Known(n)
        /\ \A f \in 1..Len(s2c) : Full(s2c[f]) =>
             /\ f > 1 => ShownFrom(s2c, n, f - 1)
             /\ f = 1 /\ a.chan.open /\ ~a.chan.joining => Known(n)
    BY <2>1 DEF Inv, OccupantsFollow
  <2> HIDE DEF n
  <2>3. Known(n)' = (ShownFrom(t, n, 1) \/ (n \in b.chan.present /\ ~HiddenFrom(t, n, 1)))
    BY <1>2 DEF Known, n
  <2>4. ASSUME a.chan.open PROVE Known(n) => Known(n)'
    <3>1. ShownFrom(s2c, n, 1) =>
            ShownFrom(t, n, 1) \/ (Shows(x, n) /\ ~HiddenFrom(t, n, 1))
      BY <1>1, <1>5, ReadOne DEF x, t
    <3>2. ~HiddenFrom(s2c, n, 1) => ~HiddenFrom(t, n, 1) /\ ~Hides(x, n)
      BY <1>1, <1>5, ReadOne DEF x, t
    <3>3. (n \in a.chan.present /\ ~Hides(x, n)) \/ Shows(x, n) => n \in b.chan.present
      BY <1>6, <2>4 DEF Heeds
    <3> QED BY <2>3, <3>1, <3>2, <3>3 DEF Known
  <2>5. IsIn' => Known(n)'
    <3>1. ASSUME IsIn' PROVE a.chan.open /\ Known(n)
      <4>1. a.chan.open /\ (a.chan.joined \/ Full(x))
        BY <1>6, <3>1 DEF IsIn, Heeds
      <4>2. CASE a.chan.joined
        BY <2>2, <4>1, <4>2 DEF IsIn
      <4>3. CASE Full(x)
        <5>1. ~a.chan.joining /\ 1 \in 1..Len(s2c) /\ Full(s2c[1])
          BY <1>1, <1>4, <2>1, <4>1, <4>3 DEF x
        <5> QED BY <2>2, <4>1, <5>1
      <4> QED BY <4>1, <4>2, <4>3
    <3> QED BY <2>4, <3>1
  <2>6. ASSUME NEW f \in 1..Len(t), Full(t[f])
        PROVE  /\ f > 1 => ShownFrom(t, n, f - 1)
               /\ f = 1 /\ b.chan.open /\ ~b.chan.joining => Known(n)'
    <3>1. f + 1 \in 1..Len(s2c) /\ Full(s2c[f + 1]) /\ f + 1 > 1 /\ (f + 1) - 1 = f
      BY <1>1, <2>6
    <3>2. ShownFrom(s2c, n, f)
      BY <2>2, <3>1
    <3>3. ASSUME f > 1 PROVE ShownFrom(t, n, f - 1)
      <4>1. f - 1 \in Nat \ {0} /\ (f - 1) + 1 = f
        BY <3>1, <3>3
      <4> QED BY <1>1, <1>5, <3>2, <4>1, ReadOne DEF t
    <3>4. ASSUME f = 1, b.chan.open PROVE Known(n)'
      <4>1. ShownFrom(t, n, 1) \/ (Shows(x, n) /\ ~HiddenFrom(t, n, 1))
        BY <1>1, <1>5, <3>2, <3>4, ReadOne DEF x, t
      <4>2. Shows(x, n) => n \in b.chan.present
        <5>1. Shows(x, n) => a.chan.open
          BY <1>6, <3>4 DEF Heeds, Shows
        <5> QED BY <1>6, <5>1 DEF Heeds
      <4> QED BY <2>3, <4>1, <4>2
    <3> QED BY <3>3, <3>4
  <2> QED BY <2>5, <2>6 DEF n
<1>12. GapFollows'
  <2> SUFFICES ASSUME seen'.gap
               PROVE  /\ b.chan.open /\ b.chan.joining
                      /\ In => ~NoOwn(t)
                      /\ \A j \in 1..Len(t) : Live(t[j]) =>
                           \E i \in 1..Len(t) : i < j /\ Own(t[i])
    BY <1>2 DEF GapFollows, In
  <2>1. seen.gap /\ ~(a.chan.joining /\ Own(x))
    BY <1>3 DEF Inv, Typed
  <2>2. /\ a.chan.open /\ a.chan.joining
        /\ In => ~NoOwn(s2c)
        /\ \A j \in 1..Len(s2c) : Live(s2c[j]) =>
             \E i \in 1..Len(s2c) : i < j /\ Own(s2c[i])
    BY <2>1 DEF Inv, GapFollows
  <2>3. ~Own(x)
    BY <2>1, <2>2
  <2>4. ASSUME NEW i \in 1..Len(s2c), Own(s2c[i])
        PROVE  i > 1 /\ i - 1 \in 1..Len(t) /\ t[i - 1] = s2c[i]
    BY <1>1, <2>3, <2>4 DEF x
  <2>5. ~Live(x)
    BY <1>1, <2>2 DEF x
  <2>6. b.chan.open /\ b.chan.joining
    BY <1>6, <2>2, <2>3, <2>5 DEF Heeds
  <2>7. In => ~NoOwn(t)
    BY <2>2, <2>4 DEF NoOwn
  <2>8. ASSUME NEW j \in 1..Len(t), Live(t[j])
        PROVE  \E i \in 1..Len(t) : i < j /\ Own(t[i])
    <3>1. j + 1 \in 1..Len(s2c) /\ Live(s2c[j + 1])
      BY <1>1, <2>8
    <3>2. PICK i \in 1..Len(s2c) : i < j + 1 /\ Own(s2c[i])
      BY <2>2, <3>1
    <3>3. i - 1 \in 1..Len(t) /\ i - 1 < j /\ Own(t[i - 1])
      BY <2>4, <3>2
    <3> QED BY <3>3
  <2> QED BY <2>6, <2>7, <2>8
<1> QED BY <1>7, <1>8, <1>10, <1>11, <1>12 DEF Inv

-----------------------------------------------------------------------------
(* The account acts: nothing on the stream to it has changed.              *)

LEMMA Commanding ==
  ASSUME Inv, s2c' = s2c, room' = room, Keeps(acct, acct'), DOMAIN seen' = DOMAIN seen,
         seen'.refused = seen.refused,
         acct'.chan.open /\ acct.chan.open =>
           /\ acct'.chan.present = acct.chan.present /\ acct'.chan.joined = acct.chan.joined
           /\ acct.chan.joining => acct'.chan.joining
           /\ acct'.chan.self_nick = acct.chan.self_nick \/ AskedBy(acct', "join"),
         acct'.chan.open /\ ~acct.chan.open => ~acct'.chan.joined /\ acct'.chan.joining,
         seen'.gap => seen.gap /\ acct'.chan.open
  PROVE  Inv'
<1>1. Typed'
  BY DEF Inv, Typed, Keeps
<1>2. Sound'
  BY DEF Inv, Sound
<1>3. /\ AskedBy(acct, "join") => AskedBy(acct', "join")
      /\ AskedBy(acct, "items") => AskedBy(acct', "items")
  BY DEF Keeps
<1>4. NickFollows'
  BY <1>3 DEF Inv, NickFollows, In, IsIn
<1>5. OccupantsFollow'
  <2> SUFFICES ASSUME In, ~AskedBy(acct, "items"), NEW who \in {Self, Other}, room[who] # NoNick
               PROVE  /\ IsIn' => Known(room[who])'
                      /\ \A f \in 1..Len(s2c) : Full(s2c[f]) =>
                           /\ f > 1 => ShownFrom(s2c, room[who], f - 1)
                           /\ f = 1 /\ acct'.chan.open /\ ~acct'.chan.joining =>
                                Known(room[who])'
    BY <1>3 DEF OccupantsFollow, In
  <2>1. acct.chan.open /\ acct'.chan.open => Known(room[who])' = Known(room[who])
    BY DEF Known
  <2> QED BY <2>1 DEF Inv, OccupantsFollow, IsIn
<1>6. GapFollows'
  BY DEF Inv, GapFollows, In
<1> QED BY <1>1, <1>2, <1>4, <1>5, <1>6 DEF Inv

-----------------------------------------------------------------------------
(* The server answers.                                                     *)

LEMMA Answering ==
  ASSUME Inv, NEW xs \in Seq(Stanzas), s2c' = s2c \o xs,
         Account(acct'), acct'.chan = acct.chan, seen' = seen,
         room' \in [{Self, Other} -> Nicks \union {NoNick}],
         room'[Self] = room'[Other] => room'[Self] = NoNick,
         \A f \in 1..Len(xs) : Full(xs[f]) =>
           /\ f <= 2 /\ xs[f].self
           /\ \A who \in {Self, Other} : room'[who] # NoNick => ShownFrom(xs, room'[who], 1),
         In' => \/ Errors(xs)
                \/ LastOwn(xs, room'[Self])
                \/ /\ NoOwn(xs) /\ room'[Self] = room[Self]
                   /\ AskedBy(acct, "join") => AskedBy(acct', "join"),
         In' /\ ~AskedBy(acct', "items") =>
           \A who \in {Self, Other} : room'[who] # NoNick =>
             \/ ShownFrom(xs, room'[who], 1)
             \/ /\ room'[who] = room[who] /\ In /\ ~HiddenFrom(xs, room'[who], 1)
                /\ ~AskedBy(acct, "items"),
         In' => In \/ ~NoOwn(xs),
         (\E j \in 1..Len(xs) : Live(xs[j])) => In
  PROVE  Inv'
<1> DEFINE s == s2c
           u == s \o xs
<1>1. /\ s \in Seq(Stanzas) /\ u \in Seq(Stanzas) /\ Len(u) = Len(s) + Len(xs)
      /\ Len(s) \in Nat /\ Len(xs) \in Nat
      /\ \A i \in 1..Len(s) : u[i] = s[i]
      /\ \A i \in 1..Len(xs) : u[Len(s) + i] = xs[i]
  <2>1. s \in Seq(Stanzas)
    BY DEF Inv, Typed
  <2> QED BY <2>1, ConcatFacts
<1>2. s2c' = u
  OBVIOUS
<1>3. /\ \A i \in 1..Len(u) : \/ i \in 1..Len(s) /\ u[i] = s[i]
                              \/ i - Len(s) \in 1..Len(xs) /\ u[i] = xs[i - Len(s)]
      /\ \A i \in 1..Len(s) : i \in 1..Len(u) /\ u[i] = s[i]
      /\ \A i \in 1..Len(xs) : Len(s) + i \in 1..Len(u) /\ u[Len(s) + i] = xs[i]
  BY <1>1, Halves
<1>4. \A n, k : k \in Nat =>
        /\ ShownFrom(xs, n, 1) /\ k <= Len(s) + 1 => ShownFrom(u, n, k)
        /\ ShownFrom(s, n, k) /\ ~HiddenFrom(xs, n, 1) => ShownFrom(u, n, k)
        /\ ~HiddenFrom(s, n, k) /\ ~HiddenFrom(xs, n, 1) => ~HiddenFrom(u, n, k)
  BY <1>1, MoreToRead
<1> HIDE DEF u
<1>5. Typed'
  BY <1>1, <1>2 DEF Inv, Typed
<1>6. Sound'
  <2>1. ASSUME NEW f \in 1..Len(u), Full(u[f]) PROVE u[f].self
    BY <1>3, <2>1 DEF Inv, Sound
  <2> QED BY <1>2, <2>1 DEF Sound
<1>7. NickFollows'
  <2> SUFFICES ASSUME In', ~seen.refused, ~Errors(u), ~AskedBy(acct', "join")
               PROVE  \/ LastOwn(u, room'[Self])
                      \/ NoOwn(u) /\ (IsIn => acct.chan.self_nick = room'[Self])
    BY <1>2 DEF NickFollows, IsIn
  <2>1. ~Errors(s) /\ ~Errors(xs)
    <3>1. ASSUME NEW i \in 1..Len(s) PROVE s[i].what # "error"
      BY <1>3 DEF Errors
    <3>2. ASSUME NEW i \in 1..Len(xs) PROVE xs[i].what # "error"
      BY <1>3 DEF Errors
    <3> QED BY <3>1, <3>2 DEF Errors
  <2>2. CASE LastOwn(xs, room'[Self])
    <3>1. PICK i \in 1..Len(xs) :
            /\ xs[i].what = "here" /\ xs[i].self /\ xs[i].nick = room'[Self]
            /\ \A m \in 1..Len(xs) : m > i => ~Own(xs[m])
      BY <2>2 DEF LastOwn
    <3>2. ASSUME NEW m \in 1..Len(u), m > Len(s) + i PROVE ~Own(u[m])
      <4>1. m - Len(s) \in 1..Len(xs) /\ m - Len(s) > i /\ u[m] = xs[m - Len(s)]
        BY <1>1, <1>3, <3>2
      <4> QED BY <3>1, <4>1
    <3>3. Len(s) + i \in 1..Len(u) /\ u[Len(s) + i] = xs[i]
      BY <1>1, <1>3
    <3> QED BY <3>1, <3>2, <3>3 DEF LastOwn
  <2>3. CASE NoOwn(xs) /\ room'[Self] = room[Self] /\ ~AskedBy(acct, "join")
    <3>1. \/ LastOwn(s, room[Self])
          \/ NoOwn(s) /\ (IsIn => acct.chan.self_nick = room[Self])
      BY <2>1, <2>3 DEF Inv, NickFollows, In
    <3>2. CASE NoOwn(s) /\ (IsIn => acct.chan.self_nick = room[Self])
      BY <1>3, <2>3, <3>2 DEF NoOwn
    <3>3. CASE LastOwn(s, room[Self])
      <4>1. PICK i \in 1..Len(s) :
              /\ s[i].what = "here" /\ s[i].self /\ s[i].nick = room[Self]
              /\ \A m \in 1..Len(s) : m > i => ~Own(s[m])
        BY <3>3 DEF LastOwn
      <4>2. ASSUME NEW m \in 1..Len(u), m > i PROVE ~Own(u[m])
        BY <1>3, <2>3, <4>1, <4>2 DEF NoOwn
      <4>3. i \in 1..Len(u) /\ u[i] = s[i]
        BY <1>1, <1>3
      <4> QED BY <2>3, <4>1, <4>2, <4>3 DEF LastOwn
    <3> QED BY <3>1, <3>2, <3>3
  <2> QED BY <2>1, <2>2, <2>3
<1>8. OccupantsFollow'
  <2> SUFFICES ASSUME In', ~AskedBy(acct', "items"),
                      NEW who \in {Self, Other}, room'[who] # NoNick
               PROVE  /\ IsIn => Known(room[who])'
                      /\ \A f \in 1..Len(u) : Full(u[f]) =>
                           /\ f > 1 => ShownFrom(u, room'[who], f - 1)
                           /\ f = 1 /\ acct.chan.open /\ ~acct.chan.joining => Known(room[who])'
    BY <1>2 DEF OccupantsFollow, IsIn
  <2> DEFINE n == room'[who]
  <2>1. Known(room[who])' =
          (ShownFrom(u, n, 1) \/ (n \in acct.chan.present /\ ~HiddenFrom(u, n, 1)))
    BY <1>2 DEF Known
  <2>2. \/ ShownFrom(xs, n, 1)
        \/ n = room[who] /\ In /\ ~HiddenFrom(xs, n, 1) /\ ~AskedBy(acct, "items")
    OBVIOUS
  <2> HIDE DEF n
  <2>3. CASE ShownFrom(xs, n, 1)
    <3>1. ShownFrom(u, n, 1)
      <4>1. 1 \in Nat /\ 1 <= Len(s) + 1
        BY <1>1
      <4> QED BY <1>4, <2>3, <4>1
    <3>2. ASSUME NEW f \in 1..Len(u), Full(u[f]), f > 1 PROVE ShownFrom(u, n, f - 1)
      <4>1. f - 1 <= Len(s) + 1
        <5>1. CASE f \in 1..Len(s)
          BY <1>1, <5>1
        <5>2. CASE f - Len(s) \in 1..Len(xs) /\ u[f] = xs[f - Len(s)]
          <6>1. f - Len(s) <= 2
            BY <3>2, <5>2
          <6> QED BY <1>1, <6>1
        <5> QED BY <1>3, <5>1, <5>2
      <4>2. f - 1 \in Nat
        BY <1>1, <3>2
      <4> QED BY <1>4, <2>3, <4>1, <4>2
    <3> QED BY <2>1, <3>1, <3>2 DEF n
  <2>4. CASE /\ n = room[who] /\ In /\ ~HiddenFrom(xs, n, 1) /\ ~AskedBy(acct, "items")
             /\ ~ShownFrom(xs, n, 1)
    <3>1. /\ IsIn => Known(n)
          /\ \A f \in 1..Len(s) : Full(s[f]) =>
               /\ f > 1 => ShownFrom(s, n, f - 1)
               /\ f = 1 /\ acct.chan.open /\ ~acct.chan.joining => Known(n)
      BY <2>4 DEF Inv, OccupantsFollow, n
    <3>2. Known(n) => Known(room[who])'
      BY <1>4, <2>1, <2>4 DEF Known
    <3>3. ASSUME NEW f \in 1..Len(u), Full(u[f]) PROVE f \in 1..Len(s) /\ u[f] = s[f]
      BY <1>3, <2>4, <3>3 DEF n
    <3>4. ASSUME NEW f \in 1..Len(s), f > 1, ShownFrom(s, n, f - 1)
          PROVE  ShownFrom(u, n, f - 1)
      <4>1. f - 1 \in Nat
        BY <1>1, <3>4
      <4> QED BY <1>4, <2>4, <3>4, <4>1
    <3> QED BY <3>1, <3>2, <3>3, <3>4 DEF n
  <2> QED BY <2>2, <2>3, <2>4
<1>9. GapFollows'
  <2> SUFFICES ASSUME seen.gap
               PROVE  /\ acct.chan.open /\ acct.chan.joining
                      /\ In' => ~NoOwn(u)
                      /\ \A j \in 1..Len(u) : Live(u[j]) =>
                           \E i \in 1..Len(u) : i < j /\ Own(u[i])
    BY <1>2 DEF GapFollows
  <2>1. /\ acct.chan.open /\ acct.chan.joining
        /\ In => ~NoOwn(s)
        /\ \A j \in 1..Len(s) : Live(s[j]) =>
             \E i \in 1..Len(s) : i < j /\ Own(s[i])
    BY DEF Inv, GapFollows
  <2>2. ~NoOwn(s) \/ ~NoOwn(xs) => ~NoOwn(u)
    BY <1>1, <1>3 DEF NoOwn
  <2>3. ASSUME NEW j \in 1..Len(u), Live(u[j])
        PROVE  \E i \in 1..Len(u) : i < j /\ Own(u[i])
    <3>1. CASE j \in 1..Len(s)
      <4>1. PICK i \in 1..Len(s) : i < j /\ Own(s[i])
        BY <1>1, <2>1, <2>3, <3>1
      <4> QED BY <1>1, <1>3, <4>1
    <3>2. CASE j \notin 1..Len(s)
      <4>1. j - Len(s) \in 1..Len(xs) /\ u[j] = xs[j - Len(s)]
        BY <1>3, <3>2
      <4>2. In
        BY <2>3, <4>1
      <4>3. PICK i \in 1..Len(s) : Own(s[i])
        BY <2>1, <4>2 DEF NoOwn
      <4>4. i < j /\ i \in 1..Len(u) /\ u[i] = s[i]
        BY <1>1, <1>3, <3>2
      <4> QED BY <4>3, <4>4
    <3> QED BY <3>1, <3>2
  <2> QED BY <2>1, <2>2, <2>3
<1> QED BY <1>5, <1>6, <1>7, <1>8, <1>9 DEF Inv

-----------------------------------------------------------------------------
(* What the server can say.                                                *)

LEMMA OneFacts ==
  ASSUME NEW x \in Stanzas
  PROVE  /\ <<x>> \in Seq(Stanzas) /\ Len(<<x>>) = 1 /\ <<x>>[1] = x
         /\ \A n : /\ Shows(x, n) => ShownFrom(<<x>>, n, 1)
                   /\ ~Hides(x, n) => ~HiddenFrom(<<x>>, n, 1)
<1> DEFINE s == <<x>>
<1>1. s \in Seq(Stanzas) /\ Len(s) = 1 /\ s[1] = x
  OBVIOUS
<1> HIDE DEF s
<1>2. \A n : /\ Shows(x, n) => ShownFrom(s, n, 1)
             /\ ~Hides(x, n) => ~HiddenFrom(s, n, 1)
  BY <1>1 DEF ShownFrom, HiddenFrom
<1> QED BY <1>1, <1>2 DEF s

LEMMA TwoFacts ==
  ASSUME NEW x \in Stanzas, NEW y \in Stanzas
  PROVE  LET s == <<x>> \o <<y>>
         IN  /\ s \in Seq(Stanzas) /\ Len(s) = 2 /\ s[1] = x /\ s[2] = y
             /\ \A n : Shows(y, n) \/ (Shows(x, n) /\ ~Hides(y, n)) => ShownFrom(s, n, 1)
             /\ \A n : ~Hides(x, n) /\ ~Hides(y, n) => ~HiddenFrom(s, n, 1)
<1> DEFINE a == <<x>>
           b == <<y>>
           s == a \o b
<1>1. /\ a \in Seq(Stanzas) /\ Len(a) = 1 /\ a[1] = x
      /\ b \in Seq(Stanzas) /\ Len(b) = 1 /\ b[1] = y
  OBVIOUS
<1> HIDE DEF a, b
<1>2. s \in Seq(Stanzas) /\ Len(s) = 2 /\ s[1] = x /\ s[2] = y
  BY <1>1, ConcatFacts
<1> HIDE DEF s
<1>3. \A n : Shows(y, n) \/ (Shows(x, n) /\ ~Hides(y, n)) => ShownFrom(s, n, 1)
  BY <1>2 DEF ShownFrom, HiddenFrom
<1>4. \A n : ~Hides(x, n) /\ ~Hides(y, n) => ~HiddenFrom(s, n, 1)
  BY <1>2 DEF HiddenFrom
<1> QED BY <1>2, <1>3, <1>4 DEF s, a, b

LEMMA OneMore ==
  ASSUME NEW s \in Seq(Stanzas), NEW x \in Stanzas
  PROVE  /\ s \o <<x>> \in Seq(Stanzas) /\ Len(s \o <<x>>) = Len(s) + 1
         /\ \A i \in 1..Len(s) : (s \o <<x>>)[i] = s[i]
         /\ (s \o <<x>>)[Len(s) + 1] = x
<1> DEFINE t == <<x>>
<1>1. t \in Seq(Stanzas) /\ Len(t) = 1 /\ t[1] = x
  OBVIOUS
<1> HIDE DEF t
<1>2. /\ s \o t \in Seq(Stanzas) /\ Len(s \o t) = Len(s) + Len(t)
      /\ \A i \in 1..Len(s) : (s \o t)[i] = s[i]
      /\ \A i \in 1..Len(t) : (s \o t)[Len(s) + i] = t[i]
  BY <1>1, ConcatFacts
<1> QED BY <1>1, <1>2 DEF t

\* A flood has everybody, one's own presence last, and no live message.
LEMMA FloodFacts ==
  ASSUME room' \in [{Self, Other} -> Nicks \union {NoNick}], In'
  PROVE  /\ Flood \in Seq(Stanzas)
         /\ \A f \in 1..Len(Flood) : ~Live(Flood[f])
         /\ \A f \in 1..Len(Flood) : Full(Flood[f]) => f <= 2 /\ Flood[f].self
         /\ LastOwn(Flood, room'[Self]) /\ ~NoOwn(Flood)
         /\ \A who \in {Self, Other} : room'[who] # NoNick => ShownFrom(Flood, room'[who], 1)
<1> DEFINE o == [what |-> "here", nick |-> room'[Other], self |-> FALSE, full |-> FALSE]
           m == [what |-> "here", nick |-> room'[Self], self |-> TRUE, full |-> TRUE]
           l == [what |-> "msg", live |-> FALSE]
           s == Flood
<1>1. /\ m \in Stanzas /\ l \in Stanzas
      /\ room'[Other] # NoNick => o \in Stanzas
      /\ m.what = "here" /\ m.nick = room'[Self] /\ m.self = TRUE /\ m.full = TRUE
      /\ l.what = "msg" /\ l.live = FALSE
      /\ o.what = "here" /\ o.nick = room'[Other] /\ o.self = FALSE /\ o.full = FALSE
  BY RoomConstants DEF Stanzas, In, Self, Other
<1>2. /\ Presence(Self, TRUE) = <<m>> /\ Subject = <<l>>
      /\ Presence(Other, FALSE) = IF room'[Other] = NoNick THEN <<>> ELSE <<o>>
  <2>1. (Self = Self) = TRUE /\ (Other = Self) = FALSE
    BY DEF Self, Other
  <2>2. Presence(Self, TRUE) = <<m>>
    BY <2>1 DEF Presence, In
  <2>3. Presence(Other, FALSE) = IF room'[Other] = NoNick THEN <<>> ELSE <<o>>
    BY <2>1 DEF Presence
  <2> QED BY <2>2, <2>3 DEF Subject
<1> HIDE DEF o, m, l
<1>3. CASE room'[Other] = NoNick
  <2>1. s = <<m>> \o <<l>>
    <3>1. <<m>> \in Seq(Stanzas)
      BY <1>1
    <3>2. <<>> \o <<m>> = <<m>>
      BY <3>1, ConcatEmptySeq
    <3> QED BY <1>2, <1>3, <3>2 DEF Flood
  <2>2. s \in Seq(Stanzas) /\ Len(s) = 2 /\ s[1] = m /\ s[2] = l
    BY <1>1, <2>1, TwoFacts
  <2> HIDE DEF s
  <2>3. \A f \in 1..Len(s) : f = 1 \/ f = 2
    BY <2>2
  <2>4. LastOwn(s, room'[Self]) /\ ~NoOwn(s)
    BY <1>1, <2>2 DEF LastOwn, NoOwn, Own
  <2>5. ShownFrom(s, room'[Self], 1)
    BY <1>1, <2>2 DEF ShownFrom, HiddenFrom, Shows, Hides
  <2> QED BY <1>1, <1>3, <2>2, <2>3, <2>4, <2>5 DEF s, Live, Full
<1>4. CASE room'[Other] # NoNick
  <2> DEFINE p == <<o>> \o <<m>>
  <2>1. s = p \o <<l>>
    BY <1>2, <1>4 DEF Flood
  <2>2. p \in Seq(Stanzas) /\ Len(p) = 2 /\ p[1] = o /\ p[2] = m
    BY <1>1, <1>4, TwoFacts
  <2>3. <<l>> \in Seq(Stanzas) /\ Len(<<l>>) = 1 /\ <<l>>[1] = l
    BY <1>1, OneFacts
  <2> HIDE DEF p, s
  <2>4. s \in Seq(Stanzas) /\ Len(s) = 3 /\ s[1] = o /\ s[2] = m /\ s[3] = l
    <3>1. /\ p \o <<l>> \in Seq(Stanzas) /\ Len(p \o <<l>>) = Len(p) + 1
          /\ \A i \in 1..Len(p) : (p \o <<l>>)[i] = p[i]
          /\ (p \o <<l>>)[Len(p) + 1] = l
      BY <1>1, <2>2, OneMore
    <3> QED BY <2>1, <2>2, <3>1
  <2>5. \A f \in 1..Len(s) : f = 1 \/ f = 2 \/ f = 3
    BY <2>4
  <2>6. LastOwn(s, room'[Self]) /\ ~NoOwn(s)
    BY <1>1, <2>4 DEF LastOwn, NoOwn, Own
  <2>7. ShownFrom(s, room'[Self], 1) /\ ShownFrom(s, room'[Other], 1)
    BY <1>1, <2>4 DEF ShownFrom, HiddenFrom, Shows, Hides
  <2> QED BY <1>1, <2>4, <2>5, <2>6, <2>7 DEF s, Live, Full
<1> QED BY <1>3, <1>4

LEMMA OneIndex ==
  ASSUME NEW S, NEW s \in Seq(S), Len(s) = 1
  PROVE  \A f \in 1..Len(s) : f = 1
OBVIOUS

\* We are not in the room afterwards.
LEMMA Apart ==
  ASSUME Inv, NEW xs \in Seq(Stanzas), s2c' = s2c \o xs,
         Account(acct'), acct'.chan = acct.chan, seen' = seen,
         room' \in [{Self, Other} -> Nicks \union {NoNick}], room'[Self] = NoNick,
         \A f \in 1..Len(xs) : ~Live(xs[f]) /\ ~Full(xs[f])
  PROVE  Inv'
BY Answering DEF In

\* The answer is not about who is in the room, or lists everybody.
LEMMA Aside ==
  ASSUME Inv, NEW xs \in Seq(Stanzas), s2c' = s2c \o xs,
         Account(acct'), acct'.chan = acct.chan, seen' = seen, room' = room,
         \A f \in 1..Len(xs) : /\ xs[f].what \in {"pong", "error", "items", "msg"}
                               /\ Live(xs[f]) => In,
         Errors(xs) \/ (AskedBy(acct, "join") => AskedBy(acct', "join")),
         \/ AskedBy(acct, "items") => AskedBy(acct', "items")
         \/ \A who \in {Self, Other} : room[who] # NoNick => ShownFrom(xs, room[who], 1)
  PROVE  Inv'
<1>1. /\ \A f \in 1..Len(xs) : ~Full(xs[f])
      /\ NoOwn(xs) /\ \A n : ~HiddenFrom(xs, n, 1)
  BY DEF Full, NoOwn, Own, HiddenFrom, Hides
<1>2. /\ room \in [{Self, Other} -> Nicks \union {NoNick}]
      /\ room[Self] = room[Other] => room[Self] = NoNick
  BY DEF Inv, Typed, Sound
<1>3. In' = In
  BY DEF In
<1> QED BY <1>1, <1>2, <1>3, Answering

\* The stream is a new one, or none.
LEMMA Cleared ==
  ASSUME Inv, s2c' = <<>>, Account(acct'), DOMAIN seen' = DOMAIN seen,
         room' = [room EXCEPT ![Self] = NoNick],
         seen'.gap => acct'.chan.open /\ acct'.chan.joining
  PROVE  Inv'
<1>1. s2c' \in Seq(Stanzas) /\ Len(s2c') = 0
  BY EmptySeq
<1>2. ~In'
  BY DEF Inv, Typed, In, Self, Other
<1>3. Typed'
  BY <1>1 DEF Inv, Typed
<1>4. Sound'
  BY <1>1, <1>2 DEF Sound, In
<1> QED BY <1>1, <1>2, <1>3, <1>4 DEF Inv, NickFollows, OccupantsFollow, GapFollows

-----------------------------------------------------------------------------
(* The room serves what the account sends.                                 *)

LEMMA RequestFacts ==
  ASSUME Inv, Request
  PROVE  /\ Account(acct') /\ acct'.chan = acct.chan /\ seen' = seen
         /\ Head(acct.out) \in Requests
         /\ \A what : AskedBy(acct, what) => AskedBy(acct', what) \/ Head(acct.out).what = what
<1> DEFINE s == acct.out
           t == Tail(s)
<1>1. s \in Seq(Requests) /\ s # <<>> /\ acct' = [acct EXCEPT !.out = t] /\ Account(acct)
  BY DEF Request, Inv, Typed, Account
<1>2. Len(s) > 0 /\ Len(s) \in Nat
  BY <1>1, EmptySeq
<1>3. /\ t \in Seq(Requests) /\ Len(t) = Len(s) - 1 /\ Head(s) = s[1] /\ s[1] \in Requests
      /\ \A i \in 1..Len(t) : t[i] = s[i + 1]
  BY <1>1, <1>2, TailFacts
<1> HIDE DEF t
<1>4. acct'.out = t /\ acct'.chan = acct.chan
  BY <1>1 DEF Account
<1>5. Account(acct')
  BY <1>1, <1>3 DEF Account
<1>6. ASSUME NEW what, NEW i \in 1..Len(s), s[i].what = what
      PROVE  AskedBy(acct', what) \/ Head(s).what = what
  <2>1. CASE i = 1
    BY <1>3, <1>6, <2>1
  <2>2. CASE i > 1
    <3>1. i - 1 \in 1..Len(t) /\ t[i - 1] = s[i]
      BY <1>2, <1>3, <2>2
    <3> QED BY <1>4, <1>6, <3>1 DEF AskedBy
  <2> QED BY <1>2, <2>1, <2>2
<1>7. seen' = seen
  BY DEF Request
<1> QED BY <1>3, <1>4, <1>5, <1>6, <1>7 DEF AskedBy

LEMMA RefusalFacts ==
  /\ Refusal \in Seq(Stanzas) /\ Errors(Refusal)
  /\ \A f \in 1..Len(Refusal) : Refusal[f].what = "error"
<1> DEFINE x == [what |-> "error"]
<1>1. x \in Stanzas /\ x.what = "error" /\ Refusal = <<x>>
  BY DEF Stanzas, Refusal
<1> HIDE DEF x
<1>2. Refusal \in Seq(Stanzas) /\ Len(Refusal) = 1 /\ Refusal[1] = x
  BY <1>1, OneFacts
<1>3. \A f \in 1..Len(Refusal) : f = 1
  BY <1>2
<1> QED BY <1>1, <1>2, <1>3 DEF Errors

LEMMA RefusedStep ==
  ASSUME Inv, Account(acct'), acct'.chan = acct.chan, seen' = seen, room' = room,
         Answer(Refusal), AskedBy(acct, "items") => AskedBy(acct', "items")
  PROVE  Inv'
<1>1. \A f \in 1..Len(Refusal) : ~Live(Refusal[f])
  BY RefusalFacts DEF Live
<1> QED BY <1>1, RefusalFacts, Aside DEF Answer

LEMMA FloodStep ==
  ASSUME Inv, Account(acct'), acct'.chan = acct.chan, seen' = seen, NEW nick \in Nicks,
         room' = [room EXCEPT ![Self] = nick], nick # room[Other], Answer(Flood)
  PROVE  Inv'
<1>1. /\ room' \in [{Self, Other} -> Nicks \union {NoNick}]
      /\ room'[Self] = nick /\ room'[Other] = room[Other] /\ In'
  BY RoomConstants DEF Inv, Typed, In, Self, Other
<1>2. s2c' = s2c \o Flood
  BY DEF Answer
<1> QED BY <1>1, <1>2, FloodFacts, Answering

\* Another nick: the old one goes, the new one comes.
LEMMA RenamedStep ==
  ASSUME Inv, Account(acct'), acct'.chan = acct.chan, seen' = seen, NEW nick \in Nicks,
         room' = [room EXCEPT ![Self] = nick], nick # room[Other], In,
         AskedBy(acct, "items") => AskedBy(acct', "items"),
         Answer(Gone(Self, nick) \o Here(Self))
  PROVE  Inv'
<1> DEFINE x == [what |-> "gone", nick |-> room[Self], self |-> TRUE, to |-> nick]
           y == [what |-> "here", nick |-> nick, self |-> TRUE, full |-> FALSE]
           s == <<x>> \o <<y>>
<1>1. /\ room' \in [{Self, Other} -> Nicks \union {NoNick}]
      /\ room'[Self] = nick /\ room'[Other] = room[Other] /\ In'
      /\ room[Self] \in Nicks /\ room[Self] # room[Other]
  BY RoomConstants DEF Inv, Typed, Sound, In, Self, Other
<1>2. /\ x \in Stanzas /\ x.what = "gone" /\ x.nick = room[Self] /\ x.self = TRUE
      /\ y \in Stanzas /\ y.what = "here" /\ y.nick = nick /\ y.self = TRUE /\ y.full = FALSE
  BY <1>1 DEF Stanzas
<1>3. Gone(Self, nick) = <<x>> /\ Here(Self) = <<y>>
  <2>1. (Self = Self) = TRUE
    OBVIOUS
  <2> QED BY <1>1, <2>1 DEF Gone, Here, Presence, In
<1>4. s2c' = s2c \o s
  BY <1>3 DEF Answer
<1> HIDE DEF x, y
<1>5. /\ s \in Seq(Stanzas) /\ Len(s) = 2 /\ s[1] = x /\ s[2] = y
      /\ ShownFrom(s, nick, 1)
      /\ ~HiddenFrom(s, room[Other], 1)
  <2>1. Shows(y, nick) /\ ~Hides(x, room[Other]) /\ ~Hides(y, room[Other])
    BY <1>1, <1>2 DEF Shows, Hides
  <2> QED BY <1>2, <2>1, TwoFacts
<1> HIDE DEF s
<1>6. \A f \in 1..Len(s) : f = 1 \/ f = 2
  BY <1>5
<1>7. \A f \in 1..Len(s) : ~Full(s[f]) /\ ~Live(s[f])
  BY <1>2, <1>5, <1>6 DEF Full, Live
<1>8. LastOwn(s, room'[Self]) /\ ~NoOwn(s)
  BY <1>1, <1>2, <1>5, <1>6 DEF LastOwn, NoOwn, Own
<1>9. \A who \in {Self, Other} : room'[who] # NoNick =>
        \/ ShownFrom(s, room'[who], 1)
        \/ room'[who] = room[who] /\ ~HiddenFrom(s, room'[who], 1)
  BY <1>1, <1>5
<1> QED BY <1>1, <1>4, <1>5, <1>7, <1>8, <1>9, Answering

LEMMA ServeJoinStep ==
  ASSUME Inv, Account(acct'), acct'.chan = acct.chan, seen' = seen, NEW nick \in Nicks,
         AskedBy(acct, "items") => AskedBy(acct', "items"), ServeJoin(nick)
  PROVE  Inv'
<1>1. CASE nick = room[Other]
  BY <1>1, RefusedStep DEF ServeJoin
<1>2. CASE nick # room[Other] /\ room[Self] \in {NoNick, nick}
  BY <1>2, FloodStep DEF ServeJoin
<1>3. CASE nick # room[Other] /\ room[Self] \notin {NoNick, nick}
  BY <1>3, RenamedStep DEF ServeJoin, In
<1> QED BY <1>1, <1>2, <1>3

\* One stanza that is not about who is in the room, or lists everybody.
LEMMA AsideOne ==
  ASSUME Inv, Account(acct'), acct'.chan = acct.chan, seen' = seen, room' = room,
         NEW x \in Stanzas, Answer(<<x>>), x.what \in {"pong", "items", "msg"},
         Live(x) => In,
         AskedBy(acct, "join") => AskedBy(acct', "join"),
         \/ AskedBy(acct, "items") => AskedBy(acct', "items")
         \/ \A who \in {Self, Other} : room[who] # NoNick => Shows(x, room[who])
  PROVE  Inv'
<1> DEFINE s == <<x>>
<1>1. /\ s \in Seq(Stanzas) /\ Len(s) = 1 /\ s[1] = x /\ s2c' = s2c \o s
      /\ \A n : Shows(x, n) => ShownFrom(s, n, 1)
  BY OneFacts DEF Answer
<1> HIDE DEF s
<1>2. \A f \in 1..Len(s) : f = 1
  BY <1>1
<1> QED BY <1>1, <1>2, Aside

LEMMA Unanswered ==
  ASSUME Inv, Account(acct'), acct'.chan = acct.chan, seen' = seen, room' = room,
         Answer(<<>>), AskedBy(acct, "join") => AskedBy(acct', "join"),
         AskedBy(acct, "items") => AskedBy(acct', "items")
  PROVE  Inv'
<1>1. <<>> \in Seq(Stanzas) /\ Len(<<>>) = 0
  BY EmptySeq
<1>2. \A f \in 1..Len(<<>>) : FALSE
  BY <1>1
<1> QED BY <1>1, <1>2, Aside DEF Answer

\* We leave: the room may tell us.
LEMMA LeaveStep ==
  ASSUME Inv, Account(acct'), acct'.chan = acct.chan, seen' = seen,
         room' = [room EXCEPT ![Self] = NoNick],
         Answer(<<>>) \/ (In /\ Answer(Gone(Self, NoNick)))
  PROVE  Inv'
<1>1. /\ room' \in [{Self, Other} -> Nicks \union {NoNick}] /\ room'[Self] = NoNick
  BY DEF Inv, Typed, Self, Other
<1>2. CASE Answer(<<>>)
  <2>1. <<>> \in Seq(Stanzas) /\ Len(<<>>) = 0
    BY EmptySeq
  <2>2. \A f \in 1..Len(<<>>) : FALSE
    BY <2>1
  <2> QED BY <1>1, <1>2, <2>1, <2>2, Apart DEF Answer
<1>3. CASE In /\ Answer(Gone(Self, NoNick))
  <2> DEFINE x == [what |-> "gone", nick |-> room[Self], self |-> TRUE, to |-> NoNick]
             s == <<x>>
  <2>1. room[Self] \in Nicks
    BY <1>3 DEF Inv, Typed, In, Self, Other
  <2>2. x \in Stanzas /\ x.what = "gone"
    BY <2>1 DEF Stanzas
  <2>3. s2c' = s2c \o s
    <3>1. (Self = Self) = TRUE
      OBVIOUS
    <3> QED BY <1>3, <3>1 DEF Answer, Gone
  <2> HIDE DEF x
  <2>4. s \in Seq(Stanzas) /\ Len(s) = 1 /\ s[1] = x
    BY <2>2, OneFacts
  <2> HIDE DEF s
  <2>5. \A f \in 1..Len(s) : f = 1
    BY <2>4
  <2>6. \A f \in 1..Len(s) : ~Live(s[f]) /\ ~Full(s[f])
    BY <2>2, <2>4, <2>5 DEF Live, Full
  <2> QED BY <1>1, <2>3, <2>4, <2>6, Apart
<1> QED BY <1>2, <1>3

LEMMA ServeStep == ASSUME Inv, Serve PROVE Inv'
<1> DEFINE x == Head(acct.out)
<1>1. /\ Account(acct') /\ acct'.chan = acct.chan /\ seen' = seen /\ x \in Requests
      /\ \A what : AskedBy(acct, what) => AskedBy(acct', what) \/ x.what = what
  BY RequestFacts DEF Serve
<1>2. x.what \in {"join", "nick", "ping", "items", "leave"}
  BY <1>1 DEF Requests
<1>3. CASE x.what = "join"
  <2>1. x.nick \in Nicks /\ ServeJoin(x.nick)
    BY <1>1, <1>3 DEF Serve, Requests
  <2> QED BY <1>1, <1>3, <2>1, ServeJoinStep
<1>4. CASE x.what = "nick"
  <2>1. x.nick \in Nicks
    BY <1>1, <1>4 DEF Requests
  <2>2. \/ room' = room /\ Answer(Refusal)
        \/ ServeJoin(x.nick)
    BY <1>4 DEF Serve
  <2> QED BY <1>1, <1>4, <2>1, <2>2, ServeJoinStep, RefusedStep
<1>5. CASE x.what = "ping"
  <2>1. PICK answer \in {"in", "out"} :
          room' = room /\ Answer(<<[what |-> "pong", id |-> x.id, answer |-> answer]>>)
    BY <1>5 DEF Serve, ServePing
  <2>2. x.id \in PingIds
    BY <1>1, <1>5 DEF Requests
  <2> DEFINE y == [what |-> "pong", id |-> x.id, answer |-> answer]
  <2>3. y \in Stanzas /\ y.what = "pong"
    BY <2>2 DEF Stanzas
  <2> HIDE DEF x
  <2>4. Answer(<<y>>) /\ room' = room
    BY <2>1
  <2> HIDE DEF y
  <2> QED BY <1>1, <1>5, <2>3, <2>4, AsideOne DEF Live
<1>6. CASE x.what = "items"
  <2> DEFINE y == [what |-> "items", nicks |-> {room[Self], room[Other]} \ {NoNick}]
  <2>1. room' = room /\ Answer(<<y>>)
    BY <1>6 DEF Serve
  <2>2. y \in Stanzas /\ y.what = "items"
    BY DEF Stanzas, Inv, Typed
  <2>3. \A who \in {Self, Other} : room[who] # NoNick => Shows(y, room[who])
    BY DEF Shows
  <2> HIDE DEF x, y
  <2> QED BY <1>1, <1>6, <2>1, <2>2, <2>3, AsideOne DEF Live
<1>7. CASE x.what = "leave"
  <2>1. ServeLeave
    BY <1>7 DEF Serve
  <2> QED BY <1>1, <2>1, LeaveStep DEF ServeLeave, In
<1> HIDE DEF x
<1> QED BY <1>2, <1>3, <1>4, <1>5, <1>6, <1>7

LEMMA TroubleStep == ASSUME Inv, Trouble PROVE Inv'
<1> DEFINE x == Head(acct.out)
<1>1. /\ Account(acct') /\ acct'.chan = acct.chan /\ seen' = seen /\ x \in Requests
      /\ \A what : AskedBy(acct, what) => AskedBy(acct', what) \/ x.what = what
  BY RequestFacts DEF Trouble
<1>2. CASE x.what = "ping" /\ room' = room /\ Answer(<<>>)
  BY <1>1, <1>2, Unanswered
<1>3. CASE /\ x.what = "ping" /\ room' = room
           /\ Answer(<<[what |-> "pong", id |-> x.id, answer |-> "ambiguous"]>>)
  <2>1. x.id \in PingIds
    BY <1>1, <1>3 DEF Requests
  <2> DEFINE y == [what |-> "pong", id |-> x.id, answer |-> "ambiguous"]
  <2>2. y \in Stanzas /\ y.what = "pong"
    BY <2>1 DEF Stanzas
  <2> HIDE DEF x
  <2>3. Answer(<<y>>) /\ room' = room
    BY <1>3
  <2> HIDE DEF y
  <2> QED BY <1>1, <1>3, <2>2, <2>3, AsideOne DEF Live
<1>4. CASE x.what = "join" /\ room' = room /\ Answer(Refusal)
  BY <1>1, <1>4, RefusedStep
<1>5. ASSUME NEW nick \in Nicks \ {x.nick, room[Other]}, ServeAssign(nick) PROVE Inv'
  BY <1>1, <1>5, FloodStep DEF ServeAssign
<1> QED BY <1>2, <1>3, <1>4, <1>5 DEF Trouble

-----------------------------------------------------------------------------
(* The room by itself.                                                     *)

\* The other is hidden under the old nick and shown under the new one, if any.
LEMMA OtherTold ==
  ASSUME Inv, acct' = acct, seen' = seen, In, NEW nick \in Nicks \union {NoNick},
         nick # NoNick => nick # room[Self], room' = [room EXCEPT ![Other] = nick],
         NEW xs \in Seq(Stanzas), s2c' = s2c \o xs,
         \A f \in 1..Len(xs) : ~Live(xs[f]) /\ ~Full(xs[f]) /\ ~Own(xs[f]),
         ~HiddenFrom(xs, room[Self], 1), nick # NoNick => ShownFrom(xs, nick, 1)
  PROVE  Inv'
<1>1. /\ room' \in [{Self, Other} -> Nicks \union {NoNick}]
      /\ room'[Self] = room[Self] /\ room'[Other] = nick /\ In'
  BY DEF Inv, Typed, In, Self, Other
<1>2. Account(acct') /\ AskedBy(acct', "join") = AskedBy(acct, "join")
      /\ AskedBy(acct', "items") = AskedBy(acct, "items")
  BY DEF Inv, Typed
<1>3. NoOwn(xs)
  BY DEF NoOwn
<1>4. \A who \in {Self, Other} : room'[who] # NoNick =>
        \/ ShownFrom(xs, room'[who], 1)
        \/ room'[who] = room[who] /\ ~HiddenFrom(xs, room'[who], 1)
  BY <1>1
<1>5. room'[Self] = room'[Other] => room'[Self] = NoNick
  BY <1>1
<1> QED BY <1>1, <1>2, <1>3, <1>4, <1>5, Answering

LEMMA OtherStep == ASSUME Inv, OtherMoves PROVE Inv'
<1>1. PICK nick \in (Nicks \union {NoNick}) \ {room[Other]} :
        /\ nick # NoNick => nick # room[Self]
        /\ room' = [room EXCEPT ![Other] = nick]
        /\ Told((IF room[Other] = NoNick THEN <<>> ELSE Gone(Other, nick)) \o Here(Other))
        /\ acct' = acct /\ seen' = seen
  BY DEF OtherMoves
<1>2. /\ room' \in [{Self, Other} -> Nicks \union {NoNick}]
      /\ room'[Self] = room[Self] /\ room'[Other] = nick
      /\ Account(acct')
  BY <1>1 DEF Inv, Typed, Self, Other
<1>3. CASE ~In
  <2>1. <<>> \in Seq(Stanzas) /\ Len(<<>>) = 0
    BY EmptySeq
  <2>2. s2c' = s2c \o <<>>
    BY <1>1, <1>3 DEF Told, Answer, In
  <2>3. \A f \in 1..Len(<<>>) : FALSE
    BY <2>1
  <2> QED BY <1>1, <1>2, <1>3, <2>1, <2>2, <2>3, Apart DEF In
<1>4. CASE In
  <2> DEFINE x == [what |-> "gone", nick |-> room[Other], self |-> FALSE, to |-> nick]
             y == [what |-> "here", nick |-> nick, self |-> FALSE, full |-> FALSE]
  <2>1. /\ room[Other] # NoNick => x \in Stanzas /\ room[Other] # room[Self]
        /\ nick # NoNick => y \in Stanzas
        /\ x.what = "gone" /\ x.nick = room[Other] /\ x.self = FALSE
        /\ y.what = "here" /\ y.nick = nick /\ y.self = FALSE /\ y.full = FALSE
    BY <1>1, <1>4 DEF Inv, Typed, Sound, Stanzas, In, Self, Other
  <2>2. /\ Gone(Other, nick) = <<x>>
        /\ Here(Other) = IF nick = NoNick THEN <<>> ELSE <<y>>
    <3>1. (Other = Self) = FALSE
      BY DEF Self, Other
    <3> QED BY <1>2, <3>1 DEF Gone, Here, Presence
  <2>3. s2c' = s2c \o ((IF room[Other] = NoNick THEN <<>> ELSE <<x>>) \o
                       (IF nick = NoNick THEN <<>> ELSE <<y>>))
    BY <1>1, <1>4, <2>2 DEF Told, Answer, In
  <2> HIDE DEF x, y
  <2>4. /\ ~Live(x) /\ ~Full(x) /\ ~Own(x) /\ ~Live(y) /\ ~Full(y) /\ ~Own(y)
        /\ room[Other] # NoNick => ~Hides(x, room[Self])
        /\ ~Hides(y, room[Self]) /\ Shows(y, nick)
    BY <2>1 DEF Live, Full, Own, Hides, Shows
  <2>5. CASE room[Other] # NoNick /\ nick # NoNick
    <3> DEFINE s == <<x>> \o <<y>>
    <3>1. /\ s \in Seq(Stanzas) /\ Len(s) = 2 /\ s[1] = x /\ s[2] = y
          /\ ShownFrom(s, nick, 1) /\ ~HiddenFrom(s, room[Self], 1)
      BY <2>1, <2>4, <2>5, TwoFacts
    <3>2. s2c' = s2c \o s
      BY <2>3, <2>5
    <3> HIDE DEF s
    <3>3. \A f \in 1..Len(s) : f = 1 \/ f = 2
      BY <3>1
    <3> QED BY <1>1, <1>4, <2>4, <3>1, <3>2, <3>3, OtherTold
  <2>6. CASE room[Other] # NoNick /\ nick = NoNick
    <3> DEFINE s == <<x>>
    <3>1. s \in Seq(Stanzas) /\ Len(s) = 1 /\ s[1] = x /\ ~HiddenFrom(s, room[Self], 1)
      BY <2>1, <2>4, <2>6, OneFacts
    <3>2. s2c' = s2c \o s
      <4>1. s \o <<>> = s
        BY <3>1, ConcatEmptySeq
      <4> QED BY <2>3, <2>6, <4>1
    <3> HIDE DEF s
    <3>3. \A f \in 1..Len(s) : f = 1
      BY <3>1
    <3> QED BY <1>1, <1>4, <2>4, <2>6, <3>1, <3>2, <3>3, OtherTold
  <2>7. CASE room[Other] = NoNick
    <3> DEFINE s == <<y>>
    <3>1. nick # NoNick
      BY <1>1, <2>7
    <3>2. /\ s \in Seq(Stanzas) /\ Len(s) = 1 /\ s[1] = y /\ ~HiddenFrom(s, room[Self], 1)
          /\ ShownFrom(s, nick, 1)
      BY <2>1, <2>4, <3>1, OneFacts
    <3>3. s2c' = s2c \o s
      <4>1. <<>> \o s = s
        BY <3>2, ConcatEmptySeq
      <4> QED BY <2>3, <2>7, <3>1, <4>1
    <3> HIDE DEF s
    <3>4. \A f \in 1..Len(s) : f = 1
      BY <3>2
    <3> QED BY <1>1, <1>4, <2>4, <3>2, <3>3, <3>4, OtherTold
  <2> QED BY <2>5, <2>6, <2>7
<1> QED BY <1>3, <1>4

LEMMA SpeaksStep == ASSUME Inv, Speaks PROVE Inv'
<1> DEFINE y == [what |-> "msg", live |-> TRUE]
<1>1. y \in Stanzas /\ y.what = "msg"
  BY DEF Stanzas
<1>2. Answer(<<y>>) /\ In /\ acct' = acct /\ room' = room /\ seen' = seen
  BY DEF Speaks, In
<1> HIDE DEF y
<1>3. Account(acct')
  BY <1>2 DEF Inv, Typed
<1> QED BY <1>1, <1>2, <1>3, AsideOne

LEMMA RemovedStep == ASSUME Inv, Removed PROVE Inv'
<1>1. Account(acct') /\ acct' = acct
  BY DEF Removed, Inv, Typed
<1> QED BY <1>1, LeaveStep DEF Removed, In

-----------------------------------------------------------------------------
(* The stream.                                                             *)

LEMMA StreamStep == ASSUME Inv, Fresh \/ Resume \/ LinkLost \/ SessionExpires PROVE Inv'
<1>0. Account(acct)
  BY DEF Inv, Typed
<1>1. CASE Fresh
  <2> DEFINE a == [acct EXCEPT !.up = TRUE, !.sm = TRUE, !.out = <<>>]
  <2>1. Account(a) /\ a.chan.open = acct.chan.open
    BY <1>0, EmptySeq DEF Account
  <2>2. acct' = Rejoin(a) /\ s2c' = <<>> /\ room' = [room EXCEPT ![Self] = NoNick]
        /\ seen' = [seen EXCEPT !.gap = acct.chan.open]
    BY <1>1 DEF Fresh
  <2> HIDE DEF a
  <2>3. /\ Account(acct') /\ acct'.chan.open = acct.chan.open
        /\ acct'.chan.open => acct'.chan.joining
    BY <2>1, <2>2, RejoinFacts DEF Keeps
  <2>4. DOMAIN seen' = DOMAIN seen /\ seen'.gap = acct.chan.open
    BY <2>2 DEF Inv, Typed
  <2> QED BY <2>2, <2>3, <2>4, Cleared
<1>2. CASE SessionExpires
  <2>1. Account(acct') /\ acct'.chan = acct.chan
    BY <1>0, <1>2, EmptySeq DEF SessionExpires, Account
  <2>2. /\ s2c' = <<>> /\ room' = [room EXCEPT ![Self] = NoNick] /\ seen' = seen
    BY <1>2 DEF SessionExpires
  <2>3. seen.gap => acct.chan.open /\ acct.chan.joining
    BY DEF Inv, GapFollows
  <2> QED BY <2>1, <2>2, <2>3, Cleared
<1>3. CASE Resume \/ LinkLost
  <2>1. /\ s2c' = s2c /\ room' = room /\ seen' = seen
        /\ acct' = [acct EXCEPT !.up = TRUE] \/ acct' = [acct EXCEPT !.up = FALSE]
    BY <1>3 DEF Resume, LinkLost
  <2>2. /\ DOMAIN acct' = DOMAIN acct /\ acct'.chan = acct.chan /\ acct'.out = acct.out
        /\ acct'.nickname = acct.nickname /\ acct'.pings = acct.pings
    BY <1>0, <2>1 DEF Account
  <2>3. Keeps(acct, acct')
    BY <1>0, <2>2, SilentFacts DEF Account
  <2>4. seen.gap => acct.chan.open
    BY DEF Inv, GapFollows
  <2> QED BY <2>1, <2>2, <2>3, <2>4, Commanding
<1> QED BY <1>1, <1>2, <1>3

-----------------------------------------------------------------------------
(* The user, the bookmarks and the timer.                                  *)

LEMMA EnterStep ==
  ASSUME Inv, NEW nick \in Nicks, Do(Enter(acct, nick)), seen' = [seen EXCEPT !.left = FALSE]
  PROVE  Inv'
<1>1. Account(acct) /\ DOMAIN seen' = DOMAIN seen /\ seen'.refused = seen.refused
      /\ seen'.gap = seen.gap
  BY DEF Inv, Typed
<1>2. acct' = Enter(acct, nick) /\ s2c' = s2c /\ room' = room
  BY DEF Do
<1>3. /\ Keeps(acct, acct') /\ AskedBy(acct', "join") /\ acct'.chan.open /\ acct'.chan.joining
      /\ acct.chan.open => /\ acct'.chan.present = acct.chan.present
                           /\ acct'.chan.joined = acct.chan.joined
      /\ ~acct.chan.open => ~acct'.chan.joined
  BY <1>1, <1>2, EnterFacts
<1> QED BY <1>1, <1>2, <1>3, Commanding

LEMMA CloseStep ==
  ASSUME Inv, Do(Close(acct)), seen' = [seen EXCEPT !.left = TRUE, !.gap = FALSE]
  PROVE  Inv'
<1> DEFINE x == [what |-> "leave"]
           a == IF acct.up THEN Send(acct, x) ELSE acct
<1>1. Account(acct) /\ DOMAIN seen' = DOMAIN seen /\ seen'.refused = seen.refused
      /\ seen'.gap = FALSE
  BY DEF Inv, Typed
<1>2. x \in Requests
  BY DEF Requests
<1>3. Keeps(acct, a)
  BY <1>1, <1>2, SendFacts DEF Keeps
<1>4. acct' = [a EXCEPT !.chan = NoChannel] /\ s2c' = s2c /\ room' = room
  BY DEF Do, Close
<1> HIDE DEF a
<1>5. Account(a)
  BY <1>3 DEF Keeps
<1>6. /\ DOMAIN acct' = DOMAIN a /\ DOMAIN acct'.chan = DOMAIN a.chan /\ acct'.out = a.out
      /\ acct'.nickname = a.nickname /\ acct'.pings = a.pings /\ ~acct'.chan.open
  BY <1>4, <1>5 DEF Account, NoChannel
<1>7. Keeps(a, acct')
  BY <1>5, <1>6, SilentFacts DEF Account
<1>8. Keeps(acct, acct')
  BY <1>3, <1>7, KeepsOn
<1> QED BY <1>1, <1>4, <1>6, <1>8, Commanding

\* A step that leaves the buffer as it is.
LEMMA SameChannel ==
  ASSUME Inv, s2c' = s2c, room' = room, Keeps(acct, acct'), seen' = seen,
         acct'.chan.open = acct.chan.open, acct'.chan.joining = acct.chan.joining,
         acct'.chan.present = acct.chan.present, acct'.chan.joined = acct.chan.joined,
         acct'.chan.self_nick = acct.chan.self_nick
  PROVE  Inv'
<1>1. seen.gap => acct.chan.open
  BY DEF Inv, GapFollows
<1> QED BY <1>1, Commanding

LEMMA AgedFacts ==
  ASSUME NEW S, IsFiniteSet(S)
  PROVE  IsFiniteSet({[q EXCEPT !.old = TRUE] : q \in S})
<1> DEFINE T == {[q EXCEPT !.old = TRUE] : q \in S}
           f == [q \in S |-> [q EXCEPT !.old = TRUE]]
<1>1. f \in Surjection(S, T)
  BY DEF Surjection
<1> QED BY <1>1, FS_Surjection

LEMMA TimeStep == ASSUME Inv, TimePasses \/ IdleTimer PROVE Inv'
<1>0. Account(acct)
  BY DEF Inv, Typed
<1>1. CASE TimePasses
  <2>1. PICK long \in BOOLEAN :
          acct' = [acct EXCEPT !.pings = {[q EXCEPT !.old = TRUE] : q \in @},
                               !.chan.due = @ \/ (long /\ acct.chan.open)]
    BY <1>1 DEF TimePasses, Do
  <2>2. s2c' = s2c /\ room' = room /\ seen' = seen
    BY <1>1 DEF TimePasses, Do
  <2>3. IsFiniteSet({[q EXCEPT !.old = TRUE] : q \in acct.pings})
    BY <1>0, AgedFacts DEF Account
  <2>4. /\ DOMAIN acct' = DOMAIN acct /\ DOMAIN acct'.chan = DOMAIN acct.chan
        /\ acct'.out = acct.out /\ acct'.nickname = acct.nickname
        /\ IsFiniteSet(acct'.pings)
        /\ acct'.chan.open = acct.chan.open /\ acct'.chan.joining = acct.chan.joining
        /\ acct'.chan.present = acct.chan.present /\ acct'.chan.joined = acct.chan.joined
        /\ acct'.chan.self_nick = acct.chan.self_nick
    BY <1>0, <2>1, <2>3 DEF Account
  <2>5. Keeps(acct, acct')
    BY <1>0, <2>4, SilentFacts DEF Account
  <2> QED BY <2>2, <2>4, <2>5, SameChannel
<1>2. CASE IdleTimer
  <2> DEFINE a == Sweep(acct)
  <2>1. Keeps(acct, a) /\ a.chan = acct.chan
    BY <1>0, SweepFacts
  <2>2. /\ acct' = IF Pingable(a) THEN SelfPing(a) ELSE a
        /\ s2c' = s2c /\ room' = room /\ seen' = seen
    BY <1>2 DEF IdleTimer, Do
  <2> HIDE DEF a
  <2>3. CASE Pingable(a)
    <3>1. Account(a) /\ a.chan.open /\ FreeIds(a) \subseteq 1..MaxPings
      BY <2>1, <2>3 DEF Keeps, Pingable, FreeIds
    <3>2. /\ Keeps(a, acct')
          /\ acct'.chan.open = a.chan.open /\ acct'.chan.joining = a.chan.joining
          /\ acct'.chan.present = a.chan.present /\ acct'.chan.joined = a.chan.joined
          /\ acct'.chan.self_nick = a.chan.self_nick
      BY <2>2, <2>3, <3>1, SelfPingFacts
    <3> QED BY <2>1, <2>2, <3>2, KeepsOn, SameChannel
  <2>4. CASE ~Pingable(a)
    BY <2>1, <2>2, <2>4, SameChannel
  <2> QED BY <2>3, <2>4
<1> QED BY <1>1, <1>2

LEMMA UserStep ==
  ASSUME Inv, UserEnters \/ UserCloses \/ UserRenames \/ UserPings \/ Bookmarked
  PROVE  Inv'
<1>0. Account(acct)
  BY DEF Inv, Typed
<1>1. CASE UserEnters
  BY <1>1, EnterStep DEF UserEnters
<1>2. CASE UserCloses
  BY <1>2, CloseStep DEF UserCloses
<1>3. CASE UserRenames
  <2>1. PICK nick \in Nicks : Do(Send(acct, [what |-> "nick", nick |-> nick]))
    BY <1>3 DEF UserRenames
  <2> DEFINE x == [what |-> "nick", nick |-> nick]
  <2>2. x \in Requests
    BY DEF Requests
  <2> HIDE DEF x
  <2>3. acct' = Send(acct, x) /\ s2c' = s2c /\ room' = room
    BY <2>1 DEF Do, x
  <2>4. Keeps(acct, acct') /\ acct'.chan = acct.chan
    BY <1>0, <2>2, <2>3, SendFacts
  <2>5. seen' = seen
    BY <1>3 DEF UserRenames
  <2> QED BY <2>3, <2>4, <2>5, SameChannel
<1>4. CASE UserPings
  <2>1. /\ acct.chan.open /\ acct' = SelfPing(acct) /\ s2c' = s2c /\ room' = room
        /\ seen' = seen /\ FreeIds(acct) \subseteq 1..MaxPings
    BY <1>4 DEF UserPings, Do, FreeIds
  <2>2. /\ Keeps(acct, acct')
        /\ acct'.chan.open = acct.chan.open /\ acct'.chan.joining = acct.chan.joining
        /\ acct'.chan.present = acct.chan.present /\ acct'.chan.joined = acct.chan.joined
        /\ acct'.chan.self_nick = acct.chan.self_nick
    BY <1>0, <2>1, SelfPingFacts
  <2> QED BY <2>1, <2>2, SameChannel
<1>5. CASE Bookmarked
  <2>1. JoinNick(acct) \in Nicks
    BY <1>0, JoinNickFacts
  <2> QED BY <1>5, <2>1, EnterStep, CloseStep DEF Bookmarked
<1> QED BY <1>1, <1>2, <1>3, <1>4, <1>5

-----------------------------------------------------------------------------
(* The theorem.                                                            *)

LEMMA InitInv == Init => Inv
<1> SUFFICES ASSUME Init PROVE Inv
  OBVIOUS
<1>1. s2c \in Seq(Stanzas) /\ Len(s2c) = 0
  BY EmptySeq DEF Init
<1>2. Account(acct)
  <2>1. IsFiniteSet({})
    BY FS_EmptySet
  <2> QED BY <2>1, EmptySeq, RoomConstants DEF Init, Account, NoChannel
<1>3. ~In /\ room \in [{Self, Other} -> Nicks \union {NoNick}]
  BY DEF Init, In
<1>4. Typed
  BY <1>1, <1>2, <1>3 DEF Typed, Init
<1>5. ~seen.gap
  BY DEF Init
<1> QED BY <1>1, <1>3, <1>4, <1>5 DEF Inv, Sound, In, NickFollows, OccupantsFollow, GapFollows

LEMMA NextInv == ASSUME Inv, [Next]_vars PROVE Inv'
<1>1. CASE UNCHANGED vars
  <2>1. acct' = acct /\ s2c' = s2c /\ room' = room /\ seen' = seen
    BY <1>1 DEF vars
  <2> QED BY <2>1 DEF Inv, Typed, Sound, NickFollows, OccupantsFollow, GapFollows,
                      In, IsIn, Known
<1>2. CASE Next
  BY <1>2, ReceiveStep, UserStep, TimeStep, StreamStep, ServeStep, TroubleStep, OtherStep,
     SpeaksStep, RemovedStep DEF Next
<1> QED BY <1>1, <1>2

\* Who has joined a room and has nothing on the way knows the nick the room gives the account
\* (unless a join was refused), shows everybody in it, and has asked the archive for what was
\* missed (send_muc_join_presence, presence_handler, rejoin_open_mucs).
THEOREM RoomIsKnownTheorem == Spec => []RoomIsKnown
<1>1. Init => Inv
  BY InitInv
<1>2. Inv /\ [Next]_vars => Inv'
  BY NextInv
<1>3. Inv => RoomIsKnown
  BY InvImplies
<1> QED BY <1>1, <1>2, <1>3, PTL DEF Spec

=============================================================================
