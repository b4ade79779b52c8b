---------------------------- MODULE Messages_proofs ----------------------------
(***************************************************************************)
(* One line for a message, one marker, and none before the dwell; for any  *)
(* number of messages, losses, visits and fetches, in whatever order the   *)
(* copies come.  Inv is preserved by every action of Messages; that a line *)
(* can be found again by whatever identifiers the next copy has is Sound,  *)
(* that a message is marked once is Marked.                                *)
(***************************************************************************)
EXTENDS Messages, FiniteSetTheorems, SequenceTheorems, TLAPS

-----------------------------------------------------------------------------
(* The inductive invariant.                                                *)

Entries == [by : {"peer", "device", "self"}, kind : Kinds, about : Nat]

Lines == [of : Nat, id : {"m", "s", "none"}, origin : BOOLEAN, sid : BOOLEAN,
          nick : {"peer", "own", "none"}, text : Nat]
Chats == [lines : Seq(Lines), unreads : Seq(Nat), timer : 0..Delay]

Copies == [what : {"message"}, n : Nat, stamped : BOOLEAN, mode : {"live", "delayed"}]
Things ==
  Copies \union [what : {"result"}, n : Nat] \union [what : {"fin"}, n : Nat, end : Nat]
  \union [what : {"mds"}, item : {"none", "s"} \X Nat]

Typed ==
  /\ archive \in Seq(Entries) /\ Len(archive) <= MaxArchive
  /\ offline \in Seq(Nat) /\ unacked \in Seq(Nat)
  /\ node \in {"none", "s"} \X Nat /\ asked \subseteq [from : Nat, end : Nat]
  /\ down \in Seq(Things) /\ held \in Seq(Copies) /\ cursor \in Nat
  /\ chat \in Chats /\ view \in [on : BOOLEAN, age : 0..Delay, odd : BOOLEAN]
  /\ marks \in [Numbers -> Nat]

\* What comes is in the archive A; only the contact's messages come late, and those of
\* another device without a stanza-id have an origin-id.
Sent(copy, A) ==
  /\ copy.n \in DOMAIN A /\ A[copy.n].by # "self"
  /\ copy.mode = "delayed" => (copy.stamped /\ A[copy.n].by = "peer")
  /\ ~copy.stamped => (OriginIds /\ A[copy.n].by = "device")
Fits(d, A) ==
  /\ d.what = "message" => Sent(d, A)
  /\ d.what = "result" => d.n \in DOMAIN A
  /\ d.what = "fin" => (d.n <= d.end /\ d.end <= Len(A))
OfPeer(n, A) == n \in DOMAIN A /\ A[n].by = "peer"

Arriving ==
  /\ \A i \in DOMAIN offline : OfPeer(offline[i], archive)
  /\ \A i \in DOMAIN unacked : OfPeer(unacked[i], archive)
  /\ \A i \in DOMAIN down : Fits(down[i], archive)
  /\ \A i \in DOMAIN held : Sent(held[i], archive)
  /\ \A q \in asked : q.from > 0 /\ q.end <= Len(archive)

\* A line that is not a tombstone can be found by a copy of its message: by its stanza-id, or
\* by its id if it is of this account.
Found(l, A) ==
  /\ OriginIds => l.id = "m"
  /\ ~l.sid => (l.id = "m" /\ A[l.of].by # "peer" /\ (OriginIds \/ A[l.of].by = "self"))
LineFits(l, A) ==
  /\ l.of \in DOMAIN A
  /\ l.text = 0 => (l.id = "none" /\ ~l.origin)
  /\ l.text # 0 => Found(l, A)
Alone(lines) ==
  \A i, j \in DOMAIN lines :
    (i # j /\ lines[i].of = lines[j].of) => 0 \in {lines[i].text, lines[j].text}
Sound(lines, A) == (\A i \in DOMAIN lines : LineFits(lines[i], A)) /\ Alone(lines)

\* A message that comes live does so once, and is not unread before it has come; what is unread
\* has not been marked.
IsLive(d) == d.what = "message" /\ d.mode = "live"
Once(s) == \A i, j \in DOMAIN s : (IsLive(s[i]) /\ IsLive(s[j]) /\ s[i].n = s[j].n) => i = j
Unseen(s, unreads, m) ==
  \A i \in DOMAIN s : IsLive(s[i]) => (m[s[i].n] = 0 /\ \A k \in DOMAIN unreads : unreads[k] # s[i].n)
Apart(s, t) ==
  \A i \in DOMAIN s, j \in DOMAIN t : (IsLive(s[i]) /\ IsLive(t[j])) => s[i].n # t[j].n
Unread(unreads, A, m) ==
  /\ \A i, j \in DOMAIN unreads : unreads[i] = unreads[j] => i = j
  /\ \A i \in DOMAIN unreads : unreads[i] \in DOMAIN A /\ m[unreads[i]] = 0
Counted(m, A) == \A n \in Numbers : m[n] <= 1 /\ (n > Len(A) => m[n] = 0)

Marked ==
  /\ Counted(marks, archive) /\ Unread(chat.unreads, archive, marks)
  /\ Once(held) /\ Once(down) /\ Apart(held, down)
  /\ Unseen(held, chat.unreads, marks) /\ Unseen(down, chat.unreads, marks)

\* The dwell ends no earlier than Delay after the buffer was entered; what is unread waits for
\* it, if only texts are.
Waits(c) == (view.on /\ ~view.odd /\ c.unreads # <<>>) => c.timer > 0
Dwells(c) == (view.on /\ ~view.odd /\ c.timer > 0) => view.age + c.timer >= Delay
Timed == Dwells(chat) /\ (MarkableEdits \/ Waits(chat))

Inv == Typed /\ Arriving /\ Sound(chat.lines, archive) /\ Marked /\ Timed
-----------------------------------------------------------------------------
(* Folds over a sequence.                                                  *)

\* What 0 has, and n + 1 if n has it, every natural number has.
LEMMA NumberInduction ==
  ASSUME NEW T, 0 \in T, \A n \in Nat : n \in T => n + 1 \in T
  PROVE  Nat \subseteq T
<1> DEFINE Bad == {n \in Nat : n \notin T}
<1>1. ASSUME Bad # {} PROVE FALSE
  <2> DEFINE Less == OpToRel(<, Nat)
  <2>1. IsWellFoundedOn(Less, Nat)
    BY NatLessThanWellFounded
  <2>2. \A m, n \in Nat : m < n => <<m, n>> \in Less
    BY DEF OpToRel
  <2> HIDE DEF Less
  <2>3. PICK n \in Bad : \A m \in Bad : <<m, n>> \notin Less
    BY <1>1, <2>1, WFMin
  <2>4. n \in Nat /\ n # 0
    BY <2>3
  <2>5. n - 1 \in Nat /\ n - 1 < n /\ n = (n - 1) + 1
    BY <2>4
  <2> QED BY <2>2, <2>3, <2>4, <2>5
<1> QED BY <1>1

Picks(pick, S) == \A s \in SUBSET S : s # {} => pick[s] \in s
Recurs(f, S, base, step, pick) ==
  \A s \in SUBSET S : f[s] = IF s = {} THEN base ELSE step[pick[s], f[s \ {pick[s]}]]

\* A function can be defined on the subsets of a finite set by its value for the empty set,
\* and for any other by that for the set without the element that is picked.
LEMMA FoldExists ==
  ASSUME NEW S, IsFiniteSet(S), NEW A, NEW base \in A, NEW step \in [S \X A -> A],
         NEW pick, Picks(pick, S)
  PROVE  \E f \in [SUBSET S -> A] : Recurs(f, S, base, step, pick)
<1> DEFINE Small(n) == {s \in SUBSET S : Cardinality(s) < n}
           Val(s, f) == IF s = {} THEN base ELSE step[pick[s], f[s \ {pick[s]}]]
           Is(f, n) == \A s \in Small(n) : f[s] = Val(s, f)
           Good == {n \in Nat : \E f \in [Small(n) -> A] : Is(f, n)}
<1>1. \A s \in SUBSET S : IsFiniteSet(s) /\ Cardinality(s) \in Nat
  BY FS_Subset, FS_CardinalityType
<1>2. \A s \in SUBSET S : \A x \in s : s \ {x} \in SUBSET S /\ Cardinality(s \ {x}) = Cardinality(s) - 1
  BY <1>1, FS_RemoveElement
<1>3. ASSUME NEW n \in Nat, n \in Good PROVE n + 1 \in Good
  <2>1. PICK f \in [Small(n) -> A] : Is(f, n)
    BY <1>3
  <2> DEFINE g == [s \in Small(n + 1) |-> Val(s, f)]
  <2>2. \A s \in Small(n + 1) : s # {} => (pick[s] \in S /\ s \ {pick[s]} \in Small(n))
    BY <1>1, <1>2 DEF Picks
  <2>3. ASSUME NEW s \in Small(n) PROVE s \in Small(n + 1) /\ g[s] = f[s]
    <3>1. s \in Small(n + 1)
      BY <1>1
    <3>2. f[s] = Val(s, f)
      BY <2>1
    <3> HIDE DEF Small, Val
    <3> QED BY <3>1, <3>2
  <2>4. ASSUME NEW s \in Small(n + 1) PROVE Val(s, f) \in A /\ g[s] = Val(s, g)
    <3>1. CASE s = {}
      BY <3>1
    <3>2. CASE s # {}
      <4>1. pick[s] \in S /\ s \ {pick[s]} \in Small(n)
        BY <2>2, <3>2
      <4>2. g[s \ {pick[s]}] = f[s \ {pick[s]}]
        BY <4>1, <2>3
      <4>3. f[s \ {pick[s]}] \in A
        BY <4>1, <2>1
      <4>4. step[pick[s], f[s \ {pick[s]}]] \in A
        BY <4>1, <4>3
      <4> HIDE DEF Small
      <4> QED BY <4>2, <4>4, <3>2
    <3> QED BY <3>1, <3>2
  <2> HIDE DEF Small, Val
  <2>5. g \in [Small(n + 1) -> A]
    BY <2>4
  <2>6. Is(g, n + 1)
    BY <2>4
  <2>7. n + 1 \in Nat
    OBVIOUS
  <2> HIDE DEF Is, g
  <2> QED BY <2>5, <2>6, <2>7
<1>4. 0 \in Good
  <2>1. Small(0) = {}
    BY <1>1
  <2>2. [s \in {} |-> base] \in [Small(0) -> A]
    BY <2>1
  <2> QED BY <2>1, <2>2
<1>5. Nat \subseteq Good
  <2> HIDE DEF Good
  <2> QED BY <1>3, <1>4, NumberInduction
<1>6. PICK n \in Nat : n = Cardinality(S) + 1
  BY FS_CardinalityType
<1>7. Small(n) = SUBSET S
  BY <1>1, <1>6, FS_Subset
<1>8. PICK f \in [Small(n) -> A] : Is(f, n)
  BY <1>5, <1>6
<1> QED BY <1>7, <1>8 DEF Recurs

\* FoldLeft takes the elements off the end.
LEMMA InitialSegments ==
  ASSUME NEW n \in Nat, NEW i \in 1..n
  PROVE  /\ 1..i \in SUBSET (1..n) /\ 1..i # {} /\ Max(1..i) = i /\ (1..i) \ {i} = 1..(i - 1)
         /\ i - 1 \in 0..n
<1>1. i \in 1..i /\ \A y \in 1..i : i >= y
  OBVIOUS
<1>2. \A x \in 1..i : (\A y \in 1..i : x >= y) => x = i
  OBVIOUS
<1>3. Max(1..i) = i
  BY <1>1, <1>2 DEF Max
<1>4. (1..i) \ {i} = 1..(i - 1) /\ 1..i \subseteq 1..n /\ i - 1 \in 0..n
  OBVIOUS
<1> QED BY <1>1, <1>3, <1>4

LEMMA MaxIsMember ==
  ASSUME NEW n \in Nat, NEW S \in SUBSET (1..n), S # {}
  PROVE  Max(S) \in S
<1> DEFINE T == {m \in Nat : \A s \in SUBSET (1..m) : s # {} => \E x \in s : \A y \in s : x >= y}
<1>1. 0 \in T
  <2>1. 1..0 = {}
    OBVIOUS
  <2> QED BY <2>1
<1>2. ASSUME NEW m \in Nat, m \in T PROVE m + 1 \in T
  <2>1. ASSUME NEW s \in SUBSET (1..(m + 1)), s # {} PROVE \E x \in s : \A y \in s : x >= y
    <3>1. CASE m + 1 \in s
      BY <3>1
    <3>2. CASE m + 1 \notin s
      <4>1. s \in SUBSET (1..m)
        BY <3>2
      <4> QED BY <1>2, <2>1, <4>1
    <3> QED BY <3>1, <3>2
  <2> QED BY <2>1
<1>3. n \in T
  <2> HIDE DEF T
  <2> QED BY <1>1, <1>2, NumberInduction
<1>4. PICK x \in S : \A y \in S : x >= y
  BY <1>3
<1> QED BY <1>4 DEF Max

-----------------------------------------------------------------------------
(* The archive grows.                                                      *)

Extends(A, B) == Len(A) <= Len(B) /\ \A i \in DOMAIN A : i \in DOMAIN B /\ B[i] = A[i]

LEMMA Grown ==
  ASSUME NEW A, NEW B, Extends(A, B), Len(A) \in Nat, Len(B) \in Nat
  PROVE  /\ \A d : Sent(d, A) => Sent(d, B)
         /\ \A n : OfPeer(n, A) => OfPeer(n, B)
         /\ \A l : LineFits(l, A) => LineFits(l, B)
<1>1. ASSUME NEW d, Sent(d, A) PROVE Sent(d, B)
  BY <1>1 DEF Sent, Extends
<1>2. ASSUME NEW n, OfPeer(n, A) PROVE OfPeer(n, B)
  BY <1>2 DEF OfPeer, Extends
<1>3. ASSUME NEW l, LineFits(l, A) PROVE LineFits(l, B)
  BY <1>3 DEF LineFits, Found, Extends
<1> QED BY <1>1, <1>2, <1>3

LEMMA FitsGrown ==
  ASSUME NEW A \in Seq(Entries), NEW B \in Seq(Entries), Extends(A, B), NEW d \in Things, Fits(d, A)
  PROVE  Fits(d, B)
<1>1. Len(A) \in Nat /\ Len(B) \in Nat
  OBVIOUS
<1>2. d.what = "message" => Sent(d, B)
  BY <1>1, Grown DEF Fits
<1>3. d.what = "result" => d.n \in DOMAIN B
  BY DEF Fits, Extends
<1>4. d.what = "fin" => d.end <= Len(B)
  <2> SUFFICES ASSUME d.what = "fin" PROVE d.end <= Len(B)
    OBVIOUS
  <2>1. d.end \in Nat
    BY DEF Things, Copies
  <2>2. d.end <= Len(A) /\ Len(A) <= Len(B)
    BY DEF Fits, Extends
  <2> QED BY <1>1, <2>1, <2>2
<1> QED BY <1>2, <1>3, <1>4 DEF Fits

\* What somebody says.
LEMMA Added ==
  ASSUME Typed, NEW by \in {"peer", "device", "self"}, NEW kind \in Kinds, Add(by, kind)
  PROVE  /\ archive' \in Seq(Entries) /\ Len(archive') = Len(archive) + 1 /\ Len(archive') <= MaxArchive
         /\ Extends(archive, archive') /\ DOMAIN archive' = DOMAIN archive \union {Len(archive')}
         /\ archive'[Len(archive')].by = by /\ archive'[Len(archive')].kind = kind
         /\ Len(archive') \notin DOMAIN archive /\ Len(archive') \in Numbers
<1>1. PICK about \in Abouts(by, kind) :
        archive' = Append(archive, [by |-> by, kind |-> kind, about |-> about])
  BY DEF Add
<1>2. archive \in Seq(Entries) /\ about \in Nat
  BY DEF Typed, Abouts
<1> DEFINE e == [by |-> by, kind |-> kind, about |-> about]
<1>3. e \in Entries /\ e.by = by /\ e.kind = kind
  BY <1>2 DEF Entries
<1> HIDE DEF e
<1>4. archive' = Append(archive, e)
  BY <1>1 DEF e
<1>5. Len(archive') = Len(archive) + 1 /\ Len(archive) < MaxArchive /\ MaxArchive \in Nat
  BY <1>2, <1>3, <1>4, BoundsAreNumbers DEF Add
<1>6. archive' \in Seq(Entries) /\ archive'[Len(archive')] = e
  BY <1>2, <1>3, <1>4
<1>7. \A i \in DOMAIN archive : i \in DOMAIN archive' /\ archive'[i] = archive[i]
  BY <1>2, <1>3, <1>4
<1>8. DOMAIN archive = 1..Len(archive) /\ DOMAIN archive' = 1..Len(archive') /\ Len(archive) \in Nat
  BY <1>2, <1>6
<1>9. DOMAIN archive' = DOMAIN archive \union {Len(archive')} /\ Len(archive') \notin DOMAIN archive
  BY <1>5, <1>8
<1> QED BY <1>3, <1>5, <1>6, <1>7, <1>8, <1>9 DEF Extends, Numbers

-----------------------------------------------------------------------------
(* message_handler.                                                        *)

ArmedFrom(d, c) == d.timer = c.timer \/ (c.timer = 0 /\ d.timer = Delay)

LEMMA ArmFacts ==
  ASSUME NEW c \in Chats
  PROVE  /\ Arm(c) \in Chats /\ Arm(c).lines = c.lines /\ Arm(c).unreads = c.unreads
         /\ ArmedFrom(Arm(c), c) /\ (c.unreads # <<>> => Arm(c).timer > 0)
<1>1. Delay \in Nat /\ Delay > 0 /\ Delay \in 0..Delay /\ c.timer \in 0..Delay
  BY BoundsAreNumbers DEF Chats
<1>2. CASE c.timer = 0 /\ c.unreads # <<>>
  <2>1. Arm(c) = [c EXCEPT !.timer = Delay]
    BY <1>2 DEF Arm
  <2> QED BY <1>1, <1>2, <2>1 DEF Chats, ArmedFrom
<1>3. CASE ~(c.timer = 0 /\ c.unreads # <<>>)
  BY <1>1, <1>3 DEF Arm, ArmedFrom
<1> QED BY <1>2, <1>3

\* A copy of a message of the archive.
IsCopy(copy) ==
  copy.n \in DOMAIN archive /\ copy.stamped \in BOOLEAN /\ copy.mode \in {"live", "delayed", "archived"}

LEMMA LineFacts ==
  ASSUME Typed, NEW copy, IsCopy(copy)
  PROVE  /\ copy.n \in Nat \ {0} /\ archive[copy.n] \in Entries
         /\ Line(copy) \in Lines /\ Line(copy).of = copy.n /\ Line(copy).sid = copy.stamped
         /\ Line(copy).id = Stable(copy) /\ Line(copy).origin = OriginIds /\ Line(copy).text = copy.n
         /\ Stable(copy) \in {"m", "s"}
<1>1. archive \in Seq(Entries) /\ copy.n \in DOMAIN archive
  BY DEF Typed, IsCopy
<1>2. copy.n \in Nat \ {0} /\ archive[copy.n] \in Entries
  BY <1>1
<1>3. Nick(archive[copy.n].by) \in {"peer", "own"}
  BY DEF Nick
<1>4. Stable(copy) \in {"m", "s"} /\ OriginIds \in BOOLEAN /\ copy.stamped \in BOOLEAN
  BY BoundsAreNumbers DEF Stable, IsCopy
<1> QED BY <1>2, <1>3, <1>4 DEF Line, Lines

LEMMA ShownFacts ==
  ASSUME Typed, NEW c \in Chats, NEW copy, IsCopy(copy)
  PROVE  /\ Shown(c, copy) \in Chats /\ Shown(c, copy).unreads = c.unreads
         /\ ArmedFrom(Shown(c, copy), c)
         /\ (view.on /\ archive[copy.n].by = "peer" /\ c.unreads # <<>>) => Shown(c, copy).timer > 0
         /\ Shown(c, copy).lines = IF copy.mode = "live" /\ HasOrigin(c.lines, copy)
                                     THEN c.lines ELSE Append(c.lines, Line(copy))
<1> DEFINE d == IF copy.mode = "live" /\ HasOrigin(c.lines, copy)
                  THEN c ELSE [c EXCEPT !.lines = Append(@, Line(copy))]
<1>1. Line(copy) \in Lines
  BY LineFacts
<1>2. c.lines \in Seq(Lines)
  BY DEF Chats
<1>3. Append(c.lines, Line(copy)) \in Seq(Lines)
  BY <1>1, <1>2
<1>4. /\ d \in Chats /\ d.unreads = c.unreads /\ d.timer = c.timer
      /\ d.lines = IF copy.mode = "live" /\ HasOrigin(c.lines, copy)
                     THEN c.lines ELSE Append(c.lines, Line(copy))
  BY <1>3 DEF Chats
<1>5. Shown(c, copy) = IF view.on /\ archive[copy.n].by = "peer" THEN Arm(d) ELSE d
  BY DEF Shown
<1> HIDE DEF d
<1>6. CASE view.on /\ archive[copy.n].by = "peer"
  BY <1>4, <1>5, <1>6, ArmFacts DEF ArmedFrom
<1>7. CASE ~(view.on /\ archive[copy.n].by = "peer")
  BY <1>4, <1>5, <1>7 DEF ArmedFrom
<1> QED BY <1>6, <1>7

LEMMA TombstoneFacts ==
  ASSUME NEW l \in Lines
  PROVE  /\ Tombstone(l) \in Lines /\ Tombstone(l).of = l.of /\ Tombstone(l).text = 0
         /\ Tombstone(l).id = "none" /\ ~Tombstone(l).origin
BY DEF Tombstone, Lines

LEMMA RenamedFacts ==
  ASSUME NEW l \in Lines, NEW n \in Nat
  PROVE  LET m == [l EXCEPT !.text = n]
         IN  m \in Lines /\ m.of = l.of /\ m.id = l.id /\ m.origin = l.origin /\ m.sid = l.sid /\ m.text = n
BY DEF Lines

\* Of two sequences of lines the second has, at each place, the same line, the same with another
\* text, or its tombstone.
Follows(M, L) ==
  /\ DOMAIN M = DOMAIN L
  /\ \A i \in DOMAIN L :
       \/ M[i] = L[i]
       \/ /\ M[i].of = L[i].of /\ M[i].id = "none" /\ ~M[i].origin /\ M[i].text = 0
       \/ /\ L[i].id = "m" \/ L[i].origin
          /\ M[i].of = L[i].of /\ M[i].id = L[i].id /\ M[i].origin = L[i].origin
          /\ M[i].sid = L[i].sid /\ M[i].text # 0

LEMMA FollowsSound ==
  ASSUME NEW L, NEW M, NEW A, Follows(M, L), Sound(L, A)
  PROVE  Sound(M, A)
<1>1. ASSUME NEW i \in DOMAIN M
      PROVE  LineFits(M[i], A) /\ M[i].of = L[i].of /\ (L[i].text = 0 => M[i].text = 0)
  <2>1. LineFits(L[i], A) /\ i \in DOMAIN L
    BY DEF Follows, Sound
  <2>2. CASE M[i] = L[i]
    BY <2>1, <2>2
  <2>3. CASE M[i].of = L[i].of /\ M[i].id = "none" /\ ~M[i].origin /\ M[i].text = 0
    BY <2>1, <2>3 DEF LineFits
  <2>4. CASE /\ L[i].id = "m" \/ L[i].origin
             /\ M[i].of = L[i].of /\ M[i].id = L[i].id /\ M[i].origin = L[i].origin
             /\ M[i].sid = L[i].sid /\ M[i].text # 0
    <3>1. L[i].text # 0
      BY <2>1, <2>4 DEF LineFits
    <3> QED BY <2>1, <2>4, <3>1 DEF LineFits, Found
  <2> QED BY <2>1, <2>2, <2>3, <2>4 DEF Follows
<1>2. Alone(M)
  BY <1>1 DEF Follows, Sound, Alone
<1> QED BY <1>1, <1>2 DEF Sound

LEMMA CorrectedFacts ==
  ASSUME NEW L \in Seq(Lines), NEW n \in Nat \ {0}
  PROVE  Corrected(L, n) \in Seq(Lines) /\ Follows(Corrected(L, n), L)
<1> DEFINE M == Corrected(L, n)
<1>1. DOMAIN M = DOMAIN L /\ DOMAIN L = 1..Len(L) /\ Len(L) \in Nat
  BY DEF Corrected
<1>2. ASSUME NEW i \in DOMAIN L
      PROVE  /\ M[i] \in Lines
             /\ \/ M[i] = L[i]
                \/ /\ L[i].id = "m" \/ L[i].origin
                   /\ M[i].of = L[i].of /\ M[i].id = L[i].id /\ M[i].origin = L[i].origin
                   /\ M[i].sid = L[i].sid /\ M[i].text # 0
  <2>1. L[i] \in Lines
    OBVIOUS
  <2>2. CASE i \in Target(L, n)
    <3>1. Known(L[i], archive[n].about)
      BY <2>2 DEF Target, Matches
    <3>2. M[i] = [L[i] EXCEPT !.text = n]
      BY <2>2 DEF Corrected
    <3> HIDE DEF M
    <3> QED BY <2>1, <3>1, <3>2, RenamedFacts DEF Known
  <2>3. CASE i \notin Target(L, n)
    BY <2>1, <2>3 DEF Corrected
  <2> QED BY <2>2, <2>3
<1>3. M = [i \in 1..Len(L) |-> M[i]]
  BY <1>1 DEF Corrected
<1> HIDE DEF M
<1>4. M \in Seq(Lines)
  BY <1>1, <1>2, <1>3
<1> QED BY <1>1, <1>2, <1>4 DEF Follows, M

LEMMA RetractedFacts ==
  ASSUME NEW L \in Seq(Lines), NEW n
  PROVE  Retracted(L, n) \in Seq(Lines) /\ Follows(Retracted(L, n), L)
<1> DEFINE M == Retracted(L, n)
<1>1. DOMAIN M = DOMAIN L /\ DOMAIN L = 1..Len(L) /\ Len(L) \in Nat
  BY DEF Retracted
<1>2. ASSUME NEW i \in DOMAIN L
      PROVE  /\ M[i] \in Lines
             /\ \/ M[i] = L[i]
                \/ M[i].of = L[i].of /\ M[i].id = "none" /\ ~M[i].origin /\ M[i].text = 0
  <2>1. L[i] \in Lines
    OBVIOUS
  <2>2. M[i] = Tombstone(L[i]) \/ M[i] = L[i]
    BY DEF Retracted
  <2> HIDE DEF M
  <2> QED BY <2>1, <2>2, TombstoneFacts
<1>3. M = [i \in 1..Len(L) |-> M[i]]
  BY <1>1 DEF Retracted
<1> HIDE DEF M
<1>4. M \in Seq(Lines)
  BY <1>1, <1>2, <1>3
<1> QED BY <1>1, <1>2, <1>4 DEF Follows, M

LEMMA QueuedFacts ==
  ASSUME Typed, NEW c \in Chats, NEW copy, IsCopy(copy)
  PROVE  LET d == [c EXCEPT !.unreads = Queued(c, copy)]
         IN  /\ d \in Chats /\ d.lines = c.lines /\ d.timer = c.timer
             /\ d.unreads = c.unreads
                  \/ (Markable(copy.n) /\ copy.mode = "live" /\ d.unreads = Append(c.unreads, copy.n))
<1>1. copy.n \in Nat
  BY LineFacts
<1>2. Queued(c, copy) = c.unreads
        \/ (Markable(copy.n) /\ copy.mode = "live" /\ Queued(c, copy) = Append(c.unreads, copy.n))
  BY DEF Queued
<1>3. Queued(c, copy) \in Seq(Nat)
  <2>1. c.unreads \in Seq(Nat)
    BY DEF Chats
  <2>2. Append(c.unreads, copy.n) \in Seq(Nat)
    BY <1>1, <2>1
  <2> QED BY <1>2, <2>1, <2>2
<1> QED BY <1>2, <1>3 DEF Chats

\* What is queued is the copy's message, and if it is a text the user sees, the dwell begins.
LEMMA HandleFacts ==
  ASSUME Typed, NEW c \in Chats, NEW copy, IsCopy(copy)
  PROVE  LET e == Handle(c, copy)
         IN  /\ e \in Chats /\ ArmedFrom(e, c)
             /\ e.unreads = c.unreads \/ (copy.mode = "live" /\ e.unreads = Append(c.unreads, copy.n))
             /\ (view.on /\ ~MarkableEdits /\ e.unreads # c.unreads) => e.timer > 0
<1> DEFINE d == [c EXCEPT !.unreads = Queued(c, copy)]
           e == Handle(c, copy)
           kind == archive[copy.n].kind
           again == copy.mode # "archived" /\ copy.stamped /\ HasStanzaId(c.lines, copy.n)
<1>1. /\ d \in Chats /\ d.lines = c.lines /\ d.timer = c.timer
      /\ d.unreads = c.unreads
           \/ (Markable(copy.n) /\ copy.mode = "live" /\ d.unreads = Append(c.unreads, copy.n))
  BY QueuedFacts
<1>2. kind \in Kinds /\ copy.n \in Nat \ {0}
  BY LineFacts DEF Entries
<1>3. e = IF again THEN c
          ELSE CASE kind = "text"    -> Shown(d, copy)
                 [] kind = "correct" -> [d EXCEPT !.lines = Corrected(d.lines, copy.n)]
                 [] kind = "retract" -> [d EXCEPT !.lines = Retracted(d.lines, copy.n)]
  BY <1>1 DEF Handle
<1>4. d.unreads # c.unreads => (archive[copy.n].by = "peer" /\ (kind = "text" \/ MarkableEdits))
  BY <1>1 DEF Markable
<1> SUFFICES /\ e \in Chats /\ ArmedFrom(e, c)
             /\ e.unreads = c.unreads \/ (copy.mode = "live" /\ e.unreads = Append(c.unreads, copy.n))
             /\ (view.on /\ ~MarkableEdits /\ e.unreads # c.unreads) => e.timer > 0
  OBVIOUS
<1> HIDE DEF d, e, again
<1>5. CASE again
  BY <1>3, <1>5 DEF ArmedFrom
<1>6. CASE ~again /\ kind = "text"
  <2>1. e = Shown(d, copy)
    BY <1>3, <1>6
  <2>2. e \in Chats /\ e.unreads = d.unreads /\ ArmedFrom(e, d)
    BY <1>1, <2>1, ShownFacts
  <2>3. (view.on /\ e.unreads # c.unreads) => e.timer > 0
    <3> SUFFICES ASSUME view.on, e.unreads # c.unreads PROVE e.timer > 0
      OBVIOUS
    <3>1. archive[copy.n].by = "peer" /\ d.unreads = Append(c.unreads, copy.n)
      BY <1>1, <1>4, <2>2
    <3>2. d.unreads # <<>>
      BY <1>1, <1>2, <3>1 DEF Chats
    <3> QED BY <1>1, <2>1, <3>1, <3>2, ShownFacts
  <2> QED BY <1>1, <2>2, <2>3 DEF ArmedFrom
<1>7. CASE ~again /\ kind # "text"
  <2>1. PICK L \in Seq(Lines) : e = [d EXCEPT !.lines = L]
    <3>1. d.lines \in Seq(Lines)
      BY <1>1 DEF Chats
    <3>2. CASE kind = "correct"
      <4>1. e = [d EXCEPT !.lines = Corrected(d.lines, copy.n)]
        BY <1>3, <1>7, <3>2
      <4> QED BY <1>2, <3>1, <4>1, CorrectedFacts
    <3>3. CASE kind = "retract"
      <4>1. e = [d EXCEPT !.lines = Retracted(d.lines, copy.n)]
        BY <1>3, <1>7, <3>3
      <4> QED BY <3>1, <4>1, RetractedFacts
    <3> QED BY <1>2, <1>7, <3>2, <3>3 DEF Kinds
  <2>2. e \in Chats /\ e.unreads = d.unreads /\ e.timer = d.timer
    BY <1>1, <2>1 DEF Chats
  <2>3. e.unreads # c.unreads => MarkableEdits
    BY <1>4, <1>7, <2>2
  <2> QED BY <1>1, <2>2, <2>3 DEF ArmedFrom
<1> QED BY <1>5, <1>6, <1>7

LEMMA AppendSound ==
  ASSUME NEW L \in Seq(Lines), NEW l \in Lines, NEW A, Sound(L, A), LineFits(l, A),
         \A i \in DOMAIN L : L[i].of = l.of => L[i].text = 0
  PROVE  Sound(Append(L, l), A)
<1> DEFINE M == Append(L, l)
           N == Len(L)
<1>1. N \in Nat /\ DOMAIN L = 1..N /\ DOMAIN M = 1..(N + 1) /\ M[N + 1] = l
      /\ \A i \in 1..N : M[i] = L[i]
  OBVIOUS
<1> HIDE DEF M, N
<1>2. \A i \in DOMAIN M : i \in DOMAIN L \/ i = N + 1
  BY <1>1
<1>3. \A i \in DOMAIN M : LineFits(M[i], A)
  BY <1>1, <1>2 DEF Sound
<1>4. Alone(M)
  <2> SUFFICES ASSUME NEW i \in DOMAIN M, NEW j \in DOMAIN M, i # j, M[i].of = M[j].of
               PROVE  0 \in {M[i].text, M[j].text}
    BY DEF Alone
  <2>1. CASE i \in DOMAIN L /\ j \in DOMAIN L
    BY <1>1, <2>1 DEF Sound, Alone
  <2>2. CASE i \in DOMAIN L /\ j = N + 1
    BY <1>1, <2>2
  <2>3. CASE i = N + 1 /\ j \in DOMAIN L
    BY <1>1, <2>3
  <2> QED BY <1>2, <2>1, <2>2, <2>3
<1> QED BY <1>3, <1>4 DEF Sound, M

\* Nothing is shown that a line shows: a line that is no tombstone is found by what the copy has.
LEMMA NewLine ==
  ASSUME Typed, NEW L \in Seq(Lines), Sound(L, archive), NEW copy, IsCopy(copy),
         copy.mode # "archived" => Sent(copy, archive),
         copy.mode # "archived" => ~(copy.stamped /\ HasStanzaId(L, copy.n)),
         copy.mode = "live" => ~HasOrigin(L, copy),
         copy.mode = "archived" => /\ copy.stamped
                                   /\ \A i \in DOMAIN L : L[i].of = copy.n => (~L[i].sid /\ L[i].id # "m")
  PROVE  Sound(Append(L, Line(copy)), archive)
<1>1. /\ copy.n \in Nat \ {0} /\ copy.n \in DOMAIN archive /\ Line(copy) \in Lines
      /\ Line(copy).of = copy.n /\ Line(copy).sid = copy.stamped /\ Line(copy).id = Stable(copy)
      /\ Line(copy).origin = OriginIds /\ Line(copy).text = copy.n
  BY LineFacts DEF IsCopy
<1>2. LineFits(Line(copy), archive)
  <2>1. Found(Line(copy), archive)
    BY <1>1 DEF Found, Stable, Sent
  <2> QED BY <1>1, <2>1 DEF LineFits
<1>3. ASSUME NEW i \in DOMAIN L, L[i].of = copy.n, L[i].text # 0 PROVE FALSE
  <2>1. Found(L[i], archive)
    BY <1>3 DEF Sound, LineFits
  <2>2. L[i] \in Range(L)
    BY DEF Range
  <2>3. copy.mode # "archived"
    BY <1>3, <2>1 DEF Found
  <2>4. copy.stamped => ~L[i].sid
    BY <1>3, <2>2, <2>3 DEF HasStanzaId
  <2>5. Sent(copy, archive) /\ copy.mode \in {"live", "delayed"}
    BY <2>3 DEF IsCopy
  <2>6. OriginIds /\ archive[copy.n].by # "peer"
    BY <1>3, <2>1, <2>4, <2>5 DEF Sent, Found
  <2>7. copy.mode = "live" /\ L[i].id = "m" /\ Stable(copy) = "m"
    BY <2>1, <2>5, <2>6 DEF Sent, Found, Stable
  <2>8. HasOrigin(L, copy)
    BY <1>3, <2>2, <2>7 DEF HasOrigin
  <2> QED BY <2>7, <2>8
<1> QED BY <1>1, <1>2, <1>3, AppendSound

LEMMA HandleSound ==
  ASSUME Typed, NEW c \in Chats, Sound(c.lines, archive), NEW copy, IsCopy(copy),
         copy.mode # "archived" => Sent(copy, archive),
         copy.mode = "archived" =>
           /\ copy.stamped
           /\ \A i \in DOMAIN c.lines : c.lines[i].of = copy.n => (~c.lines[i].sid /\ c.lines[i].id # "m")
  PROVE  Sound(Handle(c, copy).lines, archive)
<1> DEFINE d == [c EXCEPT !.unreads = Queued(c, copy)]
           e == Handle(c, copy)
           kind == archive[copy.n].kind
           again == copy.mode # "archived" /\ copy.stamped /\ HasStanzaId(c.lines, copy.n)
<1>1. d \in Chats /\ d.lines = c.lines /\ c.lines \in Seq(Lines)
  BY QueuedFacts DEF Chats
<1>2. kind \in Kinds /\ copy.n \in Nat \ {0}
  BY LineFacts DEF Entries
<1>3. e = IF again THEN c
          ELSE CASE kind = "text"    -> Shown(d, copy)
                 [] kind = "correct" -> [d EXCEPT !.lines = Corrected(d.lines, copy.n)]
                 [] kind = "retract" -> [d EXCEPT !.lines = Retracted(d.lines, copy.n)]
  BY <1>1 DEF Handle
<1> HIDE DEF d, e
<1>4. CASE again
  <2> HIDE DEF again
  <2> QED BY <1>3, <1>4 DEF e
<1>5. CASE ~again /\ kind = "text"
  <2>1. e = Shown(d, copy)
    BY <1>3, <1>5
  <2>2. e.lines = IF copy.mode = "live" /\ HasOrigin(c.lines, copy)
                    THEN c.lines ELSE Append(c.lines, Line(copy))
    BY <1>1, <2>1, ShownFacts
  <2>3. CASE copy.mode = "live" /\ HasOrigin(c.lines, copy)
    BY <2>2, <2>3 DEF e
  <2>4. CASE ~(copy.mode = "live" /\ HasOrigin(c.lines, copy))
    <3>1. Sound(Append(c.lines, Line(copy)), archive)
      BY <1>1, <1>5, <2>4, NewLine
    <3> QED BY <2>2, <2>4, <3>1 DEF e
  <2> QED BY <2>3, <2>4
<1>6. CASE ~again /\ kind = "correct"
  <2>1. e.lines = Corrected(c.lines, copy.n)
    BY <1>1, <1>3, <1>6 DEF Chats
  <2> QED BY <1>1, <1>2, <2>1, CorrectedFacts, FollowsSound DEF e
<1>7. CASE ~again /\ kind = "retract"
  <2>1. e.lines = Retracted(c.lines, copy.n)
    BY <1>1, <1>3, <1>7 DEF Chats
  <2> QED BY <1>1, <2>1, RetractedFacts, FollowsSound DEF e
<1> QED BY <1>2, <1>4, <1>5, <1>6, <1>7 DEF Kinds

-----------------------------------------------------------------------------
(* What was held back, and what was not delivered.                         *)

\* The steps of a fetch's end, one message after the other.
LEMMA FlushSteps ==
  ASSUME Typed, \A i \in DOMAIN held : IsCopy(held[i])
  PROVE  \E g \in [0..Len(held) -> Chats] :
           /\ g[0] = chat /\ g[Len(held)] = Flush(chat)
           /\ \A i \in 1..Len(held) : g[i] = Handle(g[i - 1], held[i])
<1> DEFINE n == Len(held)
           S == 1..n
           pick == [s \in SUBSET S |-> Max(s)]
           step == [p \in S \X Chats |-> Handle(p[2], held[p[1]])]
<1>1. n \in Nat /\ DOMAIN held = 1..n /\ IsFiniteSet(1..n)
  BY FS_Interval DEF Typed
<1>2. Picks(pick, S)
  <2> HIDE DEF n
  <2> QED BY <1>1, MaxIsMember DEF Picks
<1>3. chat \in Chats
  BY DEF Typed
<1>4. ASSUME NEW c \in Chats, NEW i \in S PROVE Handle(c, held[i]) \in Chats
  BY <1>1, HandleFacts
<1>5. step \in [S \X Chats -> Chats]
  BY <1>4
<1>6. PICK f \in [SUBSET S -> Chats] : Recurs(f, S, chat, step, pick)
  <2> HIDE DEF pick, step, S
  <2> QED BY <1>1, <1>2, <1>3, <1>5, FoldExists DEF S
<1> DEFINE Is(it) == it = [s \in SUBSET S |-> IF s = {} THEN chat
                            ELSE Handle(it[s \ {Max(s)}], held[Max(s)])]
           iter == CHOOSE it : Is(it)
<1>7. Is(f)
  <2>1. ASSUME NEW s \in SUBSET S
        PROVE  f[s] = IF s = {} THEN chat ELSE Handle(f[s \ {Max(s)}], held[Max(s)])
    <3>1. f[s] = IF s = {} THEN chat ELSE step[pick[s], f[s \ {pick[s]}]]
      BY <1>6 DEF Recurs
    <3>2. s # {} => (Max(s) \in S /\ pick[s] = Max(s) /\ f[s \ {Max(s)}] \in Chats)
      BY <1>2, <1>6 DEF Picks
    <3> QED BY <3>1, <3>2
  <2> HIDE DEF S
  <2> QED BY <2>1, <1>6
<1>8. Is(iter)
  <2> HIDE DEF Is
  <2> QED BY <1>7
<1> HIDE DEF iter
<1>9. iter[{}] = chat
  BY <1>8
<1> DEFINE T == {i \in Nat : i <= n => iter[1..i] \in Chats}
<1>10. 0 \in T
  <2>1. 1..0 = {}
    OBVIOUS
  <2> QED BY <1>3, <1>9, <2>1
<1>11. ASSUME NEW i \in 1..n PROVE iter[1..i] = Handle(iter[1..(i - 1)], held[i])
  <2> HIDE DEF n
  <2>1. 1..i \in SUBSET (1..n) /\ 1..i # {} /\ Max(1..i) = i /\ (1..i) \ {i} = 1..(i - 1)
    BY <1>1, InitialSegments
  <2> QED BY <1>8, <2>1
<1>12. ASSUME NEW i \in Nat, i \in T PROVE i + 1 \in T
  <2> SUFFICES ASSUME i + 1 <= n PROVE iter[1..(i + 1)] \in Chats
    OBVIOUS
  <2> HIDE DEF n
  <2>1. i + 1 \in 1..n /\ (i + 1) - 1 = i /\ i <= n
    BY <1>1
  <2>2. iter[1..(i + 1)] = Handle(iter[1..i], held[i + 1])
    <3> HIDE DEF Is
    <3>1. iter[1..(i + 1)] = Handle(iter[1..((i + 1) - 1)], held[i + 1])
      BY <1>11, <2>1
    <3> QED BY <2>1, <3>1
  <2> QED BY <1>4, <1>12, <2>1, <2>2
<1>13. \A i \in 0..n : iter[1..i] \in Chats
  <2> HIDE DEF T
  <2>1. Nat \subseteq T
    BY <1>10, <1>12, NumberInduction
  <2> QED BY <1>1, <2>1 DEF T
<1>14. Flush(chat) = iter[1..n]
  BY <1>1 DEF Flush, FoldLeft, MapThenFoldSet, iter, Is
<1> DEFINE g == [i \in 0..n |-> iter[1..i]]
<1> HIDE DEF Is
<1>15. g \in [0..n -> Chats] /\ g[0] = chat /\ g[n] = Flush(chat)
  <2>1. 1..0 = {} /\ 0 \in 0..n /\ n \in 0..n
    BY <1>1
  <2> QED BY <1>9, <1>13, <1>14, <2>1
<1>16. ASSUME NEW i \in 1..n PROVE g[i] = Handle(g[i - 1], held[i])
  <2>1. i \in 0..n /\ i - 1 \in 0..n
    BY <1>1
  <2> QED BY <1>11, <2>1
<1> QED BY <1>15, <1>16

LEMMA UndeliveredFacts ==
  ASSUME Typed, Arriving, NEW last \in Seq(Nat), \A i \in DOMAIN last : OfPeer(last[i], archive)
  PROVE  LET s == FoldLeft(Undelivered, last, down)
         IN  s \in Seq(Nat) /\ \A i \in DOMAIN s : OfPeer(s[i], archive)
<1> DEFINE n == Len(down)
           S == 1..n
           Good == {s \in Seq(Nat) : \A i \in DOMAIN s : OfPeer(s[i], archive)}
           pick == [s \in SUBSET S |-> Max(s)]
           step == [p \in S \X Good |-> Undelivered(p[2], down[p[1]])]
<1>1. n \in Nat /\ DOMAIN down = 1..n /\ IsFiniteSet(1..n)
  BY FS_Interval DEF Typed
<1>2. Picks(pick, S)
  <2> HIDE DEF n
  <2> QED BY <1>1, MaxIsMember DEF Picks
<1>3. last \in Good
  OBVIOUS
<1>4. ASSUME NEW s \in Good, NEW i \in S PROVE Undelivered(s, down[i]) \in Good
  <2>1. Fits(down[i], archive) /\ down[i] \in Things /\ archive \in Seq(Entries)
    <3>1. i \in DOMAIN down /\ down \in Seq(Things) /\ archive \in Seq(Entries)
      BY <1>1 DEF Typed
    <3> HIDE DEF S, n
    <3>2. down[i] \in Things
      BY <3>1
    <3> QED BY <3>1, <3>2 DEF Arriving
  <2>2. CASE down[i].what = "message" /\ archive[down[i].n].by = "peer"
    <3>1. OfPeer(down[i].n, archive) /\ down[i].n \in Nat
      BY <2>1, <2>2 DEF Fits, Sent, OfPeer
    <3>2. Undelivered(s, down[i]) = Append(s, down[i].n)
      BY <2>2 DEF Undelivered
    <3> DEFINE m == down[i].n
    <3>3. m \in Nat /\ s \in Seq(Nat) /\ OfPeer(m, archive) /\ \A k \in DOMAIN s : OfPeer(s[k], archive)
      BY <3>1
    <3> HIDE DEF m
    <3>4. Append(s, m) \in Seq(Nat) /\ \A k \in DOMAIN Append(s, m) : OfPeer(Append(s, m)[k], archive)
      BY <3>3
    <3> QED BY <3>2, <3>4 DEF m
  <2>3. CASE ~(down[i].what = "message" /\ archive[down[i].n].by = "peer")
    BY <2>3 DEF Undelivered
  <2> QED BY <2>2, <2>3
<1> HIDE DEF Good
<1>5. step \in [S \X Good -> Good]
  BY <1>4
<1>6. PICK f \in [SUBSET S -> Good] : Recurs(f, S, last, step, pick)
  <2> HIDE DEF pick, step, S
  <2> QED BY <1>1, <1>2, <1>3, <1>5, FoldExists DEF S
<1> DEFINE Is(it) == it = [s \in SUBSET S |-> IF s = {} THEN last
                            ELSE Undelivered(it[s \ {Max(s)}], down[Max(s)])]
           iter == CHOOSE it : Is(it)
<1>7. Is(f)
  <2>1. ASSUME NEW s \in SUBSET S
        PROVE  f[s] = IF s = {} THEN last ELSE Undelivered(f[s \ {Max(s)}], down[Max(s)])
    <3>1. f[s] = IF s = {} THEN last ELSE step[pick[s], f[s \ {pick[s]}]]
      BY <1>6 DEF Recurs
    <3>2. s # {} => (Max(s) \in S /\ pick[s] = Max(s) /\ f[s \ {Max(s)}] \in Good)
      BY <1>2, <1>6 DEF Picks
    <3> QED BY <3>1, <3>2
  <2> HIDE DEF S
  <2> QED BY <2>1, <1>6
<1>8. Is(iter)
  <2> HIDE DEF Is
  <2> QED BY <1>7
<1> HIDE DEF iter
<1>9. iter[{}] = last
  BY <1>8
<1> DEFINE T == {i \in Nat : i <= n => iter[1..i] \in Good}
<1>10. 0 \in T
  <2>1. 1..0 = {}
    OBVIOUS
  <2> QED BY <1>3, <1>9, <2>1
<1>11. ASSUME NEW i \in 1..n PROVE iter[1..i] = Undelivered(iter[1..(i - 1)], down[i])
  <2> HIDE DEF n
  <2>1. 1..i \in SUBSET (1..n) /\ 1..i # {} /\ Max(1..i) = i /\ (1..i) \ {i} = 1..(i - 1)
    BY <1>1, InitialSegments
  <2> QED BY <1>8, <2>1
<1>12. ASSUME NEW i \in Nat, i \in T PROVE i + 1 \in T
  <2> SUFFICES ASSUME i + 1 <= n PROVE iter[1..(i + 1)] \in Good
    OBVIOUS
  <2> HIDE DEF n
  <2>1. i + 1 \in 1..n /\ (i + 1) - 1 = i /\ i <= n
    BY <1>1
  <2>2. iter[1..(i + 1)] = Undelivered(iter[1..i], down[i + 1])
    <3> HIDE DEF Is
    <3>1. iter[1..(i + 1)] = Undelivered(iter[1..((i + 1) - 1)], down[i + 1])
      BY <1>11, <2>1
    <3> QED BY <2>1, <3>1
  <2> QED BY <1>4, <1>12, <2>1, <2>2
<1>13. iter[1..n] \in Good
  <2> HIDE DEF T
  <2>1. Nat \subseteq T
    BY <1>10, <1>12, NumberInduction
  <2> QED BY <1>1, <2>1 DEF T
<1>14. FoldLeft(Undelivered, last, down) = iter[1..n]
  BY <1>1 DEF FoldLeft, MapThenFoldSet, iter, Is
<1> QED BY <1>13, <1>14 DEF Good

-----------------------------------------------------------------------------
(* What is under way.                                                      *)

\* The live copies of t are some of those of s, each once.
LiveFrom(t, s) ==
  \E h \in [DOMAIN t -> DOMAIN s \union {0}] :
    /\ \A i \in DOMAIN t : IsLive(t[i]) => (h[i] \in DOMAIN s /\ s[h[i]] = t[i])
    /\ \A i, j \in DOMAIN t : (IsLive(t[i]) /\ IsLive(t[j]) /\ h[i] = h[j]) => i = j

LEMMA LiveFromKeeps ==
  ASSUME NEW s, NEW t, LiveFrom(t, s)
  PROVE  /\ Once(s) => Once(t)
         /\ \A u, m : Unseen(s, u, m) => Unseen(t, u, m)
         /\ \A r : Apart(r, s) => Apart(r, t)
<1>1. PICK h \in [DOMAIN t -> DOMAIN s \union {0}] :
        /\ \A i \in DOMAIN t : IsLive(t[i]) => (h[i] \in DOMAIN s /\ s[h[i]] = t[i])
        /\ \A i, j \in DOMAIN t : (IsLive(t[i]) /\ IsLive(t[j]) /\ h[i] = h[j]) => i = j
  BY DEF LiveFrom
<1>2. Once(s) => Once(t)
  <2> SUFFICES ASSUME Once(s), NEW i \in DOMAIN t, NEW j \in DOMAIN t,
                      IsLive(t[i]), IsLive(t[j]), t[i].n = t[j].n
               PROVE  i = j
    BY DEF Once
  <2>1. h[i] \in DOMAIN s /\ s[h[i]] = t[i] /\ h[j] \in DOMAIN s /\ s[h[j]] = t[j]
    BY <1>1
  <2>2. h[i] = h[j]
    BY <2>1 DEF Once
  <2> QED BY <1>1, <2>2
<1>3. ASSUME NEW u, NEW m, Unseen(s, u, m) PROVE Unseen(t, u, m)
  <2> SUFFICES ASSUME NEW i \in DOMAIN t, IsLive(t[i])
               PROVE  m[t[i].n] = 0 /\ \A k \in DOMAIN u : u[k] # t[i].n
    BY DEF Unseen
  <2>1. h[i] \in DOMAIN s /\ s[h[i]] = t[i]
    BY <1>1
  <2> QED BY <1>3, <2>1 DEF Unseen
<1>4. ASSUME NEW r, Apart(r, s) PROVE Apart(r, t)
  <2> SUFFICES ASSUME NEW i \in DOMAIN r, NEW j \in DOMAIN t, IsLive(r[i]), IsLive(t[j])
               PROVE  r[i].n # t[j].n
    BY DEF Apart
  <2>1. h[j] \in DOMAIN s /\ s[h[j]] = t[j]
    BY <1>1
  <2> QED BY <1>4, <2>1 DEF Apart
<1> QED BY <1>2, <1>3, <1>4

LEMMA TailFacts ==
  ASSUME NEW S, NEW s \in Seq(S), s # <<>>
  PROVE  /\ Tail(s) \in Seq(S) /\ Head(s) = s[1] /\ Head(s) \in S /\ 1 \in DOMAIN s
         /\ \A i \in DOMAIN Tail(s) : i \in Nat \ {0} /\ i + 1 \in DOMAIN s /\ Tail(s)[i] = s[i + 1]
OBVIOUS

LEMMA TailLive ==
  ASSUME NEW S, NEW s \in Seq(S), s # <<>>
  PROVE  LiveFrom(Tail(s), s)
<1> DEFINE t == Tail(s)
           h == [i \in DOMAIN t |-> i + 1]
<1>1. \A i \in DOMAIN t : i \in Nat \ {0} /\ i + 1 \in DOMAIN s /\ t[i] = s[i + 1]
  BY TailFacts
<1> HIDE DEF t
<1>2. h \in [DOMAIN t -> DOMAIN s \union {0}]
  BY <1>1
<1>3. \A i, j \in DOMAIN t : h[i] = h[j] => i = j
  BY <1>1
<1> QED BY <1>1, <1>2, <1>3 DEF LiveFrom, t

LEMMA JoinedFacts ==
  ASSUME NEW S, NEW s \in Seq(S), NEW t \in Seq(S)
  PROVE  /\ s \o t \in Seq(S)
         /\ \A i \in DOMAIN (s \o t) : \/ i \in DOMAIN s /\ (s \o t)[i] = s[i]
                                       \/ \E j \in DOMAIN t : (s \o t)[i] = t[j]
<1>1. /\ s \o t \in Seq(S) /\ Len(s \o t) = Len(s) + Len(t)
      /\ \A i \in 1..(Len(s) + Len(t)) :
           (s \o t)[i] = IF i <= Len(s) THEN s[i] ELSE t[i - Len(s)]
  BY ConcatProperties
<1>2. Len(s) \in Nat /\ Len(t) \in Nat /\ DOMAIN s = 1..Len(s) /\ DOMAIN t = 1..Len(t)
      /\ DOMAIN (s \o t) = 1..(Len(s) + Len(t))
  BY <1>1
<1>3. ASSUME NEW i \in DOMAIN (s \o t)
      PROVE  \/ i \in DOMAIN s /\ (s \o t)[i] = s[i]
             \/ \E j \in DOMAIN t : (s \o t)[i] = t[j]
  <2>1. CASE i <= Len(s)
    BY <1>1, <1>2, <2>1
  <2>2. CASE ~(i <= Len(s))
    <3>1. i - Len(s) \in DOMAIN t
      BY <1>2, <2>2
    <3> QED BY <1>1, <1>2, <2>2, <3>1
  <2> QED BY <2>1, <2>2
<1> QED BY <1>1, <1>3

LEMMA JoinedLive ==
  ASSUME NEW S, NEW s \in Seq(S), NEW t \in Seq(S), \A j \in DOMAIN t : ~IsLive(t[j])
  PROVE  LiveFrom(s \o t, s)
<1> DEFINE u == s \o t
           h == [i \in DOMAIN u |-> IF i \in DOMAIN s THEN i ELSE 0]
<1>1. \A i \in DOMAIN u : (i \in DOMAIN s /\ u[i] = s[i]) \/ ~IsLive(u[i])
  BY JoinedFacts
<1> HIDE DEF u
<1>2. h \in [DOMAIN u -> DOMAIN s \union {0}]
  OBVIOUS
<1>3. \A i \in DOMAIN u : IsLive(u[i]) => (h[i] = i /\ i \in DOMAIN s /\ s[h[i]] = u[i])
  BY <1>1
<1> QED BY <1>2, <1>3 DEF LiveFrom, u

LEMMA AppendFacts ==
  ASSUME NEW S, NEW s \in Seq(S), NEW d \in S
  PROVE  /\ Append(s, d) \in Seq(S) /\ Append(s, d) = s \o <<d>> /\ Len(Append(s, d)) = Len(s) + 1
         /\ \A i \in DOMAIN Append(s, d) :
              (i \in DOMAIN s /\ Append(s, d)[i] = s[i]) \/ (i = Len(s) + 1 /\ Append(s, d)[i] = d)
OBVIOUS

\* One more copy, of a message that no other live copy has.
LEMMA OneMore ==
  ASSUME NEW S, NEW s \in Seq(S), NEW d \in S
  PROVE  /\ (Once(s) /\ (IsLive(d) => \A i \in DOMAIN s : IsLive(s[i]) => s[i].n # d.n))
              => Once(Append(s, d))
         /\ \A u, m : (Unseen(s, u, m) /\ (IsLive(d) => (m[d.n] = 0 /\ \A k \in DOMAIN u : u[k] # d.n)))
              => Unseen(Append(s, d), u, m)
         /\ \A r : (Apart(r, s) /\ (IsLive(d) => \A i \in DOMAIN r : IsLive(r[i]) => r[i].n # d.n))
              => Apart(r, Append(s, d))
         /\ \A r : (Apart(s, r) /\ (IsLive(d) => \A i \in DOMAIN r : IsLive(r[i]) => r[i].n # d.n))
              => Apart(Append(s, d), r)
<1> DEFINE t == Append(s, d)
<1>1. \A i \in DOMAIN t : (i \in DOMAIN s /\ t[i] = s[i]) \/ (i = Len(s) + 1 /\ t[i] = d)
  BY AppendFacts
<1> HIDE DEF t
<1>2. ASSUME Once(s), IsLive(d) => \A i \in DOMAIN s : IsLive(s[i]) => s[i].n # d.n PROVE Once(t)
  BY <1>1, <1>2 DEF Once
<1>3. ASSUME NEW u, NEW m, Unseen(s, u, m), IsLive(d) => (m[d.n] = 0 /\ \A k \in DOMAIN u : u[k] # d.n)
      PROVE  Unseen(t, u, m)
  BY <1>1, <1>3 DEF Unseen
<1>4. ASSUME NEW r, Apart(r, s), IsLive(d) => \A i \in DOMAIN r : IsLive(r[i]) => r[i].n # d.n
      PROVE  Apart(r, t)
  BY <1>1, <1>4 DEF Apart
<1>5. ASSUME NEW r, Apart(s, r), IsLive(d) => \A i \in DOMAIN r : IsLive(r[i]) => r[i].n # d.n
      PROVE  Apart(t, r)
  BY <1>1, <1>5 DEF Apart
<1> QED BY <1>2, <1>3, <1>4, <1>5 DEF t

-----------------------------------------------------------------------------
(* What the steps have in common.                                          *)

Nowhere(s) == \A i \in DOMAIN s : ~IsLive(s[i])

LEMMA NoLive ==
  ASSUME NEW t, Nowhere(t)
  PROVE  \A s : LiveFrom(t, s)
<1> SUFFICES ASSUME NEW s PROVE LiveFrom(t, s)
  OBVIOUS
<1> DEFINE h == [i \in DOMAIN t |-> 0]
<1>1. h \in [DOMAIN t -> DOMAIN s \union {0}]
  OBVIOUS
<1> QED BY <1>1 DEF Nowhere, LiveFrom

LEMMA SameLive == ASSUME NEW S, NEW s \in Seq(S) PROVE LiveFrom(s, s)
<1> DEFINE h == [i \in DOMAIN s |-> i]
<1>1. h \in [DOMAIN s -> DOMAIN s \union {0}] /\ \A i \in DOMAIN s : h[i] = i
  OBVIOUS
<1> QED BY <1>1 DEF LiveFrom

LEMMA SameArchive == ASSUME NEW A \in Seq(Entries) PROVE Extends(A, A)
BY DEF Extends

LEMMA LinesKept ==
  ASSUME Inv, archive' \in Seq(Entries), Extends(archive, archive'), Follows(chat'.lines, chat.lines)
  PROVE  Sound(chat'.lines, archive')
<1>1. Len(archive) \in Nat /\ Len(archive') \in Nat
  BY DEF Inv, Typed
<1>2. Sound(chat.lines, archive')
  BY <1>1, Grown DEF Inv, Sound
<1> QED BY <1>2, FollowsSound

LEMMA SameLines == ASSUME NEW L PROVE Follows(L, L)
BY DEF Follows

\* Nothing new comes live, nothing is marked.
LEMMA Settled ==
  ASSUME Inv, Typed', Arriving', Timed', Extends(archive, archive'), marks' = marks,
         Sound(chat'.lines, archive'), chat'.unreads = chat.unreads \/ chat'.unreads = <<>>,
         held' = held \/ held' = <<>>, LiveFrom(down', down)
  PROVE  Inv'
<1> DEFINE u == chat'.unreads
<1>1. Len(archive) \in Nat /\ Len(archive') \in Nat /\ Len(archive) <= Len(archive')
  BY DEF Inv, Typed, Extends
<1>2. Counted(marks, archive')
  BY <1>1 DEF Inv, Marked, Counted, Numbers
<1>3. Unread(u, archive', marks)
  BY DEF Inv, Marked, Unread, Extends
<1>4. Unseen(held, u, marks) /\ Unseen(down, u, marks)
  BY DEF Inv, Marked, Unseen
<1> HIDE DEF u
<1>5. Once(down') /\ Unseen(down', u, marks) /\ Apart(held, down')
  BY <1>4, LiveFromKeeps DEF Inv, Marked
<1>6. Once(held') /\ Apart(held', down') /\ Unseen(held', u, marks)
  <2>1. CASE held' = held
    BY <1>4, <1>5, <2>1 DEF Inv, Marked
  <2>2. CASE held' = <<>>
    BY <2>2 DEF Once, Apart, Unseen
  <2> QED BY <2>1, <2>2
<1>7. Marked'
  BY <1>2, <1>3, <1>5, <1>6 DEF Marked, u
<1> QED BY <1>7 DEF Inv

\* What is unread has been read, with a marker for each and an item for the last.
LEMMA PublishTyped ==
  ASSUME Typed, Publish
  PROVE  /\ node' \in {"none", "s"} \X Nat /\ marks' \in [Numbers -> Nat] /\ down' \in Seq(Things)
         /\ down' = down \/ \E d \in Things : down' = Append(down, d) /\ d.what = "mds"
<1>1. marks' \in [Numbers -> Nat]
  BY DEF Typed, Publish
<1>2. CASE up /\ chat.unreads # <<>>
  <2>1. chat.unreads \in Seq(Nat) /\ node' = <<"s", Last(chat.unreads)>>
    BY <1>2 DEF Typed, Chats, Publish
  <2>2. Last(chat.unreads) \in Nat
    BY <1>2, <2>1 DEF Last
  <2>3. node' \in {"none", "s"} \X Nat
    BY <2>1, <2>2
  <2> DEFINE d == [what |-> "mds", item |-> node']
  <2>4. d \in Things /\ d.what = "mds"
    BY <2>3 DEF Things
  <2>5. down' = Append(down, d) /\ down \in Seq(Things)
    BY <1>2 DEF Publish, Typed
  <2> HIDE DEF d
  <2>6. down' \in Seq(Things)
    BY <2>4, <2>5
  <2> QED BY <1>1, <2>3, <2>4, <2>5, <2>6
<1>3. CASE ~(up /\ chat.unreads # <<>>)
  BY <1>1, <1>3 DEF Publish, Typed
<1> QED BY <1>2, <1>3

LEMMA ItemLive ==
  ASSUME Typed, NEW d \in Things, d.what # "message", down' = Append(down, d)
  PROVE  down' \in Seq(Things) /\ LiveFrom(down', down)
<1>1. down \in Seq(Things) /\ down' = down \o <<d>> /\ <<d>> \in Seq(Things) /\ down' \in Seq(Things)
  BY AppendFacts DEF Typed
<1>2. \A j \in DOMAIN <<d>> : ~IsLive(<<d>>[j])
  BY DEF IsLive
<1> QED BY <1>1, <1>2, JoinedLive

LEMMA ItemFits ==
  ASSUME Typed, Arriving, archive' \in Seq(Entries), Extends(archive, archive'),
         NEW d \in Things, d.what = "mds", down' = Append(down, d)
  PROVE  \A i \in DOMAIN down' : Fits(down'[i], archive')
<1> SUFFICES ASSUME NEW i \in DOMAIN down' PROVE Fits(down'[i], archive')
  OBVIOUS
<1>1. (i \in DOMAIN down /\ down'[i] = down[i]) \/ down'[i] = d
  <2>1. down \in Seq(Things)
    BY DEF Typed
  <2> QED BY <2>1, AppendFacts
<1>2. ASSUME i \in DOMAIN down, down'[i] = down[i] PROVE Fits(down'[i], archive')
  <2>1. down[i] \in Things /\ Fits(down[i], archive) /\ archive \in Seq(Entries)
    BY <1>2 DEF Typed, Arriving
  <2> QED BY <1>2, <2>1, FitsGrown
<1> QED BY <1>1, <1>2 DEF Fits

LEMMA OthersFit ==
  ASSUME Typed, Arriving, archive' \in Seq(Entries), Extends(archive, archive')
  PROVE  /\ \A i \in DOMAIN offline : OfPeer(offline[i], archive')
         /\ \A i \in DOMAIN unacked : OfPeer(unacked[i], archive')
         /\ \A i \in DOMAIN down : Fits(down[i], archive')
         /\ \A i \in DOMAIN held : Sent(held[i], archive')
         /\ \A q \in asked : q.from > 0 /\ q.end <= Len(archive')
<1>1. archive \in Seq(Entries) /\ Len(archive) \in Nat /\ Len(archive') \in Nat
  BY DEF Typed
<1>2. ASSUME NEW i \in DOMAIN down PROVE Fits(down[i], archive')
  <2>1. down[i] \in Things /\ Fits(down[i], archive)
    BY DEF Typed, Arriving
  <2> QED BY <1>1, <2>1, FitsGrown
<1>3. ASSUME NEW q \in asked PROVE q.from > 0 /\ q.end <= Len(archive')
  <2>1. q.from > 0 /\ q.end <= Len(archive) /\ q.end \in Nat
    BY DEF Arriving, Typed
  <2> QED BY <1>1, <2>1 DEF Extends
<1> QED BY <1>1, <1>2, <1>3, Grown DEF Arriving

LEMMA MarkedOff ==
  ASSUME Inv, Typed', Arriving', Timed', Extends(archive, archive'), Publish,
         Sound(chat'.lines, archive'), chat'.unreads = <<>>, held' = held
  PROVE  Inv'
<1>1. Len(archive) \in Nat /\ Len(archive') \in Nat /\ Len(archive) <= Len(archive')
      /\ DOMAIN archive = 1..Len(archive) /\ marks \in [Numbers -> Nat]
  BY DEF Inv, Typed, Extends
<1>2. LiveFrom(down', down)
  <2>1. down' = down \/ \E d \in Things : down' = Append(down, d) /\ d.what = "mds"
    BY PublishTyped DEF Inv
  <2>2. down \in Seq(Things)
    BY DEF Inv, Typed
  <2> QED BY <2>1, <2>2, ItemLive, SameLive DEF Inv
<1>3. ASSUME NEW n \in Numbers
      PROVE  /\ marks'[n] = marks[n] \/ (marks'[n] = marks[n] + 1 /\ n \in Range(chat.unreads))
             /\ marks[n] \in Nat
  BY <1>1 DEF Publish
<1>4. \A n \in Range(chat.unreads) : n \in DOMAIN archive /\ marks[n] = 0
  BY DEF Inv, Marked, Unread, Range
<1>5. Counted(marks', archive')
  <2> SUFFICES ASSUME NEW n \in Numbers
               PROVE  marks'[n] <= 1 /\ (n > Len(archive') => marks'[n] = 0)
    BY DEF Counted
  <2>1. n \in Nat /\ marks[n] <= 1 /\ (n > Len(archive) => marks[n] = 0)
    BY DEF Inv, Marked, Counted, Numbers
  <2>2. n \in Range(chat.unreads) => (n <= Len(archive) /\ marks[n] = 0)
    BY <1>1, <1>4
  <2> QED BY <1>1, <1>3, <2>1, <2>2
<1>6. Unread(<<>>, archive', marks')
  BY DEF Unread
<1>7. Once(held) /\ Once(down') /\ Apart(held, down') /\ Unseen(down', chat.unreads, marks)
  BY <1>2, LiveFromKeeps DEF Inv, Marked
<1>8. ASSUME NEW s, Unseen(s, chat.unreads, marks), \A i \in DOMAIN s : IsLive(s[i]) => s[i].n \in Numbers
      PROVE  Unseen(s, <<>>, marks')
  <2> SUFFICES ASSUME NEW i \in DOMAIN s, IsLive(s[i]) PROVE marks'[s[i].n] = 0
    BY DEF Unseen
  <2>1. marks[s[i].n] = 0 /\ s[i].n \notin Range(chat.unreads) /\ s[i].n \in Numbers
    BY <1>8 DEF Unseen, Range
  <2> QED BY <1>3, <2>1
<1>9. \A n \in DOMAIN archive' : n \in Numbers
  BY BoundsAreNumbers DEF Typed, Numbers
<1>10. \A i \in DOMAIN held : IsLive(held[i]) => held[i].n \in Numbers
  BY <1>9 DEF Arriving, Sent
<1>11. \A i \in DOMAIN down' : IsLive(down'[i]) => down'[i].n \in Numbers
  BY <1>9 DEF Arriving, Fits, Sent, IsLive
<1>12. Unseen(held, <<>>, marks') /\ Unseen(down', <<>>, marks')
  BY <1>7, <1>8, <1>10, <1>11 DEF Inv, Marked
<1>13. Marked'
  BY <1>5, <1>6, <1>7, <1>12 DEF Marked
<1> QED BY <1>13 DEF Inv

-----------------------------------------------------------------------------
(* Contact, other device, server.                                          *)

LEMMA InitInv == Init => Inv
<1> SUFFICES ASSUME Init PROVE Inv
  OBVIOUS
<1>1. Typed
  BY BoundsAreNumbers DEF Init, Typed, Chats, Numbers, None
<1>2. Arriving
  BY DEF Init, Arriving
<1>3. Sound(chat.lines, archive)
  BY DEF Init, Sound, Alone
<1>4. Marked
  BY DEF Init, Marked, Counted, Unread, Once, Apart, Unseen
<1>5. Timed
  BY DEF Init, Timed, Waits, Dwells
<1> QED BY <1>1, <1>2, <1>3, <1>4, <1>5 DEF Inv

\* A new message comes live.
LEMMA LiveAdded ==
  ASSUME Inv, archive' \in Seq(Entries), Len(archive') = Len(archive) + 1, Len(archive') <= MaxArchive,
         Extends(archive, archive'), Len(archive') \notin DOMAIN archive,
         NEW d \in Copies, d.mode = "live", d.n = Len(archive'), Fits(d, archive'),
         down' = Append(down, d),
         UNCHANGED <<offline, unacked, node, asked, held, cursor, chat, view, marks>>
  PROVE  Inv'
<1>1. d \in Things /\ IsLive(d) /\ down \in Seq(Things)
  BY DEF Copies, Things, IsLive, Inv, Typed
<1>2. down' \in Seq(Things)
  BY <1>1, AppendFacts
<1>3. Typed'
  BY <1>2 DEF Inv, Typed
<1>4. Arriving'
  <2>1. \A i \in DOMAIN down' : (i \in DOMAIN down /\ down'[i] = down[i]) \/ down'[i] = d
    BY <1>1, AppendFacts
  <2>2. \A i \in DOMAIN down : Fits(down[i], archive')
    BY OthersFit DEF Inv
  <2>3. \A i \in DOMAIN down' : Fits(down'[i], archive')
    BY <2>1, <2>2
  <2> QED BY <2>3, OthersFit DEF Inv, Arriving
<1>5. Sound(chat'.lines, archive')
  BY LinesKept, SameLines
<1>6. Len(archive) \in Nat /\ Len(archive') \in Nat /\ Len(archive') \in Numbers
  BY BoundsAreNumbers DEF Inv, Typed, Numbers
<1>7. marks[d.n] = 0 /\ Counted(marks, archive')
  BY <1>6 DEF Inv, Marked, Counted, Numbers
<1>8. Unread(chat.unreads, archive', marks) /\ \A k \in DOMAIN chat.unreads : chat.unreads[k] # d.n
  BY DEF Inv, Marked, Unread, Extends
<1>9. \A i \in DOMAIN down : IsLive(down[i]) => down[i].n # d.n
  BY DEF Inv, Arriving, Fits, Sent, IsLive
<1>10. \A i \in DOMAIN held : IsLive(held[i]) => held[i].n # d.n
  BY DEF Inv, Arriving, Sent
<1>11. Once(down') /\ Unseen(down', chat.unreads, marks) /\ Apart(held, down')
  BY <1>1, <1>7, <1>8, <1>9, <1>10, OneMore DEF Inv, Marked
<1>12. Marked'
  BY <1>7, <1>8, <1>11 DEF Inv, Marked
<1>13. Timed'
  BY DEF Inv, Timed, Dwells, Waits
<1> QED BY <1>3, <1>4, <1>5, <1>12, <1>13 DEF Inv

LEMMA PeerSaysStep == ASSUME Inv, PeerSays PROVE Inv'
<1>1. PICK kind \in Kinds : Add("peer", kind)
  BY DEF PeerSays
<1> DEFINE n == Len(archive')
<1>2. /\ archive' \in Seq(Entries) /\ n = Len(archive) + 1 /\ n <= MaxArchive
      /\ Extends(archive, archive') /\ DOMAIN archive' = DOMAIN archive \union {n}
      /\ archive'[n].by = "peer" /\ n \notin DOMAIN archive /\ n \in Numbers
  BY <1>1, Added DEF Inv
<1>3. n \in Nat
  BY <1>2 DEF Numbers
<1>4. UNCHANGED <<unacked, node, asked, held, cursor, chat, view, marks>>
  BY DEF PeerSays
<1> HIDE DEF n
<1>5. CASE up
  <2> DEFINE d == Live(n, TRUE)
  <2>1. d \in Copies /\ d.mode = "live" /\ d.n = n /\ d.what = "message" /\ d.stamped
    BY <1>3 DEF Live, Copies
  <2>2. Fits(d, archive')
    BY <1>2, <2>1 DEF Fits, Sent
  <2>3. down' = Append(down, d) /\ offline' = offline
    BY <1>5 DEF PeerSays, n
  <2> HIDE DEF d
  <2> QED BY <1>2, <1>4, <2>1, <2>2, <2>3, LiveAdded DEF n
<1>6. CASE ~up
  <2>1. offline' = Append(offline, n) /\ down' = down
    BY <1>6 DEF PeerSays, n
  <2>2. offline \in Seq(Nat) /\ down \in Seq(Things)
    BY DEF Inv, Typed
  <2>3. Typed'
    BY <1>2, <1>3, <1>4, <2>1, <2>2 DEF Inv, Typed, n
  <2>4. Arriving'
    <3>1. \A i \in DOMAIN offline' : (i \in DOMAIN offline /\ offline'[i] = offline[i]) \/ offline'[i] = n
      BY <1>3, <2>1, <2>2, AppendFacts
    <3>2. OfPeer(n, archive')
      BY <1>2 DEF OfPeer
    <3>3. \A i \in DOMAIN offline' : OfPeer(offline'[i], archive')
      BY <1>2, <3>1, <3>2, OthersFit DEF Inv
    <3> QED BY <1>2, <1>4, <2>1, <3>3, OthersFit DEF Inv, Arriving
  <2>5. Sound(chat'.lines, archive')
    BY <1>2, <1>4, LinesKept, SameLines
  <2>6. Timed'
    BY <1>4 DEF Inv, Timed, Dwells, Waits
  <2> QED BY <1>2, <1>4, <2>1, <2>2, <2>3, <2>4, <2>5, <2>6, Settled, SameLive
<1> QED BY <1>5, <1>6

LEMMA DeviceSaysStep == ASSUME Inv, DeviceSays PROVE Inv'
<1>1. PICK kind \in Kinds : Add("device", kind)
  BY DEF DeviceSays
<1> DEFINE n == Len(archive')
<1>2. /\ archive' \in Seq(Entries) /\ n = Len(archive) + 1 /\ n <= MaxArchive
      /\ Extends(archive, archive') /\ DOMAIN archive' = DOMAIN archive \union {n}
      /\ archive'[n].by = "device" /\ n \notin DOMAIN archive /\ n \in Numbers
  BY <1>1, Added DEF Inv
<1>3. n \in Nat
  BY <1>2 DEF Numbers
<1>4. UNCHANGED <<offline, unacked, node, asked, held, cursor, chat, view, marks>>
  BY DEF DeviceSays
<1> HIDE DEF n
<1>5. CASE up
  <2>1. PICK stamped \in {~OriginIds, TRUE} : down' = Append(down, Live(n, stamped))
    BY <1>5 DEF DeviceSays, n
  <2> DEFINE d == Live(n, stamped)
  <2>2. d \in Copies /\ d.mode = "live" /\ d.n = n /\ d.what = "message" /\ (~d.stamped => OriginIds)
    BY <1>3, BoundsAreNumbers DEF Live, Copies
  <2>3. Fits(d, archive')
    BY <1>2, <2>2 DEF Fits, Sent
  <2>4. down' = Append(down, d)
    BY <2>1
  <2> HIDE DEF d
  <2> QED BY <1>2, <1>4, <2>2, <2>3, <2>4, LiveAdded DEF n
<1>6. CASE ~up
  <2>1. down' = down /\ down \in Seq(Things)
    BY <1>6 DEF DeviceSays, Inv, Typed
  <2>2. Typed'
    BY <1>2, <1>3, <1>4, <2>1 DEF Inv, Typed, n
  <2>3. Arriving'
    BY <1>2, <1>4, <2>1, OthersFit DEF Inv, Arriving
  <2>4. Sound(chat'.lines, archive')
    BY <1>2, <1>4, LinesKept, SameLines
  <2>5. Timed'
    BY <1>4 DEF Inv, Timed, Dwells, Waits
  <2> QED BY <1>2, <1>4, <2>1, <2>2, <2>3, <2>4, <2>5, Settled, SameLive
<1> QED BY <1>5, <1>6

LEMMA DeviceReadsStep == ASSUME Inv, DeviceReads PROVE Inv'
<1>1. PICK n \in DOMAIN archive : node' = <<"s", n>>
  BY DEF DeviceReads
<1>2. UNCHANGED <<archive, offline, asked, up, unacked, fetch, cursor, held, chat, view, marks>>
  BY DEF DeviceReads
<1>3. archive \in Seq(Entries) /\ down \in Seq(Things) /\ n \in Nat /\ Extends(archive, archive')
  BY <1>2, SameArchive DEF Inv, Typed
<1>4. node' \in {"none", "s"} \X Nat
  BY <1>1, <1>3
<1> DEFINE d == [what |-> "mds", item |-> node']
<1>5. d \in Things /\ d.what = "mds"
  BY <1>4 DEF Things
<1>6. down' = down \/ down' = Append(down, d)
  BY DEF DeviceReads
<1> HIDE DEF d
<1>7. down' \in Seq(Things) /\ LiveFrom(down', down) /\ \A i \in DOMAIN down' : Fits(down'[i], archive')
  <2>1. CASE down' = down
    BY <1>2, <1>3, <2>1, SameLive DEF Inv, Arriving
  <2>2. CASE down' = Append(down, d)
    BY <1>2, <1>3, <1>5, <2>2, ItemLive, ItemFits DEF Inv
  <2> QED BY <1>6, <2>1, <2>2
<1>8. Typed'
  BY <1>2, <1>4, <1>7 DEF Inv, Typed
<1>9. Arriving'
  BY <1>2, <1>7 DEF Inv, Arriving
<1>10. Sound(chat'.lines, archive') /\ Timed'
  BY <1>2 DEF Inv, Timed, Dwells, Waits
<1> QED BY <1>2, <1>3, <1>7, <1>8, <1>9, <1>10, Settled

\* A page comes after all that is under way.
LEMMA ServeStep == ASSUME Inv, Serve PROVE Inv'
<1>1. PICK q \in asked :
        down' = down \o (IF q.from <= q.end THEN <<[what |-> "result", n |-> q.from]>> ELSE <<>>)
                     \o <<[what |-> "fin", n |-> Min({q.from, q.end}), end |-> q.end]>>
  BY DEF Serve
<1>2. asked' = {} /\ UNCHANGED <<archive, offline, node, unacked, cursor, held, chat, view, marks>>
  BY DEF Serve
<1>3. /\ archive \in Seq(Entries) /\ down \in Seq(Things) /\ q.from \in Nat /\ q.end \in Nat
      /\ q.from > 0 /\ q.end <= Len(archive) /\ Extends(archive, archive')
      /\ Len(archive) \in Nat /\ DOMAIN archive = 1..Len(archive)
  BY <1>2, SameArchive DEF Inv, Typed, Arriving
<1> DEFINE r == [what |-> "result", n |-> q.from]
           f == [what |-> "fin", n |-> Min({q.from, q.end}), end |-> q.end]
           page == IF q.from <= q.end THEN <<r>> ELSE <<>>
           t == page \o <<f>>
<1>4. Min({q.from, q.end}) \in Nat /\ Min({q.from, q.end}) <= q.end
  <2>1. PICK m \in {q.from, q.end} : \A y \in {q.from, q.end} : m <= y
    BY <1>3
  <2>2. Min({q.from, q.end}) \in {q.from, q.end} /\ Min({q.from, q.end}) <= q.end
    BY <2>1 DEF Min
  <2> QED BY <1>3, <2>2
<1>5. r \in Things /\ f \in Things
  BY <1>3, <1>4 DEF Things
<1>6. (q.from <= q.end => Fits(r, archive)) /\ Fits(f, archive) /\ ~IsLive(r) /\ ~IsLive(f)
  BY <1>3, <1>4 DEF Fits, IsLive
<1> HIDE DEF r, f
<1>7. page \in Seq(Things) /\ \A i \in DOMAIN page : Fits(page[i], archive) /\ ~IsLive(page[i])
  BY <1>5, <1>6
<1>8. <<f>> \in Seq(Things) /\ \A i \in DOMAIN <<f>> : Fits(<<f>>[i], archive) /\ ~IsLive(<<f>>[i])
  BY <1>5, <1>6
<1> HIDE DEF page
<1>9. t \in Seq(Things) /\ \A i \in DOMAIN t : Fits(t[i], archive) /\ ~IsLive(t[i])
  BY <1>7, <1>8, JoinedFacts
<1>10. down' = down \o t
  <2>1. down' = (down \o page) \o <<f>>
    BY <1>1 DEF page, r, f
  <2> QED BY <1>3, <1>7, <1>8, <2>1, ConcatAssociative
<1> HIDE DEF t
<1>11. /\ down' \in Seq(Things) /\ LiveFrom(down', down)
       /\ \A i \in DOMAIN down' : Fits(down'[i], archive)
  BY <1>3, <1>9, <1>10, JoinedFacts, JoinedLive DEF Inv, Arriving
<1>12. Typed'
  BY <1>2, <1>11 DEF Inv, Typed
<1>13. Arriving'
  BY <1>2, <1>11 DEF Inv, Arriving
<1>14. Sound(chat'.lines, archive') /\ Timed'
  BY <1>2 DEF Inv, Timed, Dwells, Waits
<1> QED BY <1>2, <1>3, <1>11, <1>12, <1>13, <1>14, Settled

LEMMA CutStep == ASSUME Inv, Cut PROVE Inv'
<1>1. PICK last \in {<<>>, unacked} : offline' = FoldLeft(Undelivered, last, down)
  BY DEF Cut
<1>2. /\ down' = <<>> /\ asked' = {} /\ unacked' = <<>> /\ held' = <<>>
      /\ UNCHANGED <<archive, node, cursor, chat, view, marks>>
  BY DEF Cut
<1>3. last \in Seq(Nat) /\ \A i \in DOMAIN last : OfPeer(last[i], archive)
  <2>1. CASE last = unacked
    BY <2>1 DEF Inv, Typed, Arriving
  <2>2. CASE last = <<>>
    <3>1. <<>> \in Seq(Nat) /\ DOMAIN <<>> = {}
      OBVIOUS
    <3> QED BY <2>2, <3>1
  <2> QED BY <2>1, <2>2
<1>4. offline' \in Seq(Nat) /\ \A i \in DOMAIN offline' : OfPeer(offline'[i], archive)
  BY <1>1, <1>3, UndeliveredFacts DEF Inv
<1>5. Typed'
  BY <1>2, <1>4 DEF Inv, Typed
<1>6. Arriving'
  BY <1>2, <1>4 DEF Inv, Arriving
<1>7. Extends(archive, archive') /\ LiveFrom(down', down)
  <2>1. Nowhere(<<>>)
    BY DEF Nowhere
  <2> QED BY <1>2, <2>1, SameArchive, NoLive DEF Inv, Typed
<1>8. Sound(chat'.lines, archive') /\ Timed'
  BY <1>2 DEF Inv, Timed, Dwells, Waits
<1> QED BY <1>2, <1>5, <1>6, <1>7, <1>8, Settled

\* What the server kept comes late, and is not live.
LEMMA FreshStep == ASSUME Inv, Fresh PROVE Inv'
<1> DEFINE late == [i \in DOMAIN offline |-> Delayed(offline[i])]
           item == [what |-> "mds", item |-> node]
           rest == IF node = None THEN <<>> ELSE <<item>>
<1>1. /\ down' = late \o rest /\ offline' = <<>>
      /\ asked' = {[from |-> cursor + 1, end |-> Len(archive)]}
      /\ UNCHANGED <<archive, node, unacked, cursor, held, chat, view, marks>>
  BY DEF Fresh
<1>2. /\ offline \in Seq(Nat) /\ archive \in Seq(Entries) /\ cursor \in Nat /\ Len(archive) \in Nat
      /\ node \in {"none", "s"} \X Nat /\ Extends(archive, archive')
  BY <1>1, SameArchive DEF Inv, Typed
<1>3. late \in Seq(Things) /\ \A i \in DOMAIN late : Fits(late[i], archive) /\ ~IsLive(late[i])
  <2>1. ASSUME NEW i \in DOMAIN offline
        PROVE  /\ Delayed(offline[i]) \in Things /\ ~IsLive(Delayed(offline[i]))
               /\ Fits(Delayed(offline[i]), archive)
    <3>1. offline[i] \in Nat /\ OfPeer(offline[i], archive)
      BY <1>2 DEF Inv, Arriving
    <3>2. Delayed(offline[i]) \in Copies
      BY <3>1 DEF Delayed, Copies
    <3>3. Fits(Delayed(offline[i]), archive) /\ ~IsLive(Delayed(offline[i]))
      BY <3>1 DEF Delayed, Fits, Sent, OfPeer, IsLive
    <3> QED BY <3>2, <3>3 DEF Things
  <2>2. DOMAIN offline = 1..Len(offline) /\ Len(offline) \in Nat
    BY <1>2
  <2> QED BY <2>1, <2>2
<1>4. rest \in Seq(Things) /\ \A i \in DOMAIN rest : Fits(rest[i], archive) /\ ~IsLive(rest[i])
  <2>1. item \in Things /\ Fits(item, archive) /\ ~IsLive(item)
    BY <1>2 DEF Things, Fits, IsLive
  <2> HIDE DEF item
  <2> QED BY <2>1
<1> HIDE DEF late, rest
<1>5. /\ down' \in Seq(Things) /\ Nowhere(down')
      /\ \A i \in DOMAIN down' : Fits(down'[i], archive)
  BY <1>1, <1>3, <1>4, JoinedFacts DEF Nowhere
<1>6. Typed'
  BY <1>1, <1>2, <1>5 DEF Inv, Typed
<1>7. Arriving'
  BY <1>1, <1>2, <1>5 DEF Inv, Arriving
<1>8. Sound(chat'.lines, archive') /\ Timed'
  BY <1>1 DEF Inv, Timed, Dwells, Waits
<1> QED BY <1>1, <1>2, <1>5, <1>6, <1>7, <1>8, NoLive, Settled

-----------------------------------------------------------------------------
(* The user.                                                               *)

LEMMA OwnLineFacts ==
  ASSUME NEW n \in Nat \ {0}
  PROVE  /\ OwnLine(n) \in Lines /\ OwnLine(n).of = n /\ OwnLine(n).id = "m" /\ OwnLine(n).text = n
         /\ ~OwnLine(n).sid /\ ~OwnLine(n).origin
BY DEF OwnLine, Lines

\* The channel's lines without its unread messages, and the timer not running.
LEMMA ReadFacts ==
  ASSUME NEW c \in Chats
  PROVE  Read(c) \in Chats /\ Read(c).lines = c.lines /\ Read(c).unreads = <<>> /\ Read(c).timer = 0
<1>1. <<>> \in Seq(Nat) /\ 0 \in 0..Delay
  BY BoundsAreNumbers
<1> DEFINE empty == <<>>
<1> HIDE DEF empty
<1>2. Read(c) = [c EXCEPT !.unreads = empty, !.timer = 0] /\ empty \in Seq(Nat)
  BY <1>1 DEF Read, empty
<1>3. Read(c) \in Chats /\ Read(c).lines = c.lines /\ Read(c).unreads = empty /\ Read(c).timer = 0
  BY <1>1, <1>2 DEF Chats
<1> QED BY <1>3 DEF empty

LEMMA ReplyStep == ASSUME Inv, Reply PROVE Inv'
<1> DEFINE n == Len(archive')
           L == Append(chat.lines, OwnLine(n))
<1>1. /\ archive' \in Seq(Entries) /\ n \in Numbers /\ n <= MaxArchive /\ Extends(archive, archive')
      /\ DOMAIN archive' = DOMAIN archive \union {n} /\ archive'[n].by = "self" /\ n \notin DOMAIN archive
  BY Added DEF Reply, Inv, Kinds
<1>2. n \in Nat \ {0}
  BY <1>1 DEF Numbers
<1>3. Publish /\ UNCHANGED <<offline, asked, unacked, cursor, held, view>>
  BY DEF Reply
<1>4. /\ node' \in {"none", "s"} \X Nat /\ marks' \in [Numbers -> Nat] /\ down' \in Seq(Things)
      /\ down' = down \/ \E d \in Things : down' = Append(down, d) /\ d.what = "mds"
  BY <1>3, PublishTyped DEF Inv
<1>5. chat \in Chats /\ chat.lines \in Seq(Lines)
  BY DEF Inv, Typed, Chats
<1>6. L \in Seq(Lines)
  BY <1>2, <1>5, OwnLineFacts
<1>7. chat' \in Chats /\ chat'.lines = L /\ chat'.unreads = <<>> /\ chat'.timer = 0
  <2>1. chat' = [Read(chat) EXCEPT !.lines = Append(Read(chat).lines, OwnLine(n))]
    BY DEF Reply
  <2>2. chat' = [Read(chat) EXCEPT !.lines = L]
    BY <1>5, <2>1, ReadFacts
  <2> HIDE DEF L
  <2> QED BY <1>5, <1>6, <2>2, ReadFacts DEF Chats
<1>8. Sound(L, archive')
  <2>1. Sound(chat.lines, archive')
    <3>1. Len(archive) \in Nat /\ Len(archive') \in Nat
      BY <1>1 DEF Inv, Typed
    <3> QED BY <1>1, <3>1, Grown DEF Inv, Sound
  <2>2. LineFits(OwnLine(n), archive')
    BY <1>1, <1>2, OwnLineFacts DEF LineFits, Found
  <2>3. \A i \in DOMAIN chat.lines : chat.lines[i].of # n
    BY <1>1 DEF Inv, Sound, LineFits
  <2> QED BY <1>2, <1>5, <2>1, <2>2, <2>3, OwnLineFacts, AppendSound
<1>9. Typed'
  BY <1>1, <1>3, <1>4, <1>7 DEF Inv, Typed
<1>10. \A i \in DOMAIN down' : Fits(down'[i], archive')
  BY <1>1, <1>4, ItemFits, OthersFit DEF Inv
<1>11. Arriving'
  BY <1>1, <1>3, <1>10, OthersFit DEF Inv, Arriving
<1>12. Timed'
  BY <1>7 DEF Timed, Dwells, Waits
<1> QED BY <1>1, <1>3, <1>7, <1>8, <1>9, <1>11, <1>12, MarkedOff

LEMMA EditStep == ASSUME Inv, Edit PROVE Inv'
<1> DEFINE n == Len(archive')
           is == Matches(chat.lines, archive'[n].about)
<1>1. /\ archive' \in Seq(Entries) /\ n \in Numbers /\ n <= MaxArchive /\ Extends(archive, archive')
  BY Added DEF Edit, Inv, Kinds
<1>2. n \in Nat \ {0}
  BY <1>1 DEF Numbers
<1>3. /\ UNCHANGED <<offline, node, asked, down, unacked, cursor, held, view, marks>>
      /\ chat' = IF is = {} THEN chat ELSE [chat EXCEPT !.lines[Max(is)].text = n]
  BY DEF Edit, stream
<1>4. chat \in Chats /\ chat.lines \in Seq(Lines) /\ down \in Seq(Things)
  BY DEF Inv, Typed, Chats
<1>5. /\ chat' \in Chats /\ Follows(chat'.lines, chat.lines) /\ chat'.unreads = chat.unreads
      /\ chat'.timer = chat.timer
  <2>1. CASE is = {}
    BY <1>3, <1>4, <2>1, SameLines
  <2>2. CASE is # {}
    <3> DEFINE L == chat.lines
               m == Max(is)
               M == [L EXCEPT ![m] = [L[m] EXCEPT !.text = n]]
    <3>1. m \in is
      <4>1. Len(L) \in Nat /\ is \in SUBSET (1..Len(L))
        BY <1>4 DEF Matches
      <4> HIDE DEF L, is
      <4> QED BY <2>2, <4>1, MaxIsMember
    <3>2. m \in DOMAIN L /\ Known(L[m], archive'[n].about)
      BY <3>1 DEF Matches
    <3>3. chat' = [chat EXCEPT !.lines = M]
      BY <1>3, <2>2
    <3>4. L \in Seq(Lines) /\ L[m] \in Lines
      BY <1>4, <3>2
    <3>5. /\ [L[m] EXCEPT !.text = n] \in Lines /\ [L[m] EXCEPT !.text = n].of = L[m].of
          /\ [L[m] EXCEPT !.text = n].id = L[m].id /\ [L[m] EXCEPT !.text = n].origin = L[m].origin
          /\ [L[m] EXCEPT !.text = n].sid = L[m].sid /\ [L[m] EXCEPT !.text = n].text = n
      BY <1>2, <3>4, RenamedFacts
    <3> DEFINE e == [L[m] EXCEPT !.text = n]
    <3> HIDE DEF is, m, L, e
    <3>6. M = [L EXCEPT ![m] = e]
      BY DEF e
    <3>7. M \in Seq(Lines) /\ DOMAIN M = DOMAIN L /\ \A i \in DOMAIN L : M[i] = IF i = m THEN e ELSE L[i]
      BY <3>2, <3>4, <3>5, <3>6 DEF e
    <3> HIDE DEF M
    <3>8. Follows(M, L)
      BY <1>2, <3>2, <3>5, <3>7 DEF Follows, Known, e
    <3> QED BY <1>4, <3>3, <3>7, <3>8 DEF Chats, L
  <2> QED BY <2>1, <2>2
<1> HIDE DEF is
<1>6. Typed'
  BY <1>1, <1>3, <1>5 DEF Inv, Typed
<1>7. Arriving'
  BY <1>1, <1>3, OthersFit DEF Inv, Arriving
<1>8. Sound(chat'.lines, archive')
  BY <1>1, <1>5, LinesKept
<1>9. Timed'
  BY <1>3, <1>5 DEF Inv, Timed, Dwells, Waits
<1>10. LiveFrom(down', down)
  BY <1>3, <1>4, SameLive
<1> QED BY <1>1, <1>3, <1>5, <1>6, <1>7, <1>8, <1>9, <1>10, Settled

LEMMA RetractStep == ASSUME Inv, Retract PROVE Inv'
<1>1. archive' \in Seq(Entries) /\ Len(archive') <= MaxArchive /\ Extends(archive, archive')
  BY Added DEF Retract, Inv, Kinds
<1>2. UNCHANGED <<offline, node, asked, down, unacked, cursor, held, chat, view, marks>>
  BY DEF Retract, stream
<1>3. Typed'
  BY <1>1, <1>2 DEF Inv, Typed
<1>4. Arriving'
  BY <1>1, <1>2, OthersFit DEF Inv, Arriving
<1>5. Sound(chat'.lines, archive')
  BY <1>1, <1>2, LinesKept, SameLines
<1>6. Timed' /\ LiveFrom(down', down)
  BY <1>2, SameLive DEF Inv, Timed, Dwells, Waits, Typed
<1> QED BY <1>1, <1>2, <1>3, <1>4, <1>5, <1>6, Settled

LEMMA OpenStep == ASSUME Inv, Open PROVE Inv'
<1>1. PICK n \in DOMAIN archive : asked' = {[from |-> n, end |-> Len(archive)]}
  BY DEF Open
<1>2. UNCHANGED <<archive, offline, node, down, unacked, cursor, held, chat, view, marks>>
  BY DEF Open, stream
<1>3. archive \in Seq(Entries) /\ n \in Nat \ {0} /\ Len(archive) \in Nat /\ down \in Seq(Things)
  BY DEF Inv, Typed
<1>4. Typed'
  BY <1>1, <1>2, <1>3 DEF Inv, Typed
<1>5. Arriving'
  BY <1>1, <1>2, <1>3 DEF Inv, Arriving
<1>6. Sound(chat'.lines, archive') /\ Timed'
  BY <1>2 DEF Inv, Timed, Dwells, Waits
<1>7. Extends(archive, archive') /\ LiveFrom(down', down)
  BY <1>2, <1>3, SameArchive, SameLive
<1> QED BY <1>2, <1>4, <1>5, <1>6, <1>7, Settled

LEMMA EnterStep == ASSUME Inv, Enter PROVE Inv'
<1>1. /\ view' = [on |-> TRUE, age |-> 0, odd |-> ~up \/ chat.timer > 0]
      /\ chat' = IF up THEN Arm(chat) ELSE chat
      /\ UNCHANGED <<archive, offline, node, asked, down, unacked, cursor, held, marks>>
  BY DEF Enter, server, stream
<1>2. chat \in Chats /\ archive \in Seq(Entries) /\ down \in Seq(Things) /\ Delay \in Nat \ {0}
      /\ chat.timer \in 0..Delay
  BY BoundsAreNumbers DEF Inv, Typed, Chats
<1>3. /\ chat' \in Chats /\ chat'.lines = chat.lines /\ chat'.unreads = chat.unreads
      /\ ArmedFrom(chat', chat) /\ ((up /\ chat.unreads # <<>>) => chat'.timer > 0)
  BY <1>1, <1>2, ArmFacts DEF ArmedFrom
<1>4. view' \in [on : BOOLEAN, age : 0..Delay, odd : BOOLEAN]
  <2> DEFINE odd == ~up \/ chat.timer > 0
  <2>1. odd \in BOOLEAN /\ 0 \in 0..Delay
    BY <1>2
  <2>2. view' = [on |-> TRUE, age |-> 0, odd |-> odd]
    BY <1>1
  <2> HIDE DEF odd
  <2> QED BY <2>1, <2>2
<1>5. Typed'
  BY <1>1, <1>3, <1>4 DEF Inv, Typed
<1>6. Arriving'
  BY <1>1 DEF Inv, Arriving
<1>7. Timed'
  <2> DEFINE odd == ~up \/ chat.timer > 0
  <2>1. view'.age = 0 /\ view'.odd = odd
    <3> HIDE DEF odd
    <3> QED BY <1>1 DEF odd
  <2>2. ~odd => (up /\ chat.timer = 0)
    BY <1>2
  <2> HIDE DEF odd
  <2>3. ~odd => (chat'.timer = 0 \/ chat'.timer = Delay)
    BY <1>3, <2>2 DEF ArmedFrom
  <2>4. ~odd => (chat'.unreads # <<>> => chat'.timer > 0)
    BY <1>3, <2>2
  <2> QED BY <1>2, <2>1, <2>3, <2>4 DEF Timed, Dwells, Waits
<1>8. Sound(chat'.lines, archive') /\ Extends(archive, archive') /\ LiveFrom(down', down)
  BY <1>1, <1>2, <1>3, SameArchive, SameLive DEF Inv
<1> QED BY <1>1, <1>3, <1>5, <1>6, <1>7, <1>8, Settled

\* A visit ends, or the dwell does.
LEMMA ReadStep ==
  ASSUME Inv, Publish, chat' = Read(chat), Timed',
         view' \in [on : BOOLEAN, age : 0..Delay, odd : BOOLEAN],
         UNCHANGED <<archive, offline, asked, unacked, cursor, held>>
  PROVE  Inv'
<1>1. chat \in Chats /\ archive \in Seq(Entries) /\ Extends(archive, archive')
  BY SameArchive DEF Inv, Typed
<1>2. /\ node' \in {"none", "s"} \X Nat /\ marks' \in [Numbers -> Nat] /\ down' \in Seq(Things)
      /\ down' = down \/ \E d \in Things : down' = Append(down, d) /\ d.what = "mds"
  BY PublishTyped DEF Inv
<1>3. chat' \in Chats /\ chat'.lines = chat.lines /\ chat'.unreads = <<>>
  BY <1>1, ReadFacts
<1>4. Typed'
  BY <1>2, <1>3 DEF Inv, Typed
<1>5. \A i \in DOMAIN down' : Fits(down'[i], archive')
  BY <1>1, <1>2, ItemFits, OthersFit DEF Inv
<1>6. Arriving'
  BY <1>5 DEF Inv, Arriving
<1>7. Sound(chat'.lines, archive')
  BY <1>3 DEF Inv
<1> QED BY <1>1, <1>3, <1>4, <1>6, <1>7, MarkedOff

LEMMA TimerStep ==
  ASSUME Inv, NEW t \in 0..Delay, chat' = [chat EXCEPT !.timer = t], Timed',
         view' \in [on : BOOLEAN, age : 0..Delay, odd : BOOLEAN],
         UNCHANGED <<archive, offline, node, asked, down, unacked, cursor, held, marks>>
  PROVE  Inv'
<1>1. chat \in Chats /\ archive \in Seq(Entries) /\ down \in Seq(Things)
  BY DEF Inv, Typed
<1>2. chat' \in Chats /\ chat'.lines = chat.lines /\ chat'.unreads = chat.unreads
  BY <1>1 DEF Chats
<1>3. Typed'
  BY <1>2 DEF Inv, Typed
<1>4. Arriving'
  BY DEF Inv, Arriving
<1>5. Sound(chat'.lines, archive') /\ Extends(archive, archive') /\ LiveFrom(down', down)
  BY <1>1, <1>2, SameArchive, SameLive DEF Inv
<1> QED BY <1>2, <1>3, <1>4, <1>5, Settled

LEMMA LeaveStep == ASSUME Inv, Leave PROVE Inv'
<1>1. view' = [on |-> FALSE, age |-> 0, odd |-> FALSE]
      /\ UNCHANGED <<archive, offline, asked, unacked, cursor, held>>
  BY DEF Leave
<1>2. view' \in [on : BOOLEAN, age : 0..Delay, odd : BOOLEAN] /\ Timed'
  BY <1>1, BoundsAreNumbers DEF Timed, Dwells, Waits
<1>3. CASE up /\ chat.timer = 0
  BY <1>1, <1>2, <1>3, ReadStep DEF Leave
<1>4. CASE ~(up /\ chat.timer = 0)
  <2>1. UNCHANGED <<marks, node, down>> /\ chat' = IF up THEN [chat EXCEPT !.timer = 0] ELSE chat
    BY <1>4 DEF Leave
  <2>2. chat \in Chats /\ chat.timer \in 0..Delay /\ 0 \in 0..Delay
    BY BoundsAreNumbers DEF Inv, Typed, Chats
  <2>3. chat = [chat EXCEPT !.timer = chat.timer]
    BY <2>2 DEF Chats
  <2>4. PICK t \in 0..Delay : chat' = [chat EXCEPT !.timer = t]
    BY <2>1, <2>2, <2>3
  <2> QED BY <1>1, <1>2, <2>1, <2>4, TimerStep
<1> QED BY <1>3, <1>4

\* A second of the dwell.
LEMMA TickFacts ==
  ASSUME Inv, Tick
  PROVE  /\ view' \in [on : BOOLEAN, age : 0..Delay, odd : BOOLEAN]
         /\ view'.on = view.on /\ view'.odd = view.odd
         /\ view.on => view'.age = IF view.age + 1 <= Delay THEN view.age + 1 ELSE Delay
<1>1. view \in [on : BOOLEAN, age : 0..Delay, odd : BOOLEAN] /\ Delay \in Nat
  BY BoundsAreNumbers DEF Inv, Typed
<1> DEFINE a == view.age + 1
           m == Min({a, Delay})
<1>2. a \in Nat
  BY <1>1
<1>3. m = IF a <= Delay THEN a ELSE Delay
  <2> HIDE DEF a
  <2>1. \A x \in {a, Delay} : (\A y \in {a, Delay} : x <= y) <=> x = IF a <= Delay THEN a ELSE Delay
    BY <1>1, <1>2
  <2>2. \E x \in {a, Delay} : \A y \in {a, Delay} : x <= y
    BY <1>1, <1>2
  <2> QED BY <2>1, <2>2 DEF Min
<1>4. m \in 0..Delay
  BY <1>1, <1>3
<1>5. view' = IF view.on THEN [view EXCEPT !.age = m] ELSE view
  BY DEF Tick
<1> HIDE DEF m
<1>6. /\ view' \in [on : BOOLEAN, age : 0..Delay, odd : BOOLEAN]
      /\ view'.on = view.on /\ view'.odd = view.odd /\ (view.on => view'.age = m)
  BY <1>1, <1>4, <1>5
<1> QED BY <1>3, <1>6

LEMMA TickStep == ASSUME Inv, Tick PROVE Inv'
<1>1. UNCHANGED <<archive, offline, asked, unacked, cursor, held>>
  BY DEF Tick
<1>2. chat \in Chats /\ chat.timer \in 0..Delay /\ Delay \in Nat /\ view.age \in 0..Delay
  BY BoundsAreNumbers DEF Inv, Typed, Chats
<1>3. CASE chat.timer = 1 /\ view.on
  <2>1. Publish /\ chat' = Read(chat)
    BY <1>3 DEF Tick
  <2>2. Timed'
    BY <1>2, <2>1, ReadFacts DEF Timed, Dwells, Waits
  <2> QED BY <1>1, <2>1, <2>2, TickFacts, ReadStep
<1>4. CASE ~(chat.timer = 1 /\ view.on)
  <2> DEFINE t == IF chat.timer = 0 THEN 0 ELSE chat.timer - 1
  <2>1. chat' = [chat EXCEPT !.timer = t] /\ UNCHANGED <<marks, node, down>>
    BY <1>4 DEF Tick
  <2>2. t \in 0..Delay /\ (t > 0 <=> chat.timer > 1) /\ (t > 0 => chat.timer = t + 1)
    BY <1>2
  <2> HIDE DEF t
  <2>3. chat'.timer = t /\ chat'.unreads = chat.unreads
    BY <1>2, <2>1 DEF Chats
  <2>4. Dwells(chat)'
    <3>0. /\ view'.on = view.on /\ view'.odd = view.odd
          /\ view.on => view'.age = IF view.age + 1 <= Delay THEN view.age + 1 ELSE Delay
      BY TickFacts
    <3> SUFFICES ASSUME view'.on, ~view'.odd, t > 0 PROVE view'.age + t >= Delay
      BY <2>3 DEF Dwells
    <3>1. view.age + chat.timer >= Delay
      BY <1>2, <2>2, <3>0 DEF Inv, Timed, Dwells
    <3> QED BY <1>2, <2>2, <3>0, <3>1
  <2>5. MarkableEdits \/ Waits(chat)'
    <3>0. view'.on = view.on /\ view'.odd = view.odd
      BY TickFacts
    <3> SUFFICES ASSUME ~MarkableEdits, view'.on, ~view'.odd, chat'.unreads # <<>> PROVE t > 0
      BY <2>3 DEF Waits
    <3>1. chat.timer > 0 /\ view.on
      BY <2>3, <3>0 DEF Inv, Timed, Waits
    <3> QED BY <1>2, <1>4, <2>2, <3>1
  <2>6. Timed'
    BY <2>4, <2>5 DEF Timed
  <2> QED BY <1>1, <2>1, <2>2, <2>6, TickFacts, TimerStep
<1> QED BY <1>3, <1>4

-----------------------------------------------------------------------------
(* What the client receives.                                               *)

Good(c) ==
  /\ c \in Chats /\ Sound(c.lines, archive) /\ Unread(c.unreads, archive, marks)
  /\ Dwells(c) /\ (MarkableEdits \/ Waits(c))

\* A message queued once more is none that comes live later.
LEMMA Queueing ==
  ASSUME NEW u \in Seq(Nat), NEW v, NEW copy, NEW A, NEW m, copy.n \in DOMAIN A, copy.n \in Nat,
         v = u \/ (copy.mode = "live" /\ v = Append(u, copy.n)), Unread(u, A, m),
         copy.mode = "live" => (m[copy.n] = 0 /\ \A k \in DOMAIN u : u[k] # copy.n)
  PROVE  /\ Unread(v, A, m)
         /\ \A s : (Unseen(s, u, m)
                    /\ (copy.mode = "live" => \A i \in DOMAIN s : IsLive(s[i]) => s[i].n # copy.n))
              => Unseen(s, v, m)
<1>1. CASE v = u
  BY <1>1
<1>2. CASE copy.mode = "live" /\ v = Append(u, copy.n)
  <2>1. \A i \in DOMAIN v : (i \in DOMAIN u /\ v[i] = u[i]) \/ (i = Len(u) + 1 /\ v[i] = copy.n)
    BY <1>2, AppendFacts
  <2>2. Unread(v, A, m)
    BY <1>2, <2>1 DEF Unread
  <2>3. ASSUME NEW s, Unseen(s, u, m), \A i \in DOMAIN s : IsLive(s[i]) => s[i].n # copy.n
        PROVE  Unseen(s, v, m)
    BY <2>1, <2>3 DEF Unseen
  <2> QED BY <1>2, <2>2, <2>3
<1> QED BY <1>1, <1>2

LEMMA HandleKeeps ==
  ASSUME Typed, NEW c, Good(c), NEW copy, IsCopy(copy),
         copy.mode # "archived" => Sent(copy, archive),
         copy.mode = "archived" =>
           /\ copy.stamped
           /\ \A i \in DOMAIN c.lines : c.lines[i].of = copy.n => (~c.lines[i].sid /\ c.lines[i].id # "m"),
         copy.mode = "live" =>
           (marks[copy.n] = 0 /\ \A k \in DOMAIN c.unreads : c.unreads[k] # copy.n)
  PROVE  /\ Good(Handle(c, copy))
         /\ copy.mode = "archived" => Handle(c, copy).unreads = c.unreads
         /\ \A s : (Unseen(s, c.unreads, marks)
                    /\ (copy.mode = "live" => \A i \in DOMAIN s : IsLive(s[i]) => s[i].n # copy.n))
              => Unseen(s, Handle(c, copy).unreads, marks)
<1> DEFINE e == Handle(c, copy)
<1>1. c \in Chats /\ Sound(c.lines, archive) /\ Unread(c.unreads, archive, marks)
      /\ Dwells(c) /\ (MarkableEdits \/ Waits(c))
  BY DEF Good
<1>2. /\ e \in Chats /\ ArmedFrom(e, c)
      /\ e.unreads = c.unreads \/ (copy.mode = "live" /\ e.unreads = Append(c.unreads, copy.n))
      /\ (view.on /\ ~MarkableEdits /\ e.unreads # c.unreads) => e.timer > 0
  BY <1>1, HandleFacts
<1>3. Sound(e.lines, archive)
  BY <1>1, HandleSound
<1>4. c.unreads \in Seq(Nat) /\ c.timer \in 0..Delay /\ Delay \in Nat \ {0} /\ view.age \in 0..Delay
      /\ copy.n \in DOMAIN archive /\ copy.n \in Nat
  BY <1>1, LineFacts, BoundsAreNumbers DEF Chats, IsCopy, Typed
<1> HIDE DEF e
<1>5. /\ Unread(e.unreads, archive, marks)
      /\ \A s : (Unseen(s, c.unreads, marks)
                 /\ (copy.mode = "live" => \A i \in DOMAIN s : IsLive(s[i]) => s[i].n # copy.n))
           => Unseen(s, e.unreads, marks)
  BY <1>1, <1>2, <1>4, Queueing
<1>6. Dwells(e)
  BY <1>1, <1>2, <1>4 DEF Dwells, ArmedFrom
<1>7. MarkableEdits \/ Waits(e)
  BY <1>1, <1>2, <1>4 DEF Waits, ArmedFrom
<1>8. copy.mode = "archived" => e.unreads = c.unreads
  BY <1>2
<1> QED BY <1>2, <1>3, <1>5, <1>6, <1>7, <1>8 DEF Good, e

LEMMA GoodChat == ASSUME Inv PROVE Good(chat)
BY DEF Inv, Typed, Marked, Timed, Good

\* The stream without what is received next.
LEMMA HeadFacts ==
  ASSUME Inv, down # <<>>
  PROVE  /\ Head(down) \in Things /\ Fits(Head(down), archive) /\ Tail(down) \in Seq(Things)
         /\ \A i \in DOMAIN Tail(down) : Fits(Tail(down)[i], archive)
         /\ LiveFrom(Tail(down), down)
         /\ IsLive(Head(down)) =>
              /\ \A i \in DOMAIN Tail(down) : IsLive(Tail(down)[i]) => Tail(down)[i].n # Head(down).n
              /\ \A i \in DOMAIN held : IsLive(held[i]) => held[i].n # Head(down).n
              /\ marks[Head(down).n] = 0
              /\ \A k \in DOMAIN chat.unreads : chat.unreads[k] # Head(down).n
<1> DEFINE h == Head(down)
           t == Tail(down)
<1>1. down \in Seq(Things)
  BY DEF Inv, Typed
<1>2. /\ t \in Seq(Things) /\ h = down[1] /\ h \in Things /\ 1 \in DOMAIN down
      /\ \A i \in DOMAIN t : i \in Nat \ {0} /\ i + 1 \in DOMAIN down /\ t[i] = down[i + 1]
  BY <1>1, TailFacts
<1>3. LiveFrom(t, down)
  BY <1>1, TailLive
<1> HIDE DEF h, t
<1>4. Fits(h, archive) /\ \A i \in DOMAIN t : Fits(t[i], archive)
  BY <1>2 DEF Inv, Arriving
<1>5. ASSUME IsLive(h), NEW i \in DOMAIN t, IsLive(t[i]) PROVE t[i].n # h.n
  <2>1. i + 1 # 1
    BY <1>2
  <2> QED BY <1>2, <1>5, <2>1 DEF Inv, Marked, Once
<1>6. ASSUME IsLive(h), NEW i \in DOMAIN held, IsLive(held[i]) PROVE held[i].n # h.n
  BY <1>2, <1>6 DEF Inv, Marked, Apart
<1>7. ASSUME IsLive(h) PROVE marks[h.n] = 0 /\ \A k \in DOMAIN chat.unreads : chat.unreads[k] # h.n
  BY <1>2, <1>7 DEF Inv, Marked, Unseen
<1> QED BY <1>2, <1>3, <1>4, <1>5, <1>6, <1>7 DEF h, t

LEMMA UnackedStep ==
  ASSUME Inv, NEW copy \in Copies, Sent(copy, archive),
         unacked' = IF archive[copy.n].by = "peer" THEN <<copy.n>> ELSE unacked
  PROVE  unacked' \in Seq(Nat) /\ \A i \in DOMAIN unacked' : OfPeer(unacked'[i], archive)
<1>1. copy.n \in Nat /\ copy.n \in DOMAIN archive
  BY DEF Copies, Sent
<1>2. CASE archive[copy.n].by = "peer"
  <2> DEFINE n == copy.n
  <2>1. unacked' = <<n>> /\ n \in Nat /\ OfPeer(n, archive)
    BY <1>1, <1>2 DEF OfPeer
  <2> HIDE DEF n
  <2>2. <<n>> \in Seq(Nat) /\ \A i \in DOMAIN <<n>> : <<n>>[i] = n
    BY <2>1
  <2> QED BY <2>1, <2>2
<1>3. CASE archive[copy.n].by # "peer"
  BY <1>3 DEF Inv, Typed, Arriving
<1> QED BY <1>2, <1>3

LEMMA HeldStep ==
  ASSUME Inv, down # <<>>, down' = Tail(down), Head(down).what = "message",
         held' = Append(held, Head(down)),
         unacked' = IF archive[Head(down).n].by = "peer" THEN <<Head(down).n>> ELSE unacked,
         UNCHANGED <<archive, offline, node, asked, cursor, chat, view, marks>>
  PROVE  Inv'
<1> DEFINE h == Head(down)
<1>1. /\ h \in Things /\ Fits(h, archive) /\ down' \in Seq(Things)
      /\ \A i \in DOMAIN down' : Fits(down'[i], archive)
      /\ LiveFrom(down', down)
      /\ IsLive(h) => /\ \A i \in DOMAIN down' : IsLive(down'[i]) => down'[i].n # h.n
                      /\ \A i \in DOMAIN held : IsLive(held[i]) => held[i].n # h.n
                      /\ marks[h.n] = 0
                      /\ \A k \in DOMAIN chat.unreads : chat.unreads[k] # h.n
  BY HeadFacts
<1>2. held' = Append(held, h) /\ h.what = "message" /\ held \in Seq(Copies)
      /\ unacked' = IF archive[h.n].by = "peer" THEN <<h.n>> ELSE unacked
  BY DEF Inv, Typed
<1> HIDE DEF h
<1>3. h \in Copies /\ Sent(h, archive)
  BY <1>1, <1>2 DEF Things, Fits
<1>4. unacked' \in Seq(Nat) /\ \A i \in DOMAIN unacked' : OfPeer(unacked'[i], archive)
  BY <1>2, <1>3, UnackedStep
<1>5. /\ held' \in Seq(Copies)
      /\ \A i \in DOMAIN held' : (i \in DOMAIN held /\ held'[i] = held[i]) \/ held'[i] = h
  BY <1>2, <1>3, AppendFacts
<1>6. Typed'
  BY <1>1, <1>4, <1>5 DEF Inv, Typed
<1>7. Arriving'
  BY <1>1, <1>3, <1>4, <1>5 DEF Inv, Arriving
<1>8. Once(down') /\ Unseen(down', chat.unreads, marks) /\ Apart(held, down')
  BY <1>1, LiveFromKeeps DEF Inv, Marked
<1>9. Once(held') /\ Unseen(held', chat.unreads, marks) /\ Apart(held', down')
  BY <1>1, <1>2, <1>3, <1>8, OneMore DEF Inv, Marked
<1>10. Marked'
  BY <1>8, <1>9 DEF Inv, Marked
<1>11. Sound(chat'.lines, archive') /\ Timed'
  BY DEF Inv, Timed, Dwells, Waits
<1> QED BY <1>6, <1>7, <1>10, <1>11 DEF Inv

\* The buffer takes a copy, and nothing else comes in.
LEMMA Taken ==
  ASSUME Inv, down # <<>>, down' = Tail(down), Good(chat'),
         Unseen(held, chat'.unreads, marks), Unseen(down', chat'.unreads, marks),
         unacked' \in Seq(Nat), \A i \in DOMAIN unacked' : OfPeer(unacked'[i], archive),
         UNCHANGED <<archive, offline, node, asked, cursor, held, view, marks>>
  PROVE  Inv'
<1>1. /\ down' \in Seq(Things) /\ LiveFrom(down', down)
      /\ \A i \in DOMAIN down' : Fits(down'[i], archive)
  BY HeadFacts
<1>2. /\ chat' \in Chats /\ Sound(chat'.lines, archive) /\ Unread(chat'.unreads, archive, marks)
      /\ Timed'
  BY DEF Good, Timed, Dwells, Waits
<1>3. Typed'
  BY <1>1, <1>2 DEF Inv, Typed
<1>4. Arriving'
  BY <1>1 DEF Inv, Arriving
<1>5. Once(down') /\ Apart(held, down')
  BY <1>1, LiveFromKeeps DEF Inv, Marked
<1>6. Marked'
  BY <1>2, <1>5 DEF Inv, Marked
<1> QED BY <1>2, <1>3, <1>4, <1>6 DEF Inv

LEMMA MessageStep ==
  ASSUME Inv, down # <<>>, down' = Tail(down), Head(down).what = "message",
         chat' = Handle(chat, Head(down)),
         unacked' = IF archive[Head(down).n].by = "peer" THEN <<Head(down).n>> ELSE unacked,
         UNCHANGED <<archive, offline, node, asked, cursor, held, view, marks>>
  PROVE  Inv'
<1> DEFINE h == Head(down)
<1>1. /\ h \in Things /\ Fits(h, archive) /\ LiveFrom(down', down)
      /\ IsLive(h) => /\ \A i \in DOMAIN down' : IsLive(down'[i]) => down'[i].n # h.n
                      /\ \A i \in DOMAIN held : IsLive(held[i]) => held[i].n # h.n
                      /\ marks[h.n] = 0
                      /\ \A k \in DOMAIN chat.unreads : chat.unreads[k] # h.n
  BY HeadFacts
<1>2. chat' = Handle(chat, h) /\ h.what = "message"
      /\ unacked' = IF archive[h.n].by = "peer" THEN <<h.n>> ELSE unacked
  OBVIOUS
<1> HIDE DEF h
<1>3. h \in Copies /\ Sent(h, archive)
  BY <1>1, <1>2 DEF Things, Fits
<1>4. unacked' \in Seq(Nat) /\ \A i \in DOMAIN unacked' : OfPeer(unacked'[i], archive)
  BY <1>2, <1>3, UnackedStep
<1>5. IsCopy(h) /\ h.mode # "archived" /\ (h.mode = "live" => IsLive(h))
  BY <1>2, <1>3 DEF Copies, Sent, IsCopy, IsLive
<1>6. Unseen(held, chat.unreads, marks) /\ Unseen(down', chat.unreads, marks)
  BY <1>1, LiveFromKeeps DEF Inv, Marked
<1>7. Typed /\ Good(chat)
  BY GoodChat DEF Inv
<1>8. /\ Good(Handle(chat, h)) /\ Unseen(held, Handle(chat, h).unreads, marks)
      /\ Unseen(down', Handle(chat, h).unreads, marks)
  BY <1>1, <1>3, <1>5, <1>6, <1>7, HandleKeeps
<1>9. /\ Good(chat') /\ Unseen(held, chat'.unreads, marks) /\ Unseen(down', chat'.unreads, marks)
  BY <1>2, <1>8
<1> QED BY <1>4, <1>9, Taken

LEMMA ResultStep ==
  ASSUME Inv, down # <<>>, down' = Tail(down), ReceiveResult(Head(down)), view' = view
  PROVE  Inv'
<1> DEFINE h == Head(down)
           copy == [n |-> h.n, stamped |-> TRUE, mode |-> "archived"]
           known == HasStanzaId(chat.lines, h.n) \/ \E l \in Range(chat.lines) : l.of = h.n /\ l.id = "m"
<1>1. Fits(h, archive) /\ LiveFrom(down', down)
  BY HeadFacts
<1>2. /\ h.what = "result" /\ chat' = IF known THEN chat ELSE Handle(chat, copy)
      /\ UNCHANGED <<archive, offline, node, asked, unacked, cursor, held, view, marks>>
  BY DEF ReceiveResult, Result, server
<1> HIDE DEF h
<1>3. IsCopy(copy) /\ copy.mode = "archived" /\ copy.stamped /\ copy.n = h.n
  BY <1>1, <1>2 DEF Fits, IsCopy
<1>4. Typed /\ Good(chat) /\ Unseen(held, chat.unreads, marks) /\ Unseen(down', chat.unreads, marks)
  BY <1>1, GoodChat, LiveFromKeeps DEF Inv, Marked
<1>5. unacked' \in Seq(Nat) /\ \A i \in DOMAIN unacked' : OfPeer(unacked'[i], archive)
  BY <1>2 DEF Inv, Typed, Arriving
<1>6. Good(chat') /\ chat'.unreads = chat.unreads
  <2>1. CASE known
    <3> HIDE DEF known
    <3>1. chat' = chat
      BY <1>2, <2>1
    <3> QED BY <1>2, <1>4, <3>1
  <2>2. CASE ~known
    <3>1. \A i \in DOMAIN chat.lines :
            chat.lines[i].of = h.n => (~chat.lines[i].sid /\ chat.lines[i].id # "m")
      BY <2>2 DEF HasStanzaId, Range
    <3>2. chat' = Handle(chat, copy)
      BY <1>2, <2>2
    <3> HIDE DEF copy, known
    <3> QED BY <1>3, <1>4, <3>1, <3>2, HandleKeeps
  <2> QED BY <2>1, <2>2
<1>7. Unseen(held, chat'.unreads, marks) /\ Unseen(down', chat'.unreads, marks)
  BY <1>4, <1>6
<1> QED BY <1>2, <1>5, <1>6, <1>7, Taken

LEMMA ReceiveMdsStep ==
  ASSUME Inv, down # <<>>, down' = Tail(down), ReceiveMds(Head(down)), view' = view
  PROVE  Inv'
<1> DEFINE h == Head(down)
           hits == {i \in DOMAIN chat.unreads : <<"m", chat.unreads[i]>> = h.item}
<1>1. /\ h \in Things /\ down' \in Seq(Things) /\ LiveFrom(down', down)
      /\ \A i \in DOMAIN down' : Fits(down'[i], archive)
  BY HeadFacts
<1>2. /\ h.what = "mds" /\ chat' = [chat EXCEPT !.unreads = Through(@, h.item)]
      /\ UNCHANGED <<archive, offline, node, asked, unacked, cursor, held, marks>>
  BY DEF ReceiveMds, server
<1> HIDE DEF h
<1>3. h.item \in {"none", "s"} \X Nat
  BY <1>1, <1>2 DEF Things, Copies
<1>4. hits = {}
  BY <1>3
<1>5. Through(chat.unreads, h.item) = <<>>
  BY <1>4 DEF Through
<1>6. chat \in Chats
  BY DEF Inv, Typed
<1>7. chat' \in Chats /\ chat'.unreads = <<>> /\ chat'.timer = chat.timer /\ chat'.lines = chat.lines
  <2> DEFINE u == Through(chat.unreads, h.item)
  <2>1. chat' = [chat EXCEPT !.unreads = u]
    BY <1>2
  <2>2. u = <<>> /\ u \in Seq(Nat)
    <3>1. <<>> \in Seq(Nat)
      OBVIOUS
    <3> QED BY <1>5, <3>1
  <2> HIDE DEF u
  <2> QED BY <1>6, <2>1, <2>2 DEF Chats
<1>8. Typed'
  BY <1>1, <1>2, <1>7 DEF Inv, Typed
<1>9. Arriving'
  BY <1>1, <1>2 DEF Inv, Arriving
<1>10. Timed' /\ Sound(chat'.lines, archive')
  BY <1>2, <1>7 DEF Inv, Timed, Dwells, Waits
<1>11. Extends(archive, archive')
  BY <1>2, SameArchive DEF Inv, Typed
<1> QED BY <1>1, <1>2, <1>7, <1>8, <1>9, <1>10, <1>11, Settled

\* What was held back is handled in its order, and the rest of it, with what is still to come,
\* has then not been shown.
LEMMA FlushKeeps ==
  ASSUME Inv
  PROVE  Good(Flush(chat)) /\ Unseen(down, Flush(chat).unreads, marks)
<1> DEFINE n == Len(held)
           Rest(i) == [k \in {k \in DOMAIN held : k > i} |-> held[k]]
           Holds(c, i) == /\ Good(c) /\ Unseen(Rest(i), c.unreads, marks)
                          /\ Unseen(down, c.unreads, marks)
<1>1. n \in Nat /\ DOMAIN held = 1..n /\ held \in Seq(Copies)
  BY DEF Inv, Typed
<1>2. ASSUME NEW i \in DOMAIN held
      PROVE  /\ held[i] \in Copies /\ Sent(held[i], archive) /\ IsCopy(held[i])
             /\ held[i].mode # "archived" /\ (held[i].mode = "live" => IsLive(held[i]))
  <2>1. held[i] \in Copies /\ Sent(held[i], archive)
    BY <1>1 DEF Inv, Arriving
  <2> QED BY <2>1 DEF Copies, Sent, IsCopy, IsLive
<1>3. PICK g \in [0..n -> Chats] :
        /\ g[0] = chat /\ g[n] = Flush(chat)
        /\ \A i \in 1..n : g[i] = Handle(g[i - 1], held[i])
  BY <1>2, FlushSteps DEF Inv
<1> DEFINE T == {i \in Nat : i <= n => Holds(g[i], i)}
<1>4. 0 \in T
  <2>1. Good(chat) /\ Unseen(down, chat.unreads, marks) /\ Unseen(held, chat.unreads, marks)
    BY GoodChat DEF Inv, Marked
  <2>2. \A k \in DOMAIN Rest(0) : k \in DOMAIN held /\ Rest(0)[k] = held[k]
    BY <1>1
  <2>3. Unseen(Rest(0), chat.unreads, marks)
    BY <2>1, <2>2 DEF Unseen
  <2> QED BY <1>3, <2>1, <2>3
<1>5. ASSUME NEW i \in Nat, i \in T, i + 1 <= n PROVE Holds(g[i + 1], i + 1)
  <2> DEFINE c == g[i]
             copy == held[i + 1]
             r == Rest(i)
             s == Rest(i + 1)
  <2>1. /\ Good(c) /\ Unseen(r, c.unreads, marks) /\ Unseen(down, c.unreads, marks)
        /\ i + 1 \in DOMAIN held /\ g[i + 1] = Handle(c, copy)
    BY <1>1, <1>3, <1>5
  <2>2. /\ i + 1 \in DOMAIN r /\ r[i + 1] = copy
        /\ \A k \in DOMAIN s : k \in DOMAIN r /\ r[k] = s[k] /\ k \in DOMAIN held /\ s[k] = held[k] /\ k # i + 1
    BY <1>1, <2>1
  <2>3. copy \in Copies /\ Sent(copy, archive) /\ IsCopy(copy) /\ copy.mode # "archived"
        /\ (copy.mode = "live" => IsLive(copy))
    BY <1>2, <2>1
  <2> HIDE DEF c, copy, r, s
  <2>4. copy.mode = "live" => (marks[copy.n] = 0 /\ \A k \in DOMAIN c.unreads : c.unreads[k] # copy.n)
    BY <2>1, <2>2, <2>3 DEF Unseen
  <2>5. copy.mode = "live" => \A k \in DOMAIN s : IsLive(s[k]) => s[k].n # copy.n
    <3>1. SUFFICES ASSUME IsLive(copy), NEW k \in DOMAIN s, IsLive(s[k]) PROVE s[k].n # copy.n
      BY <2>3
    <3>2. Once(held) /\ held[i + 1] = copy
      BY DEF Inv, Marked, copy
    <3> QED BY <2>1, <2>2, <3>1, <3>2 DEF Once
  <2>6. copy.mode = "live" => \A k \in DOMAIN down : IsLive(down[k]) => down[k].n # copy.n
    <3>1. Apart(held, down) /\ held[i + 1] = copy
      BY DEF Inv, Marked, copy
    <3> QED BY <2>1, <2>3, <3>1 DEF Apart
  <2>7. Unseen(s, c.unreads, marks)
    BY <2>1, <2>2 DEF Unseen
  <2>8. Typed
    BY DEF Inv
  <2>9. /\ Good(Handle(c, copy))
        /\ \A q : (Unseen(q, c.unreads, marks)
                    /\ (copy.mode = "live" => \A k \in DOMAIN q : IsLive(q[k]) => q[k].n # copy.n))
              => Unseen(q, Handle(c, copy).unreads, marks)
    BY <2>1, <2>3, <2>4, <2>8, HandleKeeps
  <2>10. Unseen(s, Handle(c, copy).unreads, marks) /\ Unseen(down, Handle(c, copy).unreads, marks)
    BY <2>1, <2>5, <2>6, <2>7, <2>9
  <2> QED BY <2>1, <2>9, <2>10 DEF s
<1>6. \A i \in Nat : i \in T => i + 1 \in T
  <2> HIDE DEF Holds, n
  <2> QED BY <1>1, <1>5
<1>7. Nat \subseteq T
  <2> HIDE DEF T
  <2> QED BY <1>4, <1>6, NumberInduction
<1>8. Holds(g[n], n)
  <2> HIDE DEF Holds, n
  <2> QED BY <1>1, <1>7
<1> QED BY <1>3, <1>8

\* The next page is asked for, or what was held back is shown.
LEMMA ReceiveFinStep ==
  ASSUME Inv, down # <<>>, down' = Tail(down), ReceiveFin(Head(down)), view' = view
  PROVE  Inv'
<1> DEFINE h == Head(down)
<1>1. /\ h \in Things /\ Fits(h, archive) /\ down' \in Seq(Things) /\ LiveFrom(down', down)
      /\ \A i \in DOMAIN down' : Fits(down'[i], archive)
  BY HeadFacts
<1>2. /\ h.what = "fin" /\ cursor' = IF fetch = "global" THEN Max({cursor, h.n}) ELSE cursor
      /\ UNCHANGED <<archive, offline, node, unacked, marks>>
  BY DEF ReceiveFin
<1>3. \/ /\ asked' = {[from |-> h.n + 1, end |-> h.end]} /\ held' = held /\ chat' = chat
      \/ /\ asked' = asked /\ held' = <<>> /\ chat' = Flush(chat)
  BY DEF ReceiveFin
<1> HIDE DEF h
<1>4. h.n \in Nat /\ h.end \in Nat /\ h.end <= Len(archive)
  BY <1>1, <1>2 DEF Things, Copies, Fits
<1>5. cursor' \in Nat
  <2>1. cursor \in Nat
    BY DEF Inv, Typed
  <2>2. \E m \in Nat : {cursor, h.n} \subseteq 0..m
    BY <1>4, <2>1
  <2>3. Max({cursor, h.n}) \in Nat
    <3>1. \E x \in {cursor, h.n} : \A y \in {cursor, h.n} : x >= y
      BY <1>4, <2>1
    <3> QED BY <1>4, <2>1, <3>1 DEF Max
  <2> QED BY <1>2, <2>1, <2>3
<1>6. Extends(archive, archive')
  BY <1>2, SameArchive DEF Inv, Typed
<1>7. CASE asked' = {[from |-> h.n + 1, end |-> h.end]} /\ held' = held /\ chat' = chat
  <2> DEFINE q == [from |-> h.n + 1, end |-> h.end]
  <2>1. q \in [from : Nat, end : Nat] /\ q.from > 0 /\ q.end <= Len(archive)
    BY <1>4
  <2>2. asked' = {q}
    BY <1>7
  <2> HIDE DEF q
  <2>3. Typed'
    BY <1>1, <1>2, <1>5, <1>7, <2>1, <2>2 DEF Inv, Typed
  <2>4. Arriving'
    BY <1>1, <1>2, <1>7, <2>1, <2>2 DEF Inv, Arriving
  <2>5. Timed' /\ Sound(chat'.lines, archive')
    BY <1>2, <1>7 DEF Inv, Timed, Dwells, Waits
  <2> QED BY <1>1, <1>2, <1>6, <1>7, <2>3, <2>4, <2>5, Settled
<1>8. CASE asked' = asked /\ held' = <<>> /\ chat' = Flush(chat)
  <2>1. Good(chat') /\ Unseen(down, chat'.unreads, marks)
    BY <1>8, FlushKeeps
  <2>2. /\ chat' \in Chats /\ Sound(chat'.lines, archive') /\ Unread(chat'.unreads, archive', marks)
        /\ Timed'
    BY <1>2, <2>1 DEF Good, Timed, Dwells, Waits
  <2>3. held' \in Seq(Copies) /\ DOMAIN held' = {}
    <3>1. <<>> \in Seq(Copies) /\ DOMAIN <<>> = {}
      OBVIOUS
    <3> QED BY <1>8, <3>1
  <2>4. Typed'
    BY <1>1, <1>2, <1>5, <1>8, <2>2, <2>3 DEF Inv, Typed
  <2>5. Arriving'
    BY <1>1, <1>2, <1>8, <2>3 DEF Inv, Arriving
  <2>6. Once(down') /\ Unseen(down', chat'.unreads, marks)
    BY <1>1, <2>1, LiveFromKeeps DEF Inv, Marked
  <2>7. Once(held') /\ Apart(held', down') /\ Unseen(held', chat'.unreads, marks)
    BY <2>3 DEF Once, Apart, Unseen
  <2>8. Marked'
    BY <1>2, <2>2, <2>6, <2>7 DEF Inv, Marked
  <2> QED BY <2>2, <2>4, <2>5, <2>8 DEF Inv
<1> QED BY <1>3, <1>7, <1>8

LEMMA ReceiveStep == ASSUME Inv, Receive PROVE Inv'
<1>1. down # <<>> /\ down' = Tail(down) /\ view' = view
  BY DEF Receive
<1>2. CASE ReceiveMessage(Head(down))
  <2> DEFINE h == Head(down)
  <2>1. /\ h.what = "message"
        /\ unacked' = IF archive[h.n].by = "peer" THEN <<h.n>> ELSE unacked
        /\ UNCHANGED <<archive, offline, node, asked, cursor, view, marks>>
        /\ \/ held' = Append(held, h) /\ chat' = chat
           \/ chat' = Handle(chat, h) /\ held' = held
    BY <1>1, <1>2 DEF ReceiveMessage, server
  <2>2. CASE held' = Append(held, h) /\ chat' = chat
    BY <1>1, <2>1, <2>2, HeldStep
  <2>3. CASE chat' = Handle(chat, h) /\ held' = held
    BY <1>1, <2>1, <2>3, MessageStep
  <2> QED BY <2>1, <2>2, <2>3
<1>3. CASE ReceiveResult(Head(down))
  BY <1>1, <1>3, ResultStep
<1>4. CASE ReceiveFin(Head(down))
  BY <1>1, <1>4, ReceiveFinStep
<1>5. CASE ReceiveMds(Head(down))
  BY <1>1, <1>5, ReceiveMdsStep
<1> QED BY <1>2, <1>3, <1>4, <1>5 DEF Receive

LEMMA IdleStep == ASSUME Inv, UNCHANGED vars PROVE Inv'
BY DEF Inv, Typed, Arriving, Marked, Timed, Dwells, Waits, vars, server, stream

LEMMA NextInv == ASSUME Inv, [Next]_vars PROVE Inv'
BY ReceiveStep, PeerSaysStep, DeviceSaysStep, DeviceReadsStep, ServeStep, CutStep, FreshStep,
   ReplyStep, EditStep, RetractStep, OpenStep, EnterStep, LeaveStep, TickStep, IdleStep DEF Next

LEMMA InvHolds == Spec => []Inv
BY InitInv, NextInv, PTL DEF Spec

-----------------------------------------------------------------------------
(* Theorems.                                                               *)

\* Only a fetch of the conversation holds messages back, and only a session fetches.
Bounded ==
  /\ events \in 0..MaxEvents /\ cursor <= MaxArchive /\ fetch \in {"none", "global", "chat"}
  /\ up \/ fetch = "none"
  /\ fetch = "chat" \/ held = <<>>

LEMMA ReceiveBounded == ASSUME Inv, Bounded, Receive PROVE Bounded'
<1> DEFINE h == Head(down)
<1>1. h \in Things /\ Fits(h, archive) /\ events' = events /\ up' = up
  BY HeadFacts DEF Receive
<1>2. CASE ReceiveMessage(h)
  BY <1>1, <1>2 DEF Bounded, ReceiveMessage
<1>3. CASE ReceiveResult(h)
  BY <1>1, <1>3 DEF Bounded, ReceiveResult
<1>4. CASE ReceiveFin(h)
  <2>1. /\ h.what = "fin" /\ cursor' = IF fetch = "global" THEN Max({cursor, h.n}) ELSE cursor
        /\ (fetch' = fetch /\ held' = held) \/ (fetch' = "none" /\ held' = <<>>)
    BY <1>4 DEF ReceiveFin
  <2> HIDE DEF h
  <2>2. h.n \in Nat /\ h.n <= MaxArchive
    <3>1. h.n \in Nat /\ h.end \in Nat /\ h.n <= h.end /\ h.end <= Len(archive)
      BY <1>1, <2>1 DEF Things, Copies, Fits
    <3> QED BY <3>1, BoundsAreNumbers DEF Inv, Typed
  <2>3. cursor \in Nat /\ cursor <= MaxArchive
    BY DEF Inv, Typed, Bounded
  <2>4. Max({cursor, h.n}) <= MaxArchive
    <3>1. \E x \in {cursor, h.n} : \A y \in {cursor, h.n} : x >= y
      BY <2>2, <2>3
    <3> QED BY <2>2, <2>3, <3>1 DEF Max
  <2> QED BY <1>1, <2>1, <2>3, <2>4 DEF Bounded
<1>5. CASE ReceiveMds(h)
  BY <1>1, <1>5 DEF Bounded, ReceiveMds
<1> QED BY <1>2, <1>3, <1>4, <1>5 DEF Receive

LEMMA NextBounded == ASSUME Inv, Bounded, [Next]_vars PROVE Bounded'
<1>1. events \in Nat /\ MaxEvents \in Nat /\ events <= MaxEvents
  BY BoundsAreNumbers DEF Bounded
<1>2. CASE Receive
  BY <1>2, ReceiveBounded
<1>3. CASE PeerSays \/ DeviceSays \/ Serve \/ UNCHANGED vars
  BY <1>3 DEF PeerSays, DeviceSays, Serve, vars, stream, Bounded
<1>4. CASE DeviceReads \/ Cut
  BY <1>1, <1>4 DEF DeviceReads, Cut, Event, Bounded
<1>5. CASE Open \/ Enter
  BY <1>1, <1>5 DEF Open, Enter, Event, stream, Bounded
<1>6. CASE Fresh
  BY <1>6 DEF Fresh, Bounded
<1>7. CASE Reply \/ Edit \/ Retract
  BY <1>7 DEF Reply, Edit, Retract, stream, Bounded
<1>8. CASE Leave \/ Tick
  BY <1>8 DEF Leave, Tick, Bounded
<1> QED BY <1>2, <1>3, <1>4, <1>5, <1>6, <1>7, <1>8 DEF Next

\* Type correctness: what is unread is a message of the archive, and messages are held back
\* (mam_deferred_messages) only while the history of the conversation is fetched.
THEOREM TypesHold == Spec => []TypeOK
<1>1. Init => Bounded
  BY BoundsAreNumbers DEF Init, Bounded
<1>2. Inv /\ Bounded /\ [Next]_vars => Bounded'
  BY NextBounded
<1>3. Inv /\ Bounded => TypeOK
  <2> SUFFICES ASSUME Inv, Bounded PROVE TypeOK
    OBVIOUS
  <2>1. Range(chat.unreads) \subseteq Numbers
    <3>1. \A i \in DOMAIN chat.unreads : chat.unreads[i] \in 1..Len(archive)
      BY DEF Inv, Marked, Unread, Typed
    <3>2. Len(archive) \in Nat /\ Len(archive) <= MaxArchive /\ MaxArchive \in Nat
      BY BoundsAreNumbers DEF Inv, Typed
    <3> QED BY <3>1, <3>2 DEF Range, Numbers
  <2>2. chat.timer \in 0..Delay
    BY DEF Inv, Typed, Chats
  <2> QED BY <2>1, <2>2, BoundsAreNumbers DEF Inv, Typed, Bounded, TypeOK
<1> QED BY <1>1, <1>2, <1>3, InvHolds, PTL DEF Spec

\* Live, as a carbon, from the offline store, in every page of the archive that covers it: a
\* message gets one line (message_handler's has_self_echo and mam_dedup_needles, and
\* line_store_find_message_line).
THEOREM ShownOnceTheorem == Spec => []ShownOnce
<1>1. Inv => ShownOnce
  BY DEF Inv, Sound, Alone, ShownOnce
<1> QED BY <1>1, InvHolds, PTL

\* At most one marker for a message.
NotMarkedTwice == \A n \in Numbers : marks[n] <= 1

\* The contact is told at most once that a message has been displayed (send_reads), whatever
\* comes again of it, and with corrections that can be marked, too.
THEOREM NotMarkedTwiceTheorem == Spec => []NotMarkedTwice
<1>1. Inv => NotMarkedTwice
  BY DEF Inv, Marked, Counted, NotMarkedTwice
<1> QED BY <1>1, InvHolds, PTL

\* And it is going to be told: what is unread in the buffer on screen has displayed_delay_timer
\* running.  A correction asks for no marker, else it would be unread without the timer.
THEOREM MarkedOnceTheorem == ASSUME ~MarkableEdits PROVE Spec => []MarkedOnce
<1>1. Inv => MarkedOnce
  BY DEF Inv, Marked, Counted, Timed, Waits, MarkedOnce
<1> QED BY <1>1, InvHolds, PTL

\* No marker of a visit shorter than look.displayed_delay: buffer_switch and
\* displayed_delay_cb publish when the dwell is over, and only a reply does earlier.
THEOREM ReadMeansSeenTheorem == ASSUME ~MarkableEdits PROVE Spec => ReadMeansSeen
<1> DEFINE Early == /\ marks' # marks
                    /\ ~(\/ Len(archive') > Len(archive)
                         \/ Delay \in {view.age, view'.age}
                         \/ view.odd)
<1>1. ASSUME Inv, [Next]_vars PROVE ~Early
  <2>1. CASE Reply
    <3>1. Add("self", "text")
      BY <2>1 DEF Reply
    <3>2. Len(archive') = Len(archive) + 1
      BY <1>1, <3>1, Added DEF Inv, Kinds
    <3> QED BY <1>1, <3>2 DEF Inv, Typed
  <2>2. CASE Leave
    <3>1. CASE up /\ chat.timer = 0
      <4>1. view.on /\ marks' = [n \in Numbers |-> marks[n] + IF up /\ n \in Range(chat.unreads) THEN 1 ELSE 0]
        BY <2>2, <3>1 DEF Leave, Publish
      <4>2. CASE view.odd
        BY <4>2
      <4>3. CASE ~view.odd
        <5>1. chat.unreads = <<>>
          BY <1>1, <3>1, <4>1, <4>3 DEF Inv, Timed, Waits
        <5>2. Range(chat.unreads) = {}
          BY <5>1 DEF Range
        <5>3. marks' = marks
          BY <1>1, <4>1, <5>2 DEF Inv, Typed
        <5> QED BY <5>3
      <4> QED BY <4>2, <4>3
    <3>2. CASE ~(up /\ chat.timer = 0)
      BY <2>2, <3>2 DEF Leave
    <3> QED BY <3>1, <3>2
  <2>3. CASE Tick
    <3>1. CASE chat.timer = 1 /\ view.on
      <4>1. CASE view.odd
        BY <4>1
      <4>2. CASE ~view.odd
        <5>1. view.age + 1 >= Delay /\ view.age \in Nat /\ Delay \in Nat
          BY <1>1, <3>1, <4>2, BoundsAreNumbers DEF Inv, Timed, Dwells, Typed
        <5>2. view' = [view EXCEPT !.age = Min({view.age + 1, Delay})]
          BY <2>3, <3>1 DEF Tick
        <5>3. Min({view.age + 1, Delay}) = Delay
          BY <5>1 DEF Min
        <5>4. view'.age = Delay
          BY <1>1, <5>2, <5>3 DEF Inv, Typed
        <5> QED BY <5>4
      <4> QED BY <4>1, <4>2
    <3>2. CASE ~(chat.timer = 1 /\ view.on)
      BY <2>3, <3>2 DEF Tick
    <3> QED BY <3>1, <3>2
  <2>4. CASE Receive
    BY <2>4 DEF Receive, ReceiveMessage, ReceiveResult, ReceiveFin, ReceiveMds
  <2>5. CASE \/ PeerSays \/ DeviceSays \/ DeviceReads \/ Serve \/ Cut \/ Fresh
             \/ Edit \/ Retract \/ Open \/ Enter \/ UNCHANGED vars
    BY <2>5 DEF PeerSays, DeviceSays, DeviceReads, Serve, Cut, Fresh, Edit, Retract, Open, Enter, vars
  <2> QED BY <1>1, <2>1, <2>2, <2>3, <2>4, <2>5 DEF Next
<1>2. ASSUME Inv, [Next]_vars
      PROVE  [marks' # marks => \/ Len(archive') > Len(archive)
                                \/ Delay \in {view.age, view'.age}
                                \/ view.odd]_vars
  BY <1>1, <1>2
<1> QED BY <1>2, InvHolds, PTL DEF Spec, ReadMeansSeen

=============================================================================
