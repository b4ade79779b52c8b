---------------------------- MODULE MamSync_proofs ----------------------------
(***************************************************************************)
(* The catch-up with the archive, for any chats, rooms, losses, crashes,   *)
(* slots and pages: every fetch that is underway is known as such, nothing *)
(* is asked for twice, what is deferred, answered or checkpointed belongs  *)
(* to the fetch that asked for it, no cursor and no checkpoint passes what *)
(* is not there, and nothing is shown ahead of a fetch of its chat.        *)
(*                                                                         *)
(* The handlers of MamSync are operators from account to account; each has *)
(* lemmas that say what of the invariant it keeps and how far its fetches  *)
(* get; the actions combine them.  What loops over a set or a sequence     *)
(* of chats is a fold, which is reasoned about by the set it has dealt     *)
(* with, or by its length.                                                 *)
(***************************************************************************)
EXTENDS MamSync, FiniteSetTheorems, SequenceTheorems, WellFoundedInduction, TLAPS

-----------------------------------------------------------------------------
(* The archive: the inductive invariant.                                   *)

Ids == Nat \ {0}
Chs == Channels \union {Global}
Times == 0..now
Said == 1..now
Queries == [id : Ids, ch : Chs, start : Times, end : Times, stable : BOOLEAN]
Pages == [id : Nat, ch : Chs, start : Times, end : Times, after : Times, stable : BOOLEAN,
          slot_held : BOOLEAN]
Requests == [id : Ids, ch : Chs, after : Times, end : Times]
HeldMessages == [id : Nat, m : Said]
Dbs == [cache : SUBSET Said, cursor : Times, ts : [Channels -> Times \union {Closed}],
        registered : SUBSET PMs, wiped : SUBSET Said]
Accounts ==
  [up : BOOLEAN, sm : BOOLEAN, probed : BOOLEAN, open : SUBSET Channels,
   joining : SUBSET Channels, shown : SUBSET Said, last_fetch : [Channels -> Times],
   queries : SUBSET Queries, pages : Seq(Pages), timer : BOOLEAN, inflight : Nat,
   jitter : BOOLEAN, held : [PMs -> Seq(HeldMessages)], catchup : BOOLEAN,
   batch : SUBSET Said, out : Seq(Requests), db : Dbs]
Answers ==
  [kind : {"live"}, id : {0}, m : Said] \union [kind : {"result"}, id : Ids, m : Said]
  \union [kind : {"fin"}, id : Ids, last : Times, complete : BOOLEAN, stable : BOOLEAN,
          abort : BOOLEAN]
  \union [kind : {"error"}, id : Ids, stale : BOOLEAN]

Typed(a) ==
  /\ archive \in Seq(Channels) /\ a \in Accounts /\ IsFiniteSet(a.queries) /\ IsFiniteSet(a.db.registered)
  /\ a.joining \subseteq a.open \intersect Rooms /\ (a.timer => a.up)
  /\ \A p \in PMs : \A i \in DOMAIN a.held[p] : archive[a.held[p][i].m] = p
  /\ \A r \in Rooms : a.db.ts[r] # Closed

\* An id is one query's, and of it there is a page to go, a request or an answer: one of these.
IsEnd(x) == x.kind \in {"fin", "error"}
OneOfEach(a) ==
  /\ \A q, r \in a.queries : (q.id = r.id \/ q.ch = r.ch) => q = r
  /\ \A i, j \in DOMAIN a.pages : a.pages[i].id = a.pages[j].id => i = j
  /\ \A i, j \in DOMAIN a.out : a.out[i].id = a.out[j].id => i = j
  /\ \A i \in DOMAIN a.pages, j \in DOMAIN a.out : a.out[j].id # a.pages[i].id
OneEnd(a, s) ==
  /\ \A i, j \in DOMAIN s : (IsEnd(s[i]) /\ IsEnd(s[j]) /\ s[i].id = s[j].id) => i = j
  /\ \A i \in DOMAIN s : IsEnd(s[i]) =>
       /\ \A j \in DOMAIN a.pages : a.pages[j].id # s[i].id
       /\ \A j \in DOMAIN a.out : a.out[j].id # s[i].id

\* A page that follows another is its query's; the first one has none yet.
PageFits(g, a) ==
  IF g.ch = Global
  THEN g.id = 0 /\ a.probed /\ \A q \in a.queries : q.ch # Global
  ELSE /\ g.id # 0 /\ ~g.slot_held /\ g.ch \in a.open
       /\ IF g.after = 0 THEN \A q \in a.queries : q.id # g.id
          ELSE \E q \in a.queries : q.id = g.id /\ q.ch = g.ch /\ q.end = g.end
Paged(a) == \A i \in DOMAIN a.pages : PageFits(a.pages[i], a)
Asks(r, q) == q.id = r.id => (q.ch = r.ch /\ q.end = r.end)
Asking(a) ==
  /\ \A q \in a.queries : IF q.ch = Global THEN a.probed ELSE q.ch \in a.open
  /\ \A i \in DOMAIN a.out, q \in a.queries : Asks(a.out[i], q)
Linked(a, s) == OneOfEach(a) /\ OneEnd(a, s) /\ Paged(a) /\ Asking(a)

\* Every slot has its query, or the page that holds on to it.
SlotsHeld(pages) == IF \E i \in DOMAIN pages : pages[i].slot_held THEN 1 ELSE 0
SlotsBut(a, n) ==
  /\ a.inflight = Cardinality(a.queries) + SlotsHeld(a.pages) + n
  /\ a.inflight <= MaxConcurrent
Slots(a) == SlotsBut(a, 0)

\* What is held back waits for a fetch of its chat.
HeldBut(a, ch) == \A p \in PMs \ {ch} : a.held[p] # <<>> => Fetching(a, p, 0)
Held(a) == HeldBut(a, Global)

From(g) == IF g.after = 0 THEN g.start ELSE g.after

Kept(a, s) == Typed(a) /\ Linked(a, s) /\ Slots(a) /\ Held(a)
-----------------------------------------------------------------------------
(* How far a fetch has got.                                                *)

\* What is shown in a chat or held back for it; what LMDB keeps, or will after the next commit.
There(a, p) == a.shown \union HeldBack(a, p)
Safe(a) == a.db.cache \union a.db.wiped
Stored(a) == Safe(a) \union a.batch

Covered(n, S) == \A m \in In(PMs) : m <= n => m \in S
Seen(p, lo, hi, S) == \A m \in In({p}) : (lo < m /\ m <= hi) => m \in S

\* The account has what a fetch went through up to n, not counting what is still to come.
Got(a, q, n, more) ==
  /\ q.ch = Global => Covered(n, Stored(a) \union more)
  /\ q.ch \in PMs => Seen(q.ch, q.start, n, There(a, q.ch) \union more)

Coming(s, i) == {s[j].m : j \in {k \in DOMAIN s : k < i /\ s[k].kind = "result"}}
Steadily(x) == x.kind = "fin" /\ x.stable /\ ~x.abort

PagesGot(a) ==
  /\ \A i \in DOMAIN a.pages :
       (a.pages[i].ch = Global /\ a.pages[i].stable) => Covered(From(a.pages[i]), Stored(a))
  /\ \A i \in DOMAIN a.pages, q \in a.queries :
       (q.stable /\ a.pages[i].id = q.id /\ a.pages[i].after # 0) => Got(a, q, a.pages[i].after, {})
RequestsGot(a) ==
  \A i \in DOMAIN a.out, q \in a.queries :
    (q.stable /\ a.out[i].id = q.id) => Got(a, q, a.out[i].after, {})
AnswersGot(a, s, more) ==
  \A i \in DOMAIN s, q \in a.queries :
    (q.stable /\ Steadily(s[i]) /\ s[i].id = q.id) =>
      /\ Got(a, q, s[i].last, Coming(s, i) \union more)
      /\ s[i].complete => Got(a, q, q.end, Coming(s, i) \union more)
Progress(a, s, more) ==
  Covered(a.db.cursor, Safe(a)) /\ PagesGot(a) /\ RequestsGot(a) /\ AnswersGot(a, s, more)

\* A chat of which a time is known will be opened again, and is open while there is a stream.
Known(a) == \A p \in PMs : a.db.ts[p] > 0 => p \in a.db.registered
Attended(a) == \A p \in PMs : a.db.ts[p] > 0 => p \in a.open
Stands(a, s) == Progress(a, s, {}) /\ Known(a) /\ (a.up => Attended(a))

ArchiveInv ==
  /\ s2c \in Seq(Answers)
  /\ Kept(acct, s2c)
  /\ Stands(acct, s2c)
-----------------------------------------------------------------------------
(* Folds over a sequence.                                                  *)

\* What 0 has, and n + 1 if n has it, every natural number has.
LEMMA NumberInduction ==
  ASSUME NEW T, 0 \in T, \A n \in Nat : n \in T => n + 1 \in T
  PROVE  Nat \subseteq T
<1> DEFINE Bad == {n \in Nat : n \notin T}
<1>1. ASSUME Bad # {} PROVE FALSE
  <2> DEFINE Less == OpToRel(<, Nat)
  <2>1. IsWellFoundedOn(Less, Nat)
    BY NatLessThanWellFounded
  <2>2. \A m, n \in Nat : m < n => <<m, n>> \in Less
    BY DEF OpToRel
  <2> HIDE DEF Less
  <2>3. PICK n \in Bad : \A m \in Bad : <<m, n>> \notin Less
    BY <1>1, <2>1, WFMin
  <2>4. n \in Nat /\ n # 0
    BY <2>3
  <2>5. n - 1 \in Nat /\ n - 1 < n /\ n = (n - 1) + 1
    BY <2>4
  <2> QED BY <2>2, <2>3, <2>4, <2>5
<1> QED BY <1>1

Picks(pick, S) == \A s \in SUBSET S : s # {} => pick[s] \in s
Recurs(f, S, base, step, pick) ==
  \A s \in SUBSET S : f[s] = IF s = {} THEN base ELSE step[pick[s], f[s \ {pick[s]}]]

\* A function can be defined on the subsets of a finite set by its value for the empty set,
\* and for any other by that for the set without the element that is picked.
LEMMA FoldExists ==
  ASSUME NEW S, IsFiniteSet(S), NEW A, NEW base \in A, NEW step \in [S \X A -> A],
         NEW pick, Picks(pick, S)
  PROVE  \E f \in [SUBSET S -> A] : Recurs(f, S, base, step, pick)
<1> DEFINE Small(n) == {s \in SUBSET S : Cardinality(s) < n}
           Val(s, f) == IF s = {} THEN base ELSE step[pick[s], f[s \ {pick[s]}]]
           Is(f, n) == \A s \in Small(n) : f[s] = Val(s, f)
           Good == {n \in Nat : \E f \in [Small(n) -> A] : Is(f, n)}
<1>1. \A s \in SUBSET S : IsFiniteSet(s) /\ Cardinality(s) \in Nat
  BY FS_Subset, FS_CardinalityType
<1>2. \A s \in SUBSET S : \A x \in s : s \ {x} \in SUBSET S /\ Cardinality(s \ {x}) = Cardinality(s) - 1
  BY <1>1, FS_RemoveElement
<1>3. ASSUME NEW n \in Nat, n \in Good PROVE n + 1 \in Good
  <2>1. PICK f \in [Small(n) -> A] : Is(f, n)
    BY <1>3
  <2> DEFINE g == [s \in Small(n + 1) |-> Val(s, f)]
  <2>2. \A s \in Small(n + 1) : s # {} => (pick[s] \in S /\ s \ {pick[s]} \in Small(n))
    BY <1>1, <1>2 DEF Picks
  <2>3. ASSUME NEW s \in Small(n) PROVE s \in Small(n + 1) /\ g[s] = f[s]
    <3>1. s \in Small(n + 1)
      BY <1>1
    <3>2. f[s] = Val(s, f)
      BY <2>1
    <3> HIDE DEF Small, Val
    <3> QED BY <3>1, <3>2
  <2>4. ASSUME NEW s \in Small(n + 1) PROVE Val(s, f) \in A /\ g[s] = Val(s, g)
    <3>1. CASE s = {}
      BY <3>1
    <3>2. CASE s # {}
      <4>1. pick[s] \in S /\ s \ {pick[s]} \in Small(n)
        BY <2>2, <3>2
      <4>2. g[s \ {pick[s]}] = f[s \ {pick[s]}]
        BY <4>1, <2>3
      <4>3. f[s \ {pick[s]}] \in A
        BY <4>1, <2>1
      <4>4. step[pick[s], f[s \ {pick[s]}]] \in A
        BY <4>1, <4>3
      <4> HIDE DEF Small
      <4> QED BY <4>2, <4>4, <3>2
    <3> QED BY <3>1, <3>2
  <2> HIDE DEF Small, Val
  <2>5. g \in [Small(n + 1) -> A]
    BY <2>4
  <2>6. Is(g, n + 1)
    BY <2>4
  <2>7. n + 1 \in Nat
    OBVIOUS
  <2> HIDE DEF Is, g
  <2> QED BY <2>5, <2>6, <2>7
<1>4. 0 \in Good
  <2>1. Small(0) = {}
    BY <1>1
  <2>2. [s \in {} |-> base] \in [Small(0) -> A]
    BY <2>1
  <2> QED BY <2>1, <2>2
<1>5. Nat \subseteq Good
  <2> HIDE DEF Good
  <2> QED BY <1>3, <1>4, NumberInduction
<1>6. PICK n \in Nat : n = Cardinality(S) + 1
  BY FS_CardinalityType
<1>7. Small(n) = SUBSET S
  BY <1>1, <1>6, FS_Subset
<1>8. PICK f \in [Small(n) -> A] : Is(f, n)
  BY <1>5, <1>6
<1> QED BY <1>7, <1>8 DEF Recurs

\* FoldLeft takes the elements off the end.
LEMMA InitialSegments ==
  ASSUME NEW n \in Nat, NEW i \in 1..n
  PROVE  /\ 1..i \in SUBSET (1..n) /\ 1..i # {} /\ Max(1..i) = i /\ (1..i) \ {i} = 1..(i - 1)
         /\ i - 1 \in 0..n
<1>1. i \in 1..i /\ \A y \in 1..i : i >= y
  OBVIOUS
<1>2. \A x \in 1..i : (\A y \in 1..i : x >= y) => x = i
  OBVIOUS
<1>3. Max(1..i) = i
  BY <1>1, <1>2 DEF Max
<1>4. (1..i) \ {i} = 1..(i - 1) /\ 1..i \subseteq 1..n /\ i - 1 \in 0..n
  OBVIOUS
<1> QED BY <1>1, <1>3, <1>4

LEMMA MaxIsMember ==
  ASSUME NEW n \in Nat, NEW S \in SUBSET (1..n), S # {}
  PROVE  Max(S) \in S
<1> DEFINE T == {m \in Nat : \A s \in SUBSET (1..m) : s # {} => \E x \in s : \A y \in s : x >= y}
<1>1. 0 \in T
  <2>1. 1..0 = {}
    OBVIOUS
  <2> QED BY <2>1
<1>2. ASSUME NEW m \in Nat, m \in T PROVE m + 1 \in T
  <2>1. ASSUME NEW s \in SUBSET (1..(m + 1)), s # {} PROVE \E x \in s : \A y \in s : x >= y
    <3>1. CASE m + 1 \in s
      BY <3>1
    <3>2. CASE m + 1 \notin s
      <4>1. s \in SUBSET (1..m)
        BY <3>2
      <4> QED BY <1>2, <2>1, <4>1
    <3> QED BY <3>1, <3>2
  <2> QED BY <2>1
<1>3. n \in T
  <2> HIDE DEF T
  <2> QED BY <1>1, <1>2, NumberInduction
<1>4. PICK x \in S : \A y \in S : x >= y
  BY <1>3
<1> QED BY <1>4 DEF Max
-----------------------------------------------------------------------------
(* Identifiers.                                                            *)

LEMMA LeastMember ==
  ASSUME NEW S \in SUBSET Nat, S # {}
  PROVE  Min(S) \in S /\ \A m \in S : Min(S) <= m
<1> DEFINE Less == OpToRel(<, Nat)
<1>1. IsWellFoundedOn(Less, Nat)
  BY NatLessThanWellFounded
<1>2. \A m, n \in Nat : m < n => <<m, n>> \in Less
  BY DEF OpToRel
<1> HIDE DEF Less
<1>3. PICK n \in S : \A m \in S : <<m, n>> \notin Less
  BY <1>1, WFMin
<1>4. \A m \in S : n <= m
  <2> SUFFICES ASSUME NEW m \in S PROVE ~(m < n)
    BY <1>3
  <2>1. m \in Nat /\ n \in Nat
    BY <1>3
  <2> QED BY <1>2, <1>3, <2>1
<1> QED BY <1>3, <1>4 DEF Min

\* There are no more identifiers in a sequence, or in a set, than there are elements.
LEMMA IdsOfSequence ==
  ASSUME NEW S, NEW s \in Seq(S)
  PROVE  /\ IsFiniteSet({x.id : x \in Range(s)})
         /\ Cardinality({x.id : x \in Range(s)}) <= Len(s)
<1> DEFINE T == {x.id : x \in Range(s)}
           f == [i \in 1..Len(s) |-> s[i].id]
<1>1. Len(s) \in Nat /\ DOMAIN s = 1..Len(s)
  OBVIOUS
<1>2. f \in Surjection(1..Len(s), T)
  BY <1>1 DEF Surjection, Range
<1>3. IsFiniteSet(1..Len(s)) /\ Cardinality(1..Len(s)) = Len(s)
  BY <1>1, FS_Interval
<1> HIDE DEF T, f
<1> QED BY <1>2, <1>3, FS_Surjection DEF T

LEMMA IdsOfSet ==
  ASSUME NEW Q, IsFiniteSet(Q)
  PROVE  /\ IsFiniteSet({q.id : q \in Q}) /\ Cardinality({q.id : q \in Q}) <= Cardinality(Q)
<1> DEFINE T == {q.id : q \in Q}
           f == [q \in Q |-> q.id]
<1>1. f \in Surjection(Q, T)
  BY DEF Surjection
<1> HIDE DEF T, f
<1> QED BY <1>1, FS_Surjection DEF T

LEMMA UnionBound ==
  ASSUME NEW S, NEW T, IsFiniteSet(S), IsFiniteSet(T), NEW m \in Nat, NEW n \in Nat,
         Cardinality(S) <= m, Cardinality(T) <= n
  PROVE  IsFiniteSet(S \union T) /\ Cardinality(S \union T) <= m + n
<1>1. IsFiniteSet(S \union T) /\ Cardinality(S \union T) = Cardinality(S) + Cardinality(T) - Cardinality(S \intersect T)
  BY FS_Union
<1>2. Cardinality(S) \in Nat /\ Cardinality(T) \in Nat /\ Cardinality(S \intersect T) \in Nat
  BY FS_CardinalityType, FS_Intersection
<1> QED BY <1>1, <1>2

\* stanza::uuid
IsFresh(id, a, s) ==
  /\ id \in Ids
  /\ \A q \in a.queries : q.id # id
  /\ \A i \in DOMAIN a.pages : a.pages[i].id # id
  /\ \A i \in DOMAIN a.out : a.out[i].id # id
  /\ \A i \in DOMAIN s : s[i].id # id

LEMMA FreshIdFacts ==
  ASSUME NEW a, Typed(a), s2c \in Seq(Answers)
  PROVE  IsFresh(FreshId(a), a, s2c)
<1> DEFINE Q == {q.id : q \in a.queries}
           O == {x.id : x \in Range(a.out)}
           S == {x.id : x \in Range(s2c)}
           P == {x.id : x \in Range(a.pages)}
           n == Len(a.out) + Len(s2c) + Cardinality(a.queries) + Len(a.pages)
           taken == (Q \union O) \union (S \union P)
<1>1. a.out \in Seq(Requests) /\ a.pages \in Seq(Pages) /\ IsFiniteSet(a.queries)
  BY DEF Typed, Accounts
<1>2. /\ Len(a.out) \in Nat /\ Len(s2c) \in Nat /\ Len(a.pages) \in Nat
      /\ Cardinality(a.queries) \in Nat
  BY <1>1, FS_CardinalityType
<1>3. /\ IsFiniteSet(Q) /\ Cardinality(Q) <= Cardinality(a.queries)
      /\ IsFiniteSet(O) /\ Cardinality(O) <= Len(a.out)
      /\ IsFiniteSet(S) /\ Cardinality(S) <= Len(s2c)
      /\ IsFiniteSet(P) /\ Cardinality(P) <= Len(a.pages)
  <2>1. IsFiniteSet(Q) /\ Cardinality(Q) <= Cardinality(a.queries)
    BY <1>1, IdsOfSet
  <2>2. IsFiniteSet(O) /\ Cardinality(O) <= Len(a.out)
    BY <1>1, IdsOfSequence
  <2>3. IsFiniteSet(S) /\ Cardinality(S) <= Len(s2c)
    BY IdsOfSequence
  <2>4. IsFiniteSet(P) /\ Cardinality(P) <= Len(a.pages)
    BY <1>1, IdsOfSequence
  <2> QED BY <2>1, <2>2, <2>3, <2>4
<1> HIDE DEF Q, O, S, P
<1>4. IsFiniteSet(taken) /\ Cardinality(taken) <= n
  <2>1. IsFiniteSet(Q \union O) /\ Cardinality(Q \union O) <= Cardinality(a.queries) + Len(a.out)
    BY <1>2, <1>3, UnionBound
  <2>2. IsFiniteSet(S \union P) /\ Cardinality(S \union P) <= Len(s2c) + Len(a.pages)
    BY <1>2, <1>3, UnionBound
  <2>3. Cardinality(a.queries) + Len(a.out) \in Nat /\ Len(s2c) + Len(a.pages) \in Nat
    BY <1>2
  <2>4. IsFiniteSet(taken) /\ Cardinality(taken) <= (Cardinality(a.queries) + Len(a.out)) + (Len(s2c) + Len(a.pages))
    BY <2>1, <2>2, <2>3, UnionBound
  <2> QED BY <1>2, <2>4
<1>5. FreshId(a) = Min(1..(n + 1) \ taken)
  <2>1. UNION {Q, O, S, P} = taken
    OBVIOUS
  <2> QED BY <2>1 DEF FreshId, Q, O, S, P
<1>6. n \in Nat /\ IsFiniteSet(1..(n + 1)) /\ Cardinality(1..(n + 1)) = n + 1
  <2>1. n \in Nat
    BY <1>2
  <2> HIDE DEF n
  <2> QED BY <2>1, FS_Interval
<1> HIDE DEF n, taken
<1>7. 1..(n + 1) \ taken # {}
  <2> SUFFICES ASSUME 1..(n + 1) \subseteq taken PROVE FALSE
    OBVIOUS
  <2>1. n + 1 <= Cardinality(taken) /\ Cardinality(taken) \in Nat
    BY <1>4, <1>6, FS_Subset, FS_CardinalityType
  <2> QED BY <1>4, <1>6, <2>1
<1>8. FreshId(a) \in 1..(n + 1) \ taken
  <2>1. 1..(n + 1) \ taken \in SUBSET Nat
    BY <1>6
  <2> QED BY <1>5, <1>7, <2>1, LeastMember
<1>9. FreshId(a) \in Ids
  BY <1>6, <1>8 DEF Ids
<1> QED BY <1>8, <1>9 DEF IsFresh, taken, Q, O, S, P, Range

-----------------------------------------------------------------------------
(* What is linked: queries, pages, requests and answers.                   *)

\* Only some fields of the account are about what is being fetched.
SameFetches(a, b) ==
  b.queries = a.queries /\ b.pages = a.pages /\ b.out = a.out /\ b.inflight = a.inflight
Grows(a, b) == a.open \subseteq b.open /\ (a.probed => b.probed)

LEMMA SameLinks ==
  ASSUME NEW a, NEW b, NEW s, Linked(a, s), SameFetches(a, b), Grows(a, b)
  PROVE  Linked(b, s)
<1>1. OneOfEach(b) /\ OneEnd(b, s)
  BY DEF Linked, OneOfEach, OneEnd, SameFetches
<1>2. \A g : PageFits(g, a) => PageFits(g, b)
  BY DEF PageFits, SameFetches, Grows
<1>3. Paged(b)
  BY <1>2 DEF Linked, Paged, SameFetches
<1>4. Asking(b)
  BY DEF Linked, Asking, SameFetches, Grows
<1> QED BY <1>1, <1>3, <1>4 DEF Linked

LEMMA SameSlots ==
  ASSUME NEW a, NEW b, SameFetches(a, b)
  PROVE  /\ Slots(a) => Slots(b)
         /\ \A p, id : Fetching(b, p, id) <=> Fetching(a, p, id)
         /\ b.held = a.held => (Held(a) => Held(b))
<1>1. Slots(a) => Slots(b)
  BY DEF Slots, SlotsBut, SlotsHeld, SameFetches
<1>2. \A p, id : Fetching(b, p, id) <=> Fetching(a, p, id)
  BY DEF Fetching, SameFetches
<1> QED BY <1>1, <1>2 DEF Held, HeldBut

\* Nothing of what is to go, was asked or is answered has this identifier.
Unused(id, a, s) ==
  /\ \A i \in DOMAIN a.pages : a.pages[i].id # id
  /\ \A i \in DOMAIN a.out : a.out[i].id # id
  /\ \A i \in DOMAIN s : IsEnd(s[i]) => s[i].id # id

\* A request for a query, sent or, without a stream, not.
Asked1(a, b, id, ch, end) ==
  \/ b.out = a.out
  \/ \E after \in Times :
       b.out = Append(a.out, [id |-> id, ch |-> ch, after |-> after, end |-> end])

LEMMA AskedOut ==
  ASSUME NEW a, NEW b, NEW id, NEW ch, NEW end, a.out \in Seq(Requests), Asked1(a, b, id, ch, end)
  PROVE  /\ \A i \in DOMAIN b.out :
              \/ i \in DOMAIN a.out /\ b.out[i] = a.out[i]
              \/ /\ i = Len(a.out) + 1
                 /\ b.out[i].id = id /\ b.out[i].ch = ch /\ b.out[i].end = end
         /\ \A i \in DOMAIN a.out : i # Len(a.out) + 1
<1>1. CASE b.out = a.out
  BY <1>1
<1>2. CASE b.out # a.out
  <2>1. PICK after \in Times :
          b.out = Append(a.out, [id |-> id, ch |-> ch, after |-> after, end |-> end])
    BY <1>2 DEF Asked1
  <2> QED BY <2>1
<1> QED BY <1>1, <1>2

LEMMA NewQuery ==
  ASSUME NEW a, NEW b, NEW s, NEW q, a.out \in Seq(Requests), Linked(a, s), Unused(q.id, a, s),
         \A r \in a.queries : r.ch # q.ch /\ r.id # q.id,
         IF q.ch = Global THEN b.probed /\ \A i \in DOMAIN a.pages : a.pages[i].ch # Global
         ELSE q.ch \in b.open,
         b.queries = a.queries \union {q}, b.pages = a.pages, Asked1(a, b, q.id, q.ch, q.end),
         Grows(a, b)
  PROVE  Linked(b, s)
<1>1. /\ \A i \in DOMAIN b.out :
           \/ i \in DOMAIN a.out /\ b.out[i] = a.out[i]
           \/ /\ i = Len(a.out) + 1
              /\ b.out[i].id = q.id /\ b.out[i].ch = q.ch /\ b.out[i].end = q.end
      /\ \A i \in DOMAIN a.out : i # Len(a.out) + 1
  BY AskedOut
<1>2. OneOfEach(a) /\ OneEnd(a, s) /\ Paged(a) /\ Asking(a)
  BY DEF Linked
<1>3. OneOfEach(b)
  <2>1. \A x, y \in b.queries : (x.id = y.id \/ x.ch = y.ch) => x = y
    BY <1>2 DEF OneOfEach
  <2>2. \A i, j \in DOMAIN b.out : b.out[i].id = b.out[j].id => i = j
    BY <1>1, <1>2 DEF OneOfEach, Unused
  <2>3. \A i \in DOMAIN b.pages, j \in DOMAIN b.out : b.out[j].id # b.pages[i].id
    BY <1>1, <1>2 DEF OneOfEach, Unused
  <2> QED BY <1>2, <2>1, <2>2, <2>3 DEF OneOfEach
<1>4. OneEnd(b, s)
  BY <1>1, <1>2 DEF OneEnd, Unused
<1>5. Paged(b)
  <2> SUFFICES ASSUME NEW i \in DOMAIN a.pages PROVE PageFits(a.pages[i], b)
    BY DEF Paged
  <2>1. PageFits(a.pages[i], a) /\ a.pages[i].id # q.id
    BY <1>2 DEF Paged, Unused
  <2>2. q.ch = Global => a.pages[i].ch # Global
    OBVIOUS
  <2> HIDE DEF Global
  <2> QED BY <2>1, <2>2 DEF PageFits, Grows
<1>6. Asking(b)
  <2>1. \A x \in b.queries : IF x.ch = Global THEN b.probed ELSE x.ch \in b.open
    BY <1>2 DEF Asking, Grows
  <2>2. ASSUME NEW i \in DOMAIN b.out, NEW x \in b.queries PROVE Asks(b.out[i], x)
    <3>1. CASE i \in DOMAIN a.out /\ b.out[i] = a.out[i]
      BY <1>2, <3>1 DEF Asking, Asks, Unused
    <3>2. CASE b.out[i].id = q.id /\ b.out[i].ch = q.ch /\ b.out[i].end = q.end
      BY <3>2 DEF Asks
    <3> QED BY <1>1, <3>1, <3>2
  <2> QED BY <2>1, <2>2 DEF Asking
<1> QED BY <1>3, <1>4, <1>5, <1>6 DEF Linked

\* The next page of a query is asked for.
LEMMA NewRequest ==
  ASSUME NEW a, NEW b, NEW s, NEW q \in a.queries, a.out \in Seq(Requests), Linked(a, s),
         Unused(q.id, a, s), b.queries = a.queries, b.pages = a.pages,
         Asked1(a, b, q.id, q.ch, q.end), Grows(a, b)
  PROVE  Linked(b, s)
<1>1. /\ \A i \in DOMAIN b.out :
           \/ i \in DOMAIN a.out /\ b.out[i] = a.out[i]
           \/ /\ i = Len(a.out) + 1
              /\ b.out[i].id = q.id /\ b.out[i].ch = q.ch /\ b.out[i].end = q.end
      /\ \A i \in DOMAIN a.out : i # Len(a.out) + 1
  BY AskedOut
<1>2. OneOfEach(a) /\ OneEnd(a, s) /\ Paged(a) /\ Asking(a)
  BY DEF Linked
<1>3. OneOfEach(b)
  <2>1. \A i, j \in DOMAIN b.out : b.out[i].id = b.out[j].id => i = j
    BY <1>1, <1>2 DEF OneOfEach, Unused
  <2>2. \A i \in DOMAIN b.pages, j \in DOMAIN b.out : b.out[j].id # b.pages[i].id
    BY <1>1, <1>2 DEF OneOfEach, Unused
  <2> QED BY <1>2, <2>1, <2>2 DEF OneOfEach
<1>4. OneEnd(b, s)
  BY <1>1, <1>2 DEF OneEnd, Unused
<1>5. Paged(b)
  BY <1>2 DEF Paged, PageFits, Grows
<1>6. Asking(b)
  <2>1. \A x \in b.queries : IF x.ch = Global THEN b.probed ELSE x.ch \in b.open
    BY <1>2 DEF Asking, Grows
  <2>2. ASSUME NEW i \in DOMAIN b.out, NEW x \in b.queries PROVE Asks(b.out[i], x)
    <3>1. CASE i \in DOMAIN a.out /\ b.out[i] = a.out[i]
      BY <1>2, <3>1 DEF Asking, Asks
    <3>2. CASE b.out[i].id = q.id /\ b.out[i].ch = q.ch /\ b.out[i].end = q.end
      BY <1>2, <3>2 DEF Asks, OneOfEach
    <3> QED BY <1>1, <3>1, <3>2
  <2> QED BY <2>1, <2>2 DEF Asking
<1> QED BY <1>3, <1>4, <1>5, <1>6 DEF Linked

\* A page is postponed; that of the global catch-up is its query's no more.
LEMMA NewPage ==
  ASSUME NEW a, NEW b, NEW s, NEW g, a.pages \in Seq(Pages), Linked(a, s),
         Unused(g.id, a, s), b.queries \subseteq a.queries,
         \A q \in a.queries \ b.queries : \A i \in DOMAIN a.pages : a.pages[i].id # q.id,
         b.pages = Append(a.pages, g), b.out = a.out,
         PageFits(g, b), Grows(a, b)
  PROVE  Linked(b, s)
<1>1. OneOfEach(a) /\ OneEnd(a, s) /\ Paged(a) /\ Asking(a)
  BY DEF Linked
<1>2. /\ \A i \in DOMAIN b.pages : \/ i \in DOMAIN a.pages /\ b.pages[i] = a.pages[i]
                                   \/ i = Len(a.pages) + 1 /\ b.pages[i] = g
      /\ \A i \in DOMAIN a.pages : i # Len(a.pages) + 1
  OBVIOUS
<1>3. OneOfEach(b)
  <2>1. \A x, y \in b.queries : (x.id = y.id \/ x.ch = y.ch) => x = y
    BY <1>1 DEF OneOfEach
  <2>2. \A i, j \in DOMAIN b.pages : b.pages[i].id = b.pages[j].id => i = j
    BY <1>1, <1>2 DEF OneOfEach, Unused
  <2>3. \A i \in DOMAIN b.pages, j \in DOMAIN b.out : b.out[j].id # b.pages[i].id
    BY <1>1, <1>2 DEF OneOfEach, Unused
  <2> QED BY <1>1, <2>1, <2>2, <2>3 DEF OneOfEach
<1>4. OneEnd(b, s)
  BY <1>1, <1>2 DEF OneEnd, Unused
<1>5. Paged(b)
  <2> SUFFICES ASSUME NEW i \in DOMAIN b.pages PROVE PageFits(b.pages[i], b)
    BY DEF Paged
  <2>1. CASE i \in DOMAIN a.pages /\ b.pages[i] = a.pages[i]
    <3>1. PageFits(a.pages[i], a) /\ \A q \in a.queries \ b.queries : a.pages[i].id # q.id
      BY <1>1, <2>1 DEF Paged
    <3> QED BY <2>1, <3>1 DEF PageFits, Grows
  <2>2. CASE b.pages[i] = g
    BY <2>2
  <2> QED BY <1>2, <2>1, <2>2
<1>6. Asking(b)
  BY <1>1 DEF Asking, Grows
<1> QED BY <1>3, <1>4, <1>5, <1>6 DEF Linked

\* What is linked is still so when some pages and queries are no more, and some answers.
LEMMA FewerLinks ==
  ASSUME NEW a, NEW b, NEW s, NEW t, Linked(a, s), b.queries \subseteq a.queries,
         \A i \in DOMAIN b.pages : \E j \in DOMAIN a.pages : b.pages[i] = a.pages[j],
         \A i, j \in DOMAIN b.pages : b.pages[i].id = b.pages[j].id => i = j,
         \A q \in a.queries \ b.queries : \A i \in DOMAIN b.pages : b.pages[i].id # q.id,
         b.out = a.out \/ b.out = <<>> \/ (b.out = Tail(a.out) /\ a.out # <<>>),
         a.out \in Seq(Requests), s \in Seq(Answers),
         t = s \/ t = <<>> \/ (t = Tail(s) /\ s # <<>>),
         Grows(a, b)
  PROVE  Linked(b, t)
<1>1. OneOfEach(a) /\ OneEnd(a, s) /\ Paged(a) /\ Asking(a)
  BY DEF Linked
<1>2. \E k \in {0, 1} : \A i \in DOMAIN b.out :
        i \in Nat /\ i + k \in DOMAIN a.out /\ b.out[i] = a.out[i + k]
  <2>1. CASE b.out = a.out
    BY <2>1
  <2>2. CASE b.out = <<>>
    BY <2>2
  <2>3. CASE b.out = Tail(a.out) /\ a.out # <<>>
    BY <2>3
  <2> QED BY <2>1, <2>2, <2>3
<1>3. \E k \in {0, 1} : \A i \in DOMAIN t : i \in Nat /\ i + k \in DOMAIN s /\ t[i] = s[i + k]
  <2>1. CASE t = s
    BY <2>1
  <2>2. CASE t = <<>>
    BY <2>2
  <2>3. CASE t = Tail(s) /\ s # <<>>
    BY <2>3
  <2> QED BY <2>1, <2>2, <2>3
<1>4. PICK k \in {0, 1} : \A i \in DOMAIN b.out :
        i \in Nat /\ i + k \in DOMAIN a.out /\ b.out[i] = a.out[i + k]
  BY <1>2
<1>5. PICK l \in {0, 1} : \A i \in DOMAIN t : i \in Nat /\ i + l \in DOMAIN s /\ t[i] = s[i + l]
  BY <1>3
<1>6. OneOfEach(b)
  <2>1. \A x, y \in b.queries : (x.id = y.id \/ x.ch = y.ch) => x = y
    BY <1>1 DEF OneOfEach
  <2>2. \A i, j \in DOMAIN b.out : b.out[i].id = b.out[j].id => i = j
    <3> SUFFICES ASSUME NEW i \in DOMAIN b.out, NEW j \in DOMAIN b.out, b.out[i].id = b.out[j].id
                 PROVE  i = j
      OBVIOUS
    <3>1. i + k = j + k
      BY <1>1, <1>4 DEF OneOfEach
    <3> QED BY <1>4, <3>1
  <2>3. \A i \in DOMAIN b.pages, j \in DOMAIN b.out : b.out[j].id # b.pages[i].id
    BY <1>1, <1>4 DEF OneOfEach
  <2> QED BY <2>1, <2>2, <2>3 DEF OneOfEach
<1>7. OneEnd(b, t)
  <2>1. ASSUME NEW i \in DOMAIN t, NEW j \in DOMAIN t, IsEnd(t[i]), IsEnd(t[j]), t[i].id = t[j].id
        PROVE  i = j
    <3>1. i + l = j + l
      BY <1>1, <1>5, <2>1 DEF OneEnd
    <3> QED BY <1>5, <3>1
  <2>2. ASSUME NEW i \in DOMAIN t, IsEnd(t[i])
        PROVE  /\ \A j \in DOMAIN b.pages : b.pages[j].id # t[i].id
               /\ \A j \in DOMAIN b.out : b.out[j].id # t[i].id
    <3>1. IsEnd(s[i + l]) /\ s[i + l] = t[i] /\ i + l \in DOMAIN s
      BY <1>5, <2>2
    <3>2. /\ \A j \in DOMAIN a.pages : a.pages[j].id # t[i].id
          /\ \A j \in DOMAIN a.out : a.out[j].id # t[i].id
      BY <1>1, <3>1 DEF OneEnd
    <3>3. \A j \in DOMAIN b.pages : b.pages[j].id # t[i].id
      BY <3>2
    <3>4. \A j \in DOMAIN b.out : b.out[j].id # t[i].id
      BY <1>4, <3>2
    <3> QED BY <3>3, <3>4
  <2> QED BY <2>1, <2>2 DEF OneEnd
<1>8. Paged(b)
  <2> SUFFICES ASSUME NEW i \in DOMAIN b.pages PROVE PageFits(b.pages[i], b)
    BY DEF Paged
  <2>1. PageFits(b.pages[i], a) /\ \A q \in a.queries \ b.queries : b.pages[i].id # q.id
    BY <1>1 DEF Paged
  <2> QED BY <2>1 DEF PageFits, Grows
<1>9. Asking(b)
  BY <1>1, <1>4 DEF Asking, Grows
<1> QED BY <1>6, <1>7, <1>8, <1>9 DEF Linked

-----------------------------------------------------------------------------
(* Slots.                                                                  *)

LEMMA OneMore ==
  ASSUME NEW Q, IsFiniteSet(Q), NEW q, q \notin Q
  PROVE  IsFiniteSet(Q \union {q}) /\ Cardinality(Q \union {q}) = Cardinality(Q) + 1
BY FS_AddElement

LEMMA OneLess ==
  ASSUME NEW Q, IsFiniteSet(Q), NEW q \in Q
  PROVE  IsFiniteSet(Q \ {q}) /\ Cardinality(Q \ {q}) = Cardinality(Q) - 1 /\ Cardinality(Q) > 0
<1>1. IsFiniteSet(Q \ {q}) /\ Cardinality(Q \ {q}) = Cardinality(Q) - 1
  BY FS_RemoveElement
<1>2. Cardinality(Q \ {q}) \in Nat /\ Cardinality(Q) \in Nat
  BY <1>1, FS_CardinalityType
<1> QED BY <1>1, <1>2

LEMMA OneOther ==
  ASSUME NEW Q, IsFiniteSet(Q), NEW q \in Q, NEW r, r \notin Q \ {q}
  PROVE  /\ IsFiniteSet((Q \ {q}) \union {r})
         /\ Cardinality((Q \ {q}) \union {r}) = Cardinality(Q)
<1>1. IsFiniteSet(Q \ {q}) /\ Cardinality(Q \ {q}) = Cardinality(Q) - 1 /\ Cardinality(Q) \in Nat
  BY OneLess, FS_CardinalityType
<1> QED BY <1>1, OneMore

LEMMA SlotsOfPages ==
  ASSUME NEW pages \in Seq(Pages), NEW g \in Pages
  PROVE  /\ SlotsHeld(pages) \in {0, 1}
         /\ ~g.slot_held => SlotsHeld(Append(pages, g)) = SlotsHeld(pages)
         /\ g.slot_held => SlotsHeld(Append(pages, g)) = 1
<1>1. /\ \A i \in DOMAIN pages : i \in DOMAIN Append(pages, g) /\ Append(pages, g)[i] = pages[i]
      /\ Len(pages) + 1 \in DOMAIN Append(pages, g) /\ Append(pages, g)[Len(pages) + 1] = g
      /\ \A i \in DOMAIN Append(pages, g) : i \in DOMAIN pages \/ i = Len(pages) + 1
  OBVIOUS
<1> DEFINE more == Append(pages, g)
<1> HIDE DEF more
<1>2. /\ \A i \in DOMAIN pages : i \in DOMAIN more /\ more[i] = pages[i]
      /\ Len(pages) + 1 \in DOMAIN more /\ more[Len(pages) + 1] = g
      /\ \A i \in DOMAIN more : i \in DOMAIN pages \/ i = Len(pages) + 1
  BY <1>1 DEF more
<1>3. /\ SlotsHeld(pages) \in {0, 1}
      /\ ~g.slot_held => SlotsHeld(more) = SlotsHeld(pages)
      /\ g.slot_held => SlotsHeld(more) = 1
  BY <1>2 DEF SlotsHeld
<1> QED BY <1>3 DEF more

\* schedule_next_mam_page, after the pages have changed
LEMMA ScheduleFacts ==
  ASSUME NEW a, Typed(a)
  PROVE  /\ Schedule(a) \in Accounts /\ Schedule(a) = [a EXCEPT !.timer = a.timer \/ a.up]
         /\ Typed(Schedule(a))
<1> DEFINE t == a.timer \/ a.up
           b == [a EXCEPT !.timer = t]
<1>1. t \in BOOLEAN /\ (t => a.up)
  BY DEF Typed, Accounts
<1>2. Schedule(a) = b
  BY DEF Schedule
<1> HIDE DEF t
<1>3. b \in Accounts
  BY <1>1 DEF Typed, Accounts
<1>4. /\ b.queries = a.queries /\ b.db = a.db /\ b.joining = a.joining /\ b.open = a.open
      /\ b.timer = t /\ b.up = a.up /\ b.held = a.held
  BY DEF Typed, Accounts
<1> HIDE DEF b
<1>5. Typed(b)
  BY <1>1, <1>3, <1>4 DEF Typed
<1> QED BY <1>2, <1>3, <1>5 DEF b, t

-----------------------------------------------------------------------------
(* Queries and pages.                                                      *)

\* What the parts of the account that fetch leave alone.
Aside(a, b) ==
  /\ b.up = a.up /\ b.sm = a.sm /\ b.probed = a.probed /\ b.open = a.open
  /\ b.joining = a.joining /\ b.shown = a.shown /\ b.last_fetch = a.last_fetch
  /\ b.held = a.held /\ b.catchup = a.catchup /\ b.batch = a.batch /\ b.db = a.db

LEMMA AsideTyped ==
  ASSUME NEW a, NEW b, Typed(a), Aside(a, b), b.queries \in SUBSET Queries, b.pages \in Seq(Pages),
         b.timer \in BOOLEAN, b.inflight \in Nat, b.jitter \in BOOLEAN, b.out \in Seq(Requests),
         b \in Accounts, IsFiniteSet(b.queries), b.timer => a.up
  PROVE  Typed(b) /\ Grows(a, b)
BY DEF Typed, Aside, Grows

Sent(a, b, id, ch, after, end) ==
  b.out = IF a.up \/ a.sm
          THEN Append(a.out, [id |-> id, ch |-> ch, after |-> after, end |-> end]) ELSE a.out

LEMMA PostponeFacts ==
  ASSUME NEW a, Typed(a), NEW g \in Pages
  PROVE  LET b == Postpone(a, g)
         IN  /\ Typed(b) /\ Aside(a, b) /\ Grows(a, b)
             /\ b.queries = a.queries /\ b.out = a.out /\ b.inflight = a.inflight
             /\ b.pages = Append(a.pages, g) /\ b.jitter = a.jitter
             /\ b.timer = (a.timer \/ a.up)
<1> DEFINE ps == Append(a.pages, g)
           c == [a EXCEPT !.pages = ps]
           b == Postpone(a, g)
<1>1. ps \in Seq(Pages)
  BY DEF Typed, Accounts
<1>2. c = [a EXCEPT !.pages = Append(@, g)]
  OBVIOUS
<1> HIDE DEF ps
<1>3. /\ c \in Accounts /\ c.pages = ps /\ c.queries = a.queries /\ c.out = a.out
      /\ c.inflight = a.inflight /\ c.timer = a.timer /\ c.jitter = a.jitter /\ Aside(a, c)
  BY <1>1 DEF Typed, Accounts, Aside
<1>4. b = Schedule(c)
  BY <1>2 DEF Postpone
<1> HIDE DEF c
<1>5. Typed(c)
  BY <1>3 DEF Typed, Aside
<1>6. Typed(b) /\ b = [c EXCEPT !.timer = c.timer \/ c.up] /\ b \in Accounts
  BY <1>4, <1>5, ScheduleFacts
<1>7. /\ b.pages = c.pages /\ b.queries = c.queries /\ b.out = c.out /\ b.inflight = c.inflight
      /\ b.jitter = c.jitter /\ b.timer = (c.timer \/ c.up) /\ Aside(c, b)
  BY <1>3, <1>6 DEF Accounts, Aside
<1> HIDE DEF b
<1>8. Aside(a, b) /\ Grows(a, b)
  BY <1>3, <1>7 DEF Aside, Grows
<1>9. c.up = a.up
  BY <1>3 DEF Aside
<1> QED BY <1>3, <1>6, <1>7, <1>8, <1>9 DEF b, ps

LEMMA SendFacts ==
  ASSUME NEW a, Typed(a), NEW id \in Ids, NEW ch \in Chs, NEW after \in Times, NEW end \in Times
  PROVE  LET b == Send(a, id, ch, after, end)
         IN  /\ Typed(b) /\ Aside(a, b) /\ Grows(a, b)
             /\ b.queries = a.queries /\ b.pages = a.pages /\ b.inflight = a.inflight
             /\ b.timer = a.timer /\ b.jitter = a.jitter
             /\ Sent(a, b, id, ch, after, end) /\ Asked1(a, b, id, ch, end)
<1> DEFINE r == [id |-> id, ch |-> ch, after |-> after, end |-> end]
           o == Append(a.out, r)
           c == [a EXCEPT !.out = o]
           b == Send(a, id, ch, after, end)
<1>1. Aside(a, a) /\ Grows(a, a)
  BY DEF Aside, Grows
<1>2. CASE ~(a.up \/ a.sm)
  <2>1. b = a
    BY <1>2 DEF Send
  <2> QED BY <1>1, <1>2, <2>1 DEF Sent, Asked1
<1>3. CASE a.up \/ a.sm
  <2>1. r \in Requests /\ o \in Seq(Requests)
    BY DEF Typed, Accounts, Requests
  <2>2. b = c
    BY <1>3 DEF Send
  <2>3. o = Append(a.out, [id |-> id, ch |-> ch, after |-> after, end |-> end])
    OBVIOUS
  <2> HIDE DEF o
  <2>4. /\ c \in Accounts /\ c.pages = a.pages /\ c.queries = a.queries /\ c.out = o
        /\ c.inflight = a.inflight /\ c.timer = a.timer /\ c.jitter = a.jitter /\ Aside(a, c)
    BY <2>1 DEF Typed, Accounts, Aside
  <2> HIDE DEF c, b
  <2>5. Typed(b) /\ Grows(a, b) /\ Aside(a, b)
    BY <2>2, <2>4 DEF Typed, Aside, Grows
  <2>6. Sent(a, b, id, ch, after, end) /\ Asked1(a, b, id, ch, end)
    BY <1>3, <2>2, <2>3, <2>4 DEF Sent, Asked1
  <2> QED BY <2>2, <2>4, <2>5, <2>6 DEF b
<1> QED BY <1>2, <1>3

-----------------------------------------------------------------------------
(* What a handler leaves of what has been fetched.                         *)

\* A fetch that goes on, with the interval it had, and one that has just begun.
SameFetch(r, q) ==
  r.id = q.id /\ r.ch = q.ch /\ r.start = q.start /\ r.end = q.end /\ (q.stable => r.stable)
GoesOn(a, b, q) ==
  \E r \in a.queries : SameFetch(r, q) /\ (q.ch \in PMs => There(a, q.ch) \subseteq There(b, q.ch))
Begins(b, s, q) ==
  /\ q.ch # Global
  /\ \A i \in DOMAIN b.pages : b.pages[i].id = q.id => b.pages[i].after = 0
  /\ \A i \in DOMAIN b.out : b.out[i].id = q.id => b.out[i].after = q.start
  /\ \A i \in DOMAIN s : IsEnd(s[i]) => s[i].id # q.id

\* What is known of a chat was known before, or has been read to its end.
Minds(a, b) ==
  \A p \in PMs : b.db.ts[p] > 0 =>
    \/ /\ a.db.ts[p] > 0 /\ (p \in a.open => p \in b.open)
       /\ p \in a.db.registered => p \in b.db.registered
    \/ p \in b.db.registered /\ p \in b.open

\* Chats may have been opened, fetched, told or closed; no fetch has got further.
Ahead(a, b, s) ==
  /\ b.db.cursor = a.db.cursor /\ Safe(a) \subseteq Safe(b) /\ Stored(a) \subseteq Stored(b)
  /\ Minds(a, b)
  /\ \A i \in DOMAIN b.pages : (b.pages[i].ch = Global \/ b.pages[i].after # 0) =>
       \E j \in DOMAIN a.pages : a.pages[j] = b.pages[i]
  /\ \A i \in DOMAIN b.out :
       \/ \E j \in DOMAIN a.out : a.out[j] = b.out[i]
       \/ \A q \in b.queries : q.id = b.out[i].id => (q.ch # Global /\ b.out[i].after = q.start)
  /\ \A q \in b.queries : GoesOn(a, b, q) \/ Begins(b, s, q)

\* Chats that are open stay so, and what is known of them is what it was.
Steady(a, b) == \A p \in a.open \intersect PMs : p \in b.open /\ b.last_fetch[p] = a.last_fetch[p]

LEMMA AheadFewer ==
  ASSUME NEW a, NEW b, NEW s, b.db.cursor = a.db.cursor, Safe(a) \subseteq Safe(b),
         Stored(a) \subseteq Stored(b), Minds(a, b),
         \A i \in DOMAIN b.pages : \E j \in DOMAIN a.pages : a.pages[j] = b.pages[i],
         b.out = a.out, b.queries \subseteq a.queries,
         \A p \in PMs : (\E q \in b.queries : q.ch = p) => There(a, p) \subseteq There(b, p)
  PROVE  Ahead(a, b, s)
<1>1. ASSUME NEW q \in b.queries PROVE GoesOn(a, b, q)
  <2>1. q \in a.queries /\ SameFetch(q, q)
    BY DEF SameFetch
  <2> QED BY <2>1 DEF GoesOn
<1> QED BY <1>1 DEF Ahead

\* Only fields that do not matter differ.
LEMMA AheadSame ==
  ASSUME NEW a, NEW b, NEW s, SameFetches(a, b), b.db = a.db, a.open \subseteq b.open,
         a.batch \subseteq b.batch, \A p \in PMs : There(a, p) \subseteq There(b, p)
  PROVE  Ahead(a, b, s)
<1>1. Safe(a) \subseteq Safe(b) /\ Stored(a) \subseteq Stored(b)
  BY DEF Safe, Stored
<1>2. Minds(a, b)
  BY DEF Minds
<1> QED BY <1>1, <1>2, AheadFewer DEF SameFetches

LEMMA MindsTwice ==
  ASSUME NEW a, NEW b, NEW c, Minds(a, b), Minds(b, c)
  PROVE  Minds(a, c)
BY DEF Minds

LEMMA AheadTwice ==
  ASSUME NEW a, NEW b, NEW c, NEW s, Ahead(a, b, s), Ahead(b, c, s)
  PROVE  Ahead(a, c, s)
<1>1. Minds(a, c)
  BY MindsTwice DEF Ahead
<1>2. ASSUME NEW i \in DOMAIN c.pages, c.pages[i].ch = Global \/ c.pages[i].after # 0
      PROVE  \E j \in DOMAIN a.pages : a.pages[j] = c.pages[i]
  BY <1>2 DEF Ahead
<1>3. ASSUME NEW q \in c.queries PROVE GoesOn(a, c, q) \/ Begins(c, s, q)
  <2> SUFFICES ASSUME ~Begins(c, s, q) PROVE GoesOn(a, c, q)
    OBVIOUS
  <2>1. PICK r \in b.queries : SameFetch(r, q) /\ (q.ch \in PMs => There(b, q.ch) \subseteq There(c, q.ch))
    BY DEF Ahead, GoesOn
  <2>2. CASE Begins(b, s, r)
    <3>1. q.ch # Global /\ \A i \in DOMAIN s : IsEnd(s[i]) => s[i].id # q.id
      BY <2>1, <2>2 DEF Begins, SameFetch
    <3>2. ASSUME NEW i \in DOMAIN c.pages, c.pages[i].id = q.id PROVE c.pages[i].after = 0
      BY <2>1, <2>2, <3>2 DEF Ahead, Begins, SameFetch
    <3>3. ASSUME NEW i \in DOMAIN c.out, c.out[i].id = q.id PROVE c.out[i].after = q.start
      BY <2>1, <2>2, <3>3 DEF Ahead, Begins, SameFetch
    <3> QED BY <3>1, <3>2, <3>3 DEF Begins
  <2>3. CASE GoesOn(a, b, r)
    <3>1. PICK o \in a.queries : SameFetch(o, r) /\ (r.ch \in PMs => There(a, r.ch) \subseteq There(b, r.ch))
      BY <2>3 DEF GoesOn
    <3>2. SameFetch(o, q) /\ (q.ch \in PMs => There(a, q.ch) \subseteq There(c, q.ch))
      BY <2>1, <3>1 DEF SameFetch
    <3> QED BY <3>2 DEF GoesOn
  <2> QED BY <2>2, <2>3 DEF Ahead
<1>4. ASSUME NEW i \in DOMAIN c.out
      PROVE  \/ \E j \in DOMAIN a.out : a.out[j] = c.out[i]
             \/ \A q \in c.queries : q.id = c.out[i].id => (q.ch # Global /\ c.out[i].after = q.start)
  <2>1. CASE \A q \in c.queries : q.id = c.out[i].id => (q.ch # Global /\ c.out[i].after = q.start)
    BY <2>1
  <2>2. CASE \E j \in DOMAIN b.out : b.out[j] = c.out[i]
    <3>1. PICK j \in DOMAIN b.out : b.out[j] = c.out[i]
      BY <2>2
    <3>2. CASE \A r \in b.queries : r.id = b.out[j].id => (r.ch # Global /\ b.out[j].after = r.start)
      <4> SUFFICES ASSUME NEW q \in c.queries, q.id = c.out[i].id
                   PROVE  q.ch # Global /\ c.out[i].after = q.start
        OBVIOUS
      <4>1. CASE Begins(c, s, q)
        BY <4>1 DEF Begins
      <4>2. CASE GoesOn(b, c, q)
        BY <3>1, <3>2, <4>2 DEF GoesOn, SameFetch
      <4> QED BY <4>1, <4>2 DEF Ahead
    <3>3. CASE \E k \in DOMAIN a.out : a.out[k] = b.out[j]
      BY <3>1, <3>3
    <3> QED BY <3>2, <3>3 DEF Ahead
  <2> QED BY <2>1, <2>2 DEF Ahead
<1>5. c.db.cursor = a.db.cursor /\ Safe(a) \subseteq Safe(c) /\ Stored(a) \subseteq Stored(c)
  BY DEF Ahead
<1> QED BY <1>1, <1>2, <1>3, <1>4, <1>5 DEF Ahead

-----------------------------------------------------------------------------
(* channel::fetch_mam                                                      *)

\* A query gets a slot and is sent.
AskedBy(a, q, after, n) ==
  Send([a EXCEPT !.inflight = a.inflight + n, !.queries = a.queries \union {q}],
       q.id, q.ch, after, q.end)

LEMMA AskedFacts ==
  ASSUME NEW a, Typed(a), NEW q \in Queries, NEW after \in Times, NEW n \in Nat,
         NEW b, b = AskedBy(a, q, after, n)
  PROVE  /\ Typed(b) /\ Aside(a, b) /\ Grows(a, b)
         /\ b.queries = a.queries \union {q} /\ b.pages = a.pages
         /\ b.inflight = a.inflight + n /\ b.timer = a.timer /\ b.jitter = a.jitter
         /\ Sent(a, b, q.id, q.ch, after, q.end) /\ Asked1(a, b, q.id, q.ch, q.end)
<1> DEFINE k == a.inflight + n
           Q == a.queries \union {q}
           c == [a EXCEPT !.inflight = k, !.queries = Q]
<1>1. k \in Nat /\ Q \in SUBSET Queries /\ IsFiniteSet(Q)
  <2>1. a.inflight \in Nat /\ a.queries \in SUBSET Queries /\ IsFiniteSet(a.queries)
    BY DEF Typed, Accounts
  <2> QED BY <2>1, FS_AddElement
<1>2. q.id \in Ids /\ q.ch \in Chs /\ q.end \in Times
  BY DEF Queries
<1>3. b = Send(c, q.id, q.ch, after, q.end)
  BY DEF AskedBy
<1> HIDE DEF k, Q
<1>4. /\ c \in Accounts /\ c.pages = a.pages /\ c.queries = Q /\ c.out = a.out
      /\ c.inflight = k /\ c.timer = a.timer /\ c.jitter = a.jitter /\ Aside(a, c)
  BY <1>1 DEF Typed, Accounts, Aside
<1> HIDE DEF c
<1>5. Typed(c)
  BY <1>1, <1>4 DEF Typed, Aside
<1>6. /\ Typed(b) /\ Aside(c, b) /\ Grows(c, b)
      /\ b.queries = c.queries /\ b.pages = c.pages /\ b.inflight = c.inflight
      /\ b.timer = c.timer /\ b.jitter = c.jitter
      /\ Sent(c, b, q.id, q.ch, after, q.end) /\ Asked1(c, b, q.id, q.ch, q.end)
  BY <1>2, <1>3, <1>5, SendFacts
<1>7. /\ Aside(a, b) /\ Grows(a, b) /\ Sent(a, b, q.id, q.ch, after, q.end)
      /\ Asked1(a, b, q.id, q.ch, q.end)
  BY <1>4, <1>6 DEF Aside, Grows, Sent, Asked1
<1> QED BY <1>4, <1>6, <1>7 DEF k, Q

\* Before and after it, only fields that do not matter differ.
LEMMA AheadAround ==
  ASSUME NEW a, NEW z, NEW f, NEW b, NEW s, SameFetches(a, z), Ahead(z, f, s), SameFetches(f, b),
         \A p \in PMs : /\ There(a, p) \subseteq There(z, p) /\ There(z, p) = There(f, p)
                        /\ There(f, p) = There(b, p),
         b.db.cursor = a.db.cursor, Safe(b) = Safe(a), Stored(b) = Stored(a), Minds(a, b)
  PROVE  Ahead(a, b, s)
<1>1. ASSUME NEW q \in b.queries PROVE GoesOn(a, b, q) \/ Begins(b, s, q)
  <2>1. q \in f.queries /\ b.pages = f.pages /\ b.out = f.out
    BY DEF SameFetches
  <2>2. CASE Begins(f, s, q)
    BY <2>1, <2>2 DEF Begins
  <2>3. CASE GoesOn(z, f, q)
    <3>1. PICK r \in z.queries : SameFetch(r, q)
      BY <2>3 DEF GoesOn
    <3>2. r \in a.queries
      BY <3>1 DEF SameFetches
    <3>3. q.ch \in PMs => There(a, q.ch) \subseteq There(b, q.ch)
      OBVIOUS
    <3> QED BY <3>1, <3>2, <3>3 DEF GoesOn
  <2> QED BY <2>1, <2>2, <2>3 DEF Ahead
<1>2. /\ b.pages = f.pages /\ b.out = f.out /\ b.queries = f.queries /\ a.pages = z.pages /\ a.out = z.out
  BY DEF SameFetches
<1> QED BY <1>1, <1>2 DEF Ahead

\* A first page waits, or a query is made: nothing has got further.
LEMMA AheadPage ==
  ASSUME NEW a, NEW b, NEW s, Aside(a, b), a.pages \in Seq(Pages), NEW g, g.after = 0, g.ch # Global,
         b.pages = Append(a.pages, g), b.queries = a.queries, b.out = a.out
  PROVE  Ahead(a, b, s)
<1>1. /\ b.db = a.db /\ Minds(a, b) /\ Safe(a) \subseteq Safe(b) /\ Stored(a) \subseteq Stored(b)
      /\ \A p \in PMs : There(a, p) \subseteq There(b, p)
  BY DEF Aside, Minds, Safe, Stored, There, HeldBack
<1>2. ASSUME NEW i \in DOMAIN b.pages, b.pages[i].ch = Global \/ b.pages[i].after # 0
      PROVE  \E j \in DOMAIN a.pages : a.pages[j] = b.pages[i]
  <2>1. i # Len(a.pages) + 1
    BY <1>2
  <2>2. i \in DOMAIN a.pages /\ b.pages[i] = a.pages[i]
    BY <2>1
  <2> QED BY <2>2
<1>3. ASSUME NEW q \in b.queries PROVE GoesOn(a, b, q)
  BY <1>1 DEF GoesOn, SameFetch
<1> QED BY <1>1, <1>2, <1>3 DEF Ahead

LEMMA AheadQuery ==
  ASSUME NEW a, NEW b, NEW s, Aside(a, b), a.out \in Seq(Requests), NEW q, q.ch # Global,
         Unused(q.id, a, s), \A r \in a.queries : r.id # q.id, b.queries = a.queries \union {q},
         b.pages = a.pages, Sent(a, b, q.id, q.ch, q.start, q.end)
  PROVE  Ahead(a, b, s)
<1>1. /\ b.db = a.db /\ Minds(a, b) /\ Safe(a) \subseteq Safe(b) /\ Stored(a) \subseteq Stored(b)
      /\ \A p \in PMs : There(a, p) \subseteq There(b, p)
  BY DEF Aside, Minds, Safe, Stored, There, HeldBack
<1>2. ASSUME NEW i \in DOMAIN b.out
      PROVE  \/ i \in DOMAIN a.out /\ b.out[i] = a.out[i]
             \/ b.out[i].id = q.id /\ b.out[i].after = q.start
  <2>1. CASE b.out = a.out
    BY <2>1
  <2>2. CASE b.out = Append(a.out, [id |-> q.id, ch |-> q.ch, after |-> q.start, end |-> q.end])
    <3>1. CASE i = Len(a.out) + 1
      BY <2>2, <3>1
    <3>2. CASE i # Len(a.out) + 1
      BY <2>2, <3>2
    <3> QED BY <3>1, <3>2
  <2> QED BY <2>1, <2>2 DEF Sent
<1>3. ASSUME NEW i \in DOMAIN b.out
      PROVE  \/ \E j \in DOMAIN a.out : a.out[j] = b.out[i]
             \/ \A r \in b.queries : r.id = b.out[i].id => (r.ch # Global /\ b.out[i].after = r.start)
  BY <1>2
<1>4. ASSUME NEW r \in b.queries PROVE GoesOn(a, b, r) \/ Begins(b, s, r)
  <2>1. CASE r = q
    BY <1>2, <2>1 DEF Begins, Unused
  <2>2. CASE r \in a.queries
    BY <1>1, <2>2 DEF GoesOn, SameFetch
  <2> QED BY <2>1, <2>2
<1> QED BY <1>1, <1>3, <1>4 DEF Ahead

\* channel::fetch_mam, the first page: the chat is fetched, now or when there is a slot.
LEMMA FetchFirst ==
  ASSUME NEW a, NEW s, Typed(a), Linked(a, s), Slots(a), NEW ch \in a.open, HeldBut(a, ch),
         NEW id \in Ids, Unused(id, a, s), \A q \in a.queries : q.id # id,
         NEW start \in Times, NEW end \in Times
  PROVE  LET b == Fetch(a, ch, id, start, end, 0)
         IN  /\ Kept(b, s) /\ Aside(a, b) /\ b.jitter = a.jitter /\ Fetching(b, ch, 0)
             /\ Ahead(a, b, s)
<1> DEFINE b == Fetch(a, ch, id, start, end, 0)
           g == Page(id, ch, start, end, 0, TRUE, FALSE)
           q == Query(id, ch, start, end, TRUE)
<1>1. /\ ch \in Channels /\ ch \in Chs /\ ch # Global /\ 0 \in Times /\ id \in Nat /\ id # 0
      /\ a.queries \subseteq Queries /\ a.pages \in Seq(Pages) /\ a.out \in Seq(Requests)
      /\ IsFiniteSet(a.queries) /\ a.inflight \in Nat
  <2>1. /\ ch \in Channels /\ a.queries \subseteq Queries /\ a.pages \in Seq(Pages)
        /\ a.out \in Seq(Requests) /\ IsFiniteSet(a.queries) /\ a.inflight \in Nat
        /\ archive \in Seq(Channels)
    BY DEF Typed, Accounts
  <2>2. 0 \in Times
    BY <2>1 DEF Times, now
  <2> QED BY <2>1, <2>2, MamConstants DEF Chs, Ids
<1>2. g \in Pages /\ q \in Queries
  BY <1>1 DEF Page, Pages, Query, Queries
<1>3. CASE \E r \in a.queries : r.ch = ch
  <2>1. b = a
    BY <1>3 DEF Fetch
  <2>2. Fetching(a, ch, 0)
    BY <1>1, <1>3 DEF Fetching, Queries, Ids
  <2>3. Held(a)
    BY <2>2, <1>1, MamConstants DEF Held, HeldBut
  <2>4. Ahead(a, a, s)
    BY AheadSame DEF SameFetches
  <2> QED BY <2>1, <2>2, <2>3, <2>4 DEF Kept, Aside
<1>4. CASE ~(\E r \in a.queries : r.ch = ch) /\ a.inflight >= MaxConcurrent
  <2>1. b = Postpone(a, g)
    BY <1>4 DEF Fetch
  <2>2. /\ Typed(b) /\ Aside(a, b) /\ Grows(a, b) /\ b.queries = a.queries /\ b.out = a.out
        /\ b.inflight = a.inflight /\ b.pages = Append(a.pages, g) /\ b.jitter = a.jitter
    BY <1>2, <2>1, PostponeFacts
  <2> HIDE DEF b
  <2>3. g.id = id /\ g.ch = ch /\ g.after = 0 /\ g.end = end /\ ~g.slot_held
    BY DEF Page
  <2> HIDE DEF g
  <2>4. PageFits(g, b)
    BY <1>1, <2>2, <2>3 DEF PageFits, Grows
  <2>5. Linked(b, s)
    <3>1. b.queries \subseteq a.queries /\ a.queries \ b.queries = {}
      BY <2>2
    <3> QED BY <1>1, <2>2, <2>3, <2>4, <3>1, NewPage
  <2>6. Slots(b)
    BY <1>1, <1>2, <2>2, <2>3, SlotsOfPages DEF Slots, SlotsBut
  <2>7. Fetching(b, ch, 0)
    <3>1. g \in Range(b.pages)
      <4>1. Len(a.pages) + 1 \in DOMAIN b.pages /\ b.pages[Len(a.pages) + 1] = g
        BY <1>1, <2>2
      <4> QED BY <4>1 DEF Range
    <3> QED BY <2>3, <3>1 DEF Fetching
  <2>8. \A p : Fetching(a, p, 0) => Fetching(b, p, 0)
    <3>1. Range(a.pages) \subseteq Range(b.pages)
      <4>1. \A i \in DOMAIN a.pages : i \in DOMAIN b.pages /\ b.pages[i] = a.pages[i]
        BY <1>1, <2>2
      <4> QED BY <4>1 DEF Range
    <3> QED BY <2>2, <3>1 DEF Fetching
  <2>9. Held(b)
    BY <2>2, <2>7, <2>8 DEF Held, HeldBut, Aside
  <2>10. Ahead(a, b, s)
    BY <1>1, <2>2, <2>3, AheadPage
  <2> QED BY <2>2, <2>5, <2>6, <2>7, <2>9, <2>10 DEF Kept, b
<1>5. CASE ~(\E r \in a.queries : r.ch = ch) /\ ~(a.inflight >= MaxConcurrent)
  <2>1. q.id = id /\ q.ch = ch /\ q.start = start /\ q.end = end
    BY DEF Query
  <2>2. b = AskedBy(a, q, start, 1)
    <3>1. ~(\E r \in a.queries : r.id = id)
      OBVIOUS
    <3>2. b = Send([a EXCEPT !.inflight = a.inflight + 1, !.queries = a.queries \union {q}],
                   id, ch, start, end)
      BY <1>5, <3>1 DEF Fetch
    <3> QED BY <2>1, <3>2 DEF AskedBy
  <2>3. /\ Typed(b) /\ Aside(a, b) /\ Grows(a, b)
        /\ b.queries = a.queries \union {q} /\ b.pages = a.pages
        /\ b.inflight = a.inflight + 1 /\ b.timer = a.timer /\ b.jitter = a.jitter
        /\ Sent(a, b, q.id, q.ch, start, q.end) /\ Asked1(a, b, q.id, q.ch, q.end)
    <3> HIDE DEF q, b
    <3>1. Typed(a) /\ q \in Queries /\ start \in Times /\ 1 \in Nat /\ b = AskedBy(a, q, start, 1)
      BY <1>2, <2>2
    <3> QED BY ONLY <3>1, AskedFacts
  <2> HIDE DEF b, q
  <2>4. Linked(b, s)
    <3>1. Unused(q.id, a, s) /\ \A r \in a.queries : r.ch # q.ch /\ r.id # q.id
      BY <1>5, <2>1
    <3>2. q.ch # Global /\ q.ch \in b.open
      BY <1>1, <2>1, <2>3 DEF Grows
    <3> QED BY <1>1, <2>3, <3>1, <3>2, NewQuery
  <2>5. Slots(b)
    <3>1. q \notin a.queries
      BY <2>1
    <3>2. Cardinality(b.queries) = Cardinality(a.queries) + 1 /\ Cardinality(a.queries) \in Nat
      BY <1>1, <2>3, <3>1, OneMore, FS_CardinalityType
    <3>3. SlotsHeld(a.pages) \in {0, 1} /\ MaxConcurrent \in Nat
      BY MamConstants DEF SlotsHeld
    <3> QED BY <1>1, <1>5, <2>3, <3>2, <3>3 DEF Slots, SlotsBut
  <2>6. Fetching(b, ch, 0)
    BY <1>1, <2>1, <2>3 DEF Fetching
  <2>7. \A p : Fetching(a, p, 0) => Fetching(b, p, 0)
    BY <2>3 DEF Fetching
  <2>8. Held(b)
    BY <2>3, <2>6, <2>7 DEF Held, HeldBut, Aside
  <2>9. Ahead(a, b, s)
    <3>1. Unused(q.id, a, s) /\ \A r \in a.queries : r.id # q.id
      BY <2>1
    <3>2. /\ Aside(a, b) /\ q.ch # Global /\ b.queries = a.queries \union {q} /\ b.pages = a.pages
          /\ Sent(a, b, q.id, q.ch, q.start, q.end)
      BY <1>1, <2>1, <2>3
    <3> QED BY ONLY <1>1, <3>1, <3>2, AheadQuery
  <2> QED BY <2>3, <2>4, <2>5, <2>6, <2>8, <2>9 DEF Kept, b
<1> QED BY <1>3, <1>4, <1>5

\* What is still to come is some of what has been sent.
Later(s) == s \in Seq(Answers) /\ \A i \in DOMAIN s : \E j \in DOMAIN s2c : s[i] = s2c[j]

LEMMA FreshIsUnused ==
  ASSUME NEW a, NEW s, Typed(a), s2c \in Seq(Answers), Later(s)
  PROVE  /\ FreshId(a) \in Ids /\ Unused(FreshId(a), a, s)
         /\ \A q \in a.queries : q.id # FreshId(a)
<1>1. IsFresh(FreshId(a), a, s2c)
  BY FreshIdFacts
<1>2. \A i \in DOMAIN s : s[i].id # FreshId(a)
  BY <1>1 DEF IsFresh, Later
<1> QED BY <1>1, <1>2 DEF IsFresh, Unused

\* channel::fetch_mam, a page that follows
LEMMA FetchNext ==
  ASSUME NEW a, NEW s, Typed(a), Linked(a, s), Slots(a), Held(a), NEW q \in a.queries,
         Unused(q.id, a, s), NEW start \in Times, NEW after \in Times, after # 0
  PROVE  LET b == Fetch(a, q.ch, q.id, start, q.end, after)
         IN  /\ Kept(b, s) /\ Aside(a, b) /\ b.jitter = a.jitter /\ b.queries = a.queries
             /\ b.pages = a.pages /\ b.timer = a.timer /\ Sent(a, b, q.id, q.ch, after, q.end)
<1> DEFINE c == [a EXCEPT !.inflight = a.inflight, !.queries = a.queries]
           b == Fetch(a, q.ch, q.id, start, q.end, after)
<1>1. a \in Accounts /\ q \in Queries /\ a.out \in Seq(Requests)
  BY DEF Typed, Accounts
<1>2. q.id \in Ids /\ q.ch \in Chs /\ q.end \in Times
  BY <1>1 DEF Queries
<1>3. c = a
  BY <1>1 DEF Accounts
<1>4. b = Send(c, q.id, q.ch, after, q.end)
  BY DEF Fetch
<1> HIDE DEF c
<1>5. b = Send(a, q.id, q.ch, after, q.end)
  BY <1>3, <1>4
<1>6. /\ Typed(b) /\ Aside(a, b) /\ Grows(a, b)
      /\ b.queries = a.queries /\ b.pages = a.pages /\ b.inflight = a.inflight
      /\ b.timer = a.timer /\ b.jitter = a.jitter
      /\ Sent(a, b, q.id, q.ch, after, q.end) /\ Asked1(a, b, q.id, q.ch, q.end)
  BY <1>2, <1>5, SendFacts
<1> HIDE DEF b
<1>7. Linked(b, s)
  BY <1>1, <1>6, NewRequest
<1>8. Slots(b)
  BY <1>6 DEF Slots, SlotsBut
<1>9. Held(b)
  BY <1>6 DEF Held, HeldBut, Fetching, Aside
<1> QED BY <1>6, <1>7, <1>8, <1>9 DEF Kept, b

\* No global query or page is there.
NoGlobal(a) ==
  /\ \A q \in a.queries : q.ch # Global
  /\ \A i \in DOMAIN a.pages : a.pages[i].ch # Global

LEMMA GlobalUnused ==
  ASSUME NEW a, NEW s, Typed(a), Linked(a, s), Later(s), NoGlobal(a)
  PROVE  Unused(0, a, s) /\ SlotsHeld(a.pages) = 0
<1>1. \A i \in DOMAIN a.pages : a.pages[i].id # 0 /\ ~a.pages[i].slot_held
  BY DEF Linked, Paged, PageFits, NoGlobal
<1>2. \A i \in DOMAIN a.out : a.out[i].id # 0
  <2>1. a.out \in Seq(Requests)
    BY DEF Typed, Accounts
  <2> SUFFICES ASSUME NEW i \in DOMAIN a.out PROVE a.out[i].id # 0
    OBVIOUS
  <2>2. a.out[i] \in Requests
    BY <2>1
  <2> QED BY <2>2 DEF Requests, Ids
<1>3. \A i \in DOMAIN s : IsEnd(s[i]) => s[i].id # 0
  <2> SUFFICES ASSUME NEW i \in DOMAIN s, IsEnd(s[i]) PROVE s[i].id # 0
    OBVIOUS
  <2>1. s[i] \in Answers
    BY DEF Later
  <2> QED BY <2>1 DEF Answers, IsEnd, Ids
<1> QED BY <1>1, <1>2, <1>3 DEF Unused, SlotsHeld

LEMMA GlobalWaits ==
  ASSUME NEW a, NEW s, Typed(a), Linked(a, s), Later(s), SlotsBut(a, 0), Held(a),
         NEW g \in Pages, g.ch = Global, g.id = 0, ~g.slot_held, a.probed, NoGlobal(a),
         NEW b, Typed(b), Aside(a, b), b.pages = Append(a.pages, g), b.queries = a.queries,
         b.out = a.out, b.inflight = a.inflight
  PROVE  Kept(b, s)
<1>1. Grows(a, b) /\ b.probed
  BY DEF Aside, Grows
<1>2. a.pages \in Seq(Pages)
  BY DEF Typed, Accounts
<1>3. Unused(g.id, a, s)
  BY GlobalUnused
<1>4. PageFits(g, b)
  BY <1>1 DEF PageFits, NoGlobal
<1>5. Linked(b, s)
  <2>1. b.queries \subseteq a.queries /\ a.queries \ b.queries = {}
    OBVIOUS
  <2> QED BY <1>1, <1>2, <1>3, <1>4, <2>1, NewPage
<1>6. Slots(b)
  <2>1. SlotsHeld(b.pages) = SlotsHeld(a.pages)
    BY <1>2, SlotsOfPages
  <2> QED BY <2>1 DEF Slots, SlotsBut
<1>7. Held(b)
  <2>1. \A i \in DOMAIN a.pages : i \in DOMAIN b.pages /\ b.pages[i] = a.pages[i]
    BY <1>2
  <2>2. Range(a.pages) \subseteq Range(b.pages)
    BY <2>1 DEF Range
  <2>3. \A p : Fetching(a, p, 0) => Fetching(b, p, 0)
    BY <2>2 DEF Fetching
  <2> QED BY <2>3 DEF Held, HeldBut, Aside
<1> QED BY <1>5, <1>6, <1>7 DEF Kept

LEMMA GlobalAsks ==
  ASSUME NEW a, NEW s, Typed(a), Linked(a, s), s2c \in Seq(Answers), Later(s), Held(a),
         NEW g \in Pages, g.ch = Global, a.probed, NoGlobal(a),
         SlotsBut(a, IF g.slot_held THEN 1 ELSE 0), g.slot_held \/ ~(a.inflight >= MaxConcurrent)
  PROVE  LET b == NextGlobalPage(a, g)
             q == Query(FreshId(a), Global, g.start, g.end, g.stable)
         IN  /\ Kept(b, s) /\ Aside(a, b) /\ b.jitter = a.jitter /\ b.timer = a.timer
             /\ b.queries = a.queries \union {q} /\ b.pages = a.pages
             /\ Sent(a, b, FreshId(a), Global, From(g), g.end)
             /\ FreshId(a) \in Ids /\ Unused(FreshId(a), a, s)
             /\ \A r \in a.queries : r.id # FreshId(a)
<1> DEFINE id == FreshId(a)
           q == Query(id, Global, g.start, g.end, g.stable)
           n == IF g.slot_held THEN 0 ELSE 1
           k == IF g.slot_held THEN a.inflight ELSE a.inflight + 1
           b == NextGlobalPage(a, g)
<1>1. id \in Ids /\ Unused(id, a, s) /\ \A r \in a.queries : r.id # id
  BY FreshIsUnused
<1>2. /\ a \in Accounts /\ a.inflight \in Nat /\ a.out \in Seq(Requests) /\ a.pages \in Seq(Pages)
      /\ IsFiniteSet(a.queries)
  BY DEF Typed, Accounts
<1>3. b = Send([a EXCEPT !.inflight = k, !.queries = a.queries \union {q}], id, Global, From(g), g.end)
  BY DEF NextGlobalPage, From
<1>4. k = a.inflight + n /\ n \in Nat
  BY <1>2
<1>5. q \in Queries /\ From(g) \in Times /\ q.id = id /\ q.ch = Global /\ q.end = g.end
  BY <1>1 DEF Query, Queries, Pages, From, Chs
<1> HIDE DEF k, q, id
<1>6. b = AskedBy(a, q, From(g), n)
  BY <1>3, <1>4, <1>5 DEF AskedBy
<1> HIDE DEF n
<1>7. /\ Typed(b) /\ Aside(a, b) /\ Grows(a, b)
      /\ b.queries = a.queries \union {q} /\ b.pages = a.pages
      /\ b.inflight = a.inflight + n /\ b.timer = a.timer /\ b.jitter = a.jitter
      /\ Sent(a, b, q.id, q.ch, From(g), q.end) /\ Asked1(a, b, q.id, q.ch, q.end)
  <2>1. Typed(a) /\ q \in Queries /\ From(g) \in Times /\ n \in Nat /\ b = AskedBy(a, q, From(g), n)
    BY <1>4, <1>5, <1>6
  <2> QED BY ONLY <2>1, AskedFacts
<1> HIDE DEF b
<1>8. Linked(b, s)
  <2>1. Unused(q.id, a, s) /\ \A r \in a.queries : r.ch # q.ch /\ r.id # q.id
    BY <1>1, <1>5 DEF NoGlobal
  <2>2. b.probed /\ \A i \in DOMAIN a.pages : a.pages[i].ch # Global
    BY <1>7 DEF Aside, NoGlobal
  <2>3. /\ a.out \in Seq(Requests) /\ Linked(a, s) /\ b.queries = a.queries \union {q}
        /\ b.pages = a.pages /\ Asked1(a, b, q.id, q.ch, q.end) /\ Grows(a, b) /\ q.ch = Global
    BY <1>2, <1>5, <1>7
  <2> QED BY ONLY <2>1, <2>2, <2>3, NewQuery
<1>9. Slots(b)
  <2>1. q \notin a.queries
    BY <1>1, <1>5
  <2>2. Cardinality(b.queries) = Cardinality(a.queries) + 1 /\ Cardinality(a.queries) \in Nat
    BY <1>2, <1>7, <2>1, OneMore, FS_CardinalityType
  <2>3. SlotsHeld(a.pages) = 0 /\ MaxConcurrent \in Nat
    BY MamConstants, GlobalUnused
  <2> QED BY <1>2, <1>7, <2>2, <2>3 DEF Slots, SlotsBut, n
<1>10. Held(b)
  <2>1. \A p : Fetching(a, p, 0) => Fetching(b, p, 0)
    BY <1>7 DEF Fetching
  <2> QED BY <1>7, <2>1 DEF Held, HeldBut, Aside
<1> QED BY <1>1, <1>5, <1>7, <1>8, <1>9, <1>10 DEF Kept, b, q, id

-----------------------------------------------------------------------------
(* What LMDB has, and chats that are opened.                               *)

\* Only what LMDB has changes.
OnlyDb(a, b) ==
  /\ b.up = a.up /\ b.sm = a.sm /\ b.probed = a.probed /\ b.open = a.open
  /\ b.joining = a.joining /\ b.shown = a.shown /\ b.last_fetch = a.last_fetch
  /\ b.held = a.held /\ b.catchup = a.catchup /\ b.batch = a.batch
  /\ b.timer = a.timer /\ b.jitter = a.jitter /\ SameFetches(a, b)

LEMMA DbChanges ==
  ASSUME NEW a, Typed(a), NEW d \in Dbs, IsFiniteSet(d.registered),
         \A r \in Rooms : d.ts[r] # Closed, NEW b, b = [a EXCEPT !.db = d]
  PROVE  Typed(b) /\ OnlyDb(a, b) /\ b.db = d
<1>1. b \in Accounts /\ OnlyDb(a, b) /\ b.db = d
  BY DEF Typed, Accounts, OnlyDb, SameFetches
<1>2. /\ Typed(a) /\ IsFiniteSet(d.registered) /\ \A r \in Rooms : d.ts[r] # Closed
  OBVIOUS
<1> QED BY ONLY <1>1, <1>2 DEF Typed, OnlyDb, SameFetches

LEMMA OnlyDbKeeps ==
  ASSUME NEW a, NEW b, NEW s, OnlyDb(a, b), Typed(b)
  PROVE  /\ Linked(a, s) => Linked(b, s)
         /\ Slots(a) => Slots(b)
         /\ Held(a) => Held(b)
         /\ \A p, id : Fetching(b, p, id) <=> Fetching(a, p, id)
<1>1. SameFetches(a, b) /\ Grows(a, b) /\ b.held = a.held
  BY DEF OnlyDb, Grows
<1>2. Linked(a, s) => Linked(b, s)
  BY <1>1, SameLinks
<1> QED BY <1>1, <1>2, SameSlots

\* mam_cache_set_last_timestamp
LEMMA SetLastTimestampFacts ==
  ASSUME NEW a, Typed(a), NEW c \in Channels, NEW t \in Times \union {Closed},
         c \in Rooms => t # Closed, NEW b, b = SetLastTimestamp(a, c, t)
  PROVE  /\ Typed(b) /\ OnlyDb(a, b) /\ b.db.ts = [a.db.ts EXCEPT ![c] = t]
         /\ b.db.cache = a.db.cache /\ b.db.cursor = a.db.cursor
         /\ b.db.registered = a.db.registered /\ b.db.wiped = a.db.wiped
<1> DEFINE ts == [a.db.ts EXCEPT ![c] = t]
           d == [a.db EXCEPT !.ts = ts]
<1>1. a.db \in Dbs /\ IsFiniteSet(a.db.registered)
  BY DEF Typed, Accounts
<1>2. ts \in [Channels -> Times \union {Closed}]
  BY <1>1 DEF Dbs
<1>3. b = [a EXCEPT !.db.ts = ts]
  BY DEF SetLastTimestamp
<1> HIDE DEF ts
<1>4. /\ d \in Dbs /\ d.ts = ts /\ d.cache = a.db.cache /\ d.cursor = a.db.cursor
      /\ d.registered = a.db.registered /\ d.wiped = a.db.wiped
  BY <1>1, <1>2 DEF Dbs
<1>5. b = [a EXCEPT !.db = d]
  BY <1>3
<1> HIDE DEF d
<1>6. \A r \in Rooms : d.ts[r] # Closed
  <2>1. \A r \in Rooms : a.db.ts[r] # Closed /\ r \in Channels
    BY DEF Typed, Channels
  <2> QED BY <1>1, <1>4, <2>1 DEF Dbs, ts
<1>7. Typed(b) /\ OnlyDb(a, b) /\ b.db = d
  BY <1>1, <1>4, <1>5, <1>6, DbChanges
<1> QED BY <1>4, <1>7 DEF ts

\* channel::~channel
IsWiped(a, b, p) ==
  /\ b.db.ts = [a.db.ts EXCEPT ![p] = Closed]
  /\ b.db.cache = a.db.cache \ In({p})
  /\ b.db.wiped = a.db.wiped \union (a.db.cache \intersect In({p}))
  /\ b.db.cursor = a.db.cursor /\ b.db.registered = a.db.registered \ {p}

LEMMA DestroyedFacts ==
  ASSUME NEW a, Typed(a), NEW p \in PMs, NEW b, b = Destroyed(a, p)
  PROVE  Typed(b) /\ OnlyDb(a, b) /\ IsWiped(a, b, p)
<1> DEFINE cache == a.db.cache \ In({p})
           wiped == a.db.wiped \union (a.db.cache \intersect In({p}))
           d == [a.db EXCEPT !.cache = cache, !.wiped = wiped]
           c == ClearMessages(a, p)
           e == SetLastTimestamp(c, p, Closed)
           registered == e.db.registered \ {p}
           f == [e.db EXCEPT !.registered = registered]
<1>1. a.db \in Dbs /\ IsFiniteSet(a.db.registered) /\ p \in Channels
  BY DEF Typed, Accounts, Channels
<1>2. cache \in SUBSET Said /\ wiped \in SUBSET Said
  BY <1>1 DEF Dbs
<1>3. c = [a EXCEPT !.db.cache = cache, !.db.wiped = wiped]
  BY DEF ClearMessages
<1>4. b = Unregister(e, p)
  BY DEF Destroyed
<1> HIDE DEF cache, wiped, c
<1>5. /\ d \in Dbs /\ d.ts = a.db.ts /\ d.cache = cache /\ d.cursor = a.db.cursor
      /\ d.registered = a.db.registered /\ d.wiped = wiped
  BY <1>1, <1>2 DEF Dbs
<1>6. c = [a EXCEPT !.db = d]
  BY <1>3
<1> HIDE DEF d, e
<1>7. Typed(c) /\ OnlyDb(a, c) /\ c.db = d
  <2>1. \A r \in Rooms : d.ts[r] # Closed
    BY <1>5 DEF Typed
  <2> QED BY <1>1, <1>5, <1>6, <2>1, DbChanges
<1>8. /\ Typed(e) /\ OnlyDb(c, e) /\ e.db.ts = [c.db.ts EXCEPT ![p] = Closed]
      /\ e.db.cache = c.db.cache /\ e.db.cursor = c.db.cursor
      /\ e.db.registered = c.db.registered /\ e.db.wiped = c.db.wiped
  BY <1>1, <1>7, MamConstants, SetLastTimestampFacts DEF e
<1>9. e.db \in Dbs /\ IsFiniteSet(e.db.registered)
  BY <1>8 DEF Typed, Accounts
<1>10. registered \in SUBSET PMs /\ IsFiniteSet(registered)
  BY <1>9, FS_Subset DEF Dbs
<1>11. b = [e EXCEPT !.db.registered = registered]
  BY <1>4 DEF Unregister
<1> HIDE DEF registered
<1>12. /\ f \in Dbs /\ f.ts = e.db.ts /\ f.cache = e.db.cache /\ f.cursor = e.db.cursor
       /\ f.registered = registered /\ f.wiped = e.db.wiped
  BY <1>9, <1>10 DEF Dbs
<1>13. b = [e EXCEPT !.db = f]
  BY <1>11
<1> HIDE DEF f
<1>14. Typed(b) /\ OnlyDb(e, b) /\ b.db = f
  <2>1. \A r \in Rooms : f.ts[r] # Closed
    BY <1>8, <1>12 DEF Typed
  <2>2. Typed(e) /\ f \in Dbs /\ IsFiniteSet(f.registered) /\ b = [e EXCEPT !.db = f]
    BY <1>8, <1>10, <1>12, <1>13
  <2> QED BY ONLY <2>1, <2>2, DbChanges
<1>15. OnlyDb(a, b)
  BY <1>7, <1>8, <1>14 DEF OnlyDb, SameFetches
<1>16. IsWiped(a, b, p)
  BY <1>5, <1>7, <1>8, <1>12, <1>14 DEF cache, wiped, registered, IsWiped
<1> QED BY <1>14, <1>15, <1>16

\* What a chat that is opened changes of the account.
Opened(a, b, p) ==
  /\ b.up = a.up /\ b.sm = a.sm /\ b.probed = a.probed /\ b.open = a.open \union {p}
  /\ b.joining = a.joining /\ b.held = a.held /\ b.catchup = a.catchup /\ b.batch = a.batch
  /\ b.jitter = a.jitter
  /\ LET last == IF a.db.ts[p] = Closed THEN 0 ELSE a.db.ts[p]
     IN  /\ b.last_fetch = [a.last_fetch EXCEPT ![p] = last]
         /\ b.shown = a.shown \union (IF last = 0 THEN {} ELSE a.db.cache \intersect In({p}))
  /\ b.db.ts = [a.db.ts EXCEPT ![p] = Closed]
  /\ b.db.cache = a.db.cache \ In({p})
  /\ b.db.wiped = a.db.wiped \union (a.db.cache \intersect In({p}))
  /\ b.db.cursor = a.db.cursor /\ b.db.registered = a.db.registered \ {p}

LEMMA OpenKeeps ==
  ASSUME NEW a, NEW s, Kept(a, s), s2c \in Seq(Answers), Later(s), NEW p \in PMs \ a.open
  PROVE  LET b == Open(a, p)
         IN  Kept(b, s) /\ Opened(a, b, p) /\ Fetching(b, p, 0) /\ Ahead(a, b, s)
<1> DEFINE last == IF a.db.ts[p] = Closed THEN 0 ELSE a.db.ts[p]
           open == a.open \union {p}
           lf == [a.last_fetch EXCEPT ![p] = last]
           x == [a EXCEPT !.open = open, !.last_fetch = lf]
           y == SetLastTimestamp(x, p, last)
           shown == y.shown \union (y.db.cache \intersect In({p}))
           l == [y EXCEPT !.shown = shown]
           z == IF last = 0 THEN y ELSE l
           id == FreshId(a)
           f == Fetch(z, p, id, last, now, 0)
           b == Open(a, p)
<1>1. /\ a \in Accounts /\ p \in Channels /\ archive \in Seq(Channels) /\ now \in Times
      /\ a.db \in Dbs /\ p \notin Rooms
  BY MamConstants DEF Kept, Typed, Accounts, Channels, Times, now
<1>2. last \in Times /\ last \in Times \union {Closed}
  BY <1>1 DEF Dbs, Times, now
<1>3. b = Destroyed(f, p)
  BY DEF Open, Constructed, LastTimestamp, LoadMessages
<1>4. open \in SUBSET Channels /\ lf \in [Channels -> Times]
  BY <1>1, <1>2 DEF Accounts
<1> HIDE DEF last, id
<1>5. /\ Typed(x) /\ SameFetches(a, x) /\ x.open = open /\ x.last_fetch = lf /\ x.shown = a.shown
      /\ x.up = a.up /\ x.sm = a.sm /\ x.probed = a.probed /\ x.joining = a.joining
      /\ x.held = a.held /\ x.catchup = a.catchup /\ x.batch = a.batch /\ x.jitter = a.jitter
      /\ x.db = a.db
  <2> HIDE DEF open, lf
  <2>1. /\ x \in Accounts /\ SameFetches(a, x) /\ x.open = open /\ x.last_fetch = lf /\ x.shown = a.shown
        /\ x.up = a.up /\ x.sm = a.sm /\ x.probed = a.probed /\ x.joining = a.joining
        /\ x.held = a.held /\ x.catchup = a.catchup /\ x.batch = a.batch /\ x.jitter = a.jitter
        /\ x.db = a.db /\ x.timer = a.timer
    BY <1>1, <1>4 DEF Accounts, SameFetches
  <2> HIDE DEF x
  <2>2. a.open \subseteq x.open
    BY <2>1 DEF open
  <2> QED BY <2>1, <2>2 DEF Kept, Typed, SameFetches
<1> HIDE DEF x, lf
<1>6. /\ Typed(y) /\ OnlyDb(x, y) /\ y.db.ts = [x.db.ts EXCEPT ![p] = last]
      /\ y.db.cache = x.db.cache /\ y.db.cursor = x.db.cursor
      /\ y.db.registered = x.db.registered /\ y.db.wiped = x.db.wiped
  BY <1>1, <1>2, <1>5, SetLastTimestampFacts
<1> HIDE DEF y
<1>7. shown \in SUBSET Said
  BY <1>6 DEF Typed, Accounts, Dbs
<1>8. /\ Typed(l) /\ SameFetches(y, l) /\ l.shown = shown /\ l.last_fetch = y.last_fetch
      /\ l.up = y.up /\ l.sm = y.sm /\ l.probed = y.probed /\ l.joining = y.joining
      /\ l.held = y.held /\ l.catchup = y.catchup /\ l.batch = y.batch /\ l.jitter = y.jitter
      /\ l.db = y.db /\ l.open = y.open
  <2> HIDE DEF shown
  <2>1. /\ l \in Accounts /\ SameFetches(y, l) /\ l.shown = shown /\ l.last_fetch = y.last_fetch
        /\ l.up = y.up /\ l.sm = y.sm /\ l.probed = y.probed /\ l.joining = y.joining
        /\ l.held = y.held /\ l.catchup = y.catchup /\ l.batch = y.batch /\ l.jitter = y.jitter
        /\ l.db = y.db /\ l.open = y.open /\ l.timer = y.timer
    BY <1>6, <1>7 DEF Typed, Accounts, SameFetches
  <2> HIDE DEF l
  <2>2. Typed(y)
    BY <1>6
  <2>3. Typed(l)
    BY ONLY <2>1, <2>2 DEF Typed, SameFetches
  <2> QED BY ONLY <2>1, <2>3
<1> HIDE DEF l
<1>9. /\ Typed(z) /\ SameFetches(a, z) /\ z.last_fetch = lf
      /\ z.shown = a.shown \union (IF last = 0 THEN {} ELSE a.db.cache \intersect In({p}))
      /\ z.up = a.up /\ z.sm = a.sm /\ z.probed = a.probed /\ z.joining = a.joining
      /\ z.held = a.held /\ z.catchup = a.catchup /\ z.batch = a.batch /\ z.jitter = a.jitter
      /\ z.open = open /\ z.db.ts = [a.db.ts EXCEPT ![p] = last]
      /\ z.db.cache = a.db.cache /\ z.db.cursor = a.db.cursor
      /\ z.db.registered = a.db.registered /\ z.db.wiped = a.db.wiped
  <2>1. CASE last = 0
    <3>1. z = y
      BY <2>1
    <3> HIDE DEF z, shown, open
    <3> QED BY <1>5, <1>6, <2>1, <3>1 DEF OnlyDb, SameFetches
  <2>2. CASE last # 0
    <3>1. z = l
      BY <2>2
    <3>2. shown = a.shown \union (a.db.cache \intersect In({p}))
      BY <1>5, <1>6 DEF OnlyDb
    <3> HIDE DEF z, shown, open
    <3> QED BY <1>5, <1>6, <1>8, <2>2, <3>1, <3>2 DEF OnlyDb, SameFetches
  <2> QED BY <2>1, <2>2
<1> HIDE DEF z, shown, y
<1>10. id \in Ids /\ Unused(id, a, s) /\ \A q \in a.queries : q.id # id
  BY FreshIsUnused DEF id, Kept
<1>11. Linked(z, s) /\ Slots(z) /\ HeldBut(z, p)
  <2>1. Grows(a, z)
    BY <1>9 DEF Grows, open
  <2>2. Linked(z, s)
    BY <1>9, <2>1, SameLinks DEF Kept
  <2>3. Slots(z) /\ (Held(a) => Held(z))
    BY <1>9, SameSlots DEF Kept
  <2> QED BY <2>2, <2>3, MamConstants DEF Kept, Held, HeldBut, Channels
<1>12. Kept(f, s) /\ Aside(z, f) /\ f.jitter = z.jitter /\ Fetching(f, p, 0) /\ Ahead(z, f, s)
  <2>1. Typed(z) /\ Linked(z, s) /\ Slots(z) /\ HeldBut(z, p)
    BY <1>9, <1>11
  <2>2. p \in z.open /\ id \in Ids /\ Unused(id, z, s) /\ \A q \in z.queries : q.id # id
    BY <1>9, <1>10 DEF SameFetches, Unused, open
  <2>3. last \in Times /\ now \in Times
    BY <1>1, <1>2
  <2> QED BY ONLY <2>1, <2>2, <2>3, FetchFirst DEF f
<1> HIDE DEF f
<1>13. Typed(b) /\ OnlyDb(f, b) /\ IsWiped(f, b, p)
  <2>1. Typed(f) /\ p \in PMs
    BY <1>12 DEF Kept
  <2> HIDE DEF b
  <2> QED BY ONLY <1>3, <2>1, DestroyedFacts
<1> HIDE DEF b
<1>14. Kept(b, s) /\ Fetching(b, p, 0)
  BY <1>12, <1>13, OnlyDbKeeps DEF Kept
<1>15. Opened(a, b, p)
  <2>1. /\ b.up = a.up /\ b.sm = a.sm /\ b.probed = a.probed /\ b.open = a.open \union {p}
        /\ b.joining = a.joining /\ b.held = a.held /\ b.catchup = a.catchup /\ b.batch = a.batch
        /\ b.jitter = a.jitter /\ b.last_fetch = lf
        /\ b.shown = a.shown \union (IF last = 0 THEN {} ELSE a.db.cache \intersect In({p}))
    BY <1>9, <1>12, <1>13 DEF OnlyDb, Aside, open
  <2>2. f.db = z.db
    BY <1>12 DEF Aside
  <2>3. b.db.ts = [a.db.ts EXCEPT ![p] = Closed]
    BY <1>1, <1>9, <1>13, <2>2 DEF Dbs, IsWiped
  <2> QED BY <1>9, <1>13, <2>1, <2>2, <2>3 DEF Opened, IsWiped, last, lf
<1>16. Ahead(a, b, s)
  <2>1. b.db.cursor = a.db.cursor /\ Safe(b) = Safe(a) /\ Stored(b) = Stored(a)
    BY <1>15 DEF Opened, Safe, Stored
  <2>2. \A c \in PMs : There(a, c) \subseteq There(z, c) /\ There(z, c) = There(f, c) /\ There(f, c) = There(b, c)
    BY <1>9, <1>12, <1>13 DEF There, HeldBack, Aside, OnlyDb
  <2>3. Minds(a, b)
    BY <1>1, <1>15 DEF Opened, Minds, Dbs, Closed
  <2>4. SameFetches(a, z) /\ SameFetches(f, b) /\ Ahead(z, f, s)
    BY <1>9, <1>12, <1>13 DEF OnlyDb
  <2> QED BY ONLY <2>1, <2>2, <2>3, <2>4, AheadAround
<1> QED BY <1>14, <1>15, <1>16 DEF b

-----------------------------------------------------------------------------
(* Messages.                                                               *)

\* Of an account that is told of a message in a chat, only these change.
Told(a, b, p) ==
  /\ b.up = a.up /\ b.sm = a.sm /\ b.probed = a.probed /\ b.open = a.open
  /\ b.joining = a.joining /\ b.last_fetch = a.last_fetch /\ b.catchup = a.catchup
  /\ b.db = a.db /\ b.timer = a.timer /\ b.jitter = a.jitter /\ SameFetches(a, b)
  /\ a.shown \subseteq b.shown /\ a.batch \subseteq b.batch
  /\ \A c \in PMs : HeldBack(a, c) \subseteq HeldBack(b, c)
  /\ \A c \in PMs \ {p} : b.held[c] = a.held[c]

LEMMA HoldFacts ==
  ASSUME NEW a, Typed(a), NEW p \in PMs, NEW id \in Nat, NEW m \in Said, archive[m] = p,
         NEW b, b = Hold(a, p, id, m)
  PROVE  /\ Typed(b) /\ Told(a, b, p) /\ b.shown = a.shown /\ b.batch = a.batch
         /\ HeldBack(b, p) = HeldBack(a, p) \union {m}
<1> DEFINE h == Append(a.held[p], [id |-> id, m |-> m])
           held == [a.held EXCEPT ![p] = h]
<1>1. a.held \in [PMs -> Seq(HeldMessages)] /\ a.held[p] \in Seq(HeldMessages)
  BY DEF Typed, Accounts
<1>2. h \in Seq(HeldMessages) /\ DOMAIN h = 1..(Len(a.held[p]) + 1)
  BY <1>1 DEF HeldMessages
<1>3. /\ \A i \in DOMAIN a.held[p] : i \in DOMAIN h /\ h[i] = a.held[p][i]
      /\ \A i \in DOMAIN h : \/ i \in DOMAIN a.held[p] /\ h[i] = a.held[p][i]
                             \/ h[i] = [id |-> id, m |-> m]
      /\ Len(a.held[p]) + 1 \in DOMAIN h /\ h[Len(a.held[p]) + 1] = [id |-> id, m |-> m]
  BY <1>1
<1>4. {x.m : x \in Range(h)} = HeldBack(a, p) \union {m}
  <2> HIDE DEF h
  <2>1. ASSUME NEW k, k \in {x.m : x \in Range(h)} PROVE k \in HeldBack(a, p) \union {m}
    BY <1>3, <2>1 DEF HeldBack, Range
  <2>2. ASSUME NEW k \in HeldBack(a, p) PROVE k \in {x.m : x \in Range(h)}
    BY <1>3, <2>2 DEF HeldBack, Range
  <2>3. m \in {x.m : x \in Range(h)}
    <3>1. [id |-> id, m |-> m] \in Range(h) /\ [id |-> id, m |-> m].m = m
      BY <1>3 DEF Range
    <3> QED BY <3>1
  <2> QED BY <2>1, <2>2, <2>3
<1>5. held \in [PMs -> Seq(HeldMessages)] /\ held[p] = h /\ \A c \in PMs \ {p} : held[c] = a.held[c]
  BY <1>1, <1>2
<1>6. b = [a EXCEPT !.held = held]
  BY DEF Hold
<1>7. \A i \in DOMAIN h : archive[h[i].m] = p
  BY <1>3 DEF Typed
<1> HIDE DEF h, held
<1>8. /\ b \in Accounts /\ b.held = held /\ b.shown = a.shown /\ b.batch = a.batch
      /\ b.up = a.up /\ b.sm = a.sm /\ b.probed = a.probed /\ b.open = a.open
      /\ b.joining = a.joining /\ b.last_fetch = a.last_fetch /\ b.catchup = a.catchup
      /\ b.db = a.db /\ b.timer = a.timer /\ b.jitter = a.jitter /\ SameFetches(a, b)
  BY <1>5, <1>6 DEF Typed, Accounts, SameFetches
<1>9. HeldBack(b, p) = HeldBack(a, p) \union {m}
  BY <1>4, <1>5, <1>8 DEF HeldBack
<1>10. \A c \in PMs : HeldBack(a, c) \subseteq HeldBack(b, c)
  <2> SUFFICES ASSUME NEW c \in PMs PROVE HeldBack(a, c) \subseteq HeldBack(b, c)
    OBVIOUS
  <2>1. CASE c = p
    BY <1>9, <2>1
  <2>2. CASE c # p
    BY <1>5, <1>8, <2>2 DEF HeldBack
  <2> QED BY <2>1, <2>2
<1>11. \A c \in PMs : \A i \in DOMAIN b.held[c] : archive[b.held[c][i].m] = c
  BY <1>5, <1>7, <1>8 DEF Typed
<1>12. Typed(b)
  BY <1>8, <1>11 DEF Typed, SameFetches
<1>13. Told(a, b, p)
  BY <1>5, <1>8, <1>10 DEF Told
<1> QED BY <1>8, <1>9, <1>12, <1>13

LEMMA ShowFacts ==
  ASSUME NEW a, Typed(a), NEW m \in Said, NEW p, NEW b, b = Show(a, m)
  PROVE  /\ Typed(b) /\ Told(a, b, p) /\ b.shown = a.shown \union {m} /\ b.batch = a.batch
         /\ b.held = a.held
<1> DEFINE shown == a.shown \union {m}
           c == [a EXCEPT !.shown = shown]
<1>1. shown \in SUBSET Said /\ a \in Accounts /\ b = c
  BY DEF Typed, Accounts, Show
<1> HIDE DEF shown
<1>2. /\ c \in Accounts /\ c.held = a.held /\ c.shown = shown /\ c.batch = a.batch
      /\ c.up = a.up /\ c.sm = a.sm /\ c.probed = a.probed /\ c.open = a.open
      /\ c.joining = a.joining /\ c.last_fetch = a.last_fetch /\ c.catchup = a.catchup
      /\ c.db = a.db /\ c.timer = a.timer /\ c.jitter = a.jitter /\ SameFetches(a, c)
  BY <1>1 DEF Accounts, SameFetches
<1> HIDE DEF c
<1>3. Typed(b)
  BY <1>1, <1>2 DEF Typed, SameFetches
<1> QED BY <1>1, <1>2, <1>3 DEF Told, HeldBack, shown

LEMMA CacheFacts ==
  ASSUME NEW a, Typed(a), NEW m \in Said, NEW p, NEW b, b = CacheMessage(a, m)
  PROVE  /\ Typed(b) /\ Told(a, b, p) /\ b.shown = a.shown /\ b.batch = a.batch \union {m}
         /\ b.held = a.held
<1> DEFINE batch == a.batch \union {m}
           c == [a EXCEPT !.batch = batch]
<1>1. batch \in SUBSET Said /\ a \in Accounts /\ b = c
  BY DEF Typed, Accounts, CacheMessage
<1> HIDE DEF batch
<1>2. /\ c \in Accounts /\ c.held = a.held /\ c.shown = a.shown /\ c.batch = batch
      /\ c.up = a.up /\ c.sm = a.sm /\ c.probed = a.probed /\ c.open = a.open
      /\ c.joining = a.joining /\ c.last_fetch = a.last_fetch /\ c.catchup = a.catchup
      /\ c.db = a.db /\ c.timer = a.timer /\ c.jitter = a.jitter /\ SameFetches(a, c)
  BY <1>1 DEF Accounts, SameFetches
<1> HIDE DEF c
<1>3. Typed(b)
  BY <1>1, <1>2 DEF Typed, SameFetches
<1> QED BY <1>1, <1>2, <1>3 DEF Told, HeldBack, batch

LEMMA ToldTwice ==
  ASSUME NEW a, NEW b, NEW c, NEW p, Told(a, b, p), Told(b, c, p)
  PROVE  Told(a, c, p)
BY DEF Told, SameFetches

\* What was linked and had slots is so still; and what is held back waits.
LEMMA ToldKeeps ==
  ASSUME NEW a, NEW b, NEW s, NEW p, Typed(b), Told(a, b, p), Kept(a, s),
         p \in PMs => (b.held[p] = a.held[p] \/ Fetching(a, p, 0))
  PROVE  Kept(b, s)
<1>1. SameFetches(a, b) /\ Grows(a, b)
  BY DEF Told, Grows
<1>2. Linked(b, s) /\ Slots(b)
  BY <1>1, SameLinks, SameSlots DEF Kept
<1>3. \A c : Fetching(b, c, 0) <=> Fetching(a, c, 0)
  BY <1>1, SameSlots
<1>4. Held(b)
  <2> SUFFICES ASSUME NEW c \in PMs \ {Global}, b.held[c] # <<>> PROVE Fetching(b, c, 0)
    BY DEF Held, HeldBut
  <2>1. CASE c = p
    BY <1>3, <2>1 DEF Kept, Held, HeldBut
  <2>2. CASE c # p
    BY <1>3, <2>2 DEF Kept, Held, HeldBut, Told
  <2> QED BY <2>1, <2>2
<1> QED BY <1>2, <1>4 DEF Kept

LEMMA FetchingAny ==
  ASSUME NEW a, Typed(a), NEW p, NEW id, Fetching(a, p, id)
  PROVE  Fetching(a, p, 0)
<1>1. a.queries \subseteq Queries
  BY DEF Typed, Accounts
<1>2. \A q \in a.queries : q.id # 0
  BY <1>1 DEF Queries, Ids
<1> QED BY <1>2 DEF Fetching

\* message_handler for a live message, once the chat is there
LEMMA ToldLive ==
  ASSUME NEW a, Typed(a), NEW m \in Said, NEW p, p = archive[m], NEW b,
         b = IF p \in PMs /\ Fetching(a, p, 0) THEN Hold(a, p, 0, m) ELSE Show(a, m)
  PROVE  /\ Typed(b) /\ Told(a, b, p) /\ b.batch = a.batch
         /\ p \in PMs => b.held[p] = a.held[p] \/ Fetching(a, p, 0)
         /\ m \in b.shown \/ (p \in PMs /\ m \in HeldBack(b, p))
         /\ b.shown \subseteq a.shown \union {m}
         /\ (p \in PMs /\ Fetching(a, p, 0)) => b.shown = a.shown
<1>1. CASE p \in PMs /\ Fetching(a, p, 0)
  <2>1. b = Hold(a, p, 0, m) /\ 0 \in Nat /\ p \in PMs /\ archive[m] = p /\ Typed(a) /\ m \in Said
    BY <1>1
  <2>2. /\ Typed(b) /\ Told(a, b, p) /\ b.shown = a.shown /\ b.batch = a.batch
        /\ HeldBack(b, p) = HeldBack(a, p) \union {m}
    BY ONLY <2>1, HoldFacts
  <2> QED BY <1>1, <2>2
<1>2. CASE ~(p \in PMs /\ Fetching(a, p, 0))
  <2>1. b = Show(a, m) /\ Typed(a) /\ m \in Said
    BY <1>2
  <2>2. /\ Typed(b) /\ Told(a, b, p) /\ b.shown = a.shown \union {m} /\ b.batch = a.batch
        /\ b.held = a.held
    BY ONLY <2>1, ShowFacts
  <2> QED BY <1>2, <2>2
<1> QED BY <1>1, <1>2

\* message_handler for an archived message, once the chat is there
ToldResultBy(a, b, id, m) ==
  LET p == archive[m]
      c == CacheMessage(a, m)
  IN  b = IF p \in PMs /\ Fetching(c, p, id) THEN Hold(c, p, id, m)
          ELSE IF m \in c.shown /\ p \in c.open THEN c ELSE Show(c, m)

LEMMA ToldResult ==
  ASSUME NEW a, Typed(a), NEW m \in Said, NEW p, p = archive[m], NEW id \in Nat, NEW b,
         ToldResultBy(a, b, id, m)
  PROVE  /\ Typed(b) /\ Told(a, b, p) /\ b.batch = a.batch \union {m}
         /\ p \in PMs => b.held[p] = a.held[p] \/ Fetching(a, p, 0)
         /\ m \in b.shown \/ (p \in PMs /\ m \in HeldBack(b, p))
         /\ b.shown \subseteq a.shown \union {m}
         /\ (p \in PMs /\ Fetching(a, p, id)) => b.shown = a.shown
<1> DEFINE c == CacheMessage(a, m)
<1>1. /\ Typed(c) /\ Told(a, c, p) /\ c.shown = a.shown /\ c.batch = a.batch \union {m}
      /\ c.held = a.held
  <2>1. Typed(a) /\ m \in Said /\ c = CacheMessage(a, m)
    OBVIOUS
  <2> HIDE DEF c
  <2> QED BY ONLY <2>1, CacheFacts
<1>2. b = IF p \in PMs /\ Fetching(c, p, id) THEN Hold(c, p, id, m)
          ELSE IF m \in c.shown /\ p \in c.open THEN c ELSE Show(c, m)
  BY DEF ToldResultBy
<1> HIDE DEF c
<1>3. \A i : Fetching(c, p, i) <=> Fetching(a, p, i)
  BY <1>1, SameSlots DEF Told
<1>4. CASE p \in PMs /\ Fetching(c, p, id)
  <2>1. b = Hold(c, p, id, m) /\ id \in Nat /\ p \in PMs /\ archive[m] = p /\ Typed(c) /\ m \in Said
    BY <1>1, <1>2, <1>4
  <2>2. /\ Typed(b) /\ Told(c, b, p) /\ b.shown = c.shown /\ b.batch = c.batch
        /\ HeldBack(b, p) = HeldBack(c, p) \union {m}
    BY ONLY <2>1, HoldFacts
  <2>3. Told(a, b, p)
    BY <1>1, <2>2, ToldTwice
  <2>4. Fetching(a, p, 0)
    BY <1>3, <1>4, FetchingAny
  <2> QED BY <1>1, <1>4, <2>2, <2>3, <2>4
<1>5. CASE ~(p \in PMs /\ Fetching(c, p, id)) /\ m \in c.shown /\ p \in c.open
  <2>1. b = c
    BY <1>2, <1>5
  <2> QED BY <1>1, <1>3, <1>5, <2>1
<1>6. CASE ~(p \in PMs /\ Fetching(c, p, id)) /\ ~(m \in c.shown /\ p \in c.open)
  <2>1. b = Show(c, m) /\ Typed(c) /\ m \in Said
    BY <1>1, <1>2, <1>6
  <2>2. /\ Typed(b) /\ Told(c, b, p) /\ b.shown = c.shown \union {m} /\ b.batch = c.batch
        /\ b.held = c.held
    BY ONLY <2>1, ShowFacts
  <2>3. Told(a, b, p)
    BY <1>1, <2>2, ToldTwice
  <2> QED BY <1>1, <1>3, <1>6, <2>2, <2>3
<1> QED BY <1>4, <1>5, <1>6

LEMMA ToldAhead ==
  ASSUME NEW a, NEW b, NEW p, NEW s, Told(a, b, p)
  PROVE  Ahead(a, b, s) /\ Steady(a, b)
<1>1. \A c \in PMs : There(a, c) \subseteq There(b, c)
  BY DEF Told, There
<1> QED BY <1>1, AheadSame DEF Told, Steady

\* What is underway in a chat that is not held up is the fetch that brings the message.
LEMMA NothingElse ==
  ASSUME NEW a, NEW s, Kept(a, s), NEW p \in PMs, NEW id, ~Fetching(a, p, id), NEW x \in Underway(a, p)
  PROVE  x.id = id
<1>1. CASE x \in a.queries /\ x.ch = p
  BY <1>1 DEF Fetching
<1>2. CASE x \in Range(a.pages) /\ x.ch = p
  <2>1. x.after # 0
    BY <1>2 DEF Fetching
  <2>2. PICK i \in DOMAIN a.pages : x = a.pages[i]
    BY <1>2 DEF Range
  <2>3. PICK q \in a.queries : q.id = x.id /\ q.ch = p
    BY <1>2, <2>1, <2>2, MamConstants DEF Kept, Linked, Paged, PageFits, Channels
  <2> QED BY <2>3 DEF Fetching
<1> QED BY <1>1, <1>2 DEF Underway

\* A chat that is opened while all that are known are open has nothing in the cache to load.
LEMMA OpensEmpty ==
  ASSUME NEW a, NEW o, NEW p \in PMs \ a.open, Typed(a), Attended(a), Opened(a, o, p)
  PROVE  o.shown = a.shown
<1>1. a.db.ts[p] \in Times \union {Closed} /\ ~(a.db.ts[p] > 0)
  BY DEF Typed, Accounts, Dbs, Channels, Attended
<1>2. (IF a.db.ts[p] = Closed THEN 0 ELSE a.db.ts[p]) = 0
  BY <1>1 DEF Times
<1> QED BY <1>2 DEF Opened

LEMMA OpenSteady ==
  ASSUME NEW a, NEW o, NEW p \in PMs \ a.open, Typed(a), Opened(a, o, p)
  PROVE  Steady(a, o)
BY DEF Typed, Accounts, Opened, Steady, Channels

LEMMA SteadyTwice ==
  ASSUME NEW a, NEW b, NEW c, Steady(a, b), Steady(b, c)
  PROVE  Steady(a, c)
BY DEF Steady

\* NothingOvertakes, of one handler
Overtakes(a, b, id) ==
  \E m \in In(PMs) \intersect (b.shown \ a.shown) : \E x \in Underway(b, archive[m]) :
    (archive[m] \in a.open \/ a.db.ts[archive[m]] # Closed) /\ x.id # id

LEMMA LiveKeeps ==
  ASSUME NEW a, NEW s, Kept(a, s), s2c \in Seq(Answers), Later(s), NEW m \in Said
  PROVE  LET b == Live(a, m)
         IN  /\ Kept(b, s) /\ Ahead(a, b, s) /\ Steady(a, b)
             /\ Attended(a) => ~Overtakes(a, b, 0)
<1> DEFINE p == archive[m]
           o == IF p \in a.open \/ p \in Rooms THEN a ELSE Open(a, p)
           b == Live(a, m)
<1>1. p \in Channels
  BY DEF Kept, Typed, Said, now
<1>2. b = IF p \in PMs /\ Fetching(o, p, 0) THEN Hold(o, p, 0, m) ELSE Show(o, m)
  BY DEF Live
<1>3. /\ Kept(o, s) /\ Ahead(a, o, s) /\ Steady(a, o) /\ (Attended(a) => o.shown = a.shown)
      /\ (p \in PMs \ a.open) => Fetching(o, p, 0)
  <2>1. CASE p \in a.open \/ p \in Rooms
    <3>1. o = a
      BY <2>1
    <3>2. p \notin PMs \ a.open
      BY <2>1, MamConstants
    <3>3. Ahead(a, a, s)
      BY AheadSame DEF SameFetches
    <3> HIDE DEF o
    <3> QED BY <3>1, <3>2, <3>3 DEF Steady
  <2>2. CASE ~(p \in a.open \/ p \in Rooms)
    <3>1. p \in PMs \ a.open /\ o = Open(a, p)
      BY <1>1, <2>2 DEF Channels
    <3> HIDE DEF p, o
    <3>2. Kept(o, s) /\ Opened(a, o, p) /\ Fetching(o, p, 0) /\ Ahead(a, o, s)
      BY <3>1, OpenKeeps
    <3>3. Attended(a) => o.shown = a.shown
      BY <3>1, <3>2, OpensEmpty DEF Kept
    <3>4. Steady(a, o)
      BY <3>1, <3>2, OpenSteady DEF Kept
    <3> QED BY <3>2, <3>3, <3>4
  <2> QED BY <2>1, <2>2
<1> HIDE DEF o, b
<1>4. Typed(o)
  BY <1>3 DEF Kept
<1>5. p = archive[m]
  OBVIOUS
<1> HIDE DEF p
<1>6. /\ Typed(b) /\ Told(o, b, p)
      /\ p \in PMs => b.held[p] = o.held[p] \/ Fetching(o, p, 0)
      /\ b.shown \subseteq o.shown \union {m}
      /\ (p \in PMs /\ Fetching(o, p, 0)) => b.shown = o.shown
  BY ONLY <1>2, <1>4, <1>5, m \in Said, ToldLive
<1>7. Kept(b, s)
  BY <1>3, <1>6, ToldKeeps
<1>8. Ahead(a, b, s) /\ Steady(a, b)
  <2>1. Ahead(o, b, s) /\ Steady(o, b)
    BY <1>6, ToldAhead
  <2> QED BY <1>3, <2>1, AheadTwice, SteadyTwice
<1>9. ASSUME Attended(a) PROVE ~Overtakes(a, b, 0)
  <2> SUFFICES ASSUME NEW k \in In(PMs), k \in b.shown \ a.shown, NEW x \in Underway(b, archive[k])
               PROVE  x.id = 0
    BY DEF Overtakes
  <2>1. k = m /\ archive[k] = p /\ p \in PMs /\ ~Fetching(o, p, 0)
    BY <1>3, <1>5, <1>6, <1>9 DEF In
  <2>2. x \in Underway(o, p)
    BY <1>6, <2>1 DEF Underway, Told, SameFetches
  <2> QED BY <1>3, <2>1, <2>2, NothingElse
<1> QED BY <1>7, <1>8, <1>9 DEF b

\* ... and for an archived one
LEMMA ResultOpens ==
  ASSUME NEW a, NEW s, Kept(a, s), s2c \in Seq(Answers), Later(s), NEW m \in Said, NEW id \in Ids
  PROVE  \E o : /\ o = a \/ (archive[m] \in PMs \ a.open /\ o = Open(a, archive[m])
                             /\ a.db.ts[archive[m]] # Closed)
                /\ Kept(o, s)
                /\ \/ ToldResultBy(o, Result(a, id, m), id, m)
                   \/ /\ archive[m] \in PMs \ a.open /\ a.db.ts[archive[m]] = Closed /\ o = a
                      /\ Result(a, id, m) = Show(Open(CacheMessage(a, m), archive[m]), m)
<1> DEFINE p == archive[m]
           o == IF p \in PMs \ a.open /\ LastTimestamp(a, p) # Closed THEN Open(a, p) ELSE a
           c == CacheMessage(o, m)
           n == Show(IF p \in c.open \/ p \in Rooms THEN c ELSE Open(c, p), m)
           b == Result(a, id, m)
<1>1. p \in Channels
  BY DEF Kept, Typed, Said, now
<1>2. b = IF p \in PMs /\ Fetching(c, p, id) THEN Hold(c, p, id, m)
          ELSE IF m \in c.shown /\ p \in c.open THEN c ELSE n
  BY DEF Result
<1>3. CASE p \in PMs \ a.open /\ a.db.ts[p] # Closed
  <2>1. o = Open(a, p)
    BY <1>3 DEF LastTimestamp
  <2>2. Kept(o, s) /\ Opened(a, o, p)
    <3>1. p \in PMs \ a.open
      BY <1>3
    <3> HIDE DEF p, o
    <3> QED BY <2>1, <3>1, OpenKeeps
  <2>3. Typed(o) /\ p \in o.open
    BY <2>2 DEF Kept, Opened
  <2> HIDE DEF o, b, p
  <2>4. c.open = o.open
    <3> HIDE DEF c
    <3>1. c = CacheMessage(o, m)
      BY DEF c
    <3>2. Told(o, c, p)
      BY ONLY <2>3, <3>1, m \in Said, CacheFacts
    <3> QED BY <3>2 DEF Told
  <2>5. n = Show(c, m)
    BY <2>3, <2>4
  <2> HIDE DEF c, n
  <2>6. b = IF p \in PMs /\ Fetching(c, p, id) THEN Hold(c, p, id, m)
            ELSE IF m \in c.shown /\ p \in c.open THEN c ELSE Show(c, m)
    BY <1>2, <2>5
  <2>7. ToldResultBy(o, b, id, m)
    BY <2>6 DEF ToldResultBy, c, p
  <2> QED BY <1>3, <2>1, <2>2, <2>7 DEF b, p
<1>4. CASE ~(p \in PMs \ a.open /\ a.db.ts[p] # Closed)
  <2>1. o = a
    BY <1>4 DEF LastTimestamp
  <2>2. Typed(a)
    BY DEF Kept
  <2> HIDE DEF o, b
  <2>3. c.open = a.open /\ SameFetches(a, c)
    <3> HIDE DEF c
    <3>1. c = CacheMessage(a, m)
      BY <2>1 DEF c
    <3>2. Told(a, c, p)
      BY ONLY <2>2, <3>1, m \in Said, CacheFacts
    <3> QED BY <3>2 DEF Told
  <2>4. CASE p \in a.open \/ p \in Rooms
    <3>1. n = Show(c, m)
      BY <2>3, <2>4
    <3> HIDE DEF c, n, p
    <3>2. b = IF p \in PMs /\ Fetching(c, p, id) THEN Hold(c, p, id, m)
              ELSE IF m \in c.shown /\ p \in c.open THEN c ELSE Show(c, m)
      BY <1>2, <3>1
    <3>3. ToldResultBy(a, b, id, m)
      BY <2>1, <3>2 DEF ToldResultBy, c, p
    <3> QED BY <3>3 DEF b
  <2>5. CASE ~(p \in a.open \/ p \in Rooms)
    <3>1. p \in PMs \ a.open /\ a.db.ts[p] = Closed
      BY <1>1, <1>4, <2>5 DEF Channels
    <3>2. n = Show(Open(c, p), m)
      BY <2>3, <2>5
    <3>3. ~Fetching(c, p, id)
      <4>1. \A q \in a.queries : q.ch # p
        BY <3>1, MamConstants DEF Kept, Linked, Asking, Channels
      <4>2. \A i \in DOMAIN a.pages : a.pages[i].ch # p
        BY <3>1, MamConstants DEF Kept, Linked, Paged, PageFits, Channels
      <4> HIDE DEF c
      <4> QED BY <2>3, <4>1, <4>2 DEF SameFetches, Fetching, Range
    <3> HIDE DEF c, n, p
    <3>4. b = Show(Open(c, p), m)
      BY <1>2, <2>3, <2>5, <3>2, <3>3
    <3> QED BY <2>1, <3>1, <3>4 DEF b, p, c
  <2> QED BY <2>4, <2>5
<1> QED BY <1>3, <1>4

LEMMA ResultKeeps ==
  ASSUME NEW a, NEW s, Kept(a, s), s2c \in Seq(Answers), Later(s), NEW m \in Said, NEW id \in Ids
  PROVE  LET b == Result(a, id, m)
         IN  /\ Kept(b, s) /\ Ahead(a, b, s) /\ Steady(a, b) /\ m \in b.batch
             /\ archive[m] \in PMs => m \in There(b, archive[m])
             /\ Attended(a) => ~Overtakes(a, b, id)
<1> DEFINE b == Result(a, id, m)
           p == archive[m]
<1>1. PICK o : /\ o = a \/ (p \in PMs \ a.open /\ o = Open(a, p))
               /\ Kept(o, s)
               /\ \/ ToldResultBy(o, b, id, m)
                  \/ /\ p \in PMs \ a.open /\ a.db.ts[p] = Closed
                     /\ b = Show(Open(CacheMessage(a, m), p), m)
  <2> HIDE DEF b
  <2> QED BY ResultOpens DEF b
<1> HIDE DEF b
<1>2. Typed(a) /\ m \in Said /\ p = archive[m]
  BY DEF Kept
<1>3. CASE ToldResultBy(o, b, id, m)
  <2>1. Typed(o) /\ p = archive[m] /\ id \in Nat /\ m \in Said /\ ToldResultBy(o, b, id, m)
    BY <1>1, <1>3 DEF Kept, Ids
  <2> HIDE DEF p
  <2>2. /\ Typed(b) /\ Told(o, b, p) /\ b.batch = o.batch \union {m}
        /\ p \in PMs => b.held[p] = o.held[p] \/ Fetching(o, p, 0)
        /\ m \in b.shown \/ (p \in PMs /\ m \in HeldBack(b, p))
        /\ b.shown \subseteq o.shown \union {m}
        /\ (p \in PMs /\ Fetching(o, p, id)) => b.shown = o.shown
    BY ONLY <2>1, ToldResult
  <2>3. Kept(b, s)
    BY <1>1, <2>2, ToldKeeps
  <2>4. Ahead(a, o, s) /\ Steady(a, o) /\ (Attended(a) => o.shown = a.shown)
    <3>1. CASE o = a
      BY <3>1, AheadSame DEF SameFetches, Steady
    <3>2. CASE p \in PMs \ a.open /\ o = Open(a, p)
      <4>1. Kept(o, s) /\ Opened(a, o, p) /\ Fetching(o, p, 0) /\ Ahead(a, o, s)
        BY <3>2, OpenKeeps
      <4> QED BY <1>2, <3>2, <4>1, OpensEmpty, OpenSteady
    <3> QED BY <1>1, <3>1, <3>2
  <2>5. Ahead(a, b, s) /\ Steady(a, b)
    <3>1. Ahead(o, b, s) /\ Steady(o, b)
      BY <2>2, ToldAhead
    <3> QED BY <2>4, <3>1, AheadTwice, SteadyTwice
  <2>6. ASSUME Attended(a) PROVE ~Overtakes(a, b, id)
    <3> SUFFICES ASSUME NEW k \in In(PMs), k \in b.shown \ a.shown, NEW x \in Underway(b, archive[k])
                 PROVE  x.id = id
      BY DEF Overtakes
    <3>1. k = m /\ archive[k] = p /\ p \in PMs /\ ~Fetching(o, p, id)
      BY <1>2, <2>2, <2>4, <2>6 DEF In
    <3>2. x \in Underway(o, p)
      BY <2>2, <3>1 DEF Underway, Told, SameFetches
    <3> QED BY <1>1, <3>1, <3>2, NothingElse
  <2> QED BY <2>2, <2>3, <2>5, <2>6, <1>2 DEF b, There
<1>4. CASE p \in PMs \ a.open /\ a.db.ts[p] = Closed /\ b = Show(Open(CacheMessage(a, m), p), m)
  <2> DEFINE c == CacheMessage(a, m)
             o1 == Open(c, p)
  <2>1. Typed(a) /\ m \in Said /\ c = CacheMessage(a, m)
    BY DEF Kept
  <2>2. b = Show(o1, m) /\ p \in PMs \ a.open
    BY <1>4
  <2> HIDE DEF c, p
  <2>3. Typed(c) /\ Told(a, c, p) /\ c.held = a.held /\ c.batch = a.batch \union {m} /\ c.shown = a.shown
    BY ONLY <2>1, CacheFacts
  <2>4. Kept(c, s) /\ p \in PMs \ c.open
    <3>1. c.open = a.open
      BY <2>3 DEF Told
    <3>2. Kept(c, s)
      BY <2>3, ToldKeeps
    <3> QED BY <2>2, <3>1, <3>2
  <2>5. Kept(o1, s) /\ Opened(c, o1, p) /\ Ahead(c, o1, s)
    BY <2>4, OpenKeeps
  <2> HIDE DEF o1
  <2>6. Typed(o1) /\ m \in Said /\ b = Show(o1, m)
    BY <2>2, <2>5 DEF Kept
  <2>7. /\ Typed(b) /\ Told(o1, b, p) /\ b.held = o1.held /\ b.shown = o1.shown \union {m}
        /\ b.batch = o1.batch
    BY ONLY <2>6, ShowFacts
  <2>8. Kept(b, s)
    BY <2>5, <2>7, ToldKeeps
  <2>9. Ahead(a, b, s) /\ Steady(a, b)
    <3>1. Ahead(a, c, s) /\ Steady(a, c) /\ Ahead(o1, b, s) /\ Steady(o1, b)
      BY <2>3, <2>7, ToldAhead
    <3>2. Steady(c, o1)
      BY <2>3, <2>4, <2>5, OpenSteady
    <3>3. Ahead(a, o1, s) /\ Steady(a, o1)
      BY <2>5, <3>1, <3>2, AheadTwice, SteadyTwice
    <3> QED BY <3>1, <3>3, AheadTwice, SteadyTwice
  <2>10. m \in b.batch /\ m \in b.shown
    BY <2>3, <2>5, <2>7 DEF Opened
  <2>11. ~Overtakes(a, b, id)
    <3> SUFFICES ASSUME NEW k \in In(PMs), k \in b.shown \ a.shown
                 PROVE  ~(archive[k] \in a.open \/ a.db.ts[archive[k]] # Closed)
      BY DEF Overtakes
    <3>1. k = m \/ k \in In({p})
      BY <2>3, <2>5, <2>7 DEF Opened
    <3>2. archive[k] = p
      BY <1>2, <3>1 DEF In
    <3> QED BY <1>4, <2>2, <3>2 DEF p
  <2> QED BY <2>8, <2>9, <2>10, <2>11 DEF b, There
<1> QED BY <1>1, <1>3, <1>4

-----------------------------------------------------------------------------
(* What was held back is handled again.                                    *)

Replay(base, h) == FoldLeft(Again, base, h)

LEMMA FoldAgain ==
  ASSUME NEW A, NEW base \in A, NEW h \in Seq(HeldMessages),
         \A b \in A : \A i \in DOMAIN h : Again(b, h[i]) \in A
  PROVE  \E g \in [0..Len(h) -> A] :
           /\ g[0] = base /\ \A i \in 1..Len(h) : g[i] = Again(g[i - 1], h[i])
           /\ Replay(base, h) = g[Len(h)]
<1> DEFINE n == Len(h)
           S == 1..n
           pick == [s \in SUBSET S |-> Max(s)]
           step == [p \in S \X A |-> Again(p[2], h[p[1]])]
<1>1. n \in Nat /\ DOMAIN h = 1..n /\ IsFiniteSet(1..n)
  BY FS_Interval
<1>2. Picks(pick, S)
  <2> HIDE DEF n
  <2> QED BY <1>1, MaxIsMember DEF Picks
<1>3. ASSUME NEW b \in A, NEW i \in S PROVE Again(b, h[i]) \in A
  BY <1>1
<1>4. step \in [S \X A -> A]
  BY <1>3
<1>5. PICK f \in [SUBSET S -> A] : Recurs(f, S, base, step, pick)
  <2> HIDE DEF pick, step, S
  <2> QED BY <1>1, <1>2, <1>4, FoldExists DEF S
<1> DEFINE Is(it) == it = [s \in SUBSET S |-> IF s = {} THEN base
                            ELSE Again(it[s \ {Max(s)}], h[Max(s)])]
           iter == CHOOSE it : Is(it)
<1>6. Is(f)
  <2>1. ASSUME NEW s \in SUBSET S
        PROVE  f[s] = IF s = {} THEN base ELSE Again(f[s \ {Max(s)}], h[Max(s)])
    <3>1. f[s] = IF s = {} THEN base ELSE step[pick[s], f[s \ {pick[s]}]]
      BY <1>5 DEF Recurs
    <3>2. s # {} => (Max(s) \in S /\ pick[s] = Max(s) /\ f[s \ {Max(s)}] \in A)
      BY <1>2, <1>5 DEF Picks
    <3> QED BY <3>1, <3>2
  <2> HIDE DEF S
  <2> QED BY <2>1, <1>5
<1>7. Is(iter)
  <2> HIDE DEF Is
  <2> QED BY <1>6
<1> HIDE DEF iter
<1>8. iter[{}] = base
  BY <1>7
<1> DEFINE T == {i \in Nat : i <= n => iter[1..i] \in A}
<1>9. 0 \in T
  <2>1. 1..0 = {}
    OBVIOUS
  <2> QED BY <1>8, <2>1
<1>10. ASSUME NEW i \in 1..n PROVE iter[1..i] = Again(iter[1..(i - 1)], h[i])
  <2> HIDE DEF n
  <2>1. 1..i \in SUBSET (1..n) /\ 1..i # {} /\ Max(1..i) = i /\ (1..i) \ {i} = 1..(i - 1)
    BY <1>1, InitialSegments
  <2> QED BY <1>7, <2>1
<1>11. ASSUME NEW i \in Nat, i \in T PROVE i + 1 \in T
  <2> SUFFICES ASSUME i + 1 <= n PROVE iter[1..(i + 1)] \in A
    OBVIOUS
  <2> HIDE DEF n
  <2>1. i + 1 \in 1..n /\ (i + 1) - 1 = i /\ i <= n
    BY <1>1
  <2>2. iter[1..(i + 1)] = Again(iter[1..i], h[i + 1])
    <3> HIDE DEF Is
    <3>1. iter[1..(i + 1)] = Again(iter[1..((i + 1) - 1)], h[i + 1])
      BY <1>10, <2>1
    <3> QED BY <2>1, <3>1
  <2> QED BY <1>3, <1>11, <2>1, <2>2
<1>12. \A i \in 0..n : iter[1..i] \in A
  <2> HIDE DEF T
  <2>1. Nat \subseteq T
    BY <1>9, <1>11, NumberInduction
  <2> QED BY <1>1, <2>1 DEF T
<1>13. Replay(base, h) = iter[1..n]
  BY <1>1 DEF Replay, FoldLeft, MapThenFoldSet, iter, Is
<1> DEFINE g == [i \in 0..n |-> iter[1..i]]
<1> HIDE DEF Is
<1>14. g \in [0..n -> A] /\ g[0] = base /\ g[n] = Replay(base, h)
  <2>1. 1..0 = {} /\ 0 \in 0..n /\ n \in 0..n
    BY <1>1
  <2> QED BY <1>8, <1>12, <1>13, <2>1
<1>15. ASSUME NEW i \in 1..n PROVE g[i] = Again(g[i - 1], h[i])
  <2>1. i \in 0..n /\ i - 1 \in 0..n
    BY <1>1
  <2> QED BY <1>10, <2>1
<1> QED BY <1>14, <1>15

LEMMA AgainFacts ==
  ASSUME NEW a, NEW s, Kept(a, s), NEW x \in HeldMessages, NEW p \in a.open, p = archive[x.m]
  PROVE  LET b == Again(a, x)
         IN  /\ Kept(b, s) /\ Told(a, b, p)
             /\ x.m \in b.shown \/ (p \in PMs /\ x.m \in HeldBack(b, p))
             /\ b.shown \subseteq a.shown \union {x.m}
             /\ (p \in PMs /\ Fetching(a, p, x.id)) => b.shown = a.shown
<1> DEFINE m == x.m
           id == x.id
           b == Again(a, x)
<1>1. m \in Said /\ id \in Nat /\ Typed(a) /\ p = archive[m]
  BY DEF HeldMessages, Kept
<1>2. CASE id = 0
  <2>1. b = IF p \in PMs /\ Fetching(a, p, 0) THEN Hold(a, p, 0, m) ELSE Show(a, m)
    BY <1>2 DEF Again, Live
  <2> HIDE DEF b, m
  <2>2. /\ Typed(b) /\ Told(a, b, p)
        /\ p \in PMs => b.held[p] = a.held[p] \/ Fetching(a, p, 0)
        /\ m \in b.shown \/ (p \in PMs /\ m \in HeldBack(b, p))
        /\ b.shown \subseteq a.shown \union {m}
        /\ (p \in PMs /\ Fetching(a, p, 0)) => b.shown = a.shown
    BY ONLY <1>1, <2>1, ToldLive
  <2>3. Kept(b, s)
    BY <2>2, ToldKeeps
  <2> QED BY <1>2, <2>2, <2>3 DEF b, m
<1>3. CASE id # 0
  <2> DEFINE c == CacheMessage(a, m)
             n == Show(IF p \in c.open \/ p \in Rooms THEN c ELSE Open(c, p), m)
  <2>1. b = IF p \in PMs /\ Fetching(c, p, id) THEN Hold(c, p, id, m)
            ELSE IF m \in c.shown /\ p \in c.open THEN c ELSE n
    BY <1>3 DEF Again, Result
  <2>2. c.open = a.open
    <3> HIDE DEF c
    <3>1. c = CacheMessage(a, m)
      BY DEF c
    <3>2. Told(a, c, p)
      BY ONLY <1>1, <3>1, CacheFacts
    <3> QED BY <3>2 DEF Told
  <2>3. n = Show(c, m)
    BY <2>2
  <2> HIDE DEF c, n
  <2>4. ToldResultBy(a, b, id, m)
    BY <1>1, <2>1, <2>3 DEF ToldResultBy, c
  <2> HIDE DEF b, m, id
  <2>5. /\ Typed(b) /\ Told(a, b, p)
        /\ p \in PMs => b.held[p] = a.held[p] \/ Fetching(a, p, 0)
        /\ m \in b.shown \/ (p \in PMs /\ m \in HeldBack(b, p))
        /\ b.shown \subseteq a.shown \union {m}
        /\ (p \in PMs /\ Fetching(a, p, id)) => b.shown = a.shown
    BY ONLY <1>1, <2>4, ToldResult
  <2>6. Kept(b, s)
    BY <2>5, ToldKeeps
  <2> QED BY <2>5, <2>6 DEF b, m, id
<1> QED BY <1>2, <1>3

Committed(a, b) ==
  /\ b.up = a.up /\ b.sm = a.sm /\ b.probed = a.probed /\ b.open = a.open
  /\ b.joining = a.joining /\ b.last_fetch = a.last_fetch /\ b.catchup = a.catchup
  /\ b.timer = a.timer /\ b.jitter = a.jitter /\ SameFetches(a, b)
  /\ b.shown = a.shown /\ b.held = a.held /\ b.batch = {}
  /\ b.db.cache = a.db.cache \union a.batch /\ b.db.cursor = a.db.cursor
  /\ b.db.ts = a.db.ts /\ b.db.registered = a.db.registered /\ b.db.wiped = a.db.wiped

LEMMA CommitFacts ==
  ASSUME NEW a, Typed(a), NEW b, b = Commit(a)
  PROVE  /\ Typed(b) /\ Committed(a, b)
         /\ \A s : Kept(a, s) => Kept(b, s)
<1> DEFINE cache == a.db.cache \union a.batch
           d == [a.db EXCEPT !.cache = cache]
           none == {}
           c == [a EXCEPT !.db = d, !.batch = none]
<1>1. a \in Accounts /\ a.db \in Dbs /\ IsFiniteSet(a.db.registered)
  BY DEF Typed, Accounts
<1>2. cache \in SUBSET Said /\ none \in SUBSET Said
  BY <1>1 DEF Accounts, Dbs
<1>3. b = [a EXCEPT !.db.cache = cache, !.batch = none]
  BY DEF Commit
<1> HIDE DEF cache, none
<1>4. /\ d \in Dbs /\ d.cache = cache /\ d.ts = a.db.ts /\ d.cursor = a.db.cursor
      /\ d.registered = a.db.registered /\ d.wiped = a.db.wiped
  BY <1>1, <1>2 DEF Dbs
<1>5. b = c
  BY <1>3
<1> HIDE DEF d
<1>6. /\ c \in Accounts /\ c.db = d /\ c.batch = none
      /\ c.up = a.up /\ c.sm = a.sm /\ c.probed = a.probed /\ c.open = a.open
      /\ c.joining = a.joining /\ c.last_fetch = a.last_fetch /\ c.catchup = a.catchup
      /\ c.timer = a.timer /\ c.jitter = a.jitter /\ SameFetches(a, c)
      /\ c.shown = a.shown /\ c.held = a.held
  BY <1>1, <1>2, <1>4 DEF Accounts, SameFetches
<1> HIDE DEF c
<1>7. Typed(b)
  BY <1>4, <1>5, <1>6 DEF Typed, SameFetches
<1>8. Committed(a, b)
  BY <1>4, <1>5, <1>6 DEF Committed, cache, none
<1>9. ASSUME NEW s, Kept(a, s) PROVE Kept(b, s)
  <2>1. SameFetches(a, b) /\ Grows(a, b) /\ b.held = a.held
    BY <1>8 DEF Committed, Grows
  <2>2. Linked(b, s)
    BY <2>1, <1>9, SameLinks DEF Kept
  <2>3. Slots(b) /\ Held(b)
    BY <2>1, <1>9, SameSlots DEF Kept
  <2> QED BY <1>7, <2>2, <2>3 DEF Kept
<1> QED BY <1>7, <1>8, <1>9

\* A first page of the chat waits.
FirstWaits(a, p) == \E g \in Range(a.pages) : g.ch = p /\ g.after = 0

\* What the flush of a chat changes.
Flushed(a, b, p) ==
  /\ b.up = a.up /\ b.sm = a.sm /\ b.probed = a.probed /\ b.open = a.open
  /\ b.joining = a.joining /\ b.last_fetch = a.last_fetch /\ b.catchup = a.catchup
  /\ b.timer = a.timer /\ b.jitter = a.jitter /\ SameFetches(a, b)
  /\ \A c \in PMs \ {p} : b.held[c] = a.held[c]
  /\ a.shown \subseteq b.shown /\ \A c \in PMs : There(a, c) \subseteq There(b, c)
  /\ b.shown # a.shown => p \in PMs
  /\ b.shown \subseteq There(a, p)
  /\ FirstWaits(a, p) => b.shown = a.shown
  /\ a.db.cache \subseteq b.db.cache
  /\ a.db.cache \union a.batch \subseteq b.db.cache \union b.batch
  /\ b.db.cursor = a.db.cursor /\ b.db.ts = a.db.ts /\ b.db.registered = a.db.registered
  /\ b.db.wiped = a.db.wiped

LEMMA FlushKeeps ==
  ASSUME NEW a, NEW s, Typed(a), Linked(a, s), Slots(a), NEW p \in Chs, p \in PMs => p \in a.open,
         HeldBut(a, p)
  PROVE  LET b == Flush(a, p)
         IN  Kept(b, s) /\ Flushed(a, b, p)
<1>1. CASE p \notin PMs \/ a.held[p] = <<>>
  <2>1. Flush(a, p) = a
    BY <1>1 DEF Flush
  <2>2. Held(a)
    BY <1>1, MamConstants DEF Held, HeldBut
  <2> QED BY <2>1, <2>2 DEF Kept, Flushed, There, SameFetches
<1>2. CASE p \in PMs /\ a.held[p] # <<>>
  <2> DEFINE h == a.held[p]
             n == Len(h)
             none == <<>>
             held == [a.held EXCEPT ![p] = none]
             base == [a EXCEPT !.held = held]
             First == FirstWaits(a, p)
             A == {b \in Accounts : /\ Kept(b, s) /\ Told(base, b, p)
                                    /\ b.shown \subseteq There(a, p)
                                    /\ First => b.shown = a.shown}
             last == Replay(base, h)
  <2>1. /\ a \in Accounts /\ a.held \in [PMs -> Seq(HeldMessages)] /\ h \in Seq(HeldMessages)
        /\ none \in Seq(HeldMessages) /\ p \in a.open
    BY <1>2 DEF Typed, Accounts
  <2>2. Flush(a, p) = Commit(last)
    BY <1>2 DEF Flush, Replay
  <2>3. /\ held \in [PMs -> Seq(HeldMessages)] /\ held[p] = none
        /\ \A c \in PMs \ {p} : held[c] = a.held[c]
    BY <1>2, <2>1
  <2> HIDE DEF held
  <2>4. /\ base \in Accounts /\ base.held = held /\ base.shown = a.shown /\ base.batch = a.batch
        /\ base.up = a.up /\ base.sm = a.sm /\ base.probed = a.probed /\ base.open = a.open
        /\ base.joining = a.joining /\ base.last_fetch = a.last_fetch /\ base.catchup = a.catchup
        /\ base.db = a.db /\ base.timer = a.timer /\ base.jitter = a.jitter /\ SameFetches(a, base)
    BY <2>1, <2>3 DEF Accounts, SameFetches
  <2> HIDE DEF base
  <2>5. Typed(base)
    <3>1. \A c \in PMs : \A i \in DOMAIN base.held[c] : archive[base.held[c][i].m] = c
      <4> SUFFICES ASSUME NEW c \in PMs PROVE \A i \in DOMAIN base.held[c] : archive[base.held[c][i].m] = c
        OBVIOUS
      <4>1. CASE c = p
        BY <2>3, <2>4, <4>1
      <4>2. CASE c # p
        BY <2>3, <2>4, <4>2 DEF Typed
      <4> QED BY <4>1, <4>2
    <3> QED BY <2>4, <3>1 DEF Typed, SameFetches
  <2>6. Kept(base, s)
    <3>1. SameFetches(a, base) /\ Grows(a, base)
      BY <2>4 DEF Grows
    <3>2. Linked(base, s) /\ Slots(base) /\ \A c : Fetching(base, c, 0) <=> Fetching(a, c, 0)
      BY <3>1, SameLinks, SameSlots
    <3>3. Held(base)
      BY <2>3, <2>4, <3>2 DEF Held, HeldBut
    <3> QED BY <2>5, <3>2, <3>3 DEF Kept
  <2>7. base \in A
    BY <2>4, <2>6 DEF Told, There, SameFetches
  <2>8. ASSUME NEW i \in DOMAIN h PROVE h[i] \in HeldMessages /\ archive[h[i].m] = p /\ h[i].m \in HeldBack(a, p)
    <3>1. archive[a.held[p][i].m] = p
      BY <1>2 DEF Typed
    <3> QED BY <2>1, <3>1 DEF HeldBack, Range
  <2>9. ASSUME NEW b \in A, NEW i \in DOMAIN h
        PROVE  /\ Again(b, h[i]) \in A /\ Told(b, Again(b, h[i]), p)
               /\ h[i].m \in There(Again(b, h[i]), p)
    <3> DEFINE x == h[i]
               c == Again(b, x)
    <3>1. /\ Kept(b, s) /\ Told(base, b, p) /\ b.shown \subseteq There(a, p)
          /\ First => b.shown = a.shown
      OBVIOUS
    <3>2. p \in b.open
      BY <2>1, <2>4, <3>1 DEF Told
    <3>3. x \in HeldMessages /\ p = archive[x.m]
      BY <2>8
    <3>4. x.m \in HeldBack(a, p)
      BY <2>8
    <3> HIDE DEF x, A, First
    <3>5. /\ Kept(c, s) /\ Told(b, c, p)
          /\ x.m \in c.shown \/ (p \in PMs /\ x.m \in HeldBack(c, p))
          /\ c.shown \subseteq b.shown \union {x.m}
          /\ (p \in PMs /\ Fetching(b, p, x.id)) => c.shown = b.shown
      BY ONLY <3>1, <3>2, <3>3, AgainFacts
    <3> HIDE DEF c
    <3>6. Told(base, c, p)
      BY <3>1, <3>5, ToldTwice
    <3>7. c.shown \subseteq There(a, p)
      BY <3>1, <3>4, <3>5 DEF There
    <3>8. First => c.shown = a.shown
      <4>1. First => Fetching(b, p, x.id)
        BY <2>4, <3>1 DEF First, FirstWaits, Fetching, Told, SameFetches
      <4> QED BY <1>2, <3>1, <3>5, <4>1
    <3>9. c \in Accounts
      BY <3>5 DEF Kept, Typed
    <3> QED BY <3>5, <3>6, <3>7, <3>8, <3>9 DEF A, There, c, x
  <2> HIDE DEF A, First, h
  <2>10. PICK g \in [0..n -> A] :
           /\ g[0] = base /\ \A i \in 1..n : g[i] = Again(g[i - 1], h[i])
           /\ last = g[n]
    <3>1. \A b \in A : \A i \in DOMAIN h : Again(b, h[i]) \in A
      BY <2>9
    <3> QED BY <2>1, <2>7, <3>1, FoldAgain
  <2>11. n \in Nat /\ DOMAIN h = 1..n
    BY <2>1
  <2> DEFINE T == {i \in Nat : i <= n => \A j \in 1..i : h[j].m \in There(g[i], p)}
  <2> HIDE DEF n, last
  <2>12. 0 \in T
    OBVIOUS
  <2>13. ASSUME NEW i \in Nat, i \in T PROVE i + 1 \in T
    <3> SUFFICES ASSUME i + 1 <= n, NEW j \in 1..(i + 1) PROVE h[j].m \in There(g[i + 1], p)
      OBVIOUS
    <3>1. i \in 0..n /\ i + 1 \in DOMAIN h /\ i + 1 \in 1..n /\ (i + 1) - 1 = i
      BY <2>11
    <3>2. g[i] \in A /\ g[i + 1] = Again(g[i], h[i + 1])
      <4>1. g[i + 1] = Again(g[(i + 1) - 1], h[i + 1])
        BY <2>10, <3>1
      <4> QED BY <2>10, <3>1, <4>1
    <3>3. Told(g[i], g[i + 1], p) /\ h[i + 1].m \in There(g[i + 1], p)
      BY <2>9, <3>1, <3>2
    <3>4. There(g[i], p) \subseteq There(g[i + 1], p)
      BY <1>2, <3>3 DEF There, Told
    <3>5. CASE j = i + 1
      BY <3>3, <3>5
    <3>6. CASE j # i + 1
      <4>1. j \in 1..i /\ i <= n
        BY <2>11, <3>6
      <4> QED BY <2>13, <3>4, <4>1
    <3> QED BY <3>5, <3>6
  <2>14. \A j \in 1..n : h[j].m \in There(last, p)
    <3> HIDE DEF T
    <3>1. Nat \subseteq T
      BY <2>12, <2>13, NumberInduction
    <3> QED BY <2>10, <2>11, <3>1 DEF T
  <2>15. last \in A
    BY <2>10, <2>11
  <2>16. Typed(last) /\ Kept(last, s) /\ Told(base, last, p)
    BY <2>15 DEF A, Kept
  <2> DEFINE b == Commit(last)
  <2>17. Typed(b) /\ Committed(last, b) /\ Kept(b, s)
    <3>1. b = Commit(last)
      OBVIOUS
    <3> HIDE DEF b
    <3> QED BY ONLY <2>16, <3>1, CommitFacts
  <2> HIDE DEF b
  <2>18. \A c \in PMs : There(a, c) \subseteq There(b, c)
    <3> SUFFICES ASSUME NEW c \in PMs PROVE There(a, c) \subseteq There(b, c)
      OBVIOUS
    <3>1. There(b, c) = There(last, c)
      BY <2>17 DEF Committed, There, HeldBack
    <3>2. a.shown \subseteq last.shown
      BY <2>4, <2>16 DEF Told
    <3>3. CASE c = p
      <4>1. HeldBack(a, p) \subseteq There(last, p)
        <5> SUFFICES ASSUME NEW k \in HeldBack(a, p) PROVE k \in There(last, p)
          OBVIOUS
        <5>1. PICK j \in DOMAIN h : k = h[j].m
          BY DEF HeldBack, Range, h
        <5> QED BY <2>11, <2>14, <5>1
      <4> QED BY <3>1, <3>2, <3>3, <4>1 DEF There
    <3>4. CASE c # p
      <4>1. last.held[c] = a.held[c]
        BY <2>3, <2>4, <2>16, <3>4 DEF Told
      <4> QED BY <3>1, <3>2, <4>1 DEF There, HeldBack
    <3> QED BY <3>3, <3>4
  <2>19. Flushed(a, b, p)
    <3>1. /\ b.up = a.up /\ b.sm = a.sm /\ b.probed = a.probed /\ b.open = a.open
          /\ b.joining = a.joining /\ b.last_fetch = a.last_fetch /\ b.catchup = a.catchup
          /\ b.timer = a.timer /\ b.jitter = a.jitter /\ SameFetches(a, b)
      BY <2>4, <2>16, <2>17 DEF Committed, Told, SameFetches
    <3>2. \A c \in PMs \ {p} : b.held[c] = a.held[c]
      BY <2>3, <2>4, <2>16, <2>17 DEF Committed, Told
    <3>3. /\ a.shown \subseteq b.shown /\ b.shown \subseteq There(a, p)
          /\ FirstWaits(a, p) => b.shown = a.shown
      BY <2>4, <2>15, <2>16, <2>17 DEF Committed, Told, A, First
    <3>4. /\ a.db.cache \subseteq b.db.cache
          /\ a.db.cache \union a.batch \subseteq b.db.cache \union b.batch
          /\ b.db.cursor = a.db.cursor /\ b.db.ts = a.db.ts /\ b.db.registered = a.db.registered
          /\ b.db.wiped = a.db.wiped
      BY <2>4, <2>16, <2>17 DEF Committed, Told
    <3> QED BY <1>2, <2>18, <3>1, <3>2, <3>3, <3>4 DEF Flushed
  <2> QED BY <2>2, <2>17, <2>19 DEF b
<1> QED BY <1>1, <1>2

-----------------------------------------------------------------------------
(* What has been fetched stays.                                            *)

LEMMA GotKept ==
  ASSUME NEW a, NEW b, NEW r, NEW q, NEW n, NEW more, SameFetch(r, q), Got(a, r, n, more),
         Stored(a) \subseteq Stored(b), q.ch \in PMs => There(a, q.ch) \subseteq There(b, q.ch)
  PROVE  Got(b, q, n, more)
BY DEF Got, SameFetch, Covered, Seen

LEMMA GotStart ==
  ASSUME NEW a, NEW q \in Queries, q.ch # Global, NEW more
  PROVE  Got(a, q, q.start, more)
<1>1. \A m \in In({q.ch}) : ~(q.start < m /\ m <= q.start)
  BY DEF In, Queries, Times
<1> QED BY <1>1 DEF Got, Seen

LEMMA ProgressAhead ==
  ASSUME NEW a, NEW b, NEW s, NEW more, Typed(b), Progress(a, s, more), Ahead(a, b, s)
  PROVE  Progress(b, s, more)
<1>1. Safe(a) \subseteq Safe(b) /\ Stored(a) \subseteq Stored(b) /\ b.queries \subseteq Queries
  BY DEF Ahead, Typed, Accounts
<1>2. ASSUME NEW q \in b.queries, q.stable, GoesOn(a, b, q)
      PROVE  \E r \in a.queries : /\ r.stable /\ r.id = q.id /\ r.end = q.end
                                  /\ \A n, k : Got(a, r, n, k) => Got(b, q, n, k)
  <2>1. PICK r \in a.queries : SameFetch(r, q) /\ (q.ch \in PMs => There(a, q.ch) \subseteq There(b, q.ch))
    BY <1>2 DEF GoesOn
  <2>2. \A n, k : Got(a, r, n, k) => Got(b, q, n, k)
    BY <1>1, <2>1, GotKept
  <2> QED BY <1>2, <2>1, <2>2 DEF SameFetch
<1>3. Covered(b.db.cursor, Safe(b))
  BY <1>1 DEF Progress, Ahead, Covered
<1>4. PagesGot(b)
  <2>1. ASSUME NEW i \in DOMAIN b.pages, b.pages[i].ch = Global, b.pages[i].stable
        PROVE  Covered(From(b.pages[i]), Stored(b))
    <3>1. PICK j \in DOMAIN a.pages : a.pages[j] = b.pages[i]
      BY <2>1 DEF Ahead
    <3>2. Covered(From(a.pages[j]), Stored(a))
      BY <2>1, <3>1 DEF Progress, PagesGot
    <3> QED BY <1>1, <3>1, <3>2 DEF Covered
  <2>2. ASSUME NEW i \in DOMAIN b.pages, NEW q \in b.queries, q.stable, b.pages[i].id = q.id,
               b.pages[i].after # 0
        PROVE  Got(b, q, b.pages[i].after, {})
    <3>1. PICK j \in DOMAIN a.pages : a.pages[j] = b.pages[i]
      BY <2>2 DEF Ahead
    <3>2. GoesOn(a, b, q)
      BY <2>2 DEF Ahead, Begins
    <3>3. PICK r \in a.queries : /\ r.stable /\ r.id = q.id /\ r.end = q.end
                                /\ \A n, k : Got(a, r, n, k) => Got(b, q, n, k)
      BY <1>2, <2>2, <3>2
    <3>4. Got(a, r, a.pages[j].after, {})
      BY <2>2, <3>1, <3>3 DEF Progress, PagesGot
    <3> QED BY <3>1, <3>3, <3>4
  <2> QED BY <2>1, <2>2 DEF PagesGot
<1>5. RequestsGot(b)
  <2> SUFFICES ASSUME NEW i \in DOMAIN b.out, NEW q \in b.queries, q.stable, b.out[i].id = q.id
               PROVE  Got(b, q, b.out[i].after, {})
    BY DEF RequestsGot
  <2>1. CASE q.ch # Global /\ b.out[i].after = q.start
    BY <1>1, <2>1, GotStart
  <2>2. CASE (\E j \in DOMAIN a.out : a.out[j] = b.out[i]) /\ GoesOn(a, b, q)
    <3>1. PICK j \in DOMAIN a.out : a.out[j] = b.out[i]
      BY <2>2
    <3>2. PICK r \in a.queries : /\ r.stable /\ r.id = q.id /\ r.end = q.end
                                /\ \A n, k : Got(a, r, n, k) => Got(b, q, n, k)
      BY <1>2, <2>2
    <3>3. Got(a, r, a.out[j].after, {})
      BY <3>1, <3>2 DEF Progress, RequestsGot
    <3> QED BY <3>1, <3>2, <3>3
  <2> QED BY <2>1, <2>2 DEF Ahead, Begins
<1>6. AnswersGot(b, s, more)
  <2> SUFFICES ASSUME NEW i \in DOMAIN s, NEW q \in b.queries, q.stable, Steadily(s[i]), s[i].id = q.id
               PROVE  /\ Got(b, q, s[i].last, Coming(s, i) \union more)
                      /\ s[i].complete => Got(b, q, q.end, Coming(s, i) \union more)
    BY DEF AnswersGot
  <2>1. GoesOn(a, b, q)
    BY DEF Ahead, Begins, Steadily, IsEnd
  <2>2. PICK r \in a.queries : /\ r.stable /\ r.id = q.id /\ r.end = q.end
                              /\ \A n, k : Got(a, r, n, k) => Got(b, q, n, k)
    BY <1>2, <2>1
  <2>3. /\ Got(a, r, s[i].last, Coming(s, i) \union more)
        /\ s[i].complete => Got(a, r, r.end, Coming(s, i) \union more)
    BY <2>2 DEF Progress, AnswersGot
  <2> QED BY <2>2, <2>3
<1> QED BY <1>3, <1>4, <1>5, <1>6 DEF Progress

LEMMA GotMore ==
  ASSUME NEW a, NEW q, NEW n, NEW k, NEW l, k \subseteq l, Got(a, q, n, k)
  PROVE  Got(a, q, n, l)
BY DEF Got, Covered, Seen

\* A page waits that goes on where the account has got to.
LEMMA ProgressPage ==
  ASSUME NEW a, NEW b, NEW s, NEW more, Progress(a, s, more), Aside(a, b), a.pages \in Seq(Pages),
         b.queries \subseteq a.queries, b.out = a.out, NEW g, b.pages = Append(a.pages, g),
         (g.ch = Global /\ g.stable) => Covered(From(g), Stored(a)),
         \A q \in b.queries : (q.stable /\ g.id = q.id /\ g.after # 0) => Got(a, q, g.after, {})
  PROVE  Progress(b, s, more)
<1>1. /\ Safe(b) = Safe(a) /\ Stored(b) = Stored(a) /\ b.db.cursor = a.db.cursor
      /\ \A p : There(b, p) = There(a, p)
  BY DEF Aside, Safe, Stored, There, HeldBack
<1>2. \A q, n, k : Got(a, q, n, k) => Got(b, q, n, k)
  BY <1>1 DEF Got
<1>3. \A i \in DOMAIN b.pages : b.pages[i] = g \/ \E j \in DOMAIN a.pages : b.pages[i] = a.pages[j]
  OBVIOUS
<1>4. PagesGot(b)
  <2>1. ASSUME NEW i \in DOMAIN b.pages, b.pages[i].ch = Global, b.pages[i].stable
        PROVE  Covered(From(b.pages[i]), Stored(b))
    BY <1>1, <1>3, <2>1 DEF Progress, PagesGot
  <2>2. ASSUME NEW i \in DOMAIN b.pages, NEW q \in b.queries, q.stable, b.pages[i].id = q.id,
               b.pages[i].after # 0
        PROVE  Got(b, q, b.pages[i].after, {})
    BY <1>2, <1>3, <2>2 DEF Progress, PagesGot
  <2> QED BY <2>1, <2>2 DEF PagesGot
<1>5. RequestsGot(b) /\ AnswersGot(b, s, more)
  BY <1>2 DEF Progress, RequestsGot, AnswersGot
<1> QED BY <1>1, <1>4, <1>5 DEF Progress

\* A request is made for what comes after what the account has.
LEMMA ProgressSent ==
  ASSUME NEW a, NEW b, NEW s, NEW more, Progress(a, s, more), Aside(a, b), a.out \in Seq(Requests),
         NEW id, NEW ch, NEW after, NEW end, Sent(a, b, id, ch, after, end),
         \A i \in DOMAIN b.pages : \E j \in DOMAIN a.pages : a.pages[j] = b.pages[i],
         \A q \in b.queries : q \in a.queries \/ (q.id = id /\ Unused(id, a, s)),
         \A q \in b.queries : (q.stable /\ q.id = id) => Got(a, q, after, {})
  PROVE  Progress(b, s, more)
<1>1. /\ Safe(b) = Safe(a) /\ Stored(b) = Stored(a) /\ b.db.cursor = a.db.cursor
      /\ \A p : There(b, p) = There(a, p)
  BY DEF Aside, Safe, Stored, There, HeldBack
<1>2. \A q, n, k : Got(a, q, n, k) => Got(b, q, n, k)
  BY <1>1 DEF Got
<1>3. PagesGot(b)
  <2>1. ASSUME NEW i \in DOMAIN b.pages, b.pages[i].ch = Global, b.pages[i].stable
        PROVE  Covered(From(b.pages[i]), Stored(b))
    BY <1>1, <2>1 DEF Progress, PagesGot
  <2>2. ASSUME NEW i \in DOMAIN b.pages, NEW q \in b.queries, q.stable, b.pages[i].id = q.id,
               b.pages[i].after # 0
        PROVE  Got(b, q, b.pages[i].after, {})
    <3>1. PICK j \in DOMAIN a.pages : a.pages[j] = b.pages[i]
      OBVIOUS
    <3>2. q \in a.queries
      BY <2>2, <3>1 DEF Unused
    <3>3. Got(a, q, a.pages[j].after, {})
      BY <2>2, <3>1, <3>2 DEF Progress, PagesGot
    <3> QED BY <1>2, <3>1, <3>3
  <2> QED BY <2>1, <2>2 DEF PagesGot
<1>4. RequestsGot(b)
  <2> SUFFICES ASSUME NEW i \in DOMAIN b.out, NEW q \in b.queries, q.stable, b.out[i].id = q.id
               PROVE  Got(b, q, b.out[i].after, {})
    BY DEF RequestsGot
  <2>1. \/ i \in DOMAIN a.out /\ b.out[i] = a.out[i]
        \/ b.out[i].id = id /\ b.out[i].after = after
    <3>1. CASE b.out = a.out
      BY <3>1
    <3>2. CASE b.out = Append(a.out, [id |-> id, ch |-> ch, after |-> after, end |-> end])
      <4>1. CASE i = Len(a.out) + 1
        BY <3>2, <4>1
      <4>2. CASE i # Len(a.out) + 1
        BY <3>2, <4>2
      <4> QED BY <4>1, <4>2
    <3> QED BY <3>1, <3>2 DEF Sent
  <2>2. CASE i \in DOMAIN a.out /\ b.out[i] = a.out[i]
    <3>1. q \in a.queries
      BY <2>2 DEF Unused
    <3> QED BY <1>2, <2>2, <3>1 DEF Progress, RequestsGot
  <2>3. CASE b.out[i].id = id /\ b.out[i].after = after
    BY <1>2, <2>3
  <2> QED BY <2>1, <2>2, <2>3
<1>5. AnswersGot(b, s, more)
  <2> SUFFICES ASSUME NEW i \in DOMAIN s, NEW q \in b.queries, q.stable, Steadily(s[i]), s[i].id = q.id
               PROVE  /\ Got(b, q, s[i].last, Coming(s, i) \union more)
                      /\ s[i].complete => Got(b, q, q.end, Coming(s, i) \union more)
    BY DEF AnswersGot
  <2>1. q \in a.queries
    BY DEF Unused, Steadily, IsEnd
  <2> QED BY <1>2, <2>1 DEF Progress, AnswersGot
<1> QED BY <1>1, <1>3, <1>4, <1>5 DEF Progress

\* Nothing that is fetched has changed.
LEMMA ProgressSame ==
  ASSUME NEW a, NEW b, NEW s, NEW more, Progress(a, s, more), SameFetches(a, b), Aside(a, b)
  PROVE  Progress(b, s, more)
<1>1. /\ Safe(b) = Safe(a) /\ Stored(b) = Stored(a) /\ b.db.cursor = a.db.cursor
      /\ \A p : There(b, p) = There(a, p)
  BY DEF Aside, Safe, Stored, There, HeldBack
<1>2. \A q, n, k : Got(a, q, n, k) => Got(b, q, n, k)
  BY <1>1 DEF Got
<1>3. b.pages = a.pages /\ b.queries = a.queries /\ b.out = a.out
  BY DEF SameFetches
<1> QED BY <1>1, <1>2, <1>3 DEF Progress, PagesGot, RequestsGot, AnswersGot

\* The chat that is closed has nothing underway; of the others all is there.
LEMMA ProgressClosed ==
  ASSUME NEW a, NEW b, NEW s, NEW more, Progress(a, s, more), SameFetches(a, b),
         b.db.cursor = a.db.cursor, Safe(a) \subseteq Safe(b), Stored(a) \subseteq Stored(b),
         \A q \in b.queries : q.ch \in PMs => There(a, q.ch) \intersect In({q.ch}) \subseteq There(b, q.ch)
  PROVE  Progress(b, s, more)
<1>1. \A q \in b.queries : \A n, k : Got(a, q, n, k) => Got(b, q, n, k)
  BY DEF Got, Covered, Seen
<1>2. b.pages = a.pages /\ b.queries = a.queries /\ b.out = a.out
  BY DEF SameFetches
<1>3. \A n : Covered(n, Stored(a)) => Covered(n, Stored(b))
  BY DEF Covered
<1>4. Covered(b.db.cursor, Safe(b))
  BY DEF Progress, Covered
<1> QED BY <1>1, <1>2, <1>3, <1>4 DEF Progress, PagesGot, RequestsGot, AnswersGot

\* Nothing is underway.
LEMMA ProgressEmpty ==
  ASSUME NEW b, Covered(b.db.cursor, Safe(b)), b.queries = {}, b.pages = <<>>
  PROVE  Progress(b, <<>>, {})
BY DEF Progress, PagesGot, RequestsGot, AnswersGot

LEMMA StandsOn ==
  ASSUME NEW a, NEW b, NEW s, NEW r, Stands(a, s), Progress(b, r, {}), Minds(a, b), b.up => a.up
  PROVE  Stands(b, r)
BY DEF Stands, Known, Attended, Minds

LEMMA StandsAhead ==
  ASSUME NEW a, NEW b, NEW s, Stands(a, s), Typed(b), Ahead(a, b, s), b.up => a.up
  PROVE  Stands(b, s)
<1>1. Progress(b, s, {}) /\ Minds(a, b)
  BY ProgressAhead DEF Stands, Ahead
<1> QED BY <1>1, StandsOn

-----------------------------------------------------------------------------
(* The last answer to a query, and pages that follow.                      *)

LEMMA NowFacts ==
  ASSUME NEW a, Typed(a)
  PROVE  /\ now \in Nat /\ now \in Times /\ 0 \in Times /\ a \in Accounts
         /\ a.queries \in SUBSET Queries /\ IsFiniteSet(a.queries) /\ a.pages \in Seq(Pages)
         /\ a.out \in Seq(Requests) /\ a.inflight \in Nat /\ a.db \in Dbs
         /\ Cardinality(a.queries) \in Nat /\ SlotsHeld(a.pages) \in {0, 1}
         /\ MaxConcurrent \in Nat /\ a.open \subseteq Channels /\ Global \notin a.open
BY FS_CardinalityType, MamConstants DEF Typed, Accounts, Times, now, SlotsHeld

\* A query is done with: its slot is free, and if pages wait the timer runs.
Done(a, d, q) ==
  /\ d.queries = a.queries \ {q} /\ d.pages = a.pages /\ d.out = a.out
  /\ d.inflight = a.inflight - 1
  /\ d.up = a.up /\ d.sm = a.sm /\ d.probed = a.probed /\ d.open = a.open
  /\ d.joining = a.joining /\ d.shown = a.shown /\ d.last_fetch = a.last_fetch
  /\ d.held = a.held /\ d.batch = a.batch /\ d.db = a.db /\ d.jitter = a.jitter
  /\ d.catchup = (a.catchup /\ q.ch # Global)
  /\ d.timer = (a.timer \/ (a.pages # <<>> /\ a.up))

LEMMA ForgetFacts ==
  ASSUME NEW a, Typed(a), NEW q \in a.queries, NEW b, b = Forget(a, q)
  PROVE  /\ Typed(b) /\ Aside(a, b) /\ Grows(a, b) /\ b.queries = a.queries \ {q}
         /\ b.pages = a.pages /\ b.out = a.out /\ b.inflight = a.inflight
         /\ b.timer = a.timer /\ b.jitter = a.jitter
<1> DEFINE Q == a.queries \ {q}
           c == [a EXCEPT !.queries = Q]
<1>1. a \in Accounts /\ Q \in SUBSET Queries /\ IsFiniteSet(Q) /\ b = c
  BY OneLess DEF Typed, Accounts, Forget
<1> HIDE DEF Q
<1>2. /\ c \in Accounts /\ Aside(a, c) /\ c.queries = Q /\ c.pages = a.pages /\ c.out = a.out
      /\ c.inflight = a.inflight /\ c.timer = a.timer /\ c.jitter = a.jitter
  BY <1>1 DEF Accounts, Aside
<1> HIDE DEF c
<1>3. Typed(b) /\ Grows(a, b)
  BY <1>1, <1>2 DEF Typed, Aside, Grows
<1> QED BY <1>1, <1>2, <1>3 DEF Q

LEMMA ReleaseFacts ==
  ASSUME NEW a, Typed(a), NEW n \in Nat, n > 0, n <= a.inflight, NEW b, b = Release(a, n)
  PROVE  /\ Typed(b) /\ Aside(a, b) /\ b.queries = a.queries /\ b.pages = a.pages
         /\ b.out = a.out /\ b.inflight = a.inflight - n /\ b.jitter = a.jitter
         /\ b.timer = (a.timer \/ (a.pages # <<>> /\ a.up))
<1> DEFINE k == IF a.inflight > n THEN a.inflight - n ELSE 0
           c == [a EXCEPT !.inflight = k]
<1>1. a.inflight \in Nat /\ k = a.inflight - n /\ k \in Nat /\ a \in Accounts
  BY NowFacts
<1>2. b = IF n > 0 /\ a.pages # <<>> THEN Schedule(c) ELSE c
  BY DEF Release
<1> HIDE DEF k
<1>3. /\ c \in Accounts /\ Aside(a, c) /\ c.queries = a.queries /\ c.pages = a.pages
      /\ c.out = a.out /\ c.inflight = k /\ c.timer = a.timer /\ c.jitter = a.jitter
  BY <1>1 DEF Accounts, Aside
<1> HIDE DEF c
<1>4. Typed(c)
  BY <1>3 DEF Typed, Aside
<1>5. CASE a.pages = <<>>
  <2>1. b = c
    BY <1>2, <1>5
  <2>2. c.timer = (a.timer \/ (a.pages # <<>> /\ a.up))
    BY <1>3, <1>5 DEF Accounts
  <2> QED BY <1>1, <1>3, <1>4, <2>1, <2>2
<1>6. CASE a.pages # <<>>
  <2>1. b = Schedule(c)
    BY <1>2, <1>6
  <2>2. Typed(b) /\ b = [c EXCEPT !.timer = c.timer \/ c.up] /\ b \in Accounts
    BY <1>4, <2>1, ScheduleFacts
  <2>3. /\ b.pages = c.pages /\ b.queries = c.queries /\ b.out = c.out /\ b.inflight = c.inflight
        /\ b.jitter = c.jitter /\ b.timer = (c.timer \/ c.up) /\ Aside(c, b)
    BY <1>3, <2>2 DEF Accounts, Aside
  <2>4. c.up = a.up /\ Aside(a, b)
    BY <1>3, <2>3 DEF Aside
  <2>5. b.timer = (a.timer \/ (a.pages # <<>> /\ a.up))
    BY <1>3, <1>6, <2>3, <2>4
  <2> QED BY <1>1, <1>3, <2>2, <2>3, <2>4, <2>5
<1> QED BY <1>5, <1>6

LEMMA FinishKeeps ==
  ASSUME NEW a, NEW s, Kept(a, s), s \in Seq(Answers), NEW q \in a.queries, Unused(q.id, a, s)
  PROVE  LET b == Finish(a, q)
         IN  Kept(b, s) /\ \E d : Typed(d) /\ Done(a, d, q) /\ Flushed(d, b, q.ch)
<1> DEFINE f == Forget(a, q)
           r == Release(f, 1)
           c == [r EXCEPT !.catchup = FALSE]
           d == IF q.ch = Global THEN c ELSE r
           b == Finish(a, q)
<1>1. Typed(a) /\ q \in Queries /\ q.ch \in Chs
  <2>1. Typed(a)
    BY DEF Kept
  <2> QED BY <2>1, NowFacts DEF Queries
<1>2. b = IF q.ch = Global THEN d ELSE Flush(d, q.ch)
  BY DEF Finish
<1>3. /\ Typed(f) /\ Aside(a, f) /\ Grows(a, f) /\ f.queries = a.queries \ {q}
      /\ f.pages = a.pages /\ f.out = a.out /\ f.inflight = a.inflight
      /\ f.timer = a.timer /\ f.jitter = a.jitter
  <2> HIDE DEF f
  <2>1. f = Forget(a, q)
    BY DEF f
  <2> QED BY <1>1, <2>1, ForgetFacts
<1> HIDE DEF f
<1>4. a.inflight = Cardinality(a.queries) + SlotsHeld(a.pages) /\ a.inflight <= MaxConcurrent
  BY <1>1, NowFacts DEF Kept, Slots, SlotsBut
<1>5. /\ Cardinality(a.queries \ {q}) = Cardinality(a.queries) - 1 /\ a.inflight \in Nat
      /\ 1 <= a.inflight
  <2>1. IsFiniteSet(a.queries) /\ Cardinality(a.queries) \in Nat /\ SlotsHeld(a.pages) \in {0, 1}
        /\ a.inflight \in Nat
    BY <1>1, NowFacts
  <2>2. Cardinality(a.queries \ {q}) = Cardinality(a.queries) - 1 /\ Cardinality(a.queries) > 0
    BY <2>1, OneLess
  <2> QED BY <1>4, <2>1, <2>2
<1>6. /\ Typed(r) /\ Aside(f, r) /\ r.queries = f.queries /\ r.pages = f.pages
      /\ r.out = f.out /\ r.inflight = f.inflight - 1 /\ r.jitter = f.jitter
      /\ r.timer = (f.timer \/ (f.pages # <<>> /\ f.up))
  <2> HIDE DEF r
  <2>1. r = Release(f, 1) /\ 1 \in Nat /\ 1 > 0 /\ 1 <= f.inflight /\ Typed(f)
    BY <1>3, <1>5 DEF r
  <2> QED BY ONLY <2>1, ReleaseFacts
<1> HIDE DEF r
<1>7. Typed(d) /\ Done(a, d, q)
  <2>1. CASE q.ch = Global
    <3>1. /\ c \in Accounts /\ c.catchup = FALSE /\ c.up = r.up /\ c.sm = r.sm /\ c.probed = r.probed
          /\ c.open = r.open /\ c.joining = r.joining /\ c.shown = r.shown
          /\ c.last_fetch = r.last_fetch /\ c.held = r.held /\ c.batch = r.batch /\ c.db = r.db
          /\ c.queries = r.queries /\ c.pages = r.pages /\ c.out = r.out /\ c.inflight = r.inflight
          /\ c.jitter = r.jitter /\ c.timer = r.timer
      BY <1>6 DEF Typed, Accounts
    <3>2. d = c
      BY <2>1
    <3> HIDE DEF c, d
    <3>3. f.up = a.up
      BY <1>3 DEF Aside
    <3>4. Typed(c)
      BY <1>6, <3>1 DEF Typed
    <3> QED BY <1>3, <1>6, <2>1, <3>1, <3>2, <3>3, <3>4 DEF Done, Aside
  <2>2. CASE q.ch # Global
    <3>1. d = r
      BY <2>2
    <3> HIDE DEF c, d
    <3>2. f.up = a.up /\ a.catchup \in BOOLEAN
      BY <1>1, <1>3 DEF Aside, Typed, Accounts
    <3> QED BY <1>3, <1>6, <2>2, <3>1, <3>2 DEF Done, Aside
  <2> QED BY <2>1, <2>2
<1> HIDE DEF d
<1>8. Linked(d, s)
  <2>1. /\ Linked(a, s) /\ d.queries \subseteq a.queries /\ d.pages = a.pages /\ d.out = a.out
        /\ Grows(a, d) /\ a.queries \ d.queries = {q}
    BY <1>7 DEF Kept, Done, Grows
  <2>2. /\ \A i \in DOMAIN d.pages : \E j \in DOMAIN a.pages : d.pages[i] = a.pages[j]
        /\ \A i, j \in DOMAIN d.pages : d.pages[i].id = d.pages[j].id => i = j
        /\ \A x \in a.queries \ d.queries : \A i \in DOMAIN d.pages : d.pages[i].id # x.id
    BY <2>1 DEF Linked, OneOfEach, Unused
  <2>3. a.out \in Seq(Requests) /\ s \in Seq(Answers) /\ s = s
    BY <1>1, NowFacts
  <2> QED BY ONLY <2>1, <2>2, <2>3, FewerLinks
<1>9. Slots(d)
  <2>1. /\ d.inflight = a.inflight - 1 /\ d.queries = a.queries \ {q} /\ d.pages = a.pages
    BY <1>7 DEF Done
  <2>2. Cardinality(a.queries) \in Nat /\ SlotsHeld(a.pages) \in {0, 1} /\ MaxConcurrent \in Nat
    BY <1>1, NowFacts
  <2> QED BY <1>4, <1>5, <2>1, <2>2 DEF Slots, SlotsBut
<1>10. HeldBut(d, q.ch)
  <2> SUFFICES ASSUME NEW p \in PMs \ {q.ch}, d.held[p] # <<>> PROVE Fetching(d, p, 0)
    BY DEF HeldBut
  <2>1. Fetching(a, p, 0)
    BY <1>7, MamConstants DEF Kept, Held, HeldBut, Done, Channels
  <2> QED BY <1>7, <2>1 DEF Fetching, Done
<1>11. q.ch \in PMs => q.ch \in d.open
  <2>1. q.ch # Global => q.ch \in a.open
    BY DEF Kept, Linked, Asking
  <2> QED BY <1>7, <2>1, MamConstants DEF Done, Channels
<1>12. CASE q.ch = Global
  <2>1. b = d
    BY <1>2, <1>12
  <2>2. Held(d)
    BY <1>10, <1>12 DEF Held
  <2>3. Flushed(d, d, q.ch)
    BY DEF Flushed, SameFetches, There
  <2> HIDE DEF b
  <2>4. Kept(b, s)
    BY <1>7, <1>8, <1>9, <2>1, <2>2 DEF Kept
  <2>5. Typed(d) /\ Done(a, d, q) /\ Flushed(d, b, q.ch)
    BY <1>7, <2>1, <2>3
  <2> QED BY <2>4, <2>5 DEF b
<1>13. CASE q.ch # Global
  <2>1. b = Flush(d, q.ch)
    BY <1>2, <1>13
  <2> HIDE DEF b
  <2>2. Kept(b, s) /\ Flushed(d, b, q.ch)
    BY <1>1, <1>7, <1>8, <1>9, <1>10, <1>11, <2>1, FlushKeeps
  <2> QED BY <1>7, <2>2 DEF b
<1> QED BY <1>12, <1>13

LEMMA RegisterFacts ==
  ASSUME NEW a, Typed(a), NEW p \in PMs, NEW b, b = Register(a, p)
  PROVE  /\ Typed(b) /\ OnlyDb(a, b) /\ b.db.ts = a.db.ts
         /\ b.db.cache = a.db.cache /\ b.db.cursor = a.db.cursor
         /\ b.db.registered = a.db.registered \union {p} /\ b.db.wiped = a.db.wiped
<1> DEFINE registered == a.db.registered \union {p}
           d == [a.db EXCEPT !.registered = registered]
<1>1. a.db \in Dbs /\ IsFiniteSet(a.db.registered)
  BY DEF Typed, Accounts
<1>2. registered \in SUBSET PMs /\ IsFiniteSet(registered)
  BY <1>1, FS_AddElement DEF Dbs
<1>3. b = [a EXCEPT !.db.registered = registered]
  BY DEF Register
<1> HIDE DEF registered
<1>4. /\ d \in Dbs /\ d.registered = registered /\ d.ts = a.db.ts /\ d.cache = a.db.cache
      /\ d.cursor = a.db.cursor /\ d.wiped = a.db.wiped
  BY <1>1, <1>2 DEF Dbs
<1>5. b = [a EXCEPT !.db = d]
  BY <1>3
<1> HIDE DEF d
<1>6. Typed(b) /\ OnlyDb(a, b) /\ b.db = d
  <2>1. \A r \in Rooms : d.ts[r] # Closed
    BY <1>4 DEF Typed
  <2> QED BY <1>2, <1>4, <1>5, <2>1, DbChanges
<1> QED BY <1>4, <1>6 DEF registered

LEMMA SetCursorFacts ==
  ASSUME NEW a, Typed(a), NEW t \in Times, NEW b, b = SetCursor(a, t)
  PROVE  /\ Typed(b) /\ OnlyDb(a, b) /\ b.db.ts = a.db.ts
         /\ b.db.cache = a.db.cache /\ b.db.cursor = t
         /\ b.db.registered = a.db.registered /\ b.db.wiped = a.db.wiped
<1> DEFINE d == [a.db EXCEPT !.cursor = t]
<1>1. a.db \in Dbs /\ IsFiniteSet(a.db.registered)
  BY DEF Typed, Accounts
<1>2. /\ d \in Dbs /\ d.cursor = t /\ d.ts = a.db.ts /\ d.cache = a.db.cache
      /\ d.registered = a.db.registered /\ d.wiped = a.db.wiped
  BY <1>1 DEF Dbs
<1>3. b = [a EXCEPT !.db = d]
  BY DEF SetCursor
<1> HIDE DEF d
<1>4. Typed(b) /\ OnlyDb(a, b) /\ b.db = d
  <2>1. \A r \in Rooms : d.ts[r] # Closed
    BY <1>2 DEF Typed
  <2> QED BY <1>1, <1>2, <1>3, <2>1, DbChanges
<1> QED BY <1>2, <1>4

\* What is known of a chat moves.
Checked(a, b, q, complete) ==
  LET moves == q.stable /\ complete /\ q.end > a.last_fetch[q.ch]
  IN  /\ b.up = a.up /\ b.sm = a.sm /\ b.probed = a.probed /\ b.open = a.open
      /\ b.joining = a.joining /\ b.shown = a.shown /\ b.held = a.held /\ b.catchup = a.catchup
      /\ b.batch = a.batch /\ b.timer = a.timer /\ b.jitter = a.jitter /\ SameFetches(a, b)
      /\ b.last_fetch = IF moves THEN [a.last_fetch EXCEPT ![q.ch] = q.end] ELSE a.last_fetch
      /\ b.db.ts = IF moves THEN [a.db.ts EXCEPT ![q.ch] = q.end] ELSE a.db.ts
      /\ b.db.cache = a.db.cache /\ b.db.cursor = a.db.cursor /\ b.db.wiped = a.db.wiped
      /\ b.db.registered = IF q.ch \in PMs THEN a.db.registered \union {q.ch} ELSE a.db.registered

LEMMA CheckpointKeeps ==
  ASSUME NEW a, NEW s, Kept(a, s), NEW q \in a.queries, q.ch \in Channels, NEW complete \in BOOLEAN
  PROVE  LET b == Checkpoint(a, q, complete)
         IN  Kept(b, s) /\ Checked(a, b, q, complete)
<1> DEFINE moves == q.stable /\ complete /\ q.end > a.last_fetch[q.ch]
           lf == [a.last_fetch EXCEPT ![q.ch] = q.end]
           x == [a EXCEPT !.last_fetch = lf]
           y == SetLastTimestamp(x, q.ch, q.end)
           z == IF moves THEN y ELSE a
           b == Checkpoint(a, q, complete)
<1>1. Typed(a) /\ a \in Accounts /\ q \in Queries
  <2>1. Typed(a)
    BY DEF Kept
  <2> QED BY <2>1, NowFacts
<1>2. b = IF q.ch \in PMs THEN Register(z, q.ch) ELSE z
  BY DEF Checkpoint
<1>3. q.end \in Times /\ q.end \in Times \union {Closed} /\ lf \in [Channels -> Times]
  BY <1>1 DEF Queries, Accounts
<1> HIDE DEF moves, lf
<1>4. /\ x \in Accounts /\ SameFetches(a, x) /\ x.last_fetch = lf /\ x.shown = a.shown
      /\ x.up = a.up /\ x.sm = a.sm /\ x.probed = a.probed /\ x.joining = a.joining
      /\ x.held = a.held /\ x.catchup = a.catchup /\ x.batch = a.batch /\ x.jitter = a.jitter
      /\ x.db = a.db /\ x.timer = a.timer /\ x.open = a.open
  BY <1>1, <1>3 DEF Accounts, SameFetches
<1> HIDE DEF x
<1>5. Typed(x)
  BY <1>1, <1>4 DEF Typed, SameFetches
<1>6. /\ Typed(y) /\ OnlyDb(x, y) /\ y.db.ts = [x.db.ts EXCEPT ![q.ch] = q.end]
      /\ y.db.cache = x.db.cache /\ y.db.cursor = x.db.cursor
      /\ y.db.registered = x.db.registered /\ y.db.wiped = x.db.wiped
  <2>1. q.end # Closed
    BY <1>1, <1>3, NowFacts DEF Times, Closed
  <2> QED BY <1>3, <1>5, <2>1, SetLastTimestampFacts
<1> HIDE DEF y
<1>7. /\ Typed(z) /\ SameFetches(a, z) /\ z.last_fetch = (IF moves THEN lf ELSE a.last_fetch)
      /\ z.shown = a.shown
      /\ z.up = a.up /\ z.sm = a.sm /\ z.probed = a.probed /\ z.joining = a.joining
      /\ z.held = a.held /\ z.catchup = a.catchup /\ z.batch = a.batch /\ z.jitter = a.jitter
      /\ z.timer = a.timer /\ z.open = a.open
      /\ z.db.ts = (IF moves THEN [a.db.ts EXCEPT ![q.ch] = q.end] ELSE a.db.ts)
      /\ z.db.cache = a.db.cache /\ z.db.cursor = a.db.cursor
      /\ z.db.registered = a.db.registered /\ z.db.wiped = a.db.wiped
  <2>1. CASE moves
    <3>1. z = y
      BY <2>1
    <3> HIDE DEF z
    <3> QED BY <1>4, <1>6, <2>1, <3>1 DEF OnlyDb, SameFetches
  <2>2. CASE ~moves
    <3>1. z = a
      BY <2>2
    <3> HIDE DEF z
    <3> QED BY <1>1, <2>2, <3>1 DEF SameFetches
  <2> QED BY <2>1, <2>2
<1> HIDE DEF z
<1>8. Kept(z, s)
  <2>1. SameFetches(a, z) /\ Grows(a, z) /\ z.held = a.held
    BY <1>7 DEF Grows
  <2>2. Linked(z, s) /\ Slots(z) /\ Held(z)
    BY <2>1, SameLinks, SameSlots DEF Kept
  <2> QED BY <1>7, <2>2 DEF Kept
<1>9. CASE q.ch \in PMs
  <2>1. b = Register(z, q.ch)
    BY <1>2, <1>9
  <2> HIDE DEF b
  <2>2. /\ Typed(b) /\ OnlyDb(z, b) /\ b.db.ts = z.db.ts
        /\ b.db.cache = z.db.cache /\ b.db.cursor = z.db.cursor
        /\ b.db.registered = z.db.registered \union {q.ch} /\ b.db.wiped = z.db.wiped
    BY <1>7, <1>9, <2>1, RegisterFacts
  <2>3. Kept(b, s)
    BY <1>8, <2>2, OnlyDbKeeps DEF Kept
  <2>4. Checked(a, b, q, complete)
    BY <1>7, <1>9, <2>2 DEF Checked, OnlyDb, SameFetches, moves, lf
  <2> QED BY <2>3, <2>4 DEF b
<1>10. CASE q.ch \notin PMs
  <2>1. b = z
    BY <1>2, <1>10
  <2> HIDE DEF b
  <2>2. Checked(a, b, q, complete)
    BY <1>7, <1>10, <2>1 DEF Checked, moves, lf
  <2> QED BY <1>8, <2>1, <2>2 DEF b
<1> QED BY <1>9, <1>10

\* handle_mam_fin_iq_event, a chat's page
LEMMA ChatPageKeeps ==
  ASSUME NEW a, NEW s, Kept(a, s), s \in Seq(Answers), NEW q \in a.queries, Unused(q.id, a, s),
         q.ch \in a.open, NEW fin, fin.last \in Times, fin.complete \in BOOLEAN
  PROVE  Kept(ChatPage(a, q, fin), s)
<1> DEFINE g == Page(q.id, q.ch, q.start, q.end, fin.last, TRUE, FALSE)
           b == ChatPage(a, q, fin)
<1>1. /\ Typed(a) /\ q \in Queries /\ a.pages \in Seq(Pages) /\ q.ch \in Channels /\ q.ch # Global
      /\ IsFiniteSet(a.queries)
  <2>1. Typed(a)
    BY DEF Kept
  <2> QED BY <2>1, NowFacts
<1>2. CASE fin.last # 0 /\ ~fin.complete
  <2>1. b = Postpone(a, g)
    BY <1>2 DEF ChatPage
  <2>2. /\ g \in Pages /\ g.id = q.id /\ g.ch = q.ch /\ g.after = fin.last /\ g.end = q.end
        /\ ~g.slot_held /\ q.id # 0
    BY <1>1 DEF Page, Pages, Queries, Ids
  <2> HIDE DEF g, b
  <2>3. /\ Typed(b) /\ Aside(a, b) /\ Grows(a, b) /\ b.queries = a.queries /\ b.out = a.out
        /\ b.inflight = a.inflight /\ b.pages = Append(a.pages, g) /\ b.jitter = a.jitter
    BY <1>1, <2>1, <2>2, PostponeFacts
  <2>4. PageFits(g, b)
    BY <1>1, <1>2, <2>2, <2>3 DEF PageFits, Grows
  <2>5. Linked(b, s)
    <3>1. b.queries \subseteq a.queries /\ a.queries \ b.queries = {} /\ Linked(a, s)
      BY <2>3 DEF Kept
    <3>2. Unused(g.id, a, s)
      BY <2>2
    <3> QED BY <1>1, <2>3, <2>4, <3>1, <3>2, NewPage
  <2>6. Slots(b)
    BY <1>1, <2>2, <2>3, SlotsOfPages DEF Kept, Slots, SlotsBut
  <2>7. Held(b)
    <3>1. \A i \in DOMAIN a.pages : i \in DOMAIN b.pages /\ b.pages[i] = a.pages[i]
      BY <1>1, <2>3
    <3>2. Range(a.pages) \subseteq Range(b.pages)
      BY <3>1 DEF Range
    <3>3. \A p : Fetching(a, p, 0) => Fetching(b, p, 0)
      BY <2>3, <3>2 DEF Fetching
    <3> QED BY <2>3, <3>3 DEF Kept, Held, HeldBut, Aside
  <2> QED BY <2>3, <2>5, <2>6, <2>7 DEF Kept, b
<1>3. CASE ~(fin.last # 0 /\ ~fin.complete)
  <2> DEFINE c == Checkpoint(a, q, fin.complete)
  <2>1. b = Finish(c, q)
    BY <1>3 DEF ChatPage
  <2>2. Kept(c, s) /\ Checked(a, c, q, fin.complete)
    BY <1>1, CheckpointKeeps
  <2> HIDE DEF c, b
  <2>3. q \in c.queries /\ Unused(q.id, c, s)
    BY <2>2 DEF Checked, SameFetches, Unused
  <2>4. Kept(b, s)
    BY <2>1, <2>2, <2>3, FinishKeeps
  <2> QED BY <2>4 DEF b
<1> QED BY <1>2, <1>3

LEMMA GlobalAlone ==
  ASSUME NEW a, NEW s, Linked(a, s), NEW q \in a.queries, q.ch = Global
  PROVE  /\ \A i \in DOMAIN a.pages : a.pages[i].ch # Global
         /\ \A r \in a.queries \ {q} : r.ch # Global
<1>1. \A i \in DOMAIN a.pages : a.pages[i].ch # Global
  BY DEF Linked, Paged, PageFits
<1>2. \A r \in a.queries \ {q} : r.ch # Global
  BY DEF Linked, OneOfEach
<1> QED BY <1>1, <1>2

\* ... and one of the global catch-up's
LEMMA GlobalPageKeeps ==
  ASSUME NEW a, NEW s, Kept(a, s), s \in Seq(Answers), Later(s), NEW q \in a.queries,
         Unused(q.id, a, s), q.ch = Global, NEW fin, fin.last \in Times, fin.complete \in BOOLEAN
  PROVE  Kept(GlobalPage(a, q, fin), s)
<1> DEFINE at == IF q.stable /\ fin.last # 0 THEN SetCursor(a, fin.last) ELSE a
           g == Page(0, Global, q.start, q.end, fin.last, q.stable, TRUE)
           b == GlobalPage(a, q, fin)
<1>1. Typed(a) /\ q \in Queries
  <2>1. Typed(a)
    BY DEF Kept
  <2> QED BY <2>1, NowFacts
<1>2. b = IF fin.last # 0 /\ ~fin.complete THEN Postpone(Forget(at, q), g)
          ELSE Finish(IF fin.complete THEN at ELSE a, q)
  BY DEF GlobalPage
<1>3. Kept(at, s) /\ OnlyDb(a, at)
  <2>1. CASE ~(q.stable /\ fin.last # 0)
    BY <2>1 DEF OnlyDb, SameFetches
  <2>2. CASE q.stable /\ fin.last # 0
    <3>1. at = SetCursor(a, fin.last)
      BY <2>2
    <3> HIDE DEF at
    <3>2. Typed(at) /\ OnlyDb(a, at)
      BY <1>1, <3>1, SetCursorFacts
    <3> QED BY <3>2, OnlyDbKeeps DEF Kept
  <2> QED BY <2>1, <2>2
<1> HIDE DEF at
<1>4. Typed(at) /\ q \in at.queries /\ Unused(q.id, at, s)
  BY <1>3 DEF Kept, OnlyDb, SameFetches, Unused
<1>5. CASE fin.last # 0 /\ ~fin.complete
  <2> DEFINE f == Forget(at, q)
  <2>1. b = Postpone(f, g)
    BY <1>2, <1>5
  <2>2. /\ g \in Pages /\ g.id = 0 /\ g.ch = Global /\ g.slot_held
    BY <1>1 DEF Page, Pages, Queries, Chs
  <2> HIDE DEF g, b
  <2>3. /\ Typed(f) /\ Aside(at, f) /\ Grows(at, f) /\ f.queries = at.queries \ {q}
        /\ f.pages = at.pages /\ f.out = at.out /\ f.inflight = at.inflight
    <3> HIDE DEF f
    <3>1. f = Forget(at, q)
      BY DEF f
    <3> QED BY <1>4, <3>1, ForgetFacts
  <2> HIDE DEF f
  <2>4. /\ Typed(b) /\ Aside(f, b) /\ Grows(f, b) /\ b.queries = f.queries /\ b.out = f.out
        /\ b.inflight = f.inflight /\ b.pages = Append(f.pages, g)
    BY <2>1, <2>2, <2>3, PostponeFacts
  <2>5. Linked(at, s)
    BY <1>3 DEF Kept
  <2>6. /\ \A i \in DOMAIN at.pages : at.pages[i].ch # Global
        /\ \A r \in at.queries \ {q} : r.ch # Global
    BY <1>4, <2>5, GlobalAlone
  <2>7. at.probed
    BY <1>4, <2>5 DEF Linked, Asking
  <2>8. Grows(at, b) /\ b.queries = at.queries \ {q} /\ b.pages = Append(at.pages, g) /\ b.out = at.out
    BY <2>3, <2>4 DEF Grows
  <2>9. NoGlobal(f) /\ Linked(f, s)
    <3>1. NoGlobal(f)
      BY <2>3, <2>6 DEF NoGlobal
    <3>2. /\ Linked(at, s) /\ f.queries \subseteq at.queries /\ f.pages = at.pages /\ f.out = at.out
          /\ Grows(at, f) /\ at.queries \ f.queries = {q}
      BY <1>4, <2>3, <2>5
    <3>3. /\ \A i \in DOMAIN f.pages : \E j \in DOMAIN at.pages : f.pages[i] = at.pages[j]
          /\ \A i, j \in DOMAIN f.pages : f.pages[i].id = f.pages[j].id => i = j
          /\ \A x \in at.queries \ f.queries : \A i \in DOMAIN f.pages : f.pages[i].id # x.id
      BY <1>4, <3>2 DEF Linked, OneOfEach, Unused
    <3>4. at.out \in Seq(Requests) /\ s \in Seq(Answers) /\ s = s
      BY <1>4, NowFacts
    <3>5. Linked(f, s)
      BY ONLY <3>2, <3>3, <3>4, FewerLinks
    <3> QED BY <3>1, <3>5
  <2>10. Unused(0, f, s) /\ SlotsHeld(f.pages) = 0
    BY <2>3, <2>9, GlobalUnused
  <2>11. f.pages \in Seq(Pages) /\ f.probed /\ b.probed
    BY <2>3, <2>4, <2>7, NowFacts DEF Grows
  <2>12. PageFits(g, b)
    BY <2>2, <2>4, <2>9, <2>11 DEF PageFits, NoGlobal
  <2>13. Linked(b, s)
    <3>1. b.queries \subseteq f.queries /\ f.queries \ b.queries = {} /\ Unused(g.id, f, s)
      BY <2>2, <2>4, <2>10
    <3> QED BY <2>4, <2>9, <2>11, <2>12, <3>1, NewPage
  <2>14. Slots(b)
    <3>1. SlotsHeld(b.pages) = 1
      BY <2>2, <2>4, <2>11, SlotsOfPages
    <3>2. b.inflight = at.inflight /\ SlotsHeld(at.pages) = 0
      BY <2>3, <2>4, <2>10
    <3>3. Cardinality(at.queries) \in Nat /\ Cardinality(b.queries) = Cardinality(at.queries) - 1
      BY <1>4, <2>8, NowFacts, OneLess
    <3>4. at.inflight = Cardinality(at.queries) + SlotsHeld(at.pages) + 0 /\ at.inflight <= MaxConcurrent
      BY <1>3 DEF Kept, Slots, SlotsBut
    <3> QED BY <3>1, <3>2, <3>3, <3>4 DEF Slots, SlotsBut
  <2>15. Held(b)
    <3> SUFFICES ASSUME NEW p \in PMs, b.held[p] # <<>> PROVE Fetching(b, p, 0)
      BY DEF Held, HeldBut
    <3>1. \A i \in DOMAIN at.pages : i \in DOMAIN b.pages /\ b.pages[i] = at.pages[i]
      BY <2>3, <2>8, <2>11
    <3>2. Range(at.pages) \subseteq Range(b.pages)
      BY <3>1 DEF Range
    <3>3. p # Global /\ q.ch # p
      BY MamConstants DEF Channels
    <3>4. b.held = at.held
      BY <2>3, <2>4 DEF Aside
    <3>5. Fetching(at, p, 0)
      BY <1>3, <3>3, <3>4 DEF Kept, Held, HeldBut
    <3> QED BY <2>8, <3>2, <3>3, <3>5 DEF Fetching
  <2> QED BY <2>4, <2>13, <2>14, <2>15 DEF Kept, b
<1>6. CASE ~(fin.last # 0 /\ ~fin.complete)
  <2> DEFINE c == IF fin.complete THEN at ELSE a
  <2>1. b = Finish(c, q)
    BY <1>2, <1>6
  <2>2. Kept(c, s) /\ q \in c.queries /\ Unused(q.id, c, s)
    BY <1>3, <1>4
  <2> HIDE DEF c, b
  <2>3. Kept(b, s)
    BY <2>1, <2>2, FinishKeeps
  <2> QED BY <2>3 DEF b
<1> QED BY <1>5, <1>6

-----------------------------------------------------------------------------
(* An answer that ends a query's page.                                     *)

\* The first answer is received: what it ends is not used elsewhere.
LEMMA FirstAnswer ==
  ASSUME NEW a, NEW s, Kept(a, s), s \in Seq(Answers), s # <<>>
  PROVE  /\ Head(s) \in Answers /\ Tail(s) \in Seq(Answers)
         /\ Kept(a, Tail(s))
         /\ IsEnd(Head(s)) => Unused(Head(s).id, a, Tail(s))
<1> DEFINE t == Tail(s)
<1>1. /\ Head(s) = s[1] /\ 1 \in DOMAIN s /\ s[1] \in Answers /\ t \in Seq(Answers)
      /\ \A i \in DOMAIN t : i \in Nat /\ i + 1 \in DOMAIN s /\ t[i] = s[i + 1] /\ i + 1 # 1
  OBVIOUS
<1>2. Typed(a) /\ Linked(a, s) /\ t = Tail(s)
  BY DEF Kept
<1> HIDE DEF t
<1>3. Linked(a, t)
  <2>1. a.out \in Seq(Requests) /\ Grows(a, a)
    BY <1>2, NowFacts DEF Grows
  <2>2. /\ \A i \in DOMAIN a.pages : \E j \in DOMAIN a.pages : a.pages[i] = a.pages[j]
        /\ \A i, j \in DOMAIN a.pages : a.pages[i].id = a.pages[j].id => i = j
        /\ \A q \in a.queries \ a.queries : \A i \in DOMAIN a.pages : a.pages[i].id # q.id
        /\ a.queries \subseteq a.queries /\ a.out = a.out
    BY <1>2 DEF Linked, OneOfEach
  <2> QED BY <1>2, <2>1, <2>2, FewerLinks
<1>4. Kept(a, t)
  BY <1>3 DEF Kept
<1>5. ASSUME IsEnd(s[1]) PROVE Unused(s[1].id, a, t)
  <2>1. OneEnd(a, s)
    BY <1>2 DEF Linked
  <2>2. /\ \A j \in DOMAIN a.pages : a.pages[j].id # s[1].id
        /\ \A j \in DOMAIN a.out : a.out[j].id # s[1].id
    BY <1>1, <1>5, <2>1 DEF OneEnd
  <2>3. \A i \in DOMAIN t : IsEnd(t[i]) => t[i].id # s[1].id
    BY <1>1, <1>5, <2>1 DEF OneEnd
  <2> QED BY <2>2, <2>3 DEF Unused
<1> QED BY <1>1, <1>4, <1>5 DEF t

\* What a query has been found to be is remembered.
LEMMA SwapKeeps ==
  ASSUME NEW a, NEW s, Kept(a, s), NEW q \in a.queries, NEW r \in Queries,
         r.id = q.id, r.ch = q.ch, r.end = q.end,
         NEW b, b = [a EXCEPT !.queries = (a.queries \ {q}) \union {r}]
  PROVE  /\ Kept(b, s) /\ Aside(a, b) /\ b.queries = (a.queries \ {q}) \union {r}
         /\ b.pages = a.pages /\ b.out = a.out /\ b.inflight = a.inflight /\ b.timer = a.timer
         /\ b.jitter = a.jitter
<1> DEFINE Q == (a.queries \ {q}) \union {r}
<1>1. /\ a \in Accounts /\ a.queries \in SUBSET Queries /\ IsFiniteSet(a.queries) /\ Typed(a)
  <2>1. Typed(a)
    BY DEF Kept
  <2> QED BY <2>1, NowFacts
<1>2. OneOfEach(a) /\ OneEnd(a, s) /\ Paged(a) /\ Asking(a)
  BY DEF Kept, Linked
<1>3. \A x \in a.queries \ {q} : x.id # q.id /\ x.ch # q.ch
  BY <1>2 DEF OneOfEach
<1>4. Q \in SUBSET Queries /\ IsFiniteSet(Q) /\ Cardinality(Q) = Cardinality(a.queries)
  <2>1. r \notin a.queries \ {q}
    BY <1>3
  <2> QED BY <1>1, <2>1, OneOther
<1>5. \A x \in Q : x = r \/ (x \in a.queries /\ x # q)
  OBVIOUS
<1>6. \A x \in a.queries : x # q => x \in Q
  OBVIOUS
<1>7. r \in Q
  OBVIOUS
<1> HIDE DEF Q
<1>8. /\ b \in Accounts /\ Aside(a, b) /\ b.queries = Q /\ b.pages = a.pages /\ b.out = a.out
      /\ b.inflight = a.inflight /\ b.timer = a.timer /\ b.jitter = a.jitter
  <2>1. b = [a EXCEPT !.queries = Q]
    BY DEF Q
  <2> QED BY <1>1, <1>4, <2>1 DEF Accounts, Aside
<1>9. Typed(b)
  BY ONLY <1>1, <1>4, <1>8 DEF Typed, Aside
<1>10. OneOfEach(b) /\ OneEnd(b, s)
  <2>1. \A x, y \in b.queries : (x.id = y.id \/ x.ch = y.ch) => x = y
    BY <1>2, <1>3, <1>5, <1>8 DEF OneOfEach
  <2> QED BY <1>2, <1>8, <2>1 DEF OneOfEach, OneEnd
<1>11. Paged(b)
  <2> SUFFICES ASSUME NEW i \in DOMAIN a.pages PROVE PageFits(a.pages[i], b)
    BY <1>8 DEF Paged
  <2>1. PageFits(a.pages[i], a)
    BY <1>2 DEF Paged
  <2>2. b.open = a.open /\ b.probed = a.probed
    BY <1>8 DEF Aside
  <2> HIDE DEF Global
  <2> QED BY <1>5, <1>6, <1>7, <1>8, <2>1, <2>2 DEF PageFits
<1>12. Asking(b)
  <2>1. \A x \in b.queries : IF x.ch = Global THEN b.probed ELSE x.ch \in b.open
    BY <1>2, <1>5, <1>8 DEF Asking, Aside
  <2>2. \A i \in DOMAIN b.out, x \in b.queries : Asks(b.out[i], x)
    BY <1>2, <1>5, <1>8 DEF Asking, Asks
  <2> QED BY <2>1, <2>2 DEF Asking
<1>13. Slots(b)
  BY <1>4, <1>8 DEF Kept, Slots, SlotsBut
<1>14. Held(b)
  <2>1. \A p : Fetching(a, p, 0) => Fetching(b, p, 0)
    <3> SUFFICES ASSUME NEW p, Fetching(a, p, 0) PROVE Fetching(b, p, 0)
      OBVIOUS
    <3>1. CASE \E x \in a.queries : x.ch = p /\ x.id # 0
      BY <1>6, <1>7, <1>8, <3>1 DEF Fetching
    <3> QED BY <1>8, <3>1 DEF Fetching
  <2> QED BY <1>8, <2>1 DEF Kept, Held, HeldBut, Aside
<1> QED BY <1>8, <1>9, <1>10, <1>11, <1>12, <1>13, <1>14 DEF Kept, Linked, Q

\* handle_mam_fin_iq_event
LEMMA FinKeeps ==
  ASSUME NEW a, NEW s, Kept(a, s), s \in Seq(Answers), Later(s), NEW fin \in Answers,
         fin.kind = "fin", Unused(fin.id, a, s)
  PROVE  Kept(Fin(a, fin), s)
<1> DEFINE c == Commit(a)
           known == {q \in a.queries : q.id = fin.id}
           q == CHOOSE k \in known : TRUE
           q1 == [q EXCEPT !.stable = q.stable /\ fin.stable]
           b == [c EXCEPT !.queries = (c.queries \ {q}) \union {q1}]
           f == Fin(a, fin)
<1>1. /\ fin.last \in Times /\ fin.complete \in BOOLEAN /\ fin.stable \in BOOLEAN
      /\ fin.abort \in BOOLEAN
  BY DEF Answers
<1>2. Kept(c, s) /\ Committed(a, c)
  <2> HIDE DEF c
  <2>1. Typed(a) /\ c = Commit(a)
    BY DEF Kept, c
  <2> QED BY <2>1, CommitFacts
<1>3. f = IF known = {} THEN c
          ELSE IF fin.abort THEN Finish(b, q1)
          ELSE IF q.ch \in a.open THEN ChatPage(b, q1, fin)
          ELSE IF q.ch = Global THEN GlobalPage(b, q1, fin) ELSE Cancel(b, q.ch)
  BY DEF Fin
<1> HIDE DEF c, f, b
<1>4. CASE known = {}
  BY <1>2, <1>3, <1>4 DEF f
<1>5. CASE known # {}
  <2>1. q \in a.queries /\ q.id = fin.id
    BY <1>5
  <2> HIDE DEF q, known
  <2>2. q \in Queries /\ q \in c.queries /\ Typed(c)
    <3>1. Typed(a) /\ Typed(c)
      BY <1>2 DEF Kept
    <3> QED BY <1>2, <2>1, <3>1, NowFacts DEF Committed, SameFetches
  <2>3. /\ q1 \in Queries /\ q1.id = q.id /\ q1.ch = q.ch /\ q1.end = q.end /\ q1.start = q.start
    BY <1>1, <2>2 DEF Queries
  <2> HIDE DEF q1
  <2>4. /\ Kept(b, s) /\ Aside(c, b) /\ b.queries = (c.queries \ {q}) \union {q1}
        /\ b.pages = c.pages /\ b.out = c.out
    <3>1. b = [c EXCEPT !.queries = (c.queries \ {q}) \union {q1}]
      BY DEF b
    <3> QED BY ONLY <1>2, <2>2, <2>3, <3>1, SwapKeeps
  <2>5. q1 \in b.queries /\ Unused(q1.id, b, s) /\ b.open = a.open
    BY <1>2, <2>1, <2>3, <2>4 DEF Unused, Committed, SameFetches, Aside
  <2>6. q.ch \in a.open \/ q.ch = Global
    BY <2>1 DEF Kept, Linked, Asking
  <2>7. CASE fin.abort
    BY <1>3, <1>5, <2>4, <2>5, <2>7, FinishKeeps DEF f
  <2>8. CASE ~fin.abort /\ q.ch \in a.open
    <3>1. f = ChatPage(b, q1, fin)
      BY <1>3, <1>5, <2>8
    <3> QED BY <1>1, <2>3, <2>4, <2>5, <2>8, <3>1, ChatPageKeeps DEF f
  <2>9. CASE ~fin.abort /\ q.ch \notin a.open
    <3>1. f = GlobalPage(b, q1, fin) /\ q1.ch = Global
      BY <1>3, <1>5, <2>3, <2>6, <2>9
    <3> QED BY <1>1, <2>4, <2>5, <3>1, GlobalPageKeeps DEF f
  <2> QED BY <2>7, <2>8, <2>9
<1> QED BY <1>4, <1>5

-----------------------------------------------------------------------------
(* cancel_channel_mam                                                      *)

LEMMA FoldWithout ==
  ASSUME NEW pages \in Seq(Pages), NEW ch
  PROVE  \E w \in [0..Len(pages) -> Seq(Pages)] :
           /\ w[0] = <<>> /\ Without(pages, ch) = w[Len(pages)]
           /\ \A i \in 1..Len(pages) :
                w[i] = IF pages[i].ch = ch THEN w[i - 1] ELSE Append(w[i - 1], pages[i])
<1> DEFINE n == Len(pages)
           S == 1..n
           A == Seq(Pages)
           none == <<>>
           More(rest, g) == IF g.ch = ch THEN rest ELSE Append(rest, g)
           pick == [s \in SUBSET S |-> Max(s)]
           step == [p \in S \X A |-> More(p[2], pages[p[1]])]
<1>1. n \in Nat /\ DOMAIN pages = 1..n /\ IsFiniteSet(1..n) /\ none \in A
  BY FS_Interval
<1>2. Picks(pick, S)
  <2> HIDE DEF n
  <2> QED BY <1>1, MaxIsMember DEF Picks
<1>3. ASSUME NEW b \in A, NEW i \in S PROVE More(b, pages[i]) \in A
  BY <1>1
<1>4. step \in [S \X A -> A]
  BY <1>3
<1> HIDE DEF A, More, none
<1>5. PICK f \in [SUBSET S -> A] : Recurs(f, S, none, step, pick)
  <2> HIDE DEF pick, step, S
  <2> QED BY <1>1, <1>2, <1>4, FoldExists DEF S
<1> DEFINE Is(it) == it = [s \in SUBSET S |-> IF s = {} THEN none
                            ELSE More(it[s \ {Max(s)}], pages[Max(s)])]
           iter == CHOOSE it : Is(it)
<1>6. Is(f)
  <2>1. ASSUME NEW s \in SUBSET S
        PROVE  f[s] = IF s = {} THEN none ELSE More(f[s \ {Max(s)}], pages[Max(s)])
    <3>1. f[s] = IF s = {} THEN none ELSE step[pick[s], f[s \ {pick[s]}]]
      <4> HIDE DEF pick, step
      <4> QED BY <1>5 DEF Recurs
    <3>2. s # {} => (Max(s) \in S /\ pick[s] = Max(s) /\ f[s \ {Max(s)}] \in A)
      BY <1>2, <1>5 DEF Picks
    <3> QED BY <3>1, <3>2
  <2> HIDE DEF S
  <2> QED BY <2>1, <1>5
<1>7. Is(iter)
  <2> HIDE DEF Is
  <2> QED BY <1>6
<1> HIDE DEF iter
<1>8. iter[{}] = none
  BY <1>7
<1> DEFINE T == {i \in Nat : i <= n => iter[1..i] \in A}
<1>9. 0 \in T
  <2>1. 1..0 = {}
    OBVIOUS
  <2> QED BY <1>1, <1>8, <2>1
<1>10. ASSUME NEW i \in 1..n PROVE iter[1..i] = More(iter[1..(i - 1)], pages[i])
  <2> HIDE DEF n
  <2>1. 1..i \in SUBSET (1..n) /\ 1..i # {} /\ Max(1..i) = i /\ (1..i) \ {i} = 1..(i - 1)
    BY <1>1, InitialSegments
  <2> QED BY <1>7, <2>1
<1>11. ASSUME NEW i \in Nat, i \in T PROVE i + 1 \in T
  <2> SUFFICES ASSUME i + 1 <= n PROVE iter[1..(i + 1)] \in A
    OBVIOUS
  <2> HIDE DEF n
  <2>1. i + 1 \in 1..n /\ (i + 1) - 1 = i /\ i <= n
    BY <1>1
  <2>2. iter[1..(i + 1)] = More(iter[1..i], pages[i + 1])
    <3> HIDE DEF Is
    <3>1. iter[1..(i + 1)] = More(iter[1..((i + 1) - 1)], pages[i + 1])
      BY <1>10, <2>1
    <3> QED BY <2>1, <3>1
  <2> QED BY <1>3, <1>11, <2>1, <2>2
<1>12. \A i \in 0..n : iter[1..i] \in A
  <2> HIDE DEF T
  <2>1. Nat \subseteq T
    BY <1>9, <1>11, NumberInduction
  <2> QED BY <1>1, <2>1 DEF T
<1>13. Without(pages, ch) = iter[1..n]
  BY <1>1 DEF Without, FoldLeft, MapThenFoldSet, iter, Is, More, none
<1> DEFINE w == [i \in 0..n |-> iter[1..i]]
<1> HIDE DEF Is
<1>14. w \in [0..n -> A] /\ w[0] = none /\ w[n] = Without(pages, ch)
  <2>1. 1..0 = {} /\ 0 \in 0..n /\ n \in 0..n
    BY <1>1
  <2> QED BY <1>8, <1>12, <1>13, <2>1
<1>15. ASSUME NEW i \in 1..n PROVE w[i] = More(w[i - 1], pages[i])
  <2>1. i \in 0..n /\ i - 1 \in 0..n
    BY <1>1
  <2> QED BY <1>10, <2>1
<1> QED BY <1>14, <1>15 DEF A, More, none

\* What is left is what is not of the chat, each once.
LEMMA WithoutFacts ==
  ASSUME NEW pages \in Seq(Pages), NEW ch,
         \A i, j \in DOMAIN pages : pages[i].id = pages[j].id => i = j
  PROVE  LET w == Without(pages, ch)
         IN  /\ w \in Seq(Pages)
             /\ \A i \in DOMAIN w : \E j \in DOMAIN pages : w[i] = pages[j] /\ w[i].ch # ch
             /\ \A j \in DOMAIN pages : pages[j].ch # ch => \E i \in DOMAIN w : w[i] = pages[j]
             /\ \A i, j \in DOMAIN w : w[i].id = w[j].id => i = j
<1> DEFINE n == Len(pages)
           Some(w, k) == \A i \in DOMAIN w : \E j \in 1..k : w[i] = pages[j] /\ w[i].ch # ch
           Every(w, k) == \A j \in 1..k : pages[j].ch # ch => \E i \in DOMAIN w : w[i] = pages[j]
           Once(w) == \A i, j \in DOMAIN w : w[i].id = w[j].id => i = j
           Left(w, k) == Some(w, k) /\ Every(w, k) /\ Once(w)
<1>1. n \in Nat /\ DOMAIN pages = 1..n
  OBVIOUS
<1>2. PICK w \in [0..n -> Seq(Pages)] :
        /\ w[0] = <<>> /\ Without(pages, ch) = w[n]
        /\ \A i \in 1..n : w[i] = IF pages[i].ch = ch THEN w[i - 1] ELSE Append(w[i - 1], pages[i])
  BY FoldWithout
<1> DEFINE T == {k \in Nat : k <= n => Left(w[k], k)}
<1>3. 0 \in T
  BY <1>2
<1>4. ASSUME NEW k \in Nat, k \in T PROVE k + 1 \in T
  <2> SUFFICES ASSUME k + 1 <= n PROVE Left(w[k + 1], k + 1)
    OBVIOUS
  <2> HIDE DEF n
  <2> DEFINE u == w[k]
             v == w[k + 1]
             g == pages[k + 1]
  <2>1. k + 1 \in 1..n /\ (k + 1) - 1 = k /\ k \in 0..n /\ k <= n
    BY <1>1
  <2>2. v = IF g.ch = ch THEN u ELSE Append(u, g)
    <3>1. w[k + 1] = IF pages[k + 1].ch = ch THEN w[(k + 1) - 1] ELSE Append(w[(k + 1) - 1], pages[k + 1])
      BY <1>2, <2>1
    <3> QED BY <2>1, <3>1
  <2>3. Left(u, k) /\ u \in Seq(Pages)
    BY <1>2, <1>4, <2>1
  <2>4. \A j \in 1..(k + 1) : j = k + 1 \/ j \in 1..k
    OBVIOUS
  <2>5. 1..k \subseteq 1..(k + 1) /\ k + 1 \in 1..(k + 1)
    OBVIOUS
  <2>6. \A j \in 1..k : pages[j].id # g.id
    <3> SUFFICES ASSUME NEW j \in 1..k PROVE pages[j].id # g.id
      OBVIOUS
    <3>1. j \in 1..n /\ j # k + 1
      BY <1>1, <2>1
    <3> QED BY <1>1, <2>1, <3>1
  <2> HIDE DEF u, v, g
  <2>7. CASE g.ch = ch
    <3>1. v = u
      BY <2>2, <2>7
    <3>2. Some(v, k + 1) /\ Once(v)
      BY <2>3, <2>5, <3>1
    <3>3. Every(v, k + 1)
      BY <2>3, <2>4, <2>7, <3>1 DEF g
    <3> QED BY <3>2, <3>3 DEF v
  <2>8. CASE g.ch # ch
    <3>1. v = Append(u, g)
      BY <2>2, <2>8
    <3>2. /\ \A i \in DOMAIN v : (i \in DOMAIN u /\ v[i] = u[i]) \/ (i = Len(u) + 1 /\ v[i] = g)
          /\ \A i \in DOMAIN u : i \in DOMAIN v /\ v[i] = u[i]
          /\ Len(u) + 1 \in DOMAIN v /\ v[Len(u) + 1] = g
      BY <2>3, <3>1
    <3>3. Some(v, k + 1)
      <4> SUFFICES ASSUME NEW i \in DOMAIN v
                   PROVE  \E j \in 1..(k + 1) : v[i] = pages[j] /\ v[i].ch # ch
        OBVIOUS
      <4>1. CASE i \in DOMAIN u /\ v[i] = u[i]
        BY <2>3, <2>5, <4>1
      <4>2. CASE v[i] = g
        BY <2>5, <2>8, <4>2 DEF g
      <4> QED BY <3>2, <4>1, <4>2
    <3>4. Every(v, k + 1)
      BY <2>3, <2>4, <3>2 DEF g
    <3>5. Once(v)
      <4>1. \A i \in DOMAIN u : u[i].id # g.id
        BY <2>3, <2>6
      <4> QED BY <2>3, <3>2, <4>1
    <3> QED BY <3>3, <3>4, <3>5 DEF v
  <2> QED BY <2>7, <2>8
<1>5. Left(w[n], n)
  <2> HIDE DEF T, Left
  <2>1. Nat \subseteq T
    BY <1>3, <1>4, NumberInduction
  <2> QED BY <1>1, <2>1 DEF T
<1> DEFINE v == w[n]
<1>6. /\ v \in Seq(Pages) /\ v = Without(pages, ch)
      /\ \A i \in DOMAIN v : \E j \in DOMAIN pages : v[i] = pages[j] /\ v[i].ch # ch
      /\ \A j \in DOMAIN pages : pages[j].ch # ch => \E i \in DOMAIN v : v[i] = pages[j]
      /\ \A i, j \in DOMAIN v : v[i].id = v[j].id => i = j
  <2> HIDE DEF T, n, v
  <2>1. v \in Seq(Pages) /\ v = Without(pages, ch)
    BY <1>1, <1>2 DEF v
  <2>2. Some(v, n) /\ Every(v, n) /\ Once(v)
    BY <1>5 DEF v
  <2> QED BY ONLY <1>1, <2>1, <2>2
<1> HIDE DEF v, n
<1> QED BY <1>6

LEMMA ReleaseAny ==
  ASSUME NEW a, Typed(a), NEW n \in Nat, n <= a.inflight, NEW b, b = Release(a, n)
  PROVE  /\ Typed(b) /\ Aside(a, b) /\ b.queries = a.queries /\ b.pages = a.pages
         /\ b.out = a.out /\ b.inflight = a.inflight - n /\ b.jitter = a.jitter
         /\ a.timer => b.timer
         /\ (n > 0 /\ a.pages # <<>> /\ a.up) => b.timer
<1>1. CASE n > 0
  BY <1>1, ReleaseFacts
<1>2. CASE ~(n > 0)
  <2> DEFINE k == IF a.inflight > n THEN a.inflight - n ELSE 0
             c == [a EXCEPT !.inflight = k]
  <2>1. n = 0 /\ a.inflight \in Nat /\ k = a.inflight /\ a \in Accounts
    BY <1>2, NowFacts
  <2>2. b = c
    BY <1>2 DEF Release
  <2> HIDE DEF k
  <2>3. c = a
    BY <2>1 DEF Accounts
  <2> QED BY <1>2, <2>1, <2>2, <2>3 DEF Aside
<1> QED BY <1>1, <1>2

\* What a cancelled chat's fetch leaves.
Cancelled(a, b, ch) ==
  /\ b.queries = {q \in a.queries : q.ch # ch}
  /\ \A i \in DOMAIN b.pages : \E j \in DOMAIN a.pages : b.pages[i] = a.pages[j] /\ b.pages[i].ch # ch
  /\ \A j \in DOMAIN a.pages : a.pages[j].ch # ch => \E i \in DOMAIN b.pages : b.pages[i] = a.pages[j]
  /\ b.held = [p \in PMs |-> IF p = ch THEN <<>> ELSE a.held[p]]
  /\ b.out = a.out /\ b.jitter = a.jitter
  /\ b.up = a.up /\ b.sm = a.sm /\ b.probed = a.probed /\ b.open = a.open
  /\ b.joining = a.joining /\ b.shown = a.shown /\ b.last_fetch = a.last_fetch
  /\ b.catchup = a.catchup /\ b.batch = a.batch /\ b.db = a.db
  /\ a.timer => b.timer

LEMMA CancelKeeps ==
  ASSUME NEW a, NEW s, Kept(a, s), s \in Seq(Answers), NEW ch \in Channels
  PROVE  LET b == Cancel(a, ch)
         IN  Kept(b, s) /\ Cancelled(a, b, ch)
<1> DEFINE gone == {q \in a.queries : q.ch = ch}
           Q == a.queries \ gone
           w == Without(a.pages, ch)
           h == [p \in PMs |-> IF p = ch THEN <<>> ELSE a.held[p]]
           x == [a EXCEPT !.queries = Q, !.pages = w, !.held = h]
           n == Cardinality(gone)
           b == Cancel(a, ch)
<1>1. /\ Typed(a) /\ a \in Accounts /\ a.queries \in SUBSET Queries /\ IsFiniteSet(a.queries)
      /\ a.pages \in Seq(Pages) /\ Linked(a, s) /\ a.out \in Seq(Requests) /\ a.inflight \in Nat
      /\ Cardinality(a.queries) \in Nat /\ SlotsHeld(a.pages) \in {0, 1} /\ ch # Global
  <2>1. Typed(a) /\ Linked(a, s)
    BY DEF Kept
  <2> QED BY <2>1, NowFacts, MamConstants DEF Channels
<1>2. b = Release(x, n)
  BY DEF Cancel
<1>3. /\ Q \in SUBSET Queries /\ IsFiniteSet(Q) /\ n \in Nat
      /\ Cardinality(Q) = Cardinality(a.queries) - n /\ Cardinality(Q) \in Nat
      /\ Q = {q \in a.queries : q.ch # ch}
  <2>1. gone \subseteq a.queries /\ a.queries \intersect gone = gone
    OBVIOUS
  <2> HIDE DEF gone
  <2>2. IsFiniteSet(Q) /\ IsFiniteSet(gone) /\ Cardinality(Q) = Cardinality(a.queries) - n
    BY <1>1, <2>1, FS_Difference, FS_Subset, ZenonT(30)
  <2> QED BY <1>1, <2>2, FS_CardinalityType DEF gone
<1>4. /\ w \in Seq(Pages)
      /\ \A i \in DOMAIN w : \E j \in DOMAIN a.pages : w[i] = a.pages[j] /\ w[i].ch # ch
      /\ \A j \in DOMAIN a.pages : a.pages[j].ch # ch => \E i \in DOMAIN w : w[i] = a.pages[j]
      /\ \A i, j \in DOMAIN w : w[i].id = w[j].id => i = j
  <2>1. \A i, j \in DOMAIN a.pages : a.pages[i].id = a.pages[j].id => i = j
    BY <1>1 DEF Linked, OneOfEach
  <2> QED BY <1>1, <2>1, WithoutFacts
<1>5. /\ h \in [PMs -> Seq(HeldMessages)] /\ \A p \in PMs : h[p] = <<>> \/ (h[p] = a.held[p] /\ p # ch)
  BY <1>1 DEF Accounts
<1> HIDE DEF Q, w, h, n
<1>6. /\ x \in Accounts /\ x.queries = Q /\ x.pages = w /\ x.held = h
      /\ x.out = a.out /\ x.jitter = a.jitter /\ x.timer = a.timer /\ x.inflight = a.inflight
      /\ x.up = a.up /\ x.sm = a.sm /\ x.probed = a.probed /\ x.open = a.open
      /\ x.joining = a.joining /\ x.shown = a.shown /\ x.last_fetch = a.last_fetch
      /\ x.catchup = a.catchup /\ x.batch = a.batch /\ x.db = a.db
  BY <1>1, <1>3, <1>4, <1>5 DEF Accounts
<1> HIDE DEF x
<1>7. Typed(x)
  <2>1. \A p \in PMs : \A i \in DOMAIN x.held[p] : archive[x.held[p][i].m] = p
    <3> SUFFICES ASSUME NEW p \in PMs, NEW i \in DOMAIN x.held[p] PROVE archive[x.held[p][i].m] = p
      OBVIOUS
    <3>1. CASE h[p] = <<>>
      BY <1>6, <3>1
    <3>2. CASE h[p] = a.held[p]
      BY <1>1, <1>6, <3>2 DEF Typed
    <3> QED BY <1>5, <3>1, <3>2
  <2> QED BY <1>1, <1>3, <1>6, <2>1 DEF Typed
<1>8. a.inflight = Cardinality(a.queries) + SlotsHeld(a.pages) + 0 /\ a.inflight <= MaxConcurrent
  BY DEF Kept, Slots, SlotsBut
<1>9. n <= x.inflight
  BY <1>1, <1>3, <1>6, <1>8
<1>10. /\ Typed(b) /\ Aside(x, b) /\ b.queries = Q /\ b.pages = w
       /\ b.out = a.out /\ b.inflight = a.inflight - n /\ b.jitter = a.jitter
       /\ a.timer => b.timer
  <2> HIDE DEF b
  <2>1. /\ Typed(b) /\ Aside(x, b) /\ b.queries = x.queries /\ b.pages = x.pages
        /\ b.out = x.out /\ b.inflight = x.inflight - n /\ b.jitter = x.jitter
        /\ x.timer => b.timer
    BY ONLY <1>2, <1>3, <1>7, <1>9, ReleaseAny DEF b
  <2> QED BY <1>6, <2>1
<1> HIDE DEF b
<1>11. Cancelled(a, b, ch)
  BY <1>3, <1>4, <1>6, <1>10 DEF Cancelled, Aside, h
<1>12. Linked(b, s)
  <2>1. /\ b.queries \subseteq a.queries
        /\ \A i \in DOMAIN b.pages : \E j \in DOMAIN a.pages : b.pages[i] = a.pages[j]
        /\ \A i, j \in DOMAIN b.pages : b.pages[i].id = b.pages[j].id => i = j
        /\ b.out = a.out /\ Grows(a, b)
    BY <1>3, <1>4, <1>6, <1>10 DEF Grows, Aside
  <2>2. \A q \in a.queries \ b.queries : \A i \in DOMAIN b.pages : b.pages[i].id # q.id
    <3> SUFFICES ASSUME NEW q \in a.queries \ b.queries, NEW i \in DOMAIN b.pages, b.pages[i].id = q.id
                 PROVE  FALSE
      OBVIOUS
    <3>1. q.ch = ch
      BY <1>3, <1>10
    <3>2. PICK j \in DOMAIN a.pages : b.pages[i] = a.pages[j] /\ b.pages[i].ch # ch
      BY <1>4, <1>10
    <3>3. PageFits(a.pages[j], a) /\ a.pages[j] \in Pages /\ q.id # 0
      BY <1>1 DEF Linked, Paged, Queries, Ids
    <3>4. \E r \in a.queries : r.id = q.id /\ r.ch = a.pages[j].ch
      BY <3>2, <3>3 DEF PageFits
    <3> QED BY <1>1, <3>1, <3>2, <3>4 DEF Linked, OneOfEach
  <2>3. a.out \in Seq(Requests) /\ s \in Seq(Answers) /\ s = s /\ Linked(a, s)
    BY <1>1
  <2> QED BY ONLY <2>1, <2>2, <2>3, FewerLinks
<1>13. Slots(b)
  <2>1. \A j \in DOMAIN a.pages : a.pages[j].slot_held => a.pages[j].ch # ch
    BY <1>1 DEF Linked, Paged, PageFits
  <2>2. SlotsHeld(b.pages) = SlotsHeld(a.pages)
    BY <1>4, <1>10, <2>1 DEF SlotsHeld
  <2> QED BY <1>1, <1>3, <1>8, <1>10, <2>2, MamConstants DEF Slots, SlotsBut
<1>14. Held(b)
  <2> SUFFICES ASSUME NEW p \in PMs, b.held[p] # <<>> PROVE Fetching(b, p, 0)
    BY DEF Held, HeldBut
  <2>1. a.held[p] # <<>> /\ p # ch /\ p # Global
    BY <1>5, <1>6, <1>10, MamConstants DEF Aside, Channels
  <2>2. Fetching(a, p, 0)
    BY <2>1 DEF Kept, Held, HeldBut
  <2>3. CASE \E q \in a.queries : q.ch = p /\ q.id # 0
    BY <1>3, <1>10, <2>1, <2>3 DEF Fetching
  <2>4. CASE \E g \in Range(a.pages) : g.ch = p /\ g.after = 0
    <3>1. PICK j \in DOMAIN a.pages : a.pages[j].ch = p /\ a.pages[j].after = 0
      BY <2>4 DEF Range
    <3>2. \E i \in DOMAIN b.pages : b.pages[i] = a.pages[j]
      BY <1>4, <1>10, <2>1, <3>1
    <3> QED BY <3>1, <3>2 DEF Fetching, Range
  <2> QED BY <2>2, <2>3, <2>4 DEF Fetching
<1> QED BY <1>10, <1>11, <1>12, <1>13, <1>14 DEF Kept, b

-----------------------------------------------------------------------------
(* process_deferred_mam_page_cb                                            *)

\* The first page is taken off.
Dropped(a, r) ==
  /\ r.queries = a.queries /\ r.pages = Tail(a.pages) /\ r.out = a.out /\ r.inflight = a.inflight
  /\ r.timer = a.timer /\ Aside(a, r)

LEMMA DropFacts ==
  ASSUME NEW a, NEW s, Kept(a, s), s \in Seq(Answers), a.pages # <<>>, NEW g, g = Head(a.pages),
         NEW r, Typed(r), Dropped(a, r)
  PROVE  /\ g \in Pages /\ PageFits(g, a) /\ Linked(r, s) /\ Unused(g.id, r, s)
         /\ SlotsBut(r, IF g.slot_held THEN 1 ELSE 0)
         /\ HeldBut(r, g.ch) /\ (g.after # 0 => Held(r)) /\ (g.ch = Global => NoGlobal(r))
<1>1. /\ Typed(a) /\ Linked(a, s) /\ a.pages \in Seq(Pages) /\ a.out \in Seq(Requests)
      /\ a.queries \in SUBSET Queries /\ a.inflight \in Nat /\ Cardinality(a.queries) \in Nat
  <2>1. Typed(a) /\ Linked(a, s)
    BY DEF Kept
  <2> QED BY <2>1, NowFacts
<1>2. OneOfEach(a) /\ OneEnd(a, s) /\ Paged(a)
  BY <1>1 DEF Linked
<1>3. /\ 1 \in DOMAIN a.pages /\ g = a.pages[1] /\ g \in Pages
      /\ \A i \in DOMAIN r.pages : i + 1 \in DOMAIN a.pages /\ i + 1 # 1 /\ r.pages[i] = a.pages[i + 1]
                                   /\ i \in Nat
      /\ \A j \in DOMAIN a.pages : j = 1 \/ (j - 1 \in DOMAIN r.pages /\ r.pages[j - 1] = a.pages[j])
  BY <1>1 DEF Dropped
<1>4. PageFits(g, a)
  BY <1>2, <1>3 DEF Paged
<1>5. \A i \in DOMAIN r.pages : r.pages[i].id # g.id
  BY <1>2, <1>3 DEF OneOfEach
<1>6. Linked(r, s)
  <2>1. /\ r.queries \subseteq a.queries /\ r.out = a.out /\ Grows(a, r)
        /\ \A i \in DOMAIN r.pages : \E j \in DOMAIN a.pages : r.pages[i] = a.pages[j]
        /\ \A q \in a.queries \ r.queries : \A i \in DOMAIN r.pages : r.pages[i].id # q.id
    BY <1>3 DEF Dropped, Aside, Grows
  <2>2. \A i, j \in DOMAIN r.pages : r.pages[i].id = r.pages[j].id => i = j
    <3> SUFFICES ASSUME NEW i \in DOMAIN r.pages, NEW j \in DOMAIN r.pages,
                        r.pages[i].id = r.pages[j].id
                 PROVE  i = j
      OBVIOUS
    <3>1. i + 1 = j + 1
      BY <1>2, <1>3 DEF OneOfEach
    <3> QED BY <1>3, <3>1
  <2>3. Linked(a, s) /\ a.out \in Seq(Requests) /\ s \in Seq(Answers) /\ s = s
    BY <1>1
  <2> QED BY ONLY <2>1, <2>2, <2>3, FewerLinks
<1>7. Unused(g.id, r, s)
  <2>1. \A j \in DOMAIN a.out : a.out[j].id # g.id
    BY <1>2, <1>3 DEF OneOfEach
  <2>2. \A i \in DOMAIN s : IsEnd(s[i]) => s[i].id # g.id
    BY <1>2, <1>3 DEF OneEnd
  <2> QED BY <1>5, <2>1, <2>2 DEF Unused, Dropped
<1>8. g.ch = Global => NoGlobal(r)
  <2> SUFFICES ASSUME g.ch = Global PROVE NoGlobal(r)
    OBVIOUS
  <2>1. g.id = 0 /\ \A q \in a.queries : q.ch # Global
    BY <1>4 DEF PageFits
  <2>2. \A i \in DOMAIN r.pages : r.pages[i].ch # Global
    <3> SUFFICES ASSUME NEW i \in DOMAIN r.pages, r.pages[i].ch = Global PROVE FALSE
      OBVIOUS
    <3>1. PageFits(r.pages[i], a)
      BY <1>2, <1>3 DEF Paged
    <3> QED BY <1>5, <2>1, <3>1 DEF PageFits
  <2> QED BY <2>1, <2>2 DEF NoGlobal, Dropped
<1>9. SlotsBut(r, IF g.slot_held THEN 1 ELSE 0)
  <2>1. a.inflight = Cardinality(a.queries) + SlotsHeld(a.pages) + 0 /\ a.inflight <= MaxConcurrent
    BY DEF Kept, Slots, SlotsBut
  <2>2. CASE g.slot_held
    <3>1. SlotsHeld(a.pages) = 1
      BY <1>3, <2>2 DEF SlotsHeld
    <3>2. g.ch = Global
      BY <1>4, <2>2 DEF PageFits
    <3>3. \A i \in DOMAIN r.pages : r.pages[i].ch # Global
      BY <1>8, <3>2 DEF NoGlobal
    <3>4. \A i \in DOMAIN r.pages : ~r.pages[i].slot_held
      BY <1>2, <1>3, <3>3 DEF Paged, PageFits
    <3>5. SlotsHeld(r.pages) = 0
      BY <3>4 DEF SlotsHeld
    <3> QED BY <1>1, <2>1, <2>2, <3>1, <3>5 DEF SlotsBut, Dropped
  <2>3. CASE ~g.slot_held
    <3>1. SlotsHeld(r.pages) = SlotsHeld(a.pages)
      BY <1>3, <2>3 DEF SlotsHeld
    <3> QED BY <2>1, <2>3, <3>1 DEF SlotsBut, Dropped
  <2> QED BY <2>2, <2>3
<1>10. ASSUME NEW p \in PMs, r.held[p] # <<>>, p # g.ch \/ g.after # 0 PROVE Fetching(r, p, 0)
  <2>1. Fetching(a, p, 0)
    BY <1>10, MamConstants DEF Kept, Held, HeldBut, Dropped, Aside, Channels
  <2>2. CASE \E q \in a.queries : q.ch = p /\ q.id # 0
    BY <2>2 DEF Fetching, Dropped
  <2>3. CASE \E x \in Range(a.pages) : x.ch = p /\ x.after = 0
    <3>1. PICK j \in DOMAIN a.pages : a.pages[j].ch = p /\ a.pages[j].after = 0
      BY <2>3 DEF Range
    <3>2. j # 1
      BY <1>3, <1>10, <3>1
    <3> QED BY <1>3, <3>1, <3>2 DEF Fetching, Range
  <2> QED BY <2>1, <2>2, <2>3 DEF Fetching
<1>11. HeldBut(r, g.ch) /\ (g.after # 0 => Held(r))
  BY <1>10 DEF HeldBut, Held
<1> QED BY <1>3, <1>4, <1>6, <1>7, <1>8, <1>9, <1>11

\* The timer and the jitter matter to nothing that is kept.
LEMMA TimerMatters ==
  ASSUME NEW a, NEW b, NEW s, Kept(a, s), b \in Accounts, SameFetches(a, b), Aside(a, b),
         b.timer => b.up
  PROVE  Kept(b, s)
<1>1. Typed(b) /\ Grows(a, b) /\ b.held = a.held
  BY DEF Kept, Typed, SameFetches, Aside, Grows
<1>2. Linked(b, s) /\ Slots(b) /\ Held(b)
  BY <1>1, SameLinks, SameSlots DEF Kept
<1> QED BY <1>1, <1>2 DEF Kept

LEMMA TimerKeeps ==
  ASSUME NEW a, NEW s, Kept(a, s), s2c \in Seq(Answers), s \in Seq(Answers), Later(s)
  PROVE  LET b == TimerCb(a)
         IN  Kept(b, s) /\ Aside(a, b) /\ (Progress(a, s, {}) => Progress(b, s, {}))
<1> DEFINE g == Head(a.pages)
           none == Tail(a.pages)
           rest == [a EXCEPT !.pages = none]
           first == g.after = 0 /\ g.ch # Global
           r == IF first THEN [rest EXCEPT !.jitter = FALSE] ELSE rest
           full == g.ch = Global /\ a.inflight >= MaxConcurrent /\ ~g.slot_held
           done == IF g.ch = Global THEN NextGlobalPage(r, g)
                   ELSE IF g.ch \in a.open
                   THEN Fetch(r, g.ch, g.id, g.start, g.end, g.after) ELSE Cancel(r, g.ch)
           b == TimerCb(a)
<1>1. /\ Typed(a) /\ a \in Accounts /\ a.pages \in Seq(Pages) /\ a.jitter \in BOOLEAN
      /\ a.timer \in BOOLEAN /\ (a.timer => a.up)
  <2>1. Typed(a)
    BY DEF Kept
  <2> QED BY <2>1 DEF Typed, Accounts
<1>2. CASE a.pages = <<>>
  <2>1. b = [a EXCEPT !.timer = FALSE]
    BY <1>2 DEF TimerCb
  <2> HIDE DEF b
  <2>2. b \in Accounts /\ SameFetches(a, b) /\ Aside(a, b) /\ (b.timer => b.up)
    BY <1>1, <2>1 DEF Accounts, SameFetches, Aside
  <2>3. Kept(a, s)
    OBVIOUS
  <2>4. Kept(b, s) /\ Aside(a, b) /\ (Progress(a, s, {}) => Progress(b, s, {}))
    BY ONLY <2>2, <2>3, TimerMatters, ProgressSame
  <2> QED BY <2>4 DEF b
<1>3. CASE a.pages # <<>>
  <2>1. b = IF first /\ ~a.jitter THEN [a EXCEPT !.jitter = TRUE]
            ELSE IF full THEN NextGlobalPage(r, g)
            ELSE [done EXCEPT !.timer = done.timer /\ done.pages # <<>>]
    BY <1>3 DEF TimerCb, NextPage
  <2> HIDE DEF b, done
  <2>2. Typed(r) /\ Dropped(a, r)
    <3>1. none \in Seq(Pages)
      BY <1>1, <1>3
    <3> HIDE DEF none, first
    <3>2. /\ rest \in Accounts /\ rest.pages = none /\ rest.queries = a.queries /\ rest.out = a.out
          /\ rest.inflight = a.inflight /\ rest.timer = a.timer /\ Aside(a, rest)
      BY <1>1, <3>1 DEF Accounts, Aside
    <3> HIDE DEF rest
    <3>3. /\ r \in Accounts /\ r.pages = none /\ r.queries = a.queries /\ r.out = a.out
          /\ r.inflight = a.inflight /\ r.timer = a.timer /\ Aside(a, r)
      <4>1. CASE first
        BY <3>2, <4>1 DEF Accounts, Aside
      <4>2. CASE ~first
        BY <3>2, <4>2
      <4> QED BY <4>1, <4>2
    <3> HIDE DEF r
    <3>4. Typed(r)
      BY <1>1, <3>3 DEF Typed, Aside
    <3> QED BY <3>3, <3>4 DEF Dropped, none
  <2> HIDE DEF r, rest
  <2>3. /\ g \in Pages /\ PageFits(g, a) /\ Linked(r, s) /\ Unused(g.id, r, s)
        /\ SlotsBut(r, IF g.slot_held THEN 1 ELSE 0)
        /\ HeldBut(r, g.ch) /\ (g.after # 0 => Held(r)) /\ (g.ch = Global => NoGlobal(r))
    BY <1>3, <2>2, DropFacts
  <2>4. Progress(a, s, {}) =>
          /\ Progress(r, s, {})
          /\ (g.ch = Global /\ g.stable) => Covered(From(g), Stored(r))
          /\ \A q \in r.queries : (q.stable /\ g.id = q.id /\ g.after # 0) => Got(r, q, g.after, {})
    <3> SUFFICES ASSUME Progress(a, s, {})
                 PROVE  /\ Progress(r, s, {})
                        /\ (g.ch = Global /\ g.stable) => Covered(From(g), Stored(r))
                        /\ \A q \in r.queries : (q.stable /\ g.id = q.id /\ g.after # 0)
                             => Got(r, q, g.after, {})
      OBVIOUS
    <3>1. /\ 1 \in DOMAIN a.pages /\ g = a.pages[1]
          /\ \A i \in DOMAIN r.pages : \E j \in DOMAIN a.pages : a.pages[j] = r.pages[i]
      BY <1>1, <1>3, <2>2 DEF Dropped
    <3> HIDE DEF g
    <3>2. /\ Safe(r) = Safe(a) /\ Stored(r) = Stored(a) /\ r.db = a.db /\ Minds(a, r)
          /\ \A p : There(r, p) = There(a, p)
      BY <2>2 DEF Dropped, Aside, Safe, Stored, There, HeldBack, Minds
    <3>3. r.queries = a.queries /\ r.out = a.out
      BY <2>2 DEF Dropped
    <3>4. Ahead(a, r, s)
      BY <3>1, <3>2, <3>3, AheadFewer
    <3>5. Progress(r, s, {})
      BY <2>2, <3>4, ProgressAhead
    <3>6. \A q, n, k : Got(a, q, n, k) => Got(r, q, n, k)
      BY <3>2 DEF Got
    <3>7. PagesGot(a)
      BY DEF Progress
    <3>8. (g.ch = Global /\ g.stable) => Covered(From(g), Stored(r))
      BY <3>1, <3>2, <3>7 DEF PagesGot
    <3>9. \A q \in r.queries : (q.stable /\ g.id = q.id /\ g.after # 0) => Got(r, q, g.after, {})
      BY <3>1, <3>3, <3>6, <3>7 DEF PagesGot
    <3> QED BY <3>5, <3>8, <3>9
  <2> HIDE DEF g
  <2>5. /\ r.queries = a.queries /\ r.open = a.open /\ r.probed = a.probed
        /\ r.inflight = a.inflight /\ Aside(a, r)
    BY <2>2 DEF Dropped, Aside
  <2>6. Global \notin a.open
    BY <1>1, NowFacts
  <2>7. CASE first /\ ~a.jitter
    <3>1. b = [a EXCEPT !.jitter = TRUE]
      BY <2>1, <2>7
    <3> HIDE DEF b
    <3>2. b \in Accounts /\ SameFetches(a, b) /\ Aside(a, b) /\ (b.timer => b.up)
      BY <1>1, <3>1 DEF Accounts, SameFetches, Aside
    <3>3. Kept(a, s)
      OBVIOUS
    <3>4. Kept(b, s) /\ Aside(a, b) /\ (Progress(a, s, {}) => Progress(b, s, {}))
      BY ONLY <3>2, <3>3, TimerMatters, ProgressSame
    <3> QED BY <3>4 DEF b
  <2>8. CASE ~(first /\ ~a.jitter) /\ full
    <3> DEFINE more == Append(r.pages, g)
               c == [r EXCEPT !.pages = more]
    <3>1. b = c
      BY <2>1, <2>5, <2>8 DEF NextGlobalPage
    <3>2. more \in Seq(Pages) /\ r \in Accounts
      BY <2>2, <2>3, NowFacts
    <3> HIDE DEF more
    <3>3. /\ c \in Accounts /\ c.pages = more /\ Aside(r, c) /\ c.queries = r.queries /\ c.out = r.out
          /\ c.inflight = r.inflight /\ c.timer = r.timer
      BY <3>2 DEF Accounts, Aside
    <3> HIDE DEF c
    <3>4. Typed(c)
      BY <2>2, <3>3 DEF Typed, Aside
    <3>5. g.ch = Global /\ g.id = 0 /\ ~g.slot_held /\ a.probed
      BY <2>3, <2>8 DEF PageFits
    <3>6. Kept(c, s)
      <4>1. /\ Typed(r) /\ Linked(r, s) /\ Later(s) /\ SlotsBut(r, 0) /\ Held(r) /\ g \in Pages
            /\ g.ch = Global /\ g.id = 0 /\ ~g.slot_held /\ r.probed /\ NoGlobal(r)
        BY <2>2, <2>3, <2>5, <3>5 DEF Held
      <4>2. /\ Typed(c) /\ Aside(r, c) /\ c.pages = Append(r.pages, g) /\ c.queries = r.queries
            /\ c.out = r.out /\ c.inflight = r.inflight
        BY <3>3, <3>4 DEF more
      <4> QED BY ONLY <4>1, <4>2, GlobalWaits
    <3>7. Progress(a, s, {}) => Progress(c, s, {})
      <4> SUFFICES ASSUME Progress(a, s, {}) PROVE Progress(c, s, {})
        OBVIOUS
      <4>1. /\ Progress(r, s, {})
            /\ (g.ch = Global /\ g.stable) => Covered(From(g), Stored(r))
            /\ \A q \in r.queries : (q.stable /\ g.id = q.id /\ g.after # 0) => Got(r, q, g.after, {})
        BY <2>4
      <4>2. /\ Aside(r, c) /\ r.pages \in Seq(Pages) /\ c.queries \subseteq r.queries /\ c.out = r.out
            /\ c.pages = Append(r.pages, g)
        BY <2>2, <3>3, NowFacts DEF more
      <4>3. \A q \in c.queries : (q.stable /\ g.id = q.id /\ g.after # 0) => Got(r, q, g.after, {})
        BY <3>3, <4>1
      <4>4. Progress(r, s, {}) /\ ((g.ch = Global /\ g.stable) => Covered(From(g), Stored(r)))
        BY <4>1
      <4> QED BY ONLY <4>2, <4>3, <4>4, ProgressPage
    <3> QED BY <2>5, <3>1, <3>3, <3>6, <3>7 DEF Aside, b
  <2>9. CASE ~(first /\ ~a.jitter) /\ ~full
    <3>1. Kept(done, s) /\ Aside(r, done) /\ (Progress(a, s, {}) => Progress(done, s, {}))
      <4>1. CASE g.ch = Global
        <5>1. done = NextGlobalPage(r, g)
          BY <4>1 DEF done
        <5>2. /\ Typed(r) /\ Linked(r, s) /\ s2c \in Seq(Answers) /\ Later(s) /\ Held(r)
              /\ g \in Pages /\ g.ch = Global /\ r.probed /\ NoGlobal(r)
              /\ SlotsBut(r, IF g.slot_held THEN 1 ELSE 0)
              /\ g.slot_held \/ ~(r.inflight >= MaxConcurrent)
          BY <2>2, <2>3, <2>5, <2>9, <4>1 DEF Held, PageFits
        <5> DEFINE id == FreshId(r)
                   q == Query(id, Global, g.start, g.end, g.stable)
        <5>3. /\ Kept(done, s) /\ Aside(r, done) /\ done.queries = r.queries \union {q}
              /\ done.pages = r.pages /\ Sent(r, done, id, Global, From(g), g.end)
              /\ Unused(id, r, s) /\ \A x \in r.queries : x.id # id
          BY ONLY <5>1, <5>2, GlobalAsks
        <5>4. q.id = id /\ q.ch = Global /\ q.stable = g.stable
          BY DEF Query
        <5> HIDE DEF q, id
        <5>5. ASSUME Progress(a, s, {}) PROVE Progress(done, s, {})
          <6>1. Progress(r, s, {}) /\ (g.stable => Covered(From(g), Stored(r)))
            BY <2>4, <4>1, <5>5
          <6>2. \A x \in done.queries : x \in r.queries \/ (x.id = id /\ Unused(id, r, s))
            BY <5>3, <5>4
          <6>3. Global \notin PMs
            BY MamConstants DEF Channels
          <6>4. \A x \in done.queries : (x.stable /\ x.id = id) => Got(r, x, From(g), {})
            BY <5>3, <5>4, <6>1, <6>3 DEF Got, Covered
          <6>5. \A i \in DOMAIN done.pages : \E j \in DOMAIN r.pages : r.pages[j] = done.pages[i]
            BY <5>3
          <6>6. r.out \in Seq(Requests)
            BY <2>2, NowFacts
          <6> QED BY ONLY <5>3, <6>1, <6>2, <6>4, <6>5, <6>6, ProgressSent
        <5> QED BY <5>3, <5>5
      <4>2. CASE g.ch # Global
        <5>1. /\ g.ch \in a.open /\ g.id # 0 /\ ~g.slot_held
              /\ IF g.after = 0 THEN \A q \in a.queries : q.id # g.id
                 ELSE \E q \in a.queries : q.id = g.id /\ q.ch = g.ch /\ q.end = g.end
          BY <2>3, <4>2 DEF PageFits
        <5>2. done = Fetch(r, g.ch, g.id, g.start, g.end, g.after)
          BY <4>2, <5>1 DEF done
        <5>3. /\ g.id \in Ids /\ g.start \in Times /\ g.end \in Times /\ g.after \in Times
          BY <2>3, <5>1 DEF Pages, Ids
        <5>4. Slots(r)
          BY <2>3, <5>1 DEF Slots
        <5>5. CASE g.after = 0
          <6>1. /\ Typed(r) /\ Linked(r, s) /\ Slots(r) /\ g.ch \in r.open /\ HeldBut(r, g.ch)
                /\ g.id \in Ids /\ Unused(g.id, r, s) /\ \A q \in r.queries : q.id # g.id
                /\ g.start \in Times /\ g.end \in Times
            BY <2>2, <2>3, <2>5, <5>1, <5>3, <5>4, <5>5
          <6>2. /\ Kept(Fetch(r, g.ch, g.id, g.start, g.end, 0), s)
                /\ Aside(r, Fetch(r, g.ch, g.id, g.start, g.end, 0))
                /\ Ahead(r, Fetch(r, g.ch, g.id, g.start, g.end, 0), s)
            BY ONLY <6>1, FetchFirst
          <6>3. Kept(done, s) /\ Aside(r, done) /\ Ahead(r, done, s)
            BY <5>2, <5>5, <6>2
          <6>4. Progress(a, s, {}) => Progress(done, s, {})
            BY <2>4, <6>3, ProgressAhead DEF Kept
          <6> QED BY <6>3, <6>4
        <5>6. CASE g.after # 0
          <6>1. PICK q \in r.queries : q.id = g.id /\ q.ch = g.ch /\ q.end = g.end
            BY <2>5, <5>1, <5>6
          <6>2. /\ Typed(r) /\ Linked(r, s) /\ Slots(r) /\ Held(r) /\ Unused(q.id, r, s)
                /\ g.start \in Times /\ g.after \in Times /\ g.after # 0
            BY <2>2, <2>3, <5>3, <5>4, <5>6, <6>1
          <6>3. done = Fetch(r, q.ch, q.id, g.start, q.end, g.after)
            BY <5>2, <6>1
          <6>4. /\ Kept(done, s) /\ Aside(r, done) /\ done.queries = r.queries /\ done.pages = r.pages
                /\ Sent(r, done, q.id, q.ch, g.after, q.end)
            BY ONLY <6>1, <6>2, <6>3, FetchNext
          <6>5. ASSUME Progress(a, s, {}) PROVE Progress(done, s, {})
            <7>1. Progress(r, s, {})
              BY <2>4, <6>5
            <7>2. \A x \in done.queries : x \in r.queries \/ (x.id = q.id /\ Unused(q.id, r, s))
              BY <6>4
            <7>3. \A x \in done.queries : (x.stable /\ x.id = q.id) => Got(r, x, g.after, {})
              BY <2>4, <5>6, <6>1, <6>4, <6>5
            <7>4. \A i \in DOMAIN done.pages : \E j \in DOMAIN r.pages : r.pages[j] = done.pages[i]
              BY <6>4
            <7>5. r.out \in Seq(Requests)
              BY <2>2, NowFacts
            <7> QED BY ONLY <6>4, <7>1, <7>2, <7>3, <7>4, <7>5, ProgressSent
          <6> QED BY <6>4, <6>5
        <5> QED BY <5>5, <5>6
      <4> QED BY <4>1, <4>2
    <3>2. done \in Accounts /\ (done.timer => done.up)
      BY <3>1 DEF Kept, Typed
    <3> DEFINE t == done.timer /\ done.pages # <<>>
    <3>3. b = [done EXCEPT !.timer = t]
      BY <2>1, <2>8, <2>9
    <3>4. t \in BOOLEAN /\ (t => done.up)
      BY <3>2 DEF Accounts
    <3> HIDE DEF t, b, done
    <3>5. b \in Accounts /\ SameFetches(done, b) /\ Aside(done, b) /\ (b.timer => b.up)
      BY <3>2, <3>3, <3>4 DEF Accounts, SameFetches, Aside
    <3>6. Kept(done, s)
      BY <3>1
    <3>7. Kept(b, s) /\ (Progress(done, s, {}) => Progress(b, s, {}))
      BY ONLY <3>5, <3>6, TimerMatters, ProgressSame
    <3> QED BY <2>5, <3>1, <3>5, <3>7 DEF Aside, b
  <2> QED BY <2>7, <2>8, <2>9
<1> QED BY <1>2, <1>3

-----------------------------------------------------------------------------
(* What answers leave of the fetches.                                      *)

LEMMA FlushedAhead ==
  ASSUME NEW a, NEW b, NEW p, NEW s, Flushed(a, b, p)
  PROVE  Ahead(a, b, s) /\ Steady(a, b)
<1>1. Safe(a) \subseteq Safe(b) /\ Stored(a) \subseteq Stored(b)
  BY DEF Flushed, Safe, Stored
<1>2. Minds(a, b) /\ b.db.cursor = a.db.cursor
  BY DEF Flushed, Minds
<1>3. /\ b.pages = a.pages /\ b.out = a.out /\ b.queries = a.queries
      /\ \A c \in PMs : There(a, c) \subseteq There(b, c)
  BY DEF Flushed, SameFetches
<1>4. Steady(a, b)
  BY DEF Flushed, Steady
<1> QED BY <1>1, <1>2, <1>3, <1>4, AheadFewer

LEMMA DoneAhead ==
  ASSUME NEW a, NEW d, NEW q, NEW s, Done(a, d, q)
  PROVE  Ahead(a, d, s) /\ Steady(a, d)
<1>1. Safe(a) \subseteq Safe(d) /\ Stored(a) \subseteq Stored(d)
  BY DEF Done, Safe, Stored
<1>2. Minds(a, d) /\ d.db.cursor = a.db.cursor
  BY DEF Done, Minds
<1>3. /\ d.pages = a.pages /\ d.out = a.out /\ d.queries \subseteq a.queries
      /\ \A c \in PMs : There(a, c) \subseteq There(d, c)
  BY DEF Done, There, HeldBack
<1>4. Steady(a, d)
  BY DEF Done, Steady
<1> QED BY <1>1, <1>2, <1>3, <1>4, AheadFewer

LEMMA CommittedAhead ==
  ASSUME NEW a, NEW b, NEW s, Committed(a, b)
  PROVE  /\ Ahead(a, b, s) /\ Steady(a, b) /\ Stored(b) = Stored(a) /\ Stored(b) = Safe(b)
         /\ \A c \in PMs : There(b, c) = There(a, c)
<1>1. Safe(a) \subseteq Safe(b) /\ Stored(a) = Stored(b) /\ Stored(b) = Safe(b)
  BY DEF Committed, Safe, Stored
<1>2. Minds(a, b) /\ b.db.cursor = a.db.cursor
  BY DEF Committed, Minds
<1>3. /\ b.pages = a.pages /\ b.out = a.out /\ b.queries = a.queries
      /\ \A c \in PMs : There(a, c) = There(b, c)
  BY DEF Committed, SameFetches, There, HeldBack
<1>4. Steady(a, b)
  BY DEF Committed, Steady
<1> QED BY <1>1, <1>2, <1>3, <1>4, AheadFewer

\* What is known of the query's chat may move to the query's end.
LEMMA CheckedAhead ==
  ASSUME NEW a, Typed(a), NEW b, NEW q, NEW complete, Checked(a, b, q, complete), NEW s,
         q.ch \in a.open
  PROVE  /\ Ahead(a, b, s) /\ \A c \in PMs : There(b, c) = There(a, c)
         /\ \A p \in PMs : b.last_fetch[p] # a.last_fetch[p] =>
              (p = q.ch /\ q.stable /\ complete /\ b.last_fetch[p] = q.end)
<1>1. Safe(a) = Safe(b) /\ Stored(a) = Stored(b)
  BY DEF Checked, Safe, Stored
<1>2. /\ a.db.ts \in [Channels -> Times \union {Closed}] /\ a.last_fetch \in [Channels -> Times]
      /\ PMs \subseteq Channels
  BY DEF Typed, Accounts, Dbs, Channels
<1>3. Minds(a, b) /\ b.db.cursor = a.db.cursor
  <2>1. ASSUME NEW p \in PMs, b.db.ts[p] > 0, p # q.ch PROVE b.db.ts[p] = a.db.ts[p]
    BY <1>2, <2>1 DEF Checked
  <2>2. \A p \in PMs : p = q.ch => (p \in b.db.registered /\ p \in b.open)
    BY DEF Checked
  <2>3. a.db.registered \subseteq b.db.registered /\ b.open = a.open /\ b.db.cursor = a.db.cursor
    BY DEF Checked
  <2> QED BY <2>1, <2>2, <2>3 DEF Minds
<1>4. /\ b.pages = a.pages /\ b.out = a.out /\ b.queries = a.queries
      /\ \A c \in PMs : There(a, c) = There(b, c)
  BY DEF Checked, SameFetches, There, HeldBack
<1>5. ASSUME NEW p \in PMs, b.last_fetch[p] # a.last_fetch[p]
      PROVE  p = q.ch /\ q.stable /\ complete /\ b.last_fetch[p] = q.end
  BY <1>2, <1>5 DEF Checked
<1> QED BY <1>1, <1>3, <1>4, <1>5, AheadFewer

\* What is shown when a query is done with was held back for it: nothing of its chat goes on.
LEMMA FinishGoes ==
  ASSUME NEW a, NEW s, Kept(a, s), s \in Seq(Answers), NEW q \in a.queries, Unused(q.id, a, s),
         NEW b, b = Finish(a, q)
  PROVE  /\ Kept(b, s) /\ Ahead(a, b, s) /\ Steady(a, b) /\ b.open = a.open
         /\ \A p \in PMs : There(a, p) \subseteq There(b, p)
         /\ \A id : ~Overtakes(a, b, id)
<1>1. Kept(b, s) /\ \E d : Typed(d) /\ Done(a, d, q) /\ Flushed(d, b, q.ch)
  BY FinishKeeps
<1>2. PICK d : Typed(d) /\ Done(a, d, q) /\ Flushed(d, b, q.ch)
  BY <1>1
<1>3. Ahead(a, b, s) /\ Steady(a, b)
  <2>1. Ahead(a, d, s) /\ Steady(a, d)
    BY <1>2, DoneAhead
  <2>2. Ahead(d, b, s) /\ Steady(d, b)
    BY <1>2, FlushedAhead
  <2> QED BY <2>1, <2>2, AheadTwice, SteadyTwice
<1>4. \A p \in PMs : There(a, p) = There(d, p)
  BY <1>2 DEF Done, There, HeldBack
<1>5. \A p \in PMs : There(a, p) \subseteq There(b, p)
  BY <1>2, <1>4 DEF Flushed
<1>6. ASSUME NEW id, Overtakes(a, b, id) PROVE FALSE
  <2>1. PICK m \in In(PMs) \intersect (b.shown \ a.shown) : \E x \in Underway(b, archive[m]) : TRUE
    BY <1>6 DEF Overtakes
  <2>2. PICK x \in Underway(b, archive[m]) : TRUE
    BY <2>1
  <2>3. m \in HeldBack(d, q.ch) /\ q.ch \in PMs /\ ~FirstWaits(d, q.ch)
    BY <1>2, <2>1 DEF Done, Flushed, There
  <2>4. archive[m] = q.ch
    <3>1. PICK i \in DOMAIN d.held[q.ch] : m = d.held[q.ch][i].m
      BY <2>3 DEF HeldBack, Range
    <3> QED BY <1>2, <2>3, <3>1 DEF Typed
  <2>5. \A r \in b.queries : r.ch # q.ch
    <3>1. b.queries = a.queries \ {q}
      BY <1>2 DEF Done, Flushed, SameFetches
    <3> QED BY <3>1 DEF Kept, Linked, OneOfEach
  <2>6. x \in Range(b.pages) /\ x.ch = q.ch
    BY <2>2, <2>4, <2>5 DEF Underway
  <2>7. PICK i \in DOMAIN b.pages : x = b.pages[i]
    BY <2>6 DEF Range
  <2>8. x.after # 0
    BY <1>2, <2>3, <2>6 DEF FirstWaits, Flushed, SameFetches
  <2>9. PageFits(x, b) /\ x.ch # Global
    BY <1>1, <2>3, <2>6, <2>7, MamConstants DEF Kept, Linked, Paged, Channels
  <2> QED BY <2>5, <2>6, <2>8, <2>9 DEF PageFits
<1>7. b.open = a.open
  BY <1>2 DEF Done, Flushed
<1> QED BY <1>1, <1>3, <1>5, <1>6, <1>7

\* CheckpointIsShown, of one handler
Checks(a, b, id) ==
  \A p \in a.open \intersect b.open \intersect PMs : b.last_fetch[p] # a.last_fetch[p] =>
    \A q \in a.queries : q.id = id => Seen(p, q.start, b.last_fetch[p], There(b, p))

LEMMA SteadyChecks ==
  ASSUME NEW a, NEW b, NEW id, Steady(a, b)
  PROVE  Checks(a, b, id)
BY DEF Steady, Checks

\* handle_mam_fin_iq_event, a chat's page
LEMMA ChatPageGoes ==
  ASSUME NEW a, NEW s, Kept(a, s), s \in Seq(Answers), NEW q \in a.queries, Unused(q.id, a, s),
         q.ch \in a.open, NEW fin, fin.last \in Times, fin.complete \in BOOLEAN,
         Progress(a, s, {}), q.stable => Got(a, q, fin.last, {}),
         (q.stable /\ fin.complete) => Got(a, q, q.end, {}), NEW b, b = ChatPage(a, q, fin)
  PROVE  /\ Progress(b, s, {}) /\ Minds(a, b) /\ Checks(a, b, q.id)
         /\ \A id : ~Overtakes(a, b, id)
<1>1. /\ Typed(a) /\ q \in Queries /\ a.pages \in Seq(Pages) /\ q.ch \in Channels /\ q.ch # Global
  <2>1. Typed(a)
    BY DEF Kept
  <2> QED BY <2>1, NowFacts
<1>2. CASE fin.last # 0 /\ ~fin.complete
  <2> DEFINE g == Page(q.id, q.ch, q.start, q.end, fin.last, TRUE, FALSE)
  <2>1. b = Postpone(a, g)
    BY <1>2 DEF ChatPage
  <2>2. /\ g \in Pages /\ g.id = q.id /\ g.ch = q.ch /\ g.after = fin.last
    BY <1>1 DEF Page, Pages, Queries, Ids
  <2> HIDE DEF g
  <2>3. /\ Aside(a, b) /\ b.queries = a.queries /\ b.out = a.out /\ b.pages = Append(a.pages, g)
    BY <1>1, <2>1, <2>2, PostponeFacts
  <2>4. \A r \in b.queries : r.id = g.id => r = q
    BY <2>2, <2>3 DEF Kept, Linked, OneOfEach
  <2>5. Progress(b, s, {})
    <3>1. \A r \in b.queries : (r.stable /\ g.id = r.id /\ g.after # 0) => Got(a, r, g.after, {})
      BY <2>2, <2>4
    <3>2. ~(g.ch = Global /\ g.stable) /\ b.queries \subseteq a.queries
      BY <1>1, <2>2, <2>3
    <3> QED BY <1>1, <2>3, <3>1, <3>2, ProgressPage
  <2>6. Minds(a, b) /\ Steady(a, b)
    BY <2>3 DEF Aside, Minds, Steady
  <2>7. \A id : ~Overtakes(a, b, id)
    BY <2>3 DEF Aside, Overtakes
  <2> QED BY <2>5, <2>6, <2>7, SteadyChecks
<1>3. CASE ~(fin.last # 0 /\ ~fin.complete)
  <2> DEFINE c == Checkpoint(a, q, fin.complete)
  <2>1. b = Finish(c, q)
    BY <1>3 DEF ChatPage
  <2>2. Kept(c, s) /\ Checked(a, c, q, fin.complete)
    BY <1>1, CheckpointKeeps
  <2> HIDE DEF c
  <2>3. q \in c.queries /\ Unused(q.id, c, s) /\ c.shown = a.shown /\ c.open = a.open
    BY <2>2 DEF Checked, SameFetches, Unused
  <2>4. /\ Ahead(a, c, s) /\ \A p \in PMs : There(c, p) = There(a, p)
        /\ \A p \in PMs : c.last_fetch[p] # a.last_fetch[p] =>
             (p = q.ch /\ q.stable /\ fin.complete /\ c.last_fetch[p] = q.end)
    BY <1>1, <2>2, CheckedAhead
  <2>5. /\ Kept(b, s) /\ Ahead(c, b, s) /\ Steady(c, b) /\ b.open = c.open
        /\ \A p \in PMs : There(c, p) \subseteq There(b, p)
        /\ \A id : ~Overtakes(c, b, id)
    BY <2>1, <2>2, <2>3, FinishGoes
  <2>6. Ahead(a, b, s)
    BY <2>4, <2>5, AheadTwice
  <2>7. Progress(b, s, {}) /\ Minds(a, b)
    BY <2>5, <2>6, ProgressAhead DEF Kept, Ahead
  <2>8. \A id : ~Overtakes(a, b, id)
    <3> SUFFICES ASSUME NEW id, NEW m \in In(PMs), m \in b.shown \ a.shown,
                        NEW x \in Underway(b, archive[m]), x.id # id,
                        archive[m] \in a.open \/ a.db.ts[archive[m]] # Closed
                 PROVE  FALSE
      BY DEF Overtakes
    <3>1. m \in b.shown \ c.shown
      BY <2>3
    <3>2. \A i : x.id # i => ~(archive[m] \in c.open \/ c.db.ts[archive[m]] # Closed)
      BY <2>5, <3>1 DEF Overtakes
    <3>3. archive[m] \notin c.open
      BY <3>2
    <3>4. q.ch # archive[m]
      BY <2>3, <3>3
    <3>5. c.db.ts[archive[m]] = a.db.ts[archive[m]]
      <4>1. a.db.ts \in [Channels -> Times \union {Closed}] /\ archive[m] \in Channels
        BY <1>1 DEF Typed, Accounts, Dbs, In, now
      <4> QED BY <2>2, <3>4, <4>1 DEF Checked
    <3> QED BY <2>3, <3>2, <3>3, <3>5
  <2>9. Checks(a, b, q.id)
    <3> SUFFICES ASSUME NEW p \in a.open \intersect b.open \intersect PMs,
                        b.last_fetch[p] # a.last_fetch[p], NEW r \in a.queries, r.id = q.id
                 PROVE  Seen(p, r.start, b.last_fetch[p], There(b, p))
      BY DEF Checks
    <3>1. r = q
      BY DEF Kept, Linked, OneOfEach
    <3>2. b.last_fetch[p] = c.last_fetch[p]
      BY <2>3, <2>5 DEF Steady
    <3>3. p = q.ch /\ q.stable /\ fin.complete /\ b.last_fetch[p] = q.end
      BY <2>4, <3>2
    <3>4. Seen(p, q.start, q.end, There(a, p) \union {})
      BY <3>3 DEF Got
    <3>5. There(a, p) \subseteq There(b, p)
      BY <2>4, <2>5
    <3> QED BY <3>1, <3>3, <3>4, <3>5 DEF Seen
  <2> QED BY <2>7, <2>8, <2>9
<1> QED BY <1>2, <1>3

\* handle_mam_fin_iq_event, the page of the whole archive: the cursor moves with it.
LEMMA GlobalPageGoes ==
  ASSUME NEW a, NEW s, Kept(a, s), s \in Seq(Answers), NEW q \in a.queries, Unused(q.id, a, s),
         q.ch = Global, NEW fin, fin.last \in Times, fin.complete \in BOOLEAN, a.batch = {},
         Progress(a, s, {}), q.stable => Covered(fin.last, Stored(a)), NEW b, b = GlobalPage(a, q, fin)
  PROVE  /\ Progress(b, s, {}) /\ Minds(a, b) /\ Steady(a, b)
         /\ \A id : ~Overtakes(a, b, id)
<1> DEFINE at == IF q.stable /\ fin.last # 0 THEN SetCursor(a, fin.last) ELSE a
           g == Page(0, Global, q.start, q.end, fin.last, q.stable, TRUE)
           f == Forget(at, q)
<1>1. Typed(a) /\ q \in Queries
  <2>1. Typed(a)
    BY DEF Kept
  <2> QED BY <2>1, NowFacts
<1>2. /\ Typed(at) /\ OnlyDb(a, at) /\ at.db.ts = a.db.ts /\ at.db.cache = a.db.cache
      /\ at.db.registered = a.db.registered /\ at.db.wiped = a.db.wiped
      /\ at.db.cursor = IF q.stable /\ fin.last # 0 THEN fin.last ELSE a.db.cursor
  <2>1. CASE q.stable /\ fin.last # 0
    <3>1. at = SetCursor(a, fin.last)
      BY <2>1
    <3> HIDE DEF at
    <3> QED BY <1>1, <2>1, <3>1, SetCursorFacts
  <2>2. CASE ~(q.stable /\ fin.last # 0)
    BY <1>1, <2>2 DEF OnlyDb, SameFetches
  <2> QED BY <2>1, <2>2
<1>3. b = IF fin.last # 0 /\ ~fin.complete THEN Postpone(f, g)
          ELSE Finish(IF fin.complete THEN at ELSE a, q)
  BY DEF GlobalPage
<1> HIDE DEF at
<1>4. /\ Safe(at) = Safe(a) /\ Stored(at) = Stored(a) /\ Safe(a) = Stored(a)
      /\ \A p : There(at, p) = There(a, p)
  BY <1>2 DEF OnlyDb, Safe, Stored, There, HeldBack
<1>5. Progress(at, s, {})
  <2>1. Covered(at.db.cursor, Safe(at))
    BY <1>2, <1>4 DEF Progress
  <2>2. \A r, n, k : Got(a, r, n, k) => Got(at, r, n, k)
    BY <1>4 DEF Got
  <2>3. at.pages = a.pages /\ at.queries = a.queries /\ at.out = a.out
    BY <1>2 DEF OnlyDb, SameFetches
  <2>4. PagesGot(at) /\ RequestsGot(at) /\ AnswersGot(at, s, {})
    BY <1>4, <2>2, <2>3 DEF Progress, PagesGot, RequestsGot, AnswersGot
  <2> QED BY <2>1, <2>4 DEF Progress
<1>6. Minds(a, at) /\ Steady(a, at) /\ \A x, id : Overtakes(a, x, id) => Overtakes(at, x, id)
  BY <1>2 DEF OnlyDb, Minds, Steady, Overtakes
<1>7. CASE fin.last # 0 /\ ~fin.complete
  <2>1. q \in at.queries
    BY <1>2 DEF OnlyDb, SameFetches
  <2>2. /\ Typed(f) /\ Aside(at, f) /\ f.queries = at.queries \ {q} /\ f.pages = at.pages /\ f.out = at.out
    <3>1. f = Forget(at, q)
      OBVIOUS
    <3> HIDE DEF f
    <3> QED BY <1>2, <2>1, <3>1, ForgetFacts
  <2> HIDE DEF f
  <2>3. g \in Pages /\ g.id = 0 /\ g.ch = Global /\ g.stable = q.stable /\ From(g) = fin.last
    BY <1>1, <1>7 DEF Page, Pages, Queries, Chs, From
  <2> HIDE DEF g
  <2>4. /\ Aside(f, b) /\ b.queries = f.queries /\ b.out = f.out /\ b.pages = Append(f.pages, g)
    BY <1>3, <1>7, <2>2, <2>3, PostponeFacts
  <2>5. /\ Aside(at, b) /\ b.queries \subseteq at.queries /\ b.out = at.out
        /\ b.pages = Append(at.pages, g)
    BY <2>2, <2>4 DEF Aside
  <2>6. /\ (g.ch = Global /\ g.stable) => Covered(From(g), Stored(at))
        /\ at.pages \in Seq(Pages)
        /\ \A r \in b.queries : (r.stable /\ g.id = r.id /\ g.after # 0) => Got(at, r, g.after, {})
    <3>1. at.queries \subseteq Queries /\ at.pages \in Seq(Pages)
      BY <1>2, NowFacts
    <3>2. \A r \in b.queries : r.id # 0
      BY <2>5, <3>1 DEF Queries, Ids
    <3> QED BY <1>4, <2>3, <3>1, <3>2
  <2>7. Progress(b, s, {})
    BY ONLY <1>5, <2>5, <2>6, ProgressPage
  <2>8. Minds(at, b) /\ Steady(at, b) /\ \A id : ~Overtakes(at, b, id)
    BY <2>5 DEF Aside, Minds, Steady, Overtakes
  <2> QED BY <1>6, <2>7, <2>8, MindsTwice, SteadyTwice
<1>8. CASE ~(fin.last # 0 /\ ~fin.complete)
  <2> DEFINE e == IF fin.complete THEN at ELSE a
  <2>1. e = a \/ e = at
    OBVIOUS
  <2>2. b = Finish(e, q)
    BY <1>3, <1>8
  <2> HIDE DEF e
  <2>3. Progress(e, s, {}) /\ Minds(a, e) /\ Steady(a, e) /\ \A x, id : Overtakes(a, x, id) => Overtakes(e, x, id)
    BY <1>5, <1>6, <2>1 DEF Minds, Steady
  <2>4. Kept(e, s) /\ q \in e.queries /\ Unused(q.id, e, s)
    <3>1. Kept(at, s)
      BY <1>2, OnlyDbKeeps DEF Kept
    <3>2. q \in at.queries /\ Unused(q.id, at, s)
      BY <1>2 DEF OnlyDb, SameFetches, Unused
    <3> QED BY <2>1, <3>1, <3>2
  <2>5. Kept(b, s) /\ Ahead(e, b, s) /\ Steady(e, b) /\ \A id : ~Overtakes(e, b, id)
    BY <2>2, <2>4, FinishGoes
  <2>6. Progress(b, s, {}) /\ Minds(e, b)
    BY <2>3, <2>5, ProgressAhead DEF Kept, Ahead
  <2> QED BY <2>3, <2>5, <2>6, MindsTwice, SteadyTwice
<1> QED BY <1>7, <1>8

\* What a last answer says of its query's page is so.
Answered(a, fin) ==
  \A q \in a.queries : (q.stable /\ Steadily(fin) /\ q.id = fin.id) =>
    Got(a, q, fin.last, {}) /\ (fin.complete => Got(a, q, q.end, {}))

\* handle_mam_fin_iq_event
LEMMA FinGoes ==
  ASSUME NEW a, NEW s, Kept(a, s), s \in Seq(Answers), NEW fin \in Answers, fin.kind = "fin",
         Unused(fin.id, a, s), Progress(a, s, {}), Answered(a, fin), NEW f, f = Fin(a, fin)
  PROVE  /\ Progress(f, s, {}) /\ Minds(a, f) /\ Checks(a, f, fin.id) /\ ~Overtakes(a, f, fin.id)
<1> DEFINE c == Commit(a)
           known == {q \in a.queries : q.id = fin.id}
           q == CHOOSE k \in known : TRUE
           q1 == [q EXCEPT !.stable = q.stable /\ fin.stable]
           b == [c EXCEPT !.queries = (c.queries \ {q}) \union {q1}]
<1>1. /\ fin.last \in Times /\ fin.complete \in BOOLEAN /\ fin.stable \in BOOLEAN
      /\ fin.abort \in BOOLEAN
  BY DEF Answers
<1>2. Kept(c, s) /\ Committed(a, c)
  <2> HIDE DEF c
  <2>1. Typed(a) /\ c = Commit(a)
    BY DEF Kept, c
  <2> QED BY <2>1, CommitFacts
<1>3. f = IF known = {} THEN c
          ELSE IF fin.abort THEN Finish(b, q1)
          ELSE IF q.ch \in a.open THEN ChatPage(b, q1, fin)
          ELSE IF q.ch = Global THEN GlobalPage(b, q1, fin) ELSE Cancel(b, q.ch)
  BY DEF Fin
<1> HIDE DEF c, b
<1>4. /\ Ahead(a, c, s) /\ Steady(a, c) /\ Stored(c) = Stored(a)
      /\ \A p \in PMs : There(c, p) = There(a, p)
  BY <1>2, CommittedAhead
<1>5. Progress(c, s, {}) /\ Minds(a, c)
  BY <1>2, <1>4, ProgressAhead DEF Kept, Ahead
<1>6. CASE known = {}
  <2>1. f = c
    BY <1>3, <1>6
  <2>2. ~Overtakes(a, f, fin.id)
    BY <1>2, <2>1 DEF Committed, Overtakes
  <2> QED BY <1>4, <1>5, <2>1, <2>2, SteadyChecks
<1>7. CASE known # {}
  <2>1. q \in a.queries /\ q.id = fin.id
    BY <1>7
  <2> HIDE DEF q, known
  <2>2. q \in Queries /\ q \in c.queries
    <3>1. Typed(a)
      BY DEF Kept
    <3> QED BY <1>2, <2>1, <3>1, NowFacts DEF Committed, SameFetches
  <2>3. /\ q1 \in Queries /\ q1.id = q.id /\ q1.ch = q.ch /\ q1.end = q.end /\ q1.start = q.start
        /\ q1.stable = (q.stable /\ fin.stable)
    BY <1>1, <2>2 DEF Queries
  <2> HIDE DEF q1
  <2>4. /\ Kept(b, s) /\ Aside(c, b) /\ b.queries = (c.queries \ {q}) \union {q1}
        /\ b.pages = c.pages /\ b.out = c.out
    <3>1. b = [c EXCEPT !.queries = (c.queries \ {q}) \union {q1}]
      BY DEF b
    <3> QED BY ONLY <1>2, <2>2, <2>3, <3>1, SwapKeeps
  <2>5. q1 \in b.queries /\ Unused(q1.id, b, s) /\ b.open = a.open /\ b.batch = {}
    BY <1>2, <2>1, <2>3, <2>4 DEF Unused, Committed, SameFetches, Aside
  <2>6. /\ Safe(b) = Safe(c) /\ Stored(b) = Stored(c) /\ \A p \in PMs : There(b, p) = There(c, p)
    BY <2>4 DEF Aside, Safe, Stored, There, HeldBack
  <2>7. Ahead(c, b, s) /\ Minds(c, b)
    <3>1. \A x \in b.queries : \E r \in c.queries : SameFetch(r, x)
      BY <2>2, <2>3, <2>4 DEF SameFetch
    <3>2. \A x \in b.queries : GoesOn(c, b, x)
      BY <2>6, <3>1 DEF GoesOn
    <3>3. Minds(c, b) /\ b.db.cursor = c.db.cursor
      BY <2>4 DEF Aside, Minds
    <3> QED BY <2>4, <2>6, <3>2, <3>3 DEF Ahead
  <2>8. Progress(b, s, {})
    BY <1>5, <2>4, <2>7, ProgressAhead DEF Kept
  <2>9. /\ b.shown = a.shown /\ b.db.ts = a.db.ts /\ b.last_fetch = a.last_fetch
    BY <1>2, <2>4 DEF Committed, Aside
  <2>10. ASSUME q1.stable, ~fin.abort
         PROVE  Got(b, q1, fin.last, {}) /\ (fin.complete => Got(b, q1, q1.end, {}))
    <3>1. SameFetch(q, q1) /\ Got(a, q, fin.last, {}) /\ (fin.complete => Got(a, q, q.end, {}))
      BY <2>1, <2>3, <2>10 DEF SameFetch, Answered, Steadily
    <3>2. Stored(a) \subseteq Stored(b) /\ (q1.ch \in PMs => There(a, q1.ch) \subseteq There(b, q1.ch))
      BY <1>4, <2>6
    <3> QED BY <2>3, <3>1, <3>2, GotKept
  <2>11. /\ Progress(f, s, {}) /\ Minds(b, f) /\ Checks(b, f, q1.id) /\ \A id : ~Overtakes(b, f, id)
    <3>1. q.ch \in a.open \/ q.ch = Global
      BY <2>1 DEF Kept, Linked, Asking
    <3>2. CASE fin.abort
      <4>1. f = Finish(b, q1)
        BY <1>3, <1>7, <3>2
      <4>2. Kept(f, s) /\ Ahead(b, f, s) /\ Steady(b, f) /\ \A id : ~Overtakes(b, f, id)
        BY <2>4, <2>5, <4>1, FinishGoes
      <4>3. Progress(f, s, {}) /\ Minds(b, f)
        BY <2>8, <4>2, ProgressAhead DEF Kept, Ahead
      <4> QED BY <4>2, <4>3, SteadyChecks
    <3>3. CASE ~fin.abort /\ q.ch \in a.open
      <4>1. f = ChatPage(b, q1, fin) /\ q1.ch \in b.open
        BY <1>3, <1>7, <2>3, <2>5, <3>3
      <4>2. /\ q1.stable => Got(b, q1, fin.last, {})
            /\ (q1.stable /\ fin.complete) => Got(b, q1, q1.end, {})
        BY <2>10, <3>3
      <4> QED BY ONLY <1>1, <2>4, <2>5, <2>8, <4>1, <4>2, s \in Seq(Answers), ChatPageGoes
    <3>4. CASE ~fin.abort /\ q.ch \notin a.open
      <4>1. f = GlobalPage(b, q1, fin) /\ q1.ch = Global
        BY <1>3, <1>7, <2>3, <3>1, <3>4
      <4>2. q1.stable => Covered(fin.last, Stored(b))
        <5>1. Stored(b) \union {} = Stored(b)
          OBVIOUS
        <5> QED BY <2>10, <3>4, <4>1, <5>1 DEF Got
      <4>3. /\ Progress(f, s, {}) /\ Minds(b, f) /\ Steady(b, f) /\ \A id : ~Overtakes(b, f, id)
        BY ONLY <1>1, <2>4, <2>5, <2>8, <4>1, <4>2, s \in Seq(Answers), GlobalPageGoes
      <4> QED BY <4>3, SteadyChecks
    <3> QED BY <3>2, <3>3, <3>4
  <2>12. Minds(a, f)
    BY <1>5, <2>7, <2>11, MindsTwice
  <2>13. ~Overtakes(a, f, fin.id)
    <3>1. ~Overtakes(b, f, fin.id) /\ b.shown = a.shown /\ b.open = a.open /\ b.db.ts = a.db.ts
      BY <2>5, <2>9, <2>11
    <3> QED BY ONLY <3>1 DEF Overtakes
  <2>14. Checks(a, f, fin.id)
    <3>1. \A r \in a.queries : r.id = fin.id => r = q
      BY <2>1 DEF Kept, Linked, OneOfEach
    <3> QED BY <2>1, <2>3, <2>5, <2>9, <2>11, <3>1 DEF Checks
  <2> QED BY <2>11, <2>12, <2>13, <2>14
<1> QED BY <1>6, <1>7

\* handle_mam_query_iq_error
LEMMA RefusedKeeps ==
  ASSUME NEW a, NEW s, Kept(a, s), s2c \in Seq(Answers), s \in Seq(Answers), Later(s),
         NEW err \in Answers, err.kind = "error", Unused(err.id, a, s)
  PROVE  LET b == Refused(a, err)
         IN  /\ Kept(b, s) /\ Minds(a, b) /\ Steady(a, b) /\ (\A n : ~Overtakes(a, b, n))
             /\ Progress(a, s, {}) => Progress(b, s, {})
<1> DEFINE known == {q \in a.queries : q.id = err.id}
           q == CHOOSE k \in known : TRUE
           id == FreshId(a)
           r == Query(id, Global, 0, now, TRUE)
           f == Forget(a, q)
           c == ClearCursor(f)
           b == Refused(a, err)
<1>1. b = IF known = {} THEN a
          ELSE IF q.ch = Global /\ err.stale
               THEN Send([c EXCEPT !.queries = @ \union {r}], id, Global, 0, now)
               ELSE Finish(Commit(a), q)
  BY DEF Refused
<1>2. /\ Typed(a) /\ id \in Ids /\ Unused(id, a, s) /\ \A x \in a.queries : x.id # id
  BY FreshIsUnused DEF Kept
<1> HIDE DEF id, b
<1>3. CASE known = {}
  <2>1. b = a
    BY <1>1, <1>3
  <2>2. Minds(a, a) /\ Steady(a, a) /\ \A n : ~Overtakes(a, a, n)
    BY DEF Minds, Steady, Overtakes
  <2> HIDE DEF known
  <2> QED BY ONLY Kept(a, s), <2>1, <2>2 DEF b
<1>4. CASE known # {}
  <2>1. q \in a.queries /\ q.id = err.id
    BY <1>4
  <2> HIDE DEF q, known
  <2>2. CASE ~(q.ch = Global /\ err.stale)
    <3> DEFINE d == Commit(a)
    <3>1. b = Finish(d, q)
      BY <1>1, <1>4, <2>2
    <3>2. d = Commit(a)
      OBVIOUS
    <3> HIDE DEF d
    <3>3. Kept(d, s) /\ Committed(a, d)
      BY <1>2, <3>2, CommitFacts
    <3>4. q \in d.queries /\ Unused(q.id, d, s)
      BY <2>1, <3>3 DEF Committed, SameFetches, Unused
    <3>5. Ahead(a, d, s) /\ Steady(a, d)
      BY <3>3, CommittedAhead
    <3>6. Kept(b, s) /\ Ahead(d, b, s) /\ Steady(d, b) /\ \A n : ~Overtakes(d, b, n)
      BY <3>1, <3>3, <3>4, FinishGoes
    <3>7. Ahead(a, b, s) /\ Steady(a, b)
      BY <3>5, <3>6, AheadTwice, SteadyTwice
    <3>8. Minds(a, b) /\ (Progress(a, s, {}) => Progress(b, s, {}))
      BY <3>6, <3>7, ProgressAhead DEF Ahead, Kept
    <3>9. ASSUME NEW n PROVE ~Overtakes(a, b, n)
      <4>1. ~Overtakes(d, b, n) /\ d.shown = a.shown /\ d.open = a.open /\ d.db.ts = a.db.ts
        BY <3>3, <3>6 DEF Committed
      <4> QED BY ONLY <4>1 DEF Overtakes
    <3> QED BY <3>6, <3>7, <3>8, <3>9 DEF b
  <2>3. CASE q.ch = Global /\ err.stale
    <3>1. b = Send([c EXCEPT !.queries = c.queries \union {r}], id, Global, 0, now)
      BY <1>1, <1>4, <2>3
    <3>2. /\ Typed(f) /\ Aside(a, f) /\ Grows(a, f) /\ f.queries = a.queries \ {q}
          /\ f.pages = a.pages /\ f.out = a.out /\ f.inflight = a.inflight
      <4> HIDE DEF f
      <4>1. f = Forget(a, q)
        BY DEF f
      <4> QED BY <1>2, <2>1, <4>1, ForgetFacts
    <3> HIDE DEF f
    <3>3. /\ Typed(c) /\ OnlyDb(f, c) /\ c.db.ts = f.db.ts /\ c.db.cache = f.db.cache
          /\ c.db.cursor = 0 /\ c.db.registered = f.db.registered /\ c.db.wiped = f.db.wiped
      <4>1. c = SetCursor(f, 0)
        BY DEF ClearCursor, SetCursor
      <4>2. 0 \in Times
        BY <1>2, NowFacts
      <4> HIDE DEF c
      <4> QED BY <3>2, <4>1, <4>2, SetCursorFacts
    <3> HIDE DEF c
    <3>4. /\ c \in Accounts /\ c.inflight = a.inflight /\ c.queries = a.queries \ {q}
          /\ c.pages = a.pages /\ c.out = a.out /\ c.open = a.open /\ c.probed = a.probed
          /\ c.held = a.held /\ c.inflight \in Nat
      BY <3>2, <3>3, NowFacts DEF OnlyDb, SameFetches, Aside
    <3>5. r \in Queries /\ r.id = id /\ r.ch = Global /\ r.end = now
      BY <1>2, NowFacts DEF Query, Queries, Chs
    <3> HIDE DEF r
    <3>6. b = AskedBy(c, r, 0, 0)
      <4> DEFINE k == c.inflight + 0
                 e == [c EXCEPT !.inflight = k]
                 Q == c.queries \union {r}
      <4>1. k = c.inflight
        BY <3>4
      <4>2. b = Send([c EXCEPT !.queries = Q], id, Global, 0, now)
        BY <3>1
      <4> HIDE DEF k, Q
      <4>3. e = c
        BY <3>4, <4>1 DEF Accounts
      <4>4. [e EXCEPT !.queries = Q] = [c EXCEPT !.inflight = k, !.queries = Q]
        OBVIOUS
      <4> HIDE DEF e
      <4>5. b = Send([c EXCEPT !.inflight = k, !.queries = Q], r.id, r.ch, 0, r.end)
        BY <3>5, <4>2, <4>3, <4>4
      <4> QED BY <4>5 DEF AskedBy, k, Q
    <3>7. /\ Typed(b) /\ Aside(c, b) /\ Grows(c, b)
          /\ b.queries = c.queries \union {r} /\ b.pages = c.pages
          /\ b.inflight = c.inflight + 0 /\ Asked1(c, b, r.id, r.ch, r.end)
          /\ Sent(c, b, r.id, r.ch, 0, r.end)
      <4>1. Typed(c) /\ r \in Queries /\ 0 \in Times /\ 0 \in Nat /\ b = AskedBy(c, r, 0, 0)
        BY <1>2, <3>3, <3>5, <3>6, NowFacts
      <4> QED BY ONLY <4>1, AskedFacts
    <3>8. /\ Linked(a, s) /\ a.out \in Seq(Requests) /\ IsFiniteSet(a.queries)
          /\ s \in Seq(Answers) /\ s = s
      BY <1>2, NowFacts DEF Kept
    <3>9. /\ \A i \in DOMAIN a.pages : a.pages[i].ch # Global
          /\ \A x \in a.queries \ {q} : x.ch # Global
      BY <2>1, <2>3, <3>8, GlobalAlone
    <3>10. Linked(c, s)
      <4>1. /\ \A i \in DOMAIN c.pages : \E j \in DOMAIN a.pages : c.pages[i] = a.pages[j]
            /\ \A i, j \in DOMAIN c.pages : c.pages[i].id = c.pages[j].id => i = j
            /\ \A x \in a.queries \ c.queries : \A i \in DOMAIN c.pages : c.pages[i].id # x.id
            /\ c.queries \subseteq a.queries /\ c.out = a.out /\ Grows(a, c)
        BY <2>1, <3>4, <3>8 DEF Linked, OneOfEach, Unused, Grows
      <4> QED BY ONLY <3>8, <4>1, FewerLinks
    <3>11. Linked(b, s)
      <4>1. a.probed
        BY <2>1, <2>3, <3>8 DEF Linked, Asking
      <4>2. b.probed /\ \A i \in DOMAIN c.pages : c.pages[i].ch # Global
        BY <3>4, <3>7, <3>9, <4>1 DEF Grows
      <4>3. Unused(r.id, c, s) /\ \A x \in c.queries : x.ch # r.ch /\ x.id # r.id
        BY <1>2, <3>4, <3>5, <3>9 DEF Unused
      <4>4. c.out \in Seq(Requests) /\ r.ch = Global
        BY <3>4, <3>5, <3>8
      <4> QED BY ONLY <3>7, <3>10, <4>2, <4>3, <4>4, NewQuery
    <3>12. Slots(b)
      <4>1. r \notin a.queries \ {q} /\ b.queries = (a.queries \ {q}) \union {r}
        BY <1>2, <3>4, <3>5, <3>7
      <4>2. Cardinality(b.queries) = Cardinality(a.queries)
        BY <2>1, <3>8, <4>1, OneOther
      <4>3. Slots(a)
        BY DEF Kept
      <4> QED BY <3>4, <3>7, <4>2, <4>3 DEF Slots, SlotsBut
    <3>13. Held(b)
      <4> SUFFICES ASSUME NEW p \in PMs, b.held[p] # <<>> PROVE Fetching(b, p, 0)
        BY DEF Held, HeldBut
      <4>1. p # Global
        BY MamConstants DEF Channels
      <4>2. Fetching(a, p, 0)
        BY <3>4, <3>7, <4>1 DEF Kept, Held, HeldBut, Aside
      <4> QED BY <2>3, <3>4, <3>7, <4>1, <4>2 DEF Fetching
    <3>14. /\ b.open = a.open /\ b.shown = a.shown /\ b.last_fetch = a.last_fetch
           /\ b.db.ts = a.db.ts /\ b.db.registered = a.db.registered
      BY <3>2, <3>3, <3>7 DEF Aside, OnlyDb
    <3>15. Minds(a, b) /\ Steady(a, b) /\ \A n : ~Overtakes(a, b, n)
      BY ONLY <3>14 DEF Minds, Steady, Overtakes
    <3>16. ASSUME Progress(a, s, {}) PROVE Progress(b, s, {})
      <4>1. /\ Safe(f) = Safe(a) /\ Stored(f) = Stored(a) /\ Safe(c) = Safe(f) /\ Stored(c) = Stored(f)
            /\ \A p : There(f, p) = There(a, p) /\ There(c, p) = There(f, p)
        BY <3>2, <3>3 DEF Aside, OnlyDb, Safe, Stored, There, HeldBack
      <4>2. Ahead(a, f, s)
        <5>1. Minds(a, f) /\ f.db.cursor = a.db.cursor
          BY <3>2 DEF Aside, Minds
        <5> QED BY <3>2, <4>1, <5>1, AheadFewer
      <4>3. Progress(f, s, {})
        BY <3>2, <3>16, <4>2, ProgressAhead
      <4>4. \A x, n, k : Got(f, x, n, k) => Got(c, x, n, k)
        BY <4>1 DEF Got
      <4>5. c.pages = f.pages /\ c.queries = f.queries /\ c.out = f.out
        BY <3>3 DEF OnlyDb, SameFetches
      <4>6. PagesGot(c) /\ RequestsGot(c) /\ AnswersGot(c, s, {})
        BY <4>1, <4>3, <4>4, <4>5 DEF Progress, PagesGot, RequestsGot, AnswersGot
      <4>7. \A S : Covered(0, S)
        BY DEF Covered, In
      <4>8. Progress(c, s, {})
        BY <3>3, <4>6, <4>7 DEF Progress
      <4>9. Unused(r.id, c, s) /\ (\A x \in c.queries : x.id # r.id) /\ c.out \in Seq(Requests)
        BY <1>2, <3>4, <3>5, <3>8 DEF Unused
      <4>10. \A x \in b.queries : x \in c.queries \/ (x.id = r.id /\ Unused(r.id, c, s))
        BY <3>7, <4>9
      <4>11. Global \notin PMs
        BY MamConstants DEF Channels
      <4>12. \A x \in b.queries : (x.stable /\ x.id = r.id) => Got(c, x, 0, {})
        BY <3>5, <3>7, <4>7, <4>9, <4>11 DEF Got
      <4>13. \A i \in DOMAIN b.pages : \E j \in DOMAIN c.pages : c.pages[j] = b.pages[i]
        BY <3>7
      <4> QED BY ONLY <3>7, <4>8, <4>9, <4>10, <4>12, <4>13, ProgressSent
    <3> QED BY <3>7, <3>11, <3>12, <3>13, <3>15, <3>16 DEF Kept, b
  <2> QED BY <2>2, <2>3
<1> QED BY <1>3, <1>4

\* The first answer is received: what it brings is counted with what the account has.
LEMMA FirstGoes ==
  ASSUME NEW a, NEW s, s \in Seq(Answers), s # <<>>, Progress(a, s, {}), NEW x, x = Head(s)
  PROVE  /\ Progress(a, Tail(s), IF x.kind = "result" THEN {x.m} ELSE {})
         /\ x.kind = "fin" => Answered(a, x)
<1> DEFINE t == Tail(s)
           more == IF x.kind = "result" THEN {x.m} ELSE {}
<1>1. /\ 1 \in DOMAIN s /\ x = s[1]
      /\ \A i \in DOMAIN t : i \in Nat /\ i + 1 \in DOMAIN s /\ t[i] = s[i + 1]
      /\ \A j \in DOMAIN s : j \in Nat /\ (j # 1 => j - 1 \in DOMAIN t /\ t[j - 1] = s[j])
  OBVIOUS
<1> HIDE DEF t
<1>2. ASSUME NEW i \in DOMAIN t PROVE Coming(s, i + 1) \subseteq Coming(t, i) \union more
  <2> SUFFICES ASSUME NEW j \in DOMAIN s, j < i + 1, s[j].kind = "result"
               PROVE  s[j].m \in Coming(t, i) \union more
    BY DEF Coming
  <2>1. CASE j = 1
    BY <1>1, <2>1
  <2>2. CASE j # 1
    <3>1. j - 1 \in DOMAIN t /\ t[j - 1] = s[j] /\ j - 1 < i
      BY <1>1, <2>2
    <3> QED BY <3>1 DEF Coming
  <2> QED BY <2>1, <2>2
<1>3. Coming(s, 1) = {}
  BY <1>1 DEF Coming
<1> HIDE DEF more
<1>4. AnswersGot(a, t, more)
  <2> SUFFICES ASSUME NEW i \in DOMAIN t, NEW q \in a.queries, q.stable, Steadily(t[i]), t[i].id = q.id
               PROVE  /\ Got(a, q, t[i].last, Coming(t, i) \union more)
                      /\ t[i].complete => Got(a, q, q.end, Coming(t, i) \union more)
    BY DEF AnswersGot
  <2>1. /\ Got(a, q, t[i].last, Coming(s, i + 1) \union {})
        /\ t[i].complete => Got(a, q, q.end, Coming(s, i + 1) \union {})
    <3>1. i + 1 \in DOMAIN s /\ t[i] = s[i + 1]
      BY <1>1
    <3> QED BY <3>1 DEF Progress, AnswersGot
  <2>2. Coming(s, i + 1) \union {} \subseteq Coming(t, i) \union more
    BY <1>2
  <2> QED BY <2>1, <2>2, GotMore
<1>5. Progress(a, t, more)
  BY <1>4 DEF Progress
<1>6. x.kind = "fin" => Answered(a, x)
  BY <1>1, <1>3 DEF Progress, AnswersGot, Answered
<1> QED BY <1>5, <1>6 DEF t, more

\* What has been received is in the cache's batch and in its chat.
LEMMA Settled ==
  ASSUME NEW b, NEW s, NEW m \in Said, Progress(b, s, {m}), m \in Stored(b),
         archive[m] \in PMs => m \in There(b, archive[m])
  PROVE  Progress(b, s, {})
<1>1. ASSUME NEW q, NEW n, NEW k, Got(b, q, n, k \union {m}) PROVE Got(b, q, n, k \union {})
  <2>1. q.ch = Global => Covered(n, Stored(b) \union (k \union {}))
    BY <1>1 DEF Got, Covered
  <2>2. ASSUME q.ch \in PMs PROVE Seen(q.ch, q.start, n, There(b, q.ch) \union (k \union {}))
    <3>1. Seen(q.ch, q.start, n, There(b, q.ch) \union (k \union {m}))
      BY <1>1, <2>2 DEF Got
    <3>2. m \in In({q.ch}) => m \in There(b, q.ch)
      BY <2>2 DEF In
    <3> QED BY <3>1, <3>2 DEF Seen
  <2> QED BY <2>1, <2>2 DEF Got
<1>2. AnswersGot(b, s, {})
  BY <1>1 DEF Progress, AnswersGot
<1> QED BY <1>2 DEF Progress

\* A request is answered truly.
LEMMA ServedGoes ==
  ASSUME NEW a, NEW s, s \in Seq(Answers), Progress(a, s, {}), NEW replies \in Seq(Answers),
         AnswersGot(a, replies, {}), NEW b, Aside(a, b), b.queries = a.queries, b.pages = a.pages,
         a.out \in Seq(Requests), a.out # <<>>, b.out = Tail(a.out)
  PROVE  Progress(b, s \o replies, {})
<1> DEFINE t == s \o replies
<1>1. /\ Safe(b) = Safe(a) /\ Stored(b) = Stored(a) /\ b.db.cursor = a.db.cursor
      /\ \A p : There(b, p) = There(a, p)
  BY DEF Aside, Safe, Stored, There, HeldBack
<1>2. \A q, n, k : Got(a, q, n, k) => Got(b, q, n, k)
  BY <1>1 DEF Got
<1>3. PagesGot(b)
  BY <1>1, <1>2 DEF Progress, PagesGot
<1>4. RequestsGot(b)
  <2>1. \A i \in DOMAIN b.out : \E j \in DOMAIN a.out : b.out[i] = a.out[j]
    OBVIOUS
  <2> QED BY <1>2, <2>1 DEF Progress, RequestsGot
<1>5. ASSUME NEW i \in DOMAIN t, NEW q \in a.queries, q.stable, Steadily(t[i]), t[i].id = q.id
      PROVE  /\ Got(a, q, t[i].last, Coming(t, i) \union {})
             /\ t[i].complete => Got(a, q, q.end, Coming(t, i) \union {})
  <2>1. t \in Seq(Answers) /\ Len(t) = Len(s) + Len(replies) /\ i \in 1..(Len(s) + Len(replies))
    OBVIOUS
  <2>2. CASE i <= Len(s)
    <3>1. i \in DOMAIN s /\ t[i] = s[i]
      BY <2>1, <2>2
    <3>2. \A j \in DOMAIN s : j \in DOMAIN t /\ t[j] = s[j]
      BY <2>1
    <3>3. Coming(s, i) \union {} \subseteq Coming(t, i) \union {}
      <4> HIDE DEF t
      <4> QED BY <3>2 DEF Coming
    <3>4. /\ Got(a, q, s[i].last, Coming(s, i) \union {})
          /\ s[i].complete => Got(a, q, q.end, Coming(s, i) \union {})
      BY <1>5, <3>1 DEF Progress, AnswersGot
    <3> HIDE DEF t
    <3> QED BY <3>1, <3>3, <3>4, GotMore
  <2>3. CASE i > Len(s)
    <3> DEFINE j == i - Len(s)
    <3>1. j \in DOMAIN replies /\ t[i] = replies[j]
      BY <2>1, <2>3
    <3>2. \A k \in DOMAIN replies : /\ k + Len(s) \in DOMAIN t /\ t[k + Len(s)] = replies[k]
                                    /\ (k < j => k + Len(s) < i)
      <4> SUFFICES ASSUME NEW k \in DOMAIN replies
                   PROVE  /\ k + Len(s) \in DOMAIN t /\ t[k + Len(s)] = replies[k]
                          /\ (k < j => k + Len(s) < i)
        OBVIOUS
      <4>1. k \in 1..Len(replies) /\ Len(s) \in Nat /\ Len(replies) \in Nat /\ i \in Nat
        BY <2>1
      <4>2. k + Len(s) \in 1..(Len(s) + Len(replies)) /\ k + Len(s) > Len(s) /\ (k + Len(s)) - Len(s) = k
        BY <4>1
      <4>3. k < j => k + Len(s) < i
        BY <4>1
      <4>4. t[k + Len(s)] = replies[(k + Len(s)) - Len(s)]
        BY <4>2
      <4> QED BY <2>1, <4>2, <4>3, <4>4
    <3>3. Coming(replies, j) \union {} \subseteq Coming(t, i) \union {}
      <4> HIDE DEF t, j
      <4> QED BY <3>2 DEF Coming
    <3>4. /\ Got(a, q, replies[j].last, Coming(replies, j) \union {})
          /\ replies[j].complete => Got(a, q, q.end, Coming(replies, j) \union {})
      BY <1>5, <3>1 DEF AnswersGot
    <3> HIDE DEF t, j
    <3> QED BY <3>1, <3>3, <3>4, GotMore
  <2> QED BY <2>1, <2>2, <2>3
<1>6. AnswersGot(b, t, {})
  <2> HIDE DEF t
  <2> QED BY <1>2, <1>5 DEF AnswersGot
<1> QED BY <1>1, <1>3, <1>4, <1>6 DEF Progress

-----------------------------------------------------------------------------
(* Chats are closed, sessions start afresh and chats come back.            *)

\* What 's \ {x} for every x in s' has, s has.
Inductive(T, S) == \A s \in SUBSET S : (\A x \in s : s \ {x} \in T) => s \in T

LEMMA SetInduction ==
  ASSUME NEW S, IsFiniteSet(S), NEW T, Inductive(T, S)
  PROVE  SUBSET S \subseteq T
<1> DEFINE Bad == {s \in SUBSET S : s \notin T}
<1>1. ASSUME Bad # {} PROVE FALSE
  <2>1. IsWellFoundedOn(StrictSubsetOrdering(S), FiniteSubsetsOf(S))
    BY FS_StrictSubsetOrderingWellFounded
  <2>2. Bad \subseteq FiniteSubsetsOf(S)
    BY FS_Subset DEF FiniteSubsetsOf
  <2>3. PICK s \in Bad : \A t \in Bad : <<t, s>> \notin StrictSubsetOrdering(S)
    BY <1>1, <2>1, <2>2, WFMin
  <2>4. ASSUME NEW x \in s PROVE s \ {x} \in T
    <3>1. s \ {x} \in SUBSET S /\ s \ {x} # s
      BY <2>3, <2>4
    <3>2. <<s \ {x}, s>> \in StrictSubsetOrdering(S)
      BY <3>1, <2>3 DEF StrictSubsetOrdering
    <3> QED BY <3>1, <3>2, <2>3
  <2> QED BY <2>3, <2>4 DEF Inductive
<1> QED BY <1>1

\* buffer__close_cb, once what was fetched has been cancelled
Shut(a, b, ch) ==
  /\ b.open = a.open \ {ch} /\ b.joining = a.joining \ {ch}
  /\ b.shown = a.shown \ In({ch}) /\ SameFetches(a, b) /\ b.timer = a.timer
  /\ b.up = a.up /\ b.sm = a.sm /\ b.probed = a.probed /\ b.held = a.held
  /\ b.last_fetch = a.last_fetch /\ b.catchup = a.catchup /\ b.batch = a.batch
  /\ b.db = a.db /\ b.jitter = a.jitter

LEMMA CloseKeeps ==
  ASSUME NEW a, NEW s, Kept(a, s), NEW ch \in Channels,
         \A q \in a.queries : q.ch # ch, \A i \in DOMAIN a.pages : a.pages[i].ch # ch,
         NEW b, b = [a EXCEPT !.open = @ \ {ch}, !.joining = @ \ {ch}, !.shown = @ \ In({ch})]
  PROVE  Kept(b, s) /\ Shut(a, b, ch)
<1> DEFINE open == a.open \ {ch}
           joining == a.joining \ {ch}
           shown == a.shown \ In({ch})
           c == [a EXCEPT !.open = open, !.joining = joining, !.shown = shown]
<1>1. Typed(a) /\ a \in Accounts /\ Linked(a, s)
  BY DEF Kept, Typed
<1>2. /\ open \in SUBSET Channels /\ joining \in SUBSET Channels /\ shown \in SUBSET Said
      /\ joining \subseteq open \intersect Rooms
  BY <1>1 DEF Accounts, Typed
<1>3. b = c
  OBVIOUS
<1> HIDE DEF open, joining, shown
<1>4. /\ b \in Accounts /\ b.open = open /\ b.joining = joining /\ b.shown = shown
      /\ SameFetches(a, b) /\ b.timer = a.timer
      /\ b.up = a.up /\ b.sm = a.sm /\ b.probed = a.probed /\ b.held = a.held
      /\ b.last_fetch = a.last_fetch /\ b.catchup = a.catchup /\ b.batch = a.batch
      /\ b.db = a.db /\ b.jitter = a.jitter
  BY <1>1, <1>2, <1>3, ZenonT(30) DEF Accounts, SameFetches
<1>5. Typed(b)
  BY ONLY <1>1, <1>2, <1>4 DEF Typed, SameFetches
<1>6. Linked(b, s)
  <2>1. OneOfEach(b) /\ OneEnd(b, s)
    BY <1>1, <1>4 DEF Linked, OneOfEach, OneEnd, SameFetches
  <2>2. Paged(b)
    <3> SUFFICES ASSUME NEW i \in DOMAIN a.pages PROVE PageFits(a.pages[i], b)
      BY <1>4 DEF Paged, SameFetches
    <3>1. PageFits(a.pages[i], a) /\ a.pages[i].ch # ch
      BY <1>1 DEF Linked, Paged
    <3> QED BY <1>4, <3>1 DEF PageFits, SameFetches, open
  <2>3. Asking(b)
    BY <1>1, <1>4 DEF Linked, Asking, SameFetches, open
  <2> QED BY <2>1, <2>2, <2>3 DEF Linked
<1>7. Slots(b) /\ Held(b)
  BY <1>4, SameSlots DEF Kept
<1> QED BY <1>4, <1>5, <1>6, <1>7 DEF Kept, Shut, open, joining, shown

\* reset_mam_sync, with what was to be sent thrown away
LEMMA ResetKeeps ==
  ASSUME NEW a, Typed(a), a.out = <<>>, NEW b, b = ResetSync(a)
  PROVE  /\ Kept(b, <<>>) /\ b.queries = {} /\ b.pages = <<>> /\ b.out = <<>>
         /\ b.held = [p \in PMs |-> <<>>] /\ ~b.timer
         /\ b.up = a.up /\ b.sm = a.sm /\ b.probed = a.probed /\ b.open = a.open
         /\ b.joining = a.joining /\ b.shown = a.shown /\ b.last_fetch = a.last_fetch
         /\ b.catchup = a.catchup /\ b.batch = a.batch /\ b.db = a.db
<1> DEFINE held == [p \in PMs |-> <<>>]
           none == <<>>
           Q == {}
           n == 0
<1>1. /\ held \in [PMs -> Seq(HeldMessages)] /\ none \in Seq(Pages) /\ Q \in SUBSET Queries
      /\ IsFiniteSet(Q) /\ n \in Nat /\ a \in Accounts /\ Cardinality(Q) = 0
  BY FS_EmptySet DEF Typed
<1>2. b = [a EXCEPT !.timer = FALSE, !.pages = none, !.held = held, !.queries = Q,
                    !.inflight = n, !.jitter = FALSE]
  BY DEF ResetSync
<1> HIDE DEF held, none, Q, n
<1>3. /\ b \in Accounts /\ b.queries = Q /\ b.pages = none /\ b.out = a.out /\ b.held = held
      /\ b.timer = FALSE /\ b.inflight = n
      /\ b.up = a.up /\ b.sm = a.sm /\ b.probed = a.probed /\ b.open = a.open
      /\ b.joining = a.joining /\ b.shown = a.shown /\ b.last_fetch = a.last_fetch
      /\ b.catchup = a.catchup /\ b.batch = a.batch /\ b.db = a.db
  BY <1>1, <1>2, ZenonT(30) DEF Accounts
<1>4. Typed(b)
  <2>1. \A p \in PMs : \A i \in DOMAIN b.held[p] : archive[b.held[p][i].m] = p
    BY <1>3 DEF held
  <2> QED BY <1>1, <1>3, <2>1 DEF Typed
<1>5. Linked(b, <<>>)
  BY <1>3 DEF Linked, OneOfEach, OneEnd, Paged, Asking, Q, none
<1>6. Slots(b) /\ Held(b)
  BY <1>1, <1>3, MamConstants DEF Slots, SlotsBut, SlotsHeld, Held, HeldBut, held, none, n
<1> QED BY <1>3, <1>4, <1>5, <1>6 DEF Kept, held, none, Q

\* The base from which chats are restored.
Rejoining(a, b) ==
  /\ b.joining = a.open \intersect Rooms /\ b.open = a.open
  /\ b.up = a.up /\ b.sm = a.sm /\ b.probed = a.probed /\ b.shown = a.shown
  /\ b.last_fetch = a.last_fetch /\ b.held = a.held /\ b.catchup = a.catchup
  /\ b.batch = a.batch /\ b.timer = a.timer /\ b.jitter = a.jitter /\ b.db = a.db
  /\ SameFetches(a, b)

LEMMA RejoinKeeps ==
  ASSUME NEW a, NEW s, Kept(a, s), NEW b, b = [a EXCEPT !.joining = a.open \intersect Rooms]
  PROVE  Kept(b, s) /\ Rejoining(a, b)
<1> DEFINE joining == a.open \intersect Rooms
<1>1. a \in Accounts /\ Typed(a) /\ joining \in SUBSET Channels /\ b = [a EXCEPT !.joining = joining]
  BY DEF Kept, Typed, Accounts
<1> HIDE DEF joining
<1>2. /\ b \in Accounts /\ b.joining = joining /\ b.open = a.open
      /\ b.up = a.up /\ b.sm = a.sm /\ b.probed = a.probed /\ b.shown = a.shown
      /\ b.last_fetch = a.last_fetch /\ b.held = a.held /\ b.catchup = a.catchup
      /\ b.batch = a.batch /\ b.timer = a.timer /\ b.jitter = a.jitter /\ b.db = a.db
      /\ SameFetches(a, b)
  BY <1>1 DEF Accounts, SameFetches
<1>3. Typed(b)
  BY ONLY <1>1, <1>2 DEF Typed, SameFetches, joining
<1>4. Linked(b, s) /\ Slots(b) /\ Held(b)
  <2>1. Grows(a, b)
    BY <1>2 DEF Grows
  <2> QED BY <1>2, <2>1, SameLinks, SameSlots DEF Kept
<1> QED BY <1>2, <1>3, <1>4 DEF Kept, Rejoining, joining

\* Chats are opened one after the other.
Reopens(it, base, S, s) ==
  \A T \in SUBSET S :
    /\ Kept(it[T], s) /\ it[T].open = base.open \union T
    /\ T # {} => \E x \in T : /\ it[T] = Open(it[T \ {x}], x) /\ x \notin it[T \ {x}].open
                              /\ Opened(it[T \ {x}], it[T], x)

LEMMA RestoreSteps ==
  ASSUME NEW a, NEW s, Kept(a, s), s2c \in Seq(Answers), Later(s)
  PROVE  \E base, S, it :
           /\ Rejoining(a, base) /\ S = a.db.registered \ a.open /\ S \subseteq PMs /\ IsFiniteSet(S)
           /\ it[{}] = base /\ Reopens(it, base, S, s) /\ Restore(a) = it[S]
<1> DEFINE base == [a EXCEPT !.joining = a.open \intersect Rooms]
           S == a.db.registered \ a.open
           A == {b \in Accounts : Kept(b, s)}
           pick == [T \in SUBSET S |-> CHOOSE x \in T : TRUE]
           Step(b, x) == IF x \in b.open THEN b ELSE Open(b, x)
           step == [p \in S \X A |-> Step(p[2], p[1])]
<1>1. Typed(a) /\ S \subseteq PMs /\ IsFiniteSet(S)
  <2>1. Typed(a) /\ a.db \in Dbs /\ IsFiniteSet(a.db.registered)
    BY DEF Kept, Typed, Accounts
  <2> QED BY <2>1, FS_Subset DEF Dbs
<1>2. Kept(base, s) /\ Rejoining(a, base)
  <2>1. base = [a EXCEPT !.joining = a.open \intersect Rooms]
    OBVIOUS
  <2> HIDE DEF base
  <2> QED BY <2>1, RejoinKeeps
<1>3. Restore(a) = FoldSet(Reopen, base, S)
  BY DEF Restore, OpenList
<1> HIDE DEF base
<1>4. base \in A
  BY <1>2 DEF Kept, Typed
<1>5. ASSUME NEW b \in A, NEW x \in S, x \notin b.open
      PROVE  Open(b, x) \in A /\ Opened(b, Open(b, x), x)
  <2>1. Kept(b, s) /\ x \in PMs \ b.open
    BY <1>1, <1>5
  <2>2. Kept(Open(b, x), s) /\ Opened(b, Open(b, x), x)
    BY <2>1, OpenKeeps
  <2> QED BY <2>2 DEF Kept, Typed
<1>6. Picks(pick, S)
  BY DEF Picks
<1> HIDE DEF A, S
<1>7. step \in [S \X A -> A]
  BY <1>5
<1>8. PICK f \in [SUBSET S -> A] : Recurs(f, S, base, step, pick)
  <2> HIDE DEF pick, step
  <2> QED BY <1>1, <1>4, <1>6, <1>7, FoldExists
<1> DEFINE Steps(it) ==
             /\ it[{}] = base
             /\ \A T \in SUBSET S : T # {} =>
                  (pick[T] \notin it[T \ {pick[T]}].open =>
                     it[T] = Open(it[T \ {pick[T]}], pick[T]))
<1>9. ASSUME NEW it, Steps(it)
      PROVE  \A T \in SUBSET S :
               /\ it[T] \in A /\ it[T].open = base.open \union T
               /\ T # {} => pick[T] \notin it[T \ {pick[T]}].open
  <2> DEFINE Fine(T) == /\ it[T] \in A /\ it[T].open = base.open \union T
                        /\ T # {} => pick[T] \notin it[T \ {pick[T]}].open
             G == {T \in SUBSET S : Fine(T)}
  <2>1. ASSUME NEW T \in SUBSET S, \A x \in T : T \ {x} \in G PROVE T \in G
    <3>1. CASE T = {}
      BY <1>4, <1>9, <3>1
    <3>2. CASE T # {}
      <4> DEFINE x == pick[T]
                 b == it[T \ {x}]
      <4>1. x \in T /\ x \in S
        BY <1>6, <3>2 DEF Picks
      <4>2. b \in A /\ b.open = base.open \union (T \ {x})
        BY <2>1, <4>1
      <4>3. x \notin b.open
        BY <1>2, <4>1, <4>2 DEF Rejoining, S
      <4>4. it[T] = Open(b, x)
        BY <1>9, <3>2, <4>3
      <4> HIDE DEF x, b
      <4>5. Open(b, x) \in A /\ Opened(b, Open(b, x), x)
        BY <1>5, <4>1, <4>2, <4>3
      <4>6. it[T].open = base.open \union T
        BY <4>1, <4>2, <4>4, <4>5 DEF Opened
      <4> QED BY <4>3, <4>4, <4>5, <4>6 DEF x, b
    <3> QED BY <3>1, <3>2
  <2>2. Inductive(G, S)
    <3> HIDE DEF G
    <3> QED BY <2>1 DEF Inductive
  <2> HIDE DEF G
  <2>3. SUBSET S \subseteq G
    BY <1>1, <2>2, SetInduction
  <2> QED BY <2>3 DEF G
<1> DEFINE Is(it) == it = [T \in SUBSET S |-> IF T = {} THEN base
                     ELSE Reopen(CHOOSE x \in T : TRUE, it[T \ {CHOOSE x \in T : TRUE}])]
           iter == CHOOSE it : Is(it)
<1>10. \A T \in SUBSET S : f[T] = IF T = {} THEN base ELSE Step(f[T \ {pick[T]}], pick[T])
  <2> SUFFICES ASSUME NEW T \in SUBSET S
               PROVE  f[T] = IF T = {} THEN base ELSE Step(f[T \ {pick[T]}], pick[T])
    OBVIOUS
  <2>1. f[T] = IF T = {} THEN base ELSE step[pick[T], f[T \ {pick[T]}]]
    <3> HIDE DEF pick, step
    <3> QED BY <1>8 DEF Recurs
  <2>2. T # {} => (pick[T] \in S /\ f[T \ {pick[T]}] \in A)
    BY <1>6, <1>8 DEF Picks
  <2> HIDE DEF pick, Step
  <2> QED BY <2>1, <2>2
<1>11. Steps(f)
  BY <1>10
<1>12. Is(f)
  <2>1. \A T \in SUBSET S : T # {} => pick[T] \notin f[T \ {pick[T]}].open
    <3> HIDE DEF Steps
    <3> QED BY <1>9, <1>11
  <2> QED BY <1>8, <1>10, <2>1 DEF Reopen
<1>13. Is(iter)
  <2> HIDE DEF Is
  <2> QED BY <1>12
<1> HIDE DEF iter
<1>14. Steps(iter)
  BY <1>13 DEF Reopen
<1>15. \A T \in SUBSET S :
         /\ iter[T] \in A /\ iter[T].open = base.open \union T
         /\ T # {} => pick[T] \notin iter[T \ {pick[T]}].open
  <2> HIDE DEF Steps
  <2> QED BY <1>9, <1>14
<1>16. Restore(a) = iter[S]
  BY <1>3 DEF FoldSet, MapThenFoldSet, iter, Is
<1>17. Reopens(iter, base, S, s)
  <2> SUFFICES ASSUME NEW T \in SUBSET S
               PROVE  /\ Kept(iter[T], s) /\ iter[T].open = base.open \union T
                      /\ T # {} => \E x \in T : /\ iter[T] = Open(iter[T \ {x}], x)
                                                /\ x \notin iter[T \ {x}].open
                                                /\ Opened(iter[T \ {x}], iter[T], x)
    BY DEF Reopens
  <2>1. Kept(iter[T], s) /\ iter[T].open = base.open \union T
    BY <1>15 DEF A
  <2>2. ASSUME T # {}
        PROVE  \E x \in T : /\ iter[T] = Open(iter[T \ {x}], x) /\ x \notin iter[T \ {x}].open
                            /\ Opened(iter[T \ {x}], iter[T], x)
    <3> DEFINE x == pick[T]
    <3>1. x \in T /\ x \in S
      BY <1>6, <2>2 DEF Picks
    <3>2. x \notin iter[T \ {x}].open /\ iter[T \ {x}] \in A
      BY <1>15, <2>2
    <3>3. iter[T] = Open(iter[T \ {x}], x)
      BY <1>14, <2>2, <3>2
    <3> HIDE DEF x
    <3>4. Opened(iter[T \ {x}], Open(iter[T \ {x}], x), x)
      BY <1>5, <3>1, <3>2
    <3> QED BY <3>1, <3>2, <3>3, <3>4
  <2> QED BY <2>1, <2>2
<1>18. iter[{}] = base
  BY <1>14
<1>19. S = a.db.registered \ a.open
  BY DEF S
<1> HIDE DEF S
<1> QED BY <1>1, <1>2, <1>16, <1>17, <1>18, <1>19

LEMMA RestoreKeeps ==
  ASSUME NEW a, NEW s, Kept(a, s), s2c \in Seq(Answers), Later(s)
  PROVE  LET b == Restore(a)
         IN  /\ Kept(b, s) /\ Ahead(a, b, s) /\ Steady(a, b) /\ b.up = a.up
             /\ a.db.registered \subseteq b.open
<1>1. PICK base, S, it :
        /\ Rejoining(a, base) /\ S = a.db.registered \ a.open /\ S \subseteq PMs /\ IsFiniteSet(S)
        /\ it[{}] = base /\ Reopens(it, base, S, s) /\ Restore(a) = it[S]
  BY RestoreSteps
<1> DEFINE Goes(x) == Ahead(base, x, s) /\ Steady(base, x) /\ x.up = base.up
           G == {T \in SUBSET S : Goes(it[T])}
<1>2. /\ Ahead(base, base, s) /\ Steady(base, base) /\ Ahead(a, base, s) /\ Steady(a, base)
      /\ base.up = a.up
  <2>1. /\ SameFetches(base, base) /\ SameFetches(a, base) /\ base.db = a.db /\ base.open = a.open
        /\ base.batch = a.batch /\ base.last_fetch = a.last_fetch /\ base.up = a.up
        /\ \A p \in PMs : There(a, p) = There(base, p)
    BY <1>1 DEF Rejoining, SameFetches, There, HeldBack
  <2>2. Ahead(base, base, s)
    BY ONLY <2>1, AheadSame
  <2>3. Ahead(a, base, s)
    BY ONLY <2>1, AheadSame
  <2> QED BY <2>1, <2>2, <2>3 DEF Steady
<1>3. ASSUME NEW T \in SUBSET S, \A x \in T : T \ {x} \in G PROVE T \in G
  <2>1. CASE T = {}
    BY <1>1, <1>2, <2>1
  <2>2. CASE T # {}
    <3>1. PICK x \in T : /\ it[T] = Open(it[T \ {x}], x) /\ x \notin it[T \ {x}].open
                         /\ Opened(it[T \ {x}], it[T], x)
      BY <1>1, <2>2 DEF Reopens
    <3> DEFINE c == it[T \ {x}]
               d == it[T]
    <3>2. Kept(c, s) /\ x \in PMs \ c.open /\ d = Open(c, x) /\ Opened(c, d, x)
      <4>1. T \ {x} \in SUBSET S
        OBVIOUS
      <4> QED BY <1>1, <3>1, <4>1 DEF Reopens
    <3>3. Goes(c)
      BY <1>3, <3>1
    <3> HIDE DEF c, d
    <3>4. Ahead(c, d, s)
      BY <3>2, OpenKeeps
    <3>5. Steady(c, d)
      BY <3>2, OpenSteady DEF Kept
    <3>6. Goes(d)
      BY <3>2, <3>3, <3>4, <3>5, AheadTwice, SteadyTwice DEF Opened
    <3> QED BY <3>6 DEF d
  <2> QED BY <2>1, <2>2
<1> HIDE DEF Goes
<1>4. Inductive(G, S)
  <2> HIDE DEF G
  <2> QED BY <1>3 DEF Inductive
<1>5. SUBSET S \subseteq G
  <2> HIDE DEF G
  <2> QED BY <1>1, <1>4, SetInduction
<1>6. Goes(it[S])
  BY <1>5
<1>7. Ahead(a, it[S], s) /\ Steady(a, it[S]) /\ it[S].up = a.up
  BY <1>2, <1>6, AheadTwice, SteadyTwice DEF Goes
<1>8. Kept(it[S], s) /\ it[S].open = base.open \union S
  BY <1>1 DEF Reopens
<1>9. a.db.registered \subseteq it[S].open
  BY <1>1, <1>8 DEF Rejoining
<1> QED BY <1>1, <1>7, <1>8, <1>9

\* Chats of which something is known are open again.
LEMMA StandsRestored ==
  ASSUME NEW a, NEW s, Kept(a, s), s2c \in Seq(Answers), Later(s), Progress(a, s, {}), Known(a),
         NEW b, b = Restore(a)
  PROVE  Kept(b, s) /\ Stands(b, s) /\ Steady(a, b)
<1>1. /\ Kept(b, s) /\ Ahead(a, b, s) /\ Steady(a, b) /\ b.up = a.up
      /\ a.db.registered \subseteq b.open
  BY RestoreKeeps
<1>2. Progress(b, s, {}) /\ Minds(a, b)
  BY <1>1, ProgressAhead DEF Ahead, Kept
<1>3. Known(b) /\ Attended(b)
  BY <1>1, <1>2 DEF Known, Attended, Minds
<1> QED BY <1>1, <1>2, <1>3 DEF Stands

-----------------------------------------------------------------------------
(* Actions.                                                                *)

\* Flags change, and what the user sees.
LEMMA FlagsKeep ==
  ASSUME NEW a, NEW b, NEW s, Kept(a, s), b \in Accounts, SameFetches(a, b), Grows(a, b),
         b.held = a.held, b.db = a.db, b.joining \subseteq b.open \intersect Rooms,
         b.timer => b.up
  PROVE  Kept(b, s)
<1>1. Typed(b)
  BY DEF Kept, Typed, SameFetches
<1>2. Linked(b, s) /\ Slots(b) /\ Held(b)
  BY SameLinks, SameSlots DEF Kept
<1> QED BY <1>1, <1>2 DEF Kept

\* The account of a client that starts has nothing underway.
LEMMA StartedKeeps ==
  ASSUME archive \in Seq(Channels), NEW d \in Dbs, IsFiniteSet(d.registered),
         \A r \in Rooms : d.ts[r] # Closed, NEW b, b = Started(d)
  PROVE  /\ Kept(b, <<>>) /\ b.db = d /\ b.queries = {} /\ b.pages = <<>> /\ b.out = <<>>
         /\ b.open = {} /\ b.joining = {} /\ b.shown = {} /\ b.batch = {} /\ ~b.up
         /\ \A p \in PMs : b.held[p] = <<>>
<1> DEFINE held == [p \in PMs |-> <<>>]
           lf == [c \in Channels |-> 0]
           none == {}
           empty == <<>>
<1>1. /\ held \in [PMs -> Seq(HeldMessages)] /\ lf \in [Channels -> Times] /\ 0 \in Nat
      /\ none \in SUBSET Channels /\ none \in SUBSET Said /\ none \in SUBSET Queries
      /\ empty \in Seq(Pages) /\ empty \in Seq(Requests) /\ IsFiniteSet(none)
      /\ Cardinality(none) = 0
  BY FS_EmptySet DEF Times, now
<1>2. b = [up |-> FALSE, sm |-> FALSE, probed |-> FALSE,
           open |-> none, joining |-> none, shown |-> none, last_fetch |-> lf,
           queries |-> none, pages |-> empty, timer |-> FALSE, inflight |-> 0, jitter |-> FALSE,
           held |-> held, catchup |-> FALSE, batch |-> none, out |-> empty, db |-> d]
  BY DEF Started
<1>3. \A p \in PMs : held[p] = empty
  OBVIOUS
<1>4. none = {} /\ empty = <<>>
  OBVIOUS
<1> HIDE DEF held, lf, none, empty
<1>5. /\ b \in Accounts /\ b.db = d /\ b.queries = none /\ b.pages = empty /\ b.out = empty
      /\ b.open = none /\ b.joining = none /\ b.shown = none /\ b.batch = none
      /\ b.up = FALSE /\ b.timer = FALSE /\ b.inflight = 0 /\ b.held = held
  BY <1>1, <1>2 DEF Accounts
<1>6. Typed(b)
  <2>1. \A p \in PMs : \A i \in DOMAIN b.held[p] : archive[b.held[p][i].m] = p
    BY <1>3, <1>4, <1>5
  <2>2. \A r \in Rooms : b.db.ts[r] # Closed
    BY <1>5
  <2> QED BY <1>1, <1>4, <1>5, <2>1, <2>2 DEF Typed
<1>7. Linked(b, <<>>)
  BY <1>4, <1>5 DEF Linked, OneOfEach, OneEnd, Paged, Asking
<1>8. Slots(b) /\ Held(b)
  BY <1>1, <1>3, <1>4, <1>5, MamConstants DEF Slots, SlotsBut, SlotsHeld, Held, HeldBut
<1> QED BY <1>3, <1>4, <1>5, <1>6, <1>7, <1>8 DEF Kept

\* A request is answered: of what is sent at most one answer is its end.
Ending(replies, id) ==
  /\ \A i \in DOMAIN replies : IsEnd(replies[i]) => replies[i].id = id
  /\ \A i, j \in DOMAIN replies : (IsEnd(replies[i]) /\ IsEnd(replies[j])) => i = j

LEMMA ServedKeeps ==
  ASSUME NEW a, NEW s, Kept(a, s), s \in Seq(Answers), a.out # <<>>, NEW id, id = Head(a.out).id,
         NEW replies \in Seq(Answers), Ending(replies, id), NEW b, b = [a EXCEPT !.out = Tail(a.out)]
  PROVE  /\ Kept(b, s \o replies) /\ s \o replies \in Seq(Answers)
         /\ b.out = Tail(a.out) /\ b.queries = a.queries /\ b.pages = a.pages /\ Aside(a, b)
<1> DEFINE out == Tail(a.out)
           t == s \o replies
<1>1. /\ Typed(a) /\ a \in Accounts /\ a.out \in Seq(Requests) /\ Linked(a, s)
  <2>1. Typed(a) /\ Linked(a, s)
    BY DEF Kept
  <2> QED BY <2>1, NowFacts
<1>2. /\ out \in Seq(Requests) /\ 1 \in DOMAIN a.out /\ id = a.out[1].id
      /\ \A i \in DOMAIN out : i + 1 \in DOMAIN a.out /\ i + 1 # 1 /\ out[i] = a.out[i + 1] /\ i \in Nat
  BY <1>1
<1>3. /\ t \in Seq(Answers)
      /\ \A i \in DOMAIN t : \/ i \in DOMAIN s /\ t[i] = s[i]
                             \/ i - Len(s) \in DOMAIN replies /\ t[i] = replies[i - Len(s)] /\ i \in Nat
  <2>1. t \in Seq(Answers) /\ Len(t) = Len(s) + Len(replies)
    OBVIOUS
  <2> SUFFICES ASSUME NEW i \in DOMAIN t
               PROVE  \/ i \in DOMAIN s /\ t[i] = s[i]
                      \/ i - Len(s) \in DOMAIN replies /\ t[i] = replies[i - Len(s)] /\ i \in Nat
    BY <2>1
  <2>2. i \in 1..(Len(s) + Len(replies))
    BY <2>1
  <2>3. CASE i <= Len(s)
    BY <2>2, <2>3
  <2>4. CASE i > Len(s)
    BY <2>2, <2>4
  <2> QED BY <2>2, <2>3, <2>4
<1> HIDE DEF out, t
<1>4. /\ b \in Accounts /\ b.out = out /\ b.queries = a.queries /\ b.pages = a.pages
      /\ b.inflight = a.inflight /\ b.timer = a.timer /\ b.jitter = a.jitter /\ Aside(a, b)
  <2>1. b = [a EXCEPT !.out = out]
    BY DEF out
  <2> QED BY <1>1, <1>2, <2>1 DEF Accounts, Aside
<1>5. Typed(b)
  BY ONLY <1>1, <1>4 DEF Typed, Aside
<1>6. OneOfEach(a) /\ OneEnd(a, s) /\ Paged(a) /\ Asking(a)
  BY <1>1 DEF Linked
<1>7. OneOfEach(b)
  <2>1. \A i, j \in DOMAIN b.out : b.out[i].id = b.out[j].id => i = j
    <3> SUFFICES ASSUME NEW i \in DOMAIN b.out, NEW j \in DOMAIN b.out, b.out[i].id = b.out[j].id
                 PROVE  i = j
      OBVIOUS
    <3>1. i + 1 = j + 1
      BY <1>2, <1>4, <1>6 DEF OneOfEach
    <3> QED BY <1>2, <1>4, <3>1
  <2>2. \A i \in DOMAIN b.pages, j \in DOMAIN b.out : b.out[j].id # b.pages[i].id
    BY <1>2, <1>4, <1>6 DEF OneOfEach
  <2> QED BY <1>4, <1>6, <2>1, <2>2 DEF OneOfEach
<1>8. OneEnd(b, t)
  <2>1. \A i \in DOMAIN s : IsEnd(s[i]) => s[i].id # id
    BY <1>2, <1>6 DEF OneEnd
  <2>2. ASSUME NEW i \in DOMAIN t, NEW j \in DOMAIN t, IsEnd(t[i]), IsEnd(t[j]), t[i].id = t[j].id
        PROVE  i = j
    <3>1. CASE i \in DOMAIN s /\ t[i] = s[i] /\ j \in DOMAIN s /\ t[j] = s[j]
      BY <1>6, <2>2, <3>1 DEF OneEnd
    <3>2. CASE i \in DOMAIN s /\ t[i] = s[i] /\ j - Len(s) \in DOMAIN replies /\ t[j] = replies[j - Len(s)]
      BY <2>1, <2>2, <3>2 DEF Ending
    <3>3. CASE i - Len(s) \in DOMAIN replies /\ t[i] = replies[i - Len(s)] /\ j \in DOMAIN s /\ t[j] = s[j]
      BY <2>1, <2>2, <3>3 DEF Ending
    <3>4. CASE /\ i - Len(s) \in DOMAIN replies /\ t[i] = replies[i - Len(s)] /\ i \in Nat
               /\ j - Len(s) \in DOMAIN replies /\ t[j] = replies[j - Len(s)] /\ j \in Nat
      <4>1. i - Len(s) = j - Len(s)
        BY <2>2, <3>4 DEF Ending
      <4> QED BY <3>4, <4>1
    <3> QED BY <1>3, <3>1, <3>2, <3>3, <3>4
  <2>3. ASSUME NEW i \in DOMAIN t, IsEnd(t[i])
        PROVE  /\ \A j \in DOMAIN b.pages : b.pages[j].id # t[i].id
               /\ \A j \in DOMAIN b.out : b.out[j].id # t[i].id
    <3>1. CASE i \in DOMAIN s /\ t[i] = s[i]
      <4>1. /\ \A j \in DOMAIN a.pages : a.pages[j].id # t[i].id
            /\ \A j \in DOMAIN a.out : a.out[j].id # t[i].id
        BY <1>6, <2>3, <3>1 DEF OneEnd
      <4> QED BY <1>2, <1>4, <4>1
    <3>2. CASE t[i].id = id
      <4>1. \A j \in DOMAIN a.pages : a.pages[j].id # id
        BY <1>2, <1>6 DEF OneOfEach
      <4>2. \A j \in DOMAIN b.out : b.out[j].id # id
        BY <1>2, <1>4, <1>6 DEF OneOfEach
      <4> QED BY <1>4, <3>2, <4>1, <4>2
    <3> QED BY <1>3, <2>3, <3>1, <3>2 DEF Ending
  <2> QED BY <2>2, <2>3 DEF OneEnd
<1>9. Paged(b)
  BY <1>4, <1>6 DEF Paged, PageFits, Aside
<1>10. Asking(b)
  BY <1>2, <1>4, <1>6 DEF Asking, Aside
<1>11. Slots(b) /\ Held(b)
  BY <1>4 DEF Kept, Slots, SlotsBut, Held, HeldBut, Fetching, Aside
<1> QED BY <1>3, <1>4, <1>5, <1>7, <1>8, <1>9, <1>10, <1>11 DEF Kept, Linked, out, t

LEMMA PairOf ==
  ASSUME NEW x, NEW y
  PROVE  <<x>> \o <<y>> = <<x, y>>
<1>1. <<x>> \in Seq({x, y})
  OBVIOUS
<1>2. Append(<<x>>, y) = <<x>> \o <<y>>
  BY <1>1, AppendIsConcat
<1>3. Append(<<x>>, y) = <<x, y>>
  <2> DEFINE s == Append(<<x>>, y)
             t == <<x, y>>
  <2>1. s \in Seq({x, y}) /\ Len(s) = 2 /\ s[1] = x /\ s[2] = y
    BY <1>1
  <2>2. t \in Seq({x, y}) /\ Len(t) = 2 /\ t[1] = x /\ t[2] = y
    OBVIOUS
  <2> HIDE DEF s, t
  <2>3. s = t
    BY <2>1, <2>2, SeqEqual
  <2> QED BY <2>3 DEF s, t
<1> QED BY <1>2, <1>3

\* What the server answers.
LEMMA AnswerFacts ==
  ASSUME Typed(acct), acct.out # <<>>, NEW omitted, NEW abort \in BOOLEAN
  PROVE  /\ Answer(omitted, abort) \in Seq(Answers)
         /\ Ending(Answer(omitted, abort), Head(acct.out).id)
         /\ (Asking(acct) /\ RequestsGot(acct)) => AnswersGot(acct, Answer(omitted, abort), {})
<1> DEFINE left == Asked \ omitted
           last == IF left = {} \/ abort THEN 0 ELSE Min(left)
           id == Head(acct.out).id
           result == [kind |-> "result", id |-> id, m |-> last]
           complete == Cardinality(left) <= 1
           stable == omitted = {}
           fin == [kind |-> "fin", id |-> id, last |-> last, complete |-> complete,
                   stable |-> stable, abort |-> abort]
<1>1. acct.out \in Seq(Requests) /\ id \in Ids /\ now \in Nat
  <2>1. acct.out \in Seq(Requests) /\ now \in Nat
    BY NowFacts
  <2>2. Head(acct.out) \in Requests
    BY <2>1
  <2> QED BY <2>1, <2>2 DEF Requests
<1>2. left \subseteq Said
  BY DEF Asked, In, Said
<1>3. /\ last = 0 \/ (last \in Said /\ last \in left /\ \A m \in left : last <= m)
      /\ (last = 0 /\ ~abort) => left = {}
  <2>1. CASE left = {} \/ abort
    BY <2>1
  <2>2. CASE ~(left = {} \/ abort)
    <3>1. last = Min(left) /\ left # {} /\ left \subseteq Nat \ {0}
      BY <1>1, <1>2, <2>2 DEF Said
    <3> HIDE DEF left, last
    <3>2. last \in left /\ \A m \in left : last <= m
      <4>1. left \in SUBSET Nat
        BY <3>1
      <4> QED BY <3>1, <4>1, LeastMember
    <3> QED BY <1>2, <2>2, <3>1, <3>2
  <2> QED BY <2>1, <2>2
<1>4. complete => \A m, n \in left : m = n
  <2> SUFFICES ASSUME complete, NEW m \in left, NEW n \in left, m # n PROVE FALSE
    OBVIOUS
  <2>1. IsFiniteSet(left) /\ {m, n} \subseteq left
    <3>1. IsFiniteSet(Said)
      BY <1>1, FS_Interval DEF Said
    <3> QED BY <1>2, <3>1, FS_Subset
  <2>2. Cardinality({m, n}) = 2
    <3> DEFINE one == {n}
    <3>1. IsFiniteSet(one) /\ Cardinality(one) = 1 /\ m \notin one
      BY FS_Singleton
    <3>2. one \union {m} = {m, n}
      OBVIOUS
    <3> HIDE DEF one
    <3>3. Cardinality(one \union {m}) = Cardinality(one) + 1
      BY ONLY <3>1, FS_AddElement, Zenon
    <3> QED BY ONLY <3>1, <3>2, <3>3
  <2>3. Cardinality({m, n}) <= Cardinality(left)
    BY <2>1, FS_Subset
  <2>4. Cardinality(left) \in Nat
    BY <2>1, FS_CardinalityType
  <2> QED BY <2>2, <2>3, <2>4
<1>5. ASSUME NEW q \in acct.queries, q.stable, q.id = id, stable, ~abort, Asking(acct), RequestsGot(acct),
              NEW K, last # 0 => last \in K
       PROVE  Got(acct, q, last, K) /\ (complete => Got(acct, q, q.end, K))
  <2> DEFINE r == acct.out[1]
  <2>1. 1 \in DOMAIN acct.out /\ r = Head(acct.out) /\ r \in Requests
    BY <1>1
  <2>2. q.ch = r.ch /\ q.end = r.end /\ Got(acct, q, r.after, {})
    BY <1>5, <2>1 DEF Asking, Asks, RequestsGot
  <2>3. left = {m \in In(IF r.ch = Global THEN PMs ELSE {r.ch}) : r.after < m /\ m <= r.end}
    BY <1>5, <2>1 DEF Asked
  <2>4. r.after \in Nat /\ r.end \in Nat
    BY <1>1, <2>1 DEF Requests, Times
  <2> HIDE DEF r, left, complete, last, id, stable
  <2>5. /\ \A m \in left : m \in Nat
        /\ \A S : In(S) \subseteq Nat
    <3>1. Said \subseteq Nat
      BY <1>1 DEF Said
    <3>2. \A S : In(S) \subseteq Said
      BY Zenon DEF Said, In
    <3> QED BY ONLY <1>2, <3>1, <3>2, Zenon
  <2>6. \A m \in left : m <= last => m \in K
    <3> SUFFICES ASSUME NEW m \in left, m <= last PROVE m \in K
      OBVIOUS
    <3>1. last # 0
      BY <1>3, <1>5
    <3>2. m = last
      BY <1>3, <2>5, <3>1 DEF Said
    <3> QED BY <1>5, <3>1, <3>2
  <2>7. complete => left \subseteq K
    <3> SUFFICES ASSUME complete, NEW m \in left PROVE m \in K
      OBVIOUS
    <3>1. last # 0 /\ last \in left
      BY <1>3, <1>5
    <3> QED BY <1>4, <1>5, <3>1
  <2>8. last \in Nat /\ (last # 0 => last <= r.end)
    BY <1>1, <1>3, <2>3 DEF Said
  <2>9. \A n \in Nat : (n <= r.end /\ \A m \in left : m <= n => m \in K) => Got(acct, q, n, K)
    <3> SUFFICES ASSUME NEW n \in Nat, n <= r.end, \A m \in left : m <= n => m \in K
                 PROVE  Got(acct, q, n, K)
      OBVIOUS
    <3>1. ASSUME q.ch = Global PROVE Covered(n, Stored(acct) \union K)
      <4>1. Covered(r.after, Stored(acct) \union {})
        BY <2>2, <3>1 DEF Got
      <4> SUFFICES ASSUME NEW m \in In(PMs), m <= n PROVE m \in Stored(acct) \union K
        BY DEF Covered
      <4>2. CASE m <= r.after
        BY <4>1, <4>2 DEF Covered
      <4>3. CASE ~(m <= r.after)
        <5>1. m \in left
          BY <2>2, <2>3, <2>4, <2>5, <3>1, <4>3
        <5> QED BY <5>1
      <4> QED BY <4>2, <4>3
    <3>2. ASSUME q.ch \in PMs PROVE Seen(q.ch, q.start, n, There(acct, q.ch) \union K)
      <4>1. Seen(q.ch, q.start, r.after, There(acct, q.ch) \union {}) /\ q.ch # Global
        BY <2>2, <3>2, MamConstants DEF Got, Channels
      <4> SUFFICES ASSUME NEW m \in In({q.ch}), q.start < m, m <= n PROVE m \in There(acct, q.ch) \union K
        BY DEF Seen
      <4>2. CASE m <= r.after
        BY <4>1, <4>2 DEF Seen
      <4>3. CASE ~(m <= r.after)
        <5>1. m \in left
          BY <2>2, <2>3, <2>4, <2>5, <4>1, <4>3
        <5> QED BY <5>1
      <4> QED BY <4>2, <4>3
    <3> QED BY <3>1, <3>2 DEF Got
  <2>10. Got(acct, q, last, K)
    BY <2>4, <2>6, <2>8, <2>9
  <2>11. complete => Got(acct, q, q.end, K)
    BY <2>2, <2>4, <2>7, <2>9
  <2> QED BY <2>10, <2>11
<1>6. last \in Times /\ complete \in BOOLEAN /\ stable \in BOOLEAN
  BY <1>1, <1>3 DEF Times, Said
<1>7. Answer(omitted, abort) = (IF last = 0 THEN <<>> ELSE <<result>>) \o <<fin>>
  BY DEF Answer
<1> HIDE DEF last, id, complete, stable, left
<1>8. fin \in Answers /\ fin.kind = "fin" /\ fin.id = id
  BY <1>1, <1>6 DEF Answers
<1>9. last # 0 => result \in Answers /\ result.kind = "result"
  BY <1>1, <1>3 DEF Answers
<1>10. fin.last = last /\ (fin.complete = complete) /\ (fin.stable = stable) /\ (fin.abort = abort)
  OBVIOUS
<1>11. result.m = last
  OBVIOUS
<1> HIDE DEF fin, result
<1>12. CASE last = 0
  <2>1. Answer(omitted, abort) = <<fin>>
    BY <1>7, <1>12
  <2>2. DOMAIN <<fin>> = {1} /\ <<fin>>[1] = fin /\ <<fin>> \in Seq(Answers)
    BY <1>8
  <2>3. (Asking(acct) /\ RequestsGot(acct)) => AnswersGot(acct, <<fin>>, {})
    <3> SUFFICES ASSUME Asking(acct), RequestsGot(acct), NEW q \in acct.queries, q.stable,
                        Steadily(fin), fin.id = q.id
                 PROVE  LET K == Coming(<<fin>>, 1) \union {}
                        IN  Got(acct, q, fin.last, K) /\ (fin.complete => Got(acct, q, q.end, K))
      BY <2>2 DEF AnswersGot
    <3> QED BY <1>8, <1>12, <1>5, <1>10 DEF Steadily
  <2> QED BY <1>8, <2>1, <2>2, <2>3 DEF Ending, IsEnd, id
<1>13. CASE last # 0
  <2>1. <<result>> \o <<fin>> = <<result, fin>>
    BY PairOf
  <2>2. Answer(omitted, abort) = <<result, fin>>
    <3>1. (IF last = 0 THEN <<>> ELSE <<result>>) = <<result>>
      BY <1>13
    <3> QED BY ONLY <1>7, <2>1, <3>1
  <2>3. ~IsEnd(result)
    BY <1>9, <1>13 DEF IsEnd
  <2>4. DOMAIN <<result, fin>> = {1, 2} /\ <<result, fin>>[1] = result /\ <<result, fin>>[2] = fin
    OBVIOUS
  <2>5. <<result, fin>> \in Seq(Answers)
    BY <1>8, <1>9, <1>13
  <2>6. (Asking(acct) /\ RequestsGot(acct)) => AnswersGot(acct, <<result, fin>>, {})
    <3> SUFFICES ASSUME Asking(acct), RequestsGot(acct), NEW q \in acct.queries, q.stable,
                        Steadily(fin), fin.id = q.id
                 PROVE  LET K == Coming(<<result, fin>>, 2) \union {}
                        IN  Got(acct, q, fin.last, K) /\ (fin.complete => Got(acct, q, q.end, K))
      <4>1. ~Steadily(result)
        BY <1>9, <1>13 DEF Steadily
      <4> QED BY <2>4, <4>1 DEF AnswersGot
    <3>1. last \in Coming(<<result, fin>>, 2)
      BY <1>9, <1>13, <1>11, <2>4 DEF Coming
    <3> QED BY <1>8, <1>5, <1>10, <3>1 DEF Steadily
  <2> QED BY <1>8, <2>2, <2>3, <2>4, <2>5, <2>6 DEF Ending, id
<1> QED BY <1>12, <1>13

-----------------------------------------------------------------------------
\* The steps.

LEMMA SameArchive ==
  ASSUME archive' = archive, s2c' \in Seq(Answers), Kept(acct', s2c'), Stands(acct', s2c')
  PROVE  ArchiveInv'
<1>1. Answers' = Answers
  BY DEF Answers, Times, Said, now
<1>2. Accounts' = Accounts
  BY DEF Accounts, Queries, Pages, Requests, HeldMessages, Dbs, Times, Said, now, Chs
<1>3. Typed(acct)'
  BY <1>2 DEF Kept, Typed
<1>4. (Linked(acct, s2c) /\ Slots(acct) /\ Held(acct))'
  BY DEF Kept, Linked, OneOfEach, OneEnd, Paged, PageFits, Asking, Asks, IsEnd, Slots, SlotsBut,
         SlotsHeld, Held, HeldBut, Fetching
<1>5. Stands(acct, s2c)'
  BY DEF Stands, Progress, PagesGot, RequestsGot, AnswersGot, Got, Covered, Seen, In, now, There,
         HeldBack, Stored, Safe, Coming, Steadily, Known, Attended, From
<1> QED BY <1>1, <1>3, <1>4, <1>5 DEF ArchiveInv, Kept

LEMMA LaterFacts ==
  ASSUME s2c \in Seq(Answers)
  PROVE  Later(s2c) /\ Later(<<>>) /\ (s2c # <<>> => Later(Tail(s2c)))
BY DEF Later

\* CheckpointIsShown, of a step that receives nothing
Unmoved(a, b) ==
  \A p \in a.open \intersect b.open \intersect PMs : b.last_fetch[p] = a.last_fetch[p]

LEMMA OpenStep ==
  ASSUME ArchiveInv, NEW p \in PMs, OpenChat(p)
  PROVE  ArchiveInv' /\ Unmoved(acct, acct')
<1>1. /\ Kept(acct, s2c) /\ s2c \in Seq(Answers) /\ Later(s2c) /\ p \in PMs \ acct.open
      /\ acct' = Open(acct, p) /\ archive' = archive /\ s2c' = s2c
      /\ Stands(acct, s2c) /\ Typed(acct)
  BY LaterFacts DEF ArchiveInv, OpenChat, Kept
<1> DEFINE b == Open(acct, p)
<1>2. Kept(b, s2c) /\ Opened(acct, b, p) /\ Ahead(acct, b, s2c)
  BY ONLY <1>1, OpenKeeps
<1> HIDE DEF b
<1>3. Steady(acct, b)
  BY <1>1, <1>2, OpenSteady
<1>4. Stands(b, s2c)
  BY <1>1, <1>2, StandsAhead DEF Opened, Kept
<1> QED BY <1>1, <1>2, <1>3, <1>4, SameArchive DEF b, Steady, Unmoved

LEMMA CloseStep ==
  ASSUME ArchiveInv, NEW c \in Channels, CloseChat(c)
  PROVE  ArchiveInv' /\ Unmoved(acct, acct')
<1> DEFINE d == Cancel(acct, c)
           x == [d EXCEPT !.open = @ \ {c}, !.joining = @ \ {c}, !.shown = @ \ In({c})]
           y == Destroyed(x, c)
<1>1. /\ Kept(acct, s2c) /\ s2c \in Seq(Answers) /\ c \in Channels
      /\ acct' = (IF c \in PMs THEN y ELSE x) /\ archive' = archive /\ s2c' = s2c
      /\ Stands(acct, s2c)
  BY DEF ArchiveInv, CloseChat
<1>2. Kept(d, s2c) /\ Cancelled(acct, d, c)
  BY ONLY <1>1, CancelKeeps
<1>3. /\ \A q \in d.queries : q.ch # c
      /\ \A i \in DOMAIN d.pages : d.pages[i].ch # c
  BY <1>2 DEF Cancelled
<1>4. x = [d EXCEPT !.open = @ \ {c}, !.joining = @ \ {c}, !.shown = @ \ In({c})]
  OBVIOUS
<1>5. y = Destroyed(x, c)
  OBVIOUS
<1> HIDE DEF d, x, y
<1>6. /\ Kept(x, s2c) /\ x.open = d.open \ {c} /\ x.shown = d.shown \ In({c}) /\ SameFetches(d, x)
      /\ x.up = d.up /\ x.held = d.held /\ x.last_fetch = d.last_fetch /\ x.batch = d.batch
      /\ x.db = d.db
  <2>1. Kept(d, s2c) /\ c \in Channels
    BY <1>1, <1>2
  <2>2. Kept(x, s2c) /\ Shut(d, x, c)
    BY ONLY <2>1, <1>3, <1>4, CloseKeeps, Zenon
  <2> QED BY <2>2 DEF Shut
<1>7. Progress(d, s2c, {})
  <2>1. /\ Safe(d) = Safe(acct) /\ Stored(d) = Stored(acct) /\ d.db = acct.db /\ Minds(acct, d)
        /\ \A p \in PMs : p # c => There(d, p) = There(acct, p)
    BY <1>2 DEF Cancelled, Safe, Stored, There, HeldBack, Minds
  <2>2. \A p \in PMs : (\E q \in d.queries : q.ch = p) => There(acct, p) \subseteq There(d, p)
    BY <1>3, <2>1
  <2>3. /\ \A i \in DOMAIN d.pages : \E j \in DOMAIN acct.pages : acct.pages[j] = d.pages[i]
        /\ d.out = acct.out /\ d.queries \subseteq acct.queries
    BY <1>2 DEF Cancelled
  <2>4. Ahead(acct, d, s2c)
    BY <2>1, <2>2, <2>3, AheadFewer
  <2> QED BY <1>1, <1>2, <2>4, ProgressAhead DEF Stands, Kept
<1>8. /\ Safe(x) = Safe(d) /\ Stored(x) = Stored(d)
       /\ \A q \in x.queries : q.ch \in PMs => There(d, q.ch) \intersect In({q.ch}) \subseteq There(x, q.ch)
  <2>1. Safe(x) = Safe(d) /\ Stored(x) = Stored(d)
    BY <1>6 DEF Safe, Stored
  <2>2. \A q \in x.queries : q.ch # c
    BY <1>3, <1>6 DEF SameFetches
  <2>3. \A p \in PMs : p # c => There(d, p) \intersect In({p}) \subseteq There(x, p)
    BY <1>6 DEF There, HeldBack, In
  <2> QED BY <2>1, <2>2, <2>3
<1>9. Progress(x, s2c, {})
  <2>1. x.db.cursor = d.db.cursor
    BY <1>6
  <2> QED BY <1>6, <1>7, <1>8, <2>1, ProgressClosed
<1>10. /\ x.open = acct.open \ {c} /\ x.up = acct.up /\ x.last_fetch = acct.last_fetch
       /\ x.db = acct.db
  BY <1>2, <1>6 DEF Cancelled
<1>11. CASE c \in PMs
  <2>1. Typed(x)
    BY <1>6 DEF Kept
  <2>2. Typed(y) /\ OnlyDb(x, y) /\ IsWiped(x, y, c)
    BY ONLY <1>5, <1>11, <2>1, DestroyedFacts
  <2>3. Kept(y, s2c)
    BY <1>6, <2>2, OnlyDbKeeps DEF Kept
  <2>4. Progress(y, s2c, {})
    <3>1. Safe(y) = Safe(x) /\ Stored(y) = Stored(x) /\ y.db.cursor = x.db.cursor /\ SameFetches(x, y)
      BY <2>2 DEF OnlyDb, IsWiped, Safe, Stored
    <3>2. \A p \in PMs : There(y, p) = There(x, p)
      BY <2>2 DEF OnlyDb, There, HeldBack
    <3> QED BY <1>9, <3>1, <3>2, ProgressClosed
  <2>5. y.open = acct.open \ {c} /\ y.up = acct.up /\ y.last_fetch = acct.last_fetch
    BY <1>10, <2>2 DEF OnlyDb
  <2>6. Minds(acct, y)
    <3>1. \A p \in PMs : p # c => (y.db.ts[p] = acct.db.ts[p] /\ (p \in acct.db.registered => p \in y.db.registered))
      <4>1. acct.db.ts \in [Channels -> Times \union {Closed}] /\ PMs \subseteq Channels
        BY <1>1 DEF Kept, Typed, Accounts, Dbs, Channels
      <4> QED BY <1>10, <2>2, <4>1 DEF IsWiped
    <3>2. ~(y.db.ts[c] > 0)
      <4>1. acct.db.ts \in [Channels -> Times \union {Closed}] /\ c \in Channels
        BY <1>1 DEF Kept, Typed, Accounts, Dbs
      <4> QED BY <1>10, <2>2, <4>1 DEF IsWiped, Closed
    <3> QED BY <2>5, <3>1, <3>2 DEF Minds
  <2>7. Stands(y, s2c)
    BY <1>1, <2>4, <2>5, <2>6, StandsOn
  <2> QED BY <1>1, <1>11, <2>3, <2>5, <2>7, SameArchive DEF Unmoved
<1>12. CASE c \notin PMs
  <2>1. Minds(acct, x)
    BY <1>12, <1>10 DEF Minds
  <2>2. Stands(x, s2c)
    BY <1>1, <1>9, <1>10, <2>1, StandsOn
  <2> QED BY <1>1, <1>6, <1>12, <1>10, <2>2, SameArchive DEF Unmoved
<1> QED BY <1>11, <1>12

LEMMA JoinStep ==
  ASSUME ArchiveInv, NEW r \in Rooms, Join(r)
  PROVE  ArchiveInv' /\ Unmoved(acct, acct')
<1> DEFINE b == [acct EXCEPT !.open = @ \union {r}, !.joining = @ \union {r}, !.last_fetch[r] = 0]
<1>1. /\ Kept(acct, s2c) /\ s2c \in Seq(Answers) /\ acct' = b /\ archive' = archive /\ s2c' = s2c
      /\ Stands(acct, s2c)
  BY DEF ArchiveInv, Join
<1>2. Typed(acct) /\ acct \in Accounts /\ r \in Channels /\ 0 \in Times
  BY <1>1, NowFacts DEF Kept, Channels
<1>3. /\ acct.open \subseteq Channels /\ acct.joining \subseteq acct.open \intersect Rooms
      /\ acct.last_fetch \in [Channels -> Times] /\ (acct.timer => acct.up)
  BY <1>2 DEF Typed, Accounts
<1>4. /\ acct.open \union {r} \in SUBSET Channels /\ acct.joining \union {r} \in SUBSET Channels
      /\ [acct.last_fetch EXCEPT ![r] = 0] \in [Channels -> Times]
      /\ acct.joining \union {r} \subseteq (acct.open \union {r}) \intersect Rooms
  BY <1>2, <1>3
<1>5. b = [acct EXCEPT !.open = acct.open \union {r}, !.joining = acct.joining \union {r},
                       !.last_fetch = [acct.last_fetch EXCEPT ![r] = 0]]
  BY <1>2 DEF Accounts
<1> HIDE DEF b
<1>6. /\ b \in Accounts /\ SameFetches(acct, b) /\ Grows(acct, b) /\ b.held = acct.held
      /\ b.db = acct.db /\ b.joining \subseteq b.open \intersect Rooms /\ (b.timer => b.up)
      /\ b.up = acct.up /\ b.shown = acct.shown /\ b.batch = acct.batch
      /\ b.last_fetch = [acct.last_fetch EXCEPT ![r] = 0] /\ acct.open \subseteq b.open
  BY <1>2, <1>3, <1>4, <1>5 DEF Accounts, SameFetches, Grows
<1>7. Kept(b, s2c)
  BY ONLY <1>1, <1>6, FlagsKeep
<1>8. Ahead(acct, b, s2c)
  <2>1. \A p \in PMs : There(acct, p) = There(b, p)
    BY <1>6 DEF There, HeldBack
  <2> QED BY <1>6, <2>1, AheadSame
<1>9. Stands(b, s2c)
  BY <1>1, <1>6, <1>7, <1>8, StandsAhead DEF Kept
<1>10. Unmoved(acct, b)
  BY <1>3, <1>6, MamConstants DEF Unmoved
<1> QED BY <1>1, <1>7, <1>9, <1>10, SameArchive

LEMMA HeldAnyway ==
  ASSUME NEW a, Held(a), NEW ch
  PROVE  HeldBut(a, ch)
BY MamConstants DEF Held, HeldBut, Channels

LEMMA FetchCommandStep ==
  ASSUME ArchiveInv, NEW c \in Channels, FetchCommand(c)
  PROVE  ArchiveInv' /\ Unmoved(acct, acct')
<1> DEFINE id == FreshId(acct)
<1>1. PICK start \in 0..now : acct' = Fetch(acct, c, id, start, now, 0)
  BY DEF FetchCommand
<1>2. /\ Kept(acct, s2c) /\ s2c \in Seq(Answers) /\ Later(s2c) /\ c \in acct.open
      /\ archive' = archive /\ s2c' = s2c
      /\ Stands(acct, s2c)
  BY LaterFacts DEF ArchiveInv, FetchCommand
<1>3. Typed(acct) /\ Linked(acct, s2c) /\ Slots(acct) /\ HeldBut(acct, c)
  BY <1>2, HeldAnyway DEF Kept
<1>4. id \in Ids /\ Unused(id, acct, s2c) /\ \A q \in acct.queries : q.id # id
  BY <1>2, <1>3, FreshIsUnused
<1>5. start \in Times /\ now \in Times
  BY <1>3, NowFacts DEF Times
<1> HIDE DEF id
<1> DEFINE b == Fetch(acct, c, id, start, now, 0)
<1>6. Kept(b, s2c) /\ Aside(acct, b) /\ Ahead(acct, b, s2c)
  BY ONLY <1>2, <1>3, <1>4, <1>5, FetchFirst
<1> HIDE DEF b
<1>7. Stands(b, s2c) /\ Unmoved(acct, b)
  BY <1>2, <1>6, StandsAhead DEF Kept, Aside, Unmoved
<1> QED BY <1>1, <1>2, <1>6, <1>7, SameArchive DEF b

LEMMA SelfPresenceStep ==
  ASSUME ArchiveInv, NEW r \in Rooms, SelfPresence(r)
  PROVE  ArchiveInv' /\ Unmoved(acct, acct')
<1> DEFINE last == IF acct.last_fetch[r] = 0 THEN LastTimestamp(acct, r) ELSE acct.last_fetch[r]
           here == [acct EXCEPT !.joining = @ \ {r}, !.last_fetch[r] = last]
           b == IF last = 0 THEN here ELSE LoadMessages(here, r)
           id == FreshId(acct)
<1>1. /\ Kept(acct, s2c) /\ s2c \in Seq(Answers) /\ Later(s2c) /\ r \in acct.joining
      /\ acct' = Fetch(b, r, id, 0, now, 0) /\ archive' = archive /\ s2c' = s2c
      /\ Stands(acct, s2c)
  BY LaterFacts DEF ArchiveInv, SelfPresence
<1>2. Typed(acct) /\ acct \in Accounts /\ r \in Channels /\ 0 \in Times /\ now \in Times
  BY <1>1, NowFacts DEF Kept, Channels
<1>3. /\ acct.open \subseteq Channels /\ acct.joining \subseteq acct.open \intersect Rooms
      /\ acct.last_fetch \in [Channels -> Times] /\ (acct.timer => acct.up) /\ r \in acct.open
      /\ acct.db \in Dbs /\ acct.shown \in SUBSET Said
  BY <1>1, <1>2 DEF Typed, Accounts
<1>4. last \in Times
  <2>1. acct.db.ts \in [Channels -> Times \union {Closed}] /\ acct.db.ts[r] # Closed
    BY <1>2, <1>3 DEF Dbs, Typed
  <2> QED BY <1>2, <1>3, <2>1 DEF LastTimestamp
<1>5. id \in Ids /\ Unused(id, acct, s2c) /\ \A q \in acct.queries : q.id # id
  BY <1>1, <1>2, FreshIsUnused
<1> HIDE DEF last, id
<1>6. here = [acct EXCEPT !.joining = acct.joining \ {r},
                          !.last_fetch = [acct.last_fetch EXCEPT ![r] = last]]
  BY <1>2 DEF Accounts
<1>7. /\ acct.joining \ {r} \in SUBSET Channels
      /\ [acct.last_fetch EXCEPT ![r] = last] \in [Channels -> Times]
      /\ acct.joining \ {r} \subseteq acct.open \intersect Rooms
  BY <1>2, <1>3, <1>4
<1> HIDE DEF here
<1>8. /\ here \in Accounts /\ SameFetches(acct, here) /\ here.open = acct.open
      /\ here.probed = acct.probed /\ here.held = acct.held /\ here.db = acct.db
      /\ here.joining \subseteq here.open \intersect Rooms /\ (here.timer => here.up)
      /\ here.shown = acct.shown /\ here.up = acct.up /\ here.batch = acct.batch
      /\ here.last_fetch = [acct.last_fetch EXCEPT ![r] = last]
  BY <1>2, <1>3, <1>6, <1>7 DEF Accounts, SameFetches
<1>9. /\ b \in Accounts /\ SameFetches(acct, b) /\ b.open = acct.open
      /\ b.probed = acct.probed /\ b.held = acct.held /\ b.db = acct.db
      /\ b.joining \subseteq b.open \intersect Rooms /\ (b.timer => b.up)
      /\ acct.shown \subseteq b.shown /\ b.up = acct.up /\ b.batch = acct.batch
      /\ b.last_fetch = [acct.last_fetch EXCEPT ![r] = last]
  <2>1. CASE last = 0
    BY <1>8, <2>1
  <2>2. CASE last # 0
    <3> DEFINE shown == here.shown \union (here.db.cache \intersect In({r}))
    <3>1. shown \in SUBSET Said
      BY <1>3, <1>8 DEF In, Said
    <3>2. b = [here EXCEPT !.shown = shown]
      BY <1>8, <2>2 DEF LoadMessages, Accounts
    <3>3. acct.shown \subseteq shown
      BY <1>8
    <3> HIDE DEF shown, b
    <3>4. b.shown = shown
      BY <1>8, <3>1, <3>2 DEF Accounts
    <3> QED BY <1>8, <3>1, <3>2, <3>3, <3>4 DEF Accounts, SameFetches
  <2> QED BY <2>1, <2>2
<1> HIDE DEF b
<1>10. Grows(acct, b) /\ Kept(acct, s2c)
  BY <1>1, <1>9 DEF Grows
<1>11. Kept(b, s2c)
  BY ONLY <1>9, <1>10, FlagsKeep
<1>12. Typed(b) /\ Linked(b, s2c) /\ Slots(b) /\ HeldBut(b, r) /\ r \in b.open
  BY <1>3, <1>9, <1>11, HeldAnyway DEF Kept
<1>13. Unused(id, b, s2c) /\ id \in Ids /\ \A q \in b.queries : q.id # id
  BY <1>5, <1>9 DEF Unused, SameFetches
<1> DEFINE f == Fetch(b, r, id, 0, now, 0)
<1>14. Kept(f, s2c) /\ Aside(b, f) /\ Ahead(b, f, s2c)
  BY ONLY <1>2, <1>12, <1>13, FetchFirst
<1> HIDE DEF f
<1>15. Ahead(acct, f, s2c)
  <2>1. \A p \in PMs : There(acct, p) \subseteq There(b, p)
    BY <1>9 DEF There, HeldBack
  <2>2. Ahead(acct, b, s2c)
    BY <1>9, <2>1, AheadSame
  <2> QED BY <1>14, <2>2, AheadTwice
<1>16. Stands(f, s2c)
  BY <1>1, <1>9, <1>14, <1>15, StandsAhead DEF Kept, Aside
<1>17. Unmoved(acct, f)
  BY <1>3, <1>9, <1>14, MamConstants DEF Unmoved, Aside
<1> QED BY <1>1, <1>14, <1>16, <1>17, SameArchive DEF f

LEMMA FreshStep ==
  ASSUME ArchiveInv, Fresh
  PROVE  ArchiveInv' /\ Unmoved(acct, acct')
<1>1. PICK sm \in BOOLEAN :
        acct' = Restore(ResetSync([acct EXCEPT !.up = TRUE, !.sm = sm, !.probed = FALSE,
                                               !.catchup = FALSE, !.out = <<>>]))
  BY Zenon DEF Fresh
<1> DEFINE x == [acct EXCEPT !.up = TRUE, !.sm = sm, !.probed = FALSE, !.catchup = FALSE,
                             !.out = <<>>]
           y == ResetSync(x)
<1>2. /\ Kept(acct, s2c) /\ s2c \in Seq(Answers) /\ Later(<<>>) /\ Typed(acct)
      /\ acct' = Restore(y) /\ archive' = archive /\ s2c' = <<>>
      /\ Stands(acct, s2c)
  BY <1>1, LaterFacts DEF ArchiveInv, Fresh, Kept
<1>3. acct \in Accounts /\ (acct.timer => acct.up)
  BY <1>2 DEF Typed
<1>4. y = ResetSync(x)
  OBVIOUS
<1> HIDE DEF y
<1>5. /\ x \in Accounts /\ x.out = <<>> /\ x.queries = acct.queries /\ x.db = acct.db
      /\ x.joining = acct.joining /\ x.open = acct.open /\ x.held = acct.held /\ x.up
      /\ x.last_fetch = acct.last_fetch
  <2> DEFINE v == [acct EXCEPT !.up = TRUE, !.sm = sm]
             w == [v EXCEPT !.probed = FALSE, !.catchup = FALSE]
  <2>1. /\ v \in Accounts /\ v.queries = acct.queries /\ v.db = acct.db
        /\ v.joining = acct.joining /\ v.open = acct.open /\ v.held = acct.held /\ v.up
        /\ v.last_fetch = acct.last_fetch
    BY <1>3 DEF Accounts
  <2>2. x = [w EXCEPT !.out = <<>>]
    OBVIOUS
  <2>3. w = [v EXCEPT !.probed = FALSE, !.catchup = FALSE]
    OBVIOUS
  <2> HIDE DEF v, w, x
  <2>4. /\ w \in Accounts /\ w.queries = acct.queries /\ w.db = acct.db
        /\ w.joining = acct.joining /\ w.open = acct.open /\ w.held = acct.held /\ w.up
        /\ w.last_fetch = acct.last_fetch
    BY <2>1, <2>3 DEF Accounts
  <2>5. <<>> \in Seq(Requests)
    OBVIOUS
  <2> QED BY <2>2, <2>4, <2>5 DEF Accounts
<1> HIDE DEF x
<1>6. Typed(x) /\ x.out = <<>>
  BY <1>2, <1>5 DEF Typed
<1>7. /\ Kept(y, <<>>) /\ y.queries = {} /\ y.pages = <<>> /\ y.db = x.db
      /\ y.last_fetch = x.last_fetch /\ y.open = x.open
  BY ONLY <1>4, <1>6, ResetKeeps
<1>8. Progress(y, <<>>, {}) /\ Known(y)
  <2>1. Covered(y.db.cursor, Safe(y)) /\ Known(y)
    BY <1>2, <1>5, <1>7 DEF Stands, Progress, Known, Safe
  <2> QED BY <1>7, <2>1, ProgressEmpty
<1> DEFINE b == Restore(y)
<1>9. Kept(b, <<>>) /\ Stands(b, <<>>) /\ Steady(y, b)
  BY ONLY <1>2, <1>7, <1>8, StandsRestored
<1> HIDE DEF b
<1>10. Unmoved(acct, b)
  BY <1>5, <1>7, <1>9 DEF Steady, Unmoved
<1>11. <<>> \in Seq(Answers)
  OBVIOUS
<1> QED BY <1>2, <1>9, <1>11, <1>10, SameArchive DEF b

LEMMA ResumeStep ==
  ASSUME ArchiveInv, Resume
  PROVE  ArchiveInv' /\ Unmoved(acct, acct')
<1> DEFINE up_again == [acct EXCEPT !.up = TRUE, !.catchup = FALSE]
           b == IF up_again.pages = <<>> THEN up_again ELSE Schedule(up_again)
<1>1. /\ Kept(acct, s2c) /\ s2c \in Seq(Answers) /\ Later(s2c) /\ Typed(acct)
      /\ acct' = Restore(b) /\ archive' = archive /\ s2c' = s2c
      /\ Stands(acct, s2c)
  BY LaterFacts DEF ArchiveInv, Resume, Kept
<1>2. acct \in Accounts /\ acct.joining \subseteq acct.open \intersect Rooms
  BY <1>1 DEF Typed
<1>3. /\ up_again \in Accounts /\ SameFetches(acct, up_again) /\ up_again.open = acct.open
      /\ up_again.probed = acct.probed /\ up_again.held = acct.held /\ up_again.db = acct.db
      /\ up_again.joining = acct.joining /\ up_again.up
      /\ up_again.shown = acct.shown /\ up_again.batch = acct.batch
      /\ up_again.last_fetch = acct.last_fetch
  BY <1>2 DEF Accounts, SameFetches
<1> HIDE DEF up_again
<1>4. /\ Kept(acct, s2c) /\ up_again \in Accounts /\ SameFetches(acct, up_again)
      /\ Grows(acct, up_again) /\ up_again.held = acct.held /\ up_again.db = acct.db
      /\ up_again.joining \subseteq up_again.open \intersect Rooms
      /\ (up_again.timer => up_again.up)
  BY <1>1, <1>2, <1>3 DEF Grows
<1>5. Kept(up_again, s2c)
  BY ONLY <1>4, FlagsKeep
<1>6. /\ Kept(b, s2c) /\ SameFetches(acct, b) /\ b.open = acct.open /\ b.held = acct.held
      /\ b.db = acct.db /\ b.shown = acct.shown /\ b.batch = acct.batch
      /\ b.last_fetch = acct.last_fetch
  <2>1. CASE up_again.pages = <<>>
    BY <1>3, <1>5, <2>1
  <2>2. CASE up_again.pages # <<>>
    <3>1. Typed(up_again)
      BY <1>5 DEF Kept
    <3>2. b \in Accounts /\ b = [up_again EXCEPT !.timer = up_again.timer \/ up_again.up]
      BY <2>2, <3>1, ScheduleFacts
    <3> HIDE DEF b
    <3>3. /\ b.open = up_again.open /\ b.probed = up_again.probed /\ b.held = up_again.held
          /\ b.db = up_again.db /\ b.joining = up_again.joining /\ b.up = up_again.up
          /\ SameFetches(up_again, b) /\ b.shown = up_again.shown /\ b.batch = up_again.batch
          /\ b.last_fetch = up_again.last_fetch
      BY <1>3, <3>2 DEF Accounts, SameFetches
    <3>4. /\ Kept(up_again, s2c) /\ b \in Accounts /\ SameFetches(up_again, b)
          /\ Grows(up_again, b) /\ b.held = up_again.held /\ b.db = up_again.db
          /\ b.joining \subseteq b.open \intersect Rooms /\ (b.timer => b.up)
      BY <1>3, <1>4, <1>5, <3>2, <3>3 DEF Grows
    <3>5. Kept(b, s2c)
      BY ONLY <3>4, FlagsKeep
    <3> QED BY <1>3, <3>3, <3>5 DEF SameFetches
  <2> QED BY <2>1, <2>2
<1> HIDE DEF b
<1>7. Progress(b, s2c, {}) /\ Known(b)
  <2>1. \A p \in PMs : There(acct, p) = There(b, p)
    BY <1>6 DEF There, HeldBack
  <2>2. Ahead(acct, b, s2c)
    BY <1>6, <2>1, AheadSame
  <2> QED BY <1>1, <1>6, <2>2, ProgressAhead DEF Stands, Kept, Known
<1> DEFINE c == Restore(b)
<1>8. Kept(c, s2c) /\ Stands(c, s2c) /\ Steady(b, c)
  BY ONLY <1>1, <1>6, <1>7, StandsRestored
<1> HIDE DEF c
<1>9. Unmoved(acct, c)
  BY <1>6, <1>8 DEF Steady, Unmoved
<1> QED BY <1>1, <1>8, <1>9, SameArchive DEF c

LEMMA StartStep ==
  ASSUME ArchiveInv, StartCatchup
  PROVE  ArchiveInv' /\ Unmoved(acct, acct')
<1> DEFINE a == [acct EXCEPT !.probed = TRUE, !.catchup = TRUE]
           g == Page(0, Global, a.db.cursor, now, a.db.cursor, TRUE, FALSE)
<1>1. /\ Kept(acct, s2c) /\ s2c \in Seq(Answers) /\ Later(s2c) /\ Typed(acct)
      /\ acct' = (IF a.inflight >= MaxConcurrent THEN Postpone(a, g) ELSE NextGlobalPage(a, g))
      /\ archive' = archive /\ s2c' = s2c /\ ~acct.probed
      /\ Stands(acct, s2c)
  BY LaterFacts DEF ArchiveInv, StartCatchup, Kept
<1>2. NoGlobal(acct)
  BY <1>1 DEF NoGlobal, Kept, Linked, Paged, PageFits, Asking
<1>3. acct \in Accounts /\ acct.joining \subseteq acct.open \intersect Rooms
      /\ (acct.timer => acct.up)
  BY <1>1 DEF Typed
<1>4. /\ a \in Accounts /\ SameFetches(acct, a) /\ a.open = acct.open
      /\ a.probed /\ a.held = acct.held /\ a.db = acct.db
      /\ a.joining = acct.joining /\ a.up = acct.up /\ a.timer = acct.timer
      /\ a.shown = acct.shown /\ a.batch = acct.batch /\ a.last_fetch = acct.last_fetch
  BY <1>3 DEF Accounts, SameFetches
<1>5. g = Page(0, Global, a.db.cursor, now, a.db.cursor, TRUE, FALSE)
  OBVIOUS
<1> HIDE DEF a, g
<1>6. /\ Kept(acct, s2c) /\ a \in Accounts /\ SameFetches(acct, a)
      /\ Grows(acct, a) /\ a.held = acct.held /\ a.db = acct.db
      /\ a.joining \subseteq a.open \intersect Rooms /\ (a.timer => a.up)
  BY <1>1, <1>3, <1>4 DEF Grows
<1>7. Kept(a, s2c)
  BY ONLY <1>6, FlagsKeep
<1>8. /\ Typed(a) /\ Linked(a, s2c) /\ SlotsBut(a, 0) /\ Slots(a) /\ Held(a) /\ NoGlobal(a)
      /\ a.probed
  BY <1>2, <1>4, <1>7 DEF Kept, Slots, NoGlobal, SameFetches
<1>9. g \in Pages /\ g.ch = Global /\ g.id = 0 /\ ~g.slot_held
  <2>1. a.db.cursor \in Times /\ now \in Times
    BY <1>8, NowFacts DEF Dbs
  <2> QED BY <1>5, <2>1 DEF Page, Pages, Chs
<1>10. Stands(a, s2c)
  <2>1. \A p \in PMs : There(acct, p) = There(a, p)
    BY <1>4 DEF There, HeldBack
  <2>2. Ahead(acct, a, s2c)
    BY <1>4, <2>1, AheadSame
  <2> QED BY <1>1, <1>4, <1>8, <2>2, StandsAhead
<1>11. Progress(a, s2c, {}) /\ Covered(From(g), Stored(a)) /\ g.after = a.db.cursor
  BY <1>5, <1>10 DEF Stands, Progress, From, Page, Covered, Stored
<1>12. ASSUME NEW b, Kept(b, s2c), Aside(a, b), Progress(b, s2c, {}), acct' = b
       PROVE  ArchiveInv' /\ Unmoved(acct, acct')
  <2>1. Minds(a, b) /\ b.up = a.up
    BY <1>12 DEF Aside, Minds
  <2>2. Stands(b, s2c)
    BY <1>10, <1>12, <2>1, StandsOn
  <2>3. Unmoved(acct, b)
    BY <1>4, <1>12 DEF Aside, Unmoved
  <2> QED BY <1>1, <1>12, <2>2, <2>3, SameArchive
<1>13. CASE a.inflight >= MaxConcurrent
  <2> DEFINE b == Postpone(a, g)
  <2>1. /\ Typed(b) /\ Aside(a, b) /\ b.pages = Append(a.pages, g) /\ b.queries = a.queries
        /\ b.out = a.out /\ b.inflight = a.inflight
    BY <1>8, <1>9, PostponeFacts
  <2> HIDE DEF b
  <2>2. Kept(b, s2c)
    BY ONLY <1>1, <1>8, <1>9, <2>1, GlobalWaits
  <2>3. b.queries \subseteq a.queries /\ a.pages \in Seq(Pages)
    BY <1>8, <2>1, NowFacts
  <2>4. (g.ch = Global /\ g.stable) => Covered(From(g), Stored(a))
    BY <1>11
  <2>5. \A q \in b.queries : (q.stable /\ g.id = q.id /\ g.after # 0) => Got(a, q, g.after, {})
    <3>1. a.queries \subseteq Queries
      BY <1>8, NowFacts
    <3>2. \A q \in b.queries : q.id # 0
      BY <2>1, <3>1 DEF Queries, Ids
    <3> QED BY <1>9, <3>2
  <2>6. Progress(b, s2c, {})
    BY ONLY <1>11, <2>1, <2>3, <2>4, <2>5, ProgressPage
  <2> QED BY <1>1, <1>13, <1>12, <2>1, <2>2, <2>6 DEF b
<1>14. CASE ~(a.inflight >= MaxConcurrent)
  <2>1. SlotsBut(a, IF g.slot_held THEN 1 ELSE 0)
    BY <1>8, <1>9
  <2> DEFINE b == NextGlobalPage(a, g)
             id == FreshId(a)
             q == Query(id, Global, g.start, g.end, g.stable)
  <2>2. /\ Kept(b, s2c) /\ Aside(a, b) /\ b.queries = a.queries \union {q}
        /\ b.pages = a.pages /\ Sent(a, b, id, Global, From(g), g.end)
        /\ Unused(id, a, s2c) /\ \A x \in a.queries : x.id # id
    BY ONLY <1>1, <1>8, <1>9, <1>14, <2>1, GlobalAsks
  <2>3. q.id = id /\ q.ch = Global
    BY DEF Query
  <2> HIDE DEF q, id, b
  <2>4. \A x \in b.queries : x \in a.queries \/ (x.id = id /\ Unused(id, a, s2c))
    BY <2>2, <2>3
  <2>5. \A x \in b.queries : (x.stable /\ x.id = id) => Got(a, x, From(g), {})
    <3>1. Global \notin PMs
      BY MamConstants DEF Channels
    <3> QED BY <1>11, <2>2, <2>3, <3>1 DEF Got, Covered
  <2>6. \A i \in DOMAIN b.pages : \E j \in DOMAIN a.pages : a.pages[j] = b.pages[i]
    BY <2>2
  <2>7. a.out \in Seq(Requests)
    BY <1>8, NowFacts
  <2>8. Progress(b, s2c, {})
    BY ONLY <1>11, <2>2, <2>4, <2>5, <2>6, <2>7, ProgressSent
  <2> QED BY <1>1, <1>14, <1>12, <2>2, <2>8 DEF b
<1> QED BY <1>13, <1>14

LEMMA LossStep ==
  ASSUME ArchiveInv, LinkLost
  PROVE  ArchiveInv' /\ Unmoved(acct, acct')
<1> DEFINE a == [acct EXCEPT !.up = FALSE, !.timer = FALSE]
           x == [a EXCEPT !.out = <<>>]
           y == ResetSync(x)
<1>1. /\ Kept(acct, s2c) /\ s2c \in Seq(Answers) /\ Typed(acct)
      /\ acct' = (IF a.sm THEN a ELSE y) /\ archive' = archive
      /\ s2c' = (IF acct.sm THEN s2c ELSE <<>>)
      /\ Stands(acct, s2c)
  BY DEF ArchiveInv, LinkLost, Kept
<1>2. acct \in Accounts /\ acct.joining \subseteq acct.open \intersect Rooms
  BY <1>1 DEF Typed
<1>3. /\ a \in Accounts /\ SameFetches(acct, a) /\ a.open = acct.open
      /\ a.probed = acct.probed /\ a.held = acct.held /\ a.db = acct.db
      /\ a.joining = acct.joining /\ ~a.timer /\ a.sm = acct.sm /\ ~a.up
      /\ a.shown = acct.shown /\ a.batch = acct.batch /\ a.last_fetch = acct.last_fetch
  BY <1>2 DEF Accounts, SameFetches
<1>4. y = ResetSync(x)
  OBVIOUS
<1> HIDE DEF a, y
<1>5. /\ Kept(acct, s2c) /\ a \in Accounts /\ SameFetches(acct, a)
      /\ Grows(acct, a) /\ a.held = acct.held /\ a.db = acct.db
      /\ a.joining \subseteq a.open \intersect Rooms /\ (a.timer => a.up)
  BY <1>1, <1>2, <1>3 DEF Grows
<1>6. Kept(a, s2c)
  BY ONLY <1>5, FlagsKeep
<1>7. Unmoved(acct, a)
  BY <1>3 DEF Unmoved
<1>8. CASE acct.sm
  <2>1. \A p \in PMs : There(acct, p) = There(a, p)
    BY <1>3 DEF There, HeldBack
  <2>2. Ahead(acct, a, s2c)
    BY <1>3, <2>1, AheadSame
  <2>3. Stands(a, s2c)
    BY <1>1, <1>3, <1>6, <2>2, StandsAhead DEF Kept
  <2> QED BY <1>1, <1>3, <1>6, <1>8, <1>7, <2>3, SameArchive
<1>9. CASE ~acct.sm
  <2>1. /\ x \in Accounts /\ x.out = <<>> /\ x.queries = a.queries /\ x.db = a.db
        /\ x.joining = a.joining /\ x.open = a.open /\ x.held = a.held /\ x.timer = a.timer
        /\ x.up = a.up /\ x.last_fetch = a.last_fetch
    <3>1. x = [a EXCEPT !.out = <<>>]
      OBVIOUS
    <3>2. <<>> \in Seq(Requests)
      OBVIOUS
    <3> HIDE DEF x
    <3> QED BY <1>3, <3>1, <3>2 DEF Accounts
  <2> HIDE DEF x
  <2>2. Typed(x) /\ x.out = <<>>
    BY <1>3, <1>6, <2>1 DEF Kept, Typed
  <2>3. /\ Kept(y, <<>>) /\ y.queries = {} /\ y.pages = <<>> /\ y.db = x.db
        /\ y.last_fetch = x.last_fetch /\ y.open = x.open /\ y.up = x.up
    BY ONLY <1>4, <2>2, ResetKeeps
  <2>4. Stands(y, <<>>)
    <3>1. y.db = acct.db /\ ~y.up
      BY <1>3, <2>1, <2>3
    <3>2. Covered(y.db.cursor, Safe(y)) /\ Known(y)
      BY <1>1, <3>1 DEF Stands, Progress, Known, Safe
    <3> QED BY <2>3, <3>1, <3>2, ProgressEmpty DEF Stands
  <2>5. Unmoved(acct, y)
    BY <1>3, <2>1, <2>3 DEF Unmoved
  <2>6. <<>> \in Seq(Answers)
    OBVIOUS
  <2> QED BY <1>1, <1>3, <1>9, <2>3, <2>6, <2>4, <2>5, SameArchive
<1> QED BY <1>8, <1>9

LEMMA CrashStep ==
  ASSUME ArchiveInv, Crash
  PROVE  ArchiveInv' /\ Unmoved(acct, acct')
<1>1. PICK last \in {acct, Commit(acct)} : acct' = Started(last.db)
  BY DEF Crash
<1>2. Kept(acct, s2c) /\ Typed(acct) /\ archive' = archive /\ s2c' = <<>> /\ Stands(acct, s2c)
  BY DEF ArchiveInv, Crash, Kept
<1>3. Typed(last)
  BY <1>1, <1>2, CommitFacts
<1>4. /\ archive \in Seq(Channels) /\ last.db \in Dbs /\ IsFiniteSet(last.db.registered)
      /\ \A r \in Rooms : last.db.ts[r] # Closed
  BY <1>3 DEF Typed, Accounts
<1> DEFINE b == Started(last.db)
<1>5. /\ Kept(b, <<>>) /\ b.db = last.db /\ b.queries = {} /\ b.pages = <<>> /\ b.open = {} /\ ~b.up
  BY <1>4, StartedKeeps
<1> HIDE DEF b
<1>6. Covered(last.db.cursor, Safe(last)) /\ Known(last)
  <2>1. CASE last = acct
    BY <1>2, <2>1 DEF Stands, Progress
  <2>2. CASE last = Commit(acct)
    <3>1. Committed(acct, last)
      BY <1>2, <2>2, CommitFacts
    <3>2. Safe(acct) \subseteq Safe(last)
      BY <3>1 DEF Committed, Safe
    <3> QED BY <1>2, <3>1, <3>2 DEF Stands, Progress, Covered, Known, Committed
  <2> QED BY <1>1, <2>1, <2>2
<1>7. Stands(b, <<>>)
  <2>1. Covered(b.db.cursor, Safe(b)) /\ Known(b)
    BY <1>5, <1>6 DEF Safe, Known
  <2> QED BY <1>5, <2>1, ProgressEmpty DEF Stands
<1>8. Unmoved(acct, b)
  BY <1>5 DEF Unmoved
<1>9. <<>> \in Seq(Answers)
  OBVIOUS
<1> QED BY <1>1, <1>2, <1>5, <1>9, <1>7, <1>8, SameArchive DEF b

LEMMA TimerStep ==
  ASSUME ArchiveInv, TimerFires
  PROVE  ArchiveInv' /\ Unmoved(acct, acct')
<1>1. /\ Kept(acct, s2c) /\ s2c \in Seq(Answers) /\ Later(s2c)
      /\ acct' = TimerCb(acct) /\ archive' = archive /\ s2c' = s2c
      /\ Stands(acct, s2c) /\ Progress(acct, s2c, {})
  BY LaterFacts DEF ArchiveInv, TimerFires, Stands
<1> DEFINE b == TimerCb(acct)
<1>2. Kept(b, s2c) /\ Aside(acct, b) /\ (Progress(acct, s2c, {}) => Progress(b, s2c, {}))
  BY ONLY <1>1, TimerKeeps
<1> HIDE DEF b
<1>3. Minds(acct, b) /\ b.up = acct.up /\ Unmoved(acct, b)
  BY <1>2 DEF Aside, Minds, Unmoved
<1>4. Stands(b, s2c)
  BY <1>1, <1>2, <1>3, StandsOn
<1> QED BY <1>1, <1>2, <1>3, <1>4, SameArchive DEF b

LEMMA ReceiveStep ==
  ASSUME ArchiveInv, Receive
  PROVE  /\ ArchiveInv' /\ Checks(acct, acct', Head(s2c).id)
         /\ ~Overtakes(acct, acct', Head(s2c).id)
<1> DEFINE x == Head(s2c)
           t == Tail(s2c)
<1>1. /\ Kept(acct, s2c) /\ s2c \in Seq(Answers) /\ s2c # <<>> /\ Later(t)
      /\ archive' = archive /\ s2c' = t /\ x = Head(s2c)
      /\ Stands(acct, s2c) /\ Attended(acct)
  BY LaterFacts DEF ArchiveInv, Receive, Stands
<1>2. /\ x \in Answers /\ t \in Seq(Answers) /\ Kept(acct, t)
      /\ IsEnd(x) => Unused(x.id, acct, t)
  BY ONLY <1>1, FirstAnswer
<1>3. acct' = CASE x.kind = "live"   -> Live(acct, x.m)
                [] x.kind = "result" -> Result(acct, x.id, x.m)
                [] x.kind = "fin"    -> Fin(acct, x)
                [] x.kind = "error"  -> Refused(acct, x)
  BY DEF Receive
<1> DEFINE more == IF x.kind = "result" THEN {x.m} ELSE {}
<1>4. Progress(acct, t, more) /\ (x.kind = "fin" => Answered(acct, x))
  <2>1. Progress(acct, s2c, {})
    BY <1>1 DEF Stands
  <2> QED BY ONLY <1>1, <2>1, FirstGoes
<1> HIDE DEF x, t
<1>5. x.kind # "result" => Progress(acct, t, {}) /\ Stands(acct, t)
  <2>1. Known(acct)
    BY <1>1 DEF Stands
  <2> QED BY <1>1, <1>4, <2>1 DEF Stands
<1>6. ASSUME NEW b, acct' = b, Kept(b, t), Progress(b, t, {}), Minds(acct, b),
              Checks(acct, b, x.id), ~Overtakes(acct, b, x.id), b.up => acct.up
       PROVE  /\ ArchiveInv' /\ Checks(acct, acct', Head(s2c).id)
              /\ ~Overtakes(acct, acct', Head(s2c).id)
  <2>1. Stands(b, t)
    BY <1>1, <1>6, StandsOn
  <2>2. ArchiveInv'
    BY <1>1, <1>2, <1>6, <2>1, SameArchive
  <2> QED BY <1>1, <1>6, <2>2
<1>7. acct.up
  BY DEF Receive
<1>8. CASE x.kind = "live"
  <2>1. x.m \in Said
    BY <1>2, <1>8 DEF Answers
  <2> DEFINE b == Live(acct, x.m)
  <2>2. /\ Kept(b, t) /\ Ahead(acct, b, t) /\ Steady(acct, b)
        /\ Attended(acct) => ~Overtakes(acct, b, 0)
    BY ONLY <1>1, <1>2, <2>1, LiveKeeps
  <2>3. acct' = b /\ x.id = 0
    BY <1>2, <1>3, <1>8 DEF Answers
  <2> HIDE DEF b
  <2>4. Progress(b, t, {})
    BY <1>8, <1>5, <2>2, ProgressAhead DEF Kept
  <2>5. Minds(acct, b) /\ Checks(acct, b, x.id) /\ ~Overtakes(acct, b, x.id)
    BY <1>1, <2>2, <2>3, SteadyChecks DEF Ahead
  <2> QED BY <1>6, <1>7, <2>2, <2>3, <2>4, <2>5
<1>9. CASE x.kind = "result"
  <2>1. x.m \in Said /\ x.id \in Ids
    BY <1>2, <1>9 DEF Answers
  <2> DEFINE b == Result(acct, x.id, x.m)
  <2>2. /\ Kept(b, t) /\ Ahead(acct, b, t) /\ Steady(acct, b) /\ x.m \in b.batch
        /\ archive[x.m] \in PMs => x.m \in There(b, archive[x.m])
        /\ Attended(acct) => ~Overtakes(acct, b, x.id)
    BY ONLY <1>1, <1>2, <2>1, ResultKeeps
  <2>3. acct' = b
    BY <1>3, <1>9
  <2> HIDE DEF b
  <2>4. Progress(b, t, {x.m})
    BY <1>9, <1>4, <2>2, ProgressAhead DEF Kept
  <2>5. x.m \in Stored(b)
    BY <2>2 DEF Stored
  <2>6. Progress(b, t, {})
    BY <2>1, <2>2, <2>4, <2>5, Settled
  <2>7. Minds(acct, b) /\ Checks(acct, b, x.id) /\ ~Overtakes(acct, b, x.id)
    BY <1>1, <2>2, SteadyChecks DEF Ahead
  <2> QED BY <1>6, <1>7, <2>2, <2>3, <2>6, <2>7
<1>10. CASE x.kind = "fin"
  <2>1. Unused(x.id, acct, t)
    BY <1>2, <1>10 DEF IsEnd
  <2> DEFINE b == Fin(acct, x)
  <2>2. Kept(b, t)
    BY ONLY <1>1, <1>2, <1>10, <2>1, FinKeeps
  <2>3. acct' = b
    BY <1>3, <1>10
  <2>4. Progress(acct, t, {}) /\ Answered(acct, x)
    BY <1>10, <1>4, <1>5
  <2>5. b = Fin(acct, x)
    OBVIOUS
  <2> HIDE DEF b
  <2>6. /\ Progress(b, t, {}) /\ Minds(acct, b) /\ Checks(acct, b, x.id)
        /\ ~Overtakes(acct, b, x.id)
    BY ONLY <1>2, <1>10, <2>1, <2>4, <2>5, FinGoes
  <2> QED BY <1>6, <1>7, <2>2, <2>3, <2>6
<1>11. CASE x.kind = "error"
  <2>1. Unused(x.id, acct, t)
    BY <1>2, <1>11 DEF IsEnd
  <2> DEFINE b == Refused(acct, x)
  <2>2. /\ Kept(b, t) /\ Minds(acct, b) /\ Steady(acct, b) /\ (\A n : ~Overtakes(acct, b, n))
        /\ Progress(acct, t, {}) => Progress(b, t, {})
    BY ONLY <1>1, <1>2, <1>11, <2>1, RefusedKeeps
  <2>3. acct' = b
    BY <1>3, <1>11
  <2> HIDE DEF b
  <2>4. Progress(b, t, {}) /\ Checks(acct, b, x.id) /\ ~Overtakes(acct, b, x.id)
    BY <1>11, <1>5, <2>2, SteadyChecks
  <2> QED BY <1>6, <1>7, <2>2, <2>3, <2>4
<1> QED BY <1>2, <1>8, <1>9, <1>10, <1>11 DEF Answers

LEMMA ReplyStep ==
  ASSUME ArchiveInv, NEW replies \in Seq(Answers), NEW cost, Reply(replies, cost),
         Ending(replies, Head(acct.out).id), AnswersGot(acct, replies, {})
  PROVE  ArchiveInv' /\ Unmoved(acct, acct')
<1> DEFINE b == [acct EXCEPT !.out = Tail(@)]
           id == Head(acct.out).id
<1>1. /\ Kept(acct, s2c) /\ s2c \in Seq(Answers) /\ acct.out # <<>> /\ replies \in Seq(Answers)
      /\ Ending(replies, id) /\ id = Head(acct.out).id
      /\ b = [acct EXCEPT !.out = Tail(acct.out)]
      /\ acct' = b /\ archive' = archive /\ s2c' = s2c \o replies
      /\ Stands(acct, s2c) /\ AnswersGot(acct, replies, {})
  BY DEF ArchiveInv, Reply
<1> HIDE DEF b, id
<1>2. /\ Kept(b, s2c \o replies) /\ s2c \o replies \in Seq(Answers)
      /\ b.out = Tail(acct.out) /\ b.queries = acct.queries /\ b.pages = acct.pages
      /\ Aside(acct, b)
  BY ONLY <1>1, ServedKeeps, ZenonT(30)
<1>3. Progress(acct, s2c, {}) /\ acct.out \in Seq(Requests)
  BY <1>1, NowFacts DEF Stands, Kept
<1>4. Progress(b, s2c \o replies, {})
  BY ONLY <1>1, <1>2, <1>3, ServedGoes
<1>5. Minds(acct, b) /\ b.up = acct.up /\ Unmoved(acct, b)
  BY <1>2 DEF Aside, Minds, Unmoved
<1>6. Stands(b, s2c \o replies)
  BY <1>1, <1>4, <1>5, StandsOn
<1> QED BY <1>1, <1>2, <1>5, <1>6, SameArchive

LEMMA ServeStep ==
  ASSUME ArchiveInv, Serve \/ ServeUnstable \/ ServeAbort \/ ServeError
  PROVE  ArchiveInv' /\ Unmoved(acct, acct')
<1>1. Typed(acct) /\ acct.out # <<>> /\ Asking(acct) /\ RequestsGot(acct)
  BY DEF ArchiveInv, Kept, Linked, Stands, Progress, Serve, ServeUnstable, ServeAbort, ServeError
<1>2. ASSUME NEW omitted, NEW abort \in BOOLEAN, NEW cost, Reply(Answer(omitted, abort), cost)
      PROVE  ArchiveInv' /\ Unmoved(acct, acct')
  <2>1. /\ Answer(omitted, abort) \in Seq(Answers)
        /\ Ending(Answer(omitted, abort), Head(acct.out).id)
        /\ AnswersGot(acct, Answer(omitted, abort), {})
    BY <1>1, AnswerFacts
  <2> QED BY <1>2, <2>1, ReplyStep
<1>3. CASE Serve
  BY <1>2, <1>3 DEF Serve
<1>4. CASE ServeUnstable
  BY <1>2, <1>4 DEF ServeUnstable
<1>5. CASE ServeAbort
  BY <1>2, <1>5 DEF ServeAbort
<1>6. CASE ServeError
  <2>1. PICK stale \in BOOLEAN :
          Reply(<<[kind |-> "error", id |-> Head(acct.out).id, stale |-> stale]>>, 1)
    BY <1>6 DEF ServeError
  <2> DEFINE err == [kind |-> "error", id |-> Head(acct.out).id, stale |-> stale]
  <2>2. Head(acct.out) \in Requests
    <3>1. acct.out \in Seq(Requests)
      BY <1>1, NowFacts
    <3> QED BY <1>1, <3>1
  <2>3. err \in Answers /\ err.id = Head(acct.out).id /\ ~Steadily(err)
    BY <2>2 DEF Requests, Answers, Steadily
  <2>4. Reply(<<err>>, 1)
    BY <2>1
  <2> HIDE DEF err
  <2>5. /\ <<err>> \in Seq(Answers) /\ Ending(<<err>>, Head(acct.out).id)
        /\ AnswersGot(acct, <<err>>, {})
    BY <2>3 DEF Ending, AnswersGot
  <2> QED BY <2>4, <2>5, ReplyStep
<1> QED BY <1>3, <1>4, <1>5, <1>6

\* The archive only grows, and so do the types.
LEMMA Grown ==
  ASSUME archive \in Seq(Channels), NEW c \in Channels, archive' = Append(archive, c)
  PROVE  /\ archive' \in Seq(Channels) /\ now' = now + 1 /\ now \in Nat
         /\ \A m \in Said : archive'[m] = archive[m]
         /\ Said \subseteq Said' /\ Times \subseteq Times' /\ now + 1 \in Said'
         /\ Accounts \subseteq Accounts' /\ Answers \subseteq Answers'
<1>1. archive' \in Seq(Channels) /\ now' = now + 1 /\ now \in Nat
  BY DEF now
<1>2. \A m \in Said : archive'[m] = archive[m]
  BY DEF Said, now
<1>3. Said \subseteq Said' /\ Times \subseteq Times' /\ now + 1 \in Said'
  BY <1>1 DEF Said, Times
<1>4. /\ Queries \subseteq Queries' /\ Pages \subseteq Pages' /\ Requests \subseteq Requests'
      /\ HeldMessages \subseteq HeldMessages' /\ Chs' = Chs
  BY <1>3 DEF Queries, Pages, Requests, HeldMessages, Chs
<1>5. Dbs \subseteq Dbs'
  BY <1>3 DEF Dbs
<1>6. Answers \subseteq Answers'
  BY <1>3 DEF Answers
<1>7. Accounts \subseteq Accounts'
  <2> SUFFICES ASSUME NEW a \in Accounts
               PROVE  a \in Accounts'
    OBVIOUS
  <2>1. /\ a.shown \in SUBSET Said' /\ a.batch \in SUBSET Said'
        /\ a.last_fetch \in [Channels -> Times'] /\ a.queries \in SUBSET Queries'
        /\ a.db \in Dbs'
    BY <1>3, <1>4, <1>5 DEF Accounts
  <2>2. a.pages \in Seq(Pages') /\ a.out \in Seq(Requests')
    <3>1. a.pages \in Seq(Pages) /\ a.out \in Seq(Requests)
      BY DEF Accounts
    <3> QED BY <1>4, <3>1
  <2>3. a.held \in [PMs -> Seq(HeldMessages')]
    <3>1. a.held \in [PMs -> Seq(HeldMessages)]
      BY DEF Accounts
    <3>2. \A h \in Seq(HeldMessages) : h \in Seq(HeldMessages')
      BY <1>4
    <3> QED BY <3>1, <3>2
  <2> QED BY <2>1, <2>2, <2>3 DEF Accounts
<1> QED BY <1>1, <1>2, <1>3, <1>6, <1>7

\* What is said is later than all that a fetch has been through.
LEMMA EmitStands ==
  ASSUME Typed(acct), s2c \in Seq(Answers), Stands(acct, s2c), acct' = acct, NEW c \in Channels,
         archive' = Append(archive, c), NEW live, live.kind = "live",
         s2c' = s2c \/ s2c' = Append(s2c, live)
  PROVE  Stands(acct, s2c)'
<1>1. /\ now' = now + 1 /\ now \in Nat /\ \A m \in Said : archive'[m] = archive[m]
  BY Grown DEF Typed
<1>2. /\ acct.db.cursor \in Times
      /\ \A i \in DOMAIN acct.pages : acct.pages[i].after \in Times /\ From(acct.pages[i]) \in Times
      /\ \A i \in DOMAIN acct.out : acct.out[i].after \in Times
      /\ \A q \in acct.queries : q.end \in Times
  <2>1. /\ acct.pages \in Seq(Pages) /\ acct.out \in Seq(Requests) /\ acct.queries \subseteq Queries
        /\ acct.db \in Dbs
    BY NowFacts
  <2>2. \A i \in DOMAIN acct.pages : acct.pages[i] \in Pages
    BY <2>1
  <2>3. \A i \in DOMAIN acct.out : acct.out[i] \in Requests
    BY <2>1
  <2> QED BY <2>1, <2>2, <2>3 DEF Pages, Requests, Queries, Dbs, From
<1>3. \A C : \A m \in In(C)' : m \in In(C) \/ m > now
  <2> SUFFICES ASSUME NEW C, NEW m \in In(C)', ~(m > now)
               PROVE  m \in In(C)
    OBVIOUS
  <2>1. m \in 1..now' /\ archive'[m] \in C
    BY DEF In
  <2>2. m \in Said
    BY <1>1, <2>1 DEF Said
  <2> QED BY <1>1, <2>1, <2>2 DEF In, Said
<1>4. \A n \in Times : ~(n > now)
  BY <1>1 DEF Times
<1>5. \A n \in Times : \A S : Covered(n, S) => Covered(n, S)'
  <2> SUFFICES ASSUME NEW n \in Times, NEW S, Covered(n, S), NEW m \in In(PMs)', m <= n
               PROVE  m \in S
    BY DEF Covered
  <2>1. ~(m > now)
    BY <1>1 DEF Times, In
  <2> QED BY <1>3, <2>1 DEF Covered
<1>6. \A n \in Times : \A p, lo, S : Seen(p, lo, n, S) => Seen(p, lo, n, S)'
  <2> SUFFICES ASSUME NEW n \in Times, NEW p, NEW lo, NEW S, Seen(p, lo, n, S),
                      NEW m \in In({p})', lo < m, m <= n
               PROVE  m \in S
    BY DEF Seen
  <2>1. ~(m > now)
    BY <1>1 DEF Times, In
  <2> QED BY <1>3, <2>1 DEF Seen
<1>7. /\ Stored(acct)' = Stored(acct) /\ Safe(acct)' = Safe(acct)
      /\ \A p : There(acct, p)' = There(acct, p)
  BY DEF Stored, Safe, There, HeldBack
<1>8. \A n \in Times : \A q, k : Got(acct, q, n, k) => Got(acct, q, n, k)'
  <2> SUFFICES ASSUME NEW n \in Times, NEW q, NEW k, Got(acct, q, n, k)
               PROVE  Got(acct, q, n, k)'
    OBVIOUS
  <2>1. q.ch = Global => \A m \in In(PMs)' : m <= n => m \in Stored(acct)' \union k
    BY <1>5, <1>7 DEF Got, Covered
  <2>2. q.ch \in PMs =>
          \A m \in In({q.ch})' : (q.start < m /\ m <= n) => m \in There(acct, q.ch)' \union k
    BY <1>6, <1>7 DEF Got, Seen
  <2> QED BY <2>1, <2>2 DEF Got, Covered, Seen
<1>9. Covered(acct.db.cursor, Safe(acct))'
  BY <1>2, <1>5, <1>7 DEF Stands, Progress
<1>10. PagesGot(acct)' /\ RequestsGot(acct)'
  <2>1. PagesGot(acct) /\ RequestsGot(acct)
    BY DEF Stands, Progress
  <2>2. PagesGot(acct)'
    <3>1. \A i \in DOMAIN acct'.pages : (acct'.pages[i].ch = Global /\ acct'.pages[i].stable)
            => Covered(From(acct.pages[i]), Stored(acct))'
      BY <1>2, <1>5, <1>7, <2>1 DEF PagesGot
    <3>2. \A i \in DOMAIN acct'.pages, q \in acct'.queries :
            (q.stable /\ acct'.pages[i].id = q.id /\ acct'.pages[i].after # 0)
              => Got(acct, q, acct.pages[i].after, {})'
      BY <1>2, <1>8, <2>1 DEF PagesGot
    <3> QED BY <3>1, <3>2 DEF PagesGot
  <2>3. RequestsGot(acct)'
    BY <1>2, <1>8, <2>1 DEF RequestsGot
  <2> QED BY <2>2, <2>3
<1>11. AnswersGot(acct, s2c, {})'
  <2>1. AnswersGot(acct, s2c, {})
    BY DEF Stands, Progress
  <2> SUFFICES ASSUME NEW i \in DOMAIN s2c', NEW q \in acct.queries, q.stable,
                      Steadily(s2c'[i]), s2c'[i].id = q.id
               PROVE  /\ Got(acct, q, s2c[i].last, Coming(s2c, i) \union {})'
                      /\ s2c'[i].complete => Got(acct, q, q.end, Coming(s2c, i) \union {})'
    BY DEF AnswersGot
  <2>2. i \in DOMAIN s2c /\ s2c'[i] = s2c[i]
    <3>1. CASE s2c' = Append(s2c, live)
      <4>1. i \in DOMAIN s2c \/ s2c'[i] = live
        BY <3>1
      <4> QED BY <3>1, <4>1 DEF Steadily
    <3> QED BY <3>1
  <2>3. Coming(s2c', i) = Coming(s2c, i)
    <3>1. CASE s2c' = Append(s2c, live)
      <4>1. \A k \in DOMAIN s2c : k \in DOMAIN s2c' /\ s2c'[k] = s2c[k]
        BY <3>1
      <4>2. \A k \in DOMAIN s2c' : k < i => k \in DOMAIN s2c
        BY <2>2, <3>1
      <4> QED BY <4>1, <4>2 DEF Coming
    <3> QED BY <3>1
  <2>4. s2c[i].last \in Times
    <3>1. s2c[i] \in Answers
      BY <2>2
    <3> QED BY <2>2, <3>1 DEF Answers, Steadily
  <2>5. /\ Got(acct, q, s2c[i].last, Coming(s2c, i) \union {})
        /\ s2c[i].complete => Got(acct, q, q.end, Coming(s2c, i) \union {})
    BY <2>1, <2>2 DEF AnswersGot
  <2> DEFINE k == Coming(s2c, i) \union {}
  <2>6. k = k' /\ s2c[i].last = s2c'[i].last
    BY <2>2, <2>3
  <2> QED BY <1>2, <1>8, <2>2, <2>4, <2>5, <2>6
<1>12. (Known(acct) /\ (acct.up => Attended(acct)))'
  BY DEF Stands, Known, Attended
<1> QED BY <1>9, <1>10, <1>11, <1>12 DEF Stands, Progress

LEMMA EmitStep ==
  ASSUME ArchiveInv, NEW c \in Channels, Emit(c)
  PROVE  ArchiveInv' /\ Unmoved(acct, acct')
<1> DEFINE live == [kind |-> "live", id |-> 0, m |-> now + 1]
<1>1. /\ Kept(acct, s2c) /\ s2c \in Seq(Answers) /\ Typed(acct) /\ acct' = acct
      /\ archive' = Append(archive, c) /\ (s2c' = s2c \/ s2c' = Append(s2c, live))
      /\ archive \in Seq(Channels) /\ Stands(acct, s2c)
  BY DEF ArchiveInv, Kept, Emit, Typed
<1>2. /\ archive' \in Seq(Channels) /\ now' = now + 1 /\ now \in Nat
      /\ \A m \in Said : archive'[m] = archive[m]
      /\ now + 1 \in Said' /\ Accounts \subseteq Accounts' /\ Answers \subseteq Answers'
  BY <1>1, Grown
<1>3. Typed(acct)'
  <2>1. acct \in Accounts'
    BY <1>1, <1>2 DEF Typed
  <2>2. \A p \in PMs : \A i \in DOMAIN acct.held[p] : acct.held[p][i].m \in Said
    <3> SUFFICES ASSUME NEW p \in PMs, NEW i \in DOMAIN acct.held[p]
                 PROVE  acct.held[p][i].m \in Said
      OBVIOUS
    <3>1. acct.held[p] \in Seq(HeldMessages)
      BY <1>1 DEF Typed, Accounts
    <3>2. acct.held[p][i] \in HeldMessages
      BY <3>1
    <3> QED BY <3>2 DEF HeldMessages
  <2>3. \A p \in PMs : \A i \in DOMAIN acct.held[p] : archive'[acct.held[p][i].m] = p
    BY <1>1, <1>2, <2>2 DEF Typed
  <2> QED BY <1>1, <1>2, <2>1, <2>3 DEF Typed
<1>4. live \in Answers' /\ ~IsEnd(live) /\ live.kind = "live"
  BY <1>2 DEF Answers, IsEnd
<1> HIDE DEF live
<1>5. s2c' \in Seq(Answers')
  <2>1. s2c \in Seq(Answers')
    BY <1>1, <1>2
  <2>2. \A S, x : s2c \in Seq(S) /\ x \in S => Append(s2c, x) \in Seq(S)
    OBVIOUS
  <2>3. Append(s2c, live) \in Seq(Answers')
    BY ONLY <1>4, <2>1, <2>2
  <2> QED BY ONLY <1>1, <2>1, <2>3
<1>6. OneEnd(acct, s2c')
  <2>1. OneEnd(acct, s2c)
    BY <1>1 DEF Kept, Linked
  <2>2. \A i \in DOMAIN s2c' : IsEnd(s2c'[i]) => i \in DOMAIN s2c /\ s2c'[i] = s2c[i]
    <3>1. CASE s2c' = s2c
      BY <3>1
    <3>2. CASE s2c' = Append(s2c, live)
      <4>1. \A x : \A i \in DOMAIN Append(s2c, x) :
              \/ i \in DOMAIN s2c /\ Append(s2c, x)[i] = s2c[i]
              \/ Append(s2c, x)[i] = x
        BY <1>1
      <4> QED BY <1>4, <3>2, <4>1
    <3> QED BY <1>1, <3>1, <3>2
  <2> QED BY <2>1, <2>2 DEF OneEnd
<1>7. Linked(acct, s2c')
  BY <1>1, <1>6 DEF Kept, Linked
<1>8. (Linked(acct, s2c) /\ Slots(acct) /\ Held(acct))'
  BY <1>1, <1>7 DEF Kept, Linked, OneOfEach, OneEnd, Paged, PageFits, Asking, Asks, IsEnd, Slots,
                    SlotsBut, SlotsHeld, Held, HeldBut, Fetching
<1>9. Stands(acct, s2c)'
  BY <1>1, <1>4, EmitStands
<1>10. Unmoved(acct, acct')
  BY <1>1 DEF Unmoved
<1> QED BY <1>3, <1>5, <1>8, <1>9, <1>10 DEF ArchiveInv, Kept

LEMMA ArchiveStep ==
  ASSUME ArchiveInv, [Next]_vars
  PROVE  /\ ArchiveInv'
         /\ \/ Unmoved(acct, acct') /\ ~Receive
            \/ /\ Receive /\ Checks(acct, acct', Head(s2c).id)
               /\ ~Overtakes(acct, acct', Head(s2c).id)
<1>1. CASE Receive
  BY <1>1, ReceiveStep
<1>2. CASE ~Receive
  <2> SUFFICES ArchiveInv' /\ Unmoved(acct, acct')
    BY <1>2
  <2> USE <1>2
  <2>1. CASE UNCHANGED vars
    BY <2>1, SameArchive DEF vars, ArchiveInv, Unmoved
  <2>2. CASE \E p \in PMs : OpenChat(p)
    BY <2>2, OpenStep
  <2>3. CASE \E r \in Rooms : Join(r) \/ SelfPresence(r)
    BY <2>3, JoinStep, SelfPresenceStep
  <2>4. CASE \E c \in Channels : CloseChat(c) \/ FetchCommand(c) \/ Emit(c)
    BY <2>4, CloseStep, FetchCommandStep, EmitStep
  <2>5. CASE Fresh \/ Resume \/ StartCatchup \/ LinkLost \/ Crash
    BY <2>5, FreshStep, ResumeStep, StartStep, LossStep, CrashStep
  <2>6. CASE TimerFires
    BY <2>6, TimerStep
  <2>7. CASE Serve \/ ServeUnstable \/ ServeAbort \/ ServeError
    BY <2>7, ServeStep
  <2> QED BY <2>1, <2>2, <2>3, <2>4, <2>5, <2>6, <2>7 DEF Next
<1> QED BY <1>1, <1>2

LEMMA ArchiveInit ==
  ASSUME Init
  PROVE  ArchiveInv
<1>1. archive = <<>> /\ acct = Started(EmptyDb) /\ s2c = <<>>
  BY DEF Init
<1>2. archive \in Seq(Channels) /\ now = 0
  BY <1>1 DEF now
<1>3. EmptyDb \in Dbs /\ EmptyDb.registered = {} /\ \A r \in Rooms : EmptyDb.ts[r] # Closed
  <2>1. 0 \in Times
    BY <1>2 DEF Times
  <2> QED BY <2>1 DEF EmptyDb, Dbs, Closed, Channels
<1>4. IsFiniteSet(EmptyDb.registered)
  BY <1>3, FS_EmptySet
<1> DEFINE b == Started(EmptyDb)
<1>5. Kept(b, <<>>) /\ b.db = EmptyDb /\ b.queries = {} /\ b.pages = <<>> /\ ~b.up
  BY <1>2, <1>3, <1>4, StartedKeeps
<1> HIDE DEF b
<1>6. Covered(b.db.cursor, Safe(b)) /\ Known(b)
  BY <1>2, <1>5, MamConstants DEF Covered, In, Known, EmptyDb, Channels
<1>7. Stands(b, <<>>)
  BY <1>5, <1>6, ProgressEmpty DEF Stands
<1>8. <<>> \in Seq(Answers)
  OBVIOUS
<1> QED BY <1>1, <1>5, <1>8, <1>7 DEF ArchiveInv, b

\* The inductive invariant: ids, pages, requests and answers stay linked, and the account has what
\* its fetches have been through, over every order of answers, refusals, lost streams and crashes
\* (channel::fetch_mam, handle_mam_fin_iq_event).
THEOREM ArchiveInvHolds == Spec => []ArchiveInv
<1>1. Init => ArchiveInv
  BY ArchiveInit
<1>2. ArchiveInv /\ [Next]_vars => ArchiveInv'
  BY ArchiveStep
<1> QED BY <1>1, <1>2, PTL DEF Spec

\* At most one page holds on to a slot.
LEMMA SlotHolders ==
  ASSUME NEW a, Typed(a), OneOfEach(a), Paged(a)
  PROVE  Cardinality({i \in DOMAIN a.pages : a.pages[i].slot_held}) = SlotsHeld(a.pages)
<1> DEFINE S == {i \in DOMAIN a.pages : a.pages[i].slot_held}
<1>1. CASE S = {}
  BY <1>1, FS_EmptySet DEF SlotsHeld
<1>2. CASE S # {}
  <2>1. PICK i \in S : TRUE
    BY <1>2
  <2>2. \A j \in S : a.pages[j].id = 0
    <3> SUFFICES ASSUME NEW j \in S
                 PROVE  a.pages[j].id = 0
      OBVIOUS
    <3> QED BY DEF Paged, PageFits
  <2>3. S = {i}
    BY <2>1, <2>2 DEF OneOfEach
  <2> QED BY <2>1, <2>3, FS_Singleton DEF SlotsHeld
<1> QED BY <1>1, <1>2

\* What is being fetched has its slot, and what waits for it is fetched
\* (release_mam_slot, defer_channel_mam_message).
THEOREM FetchesTracked == Spec => []FetchesAreTracked
<1>1. ArchiveInv => FetchesAreTracked
  <2> SUFFICES ASSUME ArchiveInv
               PROVE  FetchesAreTracked
    OBVIOUS
  <2>1. Typed(acct) /\ OneOfEach(acct) /\ Paged(acct) /\ Slots(acct) /\ Held(acct)
    BY DEF ArchiveInv, Kept, Linked
  <2>2. Cardinality({i \in DOMAIN acct.pages : acct.pages[i].slot_held}) = SlotsHeld(acct.pages)
    BY <2>1, SlotHolders
  <2>3. SlotsBalanced
    <3>1. acct.inflight = Cardinality(acct.queries) + SlotsHeld(acct.pages) + 0
      BY <2>1 DEF Slots, SlotsBut
    <3>2. Cardinality(acct.queries) \in Nat /\ SlotsHeld(acct.pages) \in {0, 1}
      BY <2>1, NowFacts
    <3> QED BY <2>2, <3>1, <3>2 DEF SlotsBalanced
  <2>4. HeldIsFetched
    BY <2>1, MamConstants DEF Held, HeldBut, HeldIsFetched, Channels
  <2> QED BY <2>3, <2>4 DEF FetchesAreTracked
<1> QED BY <1>1, ArchiveInvHolds, PTL

\* The account keeps its shape: what is shown, stored or known of was said, and no more slots
\* are taken than there are (xmpp.look.mam_max_concurrent).
THEOREM ArchiveTypes == Spec => []TypeOK
<1>1. ArchiveInv => TypeOK
  <2> SUFFICES ASSUME ArchiveInv
               PROVE  TypeOK
    OBVIOUS
  <2>1. Typed(acct) /\ acct \in Accounts /\ Slots(acct) /\ acct.db \in Dbs
    BY DEF ArchiveInv, Kept, Typed, Accounts
  <2>2. /\ acct.open \subseteq Channels
        /\ acct.shown \union acct.batch \subseteq Said /\ acct.last_fetch \in [Channels -> Times]
        /\ acct.inflight \in Nat
    BY <2>1 DEF Accounts
  <2>3. /\ acct.db.cache \union acct.db.wiped \subseteq Said /\ acct.db.cursor \in Times
        /\ acct.db.registered \subseteq PMs /\ acct.db.ts \in [Channels -> Times \union {Closed}]
    BY <2>1 DEF Dbs
  <2>4. acct.inflight \in 0..MaxConcurrent
    BY <2>1, <2>2, MamConstants DEF Slots, SlotsBut
  <2> QED BY <2>1, <2>2, <2>3, <2>4 DEF TypeOK, Typed, Said, Times
<1> QED BY <1>1, ArchiveInvHolds, PTL

\* The cursor in LMDB passes nothing that a crash could still lose, and the time up to which a
\* chat is known moves only when all of the query's interval is in its buffer, or about to be
\* (handle_mam_fin_iq_event's commit before its checkpoint).
THEOREM NothingPassed == Spec => NothingIsPassed
<1> DEFINE Checkpointed ==
      \A p \in acct.open \intersect acct'.open \intersect PMs :
        acct'.last_fetch[p] # acct.last_fetch[p] =>
          \A q \in acct.queries, m \in In({p}) :
            q.id = Head(s2c).id /\ q.start < m /\ m <= acct'.last_fetch[p]
              => m \in acct'.shown \union HeldBack(acct', p)
<1>1. ArchiveInv => CursorIsStored
  BY DEF ArchiveInv, Stands, Progress, Covered, Safe, CursorIsStored
<1>2. ArchiveInv' => CursorIsStored'
  BY <1>1, PTL
<1>3. ArchiveInv /\ [Next]_vars => Checkpointed
  <2> SUFFICES ASSUME ArchiveInv, [Next]_vars,
                      NEW p \in acct.open \intersect acct'.open \intersect PMs,
                      acct'.last_fetch[p] # acct.last_fetch[p],
                      NEW q \in acct.queries, NEW m \in In({p}),
                      q.id = Head(s2c).id, q.start < m, m <= acct'.last_fetch[p]
               PROVE  m \in acct'.shown \union HeldBack(acct', p)
    OBVIOUS
  <2>1. Unmoved(acct, acct') \/ Checks(acct, acct', Head(s2c).id)
    BY ArchiveStep
  <2>2. Checks(acct, acct', Head(s2c).id)
    BY <2>1 DEF Unmoved
  <2> QED BY <2>2 DEF Checks, Seen, There
<1> HIDE DEF Checkpointed
<1>4. Spec => [][CursorIsStored']_vars
  BY <1>2, ArchiveInvHolds, PTL DEF Spec
<1>5. Spec => [][Checkpointed]_vars
  BY <1>3, ArchiveInvHolds, PTL DEF Spec
<1> QED BY <1>4, <1>5 DEF NothingIsPassed, CheckpointIsShown, Checkpointed

\* Nothing is shown in a chat before the older messages its own fetch will bring
\* (defer_channel_mam_message, flush_channel_mam_messages).
THEOREM NothingOvertaken == Spec => NothingOvertakes
<1> DEFINE InOrder ==
      Receive =>
        \A m \in In(PMs) \intersect (acct'.shown \ acct.shown) : \A x \in Underway(acct', archive[m]) :
          /\ archive[m] \in acct.open \/ acct.db.ts[archive[m]] # Closed
          /\ Head(s2c).id # x.id
          => \A k \in In({archive[m]}) :
               x.start < k /\ k <= x.end /\ k < m => k \in acct'.shown
<1>1. ArchiveInv /\ [Next]_vars => InOrder
  <2> SUFFICES ASSUME ArchiveInv, [Next]_vars, Receive
               PROVE  InOrder
    OBVIOUS
  <2>1. ~Overtakes(acct, acct', Head(s2c).id)
    BY ArchiveStep
  <2> QED BY <2>1 DEF Overtakes
<1> HIDE DEF InOrder
<1>2. Spec => [][InOrder]_vars
  BY <1>1, ArchiveInvHolds, PTL DEF Spec
<1> QED BY <1>2 DEF NothingOvertakes, InOrder

=============================================================================
