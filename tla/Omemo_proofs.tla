----------------------------- MODULE Omemo_proofs -----------------------------
(***************************************************************************)
(* OMEMO sessions with a contact: what guards a request stands for one, a  *)
(* session is with the identity its trust is about, and recovery follows;  *)
(* for any devices, keys, messages and losses.  The handlers are operators *)
(* on the account, so each gets a lemma: it keeps Kept, of the account and *)
(* of what is still to come on the stream.                                 *)
(*                                                                         *)
(* The prekeys of this device: what is published is held, what was used is *)
(* replaced; for any peers, events and crashes, as long as the numbers of  *)
(* prekeys do not come round.  The handlers are trails of commits, so each *)
(* gets a lemma: a disk it leaves, cut or not, is one that what is out can *)
(* be answered with.                                                       *)
(*                                                                         *)
(* The folds of the community modules are recursive functions.  That they  *)
(* are defined, and what holds of their values, is shown by induction over *)
(* finite sets, with sets in the place of predicates.                      *)
(***************************************************************************)
EXTENDS MCOmemo, FiniteSetTheorems, SequenceTheorems, TLAPS

-----------------------------------------------------------------------------
(* Induction and recursion over a finite set.                              *)

Inductive(T, S) == \A s \in SUBSET S : (\A x \in s : s \ {x} \in T) => s \in T

\* What a set has if it does not lack an element of it, every subset of a finite set has.
LEMMA SetInduction ==
  ASSUME NEW S, IsFiniteSet(S), NEW T, Inductive(T, S)
  PROVE  SUBSET S \subseteq T
<1> DEFINE Bad == {s \in SUBSET S : s \notin T}
<1>1. ASSUME Bad # {} PROVE FALSE
  <2>1. IsWellFoundedOn(StrictSubsetOrdering(S), FiniteSubsetsOf(S))
    BY FS_StrictSubsetOrderingWellFounded
  <2>2. Bad \subseteq FiniteSubsetsOf(S)
    BY FS_Subset DEF FiniteSubsetsOf
  <2>3. PICK s \in Bad : \A t \in Bad : <<t, s>> \notin StrictSubsetOrdering(S)
    BY <1>1, <2>1, <2>2, WFMin
  <2>4. ASSUME NEW x \in s PROVE s \ {x} \in T
    <3>1. s \ {x} \in SUBSET S /\ s \ {x} # s
      BY <2>3, <2>4
    <3>2. <<s \ {x}, s>> \in StrictSubsetOrdering(S)
      BY <3>1, <2>3 DEF StrictSubsetOrdering
    <3> QED BY <3>1, <3>2, <2>3
  <2> QED BY <2>3, <2>4 DEF Inductive
<1> QED BY <1>1

\* What 0 has, and n + 1 if n has it, every natural number has.
LEMMA NumberInduction ==
  ASSUME NEW T, 0 \in T, \A n \in Nat : n \in T => n + 1 \in T
  PROVE  Nat \subseteq T
<1> DEFINE Bad == {n \in Nat : n \notin T}
<1>1. ASSUME Bad # {} PROVE FALSE
  <2> DEFINE Less == OpToRel(<, Nat)
  <2>1. IsWellFoundedOn(Less, Nat)
    BY NatLessThanWellFounded
  <2>2. \A m, n \in Nat : m < n => <<m, n>> \in Less
    BY DEF OpToRel
  <2> HIDE DEF Less
  <2>3. PICK n \in Bad : \A m \in Bad : <<m, n>> \notin Less
    BY <1>1, <2>1, WFMin
  <2>4. n \in Nat /\ n # 0
    BY <2>3
  <2>5. n - 1 \in Nat /\ n - 1 < n /\ n = (n - 1) + 1
    BY <2>4
  <2> QED BY <2>2, <2>3, <2>4, <2>5
<1> QED BY <1>1

Picks(pick, S) == \A s \in SUBSET S : s # {} => pick[s] \in s
Recurs(f, S, base, step, pick) ==
  \A s \in SUBSET S : f[s] = IF s = {} THEN base ELSE step[pick[s], f[s \ {pick[s]}]]

\* A function can be defined on the subsets of a finite set by its value for the empty set,
\* and for any other by that for the set without the element that is picked.
LEMMA FoldExists ==
  ASSUME NEW S, IsFiniteSet(S), NEW A, NEW base \in A, NEW step \in [S \X A -> A],
         NEW pick, Picks(pick, S)
  PROVE  \E f \in [SUBSET S -> A] : Recurs(f, S, base, step, pick)
<1> DEFINE Small(n) == {s \in SUBSET S : Cardinality(s) < n}
           Val(s, f) == IF s = {} THEN base ELSE step[pick[s], f[s \ {pick[s]}]]
           Is(f, n) == \A s \in Small(n) : f[s] = Val(s, f)
           Good == {n \in Nat : \E f \in [Small(n) -> A] : Is(f, n)}
<1>1. \A s \in SUBSET S : IsFiniteSet(s) /\ Cardinality(s) \in Nat
  BY FS_Subset, FS_CardinalityType
<1>2. \A s \in SUBSET S : \A x \in s : s \ {x} \in SUBSET S /\ Cardinality(s \ {x}) = Cardinality(s) - 1
  BY <1>1, FS_RemoveElement
<1>3. ASSUME NEW n \in Nat, n \in Good PROVE n + 1 \in Good
  <2>1. PICK f \in [Small(n) -> A] : Is(f, n)
    BY <1>3
  <2> DEFINE g == [s \in Small(n + 1) |-> Val(s, f)]
  <2>2. \A s \in Small(n + 1) : s # {} => (pick[s] \in S /\ s \ {pick[s]} \in Small(n))
    BY <1>1, <1>2 DEF Picks
  <2>3. ASSUME NEW s \in Small(n) PROVE s \in Small(n + 1) /\ g[s] = f[s]
    <3>1. s \in Small(n + 1)
      BY <1>1
    <3>2. f[s] = Val(s, f)
      BY <2>1
    <3> HIDE DEF Small, Val
    <3> QED BY <3>1, <3>2
  <2>4. ASSUME NEW s \in Small(n + 1) PROVE Val(s, f) \in A /\ g[s] = Val(s, g)
    <3>1. CASE s = {}
      BY <3>1
    <3>2. CASE s # {}
      <4>1. pick[s] \in S /\ s \ {pick[s]} \in Small(n)
        BY <2>2, <3>2
      <4>2. g[s \ {pick[s]}] = f[s \ {pick[s]}]
        BY <4>1, <2>3
      <4>3. f[s \ {pick[s]}] \in A
        BY <4>1, <2>1
      <4>4. step[pick[s], f[s \ {pick[s]}]] \in A
        BY <4>1, <4>3
      <4> HIDE DEF Small
      <4> QED BY <4>2, <4>4, <3>2
    <3> QED BY <3>1, <3>2
  <2> HIDE DEF Small, Val
  <2>5. g \in [Small(n + 1) -> A]
    BY <2>4
  <2>6. Is(g, n + 1)
    BY <2>4
  <2>7. n + 1 \in Nat
    OBVIOUS
  <2> HIDE DEF Is, g
  <2> QED BY <2>5, <2>6, <2>7
<1>4. 0 \in Good
  <2>1. Small(0) = {}
    BY <1>1
  <2>2. [s \in {} |-> base] \in [Small(0) -> A]
    BY <2>1
  <2> QED BY <2>1, <2>2
<1>5. Nat \subseteq Good
  <2> HIDE DEF Good
  <2> QED BY <1>3, <1>4, NumberInduction
<1>6. PICK n \in Nat : n = Cardinality(S) + 1
  BY FS_CardinalityType
<1>7. Small(n) = SUBSET S
  BY <1>1, <1>6, FS_Subset
<1>8. PICK f \in [Small(n) -> A] : Is(f, n)
  BY <1>5, <1>6
<1> QED BY <1>7, <1>8 DEF Recurs
-----------------------------------------------------------------------------
(* The account, and what is on the stream.                                 *)

ListRequest == [what |-> "list"]
BundleRequest(d) == [what |-> "bundle", d |-> d]
Publication == [what |-> "publish"]
Requests == {ListRequest, Publication} \union {BundleRequest(d) : d \in Devices}

Stanzas ==
  [what : {"list"}, devices : SUBSET Devices] \union [what : {"nolist", "listerror"}] \union
  [what : {"bundle"}, d : Devices, v : Nat] \union
  [what : {"bundleerror"}, d : Devices, echoed : {EchoesErrors}] \union
  [what : {"msg"}, d : Devices, kind : Kinds, v : Nat \ {0}, archived : BOOLEAN]

Sets == SUBSET Devices

Account ==
  [up : BOOLEAN, sm : BOOLEAN, archive : {"idle", "asked", "done"}, out : Seq(Requests),
   list : Sets, bundle : [Devices -> Nat], sess : [Devices -> Nat], ident : [Devices -> Nat],
   trust : [Devices -> Trusts], fetch : Sets, missing : BOOLEAN, kt : Sets, postponed : Sets,
   live : Sets, attempted : Sets, failed : Sets, traffic : BOOLEAN, beaten : Sets, replied : Sets,
   catchup : BOOLEAN, republish : BOOLEAN, chat : BOOLEAN, queue : Nat,
   room : [on : BOOLEAN, member : BOOLEAN, wait : Sets],
   seen : [absent : BOOLEAN, refused : Sets, owed : Sets, unread : BOOLEAN, stale : BOOLEAN]]

\* A bundle is on its way: asked for, or answered.
Fetching(a, w, d) ==
  \/ BundleRequest(d) \in Range(a.out)
  \/ \E x \in Range(w) : x.what \in {"bundle", "bundleerror"} /\ x.d = d

Guards(a, w) ==
  /\ \A d \in a.fetch : Fetching(a, w, d) \/ (~EchoesErrors /\ d \in a.seen.refused)
  /\ a.missing => \/ a.seen.absent \/ ListRequest \in Range(a.out)
                  \/ \E x \in Range(w) : x.what \in {"list", "nolist", "listerror"}

\* A key transport that is owed is scheduled, with a session, or waits for a bundle.
Owing(a, w, but) == \A d \in a.seen.owed \ but :
  \/ d \in a.live \union a.postponed /\ a.sess[d] # 0
  \/ d \in a.kt /\ (Fetching(a, w, d) \/ d \in a.seen.refused)

Ids(a) == \A d \in Devices : a.sess[d] # 0 => a.sess[d] = a.ident[d]

\* Of the account, when w is still to come, but for the devices a handler is busy with.
Kept(a, w, but) ==
  /\ a \in Account /\ Ids(a)
  /\ a.postponed # {} => a.catchup
  /\ a.up /\ a.catchup => a.archive = "asked"
  /\ a.up => Guards(a, w) /\ Owing(a, w, but)

\* What a request leaves alone.
Alike(a, b) ==
  /\ b.up = a.up /\ b.archive = a.archive /\ b.catchup = a.catchup /\ b.traffic = a.traffic
  /\ b.kt = a.kt /\ b.live = a.live /\ b.postponed = a.postponed /\ b.seen.owed = a.seen.owed
  /\ b.sess = a.sess /\ b.ident = a.ident /\ b.trust = a.trust /\ b.failed = a.failed
  /\ b.list = a.list /\ b.chat = a.chat /\ b.bundle = a.bundle /\ b.attempted = a.attempted
  /\ b.room.member = a.room.member /\ b.room.on = a.room.on

LEMMA Appended ==
  ASSUME NEW S, NEW q \in Seq(S), NEW x \in S
  PROVE  Append(q, x) \in Seq(S) /\ Range(Append(q, x)) = Range(q) \union {x}
<1> DEFINE p == Append(q, x)
<1>1. p \in Seq(S) /\ Len(p) = Len(q) + 1 /\ Len(q) \in Nat /\ p[Len(q) + 1] = x
  OBVIOUS
<1>2. \A i \in 1..Len(q) : p[i] = q[i]
  OBVIOUS
<1> HIDE DEF p
<1>3. DOMAIN q = 1..Len(q) /\ DOMAIN p = 1..(Len(q) + 1)
  BY <1>1
<1>4. Range(p) = Range(q) \union {x}
  BY <1>1, <1>2, <1>3 DEF Range
<1> QED BY <1>1, <1>4 DEF p

LEMMA Taken ==
  ASSUME NEW S, NEW q \in Seq(S), q # <<>>
  PROVE  /\ Head(q) \in S /\ Tail(q) \in Seq(S)
         /\ Range(q) = {Head(q)} \union Range(Tail(q))
<1>1. Head(q) \in S /\ Tail(q) \in Seq(S) /\ Len(Tail(q)) = Len(q) - 1 /\ Len(q) \in Nat \ {0}
  BY EmptySeq
<1>2. \A i \in 1..Len(Tail(q)) : Tail(q)[i] = q[i + 1]
  OBVIOUS
<1>3. ASSUME NEW x \in Range(q) PROVE x = Head(q) \/ x \in Range(Tail(q))
  <2>1. PICK i \in 1..Len(q) : x = q[i]
    BY DEF Range
  <2>2. CASE i = 1
    BY <2>1, <2>2
  <2>3. CASE i # 1
    <3>1. i - 1 \in 1..Len(Tail(q)) /\ Tail(q)[i - 1] = x
      BY <1>1, <1>2, <2>1, <2>3
    <3>2. DOMAIN Tail(q) = 1..Len(Tail(q))
      BY <1>1
    <3> QED BY <3>1, <3>2 DEF Range
  <2> QED BY <2>2, <2>3
<1>4. Head(q) \in Range(q)
  BY <1>1 DEF Range
<1>5. ASSUME NEW x \in Range(Tail(q)) PROVE x \in Range(q)
  <2>1. PICK i \in 1..Len(Tail(q)) : x = Tail(q)[i]
    BY <1>1 DEF Range
  <2>2. i + 1 \in 1..Len(q) /\ q[i + 1] = x
    BY <1>1, <1>2, <2>1
  <2> QED BY <2>2 DEF Range
<1> QED BY <1>1, <1>3, <1>4, <1>5

LEMMA SendKeeps ==
  ASSUME NEW a \in Account, NEW x \in Requests
  PROVE  /\ Send(a, x) \in Account /\ Send(a, x) = [a EXCEPT !.out = Send(a, x).out]
         /\ Range(a.out) \subseteq Range(Send(a, x).out)
         /\ a.up => x \in Range(Send(a, x).out)
<1>1. a.out \in Seq(Requests)
  BY DEF Account
<1>2. Append(a.out, x) \in Seq(Requests) /\ Range(Append(a.out, x)) = Range(a.out) \union {x}
  BY <1>1, Appended
<1>3. [a EXCEPT !.out = a.out] = a
  BY DEF Account
<1> HIDE DEF Requests
<1>4. CASE a.up \/ a.sm
  <2>1. Send(a, x) = [a EXCEPT !.out = Append(a.out, x)]
    BY <1>4 DEF Send
  <2>2. Send(a, x).out = Append(a.out, x)
    BY <2>1 DEF Account
  <2>3. Send(a, x) \in Account
    BY <1>2, <2>1 DEF Account
  <2> QED BY <1>2, <2>1, <2>2, <2>3
<1>5. CASE ~(a.up \/ a.sm)
  BY <1>3, <1>5 DEF Send
<1> QED BY <1>4, <1>5

-----------------------------------------------------------------------------
(* What is asked for.                                                      *)

\* Whoever asks for more keeps what was underway.
LEMMA MoreSent ==
  ASSUME NEW a, NEW b, NEW w, NEW d, Range(a.out) \subseteq Range(b.out), Fetching(a, w, d)
  PROVE  Fetching(b, w, d)
BY DEF Fetching

LEMMA RequestListKeeps ==
  ASSUME NEW a, NEW w, NEW but, Kept(a, w, but)
  PROVE  /\ Kept(RequestList(a), w, but) /\ Alike(a, RequestList(a))
         /\ RequestList(a).fetch = a.fetch /\ RequestList(a).room.wait = a.room.wait
<1>1. CASE a.missing
  BY <1>1 DEF RequestList, Alike
<1>2. CASE ~a.missing
  <2> DEFINE c == [a EXCEPT !.missing = TRUE]
             b == Send(c, ListRequest)
  <2>1. c \in Account /\ ListRequest \in Requests
    BY DEF Kept, Account, Requests
  <2>2. /\ b \in Account /\ b = [c EXCEPT !.out = b.out] /\ Range(c.out) \subseteq Range(b.out)
        /\ c.up => ListRequest \in Range(b.out)
    <3> HIDE DEF c
    <3> QED BY <2>1, SendKeeps
  <2>3. RequestList(a) = b
    BY <1>2 DEF RequestList, ListRequest
  <2>4. a \in Account
    BY DEF Kept
  <2> HIDE DEF b
  <2>5. Alike(a, b) /\ b.fetch = a.fetch /\ b.seen = a.seen /\ b.room = a.room
    BY <2>2, <2>4 DEF Account, Alike
  <2>6. Range(a.out) \subseteq Range(b.out) /\ (a.up => ListRequest \in Range(b.out))
    BY <2>2, <2>4 DEF Account
  <2>7. a.up => Guards(b, w)
    BY <2>5, <2>6, MoreSent DEF Kept, Guards
  <2>8. a.up => Owing(b, w, but)
    BY <2>5, <2>6, MoreSent DEF Kept, Owing, Alike
  <2>9. Kept(b, w, but)
    BY <2>2, <2>5, <2>7, <2>8 DEF Kept, Ids, Alike
  <2> QED BY <2>3, <2>5, <2>9
<1> QED BY <1>1, <1>2

LEMMA RequestBundleKeeps ==
  ASSUME NEW a, NEW w, NEW but, Kept(a, w, but), NEW d \in Devices
  PROVE  /\ Kept(RequestBundle(a, d), w, but) /\ Alike(a, RequestBundle(a, d))
         /\ RequestBundle(a, d).fetch \subseteq a.fetch \union {d}
         /\ a.traffic \/ d \in a.fetch => d \in RequestBundle(a, d).fetch
<1>0. a \in Account
  BY DEF Kept
<1>1. CASE d \in a.fetch \/ ~(a.traffic \/ Eligible(a))
  BY <1>1 DEF RequestBundle, Alike
<1>2. CASE ~(d \in a.fetch \/ ~(a.traffic \/ Eligible(a)))
  <2> DEFINE wait == IF Eligible(a) THEN a.room.wait \union {d} ELSE a.room.wait
             c == [a EXCEPT !.fetch = @ \union {d}, !.seen.refused = @ \ {d}, !.room.wait = wait]
             b == Send(c, BundleRequest(d))
  <2>1. c \in Account /\ BundleRequest(d) \in Requests
    <3>1. wait \in Sets
      BY <1>0 DEF Account, Sets
    <3> HIDE DEF wait
    <3> QED BY <1>0, <3>1 DEF Account, Requests, Sets
  <2>2. /\ b \in Account /\ b = [c EXCEPT !.out = b.out] /\ Range(c.out) \subseteq Range(b.out)
        /\ c.up => BundleRequest(d) \in Range(b.out)
    <3> HIDE DEF c
    <3> QED BY <2>1, SendKeeps
  <2>3. RequestBundle(a, d) = b
    BY <1>2 DEF RequestBundle, BundleRequest
  <2> HIDE DEF b, wait
  <2>5. /\ Alike(a, b) /\ b.fetch = a.fetch \union {d} /\ b.seen.refused = a.seen.refused \ {d}
        /\ b.missing = a.missing /\ b.seen.absent = a.seen.absent
    <3>1. /\ Alike(a, c) /\ c.fetch = a.fetch \union {d} /\ c.seen.refused = a.seen.refused \ {d}
          /\ c.missing = a.missing /\ c.seen.absent = a.seen.absent
      BY <1>0 DEF Account, Alike
    <3> HIDE DEF c
    <3>2. /\ Alike(c, b) /\ b.fetch = c.fetch /\ b.seen = c.seen /\ b.missing = c.missing
      BY <2>1, <2>2 DEF Account, Alike
    <3> QED BY <3>1, <3>2 DEF Alike
  <2>6. Range(a.out) \subseteq Range(b.out) /\ (a.up => Fetching(b, w, d))
    <3>1. c.out = a.out /\ c.up = a.up
      BY <1>0 DEF Account
    <3> HIDE DEF c
    <3> QED BY <2>2, <3>1 DEF Fetching
  <2>7. a.up => Guards(b, w)
    BY <2>5, <2>6, MoreSent DEF Kept, Guards
  <2>8. a.up => Owing(b, w, but)
    BY <2>5, <2>6, MoreSent DEF Kept, Owing, Alike
  <2>9. Kept(b, w, but)
    BY <2>2, <2>5, <2>7, <2>8 DEF Kept, Ids, Alike
  <2> QED BY <2>3, <2>5, <2>9
<1> QED BY <1>1, <1>2

LEMMA RequestBundlesKeep ==
  ASSUME NEW a, NEW w, NEW but, Kept(a, w, but), NEW ds \in SUBSET Devices
  PROVE  /\ Kept(RequestBundles(a, ds), w, but) /\ Alike(a, RequestBundles(a, ds))
<1> DEFINE Good == {b \in Account : Kept(b, w, but) /\ Alike(a, b)}
           pick == [s \in SUBSET ds |-> CHOOSE x \in s : TRUE]
           step == [p \in ds \X Good |-> RequestBundle(p[2], p[1])]
<1>0. IsFiniteSet(ds)
  BY OmemoConstants, FS_Subset
<1>1. Picks(pick, ds)
  BY DEF Picks
<1>2. a \in Good
  BY DEF Kept, Alike
<1>3. ASSUME NEW b \in Good, NEW d \in ds PROVE RequestBundle(b, d) \in Good
  <2>1. Kept(b, w, but) /\ Alike(a, b) /\ d \in Devices
    OBVIOUS
  <2>2. Kept(RequestBundle(b, d), w, but) /\ Alike(b, RequestBundle(b, d))
    BY <2>1, RequestBundleKeeps
  <2> QED BY <2>1, <2>2 DEF Kept, Alike
<1> HIDE DEF Good
<1>4. step \in [ds \X Good -> Good]
  BY <1>3
<1>5. PICK f \in [SUBSET ds -> Good] : Recurs(f, ds, a, step, pick)
  <2> HIDE DEF pick, step
  <2> QED BY <1>0, <1>1, <1>2, <1>4, FoldExists
<1> DEFINE Is(it) == it = [s \in SUBSET ds |-> IF s = {} THEN a
                     ELSE RequestBundle(it[s \ {CHOOSE x \in s : TRUE}], CHOOSE x \in s : TRUE)]
           iter == CHOOSE it : Is(it)
<1>6. Is(f)
  BY <1>1, <1>5 DEF Picks, Recurs
<1>7. Is(iter)
  <2> HIDE DEF Is
  <2> QED BY <1>6
<1> HIDE DEF iter
<1> DEFINE T == {s \in SUBSET ds : iter[s] \in Good}
<1>8. ASSUME NEW s \in SUBSET ds, \A x \in s : s \ {x} \in T
      PROVE  s \in T
  <2>1. CASE s = {}
    BY <1>2, <1>7, <2>1
  <2>2. CASE s # {}
    <3> DEFINE x == pick[s]
    <3>1. x \in s /\ x \in ds /\ s \ {x} \in T
      BY <1>1, <1>8, <2>2 DEF Picks
    <3>2. iter[s] = RequestBundle(iter[s \ {x}], x)
      BY <1>7, <2>2
    <3> HIDE DEF x, Is
    <3> QED BY <1>3, <3>1, <3>2
  <2> QED BY <2>1, <2>2
<1>9. SUBSET ds \subseteq T
  <2>1. Inductive(T, ds)
    <3> HIDE DEF T
    <3> QED BY <1>8 DEF Inductive
  <2> HIDE DEF T
  <2> QED BY <1>0, <2>1, SetInduction
<1>10. RequestBundles(a, ds) = iter[ds]
  BY DEF RequestBundles, FoldSet, MapThenFoldSet, iter, Is
<1> QED BY <1>9, <1>10 DEF Good

LEMMA SessionlessType ==
  ASSUME NEW a \in Account
  PROVE  Sessionless(a) \in SUBSET Devices
BY DEF Sessionless, Account, Sets

LEMMA BootstrapKeeps ==
  ASSUME NEW a, NEW w, NEW but, Kept(a, w, but)
  PROVE  Kept(Bootstrap(a), w, but) /\ Alike(a, Bootstrap(a))
<1> DEFINE b == RequestList(a)
<1>1. Kept(b, w, but) /\ Alike(a, b)
  BY RequestListKeeps
<1>2. Sessionless(b) \in SUBSET Devices
  BY <1>1, SessionlessType DEF Kept
<1> HIDE DEF b
<1>3. Kept(RequestBundles(b, Sessionless(b)), w, but) /\ Alike(b, RequestBundles(b, Sessionless(b)))
  BY <1>1, <1>2, RequestBundlesKeep
<1> QED BY <1>1, <1>3 DEF Bootstrap, Alike, b


-----------------------------------------------------------------------------
(* Sessions, and what is owed.                                             *)

\* b is a, but for sessions, keys and trust, and other devices keep their sessions.
Resessioned(a, b, d) ==
  /\ b \in Account /\ Ids(b)
  /\ b = [a EXCEPT !.sess = b.sess, !.ident = b.ident, !.trust = b.trust]
  /\ \A e \in Devices \ {d} : b.sess[e] = a.sess[e]

LEMMA DefaultTrustType ==
  ASSUME NEW a
  PROVE  DefaultTrust(a) \in Trusts
BY DEF DefaultTrust, Trusts

LEMMA SameResessioned ==
  ASSUME NEW a \in Account, Ids(a), NEW d
  PROVE  Resessioned(a, a, d)
BY DEF Resessioned, Account

LEMMA ResessionedTwice ==
  ASSUME NEW a \in Account, NEW b, NEW c, NEW d, Resessioned(a, b, d), Resessioned(b, c, d)
  PROVE  Resessioned(a, c, d)
<1> DEFINE x == [a EXCEPT !.sess = b.sess, !.ident = b.ident, !.trust = b.trust]
<1>1. [x EXCEPT !.sess = c.sess, !.ident = c.ident, !.trust = c.trust]
      = [a EXCEPT !.sess = c.sess, !.ident = c.ident, !.trust = c.trust]
  BY DEF Account
<1>2. b = x
  BY DEF Resessioned
<1> HIDE DEF x
<1>3. c = [x EXCEPT !.sess = c.sess, !.ident = c.ident, !.trust = c.trust]
  BY <1>2 DEF Resessioned
<1>4. c = [a EXCEPT !.sess = c.sess, !.ident = c.ident, !.trust = c.trust]
  BY <1>1, <1>3
<1> QED BY <1>4 DEF Resessioned

WithSession(a, d, s, i, t) == [a EXCEPT !.sess[d] = s, !.ident[d] = i, !.trust[d] = t]

\* What sets one device's session to 0 or to its identity.
LEMMA OneResessioned ==
  ASSUME NEW a \in Account, Ids(a), NEW d \in Devices, NEW s \in Nat, NEW i \in Nat,
         s \in {0, i}, NEW t \in Trusts,
         NEW r, r = WithSession(a, d, s, i, t)
  PROVE  Resessioned(a, r, d) /\ r.sess[d] = s /\ r.ident[d] = i /\ r.trust[d] = t
<1> DEFINE se == [a.sess EXCEPT ![d] = s]
           id == [a.ident EXCEPT ![d] = i]
           tr == [a.trust EXCEPT ![d] = t]
           b == [a EXCEPT !.sess = se, !.ident = id, !.trust = tr]
<1>0. b = r
  BY DEF Account, WithSession
<1>1. /\ se \in [Devices -> Nat] /\ id \in [Devices -> Nat] /\ tr \in [Devices -> Trusts]
      /\ se[d] = s /\ id[d] = i /\ tr[d] = t
      /\ \A e \in Devices \ {d} : se[e] = a.sess[e] /\ id[e] = a.ident[e]
  BY DEF Account
<1> HIDE DEF se, id, tr
<1>2. b.sess = se /\ b.ident = id /\ b.trust = tr /\ b \in Account
  BY <1>1 DEF Account
<1>3. Ids(b)
  BY <1>1, <1>2 DEF Ids
<1>4. Resessioned(a, b, d)
  BY <1>1, <1>2, <1>3 DEF Resessioned
<1> QED BY <1>0, <1>1, <1>2, <1>4

LEMMA JudgedKeeps ==
  ASSUME NEW a \in Account, Ids(a), NEW d \in Devices, NEW v \in Nat
  PROVE  /\ Resessioned(a, Judged(a, d, v), d)
         /\ Judged(a, d, v).sess[d] \in {0, a.sess[d]}
         /\ Judged(a, d, v).ident[d] \in {0, v}
<1>1. CASE a.ident[d] \in {0, v}
  BY <1>1, SameResessioned DEF Judged
<1>2. CASE a.ident[d] \notin {0, v}
  <2> DEFINE t == IF a.trust[d] \in {"VERIFIED", "UNTRUSTED"} THEN "UNDECIDED" ELSE DefaultTrust(a)
  <2>1. t \in Trusts
    BY DefaultTrustType DEF Trusts
  <2> DEFINE j == Judged(a, d, v)
  <2>2. j = WithSession(a, d, 0, v, t)
    BY <1>2 DEF Judged, Account, WithSession
  <2> HIDE DEF t, j
  <2>3. Resessioned(a, j, d) /\ j.sess[d] = 0 /\ j.ident[d] = v
    BY <2>1, <2>2, 0 \in Nat, 0 \in {0, v}, OneResessioned
  <2> QED BY <2>3 DEF j
<1> QED BY <1>1, <1>2

LEMMA NewSessionKeeps ==
  ASSUME NEW a \in Account, Ids(a), NEW d \in Devices, NEW v \in Nat
  PROVE  Resessioned(a, NewSession(a, d, v), d) /\ NewSession(a, d, v).sess[d] = v
<1> DEFINE t == IF a.ident[d] = 0 THEN DefaultTrust(a) ELSE a.trust[d]
<1>1. t \in Trusts
  BY DefaultTrustType DEF Account
<1> DEFINE n == NewSession(a, d, v)
<1>2. n = WithSession(a, d, v, v, t)
  BY DEF NewSession, Account, WithSession
<1> HIDE DEF t, n
<1>3. Resessioned(a, n, d) /\ n.sess[d] = v
  BY <1>1, <1>2, v \in {0, v}, OneResessioned
<1> QED BY <1>3 DEF n

LEMMA EstablishKeeps ==
  ASSUME NEW a \in Account, Ids(a), NEW d \in Devices
  PROVE  Resessioned(a, Establish(a, d), d)
<1> DEFINE v == a.bundle[d]
           j == Judged(a, d, v)
<1>1. v \in Nat
  BY DEF Account
<1> HIDE DEF v
<1>2. Resessioned(a, j, d)
  BY <1>1, JudgedKeeps
<1> HIDE DEF j
<1>3. Resessioned(j, NewSession(j, d, v), d)
  <2>1. j \in Account /\ Ids(j)
    BY <1>2 DEF Resessioned
  <2> QED BY <1>1, <2>1, NewSessionKeeps
<1>4. Establish(a, d) \in {a, j, NewSession(j, d, v)}
  BY DEF Establish, v, j
<1> QED BY <1>2, <1>3, <1>4, SameResessioned, ResessionedTwice

\* New sessions disturb nothing, where nothing is lost.
LEMMA ResessionedKeeps ==
  ASSUME NEW a, NEW b, NEW w, NEW but, NEW d, Kept(a, w, but), Resessioned(a, b, d)
  PROVE  /\ Kept(b, w, but \union {d})
         /\ (a.sess[d] = 0 \/ b.sess[d] # 0) /\ d \in Devices => Kept(b, w, but)
<1>0. a \in Account /\ b \in Account
  BY DEF Kept, Resessioned
<1>1. /\ b.up = a.up /\ b.archive = a.archive /\ b.out = a.out /\ b.catchup = a.catchup
      /\ b.seen = a.seen /\ b.missing = a.missing /\ b.fetch = a.fetch /\ b.kt = a.kt
      /\ b.live = a.live /\ b.postponed = a.postponed
  <2> DEFINE x == [a EXCEPT !.sess = b.sess, !.ident = b.ident, !.trust = b.trust]
  <2>1. /\ x.up = a.up /\ x.archive = a.archive /\ x.out = a.out /\ x.catchup = a.catchup
        /\ x.seen = a.seen /\ x.missing = a.missing /\ x.fetch = a.fetch /\ x.kt = a.kt
        /\ x.live = a.live /\ x.postponed = a.postponed
    BY <1>0 DEF Account
  <2>2. b = x
    BY DEF Resessioned
  <2> HIDE DEF x
  <2> QED BY <2>1, <2>2
<1>2. \A e \in Devices \ {d} : b.sess[e] = a.sess[e]
  BY DEF Resessioned
<1>3. a.up => Guards(b, w)
  BY <1>1 DEF Kept, Guards, Fetching
<1>4. a.seen.owed \subseteq Devices
  BY <1>0 DEF Account, Sets
<1>5. a.up => Owing(b, w, but \union {d})
  BY <1>1, <1>2, <1>4 DEF Kept, Owing, Fetching
<1>6. a.up /\ (a.sess[d] = 0 \/ b.sess[d] # 0) /\ d \in Devices => Owing(b, w, but)
  BY <1>1, <1>2, <1>4 DEF Kept, Owing, Fetching
<1>7. Kept(b, w, but \union {d})
  BY <1>0, <1>1, <1>3, <1>5 DEF Kept, Resessioned
<1>8. (a.sess[d] = 0 \/ b.sess[d] # 0) /\ d \in Devices => Kept(b, w, but)
  BY <1>0, <1>1, <1>3, <1>6 DEF Kept, Resessioned
<1> QED BY <1>7, <1>8

-----------------------------------------------------------------------------
(* What is changed without a request.                                      *)

SameAsked(a, b) ==
  /\ b.up = a.up /\ b.archive = a.archive /\ b.catchup = a.catchup /\ b.out = a.out
  /\ b.fetch = a.fetch /\ b.missing = a.missing
  /\ b.seen.refused = a.seen.refused /\ b.seen.absent = a.seen.absent

\* A device is scheduled, waits for its bundle, or was owed as much before.
Justified(a, b, but, d) ==
  \/ d \in b.live \union b.postponed /\ b.sess[d] # 0
  \/ d \in b.kt /\ d \in b.fetch
  \/ /\ d \in a.seen.owed \ but /\ (d \in a.kt => d \in b.kt)
     /\ d \in a.live \union a.postponed /\ a.sess[d] # 0
          => d \in b.live \union b.postponed /\ b.sess[d] # 0

LEMMA UnaskedKeeps ==
  ASSUME NEW a, NEW b \in Account, NEW w, NEW but, NEW less, Kept(a, w, but), SameAsked(a, b),
         Ids(b), b.postponed # {} => b.catchup,
         \A d \in b.seen.owed \ less : Justified(a, b, but, d)
  PROVE  Kept(b, w, less)
<1>1. \A d : Fetching(a, w, d) => Fetching(b, w, d)
  BY DEF SameAsked, Fetching
<1>2. a.up => Guards(b, w)
  BY <1>1 DEF Kept, SameAsked, Guards
<1>3. ASSUME a.up PROVE Owing(b, w, less)
  <2>1. ASSUME NEW d \in b.seen.owed \ less
        PROVE  \/ d \in b.live \union b.postponed /\ b.sess[d] # 0
               \/ d \in b.kt /\ (Fetching(b, w, d) \/ d \in b.seen.refused)
    <3>1. CASE d \in b.kt /\ d \in b.fetch
      BY <1>2, <1>3, <3>1 DEF Guards
    <3>2. CASE /\ d \in a.seen.owed \ but /\ (d \in a.kt => d \in b.kt)
               /\ d \in a.live \union a.postponed /\ a.sess[d] # 0
                    => d \in b.live \union b.postponed /\ b.sess[d] # 0
      BY <1>1, <1>3, <3>2 DEF Kept, Owing, SameAsked
    <3> QED BY <2>1, <3>1, <3>2 DEF Justified
  <2> QED BY <2>1 DEF Owing
<1> QED BY <1>2, <1>3 DEF Kept, SameAsked

WithOwed(a, o) == [a EXCEPT !.seen.owed = o]

LEMMA WithOwedIs ==
  ASSUME NEW a \in Account, NEW o \in SUBSET a.seen.owed
  PROVE  LET b == WithOwed(a, o) IN
         /\ b \in Account /\ SameAsked(a, b) /\ b.seen.owed = o /\ b.sess = a.sess
         /\ b.ident = a.ident /\ b.trust = a.trust /\ b.live = a.live /\ b.kt = a.kt
         /\ b.postponed = a.postponed /\ b.traffic = a.traffic /\ b.list = a.list
         /\ b.failed = a.failed /\ b.attempted = a.attempted /\ b.chat = a.chat
         /\ b.bundle = a.bundle /\ b.room = a.room
<1>1. o \in Sets
  BY DEF Account, Sets
<1>2. WithOwed(a, o) \in Account
  <2> DEFINE se == [a.seen EXCEPT !.owed = o]
  <2>1. se \in [absent : BOOLEAN, refused : Sets, owed : Sets, unread : BOOLEAN, stale : BOOLEAN]
    BY <1>1 DEF Account
  <2> HIDE DEF se
  <2>2. [a EXCEPT !.seen = se] \in Account
    BY <2>1 DEF Account
  <2>3. WithOwed(a, o) = [a EXCEPT !.seen = se]
    BY DEF WithOwed, se
  <2> QED BY <2>2, <2>3
<1> QED BY <1>2 DEF Account, WithOwed, SameAsked

\* Nothing is lost by owing less, if what the handler was busy with is scheduled again.
LEMMA LessOwed ==
  ASSUME NEW a, NEW w, NEW but, Kept(a, w, but), NEW o \in SUBSET a.seen.owed, NEW less,
         \A d \in o \ less : d \notin but \/ (d \in a.live \union a.postponed /\ a.sess[d] # 0)
  PROVE  Kept(WithOwed(a, o), w, less)
<1> DEFINE b == WithOwed(a, o)
<1>0. a \in Account
  BY DEF Kept
<1>1. /\ b \in Account /\ SameAsked(a, b) /\ b.seen.owed = o /\ b.sess = a.sess
      /\ b.ident = a.ident /\ b.live = a.live /\ b.kt = a.kt /\ b.postponed = a.postponed
  BY <1>0, WithOwedIs
<1> HIDE DEF b
<1>2. Ids(b) /\ (b.postponed # {} => b.catchup)
  BY <1>1 DEF Kept, Ids, SameAsked
<1>3. \A d \in b.seen.owed \ less : Justified(a, b, but, d)
  BY <1>1 DEF Justified
<1>4. Kept(b, w, less)
  BY <1>1, <1>2, <1>3, UnaskedKeeps
<1> QED BY <1>4 DEF b

LEMMA GivenUpIs ==
  ASSUME NEW a \in Account, NEW d
  PROVE  \E o \in SUBSET a.seen.owed :
           /\ GivenUp(a, d) = WithOwed(a, o)
           /\ a.seen.owed \ {d} \subseteq o
           /\ d \in o => a.sess[d] # 0 /\ d \in a.live \union a.postponed
<1>1. CASE a.sess[d] # 0 /\ d \in a.live \union a.postponed
  <2>1. WithOwed(a, a.seen.owed) = a
    BY DEF WithOwed, Account
  <2> QED BY <1>1, <2>1 DEF GivenUp
<1>2. CASE ~(a.sess[d] # 0 /\ d \in a.live \union a.postponed)
  <2>1. GivenUp(a, d) = WithOwed(a, a.seen.owed \ {d})
    BY <1>2 DEF GivenUp, WithOwed
  <2> QED BY <2>1
<1> QED BY <1>1, <1>2

LEMMA GivenUpKeeps ==
  ASSUME NEW a, NEW w, NEW d, NEW but, Kept(a, w, but), but \subseteq {d}
  PROVE  Kept(GivenUp(a, d), w, {})
<1>0. a \in Account
  BY DEF Kept
<1>1. PICK o \in SUBSET a.seen.owed :
        /\ GivenUp(a, d) = WithOwed(a, o)
        /\ d \in o => a.sess[d] # 0 /\ d \in a.live \union a.postponed
  BY <1>0, GivenUpIs
<1>2. \A e \in o \ {} : e \notin but \/ (e \in a.live \union a.postponed /\ a.sess[e] # 0)
  BY <1>1
<1> QED BY <1>1, <1>2, LessOwed

LEMMA SendKeyTransportIs ==
  ASSUME NEW a \in Account, NEW d
  PROVE  \E o \in SUBSET a.seen.owed :
           SendKeyTransport(a, d) = WithOwed(a, o) /\ (a.sess[d] # 0 => d \notin o)
<1> DEFINE asked == IF ~a.chat /\ a.room.member THEN a.list ELSE {d}
           to == {x \in asked : CanEncrypt(a, x) /\ a.sess[x] # 0}
           never == IF CanEncrypt(a, d) /\ d \notin a.failed THEN {} ELSE {d}
<1>1. SendKeyTransport(a, d) = WithOwed(a, a.seen.owed \ (to \union never))
  BY DEF SendKeyTransport, WithOwed
<1>2. a.sess[d] # 0 => d \in to \union never
  BY DEF CanEncrypt
<1> QED BY <1>1, <1>2

LEMMA SendKeyTransportKeeps ==
  ASSUME NEW a, NEW w, NEW d, NEW but, Kept(a, w, but),
         but \subseteq {d}, but # {} /\ d \in a.seen.owed => a.sess[d] # 0
  PROVE  Kept(SendKeyTransport(a, d), w, {})
<1>0. a \in Account
  BY DEF Kept
<1>1. PICK o \in SUBSET a.seen.owed :
        SendKeyTransport(a, d) = WithOwed(a, o) /\ (a.sess[d] # 0 => d \notin o)
  BY <1>0, SendKeyTransportIs
<1>2. \A e \in o \ {} : e \notin but
  BY <1>1
<1> QED BY <1>1, <1>2, LessOwed

LEMMA SendKeyTransportsAre ==
  ASSUME NEW a \in Account, NEW ds
  PROVE  \E o \in SUBSET a.seen.owed :
           SendKeyTransports(a, ds) = WithOwed(a, o) /\ (\A d \in ds : a.sess[d] # 0 => d \notin o)
<1> DEFINE o == {x \in a.seen.owed : \A d \in ds : x \in SendKeyTransport(a, d).seen.owed}
<1>1. SendKeyTransports(a, ds) = WithOwed(a, o)
  BY DEF SendKeyTransports, WithOwed
<1>2. ASSUME NEW d \in ds, a.sess[d] # 0 PROVE d \notin o
  <2>1. PICK r \in SUBSET a.seen.owed : SendKeyTransport(a, d) = WithOwed(a, r) /\ d \notin r
    BY <1>2, SendKeyTransportIs
  <2>2. SendKeyTransport(a, d).seen.owed = r
    BY <2>1, WithOwedIs
  <2> QED BY <2>1, <2>2
<1> HIDE DEF o
<1>3. o \in SUBSET a.seen.owed
  BY DEF o
<1> QED BY <1>1, <1>2, <1>3

\* Nothing of it is touched.
SameDuties(a, b) ==
  /\ SameAsked(a, b) /\ b.seen.owed = a.seen.owed /\ b.sess = a.sess /\ b.ident = a.ident
  /\ b.live = a.live /\ b.kt = a.kt /\ b.postponed = a.postponed

LEMMA RestKeeps ==
  ASSUME NEW a, NEW b \in Account, NEW w, NEW but, Kept(a, w, but), SameDuties(a, b)
  PROVE  Kept(b, w, but)
<1>1. Ids(b) /\ (b.postponed # {} => b.catchup)
  BY DEF Kept, Ids, SameAsked, SameDuties
<1>2. \A d \in b.seen.owed \ but : Justified(a, b, but, d)
  BY DEF Justified, SameDuties
<1> QED BY <1>1, <1>2, UnaskedKeeps DEF SameDuties

-----------------------------------------------------------------------------
(* What is encrypted.                                                      *)

Encoding == [a : Account, to : SUBSET Devices, incomplete : BOOLEAN, ok : BOOLEAN]

\* A session that fails is lost; what is owed to its device is given up.
LEMMA CorruptKeeps ==
  ASSUME NEW a, NEW w, NEW d \in Devices, Kept(a, w, {})
  PROVE  Kept(GivenUp([a EXCEPT !.sess[d] = 0], d), w, {})
<1> DEFINE c == WithSession(a, d, 0, a.ident[d], a.trust[d])
<1>1. a \in Account /\ Ids(a) /\ a.ident[d] \in Nat /\ a.trust[d] \in Trusts
  BY DEF Kept, Account
<1>2. c = [a EXCEPT !.sess[d] = 0]
  <2>1. [a.ident EXCEPT ![d] = a.ident[d]] = a.ident /\ [a.trust EXCEPT ![d] = a.trust[d]] = a.trust
    BY <1>1 DEF Account
  <2> DEFINE id == [a.ident EXCEPT ![d] = a.ident[d]]
             tr == [a.trust EXCEPT ![d] = a.trust[d]]
  <2>2. c = [a EXCEPT !.sess[d] = 0, !.ident = id, !.trust = tr]
    BY DEF WithSession
  <2>3. id = a.ident /\ tr = a.trust
    BY <2>1
  <2> HIDE DEF id, tr, c
  <2>4. [a EXCEPT !.sess[d] = 0, !.ident = a.ident, !.trust = a.trust] = [a EXCEPT !.sess[d] = 0]
    BY <1>1 DEF Account
  <2> QED BY <2>2, <2>3, <2>4
<1> HIDE DEF c
<1>3. Resessioned(a, c, d)
  BY <1>1, 0 \in Nat, 0 \in {0, a.ident[d]}, OneResessioned DEF c
<1>4. Kept(c, w, {} \union {d})
  BY <1>3, ResessionedKeeps
<1>5. Kept(GivenUp(c, d), w, {})
  BY <1>4, {} \union {d} = {d}, GivenUpKeeps
<1> QED BY <1>2, <1>5

LEMMA EstablishKept ==
  ASSUME NEW a, NEW w, NEW but, NEW d \in Devices, Kept(a, w, but), a.sess[d] = 0
  PROVE  Kept(Establish(a, d), w, but)
<1>1. a \in Account /\ Ids(a)
  BY DEF Kept
<1>2. Resessioned(a, Establish(a, d), d)
  BY <1>1, EstablishKeeps
<1> QED BY <1>2, ResessionedKeeps

\* AddKey's ways out.
LEMMA AddKeyKeeps ==
  ASSUME NEW e \in Encoding, NEW w, Kept(e.a, w, {}), NEW d \in Devices, NEW corrupt
  PROVE  AddKey(e, d, corrupt) \in Encoding /\ Kept(AddKey(e, d, corrupt).a, w, {})
<1> DEFINE b == IF e.a.sess[d] # 0 THEN e.a ELSE Establish(e.a, d)
           g == GivenUp([b EXCEPT !.sess[d] = 0], d)
           Again(c) == [e EXCEPT !.a = RequestBundle(c, d), !.incomplete = TRUE]
<1>1. Kept(b, w, {})
  BY EstablishKept
<1> HIDE DEF b
<1>2. Kept(g, w, {})
  BY <1>1, CorruptKeeps
<1> HIDE DEF g
<1>3. ASSUME NEW c, Kept(c, w, {})
      PROVE  Again(c) \in Encoding /\ Kept(Again(c).a, w, {})
  <2>1. Kept(RequestBundle(c, d), w, {})
    BY <1>3, RequestBundleKeeps
  <2> QED BY <2>1 DEF Encoding, Kept
<1> DEFINE Plain == [e EXCEPT !.a = b]
           Added == [e EXCEPT !.a = b, !.to = @ \union {d}]
<1>4. b \in Account
  BY <1>1 DEF Kept
<1>5. Plain \in Encoding /\ Kept(Plain.a, w, {})
  BY <1>1, <1>4 DEF Encoding
<1>6. Added \in Encoding /\ Kept(Added.a, w, {})
  BY <1>1, <1>4 DEF Encoding
<1>7. AddKey(e, d, corrupt) \in {e, Again(b), Again(g), Plain, Added}
  BY DEF AddKey, b, g
<1> HIDE DEF Again, Plain, Added
<1> QED BY <1>1, <1>2, <1>3, <1>5, <1>6, <1>7

LEMMA AddKeysKeep ==
  ASSUME NEW a, NEW w, Kept(a, w, {}), NEW corrupt
  PROVE  AddKeys(a, corrupt) \in Encoding /\ Kept(AddKeys(a, corrupt).a, w, {})
<1> DEFINE ds == a.list
           base == [a |-> a, to |-> {}, incomplete |-> FALSE, ok |-> FALSE]
           Good == {e \in Encoding : Kept(e.a, w, {})}
           pick == [s \in SUBSET ds |-> CHOOSE x \in s : TRUE]
           step == [p \in ds \X Good |-> AddKey(p[2], p[1], corrupt)]
<1>0. IsFiniteSet(ds) /\ ds \subseteq Devices
  <2>1. ds \subseteq Devices
    BY DEF Kept, Account, Sets
  <2> QED BY <2>1, OmemoConstants, FS_Subset
<1>1. Picks(pick, ds)
  BY DEF Picks
<1>2. base \in Good
  BY DEF Kept, Encoding
<1>3. ASSUME NEW e \in Good, NEW d \in ds PROVE AddKey(e, d, corrupt) \in Good
  BY <1>0, AddKeyKeeps
<1> HIDE DEF Good, base
<1>4. step \in [ds \X Good -> Good]
  BY <1>3
<1>5. PICK f \in [SUBSET ds -> Good] : Recurs(f, ds, base, step, pick)
  <2> HIDE DEF pick, step
  <2> QED BY <1>0, <1>1, <1>2, <1>4, FoldExists
<1> DEFINE Is(it) == it = [s \in SUBSET ds |-> IF s = {} THEN base
                     ELSE AddKey(it[s \ {CHOOSE x \in s : TRUE}], CHOOSE x \in s : TRUE, corrupt)]
           iter == CHOOSE it : Is(it)
<1>6. Is(f)
  BY <1>1, <1>5 DEF Picks, Recurs
<1>7. Is(iter)
  <2> HIDE DEF Is
  <2> QED BY <1>6
<1> HIDE DEF iter
<1> DEFINE T == {s \in SUBSET ds : iter[s] \in Good}
<1>8. ASSUME NEW s \in SUBSET ds, \A x \in s : s \ {x} \in T
      PROVE  s \in T
  <2>1. CASE s = {}
    BY <1>2, <1>7, <2>1
  <2>2. CASE s # {}
    <3> DEFINE x == pick[s]
    <3>1. x \in s /\ x \in ds /\ s \ {x} \in T
      BY <1>1, <1>8, <2>2 DEF Picks
    <3>2. iter[s] = AddKey(iter[s \ {x}], x, corrupt)
      BY <1>7, <2>2
    <3> HIDE DEF x, Is
    <3> QED BY <1>3, <3>1, <3>2
  <2> QED BY <2>1, <2>2
<1>9. SUBSET ds \subseteq T
  <2>1. Inductive(T, ds)
    <3> HIDE DEF T
    <3> QED BY <1>8 DEF Inductive
  <2> HIDE DEF T
  <2> QED BY <1>0, <2>1, SetInduction
<1>10. AddKeys(a, corrupt) = iter[ds]
  BY DEF AddKeys, FoldSet, MapThenFoldSet, iter, Is, base
<1> QED BY <1>9, <1>10 DEF Good

LEMMA TrafficKeeps ==
  ASSUME NEW a, NEW w, NEW but, Kept(a, w, but), NEW t \in BOOLEAN
  PROVE  Kept([a EXCEPT !.traffic = t], w, but)
<1>1. [a EXCEPT !.traffic = t] \in Account /\ SameDuties(a, [a EXCEPT !.traffic = t])
  BY DEF Kept, Account, SameAsked, SameDuties
<1> QED BY <1>1, RestKeeps

LEMMA EncodedList ==
  ASSUME NEW e \in Encoding, NEW w, Kept(e.a, w, {})
  PROVE  LET x == [e EXCEPT !.a = RequestList(@)] IN x \in Encoding /\ Kept(x.a, w, {})
<1>1. Kept(RequestList(e.a), w, {})
  BY RequestListKeeps
<1> QED BY <1>1 DEF Encoding, Kept

LEMMA EncodeKeeps ==
  ASSUME NEW a, NEW w, Kept(a, w, {}), NEW corrupt
  PROVE  Encode(a, corrupt) \in Encoding /\ Kept(Encode(a, corrupt).a, w, {})
<1> DEFINE t == [a EXCEPT !.traffic = TRUE]
           e == AddKeys(t, corrupt)
           listed == [e EXCEPT !.a = RequestList(@)]
           done == [e EXCEPT !.ok = e.to # {} \/ OwnBundle]
<1>1. Kept(t, w, {})
  BY TrafficKeeps
<1> HIDE DEF t
<1>2. e \in Encoding /\ Kept(e.a, w, {})
  BY <1>1, AddKeysKeep
<1>3. Encode(a, corrupt) \in {listed, done}
  BY DEF Encode, t
<1> HIDE DEF e
<1>4. listed \in Encoding /\ Kept(listed.a, w, {})
  BY <1>2, EncodedList
<1>5. done \in Encoding /\ Kept(done.a, w, {})
  BY <1>2, OmemoConstants DEF Encoding
<1> QED BY <1>3, <1>4, <1>5

LEMMA EncodeMucKeeps ==
  ASSUME NEW a, NEW w, Kept(a, w, {})
  PROVE  EncodeMuc(a) \in Encoding /\ Kept(EncodeMuc(a).a, w, {})
<1> DEFINE t == [a EXCEPT !.traffic = TRUE]
           e == AddKeys(t, {})
           listed == [e EXCEPT !.a = RequestList(@)]
           done == [e EXCEPT !.ok = ~e.incomplete /\ (e.to # {} \/ OwnBundle)]
<1>1. Kept(t, w, {})
  BY TrafficKeeps
<1> HIDE DEF t
<1>2. e \in Encoding /\ Kept(e.a, w, {})
  BY <1>1, AddKeysKeep
<1>3. EncodeMuc(a) \in {listed, done}
  BY DEF EncodeMuc, t
<1> HIDE DEF e
<1>4. listed \in Encoding /\ Kept(listed.a, w, {})
  BY <1>2, EncodedList
<1>5. done \in Encoding /\ Kept(done.a, w, {})
  BY <1>2, OmemoConstants DEF Encoding
<1> QED BY <1>3, <1>4, <1>5

LEMMA DeliverKeeps ==
  ASSUME NEW e \in Encoding, NEW w, Kept(e.a, w, {})
  PROVE  Kept(Deliver(e), w, {})
<1> DEFINE a == e.a
           b == Deliver(e)
<1>1. /\ b \in Account /\ SameAsked(a, b) /\ b.seen.owed = a.seen.owed \ e.to /\ b.sess = a.sess
      /\ b.ident = a.ident /\ b.live = a.live /\ b.kt = a.kt /\ b.postponed = a.postponed
  <2> DEFINE un == a.seen.unread \/ e.to = {}
             ow == a.seen.owed \ e.to
             se == [a.seen EXCEPT !.unread = un, !.owed = ow]
             c == [a EXCEPT !.seen = se]
  <2>1. a \in Account
    BY DEF Encoding
  <2>2. un \in BOOLEAN /\ ow \in Sets
    BY <2>1 DEF Account, Sets
  <2>3. b = c
    BY DEF Deliver, Encoding
  <2> HIDE DEF un, ow, a, b
  <2>4. /\ se \in [absent : BOOLEAN, refused : Sets, owed : Sets, unread : BOOLEAN, stale : BOOLEAN]
        /\ se.owed = ow /\ se.refused = a.seen.refused /\ se.absent = a.seen.absent
    BY <2>1, <2>2 DEF Account
  <2> HIDE DEF se
  <2>5. /\ c \in Account /\ SameAsked(a, c) /\ c.seen.owed = ow /\ c.sess = a.sess
        /\ c.ident = a.ident /\ c.live = a.live /\ c.kt = a.kt /\ c.postponed = a.postponed
    BY <2>1, <2>4 DEF Account, SameAsked
  <2> QED BY <2>3, <2>5 DEF ow
<1> HIDE DEF a, b
<1>2. Kept(a, w, {})
  BY DEF a
<1>3. Ids(b) /\ (b.postponed # {} => b.catchup)
  BY <1>1, <1>2 DEF Kept, Ids, SameAsked
<1>4. \A d \in b.seen.owed \ {} : Justified(a, b, {}, d)
  BY <1>1 DEF Justified
<1>5. Kept(b, w, {})
  BY <1>1, <1>2, <1>3, <1>4, UnaskedKeeps
<1> QED BY <1>5 DEF b

LEMMA QueueKeeps ==
  ASSUME NEW a, NEW w, NEW but, Kept(a, w, but), NEW n \in Nat
  PROVE  Kept([a EXCEPT !.queue = n], w, but)
<1>1. [a EXCEPT !.queue = n] \in Account /\ SameDuties(a, [a EXCEPT !.queue = n])
  BY DEF Kept, Account, SameAsked, SameDuties
<1> QED BY <1>1, RestKeeps

LEMMA FlushKeeps ==
  ASSUME NEW a, NEW w, Kept(a, w, {})
  PROVE  Kept(Flush(a), w, {})
<1> DEFINE e == Encode(a, {})
<1>1. e \in Encoding /\ Kept(e.a, w, {})
  BY EncodeKeeps
<1>2. Flush(a) \in {a, [Deliver(e) EXCEPT !.queue = 0], e.a}
  BY DEF Flush
<1> HIDE DEF e
<1>3. Kept(Deliver(e), w, {})
  BY <1>1, DeliverKeeps
<1>4. Kept([Deliver(e) EXCEPT !.queue = 0], w, {})
  BY <1>3, 0 \in Nat, QueueKeeps
<1> QED BY <1>1, <1>2, <1>4

-----------------------------------------------------------------------------
(* What arrives.  q is the stream, a stanza is taken from it.              *)

LEMMA StanzaFields ==
  ASSUME NEW x \in Stanzas
  PROVE  /\ x.what \in {"list", "nolist", "listerror", "bundle", "bundleerror", "msg"}
         /\ x.what = "list" => x.devices \in SUBSET Devices
         /\ x.what = "bundle" => x.d \in Devices /\ x.v \in Nat
         /\ x.what = "bundleerror" => x.d \in Devices /\ x.echoed = EchoesErrors
         /\ x.what = "msg" => /\ x.d \in Devices /\ x.kind \in Kinds /\ x.v \in Nat \ {0}
                              /\ x.archived \in BOOLEAN
BY DEF Stanzas

LEMMA StillFetching ==
  ASSUME NEW a, NEW q \in Seq(Stanzas), q # <<>>, NEW d, Fetching(a, q, d),
         ~(Head(q).what \in {"bundle", "bundleerror"} /\ Head(q).d = d)
  PROVE  Fetching(a, Tail(q), d)
<1>1. Range(q) = {Head(q)} \union Range(Tail(q))
  BY Taken
<1> QED BY <1>1 DEF Fetching

LEMMA ListAnswered ==
  ASSUME NEW a, NEW q \in Seq(Stanzas), q # <<>>, Kept(a, q, {}),
         Head(q).what \in {"list", "nolist", "listerror", "msg"},
         NEW b \in Account, b.up = a.up, b.archive = a.archive, b.catchup = a.catchup,
         b.out = a.out, b.fetch = a.fetch, b.seen.refused = a.seen.refused,
         b.seen.owed = a.seen.owed, b.sess = a.sess, b.ident = a.ident, b.live = a.live,
         b.kt = a.kt, b.postponed = a.postponed,
         b.missing => \/ b.seen.absent
                      \/ Head(q).what = "msg" /\ a.missing /\ b.seen.absent = a.seen.absent
  PROVE  Kept(b, Tail(q), {})
<1>1. Range(q) = {Head(q)} \union Range(Tail(q))
  BY Taken
<1>2. \A d : Fetching(a, q, d) => Fetching(a, Tail(q), d)
  BY StillFetching
<1>3. \A d : Fetching(a, Tail(q), d) => Fetching(b, Tail(q), d)
  BY DEF Fetching
<1>4. a.up => Guards(b, Tail(q))
  BY <1>1, <1>2, <1>3 DEF Kept, Guards
<1>5. a.up => Owing(b, Tail(q), {})
  BY <1>2, <1>3 DEF Kept, Owing
<1> QED BY <1>4, <1>5 DEF Kept, Ids

LEMMA HandleListKeeps ==
  ASSUME NEW a, NEW q \in Seq(Stanzas), q # <<>>, Kept(a, q, {}), Head(q).what = "list",
         NEW ds \in SUBSET Devices
  PROVE  Kept(HandleList(a, ds), Tail(q), {})
<1> DEFINE b == [a EXCEPT !.missing = FALSE, !.list = ds, !.seen.absent = FALSE]
           c == IF Eligible(b) THEN RequestBundles(b, Sessionless(b)) ELSE b
<1>1. b \in Account /\ ~b.missing
  BY DEF Kept, Account, Sets
<1>2. Kept(b, Tail(q), {})
  <2>1. /\ b.up = a.up /\ b.archive = a.archive /\ b.catchup = a.catchup
        /\ b.out = a.out /\ b.fetch = a.fetch /\ b.seen.refused = a.seen.refused
        /\ b.seen.owed = a.seen.owed /\ b.sess = a.sess /\ b.ident = a.ident /\ b.live = a.live
        /\ b.kt = a.kt /\ b.postponed = a.postponed
    BY DEF Kept, Account
  <2> HIDE DEF b
  <2> QED BY <1>1, <2>1, ListAnswered
<1> HIDE DEF b
<1>3. Sessionless(b) \in SUBSET Devices
  BY <1>1, SessionlessType
<1>4. Kept(c, Tail(q), {})
  BY <1>2, <1>3, RequestBundlesKeep
<1> HIDE DEF c
<1>5. Kept(Flush(c), Tail(q), {})
  BY <1>4, FlushKeeps
<1>6. HandleList(a, ds) \in {c, Flush(c)}
  BY DEF HandleList, b, c
<1> QED BY <1>4, <1>5, <1>6

LEMMA NoListKeeps ==
  ASSUME NEW a, NEW q \in Seq(Stanzas), q # <<>>, Kept(a, q, {}), Head(q).what = "nolist"
  PROVE  Kept(NoList(a), Tail(q), {})
<1> DEFINE b == NoList(a)
<1>1. /\ b \in Account /\ b.seen.absent
      /\ b.up = a.up /\ b.archive = a.archive /\ b.catchup = a.catchup
      /\ b.out = a.out /\ b.fetch = a.fetch /\ b.seen.refused = a.seen.refused
      /\ b.seen.owed = a.seen.owed /\ b.sess = a.sess /\ b.ident = a.ident /\ b.live = a.live
      /\ b.kt = a.kt /\ b.postponed = a.postponed
  BY DEF Kept, Account, NoList
<1> HIDE DEF b
<1>2. Kept(b, Tail(q), {})
  BY <1>1, ListAnswered
<1> QED BY <1>2 DEF b

LEMMA ListErrorKeeps ==
  ASSUME NEW a, NEW q \in Seq(Stanzas), q # <<>>, Kept(a, q, {}), Head(q).what = "listerror"
  PROVE  Kept(ListError(a), Tail(q), {})
<1> DEFINE b == ListError(a)
<1>1. /\ b \in Account /\ ~b.missing
      /\ b.up = a.up /\ b.archive = a.archive /\ b.catchup = a.catchup
      /\ b.out = a.out /\ b.fetch = a.fetch /\ b.seen.refused = a.seen.refused
      /\ b.seen.owed = a.seen.owed /\ b.sess = a.sess /\ b.ident = a.ident /\ b.live = a.live
      /\ b.kt = a.kt /\ b.postponed = a.postponed
  BY DEF Kept, Account, ListError
<1> HIDE DEF b
<1>2. Kept(b, Tail(q), {})
  BY <1>1, ListAnswered
<1> QED BY <1>2 DEF b

Scheduled(a, d) == d \in a.live \union a.postponed /\ a.sess[d] # 0

LEMMA KeptBut ==
  ASSUME NEW a, NEW w, NEW but, Kept(a, w, {})
  PROVE  Kept(a, w, but)
BY DEF Kept, Owing

\* The session of a bundle: what is owed to the device is sent, scheduled or given up.
LEMMA BundleSessionKeeps ==
  ASSUME NEW a, NEW w, NEW d \in Devices, NEW v \in Nat, Kept(a, w, {d}),
         d \in a.seen.owed => d \in a.kt \/ Scheduled(a, d)
  PROVE  LET r == BundleSession(a, d, v)
         IN  Kept(r, w, {d}) /\ (d \in r.seen.owed => Scheduled(r, d))
<1> DEFINE b == [a EXCEPT !.bundle[d] = v, !.failed = @ \ {d}]
           c == IF a.sess[d] = 0 THEN Establish(b, d) ELSE b
           x == [c EXCEPT !.failed = @ \union {d}]
           f == IF c.sess[d] = 0 THEN GivenUp(x, d) ELSE c
           fresh == a.sess[d] = 0 /\ f.sess[d] # 0
           passive == ~a.chat /\ a.room.member
           p == [f EXCEPT !.postponed = @ \union {d}]
           k == SendKeyTransport(f, d)
           r == BundleSession(a, d, v)
<1>1. Kept(b, w, {d}) /\ b.seen = a.seen /\ b.kt = a.kt /\ b.live = a.live
      /\ b.postponed = a.postponed /\ b.sess = a.sess /\ b.catchup = a.catchup
  <2>1. /\ b \in Account /\ SameDuties(a, b) /\ b.seen = a.seen
    BY DEF Kept, Account, SameDuties, SameAsked, Sets
  <2> HIDE DEF b
  <2> QED BY <2>1, RestKeeps DEF SameDuties, SameAsked
<1>2. r = f \/ (r = p /\ a.catchup) \/ r = k
  BY DEF BundleSession
<1>2b. d \in a.kt => ((r = p /\ a.catchup) \/ r = k)
  BY DEF BundleSession
<1> HIDE DEF b, r
<1>3. Kept(c, w, {d}) /\ c.seen = a.seen /\ c.kt = a.kt /\ c.live = a.live
      /\ c.postponed = a.postponed /\ c.catchup = a.catchup /\ (a.sess[d] # 0 => c = b)
  <2>1. CASE a.sess[d] # 0
    BY <1>1, <2>1
  <2>2. CASE a.sess[d] = 0
    <3>1. b \in Account /\ Ids(b) /\ b.sess[d] = 0
      BY <1>1, <2>2 DEF Kept
    <3>2. Kept(Establish(b, d), w, {d}) /\ Resessioned(b, Establish(b, d), d)
      BY <1>1, <3>1, EstablishKept, EstablishKeeps
    <3> DEFINE e == Establish(b, d)
               y == [b EXCEPT !.sess = e.sess, !.ident = e.ident, !.trust = e.trust]
    <3>3. c = e
      BY <2>2
    <3> HIDE DEF e, c
    <3>4. y.seen = b.seen /\ y.kt = b.kt /\ y.live = b.live /\ y.postponed = b.postponed
          /\ y.catchup = b.catchup
      BY <3>1 DEF Account
    <3>5. e = y
      BY <3>2 DEF Resessioned, e
    <3> HIDE DEF y
    <3> QED BY <1>1, <2>2, <3>2, <3>3, <3>4, <3>5 DEF e
  <2> QED BY <2>1, <2>2
<1> HIDE DEF c
<1>4. c \in Account
  BY <1>3 DEF Kept
<1>5. Kept(x, w, {d}) /\ x \in Account /\ x.sess = c.sess /\ x.catchup = c.catchup
  <2>1. x \in Account /\ SameDuties(c, x)
    BY <1>4 DEF Account, SameDuties, SameAsked, Sets
  <2> HIDE DEF x
  <2> QED BY <1>3, <2>1, RestKeeps DEF SameDuties, SameAsked
<1>6. CASE c.sess[d] = 0
  <2>1. PICK o \in SUBSET x.seen.owed :
          /\ GivenUp(x, d) = WithOwed(x, o)
          /\ d \in o => x.sess[d] # 0 /\ d \in x.live \union x.postponed
    <3> HIDE DEF x
    <3> QED BY <1>5, GivenUpIs
  <2>2. Kept(GivenUp(x, d), w, {}) /\ f = GivenUp(x, d)
    <3> HIDE DEF x
    <3> QED BY <1>5, <1>6, GivenUpKeeps
  <2> HIDE DEF x, f
  <2>3. f \in Account /\ d \notin f.seen.owed /\ f.catchup = a.catchup
    BY <1>3, <1>5, <1>6, <2>1, <2>2, WithOwedIs DEF SameAsked
  <2>4. CASE r = f
    BY <2>2, <2>3, <2>4, KeptBut DEF r
  <2>5. CASE r = p /\ a.catchup
    <3>1. Kept(p, w, {}) /\ d \notin p.seen.owed
      <4>1. /\ p \in Account /\ SameAsked(f, p) /\ p.seen = f.seen /\ p.sess = f.sess
            /\ p.ident = f.ident /\ p.live = f.live /\ p.kt = f.kt
            /\ p.postponed = f.postponed \union {d}
        BY <2>3 DEF Account, SameAsked, Sets
      <4> HIDE DEF p
      <4>2. Ids(p) /\ p.catchup /\ \A e \in p.seen.owed \ {} : Justified(f, p, {}, e)
        BY <2>2, <2>3, <2>5, <4>1 DEF Kept, Ids, Justified, SameAsked
      <4> QED BY <2>2, <2>3, <4>1, <4>2, UnaskedKeeps
    <3> HIDE DEF p
    <3> QED BY <2>5, <3>1, KeptBut DEF r
  <2>6. CASE r = k
    <3>1. Kept(k, w, {})
      BY <2>2, SendKeyTransportKeeps
    <3>2. d \notin k.seen.owed
      <4>1. PICK u \in SUBSET f.seen.owed : k = WithOwed(f, u)
        BY <2>3, SendKeyTransportIs
      <4> QED BY <2>3, <4>1, WithOwedIs
    <3> QED BY <2>6, <3>1, <3>2, KeptBut DEF r
  <2> QED BY <1>2, <2>4, <2>5, <2>6 DEF r
<1>7. CASE c.sess[d] # 0
  <2>1. f = c
    BY <1>7
  <2> HIDE DEF f
  <2>2. CASE r = f /\ d \notin a.kt
    <3>1. d \in r.seen.owed => Scheduled(a, d)
      BY <1>3, <2>1, <2>2
    <3>2. d \in r.seen.owed => Scheduled(r, d)
      BY <1>3, <1>7, <2>1, <2>2, <3>1 DEF Scheduled
    <3> QED BY <1>3, <2>1, <2>2, <3>2 DEF r
  <2>3. CASE r = p /\ a.catchup
    <3>1. /\ p \in Account /\ SameAsked(f, p) /\ p.seen = f.seen /\ p.sess = f.sess
          /\ p.ident = f.ident /\ p.live = f.live /\ p.kt = f.kt
          /\ p.postponed = f.postponed \union {d}
      BY <1>4, <2>1 DEF Account, SameAsked, Sets
    <3> HIDE DEF p
    <3>2. Ids(p) /\ p.catchup /\ (\A e \in p.seen.owed \ {d} : Justified(f, p, {d}, e))
      BY <1>3, <2>1, <2>3, <3>1 DEF Kept, Ids, Justified, SameAsked
    <3>3. Kept(p, w, {d})
      BY <1>3, <2>1, <3>1, <3>2, UnaskedKeeps
    <3>4. Scheduled(p, d)
      BY <1>7, <2>1, <3>1 DEF Scheduled
    <3> QED BY <2>3, <3>3, <3>4 DEF r
  <2>4. CASE r = k
    <3>1. Kept(f, w, {d}) /\ f.sess[d] # 0
      BY <1>3, <1>7, <2>1
    <3>2. Kept(k, w, {})
      BY <3>1, SendKeyTransportKeeps
    <3>3. d \notin k.seen.owed
      <4>1. PICK u \in SUBSET f.seen.owed : k = WithOwed(f, u) /\ d \notin u
        BY <1>4, <2>1, <3>1, SendKeyTransportIs
      <4> QED BY <1>4, <2>1, <4>1, WithOwedIs
    <3> QED BY <2>4, <3>2, <3>3, KeptBut DEF r
  <2> QED BY <1>2, <1>2b, <2>2, <2>3, <2>4
<1> QED BY <1>6, <1>7

LEMMA HandleBundleKeeps ==
  ASSUME NEW a, NEW q \in Seq(Stanzas), q # <<>>, Kept(a, q, {}), a.up,
         NEW d \in Devices, NEW v \in Nat, Head(q).what = "bundle", Head(q).d = d
  PROVE  Kept(HandleBundle(a, d, v), Tail(q), {})
<1> DEFINE w == Tail(q)
           refused == IF v = 0 THEN a.seen.refused \union {d} ELSE a.seen.refused \ {d}
           b == [a EXCEPT !.attempted = @ \union {d}, !.fetch = @ \ {d}, !.seen.refused = refused]
           s == IF v # 0 THEN BundleSession(b, d, v) ELSE IF d \in a.kt THEN GivenUp(b, d) ELSE b
           wait == IF Eligible(a) THEN s.room.wait \ {d} ELSE s.room.wait
           c == [s EXCEPT !.kt = @ \ {d}, !.room.wait = wait]
<1>0. a \in Account /\ refused \in Sets
  BY DEF Kept, Account, Sets
<1>1. HandleBundle(a, d, v) \in {c, Flush(c)}
  BY DEF HandleBundle
<1>2. Range(q) = {Head(q)} \union Range(w)
  BY Taken
<1>3. \A e : e # d /\ Fetching(a, q, e) => Fetching(a, w, e)
  BY StillFetching
<1> HIDE DEF w
<1>4. /\ b \in Account /\ b.up = a.up /\ b.archive = a.archive /\ b.catchup = a.catchup
      /\ b.out = a.out /\ b.fetch = a.fetch \ {d} /\ b.seen.refused = refused
      /\ b.seen.owed = a.seen.owed /\ b.sess = a.sess /\ b.ident = a.ident /\ b.live = a.live
      /\ b.kt = a.kt /\ b.postponed = a.postponed /\ b.missing = a.missing
      /\ b.seen.absent = a.seen.absent
  <2> HIDE DEF refused
  <2> QED BY <1>0 DEF Account, Sets
<1>5. \A e : e # d => (e \in refused <=> e \in a.seen.refused)
  OBVIOUS
<1> HIDE DEF b, refused
<1>6. \A e : Fetching(a, w, e) => Fetching(b, w, e)
  BY <1>4 DEF Fetching
<1>7. Guards(b, w)
  <2>1. \A e \in b.fetch : Fetching(b, w, e) \/ (~EchoesErrors /\ e \in b.seen.refused)
    BY <1>3, <1>4, <1>5, <1>6 DEF Kept, Guards
  <2>2. b.missing => \/ b.seen.absent \/ ListRequest \in Range(b.out)
                     \/ \E x \in Range(w) : x.what \in {"list", "nolist", "listerror"}
    BY <1>2, <1>4 DEF Kept, Guards
  <2> QED BY <2>1, <2>2 DEF Guards
<1>8. Owing(b, w, {d})
  BY <1>3, <1>4, <1>5, <1>6 DEF Kept, Owing
<1>9. Kept(b, w, {d})
  BY <1>4, <1>7, <1>8 DEF Kept, Ids
<1>10. d \in b.seen.owed => d \in b.kt \/ Scheduled(b, d)
  BY <1>4 DEF Kept, Owing, Scheduled
<1>11. Kept(s, w, {d}) /\ (d \in s.seen.owed => Scheduled(s, d))
  <2>1. CASE v # 0
    BY <1>9, <1>10, <2>1, BundleSessionKeeps
  <2>2. CASE v = 0 /\ d \in a.kt
    <3>1. PICK o \in SUBSET b.seen.owed :
            /\ GivenUp(b, d) = WithOwed(b, o)
            /\ d \in o => b.sess[d] # 0 /\ d \in b.live \union b.postponed
      BY <1>4, GivenUpIs
    <3>2. s = WithOwed(b, o)
      BY <2>2, <3>1
    <3>3. Kept(GivenUp(b, d), w, {})
      BY <1>9, GivenUpKeeps
    <3> HIDE DEF s
    <3>4. d \in s.seen.owed => Scheduled(s, d)
      BY <1>4, <3>1, <3>2, WithOwedIs DEF Scheduled
    <3> QED BY <3>1, <3>2, <3>3, <3>4, KeptBut
  <2>3. CASE v = 0 /\ d \notin a.kt
    BY <1>4, <1>9, <1>10, <2>3
  <2> QED BY <2>1, <2>2, <2>3
<1>12. s \in Account
  BY <1>11 DEF Kept
<1> HIDE DEF s
<1>13. wait \in Sets
  BY <1>12 DEF Account, Sets
<1> HIDE DEF wait
<1>14. /\ c \in Account /\ SameAsked(s, c) /\ c.seen = s.seen /\ c.sess = s.sess
       /\ c.ident = s.ident /\ c.live = s.live /\ c.kt = s.kt \ {d} /\ c.postponed = s.postponed
  BY <1>12, <1>13 DEF Account, SameAsked, Sets
<1> HIDE DEF c
<1>15. Ids(c) /\ (c.postponed # {} => c.catchup)
  BY <1>11, <1>14 DEF Kept, Ids, SameAsked
<1>16. \A e \in c.seen.owed \ {} : Justified(s, c, {d}, e)
  BY <1>11, <1>14 DEF Justified, Scheduled
<1>17. Kept(c, w, {})
  BY <1>11, <1>14, <1>15, <1>16, UnaskedKeeps
<1>18. Kept(Flush(c), w, {})
  BY <1>17, FlushKeeps
<1> QED BY <1>1, <1>17, <1>18 DEF w

LEMMA BundleErrorKeeps ==
  ASSUME NEW a, NEW q \in Seq(Stanzas), q # <<>>, Kept(a, q, {}),
         NEW d \in Devices, Head(q).what = "bundleerror", Head(q).d = d
  PROVE  Kept(BundleError(a, d, EchoesErrors), Tail(q), {})
<1> DEFINE w == Tail(q)
           b == [a EXCEPT !.seen.refused = @ \union {d}]
           wait == IF Eligible(a) THEN b.room.wait \ {d} ELSE b.room.wait
           c == [b EXCEPT !.fetch = @ \ {d}, !.room.wait = wait]
           r == BundleError(a, d, EchoesErrors)
<1>1. r = IF EchoesErrors THEN c ELSE b
  BY DEF BundleError
<1>2. Range(q) = {Head(q)} \union Range(w)
  BY Taken
<1>3. \A e : e # d /\ Fetching(a, q, e) => Fetching(a, w, e)
  BY StillFetching
<1>4. EchoesErrors \in BOOLEAN
  BY OmemoConstants
<1>5. /\ r \in Account /\ r.up = a.up /\ r.archive = a.archive /\ r.catchup = a.catchup
      /\ r.out = a.out /\ r.fetch = (IF EchoesErrors THEN a.fetch \ {d} ELSE a.fetch)
      /\ r.seen.refused = a.seen.refused \union {d}
      /\ r.seen.owed = a.seen.owed /\ r.sess = a.sess /\ r.ident = a.ident /\ r.live = a.live
      /\ r.kt = a.kt /\ r.postponed = a.postponed /\ r.missing = a.missing
      /\ r.seen.absent = a.seen.absent
  <2>1. /\ b \in Account /\ b.up = a.up /\ b.archive = a.archive /\ b.catchup = a.catchup
        /\ b.out = a.out /\ b.fetch = a.fetch
        /\ b.seen.refused = a.seen.refused \union {d}
        /\ b.seen.owed = a.seen.owed /\ b.sess = a.sess /\ b.ident = a.ident /\ b.live = a.live
        /\ b.kt = a.kt /\ b.postponed = a.postponed /\ b.missing = a.missing
        /\ b.seen.absent = a.seen.absent
    BY DEF Kept, Account, Sets
  <2> HIDE DEF b
  <2>2. wait \in Sets
    BY <2>1 DEF Account, Sets
  <2> HIDE DEF wait
  <2>3. /\ c \in Account /\ c.up = b.up /\ c.archive = b.archive /\ c.catchup = b.catchup
        /\ c.out = b.out /\ c.fetch = b.fetch \ {d} /\ c.seen = b.seen
        /\ c.sess = b.sess /\ c.ident = b.ident /\ c.live = b.live
        /\ c.kt = b.kt /\ c.postponed = b.postponed /\ c.missing = b.missing
    BY <2>1, <2>2 DEF Account, Sets
  <2> HIDE DEF c, r
  <2> QED BY <1>1, <1>4, <2>1, <2>3
<1> HIDE DEF r, w
<1>6. \A e : Fetching(a, w, e) => Fetching(r, w, e)
  BY <1>5 DEF Fetching
<1>7. a.up => Guards(r, w)
  <2>1. ASSUME a.up, NEW e \in r.fetch
        PROVE  Fetching(r, w, e) \/ (~EchoesErrors /\ e \in r.seen.refused)
    BY <1>3, <1>4, <1>5, <1>6, <2>1 DEF Kept, Guards
  <2>2. ASSUME a.up, r.missing
        PROVE  \/ r.seen.absent \/ ListRequest \in Range(r.out)
               \/ \E x \in Range(w) : x.what \in {"list", "nolist", "listerror"}
    BY <1>2, <1>5, <2>2 DEF Kept, Guards
  <2> QED BY <2>1, <2>2 DEF Guards
<1>8. a.up => Owing(r, w, {})
  BY <1>3, <1>5, <1>6 DEF Kept, Owing
<1> QED BY <1>5, <1>7, <1>8 DEF Kept, Ids, r, w

-----------------------------------------------------------------------------
(* Messages.                                                               *)

Message(x) == x.d \in Devices /\ x.v \in Nat \ {0} /\ x.kind \in Kinds /\ x.archived \in BOOLEAN

\* A key that is not the stored one ends what was owed for the session with it.
LEMMA DecryptedKeeps ==
  ASSUME NEW a, NEW w, Kept(a, w, {}), NEW x, Message(x)
  PROVE  LET r == Decrypted(a, x)
         IN  /\ Kept(r.a, w, {}) /\ r.a.traffic = a.traffic
             /\ r.ok => r.a.sess[x.d] # 0
<1> DEFINE d == x.d
           judged == Judged(a, d, x.v)
           j == IF judged = a THEN a ELSE [judged EXCEPT !.seen.owed = @ \ {d}]
           n == NewSession(j, d, x.v)
<1>0. a \in Account /\ Ids(a) /\ d \in Devices /\ x.v \in Nat \ {0} /\ x.v \in Nat
  BY DEF Kept, Message
<1> HIDE DEF d
<1>1. Kept(j, w, {}) /\ j.traffic = a.traffic
  <2>1. Resessioned(a, judged, d)
    BY <1>0, JudgedKeeps
  <2>2. Kept(judged, w, {} \union {d}) /\ judged \in Account
    BY <2>1, ResessionedKeeps DEF Resessioned
  <2>3. judged.traffic = a.traffic
    <3> DEFINE y == [a EXCEPT !.sess = judged.sess, !.ident = judged.ident, !.trust = judged.trust]
    <3>1. y.traffic = a.traffic
      BY <1>0 DEF Account
    <3>2. judged = y
      BY <2>1 DEF Resessioned
    <3> HIDE DEF y, judged
    <3> QED BY <3>1, <3>2
  <2>4. CASE judged = a
    BY <2>4
  <2>5. CASE judged # a
    <3> DEFINE o == judged.seen.owed \ {d}
    <3>1. j = WithOwed(judged, o)
      BY <2>5 DEF WithOwed
    <3> HIDE DEF judged, j
    <3>2. Kept(WithOwed(judged, o), w, {})
      BY <2>2, LessOwed
    <3>3. WithOwed(judged, o).traffic = judged.traffic
      BY <2>2, WithOwedIs
    <3> QED BY <2>3, <3>1, <3>2, <3>3
  <2> QED BY <2>4, <2>5
<1> HIDE DEF j
<1>2. j \in Account /\ Ids(j)
  BY <1>1 DEF Kept
<1>3. Resessioned(j, n, d) /\ n.sess[d] = x.v
  BY <1>0, <1>2, NewSessionKeeps
<1>4. Kept(n, w, {}) /\ n.sess[d] # 0
  <2> HIDE DEF n
  <2>1. n.sess[d] # 0
    BY <1>0, <1>3
  <2> QED BY <1>0, <1>1, <1>3, <2>1, ResessionedKeeps
<1>5. n.traffic = a.traffic
  <2> DEFINE y == [j EXCEPT !.sess = n.sess, !.ident = n.ident, !.trust = n.trust]
  <2>1. y.traffic = j.traffic
    BY <1>2 DEF Account
  <2>2. n = y
    BY <1>3 DEF Resessioned
  <2> HIDE DEF y, n
  <2> QED BY <1>1, <2>1, <2>2
<1> DEFINE r == Decrypted(a, x)
<1>6. \/ r.a = n
      \/ r.a = j /\ ~r.ok
      \/ r.a = a /\ (r.ok => a.sess[d] = x.v)
  BY DEF Decrypted, Message, Kinds, d, j
<1> HIDE DEF n, r
<1>7. Kept(r.a, w, {}) /\ r.a.traffic = a.traffic /\ (r.ok => r.a.sess[d] # 0)
  BY <1>0, <1>1, <1>4, <1>5, <1>6
<1> QED BY <1>7 DEF d, r

\* What is recovered live waits for its bundle.
LEMMA AwaitKeeps ==
  ASSUME NEW a, NEW w, NEW d \in Devices, Kept(a, w, {d}), a.traffic
  PROVE  Kept(RequestBundle(Await(a, d), d), w, {})
<1> DEFINE b == Await(a, d)
           c == RequestBundle(b, d)
<1>1. /\ b \in Account /\ SameAsked(a, b) /\ b.seen.owed = a.seen.owed \union {d}
      /\ b.sess = a.sess /\ b.ident = a.ident /\ b.live = a.live /\ b.kt = a.kt \union {d}
      /\ b.postponed = a.postponed /\ b.traffic = a.traffic
  BY DEF Kept, Account, Await, SameAsked, Sets
<1> HIDE DEF b
<1>2. Ids(b) /\ (b.postponed # {} => b.catchup)
  BY <1>1 DEF Kept, Ids, SameAsked
<1>3. \A e \in b.seen.owed \ {d} : Justified(a, b, {d}, e)
  BY <1>1 DEF Justified
<1>4. Kept(b, w, {d})
  BY <1>1, <1>2, <1>3, UnaskedKeeps
<1>5. Kept(c, w, {d}) /\ Alike(b, c) /\ d \in c.fetch
  BY <1>1, <1>4, RequestBundleKeeps
<1> HIDE DEF c
<1>6. c \in Account /\ Ids(c) /\ SameAsked(c, c) /\ (c.postponed # {} => c.catchup) /\ d \in c.kt
  BY <1>1, <1>5 DEF Kept, SameAsked, Alike
<1>7. \A e \in c.seen.owed \ {} : Justified(c, c, {d}, e)
  BY <1>5, <1>6 DEF Justified
<1>8. Kept(c, w, {})
  BY <1>5, <1>6, <1>7, UnaskedKeeps
<1> QED BY <1>8 DEF b, c

LEMMA NoKeyKeeps ==
  ASSUME NEW a, NEW w, Kept(a, w, {}), NEW x, Message(x), x.archived \/ a.traffic
  PROVE  Kept(NoKey(a, x), w, {})
<1>1. CASE x.archived \/ x.d \in a.attempted \union a.kt
  BY <1>1 DEF NoKey
<1>2. CASE ~(x.archived \/ x.d \in a.attempted \union a.kt)
  <2>1. Kept(RequestBundle(Await(a, x.d), x.d), w, {})
    BY <1>2, KeptBut, AwaitKeeps DEF Message
  <2> QED BY <1>2, <2>1 DEF NoKey
<1> QED BY <1>1, <1>2

LEMMA UndecryptableKeeps ==
  ASSUME NEW a, NEW w, Kept(a, w, {}), NEW x, Message(x), x.archived \/ a.traffic
  PROVE  Kept(Undecryptable(a, x), w, {})
<1> DEFINE d == x.d
           b == [a EXCEPT !.kt = @ \union {d}]
           c == [a EXCEPT !.attempted = @ \union {d}, !.sess[d] = 0]
<1>0. a \in Account /\ d \in Devices
  BY DEF Kept, Message
<1>1. Undecryptable(a, x) = a \/ Undecryptable(a, x) = b
      \/ (a.traffic /\ Undecryptable(a, x) = RequestBundle(Await(c, d), d))
  BY DEF Undecryptable
<1> HIDE DEF d
<1>2. Kept(b, w, {})
  <2>1. /\ b \in Account /\ SameAsked(a, b) /\ b.seen = a.seen /\ b.sess = a.sess
        /\ b.ident = a.ident /\ b.live = a.live /\ b.kt = a.kt \union {d}
        /\ b.postponed = a.postponed
    BY <1>0 DEF Account, SameAsked, Sets
  <2> HIDE DEF b
  <2>2. Ids(b) /\ (b.postponed # {} => b.catchup)
    BY <2>1 DEF Kept, Ids, SameAsked
  <2>3. \A e \in b.seen.owed \ {} : Justified(a, b, {}, e)
    BY <2>1 DEF Justified
  <2> QED BY <2>1, <2>2, <2>3, UnaskedKeeps
<1>3. Kept(c, w, {d}) /\ c.traffic = a.traffic
  <2> DEFINE se == [a.sess EXCEPT ![d] = 0]
  <2>1. se \in [Devices -> Nat] /\ \A e \in Devices : se[e] = IF e = d THEN 0 ELSE a.sess[e]
    BY <1>0 DEF Account
  <2> DEFINE y == [a EXCEPT !.attempted = @ \union {d}, !.sess = se]
  <2>2. c = y
    BY <1>0 DEF Account
  <2> HIDE DEF se, c
  <2>3. /\ y \in Account /\ SameAsked(a, y) /\ y.seen = a.seen /\ y.sess = se
        /\ y.ident = a.ident /\ y.live = a.live /\ y.kt = a.kt /\ y.postponed = a.postponed
        /\ y.traffic = a.traffic
    BY <1>0, <2>1 DEF Account, SameAsked, Sets
  <2> HIDE DEF y
  <2>4. Ids(y) /\ (y.postponed # {} => y.catchup)
    BY <2>1, <2>3 DEF Kept, Ids, SameAsked
  <2>5. \A e \in y.seen.owed \ {d} : Justified(a, y, {}, e)
    BY <1>0, <2>1, <2>3 DEF Justified, Account, Sets
  <2>6. Kept(y, w, {d})
    BY <2>3, <2>4, <2>5, UnaskedKeeps
  <2> QED BY <2>2, <2>3, <2>6
<1> HIDE DEF b, c
<1>4. a.traffic => Kept(RequestBundle(Await(c, d), d), w, {})
  BY <1>0, <1>3, AwaitKeeps
<1> QED BY <1>1, <1>2, <1>4

LEMMA PublishKeeps ==
  ASSUME NEW p, NEW w, Kept(p, w, {})
  PROVE  LET s == Send(p, Publication)
         IN  Kept(s, w, {}) /\ s.sess = p.sess /\ s.catchup = p.catchup
<1> DEFINE s == Send(p, Publication)
           y == [p EXCEPT !.out = s.out]
<1>1. p \in Account /\ Publication \in Requests
  BY DEF Kept, Requests
<1>2. s \in Account /\ s = [p EXCEPT !.out = s.out] /\ Range(p.out) \subseteq Range(s.out)
  BY <1>1, SendKeeps
<1>3. /\ y.up = p.up /\ y.archive = p.archive /\ y.catchup = p.catchup
      /\ y.fetch = p.fetch /\ y.missing = p.missing /\ y.seen = p.seen /\ y.sess = p.sess
      /\ y.ident = p.ident /\ y.live = p.live /\ y.kt = p.kt /\ y.postponed = p.postponed
  BY <1>1 DEF Account
<1>4. s = y
  BY <1>2
<1> HIDE DEF y, s
<1>5. \A e : Fetching(p, w, e) => Fetching(s, w, e)
  BY <1>2 DEF Fetching
<1>6. s.up => Guards(s, w)
  BY <1>2, <1>3, <1>4, <1>5 DEF Kept, Guards
<1>7. s.up => Owing(s, w, {})
  BY <1>3, <1>4, <1>5 DEF Kept, Owing
<1>8. Kept(s, w, {})
  BY <1>2, <1>3, <1>4, <1>6, <1>7 DEF Kept, Ids
<1> QED BY <1>3, <1>4, <1>8 DEF s

\* An answer is scheduled beside the session it is for.
LEMMA UnderstoodKeeps ==
  ASSUME NEW a, NEW w, Kept(a, w, {}), NEW x, Message(x), a.sess[x.d] # 0
  PROVE  Kept(Understood(a, x), w, {})
<1> DEFINE d == x.d
           exchanged == x.kind \in {"exchange", "transport"}
           n == [a EXCEPT !.republish = TRUE, !.seen.stale = TRUE]
           p == [a EXCEPT !.seen.stale = TRUE]
           s == Send(p, Publication)
           b == IF ~exchanged THEN a ELSE IF a.catchup THEN n ELSE s
           c == IF x.kind = "exchange" THEN [b EXCEPT !.beaten = @ \ {d}] ELSE b
           beat == x.kind = "long" /\ ~a.catchup /\ d \notin a.beaten
           reply == x.kind = "exchange" /\ d \notin a.replied
           later == IF reply /\ a.catchup THEN {d} ELSE {}
           soon == IF beat \/ (reply /\ ~a.catchup) THEN {d} ELSE {}
           beaten == IF beat THEN c.beaten \union {d} ELSE c.beaten
           replied == IF reply THEN c.replied \union {d} ELSE c.replied
           owed == c.seen.owed \union later \union soon
           r == [c EXCEPT !.beaten = beaten, !.replied = replied,
                          !.postponed = @ \union later, !.live = @ \union soon,
                          !.seen.owed = owed]
<1>0. a \in Account /\ d \in Devices
  BY DEF Kept, Message
<1>1. Understood(a, x) = r
  BY DEF Understood, Publication
<1>2. later \subseteq {d} /\ soon \subseteq {d} /\ (later # {} => a.catchup)
  OBVIOUS
<1>3. Kept(p, w, {}) /\ p \in Account /\ p.up = a.up /\ p.catchup = a.catchup /\ p.sess = a.sess
  <2>1. p \in Account /\ SameDuties(a, p)
    BY <1>0 DEF Account, SameDuties, SameAsked
  <2> HIDE DEF p
  <2> QED BY <2>1, RestKeeps DEF SameDuties, SameAsked
<1>4. Kept(n, w, {}) /\ n.sess = a.sess /\ n.catchup = a.catchup
  <2>1. n \in Account /\ SameDuties(a, n)
    BY <1>0 DEF Account, SameDuties, SameAsked
  <2> HIDE DEF n
  <2> QED BY <2>1, RestKeeps DEF SameDuties, SameAsked
<1> HIDE DEF p, n
<1>5. Kept(s, w, {}) /\ s.sess = a.sess /\ s.catchup = a.catchup
  BY <1>3, PublishKeeps
<1> HIDE DEF s, d
<1>6. Kept(b, w, {}) /\ b.sess = a.sess /\ b.catchup = a.catchup
  BY <1>4, <1>5
<1> HIDE DEF b
<1>7. Kept(c, w, {}) /\ c \in Account /\ c.sess = a.sess /\ c.catchup = a.catchup
  <2> DEFINE y == [b EXCEPT !.beaten = @ \ {d}]
  <2>1. b \in Account
    BY <1>6 DEF Kept
  <2>2. y \in Account /\ SameDuties(b, y)
    BY <2>1 DEF Account, SameDuties, SameAsked, Sets
  <2>3. c \in {b, y}
    OBVIOUS
  <2> HIDE DEF y, c
  <2> QED BY <1>6, <2>1, <2>2, <2>3, RestKeeps DEF SameDuties, SameAsked
<1> HIDE DEF c
<1>8. beaten \in Sets /\ replied \in Sets /\ later \in Sets /\ soon \in Sets
  BY <1>0, <1>7 DEF Account, Sets
<1> HIDE DEF beaten, replied, later, soon
<1>9. owed \in Sets
  BY <1>7, <1>8 DEF Account, Sets
<1>10. /\ r \in Account /\ SameAsked(c, r) /\ r.seen.owed = owed /\ r.sess = c.sess
       /\ r.ident = c.ident /\ r.live = c.live \union soon /\ r.kt = c.kt
       /\ r.postponed = c.postponed \union later
  <2> DEFINE po == c.postponed \union later
             li == c.live \union soon
             se == [c.seen EXCEPT !.owed = owed]
             y == [c EXCEPT !.beaten = beaten, !.replied = replied, !.postponed = po,
                            !.live = li, !.seen = se]
  <2>1. po \in Sets /\ li \in Sets
    BY <1>7, <1>8 DEF Account, Sets
  <2> HIDE DEF owed
  <2>2. /\ se \in [absent : BOOLEAN, refused : Sets, owed : Sets, unread : BOOLEAN, stale : BOOLEAN]
        /\ se.owed = owed /\ se.refused = c.seen.refused /\ se.absent = c.seen.absent
    BY <1>7, <1>9 DEF Account
  <2>3. r = y
    BY <1>7 DEF Account
  <2> HIDE DEF po, li, se, r
  <2>4. /\ y \in Account /\ SameAsked(c, y) /\ y.seen.owed = owed /\ y.sess = c.sess
        /\ y.ident = c.ident /\ y.live = li /\ y.kt = c.kt /\ y.postponed = po
    BY <1>7, <1>8, <2>1, <2>2 DEF Account, SameAsked
  <2> QED BY <2>3, <2>4 DEF po, li
<1> HIDE DEF r
<1>11. Ids(r) /\ (r.postponed # {} => r.catchup)
  BY <1>2, <1>7, <1>10 DEF Kept, Ids, SameAsked
<1>12. r.sess[d] # 0
  BY <1>7, <1>10 DEF d
<1>13. \A e \in r.seen.owed \ {} : Justified(c, r, {}, e)
  BY <1>2, <1>7, <1>10, <1>12 DEF Justified
<1>14. Kept(r, w, {})
  BY <1>7, <1>10, <1>11, <1>13, UnaskedKeeps
<1> QED BY <1>1, <1>14

LEMMA DecodeKeeps ==
  ASSUME NEW a, NEW w, Kept(a, w, {}), NEW x, Message(x)
  PROVE  Kept(Decode(a, x), w, {})
<1> DEFINE traffic == a.traffic \/ ~x.archived
           here == [a EXCEPT !.chat = TRUE, !.traffic = traffic]
           b == RequestList(here)
           asked == IF b.sess[x.d] = 0 THEN RequestBundle(b, x.d) ELSE b
           known == IF x.archived \/ x.d \in here.list THEN here ELSE asked
           try == Decrypted(known, x)
<1>0. a \in Account /\ x.d \in Devices /\ traffic \in BOOLEAN
  BY DEF Kept, Message, Account
<1>1. Kept(here, w, {}) /\ (x.archived \/ here.traffic)
  <2>1. here \in Account /\ SameDuties(a, here)
    <3> HIDE DEF traffic
    <3> QED BY <1>0 DEF Account, SameDuties, SameAsked
  <2>2. here.traffic = traffic
    BY <1>0 DEF Account
  <2> HIDE DEF here
  <2> QED BY <2>1, <2>2, RestKeeps DEF Message
<1> HIDE DEF traffic, here
<1>2. Kept(b, w, {}) /\ b.traffic = here.traffic
  BY <1>1, RequestListKeeps DEF Alike
<1> HIDE DEF b
<1>3. Kept(asked, w, {}) /\ asked.traffic = here.traffic
  BY <1>0, <1>2, RequestBundleKeeps DEF Alike
<1> HIDE DEF asked
<1>4. Kept(known, w, {}) /\ (x.archived \/ known.traffic)
  BY <1>1, <1>3
<1> HIDE DEF known
<1>5. /\ Kept(try.a, w, {}) /\ try.a.traffic = known.traffic
      /\ try.ok => try.a.sess[x.d] # 0
  BY <1>4, DecryptedKeeps
<1>6. Decode(a, x) = IF x.kind = "none" THEN NoKey(known, x)
                     ELSE IF try.ok THEN Understood(try.a, x) ELSE Undecryptable(try.a, x)
  BY DEF Decode, known, asked, b, here, traffic
<1> HIDE DEF try
<1>7. Kept(NoKey(known, x), w, {})
  BY <1>4, NoKeyKeeps
<1>8. try.ok => Kept(Understood(try.a, x), w, {})
  BY <1>5, UnderstoodKeeps
<1>9. Kept(Undecryptable(try.a, x), w, {})
  BY <1>4, <1>5, UndecryptableKeeps
<1> QED BY <1>6, <1>7, <1>8, <1>9

-----------------------------------------------------------------------------
(* The steps.                                                              *)

Sound ==
  /\ peer \in [list : SUBSET Devices, key : [Devices -> Nat \ {0}]]
  /\ s2c \in Seq(Stanzas)
  /\ Kept(acct, s2c, {})

LEMMA EmptyIs ==
  /\ Empty \in Account /\ Ids(Empty) /\ Empty.seen.owed = {} /\ Empty.postponed = {}
  /\ ~Empty.up
<1>1. {} \in Sets /\ 0 \in Nat /\ "none" \in Trusts /\ <<>> \in Seq(Requests)
  BY DEF Sets, Trusts
<1>2. /\ [d \in Devices |-> 0] \in [Devices -> Nat]
      /\ [d \in Devices |-> "none"] \in [Devices -> Trusts]
  BY <1>1
<1>3. /\ [on |-> FALSE, member |-> FALSE, wait |-> {}] \in
            [on : BOOLEAN, member : BOOLEAN, wait : Sets]
      /\ [absent |-> FALSE, refused |-> {}, owed |-> {}, unread |-> FALSE, stale |-> FALSE] \in
            [absent : BOOLEAN, refused : Sets, owed : Sets, unread : BOOLEAN, stale : BOOLEAN]
  BY <1>1
<1>4. Empty \in Account
  BY <1>1, <1>2, <1>3 DEF Empty, Account
<1> QED BY <1>4 DEF Empty, Ids

LEMMA InitSound ==
  ASSUME Init
  PROVE  Sound
<1>1. peer \in [list : SUBSET Devices, key : [Devices -> Nat \ {0}]]
  BY DEF Init
<1>2. Kept(acct, s2c, {})
  BY EmptyIs DEF Init, Kept
<1> QED BY <1>1, <1>2 DEF Init, Sound

LEMMA SendMessageKeeps ==
  ASSUME Sound, SendMessage
  PROVE  Kept(acct', s2c', {})
<1> DEFINE a == [acct EXCEPT !.chat = TRUE]
<1>1. PICK corrupt : LET e == Encode(a, corrupt) IN
        Command(IF e.ok THEN Deliver(e) ELSE RequestList([e.a EXCEPT !.queue = @ + 1]))
  BY DEF SendMessage
<1> DEFINE e == Encode(a, corrupt)
           n == e.a.queue + 1
           c == [e.a EXCEPT !.queue = n]
<1>2. Kept(a, s2c, {})
  <2>1. a \in Account /\ SameDuties(acct, a)
    BY DEF Sound, Kept, Account, SameDuties, SameAsked
  <2> HIDE DEF a
  <2> QED BY <2>1, RestKeeps DEF Sound
<1>3. acct' = (IF e.ok THEN Deliver(e) ELSE RequestList(c)) /\ s2c' = s2c
  BY <1>1 DEF Command
<1> HIDE DEF a
<1>4. e \in Encoding /\ Kept(e.a, s2c, {})
  BY <1>2, EncodeKeeps
<1> HIDE DEF e
<1>5. n \in Nat
  BY <1>4 DEF Encoding, Account
<1> HIDE DEF n
<1>6. Kept(c, s2c, {})
  BY <1>4, <1>5, QueueKeeps
<1> HIDE DEF c
<1>7. Kept(Deliver(e), s2c, {}) /\ Kept(RequestList(c), s2c, {})
  BY <1>4, <1>6, DeliverKeeps, RequestListKeeps
<1> QED BY <1>3, <1>7

LEMMA SendToRoomKeeps ==
  ASSUME Sound, SendToRoom
  PROVE  Kept(acct', s2c', {})
<1> DEFINE e == EncodeMuc(acct)
<1>1. acct' = (IF e.ok THEN Deliver(e) ELSE e.a) /\ s2c' = s2c
  BY DEF SendToRoom, Command
<1>2. e \in Encoding /\ Kept(e.a, s2c, {})
  BY EncodeMucKeeps DEF Sound
<1> HIDE DEF e
<1>3. Kept(Deliver(e), s2c, {})
  BY <1>2, DeliverKeeps
<1> QED BY <1>1, <1>2, <1>3

Rooms == [on : BOOLEAN, member : BOOLEAN, wait : Sets]

LEMMA MembershipKeeps ==
  ASSUME NEW a, NEW w, Kept(a, w, {}), NEW room \in Rooms
  PROVE  Kept([a EXCEPT !.room = room], w, {})
<1>1. [a EXCEPT !.room = room] \in Account /\ SameDuties(a, [a EXCEPT !.room = room])
  BY DEF Kept, Account, SameDuties, SameAsked, Rooms
<1> QED BY <1>1, RestKeeps

LEMMA RoomKeeps ==
  ASSUME Sound, EnableRoom \/ Enters \/ Leaves
  PROVE  Kept(acct', s2c', {})
<1> DEFINE r == acct.room
           on == [r EXCEPT !.on = TRUE]
           in == [r EXCEPT !.member = TRUE]
           gone == [r EXCEPT !.member = FALSE, !.wait = {}]
           With(room) == [acct EXCEPT !.room = room]
<1>1. ASSUME NEW room \in Rooms
      PROVE  Kept(With(room), s2c, {}) /\ Kept(Bootstrap(With(room)), s2c, {})
  <2> DEFINE b == With(room)
  <2>1. Kept(b, s2c, {})
    BY MembershipKeeps DEF Sound
  <2> HIDE DEF b
  <2>2. Kept(Bootstrap(b), s2c, {})
    BY <2>1, BootstrapKeeps
  <2> QED BY <2>1, <2>2 DEF b
<1>2. /\ [acct EXCEPT !.room.on = TRUE] = With(on)
      /\ [acct EXCEPT !.room.member = TRUE] = With(in)
      /\ [acct EXCEPT !.room.member = FALSE, !.room.wait = {}] = With(gone)
  BY DEF Sound, Kept, Account
<1>3. r \in Rooms
  BY DEF Sound, Kept, Account, Rooms
<1> HIDE DEF r, With
<1>4. on \in Rooms /\ in \in Rooms /\ gone \in Rooms
  BY <1>3 DEF Rooms, Sets
<1> HIDE DEF on, in, gone
<1>5. CASE EnableRoom
  BY <1>1, <1>2, <1>4, <1>5 DEF EnableRoom, Command
<1>6. CASE Enters
  BY <1>1, <1>2, <1>4, <1>6 DEF Enters, Command
<1>7. CASE Leaves
  BY <1>1, <1>2, <1>4, <1>7 DEF Leaves, Command
<1> QED BY <1>5, <1>6, <1>7

LEMMA FetchKeeps ==
  ASSUME Sound, FetchCommand
  PROVE  Kept(acct', s2c', {})
<1> DEFINE b == RequestList(acct)
<1>1. acct' = RequestBundles(b, acct.list) /\ s2c' = s2c
  BY DEF FetchCommand, Command
<1>2. Kept(b, s2c, {}) /\ acct.list \in SUBSET Devices
  BY RequestListKeeps DEF Sound, Kept, Account, Sets
<1> HIDE DEF b
<1>3. Kept(RequestBundles(b, acct.list), s2c, {})
  BY <1>2, RequestBundlesKeep
<1> QED BY <1>1, <1>3

LEMMA ExchangeKeeps ==
  ASSUME NEW a, NEW w, Kept(a, w, {}), NEW d \in Devices
  PROVE  Kept(Exchange(a, d), w, {})
<1> DEFINE b == [a EXCEPT !.failed = @ \ {d}]
           c == IF b.sess[d] = 0 THEN Establish(b, d) ELSE b
           k == [c EXCEPT !.kt = @ \union {d}]
           asked == RequestBundle(k, d)
           owed == asked.seen.owed \union (asked.fetch \intersect {d})
           r == [asked EXCEPT !.seen.owed = owed]
<1>1. Exchange(a, d) \in {SendKeyTransport(c, d), r}
  BY DEF Exchange
<1>2. Kept(b, w, {}) /\ b \in Account
  <2>1. b \in Account /\ SameDuties(a, b)
    BY DEF Kept, Account, SameDuties, SameAsked, Sets
  <2> HIDE DEF b
  <2> QED BY <2>1, RestKeeps
<1> HIDE DEF b
<1>3. Kept(c, w, {}) /\ c \in Account
  BY <1>2, EstablishKept DEF Kept
<1> HIDE DEF c
<1>4. Kept(k, w, {}) /\ d \in k.kt
  <2>1. /\ k \in Account /\ SameAsked(c, k) /\ k.seen = c.seen /\ k.sess = c.sess
        /\ k.ident = c.ident /\ k.live = c.live /\ k.kt = c.kt \union {d}
        /\ k.postponed = c.postponed
    BY <1>3 DEF Account, SameAsked, Sets
  <2> HIDE DEF k
  <2>2. Ids(k) /\ (k.postponed # {} => k.catchup)
    BY <1>3, <2>1 DEF Kept, Ids, SameAsked
  <2>3. \A e \in k.seen.owed \ {} : Justified(c, k, {}, e)
    BY <2>1 DEF Justified
  <2> QED BY <1>3, <2>1, <2>2, <2>3, UnaskedKeeps
<1> HIDE DEF k
<1>5. Kept(asked, w, {}) /\ asked \in Account /\ d \in asked.kt
  <2>1. Kept(asked, w, {}) /\ Alike(k, asked)
    BY <1>4, RequestBundleKeeps
  <2> HIDE DEF asked
  <2> QED BY <1>4, <2>1 DEF Kept, Alike
<1> HIDE DEF asked
<1>6. Kept(r, w, {})
  <2>1. owed \in Sets
    BY <1>5 DEF Account, Sets
  <2>2. owed \subseteq asked.seen.owed \union (asked.fetch \intersect {d})
    OBVIOUS
  <2> HIDE DEF owed
  <2>3. /\ r \in Account /\ SameAsked(asked, r) /\ r.seen.owed = owed /\ r.sess = asked.sess
        /\ r.ident = asked.ident /\ r.live = asked.live /\ r.kt = asked.kt
        /\ r.postponed = asked.postponed
    <3> DEFINE se == [asked.seen EXCEPT !.owed = owed]
               y == [asked EXCEPT !.seen = se]
    <3>1. /\ se \in [absent : BOOLEAN, refused : Sets, owed : Sets, unread : BOOLEAN, stale : BOOLEAN]
          /\ se.owed = owed /\ se.refused = asked.seen.refused /\ se.absent = asked.seen.absent
      BY <1>5, <2>1 DEF Account
    <3>2. r = y
      OBVIOUS
    <3> HIDE DEF se, r
    <3>3. /\ y \in Account /\ SameAsked(asked, y) /\ y.seen.owed = owed /\ y.sess = asked.sess
          /\ y.ident = asked.ident /\ y.live = asked.live /\ y.kt = asked.kt
          /\ y.postponed = asked.postponed
      BY <1>5, <3>1 DEF Account, SameAsked
    <3> QED BY <3>2, <3>3
  <2> HIDE DEF r
  <2>4. Ids(r) /\ (r.postponed # {} => r.catchup)
    BY <1>5, <2>3 DEF Kept, Ids, SameAsked
  <2>5. \A e \in r.seen.owed \ {} : Justified(asked, r, {}, e)
    BY <1>5, <2>2, <2>3 DEF Justified, SameAsked
  <2> QED BY <1>5, <2>3, <2>4, <2>5, UnaskedKeeps
<1>7. Kept(SendKeyTransport(c, d), w, {})
  BY <1>3, SendKeyTransportKeeps
<1> QED BY <1>1, <1>6, <1>7

LEMMA ExchangeCommandKeeps ==
  ASSUME Sound, ExchangeCommand
  PROVE  Kept(acct', s2c', {})
<1>1. CASE acct.list = {} /\ Command(RequestList(acct))
  BY <1>1, RequestListKeeps DEF Command, Sound
<1>2. CASE \E d \in acct.list : Command(Exchange(acct, d))
  <2>1. PICK d \in acct.list : Command(Exchange(acct, d))
    BY <1>2
  <2>2. d \in Devices
    BY DEF Sound, Kept, Account, Sets
  <2>3. Kept(Exchange(acct, d), s2c, {})
    BY <2>2, ExchangeKeeps DEF Sound
  <2> QED BY <2>1, <2>3 DEF Command
<1> QED BY <1>1, <1>2 DEF ExchangeCommand

LEMMA TrustKeeps ==
  ASSUME Sound, Trust \/ Distrust
  PROVE  Kept(acct', s2c', {})
<1>0. acct \in Account
  BY DEF Sound, Kept
<1>1. PICK d \in acct.list, t \in {"VERIFIED", "UNTRUSTED"}, failed \in Sets :
        acct' = [acct EXCEPT !.trust[d] = t, !.failed = failed] /\ s2c' = s2c
  <2>0. acct.failed \in Sets /\ \A d : acct.failed \ {d} \in Sets
    BY <1>0 DEF Account, Sets
  <2>1. CASE Trust
    <3>1. PICK d \in acct.list :
            acct' = [acct EXCEPT !.trust[d] = "VERIFIED", !.failed = @ \ {d}] /\ s2c' = s2c
      BY <2>1 DEF Trust, Command
    <3> QED BY <2>0, <3>1
  <2>2. CASE Distrust
    <3>1. PICK d \in acct.list : acct' = [acct EXCEPT !.trust[d] = "UNTRUSTED"] /\ s2c' = s2c
      BY <2>2 DEF Distrust, Command
    <3>2. [acct EXCEPT !.trust[d] = "UNTRUSTED"] =
            [acct EXCEPT !.trust[d] = "UNTRUSTED", !.failed = acct.failed]
      BY <1>0 DEF Account
    <3> QED BY <2>0, <3>1, <3>2
  <2> QED BY <2>1, <2>2
<1> DEFINE tr == [acct.trust EXCEPT ![d] = t]
           b == [acct EXCEPT !.trust = tr, !.failed = failed]
<1>2. acct' = b
  BY <1>0, <1>1 DEF Account
<1>3. tr \in [Devices -> Trusts] /\ failed \in Sets
  BY <1>0, <1>1 DEF Account, Trusts
<1> HIDE DEF tr
<1>4. b \in Account /\ SameDuties(acct, b)
  BY <1>0, <1>3 DEF Account, SameDuties, SameAsked
<1> HIDE DEF b
<1> QED BY <1>1, <1>2, <1>4, RestKeeps DEF Sound

\* Nothing is asked for, nothing owed, whoever has a session has none now.
LEMMA CleanKeeps ==
  ASSUME NEW a \in Account, NEW w, Ids(a), a.fetch = {}, ~a.missing, a.seen.owed = {},
         a.postponed = {}, a.up /\ a.catchup => a.archive = "asked"
  PROVE  Kept(a, w, {})
BY DEF Kept, Guards, Owing

LEMMA PruneKeeps ==
  ASSUME Sound, Prune
  PROVE  Kept(acct', s2c', {})
<1> DEFINE seen == [acct.seen EXCEPT !.absent = FALSE, !.owed = {}]
           b == [Empty EXCEPT !.up = acct.up, !.sm = acct.sm, !.archive = acct.archive,
                              !.out = acct.out, !.catchup = acct.catchup,
                              !.republish = acct.republish,
                              !.chat = acct.chat, !.queue = acct.queue, !.room = acct.room,
                              !.seen = seen]
<1>0. acct \in Account
  BY DEF Sound, Kept
<1>1. acct' = b /\ s2c' = s2c
  BY DEF Prune, Command
<1>2. /\ seen \in [absent : BOOLEAN, refused : Sets, owed : Sets, unread : BOOLEAN, stale : BOOLEAN]
      /\ seen.owed = {}
  BY <1>0 DEF Account, Sets
<1> HIDE DEF seen
<1>3. b \in Account /\ b.sess = Empty.sess /\ b.ident = Empty.ident /\ b.seen = seen
      /\ b.fetch = Empty.fetch /\ b.missing = Empty.missing /\ b.postponed = Empty.postponed
      /\ b.up = acct.up /\ b.catchup = acct.catchup /\ b.archive = acct.archive
  BY <1>0, <1>2, EmptyIs DEF Account
<1> HIDE DEF b
<1>4. Empty.fetch = {} /\ ~Empty.missing
  BY DEF Empty
<1>5. Ids(b)
  BY <1>3, EmptyIs DEF Ids
<1>6. Kept(b, s2c, {})
  BY <1>2, <1>3, <1>4, <1>5, EmptyIs, CleanKeeps DEF Sound, Kept
<1> QED BY <1>1, <1>6

LEMMA ResetKeeps ==
  ASSUME NEW a \in Account, Ids(a), NEW w
  PROVE  Kept(Reset(a), w, {})
<1>1. {} \in Sets
  BY DEF Sets
<1>2. /\ Reset(a) \in Account /\ Reset(a).sess = a.sess /\ Reset(a).ident = a.ident
      /\ Reset(a).fetch = {} /\ ~Reset(a).missing /\ Reset(a).seen.owed = {}
      /\ Reset(a).postponed = {} /\ ~Reset(a).catchup
  <2> DEFINE seen == [a.seen EXCEPT !.absent = FALSE, !.owed = {}]
             b == [a EXCEPT !.fetch = {}, !.missing = FALSE, !.kt = {}, !.postponed = {},
                            !.live = {}, !.attempted = {}, !.failed = {}, !.traffic = FALSE,
                            !.replied = {}, !.catchup = FALSE, !.republish = FALSE,
                            !.seen = seen]
  <2>1. /\ seen \in [absent : BOOLEAN, refused : Sets, owed : Sets, unread : BOOLEAN,
                     stale : BOOLEAN]
        /\ seen.owed = {}
    BY <1>1 DEF Account
  <2>2. Reset(a) = b
    BY DEF Reset
  <2> HIDE DEF seen
  <2>3. b \in Account /\ b.sess = a.sess /\ b.ident = a.ident /\ b.seen = seen
    BY <1>1, <2>1 DEF Account
  <2>4. b.fetch = {} /\ ~b.missing /\ b.postponed = {} /\ ~b.catchup
    BY DEF Account
  <2> QED BY <2>1, <2>2, <2>3, <2>4
<1>3. Ids(Reset(a))
  BY <1>2 DEF Ids
<1> QED BY <1>2, <1>3, CleanKeeps

LEMMA FreshKeeps ==
  ASSUME Sound, Fresh
  PROVE  Kept(acct', s2c', {})
<1>0. acct \in Account /\ Ids(acct)
  BY DEF Sound, Kept
<1>1. PICK sm \in BOOLEAN :
        acct' = Reset([acct EXCEPT !.up = TRUE, !.sm = sm, !.archive = "idle", !.out = <<>>])
  BY DEF Fresh
<1> DEFINE b == [acct EXCEPT !.up = TRUE, !.sm = sm, !.archive = "idle", !.out = <<>>]
<1>2. b \in Account /\ b.sess = acct.sess /\ b.ident = acct.ident
  <2>1. <<>> \in Seq(Requests)
    OBVIOUS
  <2> HIDE DEF Requests
  <2> QED BY <1>0, <2>1 DEF Account
<1>3. acct' = Reset(b)
  BY <1>1
<1> HIDE DEF b
<1> QED BY <1>0, <1>2, <1>3, ResetKeeps DEF Ids

LEMMA ResumeKeeps ==
  ASSUME Sound, Resume
  PROVE  Kept(acct', s2c', {})
<1> DEFINE b == [acct EXCEPT !.up = TRUE]
<1>1. acct \in Account /\ Ids(acct)
  BY DEF Sound, Kept
<1>2. b \in Account /\ b.sess = acct.sess /\ b.ident = acct.ident
  BY <1>1 DEF Account
<1>3. acct' = Reset(b)
  BY DEF Resume
<1> HIDE DEF b
<1> QED BY <1>1, <1>2, <1>3, ResetKeeps DEF Ids

LEMMA LinkLostKeeps ==
  ASSUME Sound, LinkLost
  PROVE  Kept(acct', s2c', {})
<1> DEFINE out == IF acct.sm THEN acct.out ELSE <<>>
           b == [acct EXCEPT !.up = FALSE, !.out = out]
<1>1. acct \in Account
  BY DEF Sound, Kept
<1>2. acct' = b
  BY DEF LinkLost
<1>3. out \in Seq(Requests)
  <2>1. <<>> \in Seq(Requests) /\ acct.out \in Seq(Requests)
    BY <1>1 DEF Account
  <2> QED BY <2>1
<1> HIDE DEF out
<1>4. /\ b \in Account /\ ~b.up /\ b.sess = acct.sess /\ b.ident = acct.ident
      /\ b.postponed = acct.postponed /\ b.catchup = acct.catchup
  <2> HIDE DEF Requests
  <2> QED BY <1>1, <1>3 DEF Account
<1> HIDE DEF b
<1> QED BY <1>2, <1>4 DEF Sound, Kept, Ids

LEMMA StartCatchupKeeps ==
  ASSUME Sound, StartCatchup
  PROVE  Kept(acct', s2c', {})
<1> DEFINE a == acct
           b == [acct EXCEPT !.archive = "asked", !.catchup = TRUE]
<1>1. acct' = b /\ s2c' = s2c
  BY DEF StartCatchup
<1>2. /\ b \in Account /\ b.up = a.up /\ b.archive = "asked" /\ b.catchup
      /\ b.out = a.out /\ b.fetch = a.fetch /\ b.seen = a.seen
      /\ b.sess = a.sess /\ b.ident = a.ident /\ b.live = a.live
      /\ b.kt = a.kt /\ b.postponed = a.postponed /\ b.missing = a.missing
  BY DEF Sound, Kept, Account
<1> HIDE DEF b
<1>3. \A e : Fetching(a, s2c, e) => Fetching(b, s2c, e)
  BY <1>2 DEF Fetching
<1>4. a.up => Guards(b, s2c) /\ Owing(b, s2c, {})
  BY <1>2, <1>3 DEF Sound, Kept, Guards, Owing
<1> QED BY <1>1, <1>2, <1>4 DEF Sound, Kept, Ids

LEMMA ProcessLiveKeeps ==
  ASSUME Sound, ProcessLive
  PROVE  Kept(acct', s2c', {})
<1> DEFINE b == [acct EXCEPT !.live = {}]
           c == SendKeyTransports(b, acct.live)
<1>0. acct \in Account
  BY DEF Sound, Kept
<1>1. acct' = c /\ s2c' = s2c
  BY DEF ProcessLive
<1>2. /\ b \in Account /\ SameAsked(acct, b) /\ b.seen = acct.seen /\ b.sess = acct.sess
      /\ b.ident = acct.ident /\ b.live = {} /\ b.kt = acct.kt /\ b.postponed = acct.postponed
  BY <1>0 DEF Account, SameAsked, Sets
<1> HIDE DEF b
<1>3. PICK o \in SUBSET b.seen.owed :
        c = WithOwed(b, o) /\ (\A d \in acct.live : b.sess[d] # 0 => d \notin o)
  BY <1>2, SendKeyTransportsAre
<1>4. /\ c \in Account /\ SameAsked(b, c) /\ c.seen.owed = o /\ c.sess = b.sess
      /\ c.ident = b.ident /\ c.live = b.live /\ c.kt = b.kt /\ c.postponed = b.postponed
  BY <1>2, <1>3, WithOwedIs
<1> HIDE DEF c
<1>5. SameAsked(acct, c) /\ Ids(c) /\ (c.postponed # {} => c.catchup)
  BY <1>2, <1>4 DEF Sound, Kept, Ids, SameAsked
<1>6. \A d \in c.seen.owed \ {} : Justified(acct, c, {}, d)
  BY <1>2, <1>3, <1>4 DEF Justified
<1>7. Kept(c, s2c, {})
  BY <1>4, <1>5, <1>6, UnaskedKeeps DEF Sound
<1> QED BY <1>1, <1>7

LEMMA EndCatchupKeeps ==
  ASSUME Sound, EndCatchup
  PROVE  Kept(acct', s2c', {})
<1> DEFINE a == acct
           b == [a EXCEPT !.archive = "done", !.catchup = FALSE]
           k == SendKeyTransports(b, b.postponed)
           c == [k EXCEPT !.postponed = {}]
           d == [c EXCEPT !.republish = FALSE]
<1>0. a \in Account /\ {} \in Sets
  BY DEF Sound, Kept, Sets
<1>1. acct' = Republish(c) /\ s2c' = s2c
  BY DEF EndCatchup
<1>2. /\ b \in Account /\ b.up = a.up /\ b.out = a.out /\ b.fetch = a.fetch
      /\ b.missing = a.missing /\ b.seen = a.seen /\ ~b.catchup /\ b.sess = a.sess
      /\ b.ident = a.ident /\ b.live = a.live /\ b.kt = a.kt /\ b.postponed = a.postponed
  BY <1>0 DEF Account
<1> HIDE DEF b
<1>3. PICK o \in SUBSET b.seen.owed :
        k = WithOwed(b, o) /\ (\A e \in b.postponed : b.sess[e] # 0 => e \notin o)
  BY <1>2, SendKeyTransportsAre
<1>4. /\ k \in Account /\ SameAsked(b, k) /\ k.seen.owed = o /\ k.sess = b.sess
      /\ k.ident = b.ident /\ k.live = b.live /\ k.kt = b.kt /\ k.postponed = b.postponed
  BY <1>2, <1>3, WithOwedIs
<1> HIDE DEF k
<1>5. /\ c \in Account /\ SameAsked(k, c) /\ c.seen = k.seen /\ c.sess = k.sess
      /\ c.ident = k.ident /\ c.live = k.live /\ c.kt = k.kt /\ c.postponed = {}
  BY <1>0, <1>4 DEF Account, SameAsked
<1> HIDE DEF c
<1>6. \A e : Fetching(a, s2c, e) => Fetching(c, s2c, e)
  BY <1>2, <1>4, <1>5 DEF Fetching, SameAsked
<1>7. a.up => Guards(c, s2c)
  BY <1>2, <1>4, <1>5, <1>6 DEF Sound, Kept, Guards, SameAsked
<1>8. a.up => Owing(c, s2c, {})
  BY <1>2, <1>3, <1>4, <1>5, <1>6 DEF Sound, Kept, Owing, SameAsked
<1>9. Kept(c, s2c, {})
  BY <1>2, <1>4, <1>5, <1>7, <1>8 DEF Sound, Kept, Ids, SameAsked
<1>10. Kept(d, s2c, {})
  <2>1. d \in Account /\ SameDuties(c, d)
    BY <1>5 DEF Account, SameDuties, SameAsked
  <2> HIDE DEF d
  <2> QED BY <1>9, <2>1, RestKeeps
<1> HIDE DEF d
<1>11. Kept(Send(d, Publication), s2c, {})
  BY <1>10, PublishKeeps
<1>12. Republish(c) \in {c, Send(d, Publication)}
  BY DEF Republish, Publication, d
<1> QED BY <1>1, <1>9, <1>11, <1>12

LEMMA ReceiveKeeps ==
  ASSUME Sound, Receive
  PROVE  Kept(acct', s2c', {}) /\ s2c' \in Seq(Stanzas)
<1> DEFINE x == Head(s2c)
           q == s2c
<1>0. q \in Seq(Stanzas) /\ q # <<>> /\ Kept(acct, q, {}) /\ acct.up /\ s2c' = Tail(q)
  BY DEF Sound, Receive
<1>1. x \in Stanzas /\ Tail(q) \in Seq(Stanzas)
  BY <1>0, Taken
<1>2. acct' = CASE x.what = "list"        -> HandleList(acct, x.devices)
                [] x.what = "nolist"      -> NoList(acct)
                [] x.what = "listerror"   -> ListError(acct)
                [] x.what = "bundle"      -> HandleBundle(acct, x.d, x.v)
                [] x.what = "bundleerror" -> BundleError(acct, x.d, x.echoed)
                [] x.what = "msg"         -> Decode(acct, x)
  BY DEF Receive
<1> DEFINE y == x
<1>3. Head(q) = y
  OBVIOUS
<1>4. y \in Stanzas
  BY <1>1
<1>5. /\ y.what = "list" => acct' = HandleList(acct, y.devices)
      /\ y.what = "nolist" => acct' = NoList(acct)
      /\ y.what = "listerror" => acct' = ListError(acct)
      /\ y.what = "bundle" => acct' = HandleBundle(acct, y.d, y.v)
      /\ y.what = "bundleerror" => acct' = BundleError(acct, y.d, y.echoed)
      /\ y.what = "msg" => acct' = Decode(acct, y)
  BY <1>2
<1> HIDE DEF q, y
<1>6. CASE y.what = "list"
  <2>1. y.devices \in SUBSET Devices
    BY <1>4, <1>6, StanzaFields
  <2>2. Kept(HandleList(acct, y.devices), Tail(q), {})
    BY <1>0, <1>3, <1>6, <2>1, HandleListKeeps
  <2> QED BY <1>0, <1>1, <1>5, <1>6, <2>2
<1>7. CASE y.what = "nolist"
  BY <1>0, <1>1, <1>3, <1>5, <1>7, NoListKeeps
<1>8. CASE y.what = "listerror"
  BY <1>0, <1>1, <1>3, <1>5, <1>8, ListErrorKeeps
<1>9. CASE y.what = "bundle"
  <2>1. y.d \in Devices /\ y.v \in Nat
    BY <1>4, <1>9, StanzaFields
  <2>2. Kept(HandleBundle(acct, y.d, y.v), Tail(q), {})
    BY <1>0, <1>3, <1>9, <2>1, HandleBundleKeeps
  <2> QED BY <1>0, <1>1, <1>5, <1>9, <2>2
<1>10. CASE y.what = "bundleerror"
  <2>1. y.d \in Devices /\ y.echoed = EchoesErrors
    BY <1>4, <1>10, StanzaFields
  <2>2. Kept(BundleError(acct, y.d, EchoesErrors), Tail(q), {})
    BY <1>0, <1>3, <1>10, <2>1, BundleErrorKeeps
  <2> QED BY <1>0, <1>1, <1>5, <1>10, <2>1, <2>2
<1>11. CASE y.what = "msg"
  <2>1. Message(y)
    BY <1>4, <1>11, StanzaFields DEF Message
  <2>2. Kept(acct, Tail(q), {})
    BY <1>0, <1>3, <1>11, ListAnswered DEF Kept
  <2>3. Kept(Decode(acct, y), Tail(q), {})
    BY <2>1, <2>2, DecodeKeeps
  <2> QED BY <1>0, <1>1, <1>5, <1>11, <2>3
<1> QED BY <1>4, <1>6, <1>7, <1>8, <1>9, <1>10, <1>11, StanzaFields

\* What is still to come may grow.
LEMMA MoreToCome ==
  ASSUME NEW a, NEW w, NEW v, NEW but, Kept(a, w, but), Range(w) \subseteq Range(v)
  PROVE  Kept(a, v, but)
<1>1. \A d : Fetching(a, w, d) => Fetching(a, v, d)
  BY DEF Fetching
<1> QED BY <1>1 DEF Kept, Guards, Owing

LEMMA PushKeeps ==
  ASSUME Sound, NEW x \in Stanzas, Push(x), acct' = acct
  PROVE  Kept(acct', s2c', {}) /\ s2c' \in Seq(Stanzas)
<1>1. CASE Reachable
  <2>1. s2c' = Append(s2c, x)
    BY <1>1 DEF Push
  <2>2. s2c' \in Seq(Stanzas) /\ Range(s2c') = Range(s2c) \union {x}
    <3> HIDE DEF Stanzas
    <3> QED BY <2>1, Appended DEF Sound
  <2> QED BY <2>2, MoreToCome DEF Sound
<1>2. CASE ~Reachable
  BY <1>2 DEF Push, Sound
<1> QED BY <1>1, <1>2

LEMMA ContactSound ==
  ASSUME Sound, Announce \/ Reinstall \/ Write
  PROVE  Sound'
<1>0. peer \in [list : SUBSET Devices, key : [Devices -> Nat \ {0}]]
  BY DEF Sound
<1>1. CASE Announce
  <2>1. PICK ds \in SUBSET Devices : /\ peer' = [peer EXCEPT !.list = ds]
                                     /\ Push([what |-> "list", devices |-> ds]) /\ acct' = acct
    BY <1>1 DEF Announce
  <2>2. [what |-> "list", devices |-> ds] \in Stanzas
    BY DEF Stanzas
  <2>3. peer' \in [list : SUBSET Devices, key : [Devices -> Nat \ {0}]]
    BY <1>0, <2>1
  <2>4. Kept(acct', s2c', {}) /\ s2c' \in Seq(Stanzas)
    BY <2>1, <2>2, PushKeeps
  <2> QED BY <2>3, <2>4 DEF Sound
<1>2. CASE Reinstall
  <2>1. PICK d \in Devices : /\ peer' = [peer EXCEPT !.key[d] = @ + 1]
                             /\ Push([what |-> "bundle", d |-> d, v |-> peer'.key[d]])
                             /\ acct' = acct
    BY <1>2 DEF Reinstall
  <2>2. peer.key[d] + 1 \in Nat \ {0}
    BY <1>0
  <2>3. peer' \in [list : SUBSET Devices, key : [Devices -> Nat \ {0}]]
    BY <1>0, <2>1, <2>2
  <2>4. [what |-> "bundle", d |-> d, v |-> peer'.key[d]] \in Stanzas
    BY <2>3 DEF Stanzas
  <2>5. Kept(acct', s2c', {}) /\ s2c' \in Seq(Stanzas)
    BY <2>1, <2>4, PushKeeps
  <2> QED BY <2>3, <2>5 DEF Sound
<1>3. CASE Write
  <2>1. PICK d \in Devices, kind \in Kinds, archived \in BOOLEAN, v \in Nat \ {0} :
          Push([what |-> "msg", d |-> d, kind |-> kind, v |-> v, archived |-> archived])
    <3>1. \A d \in Devices : 1..peer.key[d] \subseteq Nat \ {0}
      BY <1>0
    <3> QED BY <1>3, <3>1 DEF Write
  <2>2. [what |-> "msg", d |-> d, kind |-> kind, v |-> v, archived |-> archived] \in Stanzas
    BY DEF Stanzas
  <2>3. peer' = peer /\ acct' = acct
    BY <1>3 DEF Write
  <2>4. Kept(acct', s2c', {}) /\ s2c' \in Seq(Stanzas)
    BY <2>1, <2>2, <2>3, PushKeeps
  <2> QED BY <1>0, <2>3, <2>4 DEF Sound
<1> QED BY <1>1, <1>2, <1>3

\* A request is answered: what takes its place on the stream stands for it.
Answers(x, answer) ==
  /\ answer \in Seq(Stanzas)
  /\ x.what = "bundle" => \E y \in Range(answer) : y.what \in {"bundle", "bundleerror"} /\ y.d = x.d
  /\ x.what = "list" => \E y \in Range(answer) : y.what \in {"list", "nolist", "listerror"}

LEMMA One ==
  ASSUME NEW S, NEW x \in S
  PROVE  <<x>> \in Seq(S) /\ x \in Range(<<x>>)
<1>1. <<x>> \in Seq(S) /\ 1 \in DOMAIN <<x>> /\ <<x>>[1] = x
  OBVIOUS
<1> QED BY <1>1 DEF Range

LEMMA AnswerAnswers ==
  ASSUME Sound, NEW x \in Requests
  PROVE  Answers(x, Answer(x)) /\ \A answer \in Trouble(x) : Answers(x, answer)
<1>0. peer \in [list : SUBSET Devices, key : [Devices -> Nat \ {0}]]
  BY DEF Sound
<1>1. CASE x = ListRequest
  <2> DEFINE a == [what |-> "nolist"]
             b == [what |-> "list", devices |-> peer.list]
             c == [what |-> "listerror"]
  <2>1. a \in Stanzas /\ b \in Stanzas /\ c \in Stanzas
    BY <1>0 DEF Stanzas
  <2>2. a.what = "nolist" /\ b.what = "list" /\ c.what = "listerror" /\ x.what = "list"
    BY <1>1 DEF ListRequest
  <2>3. Answer(x) \in {<<a>>, <<b>>} /\ Trouble(x) = {<<c>>}
    BY <2>2 DEF Answer, Trouble
  <2> HIDE DEF a, b, c
  <2>4. \A y \in {a, b, c} : <<y>> \in Seq(Stanzas) /\ y \in Range(<<y>>)
    BY <2>1, One
  <2> QED BY <2>2, <2>3, <2>4 DEF Answers
<1>2. CASE x = Publication
  BY <1>2 DEF Publication, Answer, Trouble, Answers
<1>3. ASSUME NEW d \in Devices, x = BundleRequest(d)
      PROVE  Answers(x, Answer(x)) /\ \A answer \in Trouble(x) : Answers(x, answer)
  <2> DEFINE a == Bundle(d)
             b == BundleRefused(d)
             c == [Bundle(d) EXCEPT !.v = 0]
  <2>1. a \in Stanzas /\ b \in Stanzas /\ c \in Stanzas
    BY <1>0 DEF Stanzas, Bundle, BundleRefused
  <2>2. /\ a.what = "bundle" /\ b.what = "bundleerror" /\ c.what = "bundle" /\ x.what = "bundle"
        /\ a.d = d /\ b.d = d /\ c.d = d /\ x.d = d
    BY <1>3 DEF BundleRequest, Bundle, BundleRefused
  <2>3. Answer(x) \in {<<a>>, <<b>>} /\ Trouble(x) = {<<b>>, <<c>>}
    BY <2>2 DEF Answer, Trouble
  <2> HIDE DEF a, b, c
  <2>4. \A y \in {a, b, c} : <<y>> \in Seq(Stanzas) /\ y \in Range(<<y>>)
    BY <2>1, One
  <2> QED BY <2>2, <2>3, <2>4 DEF Answers
<1> QED BY <1>1, <1>2, <1>3 DEF Requests

LEMMA Joined ==
  ASSUME NEW S, NEW p \in Seq(S), NEW q \in Seq(S)
  PROVE  p \o q \in Seq(S) /\ Range(p \o q) = Range(p) \union Range(q)
<1> DEFINE r == p \o q
<1>1. /\ r \in Seq(S) /\ Len(r) = Len(p) + Len(q) /\ Len(p) \in Nat /\ Len(q) \in Nat
      /\ \A i \in 1..Len(r) : r[i] = IF i <= Len(p) THEN p[i] ELSE q[i - Len(p)]
  OBVIOUS
<1> HIDE DEF r
<1>2. DOMAIN p = 1..Len(p) /\ DOMAIN q = 1..Len(q) /\ DOMAIN r = 1..Len(r)
  BY <1>1
<1>3. ASSUME NEW x \in Range(r) PROVE x \in Range(p) \union Range(q)
  <2>1. PICK i \in 1..Len(r) : x = r[i]
    BY <1>2 DEF Range
  <2>2. CASE i <= Len(p)
    BY <1>1, <1>2, <2>1, <2>2 DEF Range
  <2>3. CASE ~(i <= Len(p))
    <3>1. i - Len(p) \in 1..Len(q) /\ x = q[i - Len(p)]
      BY <1>1, <2>1, <2>3
    <3> QED BY <1>2, <3>1 DEF Range
  <2> QED BY <2>2, <2>3
<1>4. ASSUME NEW x \in Range(p) PROVE x \in Range(r)
  <2>1. PICK i \in 1..Len(p) : x = p[i]
    BY <1>2 DEF Range
  <2>2. i \in 1..Len(r) /\ r[i] = x
    BY <1>1, <2>1
  <2> QED BY <1>2, <2>2 DEF Range
<1>5. ASSUME NEW x \in Range(q) PROVE x \in Range(r)
  <2>1. PICK i \in 1..Len(q) : x = q[i]
    BY <1>2 DEF Range
  <2>2. PICK j \in Nat : j = i + Len(p)
    BY <1>1
  <2>3. j \in 1..Len(r) /\ ~(j <= Len(p)) /\ j - Len(p) = i
    BY <1>1, <2>2
  <2>4. r[j] = x
    BY <1>1, <2>1, <2>3
  <2> QED BY <1>2, <2>3, <2>4 DEF Range
<1> QED BY <1>1, <1>3, <1>4, <1>5 DEF r

LEMMA ReplyKeeps ==
  ASSUME Sound, acct.out # <<>>, NEW answer, Answers(Head(acct.out), answer),
         Reply(Head(acct.out), answer)
  PROVE  Sound'
<1> DEFINE x == Head(acct.out)
           stale == IF x.what = "publish" THEN FALSE ELSE acct.seen.stale
           b == [acct EXCEPT !.out = Tail(acct.out), !.seen.stale = stale]
           v == s2c \o answer
<1>0. acct \in Account /\ acct.out \in Seq(Requests) /\ s2c \in Seq(Stanzas)
  BY DEF Sound, Kept, Account
<1>1. acct' = b /\ s2c' = v /\ peer' = peer
  BY DEF Reply
<1>2. /\ x \in Requests /\ Tail(acct.out) \in Seq(Requests)
      /\ Range(acct.out) = {x} \union Range(Tail(acct.out))
  <2> HIDE DEF Requests
  <2> QED BY <1>0, Taken
<1>3. v \in Seq(Stanzas) /\ Range(v) = Range(s2c) \union Range(answer)
  <2> HIDE DEF Stanzas
  <2> QED BY <1>0, Joined DEF Answers
<1>4. stale \in BOOLEAN
  BY <1>0 DEF Account
<1>5. Answers(x, answer)
  OBVIOUS
<1> HIDE DEF stale, x, v
<1>6. /\ b \in Account /\ b.up = acct.up /\ b.archive = acct.archive /\ b.catchup = acct.catchup
      /\ b.out = Tail(acct.out) /\ b.fetch = acct.fetch /\ b.missing = acct.missing
      /\ b.seen.refused = acct.seen.refused /\ b.seen.absent = acct.seen.absent
      /\ b.seen.owed = acct.seen.owed /\ b.sess = acct.sess /\ b.ident = acct.ident
      /\ b.live = acct.live /\ b.kt = acct.kt /\ b.postponed = acct.postponed
  <2> DEFINE se == [acct.seen EXCEPT !.stale = stale]
             out == Tail(acct.out)
             y == [acct EXCEPT !.out = out, !.seen = se]
  <2>1. /\ se \in [absent : BOOLEAN, refused : Sets, owed : Sets, unread : BOOLEAN, stale : BOOLEAN]
        /\ se.refused = acct.seen.refused /\ se.absent = acct.seen.absent
        /\ se.owed = acct.seen.owed
    BY <1>0, <1>4 DEF Account
  <2>2. b = y
    BY <1>0 DEF Account
  <2>3. out \in Seq(Requests)
    BY <1>2
  <2> HIDE DEF se, out, b, Requests
  <2>4. /\ y \in Account /\ y.up = acct.up /\ y.archive = acct.archive /\ y.catchup = acct.catchup
        /\ y.out = out /\ y.fetch = acct.fetch /\ y.missing = acct.missing
        /\ y.seen = se /\ y.sess = acct.sess /\ y.ident = acct.ident
        /\ y.live = acct.live /\ y.kt = acct.kt /\ y.postponed = acct.postponed
    BY <1>0, <2>1, <2>3 DEF Account
  <2> QED BY <2>1, <2>2, <2>4 DEF out
<1> HIDE DEF b
<1>7. \A d : Fetching(acct, s2c, d) => Fetching(b, v, d)
  <2> SUFFICES ASSUME NEW d, Fetching(acct, s2c, d) PROVE Fetching(b, v, d)
    OBVIOUS
  <2>1. CASE x = BundleRequest(d)
    <3>1. x.what = "bundle" /\ x.d = d
      BY <2>1 DEF BundleRequest
    <3> QED BY <1>3, <1>5, <3>1 DEF Answers, Fetching
  <2>2. CASE x # BundleRequest(d)
    BY <1>2, <1>3, <1>6, <2>2 DEF Fetching
  <2> QED BY <2>1, <2>2
<1>8. acct.up => Guards(b, v)
  <2>1. ASSUME acct.up, b.missing
        PROVE  \/ b.seen.absent \/ ListRequest \in Range(b.out)
               \/ \E y \in Range(v) : y.what \in {"list", "nolist", "listerror"}
    <3>1. CASE x = ListRequest
      <4>1. x.what = "list"
        BY <3>1 DEF ListRequest
      <4> QED BY <1>3, <1>5, <4>1 DEF Answers
    <3>2. CASE x # ListRequest
      BY <1>2, <1>3, <1>6, <2>1, <3>2 DEF Sound, Kept, Guards
    <3> QED BY <3>1, <3>2
  <2> QED BY <1>6, <1>7, <2>1 DEF Sound, Kept, Guards
<1>9. acct.up => Owing(b, v, {})
  BY <1>6, <1>7 DEF Sound, Kept, Owing
<1>10. Kept(b, v, {})
  BY <1>6, <1>8, <1>9 DEF Sound, Kept, Ids
<1> QED BY <1>1, <1>3, <1>10 DEF Sound

LEMMA ServerSound ==
  ASSUME Sound, Serve \/ Fail
  PROVE  Sound'
<1>1. acct.out # <<>> /\ acct.out \in Seq(Requests)
  BY DEF Serve, Fail, Sound, Kept, Account
<1>2. Head(acct.out) \in Requests
  BY <1>1, EmptySeq
<1>3. PICK answer : Answers(Head(acct.out), answer) /\ Reply(Head(acct.out), answer)
  BY <1>2, AnswerAnswers DEF Serve, Fail
<1> QED BY <1>1, <1>3, ReplyKeeps

\* The invariant is inductive: one lemma per action.
LEMMA NextSound ==
  ASSUME Sound, Next
  PROVE  Sound'
<1>0. peer \in [list : SUBSET Devices, key : [Devices -> Nat \ {0}]] /\ s2c \in Seq(Stanzas)
  BY DEF Sound
<1>1. ASSUME SendMessage \/ SendToRoom \/ EnableRoom \/ FetchCommand \/ ExchangeCommand
             \/ Trust \/ Distrust \/ Prune \/ Enters \/ Leaves
      PROVE  Sound'
  <2>1. Kept(acct', s2c', {})
    BY <1>1, SendMessageKeeps, SendToRoomKeeps, RoomKeeps, FetchKeeps, ExchangeCommandKeeps,
       TrustKeeps, PruneKeeps
  <2>2. peer' = peer /\ s2c' = s2c
    BY <1>1 DEF SendMessage, SendToRoom, EnableRoom, FetchCommand, ExchangeCommand, Trust,
                Distrust, Prune, Enters, Leaves, Command
  <2> QED BY <1>0, <2>1, <2>2 DEF Sound
<1>2. ASSUME Fresh \/ Resume \/ LinkLost \/ StartCatchup \/ EndCatchup \/ ProcessLive
      PROVE  Sound'
  <2>1. Kept(acct', s2c', {})
    BY <1>2, FreshKeeps, ResumeKeeps, LinkLostKeeps, StartCatchupKeeps, EndCatchupKeeps,
       ProcessLiveKeeps
  <2>2. peer' = peer /\ s2c' \in {s2c, <<>>}
    BY <1>2 DEF Fresh, Resume, LinkLost, StartCatchup, EndCatchup, ProcessLive
  <2>3. <<>> \in Seq(Stanzas)
    OBVIOUS
  <2> HIDE DEF Stanzas
  <2>4. s2c' \in Seq(Stanzas)
    BY <1>0, <2>2, <2>3
  <2> QED BY <1>0, <2>1, <2>2, <2>4 DEF Sound
<1>3. ASSUME Receive PROVE Sound'
  <2>1. peer' = peer
    BY <1>3 DEF Receive
  <2> QED BY <1>0, <1>3, <2>1, ReceiveKeeps DEF Sound
<1> QED BY <1>1, <1>2, <1>3, ContactSound, ServerSound DEF Next

\* Steps that do not move the sessions leave them.
LEMMA StutterSound ==
  ASSUME Sound, UNCHANGED vars
  PROVE  Sound'
BY DEF Sound, Kept, Ids, Guards, Owing, Fetching, vars

\* Kept, and what the contact and the stream are made of, holds in every reachable state.
THEOREM OmemoSound == OmemoSpec => []Sound
<1>1. OmemoInit => Sound
  BY InitSound DEF OmemoInit
<1>2. Sound /\ [OmemoNext]_omemoVars => Sound'
  BY NextSound, StutterSound DEF OmemoNext, omemoVars
<1> QED BY <1>1, <1>2, PTL DEF OmemoSpec

-----------------------------------------------------------------------------
(* What the invariant gives.                                               *)

\* Nothing is encrypted for a key the trust of a device is not about, whatever the contact
\* reinstalls, whatever is refused, and whatever session is made, fails or comes first.
THEOREM SessionIsOfIdentityTheorem == OmemoSpec => []SessionIsOfIdentity
<1>1. Sound => SessionIsOfIdentity
  BY DEF Sound, Kept, Ids, SessionIsOfIdentity
<1> QED BY <1>1, OmemoSound, PTL

\* Where the server says which request it refuses, a guard against asking twice is never left
\* behind: over losses, resumption, refusals and bundles nobody asked for.
THEOREM GuardsAreUnderwayTheorem ==
  ASSUME EchoesErrors
  PROVE  OmemoSpec => []GuardsAreUnderway
<1>1. Sound => GuardsAreUnderway
  <2> SUFFICES ASSUME Sound PROVE GuardsAreUnderway
    OBVIOUS
  <2>1. \A d : Fetching(acct, s2c, d) <=> Underway(d)
    BY DEF Fetching, Underway, BundleRequest
  <2>2. acct.up => Guards(acct, s2c)
    BY DEF Sound, Kept
  <2> QED BY <2>1, <2>2 DEF Guards, GuardsAreUnderway, ListRequest
<1> QED BY <1>1, OmemoSound, PTL

\* A device that is owed a key transport when nothing is on its way any more is one that
\* cannot be used: whatever was postponed, pushed, changed or lost meanwhile.
THEOREM RecoveryFollowsTheorem == OmemoSpec => []RecoveryFollows
<1>1. Sound => RecoveryFollows
  <2> SUFFICES ASSUME Sound, Settled, NEW d \in acct.seen.owed PROVE Unusable(d)
    BY DEF RecoveryFollows
  <2>1. acct.up /\ acct.out = <<>> /\ s2c = <<>> /\ acct.live = {} /\ acct.archive = "done"
    BY DEF Settled
  <2>2. acct.postponed = {}
    BY <2>1 DEF Sound, Kept
  <2>3. Range(<<>>) = {}
    BY DEF Range
  <2>4. ~Fetching(acct, s2c, d)
    BY <2>1, <2>3 DEF Fetching
  <2>5. d \in acct.seen.refused
    BY <2>1, <2>2, <2>4 DEF Sound, Kept, Owing
  <2> QED BY <2>5 DEF Unusable
<1> QED BY <1>1, OmemoSound, PTL
-----------------------------------------------------------------------------
(* The prekeys.  A handler is a trail of disks, and a crash leaves any one  *)
(* of them: each must be one that what was handed out can be answered with. *)

KeyEntries == [id : Nat, key : Nat]
KeyBundles == {b \in [keys : SUBSET KeyEntries, spk : KeyEntries, ik : Nat] : b.keys # {}}
SignedPreKeys == [id : Nat, record : Nat, public : Nat, stamp : {"none", "fresh", "due"}]
Disks ==
  [spk : SignedPreKeys, signed : SUBSET KeyEntries, index : SUBSET KeyEntries,
   records : SUBSET KeyEntries, max : Nat, identity : Nat, made : Nat]

\* What a disk is held against is a record: the bundles that are out, the entries that are, in
\* them or taken from them, the keys that were used, what was torn, the highest number that is
\* foreseen.
Known(d, c) == d.index \union d.records \union c.entries

\* A key is made once and has one number, a number is that of one key, and a key that was used
\* is not in the records.
OneEach(d, c) ==
  /\ \A e \in Known(d, c) : e.key \in 1..d.made
  /\ \A e, f \in Known(d, c) : e.key = f.key => e = f
  /\ \A e, f \in d.records : e.id = f.id => e = f
  /\ \A e, f \in d.index : e.id = f.id => e = f
  /\ \A k \in c.used : k \in 1..d.made
  /\ \A e \in d.records : e.key \notin c.used

\* A fresh signed prekey is kept, and no number is kept that it has not come to.
SpkKept(d) ==
  /\ \A s \in d.signed : s.id <= d.spk.id
  /\ d.spk.stamp = "fresh" => [id |-> d.spk.id, key |-> d.spk.public] \in d.signed

\* What is out can be answered; the numbers of a batch are new, unless one was cut in two.
Answerable(d, c) ==
  "reset" \notin c.torn =>
    /\ \A b \in c.bundles : b.spk \in d.signed /\ b.ik = d.identity /\ b.ik # 0
    /\ c.entries # {} => d.index # {}
    /\ "batch" \notin c.torn =>
         /\ \A e \in c.entries : e.id <= d.max
         /\ \A e \in c.entries \union d.index : e.key \in c.used \/ e \in d.records
         /\ (d.index # {} /\ \A e \in d.index : e.id <= d.max) => Count <= d.max

WantsBatch(d) == d.spk.stamp # "fresh" \/ d.index = {}
Roomy(d, c) == d.max <= c.top /\ (WantsBatch(d) => d.max + Count <= c.top)

Disk(d, c) ==
  /\ c.entries \subseteq KeyEntries /\ c.top \in Nat
  /\ IsFiniteSet(d.index) /\ IsFiniteSet(d.records)
  /\ OneEach(d, c) /\ SpkKept(d) /\ Answerable(d, c) /\ Roomy(d, c)
Held(c) == {d \in Disks : Disk(d, c)}
Trails(c) == {t \in Seq(Held(c)) : t # <<>>}

\* ... and what holds at the end of a handler, and of what a crash leaves by what it tore.
Whole(d, c) ==
  /\ {"batch", "reset"} \intersect c.torn = {} => \A e \in d.index : e.id <= d.max
  /\ "replacement" \notin c.torn => \A e \in d.index : e.key \notin c.used

\* Without a crash prekeys are short only before there was a bundle.
Unrepaired(d) == d.index = P!Legacy.index /\ d.records = P!Legacy.records /\ d.max = Count
Full(d) == Cardinality(d.index) >= Count
Stocked(d, c) ==
  c.torn = {} =>
    \/ c.bundles = {} /\ c.entries = {} /\ (d.index = {} \/ Unrepaired(d))
    \/ Full(d)

Fit(d, c) == d \in Held(c) /\ Whole(d, c) /\ Stocked(d, c)

-----------------------------------------------------------------------------
(* Trails.                                                                 *)

LEMMA TrailEnds ==
  ASSUME NEW S, NEW t \in Seq(S), t # <<>>
  PROVE  /\ P!Last(t) \in S /\ Last(t) = P!Last(t)
         /\ \A d \in P!Range(t) : d \in S
BY DEF P!Last, Last, P!Range

LEMMA TrailGrows ==
  ASSUME NEW S, NEW t \in Seq(S), NEW u \in Seq(S), u # <<>>
  PROVE  t \o u \in Seq(S) /\ t \o u # <<>> /\ P!Last(t \o u) = P!Last(u)
BY DEF P!Last

LEMMA TrailAppends ==
  ASSUME NEW S, NEW t \in Seq(S), NEW d \in S
  PROVE  Append(t, d) \in Seq(S) /\ Append(t, d) # <<>> /\ P!Last(Append(t, d)) = d
BY DEF P!Last

LEMMA TrailOfOne ==
  ASSUME NEW S, NEW d \in S
  PROVE  <<d>> \in Seq(S) /\ <<d>> # <<>> /\ P!Last(<<d>>) = d
BY DEF P!Last

LEMMA TrailOfTwo ==
  ASSUME NEW S, NEW d \in S, NEW e \in S
  PROVE  <<d, e>> \in Seq(S) /\ <<d, e>> # <<>> /\ P!Last(<<d, e>>) = e
BY DEF P!Last

LEMMA TrailOfFive ==
  ASSUME NEW S, NEW a \in S, NEW b \in S, NEW d \in S, NEW e \in S, NEW f \in S
  PROVE  <<a, b, d, e, f>> \in Seq(S) /\ <<a, b, d, e, f>> # <<>> /\ P!Last(<<a, b, d, e, f>>) = f
BY DEF P!Last

LEMMA CardinalityIs == ASSUME NEW S PROVE P!Cardinality(S) = Cardinality(S)
BY DEF P!Cardinality, Cardinality

-----------------------------------------------------------------------------
(* One commit each.                                                        *)

\* An identity is made when there is none, so that no bundle that is out has one.
IdentityOf(d) == [d EXCEPT !.made = @ + 1, !.identity = d.made + 1]

LEMMA IdentityHeld ==
  ASSUME NEW c, NEW d \in Held(c), d.identity = 0
  PROVE  /\ IdentityOf(d) \in Held(c)
         /\ Whole(d, c) => Whole(IdentityOf(d), c)
         /\ Stocked(d, c) => Stocked(IdentityOf(d), c)
         /\ IdentityOf(d).index = d.index /\ IdentityOf(d).identity # 0
         /\ IdentityOf(d).spk = d.spk
<1> DEFINE e == IdentityOf(d)
<1>1. d \in Disks /\ Disk(d, c)
  BY DEF Held
<1> DEFINE k == d.made + 1
<1>0. d.made \in Nat /\ k \in Nat /\ e = [d EXCEPT !.made = k, !.identity = k]
  BY <1>1 DEF Disks, IdentityOf
<1> HIDE DEF e, k
<1>21. /\ e \in Disks /\ e.index = d.index /\ e.records = d.records /\ e.spk = d.spk /\ e.signed = d.signed
      /\ e.max = d.max /\ e.made = k /\ e.identity = k
  BY <1>0, <1>1 DEF Disks
<1>2. /\ e \in Disks /\ e.index = d.index /\ e.records = d.records /\ e.spk = d.spk /\ e.signed = d.signed
      /\ e.max = d.max /\ e.made = d.made + 1 /\ e.identity = d.made + 1 /\ d.made \in Nat
  BY <1>0, <1>21 DEF k
<1> HIDE DEF e
<1>3. OneEach(e, c)
  BY <1>1, <1>2 DEF Disk, OneEach, Known
<1>4. SpkKept(e)
  BY <1>1, <1>2 DEF Disk, SpkKept
<1>5. Answerable(e, c)
  BY <1>1, <1>2 DEF Disk, Answerable
<1>6. Roomy(e, c)
  BY <1>1, <1>2 DEF Disk, Roomy, WantsBatch
<1>7. Whole(d, c) => Whole(e, c)
  BY <1>2 DEF Whole
<1>8. Stocked(d, c) => Stocked(e, c)
  BY <1>2 DEF Stocked, Unrepaired, Full
<1>9. e \in Held(c)
  BY <1>1, <1>2, <1>3, <1>4, <1>5, <1>6 DEF Disk, Held
<1>10. e.identity # 0
  BY <1>2
<1> QED BY <1>2, <1>7, <1>8, <1>9, <1>10 DEF e

\* A commit of a signed prekey, or of a part of it.
WithSpk(d, k, spk, signed) == [d EXCEPT !.made = k, !.spk = spk, !.signed = signed]

PutSpk(d, x) == [d EXCEPT !.spk = x]
PutSigned(d, x) == [d EXCEPT !.signed = x]
MakeSpk(d, k, x) == [d EXCEPT !.made = k, !.spk = x]

LEMMA SpkFirst ==
  ASSUME NEW d \in Disks, NEW k, NEW x
  PROVE  MakeSpk(d, k, x) = WithSpk(d, k, x, d.signed)
BY DEF Disks, WithSpk, MakeSpk

LEMMA SpkAgain ==
  ASSUME NEW d \in Disks, NEW k, NEW spk, NEW signed, NEW x
  PROVE  /\ PutSpk(WithSpk(d, k, spk, signed), x) = WithSpk(d, k, x, signed)
         /\ PutSigned(WithSpk(d, k, spk, signed), x) = WithSpk(d, k, spk, x)
         /\ WithSpk(d, k, spk, signed).spk = spk /\ WithSpk(d, k, spk, signed).signed = signed
BY DEF Disks, WithSpk, PutSpk, PutSigned

LEMMA SpkHeld ==
  ASSUME NEW c, NEW d \in Held(c), NEW spk \in SignedPreKeys, NEW signed \in SUBSET KeyEntries,
         d.signed \subseteq signed,
         \A s \in signed : s.id <= spk.id,
         spk.stamp = "fresh" => ([id |-> spk.id, key |-> spk.public] \in signed),
         d.max + Count <= c.top,
         NEW k \in Nat, d.made <= k
  PROVE  LET e == WithSpk(d, k, spk, signed)
         IN  /\ e \in Held(c) /\ e.index = d.index /\ e.spk = spk /\ e.identity = d.identity
             /\ e.made = k /\ e.signed = signed /\ e.max = d.max /\ e.records = d.records
             /\ Whole(d, c) => Whole(e, c)
<1> DEFINE e == WithSpk(d, k, spk, signed)
<1>1. d \in Disks /\ Disk(d, c)
  BY DEF Held
<1>2. /\ e \in Disks /\ e.index = d.index /\ e.records = d.records /\ e.spk = spk /\ e.signed = signed
      /\ e.max = d.max /\ e.made = k /\ e.identity = d.identity /\ d.made \in Nat
  BY <1>1 DEF Disks, WithSpk
<1> HIDE DEF e
<1>3. OneEach(e, c)
  BY <1>1, <1>2 DEF Disk, OneEach, Known
<1>4. SpkKept(e)
  BY <1>1, <1>2 DEF Disk, SpkKept
<1>5. Answerable(e, c)
  BY <1>1, <1>2 DEF Disk, Answerable
<1>6. Roomy(e, c)
  BY <1>1, <1>2 DEF Disk, Roomy, WantsBatch
<1>7. Whole(d, c) => Whole(e, c)
  BY <1>2 DEF Whole
<1>9. e \in Held(c)
  BY <1>1, <1>2, <1>3, <1>4, <1>5, <1>6 DEF Disk, Held
<1> QED BY <1>2, <1>7, <1>9 DEF e

\* A commit of prekeys: it may make any, as long as they are new, and take any away but those
\* that are in need.
WithKeys(d, k, records, index, max) ==
  [d EXCEPT !.made = k, !.records = records, !.index = index, !.max = max]

LEMMA KeysFields ==
  ASSUME NEW d \in Disks, NEW k \in Nat, NEW r \in SUBSET KeyEntries, NEW i \in SUBSET KeyEntries,
         NEW m \in Nat
  PROVE  LET e == WithKeys(d, k, r, i, m)
         IN  /\ e \in Disks /\ e.made = k /\ e.records = r /\ e.index = i /\ e.max = m
             /\ e.spk = d.spk /\ e.signed = d.signed /\ e.identity = d.identity
BY DEF Disks, WithKeys

-----------------------------------------------------------------------------
(* Trails of commits.                                                      *)

LEMMA EnsureIdentityKeeps ==
  ASSUME NEW c, NEW t \in Trails(c), Whole(P!Last(t), c), Stocked(P!Last(t), c)
  PROVE  LET u == P!EnsureIdentity(t)
         IN  /\ u \in Trails(c) /\ Fit(P!Last(u), c)
             /\ P!Last(u).index = P!Last(t).index /\ P!Last(u).spk = P!Last(t).spk
<1> DEFINE d == P!Last(t)
           u == P!EnsureIdentity(t)
<1>1. t \in Seq(Held(c)) /\ t # <<>>
  BY DEF Trails
<1>2. d \in Held(c)
  BY <1>1, TrailEnds
<1>3. CASE identity # 0 \/ d.identity # 0
  <2>1. u = t
    BY <1>3 DEF P!EnsureIdentity
  <2> QED BY <1>2, <2>1 DEF Fit
<1>4. CASE ~(identity # 0 \/ d.identity # 0)
  <2>1. u = Append(t, IdentityOf(d))
    BY <1>4 DEF P!EnsureIdentity, IdentityOf
  <2> HIDE DEF d, u
  <2>2. IdentityOf(d) \in Held(c) /\ Fit(IdentityOf(d), c)
        /\ IdentityOf(d).index = d.index /\ IdentityOf(d).spk = d.spk
    BY <1>2, <1>4, IdentityHeld DEF d, Fit
  <2>3. u \in Trails(c) /\ P!Last(u) = IdentityOf(d)
    BY <1>1, <2>1, <2>2, TrailAppends DEF Trails
  <2> QED BY <2>2, <2>3 DEF d, u
<1> QED BY <1>3, <1>4

\* A new signed prekey, in five commits: until the last of them the old one, if there was one,
\* is what a bundle would be made of, and nobody makes one.
LEMMA GenerateSpkKeeps ==
  ASSUME NEW c, NEW t \in Trails(c), Whole(P!Last(t), c), P!Last(t).spk.stamp # "fresh"
  PROVE  LET d == P!Last(t)
             u == P!GenerateSpk(t, d.spk.id + 1)
             e == P!Last(u)
         IN  /\ u \in Trails(c) /\ Whole(e, c)
             /\ e.index = d.index /\ e.spk.stamp = "fresh" /\ e.identity = d.identity
             /\ e.max = d.max /\ e.records = d.records
<1> DEFINE d == P!Last(t)
           id == d.spk.id + 1
           k == d.made + 1
           now == [id |-> id, key |-> k]
           all == {e \in d.signed : e.id # id} \union {now}
           S1 == [id |-> id, record |-> d.spk.record, public |-> d.spk.public, stamp |-> d.spk.stamp]
           S2 == [id |-> id, record |-> k, public |-> d.spk.public, stamp |-> d.spk.stamp]
           S4 == [id |-> id, record |-> k, public |-> k, stamp |-> d.spk.stamp]
           S5 == [id |-> id, record |-> k, public |-> k, stamp |-> "fresh"]
           a == WithSpk(d, k, S1, d.signed)
           b == WithSpk(d, k, S2, d.signed)
           m == WithSpk(d, k, S2, all)
           p == WithSpk(d, k, S4, all)
           e == WithSpk(d, k, S5, all)
           u == P!GenerateSpk(t, id)
<1>1. t \in Seq(Held(c)) /\ t # <<>>
  BY DEF Trails
<1>2. d \in Held(c)
  BY <1>1, TrailEnds
<1>3. d \in Disks /\ Disk(d, c)
  BY <1>2 DEF Held
<1>4. d.spk \in SignedPreKeys /\ d.made \in Nat /\ d.signed \in SUBSET KeyEntries
  BY <1>3 DEF Disks
<1>5. /\ d.spk.id \in Nat /\ d.spk.stamp \in {"none", "fresh", "due"} /\ d.spk.record \in Nat
      /\ d.spk.public \in Nat
      /\ d.spk = [id |-> d.spk.id, record |-> d.spk.record, public |-> d.spk.public, stamp |-> d.spk.stamp]
  BY <1>4 DEF SignedPreKeys
<1>6. u = t \o <<a, b, m, p, e>>
  <2> DEFINE x1 == [d.spk EXCEPT !.id = id]
             s1 == MakeSpk(d, k, x1)
             x2 == [s1.spk EXCEPT !.record = k]
             s2 == PutSpk(s1, x2)
             x3 == P!Put(s2.signed, id, k)
             s3 == PutSigned(s2, x3)
             x4 == [s3.spk EXCEPT !.public = k]
             s4 == PutSpk(s3, x4)
             x5 == [s4.spk EXCEPT !.stamp = "fresh"]
             s5 == PutSpk(s4, x5)
  <2>1. u = t \o <<s1, s2, s3, s4, s5>>
    BY DEF P!GenerateSpk, MakeSpk, PutSpk, PutSigned
  <2>2. x1 = S1
    BY <1>5
  <2> HIDE DEF d, id, k, u, x1, x2, x3, x4, x5, S1, S2, S4, S5
  <2>3. s1 = a /\ s1.spk = S1
    BY <1>3, <2>2, SpkFirst, SpkAgain
  <2> HIDE DEF s1, a
  <2>4. x2 = S2
    BY <2>3 DEF x2, S1, S2
  <2>5. s2 = b /\ s2.spk = S2 /\ s2.signed = d.signed
    <3>1. PutSpk(a, S2) = b /\ b.spk = S2 /\ b.signed = d.signed
      BY <1>3, SpkAgain DEF a
    <3> QED BY <3>1, <2>3, <2>4
  <2> HIDE DEF s2, b
  <2>6. x3 = all
    BY <2>5 DEF x3, P!Put
  <2>7. s3 = m /\ s3.spk = S2
    <3>1. PutSigned(b, all) = m /\ m.spk = S2
      BY <1>3, SpkAgain DEF b
    <3> QED BY <3>1, <2>5, <2>6
  <2> HIDE DEF s3, m
  <2>8. x4 = S4
    BY <2>7 DEF x4, S2, S4
  <2>9. s4 = p /\ s4.spk = S4
    <3>1. PutSpk(m, S4) = p /\ p.spk = S4
      BY <1>3, SpkAgain DEF m
    <3> QED BY <3>1, <2>7, <2>8
  <2> HIDE DEF s4, p
  <2>10. x5 = S5
    BY <2>9 DEF x5, S4, S5
  <2>11. s5 = e
    <3>1. PutSpk(p, S5) = e
      BY <1>3, SpkAgain DEF p
    <3> QED BY <3>1, <2>9, <2>10
  <2> HIDE DEF s5, e
  <2> QED BY <2>1, <2>3, <2>5, <2>7, <2>9, <2>11
<1>7. d.max + Count <= c.top
  BY <1>3 DEF Disk, Roomy, WantsBatch
<1>8. \A s \in d.signed : s.id <= d.spk.id /\ s.id \in Nat
  BY <1>3, <1>4 DEF Disk, SpkKept, KeyEntries
<1>9. all \in SUBSET KeyEntries /\ d.signed \subseteq all /\ now \in all /\ \A s \in all : s.id <= id
  BY <1>4, <1>5, <1>8 DEF KeyEntries
<1>10. {S1, S2, S4, S5} \subseteq SignedPreKeys /\ k \in Nat /\ d.made <= k
  BY <1>4, <1>5 DEF SignedPreKeys
<1>11. \A s \in d.signed : s.id <= id
  BY <1>5, <1>8
<1>12. d.spk.stamp # "fresh"
  OBVIOUS
<1> HIDE DEF d, id, k, all
<1>13. a \in Held(c)
  BY <1>2, <1>4, <1>7, <1>10, <1>11, <1>12, SpkHeld
<1>14. b \in Held(c)
  BY <1>2, <1>4, <1>7, <1>10, <1>11, <1>12, SpkHeld
<1>15. m \in Held(c)
  BY <1>2, <1>4, <1>7, <1>9, <1>10, <1>12, SpkHeld
<1>16. p \in Held(c)
  BY <1>2, <1>4, <1>7, <1>9, <1>10, <1>12, SpkHeld
<1>17. /\ e \in Held(c) /\ e.index = d.index /\ e.spk = S5 /\ e.identity = d.identity
       /\ e.max = d.max /\ e.records = d.records /\ (Whole(d, c) => Whole(e, c))
  BY <1>2, <1>4, <1>7, <1>9, <1>10, <1>12, SpkHeld
<1> HIDE DEF a, b, m, p, e, u
<1>18. <<a, b, m, p, e>> \in Seq(Held(c)) /\ <<a, b, m, p, e>> # <<>> /\ P!Last(<<a, b, m, p, e>>) = e
  BY <1>13, <1>14, <1>15, <1>16, <1>17, TrailOfFive
<1>19. u \in Seq(Held(c)) /\ u # <<>> /\ P!Last(u) = e
  BY <1>1, <1>6, <1>18, TrailGrows
<1>20. Whole(e, c) /\ e.spk.stamp = "fresh"
  BY <1>17 DEF d
<1> QED BY <1>17, <1>19, <1>20 DEF Trails, u, d, id

\* The prekeys of a batch have new numbers and new keys.
MadeKeys(d, n) == {[id |-> d.max + i, key |-> d.made + i] : i \in 1..n}
StoredKeys(d, n) == {r \in d.records : r.id \notin (d.max + 1)..(d.max + n)} \union MadeKeys(d, n)

LEMMA MadeKeysAreNew ==
  ASSUME NEW d \in Disks, NEW n \in Nat
  PROVE  /\ MadeKeys(d, n) \in SUBSET KeyEntries
         /\ \A e \in MadeKeys(d, n) : e.id \in (d.max + 1)..(d.max + n) /\ e.key \in (d.made + 1)..(d.made + n)
         /\ \A e, f \in MadeKeys(d, n) : (e.key = f.key \/ e.id = f.id) => e = f
         /\ IsFiniteSet(MadeKeys(d, n)) /\ Cardinality(MadeKeys(d, n)) = n
<1> DEFINE max == d.max
           made == d.made
           S == MadeKeys(d, n)
           f == [i \in 1..n |-> [id |-> max + i, key |-> made + i]]
<1>1. max \in Nat /\ made \in Nat
  BY DEF Disks
<1>2. S = {[id |-> max + i, key |-> made + i] : i \in 1..n}
  BY DEF MadeKeys
<1> HIDE DEF max, made, S
<1>3. S \in SUBSET KeyEntries
  BY <1>1, <1>2 DEF KeyEntries
<1>4. \A e \in S : e.id \in (max + 1)..(max + n) /\ e.key \in (made + 1)..(made + n)
  BY <1>1, <1>2
<1>5. ASSUME NEW e \in S, NEW g \in S, e.key = g.key \/ e.id = g.id PROVE e = g
  <2>1. PICK i \in 1..n : e = [id |-> max + i, key |-> made + i]
    BY <1>2
  <2>2. PICK j \in 1..n : g = [id |-> max + j, key |-> made + j]
    BY <1>2
  <2>3. i = j
    BY <1>1, <1>5, <2>1, <2>2
  <2> QED BY <2>1, <2>2, <2>3
<1>6. f \in Bijection(1..n, S)
  <2>1. f \in [1..n -> S]
    BY <1>2
  <2>2. \A i, j \in 1..n : f[i] = f[j] => i = j
    BY <1>1
  <2>3. \A e \in S : \E i \in 1..n : f[i] = e
    BY <1>2
  <2> HIDE DEF f
  <2> QED BY <2>1, <2>2, <2>3 DEF Bijection, Injection, Surjection, IsInjective
<1>7. IsFiniteSet(1..n) /\ Cardinality(1..n) = n
  BY FS_Interval
<1>8. IsFiniteSet(S) /\ Cardinality(S) = n
  BY <1>6, <1>7, FS_Bijection DEF ExistsBijection
<1> QED BY <1>3, <1>4, <1>5, <1>8 DEF S, max, made

\* What any commit of a batch has: the first n of its prekeys, an index, and a highest number.
LEMMA BatchHeld ==
  ASSUME NEW c, NEW d \in Held(c), Whole(d, c), d.spk.stamp = "fresh",
         NEW n \in Nat, NEW index, NEW m \in Nat,
         \/ index = d.index /\ m = d.max /\ (index = {} => d.max + Count <= c.top)
         \/ index = MadeKeys(d, Count) /\ n = Count /\ (m = d.max \/ m = d.max + Count) /\ m <= c.top
  PROVE  LET e == WithKeys(d, d.made + n, StoredKeys(d, n), index, m)
         IN  e \in Held(c) /\ e.index = index /\ e.spk = d.spk /\ e.identity = d.identity /\ e.max = m
<1> DEFINE e == WithKeys(d, d.made + n, StoredKeys(d, n), index, m)
           new == MadeKeys(d, n)
           records == StoredKeys(d, n)
           made == d.made + n
<1>0. Count \in Nat \ {0}
  BY KeyConstants
<1>1. d \in Disks /\ Disk(d, c)
  BY DEF Held
<1>2. /\ d.made \in Nat /\ d.max \in Nat /\ d.index \in SUBSET KeyEntries
      /\ d.records \in SUBSET KeyEntries
  BY <1>1 DEF Disks
<1>3. /\ new \in SUBSET KeyEntries
      /\ \A x \in new : x.id \in (d.max + 1)..(d.max + n) /\ x.key \in (d.made + 1)..(d.made + n)
      /\ \A x, y \in new : (x.key = y.key \/ x.id = y.id) => x = y
      /\ IsFiniteSet(new)
  BY <1>1, MadeKeysAreNew
<1>4. records = {r \in d.records : r.id \notin (d.max + 1)..(d.max + n)} \union new
  BY DEF StoredKeys
<1>5. /\ index = d.index \/ (index = new /\ index # {})
      /\ (index = MadeKeys(d, Count) /\ n = Count) => (index = new /\ index # {})
  <2>1. CASE index = MadeKeys(d, Count) /\ n = Count
    <3>1. [id |-> d.max + 1, key |-> d.made + 1] \in MadeKeys(d, Count)
      BY <1>0 DEF MadeKeys
    <3> QED BY <2>1, <3>1
  <2> QED BY <2>1
<1>6. /\ c.entries \subseteq KeyEntries /\ c.top \in Nat
      /\ IsFiniteSet(d.index) /\ IsFiniteSet(d.records) /\ OneEach(d, c) /\ SpkKept(d) /\ Answerable(d, c) /\ Roomy(d, c)
  BY <1>1 DEF Disk
<1> HIDE DEF new, records
<1>7. /\ e \in Disks /\ e.made = made /\ e.records = records /\ e.index = index /\ e.max = m
      /\ e.spk = d.spk /\ e.signed = d.signed /\ e.identity = d.identity
  <2>1. made \in Nat /\ records \in SUBSET KeyEntries /\ index \in SUBSET KeyEntries
    BY <1>2, <1>3, <1>4, <1>5
  <2> HIDE DEF made
  <2>2. e = WithKeys(d, made, records, index, m)
    BY DEF made, records
  <2> QED BY <1>1, <2>1, <2>2, KeysFields
<1> HIDE DEF e
<1>8. IsFiniteSet(e.index) /\ IsFiniteSet(e.records)
  <2>1. IsFiniteSet({r \in d.records : r.id \notin (d.max + 1)..(d.max + n)})
    BY <1>6, FS_Subset
  <2>2. IsFiniteSet(records)
    BY <1>3, <1>4, <2>1, FS_Union
  <2> QED BY <1>3, <1>5, <1>6, <1>7, <2>2
<1>9. OneEach(e, c)
  <2>1. \A x \in Known(d, c) : x.key \in 1..d.made
    BY <1>6 DEF OneEach
  <2>2. \A x \in Known(e, c) : x \in Known(d, c) \/ x \in new
    BY <1>4, <1>5, <1>7 DEF Known
  <2>3. \A x \in Known(e, c) : x.key \in 1..made
    BY <1>2, <1>3, <2>1, <2>2
  <2>4. \A x, y \in Known(e, c) : x.key = y.key => x = y
    <3>1. \A x, y \in Known(d, c) : x.key = y.key => x = y
      BY <1>6 DEF OneEach
    <3>2. \A x \in Known(d, c), y \in new : x.key # y.key
      BY <1>2, <1>3, <2>1
    <3> QED BY <1>3, <2>2, <3>1, <3>2
  <2>5. \A x, y \in e.records : x.id = y.id => x = y
    <3>1. \A x, y \in d.records : x.id = y.id => x = y
      BY <1>6 DEF OneEach
    <3> QED BY <1>3, <1>4, <1>7, <3>1
  <2>6. \A x, y \in e.index : x.id = y.id => x = y
    <3>1. \A x, y \in d.index : x.id = y.id => x = y
      BY <1>6 DEF OneEach
    <3> QED BY <1>3, <1>5, <1>7, <3>1
  <2>7. \A k \in c.used : k \in 1..d.made
    BY <1>6 DEF OneEach
  <2>8. \A k \in c.used : k \in 1..made
    BY <1>2, <2>7
  <2>9. \A x \in e.records : x.key \notin c.used
    <3>1. \A x \in d.records : x.key \notin c.used
      BY <1>6 DEF OneEach
    <3>2. \A x \in new : x.key \notin c.used
      BY <1>2, <1>3, <2>7
    <3> QED BY <1>4, <1>7, <3>1, <3>2
  <2> QED BY <1>7, <2>3, <2>4, <2>5, <2>6, <2>8, <2>9 DEF OneEach
<1>10. SpkKept(e)
  BY <1>6, <1>7 DEF SpkKept
<1>11. Answerable(e, c)
  <2> SUFFICES ASSUME "reset" \notin c.torn PROVE
        /\ \A b \in c.bundles : b.spk \in e.signed /\ b.ik = e.identity /\ b.ik # 0
        /\ c.entries # {} => e.index # {}
        /\ "batch" \notin c.torn =>
             /\ \A x \in c.entries : x.id <= e.max
             /\ \A x \in c.entries \union e.index : x.key \in c.used \/ x \in e.records
             /\ (e.index # {} /\ \A x \in e.index : x.id <= e.max) => Count <= e.max
    BY DEF Answerable
  <2>1. \A b \in c.bundles : b.spk \in e.signed /\ b.ik = e.identity /\ b.ik # 0
    BY <1>6, <1>7 DEF Answerable
  <2>2. c.entries # {} => e.index # {}
    BY <1>5, <1>6, <1>7 DEF Answerable
  <2>3. ASSUME "batch" \notin c.torn PROVE
             /\ \A x \in c.entries : x.id <= e.max
             /\ \A x \in c.entries \union e.index : x.key \in c.used \/ x \in e.records
             /\ (e.index # {} /\ \A x \in e.index : x.id <= e.max) => Count <= e.max
    <3>1. /\ \A x \in c.entries : x.id <= d.max
          /\ \A x \in c.entries \union d.index : x.key \in c.used \/ x \in d.records
          /\ (d.index # {} /\ \A x \in d.index : x.id <= d.max) => Count <= d.max
      BY <1>6, <2>3 DEF Answerable
    <3>2. \A x \in d.index : x.id <= d.max
      BY <2>3 DEF Whole
    <3>3. d.max <= m /\ c.entries \subseteq c.entries
      BY <1>0, <1>2
    <3>4. \A x \in d.records : x.id <= d.max => x \in e.records
      BY <1>2, <1>4, <1>7
    <3>5. \A x \in c.entries \union d.index : x.key \in c.used \/ x \in e.records
      BY <3>1, <3>2, <3>4
    <3>6. \A x \in new : x \in e.records
      BY <1>4, <1>7
    <3>7. \A x \in c.entries : x.id <= e.max
      <4>1. CASE m = d.max
        BY <4>1, <1>7, <3>1
      <4>2. CASE m = d.max + Count
        <5>1. \A x \in c.entries : x.id \in Nat /\ x.id <= d.max
          BY <1>6, <3>1 DEF KeyEntries
        <5> QED BY <4>2, <5>1, <1>0, <1>2, <1>7
      <4> QED BY <4>1, <4>2
    <3>8. (e.index # {} /\ \A x \in e.index : x.id <= e.max) => Count <= e.max
      <4>1. CASE m = d.max + Count
        BY <4>1, <1>0, <1>2, <1>7
      <4>2. CASE index = d.index /\ m = d.max
        BY <4>2, <3>1, <1>7
      <4>3. CASE index = MadeKeys(d, Count) /\ n = Count /\ m = d.max
        <5>1. PICK x \in index : x \in new
          BY <4>3, <1>5
        <5>2. x.id > d.max
          BY <5>1, <1>2, <1>3
        <5> QED BY <4>3, <5>1, <5>2, <1>2, <1>3, <1>7
      <4> QED BY <4>1, <4>2, <4>3
    <3> QED BY <1>5, <1>7, <3>5, <3>6, <3>7, <3>8
  <2> QED BY <2>1, <2>2, <2>3
<1>12. Roomy(e, c)
  <2>1. d.max <= c.top
    BY <1>6 DEF Roomy
  <2>2. CASE index = d.index /\ m = d.max /\ (index = {} => d.max + Count <= c.top)
    BY <2>1, <2>2, <1>7 DEF Roomy, WantsBatch
  <2>3. CASE index = MadeKeys(d, Count) /\ n = Count /\ m <= c.top
    BY <2>3, <1>5, <1>7 DEF Roomy, WantsBatch
  <2> QED BY <2>2, <2>3
<1>13. e \in Held(c)
  BY <1>7, <1>8, <1>9, <1>10, <1>11, <1>12 DEF Disk, Held
<1> QED BY <1>7, <1>13 DEF e, records

\* A new batch, as long as its numbers do not come round.
LEMMA GenerateBatchKeeps ==
  ASSUME NEW c, NEW t \in Trails(c), Whole(P!Last(t), c), P!Last(t).spk.stamp = "fresh",
         P!Last(t).max + Count <= c.top, c.top < MaxId
  PROVE  LET d == P!Last(t)
             e == P!Last(P!GenerateBatch(t))
         IN  /\ P!GenerateBatch(t) \in Trails(c) /\ Whole(e, c) /\ Full(e)
             /\ e.spk = d.spk /\ e.identity = d.identity
<1> DEFINE d == P!Last(t)
           Stored(n) == WithKeys(d, d.made + n, StoredKeys(d, n), d.index, d.max)
           all == [n \in 1..Count |-> Stored(n)]
           indexed == WithKeys(d, d.made + Count, StoredKeys(d, Count), MadeKeys(d, Count), d.max)
           topped == WithKeys(d, d.made + Count, StoredKeys(d, Count), MadeKeys(d, Count), d.max + Count)
           u == P!GenerateBatch(t)
<1>0. Count \in Nat \ {0} /\ MaxId \in Nat
  BY KeyConstants
<1>1. t \in Seq(Held(c)) /\ t # <<>>
  BY DEF Trails
<1>2. d \in Held(c)
  BY <1>1, TrailEnds
<1>3. d \in Disks /\ Disk(d, c)
  BY <1>2 DEF Held
<1>4. d.max \in Nat /\ d.made \in Nat /\ c.top \in Nat
  BY <1>3 DEF Disks, Disk
<1>5. u = (t \o all) \o <<indexed, topped>>
  <2> DEFINE first == P!FirstId(d)
             Made(n) == [id |-> first + n - 1, key |-> d.made + n]
             St(n) == [d EXCEPT !.made = @ + n,
                                !.records = {r \in @ : r.id \notin first..(first + n - 1)}
                                              \union {Made(i) : i \in 1..n}]
             ix == [St(Count) EXCEPT !.index = {Made(n) : n \in 1..Count}]
             top == first + Count - 1
             tp == [ix EXCEPT !.max = IF top > d.max THEN top ELSE d.max]
  <2>1. u = t \o [n \in 1..Count |-> St(n)] \o <<ix, tp>>
    BY DEF P!GenerateBatch
  <2>2. first = d.max + 1
    BY <1>0, <1>4 DEF P!FirstId
  <2> HIDE DEF d, u, first
  <2>3. top = d.max + Count /\ top > d.max
    BY <1>0, <1>4, <2>2
  <2>4. \A n \in 1..Count : {Made(i) : i \in 1..n} = MadeKeys(d, n)
    BY <1>4, <2>2 DEF MadeKeys
  <2>5. \A n \in 1..Count : first..(first + n - 1) = (d.max + 1)..(d.max + n)
    BY <1>4, <2>2
  <2>6. ASSUME NEW n \in 1..Count PROVE St(n) = Stored(n)
    <3> DEFINE k == d.made + n
               r == {x \in d.records : x.id \notin first..(first + n - 1)} \union {Made(i) : i \in 1..n}
    <3>1. r = StoredKeys(d, n)
      BY <2>4, <2>5 DEF StoredKeys
    <3>2. St(n) = [d EXCEPT !.made = k, !.records = r]
      OBVIOUS
    <3> HIDE DEF k, r, St
    <3>3. [d EXCEPT !.made = k, !.records = r] = WithKeys(d, k, r, d.index, d.max)
      BY <1>3 DEF Disks, WithKeys
    <3> QED BY <3>1, <3>2, <3>3 DEF k
  <2>7. Count \in 1..Count
    BY <1>0
  <2> DEFINE k == d.made + Count
             r == StoredKeys(d, Count)
             made == {Made(n) : n \in 1..Count}
             max == IF top > d.max THEN top ELSE d.max
  <2>8. made = MadeKeys(d, Count) /\ max = d.max + Count
    BY <2>3, <2>4, <2>7
  <2>9. St(Count) = WithKeys(d, k, r, d.index, d.max)
    BY <2>6, <2>7
  <2>10. ix = [St(Count) EXCEPT !.index = made] /\ tp = [ix EXCEPT !.max = max]
    OBVIOUS
  <2> HIDE DEF St, ix, tp, k, r, made, max
  <2>11. ix = WithKeys(d, k, r, made, d.max)
    BY <1>3, <2>9, <2>10 DEF Disks, WithKeys
  <2>12. tp = WithKeys(d, k, r, made, max)
    BY <1>3, <2>10, <2>11 DEF Disks, WithKeys
  <2>13. ix = indexed /\ tp = topped
    BY <2>8, <2>11, <2>12 DEF k, r
  <2>14. [n \in 1..Count |-> St(n)] = all
    BY <2>6
  <2> HIDE DEF Stored, all, indexed, topped
  <2> QED BY <2>1, <2>13, <2>14
<1> HIDE DEF u
<1>6. \A n \in 1..Count : Stored(n) \in Held(c)
  <2> SUFFICES ASSUME NEW n \in 1..Count PROVE Stored(n) \in Held(c)
    OBVIOUS
  <2>1. n \in Nat
    BY <1>0
  <2>2. d.spk.stamp = "fresh" /\ d.max + Count <= c.top /\ Whole(d, c)
    OBVIOUS
  <2> HIDE DEF d
  <2> QED BY <1>2, <1>4, <2>1, <2>2, BatchHeld
<1>7. indexed \in Held(c)
  <2>1. d.spk.stamp = "fresh" /\ d.max <= c.top /\ Whole(d, c)
    BY <1>0, <1>4
  <2> HIDE DEF d
  <2> QED BY <1>0, <1>2, <1>4, <2>1, BatchHeld
<1>8. /\ topped \in Held(c) /\ topped.index = MadeKeys(d, Count) /\ topped.spk = d.spk
      /\ topped.identity = d.identity /\ topped.max = d.max + Count
  <2>1. d.spk.stamp = "fresh" /\ d.max + Count <= c.top /\ Whole(d, c) /\ d.max + Count \in Nat
    BY <1>0, <1>4
  <2> DEFINE m == d.max + Count
             i == MadeKeys(d, Count)
  <2>2. m \in Nat /\ (m = d.max \/ m = d.max + Count) /\ m <= c.top
    BY <2>1
  <2>3. topped = WithKeys(d, d.made + Count, StoredKeys(d, Count), i, m)
    OBVIOUS
  <2>4. i = MadeKeys(d, Count)
    OBVIOUS
  <2> HIDE DEF d, m, i, topped
  <2>5. topped \in Held(c) /\ topped.index = i /\ topped.spk = d.spk /\ topped.identity = d.identity /\ topped.max = m
    <3> DEFINE e == WithKeys(d, d.made + Count, StoredKeys(d, Count), i, m)
    <3>1. Count \in Nat /\ d \in Held(c) /\ Whole(d, c) /\ d.spk.stamp = "fresh"
      BY <1>0, <1>2, <2>1
    <3>2. e \in Held(c)
      BY <3>1, <2>2, <2>4, BatchHeld
    <3>3. e.index = i
      BY <1>3 DEF WithKeys, Disks
    <3>4. e.max = m
      BY <1>3 DEF WithKeys, Disks
    <3>5. e.spk = d.spk /\ e.identity = d.identity
      BY <1>3 DEF WithKeys, Disks
    <3> QED BY <2>3, <3>2, <3>3, <3>4, <3>5
  <2> QED BY <2>5 DEF i, m
<1>9. all \in Seq(Held(c)) /\ all # <<>>
  <2> HIDE DEF Stored
  <2>1. all \in [1..Count -> Held(c)]
    BY <1>6
  <2>2. Count \in 1..Count
    BY <1>0
  <2> QED BY <1>0, <2>1, <2>2
<1> HIDE DEF all, indexed, topped
<1>10. t \o all \in Seq(Held(c))
  BY <1>1, <1>9
<1>11. u \in Seq(Held(c)) /\ u # <<>> /\ P!Last(u) = topped
  <2> DEFINE both == <<indexed, topped>>
             most == t \o all
  <2>1. both \in Seq(Held(c)) /\ both # <<>> /\ P!Last(both) = topped
    BY <1>7, <1>8, TrailOfTwo
  <2>2. u = most \o both /\ most \in Seq(Held(c))
    BY <1>5, <1>10
  <2> HIDE DEF both, most
  <2> QED BY <2>1, <2>2, TrailGrows
<1>12. /\ \A e \in MadeKeys(d, Count) : e.id \in (d.max + 1)..(d.max + Count)
                                        /\ e.key \in (d.made + 1)..(d.made + Count)
       /\ Cardinality(MadeKeys(d, Count)) = Count
  BY <1>0, <1>3, MadeKeysAreNew
<1>13. \A k \in c.used : k \in 1..d.made
  BY <1>3 DEF Disk, OneEach
<1> HIDE DEF d
<1>14. Whole(topped, c)
  BY <1>0, <1>4, <1>8, <1>12, <1>13 DEF Whole
<1>15. Full(topped)
  BY <1>0, <1>8, <1>12 DEF Full
<1> QED BY <1>8, <1>11, <1>14, <1>15 DEF Trails, u, d

-----------------------------------------------------------------------------
(* ensure_prekeys.                                                         *)

LEMMA BlankIsDisk == P!Blank \in Disks
BY DEF P!Blank, Disks, SignedPreKeys, KeyEntries

LEMMA LegacyFields ==
  /\ P!Legacy \in Disks
  /\ P!Legacy.records = MadeKeys(P!Blank, Count)
  /\ P!Legacy.index = {e \in MadeKeys(P!Blank, Count) : e.id # Count}
  /\ P!Legacy.max = Count /\ P!Legacy.made = Count + 2 /\ P!Legacy.identity = Count + 2
  /\ P!Legacy.spk = [id |-> 1, record |-> Count + 1, public |-> Count + 1, stamp |-> "fresh"]
  /\ P!Legacy.signed = {[id |-> 1, key |-> Count + 1]}
  /\ IsFiniteSet(P!Legacy.records) /\ Cardinality(P!Legacy.records) = Count
  /\ \A e \in P!Legacy.records : e.id \in 1..Count /\ e.key \in 1..Count
<1> DEFINE all == {[id |-> i, key |-> i] : i \in 1..Count}
           spk == [id |-> 1, record |-> Count + 1, public |-> Count + 1, stamp |-> "fresh"]
           index == {e \in all : e.id # Count}
           signed == {[id |-> 1, key |-> Count + 1]}
           id == Count + 2
<1>1. Count \in Nat \ {0}
  BY KeyConstants
<1>2. P!Blank.max = 0 /\ P!Blank.made = 0 /\ P!Blank \in Disks
  BY BlankIsDisk DEF P!Blank
<1>3. all = MadeKeys(P!Blank, Count)
  BY <1>1, <1>2 DEF MadeKeys
<1>4. P!Legacy = [P!Blank EXCEPT !.spk = spk, !.signed = signed, !.index = index, !.records = all,
                                 !.max = Count, !.identity = id, !.made = id]
  BY DEF P!Legacy
<1>5. /\ spk \in SignedPreKeys /\ signed \in SUBSET KeyEntries /\ index \in SUBSET KeyEntries
      /\ all \in SUBSET KeyEntries /\ id \in Nat
  BY <1>1 DEF SignedPreKeys, KeyEntries
<1>6. /\ IsFiniteSet(all) /\ Cardinality(all) = Count
  BY <1>1, <1>2, <1>3, MadeKeysAreNew
<1>7. \A e \in all : e.id \in 1..Count /\ e.key \in 1..Count
  OBVIOUS
<1> HIDE DEF spk, signed, index, all, id
<1>8. /\ P!Legacy \in Disks /\ P!Legacy.records = all /\ P!Legacy.index = index /\ P!Legacy.max = Count
      /\ P!Legacy.made = id /\ P!Legacy.identity = id /\ P!Legacy.spk = spk /\ P!Legacy.signed = signed
  BY <1>1, <1>2, <1>4, <1>5 DEF Disks
<1> QED BY <1>3, <1>6, <1>7, <1>8 DEF index, id, spk, signed

\* An index that is made anew of the first numbers is of prekeys that are there.
RepairedOf(d) == [d EXCEPT !.index = P!Repaired(d)]

LEMMA RepairHeld ==
  ASSUME NEW c, NEW d \in Held(c), Whole(d, c), d.spk.stamp = "fresh", d.index # {}, P!Repaired(d) # {}
  PROVE  LET e == RepairedOf(d)
         IN  /\ e \in Held(c) /\ Whole(e, c) /\ e.index = P!Repaired(d)
             /\ e.spk = d.spk /\ e.identity = d.identity
<1> DEFINE e == RepairedOf(d)
           all == P!Repaired(d)
<1>0. Count \in Nat \ {0}
  BY KeyConstants
<1>1. d \in Disks /\ Disk(d, c)
  BY DEF Held
<1>2. all = {r \in d.records : r.id \in 1..Count} /\ d.records \in SUBSET KeyEntries
  BY <1>1 DEF Disks, P!Repaired
<1> HIDE DEF all
<1>3. e = [d EXCEPT !.index = all] /\ all \in SUBSET KeyEntries
  BY <1>2 DEF RepairedOf, all
<1> HIDE DEF e
<1>4. /\ e \in Disks /\ e.index = all /\ e.records = d.records /\ e.spk = d.spk /\ e.signed = d.signed
      /\ e.max = d.max /\ e.made = d.made /\ e.identity = d.identity
  BY <1>1, <1>3 DEF Disks
<1>5. /\ c.entries \subseteq KeyEntries /\ c.top \in Nat
      /\ IsFiniteSet(d.index) /\ IsFiniteSet(d.records)
      /\ OneEach(d, c) /\ SpkKept(d) /\ Answerable(d, c) /\ Roomy(d, c)
  BY <1>1 DEF Disk
<1>6. IsFiniteSet(all) /\ all # {}
  BY <1>2, <1>5, FS_Subset DEF all
<1>7. OneEach(e, c)
  BY <1>2, <1>4, <1>5 DEF OneEach, Known
<1>8. SpkKept(e)
  BY <1>4, <1>5 DEF SpkKept
<1>9. ASSUME {"batch", "reset"} \intersect c.torn = {} PROVE \A x \in e.index : x.id <= e.max
  <2>1. Count <= d.max
    BY <1>5, <1>9 DEF Answerable, Whole
  <2>2. \A x \in all : x.id \in Nat /\ x.id <= Count
    BY <1>2
  <2>3. d.max \in Nat
    BY <1>1 DEF Disks
  <2> QED BY <1>0, <1>4, <2>1, <2>2, <2>3
<1>10. Answerable(e, c)
  <2>1. "reset" \notin c.torn /\ "batch" \notin c.torn => Count <= d.max
    BY <1>5 DEF Answerable, Whole
  <2> QED BY <1>2, <1>4, <1>5, <1>6, <2>1 DEF Answerable
<1>11. Roomy(e, c)
  BY <1>4, <1>5, <1>6 DEF Roomy, WantsBatch
<1>12. e \in Held(c)
  BY <1>4, <1>5, <1>6, <1>7, <1>8, <1>10, <1>11 DEF Disk, Held
<1>13. \A x \in e.index : x.key \notin c.used
  BY <1>2, <1>4, <1>5 DEF OneEach
<1>14. Whole(e, c)
  BY <1>9, <1>13 DEF Whole
<1> QED BY <1>4, <1>12, <1>14 DEF e, all

\* What ensure_prekeys leaves, wherever it is cut; at its end the signed prekey is fresh and
\* there are prekeys enough.  Where there were, and it had nothing to do, they are the same.
LEMMA EnsureKeeps ==
  ASSUME NEW c, c.top < MaxId,
         NEW t \in Trails(c), Whole(P!Last(t), c), Stocked(P!Last(t), c)
  PROVE  LET d == P!Last(t)
             u == P!Ensure(t)
             e == P!Last(u)
         IN  /\ u \in Trails(c) /\ Whole(e, c) /\ e.spk.stamp = "fresh" /\ e.identity = d.identity
             /\ c.torn = {} => Full(e)
             /\ (Full(d) /\ ~P!Changes(d)) => e.index = d.index
<1> DEFINE d == P!Last(t)
           u == P!Ensure(t)
           e == P!Last(u)
           first == P!GenerateSpk(t, d.spk.id + 1)
           due == P!IsRotated(d)
           short == P!Cardinality(d.index) \in 1..(Count - 1) /\ P!Repaired(d) # {}
<1>0. Count \in Nat \ {0}
  BY KeyConstants
<1>1. t \in Seq(Held(c)) /\ t # <<>>
  BY DEF Trails
<1>2. d \in Held(c)
  BY <1>1, TrailEnds
<1>3. d \in Disks /\ Disk(d, c)
  BY <1>2 DEF Held
<1>4. /\ IsFiniteSet(d.index) /\ Cardinality(d.index) \in Nat /\ (Cardinality(d.index) = 0 <=> d.index = {})
      /\ P!Cardinality(d.index) = Cardinality(d.index)
  <2>1. IsFiniteSet(d.index)
    BY <1>3 DEF Disk
  <2> QED BY <2>1, FS_CardinalityType, FS_EmptySet, CardinalityIs
<1>5. Whole(d, c) /\ Stocked(d, c) /\ (due <=> d.spk.stamp # "fresh") /\ due \in BOOLEAN
  BY DEF P!IsRotated
<1>6. WantsBatch(d) => d.max + Count <= c.top
  BY <1>3 DEF Disk, Roomy
<1>7. ~due /\ d.index # {} => /\ P!Changes(d) <=> /\ P!Cardinality(d.index) < Count
                                                  /\ P!Cardinality(P!Repaired(d)) > P!Cardinality(d.index)
  BY DEF P!Changes
<1>8. u = CASE due -> P!GenerateBatch(first)
            [] ~due /\ d.index = {} -> P!GenerateBatch(t)
            [] ~due /\ short -> Append(t, RepairedOf(d))
            [] OTHER -> t
  BY DEF P!Ensure, RepairedOf
<1>9. due \/ d.index = {} => P!Changes(d)
  BY DEF P!Changes
<1>10. CASE due
  <2> DEFINE f == P!Last(first)
  <2>1. u = P!GenerateBatch(first)
    BY <1>8, <1>10
  <2>2. /\ first \in Trails(c) /\ Whole(f, c) /\ f.spk.stamp = "fresh" /\ f.identity = d.identity
        /\ f.max = d.max
    BY <1>5, <1>10, GenerateSpkKeeps
  <2>3. f.max + Count <= c.top
    BY <1>5, <1>6, <1>10, <2>2 DEF WantsBatch
  <2> HIDE DEF first, u, due, d
  <2>4. u \in Trails(c) /\ Whole(e, c) /\ Full(e) /\ e.spk = f.spk /\ e.identity = f.identity
    BY <2>1, <2>2, <2>3, GenerateBatchKeeps
  <2> QED BY <1>9, <1>10, <2>2, <2>4 DEF u, d
<1>11. CASE ~due /\ d.index = {}
  <2>1. u = P!GenerateBatch(t)
    <3>1. ~short
      BY <1>4, <1>11
    <3> HIDE DEF d, u, first, due, short
    <3> QED BY <1>8, <1>11, <3>1
  <2>2. d.spk.stamp = "fresh" /\ d.max + Count <= c.top
    BY <1>5, <1>6, <1>11 DEF WantsBatch
  <2>3. u \in Trails(c) /\ Whole(e, c) /\ Full(e) /\ e.spk = d.spk /\ e.identity = d.identity
    BY <1>5, <2>1, <2>2, GenerateBatchKeeps
  <2> QED BY <1>9, <1>11, <2>2, <2>3
<1>12. CASE ~due /\ d.index # {} /\ short
  <2>1. u = Append(t, RepairedOf(d))
    BY <1>8, <1>12
  <2>2. d.spk.stamp = "fresh" /\ d.index # {} /\ P!Repaired(d) # {}
    BY <1>5, <1>12
  <2>3. ~Full(d)
    BY <1>0, <1>4, <1>12 DEF Full
  <2> HIDE DEF d, u, due
  <2>4. LET x == RepairedOf(d)
        IN  x \in Held(c) /\ Whole(x, c) /\ x.index = P!Repaired(d) /\ x.spk = d.spk /\ x.identity = d.identity
    BY <1>2, <1>5, <2>2, RepairHeld
  <2>5. u \in Trails(c) /\ e = RepairedOf(d)
    BY <1>1, <2>1, <2>4, TrailAppends DEF Trails
  <2>6. c.torn = {} => Full(e)
    <3> SUFFICES ASSUME c.torn = {} PROVE Full(e)
      OBVIOUS
    <3>1. d.records = P!Legacy.records
      BY <1>5, <2>2, <2>3 DEF Stocked, Unrepaired
    <3>2. P!Repaired(d) = P!Legacy.records
      BY <3>1, LegacyFields DEF P!Repaired
    <3>3. Cardinality(e.index) = Count
      BY <2>4, <2>5, <3>2, LegacyFields
    <3> QED BY <1>0, <3>3 DEF Full
  <2> QED BY <2>2, <2>3, <2>4, <2>5, <2>6 DEF u, d
<1>13. CASE ~due /\ d.index # {} /\ ~short
  <2>1. u = t
    BY <1>8, <1>13
  <2>2. e = d
    BY <2>1
  <2>3. d.spk.stamp = "fresh"
    BY <1>5, <1>13
  <2>4. c.torn = {} => Full(d)
    <3> SUFFICES ASSUME c.torn = {}, ~Full(d) PROVE FALSE
      OBVIOUS
    <3>1. d.records = P!Legacy.records
      BY <1>5, <1>13 DEF Stocked, Unrepaired
    <3>2. P!Repaired(d) = P!Legacy.records
      BY <3>1, LegacyFields DEF P!Repaired
    <3>3. P!Repaired(d) # {}
      BY <1>0, <3>2, LegacyFields, FS_EmptySet
    <3>4. Cardinality(d.index) \in 1..(Count - 1)
      BY <1>0, <1>4, <1>13 DEF Full
    <3> QED BY <1>4, <1>13, <3>3, <3>4
  <2> HIDE DEF d, u, e
  <2>5. u \in Trails(c) /\ Whole(e, c)
    BY <2>1, <2>2, <1>5
  <2> QED BY <2>2, <2>3, <2>4, <2>5 DEF u, d, e
<1> QED BY <1>10, <1>11, <1>12, <1>13

\* A bundle that is built: there is an identity, or there is one made, and then prekeys.
LEMMA BuiltKeeps ==
  ASSUME NEW c, c.top < MaxId,
         NEW t \in Trails(c), Whole(P!Last(t), c), Stocked(P!Last(t), c)
  PROVE  LET e == P!Last(P!Built(t))
         IN  P!Built(t) \in Trails(c) /\ Whole(e, c) /\ e.spk.stamp = "fresh" /\ (c.torn = {} => Full(e))
<1> DEFINE i == P!EnsureIdentity(t)
<1>1. i \in Trails(c) /\ Fit(P!Last(i), c)
  BY EnsureIdentityKeeps
<1>2. P!Built(t) = P!Ensure(i)
  BY DEF P!Built
<1> HIDE DEF i
<1> QED BY <1>1, <1>2, EnsureKeeps DEF Fit

-----------------------------------------------------------------------------
(* replace_used_prekey.                                                    *)

LEMMA PutSize ==
  ASSUME NEW S \in SUBSET KeyEntries, IsFiniteSet(S), \A e, f \in S : e.id = f.id => e = f,
         NEW id \in Nat, NEW key \in Nat, \A e \in S : e.key # key
  PROVE  IsFiniteSet(P!Put(S, id, key)) /\ Cardinality(P!Put(S, id, key)) >= Cardinality(S)
<1> DEFINE new == [id |-> id, key |-> key]
           rest == {e \in S : e.id # id}
<1>1. P!Put(S, id, key) = rest \union {new}
  BY DEF P!Put
<1>2. new \notin rest
  OBVIOUS
<1>3. IsFiniteSet(rest)
  BY FS_Subset
<1>4. Cardinality(S) \in Nat /\ Cardinality(rest) \in Nat
  BY <1>3, FS_CardinalityType
<1>5. Cardinality(rest) >= Cardinality(S) - 1
  <2>1. CASE \E e \in S : e.id = id
    <3>1. PICK e \in S : e.id = id
      BY <2>1
    <3>2. rest = S \ {e}
      BY <3>1
    <3>3. Cardinality(S \ {e}) = Cardinality(S) - 1
      BY <3>1, FS_RemoveElement
    <3> HIDE DEF rest
    <3> QED BY <3>2, <3>3, <1>4
  <2>2. CASE ~\E e \in S : e.id = id
    <3>1. rest = S
      BY <2>2
    <3> QED BY <3>1, <1>4
  <2> QED BY <2>1, <2>2
<1> HIDE DEF new, rest
<1>6. IsFiniteSet(rest \union {new}) /\ Cardinality(rest \union {new}) = Cardinality(rest) + 1
  BY <1>2, <1>3, FS_AddElement
<1> QED BY <1>1, <1>4, <1>5, <1>6

\* What a key exchange that is not replaced yet leaves of Whole.
Replaceable(d, c, id) ==
  /\ ~\E r \in d.records : r.id = id
  /\ c.entries # {}
  /\ {"batch", "reset"} \intersect c.torn = {} => id <= d.max /\ \A e \in d.index : e.id <= d.max
  /\ "replacement" \notin c.torn => \A e \in d.index : e.key \in c.used => e.id = id

LEMMA ReplaceKeeps ==
  ASSUME NEW c, NEW d \in Held(c), NEW id \in Nat, Replaceable(d, c, id), Stocked(d, c)
  PROVE  LET t == P!Replace(<<d>>, id)
         IN  t \in Trails(c) /\ Whole(P!Last(t), c) /\ Stocked(P!Last(t), c)
<1> DEFINE k == d.made + 1
           new == [id |-> id, key |-> k]
           records == P!Put(d.records, id, k)
           index == P!Put(d.index, id, k)
           r == WithKeys(d, k, records, d.index, d.max)
           i == WithKeys(d, k, records, index, d.max)
           t == P!Replace(<<d>>, id)
<1>1. d \in Disks /\ Disk(d, c)
  BY DEF Held
<1>2. /\ d.made \in Nat /\ d.max \in Nat /\ k \in Nat /\ d.index \in SUBSET KeyEntries
      /\ d.records \in SUBSET KeyEntries /\ new \in KeyEntries
  BY <1>1 DEF Disks, KeyEntries
<1>3. /\ c.entries \subseteq KeyEntries /\ c.top \in Nat
      /\ IsFiniteSet(d.index) /\ IsFiniteSet(d.records)
      /\ OneEach(d, c) /\ SpkKept(d) /\ Answerable(d, c) /\ Roomy(d, c)
  BY <1>1 DEF Disk
<1>4. records = d.records \union {new} /\ index = {e \in d.index : e.id # id} \union {new}
  BY DEF P!Put, Replaceable
<1>5. t = <<d>> \o <<r, i>>
  <2> DEFINE s == P!Last(<<d>>)
             r1 == [s EXCEPT !.made = @ + 1, !.records = P!Put(@, id, s.made + 1)]
             i1 == [r1 EXCEPT !.index = P!Put(@, id, s.made + 1)]
  <2>1. t = <<d>> \o <<r1, i1>>
    BY DEF P!Replace
  <2>2. s = d
    BY DEF P!Last
  <2> HIDE DEF s, t
  <2>3. r1 = [d EXCEPT !.made = k, !.records = records]
    BY <2>2
  <2> HIDE DEF r1, k, records
  <2>4. r1 = r
    BY <1>1, <2>3 DEF WithKeys, Disks
  <2>5. i1 = [r EXCEPT !.index = index]
    <3>1. r1.index = d.index
      BY <1>1, <2>4 DEF WithKeys, Disks
    <3> QED BY <2>2, <2>4, <3>1 DEF k
  <2> HIDE DEF i1, index, r1
  <2>6. i1 = i
    BY <1>1, <2>5 DEF WithKeys, Disks
  <2> HIDE DEF r, i
  <2> QED BY <2>1, <2>4, <2>6
<1> HIDE DEF new, records, index
<1>6. records \in SUBSET KeyEntries /\ index \in SUBSET KeyEntries
  BY <1>2, <1>4
<1>7. /\ r \in Disks /\ r.made = k /\ r.records = records /\ r.index = d.index /\ r.max = d.max
      /\ r.spk = d.spk /\ r.signed = d.signed /\ r.identity = d.identity
      /\ i \in Disks /\ i.made = k /\ i.records = records /\ i.index = index /\ i.max = d.max
      /\ i.spk = d.spk /\ i.signed = d.signed /\ i.identity = d.identity
  <2> HIDE DEF k
  <2> QED BY <1>1, <1>2, <1>6, KeysFields
<1> HIDE DEF r, i
<1>8. /\ \A e \in Known(d, c) : e.key \in 1..d.made
      /\ \A e, f \in Known(d, c) : e.key = f.key => e = f
      /\ \A e, f \in d.records : e.id = f.id => e = f
      /\ \A e, f \in d.index : e.id = f.id => e = f
      /\ \A u \in c.used : u \in 1..d.made
      /\ \A e \in d.records : e.key \notin c.used
  BY <1>3 DEF OneEach
<1>9. /\ new.id = id /\ new.key = k /\ d.records \subseteq Known(d, c) /\ d.index \subseteq Known(d, c)
  BY DEF new, Known
<1>10. /\ IsFiniteSet(records) /\ IsFiniteSet(index) /\ Cardinality(index) >= Cardinality(d.index)
  <2>1. IsFiniteSet(records)
    BY <1>3, <1>4, FS_AddElement
  <2>2. \A e \in d.index : e.key # k
    BY <1>2, <1>8, <1>9
  <2> HIDE DEF k
  <2> QED BY <1>2, <1>3, <1>8, <2>1, <2>2, PutSize DEF index
<1>11. \A x \in {r, i} : OneEach(x, c)
  <2> SUFFICES ASSUME NEW x \in {r, i} PROVE OneEach(x, c)
    OBVIOUS
  <2>1. Known(x, c) \subseteq Known(d, c) \union {new}
    BY <1>4, <1>7 DEF Known
  <2>2. x.records = d.records \union {new} /\ x.made = k
    BY <1>4, <1>7
  <2>3. x.index = d.index \/ x.index = {e \in d.index : e.id # id} \union {new}
    BY <1>4, <1>7
  <2>4. \A e \in Known(d, c) : e.key \in 1..k /\ e.key # k
    BY <1>2, <1>8
  <2>5. k \in 1..k
    BY <1>2
  <2>6. \A e \in Known(x, c) : e.key \in 1..k
    BY <1>9, <2>1, <2>4, <2>5
  <2>7. \A e, f \in Known(x, c) : e.key = f.key => e = f
    BY <1>8, <1>9, <2>1, <2>4
  <2>8. \A e, f \in x.records : e.id = f.id => e = f
    BY <1>8, <1>9, <2>2 DEF Replaceable
  <2>9. \A e, f \in x.index : e.id = f.id => e = f
    BY <1>8, <1>9, <2>3
  <2>10. \A u \in c.used : u \in 1..k /\ u # k
    BY <1>2, <1>8
  <2>11. \A e \in x.records : e.key \notin c.used
    BY <1>8, <1>9, <2>2, <2>10
  <2> QED BY <2>2, <2>6, <2>7, <2>8, <2>9, <2>10, <2>11 DEF OneEach
<1>12. SpkKept(r) /\ SpkKept(i)
  BY <1>3, <1>7 DEF SpkKept
<1>13. ASSUME "batch" \notin c.torn, "reset" \notin c.torn
       PROVE  /\ Count <= d.max /\ \A e \in d.index : e.id <= d.max
              /\ id <= d.max /\ \A e \in index : e.id <= d.max
  <2>1. d.index # {} /\ \A e \in d.index : e.id <= d.max
    BY <1>3, <1>13 DEF Answerable, Replaceable
  <2>2. id <= d.max
    BY <1>13 DEF Replaceable
  <2> QED BY <1>3, <1>4, <1>9, <1>13, <2>1, <2>2 DEF Answerable
<1>14. Answerable(r, c)
  BY <1>3, <1>4, <1>7 DEF Answerable
<1>15. Answerable(i, c)
  BY <1>3, <1>4, <1>7, <1>13 DEF Answerable
<1>16. Roomy(r, c) /\ Roomy(i, c)
  <2>1. index # {}
    BY <1>4
  <2> QED BY <1>3, <1>7, <2>1 DEF Roomy, WantsBatch
<1>17. r \in Held(c) /\ i \in Held(c)
  BY <1>3, <1>7, <1>10, <1>11, <1>12, <1>14, <1>15, <1>16 DEF Held, Disk
<1>18. Whole(i, c)
  <2>1. "replacement" \notin c.torn => \A e \in index : e.key \notin c.used
    <3>1. k \notin c.used
      BY <1>2, <1>8
    <3> QED BY <1>4, <1>9, <3>1 DEF Replaceable
  <2> QED BY <1>7, <1>13, <2>1 DEF Whole
<1>19. Stocked(i, c)
  <2>1. c.torn = {} => Full(d)
    BY DEF Stocked, Replaceable
  <2>2. Full(d) => Full(i)
    <3>1. Cardinality(d.index) \in Nat /\ Cardinality(index) \in Nat /\ Count \in Nat
      BY <1>3, <1>10, FS_CardinalityType, KeyConstants
    <3> QED BY <1>7, <1>10, <3>1 DEF Full
  <2> QED BY <2>1, <2>2 DEF Stocked
<1>20. t \in Seq(Held(c)) /\ t # <<>> /\ P!Last(t) = i
  <2> DEFINE both == <<r, i>>
  <2>1. both \in Seq(Held(c)) /\ both # <<>> /\ P!Last(both) = i
    BY <1>17, TrailOfTwo
  <2>2. <<d>> \in Seq(Held(c)) /\ t = <<d>> \o both
    BY <1>5
  <2> HIDE DEF both, t
  <2> QED BY <2>1, <2>2, TrailGrows
<1> QED BY <1>18, <1>19, <1>20 DEF Trails

-----------------------------------------------------------------------------
(* The disk, and what is out.                                              *)

Takers == [key : KeyEntries, spk : KeyEntries, ik : Nat, met : BOOLEAN]

\* The bundles that are out, and the prekeys that are in them or were taken.
Out == {b \in {server} \union Range(wire) : b.keys # {}}
Handed == (UNION {b.keys : b \in Out}) \union {peers[p].key : p \in {q \in Peers : peers[q] # P!Idle}}
Now == [bundles |-> Out, entries |-> Handed, used |-> used, torn |-> torn, top |-> Count * (happened + 2)]

\* A batch is made at first, after a reset and when a signed prekey is due: its numbers do not
\* come round if there are more of them than there will be batches.
NumbersLast == Count * (MaxConnects + 2) < MaxId

Latest == IF wire = <<>> THEN server ELSE Last(wire)
Followed ==
  (torn = {} /\ ~lost /\ ~pending) => (server = P!None /\ wire = <<>>) \/ Latest.keys = disk.index

\* The inductive invariant.
KeysSound ==
  /\ server \in KeyBundles \union {P!None} /\ wire \in Seq(KeyBundles)
  /\ peers \in [Peers -> Takers]
  /\ happened \in 0..MaxConnects /\ lost \in BOOLEAN /\ pending \in BOOLEAN
  /\ Fit(disk, Now)
  /\ Followed

\* No bundle is sent with a prekey that was used.
NotSoiled ==
  \A b \in Range(wire') \ Range(wire) :
    "replacement" \notin torn => \A e \in b.keys : e.key \notin used'

-----------------------------------------------------------------------------
(* What is out, from one state to the next.                                *)

LEMMA NoneIsEmpty == P!None.keys = {} /\ P!None \notin KeyBundles
BY DEF P!None, KeyBundles

LEMMA OutOf ==
  ASSUME NEW S, Range(wire') \union {server'} \subseteq Range(wire) \union {server, P!None} \union S
  PROVE  Out' \subseteq Out \union S
BY NoneIsEmpty DEF Out

\* The takers are who they were.
TakenFrom ==
  \A p \in Peers : peers'[p] # P!Idle => peers[p] # P!Idle /\ peers'[p].key = peers[p].key

LEMMA HandedOf ==
  ASSUME NEW S, Out' \subseteq Out \union S, TakenFrom
  PROVE  Handed' \subseteq Handed \union UNION {b.keys : b \in S}
<1> SUFFICES ASSUME NEW e \in Handed' PROVE e \in Handed \union UNION {b.keys : b \in S}
  OBVIOUS
<1>1. (\E b \in Out' : e \in b.keys) \/ (\E p \in Peers : peers'[p] # P!Idle /\ e = peers'[p].key)
  BY DEF Handed
<1>2. CASE \E b \in Out' : e \in b.keys
  BY <1>2 DEF Handed
<1>3. CASE \E p \in Peers : peers'[p] # P!Idle /\ e = peers'[p].key
  BY <1>3 DEF Handed, TakenFrom
<1> QED BY <1>1, <1>2, <1>3

LEMMA NowFields ==
  /\ Now.bundles = Out /\ Now.entries = Handed /\ Now.used = used /\ Now.torn = torn
  /\ Now.top = Count * (happened + 2)
  /\ Now'.bundles = Out' /\ Now'.entries = Handed' /\ Now'.used = used' /\ Now'.torn = torn'
  /\ Now'.top = Count * (happened' + 2)
BY DEF Now

LEMMA TopGrows ==
  ASSUME NumbersLast, happened \in 0..MaxConnects, happened' = happened \/ P!Event
  PROVE  /\ Now.top \in Nat /\ Now.top < MaxId /\ Count <= Now.top
         /\ Now'.top \in Nat /\ Now.top <= Now'.top
         /\ P!Event => Now'.top = Now.top + Count
         /\ happened' \in 0..MaxConnects
<1>1. Count \in Nat \ {0} /\ MaxConnects \in Nat /\ MaxId \in Nat
  BY KeyConstants
<1>2. happened \in Nat /\ happened + 2 \in Nat
  BY <1>1
<1>3. happened' \in 0..MaxConnects /\ happened' \in Nat /\ (P!Event => happened' = happened + 1)
  BY <1>1, <1>2 DEF P!Event
<1>4. \A n \in Nat : Count * n \in Nat /\ Count * (n + 1) = Count * n + Count
  BY <1>1
<1>5. \A m, n \in Nat : m <= n => Count * m <= Count * n
  BY <1>1
<1>6. Count * (happened + 2) <= Count * (MaxConnects + 2) /\ Count * 1 <= Count * (happened + 2)
  BY <1>1, <1>2, <1>5
<1>7. Count * (happened + 2) \in Nat /\ Count * (happened' + 2) \in Nat
  <2>1. \A n \in Nat : n + 2 \in Nat
    OBVIOUS
  <2> QED BY <1>2, <1>3, <1>4, <2>1
<1>8. P!Event => Count * (happened' + 2) = Count * (happened + 2) + Count
  <2>1. P!Event => happened' + 2 = (happened + 2) + 1
    BY <1>2, <1>3
  <2> QED BY <1>2, <1>4, <2>1
<1>9. Count * (MaxConnects + 2) \in Nat /\ Count * 1 = Count
  <2>1. MaxConnects + 2 \in Nat /\ 1 \in Nat
    BY <1>1
  <2> QED BY <1>1, <1>4, <2>1
<1> DEFINE m == Count * (happened + 2)
           n == Count * (happened' + 2)
           most == Count * (MaxConnects + 2)
<1>10. Now.top = m /\ Now'.top = n
  BY NowFields
<1>11. /\ m \in Nat /\ n \in Nat /\ most \in Nat /\ (P!Event => n = m + Count) /\ most < MaxId
       /\ m <= most /\ Count <= m
  BY <1>6, <1>7, <1>8, <1>9 DEF NumbersLast
<1>12. ~P!Event => n = m
  OBVIOUS
<1> HIDE DEF m, n, most
<1> QED BY <1>1, <1>3, <1>10, <1>11, <1>12

\* What is held against much is held against less.
LEMMA HeldAgain ==
  ASSUME NEW c, NEW x, NEW d \in Held(c), c.torn \subseteq x.torn, x.used = c.used,
         x.bundles \subseteq c.bundles, x.entries \subseteq c.entries, c.top <= x.top, x.top \in Nat
  PROVE  d \in Held(x)
<1>1. d \in Disks /\ Disk(d, c)
  BY DEF Held
<1>2. OneEach(d, x)
  BY <1>1 DEF Disk, OneEach, Known
<1>3. Answerable(d, x)
  BY <1>1 DEF Disk, Answerable
<1>4. Roomy(d, x)
  <2>1. d.max \in Nat /\ c.top \in Nat /\ Count \in Nat
    BY <1>1, KeyConstants DEF Disk, Disks
  <2> QED BY <1>1, <2>1 DEF Disk, Roomy
<1> QED BY <1>1, <1>2, <1>3, <1>4 DEF Disk, Held

\* A bundle that is built, if it is, is what the disk has.
BundleOf(d) == [keys |-> d.index, spk |-> [id |-> d.spk.id, key |-> d.spk.public], ik |-> d.identity]

LEMMA BundleIs ==
  ASSUME NEW c, NEW d \in Held(c)
  PROVE  P!Bundle(d) = P!None \/ (P!Bundle(d) = BundleOf(d) /\ d.identity # 0 /\ d.index # {})
<1>1. P!Cardinality(d.index) = Cardinality(d.index) /\ MinCount \in Nat \ {0}
  BY CardinalityIs, KeyConstants
<1>2. d.index = {} => Cardinality(d.index) = 0
  BY FS_EmptySet
<1>3. P!Bundle(d) = IF identity' = 0 \/ d.identity = 0 \/ P!Cardinality(d.index) < MinCount
                    THEN P!None ELSE BundleOf(d)
  BY DEF P!Bundle, BundleOf
<1> QED BY <1>1, <1>2, <1>3

\* Once it is out it is answered: the signed prekey is kept, and so are the prekeys.
LEMMA PublishedFits ==
  ASSUME NEW c, NEW x, NEW d \in Held(c), Whole(d, c), d.spk.stamp = "fresh", c.torn = {} => Full(d),
         d.identity # 0, d.index # {},
         x.torn = c.torn, x.used = c.used, c.top <= x.top, x.top \in Nat,
         x.bundles \subseteq c.bundles \union {BundleOf(d)},
         x.entries \subseteq c.entries \union d.index
  PROVE  Fit(d, x) /\ BundleOf(d) \in KeyBundles
<1>1. d \in Disks /\ Disk(d, c)
  BY DEF Held
<1>2. /\ d.index \in SUBSET KeyEntries /\ d.max \in Nat /\ d.identity \in Nat
      /\ [id |-> d.spk.id, key |-> d.spk.public] \in KeyEntries
  BY <1>1 DEF Disks, SignedPreKeys, KeyEntries
<1>3. OneEach(d, x)
  BY <1>1 DEF Disk, OneEach, Known
<1>4. Answerable(d, x)
  <2>1. BundleOf(d).spk \in d.signed /\ BundleOf(d).ik = d.identity
    BY <1>1 DEF Disk, SpkKept, BundleOf
  <2>2. {"batch", "reset"} \intersect c.torn = {} => \A e \in d.index : e.id <= d.max
    BY DEF Whole
  <2>3. Answerable(d, c)
    BY <1>1 DEF Disk
  <2> HIDE DEF BundleOf
  <2> QED BY <2>1, <2>2, <2>3 DEF Answerable
<1>5. Roomy(d, x)
  <2>1. d.max \in Nat /\ c.top \in Nat /\ Count \in Nat
    BY <1>1, KeyConstants DEF Disk, Disks
  <2> QED BY <1>1, <2>1 DEF Disk, Roomy
<1>6. d \in Held(x)
  BY <1>1, <1>2, <1>3, <1>4, <1>5 DEF Disk, Held
<1>7. Whole(d, x) /\ Stocked(d, x)
  BY DEF Whole, Stocked
<1>8. BundleOf(d) \in KeyBundles
  BY <1>2 DEF BundleOf, KeyBundles
<1> QED BY <1>6, <1>7, <1>8 DEF Fit

LEMMA FitAgain ==
  ASSUME NEW c, NEW x, NEW d, Fit(d, c), x.torn = c.torn, x.used = c.used,
         x.bundles \subseteq c.bundles, x.entries \subseteq c.entries, c.top <= x.top, x.top \in Nat
  PROVE  Fit(d, x)
BY HeldAgain DEF Fit, Whole, Stocked

\* What a handler holds the disk against: what is out when it begins, and what it uses up.
Against(u) == [bundles |-> Out, entries |-> Handed, used |-> u, torn |-> torn, top |-> Now.top]

LEMMA AgainstFields ==
  ASSUME NEW u
  PROVE  /\ Against(u).bundles = Out /\ Against(u).entries = Handed /\ Against(u).used = u
         /\ Against(u).torn = torn /\ Against(u).top = Now.top
BY DEF Against

LEMMA DiskFits ==
  ASSUME KeysSound, NumbersLast
  PROVE  Fit(disk, Against(used)) /\ disk \in Held(Against(used)) /\ disk \in Disks
         /\ Whole(disk, Against(used)) /\ Stocked(disk, Against(used)) /\ Against(used).top < MaxId
<1>1. Against(used) = Now
  BY NowFields DEF Against, Now
<1>2. Fit(disk, Now) /\ Now.top < MaxId
  <2>1. Count * (happened + 2) < MaxId
    <3>1. Count \in Nat \ {0} /\ MaxConnects \in Nat /\ MaxId \in Nat /\ happened \in Nat /\ happened <= MaxConnects
      BY KeyConstants DEF KeysSound
    <3>2. \A m, n \in Nat : m <= n => Count * m <= Count * n
      BY <3>1
    <3>3. happened + 2 \in Nat /\ MaxConnects + 2 \in Nat /\ happened + 2 <= MaxConnects + 2
      BY <3>1
    <3>4. Count * (happened + 2) <= Count * (MaxConnects + 2)
      BY <3>2, <3>3
    <3>5. \A n \in Nat : Count * n \in Nat
      BY <3>1
    <3>6. Count * (happened + 2) \in Nat /\ Count * (MaxConnects + 2) \in Nat
      BY <3>3, <3>5
    <3> DEFINE m == Count * (happened + 2)
               n == Count * (MaxConnects + 2)
    <3>7. m \in Nat /\ n \in Nat /\ m <= n /\ n < MaxId
      BY <3>4, <3>6 DEF NumbersLast
    <3>8. m < MaxId
      <4> HIDE DEF m, n
      <4> QED BY <3>1, <3>7
    <3> QED BY <3>8
  <2> QED BY <2>1, NowFields DEF KeysSound
<1> QED BY <1>1, <1>2 DEF Fit, Held

\* A step that sends nothing, and tears nothing.
LEMMA QuietStep ==
  ASSUME KeysSound, NumbersLast, happened' = happened \/ P!Event,
         Fit(disk', Against(used')), torn' = torn, wire' = wire, server' = server,
         TakenFrom, peers' \in [Peers -> Takers], lost' \in BOOLEAN, pending' \in BOOLEAN,
         (~lost' /\ ~pending' /\ torn = {}) => (~lost /\ ~pending /\ disk'.index = disk.index)
  PROVE  KeysSound' /\ NotSoiled
<1>1. Out' \subseteq Out
  <2>1. Out' \subseteq Out \union {}
    BY OutOf
  <2> QED BY <2>1
<1>2. Handed' \subseteq Handed
  <2>1. Handed' \subseteq Handed \union UNION {b.keys : b \in {}}
    BY <1>1, HandedOf
  <2> QED BY <2>1
<1>3. Now.top <= Now'.top /\ Now'.top \in Nat /\ happened' \in 0..MaxConnects
  BY TopGrows DEF KeysSound
<1>4. Fit(disk', Now')
  <2>1. /\ Now'.torn = Against(used').torn /\ Now'.used = Against(used').used
        /\ Now'.bundles \subseteq Against(used').bundles /\ Now'.entries \subseteq Against(used').entries
        /\ Against(used').top <= Now'.top
    BY <1>1, <1>2, <1>3, NowFields, AgainstFields
  <2> QED BY <1>3, <2>1, FitAgain
<1>5. Followed'
  BY DEF KeysSound, Followed, Latest
<1>6. NotSoiled
  BY DEF NotSoiled
<1> QED BY <1>3, <1>4, <1>5, <1>6 DEF KeysSound

\* A handler that sends the bundle, or cannot.
Sent(d) ==
  \/ wire' = wire /\ lost' = TRUE
  \/ wire' = Append(wire, BundleOf(d)) /\ lost' \in BOOLEAN /\ d.identity # 0 /\ d.index # {}

LEMMA PublishSends ==
  ASSUME NEW c, NEW d \in Held(c), P!Publish(P!Bundle(d)), lost \in BOOLEAN
  PROVE  Sent(d)
BY BundleIs DEF P!Publish, Sent

LEMMA SendStep ==
  ASSUME KeysSound, NumbersLast, happened' = happened \/ P!Event,
         disk' \in Held(Against(used')), Whole(disk', Against(used')),
         disk'.spk.stamp = "fresh", torn = {} => Full(disk'),
         Sent(disk'), torn' = torn, server' = server,
         TakenFrom, peers' \in [Peers -> Takers], pending' \in BOOLEAN
  PROVE  KeysSound' /\ NotSoiled
<1>1. CASE wire' = wire /\ lost' = TRUE
  <2>1. Fit(disk', Against(used'))
    BY AgainstFields DEF Fit, Stocked
  <2> QED BY <1>1, <2>1, QuietStep
<1>2. CASE wire' = Append(wire, BundleOf(disk')) /\ lost' \in BOOLEAN /\ disk'.identity # 0 /\ disk'.index # {}
  <2> DEFINE b == BundleOf(disk')
  <2>1. wire \in Seq(KeyBundles) /\ b.keys = disk'.index
    BY DEF KeysSound, BundleOf
  <2>2. Range(wire') = Range(wire) \union {b} /\ Last(wire') = b /\ wire' # <<>>
    <3> HIDE DEF b
    <3> QED BY <1>2, <2>1 DEF Range, Last, b
  <2>3. Out' \subseteq Out \union {b}
    BY <2>2, OutOf
  <2>4. Handed' \subseteq Handed \union disk'.index
    <3>1. Handed' \subseteq Handed \union UNION {x.keys : x \in {b}}
      BY <2>3, HandedOf
    <3>2. UNION {x.keys : x \in {b}} = disk'.index
      BY <2>1
    <3> QED BY <3>1, <3>2
  <2>5. Now.top <= Now'.top /\ Now'.top \in Nat /\ happened' \in 0..MaxConnects
    BY TopGrows DEF KeysSound
  <2>6. Fit(disk', Now') /\ b \in KeyBundles
    <3>1. /\ Now'.torn = Against(used').torn /\ Now'.used = Against(used').used
          /\ Now'.bundles \subseteq Against(used').bundles \union {b}
          /\ Now'.entries \subseteq Against(used').entries \union disk'.index
          /\ Against(used').top <= Now'.top
      BY <2>3, <2>4, <2>5, NowFields, AgainstFields
    <3>2. Against(used').torn = {} => Full(disk')
      BY AgainstFields
    <3> QED BY <1>2, <2>5, <3>1, <3>2, PublishedFits
  <2>7. wire' \in Seq(KeyBundles)
    BY <1>2, <2>1, <2>6
  <2>8. Followed'
    BY <2>1, <2>2 DEF Followed, Latest
  <2>9. NotSoiled
    <3>1. Range(wire') \ Range(wire) \subseteq {b}
      BY <2>2
    <3>2. "replacement" \notin torn => \A e \in b.keys : e.key \notin used'
      BY <2>1, AgainstFields DEF Whole
    <3> QED BY <3>1, <3>2 DEF NotSoiled
  <2> QED BY <1>2, <2>5, <2>6, <2>7, <2>8, <2>9 DEF KeysSound
<1> QED BY <1>1, <1>2 DEF Sent

\* A crash leaves a disk of the trail, and what it tore is known by what it left.
LEMMA CrashStep ==
  ASSUME KeysSound, NumbersLast, happened' = happened \/ P!Event,
         NEW t \in Trails(Against(used')), P!Crash(t, used'), server' = server,
         TakenFrom, peers' \in [Peers -> Takers]
  PROVE  KeysSound' /\ NotSoiled
<1> DEFINE c == Against(used')
           d == disk'
<1>1. t \in Seq(Held(c)) /\ t # <<>>
  BY DEF Trails
<1>2. d \in Held(c)
  BY <1>1, TrailEnds DEF P!Crash
<1>3. d \in Disks /\ Disk(d, c)
  BY <1>2 DEF Held
<1>4. /\ d.max \in Nat /\ d.index \in SUBSET KeyEntries
  BY <1>3 DEF Disks
<1>5. /\ torn \subseteq torn' /\ torn' # {}
      /\ "batch" \notin torn' => ~\E e \in d.index : e.id > d.max
      /\ "replacement" \notin torn' => ~\E e \in d.index : e.key \in used' /\ e \notin d.records
  BY DEF P!Crash
<1>6. /\ wire' = <<>> /\ pending' = FALSE /\ lost' \in BOOLEAN
  BY DEF P!Crash, P!Kill
<1>7. Out' \subseteq Out
  <2>1. Range(wire') = {}
    BY <1>6 DEF Range
  <2>2. Out' \subseteq Out \union {}
    BY <2>1, OutOf
  <2> QED BY <2>2
<1>8. Handed' \subseteq Handed
  <2>1. Handed' \subseteq Handed \union UNION {b.keys : b \in {}}
    BY <1>7, HandedOf
  <2> QED BY <2>1
<1>9. Now.top <= Now'.top /\ Now'.top \in Nat /\ happened' \in 0..MaxConnects
  BY TopGrows DEF KeysSound
<1>10. d \in Held(Now')
  <2>1. /\ c.torn \subseteq Now'.torn /\ Now'.used = c.used
        /\ Now'.bundles \subseteq c.bundles /\ Now'.entries \subseteq c.entries
        /\ c.top <= Now'.top
    BY <1>5, <1>7, <1>8, <1>9, NowFields, AgainstFields
  <2> HIDE DEF c, d
  <2> QED BY <1>2, <1>9, <2>1, HeldAgain
<1>11. Whole(d, Now')
  <2>1. "batch" \notin torn' => \A e \in d.index : e.id <= d.max
    BY <1>4, <1>5 DEF KeyEntries
  <2>2. \A e \in d.records : e.key \notin used'
    BY <1>3, AgainstFields DEF Disk, OneEach
  <2>3. "replacement" \notin torn' => \A e \in d.index : e.key \notin used'
    BY <1>5, <2>2
  <2> HIDE DEF d
  <2> QED BY <2>1, <2>3, NowFields DEF Whole
<1>12. Stocked(d, Now')
  BY <1>5, NowFields DEF Stocked
<1>13. Followed'
  BY <1>5 DEF Followed
<1>14. NotSoiled
  BY <1>6 DEF NotSoiled, Range
<1>15. server' \in KeyBundles \union {P!None} /\ wire' \in Seq(KeyBundles)
  BY <1>6 DEF KeysSound
<1> QED BY <1>6, <1>9, <1>10, <1>11, <1>12, <1>13, <1>14, <1>15 DEF KeysSound, Fit

-----------------------------------------------------------------------------
(* The steps.                                                              *)

LEMMA TrailOfDisk ==
  ASSUME KeysSound, NumbersLast
  PROVE  /\ <<disk>> \in Trails(Against(used)) /\ P!Last(<<disk>>) = disk
         /\ Whole(disk, Against(used)) /\ Stocked(disk, Against(used)) /\ Against(used).top < MaxId
         /\ Against(used).torn = torn
BY DiskFits, TrailOfOne, AgainstFields DEF Trails

LEMMA SameTakers == KeysSound /\ peers' = peers => TakenFrom /\ peers' \in [Peers -> Takers]
BY DEF TakenFrom, KeysSound

LEMMA ConnectSound ==
  ASSUME KeysSound, NumbersLast, P!Connect
  PROVE  KeysSound' /\ NotSoiled
<1> DEFINE c == Against(used)
           t == P!EnsureIdentity(<<disk>>)
           b(resumed) == IF resumed THEN t ELSE P!Ensure(t)
<1>1. /\ t \in Trails(c) /\ Fit(P!Last(t), c) /\ c.top < MaxId /\ c.torn = torn
      /\ P!Last(t).index = disk.index
  BY TrailOfDisk, EnsureIdentityKeeps
<1>2. used' = used /\ server' = server /\ P!Event /\ lost \in BOOLEAN
  BY DEF P!Connect, KeysSound
<1>3. PICK resumed \in BOOLEAN :
        \/ /\ pending' = FALSE /\ P!Done(b(resumed))
           /\ IF resumed \/ ~(P!Changes(P!Last(t)) \/ server = P!None)
              THEN wire' = wire /\ lost' = (lost \/ pending)
              ELSE IF P!Bundle(P!Last(b(resumed))) = P!None
              THEN wire' = wire /\ lost' = TRUE
              ELSE wire' = Append(wire, P!Bundle(P!Last(b(resumed)))) /\ lost' = FALSE
        \/ P!Crash(b(resumed), used) /\ UNCHANGED peers
  BY DEF P!Connect
<1> DEFINE u == b(resumed)
           e == P!Last(u)
<1>4. /\ P!Ensure(t) \in Trails(c) /\ Whole(P!Last(P!Ensure(t)), c)
      /\ P!Last(P!Ensure(t)).spk.stamp = "fresh" /\ (torn = {} => Full(P!Last(P!Ensure(t))))
      /\ (Full(P!Last(t)) /\ ~P!Changes(P!Last(t))) => P!Last(P!Ensure(t)).index = P!Last(t).index
  <2> HIDE DEF t, c
  <2> QED BY <1>1, EnsureKeeps DEF Fit
<1>5. u \in Trails(c) /\ Whole(e, c) /\ e \in Held(c)
  <2>1. u \in Trails(c) /\ Whole(e, c)
    BY <1>1, <1>4 DEF Fit
  <2> HIDE DEF u, c
  <2> QED BY <2>1, TrailEnds DEF Trails
<1> HIDE DEF t
<1>6. CASE P!Crash(u, used)
  <2>1. peers' = peers
    BY <1>6, <1>3 DEF P!Done
  <2>2. P!Crash(u, used') /\ u \in Trails(Against(used'))
    BY <1>2, <1>5, <1>6
  <2> HIDE DEF u
  <2> QED BY <1>2, <2>1, <2>2, SameTakers, CrashStep
<1>7. CASE /\ pending' = FALSE /\ P!Done(u)
           /\ resumed \/ ~(P!Changes(P!Last(t)) \/ server = P!None)
           /\ wire' = wire /\ lost' = (lost \/ pending)
  <2>1. disk' = e /\ peers' = peers /\ torn' = torn
    BY <1>7 DEF P!Done
  <2>2. Stocked(e, c) /\ (torn = {} => e.index = disk.index \/ lost')
    <3>1. CASE resumed
      BY <1>1, <3>1 DEF Fit
    <3>2. CASE ~resumed
      <4>1. e = P!Last(P!Ensure(t)) /\ ~P!Changes(P!Last(t)) /\ server # P!None
        BY <1>7, <3>2
      <4>2. c.torn = {} => Full(e)
        BY <1>1, <1>4, <4>1
      <4>3. torn = {} => Full(P!Last(t))
        <5>1. server \in Out
          BY <4>1 DEF KeysSound, KeyBundles, Out
        <5> QED BY <1>1, <5>1, AgainstFields DEF Stocked, Fit
      <4> QED BY <1>1, <1>4, <4>1, <4>2, <4>3 DEF Stocked
    <3> QED BY <3>1, <3>2
  <2>3. Fit(disk', Against(used'))
    BY <1>2, <1>5, <2>1, <2>2 DEF Fit
  <2>4. lost' \in BOOLEAN /\ pending' \in BOOLEAN /\ (~lost' => ~lost /\ ~pending)
    BY <1>7 DEF KeysSound
  <2> QED BY <1>2, <1>7, <2>1, <2>2, <2>3, <2>4, SameTakers, QuietStep
<1>8. CASE /\ pending' = FALSE /\ P!Done(u)
           /\ ~(resumed \/ ~(P!Changes(P!Last(t)) \/ server = P!None))
           /\ \/ wire' = wire /\ lost' = TRUE
              \/ /\ P!Bundle(e) # P!None
                 /\ wire' = Append(wire, P!Bundle(e)) /\ lost' = FALSE
  <2>1. disk' = e /\ peers' = peers /\ torn' = torn
    BY <1>8 DEF P!Done
  <2>2. Sent(disk')
    BY <1>5, <1>8, <2>1, BundleIs DEF Sent
  <2>3. disk'.spk.stamp = "fresh" /\ (torn = {} => Full(disk'))
    BY <1>4, <1>8, <2>1
  <2> HIDE DEF c, u, e
  <2>4. disk' \in Held(Against(used')) /\ Whole(disk', Against(used'))
    BY <1>2, <1>5, <2>1 DEF c
  <2> QED BY <1>2, <1>8, <2>1, <2>2, <2>3, <2>4, SameTakers, SendStep
<1> QED BY <1>3, <1>6, <1>7, <1>8

LEMMA EndCatchupSound ==
  ASSUME KeysSound, NumbersLast, P!EndCatchup
  PROVE  KeysSound' /\ NotSoiled
<1> DEFINE c == Against(used)
           u == P!Built(<<disk>>)
           e == P!Last(u)
<1>1. u \in Trails(c) /\ Whole(e, c) /\ e.spk.stamp = "fresh" /\ (torn = {} => Full(e))
  BY TrailOfDisk, BuiltKeeps
<1>2. e \in Held(c)
  <2> HIDE DEF u, c
  <2> QED BY <1>1, TrailEnds DEF Trails
<1>3. used' = used /\ server' = server /\ happened' = happened /\ lost \in BOOLEAN
  BY DEF P!EndCatchup, KeysSound
<1> HIDE DEF u
<1>4. CASE P!Crash(u, used) /\ UNCHANGED peers
  BY <1>1, <1>3, <1>4, SameTakers, CrashStep
<1>5. CASE pending' = FALSE /\ P!Done(u) /\ P!Publish(P!Bundle(e))
  <2>1. disk' = e /\ peers' = peers /\ torn' = torn
    BY <1>5 DEF P!Done
  <2>2. Sent(disk')
    BY <1>2, <1>3, <1>5, <2>1, PublishSends
  <2> QED BY <1>1, <1>2, <1>3, <1>5, <2>1, <2>2, SameTakers, SendStep
<1>6. CASE pending' = FALSE /\ ~pending /\ P!Done(<<disk>>) /\ UNCHANGED <<wire, lost>>
  <2>1. disk' = disk /\ peers' = peers /\ torn' = torn
    BY <1>6, TrailOfDisk DEF P!Done
  <2>2. Fit(disk', Against(used'))
    BY <1>3, <2>1, DiskFits
  <2> QED BY <1>3, <1>6, <2>1, <2>2, SameTakers, QuietStep
<1>7. pending \in BOOLEAN
  BY DEF KeysSound
<1> QED BY <1>4, <1>5, <1>6, <1>7 DEF P!EndCatchup, u

LEMMA RepublishSound ==
  ASSUME KeysSound, NumbersLast, P!Republish
  PROVE  KeysSound' /\ NotSoiled
<1> DEFINE c == Against(used)
           u == P!Built(<<disk>>)
           e == P!Last(u)
<1>1. u \in Trails(c) /\ Whole(e, c) /\ e.spk.stamp = "fresh" /\ (torn = {} => Full(e))
  BY TrailOfDisk, BuiltKeeps
<1>2. e \in Held(c)
  <2> HIDE DEF u, c
  <2> QED BY <1>1, TrailEnds DEF Trails
<1>3. used' = used /\ server' = server /\ P!Event /\ lost \in BOOLEAN /\ pending' = pending /\ pending \in BOOLEAN
  BY DEF P!Republish, KeysSound
<1>4. P!Done(u) /\ P!Publish(P!Bundle(e))
  BY DEF P!Republish
<1> HIDE DEF u
<1>5. disk' = e /\ peers' = peers /\ torn' = torn
  BY <1>4 DEF P!Done
<1>6. Sent(disk')
  BY <1>2, <1>3, <1>4, <1>5, PublishSends
<1> QED BY <1>1, <1>2, <1>3, <1>5, <1>6, SameTakers, SendStep

LEMMA RestartSound ==
  ASSUME KeysSound, NumbersLast, P!Restart
  PROVE  KeysSound' /\ NotSoiled
<1>1. used' = used /\ server' = server /\ happened' = happened /\ peers' = peers /\ P!Crash(<<disk>>, used)
  BY DEF P!Restart
<1> QED BY <1>1, TrailOfDisk, SameTakers, CrashStep

LEMMA ResetKeysSound ==
  ASSUME KeysSound, NumbersLast, P!ResetKeys
  PROVE  KeysSound' /\ NotSoiled
<1> DEFINE d == disk'
           made == disk.made
<1>1. /\ used' = used /\ server' = server /\ P!Event /\ peers' = peers /\ wire' = wire
      /\ lost' = lost /\ pending' = pending /\ torn' = torn \union {"reset"}
  BY DEF P!ResetKeys
<1>2. disk \in Disks /\ Disk(disk, Against(used)) /\ made \in Nat
  BY DiskFits DEF Held, Disks
<1>3. d = [P!Blank EXCEPT !.made = made]
  BY DEF P!ResetKeys
<1>4. /\ d.made = made /\ d.index = {} /\ d.records = {} /\ d.signed = {} /\ d.max = 0
      /\ d.identity = 0 /\ d.spk.stamp = "none"
  BY <1>3 DEF P!Blank
<1>5. d \in Disks
  <2> HIDE DEF made, d
  <2> QED BY <1>2, <1>3, BlankIsDisk DEF Disks
<1>6. Out' \subseteq Out
  <2>1. Out' \subseteq Out \union {}
    BY <1>1, OutOf
  <2> QED BY <2>1
<1>7. Handed' \subseteq Handed
  <2>1. Handed' \subseteq Handed \union UNION {b.keys : b \in {}}
    BY <1>1, <1>6, SameTakers, HandedOf
  <2> QED BY <2>1
<1>8. Now.top <= Now'.top /\ Now'.top \in Nat /\ happened' \in 0..MaxConnects /\ Count <= Now'.top /\ Count \in Nat
      /\ Now.top \in Nat
  BY <1>1, TopGrows, KeyConstants DEF KeysSound
<1> HIDE DEF d
<1>9. OneEach(d, Now')
  <2>1. /\ \A e \in Handed : e.key \in 1..made
        /\ \A e, f \in Handed : e.key = f.key => e = f
        /\ \A k \in used : k \in 1..made
    BY <1>2, AgainstFields DEF Disk, OneEach, Known
  <2>2. Known(d, Now') \subseteq Handed
    BY <1>4, <1>7, NowFields DEF Known
  <2> QED BY <1>1, <1>4, <2>1, <2>2, NowFields DEF OneEach
<1>10. SpkKept(d) /\ Answerable(d, Now')
  BY <1>1, <1>4, NowFields DEF SpkKept, Answerable
<1>11. Roomy(d, Now')
  BY <1>4, <1>8 DEF Roomy
<1>12. Handed' \subseteq KeyEntries /\ IsFiniteSet({})
  BY <1>2, <1>7, AgainstFields, FS_EmptySet DEF Disk
<1>13. d \in Held(Now')
  BY <1>4, <1>5, <1>8, <1>9, <1>10, <1>11, <1>12, NowFields DEF Held, Disk
<1>14. Whole(d, Now') /\ Stocked(d, Now')
  BY <1>1, <1>4, NowFields DEF Whole, Stocked
<1>15. Fit(d, Now') /\ Followed'
  BY <1>1, <1>13, <1>14 DEF Fit, Followed
<1>16. NotSoiled
  BY <1>1 DEF NotSoiled
<1> QED BY <1>1, <1>8, <1>15, <1>16 DEF KeysSound, d

\* A signed prekey that comes due wants a batch, and has its numbers by the event.
LEMMA DueSound ==
  ASSUME KeysSound, NumbersLast, P!Due
  PROVE  KeysSound' /\ NotSoiled
<1> DEFINE d == disk'
           spk == [disk.spk EXCEPT !.stamp = "due"]
<1>1. /\ used' = used /\ server' = server /\ P!Event /\ peers' = peers /\ wire' = wire
      /\ lost' = lost /\ pending' = pending /\ torn' = torn
  BY DEF P!Due
<1>2. disk \in Disks /\ Disk(disk, Against(used)) /\ Whole(disk, Against(used)) /\ Stocked(disk, Against(used))
  BY DiskFits DEF Held
<1>3. spk \in SignedPreKeys /\ spk.id = disk.spk.id /\ spk.stamp = "due"
  BY <1>2 DEF Disks, SignedPreKeys
<1>4. d = [disk EXCEPT !.spk = spk]
  BY DEF P!Due
<1> HIDE DEF d, spk
<1>5. /\ d \in Disks /\ d.made = disk.made /\ d.index = disk.index /\ d.records = disk.records
      /\ d.signed = disk.signed /\ d.max = disk.max /\ d.identity = disk.identity /\ d.spk = spk
      /\ disk.max \in Nat
  BY <1>2, <1>3, <1>4 DEF Disks
<1>6. Out' \subseteq Out
  <2>1. Out' \subseteq Out \union {}
    BY <1>1, OutOf
  <2> QED BY <2>1
<1>7. Handed' \subseteq Handed
  <2>1. Handed' \subseteq Handed \union UNION {b.keys : b \in {}}
    BY <1>1, <1>6, SameTakers, HandedOf
  <2> QED BY <2>1
<1>8. /\ Now'.top = Now.top + Count /\ Now'.top \in Nat /\ happened' \in 0..MaxConnects /\ Count \in Nat
      /\ Now.top \in Nat
  BY <1>1, TopGrows, KeyConstants DEF KeysSound
<1>9. /\ Now'.bundles = Out' /\ Now'.entries = Handed' /\ Now'.used = used /\ Now'.torn = torn
  BY <1>1, NowFields
<1>10. OneEach(d, Now')
  BY <1>2, <1>5, <1>7, <1>9, AgainstFields DEF Disk, OneEach, Known
<1>11. SpkKept(d)
  BY <1>2, <1>3, <1>5 DEF Disk, SpkKept
<1>12. Answerable(d, Now')
  BY <1>2, <1>5, <1>6, <1>7, <1>9, AgainstFields DEF Disk, Answerable
<1>13. Roomy(d, Now')
  <2>1. disk.max <= Now.top
    BY <1>2, AgainstFields DEF Disk, Roomy
  <2> QED BY <2>1, <1>5, <1>8 DEF Roomy
<1>14. d \in Held(Now')
  BY <1>2, <1>5, <1>7, <1>8, <1>9, <1>10, <1>11, <1>12, <1>13, AgainstFields DEF Held, Disk
<1>15. Whole(d, Now')
  BY <1>2, <1>5, <1>9, AgainstFields DEF Whole
<1>16. Stocked(d, Now')
  BY <1>2, <1>5, <1>6, <1>7, <1>9, AgainstFields DEF Stocked, Full, Unrepaired
<1>17. Followed'
  <2>1. disk'.index = disk.index
    BY <1>5 DEF d
  <2> QED BY <1>1, <2>1 DEF KeysSound, Followed, Latest
<1>18. NotSoiled
  BY <1>1 DEF NotSoiled
<1> QED BY <1>1, <1>8, <1>14, <1>15, <1>16, <1>17, <1>18 DEF KeysSound, Fit, d

\* What another device takes is out.
LEMMA FetchSound ==
  ASSUME KeysSound, NumbersLast, NEW p \in Peers, P!Fetch(p)
  PROVE  KeysSound' /\ NotSoiled
<1>1. /\ used' = used /\ server' = server /\ happened' = happened /\ wire' = wire /\ disk' = disk
      /\ lost' = lost /\ pending' = pending /\ torn' = torn
  BY DEF P!Fetch
<1>2. PICK e \in server.keys :
        peers' = [peers EXCEPT ![p] = [key |-> e, spk |-> server.spk, ik |-> server.ik, met |-> FALSE]]
  BY DEF P!Fetch
<1>3. server \in KeyBundles /\ server \in Out
  BY DEF P!Fetch, KeysSound, KeyBundles, Out
<1>4. peers' \in [Peers -> Takers]
  <2>1. [key |-> e, spk |-> server.spk, ik |-> server.ik, met |-> FALSE] \in Takers
    BY <1>3 DEF KeyBundles, Takers
  <2> QED BY <1>2, <2>1 DEF KeysSound
<1>5. Out' = Out
  BY <1>1 DEF Out
<1>6. Handed' \subseteq Handed
  <2> SUFFICES ASSUME NEW f \in Handed' PROVE f \in Handed
    OBVIOUS
  <2>1. (\E b \in Out' : f \in b.keys) \/ (\E q \in Peers : peers'[q] # P!Idle /\ f = peers'[q].key)
    BY DEF Handed
  <2>2. CASE \E b \in Out' : f \in b.keys
    BY <1>5, <2>2 DEF Handed
  <2>3. CASE \E q \in Peers : peers'[q] # P!Idle /\ f = peers'[q].key
    <3>1. PICK q \in Peers : peers'[q] # P!Idle /\ f = peers'[q].key
      BY <2>3
    <3>2. CASE q = p
      <4>1. f = e
        BY <1>2, <3>1, <3>2 DEF KeysSound
      <4> QED BY <1>3, <4>1 DEF Handed
    <3>3. CASE q # p
      <4>1. peers'[q] = peers[q]
        BY <1>2, <3>3 DEF KeysSound
      <4> QED BY <3>1, <4>1 DEF Handed
    <3> QED BY <3>2, <3>3
  <2> QED BY <2>1, <2>2, <2>3
<1>7. Fit(disk', Now')
  <2>1. Now'.top = Now.top /\ Now.top \in Nat /\ Now.top <= Now.top
    BY <1>1, TopGrows, NowFields DEF KeysSound
  <2>2. /\ Now'.torn = Now.torn /\ Now'.used = Now.used /\ Now'.bundles \subseteq Now.bundles
        /\ Now'.entries \subseteq Now.entries
    BY <1>1, <1>5, <1>6, NowFields
  <2> QED BY <1>1, <2>1, <2>2, FitAgain DEF KeysSound
<1>8. Followed'
  BY <1>1 DEF KeysSound, Followed, Latest
<1>9. NotSoiled
  BY <1>1 DEF NotSoiled
<1> QED BY <1>1, <1>4, <1>7, <1>8, <1>9 DEF KeysSound

LEMMA ArriveSound ==
  ASSUME KeysSound, NumbersLast, P!Arrive
  PROVE  KeysSound' /\ NotSoiled
<1>1. /\ used' = used /\ happened' = happened /\ disk' = disk /\ peers' = peers
      /\ lost' = lost /\ pending' = pending /\ torn' = torn
      /\ wire # <<>> /\ server' = Head(wire) /\ wire' = Tail(wire) /\ wire \in Seq(KeyBundles)
  BY DEF P!Arrive, KeysSound
<1>2. /\ server' \in KeyBundles /\ server' \in Range(wire) /\ wire' \in Seq(KeyBundles)
      /\ Range(wire') \subseteq Range(wire)
      /\ wire' = <<>> => server' = Last(wire)
      /\ wire' # <<>> => Last(wire') = Last(wire)
  BY <1>1 DEF Range, Last
<1>3. Out' \subseteq Out
  <2>1. Out' \subseteq Out \union {}
    BY <1>2, OutOf
  <2> QED BY <2>1
<1>4. Handed' \subseteq Handed
  <2>1. Handed' \subseteq Handed \union UNION {b.keys : b \in {}}
    BY <1>1, <1>3, SameTakers, HandedOf
  <2> QED BY <2>1
<1>5. Fit(disk', Now')
  <2>1. Now'.top = Now.top /\ Now.top \in Nat /\ Now.top <= Now.top
    BY <1>1, TopGrows, NowFields DEF KeysSound
  <2>2. /\ Now'.torn = Now.torn /\ Now'.used = Now.used /\ Now'.bundles \subseteq Now.bundles
        /\ Now'.entries \subseteq Now.entries
    BY <1>1, <1>3, <1>4, NowFields
  <2> QED BY <1>1, <2>1, <2>2, FitAgain DEF KeysSound
<1>6. Latest' = Latest
  BY <1>1, <1>2 DEF Latest
<1>7. Followed'
  BY <1>1, <1>6 DEF KeysSound, Followed
<1>8. NotSoiled
  BY <1>2 DEF NotSoiled
<1> QED BY <1>1, <1>2, <1>5, <1>7, <1>8 DEF KeysSound

LEMMA LoseSound ==
  ASSUME KeysSound, NumbersLast, P!Lose
  PROVE  KeysSound' /\ NotSoiled
<1>1. /\ used' = used /\ P!Event /\ disk' = disk /\ peers' = peers /\ server' = server
      /\ pending' = pending /\ torn' = torn
      /\ wire' = <<>> /\ lost' = (lost \/ wire # <<>>)
  BY DEF P!Lose
<1>2. Range(wire') = {}
  BY <1>1 DEF Range
<1>3. Out' \subseteq Out
  <2>1. Out' \subseteq Out \union {}
    BY <1>1, <1>2, OutOf
  <2> QED BY <2>1
<1>4. Handed' \subseteq Handed
  <2>1. Handed' \subseteq Handed \union UNION {b.keys : b \in {}}
    BY <1>1, <1>3, SameTakers, HandedOf
  <2> QED BY <2>1
<1>5. Fit(disk', Now') /\ happened' \in 0..MaxConnects
  <2>1. Now.top <= Now'.top /\ Now'.top \in Nat /\ happened' \in 0..MaxConnects
    BY <1>1, TopGrows, NowFields DEF KeysSound
  <2>2. /\ Now'.torn = Now.torn /\ Now'.used = Now.used /\ Now'.bundles \subseteq Now.bundles
        /\ Now'.entries \subseteq Now.entries
    BY <1>1, <1>3, <1>4, NowFields
  <2> QED BY <1>1, <2>1, <2>2, FitAgain DEF KeysSound
<1>6. Followed'
  BY <1>1 DEF KeysSound, Followed, Latest
<1>7. NotSoiled
  BY <1>2 DEF NotSoiled
<1>8. wire' \in Seq(KeyBundles)
  BY <1>1
<1> QED BY <1>1, <1>5, <1>6, <1>7, <1>8 DEF KeysSound

LEMMA PurgeSound ==
  ASSUME KeysSound, NumbersLast, P!Purge
  PROVE  KeysSound' /\ NotSoiled
<1>1. /\ used' = used /\ P!Event /\ disk' = disk /\ peers' = peers /\ server' = P!None
      /\ pending' = pending /\ torn' = torn /\ wire' = wire /\ lost' = lost
  BY DEF P!Purge
<1>3. Out' \subseteq Out
  <2>1. Out' \subseteq Out \union {}
    BY <1>1, OutOf
  <2> QED BY <2>1
<1>4. Handed' \subseteq Handed
  <2>1. Handed' \subseteq Handed \union UNION {b.keys : b \in {}}
    BY <1>1, <1>3, SameTakers, HandedOf
  <2> QED BY <2>1
<1>5. Fit(disk', Now') /\ happened' \in 0..MaxConnects
  <2>1. Now.top <= Now'.top /\ Now'.top \in Nat /\ happened' \in 0..MaxConnects
    BY <1>1, TopGrows, NowFields DEF KeysSound
  <2>2. /\ Now'.torn = Now.torn /\ Now'.used = Now.used /\ Now'.bundles \subseteq Now.bundles
        /\ Now'.entries \subseteq Now.entries
    BY <1>1, <1>3, <1>4, NowFields
  <2> QED BY <1>1, <2>1, <2>2, FitAgain DEF KeysSound
<1>6. Followed'
  BY <1>1 DEF KeysSound, Followed, Latest
<1>7. NotSoiled
  BY <1>1 DEF NotSoiled
<1> QED BY <1>1, <1>5, <1>6, <1>7 DEF KeysSound

\* The prekey of a key exchange is removed with the session; what the index still says of it is
\* what is replaced.
LEMMA UsedHeld ==
  ASSUME KeysSound, NumbersLast, NEW key \in Handed, key \in disk.records,
         used' = used \union {key.key}
  PROVE  LET d == [disk EXCEPT !.records = @ \ {key}]
         IN  d \in Held(Against(used')) /\ Replaceable(d, Against(used'), key.id)
             /\ Stocked(d, Against(used')) /\ key.id \in Nat
<1> DEFINE records == disk.records \ {key}
           d == [disk EXCEPT !.records = @ \ {key}]
           c == Against(used')
           o == Against(used)
<1>1. disk \in Disks /\ Disk(disk, o) /\ Whole(disk, o) /\ Stocked(disk, o)
  BY DiskFits DEF Held
<1>2. disk.records \in SUBSET KeyEntries /\ records \in SUBSET KeyEntries
  BY <1>1 DEF Disks
<1>3. d = [disk EXCEPT !.records = records]
  OBVIOUS
<1> HIDE DEF d
<1>4. /\ d \in Disks /\ d.records = records /\ d.made = disk.made /\ d.index = disk.index /\ d.spk = disk.spk
      /\ d.signed = disk.signed /\ d.max = disk.max /\ d.identity = disk.identity
  <2> HIDE DEF records
  <2> QED BY <1>1, <1>2, <1>3 DEF Disks
<1>5. /\ c.bundles = Out /\ c.entries = Handed /\ c.used = used \union {key.key} /\ c.torn = torn /\ c.top = Now.top
      /\ o.bundles = Out /\ o.entries = Handed /\ o.used = used /\ o.torn = torn /\ o.top = Now.top
  BY AgainstFields
<1> HIDE DEF c, o
<1>6. /\ Handed \subseteq KeyEntries /\ Now.top \in Nat
      /\ IsFiniteSet(disk.index) /\ IsFiniteSet(disk.records)
      /\ OneEach(disk, o) /\ SpkKept(disk) /\ Answerable(disk, o) /\ Roomy(disk, o)
  BY <1>1, <1>5 DEF Disk
<1>7. key \in Known(disk, o) /\ key.id \in Nat
  BY <1>5, <1>6 DEF Known, KeyEntries
<1>8. OneEach(d, c)
  <2>1. Known(d, c) \subseteq Known(disk, o)
    BY <1>4, <1>5 DEF Known
  <2>2. \A e, f \in Known(disk, o) : e.key = f.key => e = f
    BY <1>6 DEF OneEach
  <2>3. \A e \in d.records : e.key \notin c.used
    BY <1>4, <1>5, <1>6, <1>7, <2>2 DEF OneEach, Known
  <2>4. \A k \in c.used : k \in 1..d.made
    BY <1>4, <1>5, <1>6, <1>7 DEF OneEach
  <2> QED BY <1>4, <1>6, <2>1, <2>2, <2>3, <2>4 DEF OneEach
<1>9. SpkKept(d)
  BY <1>4, <1>6 DEF SpkKept
<1>10. Answerable(d, c)
  BY <1>4, <1>5, <1>6 DEF Answerable
<1>11. Roomy(d, c)
  BY <1>4, <1>5, <1>6 DEF Roomy, WantsBatch
<1>12. IsFiniteSet(d.index) /\ IsFiniteSet(d.records)
  BY <1>4, <1>6, FS_Subset
<1>13. d \in Held(c)
  BY <1>4, <1>5, <1>6, <1>8, <1>9, <1>10, <1>11, <1>12 DEF Disk, Held
<1>14. Replaceable(d, c, key.id)
  <2>1. ~\E r \in d.records : r.id = key.id
    BY <1>4, <1>6 DEF OneEach
  <2>2. {"batch", "reset"} \intersect c.torn = {} => key.id <= d.max /\ \A e \in d.index : e.id <= d.max
    BY <1>1, <1>4, <1>5, <1>6 DEF Answerable, Whole
  <2>3. "replacement" \notin c.torn => \A e \in d.index : e.key \in c.used => e.id = key.id
    <3>1. \A e \in disk.index : e.key = key.key => e = key
      BY <1>6, <1>7 DEF OneEach, Known
    <3> QED BY <1>1, <1>4, <1>5, <3>1 DEF Whole
  <2> QED BY <1>5, <2>1, <2>2, <2>3 DEF Replaceable
<1>15. Stocked(d, c)
  BY <1>1, <1>4, <1>5 DEF Stocked, Full
<1> QED BY <1>7, <1>13, <1>14, <1>15 DEF d, c

LEMMA ReceiveSound ==
  ASSUME KeysSound, NumbersLast, NEW p \in Peers, P!Receive(p)
  PROVE  KeysSound' /\ NotSoiled
<1> DEFINE m == peers[p]
           d == IF m.met THEN disk ELSE [disk EXCEPT !.records = @ \ {m.key}]
           replaces == ~\E r \in d.records : r.id = m.key.id
           t == IF replaces THEN P!Replace(<<d>>, m.key.id) ELSE <<d>>
           b == IF replaces /\ ~P!Defers THEN P!Built(t) ELSE t
           c == Against(used')
<1>1. /\ m # P!Idle /\ (m.met \/ P!Accepts(disk, m))
      /\ used' = IF m.met THEN used ELSE used \union {m.key.key}
      /\ peers' = [peers EXCEPT ![p].met = TRUE]
      /\ server' = server /\ happened' = happened
      /\ \/ /\ disk' = P!Last(b) /\ torn' = torn
            /\ pending' = P!Postponed(replaces)
            /\ IF replaces /\ ~P!Defers THEN P!Publish(P!Bundle(P!Last(b)))
               ELSE UNCHANGED <<wire, lost>>
         \/ replaces /\ P!Crash(b, used')
  BY DEF P!Receive
<1>2. m \in Takers /\ m.met \in BOOLEAN
  BY DEF KeysSound, Takers
<1>3. TakenFrom /\ peers' \in [Peers -> Takers]
  <2>1. \A q \in Peers : /\ peers'[q].key = peers[q].key
                         /\ q # p => peers'[q] = peers[q]
    BY <1>1 DEF KeysSound, Takers
  <2>2. peers' \in [Peers -> Takers]
    BY <1>1 DEF KeysSound, Takers
  <2> QED BY <1>1, <2>1, <2>2 DEF TakenFrom
<1>4. m.key \in Handed /\ m.key.id \in Nat
  BY <1>1, <1>2 DEF Handed, Takers, KeyEntries
<1>5. /\ d \in Held(c) /\ Stocked(d, c)
      /\ replaces => Replaceable(d, c, m.key.id)
      /\ ~replaces => d = disk /\ used' = used
  <2>1. CASE m.met
    <3>1. d = disk /\ used' = used
      BY <1>1, <2>1
    <3>2. /\ disk \in Held(c) /\ Whole(disk, c) /\ Stocked(disk, c) /\ Disk(disk, c)
      BY <3>1, DiskFits DEF Held
    <3>3. c.entries = Handed
      BY AgainstFields
    <3>4. {"batch", "reset"} \intersect c.torn = {} => m.key.id <= disk.max
      BY <1>4, <3>2, <3>3 DEF Disk, Answerable
    <3> HIDE DEF c, d
    <3>5. replaces => Replaceable(d, c, m.key.id)
      BY <1>4, <3>1, <3>2, <3>3, <3>4 DEF Replaceable, Whole
    <3> QED BY <3>1, <3>2, <3>5
  <2>2. CASE ~m.met
    <3>1. m.key \in disk.records /\ used' = used \union {m.key.key} /\ d = [disk EXCEPT !.records = @ \ {m.key}]
      BY <1>1, <2>2 DEF P!Accepts
    <3> HIDE DEF d, c, m
    <3>2. d \in Held(c) /\ Replaceable(d, c, m.key.id) /\ Stocked(d, c)
      BY <1>4, <3>1, UsedHeld DEF c
    <3> QED BY <3>2 DEF Replaceable
  <2> QED BY <1>2, <2>1, <2>2
<1>6. lost \in BOOLEAN /\ pending \in BOOLEAN /\ c.torn = torn /\ c.top < MaxId
  BY DiskFits, AgainstFields DEF KeysSound
<1> HIDE DEF d, c, m
<1>7. CASE ~replaces
  <2>1. t = <<d>> /\ b = <<d>>
    BY <1>7
  <2>2. disk' = disk /\ torn' = torn /\ pending' = pending /\ wire' = wire /\ lost' = lost /\ used' = used
    BY <1>1, <1>5, <1>6, <1>7, <2>1 DEF P!Postponed, P!Last
  <2>3. Fit(disk', Against(used'))
    BY <2>2, DiskFits
  <2> QED BY <1>1, <1>3, <1>6, <2>2, <2>3, QuietStep
<1>8. CASE replaces
  <2> DEFINE e == P!Last(b)
  <2>1. t \in Trails(c) /\ Whole(P!Last(t), c) /\ Stocked(P!Last(t), c)
    BY <1>4, <1>5, <1>8, ReplaceKeeps
  <2>2. /\ b \in Trails(c) /\ Whole(e, c)
        /\ P!Defers => Stocked(e, c)
        /\ ~P!Defers => e.spk.stamp = "fresh" /\ (torn = {} => Full(e))
    <3> HIDE DEF t, replaces
    <3>1. CASE P!Defers
      BY <1>8, <2>1, <3>1
    <3>2. CASE ~P!Defers
      <4>1. b = P!Built(t)
        BY <1>8, <3>2
      <4> HIDE DEF b
      <4> QED BY <1>6, <2>1, <3>2, <4>1, BuiltKeeps
    <3> QED BY <3>1, <3>2
  <2>3. e \in Held(c)
    <3> HIDE DEF b
    <3> QED BY <2>2, TrailEnds DEF Trails
  <2> HIDE DEF b, t, replaces
  <2>4. CASE P!Crash(b, used')
    BY <1>1, <1>3, <2>2, <2>4, CrashStep DEF c
  <2>5. CASE P!Defers /\ disk' = e /\ torn' = torn /\ pending' = P!Postponed(replaces) /\ UNCHANGED <<wire, lost>>
    <3>1. pending' = TRUE
      BY <1>6, <1>8, <2>5 DEF P!Postponed
    <3>2. Fit(disk', Against(used'))
      BY <2>2, <2>3, <2>5 DEF Fit, c
    <3> QED BY <1>1, <1>3, <1>6, <2>5, <3>1, <3>2, QuietStep
  <2>6. CASE ~P!Defers /\ disk' = e /\ torn' = torn /\ pending' = P!Postponed(replaces) /\ P!Publish(P!Bundle(e))
    <3>1. pending' \in BOOLEAN
      BY <1>6, <2>6 DEF P!Postponed
    <3>2. Sent(disk')
      BY <1>6, <2>3, <2>6, PublishSends
    <3> QED BY <1>1, <1>3, <2>2, <2>3, <2>6, <3>1, <3>2, SendStep DEF c
  <2> QED BY <1>1, <1>8, <2>4, <2>5, <2>6
<1> QED BY <1>7, <1>8

-----------------------------------------------------------------------------
LEMMA KeysInitSound ==
  ASSUME P!Init
  PROVE  KeysSound
<1>1. /\ disk \in {P!Blank, P!Legacy} /\ wire = <<>> /\ server = P!None /\ peers = [p \in Peers |-> P!Idle]
      /\ pending = FALSE /\ used = {} /\ lost = FALSE /\ torn = {} /\ happened = 0
  BY DEF P!Init
<1>2. Count \in Nat \ {0} /\ MaxConnects \in Nat
  BY KeyConstants
<1>3. Out = {} /\ Handed = {}
  <2>1. Out = {}
    BY <1>1, NoneIsEmpty DEF Out, Range
  <2> QED BY <1>1, <2>1 DEF Handed
<1>4. /\ Now.bundles = {} /\ Now.entries = {} /\ Now.used = {} /\ Now.torn = {} /\ Now.top = Count * 2
      /\ Count * 2 \in Nat /\ Count * 2 = Count + Count
  <2>1. happened + 2 = 2
    BY <1>1
  <2> QED BY <1>1, <1>2, <1>3, <2>1, NowFields
<1>5. Fit(disk, Now)
  <2>1. CASE disk = P!Blank
    <3>1. /\ disk.index = {} /\ disk.records = {} /\ disk.signed = {} /\ disk.max = 0 /\ disk.made = 0
          /\ disk.spk.stamp = "none" /\ disk \in Disks
      BY <2>1, BlankIsDisk DEF P!Blank
    <3>2. OneEach(disk, Now) /\ SpkKept(disk) /\ Answerable(disk, Now)
      BY <1>4, <3>1 DEF OneEach, Known, SpkKept, Answerable
    <3>3. Roomy(disk, Now)
      BY <1>2, <1>4, <3>1 DEF Roomy
    <3>4. disk \in Held(Now)
      BY <1>4, <3>1, <3>2, <3>3, FS_EmptySet DEF Held, Disk
    <3> QED BY <1>4, <3>1, <3>4 DEF Fit, Whole, Stocked
  <2>2. CASE disk = P!Legacy
    <3>1. /\ disk \in Disks /\ disk.records = MadeKeys(P!Blank, Count)
          /\ disk.index = {e \in disk.records : e.id # Count} /\ disk.max = Count /\ disk.made = Count + 2
          /\ disk.spk = [id |-> 1, record |-> Count + 1, public |-> Count + 1, stamp |-> "fresh"]
          /\ disk.signed = {[id |-> 1, key |-> Count + 1]}
          /\ IsFiniteSet(disk.records)
          /\ \A e \in disk.records : e.id \in 1..Count /\ e.key \in 1..Count
      BY <2>2, LegacyFields
    <3>2. \A e, f \in disk.records : (e.key = f.key \/ e.id = f.id) => e = f
      BY <1>2, <3>1, BlankIsDisk, MadeKeysAreNew
    <3>3. OneEach(disk, Now)
      <4>1. Known(disk, Now) \subseteq disk.records /\ disk.index \subseteq disk.records
        BY <1>4, <3>1 DEF Known
      <4>2. \A e \in disk.records : e.key \in 1..disk.made
        BY <1>2, <3>1
      <4> QED BY <1>4, <3>2, <4>1, <4>2 DEF OneEach
    <3>4. SpkKept(disk)
      BY <3>1 DEF SpkKept
    <3>5. Answerable(disk, Now)
      BY <1>2, <1>4, <3>1 DEF Answerable
    <3>6. Roomy(disk, Now)
      BY <1>2, <1>4, <3>1 DEF Roomy
    <3>7. IsFiniteSet(disk.index)
      BY <3>1, FS_Subset
    <3>8. disk \in Held(Now)
      BY <1>4, <3>1, <3>3, <3>4, <3>5, <3>6, <3>7 DEF Held, Disk
    <3>9. Whole(disk, Now)
      BY <1>2, <1>4, <3>1 DEF Whole
    <3>10. Stocked(disk, Now)
      BY <1>4, <2>2, <3>1 DEF Stocked, Unrepaired
    <3> QED BY <3>8, <3>9, <3>10 DEF Fit
  <2> QED BY <1>1, <2>1, <2>2
<1>7. peers \in [Peers -> Takers]
  <2>1. P!Idle \in Takers
    BY DEF P!Idle, Takers, KeyEntries
  <2> QED BY <1>1, <2>1
<1>8. Followed
  BY <1>1 DEF Followed
<1>9. server \in KeyBundles \union {P!None} /\ wire \in Seq(KeyBundles) /\ happened \in 0..MaxConnects
      /\ lost \in BOOLEAN /\ pending \in BOOLEAN
  <2>1. 0 \in 0..MaxConnects
    BY <1>2
  <2>2. wire \in Seq(KeyBundles)
    BY <1>1
  <2> QED BY <1>1, <2>1, <2>2
<1> QED BY <1>5, <1>7, <1>8, <1>9 DEF KeysSound

LEMMA KeysNextSound ==
  ASSUME KeysSound, NumbersLast, P!Next
  PROVE  KeysSound' /\ NotSoiled
BY ConnectSound, EndCatchupSound, RepublishSound, ResetKeysSound, DueSound, ArriveSound, LoseSound,
   PurgeSound, RestartSound, FetchSound, ReceiveSound DEF P!Next

LEMMA KeysStutterSound ==
  ASSUME KeysSound, UNCHANGED keyVars
  PROVE  KeysSound' /\ NotSoiled
<1>1. /\ disk' = disk /\ wire' = wire /\ server' = server /\ peers' = peers /\ used' = used
      /\ pending' = pending /\ lost' = lost /\ torn' = torn /\ happened' = happened
  BY DEF keyVars
<1>2. Out' = Out
  BY <1>1 DEF Out
<1>3. Handed' = Handed
  BY <1>1, <1>2 DEF Handed
<1>4. Now' = Now
  BY <1>1, <1>2, <1>3 DEF Now
<1>5. Latest' = Latest
  BY <1>1 DEF Latest
<1>6. Fit(disk', Now')
  BY <1>1, <1>4 DEF KeysSound
<1> QED BY <1>1, <1>5, <1>6 DEF KeysSound, Followed, NotSoiled

\* The inductive invariant holds in every reachable state.
THEOREM KeysSoundTheorem ==
  ASSUME NumbersLast
  PROVE  OmemoSpec => []KeysSound
<1>1. OmemoInit => KeysSound
  BY KeysInitSound DEF OmemoInit
<1>2. KeysSound /\ [OmemoNext]_omemoVars => KeysSound'
  BY KeysNextSound, KeysStutterSound DEF OmemoNext, omemoVars
<1> QED BY <1>1, <1>2, PTL DEF OmemoSpec

\* With whatever the server hands out a session can be started: over rotations, replacements,
\* losses, and crashes between any two commits but those of a batch.
THEOREM PublishedIsHeldTheorem ==
  ASSUME NumbersLast
  PROVE  OmemoSpec => []PublishedIsHeld
<1>1. KeysSound => PublishedIsHeld
  <2> SUFFICES ASSUME KeysSound, NEW b \in {server} \union Range(wire), b # P!None, "reset" \notin torn
               PROVE  /\ b.spk \in disk.signed /\ b.ik = disk.identity
                      /\ "batch" \notin torn => \A e \in b.keys : e.key \in used \/ e \in disk.records
    BY DEF PublishedIsHeld, P!PublishedIsHeld, P!Range, Range
  <2>1. b \in KeyBundles
    BY DEF KeysSound, Range
  <2>2. b \in Out
    BY <2>1 DEF Out, KeyBundles
  <2>3. \A e \in b.keys : e \in Handed
    BY <2>2 DEF Handed
  <2>4. Answerable(disk, Now)
    BY DEF KeysSound, Fit, Held, Disk
  <2> QED BY <2>2, <2>3, <2>4, NowFields DEF Answerable
<1> QED BY <1>1, KeysSoundTheorem, PTL

\* A prekey that was used is not sent again, and what replaced it is what was published last,
\* unless something was lost or is pending.
THEOREM UsedIsReplacedTheorem ==
  ASSUME NumbersLast
  PROVE  OmemoSpec => UsedIsReplaced
<1>1. KeysSound => P!ReplacedIsPublished
  BY DEF KeysSound, Followed, Latest, P!ReplacedIsPublished, P!Last, Last
<1>2. KeysSound /\ [OmemoNext]_omemoVars =>
        [\A b \in P!Range(wire') \ P!Range(wire) :
           "replacement" \notin torn => \A e \in b.keys : e.key \notin used']_P!vars
  <2> SUFFICES ASSUME KeysSound, [OmemoNext]_omemoVars PROVE NotSoiled
    BY DEF NotSoiled, P!Range, Range
  <2> QED BY KeysNextSound, KeysStutterSound DEF OmemoNext, omemoVars
<1> QED BY <1>1, <1>2, KeysSoundTheorem, PTL DEF OmemoSpec, UsedIsReplaced, P!UsedIsNotPublished
=============================================================================
