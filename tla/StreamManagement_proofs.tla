----------------------- MODULE StreamManagement_proofs -----------------------
(***************************************************************************)
(* StreamManagement, for any number of stanzas, losses, resumptions and    *)
(* fresh sessions.  Its safety, with a server that acknowledges only what  *)
(* it has handled: the invariant Inductive is preserved by every action.   *)
(* First what the sequences keep when elements are appended to them and    *)
(* taken from them: the retransmit queue (Outstanding), the stanzas on the *)
(* wire (Carries) and the counts on their way back (Reports).              *)
(*                                                                         *)
(* Then what it delivers.  It implements SessionStream: every step, seen   *)
(* through the session both sides agree on, opens or closes it, submits    *)
(* stanzas to it, delivers the next one or leaves it alone.  And every     *)
(* stanza is handled once, in either direction, when a refused <resume/>   *)
(* reports how far the session came: NothingTwice is preserved.            *)
(***************************************************************************)
EXTENDS StreamManagementInv, SequenceTheorems, TLAPS

Numbered == [seq : Nat, stanza : Nat]

\* Every element built by client or server is a message.
LEMMA ElementTypes ==
  ASSUME NEW h \in Nat, NEW id \in Nat, NEW x \in Nat
  PROVE  /\ Enable \in Message /\ Resume(h, id) \in Message /\ Ack(h) \in Message
         /\ Req \in Message /\ App(h, x) \in Message /\ Enabled(id) \in Message
         /\ Resumed(h) \in Message /\ Failed(h) \in Message
         /\ Entry(h, x) \in Numbered
BY DEF Message, Element, Enable, Resume, Ack, Req, App, Enabled, Resumed, Failed, Entry,
       Numbered

LEMMA EntryType == \A h, x \in Nat : Entry(h, x) \in Numbered
BY ElementTypes

\* The fields the client and the server read.
LEMMA ElementFields ==
  ASSUME NEW h, NEW id, NEW x
  PROVE  /\ Enable.type = "enable" /\ Resume(h, id).type = "resume"
         /\ Resume(h, id).id = id /\ Resume(h, id).h = h
         /\ Ack(h).type = "a" /\ Ack(h).h = h /\ Req.type = "r"
         /\ App(h, x).type = "app" /\ App(h, x).h = h /\ App(h, x).stanza = x
         /\ Enabled(id).type = "enabled" /\ Enabled(id).id = id
         /\ Resumed(h).type = "resumed" /\ Resumed(h).h = h
         /\ Failed(h).type = "failed"
BY DEF Element, Enable, Resume, Ack, Req, App, Enabled, Resumed, Failed

LEMMA EntryFields == \A h, x : Entry(h, x).seq = h /\ Entry(h, x).stanza = x
BY DEF Entry

LEMMA AppFields ==
  \A h, x : App(h, x).type = "app" /\ App(h, x).h = h /\ App(h, x).stanza = x
BY DEF App, Element

-----------------------------------------------------------------------------
(* The sequences made of others.                                           *)

LEMMA FunctionIsSequence ==
  ASSUME NEW S, NEW n \in Nat, NEW f \in [1..n -> S]
  PROVE  f \in Seq(S) /\ Len(f) = n
<1>1. f \in Seq(S)
  BY SeqDef
<1>2. DOMAIN f = 1..n /\ DOMAIN f = 1..Len(f) /\ Len(f) \in Nat
  BY <1>1, LenProperties
<1> QED
  BY <1>1, <1>2

LEMMA EmptyQueue == <<>> \in Queue /\ <<>> \in Seq(Message) /\ <<>> \in Seq(Nat)
BY EmptySeq DEF Queue

LEMMA QueueFacts ==
  ASSUME NEW q \in Queue
  PROVE  /\ Len(q) \in Nat /\ q \in Seq(Numbered)
         /\ \A i \in 1..Len(q) : q[i] \in Numbered /\ q[i].seq \in Nat /\ q[i].stanza \in Nat
<1>1. q \in Seq(Numbered)
  BY DEF Queue, Numbered
<1>2. \A i \in 1..Len(q) : q[i] \in Numbered
  BY <1>1, ElementOfSeq
<1>3. Len(q) \in Nat
  BY <1>1, LenProperties
<1> QED
  BY <1>1, <1>2, <1>3 DEF Numbered

LEMMA NumbersFacts ==
  ASSUME NEW l \in Seq(Nat)
  PROVE  Len(l) \in Nat /\ \A i \in 1..Len(l) : l[i] \in Nat
BY LenProperties, ElementOfSeq

LEMMA OutstandingFacts ==
  ASSUME NEW q \in Queue, NEW a \in Nat, NEW l \in Seq(Nat), Outstanding(q, a, l)
  PROVE  /\ Len(q) \in Nat /\ Len(l) \in Nat /\ Len(q) = Len(l) - a
         /\ \A i \in 1..Len(q) : /\ q[i] = Entry(a + i, l[a + i])
                                /\ q[i].seq = a + i /\ q[i].stanza = l[a + i]
<1>1. Len(q) \in Nat /\ Len(l) \in Nat
  BY QueueFacts, NumbersFacts
<1>2. \A i \in 1..Len(q) : q[i] = Entry(a + i, l[a + i])
  BY DEF Outstanding
<1>3. \A i \in 1..Len(q) : q[i].seq = a + i /\ q[i].stanza = l[a + i]
  BY <1>2, EntryFields
<1> QED
  BY <1>1, <1>2, <1>3 DEF Outstanding

LEMMA StanzasType ==
  ASSUME NEW q \in Queue
  PROVE  Stanzas(q) \in Seq(Nat) /\ Len(Stanzas(q)) = Len(q)
<1>1. Stanzas(q) \in [1..Len(q) -> Nat]
  BY QueueFacts DEF Stanzas
<1> QED
  BY <1>1, QueueFacts, FunctionIsSequence

LEMMA CountedType ==
  ASSUME NEW h \in Nat, NEW xs \in Seq(Nat)
  PROVE  /\ Counted(h, xs) \in Queue
         /\ Len(Counted(h, xs)) = Len(xs)
         /\ \A i \in 1..Len(xs) : Counted(h, xs)[i] = Entry(h + i, xs[i])
<1>1. \A i \in 1..Len(xs) : Entry(h + i, xs[i]) \in Numbered
  BY ElementTypes, ElementOfSeq, LenProperties
<1>2. Counted(h, xs) \in [1..Len(xs) -> Numbered] /\ Len(xs) \in Nat
  BY <1>1, LenProperties DEF Counted
<1>3. Counted(h, xs) \in Seq(Numbered) /\ Len(Counted(h, xs)) = Len(xs)
  BY <1>2, FunctionIsSequence
<1> QED
  BY <1>3 DEF Counted, Queue, Numbered

LEMMA AppElementsType ==
  ASSUME NEW q \in Queue
  PROVE  /\ AppElements(q) \in Seq(Message)
         /\ Len(AppElements(q)) = Len(q)
         /\ \A i \in 1..Len(q) : AppElements(q)[i] = App(q[i].seq, q[i].stanza)
<1>1. \A i \in 1..Len(q) : App(q[i].seq, q[i].stanza) \in Message
  BY ElementTypes, QueueFacts
<1>2. AppElements(q) \in [1..Len(q) -> Message] /\ Len(q) \in Nat
  BY <1>1, QueueFacts DEF AppElements
<1>3. AppElements(q) \in Seq(Message) /\ Len(AppElements(q)) = Len(q)
  BY <1>2, FunctionIsSequence
<1> QED
  BY <1>3 DEF AppElements

-----------------------------------------------------------------------------
(* The retransmit queue.                                                   *)

\* sm_trim_outqueue_through takes exactly what the count covers.
LEMMA TrimOutstanding ==
  ASSUME NEW q \in Queue, NEW a \in Nat, NEW l \in Seq(Nat), NEW h \in Nat,
         Outstanding(q, a, l)
  PROVE  /\ TrimThrough(q, h) \in Queue
         /\ h \in a..Len(l) => Outstanding(TrimThrough(q, h), h, l)
<1> DEFINE ok(n) == /\ \A j \in 1..n : q[j].seq <= h
                    /\ n < Len(q) => q[n + 1].seq > h
           m == IF h <= a THEN 0 ELSE IF h - a >= Len(q) THEN Len(q) ELSE h - a
           c == CHOOSE n \in 0..Len(q) : ok(n)
<1>1. /\ Len(q) \in Nat /\ Len(l) \in Nat /\ Len(q) = Len(l) - a
      /\ \A j \in 1..Len(q) : q[j].seq = a + j
  BY OutstandingFacts
<1>2. m \in 0..Len(q) /\ ok(m)
  <2>1. CASE h <= a
    BY <1>1, <2>1
  <2>2. CASE h > a /\ h - a >= Len(q)
    BY <1>1, <2>2
  <2>3. CASE h > a /\ h - a < Len(q)
    <3>1. m = h - a
      BY <1>1, <2>3
    <3> HIDE DEF m
    <3>2. m \in 0..Len(q) /\ m + 1 \in 1..Len(q) /\ a + (m + 1) > h
      BY <1>1, <2>3, <3>1
    <3>3. q[m + 1].seq > h
      BY <1>1, <3>2
    <3>4. ASSUME NEW j \in 1..m PROVE q[j].seq <= h
      <4>1. Len(q) \in Nat /\ m \in Nat /\ m <= Len(q)
        BY <1>1, <3>2
      <4>2. j \in Nat /\ j >= 1 /\ j <= m
        BY <4>1
      <4>3. j \in 1..Len(q)
        BY <4>1, <4>2
      <4>4. a + j <= h
        BY <3>1, <4>2
      <4>5. q[j].seq = a + j
        BY <1>1, <4>3
      <4> QED BY <4>4, <4>5
    <3> QED BY <3>2, <3>3, <3>4
  <2> QED BY <1>1, <2>1, <2>2, <2>3
<1>3. c \in 0..Len(q) /\ ok(c)
  <2> HIDE DEF ok, m
  <2> QED BY <1>2
<1>4. c = m
  <2> HIDE DEF c, m
  <2>1. c \in Nat /\ m \in Nat /\ c <= Len(q) /\ m <= Len(q)
    BY <1>1, <1>2, <1>3
  <2>2. /\ \A j \in 1..m : q[j].seq <= h
        /\ m < Len(q) => q[m + 1].seq > h
    BY <1>2
  <2>3. /\ \A j \in 1..c : q[j].seq <= h
        /\ c < Len(q) => q[c + 1].seq > h
    BY <1>3
  <2> HIDE DEF ok
  <2>4. \A n \in 1..Len(q) : q[n].seq \in Nat
    BY QueueFacts
  <2>5. CASE c < m
    <3>1. c + 1 \in 1..m /\ c + 1 \in 1..Len(q) /\ c < Len(q)
      BY <2>5, <2>1, <1>1
    <3>2. q[c + 1].seq <= h /\ q[c + 1].seq > h /\ q[c + 1].seq \in Nat
      BY <3>1, <2>2, <2>3, <2>4
    <3> QED BY <3>2
  <2>6. CASE m < c
    <3>1. m + 1 \in 1..c /\ m + 1 \in 1..Len(q) /\ m < Len(q)
      BY <2>6, <2>1, <1>1
    <3>2. q[m + 1].seq <= h /\ q[m + 1].seq > h /\ q[m + 1].seq \in Nat
      BY <3>1, <2>2, <2>3, <2>4
    <3> QED BY <3>2
  <2> QED BY <2>1, <2>5, <2>6
<1>5. TrimThrough(q, h) = SubSeq(q, c + 1, Len(q))
  BY DEF TrimThrough
<1> HIDE DEF ok, c
<1>6. /\ SubSeq(q, m + 1, Len(q)) \in Seq(Numbered)
      /\ Len(SubSeq(q, m + 1, Len(q))) = Len(q) - m
      /\ \A i \in 1..(Len(q) - m) : SubSeq(q, m + 1, Len(q))[i] = q[m + i]
  <2> HIDE DEF m
  <2>1. \A i \in (m + 1)..Len(q) : q[i] \in Numbered
    BY <1>1, <1>2, QueueFacts
  <2>2. m + 1 \in Int /\ Len(q) \in Int
    BY <1>1, <1>2
  <2>3. /\ SubSeq(q, m + 1, Len(q)) \in Seq(Numbered)
        /\ Len(SubSeq(q, m + 1, Len(q))) =
             IF m + 1 <= Len(q) THEN Len(q) - (m + 1) + 1 ELSE 0
        /\ \A i \in 1..(Len(q) - (m + 1) + 1) :
             SubSeq(q, m + 1, Len(q))[i] = q[(m + 1) + i - 1]
    BY <2>1, <2>2, SubSeqProperties
  <2>4. \A i \in 1..(Len(q) - m) : i \in 1..(Len(q) - (m + 1) + 1) /\ (m + 1) + i - 1 = m + i
    BY <1>1, <1>2
  <2> QED
    BY <1>1, <1>2, <2>3, <2>4
<1>7. ASSUME h \in a..Len(l) PROVE Outstanding(SubSeq(q, m + 1, Len(q)), h, l)
  <2>1. m = h - a
    BY <1>1, <1>7
  <2> HIDE DEF m
  <2>2. Len(SubSeq(q, m + 1, Len(q))) = Len(l) - h
    BY <2>1, <1>1, <1>6, <1>7
  <2>3. ASSUME NEW i \in 1..(Len(l) - h)
        PROVE  SubSeq(q, m + 1, Len(q))[i] = Entry(h + i, l[h + i])
    <3>1. m + i \in 1..Len(q) /\ i \in 1..(Len(q) - m) /\ a + (m + i) = h + i
      BY <2>1, <1>1, <1>7
    <3>2. q[m + i] = Entry(a + (m + i), l[a + (m + i)])
      BY <3>1 DEF Outstanding
    <3> QED BY <3>1, <3>2, <1>6
  <2> QED BY <2>2, <2>3 DEF Outstanding
<1>8. SubSeq(q, m + 1, Len(q)) \in Queue
  BY <1>6 DEF Queue, Numbered
<1> QED
  BY <1>4, <1>5, <1>7, <1>8

\* connection::send queues a stanza under the next number.
LEMMA OutstandingAppend ==
  ASSUME NEW q \in Queue, NEW a \in Nat, NEW l \in Seq(Nat), NEW x \in Nat,
         Outstanding(q, a, l)
  PROVE  Outstanding(Append(q, Entry(Len(l) + 1, x)), a, Append(l, x))
<1> DEFINE r == Append(q, Entry(Len(l) + 1, x))
           k == Append(l, x)
<1>1. Entry(Len(l) + 1, x) \in Numbered
  BY ElementTypes
<1>2. /\ r \in Queue /\ Len(r) = Len(q) + 1 /\ r[Len(q) + 1] = Entry(Len(l) + 1, x)
      /\ \A i \in 1..Len(q) : r[i] = q[i]
  BY <1>1, QueueFacts, AppendProperties DEF Queue, Numbered
<1>3. Len(k) = Len(l) + 1 /\ k[Len(l) + 1] = x /\ \A i \in 1..Len(l) : k[i] = l[i]
  BY AppendProperties
<1>4. Len(q) = Len(l) - a /\ Len(q) \in Nat /\ Len(l) \in Nat
  BY OutstandingFacts
<1> HIDE DEF r, k
<1>5. ASSUME NEW i \in 1..Len(r) PROVE r[i] = Entry(a + i, k[a + i])
  <2>1. CASE i \in 1..Len(q)
    <3>1. a + i \in 1..Len(l)
      BY <2>1, <1>4
    <3>2. r[i] = q[i] /\ k[a + i] = l[a + i]
      BY <2>1, <3>1, <1>2, <1>3
    <3>3. q[i] = Entry(a + i, l[a + i])
      BY <2>1 DEF Outstanding
    <3> QED BY <3>2, <3>3
  <2>2. CASE i = Len(q) + 1
    <3>1. a + i = Len(l) + 1
      BY <2>2, <1>4
    <3> QED BY <2>2, <3>1, <1>2, <1>3
  <2>3. i \in 1..(Len(q) + 1)
    BY <1>2
  <2> QED BY <2>1, <2>2, <2>3, <1>4
<1>6. Outstanding(r, a, k)
  BY <1>2, <1>3, <1>4, <1>5 DEF Outstanding
<1> QED BY <1>6 DEF r, k

\* A replay numbers what it sends on from the last number.
LEMMA OutstandingReplay ==
  ASSUME NEW q \in Queue, NEW a \in Nat, NEW l \in Seq(Nat), NEW xs \in Seq(Nat),
         Outstanding(q, a, l)
  PROVE  Outstanding(q \o Counted(Len(l), xs), a, l \o xs)
<1> DEFINE p == Counted(Len(l), xs)
           r == q \o p
           k == l \o xs
<1>1. p \in Queue /\ Len(p) = Len(xs) /\ \A i \in 1..Len(xs) : p[i] = Entry(Len(l) + i, xs[i])
  BY CountedType
<1> HIDE DEF p
<1>2. /\ Len(r) = Len(q) + Len(xs)
      /\ \A i \in 1..(Len(q) + Len(xs)) : r[i] = IF i <= Len(q) THEN q[i] ELSE p[i - Len(q)]
  <2>1. q \in Seq(Numbered) /\ p \in Seq(Numbered)
    BY <1>1, QueueFacts
  <2>2. /\ Len(r) = Len(q) + Len(p)
        /\ \A i \in 1..(Len(q) + Len(p)) : r[i] = IF i <= Len(q) THEN q[i] ELSE p[i - Len(q)]
    BY <2>1, ConcatProperties
  <2> QED BY <2>2, <1>1
<1>3. /\ Len(k) = Len(l) + Len(xs)
      /\ \A i \in 1..(Len(l) + Len(xs)) : k[i] = IF i <= Len(l) THEN l[i] ELSE xs[i - Len(l)]
  BY ConcatProperties
<1>4. Len(q) = Len(l) - a /\ Len(q) \in Nat /\ Len(l) \in Nat /\ Len(xs) \in Nat
  BY OutstandingFacts, NumbersFacts
<1> HIDE DEF r, k
<1>5. ASSUME NEW i \in 1..Len(r) PROVE r[i] = Entry(a + i, k[a + i])
  <2>0. i \in 1..(Len(q) + Len(xs))
    BY <1>2
  <2>1. CASE i <= Len(q)
    <3>1. i \in 1..Len(q) /\ a + i \in 1..(Len(l) + Len(xs)) /\ a + i <= Len(l)
      BY <2>0, <2>1, <1>4
    <3>2. r[i] = q[i] /\ k[a + i] = l[a + i]
      BY <2>0, <3>1, <1>2, <1>3
    <3>3. q[i] = Entry(a + i, l[a + i])
      BY <3>1 DEF Outstanding
    <3> QED BY <3>2, <3>3
  <2>2. CASE i > Len(q)
    <3> DEFINE d == i - Len(q)
    <3>1. d \in 1..Len(xs) /\ Len(l) + d = a + i /\ (a + i) - Len(l) = d
          /\ a + i \in 1..(Len(l) + Len(xs)) /\ ~(a + i <= Len(l)) /\ ~(i <= Len(q))
      BY <2>0, <2>2, <1>4
    <3>2. r[i] = p[d] /\ k[a + i] = xs[d]
      BY <2>0, <3>1, <1>2, <1>3
    <3> HIDE DEF d
    <3>3. p[d] = Entry(Len(l) + d, xs[d])
      BY <3>1, <1>1
    <3> QED BY <3>1, <3>2, <3>3
  <2> QED BY <2>0, <2>1, <2>2, <1>4
<1>6. Outstanding(r, a, k)
  BY <1>2, <1>3, <1>4, <1>5 DEF Outstanding
<1> QED BY <1>6 DEF r, k, p

-----------------------------------------------------------------------------
(* The stanzas on the wire.                                                *)

\* The types of what a message on the wire carries.
LEMMA WireFacts ==
  ASSUME NEW c \in Seq(Message)
  PROVE  /\ Len(c) \in Nat
         /\ \A i \in 1..Len(c) : c[i] \in Message /\ c[i].h \in Nat /\ c[i].stanza \in Nat
                                /\ c[i].id \in Nat
<1>1. \A i \in 1..Len(c) : c[i] \in Message
  BY ElementOfSeq
<1>2. Len(c) \in Nat
  BY LenProperties
<1> QED
  BY <1>1, <1>2 DEF Message

\* A queue that is sent carries everything past the last acknowledgement.
LEMMA CarriesQueue ==
  ASSUME NEW q \in Queue, NEW a \in Nat, NEW l \in Seq(Nat), Outstanding(q, a, l)
  PROVE  Carries(AppElements(q), a, l)
<1> DEFINE c == AppElements(q)
<1>1. Len(c) = Len(q) /\ \A i \in 1..Len(q) : c[i] = App(a + i, l[a + i])
  BY AppElementsType, OutstandingFacts
<1>2. \A i \in 1..Len(c) : c[i].h = a + i /\ c[i].stanza = l[a + i] /\ IsApp(c[i])
  BY <1>1, AppFields DEF IsApp
<1>3. Len(q) \in Nat /\ Len(l) \in Nat /\ Len(q) = Len(l) - a
  BY OutstandingFacts
<1> HIDE DEF c
<1>4. ASSUME NEW i \in 1..Len(c)
      PROVE  /\ c[i].h \in (a + 1)..Len(l)
             /\ c[i].stanza = l[c[i].h]
             /\ c[i].h > a + 1 => \E j \in 1..(i - 1) : IsApp(c[j]) /\ c[j].h = c[i].h - 1
  <2>0. i \in 1..Len(q)
    BY <1>1
  <2>1. c[i].h = a + i /\ a + i \in (a + 1)..Len(l)
    BY <2>0, <1>2, <1>3
  <2>2. ASSUME c[i].h > a + 1 PROVE i - 1 \in 1..(i - 1) /\ i - 1 \in 1..Len(c)
    BY <2>1, <2>2, <1>1, <1>3
  <2>3. ASSUME c[i].h > a + 1 PROVE IsApp(c[i - 1]) /\ c[i - 1].h = c[i].h - 1
    BY <2>1, <2>2, <2>3, <1>2, <1>1, <1>3
  <2> QED
    BY <1>2, <2>1, <2>2, <2>3
<1>5. \A i, j \in 1..Len(c) : i < j => c[i].h < c[j].h
  BY <1>1, <1>2, <1>3
<1>6. ASSUME a < Len(l) PROVE \E i \in 1..Len(c) : IsApp(c[i]) /\ c[i].h = Len(l)
  <2>1. Len(c) \in 1..Len(c) /\ a + Len(c) = Len(l)
    BY <1>1, <1>3, <1>6
  <2> QED BY <2>1, <1>2
<1>7. Carries(c, a, l)
  BY <1>4, <1>5, <1>6 DEF Carries
<1> QED BY <1>7 DEF c

\* connection::send continues the chain.
LEMMA CarriesSend ==
  ASSUME NEW c \in Seq(Message), NEW n \in Nat, NEW l \in Seq(Nat), NEW x \in Nat,
         n <= Len(l), Carries(c, n, l)
  PROVE  Carries(Append(c, App(Len(l) + 1, x)), n, Append(l, x))
<1> DEFINE d == Append(c, App(Len(l) + 1, x))
           k == Append(l, x)
<1>1. App(Len(l) + 1, x) \in Message /\ Len(l) \in Nat
  BY ElementTypes, NumbersFacts
<1>2. /\ Len(d) = Len(c) + 1 /\ d[Len(c) + 1] = App(Len(l) + 1, x)
      /\ \A i \in 1..Len(c) : d[i] = c[i]
  BY <1>1, AppendProperties
<1>3. Len(k) = Len(l) + 1 /\ k[Len(l) + 1] = x /\ \A i \in 1..Len(l) : k[i] = l[i]
  BY AppendProperties
<1>4. IsApp(d[Len(c) + 1]) /\ d[Len(c) + 1].h = Len(l) + 1 /\ d[Len(c) + 1].stanza = x
  BY <1>2, AppFields DEF IsApp
<1>5. Len(c) \in Nat /\ \A i \in 1..Len(c) : c[i].h \in Nat
  BY WireFacts
<1> HIDE DEF d, k
<1>6. ASSUME NEW i \in 1..Len(d), IsApp(d[i])
      PROVE  /\ d[i].h \in (n + 1)..Len(k)
             /\ d[i].stanza = k[d[i].h]
             /\ d[i].h > n + 1 => \E j \in 1..(i - 1) : IsApp(d[j]) /\ d[j].h = d[i].h - 1
  <2>1. CASE i \in 1..Len(c)
    <3>1. d[i] = c[i] /\ IsApp(c[i])
      BY <2>1, <1>2, <1>6
    <3>2. c[i].h \in (n + 1)..Len(l) /\ c[i].stanza = l[c[i].h]
      BY <2>1, <3>1 DEF Carries
    <3>3. c[i].h \in (n + 1)..Len(k) /\ c[i].h \in 1..Len(l) /\ k[c[i].h] = l[c[i].h]
      BY <3>2, <1>1, <1>3
    <3>4. ASSUME c[i].h > n + 1
          PROVE  \E j \in 1..(i - 1) : IsApp(d[j]) /\ d[j].h = d[i].h - 1
      <4>1. PICK j \in 1..(i - 1) : IsApp(c[j]) /\ c[j].h = c[i].h - 1
        BY <2>1, <3>1, <3>4 DEF Carries
      <4>2. j \in 1..Len(c) /\ d[j] = c[j]
        BY <2>1, <1>2, <1>5
      <4> QED BY <4>1, <4>2, <3>1
    <3> QED BY <3>1, <3>2, <3>3, <3>4
  <2>2. CASE i = Len(c) + 1
    <3>1. d[i].h = Len(l) + 1 /\ d[i].stanza = k[d[i].h] /\ d[i].h \in (n + 1)..Len(k)
      BY <2>2, <1>1, <1>3, <1>4
    <3>2. ASSUME d[i].h > n + 1
          PROVE  \E j \in 1..(i - 1) : IsApp(d[j]) /\ d[j].h = d[i].h - 1
      <4>1. n < Len(l)
        BY <3>1, <3>2, <1>1
      <4>2. PICK j \in 1..Len(c) : IsApp(c[j]) /\ c[j].h = Len(l)
        BY <4>1 DEF Carries
      <4>3. j \in 1..(i - 1) /\ d[j] = c[j] /\ d[i].h - 1 = Len(l)
        BY <2>2, <4>2, <3>1, <1>1, <1>2, <1>5
      <4> QED BY <4>2, <4>3
    <3> QED BY <3>1, <3>2
  <2>3. i \in 1..(Len(c) + 1)
    BY <1>2
  <2> QED BY <2>1, <2>2, <2>3, <1>5
<1>7. ASSUME NEW i \in 1..Len(d), NEW j \in 1..Len(d), i < j, IsApp(d[i]), IsApp(d[j])
      PROVE  d[i].h < d[j].h
  <2>0. i \in 1..Len(c) /\ d[i] = c[i] /\ (j \in 1..Len(c) \/ j = Len(c) + 1)
    BY <1>2, <1>5, <1>7
  <2>1. CASE j \in 1..Len(c)
    <3>1. d[j] = c[j]
      BY <2>1, <1>2
    <3> QED BY <2>0, <2>1, <3>1, <1>7 DEF Carries
  <2>2. CASE j = Len(c) + 1
    <3>1. c[i].h \in (n + 1)..Len(l)
      BY <2>0, <1>7 DEF Carries
    <3> QED BY <2>0, <2>2, <3>1, <1>1, <1>4
  <2> QED BY <2>0, <2>1, <2>2
<1>8. \E i \in 1..Len(d) : IsApp(d[i]) /\ d[i].h = Len(k)
  <2>1. Len(c) + 1 \in 1..Len(d)
    BY <1>2, <1>5
  <2> QED BY <2>1, <1>3, <1>4
<1>9. Carries(d, n, k)
  BY <1>6, <1>7, <1>8 DEF Carries
<1> QED BY <1>9 DEF d, k

\* What is appended to a sequence comes last; what its tail holds was in it.
LEMMA WireAppend ==
  ASSUME NEW c \in Seq(Message), NEW e \in Message
  PROVE  /\ Append(c, e) \in Seq(Message) /\ Len(Append(c, e)) = Len(c) + 1
         /\ Append(c, e)[Len(c) + 1] = e
         /\ \A i \in 1..Len(c) : i \in 1..(Len(c) + 1) /\ Append(c, e)[i] = c[i]
         /\ \A i \in 1..(Len(c) + 1) : i \in 1..Len(c) \/ i = Len(c) + 1
<1>1. Len(c) \in Nat
  BY WireFacts
<1> QED
  BY <1>1, AppendProperties

LEMMA WireTail ==
  ASSUME NEW c \in Seq(Message), c # <<>>
  PROVE  /\ Head(c) = c[1] /\ c[1] \in Message /\ Tail(c) \in Seq(Message)
         /\ Len(Tail(c)) = Len(c) - 1 /\ Len(c) \in Nat \ {0}
         /\ \A i \in 1..(Len(c) - 1) : Tail(c)[i] = c[i + 1] /\ i + 1 \in 2..Len(c)
         /\ \A i \in 2..Len(c) : i - 1 \in 1..(Len(c) - 1) /\ Tail(c)[i - 1] = c[i]
<1>1. Len(c) \in Nat /\ Len(c) # 0
  BY WireFacts, EmptySeq
<1>2. Head(c) = c[1]
  BY <1>1
<1>3. Head(c) \in Message
  BY HeadTailProperties
<1>4. /\ Tail(c) \in Seq(Message) /\ Len(Tail(c)) = Len(c) - 1
      /\ \A i \in 1..Len(Tail(c)) : Tail(c)[i] = c[i + 1]
  BY HeadTailProperties
<1>5. \A i \in 1..(Len(c) - 1) : Tail(c)[i] = c[i + 1] /\ i + 1 \in 2..Len(c)
  BY <1>1, <1>4
<1>6. \A i \in 2..Len(c) : i - 1 \in 1..(Len(c) - 1) /\ (i - 1) + 1 = i
  BY <1>1
<1>7. \A i \in 2..Len(c) : Tail(c)[i - 1] = c[i]
  BY <1>5, <1>6
<1> QED
  BY <1>1, <1>2, <1>3, <1>4, <1>5, <1>6, <1>7

LEMMA CarriesOther ==
  ASSUME NEW c \in Seq(Message), NEW n \in Nat, NEW l \in Seq(Nat), NEW e \in Message,
         Carries(c, n, l), ~IsApp(e)
  PROVE  Carries(Append(c, e), n, l)
<1> DEFINE d == Append(c, e)
<1>1. Len(c) \in Nat /\ Len(d) = Len(c) + 1 /\ d[Len(c) + 1] = e
  BY WireAppend, WireFacts
<1>2. \A i \in 1..Len(c) : i \in 1..Len(d) /\ d[i] = c[i]
  BY WireAppend
<1>3. \A i \in 1..Len(d) : IsApp(d[i]) => i \in 1..Len(c) /\ d[i] = c[i]
  BY <1>1, WireAppend
<1> HIDE DEF d
<1>4. ASSUME NEW i \in 1..Len(d), IsApp(d[i])
      PROVE  /\ d[i].h \in (n + 1)..Len(l)
             /\ d[i].stanza = l[d[i].h]
             /\ d[i].h > n + 1 => \E j \in 1..(i - 1) : IsApp(d[j]) /\ d[j].h = d[i].h - 1
  <2>1. i \in 1..Len(c) /\ d[i] = c[i]
    BY <1>3, <1>4
  <2>2. /\ c[i].h \in (n + 1)..Len(l) /\ c[i].stanza = l[c[i].h]
        /\ c[i].h > n + 1 => \E j \in 1..(i - 1) : IsApp(c[j]) /\ c[j].h = c[i].h - 1
    BY <2>1, <1>4 DEF Carries
  <2>3. \A j \in 1..(i - 1) : d[j] = c[j]
    BY <2>1, <1>1, <1>2
  <2> QED BY <2>1, <2>2, <2>3
<1>5. \A i, j \in 1..Len(d) : i < j /\ IsApp(d[i]) /\ IsApp(d[j]) => d[i].h < d[j].h
  BY <1>3 DEF Carries
<1>6. n < Len(l) => \E i \in 1..Len(d) : IsApp(d[i]) /\ d[i].h = Len(l)
  BY <1>2 DEF Carries
<1>7. Carries(d, n, l)
  BY <1>4, <1>5, <1>6 DEF Carries
<1> QED BY <1>7 DEF d

\* An element that is not a stanza leaves the wire.
LEMMA CarriesTailOther ==
  ASSUME NEW c \in Seq(Message), NEW n \in Nat, NEW l \in Seq(Nat), c # <<>>,
         Carries(c, n, l), ~IsApp(c[1])
  PROVE  Carries(Tail(c), n, l)
<1> DEFINE d == Tail(c)
<1>1. Len(c) \in Nat \ {0} /\ Len(d) = Len(c) - 1
  BY WireTail
<1>2. \A i \in 1..Len(d) : d[i] = c[i + 1] /\ i + 1 \in 1..Len(c)
  BY <1>1, WireTail
<1>3. \A i \in 1..Len(c) : IsApp(c[i]) => i - 1 \in 1..Len(d) /\ d[i - 1] = c[i]
  <2>1. \A i \in 1..Len(c) : IsApp(c[i]) => i \in 2..Len(c)
    BY <1>1
  <2> QED BY <2>1, <1>1, WireTail
<1> HIDE DEF d
<1>4. ASSUME NEW i \in 1..Len(d), IsApp(d[i])
      PROVE  /\ d[i].h \in (n + 1)..Len(l)
             /\ d[i].stanza = l[d[i].h]
             /\ d[i].h > n + 1 => \E j \in 1..(i - 1) : IsApp(d[j]) /\ d[j].h = d[i].h - 1
  <2>1. i + 1 \in 1..Len(c) /\ d[i] = c[i + 1] /\ (i + 1) - 1 = i
    BY <1>2
  <2>2. d[i].h \in (n + 1)..Len(l) /\ d[i].stanza = l[d[i].h]
    BY <2>1, <1>4 DEF Carries
  <2>3. ASSUME d[i].h > n + 1
        PROVE  \E j \in 1..(i - 1) : IsApp(d[j]) /\ d[j].h = d[i].h - 1
    <3>1. PICK j \in 1..((i + 1) - 1) : IsApp(c[j]) /\ c[j].h = d[i].h - 1
      BY <2>1, <2>3, <1>4 DEF Carries
    <3>2. j \in 1..Len(c) /\ j - 1 < i
      BY <3>1, <2>1, <1>1
    <3>3. j - 1 \in 1..Len(d) /\ d[j - 1] = c[j]
      BY <3>1, <3>2, <1>3
    <3>4. j - 1 \in 1..(i - 1)
      BY <3>2, <3>3
    <3> QED BY <3>1, <3>3, <3>4
  <2> QED BY <2>2, <2>3
<1>5. ASSUME NEW i \in 1..Len(d), NEW j \in 1..Len(d), i < j, IsApp(d[i]), IsApp(d[j])
      PROVE  d[i].h < d[j].h
  <2>1. i + 1 \in 1..Len(c) /\ j + 1 \in 1..Len(c) /\ i + 1 < j + 1
    BY <1>2, <1>5
  <2> QED BY <2>1, <1>2, <1>5 DEF Carries
<1>6. n < Len(l) => \E i \in 1..Len(d) : IsApp(d[i]) /\ d[i].h = Len(l)
  BY <1>3 DEF Carries
<1>7. Carries(d, n, l)
  BY <1>4, <1>5, <1>6 DEF Carries
<1> QED BY <1>7 DEF d

\* The first stanza on the wire is the one the server waits for.
LEMMA CarriesFirst ==
  ASSUME NEW c \in Seq(Message), NEW n \in Nat, NEW l \in Seq(Nat), c # <<>>,
         Carries(c, n, l), IsApp(c[1])
  PROVE  c[1].h = n + 1 /\ n + 1 <= Len(l) /\ c[1].stanza = l[n + 1]
<1>1. Len(c) \in Nat \ {0} /\ Len(l) \in Nat
  BY WireTail, NumbersFacts
<1>2. 1 \in 1..Len(c)
  BY <1>1
<1>3. c[1].h \in (n + 1)..Len(l) /\ c[1].stanza = l[c[1].h]
  BY <1>2 DEF Carries
<1>4. ~(c[1].h > n + 1)
  <2>1. c[1].h > n + 1 => \E j \in 1..(1 - 1) : IsApp(c[j])
    BY <1>2 DEF Carries
  <2> QED BY <2>1
<1>5. c[1].h = n + 1
  BY <1>1, <1>3, <1>4
<1> QED BY <1>1, <1>3, <1>5

LEMMA CarriesTailApp ==
  ASSUME NEW c \in Seq(Message), NEW n \in Nat, NEW l \in Seq(Nat), c # <<>>,
         Carries(c, n, l), IsApp(c[1])
  PROVE  Carries(Tail(c), n + 1, l)
<1> DEFINE d == Tail(c)
<1>0. c[1].h = n + 1 /\ n + 1 <= Len(l) /\ Len(l) \in Nat
  BY CarriesFirst, NumbersFacts
<1>1. Len(c) \in Nat \ {0} /\ Len(d) = Len(c) - 1 /\ 1 \in 1..Len(c)
  BY WireTail
<1>2. \A i \in 1..Len(d) : d[i] = c[i + 1] /\ i + 1 \in 1..Len(c) /\ 1 < i + 1
  BY <1>1, WireTail
<1>3. \A i \in 1..Len(c) : c[i].h # n + 1 => i - 1 \in 1..Len(d) /\ d[i - 1] = c[i]
  <2>1. \A i \in 1..Len(c) : c[i].h # n + 1 => i \in 2..Len(c)
    BY <1>0, <1>1
  <2> QED BY <2>1, <1>1, WireTail
<1> HIDE DEF d
<1>4. ASSUME NEW i \in 1..Len(d), IsApp(d[i])
      PROVE  /\ d[i].h \in ((n + 1) + 1)..Len(l)
             /\ d[i].stanza = l[d[i].h]
             /\ d[i].h > (n + 1) + 1 => \E j \in 1..(i - 1) : IsApp(d[j]) /\ d[j].h = d[i].h - 1
  <2>1. i + 1 \in 1..Len(c) /\ d[i] = c[i + 1] /\ (i + 1) - 1 = i /\ 1 < i + 1
    BY <1>2
  <2>2. d[i].h \in (n + 1)..Len(l) /\ d[i].stanza = l[d[i].h] /\ n + 1 < d[i].h
    BY <2>1, <1>0, <1>1, <1>4 DEF Carries
  <2>3. ASSUME d[i].h > (n + 1) + 1
        PROVE  \E j \in 1..(i - 1) : IsApp(d[j]) /\ d[j].h = d[i].h - 1
    <3>0. d[i].h > n + 1 /\ d[i].h - 1 # n + 1
      BY <2>2, <2>3
    <3>1. PICK j \in 1..((i + 1) - 1) : IsApp(c[j]) /\ c[j].h = d[i].h - 1
      BY <2>1, <3>0, <1>4 DEF Carries
    <3>2. j \in 1..Len(c) /\ j - 1 < i
      BY <3>1, <2>1, <1>1
    <3>3. j - 1 \in 1..Len(d) /\ d[j - 1] = c[j]
      BY <3>0, <3>1, <3>2, <1>3
    <3>4. j - 1 \in 1..(i - 1)
      BY <3>2, <3>3
    <3> QED BY <3>1, <3>3, <3>4
  <2>4. d[i].h \in ((n + 1) + 1)..Len(l)
    BY <2>2, <1>0
  <2> QED BY <2>2, <2>3, <2>4
<1>5. ASSUME NEW i \in 1..Len(d), NEW j \in 1..Len(d), i < j, IsApp(d[i]), IsApp(d[j])
      PROVE  d[i].h < d[j].h
  <2>1. i + 1 \in 1..Len(c) /\ j + 1 \in 1..Len(c) /\ i + 1 < j + 1
    BY <1>2, <1>5
  <2> QED BY <2>1, <1>2, <1>5 DEF Carries
<1>6. ASSUME n + 1 < Len(l) PROVE \E i \in 1..Len(d) : IsApp(d[i]) /\ d[i].h = Len(l)
  <2>1. n < Len(l) /\ Len(l) # n + 1
    BY <1>0, <1>6
  <2>2. PICK i \in 1..Len(c) : IsApp(c[i]) /\ c[i].h = Len(l)
    BY <2>1 DEF Carries
  <2>3. i - 1 \in 1..Len(d) /\ d[i - 1] = c[i]
    BY <2>1, <2>2, <1>3
  <2> QED BY <2>2, <2>3
<1>7. Carries(d, n + 1, l)
  BY <1>4, <1>5, <1>6 DEF Carries
<1> QED BY <1>7 DEF d

-----------------------------------------------------------------------------
(* The counts on their way back.                                           *)

LEMMA ReportsAppend ==
  ASSUME NEW s \in Seq(Message), NEW a \in Nat, NEW n \in Nat, a <= n, NEW e \in Message,
         Reports(s, a, n), Counts(e) => e.h = n
  PROVE  Reports(Append(s, e), a, n)
<1> DEFINE d == Append(s, e)
<1>1. /\ Len(d) = Len(s) + 1 /\ d[Len(s) + 1] = e /\ Len(s) \in Nat
      /\ \A i \in 1..Len(s) : d[i] = s[i]
      /\ \A i \in 1..Len(d) : i \in 1..Len(s) \/ i = Len(s) + 1
  BY WireAppend, WireFacts
<1> HIDE DEF d
<1>2. \A i \in 1..Len(d) : Counts(d[i]) => d[i].h \in a..n
  BY <1>1 DEF Reports
<1>3. ASSUME NEW i \in 1..Len(d), NEW j \in 1..Len(d), i < j, Counts(d[i]), Counts(d[j])
      PROVE  d[i].h <= d[j].h
  <2>1. i \in 1..Len(s) /\ d[i] = s[i]
    BY <1>1, <1>3
  <2>2. CASE j \in 1..Len(s)
    <3>1. d[j] = s[j]
      BY <2>2, <1>1
    <3> QED BY <2>1, <2>2, <3>1, <1>3 DEF Reports
  <2>3. CASE j = Len(s) + 1
    <3>1. d[j].h = n
      BY <2>3, <1>1, <1>3
    <3> QED BY <3>1, <1>2, <1>3
  <2> QED BY <2>2, <2>3, <1>1
<1>4. Reports(d, a, n)
  BY <1>2, <1>3 DEF Reports
<1> QED BY <1>4 DEF d

\* The first count is a lower bound of those that follow.
LEMMA ReportsTail ==
  ASSUME NEW s \in Seq(Message), NEW a \in Nat, NEW n \in Nat, s # <<>>, Reports(s, a, n)
  PROVE  /\ Reports(Tail(s), a, n)
         /\ Counts(s[1]) => s[1].h \in a..n /\ Reports(Tail(s), s[1].h, n)
<1> DEFINE d == Tail(s)
<1>1. /\ Len(s) \in Nat \ {0} /\ Len(d) = Len(s) - 1 /\ 1 \in 1..Len(s)
      /\ \A i \in 1..Len(d) : d[i] = s[i + 1] /\ i + 1 \in 2..Len(s)
  BY WireTail
<1>2. \A i \in 1..Len(d) : i + 1 \in 1..Len(s) /\ 1 < i + 1
  BY <1>1
<1> HIDE DEF d
<1>3. \A i \in 1..Len(d) : Counts(d[i]) => d[i].h \in a..n
  BY <1>1, <1>2 DEF Reports
<1>4. ASSUME NEW i \in 1..Len(d), NEW j \in 1..Len(d), i < j, Counts(d[i]), Counts(d[j])
      PROVE  d[i].h <= d[j].h
  <2>1. i + 1 < j + 1
    BY <1>4
  <2> QED BY <2>1, <1>1, <1>2, <1>4 DEF Reports
<1>5. Reports(d, a, n)
  BY <1>3, <1>4 DEF Reports
<1>6. ASSUME Counts(s[1]) PROVE s[1].h \in a..n /\ Reports(d, s[1].h, n)
  <2>1. s[1].h \in a..n
    BY <1>1, <1>6 DEF Reports
  <2>2. \A i \in 1..Len(d) : Counts(d[i]) => s[1].h <= d[i].h
    BY <1>1, <1>2, <1>6 DEF Reports
  <2>3. \A i \in 1..Len(d) : Counts(d[i]) => d[i].h \in s[1].h..n
    BY <2>1, <2>2, <1>3
  <2> QED BY <2>1, <2>3, <1>4 DEF Reports
<1> QED BY <1>5, <1>6 DEF d

\* The server handles more.
LEMMA ReportsGrow ==
  ASSUME NEW s, NEW a \in Nat, NEW n \in Nat, Reports(s, a, n)
  PROVE  Reports(s, a, n + 1)
<1>1. \A i \in 1..Len(s) : Counts(s[i]) => s[i].h \in a..(n + 1)
  BY DEF Reports
<1> QED BY <1>1 DEF Reports

LEMMA ReportsNothing == \A a, n : Reports(<<>>, a, n)
BY DEF Reports

-----------------------------------------------------------------------------
(* Streams without elements of a negotiation.                              *)

LEMMA OrdinaryAppend ==
  ASSUME NEW c \in Seq(Message), NEW e \in Message, NEW k \in Nat \ {0}, Ordinary(e),
         \A i \in k..Len(c) : Ordinary(c[i])
  PROVE  \A i \in k..Len(Append(c, e)) : Ordinary(Append(c, e)[i])
<1>1. ASSUME NEW i \in k..(Len(c) + 1) PROVE Ordinary(Append(c, e)[i])
  <2>1. Len(c) \in Nat /\ i \in 1..(Len(c) + 1)
    BY <1>1, WireFacts
  <2>2. CASE i = Len(c) + 1
    BY <2>2, WireAppend
  <2>3. CASE i \in 1..Len(c)
    BY <1>1, <2>1, <2>3, WireAppend
  <2> QED BY <2>1, <2>2, <2>3
<1> QED BY <1>1, WireAppend

LEMMA OrdinaryTail ==
  ASSUME NEW c \in Seq(Message), c # <<>>, \A i \in 2..Len(c) : Ordinary(c[i])
  PROVE  \A i \in 1..Len(Tail(c)) : Ordinary(Tail(c)[i])
BY WireTail

LEMMA OrdinaryQueue ==
  ASSUME NEW q \in Queue
  PROVE  \A i \in 1..Len(AppElements(q)) : Ordinary(AppElements(q)[i])
BY AppElementsType, AppFields DEF Ordinary

LEMMA OutstandingCounted ==
  ASSUME NEW xs \in Seq(Nat)
  PROVE  Outstanding(Counted(0, xs), 0, xs)
<1>1. /\ Len(Counted(0, xs)) = Len(xs) /\ Len(xs) \in Nat
      /\ \A i \in 1..Len(xs) : Counted(0, xs)[i] = Entry(0 + i, xs[i]) /\ 0 + i = i
  BY CountedType, NumbersFacts
<1> QED BY <1>1 DEF Outstanding

LEMMA QueueConcat ==
  ASSUME NEW p \in Queue, NEW q \in Queue
  PROVE  p \o q \in Queue
BY ConcatProperties DEF Queue

-----------------------------------------------------------------------------
(* What the server answers.                                                *)

\* An answer that is alone on its way.
LEMMA ShortAnswer ==
  ASSUME NEW e \in Message, NEW n \in Nat, Counts(e) => e.h \in 0..n
  PROVE  /\ Append(<<>>, e) = <<e>> /\ <<e>> \in Seq(Message) /\ <<e>> # <<>>
         /\ Len(<<e>>) = 1 /\ <<e>>[1] = e
         /\ \A i \in 2..Len(<<e>>) : Ordinary(<<e>>[i])
         /\ Reports(<<e>>, 0, n)
<1> DEFINE s == <<e>>
<1>1. Append(<<>>, e) = s /\ s \in Seq(Message) /\ s # <<>> /\ Len(s) = 1 /\ s[1] = e
  OBVIOUS
<1> HIDE DEF s
<1>2. \A i \in 1..Len(s) : i = 1
  BY <1>1
<1>3. \A i \in 2..Len(s) : Ordinary(s[i])
  BY <1>1
<1>4. Reports(s, 0, n)
  BY <1>1, <1>2 DEF Reports
<1> QED BY <1>1, <1>3, <1>4 DEF s

\* An answer and the stanzas that follow it.
LEMMA LongAnswer ==
  ASSUME NEW e \in Message, NEW n \in Nat, Counts(e) => e.h \in 0..n, NEW q \in Queue
  PROVE  /\ <<e>> \o AppElements(q) \in Seq(Message)
         /\ <<e>> \o AppElements(q) # <<>>
         /\ (<<e>> \o AppElements(q))[1] = e
         /\ \A i \in 2..Len(<<e>> \o AppElements(q)) : Ordinary((<<e>> \o AppElements(q))[i])
         /\ Reports(<<e>> \o AppElements(q), 0, n)
<1> DEFINE a == AppElements(q)
           s == <<e>> \o a
<1>1. /\ a \in Seq(Message) /\ Len(a) = Len(q) /\ Len(q) \in Nat
      /\ \A i \in 1..Len(a) : a[i] = App(q[i].seq, q[i].stanza)
  BY AppElementsType, QueueFacts
<1>2. <<e>> \in Seq(Message) /\ Len(<<e>>) = 1 /\ <<e>>[1] = e
  OBVIOUS
<1> HIDE DEF a
<1>3. /\ s \in Seq(Message) /\ Len(s) = 1 + Len(a)
      /\ \A i \in 1..(1 + Len(a)) : s[i] = IF i <= 1 THEN <<e>>[i] ELSE a[i - 1]
  BY <1>1, <1>2, ConcatProperties
<1> HIDE DEF s
<1>4. s[1] = e /\ s # <<>> /\ Len(s) \in Nat
  BY <1>1, <1>2, <1>3
<1>5. \A i \in 2..Len(s) : i - 1 \in 1..Len(a) /\ s[i] = a[i - 1]
  BY <1>1, <1>3
<1>6. \A i \in 2..Len(s) : s[i].type = "app"
  <2>1. \A i \in 1..Len(a) : a[i].type = "app"
    BY <1>1, AppFields
  <2> QED BY <1>5, <2>1
<1>7. \A i \in 2..Len(s) : Ordinary(s[i]) /\ ~Counts(s[i])
  BY <1>6 DEF Ordinary, Counts
<1>8. \A i \in 1..Len(s) : i = 1 \/ i \in 2..Len(s)
  BY <1>4
<1>9. \A i \in 1..Len(s) : Counts(s[i]) => i = 1
  BY <1>7, <1>8
<1>10. Reports(s, 0, n)
  <2>1. \A i \in 1..Len(s) : Counts(s[i]) => s[i].h \in 0..n
    BY <1>4, <1>9
  <2>2. \A i, j \in 1..Len(s) : ~(i < j /\ Counts(s[i]) /\ Counts(s[j]))
    BY <1>4, <1>9
  <2> QED BY <2>1, <2>2 DEF Reports
<1> QED BY <1>3, <1>4, <1>7, <1>10 DEF s, a

LEMMA SuffixType ==
  ASSUME NEW xs \in Seq(Nat), NEW h \in Nat
  PROVE  SubSeq(xs, h + 1, Len(xs)) \in Seq(Nat)
<1>1. Len(xs) \in Nat /\ \A i \in (h + 1)..Len(xs) : xs[i] \in Nat
  BY NumbersFacts
<1>2. h + 1 \in Int /\ Len(xs) \in Int
  BY <1>1
<1> QED BY <1>1, <1>2, SubSeqProperties

-----------------------------------------------------------------------------
(* The inductive invariant.                                                *)

\* What the two sides agree on in a session.
Agreement == QueueIsUnacked /\ HandledInOrder /\ NothingForgotten

\* Steps that leave the queue and the counts of the session alone keep it.
LEMMA AgreementKept ==
  ASSUME Agreement,
         UNCHANGED <<log, handled, sm_outqueue, sm_last_ack, sm_h_outbound>>,
         SameSession' => SameSession
  PROVE  Agreement'
<1>1. QueueIsUnacked'
  BY DEF Agreement, QueueIsUnacked
<1>2. HandledInOrder'
  BY DEF Agreement, HandledInOrder
<1>3. NothingForgotten'
  BY DEF Agreement, NothingForgotten
<1> QED BY <1>1, <1>2, <1>3 DEF Agreement

\* A session begins with empty counts, or is over.
LEMMA AgreementEmpty ==
  ASSUME sm_outqueue' = <<>>, log' = <<>>, sm_last_ack' = 0, sm_h_outbound' = 0,
         ~SameSession'
  PROVE  Agreement'
<1>1. QueueIsUnacked'
  BY DEF QueueIsUnacked, Outstanding
<1>2. HandledInOrder' /\ NothingForgotten'
  BY DEF HandledInOrder, NothingForgotten
<1> QED BY <1>1, <1>2 DEF Agreement

\* What a state says of the phase it is in.
LEMMA PhaseFacts ==
  ASSUME Inductive
  PROVE  /\ link \in {"off", "connecting", "up"}
         /\ sm_awaiting => link = "up" /\ (Asking \/ Answered)
         /\ link = "up" /\ sm_awaiting => ~sm_enabled
         /\ link = "up" /\ sm_enabled => Running
         /\ link = "up" /\ srv_on => Answered \/ Running
         /\ link # "up" => Silent
         /\ link = "up" /\ s2c # <<>> => Answered \/ Running
BY DEF Inductive, TypeOK, Phases, Silent, Asking, Answered, Running, Plain

-----------------------------------------------------------------------------
(* connection::send.                                                       *)

LEMMA DeferStep ==
  ASSUME Inductive, Send, Defer(submitted + 1)
  PROVE  Inductive'
<1>0. sm_awaiting /\ link = "up" /\ link' = link /\ submitted \in Nat /\ submitted' = submitted + 1
  BY PhaseFacts DEF Send, Defer, Inductive, TypeOK
<1>1. sm_pending_replay' \in Queue
  <2>1. submitted + 1 \in Nat /\ sm_pending_replay \in Seq(Numbered)
    BY <1>0 DEF Inductive, TypeOK, Queue, Numbered
  <2>3. Entry(0, submitted + 1) \in Numbered
    BY <2>1, EntryType
  <2>2. Append(sm_pending_replay, Entry(0, submitted + 1)) \in Seq(Numbered)
    BY <2>1, <2>3, AppendProperties
  <2> QED BY <2>2 DEF Defer, Queue, Numbered
<1>2. TypeOK'
  BY <1>0, <1>1 DEF Inductive, TypeOK, Send, Defer, flags, counters, server, bounds
<1>3. Phases' /\ OneSession' /\ NothingWaits'
  BY <1>0 DEF Inductive, Phases, OneSession, NothingWaits, Send, Defer, flags, counters, server,
              Silent, Asking, Answered, Running, Plain
<1>4. Agreement'
  BY <1>0, AgreementKept
     DEF Agreement, Inductive, SameSession, Send, Defer, flags, counters, server
<1> QED BY <1>2, <1>3, <1>4 DEF Inductive, Agreement

LEMMA SendCountedStep ==
  ASSUME Inductive, Send, SendCounted(submitted + 1)
  PROVE  Inductive'
<1> DEFINE x == submitted + 1
<1>0. /\ ~sm_awaiting /\ sm_enabled /\ link' = link /\ link # "off" /\ submitted' = x
      /\ sm_h_outbound = Len(log) /\ Len(log) \in Nat
      /\ sm_outqueue' = Append(sm_outqueue, Entry(Len(log) + 1, x))
      /\ log' = Append(log, x) /\ sm_h_outbound' = Len(log) + 1
      /\ c2s' = IF link = "up" THEN c2s \o <<App(Len(log) + 1, x)>> ELSE c2s
      /\ UNCHANGED <<s2c, sm_h_inbound, sm_last_ack, sm_pending_replay, received>>
      /\ UNCHANGED flags /\ UNCHANGED server /\ UNCHANGED bounds
  BY NumbersFacts DEF Send, SendCounted, Transmit, Inductive, TypeOK, QueueIsUnacked
<1>t. /\ x \in Nat /\ sm_outqueue \in Queue /\ log \in Seq(Nat) /\ c2s \in Seq(Message)
      /\ sm_last_ack \in Nat
  BY DEF Inductive, TypeOK
<1> HIDE DEF x
<1>1. sm_outqueue' \in Queue
  <2>1. Entry(Len(log) + 1, x) \in Numbered /\ sm_outqueue \in Seq(Numbered)
    BY <1>0, <1>t, ElementTypes DEF Queue, Numbered
  <2>2. Append(sm_outqueue, Entry(Len(log) + 1, x)) \in Seq(Numbered)
    BY <2>1, AppendProperties
  <2> QED BY <2>2, <1>0 DEF Queue, Numbered
<1>2. log' \in Seq(Nat) /\ Len(log') = Len(log) + 1 /\ \A k \in 1..Len(log) : log'[k] = log[k]
  BY <1>0, <1>t, AppendProperties
<1>3. App(Len(log) + 1, x) \in Message
  BY <1>0, <1>t, ElementTypes
<1>4. link = "up" => c2s' = Append(c2s, App(Len(log) + 1, x))
  BY <1>0, <1>3, <1>t, AppendIsConcat
<1>5. c2s' \in Seq(Message)
  BY <1>0, <1>3, <1>4, <1>t, WireAppend
<1>6. TypeOK'
  BY <1>0, <1>1, <1>2, <1>5, <1>t DEF Inductive, TypeOK, flags, server, bounds
<1>7. Agreement'
  <2>1. QueueIsUnacked'
    <3>1. Outstanding(Append(sm_outqueue, Entry(Len(log) + 1, x)), sm_last_ack, Append(log, x))
      BY <1>t, OutstandingAppend DEF Inductive, QueueIsUnacked
    <3> QED BY <3>1, <1>0, <1>2 DEF QueueIsUnacked
  <2>2. SameSession' => SameSession /\ Len(handled) <= Len(log)
    BY <1>0 DEF SameSession, Inductive, HandledInOrder, flags, server
  <2>3. HandledInOrder' /\ NothingForgotten'
    <3>1. handled' = handled /\ sm_last_ack' = sm_last_ack /\ handled \in Seq(Nat)
      BY <1>0 DEF server, Inductive, TypeOK
    <3>2. Len(handled) \in Nat
      BY <3>1, NumbersFacts
    <3> QED BY <1>0, <1>2, <2>2, <3>1, <3>2 DEF HandledInOrder, NothingForgotten, Inductive
  <2> QED BY <2>1, <2>3 DEF Agreement
<1>8. Phases' /\ OneSession' /\ NothingWaits'
  <2>1. CASE link # "up"
    BY <1>0, <2>1 DEF Inductive, Phases, Silent, OneSession, NothingWaits, flags, server
  <2>2. CASE link = "up"
    <3>1. Running
      BY <1>0, <2>2, PhaseFacts
    <3>2. Len(handled) \in Nat /\ Len(handled) <= Len(log)
      BY <3>1, <2>2, NumbersFacts DEF Inductive, TypeOK, HandledInOrder, SameSession, Running
    <3>3. Carries(c2s', Len(handled), log')
      BY <3>1, <3>2, <1>0, <1>4, <1>t, <2>2, CarriesSend DEF Running
    <3>4. \A i \in 1..Len(c2s') : Ordinary(c2s'[i])
      <4>1. Ordinary(App(Len(log) + 1, x))
        BY AppFields DEF Ordinary
      <4>2. 1 \in Nat \ {0} /\ \A i \in 1..Len(c2s) : Ordinary(c2s[i])
        BY <3>1 DEF Running
      <4>3. c2s' = Append(c2s, App(Len(log) + 1, x))
        BY <1>4, <2>2
      <4> QED BY <4>1, <4>2, <4>3, <1>3, <1>t, OrdinaryAppend
    <3>5. Running'
      BY <3>1, <3>3, <3>4, <1>0 DEF Running, flags, server
    <3> QED
      BY <3>5, <1>0, <2>2 DEF Inductive, Phases, OneSession, NothingWaits, flags, server
  <2> QED BY <2>1, <2>2
<1> QED BY <1>6, <1>7, <1>8 DEF Inductive, Agreement

LEMMA SendUncountedStep ==
  ASSUME Inductive, Send, SendUncounted(submitted + 1)
  PROVE  Inductive'
<1> DEFINE e == App(0, submitted + 1)
<1>0. /\ ~sm_awaiting /\ ~sm_enabled /\ link' = link /\ link # "off"
      /\ submitted' = submitted + 1 /\ submitted \in Nat
      /\ c2s' = IF link = "up" THEN c2s \o <<e>> ELSE c2s
      /\ UNCHANGED <<s2c, received>> /\ UNCHANGED queues /\ UNCHANGED counters /\ log' = log
      /\ UNCHANGED flags /\ UNCHANGED server /\ UNCHANGED bounds
  BY DEF Send, SendUncounted, Transmit, Inductive, TypeOK
<1>1. c2s \in Seq(Message) /\ e \in Message /\ IsApp(e)
  BY <1>0, ElementTypes, AppFields DEF Inductive, TypeOK, IsApp
<1> HIDE DEF e
<1>2. link = "up" => c2s' = Append(c2s, e)
  BY <1>0, <1>1, AppendIsConcat
<1>3. c2s' \in Seq(Message)
  BY <1>0, <1>1, <1>2, WireAppend
<1>4. TypeOK'
  BY <1>0, <1>3 DEF Inductive, TypeOK, flags, server, bounds, queues, counters
<1>5. Agreement'
  BY <1>0, AgreementKept
     DEF Agreement, Inductive, SameSession, flags, server, queues, counters
<1>6. Phases' /\ OneSession' /\ NothingWaits'
  <2>1. CASE link # "up"
    BY <1>0, <2>1 DEF Inductive, Phases, Silent, OneSession, NothingWaits, flags, server, queues
  <2>2. CASE link = "up"
    <3>1. Plain
      BY <1>0, <2>2 DEF Inductive, Phases, Asking, Answered, Running
    <3>2. Plain'
      BY <3>1, <1>0, <1>1, <1>2, <2>2, WireAppend DEF Plain, flags, server
    <3> QED
      BY <3>2, <1>0, <2>2 DEF Inductive, Phases, OneSession, NothingWaits, flags, server, queues
  <2> QED BY <2>1, <2>2
<1> QED BY <1>4, <1>5, <1>6 DEF Inductive, Agreement

\* sm_ack_timer_cb
LEMMA AckTimerStep ==
  ASSUME Inductive, AckTimer
  PROVE  Inductive'
<1>0. /\ link = "up" /\ sm_enabled /\ c2s' = Append(c2s, Req)
      /\ UNCHANGED <<link, client, s2c, server, submitted, received, bounds>>
  BY DEF AckTimer
<1>1. Running
  BY <1>0, PhaseFacts
<1>2. c2s \in Seq(Message) /\ log \in Seq(Nat) /\ handled \in Seq(Nat) /\ Req \in Message
  BY ElementTypes DEF Inductive, TypeOK
<1>3. c2s' \in Seq(Message) /\ Len(handled) \in Nat
  BY <1>0, <1>2, WireAppend, NumbersFacts
<1>4. Req.type = "r" /\ ~IsApp(Req) /\ Ordinary(Req)
  BY DEF IsApp, Ordinary, Req, Element
<1>5. TypeOK'
  BY <1>0, <1>3 DEF Inductive, TypeOK, client, flags, counters, queues, server, bounds
<1>6. Agreement'
  BY <1>0, AgreementKept
     DEF Agreement, Inductive, SameSession, client, flags, counters, queues, server
<1>7. Running'
  <2>1. Carries(c2s', Len(handled), log)
    BY <1>0, <1>1, <1>2, <1>3, <1>4, CarriesOther DEF Running
  <2>2. 1 \in Nat \ {0} /\ \A i \in 1..Len(c2s) : Ordinary(c2s[i])
    BY <1>1 DEF Running
  <2>3. \A i \in 1..Len(c2s') : Ordinary(c2s'[i])
    BY <1>0, <1>2, <1>4, <2>2, OrdinaryAppend
  <2> QED BY <1>0, <1>1, <2>1, <2>3 DEF Running, client, flags, counters, queues, server
<1>8. Phases' /\ OneSession' /\ NothingWaits'
  BY <1>0, <1>7
     DEF Inductive, Phases, OneSession, NothingWaits, client, flags, counters, queues, server
<1> QED BY <1>5, <1>6, <1>8 DEF Inductive, Agreement

-----------------------------------------------------------------------------
(* connection::sm_handler.                                                 *)

\* What is received in which phase.
LEMMA ReceiveFacts ==
  ASSUME Inductive, NEW type, Receive(type)
  PROVE  /\ link = "up" /\ s2c \in Seq(Message) /\ s2c # <<>> /\ Head(s2c) = s2c[1]
         /\ s2c[1].type = type /\ s2c[1].h \in Nat /\ s2c[1].id \in Nat
         /\ s2c' = Tail(s2c) /\ s2c' \in Seq(Message)
         /\ UNCHANGED server /\ UNCHANGED bounds
         /\ type \in {"enabled", "resumed", "failed"} => Answered
         /\ type \in {"a", "r", "app"} => Running
<1>1. /\ link \in {"up", "closing"} /\ s2c # <<>> /\ Head(s2c).type = type
      /\ s2c' = Tail(s2c) /\ UNCHANGED server /\ UNCHANGED bounds
  BY DEF Receive
<1>2. link = "up" /\ s2c \in Seq(Message)
  BY <1>1, PhaseFacts DEF Inductive, TypeOK
<1>3. Head(s2c) = s2c[1] /\ s2c' \in Seq(Message) /\ 1 \in 1..Len(s2c)
  BY <1>1, <1>2, WireTail
<1>4. s2c[1].h \in Nat /\ s2c[1].id \in Nat
  BY <1>2, <1>3, WireFacts
<1>5. Answered \/ Running
  BY <1>1, <1>2, PhaseFacts
<1>6. Answered => type \in {"enabled", "resumed", "failed"}
  <2>1. Enabled(srv_id).type = "enabled" /\ Resumed(Len(handled)).type = "resumed"
    BY DEF Enabled, Resumed, Element
  <2> QED BY <1>1, <1>3, <2>1 DEF Answered
<1>7. Running => type \in {"a", "r", "app"}
  BY <1>1, <1>3 DEF Running, Ordinary
<1> QED BY <1>1, <1>2, <1>3, <1>4, <1>5, <1>6, <1>7

\* What sm_replay_pending_stanzas and the setup send.
LEMMA ReplayType ==
  ASSUME TypeOK
  PROVE  Setup \in Seq(Nat) /\ Len(Setup) \in Nat /\ Replay \in Seq(Nat)
<1>1. submitted + 1 \in Nat
  BY DEF TypeOK
<1>2. <<submitted + 1>> \in Seq(Nat) /\ <<>> \in Seq(Nat)
  BY <1>1
<1>3. Setup \in Seq(Nat)
  BY <1>2 DEF Setup
<1>4. Stanzas(sm_pending_replay) \in Seq(Nat)
  BY StanzasType DEF TypeOK
<1> QED BY <1>3, <1>4, NumbersFacts, ConcatProperties DEF Replay

LEMMA RecvEnabledStep ==
  ASSUME Inductive, RecvEnabled
  PROVE  Inductive'
<1> DEFINE R == Replay
           q == Counted(0, R)
<1>0. /\ Receive("enabled") /\ link' = link /\ sm_enabled' = TRUE /\ sm_awaiting' = FALSE
      /\ sm_pending_replay' = <<>> /\ sm_post_connect_done' = TRUE
      /\ submitted' = submitted + Len(Setup)
      /\ UNCHANGED <<sm_resume_attempted, received>>
      /\ sm_id' = Head(s2c).id /\ sm_h_outbound' = Len(R) /\ sm_outqueue' = q /\ log' = R
      /\ c2s' = IF link' = "up" THEN c2s \o AppElements(q) ELSE c2s
      /\ sm_h_inbound' = 0 /\ sm_last_ack' = 0
  BY DEF RecvEnabled, NewSession, Negotiated, RunSetup, Transmit
<1>1. /\ R \in Seq(Nat) /\ Len(R) \in Nat /\ Len(Setup) \in Nat
      /\ q \in Queue /\ Outstanding(q, 0, R)
  BY ReplayType, NumbersFacts, CountedType, OutstandingCounted DEF Inductive
<1> HIDE DEF R, q
<1>2. /\ link = "up" /\ s2c \in Seq(Message) /\ s2c # <<>> /\ Head(s2c) = s2c[1]
      /\ s2c[1].type = "enabled" /\ s2c[1].id \in Nat
      /\ s2c' = Tail(s2c) /\ s2c' \in Seq(Message)
      /\ UNCHANGED server /\ UNCHANGED bounds /\ Answered
  BY <1>0, ReceiveFacts
<1>3. srv_on /\ s2c[1] = Enabled(srv_id) /\ sm_id = 0 /\ handled = <<>>
  <2>1. Resumed(Len(handled)).type = "resumed"
    BY DEF Resumed, Element
  <2> QED BY <1>2, <2>1 DEF Answered
<1>4. sm_id' = srv_id
  BY <1>0, <1>2, <1>3 DEF Enabled, Element
<1>5. c2s' = AppElements(q) /\ AppElements(q) \in Seq(Message)
  <2>1. c2s = <<>> /\ AppElements(q) \in Seq(Message)
    BY <1>1, <1>2, AppElementsType DEF Answered
  <2> QED BY <2>1, <1>0, <1>2, ConcatEmptySeq
<1>6. TypeOK'
  <2>1. submitted' \in Nat /\ sm_id' \in Nat
    BY <1>0, <1>1, <1>4 DEF Inductive, TypeOK
  <2> QED
    BY <2>1, <1>0, <1>1, <1>2, <1>5, EmptyQueue DEF Inductive, TypeOK, server, bounds
<1>7. Agreement'
  BY <1>0, <1>1, <1>2, <1>3 DEF Agreement, QueueIsUnacked, HandledInOrder, NothingForgotten, server
<1>8. Running'
  <2>1. Carries(c2s', Len(handled'), log')
    BY <1>0, <1>1, <1>2, <1>3, <1>5, CarriesQueue DEF server
  <2>2. Reports(s2c', sm_last_ack', Len(handled'))
    <3>1. Reports(s2c, 0, 0) /\ handled' = <<>> /\ Len(handled') = 0 /\ 0 \in Nat
      BY <1>2, <1>3 DEF Answered, server
    <3> QED BY <3>1, <1>0, <1>2, ReportsTail
  <2>3. \A i \in 1..Len(c2s') : Ordinary(c2s'[i])
    BY <1>1, <1>5, OrdinaryQueue
  <2>4. \A i \in 1..Len(s2c') : Ordinary(s2c'[i])
    BY <1>2, OrdinaryTail DEF Answered
  <2> QED BY <2>1, <2>2, <2>3, <2>4, <1>0, <1>2, <1>3, <1>4 DEF Running, server
<1>9. Phases' /\ OneSession' /\ NothingWaits'
  BY <1>0, <1>2, <1>4, <1>8 DEF Phases, OneSession, NothingWaits, server
<1> QED BY <1>6, <1>7, <1>9 DEF Inductive, Agreement

LEMMA RecvResumedStep ==
  ASSUME Inductive, RecvResumed
  PROVE  Inductive'
<1> DEFINE R == Replay
           h == Head(s2c).h
           T == TrimThrough(sm_outqueue, h)
           q == T \o Counted(sm_h_outbound, R)
<1>0. /\ Receive("resumed") /\ link' = link /\ sm_enabled' = TRUE /\ sm_awaiting' = FALSE
      /\ sm_pending_replay' = <<>> /\ sm_post_connect_done' = TRUE
      /\ submitted' = submitted + Len(Setup)
      /\ UNCHANGED <<sm_resume_attempted, received>>
      /\ sm_last_ack' = h /\ sm_h_outbound' = sm_h_outbound + Len(R)
      /\ sm_outqueue' = q /\ log' = log \o R
      /\ c2s' = IF link' = "up" THEN c2s \o AppElements(sm_outqueue') ELSE c2s
      /\ sm_id' = sm_id /\ sm_h_inbound' = sm_h_inbound
  BY DEF RecvResumed, Resumption, Negotiated, RunSetup, Transmit
<1>1. /\ R \in Seq(Nat) /\ Len(R) \in Nat /\ Len(Setup) \in Nat
      /\ log \in Seq(Nat) /\ Len(log) \in Nat /\ handled \in Seq(Nat) /\ Len(handled) \in Nat
      /\ sm_outqueue \in Queue /\ sm_last_ack \in Nat
  BY ReplayType, NumbersFacts DEF Inductive, TypeOK
<1>2. /\ link = "up" /\ s2c \in Seq(Message) /\ s2c # <<>> /\ Head(s2c) = s2c[1]
      /\ s2c[1].type = "resumed"
      /\ s2c' = Tail(s2c) /\ s2c' \in Seq(Message)
      /\ UNCHANGED server /\ UNCHANGED bounds /\ Answered
  BY <1>0, ReceiveFacts
<1>3. srv_on /\ s2c[1] = Resumed(Len(handled)) /\ sm_id # 0 /\ sm_id = srv_id
  <2>1. Enabled(srv_id).type = "enabled"
    BY DEF Enabled, Element
  <2> QED BY <1>2, <2>1 DEF Answered
<1>4. h = Len(handled) /\ Counts(s2c[1])
  BY <1>2, <1>3 DEF Resumed, Element, Counts
<1>5. /\ sm_last_ack <= Len(handled) /\ Len(handled) <= Len(log)
      /\ \A k \in 1..Len(handled) : handled[k] = log[k]
      /\ sm_h_outbound = Len(log) /\ Outstanding(sm_outqueue, sm_last_ack, log)
  BY <1>3 DEF Inductive, NothingForgotten, HandledInOrder, SameSession, QueueIsUnacked
<1>6. T \in Queue /\ Outstanding(T, h, log)
  <2>1. h \in Nat /\ h \in sm_last_ack..Len(log)
    BY <1>1, <1>4, <1>5
  <2> HIDE DEF h
  <2> QED BY <2>1, <1>1, <1>5, TrimOutstanding
<1> HIDE DEF R, h, T
<1>7. q \in Queue /\ Outstanding(q, h, log \o R) /\ log \o R \in Seq(Nat)
  <2>1. h \in Nat
    BY <1>1, <1>4
  <2>2. Counted(sm_h_outbound, R) \in Queue
    BY <1>1, <1>5, CountedType
  <2>3. Outstanding(T \o Counted(Len(log), R), h, log \o R)
    BY <1>1, <1>6, <2>1, OutstandingReplay
  <2>4. log \o R \in Seq(Nat)
    BY <1>1, ConcatProperties
  <2> QED BY <1>5, <1>6, <2>2, <2>3, <2>4, QueueConcat
<1>8. /\ Len(log') = Len(log) + Len(R)
      /\ \A k \in 1..Len(log) : log'[k] = log[k]
  <2>1. /\ Len(log \o R) = Len(log) + Len(R)
        /\ \A k \in 1..(Len(log) + Len(R)) :
             (log \o R)[k] = IF k <= Len(log) THEN log[k] ELSE R[k - Len(log)]
    BY <1>1, ConcatProperties
  <2>2. \A k \in 1..Len(log) : k \in 1..(Len(log) + Len(R)) /\ k <= Len(log)
    BY <1>1
  <2> QED BY <2>1, <2>2, <1>0
<1> HIDE DEF q
<1>9. c2s' = AppElements(q) /\ AppElements(q) \in Seq(Message)
  <2>1. c2s = <<>> /\ AppElements(q) \in Seq(Message)
    BY <1>7, <1>2, AppElementsType DEF Answered
  <2> QED BY <2>1, <1>0, <1>2, ConcatEmptySeq
<1>10. TypeOK'
  <2>0. submitted \in Nat
    BY DEF Inductive, TypeOK
  <2>1. submitted' \in Nat /\ sm_last_ack' \in Nat /\ sm_h_outbound' \in Nat
    BY <2>0, <1>0, <1>1, <1>4, <1>5
  <2> QED
    BY <2>1, <1>0, <1>7, <1>2, <1>9, EmptyQueue DEF Inductive, TypeOK, server, bounds
<1>11. Agreement'
  <2>1. QueueIsUnacked'
    BY <1>0, <1>5, <1>7, <1>8 DEF QueueIsUnacked
  <2>2. handled' = handled
    BY <1>2 DEF server
  <2>3. HandledInOrder' /\ NothingForgotten'
    BY <2>2, <1>0, <1>1, <1>4, <1>5, <1>8 DEF HandledInOrder, NothingForgotten
  <2> QED BY <2>1, <2>3 DEF Agreement
<1>12. Running'
  <2>1. Carries(c2s', Len(handled'), log')
    <3>1. h \in Nat /\ handled' = handled
      BY <1>1, <1>2, <1>4 DEF server
    <3> QED BY <3>1, <1>0, <1>4, <1>7, <1>9, CarriesQueue
  <2>2. Reports(s2c', sm_last_ack', Len(handled'))
    <3>1. Reports(s2c, 0, Len(handled)) /\ handled' = handled /\ s2c[1].h = h
      BY <1>2 DEF Answered, server, h
    <3>2. Reports(Tail(s2c), s2c[1].h, Len(handled))
      BY <3>1, <1>1, <1>2, <1>4, ReportsTail
    <3> QED BY <3>1, <3>2, <1>0, <1>2
  <2>3. \A i \in 1..Len(c2s') : Ordinary(c2s'[i])
    BY <1>7, <1>9, OrdinaryQueue
  <2>4. \A i \in 1..Len(s2c') : Ordinary(s2c'[i])
    BY <1>2, OrdinaryTail DEF Answered
  <2> QED BY <2>1, <2>2, <2>3, <2>4, <1>0, <1>2, <1>3 DEF Running, server
<1>13. Phases' /\ OneSession' /\ NothingWaits'
  BY <1>0, <1>2, <1>3, <1>12 DEF Phases, OneSession, NothingWaits, server
<1> QED BY <1>10, <1>11, <1>13 DEF Inductive, Agreement

\* <failed/> is alone in an answer.
LEMMA FailedFacts ==
  ASSUME Inductive, Receive("failed")
  PROVE  /\ link = "up" /\ sm_awaiting /\ ~sm_enabled /\ ~srv_on /\ c2s = <<>>
         /\ s2c' = <<>> /\ s2c[1].h \in Nat /\ Head(s2c) = s2c[1]
         /\ UNCHANGED server /\ UNCHANGED bounds
<1>1. /\ link = "up" /\ s2c \in Seq(Message) /\ s2c # <<>> /\ Head(s2c) = s2c[1]
      /\ s2c[1].type = "failed" /\ s2c[1].h \in Nat
      /\ s2c' = Tail(s2c) /\ s2c' \in Seq(Message)
      /\ UNCHANGED server /\ UNCHANGED bounds /\ Answered
  BY ReceiveFacts
<1>2. ~srv_on /\ Len(s2c) = 1
  <2>1. Resumed(Len(handled)).type = "resumed" /\ Enabled(srv_id).type = "enabled"
    BY DEF Enabled, Resumed, Element
  <2> QED BY <1>1, <2>1 DEF Answered
<1>3. Len(s2c') = 0
  BY <1>1, <1>2, WireTail
<1>4. s2c' = <<>>
  BY <1>1, <1>3, EmptySeq
<1> QED BY <1>1, <1>2, <1>4 DEF Answered

LEMMA RecvResumeFailedStep ==
  ASSUME Inductive, RecvResumeFailed
  PROVE  Inductive'
<1> DEFINE h == Head(s2c).h
           u == IF h <= sm_h_outbound THEN TrimThrough(sm_outqueue, h) ELSE sm_outqueue
<1>0. /\ Receive("failed") /\ link' = link
      /\ sm_resume_attempted' = FALSE /\ sm_enabled' = FALSE /\ sm_id' = 0
      /\ sm_h_inbound' = 0 /\ sm_last_ack' = 0 /\ sm_h_outbound' = 0
      /\ sm_pending_replay' = sm_pending_replay \o u
      /\ sm_outqueue' = <<>> /\ log' = <<>> /\ sm_awaiting' = TRUE
      /\ c2s' = IF link' = "up" THEN c2s \o <<Enable>> ELSE c2s
      /\ UNCHANGED <<sm_post_connect_done, submitted, received>>
  BY DEF RecvResumeFailed, ResumeRefused, Transmit
<1>1. /\ link = "up" /\ sm_awaiting /\ ~sm_enabled /\ ~srv_on /\ c2s = <<>>
      /\ s2c' = <<>> /\ h \in Nat /\ UNCHANGED server /\ UNCHANGED bounds
  BY <1>0, FailedFacts
<1>2. /\ sm_outqueue \in Queue /\ sm_pending_replay \in Queue
      /\ sm_last_ack \in Nat /\ log \in Seq(Nat) /\ Outstanding(sm_outqueue, sm_last_ack, log)
  BY DEF Inductive, TypeOK, QueueIsUnacked
<1> HIDE DEF h
<1>3. u \in Queue
  BY <1>1, <1>2, TrimOutstanding
<1> HIDE DEF u
<1>4. sm_pending_replay' \in Queue
  BY <1>0, <1>2, <1>3, QueueConcat
<1>5. c2s' = <<Enable>> /\ Enable \in Message
  <2>1. Enable \in Message
    BY ElementTypes
  <2> QED BY <2>1, <1>0, <1>1, ConcatEmptySeq
<1>6. c2s' \in Seq(Message)
  BY <1>5
<1>7. TypeOK'
  BY <1>0, <1>1, <1>4, <1>6, EmptyQueue DEF Inductive, TypeOK, server, bounds
<1>8. Agreement'
  BY <1>0, <1>1, AgreementEmpty DEF SameSession, server
<1>9. Phases' /\ OneSession' /\ NothingWaits'
  BY <1>0, <1>1, <1>5 DEF Phases, Asking, OneSession, NothingWaits, server
<1> QED BY <1>7, <1>8, <1>9 DEF Inductive, Agreement

LEMMA RecvEnableFailedStep ==
  ASSUME Inductive, RecvEnableFailed
  PROVE  Inductive'
<1> DEFINE es == [i \in 1..Len(Setup) |-> App(0, Setup[i])]
<1>0. /\ Receive("failed") /\ link' = link
      /\ sm_enabled' = FALSE /\ sm_awaiting' = FALSE /\ sm_id' = 0
      /\ sm_h_inbound' = 0 /\ sm_last_ack' = 0 /\ sm_h_outbound' = 0
      /\ sm_outqueue' = <<>> /\ sm_pending_replay' = <<>> /\ log' = <<>>
      /\ UNCHANGED <<sm_resume_attempted, received>>
      /\ sm_post_connect_done' = TRUE /\ submitted' = submitted + Len(Setup)
      /\ c2s' = IF link' = "up" THEN c2s \o es ELSE c2s
  BY DEF RecvEnableFailed, WithoutSM, RunSetup, Transmit
<1>1. /\ link = "up" /\ sm_awaiting /\ ~sm_enabled /\ ~srv_on /\ c2s = <<>>
      /\ s2c' = <<>> /\ UNCHANGED server /\ UNCHANGED bounds
  BY <1>0, FailedFacts
<1>2. Setup \in Seq(Nat) /\ Len(Setup) \in Nat /\ \A i \in 1..Len(Setup) : Setup[i] \in Nat
  BY ReplayType, NumbersFacts DEF Inductive
<1>3. \A i \in 1..Len(Setup) : App(0, Setup[i]) \in Message /\ IsApp(App(0, Setup[i]))
  BY <1>2, ElementTypes, AppFields DEF IsApp
<1>4. es \in Seq(Message) /\ Len(es) = Len(Setup) /\ \A i \in 1..Len(es) : IsApp(es[i])
  <2>1. es \in [1..Len(Setup) -> Message]
    BY <1>3
  <2>2. es \in Seq(Message) /\ Len(es) = Len(Setup)
    BY <2>1, <1>2, FunctionIsSequence
  <2> QED BY <2>2, <1>3
<1> HIDE DEF es
<1>5. c2s' = es
  BY <1>0, <1>1, <1>4, ConcatEmptySeq
<1>6. submitted' \in Nat
  BY <1>0, <1>2 DEF Inductive, TypeOK
<1>7. TypeOK'
  BY <1>0, <1>1, <1>4, <1>5, <1>6, EmptyQueue DEF Inductive, TypeOK, server, bounds
<1>8. Agreement'
  BY <1>0, <1>1, AgreementEmpty DEF SameSession, server
<1>9. Phases' /\ OneSession' /\ NothingWaits'
  BY <1>0, <1>1, <1>4, <1>5 DEF Phases, Plain, OneSession, NothingWaits, server
<1> QED BY <1>7, <1>8, <1>9 DEF Inductive, Agreement

\* What a running stream agrees on.
LEMMA RunningFacts ==
  ASSUME Inductive, Running
  PROVE  /\ c2s \in Seq(Message) /\ s2c \in Seq(Message)
         /\ log \in Seq(Nat) /\ handled \in Seq(Nat) /\ sm_outqueue \in Queue
         /\ Len(log) \in Nat /\ Len(handled) \in Nat /\ sm_last_ack \in Nat
         /\ sm_h_outbound = Len(log) /\ Outstanding(sm_outqueue, sm_last_ack, log)
         /\ sm_last_ack <= Len(handled)
         /\ link = "up" => /\ Len(handled) <= Len(log)
                           /\ \A k \in 1..Len(handled) : handled[k] = log[k]
<1>1. log \in Seq(Nat) /\ handled \in Seq(Nat) /\ sm_last_ack \in Nat
  BY DEF Inductive, TypeOK
<1>2. Len(log) \in Nat /\ Len(handled) \in Nat
  BY <1>1, NumbersFacts
<1>3. SameSession => /\ sm_last_ack <= Len(handled) /\ Len(handled) <= Len(log)
                     /\ \A k \in 1..Len(handled) : handled[k] = log[k]
  BY DEF Inductive, HandledInOrder, NothingForgotten
<1>4. link = "up" => SameSession
  BY DEF Running, SameSession
<1>5. link = "up"
  BY PhaseFacts DEF Running, Silent
<1> QED BY <1>1, <1>2, <1>3, <1>4, <1>5 DEF Inductive, TypeOK, QueueIsUnacked

\* <a/> of a running stream covers what the server has handled, and no less than the last one.
LEMMA AckFacts ==
  ASSUME Inductive, Receive("a")
  PROVE  /\ Head(s2c).h \in sm_last_ack..Len(handled)
         /\ Head(s2c).h <= sm_h_outbound
         /\ Reports(Tail(s2c), Head(s2c).h, Len(handled))
<1>1. /\ link = "up" /\ s2c \in Seq(Message) /\ s2c # <<>> /\ Head(s2c) = s2c[1]
      /\ s2c[1].type = "a" /\ Running
  BY ReceiveFacts
<1>2. Counts(s2c[1]) /\ Reports(s2c, sm_last_ack, Len(handled))
  BY <1>1 DEF Counts, Running
<1>3. sm_last_ack \in Nat /\ Len(handled) \in Nat /\ Len(log) \in Nat
      /\ Len(handled) <= Len(log) /\ sm_h_outbound = Len(log)
  BY <1>1, RunningFacts
<1>4. s2c[1].h \in sm_last_ack..Len(handled) /\ Reports(Tail(s2c), s2c[1].h, Len(handled))
  BY <1>1, <1>2, <1>3, ReportsTail
<1> QED BY <1>1, <1>3, <1>4

LEMMA RecvAckStep ==
  ASSUME Inductive, RecvAck
  PROVE  Inductive'
<1> DEFINE h == Head(s2c).h
           q == TrimThrough(sm_outqueue, h)
<1>0. /\ Receive("a") /\ sm_last_ack' = h /\ sm_outqueue' = q
      /\ UNCHANGED <<link, sm_h_inbound, sm_h_outbound, sm_pending_replay, log, c2s,
                     submitted, received>>
      /\ UNCHANGED flags
  BY DEF RecvAck, AckThrough
<1>1. /\ h \in sm_last_ack..Len(handled) /\ Reports(Tail(s2c), h, Len(handled))
  BY <1>0, AckFacts
<1>2. /\ link = "up" /\ s2c \in Seq(Message) /\ s2c # <<>>
      /\ s2c' = Tail(s2c) /\ s2c' \in Seq(Message)
      /\ UNCHANGED server /\ UNCHANGED bounds /\ Running
  BY <1>0, ReceiveFacts
<1>3. /\ log \in Seq(Nat) /\ sm_outqueue \in Queue
      /\ Len(log) \in Nat /\ Len(handled) \in Nat /\ sm_last_ack \in Nat
      /\ sm_h_outbound = Len(log) /\ Outstanding(sm_outqueue, sm_last_ack, log)
      /\ Len(handled) <= Len(log) /\ \A k \in 1..Len(handled) : handled[k] = log[k]
  BY <1>2, RunningFacts
<1> HIDE DEF h
<1>4. h \in Nat /\ h \in sm_last_ack..Len(log) /\ h <= Len(handled)
  BY <1>1, <1>3
<1>5. q \in Queue /\ Outstanding(q, h, log)
  BY <1>3, <1>4, TrimOutstanding
<1> HIDE DEF q
<1>6. handled' = handled
  BY <1>2 DEF server
<1>7. TypeOK'
  BY <1>0, <1>2, <1>4, <1>5 DEF Inductive, TypeOK, flags, server, bounds
<1>8. Agreement'
  BY <1>0, <1>3, <1>4, <1>5, <1>6
     DEF Agreement, QueueIsUnacked, HandledInOrder, NothingForgotten
<1>9. Running'
  <2>1. \A i \in 2..Len(s2c) : Ordinary(s2c[i])
    BY <1>2 DEF Running
  <2>2. \A i \in 1..Len(s2c') : Ordinary(s2c'[i])
    BY <1>2, <2>1, OrdinaryTail
  <2> QED BY <2>2, <1>0, <1>1, <1>2, <1>6 DEF Running, flags, server
<1>10. Phases' /\ OneSession' /\ NothingWaits'
  BY <1>0, <1>2, <1>9 DEF Inductive, Phases, OneSession, NothingWaits, flags, server
<1> QED BY <1>7, <1>8, <1>10 DEF Inductive, Agreement

\* An honest server never makes the client close its stream.
LEMMA RecvAckTooHighStep ==
  ASSUME Inductive, RecvAckTooHigh
  PROVE  FALSE
<1>1. Receive("a") /\ Head(s2c).h > sm_h_outbound
  BY DEF RecvAckTooHigh
<1>2. Head(s2c).h <= sm_h_outbound /\ Head(s2c).h \in sm_last_ack..Len(handled)
  BY <1>1, AckFacts
<1>3. Running
  BY <1>1, ReceiveFacts
<1>4. sm_h_outbound \in Nat /\ sm_last_ack \in Nat /\ Len(handled) \in Nat
  BY <1>3, RunningFacts
<1> QED BY <1>1, <1>2, <1>4

LEMMA RecvReqStep ==
  ASSUME Inductive, RecvReq
  PROVE  Inductive'
<1> DEFINE e == Ack(sm_h_inbound)
<1>0. /\ Receive("r") /\ link' = link
      /\ c2s' = IF link' = "up" THEN c2s \o <<e>> ELSE c2s
      /\ UNCHANGED client /\ UNCHANGED <<submitted, received>>
  BY DEF RecvReq, Transmit
<1>1. /\ link = "up" /\ s2c \in Seq(Message) /\ s2c # <<>>
      /\ s2c[1].type = "r" /\ s2c' = Tail(s2c) /\ s2c' \in Seq(Message)
      /\ UNCHANGED server /\ UNCHANGED bounds /\ Running
  BY <1>0, ReceiveFacts
<1>2. /\ c2s \in Seq(Message) /\ log \in Seq(Nat)
      /\ Len(handled) \in Nat /\ sm_last_ack \in Nat
  BY <1>1, RunningFacts
<1>3. e \in Message /\ e.type = "a"
  BY ElementTypes, ElementFields DEF Inductive, TypeOK
<1>4. ~IsApp(e) /\ Ordinary(e)
  BY <1>3 DEF IsApp, Ordinary
<1> HIDE DEF e
<1>5. c2s' = Append(c2s, e)
  BY <1>0, <1>1, <1>2, <1>3, AppendIsConcat
<1>6. c2s' \in Seq(Message)
  BY <1>2, <1>3, <1>5, WireAppend
<1>7. TypeOK'
  BY <1>0, <1>1, <1>6 DEF Inductive, TypeOK, client, flags, counters, queues, server, bounds
<1>8. Agreement'
  BY <1>0, <1>1, AgreementKept
     DEF Agreement, Inductive, SameSession, client, flags, counters, queues, server
<1>9. Running'
  <2>1. Carries(c2s', Len(handled), log)
    BY <1>1, <1>2, <1>3, <1>4, <1>5, CarriesOther DEF Running
  <2>2. 1 \in Nat \ {0} /\ \A i \in 1..Len(c2s) : Ordinary(c2s[i])
    BY <1>1 DEF Running
  <2>3. \A i \in 1..Len(c2s') : Ordinary(c2s'[i])
    BY <1>2, <1>3, <1>4, <1>5, <2>2, OrdinaryAppend
  <2>4. \A i \in 2..Len(s2c) : Ordinary(s2c[i])
    BY <1>1 DEF Running
  <2>5. \A i \in 1..Len(s2c') : Ordinary(s2c'[i])
    BY <1>1, <2>4, OrdinaryTail
  <2>6. Reports(s2c', sm_last_ack, Len(handled))
    BY <1>1, <1>2, ReportsTail DEF Running
  <2> QED
    BY <1>0, <1>1, <2>1, <2>3, <2>5, <2>6
       DEF Running, client, flags, counters, queues, server
<1>10. Phases' /\ OneSession' /\ NothingWaits'
  BY <1>0, <1>1, <1>9
     DEF Inductive, Phases, OneSession, NothingWaits, client, flags, counters, queues, server
<1> QED BY <1>7, <1>8, <1>10 DEF Inductive, Agreement

LEMMA RecvStanzaStep ==
  ASSUME Inductive, RecvStanza
  PROVE  Inductive'
<1>0. /\ Receive("app")
      /\ sm_h_inbound' = IF sm_enabled THEN sm_h_inbound + 1 ELSE sm_h_inbound
      /\ received' = Append(received, Head(s2c).stanza)
      /\ UNCHANGED <<link, sm_h_outbound, sm_last_ack, log, c2s, submitted>>
      /\ UNCHANGED flags /\ UNCHANGED queues
  BY DEF RecvStanza
<1>1. /\ link = "up" /\ s2c \in Seq(Message) /\ s2c # <<>> /\ Head(s2c) = s2c[1]
      /\ s2c' = Tail(s2c) /\ s2c' \in Seq(Message)
      /\ UNCHANGED server /\ UNCHANGED bounds /\ Running
  BY <1>0, ReceiveFacts
<1>2. Len(handled) \in Nat /\ sm_last_ack \in Nat
  BY <1>1, RunningFacts
<1>3. received' \in Seq(Nat)
  <2>1. s2c[1].stanza \in Nat
    BY <1>1, WireFacts, WireTail
  <2>2. received \in Seq(Nat)
    BY DEF Inductive, TypeOK
  <2> QED BY <2>1, <2>2, <1>0, <1>1, AppendProperties
<1>4. sm_h_inbound' \in Nat
  BY <1>0 DEF Inductive, TypeOK
<1>5. TypeOK'
  BY <1>0, <1>1, <1>3, <1>4 DEF Inductive, TypeOK, flags, queues, server, bounds
<1>6. Agreement'
  BY <1>0, <1>1, AgreementKept
     DEF Agreement, Inductive, SameSession, flags, queues, server
<1>7. Running'
  <2>1. \A i \in 2..Len(s2c) : Ordinary(s2c[i])
    BY <1>1 DEF Running
  <2>2. \A i \in 1..Len(s2c') : Ordinary(s2c'[i])
    BY <1>1, <2>1, OrdinaryTail
  <2>3. Reports(s2c', sm_last_ack, Len(handled))
    BY <1>1, <1>2, ReportsTail DEF Running
  <2> QED BY <1>0, <1>1, <2>2, <2>3 DEF Running, flags, queues, server
<1>8. Phases' /\ OneSession' /\ NothingWaits'
  BY <1>0, <1>1, <1>7
     DEF Inductive, Phases, OneSession, NothingWaits, flags, queues, server
<1> QED BY <1>5, <1>6, <1>8 DEF Inductive, Agreement

-----------------------------------------------------------------------------
(* Connection events.                                                      *)

LEMMA ClearSessionTypes ==
  ASSUME ClearSession
  PROVE  /\ sm_enabled' \in BOOLEAN /\ sm_id' \in Nat
         /\ sm_h_inbound' \in Nat /\ sm_h_outbound' \in Nat /\ sm_last_ack' \in Nat
         /\ sm_outqueue' \in Queue /\ sm_pending_replay' \in Queue /\ log' \in Seq(Nat)
<1>1. sm_outqueue' = <<>> /\ sm_pending_replay' = <<>> /\ log' = <<>>
  BY DEF ClearSession
<1>2. sm_outqueue' \in Queue /\ sm_pending_replay' \in Queue /\ log' \in Seq(Nat)
  BY <1>1, EmptyQueue
<1> QED BY <1>2 DEF ClearSession

LEMMA ConnectStep ==
  ASSUME Inductive, Connect
  PROVE  Inductive'
<1>0. /\ link = "off" /\ link' = "connecting" /\ connects' = connects + 1
      /\ UNCHANGED client /\ UNCHANGED server
      /\ UNCHANGED <<c2s, s2c, submitted, received, ends>>
  BY DEF Connect
<1>1. TypeOK'
  BY <1>0 DEF Inductive, TypeOK, client, flags, counters, queues, server
<1>2. Agreement'
  BY <1>0, AgreementKept
     DEF Agreement, Inductive, SameSession, client, flags, counters, queues, server
<1>3. Phases' /\ OneSession' /\ NothingWaits'
  BY <1>0
     DEF Inductive, Phases, Silent, OneSession, NothingWaits, client, flags, counters, queues, server
<1> QED BY <1>1, <1>2, <1>3 DEF Inductive, Agreement

LEMMA ConnectEventStep ==
  ASSUME Inductive, NEW advertised \in BOOLEAN, ConnectEvent(advertised)
  PROVE  Inductive'
<1>0. link = "connecting" /\ link' = "up" /\ UNCHANGED server /\ UNCHANGED bounds
      /\ UNCHANGED <<s2c, received>>
  BY DEF ConnectEvent
<1>1. Silent
  BY <1>0 DEF Inductive, Phases
<1>2. CASE advertised
  <2> DEFINE e == IF sm_id # 0 THEN Resume(sm_h_inbound, sm_id) ELSE Enable
  <2>0. /\ sm_awaiting' = TRUE /\ sm_resume_attempted' = (sm_id # 0) /\ sm_enabled' = FALSE
        /\ sm_post_connect_done' = FALSE /\ c2s' = <<e>>
        /\ UNCHANGED <<sm_id, log, submitted>> /\ UNCHANGED counters /\ UNCHANGED queues
    BY <1>2 DEF ConnectEvent
  <2>1. e \in Message
    BY ElementTypes DEF Inductive, TypeOK
  <2>2. c2s' \in Seq(Message)
    BY <2>0, <2>1
  <2>3. TypeOK'
    BY <1>0, <2>0, <2>2 DEF Inductive, TypeOK, counters, queues, server, bounds
  <2>4. Agreement'
    BY <1>0, <2>0, AgreementKept DEF Agreement, Inductive, SameSession, counters, queues, server
  <2>5. Asking'
    BY <1>0, <1>1, <2>0 DEF Silent, Asking, counters, server
  <2>6. Phases' /\ OneSession' /\ NothingWaits'
    BY <1>0, <2>0, <2>5 DEF Inductive, Phases, OneSession, NothingWaits, server
  <2> QED BY <2>3, <2>4, <2>6 DEF Inductive, Agreement
<1>3. CASE ~advertised
  <2>0. /\ ClearSession /\ sm_awaiting' = FALSE /\ sm_resume_attempted' = FALSE
        /\ sm_post_connect_done' = TRUE /\ c2s' = <<App(0, submitted + 1)>>
        /\ submitted' = submitted + 1
    BY <1>3 DEF ConnectEvent
  <2>1. App(0, submitted + 1) \in Message /\ IsApp(App(0, submitted + 1))
    BY ElementTypes, AppFields DEF Inductive, TypeOK, IsApp
  <2>2. /\ c2s' \in Seq(Message) /\ \A i \in 1..Len(c2s') : IsApp(c2s'[i])
    BY <2>0, <2>1
  <2>3. TypeOK'
    <3>1. /\ sm_enabled' \in BOOLEAN /\ sm_id' \in Nat
          /\ sm_h_inbound' \in Nat /\ sm_h_outbound' \in Nat /\ sm_last_ack' \in Nat
          /\ sm_outqueue' \in Queue /\ sm_pending_replay' \in Queue /\ log' \in Seq(Nat)
      BY <2>0, ClearSessionTypes
    <3>2. /\ sm_awaiting' \in BOOLEAN /\ sm_resume_attempted' \in BOOLEAN
          /\ sm_post_connect_done' \in BOOLEAN
      BY <2>0
    <3>3. submitted' \in Nat
      BY <2>0 DEF Inductive, TypeOK
    <3> QED BY <1>0, <2>2, <3>1, <3>2, <3>3 DEF Inductive, TypeOK, server, bounds
  <2>4. Agreement'
    BY <1>0, <1>1, <2>0, AgreementEmpty DEF SameSession, ClearSession
  <2>5. Plain'
    BY <1>0, <1>1, <2>0, <2>2 DEF Silent, Plain, ClearSession, server
  <2>6. Phases' /\ OneSession' /\ NothingWaits'
    BY <1>0, <2>0, <2>5 DEF Inductive, Phases, OneSession, NothingWaits, ClearSession
  <2> QED BY <2>3, <2>4, <2>6 DEF Inductive, Agreement
<1> QED BY <1>2, <1>3

LEMMA LinkLostStep ==
  ASSUME Inductive, LinkLost
  PROVE  Inductive'
<1>0. /\ Cut /\ sm_awaiting' = FALSE /\ sm_resume_attempted' = FALSE
      /\ sm_pending_replay' = <<>>
      /\ UNCHANGED <<sm_enabled, sm_post_connect_done, sm_id, sm_outqueue, log,
                     submitted, received>>
      /\ UNCHANGED counters /\ UNCHANGED bounds
  BY DEF LinkLost
<1>1. TypeOK'
  BY <1>0, EmptyQueue DEF Inductive, TypeOK, Cut, counters, bounds
<1>2. Agreement'
  BY <1>0, AgreementKept DEF Agreement, Inductive, SameSession, Cut, counters
<1>3. Phases' /\ OneSession' /\ NothingWaits'
  BY <1>0 DEF Inductive, Phases, Silent, OneSession, NothingWaits, Cut
<1> QED BY <1>1, <1>2, <1>3 DEF Inductive, Agreement

\* <conflict/> and account::disconnect(0) give the session up.
LEMMA GiveUpStep ==
  ASSUME Inductive, Conflict \/ Quit
  PROVE  Inductive'
<1>0. /\ Cut /\ ClearSession /\ sm_awaiting' = FALSE /\ sm_resume_attempted' = FALSE
      /\ ends' = ends + 1 /\ UNCHANGED <<sm_post_connect_done, submitted, received, connects>>
  BY DEF Conflict, Quit
<1>1. TypeOK'
  <2>1. /\ sm_enabled' \in BOOLEAN /\ sm_id' \in Nat
        /\ sm_h_inbound' \in Nat /\ sm_h_outbound' \in Nat /\ sm_last_ack' \in Nat
        /\ sm_outqueue' \in Queue /\ sm_pending_replay' \in Queue /\ log' \in Seq(Nat)
    BY <1>0, ClearSessionTypes
  <2>2. c2s' \in Seq(Message) /\ s2c' \in Seq(Message)
    BY <1>0, EmptyQueue DEF Cut
  <2>3. sm_awaiting' \in BOOLEAN /\ sm_resume_attempted' \in BOOLEAN
    BY <1>0
  <2>4. UNCHANGED <<sm_post_connect_done, submitted, received, connects>> /\ ends' \in Nat
    BY <1>0 DEF Inductive, TypeOK
  <2>5. link' = "off" /\ srv_on' = FALSE
        /\ UNCHANGED <<srv_id, handled, srv_log, srv_acked, emitted, delivered>>
    BY <1>0 DEF Cut
  <2> QED BY <2>1, <2>2, <2>3, <2>4, <2>5 DEF Inductive, TypeOK
<1>2. Agreement'
  BY <1>0, AgreementEmpty DEF SameSession, Cut, ClearSession
<1>3. Phases' /\ OneSession' /\ NothingWaits'
  BY <1>0 DEF Phases, Silent, OneSession, NothingWaits, Cut, ClearSession
<1> QED BY <1>1, <1>2, <1>3 DEF Inductive, Agreement

-----------------------------------------------------------------------------
(* The server.                                                             *)

\* What is served in which phase.
LEMMA ServeFacts ==
  ASSUME Inductive, NEW type, Serve(type)
  PROVE  /\ link = "up" /\ c2s \in Seq(Message) /\ c2s # <<>> /\ Head(c2s) = c2s[1]
         /\ c2s[1].type = type /\ c2s[1].h \in Nat /\ c2s[1].stanza \in Nat
         /\ c2s' = Tail(c2s) /\ c2s' \in Seq(Message)
         /\ UNCHANGED link /\ UNCHANGED client /\ UNCHANGED <<submitted, received>>
         /\ UNCHANGED bounds
         /\ type \in {"enable", "resume"} => Asking
         /\ type \in {"a", "r"} => Running
         /\ type = "app" => Running \/ Plain
<1>1. /\ link \in {"up", "closing"} /\ c2s # <<>> /\ Head(c2s).type = type
      /\ c2s' = Tail(c2s) /\ UNCHANGED link /\ UNCHANGED client
      /\ UNCHANGED <<submitted, received>> /\ UNCHANGED bounds
  BY DEF Serve
<1>2. link = "up" /\ c2s \in Seq(Message)
  BY <1>1, PhaseFacts DEF Inductive, TypeOK
<1>3. Head(c2s) = c2s[1] /\ c2s' \in Seq(Message) /\ 1 \in 1..Len(c2s)
  BY <1>1, <1>2, WireTail
<1>4. c2s[1].h \in Nat /\ c2s[1].stanza \in Nat
  BY <1>2, <1>3, WireFacts
<1>5. Asking \/ Running \/ Plain
  BY <1>1, <1>2 DEF Inductive, Phases, Answered
<1>6. Asking => type \in {"enable", "resume"}
  <2>1. \A h, i : Resume(h, i).type = "resume" /\ Enable.type = "enable"
    BY DEF Enable, Resume, Element
  <2> QED BY <1>1, <1>3, <2>1 DEF Asking
<1>7. Running => type \in {"a", "r", "app"}
  BY <1>1, <1>3 DEF Running, Ordinary
<1>8. Plain => type = "app"
  BY <1>1, <1>3 DEF Plain, IsApp
<1> QED BY <1>1, <1>2, <1>3, <1>4, <1>5, <1>6, <1>7, <1>8

\* <enable/> and <resume/> are alone in their direction.
LEMMA AskingFacts ==
  ASSUME Inductive, NEW type \in {"enable", "resume"}, Serve(type)
  PROVE  /\ link = "up" /\ sm_awaiting /\ ~sm_enabled /\ ~srv_on
         /\ s2c = <<>> /\ c2s' = <<>>
         /\ type = "enable" => sm_id = 0 
         /\ type = "resume" => sm_id # 0 /\ Head(c2s) = Resume(sm_h_inbound, sm_id)
         /\ UNCHANGED link /\ UNCHANGED client /\ UNCHANGED <<submitted, received>>
         /\ UNCHANGED bounds
<1>1. /\ link = "up" /\ c2s \in Seq(Message) /\ c2s # <<>> /\ Head(c2s) = c2s[1]
      /\ c2s[1].type = type /\ c2s' = Tail(c2s) /\ Asking
      /\ UNCHANGED link /\ UNCHANGED client /\ UNCHANGED <<submitted, received>>
      /\ UNCHANGED bounds
  BY ServeFacts
<1>2. \A h, i : Resume(h, i).type = "resume" /\ Enable.type = "enable"
  BY DEF Enable, Resume, Element
<1>3. c2s' = <<>>
  <2>1. \E e : c2s = <<e>>
    BY <1>1 DEF Asking
  <2> QED BY <2>1, <1>1
<1> QED BY <1>1, <1>2, <1>3 DEF Asking

\* Steps that end what the two sides share.
LEMMA AgreementApart ==
  ASSUME Agreement, UNCHANGED <<log, sm_outqueue, sm_last_ack, sm_h_outbound>>, ~SameSession'
  PROVE  Agreement'
<1>1. QueueIsUnacked'
  BY DEF Agreement, QueueIsUnacked
<1>2. HandledInOrder' /\ NothingForgotten'
  BY DEF HandledInOrder, NothingForgotten
<1> QED BY <1>1, <1>2 DEF Agreement

LEMMA ServeEnableStep ==
  ASSUME Inductive, NEW reply \in Replies, ServeEnable(reply)
  PROVE  Inductive'
<1> DEFINE e == IF reply = "failed" THEN Failed(0) ELSE Enabled(srv_id')
<1>0. /\ Serve("enable") /\ srv_on' = (reply # "failed")
      /\ srv_id' = IF reply = "resumable" THEN connects ELSE 0
      /\ s2c' = Append(s2c, e)
      /\ handled' = <<>> /\ srv_log' = <<>> /\ srv_acked' = 0
      /\ UNCHANGED <<emitted, delivered>>
  BY DEF ServeEnable
<1>1. /\ link = "up" /\ sm_awaiting /\ ~sm_enabled /\ ~srv_on /\ sm_id = 0
      /\ s2c = <<>> /\ c2s' = <<>>
      /\ UNCHANGED link /\ UNCHANGED client /\ UNCHANGED <<submitted, received>>
      /\ UNCHANGED bounds
  BY <1>0, AskingFacts
<1>2. srv_id' \in Nat
  BY <1>0 DEF Inductive, TypeOK
<1>3. e \in Message /\ ~Counts(e)
  <2>1. Failed(0) \in Message /\ Enabled(srv_id') \in Message
    BY <1>2, ElementTypes
  <2>2. Failed(0).type = "failed" /\ Enabled(srv_id').type = "enabled"
    BY DEF Failed, Enabled, Element
  <2> QED BY <2>1, <2>2 DEF Counts
<1>4. reply = "failed" => e = Failed(0) /\ e.type = "failed"
  BY DEF Failed, Element
<1>5. reply # "failed" => e = Enabled(srv_id')
  OBVIOUS
<1> HIDE DEF e
<1>6. /\ s2c' = <<e>> /\ s2c' \in Seq(Message) /\ s2c' # <<>>
      /\ Len(s2c') = 1 /\ s2c'[1] = e
      /\ \A i \in 2..Len(s2c') : Ordinary(s2c'[i])
      /\ Reports(s2c', 0, 0)
  BY <1>0, <1>1, <1>3, ShortAnswer
<1>7. TypeOK'
  <2>1. handled' \in Seq(Nat) /\ srv_log' \in Seq(Nat) /\ c2s' \in Seq(Message)
    BY <1>0, <1>1, EmptyQueue
  <2>2. srv_on' \in BOOLEAN /\ srv_acked' \in Nat
    BY <1>0
  <2> QED
    BY <1>0, <1>1, <1>2, <1>6, <2>1, <2>2
       DEF Inductive, TypeOK, client, flags, counters, queues, bounds
<1>8. Agreement'
  BY <1>1, AgreementApart
     DEF Agreement, Inductive, SameSession, client, flags, counters, queues
<1>9. Answered'
  <2>1. Len(handled') = 0
    BY <1>0
  <2> QED
    BY <1>0, <1>1, <1>4, <1>5, <1>6, <2>1 DEF Answered, client, flags, counters, queues
<1>10. Phases' /\ OneSession' /\ NothingWaits'
  BY <1>1, <1>9
     DEF Inductive, Phases, OneSession, NothingWaits, client, flags, counters, queues
<1> QED BY <1>7, <1>8, <1>10 DEF Inductive, Agreement

LEMMA ServeResumeStep ==
  ASSUME Inductive, ServeResume
  PROVE  Inductive'
<1> DEFINE e  == Resumed(Len(handled))
           q  == Counted(Head(c2s).h, SubSeq(srv_log, Head(c2s).h + 1, Len(srv_log)))
<1>0. /\ Serve("resume") /\ Head(c2s).id = srv_id /\ srv_on' = TRUE
      /\ srv_acked' = Head(c2s).h
      /\ s2c' = s2c \o <<e>> \o AppElements(q)
      /\ UNCHANGED <<srv_id, handled, srv_log, emitted, delivered>>
  BY DEF ServeResume, InboundApps
<1>1. /\ link = "up" /\ sm_awaiting /\ ~sm_enabled /\ ~srv_on /\ sm_id # 0
      /\ Head(c2s) = Resume(sm_h_inbound, sm_id)
      /\ s2c = <<>> /\ c2s' = <<>>
      /\ UNCHANGED link /\ UNCHANGED client /\ UNCHANGED <<submitted, received>>
      /\ UNCHANGED bounds
  BY <1>0, AskingFacts
<1>2. Head(c2s).id = sm_id /\ Head(c2s).h = sm_h_inbound
  BY <1>1 DEF Resume, Element
<1>3. sm_h_inbound \in Nat /\ srv_log \in Seq(Nat) /\ handled \in Seq(Nat) /\ Len(handled) \in Nat
  BY NumbersFacts DEF Inductive, TypeOK
<1>4. q \in Queue
  BY <1>2, <1>3, SuffixType, CountedType
<1>5. e \in Message /\ e.h \in 0..Len(handled) /\ e = Resumed(Len(handled))
  <2>1. e \in Message /\ e.h = Len(handled)
    BY <1>3, ElementTypes DEF Resumed, Element
  <2> QED BY <2>1, <1>3
<1> HIDE DEF e, q
<1>6. s2c' = <<e>> \o AppElements(q)
  <2>1. <<e>> \in Seq(Message)
    BY <1>5
  <2>2. s2c \o <<e>> = <<e>>
    BY <1>1, <2>1, ConcatEmptySeq
  <2> QED BY <1>0, <2>2
<1>7. /\ s2c' \in Seq(Message) /\ s2c' # <<>> /\ s2c'[1] = e
      /\ \A i \in 2..Len(s2c') : Ordinary(s2c'[i])
      /\ Reports(s2c', 0, Len(handled))
  BY <1>3, <1>4, <1>5, <1>6, LongAnswer
<1>8. TypeOK'
  <2>1. c2s' \in Seq(Message) /\ srv_acked' \in Nat /\ srv_on' \in BOOLEAN
    BY <1>0, <1>1, <1>2, <1>3, EmptyQueue
  <2> QED
    BY <1>0, <1>1, <1>7, <2>1 DEF Inductive, TypeOK, client, flags, counters, queues, bounds
<1>9. Agreement'
  BY <1>0, <1>1, <1>2, AgreementKept
     DEF Agreement, Inductive, SameSession, client, flags, counters, queues
<1>10. Answered'
  BY <1>0, <1>1, <1>2, <1>5, <1>7 DEF Answered, client, flags, counters, queues
<1>11. Phases' /\ OneSession' /\ NothingWaits'
  BY <1>0, <1>1, <1>10
     DEF Inductive, Phases, OneSession, NothingWaits, client, flags, counters, queues
<1> QED BY <1>8, <1>9, <1>11 DEF Inductive, Agreement

LEMMA RefuseResumeStep ==
  ASSUME Inductive, NEW h \in Nat, RefuseResume(h)
  PROVE  Inductive'
<1> DEFINE e == Failed(h)
<1>0. Serve("resume") /\ s2c' = Append(s2c, e) /\ UNCHANGED server
  BY DEF RefuseResume
<1>1. /\ link = "up" /\ sm_awaiting /\ ~sm_enabled /\ ~srv_on
      /\ s2c = <<>> /\ c2s' = <<>>
      /\ UNCHANGED link /\ UNCHANGED client /\ UNCHANGED <<submitted, received>>
      /\ UNCHANGED bounds
  BY <1>0, AskingFacts
<1>2. e \in Message /\ e.type = "failed"
  BY ElementTypes, ElementFields
<1>3. ~Counts(e)
  BY <1>2 DEF Counts
<1>4. Len(handled) \in Nat
  BY NumbersFacts DEF Inductive, TypeOK
<1> HIDE DEF e
<1>5. /\ s2c' = <<e>> /\ s2c' \in Seq(Message) /\ s2c' # <<>>
      /\ Len(s2c') = 1 /\ s2c'[1] = e
      /\ \A i \in 2..Len(s2c') : Ordinary(s2c'[i])
      /\ Reports(s2c', 0, Len(handled))
  BY <1>0, <1>1, <1>2, <1>3, <1>4, ShortAnswer
<1>6. TypeOK'
  <2>1. c2s' \in Seq(Message)
    BY <1>1, EmptyQueue
  <2> QED
    BY <1>0, <1>1, <1>5, <2>1
       DEF Inductive, TypeOK, client, flags, counters, queues, server, bounds
<1>7. Agreement'
  BY <1>0, <1>1, AgreementKept
     DEF Agreement, Inductive, SameSession, client, flags, counters, queues, server
<1>8. Answered'
  BY <1>0, <1>1, <1>2, <1>5 DEF Answered, client, flags, counters, queues, server
<1>9. Phases' /\ OneSession' /\ NothingWaits'
  BY <1>0, <1>1, <1>8
     DEF Inductive, Phases, OneSession, NothingWaits, client, flags, counters, queues, server
<1> QED BY <1>6, <1>7, <1>9 DEF Inductive, Agreement

LEMMA ServeAppStep ==
  ASSUME Inductive, ServeApp
  PROVE  Inductive'
<1> DEFINE x == Head(c2s).stanza
<1>0. /\ Serve("app") /\ handled' = IF srv_on THEN Append(handled, x) ELSE handled
      /\ delivered' = Append(delivered, x)
      /\ UNCHANGED <<s2c, srv_on, srv_id, srv_log, srv_acked, emitted>>
  BY DEF ServeApp
<1>1. /\ link = "up" /\ c2s \in Seq(Message) /\ c2s # <<>> /\ Head(c2s) = c2s[1]
      /\ c2s[1].type = "app" /\ c2s' = Tail(c2s) /\ c2s' \in Seq(Message)
      /\ UNCHANGED link /\ UNCHANGED client /\ UNCHANGED <<submitted, received>>
      /\ UNCHANGED bounds /\ x \in Nat
      /\ Running \/ Plain
  BY <1>0, ServeFacts
<1>2. IsApp(c2s[1]) /\ x = c2s[1].stanza
  BY <1>1 DEF IsApp
<1>3. handled \in Seq(Nat) /\ delivered \in Seq(Nat) /\ log \in Seq(Nat)
  BY DEF Inductive, TypeOK
<1> HIDE DEF x
<1>4. /\ Append(handled, x) \in Seq(Nat) /\ Len(Append(handled, x)) = Len(handled) + 1
      /\ Append(handled, x)[Len(handled) + 1] = x
      /\ \A k \in 1..Len(handled) : Append(handled, x)[k] = handled[k]
  BY <1>1, <1>3, AppendProperties
<1>5. delivered' \in Seq(Nat) /\ handled' \in Seq(Nat)
  <2>1. Append(delivered, x) \in Seq(Nat)
    BY <1>1, <1>3, AppendProperties
  <2> QED BY <2>1, <1>0, <1>3, <1>4
<1>6. TypeOK'
  BY <1>0, <1>1, <1>5 DEF Inductive, TypeOK, client, flags, counters, queues, bounds
<1>7. CASE Running
  <2>1. /\ Len(handled) \in Nat /\ Len(log) \in Nat /\ sm_last_ack \in Nat
        /\ sm_last_ack <= Len(handled) /\ \A k \in 1..Len(handled) : handled[k] = log[k]
        /\ srv_on /\ Carries(c2s, Len(handled), log)
        /\ Reports(s2c, sm_last_ack, Len(handled))
    BY <1>1, <1>7, RunningFacts DEF Running
  <2>2. Len(handled) + 1 <= Len(log) /\ x = log[Len(handled) + 1]
    BY <1>1, <1>2, <1>3, <2>1, CarriesFirst
  <2>3. handled' = Append(handled, x) /\ Len(handled') = Len(handled) + 1
    BY <1>0, <1>4, <2>1
  <2>4. Agreement'
    <3>1. UNCHANGED <<log, sm_outqueue, sm_last_ack, sm_h_outbound>>
      BY <1>1 DEF client, counters, queues
    <3>2. QueueIsUnacked'
      BY <3>1 DEF Inductive, QueueIsUnacked
    <3>3. ASSUME NEW k \in 1..(Len(handled) + 1) PROVE Append(handled, x)[k] = log[k]
      BY <3>3, <1>4, <2>1, <2>2
    <3>4. HandledInOrder'
      BY <2>2, <2>3, <3>1, <3>3 DEF HandledInOrder
    <3>5. NothingForgotten'
      BY <2>1, <2>3, <3>1 DEF NothingForgotten
    <3> QED BY <3>2, <3>4, <3>5 DEF Agreement
  <2>5. Carries(c2s', Len(handled'), log)
    BY <1>1, <1>2, <1>3, <2>1, <2>3, CarriesTailApp
  <2>6. Reports(s2c, sm_last_ack, Len(handled'))
    BY <2>1, <2>3, ReportsGrow
  <2>7. \A i \in 1..Len(c2s') : Ordinary(c2s'[i])
    <3>1. \A i \in 2..Len(c2s) : Ordinary(c2s[i])
      BY <1>7 DEF Running
    <3> QED BY <3>1, <1>1, OrdinaryTail
  <2>8. Running'
    BY <1>0, <1>1, <1>7, <2>5, <2>6, <2>7 DEF Running, client, flags, counters, queues
  <2>9. Phases' /\ OneSession' /\ NothingWaits'
    BY <1>0, <1>1, <2>8
       DEF Inductive, Phases, OneSession, NothingWaits, client, flags, counters, queues
  <2> QED BY <1>6, <2>4, <2>9 DEF Inductive, Agreement
<1>8. CASE Plain
  <2>1. handled' = handled
    BY <1>0, <1>8 DEF Plain
  <2>2. Agreement'
    BY <1>0, <1>1, <2>1, AgreementKept
       DEF Agreement, Inductive, SameSession, client, flags, counters, queues
  <2>3. \A i \in 1..Len(c2s') : IsApp(c2s'[i])
    <3>1. \A i \in 1..Len(c2s) : IsApp(c2s[i])
      BY <1>8 DEF Plain
    <3>2. Len(c2s) \in Nat /\ Len(c2s') = Len(c2s) - 1
      BY <1>1, WireTail, WireFacts
    <3>3. \A i \in 1..Len(c2s') : c2s'[i] = c2s[i + 1] /\ i + 1 \in 1..Len(c2s)
      BY <1>1, <3>2, WireTail
    <3> QED BY <3>1, <3>3
  <2>4. Plain'
    BY <1>0, <1>1, <1>8, <2>3 DEF Plain, client, flags, counters, queues
  <2>5. Phases' /\ OneSession' /\ NothingWaits'
    BY <1>0, <1>1, <2>4
       DEF Inductive, Phases, OneSession, NothingWaits, client, flags, counters, queues
  <2> QED BY <1>6, <2>2, <2>5 DEF Inductive, Agreement
<1> QED BY <1>1, <1>7, <1>8

LEMMA ServeAckStep ==
  ASSUME Inductive, ServeAck
  PROVE  Inductive'
<1>0. /\ Serve("a") /\ srv_acked' = IF srv_on THEN Head(c2s).h ELSE srv_acked
      /\ UNCHANGED <<s2c, srv_on, srv_id, handled, srv_log, emitted, delivered>>
  BY DEF ServeAck
<1>1. /\ link = "up" /\ c2s \in Seq(Message) /\ c2s # <<>> /\ Head(c2s) = c2s[1]
      /\ c2s[1].type = "a" /\ c2s[1].h \in Nat /\ c2s' = Tail(c2s) /\ c2s' \in Seq(Message)
      /\ UNCHANGED link /\ UNCHANGED client /\ UNCHANGED <<submitted, received>>
      /\ UNCHANGED bounds /\ Running
  BY <1>0, ServeFacts
<1>2. ~IsApp(c2s[1])
  BY <1>1 DEF IsApp
<1>3. log \in Seq(Nat) /\ Len(handled) \in Nat
  BY <1>1, RunningFacts
<1>4. TypeOK'
  BY <1>0, <1>1 DEF Inductive, TypeOK, client, flags, counters, queues, bounds
<1>5. Agreement'
  BY <1>0, <1>1, AgreementKept
     DEF Agreement, Inductive, SameSession, client, flags, counters, queues
<1>6. Running'
  <2>1. Carries(c2s', Len(handled), log)
    BY <1>1, <1>2, <1>3, CarriesTailOther DEF Running
  <2>2. \A i \in 2..Len(c2s) : Ordinary(c2s[i])
    BY <1>1 DEF Running
  <2>3. \A i \in 1..Len(c2s') : Ordinary(c2s'[i])
    BY <2>2, <1>1, OrdinaryTail
  <2> QED BY <1>0, <1>1, <2>1, <2>3 DEF Running, client, flags, counters, queues
<1>7. Phases' /\ OneSession' /\ NothingWaits'
  BY <1>0, <1>1, <1>6
     DEF Inductive, Phases, OneSession, NothingWaits, client, flags, counters, queues
<1> QED BY <1>4, <1>5, <1>7 DEF Inductive, Agreement

LEMMA ServeReqStep ==
  ASSUME Inductive, ServeReq
  PROVE  Inductive'
<1> DEFINE e == Ack(Len(handled))
<1>0. /\ Serve("r") /\ s2c' = IF srv_on THEN Append(s2c, e) ELSE s2c
      /\ UNCHANGED server
  BY DEF ServeReq
<1>1. /\ link = "up" /\ c2s \in Seq(Message) /\ c2s # <<>> /\ Head(c2s) = c2s[1]
      /\ c2s[1].type = "r" /\ c2s' = Tail(c2s) /\ c2s' \in Seq(Message)
      /\ UNCHANGED link /\ UNCHANGED client /\ UNCHANGED <<submitted, received>>
      /\ UNCHANGED bounds /\ Running
  BY <1>0, ServeFacts
<1>2. ~IsApp(c2s[1])
  BY <1>1 DEF IsApp
<1>3. /\ log \in Seq(Nat) /\ Len(handled) \in Nat /\ sm_last_ack \in Nat
      /\ sm_last_ack <= Len(handled) /\ s2c \in Seq(Message)
  BY <1>1, RunningFacts
<1>4. e \in Message /\ e.h = Len(handled) /\ Ordinary(e)
  BY <1>3, ElementTypes DEF Ordinary, Ack, Element
<1> HIDE DEF e
<1>5. s2c' = Append(s2c, e)
  BY <1>0, <1>1 DEF Running
<1>6. s2c' \in Seq(Message)
  BY <1>3, <1>4, <1>5, WireAppend
<1>7. TypeOK'
  BY <1>0, <1>1, <1>6 DEF Inductive, TypeOK, client, flags, counters, queues, server, bounds
<1>8. Agreement'
  BY <1>0, <1>1, AgreementKept
     DEF Agreement, Inductive, SameSession, client, flags, counters, queues, server
<1>9. Running'
  <2>1. Carries(c2s', Len(handled), log)
    BY <1>1, <1>2, <1>3, CarriesTailOther DEF Running
  <2>2. \A i \in 2..Len(c2s) : Ordinary(c2s[i])
    BY <1>1 DEF Running
  <2>3. \A i \in 1..Len(c2s') : Ordinary(c2s'[i])
    BY <2>2, <1>1, OrdinaryTail
  <2>4. 1 \in Nat \ {0} /\ \A i \in 1..Len(s2c) : Ordinary(s2c[i])
    BY <1>1 DEF Running
  <2>5. \A i \in 1..Len(s2c') : Ordinary(s2c'[i])
    BY <1>3, <1>4, <1>5, <2>4, OrdinaryAppend
  <2>6. Reports(s2c', sm_last_ack, Len(handled))
    BY <1>1, <1>3, <1>4, <1>5, ReportsAppend DEF Running
  <2> QED
    BY <1>0, <1>1, <2>1, <2>3, <2>5, <2>6
       DEF Running, client, flags, counters, queues, server
<1>10. Phases' /\ OneSession' /\ NothingWaits'
  BY <1>0, <1>1, <1>9
     DEF Inductive, Phases, OneSession, NothingWaits, client, flags, counters, queues, server
<1> QED BY <1>7, <1>8, <1>10 DEF Inductive, Agreement

\* The server may send what is ordinary behind its answer and on a running stream.
LEMMA PushKept ==
  ASSUME Inductive, srv_on, NEW e \in Message, Ordinary(e), Counts(e) => e.h = Len(handled),
         s2c' = Append(s2c, e), UNCHANGED <<link, c2s, srv_on, srv_id, handled>>,
         UNCHANGED client
  PROVE  s2c' \in Seq(Message) /\ Phases' /\ OneSession' /\ NothingWaits'
<1>1. link = "up" /\ (Answered \/ Running)
  BY PhaseFacts DEF Inductive, Phases, Silent
<1>2. s2c \in Seq(Message) /\ Len(handled) \in Nat
  BY NumbersFacts DEF Inductive, TypeOK
<1>3. s2c' \in Seq(Message) /\ s2c' # <<>>
  BY <1>2, WireAppend
<1>4. CASE Answered
  <2>1. s2c # <<>> /\ Reports(s2c, 0, Len(handled)) /\ \A i \in 2..Len(s2c) : Ordinary(s2c[i])
    BY <1>4 DEF Answered
  <2>2. s2c'[1] = s2c[1]
    <3>1. 1 \in 1..Len(s2c)
      BY <2>1, <1>2, WireTail
    <3> QED BY <3>1, <1>2, WireAppend
  <2>3. 2 \in Nat \ {0}
    OBVIOUS
  <2>4. \A i \in 2..Len(s2c') : Ordinary(s2c'[i])
    BY <1>2, <2>1, <2>3, OrdinaryAppend
  <2>5. Reports(s2c', 0, Len(handled))
    BY <1>2, <2>1, ReportsAppend
  <2>6. Answered'
    BY <1>3, <1>4, <2>2, <2>4, <2>5 DEF Answered, client, flags, counters, queues
  <2> QED
    BY <1>1, <1>3, <2>6
       DEF Inductive, Phases, OneSession, NothingWaits, client, flags, counters, queues
<1>5. CASE Running
  <2>1. sm_last_ack \in Nat /\ sm_last_ack <= Len(handled)
    BY <1>5, RunningFacts
  <2>2. 1 \in Nat \ {0} /\ \A i \in 1..Len(s2c) : Ordinary(s2c[i])
    BY <1>5 DEF Running
  <2>3. \A i \in 1..Len(s2c') : Ordinary(s2c'[i])
    BY <1>2, <2>2, OrdinaryAppend
  <2>4. Reports(s2c', sm_last_ack, Len(handled))
    BY <1>2, <1>5, <2>1, ReportsAppend DEF Running
  <2>5. Running'
    BY <1>5, <2>3, <2>4 DEF Running, client, flags, counters, queues
  <2> QED
    BY <1>1, <1>3, <2>5
       DEF Inductive, Phases, OneSession, NothingWaits, client, flags, counters, queues
<1> QED BY <1>1, <1>4, <1>5

LEMMA VolunteerStep ==
  ASSUME Inductive, Volunteer(Ack(Len(handled))) \/ Volunteer(Req)
  PROVE  Inductive'
<1>1. PICK e \in {Ack(Len(handled)), Req} : Volunteer(e)
  OBVIOUS
<1>2. Len(handled) \in Nat
  BY NumbersFacts DEF Inductive, TypeOK
<1>3. e \in Message /\ Ordinary(e) /\ (Counts(e) => e.h = Len(handled))
  <2>1. Ack(Len(handled)) \in Message /\ Req \in Message
    BY <1>2, ElementTypes
  <2> QED BY <1>1, <2>1 DEF Ordinary, Counts, Ack, Req, Element
<1>4. /\ srv_on /\ s2c' = Append(s2c, e) /\ UNCHANGED <<link, c2s, submitted, received>>
      /\ UNCHANGED client /\ UNCHANGED server /\ UNCHANGED bounds
  BY <1>1 DEF Volunteer
<1> HIDE <1>1
<1>5. s2c' \in Seq(Message) /\ Phases' /\ OneSession' /\ NothingWaits'
  <2>1. UNCHANGED <<link, c2s, srv_on, srv_id, handled>>
    BY <1>4 DEF server
  <2> QED BY <2>1, <1>3, <1>4, PushKept
<1>6. TypeOK'
  BY <1>4, <1>5 DEF Inductive, TypeOK, client, flags, counters, queues, server, bounds
<1>7. Agreement'
  BY <1>4, AgreementKept
     DEF Agreement, Inductive, SameSession, client, flags, counters, queues, server
<1> QED BY <1>5, <1>6, <1>7 DEF Inductive, Agreement

LEMMA EmitStep ==
  ASSUME Inductive, Emit
  PROVE  Inductive'
<1> DEFINE x == emitted + 1
           e == App(Len(srv_log'), x)
<1>0. /\ emitted' = x /\ srv_log' = Append(srv_log, x)
      /\ s2c' = IF srv_on THEN Append(s2c, e) ELSE s2c
      /\ UNCHANGED <<link, c2s, srv_on, srv_id, handled, srv_acked, delivered,
                     submitted, received>>
      /\ UNCHANGED client /\ UNCHANGED bounds
  BY DEF Emit
<1>1. x \in Nat /\ srv_log \in Seq(Nat)
  BY DEF Inductive, TypeOK
<1>3. srv_log' \in Seq(Nat) /\ Len(srv_log') \in Nat
  BY <1>0, <1>1, AppendProperties, NumbersFacts
<1>2. e \in Message /\ Ordinary(e) /\ ~Counts(e)
  BY <1>1, <1>3, ElementTypes, AppFields DEF Ordinary, Counts
<1> HIDE DEF x, e
<1>4. s2c' \in Seq(Message) /\ Phases' /\ OneSession' /\ NothingWaits'
  <2>1. CASE srv_on
    BY <1>0, <1>2, <2>1, PushKept
  <2>2. CASE ~srv_on
    BY <1>0, <2>2
       DEF Inductive, TypeOK, Phases, OneSession, NothingWaits, Silent, Asking, Answered, Running,
           Plain, client, flags, counters, queues
  <2> QED BY <2>1, <2>2
<1>5. TypeOK'
  BY <1>0, <1>1, <1>3, <1>4 DEF Inductive, TypeOK, client, flags, counters, queues, bounds
<1>6. Agreement'
  BY <1>0, AgreementKept
     DEF Agreement, Inductive, SameSession, client, flags, counters, queues
<1> QED BY <1>4, <1>5, <1>6 DEF Inductive, Agreement

LEMMA ExpireStep ==
  ASSUME Inductive, Expire
  PROVE  Inductive'
<1>0. /\ ~srv_on /\ srv_id' = 0
      /\ UNCHANGED <<link, c2s, s2c, srv_on, handled, srv_log, srv_acked, emitted,
                     delivered, submitted, received>>
      /\ UNCHANGED client /\ UNCHANGED bounds
  BY DEF Expire
<1>1. TypeOK'
  BY <1>0 DEF Inductive, TypeOK, client, flags, counters, queues, bounds
<1>2. Agreement'
  BY <1>0, AgreementApart
     DEF Agreement, Inductive, SameSession, client, flags, counters, queues
<1>3. Phases' /\ OneSession' /\ NothingWaits'
  BY <1>0
     DEF Inductive, Phases, OneSession, NothingWaits, Silent, Asking, Answered, Running,
         Plain, client, flags, counters, queues
<1> QED BY <1>1, <1>2, <1>3 DEF Inductive, Agreement

-----------------------------------------------------------------------------
(* The theorems.                                                           *)

LEMMA InitInductive == Init => Inductive
<1> SUFFICES ASSUME Init PROVE Inductive
  OBVIOUS
<1>1. TypeOK
  BY EmptyQueue DEF Init, TypeOK
<1>2. Phases /\ OneSession /\ NothingWaits
  BY DEF Init, Phases, Silent, OneSession, NothingWaits
<1>3. QueueIsUnacked
  BY DEF Init, QueueIsUnacked, Outstanding
<1>4. HandledInOrder /\ NothingForgotten
  BY DEF Init, HandledInOrder, NothingForgotten, SameSession
<1> QED BY <1>1, <1>2, <1>3, <1>4 DEF Inductive

LEMMA ServeStreamStep ==
  ASSUME Inductive, ServeStream
  PROVE  Inductive'
<1>1. Len(handled) \in Nat
  BY NumbersFacts DEF Inductive, TypeOK
<1> QED
  BY <1>1, ServeEnableStep, ServeResumeStep, RefuseResumeStep, ServeAppStep, ServeAckStep,
     ServeReqStep DEF ServeStream

LEMMA NextInductive ==
  ASSUME Honest, Inductive, [Next]_vars
  PROVE  Inductive'
<1>1. CASE Send
  BY <1>1, DeferStep, SendCountedStep, SendUncountedStep DEF Send
<1>2. CASE AckTimer
  BY <1>2, AckTimerStep
<1>3. CASE ClientReceive
  BY <1>3, RecvEnabledStep, RecvResumedStep, RecvResumeFailedStep, RecvEnableFailedStep,
     RecvAckStep, RecvAckTooHighStep, RecvReqStep, RecvStanzaStep DEF ClientReceive
<1>4. CASE ConnectionEvent
  <2>1. \A advertised \in Advertises : advertised \in BOOLEAN
    BY SMConstants
  <2> QED
    BY <1>4, <2>1, ConnectStep, ConnectEventStep, LinkLostStep, GiveUpStep DEF ConnectionEvent
<1>5. CASE ServerStep
  BY <1>5, ServeStreamStep, VolunteerStep, EmitStep, ExpireStep DEF ServerStep, Honest
<1>6. CASE UNCHANGED vars
  <2>1. /\ UNCHANGED <<link, c2s, s2c, submitted, received>> /\ UNCHANGED client
        /\ UNCHANGED server /\ UNCHANGED bounds
    BY <1>6 DEF vars
  <2>2. TypeOK'
    BY <2>1 DEF Inductive, TypeOK, client, flags, counters, queues, server, bounds
  <2>3. Agreement'
    BY <2>1, AgreementKept
       DEF Agreement, Inductive, SameSession, client, flags, counters, queues, server
  <2>4. Phases' /\ OneSession' /\ NothingWaits'
    BY <2>1
       DEF Inductive, Phases, OneSession, NothingWaits, Silent, Asking, Answered, Running,
           Plain, client, flags, counters, queues, server
  <2> QED BY <2>2, <2>3, <2>4 DEF Inductive, Agreement
<1> QED BY <1>1, <1>2, <1>3, <1>4, <1>5, <1>6 DEF Next

\* Every reachable state is typed, in one of the phases of a connection, with both sides
\* in agreement on the session, as long as the server acknowledges only what it handled.
THEOREM Safety == ASSUME Honest PROVE Spec => []Inductive
<1>1. Init => Inductive
  BY InitInductive
<1>2. Inductive /\ [Next]_vars => Inductive'
  BY NextInductive
<1> QED BY <1>1, <1>2, PTL DEF Spec

THEOREM TypeCorrect == ASSUME Honest PROVE Spec => []TypeOK
<1>1. Inductive => TypeOK
  BY DEF Inductive
<1> QED BY <1>1, Safety, PTL

\* The retransmit queue (sm_outqueue) is exactly what was counted past the last
\* acknowledgement, through losses, resumptions and refusals.
THEOREM QueueTheorem == ASSUME Honest PROVE Spec => []QueueIsUnacked
<1>1. Inductive => QueueIsUnacked
  BY DEF Inductive
<1> QED BY <1>1, Safety, PTL

\* What the server handled in a session is a prefix of what the client counted in it.
THEOREM OrderTheorem == ASSUME Honest PROVE Spec => []HandledInOrder
<1>1. Inductive => HandledInOrder
  BY DEF Inductive
<1> QED BY <1>1, Safety, PTL

\* A stanza leaves the retransmit queue only when the server has handled it.
THEOREM NothingForgottenTheorem == ASSUME Honest PROVE Spec => []NothingForgotten
<1>1. Inductive => NothingForgotten
  BY DEF Inductive
<1> QED BY <1>1, Safety, PTL

\* While negotiation is open no application stanza is on the wire, and nothing waits for a
\* replay that will not come (sm_awaiting_negotiation, sm_pending_replay).
THEOREM DeferTheorem == ASSUME Honest PROVE Spec => []DeferredWhileNegotiating
<1>1. Inductive => DeferredWhileNegotiating
  <2> SUFFICES ASSUME Inductive PROVE DeferredWhileNegotiating
    OBVIOUS
  <2>1. sm_pending_replay # <<>> => sm_awaiting
    BY DEF Inductive, NothingWaits
  <2>2. sm_awaiting => link = "up" /\ ~sm_enabled /\ (Asking \/ Answered)
    BY PhaseFacts
  <2>3. Asking => \A i \in 1..Len(c2s) : c2s[i].type # "app"
    <3>1. \A h, i : Resume(h, i).type = "resume" /\ Enable.type = "enable"
      BY DEF Enable, Resume, Element
    <3>2. Asking => \E e : c2s = <<e>> /\ e.type # "app"
      BY <3>1 DEF Asking
    <3> QED BY <3>2
  <2>4. Answered => \A i \in 1..Len(c2s) : c2s[i].type # "app"
    BY DEF Answered
  <2> QED BY <2>1, <2>2, <2>3, <2>4 DEF DeferredWhileNegotiating
<1> QED BY <1>1, Safety, PTL

-----------------------------------------------------------------------------
(* The refinement of SessionStream.                                        *)

\* A connection that is being made or up has been counted.
Attempted == link # "off" => connects > 0

\* The session of the current stream, whether it can be resumed or not.
Attached == link = "up" /\ sm_enabled /\ srv_on

LEMMA AttemptedKept ==
  ASSUME Inductive, Attempted, [Next]_vars
  PROVE  Attempted'
<1> USE DEF Attempted, Inductive, TypeOK
<1>1. CASE UNCHANGED <<link, connects>>
  BY <1>1
<1>2. CASE link' = "off"
  BY <1>2
<1>3. CASE link # "off" /\ connects' = connects
  BY <1>3
<1>4. CASE Connect
  BY <1>4 DEF Connect
<1>5. CASE \E advertised \in Advertises : ConnectEvent(advertised)
  BY <1>5 DEF ConnectEvent, bounds
<1>6. CASE ClientReceive
  BY <1>6 DEF ClientReceive, RecvEnabled, NewSession, RecvResumed, Resumption, Negotiated,
     RecvResumeFailed, ResumeRefused, RecvEnableFailed, WithoutSM, RecvAck, AckThrough,
     RecvAckTooHigh, RecvReq, RecvStanza, Receive, bounds
<1>7. CASE ServerStep
  BY <1>7 DEF ServerStep, ServeStream, ServeEnable, ServeResume, RefuseResume, ServeApp,
     ServeAck, ServeReq, Serve, Volunteer, Emit, Expire, bounds
<1>8. CASE LinkLost \/ Conflict \/ Quit
  BY <1>8 DEF LinkLost, Conflict, Quit, Cut
<1>9. CASE Send \/ AckTimer
  BY <1>9 DEF Send, AckTimer, bounds
<1>10. CASE UNCHANGED vars
  BY <1>10 DEF vars, bounds
<1> QED
  BY <1>1, <1>4, <1>5, <1>6, <1>7, <1>8, <1>9, <1>10 DEF Next, ConnectionEvent

LEMMA SeenSession ==
  ASSUME Inductive, Attempted
  PROVE  /\ Session \in Nat /\ Sent \in Seq(Nat) /\ Got \in Seq(Nat)
         /\ SameSession => Session # 0
         /\ ~SameSession => Session = 0 /\ Sent = <<>> /\ Got = <<>>
         /\ SameSession => Sent = log /\ Got = handled
         /\ Attached => Running
<1>1. /\ connects \in Nat /\ sm_id \in Nat /\ log \in Seq(Nat) /\ handled \in Seq(Nat)
      /\ <<>> \in Seq(Nat)
  BY EmptyQueue DEF Inductive, TypeOK
<1>2. Sent \in Seq(Nat) /\ Got \in Seq(Nat)
  BY <1>1 DEF Sent, Got
<1>3. SameSession => Session # 0
  BY <1>1 DEF SameSession, Session, Attempted
<1>4. Attached => Running
  BY PhaseFacts DEF Attached
<1> QED BY <1>1, <1>2, <1>3, <1>4 DEF Session, Sent, Got, SameSession

-----------------------------------------------------------------------------
(* The kinds of step.                                                      *)

\* The session is what it was.
LEMMA Same ==
  ASSUME UNCHANGED <<sm_id, srv_id>>, Attached' <=> Attached, Attached => connects' = connects
  PROVE  (SameSession' <=> SameSession) /\ Session' = Session
<1>1. SameSession' <=> SameSession
  BY DEF SameSession, Attached
<1>2. SameSession /\ ~(sm_id # 0 /\ sm_id = srv_id) => connects' = connects
  BY DEF SameSession, Attached
<1> QED BY <1>1, <1>2 DEF Session

LEMMA Stutters ==
  ASSUME UNCHANGED <<sm_id, srv_id, log, handled>>, Attached' <=> Attached,
         Attached => connects' = connects
  PROVE  UNCHANGED Stream!vars
<1>1. (SameSession' <=> SameSession) /\ Session' = Session
  BY Same
<1> QED BY <1>1 DEF Sent, Got, Stream!vars

LEMMA Closes ==
  ASSUME Inductive, Attempted, ~SameSession'
  PROVE  [Stream!Next]_(Stream!vars)
<1>1. Session' = 0 /\ Sent' = <<>> /\ Got' = <<>>
  BY DEF SameSession, Session, Sent, Got
<1>2. CASE SameSession
  BY <1>1, <1>2, SeenSession DEF Stream!Next, Stream!Close
<1>3. CASE ~SameSession
  BY <1>1, <1>3, SeenSession DEF Stream!vars
<1> QED BY <1>2, <1>3

LEMMA PrefixOfConcat ==
  ASSUME NEW s \in Seq(Nat), NEW t \in Seq(Nat)
  PROVE  /\ s \o t \in Seq(Nat) /\ Len(s \o t) = Len(s) + Len(t)
         /\ SubSeq(s \o t, 1, Len(s)) = s
<1> DEFINE u == s \o t
           p == SubSeq(u, 1, Len(s))
<1>1. Len(s) \in Nat /\ Len(t) \in Nat
  BY NumbersFacts
<1>2. /\ u \in Seq(Nat) /\ Len(u) = Len(s) + Len(t)
      /\ \A i \in 1..(Len(s) + Len(t)) : u[i] = IF i <= Len(s) THEN s[i] ELSE t[i - Len(s)]
  BY ConcatProperties
<1> HIDE DEF u
<1>3. \A i \in 1..Len(s) : u[i] = s[i] /\ s[i] \in Nat
  BY <1>1, <1>2, NumbersFacts
<1>4. 1 \in Int /\ Len(s) \in Int /\ \A i \in 1..Len(s) : u[i] \in Nat
  BY <1>1, <1>3
<1>5. /\ p \in Seq(Nat) /\ Len(p) = IF 1 <= Len(s) THEN Len(s) - 1 + 1 ELSE 0
      /\ \A i \in 1..(Len(s) - 1 + 1) : p[i] = u[1 + i - 1]
  BY <1>4, SubSeqProperties
<1> HIDE DEF p
<1>6. Len(p) = Len(s)
  BY <1>1, <1>5
<1>7. \A i \in 1..Len(p) : p[i] = s[i]
  <2>1. \A i \in 1..Len(s) : i \in 1..(Len(s) - 1 + 1) /\ 1 + i - 1 = i
    BY <1>1
  <2> QED BY <2>1, <1>3, <1>5, <1>6
<1>8. p = s
  BY <1>5, <1>6, <1>7, SeqEqual
<1> QED BY <1>2, <1>8 DEF p, u

\* Stanzas counted at the end of the log are submitted.
LEMMA Submits ==
  ASSUME Inductive, Attempted, NEW xs \in Seq(Nat), log' = log \o xs,
         UNCHANGED <<sm_id, srv_id, handled>>, SameSession' <=> SameSession, Session' = Session
  PROVE  [Stream!Next]_(Stream!vars)
<1>1. CASE ~SameSession
  <2>1. ~SameSession'
    BY <1>1
  <2> QED BY <2>1, Closes
<1>2. CASE SameSession /\ xs = <<>>
  <2>1. log' = log
    BY <1>2, ConcatEmptySeq DEF Inductive, TypeOK
  <2> QED BY <2>1 DEF Sent, Got, Stream!vars
<1>3. CASE SameSession /\ xs # <<>>
  <2>1. log \in Seq(Nat) /\ Len(log) \in Nat
    BY NumbersFacts DEF Inductive, TypeOK
  <2>2. Len(xs) \in Nat /\ Len(xs) # 0
    BY <1>3, NumbersFacts, EmptySeq
  <2>3. /\ log' \in Seq(Nat) /\ Len(log') > Len(log) /\ SubSeq(log', 1, Len(log)) = log
    BY <2>1, <2>2, PrefixOfConcat
  <2>4. Sent = log /\ Sent' = log' /\ Got' = Got /\ Session # 0
    BY <1>3, SeenSession DEF Sent, Got
  <2> QED BY <2>3, <2>4 DEF Stream!Next, Stream!Submit
<1> QED BY <1>1, <1>2, <1>3

-----------------------------------------------------------------------------
(* The steps.                                                              *)

LEMMA SendRefines ==
  ASSUME Inductive, Attempted, Send
  PROVE  [Stream!Next]_(Stream!vars)
<1>1. link' = link /\ UNCHANGED flags /\ UNCHANGED server /\ UNCHANGED bounds
      /\ submitted \in Nat
  BY DEF Send, Inductive, TypeOK
<1>2. /\ UNCHANGED <<sm_id, srv_id, handled>> /\ (Attached' <=> Attached)
      /\ connects' = connects
  BY <1>1 DEF flags, server, bounds, Attached
<1>3. CASE Defer(submitted + 1) \/ SendUncounted(submitted + 1)
  BY <1>2, <1>3, Stutters DEF Defer, SendUncounted
<1>4. CASE SendCounted(submitted + 1)
  <2>1. <<submitted + 1>> \in Seq(Nat) /\ log \in Seq(Nat)
    BY <1>1 DEF Inductive, TypeOK
  <2>2. log' = log \o <<submitted + 1>>
    BY <1>1, <1>4, <2>1, AppendIsConcat DEF SendCounted
  <2>3. (SameSession' <=> SameSession) /\ Session' = Session
    BY <1>2, Same
  <2> QED BY <1>2, <2>1, <2>2, <2>3, Submits
<1> QED BY <1>3, <1>4 DEF Send

LEMMA NegotiationRefines ==
  ASSUME Inductive, Attempted, Inductive', Attempted',
         RecvEnabled \/ RecvResumed \/ RecvResumeFailed \/ RecvEnableFailed
  PROVE  [Stream!Next]_(Stream!vars)
<1>1. CASE RecvEnabled
  <2>1. Receive("enabled") /\ sm_enabled' = TRUE /\ link' = link
    BY <1>1 DEF RecvEnabled, NewSession, Negotiated
  <2>2. link = "up" /\ Answered /\ s2c[1].type = "enabled" /\ UNCHANGED server
    BY <2>1, ReceiveFacts
  <2>3. sm_id = 0 /\ ~sm_enabled /\ srv_on /\ handled = <<>>
    <3>1. Resumed(Len(handled)).type = "resumed"
      BY DEF Resumed, Element
    <3> QED BY <2>2, <3>1 DEF Answered
  <2>4. ~SameSession
    BY <2>3 DEF SameSession
  <2>5. SameSession' /\ handled' = <<>>
    BY <2>1, <2>2, <2>3 DEF SameSession, server
  <2>6. Session = 0 /\ Session' \in Nat \ {0} /\ Sent' \in Seq(Nat) /\ Got' = <<>>
    <3>1. Session' \in Nat /\ Sent' \in Seq(Nat) /\ (SameSession' => Session' # 0)
      <4>1. /\ connects' \in Nat /\ sm_id' \in Nat /\ log' \in Seq(Nat)
        BY DEF Inductive, TypeOK
      <4>2. SameSession' => Session' # 0
        BY <4>1 DEF SameSession, Session, Attempted
      <4> QED BY <4>1, <4>2, <2>5 DEF Session, Sent
    <3> QED BY <3>1, <2>4, <2>5, SeenSession DEF Got
  <2> QED BY <2>6 DEF Stream!Next, Stream!Open
<1>2. CASE RecvResumed
  <2>1. /\ Receive("resumed") /\ log' = log \o Replay /\ sm_id' = sm_id
    BY <1>2 DEF RecvResumed, Resumption
  <2>2. link = "up" /\ Answered /\ s2c[1].type = "resumed" /\ UNCHANGED server
    BY <2>1, ReceiveFacts
  <2>3. sm_id # 0 /\ sm_id = srv_id
    <3>1. Enabled(srv_id).type = "enabled"
      BY DEF Enabled, Element
    <3> QED BY <2>2, <3>1 DEF Answered
  <2>4. UNCHANGED <<sm_id, srv_id, handled>>
    BY <2>1, <2>2 DEF server
  <2>5. (SameSession' <=> SameSession) /\ Session' = Session
    BY <2>3, <2>4 DEF SameSession, Session
  <2>6. Replay \in Seq(Nat)
    BY ReplayType DEF Inductive
  <2> QED BY <2>1, <2>4, <2>5, <2>6, Submits
<1>3. CASE RecvResumeFailed \/ RecvEnableFailed
  <2>1. sm_id' = 0 /\ sm_enabled' = FALSE
    BY <1>3 DEF RecvResumeFailed, ResumeRefused, RecvEnableFailed, WithoutSM
  <2>2. ~SameSession'
    BY <2>1 DEF SameSession
  <2> QED BY <2>2, Closes
<1> QED BY <1>1, <1>2, <1>3

LEMMA ReceiveRefines ==
  ASSUME Inductive, Attempted, RecvAck \/ RecvReq \/ RecvStanza
  PROVE  [Stream!Next]_(Stream!vars)
<1>1. UNCHANGED <<link, sm_enabled, sm_id, log>>
  BY DEF RecvAck, AckThrough, RecvReq, RecvStanza, client, flags
<1>2. UNCHANGED server /\ UNCHANGED bounds
  BY DEF RecvAck, AckThrough, RecvReq, RecvStanza, Receive
<1>3. UNCHANGED <<sm_id, srv_id, log, handled, connects>> /\ (Attached' <=> Attached)
  BY <1>1, <1>2 DEF server, bounds, Attached
<1> QED BY <1>3, Stutters

LEMMA ConnectionRefines ==
  ASSUME Inductive, Attempted, ConnectionEvent
  PROVE  [Stream!Next]_(Stream!vars)
<1>1. CASE Connect
  <2>1. UNCHANGED <<sm_id, srv_id, log, handled>> /\ ~Attached /\ ~Attached'
    BY <1>1 DEF Connect, client, flags, server, Attached
  <2> QED BY <2>1, Stutters
<1>2. CASE \E advertised \in Advertises : ConnectEvent(advertised)
  <2>1. link = "connecting" /\ sm_enabled' = FALSE /\ UNCHANGED server /\ UNCHANGED bounds
    BY <1>2 DEF ConnectEvent, ClearSession
  <2>2. ~Attached /\ ~Attached' /\ UNCHANGED <<srv_id, handled>>
    BY <2>1 DEF Attached, server
  <2>3. UNCHANGED <<sm_id, log>> \/ sm_id' = 0
    BY <1>2 DEF ConnectEvent, ClearSession
  <2>4. CASE UNCHANGED <<sm_id, log>>
    BY <2>2, <2>4, Stutters
  <2>5. CASE sm_id' = 0
    <3>1. ~SameSession'
      BY <2>2, <2>5 DEF SameSession, Attached
    <3> QED BY <3>1, Closes
  <2> QED BY <2>3, <2>4, <2>5
<1>3. CASE LinkLost
  <2>1. UNCHANGED <<sm_id, srv_id, log, handled>> /\ link' = "off"
    BY <1>3 DEF LinkLost, Cut
  <2>2. CASE sm_id # 0 /\ sm_id = srv_id
    BY <2>1, <2>2 DEF SameSession, Session, Sent, Got, Stream!vars
  <2>3. CASE ~(sm_id # 0 /\ sm_id = srv_id)
    <3>1. ~SameSession'
      BY <2>1, <2>3 DEF SameSession
    <3> QED BY <3>1, Closes
  <2> QED BY <2>2, <2>3
<1>4. CASE Conflict \/ Quit
  <2>1. sm_id' = 0 /\ link' = "off"
    BY <1>4 DEF Conflict, Quit, Cut, ClearSession
  <2>2. ~SameSession'
    BY <2>1 DEF SameSession
  <2> QED BY <2>2, Closes
<1> QED BY <1>1, <1>2, <1>3, <1>4 DEF ConnectionEvent

LEMMA ServeAppRefines ==
  ASSUME Inductive, Attempted, ServeApp
  PROVE  [Stream!Next]_(Stream!vars)
<1> DEFINE x == Head(c2s).stanza
<1>0. /\ Serve("app") /\ handled' = IF srv_on THEN Append(handled, x) ELSE handled
      /\ UNCHANGED <<srv_on, srv_id>>
  BY DEF ServeApp
<1>1. /\ link = "up" /\ c2s \in Seq(Message) /\ c2s # <<>> /\ Head(c2s) = c2s[1]
      /\ c2s[1].type = "app"
      /\ UNCHANGED link /\ UNCHANGED client /\ UNCHANGED bounds
      /\ Running \/ Plain
  BY <1>0, ServeFacts
<1> HIDE DEF x
<1>2. UNCHANGED <<sm_id, srv_id, log, connects>> /\ (Attached' <=> Attached)
  BY <1>0, <1>1 DEF client, flags, bounds, Attached
<1>3. CASE Running
  <2>1. /\ Len(handled) \in Nat /\ log \in Seq(Nat)
        /\ srv_on /\ Carries(c2s, Len(handled), log) /\ SameSession
    BY <1>1, <1>3, RunningFacts DEF Running, SameSession
  <2>2. IsApp(c2s[1]) /\ x = c2s[1].stanza
    BY <1>1 DEF IsApp, x
  <2>3. Len(handled) + 1 <= Len(log) /\ x = log[Len(handled) + 1]
    BY <1>1, <2>1, <2>2, CarriesFirst
  <2>4. (SameSession' <=> SameSession) /\ Session' = Session
    BY <1>2, Same
  <2>5. Len(log) \in Nat
    BY <2>1, NumbersFacts
  <2>6. /\ Session # 0 /\ Sent = log /\ Sent' = log /\ Got = handled
        /\ Got' = Append(handled, log[Len(handled) + 1])
    BY <1>0, <1>2, <2>1, <2>3, <2>4, SeenSession DEF Sent, Got
  <2>7. Len(Got) < Len(Sent)
    BY <2>1, <2>3, <2>5, <2>6
  <2> QED BY <2>4, <2>6, <2>7 DEF Stream!Next, Stream!Deliver
<1>4. CASE Plain
  <2>1. handled' = handled
    BY <1>0, <1>4 DEF Plain
  <2> QED BY <1>2, <2>1, Stutters
<1> QED BY <1>1, <1>3, <1>4

LEMMA ServerRefines ==
  ASSUME Inductive, Attempted, ServerStep
  PROVE  [Stream!Next]_(Stream!vars)
<1>1. CASE \E reply \in Replies : ServeEnable(reply)
  <2>1. PICK reply \in Replies : ServeEnable(reply)
    BY <1>1
  <2>2. Serve("enable")
    BY <2>1 DEF ServeEnable
  <2>3. sm_id = 0 /\ ~sm_enabled /\ UNCHANGED client
    BY <2>2, AskingFacts
  <2>4. ~SameSession'
    BY <2>3 DEF SameSession, client, flags
  <2> QED BY <2>4, Closes
<1>2. CASE ServeResume \/ \E h \in Nat : RefuseResume(h)
  <2>1. Serve("resume") /\ UNCHANGED <<srv_id, handled>>
    BY <1>2 DEF ServeResume, RefuseResume, server
  <2>2. ~sm_enabled /\ UNCHANGED client
    BY <2>1, AskingFacts
  <2>3. UNCHANGED <<sm_id, srv_id, log, handled>> /\ ~Attached /\ ~Attached'
    BY <2>1, <2>2 DEF client, flags, Attached
  <2> QED BY <2>3, Stutters
<1>3. CASE ServeApp
  BY <1>3, ServeAppRefines
<1>4. CASE ServeAck \/ ServeReq \/ (\E e : Volunteer(e)) \/ Emit
  <2>1. UNCHANGED <<link, srv_on, srv_id, handled>> /\ UNCHANGED client /\ UNCHANGED bounds
    BY <1>4 DEF ServeAck, ServeReq, Serve, Volunteer, Emit, server
  <2>2. UNCHANGED <<sm_id, srv_id, log, handled, connects>> /\ (Attached' <=> Attached)
    BY <2>1 DEF client, flags, bounds, Attached
  <2> QED BY <2>2, Stutters
<1>5. CASE Expire
  <2>1. srv_id' = 0 /\ ~srv_on /\ srv_on' = srv_on
    BY <1>5 DEF Expire
  <2>2. ~SameSession'
    BY <2>1 DEF SameSession
  <2> QED BY <2>2, Closes
<1>6. Len(handled) \in Nat
  BY NumbersFacts DEF Inductive, TypeOK
<1> QED BY <1>1, <1>2, <1>3, <1>4, <1>5, <1>6 DEF ServerStep, ServeStream

LEMMA InitRefines == Init => Stream!Init
<1> SUFFICES ASSUME Init PROVE Stream!Init
  OBVIOUS
<1>1. ~SameSession /\ sm_id = 0
  BY DEF Init, SameSession
<1> QED BY <1>1 DEF Stream!Init, Session, Sent, Got

LEMMA NextRefines ==
  ASSUME Inductive, Attempted, Inductive', Attempted', [Next]_vars
  PROVE  [Stream!Next]_(Stream!vars)
<1>1. CASE AckTimer \/ UNCHANGED vars
  <2>1. UNCHANGED <<sm_id, srv_id, log, handled, connects>> /\ (Attached' <=> Attached)
    BY <1>1 DEF AckTimer, vars, client, flags, server, bounds, Attached
  <2> QED BY <2>1, Stutters
<1>2. CASE ClientReceive
  BY <1>2, NegotiationRefines, ReceiveRefines, RecvAckTooHighStep DEF ClientReceive
<1> QED BY <1>1, <1>2, SendRefines, ConnectionRefines, ServerRefines DEF Next

\* The promise of a session is kept over any number of connections, stanzas and refused
\* resumptions, with a server that acknowledges only what it has handled.
THEOREM PromiseKept == ASSUME Honest PROVE Spec => SessionPromise
<1>1. Init => Stream!Init /\ Attempted
  BY InitRefines DEF Init, Attempted
<1>2. Inductive /\ Attempted /\ [Next]_vars => Attempted'
  BY AttemptedKept
<1>3. Inductive /\ Attempted /\ Inductive' /\ Attempted' /\ [Next]_vars
        => [Stream!Next]_(Stream!vars)
  BY NextRefines
<1>4. Spec => []Inductive
  BY Safety
<1> QED BY <1>1, <1>2, <1>3, <1>4, PTL DEF Spec, SessionPromise, Stream!Spec

-----------------------------------------------------------------------------
(* Every stanza once: sequences of stanza numbers.                         *)

LEMMA OneMore == \A n \in Nat : \A i \in 1..(n + 1) : i \in 1..n \/ i = n + 1
OBVIOUS

\* The elements of a concatenation are those of its parts.
LEMMA ConcatElements ==
  ASSUME NEW s \in Seq(Nat), NEW t \in Seq(Nat)
  PROVE  /\ s \o t \in Seq(Nat) /\ Len(s \o t) = Len(s) + Len(t)
         /\ Len(s) \in Nat /\ Len(t) \in Nat
         /\ \A k \in 1..Len(s) : k \in 1..Len(s \o t) /\ (s \o t)[k] = s[k]
         /\ \A k \in 1..Len(t) : Len(s) + k \in 1..Len(s \o t) /\ (s \o t)[Len(s) + k] = t[k]
         /\ \A k \in 1..Len(s \o t) : \/ k \in 1..Len(s)
                                      \/ k > Len(s) /\ k - Len(s) \in 1..Len(t)
                                                    /\ (s \o t)[k] = t[k - Len(s)]
<1>1. Len(s) \in Nat /\ Len(t) \in Nat
  BY NumbersFacts
<1>2. /\ s \o t \in Seq(Nat) /\ Len(s \o t) = Len(s) + Len(t)
      /\ \A k \in 1..(Len(s) + Len(t)) :
           (s \o t)[k] = IF k <= Len(s) THEN s[k] ELSE t[k - Len(s)]
  BY ConcatProperties
<1>3. \A k \in 1..Len(s) : k \in 1..(Len(s) + Len(t)) /\ k <= Len(s)
  BY <1>1
<1>4. \A k \in 1..Len(t) : /\ Len(s) + k \in 1..(Len(s) + Len(t))
                           /\ ~(Len(s) + k <= Len(s)) /\ (Len(s) + k) - Len(s) = k
  BY <1>1
<1>5. \A k \in 1..(Len(s) + Len(t)) : \/ k \in 1..Len(s)
                                      \/ k > Len(s) /\ k - Len(s) \in 1..Len(t) /\ ~(k <= Len(s))
  BY <1>1
<1> QED BY <1>1, <1>2, <1>3, <1>4, <1>5

\* What is new in two parts is new in both, and the parts do not meet.
LEMMA NewConcat ==
  ASSUME NEW s \in Seq(Nat), NEW t \in Seq(Nat), NEW d \in Seq(Nat), NEW m \in Nat,
         New(s, d, m), New(t, d, m), Apart(s, t)
  PROVE  s \o t \in Seq(Nat) /\ New(s \o t, d, m)
<1> DEFINE r == s \o t
<1>1. /\ r \in Seq(Nat) /\ Len(s) \in Nat /\ Len(t) \in Nat
      /\ \A k \in 1..Len(s) : r[k] = s[k]
      /\ \A k \in 1..Len(r) : \/ k \in 1..Len(s)
                              \/ k > Len(s) /\ k - Len(s) \in 1..Len(t) /\ r[k] = t[k - Len(s)]
  BY ConcatElements
<1> HIDE DEF r
<1>2. Within(r, m)
  BY <1>1 DEF New, Within
<1>3. Apart(r, d)
  BY <1>1 DEF New, Apart
<1>4. ASSUME NEW i \in 1..Len(r), NEW j \in 1..Len(r), r[i] = r[j]
      PROVE  i = j
  <2>1. CASE i \in 1..Len(s) /\ j \in 1..Len(s)
    BY <2>1, <1>1, <1>4 DEF New, Distinct
  <2>2. CASE i \notin 1..Len(s) /\ j \notin 1..Len(s)
    <3>1. /\ i - Len(s) \in 1..Len(t) /\ j - Len(s) \in 1..Len(t)
          /\ t[i - Len(s)] = t[j - Len(s)]
      BY <2>2, <1>1, <1>4
    <3>2. i - Len(s) = j - Len(s)
      BY <3>1 DEF New, Distinct
    <3> QED BY <3>2, <1>1
  <2>3. CASE i \in 1..Len(s) /\ j \notin 1..Len(s)
    BY <2>3, <1>1, <1>4 DEF Apart
  <2>4. CASE i \notin 1..Len(s) /\ j \in 1..Len(s)
    BY <2>4, <1>1, <1>4 DEF Apart
  <2> QED BY <2>1, <2>2, <2>3, <2>4
<1>5. Distinct(r)
  BY <1>4 DEF Distinct
<1> QED BY <1>1, <1>2, <1>3, <1>5 DEF New, r

LEMMA ApartConcat ==
  ASSUME NEW s \in Seq(Nat), NEW t \in Seq(Nat), NEW r \in Seq(Nat), Apart(r, s), Apart(r, t)
  PROVE  Apart(r, s \o t)
<1>1. ASSUME NEW i \in 1..Len(r), NEW k \in 1..Len(s \o t) PROVE r[i] # (s \o t)[k]
  <2>1. CASE k \in 1..Len(s)
    <3>1. (s \o t)[k] = s[k]
      BY <2>1, ConcatElements
    <3> QED BY <3>1, <2>1 DEF Apart
  <2>2. CASE k \notin 1..Len(s)
    <3>1. k - Len(s) \in 1..Len(t) /\ (s \o t)[k] = t[k - Len(s)]
      BY <2>2, ConcatElements
    <3> QED BY <3>1 DEF Apart
  <2> QED BY <2>1, <2>2
<1> QED BY <1>1 DEF Apart

LEMMA NewNothing == \A s, d, m : New(<<>>, d, m) /\ Apart(<<>>, s) /\ Apart(s, <<>>)
BY DEF New, Distinct, Within, Apart

\* What is new stays new when more numbers are given out.
LEMMA WithinMore ==
  ASSUME NEW s, NEW m \in Nat, NEW n \in Nat, m <= n, Within(s, m)
  PROVE  Within(s, n)
<1>1. \A x \in 1..m : x \in 1..n
  OBVIOUS
<1> QED BY <1>1 DEF Within

\* The next number is new to whatever only holds numbers given out before.
LEMMA NextIsNew ==
  ASSUME NEW m \in Nat, NEW d, Within(d, m)
  PROVE  /\ <<m + 1>> \in Seq(Nat) /\ New(<<m + 1>>, d, m + 1)
         /\ Apart(<<m + 1>>, d) /\ Apart(d, <<m + 1>>)
<1> DEFINE s == <<m + 1>>
<1>1. s \in Seq(Nat) /\ Len(s) = 1 /\ s[1] = m + 1
  OBVIOUS
<1> HIDE DEF s
<1>2. \A i \in 1..Len(s) : s[i] = m + 1 /\ i = 1
  BY <1>1
<1>3. \A i \in 1..Len(d) : d[i] # m + 1
  BY DEF Within
<1>4. Distinct(s) /\ Within(s, m + 1) /\ Apart(s, d) /\ Apart(d, s)
  BY <1>2, <1>3 DEF Distinct, Within, Apart
<1> QED BY <1>1, <1>4 DEF New, s

\* connection::send gives its stanza the next number.
LEMMA NewAppend ==
  ASSUME NEW s \in Seq(Nat), NEW d \in Seq(Nat), NEW m \in Nat, New(s, d, m), Within(d, m)
  PROVE  /\ s \o <<m + 1>> \in Seq(Nat) /\ New(s \o <<m + 1>>, d, m + 1)
         /\ Append(s, m + 1) = s \o <<m + 1>>
<1>1. Within(s, m) /\ Within(s, m + 1) /\ m + 1 \in Nat
  BY WithinMore DEF New
<1>2. New(s, d, m + 1)
  BY <1>1 DEF New
<1>3. <<m + 1>> \in Seq(Nat) /\ New(<<m + 1>>, d, m + 1) /\ Apart(s, <<m + 1>>)
  BY <1>1, NextIsNew
<1>4. Append(s, m + 1) = s \o <<m + 1>>
  BY <1>1, AppendIsConcat
<1> QED BY <1>1, <1>2, <1>3, <1>4, NewConcat

\* A number that is delivered leaves what is owed and is new to what was delivered.
LEMMA NewDelivered ==
  ASSUME NEW s \in Seq(Nat), NEW t \in Seq(Nat), NEW d \in Seq(Nat), NEW m \in Nat,
         New(s, d, m), Distinct(d), Within(d, m), s # <<>>,
         Len(t) = Len(s) - 1, \A k \in 1..Len(t) : t[k] = s[k + 1]
  PROVE  /\ Append(d, s[1]) \in Seq(Nat)
         /\ Distinct(Append(d, s[1])) /\ Within(Append(d, s[1]), m)
         /\ New(t, Append(d, s[1]), m)
<1> DEFINE e == Append(d, s[1])
<1>1. Len(s) \in Nat \ {0} /\ Len(t) \in Nat /\ 1 \in 1..Len(s) /\ s[1] \in Nat /\ Len(d) \in Nat
  BY NumbersFacts, EmptySeq
<1>2. /\ e \in Seq(Nat) /\ Len(e) = Len(d) + 1 /\ e[Len(d) + 1] = s[1]
      /\ \A i \in 1..Len(d) : e[i] = d[i]
  BY <1>1, AppendProperties
<1> HIDE DEF e
<1>3. ASSUME NEW i \in 1..Len(e)
      PROVE  (i \in 1..Len(d) /\ e[i] = d[i]) \/ (i = Len(d) + 1 /\ e[i] = s[1])
  <2>1. Len(d) \in Nat
    BY <1>1
  <2>2. i \in 1..Len(d) \/ i = Len(d) + 1
    BY <2>1, <1>2, OneMore
  <2> QED BY <2>2, <1>2
<1>4. \A i \in 1..Len(d) : d[i] # s[1]
  BY <1>1 DEF New, Apart
<1>5. Distinct(e)
  <2>1. ASSUME NEW i \in 1..Len(e), NEW j \in 1..Len(e), e[i] = e[j] PROVE i = j
    <3>1. i \in 1..Len(d) /\ j \in 1..Len(d) => d[i] = d[j]
      BY <2>1, <1>2
    <3>2. i \in 1..Len(d) /\ j \in 1..Len(d) => i = j
      BY <3>1 DEF Distinct
    <3> QED BY <2>1, <3>2, <1>3, <1>4
  <2> QED BY <2>1 DEF Distinct
<1>6. Within(e, m)
  <2>1. s[1] \in 1..m
    BY <1>1 DEF Within, New
  <2> QED BY <2>1, <1>3 DEF Within
<1>7. \A k \in 1..Len(t) : k + 1 \in 1..Len(s) /\ k + 1 # 1
  BY <1>1
<1>8. Within(t, m)
  BY <1>7 DEF Within, New
<1>9. Distinct(t)
  <2>1. ASSUME NEW i \in 1..Len(t), NEW j \in 1..Len(t), t[i] = t[j] PROVE i = j
    <3>1. s[i + 1] = s[j + 1] /\ i + 1 \in 1..Len(s) /\ j + 1 \in 1..Len(s)
      BY <2>1, <1>7
    <3>2. i + 1 = j + 1
      BY <3>1 DEF New, Distinct
    <3> QED BY <3>2
  <2> QED BY <2>1 DEF Distinct
<1>10. Apart(t, e)
  <2>1. ASSUME NEW i \in 1..Len(t), NEW j \in 1..Len(e) PROVE t[i] # e[j]
    <3>1. t[i] = s[i + 1] /\ i + 1 \in 1..Len(s) /\ i + 1 # 1
      BY <1>7
    <3>2. s[i + 1] # s[1]
      BY <3>1, <1>1 DEF New, Distinct
    <3>3. \A k \in 1..Len(d) : s[i + 1] # d[k]
      BY <3>1 DEF New, Apart
    <3> QED BY <3>1, <3>2, <3>3, <1>3
  <2> QED BY <2>1 DEF Apart
<1> QED BY <1>2, <1>5, <1>6, <1>8, <1>9, <1>10 DEF New, e

\* What a session still owes.
LEMMA RestFacts ==
  ASSUME NEW l \in Seq(Nat), NEW n \in Nat, n <= Len(l)
  PROVE  /\ Rest(l, n) \in Seq(Nat) /\ Len(Rest(l, n)) = Len(l) - n
         /\ \A k \in 1..(Len(l) - n) : Rest(l, n)[k] = l[n + k] /\ n + k \in 1..Len(l)
<1>1. Len(l) \in Nat /\ Len(l) - n \in Nat /\ \A i \in 1..Len(l) : l[i] \in Nat
  BY NumbersFacts
<1>2. \A k \in 1..(Len(l) - n) : n + k \in 1..Len(l)
  BY <1>1
<1>3. Rest(l, n) \in [1..(Len(l) - n) -> Nat]
  BY <1>1, <1>2 DEF Rest
<1>4. Rest(l, n) \in Seq(Nat) /\ Len(Rest(l, n)) = Len(l) - n
  BY <1>1, <1>3, FunctionIsSequence
<1> QED BY <1>2, <1>4 DEF Rest

LEMMA RestConcat ==
  ASSUME NEW l \in Seq(Nat), NEW r \in Seq(Nat), NEW n \in Nat, n <= Len(l)
  PROVE  Rest(l \o r, n) = Rest(l, n) \o r
<1> DEFINE a == Rest(l \o r, n)
           b == Rest(l, n) \o r
<1>1. /\ l \o r \in Seq(Nat) /\ Len(l \o r) = Len(l) + Len(r)
      /\ Len(l) \in Nat /\ Len(r) \in Nat /\ n <= Len(l \o r)
  BY ConcatElements
<1>2. /\ a \in Seq(Nat) /\ Len(a) = (Len(l) + Len(r)) - n
      /\ \A k \in 1..Len(a) : a[k] = (l \o r)[n + k] /\ n + k \in 1..Len(l \o r)
  BY <1>1, RestFacts
<1>3. /\ Rest(l, n) \in Seq(Nat) /\ Len(Rest(l, n)) = Len(l) - n
      /\ \A k \in 1..(Len(l) - n) : Rest(l, n)[k] = l[n + k] /\ n + k \in 1..Len(l)
  BY RestFacts
<1>4. b \in Seq(Nat) /\ Len(b) = (Len(l) - n) + Len(r)
  BY <1>3, ConcatElements
<1>5. ASSUME NEW k \in 1..Len(a) PROVE a[k] = b[k]
  <2>1. k \in Nat /\ a[k] = (l \o r)[n + k] /\ n + k \in 1..(Len(l) + Len(r))
    BY <1>1, <1>2
  <2>2. CASE k \in 1..(Len(l) - n)
    <3>1. Rest(l, n) \in Seq(Nat) /\ k \in 1..Len(Rest(l, n)) /\ n + k \in 1..Len(l)
      BY <2>2, <1>3
    <3>2. (Rest(l, n) \o r)[k] = Rest(l, n)[k]
      BY <3>1, ConcatElements
    <3>3. (l \o r)[n + k] = l[n + k]
      BY <3>1, ConcatElements
    <3> QED BY <3>2, <3>3, <2>1, <2>2, <1>3
  <2>3. CASE k \notin 1..(Len(l) - n)
    <3> DEFINE j == k - (Len(l) - n)
    <3>1. j \in 1..Len(r) /\ n + k = Len(l) + j /\ k = Len(Rest(l, n)) + j
      BY <2>1, <2>3, <1>1, <1>2, <1>3
    <3> HIDE DEF j
    <3>2. (l \o r)[Len(l) + j] = r[j] /\ b[Len(Rest(l, n)) + j] = r[j]
      BY <3>1, <1>3, ConcatElements
    <3> QED BY <3>1, <3>2, <2>1
  <2> QED BY <2>2, <2>3
<1>6. Len(a) = Len(b)
  BY <1>1, <1>2, <1>4
<1> QED BY <1>2, <1>4, <1>5, <1>6, SeqEqual

LEMMA RestAll ==
  ASSUME NEW l \in Seq(Nat)
  PROVE  Rest(l, 0) = l
<1>1. Len(l) \in Nat /\ 0 <= Len(l)
  BY NumbersFacts
<1>2. /\ Rest(l, 0) \in Seq(Nat) /\ Len(Rest(l, 0)) = Len(l) - 0
      /\ \A k \in 1..(Len(l) - 0) : Rest(l, 0)[k] = l[0 + k]
  BY <1>1, RestFacts
<1>3. Len(l) - 0 = Len(l) /\ \A k \in 1..Len(l) : 0 + k = k
  BY <1>1
<1> QED BY <1>2, <1>3, SeqEqual

\* What remains of the retransmit queue after a trim is what the session still owes.
LEMMA OutstandingRest ==
  ASSUME NEW q \in Queue, NEW a \in Nat, NEW l \in Seq(Nat), a <= Len(l), Outstanding(q, a, l)
  PROVE  Stanzas(q) = Rest(l, a)
<1>1. Len(q) = Len(l) - a /\ \A i \in 1..Len(q) : q[i].stanza = l[a + i]
  BY OutstandingFacts
<1> QED BY <1>1 DEF Stanzas, Rest

\* The stanzas of two queues, one behind the other.
LEMMA StanzasConcat ==
  ASSUME NEW p \in Queue, NEW q \in Queue
  PROVE  Stanzas(p \o q) = Stanzas(p) \o Stanzas(q)
<1> DEFINE a == Stanzas(p \o q)
           b == Stanzas(p) \o Stanzas(q)
<1>1. /\ p \o q \in Queue /\ Len(p) \in Nat /\ Len(q) \in Nat
      /\ Stanzas(p) \in Seq(Nat) /\ Len(Stanzas(p)) = Len(p)
      /\ Stanzas(q) \in Seq(Nat) /\ Len(Stanzas(q)) = Len(q)
      /\ p \in Seq(Numbered) /\ q \in Seq(Numbered)
  BY QueueConcat, QueueFacts, StanzasType
<1>2. /\ Len(p \o q) = Len(p) + Len(q)
      /\ \A k \in 1..(Len(p) + Len(q)) : (p \o q)[k] = IF k <= Len(p) THEN p[k] ELSE q[k - Len(p)]
  BY <1>1, ConcatProperties
<1>3. a \in Seq(Nat) /\ Len(a) = Len(p) + Len(q)
  BY <1>1, <1>2, StanzasType
<1>4. b \in Seq(Nat) /\ Len(b) = Len(p) + Len(q)
  BY <1>1, ConcatElements
<1>5. ASSUME NEW k \in 1..Len(a) PROVE a[k] = b[k]
  <2>1. a[k] = (p \o q)[k].stanza
    BY <1>2, <1>3 DEF Stanzas
  <2>2. CASE k <= Len(p)
    <3>1. k \in 1..Len(p) /\ (p \o q)[k] = p[k]
      BY <2>2, <1>1, <1>2, <1>3
    <3>2. b[k] = Stanzas(p)[k]
      BY <3>1, <1>1, ConcatElements
    <3> QED BY <3>1, <3>2, <2>1 DEF Stanzas
  <2>3. CASE ~(k <= Len(p))
    <3> DEFINE j == k - Len(p)
    <3>0. k \in 1..(Len(p) + Len(q))
      BY <1>3
    <3>1. j \in 1..Len(q) /\ k = Len(p) + j
      BY <2>3, <3>0, <1>1
    <3>2. (p \o q)[k] = q[j]
      BY <2>3, <3>0, <1>2
    <3> HIDE DEF j
    <3>3. j \in 1..Len(Stanzas(q)) /\ Stanzas(p) \in Seq(Nat) /\ Stanzas(q) \in Seq(Nat)
      BY <3>1, <1>1
    <3>4. b[Len(Stanzas(p)) + j] = Stanzas(q)[j]
      BY <3>3, ConcatElements
    <3>5. b[k] = Stanzas(q)[j]
      BY <3>4, <3>1, <1>1
    <3> QED BY <3>1, <3>2, <3>5, <2>1 DEF Stanzas
  <2> QED BY <2>2, <2>3
<1>6. Len(a) = Len(b)
  BY <1>3, <1>4
<1> QED BY <1>3, <1>4, <1>5, <1>6, SeqEqual

LEMMA WireStanzas ==
  ASSUME NEW c \in Seq(Message)
  PROVE  /\ Stanzas(c) \in Seq(Nat) /\ Len(Stanzas(c)) = Len(c)
         /\ \A i \in 1..Len(c) : Stanzas(c)[i] = c[i].stanza
<1>1. Stanzas(c) \in [1..Len(c) -> Nat] /\ Len(c) \in Nat
  BY WireFacts DEF Stanzas
<1> QED BY <1>1, FunctionIsSequence DEF Stanzas

LEMMA WireStanzasAppend ==
  ASSUME NEW c \in Seq(Message), NEW e \in Message
  PROVE  /\ c \o <<e>> \in Seq(Message) /\ c \o <<e>> = Append(c, e)
         /\ Stanzas(c \o <<e>>) = Stanzas(c) \o <<e.stanza>>
<1> DEFINE d == Append(c, e)
           t == Stanzas(c)
<1>1. e.stanza \in Nat
  BY DEF Message
<1>2. /\ c \o <<e>> = d /\ d \in Seq(Message) /\ Len(d) = Len(c) + 1 /\ d[Len(c) + 1] = e
      /\ \A i \in 1..Len(c) : d[i] = c[i]
  BY AppendIsConcat, WireAppend
<1>3. t \in Seq(Nat) /\ Len(t) = Len(c) /\ Len(c) \in Nat /\ \A i \in 1..Len(c) : t[i] = c[i].stanza
  BY WireStanzas, WireFacts
<1> HIDE DEF d, t
<1>4. /\ Stanzas(d) \in Seq(Nat) /\ Len(Stanzas(d)) = Len(c) + 1
      /\ \A i \in 1..(Len(c) + 1) : Stanzas(d)[i] = d[i].stanza
  BY <1>2, WireStanzas
<1>5. /\ t \o <<e.stanza>> = Append(t, e.stanza) /\ Append(t, e.stanza) \in Seq(Nat)
      /\ Len(Append(t, e.stanza)) = Len(c) + 1 /\ Append(t, e.stanza)[Len(c) + 1] = e.stanza
      /\ \A i \in 1..Len(c) : Append(t, e.stanza)[i] = t[i]
  BY <1>1, <1>3, AppendIsConcat, AppendProperties
<1>6. ASSUME NEW i \in 1..(Len(c) + 1) PROVE Stanzas(d)[i] = Append(t, e.stanza)[i]
  <2>1. i \in 1..Len(c) \/ i = Len(c) + 1
    BY <1>3, OneMore
  <2> QED BY <2>1, <1>2, <1>3, <1>4, <1>5
<1>7. Stanzas(d) = Append(t, e.stanza)
  BY <1>4, <1>5, <1>6, SeqEqual
<1> QED BY <1>2, <1>5, <1>7 DEF t, d

-----------------------------------------------------------------------------
(* What the client owes: frames.                                           *)

LEMMA OwedTypes ==
  ASSUME Inductive, OutboundOnce
  PROVE  /\ Debt \in Seq(Nat) /\ Waiting \in Seq(Nat)
         /\ delivered \in Seq(Nat) /\ submitted \in Nat
         /\ log \in Seq(Nat) /\ handled \in Seq(Nat)
         /\ Len(log) \in Nat /\ Len(handled) \in Nat /\ sm_last_ack \in Nat
<1>1. /\ delivered \in Seq(Nat) /\ submitted \in Nat /\ log \in Seq(Nat) /\ handled \in Seq(Nat)
      /\ c2s \in Seq(Message) /\ sm_pending_replay \in Queue /\ sm_last_ack \in Nat
  BY DEF Inductive, TypeOK
<1>2. Len(log) \in Nat /\ Len(handled) \in Nat
  BY <1>1, NumbersFacts
<1>3. Waiting \in Seq(Nat)
  BY <1>1, StanzasType DEF Waiting
<1>4. Stanzas(c2s) \in Seq(Nat)
  BY <1>1, WireStanzas
<1>5. Held => Rest(log, Len(handled)) \in Seq(Nat)
  BY <1>1, <1>2, RestFacts DEF OutboundOnce
<1> QED BY <1>1, <1>2, <1>3, <1>4, <1>5, EmptyQueue DEF Debt

\* Steps that deliver nothing and at most forget what was owed.
LEMMA OutboundKept ==
  ASSUME Inductive, OutboundOnce,
         UNCHANGED delivered, submitted' \in Nat, submitted <= submitted',
         Debt' \in {Debt, <<>>}, Waiting' \in {Waiting, <<>>},
         Held' => sm_last_ack' <= Len(handled') /\ Len(handled') <= Len(log')
  PROVE  OutboundOnce'
<1>1. submitted \in Nat
  BY OwedTypes
<1>2. \A s : Within(s, submitted) => Within(s, submitted')
  BY <1>1, WithinMore
<1>3. Distinct(delivered') /\ Within(delivered', submitted')
  BY <1>2 DEF OutboundOnce
<1>4. New(Debt', delivered', submitted')
  BY <1>2, NewNothing DEF OutboundOnce, New
<1>5. New(Waiting', delivered', submitted')
  BY <1>2, NewNothing DEF OutboundOnce, New
<1>6. Apart(Debt', Waiting')
  BY NewNothing DEF OutboundOnce
<1> QED BY <1>3, <1>4, <1>5, <1>6 DEF OutboundOnce

\* Steps of a stream, a session and a wire that go on.
LEMMA OutboundFrame ==
  ASSUME Inductive, OutboundOnce,
         UNCHANGED <<link, sm_awaiting, sm_enabled, sm_id, sm_last_ack, sm_pending_replay,
                     log, handled, delivered, submitted>>,
         Unmanaged => UNCHANGED c2s
  PROVE  OutboundOnce'
<1>1. submitted \in Nat
  BY OwedTypes
<1>2. (Unmanaged' <=> Unmanaged) /\ (Held' <=> Held)
  BY DEF Unmanaged, Held
<1>3. Debt' = Debt /\ Waiting' = Waiting
  BY <1>2 DEF Debt, Waiting
<1>4. Held' => sm_last_ack' <= Len(handled') /\ Len(handled') <= Len(log')
  BY <1>2 DEF OutboundOnce
<1> QED BY <1>1, <1>3, <1>4, OutboundKept

LEMMA AttemptsFrame ==
  ASSUME Attempts,
         UNCHANGED <<link, sm_awaiting, sm_enabled, sm_resume_attempted, sm_id>>,
         sm_awaiting /\ ~srv_on' => UNCHANGED <<srv_on, s2c, handled>>
  PROVE  Attempts'
BY DEF Attempts, Unmanaged

-----------------------------------------------------------------------------
(* connection::send.                                                       *)

LEMMA DeferOnce ==
  ASSUME Inductive, Outbound, Send, Defer(submitted + 1)
  PROVE  Outbound'
<1>0. /\ sm_awaiting /\ link' = link /\ submitted' = submitted + 1
      /\ sm_pending_replay' = Append(sm_pending_replay, Entry(0, submitted + 1))
      /\ UNCHANGED <<sm_awaiting, sm_enabled, sm_resume_attempted, sm_id, sm_last_ack, s2c,
                     srv_on, log, c2s, handled, delivered>>
  BY DEF Send, Defer, flags, counters, server
<1>1. /\ Debt \in Seq(Nat) /\ Waiting \in Seq(Nat) /\ delivered \in Seq(Nat) /\ submitted \in Nat
  BY OwedTypes DEF Outbound
<1>2. Debt' = Debt /\ (Held' <=> Held)
  BY <1>0 DEF Debt, Unmanaged, Held
<1>3. Waiting' = Waiting \o <<submitted + 1>>
  <2> DEFINE e == <<Entry(0, submitted + 1)>>
  <2>1. Entry(0, submitted + 1) \in Numbered /\ Entry(0, submitted + 1).stanza = submitted + 1
    BY <1>1, EntryType, EntryFields
  <2>2. e \in Queue /\ Len(e) = 1 /\ e[1].stanza = submitted + 1
    BY <2>1 DEF Queue, Numbered
  <2>3. Stanzas(e) = <<submitted + 1>>
    BY <2>2 DEF Stanzas
  <2>4. sm_pending_replay \in Queue
    BY DEF Inductive, TypeOK
  <2>5. sm_pending_replay' = sm_pending_replay \o e
    BY <1>0, <2>1, <2>4, AppendIsConcat DEF Queue, Numbered
  <2> HIDE DEF e
  <2> QED BY <2>2, <2>3, <2>4, <2>5, StanzasConcat DEF Waiting
<1>4. OutboundOnce'
  <2>1. /\ Within(delivered, submitted) /\ Within(Debt, submitted) /\ Within(Waiting, submitted)
        /\ New(Debt, delivered, submitted) /\ New(Waiting, delivered, submitted)
        /\ Apart(Debt, Waiting)
    BY DEF Outbound, OutboundOnce, New
  <2>2. New(Waiting', delivered', submitted')
    BY <1>0, <1>1, <1>3, <2>1, NewAppend
  <2>3. Within(delivered', submitted') /\ New(Debt', delivered', submitted')
    BY <1>0, <1>1, <1>2, <2>1, WithinMore DEF New
  <2>4. Apart(Debt, <<submitted + 1>>) /\ <<submitted + 1>> \in Seq(Nat)
    BY <1>1, <2>1, NextIsNew
  <2>5. Apart(Debt', Waiting')
    BY <1>1, <1>2, <1>3, <2>1, <2>4, ApartConcat
  <2> QED BY <1>0, <1>2, <2>2, <2>3, <2>5 DEF Outbound, OutboundOnce
<1>5. Attempts'
  BY <1>0, AttemptsFrame DEF Outbound
<1> QED BY <1>4, <1>5 DEF Outbound

\* What is owed grows by the stanza that connection::send is called with.
LEMMA OwedMore ==
  ASSUME Inductive, OutboundOnce, submitted' = submitted + 1, UNCHANGED delivered,
         Debt' = Debt \o <<submitted + 1>>, Waiting = <<>>, Waiting' = <<>>,
         Held' => sm_last_ack' <= Len(handled') /\ Len(handled') <= Len(log')
  PROVE  OutboundOnce'
<1>1. /\ Debt \in Seq(Nat) /\ delivered \in Seq(Nat) /\ submitted \in Nat
      /\ New(Debt, delivered, submitted) /\ Within(delivered, submitted)
  BY OwedTypes DEF OutboundOnce
<1>2. New(Debt', delivered', submitted')
  BY <1>1, NewAppend
<1>3. Within(delivered', submitted')
  BY <1>1, WithinMore
<1> QED BY <1>2, <1>3, NewNothing DEF OutboundOnce

\* Outside a negotiation nothing waits.
LEMMA NothingWaiting ==
  ASSUME Inductive, ~sm_awaiting
  PROVE  Waiting = <<>>
<1>1. sm_pending_replay = <<>>
  BY DEF Inductive, NothingWaits
<1> QED BY <1>1 DEF Waiting, Stanzas

LEMMA SendCountedOnce ==
  ASSUME Inductive, Outbound, Send, SendCounted(submitted + 1)
  PROVE  Outbound'
<1>0. /\ ~sm_awaiting /\ sm_enabled /\ submitted' = submitted + 1
      /\ log' = Append(log, submitted + 1)
      /\ UNCHANGED <<link, sm_awaiting, sm_enabled, sm_resume_attempted, sm_id, sm_last_ack,
                     sm_pending_replay, s2c, srv_on, handled, delivered>>
  BY DEF Send, SendCounted, flags, counters, server
<1>1. /\ delivered \in Seq(Nat) /\ submitted \in Nat
      /\ log \in Seq(Nat) /\ Len(log) \in Nat /\ Len(handled) \in Nat
  BY OwedTypes DEF Outbound
<1>2. Waiting = <<>> /\ Waiting' = <<>>
  <2>1. Waiting = <<>>
    BY <1>0, NothingWaiting
  <2> QED BY <2>1, <1>0 DEF Waiting
<1>3. log' = log \o <<submitted + 1>> /\ Len(log') = Len(log) + 1 /\ <<submitted + 1>> \in Seq(Nat)
  BY <1>0, <1>1, AppendIsConcat, AppendProperties
<1>4. ~Unmanaged /\ ~Unmanaged' /\ (Held' <=> Held)
  BY <1>0 DEF Unmanaged, Held
<1>5. OutboundOnce'
  <2>1. CASE Held
    <3>1. Len(handled) <= Len(log) /\ sm_last_ack <= Len(handled)
      BY <2>1 DEF Outbound, OutboundOnce
    <3>2. Debt = Rest(log, Len(handled)) /\ Debt' = Rest(log \o <<submitted + 1>>, Len(handled))
      BY <2>1, <1>0, <1>3, <1>4 DEF Debt
    <3>3. Debt' = Debt \o <<submitted + 1>>
      BY <3>1, <3>2, <1>1, <1>3, RestConcat
    <3>4. sm_last_ack' <= Len(handled') /\ Len(handled') <= Len(log')
      BY <3>1, <1>0, <1>1, <1>3
    <3> QED BY <3>3, <3>4, <1>0, <1>2, OwedMore DEF Outbound
  <2>2. CASE ~Held
    <3>1. Debt' = <<>>
      BY <2>2, <1>4 DEF Debt
    <3> QED BY <3>1, <2>2, <1>0, <1>1, <1>2, <1>4, OutboundKept DEF Outbound
  <2> QED BY <2>1, <2>2
<1>6. Attempts'
  BY <1>0, AttemptsFrame DEF Outbound
<1> QED BY <1>5, <1>6 DEF Outbound

LEMMA SendUncountedOnce ==
  ASSUME Inductive, Outbound, Send, SendUncounted(submitted + 1)
  PROVE  Outbound'
<1> DEFINE e == App(0, submitted + 1)
<1>0. /\ ~sm_awaiting /\ ~sm_enabled /\ submitted' = submitted + 1
      /\ c2s' = IF link = "up" THEN c2s \o <<e>> ELSE c2s
      /\ UNCHANGED <<link, sm_awaiting, sm_enabled, sm_resume_attempted, sm_id, sm_last_ack,
                     sm_pending_replay, s2c, srv_on, log, handled, delivered>>
  BY DEF Send, SendUncounted, Transmit, flags, counters, queues, server
<1>1. submitted \in Nat /\ c2s \in Seq(Message) /\ e \in Message /\ e.stanza = submitted + 1
  <2>1. submitted \in Nat /\ c2s \in Seq(Message)
    BY DEF Inductive, TypeOK
  <2> QED BY <2>1, ElementTypes, AppFields
<1> HIDE DEF e
<1>2. Waiting = <<>> /\ Waiting' = <<>>
  <2>1. Waiting = <<>>
    BY <1>0, NothingWaiting
  <2> QED BY <2>1, <1>0 DEF Waiting
<1>3. OutboundOnce'
  <2>1. CASE link = "up"
    <3>1. Unmanaged /\ Unmanaged' /\ Held' = Held
      BY <2>1, <1>0 DEF Unmanaged, Held
    <3>2. Debt = Stanzas(c2s) /\ Debt' = Stanzas(c2s \o <<e>>)
      BY <3>1, <2>1, <1>0 DEF Debt
    <3>3. Debt' = Debt \o <<submitted + 1>>
      BY <3>2, <1>1, WireStanzasAppend
    <3>4. Held' => sm_last_ack' <= Len(handled') /\ Len(handled') <= Len(log')
      BY <3>1, <1>0 DEF Outbound, OutboundOnce
    <3> QED BY <3>3, <3>4, <1>0, <1>2, OwedMore DEF Outbound
  <2>2. CASE link # "up"
    <3>1. (Unmanaged' <=> Unmanaged) /\ (Held' <=> Held) /\ Debt' = Debt
      BY <2>2, <1>0 DEF Unmanaged, Held, Debt
    <3>2. Held' => sm_last_ack' <= Len(handled') /\ Len(handled') <= Len(log')
      BY <3>1, <1>0 DEF Outbound, OutboundOnce
    <3> QED BY <3>1, <3>2, <1>0, <1>1, <1>2, OutboundKept DEF Outbound
  <2> QED BY <2>1, <2>2
<1>4. Attempts'
  BY <1>0, AttemptsFrame DEF Outbound
<1> QED BY <1>3, <1>4 DEF Outbound

-----------------------------------------------------------------------------
(* connection::sm_handler.                                                 *)

\* The setup's stanza is new, if there is one.
LEMMA SetupNew ==
  ASSUME Inductive, OutboundOnce, submitted' = submitted + Len(Setup)
  PROVE  /\ submitted' \in Nat /\ submitted <= submitted' /\ Setup \in Seq(Nat)
         /\ New(Setup, delivered, submitted')
         /\ \A s : Within(s, submitted) => Within(s, submitted') /\ Apart(s, Setup)
<1>1. submitted \in Nat /\ Within(delivered, submitted)
  BY OwedTypes DEF OutboundOnce
<1>2. CASE Setup = <<>>
  <2>1. Len(Setup) = 0 /\ Setup \in Seq(Nat)
    BY <1>2
  <2>2. submitted' = submitted
    BY <1>1, <2>1
  <2> QED BY <1>1, <1>2, <2>1, <2>2, NewNothing
<1>3. CASE Setup = <<submitted + 1>>
  <2>1. Len(Setup) = 1
    BY <1>3
  <2>2. submitted' = submitted + 1
    BY <1>1, <2>1
  <2> QED BY <1>1, <1>3, <2>2, NextIsNew, WithinMore
<1> QED BY <1>2, <1>3 DEF Setup

\* What sm_replay_pending_stanzas and the setup send is new, also to what is owed.
LEMMA ReplayNew ==
  ASSUME Inductive, OutboundOnce, submitted' = submitted + Len(Setup)
  PROVE  /\ submitted' \in Nat /\ Replay \in Seq(Nat) /\ Within(delivered, submitted')
         /\ New(Replay, delivered, submitted')
         /\ New(Debt \o Replay, delivered, submitted')
<1>1. /\ Debt \in Seq(Nat) /\ Waiting \in Seq(Nat) /\ delivered \in Seq(Nat)
      /\ submitted \in Nat
  BY OwedTypes
<1>2. /\ Within(delivered, submitted) /\ Within(Debt, submitted) /\ Within(Waiting, submitted)
      /\ New(Debt, delivered, submitted) /\ New(Waiting, delivered, submitted)
      /\ Apart(Debt, Waiting)
  BY DEF OutboundOnce, New
<1>3. /\ submitted' \in Nat /\ Setup \in Seq(Nat) /\ New(Setup, delivered, submitted')
      /\ \A s : Within(s, submitted) => Within(s, submitted') /\ Apart(s, Setup)
  BY SetupNew
<1>4. /\ New(Debt, delivered, submitted') /\ New(Waiting, delivered, submitted')
      /\ Within(delivered, submitted')
  BY <1>2, <1>3 DEF New
<1>5. Replay = Waiting \o Setup
  BY DEF Replay, Waiting
<1>6. Replay \in Seq(Nat) /\ New(Replay, delivered, submitted')
  BY <1>1, <1>2, <1>3, <1>4, <1>5, NewConcat
<1>7. Apart(Debt, Replay)
  BY <1>1, <1>2, <1>3, <1>5, ApartConcat
<1> QED BY <1>1, <1>3, <1>4, <1>6, <1>7, NewConcat

LEMMA RecvEnabledOnce ==
  ASSUME Inductive, Outbound, RecvEnabled
  PROVE  Outbound'
<1>0. /\ Receive("enabled") /\ link' = link /\ sm_enabled' = TRUE /\ sm_awaiting' = FALSE
      /\ sm_pending_replay' = <<>> /\ submitted' = submitted + Len(Setup)
      /\ log' = Replay /\ sm_last_ack' = 0
  BY DEF RecvEnabled, NewSession, Negotiated, RunSetup
<1>1. link = "up" /\ s2c[1].type = "enabled" /\ UNCHANGED server /\ Answered
  BY <1>0, ReceiveFacts
<1>2. handled = <<>> /\ UNCHANGED <<handled, delivered>>
  <2>1. Resumed(Len(handled)).type = "resumed"
    BY DEF Resumed, Element
  <2> QED BY <1>1, <2>1 DEF Answered, server
<1>3. /\ submitted' \in Nat /\ Replay \in Seq(Nat) /\ Within(delivered, submitted')
      /\ New(Replay, delivered, submitted')
  BY <1>0, ReplayNew DEF Outbound
<1>4. ~Unmanaged' /\ Held'
  BY <1>0, <1>1 DEF Unmanaged, Held
<1>5. Len(handled') = 0
  BY <1>2
<1>6. Debt' = Replay
  BY <1>0, <1>3, <1>4, <1>5, RestAll DEF Debt
<1>7. Waiting' = <<>>
  BY <1>0 DEF Waiting, Stanzas
<1>8. 0 <= Len(handled') /\ Len(handled') <= Len(log')
  BY <1>0, <1>3, <1>5, NumbersFacts
<1>9. OutboundOnce'
  BY <1>0, <1>2, <1>3, <1>6, <1>7, <1>8, NewNothing DEF Outbound, OutboundOnce
<1> QED BY <1>0, <1>4, <1>9 DEF Outbound, Attempts

LEMMA RecvResumedOnce ==
  ASSUME Inductive, Outbound, RecvResumed
  PROVE  Outbound'
<1>0. /\ Receive("resumed") /\ link' = link /\ sm_enabled' = TRUE /\ sm_awaiting' = FALSE
      /\ sm_pending_replay' = <<>> /\ submitted' = submitted + Len(Setup)
      /\ log' = log \o Replay /\ sm_last_ack' = Head(s2c).h
  BY DEF RecvResumed, Resumption, Negotiated, RunSetup
<1>1. /\ link = "up" /\ s2c[1].type = "resumed" /\ Head(s2c) = s2c[1]
      /\ UNCHANGED server /\ Answered
  BY <1>0, ReceiveFacts
<1>2. /\ s2c[1] = Resumed(Len(handled)) /\ sm_id # 0 /\ ~sm_enabled /\ sm_awaiting
      /\ UNCHANGED <<handled, delivered>>
  <2>1. Enabled(srv_id).type = "enabled"
    BY DEF Enabled, Element
  <2> QED BY <1>1, <2>1 DEF Answered, server
<1>3. sm_last_ack' = Len(handled)
  BY <1>0, <1>1, <1>2 DEF Resumed, Element
<1>4. /\ submitted' \in Nat /\ Replay \in Seq(Nat) /\ Within(delivered, submitted')
      /\ New(Debt \o Replay, delivered, submitted')
  BY <1>0, ReplayNew DEF Outbound
<1>5. /\ log \in Seq(Nat) /\ Len(log) \in Nat /\ Len(handled) \in Nat
      /\ Len(handled) <= Len(log)
  <2>1. Held
    BY <1>2 DEF Held
  <2> QED BY <2>1, OwedTypes DEF Outbound, OutboundOnce
<1>6. Debt = Rest(log, Len(handled))
  BY <1>2 DEF Debt, Unmanaged, Held
<1>7. ~Unmanaged' /\ Held'
  BY <1>0, <1>1 DEF Unmanaged, Held
<1>8. Debt' = Debt \o Replay
  <2>1. Debt' = Rest(log \o Replay, Len(handled))
    BY <1>0, <1>2, <1>7 DEF Debt
  <2> QED BY <2>1, <1>4, <1>5, <1>6, RestConcat
<1>9. Waiting' = <<>>
  BY <1>0 DEF Waiting, Stanzas
<1>10. sm_last_ack' <= Len(handled') /\ Len(handled') <= Len(log')
  <2>1. Len(log') = Len(log) + Len(Replay) /\ Len(Replay) \in Nat
    BY <1>0, <1>4, <1>5, ConcatElements
  <2> QED BY <2>1, <1>2, <1>3, <1>5
<1>11. OutboundOnce'
  BY <1>2, <1>4, <1>8, <1>9, <1>10, NewNothing DEF Outbound, OutboundOnce
<1> QED BY <1>0, <1>7, <1>11 DEF Outbound, Attempts

\* What is not covered by the count of <failed/> waits for the fresh session, behind what
\* waited already.
LEMMA RecvResumeFailedOnce ==
  ASSUME Inductive, Outbound, RecvResumeFailed
  PROVE  Outbound'
<1> DEFINE h == Head(s2c).h
           T == TrimThrough(sm_outqueue, h)
           u == IF h <= sm_h_outbound THEN T ELSE sm_outqueue
<1>0. /\ Receive("failed") /\ sm_resume_attempted /\ link' = link
      /\ sm_resume_attempted' = FALSE /\ sm_enabled' = FALSE /\ sm_id' = 0
      /\ sm_pending_replay' = sm_pending_replay \o u
      /\ sm_awaiting' = TRUE /\ submitted' = submitted
  BY DEF RecvResumeFailed, ResumeRefused
<1>1. /\ sm_awaiting /\ ~sm_enabled /\ ~srv_on /\ Head(s2c) = s2c[1] /\ s2c # <<>>
      /\ delivered' = delivered
  BY <1>0, FailedFacts DEF server, Receive
<1>2. sm_id # 0 /\ h = Len(handled)
  BY <1>0, <1>1 DEF Outbound, Attempts
<1>3. /\ sm_last_ack <= Len(handled) /\ Len(handled) <= Len(log)
      /\ Debt = Rest(log, Len(handled))
  BY <1>1, <1>2 DEF Outbound, OutboundOnce, Held, Debt, Unmanaged
<1>4. /\ log \in Seq(Nat) /\ Len(log) \in Nat /\ Len(handled) \in Nat /\ sm_last_ack \in Nat
      /\ Debt \in Seq(Nat) /\ Waiting \in Seq(Nat) /\ delivered \in Seq(Nat) /\ submitted \in Nat
  BY OwedTypes DEF Outbound
<1>5. /\ sm_outqueue \in Queue /\ sm_pending_replay \in Queue
      /\ sm_h_outbound = Len(log) /\ Outstanding(sm_outqueue, sm_last_ack, log)
  BY DEF Inductive, TypeOK, QueueIsUnacked
<1> HIDE DEF h
<1>6. h \in Nat /\ h <= sm_h_outbound /\ h \in sm_last_ack..Len(log)
  BY <1>2, <1>3, <1>4, <1>5
<1>7. T \in Queue /\ Outstanding(T, h, log)
  BY <1>4, <1>5, <1>6, TrimOutstanding
<1>8. u = T
  BY <1>6
<1> HIDE DEF T, u
<1>9. Stanzas(T) = Debt
  BY <1>2, <1>3, <1>4, <1>7, OutstandingRest
<1>10. Waiting' = Waiting \o Debt
  <2>1. Waiting' = Stanzas(sm_pending_replay \o T)
    BY <1>0, <1>8 DEF Waiting
  <2> QED BY <2>1, <1>5, <1>7, <1>9, StanzasConcat DEF Waiting
<1>11. Debt' = <<>> /\ ~Unmanaged' /\ ~Held'
  BY <1>0 DEF Debt, Unmanaged, Held
<1>12. New(Waiting', delivered, submitted)
  <2>1. Apart(Waiting, Debt)
    BY DEF Outbound, OutboundOnce, Apart
  <2> QED BY <2>1, <1>4, <1>10, NewConcat DEF Outbound, OutboundOnce
<1>13. OutboundOnce'
  BY <1>0, <1>1, <1>11, <1>12, NewNothing DEF Outbound, OutboundOnce
<1> QED BY <1>0, <1>11, <1>13 DEF Outbound, Attempts

LEMMA RecvEnableFailedOnce ==
  ASSUME Inductive, Outbound, RecvEnableFailed
  PROVE  Outbound'
<1> DEFINE es == [i \in 1..Len(Setup) |-> App(0, Setup[i])]
<1>0. /\ Receive("failed") /\ link' = link
      /\ sm_enabled' = FALSE /\ sm_awaiting' = FALSE /\ sm_id' = 0
      /\ sm_pending_replay' = <<>> /\ submitted' = submitted + Len(Setup)
      /\ c2s' = IF link' = "up" THEN c2s \o es ELSE c2s
  BY DEF RecvEnableFailed, WithoutSM, RunSetup, Transmit
<1>1. link = "up" /\ c2s = <<>> /\ delivered' = delivered
  BY <1>0, FailedFacts DEF server
<1>2. /\ submitted' \in Nat /\ Setup \in Seq(Nat) /\ New(Setup, delivered, submitted')
      /\ Within(delivered, submitted')
  BY <1>0, SetupNew DEF Outbound, OutboundOnce
<1>3. /\ es \in Seq(Message) /\ Len(es) = Len(Setup) /\ Len(Setup) \in Nat
      /\ \A i \in 1..Len(Setup) : es[i].stanza = Setup[i]
  <2>1. \A i \in 1..Len(Setup) : Setup[i] \in Nat /\ Len(Setup) \in Nat
    BY <1>2, NumbersFacts
  <2>2. Len(Setup) \in Nat
    BY <1>2, NumbersFacts
  <2>3. \A i \in 1..Len(Setup) : App(0, Setup[i]) \in Message
    BY <2>1, ElementTypes
  <2>4. es \in [1..Len(Setup) -> Message]
    BY <2>3
  <2> QED BY <2>2, <2>4, AppFields, FunctionIsSequence
<1> HIDE DEF es
<1>4. c2s' = es
  BY <1>0, <1>1, <1>3, ConcatEmptySeq
<1>5. Unmanaged' /\ ~Held'
  BY <1>0, <1>1 DEF Unmanaged, Held
<1>6. Debt' = Setup
  <2>1. Debt' = Stanzas(es)
    BY <1>4, <1>5 DEF Debt
  <2>2. /\ Stanzas(es) \in Seq(Nat) /\ Len(Stanzas(es)) = Len(es)
        /\ \A i \in 1..Len(es) : Stanzas(es)[i] = es[i].stanza
    BY <1>3, WireStanzas
  <2>3. Stanzas(es) = Setup
    BY <2>2, <1>2, <1>3, SeqEqual
  <2> QED BY <2>1, <2>3
<1>7. Waiting' = <<>>
  BY <1>0 DEF Waiting, Stanzas
<1>8. OutboundOnce'
  BY <1>1, <1>2, <1>5, <1>6, <1>7, NewNothing DEF Outbound, OutboundOnce
<1> QED BY <1>0, <1>5, <1>8 DEF Outbound, Attempts

LEMMA RecvAckOnce ==
  ASSUME Inductive, Outbound, RecvAck
  PROVE  Outbound'
<1>0. /\ Receive("a") /\ sm_last_ack' = Head(s2c).h
      /\ UNCHANGED <<link, sm_awaiting, sm_enabled, sm_resume_attempted, sm_id,
                     sm_pending_replay, log, c2s, submitted>>
  BY DEF RecvAck, AckThrough, flags
<1>1. UNCHANGED <<srv_on, handled, delivered>> /\ Running
  BY <1>0, ReceiveFacts DEF server
<1>2. /\ sm_last_ack' <= Len(handled) /\ submitted \in Nat
      /\ Len(handled) \in Nat /\ sm_last_ack \in Nat
  BY <1>0, AckFacts, OwedTypes DEF Outbound
<1>3. (Unmanaged' <=> Unmanaged) /\ (Held' <=> Held)
  BY <1>0 DEF Unmanaged, Held
<1>4. Debt' = Debt /\ Waiting' = Waiting
  BY <1>0, <1>1, <1>3 DEF Debt, Waiting
<1>5. Held' => sm_last_ack' <= Len(handled') /\ Len(handled') <= Len(log')
  BY <1>0, <1>1, <1>2, <1>3 DEF Outbound, OutboundOnce
<1>6. OutboundOnce'
  BY <1>0, <1>1, <1>2, <1>4, <1>5, OutboundKept DEF Outbound
<1>7. Attempts'
  BY <1>0, <1>1, AttemptsFrame DEF Outbound, Running
<1> QED BY <1>6, <1>7 DEF Outbound

\* What only reads the stream or writes an element that is no stanza.
LEMMA OutboundSteps ==
  ASSUME Inductive, Outbound,
         \/ AckTimer \/ RecvReq \/ RecvStanza \/ ServeResume \/ ServeAck \/ ServeReq
         \/ Volunteer(Ack(Len(handled))) \/ Volunteer(Req)
         \/ Emit \/ Expire \/ UNCHANGED vars
  PROVE  Outbound'
<1>1. CASE AckTimer
  <2>1. /\ UNCHANGED <<link, client, s2c, server, submitted>> /\ ~Unmanaged
    BY <1>1 DEF AckTimer, Unmanaged
  <2> QED BY <2>1, OutboundFrame, AttemptsFrame DEF Outbound, client, flags, counters, queues, server
<1>2. CASE RecvReq
  <2>1. Receive("r") /\ link' = link /\ UNCHANGED <<client, submitted>>
    BY <1>2 DEF RecvReq
  <2>2. Running /\ UNCHANGED server /\ ~Unmanaged
    BY <2>1, ReceiveFacts DEF Running, Unmanaged
  <2> QED BY <2>1, <2>2, OutboundFrame, AttemptsFrame
          DEF Outbound, client, flags, counters, queues, server, Running
<1>3. CASE RecvStanza
  <2>1. /\ Receive("app")
        /\ UNCHANGED <<link, flags, sm_last_ack, queues, log, c2s, submitted>>
    BY <1>3 DEF RecvStanza
  <2>2. Running /\ UNCHANGED server
    BY <2>1, ReceiveFacts
  <2> QED BY <2>1, <2>2, OutboundFrame, AttemptsFrame
          DEF Outbound, flags, queues, server, Running
<1>4. CASE ServeResume
  <2>1. /\ Serve("resume") /\ srv_on' = TRUE
        /\ UNCHANGED <<handled, delivered>>
    BY <1>4 DEF ServeResume
  <2>2. UNCHANGED <<link, client, submitted>> /\ sm_awaiting
    BY <2>1, AskingFacts
  <2>3. ~Unmanaged
    BY <2>2 DEF Unmanaged
  <2> QED BY <2>1, <2>2, <2>3, OutboundFrame, AttemptsFrame
          DEF Outbound, client, flags, counters, queues
<1>5. CASE ServeAck \/ ServeReq
  <2>1. /\ Serve("a") \/ Serve("r")
        /\ UNCHANGED <<srv_on, handled, delivered>>
    BY <1>5 DEF ServeAck, ServeReq, server
  <2>2. Running /\ UNCHANGED <<link, client, submitted>>
    BY <2>1, ServeFacts
  <2>3. ~Unmanaged
    BY <2>2 DEF Unmanaged, Running
  <2> QED BY <2>1, <2>2, <2>3, OutboundFrame, AttemptsFrame
          DEF Outbound, client, flags, counters, queues, Running
<1>6. CASE Volunteer(Ack(Len(handled))) \/ Volunteer(Req)
  <2>1. srv_on /\ UNCHANGED <<link, client, c2s, server, submitted>>
    BY <1>6 DEF Volunteer
  <2> QED BY <2>1, OutboundFrame, AttemptsFrame DEF Outbound, client, flags, counters, queues, server
<1>7. CASE Emit
  <2>1. /\ s2c' = IF srv_on THEN Append(s2c, App(Len(srv_log'), emitted + 1)) ELSE s2c
        /\ UNCHANGED <<link, client, c2s, srv_on, handled, delivered, submitted>>
    BY <1>7 DEF Emit
  <2> QED BY <2>1, OutboundFrame, AttemptsFrame DEF Outbound, client, flags, counters, queues
<1>8. CASE Expire
  <2>1. UNCHANGED <<link, client, c2s, s2c, srv_on, handled, delivered, submitted>>
    BY <1>8 DEF Expire
  <2> QED BY <2>1, OutboundFrame, AttemptsFrame DEF Outbound, client, flags, counters, queues
<1>9. CASE UNCHANGED vars
  BY <1>9, OutboundFrame, AttemptsFrame
     DEF Outbound, vars, client, flags, counters, queues, server
<1> QED BY <1>1, <1>2, <1>3, <1>4, <1>5, <1>6, <1>7, <1>8, <1>9

-----------------------------------------------------------------------------
(* Connection events.                                                      *)

LEMMA ConnectOnce ==
  ASSUME Inductive, Outbound, Connect
  PROVE  Outbound'
<1>1. /\ link = "off" /\ link' = "connecting"
      /\ UNCHANGED <<client, c2s, s2c, server, submitted>>
  BY DEF Connect
<1>2. ~Unmanaged /\ ~Unmanaged' /\ (Held' <=> Held)
  BY <1>1 DEF Unmanaged, Held, client, flags
<1>3. Debt' = Debt /\ Waiting' = Waiting /\ submitted \in Nat
  BY <1>1, <1>2, OwedTypes DEF Debt, Waiting, client, queues, server, Outbound
<1>4. OutboundOnce'
  <2>1. Held' => sm_last_ack' <= Len(handled') /\ Len(handled') <= Len(log')
    BY <1>1, <1>2 DEF Outbound, OutboundOnce, client, counters, server
  <2> QED BY <2>1, <1>1, <1>3, OutboundKept DEF Outbound, server
<1> QED BY <1>1, <1>2, <1>4 DEF Outbound, Attempts, client, flags, server

LEMMA ConnectEventOnce ==
  ASSUME Inductive, Outbound, NEW advertised \in BOOLEAN, ConnectEvent(advertised)
  PROVE  Outbound'
<1>1. /\ link = "connecting" /\ link' = "up" /\ s2c = <<>> /\ ~sm_awaiting
      /\ UNCHANGED <<s2c, srv_on, handled, delivered>>
  <2>1. link = "connecting" /\ link' = "up" /\ UNCHANGED <<s2c, server>>
    BY DEF ConnectEvent
  <2>2. Silent
    BY <2>1, PhaseFacts
  <2> QED BY <2>1, <2>2 DEF Silent, server
<1>2. /\ delivered \in Seq(Nat) /\ submitted \in Nat /\ Within(delivered, submitted)
  BY OwedTypes DEF Outbound, OutboundOnce
<1>3. CASE advertised
  <2>1. /\ sm_awaiting' = TRUE /\ sm_resume_attempted' = (sm_id # 0)
        /\ UNCHANGED <<sm_id, sm_last_ack, sm_pending_replay, log, submitted>>
    BY <1>3 DEF ConnectEvent, counters, queues
  <2>2. ~Unmanaged /\ ~Unmanaged' /\ (Held' => Held)
    BY <1>1, <1>3, <2>1 DEF Unmanaged, Held, ConnectEvent
  <2>3. Debt' \in {Debt, <<>>} /\ Waiting' = Waiting
    BY <1>1, <2>1, <2>2 DEF Debt, Waiting
  <2>4. OutboundOnce'
    <3>1. Held' => sm_last_ack' <= Len(handled') /\ Len(handled') <= Len(log')
      BY <1>1, <2>1, <2>2 DEF Outbound, OutboundOnce
    <3> QED BY <3>1, <1>1, <1>2, <2>1, <2>3, OutboundKept DEF Outbound
  <2> QED BY <1>1, <2>1, <2>2, <2>4 DEF Outbound, Attempts
<1>4. CASE ~advertised
  <2>1. /\ sm_enabled' = FALSE /\ sm_id' = 0 /\ sm_pending_replay' = <<>>
        /\ sm_awaiting' = FALSE /\ submitted' = submitted + 1
        /\ c2s' = <<App(0, submitted + 1)>>
    BY <1>4 DEF ConnectEvent, ClearSession
  <2>2. Unmanaged' /\ ~Held' /\ Waiting' = <<>>
    BY <1>1, <2>1 DEF Unmanaged, Held, Waiting, Stanzas
  <2>3. Debt' = <<submitted + 1>>
    <3>1. Len(<<App(0, submitted + 1)>>) = 1 /\ <<App(0, submitted + 1)>>[1].stanza = submitted + 1
      BY AppFields
    <3> QED BY <3>1, <2>1, <2>2 DEF Debt, Stanzas
  <2>4. New(Debt', delivered', submitted') /\ Within(delivered', submitted')
    BY <1>1, <1>2, <2>1, <2>3, NextIsNew, WithinMore
  <2>5. OutboundOnce'
    BY <1>1, <2>2, <2>4, NewNothing DEF Outbound, OutboundOnce
  <2> QED BY <2>1, <2>2, <2>5 DEF Outbound, Attempts
<1> QED BY <1>3, <1>4

LEMMA CutOnce ==
  ASSUME Inductive, Outbound, LinkLost \/ Conflict \/ Quit
  PROVE  Outbound'
<1>1. /\ link' = "off" /\ sm_awaiting' = FALSE /\ sm_pending_replay' = <<>>
      /\ UNCHANGED <<handled, delivered, submitted>>
      /\ \/ sm_id' = 0
         \/ UNCHANGED <<sm_id, sm_enabled, sm_last_ack, log>>
  BY DEF LinkLost, Conflict, Quit, Cut, ClearSession, counters
<1>2. ~Unmanaged' /\ Waiting' = <<>> /\ submitted \in Nat
  BY <1>1, OwedTypes DEF Unmanaged, Waiting, Stanzas, Outbound
<1>3. Held' => Held /\ ~Unmanaged /\ UNCHANGED <<sm_last_ack, log>>
  BY <1>1 DEF Held, Outbound, Attempts
<1>4. Debt' \in {Debt, <<>>}
  BY <1>1, <1>2, <1>3 DEF Debt
<1>5. Held' => sm_last_ack' <= Len(handled') /\ Len(handled') <= Len(log')
  BY <1>1, <1>3 DEF Outbound, OutboundOnce
<1>6. OutboundOnce'
  BY <1>1, <1>2, <1>4, <1>5, OutboundKept DEF Outbound
<1> QED BY <1>1, <1>2, <1>6 DEF Outbound, Attempts

-----------------------------------------------------------------------------
(* The server.                                                             *)

LEMMA ServeEnableOnce ==
  ASSUME Inductive, Outbound, NEW reply \in Replies, ServeEnable(reply)
  PROVE  Outbound'
<1>1. Serve("enable") /\ UNCHANGED delivered
  BY DEF ServeEnable
<1>2. /\ sm_awaiting /\ ~sm_enabled /\ sm_id = 0
      /\ UNCHANGED <<link, client, submitted>>
  BY <1>1, AskingFacts
<1>3. /\ UNCHANGED <<sm_awaiting, sm_enabled, sm_resume_attempted, sm_id, sm_pending_replay>>
      /\ ~Unmanaged /\ ~Unmanaged' /\ ~Held /\ ~Held'
  BY <1>2 DEF client, flags, queues, Unmanaged, Held
<1>4. Debt' = Debt /\ Waiting' = Waiting /\ submitted \in Nat
  BY <1>3, OwedTypes DEF Debt, Waiting, Outbound
<1>5. OutboundOnce'
  BY <1>1, <1>2, <1>3, <1>4, OutboundKept DEF Outbound
<1> QED BY <1>2, <1>3, <1>5 DEF Outbound, Attempts

\* The refusal reports how far the session came.
LEMMA RefuseResumeOnce ==
  ASSUME Inductive, Outbound, RefuseResume(Len(handled))
  PROVE  Outbound'
<1>1. /\ Serve("resume") /\ UNCHANGED <<handled, delivered>>
      /\ s2c' = Append(s2c, Failed(Len(handled)))
  BY DEF RefuseResume, server
<1>2. /\ sm_awaiting /\ s2c = <<>> /\ UNCHANGED <<link, client, submitted>>
  BY <1>1, AskingFacts
<1>3. /\ ~Unmanaged
      /\ UNCHANGED <<sm_awaiting, sm_enabled, sm_resume_attempted, sm_id, sm_pending_replay,
                     sm_last_ack, log>>
  BY <1>2 DEF Unmanaged, client, flags, queues, counters
<1>4. OutboundOnce'
  BY <1>1, <1>2, <1>3, OutboundFrame DEF Outbound
<1>5. s2c'[1].h = Len(handled)
  BY <1>1, <1>2 DEF Failed, Element
<1> QED BY <1>1, <1>2, <1>3, <1>4, <1>5 DEF Outbound, Attempts, Unmanaged

\* The first stanza of what is owed is delivered.
LEMMA ServeAppOnce ==
  ASSUME Inductive, Outbound, ServeApp
  PROVE  Outbound'
<1> DEFINE x == Head(c2s).stanza
<1>1. /\ Serve("app") /\ delivered' = Append(delivered, x)
      /\ handled' = IF srv_on THEN Append(handled, x) ELSE handled
      /\ UNCHANGED <<s2c, srv_on>>
  BY DEF ServeApp
<1>2. /\ link = "up" /\ c2s \in Seq(Message) /\ c2s # <<>> /\ Head(c2s) = c2s[1]
      /\ c2s[1].type = "app" /\ c2s[1].stanza \in Nat /\ c2s' = Tail(c2s)
      /\ Running \/ Plain
      /\ UNCHANGED <<link, client, submitted>>
  BY <1>1, ServeFacts
<1>3. /\ UNCHANGED <<sm_awaiting, sm_enabled, sm_resume_attempted, sm_id, sm_pending_replay,
                     sm_last_ack, log>>
      /\ ~sm_awaiting
  BY <1>2 DEF client, flags, queues, counters, Running, Plain
<1>4. /\ Debt \in Seq(Nat) /\ delivered \in Seq(Nat) /\ submitted \in Nat
      /\ log \in Seq(Nat) /\ handled \in Seq(Nat)
      /\ Len(log) \in Nat /\ Len(handled) \in Nat /\ sm_last_ack \in Nat
  BY OwedTypes DEF Outbound
<1>5. Waiting' = <<>>
  <2>1. Waiting = <<>>
    BY <1>3, NothingWaiting
  <2> QED BY <2>1, <1>3 DEF Waiting
<1>6. /\ Debt # <<>> /\ Debt[1] = x
      /\ Debt' \in Seq(Nat) /\ Len(Debt') = Len(Debt) - 1
      /\ \A k \in 1..Len(Debt') : Debt'[k] = Debt[k + 1]
      /\ Held' => sm_last_ack' <= Len(handled') /\ Len(handled') <= Len(log')
  <2>1. CASE Running
    <3> DEFINE n == Len(handled)
    <3>1. ~Unmanaged /\ ~Unmanaged' /\ Held /\ Held'
      BY <2>1, <1>2, <1>3 DEF Running, Unmanaged, Held
    <3>2. handled' = Append(handled, x) /\ Len(handled') = n + 1
      <4>1. handled' = Append(handled, x) /\ x \in Nat
        BY <2>1, <1>1, <1>2 DEF Running
      <4> QED BY <4>1, <1>4, AppendProperties
    <3>3. x = log[n + 1] /\ n + 1 <= Len(log)
      BY <2>1, <1>2, <1>4, CarriesFirst DEF Running, IsApp
    <3>4. Debt = Rest(log, n) /\ Debt' = Rest(log, n + 1)
      BY <3>1, <3>2, <1>3 DEF Debt
    <3>5. sm_last_ack <= n
      BY <3>1 DEF Outbound, OutboundOnce
    <3> HIDE DEF n, x
    <3>6. n \in Nat /\ n + 1 \in Nat /\ n <= Len(log)
      BY <3>3, <1>4 DEF n
    <3>7. /\ Len(Debt) = Len(log) - n
          /\ \A k \in 1..(Len(log) - n) : Debt[k] = log[n + k]
      BY <3>3, <3>4, <3>6, <1>4, RestFacts
    <3>8. /\ Debt' \in Seq(Nat) /\ Len(Debt') = Len(log) - (n + 1)
          /\ \A k \in 1..(Len(log) - (n + 1)) : Debt'[k] = log[(n + 1) + k]
      BY <3>3, <3>4, <3>6, <1>4, RestFacts
    <3>9. Debt # <<>> /\ Debt[1] = log[n + 1]
      <4>1. 1 \in 1..(Len(log) - n) /\ Len(Debt) # 0
        BY <3>3, <3>6, <3>7, <1>4
      <4> QED BY <4>1, <3>7
    <3>10. \A k \in 1..Len(Debt') : Debt'[k] = Debt[k + 1]
      <4>1. \A k \in 1..(Len(log) - (n + 1)) : k + 1 \in 1..(Len(log) - n) /\ (n + 1) + k = n + (k + 1)
        BY <3>3, <3>6, <1>4
      <4> QED BY <4>1, <3>7, <3>8
    <3>11. Len(Debt') = Len(Debt) - 1
      BY <3>7, <3>8, <3>6, <1>4
    <3>12. sm_last_ack' <= Len(handled') /\ Len(handled') <= Len(log')
      BY <3>2, <3>3, <3>5, <3>6, <1>3, <1>4
    <3> QED BY <3>3, <3>8, <3>9, <3>10, <3>11, <3>12
  <2>2. CASE Plain
    <3>1. Unmanaged /\ Unmanaged' /\ ~Held' /\ handled' = handled
      BY <2>2, <1>1, <1>2, <1>3 DEF Plain, Unmanaged, Held, Outbound, Attempts
    <3>2. Debt = Stanzas(c2s) /\ Debt' = Stanzas(Tail(c2s))
      BY <3>1, <1>2 DEF Debt
    <3>3. /\ Len(Debt) = Len(c2s) /\ \A i \in 1..Len(c2s) : Debt[i] = c2s[i].stanza
      BY <3>2, <1>2, WireStanzas
    <3>4. /\ Tail(c2s) \in Seq(Message) /\ Len(Tail(c2s)) = Len(c2s) - 1
          /\ Len(c2s) \in Nat \ {0}
          /\ \A i \in 1..(Len(c2s) - 1) : Tail(c2s)[i] = c2s[i + 1] /\ i + 1 \in 2..Len(c2s)
      BY <1>2, WireTail
    <3>5. /\ Debt' \in Seq(Nat) /\ Len(Debt') = Len(c2s) - 1
          /\ \A i \in 1..(Len(c2s) - 1) : Debt'[i] = c2s[i + 1].stanza /\ i + 1 \in 1..Len(c2s)
      <4>1. \A i \in 2..Len(c2s) : i \in 1..Len(c2s)
        BY <3>4
      <4> QED BY <4>1, <3>2, <3>4, WireStanzas
    <3>6. Debt # <<>> /\ Debt[1] = x
      <4>1. 1 \in 1..Len(c2s)
        BY <3>4
      <4> QED BY <4>1, <3>3, <3>4, <1>2
    <3> QED BY <3>1, <3>3, <3>5, <3>6
  <2> QED BY <2>1, <2>2, <1>2
<1> HIDE DEF x
<1>7. OutboundOnce'
  <2>1. /\ New(Debt, delivered, submitted) /\ Distinct(delivered) /\ Within(delivered, submitted)
    BY DEF Outbound, OutboundOnce
  <2>2. /\ Distinct(delivered') /\ Within(delivered', submitted') /\ New(Debt', delivered', submitted')
    BY <1>1, <1>2, <1>4, <1>6, <2>1, NewDelivered
  <2> QED BY <2>2, <1>5, <1>6, NewNothing DEF OutboundOnce
<1>8. Attempts'
  BY <1>1, <1>2, <1>3, AttemptsFrame DEF Outbound
<1> QED BY <1>7, <1>8 DEF Outbound

\* Every step keeps what the client may yet bring apart from what the server handled.
LEMMA NextOutbound ==
  ASSUME Honest, Recalls, Inductive, Outbound, [Next]_vars
  PROVE  Outbound'
<1>1. CASE Send
  <2>1. Defer(submitted + 1) \/ SendCounted(submitted + 1) \/ SendUncounted(submitted + 1)
    BY <1>1 DEF Send
  <2> QED BY <1>1, <2>1, DeferOnce, SendCountedOnce, SendUncountedOnce
<1>2. CASE ClientReceive
  BY <1>2, RecvEnabledOnce, RecvResumedOnce, RecvResumeFailedOnce, RecvEnableFailedOnce,
     RecvAckOnce, RecvAckTooHighStep, OutboundSteps DEF ClientReceive
<1>3. CASE ConnectionEvent
  <2>1. Advertises \subseteq BOOLEAN
    BY SMConstants
  <2> QED BY <1>3, <2>1, ConnectOnce, ConnectEventOnce, CutOnce DEF ConnectionEvent
<1>4. CASE ServeStream
  BY <1>4, ServeEnableOnce, RefuseResumeOnce, ServeAppOnce, OutboundSteps
     DEF ServeStream, Recalls
<1>5. CASE ServerStep
  BY <1>4, <1>5, OutboundSteps DEF ServerStep, Honest
<1>6. CASE AckTimer \/ UNCHANGED vars
  BY <1>6, OutboundSteps
<1> QED BY <1>1, <1>2, <1>3, <1>5, <1>6 DEF Next

-----------------------------------------------------------------------------
(* What is on its way to the client.                                       *)

LEMMA CarriesNone ==
  ASSUME NEW c \in Seq(Message), NEW n \in Nat, NEW l \in Seq(Nat),
         Len(l) <= n, \A i \in 1..Len(c) : ~IsApp(c[i])
  PROVE  Carries(c, n, l)
<1>1. ~(n < Len(l))
  BY NumbersFacts
<1> QED BY <1>1 DEF Carries

\* The answer to <resume/> comes before the stanzas of the session.
LEMMA CarriesAfter ==
  ASSUME NEW c \in Seq(Message), NEW n \in Nat, NEW l \in Seq(Nat), NEW e \in Message,
         Carries(c, n, l), ~IsApp(e)
  PROVE  Carries(<<e>> \o c, n, l)
<1> DEFINE d == <<e>> \o c
<1>1. Len(c) \in Nat /\ <<e>> \in Seq(Message) /\ Len(<<e>>) = 1 /\ <<e>>[1] = e
  BY WireFacts
<1>2. /\ Len(d) = 1 + Len(c)
      /\ \A i \in 1..(1 + Len(c)) : d[i] = IF i <= 1 THEN <<e>>[i] ELSE c[i - 1]
  BY <1>1, ConcatProperties
<1>3. \A i \in 1..Len(c) : i + 1 \in 1..(1 + Len(c)) /\ ~(i + 1 <= 1) /\ (i + 1) - 1 = i
  BY <1>1
<1>4. \A i \in 1..Len(c) : i + 1 \in 1..Len(d) /\ d[i + 1] = c[i]
  BY <1>2, <1>3
<1>5. \A i \in 1..(1 + Len(c)) : i = 1 \/ (i - 1 \in 1..Len(c) /\ ~(i <= 1))
  BY <1>1
<1>6. \A i \in 1..Len(d) : IsApp(d[i]) => i - 1 \in 1..Len(c) /\ d[i] = c[i - 1]
  <2>1. 1 \in 1..(1 + Len(c)) /\ d[1] = e
    BY <1>1, <1>2
  <2> QED BY <2>1, <1>2, <1>5
<1> HIDE DEF d
<1>7. ASSUME NEW i \in 1..Len(d), IsApp(d[i])
      PROVE  /\ d[i].h \in (n + 1)..Len(l)
             /\ d[i].stanza = l[d[i].h]
             /\ d[i].h > n + 1 => \E j \in 1..(i - 1) : IsApp(d[j]) /\ d[j].h = d[i].h - 1
  <2>1. i - 1 \in 1..Len(c) /\ d[i] = c[i - 1]
    BY <1>6, <1>7
  <2>2. d[i].h \in (n + 1)..Len(l) /\ d[i].stanza = l[d[i].h]
    BY <2>1, <1>7 DEF Carries
  <2>3. ASSUME d[i].h > n + 1
        PROVE  \E j \in 1..(i - 1) : IsApp(d[j]) /\ d[j].h = d[i].h - 1
    <3>1. PICK j \in 1..((i - 1) - 1) : IsApp(c[j]) /\ c[j].h = d[i].h - 1
      BY <2>1, <2>3, <1>7 DEF Carries
    <3>2. j \in 1..Len(c) /\ j + 1 \in 1..(i - 1)
      BY <3>1, <2>1, <1>1
    <3> QED BY <3>1, <3>2, <1>4
  <2> QED BY <2>2, <2>3
<1>8. ASSUME NEW i \in 1..Len(d), NEW j \in 1..Len(d), i < j, IsApp(d[i]), IsApp(d[j])
      PROVE  d[i].h < d[j].h
  <2>1. /\ i - 1 \in 1..Len(c) /\ d[i] = c[i - 1]
        /\ j - 1 \in 1..Len(c) /\ d[j] = c[j - 1]
    BY <1>6, <1>8
  <2>2. i - 1 < j - 1
    BY <1>8
  <2> QED BY <2>1, <2>2, <1>8 DEF Carries
<1>9. n < Len(l) => \E i \in 1..Len(d) : IsApp(d[i]) /\ d[i].h = Len(l)
  BY <1>4 DEF Carries
<1>10. Carries(d, n, l)
  BY <1>7, <1>8, <1>9 DEF Carries
<1> QED BY <1>10 DEF d

\* What the server sends when it resumes a session: everything past number n.
LEMMA ResumeCarries ==
  ASSUME NEW l \in Seq(Nat), NEW n \in Nat, n <= Len(l), NEW e \in Message, ~IsApp(e)
  PROVE  Carries(<<e>> \o AppElements(Counted(n, SubSeq(l, n + 1, Len(l)))), n, l)
<1> DEFINE xs == SubSeq(l, n + 1, Len(l))
           q  == Counted(n, xs)
<1>1. Len(l) \in Nat /\ n + 1 \in Nat /\ xs \in Seq(Nat)
  BY NumbersFacts, SuffixType
<1>2. /\ Len(xs) = Len(l) - n
      /\ \A i \in 1..(Len(l) - n) : xs[i] = l[n + i]
  <2>1. \A i \in (n + 1)..Len(l) : l[i] \in Nat
    BY <1>1, NumbersFacts
  <2>2. /\ Len(xs) = IF n + 1 <= Len(l) THEN Len(l) - (n + 1) + 1 ELSE 0
        /\ \A i \in 1..(Len(l) - (n + 1) + 1) : xs[i] = l[(n + 1) + i - 1]
    BY <1>1, <2>1, SubSeqProperties
  <2>3. Len(l) - (n + 1) + 1 = Len(l) - n /\ \A i \in Nat : (n + 1) + i - 1 = n + i
    BY <1>1
  <2>4. Len(xs) = Len(l) - n
    BY <1>1, <2>2
  <2>5. \A i \in 1..(Len(l) - n) : i \in Nat
    BY <1>1
  <2> QED BY <2>2, <2>3, <2>4, <2>5
<1>3. /\ q \in Queue /\ Len(q) = Len(xs)
      /\ \A i \in 1..Len(xs) : q[i] = Entry(n + i, xs[i])
  BY <1>1, CountedType
<1> HIDE DEF xs, q
<1>4. Outstanding(q, n, l)
  BY <1>2, <1>3 DEF Outstanding
<1>5. Carries(AppElements(q), n, l) /\ AppElements(q) \in Seq(Message)
  BY <1>3, <1>4, CarriesQueue, AppElementsType
<1>6. Carries(<<e>> \o AppElements(q), n, l)
  BY <1>5, CarriesAfter
<1> QED BY <1>6 DEF q, xs

LEMMA AcksAppend ==
  ASSUME NEW c \in Seq(Message), NEW e \in Message, NEW n \in Nat,
         AcksWithin(c, n), e.type = "a" => e.h <= n
  PROVE  AcksWithin(Append(c, e), n)
<1>1. /\ Len(Append(c, e)) = Len(c) + 1 /\ Append(c, e)[Len(c) + 1] = e
      /\ \A i \in 1..Len(c) : Append(c, e)[i] = c[i]
      /\ \A i \in 1..(Len(c) + 1) : i \in 1..Len(c) \/ i = Len(c) + 1
  BY WireAppend
<1> QED BY <1>1 DEF AcksWithin

LEMMA AcksTail ==
  ASSUME NEW c \in Seq(Message), c # <<>>, NEW n \in Nat, AcksWithin(c, n)
  PROVE  AcksWithin(Tail(c), n) /\ (c[1].type = "a" => c[1].h <= n)
<1>1. /\ Len(Tail(c)) = Len(c) - 1 /\ Len(c) \in Nat \ {0}
      /\ \A i \in 1..(Len(c) - 1) : Tail(c)[i] = c[i + 1] /\ i + 1 \in 2..Len(c)
  BY WireTail
<1>2. 1 \in 1..Len(c) /\ \A i \in 2..Len(c) : i \in 1..Len(c)
  BY <1>1
<1> QED BY <1>1, <1>2 DEF AcksWithin

LEMMA AcksApps ==
  ASSUME NEW q \in Queue, NEW n
  PROVE  AcksWithin(AppElements(q), n)
BY AppElementsType, AppFields DEF AcksWithin

\* A client that counts and a server that counts speak of one session.
LEMMA SessionFacts ==
  ASSUME Inductive
  PROVE  /\ link = "up" /\ sm_enabled => SameSession
         /\ sm_awaiting /\ srv_on /\ sm_id # 0 => SameSession
         /\ srv_log \in Seq(Nat) /\ Len(srv_log) \in Nat /\ received \in Seq(Nat)
         /\ Len(received) \in Nat /\ emitted \in Nat
         /\ sm_h_inbound \in Nat /\ srv_acked \in Nat
<1>1. link = "up" /\ sm_enabled => SameSession
  BY PhaseFacts DEF Running, SameSession
<1>2. sm_awaiting /\ srv_on /\ sm_id # 0 => SameSession
  BY PhaseFacts DEF Answered, Asking, SameSession
<1>3. /\ srv_log \in Seq(Nat) /\ received \in Seq(Nat) /\ emitted \in Nat
      /\ sm_h_inbound \in Nat /\ srv_acked \in Nat
  BY DEF Inductive, TypeOK
<1> QED BY <1>1, <1>2, <1>3, NumbersFacts

-----------------------------------------------------------------------------
(* What the client receives: frames.                                       *)

\* The session goes on, or there is none.
LEMMA SessionGoesOn ==
  ASSUME InboundInOrder, UNCHANGED <<srv_log, emitted, received, sm_h_inbound>>,
         SameSession' => SameSession /\ srv_acked' <= sm_h_inbound
  PROVE  InboundInOrder'
BY DEF InboundInOrder, Ahead

LEMMA SessionEnds ==
  ASSUME InboundInOrder, UNCHANGED <<emitted, received>>, srv_log' \in {srv_log, <<>>},
         ~SameSession'
  PROVE  InboundInOrder'
<1>1. Increasing(srv_log') /\ Within(srv_log', emitted)
  BY DEF InboundInOrder, Increasing, Within
<1> QED BY <1>1 DEF InboundInOrder

\* Steps that leave the negotiation and the inbound stanzas alone.
LEMMA WireGoesOn ==
  ASSUME Inductive, Inbound,
         UNCHANGED <<link, sm_awaiting, sm_enabled, sm_id, sm_h_inbound, srv_on, srv_id, srv_log,
                     srv_acked, emitted, received>>,
         \A n \in Nat : Carries(s2c, n, srv_log) => Carries(s2c', n, srv_log),
         \A n \in Nat : sm_enabled /\ AcksWithin(c2s, n) => AcksWithin(c2s', n)
  PROVE  Inbound'
<1>1. InboundInOrder'
  <2>1. SameSession' => SameSession /\ srv_acked' <= sm_h_inbound
    BY DEF SameSession, Inbound, InboundInOrder
  <2> QED BY <2>1, SessionGoesOn DEF Inbound
<1>2. sm_h_inbound \in Nat /\ 0 \in Nat
  BY SessionFacts
<1>3. InboundOnItsWay'
  <2>1. link = "up" /\ sm_enabled =>
          Carries(s2c', sm_h_inbound, srv_log) /\ AcksWithin(c2s', sm_h_inbound)
    BY <1>2 DEF Inbound, InboundOnItsWay
  <2>2. sm_awaiting /\ srv_on /\ sm_id = 0 =>
          Carries(s2c', 0, srv_log) /\ Ahead(0) /\ srv_acked = 0
    BY <1>2 DEF Inbound, InboundOnItsWay
  <2>3. sm_awaiting /\ srv_on /\ sm_id # 0 => Carries(s2c', sm_h_inbound, srv_log)
    BY <1>2 DEF Inbound, InboundOnItsWay
  <2>4. Ahead(0)' <=> Ahead(0)
    BY DEF Ahead
  <2> QED BY <2>1, <2>2, <2>3, <2>4 DEF InboundOnItsWay
<1> QED BY <1>1, <1>3 DEF Inbound

\* Steps that end a stream or leave it without a session.
LEMMA WireEnds ==
  ASSUME Inbound, UNCHANGED <<emitted, received, srv_log>>,
         ~(link' = "up" /\ sm_enabled'), ~(sm_awaiting' /\ srv_on'),
         \/ ~SameSession'
         \/ SameSession /\ UNCHANGED <<sm_h_inbound, srv_acked>>
  PROVE  Inbound'
<1>1. InboundInOrder'
  <2>1. CASE ~SameSession'
    BY <2>1, SessionEnds DEF Inbound
  <2>2. CASE SameSession /\ UNCHANGED <<sm_h_inbound, srv_acked>>
    <3>1. srv_acked' <= sm_h_inbound
      BY <2>2 DEF Inbound, InboundInOrder
    <3> QED BY <2>2, <3>1, SessionGoesOn DEF Inbound
  <2> QED BY <2>1, <2>2
<1>2. InboundOnItsWay'
  BY DEF InboundOnItsWay
<1> QED BY <1>1, <1>2 DEF Inbound

-----------------------------------------------------------------------------
(* What the client receives: the steps.                                    *)

LEMMA SendInbound ==
  ASSUME Inductive, Inbound, Send
  PROVE  Inbound'
<1>0. /\ submitted \in Nat /\ c2s \in Seq(Message) /\ link' = link
      /\ UNCHANGED <<flags, s2c, server, received, sm_h_inbound>>
      /\ Defer(submitted + 1) \/ SendCounted(submitted + 1) \/ SendUncounted(submitted + 1)
  BY DEF Send, Inductive, TypeOK, Defer, SendCounted, SendUncounted, counters
<1>1. ASSUME NEW n \in Nat, sm_enabled, AcksWithin(c2s, n)
      PROVE  AcksWithin(c2s', n)
  <2>1. CASE Defer(submitted + 1)
    BY <1>1, <2>1 DEF Defer
  <2>2. CASE SendCounted(submitted + 1)
    <3> DEFINE e == App(sm_h_outbound + 1, submitted + 1)
    <3>1. e \in Message /\ e.type # "a"
      <4>1. sm_h_outbound + 1 \in Nat
        BY DEF Inductive, TypeOK
      <4> QED BY <4>1, <1>0, ElementTypes, AppFields
    <3>2. c2s' = c2s \o <<e>> \/ c2s' = c2s
      BY <2>2 DEF SendCounted, Transmit
    <3> HIDE DEF e
    <3> QED BY <3>1, <3>2, <1>0, <1>1, AcksAppend, AppendIsConcat
  <2>3. CASE SendUncounted(submitted + 1)
    BY <1>1, <2>3 DEF SendUncounted
  <2> QED BY <1>0, <2>1, <2>2, <2>3
<1> QED BY <1>0, <1>1, WireGoesOn DEF flags, server

\* Elements that are no stanzas come and go.
LEMMA OthersInbound ==
  ASSUME Inductive, Inbound,
         AckTimer \/ RecvAck \/ RecvReq \/ ServeApp \/ ServeReq
           \/ Volunteer(Ack(Len(handled))) \/ Volunteer(Req) \/ UNCHANGED vars
  PROVE  Inbound'
<1>0. /\ c2s \in Seq(Message) /\ s2c \in Seq(Message) /\ Len(handled) \in Nat
      /\ srv_log \in Seq(Nat) /\ sm_h_inbound \in Nat
  BY NumbersFacts DEF Inductive, TypeOK
<1>1. /\ Req \in Message /\ ~IsApp(Req) /\ Req.type # "a"
      /\ \A n \in Nat : Ack(n) \in Message /\ ~IsApp(Ack(n)) /\ Ack(n).h = n
  BY <1>0, ElementTypes, ElementFields DEF IsApp
<1>2. CASE AckTimer
  <2>1. UNCHANGED <<link, client, s2c, server, received>> /\ c2s' = Append(c2s, Req)
    BY <1>2 DEF AckTimer
  <2>2. \A n \in Nat : AcksWithin(c2s, n) => AcksWithin(c2s', n)
    BY <2>1, <1>0, <1>1, AcksAppend
  <2> QED BY <2>1, <2>2, WireGoesOn DEF client, flags, counters, server
<1>3. CASE RecvAck
  <2>1. Receive("a") /\ UNCHANGED <<link, flags, sm_h_inbound, c2s, received>>
    BY <1>3 DEF RecvAck, AckThrough
  <2>2. s2c # <<>> /\ ~IsApp(s2c[1]) /\ s2c' = Tail(s2c) /\ UNCHANGED server
    BY <2>1, ReceiveFacts DEF IsApp
  <2>3. \A n \in Nat : Carries(s2c, n, srv_log) => Carries(s2c', n, srv_log)
    BY <2>2, <1>0, CarriesTailOther
  <2> QED BY <2>1, <2>2, <2>3, WireGoesOn DEF flags, server
<1>4. CASE RecvReq
  <2>1. /\ Receive("r") /\ link' = link /\ UNCHANGED <<client, received>>
        /\ c2s' = IF link' = "up" THEN c2s \o <<Ack(sm_h_inbound)>> ELSE c2s
    BY <1>4 DEF RecvReq, Transmit
  <2>2. /\ s2c # <<>> /\ ~IsApp(s2c[1]) /\ s2c' = Tail(s2c) /\ UNCHANGED server
        /\ Running /\ link = "up"
    BY <2>1, ReceiveFacts DEF IsApp
  <2>3. Carries(s2c, sm_h_inbound, srv_log) /\ AcksWithin(c2s, sm_h_inbound)
    BY <2>2 DEF Running, Inbound, InboundOnItsWay
  <2>4. Carries(s2c', sm_h_inbound, srv_log)
    BY <2>2, <2>3, <1>0, CarriesTailOther
  <2>5. AcksWithin(c2s', sm_h_inbound)
    <3>1. c2s' = Append(c2s, Ack(sm_h_inbound))
      BY <2>1, <2>2, <1>0, <1>1, AppendIsConcat
    <3>2. Ack(sm_h_inbound).h <= sm_h_inbound
      BY <1>0, <1>1
    <3> QED BY <3>1, <3>2, <2>3, <1>0, <1>1, AcksAppend
  <2>6. InboundInOrder'
    <3>1. SameSession' => SameSession /\ srv_acked' <= sm_h_inbound
      BY <2>1, <2>2 DEF SameSession, Inbound, InboundInOrder, client, flags, server
    <3> QED BY <2>1, <2>2, <3>1, SessionGoesOn DEF Inbound, client, flags, counters, server
  <2> QED BY <2>1, <2>2, <2>4, <2>5, <2>6
          DEF Inbound, InboundOnItsWay, Running, client, flags, counters, server
<1>5. CASE ServeApp
  <2>1. /\ Serve("app") /\ UNCHANGED <<s2c, srv_on, srv_id, srv_log, srv_acked, emitted>>
    BY <1>5 DEF ServeApp
  <2>2. c2s # <<>> /\ c2s' = Tail(c2s) /\ UNCHANGED <<link, client, received>>
    BY <2>1, ServeFacts
  <2>3. \A n \in Nat : AcksWithin(c2s, n) => AcksWithin(c2s', n)
    BY <2>2, <1>0, AcksTail
  <2> QED BY <2>1, <2>2, <2>3, WireGoesOn DEF client, flags, counters
<1>6. CASE ServeReq
  <2>1. /\ Serve("r") /\ UNCHANGED server
        /\ s2c' = IF srv_on THEN Append(s2c, Ack(Len(handled))) ELSE s2c
    BY <1>6 DEF ServeReq
  <2>2. c2s # <<>> /\ c2s' = Tail(c2s) /\ UNCHANGED <<link, client, received>>
    BY <2>1, ServeFacts
  <2>3. \A n \in Nat : AcksWithin(c2s, n) => AcksWithin(c2s', n)
    BY <2>2, <1>0, AcksTail
  <2>4. \A n \in Nat : Carries(s2c, n, srv_log) => Carries(s2c', n, srv_log)
    BY <2>1, <1>0, <1>1, CarriesOther
  <2> QED BY <2>1, <2>2, <2>3, <2>4, WireGoesOn DEF client, flags, counters, server
<1>7. CASE Volunteer(Ack(Len(handled))) \/ Volunteer(Req)
  <2>1. PICK e \in {Ack(Len(handled)), Req} :
          s2c' = Append(s2c, e) /\ UNCHANGED <<link, client, c2s, server, received>>
    BY <1>7 DEF Volunteer
  <2>2. \A n \in Nat : Carries(s2c, n, srv_log) => Carries(s2c', n, srv_log)
    BY <2>1, <1>0, <1>1, CarriesOther
  <2> QED BY <2>1, <2>2, WireGoesOn DEF client, flags, counters, server
<1>8. CASE UNCHANGED vars
  BY <1>8, WireGoesOn DEF vars, client, flags, counters, server
<1> QED BY <1>2, <1>3, <1>4, <1>5, <1>6, <1>7, <1>8

\* A fresh session counts from the first stanza that follows <enabled/>.
LEMMA RecvEnabledInbound ==
  ASSUME Inductive, Inbound, RecvEnabled
  PROVE  Inbound'
<1>0. /\ Receive("enabled") /\ link' = link /\ sm_enabled' = TRUE /\ sm_awaiting' = FALSE
      /\ UNCHANGED received /\ sm_h_inbound' = 0
      /\ c2s' = IF link' = "up" THEN c2s \o AppElements(Counted(0, Replay)) ELSE c2s
  BY DEF RecvEnabled, NewSession, Negotiated, Transmit
<1>1. /\ link = "up" /\ s2c \in Seq(Message) /\ s2c # <<>> /\ s2c[1].type = "enabled"
      /\ s2c' = Tail(s2c) /\ UNCHANGED server /\ Answered
  BY <1>0, ReceiveFacts
<1>2. srv_on /\ sm_awaiting /\ sm_id = 0 /\ c2s = <<>>
  <2>1. Resumed(Len(handled)).type = "resumed"
    BY ElementFields
  <2> QED BY <1>1, <2>1 DEF Answered
<1>3. Carries(s2c, 0, srv_log) /\ Ahead(0) /\ srv_acked = 0
  BY <1>2 DEF Inbound, InboundOnItsWay
<1>4. srv_log \in Seq(Nat) /\ Len(srv_log) \in Nat
  BY SessionFacts
<1>5. Carries(s2c', 0, srv_log)
  BY <1>1, <1>3, <1>4, CarriesTailOther DEF IsApp
<1>6. AcksWithin(c2s', 0)
  <2>1. Counted(0, Replay) \in Queue
    BY ReplayType, CountedType DEF Inductive
  <2>2. AppElements(Counted(0, Replay)) \in Seq(Message)
    BY <2>1, AppElementsType
  <2>3. c2s' = AppElements(Counted(0, Replay))
    BY <2>2, <1>0, <1>1, <1>2, ConcatEmptySeq
  <2> QED BY <2>1, <2>3, AcksApps
<1>7. InboundInOrder'
  <2>1. Ahead(0)'
    BY <1>0, <1>1, <1>3 DEF Ahead, server
  <2>2. \A k \in 1..0 : FALSE
    OBVIOUS
  <2> QED BY <1>0, <1>1, <1>3, <1>4, <2>1, <2>2 DEF Inbound, InboundInOrder, server
<1> QED BY <1>0, <1>1, <1>5, <1>6, <1>7 DEF Inbound, InboundOnItsWay, server

LEMMA RecvResumedInbound ==
  ASSUME Inductive, Inbound, RecvResumed
  PROVE  Inbound'
<1>0. /\ Receive("resumed") /\ link' = link /\ sm_enabled' = TRUE /\ sm_awaiting' = FALSE
      /\ UNCHANGED <<received, sm_id, sm_h_inbound>>
      /\ c2s' = IF link' = "up" THEN c2s \o AppElements(sm_outqueue') ELSE c2s
  BY DEF RecvResumed, Resumption, Negotiated, Transmit
<1>1. /\ link = "up" /\ s2c \in Seq(Message) /\ s2c # <<>> /\ s2c[1].type = "resumed"
      /\ s2c' = Tail(s2c) /\ UNCHANGED server /\ Answered
  BY <1>0, ReceiveFacts
<1>2. srv_on /\ sm_awaiting /\ sm_id # 0 /\ c2s = <<>>
  <2>1. Enabled(srv_id).type = "enabled"
    BY ElementFields
  <2> QED BY <1>1, <2>1 DEF Answered
<1>3. Carries(s2c, sm_h_inbound, srv_log) /\ SameSession
  BY <1>2, SessionFacts DEF Inbound, InboundOnItsWay
<1>4. srv_log \in Seq(Nat) /\ sm_h_inbound \in Nat
  BY SessionFacts
<1>5. Carries(s2c', sm_h_inbound, srv_log)
  BY <1>1, <1>3, <1>4, CarriesTailOther DEF IsApp
<1>6. AcksWithin(c2s', sm_h_inbound)
  <2>1. sm_outqueue' \in Queue
    BY RecvResumedStep DEF Inductive, TypeOK
  <2>2. AppElements(sm_outqueue') \in Seq(Message)
    BY <2>1, AppElementsType
  <2>3. c2s' = AppElements(sm_outqueue')
    BY <2>2, <1>0, <1>1, <1>2, ConcatEmptySeq
  <2> QED BY <2>1, <2>3, AcksApps
<1>7. InboundInOrder'
  <2>1. srv_acked' <= sm_h_inbound
    BY <1>1, <1>3 DEF Inbound, InboundInOrder, server
  <2> QED BY <2>1, <1>0, <1>1, <1>3, SessionGoesOn DEF Inbound, server
<1> QED BY <1>0, <1>1, <1>5, <1>6, <1>7 DEF Inbound, InboundOnItsWay, server

\* The next stanza of the session is counted and processed.
LEMMA RecvStanzaInbound ==
  ASSUME Inductive, Inbound, RecvStanza
  PROVE  Inbound'
<1> DEFINE n == sm_h_inbound
           x == Head(s2c).stanza
<1>0. /\ Receive("app")
      /\ sm_h_inbound' = IF sm_enabled THEN sm_h_inbound + 1 ELSE sm_h_inbound
      /\ received' = Append(received, x) /\ UNCHANGED <<link, flags, c2s>>
  BY DEF RecvStanza
<1>1. /\ link = "up" /\ s2c \in Seq(Message) /\ s2c # <<>> /\ Head(s2c) = s2c[1]
      /\ s2c[1].type = "app" /\ s2c' = Tail(s2c) /\ UNCHANGED server /\ Running
  BY <1>0, ReceiveFacts
<1>2. /\ srv_log \in Seq(Nat) /\ Len(srv_log) \in Nat /\ received \in Seq(Nat)
      /\ Len(received) \in Nat /\ n \in Nat /\ srv_acked \in Nat /\ SameSession
  BY <1>1, SessionFacts DEF Running
<1>3. Carries(s2c, n, srv_log) /\ AcksWithin(c2s, n)
  BY <1>1 DEF Inbound, InboundOnItsWay, Running
<1>4. x = srv_log[n + 1] /\ n + 1 <= Len(srv_log) /\ Carries(s2c', n + 1, srv_log)
  BY <1>1, <1>2, <1>3, CarriesFirst, CarriesTailApp DEF IsApp
<1>5. AcksWithin(c2s', n + 1)
  <2>1. c2s' = c2s /\ \A i \in 1..Len(c2s) : c2s[i].h \in Nat
    BY <1>0, WireFacts DEF Inductive, TypeOK
  <2>2. \A h \in Nat : h <= n => h <= n + 1
    BY <1>2
  <2> QED BY <2>1, <2>2, <1>3 DEF AcksWithin
<1>6. sm_h_inbound' = n + 1
  BY <1>0, <1>1 DEF Running
<1>7. n + 1 \in (n + 1)..Len(srv_log) /\ n + 1 \in 1..Len(srv_log) /\ x \in Nat
  BY <1>2, <1>4, NumbersFacts
<1>8. /\ Increasing(srv_log) /\ Within(srv_log, emitted) /\ Increasing(received)
      /\ Within(received, emitted) /\ srv_acked <= n /\ Ahead(n)
      /\ \A k \in 1..n : Among(srv_log[k], received)
  BY <1>2 DEF Inbound, InboundInOrder
<1> HIDE DEF n, x
<1>9. /\ Len(received') = Len(received) + 1 /\ received'[Len(received) + 1] = x
      /\ \A i \in 1..Len(received) : received'[i] = received[i]
      /\ \A i \in 1..(Len(received) + 1) : i \in 1..Len(received) \/ i = Len(received) + 1
      /\ \A i \in 1..Len(received) : i \in 1..(Len(received) + 1)
      /\ Len(received) + 1 \in 1..(Len(received) + 1)
  BY <1>0, <1>2, <1>7, AppendProperties
<1>10. \A i \in 1..Len(received) : received[i] < x
  BY <1>4, <1>7, <1>8 DEF Ahead
<1>11. Increasing(received')
  <2>1. ASSUME NEW i \in 1..Len(received'), NEW j \in 1..Len(received'), i < j
        PROVE  received'[i] < received'[j]
    <3>1. i \in 1..Len(received) /\ (j \in 1..Len(received) \/ j = Len(received) + 1)
      BY <2>1, <1>2, <1>9
    <3> QED BY <3>1, <2>1, <1>8, <1>9, <1>10 DEF Increasing
  <2> QED BY <2>1 DEF Increasing
<1>12. Within(received', emitted)
  BY <1>4, <1>7, <1>8, <1>9 DEF Within
<1>13. \A k \in 1..(n + 1) : Among(srv_log[k], received')
  <2>1. \A k \in 1..n : Among(srv_log[k], received')
    BY <1>8, <1>9 DEF Among
  <2>2. Among(srv_log[n + 1], received')
    BY <1>4, <1>9 DEF Among
  <2> QED BY <2>1, <2>2, <1>2, OneMore DEF n
<1>14. \A k \in ((n + 1) + 1)..Len(srv_log), i \in 1..Len(received') : received'[i] < srv_log[k]
  <2>1. ASSUME NEW k \in ((n + 1) + 1)..Len(srv_log), NEW i \in 1..Len(received')
        PROVE  received'[i] < srv_log[k]
    <3>1. /\ k \in (n + 1)..Len(srv_log) /\ k \in 1..Len(srv_log) /\ n + 1 < k
      BY <1>2, <1>7 DEF n
    <3>2. srv_log[n + 1] < srv_log[k]
      BY <3>1, <1>7, <1>8 DEF Increasing
    <3>3. \A j \in 1..Len(received) : received[j] < srv_log[k]
      BY <3>1, <1>8 DEF Ahead
    <3> QED BY <3>2, <3>3, <1>4, <1>9
  <2> QED BY <2>1
<1>15. srv_acked' <= n + 1 /\ n + 1 <= Len(srv_log)
  BY <1>1, <1>2, <1>4, <1>8 DEF server, n
<1>16. InboundInOrder'
  BY <1>1, <1>6, <1>8, <1>11, <1>12, <1>13, <1>14, <1>15 DEF InboundInOrder, Ahead, server
<1> QED BY <1>0, <1>1, <1>4, <1>5, <1>6, <1>16
        DEF Inbound, InboundOnItsWay, Running, flags, server

\* The server's next stanza is newer than everything the client received.
LEMMA EmitInbound ==
  ASSUME Inductive, Inbound, Emit
  PROVE  Inbound'
<1> DEFINE x == emitted + 1
           m == Len(srv_log)
           n == sm_h_inbound
<1>0. /\ emitted' = x /\ srv_log' = Append(srv_log, x)
      /\ s2c' = IF srv_on THEN Append(s2c, App(Len(srv_log'), x)) ELSE s2c
      /\ UNCHANGED <<link, client, c2s, srv_on, srv_id, srv_acked, received>>
  BY DEF Emit
<1>1. /\ srv_log \in Seq(Nat) /\ m \in Nat /\ received \in Seq(Nat) /\ emitted \in Nat
      /\ x \in Nat /\ n \in Nat /\ Len(received) \in Nat /\ srv_acked \in Nat
      /\ s2c \in Seq(Message)
  <2>1. s2c \in Seq(Message)
    BY DEF Inductive, TypeOK
  <2> QED BY <2>1, SessionFacts
<1>2. UNCHANGED <<sm_awaiting, sm_enabled, sm_id, sm_h_inbound>> /\ (SameSession' <=> SameSession)
  BY <1>0 DEF client, flags, counters, SameSession
<1>3. /\ Len(srv_log') = m + 1 /\ srv_log'[m + 1] = x
      /\ \A k \in 1..m : srv_log'[k] = srv_log[k]
      /\ \A k \in 1..(m + 1) : k \in 1..m \/ k = m + 1
  BY <1>0, <1>1, AppendProperties, OneMore
<1>4. /\ Increasing(srv_log) /\ Within(srv_log, emitted)
      /\ Increasing(received) /\ Within(received, emitted)
  BY DEF Inbound, InboundInOrder
<1>5. /\ \A k \in 1..m : srv_log[k] \in 1..x /\ srv_log[k] < x
      /\ \A i \in 1..Len(received) : received[i] \in 1..x /\ received[i] < x
      /\ x \in 1..x
  <2>1. \A y \in 1..emitted : y \in 1..x /\ y < x
    BY <1>1
  <2> QED BY <2>1, <1>1, <1>4 DEF Within
<1>6. /\ Increasing(srv_log') /\ Within(srv_log', x) /\ Within(received, x)
  <2>1. ASSUME NEW i \in 1..Len(srv_log'), NEW j \in 1..Len(srv_log'), i < j
        PROVE  srv_log'[i] < srv_log'[j]
    <3>1. i \in 1..m /\ (j \in 1..m \/ j = m + 1)
      BY <2>1, <1>1, <1>3
    <3> QED BY <3>1, <2>1, <1>3, <1>4, <1>5 DEF Increasing
  <2>2. Increasing(srv_log')
    BY <2>1 DEF Increasing
  <2> QED BY <2>2, <1>3, <1>5 DEF Within
<1>7. ASSUME NEW k \in Nat, k <= m, Ahead(k)
      PROVE  \A j \in (k + 1)..Len(srv_log'), i \in 1..Len(received) : received[i] < srv_log'[j]
  <2>1. ASSUME NEW j \in (k + 1)..Len(srv_log'), NEW i \in 1..Len(received)
        PROVE  received[i] < srv_log'[j]
    <3>1. j \in (k + 1)..m \/ j = m + 1
      BY <1>1, <1>3
    <3>2. j \in (k + 1)..m => j \in 1..m
      BY <1>1
    <3> QED BY <3>1, <3>2, <1>3, <1>5, <1>7 DEF Ahead
  <2> QED BY <2>1
<1>8. SameSession => n <= m
  BY DEF Inbound, InboundInOrder
<1> HIDE DEF x, m, n
<1>9. InboundInOrder'
  <2>1. ASSUME SameSession
        PROVE  /\ srv_acked <= n /\ n <= m + 1
               /\ \A k \in 1..n : Among(srv_log'[k], received)
               /\ \A j \in (n + 1)..Len(srv_log'), i \in 1..Len(received) :
                    received[i] < srv_log'[j]
    <3>1. /\ srv_acked <= n /\ n <= m /\ Ahead(n)
          /\ \A k \in 1..n : Among(srv_log[k], received)
      BY <2>1 DEF Inbound, InboundInOrder, n, m
    <3>2. \A k \in 1..n : k \in 1..m
      BY <3>1, <1>1
    <3> QED BY <3>1, <3>2, <1>1, <1>3, <1>7
  <2> QED BY <1>0, <1>2, <1>3, <1>4, <1>6, <2>1 DEF InboundInOrder, Ahead, n
<1>10. ASSUME NEW k \in Nat, k <= m, Carries(s2c, k, srv_log), srv_on
       PROVE  Carries(s2c', k, srv_log')
  <2>1. s2c' = Append(s2c, App(Len(srv_log) + 1, x))
    BY <1>0, <1>3, <1>10 DEF m
  <2> QED BY <2>1, <1>0, <1>1, <1>10, CarriesSend DEF m
<1>11. InboundOnItsWay'
  <2>1. ASSUME link = "up", sm_enabled
        PROVE  Carries(s2c', n, srv_log') /\ AcksWithin(c2s', n)
    <3>1. SameSession /\ srv_on
      BY <2>1, PhaseFacts, SessionFacts DEF Running
    <3>2. Carries(s2c, n, srv_log) /\ AcksWithin(c2s, n)
      BY <2>1 DEF Inbound, InboundOnItsWay, n
    <3> QED BY <3>1, <3>2, <1>0, <1>1, <1>8, <1>10
  <2>2. ASSUME sm_awaiting, srv_on, sm_id = 0
        PROVE  /\ Carries(s2c', 0, srv_log') /\ srv_acked = 0
               /\ \A j \in (0 + 1)..Len(srv_log'), i \in 1..Len(received) :
                    received[i] < srv_log'[j]
    <3>1. Carries(s2c, 0, srv_log) /\ Ahead(0) /\ srv_acked = 0 /\ 0 <= m
      BY <2>2, <1>1 DEF Inbound, InboundOnItsWay
    <3> QED BY <3>1, <2>2, <1>7, <1>10
  <2>3. ASSUME sm_awaiting, srv_on, sm_id # 0
        PROVE  Carries(s2c', n, srv_log')
    <3>1. SameSession
      BY <2>3, SessionFacts
    <3>2. Carries(s2c, n, srv_log)
      BY <2>3 DEF Inbound, InboundOnItsWay, n
    <3> QED BY <3>1, <3>2, <2>3, <1>1, <1>8, <1>10
  <2> QED BY <2>1, <2>2, <2>3, <1>0, <1>2 DEF InboundOnItsWay, Ahead, n
<1> QED BY <1>9, <1>11 DEF Inbound

LEMMA ServeEnableInbound ==
  ASSUME Inductive, Inbound, NEW reply \in Replies, ServeEnable(reply)
  PROVE  Inbound'
<1> DEFINE e == IF reply = "failed" THEN Failed(0) ELSE Enabled(srv_id')
<1>0. /\ Serve("enable") /\ s2c' = Append(s2c, e)
      /\ srv_log' = <<>> /\ srv_acked' = 0 /\ UNCHANGED emitted
  BY DEF ServeEnable
<1>1. /\ sm_awaiting /\ ~sm_enabled /\ sm_id = 0 /\ s2c = <<>>
      /\ UNCHANGED <<link, client, received>>
  BY <1>0, AskingFacts
<1>2. UNCHANGED <<sm_awaiting, sm_enabled, sm_id>> /\ ~SameSession'
  BY <1>1 DEF client, flags, SameSession
<1>3. InboundInOrder'
  BY <1>0, <1>1, <1>2, SessionEnds DEF Inbound
<1>4. Carries(s2c', 0, <<>>)
  <2>1. ~IsApp(e)
    BY ElementFields DEF IsApp
  <2> HIDE DEF e
  <2>2. s2c' = <<e>> /\ s2c' \in Seq(Message)
    BY <1>0, <1>1, ServeEnableStep DEF Inductive, TypeOK
  <2>3. \A i \in 1..Len(s2c') : s2c'[i] = e
    BY <2>2
  <2>4. Len(<<>>) <= 0 /\ <<>> \in Seq(Nat)
    BY EmptyQueue
  <2> QED BY <2>1, <2>2, <2>3, <2>4, CarriesNone
<1>5. Ahead(0)'
  <2>1. \A k \in (0 + 1)..Len(<<>>) : FALSE
    OBVIOUS
  <2> QED BY <2>1, <1>0 DEF Ahead
<1>6. InboundOnItsWay'
  BY <1>0, <1>1, <1>2, <1>4, <1>5 DEF InboundOnItsWay
<1> QED BY <1>3, <1>6 DEF Inbound

LEMMA ServeResumeInbound ==
  ASSUME Inductive, Inbound, ServeResume
  PROVE  Inbound'
<1>0. /\ Serve("resume") /\ Head(c2s).id = srv_id /\ srv_on' = TRUE
      /\ srv_acked' = Head(c2s).h
      /\ s2c' = s2c \o <<Resumed(Len(handled))>> \o InboundApps(Head(c2s).h)
      /\ UNCHANGED <<srv_id, srv_log, emitted>>
  BY DEF ServeResume
<1>1. /\ sm_awaiting /\ ~sm_enabled /\ sm_id # 0 /\ s2c = <<>>
      /\ Head(c2s) = Resume(sm_h_inbound, sm_id)
      /\ UNCHANGED <<link, client, received>>
  BY <1>0, AskingFacts
<1>2. Head(c2s).h = sm_h_inbound /\ sm_id = srv_id /\ SameSession
  BY <1>0, <1>1 DEF Resume, Element, SameSession
<1>3. UNCHANGED <<sm_awaiting, sm_enabled, sm_id, sm_h_inbound>>
  BY <1>1 DEF client, flags, counters
<1>4. /\ srv_log \in Seq(Nat) /\ sm_h_inbound \in Nat /\ sm_h_inbound <= Len(srv_log)
  BY <1>2, SessionFacts DEF Inbound, InboundInOrder
<1>5. InboundInOrder'
  <2>1. srv_acked' <= sm_h_inbound
    BY <1>0, <1>2, <1>4
  <2> QED BY <2>1, <1>0, <1>1, <1>2, <1>3, SessionGoesOn DEF Inbound
<1>6. Carries(s2c', sm_h_inbound, srv_log)
  <2> DEFINE e == Resumed(Len(handled))
  <2>1. e \in Message /\ ~IsApp(e)
    <3>1. Len(handled) \in Nat
      BY NumbersFacts DEF Inductive, TypeOK
    <3> QED BY <3>1, ElementTypes, ElementFields DEF IsApp
  <2> HIDE DEF e
  <2>2. s2c \o <<e>> = <<e>>
    BY <2>1, <1>1, ConcatEmptySeq
  <2>3. s2c' = <<e>> \o AppElements(Counted(sm_h_inbound,
                          SubSeq(srv_log, sm_h_inbound + 1, Len(srv_log))))
    BY <1>0, <1>2, <2>2 DEF InboundApps, e
  <2> QED BY <2>1, <2>3, <1>4, ResumeCarries
<1>7. InboundOnItsWay'
  BY <1>0, <1>1, <1>3, <1>6 DEF InboundOnItsWay
<1> QED BY <1>5, <1>7 DEF Inbound

LEMMA ServeAckInbound ==
  ASSUME Inductive, Inbound, ServeAck
  PROVE  Inbound'
<1>0. /\ Serve("a") /\ srv_acked' = IF srv_on THEN Head(c2s).h ELSE srv_acked
      /\ UNCHANGED <<s2c, srv_on, srv_id, srv_log, emitted>>
  BY DEF ServeAck
<1>1. /\ c2s \in Seq(Message) /\ c2s # <<>> /\ Head(c2s) = c2s[1] /\ c2s[1].type = "a"
      /\ c2s' = Tail(c2s) /\ Running /\ link = "up"
      /\ UNCHANGED <<link, client, received>>
  BY <1>0, ServeFacts
<1>2. UNCHANGED <<sm_awaiting, sm_enabled, sm_id, sm_h_inbound>> /\ SameSession
  BY <1>1, SessionFacts DEF client, flags, counters, Running
<1>3. Carries(s2c, sm_h_inbound, srv_log) /\ AcksWithin(c2s, sm_h_inbound)
  BY <1>1 DEF Inbound, InboundOnItsWay, Running
<1>4. sm_h_inbound \in Nat
  BY SessionFacts
<1>5. AcksWithin(c2s', sm_h_inbound) /\ c2s[1].h <= sm_h_inbound
  BY <1>1, <1>3, <1>4, AcksTail
<1>6. srv_acked' <= sm_h_inbound
  BY <1>0, <1>1, <1>5 DEF Running
<1>7. InboundInOrder'
  BY <1>0, <1>1, <1>2, <1>6, SessionGoesOn DEF Inbound
<1> QED BY <1>0, <1>1, <1>2, <1>3, <1>5, <1>7 DEF Inbound, InboundOnItsWay, Running

\* A refused negotiation, the end of a stream and the begin of the next.
LEMMA EndsInbound ==
  ASSUME Inductive, Inbound,
         \/ RecvResumeFailed \/ RecvEnableFailed \/ RefuseResume(Len(handled))
         \/ Connect \/ \E advertised \in BOOLEAN : ConnectEvent(advertised)
         \/ LinkLost \/ Conflict \/ Quit \/ Expire
  PROVE  Inbound'
<1>1. CASE RecvResumeFailed \/ RecvEnableFailed
  <2>1. /\ Receive("failed") /\ link' = link /\ sm_enabled' = FALSE /\ sm_id' = 0
        /\ UNCHANGED received
    BY <1>1 DEF RecvResumeFailed, ResumeRefused, RecvEnableFailed, WithoutSM
  <2>2. ~srv_on /\ UNCHANGED server
    BY <2>1, FailedFacts
  <2> QED BY <2>1, <2>2, WireEnds DEF server, SameSession
<1>2. CASE RefuseResume(Len(handled))
  <2>1. Serve("resume") /\ UNCHANGED server
    BY <1>2 DEF RefuseResume
  <2>2. /\ sm_awaiting /\ ~sm_enabled /\ ~srv_on /\ UNCHANGED <<link, client, received>>
    BY <2>1, AskingFacts
  <2>3. SameSession' => SameSession
    BY <2>1, <2>2 DEF SameSession, client, flags, server
  <2> QED BY <2>1, <2>2, <2>3, WireEnds DEF server, client, flags, counters
<1>3. CASE Connect
  <2>1. /\ link = "off" /\ link' = "connecting" /\ UNCHANGED <<client, server, received>>
    BY <1>3 DEF Connect
  <2>2. ~sm_awaiting
    BY <2>1, PhaseFacts DEF Silent
  <2>3. SameSession' => SameSession
    BY <2>1 DEF SameSession, client, flags, server
  <2> QED BY <2>1, <2>2, <2>3, WireEnds DEF server, client, flags, counters
<1>4. CASE \E advertised \in BOOLEAN : ConnectEvent(advertised)
  <2>1. PICK advertised \in BOOLEAN : ConnectEvent(advertised)
    BY <1>4
  <2>2. /\ link = "connecting" /\ sm_enabled' = FALSE /\ UNCHANGED <<server, received>>
        /\ \/ UNCHANGED <<sm_id, sm_h_inbound>>
           \/ sm_id' = 0
    BY <2>1 DEF ConnectEvent, ClearSession, counters
  <2>3. ~srv_on
    BY <2>2, PhaseFacts DEF Silent
  <2>4. SameSession' => SameSession /\ UNCHANGED sm_h_inbound
    BY <2>2 DEF SameSession, server
  <2> QED BY <2>2, <2>3, <2>4, WireEnds DEF server
<1>5. CASE LinkLost \/ Conflict \/ Quit
  <2>1. /\ link' = "off" /\ sm_awaiting' = FALSE
        /\ UNCHANGED <<srv_id, srv_log, srv_acked, emitted, received>>
        /\ \/ UNCHANGED <<sm_id, sm_h_inbound>>
           \/ sm_id' = 0
    BY <1>5 DEF LinkLost, Conflict, Quit, Cut, ClearSession, counters
  <2>2. SameSession' => SameSession /\ UNCHANGED sm_h_inbound
    BY <2>1 DEF SameSession
  <2> QED BY <2>1, <2>2, WireEnds
<1>6. CASE Expire
  <2>1. /\ ~srv_on /\ srv_id' = 0
        /\ UNCHANGED <<link, client, srv_on, srv_log, srv_acked, emitted, received>>
    BY <1>6 DEF Expire
  <2>2. ~(link = "up" /\ sm_enabled)
    BY <2>1, PhaseFacts DEF Running
  <2> QED BY <2>1, <2>2, WireEnds DEF SameSession, client, flags
<1> QED BY <1>1, <1>2, <1>3, <1>4, <1>5, <1>6

LEMMA NextInbound ==
  ASSUME Honest, Recalls, Inductive, Inbound, [Next]_vars
  PROVE  Inbound'
<1>1. CASE ClientReceive
  BY <1>1, RecvEnabledInbound, RecvResumedInbound, RecvStanzaInbound, RecvAckTooHighStep,
     OthersInbound, EndsInbound DEF ClientReceive
<1>2. CASE ConnectionEvent
  <2>1. Advertises \subseteq BOOLEAN
    BY SMConstants
  <2> QED BY <1>2, <2>1, EndsInbound DEF ConnectionEvent
<1>3. CASE ServeStream
  BY <1>3, ServeEnableInbound, ServeResumeInbound, ServeAckInbound, OthersInbound, EndsInbound
     DEF ServeStream, Recalls
<1>4. CASE ServerStep
  BY <1>3, <1>4, OthersInbound, EmitInbound, EndsInbound DEF ServerStep, Honest
<1>5. CASE Send \/ AckTimer \/ UNCHANGED vars
  BY <1>5, SendInbound, OthersInbound
<1> QED BY <1>1, <1>2, <1>4, <1>5 DEF Next

-----------------------------------------------------------------------------
(* The theorem.                                                            *)

LEMMA InitOnce == Init => NothingTwice
<1> SUFFICES ASSUME Init PROVE NothingTwice
  OBVIOUS
<1>1. Debt = <<>> /\ Waiting = <<>> /\ ~Held
  BY DEF Init, Debt, Waiting, Unmanaged, Held, Stanzas
<1>2. Outbound
  BY <1>1, NewNothing
     DEF Init, Outbound, OutboundOnce, Attempts, Unmanaged, Distinct, Within
<1>3. Inbound
  <2>1. Increasing(<<>>) /\ Within(<<>>, 0)
    BY DEF Increasing, Within
  <2> QED BY <2>1 DEF Init, Inbound, InboundInOrder, InboundOnItsWay, SameSession
<1> QED BY <1>2, <1>3 DEF NothingTwice

\* The chain of numbers is what the property says of it.
LEMMA OnceFollows ==
  ASSUME Inductive, NothingTwice
  PROVE  HandledOnce
<1>1. DeliveredOnce
  BY DEF NothingTwice, Outbound, OutboundOnce, Distinct, DeliveredOnce
<1>2. InboundOnce
  BY DEF NothingTwice, Inbound, InboundInOrder, Increasing, Among, InboundOnce
<1> QED BY <1>1, <1>2 DEF HandledOnce

\* In either direction a stanza is handled once, for every number of stanzas and
\* connections, whatever the server answers to <enable/> and however often it forgets a
\* session: sm_handler retransmits exactly what <resumed h/> does not cover, replays into
\* the fresh session exactly what <failed h/> does not cover, and the h it reports
\* itself makes the server resend exactly what was not processed.
THEOREM OnceTheorem == ASSUME Honest, Recalls PROVE Spec => []HandledOnce
<1>1. Init => Inductive /\ NothingTwice
  BY InitInductive, InitOnce
<1>2. Inductive /\ NothingTwice /\ [Next]_vars => Inductive' /\ NothingTwice'
  BY NextInductive, NextOutbound, NextInbound DEF NothingTwice
<1>3. Inductive /\ NothingTwice => HandledOnce
  BY OnceFollows
<1> QED BY <1>1, <1>2, <1>3, PTL DEF Spec

=============================================================================
