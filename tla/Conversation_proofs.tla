------------------------- MODULE Conversation_proofs -------------------------
(***************************************************************************)
(* What stands in a room's buffer, what the user sends and what is told of *)
(* typing: the invariants of MCConversation for every number of occupants, *)
(* texts and visits.                                                       *)
(***************************************************************************)
EXTENDS MCConversation, TLAPS, SequenceTheorems, FiniteSetTheorems

-----------------------------------------------------------------------------
(* The room: what its lines show, what is under way and what was read.     *)

Speaking == Others \union {"self", "room"}

Saying == [by : Speaking, kind : {"text", "reply", "fix", "retract", "moderate", "react"},
           about : Nat, as : {"m", "s"}]

LineType == [of : Nat, id : {"m", "s", "none"}, origin : BOOLEAN, sid : BOOLEAN,
             occupant : BOOLEAN, text : Nat, reacts : SUBSET Speaking]

Passing == [n : Nat, live : BOOLEAN]

\* l is the line of a message of s, with nothing in it that its author or the room did not say
TrueLine(l, s) ==
  /\ l.of \in 1..Len(s)
  /\ l.text = 0 <=> l.id = "none"
  /\ (l.text # 0 /\ s[l.of].kind = "text") => l.sid
  /\ IF l.text = 0
     THEN \E n \in 1..Len(s) : /\ s[n].about = l.of
            /\ \/ s[n].kind = "retract" /\ s[n].by = s[l.of].by
               \/ s[n].kind = "moderate" /\ s[n].by = "room"
     ELSE \/ l.text = l.of
          \/ /\ l.text \in 1..Len(s)
             /\ s[l.text].kind = "fix" /\ s[l.text].about = l.of
             /\ s[l.text].by = s[l.of].by

\* no message but the user's replies is shown by two lines
OnceEach(ls, s) ==
  \A i, j \in DOMAIN ls :
    (i # j /\ ls[i].of = ls[j].of) =>
      ls[i].text = 0 \/ ls[j].text = 0 \/ s[ls[i].of].kind = "reply"

TrueLines(ls, s) ==
  /\ ls \in Seq(LineType)
  /\ \A i \in DOMAIN ls : TrueLine(ls[i], s)
  /\ OnceEach(ls, s)

StreamIsOfRoom ==
  /\ page \in Nat \X Nat /\ page[2] <= Len(said)
  /\ stream \in Seq(Passing)
  /\ \A i \in 1..Len(stream) : stream[i].n \in 1..Len(said)

LiveInOrder ==
  /\ newest \in Nat /\ mds \in Nat /\ got \in Nat /\ got <= Len(said)
  /\ \A i \in 1..Len(stream) : stream[i].live => stream[i].n > got
  /\ \A i, j \in 1..Len(stream) :
       i < j /\ stream[i].live /\ stream[j].live => stream[i].n < stream[j].n

ReadInOrder ==
  /\ mds <= got /\ newest <= got
  /\ newest # 0 => mds <= newest

RoomInv ==
  /\ said \in Seq(Saying)
  /\ StreamIsOfRoom /\ LiveInOrder /\ ReadInOrder
  /\ TrueLines(lines, said)

-----------------------------------------------------------------------------
(* The lines of a buffer.                                                  *)

\* A line changed is changed where it stands.
LEMMA ChangeFacts ==
  ASSUME NEW ls \in Seq(LineType), NEW is, NEW f \in [DOMAIN ls -> LineType]
  PROVE  f \in Seq(LineType) /\ DOMAIN f = DOMAIN ls
<1>1. DOMAIN ls = 1..Len(ls) /\ Len(ls) \in Nat
  BY LenProperties
<1>2. f \in [1..Len(ls) -> LineType]
  BY <1>1
<1> QED BY <1>1, <1>2, SeqDef

\* What is said is added to what was said.
LEMMA SaidGrows ==
  ASSUME NEW s \in Seq(Saying), NEW e \in Saying
  PROVE  /\ Append(s, e) \in Seq(Saying) /\ Len(s) \in Nat
         /\ Len(Append(s, e)) = Len(s) + 1
         /\ \A i \in 1..Len(s) : i \in 1..(Len(s) + 1) /\ Append(s, e)[i] = s[i]
         /\ Append(s, e)[Len(s) + 1] = e /\ Len(s) + 1 \in 1..(Len(s) + 1)
<1>1. Len(s) \in Nat
  BY LenProperties
<1>2. /\ Append(s, e) \in Seq(Saying) /\ Len(Append(s, e)) = Len(s) + 1
      /\ \A i \in 1..Len(s) : Append(s, e)[i] = s[i]
      /\ Append(s, e)[Len(s) + 1] = e
  BY AppendProperties
<1> QED BY <1>1, <1>2

\* A true line stays true whatever is said after it.
LEMMA TrueStays ==
  ASSUME NEW s \in Seq(Saying), NEW e \in Saying, NEW ls, TrueLines(ls, s)
  PROVE  TrueLines(ls, Append(s, e))
<1> DEFINE t == Append(s, e)
<1>1. /\ Len(t) = Len(s) + 1 /\ Len(s) \in Nat
      /\ \A i \in 1..Len(s) : i \in 1..Len(t) /\ t[i] = s[i]
  BY SaidGrows
<1> HIDE DEF t
<1>2. ASSUME NEW i \in DOMAIN ls PROVE TrueLine(ls[i], t)
  <2>1. TrueLine(ls[i], s)
    BY DEF TrueLines
  <2> QED BY <1>1, <2>1 DEF TrueLine
<1>3. OnceEach(ls, t)
  <2>1. \A i \in DOMAIN ls : ls[i].of \in 1..Len(s)
    BY DEF TrueLines, TrueLine
  <2> QED BY <1>1, <2>1 DEF TrueLines, OnceEach
<1>4. ls \in Seq(LineType)
  BY DEF TrueLines
<1> QED BY <1>2, <1>3, <1>4 DEF TrueLines, t

\* A line added shows a message that no other line shows.
LEMMA AppendIsTrue ==
  ASSUME NEW ls, NEW s, TrueLines(ls, s), NEW l \in LineType, TrueLine(l, s),
         \A i \in DOMAIN ls : ls[i].of = l.of => ls[i].text = 0 \/ s[l.of].kind = "reply"
  PROVE  TrueLines(Append(ls, l), s)
<1> DEFINE t == Append(ls, l)
<1>0. ls \in Seq(LineType)
  BY DEF TrueLines
<1>1. DOMAIN ls = 1..Len(ls) /\ Len(ls) \in Nat
  BY <1>0, LenProperties
<1>2. /\ t \in Seq(LineType) /\ Len(t) = Len(ls) + 1
      /\ \A i \in 1..Len(ls) : t[i] = ls[i]
      /\ t[Len(ls) + 1] = l
  BY <1>0, AppendProperties
<1>3. DOMAIN t = 1..(Len(ls) + 1)
  BY <1>2, LenProperties
<1>4. \A i \in DOMAIN t : (i \in DOMAIN ls /\ t[i] = ls[i]) \/ (i = Len(ls) + 1 /\ t[i] = l)
  BY <1>1, <1>2, <1>3
<1> HIDE DEF t
<1>5. \A i \in DOMAIN t : TrueLine(t[i], s)
  BY <1>4 DEF TrueLines
<1>6. OnceEach(t, s)
  BY <1>4 DEF TrueLines, OnceEach
<1> QED BY <1>2, <1>5, <1>6 DEF TrueLines, t

\* Lines changed into true lines of the same messages, none shown that was not.
LEMMA ChangeIsTrue ==
  ASSUME NEW ls, NEW s, TrueLines(ls, s), NEW f \in [DOMAIN ls -> LineType],
         \A i \in DOMAIN ls : /\ TrueLine(f[i], s) /\ f[i].of = ls[i].of
                              /\ ls[i].text = 0 => f[i].text = 0
  PROVE  TrueLines(f, s)
<1>1. f \in Seq(LineType) /\ DOMAIN f = DOMAIN ls
  BY ChangeFacts DEF TrueLines
<1>2. \A i \in DOMAIN f : TrueLine(f[i], s)
  BY <1>1
<1>3. OnceEach(f, s)
  BY <1>1 DEF TrueLines, OnceEach
<1> QED BY <1>1, <1>2, <1>3 DEF TrueLines

LEMMA CorrectedIsTrue ==
  ASSUME NEW ls, TrueLines(ls, said), said \in Seq(Saying), NEW n \in 1..Len(said),
         said[n].kind = "fix"
  PROVE  TrueLines(Corrected(ls, n), said)
<1> DEFINE is == {i \in Find(ls, n) : ls[i].id # "none" /\ SameNick(ls[i], n)}
           f == [i \in DOMAIN ls |-> IF i \in is THEN [ls[i] EXCEPT !.text = n] ELSE ls[i]]
<1>1. Corrected(ls, n) = f
  BY DEF Corrected, Change
<1>2. Len(said) \in Nat /\ n \in Nat /\ n # 0
  BY LenProperties
<1>3. \A i \in DOMAIN ls : ls[i] \in LineType /\ TrueLine(ls[i], said)
  BY LenProperties, ElementOfSeq DEF TrueLines
<1>4. \A i \in is : i \in DOMAIN ls /\ ls[i].of = said[n].about /\ ls[i].id # "none"
                    /\ said[ls[i].of].by = said[n].by
  BY DEF Find, Named, SameNick
<1> HIDE DEF is
<1>5. ASSUME NEW i \in DOMAIN ls
      PROVE  /\ f[i] \in LineType /\ TrueLine(f[i], said) /\ f[i].of = ls[i].of
             /\ ls[i].text = 0 => f[i].text = 0
  <2>1. CASE i \in is
    <3>1. f[i] = [ls[i] EXCEPT !.text = n]
      BY <2>1
    <3>2. /\ f[i] \in LineType /\ f[i].text = n /\ f[i].of = ls[i].of
          /\ f[i].id = ls[i].id /\ f[i].sid = ls[i].sid
      BY <3>1, <1>2, <1>3 DEF LineType
    <3> HIDE DEF f
    <3> QED BY <2>1, <3>2, <1>2, <1>3, <1>4 DEF TrueLine
  <2>2. CASE i \notin is
    BY <2>2, <1>3
  <2> QED BY <2>1, <2>2
<1>6. f \in [DOMAIN ls -> LineType]
  BY <1>5
<1> HIDE DEF f
<1> QED BY <1>1, <1>5, <1>6, ChangeIsTrue

\* A line that its author or the room takes back shows nothing.
LEMMA TombstoneIsTrue ==
  ASSUME NEW ls, TrueLines(ls, said), said \in Seq(Saying), NEW n \in 1..Len(said),
         NEW is \in SUBSET DOMAIN ls,
         \A i \in is : /\ ls[i].of = said[n].about
                       /\ \/ said[n].kind = "retract" /\ said[n].by = said[ls[i].of].by
                          \/ said[n].kind = "moderate" /\ said[n].by = "room"
  PROVE  TrueLines([i \in DOMAIN ls |-> IF i \in is THEN Tombstone(ls[i]) ELSE ls[i]], said)
<1> DEFINE f == [i \in DOMAIN ls |-> IF i \in is THEN Tombstone(ls[i]) ELSE ls[i]]
<1>3. \A i \in DOMAIN ls : ls[i] \in LineType /\ TrueLine(ls[i], said)
  BY LenProperties, ElementOfSeq DEF TrueLines
<1>5. ASSUME NEW i \in DOMAIN ls
      PROVE  /\ f[i] \in LineType /\ TrueLine(f[i], said) /\ f[i].of = ls[i].of
             /\ ls[i].text = 0 => f[i].text = 0
  <2>1. CASE i \in is
    <3>1. f[i] = Tombstone(ls[i])
      BY <2>1
    <3>2. f[i] \in LineType /\ f[i].text = 0 /\ f[i].of = ls[i].of /\ f[i].id = "none"
      BY <3>1, <1>3 DEF LineType, Tombstone
    <3> HIDE DEF f
    <3> QED BY <2>1, <3>2, <1>3 DEF TrueLine
  <2>2. CASE i \notin is
    BY <2>2, <1>3
  <2> QED BY <2>1, <2>2
<1>6. f \in [DOMAIN ls -> LineType]
  BY <1>5
<1> HIDE DEF f
<1>7. TrueLines(f, said)
  BY <1>5, <1>6, ChangeIsTrue
<1> QED BY <1>7 DEF f

LEMMA ReactedIsTrue ==
  ASSUME NEW ls, TrueLines(ls, said), said \in Seq(Saying), NEW n \in 1..Len(said)
  PROVE  TrueLines(Reacted(ls, n), said)
<1> DEFINE is == Find(ls, n)
           f == [i \in DOMAIN ls |->
                   IF i \in is THEN [ls[i] EXCEPT !.reacts = {said[n].by}] ELSE ls[i]]
<1>1. Reacted(ls, n) = f
  BY DEF Reacted, Change
<1>2. said[n].by \in Speaking
  <2>1. said[n] \in Saying
    BY ElementOfSeq
  <2> QED BY <2>1 DEF Saying
<1>3. \A i \in DOMAIN ls : ls[i] \in LineType /\ TrueLine(ls[i], said)
  BY LenProperties, ElementOfSeq DEF TrueLines
<1> HIDE DEF is
<1>5. ASSUME NEW i \in DOMAIN ls
      PROVE  /\ f[i] \in LineType /\ TrueLine(f[i], said) /\ f[i].of = ls[i].of
             /\ ls[i].text = 0 => f[i].text = 0
  <2>1. CASE i \in is
    <3>1. f[i] = [ls[i] EXCEPT !.reacts = {said[n].by}]
      BY <2>1
    <3>2. /\ f[i] \in LineType /\ f[i].text = ls[i].text /\ f[i].of = ls[i].of
          /\ f[i].id = ls[i].id /\ f[i].sid = ls[i].sid
      BY <3>1, <1>2, <1>3 DEF LineType
    <3> HIDE DEF f
    <3> QED BY <2>1, <3>2, <1>3 DEF TrueLine
  <2>2. CASE i \notin is
    BY <2>2, <1>3
  <2> QED BY <2>1, <2>2
<1>6. f \in [DOMAIN ls -> LineType]
  BY <1>5
<1> HIDE DEF f
<1> QED BY <1>1, <1>5, <1>6, ChangeIsTrue

LEMMA LineFacts ==
  ASSUME ConversationConstants, RoomMessageConstants, said \in Seq(Saying),
         NEW n \in 1..Len(said)
  PROVE  Line(n) \in LineType /\ TrueLine(Line(n), said) /\ Line(n).of = n /\ Line(n).text = n
<1>1. Len(said) \in Nat /\ n \in Nat /\ n # 0
  BY LenProperties
<1>2. OccupantIds \in BOOLEAN /\ OriginIds \in BOOLEAN
  BY DEF RoomMessageConstants
<1>3. HasOrigin(n) \in BOOLEAN
  BY <1>2 DEF HasOrigin
<1> QED BY <1>1, <1>2, <1>3 DEF Line, LineType, TrueLine

\* What message_handler makes of a stanza that the lines do not know yet leaves them true.
LEMMA HandleIsTrue ==
  ASSUME ConversationConstants, RoomMessageConstants, said \in Seq(Saying),
         TrueLines(lines, said), NEW n \in 1..Len(said), NEW live \in BOOLEAN,
         ~ HasStanzaId(lines, n)
  PROVE  TrueLines(Handle(lines, n, live), said)
<1> DEFINE h == Handle(lines, n, live)
<1>0. said[n].kind \in {"text", "reply", "fix", "retract", "moderate", "react"}
  <2>1. said[n] \in Saying
    BY ElementOfSeq
  <2> QED BY <2>1 DEF Saying
<1>1. CASE IsText(n)
  <2>1. h = lines \/ h = Append(lines, Line(n))
    BY <1>1 DEF Handle, IsText
  <2>2. \A i \in DOMAIN lines : ~ (lines[i].of = n /\ lines[i].sid)
    BY DEF HasStanzaId, Range
  <2>3. \A i \in DOMAIN lines : TrueLine(lines[i], said)
    BY DEF TrueLines
  <2>4. \A i \in DOMAIN lines : lines[i].of = n => lines[i].text = 0 \/ said[n].kind = "reply"
    BY <1>1, <2>2, <2>3 DEF TrueLine, IsText
  <2>5. TrueLines(Append(lines, Line(n)), said)
    BY <2>4, LineFacts, AppendIsTrue
  <2> QED BY <2>1, <2>5
<1>2. CASE said[n].kind = "fix"
  <2>1. h = Corrected(lines, n)
    BY <1>2 DEF Handle, IsText
  <2> QED BY <1>2, <2>1, CorrectedIsTrue
<1>3. CASE said[n].kind = "retract"
  <2> DEFINE is == {i \in Find(lines, n) : SameSender(lines[i], n)}
  <2>1. h = [i \in DOMAIN lines |-> IF i \in is THEN Tombstone(lines[i]) ELSE lines[i]]
    BY <1>3 DEF Handle, IsText, Retracted, Change
  <2>2. is \in SUBSET DOMAIN lines /\ \A i \in is : /\ lines[i].of = said[n].about
                                                   /\ said[n].by = said[lines[i].of].by
    BY DEF Find, Named, SameSender, SameNick
  <2> HIDE DEF is
  <2> QED BY <1>3, <2>1, <2>2, TombstoneIsTrue
<1>4. CASE said[n].kind = "moderate"
  <2> DEFINE is == Find(lines, n)
           f == [i \in DOMAIN lines |-> IF i \in is THEN Tombstone(lines[i]) ELSE lines[i]]
  <2>1. h = Moderated(lines, n)
    BY <1>4 DEF Handle, IsText
  <2>2. is \in SUBSET DOMAIN lines /\ \A i \in is : lines[i].of = said[n].about
    BY DEF Find, Named
  <2>3. CASE said[n].by # "room"
    BY <2>1, <2>3 DEF Moderated
  <2>4. CASE said[n].by = "room"
    <3>1. h = f
      BY <2>1, <2>4 DEF Moderated, Change
    <3> HIDE DEF is, h
    <3>2. TrueLines(f, said)
      BY <1>4, <2>2, <2>4, TombstoneIsTrue
    <3> QED BY <3>1, <3>2 DEF h
  <2> QED BY <2>3, <2>4
<1>5. CASE said[n].kind = "react"
  <2>1. h = Reacted(lines, n)
    BY <1>5 DEF Handle, IsText
  <2> QED BY <1>5, <2>1, ReactedIsTrue
<1> QED BY <1>0, <1>1, <1>2, <1>3, <1>4, <1>5 DEF IsText

-----------------------------------------------------------------------------
(* What the room sends.                                                    *)

\* What has been received goes, what is sent is added.
LEMMA PassingFacts ==
  ASSUME NEW s \in Seq(Passing)
  PROVE  /\ Len(s) \in Nat
         /\ \A i \in 1..Len(s) : s[i] \in Passing
         /\ s # <<>> => /\ Head(s) = s[1] /\ 1 \in 1..Len(s) /\ Tail(s) \in Seq(Passing)
                        /\ \A i \in 1..Len(Tail(s)) : i + 1 \in 1..Len(s) /\ Tail(s)[i] = s[i + 1]
                                                      /\ 1 < i + 1
         /\ \A e \in Passing :
              /\ Append(s, e) \in Seq(Passing)
              /\ \A i \in 1..Len(Append(s, e)) : \/ i \in 1..Len(s) /\ Append(s, e)[i] = s[i]
                                                 \/ i = Len(s) + 1 /\ Append(s, e)[i] = e
<1>1. Len(s) \in Nat
  BY LenProperties
<1>2. \A i \in 1..Len(s) : s[i] \in Passing
  BY ElementOfSeq
<1>3. ASSUME s # <<>>
      PROVE  /\ Head(s) = s[1] /\ 1 \in 1..Len(s) /\ Tail(s) \in Seq(Passing)
             /\ \A i \in 1..Len(Tail(s)) : i + 1 \in 1..Len(s) /\ Tail(s)[i] = s[i + 1]
                                           /\ 1 < i + 1
  <2>1. /\ Tail(s) \in Seq(Passing) /\ Len(Tail(s)) = Len(s) - 1
        /\ \A i \in 1..Len(Tail(s)) : Tail(s)[i] = s[i + 1]
    BY <1>3, HeadTailProperties
  <2>2. Len(s) # 0
    BY <1>3, EmptySeq
  <2>3. Head(s) = s[1]
    BY <1>3
  <2> QED BY <1>1, <2>1, <2>2, <2>3
<1>4. ASSUME NEW e \in Passing
      PROVE  /\ Append(s, e) \in Seq(Passing)
             /\ \A i \in 1..Len(Append(s, e)) : \/ i \in 1..Len(s) /\ Append(s, e)[i] = s[i]
                                                \/ i = Len(s) + 1 /\ Append(s, e)[i] = e
  <2>1. /\ Append(s, e) \in Seq(Passing) /\ Len(Append(s, e)) = Len(s) + 1
        /\ \A i \in 1..Len(s) : Append(s, e)[i] = s[i]
        /\ Append(s, e)[Len(s) + 1] = e
    BY AppendProperties
  <2> QED BY <1>1, <2>1
<1> QED BY <1>1, <1>2, <1>3, <1>4

\* Something said leaves the stream in order, and the lines true.
LEMMA SayFacts ==
  ASSUME RoomInv, NEW e \in Saying, Say(e), UNCHANGED <<page, got>>,
         newest' \in Nat, mds' \in Nat
  PROVE  /\ said' = Append(said, e) /\ said' \in Seq(Saying) /\ Len(said) \in Nat
         /\ Len(said') = Len(said) + 1 /\ Len(said') \in 1..Len(said')
         /\ said'[Len(said')] = e
         /\ \A i \in 1..Len(said) : i \in 1..Len(said') /\ said'[i] = said[i]
         /\ StreamIsOfRoom' /\ LiveInOrder'
         /\ TrueLines(lines, said')
<1>1. /\ said' = Append(said, e) /\ said' \in Seq(Saying) /\ Len(said) \in Nat
      /\ Len(said') = Len(said) + 1 /\ Len(said') \in 1..Len(said')
      /\ said'[Len(said')] = e
      /\ \A i \in 1..Len(said) : i \in 1..Len(said') /\ said'[i] = said[i]
  BY SaidGrows DEF RoomInv, Say
<1>2. TrueLines(lines, said')
  BY <1>1, TrueStays DEF RoomInv
<1> DEFINE p == [n |-> Len(said'), live |-> TRUE]
<1>3. stream' = stream \/ stream' = Append(stream, p)
  BY DEF Say
<1>4. StreamIsOfRoom /\ LiveInOrder
  BY DEF RoomInv
<1>5. stream \in Seq(Passing) /\ \A i \in 1..Len(stream) : stream[i].n \in 1..Len(said)
  BY <1>4 DEF StreamIsOfRoom
<1>6. p \in Passing /\ p.n = Len(said')
  BY <1>1 DEF Passing
<1> HIDE DEF p
<1>7. /\ stream' \in Seq(Passing)
      /\ \A i \in 1..Len(stream') : \/ i \in 1..Len(stream) /\ stream'[i] = stream[i]
                                    \/ i = Len(stream) + 1 /\ stream'[i] = p
  <2>1. CASE stream' = stream
    BY <1>5, <2>1
  <2>2. CASE stream' = Append(stream, p)
    BY <1>5, <1>6, <2>2, PassingFacts
  <2> QED BY <1>3, <2>1, <2>2
<1>8. StreamIsOfRoom'
  <2>1. page' \in Nat \X Nat /\ page'[2] <= Len(said')
    BY <1>1, <1>4 DEF StreamIsOfRoom
  <2>2. \A i \in 1..Len(stream') : stream'[i].n \in 1..Len(said')
    BY <1>1, <1>5, <1>6, <1>7
  <2> QED BY <1>7, <2>1, <2>2 DEF StreamIsOfRoom
<1>9. LiveInOrder'
  <2>1. Len(stream) \in Nat
    BY <1>5, PassingFacts
  <2>3. \A i \in 1..Len(stream') : stream'[i].live => stream'[i].n > got
    BY <1>1, <1>4, <1>6, <1>7 DEF LiveInOrder
  <2>4. ASSUME NEW i \in 1..Len(stream'), NEW j \in 1..Len(stream'), i < j,
               stream'[i].live, stream'[j].live
        PROVE  stream'[i].n < stream'[j].n
    <3>1. i \in 1..Len(stream) /\ stream'[i] = stream[i]
      BY <1>7, <2>1, <2>4
    <3>2. CASE j \in 1..Len(stream) /\ stream'[j] = stream[j]
      BY <1>4, <2>4, <3>1, <3>2 DEF LiveInOrder
    <3>3. CASE stream'[j] = p
      BY <1>1, <1>5, <1>6, <3>1, <3>3
    <3> QED BY <1>7, <3>2, <3>3
  <2> QED BY <1>1, <1>4, <2>3, <2>4 DEF LiveInOrder
<1> QED BY <1>1, <1>2, <1>8, <1>9

\* Something received leaves what is still under way in order.
LEMMA ReceiveFacts ==
  ASSUME RoomInv, stream # <<>>, stream' = Tail(stream), UNCHANGED <<said, page>>
  PROVE  /\ StreamIsOfRoom'
         /\ Head(stream).n \in 1..Len(said) /\ Head(stream).live \in BOOLEAN
         /\ Head(stream).live => Head(stream).n > got
         /\ \A i \in 1..Len(stream') : stream'[i].live =>
              stream'[i].n > got /\ (Head(stream).live => stream'[i].n > Head(stream).n)
         /\ \A i, j \in 1..Len(stream') :
              i < j /\ stream'[i].live /\ stream'[j].live => stream'[i].n < stream'[j].n
<1>1. StreamIsOfRoom /\ LiveInOrder
  BY DEF RoomInv
<1>2. stream \in Seq(Passing)
  BY <1>1 DEF StreamIsOfRoom
<1>3. /\ Len(stream) \in Nat /\ Head(stream) = stream[1] /\ 1 \in 1..Len(stream)
      /\ stream' \in Seq(Passing) /\ stream[1] \in Passing
      /\ \A i \in 1..Len(stream') : i + 1 \in 1..Len(stream) /\ stream'[i] = stream[i + 1]
                                    /\ 1 < i + 1
  BY <1>2, PassingFacts
<1>4. StreamIsOfRoom'
  BY <1>1, <1>3 DEF StreamIsOfRoom
<1>5. \A i, j \in 1..Len(stream') : i < j => i + 1 < j + 1
  BY <1>3
<1>6. stream[1].live \in BOOLEAN
  BY <1>3 DEF Passing
<1> QED BY <1>1, <1>3, <1>4, <1>5, <1>6 DEF StreamIsOfRoom, LiveInOrder

-----------------------------------------------------------------------------
(* The steps of the room.                                                  *)

\* What has been read is reported in order, and never taken back.
LEMMA ReadFacts ==
  ASSUME RoomInv, got' = got, UNCHANGED <<newest, mds>> \/ Publish
  PROVE  newest' \in Nat /\ mds' \in Nat /\ ReadInOrder' /\ mds' >= mds
<1>1. newest \in Nat /\ mds \in Nat /\ got \in Nat /\ ReadInOrder
  BY DEF RoomInv, LiveInOrder
<1>2. CASE UNCHANGED <<newest, mds>>
  BY <1>1, <1>2 DEF ReadInOrder
<1>3. CASE Publish
  <2>1. newest' = 0 /\ (mds' = newest \/ mds' = mds) /\ (newest # 0 => mds' = newest)
    BY <1>3 DEF Publish
  <2>2. mds' >= mds /\ mds' <= got' /\ mds' \in Nat
    BY <1>1, <1>3 DEF ReadInOrder, Publish
  <2> QED BY <1>1, <2>1, <2>2 DEF ReadInOrder
<1> QED BY <1>2, <1>3

\* What one of the occupants or the room may say.
LEMMA EntryFacts ==
  ASSUME NEW by \in Speaking,
         NEW kind_ \in {"text", "reply", "fix", "retract", "moderate", "react"},
         NEW about \in Nat, NEW as \in {"m", "s"}
  PROVE  /\ Entry(by, kind_, about, as) \in Saying
         /\ Entry(by, kind_, about, as).by = by /\ Entry(by, kind_, about, as).kind = kind_
         /\ Entry(by, kind_, about, as).about = about /\ Entry(by, kind_, about, as).as = as
BY DEF Entry, Saying

LEMMA ReceiveLiveStep ==
  ASSUME ConversationConstants, RoomMessageConstants, RoomInv, ReceiveLive
  PROVE  RoomInv' /\ mds' >= mds
<1> DEFINE n == Head(stream).n
<1>1. /\ stream # <<>> /\ Head(stream).live /\ stream' = Tail(stream)
      /\ got' = n
      /\ \/ HasStanzaId(lines, n) /\ lines' = lines /\ newest' = newest
         \/ ~ HasStanzaId(lines, n) /\ newest' = n /\ lines' = Handle(lines, n, TRUE)
      /\ said' = said /\ page' = page /\ mds' = mds
  BY DEF ReceiveLive
<1>2. /\ StreamIsOfRoom' /\ n \in 1..Len(said) /\ n > got
      /\ \A i \in 1..Len(stream') : stream'[i].live => stream'[i].n > n
      /\ \A i, j \in 1..Len(stream') :
           i < j /\ stream'[i].live /\ stream'[j].live => stream'[i].n < stream'[j].n
  BY <1>1, ReceiveFacts
<1>3. /\ newest \in Nat /\ mds \in Nat /\ got \in Nat /\ ReadInOrder
      /\ said \in Seq(Saying) /\ TrueLines(lines, said)
  BY DEF RoomInv, LiveInOrder
<1> HIDE DEF n
<1>4. Len(said) \in Nat /\ n \in Nat /\ n <= Len(said)
  BY <1>2, <1>3, LenProperties
<1>5. LiveInOrder'
  BY <1>1, <1>2, <1>3, <1>4 DEF LiveInOrder
<1>6. ReadInOrder' /\ mds' >= mds
  <2>1. mds <= got /\ newest <= got /\ (newest # 0 => mds <= newest)
    BY <1>3 DEF ReadInOrder
  <2>2. mds' = mds /\ got' = n /\ (newest' = newest \/ newest' = n)
    BY <1>1
  <2>3. mds <= n /\ newest <= n /\ mds >= mds
    BY <1>2, <1>3, <1>4, <2>1
  <2>4. mds' <= got' /\ newest' <= got' /\ (newest' # 0 => mds' <= newest')
    BY <1>4, <2>1, <2>2, <2>3
  <2> QED BY <2>2, <2>3, <2>4 DEF ReadInOrder
<1>7. TrueLines(lines', said)
  BY <1>1, <1>2, <1>3, HandleIsTrue
<1> QED BY <1>1, <1>2, <1>3, <1>5, <1>6, <1>7 DEF RoomInv

LEMMA ReceiveArchivedStep ==
  ASSUME ConversationConstants, RoomMessageConstants, RoomInv, ReceiveArchived
  PROVE  RoomInv' /\ mds' >= mds
<1> DEFINE n == Head(stream).n
<1>1. /\ stream # <<>> /\ stream' = Tail(stream)
      /\ \/ lines' = lines
         \/ ~ HasStanzaId(lines, n) /\ lines' = Handle(lines, n, FALSE)
      /\ said' = said /\ page' = page /\ mds' = mds /\ got' = got /\ newest' = newest
  BY DEF ReceiveArchived, Newest, IsArchived
<1>2. /\ StreamIsOfRoom' /\ n \in 1..Len(said)
      /\ \A i \in 1..Len(stream') : stream'[i].live => stream'[i].n > got
      /\ \A i, j \in 1..Len(stream') :
           i < j /\ stream'[i].live /\ stream'[j].live => stream'[i].n < stream'[j].n
  BY <1>1, ReceiveFacts
<1>3. /\ ReadInOrder /\ LiveInOrder /\ said \in Seq(Saying) /\ TrueLines(lines, said)
  BY DEF RoomInv
<1> HIDE DEF n
<1>5. LiveInOrder'
  BY <1>1, <1>2, <1>3 DEF LiveInOrder
<1>6. ReadInOrder' /\ mds' >= mds
  BY <1>1, <1>3, ReadFacts
<1>7. TrueLines(lines', said)
  BY <1>1, <1>2, <1>3, HandleIsTrue
<1> QED BY <1>1, <1>2, <1>3, <1>5, <1>6, <1>7 DEF RoomInv

LEMMA OtherSaysStep ==
  ASSUME RoomInv, NEW by \in Others, OtherSays(by)
  PROVE  RoomInv' /\ mds' >= mds
<1>1. PICK e \in Saying : Say(e)
  <2>1. by \in Speaking /\ "room" \in Speaking /\ 0 \in Nat
    BY DEF Speaking
  <2>2. CASE Say(Entry(by, "text", 0, "m"))
    BY <2>1, <2>2, EntryFacts
  <2>3. ASSUME NEW n \in DOMAIN said,
               \/ Say(Entry(by, "fix", n, "m"))
               \/ \E kind_ \in {"retract", "react"} : Say(Entry(by, kind_, n, "s"))
               \/ Say(Entry("room", "moderate", n, "s"))
        PROVE  \E e \in Saying : Say(e)
    <3>1. n \in Nat
      BY LenProperties DEF RoomInv
    <3>2. /\ Entry(by, "fix", n, "m") \in Saying
          /\ \A kind_ \in {"retract", "react"} : Entry(by, kind_, n, "s") \in Saying
          /\ Entry("room", "moderate", n, "s") \in Saying
      BY <2>1, <3>1, EntryFacts
    <3> QED BY <2>3, <3>2
  <2> QED BY <2>2, <2>3 DEF OtherSays
<1>2. UNCHANGED <<page, got, lines, newest, mds>>
  BY DEF OtherSays, reading
<1>3. newest' \in Nat /\ mds' \in Nat /\ ReadInOrder' /\ mds' >= mds
  BY <1>2, ReadFacts
<1>4. said' \in Seq(Saying) /\ StreamIsOfRoom' /\ LiveInOrder' /\ TrueLines(lines, said')
  BY <1>1, <1>2, <1>3, SayFacts
<1> QED BY <1>2, <1>3, <1>4 DEF RoomInv

LEMMA ServeStep ==
  ASSUME RoomInv, Serve
  PROVE  RoomInv' /\ mds' >= mds
<1> DEFINE p == [n |-> page[1] + 1, live |-> FALSE]
<1>1. /\ page[1] < page[2] /\ page' = <<page[1] + 1, page[2]>>
      /\ stream' = Append(stream, p)
      /\ UNCHANGED <<said, lines, got, newest, mds>>
  BY DEF Serve, reading
<1>2. /\ said \in Seq(Saying) /\ TrueLines(lines, said) /\ StreamIsOfRoom /\ LiveInOrder
      /\ Len(said) \in Nat
  BY LenProperties DEF RoomInv
<1>3. /\ page[1] \in Nat /\ page[2] \in Nat /\ page[2] <= Len(said)
      /\ stream \in Seq(Passing) /\ \A i \in 1..Len(stream) : stream[i].n \in 1..Len(said)
  BY <1>2 DEF StreamIsOfRoom
<1>4. p \in Passing /\ p.n \in 1..Len(said) /\ p.live = FALSE
  BY <1>1, <1>2, <1>3 DEF Passing
<1> HIDE DEF p
<1>5. /\ Len(stream) \in Nat /\ stream' \in Seq(Passing)
      /\ \A i \in 1..Len(stream') : \/ i \in 1..Len(stream) /\ stream'[i] = stream[i]
                                    \/ i = Len(stream) + 1 /\ stream'[i] = p
  BY <1>1, <1>3, <1>4, PassingFacts
<1>6. StreamIsOfRoom'
  <2>1. page' \in Nat \X Nat /\ page'[2] <= Len(said')
    BY <1>1, <1>3
  <2>2. \A i \in 1..Len(stream') : stream'[i].n \in 1..Len(said')
    BY <1>1, <1>3, <1>4, <1>5
  <2> QED BY <1>5, <2>1, <2>2 DEF StreamIsOfRoom
<1>7. LiveInOrder'
  BY <1>1, <1>2, <1>4, <1>5 DEF LiveInOrder
<1>8. ReadInOrder' /\ mds' >= mds
  BY <1>1, ReadFacts
<1> QED BY <1>1, <1>2, <1>6, <1>7, <1>8 DEF RoomInv

\* Away and back: what was under way is gone, and no line changes.
LEMMA LeaveStep ==
  ASSUME RoomInv, Leave \/ Return \/ Enter \/ Dwell \/ Depart
  PROVE  RoomInv' /\ mds' >= mds
<1>1. /\ said \in Seq(Saying) /\ TrueLines(lines, said) /\ StreamIsOfRoom /\ LiveInOrder
      /\ Len(said) \in Nat /\ got \in Nat /\ got <= Len(said)
  BY LenProperties DEF RoomInv, LiveInOrder
<1>2. said' = said /\ lines' = lines /\ got' = got /\ (UNCHANGED <<newest, mds>> \/ Publish)
  BY DEF Leave, Return, Enter, Dwell, Depart, room, reading
<1>3. newest' \in Nat /\ mds' \in Nat /\ ReadInOrder' /\ mds' >= mds
  BY <1>2, ReadFacts
<1>4. StreamIsOfRoom' /\ LiveInOrder'
  <2>1. CASE Leave
    <3>1. stream' = <<>> /\ page' = <<0, 0>>
      BY <2>1 DEF Leave
    <3>2. stream' \in Seq(Passing) /\ Len(stream') = 0
      BY <3>1, EmptySeq
    <3>3. page' \in Nat \X Nat /\ page'[2] <= Len(said)
      BY <1>1, <3>1
    <3> QED BY <1>1, <1>2, <1>3, <3>2, <3>3 DEF StreamIsOfRoom, LiveInOrder
  <2>2. CASE Return
    <3>1. PICK n \in 0..got : page' = <<n, Len(said)>>
      BY <2>2 DEF Return
    <3>2. stream' = stream
      BY <2>2 DEF Return
    <3>3. page' \in Nat \X Nat /\ page'[2] <= Len(said)
      BY <1>1, <3>1
    <3> QED BY <1>1, <1>2, <1>3, <3>2, <3>3 DEF StreamIsOfRoom, LiveInOrder
  <2>3. CASE Enter \/ Dwell \/ Depart
    <3>1. UNCHANGED <<stream, page>>
      BY <2>3 DEF Enter, Dwell, Depart, room
    <3> QED BY <1>1, <1>2, <1>3, <3>1 DEF StreamIsOfRoom, LiveInOrder
  <2> QED BY <2>1, <2>2, <2>3
<1> QED BY <1>1, <1>2, <1>3, <1>4 DEF RoomInv

LEMMA WriteStep ==
  ASSUME RoomInv, Write
  PROVE  RoomInv' /\ mds' >= mds
<1> DEFINE e == Entry("self", "text", 0, "m")
<1>1. Say(e) /\ Publish /\ UNCHANGED <<page, lines, got>>
  BY DEF Write
<1>2. e \in Saying
  BY EntryFacts DEF Speaking
<1> HIDE DEF e
<1>3. newest' \in Nat /\ mds' \in Nat /\ ReadInOrder' /\ mds' >= mds
  BY <1>1, ReadFacts
<1>4. said' \in Seq(Saying) /\ StreamIsOfRoom' /\ LiveInOrder' /\ TrueLines(lines, said')
  BY <1>1, <1>2, <1>3, SayFacts
<1> QED BY <1>1, <1>3, <1>4 DEF RoomInv

\* An identifier the user's command names is one of the line.
LEMMA AsFacts ==
  ASSUME NEW l \in LineType, l.id # "none"
  PROVE  As(l) \in {"m", "s"} /\ l.of \in Nat
BY DEF As, LineType

LEMMA EditStep ==
  ASSUME RoomInv, Edit
  PROVE  RoomInv' /\ mds' >= mds
<1>1. PICK l \in Range(lines) : Own(l) /\ Say(Entry("self", "fix", l.of, As(l)))
  BY DEF Edit
<1> DEFINE e == Entry("self", "fix", l.of, As(l))
           m == Len(said')
           is == EditedLine(m)
           f == [i \in DOMAIN lines |-> IF i \in is THEN [lines[i] EXCEPT !.text = m] ELSE lines[i]]
<1>2. lines' = f /\ UNCHANGED <<page, got, newest, mds>>
  BY DEF Edit, Change, reading
<1>3. lines \in Seq(LineType) /\ \A i \in DOMAIN lines : lines[i] \in LineType
  BY LenProperties, ElementOfSeq DEF RoomInv, TrueLines
<1>4. l \in LineType /\ l.id # "none" /\ said[l.of].by = "self" /\ l.of \in 1..Len(said)
  <2>1. PICK i \in DOMAIN lines : l = lines[i]
    BY <1>1 DEF Range
  <2>2. TrueLine(l, said)
    BY <2>1 DEF RoomInv, TrueLines
  <2> QED BY <1>1, <1>3, <2>1, <2>2 DEF Own, TrueLine
<1>5. e \in Saying /\ e.by = "self" /\ e.kind = "fix" /\ e.about = l.of /\ e.as \in {"m", "s"}
  <2>1. As(l) \in {"m", "s"} /\ l.of \in Nat /\ "self" \in Speaking
    BY <1>4, AsFacts DEF Speaking
  <2> QED BY <2>1, EntryFacts
<1>6. newest' \in Nat /\ mds' \in Nat /\ ReadInOrder' /\ mds' >= mds
  BY <1>2, ReadFacts
<1> HIDE DEF e
<1>7. /\ said' \in Seq(Saying) /\ Len(said) \in Nat
      /\ m = Len(said) + 1 /\ m \in 1..m
      /\ said'[m] = e
      /\ \A i \in 1..Len(said) : i \in 1..m /\ said'[i] = said[i]
      /\ StreamIsOfRoom' /\ LiveInOrder'
      /\ TrueLines(lines, said')
  BY <1>1, <1>2, <1>5, <1>6, SayFacts DEF e
<1>8. \A i \in is : /\ i \in DOMAIN lines /\ lines[i].of = l.of /\ lines[i].id # "none"
  BY <1>5, <1>7 DEF EditedLine
<1> HIDE DEF m, is
<1>9. TrueLines(f, said')
  <2>1. ASSUME NEW i \in DOMAIN lines
        PROVE  /\ f[i] \in LineType /\ TrueLine(f[i], said') /\ f[i].of = lines[i].of
               /\ lines[i].text = 0 => f[i].text = 0
    <3>1. lines[i] \in LineType /\ TrueLine(lines[i], said')
      BY <1>3, <1>7 DEF TrueLines
    <3>2. CASE i \in is
      <4>1. f[i] = [lines[i] EXCEPT !.text = m]
        BY <3>2
      <4>2. m \in Nat /\ m # 0 /\ m = Len(said')
        BY <1>7 DEF m
      <4>3. /\ f[i] \in LineType /\ f[i].text = m /\ f[i].of = lines[i].of
            /\ f[i].id = lines[i].id /\ f[i].sid = lines[i].sid
        BY <3>1, <4>1, <4>2 DEF LineType
      <4>4. said'[l.of].by = "self" /\ lines[i].of = l.of /\ lines[i].id # "none"
        BY <1>4, <1>7, <1>8, <3>2
      <4> HIDE DEF f
      <4> QED BY <3>1, <4>2, <4>3, <4>4, <1>5, <1>7 DEF TrueLine
    <3>3. CASE i \notin is
      BY <3>1, <3>3
    <3> QED BY <3>2, <3>3
  <2>2. f \in [DOMAIN lines -> LineType]
    BY <2>1
  <2> HIDE DEF f
  <2> QED BY <1>7, <2>1, <2>2, ChangeIsTrue
<1> QED BY <1>2, <1>6, <1>7, <1>9 DEF RoomInv

LEMMA CommandStep ==
  ASSUME ConversationConstants, RoomMessageConstants, RoomInv, Command
  PROVE  RoomInv' /\ mds' >= mds
<1> DEFINE m == Len(said')
           r == [of |-> m, id |-> "m", origin |-> TRUE, sid |-> FALSE,
                 occupant |-> FALSE, text |-> m, reacts |-> {}]
<1>1. PICK l \in Range(lines) :
        /\ l.id # "none"
        /\ \/ Say(Entry("self", "retract", l.of, As(l))) /\ UNCHANGED lines
           \/ Say(Entry("self", "react", l.of, As(l))) /\ UNCHANGED lines
           \/ Say(Entry("self", "reply", l.of, As(l))) /\ lines' = Append(lines, r)
           \/ Say(Entry("room", "moderate", l.of, "s")) /\ UNCHANGED lines
  BY DEF Command
<1>2. UNCHANGED <<page, got, newest, mds>>
  BY DEF Command, reading
<1>3. As(l) \in {"m", "s"} /\ l.of \in Nat
  <2>1. PICK i \in DOMAIN lines : l = lines[i]
    BY <1>1 DEF Range
  <2>2. l \in LineType
    BY <2>1, LenProperties, ElementOfSeq DEF RoomInv, TrueLines
  <2> QED BY <1>1, <2>2, AsFacts
<1>4. PICK e \in Saying : /\ Say(e)
                          /\ \/ lines' = lines
                             \/ e.kind = "reply" /\ lines' = Append(lines, r)
  <2>1. "self" \in Speaking /\ "room" \in Speaking
    BY DEF Speaking
  <2>2. /\ \A kind_ \in {"retract", "react", "reply"} :
             Entry("self", kind_, l.of, As(l)) \in Saying
        /\ Entry("room", "moderate", l.of, "s") \in Saying
        /\ Entry("self", "reply", l.of, As(l)).kind = "reply"
    BY <1>3, <2>1, EntryFacts
  <2> HIDE DEF r
  <2> QED BY <1>1, <2>2
<1>6. newest' \in Nat /\ mds' \in Nat /\ ReadInOrder' /\ mds' >= mds
  BY <1>2, ReadFacts
<1>7. /\ said' \in Seq(Saying) /\ Len(said) \in Nat
      /\ m = Len(said) + 1 /\ m \in 1..m /\ said'[m] = e
      /\ StreamIsOfRoom' /\ LiveInOrder'
      /\ TrueLines(lines, said')
  BY <1>2, <1>4, <1>6, SayFacts
<1>8. TrueLines(lines', said')
  <2>1. CASE lines' = lines
    BY <1>7, <2>1
  <2>2. CASE e.kind = "reply" /\ lines' = Append(lines, r)
    <3>1. r \in LineType /\ r.of = m /\ r.text = m /\ r.id = "m" /\ m # 0
      BY <1>7 DEF LineType
    <3> HIDE DEF r
    <3>2. TrueLine(r, said')
      BY <1>7, <2>2, <3>1 DEF TrueLine
    <3> QED BY <1>7, <2>2, <3>1, <3>2, AppendIsTrue
  <2> QED BY <1>4, <2>1, <2>2
<1> QED BY <1>6, <1>7, <1>8 DEF RoomInv

LEMMA RoomInit ==
  ASSUME Init
  PROVE  RoomInv
<1>1. said \in Seq(Saying) /\ stream \in Seq(Passing) /\ lines \in Seq(LineType)
      /\ Len(said) = 0 /\ Len(stream) = 0 /\ DOMAIN lines = {}
  <2>1. said = <<>> /\ stream = <<>> /\ lines = <<>>
    BY DEF Init
  <2>2. Len(lines) = 0 /\ lines \in Seq(LineType)
    BY <2>1, EmptySeq
  <2>3. DOMAIN lines = 1..0
    BY <2>2, LenProperties
  <2> QED BY <2>1, <2>2, <2>3, EmptySeq
<1>2. TrueLines(lines, said)
  BY <1>1 DEF TrueLines, OnceEach
<1>3. page = <<0, 0>> /\ newest = 0 /\ mds = 0 /\ got = 0
  BY DEF Init
<1>4. StreamIsOfRoom
  BY <1>1, <1>3 DEF StreamIsOfRoom
<1>5. LiveInOrder /\ ReadInOrder
  BY <1>1, <1>3 DEF LiveInOrder, ReadInOrder
<1> QED BY <1>1, <1>2, <1>4, <1>5 DEF RoomInv

LEMMA RoomStep ==
  ASSUME ConversationConstants, RoomMessageConstants, RoomInv, [Next]_vars
  PROVE  RoomInv' /\ mds' >= mds
<1>1. CASE UNCHANGED vars
  <2>1. UNCHANGED <<said, page, stream, lines, newest, mds, got>> /\ mds \in Nat
    BY <1>1 DEF vars, room, reading, RoomInv, LiveInOrder
  <2> QED BY <2>1 DEF RoomInv, StreamIsOfRoom, LiveInOrder, ReadInOrder
<1>2. CASE Next
  BY <1>2, ReceiveLiveStep, ReceiveArchivedStep, ServeStep, LeaveStep, WriteStep, EditStep,
     CommandStep, OtherSaysStep DEF Next
<1> QED BY <1>1, <1>2

LEMMA TrueLinesShow ==
  ASSUME RoomInv
  PROVE  LinesAreTrue /\ MarkedIsReceived
<1>1. /\ \A i \in DOMAIN lines : TrueLine(lines[i], said)
      /\ OnceEach(lines, said) /\ ReadInOrder /\ DOMAIN said = 1..Len(said)
  BY LenProperties DEF RoomInv, TrueLines
<1>2. LineIsItsAuthors
  BY <1>1 DEF LineIsItsAuthors, TrueLine, Range
<1>3. RoomShownOnce
  BY <1>1 DEF RoomShownOnce, OnceEach
<1>4. MarkedIsReceived
  BY <1>1 DEF MarkedIsReceived, ReadInOrder
<1> QED BY <1>2, <1>3, <1>4 DEF LinesAreTrue

\* In a conversation nothing else moves what the room's buffer shows.
LEMMA TalkIsRoomStep ==
  ASSUME [TalkNext]_talkVars
  PROVE  [Next]_vars
BY DEF TalkNext, talkVars

THEOREM RoomCorrect == TalkSpec => []RoomInv
<1>1. TalkInit => RoomInv
  BY RoomInit DEF TalkInit
<1>2. RoomInv /\ [TalkNext]_talkVars => RoomInv'
  BY RoomStep, TalkIsRoomStep, ConversationConstants, RoomMessageConstants
<1> QED BY <1>1, <1>2, PTL DEF TalkSpec

\* A line of a room's buffer shows what its author wrote or corrected, or nothing if the author
\* or the room took it back, and one line only shows it: however live messages, pages of the
\* archive, corrections, retractions and the user's own commands follow each other
\* (message_handler, line_store_*).
THEOREM LinesAreTrueTheorem == TalkSpec => []LinesAreTrue
<1>1. RoomInv => LinesAreTrue
  BY TrueLinesShow
<1> QED BY <1>1, RoomCorrect, PTL

\* What is reported as read of a room has been received from it, and is never taken back
\* (muc_last_seen, send_reads).
THEOREM ReadIsReceivedTheorem == TalkSpec => ReadIsReceived
<1>1. RoomInv /\ RoomInv' /\ [TalkNext]_talkVars => [MarkedIsReceived']_vars /\ [mds' >= mds]_vars
  <2> SUFFICES ASSUME RoomInv, RoomInv', [TalkNext]_talkVars
               PROVE  MarkedIsReceived' /\ mds' >= mds
    OBVIOUS
  <2>1. MarkedIsReceived'
    BY TrueLinesShow, PTL
  <2>2. mds' >= mds
    BY RoomStep, TalkIsRoomStep, ConversationConstants, RoomMessageConstants
  <2> QED BY <2>1, <2>2
<1> QED BY <1>1, RoomCorrect, PTL DEF TalkSpec, ReadIsReceived, ReadGoesOn

-----------------------------------------------------------------------------
(* Chat states.                                                            *)

ToldType == [S!Addresses -> S!States \union {"none"}]

StatesInv ==
  /\ last_sent \in ToldType /\ told \in ToldType
  /\ state \in [S!Speakers -> {"active", "composing"}]
  /\ shut => typing = {}
  /\ S!ToldIsRemembered /\ S!TypingIsSaid

Telling == [last : ToldType, told : ToldType]
Remembers(c) == \A a \in S!Addresses : c.last[a] \in {"none", c.told[a]}

\* What is told is remembered.
LEMMA SendStateFacts ==
  ASSUME NEW c \in Telling, Remembers(c), NEW a \in S!Addresses, NEW s \in S!States
  PROVE  S!SendState(c, a, s) \in Telling /\ Remembers(S!SendState(c, a, s))
<1> DEFINE d == [c EXCEPT !.last[a] = s]
           e == S!Told(d, a, s)
<1>1. d \in Telling /\ d.told = c.told /\ d.last = [c.last EXCEPT ![a] = s]
  BY DEF Telling, ToldType
<1>2. e = [d EXCEPT !.told[a] = s]
  BY DEF S!Told
<1> HIDE DEF d, e
<1>3. e \in Telling /\ e.last = d.last /\ e.told = [d.told EXCEPT ![a] = s]
  BY <1>1, <1>2 DEF Telling, ToldType
<1>4. Remembers(e)
  BY <1>1, <1>3 DEF Telling, ToldType, Remembers
<1>5. S!SendState(c, a, s) = c \/ S!SendState(c, a, s) = e
  BY DEF S!SendState, d, e
<1> QED BY <1>3, <1>4, <1>5

LEMMA SendTypingFacts ==
  ASSUME NEW c \in Telling, Remembers(c), NEW a \in S!Addresses
  PROVE  S!SendTyping(c, a) \in Telling /\ Remembers(S!SendTyping(c, a))
<1> DEFINE p == S!SendState(c, a, "paused")
           d == [p EXCEPT !.last[a] = "composing"]
<1>1. p \in Telling /\ Remembers(p)
  BY SendStateFacts DEF S!States
<1> HIDE DEF p
<1>2. d \in Telling /\ d.told = p.told /\ d.last = [p.last EXCEPT ![a] = "composing"]
  BY <1>1 DEF Telling, ToldType, S!States
<1>3. S!SendTyping(c, a) = [d EXCEPT !.told[a] = "composing"]
  BY DEF S!SendTyping, S!Told, p
<1> HIDE DEF d
<1> DEFINE e == S!SendTyping(c, a)
<1>4. e \in Telling /\ e.last = d.last /\ e.told = [d.told EXCEPT ![a] = "composing"]
  BY <1>2, <1>3 DEF Telling, ToldType, S!States
<1> HIDE DEF e
<1>5. Remembers(e)
  BY <1>1, <1>2, <1>4 DEF Telling, ToldType, Remembers
<1> QED BY <1>4, <1>5 DEF e

LEMMA ToldStep ==
  ASSUME StatesInv, S!Next
  PROVE  last_sent' \in ToldType /\ told' \in ToldType /\ S!ToldIsRemembered'
<1> DEFINE c == S!Chat
<1>1. c \in Telling /\ Remembers(c) /\ c.last = last_sent /\ c.told = told
  BY DEF StatesInv, S!Chat, Telling, Remembers, S!ToldIsRemembered
<1>2. S!Target \in S!Addresses
  BY DEF S!Target, S!Addresses
<1> HIDE DEF c
<1>3. ASSUME NEW d \in Telling, Remembers(d), last_sent' = d.last, told' = d.told
      PROVE  last_sent' \in ToldType /\ told' \in ToldType /\ S!ToldIsRemembered'
  BY <1>3 DEF Telling, Remembers, S!ToldIsRemembered
<1>4. CASE UNCHANGED <<last_sent, told>>
  BY <1>1, <1>3, <1>4
<1>5. CASE S!Key
  BY <1>1, <1>2, <1>3, <1>5, SendTypingFacts DEF S!Key, S!Become, c
<1>6. CASE S!Leave
  BY <1>1, <1>2, <1>3, <1>4, <1>6, SendStateFacts DEF S!Leave, S!Become, S!States, c
<1>7. CASE S!Enter
  BY <1>1, <1>2, <1>3, <1>4, <1>7, SendStateFacts DEF S!Enter, S!Become, S!States, c
<1>8. CASE S!Open
  BY <1>1, <1>2, <1>3, <1>8, SendStateFacts DEF S!Open, S!Become, S!States, c
<1>9. CASE S!Close
  <2>1. last_sent' = [a \in S!Addresses |-> "none"]
    BY <1>9 DEF S!Close
  <2>2. told' = told \/ told' = S!SendGone(c, S!Target).told
    BY <1>9 DEF S!Close, c
  <2>3. S!SendGone(c, S!Target).told \in ToldType
    BY <1>1, <1>2 DEF S!SendGone, S!Told, Telling, ToldType, S!States
  <2> QED BY <1>1, <2>1, <2>2, <2>3 DEF ToldType, S!ToldIsRemembered, Telling
<1> QED BY <1>4, <1>5, <1>6, <1>7, <1>8, <1>9 DEF S!Next, S!OwnPresence, S!Link,
           S!StateArrives, S!BodyArrives, S!Expire

LEMMA TypingStep ==
  ASSUME StatesInv, S!Next
  PROVE  /\ state' \in [S!Speakers -> {"active", "composing"}]
         /\ shut' => typing' = {}
         /\ S!TypingIsSaid'
<1>1. /\ state \in [S!Speakers -> {"active", "composing"}]
      /\ shut => typing = {}
      /\ \A l \in typing \ {"own"} :
           \E p \in Peers : S!Label(p) = l /\ state[p] = "composing"
      /\ stateKind' = stateKind /\ \A p : S!Label(p)' = S!Label(p)
  BY DEF StatesInv, S!TypingIsSaid, S!Next, S!Key, S!Leave, S!Enter, S!Close, S!Open,
         S!OwnPresence, S!Link, S!StateArrives, S!BodyArrives, S!Expire, S!Label
<1>2. ASSUME NEW p \in S!Speakers, NEW s \in {"composing", "active"}, S!StateArrives(p, s)
      PROVE  /\ state' \in [S!Speakers -> {"active", "composing"}]
             /\ shut' => typing' = {}
             /\ S!TypingIsSaid'
  <2>1. /\ state' = [state EXCEPT ![p] = s] /\ shut' = shut
        /\ IF shut THEN typing' = typing
           ELSE typing' = IF s = "composing" THEN typing \union {S!Label(p)}
                          ELSE typing \ {S!Label(p)}
    BY <1>2 DEF S!StateArrives
  <2>2. S!Sibling = "sibling" => S!Label("sibling") = "own"
    BY DEF S!Label
  <2>3. p \in Peers \/ S!Label(p) = "own"
    BY DEF S!Speakers, S!Label
  <2>4. \A q \in Peers : q \in S!Speakers
    BY DEF S!Speakers
  <2>5. ASSUME NEW l \in typing' \ {"own"}
        PROVE  \E q \in Peers : S!Label(q) = l /\ state'[q] = "composing"
    <3>1. CASE l = S!Label(p) /\ s = "composing"
      BY <1>1, <2>1, <2>3, <2>5, <3>1
    <3>2. CASE l \in typing /\ (s = "composing" \/ l # S!Label(p))
      <4>1. PICK q \in Peers : S!Label(q) = l /\ state[q] = "composing"
        BY <1>1, <2>5, <3>2
      <4>2. q = p => s = "composing"
        BY <3>2, <4>1
      <4> QED BY <1>1, <2>1, <2>4, <4>1, <4>2
    <3>3. CASE shut
      BY <1>1, <2>1, <2>5, <3>3
    <3> QED BY <2>1, <2>5, <3>1, <3>2, <3>3
  <2> QED BY <1>1, <2>1, <2>5 DEF S!TypingIsSaid
<1>3. ASSUME NEW p \in S!Speakers, NEW delayed \in BOOLEAN, S!BodyArrives(p, delayed)
      PROVE  /\ state' \in [S!Speakers -> {"active", "composing"}]
             /\ shut' => typing' = {}
             /\ S!TypingIsSaid'
  <2>1. /\ ~ shut /\ shut' = shut
        /\ \/ state' = state /\ typing' = typing
           \/ state' = [state EXCEPT ![p] = "active"] /\ typing' = typing \ {S!Label(p)}
           \/ state' = [state EXCEPT ![p] = "active"] /\ typing' = typing /\ S!Label(p) = "own"
    BY <1>3 DEF S!BodyArrives, S!Clears, S!Label
  <2>4. \A q \in Peers : q \in S!Speakers
    BY DEF S!Speakers
  <2>5. ASSUME NEW l \in typing' \ {"own"}
        PROVE  \E q \in Peers : S!Label(q) = l /\ state'[q] = "composing"
    <3>1. l \in typing /\ (state' = state \/ l # S!Label(p))
      BY <2>1, <2>5
    <3>2. PICK q \in Peers : S!Label(q) = l /\ state[q] = "composing"
      BY <1>1, <2>5, <3>1
    <3> QED BY <1>1, <2>1, <2>4, <3>1, <3>2
  <2> QED BY <1>1, <2>1, <2>5 DEF S!TypingIsSaid
<1>4. ASSUME state' = state, typing' \subseteq typing, shut' = shut \/ typing' = {} \/ ~ shut'
      PROVE  /\ state' \in [S!Speakers -> {"active", "composing"}]
             /\ shut' => typing' = {}
             /\ S!TypingIsSaid'
  BY <1>1, <1>4 DEF S!TypingIsSaid
<1>5. CASE S!Key \/ S!Leave \/ S!Enter \/ S!Close \/ S!Open \/ S!OwnPresence \/ S!Link
           \/ \E l \in typing : S!Expire(l)
  <2>1. state' = state /\ typing' \subseteq typing /\ (shut' = shut \/ typing' = {} \/ ~ shut')
    BY <1>5 DEF S!Key, S!Leave, S!Enter, S!Close, S!Open, S!OwnPresence, S!Link, S!Expire
  <2> QED BY <1>4, <2>1
<1> QED BY <1>2, <1>3, <1>5 DEF S!Next

\* A chat state that is not sent again is the one its address was told last, and who is shown
\* typing said so last (last_sent_chat_state, set_typing_state), whatever the order in which
\* buffers are left and entered, streams come and go and the others write.
THEOREM StatesAreTrueTheorem == TalkSpec => []StatesAreTrue
<1>1. TalkInit => StatesInv
  <2> SUFFICES ASSUME S!Init PROVE StatesInv
    BY DEF TalkInit
  <2>1. /\ typing = {}
        /\ last_sent = [a \in S!Addresses |-> "none"] /\ told = [a \in S!Addresses |-> "none"]
        /\ state = [p \in S!Speakers |-> "active"]
    BY DEF S!Init
  <2> QED BY <2>1 DEF StatesInv, ToldType, S!ToldIsRemembered, S!TypingIsSaid
<1>2. StatesInv /\ [TalkNext]_talkVars => StatesInv'
  <2> SUFFICES ASSUME StatesInv, [TalkNext]_talkVars PROVE StatesInv'
    OBVIOUS
  <2>1. CASE UNCHANGED stateVars
    BY <2>1 DEF stateVars, StatesInv, S!ToldIsRemembered, S!TypingIsSaid, S!Label
  <2>2. CASE S!Next
    BY <2>2, ToldStep, TypingStep DEF StatesInv
  <2> QED BY <2>1, <2>2 DEF TalkNext, talkVars
<1>3. StatesInv => StatesAreTrue
  BY DEF StatesInv, StatesAreTrue
<1> QED BY <1>1, <1>2, <1>3, PTL DEF TalkSpec

-----------------------------------------------------------------------------
(* What the user sends: where each text is, and what may still become of it. *)

Modes    == {"omemo", "pgp", "plain"}
TextType == [want : Modes, form : O!Forms, switched : BOOLEAN]
WireType == [of : Nat, what : {"text", "file", "preview"}, how : Modes]
ChatType == [open : BOOLEAN, omemo : BOOLEAN, pgp : BOOLEAN, queue : Seq(Nat),
             probes : SUBSET Nat, previews : SUBSET Nat,
             uploads : SUBSET [of : Nat, sealed : BOOLEAN]]
SendType == [able : BOOLEAN, chat : ChatType, wire : Seq(WireType), gone : SUBSET Nat]

OnWire(w, n)  == \E k \in 1..Len(w) : w[k].of = n /\ w[k].what # "preview"
PlainIn(w, n, k) == \E j \in 1..k : w[j].of = n /\ w[j].what = "text" /\ w[j].how = "plain"
InQueue(q, n) == \E i \in 1..Len(q) : q[i] = n
IsHeld(c, n)  == n \in c.probes \/ \E u \in c.uploads : u.of = n

WireOnce(w) ==
  \A j, k \in 1..Len(w) :
    w[j].what # "preview" /\ w[k].what # "preview" /\ w[j].of = w[k].of => j = k

QueueOnce(q) == \A i, j \in 1..Len(q) : q[i] = q[j] => i = j

HeldOnce(c) ==
  \A u \in c.uploads : u.of \notin c.probes /\ \A v \in c.uploads : u.of = v.of => u = v

\* each of the texts N of s is in one place, and nothing else is in any
Places(s, N) ==
  /\ WireOnce(s.wire) /\ QueueOnce(s.chat.queue) /\ HeldOnce(s.chat)
  /\ \A n \in Nat : OnWire(s.wire, n) =>
       n \in N /\ ~ InQueue(s.chat.queue, n) /\ ~ IsHeld(s.chat, n) /\ n \notin s.gone
  /\ \A n \in Nat : InQueue(s.chat.queue, n) => n \in N /\ ~ IsHeld(s.chat, n) /\ n \notin s.gone
  /\ \A n \in Nat : IsHeld(s.chat, n) => n \in N /\ n \notin s.gone
  /\ \A n \in s.gone : n \in N
  /\ \A n \in N : \/ OnWire(s.wire, n) \/ InQueue(s.chat.queue, n)
                  \/ IsHeld(s.chat, n) \/ n \in s.gone

\* text n of t may be sent unencrypted
Clear(t, n) == (t[n].form \in {"text", "url"} /\ t[n].want = "omemo") => t[n].switched

TrueWire(w, g, t) ==
  \A k \in 1..Len(w) :
    /\ w[k].of \in 1..Len(t)
    /\ (w[k].what = "text" /\ w[k].how # "omemo") => Clear(t, w[k].of)
    /\ w[k].what = "preview" => w[k].of \in g \/ PlainIn(w, w[k].of, k)

\* what is queued is sent in the clear only if it may be; what is probed may be; and what a
\* preview is made of has been
Kept(s, t) ==
  /\ TrueWire(s.wire, s.gone, t)
  /\ \A i \in 1..Len(s.chat.queue) : /\ s.chat.queue[i] \in 1..Len(t)
                                     /\ s.chat.omemo \/ Clear(t, s.chat.queue[i])
  /\ \A n \in s.chat.probes : n \in 1..Len(t) /\ Clear(t, n)
  /\ \A n \in s.chat.previews : /\ n \in 1..Len(t)
                                /\ n \in s.gone \/ PlainIn(s.wire, n, Len(s.wire))

Good(s, N, t) == s \in SendType /\ Places(s, N) /\ Kept(s, t)

SendInv == texts \in Seq(TextType) /\ Good(O!Now, 1..Len(texts), texts)

\* One more on the wire, and one more in the queue.
LEMMA WireAppend ==
  ASSUME NEW w \in Seq(WireType), NEW e \in WireType
  PROVE  /\ Len(w) \in Nat /\ \A k \in 1..Len(w) : w[k] \in WireType
         /\ Append(w, e) \in Seq(WireType) /\ Len(Append(w, e)) = Len(w) + 1
         /\ \A k \in 1..Len(w) : k \in 1..Len(Append(w, e)) /\ Append(w, e)[k] = w[k]
         /\ Append(w, e)[Len(w) + 1] = e
         /\ \A k \in 1..Len(Append(w, e)) : k \in 1..Len(w) \/ k = Len(w) + 1
         /\ \A n : OnWire(Append(w, e), n) <=> (OnWire(w, n) \/ (e.of = n /\ e.what # "preview"))
         /\ (WireOnce(w) /\ (e.what = "preview" \/ ~ OnWire(w, e.of))) => WireOnce(Append(w, e))
         /\ \A n : \A k \in 1..Len(w) : PlainIn(Append(w, e), n, k) <=> PlainIn(w, n, k)
<1> DEFINE v == Append(w, e)
<1>1. Len(w) \in Nat /\ \A k \in 1..Len(w) : w[k] \in WireType
  BY LenProperties, ElementOfSeq
<1>2. /\ v \in Seq(WireType) /\ Len(v) = Len(w) + 1
      /\ \A k \in 1..Len(w) : v[k] = w[k]
      /\ v[Len(w) + 1] = e
  BY AppendProperties
<1> HIDE DEF v
<1>3. /\ \A k \in 1..Len(w) : k \in 1..Len(v) /\ 1..k \subseteq 1..Len(w)
      /\ Len(w) + 1 \in 1..Len(v)
      /\ \A k \in 1..Len(v) : k \in 1..Len(w) \/ k = Len(w) + 1
  BY <1>1, <1>2
<1>4. \A n : OnWire(v, n) <=> (OnWire(w, n) \/ (e.of = n /\ e.what # "preview"))
  BY <1>2, <1>3 DEF OnWire
<1>5. (WireOnce(w) /\ (e.what = "preview" \/ ~ OnWire(w, e.of))) => WireOnce(v)
  BY <1>2, <1>3 DEF OnWire, WireOnce
<1>6. \A n : \A k \in 1..Len(w) : PlainIn(v, n, k) <=> PlainIn(w, n, k)
  BY <1>2, <1>3 DEF PlainIn
<1> QED BY <1>1, <1>2, <1>3, <1>4, <1>5, <1>6 DEF v

LEMMA QueueAppend ==
  ASSUME NEW q \in Seq(Nat), NEW n \in Nat
  PROVE  /\ Append(q, n) \in Seq(Nat)
         /\ \A i \in 1..Len(Append(q, n)) : \/ i \in 1..Len(q) /\ Append(q, n)[i] = q[i]
                                            \/ i = Len(q) + 1 /\ Append(q, n)[i] = n
         /\ \A m : InQueue(Append(q, n), m) <=> (InQueue(q, m) \/ m = n)
         /\ (QueueOnce(q) /\ ~ InQueue(q, n)) => QueueOnce(Append(q, n))
<1> DEFINE r == Append(q, n)
<1>1. Len(q) \in Nat
  BY LenProperties
<1>2. /\ r \in Seq(Nat) /\ Len(r) = Len(q) + 1
      /\ \A i \in 1..Len(q) : r[i] = q[i]
      /\ r[Len(q) + 1] = n
  BY AppendProperties
<1> HIDE DEF r
<1>3. /\ \A i \in 1..Len(q) : i \in 1..Len(r)
      /\ Len(q) + 1 \in 1..Len(r)
      /\ \A i \in 1..Len(r) : i \in 1..Len(q) \/ i = Len(q) + 1
  BY <1>1, <1>2
<1>4. \A m : InQueue(r, m) <=> (InQueue(q, m) \/ m = n)
  BY <1>2, <1>3 DEF InQueue
<1>5. (QueueOnce(q) /\ ~ InQueue(q, n)) => QueueOnce(r)
  BY <1>2, <1>3 DEF InQueue, QueueOnce
<1> QED BY <1>2, <1>3, <1>4, <1>5 DEF r

\* A text that is in no place yet is sent, given up, queued or probed.
LEMMA PlacesPut ==
  ASSUME NEW s \in SendType, NEW N \in SUBSET Nat, Places(s, N), NEW n \in Nat \ N,
         NEW t \in SendType, NEW e \in WireType, e.of = n, e.what # "preview",
         t.wire = Append(s.wire, e), t.gone = s.gone, t.chat.queue = s.chat.queue,
         t.chat.probes = s.chat.probes, t.chat.uploads = s.chat.uploads
  PROVE  Places(t, N \union {n})
<1>1. s.wire \in Seq(WireType)
  BY DEF SendType
<1>2. \A m : OnWire(t.wire, m) <=> (OnWire(s.wire, m) \/ m = n)
  BY <1>1, WireAppend
<1>3. ~ OnWire(s.wire, n) /\ ~ InQueue(s.chat.queue, n) /\ ~ IsHeld(s.chat, n) /\ n \notin s.gone
  BY DEF Places
<1>4. WireOnce(t.wire)
  BY <1>1, <1>3, WireAppend DEF Places
<1>5. /\ \A m : InQueue(t.chat.queue, m) <=> InQueue(s.chat.queue, m)
      /\ \A m : IsHeld(t.chat, m) <=> IsHeld(s.chat, m)
      /\ QueueOnce(t.chat.queue) /\ HeldOnce(t.chat)
  BY DEF IsHeld, HeldOnce, Places
<1> QED BY <1>2, <1>3, <1>4, <1>5 DEF Places

LEMMA PlacesRefuse ==
  ASSUME NEW s \in SendType, NEW N \in SUBSET Nat, Places(s, N), NEW n \in Nat \ N,
         NEW t \in SendType,
         t.wire = s.wire, t.gone = s.gone \union {n}, t.chat.queue = s.chat.queue,
         t.chat.probes = s.chat.probes, t.chat.uploads = s.chat.uploads
  PROVE  Places(t, N \union {n})
<1>3. ~ OnWire(s.wire, n) /\ ~ InQueue(s.chat.queue, n) /\ ~ IsHeld(s.chat, n) /\ n \notin s.gone
  BY DEF Places
<1>5. /\ \A m : IsHeld(t.chat, m) <=> IsHeld(s.chat, m)
      /\ HeldOnce(t.chat)
  BY DEF IsHeld, HeldOnce, Places
<1> QED BY <1>3, <1>5 DEF Places

LEMMA PlacesQueue ==
  ASSUME NEW s \in SendType, NEW N \in SUBSET Nat, Places(s, N), NEW n \in Nat \ N,
         NEW t \in SendType,
         t.wire = s.wire, t.gone = s.gone, t.chat.queue = Append(s.chat.queue, n),
         t.chat.probes = s.chat.probes, t.chat.uploads = s.chat.uploads
  PROVE  Places(t, N \union {n})
<1>1. s.chat.queue \in Seq(Nat)
  BY DEF SendType, ChatType
<1>2. \A m : InQueue(t.chat.queue, m) <=> (InQueue(s.chat.queue, m) \/ m = n)
  BY <1>1, QueueAppend
<1>3. ~ OnWire(s.wire, n) /\ ~ InQueue(s.chat.queue, n) /\ ~ IsHeld(s.chat, n) /\ n \notin s.gone
  BY DEF Places
<1>4. QueueOnce(t.chat.queue)
  BY <1>1, <1>3, QueueAppend DEF Places
<1>5. /\ \A m : IsHeld(t.chat, m) <=> IsHeld(s.chat, m)
      /\ HeldOnce(t.chat)
  BY DEF IsHeld, HeldOnce, Places
<1> QED BY <1>2, <1>3, <1>4, <1>5 DEF Places

\* A text is held by a probe or an upload, or is so no more.
LEMMA PlacesHold ==
  ASSUME NEW s \in SendType, NEW N \in SUBSET Nat, Places(s, N), NEW n \in Nat \ N,
         NEW t \in SendType, t.wire = s.wire, t.gone = s.gone, t.chat.queue = s.chat.queue,
         \/ /\ t.chat.probes = s.chat.probes \union {n} /\ t.chat.uploads = s.chat.uploads
         \/ /\ t.chat.probes = s.chat.probes
            /\ \E u : u.of = n /\ t.chat.uploads = s.chat.uploads \union {u}
  PROVE  Places(t, N \union {n})
<1>1. ~ OnWire(s.wire, n) /\ ~ InQueue(s.chat.queue, n) /\ ~ IsHeld(s.chat, n) /\ n \notin s.gone
  BY DEF Places
<1>2. \A m : IsHeld(t.chat, m) <=> (IsHeld(s.chat, m) \/ m = n)
  BY DEF IsHeld
<1>3. HeldOnce(t.chat)
  BY <1>1 DEF IsHeld, HeldOnce, Places
<1> QED BY <1>1, <1>2, <1>3 DEF Places

LEMMA PlacesProbed ==
  ASSUME NEW s \in SendType, NEW N \in SUBSET Nat, Places(s, N), NEW n \in s.chat.probes,
         NEW t \in SendType, t.wire = s.wire, t.gone = s.gone, t.chat.queue = s.chat.queue,
         t.chat.probes = s.chat.probes \ {n}, t.chat.uploads = s.chat.uploads
  PROVE  Places(t, N \ {n}) /\ n \in N
<1>1. IsHeld(s.chat, n) /\ n \in Nat
  BY DEF IsHeld, SendType, ChatType
<1>2. ~ OnWire(s.wire, n) /\ ~ InQueue(s.chat.queue, n) /\ n \notin s.gone /\ n \in N
  BY <1>1 DEF Places
<1>3. \A m : IsHeld(t.chat, m) <=> (IsHeld(s.chat, m) /\ m # n)
  BY DEF IsHeld, Places, HeldOnce
<1>4. HeldOnce(t.chat)
  BY DEF HeldOnce, Places
<1> QED BY <1>2, <1>3, <1>4 DEF Places

LEMMA PlacesUploaded ==
  ASSUME NEW s \in SendType, NEW N \in SUBSET Nat, Places(s, N), NEW u \in s.chat.uploads,
         NEW t \in SendType, t.wire = s.wire, t.gone = s.gone, t.chat.queue = s.chat.queue,
         t.chat.probes = s.chat.probes, t.chat.uploads = s.chat.uploads \ {u}
  PROVE  Places(t, N \ {u.of}) /\ u.of \in N
<1> DEFINE n == u.of
<1>1. IsHeld(s.chat, n) /\ n \in Nat
  BY DEF IsHeld, SendType, ChatType
<1>2. ~ OnWire(s.wire, n) /\ ~ InQueue(s.chat.queue, n) /\ n \notin s.gone /\ n \in N
  BY <1>1 DEF Places
<1>3. \A m : IsHeld(t.chat, m) <=> (IsHeld(s.chat, m) /\ m # n)
  BY DEF IsHeld, Places, HeldOnce
<1>4. HeldOnce(t.chat)
  BY DEF HeldOnce, Places
<1> QED BY <1>2, <1>3, <1>4 DEF Places

\* What is sent may be, and nothing else is touched.
LEMMA KeptPut ==
  ASSUME NEW s \in SendType, NEW x \in Seq(TextType), Kept(s, x),
         NEW t \in SendType, NEW e \in WireType,
         t.wire = Append(s.wire, e), t.gone = s.gone, t.chat.queue = s.chat.queue,
         t.chat.omemo = s.chat.omemo, t.chat.probes = s.chat.probes,
         \A n \in t.chat.previews : \/ n \in s.chat.previews
                                    \/ n = e.of /\ e.what = "text" /\ e.how = "plain",
         e.of \in 1..Len(x),
         (e.what = "text" /\ e.how # "omemo") => Clear(x, e.of),
         e.what = "preview" => e.of \in s.gone \/ PlainIn(s.wire, e.of, Len(s.wire))
  PROVE  Kept(t, x)
<1>1. s.wire \in Seq(WireType)
  BY DEF SendType
<1>2. /\ Len(s.wire) \in Nat /\ Len(t.wire) = Len(s.wire) + 1
      /\ \A k \in 1..Len(s.wire) : k \in 1..Len(t.wire) /\ t.wire[k] = s.wire[k]
      /\ t.wire[Len(s.wire) + 1] = e
      /\ \A k \in 1..Len(t.wire) : k \in 1..Len(s.wire) \/ k = Len(s.wire) + 1
      /\ \A n : \A k \in 1..Len(s.wire) : PlainIn(t.wire, n, k) <=> PlainIn(s.wire, n, k)
  BY <1>1, WireAppend
<1>3. \A n : PlainIn(s.wire, n, Len(s.wire)) => PlainIn(t.wire, n, Len(t.wire))
  BY <1>2 DEF PlainIn
<1>4. e.what = "text" /\ e.how = "plain" => PlainIn(t.wire, e.of, Len(t.wire))
  <2>1. Len(s.wire) + 1 \in 1..Len(t.wire)
    BY <1>2
  <2> QED BY <1>2, <2>1 DEF PlainIn
<1>5. TrueWire(t.wire, t.gone, x)
  <2>1. ASSUME NEW k \in 1..Len(s.wire)
        PROVE  /\ t.wire[k].of \in 1..Len(x)
               /\ (t.wire[k].what = "text" /\ t.wire[k].how # "omemo") => Clear(x, t.wire[k].of)
               /\ t.wire[k].what = "preview" =>
                    t.wire[k].of \in t.gone \/ PlainIn(t.wire, t.wire[k].of, k)
    BY <1>2 DEF Kept, TrueWire
  <2>2. e.what = "preview" => e.of \in t.gone \/ PlainIn(t.wire, e.of, Len(s.wire) + 1)
    BY <1>2, <1>3
  <2> QED BY <1>2, <2>1, <2>2 DEF TrueWire
<1>6. \A n \in t.chat.previews : /\ n \in 1..Len(x)
                                 /\ n \in t.gone \/ PlainIn(t.wire, n, Len(t.wire))
  BY <1>3, <1>4 DEF Kept
<1> QED BY <1>5, <1>6 DEF Kept

\* What is not sent stays what it was, or is given up.
LEMMA KeptSame ==
  ASSUME NEW s \in SendType, NEW x \in Seq(TextType), Kept(s, x), NEW t \in SendType,
         t.wire = s.wire, s.gone \subseteq t.gone, t.chat.queue = s.chat.queue,
         s.chat.omemo => t.chat.omemo,
         \A n \in t.chat.probes : n \in s.chat.probes \/ (n \in 1..Len(x) /\ Clear(x, n)),
         \A n \in t.chat.previews : n \in s.chat.previews \/ (n \in 1..Len(x) /\ n \in t.gone)
  PROVE  Kept(t, x)
BY DEF Kept, TrueWire

\* connection.send
LEMMA PutFacts ==
  ASSUME NEW s \in SendType, NEW n \in Nat, NEW what \in {"text", "file", "preview"},
         NEW how \in Modes
  PROVE  /\ O!Put(s, n, what, how) \in SendType
         /\ O!Put(s, n, what, how).chat = s.chat
         /\ \/ /\ O!Put(s, n, what, how).wire =
                    Append(s.wire, [of |-> n, what |-> what, how |-> how])
               /\ O!Put(s, n, what, how).gone = s.gone
            \/ /\ what = "preview" /\ O!Put(s, n, what, how) = s
            \/ /\ what # "preview" /\ O!Put(s, n, what, how).wire = s.wire
               /\ O!Put(s, n, what, how).gone = s.gone \union {n}
<1> DEFINE e == [of |-> n, what |-> what, how |-> how]
<1>1. s.wire \in Seq(WireType) /\ e \in WireType
  BY DEF SendType, WireType
<1> HIDE DEF e
<1>2. Append(s.wire, e) \in Seq(WireType)
  BY <1>1, WireAppend
<1> QED BY <1>2 DEF O!Put, SendType, e

\* What is sent for the first time is in its place.
LEMMA PutGood ==
  ASSUME NEW s, NEW N \in SUBSET Nat, NEW x \in Seq(TextType), Good(s, N, x),
         NEW n \in 1..Len(x), n \notin N, NEW what \in {"text", "file"}, NEW how \in Modes,
         what = "file" \/ how = "omemo" \/ Clear(x, n)
  PROVE  Good(O!Put(s, n, what, how), N \union {n}, x)
<1> DEFINE t == O!Put(s, n, what, how)
           e == [of |-> n, what |-> what, how |-> how]
<1>0. n \in Nat \ N /\ s \in SendType /\ Places(s, N) /\ Kept(s, x)
  BY LenProperties DEF Good
<1>1. e \in WireType /\ e.of = n /\ e.what = what /\ e.how = how
  BY <1>0 DEF WireType
<1>2. /\ t \in SendType /\ t.chat = s.chat
      /\ \/ t.wire = Append(s.wire, e) /\ t.gone = s.gone
         \/ t.wire = s.wire /\ t.gone = s.gone \union {n}
  BY <1>0, PutFacts
<1> HIDE DEF t, e
<1>3. Places(t, N \union {n})
  BY <1>0, <1>1, <1>2, PlacesPut, PlacesRefuse
<1>4. Kept(t, x)
  BY <1>0, <1>1, <1>2, KeptPut, KeptSame
<1> QED BY <1>2, <1>3, <1>4 DEF Good, t

LEMMA DeliverGood ==
  ASSUME NEW s, NEW N \in SUBSET Nat, texts' \in Seq(TextType), Good(s, N, texts'),
         NEW n \in 1..Len(texts'), n \notin N, NEW how \in Modes,
         how = "omemo" \/ Clear(texts', n)
  PROVE  Good(O!Deliver(s, n, how), N \union {n}, texts')
<1> DEFINE p == O!Put(s, n, "text", how)
           asks == how = "plain" /\ texts'[n].form = "url"
           t == [p EXCEPT !.chat.previews = IF asks THEN @ \union {n} ELSE @]
           e == [of |-> n, what |-> "text", how |-> how]
<1>0. n \in Nat \ N /\ s \in SendType /\ Places(s, N) /\ Kept(s, texts')
  BY LenProperties DEF Good
<1>1. e \in WireType /\ e.of = n /\ e.what = "text" /\ e.how = how
  BY <1>0 DEF WireType
<1>2. /\ p \in SendType /\ p.chat = s.chat
      /\ \/ p.wire = Append(s.wire, e) /\ p.gone = s.gone
         \/ p.wire = s.wire /\ p.gone = s.gone \union {n}
  BY <1>0, PutFacts
<1>3. O!Deliver(s, n, how) = t
  BY DEF O!Deliver
<1> HIDE DEF p, e, asks
<1>4. /\ t \in SendType /\ t.wire = p.wire /\ t.gone = p.gone
      /\ t.chat.queue = s.chat.queue /\ t.chat.omemo = s.chat.omemo
      /\ t.chat.probes = s.chat.probes /\ t.chat.uploads = s.chat.uploads
      /\ t.chat.previews = IF asks THEN s.chat.previews \union {n} ELSE s.chat.previews
  BY <1>0, <1>2 DEF SendType, ChatType
<1> HIDE DEF t
<1>5. Places(t, N \union {n})
  BY <1>0, <1>1, <1>2, <1>4, PlacesPut, PlacesRefuse
<1>6. Kept(t, texts')
  <2>1. asks => how = "plain"
    BY DEF asks
  <2>2. CASE p.wire = Append(s.wire, e) /\ p.gone = s.gone
    BY <1>0, <1>1, <1>4, <2>1, <2>2, KeptPut
  <2>3. CASE p.wire = s.wire /\ p.gone = s.gone \union {n}
    BY <1>0, <1>4, <2>3, KeptSame
  <2> QED BY <1>2, <2>2, <2>3
<1> QED BY <1>3, <1>4, <1>5, <1>6 DEF Good

\* Given up with an error.
LEMMA RefuseGood ==
  ASSUME NEW s, NEW N \in SUBSET Nat, NEW x \in Seq(TextType), Good(s, N, x),
         NEW n \in 1..Len(x), n \notin N
  PROVE  Good(O!Refuse(s, n), N \union {n}, x)
<1> DEFINE t == O!Refuse(s, n)
<1>0. n \in Nat \ N /\ s \in SendType /\ Places(s, N) /\ Kept(s, x)
  BY LenProperties DEF Good
<1>1. /\ t \in SendType /\ t.wire = s.wire /\ t.chat = s.chat /\ t.gone = s.gone \union {n}
  BY <1>0 DEF O!Refuse, SendType
<1> HIDE DEF t
<1> QED BY <1>0, <1>1, PlacesRefuse, KeptSame DEF Good, t

\* What is encrypted to nobody leaves the queue as clear as it was.
LEMMA FailedGood ==
  ASSUME NEW s, NEW N \in SUBSET Nat, NEW x \in Seq(TextType), Good(s, N, x), ~ s.chat.omemo
  PROVE  Good(O!Failed(s), N, x)
<1> DEFINE t == O!Failed(s)
<1>0. s \in SendType /\ Places(s, N) /\ Kept(s, x)
  BY DEF Good
<1>1. /\ t \in SendType /\ t.wire = s.wire /\ t.gone = s.gone
      /\ t.chat.queue = s.chat.queue /\ t.chat.probes = s.chat.probes
      /\ t.chat.previews = s.chat.previews /\ t.chat.uploads = s.chat.uploads
  BY <1>0 DEF O!Failed, SendType, ChatType
<1> HIDE DEF t
<1>2. Places(t, N)
  BY <1>0, <1>1 DEF Places, IsHeld, HeldOnce
<1>3. Kept(t, x)
  BY <1>0, <1>1, KeptSame
<1> QED BY <1>1, <1>2, <1>3 DEF Good, t

\* What How may say.
LEMMA HowFacts ==
  ASSUME NEW s \in SendType
  PROVE  /\ O!How(s) \in Modes \union {"queued", "refused", "failed"}
         /\ O!How(s) \in {"queued", "refused", "omemo"} <=> s.chat.omemo
BY DEF O!How, Modes, SendType, ChatType

\* What is entered, or has been probed, is sent, queued, probed or refused.
LEMMA SendGood ==
  ASSUME NEW s, NEW N \in SUBSET Nat, texts' \in Seq(TextType), Good(s, N, texts'),
         NEW n \in 1..Len(texts'), n \notin N, s.chat.omemo \/ Clear(texts', n),
         NEW skip_probe \in BOOLEAN
  PROVE  Good(O!Send(s, n, skip_probe), N \union {n}, texts')
<1> DEFINE t == O!Send(s, n, skip_probe)
<1>0. n \in Nat \ N /\ s \in SendType /\ Places(s, N) /\ Kept(s, texts')
  BY LenProperties DEF Good
<1>1. CASE O!How(s) = "refused"
  <2>1. t = O!Refuse(s, n)
    BY <1>1 DEF O!Send
  <2> QED BY <2>1, RefuseGood
<1>2. CASE O!How(s) = "queued"
  <2>1. t = [s EXCEPT !.chat.queue = Append(@, n)]
    BY <1>2 DEF O!Send
  <2>2. s.chat.queue \in Seq(Nat)
    BY <1>0 DEF SendType, ChatType
  <2>3. /\ Append(s.chat.queue, n) \in Seq(Nat)
        /\ \A i \in 1..Len(Append(s.chat.queue, n)) :
             \/ i \in 1..Len(s.chat.queue) /\ Append(s.chat.queue, n)[i] = s.chat.queue[i]
             \/ i = Len(s.chat.queue) + 1 /\ Append(s.chat.queue, n)[i] = n
    BY <1>0, <2>2, QueueAppend
  <2>4. /\ t \in SendType /\ t.wire = s.wire /\ t.gone = s.gone
        /\ t.chat.queue = Append(s.chat.queue, n) /\ t.chat.omemo = s.chat.omemo
        /\ t.chat.probes = s.chat.probes /\ t.chat.previews = s.chat.previews
        /\ t.chat.uploads = s.chat.uploads
    BY <1>0, <2>1, <2>3 DEF SendType, ChatType
  <2> HIDE DEF t
  <2>5. Places(t, N \union {n})
    BY <1>0, <2>4, PlacesQueue
  <2>6. t.chat.omemo
    BY <1>0, <1>2, <2>4, HowFacts
  <2>7. Kept(t, texts')
    BY <1>0, <2>3, <2>4, <2>6 DEF Kept
  <2> QED BY <2>4, <2>5, <2>7 DEF Good, t
<1>3. CASE O!How(s) = "failed"
  <2>1. t = O!Refuse(O!Failed(s), n)
    BY <1>3 DEF O!Send
  <2>2. ~ s.chat.omemo
    BY <1>0, <1>3, HowFacts
  <2>3. Good(O!Failed(s), N, texts')
    BY <2>2, FailedGood
  <2> HIDE DEF t
  <2> QED BY <2>1, <2>3, RefuseGood DEF t
<1>4. CASE O!How(s) = "plain" /\ ~ skip_probe /\ texts'[n].form = "url"
  <2> DEFINE c == [s.chat EXCEPT !.probes = @ \union {n}]
  <2>1. t = [s EXCEPT !.chat = c]
    BY <1>0, <1>4 DEF O!Send, SendType, ChatType
  <2> HIDE DEF t
  <2>2. /\ c \in ChatType /\ c.queue = s.chat.queue /\ c.omemo = s.chat.omemo
        /\ c.probes = s.chat.probes \union {n} /\ c.previews = s.chat.previews
        /\ c.uploads = s.chat.uploads
    BY <1>0 DEF SendType, ChatType
  <2> HIDE DEF c
  <2>4. /\ t \in SendType /\ t.wire = s.wire /\ t.gone = s.gone
        /\ t.chat.queue = s.chat.queue /\ t.chat.omemo = s.chat.omemo
        /\ t.chat.probes = s.chat.probes \union {n} /\ t.chat.previews = s.chat.previews
        /\ t.chat.uploads = s.chat.uploads
    BY <1>0, <2>1, <2>2 DEF SendType
  <2>5. Places(t, N \union {n})
    BY <1>0, <2>4, PlacesHold
  <2>6. Clear(texts', n)
    BY <1>0, <1>4, HowFacts
  <2>7. Kept(t, texts')
    BY <1>0, <2>4, <2>6, KeptSame
  <2> QED BY <2>4, <2>5, <2>7 DEF Good, t
<1>5. CASE /\ O!How(s) \notin {"refused", "queued", "failed"}
           /\ ~ (O!How(s) = "plain" /\ ~ skip_probe /\ texts'[n].form = "url")
  <2>1. t = O!Deliver(s, n, O!How(s))
    BY <1>5 DEF O!Send
  <2>2. O!How(s) \in Modes /\ (O!How(s) = "omemo" \/ Clear(texts', n))
    BY <1>0, <1>5, HowFacts
  <2> HIDE DEF t
  <2> QED BY <2>1, <2>2, DeliverGood DEF t
<1> QED BY <1>1, <1>2, <1>3, <1>4, <1>5

LEMMA ShareGood ==
  ASSUME NEW s, NEW N \in SUBSET Nat, NEW x \in Seq(TextType), Good(s, N, x),
         NEW n \in 1..Len(x), n \notin N
  PROVE  Good(O!Share(s, n), N \union {n}, x)
<1> DEFINE how == IF s.chat.omemo /\ s.able THEN "omemo" ELSE "plain"
<1>1. how \in Modes
  BY DEF Modes
<1>2. O!Share(s, n) = O!Put(s, n, "file", how)
  BY DEF O!Share
<1> HIDE DEF how
<1> QED BY <1>1, <1>2, PutGood

-----------------------------------------------------------------------------
(* The queue flushed.                                                      *)

\* The sequence of as many elements as a function has numbers.
LEMMA IsSequence ==
  ASSUME NEW T, NEW n \in Nat, NEW f \in [1..n -> T]
  PROVE  f \in Seq(T) /\ Len(f) = n
<1>1. f \in Seq(T)
  BY SeqDef
<1>2. DOMAIN f = 1..Len(f) /\ Len(f) \in Nat /\ DOMAIN f = 1..n
  BY <1>1, LenProperties
<1> QED BY <1>1, <1>2

LEMMA ConcatFacts ==
  ASSUME NEW w \in Seq(WireType), NEW f \in Seq(WireType)
  PROVE  /\ w \o f \in Seq(WireType) /\ Len(w \o f) = Len(w) + Len(f)
         /\ Len(w) \in Nat /\ Len(f) \in Nat
         /\ \A k \in 1..(Len(w) + Len(f)) :
              (w \o f)[k] = IF k <= Len(w) THEN w[k] ELSE f[k - Len(w)]
<1>1. Len(w) \in Nat /\ Len(f) \in Nat
  BY LenProperties
<1> QED BY <1>1, ConcatProperties

\* v is w with the texts q sent after it
SentAfter(v, w, q, how) ==
  /\ v \in Seq(WireType)
  /\ \A k \in 1..Len(w) : k \in 1..Len(v) /\ v[k] = w[k]
  /\ \E at \in [1..Len(q) -> 1..Len(v)] :
       /\ \A i \in 1..Len(q) :
            v[at[i]].of = q[i] /\ v[at[i]].what = "text" /\ v[at[i]].how = how
       /\ \A k \in 1..Len(v) : k \in 1..Len(w) \/ \E i \in 1..Len(q) : k = at[i]

LEMMA WireConcat ==
  ASSUME NEW w \in Seq(WireType), NEW q \in Seq(Nat), NEW how \in Modes,
         NEW f \in [1..Len(q) -> WireType],
         \A i \in 1..Len(q) : f[i].of = q[i] /\ f[i].what = "text" /\ f[i].how = how
  PROVE  SentAfter(w \o f, w, q, how)
<1> DEFINE v == w \o f
           at == [i \in 1..Len(q) |-> Len(w) + i]
<1>1. Len(w) \in Nat /\ Len(q) \in Nat
  BY LenProperties
<1>3. f \in Seq(WireType) /\ Len(f) = Len(q)
  BY <1>1, IsSequence
<1>4. /\ v \in Seq(WireType) /\ Len(v) = Len(w) + Len(f)
      /\ \A k \in 1..(Len(w) + Len(f)) : v[k] = IF k <= Len(w) THEN w[k] ELSE f[k - Len(w)]
  BY <1>3, ConcatFacts
<1> HIDE DEF v
<1>5. \A k \in 1..Len(w) : k \in 1..Len(v) /\ v[k] = w[k]
  BY <1>1, <1>3, <1>4
<1>6. ASSUME NEW i \in 1..Len(q)
      PROVE  at[i] \in 1..Len(v) /\ v[at[i]] = f[i]
  <2>1. at[i] \in 1..(Len(w) + Len(f)) /\ ~ (at[i] <= Len(w)) /\ at[i] - Len(w) = i
    BY <1>1, <1>3
  <2> HIDE DEF at
  <2> QED BY <1>4, <2>1
<1>7. at \in [1..Len(q) -> 1..Len(v)]
  BY <1>6
<1>8. \A k \in 1..Len(v) : k \in 1..Len(w) \/ \E i \in 1..Len(q) : k = at[i]
  <2>1. \A k \in 1..Len(v) :
          k \in 1..Len(w) \/ (k - Len(w) \in 1..Len(q) /\ k = Len(w) + (k - Len(w)))
    BY <1>1, <1>3, <1>4
  <2> QED BY <2>1
<1> HIDE DEF at
<1>9. \A i \in 1..Len(q) : v[at[i]].of = q[i] /\ v[at[i]].what = "text" /\ v[at[i]].how = how
  BY <1>6
<1>10. \E a \in [1..Len(q) -> 1..Len(v)] :
         /\ \A i \in 1..Len(q) : v[a[i]].of = q[i] /\ v[a[i]].what = "text" /\ v[a[i]].how = how
         /\ \A k \in 1..Len(v) : k \in 1..Len(w) \/ \E i \in 1..Len(q) : k = a[i]
  <2>1. at \in [1..Len(q) -> 1..Len(v)]
    BY <1>7
  <2> WITNESS at \in [1..Len(q) -> 1..Len(v)]
  <2> QED BY <1>8, <1>9
<1>11. SentAfter(v, w, q, how)
  BY <1>4, <1>5, <1>10 DEF SentAfter
<1> QED BY <1>11 DEF v

LEMMA SendAllGood ==
  ASSUME NEW s, NEW N \in SUBSET Nat, texts' \in Seq(TextType), Good(s, N, texts'),
         O!How(s) \in Modes
  PROVE  Good([O!SendAll(s) EXCEPT !.chat.queue = <<>>], N, texts')
<1> DEFINE q == s.chat.queue
           w == s.wire
           how == O!How(s)
           f == [i \in DOMAIN q |-> [of |-> q[i], what |-> "text", how |-> how]]
           new == {n \in O!ToSet(q) : how = "plain" /\ texts'[n].form = "url"}
           t == [O!SendAll(s) EXCEPT !.chat.queue = <<>>]
           v == w \o f
<1>0. s \in SendType /\ Places(s, N) /\ Kept(s, texts')
  BY DEF Good
<1>1. w \in Seq(WireType) /\ q \in Seq(Nat)
  BY <1>0 DEF SendType, ChatType
<1>2. SentAfter(v, w, q, how)
  <2>1. how \in Modes
    OBVIOUS
  <2> HIDE DEF w, q, how
  <2>2. DOMAIN q = 1..Len(q) /\ \A i \in 1..Len(q) : q[i] \in Nat
    BY <1>1, LenProperties, ElementOfSeq
  <2>4. \A i \in 1..Len(q) : /\ f[i] \in WireType
                           /\ f[i].of = q[i] /\ f[i].what = "text" /\ f[i].how = how
    BY <2>1, <2>2 DEF WireType
  <2>3. f \in [1..Len(q) -> WireType]
    BY <2>2, <2>4
  <2> HIDE DEF f
  <2> QED BY <1>1, <2>1, <2>3, <2>4, WireConcat
<1>3. new \subseteq Nat /\ \A n \in new : InQueue(q, n) /\ how = "plain"
  <2>1. \A n \in O!ToSet(q) : \E i \in 1..Len(q) : n = q[i] /\ q[i] \in Nat
    BY <1>1, LenProperties, ElementOfSeq DEF O!ToSet
  <2> QED BY <2>1 DEF InQueue
<1>4. O!SendAll(s) = [s EXCEPT !.wire = v, !.chat.previews = @ \union new]
  BY DEF O!SendAll
<1>5. <<>> \in Seq(Nat) /\ Len(<<>>) = 0
  BY EmptySeq
<1> HIDE DEF f, new, v, how
<1>6. /\ t \in SendType /\ t.wire = v /\ t.gone = s.gone
      /\ t.chat.queue = <<>> /\ t.chat.omemo = s.chat.omemo
      /\ t.chat.probes = s.chat.probes /\ t.chat.uploads = s.chat.uploads
      /\ t.chat.previews = s.chat.previews \union new
  <2> DEFINE c == [s.chat EXCEPT !.previews = @ \union new]
             d == [c EXCEPT !.queue = <<>>]
  <2>1. /\ c \in ChatType /\ c.omemo = s.chat.omemo
        /\ c.probes = s.chat.probes /\ c.uploads = s.chat.uploads
        /\ c.previews = s.chat.previews \union new
    BY <1>0, <1>3 DEF SendType, ChatType
  <2>2. O!SendAll(s) = [s EXCEPT !.wire = v, !.chat = c]
    BY <1>0, <1>4 DEF SendType, ChatType
  <2> HIDE DEF c
  <2>3. /\ d \in ChatType /\ d.queue = <<>> /\ d.omemo = c.omemo /\ d.probes = c.probes
        /\ d.uploads = c.uploads /\ d.previews = c.previews
    BY <2>1, <1>5 DEF ChatType
  <2>4. t = [s EXCEPT !.wire = v, !.chat = d]
    BY <1>0, <2>2 DEF SendType
  <2> HIDE DEF d, t
  <2>5. v \in Seq(WireType)
    BY <1>2 DEF SentAfter
  <2> QED BY <1>0, <2>1, <2>3, <2>4, <2>5 DEF SendType
<1> HIDE DEF t, w, q
<1>14. PICK at \in [1..Len(q) -> 1..Len(v)] :
         /\ \A i \in 1..Len(q) :
              v[at[i]].of = q[i] /\ v[at[i]].what = "text" /\ v[at[i]].how = how
         /\ \A k \in 1..Len(v) : k \in 1..Len(w) \/ \E i \in 1..Len(q) : k = at[i]
  BY <1>2 DEF SentAfter
<1>15. /\ \A k \in 1..Len(w) : k \in 1..Len(v) /\ v[k] = w[k]
       /\ \A i \in 1..Len(q) : at[i] \in 1..Len(v)
  BY <1>2 DEF SentAfter
<1>7. \A n : OnWire(v, n) <=> (OnWire(w, n) \/ InQueue(q, n))
  <2>1. ASSUME NEW n, OnWire(v, n) PROVE OnWire(w, n) \/ InQueue(q, n)
    <3>1. PICK k \in 1..Len(v) : v[k].of = n /\ v[k].what # "preview"
      BY <2>1 DEF OnWire
    <3>2. CASE k \in 1..Len(w)
      <4>1. v[k] = w[k]
        BY <1>14, <1>15, <3>2
      <4> QED BY <3>1, <3>2, <4>1 DEF OnWire
    <3>3. ASSUME NEW i \in 1..Len(q), k = at[i] PROVE InQueue(q, n)
      BY <1>14, <3>1, <3>3 DEF InQueue
    <3> QED BY <1>14, <3>2, <3>3
  <2>2. ASSUME NEW n, OnWire(w, n) PROVE OnWire(v, n)
    BY <1>14, <1>15, <2>2 DEF OnWire
  <2>3. ASSUME NEW n, InQueue(q, n) PROVE OnWire(v, n)
    <3>1. PICK i \in 1..Len(q) : q[i] = n
      BY <2>3 DEF InQueue
    <3> QED BY <1>14, <1>15, <3>1 DEF OnWire
  <2> QED BY <2>1, <2>2, <2>3
<1>8. /\ WireOnce(w) /\ QueueOnce(q)
      /\ \A n \in Nat : ~ (OnWire(w, n) /\ InQueue(q, n))
  BY <1>0 DEF Places, w, q
<1>9. WireOnce(v)
  <2>1. \A i \in 1..Len(q) : InQueue(q, q[i]) /\ q[i] \in Nat
    BY <1>1, ElementOfSeq DEF InQueue
  <2>2. \A k \in 1..Len(w) : w[k].what # "preview" => OnWire(w, w[k].of)
    BY DEF OnWire
  <2>3. \A i \in 1..Len(q), k \in 1..Len(w) : ~ (w[k].what # "preview" /\ w[k].of = q[i])
    BY <1>8, <2>1, <2>2
  <2>4. \A i, j \in 1..Len(q) : q[i] = q[j] => i = j
    BY <1>8 DEF QueueOnce
  <2>5. \A j, k \in 1..Len(w) :
          w[j].what # "preview" /\ w[k].what # "preview" /\ w[j].of = w[k].of => j = k
    BY <1>8 DEF WireOnce
  <2>6. ASSUME NEW j \in 1..Len(v), NEW k \in 1..Len(v),
               v[j].what # "preview", v[k].what # "preview", v[j].of = v[k].of
        PROVE  j = k
    <3>1. CASE j \in 1..Len(w) /\ k \in 1..Len(w)
      <4>1. v[j] = w[j] /\ v[k] = w[k]
        BY <1>14, <1>15, <3>1
      <4> QED BY <2>5, <2>6, <3>1, <4>1
    <3>2. ASSUME NEW i \in 1..Len(q), v[j].of = q[i], k \in 1..Len(w)
          PROVE  FALSE
      <4>1. v[k] = w[k]
        BY <1>14, <1>15, <3>2
      <4> QED BY <2>3, <2>6, <3>2, <4>1
    <3>3. ASSUME NEW i \in 1..Len(q), v[k].of = q[i], j \in 1..Len(w)
          PROVE  FALSE
      <4>1. v[j] = w[j]
        BY <1>14, <1>15, <3>3
      <4> QED BY <2>3, <2>6, <3>3, <4>1
    <3>4. ASSUME NEW i \in 1..Len(q), j = at[i], v[j].of = q[i],
                 NEW l \in 1..Len(q), k = at[l], v[k].of = q[l]
          PROVE  j = k
      BY <2>4, <2>6, <3>4
    <3>5. /\ j \in 1..Len(w) \/ \E i \in 1..Len(q) : j = at[i] /\ v[j].of = q[i]
          /\ k \in 1..Len(w) \/ \E i \in 1..Len(q) : k = at[i] /\ v[k].of = q[i]
      BY <1>14, <1>15
    <3> QED BY <3>1, <3>2, <3>3, <3>4, <3>5
  <2> QED BY <2>6 DEF WireOnce
<1>10. Places(t, N)
  <2>1. \A n : ~ InQueue(t.chat.queue, n)
    BY <1>5, <1>6 DEF InQueue
  <2>2. \A n : IsHeld(t.chat, n) <=> IsHeld(s.chat, n)
    BY <1>6 DEF IsHeld
  <2>3. QueueOnce(t.chat.queue) /\ HeldOnce(t.chat)
    BY <1>0, <1>5, <1>6 DEF QueueOnce, HeldOnce, Places
  <2> QED BY <1>0, <1>6, <1>7, <1>9, <2>1, <2>2, <2>3 DEF Places, q, w
<1>11. TrueWire(v, s.gone, texts')
  <2>1. TrueWire(w, s.gone, texts') /\ \A i \in 1..Len(q) :
          q[i] \in 1..Len(texts') /\ (s.chat.omemo \/ Clear(texts', q[i]))
    BY <1>0 DEF Kept, w, q
  <2>2. how = "omemo" \/ ~ s.chat.omemo
    BY <1>0, HowFacts DEF how, Modes
  <2>3. ASSUME NEW k \in 1..Len(w)
        PROVE  /\ v[k].of \in 1..Len(texts')
               /\ (v[k].what = "text" /\ v[k].how # "omemo") => Clear(texts', v[k].of)
               /\ v[k].what = "preview" => v[k].of \in s.gone \/ PlainIn(v, v[k].of, k)
    <3>1. \A j \in 1..k : v[j] = w[j]
      BY <1>14, <1>15
    <3>2. PlainIn(w, w[k].of, k) => PlainIn(v, w[k].of, k)
      BY <3>1 DEF PlainIn
    <3> QED BY <1>14, <1>15, <2>1, <3>2 DEF TrueWire
  <2>4. ASSUME NEW i \in 1..Len(q), NEW k \in 1..Len(v),
               v[k].of = q[i], v[k].what = "text", v[k].how = how
        PROVE  /\ v[k].of \in 1..Len(texts')
               /\ (v[k].what = "text" /\ v[k].how # "omemo") => Clear(texts', v[k].of)
               /\ v[k].what = "preview" => v[k].of \in s.gone \/ PlainIn(v, v[k].of, k)
    BY <1>14, <1>15, <2>1, <2>2, <2>4
  <2> QED BY <1>14, <1>15, <2>3, <2>4 DEF TrueWire
<1>12. \A n \in s.chat.previews \union new :
         n \in 1..Len(texts') /\ (n \in s.gone \/ PlainIn(v, n, Len(v)))
  <2>1. ASSUME NEW n \in s.chat.previews
        PROVE  n \in 1..Len(texts') /\ (n \in s.gone \/ PlainIn(v, n, Len(v)))
    <3>1. n \in 1..Len(texts') /\ (n \in s.gone \/ PlainIn(w, n, Len(w)))
      BY <1>0 DEF Kept, w
    <3>2. PlainIn(w, n, Len(w)) => PlainIn(v, n, Len(v))
      BY <1>14, <1>15 DEF PlainIn
    <3> QED BY <3>1, <3>2
  <2>2. ASSUME NEW n \in new
        PROVE  n \in 1..Len(texts') /\ (n \in s.gone \/ PlainIn(v, n, Len(v)))
    <3>1. PICK i \in 1..Len(q) : n = q[i] /\ how = "plain"
      BY <1>3 DEF InQueue
    <3>2. n \in 1..Len(texts')
      BY <1>0, <3>1 DEF Kept, q
    <3> QED BY <1>14, <1>15, <3>1, <3>2 DEF PlainIn
  <2> QED BY <2>1, <2>2
<1>13. Kept(t, texts')
  BY <1>0, <1>5, <1>6, <1>11, <1>12 DEF Kept
<1> QED BY <1>6, <1>10, <1>13 DEF Good, t

LEMMA FlushGood ==
  ASSUME NEW s, NEW N \in SUBSET Nat, texts' \in Seq(TextType), Good(s, N, texts')
  PROVE  Good(O!Flush(s), N, texts')
<1> DEFINE t == O!Flush(s)
           some == kind = "PM" /\ s.chat.queue # <<>>
<1>1. CASE some /\ O!How(s) = "failed"
  <2>1. t = O!Failed(s)
    BY <1>1 DEF O!Flush
  <2>2. ~ s.chat.omemo
    BY <1>1, HowFacts DEF Good
  <2> QED BY <2>1, <2>2, FailedGood
<1>2. CASE some /\ O!How(s) \in Modes
  <2>1. t = [O!SendAll(s) EXCEPT !.chat.queue = <<>>]
    BY <1>2 DEF O!Flush, Modes
  <2> HIDE DEF t
  <2> QED BY <1>2, <2>1, SendAllGood DEF t
<1>3. CASE ~ (some /\ O!How(s) = "failed") /\ ~ (some /\ O!How(s) \in Modes)
  <2>1. t = s
    BY <1>3 DEF O!Flush, Modes
  <2> QED BY <2>1
<1> QED BY <1>1, <1>2, <1>3

-----------------------------------------------------------------------------
(* The steps of the user, the server and the others.                       *)

\* Where the texts are does not depend on what stands beside them.
LEMMA PlacesSame ==
  ASSUME NEW s, NEW N, Places(s, N), NEW t,
         WireOnce(t.wire), \A n : OnWire(t.wire, n) <=> OnWire(s.wire, n),
         t.gone = s.gone, t.chat.queue = s.chat.queue,
         t.chat.probes = s.chat.probes, t.chat.uploads = s.chat.uploads
  PROVE  Places(t, N)
BY DEF Places, IsHeld, HeldOnce

\* What was clear stays so when more is entered or encryption is turned off.
LEMMA GoodLater ==
  ASSUME NEW s, NEW N, NEW x \in Seq(TextType), NEW y \in Seq(TextType), Good(s, N, x),
         \A n \in 1..Len(x) : /\ n \in 1..Len(y) /\ y[n].form = x[n].form /\ y[n].want = x[n].want
                              /\ x[n].switched => y[n].switched
  PROVE  Good(s, N, y)
<1>1. s \in SendType /\ Places(s, N) /\ Kept(s, x)
  BY DEF Good
<1>2. \A n \in 1..Len(x) : n \in 1..Len(y) /\ (Clear(x, n) => Clear(y, n))
  BY DEF Clear
<1>3. TrueWire(s.wire, s.gone, y)
  BY <1>1, <1>2 DEF Kept, TrueWire
<1>4. Kept(s, y)
  BY <1>1, <1>2, <1>3 DEF Kept
<1> QED BY <1>1, <1>4 DEF Good

LEMMA NowFacts ==
  ASSUME SendInv
  PROVE  /\ O!Now \in SendType /\ O!Now.able = able /\ O!Now.chat = chat
         /\ O!Now.wire = wire /\ O!Now.gone = gone
         /\ Places(O!Now, 1..Len(texts)) /\ Kept(O!Now, texts)
         /\ texts \in Seq(TextType) /\ Len(texts) \in Nat /\ 1..Len(texts) \subseteq Nat
         /\ able \in BOOLEAN /\ chat \in ChatType /\ wire \in Seq(WireType) /\ gone \in SUBSET Nat
<1>1. texts \in Seq(TextType) /\ Len(texts) \in Nat
  BY LenProperties DEF SendInv
<1>2. /\ O!Now.able = able /\ O!Now.chat = chat
      /\ O!Now.wire = wire /\ O!Now.gone = gone
  BY DEF O!Now
<1>3. O!Now \in SendType /\ Places(O!Now, 1..Len(texts)) /\ Kept(O!Now, texts)
  BY DEF SendInv, Good
<1> HIDE DEF O!Now
<1>4. able \in BOOLEAN /\ chat \in ChatType /\ wire \in Seq(WireType) /\ gone \in SUBSET Nat
  BY <1>2, <1>3 DEF SendType
<1> QED BY <1>1, <1>2, <1>3, <1>4

LEMMA BecomeFacts ==
  ASSUME texts' \in Seq(TextType), NEW s, Good(s, 1..Len(texts'), texts'), O!Become(s)
  PROVE  SendInv'
<1>1. s \in SendType
  BY DEF Good
<1>2. s = [able |-> able', chat |-> chat', wire |-> wire', gone |-> gone']
  BY <1>1 DEF O!Become, SendType
<1>3. Good([able |-> able', chat |-> chat', wire |-> wire', gone |-> gone'],
           1..Len(texts'), texts')
  BY <1>2
<1> QED BY <1>3 DEF SendInv, O!Now

LEMMA EnteredFacts ==
  ASSUME SendInv, NEW form \in O!Forms, O!Entered(form)
  PROVE  /\ texts' \in Seq(TextType) /\ Len(texts') \in 1..Len(texts')
         /\ Len(texts') \notin 1..Len(texts) /\ Len(texts') \in Nat
         /\ 1..Len(texts) \union {Len(texts')} = 1..Len(texts')
         /\ Good(O!Now, 1..Len(texts), texts')
         /\ chat.omemo \/ Clear(texts', Len(texts'))
<1> DEFINE e == [want |-> O!Mode(chat), form |-> form, switched |-> FALSE]
<1>1. texts' = Append(texts, e)
  BY DEF O!Entered
<1>2. e \in TextType /\ (~ chat.omemo => e.want # "omemo")
  BY NowFacts DEF O!Mode, TextType, Modes, ChatType
<1> HIDE DEF e
<1>3. texts \in Seq(TextType) /\ Len(texts) \in Nat
  BY NowFacts
<1>4. /\ texts' \in Seq(TextType) /\ Len(texts') = Len(texts) + 1
      /\ \A i \in 1..Len(texts) : texts'[i] = texts[i]
      /\ texts'[Len(texts')] = e
  BY <1>1, <1>2, <1>3, AppendProperties
<1>5. \A i \in 1..Len(texts) : i \in 1..Len(texts')
  BY <1>3, <1>4
<1>6. Good(O!Now, 1..Len(texts), texts')
  BY <1>3, <1>4, <1>5, GoodLater DEF SendInv
<1>7. chat.omemo \/ Clear(texts', Len(texts'))
  BY <1>2, <1>4 DEF Clear
<1> QED BY <1>3, <1>4, <1>6, <1>7

LEMMA EnterSends ==
  ASSUME SendInv, O!Enter
  PROVE  SendInv'
<1> DEFINE N == 1..Len(texts)
           n == Len(texts')
           s == O!Now
<1>1. PICK form \in {"text", "url"} : O!Entered(form)
  BY DEF O!Enter
<1>2. O!Become(O!Send(s, n, FALSE))
  BY DEF O!Enter
<1>3. /\ texts' \in Seq(TextType) /\ n \in 1..n /\ n \notin N
      /\ N \union {n} = 1..n /\ Good(s, N, texts') /\ N \in SUBSET Nat
      /\ s.chat.omemo \/ Clear(texts', n)
  BY <1>1, EnteredFacts, NowFacts DEF O!Forms
<1> HIDE DEF N, s
<1>4. Good(O!Send(s, n, FALSE), 1..n, texts')
  <2>1. Good(O!Send(s, n, FALSE), N \union {n}, texts')
    BY <1>3, SendGood
  <2> QED BY <1>3, <2>1
<1> QED BY <1>2, <1>3, <1>4, BecomeFacts DEF s

LEMMA MsgSends ==
  ASSUME SendInv, O!Msg
  PROVE  SendInv'
<1> DEFINE N == 1..Len(texts)
           n == Len(texts')
           s == O!Now
<1>2. O!Entered("msg") /\ O!Become(O!Put(s, n, "text", "plain"))
  BY DEF O!Msg
<1>3. /\ texts' \in Seq(TextType) /\ n \in 1..n /\ n \notin N
      /\ N \union {n} = 1..n /\ Good(s, N, texts') /\ N \in SUBSET Nat
  BY <1>2, EnteredFacts, NowFacts DEF O!Forms
<1>4. Clear(texts', n)
  <2>1. texts' = Append(texts, [want |-> O!Mode(chat), form |-> "msg", switched |-> FALSE])
    BY <1>2 DEF O!Entered
  <2> DEFINE e == [want |-> O!Mode(chat), form |-> "msg", switched |-> FALSE]
  <2>2. e \in TextType /\ e.form = "msg"
    BY NowFacts DEF O!Mode, TextType, Modes, ChatType, O!Forms
  <2> HIDE DEF e
  <2>3. texts'[n] = e
    <3>1. texts \in Seq(TextType)
      BY NowFacts
    <3> QED BY <2>1, <2>2, <3>1, AppendProperties DEF e
  <2> QED BY <2>2, <2>3 DEF Clear
<1> HIDE DEF N, s
<1>5. Good(O!Put(s, n, "text", "plain"), 1..n, texts')
  <2>1. Good(O!Put(s, n, "text", "plain"), N \union {n}, texts')
    BY <1>3, <1>4, PutGood DEF Modes
  <2> QED BY <1>3, <2>1
<1> QED BY <1>2, <1>3, <1>5, BecomeFacts DEF s

LEMMA ImageSends ==
  ASSUME SendInv, O!Image
  PROVE  SendInv'
<1> DEFINE N == 1..Len(texts)
           n == Len(texts')
           s == O!Now
<1>2. O!Entered("image") /\ (O!Become(O!Refuse(s, n)) \/ O!Become(O!Put(s, n, "file", "plain")))
  BY DEF O!Image
<1>3. /\ texts' \in Seq(TextType) /\ n \in 1..n /\ n \notin N
      /\ N \union {n} = 1..n /\ Good(s, N, texts') /\ N \in SUBSET Nat
  BY <1>2, EnteredFacts, NowFacts DEF O!Forms
<1> HIDE DEF N, s
<1>5. Good(O!Put(s, n, "file", "plain"), 1..n, texts') /\ Good(O!Refuse(s, n), 1..n, texts')
  <2>1. Good(O!Put(s, n, "file", "plain"), N \union {n}, texts')
    BY <1>3, PutGood DEF Modes
  <2>2. Good(O!Refuse(s, n), N \union {n}, texts')
    BY <1>3, RefuseGood
  <2> QED BY <1>3, <2>1, <2>2
<1> QED BY <1>2, <1>3, <1>5, BecomeFacts DEF s

LEMMA UploadSends ==
  ASSUME SendInv, O!Upload
  PROVE  SendInv'
<1> DEFINE N == 1..Len(texts)
           n == Len(texts')
           s == O!Now
           u == [of |-> n, sealed |-> chat.omemo]
           c == [chat EXCEPT !.uploads = @ \union {u}]
           t == [s EXCEPT !.chat = c]
<1>2. O!Entered("file") /\ chat' = c /\ UNCHANGED <<able, wire, gone>>
  BY DEF O!Upload
<1>3. /\ texts' \in Seq(TextType) /\ n \in 1..n /\ n \notin N /\ n \in Nat
      /\ N \union {n} = 1..n /\ Good(s, N, texts') /\ N \in SUBSET Nat
  BY <1>2, EnteredFacts, NowFacts DEF O!Forms
<1>4. s \in SendType /\ Places(s, N) /\ Kept(s, texts')
  BY <1>3 DEF Good
<1>5. /\ s.able = able /\ s.chat = chat /\ s.wire = wire /\ s.gone = gone /\ chat \in ChatType
  BY NowFacts
<1>6. /\ u.of = n /\ c \in ChatType /\ c.uploads = chat.uploads \union {u}
      /\ c.queue = chat.queue /\ c.omemo = chat.omemo /\ c.probes = chat.probes
      /\ c.previews = chat.previews
  <2>1. u \in [of : Nat, sealed : BOOLEAN] /\ u.of = n
    BY <1>3, <1>5 DEF ChatType
  <2> HIDE DEF u
  <2> QED BY <1>5, <2>1 DEF ChatType
<1> HIDE DEF N, s, u, c
<1>7. t \in SendType /\ t.chat = c /\ t.able = able /\ t.wire = s.wire /\ t.gone = s.gone
  BY <1>4, <1>5, <1>6 DEF SendType
<1> HIDE DEF t
<1>8. Places(t, N \union {n})
  BY <1>3, <1>4, <1>5, <1>6, <1>7, PlacesHold
<1>9. Kept(t, texts')
  BY <1>3, <1>4, <1>5, <1>6, <1>7, KeptSame
<1>10. Good(t, 1..n, texts')
  BY <1>3, <1>7, <1>8, <1>9 DEF Good
<1>11. O!Become(t)
  BY <1>2, <1>5, <1>7 DEF O!Become
<1> QED BY <1>3, <1>10, <1>11, BecomeFacts

\* What was held by an upload or a probe comes out of it, to be sent or given up.
LEMMA ReleaseFacts ==
  ASSUME SendInv, texts' = texts, NEW n, NEW c \in ChatType, NEW s,
         s = [O!Now EXCEPT !.chat = c],
         c.queue = chat.queue, c.omemo = chat.omemo, c.previews = chat.previews,
         \/ /\ n \in chat.probes
            /\ c.probes = chat.probes \ {n} /\ c.uploads = chat.uploads
         \/ /\ c.probes = chat.probes
            /\ \E u \in chat.uploads : u.of = n /\ c.uploads = chat.uploads \ {u}
  PROVE  /\ Good(s, 1..Len(texts) \ {n}, texts') /\ n \in 1..Len(texts')
         /\ (1..Len(texts) \ {n}) \union {n} = 1..Len(texts')
         /\ texts' \in Seq(TextType) /\ 1..Len(texts) \ {n} \in SUBSET Nat
         /\ s.chat = c
<1> DEFINE N == 1..Len(texts)
           m == O!Now
<1>1. /\ m \in SendType /\ m.able = able /\ m.chat = chat /\ m.wire = wire /\ m.gone = gone
      /\ Places(m, N) /\ Kept(m, texts) /\ texts \in Seq(TextType) /\ N \in SUBSET Nat
      /\ chat \in ChatType
  BY NowFacts
<1> HIDE DEF N, m
<1>2. s \in SendType /\ s.chat = c /\ s.able = able /\ s.wire = m.wire /\ s.gone = m.gone
  BY <1>1 DEF SendType, m
<1>3. n \in Nat
  BY <1>1 DEF ChatType
<1>4. Places(s, N \ {n}) /\ n \in N
  <2>1. /\ Places(m, N) /\ m \in SendType /\ s \in SendType
        /\ s.wire = m.wire /\ s.gone = m.gone /\ s.chat.queue = m.chat.queue
    BY <1>1, <1>2
  <2>2. CASE n \in chat.probes /\ c.probes = chat.probes \ {n} /\ c.uploads = chat.uploads
    <3>1. /\ n \in m.chat.probes /\ s.chat.probes = m.chat.probes \ {n}
          /\ s.chat.uploads = m.chat.uploads
      BY <1>1, <1>2, <2>2
    <3> QED BY <1>1, <2>1, <3>1, PlacesProbed
  <2>3. CASE /\ c.probes = chat.probes
             /\ \E u \in chat.uploads : u.of = n /\ c.uploads = chat.uploads \ {u}
    <3>1. PICK u \in chat.uploads : u.of = n /\ c.uploads = chat.uploads \ {u}
      BY <2>3
    <3>2. /\ s.chat.probes = m.chat.probes /\ u \in m.chat.uploads
          /\ s.chat.uploads = m.chat.uploads \ {u}
      BY <1>1, <1>2, <2>3, <3>1
    <3>3. Places(s, N \ {u.of}) /\ u.of \in N
      BY <1>1, <2>1, <3>2, PlacesUploaded
    <3> QED BY <3>1, <3>3
  <2> QED BY <2>2, <2>3
<1>5. Kept(s, texts)
  BY <1>1, <1>2, KeptSame
<1> QED BY <1>1, <1>2, <1>4, <1>5 DEF Good, N

LEMMA UploadedSends ==
  ASSUME SendInv, NEW u \in chat.uploads, O!Uploaded(u)
  PROVE  SendInv'
<1> DEFINE c == [chat EXCEPT !.uploads = @ \ {u}]
           s == [O!Now EXCEPT !.chat = c]
           n == u.of
           N == 1..Len(texts) \ {n}
<1>1. chat \in ChatType /\ O!Now.chat = chat /\ O!Now \in SendType
  BY NowFacts
<1>2. /\ c \in ChatType /\ c.uploads = chat.uploads \ {u}
      /\ c.queue = chat.queue /\ c.omemo = chat.omemo /\ c.probes = chat.probes
      /\ c.previews = chat.previews
  BY <1>1 DEF ChatType
<1>3. s = [O!Now EXCEPT !.chat.uploads = @ \ {u}]
  BY <1>1 DEF SendType, ChatType
<1>4. texts' = texts /\ (O!Become(O!Share(s, n)) \/ O!Become(O!Refuse(s, n)))
  BY <1>3 DEF O!Uploaded
<1> HIDE DEF c
<1>5. /\ Good(s, N, texts') /\ n \in 1..Len(texts') /\ N \union {n} = 1..Len(texts')
      /\ texts' \in Seq(TextType) /\ N \in SUBSET Nat /\ n \notin N
  BY <1>2, <1>4, ReleaseFacts
<1> HIDE DEF s, N
<1>6. Good(O!Share(s, n), 1..Len(texts'), texts') /\ Good(O!Refuse(s, n), 1..Len(texts'), texts')
  <2>1. Good(O!Share(s, n), N \union {n}, texts')
    BY <1>5, ShareGood
  <2>2. Good(O!Refuse(s, n), N \union {n}, texts')
    BY <1>5, RefuseGood
  <2> QED BY <1>5, <2>1, <2>2
<1> QED BY <1>4, <1>5, <1>6, BecomeFacts

LEMMA ProbedSends ==
  ASSUME SendInv, NEW n \in chat.probes, O!Probed(n)
  PROVE  SendInv'
<1> DEFINE c == [chat EXCEPT !.probes = @ \ {n}]
           s == [O!Now EXCEPT !.chat = c]
           N == 1..Len(texts) \ {n}
<1>1. chat \in ChatType /\ O!Now.chat = chat /\ O!Now \in SendType /\ Kept(O!Now, texts)
  BY NowFacts
<1>2. /\ c \in ChatType /\ c.probes = chat.probes \ {n}
      /\ c.queue = chat.queue /\ c.omemo = chat.omemo /\ c.uploads = chat.uploads
      /\ c.previews = chat.previews
  BY <1>1 DEF ChatType
<1>3. s = [O!Now EXCEPT !.chat.probes = @ \ {n}]
  BY <1>1 DEF SendType, ChatType
<1>4. texts' = texts /\ (O!Become(O!Share(s, n)) \/ O!Become(O!Send(s, n, TRUE)))
  BY <1>3 DEF O!Probed
<1> HIDE DEF c
<1>5. /\ Good(s, N, texts') /\ n \in 1..Len(texts') /\ N \union {n} = 1..Len(texts')
      /\ texts' \in Seq(TextType) /\ N \in SUBSET Nat /\ n \notin N
  BY <1>2, <1>4, ReleaseFacts
<1>6. Clear(texts', n)
  BY <1>1, <1>4 DEF Kept
<1> HIDE DEF s, N
<1>7. /\ Good(O!Share(s, n), 1..Len(texts'), texts')
      /\ Good(O!Send(s, n, TRUE), 1..Len(texts'), texts')
  <2>1. Good(O!Share(s, n), N \union {n}, texts')
    BY <1>5, ShareGood
  <2>2. Good(O!Send(s, n, TRUE), N \union {n}, texts')
    BY <1>5, <1>6, SendGood
  <2> QED BY <1>5, <2>1, <2>2
<1> QED BY <1>4, <1>5, <1>7, BecomeFacts

LEMMA PreviewedSends ==
  ASSUME SendInv, NEW n \in chat.previews, O!Previewed(n)
  PROVE  SendInv'
<1> DEFINE c == [chat EXCEPT !.previews = @ \ {n}]
           m == O!Now
           s == [m EXCEPT !.chat = c]
           N == 1..Len(texts)
           e == [of |-> n, what |-> "preview", how |-> "plain"]
           t == O!Put(s, n, "preview", "plain")
<1>1. /\ m \in SendType /\ m.able = able /\ m.chat = chat /\ m.wire = wire /\ m.gone = gone
      /\ Places(m, N) /\ Kept(m, texts) /\ texts \in Seq(TextType) /\ N \in SUBSET Nat
      /\ chat \in ChatType /\ wire \in Seq(WireType)
  BY NowFacts
<1>2. /\ c \in ChatType /\ c.previews = chat.previews \ {n}
      /\ c.queue = chat.queue /\ c.omemo = chat.omemo /\ c.uploads = chat.uploads
      /\ c.probes = chat.probes
  BY <1>1 DEF ChatType
<1>3. s = [m EXCEPT !.chat.previews = @ \ {n}]
  BY <1>1 DEF SendType, ChatType
<1>4. texts' = texts /\ (O!Become(s) \/ O!Become(t))
  <2>1. PICK found \in BOOLEAN :
          O!Become(IF found
                   THEN O!Put([O!Now EXCEPT !.chat.previews = @ \ {n}], n, "preview", "plain")
                   ELSE [O!Now EXCEPT !.chat.previews = @ \ {n}])
    BY DEF O!Previewed
  <2>2. texts' = texts
    BY DEF O!Previewed
  <2> HIDE DEF c
  <2> QED BY <1>3, <2>1, <2>2
<1> HIDE DEF c, m
<1>5. s \in SendType /\ s.chat = c /\ s.able = able /\ s.wire = m.wire /\ s.gone = m.gone
  BY <1>1, <1>2 DEF SendType
<1> HIDE DEF s
<1>6. n \in Nat /\ n \in 1..Len(texts) /\ (n \in s.gone \/ PlainIn(s.wire, n, Len(s.wire)))
  BY <1>1, <1>5 DEF Kept, ChatType
<1>7. Places(s, N) /\ Kept(s, texts)
  <2>1. WireOnce(m.wire)
    BY <1>1 DEF Places
  <2> QED BY <1>1, <1>2, <1>5, <2>1, PlacesSame, KeptSame
<1>8. e \in WireType /\ e.of = n /\ e.what = "preview"
  BY <1>6 DEF WireType, Modes
<1>9. /\ t \in SendType /\ t.chat = s.chat
      /\ \/ t.wire = Append(s.wire, e) /\ t.gone = s.gone
         \/ t = s
  <2>1. "plain" \in Modes /\ "preview" \in {"text", "file", "preview"}
    BY DEF Modes
  <2> QED BY <1>5, <1>6, <2>1, PutFacts
<1> HIDE DEF t, e, N
<1>10. Places(t, N) /\ Kept(t, texts)
  <2>1. CASE t = s
    BY <1>7, <2>1
  <2>2. CASE t.wire = Append(s.wire, e) /\ t.gone = s.gone
    <3>1. s.wire \in Seq(WireType) /\ WireOnce(s.wire)
      BY <1>5, <1>7 DEF SendType, Places
    <3>2. WireOnce(t.wire) /\ \A k : OnWire(t.wire, k) <=> OnWire(s.wire, k)
      BY <1>8, <2>2, <3>1, WireAppend
    <3>3. Places(t, N)
      BY <1>7, <1>9, <2>2, <3>2, PlacesSame
    <3>4. Kept(t, texts)
      BY <1>1, <1>5, <1>6, <1>7, <1>8, <1>9, <2>2, KeptPut
    <3> QED BY <3>3, <3>4
  <2> QED BY <1>9, <2>1, <2>2
<1>11. Good(s, 1..Len(texts'), texts') /\ Good(t, 1..Len(texts'), texts')
  BY <1>4, <1>5, <1>7, <1>9, <1>10 DEF Good, N
<1> QED BY <1>1, <1>4, <1>11, BecomeFacts

\* Modes, sessions, keys and the connection change; nothing moves.
LEMMA ModesSend ==
  ASSUME SendInv, texts' = texts, wire' = wire, gone' = gone, able' \in BOOLEAN,
         chat' \in ChatType, chat.omemo => chat'.omemo, chat'.queue = chat.queue,
         chat'.probes = chat.probes, chat'.previews = chat.previews, chat'.uploads = chat.uploads
  PROVE  SendInv'
<1> DEFINE t == [able |-> able', chat |-> chat', wire |-> wire', gone |-> gone']
           N == 1..Len(texts)
<1>1. /\ O!Now \in SendType /\ O!Now.chat = chat /\ O!Now.wire = wire /\ O!Now.gone = gone
      /\ Places(O!Now, N) /\ Kept(O!Now, texts) /\ texts \in Seq(TextType)
      /\ wire \in Seq(WireType) /\ gone \in SUBSET Nat
  BY NowFacts
<1>2. /\ t \in SendType /\ t.chat = chat' /\ t.wire = wire /\ t.gone = gone /\ t.able = able'
      /\ t.wire = wire' /\ t.gone = gone'
  BY <1>1 DEF SendType
<1> HIDE DEF t, N
<1>3. WireOnce(wire)
  BY <1>1 DEF Places
<1>4. Places(t, N)
  BY <1>1, <1>2, <1>3, PlacesSame
<1>5. Kept(t, texts)
  BY <1>1, <1>2, KeptSame
<1>6. Good(t, 1..Len(texts'), texts')
  BY <1>2, <1>4, <1>5 DEF Good, N
<1>7. O!Become(t)
  BY <1>2 DEF O!Become
<1> QED BY <1>1, <1>6, <1>7, BecomeFacts

LEMMA TurnOffSends ==
  ASSUME SendInv, O!TurnOff
  PROVE  SendInv'
<1> DEFINE t == [able |-> able', chat |-> chat', wire |-> wire', gone |-> gone']
           N == 1..Len(texts)
<1>1. /\ O!Now \in SendType /\ O!Now.chat = chat /\ O!Now.wire = wire /\ O!Now.gone = gone
      /\ O!Now.able = able
      /\ Places(O!Now, N) /\ Kept(O!Now, texts) /\ texts \in Seq(TextType) /\ Len(texts) \in Nat
      /\ wire \in Seq(WireType) /\ gone \in SUBSET Nat /\ able \in BOOLEAN /\ chat \in ChatType
  BY NowFacts
<1>2. /\ texts' = O!Switched /\ able' = able /\ wire' = wire /\ gone' = gone
      /\ \E mode \in {"plain", "pgp"} :
           chat' = [chat EXCEPT !.omemo = FALSE, !.pgp = (mode = "pgp")]
  BY DEF O!TurnOff
<1>3. /\ chat' \in ChatType /\ chat'.queue = chat.queue /\ chat'.probes = chat.probes
      /\ chat'.previews = chat.previews /\ chat'.uploads = chat.uploads
  BY <1>1, <1>2 DEF ChatType
<1>4. /\ t \in SendType /\ t.chat = chat' /\ t.wire = wire /\ t.gone = gone /\ t.able = able'
      /\ t.wire = wire' /\ t.gone = gone'
  BY <1>1, <1>2, <1>3 DEF SendType
<1>5. /\ texts' \in Seq(TextType) /\ Len(texts') = Len(texts)
      /\ \A n \in 1..Len(texts) : Clear(texts', n)
  <2>1. DOMAIN texts = 1..Len(texts) /\ \A n \in 1..Len(texts) : texts[n] \in TextType
    BY <1>1, LenProperties, ElementOfSeq
  <2>2. \A n \in 1..Len(texts) :
          /\ texts'[n] = [texts[n] EXCEPT !.switched = @ \/ texts[n].want = "omemo"]
    BY <1>2, <2>1 DEF O!Switched
  <2>3. \A n \in 1..Len(texts) : /\ texts'[n] \in TextType
                                 /\ texts'[n].want = "omemo" => texts'[n].switched
    BY <2>1, <2>2 DEF TextType
  <2>4. texts' \in [1..Len(texts) -> TextType]
    BY <1>2, <2>1, <2>3 DEF O!Switched
  <2>5. texts' \in Seq(TextType) /\ Len(texts') = Len(texts)
    BY <1>1, <2>4, IsSequence
  <2> QED BY <2>3, <2>5 DEF Clear
<1> HIDE DEF t, N
<1>6. WireOnce(wire)
  BY <1>1 DEF Places
<1>7. Places(t, N)
  BY <1>1, <1>3, <1>4, <1>6, PlacesSame
<1>8. Kept(t, texts')
  BY <1>1, <1>3, <1>4, <1>5 DEF Kept, TrueWire
<1>9. Good(t, 1..Len(texts'), texts')
  BY <1>4, <1>5, <1>7, <1>8 DEF Good, N
<1>10. O!Become(t)
  BY <1>4 DEF O!Become
<1> QED BY <1>5, <1>9, <1>10, BecomeFacts

LEMMA CloseSends ==
  ASSUME SendInv, O!Close
  PROVE  SendInv'
<1> DEFINE t == [able |-> able', chat |-> chat', wire |-> wire', gone |-> gone']
           N == 1..Len(texts)
           s == O!Now
<1>1. /\ s \in SendType /\ s.chat = chat /\ s.wire = wire /\ s.gone = gone
      /\ Places(s, N) /\ Kept(s, texts) /\ texts \in Seq(TextType) /\ Len(texts) \in Nat
      /\ wire \in Seq(WireType) /\ gone \in SUBSET Nat /\ able \in BOOLEAN /\ chat \in ChatType
  BY NowFacts
<1>2. /\ texts' = texts /\ able' = able /\ wire' = wire
      /\ gone' = gone \union O!ToSet(chat.queue) \union chat.probes
      /\ \E again \in BOOLEAN :
           chat' = [O!Channel EXCEPT !.open = again, !.uploads = chat.uploads]
  BY DEF O!Close
<1>3. <<>> \in Seq(Nat) /\ Len(<<>>) = 0
  BY EmptySeq
<1>4. /\ chat' \in ChatType /\ chat'.queue = <<>> /\ chat'.probes = {}
      /\ chat'.previews = {} /\ chat'.uploads = chat.uploads
  BY <1>1, <1>2, <1>3 DEF ChatType, O!Channel
<1>5. \A n : n \in O!ToSet(chat.queue) <=> InQueue(chat.queue, n)
  <2>1. DOMAIN chat.queue = 1..Len(chat.queue)
    BY <1>1, LenProperties DEF ChatType
  <2> QED BY <2>1 DEF O!ToSet, InQueue
<1>6. /\ gone' \in SUBSET Nat
      /\ \A n : n \in gone' <=> (n \in gone \/ InQueue(chat.queue, n) \/ n \in chat.probes)
  <2>1. \A n : InQueue(chat.queue, n) => n \in Nat
    <3>1. chat.queue \in Seq(Nat)
      BY <1>1 DEF ChatType
    <3> QED BY <3>1, ElementOfSeq DEF InQueue
  <2>2. \A n \in chat.probes : n \in Nat
    BY <1>1 DEF ChatType
  <2> QED BY <1>1, <1>2, <1>5, <2>1, <2>2
<1>7. /\ t \in SendType /\ t.chat = chat' /\ t.wire = wire /\ t.gone = gone' /\ t.able = able'
      /\ t.wire = wire'
  BY <1>1, <1>2, <1>4, <1>6 DEF SendType
<1> HIDE DEF t, N, s
<1>8. Places(t, N)
  <2>1. /\ \A n : ~ InQueue(chat'.queue, n)
        /\ QueueOnce(chat'.queue)
    BY <1>3, <1>4 DEF InQueue, QueueOnce
  <2>2. \A n : IsHeld(chat', n) <=> (IsHeld(chat, n) /\ n \notin chat.probes)
    BY <1>1, <1>4 DEF IsHeld, Places, HeldOnce
  <2>3. HeldOnce(chat') /\ WireOnce(wire)
    BY <1>1, <1>4 DEF HeldOnce, Places
  <2>4. \A n \in chat.probes : IsHeld(chat, n) /\ n \in Nat
    BY <1>1 DEF IsHeld, ChatType
  <2>5. \A n \in Nat : OnWire(wire, n) =>
          n \in N /\ ~ IsHeld(chat', n) /\ n \notin gone'
    BY <1>1, <1>6, <2>2, <2>4 DEF Places
  <2>6. \A n \in Nat : IsHeld(chat', n) => n \in N /\ n \notin gone'
    BY <1>1, <1>6, <2>2, <2>4 DEF Places
  <2>7. \A n \in gone' : n \in N
    BY <1>1, <1>6, <2>4 DEF Places
  <2>8. \A n \in N : OnWire(wire, n) \/ IsHeld(chat', n) \/ n \in gone'
    BY <1>1, <1>6, <2>2 DEF Places
  <2> QED BY <1>7, <2>1, <2>3, <2>5, <2>6, <2>7, <2>8 DEF Places
<1>9. Kept(t, texts)
  BY <1>1, <1>3, <1>4, <1>6, <1>7 DEF Kept, TrueWire
<1>10. Good(t, 1..Len(texts'), texts')
  BY <1>2, <1>7, <1>8, <1>9 DEF Good, N
<1>11. O!Become(t)
  BY <1>7 DEF O!Become
<1> QED BY <1>1, <1>2, <1>10, <1>11, BecomeFacts

\* A session made by a bundle or known by a device list: the queue is flushed.
LEMMA SessionSends ==
  ASSUME SendInv, O!Bundle \/ O!Devices
  PROVE  SendInv'
<1> DEFINE m == O!Now
           s == [m EXCEPT !.able = TRUE]
           N == 1..Len(texts)
<1>1. /\ m \in SendType /\ Places(m, N) /\ Kept(m, texts) /\ texts \in Seq(TextType)
      /\ N \in SUBSET Nat /\ m.gone \in SUBSET Nat
  BY NowFacts
<1>2. /\ texts' = texts
      /\ \/ O!Become(s) \/ O!Become(O!Flush(s)) \/ O!Become(O!Flush(m))
  BY DEF O!Bundle, O!Devices
<1> HIDE DEF m
<1>3. /\ s \in SendType /\ s.chat = m.chat /\ s.wire = m.wire /\ s.gone = m.gone
  BY <1>1 DEF SendType
<1> HIDE DEF s, N
<1>4. Places(s, N) /\ Kept(s, texts)
  <2>1. WireOnce(m.wire)
    BY <1>1 DEF Places
  <2> QED BY <1>1, <1>3, <2>1, PlacesSame, KeptSame
<1>5. Good(s, N, texts') /\ Good(m, N, texts') /\ texts' \in Seq(TextType)
  BY <1>1, <1>2, <1>3, <1>4 DEF Good
<1>6. Good(O!Flush(s), N, texts') /\ Good(O!Flush(m), N, texts')
  BY <1>1, <1>5, FlushGood
<1>7. N = 1..Len(texts')
  BY <1>2 DEF N
<1> QED BY <1>2, <1>5, <1>6, <1>7, BecomeFacts

LEMMA SendInit == O!Init => SendInv
<1> SUFFICES ASSUME O!Init PROVE SendInv
  OBVIOUS
<1> DEFINE m == O!Now
<1>1. \A T : <<>> \in Seq(T)
  BY EmptySeq
<1>2. Len(<<>>) = 0
  OBVIOUS
<1>3. O!Channel \in ChatType
  BY <1>1 DEF O!Channel, ChatType
<1>4. /\ texts = <<>> /\ m \in SendType /\ m.wire = <<>> /\ m.gone = {}
      /\ m.chat.queue = <<>> /\ m.chat.probes = {} /\ m.chat.previews = {}
      /\ m.chat.uploads = {}
  BY <1>1, <1>3 DEF O!Init, O!Now, SendType, O!Channel
<1>5. Len(texts) = 0 /\ texts \in Seq(TextType) /\ 1..Len(texts) = {}
  BY <1>1, <1>2, <1>4
<1> HIDE DEF m
<1>6. Places(m, {})
  BY <1>2, <1>4 DEF Places, WireOnce, QueueOnce, HeldOnce, OnWire, InQueue, IsHeld
<1>7. Kept(m, texts)
  BY <1>2, <1>4 DEF Kept, TrueWire
<1> QED BY <1>4, <1>5, <1>6, <1>7 DEF SendInv, Good, m

\* One step per action of Outgoing.
LEMMA SendStep == SendInv /\ [O!Next]_O!vars => SendInv'
<1> SUFFICES ASSUME SendInv, [O!Next]_O!vars PROVE SendInv'
  OBVIOUS
<1>1. /\ able \in BOOLEAN /\ chat \in ChatType
  BY NowFacts
<1>2. CASE O!Enter
  BY <1>2, EnterSends
<1>3. CASE O!Msg
  BY <1>3, MsgSends
<1>4. CASE O!Image
  BY <1>4, ImageSends
<1>5. CASE O!Upload
  BY <1>5, UploadSends
<1>6. CASE O!TurnOff
  BY <1>6, TurnOffSends
<1>7. CASE O!TurnOn
  <2>1. chat' = [chat EXCEPT !.omemo = TRUE, !.pgp = FALSE]
    BY <1>7 DEF O!TurnOn
  <2>2. /\ chat' \in ChatType /\ chat'.omemo /\ chat'.queue = chat.queue
        /\ chat'.probes = chat.probes /\ chat'.previews = chat.previews
        /\ chat'.uploads = chat.uploads
    BY <1>1, <2>1 DEF ChatType
  <2> QED BY <1>1, <1>7, <2>2, ModesSend DEF O!TurnOn
<1>8. CASE \E how \in {"omemo", "pgp"} : O!Received(how)
  <2>1. /\ \/ chat' = [chat EXCEPT !.omemo = TRUE]
           \/ chat' = [chat EXCEPT !.pgp = @ \/ kind = "PM"]
        /\ able' \in BOOLEAN /\ texts' = texts /\ wire' = wire /\ gone' = gone
    BY <1>8 DEF O!Received
  <2>2. /\ chat' \in ChatType /\ (chat.omemo => chat'.omemo)
        /\ chat'.queue = chat.queue /\ chat'.probes = chat.probes /\ chat'.previews = chat.previews
        /\ chat'.uploads = chat.uploads
    BY <1>1, <2>1 DEF ChatType
  <2> QED BY <2>1, <2>2, ModesSend
<1>9. CASE O!Change
  <2>1. able' \in BOOLEAN
    BY <1>1, <1>9 DEF O!Change
  <2> QED BY <1>1, <1>9, <2>1, ModesSend DEF O!Change
<1>10. CASE O!Link \/ UNCHANGED O!vars
  BY <1>1, <1>10, ModesSend DEF O!Link, O!vars
<1>11. CASE O!Close
  BY <1>11, CloseSends
<1>12. CASE O!Bundle \/ O!Devices
  BY <1>12, SessionSends
<1>13. CASE \E u \in chat.uploads : O!Uploaded(u)
  BY <1>13, UploadedSends
<1>14. CASE \E n \in chat.probes : O!Probed(n)
  BY <1>14, ProbedSends
<1>15. CASE \E n \in chat.previews : O!Previewed(n)
  BY <1>15, PreviewedSends
<1> QED BY <1>2, <1>3, <1>4, <1>5, <1>6, <1>7, <1>8, <1>9, <1>10, <1>11, <1>12, <1>13, <1>14, <1>15
        DEF O!Next

THEOREM SendCorrect == TalkSpec => []SendInv
<1>1. TalkInit => SendInv
  BY SendInit DEF TalkInit
<1>2. SendInv /\ [TalkNext]_talkVars => SendInv'
  <2>1. [TalkNext]_talkVars => [O!Next]_O!vars
    BY DEF TalkNext, talkVars, sendVars, O!vars
  <2> QED BY <2>1, SendStep
<1> QED BY <1>1, <1>2, PTL DEF TalkSpec

\* A text entered while OMEMO is on goes out unencrypted only after the user has turned OMEMO
\* off, and a preview tells of no text that was not sent in the clear: through probes that
\* answer in another mode, queues that are flushed by a bundle or a device list, rooms and
\* sessions that come and go, gpg that fails and buffers that are closed (send_message,
\* flush_pending_omemo_messages).
THEOREM NeverDowngradedTheorem == TalkSpec => []NeverDowngraded
<1>1. SendInv => NeverDowngraded
  <2> SUFFICES ASSUME SendInv PROVE NeverDowngraded
    OBVIOUS
  <2>1. TrueWire(wire, gone, texts) /\ DOMAIN wire = 1..Len(wire)
    BY NowFacts, LenProperties DEF Kept
  <2>2. O!NeverDowngraded
    BY <2>1 DEF O!NeverDowngraded, TrueWire, Clear
  <2>3. O!PreviewIsOfPlain
    BY <2>1 DEF O!PreviewIsOfPlain, TrueWire, PlainIn
  <2> QED BY <2>2, <2>3 DEF NeverDowngraded
<1> QED BY <1>1, SendCorrect, PTL

\* Outgoing is instantiated with the standard modules it extends.
LEMMA SameCardinality == \A T : O!Cardinality(T) = Cardinality(T)
BY DEF O!Cardinality, Cardinality

\* A set that holds nothing but x.
LEMMA OnlyOne ==
  ASSUME NEW T, NEW x, T \subseteq {x}
  PROVE  /\ x \in T => Cardinality(T) = 1
         /\ x \notin T => Cardinality(T) = 0
<1>1. CASE x \in T
  <2>1. T = {x}
    BY <1>1
  <2> QED BY <1>1, <2>1, FS_Singleton
<1>2. CASE x \notin T
  <2>1. T = {}
    BY <1>2
  <2> QED BY <1>2, <2>1, FS_EmptySet
<1> QED BY <1>1, <1>2

\* What is entered is in one place: sent once, queued once, probed, uploaded or given up
\* (send_message, flush_pending_omemo_messages, upload_fd_cb, ~channel).
THEOREM TextIsOnceTheorem == TalkSpec => []TextIsOnce
<1>1. SendInv => TextIsOnce
  <2> SUFFICES ASSUME SendInv, NEW n \in DOMAIN texts
               PROVE  Cardinality(O!Sent(n)) + Cardinality(O!Queued(n)) + Cardinality(O!Held(n))
                        + Cardinality({n} \intersect gone) = 1
    BY SameCardinality DEF TextIsOnce, O!TextIsOnce
  <2>1. /\ Places(O!Now, 1..Len(texts)) /\ O!Now.wire = wire /\ O!Now.gone = gone
        /\ O!Now.chat = chat /\ n \in 1..Len(texts) /\ n \in Nat
        /\ DOMAIN wire = 1..Len(wire) /\ DOMAIN chat.queue = 1..Len(chat.queue)
    BY NowFacts, LenProperties DEF ChatType
  <2>2. /\ OnWire(wire, n) => Cardinality(O!Sent(n)) = 1
        /\ ~ OnWire(wire, n) => Cardinality(O!Sent(n)) = 0
    <3>1. CASE OnWire(wire, n)
      <4>1. PICK k \in 1..Len(wire) : wire[k].of = n /\ wire[k].what # "preview"
        BY <3>1 DEF OnWire
      <4>2. WireOnce(wire)
        BY <2>1 DEF Places
      <4>3. O!Sent(n) \subseteq {k} /\ k \in O!Sent(n)
        BY <2>1, <4>1, <4>2 DEF O!Sent, WireOnce
      <4> QED BY <3>1, <4>3, OnlyOne
    <3>2. CASE ~ OnWire(wire, n)
      <4>1. O!Sent(n) = {}
        BY <2>1, <3>2 DEF O!Sent, OnWire
      <4> QED BY <3>2, <4>1, FS_EmptySet
    <3> QED BY <3>1, <3>2
  <2>3. /\ InQueue(chat.queue, n) => Cardinality(O!Queued(n)) = 1
        /\ ~ InQueue(chat.queue, n) => Cardinality(O!Queued(n)) = 0
    <3>1. CASE InQueue(chat.queue, n)
      <4>1. PICK i \in 1..Len(chat.queue) : chat.queue[i] = n
        BY <3>1 DEF InQueue
      <4>2. QueueOnce(chat.queue)
        BY <2>1 DEF Places
      <4>3. O!Queued(n) \subseteq {i} /\ i \in O!Queued(n)
        BY <2>1, <4>1, <4>2 DEF O!Queued, QueueOnce
      <4> QED BY <3>1, <4>3, OnlyOne
    <3>2. CASE ~ InQueue(chat.queue, n)
      <4>1. O!Queued(n) = {}
        BY <2>1, <3>2 DEF O!Queued, InQueue
      <4> QED BY <3>2, <4>1, FS_EmptySet
    <3> QED BY <3>1, <3>2
  <2>4. /\ IsHeld(chat, n) => Cardinality(O!Held(n)) = 1
        /\ ~ IsHeld(chat, n) => Cardinality(O!Held(n)) = 0
    <3>1. HeldOnce(chat)
      BY <2>1 DEF Places
    <3>2. CASE n \in chat.probes
      <4>1. O!Held(n) \subseteq {n} /\ n \in O!Held(n) /\ IsHeld(chat, n)
        BY <3>1, <3>2 DEF O!Held, HeldOnce, IsHeld
      <4> QED BY <4>1, OnlyOne
    <3>3. CASE n \notin chat.probes /\ \E u \in chat.uploads : u.of = n
      <4>1. PICK u \in chat.uploads : u.of = n
        BY <3>3
      <4>2. O!Held(n) \subseteq {u} /\ u \in O!Held(n) /\ IsHeld(chat, n)
        BY <3>1, <3>3, <4>1 DEF O!Held, HeldOnce, IsHeld
      <4> QED BY <4>2, OnlyOne
    <3>4. CASE ~ IsHeld(chat, n)
      <4>1. O!Held(n) = {}
        BY <3>4 DEF O!Held, IsHeld
      <4> QED BY <3>4, <4>1, FS_EmptySet
    <3> QED BY <3>2, <3>3, <3>4 DEF IsHeld
  <2>5. /\ n \in gone => Cardinality({n} \intersect gone) = 1
        /\ n \notin gone => Cardinality({n} \intersect gone) = 0
    BY OnlyOne
  <2>6. /\ OnWire(wire, n) => ~ InQueue(chat.queue, n) /\ ~ IsHeld(chat, n) /\ n \notin gone
        /\ InQueue(chat.queue, n) => ~ IsHeld(chat, n) /\ n \notin gone
        /\ IsHeld(chat, n) => n \notin gone
        /\ OnWire(wire, n) \/ InQueue(chat.queue, n) \/ IsHeld(chat, n) \/ n \in gone
    BY <2>1 DEF Places
  <2> QED BY <2>2, <2>3, <2>4, <2>5, <2>6
<1> QED BY <1>1, SendCorrect, PTL

=============================================================================
