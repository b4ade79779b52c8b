--------------------------- MODULE Session_proofs ---------------------------
(***************************************************************************)
(* The account, its streams, and the forms that are exchanged on them.     *)
(*                                                                         *)
(* First the connection, and what server and contacts believe of the       *)
(* client, for any delays, any kind of setup and any number of elements on *)
(* the wire.  Then the counters of a stream that is resumed, on both sides *)
(* of their wrap-around, and what a stream error teaches, for any width of *)
(* the counters, any number of stanzas and connections and any server.     *)
(*                                                                         *)
(* Last the three uses of the form editor: that what is shown is what the  *)
(* client asked for, that an editor which waits will be answered, and that *)
(* the account which is added is the one that was registered, for any      *)
(* sessions, stages, passwords and numbers of requests in flight.          *)
(***************************************************************************)
EXTENDS MCStreams, MCForms, FiniteSetTheorems, TLAPS

-----------------------------------------------------------------------------
(* Reconnect by itself, whether or not attempts can fail at once.          *)
(* disconnect_impl, connect and the callbacks inside them are operators on *)
(* the account, so each gets a lemma that says what it leaves behind, and  *)
(* the steps of the specification follow from those.                       *)

Inv == TypeOK /\ StaysDown /\ Attended

\* The backoff stays within its bounds.
LEMMA NextDelayType ==
  ASSUME NEW d \in 0..MaxDelay
  PROVE  NextDelay(d) \in 0..MaxDelay
BY ReconnectConstants DEF NextDelay

Times == {None} \union (-1)..MaxDelay

LEMMA TimesFacts ==
  /\ None \in Times /\ -1 \in Times /\ -1 # None /\ 0 \in 0..MaxDelay
  /\ \A i \in 0..MaxDelay : i \in Times /\ i # None
BY ReconnectConstants DEF Times, None

\* Setting a time and a delay keeps the rest of the account.
LEMMA BackoffResult ==
  ASSUME NEW a \in Account, NEW d \in 0..MaxDelay, NEW t \in Times
  PROVE  LET b == Backoff(a, d, t)
         IN  b \in Account /\ b.conn = a.conn /\ b.due = t
BY DEF Backoff, Account, Times

\* What disconnect_impl schedules: nothing after a manual disconnect, else a time.
LEMMA ScheduleResult ==
  ASSUME NEW a \in Account, NEW reconnect \in BOOLEAN, NEW immediate \in BOOLEAN
  PROVE  LET b == Schedule(a, reconnect, immediate)
         IN  b \in Account /\ b.conn = a.conn /\ ((b.due = None) <=> ~reconnect)
<1> DEFINE s == Schedule(a, reconnect, immediate)
           d == NextDelay(a.reconnect_delay)
<1>1. CASE reconnect /\ immediate
  <2>1. s = Backoff(a, 0, -1)
    BY <1>1 DEF Schedule
  <2>2. s \in Account /\ s.conn = a.conn /\ s.due = -1
    BY <2>1, BackoffResult, TimesFacts
  <2> QED
    BY <1>1, <2>2, TimesFacts
<1>2. CASE reconnect /\ ~immediate
  <2>1. s = Backoff(a, d, d)
    BY <1>2 DEF Schedule
  <2>2. d \in 0..MaxDelay
    BY NextDelayType DEF Account
  <2> HIDE DEF d
  <2>3. d \in Times /\ d # None
    BY <2>2, TimesFacts
  <2>4. s \in Account /\ s.conn = a.conn /\ s.due = d
    BY <2>1, <2>2, <2>3, BackoffResult
  <2> QED
    BY <1>2, <2>3, <2>4
<1>3. CASE ~reconnect
  <2>1. s = Backoff(a, 0, None)
    BY <1>3 DEF Schedule
  <2>2. s \in Account /\ s.conn = a.conn /\ s.due = None
    BY <2>1, BackoffResult, TimesFacts
  <2> QED
    BY <1>3, <2>2, TimesFacts
<1> QED
  BY <1>1, <1>2, <1>3

LEMMA DisconnectedResult ==
  ASSUME NEW a \in Account, NEW reconnect \in BOOLEAN, NEW immediate \in BOOLEAN
  PROVE  LET b == Disconnected(a, reconnect, immediate)
         IN  /\ b \in Account
             /\ ~b.is_connected /\ b.conn = a.conn
             /\ (b.due = None) <=> ~reconnect
<1> DEFINE s == Schedule(a, reconnect, immediate)
<1>1. s \in Account /\ s.conn = a.conn /\ ((s.due = None) <=> ~reconnect)
  BY ScheduleResult
<1>2. (~reconnect) \in BOOLEAN
  OBVIOUS
<1> HIDE DEF s
<1> QED
  BY <1>1, <1>2 DEF Disconnected, s, Account

\* A connection that ends leaves the account idle, with a reconnection due.
LEMMA EndedResult ==
  ASSUME NEW a \in Account
  PROVE  Ended(a) \in Account /\ ~Ended(a).is_connected /\ Ended(a).conn = "idle"
<1> DEFINE i == [a EXCEPT !.conn = "idle"]
<1>1. i \in Account /\ i.conn = "idle"
  BY DEF Account
<1> QED
  BY <1>1, DisconnectedResult DEF Ended

\* reset leaves no connection that needs attention.
LEMMA ResetResult ==
  ASSUME NEW a \in Account
  PROVE  /\ Reset(a) \in Account
         /\ ~Reset(a).is_connected /\ Reset(a).conn \in {"idle", "ending"}
<1>1. XmppDisconnect(a) \in Account /\ XmppDisconnect(a).conn \in {"idle", "ending"}
  BY EndedResult DEF XmppDisconnect, Account
<1> QED
  BY <1>1 DEF Reset, Account

LEMMA DisconnectImplResult ==
  ASSUME NEW a \in Account, NEW reconnect \in BOOLEAN, NEW immediate \in BOOLEAN
  PROVE  LET b == DisconnectImpl(a, reconnect, immediate)
         IN  /\ b \in Account
             /\ ~b.is_connected /\ b.conn \in {"idle", "ending"}
             /\ (b.due = None) <=> ~reconnect
BY ResetResult, DisconnectedResult DEF DisconnectImpl

\* connect leaves a connection that is being made, or none.
LEMMA ConnectResult ==
  ASSUME NEW a \in Account, NEW ok \in BOOLEAN
  PROVE  /\ Connect(a, ok) \in Account
         /\ Connect(a, ok).is_connected = ok
         /\ Connect(a, ok).conn = IF ok THEN "connecting" ELSE "idle"
<1>1. Create(Reset(a)) \in Account
  BY ResetResult, EndedResult DEF Create
<1> QED
  BY <1>1 DEF Connect, Account

\* Every step keeps the account well formed, attended to, and down once it is put down.
LEMMA NextInv == Inv /\ [Next]_vars => Inv'
<1> SUFFICES ASSUME Inv, [Next]_vars PROVE Inv'
  OBVIOUS
<1> USE DEF Inv, TypeOK, StaysDown, Attended
<1>1. CASE UserConnect
  <2>1. PICK ok \in BOOLEAN : acc' = Connect(acc, ok)
    BY <1>1 DEF UserConnect, Attempts
  <2> QED
    BY <1>1, <2>1, ConnectResult DEF UserConnect
<1>2. CASE UserDisconnect
  BY <1>2, DisconnectImplResult DEF UserDisconnect
<1>3. CASE ConnectEvent
  BY <1>3 DEF ConnectEvent, Process, Account
<1>4. CASE LostEvent
  BY <1>4, EndedResult DEF LostEvent, Process
<1>5. CASE DowngradeEvent
  <2>1. [acc EXCEPT !.conn = "idle"] \in Account
    BY DEF Account
  <2> QED
    BY <1>5, <2>1, DisconnectImplResult DEF DowngradeEvent, Process
<1>6. CASE CloseStream
  BY <1>6 DEF CloseStream, Process, XmppDisconnect, Account
<1>7. CASE Retry
  <2>1. [acc EXCEPT !.due = None] \in Account
    BY DEF Account
  <2>2. PICK ok \in BOOLEAN : acc' = Connect([acc EXCEPT !.due = None], ok)
    BY <1>7 DEF Retry, Attempts
  <2>3. acc.due # None
    BY <1>7 DEF Retry, None
  <2> QED
    BY <1>7, <2>1, <2>2, <2>3, ConnectResult DEF Retry
<1>8. CASE Tick
  BY <1>8, ReconnectConstants DEF Tick, Account, None
<1>9. CASE UNCHANGED vars
  BY <1>9 DEF vars
<1> QED
  BY <1>1, <1>2, <1>3, <1>4, <1>5, <1>6, <1>7, <1>8, <1>9 DEF Next

\* The invariant holds for every backoff.
LEMMA Invariance == Spec => []Inv
<1>1. Init => Inv
  <2>1. Init => acc \in Account
    BY TimesFacts DEF Init, Account, Times
  <2>2. Init => TypeOK
    BY <2>1 DEF Init, TypeOK
  <2>3. Init => StaysDown /\ Attended
    BY DEF Init, StaysDown, Attended
  <2> QED
    BY <2>2, <2>3 DEF Inv
<1> QED
  BY <1>1, NextInv, PTL DEF Spec

\* The account's fields and the backoff stay in range (disconnect_impl's arithmetic).
THEOREM Typing == Spec => []TypeOK
BY Invariance, PTL DEF Inv

\* A manual disconnect is final whatever callbacks run inside it (account::disconnect).
THEOREM ManualDisconnectIsFinal == Spec => []StaysDown
BY Invariance, PTL DEF Inv

\* timer_cb attends to exactly the connections that need it (account::is_connected).
THEOREM ConnectionsAreAttended == Spec => []Attended
BY Invariance, PTL DEF Inv

-----------------------------------------------------------------------------
(* The server will assume what the last element under way says (Heard), so *)
(* the invariant speaks of that and not of what the server assumes now; it *)
(* holds whatever the connection does, because a loss only takes the link  *)
(* away.                                                                   *)

States == {"active", "inactive"}

\* What the server assumes once it has read everything that is on the wire.
Heard == IF c2s = <<>> THEN srv_csi ELSE c2s[Len(c2s)]

\* The types that the steps of the client rest on.
Types ==
  /\ link \in {"off", "up"}
  /\ csi_available \in BOOLEAN /\ csi_active \in BOOLEAN /\ xep0319_idle_sent \in BOOLEAN
  /\ c2s \in Seq(States) /\ srv_csi \in States
  /\ shown \in {"offline", "here", "idle"}

\* The inductive invariant: what is on its way agrees with csi_active, and contacts who see
\* the user idle were told so.
Belief ==
  /\ Types
  /\ link = "up" /\ csi_available => (Heard = "active") = csi_active
  /\ shown = "idle" => xep0319_idle_sent

-----------------------------------------------------------------------------
\* The last element of a queue stays the last one when another is read, and is the new one
\* when one is appended.
LEMMA AppendHeard ==
  ASSUME NEW S, NEW q \in Seq(S), NEW e \in S
  PROVE  /\ Append(q, e) \in Seq(S) /\ Append(q, e) # <<>>
         /\ Append(q, e)[Len(Append(q, e))] = e
OBVIOUS

LEMMA TailHeard ==
  ASSUME NEW S, NEW q \in Seq(S), q # <<>>
  PROVE  /\ Tail(q) \in Seq(S) /\ Head(q) \in S
         /\ IF Tail(q) = <<>> THEN Head(q) = q[Len(q)] ELSE Tail(q)[Len(Tail(q))] = q[Len(q)]
<1>1. Len(q) \in Nat \ {0} /\ Head(q) = q[1] /\ q[1] \in S
  OBVIOUS
<1>2. Tail(q) \in Seq(S) /\ Len(Tail(q)) = Len(q) - 1
  BY <1>1
<1>3. CASE Tail(q) = <<>>
  <2>1. Len(q) = 1
    BY <1>1, <1>2, <1>3
  <2> QED
    BY <1>1, <1>2, <1>3, <2>1
<1>4. CASE Tail(q) # <<>>
  <2>1. Len(Tail(q)) \in 1..Len(Tail(q))
    BY <1>2, <1>4
  <2>2. Tail(q)[Len(Tail(q))] = q[Len(Tail(q)) + 1]
    BY <1>1, <1>2, <2>1
  <2> QED
    BY <1>1, <1>2, <1>4, <2>2
<1> QED
  BY <1>3, <1>4

LEMMA NothingHeard == <<>> \in Seq(States)
OBVIOUS

LEMMA OneHeard ==
  ASSUME NEW e \in States
  PROVE  <<e>> \in Seq(States) /\ <<e>> # <<>> /\ <<e>>[Len(<<e>>)] = e
OBVIOUS

-----------------------------------------------------------------------------
LEMMA SetupBelief ==
  ASSUME Belief, NEW kind \in {"fresh", "resumed"}, NEW csi \in BOOLEAN,
         Activity!Setup(kind, csi)
  PROVE  Belief'
<1>1. /\ link' = "up" /\ csi_available' = csi /\ srv_csi' = "active"
      /\ xep0319_idle_sent' = xep0319_idle_sent
      /\ shown' \in {shown, "here"}
  BY DEF Activity!Setup
<1>2. CASE ~csi
  <2>1. csi_active' = FALSE /\ c2s' = <<>>
    BY <1>2 DEF Activity!Setup
  <2>2. Types'
    BY <1>1, <2>1, NothingHeard DEF Belief, Types, States
  <2>3. ~csi_available'
    BY <1>1, <1>2
  <2> QED
    BY <1>1, <2>2, <2>3 DEF Belief
<1>3. CASE csi
  <2>1. \/ csi_active' = TRUE /\ c2s' = <<>>
        \/ csi_active' = TRUE /\ c2s' = <<"active">>
        \/ csi_active' = FALSE /\ c2s' = <<"inactive">>
    BY <1>3 DEF Activity!Setup, Activity!ResumeCSI
  <2>2. Types'
    BY <1>1, <2>1, OneHeard, NothingHeard DEF Belief, Types, States
  <2>3. (Heard' = "active") = csi_active'
    BY <1>1, <2>1, OneHeard DEF Heard, States
  <2> QED
    BY <1>1, <2>2, <2>3 DEF Belief
<1> QED
  BY <1>2, <1>3

\* Only the client state changes, and what is queued with it says so.
LEMMA AnnouncedBelief ==
  ASSUME Belief, link' = link, csi_available' = csi_available, srv_csi' = srv_csi,
         csi_active' \in BOOLEAN,
         \/ csi_active' = csi_active /\ c2s' = c2s
         \/ c2s' = Append(c2s, IF csi_active' THEN "active" ELSE "inactive")
  PROVE  /\ c2s' \in Seq(States)
         /\ link' = "up" /\ csi_available' => (Heard' = "active") = csi_active'
<1>1. CASE csi_active' = csi_active /\ c2s' = c2s
  BY <1>1 DEF Belief, Types, Heard
<1>2. CASE c2s' = Append(c2s, IF csi_active' THEN "active" ELSE "inactive")
  <2> DEFINE e == IF csi_active' THEN "active" ELSE "inactive"
  <2>1. e \in States /\ ((e = "active") = csi_active')
    BY DEF States
  <2> HIDE DEF e
  <2>2. c2s' = Append(c2s, e) /\ c2s \in Seq(States)
    BY <1>2 DEF e, Belief, Types
  <2>3. c2s' \in Seq(States) /\ c2s' # <<>> /\ c2s'[Len(c2s')] = e
    BY <2>1, <2>2, AppendHeard
  <2> QED
    BY <2>1, <2>3 DEF Heard
<1> QED
  BY <1>1, <1>2

LEMMA IdleTimerBelief ==
  ASSUME Belief, Activity!IdleTimer
  PROVE  Belief'
<1>1. /\ link' = link /\ csi_available' = csi_available /\ srv_csi' = srv_csi
      /\ xep0319_idle_sent' = TRUE /\ shown' \in {shown, "idle"}
  BY DEF Activity!IdleTimer
<1>2. /\ csi_active' \in BOOLEAN
      /\ \/ csi_active' = csi_active /\ c2s' = c2s
         \/ c2s' = Append(c2s, IF csi_active' THEN "active" ELSE "inactive")
  BY DEF Activity!IdleTimer, Belief, Types
<1>3. /\ c2s' \in Seq(States)
      /\ link' = "up" /\ csi_available' => (Heard' = "active") = csi_active'
  BY <1>1, <1>2, AnnouncedBelief
<1> QED
  BY <1>1, <1>2, <1>3 DEF Belief, Types

LEMMA ActivityCbBelief ==
  ASSUME Belief, Activity!ActivityCb, link' = link, csi_available' = csi_available,
         srv_csi' = srv_csi
  PROVE  Belief' /\ csi_active' /\ shown' # "idle"
<1>1. /\ csi_active' = TRUE
      /\ c2s' = IF csi_active THEN c2s ELSE Append(c2s, "active")
      /\ xep0319_idle_sent' = FALSE
      /\ shown' = IF xep0319_idle_sent THEN "here" ELSE shown
  BY DEF Activity!ActivityCb, Activity!WithdrawIdle
<1>2. shown' # "idle" /\ shown' \in {shown, "here"}
  BY <1>1 DEF Belief
<1>3. /\ csi_active' \in BOOLEAN
      /\ \/ csi_active' = csi_active /\ c2s' = c2s
         \/ c2s' = Append(c2s, IF csi_active' THEN "active" ELSE "inactive")
  BY <1>1 DEF Belief, Types
<1>4. /\ c2s' \in Seq(States)
      /\ link' = "up" /\ csi_available' => (Heard' = "active") = csi_active'
  BY <1>3, AnnouncedBelief
<1> QED
  BY <1>1, <1>2, <1>3, <1>4 DEF Belief, Types

LEMMA KeyBelief ==
  ASSUME Belief, Activity!Key
  PROVE  /\ Belief'
         /\ link = "up" /\ csi_available => csi_active' /\ shown' # "idle"
<1>1. link' = link /\ csi_available' = csi_available /\ srv_csi' = srv_csi
  BY DEF Activity!Key
<1>2. CASE link = "up" /\ csi_available
  <2>1. Activity!ActivityCb
    BY <1>2 DEF Activity!Key
  <2> QED
    BY <1>1, <2>1, ActivityCbBelief
<1>3. CASE ~(link = "up" /\ csi_available)
  <2>1. /\ csi_active' = csi_active /\ c2s' = c2s /\ shown' = shown
        /\ xep0319_idle_sent' = xep0319_idle_sent
    BY <1>3 DEF Activity!Key
  <2> QED
    BY <1>1, <1>3, <2>1 DEF Belief, Types, Heard
<1> QED
  BY <1>2, <1>3

LEMMA ServeBelief ==
  ASSUME Belief, Activity!ServeCSI
  PROVE  Belief'
<1>1. /\ c2s # <<>> /\ c2s \in Seq(States) /\ srv_csi' = Head(c2s) /\ c2s' = Tail(c2s)
      /\ link' = link /\ csi_available' = csi_available /\ csi_active' = csi_active
      /\ xep0319_idle_sent' = xep0319_idle_sent /\ shown' = shown
  BY DEF Activity!ServeCSI, Belief, Types
<1>2. /\ c2s' \in Seq(States) /\ srv_csi' \in States
      /\ IF c2s' = <<>> THEN srv_csi' = c2s[Len(c2s)] ELSE c2s'[Len(c2s')] = c2s[Len(c2s)]
  BY <1>1, TailHeard
<1>3. Heard' = Heard
  BY <1>1, <1>2 DEF Heard
<1> QED
  BY <1>1, <1>2, <1>3 DEF Belief, Types

LEMMA ClientBelief ==
  ASSUME Belief, Client
  PROVE  Belief'
<1>1. CASE Activity!IdleTimer
  BY <1>1, IdleTimerBelief
<1>2. CASE Activity!Key
  BY <1>2, KeyBelief
<1>3. CASE Activity!TimePasses
  BY <1>3 DEF Activity!TimePasses, Belief, Types, Heard
<1>4. CASE Activity!TimeSlips
  BY <1>4 DEF Activity!TimeSlips, Belief, Types, Heard
<1>5. CASE Activity!ServeCSI
  BY <1>5, ServeBelief
<1> QED
  BY <1>1, <1>2, <1>3, <1>4, <1>5 DEF Client

\* A loss takes the link and the wire, and leaves what contacts see.
LEMMA ConnectionBelief ==
  ASSUME Belief, Connection
  PROVE  Belief'
<1>1. CASE Activity!LinkLost
  <2>1. c2s' = <<>> /\ c2s' \in Seq(States)
    BY <1>1 DEF Activity!LinkLost
  <2> QED
    BY <1>1, <2>1 DEF Activity!LinkLost, Belief, Types
<1>2. CASE UNCHANGED clientVars
  BY <1>2 DEF clientVars, Belief, Types, Heard
<1> QED
  BY <1>1, <1>2 DEF Connection

LEMMA StepBelief ==
  ASSUME Belief, [AccountNext]_allVars
  PROVE  Belief'
<1>1. CASE Connection
  BY <1>1, ConnectionBelief
<1>2. ASSUME NEW kind \in Kinds, Setup(kind)
      PROVE  Belief'
  <2>1. PICK csi \in CSI : Activity!Setup(kind, csi)
    BY <1>2 DEF Setup
  <2>2. kind \in {"fresh", "resumed"} /\ csi \in BOOLEAN
    BY ActivityConstants
  <2> QED
    BY <2>1, <2>2, SetupBelief
<1>3. CASE Client
  BY <1>3, ClientBelief
<1>4. CASE UNCHANGED allVars
  BY <1>4 DEF allVars, clientVars, Belief, Types, Heard
<1> QED
  BY <1>1, <1>2, <1>3, <1>4 DEF AccountNext

\* Whatever the connection does, what is under way to the server agrees with csi_active, and
\* contacts see the user idle only while xep0319_idle_sent says so.
THEOREM BeliefTheorem == AccountSpec => []Belief
<1>1. AccountInit => Belief
  <2> SUFFICES ASSUME Activity!Init PROVE Belief
    BY DEF AccountInit
  <2>1. Types
    BY NothingHeard DEF Activity!Init, Types, States
  <2>2. link = "off" /\ shown = "offline"
    BY DEF Activity!Init
  <2> QED
    BY <2>1, <2>2 DEF Belief
<1>2. Belief /\ [AccountNext]_allVars => Belief'
  BY StepBelief
<1> QED
  BY <1>1, <1>2, PTL DEF AccountSpec

\* Once the server has read everything, it assumes the state the client means to be in, over
\* any number of losses, resumptions and fresh sessions.
THEOREM CSIAgreesTheorem == AccountSpec => []CSIAgrees
<1>1. Belief => CSIAgrees
  BY DEF Belief, Heard, CSIAgrees
<1> QED
  BY <1>1, BeliefTheorem, PTL

\* A key pressed where the client can notice ends both announcements, whichever stream made
\* them.
THEOREM KeyEndsIdleTheorem == AccountSpec => KeyEndsIdle
<1> DEFINE BothEnd == Activity!Key /\ link = "up" /\ csi_available => csi_active' /\ shown' # "idle"
<1>1. Belief /\ [AccountNext]_allVars => [BothEnd]_clientVars
  <2> SUFFICES ASSUME Belief PROVE BothEnd
    OBVIOUS
  <2> QED
    BY KeyBelief
<1>2. AccountSpec => [][BothEnd]_clientVars
  BY <1>1, BeliefTheorem, PTL DEF AccountSpec
<1> QED
  BY <1>2 DEF KeyEndsIdle

-----------------------------------------------------------------------------
(* Counting modulo Wrap.                                                   *)

LEMMA AtLeastOnce ==
  ASSUME NEW d \in Nat, d >= 1
  PROVE  Wrap * d >= Wrap
BY CountConstants

LEMMA Division ==
  ASSUME NEW n \in Nat
  PROVE  /\ n % Wrap \in 0..(Wrap - 1) /\ n \div Wrap \in Nat
         /\ n = Wrap * (n \div Wrap) + (n % Wrap)
BY CountConstants

LEMMA DivisionIsUnique ==
  ASSUME NEW q \in Nat, NEW r \in 0..(Wrap - 1), NEW p \in Nat, NEW s \in 0..(Wrap - 1),
         Wrap * q + r = Wrap * p + s
  PROVE  r = s
<1>0. Wrap \in Nat \ {0}
  BY CountConstants
<1>1. ASSUME NEW x \in Nat, NEW y \in Nat, x > y,
             NEW u \in 0..(Wrap - 1), NEW v \in 0..(Wrap - 1), Wrap * x + u = Wrap * y + v
      PROVE  FALSE
  <2>1. PICK d \in Nat : d >= 1 /\ x = y + d
    <3>1. x - y \in Nat /\ x - y >= 1 /\ x = y + (x - y)
      BY <1>1
    <3> QED BY <3>1
  <2>2. Wrap * x = Wrap * y + Wrap * d
    BY <1>0, <2>1
  <2>3. Wrap * d >= Wrap
    BY <2>1, AtLeastOnce
  <2> QED BY <1>0, <1>1, <2>2, <2>3
<1>2. q = p
  BY <1>1
<1> QED BY <1>0, <1>2

\* Numbers less than Wrap apart: the counter has wrapped around between them, or it has not.
LEMMA Near ==
  ASSUME NEW n \in Nat, NEW m \in Nat, n <= m, m - n < Wrap
  PROVE  /\ n % Wrap \in 0..(Wrap - 1) /\ m % Wrap \in 0..(Wrap - 1)
         /\ \/ m % Wrap = (n % Wrap) + (m - n)
            \/ m % Wrap = (n % Wrap) + (m - n) - Wrap
<1> DEFINE a == n % Wrap
           q == n \div Wrap
           b == m % Wrap
           p == m \div Wrap
           k == m - n
<1>0. Wrap \in Nat \ {0} /\ k \in 0..(Wrap - 1)
  BY CountConstants
<1>1. a \in 0..(Wrap - 1) /\ q \in Nat /\ n = Wrap * q + a
  BY Division
<1>2. b \in 0..(Wrap - 1) /\ p \in Nat /\ m = Wrap * p + b
  BY Division
<1> HIDE DEF a, b, q, p
<1>3. CASE a + k < Wrap
  <2>1. a + k \in 0..(Wrap - 1) /\ Wrap * q + (a + k) = Wrap * p + b
    BY <1>0, <1>1, <1>2, <1>3
  <2>2. a + k = b
    BY <1>1, <1>2, <2>1, DivisionIsUnique
  <2> QED BY <1>1, <1>2, <2>2 DEF a, b
<1>4. CASE a + k >= Wrap
  <2>1. a + k - Wrap \in 0..(Wrap - 1)
    BY <1>0, <1>1, <1>4
  <2>2. Wrap * (q + 1) + (a + k - Wrap) = Wrap * p + b
    <3>1. Wrap * (q + 1) = Wrap * q + Wrap
      BY <1>0, <1>1
    <3> QED BY <1>0, <1>1, <1>2, <3>1
  <2>3. a + k - Wrap = b
    BY <1>1, <1>2, <2>1, <2>2, DivisionIsUnique
  <2> QED BY <1>1, <1>2, <2>3 DEF a, b
<1> QED BY <1>0, <1>1, <1>3, <1>4

LEMMA NextCount ==
  ASSUME NEW n \in Nat
  PROVE  Counts!Increment(n % Wrap) = (n + 1) % Wrap
<1>0. Wrap \in Nat \ {0}
  BY CountConstants
<1>1. CASE Wrap = 1
  <2>1. n % Wrap = 0 /\ (n + 1) % Wrap = 0
    BY <1>1, Division
  <2> QED BY <1>1, <2>1 DEF Counts!Increment
<1>2. CASE Wrap > 1
  <2>1. /\ n % Wrap \in 0..(Wrap - 1) /\ (n + 1) % Wrap \in 0..(Wrap - 1)
        /\ \/ (n + 1) % Wrap = (n % Wrap) + 1
           \/ (n + 1) % Wrap = (n % Wrap) + 1 - Wrap
    <3> DEFINE m == n + 1
    <3>1. m \in Nat /\ n <= m /\ m - n = 1 /\ m - n < Wrap
      BY <1>0, <1>2
    <3> HIDE DEF m
    <3>2. /\ n % Wrap \in 0..(Wrap - 1) /\ m % Wrap \in 0..(Wrap - 1)
          /\ m % Wrap = (n % Wrap) + (m - n) \/ m % Wrap = (n % Wrap) + (m - n) - Wrap
      BY <3>1, Near
    <3> QED BY <3>1, <3>2 DEF m
  <2> QED BY <1>0, <2>1 DEF Counts!Increment
<1> QED BY <1>0, <1>1, <1>2

-----------------------------------------------------------------------------
(* The queue holds the last stanzas that were sent under their numbers, and *)
(* the wire the last of those that are not handled.                         *)

\* what the server's count may lag behind the queue, or be ahead, per resumption
Slack == resumes * MaxInFlight

\* the number of the first stanza in the queue, less one
Acked == sent - Len(sm_outqueue)

\* The queue spans the wrap-around: no acknowledgement that is accepted takes anything out.
Stuck == sm_outqueue # <<>> /\ sm_h_outbound < sm_outqueue[1].seq

Numbers == [seq : Nat, stanza : Nat]

QueueOk ==
  /\ sent \in Nat /\ resumes \in 0..MaxResumes /\ sm_h_outbound = sent % Wrap
  /\ sm_outqueue \in Seq(Numbers) /\ Len(sm_outqueue) <= MaxInFlight /\ Len(sm_outqueue) <= sent
  /\ \A i \in 1..Len(sm_outqueue) : /\ sm_outqueue[i].stanza = Acked + i
                                    /\ sm_outqueue[i].seq = (Acked + i) % Wrap

WireOk ==
  /\ wire \in Seq(Nat) /\ Len(wire) <= sent
  /\ \A i \in 1..Len(wire) : wire[i] = sent - Len(wire) + i
  /\ \A i \in 1..Len(sm_outqueue) : Acked + i <= sent - Len(wire) => Acked + i \in handled

CountOk ==
  /\ count \in Nat /\ count >= Acked - Slack /\ count + Len(wire) <= sent + Slack
  /\ Stuck \/ count + Len(wire) <= sent

\* the counts on their way: each is one the server has had, and none is older than the one before
AcksOk ==
  \E a \in Seq(Nat) :
    /\ Len(a) = Len(acks) /\ \A i \in 1..Len(a) : acks[i] = a[i] % Wrap
    /\ \A i \in 1..Len(a) : a[i] <= count /\ a[i] >= Acked - Slack
    /\ \A i, j \in 1..Len(a) : i <= j => a[i] <= a[j]

CountsInv == QueueOk /\ WireOk /\ CountOk /\ acks \in Seq(Nat) /\ AcksOk

LEMMA Product ==
  ASSUME NEW x \in Nat, NEW y \in Nat
  PROVE  x * y \in Nat /\ (x + 1) * y = x * y + y
OBVIOUS

LEMMA ProductGrows ==
  ASSUME NEW x \in Nat, NEW d \in Nat, NEW y \in Nat
  PROVE  x * y <= (x + d) * y
<1>1. (x + d) * y = x * y + d * y /\ d * y \in Nat /\ x * y \in Nat
  OBVIOUS
<1> QED BY <1>1

LEMMA SlackFacts ==
  ASSUME resumes \in 0..MaxResumes
  PROVE  /\ Slack \in Nat /\ Slack + MaxInFlight < Wrap
         /\ (resumes + 1) * MaxInFlight = Slack + MaxInFlight
<1>1. /\ Wrap \in Nat /\ MaxResumes \in Nat /\ MaxInFlight \in Nat /\ resumes \in Nat
      /\ (MaxResumes + 1) * MaxInFlight < Wrap
  BY CountConstants
<1>2. Slack \in Nat /\ (resumes + 1) * MaxInFlight = Slack + MaxInFlight
  BY <1>1, Product DEF Slack
<1>3. PICK d \in Nat : MaxResumes + 1 = (resumes + 1) + d
  <2>1. MaxResumes - resumes \in Nat /\ MaxResumes + 1 = (resumes + 1) + (MaxResumes - resumes)
    BY <1>1
  <2> QED BY <2>1
<1>4. (resumes + 1) * MaxInFlight <= (MaxResumes + 1) * MaxInFlight
  <2>1. resumes + 1 \in Nat
    BY <1>1
  <2>2. (resumes + 1) * MaxInFlight <= ((resumes + 1) + d) * MaxInFlight
    BY <1>1, <2>1, ProductGrows
  <2> QED BY <1>3, <2>2
<1>5. (MaxResumes + 1) * MaxInFlight \in Nat
  <2>1. MaxResumes + 1 \in Nat
    BY <1>1
  <2> QED BY <1>1, <2>1, Product
<1> QED BY <1>1, <1>2, <1>4, <1>5

LEMMA RestOfSequence ==
  ASSUME NEW T, NEW q \in Seq(T), NEW n \in 0..Len(q)
  PROVE  /\ SubSeq(q, n + 1, Len(q)) \in Seq(T) /\ Len(SubSeq(q, n + 1, Len(q))) = Len(q) - n
         /\ \A i \in 1..Len(SubSeq(q, n + 1, Len(q))) : SubSeq(q, n + 1, Len(q))[i] = q[n + i]
OBVIOUS

\* What trimming through the count c leaves: no stanza up to c, unless the queue spans the
\* wrap-around; and if it takes only up to the server's count, nothing past c.
LEMMA TrimFacts ==
  ASSUME QueueOk, NEW h \in Nat, Counts!Trimmed(h), UNCHANGED sent
  PROVE  \E n \in 0..Len(sm_outqueue) :
           /\ sm_outqueue' = SubSeq(sm_outqueue, n + 1, Len(sm_outqueue))
           /\ sm_outqueue' \in Seq(Numbers) /\ Len(sm_outqueue') = Len(sm_outqueue) - n
           /\ \A i \in 1..Len(sm_outqueue') : sm_outqueue'[i] = sm_outqueue[n + i]
           /\ Acked' = Acked + n /\ Acked \in Nat
           /\ \A j \in 1..n : (Acked + j) % Wrap <= h
           /\ n < Len(sm_outqueue) => (Acked + (n + 1)) % Wrap > h
<1>1. PICK n \in 0..Len(sm_outqueue) :
        /\ \A j \in 1..n : sm_outqueue[j].seq <= h
        /\ n < Len(sm_outqueue) => sm_outqueue[n + 1].seq > h
        /\ sm_outqueue' = SubSeq(sm_outqueue, n + 1, Len(sm_outqueue))
  BY DEF Counts!Trimmed, Counts!Prefixes
<1>2. /\ sm_outqueue' \in Seq(Numbers) /\ Len(sm_outqueue') = Len(sm_outqueue) - n
      /\ \A i \in 1..Len(sm_outqueue') : sm_outqueue'[i] = sm_outqueue[n + i]
  BY <1>1, RestOfSequence DEF QueueOk
<1>3. Acked' = Acked + n /\ Acked \in Nat
  BY <1>2 DEF Acked, QueueOk
<1>4. \A j \in 1..Len(sm_outqueue) : sm_outqueue[j].seq = (Acked + j) % Wrap
  BY DEF QueueOk
<1>5. \A j \in 1..n : (Acked + j) % Wrap <= h
  BY <1>1, <1>4
<1>6. n < Len(sm_outqueue) => n + 1 \in 1..Len(sm_outqueue)
  BY <1>1
<1>7. n < Len(sm_outqueue) => (Acked + (n + 1)) % Wrap > h
  BY <1>1, <1>4, <1>6
<1> QED BY <1>1, <1>2, <1>3, <1>5, <1>7

\* The queue is still the last stanzas sent.
LEMMA TrimmedQueue ==
  ASSUME QueueOk, NEW n \in 0..Len(sm_outqueue),
         sm_outqueue' \in Seq(Numbers), Len(sm_outqueue') = Len(sm_outqueue) - n,
         \A i \in 1..Len(sm_outqueue') : sm_outqueue'[i] = sm_outqueue[n + i],
         Acked' = Acked + n, UNCHANGED <<sent, sm_h_outbound>>, resumes' \in 0..MaxResumes
  PROVE  QueueOk'
<1>1. Len(sm_outqueue) \in Nat /\ Acked \in Nat
  BY DEF QueueOk, Acked
<1>2. ASSUME NEW i \in 1..Len(sm_outqueue')
      PROVE  /\ sm_outqueue'[i].stanza = Acked' + i
             /\ sm_outqueue'[i].seq = (Acked' + i) % Wrap
  <2>1. n + i \in 1..Len(sm_outqueue) /\ Acked + (n + i) = Acked' + i
    BY <1>1
  <2>2. /\ sm_outqueue[n + i].stanza = Acked + (n + i)
        /\ sm_outqueue[n + i].seq = (Acked + (n + i)) % Wrap
    BY <2>1 DEF QueueOk
  <2> QED BY <2>1, <2>2
<1>3. Len(sm_outqueue') <= MaxInFlight /\ Len(sm_outqueue') <= sent
  BY <1>1, CountConstants DEF QueueOk
<1> QED BY <1>2, <1>3 DEF QueueOk

\* An acknowledged number below S: what is trimmed is not past it.
LEMMA NotPast ==
  ASSUME NEW S \in Nat, NEW c \in Nat, c <= S, S - c < Wrap, c % Wrap <= S % Wrap,
         NEW n \in Nat, n <= S, n % Wrap <= c % Wrap
  PROVE  n <= c
<1> SUFFICES ASSUME n > c PROVE FALSE
  OBVIOUS
<1> DEFINE cm == c % Wrap
           nm == n % Wrap
           sm == S % Wrap
<1>0. Wrap \in Nat \ {0} /\ c <= n /\ n - c < Wrap
  BY CountConstants
<1>1. cm \in 0..(Wrap - 1) /\ sm \in 0..(Wrap - 1) /\ (sm = cm + (S - c) \/ sm = cm + (S - c) - Wrap)
  BY Near
<1>2. nm \in 0..(Wrap - 1) /\ (nm = cm + (n - c) \/ nm = cm + (n - c) - Wrap)
  BY <1>0, Near
<1>3. cm <= sm /\ nm <= cm
  OBVIOUS
<1> HIDE DEF cm, nm, sm
<1> QED BY <1>0, <1>1, <1>2, <1>3

\* A queue past A up to S spans the wrap-around, and goes on to when another is sent.
LEMMA StuckSends ==
  ASSUME NEW H \in Nat, NEW S \in Nat, H < S, S - H < Wrap, S % Wrap < (H + 1) % Wrap
  PROVE  (S + 1) % Wrap < (H + 1) % Wrap
<1> DEFINE f == H + 1
           t == S + 1
<1>0. /\ Wrap \in Nat \ {0} /\ f \in Nat /\ t \in Nat /\ f <= S /\ S - f < Wrap
      /\ f <= t /\ t - f < Wrap /\ t - f = (S - f) + 1
  BY CountConstants
<1> HIDE DEF f, t
<1> DEFINE fm == f % Wrap
           tm == t % Wrap
           sm == S % Wrap
<1>1. fm \in 0..(Wrap - 1) /\ sm \in 0..(Wrap - 1) /\ (sm = fm + (S - f) \/ sm = fm + (S - f) - Wrap)
  BY <1>0, Near
<1>2. tm \in 0..(Wrap - 1) /\ (tm = fm + (t - f) \/ tm = fm + (t - f) - Wrap)
  BY <1>0, Near
<1>3. sm < fm
  BY DEF f
<1>4. tm < fm
  <2> HIDE DEF fm, tm, sm
  <2> QED BY <1>0, <1>1, <1>2, <1>3
<1> QED BY <1>4 DEF f, t

\* A resumption with the server's count c takes n stanzas out of a queue of L, and leaves one
\* that was handled: then the queue spans the wrap-around.
LEMMA ResumeTrims ==
  ASSUME NEW H \in Nat, NEW L \in Nat, NEW S \in Nat, S = H + L, NEW n \in 0..L, NEW c \in Nat,
         NEW K \in Nat, c <= S + K, K + L < Wrap,
         \A j \in 1..n : (H + j) % Wrap <= c % Wrap,
         n < L => (H + (n + 1)) % Wrap > c % Wrap,
         c <= S \/ (L > 0 /\ S % Wrap < (H + 1) % Wrap),
         c > H + n
  PROVE  n < L /\ S % Wrap < (H + (n + 1)) % Wrap
<1> DEFINE f == H + 1
           g == H + (n + 1)
<1>0. /\ Wrap \in Nat \ {0} /\ f \in Nat /\ g \in Nat /\ f <= g /\ L > 0
      /\ f <= c /\ c - f < Wrap /\ f <= S /\ S - f < Wrap /\ g <= c /\ c - g < Wrap
      /\ n < L => g <= S /\ S - g < Wrap /\ g - f < Wrap
      /\ n = L => c > S
      /\ n = 0 => g = f
  BY CountConstants
<1>1. n >= 1 => f % Wrap <= c % Wrap
  OBVIOUS
<1>2. n < L => g % Wrap > c % Wrap
  OBVIOUS
<1>3. c <= S \/ S % Wrap < f % Wrap
  OBVIOUS
<1> HIDE DEF f, g
<1> DEFINE fm == f % Wrap
           gm == g % Wrap
           cm == c % Wrap
           sm == S % Wrap
<1>4. fm \in 0..(Wrap - 1) /\ cm \in 0..(Wrap - 1) /\ (cm = fm + (c - f) \/ cm = fm + (c - f) - Wrap)
  BY <1>0, Near
<1>5. sm \in 0..(Wrap - 1) /\ (sm = fm + (S - f) \/ sm = fm + (S - f) - Wrap)
  BY <1>0, Near
<1>6. gm \in 0..(Wrap - 1) /\ (cm = gm + (c - g) \/ cm = gm + (c - g) - Wrap)
  BY <1>0, Near
<1>7. n < L => (sm = gm + (S - g) \/ sm = gm + (S - g) - Wrap)
               /\ (gm = fm + (g - f) \/ gm = fm + (g - f) - Wrap)
  BY <1>0, Near
<1>8. (n >= 1 => fm <= cm) /\ (n < L => gm > cm) /\ (c <= S \/ sm < fm)
  BY <1>1, <1>2, <1>3
<1>9. n < L /\ sm < gm
  <2> HIDE DEF fm, gm, cm, sm
  <2> QED BY <1>0, <1>4, <1>5, <1>6, <1>7, <1>8
<1> QED BY <1>9 DEF f, g

-----------------------------------------------------------------------------
(* CountsInv is an invariant of the counters.                              *)

LEMMA CountsBegin ==
  ASSUME Counts!Init
  PROVE  CountsInv
<1>1. Wrap \in Nat \ {0} /\ MaxResumes \in Nat /\ MaxInFlight \in Nat
  BY CountConstants
<1>2. 0 % Wrap = 0
  BY <1>1, Division
<1>3. Acked = 0 /\ Slack = 0
  <2>1. 0 * MaxInFlight = 0
    BY <1>1
  <2>2. sent = 0 /\ sm_outqueue = <<>> /\ resumes = 0
    BY DEF Counts!Init
  <2>3. Slack = 0
    BY <2>1, <2>2, Zenon DEF Slack
  <2>4. Len(sm_outqueue) = 0
    BY <2>2
  <2>5. Acked = 0
    <3>1. Acked = 0 - 0
      BY <2>2, <2>4, Zenon DEF Acked
    <3> QED BY <3>1
  <2> QED BY <2>3, <2>5
<1>4. QueueOk
  BY <1>1, <1>2 DEF Counts!Init, QueueOk
<1>5. WireOk /\ CountOk
  BY <1>3 DEF Counts!Init, WireOk, CountOk
<1>6. AcksOk
  <2>1. acks \in Seq(Nat) /\ Len(acks) = 0
    BY DEF Counts!Init
  <2>2. 1..Len(acks) = {}
    BY <2>1
  <2> QED BY <2>1, <2>2, Zenon DEF AcksOk
<1> QED BY <1>4, <1>5, <1>6 DEF CountsInv, Counts!Init

LEMMA CountsStay ==
  ASSUME CountsInv, UNCHANGED countVars
  PROVE  CountsInv'
<1>1. Acked' = Acked /\ Slack' = Slack /\ Stuck' = Stuck
  BY DEF countVars, Acked, Slack, Stuck
<1>2. QueueOk' /\ WireOk' /\ CountOk'
  BY <1>1 DEF CountsInv, QueueOk, WireOk, CountOk, countVars
<1>3. AcksOk'
  BY <1>1 DEF CountsInv, AcksOk, countVars
<1> QED BY <1>2, <1>3 DEF CountsInv, countVars

LEMMA CountsSend ==
  ASSUME CountsInv, Counts!Send
  PROVE  CountsInv'
<1> DEFINE L == Len(sm_outqueue)
           item == [seq |-> sm_h_outbound', stanza |-> sent']
<1>1. /\ sent \in Nat /\ sent' = sent + 1 /\ sm_h_outbound = sent % Wrap
      /\ sm_outqueue \in Seq(Numbers) /\ L \in Nat /\ L < MaxInFlight /\ L <= sent
      /\ MaxInFlight \in Nat /\ Wrap \in Nat \ {0}
      /\ wire \in Seq(Nat) /\ Len(wire) \in Nat /\ Len(wire) <= sent /\ resumes \in 0..MaxResumes
  BY CountConstants DEF CountsInv, QueueOk, WireOk, Counts!Send
<1>2. sm_h_outbound' = (sent + 1) % Wrap
  BY <1>1, NextCount DEF Counts!Send
<1>3. sm_h_outbound' \in Nat
  BY <1>1, <1>2, Division
<1>4. item \in Numbers
  BY <1>1, <1>3 DEF Numbers
<1>5. sm_outqueue' = Append(sm_outqueue, item)
  BY DEF Counts!Send
<1>6. /\ sm_outqueue' \in Seq(Numbers) /\ Len(sm_outqueue') = L + 1
      /\ \A i \in 1..L : sm_outqueue'[i] = sm_outqueue[i]
      /\ sm_outqueue'[L + 1] = item
  <2> HIDE DEF item
  <2> QED BY <1>1, <1>4, <1>5
<1>7. Acked' = Acked /\ Acked \in Nat /\ Acked + L = sent /\ Slack' = Slack
  BY <1>1, <1>6 DEF Acked, Slack, Counts!Send
<1>8. item.stanza = Acked + (L + 1) /\ item.seq = (Acked + (L + 1)) % Wrap
  <2>1. Acked + (L + 1) = sent + 1
    BY <1>1, <1>7
  <2> QED BY <1>1, <1>2, <2>1
<1> HIDE DEF item
<1>9. QueueOk'
  <2>1. ASSUME NEW i \in 1..Len(sm_outqueue')
        PROVE  /\ sm_outqueue'[i].stanza = Acked' + i
               /\ sm_outqueue'[i].seq = (Acked' + i) % Wrap
    <3>1. CASE i = L + 1
      BY <1>6, <1>7, <1>8, <3>1
    <3>2. CASE i \in 1..L
      BY <1>6, <1>7, <3>2 DEF CountsInv, QueueOk
    <3> QED BY <1>1, <1>6, <3>1, <3>2
  <2>2. sent' \in Nat /\ Len(sm_outqueue') <= MaxInFlight /\ Len(sm_outqueue') <= sent'
    BY <1>1, <1>6
  <2>3. resumes' \in 0..MaxResumes /\ sm_h_outbound' = sent' % Wrap
    BY <1>1, <1>2 DEF Counts!Send
  <2> QED BY <1>6, <2>1, <2>2, <2>3 DEF QueueOk
<1>10. /\ wire' \in Seq(Nat) /\ Len(wire') = Len(wire) + 1 /\ wire'[Len(wire) + 1] = sent + 1
       /\ \A i \in 1..Len(wire) : wire'[i] = wire[i]
  BY <1>1 DEF Counts!Send
<1>11. WireOk'
  <2>1. ASSUME NEW i \in 1..Len(wire') PROVE wire'[i] = sent' - Len(wire') + i
    <3>1. CASE i = Len(wire) + 1
      BY <1>1, <1>10, <3>1
    <3>2. CASE i \in 1..Len(wire)
      <4>1. wire[i] = sent - Len(wire) + i
        BY <3>2 DEF CountsInv, WireOk
      <4> QED BY <1>1, <1>10, <3>2, <4>1
    <3> QED BY <1>1, <1>10, <3>1, <3>2
  <2>2. ASSUME NEW i \in 1..Len(sm_outqueue'), Acked' + i <= sent' - Len(wire')
        PROVE  Acked' + i \in handled'
    <3>1. Acked + i <= sent - Len(wire)
      BY <1>1, <1>7, <1>10, <2>2
    <3>2. i \in 1..L
      <4>1. i \in Nat /\ i >= 1
        BY <1>1, <1>6
      <4> HIDE DEF L
      <4> QED BY <1>1, <1>7, <3>1, <4>1
    <3> QED BY <1>7, <3>1, <3>2 DEF CountsInv, WireOk, Counts!Send
  <2> QED BY <1>1, <1>10, <2>1, <2>2 DEF WireOk
<1>12. CountOk'
  <2>1. Slack \in Nat /\ Slack + MaxInFlight < Wrap
    BY <1>1, SlackFacts
  <2>2. count' = count /\ count \in Nat /\ count >= Acked - Slack /\ count + Len(wire) <= sent + Slack
    BY DEF CountsInv, CountOk, Counts!Send
  <2>3. CASE count + Len(wire) <= sent
    BY <1>1, <1>7, <1>10, <2>1, <2>2, <2>3 DEF CountOk
  <2>4. CASE Stuck
    <3>1. L > 0 /\ sm_outqueue[1].seq = (Acked + 1) % Wrap /\ sent % Wrap < (Acked + 1) % Wrap
      BY <1>1, <2>4 DEF Stuck, CountsInv, QueueOk
    <3>2. Acked < sent /\ sent - Acked < Wrap
      BY <1>1, <1>7, <2>1, <3>1
    <3>3. (sent + 1) % Wrap < (Acked + 1) % Wrap
      BY <1>1, <1>7, <3>1, <3>2, StuckSends
    <3>4. sm_outqueue'[1].seq = (Acked + 1) % Wrap /\ sm_outqueue' # <<>>
      <4>1. 1 \in 1..L
        BY <1>1, <3>1
      <4>2. sm_outqueue'[1] = sm_outqueue[1]
        BY <1>6, <4>1
      <4>3. sm_outqueue' # <<>>
        BY <1>5
      <4> QED BY <3>1, <4>2, <4>3
    <3>5. Stuck'
      BY <1>2, <3>3, <3>4 DEF Stuck
    <3> QED BY <1>1, <1>7, <1>10, <2>1, <2>2, <3>5 DEF CountOk
  <2> QED BY <2>3, <2>4 DEF CountsInv, CountOk
<1>13. acks' \in Seq(Nat) /\ AcksOk'
  BY <1>7 DEF CountsInv, AcksOk, Counts!Send
<1> QED BY <1>9, <1>11, <1>12, <1>13 DEF CountsInv

LEMMA CountsHandle ==
  ASSUME CountsInv, Counts!Handle
  PROVE  CountsInv'
<1>1. Acked' = Acked /\ Slack' = Slack /\ Stuck' = Stuck /\ Acked \in Nat /\ sent \in Nat
  BY DEF Counts!Handle, Acked, Slack, Stuck, CountsInv, QueueOk
<1>2. QueueOk'
  BY <1>1 DEF CountsInv, QueueOk, Counts!Handle
<1>3. /\ wire \in Seq(Nat) /\ wire # <<>> /\ Len(wire) \in Nat /\ Len(wire) > 0 /\ Len(wire) <= sent
      /\ wire' \in Seq(Nat) /\ Len(wire') = Len(wire) - 1 /\ Head(wire) = wire[1]
      /\ \A i \in 1..Len(wire') : wire'[i] = wire[i + 1]
  BY DEF CountsInv, WireOk, Counts!Handle
<1>4. Head(wire) = sent - Len(wire) + 1
  BY <1>3 DEF CountsInv, WireOk
<1>5. WireOk'
  <2>1. ASSUME NEW i \in 1..Len(wire') PROVE wire'[i] = sent' - Len(wire') + i
    <3>1. i + 1 \in 1..Len(wire)
      BY <1>3
    <3>2. wire[i + 1] = sent - Len(wire) + (i + 1)
      BY <3>1 DEF CountsInv, WireOk
    <3> QED BY <1>1, <1>3, <3>2 DEF Counts!Handle
  <2>2. ASSUME NEW i \in 1..Len(sm_outqueue), Acked + i <= sent - Len(wire')
        PROVE  Acked + i \in handled'
    <3>1. CASE Acked + i = Head(wire)
      BY <3>1 DEF Counts!Handle
    <3>2. CASE Acked + i <= sent - Len(wire)
      BY <3>2 DEF CountsInv, WireOk, Counts!Handle
    <3>3. Acked + i <= sent - Len(wire) + 1 /\ Acked + i \in Nat
      BY <1>1, <1>3, <2>2
    <3>4. Acked + i = sent - Len(wire) + 1 \/ Acked + i <= sent - Len(wire)
      <4> DEFINE x == Acked + i
                 y == sent - Len(wire)
      <4>1. x \in Nat /\ y \in Nat /\ x <= y + 1
        BY <1>1, <1>3, <3>3
      <4> HIDE DEF x, y
      <4>2. x = y + 1 \/ x <= y
        BY <4>1
      <4> QED BY <4>2 DEF x, y
    <3> QED BY <1>4, <3>1, <3>2, <3>4
  <2>3. Len(wire') <= sent
    BY <1>1, <1>3
  <2> QED BY <1>1, <1>3, <2>1, <2>2, <2>3 DEF WireOk, Counts!Handle
<1>6. CountOk'
  <2>1. resumes \in 0..MaxResumes /\ MaxInFlight \in Nat
    BY CountConstants DEF CountsInv, QueueOk
  <2>2. Slack \in Nat
    BY <2>1, SlackFacts
  <2>3. count' = count + 1 /\ sent' = sent
    BY DEF Counts!Handle
  <2> QED BY <1>1, <1>3, <2>2, <2>3 DEF CountsInv, CountOk
<1>7. acks' \in Seq(Nat) /\ AcksOk'
  <2>1. PICK a \in Seq(Nat) :
          /\ Len(a) = Len(acks) /\ \A i \in 1..Len(a) : acks[i] = a[i] % Wrap
          /\ \A i \in 1..Len(a) : a[i] <= count /\ a[i] >= Acked - Slack
          /\ \A i, j \in 1..Len(a) : i <= j => a[i] <= a[j]
    BY DEF CountsInv, AcksOk
  <2>2. \A i \in 1..Len(a) : a[i] <= count'
    <3>1. count \in Nat /\ count' = count + 1
      BY DEF CountsInv, CountOk, Counts!Handle
    <3> QED BY <2>1, <3>1
  <2>3. acks' = acks
    BY DEF Counts!Handle
  <2> QED BY <1>1, <2>1, <2>2, <2>3 DEF AcksOk, CountsInv
<1> QED BY <1>2, <1>5, <1>6, <1>7 DEF CountsInv

LEMMA CountsAcknowledge ==
  ASSUME CountsInv, Counts!Acknowledge
  PROVE  CountsInv'
<1>1. /\ Acked' = Acked /\ Slack' = Slack /\ Stuck' = Stuck /\ Acked \in Nat
      /\ count' = count /\ count \in Nat /\ acks \in Seq(Nat)
  BY DEF Counts!Acknowledge, Acked, Slack, Stuck, CountsInv, QueueOk, CountOk
<1>2. QueueOk' /\ WireOk' /\ CountOk'
  BY <1>1 DEF CountsInv, QueueOk, WireOk, CountOk, Counts!Acknowledge
<1>3. count % Wrap \in Nat
  BY <1>1, Division, CountConstants
<1>4. acks' = Append(acks, count % Wrap)
  BY DEF Counts!Acknowledge, Counts!Reported
<1>5. PICK a \in Seq(Nat) :
        /\ Len(a) = Len(acks) /\ \A i \in 1..Len(a) : acks[i] = a[i] % Wrap
        /\ \A i \in 1..Len(a) : a[i] <= count /\ a[i] >= Acked - Slack
        /\ \A i, j \in 1..Len(a) : i <= j => a[i] <= a[j]
  BY DEF CountsInv, AcksOk
<1> DEFINE b == Append(a, count)
           L == Len(a)
<1>6. /\ b \in Seq(Nat) /\ Len(b) = L + 1 /\ b[L + 1] = count /\ L \in Nat
      /\ \A i \in 1..L : b[i] = a[i] /\ a[i] \in Nat
  BY <1>1, <1>5
<1>7. /\ acks' \in Seq(Nat) /\ Len(acks') = L + 1 /\ acks'[L + 1] = count % Wrap
      /\ \A i \in 1..L : acks'[i] = acks[i]
  <2> DEFINE h == count % Wrap
  <2>1. h \in Nat /\ acks' = Append(acks, h)
    BY <1>3, <1>4
  <2> HIDE DEF h
  <2>2. /\ acks' \in Seq(Nat) /\ Len(acks') = L + 1 /\ acks'[L + 1] = h
        /\ \A i \in 1..L : acks'[i] = acks[i]
    BY <1>1, <1>5, <2>1
  <2> QED BY <2>2 DEF h
<1>8. count >= Acked - Slack
  BY DEF CountsInv, CountOk
<1> HIDE DEF b
<1>9. AcksOk'
  <2>1. \A i \in 1..Len(b) : i \in 1..L \/ i = L + 1
    BY <1>6
  <2>2. \A i \in 1..Len(b) : acks'[i] = b[i] % Wrap
    BY <1>5, <1>6, <1>7, <2>1
  <2>3. \A i \in 1..Len(b) : b[i] <= count' /\ b[i] >= Acked' - Slack'
    <3>1. \A i \in 1..L : b[i] <= count' /\ b[i] >= Acked' - Slack'
      BY <1>1, <1>5, <1>6
    <3>2. b[L + 1] <= count' /\ b[L + 1] >= Acked' - Slack'
      BY <1>1, <1>6, <1>8
    <3> QED BY <2>1, <3>1, <3>2
  <2>4. ASSUME NEW i \in 1..Len(b), NEW j \in 1..Len(b), i <= j PROVE b[i] <= b[j]
    <3>1. CASE j = L + 1
      <4>1. b[i] <= count
        BY <1>1, <2>3
      <4> QED BY <1>6, <3>1, <4>1
    <3>2. CASE j \in 1..L
      <4>1. i \in 1..L
        BY <1>6, <2>4, <3>2
      <4> QED BY <1>5, <1>6, <2>4, <3>2, <4>1
    <3> QED BY <2>1, <3>1, <3>2
  <2> QED BY <1>6, <1>7, <2>2, <2>3, <2>4 DEF AcksOk
<1> QED BY <1>2, <1>7, <1>9 DEF CountsInv

\* The first acknowledgement leaves the wire.
LEMMA AcksShift ==
  ASSUME acks # <<>>, acks \in Seq(Nat), acks' = Tail(acks), count' = count,
         NEW a \in Seq(Nat), Len(a) = Len(acks),
         \A i \in 1..Len(a) : acks[i] = a[i] % Wrap,
         \A i \in 1..Len(a) : a[i] <= count,
         \A i, j \in 1..Len(a) : i <= j => a[i] <= a[j],
         \A i \in 1..Len(a) : a[i] >= Acked' - Slack'
  PROVE  acks' \in Seq(Nat) /\ AcksOk'
<1> DEFINE b == Tail(a)
<1>1. /\ acks' \in Seq(Nat) /\ Len(acks') = Len(acks) - 1 /\ Len(acks) \in Nat
      /\ \A i \in 1..Len(acks') : acks'[i] = acks[i + 1] /\ i + 1 \in 1..Len(acks)
  OBVIOUS
<1>2. /\ b \in Seq(Nat) /\ Len(b) = Len(a) - 1
      /\ \A i \in 1..Len(b) : b[i] = a[i + 1] /\ i + 1 \in 1..Len(a)
  <2>1. a # <<>>
    BY <1>1
  <2> QED BY <2>1
<1> HIDE DEF b
<1>3. Len(b) = Len(acks')
  BY <1>1, <1>2
<1>4. \A i \in 1..Len(b) : acks'[i] = b[i] % Wrap
  BY <1>1, <1>2, <1>3
<1>5. \A i \in 1..Len(b) : b[i] <= count' /\ b[i] >= Acked' - Slack'
  BY <1>2
<1>6. \A i, j \in 1..Len(b) : i <= j => b[i] <= b[j]
  BY <1>2
<1> QED BY <1>1, <1>2, <1>3, <1>4, <1>5, <1>6 DEF AcksOk

LEMMA CountsTooHigh ==
  ASSUME CountsInv, Counts!RecvAckTooHigh
  PROVE  CountsInv'
<1>1. /\ Acked' = Acked /\ Slack' = Slack /\ Stuck' = Stuck
      /\ count' = count /\ acks \in Seq(Nat) /\ acks # <<>> /\ acks' = Tail(acks)
  BY DEF Counts!RecvAckTooHigh, Acked, Slack, Stuck, CountsInv
<1>2. QueueOk' /\ WireOk' /\ CountOk'
  BY <1>1 DEF CountsInv, QueueOk, WireOk, CountOk, Counts!RecvAckTooHigh
<1>3. PICK a \in Seq(Nat) :
        /\ Len(a) = Len(acks) /\ \A i \in 1..Len(a) : acks[i] = a[i] % Wrap
        /\ \A i \in 1..Len(a) : a[i] <= count /\ a[i] >= Acked - Slack
        /\ \A i, j \in 1..Len(a) : i <= j => a[i] <= a[j]
  BY DEF CountsInv, AcksOk
<1>4. acks' \in Seq(Nat) /\ AcksOk'
  BY <1>1, <1>3, AcksShift
<1> QED BY <1>2, <1>4 DEF CountsInv

\* An accepted acknowledgement, of the count c when it was sent: it takes stanzas up to c at
\* most out of the queue, and the server had handled them.
LEMMA AckTakes ==
  ASSUME CountsInv, Counts!RecvAck
  PROVE  \E n \in 0..Len(sm_outqueue) :
           /\ sm_outqueue' \in Seq(Numbers) /\ Len(sm_outqueue') = Len(sm_outqueue) - n
           /\ \A i \in 1..Len(sm_outqueue') : sm_outqueue'[i] = sm_outqueue[n + i]
           /\ Acked' = Acked + n /\ Acked \in Nat
           /\ n > 0 => Acked + n <= count /\ count + Len(wire) <= sent
           /\ Stuck => n = 0
           /\ acks' \in Seq(Nat) /\ AcksOk'
<1> DEFINE h == Head(acks)
<1>1. /\ h \in Nat /\ h = acks[1] /\ h <= sm_h_outbound /\ acks # <<>> /\ acks \in Seq(Nat)
      /\ acks' = Tail(acks) /\ Counts!Trimmed(h)
      /\ UNCHANGED <<open, sm_h_outbound, wire, handled, count, sent, resumes>>
  BY DEF CountsInv, Counts!RecvAck, Counts!Trim
<1> HIDE DEF h
<1>2. QueueOk /\ UNCHANGED sent
  BY <1>1 DEF CountsInv
<1>3. PICK n \in 0..Len(sm_outqueue) :
        /\ sm_outqueue' = SubSeq(sm_outqueue, n + 1, Len(sm_outqueue))
        /\ sm_outqueue' \in Seq(Numbers) /\ Len(sm_outqueue') = Len(sm_outqueue) - n
        /\ \A i \in 1..Len(sm_outqueue') : sm_outqueue'[i] = sm_outqueue[n + i]
        /\ Acked' = Acked + n /\ Acked \in Nat
        /\ \A j \in 1..n : (Acked + j) % Wrap <= h
        /\ n < Len(sm_outqueue) => (Acked + (n + 1)) % Wrap > h
  BY <1>1, <1>2, TrimFacts
<1>4. PICK a \in Seq(Nat) :
        /\ Len(a) = Len(acks) /\ \A i \in 1..Len(a) : acks[i] = a[i] % Wrap
        /\ \A i \in 1..Len(a) : a[i] <= count /\ a[i] >= Acked - Slack
        /\ \A i, j \in 1..Len(a) : i <= j => a[i] <= a[j]
  BY DEF CountsInv, AcksOk
<1>5. /\ sent \in Nat /\ Len(sm_outqueue) \in Nat /\ Acked + Len(sm_outqueue) = sent
      /\ Len(sm_outqueue) <= MaxInFlight /\ Len(wire) \in Nat /\ count \in Nat
      /\ resumes \in 0..MaxResumes /\ sm_h_outbound = sent % Wrap /\ Slack' = Slack
      /\ MaxInFlight \in Nat /\ Wrap \in Nat
  <2>1. /\ sent \in Nat /\ Len(sm_outqueue) \in Nat /\ Len(sm_outqueue) <= MaxInFlight
        /\ resumes \in 0..MaxResumes /\ sm_h_outbound = sent % Wrap
    BY <1>2 DEF QueueOk
  <2>2. Len(wire) \in Nat /\ count \in Nat
    BY DEF CountsInv, WireOk, CountOk
  <2>3. Acked + Len(sm_outqueue) = sent
    BY <2>1 DEF Acked
  <2>4. Slack' = Slack
    BY <1>1 DEF Slack
  <2> QED BY <2>1, <2>2, <2>3, <2>4, CountConstants
<1>6. Slack \in Nat /\ Slack + MaxInFlight < Wrap
  BY <1>5, SlackFacts
<1>7. 1 \in 1..Len(a) /\ \A i \in 1..Len(a) : a[i] \in Nat /\ a[1] <= a[i]
  <2>1. Len(a) > 0
    BY <1>1, <1>4
  <2>2. 1 \in 1..Len(a) /\ \A i \in 1..Len(a) : 1 <= i
    BY <2>1
  <2> QED BY <1>4, <2>2
<1>8. h = a[1] % Wrap
  BY <1>1, <1>4, <1>7
<1>9. CASE Stuck
  <2>1. (Acked + 1) % Wrap > h /\ Len(sm_outqueue) > 0
    <3>1. Len(sm_outqueue) > 0
      BY <1>9, <1>2 DEF Stuck, QueueOk
    <3>2. sm_outqueue[1].seq = (Acked + 1) % Wrap
      BY <1>2, <3>1 DEF QueueOk
    <3>3. (Acked + 1) % Wrap \in Nat
      BY <1>3, <1>5, Division, CountConstants
    <3>4. sm_h_outbound < (Acked + 1) % Wrap
      BY <1>9, <3>2 DEF Stuck
    <3>5. sm_h_outbound \in Nat
      BY <1>5, Division, CountConstants
    <3> QED BY <1>1, <3>1, <3>3, <3>4, <3>5
  <2>2. n = 0
    <3>1. SUFFICES ASSUME n > 0 PROVE FALSE
      OBVIOUS
    <3>2. (Acked + 1) % Wrap <= h
      BY <1>3, <3>1
    <3>3. (Acked + 1) % Wrap \in Nat
      BY <1>3, <1>5, Division, CountConstants
    <3> QED BY <1>1, <2>1, <3>2, <3>3
  <2>3. Acked' = Acked
    BY <1>3, <2>2
  <2>4. acks' \in Seq(Nat) /\ AcksOk'
    BY <1>1, <1>4, <1>5, <2>3, AcksShift
  <2>5. (n > 0 => Acked + n <= count /\ count + Len(wire) <= sent) /\ (Stuck => n = 0)
    BY <2>2
  <2> QED BY <1>3, <2>4, <2>5
<1>10. CASE ~Stuck
  <2>1. count + Len(wire) <= sent
    BY <1>10 DEF CountsInv, CountOk
  <2>2. a[1] <= count /\ a[1] >= Acked - Slack /\ a[1] \in Nat
    BY <1>4, <1>7
  <2>3. a[1] <= sent /\ sent - a[1] < Wrap
    <3> DEFINE c == a[1]
               L == Len(sm_outqueue)
    <3>1. /\ c \in Nat /\ c <= count /\ c >= Acked - Slack /\ Acked \in Nat /\ L \in Nat
          /\ sent = Acked + L /\ L <= MaxInFlight
      BY <1>3, <1>5, <2>2
    <3> HIDE DEF c, L
    <3>2. c <= sent /\ sent - c < Wrap
      BY <1>5, <1>6, <2>1, <3>1
    <3> QED BY <3>2 DEF c
  <2>4. a[1] % Wrap <= sent % Wrap
    BY <1>1, <1>5, <1>8
  <2>5. n > 0 => Acked + n <= a[1]
    <3>1. SUFFICES ASSUME n > 0 PROVE Acked + n <= a[1]
      OBVIOUS
    <3>2. (Acked + n) % Wrap <= a[1] % Wrap
      <4>1. n \in 1..n
        BY <3>1
      <4>2. (Acked + n) % Wrap <= h
        BY <1>3, <4>1
      <4> QED BY <1>8, <4>2
    <3>3. Acked + n \in Nat /\ Acked + n <= sent
      BY <1>3, <1>5
    <3> QED BY <1>5, <2>2, <2>3, <2>4, <3>2, <3>3, NotPast
  <2>6. \A i \in 1..Len(a) : a[i] >= Acked' - Slack'
    <3>1. CASE n = 0
      BY <1>3, <1>4, <1>5, <3>1
    <3>2. CASE n > 0
      <4>1. Acked' <= a[1] /\ Acked' \in Nat
        BY <1>3, <2>5, <3>2
      <4> QED BY <1>5, <1>6, <1>7, <4>1
    <3> QED BY <1>3, <3>1, <3>2
  <2>7. acks' \in Seq(Nat) /\ AcksOk'
    BY <1>1, <1>4, <2>6, AcksShift
  <2>8. n > 0 => Acked + n <= count
    BY <1>3, <1>5, <2>2, <2>5
  <2>9. (n > 0 => Acked + n <= count /\ count + Len(wire) <= sent) /\ (Stuck => n = 0)
    BY <1>10, <2>1, <2>8
  <2> QED BY <1>3, <2>7, <2>9
<1> QED BY <1>9, <1>10

LEMMA CountsRecvAck ==
  ASSUME CountsInv, Counts!RecvAck
  PROVE  CountsInv' /\ Counts!Queued \ Counts!Queued' \subseteq handled
<1>1. PICK n \in 0..Len(sm_outqueue) :
        /\ sm_outqueue' \in Seq(Numbers) /\ Len(sm_outqueue') = Len(sm_outqueue) - n
        /\ \A i \in 1..Len(sm_outqueue') : sm_outqueue'[i] = sm_outqueue[n + i]
        /\ Acked' = Acked + n /\ Acked \in Nat
        /\ n > 0 => Acked + n <= count /\ count + Len(wire) <= sent
        /\ Stuck => n = 0
        /\ acks' \in Seq(Nat) /\ AcksOk'
  BY AckTakes
<1>2. UNCHANGED <<open, sm_h_outbound, wire, handled, count, sent, resumes>>
  BY DEF Counts!RecvAck, Counts!Trim
<1>3. /\ sent \in Nat /\ Len(wire) \in Nat /\ Len(sm_outqueue) \in Nat /\ count \in Nat
      /\ resumes \in 0..MaxResumes
  BY DEF CountsInv, QueueOk, WireOk, CountOk
<1>4. Slack \in Nat /\ Slack' = Slack
  BY <1>2, <1>3, SlackFacts DEF Slack
<1>5. QueueOk'
  BY <1>1, <1>2, <1>3, TrimmedQueue DEF CountsInv
<1>6. WireOk'
  <2>1. ASSUME NEW i \in 1..Len(sm_outqueue'), Acked' + i <= sent - Len(wire)
        PROVE  Acked' + i \in handled
    <3>1. n + i \in 1..Len(sm_outqueue) /\ Acked + (n + i) = Acked' + i
      BY <1>1, <1>3
    <3> QED BY <2>1, <3>1 DEF CountsInv, WireOk
  <2> QED BY <1>2, <2>1 DEF CountsInv, WireOk
<1>7. CountOk'
  <2>1. CASE n = 0
    <3>1. Acked' = Acked /\ (Stuck => Stuck')
      <4>1. Acked' = Acked
        BY <1>1, <2>1
      <4>2. ASSUME Stuck PROVE Stuck'
        <5>1. Len(sm_outqueue) > 0 /\ Len(sm_outqueue') = Len(sm_outqueue)
          BY <1>1, <1>3, <2>1, <4>2 DEF Stuck, CountsInv, QueueOk
        <5>2. sm_outqueue'[1] = sm_outqueue[1] /\ sm_outqueue' # <<>>
          BY <1>1, <2>1, <5>1
        <5> QED BY <1>2, <4>2, <5>2 DEF Stuck
      <4> QED BY <4>1, <4>2
    <3> QED BY <1>2, <1>4, <3>1 DEF CountsInv, CountOk
  <2>2. CASE n > 0
    BY <1>1, <1>2, <1>3, <1>4, <2>2 DEF CountOk
  <2> QED BY <2>1, <2>2
<1>8. ASSUME NEW x \in Counts!Queued, x \notin Counts!Queued' PROVE x \in handled
  <2>1. PICK j \in 1..Len(sm_outqueue) : x = sm_outqueue[j].stanza
    BY <1>8 DEF Counts!Queued
  <2>2. CASE j > n
    <3>1. j - n \in 1..Len(sm_outqueue') /\ n + (j - n) = j
      BY <1>1, <1>3, <2>2
    <3>2. sm_outqueue'[j - n] = sm_outqueue[j]
      BY <1>1, <3>1
    <3>3. x \in Counts!Queued'
      BY <2>1, <3>1, <3>2 DEF Counts!Queued
    <3> QED BY <1>8, <3>3
  <2>3. CASE j <= n
    <3>1. Acked + j <= sent - Len(wire)
      BY <1>1, <1>3, <2>3
    <3>2. x = Acked + j
      BY <2>1 DEF CountsInv, QueueOk
    <3> QED BY <3>1, <3>2 DEF CountsInv, WireOk
  <2> QED BY <2>2, <2>3
<1> QED BY <1>1, <1>5, <1>6, <1>7, <1>8 DEF CountsInv

LEMMA CountsResume ==
  ASSUME CountsInv, Counts!Resume
  PROVE  CountsInv'
<1>1. /\ acks' = <<>> /\ resumes < MaxResumes /\ resumes' = resumes + 1
      /\ Counts!Trimmed(count % Wrap)
      /\ wire' = [i \in 1..Len(sm_outqueue') |-> sm_outqueue'[i].stanza]
      /\ UNCHANGED <<sm_h_outbound, handled, count, sent>>
  BY DEF Counts!Resume, Counts!Reported
<1>2. /\ QueueOk /\ count \in Nat /\ count >= Acked - Slack /\ count + Len(wire) <= sent + Slack
      /\ Stuck \/ count + Len(wire) <= sent
  BY DEF CountsInv, CountOk
<1>3. count % Wrap \in Nat
  BY <1>2, Division, CountConstants
<1>4. PICK n \in 0..Len(sm_outqueue) :
        /\ sm_outqueue' = SubSeq(sm_outqueue, n + 1, Len(sm_outqueue))
        /\ sm_outqueue' \in Seq(Numbers) /\ Len(sm_outqueue') = Len(sm_outqueue) - n
        /\ \A i \in 1..Len(sm_outqueue') : sm_outqueue'[i] = sm_outqueue[n + i]
        /\ Acked' = Acked + n /\ Acked \in Nat
        /\ \A j \in 1..n : (Acked + j) % Wrap <= count % Wrap
        /\ n < Len(sm_outqueue) => (Acked + (n + 1)) % Wrap > count % Wrap
  BY <1>1, <1>2, <1>3, TrimFacts
<1>5. /\ sent \in Nat /\ Len(sm_outqueue) \in Nat /\ Len(sm_outqueue) <= MaxInFlight
      /\ Len(wire) \in Nat /\ sm_h_outbound = sent % Wrap /\ resumes \in 0..MaxResumes
      /\ MaxInFlight \in Nat /\ Wrap \in Nat /\ MaxResumes \in Nat
  BY <1>2, CountConstants DEF QueueOk, CountsInv, WireOk
<1>6. sent = Acked + Len(sm_outqueue)
  BY <1>5 DEF Acked
<1>7. /\ Slack \in Nat /\ Slack + MaxInFlight < Wrap /\ Slack' = Slack + MaxInFlight
      /\ resumes' \in 0..MaxResumes
  <2>1. Slack \in Nat /\ Slack + MaxInFlight < Wrap /\ (resumes + 1) * MaxInFlight = Slack + MaxInFlight
    BY <1>5, SlackFacts
  <2>2. Slack' = (resumes + 1) * MaxInFlight
    BY <1>1, Zenon DEF Slack
  <2> QED BY <1>1, <1>5, <2>1, <2>2
<1>8. QueueOk'
  BY <1>1, <1>2, <1>4, <1>7, TrimmedQueue
<1>9. \A i \in 1..Len(sm_outqueue') : sm_outqueue'[i].stanza = Acked' + i /\ Acked' + i \in Nat
  <2>1. Acked' \in Nat
    BY <1>4
  <2> QED BY <1>8, <2>1 DEF QueueOk
<1>10. /\ wire' \in Seq(Nat) /\ Len(wire') = Len(sm_outqueue')
       /\ \A i \in 1..Len(wire') : wire'[i] = Acked' + i
  <2>1. Len(sm_outqueue') \in Nat
    BY <1>4
  <2> QED BY <1>1, <1>9, <2>1
<1>11. Acked' = sent - Len(wire') /\ Len(wire') \in Nat /\ Len(wire') = Len(sm_outqueue) - n
  <2>1. Acked' = Acked + n /\ Acked \in Nat /\ Len(sm_outqueue') = Len(sm_outqueue) - n
    BY <1>4
  <2>2. Len(sm_outqueue) \in Nat /\ sent \in Nat /\ Len(wire') = Len(sm_outqueue')
    BY <1>5, <1>10
  <2>3. n \in 0..Len(sm_outqueue)
    OBVIOUS
  <2> QED BY ONLY <2>1, <2>2, <2>3, <1>6
<1>12. WireOk'
  <2>1. \A i \in 1..Len(sm_outqueue') : ~(Acked' + i <= sent - Len(wire'))
    BY <1>4, <1>11
  <2>2. \A i \in 1..Len(wire') : wire'[i] = sent - Len(wire') + i
    BY <1>10, <1>11
  <2>3. Len(wire') <= sent
    BY <1>4, <1>5, <1>6, <1>11
  <2> QED BY <1>1, <1>10, <2>1, <2>2, <2>3 DEF WireOk
<1>13. count <= sent + Slack
  BY <1>2, <1>5, <1>7
<1>14. Stuck' \/ count + Len(wire') <= sent
  <2>1. CASE count <= Acked + n
    BY <1>2, <1>4, <1>5, <1>6, <1>11, <2>1
  <2>2. CASE count > Acked + n
    <3>1. Stuck => Len(sm_outqueue) > 0 /\ sent % Wrap < (Acked + 1) % Wrap
      <4>1. ASSUME Stuck PROVE Len(sm_outqueue) > 0
        BY <1>2, <4>1 DEF Stuck, QueueOk
      <4>2. ASSUME Stuck PROVE sent % Wrap < (Acked + 1) % Wrap
        <5>1. sm_outqueue[1].seq = (Acked + 1) % Wrap
          BY <1>2, <4>1, <4>2 DEF QueueOk
        <5> QED BY <1>5, <4>2, <5>1 DEF Stuck
      <4> QED BY <4>1, <4>2
    <3>2. count <= sent \/ (Len(sm_outqueue) > 0 /\ sent % Wrap < (Acked + 1) % Wrap)
      BY <1>2, <1>5, <3>1
    <3>3. Slack + Len(sm_outqueue) < Wrap
      BY <1>5, <1>7
    <3>4. n < Len(sm_outqueue) /\ sent % Wrap < (Acked + (n + 1)) % Wrap
      <4>1. Acked \in Nat /\ Slack \in Nat /\ sent \in Nat /\ Len(sm_outqueue) \in Nat /\ count \in Nat
        BY <1>2, <1>4, <1>5, <1>7
      <4> QED BY <1>4, <1>6, <1>13, <2>2, <3>2, <3>3, <4>1, ResumeTrims, Zenon
    <3>5. Len(sm_outqueue') > 0 /\ 1 \in 1..Len(sm_outqueue') /\ sm_outqueue' # <<>>
      <4>1. Len(sm_outqueue') > 0
        BY <1>4, <1>5, <3>4
      <4>2. sm_outqueue' \in Seq(Numbers)
        BY <1>4
      <4>3. Len(sm_outqueue') \in Nat
        BY <4>2
      <4>4. sm_outqueue' # <<>>
        BY <4>1, <4>2
      <4> QED BY <4>1, <4>3, <4>4
    <3>6. sm_outqueue'[1].seq = (Acked + (n + 1)) % Wrap
      <4>1. Acked' + 1 = Acked + (n + 1)
        BY <1>4
      <4> QED BY <1>8, <3>5, <4>1 DEF QueueOk
    <3> QED BY <1>1, <1>5, <3>4, <3>5, <3>6 DEF Stuck
  <2> QED BY <1>2, <1>4, <2>1, <2>2
<1>15. CountOk'
  <2>1. count >= Acked' - Slack' /\ count + Len(wire') <= sent + Slack'
    BY <1>2, <1>4, <1>5, <1>6, <1>7, <1>11, <1>13
  <2> QED BY <1>1, <1>2, <1>14, <2>1 DEF CountOk
<1>16. acks' \in Seq(Nat) /\ AcksOk'
  <2>1. acks' \in Seq(Nat) /\ Len(acks') = 0
    BY <1>1
  <2>2. 1..Len(acks') = {}
    BY <2>1
  <2> QED BY <2>1, <2>2, Zenon DEF AcksOk
<1> QED BY <1>8, <1>12, <1>15, <1>16 DEF CountsInv

\* An acknowledgement that is accepted takes only what the server has handled out of the queue
\* (stream_management.inl:105): on both sides of the wrap-around of the counters, and after any
\* number of resumptions.
THEOREM AckTrimsHandledTheorem == StreamsSpec => AckTrimsHandled
<1> DEFINE svars == <<moves, allVars, countVars, extVars>>
<1>1. StreamsInit => CountsInv
  BY CountsBegin DEF StreamsInit
<1>2. ASSUME CountsInv, [StreamsNext]_svars
      PROVE  CountsInv' /\ (UNCHANGED countVars \/ Counts!Next)
  <2>1. UNCHANGED countVars \/ Counts!Next
    BY <1>2 DEF StreamsNext
  <2>2. CountsInv'
    <3>1. CASE UNCHANGED countVars
      BY <1>2, <3>1, CountsStay
    <3>2. CASE Counts!Next
      BY <1>2, <3>2, CountsSend, CountsHandle, CountsAcknowledge, CountsRecvAck, CountsTooHigh,
         CountsResume DEF Counts!Next
    <3> QED BY <2>1, <3>1, <3>2
  <2> QED BY <2>1, <2>2
<1>3. ASSUME CountsInv, [StreamsNext]_svars
      PROVE  [Counts!RecvAck => Counts!Queued \ Counts!Queued' \subseteq handled]_(Counts!vars)
  BY <1>3, CountsRecvAck
<1>4. StreamsSpec => []CountsInv
  <2>1. CountsInv /\ [StreamsNext]_svars => CountsInv'
    BY <1>2
  <2> HIDE DEF CountsInv
  <2> QED BY <1>1, <2>1, PTL DEF StreamsSpec
<1>5. CountsInv /\ [StreamsNext]_svars
        => [Counts!RecvAck => Counts!Queued \ Counts!Queued' \subseteq handled]_(Counts!vars)
  BY <1>3
<1> QED BY <1>4, <1>5, PTL DEF StreamsSpec, AckTrimsHandled, Counts!AckTrimsHandled

-----------------------------------------------------------------------------
(* What a stream error teaches: the extensions of the streams.             *)

LEMMA Wider ==
  ASSUME NEW S, NEW T, S \subseteq T, NEW q \in Seq(S)
  PROVE  q \in Seq(T)
<1>1. q \in [1..Len(q) -> S] /\ Len(q) \in Nat
  OBVIOUS
<1>2. q \in [1..Len(q) -> T]
  BY <1>1
<1> QED BY <1>1, <1>2

LEMMA Joined ==
  ASSUME NEW T, NEW p \in Seq(T), NEW q \in Seq(T)
  PROVE  p \o q \in Seq(T)
OBVIOUS

\* the verdicts on an extension
Nos(e) == IF cache[e] = "no" THEN 1 ELSE 0

\* what the client has sent: of extensions it takes for available, and to a server that does
\* not know SM only while it negotiates SM
Sendable ==
  {e \in {"enable", "resume", "r", "a", "active", "inactive"} :
     /\ Exts!ExtOf(e) = "csi" => csi_known
     /\ Exts!ExtOf(e) = "sm" => sm_available /\ ("sm" \in server.rejects => sm_awaiting)}

\* what the server has sent: nothing but the error, if it does not know SM
Answers ==
  {e \in {"enabled", "resumed", "failed", "r", "error"} :
     /\ e = "error" => csi_known \/ ("sm" \in server.rejects /\ sm_awaiting)
     /\ e # "error" => "sm" \notin server.rejects /\ sm_available}

ExtTypes ==
  /\ stream \in {"off", "connecting", "up"} /\ last_ext \in {"none", "sm", "csi"}
  /\ {sm_available, csi_known, sm_awaiting, sm_resume_attempted, sm_enabled, sm_id} \subseteq BOOLEAN
  /\ cache \in [Ext -> {"unknown", "no"}] /\ errors \in Nat
  /\ server \in [rejects : SUBSET Ext, sm : BOOLEAN, csi : BOOLEAN, persists : BOOLEAN]

LinkOk ==
  /\ stream # "up" => out = <<>> /\ s2c = <<>> /\ ~sm_awaiting /\ ~sm_resume_attempted
  /\ stream = "connecting" => last_ext = "none"
  /\ sm_awaiting \/ sm_resume_attempted => sm_available
  /\ sm_enabled => "sm" \notin server.rejects
  /\ stream = "up" /\ (sm_enabled \/ last_ext = "sm") => sm_available

\* An extension with a verdict is not used, and every error has been a verdict.
CacheOk ==
  /\ cache["sm"] = "no" => ~sm_available
  /\ cache["csi"] = "no" => ~csi_known
  /\ server.persists => errors <= Nos("sm") + Nos("csi")

ExtsInv == ExtTypes /\ LinkOk /\ CacheOk /\ out \in Seq(Sendable) /\ s2c \in Seq(Answers)

LEMMA ExtsBegin ==
  ASSUME Exts!Init
  PROVE  ExtsInv
<1>1. ExtTypes /\ LinkOk /\ CacheOk
  <2>1. ExtTypes
    BY DEF Exts!Init, ExtTypes
  <2>2. LinkOk
    BY DEF Exts!Init, LinkOk
  <2>3. cache["sm"] = "unknown" /\ cache["csi"] = "unknown" /\ errors = 0
    BY ExtConstants DEF Exts!Init
  <2>4. CacheOk
    BY <2>3 DEF CacheOk, Nos
  <2> QED BY <2>1, <2>2, <2>4
<1>2. out \in Seq(Sendable) /\ s2c \in Seq(Answers)
  BY DEF Exts!Init
<1> QED BY <1>1, <1>2 DEF ExtsInv

LEMMA ExtsStay ==
  ASSUME ExtsInv, UNCHANGED extVars
  PROVE  ExtsInv'
<1>1. Sendable' = Sendable /\ Answers' = Answers
  BY DEF extVars, Sendable, Answers
<1>2. ExtTypes' /\ LinkOk' /\ CacheOk'
  BY DEF ExtsInv, extVars, ExtTypes, LinkOk, CacheOk, Nos
<1> QED BY <1>1, <1>2 DEF ExtsInv, extVars

\* the last element of what was sent
LEMMA Sends ==
  ASSUME NEW T, out \in Seq(T), NEW e \in T, Exts!Send(<<e>>)
  PROVE  out' \in Seq(T) /\ last_ext' = Exts!ExtOf(e)
<1>1. <<e>> \in Seq(T) /\ Len(<<e>>) = 1 /\ <<e>>[1] = e /\ <<e>> # <<>>
  OBVIOUS
<1>2. out' = out \o <<e>> /\ last_ext' = Exts!ExtOf(<<e>>[Len(<<e>>)])
  BY <1>1 DEF Exts!Send
<1>3. out' \in Seq(T)
  BY <1>1, <1>2, Joined
<1>4. last_ext' = Exts!ExtOf(e)
  BY <1>1, <1>2, Zenon
<1> QED BY <1>3, <1>4

LEMMA SendsNothing ==
  ASSUME NEW T, out \in Seq(T), Exts!Send(<<>>)
  PROVE  out' \in Seq(T) /\ last_ext' = last_ext
<1>1. out' = out \o <<>> /\ last_ext' = last_ext
  BY DEF Exts!Send
<1>2. <<>> \in Seq(T)
  OBVIOUS
<1>3. out' \in Seq(T)
  BY <1>1, <1>2, Joined
<1> QED BY <1>1, <1>3

\* The setup sends CSI elements, if the server is taken to know CSI.
LEMMA SetupSends ==
  ASSUME NEW T, out \in Seq(T), NEW resumed \in BOOLEAN, Exts!Setup(resumed),
         csi_known' \in BOOLEAN, csi_known' => {"active", "inactive"} \subseteq T
  PROVE  out' \in Seq(T) /\ (last_ext' = last_ext \/ last_ext' = "csi")
<1>1. CASE sm_post_connect_done
  BY <1>1 DEF Exts!Setup
<1>2. CASE ~sm_post_connect_done
  <2>1. PICK still_idle \in BOOLEAN :
          Exts!Send(CASE ~csi_known' -> <<>>
                      [] csi_known' /\ still_idle -> <<"inactive">>
                      [] csi_known' /\ ~still_idle /\ resumed -> <<>>
                      [] OTHER -> <<"active">>)
    BY <1>2 DEF Exts!Setup
  <2>2. \/ Exts!Send(<<>>)
        \/ csi_known' /\ Exts!Send(<<"inactive">>)
        \/ csi_known' /\ Exts!Send(<<"active">>)
    BY <2>1
  <2>3. Exts!ExtOf("inactive") = "csi" /\ Exts!ExtOf("active") = "csi"
    BY DEF Exts!ExtOf
  <2>4. CASE Exts!Send(<<>>)
    BY <2>4, SendsNothing
  <2>5. CASE csi_known' /\ Exts!Send(<<"inactive">>)
    BY <2>3, <2>5, Sends
  <2>6. CASE csi_known' /\ Exts!Send(<<"active">>)
    BY <2>3, <2>6, Sends
  <2> QED BY <2>2, <2>4, <2>5, <2>6
<1> QED BY <1>1, <1>2
LEMMA ExtsConnect ==
  ASSUME ExtsInv, Exts!Connect
  PROVE  ExtsInv'
<1>1. ExtTypes'
  BY DEF Exts!Connect, Exts!negotiation, ExtsInv, ExtTypes
<1>2. LinkOk'
  BY DEF Exts!Connect, Exts!negotiation, ExtsInv, ExtTypes, LinkOk
<1>3. CacheOk'
  BY DEF Exts!Connect, ExtsInv, ExtTypes, CacheOk, Nos
<1>4. out' = <<>> /\ s2c' = <<>>
  BY DEF Exts!Connect, ExtsInv, LinkOk
<1>5. out' \in Seq(Sendable') /\ s2c' \in Seq(Answers')
  BY <1>4
<1> QED BY <1>1, <1>2, <1>3, <1>5 DEF ExtsInv

LEMMA ExtsConnectEvent ==
  ASSUME ExtsInv, Exts!ConnectEvent
  PROVE  ExtsInv'
<1>1. /\ stream = "connecting" /\ stream' = "up" /\ last_ext = "none" /\ out = <<>> /\ s2c' = <<>>
      /\ sm_available' \in BOOLEAN /\ csi_known' \in BOOLEAN /\ sm_enabled' = FALSE
      /\ sm_awaiting' = sm_available' /\ sm_resume_attempted' \in BOOLEAN /\ sm_id' \in BOOLEAN
      /\ sm_resume_attempted' => sm_available'
      /\ UNCHANGED <<cache, server, errors>>
  BY DEF Exts!ConnectEvent, Exts!ResolveCSI, ExtsInv, ExtTypes, LinkOk
<1>2. sm_available' => sm_available
  BY DEF Exts!ConnectEvent, ExtsInv, ExtTypes
<1>3. csi_known' => cache["csi"] # "no"
  BY DEF Exts!ConnectEvent, Exts!ResolveCSI
<1>4. CacheOk'
  BY <1>1, <1>2, <1>3 DEF ExtsInv, CacheOk, Nos
<1>5. s2c' \in Seq(Answers')
  BY <1>1
<1>6. out \in Seq(Sendable')
  BY <1>1
<1>7. out' \in Seq(Sendable') /\ last_ext' \in {"none", "sm", "csi"} /\ (last_ext' = "sm" => sm_available')
  <2>1. CASE sm_available'
    <3>1. PICK e \in {"enable", "resume"} : Exts!Send(<<e>>)
      BY <2>1 DEF Exts!ConnectEvent
    <3>2. e \in Sendable' /\ Exts!ExtOf(e) = "sm"
      BY <1>1, <2>1 DEF Sendable, Exts!ExtOf
    <3> QED BY <1>6, <2>1, <3>1, <3>2, Sends
  <2>2. CASE ~sm_available'
    <3>1. Exts!Send(<<>>) \/ (csi_known' /\ Exts!Send(<<"active">>))
      BY <2>2 DEF Exts!ConnectEvent
    <3>2. csi_known' => "active" \in Sendable' /\ Exts!ExtOf("active") = "csi"
      BY DEF Sendable, Exts!ExtOf
    <3>3. CASE Exts!Send(<<>>)
      BY <1>1, <1>6, <3>3, SendsNothing
    <3>4. CASE csi_known' /\ Exts!Send(<<"active">>)
      BY <1>1, <1>6, <3>2, <3>4, Sends
    <3> QED BY <3>1, <3>3, <3>4
  <2> QED BY <2>1, <2>2
<1>8. ExtTypes'
  BY <1>1, <1>7 DEF ExtsInv, ExtTypes
<1>9. LinkOk'
  BY <1>1, <1>7 DEF LinkOk
<1> QED BY <1>4, <1>5, <1>7, <1>8, <1>9 DEF ExtsInv

\* An answer that is not the error comes from a server that knows SM.
LEMMA Received ==
  ASSUME ExtsInv, NEW e, Exts!Receive(e), e # "error"
  PROVE  /\ stream = "up" /\ "sm" \notin server.rejects /\ sm_available
         /\ UNCHANGED <<stream, sm_available, csi_known, cache, server, errors>>
         /\ s2c' \in Seq(Answers')
         /\ out \in Seq(Sendable')
         /\ {"enable", "a"} \subseteq Sendable'
         /\ csi_known' => {"active", "inactive"} \subseteq Sendable'
<1>1. /\ stream = "up" /\ s2c # <<>> /\ Head(s2c) = e /\ s2c' = Tail(s2c)
      /\ UNCHANGED <<stream, sm_available, csi_known, cache, server, errors>>
  BY DEF Exts!Receive, Exts!available
<1>2. e \in Answers /\ s2c' \in Seq(Answers)
  BY <1>1 DEF ExtsInv
<1>3. "sm" \notin server.rejects /\ sm_available
  BY <1>2 DEF Answers
<1>4. Answers \subseteq Answers'
  BY <1>1, <1>3 DEF Answers
<1>5. Sendable \subseteq Sendable'
  BY <1>1, <1>3 DEF Sendable
<1>6. s2c' \in Seq(Answers')
  BY <1>2, <1>4, Wider
<1>7. out \in Seq(Sendable')
  BY <1>5, Wider DEF ExtsInv
<1>8. {"enable", "a"} \subseteq Sendable' /\ (csi_known' => {"active", "inactive"} \subseteq Sendable')
  BY <1>1, <1>3 DEF Sendable, Exts!ExtOf
<1> QED BY <1>1, <1>3, <1>6, <1>7, <1>8

LEMMA ExtsRecv ==
  ASSUME ExtsInv, Exts!RecvEnabled \/ Exts!RecvResumed \/ Exts!RecvFailed \/ Exts!RecvReq
  PROVE  ExtsInv'
<1>1. PICK e \in {"enabled", "resumed", "failed", "r"} : Exts!Receive(e)
  BY DEF Exts!RecvEnabled, Exts!RecvResumed, Exts!RecvFailed, Exts!RecvReq
<1>2. /\ stream = "up" /\ "sm" \notin server.rejects /\ sm_available
      /\ UNCHANGED <<stream, sm_available, csi_known, cache, server, errors>>
      /\ s2c' \in Seq(Answers')
      /\ out \in Seq(Sendable')
      /\ {"enable", "a"} \subseteq Sendable'
      /\ csi_known' => {"active", "inactive"} \subseteq Sendable'
  BY <1>1, Received
<1>3. CacheOk'
  BY <1>2 DEF ExtsInv, CacheOk, Nos
<1>4. {sm_awaiting', sm_resume_attempted', sm_enabled', sm_id'} \subseteq BOOLEAN
  BY DEF Exts!RecvEnabled, Exts!RecvResumed, Exts!RecvFailed, Exts!RecvReq, Exts!ClearSession,
         Exts!negotiation, ExtsInv, ExtTypes
<1>5. out' \in Seq(Sendable') /\ last_ext' \in {"none", "sm", "csi"}
  <2>1. csi_known' \in BOOLEAN /\ last_ext \in {"none", "sm", "csi"}
    BY <1>2 DEF ExtsInv, ExtTypes
  <2>2. \/ \E resumed \in BOOLEAN : Exts!Setup(resumed)
        \/ \E r \in {"enable", "a"} : Exts!Send(<<r>>)
    BY DEF Exts!RecvEnabled, Exts!RecvResumed, Exts!RecvFailed, Exts!RecvReq
  <2>3. CASE \E resumed \in BOOLEAN : Exts!Setup(resumed)
    BY <1>2, <2>1, <2>3, SetupSends
  <2>4. CASE \E r \in {"enable", "a"} : Exts!Send(<<r>>)
    <3>1. PICK r \in {"enable", "a"} : Exts!Send(<<r>>)
      BY <2>4
    <3>2. Exts!ExtOf(r) = "sm" /\ r \in Sendable'
      BY <1>2 DEF Exts!ExtOf
    <3> QED BY <1>2, <3>1, <3>2, Sends
  <2> QED BY <2>2, <2>3, <2>4
<1>6. ExtTypes'
  BY <1>2, <1>4, <1>5 DEF ExtsInv, ExtTypes
<1>7. LinkOk'
  BY <1>2 DEF LinkOk
<1> QED BY <1>2, <1>3, <1>5, <1>6, <1>7 DEF ExtsInv

\* The client sends of its own accord: r to a server that knows SM, or a CSI element.
LEMMA ExtsVolunteer ==
  ASSUME ExtsInv, Exts!AckTimer \/ Exts!IdleTimer \/ Exts!Activity
  PROVE  ExtsInv'
<1>1. PICK e \in {"r", "active", "inactive"} :
        /\ Exts!Send(<<e>>)
        /\ e = "r" => sm_enabled
        /\ e # "r" => csi_known
  BY DEF Exts!AckTimer, Exts!IdleTimer, Exts!Activity, Exts!Volunteer
<1>2. /\ stream = "up"
      /\ UNCHANGED <<stream, sm_available, csi_known, sm_awaiting, sm_resume_attempted, sm_enabled,
                     sm_id, cache, s2c, server, errors>>
  BY DEF Exts!AckTimer, Exts!IdleTimer, Exts!Activity, Exts!Volunteer, Exts!available, Exts!negotiation
<1>3. Sendable' = Sendable /\ Answers' = Answers
  BY <1>2 DEF Sendable, Answers
<1>4. e \in Sendable /\ (Exts!ExtOf(e) = "sm" => sm_available) /\ Exts!ExtOf(e) \in {"sm", "csi"}
  BY <1>1, <1>2 DEF ExtsInv, LinkOk, Sendable, Exts!ExtOf
<1>5. out' \in Seq(Sendable) /\ last_ext' = Exts!ExtOf(e)
  BY <1>1, <1>4, Sends DEF ExtsInv
<1>6. ExtTypes' /\ CacheOk'
  BY <1>2, <1>4, <1>5 DEF ExtsInv, ExtTypes, CacheOk, Nos
<1>7. LinkOk'
  BY <1>2, <1>4, <1>5 DEF ExtsInv, LinkOk
<1> QED BY <1>2, <1>3, <1>5, <1>6, <1>7 DEF ExtsInv

\* What is blamed for an error was in use: it had no verdict.
LEMMA ErrorBlames ==
  ASSUME ExtsInv, Exts!StreamError
  PROVE  \/ Exts!Blamed = {"sm"} /\ sm_available
         \/ Exts!Blamed = {"csi"} /\ csi_known
<1>1. stream = "up" /\ s2c # <<>> /\ Head(s2c) = "error"
  BY DEF Exts!StreamError
<1>2. "error" \in Answers
  BY <1>1 DEF ExtsInv
<1>3. csi_known \/ sm_awaiting
  BY <1>2 DEF Answers
<1>4. CASE sm_awaiting \/ sm_resume_attempted
  <2>1. sm_available
    BY <1>4 DEF ExtsInv, LinkOk
  <2>2. Exts!Blamed = {"sm"}
    BY <1>4, <2>1 DEF Exts!Blamed
  <2> QED BY <2>1, <2>2
<1>5. CASE ~(sm_awaiting \/ sm_resume_attempted)
  <2>1. csi_known
    BY <1>3, <1>5
  <2>2. Exts!Blamed = {IF last_ext = "sm" THEN "sm" ELSE "csi"}
    BY <1>5, <2>1 DEF Exts!Blamed
  <2>3. last_ext = "sm" => sm_available
    BY <1>1 DEF ExtsInv, LinkOk
  <2> QED BY <2>1, <2>2, <2>3
<1> QED BY <1>4, <1>5

LEMMA ExtsStreamError ==
  ASSUME ExtsInv, Exts!StreamError
  PROVE  ExtsInv'
<1>1. /\ stream' = "off" /\ out' = <<>> /\ s2c' = <<>> /\ sm_awaiting' = FALSE
      /\ sm_resume_attempted' = FALSE /\ UNCHANGED <<last_ext, server>> /\ errors' = errors + 1
  BY DEF Exts!StreamError, Exts!Cut
<1>2. /\ sm_available' = (sm_available /\ "sm" \notin Exts!Blamed)
      /\ csi_known' = (csi_known /\ "csi" \notin Exts!Blamed)
      /\ sm_enabled' \in BOOLEAN /\ sm_id' \in BOOLEAN /\ (sm_enabled' => sm_enabled)
      /\ sm_available' \in BOOLEAN /\ csi_known' \in BOOLEAN
  BY DEF Exts!StreamError, Exts!ClearSession, ExtsInv, ExtTypes
<1>3. cache \in [Ext -> {"unknown", "no"}] /\ Ext = {"sm", "csi"} /\ errors \in Nat
  BY ExtConstants DEF ExtsInv, ExtTypes
<1>4. cache' \in [Ext -> {"unknown", "no"}]
  BY <1>3 DEF Exts!StreamError, Exts!Learn
<1>5. ~server.persists => cache' = cache
  BY DEF Exts!StreamError, Exts!Learn
<1>6. server.persists => \A e \in Ext : cache'[e] = IF e \in Exts!Blamed THEN "no" ELSE cache[e]
  BY DEF Exts!StreamError, Exts!Learn
<1>7. CacheOk'
  <2>1. CASE ~server.persists
    BY <1>1, <1>2, <1>5, <2>1 DEF ExtsInv, CacheOk
  <2>2. CASE server.persists /\ Exts!Blamed = {"sm"} /\ sm_available
    <3>1. cache["sm"] # "no" /\ cache'["sm"] = "no" /\ cache'["csi"] = cache["csi"]
      BY <1>3, <1>6, <2>2 DEF ExtsInv, CacheOk
    <3>2. Nos("sm") = 0 /\ Nos("sm")' = 1 /\ Nos("csi")' = Nos("csi") /\ Nos("csi") \in 0..1
      BY <3>1 DEF Nos
    <3>3. errors <= Nos("sm") + Nos("csi")
      BY <2>2 DEF ExtsInv, CacheOk
    <3>4. errors' <= Nos("sm")' + Nos("csi")'
      BY <1>1, <1>3, <3>2, <3>3
    <3>5. (cache'["sm"] = "no" => ~sm_available') /\ (cache'["csi"] = "no" => ~csi_known')
      BY <1>2, <2>2, <3>1 DEF ExtsInv, CacheOk
    <3> QED BY <3>4, <3>5 DEF CacheOk
  <2>3. CASE server.persists /\ Exts!Blamed = {"csi"} /\ csi_known
    <3>1. cache["csi"] # "no" /\ cache'["csi"] = "no" /\ cache'["sm"] = cache["sm"]
      BY <1>3, <1>6, <2>3 DEF ExtsInv, CacheOk
    <3>2. Nos("csi") = 0 /\ Nos("csi")' = 1 /\ Nos("sm")' = Nos("sm") /\ Nos("sm") \in 0..1
      BY <3>1 DEF Nos
    <3>3. errors <= Nos("sm") + Nos("csi")
      BY <2>3 DEF ExtsInv, CacheOk
    <3>4. errors' <= Nos("sm")' + Nos("csi")'
      BY <1>1, <1>3, <3>2, <3>3
    <3>5. (cache'["sm"] = "no" => ~sm_available') /\ (cache'["csi"] = "no" => ~csi_known')
      BY <1>2, <2>3, <3>1 DEF ExtsInv, CacheOk
    <3> QED BY <3>4, <3>5 DEF CacheOk
  <2> QED BY <2>1, <2>2, <2>3, ErrorBlames
<1>8. ExtTypes'
  <2>1. errors' \in Nat
    BY <1>1, <1>3
  <2> QED BY <1>1, <1>2, <1>4, <2>1 DEF ExtsInv, ExtTypes
<1>9. LinkOk'
  BY <1>1, <1>2 DEF ExtsInv, LinkOk
<1>10. out' \in Seq(Sendable') /\ s2c' \in Seq(Answers')
  BY <1>1
<1> QED BY <1>7, <1>8, <1>9, <1>10 DEF ExtsInv

LEMMA ExtsLinkLost ==
  ASSUME ExtsInv, Exts!LinkLost
  PROVE  ExtsInv'
<1>1. /\ stream' = "off" /\ out' = <<>> /\ s2c' = <<>> /\ sm_awaiting' = FALSE
      /\ sm_resume_attempted' = FALSE
      /\ UNCHANGED <<sm_available, csi_known, last_ext, server, cache, errors>>
      /\ sm_enabled' \in BOOLEAN /\ sm_id' \in BOOLEAN /\ (sm_enabled' => sm_enabled)
  <2>1. sm_enabled \in BOOLEAN /\ sm_id \in BOOLEAN
    BY DEF ExtsInv, ExtTypes
  <2>2. sm_enabled' \in BOOLEAN /\ sm_id' \in BOOLEAN /\ (sm_enabled' => sm_enabled)
    <3>1. \/ ~sm_enabled' /\ ~sm_id' /\ sm_enabled' \in BOOLEAN /\ sm_id' \in BOOLEAN
          \/ sm_enabled' = sm_enabled /\ sm_id' = sm_id
      BY DEF Exts!LinkLost, Exts!ClearSession
    <3> QED BY <2>1, <3>1
  <2> QED BY <2>2 DEF Exts!LinkLost, Exts!Cut, Exts!available
<1>2. ExtTypes' /\ CacheOk'
  BY <1>1 DEF ExtsInv, ExtTypes, CacheOk, Nos
<1>3. LinkOk'
  BY <1>1 DEF ExtsInv, LinkOk
<1>4. out' \in Seq(Sendable') /\ s2c' \in Seq(Answers')
  BY <1>1
<1> QED BY <1>2, <1>3, <1>4 DEF ExtsInv

LEMMA ExtsServer ==
  ASSUME ExtsInv, Exts!Reject \/ Exts!Accept \/ Exts!Request
  PROVE  ExtsInv'
<1>1. /\ stream = "up"
      /\ UNCHANGED <<stream, sm_available, csi_known, sm_awaiting, sm_resume_attempted, sm_enabled,
                     sm_id, last_ext, cache, server, errors>>
  BY DEF Exts!Reject, Exts!Accept, Exts!Request, Exts!Serve, Exts!Alive, Exts!available,
         Exts!negotiation
<1>2. Sendable' = Sendable /\ Answers' = Answers
  BY <1>1 DEF Sendable, Answers
<1>3. ExtTypes' /\ CacheOk'
  BY <1>1 DEF ExtsInv, ExtTypes, CacheOk, Nos
<1>4. LinkOk'
  BY <1>1 DEF ExtsInv, LinkOk
<1>5. out' \in Seq(Sendable) /\ s2c' \in Seq(Answers)
  <2>1. CASE Exts!Reject
    <3>1. /\ out # <<>> /\ Exts!ExtOf(Head(out)) \in server.rejects
          /\ out' = <<>> /\ s2c' = Append(s2c, "error")
      BY <2>1 DEF Exts!Reject, Exts!Serve
    <3>2. Head(out) \in Sendable
      BY <3>1 DEF ExtsInv
    <3>3. Exts!ExtOf(Head(out)) \in {"sm", "csi"}
      BY DEF Exts!ExtOf
    <3>4. "error" \in Answers
      BY <3>1, <3>2, <3>3 DEF Sendable, Answers
    <3> QED BY <3>1, <3>4 DEF ExtsInv
  <2>2. CASE Exts!Accept
    <3>1. /\ out # <<>> /\ Exts!ExtOf(Head(out)) \notin server.rejects /\ out' = Tail(out)
      BY <2>2 DEF Exts!Accept, Exts!Serve
    <3>2. Head(out) \in Sendable /\ out' \in Seq(Sendable)
      BY <3>1 DEF ExtsInv
    <3>3. PICK answer \in {<<>>, <<"enabled">>, <<"resumed">>, <<"failed">>} :
            /\ s2c' = s2c \o answer
            /\ answer # <<>> => Head(out) \in {"enable", "resume"}
      BY <2>2 DEF Exts!Accept
    <3>4. Head(out) \in {"enable", "resume"} => {"enabled", "resumed", "failed"} \subseteq Answers
      BY <3>1, <3>2 DEF Sendable, Answers, Exts!ExtOf
    <3>5. answer \in Seq(Answers)
      <4>1. <<>> \in Seq(Answers)
        OBVIOUS
      <4>2. {"enabled", "resumed", "failed"} \subseteq Answers
              => {<<"enabled">>, <<"resumed">>, <<"failed">>} \subseteq Seq(Answers)
        OBVIOUS
      <4>3. answer = <<>> \/ answer \in {<<"enabled">>, <<"resumed">>, <<"failed">>}
        BY Zenon
      <4> QED BY <3>3, <3>4, <4>1, <4>2, <4>3, Zenon
    <3>6. s2c' \in Seq(Answers)
      BY <3>3, <3>5, Joined DEF ExtsInv
    <3> QED BY <3>2, <3>6
  <2>3. CASE Exts!Request
    <3>1. sm_enabled /\ s2c' = Append(s2c, "r") /\ out' = out
      BY <2>3 DEF Exts!Request
    <3>2. "r" \in Answers
      BY <1>1, <3>1 DEF ExtsInv, LinkOk, Answers
    <3> QED BY <3>1, <3>2 DEF ExtsInv
  <2> QED BY <2>1, <2>2, <2>3
<1> QED BY <1>2, <1>3, <1>4, <1>5 DEF ExtsInv

\* A server that does not know an extension costs one stream for each of them at most, whatever
\* the extensions are blamed for, and no stream error is answered by connecting in the same way
\* again (recoverable_unsupported_stanza_downgrade, conn_handler).
THEOREM OneStreamPerExtensionTheorem == StreamsSpec => OneStreamPerExtension
<1> DEFINE svars == <<moves, allVars, countVars, extVars>>
<1>1. StreamsInit => ExtsInv
  BY ExtsBegin DEF StreamsInit
<1>2. ASSUME ExtsInv, [StreamsNext]_svars
      PROVE  ExtsInv' /\ [Exts!StreamError => Exts!Blamed # {}]_(Exts!vars)
  <2>1. UNCHANGED extVars \/ Exts!Next
    BY <1>2 DEF StreamsNext
  <2>2. ExtsInv'
    BY <1>2, <2>1, ExtsStay, ExtsConnect, ExtsConnectEvent, ExtsRecv, ExtsVolunteer,
       ExtsStreamError, ExtsLinkLost, ExtsServer DEF Exts!Next, Exts!Client
  <2>3. Exts!StreamError => Exts!Blamed # {}
    BY <1>2, ErrorBlames
  <2> QED BY <2>2, <2>3
<1>3. ExtsInv => (server.persists => errors <= Exts!Cardinality(Ext))
  <2>1. Cardinality(Ext) = 2
    <3>1. Cardinality({"sm"}) = 1 /\ IsFiniteSet({"sm"})
      BY FS_Singleton
    <3>2. Cardinality({"sm"} \union {"csi"}) = 2
      BY <3>1, FS_AddElement
    <3>3. Ext = {"sm"} \union {"csi"}
      BY ExtConstants
    <3> QED BY <3>2, <3>3
  <2>2. Exts!Cardinality(Ext) = Cardinality(Ext)
    BY DEF Exts!Cardinality, Cardinality
  <2>3. ASSUME ExtsInv, server.persists PROVE errors <= 2
    BY <2>3 DEF ExtsInv, ExtTypes, CacheOk, Nos
  <2> QED BY <2>1, <2>2, <2>3
<1>4. StreamsSpec => []ExtsInv
  <2>1. ExtsInv /\ [StreamsNext]_svars => ExtsInv'
    BY <1>2
  <2> HIDE DEF ExtsInv
  <2> QED BY <1>1, <2>1, PTL DEF StreamsSpec
<1>5. ExtsInv /\ [StreamsNext]_svars => [Exts!StreamError => Exts!Blamed # {}]_(Exts!vars)
  BY <1>2
<1> QED BY <1>3, <1>4, <1>5, PTL DEF StreamsSpec, OneStreamPerExtension, Exts!OneStreamPerExtension

-----------------------------------------------------------------------------
(* The operators that MCForms instantiates, with what they are made of.    *)

IsBag(B) == B \in [DOMAIN B -> Nat \ {0}]

\* the registry of editors
IsRegistry(E) == \A id \in DOMAIN E : {"form", "waiting"} \subseteq DOMAIN E[id]
                                      /\ E[id].waiting \in BOOLEAN

\* C is the bag B with an r more, with an r less
Added(C, B, r) ==
  /\ IsBag(C) /\ DOMAIN C = DOMAIN B \union {r}
  /\ \A x \in DOMAIN B \ {r} : C[x] = B[x]
  /\ r \notin DOMAIN B => C[r] = 1
Removed(C, B, r) ==
  /\ IsBag(C) /\ DOMAIN C \subseteq DOMAIN B /\ DOMAIN B \ {r} \subseteq DOMAIN C
  /\ \A x \in DOMAIN C \ {r} : C[x] = B[x]
  /\ (r \in DOMAIN B /\ B[r] = 1) => r \notin DOMAIN C

LEMMA RoomBagAdd ==
  ASSUME NEW B, IsBag(B), NEW r
  PROVE  Added(R!(+)(B, R!SetToBag({r})), B, r)
BY DEF Added, IsBag, R!(+), R!SetToBag

LEMMA RoomBagRemove ==
  ASSUME NEW B, IsBag(B), NEW r
  PROVE  Removed(R!(-)(B, R!SetToBag({r})), B, r)
<1> DEFINE C == R!(-)(B, R!SetToBag({r}))
           D == [e \in DOMAIN B |-> IF e = r THEN B[e] - 1 ELSE B[e]]
<1>1. C = [e \in {d \in DOMAIN D : D[d] > 0} |-> D[e]]
  BY DEF R!(-), R!SetToBag
<1>2. \A e \in DOMAIN B : /\ D[e] \in Nat /\ D[e] = (IF e = r THEN B[e] - 1 ELSE B[e])
                          /\ e # r => D[e] > 0
  BY DEF IsBag
<1>0. DOMAIN D = DOMAIN B
  OBVIOUS
<1> HIDE DEF C, D
<1>3. /\ DOMAIN C = {d \in DOMAIN B : D[d] > 0} /\ \A e \in DOMAIN C : C[e] = D[e]
  BY <1>0, <1>1
<1>4. C \in [DOMAIN C -> Nat \ {0}]
  BY <1>1, <1>2, <1>3
<1>5. Removed(C, B, r)
  BY <1>2, <1>3, <1>4 DEF Removed, IsBag
<1> QED BY <1>5 DEF C

LEMMA RoomBagPlain ==
  ASSUME NEW B, IsBag(B), NEW C, C = R!(+)(B, R!SetToBag({}))
  PROVE  C = B
BY DEF IsBag, R!(+), R!SetToBag

\* The registry F is E, but for id.
Else(F, E, id) == \A x \in DOMAIN F \ {id} : x \in DOMAIN E /\ F[x] = E[x]

LEMMA RoomClose ==
  ASSUME NEW E, IsRegistry(E), NEW id
  PROVE  /\ IsRegistry(R!Close(E, {id})) /\ DOMAIN R!Close(E, {id}) = DOMAIN E \ {id}
         /\ Else(R!Close(E, {id}), E, id)
BY DEF R!Close, R!Without, IsRegistry, Else

LEMMA RoomOpen ==
  ASSUME NEW E, IsRegistry(E), NEW id, NEW form
  PROVE  /\ IsRegistry(R!Open(E, id, form)) /\ DOMAIN R!Open(E, id, form) = DOMAIN E \union {id}
         /\ Else(R!Open(E, id, form), E, id) /\ ~ R!Open(E, id, form)[id].waiting
<1> DEFINE F == R!Open(E, id, form)
           e == [form |-> form, waiting |-> FALSE]
<1>1. /\ DOMAIN F = DOMAIN E \union {id} /\ F[id] = e
      /\ \A x \in DOMAIN E \ {id} : F[x] = E[x]
  BY DEF R!Open, R!Close, R!Without, R!With
<1>2. {"form", "waiting"} \subseteq DOMAIN e /\ e.waiting \in BOOLEAN
  OBVIOUS
<1>4. ~ e.waiting
  OBVIOUS
<1> HIDE DEF F, e
<1>3. IsRegistry(F)
  BY <1>1, <1>2 DEF IsRegistry
<1> QED BY <1>1, <1>3, <1>4 DEF F, Else

LEMMA RoomFailed ==
  ASSUME NEW E, IsRegistry(E), NEW id
  PROVE  /\ IsRegistry(R!Failed(E, id)) /\ DOMAIN R!Failed(E, id) = DOMAIN E
         /\ Else(R!Failed(E, id), E, id)
         /\ id \in DOMAIN E => ~ R!Failed(E, id)[id].waiting
<1>1. CASE id \in DOMAIN E
  <2>1. \A x \in DOMAIN E : R!Failed(E, id)[x] =
          IF x = id THEN [E[x] EXCEPT !.waiting = FALSE] ELSE E[x]
    BY <1>1 DEF R!Failed, R!IsOpen
  <2>2. DOMAIN R!Failed(E, id) = DOMAIN E
    BY <1>1 DEF R!Failed, R!IsOpen
  <2> QED BY <1>1, <2>1, <2>2 DEF IsRegistry, Else
<1>2. CASE id \notin DOMAIN E
  BY <1>2 DEF R!Failed, R!IsOpen, Else
<1> QED BY <1>1, <1>2

-----------------------------------------------------------------------------
(* A room: who has been asked for what, and which editor waits for it.     *)

Editing == {"config", "register"}
Sending == {"config_edit_set", "config_edit_cancel", "register_set", "register_cancel"}

\* the tracked requests of an editor
Own(B, id) == {r \in DOMAIN B : r.tracked /\ R!EditorOf(r) = id}

\* an editor that waits has asked; the configuration is asked for, or submitted, once
Agree(B, E) ==
  /\ \A id \in DOMAIN E : E[id].waiting => \E r \in Own(B, id) : r.kind \in Sending
  /\ \A r, s \in Own(B, "config") : r = s /\ B[r] = 1
  /\ "config" \in DOMAIN E /\ Own(B, "config") # {} => E["config"].waiting

RoomInv ==
  /\ IsBag(pending) /\ IsRegistry(roomEditors) /\ DOMAIN roomEditors \subseteq Editing
  /\ \A r \in DOMAIN pending : "tracked" \in DOMAIN r
  /\ Agree(pending, roomEditors)

LEMMA EditorOfFacts ==
  ASSUME NEW r
  PROVE  /\ R!EditorOf(r) = "config" <=>
              r.kind \in {"config_edit_get", "config_edit_set", "config_edit_cancel"}
         /\ R!EditorOf(r) = "register" <=>
              r.kind \in {"register_get", "register_query", "register_set", "register_cancel"}
         /\ r.kind \notin {"config_edit_get", "config_edit_set", "config_edit_cancel",
                          "register_get", "register_query", "register_set", "register_cancel"}
              => R!EditorOf(r) = "none"
BY DEF R!EditorOf

\* One more request, of no editor.
LEMMA AgreeOther ==
  ASSUME NEW B, IsBag(B), NEW E, Agree(B, E), DOMAIN E \subseteq Editing, NEW r,
         R!EditorOf(r) \notin Editing \/ ~ r.tracked
  PROVE  Agree(R!(+)(B, R!SetToBag({r})), E)
<1> DEFINE C == R!(+)(B, R!SetToBag({r}))
<1> HIDE DEF C
<1>1. /\ IsBag(C) /\ DOMAIN C = DOMAIN B \union {r} /\ \A x \in DOMAIN B \ {r} : C[x] = B[x]
  BY RoomBagAdd DEF Added, C
<1>2. \A id \in Editing : Own(C, id) = Own(B, id) /\ r \notin Own(B, id)
  BY <1>1 DEF Own, Editing
<1>3. \A id \in Editing : \A x \in Own(B, id) : C[x] = B[x]
  BY <1>1, <1>2 DEF Own
<1> QED BY <1>2, <1>3 DEF Agree, Editing, C

\* One more request, for which the editor is closed first.
LEMMA AgreeAsked ==
  ASSUME NEW B, IsBag(B), NEW E, IsRegistry(E), Agree(B, E), DOMAIN E \subseteq Editing,
         NEW id \in Editing, NEW r, r.tracked, R!EditorOf(r) = id, Own(B, id) = {},
         NEW F, F = R!Close(E, {id}) \/ (F = E /\ id # "config")
  PROVE  Agree(R!(+)(B, R!SetToBag({r})), F)
<1> DEFINE C == R!(+)(B, R!SetToBag({r}))
<1> HIDE DEF C
<1>1. /\ IsBag(C) /\ DOMAIN C = DOMAIN B \union {r} /\ (\A x \in DOMAIN B \ {r} : C[x] = B[x])
      /\ r \notin DOMAIN B => C[r] = 1
  BY RoomBagAdd DEF Added, C
<1>2. r \notin DOMAIN B
  BY DEF Own
<1>3. /\ Own(C, id) = {r} /\ C[r] = 1
      /\ \A e \in Editing \ {id} : Own(C, e) = Own(B, e)
  BY <1>1, <1>2 DEF Own
<1>4. \A e \in Editing \ {id} : \A x \in Own(B, e) : C[x] = B[x]
  BY <1>1, <1>2 DEF Own
<1>5. CASE F = R!Close(E, {id})
  <2>1. DOMAIN F = DOMAIN E \ {id} /\ \A x \in DOMAIN E \ {id} : F[x] = E[x]
    BY <1>5 DEF R!Close, R!Without
  <2> HIDE <1>5
  <2> QED BY <1>3, <1>4, <2>1 DEF Agree, Editing, C
<1>6. CASE F = E /\ id # "config"
  BY <1>3, <1>4, <1>6 DEF Agree, Editing, C
<1> QED BY <1>5, <1>6

\* The request of an editor that waits from now on.
LEMMA AgreeSubmitted ==
  ASSUME NEW B, IsBag(B), NEW E, IsRegistry(E), Agree(B, E), DOMAIN E \subseteq Editing,
         NEW id \in DOMAIN E, ~ E[id].waiting, NEW r, r.tracked, R!EditorOf(r) = id,
         r.kind \in Sending
  PROVE  Agree(R!(+)(B, R!SetToBag({r})), R!Submitted(E, id))
<1> DEFINE C == R!(+)(B, R!SetToBag({r}))
           F == R!Submitted(E, id)
<1>1. /\ IsBag(C) /\ DOMAIN C = DOMAIN B \union {r} /\ (\A x \in DOMAIN B \ {r} : C[x] = B[x])
      /\ r \notin DOMAIN B => C[r] = 1
  <2> HIDE DEF C
  <2> QED BY RoomBagAdd DEF Added, C
<1>2. DOMAIN F = DOMAIN E /\ F[id].waiting /\ \A x \in DOMAIN E \ {id} : F[x] = E[x]
  BY DEF R!Submitted, IsRegistry
<1> HIDE DEF C, F
<1>3. /\ Own(C, id) = Own(B, id) \union {r}
      /\ \A e \in Editing \ {id} : Own(C, e) = Own(B, e)
  BY <1>1 DEF Own
<1>4. \A e \in Editing \ {id} : \A x \in Own(B, e) : C[x] = B[x]
  BY <1>1 DEF Own
<1>5. id = "config" => Own(B, id) = {} /\ r \notin DOMAIN B
  BY DEF Agree, Own
<1>6. \A e \in DOMAIN F : F[e].waiting => \E x \in Own(C, e) : x.kind \in Sending
  BY <1>2, <1>3 DEF Agree
<1>7. \A x, y \in Own(C, "config") : x = y /\ C[x] = 1
  BY <1>1, <1>3, <1>4, <1>5 DEF Agree, Editing
<1>8. "config" \in DOMAIN F /\ Own(C, "config") # {} => F["config"].waiting
  BY <1>2, <1>3 DEF Agree, Editing
<1> QED BY <1>6, <1>7, <1>8 DEF Agree, C, F

\* A request is answered: its editor is closed, released or opened anew, unless the request
\* is no editor's, or is not one for which an editor waits.
LEMMA AgreeAnswered ==
  ASSUME NEW B, IsBag(B), NEW E, Agree(B, E), DOMAIN E \subseteq Editing,
         NEW r \in DOMAIN B, NEW F, DOMAIN F \subseteq Editing,
         NEW e, Else(F, E, e),
         e \in DOMAIN F => ~ F[e].waiting,
         r.tracked /\ R!EditorOf(r) \in Editing => e = R!EditorOf(r) \/ r.kind \notin Sending,
         e = "config" => r.tracked /\ R!EditorOf(r) = "config"
  PROVE  Agree(R!(-)(B, R!SetToBag({r})), F)
<1> DEFINE C == R!(-)(B, R!SetToBag({r}))
<1>1. /\ IsBag(C) /\ DOMAIN C \subseteq DOMAIN B /\ DOMAIN B \ {r} \subseteq DOMAIN C
      /\ \A x \in DOMAIN C \ {r} : C[x] = B[x]
      /\ B[r] = 1 => r \notin DOMAIN C
  <2> HIDE DEF C
  <2> QED BY RoomBagRemove DEF Removed, C
<1> HIDE DEF C
<1>2. \A id \in Editing : Own(C, id) \subseteq Own(B, id) /\ Own(B, id) \ {r} \subseteq Own(C, id)
  BY <1>1 DEF Own
<1>3. r \in Own(B, "config") => Own(C, "config") = {}
  <2>1. r \in Own(B, "config") => Own(B, "config") = {r} /\ B[r] = 1
    BY DEF Agree
  <2> QED BY <1>1, <1>2, <2>1 DEF Own
<1>4. \A x, y \in Own(C, "config") : x = y /\ C[x] = 1
  <2>1. CASE r \in Own(B, "config")
    BY <1>3, <2>1
  <2>2. CASE r \notin Own(B, "config")
    <3>1. Own(C, "config") \subseteq Own(B, "config") /\ r \notin Own(C, "config")
      BY <1>2, <2>2 DEF Editing
    <3>2. \A x \in Own(C, "config") : C[x] = B[x]
      BY <1>1, <3>1 DEF Own
    <3> QED BY <3>1, <3>2 DEF Agree
  <2> QED BY <2>1, <2>2
<1>5. "config" \in DOMAIN F /\ Own(C, "config") # {} => F["config"].waiting
  <2> SUFFICES ASSUME "config" \in DOMAIN F, Own(C, "config") # {}
               PROVE  F["config"].waiting
    OBVIOUS
  <2>1. r \notin Own(B, "config") /\ Own(B, "config") # {}
    BY <1>2, <1>3 DEF Editing
  <2>2. e # "config"
    BY <2>1 DEF Own
  <2> QED BY <2>1, <2>2 DEF Agree, Else
<1>6. \A id \in DOMAIN F : F[id].waiting => \E x \in Own(C, id) : x.kind \in Sending
  <2> SUFFICES ASSUME NEW id \in DOMAIN F, F[id].waiting
               PROVE  \E x \in Own(C, id) : x.kind \in Sending
    OBVIOUS
  <2>1. id # e /\ id \in DOMAIN E /\ E[id].waiting /\ id \in Editing
    BY DEF Else
  <2>2. PICK x \in Own(B, id) : x.kind \in Sending
    BY <2>1 DEF Agree
  <2>3. x # r
    BY <2>1, <2>2 DEF Own, Sending
  <2> QED BY <1>2, <2>1, <2>2, <2>3
<1> QED BY <1>4, <1>5, <1>6 DEF Agree, C

LEMMA AgreeClosed ==
  ASSUME NEW B, NEW E, Agree(B, E), NEW F, \A id \in DOMAIN F : id \in DOMAIN E /\ F[id] = E[id]
  PROVE  Agree(B, F)
BY DEF Agree

\* What the actions of the room rest on.
LEMMA SendFacts ==
  ASSUME RoomInv, NEW r, R!Send(r), "tracked" \in DOMAIN r
  PROVE  /\ IsBag(pending') /\ pending' = R!(+)(pending, R!SetToBag({r}))
         /\ \A x \in DOMAIN pending' : "tracked" \in DOMAIN x
<1>1. Added(pending', pending, r)
  BY RoomBagAdd DEF RoomInv, R!Send
<1> QED BY <1>1 DEF Added, RoomInv, R!Send

LEMMA RequestFacts ==
  ASSUME NEW kind, NEW config, NEW mode
  PROVE  /\ R!Request(kind, config, mode).kind = kind
         /\ R!Request(kind, config, mode).tracked = TRUE
         /\ "tracked" \in DOMAIN R!Request(kind, config, mode)
BY DEF R!Request

\* A request of no editor is sent.
LEMMA OtherSent ==
  ASSUME RoomInv, NEW kind, NEW config, NEW mode, R!Send(R!Request(kind, config, mode)),
         kind \in {"join", "config_set", "config_get", "destroy"}, roomEditors' = roomEditors
  PROVE  RoomInv'
<1> DEFINE r == R!Request(kind, config, mode)
<1>1. r.kind = kind /\ "tracked" \in DOMAIN r
  BY RequestFacts
<1> HIDE DEF r
<1>2. R!EditorOf(r) \notin Editing
  BY <1>1, EditorOfFacts DEF Editing
<1>3. /\ IsBag(pending') /\ pending' = R!(+)(pending, R!SetToBag({r}))
      /\ \A x \in DOMAIN pending' : "tracked" \in DOMAIN x
  BY <1>1, SendFacts DEF r
<1>4. Agree(pending', roomEditors)
  BY <1>2, <1>3, AgreeOther DEF RoomInv
<1> QED BY <1>3, <1>4 DEF RoomInv

LEMMA AskedFacts ==
  ASSUME NEW id, ~ R!Asked(id)
  PROVE  Own(pending, id) = {}
BY DEF R!Asked, R!Pending, R!BagToSet, Own

LEMMA RoomConfigStep ==
  ASSUME RoomInv, R!RoomConfig
  PROVE  RoomInv'
<1> DEFINE r == R!Plain("config_edit_get")
<1>1. r.kind = "config_edit_get" /\ r.tracked /\ "tracked" \in DOMAIN r
  BY DEF R!Plain, R!Request
<1> HIDE DEF r
<1>2. R!EditorOf(r) = "config"
  BY <1>1, EditorOfFacts
<1>3. /\ IsBag(pending') /\ pending' = R!(+)(pending, R!SetToBag({r}))
      /\ \A x \in DOMAIN pending' : "tracked" \in DOMAIN x
  BY <1>1, SendFacts DEF r, R!RoomConfig
<1>4. roomEditors' = R!Close(roomEditors, {"config"}) /\ Own(pending, "config") = {}
  BY AskedFacts DEF R!RoomConfig
<1>5. /\ IsBag(pending) /\ IsRegistry(roomEditors) /\ DOMAIN roomEditors \subseteq Editing
      /\ Agree(pending, roomEditors) /\ "config" \in Editing
  BY DEF RoomInv, Editing
<1>6. Agree(pending', roomEditors')
  BY <1>1, <1>2, <1>3, <1>4, <1>5, AgreeAsked
<1>7. IsRegistry(roomEditors') /\ DOMAIN roomEditors' \subseteq Editing
  BY <1>4, <1>5 DEF R!Close, R!Without, IsRegistry
<1> QED BY <1>3, <1>6, <1>7 DEF RoomInv

LEMMA MucRegisterStep ==
  ASSUME RoomInv, NEW query \in BOOLEAN, R!MucRegister(query)
  PROVE  RoomInv'
<1> DEFINE r == R!Plain(IF query THEN "register_query" ELSE "register_get")
<1>1. r.kind \in {"register_query", "register_get"} /\ r.tracked /\ "tracked" \in DOMAIN r
  BY DEF R!Plain, R!Request
<1>3. /\ IsBag(pending') /\ pending' = R!(+)(pending, R!SetToBag({r}))
      /\ \A x \in DOMAIN pending' : "tracked" \in DOMAIN x
  <2>1. R!Send(r)
    BY DEF R!MucRegister
  <2> HIDE DEF r
  <2> QED BY <1>1, <2>1, SendFacts
<1> HIDE DEF r
<1>2. R!EditorOf(r) = "register"
  BY <1>1, EditorOfFacts
<1>4. /\ roomEditors' = roomEditors \/ roomEditors' = R!Close(roomEditors, {"register"})
      /\ Own(pending, "register") = {}
  BY AskedFacts DEF R!MucRegister
<1>5. /\ IsBag(pending) /\ IsRegistry(roomEditors) /\ DOMAIN roomEditors \subseteq Editing
      /\ Agree(pending, roomEditors) /\ "register" \in Editing
  BY DEF RoomInv, Editing
<1>6. Agree(pending', roomEditors')
  BY <1>1, <1>2, <1>3, <1>4, <1>5, AgreeAsked
<1>7. IsRegistry(roomEditors') /\ DOMAIN roomEditors' \subseteq Editing
  BY <1>4, <1>5 DEF R!Close, R!Without, IsRegistry
<1> QED BY <1>3, <1>6, <1>7 DEF RoomInv

LEMMA SubmitStep ==
  ASSUME RoomInv, NEW id \in Editing, NEW action \in {"submit", "cancel"}, R!Submit(id, action)
  PROVE  RoomInv'
<1>0. PICK kind \in Sending :
        /\ \E config, mode : R!Send(R!Request(kind, config, mode))
        /\ kind \in (IF id = "config" THEN {"config_edit_set", "config_edit_cancel"}
                                      ELSE {"register_set", "register_cancel"})
  <2>1. CASE id = "config" /\ action = "submit"
    <3>1. R!Send(R!Request("config_edit_set", roomEditors[id].form, R!NoMode))
      BY <2>1 DEF R!Submit
    <3> QED BY <2>1, <3>1 DEF Sending
  <2>2. CASE id = "config" /\ action = "cancel"
    <3>1. R!Send(R!Request("config_edit_cancel", R!NoForm, R!NoMode))
      BY <2>2 DEF R!Submit, R!Plain
    <3> QED BY <2>2, <3>1 DEF Sending
  <2>3. CASE id = "register" /\ action = "submit"
    <3>1. R!Send(R!Request("register_set", R!NoForm, R!NoMode))
      BY <2>3 DEF R!Submit, R!Plain
    <3> QED BY <2>3, <3>1 DEF Sending
  <2>4. CASE id = "register" /\ action = "cancel"
    <3>1. R!Send(R!Request("register_cancel", R!NoForm, R!NoMode))
      BY <2>4 DEF R!Submit, R!Plain
    <3> QED BY <2>4, <3>1 DEF Sending
  <2> QED BY <2>1, <2>2, <2>3, <2>4 DEF Editing
<1>1. PICK config, mode : R!Send(R!Request(kind, config, mode))
  BY <1>0
<1> DEFINE r == R!Request(kind, config, mode)
<1>2. r.kind = kind /\ r.tracked /\ "tracked" \in DOMAIN r
  BY RequestFacts
<1> HIDE DEF r
<1>3. R!EditorOf(r) = id
  BY <1>0, <1>2, EditorOfFacts DEF Editing
<1>4. /\ IsBag(pending') /\ pending' = R!(+)(pending, R!SetToBag({r}))
      /\ \A x \in DOMAIN pending' : "tracked" \in DOMAIN x
  BY <1>1, <1>2, SendFacts DEF r
<1>5. /\ roomEditors' = R!Submitted(roomEditors, id)
      /\ id \in DOMAIN roomEditors /\ ~ roomEditors[id].waiting
  BY DEF R!Submit, R!TakesInput, R!IsOpen
<1>6. /\ IsBag(pending) /\ IsRegistry(roomEditors) /\ DOMAIN roomEditors \subseteq Editing
      /\ Agree(pending, roomEditors)
  BY DEF RoomInv
<1>7. Agree(pending', roomEditors')
  BY <1>0, <1>2, <1>3, <1>4, <1>5, <1>6, AgreeSubmitted
<1>8. IsRegistry(roomEditors') /\ DOMAIN roomEditors' = DOMAIN roomEditors
  BY <1>5, <1>6 DEF R!Submitted, IsRegistry
<1> QED BY <1>4, <1>6, <1>7, <1>8 DEF RoomInv

\* A request is answered, and its editor closed, released or opened.
LEMMA AnsweredStep ==
  ASSUME RoomInv, NEW r \in DOMAIN pending, pending' = R!(-)(pending, R!SetToBag({r})),
         IsRegistry(roomEditors'), DOMAIN roomEditors' \subseteq Editing,
         NEW e, Else(roomEditors', roomEditors, e),
         e \in DOMAIN roomEditors' => ~ roomEditors'[e].waiting,
         r.tracked /\ R!EditorOf(r) \in Editing => e = R!EditorOf(r) \/ r.kind \notin Sending,
         e = "config" => r.tracked /\ R!EditorOf(r) = "config"
  PROVE  RoomInv'
<1>1. Removed(pending', pending, r)
  BY RoomBagRemove DEF RoomInv
<1>2. Agree(pending', roomEditors')
  <2>1. /\ IsBag(pending) /\ Agree(pending, roomEditors) /\ DOMAIN roomEditors \subseteq Editing
    BY DEF RoomInv
  <2> QED BY <2>1, AgreeAnswered
<1> QED BY <1>1, <1>2 DEF RoomInv, Removed

LEMMA SwapFacts ==
  ASSUME RoomInv, NEW r \in DOMAIN pending
  PROVE  /\ R!Swap(r, {}) => pending' = R!(-)(pending, R!SetToBag({r}))
         /\ \A s : R!Swap(r, {s}) =>
              pending' = R!(+)(R!(-)(pending, R!SetToBag({r})), R!SetToBag({s}))
<1>1. IsBag(R!(-)(pending, R!SetToBag({r})))
  BY RoomBagRemove DEF RoomInv, Removed
<1>2. \A x : IsBag(x) => R!(+)(x, R!SetToBag({})) = x
  BY RoomBagPlain
<1> QED BY <1>1, <1>2 DEF R!Swap

\* A request that no editor waits for makes another.
LEMMA ReplacedStep ==
  ASSUME RoomInv, NEW r \in DOMAIN pending, NEW s,
         R!Swap(r, {}) \/ R!Swap(r, {s}),
         ~ r.tracked \/ R!EditorOf(r) = "none", R!EditorOf(s) = "none", "tracked" \in DOMAIN s,
         roomEditors' = roomEditors
  PROVE  RoomInv'
<1> DEFINE B == R!(-)(pending, R!SetToBag({r}))
           E == roomEditors
<1>1. /\ pending' = B \/ pending' = R!(+)(B, R!SetToBag({s}))
  BY SwapFacts
<1>2. Removed(B, pending, r)
  BY RoomBagRemove DEF RoomInv
<1>3. /\ IsBag(pending) /\ Agree(pending, E) /\ DOMAIN E \subseteq Editing /\ IsRegistry(E)
      /\ \A x \in DOMAIN pending : "tracked" \in DOMAIN x
  BY DEF RoomInv
<1>4. Agree(B, E)
  <2>1. Else(E, E, "none") /\ "none" \notin Editing /\ "none" # "config"
    BY DEF Else, Editing
  <2> HIDE DEF E
  <2> QED BY <1>3, <2>1, AgreeAnswered
<1> HIDE DEF B
<1>5. IsBag(B) /\ \A x \in DOMAIN B : "tracked" \in DOMAIN x
  BY <1>2, <1>3 DEF Removed
<1>6. CASE pending' = B
  BY <1>3, <1>4, <1>5, <1>6 DEF RoomInv
<1>7. CASE pending' = R!(+)(B, R!SetToBag({s}))
  <2>1. Added(pending', B, s)
    BY <1>5, <1>7, RoomBagAdd
  <2>2. Agree(pending', E)
    <3>1. R!EditorOf(s) \notin Editing
      BY DEF Editing
    <3> HIDE DEF E
    <3> QED BY <1>3, <1>4, <1>5, <1>7, <3>1, AgreeOther
  <2> QED BY <1>3, <1>5, <2>1, <2>2 DEF RoomInv, Added
<1> QED BY <1>1, <1>6, <1>7

\* An answer that no editor waits for.
LEMMA UnheardStep ==
  ASSUME RoomInv, NEW r \in DOMAIN pending, pending' = R!(-)(pending, R!SetToBag({r})),
         roomEditors' = roomEditors,
         r.tracked /\ R!EditorOf(r) \in Editing => r.kind \notin Sending
  PROVE  RoomInv'
<1>1. /\ IsRegistry(roomEditors') /\ DOMAIN roomEditors' \subseteq Editing
      /\ Else(roomEditors', roomEditors, "none") /\ "none" \notin Editing /\ "none" # "config"
  BY DEF RoomInv, Else, Editing
<1>2. "none" \in DOMAIN roomEditors' => ~ roomEditors'["none"].waiting
  BY <1>1
<1> QED BY <1>1, <1>2, AnsweredStep

LEMMA JoinedStep ==
  ASSUME RoomInv, NEW r \in DOMAIN pending, R!Joined(r)
  PROVE  RoomInv'
<1>1. /\ r.kind = "join" /\ roomEditors' = roomEditors
      /\ R!Swap(r, {}) \/ R!Swap(r, {R!Plain("config_get")})
  BY DEF R!Joined
<1>2. R!EditorOf(r) = "none"
  BY <1>1, EditorOfFacts
<1>3. R!Plain("config_get").kind = "config_get" /\ "tracked" \in DOMAIN R!Plain("config_get")
  BY DEF R!Plain, R!Request
<1>4. R!EditorOf(R!Plain("config_get")) = "none"
  BY <1>3, EditorOfFacts
<1> QED BY <1>1, <1>2, <1>3, <1>4, ReplacedStep

LEMMA ConfigFormStep ==
  ASSUME RoomInv, NEW r \in DOMAIN pending, R!ConfigForm(r)
  PROVE  RoomInv'
<1>1. /\ r.kind = "config_get" /\ roomEditors' = roomEditors
      /\ \E form, diff : R!Swap(r, {}) \/ R!Swap(r, {R!Request("config_set", form, diff)})
  BY DEF R!ConfigForm
<1>2. R!EditorOf(r) = "none"
  BY <1>1, EditorOfFacts
<1>3. PICK form, diff : R!Swap(r, {}) \/ R!Swap(r, {R!Request("config_set", form, diff)})
  BY <1>1
<1> DEFINE s == R!Request("config_set", form, diff)
<1>4. s.kind = "config_set" /\ "tracked" \in DOMAIN s
  BY DEF R!Request
<1> HIDE DEF s
<1>5. R!EditorOf(s) = "none"
  BY <1>4, EditorOfFacts
<1>6. R!Swap(r, {}) \/ R!Swap(r, {s})
  BY <1>3 DEF s
<1> QED BY <1>1, <1>2, <1>4, <1>5, <1>6, ReplacedStep

LEMMA FormToEditStep ==
  ASSUME RoomInv, NEW r \in DOMAIN pending, r.tracked, R!FormToEdit(r)
  PROVE  RoomInv'
<1> DEFINE e == R!EditorOf(r)
           F == R!Open(roomEditors, e, room.config)
<1>1. /\ r.kind \in {"config_edit_get", "register_get"} /\ R!Swap(r, {})
      /\ roomEditors' = roomEditors \/ roomEditors' = F
  BY DEF R!FormToEdit
<1>2. e \in Editing /\ r.kind \notin Sending
  BY <1>1, EditorOfFacts DEF Editing, Sending
<1>3. pending' = R!(-)(pending, R!SetToBag({r}))
  BY <1>1, SwapFacts
\* the channel is closed: nothing is opened
<1>4. CASE roomEditors' = roomEditors
  BY <1>2, <1>3, <1>4, UnheardStep
<1>5. CASE roomEditors' = F
  <2>1. IsRegistry(roomEditors) /\ DOMAIN roomEditors \subseteq Editing
    BY DEF RoomInv
  <2>2. /\ IsRegistry(F) /\ DOMAIN F = DOMAIN roomEditors \union {e}
        /\ Else(F, roomEditors, e) /\ ~ F[e].waiting
    <3> HIDE DEF e
    <3> QED BY <2>1, RoomOpen
  <2> HIDE DEF F, e
  <2>4. /\ IsRegistry(roomEditors') /\ DOMAIN roomEditors' \subseteq Editing
        /\ Else(roomEditors', roomEditors, e) /\ ~ roomEditors'[e].waiting
    BY <1>2, <1>5, <2>1, <2>2
  <2> QED BY <1>3, <2>4, AnsweredStep DEF e
<1> QED BY <1>1, <1>4, <1>5

LEMMA AcceptedStep ==
  ASSUME RoomInv, NEW r \in DOMAIN pending, r.tracked, R!Accepted(r)
  PROVE  RoomInv'
<1> DEFINE e == R!EditorOf(r)
           F == R!Close(roomEditors, {e})
<1>1. /\ R!Swap(r, {})
      /\ \/ r.kind = "register_query" /\ roomEditors' = roomEditors
         \/ roomEditors' = F
  BY DEF R!Accepted
<1>2. pending' = R!(-)(pending, R!SetToBag({r}))
  BY <1>1, SwapFacts
<1>3. CASE r.kind = "register_query" /\ roomEditors' = roomEditors
  BY <1>2, <1>3, UnheardStep DEF Sending
<1>4. CASE roomEditors' = F
  <2>1. IsRegistry(roomEditors) /\ DOMAIN roomEditors \subseteq Editing
    BY DEF RoomInv
  <2>2. IsRegistry(F) /\ DOMAIN F = DOMAIN roomEditors \ {e} /\ Else(F, roomEditors, e)
    <3> HIDE DEF e
    <3> QED BY <2>1, RoomClose
  <2> HIDE DEF F, e
  <2>3. /\ IsRegistry(roomEditors') /\ DOMAIN roomEditors' \subseteq Editing
        /\ Else(roomEditors', roomEditors, e) /\ e \notin DOMAIN roomEditors'
    BY <1>4, <2>1, <2>2
  <2> QED BY <1>2, <2>3, AnsweredStep DEF e
<1> QED BY <1>1, <1>3, <1>4

LEMMA RefusedStep ==
  ASSUME RoomInv, NEW r \in DOMAIN pending, r.tracked \/ r.kind = "join", R!Refused(r)
  PROVE  RoomInv'
<1> DEFINE e == R!EditorOf(r)
           F == R!Failed(roomEditors, e)
<1>1. R!Swap(r, {}) /\ roomEditors' = F
  BY DEF R!Refused
<1>2. pending' = R!(-)(pending, R!SetToBag({r}))
  BY <1>1, SwapFacts
<1>3. r.kind = "join" => e = "none"
  BY EditorOfFacts
<1>4. IsRegistry(roomEditors) /\ DOMAIN roomEditors \subseteq Editing
  BY DEF RoomInv
<1>5. /\ IsRegistry(F) /\ DOMAIN F = DOMAIN roomEditors /\ Else(F, roomEditors, e)
      /\ e \in DOMAIN roomEditors => ~ F[e].waiting
  <2> HIDE DEF e
  <2> QED BY <1>4, RoomFailed
<1> HIDE DEF F, e
<1>6. /\ IsRegistry(roomEditors') /\ DOMAIN roomEditors' \subseteq Editing
      /\ Else(roomEditors', roomEditors, e)
      /\ e \in DOMAIN roomEditors' => ~ roomEditors'[e].waiting
  BY <1>1, <1>4, <1>5
<1>7. e = "config" => r.tracked
  BY <1>3
<1> QED BY <1>2, <1>6, <1>7, AnsweredStep DEF e

LEMMA AnswerStep ==
  ASSUME RoomInv, NEW r \in DOMAIN pending, R!Answer(r)
  PROVE  RoomInv'
<1>1. CASE r.tracked \/ r.kind = "join"
  <2>1. R!FormToEdit(r) \/ R!Accepted(r) => r.kind # "join"
    BY DEF R!FormToEdit, R!Accepted
  <2> QED BY <1>1, <2>1, JoinedStep, ConfigFormStep, FormToEditStep, AcceptedStep, RefusedStep
          DEF R!Answer
<1>2. CASE ~ (r.tracked \/ r.kind = "join")
  <2>1. R!Swap(r, {}) /\ roomEditors' = roomEditors
    BY <1>2 DEF R!Answer, R!Untracked
  <2>2. pending' = R!(-)(pending, R!SetToBag({r}))
    BY <2>1, SwapFacts
  <2> QED BY <1>2, <2>1, <2>2, UnheardStep
<1> QED BY <1>1, <1>2

\* Editors are closed or filled in, and nothing is asked.
LEMMA QuietStep ==
  ASSUME RoomInv, pending' = pending,
         IsRegistry(roomEditors'), DOMAIN roomEditors' \subseteq DOMAIN roomEditors,
         \A id \in DOMAIN roomEditors' : roomEditors'[id].waiting = roomEditors[id].waiting
  PROVE  RoomInv'
BY DEF RoomInv, Agree

LEMMA FillStep ==
  ASSUME RoomInv, NEW config, R!Fill(config)
  PROVE  RoomInv'
<1>1. /\ "config" \in DOMAIN roomEditors /\ pending' = pending
      /\ roomEditors' = [roomEditors EXCEPT !["config"].form = config]
  BY DEF R!Fill, R!TakesInput, R!IsOpen, R!Filled
<1>2. IsRegistry(roomEditors)
  BY DEF RoomInv
<1>3. /\ DOMAIN roomEditors' = DOMAIN roomEditors
      /\ \A id \in DOMAIN roomEditors :
           roomEditors'[id] = IF id = "config" THEN [roomEditors[id] EXCEPT !.form = config]
                                               ELSE roomEditors[id]
  BY <1>1
<1>4. \A id \in DOMAIN roomEditors : /\ DOMAIN roomEditors'[id] = DOMAIN roomEditors[id]
                                     /\ roomEditors'[id].waiting = roomEditors[id].waiting
  BY <1>2, <1>3 DEF IsRegistry
<1>5. IsRegistry(roomEditors')
  BY <1>2, <1>3, <1>4 DEF IsRegistry
<1> QED BY <1>1, <1>3, <1>4, <1>5, QuietStep

LEMMA CloseEditorStep ==
  ASSUME RoomInv, NEW id, R!CloseEditor(id)
  PROVE  RoomInv'
<1>1. pending' = pending /\ roomEditors' = R!Close(roomEditors, {id})
  BY DEF R!CloseEditor
<1>2. IsRegistry(roomEditors)
  BY DEF RoomInv
<1>3. /\ IsRegistry(roomEditors') /\ DOMAIN roomEditors' = DOMAIN roomEditors \ {id}
      /\ \A x \in DOMAIN roomEditors' : roomEditors'[x] = roomEditors[x]
  BY <1>1, <1>2 DEF R!Close, R!Without, IsRegistry
<1> QED BY <1>1, <1>3, QuietStep

LEMMA SetModesStep ==
  ASSUME RoomInv, NEW mode, R!SetModes(mode)
  PROVE  RoomInv'
<1>1. \E kind \in {"config_set", "config_get"} : \E config, diff :
        R!Send(R!Request(kind, config, diff))
  BY DEF R!SetModes, R!Plain
<1>2. roomEditors' = roomEditors
  BY DEF R!SetModes
<1> QED BY <1>1, <1>2, OtherSent

LEMMA LoseStep ==
  ASSUME RoomInv, NEW again \in BOOLEAN, R!Lose(again)
  PROVE  RoomInv'
<1>1. DOMAIN roomEditors' = {}
  BY DEF R!Lose, R!NoEditors
<1>2. /\ IsBag(pending') /\ \A r \in DOMAIN pending' : "tracked" \in DOMAIN r /\ ~ r.tracked
  <2>1. CASE again
    <3> DEFINE T == {[r EXCEPT !.tracked = FALSE] : r \in DOMAIN pending}
    <3>1. pending' = R!SetToBag(T)
      BY <2>1 DEF R!Lose, R!Pending, R!BagToSet
    <3>2. \A x \in T : "tracked" \in DOMAIN x /\ x.tracked = FALSE
      BY DEF RoomInv
    <3> HIDE DEF T
    <3> QED BY <3>1, <3>2 DEF R!SetToBag, IsBag
  <2>2. CASE ~again
    BY <2>2 DEF R!Lose, R!EmptyBag, R!SetToBag, IsBag
  <2> QED BY <2>1, <2>2
<1>3. \A id : Own(pending', id) = {}
  BY <1>2 DEF Own
<1> QED BY <1>1, <1>2, <1>3 DEF RoomInv, IsRegistry, Agree

LEMMA RoomStep ==
  ASSUME RoomInv, R!Next
  PROVE  RoomInv'
<1>1. ASSUME R!User PROVE RoomInv'
  <2>1. ASSUME NEW b \in BOOLEAN, R!Create(b) PROVE RoomInv'
    BY <2>1, OtherSent DEF R!Create
  <2>2. ASSUME R!CloseBuffer PROVE RoomInv'
    BY <2>2 DEF R!CloseBuffer, RoomInv
  <2>3. ASSUME R!Destroy PROVE RoomInv'
    BY <2>3, OtherSent DEF R!Destroy, R!Plain
  <2>4. ASSUME NEW config, R!OtherConfigures(config) PROVE RoomInv'
    BY <2>4 DEF R!OtherConfigures, RoomInv
  <2> QED BY <1>1, <2>1, <2>2, <2>3, <2>4, RoomConfigStep, MucRegisterStep, SetModesStep,
             FillStep, CloseEditorStep, SubmitStep DEF R!User, Editing
<1>2. ASSUME R!Answered PROVE RoomInv'
  BY <1>2, AnswerStep DEF R!Answered, R!Pending, R!BagToSet
<1>3. ASSUME R!Reconnect PROVE RoomInv'
  BY <1>3 DEF R!Reconnect, RoomInv
<1> QED BY <1>1, <1>2, <1>3, LoseStep DEF R!Next, R!Network

LEMMA RoomInit ==
  ASSUME R!Init
  PROVE  RoomInv
BY DEF R!Init, R!NoEditors, R!EmptyBag, R!SetToBag, RoomInv, IsBag, IsRegistry, Agree, Own

LEMMA CardinalityIsOne == R!Cardinality({}) = 0 /\ \A x : R!Cardinality({x}) = 1
<1>1. \A T : R!Cardinality(T) = Cardinality(T)
  BY DEF R!Cardinality, Cardinality
<1> QED BY <1>1, FS_EmptySet, FS_Singleton

LEMMA RoomHolds ==
  ASSUME RoomInv
  PROVE  R!OneConfigForm /\ R!EditorsAreAnswered
<1>1. R!OneConfigForm
  <2> SUFFICES ASSUME "config" \in DOMAIN roomEditors
               PROVE  LET T == Own(pending, "config")
                      IN  /\ roomEditors["config"].waiting = (T # {})
                          /\ \A r \in T : pending[r] = 1
                                          /\ r.kind \in {"config_edit_set", "config_edit_cancel"}
                          /\ R!Cardinality(T) <= 1
    BY DEF R!OneConfigForm, R!IsOpen, R!Pending, R!BagToSet, Own
  <2> DEFINE T == Own(pending, "config")
  <2>1. /\ roomEditors["config"].waiting = (T # {})
        /\ \A r, s \in T : r = s /\ pending[r] = 1
        /\ T # {} => \E r \in T : r.kind \in Sending
    BY DEF RoomInv, IsRegistry, Agree
  <2>2. \A r \in T : r.kind \in {"config_edit_get", "config_edit_set", "config_edit_cancel"}
    BY EditorOfFacts DEF Own
  <2>3. \A r \in T : r.kind \in {"config_edit_set", "config_edit_cancel"}
    BY <2>1, <2>2 DEF Sending
  <2> HIDE DEF T
  <2>4. T = {} \/ \E x : T = {x}
    <3>1. ASSUME NEW x \in T PROVE T = {x}
      BY <2>1, <3>1
    <3> QED BY <3>1
  <2>5. R!Cardinality(T) <= 1
    BY <2>4, CardinalityIsOne
  <2> QED BY <2>1, <2>3, <2>5 DEF T
<1>2. R!EditorsAreAnswered
  BY DEF R!EditorsAreAnswered, R!IsWaiting, R!IsOpen, R!Pending, R!BagToSet,
         RoomInv, Agree, Own, Sending
<1> QED BY <1>1, <1>2

-----------------------------------------------------------------------------
(* Ad-hoc commands: the stage of each form, and the request each waits for. *)

\* the bag of requests; nothing waits for a list, and how often one is asked for is not told
IsAsked(B) ==
  \A r \in DOMAIN B : IF r.kind = "list" THEN r.session = "none" ELSE B[r] \in Nat \ {0}

\* C has all that an editor may wait for in B, but for T
Keeps(C, B, T) == \A x \in DOMAIN B \ T : x.kind # "list" => x \in DOMAIN C

CommandInv ==
  /\ IsAsked(asked) /\ IsRegistry(commandEditors)
  /\ DOMAIN commandEditors \subseteq DOMAIN sessions
  /\ DOMAIN sessions \subseteq DOMAIN responder /\ DOMAIN responder \subseteq Sessions
  /\ \A s \in DOMAIN commandEditors : commandEditors[s].form = sessions[s]
  /\ \A s \in DOMAIN commandEditors :
       commandEditors[s].waiting => \E r \in DOMAIN asked : r.session = s

LEMMA CommandClose ==
  ASSUME NEW E, IsRegistry(E), NEW id
  PROVE  /\ IsRegistry(A!Close(E, {id})) /\ DOMAIN A!Close(E, {id}) = DOMAIN E \ {id}
         /\ Else(A!Close(E, {id}), E, id)
BY DEF A!Close, A!Without, IsRegistry, Else

LEMMA CommandFailed ==
  ASSUME NEW E, IsRegistry(E), NEW id
  PROVE  /\ IsRegistry(A!Failed(E, id)) /\ DOMAIN A!Failed(E, id) = DOMAIN E
         /\ Else(A!Failed(E, id), E, id)
         /\ id \in DOMAIN E => /\ ~ A!Failed(E, id)[id].waiting
                               /\ A!Failed(E, id)[id].form = E[id].form
<1>1. CASE id \in DOMAIN E
  <2>1. \A x \in DOMAIN E : A!Failed(E, id)[x] =
          IF x = id THEN [E[x] EXCEPT !.waiting = FALSE] ELSE E[x]
    BY <1>1 DEF A!Failed, A!IsOpen
  <2>2. DOMAIN A!Failed(E, id) = DOMAIN E
    BY <1>1 DEF A!Failed, A!IsOpen
  <2> QED BY <1>1, <2>1, <2>2 DEF IsRegistry, Else
<1>2. CASE id \notin DOMAIN E
  BY <1>2 DEF A!Failed, A!IsOpen, Else
<1> QED BY <1>1, <1>2

LEMMA AskedAdd ==
  ASSUME NEW B, IsAsked(B), NEW s, s.kind = "list" => s.session = "none"
  PROVE  /\ IsAsked(A!(+)(B, A!SetToBag({s})))
         /\ DOMAIN A!(+)(B, A!SetToBag({s})) = DOMAIN B \union {s}
BY DEF IsAsked, A!(+), A!SetToBag

\* The request that is sent.
LEMMA CommandSent ==
  ASSUME CommandInv, NEW s, s.kind = "list" => s.session = "none", A!Send(s)
  PROVE  IsAsked(asked') /\ Keeps(asked', asked, {}) /\ DOMAIN asked' = DOMAIN asked \union {s}
<1> DEFINE C == A!(+)(asked, A!SetToBag({s}))
<1>1. IsAsked(asked) /\ asked' = C
  BY DEF CommandInv, A!Send
<1>2. IsAsked(C) /\ DOMAIN C = DOMAIN asked \union {s}
  BY <1>1, AskedAdd
<1> HIDE DEF C
<1> QED BY <1>1, <1>2 DEF Keeps

LEMMA AskedForget ==
  ASSUME NEW B, IsAsked(B), NEW r
  PROVE  IsAsked(A!(-)(B, A!SetToBag({r}))) /\ Keeps(A!(-)(B, A!SetToBag({r})), B, {r})
<1> DEFINE C == A!(-)(B, A!SetToBag({r}))
           D == [e \in DOMAIN B |-> IF e = r THEN B[e] - 1 ELSE B[e]]
<1>1. C = [e \in {d \in DOMAIN D : D[d] > 0} |-> D[e]]
  BY DEF A!(-), A!SetToBag
<1>2. \A e \in DOMAIN B : e.kind # "list" =>
        /\ D[e] \in Int /\ (D[e] > 0 => D[e] \in Nat \ {0}) /\ (e # r => D[e] > 0)
  BY DEF IsAsked
<1>3. DOMAIN D = DOMAIN B
  OBVIOUS
<1> HIDE DEF C, D
<1>4. /\ DOMAIN C = {d \in DOMAIN B : D[d] > 0} /\ \A e \in DOMAIN C : C[e] = D[e]
  BY <1>1, <1>3
<1> QED BY <1>2, <1>4 DEF IsAsked, Keeps, C

LEMMA AskedUnpicked ==
  ASSUME NEW B, IsAsked(B)
  PROVE  IsAsked(A!Unpicked(B)) /\ Keeps(A!Unpicked(B), B, {})
<1> DEFINE C == A!Unpicked(B)
           T == {IF x.kind = "list" THEN A!List(FALSE) ELSE x : x \in DOMAIN B}
<1>1. /\ DOMAIN C = T /\ \A x \in T : x.kind # "list" => C[x] = B[x]
  BY DEF A!Unpicked, A!BagToSet
<1>2. A!List(FALSE).kind = "list" /\ A!List(FALSE).session = "none"
  BY DEF A!List, A!NoSession
<1>3. /\ \A x \in T : (x \in DOMAIN B /\ x.kind # "list") \/ x = A!List(FALSE)
      /\ \A x \in DOMAIN B : x.kind # "list" => x \in T
  OBVIOUS
<1> HIDE DEF C, T
<1> QED BY <1>1, <1>2, <1>3 DEF IsAsked, Keeps, C

\* The bag and the editors of a step that leaves sessions alone, and releases no request
\* that an editor waits for.
LEMMA CommandKept ==
  ASSUME CommandInv, IsAsked(asked'), NEW r, Keeps(asked', asked, {r}), IsRegistry(commandEditors'),
         UNCHANGED <<sessions, responder>>, DOMAIN commandEditors' \subseteq DOMAIN commandEditors,
         \A s \in DOMAIN commandEditors' :
           /\ commandEditors'[s].form = commandEditors[s].form
           /\ commandEditors'[s].waiting =>
                \/ commandEditors[s].waiting /\ (r \in DOMAIN asked => r.session # s)
                \/ \E x \in DOMAIN asked' : x.session = s
  PROVE  CommandInv'
<1>1. ASSUME NEW s \in DOMAIN commandEditors', commandEditors'[s].waiting
      PROVE  \E x \in DOMAIN asked' : x.session = s
  <2>1. CASE commandEditors[s].waiting /\ (r \in DOMAIN asked => r.session # s)
    <3>1. PICK x \in DOMAIN asked : x.session = s
      BY <2>1 DEF CommandInv
    <3>2. s # "none"
      BY FormConstants DEF CommandInv
    <3>3. x.kind # "list" /\ x # r
      BY <2>1, <3>1, <3>2 DEF CommandInv, IsAsked
    <3> QED BY <3>1, <3>3 DEF Keeps
  <2> QED BY <1>1, <2>1
<1>2. \A s \in DOMAIN commandEditors' : commandEditors'[s].form = sessions'[s]
  BY DEF CommandInv
<1> QED BY <1>1, <1>2 DEF CommandInv

\* Only the bag changes, and no request that an editor may wait for is released.
LEMMA SameEditors ==
  ASSUME CommandInv, IsAsked(asked'), Keeps(asked', asked, {}),
         UNCHANGED <<sessions, responder, commandEditors>>
  PROVE  CommandInv'
<1>1. ASSUME NEW s \in DOMAIN commandEditors, commandEditors[s].waiting
      PROVE  \E x \in DOMAIN asked' : x.session = s
  <2>1. PICK x \in DOMAIN asked : x.session = s
    BY <1>1 DEF CommandInv
  <2>2. s # "none"
    BY FormConstants DEF CommandInv
  <2>3. x.kind # "list"
    BY <2>1, <2>2 DEF CommandInv, IsAsked
  <2> QED BY <2>1, <2>3 DEF Keeps
<1> QED BY <1>1 DEF CommandInv

\* An answer moves the session e, or ends it; its request is r.
LEMMA CommandMoved ==
  ASSUME CommandInv, NEW r \in DOMAIN asked, IsAsked(asked'), Keeps(asked', asked, {r}),
         IsRegistry(commandEditors'), NEW e,
         \A s \in DOMAIN commandEditors' \ {e} :
           s \in DOMAIN commandEditors /\ commandEditors'[s] = commandEditors[s],
         \A s \in DOMAIN sessions \ {e} : s \in DOMAIN sessions' /\ sessions'[s] = sessions[s],
         e \in DOMAIN commandEditors' => /\ e \in DOMAIN sessions'
                                         /\ commandEditors'[e].form = sessions'[e]
                                         /\ ~ commandEditors'[e].waiting,
         r.session \in {"none", e},
         DOMAIN sessions' \subseteq DOMAIN responder' /\ DOMAIN responder' \subseteq Sessions
  PROVE  CommandInv'
<1>1. ASSUME NEW s \in DOMAIN commandEditors', commandEditors'[s].waiting
      PROVE  \E x \in DOMAIN asked' : x.session = s
  <2>1. s # e /\ s \in DOMAIN commandEditors /\ commandEditors[s].waiting
    BY <1>1
  <2>2. PICK x \in DOMAIN asked : x.session = s
    BY <2>1 DEF CommandInv
  <2>3. s # "none"
    BY <2>1, FormConstants DEF CommandInv
  <2>4. x.kind # "list" /\ x # r
    BY <2>1, <2>2, <2>3 DEF CommandInv, IsAsked
  <2> QED BY <2>2, <2>4 DEF Keeps
<1>2. \A s \in DOMAIN commandEditors' : s \in DOMAIN sessions' /\ commandEditors'[s].form = sessions'[s]
  BY DEF CommandInv
<1> QED BY <1>1, <1>2 DEF CommandInv

\* The editor of a session is closed, or opened for its next stage.
LEMMA CommandClosed ==
  ASSUME CommandInv, NEW id, commandEditors' = A!Close(commandEditors, {id})
  PROVE  /\ IsRegistry(commandEditors') /\ DOMAIN commandEditors' = DOMAIN commandEditors \ {id}
         /\ Else(commandEditors', commandEditors, id)
<1> DEFINE F == A!Close(commandEditors, {id})
<1>1. /\ IsRegistry(F) /\ DOMAIN F = DOMAIN commandEditors \ {id}
      /\ Else(F, commandEditors, id)
  BY CommandClose DEF CommandInv
<1> HIDE DEF F
<1>2. commandEditors' = F
  BY DEF F
<1> QED BY <1>1, <1>2

LEMMA CommandOpened ==
  ASSUME CommandInv, NEW id, NEW form, commandEditors' = A!Open(commandEditors, id, form)
  PROVE  /\ IsRegistry(commandEditors') /\ Else(commandEditors', commandEditors, id)
         /\ ~ commandEditors'[id].waiting /\ commandEditors'[id].form = form
<1> DEFINE e == [form |-> form, waiting |-> FALSE]
<1>1. /\ DOMAIN commandEditors' = DOMAIN commandEditors \union {id} /\ commandEditors'[id] = e
      /\ \A x \in DOMAIN commandEditors \ {id} : commandEditors'[x] = commandEditors[x]
  BY DEF A!Open, A!Close, A!Without, A!With
<1>2. /\ {"form", "waiting"} \subseteq DOMAIN e /\ e.waiting \in BOOLEAN
      /\ ~ e.waiting /\ e.form = form
  OBVIOUS
<1> HIDE DEF e
<1>3. IsRegistry(commandEditors')
  BY <1>1, <1>2 DEF CommandInv, IsRegistry
<1> QED BY <1>1, <1>2, <1>3 DEF Else

LEMMA ListStep ==
  ASSUME CommandInv, A!ListCommands
  PROVE  CommandInv'
<1>1. A!List(TRUE).session = "none"
  BY DEF A!List, A!NoSession
<1>2. IsAsked(asked') /\ Keeps(asked', asked, {})
  BY <1>1, CommandSent DEF A!ListCommands
<1>3. UNCHANGED <<sessions, responder, commandEditors>>
  BY DEF A!ListCommands
<1> QED BY <1>2, <1>3, SameEditors

LEMMA UnpickStep ==
  ASSUME CommandInv, A!Pick \/ A!Unpick
  PROVE  CommandInv'
<1> DEFINE B == A!Unpicked(asked)
           c == A!Command(A!NoSession, "execute")
<1>1. IsAsked(B) /\ Keeps(B, asked, {})
  BY AskedUnpicked DEF CommandInv
<1>2. UNCHANGED <<sessions, responder, commandEditors>>
  BY DEF A!Pick, A!Unpick
<1>3. \/ asked' = B \/ asked' = A!(+)(B, A!SetToBag({c})) \/ asked' = A!(+)(B, A!EmptyBag)
  BY DEF A!Pick, A!Unpick
<1>4. c.kind # "list"
  BY DEF A!Command
<1> HIDE DEF B, c
<1>5. /\ IsAsked(A!(+)(B, A!SetToBag({c})))
      /\ Keeps(A!(+)(B, A!SetToBag({c})), asked, {})
  BY <1>1, <1>4, AskedAdd DEF Keeps
<1>6. IsAsked(A!(+)(B, A!EmptyBag)) /\ Keeps(A!(+)(B, A!EmptyBag), asked, {})
  <2>1. /\ DOMAIN A!(+)(B, A!EmptyBag) = DOMAIN B
        /\ \A x \in DOMAIN B : A!(+)(B, A!EmptyBag)[x] = B[x] + 0 \/ A!(+)(B, A!EmptyBag)[x] = B[x]
    BY DEF A!(+), A!EmptyBag, A!SetToBag
  <2> QED BY <1>1, <2>1 DEF IsAsked, Keeps
<1> QED BY <1>1, <1>2, <1>3, <1>5, <1>6, SameEditors

LEMMA CommandFacts ==
  ASSUME NEW s, NEW act
  PROVE  A!Command(s, act).kind = "command" /\ A!Command(s, act).session = s
BY DEF A!Command

LEMMA ExecuteStep ==
  ASSUME CommandInv, NEW s, NEW act, A!Execute(s, act)
  PROVE  CommandInv'
<1> DEFINE c == A!Command(s, act)
<1>1. c.kind # "list"
  BY CommandFacts
<1>2. /\ A!Send(c) /\ UNCHANGED responder
      /\ commandEditors' = A!Close(commandEditors, {s})
      /\ sessions' = sessions \/ sessions' = A!Without(sessions, {s})
  BY DEF A!Execute
<1> HIDE DEF c
<1>3. IsAsked(asked') /\ Keeps(asked', asked, {})
  BY <1>1, <1>2, CommandSent
<1>4. /\ IsRegistry(commandEditors') /\ DOMAIN commandEditors' = DOMAIN commandEditors \ {s}
      /\ Else(commandEditors', commandEditors, s)
  BY <1>2, CommandClosed
<1>5. /\ DOMAIN sessions \ {s} \subseteq DOMAIN sessions' /\ DOMAIN sessions' \subseteq DOMAIN sessions
      /\ \A x \in DOMAIN sessions' : sessions'[x] = sessions[x]
  BY <1>2 DEF A!Without
<1>6. ASSUME NEW x \in DOMAIN commandEditors', commandEditors'[x].waiting
      PROVE  \E r \in DOMAIN asked' : r.session = x
  <2>1. x \in DOMAIN commandEditors /\ commandEditors[x].waiting
    BY <1>4, <1>6 DEF Else
  <2>2. PICK r \in DOMAIN asked : r.session = x
    BY <2>1 DEF CommandInv
  <2>3. x # "none"
    BY <2>1, FormConstants DEF CommandInv
  <2>4. r.kind # "list"
    BY <2>2, <2>3 DEF CommandInv, IsAsked
  <2> QED BY <1>3, <2>2, <2>4 DEF Keeps
<1>7. \A x \in DOMAIN commandEditors' : x \in DOMAIN sessions'
                                        /\ commandEditors'[x].form = sessions'[x]
  BY <1>4, <1>5 DEF CommandInv, Else
<1> QED BY <1>2, <1>3, <1>4, <1>5, <1>6, <1>7 DEF CommandInv

LEMMA CommandSubmitStep ==
  ASSUME CommandInv, NEW s, NEW act, A!Submit(s, act)
  PROVE  CommandInv'
<1> DEFINE c == A!Command(s, act)
<1>1. c.kind # "list" /\ c.session = s
  BY CommandFacts
<1>2. /\ A!Send(c) /\ UNCHANGED <<sessions, responder>>
      /\ s \in DOMAIN commandEditors /\ ~ commandEditors[s].waiting
      /\ commandEditors' = [commandEditors EXCEPT ![s].waiting = TRUE]
  BY DEF A!Submit, A!TakesInput, A!IsOpen, A!Submitted
<1> HIDE DEF c
<1>3. IsAsked(asked') /\ DOMAIN asked' = DOMAIN asked \union {c}
  BY <1>1, <1>2, CommandSent
<1>4. /\ IsRegistry(commandEditors') /\ DOMAIN commandEditors' = DOMAIN commandEditors
      /\ Else(commandEditors', commandEditors, s)
      /\ commandEditors'[s].form = commandEditors[s].form
  BY <1>2 DEF CommandInv, IsRegistry, Else
<1>5. ASSUME NEW x \in DOMAIN commandEditors', commandEditors'[x].waiting
      PROVE  \E r \in DOMAIN asked' : r.session = x
  BY <1>1, <1>3, <1>4, <1>5 DEF CommandInv, Else
<1>6. \A x \in DOMAIN commandEditors' : commandEditors'[x].form = sessions'[x]
  BY <1>2, <1>4 DEF CommandInv, Else
<1> QED BY <1>2, <1>3, <1>4, <1>5, <1>6 DEF CommandInv

LEMMA CommandCloseStep ==
  ASSUME CommandInv, NEW s, A!CloseEditor(s)
  PROVE  CommandInv'
<1>1. /\ commandEditors' = A!Close(commandEditors, {s})
      /\ UNCHANGED <<sessions, responder, asked>>
  BY DEF A!CloseEditor
<1>2. /\ IsRegistry(commandEditors') /\ DOMAIN commandEditors' = DOMAIN commandEditors \ {s}
      /\ Else(commandEditors', commandEditors, s)
  BY <1>1, CommandClosed
<1> QED BY <1>1, <1>2 DEF CommandInv, Else

LEMMA ForgetFacts ==
  ASSUME CommandInv, NEW r, A!Forget(r)
  PROVE  IsAsked(asked') /\ Keeps(asked', asked, {r})
BY AskedForget DEF CommandInv, A!Forget

LEMMA ListedStep ==
  ASSUME CommandInv, NEW r \in DOMAIN asked, A!Listed(r)
  PROVE  CommandInv'
<1>1. IsAsked(asked') /\ Keeps(asked', asked, {r})
  BY ForgetFacts DEF A!Listed
<1>2. r.session = "none" /\ UNCHANGED <<sessions, responder, commandEditors>>
  BY DEF A!Listed, CommandInv, IsAsked
<1>3. \A s \in DOMAIN commandEditors : r.session # s
  BY <1>2, FormConstants DEF CommandInv
<1>4. IsRegistry(commandEditors')
  BY <1>2 DEF CommandInv
<1> QED BY <1>1, <1>2, <1>3, <1>4, CommandKept

LEMMA CommandRefusedStep ==
  ASSUME CommandInv, NEW r \in DOMAIN asked, A!Refused(r)
  PROVE  CommandInv'
<1>1. IsAsked(asked') /\ Keeps(asked', asked, {r})
  BY ForgetFacts DEF A!Refused
<1>2. /\ commandEditors' = A!Failed(commandEditors, r.session) /\ UNCHANGED <<sessions, responder>>
  BY DEF A!Refused
<1>3. /\ IsRegistry(commandEditors') /\ DOMAIN commandEditors' = DOMAIN commandEditors
      /\ Else(commandEditors', commandEditors, r.session)
      /\ r.session \in DOMAIN commandEditors =>
           /\ ~ commandEditors'[r.session].waiting
           /\ commandEditors'[r.session].form = commandEditors[r.session].form
  BY <1>2, CommandFailed DEF CommandInv
<1> QED BY <1>1, <1>2, <1>3, CommandKept DEF Else

LEMMA EndedStep ==
  ASSUME CommandInv, NEW r \in DOMAIN asked, A!Ended(r),
         r.session \in {"none"} \union DOMAIN responder
  PROVE  CommandInv'
<1> DEFINE e == r.session
<1>1. IsAsked(asked') /\ Keeps(asked', asked, {r})
  BY ForgetFacts DEF A!Ended
<1>2. /\ commandEditors' = A!Close(commandEditors, {e})
      /\ sessions' = A!Without(sessions, {e})
      /\ responder' = IF e = "none" THEN responder ELSE A!With(responder, e, 0)
  BY DEF A!Ended, A!NoSession
<1> HIDE DEF e
<1>3. /\ IsRegistry(commandEditors') /\ DOMAIN commandEditors' = DOMAIN commandEditors \ {e}
      /\ Else(commandEditors', commandEditors, e)
  BY <1>2, CommandClosed
<1>4. /\ DOMAIN sessions' = DOMAIN sessions \ {e}
      /\ \A x \in DOMAIN sessions \ {e} : sessions'[x] = sessions[x]
  BY <1>2 DEF A!Without
<1>5. DOMAIN responder' = DOMAIN responder
  BY <1>2 DEF A!With, e
<1> QED BY <1>1, <1>3, <1>4, <1>5, CommandMoved DEF CommandInv, Else, e

LEMMA ExecutingStep ==
  ASSUME CommandInv, NEW r \in DOMAIN asked, NEW s \in Sessions, NEW stage,
         NEW form \in BOOLEAN, NEW valid \in BOOLEAN, A!Executing(r, s, stage, form, valid),
         r.session = s \/ (r.session = "none" /\ s \notin DOMAIN responder)
  PROVE  CommandInv'
<1>1. IsAsked(asked') /\ Keeps(asked', asked, {r})
  BY ForgetFacts DEF A!Executing
<1>2. DOMAIN responder' = DOMAIN responder \union {s} /\ DOMAIN responder' \subseteq Sessions
  BY DEF A!Executing, A!With, CommandInv
<1>3. /\ DOMAIN sessions \ {s} \subseteq DOMAIN sessions'
      /\ DOMAIN sessions' \subseteq DOMAIN sessions \union {s}
      /\ \A x \in DOMAIN sessions \ {s} : sessions'[x] = sessions[x]
  BY DEF A!Executing, A!With, A!Without
<1>4. IsRegistry(commandEditors) /\ (s \notin DOMAIN responder => s \notin DOMAIN commandEditors)
  BY DEF CommandInv
<1>5. CASE valid /\ form
  <2>1. /\ commandEditors' = A!Open(commandEditors, s, stage)
        /\ sessions' = A!With(sessions, s, stage)
    BY <1>5 DEF A!Executing
  <2>2. /\ IsRegistry(commandEditors') /\ Else(commandEditors', commandEditors, s)
        /\ ~ commandEditors'[s].waiting /\ commandEditors'[s].form = stage
    BY <2>1, CommandOpened
  <2>3. s \in DOMAIN sessions' /\ sessions'[s] = stage
    BY <2>1 DEF A!With
  <2>4. DOMAIN sessions' \subseteq DOMAIN responder'
    BY <1>2, <1>3 DEF CommandInv
  <2> QED BY <1>1, <1>2, <1>3, <2>2, <2>3, <2>4, CommandMoved DEF Else
<1>6. CASE ~ (valid /\ form)
  <2>1. commandEditors' = A!Close(commandEditors, {r.session})
    BY <1>6 DEF A!Executing
  <2>2. /\ IsRegistry(commandEditors')
        /\ DOMAIN commandEditors' = DOMAIN commandEditors \ {r.session}
        /\ Else(commandEditors', commandEditors, r.session)
    BY <2>1, CommandClosed
  <2>3. s \notin DOMAIN commandEditors'
    BY <1>4, <2>2
  <2>4. DOMAIN sessions' \subseteq DOMAIN responder'
    BY <1>2, <1>3 DEF CommandInv
  <2> QED BY <1>1, <1>2, <1>3, <2>2, <2>3, <2>4, CommandMoved DEF Else
<1> QED BY <1>5, <1>6

LEMMA CommandAnswerStep ==
  ASSUME CommandInv, NEW r \in DOMAIN asked, A!Answer(r)
  PROVE  CommandInv'
<1>1. ASSUME r.session = A!NoSession, A!Ended(r) PROVE CommandInv'
  BY <1>1, EndedStep DEF A!NoSession
<1>2. ASSUME r.session = A!NoSession, NEW s \in Sessions \ DOMAIN responder, NEW form \in BOOLEAN,
             NEW valid \in BOOLEAN, A!Executing(r, s, 1, form, valid)
      PROVE  CommandInv'
  BY <1>2, ExecutingStep DEF A!NoSession
<1>3. ASSUME r.session \in DOMAIN responder, A!Ended(r) PROVE CommandInv'
  BY <1>3, EndedStep
<1>4. ASSUME r.session \in DOMAIN responder, NEW stage, NEW form \in BOOLEAN,
             NEW valid \in BOOLEAN, A!Executing(r, r.session, stage, form, valid)
      PROVE  CommandInv'
  <2>1. r.session \in Sessions
    BY <1>4 DEF CommandInv
  <2> QED BY <1>4, <2>1, ExecutingStep
<1> QED BY <1>1, <1>2, <1>3, <1>4, ListedStep, CommandRefusedStep DEF A!Answer

LEMMA CommandLoseStep ==
  ASSUME CommandInv, A!Lose
  PROVE  CommandInv'
<1>1. DOMAIN commandEditors' = {} /\ DOMAIN sessions' = {} /\ DOMAIN asked' = {}
  BY DEF A!Lose, A!NoEditors, A!EmptyBag, A!SetToBag
<1>2. DOMAIN responder' = DOMAIN responder
  BY DEF A!Lose
<1> QED BY <1>1, <1>2 DEF CommandInv, IsAsked, IsRegistry

LEMMA CommandStep ==
  ASSUME CommandInv, A!Next
  PROVE  CommandInv'
<1>1. ASSUME A!User PROVE CommandInv'
  BY <1>1, ListStep, UnpickStep, ExecuteStep, CommandSubmitStep, CommandCloseStep DEF A!User
<1>2. ASSUME A!Answered PROVE CommandInv'
  BY <1>2, CommandAnswerStep DEF A!Answered, A!Pending, A!BagToSet
<1>3. ASSUME A!Reconnect PROVE CommandInv'
  BY <1>3 DEF A!Reconnect, CommandInv
<1> QED BY <1>1, <1>2, <1>3, CommandLoseStep DEF A!Next

LEMMA CommandInit ==
  ASSUME A!Init
  PROVE  CommandInv
<1>1. DOMAIN commandEditors = {} /\ DOMAIN sessions = {} /\ DOMAIN asked = {} /\ DOMAIN responder = {}
  BY DEF A!Init, A!NoEditors, A!EmptyBag, A!SetToBag
<1> QED BY <1>1 DEF CommandInv, IsAsked, IsRegistry

LEMMA CommandHolds ==
  ASSUME CommandInv
  PROVE  A!FormIsOfStage /\ A!EditorsAreAnswered
BY DEF CommandInv, A!FormIsOfStage, A!EditorsAreAnswered, A!IsWaiting, A!IsOpen, A!Pending,
       A!BagToSet

-----------------------------------------------------------------------------
(* Registration: what is on the wire, and what the attempt has kept of it.  *)

FieldsOut == regWire = I!Asked("fields", "none") \/ \E o : regWire = I!Answered("fields", o)
SetOut    == \/ \E p \in Passwords : regWire = I!Asked("set", p)
             \/ \E o \in {"result", "error"} : regWire = I!Answered("set", o)

Edited == I!Id \in DOMAIN attemptEditors

RegistrationInv ==
  /\ IsRegistry(attemptEditors) /\ DOMAIN attemptEditors \subseteq {I!Id}
  /\ I!Attempted => {"password", "done", "editing"} \subseteq DOMAIN attempt
                    /\ attempt.done \in BOOLEAN /\ attempt.password \in Passwords
  /\ \A p : regWire = I!Asked("set", p) => p \in Passwords
  /\ Edited => I!Attempted /\ ~ FieldsOut
  /\ Edited /\ attemptEditors[I!Id].waiting => attempt.done \/ SetOut
  /\ Edited /\ I!Alive /\ SetOut => attemptEditors[I!Id].waiting
  /\ \A p : I!Alive /\ regWire = I!Asked("set", p) => attempt.password = p
  /\ I!Alive /\ regWire = I!Answered("set", "result") => attempt.password = regServer /\ regServer # "none"
  /\ account = I!Nobody \/ {"by", "password"} \subseteq DOMAIN account
  /\ account # I!Nobody /\ account.by = "registration" => account.password = regServer
                                                          /\ regServer # "none"

\* Records are something, and what is on the wire is of one kind.
LEMMA SomethingFacts ==
  ASSUME NEW f, "password" \in DOMAIN f
  PROVE  f # I!Nobody
<1>1. DOMAIN I!Nobody = {}
  BY DEF I!Nobody
<1> QED BY <1>1

LEMMA WireFacts ==
  /\ \A w, x, v, y : I!Asked(w, x) # I!Answered(v, y)
  /\ \A w, x : I!Asked(w, x) # I!Nothing /\ I!Answered(w, x) # I!Nothing
  /\ \A w, x, v, y : I!Asked(w, x) = I!Asked(v, y) => w = v /\ x = y
  /\ \A w, x, v, y : I!Answered(w, x) = I!Answered(v, y) => w = v /\ x = y
<1>1. \A w, x : I!Asked(w, x)[1] = "asked" /\ I!Asked(w, x)[2] = w /\ I!Asked(w, x)[3] = x
  BY DEF I!Asked
<1>2. \A w, x : I!Answered(w, x)[1] = "answered" /\ I!Answered(w, x)[2] = w /\ I!Answered(w, x)[3] = x
  BY DEF I!Answered
<1>3. I!Nothing[1] = "nothing"
  BY DEF I!Nothing
<1>4. "asked" # "answered" /\ "asked" # "nothing" /\ "answered" # "nothing"
  OBVIOUS
<1>5. \A w, x, v, y : I!Asked(w, x) # I!Answered(v, y)
  BY <1>1, <1>2, <1>4
<1>6. \A w, x : I!Asked(w, x) # I!Nothing /\ I!Answered(w, x) # I!Nothing
  BY <1>1, <1>2, <1>3, <1>4
<1>7. \A w, x, v, y : I!Asked(w, x) = I!Asked(v, y) => w = v /\ x = y
  BY <1>1
<1>8. \A w, x, v, y : I!Answered(w, x) = I!Answered(v, y) => w = v /\ x = y
  BY <1>2
<1> QED BY <1>5, <1>6, <1>7, <1>8

LEMMA NothingIsOut ==
  ASSUME regWire' = I!Nothing
  PROVE  /\ ~ FieldsOut' /\ ~ SetOut'
         /\ \A w, x : regWire' # I!Asked(w, x) /\ regWire' # I!Answered(w, x)
BY WireFacts DEF FieldsOut, SetOut

LEMMA DoneFacts ==
  ASSUME RegistrationInv, I!Attempted, attempt' = [attempt EXCEPT !.done = TRUE]
  PROVE  /\ I!Attempted' /\ ~ I!Alive' /\ attempt'.done
         /\ {"password", "done", "editing"} \subseteq DOMAIN attempt' /\ attempt'.done \in BOOLEAN
         /\ attempt'.password \in Passwords
<1>1. {"password", "done", "editing"} \subseteq DOMAIN attempt /\ attempt.password \in Passwords
  BY DEF RegistrationInv
<1>2. /\ attempt'.done = TRUE /\ DOMAIN attempt' = DOMAIN attempt
      /\ attempt'.password = attempt.password
  BY <1>1
<1> QED BY <1>1, <1>2, SomethingFacts DEF I!Attempted, I!Alive

\* The editor of the attempt.
LEMMA AttemptFailed ==
  ASSUME RegistrationInv, attemptEditors' = I!Failed(attemptEditors, I!Id)
  PROVE  /\ IsRegistry(attemptEditors') /\ DOMAIN attemptEditors' = DOMAIN attemptEditors
         /\ Edited => ~ attemptEditors'[I!Id].waiting
<1>1. CASE Edited
  <2>1. attemptEditors' = [attemptEditors EXCEPT ![I!Id].waiting = FALSE]
    BY <1>1 DEF I!Failed, I!IsOpen, Edited
  <2> QED BY <1>1, <2>1 DEF RegistrationInv, IsRegistry, Edited
<1>2. CASE ~ Edited
  BY <1>2 DEF I!Failed, I!IsOpen, Edited, RegistrationInv
<1> QED BY <1>1, <1>2

LEMMA AttemptSubmitted ==
  ASSUME RegistrationInv, Edited, attemptEditors' = I!Submitted(attemptEditors, I!Id)
  PROVE  /\ IsRegistry(attemptEditors') /\ DOMAIN attemptEditors' = DOMAIN attemptEditors
         /\ attemptEditors'[I!Id].waiting
BY DEF I!Submitted, RegistrationInv, IsRegistry, Edited

LEMMA AttemptClosed ==
  ASSUME RegistrationInv,
         attemptEditors' = I!Close(attemptEditors, {I!Id}) \/ attemptEditors' = I!NoEditors
  PROVE  DOMAIN attemptEditors' = {} /\ ~ Edited'
<1>1. CASE attemptEditors' = I!Close(attemptEditors, {I!Id})
  BY <1>1 DEF I!Close, I!Without, RegistrationInv, Edited
<1>2. CASE attemptEditors' = I!NoEditors
  BY <1>2 DEF I!NoEditors, Edited
<1> QED BY <1>1, <1>2

LEMMA RegisterStep ==
  ASSUME RegistrationInv, NEW p \in Passwords, I!Register(p)
  PROVE  RegistrationInv'
<1>1. /\ attempt' = [password |-> p, done |-> FALSE, editing |-> FALSE]
      /\ regWire' = I!Asked("fields", "none") /\ ~ I!Attempted
      /\ UNCHANGED <<attemptEditors, regServer, account>>
  BY DEF I!Register, I!None
<1>2. /\ {"password", "done", "editing"} \subseteq DOMAIN attempt' /\ attempt'.done \in BOOLEAN
      /\ attempt'.password \in Passwords
  BY <1>1
<1>3. ~ Edited
  BY <1>1 DEF RegistrationInv
<1>4. \A x : regWire' # I!Asked("set", x) /\ regWire' # I!Answered("set", x)
  BY <1>1, WireFacts
<1> QED BY <1>1, <1>2, <1>3, <1>4 DEF RegistrationInv, Edited, SetOut

LEMMA AddOtherStep ==
  ASSUME RegistrationInv, I!AddOther
  PROVE  RegistrationInv'
<1>1. account'.by = "user" /\ {"by", "password"} \subseteq DOMAIN account'
  BY DEF I!AddOther
<1>2. UNCHANGED <<attempt, attemptEditors, regWire, regServer>>
  BY DEF I!AddOther
<1> QED BY <1>1, <1>2 DEF RegistrationInv, Edited, FieldsOut, SetOut, I!Attempted, I!Alive

\* The attempt is over; its timer will see it.
LEMMA DoneStep ==
  ASSUME RegistrationInv, I!Attempted, I!Done, UNCHANGED regServer,
         regWire' = regWire \/ regWire' = I!Nothing,
         IsRegistry(attemptEditors') /\ DOMAIN attemptEditors' \subseteq DOMAIN attemptEditors,
         account' = account \/ (/\ account'.by = "registration" /\ {"by", "password"} \subseteq DOMAIN account'
                                /\ account'.password = regServer' /\ regServer' # "none")
  PROVE  RegistrationInv'
<1>1. /\ I!Attempted' /\ ~ I!Alive' /\ attempt'.done
      /\ {"password", "done", "editing"} \subseteq DOMAIN attempt' /\ attempt'.done \in BOOLEAN
      /\ attempt'.password \in Passwords
  BY DoneFacts DEF I!Done
<1>4. \A p : regWire' = I!Asked("set", p) => p \in Passwords
  BY NothingIsOut DEF RegistrationInv
<1>2. Edited' => Edited
  BY DEF Edited
<1>3. FieldsOut' => FieldsOut
  BY NothingIsOut DEF FieldsOut
<1> QED BY <1>1, <1>2, <1>3, <1>4 DEF RegistrationInv

LEMMA ServeStep ==
  ASSUME RegistrationInv, I!Serve
  PROVE  RegistrationInv'
<1>0. UNCHANGED <<attempt, attemptEditors, account>>
  BY DEF I!Serve
<1>1. CASE /\ regWire = I!Asked("fields", "none") /\ \E o : regWire' = I!Answered("fields", o)
           /\ UNCHANGED regServer
  <2>1. FieldsOut /\ ~ SetOut' /\ \A x : regWire' # I!Asked("set", x) /\ regWire' # I!Answered("set", x)
    BY <1>1, WireFacts DEF FieldsOut, SetOut
  <2>2. ~ Edited
    BY <2>1 DEF RegistrationInv
  <2> QED BY <1>0, <1>1, <2>1, <2>2 DEF RegistrationInv, Edited, I!Attempted, I!Alive
<1>2. ASSUME NEW p \in Passwords, regWire = I!Asked("set", p),
             \/ regServer = "none" /\ regServer' = p /\ regWire' = I!Answered("set", "result")
             \/ UNCHANGED regServer /\ regWire' = I!Answered("set", "error")
      PROVE  RegistrationInv'
  <2>1. SetOut /\ SetOut' /\ ~ FieldsOut' /\ \A x : regWire' # I!Asked("set", x)
    BY <1>2, WireFacts DEF FieldsOut, SetOut
  <2>2. p # "none"
    BY FormConstants
  <2>3. regWire' = I!Answered("set", "result") => regServer = "none" /\ regServer' = p
    BY <1>2, WireFacts
  <2>4. I!Alive => attempt.password = p
    BY <1>2 DEF RegistrationInv
  <2>5. account # I!Nobody /\ account.by = "registration" => account.password = regServer'
                                                            /\ regServer' # "none"
    BY <1>2 DEF RegistrationInv
  <2> QED BY <1>0, <2>1, <2>2, <2>3, <2>4, <2>5 DEF RegistrationInv, Edited, I!Attempted, I!Alive
<1> QED BY <1>1, <1>2 DEF I!Serve, I!None

LEMMA FieldsResultStep ==
  ASSUME RegistrationInv, I!FieldsResult
  PROVE  RegistrationInv'
<1>1. PICK o \in {"fields", "form", "error"} : regWire = I!Answered("fields", o)
  BY DEF I!FieldsResult
<1>2. FieldsOut /\ ~ Edited /\ UNCHANGED <<regServer, account>>
  BY <1>1 DEF FieldsOut, RegistrationInv, I!FieldsResult
<1>3. ASSUME attempt' = (IF I!Attempted THEN [attempt EXCEPT !.done = TRUE] ELSE attempt),
             regWire' = I!Nothing, UNCHANGED attemptEditors
      PROVE  RegistrationInv'
  <2>1. CASE I!Attempted
    BY <1>2, <1>3, <2>1, DoneStep DEF I!Done, RegistrationInv
  <2>2. CASE ~ I!Attempted
    BY <1>2, <1>3, <2>2, NothingIsOut DEF RegistrationInv, Edited, I!Attempted, I!Alive
  <2> QED BY <2>1, <2>2
<1>4. ASSUME I!Alive, attempt' = [attempt EXCEPT !.editing = TRUE],
             attemptEditors' = I!Open(attemptEditors, I!Id, "none"), regWire' = I!Nothing
      PROVE  RegistrationInv'
  <2>1. /\ {"password", "done", "editing"} \subseteq DOMAIN attempt /\ attempt.done \in BOOLEAN
        /\ attempt.password \in Passwords
    BY <1>4 DEF RegistrationInv, I!Alive
  <2>2. /\ DOMAIN attempt' = DOMAIN attempt /\ attempt'.done = attempt.done
        /\ attempt'.password = attempt.password
    BY <1>4, <2>1
  <2>3. I!Attempted'
    BY <2>1, <2>2, SomethingFacts DEF I!Attempted
  <2>4. /\ IsRegistry(attemptEditors') /\ DOMAIN attemptEditors' \subseteq {I!Id}
        /\ ~ attemptEditors'[I!Id].waiting
    <3> DEFINE e == [form |-> "none", waiting |-> FALSE]
    <3>1. attemptEditors' = [x \in {I!Id} |-> e]
      BY <1>2, <1>4 DEF I!Open, I!Close, I!Without, I!With, Edited, RegistrationInv
    <3>2. {"form", "waiting"} \subseteq DOMAIN e /\ e.waiting \in BOOLEAN /\ ~ e.waiting
      OBVIOUS
    <3> HIDE DEF e
    <3> QED BY <3>1, <3>2 DEF IsRegistry
  <2>5. ~ FieldsOut' /\ ~ SetOut' /\ \A w, x : regWire' # I!Asked(w, x) /\ regWire' # I!Answered(w, x)
    BY <1>4, NothingIsOut
  <2> QED BY <1>2, <2>1, <2>2, <2>3, <2>4, <2>5 DEF RegistrationInv
<1>5. ASSUME I!Alive, regWire' = I!Asked("set", attempt.password), UNCHANGED <<attempt, attemptEditors>>
      PROVE  RegistrationInv'
  <2>1. /\ ~ FieldsOut' /\ \A x : regWire' # I!Answered("set", x)
        /\ \A p : regWire' = I!Asked("set", p) => p = attempt.password
    BY <1>5, WireFacts DEF FieldsOut
  <2> QED BY <1>2, <1>5, <2>1 DEF RegistrationInv, Edited, I!Attempted, I!Alive
<1> QED BY <1>1, <1>3, <1>4, <1>5, WireFacts DEF I!FieldsResult, I!None

LEMMA SetResultStep ==
  ASSUME RegistrationInv, I!SetResult
  PROVE  RegistrationInv'
<1>1. regWire' = I!Nothing /\ UNCHANGED regServer
  BY DEF I!SetResult
<1>2. PICK o \in {"result", "error"} :
        /\ regWire = I!Answered("set", o)
        /\ IF ~ I!Alive
             THEN UNCHANGED <<attempt, attemptEditors, account>>
             ELSE IF o = "result"
               THEN /\ account' = IF account = I!Nobody
                                    THEN [by |-> "registration", password |-> attempt.password]
                                    ELSE account
                    /\ I!Done /\ UNCHANGED attemptEditors
               ELSE /\ UNCHANGED account
                    /\ IF attempt.editing
                         THEN attemptEditors' = I!Failed(attemptEditors, I!Id) /\ UNCHANGED attempt
                         ELSE I!Done /\ UNCHANGED attemptEditors
  BY DEF I!SetResult
<1>3. ~ FieldsOut' /\ ~ SetOut' /\ \A w, x : regWire' # I!Asked(w, x) /\ regWire' # I!Answered(w, x)
  BY <1>1, NothingIsOut
<1>4. CASE ~ I!Alive
  <2>1. I!Attempted => attempt.done
    BY <1>4 DEF I!Alive
  <2> QED BY <1>1, <1>2, <1>3, <1>4, <2>1 DEF RegistrationInv, Edited, I!Attempted, I!Alive
<1>5. CASE I!Alive /\ o = "result"
  <2>1. attempt.password = regServer /\ regServer # "none"
    BY <1>2, <1>5 DEF RegistrationInv
  <2>2. \/ account' = account
        \/ /\ account'.by = "registration" /\ {"by", "password"} \subseteq DOMAIN account'
           /\ account'.password = regServer' /\ regServer' # "none"
    BY <1>1, <1>2, <1>5, <2>1
  <2>3. I!Done /\ UNCHANGED attemptEditors /\ I!Attempted
    BY <1>2, <1>5 DEF I!Alive
  <2> QED BY <1>1, <2>2, <2>3, DoneStep DEF RegistrationInv
<1>6. CASE I!Alive /\ o # "result" /\ attempt.editing
  <2>1. attemptEditors' = I!Failed(attemptEditors, I!Id) /\ UNCHANGED <<attempt, account>>
    BY <1>2, <1>6
  <2>2. /\ IsRegistry(attemptEditors') /\ DOMAIN attemptEditors' = DOMAIN attemptEditors
        /\ Edited => ~ attemptEditors'[I!Id].waiting
    BY <2>1, AttemptFailed
  <2> QED BY <1>1, <1>3, <2>1, <2>2 DEF RegistrationInv, Edited, I!Attempted, I!Alive
<1>7. CASE I!Alive /\ o # "result" /\ ~ attempt.editing
  <2>1. I!Done /\ UNCHANGED <<attemptEditors, account>> /\ I!Attempted
    BY <1>2, <1>7 DEF I!Alive
  <2> QED BY <1>1, <2>1, DoneStep DEF RegistrationInv
<1> QED BY <1>4, <1>5, <1>6, <1>7

LEMMA RegistrationSubmitStep ==
  ASSUME RegistrationInv, NEW p \in Passwords, NEW goes \in BOOLEAN, I!Submit(p, goes)
  PROVE  RegistrationInv'
<1>1. /\ Edited /\ ~ attemptEditors[I!Id].waiting /\ I!Alive /\ I!Attempted
      /\ attempt' = [attempt EXCEPT !.password = p] /\ UNCHANGED <<regServer, account>>
  BY DEF I!Submit, I!TakesInput, I!IsOpen, I!Alive, Edited
<1>2. ~ SetOut /\ ~ FieldsOut
  BY <1>1 DEF RegistrationInv
<1>3. {"password", "done", "editing"} \subseteq DOMAIN attempt /\ attempt.done \in BOOLEAN
  BY <1>1 DEF RegistrationInv
<1>4. /\ DOMAIN attempt' = DOMAIN attempt /\ attempt'.done = attempt.done
      /\ attempt'.password = p
  BY <1>1, <1>3
<1>5. I!Attempted'
  BY <1>3, <1>4, SomethingFacts DEF I!Attempted
<1>6. CASE goes
  <2>1. attemptEditors' = I!Submitted(attemptEditors, I!Id) /\ regWire' = I!Asked("set", p)
    BY <1>6 DEF I!Submit
  <2>2. /\ SetOut' /\ ~ FieldsOut' /\ \A x : regWire' # I!Answered("set", x)
        /\ \A x : regWire' = I!Asked("set", x) => x = p
    BY <2>1, WireFacts DEF SetOut, FieldsOut
  <2>3. /\ IsRegistry(attemptEditors') /\ DOMAIN attemptEditors' = DOMAIN attemptEditors
        /\ attemptEditors'[I!Id].waiting
    BY <1>1, <2>1, AttemptSubmitted
  <2> QED BY <1>1, <1>3, <1>4, <1>5, <2>2, <2>3 DEF RegistrationInv
<1>7. CASE ~ goes
  <2>1. UNCHANGED <<attemptEditors, regWire>>
    BY <1>7 DEF I!Submit
  <2>2. \A x : regWire # I!Asked("set", x)
    BY <1>2 DEF SetOut, RegistrationInv
  <2> QED BY <1>1, <1>2, <1>3, <1>4, <1>5, <2>1, <2>2
          DEF RegistrationInv, Edited, FieldsOut, SetOut
<1> QED BY <1>6, <1>7

LEMMA RegistrationCancelStep ==
  ASSUME RegistrationInv, I!Cancel
  PROVE  RegistrationInv'
<1>1. /\ Edited /\ attemptEditors' = I!Submitted(attemptEditors, I!Id) /\ I!Attempted /\ I!Done
      /\ UNCHANGED <<regWire, regServer, account>>
  BY DEF I!Cancel, I!TakesInput, I!IsOpen, I!Alive, Edited
<1>2. IsRegistry(attemptEditors') /\ DOMAIN attemptEditors' = DOMAIN attemptEditors
  BY <1>1, AttemptSubmitted
<1> QED BY <1>1, <1>2, DoneStep

LEMMA RegistrationCloseStep ==
  ASSUME RegistrationInv, I!CloseEditor
  PROVE  RegistrationInv'
<1>1. /\ Edited /\ attemptEditors' = I!Close(attemptEditors, {I!Id})
      /\ attempt' = (IF I!Attempted THEN [attempt EXCEPT !.done = TRUE] ELSE attempt)
      /\ UNCHANGED <<regWire, regServer, account>>
  BY DEF I!CloseEditor, I!IsOpen, Edited
<1>2. DOMAIN attemptEditors' = {}
  BY <1>1, AttemptClosed
<1>3. I!Attempted
  BY <1>1 DEF RegistrationInv
<1> QED BY <1>1, <1>2, <1>3, DoneStep DEF I!Done, IsRegistry

\* The attempt is forgotten, with its connection.
LEMMA RegistrationEndStep ==
  ASSUME RegistrationInv, I!End \/ I!Shutdown
  PROVE  RegistrationInv'
<1>1. /\ attempt' = I!Nobody /\ regWire' = I!Nothing /\ UNCHANGED <<regServer, account>>
      /\ attemptEditors' = I!Close(attemptEditors, {I!Id}) \/ attemptEditors' = I!NoEditors
  BY DEF I!End, I!Shutdown
<1>2. DOMAIN attemptEditors' = {} /\ ~ Edited'
  BY <1>1, AttemptClosed
<1>3. ~ I!Attempted' /\ ~ I!Alive'
  BY <1>1 DEF I!Attempted, I!Alive
<1> QED BY <1>1, <1>2, <1>3, NothingIsOut DEF RegistrationInv, IsRegistry

LEMMA RegistrationStep ==
  ASSUME RegistrationInv, I!Next
  PROVE  RegistrationInv'
<1>1. ASSUME I!ConnectionFails PROVE RegistrationInv'
  BY <1>1, DoneStep DEF I!ConnectionFails, I!Alive, RegistrationInv
<1>2. ASSUME I!Deadline PROVE RegistrationInv'
  BY <1>2, DoneStep DEF I!Deadline, I!Alive, RegistrationInv
<1> QED BY <1>1, <1>2, RegisterStep, RegistrationSubmitStep, AddOtherStep, ServeStep,
           FieldsResultStep, SetResultStep, RegistrationCancelStep, RegistrationCloseStep,
           RegistrationEndStep DEF I!Next

LEMMA RegistrationInit ==
  ASSUME I!Init
  PROVE  RegistrationInv
<1>1. /\ attempt = I!Nobody /\ account = I!Nobody /\ regWire = I!Nothing
      /\ DOMAIN attemptEditors = {}
  BY DEF I!Init, I!NoEditors
<1>2. \A w, x : regWire # I!Asked(w, x) /\ regWire # I!Answered(w, x)
  BY <1>1, WireFacts
<1> QED BY <1>1, <1>2 DEF RegistrationInv, I!Attempted, I!Alive, IsRegistry, Edited

LEMMA RegistrationHolds ==
  ASSUME RegistrationInv
  PROVE  I!AccountIsRegistered /\ I!EditorsAreAnswered
BY DEF RegistrationInv, I!AccountIsRegistered, I!EditorsAreAnswered, I!IsWaiting, I!IsOpen,
       SetOut, Edited

-----------------------------------------------------------------------------
(* The three of them.                                                       *)

FormsInv == RoomInv /\ CommandInv /\ RegistrationInv

LEMMA FormsStep == FormsInv /\ [FormsNext]_formVars => FormsInv'
<1> SUFFICES ASSUME FormsInv, [FormsNext]_formVars PROVE FormsInv'
  OBVIOUS
<1>1. UNCHANGED roomVars => RoomInv'
  BY DEF FormsInv, roomVars, RoomInv
<1>2. UNCHANGED commandVars => CommandInv'
  BY DEF FormsInv, commandVars, CommandInv
<1>3. UNCHANGED attemptVars => RegistrationInv'
  BY DEF FormsInv, attemptVars, RegistrationInv, Edited, FieldsOut, SetOut, I!Attempted, I!Alive
<1>4. CASE FormsNext
  BY <1>1, <1>2, <1>3, <1>4, RoomStep, CommandStep, RegistrationStep DEF FormsInv, FormsNext
<1>5. CASE UNCHANGED formVars
  BY <1>1, <1>2, <1>3, <1>5 DEF FormsInv, formVars, roomVars, commandVars, attemptVars
<1> QED BY <1>4, <1>5

LEMMA FormsInvariant == FormsSpec => []FormsInv
<1>1. FormsInit => FormsInv
  BY RoomInit, CommandInit, RegistrationInit DEF FormsInit, FormsInv
<1> QED BY <1>1, FormsStep, PTL DEF FormsSpec

\* Of handle_room_config_editor, account::edit_adhoc_form and handle_muc_registration: a form
\* that is shown is not replaced while it is filled in, nor sent twice, and is that of the
\* stage its command is in, however answers and the user's own requests interleave.
THEOREM FormIsCurrentTheorem == FormsSpec => []FormIsCurrent
<1>1. FormsInv => FormIsCurrent
  BY RoomHolds, CommandHolds DEF FormsInv, FormIsCurrent
<1> QED BY <1>1, FormsInvariant, PTL

\* Of form_editor::input and failed, and of those who answer an editor: one that waits has a
\* request on its way which will release it, or an attempt that is ending.
THEOREM EditorsAreAnsweredTheorem == FormsSpec => []EditorsAreAnswered
<1>1. FormsInv => EditorsAreAnswered
  BY RoomHolds, CommandHolds, RegistrationHolds DEF FormsInv, EditorsAreAnswered
<1> QED BY <1>1, FormsInvariant, PTL

\* Of ibr_set_result_handler: the account that is added has the password the server was told,
\* and a form of a registration has its attempt.
THEOREM AccountIsRegisteredTheorem == FormsSpec => []AccountIsRegistered
<1>1. FormsInv => AccountIsRegistered
  BY RegistrationHolds DEF FormsInv, AccountIsRegistered
<1> QED BY <1>1, FormsInvariant, PTL

=============================================================================
