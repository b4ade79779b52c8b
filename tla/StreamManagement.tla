-------------------------- MODULE StreamManagement --------------------------
(***************************************************************************)
(* XEP-0198 stream management of one account: the client side is           *)
(* connection::send, connection::sm_handler, the connection events that    *)
(* touch the session (conn_handler, account::disconnect_impl) and the      *)
(* acknowledgement timer.  The server and the TCP stream are external.     *)
(*                                                                         *)
(* Application stanzas (message, presence, iq) are numbered in the order   *)
(* connection::send is called with them; inbound stanzas in the order the  *)
(* server emits them.  The 32-bit counters are natural numbers here: their *)
(* wrap-around is the subject of module HandledCount.  Stream errors other *)
(* than <conflict/> are the subject of module StreamExtensions.             *)
(***************************************************************************)
EXTENDS Naturals, Sequences

CONSTANTS
  MaxStanzas,     \* bound: the user sends nothing past this stanza number
  MaxInbound,     \* bound: stanzas the server emits
  MaxConnects,    \* bound: connection attempts
  MaxWire,        \* bound: the server volunteers no <r/> or <a/> when so many elements are in flight
  MaxEnds,        \* bound: sessions ended by the user or by a <conflict/>
  Advertises,     \* what <stream:features> may say of SM: a set of BOOLEANs
  Replies,        \* how the server may answer <enable/>
  ServerFaults    \* "expire": it may drop a detached session, "forget": with its count;
                  \* "overack": it may acknowledge more than it was sent

ASSUME SMConstants ==
  /\ MaxStanzas \in Nat /\ MaxInbound \in Nat /\ MaxConnects \in Nat
  /\ MaxWire \in Nat /\ MaxEnds \in Nat
  /\ Advertises \subseteq BOOLEAN
  /\ Replies \subseteq {"resumable", "plain", "failed"}
  /\ ServerFaults \subseteq {"expire", "forget", "overack"}

VARIABLES
  link,               \* "off" | "connecting" | "up" (authenticated) | "closing" (xmpp_disconnect called)
  sm_enabled,
  sm_awaiting,        \* sm_awaiting_negotiation
  sm_resume_attempted,
  sm_post_connect_done,
  sm_id,              \* session id, 0 when empty
  sm_h_inbound,
  sm_h_outbound,
  sm_last_ack,
  sm_outqueue,        \* <<[seq, stanza], ...>>
  sm_pending_replay,  \* <<[seq, stanza], ...>>
  c2s, s2c,           \* the two directions of the stream
  srv_on,             \* the server counts stanzas of the current stream
  srv_id,             \* session the server would resume, 0 when none
  handled,            \* stanzas the server handled in its latest session, in order
  srv_log,            \* stanzas the server emitted in its latest session, in order
  srv_acked,          \* how many of srv_log the client acknowledged
  submitted,          \* history: number of stanzas handed to connection::send
  log,                \* history: stanzas counted in the client's session, in order
  received,           \* history: inbound stanzas processed by the client, in order
  delivered,          \* history: stanzas the server ever handled, in order
  emitted,            \* history: number of inbound stanzas
  connects, ends     \* bounded counters

queues   == <<sm_outqueue, sm_pending_replay>>
counters == <<sm_h_inbound, sm_h_outbound, sm_last_ack>>
flags    == <<sm_enabled, sm_awaiting, sm_resume_attempted, sm_post_connect_done, sm_id>>
client   == <<flags, counters, queues, log>>
server   == <<srv_on, srv_id, handled, srv_log, srv_acked, emitted, delivered>>
bounds   == <<connects, ends>>
vars     == <<link, client, c2s, s2c, server, submitted, received, bounds>>

-----------------------------------------------------------------------------
(* Elements on the wire.  The h of an application stanza is its number in  *)
(* the session, as its sender counts (0: not counted); it is not           *)
(* transmitted and no action reads it.                                     *)

Element(type, h, id, stanza) == [type |-> type, h |-> h, id |-> id, stanza |-> stanza]

Enable       == Element("enable", 0, 0, 0)
Resume(h, i) == Element("resume", h, i, 0)
Ack(h)       == Element("a", h, 0, 0)
Req          == Element("r", 0, 0, 0)
App(h, x)    == Element("app", h, 0, x)
Enabled(i)   == Element("enabled", 0, i, 0)
Resumed(h)   == Element("resumed", h, 0, 0)
Failed(h)    == Element("failed", h, 0, 0)     \* without h: as h = 0

Entry(seq, x)       == [seq |-> seq, stanza |-> x]
Stanzas(q)          == [i \in 1..Len(q) |-> q[i].stanza]
\* xs counted one after the other from a counter that stands at h
Counted(h, xs)      == [i \in 1..Len(xs) |-> Entry(h + i, xs[i])]
AppElements(q)      == [i \in 1..Len(q) |-> App(q[i].seq, q[i].stanza)]
\* Operators named ...Mutant are slips the properties must notice; no action uses
\* them.  Here: an entry whose number equals the acknowledged count is kept.
TrimThroughMutant(q, h) == SelectSeq(q, LAMBDA e : e.seq >= h)
\* sm_trim_outqueue_through
TrimThrough(q, h) ==
  LET n == CHOOSE n \in 0..Len(q) : /\ \A j \in 1..n : q[j].seq <= h
                                    /\ n < Len(q) => q[n + 1].seq > h
  IN  SubSeq(q, n + 1, Len(q))

\* xmpp_send drops what is not sent over an authenticated stream
Transmit(es) == c2s' = IF link' = "up" THEN c2s \o es ELSE c2s

\* run_post_connect_setup: its burst of presence and IQ stanzas stands as one stanza
Setup == IF sm_post_connect_done THEN <<>> ELSE <<submitted + 1>>
RunSetup == /\ sm_post_connect_done' = TRUE
            /\ submitted' = submitted + Len(Setup)

-----------------------------------------------------------------------------
(* connection::send of an application stanza by the user or a handler.     *)

\* sm_awaiting_negotiation: kept for later, not sent
Defer(x) ==
  /\ sm_awaiting
  /\ sm_pending_replay' = Append(sm_pending_replay, Entry(0, x))
  /\ UNCHANGED <<sm_outqueue, counters, log, c2s>>

SendCounted(x) ==
  /\ ~sm_awaiting /\ sm_enabled
  /\ sm_h_outbound' = sm_h_outbound + 1
  /\ sm_outqueue' = Append(sm_outqueue, Entry(sm_h_outbound + 1, x))
  /\ log' = Append(log, x)
  /\ Transmit(<<App(sm_h_outbound + 1, x)>>)
  /\ UNCHANGED <<sm_h_inbound, sm_last_ack, sm_pending_replay>>

SendUncounted(x) ==
  /\ ~sm_awaiting /\ ~sm_enabled
  /\ Transmit(<<App(0, x)>>)
  /\ UNCHANGED <<queues, counters, log>>

\* commands and handlers send while account.connected(), which is TRUE from connect() on
Send ==
  /\ link # "off" /\ submitted < MaxStanzas
  /\ submitted' = submitted + 1
  /\ link' = link
  /\ Defer(submitted + 1) \/ SendCounted(submitted + 1) \/ SendUncounted(submitted + 1)
  /\ UNCHANGED <<flags, s2c, server, received, bounds>>

\* sm_ack_timer_cb, every 30 seconds: the previous request has been answered by then
AckTimer ==
  /\ link = "up" /\ sm_enabled
  /\ \A i \in 1..Len(c2s) : c2s[i].type # "r"
  /\ \A i \in 1..Len(s2c) : s2c[i].type # "a"
  /\ c2s' = Append(c2s, Req)
  /\ UNCHANGED <<link, client, s2c, server, submitted, received, bounds>>

-----------------------------------------------------------------------------
(* connection::sm_handler and the counting handlers of inbound stanzas.    *)

\* libstrophe still hands over elements while the stream is closing
Receive(type) ==
  /\ link \in {"up", "closing"}
  /\ s2c # <<>> /\ Head(s2c).type = type
  /\ s2c' = Tail(s2c)
  /\ UNCHANGED <<server, bounds>>

\* what follows a successful negotiation: sm_replay_pending_stanzas, then the setup
Replay == Stanzas(sm_pending_replay) \o Setup

Negotiated ==
  /\ link' = link
  /\ sm_enabled' = TRUE
  /\ sm_awaiting' = FALSE
  /\ sm_pending_replay' = <<>>
  /\ RunSetup
  /\ UNCHANGED <<sm_resume_attempted, received>>

NewSession ==
  /\ Receive("enabled")
  /\ Negotiated
  /\ sm_id' = Head(s2c).id
  /\ sm_h_outbound' = Len(Replay)
  /\ sm_outqueue' = Counted(0, Replay)
  /\ log' = Replay
  /\ Transmit(AppElements(sm_outqueue'))

\* forgets that the acknowledgements start again
RecvEnabled == NewSession /\ sm_h_inbound' = 0 /\ sm_last_ack' = 0

Resumption(unacked, resent) ==
  /\ Receive("resumed")
  /\ Negotiated
  /\ sm_last_ack' = Head(s2c).h
  /\ sm_h_outbound' = sm_h_outbound + Len(Replay)
  /\ sm_outqueue' = unacked \o Counted(sm_h_outbound, Replay)
  /\ log' = log \o Replay
  /\ Transmit(AppElements(resent))
  /\ sm_id' = sm_id

\* sends what was deferred before what was not acknowledged
RecvResumedMutant3 ==
  LET unacked == TrimThrough(sm_outqueue, Head(s2c).h)
  IN  /\ Resumption(unacked, Counted(sm_h_outbound, Replay) \o unacked)
      /\ sm_h_inbound' = sm_h_inbound

\* the element's h is not compared with sm_h_outbound
RecvResumed ==
  /\ Resumption(TrimThrough(sm_outqueue, Head(s2c).h), sm_outqueue')
  /\ sm_h_inbound' = sm_h_inbound

ResumeRefused(unacked) ==
  /\ Receive("failed") /\ sm_resume_attempted
  /\ link' = link
  /\ sm_resume_attempted' = FALSE
  /\ sm_enabled' = FALSE
  /\ sm_id' = 0
  /\ sm_h_inbound' = 0 /\ sm_last_ack' = 0 /\ sm_h_outbound' = 0
  /\ sm_pending_replay' = sm_pending_replay \o unacked
  /\ sm_outqueue' = <<>>
  /\ log' = <<>>
  /\ sm_awaiting' = TRUE
  /\ Transmit(<<Enable>>)
  /\ UNCHANGED <<sm_post_connect_done, submitted, received>>

\* keeps what the server says it has handled
RecvResumeFailedMutant == ResumeRefused(sm_outqueue)

\* <failed/> after <resume/>: fall back to a fresh <enable/>
RecvResumeFailed ==
  ResumeRefused(IF Head(s2c).h <= sm_h_outbound THEN TrimThrough(sm_outqueue, Head(s2c).h)
                                                ELSE sm_outqueue)

WithoutSM ==
  /\ Receive("failed") /\ ~sm_resume_attempted
  /\ link' = link
  /\ sm_enabled' = FALSE /\ sm_awaiting' = FALSE
  /\ sm_id' = 0
  /\ sm_h_inbound' = 0 /\ sm_last_ack' = 0 /\ sm_h_outbound' = 0
  /\ sm_outqueue' = <<>> /\ sm_pending_replay' = <<>>
  /\ log' = <<>>
  /\ UNCHANGED <<sm_resume_attempted, received>>

\* leaves the stream without its setup
RecvEnableFailedMutant == WithoutSM /\ UNCHANGED <<sm_post_connect_done, submitted, c2s>>

\* <failed/> after <enable/>: go on without stream management
RecvEnableFailed ==
  /\ WithoutSM
  /\ RunSetup
  /\ Transmit([i \in 1..Len(Setup) |-> App(0, Setup[i])])

AckThrough(h) ==
  /\ Receive("a")
  /\ sm_last_ack' = h
  /\ UNCHANGED <<link, flags, sm_h_inbound, sm_h_outbound, sm_pending_replay,
                 log, c2s, submitted, received>>

\* does not trim the queue
RecvAckMutant ==
  LET h == Head(s2c).h
  IN  AckThrough(h) /\ h <= sm_h_outbound /\ sm_outqueue' = sm_outqueue

RecvAck ==
  LET h == Head(s2c).h
  IN  AckThrough(h) /\ h <= sm_h_outbound /\ sm_outqueue' = TrimThrough(sm_outqueue, h)

\* sm_close_stream_handled_count_too_high
RecvAckTooHigh ==
  /\ Receive("a") /\ Head(s2c).h > sm_h_outbound
  /\ sm_enabled' = FALSE
  /\ link' = "closing"
  /\ UNCHANGED <<sm_awaiting, sm_resume_attempted, sm_post_connect_done, sm_id,
                 counters, queues, log, c2s, submitted, received>>

RecvReq ==
  /\ Receive("r")
  /\ link' = link
  /\ Transmit(<<Ack(sm_h_inbound)>>)
  /\ UNCHANGED <<client, submitted, received>>

\* a presence, message or iq: counted before it is processed
RecvStanza ==
  /\ Receive("app")
  /\ sm_h_inbound' = IF sm_enabled THEN sm_h_inbound + 1 ELSE sm_h_inbound
  /\ received' = Append(received, Head(s2c).stanza)
  /\ UNCHANGED <<link, flags, sm_h_outbound, sm_last_ack, queues, log, c2s, submitted>>

ClientReceive == \/ RecvEnabled \/ RecvResumed \/ RecvResumeFailed \/ RecvEnableFailed
                 \/ RecvAck \/ RecvAckTooHigh \/ RecvReq \/ RecvStanza

-----------------------------------------------------------------------------
(* Connection events.                                                      *)

\* the stream is gone, with whatever was in flight on it
Cut ==
  /\ link' = "off"
  /\ c2s' = <<>> /\ s2c' = <<>>
  /\ srv_on' = FALSE
  /\ UNCHANGED <<srv_id, handled, srv_log, srv_acked, emitted, delivered>>

\* clear_sm_session_state
ClearSession ==
  /\ sm_enabled' = FALSE
  /\ sm_id' = 0
  /\ sm_h_inbound' = 0 /\ sm_h_outbound' = 0 /\ sm_last_ack' = 0
  /\ sm_outqueue' = <<>> /\ sm_pending_replay' = <<>>
  /\ log' = <<>>

\* account::connect, by the user or timer_cb, up to the call of connection::connect
Connect ==
  /\ link = "off" /\ connects < MaxConnects
  /\ link' = "connecting"
  /\ connects' = connects + 1
  /\ UNCHANGED <<client, c2s, s2c, server, submitted, received, ends>>

\* conn_handler(connect): the stream is authenticated
ConnectEvent(advertised) ==
  /\ link = "connecting"
  /\ link' = "up"
  /\ IF advertised
     THEN /\ sm_awaiting' = TRUE
          /\ sm_resume_attempted' = (sm_id # 0)
          /\ sm_enabled' = FALSE
          /\ sm_post_connect_done' = FALSE
          /\ c2s' = <<IF sm_id # 0 THEN Resume(sm_h_inbound, sm_id) ELSE Enable>>
          /\ UNCHANGED <<sm_id, counters, queues, log, submitted>>
     ELSE /\ ClearSession
          /\ sm_awaiting' = FALSE /\ sm_resume_attempted' = FALSE
          /\ sm_post_connect_done' = TRUE
          /\ c2s' = <<App(0, submitted + 1)>>
          /\ submitted' = submitted + 1
  /\ UNCHANGED <<s2c, server, received, bounds>>

\* conn_handler(disconnect or fail), then account::disconnect(1)
LinkLost ==
  /\ link # "off" /\ connects < MaxConnects
  /\ Cut
  /\ sm_awaiting' = FALSE /\ sm_resume_attempted' = FALSE
  /\ sm_pending_replay' = <<>>
  /\ UNCHANGED <<sm_enabled, sm_post_connect_done, sm_id, counters, sm_outqueue, log,
                 submitted, received, bounds>>

\* conn_handler(disconnect) with <conflict/>
Conflict ==
  /\ link = "up" /\ connects < MaxConnects /\ ends < MaxEnds
  /\ ends' = ends + 1
  /\ Cut
  /\ ClearSession
  /\ sm_awaiting' = FALSE /\ sm_resume_attempted' = FALSE
  /\ UNCHANGED <<sm_post_connect_done, submitted, received, connects>>

\* account::disconnect(0)
Quit ==
  /\ link # "off" /\ connects < MaxConnects /\ ends < MaxEnds
  /\ ends' = ends + 1
  /\ Cut
  /\ ClearSession
  /\ sm_awaiting' = FALSE /\ sm_resume_attempted' = FALSE
  /\ UNCHANGED <<sm_post_connect_done, submitted, received, connects>>

-----------------------------------------------------------------------------
(* The server (external): it handles the stream's elements in order.       *)

Serve(type) ==
  /\ link \in {"up", "closing"}
  /\ c2s # <<>> /\ Head(c2s).type = type
  /\ c2s' = Tail(c2s)
  /\ UNCHANGED <<link, client, submitted, received, bounds>>

\* what the server emitted in the session past number n
InboundApps(n) == AppElements(Counted(n, SubSeq(srv_log, n + 1, Len(srv_log))))

\* a fresh session replaces the one it may still hold; one per connection, so
\* the number of the connection identifies it
ServeEnable(reply) ==
  /\ Serve("enable")
  /\ srv_on' = (reply # "failed")
  /\ srv_id' = IF reply = "resumable" THEN connects ELSE 0
  /\ s2c' = Append(s2c, IF reply = "failed" THEN Failed(0) ELSE Enabled(srv_id'))
  /\ handled' = <<>> /\ srv_log' = <<>> /\ srv_acked' = 0
  /\ UNCHANGED <<emitted, delivered>>

ServeResume ==
  /\ Serve("resume") /\ Head(c2s).id = srv_id
  /\ srv_on' = TRUE
  /\ srv_acked' = Head(c2s).h
  /\ s2c' = s2c \o <<Resumed(Len(handled))>> \o InboundApps(Head(c2s).h)
  /\ UNCHANGED <<srv_id, handled, srv_log, emitted, delivered>>

\* a server that has dropped the session may still report how far it came (h), or not (0)
RefuseResume(h) ==
  /\ Serve("resume") /\ Head(c2s).id # srv_id
  /\ s2c' = Append(s2c, Failed(h))
  /\ UNCHANGED server

ServeApp ==
  /\ Serve("app")
  /\ handled' = IF srv_on THEN Append(handled, Head(c2s).stanza) ELSE handled
  /\ delivered' = Append(delivered, Head(c2s).stanza)
  /\ UNCHANGED <<s2c, srv_on, srv_id, srv_log, srv_acked, emitted>>

ServeAck ==
  /\ Serve("a")
  /\ srv_acked' = IF srv_on THEN Head(c2s).h ELSE srv_acked
  /\ UNCHANGED <<s2c, srv_on, srv_id, handled, srv_log, emitted, delivered>>

ServeReq ==
  /\ Serve("r")
  /\ s2c' = IF srv_on THEN Append(s2c, Ack(Len(handled))) ELSE s2c
  /\ UNCHANGED server

\* unprompted <a/> and <r/>
Volunteer(e) ==
  /\ link = "up" /\ srv_on /\ Len(c2s) + Len(s2c) < MaxWire
  /\ s2c' = Append(s2c, e)
  /\ UNCHANGED <<link, client, c2s, server, submitted, received, bounds>>

\* an inbound stanza; without a stream it waits in the session to be resumed
Emit ==
  /\ emitted < MaxInbound
  /\ srv_on \/ srv_id # 0
  /\ emitted' = emitted + 1
  /\ srv_log' = Append(srv_log, emitted + 1)
  /\ s2c' = IF srv_on THEN Append(s2c, App(Len(srv_log'), emitted + 1)) ELSE s2c
  /\ UNCHANGED <<link, client, c2s, srv_on, srv_id, handled, srv_acked, delivered,
                 submitted, received, bounds>>

\* the resumption timeout: only a session without a stream expires
Expire ==
  /\ "expire" \in ServerFaults
  /\ ~srv_on /\ srv_id # 0
  /\ srv_id' = 0
  /\ UNCHANGED <<link, client, c2s, s2c, srv_on, handled, srv_log, srv_acked, emitted,
                 delivered, submitted, received, bounds>>

ServeStream ==
  \/ \E reply \in Replies : ServeEnable(reply)
  \/ ServeResume \/ RefuseResume(Len(handled))
  \/ "forget" \in ServerFaults /\ RefuseResume(0)
  \/ ServeApp \/ ServeAck \/ ServeReq

-----------------------------------------------------------------------------
Init ==
  /\ link = "off"
  /\ sm_enabled = FALSE /\ sm_awaiting = FALSE /\ sm_resume_attempted = FALSE
  /\ sm_post_connect_done = FALSE
  /\ sm_id = 0
  /\ sm_h_inbound = 0 /\ sm_h_outbound = 0 /\ sm_last_ack = 0
  /\ sm_outqueue = <<>> /\ sm_pending_replay = <<>>
  /\ c2s = <<>> /\ s2c = <<>>
  /\ srv_on = FALSE /\ srv_id = 0
  /\ handled = <<>> /\ srv_log = <<>> /\ srv_acked = 0
  /\ submitted = 0 /\ log = <<>> /\ received = <<>> /\ emitted = 0 /\ delivered = <<>>
  /\ connects = 0 /\ ends = 0

ConnectionEvent ==
  \/ Connect
  \/ \E advertised \in Advertises : ConnectEvent(advertised)
  \/ LinkLost \/ Conflict \/ Quit

ServerStep ==
  \/ ServeStream
  \/ Volunteer(Ack(Len(handled))) \/ Volunteer(Req)
  \/ "overack" \in ServerFaults /\ connects < MaxConnects
       /\ Volunteer(Ack(MaxStanzas + MaxConnects + 1))
  \/ Emit \/ Expire

Next == Send \/ AckTimer \/ ClientReceive \/ ConnectionEvent \/ ServerStep

Spec == Init /\ [][Next]_vars

-----------------------------------------------------------------------------
Message == [type : {"enable", "resume", "a", "r", "app", "enabled", "resumed", "failed"},
            h : Nat, id : Nat, stanza : Nat]
Queue   == Seq([seq : Nat, stanza : Nat])

TypeOK ==
  /\ link \in {"off", "connecting", "up", "closing"}
  /\ sm_enabled \in BOOLEAN /\ sm_awaiting \in BOOLEAN
  /\ sm_resume_attempted \in BOOLEAN /\ sm_post_connect_done \in BOOLEAN
  /\ sm_id \in Nat
  /\ sm_h_inbound \in Nat /\ sm_h_outbound \in Nat /\ sm_last_ack \in Nat
  /\ sm_outqueue \in Queue /\ sm_pending_replay \in Queue
  /\ c2s \in Seq(Message) /\ s2c \in Seq(Message)
  /\ srv_on \in BOOLEAN /\ srv_id \in Nat
  /\ handled \in Seq(Nat) /\ srv_log \in Seq(Nat) /\ srv_acked \in Nat
  /\ submitted \in Nat /\ log \in Seq(Nat)
  /\ received \in Seq(Nat) /\ delivered \in Seq(Nat) /\ emitted \in Nat
  /\ connects \in Nat /\ ends \in Nat

\* Client and server speak of the same session: over the stream that enabled it,
\* or because the client holds the id of the session the server would resume.
SameSession == \/ link = "up" /\ sm_enabled /\ srv_on
               \/ sm_id # 0 /\ sm_id = srv_id

\* The promise of a session, whatever connections carry it.  A session that cannot
\* be resumed is named by its connection.
Session == IF sm_id # 0 /\ sm_id = srv_id THEN sm_id
           ELSE IF SameSession THEN connects ELSE 0
Sent    == IF SameSession THEN log ELSE <<>>
Got     == IF SameSession THEN handled ELSE <<>>

Stream == INSTANCE SessionStream WITH session <- Session, sent <- Sent, got <- Got

\* The client side implements that promise (module SessionStream).
SessionPromise == Stream!Spec

\* What the server handled in a session is, in order and without a gap or a
\* duplicate, a prefix of what the client counted in it, across any number of
\* resumptions (retransmission in sm_handler <resumed/>).
HandledInOrder ==
  SameSession => /\ Len(handled) <= Len(log)
                 /\ \A k \in 1..Len(handled) : handled[k] = log[k]

\* q holds exactly the stanzas of l past number a, under their numbers
Outstanding(q, a, l) ==
  /\ Len(q) = Len(l) - a
  /\ \A i \in 1..Len(q) : q[i] = Entry(a + i, l[a + i])

\* The retransmit queue is exactly the counted stanzas past the last ack: a
\* stanza of the session leaves it only when the server has handled it.
QueueIsUnacked == sm_h_outbound = Len(log) /\ Outstanding(sm_outqueue, sm_last_ack, log)
NothingForgotten == SameSession => sm_last_ack <= Len(handled)

\* Inbound stanzas are processed once and in order, and the h the client reports
\* covers only what it processed (sm_increment_handled_count before each handler).
InboundOnce ==
  /\ \A i, j \in 1..Len(received) : i < j => received[i] < received[j]
  /\ SameSession =>
       /\ srv_acked <= sm_h_inbound /\ sm_h_inbound <= Len(srv_log)
       /\ \A k \in 1..sm_h_inbound : \E i \in 1..Len(received) : received[i] = srv_log[k]

\* Across sessions, resumed or replaced, no stanza reaches the server twice as
\* long as a refused <resume/> reports the server's count: what <failed h/> covers
\* is trimmed before the queue is replayed into the fresh session.
DeliveredOnce == \A i, j \in 1..Len(delivered) : i # j => delivered[i] # delivered[j]

\* In either direction a stanza is handled once.
HandledOnce == DeliveredOnce /\ InboundOnce

\* While SM negotiation is open no application stanza is on the wire, and
\* nothing waits for a replay without it.
DeferredWhileNegotiating ==
  /\ sm_awaiting => /\ link \in {"up", "closing"} /\ ~sm_enabled
                    /\ \A i \in 1..Len(c2s) : c2s[i].type # "app"
  /\ sm_pending_replay # <<>> => sm_awaiting

-----------------------------------------------------------------------------
(* Liveness.  timer_cb runs the stream and reconnects, the acknowledgement *)
(* timer fires; the server serves its stream, a connection attempt ends,   *)
(* and libstrophe gives up a stream that is closing.                       *)

Fairness ==
  /\ WF_vars(ClientReceive)
  /\ WF_vars(ServeStream)
  /\ WF_vars(AckTimer)
  /\ WF_vars(Connect)
  /\ WF_vars(\E advertised \in Advertises : ConnectEvent(advertised))
  /\ WF_vars(link = "closing" /\ LinkLost)

LiveSpec == Spec /\ Fairness

\* A stream that comes up always gets its post-connect setup, whatever the server
\* answers to <enable/> or <resume/>, unless it is lost first.
SetupRuns == (link = "up") ~> (sm_post_connect_done \/ link # "up")

\* What is waiting for an acknowledgement is acknowledged in the end, through
\* losses, resumptions and fresh sessions.
QueueDrains == (sm_outqueue # <<>>) ~> (sm_outqueue = <<>>)

\* A stanza the client has counted in a session reaches the server, however often the
\* stream is lost, unless that session is given up or replaced.
CountedIsDelivered ==
  \A x \in 1..(MaxStanzas + MaxConnects) :
    (\E i \in 1..Len(log) : log[i] = x) ~>
      \/ \E i \in 1..Len(delivered) : delivered[i] = x
      \/ \A i \in 1..Len(log) : log[i] # x

\* Every stanza is delivered, and known to be.
EveryStanzaArrives == QueueDrains /\ CountedIsDelivered

=============================================================================
