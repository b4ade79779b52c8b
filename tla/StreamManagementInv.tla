------------------------ MODULE StreamManagementInv ------------------------
(***************************************************************************)
(* The inductive invariant behind the safety of StreamManagement, for a    *)
(* server that acknowledges only what it has handled.  It says what may be *)
(* on the stream in each phase of a connection:                            *)
(*   asking    <enable/> or <resume/> is on its way, and nothing else;     *)
(*   answered  the answer comes first in s2c, and c2s is empty;            *)
(*   running   the counted stanzas past the server's count are in c2s, in  *)
(*             order and without a gap, up to the last one counted;        *)
(*   plain     no stream management.                                       *)
(***************************************************************************)
EXTENDS StreamManagement

Honest == "overack" \notin ServerFaults

IsApp(e)    == e.type = "app"
Counts(e)   == e.type \in {"a", "resumed"}
Ordinary(e) == e.type \in {"a", "r", "app"}

\* the stanzas of l past number n are in c, in order and without a gap
Carries(c, n, l) ==
  /\ \A i \in 1..Len(c) : IsApp(c[i]) =>
       /\ c[i].h \in (n + 1)..Len(l)
       /\ c[i].stanza = l[c[i].h]
       /\ c[i].h > n + 1 => \E j \in 1..(i - 1) : IsApp(c[j]) /\ c[j].h = c[i].h - 1
  /\ \A i, j \in 1..Len(c) : i < j /\ IsApp(c[i]) /\ IsApp(c[j]) => c[i].h < c[j].h
  /\ n < Len(l) => \E i \in 1..Len(c) : IsApp(c[i]) /\ c[i].h = Len(l)

\* the counts that s reports grow from a to n
Reports(s, a, n) ==
  /\ \A i \in 1..Len(s) : Counts(s[i]) => s[i].h \in a..n
  /\ \A i, j \in 1..Len(s) : i < j /\ Counts(s[i]) /\ Counts(s[j]) => s[i].h <= s[j].h

Silent == c2s = <<>> /\ s2c = <<>> /\ ~srv_on /\ ~sm_awaiting

Asking ==
  /\ sm_awaiting /\ ~sm_enabled /\ ~srv_on /\ s2c = <<>>
  /\ \/ sm_id = 0 /\ c2s = <<Enable>>
     \/ sm_id # 0 /\ c2s = <<Resume(sm_h_inbound, sm_id)>>

Answered ==
  /\ sm_awaiting /\ ~sm_enabled /\ c2s = <<>> /\ s2c # <<>>
  /\ \A i \in 2..Len(s2c) : Ordinary(s2c[i])
  /\ Reports(s2c, 0, Len(handled))
  /\ \/ ~srv_on /\ s2c[1].type = "failed" /\ Len(s2c) = 1
     \/ srv_on /\ s2c[1] = Enabled(srv_id) /\ sm_id = 0 /\ handled = <<>>
     \/ srv_on /\ s2c[1] = Resumed(Len(handled)) /\ sm_id # 0 /\ sm_id = srv_id

Running ==
  /\ ~sm_awaiting /\ sm_enabled /\ srv_on /\ sm_id = srv_id
  /\ \A i \in 1..Len(c2s) : Ordinary(c2s[i])
  /\ \A i \in 1..Len(s2c) : Ordinary(s2c[i])
  /\ Carries(c2s, Len(handled), log)
  /\ Reports(s2c, sm_last_ack, Len(handled))

Plain ==
  /\ ~sm_awaiting /\ ~sm_enabled /\ ~srv_on /\ s2c = <<>>
  /\ \A i \in 1..Len(c2s) : IsApp(c2s[i])

Phases ==
  /\ link # "closing"
  /\ link # "up" => Silent
  /\ link = "up" => Asking \/ Answered \/ Running \/ Plain

\* the server holds the client's session or none
OneSession == sm_id # 0 => srv_id \in {0, sm_id}

NothingWaits == sm_pending_replay # <<>> => sm_awaiting

\* Every reachable state satisfies it and every step from such a state preserves it.
Inductive ==
  /\ TypeOK
  /\ Phases /\ OneSession /\ NothingWaits
  /\ QueueIsUnacked /\ HandledInOrder /\ NothingForgotten
-----------------------------------------------------------------------------
(* What makes every stanza be handled once, given Inductive and a server   *)
(* whose refusal of a <resume/> reports how far the session came.          *)

Recalls == "forget" \notin ServerFaults

Distinct(s)   == \A i, j \in 1..Len(s) : s[i] = s[j] => i = j
Apart(s, t)   == \A i \in 1..Len(s), j \in 1..Len(t) : s[i] # t[j]
Within(s, m)  == \A i \in 1..Len(s) : s[i] \in 1..m
Increasing(s) == \A i, j \in 1..Len(s) : i < j => s[i] < s[j]
Among(x, s)   == \E i \in 1..Len(s) : s[i] = x

\* the numbers of s are different, at most m, and none of them is in d
New(s, d, m) == Distinct(s) /\ Within(s, m) /\ Apart(s, d)

\* the stanzas of l past number n
Rest(l, n) == [k \in 1..(Len(l) - n) |-> l[n + k]]

Unmanaged == link = "up" /\ ~sm_awaiting /\ ~sm_enabled
\* the session whose stanzas log holds is alive, or may be resumed
Held      == sm_id # 0 \/ (link = "up" /\ sm_enabled)

\* What the client may yet bring to the server: the stream's own stanzas or those the
\* server has not counted, and those that wait for the end of the negotiation.
Debt    == IF Unmanaged THEN Stanzas(c2s)
           ELSE IF Held THEN Rest(log, Len(handled)) ELSE <<>>
Waiting == Stanzas(sm_pending_replay)

OutboundOnce ==
  /\ Distinct(delivered) /\ Within(delivered, submitted)
  /\ New(Debt, delivered, submitted) /\ New(Waiting, delivered, submitted)
  /\ Apart(Debt, Waiting)
  /\ Held => sm_last_ack <= Len(handled) /\ Len(handled) <= Len(log)

\* How a negotiation began decides how it ends.
Attempts ==
  /\ sm_awaiting => (sm_resume_attempted <=> sm_id # 0)
  /\ Unmanaged => sm_id = 0
  /\ sm_awaiting /\ ~srv_on /\ sm_id # 0 /\ s2c # <<>> => s2c[1].h = Len(handled)

\* Everything the server emitted past number n is newer than what was received.
Ahead(n) == \A k \in (n + 1)..Len(srv_log), i \in 1..Len(received) : received[i] < srv_log[k]

InboundInOrder ==
  /\ Increasing(srv_log) /\ Within(srv_log, emitted)
  /\ Increasing(received) /\ Within(received, emitted)
  /\ SameSession =>
       /\ srv_acked <= sm_h_inbound /\ sm_h_inbound <= Len(srv_log)
       /\ \A k \in 1..sm_h_inbound : Among(srv_log[k], received)
       /\ Ahead(sm_h_inbound)

AcksWithin(c, n) == \A i \in 1..Len(c) : c[i].type = "a" => c[i].h <= n

\* What is on its way to the client, by phase, and what the client has acknowledged.
InboundOnItsWay ==
  /\ link = "up" /\ sm_enabled =>
       Carries(s2c, sm_h_inbound, srv_log) /\ AcksWithin(c2s, sm_h_inbound)
  /\ sm_awaiting /\ srv_on /\ sm_id = 0 => Carries(s2c, 0, srv_log) /\ Ahead(0) /\ srv_acked = 0
  /\ sm_awaiting /\ srv_on /\ sm_id # 0 => Carries(s2c, sm_h_inbound, srv_log)

Outbound     == OutboundOnce /\ Attempts
Inbound      == InboundInOrder /\ InboundOnItsWay
NothingTwice == Outbound /\ Inbound
=============================================================================
