---------------------------- MODULE HandledCount ----------------------------
(***************************************************************************)
(* The stanza counters of XEP-0198 are unsigned and wrap around.  The      *)
(* client numbers what it sends with sm_increment_handled_count and        *)
(* compares the counts the server reports with <= and >.  Wrap stands for  *)
(* 2^32.  The session stays the same one: a lost stream is resumed.        *)
(* Nothing checks the count of <resumed/>: when a resumption spans the     *)
(* wrap-around, the client forgets what the server has not handled, or     *)
(* sends again what it has, and then the queue is stuck: no                *)
(* acknowledgement takes anything out of it.                               *)
(***************************************************************************)
EXTENDS Naturals, Sequences

CONSTANTS
  Wrap,         \* the counters take the values 0 .. Wrap-1
  MaxSent,      \* bound: stanzas sent
  MaxInFlight,  \* bound: stanzas that are not acknowledged
  MaxAcks,      \* bound: acknowledgements on the wire
  MaxResumes    \* bound: losses and resumptions of the stream

VARIABLES
  open,           \* the client has not closed the stream
  sm_h_outbound,
  sm_outqueue,    \* <<[seq, stanza], ...>>, the stanzas numbered without wrapping
  wire,           \* stanzas on their way
  acks,           \* counts on their way back
  handled, count, \* stanzas the server handled, and how often it handled one
  sent, resumes   \* bounded counters

vars == <<open, sm_h_outbound, sm_outqueue, wire, acks, handled, count, sent, resumes>>

\* the count the server reports
Reported == count % Wrap

\* sm_trim_outqueue_through: the longest prefix numbered up to h goes
Prefixes(q, h) == {n \in 0..Len(q) : /\ \A j \in 1..n : q[j].seq <= h
                                     /\ n < Len(q) => q[n + 1].seq > h}
Trimmed(h) == \E n \in Prefixes(sm_outqueue, h) :
                sm_outqueue' = SubSeq(sm_outqueue, n + 1, Len(sm_outqueue))

\* sm_increment_handled_count
Increment(h) == IF h = Wrap - 1 THEN 0 ELSE h + 1

\* connection::send of an application stanza
Send ==
  /\ open /\ sent < MaxSent /\ Len(sm_outqueue) < MaxInFlight
  /\ sent' = sent + 1
  /\ sm_h_outbound' = Increment(sm_h_outbound)
  /\ sm_outqueue' = Append(sm_outqueue, [seq |-> sm_h_outbound', stanza |-> sent'])
  /\ wire' = Append(wire, sent')
  /\ UNCHANGED <<open, acks, handled, count, resumes>>

\* the server (external)
Handle ==
  /\ wire # <<>>
  /\ handled' = handled \union {Head(wire)}
  /\ count' = count + 1
  /\ wire' = Tail(wire)
  /\ UNCHANGED <<open, sm_h_outbound, sm_outqueue, acks, sent, resumes>>
Acknowledge ==
  /\ Len(acks) < MaxAcks
  /\ acks' = Append(acks, Reported)
  /\ UNCHANGED <<open, sm_h_outbound, sm_outqueue, wire, handled, count, sent, resumes>>

Trim(h) ==
  /\ Trimmed(h)
  /\ acks' = Tail(acks)
  /\ UNCHANGED <<open, sm_h_outbound, wire, handled, count, sent, resumes>>

\* An operator named ...Mutant is a slip the properties must notice; no action uses
\* it.  Here: trims before it checks.
RecvAckMutant == open /\ acks # <<>> /\ Trim(Head(acks))

\* sm_handler <a/>
RecvAck == open /\ acks # <<>> /\ Head(acks) <= sm_h_outbound /\ Trim(Head(acks))

\* sm_close_stream_handled_count_too_high
RecvAckTooHigh ==
  /\ open /\ acks # <<>> /\ Head(acks) > sm_h_outbound
  /\ open' = FALSE
  /\ acks' = Tail(acks)
  /\ UNCHANGED <<sm_h_outbound, sm_outqueue, wire, handled, count, sent, resumes>>

\* the stream is lost with what was on it; <resume/> is answered with the server's
\* count and the rest of the queue is sent again
Resume ==
  /\ resumes < MaxResumes
  /\ resumes' = resumes + 1
  /\ open' = TRUE
  /\ acks' = <<>>
  /\ Trimmed(Reported)
  /\ wire' = [i \in 1..Len(sm_outqueue') |-> sm_outqueue'[i].stanza]
  /\ UNCHANGED <<sm_h_outbound, handled, count, sent>>

Init ==
  /\ open = TRUE
  /\ sm_h_outbound = 0 /\ sm_outqueue = <<>>
  /\ wire = <<>> /\ acks = <<>> /\ handled = {} /\ count = 0
  /\ sent = 0 /\ resumes = 0

Next == Send \/ Handle \/ Acknowledge \/ RecvAck \/ RecvAckTooHigh \/ Resume
Spec == Init /\ [][Next]_vars

-----------------------------------------------------------------------------
Queued == {sm_outqueue[i].stanza : i \in 1..Len(sm_outqueue)}

\* An acknowledgement takes out of the queue only what the server has handled, on
\* both sides of the wrap-around, and also when the server has handled some stanzas
\* twice: the comparison in sm_handler <a/> fails closed.
AckTrimsHandled == [][RecvAck => Queued \ Queued' \subseteq handled]_vars

=============================================================================
