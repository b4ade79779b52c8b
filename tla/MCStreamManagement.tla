------------------------- MODULE MCStreamManagement -------------------------
(***************************************************************************)
(* The runs of StreamManagement, and what a comment of the code says that  *)
(* the code does not do.                                                   *)
(***************************************************************************)
EXTENDS StreamManagementInv

Numbers     == 1..(MaxStanzas + MaxConnects)
Holds(q, x) == \E i \in 1..Len(q) : q[i].stanza = x
Kept(x)     == Holds(sm_outqueue, x) \/ Holds(sm_pending_replay, x) \/ Holds(c2s, x)

\* connection.cpp: "defer application stanzas until SM negotiation completes": a
\* deferred stanza is still deferred, queued or on its way while the stream is up.
DeferredIsSent ==
  [][link = "up" /\ link' = "up" =>
       \A x \in Numbers : Holds(sm_pending_replay, x) => Kept(x)']_vars

=============================================================================
