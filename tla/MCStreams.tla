------------------------------ MODULE MCStreams ------------------------------
(***************************************************************************)
(* The account, the counters of a stream and its extensions for model      *)
(* checking.  They touch nothing of each other's, so it is enough that one *)
(* of them moves.                                                          *)
(***************************************************************************)
EXTENDS AccountPresence

CONSTANTS Wrap, MaxSent, MaxInFlight, MaxAcks, MaxResumes,
          Ext, MaxConnects, MaxElements, Volunteers

\* far fewer stanzas are ever in flight than the counter has values
ASSUME CountConstants ==
  /\ Wrap \in Nat \ {0} /\ MaxSent \in Nat /\ MaxResumes \in Nat /\ MaxAcks \in Nat
  /\ MaxInFlight \in Nat /\ (MaxResumes + 1) * MaxInFlight < Wrap

ASSUME ExtConstants ==
  /\ Ext = {"sm", "csi"}
  /\ MaxConnects \in Nat /\ MaxElements \in Nat
  /\ Volunteers \subseteq {"r", "inactive", "lost"}

VARIABLES
  moves,
  open, sm_h_outbound, sm_outqueue, wire, acks, handled, count, sent, resumes,
  stream, sm_available, csi_known, sm_awaiting, sm_resume_attempted, sm_enabled, sm_id,
  sm_post_connect_done, active, last_ext, cache, out, s2c, server, errors, connects

Counts == INSTANCE HandledCount
Exts == INSTANCE StreamExtensions
  WITH link <- stream, csi_available <- csi_known, csi_active <- active, c2s <- out,
       MaxWire <- MaxElements

countVars == <<open, sm_h_outbound, sm_outqueue, wire, acks, handled, count, sent, resumes>>
extVars   == <<stream, sm_available, csi_known, sm_awaiting, sm_resume_attempted, sm_enabled,
               sm_id, sm_post_connect_done, active, last_ext, cache, out, s2c, server,
               errors, connects>>

StreamsInit ==
  /\ moves \in {"account", "counts", "extensions"}
  /\ AccountInit /\ Counts!Init /\ Exts!Init
  /\ moves # "extensions" =>      \* of its initial states one will do
       server = [rejects |-> {}, sm |-> TRUE, csi |-> TRUE, persists |-> TRUE]

StreamsNext ==
  /\ UNCHANGED moves
  /\ \/ moves = "account" /\ AccountNext /\ UNCHANGED <<countVars, extVars>>
     \/ moves = "counts" /\ Counts!Next /\ UNCHANGED <<allVars, extVars>>
     \/ moves = "extensions" /\ Exts!Next /\ UNCHANGED <<allVars, countVars>>

StreamsSpec ==
  StreamsInit /\ [][StreamsNext]_<<moves, allVars, countVars, extVars>> /\ Fairness

\* sm_trim_outqueue_through forgets only what the server has handled, across the wrap-around.
AckTrimsHandled == Counts!AckTrimsHandled

\* A server that knows neither extension costs one stream for each of them at most.
OneStreamPerExtension == Exts!OneStreamPerExtension

=============================================================================
