-------------------------- MODULE AccountPresence --------------------------
(***************************************************************************)
(* Reconnect and ClientActivity together: the setup runs on a connection   *)
(* that is up, and disconnect_impl, whoever calls it, unhooks the idle     *)
(* timer and the activity callbacks; until then they run, also on a stream *)
(* that is being closed.                                                   *)
(***************************************************************************)
EXTENDS Reconnect, Sequences

CONSTANTS CSI, Kinds, MaxWire, TypesOffline    \* of ClientActivity

ASSUME ActivityConstants ==
  /\ CSI \subseteq BOOLEAN /\ Kinds \subseteq {"fresh", "resumed"}
  /\ MaxWire \in Nat /\ TypesOffline \in BOOLEAN

VARIABLES link, csi_available, csi_active, xep0319_idle_sent, long_ago, user_away, c2s,
          srv_csi, shown

Activity == INSTANCE ClientActivity

VARIABLE resumable    \* sm_id is known

clientVars == <<link, csi_available, csi_active, xep0319_idle_sent, long_ago, user_away, c2s,
                srv_csi, shown>>
allVars == <<vars, clientVars, resumable>>

-----------------------------------------------------------------------------
\* disconnect_impl has run, called by the user, by conn_handler or from inside connect
Cut(a) == ~a.is_connected \/ a.conn \notin {"connected", "ending"}

\* A step of the connection; a manual disconnection gives up the session.
Connection ==
  /\ Next
  /\ IF link = "up" /\ Cut(acc') THEN Activity!LinkLost ELSE UNCHANGED clientVars
  /\ resumable' = (resumable /\ (wanted => wanted'))

\* the post-connect setup
Setup(kind) ==
  /\ acc.is_connected /\ acc.conn = "connected"
  /\ kind = "resumed" => resumable
  /\ \E csi \in CSI : Activity!Setup(kind, csi)
  /\ resumable' \in IF kind = "fresh" THEN BOOLEAN ELSE {TRUE}
  /\ UNCHANGED vars

Client ==
  /\ \/ Activity!IdleTimer \/ Activity!Key \/ Activity!TimePasses \/ Activity!TimeSlips
     \/ Activity!ServeCSI
  /\ UNCHANGED <<vars, resumable>>

AccountInit == Init /\ Activity!Init /\ resumable = FALSE
AccountNext == Connection \/ (\E kind \in Kinds : Setup(kind)) \/ Client
AccountSpec == AccountInit /\ [][AccountNext]_allVars /\ Fairness

-----------------------------------------------------------------------------
\* Once the server has read what was sent to it, it assumes the state the client means to be
\* in, after any number of losses and resumptions: otherwise activity_cb takes its fast path
\* while the server holds back traffic.
CSIAgrees == link = "up" /\ csi_available /\ c2s = <<>> => (srv_csi = "active") = csi_active

\* A key pressed where the client can notice ends both announcements.
KeyEndsIdle ==
  [][Activity!Key /\ link = "up" /\ csi_available => csi_active' /\ shown' # "idle"]_clientVars

=============================================================================
