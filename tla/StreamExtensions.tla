-------------------------- MODULE StreamExtensions --------------------------
(***************************************************************************)
(* Which of stream management (SM) and client state indication (CSI) an    *)
(* account uses on a stream.  A server, or a proxy before it, may answer a *)
(* top-level element it does not know with the stream error                *)
(* <unsupported-stanza-type/>, which does not say which element it was:    *)
(* conn_handler blames one of the two extensions, remembers the verdict    *)
(* for the domain in the LMDB cache and reconnects without it.             *)
(***************************************************************************)
EXTENDS Naturals, Sequences, FiniteSets

CONSTANTS
  Ext,          \* {"sm", "csi"}
  MaxConnects,  \* bound: connection attempts
  MaxWire,      \* bound: elements on the wire when the client or server volunteers one
  Volunteers    \* "r": the server asks for acknowledgements and the client's timer fires;
                \* "inactive": the user goes idle and comes back; "lost": streams are lost

VARIABLES
  link,                 \* "off" | "connecting" | "up"
  sm_available, csi_available,
  sm_awaiting,          \* sm_awaiting_negotiation
  sm_resume_attempted,
  sm_enabled,
  sm_id,                \* BOOLEAN: a session to resume
  sm_post_connect_done,
  csi_active,
  last_ext,             \* last_top_level_ext_sent
  cache,                \* LMDB stream_ext:<domain>, "unknown" or "no" for each extension
  c2s, s2c,             \* elements on the wire
  server,               \* what the server is like: never changes
  errors, connects      \* streams ended by the error, connection attempts

negotiation == <<sm_awaiting, sm_resume_attempted, sm_enabled, sm_id, sm_post_connect_done>>
available   == <<sm_available, csi_available>>
vars == <<link, available, negotiation, csi_active, last_ext, cache, c2s, s2c, server,
          errors, connects>>

-----------------------------------------------------------------------------
ExtOf(e) == IF e \in {"active", "inactive"} THEN "csi" ELSE "sm"

\* connection::send of top-level elements
Send(es) == /\ c2s' = c2s \o es
            /\ last_ext' = IF es = <<>> THEN last_ext ELSE ExtOf(es[Len(es)])

\* recoverable_unsupported_stanza_downgrade
Blamed ==
  LET negotiating == sm_awaiting \/ sm_resume_attempted
  IN  CASE negotiating /\ sm_available     -> {"sm"}
        [] ~negotiating /\ csi_available   -> {IF last_ext = "sm" THEN "sm" ELSE "csi"}
        [] OTHER                           -> {}

\* resolve_csi_available: the cache, then what was seen in <stream:features/>, then a guess
ResolveCSI(sniffed) == cache["csi"] # "no" /\ (sniffed \/ server.sm)

\* the CSI part of run_post_connect_setup
Setup(resumed) ==
  IF sm_post_connect_done
  THEN UNCHANGED <<sm_post_connect_done, csi_active, last_ext, c2s>>
  ELSE /\ sm_post_connect_done' = TRUE
       /\ \E still_idle \in (IF resumed /\ "inactive" \in Volunteers THEN BOOLEAN
                                                                     ELSE {FALSE}) :
            /\ csi_active' = (csi_available' /\ ~still_idle)
            /\ Send(CASE ~csi_available' -> <<>>
                      [] csi_available' /\ still_idle -> <<"inactive">>
                      [] csi_available' /\ ~still_idle /\ resumed -> <<>>
                      [] OTHER -> <<"active">>)

-----------------------------------------------------------------------------
\* account::connect
Connect ==
  /\ link = "off" /\ connects < MaxConnects
  /\ link' = "connecting"
  /\ connects' = connects + 1
  /\ last_ext' = "none"
  /\ sm_available' = (cache["sm"] # "no")
  /\ csi_available' = (cache["csi"] # "no")
  /\ UNCHANGED <<negotiation, csi_active, cache, c2s, s2c, server, errors>>

\* clear_sm_session_state, as far as it matters here
ClearSession == sm_enabled' = FALSE /\ sm_id' = FALSE

\* conn_handler(connect)
ConnectEvent ==
  /\ link = "connecting"
  /\ link' = "up"
  /\ sm_available' = (sm_available /\ server.sm)
  /\ csi_available' = ResolveCSI(server.csi)
  /\ sm_enabled' = FALSE
  /\ sm_awaiting' = sm_available'
  /\ sm_resume_attempted' = (sm_available' /\ sm_id)
  /\ sm_id' = (sm_id /\ ~(sm_available /\ ~server.sm))
  /\ IF sm_available'
     THEN /\ Send(<<IF sm_id THEN "resume" ELSE "enable">>)
          /\ sm_post_connect_done' = FALSE
          /\ csi_active' = csi_active
     ELSE /\ sm_post_connect_done' = TRUE
          /\ csi_active' = csi_available'
          /\ Send(IF csi_available' THEN <<"active">> ELSE <<>>)
  /\ UNCHANGED <<cache, s2c, server, errors, connects>>

Receive(e) ==
  /\ link = "up" /\ s2c # <<>> /\ Head(s2c) = e
  /\ s2c' = Tail(s2c)
  /\ UNCHANGED <<link, available, cache, server, errors, connects>>

RecvEnabled ==
  /\ Receive("enabled")
  /\ sm_enabled' = TRUE /\ sm_awaiting' = FALSE
  /\ sm_id' \in BOOLEAN       \* resumable or not
  /\ sm_resume_attempted' = sm_resume_attempted
  /\ Setup(FALSE)

RecvResumed ==
  /\ Receive("resumed")
  /\ sm_enabled' = TRUE /\ sm_awaiting' = FALSE
  /\ UNCHANGED <<sm_id, sm_resume_attempted>>
  /\ Setup(TRUE)

RecvFailed ==
  /\ Receive("failed")
  /\ ClearSession
  /\ sm_resume_attempted' = FALSE
  /\ sm_awaiting' = sm_resume_attempted
  /\ IF sm_resume_attempted
     THEN Send(<<"enable">>) /\ UNCHANGED <<sm_post_connect_done, csi_active>>
     ELSE Setup(FALSE)

RecvReq ==
  /\ Receive("r")
  /\ Send(<<"a">>)
  /\ UNCHANGED <<negotiation, csi_active>>

Volunteer(kind, e) ==
  /\ kind \in Volunteers
  /\ link = "up" /\ Len(c2s) + Len(s2c) < MaxWire
  /\ Send(<<e>>)
  /\ UNCHANGED <<link, available, negotiation, cache, s2c, server, errors, connects>>

\* sm_ack_timer_cb, every 30 seconds: what was sent before has been served
AckTimer == sm_enabled /\ c2s = <<>> /\ s2c = <<>> /\ Volunteer("r", "r") /\ csi_active' = csi_active

\* idle_timer_cb and activity_cb, hooked by the setup
IdleTimer ==
  /\ sm_post_connect_done /\ csi_available /\ csi_active
  /\ Volunteer("inactive", "inactive") /\ csi_active' = FALSE
Activity ==
  /\ sm_post_connect_done /\ csi_available /\ ~csi_active
  /\ Volunteer("inactive", "active") /\ csi_active' = TRUE

\* account::disconnect_impl for a reconnection
Cut ==
  /\ link' = "off"
  /\ c2s' = <<>> /\ s2c' = <<>>
  /\ sm_awaiting' = FALSE /\ sm_resume_attempted' = FALSE
  /\ UNCHANGED <<sm_post_connect_done, csi_active, last_ext, server, connects>>

\* stream_ext_cache_set, unless the database could not be opened
Learn(exts) ==
  cache' = IF server.persists THEN [e \in Ext |-> IF e \in exts THEN "no" ELSE cache[e]]
                              ELSE cache

\* Operators named ...Mutant are slips the properties must notice; no action uses them.
\* Here: reconnects without learning anything
StreamErrorMutant ==
  /\ link = "up" /\ s2c # <<>> /\ Head(s2c) = "error"
  /\ Cut
  /\ IF "sm" \in Blamed THEN sm_available' = FALSE /\ ClearSession
                        ELSE UNCHANGED <<sm_available, sm_enabled, sm_id>>
  /\ csi_available' = (csi_available /\ "csi" \notin Blamed)
  /\ errors' = errors + 1 /\ cache' = cache

\* conn_handler(disconnect) with <unsupported-stanza-type/>
StreamError ==
  /\ link = "up" /\ s2c # <<>> /\ Head(s2c) = "error"
  /\ Cut
  /\ IF "sm" \in Blamed THEN sm_available' = FALSE /\ ClearSession
                        ELSE UNCHANGED <<sm_available, sm_enabled, sm_id>>
  /\ csi_available' = (csi_available /\ "csi" \notin Blamed)
  /\ Learn(Blamed)
  /\ errors' = errors + 1

\* conn_handler(disconnect or fail) without a stream error; with <conflict/>, and in
\* account::disconnect(0), the session is given up
LinkLost ==
  /\ "lost" \in Volunteers /\ link # "off" /\ connects < MaxConnects
  /\ Cut
  /\ ClearSession \/ UNCHANGED <<sm_enabled, sm_id>>
  /\ UNCHANGED <<available, cache, errors>>

-----------------------------------------------------------------------------
(* The server (external).                                                  *)

Alive == link = "up" /\ \A i \in 1..Len(s2c) : s2c[i] # "error"

Serve ==
  /\ Alive /\ c2s # <<>>
  /\ UNCHANGED <<link, available, negotiation, csi_active, last_ext, cache, server, errors,
                 connects>>

\* an extension it does not know ends the stream
Reject ==
  /\ Serve /\ ExtOf(Head(c2s)) \in server.rejects
  /\ c2s' = <<>> /\ s2c' = Append(s2c, "error")

Accept ==
  /\ Serve /\ ExtOf(Head(c2s)) \notin server.rejects
  /\ c2s' = Tail(c2s)
  /\ \E answer \in CASE Head(c2s) = "enable" -> {<<"enabled">>, <<"failed">>}
                     [] Head(c2s) = "resume" -> {<<"resumed">>, <<"failed">>}
                     [] OTHER -> {<<>>} :
       s2c' = s2c \o answer

Request ==
  /\ "r" \in Volunteers
  /\ Alive /\ sm_enabled /\ Len(c2s) + Len(s2c) < MaxWire
  /\ s2c' = Append(s2c, "r")
  /\ UNCHANGED <<link, available, negotiation, csi_active, last_ext, cache, c2s, server,
                 errors, connects>>

Init ==
  /\ link = "off"
  /\ sm_available = TRUE /\ csi_available = TRUE
  /\ sm_awaiting = FALSE /\ sm_resume_attempted = FALSE /\ sm_enabled = FALSE
  /\ sm_id = FALSE /\ sm_post_connect_done = FALSE
  /\ csi_active = TRUE
  /\ last_ext = "none"
  /\ cache = [e \in Ext |-> "unknown"]
  /\ c2s = <<>> /\ s2c = <<>>
  /\ server \in [rejects : SUBSET Ext, sm : BOOLEAN, csi : BOOLEAN, persists : BOOLEAN]
  /\ errors = 0 /\ connects = 0

Client == \/ RecvEnabled \/ RecvResumed \/ RecvFailed \/ RecvReq
          \/ AckTimer \/ IdleTimer \/ Activity
Next == \/ Connect \/ ConnectEvent \/ StreamError \/ LinkLost
        \/ Client
        \/ Reject \/ Accept \/ Request

Spec == Init /\ [][Next]_vars

-----------------------------------------------------------------------------

\* However the errors are attributed, rightly or wrongly, a server costs the account
\* at most one stream per extension as long as the verdicts are kept
\* (recoverable_unsupported_stanza_downgrade and the LMDB cache).  And every error teaches
\* something, also when no verdict can be kept: none is answered by connecting in the same
\* way again.
OneStreamPerExtension ==
  /\ [](server.persists => errors <= Cardinality(Ext))
  /\ [][StreamError => Blamed # {}]_vars

\* internal.hh: "True when a stream error during SM negotiation means SM must be
\* disabled": SM is blamed for an error of the negotiation, or for the last element.
BlamedInNegotiation ==
  [][StreamError /\ "sm" \in Blamed => sm_awaiting \/ last_ext = "sm"]_vars

=============================================================================
