--------------------------- MODULE ClientActivity ---------------------------
(***************************************************************************)
(* What an account tells of the user being away: client state indication   *)
(* (XEP-0352) to its server and <idle/> presence (XEP-0319) to contacts.   *)
(* idle_timer_cb announces, activity_cb withdraws; both live from the      *)
(* post-connect setup of a stream to its loss.  A stream resumes the       *)
(* session of the one before or starts a fresh one.                        *)
(***************************************************************************)
EXTENDS Naturals, Sequences

CONSTANTS
  CSI,          \* what csi_available may be on a stream: a set of BOOLEANs
  Kinds,        \* how a stream starts: "fresh", "resumed"
  MaxWire,      \* bound: elements on the wire when the user does something
  TypesOffline  \* BOOLEAN: the user may be at the keyboard without a stream

VARIABLES
  link,               \* "off" | "up" (the setup has run)
  csi_available,
  csi_active,
  xep0319_idle_sent,
  long_ago,           \* last_activity is more than k_csi_idle_seconds old
  user_away,          \* the user has been away from the keyboard for that long
  c2s,                \* CSI elements on the wire
  srv_csi,            \* the client state the server assumes
  shown               \* the presence contacts see: "offline" | "here" | "idle"

vars == <<link, csi_available, csi_active, xep0319_idle_sent, long_ago, user_away,
          c2s, srv_csi, shown>>

-----------------------------------------------------------------------------
\* Operators named ...Mutant are slips the properties must notice; no action uses
\* them.  Here: the <inactive/> of the previous stream is taken to be in force
ResumeCSIMutant == IF long_ago THEN csi_active' = FALSE /\ c2s' = <<>>
                               ELSE csi_active' = TRUE /\ c2s' = <<>>

\* run_post_connect_setup of a resumed stream: CSI starts again as active
ResumeCSI == IF long_ago THEN csi_active' = FALSE /\ c2s' = <<"inactive">>
                         ELSE csi_active' = TRUE /\ c2s' = <<>>

\* a fresh session starts with <presence/> and a new last_activity
Setup(kind, csi) ==
  /\ link = "off" /\ link' = "up"
  /\ csi_available' = csi
  /\ srv_csi' = "active"
  /\ long_ago' = (long_ago /\ kind = "resumed")
  /\ CASE ~csi                     -> csi_active' = FALSE /\ c2s' = <<>>
       [] csi /\ kind = "resumed"  -> ResumeCSI
       [] csi /\ kind = "fresh"    -> csi_active' = TRUE /\ c2s' = <<"active">>
  /\ shown' = IF kind = "fresh" THEN "here" ELSE shown
  /\ UNCHANGED <<xep0319_idle_sent, user_away>>

\* idle_timer_cb, every minute: presence reaches contacts in the order it is sent
IdleTimer ==
  /\ link = "up" /\ long_ago
  /\ IF csi_available /\ csi_active
     THEN csi_active' = FALSE /\ c2s' = Append(c2s, "inactive")
     ELSE UNCHANGED <<csi_active, c2s>>
  /\ xep0319_idle_sent' = TRUE
  /\ shown' = IF xep0319_idle_sent THEN shown ELSE "idle"
  /\ UNCHANGED <<link, csi_available, long_ago, user_away, srv_csi>>

\* the XEP-0319 half of activity_cb
WithdrawIdle == /\ xep0319_idle_sent' = FALSE
                /\ shown' = IF xep0319_idle_sent THEN "here" ELSE shown

\* does not note that it has woken the server
ActivityCbMutant ==
  /\ long_ago' = FALSE
  /\ csi_active' = csi_active
  /\ c2s' = IF csi_active THEN c2s ELSE Append(c2s, "active")
  /\ WithdrawIdle

\* activity_cb; the setup hooks it only when CSI is available
ActivityCb ==
  /\ long_ago' = FALSE
  /\ csi_active' = TRUE
  /\ c2s' = IF csi_active THEN c2s ELSE Append(c2s, "active")
  /\ WithdrawIdle

\* a key is pressed
Key ==
  /\ link = "up" \/ TypesOffline
  /\ Len(c2s) < MaxWire
  /\ user_away' = FALSE
  /\ IF link = "up" /\ csi_available THEN ActivityCb
     ELSE UNCHANGED <<long_ago, csi_active, xep0319_idle_sent, shown, c2s>>
  /\ UNCHANGED <<link, csi_available, srv_csi>>

\* more than k_csi_idle_seconds without a key
TimePasses ==
  /\ ~user_away \/ ~long_ago
  /\ user_away' = TRUE /\ long_ago' = TRUE
  /\ UNCHANGED <<link, csi_available, csi_active, xep0319_idle_sent, c2s, srv_csi, shown>>

\* the same while the user types where nothing notices
TimeSlips ==
  /\ ~user_away /\ ~long_ago
  /\ IF link = "up" THEN ~csi_available ELSE TypesOffline
  /\ long_ago' = TRUE
  /\ UNCHANGED <<link, csi_available, csi_active, xep0319_idle_sent, user_away, c2s, srv_csi,
                 shown>>

\* the hooks go with the stream (account::disconnect_impl)
LinkLost ==
  /\ link = "up"
  /\ link' = "off"
  /\ c2s' = <<>>
  /\ UNCHANGED <<csi_available, csi_active, xep0319_idle_sent, long_ago, user_away, srv_csi,
                 shown>>

\* the server (external)
ServeCSI ==
  /\ link = "up" /\ c2s # <<>>
  /\ srv_csi' = Head(c2s)
  /\ c2s' = Tail(c2s)
  /\ UNCHANGED <<link, csi_available, csi_active, xep0319_idle_sent, long_ago, user_away,
                 shown>>

Init ==
  /\ link = "off"
  /\ csi_available = TRUE /\ csi_active = TRUE /\ xep0319_idle_sent = FALSE
  /\ long_ago = TRUE          \* last_activity is 0
  /\ user_away = FALSE
  /\ c2s = <<>> /\ srv_csi = "active" /\ shown = "offline"

\* there is nothing to resume at first
Next == \/ \E kind \in Kinds, csi \in CSI :
             (shown = "offline" => kind = "fresh") /\ Setup(kind, csi)
        \/ IdleTimer \/ Key \/ TimePasses \/ TimeSlips \/ LinkLost \/ ServeCSI

Spec == Init /\ [][Next]_vars

-----------------------------------------------------------------------------
\* callbacks.inl: "When going idle, broadcast presence": after the timer has run for a
\* user who is away, contacts see it.
IdleIsAnnounced == [][IdleTimer => shown' = "idle"]_vars

=============================================================================
