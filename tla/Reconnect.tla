----------------------------- MODULE Reconnect -----------------------------
(***************************************************************************)
(* When an account is connected: account::connect and disconnect_impl, the *)
(* timer that runs the connection or reconnects, and libstrophe's          *)
(* connection object (external).  disconnect_impl and connect call         *)
(* libstrophe, which may call conn_handler back before it returns, and     *)
(* conn_handler calls disconnect_impl: they are functions of the state, so *)
(* that one can be applied inside the other.                               *)
(***************************************************************************)
EXTENDS Integers

CONSTANTS
  BaseDelay, MaxDelay,  \* exponential backoff in ticks: 5 and 120 seconds in the code
  SyncFailures          \* BOOLEAN: connect_client may fail at once (no route, no address)

ASSUME ReconnectConstants ==
  /\ BaseDelay \in Nat \ {0} /\ MaxDelay \in Nat /\ BaseDelay <= MaxDelay
  /\ SyncFailures \in BOOLEAN

VARIABLES
  acc,     \* the account, a record
  wanted   \* history: the user's latest command was to connect

vars == <<acc, wanted>>

\* reconnect_start is kept relative to the clock: due < 0 means it has passed
None == -2
Account == [conn : {"idle", "connecting", "connected", "ending"},  \* ending: </stream> sent
            is_connected : BOOLEAN,
            disconnected : BOOLEAN,
            due : {None} \union (-1)..MaxDelay,
            reconnect_delay : 0..MaxDelay]

-----------------------------------------------------------------------------
\* Operators named ...Mutant are slips the properties must notice; no action uses them.

\* the exponential backoff of disconnect_impl
NextDelay(d) == IF d = 0 THEN BaseDelay ELSE IF 2 * d > MaxDelay THEN MaxDelay ELSE 2 * d

Backoff(a, delay, due) == [a EXCEPT !.reconnect_delay = delay, !.due = due]

\* the end of disconnect_impl
Schedule(a, reconnect, immediate) ==
  CASE reconnect /\ immediate  -> Backoff(a, 0, -1)
    [] reconnect /\ ~immediate -> Backoff(a, NextDelay(a.reconnect_delay),
                                             NextDelay(a.reconnect_delay))
    [] OTHER                   -> Backoff(a, 0, None)

\* takes every disconnection for a manual one
DisconnectedMutant(a, reconnect, immediate) ==
  [Schedule(a, reconnect, immediate) EXCEPT !.is_connected = FALSE, !.disconnected = TRUE]

\* disconnect_impl when libstrophe has let go of the connection already
Disconnected(a, reconnect, immediate) ==
  [Schedule(a, reconnect, immediate) EXCEPT !.is_connected = FALSE, !.disconnected = ~reconnect]

\* libstrophe ends a connection and calls conn_handler(disconnect or fail)
Ended(a) == Disconnected([a EXCEPT !.conn = "idle"], TRUE, FALSE)

\* xmpp_disconnect ends an unfinished connection at once; an authenticated one is left
\* to its server's answer
XmppDisconnect(a) ==
  CASE a.conn = "connecting" -> Ended(a)
    [] a.conn = "connected"  -> [a EXCEPT !.conn = "ending"]
    [] OTHER                 -> a

\* account::reset
Reset(a) == [XmppDisconnect(a) EXCEPT !.is_connected = FALSE]

\* resets at the end: what conn_handler has scheduled meanwhile stands
DisconnectImplMutant(a, reconnect, immediate) == Reset(Disconnected(a, reconnect, immediate))

DisconnectImpl(a, reconnect, immediate) == Disconnected(Reset(a), reconnect, immediate)

\* m_conn.create: releasing the old connection object ends what it still carries
Create(a) == IF a.conn = "idle" THEN a ELSE Ended(a)

\* takes the attempt for a success
ConnectMutant(a, ok) ==
  [Create(Reset(a)) EXCEPT !.conn = IF ok THEN "connecting" ELSE "idle", !.is_connected = TRUE]

\* account::connect; ok: connect_client does not fail at once
Connect(a, ok) ==
  [Create(Reset(a)) EXCEPT !.conn = IF ok THEN "connecting" ELSE "idle", !.is_connected = ok]

Attempts == IF SyncFailures THEN BOOLEAN ELSE {TRUE}

-----------------------------------------------------------------------------
\* /account connect, also when connected already; autoconnect
UserConnect ==
  /\ \E ok \in Attempts : acc' = Connect(acc, ok)
  /\ wanted' = TRUE

\* /account disconnect, or the account's buffer is closed
UserDisconnect ==
  /\ acc' = DisconnectImpl(acc, FALSE, FALSE)
  /\ wanted' = FALSE

\* timer_cb: events of a connection are processed only while is_connected
Process(from) == acc.is_connected /\ acc.conn \in from /\ wanted' = wanted

ConnectEvent ==
  /\ Process({"connecting"})
  /\ acc' = [acc EXCEPT !.conn = "connected", !.disconnected = FALSE]

\* conn_handler(disconnect or fail)
LostEvent ==
  /\ Process({"connecting", "connected", "ending"})
  /\ acc' = Ended(acc)

\* conn_handler(disconnect) with a stream error that costs an extension
\* (disconnect_reconnect_immediate)
DowngradeEvent ==
  /\ Process({"connected"})
  /\ acc' = DisconnectImpl([acc EXCEPT !.conn = "idle"], TRUE, TRUE)

\* sm_close_stream_handled_count_too_high
CloseStream ==
  /\ Process({"connected"})
  /\ acc' = XmppDisconnect(acc)

\* timer_cb: the time to reconnect has passed
Retry ==
  /\ ~acc.is_connected \/ acc.conn = "idle"
  /\ ~acc.disconnected
  /\ acc.due = -1
  /\ \E ok \in Attempts : acc' = Connect([acc EXCEPT !.due = None], ok)
  /\ wanted' = wanted

Tick ==
  /\ acc.due >= 0
  /\ acc' = [acc EXCEPT !.due = @ - 1]
  /\ wanted' = wanted

Init ==
  /\ acc = [conn |-> "idle", is_connected |-> FALSE, disconnected |-> FALSE,
            due |-> None, reconnect_delay |-> 0]
  /\ wanted = FALSE

Next == \/ UserConnect \/ UserDisconnect
        \/ ConnectEvent \/ LostEvent \/ DowngradeEvent \/ CloseStream
        \/ Retry \/ Tick

Spec == Init /\ [][Next]_vars

-----------------------------------------------------------------------------
TypeOK == acc \in Account /\ wanted \in BOOLEAN

\* A manual disconnect is final, even when libstrophe calls conn_handler, which
\* schedules a reconnection, in the middle of it.
StaysDown == ~wanted => ~acc.is_connected /\ acc.due = None

\* timer_cb runs a connection that is being made or up, and nothing else.
Attended == /\ acc.conn \in {"connecting", "connected"} => acc.is_connected
            /\ acc.is_connected => acc.conn # "idle"

\* account.cpp: "a failed connect() does not cause an immediate re-fire [...] The next
\* disconnect() call will set a new (longer) reconnect_start": a reconnection that fails
\* at once is followed by another.
RetryGoesOn == [][Retry => acc'.is_connected \/ acc'.due # None]_vars

\* The timer runs and libstrophe reports, in the end, what became of a stream it closes.
Fairness == WF_vars(Retry) /\ WF_vars(Tick) /\ WF_vars(acc.conn = "ending" /\ LostEvent)
LiveSpec == Spec /\ Fairness

\* A lost connection is tried again until the user gives up, through any number of
\* losses during the attempts, unless an attempt fails before it has begun.
LossIsRetried == wanted ~> \/ acc.conn \in {"connecting", "connected"}
                           \/ ~wanted
                           \/ acc.conn = "idle" /\ acc.due = None

=============================================================================
