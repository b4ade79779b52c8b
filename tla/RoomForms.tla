----------------------------- MODULE RoomForms -----------------------------
(***************************************************************************)
(* Configuration of a room by its owner and registration with it           *)
(* (XEP-0045 7.10, 10): /create, /roomconfig, /setmodes, /mucregister,     *)
(* /destroy, the queries they track, and the forms they open.  A           *)
(* configuration is the set of flags that are on.                          *)
(***************************************************************************)
EXTENDS Integers, FiniteSets, Bags, FormEditor

CONSTANTS
  Modes,       \* flags of a room
  MaxPending   \* bound: requests in flight when the user adds one

VARIABLES
  up,        \* account::connected
  channel,   \* open; form (last_config_form), diff (pending_setmodes); reserved
  editors,   \* "config", "register"
  pending,   \* bag of requests without an answer, tracked in muc_owner_queries or not
  room       \* at the server: exists, locked, config

vars == <<up, channel, editors, pending, room>>

Configs == SUBSET Modes
NoForm  == {"none"}
NoMode  == <<"none", FALSE>>
Intent(reserved) == <<"reserved", reserved>>

-----------------------------------------------------------------------------
\* Requests

Request(kind, config, mode) == [kind |-> kind, config |-> config, mode |-> mode, tracked |-> TRUE]
Plain(kind) == Request(kind, NoForm, NoMode)

EditorOf(r) ==
  CASE r.kind \in {"config_edit_get", "config_edit_set", "config_edit_cancel"} -> "config"
    [] r.kind \in {"register_get", "register_query", "register_set", "register_cancel"} -> "register"
    [] OTHER -> "none"

Pending == BagToSet(pending)
Room    == BagCardinality(pending) < MaxPending
Send(r) == pending' = pending (+) SetToBag({r})
Swap(r, S) == pending' = (pending (-) SetToBag({r})) (+) SetToBag(S)

\* a request with this editor_id is in muc_owner_queries
Asked(id) == \E r \in Pending : r.tracked /\ EditorOf(r) = id

Change(config, mode) == IF mode[2] THEN config \union {mode[1]} ELSE config \ {mode[1]}

-----------------------------------------------------------------------------
\* The user.  Operators named ...Mutant are slips the properties must notice.

\* /create: joins; muc_reserved_pending says what status 201 will do
Create(reserved) ==
  /\ up /\ Room
  /\ channel' = [channel EXCEPT !.open = TRUE, !.reserved = reserved]
  /\ Send(Request("join", NoForm, Intent(reserved)))
  /\ UNCHANGED <<up, editors, room>>

\* the channel takes its cached form and its diff with it
CloseBuffer ==
  /\ channel.open
  /\ channel' = [channel EXCEPT !.open = FALSE, !.form = NoForm, !.diff = NoMode]
  /\ UNCHANGED <<up, editors, pending, room>>

RoomConfigMutant ==   \* whether a request is pending is not asked
  /\ up /\ channel.open /\ Room
  /\ editors' = Close(editors, {"config"})
  /\ Send(Plain("config_edit_get"))
  /\ UNCHANGED <<up, channel, room>>

RoomConfig ==
  /\ up /\ channel.open /\ Room
  /\ ~Asked("config")
  /\ editors' = Close(editors, {"config"})
  /\ Send(Plain("config_edit_get"))
  /\ UNCHANGED <<up, channel, room>>

\* /mucregister [nick], /mucregister query
MucRegister(query) ==
  /\ up /\ channel.open /\ Room
  /\ ~Asked("register")
  /\ editors' = IF query THEN editors ELSE Close(editors, {"register"})
  /\ Send(Plain(IF query THEN "register_query" ELSE "register_get"))
  /\ UNCHANGED <<up, channel, room>>

\* /setmodes --confirm: into the cached form, which is not replaced, or into the one asked for
SetModes(mode) ==
  /\ up /\ channel.open /\ Room
  /\ IF channel.form # NoForm
       THEN /\ Send(Request("config_set", Change(channel.form, mode), mode))
            /\ UNCHANGED channel
       ELSE /\ Send(Plain("config_get"))
            /\ channel' = [channel EXCEPT !.diff = mode]
  /\ UNCHANGED <<up, editors, room>>

\* /destroy, /affiliation: an answer is only told
Destroy ==
  /\ up /\ channel.open /\ Room
  /\ Send(Plain("destroy"))
  /\ UNCHANGED <<up, channel, editors, room>>

\* In an editor
Fill(config) ==
  /\ TakesInput(editors, "config")
  /\ editors' = Filled(editors, "config", config)
  /\ UNCHANGED <<up, channel, pending, room>>

Submit(id, action) ==
  /\ TakesInput(editors, id) /\ up /\ channel.open /\ Room
  /\ editors' = Submitted(editors, id)
  /\ Send(CASE id = "config" /\ action = "submit"   -> Request("config_edit_set", editors[id].form, NoMode)
            [] id = "config" /\ action = "cancel"   -> Plain("config_edit_cancel")
            [] id = "register" /\ action = "submit" -> Plain("register_set")
            [] id = "register" /\ action = "cancel" -> Plain("register_cancel"))
  /\ UNCHANGED <<up, channel, room>>

CloseEditor(id) ==
  /\ IsOpen(editors, id)
  /\ editors' = Close(editors, {id})
  /\ UNCHANGED <<up, channel, pending, room>>

-----------------------------------------------------------------------------
\* The room does what it is asked when it answers.

Owned(r) ==
  CASE r.kind \in {"config_set", "config_edit_set"} ->
         [room EXCEPT !.config = r.config, !.locked = FALSE]
    [] r.kind = "config_edit_cancel" /\ room.locked -> [room EXCEPT !.exists = FALSE]
    [] r.kind = "destroy" -> [room EXCEPT !.exists = FALSE]
    [] OTHER -> room

\* Another owner
OtherConfigures(config) ==
  /\ room.exists /\ room' = [room EXCEPT !.config = config]
  /\ UNCHANGED <<up, channel, editors, pending>>

\* presence_handler, status 201: an empty submission opens the room, unless it is reserved
Joined(r) ==
  /\ r.kind = "join"
  /\ IF room.exists
       THEN Swap(r, {}) /\ UNCHANGED <<channel, room>>
       ELSE /\ channel' = IF channel.open THEN [channel EXCEPT !.reserved = FALSE] ELSE channel
            /\ Swap(r, IF channel.open /\ channel.reserved THEN {Plain("config_get")} ELSE {})
            /\ room' = [exists |-> TRUE, locked |-> channel.reserved \/ ~channel.open, config |-> {}]
  /\ UNCHANGED <<up, editors>>

\* iq_handler, config_get: the diff that waits for a form goes into this one
ConfigForm(r) ==
  /\ r.kind = "config_get" /\ room.exists
  /\ IF ~channel.open
       THEN Swap(r, {}) /\ UNCHANGED channel
       ELSE LET waits == channel.diff # NoMode
                form == IF waits THEN Change(room.config, channel.diff) ELSE room.config
            IN  /\ channel' = [channel EXCEPT !.form = form, !.diff = NoMode]
                /\ Swap(r, IF waits THEN {Request("config_set", form, channel.diff)} ELSE {})
  /\ UNCHANGED <<up, editors, room>>

\* handle_room_config_editor, handle_muc_registration: the form to fill in
FormToEdit(r) ==
  /\ r.kind \in {"config_edit_get", "register_get"} /\ room.exists
  /\ Swap(r, {})
  /\ editors' = IF channel.open THEN Open(editors, EditorOf(r), room.config) ELSE editors
  /\ UNCHANGED <<up, channel, room>>

\* a result for config_set, or for what an editor sent; registration has no form to forget
Accepted(r) ==
  /\ r.kind \in {"config_set", "config_edit_set", "config_edit_cancel",
                 "register_set", "register_cancel", "destroy", "register_query"}
  /\ room.exists /\ room' = Owned(r)
  /\ Swap(r, {})
  /\ editors' = IF r.kind = "register_query" THEN editors ELSE Close(editors, {EditorOf(r)})
  /\ channel' = IF r.kind \in {"config_set", "config_edit_set", "config_edit_cancel"}
                  THEN [channel EXCEPT !.form = NoForm] ELSE channel
  /\ UNCHANGED up

\* an error
Refused(r) ==
  /\ Swap(r, {})
  /\ editors' = Failed(editors, EditorOf(r))
  /\ UNCHANGED <<up, channel, room>>

\* an answer to a request of before the loss of a stream that was resumed
Untracked(r) ==
  /\ Swap(r, {})
  /\ room' \in {room, Owned(r)}
  /\ UNCHANGED <<up, channel, editors>>

Answer(r) ==
  IF r.tracked \/ r.kind = "join"
    THEN Joined(r) \/ ConfigForm(r) \/ FormToEdit(r) \/ Accepted(r) \/ Refused(r)
    ELSE Untracked(r)

-----------------------------------------------------------------------------
\* disconnect_impl, reset: queries, editors and intents are dropped, not what channels keep.
\* A resumable stream will hear the answers, or send the requests again.

Lose(resumable) ==
  /\ up /\ up' = FALSE
  /\ editors' = NoEditors
  /\ channel' = [channel EXCEPT !.reserved = FALSE]
  /\ IF resumable
       THEN pending' = SetToBag({[r EXCEPT !.tracked = FALSE] : r \in Pending}) /\ UNCHANGED room
       ELSE pending' = EmptyBag /\ room' \in {room} \union {Owned(r) : r \in Pending}

Reconnect == ~up /\ up' = TRUE /\ UNCHANGED <<channel, editors, pending, room>>

-----------------------------------------------------------------------------
Init ==
  /\ up = TRUE
  /\ channel = [open |-> FALSE, form |-> NoForm, diff |-> NoMode, reserved |-> FALSE]
  /\ editors = NoEditors /\ pending = EmptyBag
  /\ room \in [exists : BOOLEAN, locked : {FALSE}, config : {{}}]

User ==
  \/ \E b \in BOOLEAN : Create(b) \/ MucRegister(b)
  \/ CloseBuffer \/ RoomConfig \/ Destroy
  \/ \E mode \in Modes \X BOOLEAN : SetModes(mode)
  \/ \E config \in Configs : Fill(config) \/ OtherConfigures(config)
  \/ \E id \in {"config", "register"} :
       CloseEditor(id) \/ \E action \in {"submit", "cancel"} : Submit(id, action)

Answered == up /\ \E r \in Pending : Answer(r)
Network  == Reconnect \/ \E resumable \in BOOLEAN : Lose(resumable)

Next == User \/ Answered \/ Network

Spec == Init /\ [][Next]_vars

-----------------------------------------------------------------------------
TypeOK ==
  /\ channel.form \in Configs \union {NoForm} /\ room.config \in Configs
  /\ DOMAIN editors \subseteq {"config", "register"}

\* A configuration form is open together with at most one request of its own, which is the
\* one it waits for: what the user sees is neither replaced under his hands nor sent twice.
OneConfigForm ==
  IsOpen(editors, "config") =>
    LET S == {r \in Pending : r.tracked /\ EditorOf(r) = "config"}
    IN  /\ editors["config"].waiting = (S # {})
        /\ \A r \in S : pending[r] = 1 /\ r.kind \in {"config_edit_set", "config_edit_cancel"}
        /\ Cardinality(S) <= 1

\* An editor that waits for the server will hear from it: its request is tracked.
EditorsAreAnswered ==
  \A id \in DOMAIN editors : IsWaiting(editors, id) =>
    \E r \in Pending : /\ r.tracked /\ EditorOf(r) = id
                      /\ r.kind \in {"config_edit_set", "config_edit_cancel", "register_set", "register_cancel"}

-----------------------------------------------------------------------------
\* Statements of comments that do not hold.

\* command__setmodes: the form "preserves all server-side values": a submission changes the
\* flag that was confirmed and no other.  The cached form may be older than a change of
\* another owner, or than the one that was submitted from it a moment ago.
OtherFlagsArePreserved ==
  [][\A r \in Pending : r.kind = "config_set" /\ r \notin BagToSet(pending') /\ up' /\ room.exists /\ room'.exists
       => room'.config \in {room.config, Change(room.config, r.mode)}]_vars

\* command__setmodes: "the diff will be applied automatically": none is replaced by the next.
DiffIsApplied ==
  [][channel.diff # NoMode /\ channel'.open => channel'.diff \in {channel.diff, NoMode}]_vars

\* command__create: "With --reserved the empty submit is suppressed".  The intent is
\* forgotten with a stream that is resumed, the join is not (and with a second /create).
ReservedStaysLocked ==
  [][~room.exists /\ room'.exists /\ channel.open /\ Request("join", NoForm, Intent(FALSE)) \notin Pending
       => room'.locked]_vars

=============================================================================
