----------------------------- MODULE ChatStates -----------------------------
(***************************************************************************)
(* Chat states (XEP-0085) of one conversation, a contact's or a room's:    *)
(* what a key typed and a change of buffer tell the others, which address  *)
(* they are told at, from whom states are taken to be understood, and who  *)
(* is shown typing.  look.send_chat_states is on.                          *)
(***************************************************************************)
EXTENDS FiniteSets

CONSTANTS
  Kinds,      \* subset of {"PM", "MUC"}
  Peers       \* resources of the contact, or occupants of the room

VARIABLES
  kind,
  linked,         \* account.connected()
  shut,           \* the buffer is not there
  viewed,         \* the buffer is the current one, and prev_buffer of the switch
  self_known,     \* account.users has the account's own full JID
  supported,      \* chat_state_supported, by address
  last_sent,      \* last_sent_chat_state
  told,           \* history: the last state sent to the address
  said,           \* history: the last thing each peer said, "composing" or other
  typing          \* whom the bar shows typing

vars == <<kind, linked, shut, viewed, self_known, supported, last_sent, told, said, typing>>

\* the account's own JID (bare or full, it makes no difference here), the conversation's
Addresses == {"own", "chat"}
Sibling == "sibling"        \* another device of the account, whose carbons are received
Speakers == Peers \union {Sibling}
States == {"active", "composing", "paused", "inactive", "gone"}

-----------------------------------------------------------------------------
\* Operators named ...Mutant are slips the properties must notice; no action uses them.

\* user ? user->id : id, where user is that of the account's own full JID
Target == IF self_known THEN "own" ELSE "chat"

\* is_chat_state_supported
IsSupported(a) == kind = "PM" /\ a \in supported

\* the effect of one state on [last |-> last_sent, told |-> told]
Told(c, a, s) == [c EXCEPT !.told[a] = s]
Chat == [last |-> last_sent, told |-> told]

\* send_active, send_paused, send_inactive
SendState(c, a, s) ==
  IF ~ IsSupported(a) \/ c.last[a] = s THEN c
  ELSE Told([c EXCEPT !.last[a] = s], a, s)

\* send_gone: what was sent is forgotten, so that the test for "gone" never holds
SendGone(c, a) ==
  IF ~ IsSupported(a) THEN c ELSE Told([c EXCEPT !.last[a] = "none"], a, "gone")

SendTypingMutant(c, a) == Told(SendState(c, a, "paused"), a, "composing")

\* send_typing: the new entry has ts = 0, so self_typing_cb, called at once, sends "paused"
\* and erases it.  "composing" follows whether or not the other side supports it.
SendTyping(c, a) ==
  LET p == SendState(c, a, "paused")
  IN  Told([p EXCEPT !.last[a] = "composing"], a, "composing")

Become(c) == last_sent' = c.last /\ told' = c.told

\* set_typing_state: the bare JID of a contact, the nick in a room
Label(p) == IF p = Sibling THEN "own" ELSE IF kind = "MUC" THEN p ELSE "contact"

-----------------------------------------------------------------------------
\* input__typing, for each key typed
Key ==
  /\ viewed /\ linked
  /\ Become(SendTyping(Chat, Target))
  /\ UNCHANGED <<kind, linked, shut, viewed, self_known, supported, said, typing>>

\* buffer__switch_cb, of the buffer left
Leave ==
  /\ viewed /\ viewed' = FALSE
  /\ IF linked THEN Become(SendState(Chat, Target, "inactive")) ELSE UNCHANGED <<last_sent, told>>
  /\ UNCHANGED <<kind, linked, shut, self_known, supported, said, typing>>

\* buffer__switch_cb, of the buffer entered
Enter ==
  /\ ~ shut /\ ~ viewed /\ viewed' = TRUE
  /\ IF linked THEN Become(SendState(Chat, Target, "active")) ELSE UNCHANGED <<last_sent, told>>
  /\ UNCHANGED <<kind, linked, shut, self_known, supported, said, typing>>

\* buffer__close_cb and ~channel: typing_reset_buffer
Close ==
  /\ ~ shut /\ shut' = TRUE /\ viewed' = FALSE
  /\ told' = IF linked /\ kind = "PM" THEN SendGone(Chat, Target).told ELSE told
  /\ last_sent' = [a \in Addresses |-> "none"]
  /\ supported' = {} /\ typing' = {}
  /\ UNCHANGED <<kind, linked, self_known, said>>

\* channel::channel: its send_active finds chat_state_supported empty
Open ==
  /\ shut /\ shut' = FALSE
  /\ Become(SendState(Chat, Target, "active"))
  /\ UNCHANGED <<kind, linked, viewed, self_known, supported, said, typing>>

\* message_handler, a message without a body that has a state; a sibling's comes as a carbon
StateArrives(p, s) ==
  /\ linked
  /\ said' = [said EXCEPT ![p] = s]
  /\ IF shut THEN UNCHANGED <<supported, typing>>
     ELSE /\ supported' = supported \union {IF p = Sibling THEN "own" ELSE "chat"}
          /\ typing' = IF s = "composing" THEN typing \union {Label(p)}
                       ELSE typing \ {Label(p)}
  /\ UNCHANGED <<kind, linked, shut, viewed, self_known, last_sent, told>>

\* message_handler, a message that has a body: only a live one of another ends the typing
Clears(p, delayed) == ~ delayed /\ p # Sibling
BodyArrives(p, delayed) ==
  /\ linked /\ ~ shut
  /\ said' = IF delayed THEN said ELSE [said EXCEPT ![p] = "active"]
  /\ typing' = IF Clears(p, delayed) THEN typing \ {Label(p)} ELSE typing
  /\ UNCHANGED <<kind, linked, shut, viewed, self_known, supported, last_sent, told>>

\* the typing plugin forgets who has been typing for some time
Expire(l) ==
  /\ typing' = typing \ {l}
  /\ UNCHANGED <<kind, linked, shut, viewed, self_known, supported, last_sent, told, said>>

\* presence_handler creates the user of the account's own presence
OwnPresence ==
  /\ linked /\ self_known' = TRUE
  /\ UNCHANGED <<kind, linked, shut, viewed, supported, last_sent, told, said, typing>>

\* the connection, which leaves channels and users as they are
Link ==
  /\ linked' = ~ linked
  /\ UNCHANGED <<kind, shut, viewed, self_known, supported, last_sent, told, said, typing>>

-----------------------------------------------------------------------------
Init ==
  /\ kind \in Kinds
  /\ linked = TRUE /\ shut = FALSE /\ viewed = FALSE /\ self_known = FALSE
  /\ supported = {} /\ typing = {}
  /\ last_sent = [a \in Addresses |-> "none"]
  /\ told = [a \in Addresses |-> "none"]
  /\ said = [p \in Speakers |-> "active"]

Next ==
  \/ Key \/ Leave \/ Enter \/ Close \/ Open \/ OwnPresence \/ Link
  \/ \E p \in Speakers : \E s \in {"composing", "active"} : StateArrives(p, s)
  \/ \E p \in Speakers, delayed \in BOOLEAN : BodyArrives(p, delayed)
  \/ \E l \in typing : Expire(l)

Spec == Init /\ [][Next]_vars

-----------------------------------------------------------------------------
\* A state held back because it was sent already is what its address was told last: so
\* whoever leaves, returns or pauses is not left shown as typing (last_sent_chat_state).
ToldIsRemembered == \A a \in Addresses : last_sent[a] \in {"none", told[a]}

\* A contact or an occupant is shown typing only while the last word of theirs was
\* "composing": set_typing_state has one name for all resources of a contact.
TypingIsSaid ==
  \A l \in typing \ {"own"} : \E p \in Peers : Label(p) = l /\ said[p] = "composing"

-----------------------------------------------------------------------------
(* Not so, and TLC finds it: *)

\* "MUST NOT send chat state notifications to MUC rooms" (channel.cpp:607): a key typed in a
\* room is told, for send_typing does not ask is_chat_state_supported.
RoomIsNotTold == kind = "MUC" => told["chat"] = "none"

\* What is told in a conversation is told to the other: once the own presence has been
\* seen, user::search gives the account's own user and its JID is the address.
ContactIsTold == told["own"] = "none"

\* A sibling is shown typing only while it is: its message is a carbon of the account's own,
\* which ends no typing.
SiblingIsSaid == "own" \in typing => said[Sibling] = "composing"

\* Who views a chat and supported states is known to be active: a buffer entered while the
\* connection is down is not told of afterwards.
ViewedIsActive == (linked /\ viewed /\ IsSupported(Target)) => told[Target] # "inactive"

=============================================================================
