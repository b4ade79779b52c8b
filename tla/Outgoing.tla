------------------------------ MODULE Outgoing ------------------------------
(***************************************************************************)
(* What the user sends in one conversation, a contact's or a room's: which *)
(* encryption it gets, what is queued, probed or uploaded first, and what  *)
(* goes out when these answer.                                             *)
(*                                                                         *)
(* A number stands for what was entered, in the order it was entered.      *)
(***************************************************************************)
EXTENDS Naturals, Sequences, FiniteSets, SequencesExt

CONSTANTS
  Kinds,        \* subset of {"PM", "MUC"}
  MaxTexts      \* bound: what is entered

VARIABLES
  kind,
  able,     \* OMEMO can encrypt to the contact, or the room is ready for it and it can
  keys,     \* PGP: "none" set for the conversation, keys that gpg "uses" or "fails" with
  linked,   \* account.connected()
  texts,    \* what was entered: how it was to be sent, its form
  chat,     \* the channel, a record; see Channel
  wire,     \* what was sent
  gone      \* history: refused with an error, sent without a stream or closed with the buffer

vars == <<kind, able, keys, linked, texts, chat, wire, gone>>

\* a text, a text that begins with https: or holds an address, the address of an uploaded
\* file, a BoB image, /msg
Forms == {"text", "url", "file", "image", "msg"}

\* omemo.enabled, pgp.enabled, pending_omemo_messages; the header probes, previews and
\* uploads under way.  (transport is the mode of the last message, for the bar to show.)
Channel ==
  [open |-> TRUE, omemo |-> FALSE, pgp |-> FALSE, queue |-> <<>>,
   probes |-> {}, previews |-> {}, uploads |-> {}]

-----------------------------------------------------------------------------
\* Operators named ...Mutant are slips the properties must notice; no action uses them.

\* what an action changes step by step
Now == [able |-> able, chat |-> chat, wire |-> wire, gone |-> gone]
Become(s) == able' = s.able /\ chat' = s.chat /\ wire' = s.wire /\ gone' = s.gone

\* what the user is told by the bar that is in force
Mode(c) == IF c.omemo THEN "omemo" ELSE IF c.pgp THEN "pgp" ELSE "plain"

HowMutant(s) ==         \* what cannot be encrypted is sent all the same
  CASE s.chat.omemo -> IF s.able THEN "omemo" ELSE "plain"
    [] ~ s.chat.omemo /\ s.chat.pgp /\ keys # "none" -> IF keys = "uses" THEN "pgp" ELSE "failed"
    [] OTHER -> "plain"

\* send_message: how a text would be sent, and whether it would
How(s) ==
  CASE s.chat.omemo ->
         IF s.able THEN "omemo" ELSE IF kind = "PM" THEN "queued" ELSE "refused"
    [] ~ s.chat.omemo /\ s.chat.pgp /\ keys # "none" -> IF keys = "uses" THEN "pgp" ELSE "failed"
    [] OTHER -> "plain"

\* connection.send, which does nothing without a stream
Put(s, n, what, how) ==
  IF linked THEN [s EXCEPT !.wire = Append(@, [of |-> n, what |-> what, how |-> how])]
  ELSE IF what = "preview" THEN s ELSE [s EXCEPT !.gone = @ \union {n}]

\* the last part of send_message: sent, and previews of its addresses asked for
Deliver(s, n, how) ==
  LET asks == how = "plain" /\ texts'[n].form = "url"
      t == Put(s, n, "text", how)
  IN  [t EXCEPT !.chat.previews = IF asks THEN @ \union {n} ELSE @]

Refuse(s, n) == [s EXCEPT !.gone = @ \union {n}]

\* a text that cannot be encrypted to PGP switches every encryption off
Failed(s) == [s EXCEPT !.chat = [@ EXCEPT !.omemo = FALSE, !.pgp = FALSE]]

Send(s, n, skip_probe) ==
  LET how == How(s)
  IN  CASE how = "refused" -> Refuse(s, n)
        [] how = "queued" -> [s EXCEPT !.chat.queue = Append(@, n)]
        [] how = "failed" -> Refuse(Failed(s), n)
        [] how = "plain" /\ ~ skip_probe /\ texts'[n].form = "url" ->
             [s EXCEPT !.chat.probes = @ \union {n}]
        [] OTHER -> Deliver(s, n, how)

\* send_message with a file: where a text would be refused or queued, it goes out plain
Share(s, n) == Put(s, n, "file", IF s.chat.omemo /\ s.able THEN "omemo" ELSE "plain")

\* The queue sent over a stream that is up.  Sending a text changes none of what How reads, so
\* that all are sent in one way.
SendAll(s) ==
  LET q == s.chat.queue
  IN  [s EXCEPT
        !.wire = @ \o [i \in DOMAIN q |-> [of |-> q[i], what |-> "text", how |-> How(s)]],
        !.chat.previews = @ \union {n \in ToSet(q) : How(s) = "plain" /\ texts'[n].form = "url"}]

FlushMutant(s) ==       \* what is sent stays in the queue
  IF How(s) # "omemo" THEN s ELSE SendAll(s)

\* flush_pending_omemo_messages: while sending fails the text is put back
Flush(s) ==
  LET some == kind = "PM" /\ s.chat.queue # <<>>
  IN  CASE some /\ How(s) = "failed" -> Failed(s)
        [] some /\ How(s) \in {"omemo", "pgp", "plain"} ->
             [SendAll(s) EXCEPT !.chat.queue = <<>>]
        [] OTHER -> s

-----------------------------------------------------------------------------
Entered(form) ==
  /\ chat.open /\ linked /\ Len(texts) < MaxTexts
  /\ texts' = Append(texts, [want |-> Mode(chat), form |-> form, switched |-> FALSE])

\* input__data and /me
Enter ==
  /\ \E form \in {"text", "url"} : Entered(form)
  /\ Become(Send(Now, Len(texts'), FALSE))
  /\ UNCHANGED <<kind, keys, linked>>

\* /msg knows no encryption
Msg ==
  /\ Entered("msg")
  /\ Become(Put(Now, Len(texts'), "text", "plain"))
  /\ UNCHANGED <<kind, keys, linked>>

\* send_bob_image
Image ==
  /\ Entered("image")
  /\ LET n == Len(texts')
     IN  Become(IF chat.omemo THEN Refuse(Now, n)
                ELSE Put(Now, n, "file", "plain"))
  /\ UNCHANGED <<kind, keys, linked>>

\* /upload: the file is sealed if OMEMO is on when the slot comes
Upload ==
  /\ Entered("file")
  /\ chat' = [chat EXCEPT !.uploads = @ \union {[of |-> Len(texts'), sealed |-> chat.omemo]}]
  /\ UNCHANGED <<kind, able, keys, linked, wire, gone>>

\* upload_fd_cb, if the channel is there
Uploaded(u) ==
  /\ Become(IF chat.open THEN Share([Now EXCEPT !.chat.uploads = @ \ {u}], u.of)
            ELSE Refuse([Now EXCEPT !.chat.uploads = @ \ {u}], u.of))
  /\ UNCHANGED <<kind, keys, linked, texts>>

\* the callback of a header probe: an image or video is shared as a file, or sent as it is
Probed(n) ==
  /\ chat.open /\ UNCHANGED texts
  /\ LET s == [Now EXCEPT !.chat.probes = @ \ {n}]
     IN  \/ Become(Share(s, n))
         \/ Become(Send(s, n, TRUE))
  /\ UNCHANGED <<kind, keys, linked>>

\* the callback of send_link_preview
Previewed(n) ==
  /\ chat.open
  /\ \E found \in BOOLEAN :
       LET s == [Now EXCEPT !.chat.previews = @ \ {n}]
       IN  Become(IF found THEN Put(s, n, "preview", "plain") ELSE s)
  /\ UNCHANGED <<kind, keys, linked, texts>>

-----------------------------------------------------------------------------
\* what was entered while OMEMO was on, and not yet sent, when the user turns it off
Switched == [n \in DOMAIN texts |-> [texts[n] EXCEPT !.switched = @ \/ texts[n].want = "omemo"]]

\* /plain, /pgp
TurnOff ==
  /\ chat.open /\ texts' = Switched
  /\ \E mode \in {"plain", "pgp"} :
       chat' = [chat EXCEPT !.omemo = FALSE, !.pgp = (mode = "pgp")]
  /\ UNCHANGED <<kind, able, keys, linked, wire, gone>>

\* /omemo, refused in a room that is not ready
TurnOn ==
  /\ chat.open /\ (kind = "MUC" => able)
  /\ chat' = [chat EXCEPT !.omemo = TRUE, !.pgp = FALSE]
  /\ UNCHANGED <<kind, able, keys, linked, texts, wire, gone>>

\* message_handler, of an encrypted message of the other: its encryption is turned on.
\* A contact's first OMEMO message makes the session, and flushes nothing.
Received(how) ==
  /\ linked /\ chat.open
  /\ chat' = CASE how = "omemo" -> [chat EXCEPT !.omemo = TRUE]
               [] how = "pgp" -> [chat EXCEPT !.pgp = @ \/ kind = "PM"]
  /\ able' = (able \/ (how = "omemo" /\ kind = "PM"))
  /\ UNCHANGED <<kind, keys, linked, texts, wire, gone>>

\* a bundle from which a session is built, after which the queue is flushed if OMEMO is on
Bundle ==
  /\ linked /\ chat.open /\ UNCHANGED texts
  /\ LET s == [Now EXCEPT !.able = TRUE]
     IN  Become(IF chat.omemo THEN Flush(s) ELSE s)
  /\ UNCHANGED <<kind, keys, linked>>

\* a device list with which a session exists: the queue is flushed, whatever is on
Devices ==
  /\ linked /\ chat.open /\ able
  /\ UNCHANGED texts
  /\ Become(Flush(Now))
  /\ UNCHANGED <<kind, keys, linked>>

\* sessions end, rooms change; keys are set, and gpg comes to fail
Change ==
  /\ able' \in (IF kind = "PM" THEN {able, FALSE} ELSE BOOLEAN)
  /\ keys' \in {"none", "uses", "fails"}
  /\ UNCHANGED <<kind, linked, texts, chat, wire, gone>>

Link == linked' = ~ linked /\ UNCHANGED <<kind, able, keys, texts, chat, wire, gone>>

\* the buffer is closed with the channel, and perhaps opened again.  Uploads know the channel
\* by its name.
Close ==
  /\ chat.open
  /\ gone' = gone \union ToSet(chat.queue) \union chat.probes
  /\ \E again \in BOOLEAN :
       chat' = [Channel EXCEPT !.open = again, !.uploads = chat.uploads]
  /\ UNCHANGED <<kind, able, keys, linked, texts, wire>>

-----------------------------------------------------------------------------
Init ==
  /\ kind \in Kinds /\ able \in BOOLEAN /\ keys \in {"none", "uses"} /\ linked = TRUE
  /\ texts = <<>> /\ chat = Channel /\ wire = <<>> /\ gone = {}

Next ==
  \/ Enter \/ Msg \/ Image \/ Upload \/ TurnOff \/ TurnOn \/ Change \/ Link \/ Close
  \/ Bundle \/ Devices
  \/ \E u \in chat.uploads : Uploaded(u)
  \/ \E n \in chat.probes : Probed(n)
  \/ \E n \in chat.previews : Previewed(n)
  \/ \E how \in {"omemo", "pgp"} : Received(how)

Spec == Init /\ [][Next]_vars

-----------------------------------------------------------------------------
Sent(n) == {k \in DOMAIN wire : wire[k].of = n /\ wire[k].what # "preview"}
Queued(n) == {i \in DOMAIN chat.queue : chat.queue[i] = n}
Held(n) == {u \in chat.uploads : u.of = n} \union ({n} \intersect chat.probes)

\* What is entered is in one place: sent once, queued once, probed, uploaded, or given up with
\* an error or the buffer, through probes that end in another mode and flushes that fail.
TextIsOnce ==
  \A n \in DOMAIN texts :
    Cardinality(Sent(n)) + Cardinality(Queued(n)) + Cardinality(Held(n))
      + Cardinality({n} \intersect gone) = 1

\* A text entered while OMEMO was on goes out unencrypted only if the user has turned OMEMO
\* off: a failure to encrypt queues or refuses it.
NeverDowngraded ==
  \A k \in DOMAIN wire :
    LET t == texts[wire[k].of]
    IN  (wire[k].how # "omemo" /\ wire[k].what = "text" /\ t.form \in {"text", "url"}
          /\ t.want = "omemo") => t.switched

\* A preview tells of what was said in the clear only (or was to be, had there been a stream).
PreviewIsOfPlain ==
  \A k \in DOMAIN wire : wire[k].what = "preview" =>
    \/ wire[k].of \in gone
    \/ \E j \in 1..k : wire[j].of = wire[k].of /\ wire[j].what = "text" /\ wire[j].how = "plain"

-----------------------------------------------------------------------------
(* Not so, and TLC finds it: *)

\* A queued text stays encrypted: the device list flushes the queue in the mode of that moment.
QueuedStaysEncrypted ==
  \A k \in DOMAIN wire : wire[k].how # "plain" \/ texts[wire[k].of].want # "omemo"
                         \/ texts[wire[k].of].form # "text"

\* What is sent in a conversation that OMEMO is on for is encrypted: /msg is not.
MsgIsEncrypted ==
  \A k \in DOMAIN wire : texts[wire[k].of].form = "msg" => texts[wire[k].of].want # "omemo"

\* "This protects the ESFS key/IV XML children from eavesdroppers on the server"
\* (channel.cpp:1475): the message of a file that cannot be encrypted goes out plain.
FileIsSealed ==
  \A k \in DOMAIN wire : (texts[wire[k].of].form = "file" /\ texts[wire[k].of].want = "omemo")
                         => (wire[k].how = "omemo" \/ texts[wire[k].of].switched)

\* Texts are sent in the order they were entered: a probe and a queue are overtaken.
OrderIsKept ==
  \A j, k \in DOMAIN wire : (j < k /\ wire[j].what = "text" /\ wire[k].what = "text")
                            => wire[j].of <= wire[k].of

\* A queue is flushed once there is a session: not when the contact's message made it.
QueueIsFlushed == (chat.open /\ chat.omemo /\ able /\ linked) => chat.queue = <<>>

\* "PGP Error": one text that cannot be encrypted is not the end of encryption.
PgpErrorKeepsPgp == [][(Len(texts') > Len(texts) /\ chat.pgp) => chat'.pgp]_vars

\* A probe finds its channel: its callback has a reference to one that may be closed.
ProbeHasChannel == [][(chat.open /\ ~ chat'.open) => chat.probes = {}]_vars

=============================================================================
