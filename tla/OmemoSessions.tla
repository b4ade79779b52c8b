--------------------------- MODULE OmemoSessions ---------------------------
(***************************************************************************)
(* OMEMO with one contact (XEP-0384): its device list and bundles, which   *)
(* are asked for and pushed, the sessions made from them or by the         *)
(* contact's own key exchanges, trust before verification, the queue of    *)
(* messages that wait for a session, the recovery of a session that fails, *)
(* and a room the contact is in.  An identity key is its version: a device *)
(* that is reinstalled has the next one.  Our other devices are left out.  *)
(* The handlers call each other, so each is a function of the account.     *)
(***************************************************************************)
EXTENDS Naturals, Sequences, FiniteSetsExt, SequencesExt

CONSTANTS
  Devices,       \* of the contact
  EchoesErrors,  \* a server repeats the <pubsub/> of a request it refuses
  OwnBundle,     \* our own bundle is cached: what is encrypted is for us, too
  MaxKey,        \* bound: identity keys of a device
  MaxQueue,      \* bound: messages waiting for a session
  MaxEvents      \* bound: messages, commands, publications, losses and refusals, in all

VARIABLES
  peer,    \* the contact: the devices it announces, its identity keys
  acct,    \* the account, a record
  s2c,     \* what the server has sent
  events   \* bounded counter

vars == <<peer, acct, s2c, events>>

ASSUME OmemoConstants ==
  /\ IsFiniteSet(Devices) /\ {EchoesErrors, OwnBundle} \subseteq BOOLEAN
  /\ MaxKey \in Nat \ {0} /\ MaxQueue \in Nat /\ MaxEvents \in Nat

Trusts == {"none", "BLIND", "UNDECIDED", "VERIFIED", "UNTRUSTED"}
Encryptable == {"BLIND", "VERIFIED"}

-----------------------------------------------------------------------------
\* Operators named ...Mutant are slips the properties must notice; no action uses them.

\* weechat::xmpp::omemo, with 0 for a key that is not stored.  seen is history: whether the
\* server said that there is no list, whose bundle it does not have, which devices a key
\* transport is owed, whether a message was sent that no device of the contact can read, and
\* whether the published bundle has a prekey that was used
Empty ==
  [up |-> FALSE, sm |-> FALSE, archive |-> "idle", out |-> <<>>,
   list |-> {}, bundle |-> [d \in Devices |-> 0], sess |-> [d \in Devices |-> 0],
   ident |-> [d \in Devices |-> 0], trust |-> [d \in Devices |-> "none"],
   fetch |-> {}, missing |-> FALSE, kt |-> {}, postponed |-> {}, live |-> {},
   attempted |-> {}, failed |-> {}, traffic |-> FALSE, beaten |-> {}, replied |-> {},
   catchup |-> FALSE, republish |-> FALSE,
   chat |-> FALSE, queue |-> 0, room |-> [on |-> FALSE, member |-> FALSE, wait |-> {}],
   seen |-> [absent |-> FALSE, refused |-> {}, owed |-> {}, unread |-> FALSE, stale |-> FALSE]]

\* connection::send: without a stream the resumable session keeps it for later
Send(a, x) == IF a.up \/ a.sm THEN [a EXCEPT !.out = Append(@, x)] ELSE a

\* omemo_muc_occupant_in_eligible_room
Eligible(a) == a.room.on /\ a.room.member

RequestList(a) ==
  IF a.missing THEN a ELSE Send([a EXCEPT !.missing = TRUE], [what |-> "list"])

RequestBundle(a, d) ==
  IF d \in a.fetch \/ ~(a.traffic \/ Eligible(a)) THEN a
  ELSE Send([a EXCEPT !.fetch = @ \union {d}, !.seen.refused = @ \ {d},
                      !.room.wait = IF Eligible(a) THEN @ \union {d} ELSE @],
            [what |-> "bundle", d |-> d])
RequestBundles(a, ds) == FoldSet(LAMBDA d, b : RequestBundle(b, d), a, ds)

Sessionless(a) == {d \in a.list : a.sess[d] = 0}

\* bootstrap_muc_peer
Bootstrap(a) == LET b == RequestList(a) IN RequestBundles(b, Sessionless(b))

-----------------------------------------------------------------------------
\* Trust before verification, and what libsignal calls back for

\* get_default_trust
DefaultTrust(a) ==
  IF \E d \in Devices : a.trust[d] \in {"VERIFIED", "UNTRUSTED"} THEN "UNDECIDED" ELSE "BLIND"

\* identity_is_trusted, when the key is not the stored one
JudgedMutant(a, d, v) ==    \* leaves the session
  IF a.ident[d] \in {0, v} THEN a
  ELSE [a EXCEPT !.ident[d] = v, !.trust[d] = DefaultTrust(a)]
Judged(a, d, v) ==
  IF a.ident[d] \in {0, v} THEN a
  ELSE [a EXCEPT !.sess[d] = 0, !.ident[d] = v,
                 !.trust[d] = IF @ \in {"VERIFIED", "UNTRUSTED"} THEN "UNDECIDED"
                              ELSE DefaultTrust(a)]

\* identity_is_trusted's answer, once that is done
IsTrusted(a, d) ==
  IF a.ident[d] = 0 THEN DefaultTrust(a) \in Encryptable
  ELSE a.trust[d] \in Encryptable \union {"none"}

\* libsignal stores a session and calls identity_save
NewSession(a, d, v) ==
  [a EXCEPT !.sess[d] = v, !.ident[d] = v,
            !.trust[d] = IF a.ident[d] = 0 THEN DefaultTrust(a) ELSE @]

\* establish_session_from_bundle, for a device without one
Establish(a, d) ==
  LET j == Judged(a, d, a.bundle[d])
  IN  IF a.bundle[d] = 0 THEN a
      ELSE IF IsTrusted(j, d) THEN NewSession(j, d, a.bundle[d]) ELSE j

\* can_encrypt_to_device
CanEncrypt(a, d) == a.trust[d] \in Encryptable /\ d \in a.list

\* No key transport is waited for that there is no session for: the recovery ends with a
\* bundle that cannot be used, another bundle starts a session of its own.
GivenUp(a, d) ==
  IF a.sess[d] # 0 /\ d \in a.live \union a.postponed THEN a
  ELSE [a EXCEPT !.seen.owed = @ \ {d}]

-----------------------------------------------------------------------------
\* What is sent

\* send_key_transport; to the room when there is no chat with the contact
SendKeyTransport(a, d) ==
  LET asked == IF ~a.chat /\ a.room.member THEN a.list ELSE {d}
      to == {x \in asked : CanEncrypt(a, x) /\ a.sess[x] # 0}
      never == IF CanEncrypt(a, d) /\ d \notin a.failed THEN {} ELSE {d}
  IN  [a EXCEPT !.seen.owed = @ \ (to \union never)]
SendKeyTransports(a, ds) ==
  [a EXCEPT !.seen.owed = {o \in @ : \A d \in ds : o \in SendKeyTransport(a, d).seen.owed}]

\* add_axolotl_keys and encrypt_for_recipient; corrupt: the devices libsignal fails for
AddKey(e, d, corrupt) ==
  LET b == IF e.a.sess[d] # 0 THEN e.a ELSE Establish(e.a, d)
      again(c) == [e EXCEPT !.a = RequestBundle(c, d), !.incomplete = TRUE]
  IN  IF e.a.trust[d] \in {"UNDECIDED", "UNTRUSTED"} \/ d \in e.a.failed THEN e
      ELSE IF b.sess[d] = 0 THEN again(b)
      ELSE IF ~CanEncrypt(b, d) THEN [e EXCEPT !.a = b]
      ELSE IF d \in corrupt THEN again(GivenUp([b EXCEPT !.sess[d] = 0], d))
      ELSE [e EXCEPT !.a = b, !.to = @ \union {d}]
AddKeys(a, corrupt) ==
  FoldSet(LAMBDA d, e : AddKey(e, d, corrupt),
          [a |-> a, to |-> {}, incomplete |-> FALSE, ok |-> FALSE], a.list)

\* encode: ours is one more recipient
Encode(b, corrupt) ==
  LET a == [b EXCEPT !.traffic = TRUE]
      e == AddKeys(a, corrupt)
  IN  IF a.list = {} \/ (e.incomplete /\ e.to = {}) THEN [e EXCEPT !.a = RequestList(@)]
      ELSE [e EXCEPT !.ok = e.to # {} \/ OwnBundle]

\* encode_muc
EncodeMuc(b) ==
  LET a == [b EXCEPT !.traffic = TRUE]
      e == AddKeys(a, {})
  IN  IF a.list = {} THEN [e EXCEPT !.a = RequestList(@)]
      ELSE [e EXCEPT !.ok = ~e.incomplete /\ (e.to # {} \/ OwnBundle)]

Deliver(e) == [e.a EXCEPT !.seen.unread = @ \/ e.to = {}, !.seen.owed = @ \ e.to]

\* flush_pending_omemo_messages: what holds for the first holds for all
Flush(a) ==
  LET e == Encode(a, {})
  IN  IF a.queue = 0 THEN a ELSE IF e.ok THEN [Deliver(e) EXCEPT !.queue = 0] ELSE e.a

-----------------------------------------------------------------------------
\* What arrives

\* handle_axolotl_devicelist
HandleList(a, ds) ==
  LET b == [a EXCEPT !.missing = FALSE, !.list = ds, !.seen.absent = FALSE]
      c == IF Eligible(b) THEN RequestBundles(b, Sessionless(b)) ELSE b
  IN  IF \E d \in ds : c.sess[d] # 0 THEN Flush(c) ELSE c

\* handle_omemo_pubsub_iq_event for a list that is refused
NoList(a) == [a EXCEPT !.missing = TRUE, !.seen.absent = TRUE]
ListError(a) == [a EXCEPT !.missing = FALSE]

\* handle_axolotl_bundle; v = 0 for what is not a bundle
BundleSession(a, d, v) ==
  LET b == [a EXCEPT !.bundle[d] = v, !.failed = @ \ {d}]
      c == IF a.sess[d] = 0 THEN Establish(b, d) ELSE b
      f == IF c.sess[d] = 0 THEN GivenUp([c EXCEPT !.failed = @ \union {d}], d) ELSE c
      fresh == a.sess[d] = 0 /\ f.sess[d] # 0
      passive == ~a.chat /\ a.room.member     \* a room is not told
  IN  IF ~(d \in a.kt \/ (fresh /\ ~passive)) THEN f
      ELSE IF a.catchup THEN [f EXCEPT !.postponed = @ \union {d}] ELSE SendKeyTransport(f, d)
HandleBundleMutant(a, d, v) ==    \* forgets who asked before it looks, and does not flush
  LET b == [a EXCEPT !.attempted = @ \union {d}, !.fetch = @ \ {d}, !.kt = @ \ {d},
                     !.room.wait = IF Eligible(a) THEN @ \ {d} ELSE @]
  IN  IF v # 0 THEN BundleSession(b, d, v) ELSE IF d \in a.kt THEN GivenUp(b, d) ELSE b
HandleBundle(a, d, v) ==
  LET b == [a EXCEPT !.attempted = @ \union {d}, !.fetch = @ \ {d},
                     !.seen.refused = IF v = 0 THEN @ \union {d} ELSE @ \ {d}]
      c == [IF v # 0 THEN BundleSession(b, d, v) ELSE IF d \in a.kt THEN GivenUp(b, d) ELSE b
              EXCEPT !.kt = @ \ {d}, !.room.wait = IF Eligible(a) THEN @ \ {d} ELSE @]
  IN  IF c.sess[d] # 0 THEN Flush(c) ELSE c

\* A bundle that is refused is known by the <pubsub/> in the answer, or not at all.
BundleError(a, d, echoed) ==
  LET b == [a EXCEPT !.seen.refused = @ \union {d}]
  IN  IF ~echoed THEN b
      ELSE [b EXCEPT !.fetch = @ \ {d}, !.room.wait = IF Eligible(a) THEN @ \ {d} ELSE @]

\* decrypt_axolotl_transport_key: the account after it and whether it has succeeded.  What
\* was owed to another identity is not any more.
Decrypted(a, x) ==
  LET judged == Judged(a, x.d, x.v)
      j == IF judged = a THEN a ELSE [judged EXCEPT !.seen.owed = @ \ {x.d}]
  IN  CASE x.kind \in {"exchange", "transport"} ->
             IF IsTrusted(j, x.d) THEN [a |-> NewSession(j, x.d, x.v), ok |-> TRUE]
             ELSE [a |-> j, ok |-> FALSE]
        [] x.kind = "spent" -> [a |-> j, ok |-> FALSE]     \* the prekey is not ours any more
        [] x.kind \in {"plain", "long"} -> [a |-> a, ok |-> a.sess[x.d] = x.v]
        [] OTHER -> [a |-> a, ok |-> FALSE]

Await(a, d) == [a EXCEPT !.kt = @ \union {d}, !.seen.owed = @ \union {d}]

\* decode, when no key is for us
NoKey(a, x) ==
  IF x.archived \/ x.d \in a.attempted \union a.kt THEN a
  ELSE RequestBundle(Await(a, x.d), x.d)

\* decode, when the key cannot be decrypted
Undecryptable(a, x) ==
  IF x.kind = "dup" \/ x.d \in a.attempted THEN a
  ELSE IF x.archived THEN [a EXCEPT !.kt = @ \union {x.d}]
  ELSE RequestBundle(Await([a EXCEPT !.attempted = @ \union {x.d}, !.sess[x.d] = 0], x.d), x.d)

\* decode, when it can: a consumed prekey is replaced, a key exchange and a long chain are
\* answered
Understood(a, x) ==
  LET used == x.kind \in {"exchange", "transport"}
      b == IF ~used THEN a
           ELSE IF a.catchup THEN [a EXCEPT !.republish = TRUE, !.seen.stale = TRUE]
           ELSE Send([a EXCEPT !.seen.stale = TRUE], [what |-> "publish"])
      c == IF x.kind = "exchange" THEN [b EXCEPT !.beaten = @ \ {x.d}] ELSE b
      beat == x.kind = "long" /\ ~a.catchup /\ x.d \notin a.beaten
      reply == x.kind = "exchange" /\ x.d \notin a.replied
      later == IF reply /\ a.catchup THEN {x.d} ELSE {}
      soon == IF beat \/ (reply /\ ~a.catchup) THEN {x.d} ELSE {}
  IN  [c EXCEPT !.beaten = IF beat THEN @ \union {x.d} ELSE @,
                !.replied = IF reply THEN @ \union {x.d} ELSE @,
                !.postponed = @ \union later, !.live = @ \union soon,
                !.seen.owed = @ \union later \union soon]

\* message_handler and decode
Decode(a, x) ==
  LET here == [a EXCEPT !.chat = TRUE, !.traffic = @ \/ ~x.archived]
      known == IF x.archived \/ x.d \in here.list THEN here
               ELSE LET b == RequestList(here)
                    IN  IF b.sess[x.d] = 0 THEN RequestBundle(b, x.d) ELSE b
      try == Decrypted(known, x)
  IN  IF x.kind = "none" THEN NoKey(known, x)
      ELSE IF try.ok THEN Understood(try.a, x)
      ELSE Undecryptable(try.a, x)

-----------------------------------------------------------------------------
\* The user

Event == events < MaxEvents /\ events' = events + 1
\* connection::process: what is due live is sent before anything else is looked at
Quiet == acct.up => acct.live = {}
Command(a) == Quiet /\ acct' = a /\ Event /\ UNCHANGED <<peer, s2c>>

\* channel::send_message to the contact
SendMessage ==
  LET a == [acct EXCEPT !.chat = TRUE]
  IN  \E corrupt \in {{}} \union {{d} : d \in Devices} :
        LET e == Encode(a, corrupt)
        IN  /\ acct.up /\ acct.queue < MaxQueue
            /\ Command(IF e.ok THEN Deliver(e) ELSE RequestList([e.a EXCEPT !.queue = @ + 1]))

\* channel::send_message to the room: not queued
SendToRoom ==
  LET e == EncodeMuc(acct)
  IN  /\ acct.up /\ Eligible(acct) /\ acct.room.wait = {}
      /\ Command(IF e.ok THEN Deliver(e) ELSE e.a)

\* /omemo in the room
EnableRoom ==
  /\ acct.room.member /\ ~acct.room.on
  /\ Command(Bootstrap([acct EXCEPT !.room.on = TRUE]))

\* force_fetch, force_kex, trust_jid, distrust_fp, prune_peer_cache.  A bundle that may not be
\* asked for, of a contact nothing was heard of, is not owed.
FetchCommand == Command(RequestBundles(RequestList(acct), acct.list))

Exchange(a, d) ==
  LET b == [a EXCEPT !.failed = @ \ {d}]
      c == IF b.sess[d] = 0 THEN Establish(b, d) ELSE b
      asked == RequestBundle([c EXCEPT !.kt = @ \union {d}], d)
  IN  IF c.sess[d] # 0 THEN SendKeyTransport(c, d)
      ELSE [asked EXCEPT !.seen.owed = @ \union (asked.fetch \intersect {d})]
ExchangeCommand ==
  \/ acct.list = {} /\ Command(RequestList(acct))
  \/ \E d \in acct.list : Command(Exchange(acct, d))

Trust == \E d \in acct.list :
           Command([acct EXCEPT !.trust[d] = "VERIFIED", !.failed = @ \ {d}])
Distrust == \E d \in acct.list : Command([acct EXCEPT !.trust[d] = "UNTRUSTED"])

Prune == Command([Empty EXCEPT !.up = acct.up, !.sm = acct.sm, !.archive = acct.archive,
                               !.out = acct.out, !.catchup = acct.catchup,
                               !.republish = acct.republish,
                               !.chat = acct.chat, !.queue = acct.queue, !.room = acct.room,
                               !.seen = [acct.seen EXCEPT !.absent = FALSE, !.owed = {}]])

-----------------------------------------------------------------------------
\* The connection

\* omemo::init, for a resumed session too
ResetMutant(a) ==    \* keeps what was asked for
  [a EXCEPT !.kt = {}, !.postponed = {}, !.live = {}, !.attempted = {}, !.failed = {},
            !.traffic = FALSE, !.replied = {}, !.catchup = FALSE, !.republish = FALSE]
Reset(a) ==
  [a EXCEPT !.fetch = {}, !.missing = FALSE, !.kt = {}, !.postponed = {}, !.live = {},
            !.attempted = {}, !.failed = {}, !.traffic = FALSE, !.replied = {},
            !.catchup = FALSE, !.republish = FALSE, !.seen.absent = FALSE, !.seen.owed = {}]

Fresh ==
  /\ ~acct.up
  /\ \E sm \in BOOLEAN :
       /\ IF sm THEN UNCHANGED events ELSE Event
       /\ acct' = Reset([acct EXCEPT !.up = TRUE, !.sm = sm, !.archive = "idle",
                                    !.out = <<>>])
  /\ s2c' = <<>>
  /\ UNCHANGED peer

Resume ==
  /\ ~acct.up /\ acct.sm
  /\ acct' = Reset([acct EXCEPT !.up = TRUE])
  /\ UNCHANGED <<peer, s2c, events>>

LinkLost ==
  /\ acct.up
  /\ acct' = [acct EXCEPT !.up = FALSE, !.out = IF acct.sm THEN @ ELSE <<>>]
  /\ s2c' = IF acct.sm THEN s2c ELSE <<>>
  /\ Event /\ UNCHANGED peer

\* run_optional_server_probes; handle_mam_fin_iq_event, handle_mam_query_iq_error
StartCatchup ==
  /\ acct.up /\ acct.archive = "idle"
  /\ acct' = [acct EXCEPT !.archive = "asked", !.catchup = TRUE]
  /\ UNCHANGED <<peer, s2c, events>>

Republish(a) ==
  IF a.republish THEN Send([a EXCEPT !.republish = FALSE], [what |-> "publish"]) ELSE a
EndCatchup ==
  /\ acct.up /\ acct.archive = "asked"
  /\ LET a == [acct EXCEPT !.archive = "done", !.catchup = FALSE]
     IN  acct' = Republish([SendKeyTransports(a, a.postponed) EXCEPT !.postponed = {}])
  /\ UNCHANGED <<peer, s2c, events>>

\* connection::process, after the stanzas that have come
ProcessLive ==
  /\ acct.up /\ acct.live # {}
  /\ acct' = SendKeyTransports([acct EXCEPT !.live = {}], acct.live)
  /\ UNCHANGED <<peer, s2c, events>>

Receive ==
  /\ acct.up /\ s2c # <<>>
  /\ LET x == Head(s2c)
     IN  acct' = CASE x.what = "list"        -> HandleList(acct, x.devices)
                   [] x.what = "nolist"      -> NoList(acct)
                   [] x.what = "listerror"   -> ListError(acct)
                   [] x.what = "bundle"      -> HandleBundle(acct, x.d, x.v)
                   [] x.what = "bundleerror" -> BundleError(acct, x.d, x.echoed)
                   [] x.what = "msg"         -> Decode(acct, x)
  /\ s2c' = Tail(s2c)
  /\ UNCHANGED <<peer, events>>

\* channel::register_omemo_recipient, unregister_omemo_recipient
Enters ==
  LET a == [acct EXCEPT !.room.member = TRUE]
  IN  acct.up /\ Command(IF acct.room.on THEN Bootstrap(a) ELSE a)
Leaves ==
  /\ acct.up /\ acct.room.member
  /\ Command([acct EXCEPT !.room.member = FALSE, !.room.wait = {}])

-----------------------------------------------------------------------------
\* The contact and the server (external)

Reachable == acct.up \/ acct.sm
Push(x) == s2c' = IF Reachable THEN Append(s2c, x) ELSE s2c

Announce ==
  \E ds \in SUBSET Devices :
    /\ ds # peer.list /\ peer' = [peer EXCEPT !.list = ds]
    /\ Push([what |-> "list", devices |-> ds])
    /\ Event /\ UNCHANGED acct

Reinstall ==
  \E d \in Devices :
    /\ peer.key[d] < MaxKey /\ peer' = [peer EXCEPT !.key[d] = @ + 1]
    /\ Push([what |-> "bundle", d |-> d, v |-> peer'.key[d]])
    /\ Event /\ UNCHANGED acct

Kinds == {"exchange", "transport", "spent", "plain", "long", "stale", "none", "dup"}
Write ==
  \E d \in Devices, kind \in Kinds, archived \in BOOLEAN : \E v \in 1..peer.key[d] :
    /\ Reachable /\ (archived \/ v = peer.key[d])
    /\ Push([what |-> "msg", d |-> d, kind |-> kind, v |-> v, archived |-> archived])
    /\ Event /\ UNCHANGED <<peer, acct>>

Bundle(d) == [what |-> "bundle", d |-> d, v |-> peer.key[d]]
BundleRefused(d) == [what |-> "bundleerror", d |-> d, echoed |-> EchoesErrors]
Answer(x) ==
  CASE x.what = "list"   -> IF peer.list = {} THEN <<[what |-> "nolist"]>>
                            ELSE <<[what |-> "list", devices |-> peer.list]>>
    [] x.what = "bundle" -> IF x.d \in peer.list THEN <<Bundle(x.d)>> ELSE <<BundleRefused(x.d)>>
    [] OTHER             -> <<>>
Trouble(x) ==
  CASE x.what = "list"   -> {<<[what |-> "listerror"]>>}
    [] x.what = "bundle" -> {<<BundleRefused(x.d)>>, <<[Bundle(x.d) EXCEPT !.v = 0]>>}
    [] OTHER             -> {}

Reply(x, answer) ==
  /\ s2c' = s2c \o answer
  /\ acct' = [acct EXCEPT !.out = Tail(@),
                          !.seen.stale = IF x.what = "publish" THEN FALSE ELSE @]
  /\ UNCHANGED peer
Serve == acct.up /\ acct.out # <<>> /\ Reply(Head(acct.out), Answer(Head(acct.out)))
                 /\ UNCHANGED events
Fail == /\ acct.up /\ acct.out # <<>>
        /\ \E answer \in Trouble(Head(acct.out)) : Reply(Head(acct.out), answer)
        /\ Event

Init ==
  /\ peer \in [list : {{}, Devices}, key : {[d \in Devices |-> 1]}]
  /\ acct = Empty
  /\ s2c = <<>>
  /\ events = 0

Next == \/ SendMessage \/ SendToRoom \/ EnableRoom \/ FetchCommand \/ ExchangeCommand
        \/ Trust \/ Distrust \/ Prune
        \/ Fresh \/ Resume \/ LinkLost \/ StartCatchup \/ EndCatchup
        \/ ProcessLive \/ Receive \/ Enters \/ Leaves
        \/ Announce \/ Reinstall \/ Write \/ Serve \/ Fail

Spec == Init /\ [][Next]_vars

-----------------------------------------------------------------------------
\* Type invariant.
TypeOK ==
  /\ peer \in [list : SUBSET Devices, key : [Devices -> 1..MaxKey]]
  /\ acct.list \union acct.fetch \union acct.kt \union acct.postponed \union acct.live
       \union acct.attempted \union acct.failed \union acct.room.wait \subseteq Devices
  /\ \A f \in {acct.bundle, acct.sess, acct.ident} : f \in [Devices -> 0..MaxKey]
  /\ acct.trust \in [Devices -> Trusts]
  /\ acct.queue \in 0..MaxQueue /\ (acct.queue > 0 => acct.chat)
  /\ acct.republish => acct.catchup
  /\ events \in 0..MaxEvents

\* pending_bundle_fetch and missing_axolotl_devicelist keep what is underway from being asked
\* for twice: while the account is connected they stand for a request that is, or a list the
\* server does not have.  One that is left set makes the contact's devices unreachable
\* without an error.
Underway(d) ==
  \/ [what |-> "bundle", d |-> d] \in Range(acct.out)
  \/ \E x \in Range(s2c) : x.what \in {"bundle", "bundleerror"} /\ x.d = d
GuardsAreUnderway ==
  acct.up =>
    /\ \A d \in acct.fetch : Underway(d)
    /\ acct.missing => \/ acct.seen.absent
                       \/ [what |-> "list"] \in Range(acct.out)
                       \/ \E x \in Range(s2c) : x.what \in {"list", "nolist", "listerror"}

\* The session of a device is with the identity key its trust is about: after a key change,
\* a refused bundle, a failed exchange or a recovery nothing is encrypted for the old one.
SessionIsOfIdentity == \A d \in Devices : acct.sess[d] # 0 => acct.sess[d] = acct.ident[d]

\* What a device is refused for.
Unusable(d) ==
  ~CanEncrypt(acct, d) \/ ~IsTrusted(acct, d) \/ d \in acct.failed \union acct.seen.refused

\* Nothing is on its way any more.
Settled ==
  /\ acct.up /\ acct.out = <<>> /\ s2c = <<>> /\ acct.live = {} /\ acct.archive = "done"

\* The recovery of a session that fails, the answer to a key exchange and the message that
\* moves a long chain on are sent in the end, over postponement, a session that comes
\* first, pushed bundles and changed lists: a device that is owed one when nothing is on
\* its way cannot be used.  A bundle that cannot be used ends the recovery.
RecoveryFollows == Settled => \A d \in acct.seen.owed : Unusable(d)

-----------------------------------------------------------------------------
\* Statements of comments and documents that do not hold.

\* codec.inl:322: "Queue a deferred key-transport so the session is recovered after MAM
\* catchup ends (process_postponed_key_transports will send it)": a device queued for
\* recovery is being recovered when the catch-up is over.
ReplayIsRecovered ==
  Settled => \A d \in acct.kt : Unusable(d)

\* README.md:1216: "bundle publication waits until account catch-up completes when
\* necessary": a used prekey that the published bundle still has is going to be replaced.
PrekeyIsRepublished ==
  acct.seen.stale /\ acct.up => acct.republish \/ [what |-> "publish"] \in Range(acct.out)

\* codec.inl:593: "OMEMO: could not encrypt for any known device of {}": a message that is
\* sent is for some device of the contact.
MessageHasRecipient == ~acct.seen.unread

\* README.md:1243: "`OMEMO (pending)` never clears - occupant bundles are still fetching":
\* while a room waits for a bundle it is being fetched.
PendingIsFetching == acct.up => acct.room.wait \subseteq acct.fetch

\* README.md:1219: "the new key is UNDECIDED until you run /omemo fingerprint and /omemo
\* trust": a message is encrypted for a verified device whose bundle is there.
VerifiedIsReached ==
  \A d \in acct.list \ acct.failed :
    acct.trust[d] = "VERIFIED" /\ acct.bundle[d] # 0 => d \in Encode(acct, {}).to

\* codec.inl:325: "Do not delete the session here - if we still have a valid session from a
\* more recent message, we do not want to clobber it": an archived message costs no session.
ReplayKeepsSession ==
  [][Receive /\ Head(s2c).what = "msg" /\ Head(s2c).archived
       => \A d \in Devices : acct.sess[d] # 0 => acct'.sess[d] # 0]_vars

\* channel.cpp:1966: "we'll retry on next session/bundle update": a message does not wait
\* beside a session it could be encrypted for.
QueuedIsSent ==
  Settled /\ acct.queue > 0 => \A d \in acct.list : acct.sess[d] = 0 \/ Unusable(d)
=============================================================================
