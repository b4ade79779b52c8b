------------------------------ MODULE PreKeys ------------------------------
(***************************************************************************)
(* The keys of this device that contacts start OMEMO sessions with: made,  *)
(* kept on disk, published as a bundle, used up by key exchanges, replaced *)
(* and rotated, over crashes between two commits, lost publications and a  *)
(* server that loses the bundle.                                           *)
(*                                                                         *)
(* A key is a number, by the order it was made in.  A handler is a trail   *)
(* of disk states, one for each commit: a crash leaves any one of them.    *)
(***************************************************************************)
EXTENDS Naturals, Sequences, FiniteSetsExt, SequencesExt

CONSTANTS
  Peers,        \* devices that start one session each
  Count,        \* kPreKeyCount
  MinCount,     \* kMinPreKeyCount
  MaxId,        \* kMaxOmemoDeviceId, the last number of a prekey
  MaxCrashes,   \* bound: kinds of crashes, and whether keys are reset
  MaxEvents     \* bound: connections, rotations that come due, losses, commands

VARIABLES
  disk,       \* the LMDB database of the account
  identity,   \* the identity key in memory, 0 for none
  link,       \* "down", "up", "catchup": global_mam_catchup
  pending,    \* bundle_republish_pending
  wire,       \* bundles sent
  server,     \* the bundle of this device, None
  peers,      \* what each of them has taken from a bundle, and whether we have the session
  used,       \* history: keys that a session was started with
  lost,       \* history: a bundle sent or meant to be sent was not published
  torn,       \* history: what crashes cut in two, and "reset"
  events      \* bounded counter

vars == <<disk, identity, link, pending, wire, server, peers, used, lost, torn, events>>

None == [keys |-> {}]       \* a bundle has keys, or it is not sent
Idle == [key |-> [id |-> 0, key |-> 0], spk |-> [id |-> 0, key |-> 0], ik |-> 0, met |-> FALSE]

\* signed_pre_key:*, signed-prekey:N, prekeys, prekey:N, max_pre_key_id, identity:*; how many
\* keys were made.  The age of the signed prekey is its stamp.
Blank ==
  [spk |-> [id |-> 0, record |-> 0, public |-> 0, stamp |-> "none"],
   signed |-> {}, index |-> {}, records |-> {}, max |-> 0, identity |-> 0, made |-> 0]

\* "a partial write or an earlier bug": fewer are indexed than there are
Legacy ==
  LET all == {[id |-> i, key |-> i] : i \in 1..Count}
  IN  [Blank EXCEPT !.spk = [id |-> 1, record |-> Count + 1, public |-> Count + 1, stamp |-> "fresh"],
                    !.signed = {[id |-> 1, key |-> Count + 1]},
                    !.index = {e \in all : e.id # Count}, !.records = all, !.max = Count,
                    !.identity = Count + 2, !.made = Count + 2]

-----------------------------------------------------------------------------
\* Operators named ...Mutant are slips the properties must notice; no action uses them.

Put(entries, id, key) == {e \in entries : e.id # id} \union {[id |-> id, key |-> key]}

GenerateSpkMutant(t, id) ==     \* the stamp is stored before the key it is about
  LET d == Last(t)  k == d.made + 1
      s == [d EXCEPT !.made = k, !.spk.id = id]
      f == [s EXCEPT !.spk.stamp = "fresh"]
      r == [f EXCEPT !.spk.record = k]
      n == [r EXCEPT !.signed = Put(@, id, k)]
  IN  t \o <<s, f, r, n, [n EXCEPT !.spk.public = k]>>

\* generate_and_store_spk
GenerateSpk(t, id) ==
  LET d == Last(t)  k == d.made + 1
      s == [d EXCEPT !.made = k, !.spk.id = id]
      r == [s EXCEPT !.spk.record = k]
      n == [r EXCEPT !.signed = Put(@, id, k)]
      p == [n EXCEPT !.spk.public = k]
  IN  t \o <<s, r, n, p, [p EXCEPT !.spk.stamp = "fresh"]>>

\* the number of the first prekey of a new batch
FirstId(d) == IF d.max + 1 > MaxId - Count THEN 1 ELSE d.max + 1

\* ensure_prekeys: a new batch, each of it a commit, then the index, then the highest number
GenerateBatch(t) ==
  LET d == Last(t)
      first == FirstId(d)
      Made(n) == [id |-> first + n - 1, key |-> d.made + n]
      Stored(n) == [d EXCEPT !.made = @ + n,
                             !.records = {r \in @ : r.id \notin first..(first + n - 1)}
                                           \union {Made(i) : i \in 1..n}]
      indexed == [Stored(Count) EXCEPT !.index = {Made(n) : n \in 1..Count}]
      top == first + Count - 1
  IN  t \o [n \in 1..Count |-> Stored(n)]
        \o <<indexed, [indexed EXCEPT !.max = IF top > d.max THEN top ELSE d.max]>>

\* repair_prekeys_index, which looks at the numbers of the first batch
Repaired(d) == {r \in d.records : r.id \in 1..Count}

IsRotated(d) == d.spk.stamp # "fresh"      \* rotate_signed_prekey_if_due

\* ensure_prekeys
Ensure(t) ==
  LET d == Last(t)
  IN  CASE IsRotated(d) -> GenerateBatch(GenerateSpk(t, d.spk.id + 1))
        [] ~ IsRotated(d) /\ d.index = {} -> GenerateBatch(t)
        [] ~ IsRotated(d) /\ Cardinality(d.index) \in 1..(Count - 1) /\ Repaired(d) # {} ->
             Append(t, [d EXCEPT !.index = Repaired(d)])
        [] OTHER -> t

\* ... and what it returns, for needs_bundle_publish
Changes(d) ==
  IsRotated(d) \/ d.index = {}
    \/ (Cardinality(d.index) < Count /\ Cardinality(Repaired(d)) > Cardinality(d.index))

\* make_local_bundle_metadata and build_axolotl_bundle
Bundle(d) ==
  IF identity' = 0 \/ d.identity = 0 \/ Cardinality(d.index) < MinCount THEN None
  ELSE [keys |-> d.index, spk |-> [id |-> d.spk.id, key |-> d.spk.public], ik |-> d.identity]

\* ensure_local_identity, whose two halves are as good as one: the second decides
EnsureIdentity(t) ==
  LET d == Last(t)
  IN  IF identity # 0 \/ d.identity # 0 THEN t
      ELSE Append(t, [d EXCEPT !.made = @ + 1, !.identity = d.made + 1])

-----------------------------------------------------------------------------
\* a handler that reaches its end, and one that a crash cuts
Done(t) == disk' = Last(t) /\ UNCHANGED <<peers, torn>>

Kill ==
  /\ identity' = 0 /\ link' = "down" /\ pending' = FALSE /\ wire' = <<>>
  /\ lost' = (lost \/ pending \/ wire # <<>>)

Crash(t, u) ==
  /\ Cardinality(torn) < MaxCrashes
  /\ \E d \in Range(t) :
       /\ disk' = d
       /\ LET cut == {k \in {"batch", "replacement"} :
                        \E e \in d.index :
                          \/ k = "batch" /\ e.id > d.max
                          \/ k = "replacement" /\ e.key \in u /\ e \notin d.records}
          IN  torn' = torn \union (IF cut = {} THEN {"other"} ELSE cut)
  /\ Kill

\* connection.send of a bundle
Publish(b) ==
  IF b = None \/ link' = "down" THEN wire' = wire /\ lost' = TRUE
  ELSE wire' = Append(wire, b) /\ UNCHANGED lost

Event == events < MaxEvents /\ events' = events + 1

\* every bundle that is built is built of prekeys that are there
Built(t) == Ensure(EnsureIdentity(t))

-----------------------------------------------------------------------------
\* run_post_connect_setup: omemo::init forgets what was pending.  On a new stream a changed
\* bundle is published, and the server is asked whether it has ours.
Connect ==
  /\ link = "down" /\ Event
  /\ \E resumed \in BOOLEAN :
       LET t == EnsureIdentity(<<disk>>)
           b == IF resumed THEN t ELSE Ensure(t)
       IN  \/ /\ link' = (IF resumed THEN "up" ELSE "catchup")
              /\ identity' = (IF identity # 0 THEN identity ELSE Last(t).identity)
              /\ pending' = FALSE
              /\ Done(b)
              /\ IF resumed \/ ~ (Changes(Last(t)) \/ server = None)
                 THEN wire' = wire /\ lost' = (lost \/ pending)
                 ELSE IF Bundle(Last(b)) = None
                 THEN wire' = wire /\ lost' = TRUE
                 ELSE wire' = Append(wire, Bundle(Last(b))) /\ lost' = FALSE
           \/ Crash(b, used) /\ UNCHANGED peers
  /\ UNCHANGED <<server, used>>

\* handle_mam_iq_event, of the last page: process_postponed_bundle_republish
EndCatchup ==
  /\ link = "catchup"
  /\ \/ /\ link' = "up" /\ pending' = FALSE /\ UNCHANGED identity
        /\ IF pending
           THEN Done(Built(<<disk>>)) /\ Publish(Bundle(Last(Built(<<disk>>))))
           ELSE Done(<<disk>>) /\ UNCHANGED <<wire, lost>>
     \/ pending /\ Crash(Built(<<disk>>), used) /\ UNCHANGED peers
  /\ UNCHANGED <<server, used, events>>

\* /omemo republish
Republish ==
  /\ link # "down" /\ Event /\ UNCHANGED <<identity, link, pending>>
  /\ Done(Built(<<disk>>)) /\ Publish(Bundle(Last(Built(<<disk>>))))
  /\ UNCHANGED <<server, used>>

\* /omemo reset-keys empties the database and nothing else (the device has another number when
\* it connects again, which is left out)
ResetKeys ==
  /\ Event /\ Cardinality(torn) < MaxCrashes
  /\ disk' = [Blank EXCEPT !.made = disk.made] /\ torn' = torn \union {"reset"}
  /\ UNCHANGED <<identity, link, pending, wire, server, peers, used, lost>>

\* seven days pass, longer than any session waits for its first message
Due ==
  /\ Event /\ disk.spk.stamp = "fresh"
  /\ disk' = [disk EXCEPT !.spk.stamp = "due"]
  /\ UNCHANGED <<identity, link, pending, wire, server, peers, used, lost, torn>>

-----------------------------------------------------------------------------
\* another device takes the bundle, and one of its prekeys
Fetch(p) ==
  /\ peers[p] = Idle /\ server # None
  /\ \E e \in server.keys :
       peers' = [peers EXCEPT ![p] = [key |-> e, spk |-> server.spk, ik |-> server.ik, met |-> FALSE]]
  /\ UNCHANGED <<disk, identity, link, pending, wire, server, used, lost, torn, events>>

\* libsignal can start the session
Accepts(d, m) == m.key \in d.records /\ m.spk \in d.signed /\ m.ik = d.identity

\* replace_used_prekey: the record, then the index, which may not have the number any more
Replace(t, id) ==
  LET d == Last(t)
      r == [d EXCEPT !.made = @ + 1, !.records = Put(@, id, d.made + 1)]
  IN  t \o <<r, [r EXCEPT !.index = Put(@, id, d.made + 1)]>>

Defers == link = "catchup"
PostponedMutant(replaces) == pending
Postponed(replaces) == pending \/ (replaces /\ Defers)

\* decode, of a message that has the key exchange: the session and the removal of the
\* prekey are one commit.  A prekey that is not there is made again, whoever used it.
Receive(p) ==
  LET m == peers[p]
      d == IF m.met THEN disk ELSE [disk EXCEPT !.records = @ \ {m.key}]
      replaces == ~ \E r \in d.records : r.id = m.key.id
      t == IF replaces THEN Replace(<<d>>, m.key.id) ELSE <<d>>
      b == IF replaces /\ ~ Defers THEN Built(t) ELSE t
  IN  /\ link # "down" /\ m # Idle /\ (m.met \/ Accepts(disk, m))
      /\ used' = IF m.met THEN used ELSE used \union {m.key.key}
      /\ peers' = [peers EXCEPT ![p].met = TRUE]
      /\ \/ /\ disk' = Last(b) /\ UNCHANGED <<identity, link, torn>>
            /\ pending' = Postponed(replaces)
            /\ IF replaces /\ ~ Defers THEN Publish(Bundle(Last(b)))
               ELSE UNCHANGED <<wire, lost>>
         \/ replaces /\ Crash(b, used')
      /\ UNCHANGED <<server, events>>

-----------------------------------------------------------------------------
Arrive ==
  /\ wire # <<>> /\ server' = Head(wire) /\ wire' = Tail(wire)
  /\ UNCHANGED <<disk, identity, link, pending, peers, used, lost, torn, events>>

\* the connection breaks; what was sent may be lost
Lose ==
  /\ link # "down" /\ link' = "down" /\ Event
  /\ wire' = <<>> /\ lost' = (lost \/ wire # <<>>)
  /\ UNCHANGED <<disk, identity, pending, server, peers, used, torn>>

\* the server loses the node
Purge ==
  /\ server # None /\ server' = None /\ Event
  /\ UNCHANGED <<disk, identity, link, pending, wire, peers, used, lost, torn>>

\* the program ends and starts again
Restart == Crash(<<disk>>, used) /\ UNCHANGED <<server, peers, used, events>>

-----------------------------------------------------------------------------
Init ==
  /\ disk \in {Blank, Legacy}
  /\ identity = 0 /\ link = "down" /\ pending = FALSE
  /\ wire = <<>> /\ server = None
  /\ peers = [p \in Peers |-> Idle]
  /\ used = {} /\ lost = FALSE /\ torn = {} /\ events = 0

Next ==
  \/ Connect \/ EndCatchup \/ Republish \/ ResetKeys \/ Due \/ Arrive \/ Lose \/ Purge \/ Restart
  \/ \E p \in Peers : Fetch(p) \/ Receive(p)

Spec == Init /\ [][Next]_vars

-----------------------------------------------------------------------------
\* With what the server hands out a session can be started: its signed prekey is kept, and so
\* is each of its prekeys that was not used, over rotations, replacements and crashes in the
\* middle of them (but not in the middle of a batch).
PublishedIsHeld ==
  \A b \in {server} \union Range(wire) :
    (b # None /\ "reset" \notin torn) =>
      /\ b.spk \in disk.signed /\ b.ik = disk.identity
      /\ "batch" \notin torn => \A e \in b.keys : e.key \in used \/ e \in disk.records

\* A bundle that is sent has no prekey that was used, unless a crash came before it was
\* replaced.
UsedIsNotPublished ==
  [][\A b \in Range(wire') \ Range(wire) :
       "replacement" \notin torn => \A e \in b.keys : e.key \notin used']_vars

\* A prekey that was replaced is published: at once, at the end of the catch-up, or not at all
\* if the connection or the program ended first.
ReplacedIsPublished ==
  (link # "down" /\ ~ lost /\ ~ pending /\ torn = {}) =>
    \/ server = None /\ wire = <<>>
    \/ (IF wire = <<>> THEN server ELSE Last(wire)).keys = disk.index

-----------------------------------------------------------------------------
(* Not so, and TLC finds it: *)

\* "we never reuse IDs that may still be in-flight" (internal_signal_store.inl): the index is
\* stored before the highest number is.
NumbersAreNotReused ==
  (server # None /\ "reset" \notin torn) => \A e \in server.keys : e.key \in used \/ e \in disk.records

\* What was used is not handed out again: a crash before the replacement leaves it in the index.
UsedIsOutOfIndex == \A e \in disk.index : e.key \notin used

\* "Session keys will be renegotiated" (encryption.inl): the identity in memory is not stored
\* again, so that no bundle can be built until the program is started anew.
IdentityIsStored == identity # 0 => disk.identity # 0

\* What could not be published is published later: init clears bundle_republish_pending, and
\* needs_bundle_publish looks only whether prekeys are missing.
LostIsPublished ==
  (link = "up" /\ wire = <<>> /\ server # None /\ torn = {}) => server.keys = disk.index

=============================================================================
