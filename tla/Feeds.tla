------------------------------- MODULE Feeds -------------------------------
(***************************************************************************)
(* PubSub feeds (XEP-0060, XEP-0442, XEP-0472): buffers that the user      *)
(* opens and closes, the registry of them in LMDB, what restores them on a *)
(* new session (archive of the service, or its items, once disco has told  *)
(* which), pushes, posts, and the pages the service answers with.  Feeds   *)
(* that are not in Pep are nodes of one service.  An item is the number    *)
(* under which its node got it.                                            *)
(***************************************************************************)
EXTENDS Integers, Bags, FiniteSetsExt, SequencesExt

CONSTANTS
  Feeds, Pep,  \* nodes; those of user JIDs
  Start,       \* items that are there at the start
  Old,         \* those of them whose id is a time more than 30 days ago
  Page,        \* items of a page (max_items)
  Quiet,       \* bound: nodes with one item, that nobody adds to or takes from
  MaxItems,    \* bound: items of a node
  MaxPending,  \* bound: requests in flight when the user or a push adds one
  MaxPushes    \* bound: notifications in flight

ASSUME FeedConstants ==
  /\ Pep \subseteq Feeds /\ Quiet \subseteq Feeds /\ Old \subseteq Start
  /\ {Page, MaxItems, MaxPending, MaxPushes} \subseteq Nat \ {0}

VARIABLES
  session,   \* "up"; "lost": may be resumed; "down"
  acct,      \* channels, open and seen (LMDB), cursor (LMDB), deferred, services
  pending,   \* bag of the tracked requests that are not answered
  pushes,    \* notifications on their way
  node,      \* items each node holds
  born,      \* items each node has ever got
  hist       \* history: wanted, loaded, drawn, unasked

vars == <<session, acct, pending, pushes, node, born, hist>>

Nodes   == Feeds \ Pep
Up      == session = "up"

\* Requests: pubsub_fetch_ids, pubsub_mam_queries, pubsub_mam_disco_queries,
\* pubsub_subscriptions_queries, pubsub_disco_queries, pubsub_publish_ids
NoFeed == "none"
Request(kind, f, what, arg) == [kind |-> kind, feed |-> f, what |-> what, arg |-> arg]
PageOf(f, before) == Request("items", f, "page", before)
Latest(f)         == PageOf(f, 0)
FromEnd(f, n)      == Request("items", f, "tail", n)
ItemOf(f, i)      == Request("items", f, "item", i)
NodeOf(f)         == Request("items", f, "node", 0)
Archive(f)        == Request("archive", f, "asked", acct.cursor[f])
Results(f, todo, last) == [kind |-> "archive", feed |-> f, what |-> "told", arg |-> last, todo |-> todo]
Disco             == Request("disco", NoFeed, "info", 0)
Listing(what)     == Request("list", NoFeed, what, 0)
Post(f)           == Request("publish", f, "post", 0)
Retraction(f, i)  == Request("publish", f, "retract", i)

Of(f)     == {r \in BagToSet(pending) : r.feed = f}
Room      == BagCardinality(pending) < MaxPending
Send(S)   == pending' = pending (+) SetToBag(S)
Swap(r, S) == pending' = (pending (-) SetToBag({r})) (+) SetToBag(S)

-----------------------------------------------------------------------------
\* Operators named ...Mutant are slips the properties must notice; no action uses them.

\* render_atom_entry_to_feed and feed_item_mark_seen; unasked: by a push or the archive
Shown(a, f, S) == [a EXCEPT !.channels = @ \union {f}, !.seen[f] = @ \union S]
Drawn(f, S, unasked) ==
  [hist EXCEPT !.drawn[f] = @ \union S,
               !.again = @ \union IF unasked THEN {<<f, i>> : i \in S \intersect hist.drawn[f]} ELSE {}]
Loaded(h, f) == [h EXCEPT !.loaded = @ \union {f}]

\* feed_open_register, beside the channel it is for
Opened(a, F) == [a EXCEPT !.channels = @ \union F, !.open = @ \union F]
Wants(F)     == hist' = [hist EXCEPT !.wanted = @ \union F]

\* feed_dismiss
Dismissed(a, F) ==
  [a EXCEPT !.channels = @ \ F, !.open = @ \ F, !.deferred = @ \ F]
Left(F) ==
  [r \in {x \in BagToSet(pending) : ~(x.kind \in {"items", "archive"} /\ x.feed \in F)}
     |-> pending[r]]

-----------------------------------------------------------------------------
\* The user: command__feed, and buffers that are closed

\* /feed <service> <node> [--latest]
FeedOpen(f, latest) ==
  /\ Up /\ Room
  /\ Send({IF latest THEN Latest(f) ELSE PageOf(f, acct.cursor[f])})
  /\ acct' = [Opened(acct, {f}) EXCEPT !.cursor[f] = IF latest THEN 0 ELSE @]
  /\ Wants({f})
  /\ UNCHANGED <<session, pushes, node, born>>

\* /feed comments: the node that an item links to
FeedComments(f) ==
  /\ Up /\ Room /\ f \in Nodes
  /\ Send({Latest(f)})
  /\ acct' = Opened(acct, {f})
  /\ Wants({f})
  /\ UNCHANGED <<session, pushes, node, born>>

\* /feed, /feed <service> [--all], /feed discover, /feed subscriptions
FeedList(what) ==
  /\ Up /\ Room
  /\ Send({Listing(what)})
  /\ UNCHANGED <<session, acct, pushes, node, born, hist>>

\* buffer__close_cb: only a connected account dismisses the feed
CloseBuffer(f) ==
  /\ f \in acct.channels
  /\ IF Up
       THEN /\ acct' = Dismissed(acct, {f})
            /\ pending' = Left({f})
            /\ hist' = [hist EXCEPT !.wanted = @ \ {f}, !.loaded = @ \ {f}]
       ELSE /\ acct' = [acct EXCEPT !.channels = @ \ {f}]
            /\ UNCHANGED <<pending, hist>>
  /\ UNCHANGED <<session, pushes, node, born>>

\* /feed close
FeedClose ==
  /\ Up /\ acct.channels # {}
  /\ acct' = Dismissed(acct, acct.channels)
  /\ pending' = Left(acct.channels)
  /\ hist' = [hist EXCEPT !.wanted = @ \ acct.channels, !.loaded = @ \ acct.channels]
  /\ UNCHANGED <<session, pushes, node, born>>

\* /feed post, reply, repeat, retract
FeedPost(f) ==
  /\ Up /\ Room /\ f \notin Quiet
  /\ \/ Send({Post(f)})
     \/ \E i \in acct.seen[f] : Send({Retraction(f, i)})
  /\ UNCHANGED <<session, acct, pushes, node, born, hist>>

-----------------------------------------------------------------------------
\* The nodes: others publish; a retraction of theirs looks like one from FeedPost.  What
\* happens while there is no session to tell is not pushed.

Told(f, i, full) ==
  \/ UNCHANGED pushes          \* not subscribed
  \/ /\ session # "down" /\ Len(pushes) < MaxPushes
     /\ pushes' = Append(pushes, [feed |-> f, item |-> i, full |-> full])

Gets(f) ==
  /\ born[f] < MaxItems
  /\ born' = [born EXCEPT ![f] = @ + 1]
  /\ node' = [node EXCEPT ![f] = @ \union {born[f] + 1}]

NodePublish(f) ==
  /\ f \notin Quiet /\ Gets(f)
  /\ \E full \in BOOLEAN : Told(f, born[f] + 1, full)
  /\ UNCHANGED <<session, acct, pending, hist>>

-----------------------------------------------------------------------------
\* handle_pep_event: a notification for a feed

PushMutant ==   \* an item without payload is marked as seen at once
  /\ Up /\ pushes # <<>> /\ Room
  /\ pushes' = Tail(pushes)
  /\ LET p == Head(pushes)
     IN  /\ p.feed \in acct.open /\ p.item \notin acct.seen[p.feed] \union {0}
         /\ acct' = Shown(acct, p.feed, {p.item})
         /\ IF p.full THEN UNCHANGED pending ELSE Send({ItemOf(p.feed, p.item)})
         /\ hist' = IF p.full THEN Drawn(p.feed, {p.item}, TRUE) ELSE hist
  /\ UNCHANGED <<session, node, born>>

Push ==
  /\ Up /\ pushes # <<>> /\ Room
  /\ pushes' = Tail(pushes)
  /\ LET p == Head(pushes)
         new == p.item \notin acct.seen[p.feed]
     IN  IF p.feed \notin acct.open
           THEN UNCHANGED <<acct, pending, hist>>
           ELSE \/ \* <retract/>
                   /\ p.item = 0
                   /\ acct' = Shown(acct, p.feed, {})
                   /\ Send({NodeOf(p.feed)}) /\ UNCHANGED hist
                \/ /\ p.item # 0 /\ (p.full \/ ~new)
                   /\ acct' = Shown(acct, p.feed, {p.item})
                   /\ hist' = Drawn(p.feed, IF new THEN {p.item} ELSE {}, TRUE)
                   /\ UNCHANGED pending
                \/ \* without a payload: left to the result of the fetch
                   /\ p.item # 0 /\ ~p.full /\ new
                   /\ acct' = Shown(acct, p.feed, {})
                   /\ Send({ItemOf(p.feed, p.item)}) /\ UNCHANGED hist
  /\ UNCHANGED <<session, node, born>>

-----------------------------------------------------------------------------
\* handle_pubsub_feed_iq_event: a page of items

Lowest(S)  == {i \in S : Cardinality({k \in S : k < i}) < Page}
Highest(S) == {i \in S : Cardinality({k \in S : k > i}) < Page}

\* What the service answers.  oldest: it takes no notice of the order asked for.
Held(r, oldest) ==
  LET S == node[r.feed]
      before == {i \in S : r.arg = 0 \/ i < r.arg}
  IN  CASE r.what = "item" -> S \intersect {r.arg}
        [] r.what = "node" -> S
        [] r.what = "tail" -> Highest(S)
        [] r.what = "page" -> IF oldest THEN Lowest(before) ELSE Highest(before)

Whole(r) == r.what \in {"page", "tail"}

\* stale_page.  rsm: the answer has a <set/>.
Stale(r, S, rsm) ==
  /\ rsm /\ Whole(r) /\ S # {}
  /\ Cardinality(node[r.feed]) > Page
  /\ Min(S) \in Old

ItemsResult(r) ==
  /\ UNCHANGED <<session, pushes, node, born>>
  /\ IF r.feed \notin acct.open
       THEN /\ Swap(r, {}) /\ UNCHANGED <<acct, hist>>
       ELSE \E oldest, rsm \in BOOLEAN :
              LET S == Held(r, oldest)
              IN  IF Stale(r, S, rsm)
                    THEN /\ Swap(r, {FromEnd(r.feed, IF r.arg = 1 THEN 2 ELSE 1)})   \* a new id
                         /\ acct' = Opened(acct, {r.feed})
                         /\ UNCHANGED hist
                    ELSE /\ Swap(r, {})
                         /\ acct' = Shown(Opened(acct, {r.feed}), r.feed, S)
                         /\ hist' = LET h == Drawn(r.feed, S, FALSE)
                                    IN  IF Whole(r) THEN Loaded(h, r.feed) ELSE h

\* iq_handler: "cannot fetch feed"
ItemsError(r) ==
  /\ Swap(r, {})
  /\ hist' = IF Whole(r) THEN Loaded(hist, r.feed) ELSE hist
  /\ UNCHANGED <<session, acct, pushes, node, born>>

-----------------------------------------------------------------------------
\* The archive of the node (XEP-0442).  By RestoreTakesLatest a query never starts
\* at a cursor: next pages and the recovery from a stale cursor do not come up.

ArchiveAnswer(r) ==
  /\ r.what = "asked"
  /\ LET S == Highest(node[r.feed])
     IN  Swap(r, {Results(r.feed, SetToSortSeq(S, <), IF S = {} THEN 0 ELSE Max(S))})
  /\ UNCHANGED <<session, acct, pushes, node, born, hist>>

\* message_handler: one <result/>
ArchiveResult(r) ==
  /\ r.what = "told" /\ r.todo # <<>>
  /\ Swap(r, {[r EXCEPT !.todo = Tail(@)]})
  /\ LET new == {Head(r.todo)} \ acct.seen[r.feed]
     IN  /\ acct' = Shown(acct, r.feed, new)
         /\ hist' = Drawn(r.feed, new, TRUE)
  /\ UNCHANGED <<session, pushes, node, born>>

\* handle_mam_iq_event, advance_pubsub_mam: a checkpoint, unless the page was not stable
\* or the service forgot its last cursor
ArchiveFin(r) ==
  /\ r.what = "told" /\ r.todo = <<>>
  /\ Swap(r, {})
  /\ acct' \in {acct, [acct EXCEPT !.cursor[r.feed] = r.arg]}
  /\ hist' = Loaded(hist, r.feed)
  /\ UNCHANGED <<session, pushes, node, born>>

\* handle_mam_query_iq_error: the items instead
ArchiveError(r) ==
  /\ r.what = "asked"
  /\ Swap(r, {Latest(r.feed)})
  /\ UNCHANGED <<session, acct, pushes, node, born, hist>>

-----------------------------------------------------------------------------
\* handle_disco_info_iq_event, handle_pubsub_mam_disco_iq_error

Flush(r, S) ==
  /\ Swap(r, S)
  /\ acct' = [acct EXCEPT !.deferred = {}]

DiscoResult(r, archives) ==
  /\ LET F == acct.deferred \intersect acct.open
     IN  IF archives
           THEN /\ Swap(r, {Archive(f) : f \in F})
                /\ acct' = [acct EXCEPT !.deferred = {}, !.services = TRUE]
           ELSE Flush(r, {Latest(f) : f \in F})
  /\ UNCHANGED <<session, pushes, node, born, hist>>

DiscoErrorMutant(r) ==   \* only a result flushes what was deferred
  Swap(r, {}) /\ UNCHANGED <<session, acct, pushes, node, born, hist>>

DiscoError(r) ==
  /\ Flush(r, {Latest(f) : f \in acct.deferred \intersect acct.open})
  /\ UNCHANGED <<session, pushes, node, born, hist>>

\* The nodes the account is subscribed to (handle_pubsub_feed_iq_event): opened and fetched
Subscribed(r, F) ==
  /\ r.what = "subscriptions"
  /\ Swap(r, {Latest(f) : f \in F})
  /\ acct' = Opened(acct, F)
  /\ Wants(F)
  /\ UNCHANGED <<session, pushes, node, born>>

\* All nodes (handle_disco_items_iq_event): only a new channel is registered
Discovered(r, F) ==
  /\ r.what = "all"
  /\ Swap(r, {PageOf(f, acct.cursor[f]) : f \in F})
  /\ acct' = [acct EXCEPT !.channels = @ \union F, !.open = @ \union (F \ acct.channels)]
  /\ Wants(F)
  /\ UNCHANGED <<session, pushes, node, born>>

\* trigger_publish_refetch; nothing after an error
Published(r) ==
  LET f == r.feed
  IN  /\ \/ /\ r.what = "post" /\ Gets(f)
            /\ Told(f, born[f] + 1, TRUE)
            /\ Swap(r, {ItemOf(f, born[f] + 1)})
         \/ /\ r.what = "retract"
            /\ node' = [node EXCEPT ![f] = @ \ {r.arg}]
            /\ Told(f, 0, FALSE)
            /\ Swap(r, {NodeOf(f)})
            /\ UNCHANGED born
      /\ UNCHANGED <<session, acct, hist>>

Refused(r) ==
  /\ Swap(r, {})
  /\ UNCHANGED <<session, acct, pushes, node, born, hist>>

Answer(r) ==
  \/ r.kind = "items" /\ (ItemsResult(r) \/ ItemsError(r))
  \/ r.kind = "archive" /\ (ArchiveAnswer(r) \/ ArchiveResult(r) \/ ArchiveFin(r) \/ ArchiveError(r))
  \/ r.kind = "disco" /\ ((\E archives \in BOOLEAN : DiscoResult(r, archives)) \/ DiscoError(r))
  \/ r.kind = "list" /\ ((\E F \in SUBSET Nodes : Subscribed(r, F) \/ Discovered(r, F)) \/ Refused(r))
  \/ r.kind = "publish" /\ (Published(r) \/ Refused(r))

-----------------------------------------------------------------------------
\* The connection

\* disconnect_impl; reset_mam_sync unless the stream may be resumed
Lose(resumable) ==
  /\ Up
  /\ session' = IF resumable THEN "lost" ELSE "down"
  /\ IF resumable
       THEN UNCHANGED <<acct, pending, pushes>>
       ELSE /\ acct' = [acct EXCEPT !.deferred = {}]
            /\ pending' = EmptyBag /\ pushes' = <<>>
  /\ UNCHANGED <<node, born, hist>>

\* run_post_connect_setup(true): nothing is fetched
Resume ==
  /\ session = "lost" /\ session' = "up"
  /\ acct' = [acct EXCEPT !.channels = @ \union acct.open]
  /\ UNCHANGED <<pending, pushes, node, born, hist>>

\* restore_feed for all of feed_open_list
Restored(a) ==
  [a EXCEPT !.channels = @ \union a.open,
            !.cursor = [f \in Feeds |-> IF f \in a.open THEN 0 ELSE @[f]],
            !.deferred = IF a.services THEN {} ELSE a.open \ Pep]
Restoring(a) ==
  LET F == a.open \ Pep
  IN  {Latest(f) : f \in a.open \intersect Pep}
        \union (IF a.services THEN {Request("archive", f, "asked", a.cursor[f]) : f \in F} ELSE {})
        \union (IF a.deferred = {} THEN {} ELSE {Disco})

\* run_post_connect_setup(false).  Requests the server has not acknowledged on the stream
\* that could not be resumed are sent again, and tracked still.
Connect ==
  /\ ~Up /\ session' = "up"
  /\ \E again \in SUBSET {r \in BagToSet(pending) : r.kind \in {"items", "list", "publish"}} :
       /\ Cardinality(again) <= MaxPending
       /\ pending' = SetToBag(again) (+) SetToBag(Restoring(Restored(acct)))
  /\ acct' = Restored(acct)
  /\ pushes' = <<>>
  /\ hist' = [hist EXCEPT !.loaded = {}]
  /\ UNCHANGED <<node, born>>

\* WeeChat is started again
Restart ==
  /\ session' = "down"
  /\ acct' = [acct EXCEPT !.channels = {}, !.deferred = {}, !.services = FALSE]
  /\ pending' = EmptyBag /\ pushes' = <<>>
  /\ UNCHANGED <<node, born, hist>>

-----------------------------------------------------------------------------
None == [f \in Feeds |-> {}]

Init ==
  /\ session = "down"
  /\ acct = [channels |-> {}, open |-> {}, seen |-> None, cursor |-> [f \in Feeds |-> 0],
             deferred |-> {}, services |-> FALSE]
  /\ pending = EmptyBag /\ pushes = <<>>
  /\ node = [f \in Feeds |-> IF f \in Quiet THEN {1} ELSE Start]
  /\ born = [f \in Feeds |-> Cardinality(node[f])]
  /\ hist = [wanted |-> {}, loaded |-> {}, drawn |-> None, again |-> {}]

User ==
  \/ \E f \in Feeds : CloseBuffer(f) \/ FeedPost(f) \/ FeedComments(f) \/ \E latest \in BOOLEAN : FeedOpen(f, latest)
  \/ \E what \in {"subscriptions", "all"} : FeedList(what)
  \/ FeedClose

Service == \E f \in Feeds : NodePublish(f)
Network == Connect \/ Resume \/ Restart \/ \E resumable \in BOOLEAN : Lose(resumable)
Answered == Up /\ \E r \in BagToSet(pending) : Answer(r)

Next == User \/ Service \/ Network \/ Push \/ Answered

\* A service answers every request that fills a feed.
Filling(f) == {r \in BagToSet(pending) :
  \/ r.feed = f /\ (r.kind = "archive" \/ (r.kind = "items" /\ Whole(r)))
  \/ r.kind = "disco" /\ f \in acct.deferred}
Fairness == \A f \in Feeds : WF_vars(Up /\ \E r \in Filling(f) : Answer(r))

Spec == Init /\ [][Next]_vars /\ Fairness

-----------------------------------------------------------------------------
TypeOK ==
  /\ session \in {"up", "lost", "down"}
  /\ acct.channels \subseteq acct.open /\ acct.deferred \subseteq acct.open \ Pep
  /\ \A f \in Feeds : acct.seen[f] \subseteq 1..born[f] /\ node[f] \subseteq 1..born[f]

\* A feed comes back by itself only if the user asked for it: answers, notifications, the
\* flush of what was deferred and restored registrations do not open a feed that was closed
\* on an open stream; and a stream that is up has a buffer for every feed.
OpenIsWanted ==
  acct.open \subseteq hist.wanted /\ acct.channels \subseteq acct.open

\* What LMDB has as seen has been shown: an item whose push brought no payload is not lost
\* when its fetch fails or the stream ends.  And neither a push nor the archive repeats one.
SeenIsShown == acct.seen = hist.drawn /\ hist.again = {}

\* LMDB has what the user asked for, and what was shown.
RegistryIsTrue == OpenIsWanted /\ SeenIsShown

\* iq_pubsub_mam: the archive is always asked for its latest page alone.
RestoreTakesLatest ==
  \A r \in BagToSet(pending) : r.kind = "archive" /\ r.what = "asked" => r.arg = 0

\* iq_disco_handler: "Without this, the deferred feeds hang forever": a registered feed is
\* filled, whichever way the service can answer, unless it is closed or the stream is lost.
RestoreEnds ==
  \A f \in Feeds : Up /\ f \in acct.open /\ f \notin hist.loaded
                     ~> f \in hist.loaded \/ f \notin acct.open \/ ~Up

-----------------------------------------------------------------------------
\* Statements of comments that do not hold.

\* pep_handler: "feeds the user closed (/feed close or /close)" are ignored: a feed whose
\* buffer the user closes is not registered any more.
CloseIsRemembered ==
  [][\A f \in acct.channels \ acct'.channels : acct'.channels # {} => f \notin acct'.open]_vars

\* iq_pubsub_mam: "Later restores walk forward from its checkpoint until every new item is
\* read": the archive has been read up to what was shown before.
EveryNewItemIsRead ==
  [][\A f \in hist'.loaded \ hist.loaded :
       (\E r \in Of(f) : r.kind = "archive" /\ r.what = "told") =>
         \A i \in node[f] : (\E k \in hist.drawn[f] : k < i) => i \in hist.drawn[f]]_vars

=============================================================================
