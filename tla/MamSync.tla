------------------------------ MODULE MamSync ------------------------------
(***************************************************************************)
(* Message archive catch-up (XEP-0313): one query for the whole personal   *)
(* archive per fresh session, one per chat or room that is opened, at most *)
(* MaxConcurrent at a time, in pages; what they return is cached in LMDB   *)
(* and shown.  A message is its position in the server's archive, which is *)
(* also its time.  The handlers call each other in many ways, so each is a *)
(* function of the account's state, and an action applies one.             *)
(***************************************************************************)
EXTENDS Integers, Sequences, FiniteSetsExt, SequencesExt

CONSTANTS
  PMs, Rooms,      \* chats by kind; what is said in a room is not in the personal archive
  MaxConcurrent,   \* xmpp.look.mam_max_concurrent
  MaxArchive,      \* bound: messages ever archived
  MaxEvents        \* bound: commands of the user, losses, refusals, crashes and streams
                   \* that cannot be resumed, in all

VARIABLES
  archive,    \* the server's: what was said, by chat
  acct,       \* the account, a record
  s2c,        \* what the server has sent
  events      \* bounded counter

vars == <<archive, acct, s2c, events>>

Channels == PMs \union Rooms
Global == ""
Closed == -1             \* "deliberately closed"
ASSUME MamConstants ==
  /\ PMs \intersect Rooms = {} /\ Global \notin Channels
  /\ MaxConcurrent \in Nat \ {0}
  /\ MaxArchive \in Nat /\ MaxEvents \in Nat

now == Len(archive)
In(chats) == {m \in 1..now : archive[m] \in chats}

\* What LMDB keeps over a crash, and the account of a client that starts.
\* wiped is history: what has been deleted from the cache with its chat.
EmptyDb == [cache |-> {}, cursor |-> 0, ts |-> [c \in Channels |-> 0], registered |-> {},
            wiped |-> {}]
Started(db) ==
  [up |-> FALSE, sm |-> FALSE, probed |-> FALSE,   \* connected, resumable, asked for all
   open |-> {}, joining |-> {}, shown |-> {}, last_fetch |-> [c \in Channels |-> 0],
   queries |-> {}, pages |-> <<>>, timer |-> FALSE, inflight |-> 0, jitter |-> FALSE,
   held |-> [p \in PMs |-> <<>>], catchup |-> FALSE, batch |-> {}, out |-> <<>>, db |-> db]

-----------------------------------------------------------------------------
\* Operators named ...Mutant are slips the properties must notice; no action uses them.

\* stanza::uuid: an id nothing refers to any more will do
FreshId(a) == Min(1..(Len(a.out) + Len(s2c) + Cardinality(a.queries) + Len(a.pages) + 1)
                  \ UNION {{q.id : q \in a.queries}, {x.id : x \in Range(a.out)},
                           {x.id : x \in Range(s2c)}, {x.id : x \in Range(a.pages)}})

\* connection::send: without a stream the resumable session keeps it for later
Send(a, id, ch, after, end) ==
  IF a.up \/ a.sm
  THEN [a EXCEPT !.out = Append(@, [id |-> id, ch |-> ch, after |-> after, end |-> end])]
  ELSE a

Query(id, ch, start, end, stable) ==
  [id |-> id, ch |-> ch, start |-> start, end |-> end, stable |-> stable]
Page(id, ch, start, end, after, stable, slot_held) ==
  [id |-> id, ch |-> ch, start |-> start, end |-> end, after |-> after, stable |-> stable,
   slot_held |-> slot_held]

\* schedule_next_mam_page
Schedule(a) == [a EXCEPT !.timer = @ \/ a.up]
Postpone(a, page) == Schedule([a EXCEPT !.pages = Append(@, page)])

\* The cache, in LMDB: what came of an archive is queued until the page is complete, and may be
\* loaded into a buffer that is opened.
CacheMessage(a, m) == [a EXCEPT !.batch = @ \union {m}]
LoadMessages(a, c) == [a EXCEPT !.shown = @ \union (a.db.cache \intersect In({c}))]
ClearMessages(a, c) == [a EXCEPT !.db.cache = @ \ In({c}),
                                 !.db.wiped = @ \union (a.db.cache \intersect In({c}))]

\* pm_open: the chats that are there again after a restart
Register(a, p) == [a EXCEPT !.db.registered = @ \union {p}]
Unregister(a, p) == [a EXCEPT !.db.registered = @ \ {p}]
OpenList(a) == a.db.registered

\* mam_cache_set_last_timestamp, and what a buffer that is opened knows of it
SetLastTimestamp(a, c, t) == [a EXCEPT !.db.ts[c] = t]
LastTimestamp(a, c) == a.db.ts[c]

\* mam_cursor_set, mam_cursor_clear
SetCursor(a, id) == [a EXCEPT !.db.cursor = id]
ClearCursor(a) == [a EXCEPT !.db.cursor = 0]

\* mam_cache_write_batch_commit
CommitMutant(a) == [a EXCEPT !.batch = {}]   \* the transaction is not committed
Commit(a) == [a EXCEPT !.db.cache = @ \union a.batch, !.batch = {}]

\* release_mam_slot, n times
ReleaseMutant(a, n) == [a EXCEPT !.inflight = IF @ > 0 THEN @ - 1 ELSE 0]    \* once
Release(a, n) ==
  LET freed == [a EXCEPT !.inflight = IF @ > n THEN @ - n ELSE 0]
  IN  IF n > 0 /\ a.pages # <<>> THEN Schedule(freed) ELSE freed

Forget(a, q) == [a EXCEPT !.queries = @ \ {q}]

Without(pages, ch) ==
  FoldLeft(LAMBDA rest, g : IF g.ch = ch THEN rest ELSE Append(rest, g), <<>>, pages)

\* cancel_channel_mam
Cancel(a, ch) ==
  LET gone == {q \in a.queries : q.ch = ch}
  IN  Release([a EXCEPT !.queries = @ \ gone,
                        !.pages = Without(@, ch),
                        !.held = [p \in PMs |-> IF p = ch THEN <<>> ELSE @[p]]],
              Cardinality(gone))

\* reset_mam_sync
ResetSync(a) ==
  [a EXCEPT !.timer = FALSE, !.pages = <<>>, !.held = [p \in PMs |-> <<>>], !.queries = {},
            !.inflight = 0, !.jitter = FALSE]

\* channel::fetch_mam; after = 0 for the first page
Fetch(a, ch, id, start, end, after) ==
  IF after = 0 /\ \E q \in a.queries : q.ch = ch THEN a
  ELSE IF after = 0 /\ a.inflight >= MaxConcurrent
  THEN Postpone(a, Page(id, ch, start, end, 0, TRUE, FALSE))
  ELSE Send([a EXCEPT !.inflight = IF after = 0 THEN @ + 1 ELSE @,
                      !.queries = IF \E q \in @ : q.id = id THEN @
                                  ELSE @ \union {Query(id, ch, start, end, TRUE)}],
            id, ch, IF after = 0 THEN start ELSE after, end)

\* channel::~channel for a PM
Destroyed(a, p) == Unregister(SetLastTimestamp(ClearMessages(a, p), p, Closed), p)

\* channel::channel: what the cache has is shown, what came later is fetched
Constructed(a, p) ==
  LET last == IF LastTimestamp(a, p) = Closed THEN 0 ELSE LastTimestamp(a, p)
      b == SetLastTimestamp([a EXCEPT !.open = @ \union {p}, !.last_fetch[p] = last], p, last)
  IN  Fetch(IF last = 0 THEN b ELSE LoadMessages(b, p), p, FreshId(a), last, now, 0)

\* account.channels.emplace(make_pair(jid, channel{...})): the channel is copied into the
\* map, and the temporaries it is copied from are destroyed
Open(a, p) == Destroyed(Constructed(a, p), p)

\* defer_channel_mam_message's condition; id = 0 for a live message
Fetching(a, p, id) ==
  \/ \E q \in a.queries : q.ch = p /\ q.id # id
  \/ \E g \in Range(a.pages) : g.ch = p /\ g.after = 0

Hold(a, p, id, m) == [a EXCEPT !.held[p] = Append(@, [id |-> id, m |-> m])]
Show(a, m) == [a EXCEPT !.shown = @ \union {m}]

\* message_handler for a live message; the mutant makes the chat after it has looked for
\* its fetch
LiveMutant(a, m) ==
  LET p == archive[m]
  IN  IF p \in PMs /\ Fetching(a, p, 0) THEN Hold(a, p, 0, m)
      ELSE Show(IF p \in a.open \/ p \in Rooms THEN a ELSE Open(a, p), m)
Live(a, m) ==
  LET p == archive[m]
      opened == IF p \in a.open \/ p \in Rooms THEN a ELSE Open(a, p)
  IN  IF p \in PMs /\ Fetching(opened, p, 0) THEN Hold(opened, p, 0, m) ELSE Show(opened, m)

\* message_handler for an archived message: shown_now is its call of itself for the message
\* inside, which is not held back again
Result(a, id, m) ==
  LET p == archive[m]
      cached == CacheMessage(IF p \in PMs \ a.open /\ LastTimestamp(a, p) # Closed
                             THEN Open(a, p) ELSE a, m)
      shown_now == Show(IF p \in cached.open \/ p \in Rooms THEN cached ELSE Open(cached, p), m)
  IN  IF p \in PMs /\ Fetching(cached, p, id) THEN Hold(cached, p, id, m)
      ELSE IF m \in cached.shown /\ p \in cached.open THEN cached ELSE shown_now

Again(a, x) == IF x.id = 0 THEN Live(a, x.m) ELSE Result(a, x.id, x.m)

\* flush_channel_mam_messages
Flush(a, ch) ==
  IF ch \notin PMs \/ a.held[ch] = <<>> THEN a
  ELSE Commit(FoldLeft(Again, [a EXCEPT !.held[ch] = <<>>], a.held[ch]))

\* what follows the last answer to a query
Finish(a, q) ==
  LET done == Release(Forget(a, q), 1)
  IN  IF q.ch = Global THEN [done EXCEPT !.catchup = FALSE] ELSE Flush(done, q.ch)

\* handle_mam_fin_iq_event, by what the query was for
Checkpoint(a, q, complete) ==
  LET known == IF q.stable /\ complete /\ q.end > a.last_fetch[q.ch]
               THEN SetLastTimestamp([a EXCEPT !.last_fetch[q.ch] = q.end], q.ch, q.end) ELSE a
  IN  IF q.ch \in PMs THEN Register(known, q.ch) ELSE known

ChatPage(a, q, fin) ==
  IF fin.last # 0 /\ ~fin.complete
  THEN Postpone(a, Page(q.id, q.ch, q.start, q.end, fin.last, TRUE, FALSE))
  ELSE Finish(Checkpoint(a, q, fin.complete), q)

GlobalPage(a, q, fin) ==
  LET at == IF q.stable /\ fin.last # 0 THEN SetCursor(a, fin.last) ELSE a
  IN  IF fin.last # 0 /\ ~fin.complete
      THEN Postpone(Forget(at, q), Page(0, Global, q.start, q.end, fin.last, q.stable, TRUE))
      ELSE Finish(IF fin.complete THEN at ELSE a, q)

Fin(a, fin) ==
  LET committed == Commit(a)
      known == {q \in a.queries : q.id = fin.id}
  IN  IF known = {} THEN committed
      ELSE LET q == CHOOSE k \in known : TRUE
               q1 == [q EXCEPT !.stable = @ /\ fin.stable]
               b == [committed EXCEPT !.queries = (@ \ {q}) \union {q1}]
           IN  IF fin.abort THEN Finish(b, q1)
               ELSE IF q.ch \in a.open THEN ChatPage(b, q1, fin)
               ELSE IF q.ch = Global THEN GlobalPage(b, q1, fin) ELSE Cancel(b, q.ch)

\* handle_mam_query_iq_error
Refused(a, err) ==
  LET known == {q \in a.queries : q.id = err.id}
  IN  IF known = {} THEN a
      ELSE LET q == CHOOSE k \in known : TRUE
               id == FreshId(a)
           IN  IF q.ch = Global /\ err.stale
               THEN Send([ClearCursor(Forget(a, q))
                            EXCEPT !.queries = @ \union {Query(id, Global, 0, now, TRUE)}],
                         id, Global, 0, now)
               ELSE Finish(Commit(a), q)

\* the global half of process_deferred_mam_page_cb
NextGlobalPage(a, g) ==
  IF a.inflight >= MaxConcurrent /\ ~g.slot_held THEN [a EXCEPT !.pages = Append(@, g)]
  ELSE LET id == FreshId(a)
       IN  Send([a EXCEPT !.inflight = IF g.slot_held THEN @ ELSE @ + 1,
                          !.queries = @ \union {Query(id, Global, g.start, g.end, g.stable)}],
                id, Global, IF g.after = 0 THEN g.start ELSE g.after, g.end)

\* process_deferred_mam_page_cb
NextPage(a) ==
  LET g == Head(a.pages)
      rest == [a EXCEPT !.pages = Tail(@)]
      first == g.after = 0 /\ g.ch # Global
      b == IF first THEN [rest EXCEPT !.jitter = FALSE] ELSE rest
  IN  IF first /\ ~a.jitter THEN [a EXCEPT !.jitter = TRUE]
      ELSE IF g.ch = Global /\ a.inflight >= MaxConcurrent /\ ~g.slot_held
      THEN NextGlobalPage(b, g)
      ELSE LET done == IF g.ch = Global THEN NextGlobalPage(b, g)
                       ELSE IF g.ch \in a.open
                       THEN Fetch(b, g.ch, g.id, g.start, g.end, g.after) ELSE Cancel(b, g.ch)
           IN  [done EXCEPT !.timer = @ /\ done.pages # <<>>]

TimerCb(a) == IF a.pages = <<>> THEN [a EXCEPT !.timer = FALSE] ELSE NextPage(a)

-----------------------------------------------------------------------------
\* The user
Event == events < MaxEvents /\ events' = events + 1

OpenChat(p) ==
  /\ p \notin acct.open
  /\ acct' = Open(acct, p)
  /\ Event /\ UNCHANGED <<archive, s2c>>

\* buffer__close_cb
CloseChat(c) ==
  /\ c \in acct.open
  /\ LET cancelled == [Cancel(acct, c) EXCEPT !.open = @ \ {c}, !.joining = @ \ {c},
                                             !.shown = @ \ In({c})]
     IN  acct' = IF c \in PMs THEN Destroyed(cancelled, c) ELSE cancelled
  /\ Event /\ UNCHANGED <<archive, s2c>>

Join(r) ==
  /\ acct.up /\ r \notin acct.open
  /\ acct' = [acct EXCEPT !.open = @ \union {r}, !.joining = @ \union {r}, !.last_fetch[r] = 0]
  /\ Event /\ UNCHANGED <<archive, s2c>>

\* /mam
FetchCommand(c) ==
  /\ c \in acct.open
  /\ \E start \in 0..now : acct' = Fetch(acct, c, FreshId(acct), start, now, 0)
  /\ Event /\ UNCHANGED <<archive, s2c>>

\* presence_handler: the room's answer to a join (status 110)
SelfPresence(r) ==
  /\ acct.up /\ r \in acct.joining
  /\ LET last == IF acct.last_fetch[r] = 0 THEN LastTimestamp(acct, r) ELSE acct.last_fetch[r]
         here == [acct EXCEPT !.joining = @ \ {r}, !.last_fetch[r] = last]
     IN  acct' = Fetch(IF last = 0 THEN here ELSE LoadMessages(here, r),
                       r, FreshId(acct), 0, now, 0)
  /\ UNCHANGED <<archive, s2c, events>>

-----------------------------------------------------------------------------
\* Streams and crashes

\* run_post_connect_setup, after what it does for the other components: chats of earlier
\* runs are restored, rooms joined again; omemo::init has reset its catch-up flag, for a
\* resumed session too
Reopen(p, a) == Open(a, p)
Restore(a) ==
  FoldSet(Reopen, [a EXCEPT !.joining = a.open \intersect Rooms], OpenList(a) \ a.open)

Fresh ==
  /\ ~acct.up
  /\ \E sm \in BOOLEAN :
       /\ IF sm THEN UNCHANGED events ELSE Event
       /\ acct' = Restore(ResetSync([acct EXCEPT !.up = TRUE, !.sm = sm, !.probed = FALSE,
                                                 !.catchup = FALSE, !.out = <<>>]))
  /\ s2c' = <<>>
  /\ UNCHANGED archive

ResumeMutant ==    \* does not set the timer again
  /\ ~acct.up /\ acct.sm
  /\ acct' = Restore([acct EXCEPT !.up = TRUE, !.catchup = FALSE])
  /\ UNCHANGED <<archive, s2c, events>>
Resume ==
  /\ ~acct.up /\ acct.sm
  /\ LET up == [acct EXCEPT !.up = TRUE, !.catchup = FALSE]
     IN  acct' = Restore(IF up.pages = <<>> THEN up ELSE Schedule(up))
  /\ UNCHANGED <<archive, s2c, events>>

\* run_optional_server_probes, once the server has been asked what it can do
StartCatchup ==
  /\ acct.up /\ ~acct.probed
  /\ LET a == [acct EXCEPT !.probed = TRUE, !.catchup = TRUE]
         g == Page(0, Global, a.db.cursor, now, a.db.cursor, TRUE, FALSE)
     IN  acct' = IF a.inflight >= MaxConcurrent THEN Postpone(a, g) ELSE NextGlobalPage(a, g)
  /\ UNCHANGED <<archive, s2c, events>>

\* disconnect_impl: a resumable session waits, with what is underway in it
LinkLost ==
  /\ acct.up
  /\ LET a == [acct EXCEPT !.up = FALSE, !.timer = FALSE]
     IN  acct' = IF a.sm THEN a ELSE ResetSync([a EXCEPT !.out = <<>>])
  /\ s2c' = IF acct.sm THEN s2c ELSE <<>>
  /\ Event /\ UNCHANGED archive

\* The client stops, having written what it had batched or not.
Crash ==
  /\ \E last \in {acct, Commit(acct)} : acct' = Started(last.db)
  /\ s2c' = <<>>
  /\ Event /\ UNCHANGED archive

-----------------------------------------------------------------------------
\* The event loop
TimerFires ==
  /\ acct.timer
  /\ acct' = TimerCb(acct)
  /\ UNCHANGED <<archive, s2c, events>>

Receive ==
  /\ acct.up /\ s2c # <<>>
  /\ LET x == Head(s2c)
     IN  acct' = CASE x.kind = "live"   -> Live(acct, x.m)
                   [] x.kind = "result" -> Result(acct, x.id, x.m)
                   [] x.kind = "fin"    -> Fin(acct, x)
                   [] x.kind = "error"  -> Refused(acct, x)
  /\ s2c' = Tail(s2c)
  /\ UNCHANGED <<archive, events>>

-----------------------------------------------------------------------------
\* The server (external): a page is one message

Reply(replies, cost) ==
  /\ acct.up /\ acct.out # <<>>
  /\ events + cost <= MaxEvents /\ events' = events + cost
  /\ s2c' = s2c \o replies
  /\ acct' = [acct EXCEPT !.out = Tail(@)]
  /\ UNCHANGED archive

Asked == LET r == Head(acct.out)
         IN  {m \in In(IF r.ch = Global THEN PMs ELSE {r.ch}) : r.after < m /\ m <= r.end}

\* omitted: what an unstable archive leaves out
Answer(omitted, abort) ==
  LET left == Asked \ omitted
      last == IF left = {} \/ abort THEN 0 ELSE Min(left)
      id == Head(acct.out).id
  IN  (IF last = 0 THEN <<>> ELSE <<[kind |-> "result", id |-> id, m |-> last]>>)
      \o <<[kind |-> "fin", id |-> id, last |-> last, complete |-> Cardinality(left) <= 1,
            stable |-> omitted = {}, abort |-> abort]>>

Serve == acct.out # <<>> /\ Reply(Answer({}, FALSE), 0)
ServeUnstable == acct.out # <<>> /\ Asked # {} /\ Reply(Answer({Min(Asked)}, FALSE), 1)
ServeAbort == acct.out # <<>> /\ Reply(Answer({}, TRUE), 1)
ServeError ==
  /\ acct.out # <<>>
  /\ \E stale \in BOOLEAN :
       /\ stale => Head(acct.out).after # 0
       /\ Reply(<<[kind |-> "error", id |-> Head(acct.out).id, stale |-> stale]>>, 1)

\* somebody says something
Emit(c) ==
  /\ now < MaxArchive
  /\ archive' = Append(archive, c)
  /\ s2c' = IF (acct.up \/ acct.sm) /\ (c \in PMs \/ c \in acct.open)
            THEN Append(s2c, [kind |-> "live", id |-> 0, m |-> now + 1]) ELSE s2c
  /\ UNCHANGED <<acct, events>>

Init ==
  /\ archive = <<>>
  /\ acct = Started(EmptyDb)
  /\ s2c = <<>>
  /\ events = 0

Next == \/ \E p \in PMs : OpenChat(p)
        \/ \E r \in Rooms : Join(r) \/ SelfPresence(r)
        \/ \E c \in Channels : CloseChat(c) \/ FetchCommand(c) \/ Emit(c)
        \/ Fresh \/ Resume \/ StartCatchup \/ LinkLost \/ Crash
        \/ TimerFires \/ Receive
        \/ Serve \/ ServeUnstable \/ ServeAbort \/ ServeError

Spec == Init /\ [][Next]_vars

-----------------------------------------------------------------------------
\* The timer runs; a server answers; a lost stream is replaced (Reconnect).
\* WF_vars of each action, with its enabling condition spelled out.
Fairness == /\ []<>(~acct.timer) \/ []<><<TimerFires>>_vars
            /\ []<>~(acct.up /\ s2c # <<>>) \/ []<><<Receive>>_vars
            /\ []<>~(acct.up /\ acct.out # <<>>) \/ []<><<Serve>>_vars
            /\ []<>(acct.up) \/ []<><<Fresh \/ Resume>>_vars
            /\ []<>~(acct.up /\ ~acct.probed) \/ []<><<StartCatchup>>_vars
LiveSpec == Spec /\ Fairness

\* Type invariant.
TypeOK ==
  /\ archive \in Seq(Channels)
  /\ acct.open \subseteq Channels /\ acct.joining \subseteq acct.open \intersect Rooms
  /\ acct.shown \union acct.batch \union acct.db.cache \union acct.db.wiped \subseteq 1..now
  /\ acct.db.cursor \in 0..now /\ acct.db.registered \subseteq PMs
  /\ \A c \in Channels : acct.db.ts[c] \in (0..now) \union {Closed} /\ acct.last_fetch[c] \in 0..now
  /\ acct.inflight \in 0..MaxConcurrent
  /\ acct.timer => acct.up

\* Every slot belongs to a query or to a page of the global one that holds on to it: none
\* leaks (which would end catch-up for good), none is freed twice.
SlotsBalanced ==
  acct.inflight = Cardinality(acct.queries)
                  + Cardinality({i \in DOMAIN acct.pages : acct.pages[i].slot_held})

\* A message that is held back waits for a fetch that is underway or will be made.
HeldIsFetched == \A p \in PMs : acct.held[p] # <<>> => Fetching(acct, p, 0)

\* What is being fetched has its slot, and what waits for it is fetched.
FetchesAreTracked == SlotsBalanced /\ HeldIsFetched

\* The cursor in LMDB never passes a message that a crash could still lose: it is in the
\* cache, unless its chat has been closed since.
CursorIsStored ==
  \A m \in In(PMs) : m <= acct.db.cursor => m \in acct.db.cache \union acct.db.wiped

Underway(a, p) == {x \in a.queries \union Range(a.pages) : x.ch = p}
HeldBack(a, p) == {x.m : x \in Range(a.held[p])}

\* Neither a live message nor the global catch-up shows anything in a chat, be it opened
\* for it, before the older messages the chat's own fetch will bring (but see
\* ClosedStaysClosed for a chat that had been closed; a room's live messages are not held).
NothingOvertakes ==
  [][Receive => \A m \in In(PMs) \intersect (acct'.shown \ acct.shown) : \A x \in Underway(acct', archive[m]) :
       /\ archive[m] \in acct.open \/ acct.db.ts[archive[m]] # Closed
       /\ Head(s2c).id # x.id
       => \A k \in In({archive[m]}) :
            x.start < k /\ k <= x.end /\ k < m => k \in acct'.shown]_vars

\* iq_mam_handler: "Only checkpoint the interval actually queried": when the time up to
\* which a chat is known moves, all of the query's interval is in its buffer, or about to.
CheckpointIsShown ==
  [][\A p \in acct.open \intersect acct'.open \intersect PMs :
       acct'.last_fetch[p] # acct.last_fetch[p] =>
         \A q \in acct.queries, m \in In({p}) :
           q.id = Head(s2c).id /\ q.start < m /\ m <= acct'.last_fetch[p]
             => m \in acct'.shown \union HeldBack(acct', p)]_vars

\* Neither the cursor nor a checkpoint passes what a crash or a closed page could still lose.
NothingIsPassed == [][CursorIsStored']_vars /\ CheckpointIsShown

\* What is held back is shown in the end, and the flag that holds OMEMO's key transports
\* back is cleared, over lost streams, refusals and crashes.
CatchupEnds ==
  /\ \A p \in PMs : acct.held[p] # <<>> ~> acct.held[p] = <<>>
  /\ acct.catchup ~> ~acct.catchup

\* channel.cpp: "-1 = deliberately closed"
OpenIsNotClosed == \A p \in acct.open \intersect PMs : acct.db.ts[p] # Closed

\* channel.cpp: "Clear MAM cache for PM channels to prevent auto-recreation on reconnect"
ClosedStaysClosed ==
  [][\A p \in PMs \ acct.open :
       Receive /\ acct.db.ts[p] = Closed /\ Head(s2c).kind = "result" => p \notin acct'.open]_vars

\* account.cpp: "fresh-session setup discards it before starting replacement fetches": what
\* the catch-up has passed is in its chat's buffer, or a fetch will bring it.
CaughtUpIsShown ==
  \A p \in acct.open \intersect PMs, m \in 1..now :
    archive[m] = p /\ m <= acct.db.cursor =>
      m \in acct.shown \union HeldBack(acct, p) \/ Underway(acct, p) # {}

=============================================================================
