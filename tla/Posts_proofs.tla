----------------------------- MODULE Posts_proofs -----------------------------
(***************************************************************************)
(* Feeds, and the uploads their posts wait for.                            *)
(*                                                                         *)
(* A feed comes back by itself only if the user asked for it, and what     *)
(* LMDB has as seen was shown, once; for any feeds, items and numbers of   *)
(* requests in flight, in whatever order answers, notifications and losses *)
(* of the stream come.  Inv is preserved by every action of Feeds.         *)
(*                                                                         *)
(* Whichever of the hook, the timer and the disconnection comes first, a   *)
(* job ends once and its thread is joined, and a post gets the URLs of its *)
(* own files in order; for any number of jobs and of files, whatever       *)
(* fails.  UploadInv is preserved by every action of Uploads.              *)
(***************************************************************************)
EXTENDS MCPosts, FiniteSetTheorems, SequenceTheorems, WellFoundedInduction, TLAPS

-----------------------------------------------------------------------------
(* Feeds: the inductive invariant.                                         *)

\* A query to the archive is for a feed that is open; the items it brings are not looked at
\* twice.
IsRequest(r, open) ==
  {"kind", "feed", "what", "arg"} \subseteq DOMAIN r /\ (r.kind = "archive" => r.feed \in open)

Typed ==
  /\ DOMAIN acct = {"channels", "open", "seen", "cursor", "deferred", "services"}
  /\ DOMAIN hist = {"wanted", "loaded", "drawn", "again"}
  /\ acct.seen = [f \in Feeds |-> acct.seen[f]] /\ acct.open \subseteq Feeds

Asked == \A r \in DOMAIN pending : IsRequest(r, acct.open)

Inv == Typed /\ Asked /\ RegistryIsTrue

-----------------------------------------------------------------------------
(* The requests in flight.                                                 *)

LEMMA SendFacts ==
  ASSUME NEW S, Send(S)
  PROVE  DOMAIN pending' = DOMAIN pending \union S
BY DEF Send, (+), SetToBag

LEMMA SwapFacts ==
  ASSUME NEW r, NEW S, Swap(r, S)
  PROVE  DOMAIN pending' \subseteq DOMAIN pending \union S
<1>1. DOMAIN (pending (-) SetToBag({r})) \subseteq DOMAIN pending
  BY DEF (-), SetToBag
<1>2. DOMAIN pending' = DOMAIN (pending (-) SetToBag({r})) \union S
  BY DEF Swap, (+), SetToBag
<1> QED BY <1>1, <1>2

LEMMA RequestFacts ==
  ASSUME NEW kind, NEW f, NEW what, NEW arg, NEW open, kind # "archive" \/ f \in open
  PROVE  IsRequest(Request(kind, f, what, arg), open)
BY DEF IsRequest, Request

\* A request for items, a question or a posting.
LEMMA PlainRequests ==
  ASSUME NEW open, NEW f, NEW n
  PROVE  /\ IsRequest(PageOf(f, n), open) /\ IsRequest(Latest(f), open)
         /\ IsRequest(FromEnd(f, n), open) /\ IsRequest(ItemOf(f, n), open)
         /\ IsRequest(NodeOf(f), open) /\ IsRequest(Disco, open)
         /\ IsRequest(Listing(n), open) /\ IsRequest(Post(f), open)
         /\ IsRequest(Retraction(f, n), open)
BY RequestFacts DEF PageOf, Latest, FromEnd, ItemOf, NodeOf, Disco, Listing, Post, Retraction

-----------------------------------------------------------------------------
(* What the steps have in common.                                          *)

\* Feeds that the user asked for are opened; what is asked is for open feeds.
LEMMA Opening ==
  ASSUME Inv, NEW F \in SUBSET Feeds,
         DOMAIN acct' = DOMAIN acct, acct'.seen = acct.seen,
         acct'.open = acct.open \union F, acct'.channels \subseteq acct.open \union F,
         DOMAIN hist' = DOMAIN hist, hist'.drawn = hist.drawn, hist'.again = hist.again,
         hist.wanted \union F \subseteq hist'.wanted,
         \A r \in DOMAIN pending' : r \in DOMAIN pending \/ IsRequest(r, acct.open \union F)
  PROVE  Inv'
<1>1. Typed'
  BY DEF Inv, Typed
<1>2. Asked'
  BY DEF Inv, Asked, IsRequest
<1>3. RegistryIsTrue'
  BY DEF Inv, RegistryIsTrue, OpenIsWanted, SeenIsShown
<1> QED BY <1>1, <1>2, <1>3 DEF Inv

\* The registry stays as it is.
LEMMA Quietly ==
  ASSUME Inv, DOMAIN acct' = DOMAIN acct, acct'.seen = acct.seen,
         acct'.open = acct.open, acct'.channels \subseteq acct.open,
         DOMAIN hist' = DOMAIN hist, hist'.drawn = hist.drawn, hist'.again = hist.again,
         hist'.wanted = hist.wanted,
         \A r \in DOMAIN pending' : r \in DOMAIN pending \/ IsRequest(r, acct.open)
  PROVE  Inv'
<1>1. PICK F \in SUBSET Feeds : F = {}
  OBVIOUS
<1>2. acct.open \union F = acct.open /\ hist.wanted \union F = hist.wanted
  BY <1>1
<1> QED BY <1>2, Opening

LEMMA NoAnswer ==
  ASSUME Inv, acct' = acct, hist' = hist,
         \A r \in DOMAIN pending' : r \in DOMAIN pending \/ IsRequest(r, acct.open)
  PROVE  Inv'
BY Quietly DEF Inv, RegistryIsTrue, OpenIsWanted

LEMMA OneMore ==
  ASSUME Inv, acct' = acct, hist' = hist, NEW r, IsRequest(r, acct.open), Send({r})
  PROVE  Inv'
<1>1. DOMAIN pending' = DOMAIN pending \union {r}
  BY SendFacts
<1> QED BY <1>1, NoAnswer

\* Items are shown in a feed that is open, and marked.
LEMMA Showing ==
  ASSUME Inv, NEW f \in acct.open, NEW S, NEW D, S \union acct.seen[f] = D \union acct.seen[f],
         DOMAIN acct' = DOMAIN acct, acct'.open = acct.open,
         acct'.channels \subseteq acct.open, acct'.seen = [acct.seen EXCEPT ![f] = @ \union S],
         DOMAIN hist' = DOMAIN hist, hist'.drawn = [hist.drawn EXCEPT ![f] = @ \union D],
         hist'.again = {}, hist'.wanted = hist.wanted,
         \A r \in DOMAIN pending' : r \in DOMAIN pending \/ IsRequest(r, acct.open)
  PROVE  Inv'
<1>1. acct'.seen = [g \in Feeds |-> acct'.seen[g]]
  BY DEF Inv, Typed
<1>2. acct'.seen = hist'.drawn
  <2>1. acct.seen[f] \union S = hist.drawn[f] \union D
    BY DEF Inv, RegistryIsTrue, SeenIsShown
  <2> QED BY <2>1 DEF Inv, RegistryIsTrue, SeenIsShown
<1>3. Typed'
  BY <1>1 DEF Inv, Typed
<1>4. Asked'
  BY DEF Inv, Asked, IsRequest
<1>5. RegistryIsTrue'
  BY <1>2 DEF Inv, RegistryIsTrue, OpenIsWanted, SeenIsShown
<1> QED BY <1>3, <1>4, <1>5 DEF Inv

\* Feeds that the user closes: nothing more is asked for them.
LEMMA Dismissing ==
  ASSUME Inv, NEW F, acct' = Dismissed(acct, F), pending' = Left(F),
         hist' = [hist EXCEPT !.wanted = @ \ F, !.loaded = @ \ F]
  PROVE  Inv'
<1>1. /\ DOMAIN acct' = DOMAIN acct /\ acct'.seen = acct.seen
      /\ acct'.channels = acct.channels \ F /\ acct'.open = acct.open \ F
  BY DEF Inv, Typed, Dismissed
<1>2. /\ DOMAIN hist' = DOMAIN hist /\ hist'.drawn = hist.drawn /\ hist'.again = hist.again
      /\ hist'.wanted = hist.wanted \ F
  BY DEF Inv, Typed
<1>3. Typed'
  BY <1>1, <1>2 DEF Inv, Typed
<1>4. \A r \in DOMAIN pending' : r \in DOMAIN pending /\ ~(r.kind \in {"items", "archive"} /\ r.feed \in F)
  BY DEF Left, BagToSet
<1>5. Asked'
  BY <1>1, <1>4 DEF Inv, Asked, IsRequest
<1>6. RegistryIsTrue'
  BY <1>1, <1>2 DEF Inv, RegistryIsTrue, OpenIsWanted, SeenIsShown
<1> QED BY <1>3, <1>5, <1>6 DEF Inv

-----------------------------------------------------------------------------
(* The user.                                                               *)

LEMMA InitInv == Init => Inv
<1> SUFFICES ASSUME Init PROVE Inv
  OBVIOUS
<1>1. DOMAIN pending = {}
  BY DEF Init, EmptyBag, SetToBag
<1>2. Typed
  BY DEF Init, Typed, None
<1>3. RegistryIsTrue
  BY DEF Init, RegistryIsTrue, OpenIsWanted, SeenIsShown
<1> QED BY <1>1, <1>2, <1>3 DEF Inv, Asked

\* One feed is opened, and its items are asked for.
LEMMA OpenStep ==
  ASSUME Inv, NEW f \in Feeds, NEW n, NEW r \in {Latest(f), PageOf(f, n)}, Send({r}), Wants({f}),
         DOMAIN acct' = DOMAIN acct, acct'.seen = acct.seen,
         acct'.open = acct.open \union {f}, acct'.channels = acct.channels \union {f}
  PROVE  Inv'
<1>1. DOMAIN pending' = DOMAIN pending \union {r}
  BY SendFacts
<1>2. IsRequest(r, acct.open \union {f})
  BY PlainRequests
<1>3. /\ DOMAIN hist' = DOMAIN hist /\ hist'.drawn = hist.drawn /\ hist'.again = hist.again
      /\ hist'.wanted = hist.wanted \union {f}
  BY DEF Wants, Inv, Typed
<1>4. acct'.channels \subseteq acct.open \union {f}
  BY DEF Inv, RegistryIsTrue, OpenIsWanted
<1> QED BY <1>1, <1>2, <1>3, <1>4, Opening

LEMMA UserStep == ASSUME Inv, User PROVE Inv'
<1>1. ASSUME NEW f \in Feeds, NEW latest \in BOOLEAN, FeedOpen(f, latest)
      PROVE  Inv'
  <2>1. /\ DOMAIN acct' = DOMAIN acct /\ acct'.seen = acct.seen
        /\ acct'.open = acct.open \union {f} /\ acct'.channels = acct.channels \union {f}
    BY <1>1 DEF FeedOpen, Opened, Inv, Typed
  <2>2. PICK r \in {Latest(f), PageOf(f, acct.cursor[f])} : Send({r})
    BY <1>1 DEF FeedOpen
  <2> QED BY <1>1, <2>1, <2>2, OpenStep DEF FeedOpen
<1>2. ASSUME NEW f \in Feeds, FeedComments(f)
      PROVE  Inv'
  <2>1. /\ DOMAIN acct' = DOMAIN acct /\ acct'.seen = acct.seen
        /\ acct'.open = acct.open \union {f} /\ acct'.channels = acct.channels \union {f}
    BY <1>2 DEF FeedComments, Opened, Inv, Typed
  <2>2. Latest(f) \in {Latest(f), PageOf(f, 0)}
    OBVIOUS
  <2> QED BY <1>2, <2>1, <2>2, OpenStep DEF FeedComments
<1>3. ASSUME NEW what, FeedList(what)
      PROVE  Inv'
  <2>1. acct' = acct /\ hist' = hist /\ Send({Listing(what)})
    BY <1>3 DEF FeedList
  <2> QED BY <2>1, OneMore, PlainRequests
<1>4. ASSUME NEW f \in Feeds, CloseBuffer(f)
      PROVE  Inv'
  <2>1. CASE Up
    BY <1>4, <2>1, Dismissing DEF CloseBuffer
  <2>2. CASE ~Up
    <3>1. /\ acct' = [acct EXCEPT !.channels = @ \ {f}] /\ pending' = pending /\ hist' = hist
      BY <1>4, <2>2 DEF CloseBuffer
    <3>2. /\ DOMAIN acct' = DOMAIN acct /\ acct'.seen = acct.seen
          /\ acct'.open = acct.open /\ acct'.channels \subseteq acct.open
      BY <3>1 DEF Inv, Typed, RegistryIsTrue, OpenIsWanted
    <3> QED BY <3>1, <3>2, Quietly
  <2> QED BY <2>1, <2>2
<1>5. CASE FeedClose
  BY <1>5, Dismissing DEF FeedClose
<1>6. ASSUME NEW f \in Feeds, FeedPost(f)
      PROVE  Inv'
  <2>1. acct' = acct /\ hist' = hist
    BY <1>6 DEF FeedPost
  <2>2. CASE Send({Post(f)})
    BY <2>1, <2>2, OneMore, PlainRequests
  <2>3. ASSUME NEW i, Send({Retraction(f, i)})
        PROVE  Inv'
    BY <2>1, <2>3, OneMore, PlainRequests
  <2> QED BY <1>6, <2>2, <2>3 DEF FeedPost
<1> QED BY <1>1, <1>2, <1>3, <1>4, <1>5, <1>6 DEF User

-----------------------------------------------------------------------------
(* Notifications.                                                          *)

\* What a feed shows with the items of S.
LEMMA ShownFacts ==
  ASSUME Inv, NEW a, DOMAIN a = DOMAIN acct, a.seen = acct.seen, a.open = acct.open,
         a.channels \subseteq acct.open, NEW f \in acct.open, NEW S
  PROVE  /\ DOMAIN Shown(a, f, S) = DOMAIN acct /\ Shown(a, f, S).open = acct.open
         /\ Shown(a, f, S).channels \subseteq acct.open
         /\ Shown(a, f, S).seen = [acct.seen EXCEPT ![f] = @ \union S]
BY DEF Shown, Inv, Typed

LEMMA DrawnFacts ==
  ASSUME Inv, NEW f \in acct.open, NEW D, NEW unasked \in BOOLEAN,
         unasked => D \intersect acct.seen[f] = {}
  PROVE  /\ DOMAIN Drawn(f, D, unasked) = DOMAIN hist
         /\ Drawn(f, D, unasked).wanted = hist.wanted
         /\ Drawn(f, D, unasked).again = {}
         /\ Drawn(f, D, unasked).drawn = [hist.drawn EXCEPT ![f] = @ \union D]
<1>1. hist.again = {} /\ hist.drawn = acct.seen
  BY DEF Inv, RegistryIsTrue, SeenIsShown
<1>2. DOMAIN hist = {"wanted", "loaded", "drawn", "again"}
  BY DEF Inv, Typed
<1>3. hist.again \union (IF unasked THEN {<<f, i>> : i \in D \intersect hist.drawn[f]} ELSE {}) = {}
  BY <1>1
<1> QED BY <1>2, <1>3 DEF Drawn

\* Nothing is shown that was not: the buffer comes back.
LEMMA ShownNone ==
  ASSUME Inv, NEW f \in acct.open, acct' = Shown(acct, f, {}), hist' = hist,
         \A r \in DOMAIN pending' : r \in DOMAIN pending \/ IsRequest(r, acct.open)
  PROVE  Inv'
<1>1. acct.channels \subseteq acct.open
  BY DEF Inv, RegistryIsTrue, OpenIsWanted
<1>2. /\ DOMAIN acct' = DOMAIN acct /\ acct'.open = acct.open /\ acct'.channels \subseteq acct.open
      /\ acct'.seen = [acct.seen EXCEPT ![f] = @ \union {}]
  BY <1>1, ShownFacts
<1>3. acct'.seen = acct.seen
  <2>1. acct.seen = [g \in Feeds |-> acct.seen[g]] /\ f \in Feeds
    BY DEF Inv, Typed
  <2>2. acct.seen[f] \union {} = acct.seen[f]
    OBVIOUS
  <2> QED BY <1>2, <2>1, <2>2
<1> QED BY <1>2, <1>3, Quietly

\* Items that were not shown are, on their own account.
LEMMA ShownAlone ==
  ASSUME Inv, NEW f \in acct.open, NEW S, NEW D, S \union acct.seen[f] = D \union acct.seen[f],
         D \intersect acct.seen[f] = {}, acct' = Shown(acct, f, S), hist' = Drawn(f, D, TRUE),
         \A r \in DOMAIN pending' : r \in DOMAIN pending \/ IsRequest(r, acct.open)
  PROVE  Inv'
<1>1. acct.channels \subseteq acct.open
  BY DEF Inv, RegistryIsTrue, OpenIsWanted
<1>2. /\ DOMAIN acct' = DOMAIN acct /\ acct'.open = acct.open
      /\ acct'.channels \subseteq acct.open
      /\ acct'.seen = [acct.seen EXCEPT ![f] = @ \union S]
  BY <1>1, ShownFacts
<1>3. /\ DOMAIN hist' = DOMAIN hist /\ hist'.wanted = hist.wanted /\ hist'.again = {}
      /\ hist'.drawn = [hist.drawn EXCEPT ![f] = @ \union D]
  <2>1. PICK unasked \in BOOLEAN : unasked = TRUE
    OBVIOUS
  <2> QED BY <2>1, DrawnFacts
<1> QED BY <1>2, <1>3, Showing

LEMMA PushStep == ASSUME Inv, Push PROVE Inv'
<1> DEFINE p == Head(pushes)
           new == p.item \notin acct.seen[p.feed]
<1>1. CASE p.feed \notin acct.open
  <2>1. acct' = acct /\ hist' = hist /\ pending' = pending
    BY <1>1 DEF Push
  <2> QED BY <2>1, NoAnswer
<1>2. ASSUME p.feed \in acct.open, acct' = Shown(acct, p.feed, {}), hist' = hist,
             NEW r \in {NodeOf(p.feed), ItemOf(p.feed, p.item)}, Send({r})
      PROVE  Inv'
  <2>1. DOMAIN pending' = DOMAIN pending \union {r}
    BY <1>2, SendFacts
  <2>2. IsRequest(r, acct.open)
    BY PlainRequests
  <2> HIDE DEF p
  <2> QED BY <1>2, <2>1, <2>2, ShownNone
<1>3. ASSUME p.feed \in acct.open, p.full \/ ~new, acct' = Shown(acct, p.feed, {p.item}),
             hist' = Drawn(p.feed, IF new THEN {p.item} ELSE {}, TRUE), pending' = pending
      PROVE  Inv'
  <2> DEFINE D == IF new THEN {p.item} ELSE {}
  <2>1. D \intersect acct.seen[p.feed] = {}
    OBVIOUS
  <2>2. {p.item} \union acct.seen[p.feed] = D \union acct.seen[p.feed]
    OBVIOUS
  <2>3. hist' = Drawn(p.feed, D, TRUE)
    BY <1>3
  <2> HIDE DEF p, D, new
  <2> QED BY <1>3, <2>1, <2>2, <2>3, ShownAlone
<1>4. CASE p.feed \in acct.open
  <2>1. \/ \E r \in {NodeOf(p.feed), ItemOf(p.feed, p.item)} :
             acct' = Shown(acct, p.feed, {}) /\ hist' = hist /\ Send({r})
        \/ /\ p.full \/ ~new
           /\ acct' = Shown(acct, p.feed, {p.item}) /\ pending' = pending
           /\ hist' = Drawn(p.feed, IF new THEN {p.item} ELSE {}, TRUE)
    BY <1>4 DEF Push
  <2> QED BY <1>2, <1>3, <1>4, <2>1
<1> QED BY <1>1, <1>4

-----------------------------------------------------------------------------
(* The answers.                                                            *)

LEMMA ItemsStep ==
  ASSUME Inv, NEW r, ItemsResult(r) \/ ItemsError(r)
  PROVE  Inv'
<1>0. acct.channels \subseteq acct.open
  BY DEF Inv, RegistryIsTrue, OpenIsWanted
<1>1. CASE ItemsError(r)
  <2>1. /\ acct' = acct /\ Swap(r, {})
        /\ hist' = hist \/ hist' = Loaded(hist, r.feed)
    BY <1>1 DEF ItemsError
  <2>2. /\ DOMAIN hist' = DOMAIN hist /\ hist'.drawn = hist.drawn /\ hist'.again = hist.again
        /\ hist'.wanted = hist.wanted
    BY <2>1 DEF Loaded, Inv, Typed
  <2>3. DOMAIN pending' \subseteq DOMAIN pending
    BY <2>1, SwapFacts
  <2> QED BY <1>0, <2>1, <2>2, <2>3, Quietly
<1>2. CASE ItemsResult(r) /\ r.feed \notin acct.open
  <2>1. acct' = acct /\ hist' = hist /\ Swap(r, {})
    BY <1>2 DEF ItemsResult
  <2>2. DOMAIN pending' \subseteq DOMAIN pending
    BY <2>1, SwapFacts
  <2> QED BY <2>1, <2>2, NoAnswer
<1>3. CASE ItemsResult(r) /\ r.feed \in acct.open
  <2> DEFINE f == r.feed
             b == Opened(acct, {f})
  <2>1. /\ DOMAIN b = DOMAIN acct /\ b.seen = acct.seen /\ b.open = acct.open
        /\ b.channels \subseteq acct.open
    BY <1>0, <1>3 DEF Opened, Inv, Typed
  <2>2. ASSUME NEW n, Swap(r, {FromEnd(f, n)}), acct' = b, hist' = hist
        PROVE  Inv'
    <3>1. DOMAIN pending' \subseteq DOMAIN pending \union {FromEnd(f, n)}
      BY <2>2, SwapFacts
    <3>2. IsRequest(FromEnd(f, n), acct.open)
      BY PlainRequests
    <3> HIDE DEF b
    <3> QED BY <2>1, <2>2, <3>1, <3>2, Quietly
  <2>3. ASSUME NEW S, Swap(r, {}), acct' = Shown(b, f, S),
               hist' = Drawn(f, S, FALSE) \/ hist' = Loaded(Drawn(f, S, FALSE), f)
        PROVE  Inv'
    <3>1. DOMAIN pending' \subseteq DOMAIN pending
      BY <2>3, SwapFacts
    <3> HIDE DEF b
    <3>2. /\ DOMAIN acct' = DOMAIN acct /\ acct'.open = acct.open
          /\ acct'.channels \subseteq acct.open
          /\ acct'.seen = [acct.seen EXCEPT ![f] = @ \union S]
      BY <1>3, <2>1, <2>3, ShownFacts
    <3> DEFINE h == Drawn(f, S, FALSE)
    <3>3. /\ DOMAIN h = DOMAIN hist /\ h.wanted = hist.wanted /\ h.again = {}
          /\ h.drawn = [hist.drawn EXCEPT ![f] = @ \union S]
      <4>1. PICK unasked \in BOOLEAN : unasked = FALSE
        OBVIOUS
      <4> QED BY <1>3, <4>1, DrawnFacts
    <3> HIDE DEF h
    <3>4. /\ DOMAIN hist' = DOMAIN hist /\ hist'.wanted = hist.wanted /\ hist'.again = {}
          /\ hist'.drawn = [hist.drawn EXCEPT ![f] = @ \union S]
      <4>1. DOMAIN hist = {"wanted", "loaded", "drawn", "again"} /\ (hist' = h \/ hist' = Loaded(h, f))
        BY <2>3 DEF Inv, Typed, h
      <4> QED BY <3>3, <4>1 DEF Loaded
    <3> HIDE DEF f
    <3>5. f \in acct.open
      BY <1>3 DEF f
    <3> QED BY <3>1, <3>2, <3>4, <3>5, Showing
  <2>4. \/ \E n : Swap(r, {FromEnd(f, n)}) /\ acct' = b /\ hist' = hist
        \/ \E S : /\ Swap(r, {}) /\ acct' = Shown(b, f, S)
                  /\ \/ hist' = Drawn(f, S, FALSE)
                     \/ hist' = Loaded(Drawn(f, S, FALSE), f)
    BY <1>3 DEF ItemsResult
  <2> HIDE DEF b, f
  <2> QED BY <2>2, <2>3, <2>4
<1> QED BY <1>1, <1>2, <1>3

\* An archive is told of, and asked for, while its feed is open.
LEMMA ArchiveStep ==
  ASSUME Inv, NEW r \in DOMAIN pending, r.kind = "archive",
         ArchiveAnswer(r) \/ ArchiveResult(r) \/ ArchiveFin(r) \/ ArchiveError(r)
  PROVE  Inv'
<1>0. /\ acct.channels \subseteq acct.open
      /\ r.feed \in acct.open /\ {"kind", "feed", "what", "arg"} \subseteq DOMAIN r
  BY DEF Inv, RegistryIsTrue, OpenIsWanted, Asked, IsRequest
<1>1. CASE ArchiveAnswer(r)
  <2>1. PICK todo, last : Swap(r, {Results(r.feed, todo, last)})
    BY <1>1 DEF ArchiveAnswer
  <2>2. acct' = acct /\ hist' = hist
    BY <1>1 DEF ArchiveAnswer
  <2>3. IsRequest(Results(r.feed, todo, last), acct.open)
    BY <1>0 DEF IsRequest, Results
  <2>4. DOMAIN pending' \subseteq DOMAIN pending \union {Results(r.feed, todo, last)}
    BY <2>1, SwapFacts
  <2> QED BY <2>2, <2>3, <2>4, NoAnswer
<1>2. CASE ArchiveResult(r)
  <2> DEFINE S == {Head(r.todo)} \ acct.seen[r.feed]
             s == [r EXCEPT !.todo = Tail(@)]
  <2>1. /\ Swap(r, {s}) /\ acct' = Shown(acct, r.feed, S) /\ hist' = Drawn(r.feed, S, TRUE)
    BY <1>2 DEF ArchiveResult
  <2>2. IsRequest(s, acct.open)
    <3>1. DOMAIN s = DOMAIN r /\ s.kind = r.kind /\ s.feed = r.feed
      BY <1>0
    <3> QED BY <1>0, <3>1 DEF IsRequest
  <2>3. DOMAIN pending' \subseteq DOMAIN pending \union {s}
    BY <2>1, SwapFacts
  <2>4. S \intersect acct.seen[r.feed] = {}
    OBVIOUS
  <2> HIDE DEF S, s
  <2> QED BY <1>0, <2>1, <2>2, <2>3, <2>4, ShownAlone
<1>3. CASE ArchiveFin(r)
  <2>1. /\ Swap(r, {}) /\ hist' = Loaded(hist, r.feed)
        /\ acct' \in {acct, [acct EXCEPT !.cursor[r.feed] = r.arg]}
    BY <1>3 DEF ArchiveFin
  <2>2. /\ DOMAIN hist' = DOMAIN hist /\ hist'.drawn = hist.drawn /\ hist'.again = hist.again
        /\ hist'.wanted = hist.wanted
    BY <2>1 DEF Loaded, Inv, Typed
  <2>3. /\ DOMAIN acct' = DOMAIN acct /\ acct'.seen = acct.seen
        /\ acct'.open = acct.open /\ acct'.channels = acct.channels
    BY <2>1 DEF Inv, Typed
  <2>4. DOMAIN pending' \subseteq DOMAIN pending
    BY <2>1, SwapFacts
  <2> QED BY <1>0, <2>2, <2>3, <2>4, Quietly
<1>4. CASE ArchiveError(r)
  <2>1. acct' = acct /\ hist' = hist /\ Swap(r, {Latest(r.feed)})
    BY <1>4 DEF ArchiveError
  <2>2. DOMAIN pending' \subseteq DOMAIN pending \union {Latest(r.feed)}
    BY <2>1, SwapFacts
  <2> QED BY <2>1, <2>2, NoAnswer, PlainRequests
<1> QED BY <1>1, <1>2, <1>3, <1>4

\* What was deferred is asked for if it is still open.
LEMMA DiscoStep ==
  ASSUME Inv, NEW r, (\E archives \in BOOLEAN : DiscoResult(r, archives)) \/ DiscoError(r)
  PROVE  Inv'
<1> DEFINE F == acct.deferred \intersect acct.open
<1>0. acct.channels \subseteq acct.open
  BY DEF Inv, RegistryIsTrue, OpenIsWanted
<1>1. /\ hist' = hist
      /\ \/ /\ Swap(r, {Archive(f) : f \in F})
            /\ acct' = [acct EXCEPT !.deferred = {}, !.services = TRUE]
         \/ /\ Swap(r, {Latest(f) : f \in F})
            /\ acct' = [acct EXCEPT !.deferred = {}]
  BY DEF DiscoResult, DiscoError, Flush
<1>2. /\ DOMAIN acct' = DOMAIN acct /\ acct'.seen = acct.seen
      /\ acct'.open = acct.open /\ acct'.channels = acct.channels
  BY <1>1 DEF Inv, Typed
<1>3. \A f \in F : IsRequest(Archive(f), acct.open) /\ IsRequest(Latest(f), acct.open)
  BY PlainRequests, RequestFacts DEF Archive
<1>4. \/ DOMAIN pending' \subseteq DOMAIN pending \union {Archive(f) : f \in F}
      \/ DOMAIN pending' \subseteq DOMAIN pending \union {Latest(f) : f \in F}
  BY <1>1, SwapFacts
<1>5. \A s \in DOMAIN pending' : s \in DOMAIN pending \/ IsRequest(s, acct.open)
  BY <1>3, <1>4
<1> QED BY <1>0, <1>1, <1>2, <1>5, Quietly

LEMMA ListStep ==
  ASSUME Inv, NEW r, (\E F \in SUBSET Nodes : Subscribed(r, F) \/ Discovered(r, F)) \/ Refused(r)
  PROVE  Inv'
<1>0. acct.channels \subseteq acct.open
  BY DEF Inv, RegistryIsTrue, OpenIsWanted
<1>1. ASSUME NEW F \in SUBSET Nodes, Subscribed(r, F) \/ Discovered(r, F)
      PROVE  Inv'
  <2>1. F \in SUBSET Feeds
    BY DEF Nodes
  <2>2. /\ DOMAIN acct' = DOMAIN acct /\ acct'.seen = acct.seen
        /\ acct'.open = acct.open \union F /\ acct'.channels = acct.channels \union F
    BY <1>0, <1>1 DEF Subscribed, Discovered, Opened, Inv, Typed
  <2>3. /\ DOMAIN hist' = DOMAIN hist /\ hist'.drawn = hist.drawn /\ hist'.again = hist.again
        /\ hist'.wanted = hist.wanted \union F
    BY <1>1 DEF Subscribed, Discovered, Wants, Inv, Typed
  <2>4. \/ DOMAIN pending' \subseteq DOMAIN pending \union {Latest(f) : f \in F}
        \/ DOMAIN pending' \subseteq DOMAIN pending \union {PageOf(f, acct.cursor[f]) : f \in F}
    BY <1>1, SwapFacts DEF Subscribed, Discovered
  <2>5. \A s \in DOMAIN pending' : s \in DOMAIN pending \/ IsRequest(s, acct.open \union F)
    BY <2>4, PlainRequests
  <2> QED BY <1>0, <2>1, <2>2, <2>3, <2>5, Opening
<1>2. CASE Refused(r)
  <2>1. acct' = acct /\ hist' = hist /\ Swap(r, {})
    BY <1>2 DEF Refused
  <2>2. DOMAIN pending' \subseteq DOMAIN pending
    BY <2>1, SwapFacts
  <2> QED BY <2>1, <2>2, NoAnswer
<1> QED BY <1>1, <1>2

LEMMA PublishStep == ASSUME Inv, NEW r, Published(r) \/ Refused(r) PROVE Inv'
<1>1. acct' = acct /\ hist' = hist
  BY DEF Published, Refused
<1>2. PICK S : Swap(r, S) /\ \A s \in S : IsRequest(s, acct.open)
  <2>1. CASE Refused(r)
    BY <2>1 DEF Refused
  <2>2. CASE Published(r)
    <3>1. PICK s : Swap(r, {s}) /\ \E f, n : s = ItemOf(f, n) \/ s = NodeOf(f)
      BY <2>2 DEF Published
    <3> QED BY <3>1, PlainRequests
  <2> QED BY <2>1, <2>2
<1>3. DOMAIN pending' \subseteq DOMAIN pending \union S
  BY <1>2, SwapFacts
<1> QED BY <1>1, <1>2, <1>3, NoAnswer

LEMMA AnswerStep == ASSUME Inv, NEW r \in DOMAIN pending, Answer(r) PROVE Inv'
<1>1. CASE r.kind = "items" /\ (ItemsResult(r) \/ ItemsError(r))
  BY <1>1, ItemsStep
<1>2. CASE r.kind = "archive" /\ (ArchiveAnswer(r) \/ ArchiveResult(r) \/ ArchiveFin(r) \/ ArchiveError(r))
  BY <1>2, ArchiveStep
<1>3. CASE (\E archives \in BOOLEAN : DiscoResult(r, archives)) \/ DiscoError(r)
  BY <1>3, DiscoStep
<1>4. CASE (\E F \in SUBSET Nodes : Subscribed(r, F) \/ Discovered(r, F)) \/ Refused(r)
  BY <1>4, ListStep
<1>5. CASE Published(r) \/ Refused(r)
  BY <1>5, PublishStep
<1> QED BY <1>1, <1>2, <1>3, <1>4, <1>5 DEF Answer

-----------------------------------------------------------------------------
(* The connection.                                                         *)

LEMMA LoseStep == ASSUME Inv, NEW resumable \in BOOLEAN, Lose(resumable) PROVE Inv'
<1>1. CASE resumable
  <2>1. acct' = acct /\ hist' = hist /\ pending' = pending
    BY <1>1 DEF Lose
  <2> QED BY <2>1, NoAnswer
<1>2. CASE ~resumable
  <2>1. acct' = [acct EXCEPT !.deferred = {}] /\ hist' = hist /\ pending' = EmptyBag
    BY <1>2 DEF Lose
  <2>2. /\ DOMAIN acct' = DOMAIN acct /\ acct'.seen = acct.seen
        /\ acct'.open = acct.open /\ acct'.channels \subseteq acct.open
    BY <2>1 DEF Inv, Typed, RegistryIsTrue, OpenIsWanted
  <2>3. DOMAIN pending' = {}
    BY <2>1 DEF EmptyBag, SetToBag
  <2> QED BY <2>1, <2>2, <2>3, Quietly
<1> QED BY <1>1, <1>2

LEMMA ResumeStep == ASSUME Inv, Resume PROVE Inv'
<1>1. acct' = [acct EXCEPT !.channels = @ \union acct.open] /\ hist' = hist /\ pending' = pending
  BY DEF Resume
<1>2. /\ DOMAIN acct' = DOMAIN acct /\ acct'.seen = acct.seen
      /\ acct'.open = acct.open /\ acct'.channels \subseteq acct.open
  BY <1>1 DEF Inv, Typed, RegistryIsTrue, OpenIsWanted
<1> QED BY <1>1, <1>2, Quietly

\* No query to the archive outlives the stream it was asked on.
LEMMA ConnectStep == ASSUME Inv, Connect PROVE Inv'
<1>1. PICK again \in SUBSET {r \in BagToSet(pending) : r.kind \in {"items", "list", "publish"}} :
        pending' = SetToBag(again) (+) SetToBag(Restoring(Restored(acct)))
  BY DEF Connect
<1> DEFINE a == Restored(acct)
<1>2. /\ DOMAIN a = DOMAIN acct /\ a.seen = acct.seen
      /\ a.open = acct.open /\ a.channels \subseteq acct.open
  BY DEF Restored, Inv, Typed, RegistryIsTrue, OpenIsWanted
<1>3. acct' = a /\ hist' = [hist EXCEPT !.loaded = {}]
  BY DEF Connect
<1>4. /\ DOMAIN hist' = DOMAIN hist /\ hist'.drawn = hist.drawn /\ hist'.again = hist.again
      /\ hist'.wanted = hist.wanted
  BY <1>3 DEF Inv, Typed
<1>5. DOMAIN pending' = again \union Restoring(a)
  BY <1>1 DEF (+), SetToBag
<1>6. again \subseteq DOMAIN pending
  BY DEF BagToSet
<1>7. \A r \in Restoring(a) : IsRequest(r, acct.open)
  <2> HIDE DEF a
  <2>1. ASSUME NEW r \in Restoring(a)
        PROVE  \/ \E f : r = Latest(f)
               \/ \E f \in acct.open : r = Request("archive", f, "asked", a.cursor[f])
               \/ r = Disco
    BY <1>2 DEF Restoring
  <2> QED BY <2>1, PlainRequests, RequestFacts
<1> HIDE DEF a
<1> QED BY <1>2, <1>3, <1>4, <1>5, <1>6, <1>7, Quietly

LEMMA RestartStep == ASSUME Inv, Restart PROVE Inv'
<1>1. /\ acct' = [acct EXCEPT !.channels = {}, !.deferred = {}, !.services = FALSE]
      /\ pending' = EmptyBag /\ hist' = hist
  BY DEF Restart
<1>2. /\ DOMAIN acct' = DOMAIN acct /\ acct'.seen = acct.seen
      /\ acct'.open = acct.open /\ acct'.channels \subseteq acct.open
  BY <1>1 DEF Inv, Typed
<1>3. DOMAIN pending' = {}
  BY <1>1 DEF EmptyBag, SetToBag
<1> QED BY <1>1, <1>2, <1>3, Quietly

-----------------------------------------------------------------------------
(* The theorem.                                                            *)

LEMMA NextInv == ASSUME Inv, [Next]_vars PROVE Inv'
<1>1. CASE User
  BY <1>1, UserStep
<1>2. CASE Service \/ UNCHANGED vars
  <2>1. acct' = acct /\ hist' = hist /\ pending' = pending
    BY <1>2 DEF Service, NodePublish, vars
  <2> QED BY <2>1, NoAnswer
<1>3. CASE Network
  BY <1>3, ConnectStep, ResumeStep, RestartStep, LoseStep DEF Network
<1>4. CASE Push
  BY <1>4, PushStep
<1>5. CASE Answered
  <2>1. PICK r \in DOMAIN pending : Answer(r)
    BY <1>5 DEF Answered, BagToSet
  <2> QED BY <2>1, AnswerStep
<1> QED BY <1>1, <1>2, <1>3, <1>4, <1>5 DEF Next

\* A feed comes back by itself only if the user asked for it, a stream that is up has a
\* buffer only for what is registered, and what LMDB has as seen was shown, neither lost nor
\* repeated by a notification or the archive (feed_open_register, feed_item_mark_seen).
THEOREM RegistryIsTrueTheorem == Spec => []RegistryIsTrue
<1>1. Init => Inv
  BY InitInv
<1>2. Inv /\ [Next]_vars => Inv'
  BY NextInv
<1>3. Inv => RegistryIsTrue
  BY DEF Inv
<1> QED BY <1>1, <1>2, <1>3, PTL DEF Spec

-----------------------------------------------------------------------------
(* Uploads: the inductive invariant.                                       *)

Words == {"sent", "failed", "published", "draft"}

\* The URLs of the first n files of job j.
Urls(j, n) == [k \in 1..n |-> <<j, k>>]

IsUpload(c) ==
  /\ DOMAIN c = {"id", "post", "fd", "write_fd", "open", "bytes", "worker_done", "joined",
                 "worker", "signals", "sock", "success"}
  /\ c.id \in U!Ids /\ c.post \in BOOLEAN /\ c.fd \in Nat /\ c.bytes \in {0, 1}
  /\ c.worker_done \in BOOLEAN /\ c.joined \in BOOLEAN /\ c.success \in BOOLEAN
  /\ c.worker \in {"start", "put", "load", "write", "exited"}

UploadTyped ==
  /\ DOMAIN uploads = {"up", "requests", "posts", "pending"}
  /\ uploads.requests \subseteq U!Ids
  /\ \A c \in uploads.pending : IsUpload(c)
  /\ \A p \in uploads.posts : DOMAIN p = {"key", "uploads_done", "urls"} /\ p.key \in U!Ids
  /\ DOMAIN given = {"dropped", "early", "stray"} /\ given.early \in BOOLEAN
  /\ jobs \in 0..MaxJobs

\* An upload is known by its file and by its descriptor.
Distinct == \A c, d \in uploads.pending : (c.id = d.id \/ c.fd = d.fd) => c = d

\* A job has one file on its way, and has not been told the user while it has.
OneOfAJob ==
  /\ \A c \in uploads.pending : c.id \notin uploads.requests
  /\ \A x, y \in U!Underway : U!Job(x) = U!Job(y) => x = y
  /\ \A x \in U!Underway : U!Job(x) <= jobs /\ Len(told[U!Job(x)]) = 0

Outcome(j, t) ==
  /\ Len(t) <= 1
  /\ j > jobs => Len(t) = 0
  /\ (Len(t) = 1 /\ t[1].what = "published") => t[1].urls = Urls(j, Embeds)
Outcomes ==
  /\ told \in [1..MaxJobs -> Seq([what : Words, urls : Seq(U!Ids)])]
  /\ \A j \in 1..MaxJobs : Outcome(j, told[j])

\* A post has the URLs of its files before the one it waits for.
PostsFollow ==
  /\ \A p, q \in uploads.posts : U!Job(p.key) = U!Job(q.key) => p = q
  /\ \A p \in uploads.posts :
       /\ U!Job(p.key) <= jobs
       /\ p.uploads_done = p.key[2] - 1 /\ p.urls = Urls(U!Job(p.key), p.uploads_done)
       /\ \/ p.key \in U!Underway
          \/ p.key \in given.dropped /\ \A x \in U!Underway : U!Job(x) # U!Job(p.key)
  /\ \A c \in uploads.pending : U!Key(c.id) => c.post

\* A worker that has ended is waiting for the hook, is joined, or is with the timer.
Attends(c) ==
  /\ c.worker \in {"start", "put"} => ~c.worker_done /\ ~c.joined
  /\ c.worker # "exited" => c.bytes = 0
  /\ c.joined => c.bytes = 0 /\ c.worker = "exited"
  /\ (c.worker \in {"load", "write", "exited"} /\ ~given.early) =>
       (c.worker_done \/ c.joined \/ main = [at |-> "timer", fd |-> c.fd])
Threads ==
  /\ main.at = "dead" => given.early
  /\ \A c \in uploads.pending : Attends(c)

UploadInv == UploadTyped /\ Distinct /\ OneOfAJob /\ Outcomes /\ PostsFollow /\ Threads

-----------------------------------------------------------------------------
(* A descriptor is free when a slot is granted.                            *)

LEMMA MinIsMember == ASSUME NEW S, S \subseteq Nat, S # {} PROVE U!Min(S) \in S
<1> DEFINE R == {ss \in Nat \X Nat : ss[1] < ss[2]}
<1>1. OpToRel(<, Nat) = R
  BY DEF OpToRel
<1>2. IsWellFoundedOn(R, Nat)
  BY <1>1, NatLessThanWellFounded
<1>3. PICK x \in S : \A y \in S : ~(<<y, x>> \in R)
  <2> HIDE DEF R
  <2> QED BY <1>2, WFMin
<1>4. ASSUME NEW y \in S, ~(x <= y)
      PROVE  FALSE
  <2>1. <<y, x>> \in Nat \X Nat /\ y < x
    BY <1>4
  <2>2. <<y, x>>[1] < <<y, x>>[2]
    BY <2>1
  <2>3. <<y, x>> \in R
    BY <2>1, <2>2, Zenon
  <2> QED BY <1>3, <2>3, Zenon
<1>5. \A y \in S : x <= y
  BY <1>4
<1> QED BY <1>5 DEF U!Min

LEMMA SomeFree ==
  ASSUME UploadInv, NEW id \in uploads.requests
  PROVE  \E n \in 1..(3 * MaxJobs) : n \notin U!InUse
<1> SUFFICES ASSUME \A n \in 1..(3 * MaxJobs) : \E c \in uploads.pending : n \in U!Used(c)
             PROVE  FALSE
  BY DEF U!InUse
<1> DEFINE N == 3 * MaxJobs
           S == 1..N
           taken == 3 * (U!Job(id) - 1) + 1
           T == S \ {taken}
           o(n) == CHOOSE c \in uploads.pending : n \in U!Used(c)
           k(n) == IF n = o(n).fd THEN 1 ELSE IF n = o(n).sock THEN 2 ELSE 3
           f == [n \in S |-> 3 * (U!Job(o(n).id) - 1) + k(n)]
<1>1. /\ MaxJobs \in Nat /\ N \in Nat /\ N > 0
      /\ U!Job(id) \in 1..MaxJobs
  BY PostConstants DEF UploadInv, UploadTyped, U!Ids, U!Job
<1>2. IsFiniteSet(S) /\ Cardinality(S) = N /\ taken \in S
  <2>1. taken \in S
    BY <1>1
  <2> QED BY <1>1, <2>1, FS_Interval
<1>3. IsFiniteSet(T) /\ Cardinality(T) = N - 1
  <2> HIDE DEF S, N, taken
  <2> QED BY <1>2, FS_RemoveElement
<1>4. \A n \in S : /\ o(n) \in uploads.pending /\ n \in U!Used(o(n))
                  /\ U!Job(o(n).id) \in 1..MaxJobs /\ U!Job(o(n).id) # U!Job(id)
  <2> SUFFICES ASSUME NEW n \in S
               PROVE  /\ o(n) \in uploads.pending /\ n \in U!Used(o(n))
                      /\ U!Job(o(n).id) \in 1..MaxJobs /\ U!Job(o(n).id) # U!Job(id)
    OBVIOUS
  <2>1. o(n) \in uploads.pending /\ n \in U!Used(o(n))
    OBVIOUS
  <2> HIDE DEF o
  <2>2. o(n).id \in U!Ids /\ o(n).id \in U!Underway /\ id \in U!Underway /\ o(n).id # id
    BY <2>1 DEF UploadInv, UploadTyped, IsUpload, OneOfAJob, U!Underway
  <2>3. U!Job(o(n).id) # U!Job(id)
    BY <2>2 DEF UploadInv, OneOfAJob
  <2> QED BY <2>1, <2>2, <2>3 DEF U!Ids, U!Job
<1>5. \A n \in S : k(n) \in 1..3
  OBVIOUS
<1>6. ASSUME NEW a \in 1..MaxJobs, NEW b \in 1..MaxJobs, NEW i \in 1..3, NEW j \in 1..3,
             3 * (a - 1) + i = 3 * (b - 1) + j
      PROVE  a = b /\ i = j
  BY <1>1, <1>6
<1>7. ASSUME NEW n \in S
      PROVE  3 * (U!Job(o(n).id) - 1) + k(n) \in T
  <2> DEFINE a == U!Job(o(n).id)
  <2>1. a \in 1..MaxJobs /\ a # U!Job(id) /\ k(n) \in 1..3
    BY <1>4, <1>5
  <2> HIDE DEF a, k
  <2>2. 3 * (a - 1) + k(n) \in S
    BY <1>1, <2>1
  <2>3. 3 * (a - 1) + k(n) # taken
    BY <1>1, <1>6, <2>1
  <2> QED BY <2>2, <2>3 DEF a
<1>8. f \in [S -> T]
  BY <1>7
<1>9. PICK x \in S, y \in S : x # y /\ f[x] = f[y]
  <2> HIDE DEF f, T, S, N
  <2>1. Cardinality(T) < Cardinality(S)
    BY <1>1, <1>2, <1>3
  <2> QED BY <1>2, <1>3, <1>8, <2>1, FS_PigeonHole
<1>10. 3 * (U!Job(o(x).id) - 1) + k(x) = 3 * (U!Job(o(y).id) - 1) + k(y)
  BY <1>9
<1>11. U!Job(o(x).id) = U!Job(o(y).id) /\ k(x) = k(y)
  <2> HIDE DEF o, k
  <2> QED BY <1>4, <1>5, <1>6, <1>10
<1>12. o(x) = o(y)
  <2> HIDE DEF o
  <2>1. o(x) \in uploads.pending /\ o(y) \in uploads.pending
    BY <1>4
  <2>2. o(x).id = o(y).id
    BY <1>11, <2>1 DEF UploadInv, OneOfAJob, U!Underway
  <2> QED BY <2>1, <2>2 DEF UploadInv, Distinct
<1>13. x = y
  <2>1. x \in U!Used(o(x)) /\ y \in U!Used(o(x))
    <3> HIDE DEF o
    <3> QED BY <1>4, <1>12
  <2>2. k(x) = IF x = o(x).fd THEN 1 ELSE IF x = o(x).sock THEN 2 ELSE 3
    OBVIOUS
  <2>3. k(y) = IF y = o(x).fd THEN 1 ELSE IF y = o(x).sock THEN 2 ELSE 3
    BY <1>12
  <2>4. k(x) = k(y)
    BY <1>11
  <2> HIDE DEF o, k, f, S, T, N, taken
  <2>5. CASE x = o(x).fd
    BY <2>2, <2>3, <2>4, <2>5
  <2>6. CASE x # o(x).fd /\ x = o(x).sock
    BY <2>2, <2>3, <2>4, <2>6
  <2>7. CASE x # o(x).fd /\ x # o(x).sock
    <3>1. y # o(x).fd /\ y # o(x).sock
      BY <2>2, <2>3, <2>4, <2>7
    <3> QED BY <2>1, <2>7, <3>1 DEF U!Used
  <2> QED BY <2>5, <2>6, <2>7
<1> QED BY <1>9, <1>13

LEMMA FreshDescriptor ==
  ASSUME UploadInv, NEW id \in uploads.requests
  PROVE  U!Min(U!Free) \in Nat /\ \A c \in uploads.pending : c.fd # U!Min(U!Free)
<1>1. MaxJobs \in Nat
  BY PostConstants
<1>2. U!Free \subseteq Nat /\ U!Free # {}
  BY <1>1, SomeFree DEF U!Free
<1>3. U!Min(U!Free) \in 1..(3 * MaxJobs) /\ U!Min(U!Free) \notin U!InUse
  BY <1>2, MinIsMember DEF U!Free
<1>4. ASSUME NEW c \in uploads.pending, c.fd = U!Min(U!Free)
      PROVE  FALSE
  <2>1. U!Min(U!Free) # 0 /\ U!Min(U!Free) \in U!Used(c)
    BY <1>1, <1>3, <1>4 DEF U!Used
  <2>2. U!Min(U!Free) \in U!InUse
    BY <2>1 DEF U!InUse
  <2> QED BY <1>3, <2>2
<1> QED BY <1>1, <1>3, <1>4

-----------------------------------------------------------------------------
(* What the steps have in common.                                          *)

\* Files that leave their request or their worker take no post with them: it is theirs no
\* more, or marked as dropped.
LEMMA TokensKept ==
  ASSUME UploadInv, told' = told, jobs' = jobs, uploads'.posts = uploads.posts,
         U!Underway' \subseteq U!Underway,
         \A c \in uploads'.pending : c.id \notin uploads'.requests /\ (U!Key(c.id) => c.post),
         \A x \in U!Underway \ U!Underway' : U!Key(x) => x \in given'.dropped,
         given.dropped \subseteq given'.dropped
  PROVE  OneOfAJob' /\ Outcomes' /\ PostsFollow'
<1>1. OneOfAJob'
  BY DEF UploadInv, OneOfAJob
<1>2. Outcomes'
  BY DEF UploadInv, Outcomes, Outcome
<1>3. ASSUME NEW p \in uploads.posts
      PROVE  p.key \in U!Underway' \/ (p.key \in given'.dropped /\ \A x \in U!Underway' : U!Job(x) # U!Job(p.key))
  <2>1. CASE p.key \in U!Underway
    <3>1. ASSUME p.key \notin U!Underway'
          PROVE  p.key \in given'.dropped
      BY <2>1, <3>1 DEF U!Key
    <3>2. ASSUME p.key \notin U!Underway', NEW x \in U!Underway', U!Job(x) = U!Job(p.key)
          PROVE  FALSE
      BY <2>1, <3>2 DEF UploadInv, OneOfAJob
    <3> QED BY <3>1, <3>2
  <2>2. CASE p.key \notin U!Underway
    BY <2>2 DEF UploadInv, PostsFollow
  <2> QED BY <2>1, <2>2
<1>4. \A p \in uploads.posts : /\ U!Job(p.key) <= jobs
                            /\ p.uploads_done = p.key[2] - 1
                            /\ p.urls = Urls(U!Job(p.key), p.uploads_done)
  BY DEF UploadInv, PostsFollow
<1>5. \A p, q \in uploads.posts : U!Job(p.key) = U!Job(q.key) => p = q
  BY DEF UploadInv, PostsFollow
<1>6. \A c \in uploads'.pending : (U!Key(c.id))' => c.post
  BY DEF U!Key
<1>7. PostsFollow'
  BY <1>3, <1>4, <1>5, <1>6 DEF PostsFollow
<1> QED BY <1>1, <1>2, <1>7

\* An upload that goes on under its name.
LEMMA UploadChanged ==
  ASSUME UploadInv, NEW c \in uploads.pending, NEW d, U!Change(c, d),
         IsUpload(d), d.id = c.id, d.post = c.post, d.fd = c.fd,
         told' = told, jobs' = jobs,
         DOMAIN given' = DOMAIN given, given'.early \in BOOLEAN, given'.dropped = given.dropped,
         main'.at = "dead" => given'.early,
         Attends(d)', \A e \in uploads.pending \ {c} : Attends(e)'
  PROVE  UploadInv'
<1> DEFINE P == (uploads.pending \ {c}) \union {d}
<1>1. /\ DOMAIN uploads' = DOMAIN uploads /\ uploads'.pending = P
      /\ uploads'.requests = uploads.requests /\ uploads'.posts = uploads.posts
  BY DEF U!Change, UploadInv, UploadTyped
<1>2. UploadTyped'
  BY <1>1 DEF UploadInv, UploadTyped, IsUpload
<1>3. Distinct'
  BY <1>1 DEF UploadInv, Distinct
<1>4. U!Underway' = U!Underway
  BY <1>1 DEF U!Underway
<1>5. \A e \in uploads'.pending : e.id \notin uploads'.requests /\ (U!Key(e.id) => e.post)
  BY <1>1 DEF UploadInv, OneOfAJob, PostsFollow
<1>6. OneOfAJob' /\ Outcomes' /\ PostsFollow'
  BY <1>1, <1>4, <1>5, TokensKept
<1>7. Threads'
  BY <1>1 DEF Threads
<1> QED BY <1>2, <1>3, <1>6, <1>7 DEF UploadInv

\* An upload that is gone, or a request that is: its post is marked.
LEMMA FileDropped ==
  ASSUME UploadInv, NEW x \in U!Underway, U!GiveUp(x), told' = told, jobs' = jobs,
         DOMAIN uploads' = DOMAIN uploads, uploads'.posts = uploads.posts,
         uploads'.requests = uploads.requests \ {x},
         uploads'.pending = {c \in uploads.pending : c.id # x},
         main'.at = "dead" => given'.early,
         \A c \in uploads'.pending : Attends(c)'
  PROVE  UploadInv'
<1>1. /\ DOMAIN given' = DOMAIN given /\ given'.early = given.early
      /\ given.dropped \subseteq given'.dropped /\ (U!Key(x) => x \in given'.dropped)
  BY DEF U!GiveUp, UploadInv, UploadTyped
<1>2. UploadTyped'
  BY <1>1 DEF UploadInv, UploadTyped, IsUpload
<1>3. Distinct'
  BY DEF UploadInv, Distinct
<1>4. U!Underway' = U!Underway \ {x}
  BY DEF U!Underway
<1>5. \A e \in uploads'.pending : e.id \notin uploads'.requests /\ (U!Key(e.id) => e.post)
  BY DEF UploadInv, OneOfAJob, PostsFollow
<1>6. OneOfAJob' /\ Outcomes' /\ PostsFollow'
  BY <1>1, <1>4, <1>5, TokensKept
<1>7. Threads'
  BY DEF Threads
<1> QED BY <1>2, <1>3, <1>6, <1>7 DEF UploadInv

\* Steps that leave the uploads alone.
LEMMA Untouched ==
  ASSUME UploadInv, told' = told, jobs' = jobs, given' = given,
         DOMAIN uploads' = DOMAIN uploads, uploads'.posts = uploads.posts,
         uploads'.requests = uploads.requests, uploads'.pending = uploads.pending,
         main'.at = "dead" => given.early, main' = main \/ main.at # "timer" \/ uploads.pending = {}
  PROVE  UploadInv'
<1>1. UploadTyped'
  BY DEF UploadInv, UploadTyped, IsUpload
<1>2. Distinct'
  BY DEF UploadInv, Distinct
<1>3. U!Underway' = U!Underway
  BY DEF U!Underway
<1>4. \A e \in uploads'.pending : e.id \notin uploads'.requests /\ (U!Key(e.id) => e.post)
  BY DEF UploadInv, OneOfAJob, PostsFollow
<1>5. OneOfAJob' /\ Outcomes' /\ PostsFollow'
  BY <1>3, <1>4, TokensKept
<1>6. ASSUME NEW c \in uploads.pending
      PROVE  Attends(c)'
  <2>1. Attends(c)
    BY DEF UploadInv, Threads
  <2>2. main' = main \/ main # [at |-> "timer", fd |-> c.fd]
    OBVIOUS
  <2> QED BY <2>1, <2>2 DEF Attends
<1>7. Threads'
  BY <1>6 DEF Threads
<1> QED BY <1>1, <1>2, <1>5, <1>7 DEF UploadInv

-----------------------------------------------------------------------------
(* The initial state, and the user.                                        *)

LEMMA UploadInitInv == U!Init => UploadInv
<1> SUFFICES ASSUME U!Init PROVE UploadInv
  OBVIOUS
<1>1. /\ MaxJobs \in Nat /\ uploads.requests = {} /\ uploads.posts = {} /\ uploads.pending = {}
      /\ DOMAIN uploads = {"up", "requests", "posts", "pending"}
      /\ DOMAIN given = {"dropped", "early", "stray"} /\ given.early = FALSE
      /\ given.early \in BOOLEAN /\ jobs = 0 /\ main.at = "loop"
  BY PostConstants DEF U!Init
<1>2. /\ told \in [1..MaxJobs -> Seq([what : Words, urls : Seq(U!Ids)])]
      /\ \A j \in 1..MaxJobs : Len(told[j]) = 0
  BY DEF U!Init
<1>3. UploadTyped /\ Distinct
  <2>1. jobs \in 0..MaxJobs
    BY <1>1
  <2>2. UploadTyped
    BY <1>1, <2>1 DEF UploadTyped
  <2> QED BY <1>1, <2>2 DEF Distinct
<1>4. U!Underway = {}
  BY <1>1 DEF U!Underway
<1>5. OneOfAJob /\ PostsFollow /\ Threads
  BY <1>1, <1>4 DEF OneOfAJob, PostsFollow, Threads
<1>6. Outcomes
  BY <1>1, <1>2 DEF Outcomes, Outcome
<1> QED BY <1>3, <1>5, <1>6 DEF UploadInv

\* A new job has no other file, no post and no outcome.
LEMMA CommandStep == ASSUME UploadInv, U!Command PROVE UploadInv'
<1> DEFINE id == <<jobs + 1, 1>>
           new == [key |-> id, uploads_done |-> 0, urls |-> <<>>]
<1>1. /\ jobs \in Nat /\ MaxJobs \in Nat /\ jobs < MaxJobs /\ jobs' = jobs + 1
      /\ Embeds \in Nat /\ 1 <= Embeds
      /\ told' = told /\ given' = given /\ main' = main
  BY PostConstants DEF U!Command, UploadInv, UploadTyped
<1>2. id \in U!Ids /\ U!Job(id) = jobs + 1 /\ id[2] = 1
  BY <1>1 DEF U!Ids, U!Job
<1>3. /\ uploads'.pending = uploads.pending /\ uploads'.requests = uploads.requests \union {id}
      /\ DOMAIN uploads' = DOMAIN uploads
      /\ uploads'.posts = uploads.posts \/ uploads'.posts = uploads.posts \union {new}
  BY DEF U!Command, U!Ask, UploadInv, UploadTyped
<1>4. /\ new.key = id /\ new.uploads_done = 0
      /\ DOMAIN new = {"key", "uploads_done", "urls"}
  OBVIOUS
<1>5. new.urls = Urls(jobs + 1, 0)
  <2> DEFINE none == Urls(jobs + 1, 0)
  <2>1. none \in Seq(Nat \X Nat) /\ Len(none) = 0
    BY <1>1 DEF Urls
  <2> HIDE DEF none
  <2>2. none = <<>>
    BY <2>1, EmptySeq
  <2> QED BY <2>2 DEF none
<1>6. \A x \in U!Underway : U!Job(x) <= jobs
  BY DEF UploadInv, OneOfAJob
<1>7. \A x \in U!Underway : x \in U!Ids /\ U!Job(x) \in Nat /\ x # id /\ U!Job(x) # jobs + 1
  BY <1>1, <1>2, <1>6 DEF UploadInv, UploadTyped, IsUpload, U!Underway, U!Ids, U!Job
<1>8. \A p \in uploads.posts : U!Job(p.key) \in Nat /\ U!Job(p.key) # jobs + 1 /\ p.key # id
  BY <1>1, <1>2 DEF UploadInv, UploadTyped, PostsFollow, U!Ids, U!Job
<1>9. U!Underway' = U!Underway \union {id}
  BY <1>3 DEF U!Underway
<1>10. \A p \in uploads'.posts : p \in uploads.posts \/ p = new
  BY <1>3
<1>11. \A c \in uploads.pending : c.id \in U!Underway /\ c.id \notin uploads.requests
  BY DEF UploadInv, OneOfAJob, U!Underway
<1> HIDE DEF id, new
<1>12. UploadTyped'
  BY <1>1, <1>2, <1>3, <1>4, <1>10 DEF UploadInv, UploadTyped, IsUpload
<1>13. Distinct'
  BY <1>3 DEF UploadInv, Distinct
<1>14. OneOfAJob'
  <2>1. Len(told[U!Job(id)]) = 0
    BY <1>1, <1>2 DEF UploadInv, Outcomes, Outcome
  <2>2. \A x \in U!Underway' : U!Job(x) <= jobs' /\ Len(told'[U!Job(x)]) = 0
    BY <1>1, <1>2, <1>6, <1>7, <1>9, <2>1 DEF UploadInv, OneOfAJob
  <2>3. \A x, y \in U!Underway' : U!Job(x) = U!Job(y) => x = y
    BY <1>2, <1>7, <1>9 DEF UploadInv, OneOfAJob
  <2>4. \A c \in uploads'.pending : c.id \notin uploads'.requests
    BY <1>3, <1>7, <1>11
  <2> QED BY <2>2, <2>3, <2>4 DEF OneOfAJob
<1>15. Outcomes'
  <2>1. told' \in [1..MaxJobs -> Seq([what : Words, urls : Seq(U!Ids)])]
    BY <1>1 DEF UploadInv, Outcomes
  <2>2. ASSUME NEW j \in 1..MaxJobs
        PROVE  Outcome(j, told[j])'
    <3>1. Outcome(j, told[j]) /\ j \in Nat
      BY DEF UploadInv, Outcomes
    <3>2. j > jobs' => j > jobs
      BY <1>1, <3>1
    <3> QED BY <1>1, <3>1, <3>2 DEF Outcome
  <2> QED BY <2>1, <2>2 DEF Outcomes
<1>16. PostsFollow'
  <2>1. \A p, q \in uploads'.posts : U!Job(p.key) = U!Job(q.key) => p = q
    BY <1>2, <1>4, <1>8, <1>10 DEF UploadInv, PostsFollow
  <2>2. ASSUME NEW p \in uploads.posts
        PROVE  /\ U!Job(p.key) <= jobs'
               /\ p.uploads_done = p.key[2] - 1 /\ p.urls = Urls(U!Job(p.key), p.uploads_done)
               /\ \/ p.key \in U!Underway'
                  \/ p.key \in given'.dropped /\ \A x \in U!Underway' : U!Job(x) # U!Job(p.key)
    BY <1>1, <1>2, <1>8, <1>9 DEF UploadInv, PostsFollow
  <2>3. /\ U!Job(new.key) <= jobs'
        /\ new.uploads_done = new.key[2] - 1 /\ new.urls = Urls(U!Job(new.key), new.uploads_done)
        /\ new.key \in U!Underway'
    BY <1>1, <1>2, <1>4, <1>5, <1>9
  <2>4. \A c \in uploads'.pending : (U!Key(c.id))' => c.post
    BY <1>3, <1>4, <1>7, <1>10, <1>11 DEF UploadInv, PostsFollow, U!Key
  <2>5. \A p \in uploads'.posts :
          /\ U!Job(p.key) <= jobs'
          /\ p.uploads_done = p.key[2] - 1 /\ p.urls = Urls(U!Job(p.key), p.uploads_done)
          /\ \/ p.key \in U!Underway'
             \/ p.key \in given'.dropped /\ \A x \in U!Underway' : U!Job(x) # U!Job(p.key)
    BY <1>10, <2>2, <2>3
  <2> QED BY <2>1, <2>4, <2>5 DEF PostsFollow
<1>17. Threads'
  BY <1>1, <1>3 DEF UploadInv, Threads, Attends
<1> QED BY <1>12, <1>13, <1>14, <1>15, <1>16, <1>17 DEF UploadInv

-----------------------------------------------------------------------------
(* The answers of the upload service.                                      *)

\* The upload is known by a descriptor nobody else has.
LEMMA GrantedStep ==
  ASSUME UploadInv, NEW id \in uploads.requests, U!Granted(id),
         told' = told, jobs' = jobs, given' = given, main' = main
  PROVE  UploadInv'
<1> DEFINE read == U!Min(U!Free)
           c == [id |-> id, post |-> U!Key(id), fd |-> read, write_fd |-> U!Min(U!Free \ {read}),
                 open |-> TRUE, bytes |-> 0, worker_done |-> FALSE, joined |-> FALSE,
                 worker |-> "start", signals |-> 0, sock |-> 0, success |-> FALSE]
<1>1. /\ DOMAIN uploads' = DOMAIN uploads /\ uploads'.posts = uploads.posts
      /\ uploads'.requests = uploads.requests \ {id}
      /\ uploads'.pending = uploads.pending \union {c}
  BY DEF U!Granted, UploadInv, UploadTyped
<1>2. id \in U!Ids /\ U!Key(id) \in BOOLEAN
  BY DEF UploadInv, UploadTyped, U!Key
<1>3. read \in Nat /\ \A e \in uploads.pending : e.fd # read
  BY FreshDescriptor
<1>4. /\ c.id = id /\ c.fd = read /\ c.post = U!Key(id) /\ IsUpload(c)
      /\ c.worker = "start" /\ c.bytes = 0 /\ ~c.joined /\ ~c.worker_done
  <2> HIDE DEF read
  <2> QED BY <1>2, <1>3 DEF IsUpload
<1> HIDE DEF c, read
<1>5. UploadTyped'
  BY <1>1, <1>4 DEF UploadInv, UploadTyped, IsUpload
<1>6. \A e \in uploads.pending : e.id # id
  BY DEF UploadInv, OneOfAJob
<1>7. Distinct'
  BY <1>1, <1>3, <1>4, <1>6 DEF UploadInv, Distinct
<1>8. U!Underway' = U!Underway
  BY <1>1, <1>4 DEF U!Underway
<1>9. \A e \in uploads'.pending : e.id \notin uploads'.requests /\ (U!Key(e.id) => e.post)
  BY <1>1, <1>4 DEF UploadInv, OneOfAJob, PostsFollow
<1>10. OneOfAJob' /\ Outcomes' /\ PostsFollow'
  BY <1>1, <1>8, <1>9, TokensKept
<1>11. Threads'
  BY <1>1, <1>4 DEF UploadInv, Threads, Attends
<1> QED BY <1>5, <1>7, <1>10, <1>11 DEF UploadInv

LEMMA ForgetStep ==
  ASSUME UploadInv, NEW id \in uploads.requests, U!Forget(id), U!GiveUp(id),
         told' = told, jobs' = jobs, main' = main
  PROVE  UploadInv'
<1>1. /\ DOMAIN uploads' = DOMAIN uploads /\ uploads'.posts = uploads.posts
      /\ uploads'.requests = uploads.requests \ {id} /\ uploads'.pending = uploads.pending
  BY DEF U!Forget, UploadInv, UploadTyped
<1>2. id \in U!Underway /\ \A e \in uploads.pending : e.id # id
  BY DEF U!Underway, UploadInv, OneOfAJob
<1>3. given'.early = given.early
  BY DEF U!GiveUp, UploadInv, UploadTyped
<1>4. \A e \in uploads.pending : Attends(e)'
  BY <1>3 DEF UploadInv, Threads, Attends
<1>5. main'.at = "dead" => given'.early
  BY <1>3 DEF UploadInv, Threads
<1> QED BY <1>1, <1>2, <1>4, <1>5, FileDropped

LEMMA AnsweredStep == ASSUME UploadInv, U!Answered PROVE UploadInv'
<1>1. main' = main /\ told' = told /\ jobs' = jobs
  BY DEF U!Answered
<1> DEFINE id == Head(s2c).id
<1>2. id \in uploads.requests
  BY DEF U!Answered
<1>3. CASE U!Granted(id) /\ given' = given
  BY <1>1, <1>2, <1>3, GrantedStep
<1>4. CASE U!Forget(id) /\ U!GiveUp(id)
  BY <1>1, <1>2, <1>4, ForgetStep
<1>5. CASE uploads' = uploads /\ given' = given
  BY <1>1, <1>5, Untouched DEF UploadInv, Threads
<1> QED BY <1>3, <1>4, <1>5 DEF U!Answered

-----------------------------------------------------------------------------
(* The workers.                                                            *)

\* A worker that goes on to d without the main thread.
LEMMA WorkerGoesOn ==
  ASSUME UploadInv, NEW c \in uploads.pending, NEW d, U!Change(c, d),
         IsUpload(d), d.id = c.id, d.post = c.post, d.fd = c.fd,
         main' = main, told' = told, jobs' = jobs,
         DOMAIN given' = DOMAIN given, given'.early \in BOOLEAN, given'.dropped = given.dropped,
         given.early => given'.early, Attends(d)'
  PROVE  UploadInv'
<1>1. main'.at = "dead" => given'.early
  BY DEF UploadInv, Threads
<1>2. \A e \in uploads.pending \ {c} : Attends(e)'
  BY DEF UploadInv, UploadTyped, Threads, Attends
<1> QED BY <1>1, <1>2, UploadChanged

LEMMA WorkerStep == ASSUME UploadInv, NEW c \in uploads.pending, U!Worker(c) PROVE UploadInv'
<1>1. main' = main /\ told' = told /\ jobs' = jobs
  BY DEF U!Worker
<1>2. IsUpload(c) /\ Attends(c) /\ DOMAIN given = {"dropped", "early", "stray"} /\ given.early \in BOOLEAN
  BY DEF UploadInv, UploadTyped, Threads
<1>3. CASE U!EarlyFailure(c)
  <2>1. PICK d : d = [c EXCEPT !.worker = "load"]
    OBVIOUS
  <2>2. U!Change(c, d) /\ c.worker = "start" /\ given' = [given EXCEPT !.early = TRUE]
    BY <1>3, <2>1 DEF U!EarlyFailure
  <2>3. /\ IsUpload(d) /\ d.id = c.id /\ d.post = c.post /\ d.fd = c.fd
        /\ d.worker = "load" /\ d.bytes = c.bytes /\ d.joined = c.joined
    BY <1>2, <2>1 DEF IsUpload
  <2>4. /\ DOMAIN given' = DOMAIN given /\ given'.early = TRUE /\ given'.dropped = given.dropped
    BY <1>2, <2>2
  <2>5. Attends(d)'
    BY <1>2, <2>2, <2>3, <2>4 DEF Attends
  <2> QED BY <1>1, <2>2, <2>3, <2>4, <2>5, WorkerGoesOn
<1>4. CASE U!Connect(c)
  <2>1. PICK d : d = [c EXCEPT !.worker = "put", !.sock = U!Min(U!Free)]
    OBVIOUS
  <2>2. U!Change(c, d) /\ c.worker = "start" /\ given' = given
    BY <1>4, <2>1 DEF U!Connect
  <2>3. /\ IsUpload(d) /\ d.id = c.id /\ d.post = c.post /\ d.fd = c.fd
        /\ d.worker = "put" /\ d.bytes = c.bytes /\ d.joined = c.joined
        /\ d.worker_done = c.worker_done
    BY <1>2, <2>1 DEF IsUpload
  <2>4. Attends(d)'
    BY <1>2, <2>2, <2>3 DEF Attends
  <2> QED BY <1>1, <1>2, <2>2, <2>3, <2>4, WorkerGoesOn
<1>5. CASE U!PutEnds(c)
  <2>1. PICK ok \in BOOLEAN :
          U!Change(c, [c EXCEPT !.worker = "load", !.sock = 0, !.success = ok, !.worker_done = TRUE])
    BY <1>5 DEF U!PutEnds
  <2>2. PICK d : d = [c EXCEPT !.worker = "load", !.sock = 0, !.success = ok, !.worker_done = TRUE]
    OBVIOUS
  <2>3. U!Change(c, d) /\ c.worker = "put" /\ given' = given
    BY <1>5, <2>1, <2>2 DEF U!PutEnds
  <2>4. /\ IsUpload(d) /\ d.id = c.id /\ d.post = c.post /\ d.fd = c.fd
        /\ d.worker = "load" /\ d.bytes = c.bytes /\ d.joined = c.joined /\ d.worker_done = TRUE
    BY <1>2, <2>2 DEF IsUpload
  <2>5. Attends(d)'
    BY <1>2, <2>3, <2>4 DEF Attends
  <2> QED BY <1>1, <1>2, <2>3, <2>4, <2>5, WorkerGoesOn
<1>6. CASE U!Load(c)
  <2>1. PICK n : U!Change(c, [c EXCEPT !.worker = "write", !.signals = n])
    BY <1>6 DEF U!Load
  <2>2. PICK d : d = [c EXCEPT !.worker = "write", !.signals = n]
    OBVIOUS
  <2>3. U!Change(c, d) /\ c.worker = "load" /\ given' = given
    BY <1>6, <2>1, <2>2 DEF U!Load
  <2>4. /\ IsUpload(d) /\ d.id = c.id /\ d.post = c.post /\ d.fd = c.fd
        /\ d.worker = "write" /\ d.bytes = c.bytes /\ d.joined = c.joined
        /\ d.worker_done = c.worker_done
    BY <1>2, <2>2 DEF IsUpload
  <2>5. Attends(d)'
    BY <1>1, <1>2, <2>3, <2>4 DEF Attends
  <2> QED BY <1>1, <1>2, <2>3, <2>4, <2>5, WorkerGoesOn
<1>7. CASE U!Write(c)
  <2>1. PICK d : d = [c EXCEPT !.worker = "exited", !.bytes = @ + U!Byte(c)]
    OBVIOUS
  <2>2. U!Change(c, d) /\ c.worker = "write"
    BY <1>7, <2>1 DEF U!Write
  <2>3. c.bytes = 0 /\ ~c.joined
    BY <1>2, <2>2 DEF Attends
  <2>4. /\ IsUpload(d) /\ d.id = c.id /\ d.post = c.post /\ d.fd = c.fd
        /\ d.worker = "exited" /\ d.joined = c.joined /\ d.worker_done = c.worker_done
    BY <1>2, <2>1, <2>3 DEF IsUpload, U!Byte
  <2>5. DOMAIN given' = DOMAIN given /\ given'.early = given.early /\ given'.dropped = given.dropped
    BY <1>2, <1>7 DEF U!Write
  <2>6. Attends(d)'
    BY <1>1, <1>2, <2>2, <2>3, <2>4, <2>5 DEF Attends
  <2> QED BY <1>1, <1>2, <2>2, <2>4, <2>5, <2>6, WorkerGoesOn
<1> QED BY <1>3, <1>4, <1>5, <1>6, <1>7 DEF U!Worker

-----------------------------------------------------------------------------
(* The hook.                                                               *)

\* What has a byte in its pipe has a worker to join, and is nobody else's.
LEMMA ByteIsOurs ==
  ASSUME UploadInv, U!Loop, NEW c \in uploads.pending, c.bytes > 0, ~given.early
  PROVE  c.worker_done
<1>1. Attends(c) /\ IsUpload(c)
  BY DEF UploadInv, UploadTyped, Threads
<1>2. c.worker = "exited" /\ ~c.joined /\ main # [at |-> "timer", fd |-> c.fd]
  BY <1>1 DEF Attends, IsUpload, U!Loop
<1> QED BY <1>1, <1>2 DEF Attends

\* A job whose last file has ended.
LEMMA JobEnds ==
  ASSUME UploadInv, NEW c \in uploads.pending, NEW Q \in SUBSET uploads.posts,
         main' = main, jobs' = jobs, given' = given,
         DOMAIN uploads' = DOMAIN uploads, uploads'.pending = uploads.pending \ {c},
         uploads'.requests = uploads.requests, uploads'.posts = uploads.posts \ Q,
         \A p \in uploads.posts : p.key = c.id => p \in Q,
         NEW what \in Words, NEW urls \in Seq(U!Ids), U!Tell(c.id, what, urls),
         what = "published" => urls = Urls(U!Job(c.id), Embeds)
  PROVE  UploadInv'
<1> DEFINE j == U!Job(c.id)
           word == [what |-> what, urls |-> urls]
<1>1. /\ c.id \in U!Ids /\ c.id \in U!Underway /\ j \in 1..MaxJobs /\ j <= jobs
      /\ Len(told[j]) = 0
  BY DEF UploadInv, UploadTyped, IsUpload, OneOfAJob, U!Underway, U!Ids, U!Job
<1>2. told' = [told EXCEPT ![j] = Append(told[j], word)]
  BY DEF U!Tell
<1>3. /\ \A i \in 1..MaxJobs : i # j => told'[i] = told[i]
      /\ told'[j] = Append(told[j], word)
      /\ told' \in [1..MaxJobs -> Seq([what : Words, urls : Seq(U!Ids)])]
  <2> DEFINE Word == [what : Words, urls : Seq(U!Ids)]
  <2>1. word \in Word /\ told \in [1..MaxJobs -> Seq(Word)]
    BY DEF UploadInv, Outcomes
  <2> HIDE DEF Word, word, j
  <2>2. told' \in [1..MaxJobs -> Seq(Word)] /\ told'[j] = Append(told[j], word)
    BY <1>1, <1>2, <2>1
  <2>3. \A i \in 1..MaxJobs : i # j => told'[i] = told[i]
    BY <1>2, <2>1
  <2> QED BY <2>2, <2>3 DEF Word
<1>4. Len(told'[j]) = 1 /\ told'[j][1].what = what /\ told'[j][1].urls = urls
  BY <1>1, <1>3 DEF UploadInv, Outcomes
<1>5. U!Underway' = U!Underway \ {c.id}
  BY DEF UploadInv, Distinct, OneOfAJob, U!Underway
<1>6. \A x \in U!Underway' : x \in U!Underway /\ U!Job(x) # j /\ U!Job(x) \in 1..MaxJobs
  BY <1>1, <1>5 DEF UploadInv, UploadTyped, IsUpload, OneOfAJob, U!Underway, U!Ids, U!Job
<1>7. UploadTyped'
  BY DEF UploadInv, UploadTyped, IsUpload
<1>8. Distinct'
  BY DEF UploadInv, Distinct
<1> HIDE DEF j, word
<1>9. OneOfAJob'
  BY <1>3, <1>6 DEF UploadInv, OneOfAJob
<1>10. Outcomes'
  <2>1. ASSUME NEW i \in 1..MaxJobs, i # j
        PROVE  Outcome(i, told[i])'
    BY <1>3, <2>1 DEF UploadInv, Outcomes, Outcome
  <2>2. Outcome(j, told[j])'
    <3>1. j <= jobs'
      BY <1>1
    <3>2. ~(j > jobs')
      BY <1>1, <3>1 DEF UploadInv, UploadTyped
    <3> QED BY <1>4, <3>2 DEF Outcome, j
  <2> QED BY <1>1, <1>3, <2>1, <2>2 DEF Outcomes
<1>11. PostsFollow'
  <2>1. ASSUME NEW p \in uploads'.posts
        PROVE  \/ p.key \in U!Underway'
               \/ p.key \in given'.dropped /\ \A x \in U!Underway' : U!Job(x) # U!Job(p.key)
    BY <1>5, <1>6 DEF UploadInv, PostsFollow
  <2>2. \A e \in uploads'.pending : (U!Key(e.id))' => e.post
    BY DEF UploadInv, PostsFollow, U!Key
  <2> QED BY <2>1, <2>2 DEF UploadInv, PostsFollow
<1>12. Threads'
  BY DEF UploadInv, Threads, Attends
<1> QED BY <1>7, <1>8, <1>9, <1>10, <1>11, <1>12 DEF UploadInv

LEMMA UrlsGrow ==
  ASSUME NEW S, NEW j, NEW m \in Nat, \A k \in 1..(m + 1) : <<j, k>> \in S
  PROVE  Append(Urls(j, m), <<j, m + 1>>) = Urls(j, m + 1) /\ Urls(j, m + 1) \in Seq(S)
<1> DEFINE s == Urls(j, m)
           t == Urls(j, m + 1)
           e == <<j, m + 1>>
<1>1. s \in Seq(S) /\ Len(s) = m /\ \A i \in 1..m : s[i] = <<j, i>>
  BY DEF Urls
<1>2. t \in Seq(S) /\ Len(t) = m + 1 /\ \A i \in 1..(m + 1) : t[i] = <<j, i>>
  BY DEF Urls
<1>3. e \in S
  OBVIOUS
<1> HIDE DEF s, t
<1>4. /\ Append(s, e) \in Seq(S) /\ Len(Append(s, e)) = m + 1
      /\ \A i \in 1..m : Append(s, e)[i] = s[i]
      /\ Append(s, e)[m + 1] = e
  BY <1>1, <1>3
<1>5. \A i \in 1..(m + 1) : i \in 1..m \/ i = m + 1
  OBVIOUS
<1>6. \A i \in 1..Len(Append(s, e)) : Append(s, e)[i] = t[i]
  BY <1>1, <1>2, <1>4, <1>5
<1>7. Append(s, e) = t
  BY <1>2, <1>4, <1>6, SeqEqual
<1> QED BY <1>2, <1>7 DEF s, t

\* The URL of the file that has ended is the post's next.
LEMMA NextUrl ==
  ASSUME UploadInv, NEW p \in uploads.posts
  PROVE  LET n == p.uploads_done + 1
         IN  /\ n \in 1..Embeds /\ p.uploads_done \in Nat
             /\ p.key = <<U!Job(p.key), n>> /\ U!Job(p.key) \in 1..MaxJobs
             /\ Append(p.urls, p.key) = Urls(U!Job(p.key), n)
             /\ Append(p.urls, p.key) \in Seq(U!Ids)
<1> DEFINE j == U!Job(p.key)
           n == p.uploads_done + 1
<1>1. /\ Embeds \in Nat /\ MaxJobs \in Nat
      /\ p.key \in U!Ids /\ p.uploads_done = p.key[2] - 1 /\ p.urls = Urls(j, p.uploads_done)
  BY PostConstants DEF UploadInv, UploadTyped, PostsFollow
<1>2. j \in 1..MaxJobs /\ n \in 1..Embeds /\ p.uploads_done \in Nat /\ n = p.key[2]
  BY <1>1 DEF U!Ids, U!Job
<1>3. p.key = <<j, n>>
  BY <1>1, <1>2 DEF U!Ids, U!Job
<1> HIDE DEF j
<1>4. \A k \in 1..(p.uploads_done + 1) : <<j, k>> \in U!Ids
  BY <1>1, <1>2 DEF U!Ids
<1>5. /\ Append(Urls(j, p.uploads_done), <<j, n>>) = Urls(j, n)
      /\ Urls(j, n) \in Seq(U!Ids)
  BY <1>2, <1>4, UrlsGrow
<1> QED BY <1>1, <1>2, <1>3, <1>5 DEF j

\* The post waits for its next file, under that file's key.
LEMMA NextFile ==
  ASSUME UploadInv, NEW c \in uploads.pending, NEW p \in uploads.posts, p.key = c.id, c.success,
         p.uploads_done + 1 < Embeds, U!EmbedEnds(c, p),
         main' = main, jobs' = jobs, given' = given
  PROVE  UploadInv'
<1> DEFINE j == U!Job(p.key)
           n == p.uploads_done + 1
           next == <<j, n + 1>>
           urls == Append(p.urls, p.key)
           post == [key |-> next, uploads_done |-> n, urls |-> urls]
<1>1. /\ Embeds \in Nat /\ p.uploads_done \in Nat /\ n \in 1..Embeds /\ p.key = <<j, n>>
      /\ j \in 1..MaxJobs /\ urls = Urls(j, n)
  BY NextUrl, PostConstants
<1>2. /\ DOMAIN p = {"key", "uploads_done", "urls"}
      /\ U!Embed(p, c).uploads_done = n /\ U!Embed(p, c).key = p.key /\ U!Embed(p, c).urls = urls
      /\ DOMAIN U!Embed(p, c) = DOMAIN p
  BY DEF UploadInv, UploadTyped, U!Embed
<1>3. U!NextKey(U!Embed(p, c)) = next
  BY <1>2 DEF U!NextKey
<1>4. PICK q : q = [U!Embed(p, c) EXCEPT !.key = U!NextKey(U!Embed(p, c))]
  OBVIOUS
<1>5. /\ DOMAIN q = {"key", "uploads_done", "urls"}
      /\ q.key = next /\ q.uploads_done = n /\ q.urls = urls
  BY <1>2, <1>3, <1>4
<1>6. /\ uploads' = [[uploads EXCEPT !.pending = U!Finished(c), !.posts = @ \ {p}]
                    EXCEPT !.posts = @ \union {q}, !.requests = @ \union {next}]
      /\ told' = told
  BY <1>2, <1>4 DEF U!EmbedEnds
<1>7. /\ DOMAIN uploads' = DOMAIN uploads /\ uploads'.pending = uploads.pending \ {c}
      /\ uploads'.requests = uploads.requests \union {next}
      /\ uploads'.posts = (uploads.posts \ {p}) \union {q}
  BY <1>6 DEF UploadInv, UploadTyped, U!Finished
<1>8. next \in U!Ids /\ U!Job(next) = j /\ next[2] = n + 1 /\ next # p.key
  <2>1. n + 1 \in 1..Embeds
    BY <1>1
  <2>2. next[2] # p.key[2]
    BY <1>1
  <2> QED BY <1>1, <2>1, <2>2 DEF U!Ids, U!Job
<1>9. c.id \in U!Underway /\ j <= jobs /\ Len(told[j]) = 0 /\ \A x \in U!Underway : U!Job(x) = j => x = c.id
  BY DEF UploadInv, OneOfAJob, U!Underway
<1>10. U!Underway' = (U!Underway \ {c.id}) \union {next}
  BY <1>7 DEF UploadInv, Distinct, OneOfAJob, U!Underway
<1>11. \A x \in U!Underway' : x = next \/ (x \in U!Underway /\ U!Job(x) # j /\ x # next)
  BY <1>8, <1>9, <1>10
<1> HIDE DEF j, n, next, urls
<1>12. UploadTyped'
  BY <1>5, <1>7, <1>8 DEF UploadInv, UploadTyped, IsUpload
<1>13. Distinct'
  BY <1>7 DEF UploadInv, Distinct
<1>14. OneOfAJob'
  <2>1. ASSUME NEW e \in uploads'.pending
        PROVE  e.id \notin uploads'.requests
    <3>1. e.id \in U!Underway /\ e.id # c.id
      BY <1>7 DEF UploadInv, Distinct, U!Underway
    <3>2. U!Job(e.id) # j
      BY <1>9, <3>1
    <3> QED BY <1>7, <1>8, <3>2 DEF UploadInv, OneOfAJob
  <2>2. \A x, y \in U!Underway' : U!Job(x) = U!Job(y) => x = y
    BY <1>8, <1>11 DEF UploadInv, OneOfAJob
  <2>3. \A x \in U!Underway' : U!Job(x) <= jobs' /\ Len(told'[U!Job(x)]) = 0
    BY <1>6, <1>8, <1>9, <1>11 DEF UploadInv, OneOfAJob
  <2> QED BY <2>1, <2>2, <2>3 DEF OneOfAJob
<1>15. Outcomes'
  BY <1>6 DEF UploadInv, Outcomes, Outcome
<1>16. PostsFollow'
  <2>1. \A r \in uploads'.posts : r = q \/ (r \in uploads.posts /\ r # p)
    BY <1>7
  <2>2. \A r \in uploads.posts : r # p => U!Job(r.key) # j
    BY DEF UploadInv, PostsFollow, j
  <2>3. \A r, s \in uploads'.posts : U!Job(r.key) = U!Job(s.key) => r = s
    BY <1>5, <1>8, <2>1, <2>2 DEF UploadInv, PostsFollow
  <2>4. ASSUME NEW r \in uploads.posts, r # p
        PROVE  /\ U!Job(r.key) <= jobs'
               /\ r.uploads_done = r.key[2] - 1 /\ r.urls = Urls(U!Job(r.key), r.uploads_done)
               /\ \/ r.key \in U!Underway'
                  \/ r.key \in given'.dropped /\ \A x \in U!Underway' : U!Job(x) # U!Job(r.key)
    <3>1. U!Job(r.key) # j /\ r.key # c.id
      BY <2>2, <2>4 DEF j
    <3>2. /\ U!Job(r.key) <= jobs
          /\ r.uploads_done = r.key[2] - 1 /\ r.urls = Urls(U!Job(r.key), r.uploads_done)
          /\ \/ r.key \in U!Underway
             \/ r.key \in given.dropped /\ \A x \in U!Underway : U!Job(x) # U!Job(r.key)
      BY DEF UploadInv, PostsFollow
    <3> QED BY <1>8, <1>10, <1>11, <3>1, <3>2
  <2>5. /\ U!Job(q.key) <= jobs'
        /\ q.uploads_done = q.key[2] - 1 /\ q.urls = Urls(U!Job(q.key), q.uploads_done)
        /\ q.key \in U!Underway'
    <3>1. n = (n + 1) - 1
      BY <1>1 DEF n
    <3> QED BY <1>1, <1>5, <1>8, <1>9, <1>10, <3>1
  <2>6. ASSUME NEW e \in uploads'.pending, (U!Key(e.id))'
        PROVE  e.post
    <3>1. e \in uploads.pending /\ e.id \in U!Underway /\ e.id # c.id
      BY <1>7 DEF UploadInv, Distinct, U!Underway
    <3>2. U!Job(e.id) # j
      BY <1>9, <3>1
    <3>3. U!Key(e.id)
      BY <1>5, <1>8, <2>1, <2>6, <3>2 DEF U!Key
    <3> QED BY <3>1, <3>3 DEF UploadInv, PostsFollow
  <2>7. \A r \in uploads'.posts :
          /\ U!Job(r.key) <= jobs'
          /\ r.uploads_done = r.key[2] - 1 /\ r.urls = Urls(U!Job(r.key), r.uploads_done)
          /\ \/ r.key \in U!Underway'
             \/ r.key \in given'.dropped /\ \A x \in U!Underway' : U!Job(x) # U!Job(r.key)
    BY <2>1, <2>4, <2>5
  <2> QED BY <2>3, <2>6, <2>7 DEF PostsFollow
<1>17. Threads'
  BY <1>7 DEF UploadInv, Threads, Attends
<1> QED BY <1>12, <1>13, <1>14, <1>15, <1>16, <1>17 DEF UploadInv

LEMMA EndsStep ==
  ASSUME UploadInv, NEW c \in uploads.pending, U!Ends(c), main' = main, jobs' = jobs, given' = given
  PROVE  UploadInv'
<1>1. IsUpload(c) /\ c.id \in U!Ids
  BY DEF UploadInv, UploadTyped, IsUpload
<1>2. {e \in uploads.pending : e.id # c.id} = uploads.pending \ {c}
  BY DEF UploadInv, Distinct
<1>3. CASE ~c.post
  <2>1. \A p \in uploads.posts : p.key # c.id
    BY <1>3 DEF UploadInv, PostsFollow, U!Key
  <2>2. PICK what \in Words : U!Tell(c.id, what, <<c.id>>) /\ what # "published"
    BY <1>3 DEF U!Ends, U!FileEnds, Words
  <2>3. /\ DOMAIN uploads' = DOMAIN uploads /\ uploads'.pending = uploads.pending \ {c}
        /\ uploads'.requests = uploads.requests /\ uploads'.posts = uploads.posts
    BY <1>3 DEF U!Ends, U!FileEnds, U!Finished, UploadInv, UploadTyped
  <2>4. <<c.id>> \in Seq(U!Ids)
    BY <1>1
  <2>5. PICK Q \in SUBSET uploads.posts : Q = {}
    OBVIOUS
  <2>6. uploads'.posts = uploads.posts \ Q
    BY <2>3, <2>5
  <2> QED BY <2>1, <2>2, <2>3, <2>4, <2>6, JobEnds
<1>4. CASE c.post /\ U!Key(c.id)
  <2>1. PICK p \in uploads.posts : p = U!PostOf(c) /\ p.key = c.id
    BY <1>4 DEF U!Key, U!PostOf
  <2>2. U!EmbedEnds(c, p)
    BY <1>4, <2>1 DEF U!Ends
  <2>3. U!Embed(p, c).uploads_done = p.uploads_done + 1 /\ U!Embed(p, c).urls = Append(p.urls, c.id)
    BY DEF UploadInv, UploadTyped, U!Embed
  <2>4. CASE c.success /\ p.uploads_done + 1 < Embeds
    BY <2>1, <2>2, <2>4, NextFile
  <2>5. CASE ~(c.success /\ p.uploads_done + 1 < Embeds)
    <3>1. PICK what \in Words : what = IF c.success THEN "published" ELSE "draft"
      BY DEF Words
    <3>2. /\ uploads' = [uploads EXCEPT !.pending = U!Finished(c), !.posts = @ \ {p}]
          /\ U!Tell(c.id, what, Append(p.urls, c.id))
      BY <2>2, <2>3, <2>5, <3>1 DEF U!EmbedEnds
    <3>3. /\ DOMAIN uploads' = DOMAIN uploads /\ uploads'.pending = uploads.pending \ {c}
          /\ uploads'.requests = uploads.requests /\ uploads'.posts = uploads.posts \ {p}
      BY <3>2 DEF U!Finished, UploadInv, UploadTyped
    <3>4. \A r \in uploads.posts : r.key = c.id => r \in {p}
      BY <2>1 DEF UploadInv, PostsFollow
    <3>5. /\ p.uploads_done + 1 \in 1..Embeds /\ Embeds \in Nat /\ p.uploads_done \in Nat
          /\ Append(p.urls, c.id) = Urls(U!Job(c.id), p.uploads_done + 1)
          /\ Append(p.urls, c.id) \in Seq(U!Ids)
      BY <2>1, NextUrl, PostConstants
    <3>6. what = "published" => p.uploads_done + 1 = Embeds
      BY <2>5, <3>1, <3>5
    <3>7. what = "published" => Append(p.urls, c.id) = Urls(U!Job(c.id), Embeds)
      BY <3>5, <3>6
    <3>8. {p} \in SUBSET uploads.posts
      OBVIOUS
    <3> QED BY <3>2, <3>3, <3>4, <3>5, <3>7, <3>8, JobEnds
  <2> QED BY <2>4, <2>5
<1>5. CASE c.post /\ ~U!Key(c.id)
  <2>1. /\ DOMAIN uploads' = DOMAIN uploads /\ uploads'.pending = uploads.pending \ {c}
        /\ uploads'.requests = uploads.requests /\ uploads'.posts = uploads.posts /\ told' = told
    BY <1>5 DEF U!Ends, U!Finished, UploadInv, UploadTyped
  <2>2. /\ c.id \in U!Underway /\ uploads.requests \ {c.id} = uploads.requests
        /\ U!GiveUp(c.id)
    BY <1>5 DEF U!Underway, UploadInv, OneOfAJob, U!GiveUp
  <2>3. \A e \in uploads'.pending : Attends(e)'
    BY <2>1 DEF UploadInv, Threads, Attends
  <2>4. main'.at = "dead" => given'.early
    BY DEF UploadInv, Threads
  <2> QED BY <1>2, <2>1, <2>2, <2>3, <2>4, FileDropped
<1> QED BY <1>1, <1>3, <1>4, <1>5 DEF IsUpload

LEMMA FdHookStep == ASSUME UploadInv, NEW c \in uploads.pending, U!FdHook(c) PROVE UploadInv'
<1>1. jobs' = jobs /\ given' = given /\ U!Loop /\ c.bytes > 0
  BY DEF U!FdHook
<1>2. CASE c.worker_done
  <2>1. U!Ends(c) /\ main' = main
    BY <1>2 DEF U!FdHook, U!HookJoins
  <2> QED BY <1>1, <2>1, EndsStep
<1>3. CASE ~c.worker_done
  <2>1. main' = [at |-> "dead"] /\ uploads' = uploads /\ told' = told
    BY <1>3 DEF U!FdHook, U!HookJoins
  <2>2. given.early
    BY <1>1, <1>3, ByteIsOurs DEF UploadInv, UploadTyped
  <2> QED BY <1>1, <2>1, <2>2, Untouched DEF U!Loop
<1> QED BY <1>2, <1>3

-----------------------------------------------------------------------------
(* The timer and the disconnection.                                        *)

LEMMA TimerTakesStep == ASSUME UploadInv, NEW c \in uploads.pending, U!TimerTakes(c) PROVE UploadInv'
<1>1. PICK d : d = [c EXCEPT !.worker_done = FALSE]
  OBVIOUS
<1>2. /\ U!Change(c, d) /\ U!Loop /\ c.worker_done /\ main' = [at |-> "timer", fd |-> c.fd]
      /\ told' = told /\ jobs' = jobs /\ given' = given
  BY <1>1 DEF U!TimerTakes
<1>3. /\ IsUpload(c) /\ Attends(c) /\ DOMAIN given = {"dropped", "early", "stray"}
      /\ given.early \in BOOLEAN
  BY DEF UploadInv, UploadTyped, Threads
<1>4. /\ IsUpload(d) /\ d.id = c.id /\ d.post = c.post /\ d.fd = c.fd
      /\ d.worker = c.worker /\ d.bytes = c.bytes /\ d.joined = c.joined /\ d.worker_done = FALSE
  BY <1>1, <1>3 DEF IsUpload
<1>5. Attends(d)'
  BY <1>2, <1>3, <1>4 DEF Attends
<1>6. ASSUME NEW e \in uploads.pending \ {c}
      PROVE  Attends(e)'
  <2>1. Attends(e) /\ main # [at |-> "timer", fd |-> e.fd]
    BY <1>2 DEF UploadInv, Threads, U!Loop
  <2> QED BY <1>2, <2>1 DEF Attends
<1> QED BY <1>2, <1>3, <1>4, <1>5, <1>6, UploadChanged

\* The upload the timer joins is the one it has taken: the descriptor is that upload's alone.
LEMMA TimerJoinsStep == ASSUME UploadInv, NEW c \in uploads.pending, U!TimerJoins(c) PROVE UploadInv'
<1>1. PICK d : d = [c EXCEPT !.bytes = @ - 1, !.joined = TRUE]
  OBVIOUS
<1>2. /\ U!Change(c, d) /\ main = [at |-> "timer", fd |-> c.fd] /\ main' = [at |-> "loop"]
      /\ c.bytes > 0 /\ c.worker = "exited"
      /\ told' = told /\ jobs' = jobs /\ given' = given
  BY <1>1 DEF U!TimerJoins
<1>3. /\ IsUpload(c) /\ Attends(c) /\ DOMAIN given = {"dropped", "early", "stray"}
      /\ given.early \in BOOLEAN
  BY DEF UploadInv, UploadTyped, Threads
<1>4. c.bytes = 1
  BY <1>2, <1>3 DEF IsUpload
<1>5. /\ IsUpload(d) /\ d.id = c.id /\ d.post = c.post /\ d.fd = c.fd
      /\ d.worker = c.worker /\ d.bytes = 0 /\ d.joined = TRUE /\ d.worker_done = c.worker_done
  BY <1>1, <1>3, <1>4 DEF IsUpload
<1>6. Attends(d)'
  BY <1>2, <1>3, <1>5 DEF Attends
<1>7. ASSUME NEW e \in uploads.pending \ {c}
      PROVE  Attends(e)'
  <2>1. Attends(e) /\ e.fd # c.fd
    BY DEF UploadInv, Threads, Distinct
  <2>2. main # [at |-> "timer", fd |-> e.fd]
    BY <1>2, <2>1
  <2> QED BY <1>2, <2>1, <2>2 DEF Attends
<1> QED BY <1>2, <1>3, <1>5, <1>6, <1>7, UploadChanged

LEMMA CleanupClosesStep == ASSUME UploadInv, NEW c \in uploads.pending, U!CleanupCloses(c) PROVE UploadInv'
<1>1. PICK d : d = [c EXCEPT !.open = FALSE]
  OBVIOUS
<1>2. /\ U!Change(c, d) /\ main = [at |-> "cleanup"] /\ main' = [at |-> "join", fd |-> c.fd]
      /\ told' = told /\ jobs' = jobs /\ given' = given
  BY <1>1 DEF U!CleanupCloses, U!CloseWrite
<1>3. /\ IsUpload(c) /\ Attends(c) /\ DOMAIN given = {"dropped", "early", "stray"}
      /\ given.early \in BOOLEAN
  BY DEF UploadInv, UploadTyped, Threads
<1>4. /\ IsUpload(d) /\ d.id = c.id /\ d.post = c.post /\ d.fd = c.fd
      /\ d.worker = c.worker /\ d.bytes = c.bytes /\ d.joined = c.joined
      /\ d.worker_done = c.worker_done
  BY <1>1, <1>3 DEF IsUpload
<1>5. Attends(d)'
  BY <1>2, <1>3, <1>4 DEF Attends
<1>6. ASSUME NEW e \in uploads.pending \ {c}
      PROVE  Attends(e)'
  BY <1>2 DEF UploadInv, Threads, Attends
<1> QED BY <1>2, <1>3, <1>4, <1>5, <1>6, UploadChanged

LEMMA CleanupJoinsStep == ASSUME UploadInv, NEW c \in uploads.pending, U!CleanupJoins(c) PROVE UploadInv'
<1>1. /\ main = [at |-> "join", fd |-> c.fd] /\ main' = [at |-> "cleanup"]
      /\ U!GiveUp(c.id) /\ told' = told /\ jobs' = jobs
  BY DEF U!CleanupJoins
<1>2. /\ DOMAIN uploads' = DOMAIN uploads /\ uploads'.pending = uploads.pending \ {c}
      /\ uploads'.requests = uploads.requests /\ uploads'.posts = uploads.posts
  BY DEF U!CleanupJoins, UploadInv, UploadTyped
<1>3. /\ c.id \in U!Underway /\ uploads.requests \ {c.id} = uploads.requests
      /\ {e \in uploads.pending : e.id # c.id} = uploads.pending \ {c}
  BY DEF U!Underway, UploadInv, OneOfAJob, Distinct
<1>4. given'.early = given.early
  BY <1>1 DEF U!GiveUp, UploadInv, UploadTyped
<1>5. \A e \in uploads'.pending : Attends(e)'
  BY <1>1, <1>2, <1>4 DEF UploadInv, Threads, Attends
<1> QED BY <1>1, <1>2, <1>3, <1>5, FileDropped

\* The steps that touch no upload.
LEMMA OtherStep ==
  ASSUME UploadInv, U!Disconnect \/ U!Cleaned \/ U!Connected \/ U!Serve
  PROVE  UploadInv'
<1>1. CASE U!Disconnect
  BY <1>1, Untouched DEF U!Disconnect, U!Loop
<1>2. CASE U!Cleaned
  <2>1. /\ DOMAIN uploads' = DOMAIN uploads /\ uploads'.pending = uploads.pending
        /\ uploads'.requests = uploads.requests /\ uploads'.posts = uploads.posts
    BY <1>2 DEF U!Cleaned, UploadInv, UploadTyped
  <2> QED BY <1>2, <2>1, Untouched DEF U!Cleaned
<1>3. CASE U!Connected
  <2>1. /\ DOMAIN uploads' = DOMAIN uploads /\ uploads'.pending = uploads.pending
        /\ uploads'.requests = uploads.requests /\ uploads'.posts = uploads.posts
    BY <1>3 DEF U!Connected, UploadInv, UploadTyped
  <2> QED BY <1>3, <2>1, Untouched DEF U!Connected, U!Loop
<1>4. CASE U!Serve
  <2>1. uploads' = uploads /\ main' = main /\ told' = told /\ given' = given /\ jobs' = jobs
    BY <1>4 DEF U!Serve, U!Answer
  <2> QED BY <2>1, Untouched DEF UploadInv, Threads
<1> QED BY <1>1, <1>2, <1>3, <1>4

-----------------------------------------------------------------------------
(* The theorems.                                                           *)

LEMMA UploadNextInv == ASSUME UploadInv, [U!Next]_U!vars PROVE UploadInv'
<1>1. CASE U!Command
  BY <1>1, CommandStep
<1>2. CASE U!Answered
  BY <1>2, AnsweredStep
<1>3. CASE U!Workers
  BY <1>3, WorkerStep DEF U!Workers
<1>4. CASE U!Hooks
  BY <1>4, FdHookStep DEF U!Hooks
<1>5. CASE U!Timer
  BY <1>5, TimerTakesStep, TimerJoinsStep DEF U!Timer
<1>6. CASE U!Cleanup
  BY <1>6, CleanupClosesStep, CleanupJoinsStep, OtherStep DEF U!Cleanup
<1>7. CASE U!Disconnect \/ U!Connected \/ U!Serve
  BY <1>7, OtherStep
<1>8. CASE UNCHANGED U!vars
  <2>1. uploads' = uploads /\ main' = main /\ told' = told /\ given' = given /\ jobs' = jobs
    BY <1>8 DEF U!vars
  <2> QED BY <2>1, Untouched DEF UploadInv, Threads
<1> QED BY <1>1, <1>2, <1>3, <1>4, <1>5, <1>6, <1>7, <1>8 DEF U!Next

LEMMA InvHolds == U!Spec => []UploadInv
<1>1. U!Init => UploadInv
  BY UploadInitInv
<1>2. UploadInv /\ [U!Next]_U!vars => UploadInv'
  BY UploadNextInv
<1> QED BY <1>1, <1>2, PTL DEF U!Spec

\* Hook, timer and disconnection race for a worker: none goes unjoined that made its
\* request, and no job has two outcomes (account::upload_fd_cb, timer_cb, disconnect_impl).
THEOREM JobsEndOnceTheorem == U!Spec => []JobsEndOnce
<1>1. UploadInv => U!JobsEndOnce
  <2> SUFFICES ASSUME UploadInv PROVE U!JobsEndOnce
    OBVIOUS
  <2>1. U!WorkersAreJoined
    BY DEF UploadInv, Threads, U!WorkersAreJoined
  <2>2. U!ToldOnce
    BY DEF UploadInv, Outcomes, Outcome, U!ToldOnce
  <2> QED BY <2>1, <2>2 DEF U!JobsEndOnce
<1> QED BY <1>1, InvHolds, PTL DEF JobsEndOnce

\* A feed post is published with the URL of each of its files, in order, and waits for one
\* upload of its own, unless that was refused or cut off (command__feed, upload_fd_cb).
THEOREM PostsAreWholeTheorem == U!Spec => []PostsAreWhole
<1>1. UploadInv => U!PostsAreWhole
  <2> SUFFICES ASSUME UploadInv PROVE U!PostsAreWhole
    OBVIOUS
  <2>1. U!PostsAreComplete
    <3> SUFFICES ASSUME NEW j \in 1..jobs, NEW x \in U!Range(told[j]), x.what = "published"
                 PROVE  x.urls = [k \in 1..Embeds |-> <<j, k>>]
      BY DEF U!PostsAreComplete
    <3>1. j \in 1..MaxJobs
      BY PostConstants DEF UploadInv, UploadTyped
    <3>2. told[j] \in Seq([what : Words, urls : Seq(U!Ids)]) /\ Outcome(j, told[j])
      BY <3>1 DEF UploadInv, Outcomes
    <3>3. PICK i \in 1..Len(told[j]) : x = told[j][i]
      BY <3>2 DEF U!Range
    <3>4. i = 1 /\ Len(told[j]) = 1
      <4> DEFINE n == Len(told[j])
      <4>1. n \in Nat /\ n <= 1
        BY <3>2 DEF Outcome
      <4> HIDE DEF n
      <4>2. i \in 1..n
        BY <3>3 DEF n
      <4>3. i = 1 /\ n = 1
        BY <4>1, <4>2
      <4> QED BY <4>3 DEF n
    <3> QED BY <3>2, <3>3, <3>4 DEF Outcome, Urls
  <2>2. U!PostsAreUnderway
    <3> SUFFICES ASSUME NEW p \in uploads.posts
                 PROVE  LET own == {id \in U!Underway : U!Job(id) = U!Job(p.key)}
                        IN  own = {p.key} \/ (own = {} /\ p.key \in given.dropped)
      BY DEF U!PostsAreUnderway
    <3>1. CASE p.key \in U!Underway
      BY <3>1 DEF UploadInv, OneOfAJob
    <3>2. CASE p.key \notin U!Underway
      BY <3>2 DEF UploadInv, PostsFollow
    <3> QED BY <3>1, <3>2
  <2> QED BY <2>1, <2>2 DEF U!PostsAreWhole
<1> QED BY <1>1, InvHolds, PTL DEF PostsAreWhole

=============================================================================
