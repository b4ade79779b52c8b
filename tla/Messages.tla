------------------------------ MODULE Messages ------------------------------
(***************************************************************************)
(* One conversation with a contact, as it stands in its buffer: what is    *)
(* shown, corrected and retracted of what the contact, this client and     *)
(* another device of the account say, and what is reported as read.        *)
(*                                                                         *)
(* A message comes to the client up to four times: live or as a carbon,    *)
(* from the server's offline store after a loss, and in every page of the  *)
(* archive that covers it.  The buffer is the only memory of what has been *)
(* shown: a line is found by the identifiers in its tags (stable id,       *)
(* origin-id, stanza-id), and a retracted line has lost them.              *)
(*                                                                         *)
(* A number stands for a message, its place in the archive; <<"m", n>> is  *)
(* its id and origin-id, <<"s", n>> the stanza-id the server gave it.      *)
(***************************************************************************)
EXTENDS Naturals, Sequences, FiniteSets, FiniteSetsExt, SequencesExt

CONSTANTS
  MaxArchive,      \* what is said
  MaxEvents,       \* losses, visits, fetches and publications of another device
  Delay,           \* look.displayed_delay
  OriginIds,       \* other clients give their messages an origin-id
  MarkableEdits    \* the contact's client asks for markers of corrections, too

ASSUME BoundsAreNumbers ==
  /\ MaxArchive \in Nat \ {0} /\ MaxEvents \in Nat /\ Delay \in Nat \ {0}
  /\ OriginIds \in BOOLEAN /\ MarkableEdits \in BOOLEAN

VARIABLES
  archive,   \* server: what was said, by whom, about which message
  offline,   \* server: messages of the contact it could not deliver
  node,      \* server: item of the conversation in urn:xmpp:mds:displayed:0
  asked,     \* server: the archive query to answer, a set of one at most
  down,      \* under way to the client
  up,        \* account.connected()
  fetch,     \* mam_queries of the conversation: "none", "global" or "chat"
  cursor,    \* mam_cursor_get("global")
  held,      \* mam_deferred_messages
  chat,      \* the channel: lines, unreads and displayed_delay_timer
  view,      \* the buffer on screen, for how long
  unacked,   \* handled, but the server may not know
  marks,     \* history: <displayed/> markers per message
  stale,     \* history: messages changed during a global catch-up, or torn by a loss
  events     \* bound

server == <<archive, offline, node, asked>>
stream == <<down, up, unacked>>
vars == <<server, stream, fetch, cursor, held, chat, view, marks, stale, events>>

Numbers == 1..MaxArchive
None == <<"none", 0>>

-----------------------------------------------------------------------------
(* Lines of the buffer.                                                    *)

Nick(by) == IF by = "peer" THEN "peer" ELSE "own"

\* stable_id: origin-id, else stanza-id, else the message's id
Stable(copy) == IF OriginIds \/ ~copy.stamped THEN "m" ELSE "s"
LineMutant(copy) ==      \* stanza_id_ only with the archive's own id
  [of |-> copy.n, id |-> Stable(copy), origin |-> OriginIds, sid |-> copy.mode = "archived",
   nick |-> Nick(archive[copy.n].by), text |-> copy.n]
Line(copy) ==
  [of |-> copy.n, id |-> Stable(copy), origin |-> OriginIds, sid |-> copy.stamped,
   nick |-> Nick(archive[copy.n].by), text |-> copy.n]

\* send_message's own line: id_ and nothing else
OwnLine(n) ==
  [of |-> n, id |-> "m", origin |-> FALSE, sid |-> FALSE, nick |-> "none", text |-> n]

Tombstone(l) == [l EXCEPT !.id = "none", !.origin = FALSE, !.sid = FALSE,
                          !.nick = "none", !.text = 0]

\* line_tag_matches_message_id
Known(l, n) == l.of = n /\ (l.id = "m" \/ l.origin)
Matches(lines, n) == {i \in DOMAIN lines : Known(lines[i], n)}

\* line_store_find_message_line_for_sender: the last line with the identifier, if it is
\* the sender's
Target(lines, n) ==
  LET is == Matches(lines, archive[n].about)
  IN  {i \in is : i = Max(is) /\ lines[i].nick = Nick(archive[n].by)}

Corrected(lines, n) ==
  [i \in DOMAIN lines |-> IF i \in Target(lines, n) THEN [lines[i] EXCEPT !.text = n] ELSE lines[i]]
Retracted(lines, n) ==
  [i \in DOMAIN lines |-> IF i \in Target(lines, n) THEN Tombstone(lines[i]) ELSE lines[i]]

HasStanzaId(lines, n) == \E l \in Range(lines) : l.of = n /\ l.sid

\* skip_live_self_render
HasOrigin(lines, copy) ==
  \E l \in Range(lines) : l.of = copy.n /\ (l.id = Stable(copy) \/ (OriginIds /\ Known(l, copy.n)))

-----------------------------------------------------------------------------
(* Unread messages and what is published of them.                          *)

Arm(c) == IF c.timer = 0 /\ c.unreads # <<>> THEN [c EXCEPT !.timer = Delay] ELSE c

\* send_reads, as far as it concerns the channel
Read(c) == [c EXCEPT !.unreads = <<>>, !.timer = 0]

\* A marker for each unread message and one item for all; lost without a stream.
Publish ==
  /\ marks' = [n \in Numbers |-> marks[n] + IF up /\ n \in Range(chat.unreads) THEN 1 ELSE 0]
  /\ node' = IF up /\ chat.unreads # <<>> THEN <<"s", Last(chat.unreads)>> ELSE node
  /\ down' = IF up /\ chat.unreads # <<>> THEN Append(down, [what |-> "mds", item |-> node']) ELSE down

\* An unread message has the id the contact gave it, the item a stanza-id.
Through(unreads, item) ==
  LET hits == {i \in DOMAIN unreads : <<"m", unreads[i]>> = item}
  IN  IF hits = {} THEN <<>> ELSE SubSeq(unreads, Min(hits) + 1, Len(unreads))

-----------------------------------------------------------------------------
(* message_handler                                                         *)

Markable(n) == archive[n].by = "peer" /\ (archive[n].kind = "text" \/ MarkableEdits)

\* build_ack_reply: not for copies of the account's own, from the archive or delayed
QueuedMutant(c, copy) ==     \* the archive's messages are marked, too
  IF Markable(copy.n) /\ copy.mode # "delayed" THEN Append(c.unreads, copy.n) ELSE c.unreads
Queued(c, copy) ==
  IF Markable(copy.n) /\ copy.mode = "live" THEN Append(c.unreads, copy.n) ELSE c.unreads

Shown(c, copy) ==
  LET d == IF copy.mode = "live" /\ HasOrigin(c.lines, copy)
             THEN c ELSE [c EXCEPT !.lines = Append(@, Line(copy))]
  IN  IF view.on /\ archive[copy.n].by = "peer" THEN Arm(d) ELSE d

Handle(c, copy) ==
  LET n == copy.n
      d == [c EXCEPT !.unreads = Queued(c, copy)]
  IN  IF copy.mode # "archived" /\ copy.stamped /\ HasStanzaId(c.lines, n) THEN c
      ELSE CASE archive[n].kind = "text"    -> Shown(d, copy)
             [] archive[n].kind = "correct" -> [d EXCEPT !.lines = Corrected(@, n)]
             [] archive[n].kind = "retract" -> [d EXCEPT !.lines = Retracted(@, n)]

\* A <result/> of the archive: mam_dedup_needles, then as above.
Result(c, n) ==
  IF HasStanzaId(c.lines, n) \/ \E l \in Range(c.lines) : l.of = n /\ l.id = "m"
    THEN c ELSE Handle(c, [n |-> n, stamped |-> TRUE, mode |-> "archived"])

\* flush_channel_mam_messages
FlushMutant(c) == c
Flush(c) == FoldLeft(Handle, c, held)

Live(n, stamped) == [what |-> "message", n |-> n, stamped |-> stamped, mode |-> "live"]
Delayed(n) == [what |-> "message", n |-> n, stamped |-> TRUE, mode |-> "delayed"]

ReceiveMessage(copy) ==
  /\ copy.what = "message"
  /\ IF fetch = "chat"
       THEN held' = Append(held, copy) /\ UNCHANGED <<chat, stale>>
       ELSE /\ chat' = Handle(chat, copy)
            /\ stale' = IF fetch = "global" /\ copy.mode = "live"
                          THEN stale \union {archive[copy.n].about} ELSE stale
            /\ UNCHANGED held
  /\ unacked' = IF archive[copy.n].by = "peer" THEN <<copy.n>> ELSE unacked
  /\ UNCHANGED <<server, fetch, cursor, marks>>

ReceiveResult(r) ==
  /\ r.what = "result"
  /\ chat' = Result(chat, r.n)
  /\ UNCHANGED <<server, unacked, fetch, cursor, held, marks, stale>>

\* <fin/>: the next page is asked for, or the fetch is over.
ReceiveFin(f) ==
  /\ f.what = "fin"
  /\ cursor' = IF fetch = "global" THEN Max({cursor, f.n}) ELSE cursor
  /\ IF f.n < f.end
       THEN /\ asked' = {[from |-> f.n + 1, end |-> f.end]}
            /\ UNCHANGED <<fetch, held, chat>>
       ELSE /\ fetch' = "none" /\ held' = <<>>
            /\ chat' = Flush(chat)
            /\ UNCHANGED asked
  /\ UNCHANGED <<archive, offline, node, unacked, marks, stale>>

\* handle_pep_event, and the answer to the MDS fetch of the setup
ReceiveMds(m) ==
  /\ m.what = "mds"
  /\ chat' = [chat EXCEPT !.unreads = Through(@, m.item)]
  /\ UNCHANGED <<server, unacked, fetch, cursor, held, marks, stale>>

Receive ==
  /\ down # <<>> /\ down' = Tail(down)
  /\ \/ ReceiveMessage(Head(down)) \/ ReceiveResult(Head(down))
     \/ ReceiveFin(Head(down))     \/ ReceiveMds(Head(down))
  /\ UNCHANGED <<up, view, events>>

-----------------------------------------------------------------------------
(* Contact, other device, server.                                          *)

Event == events < MaxEvents /\ events' = events + 1

\* One corrects and retracts one's own messages, and nothing after a retraction.
Abouts(by, kind) ==
  IF kind = "text" THEN {0}
  ELSE {n \in DOMAIN archive : /\ archive[n].by = by /\ archive[n].kind = "text"
          /\ \A i \in DOMAIN archive : archive[i].about = n => archive[i].kind # "retract"}

Add(by, kind) ==
  /\ Len(archive) < MaxArchive
  /\ \E about \in Abouts(by, kind) :
       archive' = Append(archive, [by |-> by, kind |-> kind, about |-> about])

Kinds == {"text", "correct", "retract"}

PeerSays ==
  /\ \E kind \in Kinds : Add("peer", kind)
  /\ IF up THEN down' = Append(down, Live(Len(archive'), TRUE)) /\ UNCHANGED offline
           ELSE offline' = Append(offline, Len(archive')) /\ UNCHANGED down
  /\ UNCHANGED <<node, asked, up, unacked, fetch, cursor, held, chat, view, marks, stale, events>>

\* Not every server puts a stanza-id in the carbon of a sent message.
DeviceSays ==
  /\ \E kind \in Kinds : Add("device", kind)
  /\ IF up THEN \E stamped \in {~OriginIds, TRUE} :
                  down' = Append(down, Live(Len(archive'), stamped))
           ELSE UNCHANGED down
  /\ UNCHANGED <<offline, node, asked, up, unacked, fetch, cursor, held, chat, view, marks, stale, events>>

\* Another device has read what the contact said.
DeviceReads ==
  /\ Event
  /\ \E n \in DOMAIN archive :
       /\ archive[n].by = "peer" /\ archive[n].kind = "text"
       /\ node = None \/ node[2] < n
       /\ node' = <<"s", n>>
  /\ down' = IF up THEN Append(down, [what |-> "mds", item |-> node']) ELSE down
  /\ UNCHANGED <<archive, offline, asked, up, unacked, fetch, cursor, held, chat, view, marks, stale>>

\* A page of one message.
Serve ==
  /\ \E q \in asked :
       down' = down \o (IF q.from <= q.end THEN <<[what |-> "result", n |-> q.from]>> ELSE <<>>)
                    \o <<[what |-> "fin", n |-> Min({q.from, q.end}), end |-> q.end]>>
  /\ asked' = {}
  /\ UNCHANGED <<archive, offline, node, up, unacked, fetch, cursor, held, chat, view, marks, stale, events>>

Undelivered(ns, d) ==
  IF d.what = "message" /\ archive[d.n].by = "peer" THEN Append(ns, d.n) ELSE ns

\* The stream is lost for good.  What the contact said and the server was not told to have
\* arrived goes to the offline store.
Cut ==
  /\ up /\ Event
  /\ \E last \in {<<>>, unacked} : offline' = FoldLeft(Undelivered, last, down)
  /\ up' = FALSE /\ down' = <<>> /\ asked' = {} /\ unacked' = <<>>
  /\ fetch' = "none" /\ held' = <<>>
  /\ stale' = IF fetch = "chat" THEN Numbers ELSE stale
  /\ UNCHANGED <<archive, node, cursor, chat, view, marks>>

\* Initial presence, MDS fetch, global catch-up of a fresh session.
Fresh ==
  /\ ~up /\ up' = TRUE
  /\ down' = [i \in DOMAIN offline |-> Delayed(offline[i])]
              \o (IF node = None THEN <<>> ELSE <<[what |-> "mds", item |-> node]>>)
  /\ offline' = <<>>
  /\ fetch' = "global" /\ asked' = {[from |-> cursor + 1, end |-> Len(archive)]}
  /\ UNCHANGED <<archive, node, unacked, cursor, held, chat, view, marks, stale, events>>

-----------------------------------------------------------------------------
(* The user.                                                               *)

\* send_message: what is unread has been read.
Reply ==
  /\ up /\ Add("self", "text")
  /\ Publish
  /\ chat' = [Read(chat) EXCEPT !.lines = Append(@, OwnLine(Len(archive')))]
  /\ UNCHANGED <<offline, asked, up, unacked, fetch, cursor, held, view, stale, events>>

\* /edit: the line is changed at once, whoever's it seems to be.
Edit ==
  /\ up /\ Add("self", "correct")
  /\ LET n == Len(archive')
         is == Matches(chat.lines, archive'[n].about)
     IN  chat' = IF is = {} THEN chat ELSE [chat EXCEPT !.lines[Max(is)].text = n]
  /\ UNCHANGED <<offline, node, asked, stream, fetch, cursor, held, view, marks, stale, events>>

\* /retract: only sent.
Retract ==
  /\ up /\ Add("self", "retract")
  /\ UNCHANGED <<offline, node, asked, stream, fetch, cursor, held, chat, view, marks, stale, events>>

\* /mam, or the chat is opened: its history from some point on
Open ==
  /\ up /\ fetch = "none" /\ Event
  /\ fetch' = "chat"
  /\ \E n \in DOMAIN archive : asked' = {[from |-> n, end |-> Len(archive)]}
  /\ UNCHANGED <<archive, offline, node, stream, cursor, held, chat, view, marks, stale>>

\* buffer_switch: into the buffer
Enter ==
  /\ ~view.on /\ Event
  /\ view' = [on |-> TRUE, age |-> 0, odd |-> ~up \/ chat.timer > 0]
  /\ chat' = IF up THEN Arm(chat) ELSE chat
  /\ UNCHANGED <<server, stream, fetch, cursor, held, marks, stale>>

\* and out of it
LeaveMutant ==
  /\ view.on /\ view' = [on |-> FALSE, age |-> 0, odd |-> FALSE]
  /\ IF up THEN Publish /\ chat' = Read(chat) ELSE UNCHANGED <<marks, node, down, chat>>
  /\ UNCHANGED <<archive, offline, asked, up, unacked, fetch, cursor, held, stale, events>>
Leave ==
  /\ view.on /\ view' = [on |-> FALSE, age |-> 0, odd |-> FALSE]
  /\ IF up /\ chat.timer = 0
       THEN Publish /\ chat' = Read(chat)
       ELSE /\ chat' = IF up THEN [chat EXCEPT !.timer = 0] ELSE chat
            /\ UNCHANGED <<marks, node, down>>
  /\ UNCHANGED <<archive, offline, asked, up, unacked, fetch, cursor, held, stale, events>>

\* displayed_delay_cb
Tick ==
  /\ chat.timer > 0 \/ (view.on /\ view.age < Delay)
  /\ view' = IF view.on THEN [view EXCEPT !.age = Min({@ + 1, Delay})] ELSE view
  /\ IF chat.timer = 1 /\ view.on
       THEN Publish /\ chat' = Read(chat)
       ELSE /\ chat' = [chat EXCEPT !.timer = IF @ = 0 THEN 0 ELSE @ - 1]
            /\ UNCHANGED <<marks, node, down>>
  /\ UNCHANGED <<archive, offline, asked, up, unacked, fetch, cursor, held, stale, events>>

-----------------------------------------------------------------------------
Init ==
  /\ archive = <<>> /\ offline = <<>> /\ node = None /\ asked = {}
  /\ down = <<>> /\ up = TRUE /\ unacked = <<>>
  /\ fetch = "none" /\ cursor = 0 /\ held = <<>>
  /\ chat = [lines |-> <<>>, unreads |-> <<>>, timer |-> 0]
  /\ view = [on |-> FALSE, age |-> 0, odd |-> FALSE]
  /\ marks = [n \in Numbers |-> 0] /\ stale = {} /\ events = 0

Next ==
  \/ Receive \/ PeerSays \/ DeviceSays \/ DeviceReads \/ Serve \/ Cut \/ Fresh
  \/ Reply \/ Edit \/ Retract \/ Open \/ Enter \/ Leave \/ Tick

Spec == Init /\ [][Next]_vars

-----------------------------------------------------------------------------
(* Properties.                                                             *)

\* Type invariant.
TypeOK ==
  /\ Len(archive) <= MaxArchive /\ events \in 0..MaxEvents
  /\ cursor \in 0..MaxArchive /\ fetch \in {"none", "global", "chat"}
  /\ chat.timer \in 0..Delay /\ Range(chat.unreads) \subseteq Numbers
  /\ view \in [on : BOOLEAN, age : 0..Delay, odd : BOOLEAN]
  /\ fetch = "chat" \/ held = <<>>

\* "Normal MAM dedup": whatever copies of a message arrive in whatever order, one line shows it.
ShownOnce ==
  \A i, j \in DOMAIN chat.lines :
    (i # j /\ chat.lines[i].of = chat.lines[j].of) => 0 \in {chat.lines[i].text, chat.lines[j].text}

\* When nothing is under way, a line shows the last correction of its message and nothing of
\* a retracted one.  Not: this client's own retractions, changes that come while the global
\* catch-up runs, histories that a loss has cut short.
Quiet == up /\ down = <<>> /\ asked = {} /\ fetch = "none"
About(n, kind) == {i \in DOMAIN archive : archive[i].about = n /\ archive[i].kind = kind}
LatestIsShown == Quiet =>
  \A l \in Range(chat.lines) : (l.of \in DOMAIN archive \ stale /\ l.text # 0) =>
    /\ l.text = Max({l.of} \union About(l.of, "correct"))
    /\ archive[l.of].by # "self" => About(l.of, "retract") = {}

\* The contact is told once that a message has been displayed, and going to be told: while
\* something is unread in the buffer on screen, the timer runs.  (odd: the user came while
\* the account was offline, or an earlier visit ended so.)
MarkedOnce ==
  /\ \A n \in Numbers : marks[n] <= 1
  /\ (view.on /\ ~view.odd /\ chat.unreads # <<>>) => chat.timer > 0

\* README: "Brief visits while cycling through buffers do not mark messages as read."
ReadMeansSeen ==
  [][marks' # marks => \/ Len(archive') > Len(archive)     \* a reply
                       \/ Delay \in {view.age, view'.age}
                       \/ view.odd]_vars

-----------------------------------------------------------------------------
\* Statements that do not hold.

\* pep_handler.inl: "Remove all unreads up to and including the given stanza-id"
LaterIsKept ==
  [][\A n \in Range(chat.unreads) :
      (down # <<>> /\ Head(down).what = "mds" /\ down' = Tail(down) /\ Head(down).item[2] < n)
        => n \in Range(chat'.unreads)]_vars

=============================================================================
