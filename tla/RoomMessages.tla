---------------------------- MODULE RoomMessages ----------------------------
(***************************************************************************)
(* What is said in a room, as it stands in the room's buffer: texts,       *)
(* replies, corrections, retractions, moderations and reactions, live and  *)
(* from the room's archive, and the last message reported as read.         *)
(*                                                                         *)
(* Unlike a contact's conversation, nothing is held back while the archive *)
(* is read, the client's own texts appear when the room reflects them, and *)
(* senders are told apart by nick or occupant-id.  A number stands for a   *)
(* stanza, its place in the archive.  It can be referred to as "m", by its *)
(* origin-id, or as "s", by the stanza-id the room gave it.                *)
(***************************************************************************)
EXTENDS Naturals, Sequences, FiniteSetsExt, SequencesExt

CONSTANTS
  Others,         \* the other occupants
  MaxSaid,        \* bound: what is said
  MaxVisits,      \* bound: returns to the room and to the buffer
  OriginIds,      \* the others' clients give their messages an origin-id
  OccupantIds     \* the room gives occupants an id (XEP-0421) and advertises it

ASSUME RoomMessageConstants ==
  /\ IsFiniteSet(Others) /\ {"self", "room"} \cap Others = {}
  /\ MaxSaid \in Nat \ {0} /\ MaxVisits \in Nat
  /\ OriginIds \in BOOLEAN /\ OccupantIds \in BOOLEAN

VARIABLES
  said,     \* the room's archive
  inside,   \* the room reflects to this client
  page,     \* what the archive has still to send, a pair
  stream,   \* sent by the room, not yet received
  lines,    \* of the buffer
  newest,   \* muc_last_seen, 0 for none
  shown,    \* the buffer is on screen: "no", "briefly", "long"
  dwell,    \* displayed_delay_timer
  mds,      \* the published item, 0 for none
  got,      \* history: the last stanza received live
  visits    \* bounded counter

room == <<said, inside, page, stream>>
reading == <<newest, shown, dwell, mds>>
vars == <<room, lines, reading, got, visits>>

-----------------------------------------------------------------------------
\* Operators named ...Mutant are slips the properties must notice; no action uses them.

HasOrigin(n) == said[n].by = "self" \/ OriginIds
IsText(n) == said[n].kind \in {"text", "reply"}

\* message_handler's tags: stable_id prefers the origin-id; the room always adds its own
Line(n) ==
  [of |-> n, id |-> IF HasOrigin(n) THEN "m" ELSE "s", origin |-> HasOrigin(n), sid |-> TRUE,
   occupant |-> OccupantIds, text |-> n, reacts |-> {}]

\* echo_outgoing_reply: the line of a reply has the origin-id and nothing of the room's
Echo(n) == [Line(n) EXCEPT !.sid = FALSE, !.occupant = FALSE]

\* line_store_tombstone_*: the tags are replaced
Tombstone(l) ==
  [l EXCEPT !.id = "none", !.origin = FALSE, !.sid = FALSE, !.occupant = FALSE, !.text = 0]

\* line_tag_matches_message_id
Named(l, n, as) ==
  l.of = n /\ (l.id = as \/ IF as = "m" THEN l.origin ELSE l.sid)

\* the last line with the identifier: the line_store_..._by_id
Find(ls, n) ==
  LET is == {i \in DOMAIN ls : Named(ls[i], said[n].about, said[n].as)}
  IN  {i \in is : i = Max(is)}

\* line_tags_verify_sender: of a retraction the occupant-id if the room has them, else the nick
SameNick(l, n) == said[l.of].by = said[n].by
SameSender(l, n) == SameNick(l, n) /\ (OccupantIds => l.occupant)

Change(ls, is, New(_)) == [i \in DOMAIN ls |-> IF i \in is THEN New(ls[i]) ELSE ls[i]]

Corrected(ls, n) ==
  Change(ls, {i \in Find(ls, n) : ls[i].id # "none" /\ SameNick(ls[i], n)},
         LAMBDA l : [l EXCEPT !.text = n])
RetractedMutant(ls, n) == Change(ls, Find(ls, n), Tombstone)
Retracted(ls, n) ==
  Change(ls, {i \in Find(ls, n) : SameSender(ls[i], n)}, Tombstone)

\* taken from the room itself only: should_accept_moderation_from_sender
Moderated(ls, n) == IF said[n].by = "room" THEN Change(ls, Find(ls, n), Tombstone) ELSE ls

\* format_message_with_reactions: what was there before, of whomever, is replaced
Reacted(ls, n) == Change(ls, Find(ls, n), LAMBDA l : [l EXCEPT !.reacts = {said[n].by}])

HasStanzaId(ls, n) == \E l \in Range(ls) : l.of = n /\ l.sid

\* skip_live_self_render
IsEchoed(ls, n) == \E l \in Range(ls) : l.of = n /\ l.id = (IF HasOrigin(n) THEN "m" ELSE "s")

Handle(ls, n, live) ==
  CASE IsText(n) -> IF live /\ IsEchoed(ls, n) THEN ls ELSE Append(ls, Line(n))
    [] said[n].kind = "fix" -> Corrected(ls, n)
    [] said[n].kind = "retract" -> Retracted(ls, n)
    [] said[n].kind = "moderate" -> Moderated(ls, n)
    [] said[n].kind = "react" -> Reacted(ls, n)

\* mam_dedup_needles: the message id of a reply is not its origin-id
IsArchived(ls, n) ==
  \/ HasStanzaId(ls, n)
  \/ \E l \in Range(ls) : l.of = n /\ l.id = "m" /\ said[n].kind # "reply"

-----------------------------------------------------------------------------
(* message_handler                                                         *)

\* muc_last_seen is the last live one that was not shown before
ReceiveLive ==
  /\ stream # <<>> /\ Head(stream).live
  /\ stream' = Tail(stream)
  /\ LET n == Head(stream).n
     IN  /\ got' = n
         /\ IF HasStanzaId(lines, n) THEN UNCHANGED <<lines, newest>>
            ELSE newest' = n /\ lines' = Handle(lines, n, TRUE)
  /\ UNCHANGED <<said, inside, page, shown, dwell, mds, visits>>

NewestMutant(n) == n
Newest(n) == newest

ReceiveArchived ==
  /\ stream # <<>> /\ ~ Head(stream).live
  /\ stream' = Tail(stream)
  /\ LET n == Head(stream).n
     IN  /\ lines' = IF IsArchived(lines, n) THEN lines ELSE Handle(lines, n, FALSE)
         /\ newest' = Newest(n)
  /\ UNCHANGED <<said, inside, page, shown, dwell, mds, got, visits>>

-----------------------------------------------------------------------------
(* The room.  It reflects what is said to whoever is inside.               *)

Say(entry) ==
  /\ Len(said) < MaxSaid
  /\ said' = Append(said, entry)
  /\ stream' = IF inside THEN Append(stream, [n |-> Len(said'), live |-> TRUE]) ELSE stream

Entry(by, kind, about, as) == [by |-> by, kind |-> kind, about |-> about, as |-> as]

\* a correction names the message as its sender did, the others as the room did
OtherSays(by) ==
  /\ \/ Say(Entry(by, "text", 0, "m"))
     \/ \E n \in DOMAIN said :
          /\ IsText(n)
          /\ \/ HasOrigin(n) /\ Say(Entry(by, "fix", n, "m"))
             \/ \E kind \in {"retract", "react"} : Say(Entry(by, kind, n, "s"))
             \/ Say(Entry("room", "moderate", n, "s"))
  /\ UNCHANGED <<inside, page, lines, reading, got, visits>>

\* the archive sends its answer between what is said meanwhile
Serve ==
  /\ page[1] < page[2]
  /\ page' = <<page[1] + 1, page[2]>>
  /\ stream' = Append(stream, [n |-> page[1] + 1, live |-> FALSE])
  /\ UNCHANGED <<said, inside, lines, reading, got, visits>>

Leave ==
  /\ inside /\ inside' = FALSE
  /\ stream' = <<>> /\ page' = <<0, 0>>
  /\ UNCHANGED <<said, lines, reading, got, visits>>

\* joined again, and the archive is asked for what was said since some stanza received
Return ==
  /\ ~ inside /\ inside' = TRUE
  /\ visits < MaxVisits /\ visits' = visits + 1
  /\ \E n \in 0..got : page' = <<n, Len(said)>>
  /\ UNCHANGED <<said, stream, lines, reading, got>>

-----------------------------------------------------------------------------
(* The user's commands.                                                    *)

\* send_reads, of a room: the item is published and forgotten
Publish == mds' = (IF newest = 0 THEN mds ELSE newest) /\ newest' = 0

\* send_message: no line before the room reflects it
Write ==
  /\ inside /\ Say(Entry("self", "text", 0, "m"))
  /\ Publish /\ dwell' = FALSE
  /\ UNCHANGED <<inside, page, lines, shown, got, visits>>

\* resolve_msg_id: the stanza-id of the room, else the id_ tag
As(l) == IF l.sid THEN "s" ELSE l.id

\* collect_own_messages
Own(l) == said[l.of].by = "self" /\ l.id # "none"

\* buffer__update_line_by_id goes by the id_ tag alone
EditedLine(n) ==
  LET is == {i \in DOMAIN lines : lines[i].of = said'[n].about /\ lines[i].id = said'[n].as}
  IN  {i \in is : i = Max(is)}

\* /edit and /edit-to
Edit ==
  /\ inside
  /\ \E l \in Range(lines) : Own(l) /\ Say(Entry("self", "fix", l.of, As(l)))
  /\ lines' = Change(lines, EditedLine(Len(said')), LAMBDA l : [l EXCEPT !.text = Len(said')])
  /\ UNCHANGED <<inside, page, reading, got, visits>>

\* /retract, /react, /reply and /reply-to, /moderate.  The room acts on its own id only.
Command ==
  /\ inside
  /\ \E l \in Range(lines) :
       /\ l.id # "none"
       /\ \/ /\ Own(l) /\ Say(Entry("self", "retract", l.of, As(l)))
             /\ UNCHANGED lines
          \/ /\ said[l.of].by # "self" /\ Say(Entry("self", "react", l.of, As(l)))
             /\ UNCHANGED lines
          \/ /\ said[l.of].by # "self" /\ Say(Entry("self", "reply", l.of, As(l)))
             /\ lines' = Append(lines,
                  [of |-> Len(said'), id |-> "m", origin |-> TRUE, sid |-> FALSE,
                   occupant |-> FALSE, text |-> Len(said'), reacts |-> {}])
          \/ /\ l.id = "s" /\ Say(Entry("room", "moderate", l.of, "s"))
             /\ UNCHANGED lines
  /\ UNCHANGED <<inside, page, reading, got, visits>>

\* buffer__switch_cb: schedule_displayed_flush
Enter ==
  /\ shown = "no" /\ shown' = "briefly"
  /\ visits < MaxVisits /\ visits' = visits + 1
  /\ dwell' = (newest # 0)
  /\ UNCHANGED <<room, lines, newest, mds, got>>

\* displayed_delay_cb, or time that passes without a timer
Dwell ==
  /\ shown = "briefly" /\ shown' = "long" /\ dwell' = FALSE
  /\ IF dwell THEN Publish ELSE UNCHANGED <<newest, mds>>
  /\ UNCHANGED <<room, lines, got, visits>>

\* buffer__switch_cb: cancel_displayed_flush, else send_reads
Depart ==
  /\ shown # "no" /\ shown' = "no" /\ dwell' = FALSE
  /\ IF dwell THEN UNCHANGED <<newest, mds>> ELSE Publish
  /\ UNCHANGED <<room, lines, got, visits>>

-----------------------------------------------------------------------------
Init ==
  /\ said = <<>> /\ inside = TRUE /\ page = <<0, 0>> /\ stream = <<>>
  /\ lines = <<>>
  /\ newest = 0 /\ shown = "no" /\ dwell = FALSE /\ mds = 0
  /\ got = 0 /\ visits = 0

Next ==
  \/ ReceiveLive \/ ReceiveArchived \/ Serve \/ Leave \/ Return
  \/ Write \/ Edit \/ Command \/ Enter \/ Dwell \/ Depart
  \/ \E by \in Others : OtherSays(by)

Spec == Init /\ [][Next]_vars

-----------------------------------------------------------------------------
\* What is shown in somebody's name is theirs: a line shows what its author wrote or the
\* author's correction of it, and nothing only if the author retracted it or the room
\* moderated it (line_data_sender_matches).
LineIsItsAuthors ==
  \A l \in Range(lines) :
    IF l.text = 0
    THEN \E n \in DOMAIN said : /\ said[n].about = l.of
           /\ \/ said[n].kind = "retract" /\ said[n].by = said[l.of].by
              \/ said[n].kind = "moderate" /\ said[n].by = "room"
    ELSE \/ l.text = l.of
         \/ said[l.text].kind = "fix" /\ said[l.text].about = l.of
            /\ said[l.text].by = said[l.of].by

\* A message of another, or a text of the user's, is shown by one line however often the room
\* and its archive send it.
RoomShownOnce ==
  \A i, j \in DOMAIN lines :
    (i # j /\ lines[i].of = lines[j].of) =>
      \/ 0 \in {lines[i].text, lines[j].text}
      \/ said[lines[i].of].kind = "reply"

\* What is shown in somebody's name is theirs, and by one line however often it comes.
LinesAreTrue == LineIsItsAuthors /\ RoomShownOnce

\* The user's other devices are never told of something as read that this client has not
\* received from the room, and what they are told never goes back.
MarkedIsReceived == mds <= got /\ newest <= got
ReadGoesOn == [][mds' >= mds]_vars
ReadIsReceived == [][MarkedIsReceived']_vars /\ ReadGoesOn

-----------------------------------------------------------------------------
(* Not so, and TLC finds it: *)

Quiet == inside /\ stream = <<>> /\ page[1] = page[2]
Gone(n) == \E k \in DOMAIN said : said[k].about = n /\ said[k].kind = "moderate"

\* A line whose message has been moderated shows it no more: a reply of the user's has no
\* stanza-id in its line, and a page under way brings a moderated message back.
ModeratedIsGone == Quiet => \A l \in Range(lines) : Gone(l.of) => l.text = 0

\* A reply is shown once: its line has neither the stanza-id nor the message id.
ReplyShownOnce ==
  \A i, j \in DOMAIN lines :
    (i # j /\ lines[i].of = lines[j].of) => 0 \in {lines[i].text, lines[j].text}

\* "MUST use the MUC-assigned stanza-id" (history.inl): /moderate names the line's id_ tag,
\* so that what has an origin-id cannot be moderated.
CanModerate == \A l \in Range(lines) : (l.id # "none" /\ l.sid) => l.id = "s"

\* Each occupant's reactions are kept: the last one replaces them all.
ReactionsAreKept ==
  (Quiet /\ visits = 0) => \A l \in Range(lines) : \A n \in DOMAIN said :
    (said[n].kind = "react" /\ said[n].about = l.of /\ l.text # 0) => said[n].by \in l.reacts

\* A line shows the last correction: the archive's copy of an earlier one undoes a later one
\* that came live meanwhile.
LatestInRoom == Quiet =>
  \A l \in Range(lines) : \A n \in DOMAIN said :
    (l.text # 0 /\ said[n].kind = "fix" /\ said[n].about = l.of /\ said[n].by = said[l.of].by)
      => n <= l.text

\* "a visit shorter than look.displayed_delay does not count as reading" (buffer.cpp): a
\* message that comes in sets no timer in a room.
BriefIsNotRead == [][(shown = "briefly" /\ shown' = "no") => mds' = mds]_vars

=============================================================================
