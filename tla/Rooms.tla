------------------------------- MODULE Rooms -------------------------------
(***************************************************************************)
(* A room (XEP-0045) as an account sees it: joining, the occupants shown,  *)
(* the nick, leaving, and the self-ping (XEP-0410) by which the idle timer *)
(* notices a membership that was lost without a word.  The stream may be   *)
(* lost and resumed or replaced; the room and one other occupant are       *)
(* external.  The handlers call each other, so each is a function of the   *)
(* account.                                                                *)
(***************************************************************************)
EXTENDS Naturals, Sequences, FiniteSetsExt, SequencesExt

CONSTANTS
  Nicks,
  NoNick,        \* not in the room; no nick in the bookmark
  AccountNick,   \* the account's nick at first
  BookmarkNick,  \* of the room's bookmark
  MaxPings,      \* bound: ids of self-pings
  MaxEvents      \* bound: commands, moves of others, losses and troubles, in all

ASSUME RoomConstants ==
  /\ IsFiniteSet(Nicks) /\ NoNick \notin Nicks
  /\ AccountNick \in Nicks /\ BookmarkNick \in Nicks \union {NoNick}
  /\ MaxPings \in Nat \ {0} /\ MaxEvents \in Nat

VARIABLES
  acct,    \* the account, a record
  s2c,     \* what the server has sent
  room,    \* the nicks the account and the other have in the room
  seen,    \* history: a join was refused, the user has left, a new stream after the
           \* last question to the archive
  events   \* bounded counter

vars == <<acct, s2c, room, seen, events>>

Self == 0    \* who the nicks belong to
Other == 1

-----------------------------------------------------------------------------
\* Operators named ...Mutant are slips the properties must notice; no action uses them.

\* the occupant JID a room is joined with: muc_presence_jid
JoinNick(a) == IF BookmarkNick # NoNick THEN BookmarkNick ELSE a.nickname

\* channel::channel.  due: no self-ping for 15 minutes, or never; joined is history: the
\* room has told this buffer who is there
NewChannel(a) ==
  [open |-> TRUE, joining |-> TRUE, self_nick |-> JoinNick(a), due |-> TRUE,
   present |-> {}, joined |-> FALSE]
NoChannel ==
  [open |-> FALSE, joining |-> FALSE, self_nick |-> NoNick, due |-> FALSE,
   present |-> {}, joined |-> FALSE]

Send(a, x) == [a EXCEPT !.out = Append(@, x)]

\* send_muc_join_presence
SendJoin(a, nick) ==
  LET b == Send(a, [what |-> "join", nick |-> nick])
  IN  IF a.chan.open THEN [b EXCEPT !.chan.self_nick = nick] ELSE b

\* command__enter
Enter(a, nick) ==
  LET b == IF a.chan.open THEN a ELSE [a EXCEPT !.chan = NewChannel(a)]
  IN  SendJoin([b EXCEPT !.chan.joining = TRUE], nick)

\* rejoin_open_mucs
Rejoin(a) ==
  IF a.chan.open THEN SendJoin([a EXCEPT !.chan.joining = TRUE], JoinNick(a)) ELSE a

\* stanza::uuid: an id that nothing carries
InUse(a) ==
  {q.id : q \in a.pings} \union
  {x.id : x \in {y \in Range(a.out) \union Range(s2c) : y.what \in {"ping", "pong"}}}
FreeIds(a) == (1..MaxPings) \ InUse(a)

\* account::send_muc_self_ping
SelfPing(a) ==
  LET id == Min(FreeIds(a))
  IN  [Send(a, [what |-> "ping", nick |-> a.chan.self_nick, id |-> id])
         EXCEPT !.pings = @ \union {[id |-> id, old |-> FALSE]}, !.chan.due = FALSE]

-----------------------------------------------------------------------------
\* What arrives

\* presence_handler, status 110: ours.  The first one after a join asks the archive for what
\* was missed, and who is there.
ConfirmedMutant(a, nick) ==    \* takes the nick asked for to be the one assigned
  IF a.chan.joining THEN Send([a EXCEPT !.chan.joining = FALSE], [what |-> "items"]) ELSE a
Confirmed(a, nick) ==
  LET b == [a EXCEPT !.chan.self_nick = nick, !.chan.joining = FALSE]
  IN  IF a.chan.joining THEN Send(b, [what |-> "items"]) ELSE b

Entered(a, x) ==
  LET b == IF x.self THEN Confirmed(a, x.nick) ELSE a
  IN  [b EXCEPT !.chan.present = @ \union {x.nick}, !.chan.joined = @ \/ x.full]

\* finish_nick_change, set_member_offline or remove_member
RemoveMember(a, nick) == [a EXCEPT !.chan.present = @ \ {nick}]

Left(a, x) ==
  LET b == IF x.self THEN Confirmed(a, x.nick) ELSE a
      c == RemoveMember(b, x.nick)
  IN  IF x.self /\ x.to # NoNick THEN [c EXCEPT !.nickname = x.to, !.chan.self_nick = x.to]
      ELSE c

\* message_handler: a message or a subject opens the room; live, it ends the flood of joining
Spoken(a, x) ==
  LET b == IF a.chan.open THEN a ELSE [a EXCEPT !.chan = NewChannel(a)]
  IN  IF x.live THEN [b EXCEPT !.chan.joining = FALSE] ELSE b

\* handle_ping_iq_event; "ambiguous": a network error
PongMutant(a, x) == [a EXCEPT !.pings = {q \in @ : q.id # x.id}]    \* does not rejoin
Pong(a, x) ==
  LET b == [a EXCEPT !.pings = {q \in @ : q.id # x.id}]
  IN  IF x.id \notin {q.id : q \in a.pings} THEN a
      ELSE IF x.answer = "out" THEN SendJoin(b, a.nickname) ELSE b

\* presence, and the list of occupants, for a room that has a buffer
Presented(a, x) ==
  CASE x.what = "here"  -> Entered(a, x)
    [] x.what = "gone"  -> Left(a, x)
    [] x.what = "items" -> [a EXCEPT !.chan.present = @ \union x.nicks]
    [] x.what = "error" -> a

Handle(a, x) ==
  CASE x.what = "msg"  -> Spoken(a, x)
    [] x.what = "pong" -> Pong(a, x)
    [] OTHER           -> IF a.chan.open THEN Presented(a, x) ELSE a

Receive ==
  /\ acct.up /\ s2c # <<>>
  /\ LET x == Head(s2c)
         asked == acct.chan.joining /\ x.what \in {"here", "gone"} /\ x.self
     IN  /\ acct' = Handle(acct, x)
         /\ seen' = [seen EXCEPT !.refused = @ \/ x.what = "error", !.gap = @ /\ ~asked]
  /\ s2c' = Tail(s2c)
  /\ UNCHANGED <<room, events>>

-----------------------------------------------------------------------------
\* The user, the bookmarks and the timer

Event == events < MaxEvents /\ events' = events + 1
Do(a) == acct' = a /\ UNCHANGED <<s2c, room>>

\* /enter, with a nick or without
UserEnters ==
  /\ acct.up
  /\ \E nick \in Nicks : Do(Enter(acct, nick))
  /\ seen' = [seen EXCEPT !.left = FALSE] /\ Event

\* buffer__close_cb: without a stream nobody is told
Close(a) ==
  [IF a.up THEN Send(a, [what |-> "leave"]) ELSE a EXCEPT !.chan = NoChannel]
UserCloses ==
  /\ acct.chan.open /\ Do(Close(acct))
  /\ seen' = [seen EXCEPT !.left = TRUE, !.gap = FALSE] /\ Event

\* /nick
UserRenames ==
  /\ acct.up /\ acct.chan.open
  /\ \E nick \in Nicks : Do(Send(acct, [what |-> "nick", nick |-> nick]))
  /\ UNCHANGED seen /\ Event

\* /selfping
UserPings ==
  /\ acct.up /\ acct.chan.open /\ FreeIds(acct) # {}
  /\ Do(SelfPing(acct)) /\ UNCHANGED seen /\ Event

\* A bookmark is pushed, by another client or by our own change.
Bookmarked ==
  /\ acct.up /\ ~(acct.chan.open /\ acct.chan.joining) /\ Event
  /\ \/ ~acct.chan.open /\ Do(Enter(acct, JoinNick(acct)))
        /\ seen' = [seen EXCEPT !.left = FALSE]
     \/ acct.chan.open /\ Do(Close(acct)) /\ seen' = [seen EXCEPT !.left = TRUE, !.gap = FALSE]

\* 30 seconds, or the 15 minutes between two self-pings
TimePasses ==
  /\ \E long \in BOOLEAN :
       Do([acct EXCEPT !.pings = {[q EXCEPT !.old = TRUE] : q \in @},
                       !.chan.due = @ \/ (long /\ acct.chan.open)])
  /\ UNCHANGED <<seen, events>>

\* idle_timer_cb: a ping that was not answered counts as refused.  The nick is the buffer's,
\* which keeps it.
Sweep(a) ==
  LET stale == {q \in a.pings : q.old}
      nick == IF a.chan.open THEN a.chan.self_nick ELSE a.nickname
      joins == [k \in 1..Cardinality(stale) |-> [what |-> "join", nick |-> nick]]
  IN  [a EXCEPT !.pings = @ \ stale, !.out = @ \o joins]
Pingable(a) == a.chan.open /\ ~a.chan.joining /\ a.chan.due
IdleTimer ==
  LET a == Sweep(acct)
  IN  /\ acct.up /\ (Pingable(a) => FreeIds(a) # {})
      /\ Do(IF Pingable(a) THEN SelfPing(a) ELSE a)
      /\ UNCHANGED <<seen, events>>

-----------------------------------------------------------------------------
\* The stream

\* run_post_connect_setup: a fresh session is in no room.  (A stream without stream
\* management is one whose session expires when it is lost.)
Fresh ==
  /\ ~acct.up
  /\ acct' = Rejoin([acct EXCEPT !.up = TRUE, !.sm = TRUE, !.out = <<>>])
  /\ s2c' = <<>>
  /\ room' = [room EXCEPT ![Self] = NoNick]
  /\ seen' = [seen EXCEPT !.gap = acct.chan.open]
  /\ UNCHANGED events

Resume ==
  /\ ~acct.up /\ acct.sm
  /\ acct' = [acct EXCEPT !.up = TRUE]
  /\ UNCHANGED <<s2c, room, seen, events>>

\* disconnect_impl leaves channels and pings as they are
LinkLost ==
  /\ acct.up
  /\ acct' = [acct EXCEPT !.up = FALSE]
  /\ UNCHANGED <<s2c, room, seen>> /\ Event

-----------------------------------------------------------------------------
\* The server and the room (external)

\* full is history: the last of a full list
Presence(who, full) ==
  IF room'[who] = NoNick THEN <<>>
  ELSE <<[what |-> "here", nick |-> room'[who], self |-> who = Self, full |-> full]>>
Here(who) == Presence(who, FALSE)
Gone(who, to) ==
  <<[what |-> "gone", nick |-> room[who], self |-> who = Self, to |-> to]>>
Subject == <<[what |-> "msg", live |-> FALSE]>>
Flood == Presence(Other, FALSE) \o Presence(Self, TRUE) \o Subject
Refusal == <<[what |-> "error"]>>
Answer(xs) == s2c' = s2c \o xs

ServeJoin(nick) ==
  IF nick = room[Other] THEN room' = room /\ Answer(Refusal)
  ELSE /\ room' = [room EXCEPT ![Self] = nick]
       /\ Answer(IF room[Self] \in {NoNick, nick} THEN Flood ELSE Gone(Self, nick) \o Here(Self))

\* the room gives another nick than the one asked for
ServeAssign(nick) ==
  /\ room[Self] = NoNick /\ room' = [room EXCEPT ![Self] = nick]
  /\ Answer(Flood)

ServePing(x) ==
  /\ UNCHANGED room
  /\ Answer(<<[what |-> "pong", id |-> x.id,
               answer |-> IF room[Self] = NoNick THEN "out" ELSE "in"]>>)

ServeLeave ==
  /\ room' = [room EXCEPT ![Self] = NoNick]
  /\ Answer(IF room[Self] = NoNick THEN <<>> ELSE Gone(Self, NoNick))

Request == acct.up /\ acct.out # <<>> /\ acct' = [acct EXCEPT !.out = Tail(@)] /\ UNCHANGED seen
Serve ==
  /\ Request /\ UNCHANGED events
  /\ LET x == Head(acct.out)
     IN  CASE x.what = "join"  -> ServeJoin(x.nick)
           [] x.what = "nick"  -> IF room[Self] = NoNick THEN UNCHANGED room /\ Answer(Refusal)
                                  ELSE ServeJoin(x.nick)
           [] x.what = "ping"  -> ServePing(x)
           [] x.what = "leave" -> ServeLeave
           [] x.what = "items" ->
                UNCHANGED room
                /\ Answer(<<[what |-> "items", nicks |-> {room[Self], room[Other]} \ {NoNick}]>>)

\* A ping that is not answered, or by a network error; a join that is refused, or under a
\* nick that was not asked for
Trouble ==
  /\ Request /\ Event
  /\ LET x == Head(acct.out)
     IN  \/ /\ x.what = "ping" /\ UNCHANGED room
            /\ \/ Answer(<<>>)
               \/ Answer(<<[what |-> "pong", id |-> x.id, answer |-> "ambiguous"]>>)
         \/ x.what = "join" /\ UNCHANGED room /\ Answer(Refusal)
         \/ /\ x.what = "join"
            /\ \E nick \in Nicks \ {x.nick, room[Other]} : ServeAssign(nick)

Told(xs) == Answer(IF room[Self] = NoNick THEN <<>> ELSE xs)

\* the other enters, leaves or takes another nick
OtherMoves ==
  \E nick \in (Nicks \union {NoNick}) \ {room[Other]} :
    /\ nick # NoNick => nick # room[Self]
    /\ room' = [room EXCEPT ![Other] = nick]
    /\ Told((IF room[Other] = NoNick THEN <<>> ELSE Gone(Other, nick)) \o Here(Other))
    /\ Event /\ UNCHANGED <<acct, seen>>

Speaks ==
  /\ room[Self] # NoNick /\ Answer(<<[what |-> "msg", live |-> TRUE]>>)
  /\ Event /\ UNCHANGED <<acct, room, seen>>

\* kicked, or dropped without a word
Removed ==
  /\ room[Self] # NoNick /\ room' = [room EXCEPT ![Self] = NoNick]
  /\ \E told \in BOOLEAN : Answer(IF told THEN Gone(Self, NoNick) ELSE <<>>)
  /\ Event /\ UNCHANGED <<acct, seen>>

SessionExpires ==
  /\ ~acct.up /\ acct.sm /\ acct' = [acct EXCEPT !.sm = FALSE, !.out = <<>>]
  /\ s2c' = <<>> /\ room' = [room EXCEPT ![Self] = NoNick]
  /\ UNCHANGED <<seen, events>>

Init ==
  /\ acct = [up |-> FALSE, sm |-> FALSE, out |-> <<>>, chan |-> NoChannel,
             nickname |-> AccountNick, pings |-> {}]
  /\ s2c = <<>>
  /\ room = [who \in {Self, Other} |-> NoNick]
  /\ seen = [refused |-> FALSE, left |-> FALSE, gap |-> FALSE]
  /\ events = 0

Next == \/ Receive \/ UserEnters \/ UserCloses \/ UserRenames \/ UserPings \/ Bookmarked
        \/ TimePasses \/ IdleTimer \/ Fresh \/ Resume \/ LinkLost
        \/ Serve \/ Trouble \/ OtherMoves \/ Speaks \/ Removed \/ SessionExpires

Spec == Init /\ [][Next]_vars

\* While there is a stream the timer runs, and the server and libstrophe go on.
LiveSpec == Spec /\ WF_vars(Receive \/ Serve) /\ WF_vars(TimePasses \/ IdleTimer)

-----------------------------------------------------------------------------
\* Type invariant.
TypeOK ==
  /\ acct.nickname \in Nicks /\ {q.id : q \in acct.pings} \subseteq 1..MaxPings
  /\ acct.chan.present \subseteq Nicks
  /\ acct.chan.self_nick \in IF acct.chan.open THEN Nicks ELSE {NoNick}
  /\ acct.chan.joining => acct.chan.open
  /\ room \in [{Self, Other} -> Nicks \union {NoNick}]
  /\ events \in 0..MaxEvents

\* Nothing is on its way, and the account is in the room, with a buffer that was told who is there.
Settled == acct.up /\ acct.out = <<>> /\ s2c = <<>>
Joined == Settled /\ room[Self] # NoNick /\ acct.chan.open /\ acct.chan.joined

\* The nick by which messages are taken for ours and self-pings are addressed is the one the
\* room knows us by, whatever crossed: joins, renames, nicks assigned, rejoins after a loss.
\* A join that is refused has set the nick already.
OwnNickAgrees == Joined /\ ~seen.refused => acct.chan.self_nick = room[Self]

\* And everybody in the room is shown: OMEMO refuses a room by the occupants it knows.
OccupantsAreShown == Joined => \A who \in {Self, Other} :
                       room[who] \in acct.chan.present \union {NoNick}

\* After a new stream the archive has been asked for what was said meanwhile, once the room
\* is joined: nothing else fetches the history of a room.
GapIsFetched == Joined => ~seen.gap

\* Who has joined knows the room.
RoomIsKnown == OwnNickAgrees /\ OccupantsAreShown /\ GapIsFetched

\* callbacks.inl: "a silently dropped MUC membership is detected (and rejoined)": with a
\* buffer that believes to be in the room, unless the room refuses the nick.
DropIsNoticed ==
  acct.up /\ acct.chan.open /\ ~acct.chan.joining /\ room[Self] = NoNick
    ~> room[Self] # NoNick \/ ~acct.chan.open \/ ~acct.up \/ seen.refused

-----------------------------------------------------------------------------
\* Statements of comments and documents that do not hold.

\* buffer.cpp: "Send unavailable presence to leave MUC": who has closed the room's buffer is
\* not in the room.
LeftStaysLeft == Settled /\ seen.left => room[Self] = NoNick

\* presence_handler.inl: the ghost nick does not linger beyond "the next full presence flood".
NoGhosts == Joined => acct.chan.present \subseteq {room[Self], room[Other]}

=============================================================================
