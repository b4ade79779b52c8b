------------------------------ MODULE Uploads ------------------------------
(***************************************************************************)
(* HTTP upload (XEP-0363) of files shared in a chat and of the files       *)
(* embedded in a feed post: slots, one worker thread per transfer that     *)
(* tells the main thread by a byte in a pipe, the hook on that pipe, the   *)
(* timer that takes over from it, and the disconnection that waits for     *)
(* the workers.  The main thread blocks in join and read; its workers do   *)
(* not.  Descriptors are numbers the system hands out lowest first.        *)
(***************************************************************************)
EXTENDS Naturals, Sequences, FiniteSetsExt, SequencesExt

CONSTANTS
  Embeds,    \* files of a feed post
  MaxJobs,   \* bound: commands of the user
  MaxEvents  \* bound: losses, refusals and failures, in all
\* (MCPosts assumes of them what PostConstants says.)

VARIABLES
  acct,    \* up, upload_requests, pending_feed_posts, pending_uploads
  main,    \* where the main thread is: its loop, or blocked on an upload
  asked,   \* slots the upload service has been asked for
  s2c,     \* its answers
  told,    \* what the user has been told of each job
  seen,    \* history: keys of posts that were given up silently, an early failure, a
           \* byte in another's descriptor
  jobs, events   \* bounded counters

vars == <<acct, main, asked, s2c, told, seen, jobs, events>>

\* The id of a slot request, and the file it is for: stanza::uuid gives each a new one.
Ids == (1..MaxJobs) \X (1..Embeds)
Job(id) == id[1]

-----------------------------------------------------------------------------
\* Operators named ...Mutant are slips the properties must notice; no action uses them.

\* The descriptors in use.  fd keys the upload; open: its write end is.
Used(c) == {c.fd, c.sock} \union IF c.open THEN {c.write_fd} ELSE {}
InUse == (UNION {Used(c) : c \in acct.pending}) \ {0}
Free == (1..(3 * MaxJobs)) \ InUse
Change(c, d) == acct' = [acct EXCEPT !.pending = (@ \ {c}) \union {d}]

Tell(id, what, urls) == told' = [told EXCEPT ![Job(id)] = Append(@, [what |-> what, urls |-> urls])]

-----------------------------------------------------------------------------
\* The user, at the main loop

Loop == main.at = "loop"
Event == events < MaxEvents /\ events' = events + 1

\* command__upload, command__feed post: the first file of the job
Ask(id, posts) ==
  /\ acct' = [acct EXCEPT !.requests = @ \union {id}, !.posts = posts]
  /\ asked' = asked \union {id}

Command ==
  /\ Loop /\ acct.up /\ jobs < MaxJobs
  /\ jobs' = jobs + 1
  /\ LET id == <<jobs + 1, 1>>
     IN  \/ Ask(id, acct.posts)
         \/ Ask(id, acct.posts \union {[key |-> id, uploads_done |-> 0, urls |-> <<>>]})
  /\ UNCHANGED <<main, s2c, told, seen, events>>

-----------------------------------------------------------------------------
\* handle_upload_slot_iq_event, handle_upload_slot_iq_error

Key(id) == id \in {p.key : p \in acct.posts}
Forget(id) == acct' = [acct EXCEPT !.requests = @ \ {id}]
GiveUp(id) == seen' = IF Key(id) THEN [seen EXCEPT !.dropped = @ \union {id}] ELSE seen

Granted(id) ==
  LET read == Min(Free)
      write == Min(Free \ {read})
  IN  acct' = [acct EXCEPT !.requests = @ \ {id},
        !.pending = @ \union
          {[id |-> id, post |-> Key(id), fd |-> read, write_fd |-> write, open |-> TRUE,
            bytes |-> 0, worker_done |-> FALSE, joined |-> FALSE, worker |-> "start",
            signals |-> 0, sock |-> 0, success |-> FALSE]}]

Answered ==
  /\ Loop /\ acct.up /\ s2c # <<>>
  /\ LET x == Head(s2c)
     IN  /\ x.id \in acct.requests
         /\ \/ /\ x.what = "slot" /\ Granted(x.id)
               /\ UNCHANGED <<seen, events>>
            \/ \* the file cannot be read, no pipe, no URL
               /\ x.what = "slot" /\ Event
               /\ Forget(x.id) /\ GiveUp(x.id)
            \/ /\ x.what = "error" /\ Forget(x.id) /\ GiveUp(x.id)
               /\ UNCHANGED events
            \/ x.what = "malformed" /\ UNCHANGED <<acct, seen, events>>
  /\ s2c' = Tail(s2c)
  /\ UNCHANGED <<main, asked, told, jobs>>

-----------------------------------------------------------------------------
\* A worker

\* before the transfer: the file, the encryption or curl fails; worker_done stays FALSE
EarlyFailure(c) ==
  /\ c.worker = "start" /\ Event
  /\ Change(c, [c EXCEPT !.worker = "load"])
  /\ seen' = [seen EXCEPT !.early = TRUE]

Connect(c) ==
  /\ c.worker = "start"
  /\ Change(c, [c EXCEPT !.worker = "put", !.sock = Min(Free)])
  /\ UNCHANGED <<seen, events>>

\* curl_easy_perform has ended
PutEnds(c) ==
  /\ c.worker = "put"
  /\ \E ok \in BOOLEAN :
       Change(c, [c EXCEPT !.worker = "load", !.sock = 0, !.success = ok, !.worker_done = TRUE])
  /\ UNCHANGED <<seen, events>>

\* signal_worker_pipe(c.pipe_write_fd), which the main thread may be overwriting
Load(c) ==
  /\ c.worker = "load"
  /\ \E n \in {c.write_fd} \union (IF c.open THEN {} ELSE {0}) :
       Change(c, [c EXCEPT !.worker = "write", !.signals = n])
  /\ UNCHANGED <<seen, events>>
Byte(c) == IF c.open THEN 1 ELSE 0
Write(c) ==
  /\ c.worker = "write"
  /\ Change(c, [c EXCEPT !.worker = "exited", !.bytes = @ + Byte(c)])
  /\ seen' = [seen EXCEPT !.stray = @ \/ (~c.open /\ c.signals \in InUse)]
  /\ UNCHANGED events

Worker(c) ==
  /\ main.at # "dead"
  /\ EarlyFailure(c) \/ Connect(c) \/ PutEnds(c) \/ Load(c) \/ Write(c)
  /\ UNCHANGED <<main, asked, s2c, told, jobs>>

-----------------------------------------------------------------------------
\* The end of an upload: account::upload_fd_cb

Finished(c) == acct.pending \ {c}
FileEnds(c) ==
  /\ acct' = [acct EXCEPT !.pending = Finished(c)]
  /\ Tell(c.id, IF c.success THEN "sent" ELSE "failed", <<c.id>>) /\ UNCHANGED asked

\* the embed that was under way gets the URL; the next one is asked for under a new key
Embed(p, c) == [p EXCEPT !.urls = Append(@, c.id), !.uploads_done = @ + 1]
NextKeyMutant(p) == p.key    \* the post stays under the key of the upload that has ended
NextKey(p) == <<Job(p.key), p.uploads_done + 1>>
EmbedEnds(c, p) ==
  LET post == Embed(p, c)
      next == <<Job(p.key), post.uploads_done + 1>>
      rest == [acct EXCEPT !.pending = Finished(c), !.posts = @ \ {p}]
  IN  IF c.success /\ post.uploads_done < Embeds
      THEN /\ acct' = [rest EXCEPT !.posts = @ \union {[post EXCEPT !.key = NextKey(post)]},
                                   !.requests = @ \union {next}]
           /\ asked' = asked \union {next} /\ UNCHANGED told
      ELSE /\ acct' = rest /\ UNCHANGED asked
           /\ Tell(c.id, IF c.success THEN "published" ELSE "draft", post.urls)

\* A post that is gone is stale.
PostOf(c) == CHOOSE p \in acct.posts : p.key = c.id
Ends(c) ==
  IF ~c.post THEN FileEnds(c)
  ELSE IF Key(c.id) THEN EmbedEnds(c, PostOf(c))
  ELSE acct' = [acct EXCEPT !.pending = Finished(c)] /\ UNCHANGED <<told, asked>>

\* The hook: there is a byte.  A worker that has not set worker_done is not joined, and the
\* destructor of its thread ends the program.
HookJoinsMutant(c) == FALSE    \* leaves the join to the timer
HookJoins(c) == c.worker_done
FdHook(c) ==
  /\ Loop /\ c.bytes > 0
  /\ IF HookJoins(c) THEN Ends(c) /\ UNCHANGED main
     ELSE main' = [at |-> "dead"] /\ UNCHANGED <<acct, told, asked>>
  /\ UNCHANGED <<s2c, seen, jobs, events>>

\* account::timer_cb takes worker_done, reads the byte and joins; the call of upload_fd_cb
\* that follows passes no account and returns at once.
TimerTakes(c) ==
  /\ Loop /\ c.worker_done
  /\ Change(c, [c EXCEPT !.worker_done = FALSE])
  /\ main' = [at |-> "timer", fd |-> c.fd]
  /\ UNCHANGED <<asked, s2c, told, seen, jobs, events>>
TimerJoins(c) ==
  /\ main = [at |-> "timer", fd |-> c.fd] /\ c.bytes > 0 /\ c.worker = "exited"
  /\ Change(c, [c EXCEPT !.bytes = @ - 1, !.joined = TRUE])
  /\ main' = [at |-> "loop"]
  /\ UNCHANGED <<asked, s2c, told, seen, jobs, events>>

-----------------------------------------------------------------------------
\* disconnect_impl: one upload after the other, the write end first

Disconnect ==
  /\ Loop /\ acct.up /\ Event
  /\ main' = [at |-> "cleanup"]
  /\ UNCHANGED <<acct, asked, s2c, told, seen, jobs>>

CloseWriteMutant(c) == c    \* leaves the write end to the worker
CloseWrite(c) == [c EXCEPT !.open = FALSE]
CleanupCloses(c) ==
  /\ main = [at |-> "cleanup"]
  /\ Change(c, CloseWrite(c))
  /\ main' = [at |-> "join", fd |-> c.fd]
  /\ UNCHANGED <<asked, s2c, told, seen, jobs, events>>

\* join, then read: a byte, or the end once nobody can write
CleanupJoins(c) ==
  /\ main = [at |-> "join", fd |-> c.fd] /\ c.worker = "exited" /\ (c.bytes > 0 \/ ~c.open)
  /\ acct' = [acct EXCEPT !.pending = @ \ {c}]
  /\ main' = [at |-> "cleanup"]
  /\ GiveUp(c.id)
  /\ UNCHANGED <<asked, s2c, told, jobs, events>>

Cleaned ==
  /\ main = [at |-> "cleanup"] /\ acct.pending = {}
  /\ main' = [at |-> "loop"] /\ acct' = [acct EXCEPT !.up = FALSE]
  /\ UNCHANGED <<asked, s2c, told, seen, jobs, events>>

\* The stream is resumed, or replaced: what was asked in the old one is not answered.
Connected ==
  /\ Loop /\ ~acct.up
  /\ acct' = [acct EXCEPT !.up = TRUE]
  /\ \/ UNCHANGED <<asked, s2c>>
     \/ asked' = {} /\ s2c' = <<>>
  /\ UNCHANGED <<main, told, seen, jobs, events>>

\* The upload service (external): in any order
Answer(id, what) ==
  /\ asked' = asked \ {id} /\ s2c' = Append(s2c, [id |-> id, what |-> what])
  /\ UNCHANGED <<acct, main, told, seen, jobs>>
Serve ==
  \E id \in asked :
    \/ Answer(id, "slot") /\ UNCHANGED events
    \/ \E what \in {"error", "malformed"} : Answer(id, what) /\ Event

Init ==
  /\ acct = [up |-> FALSE, requests |-> {}, posts |-> {}, pending |-> {}]
  /\ main = [at |-> "loop"]
  /\ asked = {} /\ s2c = <<>>
  /\ told = [j \in 1..MaxJobs |-> <<>>]
  /\ seen = [dropped |-> {}, early |-> FALSE, stray |-> FALSE]
  /\ jobs = 0 /\ events = 0

Cleanup == Cleaned \/ \E c \in acct.pending : CleanupCloses(c) \/ CleanupJoins(c)
Workers == \E c \in acct.pending : Worker(c)
Hooks == \E c \in acct.pending : FdHook(c)
Timer == \E c \in acct.pending : TimerTakes(c) \/ TimerJoins(c)

Next == Command \/ Answered \/ Workers \/ Hooks \/ Timer \/ Disconnect \/ Cleanup
        \/ Connected \/ Serve

\* Threads run, transfers end, and the main thread goes on when it can.
Fairness == WF_vars(Workers) /\ WF_vars(Hooks) /\ WF_vars(Timer) /\ WF_vars(Cleanup)

Spec == Init /\ [][Next]_vars /\ Fairness

-----------------------------------------------------------------------------
\* Type invariant.
TypeOK ==
  /\ acct.requests \subseteq Ids /\ asked \subseteq Ids
  /\ \A p \in acct.posts : p.key \in Ids /\ p.uploads_done = Len(p.urls)
  /\ \A c \in acct.pending : c.bytes \in {0, 1} /\ c.fd < c.write_fd
  /\ \A c, d \in acct.pending : c # d => c.id # d.id /\ Used(c) \intersect Used(d) \subseteq {0}
  /\ acct.pending # {} => acct.up
  /\ jobs \in 0..MaxJobs /\ events \in 0..MaxEvents

\* account.cpp: "we must join every pending thread here": whichever of the hook, the timer
\* and the disconnection comes first, a worker that made its request is joined before its
\* thread object goes.
WorkersAreJoined == main.at = "dead" => seen.early

\* Hook and timer race for the same worker: a job has one outcome.
ToldOnce == \A j \in 1..MaxJobs : Len(told[j]) <= 1

\* Whoever takes a worker takes it alone, and to its end.
JobsEndOnce == WorkersAreJoined /\ ToldOnce

\* A post is published with the URL of each of its files, in order, though other uploads end
\* in between.
PostsAreComplete == \A j \in 1..jobs : \A x \in Range(told[j]) :
  x.what = "published" => x.urls = [k \in 1..Embeds |-> <<j, k>>]

\* "Files are uploaded one at a time": a post waits for one upload of its own, unless it
\* was refused or cut off.
Underway == acct.requests \union {c.id : c \in acct.pending}
PostsAreUnderway == \A p \in acct.posts :
  LET own == {id \in Underway : Job(id) = Job(p.key)}
  IN  own = {p.key} \/ (own = {} /\ p.key \in seen.dropped)

PostsAreWhole == PostsAreComplete /\ PostsAreUnderway

\* The main thread comes back from every join and read.
MainReturns == main.at \in {"timer", "join", "cleanup"} ~> main.at = "loop"

-----------------------------------------------------------------------------
\* Statements of comments and documents that do not hold.

\* account.cpp: "Drain completed uploads that finished while the main thread was blocked":
\* what the timer has drained is processed.
DrainedIsProcessed == Loop => \A c \in acct.pending : ~c.joined

\* account.cpp: a thread is joined before its object goes, or std::terminate is called.
NeverTerminates == main.at # "dead"

\* README: "On any upload failure the post is aborted and a draft is saved".
DraftIsSaved == \A p \in acct.posts : p.key \in Underway

\* account.hh: the write end is "closed by thread after writing": the byte is in our pipe.
NoStrayByte == ~seen.stray

\* account.cpp: a worker ends soon after its write end is closed.  (Not without the transfer
\* ending by itself: with WF_vars(Workers) left out the main thread stays in join.)

=============================================================================
