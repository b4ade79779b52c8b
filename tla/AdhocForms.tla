----------------------------- MODULE AdhocForms -----------------------------
(***************************************************************************)
(* Ad-hoc commands (XEP-0050) of one responder: the list of them in a      *)
(* picker, a command carried out in stages from the command line and from  *)
(* the form of each stage, in any order.                                   *)
(***************************************************************************)
EXTENDS Integers, FiniteSets, Bags, FormEditor

CONSTANTS
  Sessions,    \* session ids the responder gives
  Stages,      \* bound: stages of a command
  MaxPending   \* bound: requests in flight when the user adds one

VARIABLES
  up,         \* account::connected
  sessions,   \* adhoc_sessions: the stage the responder last told, of each session
  editors,    \* forms of sessions
  pending,    \* bag of adhoc_queries
  picker,     \* "none", "empty", "filled"
  responder   \* sessions it knows, and their stages; those it has ended

vars == <<up, sessions, editors, pending, picker, responder>>

NoSession == "none"

List(ref)       == [kind |-> "list", session |-> NoSession, action |-> "list", picker |-> ref]
Command(s, act) == [kind |-> "command", session |-> s, action |-> act, picker |-> FALSE]

Pending    == BagToSet(pending)
Room       == BagCardinality(pending) < MaxPending
Send(r)    == pending' = pending (+) SetToBag({r})
Forget(r)  == pending' = (pending (-) SetToBag({r}))

\* parse_adhoc_session
Actions(stage) ==
  {"cancel"} \union (IF stage > 1 THEN {"prev"} ELSE {})
             \union (IF stage < Stages THEN {"next"} ELSE {"complete"})

-----------------------------------------------------------------------------
\* The user.  Operators named ...Mutant are slips the properties must notice.

\* /adhoc <jid>: a second picker of the same name is not created
ListCommands ==
  /\ up /\ Room /\ picker = "none"
  /\ picker' = "empty"
  /\ Send(List(TRUE))
  /\ UNCHANGED <<up, sessions, editors, responder>>

\* on_close: no query refers to the picker any more
Unpicked(B) ==
  [r \in {IF r.kind = "list" THEN List(FALSE) ELSE r : r \in BagToSet(B)} |->
     IF r.kind = "list" THEN BagCardinality([q \in {q \in BagToSet(B) : q.kind = "list"} |-> B[q]]) ELSE B[r]]

\* picker::confirm: closes the picker, then runs the command
Pick ==
  /\ picker = "filled"
  /\ picker' = "none"
  /\ pending' = Unpicked(pending) (+) (IF up THEN SetToBag({Command(NoSession, "execute")}) ELSE EmptyBag)
  /\ UNCHANGED <<up, sessions, editors, responder>>

\* picker::cancel
Unpick ==
  /\ picker # "none" /\ picker' = "none"
  /\ pending' = Unpicked(pending)
  /\ UNCHANGED <<up, sessions, editors, responder>>

\* /adhoc <jid> <node> [<session> [--action]]: of a session that is known, what its stage allows
Execute(s, act) ==
  /\ up /\ Room
  /\ IF s = NoSession THEN act = "execute"
       ELSE s \in DOMAIN sessions => act \in Actions(sessions[s])
  /\ Send(Command(s, act))
  /\ editors' = Close(editors, {s})
  /\ sessions' = IF act = "cancel" THEN Without(sessions, {s}) ELSE sessions
  /\ UNCHANGED <<up, picker, responder>>

\* account::edit_adhoc_form: :submit, :cancel
Submit(s, act) ==
  /\ TakesInput(editors, s) /\ up /\ Room
  /\ s \in DOMAIN sessions /\ act \in Actions(sessions[s])
  /\ editors' = Submitted(editors, s)
  /\ Send(Command(s, act))
  /\ UNCHANGED <<up, sessions, picker, responder>>

CloseEditor(s) ==
  /\ IsOpen(editors, s)
  /\ editors' = Close(editors, {s})
  /\ UNCHANGED <<up, sessions, pending, picker, responder>>

-----------------------------------------------------------------------------
\* Answers

\* handle_disco_items_iq_event
Listed(r) ==
  /\ r.kind = "list"
  /\ Forget(r)
  /\ picker' = IF r.picker THEN "filled" ELSE picker
  /\ UNCHANGED <<up, sessions, editors, responder>>

Moves(stage, act) ==
  CASE act = "next" -> stage + 1 [] act = "prev" -> stage - 1 [] OTHER -> stage

\* status executing.  form: there is one; valid: the actions it offers make sense.
Executing(r, s, stage, form, valid) ==
  /\ responder' = With(responder, s, stage)
  /\ Forget(r)
  /\ IF ~valid
       THEN /\ sessions' = Without(sessions, {s})
            /\ editors' = Close(editors, {r.session})
       ELSE /\ sessions' = With(sessions, s, stage)
            /\ editors' = IF form THEN Open(editors, s, stage) ELSE Close(editors, {r.session})
  /\ UNCHANGED <<up, picker>>

\* status completed or canceled
Ended(r) ==
  /\ responder' = IF r.session = NoSession THEN responder ELSE With(responder, r.session, 0)
  /\ Forget(r)
  /\ sessions' = Without(sessions, {r.session})
  /\ editors' = Close(editors, {r.session})
  /\ UNCHANGED <<up, picker>>

Refused(r) ==
  /\ Forget(r)
  /\ editors' = Failed(editors, r.session)
  /\ UNCHANGED <<up, sessions, picker, responder>>

\* Only a session that has not ended goes on.
Answer(r) ==
  \/ Listed(r)
  \/ Refused(r)
  \/ /\ r.kind = "command" /\ r.session = NoSession
     /\ \/ Ended(r)
        \/ \E s \in Sessions \ DOMAIN responder, form, valid \in BOOLEAN : Executing(r, s, 1, form, valid)
  \/ /\ r.kind = "command" /\ r.session \in DOMAIN responder /\ responder[r.session] # 0
     /\ \/ r.action \in {"complete", "cancel"} /\ Ended(r)
        \/ /\ r.action \in {"next", "prev"} /\ Moves(responder[r.session], r.action) \in 1..Stages
           /\ \E form, valid \in BOOLEAN :
                Executing(r, r.session, Moves(responder[r.session], r.action), form, valid)

-----------------------------------------------------------------------------
\* account::reset: everything of the account's is closed and forgotten, but for the picker.
\* What the responder did with requests that were on their way is not known.

Lose ==
  /\ up /\ up' = FALSE
  /\ editors' = NoEditors /\ sessions' = <<>> /\ pending' = EmptyBag
  /\ \E ended \in SUBSET DOMAIN responder : 
       responder' = [s \in DOMAIN responder |-> IF s \in ended THEN 0 ELSE responder[s]]
  /\ UNCHANGED picker

Reconnect == ~up /\ up' = TRUE /\ UNCHANGED <<sessions, editors, pending, picker, responder>>

-----------------------------------------------------------------------------
Init ==
  /\ up = TRUE
  /\ sessions = <<>> /\ editors = NoEditors /\ pending = EmptyBag
  /\ picker = "none" /\ responder = <<>>

User ==
  \/ ListCommands \/ Pick \/ Unpick
  \/ Execute(NoSession, "execute")
  \/ \E s \in Sessions :
       \/ CloseEditor(s)
       \/ s \in DOMAIN responder
            /\ \E act \in {"next", "prev", "complete", "cancel"} : Execute(s, act) \/ Submit(s, act)

Answered == up /\ \E r \in Pending : Answer(r)

Next == User \/ Answered \/ Lose \/ Reconnect

Spec == Init /\ [][Next]_vars

-----------------------------------------------------------------------------
TypeOK ==
  /\ DOMAIN sessions \subseteq Sessions /\ DOMAIN editors \subseteq Sessions
  /\ picker \in {"none", "empty", "filled"}

\* A form that is open is that of the stage its session is in, as far as the client knows:
\* its actions are checked, and its hidden fields taken, from the stage.
FormIsOfStage ==
  \A s \in DOMAIN editors : s \in DOMAIN sessions /\ editors[s].form = sessions[s]

\* An editor that waits for the responder will hear from it: its request is tracked.
EditorsAreAnswered ==
  \A s \in DOMAIN editors : IsWaiting(editors, s) => \E r \in Pending : r.session = s

=============================================================================
