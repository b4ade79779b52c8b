---------------------------- MODULE Registration ----------------------------
(***************************************************************************)
(* In-band registration (XEP-0077) by /account register: an attempt with   *)
(* a connection, a timer and a deadline of its own, and a form if the      *)
(* server gives one.                                                       *)
(***************************************************************************)
EXTENDS Integers, FormEditor

CONSTANTS
  Passwords,
  MaxTries   \* bound: submissions

VARIABLES
  attempt,   \* registration_attempts[name], or none
  editors,   \* "registration", or none
  wire,      \* what the server was asked, or what it answered
  server,    \* the password the account has there, or none
  account,   \* the account of this name here: none, or whose it is and its password
  tries

vars == <<attempt, editors, wire, server, account, tries>>

None   == "none"
Nobody == <<>>
Id     == "registration"
Nothing                 == <<"nothing">>
Asked(what, pass)       == <<"asked", what, pass>>
Answered(what, outcome) == <<"answered", what, outcome>>

Attempted == attempt # Nobody
Alive     == Attempted /\ ~attempt.done
\* done_: set by handlers; the timer ends the attempt
Done      == attempt' = [attempt EXCEPT !.done = TRUE]

-----------------------------------------------------------------------------
\* ibr_register.  A connection is made, then asked for the fields.
Register(p) ==
  /\ ~Attempted /\ account = Nobody /\ tries < MaxTries
  /\ attempt' = [password |-> p, done |-> FALSE, editing |-> FALSE]
  /\ wire' = Asked("fields", None)
  /\ tries' = tries + 1
  /\ UNCHANGED <<editors, server, account>>

\* /account add of the same name
AddOther ==
  /\ account = Nobody
  /\ account' = [by |-> "user", password |-> None]
  /\ UNCHANGED <<attempt, editors, wire, server, tries>>

\* ibr_conn_handler: no connection, or lost
ConnectionFails ==
  /\ Alive /\ Done
  /\ wire' = Nothing
  /\ UNCHANGED <<editors, server, account, tries>>

\* The server
Serve ==
  /\ \/ /\ wire = Asked("fields", None)
        /\ \E outcome \in {"fields", "form", "error"} : wire' = Answered("fields", outcome)
        /\ UNCHANGED server
     \/ \E p \in Passwords :
          /\ wire = Asked("set", p)
          /\ \/ server = None /\ server' = p /\ wire' = Answered("set", "result")
             \/ UNCHANGED server /\ wire' = Answered("set", "error")
  /\ UNCHANGED <<attempt, editors, account, tries>>

\* ibr_get_result_handler: a form is opened and gives the user ten minutes; without one the
\* registration is sent at once; an error, a CAPTCHA and a redirection end the attempt
FieldsResult ==
  /\ \E outcome \in {"fields", "form", "error"} :
       /\ wire = Answered("fields", outcome)
       /\ IF ~Alive \/ outcome = "error"
            THEN /\ attempt' = IF Attempted THEN [attempt EXCEPT !.done = TRUE] ELSE attempt
                 /\ wire' = Nothing /\ UNCHANGED editors
            ELSE IF outcome = "form"
              THEN /\ attempt' = [attempt EXCEPT !.editing = TRUE]
                   /\ editors' = Open(editors, Id, None) /\ wire' = Nothing
              ELSE wire' = Asked("set", attempt.password) /\ UNCHANGED <<attempt, editors>>
  /\ UNCHANGED <<server, account, tries>>

\* ibr_set_result_handler, command__add_account
SetResult ==
  /\ \E outcome \in {"result", "error"} :
       /\ wire = Answered("set", outcome)
       /\ IF ~Alive
            THEN UNCHANGED <<attempt, editors, account>>
            ELSE IF outcome = "result"
              THEN /\ account' = IF account = Nobody
                                   THEN [by |-> "registration", password |-> attempt.password] ELSE account
                   /\ Done /\ UNCHANGED editors
              ELSE /\ UNCHANGED account
                   /\ IF attempt.editing
                        THEN editors' = Failed(editors, Id) /\ UNCHANGED attempt
                        ELSE Done /\ UNCHANGED editors
  /\ wire' = Nothing
  /\ UNCHANGED <<server, tries>>

-----------------------------------------------------------------------------
\* The form.  Operators named ...Mutant are slips the properties must notice.

SubmitMutant(p, sent) ==   \* the password of the command line is kept
  /\ TakesInput(editors, Id) /\ Alive /\ tries < MaxTries
  /\ tries' = tries + 1
  /\ IF sent
       THEN editors' = Submitted(editors, Id) /\ wire' = Asked("set", p)
       ELSE UNCHANGED <<editors, wire>>
  /\ UNCHANGED <<attempt, server, account>>

\* ~sent: the fields after the password are refused
Submit(p, sent) ==
  /\ TakesInput(editors, Id) /\ Alive /\ tries < MaxTries
  /\ tries' = tries + 1
  /\ attempt' = [attempt EXCEPT !.password = p]
  /\ IF sent
       THEN editors' = Submitted(editors, Id) /\ wire' = Asked("set", p)
       ELSE UNCHANGED <<editors, wire>>
  /\ UNCHANGED <<server, account>>

\* :cancel
Cancel ==
  /\ TakesInput(editors, Id) /\ Alive
  /\ editors' = Submitted(editors, Id) /\ Done
  /\ UNCHANGED <<wire, server, account, tries>>

\* the closed callback, when the user closes the buffer
CloseEditor ==
  /\ IsOpen(editors, Id)
  /\ editors' = Close(editors, {Id})
  /\ attempt' = IF Attempted THEN [attempt EXCEPT !.done = TRUE] ELSE attempt
  /\ UNCHANGED <<wire, server, account, tries>>

-----------------------------------------------------------------------------
\* ibr_timer_cb

Deadline ==
  /\ Alive /\ Done
  /\ UNCHANGED <<editors, wire, server, account, tries>>

End ==
  /\ Attempted /\ attempt.done
  /\ attempt' = Nobody
  /\ editors' = Close(editors, {Id})
  /\ wire' = Nothing
  /\ UNCHANGED <<server, account, tries>>

\* command__shutdown_registration, when the plugin is unloaded
Shutdown ==
  /\ Attempted
  /\ attempt' = Nobody /\ editors' = NoEditors /\ wire' = Nothing
  /\ UNCHANGED <<server, account, tries>>

-----------------------------------------------------------------------------
Init ==
  /\ attempt = Nobody /\ editors = NoEditors /\ wire = Nothing
  /\ server \in {None} \union Passwords
  /\ account = Nobody /\ tries = 0

Next ==
  \/ \E p \in Passwords : Register(p) \/ \E sent \in BOOLEAN : Submit(p, sent)
  \/ AddOther \/ ConnectionFails \/ Serve \/ FieldsResult \/ SetResult
  \/ Cancel \/ CloseEditor \/ Deadline \/ End \/ Shutdown

Spec == Init /\ [][Next]_vars

-----------------------------------------------------------------------------
TypeOK == DOMAIN editors \subseteq {Id} /\ server \in {None} \union Passwords

\* An account that was added by a registration has the password it was registered with,
\* however often the form was refused and filled in again; and its form has an attempt.
AccountIsRegistered ==
  /\ account # Nobody /\ account.by = "registration" => account.password = server
  /\ IsOpen(editors, Id) => Attempted

\* An editor that waits is released by the answer that is due, or closed by the timer.
EditorsAreAnswered ==
  IsWaiting(editors, Id) => \/ attempt.done
                            \/ \E p \in Passwords : wire = Asked("set", p)
                            \/ \E o \in {"result", "error"} : wire = Answered("set", o)

-----------------------------------------------------------------------------
\* A statement that does not hold: what the server has registered is added here.  The
\* answer comes after the deadline, or after :cancel.
RegisteredIsAdded ==
  [][Attempted /\ attempt' = Nobody => wire # Answered("set", "result")]_vars

=============================================================================
