------------------------------ MODULE MCForms ------------------------------
(***************************************************************************)
(* The three uses of the form editor for model checking.  They touch       *)
(* nothing of each other's, so it is enough that one of them moves.        *)
(***************************************************************************)
EXTENDS Integers

CONSTANTS Modes, Sessions, Stages, Passwords, MaxPending, MaxTries

\* "none" stands for no session and no password
ASSUME FormConstants ==
  {Stages, MaxPending, MaxTries} \subseteq Nat \ {0} /\ "none" \notin Sessions \union Passwords

VARIABLES
  use,
  up, channel, pending, room,
  linked, sessions, asked, picker, responder,
  attempt, regWire, regServer, account, tries,
  roomEditors, commandEditors, attemptEditors

R == INSTANCE RoomForms WITH editors <- roomEditors
A == INSTANCE AdhocForms WITH editors <- commandEditors, up <- linked, pending <- asked
I == INSTANCE Registration WITH editors <- attemptEditors, wire <- regWire, server <- regServer

roomVars    == <<up, channel, roomEditors, pending, room>>
commandVars == <<linked, sessions, commandEditors, asked, picker, responder>>
attemptVars == <<attempt, attemptEditors, regWire, regServer, account, tries>>
formVars    == <<use, roomVars, commandVars, attemptVars>>

FormsInit == use \in {"room", "command", "registration"} /\ R!Init /\ A!Init /\ I!Init

FormsNext ==
  /\ UNCHANGED use
  /\ \/ use = "room" /\ R!Next /\ UNCHANGED <<commandVars, attemptVars>>
     \/ use = "command" /\ A!Next /\ UNCHANGED <<roomVars, attemptVars>>
     \/ use = "registration" /\ I!Next /\ UNCHANGED <<roomVars, commandVars>>

FormsSpec == FormsInit /\ [][FormsNext]_formVars

\* No editor waits for an answer that is lost or meant for another (of the three uses).
EditorsAreAnswered == R!EditorsAreAnswered /\ A!EditorsAreAnswered /\ I!EditorsAreAnswered

\* A form shown is the one its request, its session or its attempt is about.
FormIsCurrent == R!OneConfigForm /\ A!FormIsOfStage

\* What was registered is what is added.
AccountIsRegistered == I!AccountIsRegistered

=============================================================================
