--------------------------- MODULE MCConversation ---------------------------
(***************************************************************************)
(* A conversation for model checking: what is said in a room, what the     *)
(* user sends, and chat states.  They touch nothing of each other's, so it *)
(* is enough that one of them moves; the others stay in one of their       *)
(* initial states.                                                         *)
(***************************************************************************)
EXTENDS RoomMessages

CONSTANTS Kinds, Peers, MaxTexts

ASSUME ConversationConstants ==
  /\ Kinds \subseteq {"PM", "MUC"} /\ Kinds # {}
  /\ IsFiniteSet(Peers) /\ MaxTexts \in Nat \ {0}

VARIABLES
  use,
  kind, able, keys, linked, texts, chat, wire, gone,
  stateKind, up, shut, viewed, self_known, supported, last_sent, told, state, typing

O == INSTANCE Outgoing
S == INSTANCE ChatStates WITH kind <- stateKind, linked <- up, said <- state

sendVars  == <<kind, able, keys, linked, texts, chat, wire, gone>>
stateVars == <<stateKind, up, shut, viewed, self_known, supported, last_sent, told, state, typing>>
talkVars  == <<use, vars, sendVars, stateVars>>

One(K) == CHOOSE k \in K : TRUE

TalkInit ==
  /\ use \in {"room", "sending", "states"}
  /\ Init /\ O!Init /\ S!Init
  /\ use # "sending" => kind = One(Kinds) /\ ~ able /\ keys = "none"
  /\ use # "states" => stateKind = One(Kinds)

TalkNext ==
  /\ UNCHANGED use
  /\ \/ use = "room" /\ Next /\ UNCHANGED <<sendVars, stateVars>>
     \/ use = "sending" /\ O!Next /\ UNCHANGED <<vars, stateVars>>
     \/ use = "states" /\ S!Next /\ UNCHANGED <<vars, sendVars>>

TalkSpec == TalkInit /\ [][TalkNext]_talkVars

\* What is entered is sent, queued, probed, uploaded or refused: in one place.
TextIsOnce == O!TextIsOnce

\* A text entered under OMEMO is not sent unencrypted, nor told of by a preview, for a failure.
NeverDowngraded == O!NeverDowngraded /\ O!PreviewIsOfPlain

\* A chat state held back is the one its address was told last; who is shown typing said so.
StatesAreTrue == S!ToldIsRemembered /\ S!TypingIsSaid

=============================================================================
