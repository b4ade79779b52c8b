------------------------------- MODULE MCOmemo -------------------------------
(***************************************************************************)
(* OMEMO for model checking: sessions with a contact's devices, and the    *)
(* prekeys of this one.  They touch nothing of each other's, so it is      *)
(* enough that one of them moves.                                          *)
(***************************************************************************)
EXTENDS OmemoSessions

CONSTANTS Peers, Count, MinCount, MaxId, MaxCrashes, MaxConnects

ASSUME KeyConstants ==
  /\ IsFiniteSet(Peers) /\ {Count, MinCount, MaxId} \subseteq Nat \ {0}
  /\ MinCount <= Count /\ Count < MaxId /\ {MaxCrashes, MaxConnects} \subseteq Nat

VARIABLES
  use,
  disk, identity, link, pending, wire, server, peers, used, lost, torn, happened

P == INSTANCE PreKeys WITH events <- happened, MaxEvents <- MaxConnects

keyVars   == <<disk, identity, link, pending, wire, server, peers, used, lost, torn, happened>>
omemoVars == <<use, vars, keyVars>>

OmemoInit ==
  /\ use \in {"sessions", "keys"}
  /\ Init /\ P!Init
  /\ use # "sessions" => peer.list = {}       \* of the initial states one will do
  /\ use # "keys" => disk = P!Blank

OmemoNext ==
  /\ UNCHANGED use
  /\ \/ use = "sessions" /\ Next /\ UNCHANGED keyVars
     \/ use = "keys" /\ P!Next /\ UNCHANGED vars

OmemoSpec == OmemoInit /\ [][OmemoNext]_omemoVars

\* What the server hands out can start a session.
PublishedIsHeld == P!PublishedIsHeld

\* A key that was used is replaced, and the bundle with it published; the used one is not.
UsedIsReplaced == [][P!ReplacedIsPublished']_omemoVars /\ P!UsedIsNotPublished

=============================================================================
