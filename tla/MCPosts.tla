------------------------------ MODULE MCPosts ------------------------------
(***************************************************************************)
(* Feeds, and the uploads their posts wait for, for model checking.  They  *)
(* touch nothing of each other's, so each is checked with the other at     *)
(* rest.                                                                   *)
(***************************************************************************)
EXTENDS Feeds

CONSTANTS Embeds, MaxJobs, MaxEvents

ASSUME PostConstants == {Embeds, MaxJobs} \subseteq Nat \ {0} /\ MaxEvents \in Nat

VARIABLES
  uploads, main, asked, s2c, told, given, jobs, events

U == INSTANCE Uploads WITH acct <- uploads, seen <- given

uploadVars == <<uploads, main, asked, s2c, told, given, jobs, events>>
postVars   == <<vars, uploadVars>>

PostsInit == Init /\ U!Init

FeedsSpec   == PostsInit /\ [][Next /\ UNCHANGED uploadVars]_postVars /\ Fairness
UploadsSpec == PostsInit /\ [][U!Next /\ UNCHANGED vars]_postVars /\ U!Fairness

\* A job ends once, and its thread is joined.
JobsEndOnce == U!JobsEndOnce

\* A post has the URLs of its own files, in order, or waits for one of them.
PostsAreWhole == U!PostsAreWhole

\* The main thread comes back from every join and read.
MainReturns == U!MainReturns

=============================================================================
