---------------------------- MODULE SessionStream ----------------------------
(***************************************************************************)
(* What stream management promises of one session, whatever happens to the *)
(* connections that carry it: the peer gets the stanzas that were sent in  *)
(* the session one by one, in order, none skipped and none repeated.       *)
(* StreamManagement implements it.                                         *)
(***************************************************************************)
EXTENDS Naturals, Sequences

VARIABLES session,  \* the session both sides agree on, 0 when there is none
          sent,     \* the stanzas sent in it
          got       \* those the peer has handled
vars == <<session, sent, got>>

Init == session = 0 /\ sent = <<>> /\ got = <<>>

Open ==
  /\ session = 0 /\ session' \in Nat \ {0}
  /\ sent' \in Seq(Nat) /\ got' = <<>>

Close ==
  /\ session # 0 /\ session' = 0
  /\ sent' = <<>> /\ got' = <<>>

Submit ==
  /\ session # 0 /\ session' = session
  /\ sent' \in Seq(Nat) /\ Len(sent') > Len(sent)
  /\ SubSeq(sent', 1, Len(sent)) = sent
  /\ got' = got

Deliver ==
  /\ session # 0 /\ session' = session
  /\ Len(got) < Len(sent)
  /\ got' = Append(got, sent[Len(got) + 1])
  /\ sent' = sent

Next == Open \/ Close \/ Submit \/ Deliver
Spec == Init /\ [][Next]_vars
=============================================================================
