----------------------------- MODULE MCMsgQueue -----------------------------
(* An instance of MsgQueue for TLC: c1's queue has two receivers, c2's one. *)
EXTENDS MsgQueue, TLC

CONSTANTS c1, c2, s1, s2, r1, r2, r3

MCOwner == (s1 :> c1) @@ (r1 :> c1) @@ (r2 :> c1) @@ (s2 :> c2) @@ (r3 :> c2)
=============================================================================
