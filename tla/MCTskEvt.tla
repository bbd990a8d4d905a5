------------------------------ MODULE MCTskEvt ------------------------------
(* Instances of TskEvt for TLC: r1 asks for one of two events; s1 and s2   *)
(* send either.                                                            *)
EXTENDS TskEvt, TLC

CONSTANTS r1, s1, s2, e1, e2

MCWants == (r1 :> {e1}) @@ (s1 :> {}) @@ (s2 :> {})
=============================================================================
