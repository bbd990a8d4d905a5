------------------------------ MODULE MCRbTree ------------------------------
EXTENDS RbTree

(* Eight timers at five times: three of the times are shared. *)
MCNode == 1 .. 8
MCRt == [n \in MCNode |-> <<1, 1, 2, 3, 3, 4, 5, 5>>[n]]
=============================================================================
