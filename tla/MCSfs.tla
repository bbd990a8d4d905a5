------------------------------- MODULE MCSfs -------------------------------
(* Instances of Sfs for TLC: MAX_PRIO is 3, Main and SIRQ have priority 1  *)
(* as in the code, IDLE the lowest, and the user tasks UserPrio.           *)
EXTENDS Sfs, TLC

CONSTANTS UserPrio, MainOps, UserOps

MCBasePrio ==
  [t \in Task |-> IF t = Idle THEN MAX_PRIO - 1
                  ELSE IF t \in {Main, Sirq} THEN 1 ELSE UserPrio]
MCProg ==
  [t \in Task |-> IF t = Main THEN MainOps
                  ELSE IF t \in User THEN UserOps ELSE {}]

(* The user tasks run the same code. *)
UserSymmetry == Permutations(User)
=============================================================================
