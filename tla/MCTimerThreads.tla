--------------------------- MODULE MCTimerThreads ---------------------------
(* Instances of TimerThreads for TLC. *)
EXTENDS TimerThreads
=============================================================================
