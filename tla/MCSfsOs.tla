------------------------------ MODULE MCSfsOs ------------------------------
(* The instances of MCSfs, with the switch to OS threads. *)
EXTENDS SfsOs, MCSfs
=============================================================================
