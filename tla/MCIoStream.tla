----------------------------- MODULE MCIoStream -----------------------------
(* A descriptor that never raises SIGIO needs room for one datagram only. *)
EXTENDS IoStream

MCMaxQ == [f \in Fd |-> IF f \in High THEN 1 ELSE 2]
=============================================================================
