------------------------------ MODULE MCShutdown ------------------------------
(* Shutdown with two users and two of the four producers of the bus. *)
EXTENDS Shutdown

=============================================================================
