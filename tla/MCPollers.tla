----------------------------- MODULE MCPollers -----------------------------
(* Pollers for TLC. *)
EXTENDS Pollers
=============================================================================
