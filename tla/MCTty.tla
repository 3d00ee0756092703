-------------------------------- MODULE MCTty --------------------------------
(* Module Tty for TLC. *)
EXTENDS Tty
=============================================================================
