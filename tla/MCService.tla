------------------------------ MODULE MCService ------------------------------
(* The constants of module Service for TLC. *)
EXTENDS Service

CONSTANTS d1, d2, h1, h2, h3

MCDevices == {d1, d2}
MCHandles == {h1, h2, h3}
=============================================================================
