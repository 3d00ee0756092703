----------------------------- MODULE MCConsole ------------------------------
(* The constants of module Console for TLC: two files, two IRPs on the     *)
(* first and one on the second, and two power-downs.                       *)
EXTENDS Console

CONSTANTS f1, f2, i1, i2, i3

MCFiles  == {f1, f2}
MCIrps   == {i1, i2, i3}
MCFileOf == [i \in MCIrps |-> IF i = i3 THEN f2 ELSE f1]
=============================================================================
