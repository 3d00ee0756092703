------------------------------- MODULE MCPower -------------------------------
(* The constants of module Power for TLC: the bus and one console, two     *)
(* names in the directory, and two system states.                          *)
EXTENDS Power

CONSTANTS f, p1

MCPdos    == {p1}
MCThreads == {f, p1} \X {"system", "device"}
MCStates  == {1, 4}
MCLower   == [s \in MCStates |-> IF s < 3 THEN 0 ELSE 3]
MCCases   == {{}, {"up"}, {"lower"}, {"create"}, {"store", "watch", "calls"}}
=============================================================================
