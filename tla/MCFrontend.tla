----------------------------- MODULE MCFrontend -----------------------------
(* The constants of module Frontend for TLC: every state is asked for; or  *)
(* one thread acquires and releases a frontend that may be enabled; or     *)
(* only the state that the code at hand asks for, and three threads.       *)
EXTENDS Frontend

CONSTANTS c1, c2, c3

MCCallers  == {c1, c2, c3}
MCSettings == {[targets |-> States, callers |-> {}],
               [targets |-> {"UNKNOWN", "ENABLED"}, callers |-> {c1}],
               [targets |-> {"UNKNOWN"}, callers |-> MCCallers]}
=============================================================================
