------------------------------- MODULE MCPnp --------------------------------
(* The constants of module Pnp for TLC: the default console and one name,  *)
(* of which two PDOs may be there at a time.                               *)
EXTENDS Pnp

CONSTANTS d, p1, p2, x

MCPdos  == {d, p1, p2}
MCNames == {x}

(* Each hazard in turn, where the directory may not be had at any time;    *)
(* and, for liveness, the one that it bears, with such a directory or not. *)
MCCases     == {{"directory"} \cup c : c \in {{}, {"gap"}, {"missing"}, {"query"},
                                             {"memory"}}}
MCCasesLive == {{"missing"}, {"missing", "directory"}}
=============================================================================
