------------------------------ MODULE MCStream ------------------------------
(* The constants of module Stream for TLC: two reads, one of them of       *)
(* nothing, and a write of more than the console has room for: it holds    *)
(* two characters of input and one of output.                              *)
EXTENDS Stream, TLC

CONSTANTS r1, r2, w1

MCIrps  == {r1, r2, w1}
MCReads == {r1, r2}
MCLength == r1 :> 1 @@ r2 :> 0 @@ w1 :> 2
=============================================================================
