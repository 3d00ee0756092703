------------------------------- MODULE MCRing -------------------------------
(* The constants of module Ring for TLC: two reads, one of them for no     *)
(* characters, and a write of one file, one processor, nothing that        *)
(* overlaps the DPC.                                                       *)
EXTENDS Ring

CONSTANTS f1, r1, r2, w1, c1

MCFiles  == {f1}
MCIrps   == {r1, r2, w1}
MCReads  == {r1, r2}
MCFileOf == [i \in MCIrps |-> f1]
MCLength == [i \in MCIrps |-> CASE i = r1 -> 2 [] i = r2 -> 0 [] i = w1 -> 2]
MCCpus   == {c1}
MCCases  == {{}}
=============================================================================
