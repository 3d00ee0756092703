---------------------------- MODULE MCRingRaces -----------------------------
(* The constants of module Ring for TLC: a read and a write of one file    *)
(* and a write of another for no characters, two processors, and each      *)
(* thing that may overlap the DPC in turn.                                 *)
EXTENDS Ring

CONSTANTS f1, f2, r1, w1, w2, c1, c2

MCFiles  == {f1, f2}
MCIrps   == {r1, w1, w2}
MCReads  == {r1}
MCFileOf == [i \in MCIrps |-> IF i = w2 THEN f2 ELSE f1]
MCLength == [i \in MCIrps |-> IF i = w2 THEN 0 ELSE 1]
MCCpus   == {c1, c2}
MCCases  == {{r} : r \in Races}
=============================================================================
