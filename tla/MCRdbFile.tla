----------------------------- MODULE MCRdbFile -----------------------------
(* Snapshots of different sizes, so that a longer file is overwritten by a  *)
(* shorter one and the other way round; one of them cannot be loaded.       *)
EXTENDS RdbFile

UnevenBlocks == [n \in 0 .. MaxSaves |-> IF n % 2 = 1 THEN 3 ELSE 2]
=============================================================================
