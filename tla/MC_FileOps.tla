------------------------------ MODULE MC_FileOps -------------------------------
(* Small file systems for TLC: two directories and a file name inside each.   *)
EXTENDS FileOps, TLC

CONSTANTS d, e, f

TwoDirs == {<<d>>, <<e>>, <<d, f>>, <<e, f>>}

Symmetry == Permutations(Bodies) \cup Permutations(Keys)
===============================================================================
