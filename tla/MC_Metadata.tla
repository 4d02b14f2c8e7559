------------------------------ MODULE MC_Metadata ------------------------------
(* Small instances of the metadata operations for TLC.                        *)
EXTENDS Metadata, TLC

CONSTANTS t1, t2, a, b, c, k1, k2

\* t1 has the file at a for itself; both threads work on the one at b.
OneShared == t1 :> {<<a, k1>>, <<b, k1>>} @@ t2 :> {<<b, k1>>}
OneAlone  == t1 :> {<<b, k1>>}

\* Both threads use both keys of the file at a.
BothShared == t1 :> {<<a, k1>>, <<a, k2>>} @@ t2 :> {<<a, k1>>, <<a, k2>>}
BothAlone  == t1 :> {<<a, k1>>, <<a, k2>>}

Symmetry == Permutations(Values)
===============================================================================
