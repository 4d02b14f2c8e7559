---------------------------- MODULE MC_DynamicPaths ----------------------------
(* Two files of one directory, and a directory top with a query that selects folders: *)
(* so does the folder it lists, and the one in that lists files.                      *)
EXTENDS DynamicPaths, TLC

CONSTANTS t1, t2, dir, one, two, top, val

RealFiles == {<<dir, one>>, <<dir, two>>}
Files == RealFiles \cup {<<top, val, val, one>>, <<top, val, val, two>>}
FolderQueries == {<<top>>, <<top, val>>}
FileQueries == {<<top, val, val>>}

\* One thread lists the files, the other the folders around them, and it resolves.
OutAndIn == t1 :> FolderQueries \cup ListedPaths @@ t2 :> FileQueries

Symmetry == Permutations({one, two})
===============================================================================
