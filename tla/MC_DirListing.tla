---------------------------- MODULE MC_DirListing -----------------------------
(* A folder that lists the values of a key, in each the values of another, and in each *)
(* of those files; a folder that lists files; and three with a query that makes no sense:*)
(* a value without a key, values without a key to list, and more folders around than   *)
(* there are.                                                                           *)
EXTENDS DirListing, TLC

CONSTANTS top, all, bad, odd, lost, ka, kb, vx, vy, f1, f2

Ask(pairs, folders, items) == [pairs |-> pairs, folders |-> folders, items |-> items]

Queries ==
  <<top>> :> Ask(<<Key(ka)>>, TRUE, 0) @@
  <<top, SubQuery>> :> Ask(<<Key(kb)>>, TRUE, 1) @@
  <<top, SubQuery, SubQuery>> :> Ask(<<>>, FALSE, 2) @@
  <<all>> :> Ask(<<Key(ka), Value(vx), Key(kb)>>, FALSE, 0) @@
  <<bad>> :> Ask(<<Value(vx), Key(ka)>>, FALSE, 0) @@
  <<odd>> :> Ask(<<Key(ka), Value(vx)>>, TRUE, 0) @@
  <<lost>> :> Ask(<<Key(ka)>>, FALSE, 1)

Folders == {<<top>>, <<top, vx>>, <<top, vx, vx>>}

Lists == {<<top>>, <<top, vx>>, <<top, vx, vx>>, <<all>>, <<bad>>, <<odd>>, <<lost>>}
Finds == {<<top, vx, vx>>}
Adds == {<<top, vx>>}
AddsFile == {[path |-> <<all, vy>>, id |-> 1], [path |-> <<top, vx>>, id |-> 2]}
Remains == {Key(kb), Value(vx)}

\* The tables that requests on files and attributes leave.
Linked(files) ==
  FoldSet(LAMBDA p, db : AddLink(db, p),
          FoldSet(LAMBDA k, db : AddKey(db, k), EmptyDb, Keys), files)

AllTables ==
  UNION {{[Linked(files) EXCEPT !.metadata = rows] :
            rows \in {rows \in SUBSET [id : 1..Cardinality(files), key : 1..Cardinality(Keys),
                                      value : Values] :
                        \A r, s \in rows : r.id = s.id /\ r.key = s.key => r = s}} :
           files \in SUBSET Paths}

Symmetry == Permutations({f1, f2})
===============================================================================
