------------------------------- MODULE Hierarchy -------------------------------
(***************************************************************************)
(* The tree of dynamic folders and files (jfs_dynamic_paths.c) as operators*)
(* on a value h:                                                           *)
(*   folders  nodes [in, name, nth, datapath], the lists of folders        *)
(*   files    nodes [in, name, nth, id], the lists of files                *)
(* A list may hold a name more than once: a node is added in front, and the*)
(* first one found hides the others.  nth counts the nodes of a name from  *)
(* the end of the list, so that the greatest is found.  "in" is the address*)
(* of the folder the list belongs to: a sequence of <<name, nth>>.         *)
(***************************************************************************)
EXTENDS Naturals, FiniteSets, SequencesExt

CONSTANT Names   \* the names of files and folders

NoDatapath == <<>>   \* a folder made on the way to another has none

EmptyHierarchy == [folders |-> {}, files |-> {}]

At(node) == Append(node.in, <<node.name, node.nth>>)

\* How many nodes of a name there are in a list: the nth of the first.
Copies(nodes, at, name) == Cardinality({n \in nodes : n.in = at /\ n.name = name})

FirstOf(nodes, at, name) ==
  {n \in nodes : n.in = at /\ n.name = name /\ n.nth = Copies(nodes, at, name)}

\* The names an address goes through, and that it goes through the first folder of each:
\* the way of jfs_dynamic_hierarchy_get_node.
NamesOf(at) == [i \in DOMAIN at |-> at[i][1]]

Above(at, i) == SubSeq(at, 1, i - 1)

IsFirst(h, at) == \A i \in DOMAIN at : at[i][2] = Copies(h.folders, Above(at, i), at[i][1])

\* What a lookup of path finds among some nodes: the first of that name.
Reached(h, nodes, path) ==
  {n \in nodes : /\ NamesOf(At(n)) = path
                 /\ IsFirst(h, n.in)
                 /\ n.nth = Copies(nodes, n.in, n.name)}

FolderAt(h, path) == Reached(h, h.folders, path)

\* At the last name a folder hides a file.
FileAt(h, path) == {f \in Reached(h, h.files, path) : FolderAt(h, path) = {}}

\* The address of the folder a path is to be added in: down the first folder of each name,
\* and a new one where there is none.
Way(h, path) ==
  LET above == Len(path) - 1
      at[n \in 0..above] ==
        IF n = 0 THEN <<>>
        ELSE LET copies == Copies(h.folders, at[n - 1], path[n])
             IN  Append(at[n - 1], <<path[n], IF copies = 0 THEN 1 ELSE copies>>)
  IN  at[above]

MadeOnWay(h, path) ==
  LET way == Way(h, path)
  IN  {[in |-> Above(way, i), name |-> way[i][1], nth |-> 1, datapath |-> NoDatapath] :
         i \in {i \in DOMAIN way : Copies(h.folders, Above(way, i), way[i][1]) = 0}}

\* jfs_dynamic_hierarchy_add_folder: in front, whether the name is there or not.
AddFolder(h, path, datapath) ==
  LET way == Way(h, path)
      copies == Copies(h.folders, way, Last(path))
  IN  [h EXCEPT !.folders = @ \cup MadeOnWay(h, path) \cup
         {[in |-> way, name |-> Last(path), nth |-> copies + 1, datapath |-> datapath]}]

\* The critical section of jfs_dynamic_hierarchy_add_file: in front too.
AddFile(h, path, id) ==
  LET way == Way(h, path)
      copies == Copies(h.files, way, Last(path))
  IN  [h EXCEPT !.folders = @ \cup MadeOnWay(h, path),
                !.files = @ \cup
         {[in |-> way, name |-> Last(path), nth |-> copies + 1, id |-> id]}]

\* The nodes below the first folder of a path.
Inside(h, nodes, path) ==
  {n \in nodes : \E d \in FolderAt(h, path) : IsPrefix(At(d), n.in)}

\* jfs_dynamic_hierarchy_invalidate_folder: the folder itself stays.
Invalidate_Shallow(h, path) ==                                        \* mutant
  [h EXCEPT !.folders = @ \ Inside(h, @, path)]
Invalidate(h, path) ==
  [folders |-> h.folders \ Inside(h, h.folders, path),
   files   |-> h.files \ Inside(h, h.files, path)]

\* jfs_dynamic_hierarchy_unlink: the first file of that name.
RemoveFile(h, path) == [h EXCEPT !.files = @ \ FileAt(h, path)]
===============================================================================
