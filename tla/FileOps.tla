-------------------------------- MODULE FileOps --------------------------------
(***************************************************************************)
(* The operations that change names: create, mknod, mkdir, symlink, link,  *)
(* unlink, rmdir and rename (jfs_file.c, jfs_dir.c) on static paths.  Each *)
(* changes the underlying file system and the links table, in two steps    *)
(* that may fail or be separated by the death of the process.              *)
(*                                                                         *)
(* One operation runs at a time: FUSE holds its tree lock and the kernel   *)
(* the directory's for as long as one lasts.  The kernel looks a path up   *)
(* first and asks only for what makes sense: Allowed.                      *)
(***************************************************************************)
EXTENDS JfsDatabase, Sequences

CONSTANTS
  Names,         \* names of files in a directory
  Bodies,        \* bound: inodes of files that are not directories
  MaxId,         \* bound: how many rows table links is ever given
  Nothing, Dir,  \* what a path may name besides a file
  Dangling       \* a symlink to nothing: access() and stat() fail

ASSUME FileAssumption ==
  /\ Paths \subseteq Seq(Names) \ {<<>>}
  /\ \A p \in Paths : \A n \in 1..Len(p) : SubSeq(p, 1, n) \in Paths
  /\ IsFiniteSet(Keys)
  /\ MaxId \in Nat
  /\ Nothing # Dir /\ Nothing # Dangling /\ Dir # Dangling
  /\ {Nothing, Dir, Dangling} \cap Bodies = {}

VARIABLES
  tree,          \* the underlying file system: what each path names
  db,            \* joinfs.db
  op,            \* the operation
  pc,            \* its next step
  astray         \* history: the paths on which tree and db were left to differ

vars == <<tree, db, op, pc, astray>>

Below(p, q) == Len(q) < Len(p) /\ SubSeq(p, 1, Len(q)) = q

\* Where p is when what is at one path is at another.
Moved(p, from, to) == to \o SubSeq(p, Len(from) + 1, Len(p))

\* jfs_util_is_realpath
Exists(p) == tree[p] \notin {Nothing, Dangling}

ParentIsDir(p) == \A q \in Paths : Below(p, q) => tree[q] = Dir

Inside(p) == {q \in Paths : Below(q, p) /\ tree[q] # Nothing}

Creations == {"create", "mknod", "mkdir", "symlink", "link"}

NoOp == [op |-> "none"]
Operations ==
  [op : (Creations \ {"link"}) \cup {"unlink", "rmdir"}, path : Paths]
    \cup [op : {"link", "rename"}, from : Paths, path : Paths]

\* What the kernel lets through once it has looked the paths up.
Allowed(o) ==
  /\ ParentIsDir(o.path)
  /\ o.op \in Creations => ~Exists(o.path)
  /\ o.op = "link" => Exists(o.from) /\ tree[o.from] # Dir
  /\ o.op = "unlink" => Exists(o.path) /\ tree[o.path] # Dir
  /\ o.op = "rmdir" => tree[o.path] = Dir
  /\ o.op = "rename" =>
       /\ Exists(o.from) /\ o.from # o.path
       /\ ~Below(o.path, o.from) /\ ~Below(o.from, o.path)
       /\ Exists(o.path) => (tree[o.from] = Dir <=> tree[o.path] = Dir)
       /\ \A q \in Inside(o.from) : Moved(q, o.from, o.path) \in Paths   \* bound

Init ==
  /\ tree = [p \in Paths |-> Nothing]
  /\ db = EmptyDb
  /\ op = NoOp /\ pc = "idle"
  /\ astray = {}

Request ==
  /\ pc = "idle"
  /\ \E o \in Operations :
       /\ Allowed(o)
       /\ op' = o
       /\ pc' = IF o.op \in Creations THEN "make" ELSE "store"
  /\ UNCHANGED <<tree, db, astray>>

Return == pc' = "idle" /\ op' = NoOp

LeaveAstray(paths) == astray' = astray \cup paths

\* An operation that goes through sets right what was wrong with its paths.
Settle(paths, left) == astray' = (astray \ paths) \cup left

\* Not a name: jfs_meta_setxattr gives a file an attribute.
SetAttribute(p, k, v) ==
  /\ pc = "idle" /\ Exists(p)
  /\ LET keyed == AddKey(db, k)
         kid == keyed.keys[k]
     IN  /\ CanSetMeta(keyed, p, kid, FALSE)
         /\ db' = SetMeta(keyed, p, kid, v)
  /\ UNCHANGED <<tree, op, pc, astray>>

-------------------------------------------------------------------------------
(* Creation: the file system first, then table links.  At every step an error *)
(* or the death of the process ends the operation.                            *)

FreeBodies == {b \in Bodies : \A p \in Paths : tree[p] # b}

\* What the operation puts at its path.
NewEntries ==
  CASE op.op = "mkdir"   -> {Dir}
    [] op.op = "link"    -> {tree[op.from]}
    [] op.op = "symlink" -> FreeBodies \cup {Dangling}
    [] OTHER             -> FreeBodies

\* A pipe or a device is not entered in the database.
Make ==
  /\ pc = "make"
  /\ tree[op.path] = Nothing
  /\ \E e \in NewEntries : tree' = [tree EXCEPT ![op.path] = e]
  /\ \/ op.op = "mknod" /\ Return /\ LeaveAstray({op.path})
     \/ op.op # "mknod" /\ pc' = "enter" /\ UNCHANGED <<op, astray>>
  /\ UNCHANGED db

\* jfs_file_do_open opens again, without O_EXCL of its own, when the first open fails with
\* something else than a file in the way.  If that one succeeds, the file is made, its
\* descriptor returned, and nothing entered.
MakeUnentered ==
  /\ pc = "make" /\ op.op = "create"
  /\ tree[op.path] = Nothing
  /\ \E b \in FreeBodies : tree' = [tree EXCEPT ![op.path] = b]
  /\ Return
  /\ LeaveAstray({op.path})
  /\ UNCHANGED db

\* A symlink to nothing is in the way, or any other error, of both opens.
MakeFails ==
  /\ pc = "make"
  /\ Return
  /\ UNCHANGED <<tree, db, astray>>

\* jfs_file_db_add
Enter ==
  /\ pc = "enter"
  /\ CanAddLink(db, op.path)
  /\ db.lastId < MaxId
  /\ db' = AddLink(db, op.path)
  /\ Return
  /\ Settle({op.path}, {})
  /\ UNCHANGED tree

\* The path has a row, stat or the query fails: the new file stays without a row.
EnterFails ==
  /\ pc = "enter"
  /\ Return
  /\ LeaveAstray({op.path})
  /\ UNCHANGED <<tree, db>>

-------------------------------------------------------------------------------
(* Removal and renaming: the database first, then the file system.            *)

Store ==
  /\ pc = "store"
  /\ \/ op.op # "rename" /\ db' = DeleteFile(db, op.path)
     \/ /\ op.op = "rename"
        /\ CanRename(db, op.from, op.path, Exists(op.path))
        /\ db' = RenameFile(db, op.from, op.path, Exists(op.path))
  /\ pc' = "apply"
  /\ UNCHANGED <<tree, op, astray>>

\* A constraint of the tables, or any other error.
StoreFails ==
  /\ pc = "store"
  /\ Return
  /\ UNCHANGED <<tree, db, astray>>

Remove ==
  /\ pc = "apply" /\ op.op \in {"unlink", "rmdir"}
  /\ Inside(op.path) = {}
  /\ tree' = [tree EXCEPT ![op.path] = Nothing]
  /\ Return
  /\ Settle({op.path}, {})
  /\ UNCHANGED db

SameFile(p, q) == tree[p] = tree[q] /\ tree[p] \in Bodies

\* What the tree is when from has become to, with everything inside it.
TreeMoved(from, to) ==
  [p \in Paths |->
     CASE p = to \/ Below(p, to) ->
            (IF Moved(p, to, from) \in Paths THEN tree[Moved(p, to, from)] ELSE Nothing)
       [] p = from \/ Below(p, from) -> Nothing
       [] OTHER -> tree[p]]

\* rename(2) between two names of one file changes nothing: the old name stays, without
\* a row.  The rows of what is inside a directory keep its old path.
RenameTree ==
  LET from == op.from  to == op.path
      inside == Inside(from)
      unentered == {to : p \in {from} \cap astray}
  IN  /\ pc = "apply" /\ op.op = "rename"
      /\ Inside(to) = {}
      /\ \/ /\ SameFile(from, to)
            /\ Settle({to}, unentered \cup {from})
            /\ UNCHANGED tree
         \/ /\ ~SameFile(from, to)
            /\ tree' = TreeMoved(from, to)
            /\ Settle({from, to},
                      unentered \cup inside \cup {Moved(q, from, to) : q \in inside})
      /\ Return
      /\ UNCHANGED db

\* The directory is not empty, or any other error: the rows are gone or moved already.
ApplyFails ==
  /\ pc = "apply"
  /\ Return
  /\ LeaveAstray({op.path} \cup (IF op.op = "rename" THEN {op.from} ELSE {}))
  /\ UNCHANGED <<tree, db>>

-------------------------------------------------------------------------------
Next ==
  \/ Request
  \/ Make \/ MakeUnentered \/ MakeFails \/ Enter \/ EnterFails
  \/ Store \/ StoreFails \/ Remove \/ RenameTree \/ ApplyFails
  \/ \E p \in Paths, k \in Keys, v \in Values : SetAttribute(p, k, v)

Spec == Init /\ [][Next]_vars

-------------------------------------------------------------------------------
(* Properties.                                                                *)

\* Type invariant.  Everything is in a directory.
TypeOK ==
  /\ tree \in [Paths -> Bodies \cup {Nothing, Dir, Dangling}]
  /\ \A p \in Paths : tree[p] # Nothing => ParentIsDir(p)
  /\ db \in Databases(MaxId)
  /\ op \in Operations \cup {NoOp}
  /\ pc \in {"idle", "make", "enter", "store", "apply"}
  /\ astray \subseteq Paths

\* Between operations the file system and the table of links name the same paths,
\* but for those that some operation left astray and none has set right since.  What
\* leaves a path astray: to fail or die between the two steps, a create whose second
\* open makes the file, mknod of a pipe or a device, a rename of a directory with files
\* in it, of a file to another name of itself, or of a file without a row.  What sets
\* it right: an operation on the path that goes through.
Agreement ==
  pc = "idle" =>
    \A p \in Paths \ astray : tree[p] # Nothing <=> db.links[p] # NoId

\* Every row of metadata belongs to one path, however operations fail and die.
MetadataOwned ==
  \A r \in db.metadata : \E p \in Paths :
    \A q \in Paths : db.links[q] = r.id <=> q = p

Attributes(p) == {<<r.key, r.value>> : r \in RowsOf(db, p)}

\* jfs_file_do_rename: "preserve the old metadata".  A rename that is stored leaves its
\* target with the metadata of both files.
RenamePreserves ==
  [][pc = "store" /\ op.op = "rename" /\ pc' = "apply" =>
       Attributes(op.path)' = Attributes(op.from) \cup Attributes(op.path)]_vars
===============================================================================
