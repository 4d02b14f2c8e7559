----------------------------- MODULE DynamicPaths -----------------------------
(***************************************************************************)
(* Dynamic folders: a directory with a query lists what the query selects  *)
(* (jfs_dir_readdir, jfs_dir_db_filler), and what it lists can be opened,  *)
(* unlinked and renamed by its dynamic path, by way of the hierarchy       *)
(* (jfs_dynamic_paths.c) and the cache of datapaths (jfs_datapath_cache.c).*)
(*                                                                         *)
(* Requests list and resolve in threads of their own; FUSE holds its tree  *)
(* lock for writing while a file is unlinked or renamed, and the kernel a  *)
(* directory's while it is listed.  A critical section of path_lock or     *)
(* cache_lock is one step; a path is cut into names in one (strtok).  What *)
(* unlink and rename do to table links they do before they touch the disk, *)
(* which may refuse, and does when the new name of a file is in a folder   *)
(* that is only listed.                                                    *)
(***************************************************************************)
EXTENDS JfsDatabase, Hierarchy

CONSTANTS
  Threads,       \* the request threads
  Places,        \* the Paths that are in a directory on the disk
  OfFolders,     \* paths of the dynamic folders that select folders, one a value
  OfFiles,       \* paths of those that select files
  Access,        \* bound: the folders each thread lists and the listed files it resolves
  SubQuery,      \* ".jfs_sub_query"
  MaxId,         \* bound: how many files are ever created
  MaxCopies      \* bound: how often a folder is listed between listings of its parent

Folders == OfFolders \cup OfFiles

NoFolder == <<>>

\* The paths at which files are listed.
ListedPaths == {Append(f, Last(p)) : f \in OfFiles, p \in Paths}

ASSUME DynamicAssumption ==
  /\ IsFiniteSet(Threads) /\ Threads # {}
  /\ IsFiniteSet(Paths) /\ IsFiniteSet(Keys)
  /\ Paths \cup Folders \subseteq Seq(Names) /\ Values \subseteq Names
  /\ Places \subseteq Paths
  /\ \A p \in Paths : Len(p) > 1
  /\ \A p, q \in Paths : Append(Front(p), Last(q)) \in Paths
  /\ ListedPaths \subseteq Paths
  /\ OfFolders \cap OfFiles = {} /\ NoFolder \notin Folders
  /\ Access \in [Threads -> SUBSET (Folders \cup ListedPaths)]
  /\ MaxId \in Nat /\ MaxCopies \in Nat

VARIABLES
  db,            \* joinfs.db, of which only links matters
  disk,          \* the paths of the files there are
  tree,          \* the hierarchy below jfs_root
  cache,         \* the datapaths of each jfs_id, the one found first first
  pc,            \* where each thread is
  folder,        \* the folder it lists
  rows,          \* what the query selected and is still to be added
  cur,           \* the jfs_id and datapath it is about to cache
  shown,         \* history: what was listed and is still to be found, [path, id]
  disturbed,     \* history: threads that list a folder inside one listed meanwhile
  stale          \* history: jfs_ids whose row went or moved while they were cached

vars == <<db, disk, tree, cache, pc, folder, rows, cur, shown, disturbed, stale>>
requests == <<pc, folder, rows, cur, disturbed>>

files == <<db, disk>>

\* A directory with a query, or what a query for folders selected.
IsTop(f) == \A g \in OfFolders : ~IsStrictPrefix(g, f)

\* The real directory of a folder: each value listed on the way to it is .jfs_sub_query.
Datapath(f) ==
  [i \in DOMAIN f |->
     IF \E g \in OfFolders : IsPrefix(g, f) /\ Len(g) < i THEN SubQuery ELSE f[i]]

\* jfs_util_is_realpath
Real(path) == path \in disk

Row(name, id, datapath) == [name |-> name, id |-> id, datapath |-> datapath]

NoRow == [id |-> NoId, datapath |-> NoDatapath]

Init ==
  /\ db = EmptyDb /\ disk = {}
  /\ tree = EmptyHierarchy
  /\ cache = [i \in 0..MaxId |-> <<>>]
  /\ pc = [t \in Threads |-> "idle"]
  /\ folder = [t \in Threads |-> NoFolder]
  /\ rows = [t \in Threads |-> {}]
  /\ cur = [t \in Threads |-> NoRow]
  /\ shown = {} /\ disturbed = {} /\ stale = {}

Goto(t, l) == pc' = [pc EXCEPT ![t] = l]

Return(t) ==
  /\ Goto(t, "idle")
  /\ folder' = [folder EXCEPT ![t] = NoFolder]
  /\ rows' = [rows EXCEPT ![t] = {}]
  /\ cur' = [cur EXCEPT ![t] = NoRow]
  /\ disturbed' = disturbed \ {t}

-------------------------------------------------------------------------------
(* The cache of datapaths.                                                    *)

\* jfs_datapath_cache_remove deletes the first entry of a jfs_id.
Dropped_Kept(c, id) == c                                              \* mutant
Dropped(c, id) == [c EXCEPT ![id] = IF @ = <<>> THEN <<>> ELSE Tail(@)]

Put(c, id, datapath) == [c EXCEPT ![id] = <<datapath>> \o @]

\* SELECT path FROM links WHERE jfs_id = <id>: none or one.
PathsOf(id) == {p \in Paths : db.links[p] = id /\ id # NoId}

\* jfs_datapath_cache_get_datapath when no other thread runs: its result, and the
\* cache after.
Resolved(id) == IF cache[id] = <<>> THEN PathsOf(id) ELSE {Head(cache[id])}

Filled(c, items) ==
  [i \in DOMAIN c |->
     IF c[i] = <<>> /\ i # NoId /\ \E x \in items : x.id = i
       THEN <<(CHOOSE x \in items : x.id = i).datapath>> ELSE c[i]]

\* jfs_dynamic_hierarchy_unlink, of a path where there may be no file.
Unlisted(s, path) ==
  [tree  |-> RemoveFile(s.tree, path),
   cache |-> [i \in DOMAIN s.cache |->
                IF \E f \in FileAt(s.tree, path) : f.id = i
                  THEN Dropped(s.cache, i)[i] ELSE s.cache[i]]]

\* History: what ids are outdated in a cache, when the files of some went or moved.
Outdated(c, ids) == {i \in stale \cup ids : c[i] # <<>>}

-------------------------------------------------------------------------------
(* Listing a dynamic folder: jfs_dir_db_filler.                               *)

\* Listing one folder disturbs that of another inside it, which may go meanwhile, and of
\* one around it whose files are then hidden by folders.
Disturbs(g, f) == IsStrictPrefix(g, f) \/ (f \in OfFiles /\ IsStrictPrefix(f, g))

\* The folder is a directory with a query, or resolves to one.
List(t) ==
  /\ pc[t] = "idle"
  /\ \E f \in Folders \cap Access[t] :
       /\ IsTop(f) \/ \E d \in FolderAt(tree, f) : d.datapath # NoDatapath
       /\ \A u \in Threads : folder[u] # f
       /\ Copies(tree.folders, Way(tree, f), Last(f)) < MaxCopies
       /\ folder' = [folder EXCEPT ![t] = f]
       /\ disturbed' = disturbed
            \cup {u \in Threads : folder[u] # NoFolder /\ Disturbs(f, folder[u])}
            \cup {u \in {t} : \E v \in Threads : folder[v] # NoFolder /\ Disturbs(folder[v], f)}
  /\ Goto(t, "invalidate")
  /\ UNCHANGED <<files, tree, cache, rows, cur, shown, stale>>

\* Every file of the folder is taken out of the cache as it is deleted.
InvalidateFolder(t) ==
  LET gone == Inside(tree, tree.files, folder[t])
      drops(i) == Cardinality({f \in gone : f.id = i})
  IN  /\ pc[t] = "invalidate"
      /\ tree' = Invalidate(tree, folder[t])
      /\ cache' = [i \in DOMAIN cache |-> SubSeq(cache[i], drops(i) + 1, Len(cache[i]))]
      /\ stale' = Outdated(cache', {})
      /\ shown' = {s \in shown : ~IsStrictPrefix(folder[t], s.path)}
      /\ Goto(t, "add")
      /\ UNCHANGED <<files, folder, rows, cur, disturbed>>

\* History: a folder that is added or made hides the files at its path.
AddListed(t) ==
  /\ pc[t] = "add"
  /\ tree' = AddFolder(tree, folder[t], Datapath(folder[t]))
  /\ shown' = {s \in shown : s.id # NoId => ~IsPrefix(s.path, folder[t])}
  /\ Goto(t, "query")
  /\ UNCHANGED <<files, cache, folder, rows, cur, disturbed, stale>>

\* The query selects files or values by their metadata, which can be any.
Query_Unresolved(t) ==                                                \* mutant
  /\ pc[t] = "query"
  /\ \/ /\ folder[t] \in OfFiles
        /\ \E ps \in SUBSET {p \in Paths : db.links[p] # NoId} :
             rows' = [rows EXCEPT ![t] = {Row(Last(p), db.links[p], p) : p \in ps}]
     \/ /\ folder[t] \in OfFolders
        /\ \E vs \in SUBSET Values :
             rows' = [rows EXCEPT ![t] =
                        {Row(v, NoId, Append(folder[t], SubQuery)) : v \in vs}]
  /\ Goto(t, "row")
  /\ UNCHANGED <<files, tree, cache, folder, cur, shown, disturbed, stale>>
Query(t) ==
  /\ pc[t] = "query"
  /\ \/ /\ folder[t] \in OfFiles
        /\ \E ps \in SUBSET {p \in Paths : db.links[p] # NoId} :
             rows' = [rows EXCEPT ![t] = {Row(Last(p), db.links[p], p) : p \in ps}]
     \/ /\ folder[t] \in OfFolders
        /\ \E vs \in SUBSET Values :
             rows' = [rows EXCEPT ![t] =
                        {Row(v, NoId, Append(Datapath(folder[t]), SubQuery)) : v \in vs}]
  /\ Goto(t, "row")
  /\ UNCHANGED <<files, tree, cache, folder, cur, shown, disturbed, stale>>

\* History: a row is shown, and to be found if nothing disturbs the listing.
Show(t, path, id) ==
  LET visible == {s \in shown : s.id # NoId => ~IsStrictPrefix(s.path, path)}
  IN  shown' = IF t \in disturbed THEN {s \in visible : s.path # path}
               ELSE visible \cup {[path |-> path, id |-> id]}

FolderRow(t) ==
  /\ pc[t] = "row" /\ folder[t] \in OfFolders
  /\ \E r \in rows[t] :
       LET path == Append(folder[t], r.name)
       IN  /\ tree' = AddFolder(tree, path, r.datapath)
           /\ rows' = [rows EXCEPT ![t] = @ \ {r}]
           /\ Show(t, path, NoId)
  /\ UNCHANGED <<files, cache, pc, folder, cur, disturbed, stale>>

\* stat and access find the file: it is added to the hierarchy, then to the cache.
FileRow_Known(t) ==                                                   \* mutant
  /\ pc[t] = "row" /\ folder[t] \in OfFiles
  /\ \E r \in rows[t] :
       LET path == Append(folder[t], r.name)
       IN  /\ Real(r.datapath)
           /\ tree' = IF cache[r.id] = <<>> THEN AddFile(tree, path, r.id) ELSE tree
           /\ rows' = [rows EXCEPT ![t] = @ \ {r}]
           /\ cur' = [cur EXCEPT ![t] = [id |-> r.id, datapath |-> r.datapath]]
           /\ Show(t, path, r.id)
  /\ Goto(t, "uncache")
  /\ UNCHANGED <<files, cache, folder, disturbed, stale>>
FileRow(t) ==
  /\ pc[t] = "row" /\ folder[t] \in OfFiles
  /\ \E r \in rows[t] :
       LET path == Append(folder[t], r.name)
       IN  /\ Real(r.datapath)
           /\ tree' = AddFile(tree, path, r.id)
           /\ rows' = [rows EXCEPT ![t] = @ \ {r}]
           /\ cur' = [cur EXCEPT ![t] = [id |-> r.id, datapath |-> r.datapath]]
           /\ Show(t, path, r.id)
  /\ Goto(t, "uncache")
  /\ UNCHANGED <<files, cache, folder, disturbed, stale>>

\* access() refuses: the file is not listed.
SkipRow(t) ==
  /\ pc[t] = "row" /\ folder[t] \in OfFiles
  /\ \E r \in rows[t] : Real(r.datapath) /\ rows' = [rows EXCEPT ![t] = @ \ {r}]
  /\ UNCHANGED <<files, tree, cache, pc, folder, cur, shown, disturbed, stale>>

Listed(t) ==
  /\ pc[t] = "row" /\ rows[t] = {}
  /\ Return(t)
  /\ UNCHANGED <<files, tree, cache, shown, stale>>

-------------------------------------------------------------------------------
(* Resolving the path of a listed file: jfs_dynamic_path_resolution.          *)

Resolve(t) ==
  /\ pc[t] = "idle"
  /\ \E p \in ListedPaths \cap Access[t] : \E f \in FileAt(tree, p) :
       cur' = [cur EXCEPT ![t].id = f.id]
  /\ Goto(t, "lookup")
  /\ UNCHANGED <<files, tree, cache, folder, rows, shown, disturbed, stale>>

Lookup(t) ==
  /\ pc[t] = "lookup"
  /\ \/ cache[cur[t].id] # <<>> /\ Return(t)
     \/ /\ cache[cur[t].id] = <<>>
        /\ Goto(t, "read")
        /\ UNCHANGED <<folder, rows, cur, disturbed>>
  /\ UNCHANGED <<files, tree, cache, shown, stale>>

\* jfs_datapath_cache_miss
Read(t) ==
  /\ pc[t] = "read"
  /\ \E p \in PathsOf(cur[t].id) : cur' = [cur EXCEPT ![t].datapath = p]
  /\ Goto(t, "uncache")
  /\ UNCHANGED <<files, tree, cache, folder, rows, shown, disturbed, stale>>

\* The two critical sections of jfs_datapath_cache_add.
Uncache(t) ==
  /\ pc[t] = "uncache"
  /\ cache' = Dropped(cache, cur[t].id)
  /\ stale' = Outdated(cache', {})
  /\ Goto(t, "cache")
  /\ UNCHANGED <<files, tree, folder, rows, cur, shown, disturbed>>

Cache(t) ==
  /\ pc[t] = "cache"
  /\ cache' = Put(cache, cur[t].id, cur[t].datapath)
  /\ \/ folder[t] = NoFolder /\ Return(t)
     \/ /\ folder[t] # NoFolder
        /\ cur' = [cur EXCEPT ![t] = NoRow]
        /\ Goto(t, "row")
        /\ UNCHANGED <<folder, rows, disturbed>>
  /\ UNCHANGED <<files, tree, shown, stale>>

\* A query fails, stat finds no file where a row says there is one, there is no such
\* jfs_id any more, or no memory.
Fails(t) ==
  /\ pc[t] \in {"invalidate", "add", "query", "row", "read", "cache"}
  /\ Return(t)
  /\ UNCHANGED <<files, tree, cache, shown, stale>>

-------------------------------------------------------------------------------
(* What changes files.                                                        *)

\* The file first, then its row, for which there may be no room.
CreateFile(p) ==
  /\ ~Real(p)
  /\ disk' = disk \cup {p}
  /\ \/ CanAddLink(db, p) /\ db.lastId < MaxId /\ db' = AddLink(db, p)
     \/ ~CanAddLink(db, p) /\ UNCHANGED db
  /\ UNCHANGED <<tree, cache, requests, shown, stale>>

Alone == \A t \in Threads : pc[t] = "idle"

\* jfs_file_do_unlink: the transaction, then unlink(2), which may fail.
Erase(p) ==
  /\ db' = DeleteFile(db, p)
  /\ disk' \in {disk, disk \ {p}}

\* jfs_file_unlink of a static path: hierarchy and cache are not told.
UnlinkStatic(p) ==
  /\ Alone
  /\ Real(p)
  /\ Erase(p)
  /\ stale' = Outdated(cache, {db.links[p]})
  /\ UNCHANGED <<tree, cache, requests, shown>>

\* What a path a request names is: a static one, whose jfs_id is not looked up, the path
\* of a listed file, or that of a folder without a datapath, which is its own.
Items(path) ==
  IF Real(path) THEN {[id |-> NoId, datapath |-> path]}
  ELSE (UNION {{[id |-> f.id, datapath |-> d] : d \in Resolved(f.id)} : f \in FileAt(tree, path)})
         \cup {[id |-> NoId, datapath |-> path] :
                d \in {d \in FolderAt(tree, path) : d.datapath = NoDatapath}}

\* jfs_file_unlink of a dynamic path.  The file goes out of the hierarchy first, and is
\* not listed any more if the rest fails.
UnlinkDynamic(path) ==
  /\ Alone
  /\ ~Real(path) /\ FileAt(tree, path) # {}
  /\ \E f \in Items(path) :
       LET filled == Filled(cache, {f})
           after == Unlisted([tree |-> tree, cache |-> filled], path)
           others == [filled EXCEPT ![f.id] = SubSeq(@, 2, Len(@))]
       IN  /\ tree' = after.tree
           /\ cache' = after.cache
           /\ shown' = shown \ {[path |-> path, id |-> f.id]}
           /\ \/ /\ Erase(f.datapath)
                 /\ stale' = Outdated(others, {db.links[f.datapath]})
              \/ UNCHANGED files /\ stale' = Outdated(others, {})
  /\ UNCHANGED requests

\* The kernel finds the folder of a new name, and no folder at it.
MayName(to) ==
  \/ Real(to)
  \/ /\ to \in Places \/ \E d \in FolderAt(tree, Front(to)) : d.datapath # NoDatapath
     /\ \A d \in FolderAt(tree, to) : d.datapath = NoDatapath

\* jfs_file_do_rename: the transaction, then rename(2), which needs a directory to put
\* the file in.
Store(old, new) ==
  /\ CanRename(db, old, new, Real(new))
  /\ db' = RenameFile(db, old, new, Real(new))

Placed(old, new) ==
  /\ Real(old) /\ new \in Places
  /\ disk' = (disk \ {old}) \cup {new}

\* <to> is dynamic when it is listed, or a name in the dynamic folder of <from>.
PathDynamic(to) == ~Real(to) /\ Items(to) # {}
Beside(from, to) == ~Real(from) /\ Front(to) = Front(from)
ToDynamic(from, to) == PathDynamic(to) \/ Beside(from, to)

\* jfs_file_rename of a static path to what is not dynamic.  A name that is new in a
\* listed folder is taken as it is: its row is moved, and the file is not.
RenameStatic(p, q) ==
  /\ Alone
  /\ p # q /\ Real(p) /\ ~ToDynamic(p, q) /\ MayName(q)
  /\ Store(p, q)
  /\ UNCHANGED disk \/ Placed(p, q)
  /\ stale' = Outdated(cache, {db.links[p], db.links[q]})
  /\ UNCHANGED <<tree, cache, requests, shown>>

\* The path <to> is renamed to.  A name in the same folder is put beside the file.
Targets(from, to, s) ==
  CASE PathDynamic(to) -> {x.datapath : x \in Items(to)}
    [] ~PathDynamic(to) /\ Beside(from, to) -> {Append(Front(s.datapath), Last(to))}
    [] OTHER -> {to}

\* jfs_file_rename when one path is dynamic.  What becomes of <to> in hierarchy and cache
\* is the jfs_id and the old path of <from>.  When rename(2) fails all of that is left
\* out, but the row has moved.
RenameDynamic(from, to) ==
  /\ Alone
  /\ from # to /\ (~Real(from) \/ ToDynamic(from, to)) /\ MayName(to)
  /\ \E s \in Items(from) : \E d \in Targets(from, to, s) :
       LET resolved == [tree |-> tree, cache |-> Filled(cache, {s} \cup Items(to))]
           gone == IF Real(from) THEN resolved ELSE Unlisted(resolved, from)
           free == Unlisted(gone, to)
           ids == {db.links[s.datapath], db.links[d], s.id}
       IN  /\ Store(s.datapath, d)
           /\ \/ /\ tree' = tree /\ cache' = resolved.cache
                 /\ UNCHANGED <<disk, shown>>
              \/ /\ Placed(s.datapath, d)
                 /\ shown' = {x \in shown : x.path \notin {from, to}}
                 /\ \/ /\ ~ToDynamic(from, to)
                       /\ tree' = gone.tree /\ cache' = gone.cache
                    \/ /\ ToDynamic(from, to)
                       /\ tree' = AddFile(free.tree, to, s.id)
                       /\ cache' = Put(Dropped(free.cache, s.id), s.id, s.datapath)
           /\ stale' = Outdated(cache', ids)
  /\ UNCHANGED requests

\* Unmounting destroys hierarchy and cache; joinfs.db stays.
Remount ==
  /\ Alone
  /\ tree' = EmptyHierarchy
  /\ cache' = [i \in 0..MaxId |-> <<>>]
  /\ shown' = {} /\ stale' = {}
  /\ UNCHANGED <<files, requests>>

-------------------------------------------------------------------------------
Step(t) ==
  \/ List(t) \/ InvalidateFolder(t) \/ AddListed(t) \/ Query(t)
  \/ FolderRow(t) \/ FileRow(t) \/ SkipRow(t) \/ Listed(t)
  \/ Resolve(t) \/ Lookup(t) \/ Read(t) \/ Uncache(t) \/ Cache(t) \/ Fails(t)

Next ==
  \/ \E t \in Threads : Step(t)
  \/ \E p \in Places : CreateFile(p) \/ UnlinkStatic(p)
  \/ \E p \in Paths : UnlinkDynamic(p)
  \/ \E p, q \in Paths : RenameStatic(p, q) \/ RenameDynamic(p, q)
  \/ Remount

Spec == Init /\ [][Next]_vars

-------------------------------------------------------------------------------
(* Properties.                                                                *)

\* Type invariant: the nodes of a name are numbered without gaps.
TypeOK ==
  /\ db.links \in [Paths -> 0..MaxId] /\ disk \subseteq Places
  /\ \A nodes \in {tree.folders, tree.files} : \A n \in nodes :
       /\ n.nth \in 1..Copies(nodes, n.in, n.name)
       /\ n.in # <<>> => \E d \in tree.folders : At(d) = n.in
  /\ cache \in [0..MaxId -> Seq(Paths)]
  /\ pc \in [Threads -> {"idle", "invalidate", "add", "query", "row", "lookup", "read",
                         "uncache", "cache"}]
  /\ folder \in [Threads -> Folders \cup {NoFolder}]
  /\ \A t \in Threads : cur[t].id \in 0..MaxId /\ cur[t].datapath \in Paths \cup {NoDatapath}
  /\ disturbed \subseteq Threads /\ stale \subseteq 0..MaxId

\* What was listed can be found: at the path of a folder that was shown there is a
\* folder with its real directory, however deep it is nested, at the path of a file one
\* of the files shown under that name.  Listing other folders and resolving at the same
\* time does not change it, unless one of them is around the folder listed, or inside one
\* that lists files.
ListedFound ==
  \A s \in shown :
    IF s.id = NoId
      THEN \E d \in FolderAt(tree, s.path) : d.datapath = Datapath(s.path)
      ELSE \E f \in FileAt(tree, s.path) : [path |-> s.path, id |-> f.id] \in shown

\* The cache answers a jfs_id with the path its row has, unless the row went or moved
\* while the jfs_id was cached.  The request that moves it does not put that right: a
\* static path says nothing of its jfs_id, a rename that fails on the disk has moved the
\* row, and one to a dynamic name caches the jfs_id under its old path itself.
CacheCurrent ==
  \A i \in 1..MaxId \ stale : \A k \in DOMAIN cache[i] : db.links[cache[i][k]] = i

\* Threads that race to cache a file may enter it twice, but no more often than there
\* are threads.
CacheBounded == \A i \in 0..MaxId : Len(cache[i]) <= Cardinality(Threads)
===============================================================================
