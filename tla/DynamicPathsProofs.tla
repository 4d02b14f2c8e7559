-------------------------- MODULE DynamicPathsProofs --------------------------
(***************************************************************************)
(* Proofs about dynamic folders and the cache of datapaths, for any        *)
(* threads, folders and files.  Whatever lists, resolves, comes, goes and  *)
(* moves meanwhile, the entries of the cache stay few and right and what   *)
(* was listed is found, but for what the histories name.                   *)
(***************************************************************************)
EXTENDS DynamicPaths, JfsDatabaseProofs, HierarchyProofs

\* Where a thread can be.
Points == {"idle", "invalidate", "add", "query", "row", "lookup", "read", "uncache", "cache"}

\* A hierarchy: a tree with the jfs_ids of files.
HierarchyOK(h) == Shape(h) /\ \A f \in h.files : f.id \in 0..MaxId

Caches == [0..MaxId -> Seq(Paths)]

\* Every entry of a list is one of another, and there are no more of them.
Within(s, u) == Len(s) <= Len(u) /\ \A k \in 1..Len(s) : \E j \in 1..Len(u) : s[k] = u[j]

-------------------------------------------------------------------------------
(* Lists of datapaths.                                                        *)

LEMMA Constants ==
  /\ MaxId \in Nat /\ IsFiniteSet(Keys) /\ IsFiniteSet(Threads)
  /\ Cardinality(Threads) \in Nat \ {0}
  /\ NoFolder \notin Folders /\ NoFolder \notin OfFiles /\ NoFolder \notin OfFolders
  /\ OfFolders \cap OfFiles = {}
  /\ Paths \subseteq Seq(Names) /\ Folders \subseteq Seq(Names) /\ Values \subseteq Names
  /\ \A p \in Paths : Len(p) > 1
  /\ Places \subseteq Paths /\ ListedPaths \subseteq Paths
  /\ \A p, q \in Paths : Append(Front(p), Last(q)) \in Paths
<1>1. Cardinality(Threads) \in Nat /\ Cardinality(Threads) # 0
  BY DynamicAssumption, FS_CardinalityType, FS_EmptySet
<1> QED BY <1>1, DynamicAssumption DEF Folders

LEMMA WithinRefl ==
  ASSUME NEW s \in Seq(Paths)
  PROVE  Within(s, s)
<1>1. Len(s) \in Nat
  BY LenProperties
<1> QED BY <1>1 DEF Within

LEMMA WithinTransitive ==
  ASSUME NEW s \in Seq(Paths), NEW u \in Seq(Paths), NEW v \in Seq(Paths),
         Within(s, u), Within(u, v)
  PROVE  Within(s, v)
<1>1. Len(s) \in Nat /\ Len(u) \in Nat /\ Len(v) \in Nat
  BY LenProperties
<1>2. ASSUME NEW k \in 1..Len(s) PROVE \E j \in 1..Len(v) : s[k] = v[j]
  BY <1>2 DEF Within
<1> QED BY <1>1, <1>2 DEF Within

\* What is left of a list when the first of its entries are removed.
LEMMA RestWithin ==
  ASSUME NEW s \in Seq(Paths), NEW n \in Nat
  PROVE  /\ SubSeq(s, n + 1, Len(s)) \in Seq(Paths)
         /\ Within(SubSeq(s, n + 1, Len(s)), s)
         /\ Len(SubSeq(s, n + 1, Len(s))) = IF n < Len(s) THEN Len(s) - n ELSE 0
<1>1. Len(s) \in Nat
  BY LenProperties
<1> DEFINE u == SubSeq(s, n + 1, Len(s))
<1>2. CASE n < Len(s)
  <2>1. /\ u \in Seq(Paths) /\ Len(u) = Len(s) - n
        /\ \A i \in 1..Len(s) - n : u[i] = s[n + i]
    BY <1>1, <1>2
  <2> HIDE DEF u
  <2>2. \A k \in 1..Len(u) : n + k \in 1..Len(s) /\ u[k] = s[n + k]
    BY <1>1, <1>2, <2>1
  <2> QED BY <1>1, <1>2, <2>1, <2>2 DEF Within, u
<1>3. CASE ~(n < Len(s))
  <2>1. u = <<>>
    BY <1>1, <1>3
  <2> QED BY <1>1, <1>3, <2>1 DEF Within
<1> QED BY <1>2, <1>3

-------------------------------------------------------------------------------
(* The operators on the cache.                                                *)

LEMMA DroppedFacts ==
  ASSUME NEW c \in Caches, NEW id \in 0..MaxId
  PROVE  /\ Dropped(c, id) \in Caches
         /\ \A i \in 0..MaxId : i # id => Dropped(c, id)[i] = c[i]
         /\ \A i \in 0..MaxId : Within(Dropped(c, id)[i], c[i])
         /\ c[id] = <<>> => Dropped(c, id)[id] = <<>>
         /\ c[id] # <<>> => Len(Dropped(c, id)[id]) = Len(c[id]) - 1
<1> DEFINE e == Dropped(c, id)
           rest == IF c[id] = <<>> THEN <<>> ELSE Tail(c[id])
<1>1. c[id] \in Seq(Paths) /\ Len(c[id]) \in Nat
  BY LenProperties DEF Caches
<1>2. /\ rest \in Seq(Paths) /\ Within(rest, c[id])
      /\ c[id] = <<>> => rest = <<>>
      /\ c[id] # <<>> => Len(rest) = Len(c[id]) - 1
  <2>1. CASE c[id] = <<>>
    <3>1. rest = c[id]
      BY <2>1
    <3> HIDE DEF rest
    <3> QED BY <1>1, <2>1, <3>1, WithinRefl
  <2>2. CASE c[id] # <<>>
    <3>1. rest = SubSeq(c[id], 1 + 1, Len(c[id])) /\ Len(c[id]) >= 1
      BY <1>1, <2>2, TailIsSubSeq, EmptySeq
    <3> HIDE DEF rest
    <3>2. /\ rest \in Seq(Paths) /\ Within(rest, c[id])
          /\ Len(rest) = IF 1 < Len(c[id]) THEN Len(c[id]) - 1 ELSE 0
      BY <1>1, <3>1, RestWithin
    <3> QED BY <1>1, <2>2, <3>1, <3>2
  <2> QED BY <2>1, <2>2
<1>3. e = [c EXCEPT ![id] = rest]
  BY DEF Dropped
<1> HIDE DEF rest, e
<1>4. e \in Caches /\ e[id] = rest /\ \A i \in 0..MaxId : i # id => e[i] = c[i]
  BY <1>2, <1>3 DEF Caches
<1>5. \A i \in 0..MaxId : Within(e[i], c[i])
  BY <1>2, <1>4, WithinRefl DEF Caches
<1> QED BY <1>2, <1>4, <1>5 DEF e

LEMMA PutFacts ==
  ASSUME NEW c \in Caches, NEW id \in 0..MaxId, NEW p \in Paths
  PROVE  /\ Put(c, id, p) \in Caches
         /\ \A i \in 0..MaxId : i # id => Put(c, id, p)[i] = c[i]
         /\ Len(Put(c, id, p)[id]) = Len(c[id]) + 1
         /\ \A k \in 1..Len(Put(c, id, p)[id]) :
              \/ Put(c, id, p)[id][k] = p
              \/ \E j \in 1..Len(c[id]) : Put(c, id, p)[id][k] = c[id][j]
<1> DEFINE e == Put(c, id, p)
           list == <<p>> \o c[id]
<1>1. c[id] \in Seq(Paths) /\ Len(c[id]) \in Nat /\ <<p>> \in Seq(Paths) /\ Len(<<p>>) = 1
  BY LenProperties DEF Caches
<1>2. /\ list \in Seq(Paths) /\ Len(list) = Len(c[id]) + 1
      /\ \A k \in 1..Len(list) : list[k] = IF k = 1 THEN p ELSE c[id][k - 1]
  <2>1. /\ list \in Seq(Paths) /\ Len(list) = Len(<<p>>) + Len(c[id])
        /\ \A k \in 1..Len(<<p>>) + Len(c[id]) :
             list[k] = IF k <= Len(<<p>>) THEN <<p>>[k] ELSE c[id][k - Len(<<p>>)]
    BY <1>1, ConcatProperties
  <2> HIDE DEF list
  <2> QED BY <1>1, <2>1
<1>3. e = [c EXCEPT ![id] = list]
  BY DEF Put
<1> HIDE DEF list, e
<1>4. e \in Caches /\ e[id] = list /\ \A i \in 0..MaxId : i # id => e[i] = c[i]
  BY <1>2, <1>3 DEF Caches
<1>5. ASSUME NEW k \in 1..Len(list)
      PROVE  list[k] = p \/ \E j \in 1..Len(c[id]) : list[k] = c[id][j]
  <2>1. CASE k = 1
    BY <1>2, <2>1
  <2>2. CASE k # 1
    <3>1. k - 1 \in 1..Len(c[id]) /\ list[k] = c[id][k - 1]
      BY <1>1, <1>2, <2>2
    <3> QED BY <3>1
  <2> QED BY <2>1, <2>2
<1> QED BY <1>2, <1>4, <1>5 DEF e

\* A miss fills in what the database has for the jfs_id.
LEMMA FilledFacts ==
  ASSUME NEW c \in Caches, NEW items, \A x \in items : x.datapath \in Paths
  PROVE  /\ Filled(c, items) \in Caches
         /\ \A i \in 0..MaxId :
              \/ Filled(c, items)[i] = c[i]
              \/ /\ c[i] = <<>> /\ i # NoId
                 /\ \E x \in items : x.id = i /\ Filled(c, items)[i] = <<x.datapath>>
<1> DEFINE e == Filled(c, items)
           found(i) == CHOOSE x \in items : x.id = i
<1>1. DOMAIN c = 0..MaxId
  BY DEF Caches
<1>2. e = [i \in 0..MaxId |-> IF c[i] = <<>> /\ i # NoId /\ \E x \in items : x.id = i
                                THEN <<found(i).datapath>> ELSE c[i]]
  BY <1>1 DEF Filled
<1> HIDE DEF e
<1>3. ASSUME NEW i \in 0..MaxId, \E x \in items : x.id = i
      PROVE  found(i) \in items /\ found(i).id = i
  BY <1>3
<1> HIDE DEF found
<1>4. ASSUME NEW i \in 0..MaxId
      PROVE  \/ e[i] = c[i]
             \/ /\ c[i] = <<>> /\ i # NoId
                /\ \E x \in items : x.id = i /\ e[i] = <<x.datapath>>
  BY <1>2, <1>3
<1>5. ASSUME NEW i \in 0..MaxId PROVE e[i] \in Seq(Paths)
  <2>1. CASE e[i] = c[i]
    BY <2>1 DEF Caches
  <2>2. CASE \E x \in items : e[i] = <<x.datapath>>
    <3>1. PICK x \in items : e[i] = <<x.datapath>>
      BY <2>2
    <3>2. x.datapath \in Paths
      OBVIOUS
    <3> QED BY <3>1, <3>2
  <2> QED BY <1>4, <2>1, <2>2
<1>6. e \in Caches
  BY <1>2, <1>5 DEF Caches
<1> QED BY <1>4, <1>6 DEF e

\* jfs_dynamic_hierarchy_unlink only takes away.
LEMMA UnlistedFacts ==
  ASSUME NEW s, NEW path, s.cache \in Caches, HierarchyOK(s.tree)
  PROVE  /\ Unlisted(s, path).cache \in Caches
         /\ \A i \in 0..MaxId : Within(Unlisted(s, path).cache[i], s.cache[i])
         /\ \A f \in FileAt(s.tree, path) :
              Unlisted(s, path).cache[f.id] = Dropped(s.cache, f.id)[f.id]
         /\ HierarchyOK(Unlisted(s, path).tree)
<1> DEFINE c == s.cache
           e == Unlisted(s, path).cache
           h == Unlisted(s, path).tree
           gone(i) == \E f \in FileAt(s.tree, path) : f.id = i
<1>1. e = [i \in 0..MaxId |-> IF gone(i) THEN Dropped(c, i)[i] ELSE c[i]]
  BY DEF Unlisted, Caches
<1>2. h = [s.tree EXCEPT !.files = s.tree.files \ FileAt(s.tree, path)]
  BY DEF Unlisted, RemoveFile
<1>3. \A f \in FileAt(s.tree, path) : f \in s.tree.files
  BY DEF FileAt, Reached
<1>4. c \in Caches
  OBVIOUS
<1> HIDE DEF c, e, h
<1>5. \A i \in 0..MaxId : e[i] \in Seq(Paths) /\ Within(e[i], c[i])
  <2>1. SUFFICES ASSUME NEW i \in 0..MaxId PROVE e[i] \in Seq(Paths) /\ Within(e[i], c[i])
    OBVIOUS
  <2>2. c[i] \in Seq(Paths) /\ Within(c[i], c[i])
    BY <1>4, WithinRefl DEF Caches
  <2>3. Dropped(c, i)[i] \in Seq(Paths) /\ Within(Dropped(c, i)[i], c[i])
    BY <1>4, DroppedFacts DEF Caches
  <2> QED BY <1>1, <2>2, <2>3
<1>6. e \in Caches
  BY <1>1, <1>5 DEF Caches
<1>7. \A f \in FileAt(s.tree, path) : e[f.id] = Dropped(c, f.id)[f.id]
  BY <1>1, <1>3 DEF HierarchyOK
<1>8. HierarchyOK(h)
  <2>1. Shape(h)
    BY RemoveFileShape DEF h, Unlisted, HierarchyOK
  <2>2. h.files \subseteq s.tree.files
    <3> DEFINE others == s.tree.files \ FileAt(s.tree, path)
    <3>1. s.tree = [folders |-> s.tree.folders, files |-> s.tree.files]
      BY DEF HierarchyOK, Shape
    <3>2. h = [s.tree EXCEPT !.files = others]
      BY <1>2
    <3> HIDE DEF others
    <3>3. h.files = others
      BY <3>1, <3>2
    <3> QED BY <3>3 DEF others
  <2> QED BY <2>1, <2>2 DEF HierarchyOK
<1> QED BY <1>5, <1>6, <1>7, <1>8 DEF c, e, h

LEMMA AddFolderOK ==
  ASSUME NEW h, HierarchyOK(h), NEW path \in Seq(Names), path # <<>>, NEW datapath
  PROVE  HierarchyOK(AddFolder(h, path, datapath))
<1>1. /\ Shape(AddFolder(h, path, datapath))
      /\ AddFolder(h, path, datapath).files = h.files
  BY AddFolderShape DEF HierarchyOK
<1> QED BY <1>1 DEF HierarchyOK

LEMMA AddFileOK ==
  ASSUME NEW h, HierarchyOK(h), NEW path \in Seq(Names), path # <<>>, NEW id \in 0..MaxId
  PROVE  HierarchyOK(AddFile(h, path, id))
<1>1. /\ Shape(AddFile(h, path, id))
      /\ \E n : n.id = id /\ AddFile(h, path, id).files = h.files \cup {n}
  BY AddFileShape DEF HierarchyOK
<1> QED BY <1>1 DEF HierarchyOK

LEMMA InvalidateOK ==
  ASSUME NEW h, HierarchyOK(h), NEW path
  PROVE  HierarchyOK(Invalidate(h, path))
<1>1. Shape(Invalidate(h, path))
  BY InvalidateShape DEF HierarchyOK
<1>2. Invalidate(h, path).files \subseteq h.files
  BY DEF Invalidate
<1> QED BY <1>1, <1>2 DEF HierarchyOK

-------------------------------------------------------------------------------
(* The invariant: what is in memory and in hand has the right kind, and a     *)
(* thread holds the path of the file whose jfs_id it holds.                   *)

Typed ==
  /\ db \in Databases(MaxId) /\ disk \subseteq Places
  /\ HierarchyOK(tree) /\ cache \in Caches
  /\ pc \in [Threads -> Points]
  /\ folder \in [Threads -> Folders \cup {NoFolder}]
  /\ DOMAIN rows = Threads /\ \A t \in Threads : \A r \in rows[t] : r.name \in Names
  /\ cur \in [Threads -> [id : 0..MaxId, datapath : Paths \cup {NoDatapath}]]
  /\ disturbed \subseteq Threads /\ stale \subseteq 0..MaxId

\* What the query selected is still so: files are renamed and removed when nobody lists.
Linked(r) == r.id \in 1..MaxId /\ r.datapath \in Paths /\ db.links[r.datapath] = r.id

InHand ==
  \A t \in Threads :
    /\ pc[t] = "idle" => folder[t] = NoFolder /\ rows[t] = {}
    /\ pc[t] \in {"invalidate", "add", "query"} => folder[t] # NoFolder
    /\ folder[t] \in OfFiles => \A r \in rows[t] : Linked(r)
    /\ pc[t] \in {"uncache", "cache"} => Linked(cur[t])

\* What a query selected for a jfs_id, or the cache has had for it.
LEMMA ResolvedFacts ==
  ASSUME Typed, NEW i \in 0..MaxId, NEW d \in Resolved(i)
  PROVE  d \in Paths /\ (cache[i] = <<>> => db.links[d] = i)
<1>1. CASE cache[i] = <<>>
  BY <1>1 DEF Resolved, PathsOf
<1>2. CASE cache[i] # <<>>
  <2>1. d = Head(cache[i]) /\ cache[i] \in Seq(Paths)
    BY <1>2 DEF Resolved, Typed, Caches
  <2>2. d \in Paths
    BY <1>2, <2>1, HeadTailProperties
  <2> QED BY <1>2, <2>2
<1> QED BY <1>1, <1>2

LEMMA ItemsFacts ==
  ASSUME Typed, NEW path \in Paths, NEW x \in Items(path)
  PROVE  /\ x.id \in 0..MaxId /\ x.datapath \in Paths
         /\ x.id # NoId /\ cache[x.id] = <<>> => db.links[x.datapath] = x.id
         /\ x.id # NoId => \E f \in FileAt(tree, path) : f.id = x.id
<1>1. CASE Real(path)
  <2>1. x = [id |-> NoId, datapath |-> path]
    BY <1>1 DEF Items
  <2> QED BY <2>1, Constants DEF NoId
<1>2. CASE x = [id |-> NoId, datapath |-> path]
  BY <1>2, Constants DEF NoId
<1>3. CASE ~Real(path) /\ x # [id |-> NoId, datapath |-> path]
  <2> DEFINE found(f) == {[id |-> f.id, datapath |-> d] : d \in Resolved(f.id)}
             all == {found(f) : f \in FileAt(tree, path)}
             made == {[id |-> NoId, datapath |-> path] :
                        d \in {d \in FolderAt(tree, path) : d.datapath = NoDatapath}}
  <2>4. x \in (UNION all) \cup made
    BY <1>3 DEF Items
  <2>5. x \notin made
    BY <1>3
  <2> HIDE DEF made, all
  <2>1. PICK f \in FileAt(tree, path) : \E d \in Resolved(f.id) : x = [id |-> f.id, datapath |-> d]
    <3>1. PICK some \in all : x \in some
      BY <2>4, <2>5
    <3>2. PICK f \in FileAt(tree, path) : some = found(f)
      BY DEF all
    <3> QED BY <3>1, <3>2
  <2>2. PICK d \in Resolved(f.id) : x = [id |-> f.id, datapath |-> d]
    BY <2>1
  <2>3. f.id \in 0..MaxId
    BY DEF FileAt, Reached, Typed, HierarchyOK
  <2> QED BY <2>2, <2>3, ResolvedFacts
<1> QED BY <1>1, <1>2, <1>3

\* A hierarchy that is mounted has nothing in it.
LEMMA EmptyOK ==
  /\ HierarchyOK(EmptyHierarchy)
  /\ [i \in 0..MaxId |-> <<>>] \in Caches
<1>1. EmptyHierarchy.folders = {} /\ EmptyHierarchy.files = {}
      /\ EmptyHierarchy = [folders |-> {}, files |-> {}]
  BY DEF EmptyHierarchy
<1>2. Listing({}, {})
  BY FS_EmptySet DEF Listing, Numbered, Hung
<1>3. Shape(EmptyHierarchy)
  BY <1>1, <1>2 DEF Shape
<1> QED BY <1>1, <1>3 DEF HierarchyOK, Caches

LEMMA TypedInit == Init => Typed /\ InHand
<1>1. EmptyDb \in Databases(MaxId)
  BY EmptySound, Constants DEF Sound
<1>2. Init => Typed
  BY <1>1, EmptyOK, Constants DEF Init, Typed, Points, NoRow, NoId
<1>3. Init => InHand
  BY Constants DEF Init, InHand
<1> QED BY <1>2, <1>3

\* A thread that is done has nothing in hand.
LEMMA ReturnHand ==
  ASSUME Typed, InHand, NEW t \in Threads, Return(t), UNCHANGED <<files, tree, stale>>,
         cache' \in Caches
  PROVE  Typed' /\ InHand'
<1>1. NoRow \in [id : 0..MaxId, datapath : Paths \cup {NoDatapath}]
  BY Constants DEF NoRow, NoId
<1>2. Typed'
  BY <1>1 DEF Typed, Return, Goto, Points, files
<1>3. ASSUME NEW u \in Threads
      PROVE  /\ pc[u]' = "idle" => folder[u]' = NoFolder /\ rows[u]' = {}
             /\ folder[u]' \in OfFiles => \A r \in rows[u]' : Linked(r)'
             /\ pc[u]' \in {"uncache", "cache"} => Linked(cur[u])'
  <2>1. CASE u = t
    BY <2>1, Constants DEF Typed, Return, Goto
  <2>2. CASE u # t
    <3>1. pc'[u] = pc[u] /\ folder'[u] = folder[u] /\ rows'[u] = rows[u] /\ cur'[u] = cur[u]
      BY <2>2 DEF Typed, Return, Goto
    <3> QED BY <3>1 DEF InHand, Linked, files
  <2> QED BY <2>1, <2>2
<1>4. \A u \in Threads : pc[u]' \in {"invalidate", "add", "query"} => folder[u]' # NoFolder
  BY DEF Typed, InHand, Return, Goto
<1> QED BY <1>2, <1>3, <1>4 DEF InHand

\* A thread that goes on: what the others have in hand stays the same.
LEMMA StepHand ==
  ASSUME Typed, InHand, NEW t \in Threads, NEW l \in Points \ {"idle"}, Goto(t, l),
         UNCHANGED db,
         \A u \in Threads \ {t} :
           folder'[u] = folder[u] /\ rows'[u] = rows[u] /\ cur'[u] = cur[u],
         l \in {"invalidate", "add", "query"} => folder'[t] # NoFolder,
         folder'[t] \in OfFiles => \A r \in rows'[t] : Linked(r),
         l \in {"uncache", "cache"} => Linked(cur'[t])
  PROVE  InHand' /\ pc' \in [Threads -> Points]
<1>1. pc' \in [Threads -> Points]
  BY DEF Typed, Goto
<1>2. ASSUME NEW u \in Threads
      PROVE  /\ pc[u]' = "idle" => folder[u]' = NoFolder /\ rows[u]' = {}
             /\ pc[u]' \in {"invalidate", "add", "query"} => folder[u]' # NoFolder
             /\ folder[u]' \in OfFiles => \A r \in rows[u]' : Linked(r)'
             /\ pc[u]' \in {"uncache", "cache"} => Linked(cur[u])'
  <2>1. CASE u = t
    <3>1. pc'[t] = l /\ l # "idle"
      BY DEF Typed, Goto
    <3> QED BY <2>1, <3>1 DEF Linked
  <2>2. CASE u # t
    <3>1. pc'[u] = pc[u] /\ folder'[u] = folder[u] /\ rows'[u] = rows[u] /\ cur'[u] = cur[u]
      BY <2>2 DEF Typed, Goto
    <3> QED BY <3>1 DEF InHand, Linked
  <2> QED BY <2>1, <2>2
<1> QED BY <1>1, <1>2 DEF InHand

LEMMA OutdatedIds ==
  ASSUME Typed, NEW c, NEW ids, ids \subseteq 0..MaxId
  PROVE  Outdated(c, ids) \subseteq 0..MaxId
BY DEF Outdated, Typed

\* The folder a thread lists, and what is in it, have paths to add to the hierarchy.
LEMMA FolderPath ==
  ASSUME Typed, NEW t \in Threads, folder[t] # NoFolder
  PROVE  /\ folder[t] \in Seq(Names) /\ folder[t] # <<>>
         /\ \A name \in Names : /\ Append(folder[t], name) \in Seq(Names)
                               /\ Append(folder[t], name) # <<>>
<1>1. folder[t] \in Seq(Names) /\ folder[t] # <<>>
  BY Constants DEF Typed, NoFolder
<1>2. ASSUME NEW name \in Names
      PROVE  Append(folder[t], name) \in Seq(Names) /\ Append(folder[t], name) # <<>>
  <2> DEFINE s == folder[t]
  <2>1. s \in Seq(Names) /\ Len(s) \in Nat
    BY <1>1, LenProperties
  <2> HIDE DEF s
  <2>2. Append(s, name) \in Seq(Names) /\ Len(Append(s, name)) = Len(s) + 1
    BY <2>1, AppendProperties
  <2>3. Append(s, name) # <<>>
    BY <2>1, <2>2, EmptySeq
  <2> QED BY <2>2, <2>3 DEF s
<1> QED BY <1>1, <1>2

\* The last name of a path that files have.
LEMMA LastName ==
  ASSUME NEW p \in Paths
  PROVE  p \in Seq(Names) /\ Last(p) \in Names
<1>1. p \in Seq(Names) /\ Len(p) > 1 /\ Len(p) \in Nat
  BY Constants, LenProperties
<1>2. Len(p) \in 1..Len(p)
  BY <1>1
<1> QED BY <1>1, <1>2, ElementOfSeq DEF Last

LEMMA ListingTyped ==
  ASSUME Typed, InHand, NEW t \in Threads,
         \/ List(t) \/ InvalidateFolder(t) \/ AddListed(t) \/ Query(t)
  PROVE  Typed' /\ InHand'
<1>1. CASE List(t)
  <2>1. /\ folder' \in [Threads -> Folders \cup {NoFolder}] /\ folder'[t] # NoFolder
        /\ \A u \in Threads \ {t} : folder'[u] = folder[u]
    BY <1>1, Constants DEF List, Typed
  <2>2. Goto(t, "invalidate") /\ "invalidate" \in Points \ {"idle"} /\ rows[t] = {}
    BY <1>1 DEF List, Points, InHand
  <2>3. disturbed' \subseteq Threads
    <3>1. PICK f \in Folders : disturbed' = disturbed
             \cup {u \in Threads : folder[u] # NoFolder /\ Disturbs(f, folder[u])}
             \cup {u \in {t} : \E v \in Threads : folder[v] # NoFolder /\ Disturbs(folder[v], f)}
      BY <1>1, Constants DEF List
    <3> QED BY <3>1 DEF Typed
  <2>4. InHand' /\ pc' \in [Threads -> Points]
    BY <1>1, <2>1, <2>2, StepHand DEF List, files
  <2> QED BY <1>1, <2>1, <2>3, <2>4 DEF List, Typed, files
<1>2. CASE InvalidateFolder(t)
  <2> DEFINE gone == Inside(tree, tree.files, folder[t])
             drops(i) == Cardinality({f \in gone : f.id = i})
  <2>1. \A i : drops(i) \in Nat
    <3>1. IsFiniteSet(tree.files)
      BY DEF Typed, HierarchyOK, Shape, Listing
    <3>2. \A i : {f \in gone : f.id = i} \subseteq tree.files
      BY DEF Inside
    <3> QED BY <3>1, <3>2, FS_Subset, FS_CardinalityType
  <2>2. cache' = [i \in 0..MaxId |-> SubSeq(cache[i], drops(i) + 1, Len(cache[i]))]
    BY <1>2 DEF InvalidateFolder, Typed, Caches
  <2> HIDE DEF drops
  <2>3. cache' \in Caches
    <3>1. \A i \in 0..MaxId : SubSeq(cache[i], drops(i) + 1, Len(cache[i])) \in Seq(Paths)
      BY <2>1, RestWithin DEF Typed, Caches
    <3> QED BY <2>2, <3>1 DEF Caches
  <2>4. HierarchyOK(tree)'
    BY <1>2, InvalidateOK DEF InvalidateFolder, Typed
  <2>5. (stale \subseteq 0..MaxId)'
    BY <1>2, OutdatedIds DEF InvalidateFolder
  <2>6. Goto(t, "add") /\ "add" \in Points \ {"idle"}
    BY <1>2 DEF InvalidateFolder, Points
  <2>7. InHand' /\ pc' \in [Threads -> Points]
    <3>1. /\ folder[t] \in OfFiles => \A r \in rows[t] : Linked(r)
          /\ folder[t] # NoFolder
      BY <1>2 DEF InHand, InvalidateFolder
    <3> QED BY <1>2, <2>6, <3>1, StepHand DEF InvalidateFolder, files
  <2> QED BY <1>2, <2>3, <2>4, <2>5, <2>7 DEF InvalidateFolder, Typed, files
<1>3. CASE AddListed(t)
  <2>1. HierarchyOK(tree)' /\ folder[t] # NoFolder
    <3>1. folder[t] # NoFolder
      BY <1>3 DEF AddListed, InHand
    <3>2. folder[t] \in Seq(Names) /\ folder[t] # <<>>
      BY <3>1, FolderPath
    <3> QED BY <1>3, <3>1, <3>2, AddFolderOK DEF AddListed, Typed
  <2>2. Goto(t, "query") /\ "query" \in Points \ {"idle"}
    BY <1>3 DEF AddListed, Points
  <2>3. InHand' /\ pc' \in [Threads -> Points]
    <3>1. folder[t] \in OfFiles => \A r \in rows[t] : Linked(r)
      BY DEF InHand
    <3> QED BY <1>3, <2>1, <2>2, <3>1, StepHand DEF AddListed, files
  <2> QED BY <1>3, <2>1, <2>3 DEF AddListed, Typed, files
<1>4. CASE Query(t)
  <2>1. Goto(t, "row") /\ "row" \in Points \ {"idle"}
    BY <1>4 DEF Query, Points
  <2>2. PICK selected : rows' = [rows EXCEPT ![t] = selected] /\ \A r \in selected : r.name \in Names
    <3>1. CASE \E ps \in SUBSET {p \in Paths : db.links[p] # NoId} :
                 rows' = [rows EXCEPT ![t] = {Row(Last(p), db.links[p], p) : p \in ps}]
      <4>1. PICK ps \in SUBSET {p \in Paths : db.links[p] # NoId} :
               rows' = [rows EXCEPT ![t] = {Row(Last(p), db.links[p], p) : p \in ps}]
        BY <3>1
      <4> DEFINE some == {Row(Last(p), db.links[p], p) : p \in ps}
      <4>2. \A r \in some : r.name \in Names
        BY LastName DEF Row
      <4>3. rows' = [rows EXCEPT ![t] = some]
        BY <4>1
      <4> HIDE DEF some
      <4> QED BY <4>2, <4>3
    <3>2. CASE \E vs \in SUBSET Values : rows' = [rows EXCEPT ![t] =
                 {Row(v, NoId, Append(Datapath(folder[t]), SubQuery)) : v \in vs}]
      <4>1. PICK vs \in SUBSET Values : rows' = [rows EXCEPT ![t] =
                 {Row(v, NoId, Append(Datapath(folder[t]), SubQuery)) : v \in vs}]
        BY <3>2
      <4> DEFINE some == {Row(v, NoId, Append(Datapath(folder[t]), SubQuery)) : v \in vs}
      <4>2. \A r \in some : r.name \in Names
        BY Constants DEF Row
      <4>3. rows' = [rows EXCEPT ![t] = some]
        BY <4>1
      <4> HIDE DEF some
      <4> QED BY <4>2, <4>3
    <3> QED BY <1>4, <3>1, <3>2 DEF Query
  <2>3. /\ DOMAIN rows' = Threads /\ \A u \in Threads \ {t} : rows'[u] = rows[u]
        /\ \A u \in Threads : \A r \in rows'[u] : r.name \in Names
    BY <2>2 DEF Typed
  <2>4. folder[t] \in OfFiles => \A r \in rows'[t] : Linked(r)
    <3>1. ASSUME folder[t] \in OfFiles, NEW r \in rows'[t] PROVE Linked(r)
      <4>1. PICK ps \in SUBSET {p \in Paths : db.links[p] # NoId} :
               rows' = [rows EXCEPT ![t] = {Row(Last(p), db.links[p], p) : p \in ps}]
        BY <1>4, <3>1, Constants DEF Query
      <4>2. PICK p \in ps : r = Row(Last(p), db.links[p], p)
        BY <3>1, <4>1 DEF Typed
      <4>3. r.id = db.links[p] /\ r.datapath = p /\ p \in Paths /\ db.links[p] # NoId
        BY <4>1, <4>2 DEF Row
      <4>4. db.links \in [Paths -> 0..MaxId]
        BY DEF Typed, Databases
      <4> QED BY <4>3, <4>4, Constants DEF Linked, NoId
    <3> QED BY <3>1
  <2>5. InHand' /\ pc' \in [Threads -> Points]
    BY <1>4, <2>1, <2>3, <2>4, StepHand DEF Query, files
  <2> QED BY <1>4, <2>3, <2>5 DEF Query, Typed, files
<1> QED BY <1>1, <1>2, <1>3, <1>4

LEMMA RowsTyped ==
  ASSUME Typed, InHand, NEW t \in Threads,
         FolderRow(t) \/ FileRow(t) \/ SkipRow(t) \/ Listed(t)
  PROVE  Typed' /\ InHand'
<1>1. CASE FolderRow(t)
  <2>1. PICK r \in rows[t] :
           /\ tree' = AddFolder(tree, Append(folder[t], r.name), r.datapath)
           /\ rows' = [rows EXCEPT ![t] = @ \ {r}]
    BY <1>1 DEF FolderRow
  <2>2. HierarchyOK(tree)'
    <3> DEFINE path == Append(folder[t], r.name)
    <3>1. folder[t] # NoFolder /\ r.name \in Names
      BY <1>1, Constants DEF FolderRow, Typed
    <3>2. path \in Seq(Names) /\ path # <<>>
      BY <3>1, FolderPath
    <3>3. tree' = AddFolder(tree, path, r.datapath) /\ HierarchyOK(tree)
      BY <2>1 DEF Typed
    <3> HIDE DEF path
    <3> QED BY <3>2, <3>3, AddFolderOK
  <2>3. DOMAIN rows' = Threads /\ \A u \in Threads : rows'[u] \subseteq rows[u]
    BY <2>1 DEF Typed
  <2>4. InHand'
    <3>1. \A u \in Threads : rows'[u] \subseteq rows[u]
      BY <2>1 DEF Typed
    <3>2. \A u \in Threads : folder[u] \in OfFiles => \A x \in rows'[u] : Linked(x)
      BY <3>1 DEF InHand
    <3>3. /\ UNCHANGED <<db, pc, folder, cur>>
      BY <1>1 DEF FolderRow, files
    <3> QED BY <3>1, <3>2, <3>3 DEF InHand, Linked
  <2> QED BY <1>1, <2>2, <2>3, <2>4 DEF FolderRow, Typed, files
<1>2. CASE FileRow(t)
  <2>1. PICK r \in rows[t] :
           /\ tree' = AddFile(tree, Append(folder[t], r.name), r.id)
           /\ rows' = [rows EXCEPT ![t] = @ \ {r}]
           /\ cur' = [cur EXCEPT ![t] = [id |-> r.id, datapath |-> r.datapath]]
    BY <1>2 DEF FileRow
  <2>2. Linked(r) /\ \A x \in rows[t] : Linked(x)
    BY <1>2 DEF FileRow, InHand
  <2>3. r.id \in 0..MaxId /\ r.datapath \in Paths
    BY <2>2, Constants DEF Linked
  <2>4. HierarchyOK(tree)'
    <3> DEFINE path == Append(folder[t], r.name)
    <3>1. folder[t] # NoFolder /\ r.name \in Names
      BY <1>2, Constants DEF FileRow, Typed
    <3>2. path \in Seq(Names) /\ path # <<>>
      BY <3>1, FolderPath
    <3>3. tree' = AddFile(tree, path, r.id) /\ HierarchyOK(tree)
      BY <2>1 DEF Typed
    <3> HIDE DEF path
    <3> QED BY <2>3, <3>2, <3>3, AddFileOK
  <2>5. /\ DOMAIN rows' = Threads /\ rows'[t] \subseteq rows[t]
        /\ \A u \in Threads \ {t} : rows'[u] = rows[u]
    BY <2>1 DEF Typed
  <2>6. /\ cur' \in [Threads -> [id : 0..MaxId, datapath : Paths \cup {NoDatapath}]]
        /\ cur'[t] = [id |-> r.id, datapath |-> r.datapath]
        /\ \A u \in Threads \ {t} : cur'[u] = cur[u]
    BY <2>1, <2>3 DEF Typed
  <2>7. Goto(t, "uncache") /\ "uncache" \in Points \ {"idle"}
    BY <1>2 DEF FileRow, Points
  <2>8. /\ Linked(cur'[t])
        /\ \A x \in rows'[t] : Linked(x)
    BY <2>2, <2>5, <2>6 DEF Linked
  <2>9. InHand' /\ pc' \in [Threads -> Points]
    BY <1>2, <2>5, <2>6, <2>7, <2>8, StepHand DEF FileRow, files
  <2> QED BY <1>2, <2>4, <2>5, <2>6, <2>9 DEF FileRow, Typed, files
<1>3. CASE SkipRow(t)
  <2>1. PICK r \in rows[t] : rows' = [rows EXCEPT ![t] = @ \ {r}]
    BY <1>3 DEF SkipRow
  <2>2. DOMAIN rows' = Threads /\ \A u \in Threads : rows'[u] \subseteq rows[u]
    BY <2>1 DEF Typed
  <2>3. UNCHANGED <<db, disk, tree, cache, pc, folder, cur, disturbed, stale>>
    BY <1>3 DEF SkipRow, files
  <2>4. \A u \in Threads : folder[u] \in OfFiles => \A x \in rows'[u] : Linked(x)
    BY <2>2 DEF InHand
  <2>5. InHand'
    BY <2>2, <2>3, <2>4 DEF InHand, Linked
  <2> QED BY <2>2, <2>3, <2>5 DEF Typed
<1>4. CASE Listed(t)
  <2>1. Return(t) /\ UNCHANGED <<files, tree, cache, stale>>
    BY <1>4 DEF Listed
  <2>2. cache' \in Caches
    BY <2>1 DEF Typed
  <2> QED BY <2>1, <2>2, ReturnHand
<1> QED BY <1>1, <1>2, <1>3, <1>4

LEMMA ResolvingTyped ==
  ASSUME Typed, InHand, NEW t \in Threads,
         Resolve(t) \/ Lookup(t) \/ Read(t) \/ Uncache(t) \/ Cache(t) \/ Fails(t)
  PROVE  Typed' /\ InHand'
<1>1. folder[t] \in OfFiles => \A r \in rows[t] : Linked(r)
  BY DEF InHand
<1>2. cur[t] \in [id : 0..MaxId, datapath : Paths \cup {NoDatapath}] /\ cache \in Caches
  BY DEF Typed
<1>3. CASE Resolve(t)
  <2>1. PICK p \in ListedPaths : \E f \in FileAt(tree, p) : cur' = [cur EXCEPT ![t].id = f.id]
    BY <1>3 DEF Resolve
  <2>2. PICK f \in FileAt(tree, p) : cur' = [cur EXCEPT ![t].id = f.id]
    BY <2>1
  <2>3. f.id \in 0..MaxId
    BY DEF FileAt, Reached, Typed, HierarchyOK
  <2>4. /\ cur' \in [Threads -> [id : 0..MaxId, datapath : Paths \cup {NoDatapath}]]
        /\ \A u \in Threads \ {t} : cur'[u] = cur[u]
    BY <2>2, <2>3 DEF Typed
  <2>5. Goto(t, "lookup") /\ "lookup" \in Points \ {"idle"}
    BY <1>3 DEF Resolve, Points
  <2>6. InHand' /\ pc' \in [Threads -> Points]
    BY <1>1, <1>3, <2>4, <2>5, StepHand DEF Resolve, files
  <2> QED BY <1>3, <2>4, <2>6 DEF Resolve, Typed, files
<1>4. CASE Lookup(t)
  <2>1. UNCHANGED <<files, tree, cache, stale>>
    BY <1>4 DEF Lookup
  <2>2. CASE Return(t)
    BY <1>2, <2>1, <2>2, ReturnHand
  <2>3. CASE Goto(t, "read") /\ UNCHANGED <<folder, rows, cur, disturbed>>
    <3>1. "read" \in Points \ {"idle"}
      BY DEF Points
    <3>2. InHand' /\ pc' \in [Threads -> Points]
      BY <1>1, <2>1, <2>3, <3>1, StepHand DEF files
    <3> QED BY <2>1, <2>3, <3>2 DEF Typed, files
  <2> QED BY <1>4, <2>2, <2>3 DEF Lookup
<1>5. CASE Read(t)
  <2>1. PICK p \in PathsOf(cur[t].id) : cur' = [cur EXCEPT ![t].datapath = p]
    BY <1>5 DEF Read
  <2>2. p \in Paths /\ db.links[p] = cur[t].id /\ cur[t].id # NoId
    BY DEF PathsOf
  <2>3. /\ cur' \in [Threads -> [id : 0..MaxId, datapath : Paths \cup {NoDatapath}]]
        /\ \A u \in Threads \ {t} : cur'[u] = cur[u]
        /\ cur'[t].id = cur[t].id /\ cur'[t].datapath = p
    BY <1>2, <2>1, <2>2 DEF Typed
  <2>4. Linked(cur'[t])
    BY <1>2, <2>2, <2>3, Constants DEF Linked, NoId
  <2>5. Goto(t, "uncache") /\ "uncache" \in Points \ {"idle"}
    BY <1>5 DEF Read, Points
  <2>6. InHand' /\ pc' \in [Threads -> Points]
    BY <1>1, <1>5, <2>3, <2>4, <2>5, StepHand DEF Read, files
  <2> QED BY <1>5, <2>3, <2>6 DEF Read, Typed, files
<1>6. CASE Uncache(t)
  <2>1. cache' \in Caches
    BY <1>2, <1>6, DroppedFacts DEF Uncache
  <2>2. (stale \subseteq 0..MaxId)'
    BY <1>6, OutdatedIds DEF Uncache
  <2>3. Goto(t, "cache") /\ "cache" \in Points \ {"idle"} /\ Linked(cur[t])
    BY <1>6 DEF Uncache, Points, InHand
  <2>4. InHand' /\ pc' \in [Threads -> Points]
    BY <1>1, <1>6, <2>3, StepHand DEF Uncache, files
  <2> QED BY <1>6, <2>1, <2>2, <2>4 DEF Uncache, Typed, files
<1>7. CASE Cache(t)
  <2>1. Linked(cur[t])
    BY <1>7 DEF Cache, InHand
  <2>2. cache' \in Caches
    BY <1>2, <1>7, <2>1, PutFacts DEF Cache, Linked
  <2>3. UNCHANGED <<files, tree, stale>>
    BY <1>7 DEF Cache
  <2>4. CASE Return(t)
    BY <2>2, <2>3, <2>4, ReturnHand
  <2>5. CASE /\ cur' = [cur EXCEPT ![t] = NoRow] /\ Goto(t, "row")
             /\ UNCHANGED <<folder, rows, disturbed>>
    <3>1. "row" \in Points \ {"idle"}
      BY DEF Points
    <3>2. /\ cur' \in [Threads -> [id : 0..MaxId, datapath : Paths \cup {NoDatapath}]]
          /\ \A u \in Threads \ {t} : cur'[u] = cur[u]
      BY <2>5, Constants DEF Typed, NoRow, NoId
    <3>3. InHand' /\ pc' \in [Threads -> Points]
      BY <1>1, <2>3, <2>5, <3>1, <3>2, StepHand DEF files
    <3> QED BY <2>2, <2>3, <2>5, <3>2, <3>3 DEF Typed, files
  <2> QED BY <1>7, <2>4, <2>5 DEF Cache
<1>8. CASE Fails(t)
  BY <1>2, <1>8, ReturnHand DEF Fails
<1> QED BY <1>3, <1>4, <1>5, <1>6, <1>7, <1>8

-------------------------------------------------------------------------------
(* What requests that change files do to the cache.                           *)

\* A list of the cache that has only the path of its file.
Right(d, c, i) == \A k \in 1..Len(c[i]) : d.links[c[i][k]] = i

\* No list grows but by the entry a miss fills in.
Modest(c, e) == \A i \in 0..MaxId : Len(e[i]) <= Len(c[i]) \/ Len(e[i]) <= 1

LEMMA RightWithin ==
  ASSUME NEW d, NEW c \in Caches, NEW e \in Caches, NEW i \in 0..MaxId,
         Within(e[i], c[i]), Right(d, c, i)
  PROVE  Right(d, e, i)
BY DEF Within, Right

LEMMA RightKept ==
  ASSUME NEW d, NEW e, NEW c \in Caches, NEW i \in 0..MaxId, Right(d, c, i),
         \A p \in Paths : d.links[p] = i => e.links[p] = i
  PROVE  Right(e, c, i)
<1>1. ASSUME NEW k \in 1..Len(c[i]) PROVE e.links[c[i][k]] = i
  <2>1. c[i][k] \in Paths
    BY ElementOfSeq DEF Caches
  <2> QED BY <2>1 DEF Right
<1> QED BY <1>1 DEF Right

LEMMA WithinModest ==
  ASSUME NEW c \in Caches, NEW e \in Caches, NEW f \in Caches,
         \A i \in 0..MaxId : Within(f[i], e[i]), Modest(c, e)
  PROVE  Modest(c, f)
<1>1. ASSUME NEW i \in 0..MaxId PROVE Len(f[i]) <= Len(c[i]) \/ Len(f[i]) <= 1
  <2>1. Len(f[i]) <= Len(e[i]) /\ (Len(e[i]) <= Len(c[i]) \/ Len(e[i]) <= 1)
    BY DEF Within, Modest
  <2>2. Len(f[i]) \in Nat /\ Len(e[i]) \in Nat /\ Len(c[i]) \in Nat
    BY LenProperties DEF Caches
  <2> QED BY <2>1, <2>2
<1> QED BY <1>1 DEF Modest

\* What requests find out about the paths they name leaves the cache right and small.
LEMMA FilledRight ==
  ASSUME Typed, NEW items,
         \A x \in items : /\ x.id \in 0..MaxId /\ x.datapath \in Paths
                          /\ x.id # NoId /\ cache[x.id] = <<>> => db.links[x.datapath] = x.id
  PROVE  /\ Filled(cache, items) \in Caches
         /\ Modest(cache, Filled(cache, items))
         /\ \A i \in 0..MaxId : Right(db, cache, i) => Right(db, Filled(cache, items), i)
<1> DEFINE e == Filled(cache, items)
<1>1. /\ e \in Caches
      /\ \A i \in 0..MaxId :
           \/ e[i] = cache[i]
           \/ /\ cache[i] = <<>> /\ i # NoId
              /\ \E x \in items : x.id = i /\ e[i] = <<x.datapath>>
  BY FilledFacts DEF Typed
<1> HIDE DEF e
<1>2. \A i \in 0..MaxId : Len(cache[i]) \in Nat
  BY LenProperties DEF Typed, Caches
<1>3. Modest(cache, e)
  <2>1. ASSUME NEW i \in 0..MaxId PROVE Len(e[i]) <= Len(cache[i]) \/ Len(e[i]) <= 1
    <3>1. CASE e[i] = cache[i]
      BY <1>2, <3>1
    <3>2. CASE \E x \in items : e[i] = <<x.datapath>>
      BY <3>2
    <3> QED BY <1>1, <3>1, <3>2
  <2> QED BY <2>1 DEF Modest
<1>4. ASSUME NEW i \in 0..MaxId, Right(db, cache, i) PROVE Right(db, e, i)
  <2>1. CASE e[i] = cache[i]
    BY <1>4, <2>1 DEF Right
  <2>2. CASE /\ cache[i] = <<>> /\ i # NoId
             /\ \E x \in items : x.id = i /\ e[i] = <<x.datapath>>
    <3>1. PICK x \in items : x.id = i /\ e[i] = <<x.datapath>>
      BY <2>2
    <3>2. db.links[x.datapath] = i
      BY <2>2, <3>1
    <3> QED BY <3>1, <3>2 DEF Right
  <2> QED BY <1>1, <2>1, <2>2
<1> QED BY <1>1, <1>3, <1>4 DEF e

LEMMA OutdatedNot ==
  ASSUME NEW c, NEW ids, NEW i, i \notin Outdated(c, ids)
  PROVE  c[i] = <<>> \/ (i \notin stale /\ i \notin ids)
BY DEF Outdated

LEMMA EmptyRight ==
  ASSUME NEW d, NEW c, NEW i, c[i] = <<>>
  PROVE  Right(d, c, i)
BY DEF Right

\* What each of these requests does, as far as the cache depends on it.
Effect ==
  /\ db' \in Databases(MaxId) /\ HierarchyOK(tree') /\ cache' \in Caches
  /\ stale' \subseteq 0..MaxId
  /\ Modest(cache, cache')
  /\ \A i \in 1..MaxId \ stale' :
       (i \notin stale => Right(db, cache, i)) => Right(db', cache', i)

\* The paths of other files stay theirs when one goes or is renamed.
LEMMA DeleteKeeps ==
  ASSUME Typed, NEW p \in Paths
  PROVE  /\ DeleteFile(db, p) \in Databases(MaxId)
         /\ \A i \in 1..MaxId \ {db.links[p]} : \A q \in Paths :
              db.links[q] = i => DeleteFile(db, p).links[q] = i
         /\ LinksSound(db) => LinksSound(DeleteFile(db, p))
<1>1. DeleteFile(db, p) \in Databases(MaxId)
  BY DeleteFileColumns, Constants DEF Typed
<1>2. /\ DeleteFile(db, p).links = [db.links EXCEPT ![p] = NoId]
      /\ DeleteFile(db, p).lastId = db.lastId
  BY DeleteFileColumns, Constants DEF Typed
<1>3. db.links \in [Paths -> 0..MaxId] /\ db.lastId \in 0..MaxId
  BY DEF Typed, Databases
<1>4. LinksSound(db) => LinksSound(DeleteFile(db, p))
  BY <1>2, <1>3, Constants DEF LinksSound, NoId
<1> QED BY <1>1, <1>2, <1>3, <1>4

LEMMA RenameLinks ==
  ASSUME Typed, NEW p \in Paths, NEW q \in Paths, NEW x \in BOOLEAN, CanRename(db, p, q, x)
  PROVE  /\ RenameFile(db, p, q, x) \in Databases(MaxId)
         /\ RenameFile(db, p, q, x).lastId = db.lastId
         /\ \/ RenameFile(db, p, q, x).links = db.links
            \/ RenameFile(db, p, q, x).links = [db.links EXCEPT ![q] = NoId]
            \/ RenameFile(db, p, q, x).links =
                 [db.links EXCEPT ![q] = db.links[p], ![p] = NoId] /\ p # q
<1> DEFINE e == RenameFile(db, p, q, x)
<1>1. CASE p # q
  <2>1. e \in Databases(MaxId) /\ e.links = RenamedLinks(db, p, q, x) /\ e.lastId = db.lastId
    BY <1>1, RenameColumns, Constants DEF Typed
  <2> HIDE DEF e
  <2>2. \/ e.links = db.links
        \/ e.links = [db.links EXCEPT ![q] = NoId]
        \/ e.links = [db.links EXCEPT ![q] = db.links[p], ![p] = NoId]
    BY <2>1 DEF RenamedLinks
  <2> QED BY <1>1, <2>1, <2>2 DEF e
<1>2. CASE p = q
  <2>1. CASE ~x
    <3>1. e = db
      BY <1>2, <2>1 DEF RenameFile, MoveLink
    <3> QED BY <3>1 DEF Typed
  <2>2. CASE x
    <3> DEFINE c == MoveMetadata(db, p, q)
    <3>1. c \in Databases(MaxId) /\ c.links = db.links /\ c.lastId = db.lastId
      BY <2>2, MoveMetadataColumns, Constants DEF CanRename, Typed
    <3>2. e = [c EXCEPT !.links = [c.links EXCEPT ![q] = NoId]]
      BY <1>2, <2>2 DEF RenameFile, MoveLink, DeleteLink
    <3> HIDE DEF c, e
    <3>3. [c.links EXCEPT ![q] = NoId] \in [Paths -> 0..MaxId]
      BY <3>1, Columns, Constants DEF NoId
    <3>4. /\ e \in Databases(MaxId) /\ e.links = [c.links EXCEPT ![q] = NoId]
          /\ e.lastId = c.lastId
      BY <3>1, <3>2, <3>3 DEF Databases
    <3> QED BY <3>1, <3>4 DEF e
  <2> QED BY <2>1, <2>2
<1> QED BY <1>1, <1>2

LEMMA RenameKeeps ==
  ASSUME Typed, NEW p \in Paths, NEW q \in Paths, Store(p, q)
  PROVE  /\ db' \in Databases(MaxId)
         /\ \A i \in 1..MaxId \ {db.links[p], db.links[q]} : \A r \in Paths :
              db.links[r] = i => db'.links[r] = i
         /\ LinksSound(db) => LinksSound(db')
<1> DEFINE x == Real(q)
<1>1. x \in BOOLEAN /\ CanRename(db, p, q, x) /\ db' = RenameFile(db, p, q, x)
  BY DEF Store, Real
<1> DEFINE e == RenameFile(db, p, q, x)
<1> HIDE DEF x
<1>0. /\ e \in Databases(MaxId) /\ e.lastId = db.lastId
      /\ \/ e.links = db.links
         \/ e.links = [db.links EXCEPT ![q] = NoId]
         \/ e.links = [db.links EXCEPT ![q] = db.links[p], ![p] = NoId] /\ p # q
  BY <1>1, RenameLinks
<1> HIDE DEF e
<1>2. /\ db' \in Databases(MaxId) /\ db'.lastId = db.lastId
      /\ \/ db'.links = db.links
         \/ db'.links = [db.links EXCEPT ![q] = NoId]
         \/ db'.links = [db.links EXCEPT ![q] = db.links[p], ![p] = NoId] /\ p # q
  BY <1>0, <1>1 DEF e
<1>3. db.links \in [Paths -> 0..MaxId] /\ db.lastId \in 0..MaxId
  BY DEF Typed, Databases
<1>4. \A i \in 1..MaxId \ {db.links[p], db.links[q]} : \A r \in Paths :
        db.links[r] = i => db'.links[r] = i
  BY <1>2, <1>3
<1>5. ASSUME LinksSound(db) PROVE LinksSound(db')
  <2>1. \A r \in Paths : db'.links[r] <= db'.lastId
    <3>1. NoId \in Nat /\ NoId <= db.lastId /\ \A r \in Paths : db.links[r] <= db.lastId
      BY <1>3, <1>5, Constants DEF LinksSound, NoId
    <3> QED BY <1>2, <1>3, <3>1
  <2>2. \A r, v \in Paths : db'.links[r] = db'.links[v] /\ db'.links[r] # NoId => r = v
    BY <1>2, <1>3, <1>5 DEF LinksSound
  <2> QED BY <2>1, <2>2 DEF LinksSound
<1> QED BY <1>2, <1>4, <1>5

\* A cache that nobody tells stays right for files that did not go or move.
LEMMA StaticEffect ==
  ASSUME Typed, UNCHANGED <<tree, cache>>, NEW ids, ids \subseteq 0..MaxId,
         db' \in Databases(MaxId), stale' = Outdated(cache, ids),
         \A i \in 1..MaxId \ ids : \A q \in Paths : db.links[q] = i => db'.links[q] = i
  PROVE  Effect
<1>1. stale' \subseteq 0..MaxId
  BY OutdatedIds
<1>2. cache \in Caches /\ HierarchyOK(tree)
  BY DEF Typed
<1>3. Modest(cache, cache)
  <2>1. \A i \in 0..MaxId : Len(cache[i]) \in Nat
    BY <1>2, LenProperties DEF Caches
  <2> QED BY <2>1 DEF Modest
<1>4. ASSUME NEW i \in 1..MaxId \ stale', i \notin stale => Right(db, cache, i)
      PROVE  Right(db', cache, i)
  <2>1. i \in 0..MaxId /\ (cache[i] = <<>> \/ (i \notin stale /\ i \notin ids))
    BY <1>4, OutdatedNot, Constants
  <2>2. CASE cache[i] = <<>>
    BY <2>2, EmptyRight
  <2>3. CASE i \notin stale /\ i \notin ids
    <3>1. i \in 0..MaxId /\ \A q \in Paths : db.links[q] = i => db'.links[q] = i
      BY <2>3, Constants
    <3> QED BY <1>2, <1>4, <2>3, <3>1, RightKept
  <2> QED BY <2>1, <2>2, <2>3
<1> QED BY <1>1, <1>2, <1>3, <1>4 DEF Effect

\* A new file has a path that nobody has, or gets no row.
LEMMA CreateKeeps ==
  ASSUME Typed, NEW p \in Paths, CreateFile(p)
  PROVE  /\ db' \in Databases(MaxId)
         /\ \A i \in 1..MaxId : \A q \in Paths : db.links[q] = i => db'.links[q] = i
         /\ LinksSound(db) => LinksSound(db')
<1>1. CASE UNCHANGED db
  BY <1>1 DEF Typed
<1>2. CASE CanAddLink(db, p) /\ db.lastId < MaxId /\ db' = AddLink(db, p)
  <2> DEFINE e == AddLink(db, p)
  <2>0. /\ e \in Databases(MaxId) /\ e.links = [db.links EXCEPT ![p] = db.lastId + 1]
        /\ e.lastId = db.lastId + 1
    <3>1. db \in Databases(MaxId) /\ db.lastId < MaxId /\ MaxId \in Nat /\ IsFiniteSet(Keys)
      BY <1>2, Constants DEF Typed
    <3> QED BY <3>1, AddLinkColumns
  <2> HIDE DEF e
  <2>1. /\ db' \in Databases(MaxId) /\ db'.links = [db.links EXCEPT ![p] = db.lastId + 1]
        /\ db'.lastId = db.lastId + 1
    BY <1>2, <2>0 DEF e
  <2>2. db.links \in [Paths -> 0..MaxId] /\ db.lastId \in 0..MaxId /\ db.links[p] = NoId
    BY <1>2 DEF Typed, Databases, CanAddLink
  <2>3. \A i \in 1..MaxId : \A q \in Paths : db.links[q] = i => db'.links[q] = i
    BY <2>1, <2>2, Constants DEF NoId
  <2>4. LinksSound(db) => LinksSound(db')
    BY <2>1, <2>2, Constants DEF LinksSound, NoId
  <2> QED BY <2>1, <2>3, <2>4
<1> QED BY <1>1, <1>2 DEF CreateFile

LEMMA CreateEffect ==
  ASSUME Typed, NEW p \in Paths, CreateFile(p)
  PROVE  Effect
<1>1. /\ db' \in Databases(MaxId) /\ UNCHANGED <<tree, cache, stale>>
      /\ \A i \in 1..MaxId : \A q \in Paths : db.links[q] = i => db'.links[q] = i
  BY CreateKeeps DEF CreateFile
<1>2. cache \in Caches /\ stale \subseteq 0..MaxId
  BY DEF Typed
<1>3. ASSUME NEW i \in 1..MaxId, Right(db, cache, i) PROVE Right(db', cache, i)
  <2>1. i \in 0..MaxId /\ \A q \in Paths : db.links[q] = i => db'.links[q] = i
    BY <1>1, Constants
  <2> QED BY <1>2, <1>3, <2>1, RightKept
<1>4. Modest(cache, cache)
  <2>1. \A i \in 0..MaxId : Len(cache[i]) \in Nat
    BY <1>2, LenProperties DEF Caches
  <2> QED BY <2>1 DEF Modest
<1> QED BY <1>1, <1>2, <1>3, <1>4 DEF Effect, Typed

LEMMA UnlinkStaticEffect ==
  ASSUME Typed, NEW p \in Paths, UnlinkStatic(p)
  PROVE  Effect
<1>1. {db.links[p]} \subseteq 0..MaxId
  BY DEF Typed, Databases
<1>2. /\ db' = DeleteFile(db, p) /\ stale' = Outdated(cache, {db.links[p]})
      /\ UNCHANGED <<tree, cache>>
  BY DEF UnlinkStatic, Erase
<1> QED BY <1>1, <1>2, DeleteKeeps, StaticEffect

LEMMA RenameStaticEffect ==
  ASSUME Typed, NEW p \in Paths, NEW q \in Paths, RenameStatic(p, q)
  PROVE  Effect
<1>1. {db.links[p], db.links[q]} \subseteq 0..MaxId
  BY DEF Typed, Databases
<1>2. /\ Store(p, q) /\ stale' = Outdated(cache, {db.links[p], db.links[q]})
      /\ UNCHANGED <<tree, cache>>
  BY DEF RenameStatic
<1>3. /\ db' \in Databases(MaxId)
      /\ \A i \in 1..MaxId \ {db.links[p], db.links[q]} : \A r \in Paths :
           db.links[r] = i => db'.links[r] = i
  BY <1>2, RenameKeeps
<1> QED BY <1>1, <1>2, <1>3, StaticEffect

LEMMA RemountEffect ==
  ASSUME Typed, Remount
  PROVE  Effect
<1>1. cache' = [i \in 0..MaxId |-> <<>>] /\ tree' = EmptyHierarchy /\ stale' = {} /\ db' = db
  BY DEF Remount, files
<1>2. Modest(cache, cache')
  BY <1>1 DEF Modest
<1>3. \A i \in 1..MaxId : Right(db', cache', i)
  BY <1>1, Constants DEF Right
<1> QED BY <1>1, <1>2, <1>3, EmptyOK DEF Effect, Typed

LEMMA EmptyList ==
  ASSUME NEW s \in Seq(Paths)
  PROVE  s = <<>> <=> Len(s) = 0
BY EmptySeq

LEMMA UnlinkDynamicEffect ==
  ASSUME Typed, NEW path \in Paths, UnlinkDynamic(path)
  PROVE  Effect
<1>1. PICK f \in Items(path) :
         LET filled == Filled(cache, {f})
             after == Unlisted([tree |-> tree, cache |-> filled], path)
             others == [filled EXCEPT ![f.id] = SubSeq(@, 2, Len(@))]
         IN  /\ tree' = after.tree
             /\ cache' = after.cache
             /\ \/ /\ db' = DeleteFile(db, f.datapath)
                   /\ stale' = Outdated(others, {db.links[f.datapath]})
                \/ (UNCHANGED db /\ stale' = Outdated(others, {}))
  BY DEF UnlinkDynamic, Erase, files
<1> DEFINE filled == Filled(cache, {f})
           state == [tree |-> tree, cache |-> filled]
           others == [filled EXCEPT ![f.id] = SubSeq(@, 2, Len(@))]
<1>2. /\ f.id \in 0..MaxId /\ f.datapath \in Paths
      /\ f.id # NoId /\ cache[f.id] = <<>> => db.links[f.datapath] = f.id
      /\ f.id # NoId => \E g \in FileAt(tree, path) : g.id = f.id
  BY ItemsFacts
<1>3. /\ filled \in Caches /\ Modest(cache, filled)
      /\ \A i \in 0..MaxId : Right(db, cache, i) => Right(db, filled, i)
  <2>1. \A x \in {f} : /\ x.id \in 0..MaxId /\ x.datapath \in Paths
                       /\ x.id # NoId /\ cache[x.id] = <<>> => db.links[x.datapath] = x.id
    BY <1>2
  <2> HIDE DEF filled
  <2> QED BY <2>1, FilledRight DEF filled
<1>4. tree' = Unlisted(state, path).tree /\ cache' = Unlisted(state, path).cache
  BY <1>1
<1>5. \/ db' = DeleteFile(db, f.datapath) /\ stale' = Outdated(others, {db.links[f.datapath]})
      \/ (db' = db /\ stale' = Outdated(others, {}))
  BY <1>1
<1> HIDE DEF filled, others
<1>6. /\ cache' \in Caches /\ HierarchyOK(tree')
      /\ \A i \in 0..MaxId : Within(cache'[i], filled[i])
      /\ f.id # NoId => cache'[f.id] = Dropped(filled, f.id)[f.id]
  <2>1. state.cache = filled /\ state.tree = tree
    OBVIOUS
  <2> HIDE DEF state
  <2>2. HierarchyOK(state.tree) /\ state.cache \in Caches
    BY <1>3, <2>1 DEF Typed
  <2>3. /\ cache' \in Caches /\ HierarchyOK(tree')
        /\ \A i \in 0..MaxId : Within(cache'[i], filled[i])
        /\ \A g \in FileAt(tree, path) : cache'[g.id] = Dropped(filled, g.id)[g.id]
    BY <1>4, <2>1, <2>2, UnlistedFacts
  <2> QED BY <1>2, <2>3
<1>7. Modest(cache, cache')
  BY <1>3, <1>6, WithinModest DEF Typed
<1>8. /\ db' \in Databases(MaxId)
      /\ stale' \subseteq 0..MaxId
      /\ \A i \in 1..MaxId \ stale' :
           /\ i \notin Outdated(others, {})
           /\ \A q \in Paths : db.links[q] = i => others[i] = <<>> \/ db'.links[q] = i
  <2>1. CASE db' = db /\ stale' = Outdated(others, {})
    <3>1. stale' \subseteq 0..MaxId
      BY <2>1, OutdatedIds
    <3> QED BY <2>1, <3>1 DEF Typed
  <2>2. CASE db' = DeleteFile(db, f.datapath) /\ stale' = Outdated(others, {db.links[f.datapath]})
    <3>1. db.links[f.datapath] \in 0..MaxId
      BY <1>2 DEF Typed, Databases
    <3>2. stale' \subseteq 0..MaxId
      BY <2>2, <3>1, OutdatedIds
    <3>3. /\ db' \in Databases(MaxId)
          /\ \A i \in 1..MaxId \ {db.links[f.datapath]} : \A q \in Paths :
               db.links[q] = i => db'.links[q] = i
      BY <1>2, <2>2, DeleteKeeps
    <3>4. ASSUME NEW i \in 1..MaxId \ stale' PROVE i \notin Outdated(others, {})
      BY <2>2, <3>4 DEF Outdated
    <3>5. ASSUME NEW i \in 1..MaxId \ stale', others[i] # <<>> PROVE i # db.links[f.datapath]
      BY <2>2, <3>1, <3>5, OutdatedNot
    <3> QED BY <3>2, <3>3, <3>4, <3>5
  <2> QED BY <1>5, <2>1, <2>2
<1>9. ASSUME NEW i \in 1..MaxId, others[i] = <<>> PROVE cache'[i] = <<>>
  <2>1. /\ i \in 0..MaxId /\ filled[i] \in Seq(Paths) /\ cache'[i] \in Seq(Paths)
        /\ Len(filled[i]) \in Nat /\ Len(cache'[i]) \in Nat
    BY <1>3, <1>6, Constants, LenProperties DEF Caches
  <2>2. CASE i # f.id
    <3>1. filled[i] = <<>>
      BY <1>2, <1>3, <1>9, <2>2 DEF others, Caches
    <3>2. Len(cache'[i]) <= Len(filled[i])
      BY <1>6, <2>1 DEF Within
    <3> QED BY <2>1, <3>1, <3>2, EmptyList
  <2>3. CASE i = f.id
    <3> DEFINE rest == SubSeq(filled[i], 1 + 1, Len(filled[i]))
    <3>1. rest = <<>>
      BY <1>2, <1>3, <1>9, <2>3 DEF others, Caches
    <3>2. Len(rest) = IF 1 < Len(filled[i]) THEN Len(filled[i]) - 1 ELSE 0
      BY <2>1, RestWithin
    <3> HIDE DEF rest
    <3>3. Len(filled[i]) <= 1
      <4>1. Len(rest) = 0
        BY <3>1
      <4>2. ASSUME NEW m \in Nat, (IF 1 < m THEN m - 1 ELSE 0) = 0 PROVE m <= 1
        BY <4>2
      <4>3. Len(filled[i]) \in Nat
        BY <2>1
      <4>4. (IF 1 < Len(filled[i]) THEN Len(filled[i]) - 1 ELSE 0) = 0
        BY <3>2, <4>1
      <4> QED BY <4>2, <4>3, <4>4
    <3>4. f.id # NoId
      BY <2>3, Constants DEF NoId
    <3>5. cache'[i] = Dropped(filled, i)[i]
      BY <1>6, <2>3, <3>4
    <3>6. /\ filled[i] = <<>> => Dropped(filled, i)[i] = <<>>
          /\ filled[i] # <<>> => Len(Dropped(filled, i)[i]) = Len(filled[i]) - 1
      BY <1>3, <2>1, DroppedFacts
    <3>7. Len(cache'[i]) = 0
      <4>1. CASE filled[i] = <<>>
        BY <3>5, <3>6, <4>1
      <4>2. CASE filled[i] # <<>>
        BY <2>1, <3>3, <3>5, <3>6, <4>2
      <4> QED BY <4>1, <4>2
    <3> QED BY <2>1, <3>7, EmptyList
  <2> QED BY <2>2, <2>3
<1>10. ASSUME NEW i \in 1..MaxId \ stale', i \notin stale => Right(db, cache, i)
       PROVE  Right(db', cache', i)
  <2>1. i \in 0..MaxId
    BY Constants
  <2>2. CASE others[i] = <<>>
    BY <1>9, <2>2, EmptyRight
  <2>3. CASE others[i] # <<>>
    <3>1. i \notin stale
      BY <1>8, <2>3, OutdatedNot
    <3>2. Right(db, filled, i)
      BY <1>3, <1>10, <2>1, <3>1
    <3>3. Right(db, cache', i)
      BY <1>3, <1>6, <2>1, <3>2, RightWithin
    <3>4. \A q \in Paths : db.links[q] = i => db'.links[q] = i
      BY <1>8, <2>3
    <3> QED BY <1>6, <2>1, <3>3, <3>4, RightKept
  <2> QED BY <2>2, <2>3
<1> QED BY <1>6, <1>7, <1>8, <1>10 DEF Effect

\* What is put under the renamed jfs_id replaces an entry, or is the only one.
LEMMA ReplacedFacts ==
  ASSUME NEW c \in Caches, NEW id \in 0..MaxId, NEW p \in Paths
  PROVE  /\ Put(Dropped(c, id), id, p) \in Caches
         /\ \A i \in 0..MaxId : i # id => Put(Dropped(c, id), id, p)[i] = c[i]
         /\ Len(Put(Dropped(c, id), id, p)[id]) <= Len(c[id])
              \/ Len(Put(Dropped(c, id), id, p)[id]) <= 1
<1> DEFINE e == Dropped(c, id)
<1>1. /\ e \in Caches /\ \A i \in 0..MaxId : i # id => e[i] = c[i]
      /\ c[id] = <<>> => e[id] = <<>>
      /\ c[id] # <<>> => Len(e[id]) = Len(c[id]) - 1
  BY DroppedFacts
<1> HIDE DEF e
<1>2. /\ Put(e, id, p) \in Caches /\ \A i \in 0..MaxId : i # id => Put(e, id, p)[i] = e[i]
      /\ Len(Put(e, id, p)[id]) = Len(e[id]) + 1
  BY <1>1, PutFacts
<1>3. Len(c[id]) \in Nat
  BY LenProperties DEF Caches
<1>4. Len(Put(e, id, p)[id]) <= Len(c[id]) \/ Len(Put(e, id, p)[id]) <= 1
  <2>1. CASE c[id] = <<>>
    <3>1. Len(e[id]) = 0
      BY <1>1, <2>1
    <3> QED BY <1>2, <3>1
  <2>2. CASE c[id] # <<>>
    BY <1>1, <1>2, <1>3, <2>2
  <2> QED BY <2>1, <2>2
<1> QED BY <1>1, <1>2, <1>4 DEF e

LEMMA TargetsFacts ==
  ASSUME Typed, NEW from \in Paths, NEW to \in Paths, NEW s \in Items(from),
         NEW d \in Targets(from, to, s)
  PROVE  d \in Paths
<1>1. CASE PathDynamic(to)
  <2>1. PICK x \in Items(to) : d = x.datapath
    BY <1>1 DEF Targets
  <2> QED BY <2>1, ItemsFacts
<1>2. CASE ~PathDynamic(to) /\ Beside(from, to)
  <2>1. d = Append(Front(s.datapath), Last(to)) /\ s.datapath \in Paths
    BY <1>2, ItemsFacts DEF Targets
  <2> QED BY <2>1, Constants
<1>3. CASE ~PathDynamic(to) /\ ~Beside(from, to)
  BY <1>3 DEF Targets
<1> QED BY <1>1, <1>2, <1>3

\* What a path is made of.
LEMMA NamedPaths ==
  ASSUME NEW p \in Paths
  PROVE  p \in Seq(Names) /\ p # <<>>
<1>1. p \in Seq(Names) /\ Len(p) > 1
  BY Constants
<1> QED BY <1>1, EmptySeq

LEMMA RenameDynamicEffect ==
  ASSUME Typed, NEW from \in Paths, NEW to \in Paths, RenameDynamic(from, to)
  PROVE  Effect
<1>1. PICK s \in Items(from) : \E d \in Targets(from, to, s) :
         LET resolved == [tree |-> tree, cache |-> Filled(cache, {s} \cup Items(to))]
             gone == IF Real(from) THEN resolved ELSE Unlisted(resolved, from)
             free == Unlisted(gone, to)
             ids == {db.links[s.datapath], db.links[d], s.id}
         IN  /\ Store(s.datapath, d)
             /\ \/ tree' = tree /\ cache' = resolved.cache
                \/ tree' = gone.tree /\ cache' = gone.cache
                \/ /\ tree' = AddFile(free.tree, to, s.id)
                   /\ cache' = Put(Dropped(free.cache, s.id), s.id, s.datapath)
             /\ stale' = Outdated(cache', ids)
  BY DEF RenameDynamic
<1>2. PICK d \in Targets(from, to, s) :
         LET resolved == [tree |-> tree, cache |-> Filled(cache, {s} \cup Items(to))]
             gone == IF Real(from) THEN resolved ELSE Unlisted(resolved, from)
             free == Unlisted(gone, to)
             ids == {db.links[s.datapath], db.links[d], s.id}
         IN  /\ Store(s.datapath, d)
             /\ \/ tree' = tree /\ cache' = resolved.cache
                \/ tree' = gone.tree /\ cache' = gone.cache
                \/ /\ tree' = AddFile(free.tree, to, s.id)
                   /\ cache' = Put(Dropped(free.cache, s.id), s.id, s.datapath)
             /\ stale' = Outdated(cache', ids)
  BY <1>1
<1> DEFINE items == {s} \cup Items(to)
           filled == Filled(cache, items)
           resolved == [tree |-> tree, cache |-> filled]
           gone == IF Real(from) THEN resolved ELSE Unlisted(resolved, from)
           free == Unlisted(gone, to)
           ids == {db.links[s.datapath], db.links[d], s.id}
<1>3. /\ Store(s.datapath, d)
      /\ \/ tree' = tree /\ cache' = resolved.cache
         \/ tree' = gone.tree /\ cache' = gone.cache
         \/ /\ tree' = AddFile(free.tree, to, s.id)
            /\ cache' = Put(Dropped(free.cache, s.id), s.id, s.datapath)
      /\ stale' = Outdated(cache', ids)
  BY <1>2
<1>4. s.id \in 0..MaxId /\ s.datapath \in Paths /\ d \in Paths
  BY ItemsFacts, TargetsFacts
<1>5. /\ filled \in Caches /\ Modest(cache, filled)
      /\ \A i \in 0..MaxId : Right(db, cache, i) => Right(db, filled, i)
  <2>1. \A x \in items : /\ x.id \in 0..MaxId /\ x.datapath \in Paths
                         /\ x.id # NoId /\ cache[x.id] = <<>> => db.links[x.datapath] = x.id
    BY ItemsFacts
  <2> HIDE DEF items
  <2> QED BY <2>1, FilledRight
<1>6. to \in Seq(Names) /\ to # <<>>
  BY NamedPaths
<1>7. resolved.tree = tree /\ resolved.cache = filled /\ HierarchyOK(tree)
  BY DEF Typed
<1> HIDE DEF items, filled, resolved
<1>8. /\ gone.cache \in Caches /\ HierarchyOK(gone.tree)
      /\ \A i \in 0..MaxId : Within(gone.cache[i], filled[i])
  <2>1. CASE Real(from)
    BY <1>5, <1>7, <2>1, WithinRefl DEF Caches
  <2>2. CASE ~Real(from)
    BY <1>5, <1>7, <2>2, UnlistedFacts
  <2> QED BY <2>1, <2>2
<1> HIDE DEF gone
<1>9. /\ free.cache \in Caches /\ HierarchyOK(free.tree)
      /\ \A i \in 0..MaxId : Within(free.cache[i], gone.cache[i])
  BY <1>8, UnlistedFacts
<1> HIDE DEF free
<1>10. \A i \in 0..MaxId : Within(free.cache[i], filled[i])
  BY <1>5, <1>8, <1>9, WithinTransitive DEF Caches
<1>11. /\ cache' \in Caches /\ HierarchyOK(tree')
       /\ \A i \in 0..MaxId : i # s.id => Within(cache'[i], filled[i])
       /\ Modest(cache, cache')
  <2>1. CASE tree' = tree /\ cache' = resolved.cache
    BY <1>5, <1>7, <2>1, WithinRefl DEF Caches
  <2>2. CASE tree' = gone.tree /\ cache' = gone.cache
    <3>1. Modest(cache, cache')
      BY <1>5, <1>8, <2>2, WithinModest DEF Typed
    <3> QED BY <1>8, <2>2, <3>1
  <2>3. CASE /\ tree' = AddFile(free.tree, to, s.id)
             /\ cache' = Put(Dropped(free.cache, s.id), s.id, s.datapath)
    <3>2. HierarchyOK(tree')
      BY <1>4, <1>6, <1>9, <2>3, AddFileOK
    <3>3. /\ cache' \in Caches
          /\ \A i \in 0..MaxId : i # s.id => cache'[i] = free.cache[i]
          /\ Len(cache'[s.id]) <= Len(free.cache[s.id]) \/ Len(cache'[s.id]) <= 1
      BY <1>4, <1>9, <2>3, ReplacedFacts
    <3>4. Modest(cache, free.cache)
      BY <1>5, <1>9, <1>10, WithinModest DEF Typed
    <3>5. \A i \in 0..MaxId : /\ Len(cache'[i]) \in Nat /\ Len(free.cache[i]) \in Nat
                              /\ Len(cache[i]) \in Nat
      BY <1>9, <3>3, LenProperties DEF Typed, Caches
    <3>6. \A i \in 0..MaxId : Len(cache'[i]) <= Len(free.cache[i]) \/ Len(cache'[i]) <= 1
      BY <3>3, <3>5
    <3>7. Modest(cache, cache')
      BY <3>4, <3>5, <3>6 DEF Modest
    <3> QED BY <1>10, <3>2, <3>3, <3>7
  <2> QED BY <1>3, <2>1, <2>2, <2>3
<1>12. ids \subseteq 0..MaxId
  BY <1>4 DEF Typed, Databases
<1>13. stale' \subseteq 0..MaxId
  BY <1>3, <1>12, OutdatedIds
<1>14. /\ db' \in Databases(MaxId)
       /\ \A i \in 1..MaxId \ ids : \A r \in Paths : db.links[r] = i => db'.links[r] = i
  BY <1>3, <1>4, RenameKeeps
<1>15. stale' = Outdated(cache', ids) /\ s.id \in ids
  BY <1>3
<1> HIDE DEF ids
<1>16. ASSUME NEW i \in 1..MaxId \ stale', i \notin stale => Right(db, cache, i)
       PROVE  Right(db', cache', i)
  <2>1. i \in 0..MaxId
    BY Constants
  <2>2. CASE cache'[i] = <<>>
    BY <2>2, EmptyRight
  <2>3. CASE cache'[i] # <<>>
    <3>1. i \notin stale /\ i \notin ids /\ i # s.id
      BY <1>15, <2>3, OutdatedNot
    <3>2. Right(db, filled, i)
      BY <1>5, <1>16, <2>1, <3>1
    <3>3. Right(db, cache', i)
      BY <1>5, <1>11, <2>1, <3>1, <3>2, RightWithin
    <3>4. \A q \in Paths : db.links[q] = i => db'.links[q] = i
      BY <1>14, <3>1
    <3> QED BY <1>11, <2>1, <3>3, <3>4, RightKept
  <2> QED BY <2>2, <2>3
<1> QED BY <1>11, <1>13, <1>14, <1>16 DEF Effect

-------------------------------------------------------------------------------
(* Requests that change files: when they are alone nobody has anything in     *)
(* hand, and a new file has none of the paths that somebody has.              *)

FileStep ==
  \/ \E p \in Places : CreateFile(p) \/ UnlinkStatic(p)
  \/ \E p \in Paths : UnlinkDynamic(p)
  \/ \E p, q \in Paths : RenameStatic(p, q) \/ RenameDynamic(p, q)
  \/ Remount

LEMMA NextSteps == Next <=> (\E t \in Threads : Step(t)) \/ FileStep
BY DEF Next, FileStep

\* What a request for files is, one at a time.
LEMMA FileStepCases ==
  ASSUME FileStep
  PROVE  \/ \E p \in Places : p \in Paths /\ CreateFile(p)
         \/ \E p \in Places : p \in Paths /\ UnlinkStatic(p)
         \/ \E p \in Paths : UnlinkDynamic(p)
         \/ \E p, q \in Paths : RenameStatic(p, q)
         \/ \E p, q \in Paths : RenameDynamic(p, q)
         \/ Remount
BY Constants DEF FileStep

LEMMA FileStepEffect ==
  ASSUME Typed, InHand, FileStep
  PROVE  /\ Effect /\ UNCHANGED requests
         /\ Alone \/ \E p \in Paths : CreateFile(p)
<1>1. CASE \E p \in Places : p \in Paths /\ CreateFile(p)
  BY <1>1, CreateEffect DEF CreateFile
<1>2. CASE \E p \in Places : p \in Paths /\ UnlinkStatic(p)
  BY <1>2, UnlinkStaticEffect DEF UnlinkStatic
<1>3. CASE \E p \in Paths : UnlinkDynamic(p)
  BY <1>3, UnlinkDynamicEffect DEF UnlinkDynamic
<1>4. CASE \E p, q \in Paths : RenameStatic(p, q)
  BY <1>4, RenameStaticEffect DEF RenameStatic
<1>5. CASE \E p, q \in Paths : RenameDynamic(p, q)
  <2>1. PICK p \in Paths, q \in Paths : RenameDynamic(p, q)
    BY <1>5
  <2>2. Effect
    BY <2>1, RenameDynamicEffect
  <2>3. Alone /\ UNCHANGED requests
    BY <2>1 DEF RenameDynamic
  <2> QED BY <2>2, <2>3
<1>6. CASE Remount
  BY <1>6, RemountEffect DEF Remount
<1> QED BY <1>1, <1>2, <1>3, <1>4, <1>5, <1>6, FileStepCases

\* Files are only where a directory is.
LEMMA FileStepDisk ==
  ASSUME Typed, FileStep
  PROVE  disk' \subseteq Places
<1>1. disk \subseteq Places
  BY DEF Typed
<1>2. CASE \E p \in Places : p \in Paths /\ CreateFile(p)
  BY <1>1, <1>2 DEF CreateFile
<1>3. CASE \E p \in Places : p \in Paths /\ UnlinkStatic(p)
  BY <1>1, <1>3 DEF UnlinkStatic, Erase
<1>4. CASE \E p \in Paths : UnlinkDynamic(p)
  BY <1>1, <1>4 DEF UnlinkDynamic, Erase, files
<1>5. CASE \E p, q \in Paths : RenameStatic(p, q)
  BY <1>1, <1>5 DEF RenameStatic, Placed
<1>6. CASE \E p, q \in Paths : RenameDynamic(p, q)
  <2>1. UNCHANGED disk \/ \E p, q : Placed(p, q)
    BY <1>6 DEF RenameDynamic
  <2> QED BY <1>1, <2>1 DEF Placed
<1>7. CASE Remount
  BY <1>1, <1>7 DEF Remount, files
<1> QED BY <1>2, <1>3, <1>4, <1>5, <1>6, <1>7, FileStepCases

LEMMA FileStepTyped ==
  ASSUME Typed, InHand, FileStep
  PROVE  Typed' /\ InHand'
<1>1. UNCHANGED <<pc, folder, rows, cur, disturbed>>
  BY FileStepEffect DEF requests
<1>2. Typed'
  BY <1>1, FileStepEffect, FileStepDisk DEF Typed, Effect
<1>3. CASE Alone
  <2>1. \A t \in Threads : pc'[t] = "idle" /\ folder'[t] = NoFolder /\ rows'[t] = {}
    BY <1>1, <1>3 DEF Alone, InHand
  <2> QED BY <1>2, <2>1, Constants DEF InHand
<1>4. CASE \E p \in Paths : CreateFile(p)
  <2>1. PICK p \in Paths : CreateFile(p)
    BY <1>4
  <2>4. ASSUME NEW r, Linked(r) PROVE Linked(r)'
    <3>1. r.id \in 1..MaxId /\ r.datapath \in Paths /\ db.links[r.datapath] = r.id
      BY <2>4 DEF Linked
    <3>2. db'.links[r.datapath] = r.id
      BY <2>1, <3>1, CreateKeeps
    <3> QED BY <3>1, <3>2 DEF Linked
  <2>5. ASSUME NEW t \in Threads, folder[t] \in OfFiles, NEW r \in rows[t] PROVE Linked(r)'
    BY <2>4, <2>5 DEF InHand
  <2>6. ASSUME NEW t \in Threads, pc[t] \in {"uncache", "cache"} PROVE Linked(cur[t])'
    <3>1. Linked(cur[t])
      BY <2>6 DEF InHand
    <3> QED BY <1>1, <2>4, <3>1 DEF Linked
  <2> QED BY <1>1, <1>2, <2>5, <2>6 DEF InHand, Linked
<1> QED BY <1>2, <1>3, <1>4, FileStepEffect

LEMMA TypedNext == Typed /\ InHand /\ [Next]_vars => Typed' /\ InHand'
<1> SUFFICES ASSUME Typed, InHand, [Next]_vars PROVE Typed' /\ InHand'
  OBVIOUS
<1>1. ASSUME NEW t \in Threads, Step(t) PROVE Typed' /\ InHand'
  <2>1. \/ List(t) \/ InvalidateFolder(t) \/ AddListed(t) \/ Query(t)
        \/ FolderRow(t) \/ FileRow(t) \/ SkipRow(t) \/ Listed(t)
        \/ Resolve(t) \/ Lookup(t) \/ Read(t) \/ Uncache(t) \/ Cache(t) \/ Fails(t)
    BY <1>1 DEF Step
  <2> QED BY <2>1, ListingTyped, RowsTyped, ResolvingTyped
<1>2. CASE UNCHANGED vars
  <2>1. UNCHANGED <<db, disk, tree, cache, pc, folder, rows, cur, disturbed, stale>>
    BY <1>2 DEF vars
  <2>2. Typed'
    BY <2>1 DEF Typed
  <2> QED BY <2>1, <2>2 DEF InHand, Linked
<1> QED BY <1>1, <1>2, FileStepTyped, NextSteps

LEMMA TypedAlways == Spec => [](Typed /\ InHand)
<1> QED BY TypedInit, TypedNext, PTL DEF Spec

\* Whatever threads list, resolve, unlink and rename at the same time, the hierarchy
\* stays a tree: the nodes of a name are numbered without gaps in their list, and the
\* folder of every list is there (jfs_dynamic_hierarchy_add_folder, _add_file, _unlink and
\* _invalidate_folder).
THEOREM PathsTypes == Spec => []TypeOK
<1>1. ASSUME Typed PROVE TypeOK
  <2>1. db.links \in [Paths -> 0..MaxId]
    BY <1>1 DEF Typed, Databases
  <2>2. ASSUME NEW nodes \in {tree.folders, tree.files}, NEW n \in nodes
        PROVE  /\ n.nth \in 1..Copies(nodes, n.in, n.name)
               /\ n.in # <<>> => \E d \in tree.folders : At(d) = n.in
    <3>1. Listing(nodes, tree.folders)
      BY <1>1 DEF Typed, HierarchyOK, Shape
    <3>2. /\ n.nth \in Nat \ {0} /\ n.nth <= Copies(nodes, n.in, n.name)
          /\ Copies(nodes, n.in, n.name) \in Nat /\ n.in \in Addresses
      BY <3>1, CopiesNat DEF Listing, Numbered, IsNode
    <3>3. ASSUME n.in # <<>> PROVE \E d \in tree.folders : At(d) = n.in
      <4>1. Len(n.in) \in 1..Len(n.in) /\ SubSeq(n.in, 1, Len(n.in)) = n.in
        BY <3>2, <3>3, EmptySeq, LenProperties, SubSeqFull DEF Addresses
      <4> QED BY <3>1, <4>1 DEF Listing, Hung
    <3> QED BY <3>2, <3>3
  <2>3. cache \in [0..MaxId -> Seq(Paths)]
    BY <1>1 DEF Typed, Caches
  <2>4. \A t \in Threads : cur[t].id \in 0..MaxId /\ cur[t].datapath \in Paths \cup {NoDatapath}
    BY <1>1 DEF Typed
  <2> QED BY <1>1, <2>1, <2>2, <2>3, <2>4 DEF Typed, TypeOK, Points
<1> QED BY <1>1, TypedAlways, PTL

-------------------------------------------------------------------------------
(* What a step of a thread that lists or resolves does to the cache.          *)

\* A thread only moves itself, and enters the second half of jfs_datapath_cache_add from
\* the first.
LEMMA StepMoves ==
  ASSUME Typed, NEW t \in Threads, Step(t)
  PROVE  /\ \A u \in Threads \ {t} : pc'[u] = pc[u] /\ cur'[u] = cur[u]
         /\ pc'[t] = "cache" => Uncache(t)
         /\ UNCHANGED files
<1>1. \A u \in Threads \ {t} : pc'[u] = pc[u] /\ cur'[u] = cur[u]
  <2>1. CASE List(t) \/ InvalidateFolder(t) \/ AddListed(t) \/ Query(t)
    BY <2>1 DEF List, InvalidateFolder, AddListed, Query, Goto, Typed
  <2>2. CASE FolderRow(t) \/ FileRow(t) \/ SkipRow(t) \/ Listed(t)
    BY <2>2 DEF FolderRow, FileRow, SkipRow, Listed, Goto, Return, Typed
  <2>3. CASE Resolve(t) \/ Lookup(t) \/ Read(t)
    BY <2>3 DEF Resolve, Lookup, Read, Goto, Return, Typed
  <2>4. CASE Uncache(t) \/ Cache(t) \/ Fails(t)
    BY <2>4 DEF Uncache, Cache, Fails, Goto, Return, Typed
  <2> QED BY <2>1, <2>2, <2>3, <2>4 DEF Step
<1>2. pc'[t] = "cache" => Uncache(t)
  <2>1. CASE List(t) \/ InvalidateFolder(t) \/ AddListed(t) \/ Query(t)
    BY <2>1 DEF List, InvalidateFolder, AddListed, Query, Goto, Typed
  <2>2. CASE FolderRow(t) \/ FileRow(t) \/ SkipRow(t) \/ Listed(t)
    BY <2>2 DEF FolderRow, FileRow, SkipRow, Listed, Goto, Return, Typed
  <2>3. CASE Resolve(t) \/ Lookup(t) \/ Read(t)
    BY <2>3 DEF Resolve, Lookup, Read, Goto, Return, Typed
  <2>4. CASE Cache(t) \/ Fails(t)
    BY <2>4 DEF Cache, Fails, Goto, Return, Typed
  <2> QED BY <2>1, <2>2, <2>3, <2>4 DEF Step
<1>3. UNCHANGED files
  <2>1. CASE List(t) \/ InvalidateFolder(t) \/ AddListed(t) \/ Query(t)
    BY <2>1 DEF List, InvalidateFolder, AddListed, Query
  <2>2. CASE FolderRow(t) \/ FileRow(t) \/ SkipRow(t) \/ Listed(t)
    BY <2>2 DEF FolderRow, FileRow, SkipRow, Listed
  <2>3. CASE Resolve(t) \/ Lookup(t) \/ Read(t) \/ Uncache(t) \/ Cache(t) \/ Fails(t)
    BY <2>3 DEF Resolve, Lookup, Read, Uncache, Cache, Fails
  <2> QED BY <2>1, <2>2, <2>3 DEF Step
<1> QED BY <1>1, <1>2, <1>3

\* Only Cache adds to the cache.
LEMMA StepCache ==
  ASSUME Typed, NEW t \in Threads, Step(t), ~Cache(t)
  PROVE  /\ \A i \in 0..MaxId : Within(cache'[i], cache[i])
         /\ UNCHANGED <<cache, stale>> \/ stale' = Outdated(cache', {})
<1>1. CASE InvalidateFolder(t)
  <2> DEFINE gone == Inside(tree, tree.files, folder[t])
             drops(i) == Cardinality({f \in gone : f.id = i})
  <2>1. \A i : drops(i) \in Nat
    <3>1. IsFiniteSet(tree.files)
      BY DEF Typed, HierarchyOK, Shape, Listing
    <3>2. \A i : {f \in gone : f.id = i} \subseteq tree.files
      BY DEF Inside
    <3> QED BY <3>1, <3>2, FS_Subset, FS_CardinalityType
  <2>2. cache' = [i \in 0..MaxId |-> SubSeq(cache[i], drops(i) + 1, Len(cache[i]))]
    BY <1>1 DEF InvalidateFolder, Typed, Caches
  <2> HIDE DEF drops
  <2>3. \A i \in 0..MaxId : Within(SubSeq(cache[i], drops(i) + 1, Len(cache[i])), cache[i])
    BY <2>1, RestWithin DEF Typed, Caches
  <2> QED BY <1>1, <2>2, <2>3 DEF InvalidateFolder
<1>2. CASE Uncache(t)
  <2>1. cur[t].id \in 0..MaxId /\ cache \in Caches
    BY DEF Typed
  <2> QED BY <1>2, <2>1, DroppedFacts DEF Uncache
<1>3. CASE UNCHANGED <<cache, stale>>
  BY <1>3, WithinRefl DEF Typed, Caches
<1>4. \/ InvalidateFolder(t) \/ Uncache(t) \/ UNCHANGED <<cache, stale>>
  BY DEF Step, List, AddListed, Query, FolderRow, FileRow, SkipRow, Listed, Resolve, Lookup,
         Read, Fails
<1> QED BY <1>1, <1>2, <1>3, <1>4

-------------------------------------------------------------------------------
(* The cache is bounded.  A thread that is between the two critical sections  *)
(* of jfs_datapath_cache_add has made room for its entry, or found none: its  *)
(* entry is counted already.                                                  *)

Entering(i) == {t \in Threads : pc[t] = "cache" /\ cur[t].id = i}

Bounded ==
  \A i \in 0..MaxId : Len(cache[i]) + Cardinality(Entering(i)) <= Cardinality(Threads)

LEMMA EnteringFacts ==
  \A i : /\ IsFiniteSet(Entering(i)) /\ Cardinality(Entering(i)) \in Nat
         /\ Cardinality(Entering(i)) <= Cardinality(Threads)
<1>1. \A i : Entering(i) \subseteq Threads
  BY DEF Entering
<1> QED BY <1>1, Constants, FS_Subset, FS_CardinalityType

LEMMA BoundedInit == Init => Bounded
<1> SUFFICES ASSUME Init, NEW i \in 0..MaxId
             PROVE  Len(cache[i]) + Cardinality(Entering(i)) <= Cardinality(Threads)
  BY DEF Bounded
<1>1. Len(cache[i]) = 0
  BY DEF Init
<1> QED BY <1>1, EnteringFacts, Constants

LEMMA BoundedNext ==
  Typed /\ Typed' /\ InHand /\ Bounded /\ [Next]_vars => Bounded'
<1> SUFFICES ASSUME Typed, Typed', InHand, Bounded, [Next]_vars, NEW i \in 0..MaxId
             PROVE  Len(cache'[i]) + Cardinality(Entering(i)') <= Cardinality(Threads)
  BY DEF Bounded
<1>1. Len(cache[i]) + Cardinality(Entering(i)) <= Cardinality(Threads)
  BY DEF Bounded
<1>2. Len(cache[i]) \in Nat /\ Len(cache'[i]) \in Nat
  BY LenProperties DEF Typed, Caches
<1>3. /\ IsFiniteSet(Entering(i)') /\ Cardinality(Entering(i)') \in Nat
      /\ Cardinality(Entering(i)') <= Cardinality(Threads)
  <2>1. Entering(i)' \subseteq Threads
    BY DEF Entering
  <2> QED BY <2>1, Constants, FS_Subset, FS_CardinalityType
<1>4. /\ IsFiniteSet(Entering(i)) /\ Cardinality(Entering(i)) \in Nat
      /\ Cardinality(Entering(i)) <= Cardinality(Threads)
  BY EnteringFacts
<1>5. Cardinality(Threads) \in Nat \ {0}
  BY Constants
<1>6. ASSUME Entering(i)' \subseteq Entering(i)
      PROVE  Cardinality(Entering(i)') <= Cardinality(Entering(i))
  BY <1>4, <1>6, FS_Subset
<1>7. ASSUME NEW t \in Threads, Step(t), ~Cache(t), ~Uncache(t)
      PROVE  Len(cache'[i]) + Cardinality(Entering(i)') <= Cardinality(Threads)
  <2>1. Entering(i)' \subseteq Entering(i)
    BY <1>7, StepMoves DEF Entering
  <2>2. Len(cache'[i]) <= Len(cache[i])
    BY <1>7, StepCache DEF Within
  <2> QED BY <1>1, <1>2, <1>3, <1>4, <1>5, <1>6, <2>1, <2>2
<1>8. ASSUME NEW t \in Threads, Uncache(t)
      PROVE  Len(cache'[i]) + Cardinality(Entering(i)') <= Cardinality(Threads)
  <2>1. /\ cache' = Dropped(cache, cur[t].id) /\ cur' = cur /\ pc' = [pc EXCEPT ![t] = "cache"]
        /\ pc[t] = "uncache" /\ cur[t].id \in 0..MaxId /\ cache \in Caches
    BY <1>8 DEF Uncache, Goto, Typed
  <2>2. CASE i # cur[t].id
    <3>1. cache'[i] = cache[i]
      BY <2>1, <2>2, DroppedFacts
    <3>2. Entering(i)' \subseteq Entering(i)
      BY <2>1, <2>2 DEF Entering, Typed
    <3> QED BY <1>1, <1>2, <1>3, <1>4, <1>5, <1>6, <3>1, <3>2
  <2>3. CASE i = cur[t].id
    <3>1. /\ cache[i] = <<>> => cache'[i] = <<>>
          /\ cache[i] # <<>> => Len(cache'[i]) = Len(cache[i]) - 1
      BY <2>1, <2>3, DroppedFacts
    <3>2. CASE cache[i] = <<>>
      <4>1. Len(cache'[i]) = 0
        BY <3>1, <3>2
      <4> QED BY <1>3, <1>5, <4>1
    <3>3. CASE cache[i] # <<>>
      <4>1. Entering(i)' = Entering(i) \cup {t} /\ t \notin Entering(i)
        BY <2>1, <2>3 DEF Entering, Typed
      <4>2. Cardinality(Entering(i)') = Cardinality(Entering(i)) + 1
        BY <1>4, <4>1, FS_AddElement
      <4> QED BY <1>1, <1>2, <1>4, <1>5, <3>1, <3>3, <4>2
    <3> QED BY <3>2, <3>3
  <2> QED BY <2>2, <2>3
<1>9. ASSUME NEW t \in Threads, Cache(t)
      PROVE  Len(cache'[i]) + Cardinality(Entering(i)') <= Cardinality(Threads)
  <2>1. pc[t] = "cache" /\ cache' = Put(cache, cur[t].id, cur[t].datapath)
    BY <1>9 DEF Cache
  <2>2. Linked(cur[t]) /\ cur[t].id \in 0..MaxId /\ cur[t].datapath \in Paths /\ cache \in Caches
    BY <2>1, Constants DEF InHand, Linked, Typed
  <2>3. Step(t)
    BY <1>9 DEF Step
  <2>4. /\ \A u \in Threads \ {t} : pc'[u] = pc[u] /\ cur'[u] = cur[u]
        /\ pc'[t] # "cache"
    BY <2>1, <2>3, StepMoves DEF Uncache
  <2>5. CASE i # cur[t].id
    <3>1. cache'[i] = cache[i]
      BY <2>1, <2>2, <2>5, PutFacts
    <3>2. Entering(i)' \subseteq Entering(i)
      BY <2>4 DEF Entering
    <3> QED BY <1>1, <1>2, <1>3, <1>4, <1>5, <1>6, <3>1, <3>2
  <2>6. CASE i = cur[t].id
    <3>1. Len(cache'[i]) = Len(cache[i]) + 1
      BY <2>1, <2>2, <2>6, PutFacts
    <3>2. Entering(i)' = Entering(i) \ {t} /\ t \in Entering(i)
      BY <2>1, <2>4, <2>6 DEF Entering
    <3>3. Cardinality(Entering(i)') = Cardinality(Entering(i)) - 1
      BY <1>4, <3>2, FS_RemoveElement
    <3> QED BY <1>1, <1>2, <1>4, <1>5, <3>1, <3>3
  <2> QED BY <2>5, <2>6
<1>10. CASE FileStep
  <2>1. Effect /\ UNCHANGED <<pc, cur>>
    BY <1>10, FileStepEffect DEF requests
  <2>2. Entering(i)' = Entering(i)
    BY <2>1 DEF Entering
  <2>3. Len(cache'[i]) <= Len(cache[i]) \/ Len(cache'[i]) <= 1
    BY <2>1 DEF Effect, Modest
  <2>4. CASE Alone
    <3>1. Entering(i) = {}
      BY <2>4 DEF Alone, Entering
    <3>2. Cardinality(Entering(i)') = 0 /\ Cardinality(Entering(i)) = 0
      BY <2>2, <3>1, FS_EmptySet
    <3> QED BY <1>1, <1>2, <1>5, <2>3, <3>2
  <2>5. CASE \E p \in Paths : CreateFile(p)
    <3>1. cache' = cache
      BY <2>5 DEF CreateFile
    <3> QED BY <1>1, <2>2, <3>1
  <2> QED BY <1>10, <2>4, <2>5, FileStepEffect
<1>11. CASE UNCHANGED vars
  <2>1. cache' = cache /\ Entering(i)' = Entering(i)
    BY <1>11 DEF vars, Entering
  <2> QED BY <1>1, <2>1
<1> QED BY <1>7, <1>8, <1>9, <1>10, <1>11, NextSteps

\* The cache is never longer for a jfs_id than there are threads: two that race to
\* enter the same file (jfs_datapath_cache_add) may both do so, but each of them has
\* taken an entry out before.
THEOREM CacheIsBounded == Spec => []CacheBounded
<1>1. Typed /\ Bounded => CacheBounded
  <2> SUFFICES ASSUME Typed, Bounded, NEW i \in 0..MaxId
               PROVE  Len(cache[i]) <= Cardinality(Threads)
    BY DEF CacheBounded
  <2>1. Len(cache[i]) \in Nat
    BY LenProperties DEF Typed, Caches
  <2> QED BY <2>1, EnteringFacts, Constants DEF Bounded
<1>2. Typed /\ InHand /\ Bounded /\ [Next]_vars => Bounded'
  BY BoundedNext, TypedNext
<1> QED BY <1>1, <1>2, BoundedInit, TypedAlways, PTL DEF Spec

-------------------------------------------------------------------------------
(* The cache is current: what goes into it is in the database, and the        *)
(* database only changes for files that the histories name from then on.      *)

LEMMA RightLists ==
  ASSUME Typed
  PROVE  CacheCurrent <=> \A i \in 1..MaxId \ stale : Right(db, cache, i)
<1>1. \A i \in 1..MaxId : DOMAIN cache[i] = 1..Len(cache[i])
  <2>1. \A i \in 1..MaxId : cache[i] \in Seq(Paths)
    BY Constants DEF Typed, Caches
  <2> QED BY <2>1, LenProperties
<1> QED BY <1>1 DEF CacheCurrent, Right

LEMMA CurrentNext ==
  Typed /\ Typed' /\ InHand /\ CacheCurrent /\ [Next]_vars => CacheCurrent'
<1> SUFFICES ASSUME Typed, Typed', InHand, CacheCurrent, [Next]_vars PROVE CacheCurrent'
  OBVIOUS
<1>1. \A i \in 1..MaxId \ stale : Right(db, cache, i)
  BY RightLists
<1>2. SUFFICES ASSUME NEW i \in 1..MaxId \ stale' PROVE Right(db', cache', i)
  <2>1. \A i \in 1..MaxId : DOMAIN cache'[i] = 1..Len(cache'[i])
    <3>1. MaxId \in Nat /\ cache' \in Caches
      BY Constants DEF Typed
    <3>2. \A i \in 1..MaxId : cache'[i] \in Seq(Paths)
      BY <3>1 DEF Caches
    <3> QED BY <3>2, LenProperties
  <2>2. \A i \in 1..MaxId \ stale' : Right(db', cache', i)
    BY <1>2
  <2> QED BY <2>1, <2>2 DEF CacheCurrent, Right
<1>3. i \in 0..MaxId /\ cache \in Caches /\ cache' \in Caches
  BY Constants DEF Typed
<1>4. ASSUME NEW t \in Threads, Step(t), ~Cache(t) PROVE Right(db', cache', i)
  <2>1. /\ Within(cache'[i], cache[i]) /\ db' = db
        /\ UNCHANGED <<cache, stale>> \/ stale' = Outdated(cache', {})
    BY <1>3, <1>4, StepCache, StepMoves DEF files
  <2>2. cache'[i] = <<>> \/ i \notin stale
    BY <2>1, OutdatedNot
  <2> QED BY <1>1, <1>3, <2>1, <2>2, EmptyRight, RightWithin
<1>5. ASSUME NEW t \in Threads, Cache(t) PROVE Right(db', cache', i)
  <2>1. /\ pc[t] = "cache" /\ cache' = Put(cache, cur[t].id, cur[t].datapath)
        /\ UNCHANGED <<db, stale>>
    BY <1>5 DEF Cache, files
  <2>2. Linked(cur[t]) /\ cur[t].id \in 0..MaxId /\ cur[t].datapath \in Paths
    BY <2>1, Constants DEF InHand, Linked
  <2>3. Right(db, cache, i)
    BY <1>1, <2>1
  <2>4. CASE i # cur[t].id
    <3>1. cache'[i] = cache[i]
      <4> DEFINE d == cur[t].id
                 e == cur[t].datapath
      <4>1. d \in 0..MaxId /\ e \in Paths /\ cache' = Put(cache, d, e) /\ i # d
        BY <2>1, <2>2, <2>4
      <4> HIDE DEF d, e
      <4>2. \A k \in 0..MaxId \ {d} : Put(cache, d, e)[k] = cache[k]
        BY <1>3, <4>1, PutFacts
      <4> QED BY <1>3, <4>1, <4>2
    <3> QED BY <2>1, <2>3, <3>1 DEF Right
  <2>5. CASE i = cur[t].id
    <3>1. \A k \in 1..Len(cache'[i]) :
             \/ cache'[i][k] = cur[t].datapath
             \/ \E j \in 1..Len(cache[i]) : cache'[i][k] = cache[i][j]
      <4> DEFINE c == Put(cache, i, cur[t].datapath)
      <4>1. \A k \in 1..Len(c[i]) :
               c[i][k] = cur[t].datapath \/ \E j \in 1..Len(cache[i]) : c[i][k] = cache[i][j]
        BY <1>3, <2>2, PutFacts
      <4>2. cache' = c
        BY <2>1, <2>5
      <4> HIDE DEF c
      <4> QED BY <4>1, <4>2
    <3>2. db.links[cur[t].datapath] = i
      BY <2>2, <2>5 DEF Linked
    <3> QED BY <2>1, <2>3, <3>1, <3>2 DEF Right
  <2> QED BY <2>4, <2>5
<1>6. CASE FileStep
  <2>1. i \in 1..MaxId \ stale' /\ (i \notin stale => Right(db, cache, i))
    BY <1>1
  <2> QED BY <1>6, <2>1, FileStepEffect DEF Effect
<1>7. CASE UNCHANGED vars
  BY <1>1, <1>7 DEF vars, Right
<1> QED BY <1>4, <1>5, <1>6, <1>7, NextSteps

\* A jfs_id is answered from the cache with the path its row has, unless the row went or
\* moved while the jfs_id was cached, as by a static path, by a rename that failed on the
\* disk after its transaction (jfs_file_do_rename), or to a dynamic name, which is entered
\* under the path the file had (jfs_file_rename).
\* No interleaving of listing, resolving (jfs_datapath_cache_miss) and creating files
\* enters a path that is wrong.
THEOREM CacheIsCurrent == Spec => []CacheCurrent
<1>1. Init => CacheCurrent
  <2>1. Init => \A i \in 1..MaxId : cache[i] = <<>>
    BY Constants DEF Init
  <2> QED BY <2>1 DEF CacheCurrent
<1>2. Typed /\ InHand /\ CacheCurrent /\ [Next]_vars => CacheCurrent'
  BY CurrentNext, TypedNext
<1> QED BY <1>1, <1>2, TypedAlways, PTL DEF Spec

-------------------------------------------------------------------------------
(* What was listed is found.  The invariant says of a listing nothing         *)
(* disturbs that the files of its folder are the rows it has shown.           *)

Busy(t) == folder[t] # NoFolder

Past(t) == Busy(t) /\ pc[t] \notin {"invalidate", "add"}

In(t, name) == Append(folder[t], name)

Sight(path, id) == [path |-> path, id |-> id]

\* Who lists a folder where another one lists is disturbed.
Overlaps ==
  /\ \A t, u \in Threads :
       Busy(t) /\ Busy(u) /\ Disturbs(folder[u], folder[t]) => t \in disturbed
  /\ \A t, u \in Threads : Busy(t) /\ folder[t] = folder[u] => t = u

\* What is shown is in a folder that lists such things.
Kinds ==
  \A s \in shown : \E f \in IF s.id = NoId THEN OfFolders ELSE OfFiles : \E name \in Names :
    s = Sight(Append(f, name), s.id)

\* Below a folder that was emptied is only what it has shown since.
Fresh ==
  \A t \in Threads : Busy(t) /\ pc[t] # "invalidate" =>
    \A s \in shown : IsStrictPrefix(folder[t], s.path) =>
      pc[t] # "add" /\ Front(s.path) = folder[t]

\* What a query selected.
Selected ==
  \A t \in Threads : \A r \in rows[t] :
    /\ folder[t] \in OfFolders => r.datapath = Append(Datapath(folder[t]), SubQuery)
    /\ folder[t] \in OfFiles => r = Row(Last(r.datapath), r.id, r.datapath)

\* In a folder that lists files are those it has shown, and none it has still to show.
OwnRows(t) ==
  Past(t) /\ folder[t] \in OfFiles /\ t \notin disturbed =>
    \A name \in Names :
      /\ FolderAt(tree, In(t, name)) = {}
      /\ \A n \in Standing(tree, tree.files, In(t, name)) :
           /\ Sight(In(t, name), n.id) \in shown
           /\ pc[t] # "query"
           /\ \A r \in rows[t] : r.name = name => r.id # n.id

Mine == \A t \in Threads : OwnRows(t)

\* A file that was shown stands at its path, with others that were shown there.
FileFound(h, seen, s) ==
  /\ FolderAt(h, s.path) = {}
  /\ \A n \in Standing(h, h.files, s.path) : Sight(s.path, n.id) \in seen
  /\ \E n \in Standing(h, h.files, s.path) : n.id = s.id
  /\ \A m, n \in Standing(h, h.files, s.path) : m.id = n.id => m = n

FolderFound(h, s) ==
  \E d \in FolderAt(h, s.path) : d.datapath = Datapath(s.path)

Found ==
  \A s \in shown : IF s.id = NoId THEN FolderFound(tree, s) ELSE FileFound(tree, shown, s)

Views == Overlaps /\ Kinds /\ Fresh /\ Selected /\ Mine /\ Found

\* Which folders are in which.
LEMMA InFolder ==
  ASSUME NEW f \in Seq(Names), NEW g \in Seq(Names), NEW x \in Names, NEW y \in Names
  PROVE  /\ IsStrictPrefix(Append(g, x), Append(f, y)) => IsStrictPrefix(g, f)
         /\ IsPrefix(Append(g, x), Append(f, y)) => (g = f /\ x = y) \/ IsStrictPrefix(g, f)
         /\ IsStrictPrefix(g, Append(f, y)) <=> g = f \/ IsStrictPrefix(g, f)
         /\ IsPrefix(Append(g, x), f) => IsStrictPrefix(g, f)
         /\ Append(g, x) = Append(f, y) => g = f /\ x = y
         /\ IsPrefix(f, f)
<1>1. /\ IsStrictPrefix(Append(g, x), Append(f, y)) <=> IsPrefix(Append(g, x), f)
      /\ IsStrictPrefix(g, Append(f, y)) <=> IsPrefix(g, f)
  BY AppendPrefix
<1>2. /\ IsPrefix(Append(g, x), f) => IsStrictPrefix(g, f)
      /\ Append(g, x) = Append(f, y) => g = f /\ x = y
  BY AppendPrefix
<1>3. IsPrefix(f, f)
  BY PrefixFacts, LenProperties
<1> QED BY <1>1, <1>2, <1>3 DEF IsStrictPrefix

LEMMA KindFacts ==
  ASSUME Kinds, NEW s \in shown
  PROVE  /\ s = Sight(s.path, s.id)
         /\ s.path \in Seq(Names) /\ s.path # <<>>
         /\ Front(s.path) \in Seq(Names) /\ Last(s.path) \in Names
         /\ s.path = Append(Front(s.path), Last(s.path))
         /\ s.id = NoId => Front(s.path) \in OfFolders
         /\ s.id # NoId => Front(s.path) \in OfFiles
<1>1. PICK f \in IF s.id = NoId THEN OfFolders ELSE OfFiles : \E name \in Names :
             s = Sight(Append(f, name), s.id)
  BY DEF Kinds
<1>2. PICK name \in Names : s = Sight(Append(f, name), s.id)
  BY <1>1
<1>3. s.path = Append(f, name) /\ f \in Seq(Names)
  BY <1>2, Constants DEF Sight, Folders
<1>4. /\ Append(f, name) \in Seq(Names) /\ Append(f, name) # <<>>
      /\ Front(Append(f, name)) = f /\ Last(Append(f, name)) = name
  BY <1>3, AppendPrefix
<1> QED BY <1>1, <1>2, <1>3, <1>4

\* A value listed in a folder is .jfs_sub_query in the directory of that folder, however
\* deep it is.
LEMMA ValueDatapath ==
  ASSUME NEW g \in OfFolders, NEW x \in Names
  PROVE  Datapath(Append(g, x)) = Append(Datapath(g), SubQuery)
<1> DEFINE f == Append(g, x)
           n == Len(g)
           S == Names \cup {SubQuery}
           below(h, i) == \E k \in OfFolders : IsPrefix(k, h) /\ Len(k) < i
           a == Datapath(f)
           b == Datapath(g)
           c == Append(b, SubQuery)
<1>1. g \in Seq(Names) /\ n \in Nat /\ OfFolders \subseteq Seq(Names)
  BY Constants, LenProperties DEF Folders
<1>2. /\ f \in Seq(Names) /\ Len(f) = n + 1
      /\ \A i \in 1..n : f[i] = g[i] /\ f[i] \in Names
  BY <1>1, AppendProperties, ElementOfSeq
<1>3. IsPrefix(g, f)
  BY <1>1, AppendPrefix DEF IsStrictPrefix
<1> HIDE DEF f
<1>4. ASSUME NEW k \in OfFolders, Len(k) <= n
      PROVE  IsPrefix(k, f) <=> IsPrefix(k, g)
  <2>1. k \in Seq(Names) /\ Len(k) \in Nat
    BY <1>1, LenProperties
  <2>2. \A i \in 1..Len(k) : f[i] = g[i]
    BY <1>1, <1>2, <1>4, <2>1
  <2>3. /\ IsPrefix(k, f) <=> \A i \in 1..Len(k) : k[i] = f[i]
        /\ IsPrefix(k, g) <=> \A i \in 1..Len(k) : k[i] = g[i]
    BY <1>1, <1>2, <1>4, <2>1, PrefixFacts
  <2> QED BY <2>2, <2>3
<1>5. \A i \in 1..n : below(f, i) <=> below(g, i)
  <2> SUFFICES ASSUME NEW i \in 1..n, NEW k \in OfFolders, Len(k) < i
               PROVE  IsPrefix(k, f) <=> IsPrefix(k, g)
    OBVIOUS
  <2>1. Len(k) \in Nat
    BY <1>1, LenProperties
  <2>2. Len(k) <= n
    BY <1>1, <2>1
  <2> QED BY <1>4, <2>2
<1>6. below(f, n + 1)
  BY <1>1, <1>3
<1>7. /\ a = [i \in 1..(n + 1) |-> IF below(f, i) THEN SubQuery ELSE f[i]]
      /\ b = [i \in 1..n |-> IF below(g, i) THEN SubQuery ELSE g[i]]
  BY <1>1, <1>2, LenProperties DEF Datapath
<1> HIDE DEF below, a, b, n, S
<1>8. /\ \A i \in 1..n : a[i] = b[i] /\ a[i] \in S /\ b[i] \in S
      /\ a[n + 1] = SubQuery /\ a[n + 1] \in S
  BY <1>1, <1>2, <1>5, <1>6, <1>7 DEF S
<1>9. a \in Seq(S) /\ Len(a) = n + 1 /\ b \in Seq(S) /\ Len(b) = n
  <2>1. \A i \in 1..(n + 1) : a[i] \in S
    BY <1>1, <1>8
  <2> QED BY <1>1, <1>7, <1>8, <2>1
<1>10. /\ c \in Seq(S) /\ Len(c) = n + 1
       /\ \A i \in 1..n : c[i] = b[i]
       /\ c[n + 1] = SubQuery
  <2>1. SubQuery \in S
    BY DEF S
  <2> QED BY <1>9, <2>1, AppendProperties
<1> HIDE DEF c
<1>11. \A i \in 1..Len(a) : a[i] = c[i]
  BY <1>1, <1>8, <1>9, <1>10
<1>12. a = c
  BY <1>9, <1>10, <1>11, SeqEqual
<1> QED BY <1>12 DEF a, b, c, f

\* A thread that only moves on.
LEMMA QuietViews ==
  ASSUME Typed, Views, NEW t \in Threads, UNCHANGED <<tree, shown>>,
         \A u \in Threads \ {t} : pc'[u] = pc[u] /\ folder'[u] = folder[u] /\ rows'[u] = rows[u],
         \/ folder'[t] = NoFolder /\ rows'[t] = {} /\ disturbed' = disturbed \ {t}
         \/ /\ folder'[t] = folder[t] /\ rows'[t] \subseteq rows[t] /\ disturbed' = disturbed
            /\ pc[t] \notin {"invalidate", "add"}
            /\ pc'[t] \notin {"invalidate", "add", "query"}
  PROVE  Views'
<1>1. ASSUME NEW u \in Threads, Busy(u)'
      PROVE  /\ Busy(u) /\ folder'[u] = folder[u] /\ rows'[u] \subseteq rows[u]
             /\ u \in disturbed' <=> u \in disturbed
             /\ pc'[u] = pc[u] \/ (pc[u] \notin {"invalidate", "add"}
                                     /\ pc'[u] \notin {"invalidate", "add", "query"})
  BY <1>1 DEF Busy
<1>2. Overlaps'
  BY <1>1 DEF Views, Overlaps, Busy
<1>3. Kinds'
  BY DEF Views, Kinds
<1>4. Fresh'
  BY <1>1 DEF Views, Fresh, Busy
<1>5. Selected'
  <2>1. NoFolder \notin OfFolders /\ NoFolder \notin OfFiles
    BY Constants
  <2> QED BY <1>1, <2>1 DEF Views, Selected, Busy
<1>6. Mine'
  <2> SUFFICES ASSUME NEW u \in Threads, Past(u)', folder'[u] \in OfFiles, u \notin disturbed',
                      NEW name \in Names
               PROVE  /\ FolderAt(tree', In(u, name)') = {}
                      /\ \A n \in Standing(tree', tree'.files, In(u, name)') :
                           /\ Sight(In(u, name)', n.id) \in shown'
                           /\ pc'[u] # "query"
                           /\ \A r \in rows'[u] : r.name = name => r.id # n.id
    BY DEF Mine, OwnRows
  <2>1. /\ folder'[u] = folder[u] /\ rows'[u] \subseteq rows[u] /\ u \notin disturbed /\ Past(u)
        /\ pc[u] # "query" => pc'[u] # "query"
    BY <1>1 DEF Past
  <2>2. /\ FolderAt(tree, In(u, name)) = {}
        /\ \A n \in Standing(tree, tree.files, In(u, name)) :
             /\ Sight(In(u, name), n.id) \in shown
             /\ pc[u] # "query"
             /\ \A r \in rows[u] : r.name = name => r.id # n.id
    BY <2>1 DEF Views, Mine, OwnRows
  <2>3. In(u, name)' = In(u, name)
    BY <2>1 DEF In
  <2> QED BY <2>1, <2>2, <2>3
<1>7. Found'
  BY DEF Views, Found
<1> QED BY <1>2, <1>3, <1>4, <1>5, <1>6, <1>7 DEF Views

LEMMA ListViews ==
  ASSUME Typed, InHand, Views, NEW t \in Threads, List(t)
  PROVE  Views'
<1>1. PICK f \in Folders :
        /\ \A u \in Threads : folder[u] # f
        /\ folder' = [folder EXCEPT ![t] = f]
        /\ disturbed' = disturbed
             \cup {u \in Threads : folder[u] # NoFolder /\ Disturbs(f, folder[u])}
             \cup {u \in {t} : \E v \in Threads : folder[v] # NoFolder /\ Disturbs(folder[v], f)}
  BY Constants DEF List
<1>2. /\ pc[t] = "idle" /\ folder[t] = NoFolder /\ rows[t] = {}
      /\ UNCHANGED <<tree, rows, shown>>
  BY DEF List, InHand
<1>3. /\ pc' = [pc EXCEPT ![t] = "invalidate"]
      /\ pc'[t] = "invalidate" /\ folder'[t] = f
      /\ \A u \in Threads \ {t} : pc'[u] = pc[u] /\ folder'[u] = folder[u]
  BY <1>1 DEF List, Goto, Typed
<1>4. f # NoFolder /\ ~Disturbs(f, f)
  BY Constants DEF Disturbs, IsStrictPrefix
<1>5. Overlaps'
  <2>1. ASSUME NEW u \in Threads, NEW v \in Threads, Busy(u)', Busy(v)',
               Disturbs(folder'[v], folder'[u])
        PROVE  u \in disturbed'
    <3>1. CASE u = t
      <4>1. v # t
        BY <1>3, <1>4, <2>1, <3>1
      <4> QED BY <1>1, <1>3, <2>1, <3>1, <4>1 DEF Busy
    <3>2. CASE v = t /\ u # t
      BY <1>1, <1>3, <2>1, <3>2 DEF Busy
    <3>3. CASE v # t /\ u # t
      BY <1>1, <1>3, <2>1, <3>3 DEF Busy, Views, Overlaps
    <3> QED BY <3>1, <3>2, <3>3
  <2>2. ASSUME NEW u \in Threads, NEW v \in Threads, Busy(u)', folder'[u] = folder'[v]
        PROVE  u = v
    BY <1>1, <1>3, <2>2 DEF Busy, Views, Overlaps
  <2>3. \A g, k : Disturbs(g, k)' <=> Disturbs(g, k)
    BY DEF Disturbs
  <2> QED BY <2>1, <2>2, <2>3 DEF Overlaps, Busy
<1>6. Kinds' /\ Found'
  BY <1>2 DEF Views, Kinds, Found
<1>7. Fresh'
  BY <1>2, <1>3 DEF Views, Fresh, Busy
<1>8. Selected'
  BY <1>2, <1>3 DEF Views, Selected
<1>9. Mine'
  <2> SUFFICES ASSUME NEW u \in Threads, Past(u)', folder'[u] \in OfFiles, u \notin disturbed',
                      NEW name \in Names
               PROVE  /\ FolderAt(tree', In(u, name)') = {}
                      /\ \A n \in Standing(tree', tree'.files, In(u, name)') :
                           /\ Sight(In(u, name)', n.id) \in shown'
                           /\ pc'[u] # "query"
                           /\ \A r \in rows'[u] : r.name = name => r.id # n.id
    BY DEF Mine, OwnRows
  <2>1. u # t /\ folder'[u] = folder[u] /\ pc'[u] = pc[u]
    BY <1>3 DEF Past
  <2>2. u \notin disturbed /\ Past(u) /\ In(u, name)' = In(u, name)
    BY <1>1, <2>1 DEF Past, Busy, In
  <2> QED BY <1>2, <2>1, <2>2 DEF Views, Mine, OwnRows
<1> QED BY <1>5, <1>6, <1>7, <1>8, <1>9 DEF Views

LEMMA QueryViews ==
  ASSUME Typed, InHand, Views, NEW t \in Threads, Query(t)
  PROVE  Views'
<1>1. /\ pc[t] = "query" /\ Busy(t) /\ UNCHANGED <<tree, folder, shown, disturbed>>
      /\ pc' = [pc EXCEPT ![t] = "row"]
  BY DEF Query, Goto, InHand, Busy
<1>2. /\ pc'[t] = "row"
      /\ \A u \in Threads \ {t} : pc'[u] = pc[u] /\ rows'[u] = rows[u]
  BY <1>1 DEF Query, Typed
<1>3. /\ \A r \in rows'[t] :
           /\ folder[t] \in OfFolders => r.datapath = Append(Datapath(folder[t]), SubQuery)
           /\ folder[t] \in OfFiles => r = Row(Last(r.datapath), r.id, r.datapath)
  <2>1. CASE folder[t] \in OfFiles
    <3>1. PICK ps \in SUBSET Paths :
            rows' = [rows EXCEPT ![t] = {Row(Last(p), db.links[p], p) : p \in ps}]
      BY <2>1, Constants DEF Query
    <3>2. rows'[t] = {Row(Last(p), db.links[p], p) : p \in ps}
      BY <3>1 DEF Typed
    <3> QED BY <2>1, <3>2, Constants DEF Row
  <2>2. CASE folder[t] \in OfFolders
    <3>1. PICK vs \in SUBSET Values :
            rows' = [rows EXCEPT ![t] =
                       {Row(v, NoId, Append(Datapath(folder[t]), SubQuery)) : v \in vs}]
      BY <2>2, Constants DEF Query
    <3>2. rows'[t] = {Row(v, NoId, Append(Datapath(folder[t]), SubQuery)) : v \in vs}
      BY <3>1 DEF Typed
    <3> QED BY <2>2, <3>2, Constants DEF Row
  <2> QED BY <2>1, <2>2
<1>4. Overlaps' /\ Kinds' /\ Found'
  BY <1>1 DEF Views, Overlaps, Kinds, Found, Busy
<1>5. Fresh'
  BY <1>1, <1>2 DEF Views, Fresh, Busy
<1>6. Selected'
  BY <1>1, <1>2, <1>3 DEF Views, Selected
<1>7. Mine'
  <2> SUFFICES ASSUME NEW u \in Threads, Past(u)', folder'[u] \in OfFiles, u \notin disturbed',
                      NEW name \in Names
               PROVE  /\ FolderAt(tree', In(u, name)') = {}
                      /\ \A n \in Standing(tree', tree'.files, In(u, name)') :
                           /\ Sight(In(u, name)', n.id) \in shown'
                           /\ pc'[u] # "query"
                           /\ \A r \in rows'[u] : r.name = name => r.id # n.id
    BY DEF Mine, OwnRows
  <2>1. Past(u) /\ In(u, name)' = In(u, name) /\ folder[u] \in OfFiles /\ u \notin disturbed
    BY <1>1, <1>2 DEF Past, Busy, In
  <2>2. /\ FolderAt(tree, In(u, name)) = {}
        /\ \A n \in Standing(tree, tree.files, In(u, name)) :
             /\ Sight(In(u, name), n.id) \in shown
             /\ pc[u] # "query"
             /\ \A r \in rows[u] : r.name = name => r.id # n.id
    BY <2>1 DEF Views, Mine, OwnRows
  <2> QED BY <1>1, <1>2, <2>1, <2>2
<1> QED BY <1>4, <1>5, <1>6, <1>7 DEF Views

\* A listing nothing disturbs is not around or in another one.
LEMMA Undisturbed ==
  ASSUME Typed, Views, NEW t \in Threads, NEW u \in Threads \ {t}, Busy(t), Busy(u),
         folder[u] \in OfFiles, u \notin disturbed
  PROVE  /\ folder[u] \in Seq(Names) /\ folder[t] \in Seq(Names) /\ folder[u] # folder[t]
         /\ ~IsStrictPrefix(folder[t], folder[u]) /\ ~IsStrictPrefix(folder[u], folder[t])
<1>1. ~Disturbs(folder[t], folder[u]) /\ folder[u] # folder[t]
  BY DEF Views, Overlaps
<1> QED BY <1>1, FolderPath DEF Disturbs, Busy

\* The rows of others stay what they are.
LEMMA OthersOwn ==
  ASSUME Typed, Views, NEW t \in Threads, UNCHANGED <<folder, disturbed>>,
         \A u \in Threads \ {t} : pc'[u] = pc[u] /\ rows'[u] = rows[u],
         NEW u \in Threads \ {t},
         \A name \in Names : Busy(u) /\ folder[u] \in OfFiles /\ u \notin disturbed =>
           /\ FolderAt(tree, In(u, name)) = {} => FolderAt(tree', In(u, name)) = {}
           /\ Standing(tree', tree'.files, In(u, name)) =
                Standing(tree, tree.files, In(u, name))
           /\ \A id : Sight(In(u, name), id) \in shown => Sight(In(u, name), id) \in shown'
  PROVE  OwnRows(u)'
<1> SUFFICES ASSUME Past(u)', folder'[u] \in OfFiles, u \notin disturbed', NEW name \in Names
             PROVE  /\ FolderAt(tree', In(u, name)') = {}
                    /\ \A n \in Standing(tree', tree'.files, In(u, name)') :
                         /\ Sight(In(u, name)', n.id) \in shown'
                         /\ pc'[u] # "query"
                         /\ \A r \in rows'[u] : r.name = name => r.id # n.id
  BY DEF OwnRows
<1>1. Past(u) /\ Busy(u) /\ In(u, name)' = In(u, name) /\ folder[u] \in OfFiles /\ u \notin disturbed
  BY DEF Past, Busy, In
<1>2. /\ FolderAt(tree, In(u, name)) = {}
      /\ \A n \in Standing(tree, tree.files, In(u, name)) :
           /\ Sight(In(u, name), n.id) \in shown
           /\ pc[u] # "query"
           /\ \A r \in rows[u] : r.name = name => r.id # n.id
  BY <1>1 DEF Views, Mine, OwnRows
<1>3. /\ FolderAt(tree', In(u, name)) = {}
      /\ Standing(tree', tree'.files, In(u, name)) = Standing(tree, tree.files, In(u, name))
      /\ \A id : Sight(In(u, name), id) \in shown => Sight(In(u, name), id) \in shown'
  BY <1>1, <1>2
<1> QED BY <1>1, <1>2, <1>3

LEMMA InvalidateViews ==
  ASSUME Typed, InHand, Views, NEW t \in Threads, InvalidateFolder(t)
  PROVE  Views'
<1> DEFINE f == folder[t]
<1>1. /\ pc[t] = "invalidate" /\ Busy(t) /\ UNCHANGED <<folder, rows, disturbed>>
      /\ tree' = Invalidate(tree, f)
      /\ shown' = {s \in shown : ~IsStrictPrefix(f, s.path)}
  BY DEF InvalidateFolder, InHand, Busy
<1>2. pc'[t] = "add" /\ \A u \in Threads \ {t} : pc'[u] = pc[u]
  BY DEF InvalidateFolder, Goto, Typed
<1>3. Shape(tree) /\ f \in Seq(Names) /\ \A name \in Names : In(t, name) \in Seq(Names)
  BY <1>1, FolderPath DEF Typed, HierarchyOK, Busy, In
<1>4. \A p : ~IsStrictPrefix(f, p) =>
        /\ FolderAt(tree', p) = FolderAt(tree, p)
        /\ Standing(tree', tree'.files, p) = Standing(tree, tree.files, p)
  BY <1>1, <1>3, InvalidateEffect
<1> HIDE DEF f
<1>5. Overlaps' /\ Selected'
  BY <1>1 DEF Views, Overlaps, Selected, Busy
<1>6. Kinds'
  BY <1>1 DEF Views, Kinds
<1>7. Fresh'
  BY <1>1, <1>2 DEF Views, Fresh, Busy, f
<1>8. ASSUME NEW u \in Threads \ {t} PROVE OwnRows(u)'
  <2> SUFFICES ASSUME NEW name \in Names, Busy(u), folder[u] \in OfFiles, u \notin disturbed
               PROVE  ~IsStrictPrefix(f, In(u, name))
    <3> DEFINE p(name) == In(u, name)
    <3>1. \A name \in Names : \A id : Sight(p(name), id).path = p(name)
      BY DEF Sight
    <3>2. \A name \in Names : ~IsStrictPrefix(f, p(name)) =>
            \A id : Sight(p(name), id) \in shown => Sight(p(name), id) \in shown'
      BY <1>1, <3>1
    <3> QED BY <1>1, <1>2, <1>4, <3>2, OthersOwn
  <2>1. /\ folder[u] \in Seq(Names) /\ folder[u] # f /\ ~IsStrictPrefix(f, folder[u])
    BY <1>1, Undisturbed DEF f
  <2> QED BY <1>3, <2>1, InFolder DEF In
<1>9. OwnRows(t)'
  BY <1>2 DEF OwnRows, Past
<1>10. Mine'
  BY <1>8, <1>9 DEF Mine
<1>11. Found'
  <2> SUFFICES ASSUME NEW s \in shown'
               PROVE  IF s.id = NoId THEN FolderFound(tree', s) ELSE FileFound(tree', shown', s)
    BY DEF Found, FolderFound, FileFound
  <2>1. s \in shown /\ ~IsStrictPrefix(f, s.path)
    BY <1>1
  <2>2. IF s.id = NoId THEN FolderFound(tree, s) ELSE FileFound(tree, shown, s)
    BY <2>1 DEF Views, Found
  <2>3. \A id : Sight(s.path, id) \in shown => Sight(s.path, id) \in shown'
    BY <1>1, <2>1 DEF Sight
  <2> QED BY <1>4, <2>1, <2>2, <2>3 DEF FolderFound, FileFound
<1> QED BY <1>5, <1>6, <1>7, <1>10, <1>11 DEF Views

LEMMA AddListedViews ==
  ASSUME Typed, InHand, Views, NEW t \in Threads, AddListed(t)
  PROVE  Views'
<1> DEFINE f == folder[t]
<1>1. /\ pc[t] = "add" /\ Busy(t) /\ UNCHANGED <<folder, rows, disturbed>>
      /\ tree' = AddFolder(tree, f, Datapath(f))
      /\ shown' = {s \in shown : s.id # NoId => ~IsPrefix(s.path, f)}
  BY DEF AddListed, InHand, Busy
<1>2. pc'[t] = "query" /\ \A u \in Threads \ {t} : pc'[u] = pc[u]
  BY DEF AddListed, Goto, Typed
<1>3. /\ Shape(tree) /\ f \in Seq(Names) /\ f # <<>> /\ f \in Folders
      /\ \A name \in Names : In(t, name) \in Seq(Names)
  BY <1>1, FolderPath DEF Typed, HierarchyOK, Busy, In
<1>4. /\ \E d \in FolderAt(tree', f) : d.datapath = Datapath(f)
      /\ \A p : p # f /\ ~IsStrictPrefix(f, p) => FolderAt(tree, p) \subseteq FolderAt(tree', p)
      /\ \A p : FolderAt(tree, p) = {} /\ ~IsPrefix(p, f) => FolderAt(tree', p) = {}
      /\ \A p : IsStrictPrefix(f, p) =>
                FolderAt(tree', p) = {} /\ Standing(tree', tree'.files, p) = {}
      /\ \A p : ~IsStrictPrefix(f, p) =>
                Standing(tree', tree'.files, p) = Standing(tree, tree.files, p)
  <2> DEFINE e == tree'
             h == tree
             d == Datapath(f)
  <2>1. e = AddFolder(h, f, d) /\ Shape(h) /\ f \in Seq(Names) /\ f # <<>>
    BY <1>1, <1>3
  <2> HIDE DEF e, d, f, h
  <2>2. /\ \E x \in FolderAt(e, f) : x.datapath = d
        /\ \A p : p # f /\ ~IsStrictPrefix(f, p) => FolderAt(h, p) \subseteq FolderAt(e, p)
        /\ \A p : FolderAt(h, p) = {} /\ ~IsPrefix(p, f) => FolderAt(e, p) = {}
        /\ \A p : IsStrictPrefix(f, p) => FolderAt(e, p) = {}
    BY ONLY <2>1, AddFolderEffect
  <2>3. \A p : IsStrictPrefix(f, p) => \A n : n \notin Standing(e, e.files, p)
    BY ONLY <2>1, AddFolderEffect
  <2>4. \A p : ~IsStrictPrefix(f, p) => Standing(e, e.files, p) = Standing(h, h.files, p)
    BY ONLY <2>1, AddFolderEffect
  <2> QED BY <2>2, <2>3, <2>4 DEF e, d, h
<1> HIDE DEF f
<1>5. Overlaps' /\ Selected'
  BY <1>1 DEF Views, Overlaps, Selected, Busy
<1>6. Kinds'
  BY <1>1 DEF Views, Kinds
<1>7. Fresh'
  <2>1. \A s \in shown : ~IsStrictPrefix(f, s.path)
    BY <1>1 DEF Views, Fresh, f
  <2> QED BY <1>1, <1>2, <2>1 DEF Views, Fresh, Busy, f
<1>8. ASSUME NEW u \in Threads \ {t} PROVE OwnRows(u)'
  <2> SUFFICES ASSUME NEW name \in Names, Busy(u), folder[u] \in OfFiles, u \notin disturbed
               PROVE  ~IsStrictPrefix(f, In(u, name)) /\ ~IsPrefix(In(u, name), f)
    <3> DEFINE p(name) == In(u, name)
    <3>1. \A name \in Names : \A id : Sight(p(name), id).path = p(name)
      BY DEF Sight
    <3>2. \A name \in Names : ~IsPrefix(p(name), f) =>
            \A id : Sight(p(name), id) \in shown => Sight(p(name), id) \in shown'
      BY <1>1, <3>1
    <3> QED BY <1>1, <1>2, <1>4, <3>2, OthersOwn
  <2>1. /\ folder[u] \in Seq(Names) /\ folder[u] # f /\ ~IsStrictPrefix(f, folder[u])
        /\ ~IsStrictPrefix(folder[u], f)
    BY <1>1, Undisturbed DEF f
  <2> QED BY <1>3, <2>1, InFolder DEF In
<1>9. OwnRows(t)'
  <2>1. \A name \in Names : IsStrictPrefix(f, In(t, name))
    BY <1>3, InFolder DEF In, f
  <2>2. \A name \in Names : In(t, name)' = In(t, name)
    BY <1>1 DEF In
  <2> QED BY <1>4, <2>1, <2>2 DEF OwnRows
<1>10. Mine'
  BY <1>8, <1>9 DEF Mine
<1>11. Found'
  <2> SUFFICES ASSUME NEW s \in shown'
               PROVE  IF s.id = NoId THEN FolderFound(tree', s) ELSE FileFound(tree', shown', s)
    BY DEF Found, FolderFound, FileFound
  <2>1. s \in shown /\ (s.id # NoId => ~IsPrefix(s.path, f))
    BY <1>1
  <2>2. IF s.id = NoId THEN FolderFound(tree, s) ELSE FileFound(tree, shown, s)
    BY <2>1 DEF Views, Found
  <2>3. ~IsStrictPrefix(f, s.path)
    BY <1>1, <2>1 DEF Views, Fresh, f
  <2>4. CASE s.id # NoId
    <3>1. \A id : id # NoId /\ Sight(s.path, id) \in shown => Sight(s.path, id) \in shown'
      BY <1>1, <2>1, <2>4 DEF Sight
    <3>2. \A id : Sight(s.path, id) \in shown => id # NoId
      <4> SUFFICES ASSUME Sight(s.path, NoId) \in shown PROVE FALSE
        OBVIOUS
      <4>1. Front(s.path) \in OfFiles
        BY <2>1, <2>4, KindFacts DEF Views
      <4>2. Sight(s.path, NoId).path = s.path /\ Sight(s.path, NoId).id = NoId
        BY DEF Sight
      <4>3. Front(s.path) \in OfFolders
        BY <4>2, KindFacts DEF Views
      <4> QED BY <4>1, <4>3, Constants
    <3> QED BY <1>4, <2>1, <2>2, <2>3, <2>4, <3>1, <3>2 DEF FileFound
  <2>5. CASE s.id = NoId /\ s.path # f
    BY <1>4, <2>2, <2>3, <2>5 DEF FolderFound
  <2>6. CASE s.id = NoId /\ s.path = f
    BY <1>4, <2>6 DEF FolderFound
  <2> QED BY <2>4, <2>5, <2>6
<1> QED BY <1>5, <1>6, <1>7, <1>10, <1>11 DEF Views

\* What showing a row does to what is to be found.
LEMMA ShowEffect ==
  ASSUME NEW t \in Threads, NEW path, NEW id, Show(t, path, id)
  PROVE  /\ \A s \in shown' : s \in shown \/ (s = Sight(path, id) /\ t \notin disturbed)
         /\ \A s \in shown' : s.id # NoId => ~IsStrictPrefix(s.path, path)
         /\ t \in disturbed => \A s \in shown' : s.path # path
         /\ \A s \in shown : s.path # path /\ (s.id # NoId => ~IsStrictPrefix(s.path, path))
                              => s \in shown'
         /\ t \notin disturbed => /\ Sight(path, id) \in shown'
                                  /\ \A s \in shown : s.path = path => s \in shown'
<1> DEFINE visible == {s \in shown : s.id # NoId => ~IsStrictPrefix(s.path, path)}
<1>1. shown' = IF t \in disturbed THEN {s \in visible : s.path # path}
               ELSE visible \cup {Sight(path, id)}
  BY DEF Show, Sight
<1>2. Sight(path, id).path = path
  BY DEF Sight
<1>3. ~IsStrictPrefix(path, path)
  BY DEF IsStrictPrefix
<1> QED BY <1>1, <1>2, <1>3

\* Nothing that was shown is in a folder that is only listed now.
LEMMA RowFresh ==
  ASSUME Typed, Views, NEW t \in Threads, Busy(t), pc[t] = "row", NEW name \in Names,
         NEW id, UNCHANGED pc \/ pc' = [pc EXCEPT ![t] = "uncache"],
         UNCHANGED <<folder, disturbed>>,
         \A s \in shown' : s \in shown \/ (s = Sight(In(t, name), id) /\ t \notin disturbed)
  PROVE  /\ Fresh'
         /\ \A s \in shown : ~IsStrictPrefix(In(t, name), s.path)
<1> DEFINE f == folder[t]
<1>1. f \in Seq(Names) /\ f # <<>>
  BY FolderPath DEF Busy
<1>2. Front(In(t, name)) = f /\ Sight(In(t, name), id).path = In(t, name)
  BY <1>1, AppendPrefix DEF In, Sight
<1>3. Fresh'
  <2> SUFFICES ASSUME NEW u \in Threads, Busy(u), pc'[u] # "invalidate",
                      NEW s \in shown', IsStrictPrefix(folder[u], s.path)
               PROVE  pc'[u] # "add" /\ Front(s.path) = folder[u]
    BY DEF Fresh, Busy
  <2>1. /\ pc[u] # "invalidate" /\ (pc[u] # "add" => pc'[u] # "add")
        /\ pc'[t] # "add"
    BY DEF Typed
  <2>2. CASE s \in shown
    BY <2>1, <2>2 DEF Views, Fresh
  <2>3. CASE s = Sight(In(t, name), id) /\ t \notin disturbed
    <3>1. folder[u] \in Seq(Names) /\ IsStrictPrefix(folder[u], In(t, name))
      BY <1>2, <2>3, FolderPath DEF Busy
    <3>2. folder[u] = f \/ IsStrictPrefix(folder[u], f)
      BY <1>1, <3>1, InFolder DEF In
    <3>3. ~Disturbs(folder[u], f)
      BY <2>3 DEF Views, Overlaps
    <3>4. folder[u] = f /\ u = t
      BY <3>2, <3>3 DEF Disturbs, Views, Overlaps
    <3> QED BY <1>2, <2>1, <2>3, <3>4
  <2> QED BY <2>2, <2>3
<1>4. ASSUME NEW s \in shown PROVE ~IsStrictPrefix(In(t, name), s.path)
  <2> DEFINE g == Front(s.path)
             x == Last(s.path)
  <2>1. g \in Seq(Names) /\ x \in Names /\ s.path = Append(g, x)
    BY KindFacts DEF Views
  <2> HIDE DEF g, x
  <2>2. SUFFICES ASSUME IsStrictPrefix(Append(f, name), Append(g, x)) PROVE FALSE
    BY <2>1 DEF In
  <2>3. IsStrictPrefix(f, g) /\ IsStrictPrefix(f, Append(g, x))
    BY <1>1, <2>1, <2>2, InFolder
  <2>4. g = f
    BY <2>1, <2>3 DEF Views, Fresh, g
  <2> QED BY <2>3, <2>4 DEF IsStrictPrefix
<1> QED BY <1>3, <1>4

LEMMA FolderRowViews ==
  ASSUME Typed, InHand, Views, NEW t \in Threads, FolderRow(t)
  PROVE  Views'
<1>1. PICK r \in rows[t] :
        /\ tree' = AddFolder(tree, In(t, r.name), r.datapath)
        /\ rows' = [rows EXCEPT ![t] = @ \ {r}]
        /\ Show(t, In(t, r.name), NoId)
  BY DEF FolderRow, In
<1> DEFINE path == In(t, r.name)
           d == r.datapath
<1>2. /\ pc[t] = "row" /\ folder[t] \in OfFolders /\ Busy(t)
      /\ UNCHANGED <<pc, folder, disturbed>>
  BY Constants DEF FolderRow, Busy
<1>3. /\ rows'[t] \subseteq rows[t] /\ \A u \in Threads \ {t} : rows'[u] = rows[u]
      /\ r.name \in Names
  BY <1>1 DEF Typed
<1>4. /\ Shape(tree) /\ folder[t] \in Seq(Names) /\ path \in Seq(Names) /\ path # <<>>
  BY <1>2, <1>3, FolderPath DEF Typed, HierarchyOK, Busy, In
<1>5. /\ Front(path) = folder[t] /\ d = Datapath(path)
      /\ folder[t] \notin OfFiles
  <2>1. d = Append(Datapath(folder[t]), SubQuery) /\ folder[t] \notin OfFiles
    BY <1>2, Constants DEF Views, Selected
  <2>2. Datapath(path) = Append(Datapath(folder[t]), SubQuery)
    BY <1>2, <1>3, ValueDatapath DEF In
  <2>3. Front(path) = folder[t]
    BY <1>3, <1>4, AppendPrefix DEF In
  <2> QED BY <2>1, <2>2, <2>3
<1>6. /\ \E x \in FolderAt(tree', path) : x.datapath = d
      /\ \A p : p # path /\ ~IsStrictPrefix(path, p) => FolderAt(tree, p) \subseteq FolderAt(tree', p)
      /\ \A p : FolderAt(tree, p) = {} /\ ~IsPrefix(p, path) => FolderAt(tree', p) = {}
      /\ \A p : ~IsStrictPrefix(path, p) =>
                Standing(tree', tree'.files, p) = Standing(tree, tree.files, p)
  <2> DEFINE e == tree'
             h == tree
  <2>1. e = AddFolder(h, path, d) /\ Shape(h) /\ path \in Seq(Names) /\ path # <<>>
    BY <1>1, <1>4
  <2> HIDE DEF e, d, path, h
  <2>2. /\ \E x \in FolderAt(e, path) : x.datapath = d
        /\ \A p : p # path /\ ~IsStrictPrefix(path, p) => FolderAt(h, p) \subseteq FolderAt(e, p)
        /\ \A p : FolderAt(h, p) = {} /\ ~IsPrefix(p, path) => FolderAt(e, p) = {}
    BY ONLY <2>1, AddFolderEffect
  <2>3. \A p : ~IsStrictPrefix(path, p) => Standing(e, e.files, p) = Standing(h, h.files, p)
    BY ONLY <2>1, AddFolderEffect
  <2> QED BY <2>2, <2>3 DEF e, h
<1>7. /\ \A s \in shown' : s \in shown \/ (s = Sight(path, NoId) /\ t \notin disturbed)
      /\ \A s \in shown' : s.id # NoId => ~IsStrictPrefix(s.path, path)
      /\ \A s \in shown : s.path # path /\ (s.id # NoId => ~IsStrictPrefix(s.path, path))
                           => s \in shown'
  BY <1>1, ShowEffect
<1>8. Fresh' /\ \A s \in shown : ~IsStrictPrefix(path, s.path)
  BY <1>2, <1>3, <1>7, RowFresh
<1>9. Overlaps'
  BY <1>2 DEF Views, Overlaps, Busy
<1>10. Selected'
  BY <1>2, <1>3 DEF Views, Selected
<1>11. Kinds'
  <2>1. \E f \in OfFolders : \E name \in Names : Sight(path, NoId) = Sight(Append(f, name), NoId)
    BY <1>2, <1>3 DEF In
  <2>2. Sight(path, NoId).id = NoId
    BY DEF Sight
  <2> QED BY <1>7, <2>1, <2>2 DEF Views, Kinds
<1>12. ASSUME NEW u \in Threads \ {t} PROVE OwnRows(u)'
  <2>1. ASSUME NEW name \in Names, Busy(u), folder[u] \in OfFiles, u \notin disturbed
        PROVE  /\ ~IsStrictPrefix(path, In(u, name)) /\ ~IsPrefix(In(u, name), path)
               /\ In(u, name) # path
    <3>1. /\ folder[u] \in Seq(Names) /\ folder[u] # folder[t]
          /\ ~IsStrictPrefix(folder[t], folder[u]) /\ ~IsStrictPrefix(folder[u], folder[t])
      BY <1>2, <2>1, Undisturbed
    <3> QED BY <1>3, <1>4, <3>1, InFolder DEF In
  <2>2. \A p, id : Sight(p, id).path = p
    BY DEF Sight
  <2>3. ASSUME NEW name \in Names, Busy(u), folder[u] \in OfFiles, u \notin disturbed
        PROVE  /\ FolderAt(tree, In(u, name)) = {} => FolderAt(tree', In(u, name)) = {}
               /\ Standing(tree', tree'.files, In(u, name)) =
                    Standing(tree, tree.files, In(u, name))
               /\ \A id : Sight(In(u, name), id) \in shown => Sight(In(u, name), id) \in shown'
    <3> DEFINE q == In(u, name)
    <3>1. ~IsStrictPrefix(path, q) /\ ~IsPrefix(q, path) /\ q # path /\ ~IsStrictPrefix(q, path)
      BY <2>1, <2>3 DEF IsStrictPrefix
    <3> HIDE DEF q, path
    <3>2. FolderAt(tree, q) = {} => FolderAt(tree', q) = {}
      BY <1>6, <3>1
    <3>3. Standing(tree', tree'.files, q) = Standing(tree, tree.files, q)
      BY <1>6, <3>1
    <3>4. \A id : Sight(q, id) \in shown => Sight(q, id) \in shown'
      BY <1>7, <2>2, <3>1
    <3> QED BY <3>2, <3>3, <3>4 DEF q
  <2> QED BY <1>2, <1>3, <2>3, OthersOwn
<1>13. Mine'
  BY <1>2, <1>5, <1>12 DEF Mine, OwnRows
<1>14. Found'
  <2> SUFFICES ASSUME NEW s \in shown'
               PROVE  IF s.id = NoId THEN FolderFound(tree', s) ELSE FileFound(tree', shown', s)
    BY DEF Found, FolderFound, FileFound
  <2>1. CASE s = Sight(path, NoId)
    BY <1>5, <1>6, <2>1 DEF FolderFound, Sight
  <2>2. CASE s \in shown
    <3>1. IF s.id = NoId THEN FolderFound(tree, s) ELSE FileFound(tree, shown, s)
      BY <2>2 DEF Views, Found
    <3>2. ~IsStrictPrefix(path, s.path)
      BY <1>8, <2>2
    <3>3. CASE s.id = NoId /\ s.path # path
      BY <1>6, <3>1, <3>2, <3>3 DEF FolderFound
    <3>4. CASE s.id = NoId /\ s.path = path
      BY <1>5, <1>6, <3>4 DEF FolderFound
    <3>5. CASE s.id # NoId
      <4>1. s.path # path
        BY <1>5, <2>2, <3>5, KindFacts DEF Views
      <4>2. ~IsPrefix(s.path, path) /\ ~IsStrictPrefix(s.path, path)
        BY <1>7, <3>5, <4>1 DEF IsStrictPrefix
      <4>3. \A id : Sight(s.path, id) \in shown => Sight(s.path, id) \in shown'
        BY <1>7, <4>1, <4>2 DEF Sight
      <4> HIDE DEF path
      <4>4. /\ FolderAt(tree', s.path) = {}
            /\ Standing(tree', tree'.files, s.path) = Standing(tree, tree.files, s.path)
        BY <1>6, <3>1, <3>2, <3>5, <4>2 DEF FileFound
      <4> QED BY <3>1, <3>5, <4>3, <4>4 DEF FileFound
    <3> QED BY <3>3, <3>4, <3>5
  <2> QED BY <1>7, <2>1, <2>2
<1> QED BY <1>8, <1>9, <1>10, <1>11, <1>13, <1>14 DEF Views

\* What is in the folder of a listing that selects files has a jfs_id.
LEMMA StandingShown ==
  ASSUME Views, NEW t \in Threads, Past(t), folder[t] \in OfFiles, t \notin disturbed,
         NEW name \in Names, NEW n \in Standing(tree, tree.files, In(t, name))
  PROVE  /\ Sight(In(t, name), n.id) \in shown
         /\ \A m \in Standing(tree, tree.files, In(t, name)) : m.id = n.id => m = n
<1> DEFINE s == Sight(In(t, name), n.id)
<1>1. s \in shown
  BY DEF Views, Mine, OwnRows
<1>2. s.path = In(t, name) /\ s.id = n.id
  BY DEF Sight
<1>3. s.id # NoId
  <2> SUFFICES ASSUME s.id = NoId PROVE FALSE
    OBVIOUS
  <2>1. PICK f \in OfFolders, x \in Names : s = Sight(Append(f, x), s.id)
    BY <1>1 DEF Views, Kinds
  <2>2. f \in Seq(Names) /\ folder[t] \in Seq(Names) /\ Append(folder[t], name) = Append(f, x)
    BY <1>2, <2>1, Constants DEF Sight, In, Folders
  <2>3. folder[t] = f
    BY <2>1, <2>2, InFolder
  <2> QED BY <2>1, <2>3, Constants
<1>4. FileFound(tree, shown, s)
  BY <1>1, <1>3 DEF Views, Found
<1> QED BY <1>1, <1>2, <1>4 DEF FileFound

LEMMA FileRowViews ==
  ASSUME Typed, InHand, Views, LinksSound(db), NEW t \in Threads, FileRow(t)
  PROVE  Views'
<1>1. PICK r \in rows[t] :
        /\ tree' = AddFile(tree, In(t, r.name), r.id)
        /\ rows' = [rows EXCEPT ![t] = @ \ {r}]
        /\ Show(t, In(t, r.name), r.id)
  BY DEF FileRow, In
<1> DEFINE path == In(t, r.name)
           id == r.id
<1>2. /\ pc[t] = "row" /\ folder[t] \in OfFiles /\ Busy(t) /\ Past(t)
      /\ pc' = [pc EXCEPT ![t] = "uncache"] /\ UNCHANGED <<folder, disturbed>>
  BY Constants DEF FileRow, Busy, Past, Goto
<1>3. /\ rows'[t] = rows[t] \ {r} /\ pc'[t] = "uncache"
      /\ \A u \in Threads \ {t} : rows'[u] = rows[u] /\ pc'[u] = pc[u]
      /\ r.name \in Names
  BY <1>1, <1>2 DEF Typed
<1>4. /\ Shape(tree) /\ folder[t] \in Seq(Names) /\ path \in Seq(Names) /\ path # <<>>
  BY <1>2, <1>3, FolderPath DEF Typed, HierarchyOK, Busy, In
<1>5. /\ Front(path) = folder[t] /\ id # NoId /\ folder[t] \notin OfFolders
      /\ \A x \in rows[t] : x.id = id => x = r
  <2>1. \A x \in rows[t] : Linked(x) /\ x = Row(Last(x.datapath), x.id, x.datapath)
    BY <1>2 DEF InHand, Views, Selected
  <2>2. \A x \in rows[t] : x.id = id => x.datapath = r.datapath
    <3>1. ASSUME NEW x \in rows[t], x.id = id
          PROVE  db.links[x.datapath] = db.links[r.datapath] /\ db.links[x.datapath] # NoId
      <4>1. Linked(x) /\ Linked(r)
        BY <2>1
      <4>2. /\ x.id \in 1..MaxId /\ db.links[x.datapath] = x.id
            /\ db.links[r.datapath] = r.id
        BY <4>1 DEF Linked
      <4> QED BY <3>1, <4>2, Constants DEF NoId
    <3>2. \A x \in rows[t] : x.datapath \in Paths
      BY <2>1 DEF Linked
    <3> QED BY <3>1, <3>2 DEF LinksSound
  <2>3. \A x \in rows[t] : x.id = id => x = r
    BY <2>1, <2>2
  <2>4. id # NoId
    BY <2>1, Constants DEF Linked, NoId
  <2> QED BY <1>2, <1>3, <1>4, <2>3, <2>4, AppendPrefix, Constants DEF In
<1>6. PICK v :
        /\ v.id = id /\ v \notin tree.files
        /\ Standing(tree', tree'.files, path) = Standing(tree, tree.files, path) \cup {v}
  <2> DEFINE e == tree'
             h == tree
  <2>1. e = AddFile(h, path, id) /\ Shape(h) /\ path \in Seq(Names) /\ path # <<>>
    BY <1>1, <1>4
  <2> HIDE DEF e, id, path, h
  <2>2. \E v : /\ v.id = id /\ v \notin h.files
               /\ Standing(e, e.files, path) = Standing(h, h.files, path) \cup {v}
    BY ONLY <2>1, AddFileEffect
  <2> QED BY <2>2 DEF e, h
<1>7. /\ \A p : p # path => Standing(tree', tree'.files, p) = Standing(tree, tree.files, p)
      /\ \A p : FolderAt(tree, p) \subseteq FolderAt(tree', p)
      /\ \A p : FolderAt(tree, p) = {} /\ ~IsStrictPrefix(p, path) => FolderAt(tree', p) = {}
  <2> DEFINE e == tree'
             h == tree
  <2>1. e = AddFile(h, path, id) /\ Shape(h) /\ path \in Seq(Names) /\ path # <<>>
    BY <1>1, <1>4
  <2> HIDE DEF e, id, path, h
  <2>2. \A p : p # path => Standing(e, e.files, p) = Standing(h, h.files, p)
    BY ONLY <2>1, AddFileEffect
  <2>3. /\ \A p : FolderAt(h, p) \subseteq FolderAt(e, p)
        /\ \A p : FolderAt(h, p) = {} /\ ~IsStrictPrefix(p, path) => FolderAt(e, p) = {}
    BY ONLY <2>1, AddFileEffect
  <2> QED BY <2>2, <2>3 DEF e, h
<1>8. /\ \A s \in shown' : s \in shown \/ (s = Sight(path, id) /\ t \notin disturbed)
      /\ \A s \in shown' : s.id # NoId => ~IsStrictPrefix(s.path, path)
      /\ t \in disturbed => \A s \in shown' : s.path # path
      /\ \A s \in shown : s.path # path /\ (s.id # NoId => ~IsStrictPrefix(s.path, path))
                           => s \in shown'
      /\ t \notin disturbed => /\ Sight(path, id) \in shown'
                               /\ \A s \in shown : s.path = path => s \in shown'
  BY <1>1, ShowEffect
<1>9. Fresh'
  BY <1>2, <1>3, <1>8, RowFresh
<1>10. Overlaps'
  BY <1>2 DEF Views, Overlaps, Busy
<1>11. Selected'
  BY <1>2, <1>3 DEF Views, Selected
<1>12. Kinds'
  <2>1. \E f \in OfFiles : \E name \in Names : Sight(path, id) = Sight(Append(f, name), id)
    BY <1>2, <1>3 DEF In
  <2>2. Sight(path, id).id = id
    BY DEF Sight
  <2> QED BY <1>5, <1>8, <2>1, <2>2 DEF Views, Kinds
<1>13. \A p, i : Sight(p, i).path = p /\ Sight(p, i).id = i
  BY DEF Sight
<1>14. ASSUME NEW u \in Threads \ {t} PROVE OwnRows(u)'
  <2>1. ASSUME NEW name \in Names, Busy(u), folder[u] \in OfFiles, u \notin disturbed
        PROVE  ~IsStrictPrefix(In(u, name), path) /\ In(u, name) # path
    <3>1. /\ folder[u] \in Seq(Names) /\ folder[u] # folder[t]
          /\ ~IsStrictPrefix(folder[t], folder[u]) /\ ~IsStrictPrefix(folder[u], folder[t])
      BY <1>2, <2>1, Undisturbed
    <3> QED BY <1>3, <1>4, <3>1, InFolder DEF In, IsStrictPrefix
  <2>2. ASSUME NEW name \in Names, Busy(u), folder[u] \in OfFiles, u \notin disturbed
        PROVE  /\ FolderAt(tree, In(u, name)) = {} => FolderAt(tree', In(u, name)) = {}
               /\ Standing(tree', tree'.files, In(u, name)) =
                    Standing(tree, tree.files, In(u, name))
               /\ \A i : Sight(In(u, name), i) \in shown => Sight(In(u, name), i) \in shown'
    <3> DEFINE q == In(u, name)
    <3>1. q # path /\ ~IsStrictPrefix(q, path)
      BY <2>1, <2>2
    <3> HIDE DEF q, path
    <3>2. FolderAt(tree, q) = {} => FolderAt(tree', q) = {}
      BY <1>7, <3>1
    <3>3. Standing(tree', tree'.files, q) = Standing(tree, tree.files, q)
      BY <1>7, <3>1
    <3>4. \A i : Sight(q, i) \in shown => Sight(q, i) \in shown'
      BY <1>8, <1>13, <3>1
    <3> QED BY <3>2, <3>3, <3>4 DEF q
  <2> QED BY <1>2, <1>3, <2>2, OthersOwn
<1>15. OwnRows(t)'
  <2> SUFFICES ASSUME t \notin disturbed, NEW name \in Names
               PROVE  /\ FolderAt(tree', In(t, name)) = {}
                      /\ \A n \in Standing(tree', tree'.files, In(t, name)) :
                           /\ Sight(In(t, name), n.id) \in shown'
                           /\ \A x \in rows'[t] : x.name = name => x.id # n.id
    BY <1>2, <1>3 DEF OwnRows, In
  <2> DEFINE q == In(t, name)
  <2>1. /\ FolderAt(tree, q) = {}
        /\ \A n \in Standing(tree, tree.files, q) :
             /\ Sight(q, n.id) \in shown
             /\ \A x \in rows[t] : x.name = name => x.id # n.id
    BY <1>2 DEF Views, Mine, OwnRows
  <2>2. ~IsStrictPrefix(q, path) /\ (name # r.name => q # path)
    BY <1>3, <1>4, InFolder DEF In, IsStrictPrefix
  <2>3. name = r.name => q = path
    OBVIOUS
  <2> HIDE DEF q, path, id
  <2>4. FolderAt(tree', q) = {}
    BY <1>7, <2>1, <2>2
  <2>5. \A i : Sight(q, i) \in shown => Sight(q, i) \in shown'
    BY <1>8, <1>13, <2>2
  <2>6. CASE name # r.name
    <3>1. Standing(tree', tree'.files, q) = Standing(tree, tree.files, q)
      BY <1>7, <2>2, <2>6
    <3> QED BY <1>3, <2>1, <2>4, <2>5, <3>1 DEF q
  <2>7. CASE name = r.name
    <3>1. Standing(tree', tree'.files, q) = Standing(tree, tree.files, q) \cup {v}
      BY <1>6, <2>3, <2>7
    <3>2. Sight(q, v.id) \in shown'
      BY <1>6, <1>8, <2>3, <2>7
    <3>3. \A x \in rows'[t] : x.id # v.id
      BY <1>3, <1>5, <1>6
    <3> QED BY <1>3, <2>1, <2>4, <2>5, <3>1, <3>2, <3>3 DEF q
  <2> QED BY <2>6, <2>7
<1>16. Mine'
  BY <1>14, <1>15 DEF Mine
<1>17. Found'
  <2> SUFFICES ASSUME NEW s \in shown'
               PROVE  IF s.id = NoId THEN FolderFound(tree', s) ELSE FileFound(tree', shown', s)
    BY DEF Found, FolderFound, FileFound
  <2>1. CASE s.id = NoId
    <3>1. s \in shown
      BY <1>5, <1>8, <1>13, <2>1
    <3>2. FolderFound(tree, s)
      BY <2>1, <3>1 DEF Views, Found
    <3> QED BY <1>7, <2>1, <3>2 DEF FolderFound
  <2>2. CASE s.id # NoId /\ s.path # path
    <3>1. s \in shown
      BY <1>8, <1>13, <2>2
    <3>2. FileFound(tree, shown, s)
      BY <2>2, <3>1 DEF Views, Found
    <3>3. ~IsStrictPrefix(s.path, path)
      BY <1>8, <2>2
    <3> HIDE DEF path, id
    <3>4. /\ FolderAt(tree', s.path) = {}
          /\ Standing(tree', tree'.files, s.path) = Standing(tree, tree.files, s.path)
      BY <1>7, <2>2, <3>2, <3>3 DEF FileFound
    <3>5. \A i : Sight(s.path, i) \in shown => Sight(s.path, i) \in shown'
      BY <1>8, <1>13, <2>2, <3>3
    <3> QED BY <2>2, <3>2, <3>4, <3>5 DEF FileFound
  <2>3. CASE s.id # NoId /\ s.path = path
    <3>1. t \notin disturbed
      BY <1>8, <2>3
    <3>2. /\ FolderAt(tree, path) = {}
          /\ \A n \in Standing(tree, tree.files, path) : n.id # id
      BY <1>2, <1>3, <3>1 DEF Views, Mine, OwnRows
    <3>3. \A n \in Standing(tree, tree.files, path) :
            /\ Sight(path, n.id) \in shown
            /\ \A m \in Standing(tree, tree.files, path) : m.id = n.id => m = n
      BY <1>2, <1>3, <3>1, StandingShown
    <3>4. \E n \in Standing(tree', tree'.files, path) : n.id = s.id
      <4>1. CASE s = Sight(path, id)
        BY <1>6, <1>13, <4>1
      <4>2. CASE s \in shown
        <5>1. \E n \in Standing(tree, tree.files, path) : n.id = s.id
          BY <2>3, <4>2 DEF Views, Found, FileFound
        <5> QED BY <1>6, <5>1
      <4> QED BY <1>8, <4>1, <4>2
    <3>5. ~IsStrictPrefix(path, path)
      BY DEF IsStrictPrefix
    <3> HIDE DEF path, id
    <3>6. FolderAt(tree', path) = {}
      BY <1>7, <3>2, <3>5
    <3>7. \A n \in Standing(tree', tree'.files, path) : Sight(path, n.id) \in shown'
      BY <1>6, <1>8, <1>13, <3>1, <3>3
    <3>8. \A m, n \in Standing(tree', tree'.files, path) : m.id = n.id => m = n
      BY <1>6, <3>2, <3>3
    <3> QED BY <2>3, <3>4, <3>6, <3>7, <3>8 DEF FileFound
  <2> QED BY <2>1, <2>2, <2>3
<1> QED BY <1>9, <1>10, <1>11, <1>12, <1>16, <1>17 DEF Views

\* The steps of a listing or a lookup.
LEMMA StepViews ==
  ASSUME Typed, InHand, Views, LinksSound(db), NEW t \in Threads, Step(t)
  PROVE  Views'
<1>1. CASE List(t) \/ InvalidateFolder(t) \/ AddListed(t) \/ Query(t)
  BY <1>1, ListViews, InvalidateViews, AddListedViews, QueryViews
<1>2. CASE FolderRow(t) \/ FileRow(t)
  BY <1>2, FolderRowViews, FileRowViews
<1>3. CASE SkipRow(t)
  BY <1>3, QuietViews DEF SkipRow, Typed
<1>4. CASE Return(t) /\ UNCHANGED <<tree, shown>>
  <2>1. /\ folder'[t] = NoFolder /\ rows'[t] = {} /\ disturbed' = disturbed \ {t}
        /\ \A u \in Threads \ {t} :
             pc'[u] = pc[u] /\ folder'[u] = folder[u] /\ rows'[u] = rows[u]
    BY <1>4 DEF Return, Goto, Typed
  <2> QED BY <1>4, <2>1, QuietViews
<1>5. CASE /\ UNCHANGED <<tree, shown, folder, rows, disturbed>>
           /\ pc[t] \notin {"invalidate", "add"}
           /\ \E l \in {"lookup", "read", "uncache", "cache", "row"} : Goto(t, l)
  <2>1. /\ pc'[t] \notin {"invalidate", "add", "query"}
        /\ \A u \in Threads \ {t} : pc'[u] = pc[u]
    BY <1>5 DEF Goto, Typed
  <2> QED BY <1>5, <2>1, QuietViews
<1>6. CASE Listed(t) \/ Fails(t)
  BY <1>4, <1>6 DEF Listed, Fails
<1>7. CASE Resolve(t) \/ Read(t) \/ Uncache(t)
  BY <1>5, <1>7 DEF Resolve, Read, Uncache
<1>8. CASE Lookup(t) \/ Cache(t)
  BY <1>4, <1>5, <1>8 DEF Lookup, Cache
<1> QED BY <1>1, <1>2, <1>3, <1>6, <1>7, <1>8 DEF Step

-------------------------------------------------------------------------------
(* Files are unlinked and renamed when nobody lists a folder.                 *)

LEMMA AloneViews ==
  ASSUME InHand, Alone, UNCHANGED requests, Kinds', Found'
  PROVE  Views'
<1>1. UNCHANGED <<pc, folder, rows, disturbed>>
  BY DEF requests
<1>2. \A t \in Threads : ~Busy(t)' /\ rows'[t] = {}
  BY <1>1 DEF Alone, InHand, Busy
<1>3. Overlaps' /\ Fresh' /\ Selected'
  BY <1>2 DEF Overlaps, Fresh, Selected
<1>4. Mine'
  BY <1>2 DEF Mine, OwnRows, Past
<1> QED BY <1>3, <1>4 DEF Views

LEMMA StaticViews ==
  ASSUME Views, UNCHANGED <<tree, shown, requests>>
  PROVE  Views'
<1>1. UNCHANGED <<tree, shown, pc, folder, rows, disturbed>>
  BY DEF requests
<1>2. Overlaps' /\ Kinds' /\ Fresh' /\ Selected'
  BY <1>1 DEF Views, Overlaps, Kinds, Fresh, Selected, Busy
<1>3. Mine'
  BY <1>1 DEF Views, Mine, OwnRows, Past, Busy, In
<1>4. Found'
  BY <1>1 DEF Views, Found, FolderFound, FileFound
<1> QED BY <1>2, <1>3, <1>4 DEF Views

LEMMA RemountViews ==
  ASSUME InHand, Remount
  PROVE  Views'
<1>1. Kinds' /\ Found'
  BY DEF Remount, Kinds, Found
<1> QED BY <1>1, AloneViews DEF Remount

LEMMA UnlinkViews ==
  ASSUME Typed, InHand, Views, NEW path \in Paths, UnlinkDynamic(path)
  PROVE  Views'
<1>1. PICK f \in Items(path) :
        /\ tree' = RemoveFile(tree, path)
        /\ shown' = shown \ {Sight(path, f.id)}
  BY DEF UnlinkDynamic, Unlisted, Sight
<1>2. Alone /\ ~Real(path) /\ FileAt(tree, path) # {} /\ UNCHANGED requests
  BY DEF UnlinkDynamic
<1>3. PICK g \in FileAt(tree, path) : g.id = f.id
  BY <1>2 DEF Items, FileAt
<1>4. Shape(tree)
  BY DEF Typed, HierarchyOK
<1>5. \A p : /\ FolderAt(tree', p) = FolderAt(tree, p)
             /\ Standing(tree', tree'.files, p) =
                  Standing(tree, tree.files, p) \ FileAt(tree, path)
             /\ FileAt(tree, path) \subseteq Standing(tree, tree.files, path)
  BY <1>1, <1>4, RemoveFileEffect
<1>6. /\ \A n \in FileAt(tree, path) : n = g /\ NamesOf(At(n)) = path
      /\ g \in Standing(tree, tree.files, path)
  BY <1>3, <1>4, StandingFound DEF FileAt, Standing
<1>7. Kinds'
  BY <1>1 DEF Views, Kinds
<1>8. Found'
  <2> SUFFICES ASSUME NEW s \in shown'
               PROVE  IF s.id = NoId THEN FolderFound(tree', s) ELSE FileFound(tree', shown', s)
    BY DEF Found, FolderFound, FileFound
  <2>1. s \in shown /\ s # Sight(path, f.id) /\ s = Sight(s.path, s.id)
    BY <1>1, KindFacts DEF Views
  <2>2. CASE s.id = NoId
    <3>1. FolderFound(tree, s)
      BY <2>1, <2>2 DEF Views, Found
    <3>2. \A d : d \in FolderAt(tree, s.path) => d \in FolderAt(tree', s.path)
      BY <1>5
    <3>3. FolderFound(tree', s)
      BY <3>1, <3>2 DEF FolderFound
    <3> QED BY <2>2, <3>3
  <2>3. CASE s.id # NoId
    <3>1. FileFound(tree, shown, s)
      BY <2>1, <2>3 DEF Views, Found
    <3>2. FolderAt(tree', s.path) = {}
      BY <1>5, <3>1 DEF FileFound
    <3>3. ASSUME NEW n \in Standing(tree', tree'.files, s.path)
          PROVE  Sight(s.path, n.id) \in shown'
      <4>1. n \in Standing(tree, tree.files, s.path) /\ n \notin FileAt(tree, path)
        BY <1>5, <3>3
      <4>2. s.path = path /\ n.id = g.id => n = g
        BY <1>6, <3>1, <4>1 DEF FileFound
      <4>3. Sight(s.path, n.id) # Sight(path, f.id)
        BY <1>3, <4>1, <4>2 DEF Sight
      <4> QED BY <1>1, <3>1, <4>1, <4>3 DEF FileFound
    <3>4. \E n \in Standing(tree', tree'.files, s.path) : n.id = s.id
      <4>1. PICK n \in Standing(tree, tree.files, s.path) : n.id = s.id
        BY <3>1 DEF FileFound
      <4>2. NamesOf(At(n)) = s.path
        BY DEF Standing
      <4>3. n \notin FileAt(tree, path)
        BY <1>3, <1>6, <2>1, <4>1, <4>2
      <4> QED BY <1>5, <4>1, <4>3
    <3>5. \A m, n \in Standing(tree', tree'.files, s.path) : m.id = n.id => m = n
      BY <1>5, <3>1 DEF FileFound
    <3> QED BY <2>3, <3>2, <3>3, <3>4, <3>5 DEF FileFound
  <2> QED BY <2>2, <2>3
<1> QED BY <1>2, <1>7, <1>8, AloneViews

\* A folder above a dynamic path, or a new name in its folder, is there.
LEMMA AboveDynamic ==
  ASSUME Typed, NEW path, ~Real(path), Items(path) # {},
         NEW p \in Seq(Names), p # <<>>, IsStrictPrefix(p, path)
  PROVE  FolderAt(tree, p) # {}
<1>1. Shape(tree)
  BY DEF Typed, HierarchyOK
<1>2. CASE FolderAt(tree, path) # {}
  <2> DEFINE nodes == tree.folders
  <2>1. Standing(tree, nodes, path) # {}
    BY <1>2 DEF FolderAt, Reached, Standing
  <2>2. nodes = tree.folders \/ nodes = tree.files
    OBVIOUS
  <2> HIDE DEF nodes
  <2> QED BY <1>1, <2>1, <2>2, WayThere
<1>3. CASE FolderAt(tree, path) = {}
  <2> DEFINE nodes == tree.files
  <2>1. FileAt(tree, path) # {}
    BY <1>3 DEF Items
  <2>2. Standing(tree, nodes, path) # {}
    BY <1>3, <2>1 DEF FileAt, Reached, Standing
  <2>3. nodes = tree.folders \/ nodes = tree.files
    OBVIOUS
  <2> HIDE DEF nodes
  <2> QED BY <1>1, <2>2, <2>3, WayThere
<1> QED BY <1>2, <1>3

LEMMA AboveTarget ==
  ASSUME Typed, NEW from, from \in Seq(Names), from # <<>>, NEW to, to \in Seq(Names), to # <<>>,
         Items(from) # {}, ToDynamic(from, to),
         NEW p \in Seq(Names), p # <<>>, IsStrictPrefix(p, to)
  PROVE  FolderAt(tree, p) # {}
<1>1. CASE PathDynamic(to)
  BY <1>1, AboveDynamic DEF PathDynamic
<1>2. CASE Beside(from, to)
  <2>1. IsStrictPrefix(p, from)
    <3> DEFINE a == Front(from)
               x == Last(from)
               y == Last(to)
    <3>1. a \in Seq(Names) /\ x \in Names /\ y \in Names
          /\ from = Append(a, x) /\ to = Append(a, y)
      BY <1>2, FrontLast DEF Beside
    <3> HIDE DEF a, x, y
    <3>2. IsStrictPrefix(p, Append(a, y))
      BY <3>1
    <3>3. IsStrictPrefix(p, Append(a, x))
      BY <3>1, <3>2, AppendPrefix
    <3> QED BY <3>1, <3>3
  <2> QED BY <1>2, <2>1, AboveDynamic DEF Beside
<1> QED BY <1>1, <1>2 DEF ToDynamic

LEMMA RenameViews ==
  ASSUME Typed, InHand, Views, NEW from, from \in Seq(Names), from # <<>>,
         NEW to, to \in Seq(Names), to # <<>>, RenameDynamic(from, to)
  PROVE  Views'
<1> DEFINE gone == IF Real(from) THEN tree ELSE RemoveFile(tree, from)
           free == RemoveFile(gone, to)
<1>0. CASE UNCHANGED <<tree, shown>>
  BY <1>0, StaticViews DEF RenameDynamic
<1> SUFFICES ASSUME ~UNCHANGED <<tree, shown>> PROVE Views'
  BY <1>0
<1>1. PICK s \in Items(from) :
        \/ ~ToDynamic(from, to) /\ tree' = gone
        \/ ToDynamic(from, to) /\ tree' = AddFile(free, to, s.id)
  BY DEF RenameDynamic, Unlisted
<1>2. Alone /\ UNCHANGED requests /\ shown' = {x \in shown : x.path \notin {from, to}}
  BY DEF RenameDynamic
<1>3. Shape(tree) /\ Shape(gone) /\ Shape(free)
  <2>1. Shape(tree)
    BY DEF Typed, HierarchyOK
  <2>2. Shape(gone)
    BY <2>1, RemoveFileShape
  <2> HIDE DEF gone
  <2> QED BY <2>1, <2>2, RemoveFileShape
<1>4. \A h, path, p : Shape(h) /\ p # path =>
        /\ FolderAt(RemoveFile(h, path), p) = FolderAt(h, p)
        /\ Standing(RemoveFile(h, path), RemoveFile(h, path).files, p) = Standing(h, h.files, p)
  <2> SUFFICES ASSUME NEW h, NEW path, NEW p, Shape(h), p # path
               PROVE  /\ FolderAt(RemoveFile(h, path), p) = FolderAt(h, p)
                      /\ Standing(RemoveFile(h, path), RemoveFile(h, path).files, p) =
                           Standing(h, h.files, p)
    OBVIOUS
  <2> DEFINE e == RemoveFile(h, path)
  <2>1. e = RemoveFile(h, path)
    OBVIOUS
  <2> HIDE DEF e
  <2>2. /\ FolderAt(e, p) = FolderAt(h, p)
        /\ Standing(e, e.files, p) = Standing(h, h.files, p) \ FileAt(h, path)
        /\ FileAt(h, path) \subseteq Standing(h, h.files, path)
    BY <2>1, RemoveFileEffect
  <2>3. Standing(h, h.files, p) \cap Standing(h, h.files, path) = {}
    BY DEF Standing
  <2> QED BY <2>2, <2>3 DEF e
<1>5. ASSUME NEW p, p # from, p # to
      PROVE  /\ FolderAt(gone, p) = FolderAt(tree, p)
             /\ Standing(gone, gone.files, p) = Standing(tree, tree.files, p)
             /\ FolderAt(free, p) = FolderAt(tree, p)
             /\ Standing(free, free.files, p) = Standing(tree, tree.files, p)
  <2>1. /\ FolderAt(gone, p) = FolderAt(tree, p)
        /\ Standing(gone, gone.files, p) = Standing(tree, tree.files, p)
    BY <1>3, <1>4, <1>5
  <2> HIDE DEF gone
  <2> QED BY <1>3, <1>4, <1>5, <2>1
<1> HIDE DEF gone, free
<1>6. ASSUME NEW p, p # from, p # to
      PROVE  /\ FolderAt(tree, p) \subseteq FolderAt(tree', p)
             /\ Standing(tree', tree'.files, p) = Standing(tree, tree.files, p)
             /\ FolderAt(tree, p) = {} /\ ~(ToDynamic(from, to) /\ IsStrictPrefix(p, to)) =>
                  FolderAt(tree', p) = {}
  <2>1. CASE ~ToDynamic(from, to) /\ tree' = gone
    BY <1>5, <1>6, <2>1
  <2>2. CASE ToDynamic(from, to) /\ tree' = AddFile(free, to, s.id)
    <3> DEFINE e == tree'
               id == s.id
    <3>1. e = AddFile(free, to, id) /\ Shape(free) /\ to \in Seq(Names) /\ to # <<>>
      BY <1>3, <2>2
    <3> HIDE DEF e, id
    <3>2. \A q : q # to => Standing(e, e.files, q) = Standing(free, free.files, q)
      BY ONLY <3>1, AddFileEffect
    <3>3. /\ \A q : FolderAt(free, q) \subseteq FolderAt(e, q)
          /\ \A q : FolderAt(free, q) = {} /\ ~IsStrictPrefix(q, to) => FolderAt(e, q) = {}
      BY ONLY <3>1, AddFileEffect
    <3> QED BY <1>5, <1>6, <2>2, <3>2, <3>3 DEF e
  <2> QED BY <1>1, <2>1, <2>2
<1>7. Kinds'
  BY <1>2 DEF Views, Kinds
<1>8. Found'
  <2> SUFFICES ASSUME NEW x \in shown'
               PROVE  IF x.id = NoId THEN FolderFound(tree', x) ELSE FileFound(tree', shown', x)
    BY DEF Found, FolderFound, FileFound
  <2>1. x \in shown /\ x.path # from /\ x.path # to
    BY <1>2
  <2>2. CASE x.id = NoId
    <3>1. FolderFound(tree, x)
      BY <2>1, <2>2 DEF Views, Found
    <3> QED BY <1>6, <2>1, <2>2, <3>1 DEF FolderFound
  <2>3. CASE x.id # NoId
    <3>1. FileFound(tree, shown, x)
      BY <2>1, <2>3 DEF Views, Found
    <3>2. x.path \in Seq(Names) /\ x.path # <<>>
      BY <2>1, KindFacts DEF Views
    <3>3. ~(ToDynamic(from, to) /\ IsStrictPrefix(x.path, to))
      BY <1>1, <3>1, <3>2, AboveTarget DEF FileFound
    <3>4. FolderAt(tree', x.path) = {}
      BY <1>6, <2>1, <3>1, <3>3 DEF FileFound
    <3>5. Standing(tree', tree'.files, x.path) = Standing(tree, tree.files, x.path)
      BY <1>6, <2>1
    <3>6. \A id : Sight(x.path, id) \in shown => Sight(x.path, id) \in shown'
      BY <1>2, <2>1 DEF Sight
    <3> QED BY <2>3, <3>1, <3>4, <3>5, <3>6 DEF FileFound
  <2> QED BY <2>2, <2>3
<1> QED BY <1>2, <1>7, <1>8, AloneViews

-------------------------------------------------------------------------------
(* The files stay sound, so that a query selects a file once.                 *)

LEMMA FilesSound ==
  ASSUME Typed, LinksSound(db), [Next]_vars
  PROVE  LinksSound(db')
<1>1. ASSUME NEW t \in Threads, Step(t) PROVE LinksSound(db')
  BY <1>1, StepMoves DEF files
<1>2. CASE FileStep
  <2>1. CASE \E p \in Places : p \in Paths /\ CreateFile(p)
    BY <2>1, CreateKeeps
  <2>2. CASE \E p \in Places : p \in Paths /\ UnlinkStatic(p)
    BY <2>2, DeleteKeeps DEF UnlinkStatic, Erase
  <2>3. ASSUME NEW p \in Paths, UnlinkDynamic(p) PROVE LinksSound(db')
    <3>1. PICK f \in Items(p) : db' = DeleteFile(db, f.datapath) \/ UNCHANGED db
      BY <2>3 DEF UnlinkDynamic, Erase, files
    <3>2. f.datapath \in Paths
      BY ItemsFacts
    <3> QED BY <3>1, <3>2, DeleteKeeps
  <2>4. CASE \E p, q \in Paths : RenameStatic(p, q)
    BY <2>4, RenameKeeps DEF RenameStatic
  <2>5. ASSUME NEW p \in Paths, NEW q \in Paths, RenameDynamic(p, q) PROVE LinksSound(db')
    <3>1. PICK s \in Items(p) : \E d \in Targets(p, q, s) : Store(s.datapath, d)
      BY <2>5 DEF RenameDynamic
    <3>2. PICK d \in Targets(p, q, s) : Store(s.datapath, d)
      BY <3>1
    <3>3. s.datapath \in Paths /\ d \in Paths
      BY ItemsFacts, TargetsFacts
    <3> QED BY <3>2, <3>3, RenameKeeps
  <2>6. CASE Remount
    BY <2>6 DEF Remount, files
  <2> QED BY <1>2, <2>1, <2>2, <2>3, <2>4, <2>5, <2>6, FileStepCases
<1>3. CASE UNCHANGED vars
  BY <1>3 DEF vars
<1> QED BY <1>1, <1>2, <1>3, NextSteps

LEMMA ViewsInit == Init => Views /\ LinksSound(db)
<1> SUFFICES ASSUME Init PROVE Views /\ LinksSound(db)
  OBVIOUS
<1>1. \A t \in Threads : ~Busy(t) /\ rows[t] = {}
  BY DEF Init, Busy
<1>2. shown = {} /\ db = EmptyDb
  BY DEF Init
<1>3. Overlaps /\ Fresh /\ Selected
  BY <1>1 DEF Overlaps, Fresh, Selected
<1>4. Mine
  BY <1>1 DEF Mine, OwnRows, Past
<1>5. Kinds /\ Found
  BY <1>2 DEF Kinds, Found
<1>6. LinksSound(db)
  BY <1>2, EmptySound, Constants DEF Sound
<1> QED BY <1>3, <1>4, <1>5, <1>6 DEF Views

LEMMA ViewsNext ==
  Typed /\ InHand /\ Views /\ LinksSound(db) /\ [Next]_vars => Views' /\ LinksSound(db)'
<1> SUFFICES ASSUME Typed, InHand, Views, LinksSound(db), [Next]_vars
             PROVE  Views' /\ LinksSound(db)'
  OBVIOUS
<1>1. LinksSound(db')
  BY FilesSound
<1>2. Views'
  <2>1. ASSUME NEW t \in Threads, Step(t) PROVE Views'
    BY <2>1, StepViews
  <2>2. CASE FileStep
    <3>1. CASE \E p \in Places : p \in Paths /\ (CreateFile(p) \/ UnlinkStatic(p))
      BY <3>1, StaticViews DEF CreateFile, UnlinkStatic, requests
    <3>2. CASE \E p, q \in Paths : RenameStatic(p, q)
      BY <3>2, StaticViews DEF RenameStatic, requests
    <3>3. CASE \E p \in Paths : UnlinkDynamic(p)
      BY <3>3, UnlinkViews
    <3>4. ASSUME NEW p \in Paths, NEW q \in Paths, RenameDynamic(p, q) PROVE Views'
      BY <3>4, NamedPaths, RenameViews
    <3>5. CASE Remount
      BY <3>5, RemountViews
    <3> QED BY <2>2, <3>1, <3>2, <3>3, <3>4, <3>5, FileStepCases
  <2>3. CASE UNCHANGED vars
    BY <2>3, StaticViews DEF vars, requests
  <2> QED BY <2>1, <2>2, <2>3, NextSteps
<1>3. LinksSound(db)' <=> LinksSound(db')
  BY DEF LinksSound
<1> QED BY <1>1, <1>2, <1>3

\* What was listed can be found: at the path of a folder that was shown there is a
\* folder with its real directory, each value on the way to it .jfs_sub_query, however
\* deep it is nested, and at the path of a file one of the files shown under that name
\* (jfs_dir_db_filler, jfs_dynamic_hierarchy_find), whatever is listed, resolved, unlinked
\* or renamed meanwhile, unless a listing is around another one or in one that lists files.
THEOREM ListedIsFound == Spec => []ListedFound
<1>1. Typed /\ Views => ListedFound
  <2> SUFFICES ASSUME Typed, Views, NEW s \in shown
               PROVE  IF s.id = NoId
                        THEN \E d \in FolderAt(tree, s.path) :
                               d.datapath = Datapath(s.path)
                        ELSE \E f \in FileAt(tree, s.path) :
                               [path |-> s.path, id |-> f.id] \in shown
    BY DEF ListedFound
  <2>1. CASE s.id = NoId
    BY <2>1 DEF Views, Found, FolderFound
  <2>2. CASE s.id # NoId
    <3>1. FileFound(tree, shown, s)
      BY <2>2 DEF Views, Found
    <3>2. FileAt(tree, s.path) = Reached(tree, tree.files, s.path)
      BY <3>1 DEF FileAt, FileFound
    <3>3. Shape(tree)
      BY DEF Typed, HierarchyOK
    <3>4. PICK f \in Reached(tree, tree.files, s.path) : TRUE
      BY <3>1, <3>3, StandingFound DEF FileFound
    <3>5. f \in Standing(tree, tree.files, s.path)
      BY <3>3, <3>4, StandingFound
    <3>6. [path |-> s.path, id |-> f.id] \in shown
      BY <3>1, <3>5 DEF FileFound, Sight
    <3> QED BY <2>2, <3>2, <3>4, <3>6
  <2> QED BY <2>1, <2>2
<1> QED BY <1>1, TypedAlways, ViewsInit, ViewsNext, PTL DEF Spec
===============================================================================
