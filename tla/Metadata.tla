-------------------------------- MODULE Metadata --------------------------------
(***************************************************************************)
(* Extended attributes: jfs_meta_setxattr, getxattr, listxattr and         *)
(* removexattr (jfs_meta.c) run by concurrent request threads over the     *)
(* metadata cache (jfs_meta_cache.c), the key cache (jfs_key_cache.c,      *)
(* jfs_util_get_keyid) and the database.                                   *)
(*                                                                         *)
(* A query is one step: the write pool has one connection, and a reader    *)
(* sees what is committed.  A critical section of a cache lock is one      *)
(* step.  Files come and go by the transactions of jfs_file.c, each one    *)
(* step on the database that never touches the caches.                     *)
(***************************************************************************)
EXTENDS JfsDatabase, Sequences

CONSTANTS
  Threads,       \* the request threads
  Access,        \* the paths and keys each thread works on
  Relinked,      \* the paths whose files are deleted and renamed
  MaxId,         \* bound: how many files are ever created
  PrepareErrors, \* the result codes, positive, of a statement that does not prepare
  Missing,       \* getxattr found nothing, -ENOATTR
  Failed         \* any other error

ASSUME MetadataAssumption ==
  /\ IsFiniteSet(Paths) /\ IsFiniteSet(Keys)
  /\ IsFiniteSet(Threads)
  /\ Access \in [Threads -> SUBSET (Paths \X Keys)]
  /\ Relinked \subseteq Paths
  /\ MaxId \in Nat
  /\ PrepareErrors \subseteq 1..Cardinality(Keys)   \* larger ones are nobody's keyid
  /\ {Missing, Failed} \cap Values = {}
  /\ Missing # Failed

VARIABLES
  db,            \* joinfs.db
  keyCache,      \* entries <<keytext, keyid>>
  metaCache,     \* the entries of each path and keyid, the one found first first
  pc,            \* where each thread is
  req,           \* what it was asked
  kid,           \* its keyid, 0 before it has one
  val,           \* the value it is about to cache, or its result
  found          \* entries listxattr has still to put in the key cache

vars == <<db, keyCache, metaCache, pc, req, kid, val, found>>
shared == <<db, keyCache, metaCache>>

KeyIds == 1..Cardinality(Keys)

\* What can be asked of the attributes <<path, key>> in a set.  create: with the flag
\* XATTR_CREATE; the other two replace.
Requests(attributes) ==
  UNION {[op : {"set"}, path : {x[1]}, key : {x[2]}, value : Values, create : BOOLEAN]
           \cup [op : {"get", "remove"}, path : {x[1]}, key : {x[2]}]
           \cup [op : {"list"}, path : {x[1]}] : x \in attributes}
NoReq == [op |-> "none"]

Uses(t, p) == \E k \in Keys : <<p, k>> \in Access[t]

Init ==
  /\ db = EmptyDb
  /\ keyCache = {}
  /\ metaCache = [p \in Paths |-> [i \in KeyIds |-> <<>>]]
  /\ pc = [t \in Threads |-> "idle"]
  /\ req = [t \in Threads |-> NoReq]
  /\ kid = [t \in Threads |-> NoId]
  /\ val = [t \in Threads |-> Missing]
  /\ found = [t \in Threads |-> {}]

-------------------------------------------------------------------------------
(* Files: what jfs_file.c does to the database.                               *)

CreateFile(p) ==
  /\ CanAddLink(db, p)
  /\ db.lastId < MaxId
  /\ db' = AddLink(db, p)
  /\ UNCHANGED <<keyCache, metaCache, pc, req, kid, val, found>>

UnlinkFile(p) ==
  /\ db.links[p] # NoId
  /\ db' = DeleteFile(db, p)
  /\ UNCHANGED <<keyCache, metaCache, pc, req, kid, val, found>>

\* The file system agrees with the links table here: FileOps is about the rest.
Rename(p, q) ==
  LET exists == db.links[q] # NoId
  IN  /\ db.links[p] # NoId /\ p # q
      /\ CanRename(db, p, q, exists)
      /\ db' = RenameFile(db, p, q, exists)
      /\ UNCHANGED <<keyCache, metaCache, pc, req, kid, val, found>>

-------------------------------------------------------------------------------
(* A request and its keyid.                                                   *)

Goto(t, l) == pc' = [pc EXCEPT ![t] = l]

Finish(t, result) ==
  /\ Goto(t, "done")
  /\ val' = [val EXCEPT ![t] = result]

Start(t) ==
  /\ pc[t] = "idle"
  /\ \E r \in Requests(Access[t]) :
       /\ req' = [req EXCEPT ![t] = r]
       /\ Goto(t, IF r.op = "list" THEN "list" ELSE "resolve")
  /\ UNCHANGED <<shared, kid, val, found>>

\* jfs_util_get_keyid: the key cache first.
LookupKey(t) ==
  /\ pc[t] = "resolve"
  /\ \/ \E e \in keyCache :
          /\ e[1] = req[t].key
          /\ kid' = [kid EXCEPT ![t] = e[2]]
          /\ Goto(t, "op")
     \/ /\ \A e \in keyCache : e[1] # req[t].key
        /\ Goto(t, "insertkey")
        /\ UNCHANGED kid
  /\ UNCHANGED <<shared, req, val, found>>

InsertKey(t) ==
  /\ pc[t] = "insertkey"
  /\ db' = AddKey(db, req[t].key)
  /\ Goto(t, "selectkey")
  /\ UNCHANGED <<keyCache, metaCache, req, kid, val, found>>

SelectKey(t) ==
  /\ pc[t] = "selectkey"
  /\ kid' = [kid EXCEPT ![t] = db.keys[req[t].key]]
  /\ Goto(t, "cachekey")
  /\ UNCHANGED <<shared, req, val, found>>

\* jfs_key_cache_add
CacheKey(t) ==
  /\ pc[t] = "cachekey"
  /\ keyCache' = keyCache \cup {<<req[t].key, kid[t]>>}
  /\ Goto(t, "op")
  /\ UNCHANGED <<db, metaCache, req, kid, val, found>>

\* The keyid is the result of jfs_util_get_keyid when that is positive: so is the
\* code of a statement that does not prepare.
KeyQueryUnprepared(t) ==
  /\ pc[t] \in {"insertkey", "selectkey"}
  /\ \E code \in PrepareErrors : kid' = [kid EXCEPT ![t] = code]
  /\ Goto(t, "op")
  /\ UNCHANGED <<shared, req, val, found>>

\* A query fails in the database: the request returns its error.
QueryFails(t) ==
  /\ pc[t] \in {"insertkey", "selectkey", "read", "list"}
       \/ (pc[t] = "op" /\ req[t].op \in {"set", "remove"})
  /\ Finish(t, Failed)
  /\ UNCHANGED <<shared, req, kid, found>>

-------------------------------------------------------------------------------
(* The cache of values.                                                       *)

Entries(t) == metaCache[req[t].path][kid[t]]

SetEntries(t, s) == metaCache' = [metaCache EXCEPT ![req[t].path][kid[t]] = s]

\* sglib adds in front, finds the first entry and deletes the first entry.
InFront(t, v) == <<v>> \o Entries(t)

\* jfs_meta_cache_remove
RemoveFirst(t) == IF Entries(t) = <<>> THEN <<>> ELSE Tail(Entries(t))

\* jfs_meta_cache_add: its two critical sections.
Uncache_Kept(t) ==                                              \* mutant
  /\ pc[t] = "uncache"
  /\ Goto(t, "cache")
  /\ UNCHANGED <<shared, req, kid, val, found>>

Uncache(t) ==
  /\ pc[t] = "uncache"
  /\ SetEntries(t, RemoveFirst(t))
  /\ Goto(t, "cache")
  /\ UNCHANGED <<db, keyCache, req, kid, val, found>>

Cache(t) ==
  /\ pc[t] = "cache"
  /\ SetEntries(t, InFront(t, val[t]))
  /\ Goto(t, "done")
  /\ UNCHANGED <<db, keyCache, req, kid, val, found>>

-------------------------------------------------------------------------------
(* The four operations.                                                       *)

\* jfs_meta_setxattr: the database, then the cache.
SetXattr(t) ==
  /\ pc[t] = "op" /\ req[t].op = "set"
  /\ \/ /\ CanSetMeta(db, req[t].path, kid[t], req[t].create)
        /\ db' = SetMeta(db, req[t].path, kid[t], req[t].value)
        /\ val' = [val EXCEPT ![t] = req[t].value]
        /\ Goto(t, "uncache")
     \/ /\ ~CanSetMeta(db, req[t].path, kid[t], req[t].create)
        /\ Finish(t, Failed)
        /\ UNCHANGED db
  /\ UNCHANGED <<keyCache, metaCache, req, kid, found>>

\* jfs_meta_do_getxattr: the cache, and the database on a miss.
GetCached(t) ==
  /\ pc[t] = "op" /\ req[t].op = "get"
  /\ \/ Entries(t) # <<>> /\ Finish(t, Head(Entries(t)))
     \/ Entries(t) = <<>> /\ Goto(t, "read") /\ UNCHANGED val
  /\ UNCHANGED <<shared, req, kid, found>>

GetStored(t) ==
  /\ pc[t] = "read"
  /\ \/ /\ MetaOf(db, req[t].path, kid[t]) = {}
        /\ Finish(t, Missing)
     \/ \E v \in MetaOf(db, req[t].path, kid[t]) :
          /\ val' = [val EXCEPT ![t] = v]
          /\ Goto(t, "uncache")
  /\ UNCHANGED <<shared, req, kid, found>>

\* jfs_meta_removexattr: the database, then the cache.
RemoveXattr(t) ==
  /\ pc[t] = "op" /\ req[t].op = "remove"
  /\ db' = DeleteMeta(db, req[t].path, kid[t])
  /\ Goto(t, "drop")
  /\ UNCHANGED <<keyCache, metaCache, req, kid, val, found>>

DropCached_Kept(t) ==                                           \* mutant
  /\ pc[t] = "drop"
  /\ Goto(t, "done")
  /\ UNCHANGED <<shared, req, kid, val, found>>

DropCached(t) ==
  /\ pc[t] = "drop"
  /\ SetEntries(t, RemoveFirst(t))
  /\ Goto(t, "done")
  /\ UNCHANGED <<db, keyCache, req, kid, val, found>>

\* jfs_meta_listxattr: a list that fits the caller's buffer goes to the key cache.
ListXattr(t) ==
  /\ pc[t] = "list"
  /\ LET keys == KeysOf(db, req[t].path)
     IN  \/ Finish(t, Missing) /\ UNCHANGED found
         \/ /\ keys # {}
            /\ found' = [found EXCEPT ![t] = {<<k, db.keys[k]>> : k \in keys}]
            /\ Goto(t, "keys")
            /\ UNCHANGED val
  /\ UNCHANGED <<shared, req, kid>>

CacheListed(t) ==
  /\ pc[t] = "keys"
  /\ \E e \in found[t] :
       /\ keyCache' = keyCache \cup {e}
       /\ found' = [found EXCEPT ![t] = @ \ {e}]
       /\ Goto(t, IF found[t] = {e} THEN "done" ELSE "keys")
  /\ UNCHANGED <<db, metaCache, req, kid, val>>

Return(t) ==
  /\ pc[t] = "done"
  /\ Goto(t, "idle")
  /\ req' = [req EXCEPT ![t] = NoReq]
  /\ kid' = [kid EXCEPT ![t] = NoId]
  /\ val' = [val EXCEPT ![t] = Missing]
  /\ UNCHANGED <<shared, found>>

-------------------------------------------------------------------------------
Step(t) ==
  \/ Start(t) \/ LookupKey(t) \/ InsertKey(t) \/ SelectKey(t) \/ CacheKey(t)
  \/ KeyQueryUnprepared(t) \/ QueryFails(t) \/ Uncache(t) \/ Cache(t) \/ SetXattr(t) \/ GetCached(t)
  \/ GetStored(t) \/ RemoveXattr(t) \/ DropCached(t) \/ ListXattr(t)
  \/ CacheListed(t) \/ Return(t)

Next ==
  \/ \E t \in Threads : Step(t)
  \/ \E p \in Paths : CreateFile(p)
  \/ \E p \in Relinked : UnlinkFile(p) \/ \E q \in Relinked : Rename(p, q)

Spec == Init /\ [][Next]_vars

-------------------------------------------------------------------------------
(* Properties.                                                                *)

Results == Values \cup {Missing, Failed}

\* Type invariant: tables, caches and threads.
TypeOK ==
  /\ db \in Databases(MaxId)
  /\ keyCache \subseteq Keys \X KeyIds
  /\ metaCache \in [Paths -> [KeyIds -> Seq(Values)]]
  /\ pc \in [Threads -> {"idle", "resolve", "insertkey", "selectkey", "cachekey", "op",
                         "uncache", "cache", "read", "drop", "list", "keys", "done"}]
  /\ req \in [Threads -> Requests(Paths \X Keys) \cup {NoReq}]
  /\ kid \in [Threads -> {NoId} \cup KeyIds]
  /\ val \in [Threads -> Results]
  /\ found \in [Threads -> SUBSET (Keys \X KeyIds)]

\* jfs_util.c on jfs_util_get_keyid: "Returns they keyid associated with a key in the
\* system."  True of every thread, whichever inserts the key, as long as statements
\* prepare.
KeyidOfKey == \A t \in Threads : kid[t] # NoId => kid[t] = db.keys[req[t].key]

\* Whatever the threads race for, and whatever fails, a key has one keyid, which no
\* other key has, and the key cache knows it by no other.
KeysAgree ==
  /\ \A k, l \in Keys : db.keys[k] = db.keys[l] /\ db.keys[k] # NoId => k = l
  /\ \A e \in keyCache : e[2] = db.keys[e[1]]
  /\ \A t \in Threads : found[t] \subseteq {<<k, db.keys[k]>> : k \in Keys}

\* Metadata always belongs to a file that is there: deleting and renaming files
\* leaves no row behind, although the foreign keys are not enforced.
NoOrphanRows == \A r \in db.metadata : \E p \in Paths : db.links[p] = r.id

\* Threads that race to cache a value may enter it twice, but no more often than
\* there are threads.
CacheBounded ==
  \A p \in Paths, i \in KeyIds : Len(metaCache[p][i]) <= Cardinality(Threads)

\* A path only one thread works on, and whose file stays.
Private(p) ==
  p \notin Relinked /\ \A t, u \in Threads : Uses(t, p) /\ Uses(u, p) => t = u

Quiet(p) == \A t \in Threads : pc[t] \notin {"idle", "done"} => req[t].path # p

\* On a private path the cache is the database: other threads, which share the keys
\* and the locks, cannot make it stale.
PrivateCached ==
  \A p \in Paths, i \in KeyIds : Private(p) /\ Quiet(p) =>
     \/ metaCache[p][i] = <<>>
     \/ \E v \in MetaOf(db, p, i) : metaCache[p][i] = <<v>>

\* The value getxattr returns is the one the file has under the keyid it looked for.
Current(t) ==
  pc[t] = "done" /\ req[t].op = "get" /\ val[t] # Failed =>
     MetaOf(db, req[t].path, kid[t]) = {val[t]} \ {Missing}

\* getxattr is right on private paths.
PrivateCurrent ==
  \A t \in Threads : pc[t] # "idle" /\ Private(req[t].path) => Current(t)

\* jfs_meta.h on jfs_meta_getxattr: "Get the metadata value tied to a file system
\* item by a metadat tag."  What the cache answers for a file that is there is what
\* the file has then.
AlwaysCurrent ==
  [][\A t \in Threads :
        GetCached(t) /\ pc'[t] = "done" /\ db.links[req[t].path] # NoId =>
          MetaOf(db, req[t].path, kid[t]) = {val'[t]}]_vars
===============================================================================
