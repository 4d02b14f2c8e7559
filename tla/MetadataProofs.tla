---------------------------- MODULE MetadataProofs ----------------------------
(***************************************************************************)
(* Proofs about extended attributes, for any number of threads, paths,     *)
(* keys and values, whatever files come and go and whatever queries fail.  *)
(***************************************************************************)
EXTENDS Metadata, JfsDatabaseProofs, SequenceTheorems

-------------------------------------------------------------------------------
(* Requests.                                                                  *)

\* The path and the key of a request are one of the attributes asked for.
LEMMA RequestFacts ==
  ASSUME NEW A \in SUBSET (Paths \X Keys), NEW r \in Requests(A)
  PROVE  /\ r.op \in {"set", "get", "remove", "list"} /\ r # NoReq
         /\ r.path \in Paths /\ \E k \in Keys : <<r.path, k>> \in A
         /\ r.op # "list" => r.key \in Keys
         /\ r.op = "set" => r.value \in Values /\ r.create \in BOOLEAN
         /\ r \in Requests(Paths \X Keys)
<1> DEFINE Of(x) == [op : {"set"}, path : {x[1]}, key : {x[2]}, value : Values, create : BOOLEAN]
                      \cup [op : {"get", "remove"}, path : {x[1]}, key : {x[2]}]
                      \cup [op : {"list"}, path : {x[1]}]
<1>1. PICK x \in A : r \in Of(x)
  BY DEF Requests
<1>2. x[1] \in Paths /\ x[2] \in Keys /\ x = <<x[1], x[2]>> /\ x \in Paths \X Keys
  OBVIOUS
<1>3. r \in Requests(Paths \X Keys)
  BY <1>1, <1>2 DEF Requests
<1>4. r.op \in {"set", "get", "remove", "list"} /\ r.path = x[1]
  BY <1>1
<1>5. r # NoReq
  BY <1>4 DEF NoReq
<1>6. /\ r.op # "list" => r.key = x[2]
      /\ r.op = "set" => r.value \in Values /\ r.create \in BOOLEAN
  BY <1>1
<1> QED BY <1>2, <1>3, <1>4, <1>5, <1>6

-------------------------------------------------------------------------------
(* Types, and what a thread knows where it is.                                *)

PCs == {"idle", "resolve", "insertkey", "selectkey", "cachekey", "op", "uncache", "cache",
        "read", "drop", "list", "keys", "done"}
Keyless == {"resolve", "insertkey", "selectkey"}
Keyed == {"op", "uncache", "cache", "read", "drop"}

Stage(t) ==
  /\ pc[t] = "idle" => req[t] = NoReq /\ kid[t] = NoId
  /\ pc[t] # "idle" => req[t] \in Requests(Access[t])
  /\ pc[t] \in Keyless => kid[t] = NoId
  /\ pc[t] = "selectkey" => db.keys[req[t].key] # NoId
  /\ pc[t] = "cachekey" => kid[t] = db.keys[req[t].key] /\ kid[t] # NoId
  /\ pc[t] \in Keyed => kid[t] # NoId
  /\ pc[t] \in Keyless \cup Keyed \cup {"cachekey"} => req[t].op # "list"
  /\ pc[t] \in {"uncache", "cache"} => val[t] \in Values
  /\ pc[t] \in {"list", "keys"} => req[t].op = "list"
  /\ pc[t] = "drop" => req[t].op = "remove"

Typed == TypeOK /\ Sound(db, MaxId) /\ \A t \in Threads : Stage(t)

\* A step of one thread leaves the others where they are.
Others(t) ==
  \A u \in Threads \ {t} :
    /\ pc'[u] = pc[u] /\ req'[u] = req[u] /\ kid'[u] = kid[u]
    /\ val'[u] = val[u] /\ found'[u] = found[u]

LEMMA StepOthers ==
  ASSUME TypeOK, NEW t \in Threads, Step(t) PROVE Others(t)
<1>1. /\ DOMAIN pc = Threads /\ DOMAIN req = Threads /\ DOMAIN kid = Threads
      /\ DOMAIN val = Threads /\ DOMAIN found = Threads
  BY DEF TypeOK
<1> QED BY <1>1 DEF Others, Step, Start, LookupKey, InsertKey, SelectKey, CacheKey,
   KeyQueryUnprepared, QueryFails, Uncache, Cache, SetXattr, GetCached, GetStored, RemoveXattr,
   DropCached, ListXattr, CacheListed, Return, Goto, Finish, SetEntries, shared

\* The tables stay sound, keys keep their keyids, and who steps is told.
LEMMA KeyIdFacts == NoId \notin KeyIds /\ KeyIds \subseteq Nat /\ NoId = 0
<1>1. Cardinality(Keys) \in Nat
  BY MetadataAssumption, FS_CardinalityType
<1> QED BY <1>1 DEF KeyIds, NoId

LEMMA TypedTables ==
  ASSUME Typed, [Next]_vars
  PROVE  /\ Sound(db, MaxId)' /\ db' \in Databases(MaxId)
         /\ \A k \in Keys : db.keys[k] # NoId => db'.keys[k] = db.keys[k]
<1>1. /\ MaxId \in Nat /\ IsFiniteSet(Keys) /\ Sound(db, MaxId) /\ db \in Databases(MaxId)
      /\ TypeOK
  BY MetadataAssumption DEF Typed, Sound
<1>2. ASSUME NEW t \in Threads, InsertKey(t)
      PROVE  Sound(db', MaxId) /\ \A k \in Keys : db.keys[k] # NoId => db'.keys[k] = db.keys[k]
  <2>1. req[t].key \in Keys
    BY <1>2, RequestFacts, MetadataAssumption DEF InsertKey, Typed, Stage, Keyless
  <2> QED BY <1>1, <1>2, <2>1, AddKeySound DEF InsertKey
<1>3. ASSUME NEW t \in Threads, SetXattr(t)
      PROVE  Sound(db', MaxId) /\ db'.keys = db.keys
  <2>1. CASE UNCHANGED db
    BY <1>1, <2>1
  <2>2. CASE /\ CanSetMeta(db, req[t].path, kid[t], req[t].create)
             /\ db' = SetMeta(db, req[t].path, kid[t], req[t].value)
    <3>1. req[t].path \in Paths /\ req[t].value \in Values /\ kid[t] \in KeyIds
      BY <1>1, <1>3, RequestFacts, MetadataAssumption DEF SetXattr, Typed, Stage, Keyed, TypeOK
    <3>2. db.links[req[t].path] # NoId
      BY <2>2 DEF CanSetMeta
    <3> QED BY <1>1, <2>2, <3>1, <3>2, SetMetaSound, SetMetaColumns DEF KeyIds
  <2> QED BY <1>3, <2>1, <2>2 DEF SetXattr
<1>4. ASSUME NEW t \in Threads, RemoveXattr(t)
      PROVE  Sound(db', MaxId) /\ db'.keys = db.keys
  <2>1. req[t].path \in Paths
    BY <1>4, RequestFacts, MetadataAssumption DEF RemoveXattr, Typed, Stage
  <2> QED BY <1>1, <1>4, <2>1, DeleteMetaSound, DeleteMetaColumns DEF RemoveXattr
<1>5. ASSUME NEW p \in Paths, CreateFile(p) PROVE Sound(db', MaxId) /\ db'.keys = db.keys
  BY <1>1, <1>5, AddLinkSound, AddLinkColumns DEF CreateFile
<1>6. ASSUME NEW p \in Paths, UnlinkFile(p) PROVE Sound(db', MaxId) /\ db'.keys = db.keys
  BY <1>1, <1>6, DeleteFileSound, DeleteFileColumns DEF UnlinkFile
<1>7. ASSUME NEW p \in Paths, NEW q \in Paths, Rename(p, q)
      PROVE  Sound(db', MaxId) /\ db'.keys = db.keys
  <2>1. PICK x \in BOOLEAN : p # q /\ CanRename(db, p, q, x) /\ db' = RenameFile(db, p, q, x)
    BY <1>7 DEF Rename
  <2> QED BY <1>1, <2>1, RenameSound, RenameColumns
<1>8. ASSUME NEW t \in Threads, Step(t), ~InsertKey(t), ~SetXattr(t), ~RemoveXattr(t)
      PROVE  db' = db
  BY <1>8 DEF Step, Start, LookupKey, SelectKey, CacheKey, KeyQueryUnprepared,
     QueryFails, Uncache, Cache, GetCached, GetStored, DropCached, ListXattr, CacheListed,
     Return, shared
<1>9. Relinked \subseteq Paths
  BY MetadataAssumption
<1>10. CASE UNCHANGED vars
  BY <1>1, <1>10 DEF vars
<1>11. Sound(db', MaxId) /\ \A k \in Keys : db.keys[k] # NoId => db'.keys[k] = db.keys[k]
  BY <1>1, <1>2, <1>3, <1>4, <1>5, <1>6, <1>7, <1>8, <1>9, <1>10 DEF Next
<1>12. Sound(db, MaxId)' <=> Sound(db', MaxId)
  BY DEF Sound, KeysSound, LinksSound, RowsSound, Assigned
<1> QED BY <1>11, <1>12 DEF Sound

\* The types of what one step of a thread assigns.
Assigns ==
  /\ pc' \in [Threads -> PCs]
  /\ req' \in [Threads -> Requests(Paths \X Keys) \cup {NoReq}]
  /\ kid' \in [Threads -> {NoId} \cup KeyIds]
  /\ val' \in [Threads -> Results]
  /\ found' \in [Threads -> SUBSET (Keys \X KeyIds)]
  /\ keyCache' \subseteq Keys \X KeyIds
  /\ metaCache' \in [Paths -> [KeyIds -> Seq(Values)]]

\* What is known of a thread that has a request.
LEMMA RequestOf ==
  ASSUME Typed, NEW t \in Threads, pc[t] # "idle"
  PROVE  /\ req[t] \in Requests(Access[t]) /\ Access[t] \subseteq Paths \X Keys
         /\ req[t] \in Requests(Paths \X Keys)
         /\ req[t].op \in {"set", "get", "remove", "list"} /\ req[t] # NoReq
         /\ req[t].path \in Paths /\ (req[t].op # "list" => req[t].key \in Keys)
         /\ req[t].op = "set" => req[t].value \in Values
BY RequestFacts, MetadataAssumption DEF Typed, Stage

\* A place in the cache of values, whose list a step replaces.
LEMMA EntriesTyped ==
  ASSUME Typed, NEW t \in Threads, pc[t] \in Keyed
  PROVE  /\ Entries(t) \in Seq(Values) /\ RemoveFirst(t) \in Seq(Values)
         /\ Entries(t) # <<>> => Head(Entries(t)) \in Values
         /\ \A v \in Values : InFront(t, v) \in Seq(Values)
         /\ \A s \in Seq(Values) :
              SetEntries(t, s) => metaCache' \in [Paths -> [KeyIds -> Seq(Values)]]
<1>1. /\ req[t].path \in Paths /\ kid[t] \in KeyIds
      /\ metaCache \in [Paths -> [KeyIds -> Seq(Values)]]
  <2>1. pc[t] # "idle"
    BY DEF Keyed
  <2> QED BY <2>1, RequestOf DEF Typed, TypeOK, Stage
<1>2. Entries(t) \in Seq(Values)
  BY <1>1 DEF Entries
<1>3. RemoveFirst(t) \in Seq(Values)
  BY <1>2, EmptySeq, HeadTailProperties DEF RemoveFirst
<1>4. Entries(t) # <<>> => Head(Entries(t)) \in Values
  BY <1>2, HeadTailProperties
<1>5. ASSUME NEW v \in Values PROVE InFront(t, v) \in Seq(Values)
  <2>1. <<v>> \in Seq(Values)
    OBVIOUS
  <2> QED BY <1>2, <2>1, ConcatProperties DEF InFront
<1>6. ASSUME NEW s \in Seq(Values), SetEntries(t, s)
      PROVE  metaCache' \in [Paths -> [KeyIds -> Seq(Values)]]
  BY <1>1, <1>6 DEF SetEntries
<1> QED BY <1>2, <1>3, <1>4, <1>5, <1>6

LEMMA StepTyped ==
  ASSUME Typed, NEW t \in Threads, Step(t), db' \in Databases(MaxId),
         \A k \in Keys : db.keys[k] # NoId => db'.keys[k] = db.keys[k]
  PROVE  Assigns /\ Stage(t)'
<1>1. /\ pc \in [Threads -> PCs] /\ req \in [Threads -> Requests(Paths \X Keys) \cup {NoReq}]
      /\ kid \in [Threads -> {NoId} \cup KeyIds] /\ val \in [Threads -> Results]
      /\ found \in [Threads -> SUBSET (Keys \X KeyIds)] /\ keyCache \subseteq Keys \X KeyIds
      /\ metaCache \in [Paths -> [KeyIds -> Seq(Values)]]
      /\ Stage(t)
  BY DEF Typed, TypeOK, PCs
<1>2. Missing \in Results /\ Failed \in Results /\ Values \subseteq Results
  BY DEF Results
<1>3. NoId \notin KeyIds
  BY KeyIdFacts
<1>4. CASE Start(t)
  <2>1. PICK r \in Requests(Access[t]) :
          /\ req' = [req EXCEPT ![t] = r]
          /\ pc' = [pc EXCEPT ![t] = IF r.op = "list" THEN "list" ELSE "resolve"]
    BY <1>4 DEF Start, Goto
  <2>2. r \in Requests(Paths \X Keys)
    BY RequestFacts, MetadataAssumption
  <2>3. UNCHANGED <<db, keyCache, metaCache, kid, val, found>> /\ pc[t] = "idle"
    BY <1>4 DEF Start, shared
  <2>4. Assigns
    BY <1>1, <2>1, <2>2, <2>3 DEF Assigns, PCs
  <2>5. req'[t] = r /\ kid'[t] = NoId /\ pc'[t] = IF r.op = "list" THEN "list" ELSE "resolve"
    BY <1>1, <2>1, <2>3 DEF Stage
  <2>6. Stage(t)'
    BY <2>5 DEF Stage, Keyless, Keyed
  <2> QED BY <2>4, <2>6
<1>5. CASE LookupKey(t)
  <2>1. pc[t] = "resolve" /\ UNCHANGED <<db, keyCache, metaCache, req, val, found>>
    BY <1>5 DEF LookupKey, shared
  <2>2. CASE \E e \in keyCache : kid' = [kid EXCEPT ![t] = e[2]] /\ Goto(t, "op")
    <3>1. PICK i \in KeyIds : kid' = [kid EXCEPT ![t] = i] /\ pc' = [pc EXCEPT ![t] = "op"]
      BY <1>1, <2>2 DEF Goto
    <3> QED BY <1>1, <1>3, <2>1, <3>1 DEF Assigns, Stage, PCs, Keyless, Keyed
  <2>3. CASE Goto(t, "insertkey") /\ UNCHANGED kid
    BY <1>1, <2>1, <2>3 DEF Goto, Assigns, Stage, PCs, Keyless, Keyed
  <2> QED BY <1>5, <2>2, <2>3 DEF LookupKey
<1>6. CASE InsertKey(t)
  <2>1. req[t].key \in Keys
    BY <1>6, RequestOf DEF InsertKey, Typed, Stage, Keyless
  <2>2. db'.keys[req[t].key] # NoId
    BY <1>6, <2>1, AddKeySound, MetadataAssumption DEF InsertKey, Typed
  <2> QED BY <1>1, <1>6, <2>2 DEF InsertKey, Goto, Assigns, Stage, PCs, Keyless, Keyed
<1>7. CASE SelectKey(t)
  <2>1. req[t].key \in Keys /\ db.keys[req[t].key] # NoId
    BY <1>7, RequestOf DEF SelectKey, Typed, Stage, Keyless
  <2>2. db.keys[req[t].key] \in KeyIds
    BY <2>1, MetadataAssumption, Columns DEF Typed, TypeOK, KeyIds, NoId
  <2>3. /\ pc[t] = "selectkey" /\ pc' = [pc EXCEPT ![t] = "cachekey"]
        /\ kid' = [kid EXCEPT ![t] = db.keys[req[t].key]]
        /\ UNCHANGED <<db, keyCache, metaCache, req, val, found>>
    BY <1>7 DEF SelectKey, shared, Goto
  <2>4. Assigns
    BY <1>1, <2>2, <2>3 DEF Assigns, PCs
  <2>5. Stage(t)'
    BY <1>1, <1>3, <2>1, <2>3 DEF Stage, Keyless, Keyed
  <2> QED BY <2>4, <2>5
<1>8. CASE CacheKey(t)
  <2>1. req[t].key \in Keys /\ kid[t] \in KeyIds
    BY <1>1, <1>8, RequestOf DEF CacheKey, Stage
  <2>2. /\ pc[t] = "cachekey" /\ pc' = [pc EXCEPT ![t] = "op"]
        /\ keyCache' = keyCache \cup {<<req[t].key, kid[t]>>}
        /\ UNCHANGED <<db, metaCache, req, kid, val, found>>
    BY <1>8 DEF CacheKey, Goto
  <2>3. keyCache' \subseteq Keys \X KeyIds
    BY <1>1, <2>1, <2>2
  <2>4. Assigns
    BY <1>1, <2>2, <2>3 DEF Assigns, PCs
  <2>5. Stage(t)'
    BY <1>1, <1>3, <2>1, <2>2 DEF Stage, Keyless, Keyed
  <2> QED BY <2>4, <2>5
<1>9. CASE KeyQueryUnprepared(t)
  <2>1. PrepareErrors \subseteq KeyIds
    BY MetadataAssumption DEF KeyIds
  <2> QED BY <1>1, <1>3, <1>9, <2>1 DEF KeyQueryUnprepared, shared, Goto, Assigns, Stage, PCs,
             Keyless, Keyed
<1>10. CASE QueryFails(t)
  BY <1>1, <1>2, <1>10 DEF QueryFails, shared, Finish, Goto, Assigns, Stage, PCs, Keyless, Keyed
<1>11. CASE Uncache(t) \/ DropCached(t)
  <2>1. pc[t] \in Keyed /\ SetEntries(t, RemoveFirst(t))
    BY <1>11 DEF Uncache, DropCached, Keyed
  <2>2. metaCache' \in [Paths -> [KeyIds -> Seq(Values)]]
    BY <2>1, EntriesTyped
  <2> QED BY <1>1, <1>11, <2>2 DEF Uncache, DropCached, Goto, Assigns, Stage, PCs, Keyless, Keyed
<1>12. CASE Cache(t)
  <2>1. pc[t] \in Keyed /\ SetEntries(t, InFront(t, val[t])) /\ val[t] \in Values
    BY <1>1, <1>12 DEF Cache, Keyed, Stage
  <2>2. metaCache' \in [Paths -> [KeyIds -> Seq(Values)]]
    BY <2>1, EntriesTyped
  <2> QED BY <1>1, <1>12, <2>2 DEF Cache, Goto, Assigns, Stage, PCs, Keyless, Keyed
<1>13. CASE SetXattr(t)
  <2>1. pc[t] = "op" /\ req[t].op = "set" /\ UNCHANGED <<keyCache, metaCache, req, kid, found>>
    BY <1>13 DEF SetXattr
  <2>2. req[t].value \in Values
    BY <2>1, RequestOf
  <2>3. CASE val' = [val EXCEPT ![t] = req[t].value] /\ Goto(t, "uncache")
    BY <1>1, <1>2, <2>1, <2>2, <2>3 DEF Goto, Assigns, Stage, PCs, Keyless, Keyed
  <2>4. CASE Finish(t, Failed)
    BY <1>1, <1>2, <2>1, <2>4 DEF Finish, Goto, Assigns, Stage, PCs, Keyless, Keyed
  <2> QED BY <1>13, <2>3, <2>4 DEF SetXattr
<1>14. CASE GetCached(t)
  <2>1. pc[t] = "op" /\ UNCHANGED <<db, keyCache, metaCache, req, kid, found>>
    BY <1>14 DEF GetCached, shared
  <2>2. CASE Entries(t) # <<>> /\ Finish(t, Head(Entries(t)))
    <3>1. Head(Entries(t)) \in Results
      BY <1>2, <2>1, <2>2, EntriesTyped DEF Keyed
    <3> QED BY <1>1, <2>1, <2>2, <3>1 DEF Finish, Goto, Assigns, Stage, PCs, Keyless, Keyed
  <2>3. CASE Goto(t, "read") /\ UNCHANGED val
    BY <1>1, <2>1, <2>3 DEF Goto, Assigns, Stage, PCs, Keyless, Keyed
  <2> QED BY <1>14, <2>2, <2>3 DEF GetCached
<1>15. CASE GetStored(t)
  <2>1. pc[t] = "read" /\ UNCHANGED <<db, keyCache, metaCache, req, kid, found>>
    BY <1>15 DEF GetStored, shared
  <2>2. CASE Finish(t, Missing)
    BY <1>1, <1>2, <2>1, <2>2 DEF Finish, Goto, Assigns, Stage, PCs, Keyless, Keyed
  <2>3. ASSUME NEW v \in MetaOf(db, req[t].path, kid[t]), Goto(t, "uncache"),
               val' = [val EXCEPT ![t] = v]
        PROVE  Assigns /\ Stage(t)'
    <3>1. v \in Values
      BY Columns, MetadataAssumption DEF MetaOf, RowsAt, RowsOf, Typed, Sound
    <3> QED BY <1>1, <1>2, <2>1, <2>3, <3>1 DEF Goto, Assigns, Stage, PCs, Keyless, Keyed
  <2> QED BY <1>15, <2>2, <2>3 DEF GetStored
<1>16. CASE RemoveXattr(t)
  BY <1>1, <1>16 DEF RemoveXattr, Goto, Assigns, Stage, PCs, Keyless, Keyed
<1>17. CASE ListXattr(t)
  <2>1. pc[t] = "list" /\ UNCHANGED <<db, keyCache, metaCache, req, kid>>
    BY <1>17 DEF ListXattr, shared
  <2>2. CASE Finish(t, Missing) /\ UNCHANGED found
    BY <1>1, <1>2, <2>1, <2>2 DEF Finish, Goto, Assigns, Stage, PCs, Keyless, Keyed
  <2>3. CASE /\ found' = [found EXCEPT ![t] =
                            {<<k, db.keys[k]>> : k \in KeysOf(db, req[t].path)}]
             /\ Goto(t, "keys") /\ UNCHANGED val
    <3>1. {<<k, db.keys[k]>> : k \in KeysOf(db, req[t].path)} \subseteq Keys \X KeyIds
      BY Columns, MetadataAssumption DEF KeysOf, RowsOf, Typed, Sound, KeyIds
    <3> QED BY <1>1, <2>1, <2>3, <3>1 DEF Goto, Assigns, Stage, PCs, Keyless, Keyed
  <2> QED BY <1>17, <2>2, <2>3 DEF ListXattr
<1>18. CASE CacheListed(t)
  <2>1. PICK e \in found[t] :
          /\ keyCache' = keyCache \cup {e}
          /\ found' = [found EXCEPT ![t] = @ \ {e}]
          /\ Goto(t, IF found[t] = {e} THEN "done" ELSE "keys")
    BY <1>18 DEF CacheListed
  <2>2. pc[t] = "keys" /\ UNCHANGED <<db, metaCache, req, kid, val>>
    BY <1>18 DEF CacheListed
  <2> QED BY <1>1, <2>1, <2>2 DEF Goto, Assigns, Stage, PCs, Keyless, Keyed
<1>19. CASE Return(t)
  BY <1>1, <1>2, <1>19 DEF Return, shared, Goto, Assigns, Stage, PCs, Keyless, Keyed
<1> QED BY <1>4, <1>5, <1>6, <1>7, <1>8, <1>9, <1>10, <1>11, <1>12, <1>13, <1>14, <1>15,
           <1>16, <1>17, <1>18, <1>19 DEF Step

\* A thread that does not step stays where it is, whatever happens to the tables.
LEMMA StageKept ==
  ASSUME Typed, NEW u \in Threads, pc'[u] = pc[u], req'[u] = req[u], kid'[u] = kid[u],
         val'[u] = val[u], \A k \in Keys : db.keys[k] # NoId => db'.keys[k] = db.keys[k]
  PROVE  Stage(u)'
<1>1. Stage(u)
  BY DEF Typed
<1>2. pc[u] \in {"selectkey", "cachekey"} => req[u].key \in Keys
  BY <1>1, RequestOf DEF Stage, Keyless
<1> QED BY <1>1, <1>2 DEF Stage

\* Files come and go without a thread noticing.
Elsewhere == UNCHANGED <<keyCache, metaCache, pc, req, kid, val, found>>

LEMMA FileSteps ==
  ASSUME [Next]_vars
  PROVE  Elsewhere \/ \E t \in Threads : Step(t)
BY DEF Next, vars, CreateFile, UnlinkFile, Rename, Elsewhere

LEMMA TypedInit == Init => Typed
<1> SUFFICES ASSUME Init PROVE Typed
  OBVIOUS
<1>1. MaxId \in Nat /\ IsFiniteSet(Keys)
  BY MetadataAssumption
<1>2. Sound(db, MaxId) /\ db \in Databases(MaxId)
  BY <1>1, EmptySound DEF Init, Sound
<1>3. metaCache \in [Paths -> [KeyIds -> Seq(Values)]]
  <2>1. <<>> \in Seq(Values)
    OBVIOUS
  <2> QED BY <2>1 DEF Init
<1>4. TypeOK
  BY <1>2, <1>3 DEF Init, TypeOK, Results
<1>5. ASSUME NEW t \in Threads PROVE Stage(t)
  BY DEF Init, Stage, Keyless, Keyed
<1> QED BY <1>2, <1>4, <1>5 DEF Typed

LEMMA TypedStep == Typed /\ [Next]_vars => Typed'
<1> SUFFICES ASSUME Typed, [Next]_vars PROVE Typed'
  OBVIOUS
<1>1. /\ Sound(db, MaxId)' /\ db' \in Databases(MaxId) /\ TypeOK
      /\ \A k \in Keys : db.keys[k] # NoId => db'.keys[k] = db.keys[k]
  BY TypedTables DEF Typed
<1>2. CASE Elsewhere
  <2>1. TypeOK'
    BY <1>1, <1>2 DEF TypeOK, Elsewhere
  <2>2. ASSUME NEW u \in Threads PROVE Stage(u)'
    BY <1>1, <1>2, StageKept DEF Elsewhere
  <2> QED BY <1>1, <2>1, <2>2 DEF Typed
<1>3. ASSUME NEW t \in Threads, Step(t) PROVE Typed'
  <2>1. Assigns /\ Stage(t)'
    BY <1>1, <1>3, StepTyped
  <2>2. Others(t)
    BY <1>1, <1>3, StepOthers
  <2>3. ASSUME NEW u \in Threads PROVE Stage(u)'
    <3>1. CASE u # t
      BY <1>1, <2>2, <3>1, StageKept DEF Others
    <3> QED BY <2>1, <3>1
  <2>4. TypeOK'
    BY <1>1, <2>1 DEF TypeOK, Assigns, PCs
  <2> QED BY <1>1, <2>3, <2>4 DEF Typed
<1> QED BY <1>2, <1>3, FileSteps

\* The tables, the caches and the threads keep their types.
THEOREM MetadataTypes == Spec => []TypeOK
<1>1. Typed => TypeOK
  BY DEF Typed
<1> QED BY <1>1, TypedInit, TypedStep, PTL DEF Spec

\* Deleting and renaming files, in any order and between any two steps of a request,
\* leaves no row of metadata without a file, although the foreign keys are not enforced.
THEOREM RowsHaveFiles == Spec => []NoOrphanRows
<1>1. Typed => NoOrphanRows
  BY DEF Typed, Sound, RowsSound, NoOrphanRows
<1> QED BY <1>1, TypedInit, TypedStep, PTL DEF Spec

-------------------------------------------------------------------------------
(* Keyids.                                                                    *)

\* The keyid a pair of a key and a keyid has stays the one the table gives the key.
LEMMA PairsKept ==
  ASSUME Typed, [Next]_vars, NEW k \in Keys, NEW i \in KeyIds, i = db.keys[k]
  PROVE  i = db'.keys[k]
BY TypedTables, KeyIdFacts

\* What is in the key cache or on its way there.
Pairs == keyCache \cup UNION {found[t] : t \in Threads}

LEMMA PairsTyped == ASSUME Typed PROVE Pairs \subseteq Keys \X KeyIds
<1>1. \A t \in Threads : found[t] \subseteq Keys \X KeyIds
  BY DEF Typed, TypeOK
<1> QED BY <1>1 DEF Typed, TypeOK, Pairs

\* A pair that a step adds is the key of the thread with its keyid, or was selected.
LEMMA NewPairs ==
  ASSUME Typed, [Next]_vars, NEW e \in Pairs', e \notin Pairs
  PROVE  e[1] \in Keys /\ e[2] = db.keys[e[1]] /\ db' = db
<1>1. ~Elsewhere
  BY DEF Elsewhere, Pairs
<1>2. PICK t \in Threads : Step(t)
  BY <1>1, FileSteps
<1>3. /\ found \in [Threads -> SUBSET (Keys \X KeyIds)]
      /\ \A u \in Threads \ {t} : found'[u] = found[u]
  BY <1>2, StepOthers DEF Typed, TypeOK, Others
<1>4. e \in keyCache' \ keyCache \/ e \in found'[t] \ found[t]
  BY <1>3 DEF Pairs
<1>5. CASE CacheKey(t)
  <2>1. keyCache' = keyCache \cup {<<req[t].key, kid[t]>>} /\ found' = found /\ db' = db
        /\ pc[t] = "cachekey"
    BY <1>5 DEF CacheKey
  <2>2. req[t].key \in Keys /\ kid[t] = db.keys[req[t].key]
    BY <2>1, RequestOf DEF Typed, Stage
  <2> QED BY <1>4, <2>1, <2>2
<1>6. CASE ListXattr(t)
  <2>1. keyCache' = keyCache /\ db' = db
    BY <1>6 DEF ListXattr, shared
  <2>2. found' = [found EXCEPT ![t] = {<<k, db.keys[k]>> : k \in KeysOf(db, req[t].path)}]
    BY <1>4, <1>6, <2>1 DEF ListXattr
  <2>3. PICK k \in KeysOf(db, req[t].path) : e = <<k, db.keys[k]>>
    BY <1>3, <1>4, <2>1, <2>2
  <2> QED BY <2>1, <2>3 DEF KeysOf
<1>7. CASE CacheListed(t)
  <2>1. PICK f \in found[t] :
          keyCache' = keyCache \cup {f} /\ found' = [found EXCEPT ![t] = @ \ {f}]
    BY <1>7 DEF CacheListed
  <2>2. f \in Pairs
    BY DEF Pairs
  <2> QED BY <1>3, <1>4, <2>1, <2>2
<1>8. CASE ~CacheKey(t) /\ ~ListXattr(t) /\ ~CacheListed(t)
  <2>1. keyCache' = keyCache /\ found' = found
    BY <1>2, <1>8 DEF Step, Start, LookupKey, InsertKey, SelectKey, KeyQueryUnprepared,
       QueryFails, Uncache, Cache, SetXattr, GetCached, GetStored, RemoveXattr, DropCached,
       Return, shared
  <2> QED BY <1>4, <2>1
<1> QED BY <1>5, <1>6, <1>7, <1>8

PairsKnown == \A e \in Pairs : e[2] = db.keys[e[1]]

LEMMA PairsStep == Typed /\ PairsKnown /\ [Next]_vars => PairsKnown'
<1> SUFFICES ASSUME Typed, PairsKnown, [Next]_vars, NEW e \in Pairs'
             PROVE  e[2] = db'.keys[e[1]]
  BY DEF PairsKnown
<1>1. CASE e \in Pairs
  <2>1. e[1] \in Keys /\ e[2] \in KeyIds /\ e[2] = db.keys[e[1]]
    BY <1>1, PairsTyped DEF PairsKnown
  <2> QED BY <2>1, PairsKept
<1>2. CASE e \notin Pairs
  BY <1>2, NewPairs
<1> QED BY <1>1, <1>2

\* Whatever the threads race for, and whatever query fails, no two keys have one keyid
\* and the key cache knows a key by no other keyid than the table.
THEOREM KeysAreKnown == Spec => []KeysAgree
<1>1. Init => PairsKnown
  BY DEF Init, Pairs, PairsKnown
<1>2. Typed /\ PairsKnown => KeysAgree
  <2> SUFFICES ASSUME Typed, PairsKnown PROVE KeysAgree
    OBVIOUS
  <2>1. \A k, l \in Keys : db.keys[k] = db.keys[l] /\ db.keys[k] # NoId => k = l
    BY DEF Typed, Sound, KeysSound
  <2>2. \A e \in keyCache : e[2] = db.keys[e[1]]
    BY DEF PairsKnown, Pairs
  <2>3. ASSUME NEW t \in Threads, NEW e \in found[t]
        PROVE  e \in {<<k, db.keys[k]>> : k \in Keys}
    <3>1. e \in Pairs
      BY DEF Pairs
    <3>2. e \in Keys \X KeyIds /\ e[2] = db.keys[e[1]]
      BY <3>1, PairsTyped DEF PairsKnown
    <3> QED BY <3>2
  <2> QED BY <2>1, <2>2, <2>3 DEF KeysAgree
<1> QED BY <1>1, <1>2, TypedInit, TypedStep, PairsStep, PTL DEF Spec

\* A thread with a keyid has the one of the key it was asked for.
KeyidKnown ==
  \A t \in Threads : kid[t] # NoId => req[t].op # "list" /\ kid[t] = db.keys[req[t].key]

LEMMA KeyidStep ==
  ASSUME PrepareErrors = {}, Typed, PairsKnown, KeyidKnown, [Next]_vars
  PROVE  KeyidKnown'
<1>1. ASSUME NEW u \in Threads, kid'[u] # NoId, kid'[u] = kid[u], req'[u] = req[u]
      PROVE  req'[u].op # "list" /\ kid'[u] = db'.keys[req'[u].key]
  <2>1. req[u].op # "list" /\ kid[u] = db.keys[req[u].key] /\ kid[u] \in KeyIds
    BY <1>1 DEF KeyidKnown, Typed, TypeOK
  <2>2. pc[u] # "idle"
    BY <1>1 DEF Typed, Stage
  <2>3. req[u].key \in Keys
    BY <2>1, <2>2, RequestOf
  <2> QED BY <1>1, <2>1, <2>3, PairsKept
<1>2. CASE Elsewhere
  BY <1>1, <1>2 DEF Elsewhere, KeyidKnown
<1>3. ASSUME NEW t \in Threads, Step(t) PROVE KeyidKnown'
  <2>1. /\ kid \in [Threads -> {NoId} \cup KeyIds] /\ DOMAIN req = Threads
        /\ DOMAIN pc = Threads /\ Stage(t)
    BY DEF Typed, TypeOK
  <2>2. SUFFICES ASSUME kid'[t] # NoId, ~(kid'[t] = kid[t] /\ req'[t] = req[t])
                 PROVE  req'[t].op # "list" /\ kid'[t] = db'.keys[req'[t].key]
    BY <1>1, <1>3, StepOthers DEF Others, KeyidKnown, Typed
  <2>3. LookupKey(t) \/ SelectKey(t)
    <3>1. ~Start(t)
      <4>1. ASSUME Start(t) PROVE kid'[t] = NoId
        BY <2>1, <4>1 DEF Start, Stage
      <4> QED BY <2>2, <4>1
    <3>2. ~Return(t)
      BY <2>1, <2>2 DEF Return
    <3>3. ~KeyQueryUnprepared(t)
      BY DEF KeyQueryUnprepared
    <3> QED BY <1>3, <2>1, <2>2, <3>1, <3>2, <3>3 DEF Step, InsertKey, CacheKey,
           QueryFails, Uncache, Cache, SetXattr, GetCached, GetStored, RemoveXattr, DropCached,
           ListXattr, CacheListed, shared
  <2>4. req' = req /\ db' = db /\ req[t].op # "list"
    BY <2>1, <2>3 DEF LookupKey, SelectKey, shared, Stage, Keyless
  <2>5. kid'[t] = db.keys[req[t].key]
    <3>1. CASE SelectKey(t)
      BY <2>1, <3>1 DEF SelectKey
    <3>2. CASE LookupKey(t)
      <4>1. PICK e \in keyCache : e[1] = req[t].key /\ kid' = [kid EXCEPT ![t] = e[2]]
        BY <2>2, <2>4, <3>2 DEF LookupKey
      <4>2. e[2] = db.keys[e[1]]
        BY DEF PairsKnown, Pairs
      <4> QED BY <2>1, <4>1, <4>2
    <3> QED BY <2>3, <3>1, <3>2
  <2> QED BY <2>4, <2>5
<1> QED BY <1>2, <1>3, FileSteps

\* As long as every statement prepares, the keyid a request works with is the one of
\* the key it was asked for, whichever of the threads that race to insert it won.
THEOREM KeyidIsOfKey == ASSUME PrepareErrors = {} PROVE Spec => []KeyidOfKey
<1>1. Init => PairsKnown /\ KeyidKnown
  BY DEF Init, Pairs, PairsKnown, KeyidKnown
<1>2. KeyidKnown => KeyidOfKey
  BY DEF KeyidKnown, KeyidOfKey
<1>3. Typed /\ PairsKnown /\ KeyidKnown /\ [Next]_vars => KeyidKnown'
  BY KeyidStep
<1> QED BY <1>1, <1>2, <1>3, TypedInit, TypedStep, PairsStep, PTL DEF Spec

-------------------------------------------------------------------------------
(* The cache of values.                                                       *)

\* Replacing the entries of a thread's path and keyid leaves the others.
LEMMA EntriesReplaced ==
  ASSUME Typed, NEW t \in Threads, pc[t] \in Keyed, NEW s, SetEntries(t, s)
  PROVE  /\ req[t].path \in Paths /\ kid[t] \in KeyIds
         /\ metaCache'[req[t].path][kid[t]] = s
         /\ \A p \in Paths, i \in KeyIds :
              ~(req[t].path = p /\ kid[t] = i) => metaCache'[p][i] = metaCache[p][i]
<1>1. /\ req[t].path \in Paths /\ kid[t] \in KeyIds
      /\ metaCache \in [Paths -> [KeyIds -> Seq(Values)]]
  <2>1. pc[t] # "idle"
    BY DEF Keyed
  <2> QED BY <2>1, RequestOf DEF Typed, TypeOK, Stage
<1> QED BY <1>1 DEF SetEntries

\* How the entries of a thread get longer and shorter.
LEMMA EntriesLength ==
  ASSUME Typed, NEW t \in Threads, pc[t] \in Keyed
  PROVE  /\ Len(Entries(t)) \in Nat
         /\ Len(RemoveFirst(t)) = IF Len(Entries(t)) = 0 THEN 0 ELSE Len(Entries(t)) - 1
         /\ \A v \in Values : Len(InFront(t, v)) = Len(Entries(t)) + 1
<1>1. Entries(t) \in Seq(Values)
  BY EntriesTyped
<1>2. Len(Entries(t)) \in Nat /\ (Entries(t) = <<>> <=> Len(Entries(t)) = 0)
  BY <1>1, LenProperties, EmptySeq
<1>3. Len(RemoveFirst(t)) = IF Len(Entries(t)) = 0 THEN 0 ELSE Len(Entries(t)) - 1
  BY <1>1, <1>2, HeadTailProperties DEF RemoveFirst
<1>4. ASSUME NEW v \in Values PROVE Len(InFront(t, v)) = Len(Entries(t)) + 1
  <2>1. <<v>> \in Seq(Values) /\ Len(<<v>>) = 1
    OBVIOUS
  <2> QED BY <1>1, <1>2, <2>1, ConcatProperties DEF InFront
<1> QED BY <1>2, <1>3, <1>4

\* Only three steps of a thread touch the cache of values.
LEMMA CacheSteps ==
  ASSUME Typed, [Next]_vars
  PROVE  \/ \E t \in Threads : Uncache(t) \/ Cache(t) \/ DropCached(t)
         \/ /\ metaCache' = metaCache
            /\ \A t \in Threads : (pc[t] = "cache" \/ pc'[t] = "cache") =>
                 pc'[t] = pc[t] /\ req'[t] = req[t] /\ kid'[t] = kid[t]
<1>1. CASE Elsewhere
  BY <1>1 DEF Elsewhere
<1>2. ASSUME NEW t \in Threads, Step(t), ~(Uncache(t) \/ Cache(t) \/ DropCached(t))
      PROVE  metaCache' = metaCache /\ pc[t] # "cache" /\ pc'[t] # "cache"
  <2>1. DOMAIN pc = Threads
    BY DEF Typed, TypeOK
  <2> QED BY <1>2, <2>1 DEF Step, Start, LookupKey, InsertKey, SelectKey, CacheKey,
         KeyQueryUnprepared, QueryFails, SetXattr, GetCached, GetStored, RemoveXattr,
         ListXattr, CacheListed, Return, Goto, Finish, shared
<1>3. ASSUME NEW t \in Threads, Step(t) PROVE Others(t)
  BY <1>3, StepOthers DEF Typed
<1> QED BY <1>1, <1>2, <1>3, FileSteps DEF Others

\* The threads that are about to add an entry.
Adding(p, i) == {t \in Threads : pc[t] = "cache" /\ req[t].path = p /\ kid[t] = i}

\* The entries there are and those on their way: at most one of each thread.
Bounded ==
  \A p \in Paths, i \in KeyIds :
    Len(metaCache[p][i]) + Cardinality(Adding(p, i)) <= Cardinality(Threads)

LEMMA BoundedStep == Typed /\ Bounded /\ [Next]_vars => Bounded'
<1> SUFFICES ASSUME Typed, Bounded, [Next]_vars, NEW p \in Paths, NEW i \in KeyIds
             PROVE  Len(metaCache'[p][i]) + Cardinality(Adding(p, i)') <= Cardinality(Threads)
  BY DEF Bounded
<1> DEFINE n == Len(metaCache[p][i])
           A == Adding(p, i)
           Stays == Len(metaCache'[p][i]) + Cardinality(Adding(p, i)') <= Cardinality(Threads)
<1>1. /\ n \in Nat /\ IsFiniteSet(A) /\ Cardinality(A) \in Nat /\ Cardinality(Threads) \in Nat
      /\ n + Cardinality(A) <= Cardinality(Threads)
  <2>1. metaCache[p][i] \in Seq(Values)
    BY DEF Typed, TypeOK
  <2>2. IsFiniteSet(Threads) /\ A \in SUBSET Threads
    BY MetadataAssumption DEF Adding
  <2> QED BY <2>1, <2>2, FS_Subset, FS_CardinalityType, LenProperties DEF Bounded
<1>2. ASSUME NEW t \in Threads, Step(t)
      PROVE  Others(t) /\ DOMAIN pc = Threads
  BY <1>2, StepOthers DEF Typed, TypeOK
<1>3. ASSUME NEW t \in Threads, Uncache(t) PROVE Stays
  <2>1. /\ SetEntries(t, RemoveFirst(t)) /\ pc[t] = "uncache" /\ pc'[t] = "cache"
        /\ UNCHANGED <<req, kid>> /\ pc[t] \in Keyed /\ Others(t)
    BY <1>2, <1>3 DEF Uncache, Goto, Keyed, Step
  <2>2. CASE req[t].path = p /\ kid[t] = i
    <3>1. Len(metaCache'[p][i]) = IF n = 0 THEN 0 ELSE n - 1
      BY <2>1, <2>2, EntriesReplaced, EntriesLength DEF Entries
    <3>2. Adding(p, i)' = A \cup {t} /\ t \notin A
      BY <2>1, <2>2 DEF Adding, Others
    <3>3. Cardinality(A \cup {t}) = Cardinality(A) + 1
      BY <1>1, <3>2, FS_AddElement
    <3>4. Cardinality(A \cup {t}) <= Cardinality(Threads)
      <4>1. A \cup {t} \in SUBSET Threads
        BY DEF Adding
      <4> QED BY <4>1, FS_Subset, MetadataAssumption
    <3> HIDE DEF n, A
    <3> QED BY <1>1, <3>1, <3>2, <3>3, <3>4
  <2>3. CASE ~(req[t].path = p /\ kid[t] = i)
    <3>1. metaCache'[p][i] = metaCache[p][i]
      BY <2>1, <2>3, EntriesReplaced
    <3>2. Adding(p, i)' = A
      BY <2>1, <2>3 DEF Adding, Others
    <3> QED BY <1>1, <3>1, <3>2
  <2> QED BY <2>2, <2>3
<1>4. ASSUME NEW t \in Threads, Cache(t) PROVE Stays
  <2>1. /\ SetEntries(t, InFront(t, val[t])) /\ pc[t] = "cache" /\ pc'[t] = "done"
        /\ UNCHANGED <<req, kid>> /\ pc[t] \in Keyed /\ Others(t) /\ val[t] \in Values
    BY <1>2, <1>4 DEF Cache, Goto, Keyed, Step, Typed, Stage
  <2>2. CASE req[t].path = p /\ kid[t] = i
    <3>1. Len(metaCache'[p][i]) = n + 1
      <4>1. metaCache'[p][i] = InFront(t, val[t]) /\ n = Len(Entries(t))
        BY <2>1, <2>2, EntriesReplaced DEF Entries
      <4>2. Len(InFront(t, val[t])) = Len(Entries(t)) + 1
        BY <2>1, EntriesLength
      <4> QED BY <4>1, <4>2
    <3>2. Adding(p, i)' = A \ {t} /\ t \in A
      BY <2>1, <2>2 DEF Adding, Others
    <3>3. Cardinality(A \ {t}) = Cardinality(A) - 1
      BY <1>1, <3>2, FS_RemoveElement
    <3> HIDE DEF n, A
    <3> QED BY <1>1, <3>1, <3>2, <3>3
  <2>3. CASE ~(req[t].path = p /\ kid[t] = i)
    <3>1. metaCache'[p][i] = metaCache[p][i]
      BY <2>1, <2>3, EntriesReplaced
    <3>2. Adding(p, i)' = A
      BY <2>1, <2>3 DEF Adding, Others
    <3> QED BY <1>1, <3>1, <3>2
  <2> QED BY <2>2, <2>3
<1>5. ASSUME NEW t \in Threads, DropCached(t) PROVE Stays
  <2>1. /\ SetEntries(t, RemoveFirst(t)) /\ pc[t] = "drop" /\ pc'[t] = "done"
        /\ UNCHANGED <<req, kid>> /\ pc[t] \in Keyed /\ Others(t)
    BY <1>2, <1>5 DEF DropCached, Goto, Keyed, Step
  <2>2. Adding(p, i)' = A
    BY <2>1 DEF Adding, Others
  <2>3. Len(metaCache'[p][i]) \in Nat /\ Len(metaCache'[p][i]) <= n
    <3>1. CASE req[t].path = p /\ kid[t] = i
      <4>1. metaCache'[p][i] = RemoveFirst(t) /\ n = Len(Entries(t))
        BY <2>1, <3>1, EntriesReplaced DEF Entries
      <4>2. Len(RemoveFirst(t)) = IF Len(Entries(t)) = 0 THEN 0 ELSE Len(Entries(t)) - 1
        BY <2>1, EntriesLength
      <4> HIDE DEF n
      <4> QED BY <1>1, <4>1, <4>2
    <3>2. CASE ~(req[t].path = p /\ kid[t] = i)
      BY <1>1, <2>1, <3>2, EntriesReplaced
    <3> QED BY <3>1, <3>2
  <2> HIDE DEF n, A
  <2> QED BY <1>1, <2>2, <2>3
<1>6. CASE /\ metaCache' = metaCache
           /\ \A t \in Threads : (pc[t] = "cache" \/ pc'[t] = "cache") =>
                pc'[t] = pc[t] /\ req'[t] = req[t] /\ kid'[t] = kid[t]
  <2>1. Adding(p, i)' = A
    BY <1>6 DEF Adding
  <2> QED BY <1>1, <1>6, <2>1
<1> QED BY <1>3, <1>4, <1>5, <1>6, CacheSteps

\* Threads that race to cache a value may enter it more than once, but never more often
\* than there are threads: the entries do not pile up.
THEOREM CacheIsBounded == Spec => []CacheBounded
<1>1. Init => Bounded
  <2> SUFFICES ASSUME Init, NEW p \in Paths, NEW i \in KeyIds
               PROVE  Len(metaCache[p][i]) + Cardinality(Adding(p, i)) <= Cardinality(Threads)
    BY DEF Bounded
  <2>1. metaCache[p][i] = <<>> /\ Adding(p, i) = {}
    BY DEF Init, Adding
  <2>2. Cardinality({}) = 0 /\ Cardinality(Threads) \in Nat
    BY FS_EmptySet, FS_CardinalityType, MetadataAssumption
  <2> QED BY <2>1, <2>2
<1>2. Typed /\ Bounded => CacheBounded
  <2> SUFFICES ASSUME Typed, Bounded, NEW p \in Paths, NEW i \in KeyIds
               PROVE  Len(metaCache[p][i]) <= Cardinality(Threads)
    BY DEF CacheBounded
  <2>1. metaCache[p][i] \in Seq(Values) /\ Adding(p, i) \in SUBSET Threads
    BY DEF Typed, TypeOK, Adding
  <2>2. Cardinality(Adding(p, i)) \in Nat /\ Cardinality(Threads) \in Nat
    BY <2>1, FS_Subset, FS_CardinalityType, MetadataAssumption
  <2> QED BY <2>1, <2>2, LenProperties DEF Bounded
<1> QED BY <1>1, <1>2, TypedInit, TypedStep, BoundedStep, PTL DEF Spec

-------------------------------------------------------------------------------
(* Private paths: the cache against the database.                             *)

\* The cache of a path and keyid says what the database says, or nothing.
Consistent(p, i) ==
  metaCache[p][i] = <<>> \/ \E v \in MetaOf(db, p, i) : metaCache[p][i] = <<v>>

\* Between the query and the last of the critical sections that make the cache follow.
Updating(t, p, i) == pc[t] \in {"uncache", "cache", "drop"} /\ req[t].path = p /\ kid[t] = i

\* Not more than one entry to take out.
AtMostOne(t) == Entries(t) = <<>> \/ \E v \in Values : Entries(t) = <<v>>

\* What such a thread knows of the database and of the entries it will replace.
Held(t) ==
  LET stored == MetaOf(db, req[t].path, kid[t])
  IN  /\ pc[t] = "uncache" => val[t] \in stored /\ AtMostOne(t)
      /\ pc[t] = "cache" => val[t] \in stored /\ Entries(t) = <<>>
      /\ pc[t] = "drop" => stored = {} /\ AtMostOne(t)

On(t, p) == pc[t] # "idle" /\ req[t].path = p

Follows(p) ==
  /\ \A i \in KeyIds : Consistent(p, i) \/ \E t \in Threads : Updating(t, p, i)
  /\ \A t \in Threads : On(t, p) => Held(t) /\ Current(t)

PrivateFollow == \A p \in Paths : Private(p) => Follows(p)

\* On a private path there is one thread at most.
LEMMA OneThread ==
  ASSUME Typed, NEW p, Private(p), NEW t \in Threads, NEW u \in Threads, On(t, p), On(u, p)
  PROVE  t = u
<1>1. ASSUME NEW w \in Threads, On(w, p) PROVE Uses(w, p)
  <2>1. Access[w] \in SUBSET (Paths \X Keys) /\ req[w] \in Requests(Access[w])
    BY <1>1, MetadataAssumption DEF On, Typed, Stage
  <2>2. \E k \in Keys : <<req[w].path, k>> \in Access[w]
    BY <2>1, RequestFacts
  <2> QED BY <1>1, <2>2 DEF On, Uses
<1> QED BY <1>1 DEF Private

\* Whoever else deletes, renames or sets, the rows of a path whose file stays change
\* only by its own threads.
LEMMA RowsFrame ==
  ASSUME Typed, [Next]_vars, NEW p \in Paths \ Relinked,
         \A t \in Threads : SetXattr(t) \/ RemoveXattr(t) => req[t].path # p
  PROVE  RowsOf(db', p) = RowsOf(db, p)
<1>1. /\ MaxId \in Nat /\ IsFiniteSet(Keys) /\ Sound(db, MaxId) /\ Relinked \subseteq Paths
      /\ TypeOK
  BY MetadataAssumption DEF Typed
<1>2. ASSUME NEW t \in Threads, InsertKey(t) PROVE RowsOf(db', p) = RowsOf(db, p)
  <2>1. req[t].key \in Keys
    BY <1>2, RequestOf DEF InsertKey, Typed, Stage, Keyless
  <2> QED BY <1>1, <1>2, <2>1, AddKeySound DEF InsertKey
<1>3. ASSUME NEW t \in Threads, SetXattr(t) PROVE RowsOf(db', p) = RowsOf(db, p)
  <2>1. /\ req[t].path \in Paths /\ req[t].value \in Values /\ kid[t] \in KeyIds
        /\ req[t].path # p
    BY <1>1, <1>3, RequestOf DEF SetXattr, Typed, Stage, Keyed, TypeOK
  <2>2. CASE /\ CanSetMeta(db, req[t].path, kid[t], req[t].create)
             /\ db' = SetMeta(db, req[t].path, kid[t], req[t].value)
    <3>1. db.links[req[t].path] # NoId /\ kid[t] \in 1..Cardinality(Keys)
      BY <2>1, <2>2 DEF CanSetMeta, KeyIds
    <3>2. \A q \in Paths : q # req[t].path =>
             RowsOf(SetMeta(db, req[t].path, kid[t], req[t].value), q) = RowsOf(db, q)
      BY <1>1, <2>1, <3>1, SetMetaSound
    <3> QED BY <2>1, <2>2, <3>2
  <2> QED BY <1>3, <2>2 DEF SetXattr
<1>4. ASSUME NEW t \in Threads, RemoveXattr(t) PROVE RowsOf(db', p) = RowsOf(db, p)
  <2>1. req[t].path \in Paths /\ req[t].path # p
    BY <1>4, RequestOf DEF RemoveXattr
  <2> QED BY <1>1, <1>4, <2>1, DeleteMetaSound DEF RemoveXattr
<1>5. ASSUME NEW q \in Paths, CreateFile(q) PROVE RowsOf(db', p) = RowsOf(db, p)
  BY <1>1, <1>5, AddLinkSound DEF CreateFile
<1>6. ASSUME NEW q \in Relinked, UnlinkFile(q) PROVE RowsOf(db', p) = RowsOf(db, p)
  <2>1. q \in Paths /\ q # p
    BY <1>1
  <2> QED BY <1>1, <1>6, <2>1, DeleteFileSound DEF UnlinkFile
<1>7. ASSUME NEW q \in Relinked, NEW r \in Relinked, Rename(q, r)
      PROVE  RowsOf(db', p) = RowsOf(db, p)
  <2>1. PICK x \in BOOLEAN : q # r /\ CanRename(db, q, r, x) /\ db' = RenameFile(db, q, r, x)
    BY <1>7 DEF Rename
  <2>2. q \in Paths /\ r \in Paths /\ p \in Paths \ {q, r}
    BY <1>1
  <2>3. \A s \in Paths \ {q, r} : RowsOf(RenameFile(db, q, r, x), s) = RowsOf(db, s)
    BY <1>1, <2>1, <2>2, RenameSound
  <2> QED BY <2>1, <2>2, <2>3
<1>8. ASSUME NEW t \in Threads, Step(t), ~InsertKey(t), ~SetXattr(t), ~RemoveXattr(t)
      PROVE  db' = db
  BY <1>8 DEF Step, Start, LookupKey, SelectKey, CacheKey, KeyQueryUnprepared,
     QueryFails, Uncache, Cache, GetCached, GetStored, DropCached, ListXattr, CacheListed,
     Return, shared
<1>9. CASE UNCHANGED vars
  BY <1>9 DEF vars
<1> QED BY <1>2, <1>3, <1>4, <1>5, <1>6, <1>7, <1>8, <1>9 DEF Next

\* Nothing a thread on another path does reaches the entries of this one.
LEMMA EntriesFrame ==
  ASSUME Typed, [Next]_vars, NEW p \in Paths, \A t \in Threads : Step(t) => ~On(t, p)
  PROVE  \A i \in KeyIds : metaCache'[p][i] = metaCache[p][i]
<1>1. ASSUME NEW t \in Threads, Uncache(t) \/ Cache(t) \/ DropCached(t)
      PROVE  \A i \in KeyIds : metaCache'[p][i] = metaCache[p][i]
  <2>1. pc[t] \in Keyed /\ \E s : SetEntries(t, s)
    BY <1>1 DEF Uncache, Cache, DropCached, Keyed
  <2>2. req[t].path # p
    BY <1>1, <2>1 DEF On, Step, Keyed
  <2> QED BY <2>1, <2>2, EntriesReplaced
<1> QED BY <1>1, CacheSteps

LEMMA MetaFrame ==
  ASSUME NEW p, NEW i, RowsOf(db', p) = RowsOf(db, p)
  PROVE  MetaOf(db', p, i) = MetaOf(db, p, i)
BY DEF MetaOf, RowsAt

\* A step that is none of a thread on the path.
LEMMA FollowsElsewhere ==
  ASSUME Typed, [Next]_vars, NEW p \in Paths, Private(p), Follows(p),
         \A t \in Threads : Step(t) => ~On(t, p)
  PROVE  Follows(p)'
<1>1. RowsOf(db', p) = RowsOf(db, p)
  <2>1. \A t \in Threads : SetXattr(t) \/ RemoveXattr(t) => req[t].path # p
    BY DEF SetXattr, RemoveXattr, On, Step
  <2> QED BY <2>1, RowsFrame DEF Private
<1>2. \A i : MetaOf(db', p, i) = MetaOf(db, p, i)
  BY <1>1, MetaFrame
<1>3. \A i \in KeyIds : metaCache'[p][i] = metaCache[p][i]
  BY EntriesFrame
<1>4. ASSUME NEW u \in Threads, On(u, p) \/ On(u, p)'
      PROVE  \/ /\ On(u, p) /\ pc'[u] = pc[u] /\ req'[u] = req[u] /\ kid'[u] = kid[u]
                /\ val'[u] = val[u]
             \/ pc'[u] \in {"list", "resolve"}
  <2>1. CASE Elsewhere
    BY <1>4, <2>1 DEF Elsewhere, On
  <2>2. ASSUME NEW t \in Threads, Step(t), t # u
        PROVE  On(u, p) /\ pc'[u] = pc[u] /\ req'[u] = req[u] /\ kid'[u] = kid[u] /\ val'[u] = val[u]
    BY <1>4, <2>2, StepOthers DEF Typed, Others, On
  <2>3. ASSUME Step(u) PROVE pc'[u] \in {"list", "resolve"}
    <3>1. ~On(u, p) /\ On(u, p)' /\ DOMAIN pc = Threads /\ DOMAIN req = Threads
      BY <1>4, <2>3 DEF Typed, TypeOK
    <3>2. CASE Start(u)
      BY <3>1, <3>2 DEF Start, Goto
    <3>3. CASE Return(u)
      BY <3>1, <3>3 DEF Return, Goto, On
    <3>4. CASE ~Start(u) /\ ~Return(u)
      <4>1. req' = req /\ pc[u] # "idle"
        BY <2>3, <3>4 DEF Step, LookupKey, InsertKey, SelectKey, CacheKey, KeyQueryUnprepared,
           QueryFails, Uncache, Cache, SetXattr, GetCached, GetStored, RemoveXattr, DropCached,
           ListXattr, CacheListed, shared
      <4> QED BY <3>1, <4>1 DEF On
    <3> QED BY <3>2, <3>3, <3>4
  <2> QED BY <2>1, <2>2, <2>3, FileSteps
<1>5. ASSUME NEW i \in KeyIds
      PROVE  Consistent(p, i)' \/ \E u \in Threads : Updating(u, p, i)'
  <2>1. CASE Consistent(p, i)
    BY <1>2, <1>3, <2>1 DEF Consistent
  <2>2. ASSUME NEW u \in Threads, Updating(u, p, i) PROVE Updating(u, p, i)'
    <3>1. On(u, p) /\ ~Start(u)
      BY <2>2 DEF Updating, On, Start
    <3>2. pc'[u] = pc[u] /\ req'[u] = req[u] /\ kid'[u] = kid[u]
      <4>1. CASE Elsewhere
        BY <4>1 DEF Elsewhere
      <4>2. ASSUME NEW t \in Threads, Step(t) PROVE Others(t) /\ t # u
        BY <3>1, <4>2, StepOthers DEF Typed
      <4> QED BY <4>1, <4>2, FileSteps DEF Others
    <3> QED BY <2>2, <3>2 DEF Updating
  <2> QED BY <2>1, <2>2 DEF Follows
<1>6. ASSUME NEW u \in Threads, On(u, p)' PROVE (Held(u) /\ Current(u))'
  <2>1. CASE pc'[u] \in {"list", "resolve"}
    BY <2>1 DEF Held, Current
  <2>2. CASE /\ On(u, p) /\ pc'[u] = pc[u] /\ req'[u] = req[u] /\ kid'[u] = kid[u]
             /\ val'[u] = val[u]
    <3>1. Held(u) /\ Current(u) /\ req[u].path = p
      BY <2>2 DEF Follows, On
    <3>2. Current(u)'
      BY <1>2, <2>2, <3>1 DEF Current
    <3>3. Held(u)'
      <4>1. CASE pc[u] \in {"uncache", "cache", "drop"}
        <5>1. kid[u] \in KeyIds
          BY <4>1 DEF Typed, TypeOK, Stage, Keyed
        <5>2. Entries(u)' = Entries(u)
          BY <1>3, <2>2, <3>1, <5>1 DEF Entries
        <5> QED BY <1>2, <2>2, <3>1, <5>2 DEF Held, AtMostOne
      <4> QED BY <2>2, <4>1 DEF Held
    <3> QED BY <3>2, <3>3
  <2> QED BY <1>4, <1>6, <2>1, <2>2
<1> QED BY <1>5, <1>6 DEF Follows

\* A step of the thread on the path that neither queries for an update nor updates.
LEMMA FollowsUnchanged ==
  ASSUME Typed, NEW p \in Paths, Private(p), Follows(p), NEW t \in Threads, On(t, p), Step(t),
         pc[t] \notin {"uncache", "cache", "drop"},
         RowsOf(db', p) = RowsOf(db, p), metaCache' = metaCache
  PROVE  \A i \in KeyIds : Consistent(p, i) /\ Consistent(p, i)'
<1> SUFFICES ASSUME NEW i \in KeyIds PROVE Consistent(p, i) /\ Consistent(p, i)'
  OBVIOUS
<1>1. Consistent(p, i)
  <2>1. ASSUME NEW u \in Threads, Updating(u, p, i) PROVE FALSE
    <3>1. On(u, p)
      BY <2>1 DEF Updating, On
    <3>2. u = t
      BY <3>1, OneThread
    <3> QED BY <2>1, <3>2 DEF Updating
  <2> QED BY <2>1 DEF Follows
<1>2. MetaOf(db', p, i) = MetaOf(db, p, i)
  BY MetaFrame
<1> QED BY <1>1, <1>2 DEF Consistent

\* What a thread that queried the database leaves: its keyid is being updated, every
\* other one says what the database says.
LEMMA FollowsQuery ==
  ASSUME Typed, NEW p \in Paths, Private(p), Follows(p), NEW t \in Threads, On(t, p),
         SetXattr(t) \/ GetStored(t) \/ RemoveXattr(t),
         pc'[t] \in {"uncache", "drop"}
  PROVE  Held(t)' /\ \A i \in KeyIds : Consistent(p, i)' \/ Updating(t, p, i)'
<1>1. /\ MaxId \in Nat /\ IsFiniteSet(Keys) /\ Sound(db, MaxId) /\ TypeOK /\ Stage(t)
      /\ req[t].path = p
  BY MetadataAssumption DEF Typed, On
<1>2. /\ pc[t] \in {"op", "read"} /\ kid[t] \in KeyIds
      /\ UNCHANGED <<keyCache, metaCache, req, kid, found>>
  <2>1. pc[t] \in {"op", "read"} /\ UNCHANGED <<keyCache, metaCache, req, kid, found>>
    BY DEF SetXattr, GetStored, RemoveXattr, shared
  <2> QED BY <1>1, <2>1 DEF Stage, Keyed, TypeOK
<1>3. \A i \in KeyIds : Consistent(p, i)
  <2>1. ASSUME NEW u \in Threads, NEW i \in KeyIds, Updating(u, p, i) PROVE FALSE
    <3>1. On(u, p)
      BY <2>1 DEF Updating, On
    <3>2. u = t
      BY <3>1, OneThread
    <3> QED BY <1>2, <2>1, <3>2 DEF Updating
  <2> QED BY <2>1 DEF Follows
<1>4. AtMostOne(t)'
  <2>1. Consistent(p, kid[t])
    BY <1>2, <1>3
  <2>2. MetaOf(db, p, kid[t]) \subseteq Values
    BY <1>1, Columns DEF MetaOf, RowsAt, RowsOf, TypeOK
  <2>3. Entries(t)' = Entries(t)
    BY <1>2 DEF Entries
  <2> QED BY <1>1, <2>1, <2>2, <2>3 DEF Consistent, AtMostOne, Entries
<1>5. /\ \A i \in KeyIds : i # kid[t] => MetaOf(db', p, i) = MetaOf(db, p, i)
      /\ pc'[t] = "uncache" => val'[t] \in MetaOf(db', p, kid[t])
      /\ pc'[t] = "drop" => MetaOf(db', p, kid[t]) = {}
  <2>1. CASE SetXattr(t)
    <3>1. /\ req[t].op = "set" /\ CanSetMeta(db, p, kid[t], req[t].create)
          /\ db' = SetMeta(db, p, kid[t], req[t].value)
          /\ val'[t] = req[t].value /\ pc'[t] = "uncache"
      <4>1. ~Finish(t, Failed)
        BY <1>1 DEF Finish, Goto, TypeOK
      <4> QED BY <1>1, <2>1, <4>1 DEF SetXattr, Goto, TypeOK
    <3>2. req[t].value \in Values /\ db.links[p] # NoId /\ kid[t] \in 1..Cardinality(Keys)
      BY <1>2, <3>1, RequestOf DEF CanSetMeta, On, KeyIds
    <3>3. /\ MetaOf(SetMeta(db, p, kid[t], req[t].value), p, kid[t]) = {req[t].value}
          /\ \A i : i # kid[t] =>
               RowsAt(SetMeta(db, p, kid[t], req[t].value), p, i) = RowsAt(db, p, i)
      BY <1>1, <3>2, SetMetaSound
    <3> QED BY <3>1, <3>3 DEF MetaOf
  <2>2. CASE GetStored(t)
    <3>1. /\ db' = db /\ pc'[t] = "uncache"
          /\ \E v \in MetaOf(db, p, kid[t]) : val' = [val EXCEPT ![t] = v]
      <4>1. ~Finish(t, Missing)
        BY <1>1 DEF Finish, Goto, TypeOK
      <4> QED BY <1>1, <2>2, <4>1 DEF GetStored, Goto, TypeOK, shared
    <3> QED BY <1>1, <3>1 DEF TypeOK
  <2>3. CASE RemoveXattr(t)
    <3>1. db' = DeleteMeta(db, p, kid[t]) /\ pc'[t] = "drop"
      BY <1>1, <2>3 DEF RemoveXattr, Goto, TypeOK
    <3>2. /\ MetaOf(DeleteMeta(db, p, kid[t]), p, kid[t]) = {}
          /\ \A i : i # kid[t] => RowsAt(DeleteMeta(db, p, kid[t]), p, i) = RowsAt(db, p, i)
      BY <1>1, DeleteMetaSound
    <3> QED BY <3>1, <3>2 DEF MetaOf
  <2> QED BY <2>1, <2>2, <2>3
<1>6. ASSUME NEW i \in KeyIds, i # kid[t] PROVE Consistent(p, i)'
  BY <1>2, <1>3, <1>5, <1>6 DEF Consistent
<1>7. Held(t)'
  BY <1>1, <1>2, <1>4, <1>5 DEF Held
<1>8. ASSUME NEW i \in KeyIds, i = kid[t] PROVE Updating(t, p, i)'
  BY <1>1, <1>2, <1>8 DEF Updating
<1> QED BY <1>6, <1>7, <1>8

\* The critical sections on a private path: the first leaves nothing of the keyid,
\* the second what the database has.
LEMMA FollowsUpdate ==
  ASSUME Typed, NEW p \in Paths, Private(p), Follows(p), NEW t \in Threads, On(t, p),
         Uncache(t) \/ Cache(t) \/ DropCached(t)
  PROVE  /\ \A i \in KeyIds : Consistent(p, i)' \/ Updating(t, p, i)'
         /\ Held(t)' /\ Current(t)'
<1>1. /\ Sound(db, MaxId) /\ TypeOK /\ Stage(t) /\ req[t].path = p /\ Held(t)
      /\ MaxId \in Nat /\ Missing \notin Values
  BY MetadataAssumption DEF Typed, On, Follows
<1>2. /\ pc[t] \in {"uncache", "cache", "drop"} /\ pc[t] \in Keyed /\ kid[t] \in KeyIds
      /\ UNCHANGED <<db, keyCache, req, kid, val, found>>
  <2>1. /\ pc[t] \in {"uncache", "cache", "drop"}
        /\ UNCHANGED <<db, keyCache, req, kid, val, found>>
    BY DEF Uncache, Cache, DropCached
  <2> QED BY <1>1, <2>1 DEF Stage, Keyed, TypeOK
<1>3. ASSUME NEW i \in KeyIds, i # kid[t] PROVE Consistent(p, i) /\ Consistent(p, i)'
  <2>1. ASSUME NEW u \in Threads, Updating(u, p, i) PROVE FALSE
    <3>1. On(u, p)
      BY <2>1 DEF Updating, On
    <3>2. u = t
      BY <3>1, OneThread
    <3> QED BY <1>3, <2>1, <3>2 DEF Updating
  <2>2. Consistent(p, i)
    BY <2>1 DEF Follows
  <2>3. metaCache'[p][i] = metaCache[p][i]
    <3>1. \E s : SetEntries(t, s)
      BY DEF Uncache, Cache, DropCached
    <3> QED BY <1>1, <1>2, <1>3, <3>1, EntriesReplaced
  <2> QED BY <1>2, <2>2, <2>3 DEF Consistent
<1>4. AtMostOne(t) => RemoveFirst(t) = <<>>
  <2>1. \A v \in Values : Tail(<<v>>) = <<>>
    OBVIOUS
  <2> QED BY <2>1 DEF AtMostOne, RemoveFirst
<1>5. CASE Uncache(t)
  <2>1. pc[t] = "uncache" /\ pc'[t] = "cache" /\ SetEntries(t, RemoveFirst(t))
    BY <1>1, <1>5 DEF Uncache, Goto, TypeOK
  <2>2. metaCache'[p][kid[t]] = <<>>
    BY <1>1, <1>2, <1>4, <2>1, EntriesReplaced DEF Held
  <2>3. Held(t)'
    BY <1>1, <1>2, <2>1, <2>2 DEF Held, Entries
  <2>4. Current(t)' /\ \A i \in KeyIds : i = kid[t] => Updating(t, p, i)'
    BY <1>1, <1>2, <2>1 DEF Updating, Current
  <2> QED BY <1>3, <2>3, <2>4
<1>6. CASE Cache(t)
  <2>1. pc[t] = "cache" /\ pc'[t] = "done" /\ SetEntries(t, InFront(t, val[t]))
    BY <1>1, <1>6 DEF Cache, Goto, TypeOK
  <2>2. metaCache'[p][kid[t]] = <<val[t]>>
    <3>1. Entries(t) = <<>>
      BY <1>1, <2>1 DEF Held
    <3>2. InFront(t, val[t]) = <<val[t]>>
      BY <3>1 DEF InFront
    <3> QED BY <1>1, <1>2, <2>1, <3>2, EntriesReplaced
  <2>3. val[t] \in MetaOf(db, p, kid[t]) /\ val[t] \in Values
    BY <1>1, <2>1 DEF Held, Stage
  <2>4. MetaOf(db, p, kid[t]) = {val[t]}
    BY <1>1, <2>3, OneValue
  <2>5. ASSUME NEW i \in KeyIds, i = kid[t] PROVE Consistent(p, i)'
    BY <1>2, <2>2, <2>3, <2>5 DEF Consistent
  <2>6. Held(t)' /\ Current(t)'
    BY <1>1, <1>2, <2>1, <2>3, <2>4 DEF Held, Current
  <2> QED BY <1>3, <2>5, <2>6
<1>7. CASE DropCached(t)
  <2>1. pc[t] = "drop" /\ pc'[t] = "done" /\ SetEntries(t, RemoveFirst(t))
    BY <1>1, <1>7 DEF DropCached, Goto, TypeOK
  <2>2. metaCache'[p][kid[t]] = <<>>
    BY <1>1, <1>2, <1>4, <2>1, EntriesReplaced DEF Held
  <2>3. ASSUME NEW i \in KeyIds, i = kid[t] PROVE Consistent(p, i)'
    BY <2>2, <2>3 DEF Consistent
  <2>4. req'[t].op = "remove"
    BY <1>1, <1>2, <2>1 DEF Stage
  <2>5. Held(t)' /\ Current(t)'
    BY <2>1, <2>4 DEF Held, Current
  <2> QED BY <1>3, <2>3, <2>5
<1> QED BY <1>5, <1>6, <1>7

\* The other steps of the thread on the path: the answer of getxattr is the value the
\* cache has, which is the one of the file, or none where the file has none.
LEMMA FollowsOther ==
  ASSUME Typed, NEW p \in Paths, Private(p), Follows(p), NEW t \in Threads, On(t, p), Step(t),
         [Next]_vars, ~(Uncache(t) \/ Cache(t) \/ DropCached(t)),
         pc'[t] \notin {"uncache", "drop"}
  PROVE  Held(t)' /\ (pc'[t] # "idle" => Current(t)') /\ \A i \in KeyIds : Consistent(p, i)'
<1>1. /\ Sound(db, MaxId) /\ TypeOK /\ Stage(t) /\ req[t].path = p /\ MaxId \in Nat
      /\ Missing \notin Values /\ pc[t] # "idle" /\ ~Start(t) /\ Others(t)
  BY MetadataAssumption, StepOthers DEF Typed, On, Start
<1>2. /\ metaCache' = metaCache /\ pc[t] \notin {"uncache", "cache", "drop"}
      /\ pc'[t] \notin {"uncache", "cache", "drop"}
  BY <1>1 DEF Step, LookupKey, InsertKey, SelectKey, CacheKey, KeyQueryUnprepared, QueryFails,
     SetXattr, GetCached, GetStored, RemoveXattr, ListXattr, CacheListed, Return, Goto, Finish,
     shared, TypeOK
<1>3. ~RemoveXattr(t) /\ (SetXattr(t) => db' = db)
  <2>1. ~RemoveXattr(t)
    BY <1>1, <1>2 DEF RemoveXattr, Goto, TypeOK
  <2>2. SetXattr(t) => db' = db
    BY <1>1, <1>2 DEF SetXattr, Goto, TypeOK
  <2> QED BY <2>1, <2>2
<1>4. RowsOf(db', p) = RowsOf(db, p)
  <2>1. CASE SetXattr(t)
    BY <1>3, <2>1
  <2>2. CASE ~SetXattr(t)
    <3>1. ASSUME NEW u \in Threads, SetXattr(u) \/ RemoveXattr(u) PROVE u = t
      <4>1. pc[u] # pc'[u]
        BY <1>1, <3>1 DEF SetXattr, RemoveXattr, Goto, Finish, TypeOK
      <4> QED BY <1>1, <4>1 DEF Others
    <3> QED BY <1>3, <2>2, <3>1, RowsFrame DEF Private
  <2> QED BY <2>1, <2>2
<1>5. \A i \in KeyIds : Consistent(p, i) /\ Consistent(p, i)'
  BY <1>2, <1>4, FollowsUnchanged
<1>6. Held(t)'
  BY <1>2 DEF Held
<1>7. ASSUME pc'[t] = "done" PROVE Current(t)'
  <2>1. CASE GetCached(t)
    <3>1. /\ Entries(t) # <<>> /\ val'[t] = Head(Entries(t)) /\ db' = db /\ req' = req /\ kid' = kid
          /\ kid[t] \in KeyIds
      BY <1>1, <1>7, <2>1 DEF GetCached, Finish, Goto, TypeOK, shared, Stage, Keyed
    <3>2. PICK v \in MetaOf(db, p, kid[t]) : Entries(t) = <<v>>
      BY <1>1, <1>5, <3>1 DEF Consistent, Entries
    <3>3. val'[t] = v /\ MetaOf(db, p, kid[t]) = {v}
      <4>1. Head(<<v>>) = v
        OBVIOUS
      <4> QED BY <1>1, <3>1, <3>2, <4>1, OneValue
    <3>4. v # Missing
      BY <1>1, <3>2, MetadataAssumption, Columns DEF MetaOf, RowsAt, RowsOf, TypeOK
    <3> QED BY <1>1, <3>1, <3>3, <3>4 DEF Current
  <2>2. CASE GetStored(t)
    <3>1. /\ MetaOf(db, p, kid[t]) = {} /\ val'[t] = Missing
          /\ db' = db /\ req' = req /\ kid' = kid
      BY <1>1, <1>7, <2>2 DEF GetStored, Finish, Goto, TypeOK, shared
    <3> QED BY <1>1, <3>1 DEF Current
  <2>3. CASE val'[t] = Failed
    BY <2>3 DEF Current
  <2>4. CASE req'[t].op # "get"
    BY <2>4 DEF Current
  <2>5. GetCached(t) \/ GetStored(t) \/ val'[t] = Failed \/ req'[t].op # "get"
    <3>1. CASE QueryFails(t) \/ SetXattr(t)
      BY <1>1, <1>7, <3>1 DEF QueryFails, SetXattr, Finish, Goto, TypeOK
    <3>2. CASE ListXattr(t) \/ CacheListed(t)
      BY <1>1, <3>2 DEF ListXattr, CacheListed, Stage
    <3>3. CASE ~(QueryFails(t) \/ SetXattr(t) \/ ListXattr(t) \/ CacheListed(t))
      BY <1>1, <1>3, <1>7, <3>3 DEF Step, LookupKey, InsertKey, SelectKey, CacheKey,
         KeyQueryUnprepared, Return, Goto, TypeOK
    <3> QED BY <3>1, <3>2, <3>3
  <2> QED BY <2>1, <2>2, <2>3, <2>4, <2>5
<1>8. pc'[t] # "done" => Current(t)'
  BY DEF Current
<1> QED BY <1>5, <1>6, <1>7, <1>8

LEMMA FollowsStep == Typed /\ PrivateFollow /\ [Next]_vars => PrivateFollow'
<1> SUFFICES ASSUME Typed, PrivateFollow, [Next]_vars, NEW p \in Paths, Private(p)
             PROVE  Follows(p)'
  BY DEF PrivateFollow, Private, Uses
<1>1. Follows(p)
  BY DEF PrivateFollow
<1>2. CASE \A t \in Threads : Step(t) => ~On(t, p)
  BY <1>1, <1>2, FollowsElsewhere
<1>3. ASSUME NEW t \in Threads, Step(t), On(t, p) PROVE Follows(p)'
  <2>1. ASSUME NEW u \in Threads, On(u, p)' PROVE u = t
    <3>1. CASE u # t
      <4>1. On(u, p)
        BY <1>3, <2>1, <3>1, StepOthers DEF Typed, Others, On
      <4> QED BY <1>3, <4>1, OneThread
    <3> QED BY <3>1
  <2>2. /\ Held(t)' /\ (pc'[t] # "idle" => Current(t)')
        /\ \A i \in KeyIds : Consistent(p, i)' \/ Updating(t, p, i)'
    <3>1. CASE Uncache(t) \/ Cache(t) \/ DropCached(t)
      BY <1>1, <1>3, <3>1, FollowsUpdate
    <3>2. CASE pc'[t] \in {"uncache", "drop"} /\ (SetXattr(t) \/ GetStored(t) \/ RemoveXattr(t))
      <4>1. Current(t)'
        BY <3>2 DEF Current
      <4> QED BY <1>1, <1>3, <3>2, <4>1, FollowsQuery
    <3>3. CASE pc'[t] \notin {"uncache", "drop"} /\ ~(Uncache(t) \/ Cache(t) \/ DropCached(t))
      BY <1>1, <1>3, <3>3, FollowsOther
    <3>4. pc'[t] \in {"uncache", "drop"} =>
            Uncache(t) \/ Cache(t) \/ DropCached(t) \/ SetXattr(t) \/ GetStored(t) \/ RemoveXattr(t)
      BY <1>3 DEF Step, Start, LookupKey, InsertKey, SelectKey, CacheKey, KeyQueryUnprepared,
         QueryFails, GetCached, ListXattr, CacheListed, Return, Goto, Finish, Typed, TypeOK
    <3> QED BY <3>1, <3>2, <3>3, <3>4
  <2>3. ASSUME NEW u \in Threads, On(u, p)' PROVE (Held(u) /\ Current(u))'
    BY <2>1, <2>2, <2>3 DEF On
  <2> QED BY <2>2, <2>3 DEF Follows
<1> QED BY <1>2, <1>3

LEMMA FollowsInit == Init => PrivateFollow
BY DEF Init, PrivateFollow, Follows, Consistent, On

\* On a path that only one thread works on and whose file stays, the cache says what the
\* database says whenever no request is under way there: other threads, which share the
\* keys, the two caches and the database, cannot make it stale.
THEOREM PrivateIsCached == Spec => []PrivateCached
<1>1. PrivateFollow => PrivateCached
  <2> SUFFICES ASSUME PrivateFollow, NEW p \in Paths, NEW i \in KeyIds, Private(p), Quiet(p)
               PROVE  Consistent(p, i)
    BY DEF PrivateCached, Consistent
  <2>1. ~\E t \in Threads : Updating(t, p, i)
    BY DEF Quiet, Updating
  <2> QED BY <2>1 DEF PrivateFollow, Follows
<1> QED BY <1>1, TypedInit, TypedStep, FollowsInit, FollowsStep, PTL DEF Spec

\* What getxattr answers on such a path is the value the file has.
THEOREM PrivateIsCurrent == Spec => []PrivateCurrent
<1>1. Typed /\ PrivateFollow => PrivateCurrent
  <2> SUFFICES ASSUME Typed, PrivateFollow, NEW t \in Threads, pc[t] # "idle",
                      Private(req[t].path)
               PROVE  Current(t)
    BY DEF PrivateCurrent
  <2>1. req[t].path \in Paths /\ On(t, req[t].path)
    BY RequestOf DEF On
  <2> QED BY <2>1 DEF PrivateFollow, Follows
<1> QED BY <1>1, TypedInit, TypedStep, FollowsInit, FollowsStep, PTL DEF Spec

===============================================================================
