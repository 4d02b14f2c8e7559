--------------------------- MODULE JfsDatabaseProofs ---------------------------
(***************************************************************************)
(* Lemmas about the SQL statements of JfsDatabase: what each one does to   *)
(* the columns, and that the transactions joinFS builds from them keep the *)
(* tables sound, for any paths, keys and values.                           *)
(***************************************************************************)
EXTENDS JfsDatabase, FiniteSetTheorems, TLAPS

-------------------------------------------------------------------------------
(* What sound tables are.                                                     *)

Assigned(d) == {k \in Keys : d.keys[k] # NoId}

\* A key has one keyid, which no other has, and none above the one given last.
KeysSound(d) ==
  /\ d.lastKey = Cardinality(Assigned(d))
  /\ \A k \in Keys : d.keys[k] <= d.lastKey
  /\ \A k, l \in Keys : d.keys[k] = d.keys[l] /\ d.keys[k] # NoId => k = l

LinksSound(d) ==
  /\ \A p \in Paths : d.links[p] <= d.lastId
  /\ \A p, q \in Paths : d.links[p] = d.links[q] /\ d.links[p] # NoId => p = q

\* A file has one value of a key, and there is a file for every row.
RowsSound(d) ==
  /\ \A r, s \in d.metadata : r.id = s.id /\ r.key = s.key => r = s
  /\ \A r \in d.metadata : \E p \in Paths : d.links[p] = r.id

Sound(d, maxId) ==
  d \in Databases(maxId) /\ KeysSound(d) /\ LinksSound(d) /\ RowsSound(d)

\* A database is its five columns.
LEMMA Columns ==
  ASSUME NEW maxId \in Nat, NEW d \in Databases(maxId), IsFiniteSet(Keys)
  PROVE  /\ d = [links |-> d.links, lastId |-> d.lastId, keys |-> d.keys,
                 lastKey |-> d.lastKey, metadata |-> d.metadata]
         /\ d.links \in [Paths -> 0..maxId] /\ d.lastId \in 0..maxId
         /\ d.keys \in [Keys -> 0..Cardinality(Keys)] /\ d.lastKey \in 0..Cardinality(Keys)
         /\ \A r \in d.metadata :
              r.id \in 1..maxId /\ r.key \in 1..Cardinality(Keys) /\ r.value \in Values
         /\ \A r \in d.metadata : r = [id |-> r.id, key |-> r.key, value |-> r.value]
         /\ Cardinality(Keys) \in Nat
<1>1. Cardinality(Keys) \in Nat
  BY FS_CardinalityType
<1> QED BY <1>1 DEF Databases

\* A path without a row in links has no rows in metadata.
LEMMA UnlinkedRows ==
  ASSUME NEW maxId \in Nat, NEW d \in Databases(maxId), IsFiniteSet(Keys),
         NEW p \in Paths, d.links[p] = NoId
  PROVE  RowsOf(d, p) = {}
BY Columns DEF RowsOf, NoId

LEMMA EmptySound ==
  ASSUME NEW maxId \in Nat, IsFiniteSet(Keys)
  PROVE  Sound(EmptyDb, maxId)
<1>1. Cardinality(Keys) \in Nat
  BY FS_CardinalityType
<1>2. EmptyDb \in Databases(maxId)
  BY <1>1 DEF EmptyDb, Databases, NoId
<1>3. Assigned(EmptyDb) = {}
  BY DEF Assigned, EmptyDb
<1>4. KeysSound(EmptyDb)
  BY <1>3, FS_EmptySet DEF KeysSound, EmptyDb, NoId
<1> QED BY <1>2, <1>4 DEF Sound, LinksSound, RowsSound, EmptyDb, NoId

-------------------------------------------------------------------------------
(* What each statement does to the columns.                                   *)

LEMMA AddLinkColumns ==
  ASSUME NEW maxId \in Nat, NEW d \in Databases(maxId), NEW p \in Paths,
         d.lastId < maxId, IsFiniteSet(Keys)
  PROVE  /\ AddLink(d, p) \in Databases(maxId)
         /\ AddLink(d, p).links = [d.links EXCEPT ![p] = d.lastId + 1]
         /\ AddLink(d, p).lastId = d.lastId + 1
         /\ AddLink(d, p).keys = d.keys /\ AddLink(d, p).lastKey = d.lastKey
         /\ AddLink(d, p).metadata = d.metadata
<1> DEFINE e == AddLink(d, p)
<1>1. e = [d EXCEPT !.links = [d.links EXCEPT ![p] = d.lastId + 1], !.lastId = d.lastId + 1]
  BY DEF AddLink
<1>2. /\ e.links = [d.links EXCEPT ![p] = d.lastId + 1] /\ e.lastId = d.lastId + 1
      /\ e.keys = d.keys /\ e.lastKey = d.lastKey /\ e.metadata = d.metadata
  BY <1>1 DEF Databases
<1>3. e.links \in [Paths -> 0..maxId] /\ e.lastId \in 0..maxId
  BY <1>2, Columns
<1>4. e \in Databases(maxId)
  BY <1>1, <1>3 DEF Databases
<1> QED BY <1>2, <1>4

LEMMA DeleteFileColumns ==
  ASSUME NEW maxId \in Nat, NEW d \in Databases(maxId), NEW p \in Paths, IsFiniteSet(Keys)
  PROVE  /\ DeleteFile(d, p) \in Databases(maxId)
         /\ DeleteFile(d, p).links = [d.links EXCEPT ![p] = NoId]
         /\ DeleteFile(d, p).metadata = d.metadata \ RowsOf(d, p)
         /\ DeleteFile(d, p).lastId = d.lastId
         /\ DeleteFile(d, p).keys = d.keys /\ DeleteFile(d, p).lastKey = d.lastKey
<1> DEFINE c == DeleteMetadata(d, p)
           e == DeleteFile(d, p)
<1>1. /\ c \in Databases(maxId) /\ c = [d EXCEPT !.metadata = d.metadata \ RowsOf(d, p)]
  BY DEF DeleteMetadata, Databases
<1>2. /\ c.links = d.links /\ c.metadata = d.metadata \ RowsOf(d, p)
      /\ c.lastId = d.lastId /\ c.keys = d.keys /\ c.lastKey = d.lastKey
  BY <1>1 DEF Databases
<1>3. e = [c EXCEPT !.links = [c.links EXCEPT ![p] = NoId]]
  BY DEF DeleteFile, DeleteLink
<1>4. e \in Databases(maxId)
  <2>1. [c.links EXCEPT ![p] = NoId] \in [Paths -> 0..maxId]
    BY <1>1, Columns DEF NoId
  <2> HIDE DEF c
  <2> QED BY <1>1, <1>3, <2>1 DEF Databases
<1>5. /\ e.links = [c.links EXCEPT ![p] = NoId] /\ e.metadata = c.metadata
      /\ e.lastId = c.lastId /\ e.keys = c.keys /\ e.lastKey = c.lastKey
  <2> HIDE DEF c
  <2> QED BY <1>1, <1>3 DEF Databases
<1> HIDE DEF c, e
<1>6. /\ e.links = [d.links EXCEPT ![p] = NoId] /\ e.metadata = d.metadata \ RowsOf(d, p)
      /\ e.lastId = d.lastId /\ e.keys = d.keys /\ e.lastKey = d.lastKey
  BY <1>2, <1>5
<1> QED BY <1>4, <1>6 DEF e

\* The rows that UPDATE metadata gives to another file.
MovedRows(d, from, to) == {[r EXCEPT !.id = d.links[from]] : r \in RowsOf(d, to)}

LEMMA MoveMetadataColumns ==
  ASSUME NEW maxId \in Nat, NEW d \in Databases(maxId), NEW from \in Paths, NEW to \in Paths,
         IsFiniteSet(Keys), CanMoveMetadata(d, from, to)
  PROVE  /\ MoveMetadata(d, from, to) \in Databases(maxId)
         /\ MoveMetadata(d, from, to).metadata =
              (d.metadata \ RowsOf(d, to)) \cup MovedRows(d, from, to)
         /\ MoveMetadata(d, from, to).links = d.links
         /\ MoveMetadata(d, from, to).lastId = d.lastId
         /\ MoveMetadata(d, from, to).keys = d.keys
         /\ MoveMetadata(d, from, to).lastKey = d.lastKey
<1> DEFINE rows == (d.metadata \ RowsOf(d, to)) \cup MovedRows(d, from, to)
           e == MoveMetadata(d, from, to)
<1>1. e = [d EXCEPT !.metadata = rows]
  BY DEF MoveMetadata, MovedRows
<1>2. \A r \in MovedRows(d, from, to) :
         r \in [id : 1..maxId, key : 1..Cardinality(Keys), value : Values]
  <2>1. SUFFICES ASSUME NEW r \in RowsOf(d, to)
                 PROVE  [r EXCEPT !.id = d.links[from]]
                          \in [id : 1..maxId, key : 1..Cardinality(Keys), value : Values]
    BY DEF MovedRows
  <2>2. d.links[from] \in 1..maxId
    BY <2>1, Columns DEF CanMoveMetadata, NoId
  <2>3. r \in [id : 1..maxId, key : 1..Cardinality(Keys), value : Values]
    BY DEF RowsOf, Databases
  <2> QED BY <2>2, <2>3
<1>3. rows \subseteq [id : 1..maxId, key : 1..Cardinality(Keys), value : Values]
  BY <1>2 DEF Databases
<1> HIDE DEF rows
<1>4. e \in Databases(maxId)
  BY <1>1, <1>3 DEF Databases
<1>5. /\ e.metadata = rows /\ e.links = d.links /\ e.lastId = d.lastId
      /\ e.keys = d.keys /\ e.lastKey = d.lastKey
  BY <1>1 DEF Databases
<1> QED BY <1>4, <1>5 DEF rows

\* Where the file at a path that is renamed goes; x says whether the target exists.
RenamedLinks(d, from, to, x) ==
  IF d.links[from] # NoId THEN [d.links EXCEPT ![to] = d.links[from], ![from] = NoId]
  ELSE IF x THEN [d.links EXCEPT ![to] = NoId] ELSE d.links

RenamedRows(d, from, to, x) ==
  IF x THEN (d.metadata \ RowsOf(d, to)) \cup MovedRows(d, from, to) ELSE d.metadata

LEMMA RenameColumns ==
  ASSUME NEW maxId \in Nat, NEW d \in Databases(maxId), NEW from \in Paths, NEW to \in Paths,
         NEW x \in BOOLEAN, from # to, IsFiniteSet(Keys), CanRename(d, from, to, x)
  PROVE  /\ RenameFile(d, from, to, x) \in Databases(maxId)
         /\ RenameFile(d, from, to, x).links = RenamedLinks(d, from, to, x)
         /\ RenameFile(d, from, to, x).metadata = RenamedRows(d, from, to, x)
         /\ RenameFile(d, from, to, x).lastId = d.lastId
         /\ RenameFile(d, from, to, x).keys = d.keys
         /\ RenameFile(d, from, to, x).lastKey = d.lastKey
<1> DEFINE c == IF x THEN DeleteLink(MoveMetadata(d, from, to), to) ELSE d
           e == RenameFile(d, from, to, x)
<1>1. /\ c \in Databases(maxId) /\ c.metadata = RenamedRows(d, from, to, x)
      /\ c.links = IF x THEN [d.links EXCEPT ![to] = NoId] ELSE d.links
      /\ c.lastId = d.lastId /\ c.keys = d.keys /\ c.lastKey = d.lastKey
  <2>1. CASE ~x
    BY <2>1 DEF RenamedRows
  <2>2. CASE x
    <3> DEFINE b == MoveMetadata(d, from, to)
    <3>1. /\ b \in Databases(maxId) /\ b.links = d.links
          /\ b.metadata = (d.metadata \ RowsOf(d, to)) \cup MovedRows(d, from, to)
          /\ b.lastId = d.lastId /\ b.keys = d.keys /\ b.lastKey = d.lastKey
      BY <2>2, MoveMetadataColumns DEF CanRename
    <3>2. c = [b EXCEPT !.links = [b.links EXCEPT ![to] = NoId]]
      BY <2>2 DEF DeleteLink
    <3> HIDE DEF b, c
    <3>3. [b.links EXCEPT ![to] = NoId] \in [Paths -> 0..maxId]
      BY <3>1, Columns DEF NoId
    <3>4. /\ c \in Databases(maxId) /\ c.links = [b.links EXCEPT ![to] = NoId]
          /\ c.metadata = b.metadata
          /\ c.lastId = b.lastId /\ c.keys = b.keys /\ c.lastKey = b.lastKey
      BY <3>1, <3>2, <3>3 DEF Databases
    <3> QED BY <2>2, <3>1, <3>4 DEF RenamedRows
  <2> QED BY <2>1, <2>2
<1>2. e = MoveLink(c, from, to)
  BY DEF RenameFile
<1> HIDE DEF c, e
<1>3. c.links[from] = d.links[from] /\ d.links \in [Paths -> 0..maxId]
  BY <1>1, Columns
<1>4. CASE d.links[from] = NoId
  <2>1. e = c
    BY <1>2, <1>3, <1>4 DEF MoveLink
  <2> QED BY <1>1, <1>4, <2>1 DEF RenamedLinks, e
<1>5. CASE d.links[from] # NoId
  <2>1. e = [c EXCEPT !.links = [c.links EXCEPT ![to] = c.links[from], ![from] = NoId]]
    BY <1>2, <1>3, <1>5 DEF MoveLink
  <2>2. [c.links EXCEPT ![to] = c.links[from], ![from] = NoId] \in [Paths -> 0..maxId]
    BY <1>1, Columns DEF NoId
  <2>3. /\ e \in Databases(maxId) /\ e.metadata = c.metadata
        /\ e.links = [c.links EXCEPT ![to] = c.links[from], ![from] = NoId]
        /\ e.lastId = c.lastId /\ e.keys = c.keys /\ e.lastKey = c.lastKey
    BY <1>1, <2>1, <2>2 DEF Databases
  <2>4. e.links = [d.links EXCEPT ![to] = d.links[from], ![from] = NoId]
    BY <1>1, <1>3, <2>3
  <2> QED BY <1>1, <1>5, <2>3, <2>4 DEF RenamedLinks, e
<1> QED BY <1>4, <1>5

LEMMA AddKeyColumns ==
  ASSUME NEW maxId \in Nat, NEW d, Sound(d, maxId), NEW k \in Keys, IsFiniteSet(Keys)
  PROVE  /\ AddKey(d, k) \in Databases(maxId)
         /\ AddKey(d, k).links = d.links /\ AddKey(d, k).lastId = d.lastId
         /\ AddKey(d, k).metadata = d.metadata
         /\ d.keys[k] # NoId => AddKey(d, k) = d
         /\ d.keys[k] = NoId =>
              /\ AddKey(d, k).keys = [d.keys EXCEPT ![k] = d.lastKey + 1]
              /\ AddKey(d, k).lastKey = d.lastKey + 1
<1> DEFINE e == AddKey(d, k)
<1>1. d \in Databases(maxId) /\ KeysSound(d)
  BY DEF Sound
<1>2. CASE d.keys[k] # NoId
  BY <1>1, <1>2 DEF AddKey, Databases
<1>3. CASE d.keys[k] = NoId
  <2>1. e = [d EXCEPT !.keys = [d.keys EXCEPT ![k] = d.lastKey + 1], !.lastKey = d.lastKey + 1]
    BY <1>3 DEF AddKey
  <2>2. d.lastKey + 1 \in 0..Cardinality(Keys)
    <3>1. k \notin Assigned(d) /\ Assigned(d) \cup {k} \subseteq Keys
      BY <1>3 DEF Assigned
    <3>2. IsFiniteSet(Assigned(d)) /\ IsFiniteSet(Assigned(d) \cup {k})
      BY <3>1, FS_Subset
    <3>3. Cardinality(Assigned(d) \cup {k}) = d.lastKey + 1
      BY <1>1, <3>1, <3>2, FS_AddElement DEF KeysSound
    <3>4. Cardinality(Assigned(d) \cup {k}) <= Cardinality(Keys)
      BY <3>1, FS_Subset
    <3> QED BY <1>1, <3>3, <3>4, Columns
  <2>3. [d.keys EXCEPT ![k] = d.lastKey + 1] \in [Keys -> 0..Cardinality(Keys)]
    BY <1>1, <2>2, Columns
  <2>4. /\ e \in Databases(maxId) /\ e.keys = [d.keys EXCEPT ![k] = d.lastKey + 1]
        /\ e.links = d.links /\ e.lastId = d.lastId /\ e.metadata = d.metadata
        /\ e.lastKey = d.lastKey + 1
    BY <1>1, <2>1, <2>2, <2>3 DEF Databases
  <2> QED BY <1>3, <2>4
<1> QED BY <1>2, <1>3

\* The row that INSERT OR REPLACE puts in.
NewRow(d, p, kid, v) == [id |-> d.links[p], key |-> kid, value |-> v]

LEMMA SetMetaColumns ==
  ASSUME NEW maxId \in Nat, NEW d \in Databases(maxId), NEW p \in Paths, IsFiniteSet(Keys),
         NEW kid \in 1..Cardinality(Keys), NEW v \in Values, d.links[p] # NoId
  PROVE  /\ SetMeta(d, p, kid, v) \in Databases(maxId)
         /\ SetMeta(d, p, kid, v).metadata =
              (d.metadata \ RowsAt(d, p, kid)) \cup {NewRow(d, p, kid, v)}
         /\ SetMeta(d, p, kid, v).links = d.links /\ SetMeta(d, p, kid, v).lastId = d.lastId
         /\ SetMeta(d, p, kid, v).keys = d.keys /\ SetMeta(d, p, kid, v).lastKey = d.lastKey
<1> DEFINE rows == (d.metadata \ RowsAt(d, p, kid)) \cup {NewRow(d, p, kid, v)}
           e == SetMeta(d, p, kid, v)
<1>1. e = [d EXCEPT !.metadata = rows]
  BY DEF SetMeta, NewRow
<1>2. d.links[p] \in 1..maxId
  BY Columns DEF NoId
<1>3. rows \subseteq [id : 1..maxId, key : 1..Cardinality(Keys), value : Values]
  BY <1>2 DEF Databases, NewRow
<1> HIDE DEF rows
<1> QED BY <1>1, <1>3 DEF Databases, rows

LEMMA DeleteMetaColumns ==
  ASSUME NEW maxId \in Nat, NEW d \in Databases(maxId), NEW p \in Paths, NEW kid
  PROVE  /\ DeleteMeta(d, p, kid) \in Databases(maxId)
         /\ DeleteMeta(d, p, kid).metadata = d.metadata \ RowsAt(d, p, kid)
         /\ DeleteMeta(d, p, kid).links = d.links /\ DeleteMeta(d, p, kid).lastId = d.lastId
         /\ DeleteMeta(d, p, kid).keys = d.keys /\ DeleteMeta(d, p, kid).lastKey = d.lastKey
BY DEF DeleteMeta, Databases

-------------------------------------------------------------------------------
(* The transactions keep the tables sound.                                    *)

\* Statements that leave the keys alone.
LEMMA KeysKept ==
  ASSUME NEW d, NEW e, KeysSound(d), e.keys = d.keys, e.lastKey = d.lastKey
  PROVE  KeysSound(e)
BY DEF KeysSound, Assigned

LEMMA AddLinkSound ==
  ASSUME NEW maxId \in Nat, NEW d, Sound(d, maxId), NEW p \in Paths, IsFiniteSet(Keys),
         CanAddLink(d, p), d.lastId < maxId
  PROVE  /\ Sound(AddLink(d, p), maxId)
         /\ \A q \in Paths : RowsOf(AddLink(d, p), q) = RowsOf(d, q)
<1> DEFINE e == AddLink(d, p)
<1>1. d \in Databases(maxId) /\ KeysSound(d) /\ LinksSound(d) /\ RowsSound(d)
  BY DEF Sound
<1>2. /\ d.links \in [Paths -> 0..maxId] /\ d.lastId \in 0..maxId /\ d.links[p] = NoId
      /\ \A r \in d.metadata : r.id \in 1..maxId
  BY <1>1, Columns DEF CanAddLink
<1>3. /\ e \in Databases(maxId) /\ e.links = [d.links EXCEPT ![p] = d.lastId + 1]
      /\ e.lastId = d.lastId + 1 /\ e.keys = d.keys /\ e.lastKey = d.lastKey
      /\ e.metadata = d.metadata
  BY <1>1, AddLinkColumns
<1> HIDE DEF e
<1>4. \A r \in d.metadata : r.id <= d.lastId
  BY <1>1, <1>2 DEF RowsSound, LinksSound
<1>5. LinksSound(e)
  BY <1>1, <1>2, <1>3 DEF LinksSound
<1>6. RowsSound(e)
  <2>1. \A r \in d.metadata : \E q \in Paths : q # p /\ d.links[q] = r.id
    BY <1>1, <1>2 DEF RowsSound, NoId
  <2> QED BY <1>1, <1>2, <1>3, <2>1 DEF RowsSound
<1>7. ASSUME NEW q \in Paths PROVE RowsOf(e, q) = RowsOf(d, q)
  BY <1>2, <1>3, <1>4 DEF RowsOf, NoId
<1>8. Sound(e, maxId)
  BY <1>1, <1>3, <1>5, <1>6, KeysKept DEF Sound
<1> QED BY <1>7, <1>8 DEF e

LEMMA DeleteFileSound ==
  ASSUME NEW maxId \in Nat, NEW d, Sound(d, maxId), NEW p \in Paths, IsFiniteSet(Keys)
  PROVE  /\ Sound(DeleteFile(d, p), maxId)
         /\ \A q \in Paths : q # p => RowsOf(DeleteFile(d, p), q) = RowsOf(d, q)
<1> DEFINE e == DeleteFile(d, p)
<1>1. d \in Databases(maxId) /\ KeysSound(d) /\ LinksSound(d) /\ RowsSound(d)
  BY DEF Sound
<1>2. /\ d.links \in [Paths -> 0..maxId] /\ d.lastId \in 0..maxId
      /\ \A r \in d.metadata : r.id \in 1..maxId
  BY <1>1, Columns
<1>3. /\ e \in Databases(maxId) /\ e.links = [d.links EXCEPT ![p] = NoId]
      /\ e.lastId = d.lastId /\ e.keys = d.keys /\ e.lastKey = d.lastKey
      /\ e.metadata = d.metadata \ RowsOf(d, p)
  BY <1>1, DeleteFileColumns
<1> HIDE DEF e
<1>4. LinksSound(e)
  BY <1>1, <1>2, <1>3 DEF LinksSound, NoId
<1>5. RowsSound(e)
  <2>1. ASSUME NEW r \in e.metadata PROVE \E q \in Paths : e.links[q] = r.id
    <3>1. r \in d.metadata /\ r.id # d.links[p]
      BY <1>3, <2>1 DEF RowsOf
    <3>2. PICK q \in Paths : d.links[q] = r.id
      BY <1>1, <3>1 DEF RowsSound
    <3> QED BY <1>2, <1>3, <3>1, <3>2
  <2> QED BY <1>1, <1>3, <2>1 DEF RowsSound
<1>6. ASSUME NEW q \in Paths, q # p PROVE RowsOf(e, q) = RowsOf(d, q)
  BY <1>1, <1>2, <1>3, <1>6 DEF RowsOf, LinksSound, NoId
<1>7. Sound(e, maxId)
  BY <1>1, <1>3, <1>4, <1>5, KeysKept DEF Sound
<1> QED BY <1>6, <1>7 DEF e

\* The rows of the two paths of a rename, and of every other path, after it.
LEMMA RenameSound ==
  ASSUME NEW maxId \in Nat, NEW d, Sound(d, maxId), NEW from \in Paths, NEW to \in Paths,
         NEW x \in BOOLEAN, from # to, IsFiniteSet(Keys), CanRename(d, from, to, x)
  PROVE  /\ Sound(RenameFile(d, from, to, x), maxId)
         /\ \A q \in Paths \ {from, to} : RowsOf(RenameFile(d, from, to, x), q) = RowsOf(d, q)
         /\ IF x \/ d.links[from] # NoId
              THEN RowsOf(RenameFile(d, from, to, x), to)
                     = RowsOf(d, from) \cup MovedRows(d, from, to)
              ELSE RowsOf(RenameFile(d, from, to, x), to) = RowsOf(d, to)
<1> DEFINE e == RenameFile(d, from, to, x)
<1>1. d \in Databases(maxId) /\ KeysSound(d) /\ LinksSound(d) /\ RowsSound(d)
  BY DEF Sound
<1>2. /\ d.links \in [Paths -> 0..maxId] /\ d.lastId \in 0..maxId
      /\ \A r \in d.metadata : r.id \in 1..maxId
      /\ \A r \in d.metadata : r = [id |-> r.id, key |-> r.key, value |-> r.value]
  BY <1>1, Columns
<1>3. /\ e \in Databases(maxId) /\ e.links = RenamedLinks(d, from, to, x)
      /\ e.lastId = d.lastId /\ e.keys = d.keys /\ e.lastKey = d.lastKey
      /\ e.metadata = RenamedRows(d, from, to, x)
  BY <1>1, RenameColumns
<1> HIDE DEF e
<1>4. /\ x => CanMoveMetadata(d, from, to)
      /\ ~x /\ d.links[from] # NoId => d.links[to] = NoId
  BY DEF CanRename, CanMoveLink
<1>5. \A r \in MovedRows(d, from, to) : \E s \in RowsOf(d, to) :
         r = [id |-> d.links[from], key |-> s.key, value |-> s.value]
  BY <1>2 DEF MovedRows, RowsOf
<1>6. ~x => MovedRows(d, from, to) = {} \/ d.links[from] = NoId
  <2>1. ASSUME d.links[to] = NoId PROVE MovedRows(d, from, to) = {}
    BY <1>1, <2>1, UnlinkedRows DEF MovedRows
  <2> QED BY <1>4, <2>1
<1>7. LinksSound(e)
  <2>1. CASE d.links[from] # NoId
    <3>1. e.links = [d.links EXCEPT ![to] = d.links[from], ![from] = NoId]
      BY <1>3, <2>1 DEF RenamedLinks
    <3> QED BY <1>1, <1>2, <1>3, <3>1 DEF LinksSound, NoId
  <2>2. CASE d.links[from] = NoId
    <3>1. e.links = d.links \/ e.links = [d.links EXCEPT ![to] = NoId]
      BY <1>3, <2>2 DEF RenamedLinks
    <3> QED BY <1>1, <1>2, <1>3, <3>1 DEF LinksSound, NoId
  <2> QED BY <2>1, <2>2
<1>8. RowsSound(e)
  <2>1. ASSUME NEW r \in d.metadata, d.links[to] = r.id => ~x
        PROVE  \E p \in Paths : e.links[p] = r.id
    <3>1. PICK p \in Paths : d.links[p] = r.id
      BY <1>1 DEF RowsSound
    <3>2. r.id # NoId
      BY <1>2 DEF NoId
    <3>3. CASE p \notin {from, to}
      BY <1>2, <1>3, <3>1, <3>3 DEF RenamedLinks
    <3>4. CASE p = from
      <4>1. e.links[to] = r.id
        BY <1>2, <1>3, <3>1, <3>2, <3>4 DEF RenamedLinks
      <4> QED BY <4>1
    <3>5. CASE p = to
      <4>1. ~x /\ d.links[from] = NoId
        BY <1>4, <2>1, <3>1, <3>2, <3>5
      <4> QED BY <1>3, <3>1, <4>1 DEF RenamedLinks
    <3> QED BY <3>3, <3>4, <3>5
  <2>2. CASE ~x
    BY <1>1, <1>3, <2>1, <2>2 DEF RowsSound, RenamedRows
  <2>3. CASE x
    <3>1. e.metadata = (d.metadata \ RowsOf(d, to)) \cup MovedRows(d, from, to)
      BY <1>3, <2>3 DEF RenamedRows
    <3>2. ASSUME NEW r \in e.metadata PROVE \E p \in Paths : e.links[p] = r.id
      <4>1. CASE r \in d.metadata \ RowsOf(d, to)
        BY <2>1, <4>1 DEF RowsOf
      <4>2. CASE r \in MovedRows(d, from, to)
        <5>1. r.id = d.links[from] /\ RowsOf(d, to) # {}
          BY <1>5, <4>2
        <5>2. d.links[from] # NoId
          BY <1>4, <2>3, <5>1 DEF CanMoveMetadata
        <5>3. e.links[to] = d.links[from]
          BY <1>2, <1>3, <5>2 DEF RenamedLinks
        <5> QED BY <5>1, <5>3
      <4> QED BY <3>1, <4>1, <4>2
    <3>3. ASSUME NEW r \in e.metadata, NEW s \in e.metadata, r.id = s.id, r.key = s.key
          PROVE  r = s
      <4>1. ASSUME NEW t \in d.metadata \ RowsOf(d, to), NEW u \in MovedRows(d, from, to),
                   t.id = u.id, t.key = u.key
            PROVE  FALSE
        <5>1. PICK v \in RowsOf(d, to) : u = [id |-> d.links[from], key |-> v.key, value |-> v.value]
          BY <1>5
        <5>2. t \in RowsOf(d, from) /\ t.key = v.key
          BY <4>1, <5>1 DEF RowsOf
        <5> QED BY <1>4, <2>3, <5>2 DEF CanMoveMetadata
      <4>2. ASSUME NEW t \in MovedRows(d, from, to), NEW u \in MovedRows(d, from, to), t.key = u.key
            PROVE  t = u
        <5>1. PICK v \in RowsOf(d, to) : t = [id |-> d.links[from], key |-> v.key, value |-> v.value]
          BY <1>5
        <5>2. PICK w \in RowsOf(d, to) : u = [id |-> d.links[from], key |-> w.key, value |-> w.value]
          BY <1>5
        <5>3. v = w
          BY <1>1, <4>2, <5>1, <5>2 DEF RowsSound, RowsOf
        <5> QED BY <5>1, <5>2, <5>3
      <4> QED BY <1>1, <3>1, <3>3, <4>1, <4>2 DEF RowsSound
    <3> QED BY <3>2, <3>3 DEF RowsSound
  <2> QED BY <2>2, <2>3
<1>9. ASSUME NEW q \in Paths \ {from, to} PROVE RowsOf(e, q) = RowsOf(d, q)
  <2>1. e.links[q] = d.links[q]
    BY <1>2, <1>3 DEF RenamedLinks
  <2>2. CASE d.links[q] = NoId
    BY <1>1, <1>3, <2>1, <2>2, UnlinkedRows
  <2>3. CASE d.links[q] # NoId
    <3>1. d.links[q] # d.links[from] /\ d.links[q] # d.links[to]
      BY <1>1, <2>3 DEF LinksSound
    <3>2. \A r : r.id = d.links[q] => (r \in e.metadata <=> r \in d.metadata)
      BY <1>3, <1>5, <3>1 DEF RenamedRows, RowsOf
    <3> QED BY <2>1, <3>2 DEF RowsOf
  <2> QED BY <2>2, <2>3
<1>10. IF x \/ d.links[from] # NoId
         THEN RowsOf(e, to) = RowsOf(d, from) \cup MovedRows(d, from, to)
         ELSE RowsOf(e, to) = RowsOf(d, to)
  <2>1. CASE d.links[from] # NoId
    <3>1. e.links[to] = d.links[from]
      BY <1>2, <1>3, <2>1 DEF RenamedLinks
    <3>2. d.links[from] # d.links[to]
      BY <1>1, <2>1 DEF LinksSound
    <3>3. \A r \in MovedRows(d, from, to) : r.id = d.links[from]
      BY <1>5
    <3> QED BY <1>3, <1>6, <2>1, <3>1, <3>2, <3>3 DEF RenamedRows, RowsOf
  <2>2. CASE d.links[from] = NoId
    <3>1. RowsOf(d, from) = {}
      BY <1>1, <2>2, UnlinkedRows
    <3>2. CASE x
      <4>1. e.links[to] = NoId /\ RowsOf(d, to) = {}
        BY <1>2, <1>3, <1>4, <2>2, <3>2 DEF RenamedLinks, CanMoveMetadata
      <4>2. RowsOf(e, to) = {} /\ MovedRows(d, from, to) = {}
        BY <1>3, <4>1, UnlinkedRows DEF MovedRows
      <4> QED BY <3>1, <3>2, <4>2
    <3>3. CASE ~x
      <4>1. e.links = d.links /\ e.metadata = d.metadata
        BY <1>3, <2>2, <3>3 DEF RenamedLinks, RenamedRows
      <4> QED BY <2>2, <3>3, <4>1 DEF RowsOf
    <3> QED BY <3>2, <3>3
  <2> QED BY <2>1, <2>2
<1>11. Sound(e, maxId)
  BY <1>1, <1>3, <1>7, <1>8, KeysKept DEF Sound
<1> QED BY <1>9, <1>10, <1>11 DEF e

LEMMA AddKeySound ==
  ASSUME NEW maxId \in Nat, NEW d, Sound(d, maxId), NEW k \in Keys, IsFiniteSet(Keys)
  PROVE  /\ Sound(AddKey(d, k), maxId)
         /\ AddKey(d, k).keys[k] # NoId
         /\ \A l \in Keys : d.keys[l] # NoId => AddKey(d, k).keys[l] = d.keys[l]
         /\ \A p \in Paths : RowsOf(AddKey(d, k), p) = RowsOf(d, p)
<1> DEFINE e == AddKey(d, k)
<1>1. d \in Databases(maxId) /\ KeysSound(d) /\ LinksSound(d) /\ RowsSound(d)
  BY DEF Sound
<1>2. d.keys \in [Keys -> 0..Cardinality(Keys)] /\ d.lastKey \in Nat
  BY <1>1, Columns
<1>3. /\ e \in Databases(maxId) /\ e.links = d.links /\ e.lastId = d.lastId
      /\ e.metadata = d.metadata
      /\ d.keys[k] # NoId => e = d
      /\ d.keys[k] = NoId =>
           e.keys = [d.keys EXCEPT ![k] = d.lastKey + 1] /\ e.lastKey = d.lastKey + 1
  BY AddKeyColumns
<1> HIDE DEF e
<1>4. KeysSound(e)
  <2>1. CASE d.keys[k] # NoId
    BY <1>1, <1>3, <2>1
  <2>2. CASE d.keys[k] = NoId
    <3>1. e.keys = [d.keys EXCEPT ![k] = d.lastKey + 1] /\ e.lastKey = d.lastKey + 1
      BY <1>3, <2>2
    <3>2. Assigned(e) = Assigned(d) \cup {k} /\ k \notin Assigned(d)
      BY <1>2, <2>2, <3>1 DEF Assigned, NoId
    <3>3. IsFiniteSet(Assigned(d))
      BY FS_Subset DEF Assigned
    <3>4. e.lastKey = Cardinality(Assigned(e))
      BY <1>1, <3>1, <3>2, <3>3, FS_AddElement DEF KeysSound
    <3>5. \A l \in Keys : e.keys[l] <= e.lastKey
      BY <1>1, <1>2, <3>1 DEF KeysSound
    <3>6. \A l, m \in Keys : e.keys[l] = e.keys[m] /\ e.keys[l] # NoId => l = m
      BY <1>1, <1>2, <3>1 DEF KeysSound
    <3> QED BY <3>4, <3>5, <3>6 DEF KeysSound
  <2> QED BY <2>1, <2>2
<1>5. Sound(e, maxId)
  BY <1>1, <1>3, <1>4 DEF Sound, LinksSound, RowsSound
<1>6. e.keys[k] # NoId /\ \A l \in Keys : d.keys[l] # NoId => e.keys[l] = d.keys[l]
  BY <1>2, <1>3 DEF NoId
<1>7. \A p \in Paths : RowsOf(e, p) = RowsOf(d, p)
  BY <1>3 DEF RowsOf
<1> QED BY <1>5, <1>6, <1>7 DEF e

LEMMA SetMetaSound ==
  ASSUME NEW maxId \in Nat, NEW d, Sound(d, maxId), NEW p \in Paths, IsFiniteSet(Keys),
         NEW kid \in 1..Cardinality(Keys), NEW v \in Values, d.links[p] # NoId
  PROVE  /\ Sound(SetMeta(d, p, kid, v), maxId)
         /\ \A q \in Paths : q # p => RowsOf(SetMeta(d, p, kid, v), q) = RowsOf(d, q)
         /\ MetaOf(SetMeta(d, p, kid, v), p, kid) = {v}
         /\ \A i : i # kid => RowsAt(SetMeta(d, p, kid, v), p, i) = RowsAt(d, p, i)
<1> DEFINE e == SetMeta(d, p, kid, v)
           row == NewRow(d, p, kid, v)
<1>1. d \in Databases(maxId) /\ KeysSound(d) /\ LinksSound(d) /\ RowsSound(d)
  BY DEF Sound
<1>2. /\ e \in Databases(maxId) /\ e.metadata = (d.metadata \ RowsAt(d, p, kid)) \cup {row}
      /\ e.links = d.links /\ e.lastId = d.lastId /\ e.keys = d.keys /\ e.lastKey = d.lastKey
  BY <1>1, SetMetaColumns
<1>3. row.id = d.links[p] /\ row.key = kid /\ row.value = v
  BY DEF NewRow
<1> HIDE DEF e, row
<1>4. \A r \in d.metadata \ RowsAt(d, p, kid) : ~(r.id = row.id /\ r.key = row.key)
  BY <1>3 DEF RowsAt, RowsOf
<1>5. RowsSound(e)
  BY <1>1, <1>2, <1>3, <1>4 DEF RowsSound
<1>6. Sound(e, maxId)
  BY <1>1, <1>2, <1>5, KeysKept DEF Sound, LinksSound
<1>7. ASSUME NEW q \in Paths, q # p PROVE RowsOf(e, q) = RowsOf(d, q)
  <2>1. d.links[q] # d.links[p]
    BY <1>1, <1>7 DEF LinksSound
  <2> QED BY <1>2, <1>3, <2>1 DEF RowsOf, RowsAt
<1>8. RowsAt(e, p, kid) = {row}
  BY <1>2, <1>3 DEF RowsAt, RowsOf
<1>9. \A i : i # kid => RowsAt(e, p, i) = RowsAt(d, p, i)
  BY <1>2, <1>3 DEF RowsAt, RowsOf
<1>10. MetaOf(e, p, kid) = {v}
  BY <1>3, <1>8 DEF MetaOf
<1> QED BY <1>6, <1>7, <1>9, <1>10 DEF e

LEMMA DeleteMetaSound ==
  ASSUME NEW maxId \in Nat, NEW d, Sound(d, maxId), NEW p \in Paths, IsFiniteSet(Keys), NEW kid
  PROVE  /\ Sound(DeleteMeta(d, p, kid), maxId)
         /\ \A q \in Paths : q # p => RowsOf(DeleteMeta(d, p, kid), q) = RowsOf(d, q)
         /\ MetaOf(DeleteMeta(d, p, kid), p, kid) = {}
         /\ \A i : i # kid => RowsAt(DeleteMeta(d, p, kid), p, i) = RowsAt(d, p, i)
<1> DEFINE e == DeleteMeta(d, p, kid)
<1>1. d \in Databases(maxId) /\ KeysSound(d) /\ LinksSound(d) /\ RowsSound(d)
  BY DEF Sound
<1>2. /\ e \in Databases(maxId) /\ e.metadata = d.metadata \ RowsAt(d, p, kid)
      /\ e.links = d.links /\ e.lastId = d.lastId /\ e.keys = d.keys /\ e.lastKey = d.lastKey
  BY <1>1, DeleteMetaColumns
<1>3. \A r \in d.metadata : r.id # NoId
  BY <1>1, Columns DEF NoId
<1> HIDE DEF e
<1>4. Sound(e, maxId)
  BY <1>1, <1>2, KeysKept DEF Sound, LinksSound, RowsSound
<1>5. ASSUME NEW q \in Paths, q # p PROVE RowsOf(e, q) = RowsOf(d, q)
  BY <1>1, <1>2, <1>3, <1>5 DEF RowsOf, RowsAt, LinksSound
<1>6. RowsAt(e, p, kid) = {} /\ \A i : i # kid => RowsAt(e, p, i) = RowsAt(d, p, i)
  BY <1>2 DEF RowsAt, RowsOf
<1> QED BY <1>4, <1>5, <1>6 DEF MetaOf, e

\* A file has at most one value of a key.
LEMMA OneValue ==
  ASSUME NEW maxId \in Nat, NEW d, Sound(d, maxId), NEW p \in Paths, NEW kid,
         NEW v \in MetaOf(d, p, kid)
  PROVE  MetaOf(d, p, kid) = {v}
BY DEF Sound, RowsSound, MetaOf, RowsAt, RowsOf
===============================================================================
