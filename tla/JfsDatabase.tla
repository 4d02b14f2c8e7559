------------------------------ MODULE JfsDatabase ------------------------------
(***************************************************************************)
(* The tables of joinfs.db (joinfs.sql) and the SQL statements joinFS runs *)
(* on them, as operators on a value db:                                    *)
(*   links     path -> jfs_id, NoId without a row (path is UNIQUE)         *)
(*   keys      keytext -> keyid, NoId without a row                        *)
(*   metadata  rows [id, key, value], one for an id and a key              *)
(* Both id columns are AUTOINCREMENT: lastId and lastKey were given last.  *)
(* A statement that SQLite refuses is said so by its Can operator.  The    *)
(* foreign keys of the schema are not enforced (no PRAGMA asks for it).    *)
(***************************************************************************)
EXTENDS Naturals, FiniteSets

CONSTANTS Paths, Keys, Values

NoId == 0

EmptyDb == [links    |-> [p \in Paths |-> NoId], lastId |-> 0,
            keys     |-> [k \in Keys |-> NoId],  lastKey |-> 0,
            metadata |-> {}]

Databases(maxId) ==
  [links    : [Paths -> 0..maxId], lastId : 0..maxId,
   keys     : [Keys -> 0..Cardinality(Keys)], lastKey : 0..Cardinality(Keys),
   metadata : SUBSET [id : 1..maxId, key : 1..Cardinality(Keys), value : Values]]

\* The rows of the file at a path.  A path without a row selects NULL, which
\* equals nothing.
RowsOf(db, p) == {r \in db.metadata : r.id = db.links[p]}

RowsAt(db, p, kid) == {r \in RowsOf(db, p) : r.key = kid}

-------------------------------------------------------------------------------
(* Table links.                                                               *)

\* INSERT OR ROLLBACK INTO links: refused when the path has a row.
CanAddLink(db, p) == db.links[p] = NoId

AddLink(db, p) ==
  [db EXCEPT !.links[p] = db.lastId + 1, !.lastId = db.lastId + 1]

DeleteMetadata(db, p) == [db EXCEPT !.metadata = @ \ RowsOf(db, p)]

DeleteLink(db, p) == [db EXCEPT !.links[p] = NoId]

\* The transaction of jfs_file_do_unlink and jfs_dir_db_rmdir.
DeleteFile_LinkFirst(db, p) == DeleteMetadata(DeleteLink(db, p), p)   \* mutant
DeleteFile_Metadata(db, p) == DeleteMetadata(db, p)                   \* mutant
DeleteFile(db, p) == DeleteLink(DeleteMetadata(db, p), p)

\* UPDATE metadata SET jfs_id = <from> WHERE jfs_id = <to>: refused when a row
\* would get no id, or a key its file has already.
CanMoveMetadata(db, from, to) ==
  /\ RowsOf(db, to) # {} => db.links[from] # NoId
  /\ from # to =>
       \A r \in RowsOf(db, to), s \in RowsOf(db, from) : r.key # s.key

MoveMetadata(db, from, to) ==
  [db EXCEPT !.metadata =
     (@ \ RowsOf(db, to)) \cup {[r EXCEPT !.id = db.links[from]] : r \in RowsOf(db, to)}]

\* UPDATE links SET path = <to> WHERE path = <from>: refused when <to> has a row.
CanMoveLink(db, from, to) ==
  db.links[from] # NoId /\ from # to => db.links[to] = NoId

MoveLink(db, from, to) ==
  IF db.links[from] = NoId \/ from = to THEN db
  ELSE [db EXCEPT !.links[to] = db.links[from], !.links[from] = NoId]

\* The transaction of jfs_file_do_rename, where <to> exists in the file system or
\* not: the file keeps the metadata of the one it replaces.
CanRename(db, from, to, exists) ==
  IF exists THEN CanMoveMetadata(db, from, to) ELSE CanMoveLink(db, from, to)

RenameFile_Dropped(db, from, to, exists) ==                           \* mutant
  MoveLink(IF exists THEN DeleteLink(db, to) ELSE db, from, to)

RenameFile(db, from, to, exists) ==
  IF exists
    THEN MoveLink(DeleteLink(MoveMetadata(db, from, to), to), from, to)
    ELSE MoveLink(db, from, to)

-------------------------------------------------------------------------------
(* Table keys.                                                                *)

\* INSERT OR IGNORE INTO keys.  An ignored one uses up a keyid too: keyids are only
\* compared, so the gaps are left out.
AddKey_Twice(db, k) ==                                                 \* mutant
  [db EXCEPT !.keys[k] = db.lastKey + 1, !.lastKey = db.lastKey + 1]
AddKey(db, k) ==
  IF db.keys[k] # NoId THEN db
  ELSE [db EXCEPT !.keys[k] = db.lastKey + 1, !.lastKey = db.lastKey + 1]

-------------------------------------------------------------------------------
(* Table metadata.                                                            *)

\* INSERT OR ROLLBACK with XATTR_CREATE, otherwise (INSERT OR) REPLACE.  Without a
\* link the id is NULL, which the table refuses in each of them.
CanSetMeta_Unlinked(db, p, kid, create) ==                             \* mutant
  create => RowsAt(db, p, kid) = {}

CanSetMeta(db, p, kid, create) ==
  /\ db.links[p] # NoId
  /\ create => RowsAt(db, p, kid) = {}

SetMeta(db, p, kid, value) ==
  [db EXCEPT !.metadata =
     (@ \ RowsAt(db, p, kid)) \cup {[id |-> db.links[p], key |-> kid, value |-> value]}]

DeleteMeta(db, p, kid) == [db EXCEPT !.metadata = @ \ RowsAt(db, p, kid)]

\* SELECT keyvalue: none or one.
MetaOf(db, p, kid) == {r.value : r \in RowsAt(db, p, kid)}

\* SELECT k.keyid, k.keytext of a file.
KeysOf(db, p) == {k \in Keys : \E r \in RowsOf(db, p) : r.key = db.keys[k]}
===============================================================================
