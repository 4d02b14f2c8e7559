------------------------------- MODULE DirQuery -------------------------------
(***************************************************************************)
(* What the query of a dynamic folder selects (jfs_dir_query.c), as        *)
(* operators on the tables.                                                *)
(*                                                                         *)
(* A directory has a query when it has the attribute _jfs_dir_key_pairs: a *)
(* list of keys, some followed by a value, which a file must have.  Its    *)
(* last key may stand apart: the folder lists the values of that key, and  *)
(* each listed value is a folder again, whose query is the one of the      *)
(* directory .jfs_sub_query inside.  A query takes as many folders of its  *)
(* path into account as _jfs_dir_path_items says.                          *)
(***************************************************************************)
EXTENDS JfsDatabase, SequencesExt

CONSTANTS
  Query,         \* datapath -> [pairs, folders, items]: the directories with a query
  SubQuery       \* ".jfs_sub_query"

\* The items of a list of pairs, cut at the semicolons.
Key(k) == [tag |-> "k", text |-> k]
Value(v) == [tag |-> "v", text |-> v]

\* The real directory of a folder: the first item is one, the others were listed.
Datapath(f) == <<Head(f)>> \o [i \in 1..(Len(f) - 1) |-> SubQuery]

HasQuery(f) == Datapath(f) \in DOMAIN Query
QueryOf(f) == Query[Datapath(f)]

\* What a list of pairs is made of.
Items == [tag : {"k"}, text : Keys] \cup [tag : {"v"}, text : Values]

-------------------------------------------------------------------------------
(* The SQL: one SELECT of jfs_ids for a term, joined by INTERSECT.            *)

Term(k, values) == [key |-> k, values |-> values]
KeyTerm(k) == Term(k, Values)          \* JFS_KEY_QUERY
PairTerm(k, v) == Term(k, {v})         \* JFS_PAIR_QUERY

FilesWith(db, term) ==
  {p \in Paths : \E r \in RowsOf(db, p) :
                   r.key = db.keys[term.key] /\ r.value \in term.values}

SelectedIds(db, terms) ==
  {i \in 1..db.lastId : \A term \in terms : \E p \in FilesWith(db, term) : db.links[p] = i}

\* JFS_FILE_QUERY
SelectFiles(db, terms) ==
  {p \in Paths : RowsOf(db, p) # {} /\ db.links[p] \in SelectedIds(db, terms)}

\* JFS_FOLDER_QUERY, and JFS_FOLDER_SIMPLE_QUERY, which does not look for the file.
SelectValues(db, k, terms) ==
  {r.value : r \in {r \in db.metadata :
                      r.key = db.keys[k] /\ (terms # {} => r.id \in SelectedIds(db, terms))}}

-------------------------------------------------------------------------------
(* The reference: what the attributes of a file say.                          *)

Has(db, p, k, values) == \E v \in values : v \in MetaOf(db, p, db.keys[k])

\* A file fits a list of pairs when it has each key, with the value that follows if one
\* does; the last key of a folder that lists values is not asked for.
Fits(db, p, pairs, besides) ==
  \A i \in DOMAIN pairs :
    \/ pairs[i].tag = "v"
    \/ i \in besides
    \/ Has(db, p, pairs[i].text,
           IF i < Len(pairs) /\ pairs[i + 1].tag = "v" THEN {pairs[i + 1].text} ELSE Values)

ListedKey(pairs) == IF pairs # <<>> /\ Last(pairs).tag = "k" THEN {Len(pairs)} ELSE {}

\* The files a user expects below folder f: they fit it, and the folders around it with
\* the values that lead there.
Below(db, f) ==
  {p \in Paths :
     \A n \in Len(f) - QueryOf(f).items..Len(f) :
       LET q == QueryOf(SubSeq(f, 1, n))
       IN  /\ Fits(db, p, q.pairs, IF q.folders THEN ListedKey(q.pairs) ELSE {})
           /\ n < Len(f) => Has(db, p, Last(q.pairs).text, {f[n + 1]})}

\* What a listing of f is expected to show.
Expected(db, f) ==
  LET q == QueryOf(f)
  IN  IF q.folders
        THEN UNION {MetaOf(db, p, db.keys[Last(q.pairs).text]) : p \in Below(db, f)}
        ELSE Below(db, f)
===============================================================================
