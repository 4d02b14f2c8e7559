------------------------------ MODULE DirListing ------------------------------
(***************************************************************************)
(* Building and answering the query of a dynamic folder, item by item      *)
(* (jfs_dir_query_builder, jfs_do_readdir_op), while other requests resolve*)
(* paths in the hierarchy and add to it (jfs_dynamic_paths.c).             *)
(*                                                                         *)
(* All of them cut a string with strtok, whose position in the string is   *)
(* static.  A call of strtok, with what is done with the item, is one step:*)
(* only the first call of an adder comes before it has path_lock, and      *)
(* query strings are cut under no lock at all.  After free() the position  *)
(* is in memory that may hold anything.                                    *)
(***************************************************************************)
EXTENDS DirQuery, Hierarchy

CONSTANTS
  Listers,       \* the request threads that list a folder
  Walkers,       \* those that resolve or add a path
  Known,         \* folders in the hierarchy at first, each listed once
  Tables,        \* what the tables may hold when a query runs
  Listed,        \* the folders whose query is built
  Resolved,      \* the paths that are resolved
  NewFolders,    \* the folders that are added
  NewFiles,      \* the files that are added, [path, id]
  MaxNodes,      \* bound: how many nodes the hierarchy gets
  Leftover,      \* items that freed memory may hold, [tag, text]
  Foreign,       \* an item of a string of the other kind
  Nobody, None

NewPaths == NewFolders \cup {x.path : x \in NewFiles}

\* Paths have names, pairs have keys, and the markers are neither.
ASSUME ListingAssumption ==
  /\ IsFiniteSet(Listers) /\ IsFiniteSet(Walkers) /\ IsFiniteSet(Paths) /\ IsFiniteSet(Known)
  /\ Listed \cup Known \cup Resolved \cup NewPaths \subseteq Seq(Names) \ {<<>>}
  /\ \A f \in Known : Len(f) > 1 => Front(f) \in Known
  /\ \A f \in Listed : HasQuery(f)
  /\ <<>> \notin DOMAIN Query
  /\ \A d \in DOMAIN Query :
       /\ Query[d].items \in Nat /\ Query[d].folders \in BOOLEAN
       /\ Query[d].pairs \in Seq(Items)
  /\ Leftover \subseteq Items \cup [tag : {"name"}, text : Names]
  /\ Foreign \in Names /\ None \notin Names \cup Keys /\ Nobody \notin Listers \cup Walkers
  /\ MaxNodes \in Nat

\* Every row has a file, and no two files one jfs_id: who changes the tables keeps that.
ASSUME TablesAssumption ==
  \A db \in Tables :
    /\ db \in Databases(Cardinality(Paths))
    /\ \A p \in Paths : db.links[p] <= db.lastId
    /\ \A p, q \in Paths : db.links[p] = db.links[q] /\ db.links[p] # NoId => p = q
    /\ \A r \in db.metadata : \E p \in Paths : db.links[p] = r.id

Threads == Listers \cup Walkers

VARIABLES
  tree,          \* the hierarchy
  cursor,        \* where strtok is: in whose string, cut at what, and what is left of it
  thread,        \* each request thread
  mixed          \* history: threads that had another call strtok between calls of theirs,
                 \* or found a folder that such a thread had put in a wrong place

vars == <<tree, cursor, thread, mixed>>

Idle == [pc    |-> "idle",
         job   |-> [op |-> "none"],
         goal  |-> <<>>,      \* the path it cuts
         token |-> None,      \* the item an adder has cut before it gets the lock
         at    |-> <<>>,      \* the folder its walk has come to
         node  |-> {},        \* the node it has found, if any
         todo  |-> <<>>,      \* lists of pairs to parse: [pairs, skipLast, value]
         key   |-> None,      \* the key it has cut and not yet used
         terms |-> {},        \* what is in the query
         rows  |-> {},        \* rows of the result still to come
         list  |-> {},        \* those read, and in the end db_op->result
         due   |-> {}]        \* history: the rows expected when the query ran

-------------------------------------------------------------------------------
(* strtok.                                                                    *)

NoString == [by |-> Nobody, sep |-> "slash", left |-> <<>>, freed |-> TRUE]

Token(t, tag, text, last) == [by |-> t, tag |-> tag, text |-> text, last |-> last]
NoToken == Token(Nobody, "null", None, FALSE)
ForeignToken == Token(Nobody, "name", Foreign, FALSE)

PathTokens(t, path) ==
  [i \in DOMAIN path |-> Token(t, "name", path[i], i = Len(path))]
PairTokens(t, pairs) ==
  [i \in DOMAIN pairs |-> Token(t, pairs[i].tag, pairs[i].text, FALSE)]

\* What there may be in freed memory: nothing, or (bound: one) item of some string.
Junk(sep) ==
  {NoToken, ForeignToken} \cup
    {Token(Nobody, x.tag, x.text, FALSE) :
       x \in {x \in Leftover : x.tag = "name" <=> sep = "slash"}}

First(t, tokens, sep) ==
  [token |-> Head(tokens), cursor |-> [by |-> t, sep |-> sep, left |-> Tail(tokens),
                                       freed |-> FALSE]]

\* strtok(NULL, sep).  A string of the other kind has no such separator.
Following(sep) ==
  CASE cursor.freed -> {[token |-> x, cursor |-> [cursor EXCEPT !.freed = FALSE]] :
                          x \in Junk(sep)}
    [] ~cursor.freed /\ cursor.left = <<>> -> {[token |-> NoToken, cursor |-> cursor]}
    [] ~cursor.freed /\ cursor.left # <<>> /\ cursor.sep = sep ->
         {[token |-> Head(cursor.left), cursor |-> [cursor EXCEPT !.left = Tail(@)]]}
    [] OTHER -> {[token |-> ForeignToken, cursor |-> [cursor EXCEPT !.left = <<>>]]}

Freed(t, c) == IF c.by = t THEN NoString ELSE c

Cutting(u) == thread[u].pc \in {"walk", "lock", "way", "pairs"}

\* History: thread t calls strtok.  Whoever else was about to cut on is mixed up with it.
MixUp(t) == mixed' = mixed \cup {u \in Threads \ {t} : Cutting(u)}

-------------------------------------------------------------------------------
(* path_lock.                                                                 *)

NoWriter == \A u \in Threads : thread[u].pc # "way"
NoReader == \A u \in Threads : thread[u].pc \notin {"walk", "found"}

Init ==
  /\ tree = [folders |-> {[in |-> [i \in 1..(Len(f) - 1) |-> <<f[i], 1>>], name |-> Last(f),
                            nth |-> 1, datapath |-> Datapath(f)] : f \in Known},
             files |-> {}]
  /\ cursor = NoString
  /\ thread = [t \in Threads |-> Idle]
  /\ mixed = {}

-------------------------------------------------------------------------------
(* Requests.                                                                  *)

Becomes(t, record) == thread' = [thread EXCEPT ![t] = record]

Begin(t, state) ==
  /\ thread[t] = Idle
  /\ Becomes(t, state)
  /\ UNCHANGED <<tree, cursor, mixed>>

\* jfs_dir_query_builder of a folder that exists or was resolved.  The kernel holds the
\* lock of a directory while it is listed.
StartList(t) ==
  \E f \in Listed :
    /\ Len(f) = 1 \/ \E d \in FolderAt(tree, f) : d.datapath = Datapath(f)
    /\ \A u \in Threads : thread[u].job # [op |-> "list", path |-> f]
    /\ Begin(t, [Idle EXCEPT !.pc = "gather", !.job = [op |-> "list", path |-> f]])

StartResolve(t) ==
  \E p \in Resolved :
    Begin(t, [Idle EXCEPT !.pc = "find", !.job = [op |-> "resolve", path |-> p], !.goal = p])

StartAddFolder(t) ==
  \E p \in NewFolders :
    /\ Begin(t, [Idle EXCEPT !.pc = "add", !.job = [op |-> "folder", path |-> p], !.goal = p])

StartAddFile(t) ==
  \E x \in NewFiles :
    /\ Begin(t, [Idle EXCEPT !.pc = "add", !.goal = x.path,
                             !.job = [op |-> "file", path |-> x.path, id |-> x.id]])

Return(t) ==
  /\ thread[t].pc \in {"done", "error"}
  /\ Becomes(t, Idle)
  /\ mixed' = mixed \ {t}
  /\ UNCHANGED <<tree, cursor>>

\* No memory, or an attribute cannot be read.  A string being cut is freed.
Fails(t) ==
  /\ thread[t].pc \in {"gather", "find", "found", "add", "way", "parse", "pairs", "query", "rows"}
  /\ Becomes(t, [Idle EXCEPT !.pc = "error", !.job = thread[t].job])
  /\ cursor' = Freed(t, cursor)
  /\ UNCHANGED <<tree, mixed>>

-------------------------------------------------------------------------------
(* jfs_dynamic_hierarchy_get_node, under path_lock for reading.               *)

\* The address of the first copy of a string is what tells the last item.
IsLast_Name(t, x) == x.text = Last(thread[t].goal)                    \* mutant
IsLast(t, x) == x.by = t /\ x.last

HereIn_Listed(nodes, t, x) ==                                         \* mutant
  {n \in FirstOf(nodes, thread[t].at, x.text) : n \in tree.files \/ n.datapath # NoDatapath}
HereIn(nodes, t, x) == FirstOf(nodes, thread[t].at, x.text)

\* A folder hides a file.
FoundLast(t, x) ==
  IF HereIn(tree.folders, t, x) # {} THEN HereIn(tree.folders, t, x)
  ELSE HereIn(tree.files, t, x)

Visit(t, c) ==
  LET x == c.token
      Arrive(nodes) ==
        /\ Becomes(t, [thread[t] EXCEPT !.pc = "found", !.node = nodes])
        /\ cursor' = Freed(t, c.cursor)
  IN  \/ x = NoToken /\ Arrive({})
      \/ x # NoToken /\ IsLast(t, x) /\ Arrive(FoundLast(t, x))
      \/ /\ x # NoToken /\ ~IsLast(t, x)
         /\ \/ HereIn(tree.folders, t, x) = {} /\ Arrive({})
            \/ \E d \in HereIn(tree.folders, t, x) :
                 /\ Becomes(t, [thread[t] EXCEPT !.pc = "walk", !.at = At(d)])
                 /\ cursor' = c.cursor

EnterWalk(t) ==
  /\ thread[t].pc = "find" /\ NoWriter
  /\ Visit(t, First(t, PathTokens(t, thread[t].goal), "slash"))
  /\ MixUp(t)
  /\ UNCHANGED tree

NextWalk(t) ==
  /\ thread[t].pc = "walk"
  /\ \E c \in Following("slash") : Visit(t, c)
  /\ MixUp(t)
  /\ UNCHANGED tree

\* jfs_dynamic_path_resolution copies what it needs and unlocks.
Resolve(t) ==
  /\ thread[t].pc = "found" /\ thread[t].job.op = "resolve"
  /\ Becomes(t, [thread[t] EXCEPT !.pc = "done"])
  /\ UNCHANGED <<tree, cursor, mixed>>

-------------------------------------------------------------------------------
(* jfs_dynamic_hierarchy_add_folder and _add_file.                            *)

CutAhead(t) ==
  LET c == First(t, PathTokens(t, thread[t].goal), "slash")
  IN  /\ thread[t].pc = "add"
      /\ Becomes(t, [thread[t] EXCEPT !.pc = "lock", !.token = c.token])
      /\ cursor' = c.cursor
      /\ MixUp(t)
      /\ UNCHANGED tree

InFront_Behind(t, nodes, x) == 1                                       \* mutant
InFront(t, nodes, x) == Copies(nodes, thread[t].at, x.text) + 1

HasRoom == Cardinality(tree.folders) + Cardinality(tree.files) < MaxNodes

NewFolder(t, x, datapath) ==
  [in |-> thread[t].at, name |-> x.text, nth |-> InFront(t, tree.folders, x),
   datapath |-> datapath]

NewFile(t, x) ==
  [in |-> thread[t].at, name |-> x.text, nth |-> InFront(t, tree.files, x),
   id |-> thread[t].job.id]

\* One item: the last is added in front, a folder on the way is made if it is missing.
AddItem(t, c) ==
  LET x == c.token
      Stop(pc) ==
        /\ Becomes(t, [thread[t] EXCEPT !.pc = pc])
        /\ cursor' = Freed(t, c.cursor)
      Descend(d) ==
        /\ Becomes(t, [thread[t] EXCEPT !.pc = "way", !.at = At(d)])
        /\ cursor' = c.cursor
  IN  \/ x = NoToken /\ Stop("error") /\ UNCHANGED tree
      \/ /\ x # NoToken /\ IsLast(t, x) /\ HasRoom
         /\ \/ /\ thread[t].job.op = "folder"
               /\ tree' = [tree EXCEPT !.folders =
                             @ \cup {NewFolder(t, x, Datapath(thread[t].goal))}]
            \/ /\ thread[t].job.op = "file"
               /\ tree' = [tree EXCEPT !.files = @ \cup {NewFile(t, x)}]
         /\ Stop("done")
      \/ /\ x # NoToken /\ ~IsLast(t, x)
         /\ \/ /\ HereIn(tree.folders, t, x) = {} /\ HasRoom
               /\ tree' = [tree EXCEPT !.folders = @ \cup {NewFolder(t, x, NoDatapath)}]
               /\ Descend(NewFolder(t, x, NoDatapath))
            \/ \E d \in HereIn(tree.folders, t, x) : Descend(d) /\ UNCHANGED tree

EnterWay_Shared(t) ==                                                 \* mutant
  /\ thread[t].pc = "lock" /\ NoWriter
  /\ AddItem(t, [token |-> thread[t].token, cursor |-> cursor])
  /\ UNCHANGED mixed
EnterWay(t) ==
  /\ thread[t].pc = "lock" /\ NoWriter /\ NoReader
  /\ AddItem(t, [token |-> thread[t].token, cursor |-> cursor])
  /\ UNCHANGED mixed

NextWay(t) ==
  /\ thread[t].pc = "way"
  /\ \E c \in Following("slash") : AddItem(t, c)
  /\ MixUp(t)

-------------------------------------------------------------------------------
(* jfs_dir_query_builder: the folders around, then the pairs of each and its own. *)

\* The pairs of folder g, found at datapaths, and the item of the path that follows g.
\* An error at the first g makes the cleanup free pointers that were never set, which is
\* undefined: here it is an error like the others.
TakePairs(t, g, datapaths) ==
  /\ \/ \E d \in datapaths \cap DOMAIN Query :
          /\ Becomes(t, [thread[t] EXCEPT
               !.pc = "gather", !.goal = <<>>, !.at = <<>>, !.node = {},
               !.todo = Append(@, [pairs |-> Query[d].pairs, skipLast |-> TRUE,
                                   value |-> thread[t].job.path[Len(g) + 1]])])
          /\ mixed' = IF d = Datapath(g) THEN mixed ELSE mixed \cup {t}
     \/ /\ datapaths \cap DOMAIN Query = {}
        /\ Becomes(t, [thread[t] EXCEPT !.pc = "error"])
        /\ UNCHANGED mixed
  /\ UNCHANGED <<tree, cursor>>

\* The innermost folder around that has not been asked for its pairs yet.
Gather(t) ==
  LET f == thread[t].job.path
      asked == Len(thread[t].todo)
      g == SubSeq(f, 1, Len(f) - asked - 1)
  IN  /\ thread[t].pc = "gather"
      /\ asked < QueryOf(f).items
      /\ \/ Len(g) <= 1 /\ TakePairs(t, g, {g})
         \/ /\ Len(g) > 1
            /\ Becomes(t, [thread[t] EXCEPT !.pc = "find", !.goal = g])
            /\ UNCHANGED <<tree, cursor, mixed>>

FoundAround(t) ==
  /\ thread[t].pc = "found" /\ thread[t].job.op = "list"
  /\ TakePairs(t, thread[t].goal, {d.datapath : d \in thread[t].node \cap tree.folders})

Gathered(t) ==
  LET q == QueryOf(thread[t].job.path)
  IN  /\ thread[t].pc = "gather"
      /\ Len(thread[t].todo) >= q.items
      /\ Becomes(t, [thread[t] EXCEPT
           !.pc = "parse",
           !.todo = Append(@, [pairs |-> q.pairs, skipLast |-> q.folders, value |-> None])])
      /\ UNCHANGED <<tree, cursor, mixed>>

\* jfs_dir_parse_key_pairs: a key asks for a value if one follows.
LeftOut_Always(t) == {thread[t].key}                                  \* mutant
LeftOut(t) == IF Head(thread[t].todo).skipLast THEN {thread[t].key} ELSE {}

Parse(t, c) ==
  LET x == c.token
      key == thread[t].key
      Go(pc, newKey, term) ==
        /\ Becomes(t, [thread[t] EXCEPT !.pc = pc, !.key = newKey, !.terms = @ \cup term])
        /\ cursor' = IF pc = "pairs" THEN c.cursor ELSE Freed(t, c.cursor)
  IN  \/ /\ x = NoToken
         /\ Go("parsed", None, {KeyTerm(k) : k \in {key} \ (LeftOut(t) \cup {None})})
      \/ /\ x.tag = "k"
         /\ Go("pairs", x.text, {KeyTerm(k) : k \in {key} \ {None}})
      \/ /\ x.tag = "v" /\ key # None
         /\ Go("pairs", None, {PairTerm(key, x.text)})
      \/ /\ x.tag = "name" \/ (x.tag = "v" /\ key = None)
         /\ Go("error", None, {})

StartParse(t) ==
  LET pairs == Head(thread[t].todo).pairs
  IN  /\ thread[t].pc = "parse"
      /\ \/ /\ pairs = <<>>
            /\ Becomes(t, [thread[t] EXCEPT !.pc = "parsed"])
            /\ UNCHANGED <<cursor, mixed>>
         \/ /\ pairs # <<>>
            /\ Parse(t, First(t, PairTokens(t, pairs), "semicolon"))
            /\ MixUp(t)
      /\ UNCHANGED tree

NextParse(t) ==
  /\ thread[t].pc = "pairs"
  /\ \E c \in Following("semicolon") : Parse(t, c)
  /\ MixUp(t)
  /\ UNCHANGED tree

\* The last key of a folder around takes the item of the path for its value.  A folder
\* that lists values needs a last key, one that lists files a term.
Parsed(t) ==
  LET x == Head(thread[t].todo)
      last == ListedKey(x.pairs)
      Proceed(pc, terms) ==
        Becomes(t, [thread[t] EXCEPT !.pc = pc, !.terms = @ \cup terms, !.todo = Tail(@)])
  IN  /\ thread[t].pc = "parsed"
      /\ \/ /\ x.value # None /\ last # {}
            /\ Proceed("parse", {PairTerm(Last(x.pairs).text, x.value)})
         \/ /\ x.value = None
            /\ IF x.skipLast THEN last # {} ELSE thread[t].terms # {}
            /\ Proceed("query", {})
         \/ /\ (x.skipLast /\ last = {}) \/ (~x.skipLast /\ thread[t].terms = {})
            /\ Proceed("error", {})
      /\ UNCHANGED <<tree, cursor, mixed>>

-------------------------------------------------------------------------------
(* The query: jfs_do_readdir_op on a snapshot of the tables, which other      *)
(* requests change all the while.                                             *)

RunQuery(t) ==
  LET f == thread[t].job.path
      q == QueryOf(f)
  IN  /\ thread[t].pc = "query"
      /\ \E db \in Tables :
           Becomes(t, [thread[t] EXCEPT
             !.pc = "rows",
             !.terms = {},
             !.rows = IF q.folders THEN SelectValues(db, Last(q.pairs).text, thread[t].terms)
                                   ELSE SelectFiles(db, thread[t].terms),
             !.due = IF t \in mixed THEN {} ELSE Expected(db, f)])
      /\ UNCHANGED <<tree, cursor, mixed>>

ReadRow(t) ==
  /\ thread[t].pc = "rows"
  /\ \E r \in thread[t].rows :
       Becomes(t, [thread[t] EXCEPT !.rows = @ \ {r}, !.list = @ \cup {r}])
  /\ UNCHANGED <<tree, cursor, mixed>>

\* Only SQLITE_DONE makes the rows a result.
LastRow(t) ==
  /\ thread[t].pc = "rows" /\ thread[t].rows = {}
  /\ Becomes(t, [thread[t] EXCEPT !.pc = "done"])
  /\ UNCHANGED <<tree, cursor, mixed>>

-------------------------------------------------------------------------------
Step(t) ==
  \/ t \in Listers /\ StartList(t)
  \/ t \in Walkers /\ (StartResolve(t) \/ StartAddFolder(t) \/ StartAddFile(t))
  \/ EnterWalk(t) \/ NextWalk(t) \/ Resolve(t)
  \/ CutAhead(t) \/ EnterWay(t) \/ NextWay(t)
  \/ Gather(t) \/ FoundAround(t) \/ Gathered(t)
  \/ StartParse(t) \/ NextParse(t) \/ Parsed(t)
  \/ RunQuery(t) \/ ReadRow(t) \/ LastRow(t)
  \/ Fails(t) \/ Return(t)

Next == \E t \in Threads : Step(t)

Spec == Init /\ [][Next]_vars

-------------------------------------------------------------------------------
(* Properties.                                                                *)

\* Type invariant: also, path_lock admits one writer or readers, and the nodes of a name
\* are numbered without gaps, whoever cuts whose path.
TypeOK ==
  /\ \A nodes \in {tree.folders, tree.files} : \A n \in nodes :
       /\ n.nth \in 1..Copies(nodes, n.in, n.name)
       /\ n.in # <<>> => \E d \in tree.folders : At(d) = n.in
  /\ cursor.by \in Threads \cup {Nobody}
  /\ cursor.freed => cursor.by = Nobody
  /\ \A t \in Threads :
       /\ thread[t].pc \in {"idle", "gather", "find", "walk", "found", "add", "lock", "way",
                            "parse", "pairs", "parsed", "query", "rows", "done", "error"}
       /\ thread[t].key \in Keys \cup {None}
       /\ \A term \in thread[t].terms : term.key \in Keys
  /\ NoWriter \/ NoReader
  /\ \A t, u \in Threads : thread[t].pc = "way" /\ thread[u].pc = "way" => t = u
  /\ mixed \subseteq Threads

\* A listing that succeeds shows what the attributes of the files say, all of it and
\* nothing else, whatever other requests change meanwhile, and whatever fails; but for
\* listings that other threads' calls of strtok cut into.
ListingRight ==
  \A t \in Threads \ mixed :
    thread[t].pc = "done" /\ thread[t].job.op = "list" => thread[t].list = thread[t].due

\* A walk name by name ends where the path leads, while others walk and add: at the
\* first folder of that name, otherwise at the first file.
LookupRight ==
  \A t \in Threads \ mixed :
    thread[t].pc = "found" =>
      LET p == thread[t].goal
      IN  thread[t].node = IF FolderAt(tree, p) # {} THEN FolderAt(tree, p) ELSE FileAt(tree, p)

\* The step that adds a folder or a file leaves a path that leads to it, a file unless a
\* folder hides it.  A later one of its name, or of a folder's on its way, is in front of it.
AddedFound ==
  [][\A t \in Threads \ mixed :
       LET job == thread[t].job
           new(nodes, before) == \E n \in nodes : n \notin before
       IN  thread[t].pc \in {"lock", "way"} /\ thread'[t].pc = "done" =>
             \/ job.op = "folder" /\ new(FolderAt(tree', job.path), tree.folders)
             \/ job.op = "file" /\ (FolderAt(tree', job.path) # {}
                                     \/ new(FileAt(tree', job.path), tree.files))]_vars

\* No other folder is hidden by it: a path leads on to every folder that one led to, but
\* those of the path that is added and what is in them.  A folder on the way is made only
\* where there is none.
OthersStayFound ==
  [][\A t \in Threads \ mixed :
       thread[t].pc \in {"lock", "way"} /\ thread'[t] # thread[t] =>
         \A d \in tree.folders :
           IsFirst(tree, At(d)) =>
             \/ IsFirst(tree', At(d))
             \/ thread'[t].pc = "done" /\ IsPrefix(thread[t].job.path, NamesOf(At(d)))]_vars
===============================================================================
