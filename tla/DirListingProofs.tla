--------------------------- MODULE DirListingProofs ---------------------------
(***************************************************************************)
(* Proofs about the listings and the lookups, for any threads, folders,    *)
(* queries and tables: strtok gives each thread its own items, in order,   *)
(* unless another called it in between, and then a lookup ends where the   *)
(* path leads, what is added is found, and a listing shows what the        *)
(* attributes say.                                                         *)
(***************************************************************************)
EXTENDS DirListing, HierarchyProofs

Agents == Threads \cup {Nobody}

Tokens(tags, texts) == [by : Agents, tag : tags, text : texts, last : BOOLEAN]
NameTokens == Tokens({"name"}, Names)
ItemTokens == Tokens({"k"}, Keys) \cup Tokens({"v"}, Values)

Cursors ==
  [by : Agents, sep : {"slash"}, left : Seq(NameTokens), freed : BOOLEAN] \cup
  [by : Agents, sep : {"semicolon"}, left : Seq(ItemTokens), freed : BOOLEAN]

CursorOK(c) == c \in Cursors /\ (c.freed => c.by = Nobody)

Places == {"idle", "gather", "find", "walk", "found", "add", "lock", "way",
           "parse", "pairs", "parsed", "query", "rows", "done", "error"}

Fields == {"pc", "job", "goal", "token", "at", "node", "todo", "key", "terms", "rows",
           "list", "due"}

\* A list of pairs to parse.
Lists == [pairs : Seq(Items), skipLast : BOOLEAN, value : Names \cup {None}]

\* What a thread does at each place.
JobOK(r) ==
  /\ r.pc \in {"gather", "parse", "pairs", "parsed", "query", "rows"} => r.job.op = "list"
  /\ r.pc \in {"find", "walk", "found"} => r.job.op \in {"list", "resolve"}
  /\ r.pc \in {"add", "lock", "way"} => r.job.op \in {"folder", "file"}
  /\ r.pc \in {"find", "walk", "found", "add", "lock", "way"} =>
       /\ r.goal \in Seq(Names) \ {<<>>}
       /\ r.job.op # "list" => r.goal = r.job.path
  /\ r.job.op = "list" => r.job.path \in Listed

AtOK(folders, r) ==
  /\ r.at \in Addresses
  /\ r.at = <<>> \/ \E d \in folders : At(d) = r.at
  /\ r.pc \in {"gather", "find", "add", "lock"} => r.at = <<>>
  /\ r.pc = "lock" => r.token \in NameTokens

TermsOK(r) ==
  /\ r.key \in Keys \cup {None}
  /\ \A term \in r.terms : term.key \in Keys

\* The lists of the folders around have an item of the path for the value of their last
\* key, the folder's own has none.
TodoOK(r) ==
  /\ r.todo \in Seq(Lists)
  /\ r.pc \in {"gather", "find", "walk", "found"} =>
       \A i \in 1..Len(r.todo) : r.todo[i].value # None
  /\ r.pc \in {"parse", "pairs", "parsed"} =>
       /\ r.todo # <<>>
       /\ \A i \in 1..Len(r.todo) : r.todo[i].value = None <=> i = Len(r.todo)
  /\ r.pc \in {"find", "walk", "found"} /\ r.job.op = "list" =>
       LET n == Len(r.job.path) - Len(r.todo) - 1
       IN  n > 1 /\ r.goal = SubSeq(r.job.path, 1, n)

RecordOK(folders, r) ==
  /\ DOMAIN r = Fields /\ r.pc \in Places
  /\ JobOK(r) /\ AtOK(folders, r) /\ TermsOK(r) /\ TodoOK(r)

Lock ==
  \A t, u \in Threads : thread[t].pc = "way" /\ thread[u].pc \in {"way", "walk", "found"} => t = u

Types ==
  /\ Shape(tree)
  /\ CursorOK(cursor)
  /\ thread = [t \in Threads |-> thread[t]]
  /\ \A t \in Threads : RecordOK(tree.folders, thread[t])
  /\ Lock
  /\ mixed \subseteq Threads

-------------------------------------------------------------------------------
(* strtok.                                                                    *)

LEMMA SequenceParts ==
  ASSUME NEW S, NEW s \in Seq(S), s # <<>>
  PROVE  /\ Len(s) \in Nat \ {0}
         /\ Head(s) = s[1] /\ Head(s) \in S
         /\ Tail(s) \in Seq(S) /\ Len(Tail(s)) = Len(s) - 1
         /\ \A i \in 1..Len(Tail(s)) : Tail(s)[i] = s[i + 1]
<1>1. Len(s) \in Nat /\ Len(s) # 0 /\ \A i \in 1..Len(s) : s[i] \in S
  BY LenProperties, EmptySeq
<1> QED BY <1>1, HeadTailProperties

LEMMA Constants ==
  /\ Nobody \notin Threads /\ None \notin Names /\ None \notin Keys /\ Foreign \in Names
  /\ NoString \in Cursors /\ ForeignToken \in NameTokens
  /\ NoToken \notin NameTokens /\ NoToken \notin ItemTokens
<1>1. Nobody \notin Threads /\ None \notin Names /\ None \notin Keys /\ Foreign \in Names
  BY ListingAssumption DEF Threads
<1>2. <<>> \in Seq(NameTokens)
  BY EmptySeq
<1>3. NoString \in Cursors
  BY <1>2 DEF NoString, Cursors, Agents
<1>4. ForeignToken \in NameTokens
  BY <1>1 DEF ForeignToken, NameTokens, Tokens, Token, Agents
<1>5. NoToken \notin NameTokens /\ NoToken \notin ItemTokens
  BY DEF NoToken, NameTokens, ItemTokens, Tokens, Token
<1> QED BY <1>1, <1>3, <1>4, <1>5

LEMMA PathTokensFacts ==
  ASSUME NEW t \in Threads, NEW path \in Seq(Names)
  PROVE  /\ PathTokens(t, path) \in Seq(NameTokens)
         /\ Len(PathTokens(t, path)) = Len(path) /\ Len(path) \in Nat
         /\ \A i \in 1..Len(path) :
              PathTokens(t, path)[i] = Token(t, "name", path[i], i = Len(path))
<1>1. Len(path) \in Nat /\ DOMAIN path = 1..Len(path) /\ \A i \in 1..Len(path) : path[i] \in Names
  BY LenProperties, ElementOfSeq
<1> DEFINE tokens == [i \in 1..Len(path) |-> Token(t, "name", path[i], i = Len(path))]
<1>2. PathTokens(t, path) = tokens
  BY <1>1 DEF PathTokens
<1>3. \A i \in 1..Len(path) : Token(t, "name", path[i], i = Len(path)) \in NameTokens
  BY <1>1 DEF Token, NameTokens, Tokens, Agents
<1>4. tokens \in Seq(NameTokens) /\ Len(tokens) = Len(path)
  <2>1. tokens \in [1..Len(path) -> NameTokens]
    BY <1>3
  <2>2. tokens \in Seq(NameTokens)
    BY <1>1, <2>1, SeqDef
  <2>3. DOMAIN tokens = 1..Len(path)
    OBVIOUS
  <2> HIDE DEF tokens
  <2>4. DOMAIN tokens = 1..Len(tokens) /\ Len(tokens) \in Nat
    BY <2>2, LenProperties
  <2> QED BY <1>1, <2>2, <2>3, <2>4
<1> QED BY <1>1, <1>2, <1>4

LEMMA PairTokensFacts ==
  ASSUME NEW t \in Threads, NEW pairs \in Seq(Items)
  PROVE  /\ PairTokens(t, pairs) \in Seq(ItemTokens)
         /\ Len(PairTokens(t, pairs)) = Len(pairs) /\ Len(pairs) \in Nat
         /\ \A i \in 1..Len(pairs) :
              PairTokens(t, pairs)[i] = Token(t, pairs[i].tag, pairs[i].text, FALSE)
<1>1. /\ Len(pairs) \in Nat /\ DOMAIN pairs = 1..Len(pairs)
      /\ \A i \in 1..Len(pairs) : pairs[i] \in Items
  BY LenProperties, ElementOfSeq
<1> DEFINE tokens == [i \in 1..Len(pairs) |-> Token(t, pairs[i].tag, pairs[i].text, FALSE)]
<1>2. PairTokens(t, pairs) = tokens
  BY <1>1 DEF PairTokens
<1>3. \A i \in 1..Len(pairs) : Token(t, pairs[i].tag, pairs[i].text, FALSE) \in ItemTokens
  BY <1>1 DEF Token, ItemTokens, Tokens, Agents, Items
<1>4. tokens \in Seq(ItemTokens) /\ Len(tokens) = Len(pairs)
  <2>1. tokens \in [1..Len(pairs) -> ItemTokens]
    BY <1>3
  <2>2. tokens \in Seq(ItemTokens)
    BY <1>1, <2>1, SeqDef
  <2>3. DOMAIN tokens = 1..Len(pairs)
    OBVIOUS
  <2> HIDE DEF tokens
  <2>4. DOMAIN tokens = 1..Len(tokens) /\ Len(tokens) \in Nat
    BY <2>2, LenProperties
  <2> QED BY <1>1, <2>2, <2>3, <2>4
<1> QED BY <1>1, <1>2, <1>4

LEMMA FreedOK ==
  ASSUME NEW t, NEW c, CursorOK(c)
  PROVE  CursorOK(Freed(t, c))
<1>1. CursorOK(NoString)
  BY Constants DEF CursorOK, NoString
<1> QED BY <1>1 DEF Freed

LEMMA CursorMade ==
  ASSUME NEW t \in Threads, NEW left
  PROVE  /\ left \in Seq(NameTokens) =>
              CursorOK([by |-> t, sep |-> "slash", left |-> left, freed |-> FALSE])
         /\ left \in Seq(ItemTokens) =>
              CursorOK([by |-> t, sep |-> "semicolon", left |-> left, freed |-> FALSE])
  BY DEF CursorOK, Cursors, Agents

\* The first item of a path, of a list of pairs.
LEMMA FirstName ==
  ASSUME NEW t \in Threads, NEW path \in Seq(Names), path # <<>>,
         NEW c, c = First(t, PathTokens(t, path), "slash")
  PROVE  /\ c.token \in NameTokens /\ CursorOK(c.cursor)
         /\ c.token = PathTokens(t, path)[1]
         /\ c.cursor.by = t /\ c.cursor.sep = "slash" /\ ~c.cursor.freed
         /\ Len(c.cursor.left) = Len(path) - 1
         /\ \A i \in 1..Len(path) - 1 : c.cursor.left[i] = PathTokens(t, path)[i + 1]
<1> DEFINE tokens == PathTokens(t, path)
<1>1. tokens \in Seq(NameTokens) /\ Len(tokens) = Len(path) /\ Len(path) \in Nat
  BY PathTokensFacts
<1>2. tokens # <<>>
  BY <1>1, EmptySeq
<1> HIDE DEF tokens
<1>3. /\ Head(tokens) = tokens[1] /\ Head(tokens) \in NameTokens
      /\ Tail(tokens) \in Seq(NameTokens) /\ Len(Tail(tokens)) = Len(tokens) - 1
      /\ \A i \in 1..Len(Tail(tokens)) : Tail(tokens)[i] = tokens[i + 1]
  BY <1>1, <1>2, SequenceParts
<1>4. /\ First(t, tokens, "slash").token = Head(tokens)
      /\ First(t, tokens, "slash").cursor =
           [by |-> t, sep |-> "slash", left |-> Tail(tokens), freed |-> FALSE]
  BY DEF First
<1>5. /\ c.token = Head(tokens)
      /\ c.cursor = [by |-> t, sep |-> "slash", left |-> Tail(tokens), freed |-> FALSE]
  BY <1>4 DEF tokens
<1>6. CursorOK(c.cursor)
  BY <1>3, <1>5, CursorMade
<1>7. c.token \in NameTokens /\ c.token = tokens[1]
  BY <1>3, <1>5
<1>8. c.cursor.by = t /\ c.cursor.sep = "slash" /\ ~c.cursor.freed /\ c.cursor.left = Tail(tokens)
  BY ONLY <1>5
<1> QED BY <1>1, <1>3, <1>6, <1>7, <1>8 DEF tokens

LEMMA FirstItem ==
  ASSUME NEW t \in Threads, NEW pairs \in Seq(Items), pairs # <<>>,
         NEW c, c = First(t, PairTokens(t, pairs), "semicolon")
  PROVE  /\ c.token \in ItemTokens /\ CursorOK(c.cursor)
         /\ c.token = PairTokens(t, pairs)[1]
         /\ c.cursor.by = t /\ c.cursor.sep = "semicolon" /\ ~c.cursor.freed
         /\ Len(c.cursor.left) = Len(pairs) - 1
         /\ \A i \in 1..Len(pairs) - 1 : c.cursor.left[i] = PairTokens(t, pairs)[i + 1]
<1> DEFINE tokens == PairTokens(t, pairs)
<1>1. tokens \in Seq(ItemTokens) /\ Len(tokens) = Len(pairs) /\ Len(pairs) \in Nat
  BY PairTokensFacts
<1>2. tokens # <<>>
  BY <1>1, EmptySeq
<1> HIDE DEF tokens
<1>3. /\ Head(tokens) = tokens[1] /\ Head(tokens) \in ItemTokens
      /\ Tail(tokens) \in Seq(ItemTokens) /\ Len(Tail(tokens)) = Len(tokens) - 1
      /\ \A i \in 1..Len(Tail(tokens)) : Tail(tokens)[i] = tokens[i + 1]
  BY <1>1, <1>2, SequenceParts
<1>4. /\ First(t, tokens, "semicolon").token = Head(tokens)
      /\ First(t, tokens, "semicolon").cursor =
           [by |-> t, sep |-> "semicolon", left |-> Tail(tokens), freed |-> FALSE]
  BY DEF First
<1>5. /\ c.token = Head(tokens)
      /\ c.cursor = [by |-> t, sep |-> "semicolon", left |-> Tail(tokens), freed |-> FALSE]
  BY <1>4 DEF tokens
<1>6. CursorOK(c.cursor)
  BY <1>3, <1>5, CursorMade
<1>7. c.token \in ItemTokens /\ c.token = tokens[1]
  BY <1>3, <1>5
<1>8. c.cursor.by = t /\ c.cursor.sep = "semicolon" /\ ~c.cursor.freed /\ c.cursor.left = Tail(tokens)
  BY ONLY <1>5
<1> QED BY <1>1, <1>3, <1>6, <1>7, <1>8 DEF tokens

\* The next item: whatever comes is of the right kind, or a name.
LEMMA FollowingOK ==
  ASSUME CursorOK(cursor), NEW sep \in {"slash", "semicolon"}, NEW c \in Following(sep)
  PROVE  /\ c.token \in {NoToken, ForeignToken} \cup (IF sep = "slash" THEN NameTokens ELSE ItemTokens)
         /\ CursorOK(c.cursor)
<1>1. CASE cursor.freed
  <2>1. PICK x \in Junk(sep) : c = [token |-> x, cursor |-> [cursor EXCEPT !.freed = FALSE]]
    BY <1>1 DEF Following
  <2>2. x \in {NoToken, ForeignToken} \cup (IF sep = "slash" THEN NameTokens ELSE ItemTokens)
    <3>1. SUFFICES ASSUME NEW y \in Leftover, y.tag = "name" <=> sep = "slash",
                          x = Token(Nobody, y.tag, y.text, FALSE)
                   PROVE  x \in IF sep = "slash" THEN NameTokens ELSE ItemTokens
      BY DEF Junk
    <3>2. y \in Items \cup [tag : {"name"}, text : Names]
      BY ListingAssumption
    <3> QED BY <3>1, <3>2 DEF Token, NameTokens, ItemTokens, Tokens, Agents, Items
  <2>3. CursorOK([cursor EXCEPT !.freed = FALSE])
    BY DEF CursorOK, Cursors
  <2> QED BY <2>1, <2>2, <2>3
<1>2. CASE ~cursor.freed /\ cursor.left = <<>>
  <2>1. c = [token |-> NoToken, cursor |-> cursor]
    BY <1>2 DEF Following
  <2> QED BY <2>1
<1>3. CASE ~cursor.freed /\ cursor.left # <<>> /\ cursor.sep = sep
  <2>1. c = [token |-> Head(cursor.left),
             cursor |-> [cursor EXCEPT !.left = Tail(cursor.left)]]
    BY <1>3 DEF Following
  <2>2. CASE sep = "slash"
    <3>1. cursor \in [by : Agents, sep : {"slash"}, left : Seq(NameTokens), freed : BOOLEAN]
      BY <1>3, <2>2 DEF CursorOK, Cursors
    <3>2. Head(cursor.left) \in NameTokens /\ Tail(cursor.left) \in Seq(NameTokens)
      BY <1>3, <3>1, SequenceParts
    <3>3. CursorOK([cursor EXCEPT !.left = Tail(cursor.left)])
      BY <1>3, <3>1, <3>2 DEF CursorOK, Cursors
    <3> QED BY <2>1, <2>2, <3>2, <3>3
  <2>3. CASE sep = "semicolon"
    <3>1. cursor \in [by : Agents, sep : {"semicolon"}, left : Seq(ItemTokens), freed : BOOLEAN]
      BY <1>3, <2>3 DEF CursorOK, Cursors
    <3>2. Head(cursor.left) \in ItemTokens /\ Tail(cursor.left) \in Seq(ItemTokens)
      BY <1>3, <3>1, SequenceParts
    <3>3. CursorOK([cursor EXCEPT !.left = Tail(cursor.left)])
      BY <1>3, <3>1, <3>2 DEF CursorOK, Cursors
    <3> QED BY <2>1, <2>3, <3>2, <3>3
  <2> QED BY <2>2, <2>3
<1>4. CASE ~cursor.freed /\ cursor.left # <<>> /\ cursor.sep # sep
  <2>1. c = [token |-> ForeignToken, cursor |-> [cursor EXCEPT !.left = <<>>]]
    BY <1>4 DEF Following
  <2>2. <<>> \in Seq(NameTokens) /\ <<>> \in Seq(ItemTokens)
    BY EmptySeq
  <2>3. CursorOK([cursor EXCEPT !.left = <<>>])
    BY <1>4, <2>2 DEF CursorOK, Cursors
  <2> QED BY <2>1, <2>3
<1> QED BY <1>1, <1>2, <1>3, <1>4

-------------------------------------------------------------------------------
(* The types are kept.                                                        *)

LEMMA Kept ==
  ASSUME Types, NEW t \in Threads, NEW r, Becomes(t, r),
         Shape(tree)', tree.folders \subseteq tree'.folders, CursorOK(cursor)',
         mixed' \subseteq Threads, RecordOK(tree'.folders, r),
         r.pc = "way" => thread[t].pc = "way" \/ (NoWriter /\ NoReader),
         r.pc \in {"walk", "found"} => thread[t].pc \in {"walk", "found"} \/ NoWriter
  PROVE  Types'
<1>1. thread' = [u \in Threads |-> thread'[u]]
  BY DEF Types, Becomes
<1>2. thread'[t] = r /\ \A u \in Threads \ {t} : thread'[u] = thread[u]
  BY DEF Types, Becomes
<1>3. ASSUME NEW u \in Threads PROVE RecordOK(tree'.folders, thread'[u])
  <2>1. CASE u = t
    BY <1>2, <2>1
  <2>2. CASE u # t
    <3>1. RecordOK(tree.folders, thread[u])
      BY DEF Types
    <3>2. RecordOK(tree'.folders, thread[u])
      BY <3>1 DEF RecordOK, AtOK
    <3> QED BY <1>2, <2>2, <3>2
  <2> QED BY <2>1, <2>2
<1>4. Lock'
  <2>1. SUFFICES ASSUME NEW u \in Threads, NEW v \in Threads, thread'[u].pc = "way",
                        thread'[v].pc \in {"way", "walk", "found"}
                 PROVE  u = v
    BY DEF Lock
  <2>2. /\ NoWriter => thread[u].pc # "way" /\ thread[v].pc # "way"
        /\ NoReader => thread[u].pc \notin {"walk", "found"} /\ thread[v].pc \notin {"walk", "found"}
    BY DEF NoWriter, NoReader
  <2> QED BY <1>2, <2>1, <2>2 DEF Types, Lock
<1> QED BY <1>1, <1>3, <1>4 DEF Types

\* A thread that only goes on at a place where nothing else is asked of it.
LEMMA WentOn ==
  ASSUME Types, NEW t \in Threads, NEW place \in {"rows", "done", "error", "query"},
         place = "done" \/ place = "error" \/ thread[t].job.op = "list",
         NEW r, DOMAIN r = Fields, r.pc = place, r.job = thread[t].job,
         r.at = thread[t].at, r.key = thread[t].key, r.todo \in Seq(Lists),
         \A term \in r.terms : term.key \in Keys
  PROVE  RecordOK(tree.folders, r)
<1>1. RecordOK(tree.folders, thread[t])
  BY DEF Types
<1>2. JobOK(r)
  BY <1>1 DEF RecordOK, JobOK
<1>3. AtOK(tree.folders, r) /\ TermsOK(r)
  BY <1>1 DEF RecordOK, AtOK, TermsOK
<1>4. TodoOK(r)
  BY DEF TodoOK
<1> QED BY <1>2, <1>3, <1>4 DEF RecordOK, Places

LEMMA IdleOK ==
  ASSUME NEW folders, NEW r, DOMAIN r = Fields, r.pc \in Places,
         r.at = <<>>, r.key = None, r.terms = {}, r.todo = <<>>, r.pc # "lock",
         r.pc \notin {"parse", "pairs", "parsed"}, JobOK(r),
         r.pc \in {"find", "walk", "found"} => r.job.op # "list"
  PROVE  RecordOK(folders, r)
<1>1. <<>> \in Addresses /\ <<>> \in Seq(Lists) /\ Len(r.todo) = 0
  BY EmptySeq DEF Addresses
<1>2. AtOK(folders, r) /\ TermsOK(r)
  BY <1>1 DEF AtOK, TermsOK
<1>3. TodoOK(r)
  BY <1>1 DEF TodoOK
<1> QED BY <1>2, <1>3 DEF RecordOK

LEMMA BeginAdd ==
  ASSUME Types, NEW t \in Threads, NEW r, Begin(t, r), DOMAIN r = Fields, r.pc = "add",
         r.at = <<>>, r.key = None, r.terms = {}, r.todo = <<>>,
         r.job.op \in {"folder", "file"}, r.job.path \in NewPaths, r.goal = r.job.path
  PROVE  Types'
<1>1. r.goal \in Seq(Names) \ {<<>>}
  BY ListingAssumption
<1>2. JobOK(r)
  BY <1>1 DEF JobOK
<1>3. RecordOK(tree.folders, r)
  BY <1>2, IdleOK DEF Places
<1>4. Becomes(t, r) /\ UNCHANGED <<tree, cursor, mixed>>
  BY DEF Begin
<1> QED BY <1>3, <1>4, Kept DEF Types

LEMMA BeginTypes ==
  ASSUME Types, NEW t \in Threads,
         StartList(t) \/ StartResolve(t) \/ StartAddFolder(t) \/ StartAddFile(t)
  PROVE  Types'
<1>1. CASE StartList(t)
  <2>1. PICK f \in Listed :
          Begin(t, [Idle EXCEPT !.pc = "gather", !.job = [op |-> "list", path |-> f]])
    BY <1>1 DEF StartList
  <2> DEFINE r == [Idle EXCEPT !.pc = "gather", !.job = [op |-> "list", path |-> f]]
  <2>2. RecordOK(tree.folders, r)
    <3>1. DOMAIN r = Fields
      BY DEF Idle, Fields
    <3>2. JobOK(r)
      BY DEF Idle, JobOK
    <3>3. /\ r.pc = "gather" /\ r.at = <<>> /\ r.key = None /\ r.terms = {} /\ r.todo = <<>>
      BY DEF Idle
    <3> HIDE DEF r
    <3> QED BY <3>1, <3>2, <3>3, IdleOK DEF Places
  <2>3. r.pc = "gather"
    BY DEF Idle
  <2> HIDE DEF r
  <2>4. Becomes(t, r) /\ UNCHANGED <<tree, cursor, mixed>>
    BY <2>1 DEF Begin, r
  <2> QED BY <2>2, <2>3, <2>4, Kept DEF Types
<1>2. CASE StartResolve(t)
  <2>1. PICK p \in Resolved :
          Begin(t, [Idle EXCEPT !.pc = "find", !.job = [op |-> "resolve", path |-> p], !.goal = p])
    BY <1>2 DEF StartResolve
  <2> DEFINE r == [Idle EXCEPT !.pc = "find", !.job = [op |-> "resolve", path |-> p], !.goal = p]
  <2>2. RecordOK(tree.folders, r)
    <3>1. DOMAIN r = Fields
      BY DEF Idle, Fields
    <3>2. JobOK(r)
      BY ListingAssumption DEF Idle, JobOK
    <3>3. /\ r.pc = "find" /\ r.at = <<>> /\ r.key = None /\ r.terms = {} /\ r.todo = <<>>
          /\ r.job.op = "resolve"
      BY DEF Idle
    <3> HIDE DEF r
    <3> QED BY <3>1, <3>2, <3>3, IdleOK DEF Places
  <2>3. r.pc = "find"
    BY DEF Idle
  <2> HIDE DEF r
  <2>4. Becomes(t, r) /\ UNCHANGED <<tree, cursor, mixed>>
    BY <2>1 DEF Begin, r
  <2> QED BY <2>2, <2>3, <2>4, Kept DEF Types
<1>3. CASE StartAddFolder(t)
  <2>1. PICK p \in NewFolders :
          Begin(t, [Idle EXCEPT !.pc = "add", !.job = [op |-> "folder", path |-> p], !.goal = p])
    BY <1>3 DEF StartAddFolder
  <2> DEFINE r == [Idle EXCEPT !.pc = "add", !.job = [op |-> "folder", path |-> p], !.goal = p]
  <2>2. /\ DOMAIN r = Fields /\ r.pc = "add" /\ r.at = <<>> /\ r.key = None /\ r.terms = {}
        /\ r.todo = <<>> /\ r.job.op = "folder" /\ r.job.path = p /\ r.goal = p
    BY DEF Idle, Fields
  <2> HIDE DEF r
  <2>3. Begin(t, r)
    BY <2>1 DEF r
  <2>4. p \in NewPaths
    BY <2>1 DEF NewPaths
  <2> QED BY <2>2, <2>3, <2>4, BeginAdd
<1>4. CASE StartAddFile(t)
  <2>1. PICK x \in NewFiles :
          Begin(t, [Idle EXCEPT !.pc = "add", !.goal = x.path,
                                !.job = [op |-> "file", path |-> x.path, id |-> x.id]])
    BY <1>4 DEF StartAddFile
  <2> DEFINE r == [Idle EXCEPT !.pc = "add", !.goal = x.path,
                               !.job = [op |-> "file", path |-> x.path, id |-> x.id]]
  <2>2. /\ DOMAIN r = Fields /\ r.pc = "add" /\ r.at = <<>> /\ r.key = None /\ r.terms = {}
        /\ r.todo = <<>> /\ r.job.op = "file" /\ r.job.path = x.path /\ r.goal = x.path
    BY DEF Idle, Fields
  <2> HIDE DEF r
  <2>3. Begin(t, r)
    BY <2>1 DEF r
  <2>4. x.path \in NewPaths
    BY <2>1 DEF NewPaths
  <2> QED BY <2>2, <2>3, <2>4, BeginAdd
<1> QED BY <1>1, <1>2, <1>3, <1>4

LEMMA ReturnTypes ==
  ASSUME Types, NEW t \in Threads, Return(t)
  PROVE  Types'
<1>1. RecordOK(tree.folders, Idle)
  <2>1. DOMAIN Idle = Fields
    BY DEF Idle, Fields
  <2>2. JobOK(Idle)
    BY DEF Idle, JobOK
  <2>3. /\ Idle.pc = "idle" /\ Idle.at = <<>> /\ Idle.key = None /\ Idle.terms = {}
        /\ Idle.todo = <<>>
    BY DEF Idle
  <2> QED BY <2>1, <2>2, <2>3, IdleOK DEF Places
<1>2. Idle.pc = "idle"
  BY DEF Idle
<1>3. Becomes(t, Idle) /\ mixed' = mixed \ {t} /\ UNCHANGED <<tree, cursor>>
  BY DEF Return
<1> QED BY <1>1, <1>2, <1>3, Kept DEF Types

LEMMA FailsTypes ==
  ASSUME Types, NEW t \in Threads, Fails(t)
  PROVE  Types'
<1> DEFINE r == [Idle EXCEPT !.pc = "error", !.job = thread[t].job]
<1>1. RecordOK(tree.folders, r)
  <2>1. DOMAIN r = Fields
    BY DEF Idle, Fields
  <2>2. JobOK(thread[t])
    BY DEF Types, RecordOK
  <2>3. JobOK(r)
    BY <2>2 DEF Idle, JobOK
  <2>4. /\ r.pc = "error" /\ r.at = <<>> /\ r.key = None /\ r.terms = {} /\ r.todo = <<>>
    BY DEF Idle
  <2> HIDE DEF r
  <2> QED BY <2>1, <2>3, <2>4, IdleOK DEF Places
<1>2. r.pc = "error"
  BY DEF Idle
<1> HIDE DEF r
<1>3. /\ Becomes(t, r) /\ cursor' = Freed(t, cursor)
      /\ UNCHANGED <<tree, mixed>>
  BY DEF Fails, r
<1>4. CursorOK(cursor)'
  BY <1>3, FreedOK DEF Types
<1> QED BY <1>1, <1>2, <1>3, <1>4, Kept DEF Types

\* The end of a request and the reading of the rows.
LEMMA RowsTypes ==
  ASSUME Types, NEW t \in Threads, Resolve(t) \/ RunQuery(t) \/ ReadRow(t) \/ LastRow(t)
  PROVE  Types'
<1> DEFINE o == thread[t]
<1>1. RecordOK(tree.folders, o)
  BY DEF Types
<1>2. \E place \in {"rows", "done"} : \E r :
        /\ place = "done" \/ o.job.op = "list"
        /\ DOMAIN r = Fields /\ r.pc = place /\ r.job = o.job /\ r.goal = o.goal /\ r.at = o.at
        /\ r.key = o.key /\ r.todo = o.todo /\ \A term \in r.terms : term.key \in Keys
        /\ Becomes(t, r)
  <2>1. /\ DOMAIN o = Fields /\ \A term \in o.terms : term.key \in Keys
        /\ o.pc \in {"query", "rows"} => o.job.op = "list"
    BY <1>1 DEF RecordOK, TermsOK, JobOK
  <2> HIDE DEF o
  <2>2. CASE Resolve(t)
    <3> DEFINE r == [o EXCEPT !.pc = "done"]
    <3>1. /\ DOMAIN r = Fields /\ r.pc = "done" /\ r.job = o.job /\ r.goal = o.goal
          /\ r.at = o.at /\ r.key = o.key /\ r.todo = o.todo /\ r.terms = o.terms
      BY <2>1 DEF Fields
    <3>2. Becomes(t, r)
      BY <2>2 DEF Resolve, o
    <3> QED BY <2>1, <3>1, <3>2
  <2>3. CASE RunQuery(t)
    <3>1. o.pc = "query" /\ o.job.op = "list"
      BY <2>1, <2>3 DEF RunQuery, o
    <3>2. PICK rows, due :
            Becomes(t, [o EXCEPT !.pc = "rows", !.terms = {}, !.rows = rows, !.due = due])
      BY <2>3 DEF RunQuery, o
    <3> DEFINE r == [o EXCEPT !.pc = "rows", !.terms = {}, !.rows = rows, !.due = due]
    <3>3. /\ DOMAIN r = Fields /\ r.pc = "rows" /\ r.job = o.job /\ r.goal = o.goal
          /\ r.at = o.at /\ r.key = o.key /\ r.todo = o.todo /\ r.terms = {}
      BY <2>1 DEF Fields
    <3> QED BY <3>1, <3>2, <3>3
  <2>4. CASE ReadRow(t)
    <3>1. o.pc = "rows" /\ o.job.op = "list"
      BY <2>1, <2>4 DEF ReadRow, o
    <3>2. PICK row : Becomes(t, [o EXCEPT !.rows = @ \ {row}, !.list = @ \cup {row}])
      BY <2>4 DEF ReadRow, o
    <3> DEFINE r == [o EXCEPT !.rows = @ \ {row}, !.list = @ \cup {row}]
    <3>3. /\ DOMAIN r = Fields /\ r.pc = "rows" /\ r.job = o.job /\ r.goal = o.goal
          /\ r.at = o.at /\ r.key = o.key /\ r.todo = o.todo /\ r.terms = o.terms
      BY <2>1, <3>1 DEF Fields
    <3>4. Becomes(t, r)
      BY <3>2 DEF o
    <3> QED BY <2>1, <3>1, <3>3, <3>4
  <2>5. CASE LastRow(t)
    <3> DEFINE r == [o EXCEPT !.pc = "done"]
    <3>1. /\ DOMAIN r = Fields /\ r.pc = "done" /\ r.job = o.job /\ r.goal = o.goal
          /\ r.at = o.at /\ r.key = o.key /\ r.todo = o.todo /\ r.terms = o.terms
      BY <2>1 DEF Fields
    <3>2. Becomes(t, r)
      BY <2>5 DEF LastRow, o
    <3> QED BY <2>1, <3>1, <3>2
  <2> QED BY <2>2, <2>3, <2>4, <2>5
<1>3. PICK place \in {"rows", "done"} : \E r :
        /\ place = "done" \/ o.job.op = "list"
        /\ DOMAIN r = Fields /\ r.pc = place /\ r.job = o.job /\ r.goal = o.goal /\ r.at = o.at
        /\ r.key = o.key /\ r.todo = o.todo /\ \A term \in r.terms : term.key \in Keys
        /\ Becomes(t, r)
  BY <1>2
<1>4. PICK r :
        /\ place = "done" \/ o.job.op = "list"
        /\ DOMAIN r = Fields /\ r.pc = place /\ r.job = o.job /\ r.goal = o.goal /\ r.at = o.at
        /\ r.key = o.key /\ r.todo = o.todo /\ \A term \in r.terms : term.key \in Keys
        /\ Becomes(t, r)
  BY <1>3
<1>5. r.todo \in Seq(Lists)
  BY <1>1, <1>4 DEF RecordOK, TodoOK
<1>6. RecordOK(tree.folders, r)
  BY <1>4, <1>5, WentOn
<1>7. UNCHANGED <<tree, cursor, mixed>>
  BY DEF Resolve, RunQuery, ReadRow, LastRow
<1> QED BY <1>4, <1>6, <1>7, Kept DEF Types

\* A thread that finds, adds and gathers keeps its lists and its terms.
LEMMA Moved ==
  ASSUME Types, NEW t \in Threads, NEW folders, tree.folders \subseteq folders, NEW r,
         DOMAIN r = Fields, r.job = thread[t].job, r.goal = thread[t].goal,
         r.key = thread[t].key, r.terms = thread[t].terms, r.todo = thread[t].todo,
         \/ /\ thread[t].pc \in {"find", "walk"} /\ r.pc \in {"walk", "found"}
            /\ r.at \in Addresses /\ (r.at = <<>> \/ \E d \in folders : At(d) = r.at)
         \/ /\ thread[t].pc = "add" /\ r.pc = "lock"
            /\ r.at = thread[t].at /\ r.token \in NameTokens
         \/ /\ thread[t].pc \in {"lock", "way"} /\ r.pc \in {"way", "done", "error"}
            /\ r.at \in Addresses /\ (r.at = <<>> \/ \E d \in folders : At(d) = r.at)
         \/ /\ thread[t].pc \in {"gather", "found"} /\ r.pc = "error" /\ r.at = thread[t].at
  PROVE  RecordOK(folders, r)
<1>1. RecordOK(tree.folders, thread[t])
  BY DEF Types
<1>2. JobOK(r)
  BY <1>1 DEF RecordOK, JobOK
<1>3. AtOK(folders, r)
  BY <1>1 DEF RecordOK, AtOK
<1>4. TermsOK(r)
  BY <1>1 DEF RecordOK, TermsOK
<1>5. TodoOK(r)
  BY <1>1 DEF RecordOK, TodoOK, JobOK
<1>6. r.pc \in Places
  BY DEF Places
<1> QED BY <1>2, <1>3, <1>4, <1>5, <1>6 DEF RecordOK

\* Where a name leads.
LEMMA HereFacts ==
  ASSUME Types, NEW t \in Threads, NEW x, NEW d \in HereIn(tree.folders, t, x)
  PROVE  /\ d \in tree.folders /\ d.in = thread[t].at /\ d.name = x.text
         /\ IsNode(d) /\ At(d) \in Addresses
  BY AtFacts DEF HereIn, FirstOf, Types, Shape, Listing

LEMMA VisitTypes ==
  ASSUME Types, NEW t \in Threads, thread[t].pc \in {"find", "walk"},
         thread[t].pc = "find" => NoWriter,
         NEW c, CursorOK(c.cursor), Visit(t, c), UNCHANGED tree, mixed' \subseteq Threads
  PROVE  Types'
<1> DEFINE o == thread[t]
<1>1. DOMAIN o = Fields /\ AtOK(tree.folders, o)
  BY DEF Types, RecordOK
<1>2. CASE \E nodes : /\ Becomes(t, [thread[t] EXCEPT !.pc = "found", !.node = nodes])
                      /\ cursor' = Freed(t, c.cursor)
  <2>1. PICK nodes : /\ Becomes(t, [thread[t] EXCEPT !.pc = "found", !.node = nodes])
                     /\ cursor' = Freed(t, c.cursor)
    BY <1>2
  <2> DEFINE r == [thread[t] EXCEPT !.pc = "found", !.node = nodes]
  <2>2. /\ DOMAIN r = Fields /\ r.pc = "found" /\ r.job = o.job /\ r.goal = o.goal
        /\ r.at = o.at /\ r.key = o.key /\ r.terms = o.terms /\ r.todo = o.todo
    BY <1>1 DEF Fields
  <2>3. CursorOK(cursor)'
    BY <2>1, FreedOK
  <2>4. Becomes(t, r)
    BY <2>1
  <2> HIDE DEF r
  <2>5. RecordOK(tree.folders, r)
    BY <1>1, <2>2, Moved DEF AtOK
  <2> QED BY <2>2, <2>3, <2>4, <2>5, Kept DEF Types
<1>3. CASE \E d \in HereIn(tree.folders, t, c.token) :
             /\ Becomes(t, [thread[t] EXCEPT !.pc = "walk", !.at = At(d)])
             /\ cursor' = c.cursor
  <2>1. PICK d \in HereIn(tree.folders, t, c.token) :
             /\ Becomes(t, [thread[t] EXCEPT !.pc = "walk", !.at = At(d)])
             /\ cursor' = c.cursor
    BY <1>3
  <2> DEFINE r == [thread[t] EXCEPT !.pc = "walk", !.at = At(d)]
  <2>2. /\ DOMAIN r = Fields /\ r.pc = "walk" /\ r.job = o.job /\ r.goal = o.goal
        /\ r.at = At(d) /\ r.key = o.key /\ r.terms = o.terms /\ r.todo = o.todo
    BY <1>1 DEF Fields
  <2>3. Becomes(t, r)
    BY <2>1
  <2>4. At(d) \in Addresses /\ d \in tree.folders
    BY HereFacts
  <2> HIDE DEF r
  <2>5. RecordOK(tree.folders, r)
    BY <2>2, <2>4, Moved
  <2> QED BY <2>1, <2>2, <2>3, <2>5, Kept DEF Types
<1> QED BY <1>2, <1>3 DEF Visit

LEMMA WalkTypes ==
  ASSUME Types, NEW t \in Threads, EnterWalk(t) \/ NextWalk(t)
  PROVE  Types'
<1>1. MixUp(t) => mixed' \subseteq Threads
  BY DEF MixUp, Types
<1>2. CASE EnterWalk(t)
  <2> DEFINE c == First(t, PathTokens(t, thread[t].goal), "slash")
  <2>1. thread[t].goal \in Seq(Names) \ {<<>>}
    BY <1>2 DEF EnterWalk, Types, RecordOK, JobOK
  <2>2. CursorOK(c.cursor)
    BY <2>1, FirstName
  <2> HIDE DEF c
  <2>3. Visit(t, c) /\ MixUp(t) /\ NoWriter /\ UNCHANGED tree /\ thread[t].pc = "find"
    BY <1>2 DEF EnterWalk, c
  <2> QED BY <1>1, <2>2, <2>3, VisitTypes
<1>3. CASE NextWalk(t)
  <2>1. PICK c \in Following("slash") : Visit(t, c)
    BY <1>3 DEF NextWalk
  <2>2. CursorOK(c.cursor)
    BY FollowingOK DEF Types
  <2>3. MixUp(t) /\ UNCHANGED tree /\ thread[t].pc = "walk"
    BY <1>3 DEF NextWalk
  <2> QED BY <1>1, <2>1, <2>2, <2>3, VisitTypes
<1> QED BY <1>2, <1>3

LEMMA CutAheadTypes ==
  ASSUME Types, NEW t \in Threads, CutAhead(t)
  PROVE  Types'
<1> DEFINE c == First(t, PathTokens(t, thread[t].goal), "slash")
           o == thread[t]
<1>1. o.pc = "add" /\ o.goal \in Seq(Names) \ {<<>>} /\ DOMAIN o = Fields
  BY DEF CutAhead, Types, RecordOK, JobOK
<1>2. CursorOK(c.cursor) /\ c.token \in NameTokens
  BY <1>1, FirstName
<1> HIDE DEF c
<1>3. /\ Becomes(t, [thread[t] EXCEPT !.pc = "lock", !.token = c.token])
      /\ cursor' = c.cursor /\ MixUp(t) /\ UNCHANGED tree
  BY DEF CutAhead, c
<1> DEFINE r == [thread[t] EXCEPT !.pc = "lock", !.token = c.token]
<1>4. /\ DOMAIN r = Fields /\ r.pc = "lock" /\ r.job = o.job /\ r.goal = o.goal
      /\ r.at = o.at /\ r.key = o.key /\ r.terms = o.terms /\ r.todo = o.todo
      /\ r.token = c.token
  BY <1>1 DEF Fields
<1>5. Becomes(t, r)
  BY <1>3
<1> HIDE DEF r
<1>6. RecordOK(tree.folders, r)
  BY <1>1, <1>2, <1>4, Moved
<1>7. mixed' \subseteq Threads
  BY <1>3 DEF MixUp, Types
<1> QED BY <1>2, <1>3, <1>4, <1>5, <1>6, <1>7, Kept DEF Types

\* The node that is made for a name.
LEMMA MadeFacts ==
  ASSUME Types, NEW t \in Threads, NEW x \in NameTokens, NEW nodes \in {tree.folders, tree.files},
         NEW n, n.in = thread[t].at, n.name = x.text, n.nth = InFront(t, nodes, x)
  PROVE  /\ n.nth = Copies(nodes, n.in, n.name) + 1
         /\ IsNode(n) /\ At(n) \in Addresses
         /\ n.in = <<>> \/ \E d \in tree.folders : At(d) = n.in
<1>1. Copies(nodes, thread[t].at, x.text) \in Nat
  BY CopiesNat DEF Types, Shape, Listing
<1>2. thread[t].at \in Addresses /\ x.text \in Names
  BY DEF Types, RecordOK, AtOK, NameTokens, Tokens
<1>3. IsNode(n)
  BY <1>1, <1>2 DEF IsNode, InFront
<1>4. n.in = <<>> \/ \E d \in tree.folders : At(d) = n.in
  BY DEF Types, RecordOK, AtOK
<1> QED BY <1>3, <1>4, AtFacts DEF InFront

\* What an adder does with an item.
LEMMA AddItemTypes ==
  ASSUME Types, NEW t \in Threads, thread[t].pc \in {"lock", "way"},
         thread[t].pc = "lock" => NoWriter /\ NoReader,
         NEW c, CursorOK(c.cursor), c.token \in NameTokens \cup {NoToken},
         AddItem(t, c), mixed' \subseteq Threads
  PROVE  Types'
<1> DEFINE o == thread[t]
           x == c.token
<1>1. DOMAIN o = Fields /\ AtOK(tree.folders, o)
  BY DEF Types, RecordOK
<1>2. ASSUME NEW pc \in {"done", "error"}, tree.folders \subseteq tree'.folders, Shape(tree'),
             Becomes(t, [thread[t] EXCEPT !.pc = pc]), cursor' = Freed(t, c.cursor)
      PROVE  Types'
  <2> DEFINE r == [thread[t] EXCEPT !.pc = pc]
  <2>1. /\ DOMAIN r = Fields /\ r.pc = pc /\ r.job = o.job /\ r.goal = o.goal
        /\ r.at = o.at /\ r.key = o.key /\ r.terms = o.terms /\ r.todo = o.todo
    BY <1>1 DEF Fields
  <2>2. CursorOK(cursor)'
    BY <1>2, FreedOK
  <2>3. Becomes(t, r)
    BY <1>2
  <2> HIDE DEF r
  <2>4. RecordOK(tree'.folders, r)
    BY <1>1, <1>2, <2>1, Moved DEF AtOK
  <2> QED BY <1>2, <2>1, <2>2, <2>3, <2>4, Kept
<1>3. ASSUME NEW d, At(d) \in Addresses, d \in tree'.folders,
             tree.folders \subseteq tree'.folders, Shape(tree'),
             Becomes(t, [thread[t] EXCEPT !.pc = "way", !.at = At(d)]), cursor' = c.cursor
      PROVE  Types'
  <2> DEFINE r == [thread[t] EXCEPT !.pc = "way", !.at = At(d)]
  <2>1. /\ DOMAIN r = Fields /\ r.pc = "way" /\ r.job = o.job /\ r.goal = o.goal
        /\ r.at = At(d) /\ r.key = o.key /\ r.terms = o.terms /\ r.todo = o.todo
    BY <1>1 DEF Fields
  <2>2. Becomes(t, r)
    BY <1>3
  <2> HIDE DEF r
  <2>3. RecordOK(tree'.folders, r)
    BY <1>3, <2>1, Moved
  <2> QED BY <1>3, <2>1, <2>2, <2>3, Kept
<1>4. CASE x = NoToken
  <2>1. /\ Becomes(t, [thread[t] EXCEPT !.pc = "error"]) /\ cursor' = Freed(t, c.cursor)
        /\ UNCHANGED tree
    BY <1>4 DEF AddItem
  <2> QED BY <1>2, <2>1 DEF Types
<1>5. CASE x # NoToken /\ IsLast(t, x)
  <2>1. x \in NameTokens
    BY <1>5
  <2>2. Becomes(t, [thread[t] EXCEPT !.pc = "done"]) /\ cursor' = Freed(t, c.cursor)
    BY <1>5 DEF AddItem
  <2>3. CASE tree' = [tree EXCEPT !.folders =
                        @ \cup {NewFolder(t, x, Datapath(thread[t].goal))}]
    <3> DEFINE n == NewFolder(t, x, Datapath(thread[t].goal))
    <3>1. /\ n.in = o.at /\ n.nth = Copies(tree.folders, n.in, n.name) + 1 /\ IsNode(n)
          /\ n.in = <<>> \/ \E d \in tree.folders : At(d) = n.in
      BY <2>1, MadeFacts DEF NewFolder
    <3> HIDE DEF n
    <3>2. Shape([tree EXCEPT !.folders = @ \cup {n}])
      BY <3>1, AddedFolder DEF Types
    <3>3. tree' = [tree EXCEPT !.folders = @ \cup {n}]
      BY <2>3 DEF n
    <3>4. Shape(tree') /\ tree.folders \subseteq tree'.folders
      BY <3>2, <3>3, WithFolders DEF Types, Shape
    <3> QED BY <1>2, <2>2, <3>4
  <2>4. CASE tree' = [tree EXCEPT !.files = @ \cup {NewFile(t, x)}]
    <3> DEFINE n == NewFile(t, x)
    <3>1. /\ n.in = o.at /\ n.nth = Copies(tree.files, n.in, n.name) + 1 /\ IsNode(n)
          /\ n.in = <<>> \/ \E d \in tree.folders : At(d) = n.in
      BY <2>1, MadeFacts DEF NewFile
    <3> HIDE DEF n
    <3>2. Shape([tree EXCEPT !.files = @ \cup {n}])
      BY <3>1, AddedFile DEF Types
    <3>3. tree' = [tree EXCEPT !.files = @ \cup {n}]
      BY <2>4 DEF n
    <3>4. Shape(tree') /\ tree.folders \subseteq tree'.folders
      BY <3>2, <3>3, WithFiles DEF Types, Shape
    <3> QED BY <1>2, <2>2, <3>4
  <2> QED BY <1>5, <2>3, <2>4 DEF AddItem
<1>6. CASE x # NoToken /\ ~IsLast(t, x)
  <2>1. x \in NameTokens
    BY <1>6
  <2> DEFINE n == NewFolder(t, x, NoDatapath)
  <2>2. CASE /\ tree' = [tree EXCEPT !.folders = @ \cup {n}] /\ cursor' = c.cursor
             /\ Becomes(t, [thread[t] EXCEPT !.pc = "way", !.at = At(n)])
    <3>1. /\ n.in = o.at /\ n.nth = Copies(tree.folders, n.in, n.name) + 1 /\ IsNode(n)
          /\ At(n) \in Addresses
          /\ n.in = <<>> \/ \E d \in tree.folders : At(d) = n.in
      BY <2>1, MadeFacts DEF NewFolder
    <3> HIDE DEF n
    <3>2. Shape([tree EXCEPT !.folders = @ \cup {n}])
      BY <3>1, AddedFolder DEF Types
    <3>3. Shape(tree') /\ tree.folders \subseteq tree'.folders /\ n \in tree'.folders
      BY <2>2, <3>2, WithFolders DEF Types, Shape
    <3> QED BY <1>3, <2>2, <3>1, <3>3
  <2>3. ASSUME NEW d \in HereIn(tree.folders, t, x), UNCHANGED tree, cursor' = c.cursor,
               Becomes(t, [thread[t] EXCEPT !.pc = "way", !.at = At(d)])
        PROVE  Types'
    <3>1. At(d) \in Addresses /\ d \in tree.folders
      BY HereFacts
    <3> QED BY <1>3, <2>3, <3>1 DEF Types
  <2> QED BY <1>6, <2>2, <2>3 DEF AddItem
<1> QED BY <1>4, <1>5, <1>6

LEMMA WayTypes ==
  ASSUME Types, NEW t \in Threads, EnterWay(t) \/ NextWay(t)
  PROVE  Types'
<1>1. CASE EnterWay(t)
  <2> DEFINE c == [token |-> thread[t].token, cursor |-> cursor]
  <2>1. c.token = thread[t].token /\ c.cursor = cursor
    OBVIOUS
  <2> HIDE DEF c
  <2>2. AddItem(t, c) /\ thread[t].pc = "lock" /\ NoWriter /\ NoReader /\ UNCHANGED mixed
    BY <1>1 DEF EnterWay, c
  <2>3. c.token \in NameTokens
    BY <2>1, <2>2 DEF Types, RecordOK, AtOK
  <2> QED BY <2>1, <2>2, <2>3, AddItemTypes DEF Types
<1>2. CASE NextWay(t)
  <2>1. PICK c \in Following("slash") : AddItem(t, c)
    BY <1>2 DEF NextWay
  <2>2. CursorOK(c.cursor) /\ c.token \in NameTokens \cup {NoToken}
    BY FollowingOK, Constants DEF Types
  <2>3. thread[t].pc = "way" /\ mixed' \subseteq Threads
    BY <1>2 DEF NextWay, MixUp, Types
  <2> QED BY <2>1, <2>2, <2>3, AddItemTypes
<1> QED BY <1>1, <1>2

LEMMA TakeTypes ==
  ASSUME Types, NEW t \in Threads, thread[t].pc \in {"gather", "found"},
         thread[t].job.op = "list", NEW g, NEW datapaths, TakePairs(t, g, datapaths),
         datapaths \cap DOMAIN Query # {} => Len(g) + 1 \in 1..Len(thread[t].job.path)
  PROVE  Types'
<1> DEFINE o == thread[t]
           f == o.job.path
<1>1. /\ DOMAIN o = Fields /\ AtOK(tree.folders, o) /\ TermsOK(o) /\ o.todo \in Seq(Lists)
      /\ f \in Listed
      /\ \A i \in 1..Len(o.todo) : o.todo[i].value # None
  BY DEF Types, RecordOK, TodoOK, JobOK
<1>2. ASSUME NEW d \in datapaths \cap DOMAIN Query, NEW e,
             e = [pairs |-> Query[d].pairs, skipLast |-> TRUE, value |-> f[Len(g) + 1]],
             Becomes(t, [thread[t] EXCEPT !.pc = "gather", !.goal = <<>>, !.at = <<>>,
                                          !.node = {}, !.todo = Append(@, e)])
      PROVE  Types'
  <2> DEFINE r == [thread[t] EXCEPT !.pc = "gather", !.goal = <<>>, !.at = <<>>,
                                    !.node = {}, !.todo = Append(@, e)]
  <2>1. /\ DOMAIN r = Fields /\ r.pc = "gather" /\ r.job = o.job /\ r.at = <<>>
        /\ r.key = o.key /\ r.terms = o.terms /\ r.todo = Append(o.todo, e)
    BY <1>1 DEF Fields
  <2>2. Becomes(t, r)
    BY <1>2
  <2> HIDE DEF r
  <2>3. f[Len(g) + 1] \in Names
    <3>1. f \in Seq(Names)
      BY <1>1, ListingAssumption
    <3> QED BY <1>2, <3>1, ElementOfSeq
  <2>4. e \in Lists /\ e.value # None
    BY <1>2, <2>3, Constants, ListingAssumption DEF Lists
  <2>5. /\ Append(o.todo, e) \in Seq(Lists)
        /\ \A i \in 1..Len(Append(o.todo, e)) : Append(o.todo, e)[i].value # None
    BY <1>1, <2>4, AppendProperties
  <2>6. JobOK(r)
    BY <1>1, <2>1 DEF JobOK
  <2>7. AtOK(tree.folders, r) /\ TermsOK(r)
    BY <1>1, <2>1, EmptySeq DEF AtOK, TermsOK, Addresses
  <2>8. TodoOK(r)
    BY <2>1, <2>5 DEF TodoOK
  <2>9. RecordOK(tree.folders, r)
    BY <2>1, <2>6, <2>7, <2>8 DEF RecordOK, Places
  <2>10. mixed' \subseteq Threads /\ UNCHANGED <<tree, cursor>>
    BY DEF TakePairs, Types
  <2> QED BY <2>1, <2>2, <2>9, <2>10, Kept DEF Types
<1>3. CASE Becomes(t, [thread[t] EXCEPT !.pc = "error"]) /\ UNCHANGED mixed
  <2> DEFINE r == [thread[t] EXCEPT !.pc = "error"]
  <2>1. /\ DOMAIN r = Fields /\ r.pc = "error" /\ r.job = o.job /\ r.goal = o.goal
        /\ r.at = o.at /\ r.key = o.key /\ r.terms = o.terms /\ r.todo = o.todo
    BY <1>1 DEF Fields
  <2>2. Becomes(t, r)
    BY <1>3
  <2> HIDE DEF r
  <2>3. RecordOK(tree.folders, r)
    BY <2>1, Moved
  <2>4. UNCHANGED <<tree, cursor>>
    BY DEF TakePairs
  <2> QED BY <1>3, <2>1, <2>2, <2>3, <2>4, Kept DEF Types
<1> QED BY <1>2, <1>3 DEF TakePairs

LEMMA Fewer ==
  ASSUME NEW a \in Nat, NEW b \in Nat
  PROVE  a - b - 1 \in Int /\ a - b - 1 <= a
  OBVIOUS

\* The folder around that is asked for its pairs.
LEMMA AroundFacts ==
  ASSUME NEW f \in Seq(Names), NEW n \in Int, n <= Len(f)
  PROVE  /\ Len(f) \in Nat /\ SubSeq(f, 1, n) \in Seq(Names)
         /\ n > 0 => Len(SubSeq(f, 1, n)) = n
         /\ n <= 0 => SubSeq(f, 1, n) = <<>> /\ Len(SubSeq(f, 1, n)) = 0
         /\ \A i \in 1..n : SubSeq(f, 1, n)[i] = f[i]
<1>1. Len(f) \in Nat
  BY LenProperties
<1>2. CASE n > 0
  <2>1. n \in 0..Len(f)
    BY <1>1, <1>2
  <2> QED BY <1>1, <1>2, <2>1, AboveFacts
<1>3. CASE n <= 0
  <2>1. SubSeq(f, 1, n) = <<>>
    BY <1>1, <1>3
  <2> QED BY <1>1, <1>3, <2>1, EmptySeq
<1> QED BY <1>2, <1>3

LEMMA GatherTypes ==
  ASSUME Types, NEW t \in Threads, Gather(t)
  PROVE  Types'
<1> DEFINE o == thread[t]
           f == o.job.path
           n == Len(f) - Len(o.todo) - 1
           g == SubSeq(f, 1, n)
<1>1. /\ DOMAIN o = Fields /\ AtOK(tree.folders, o) /\ TermsOK(o) /\ TodoOK(o) /\ JobOK(o)
      /\ o.todo \in Seq(Lists) /\ o.pc = "gather" /\ o.job.op = "list" /\ f \in Listed
  BY DEF Types, RecordOK, TodoOK, JobOK, Gather
<1>2. f \in Seq(Names) /\ <<>> \notin DOMAIN Query /\ Len(o.todo) \in Nat
  BY <1>1, ListingAssumption, LenProperties
<1>3. Len(f) \in Nat /\ n \in Int /\ n <= Len(f)
  <2>1. Len(f) \in Nat
    BY <1>2, LenProperties
  <2>2. Len(o.todo) \in Nat
    BY <1>2
  <2> HIDE DEF o, f
  <2> QED BY <2>1, <2>2, Fewer
<1> HIDE DEF n
<1>6. /\ g \in Seq(Names)
      /\ n > 0 => Len(g) = n
      /\ n <= 0 => g = <<>> /\ Len(g) = 0
  BY <1>2, <1>3, AroundFacts
<1>4. CASE Len(g) <= 1 /\ TakePairs(t, g, {g})
  <2> HIDE DEF g
  <2>1. {g} \cap DOMAIN Query # {} => Len(g) + 1 \in 1..Len(f)
    <3>1. {g} \cap DOMAIN Query # {} => n = 1
      BY <1>2, <1>3, <1>4, <1>6
    <3> QED BY <1>2, <1>3, <1>4, <1>6, <3>1 DEF n
  <2> QED BY <1>1, <1>4, <2>1, TakeTypes
<1>5. CASE /\ Len(g) > 1
           /\ Becomes(t, [thread[t] EXCEPT !.pc = "find", !.goal = g])
           /\ UNCHANGED <<tree, cursor, mixed>>
  <2> DEFINE r == [thread[t] EXCEPT !.pc = "find", !.goal = g]
  <2>1. /\ DOMAIN r = Fields /\ r.pc = "find" /\ r.job = o.job /\ r.goal = g
        /\ r.at = o.at /\ r.key = o.key /\ r.terms = o.terms /\ r.todo = o.todo
    BY <1>1 DEF Fields
  <2>2. Becomes(t, r)
    BY <1>5
  <2> HIDE DEF r
  <2> HIDE DEF g
  <2>3. g \in Seq(Names) \ {<<>>}
    BY <1>5, <1>6, EmptySeq
  <2>4. n > 1
    BY <1>3, <1>5, <1>6
  <2>5. JobOK(r)
    BY <1>1, <2>1, <2>3 DEF JobOK
  <2>6. AtOK(tree.folders, r) /\ TermsOK(r)
    BY <1>1, <2>1 DEF AtOK, TermsOK
  <2>7. TodoOK(r)
    BY <1>1, <2>1, <2>4 DEF TodoOK, g, n
  <2>8. RecordOK(tree.folders, r)
    BY <2>1, <2>5, <2>6, <2>7 DEF RecordOK, Places
  <2> QED BY <1>5, <2>1, <2>2, <2>8, Kept DEF Types
<1> QED BY <1>4, <1>5 DEF Gather, n

LEMMA FoundAroundTypes ==
  ASSUME Types, NEW t \in Threads, FoundAround(t)
  PROVE  Types'
<1> DEFINE o == thread[t]
           f == o.job.path
<1>1. /\ o.pc = "found" /\ o.job.op = "list" /\ f \in Listed /\ o.todo \in Seq(Lists)
      /\ Len(f) - Len(o.todo) - 1 > 1
      /\ o.goal = SubSeq(f, 1, Len(f) - Len(o.todo) - 1)
  BY DEF Types, RecordOK, TodoOK, JobOK, FoundAround
<1>2. f \in Seq(Names) /\ Len(o.todo) \in Nat
  BY <1>1, ListingAssumption, LenProperties
<1>3. Len(f) \in Nat /\ Len(o.goal) = Len(f) - Len(o.todo) - 1
  <2> DEFINE n == Len(f) - Len(o.todo) - 1
  <2>1. Len(f) \in Nat
    BY <1>2, LenProperties
  <2>2. n > 1 /\ o.goal = SubSeq(f, 1, n)
    BY <1>1
  <2>5. Len(o.todo) \in Nat
    BY <1>2
  <2> HIDE DEF o, f
  <2>3. n \in Int /\ n <= Len(f)
    BY <2>1, <2>5, Fewer
  <2> HIDE DEF n
  <2>4. Len(o.goal) = n
    BY <1>2, <2>2, <2>3, AroundFacts
  <2> QED BY <2>1, <2>4 DEF n
<1>4. Len(o.goal) + 1 \in 1..Len(f)
  <2> HIDE DEF o, f
  <2> QED BY <1>1, <1>2, <1>3
<1>5. TakePairs(t, o.goal, {d.datapath : d \in o.node \cap tree.folders})
  BY DEF FoundAround
<1> QED BY <1>1, <1>4, <1>5, TakeTypes

LEMMA GatheredTypes ==
  ASSUME Types, NEW t \in Threads, Gathered(t)
  PROVE  Types'
<1> DEFINE o == thread[t]
           q == QueryOf(o.job.path)
           e == [pairs |-> q.pairs, skipLast |-> q.folders, value |-> None]
<1>1. /\ DOMAIN o = Fields /\ AtOK(tree.folders, o) /\ TermsOK(o) /\ JobOK(o)
      /\ o.todo \in Seq(Lists) /\ o.pc = "gather" /\ o.job.op = "list" /\ o.job.path \in Listed
      /\ \A i \in 1..Len(o.todo) : o.todo[i].value # None
  BY DEF Types, RecordOK, TodoOK, JobOK, Gathered
<1>2. q.pairs \in Seq(Items) /\ q.folders \in BOOLEAN
  BY <1>1, ListingAssumption DEF QueryOf, HasQuery
<1>3. e \in Lists /\ e.value = None
  BY <1>2 DEF Lists
<1>4. Becomes(t, [thread[t] EXCEPT !.pc = "parse", !.todo = Append(@, e)])
  BY DEF Gathered
<1> HIDE DEF e
<1> DEFINE r == [thread[t] EXCEPT !.pc = "parse", !.todo = Append(@, e)]
<1>5. /\ DOMAIN r = Fields /\ r.pc = "parse" /\ r.job = o.job
      /\ r.at = o.at /\ r.key = o.key /\ r.terms = o.terms /\ r.todo = Append(o.todo, e)
  BY <1>1 DEF Fields
<1>6. Becomes(t, r)
  BY <1>4
<1> HIDE DEF r
<1>7. /\ Append(o.todo, e) \in Seq(Lists) /\ Len(Append(o.todo, e)) = Len(o.todo) + 1
      /\ Len(o.todo) \in Nat
      /\ \A i \in 1..Len(o.todo) : Append(o.todo, e)[i] = o.todo[i]
      /\ Append(o.todo, e)[Len(o.todo) + 1] = e
  BY <1>1, <1>3, AppendProperties, LenProperties
<1>8. /\ Append(o.todo, e) # <<>>
      /\ \A i \in 1..Len(Append(o.todo, e)) :
           Append(o.todo, e)[i].value = None <=> i = Len(Append(o.todo, e))
  BY <1>1, <1>3, <1>7, EmptySeq
<1>9. JobOK(r)
  BY <1>1, <1>5 DEF JobOK
<1>10. AtOK(tree.folders, r) /\ TermsOK(r)
  BY <1>1, <1>5 DEF AtOK, TermsOK
<1>11. TodoOK(r)
  BY <1>5, <1>7, <1>8 DEF TodoOK
<1>12. RecordOK(tree.folders, r)
  BY <1>5, <1>9, <1>10, <1>11 DEF RecordOK, Places
<1>13. UNCHANGED <<tree, cursor, mixed>>
  BY DEF Gathered
<1> QED BY <1>5, <1>6, <1>12, <1>13, Kept DEF Types

LEMMA ParseTypes ==
  ASSUME Types, NEW t \in Threads, thread[t].pc \in {"parse", "pairs"},
         NEW c, CursorOK(c.cursor), c.token \in {NoToken, ForeignToken} \cup ItemTokens,
         Parse(t, c), UNCHANGED tree, mixed' \subseteq Threads
  PROVE  Types'
<1> DEFINE o == thread[t]
           x == c.token
           key == o.key
<1>1. /\ DOMAIN o = Fields /\ AtOK(tree.folders, o) /\ TermsOK(o) /\ TodoOK(o) /\ JobOK(o)
  BY DEF Types, RecordOK
<1>2. ASSUME NEW pc \in {"parsed", "pairs", "error"}, NEW newKey \in Keys \cup {None},
             NEW term, \A y \in term : y.key \in Keys,
             Becomes(t, [thread[t] EXCEPT !.pc = pc, !.key = newKey, !.terms = @ \cup term]),
             cursor' = c.cursor \/ cursor' = Freed(t, c.cursor)
      PROVE  Types'
  <2> DEFINE r == [thread[t] EXCEPT !.pc = pc, !.key = newKey, !.terms = @ \cup term]
  <2>1. /\ DOMAIN r = Fields /\ r.pc = pc /\ r.job = o.job /\ r.goal = o.goal /\ r.at = o.at
        /\ r.key = newKey /\ r.terms = o.terms \cup term /\ r.todo = o.todo
    BY <1>1 DEF Fields
  <2>2. Becomes(t, r)
    BY <1>2
  <2> HIDE DEF r
  <2>3. JobOK(r)
    BY <1>1, <2>1 DEF JobOK
  <2>4. AtOK(tree.folders, r)
    BY <1>1, <2>1 DEF AtOK
  <2>5. TermsOK(r)
    BY <1>1, <1>2, <2>1 DEF TermsOK
  <2>6. TodoOK(r)
    BY <1>1, <2>1 DEF TodoOK
  <2>7. RecordOK(tree.folders, r)
    BY <2>1, <2>3, <2>4, <2>5, <2>6 DEF RecordOK, Places
  <2>8. CursorOK(cursor)'
    BY <1>2, FreedOK
  <2> QED BY <2>1, <2>2, <2>7, <2>8, Kept DEF Types
<1>3. key \in Keys \cup {None} /\ None \notin Keys
  BY <1>1, Constants DEF TermsOK
<1>4. \A k : KeyTerm(k).key = k /\ \A v : PairTerm(k, v).key = k
  BY DEF KeyTerm, PairTerm, Term
<1> HIDE DEF x, key
<1>5. CASE /\ Becomes(t, [thread[t] EXCEPT !.pc = "parsed", !.key = None,
                            !.terms = @ \cup {KeyTerm(k) : k \in {key} \ (LeftOut(t) \cup {None})}])
           /\ cursor' = Freed(t, c.cursor)
  <2> DEFINE term == {KeyTerm(k) : k \in {key} \ (LeftOut(t) \cup {None})}
  <2>1. \A y \in term : y.key \in Keys
    BY <1>3, <1>4
  <2>2. Becomes(t, [thread[t] EXCEPT !.pc = "parsed", !.key = None, !.terms = @ \cup term])
    BY <1>5
  <2> HIDE DEF term
  <2> QED BY <1>2, <1>5, <2>1, <2>2
<1>6. CASE /\ x.tag = "k" /\ cursor' = c.cursor
           /\ Becomes(t, [thread[t] EXCEPT !.pc = "pairs", !.key = x.text,
                            !.terms = @ \cup {KeyTerm(k) : k \in {key} \ {None}}])
  <2> DEFINE term == {KeyTerm(k) : k \in {key} \ {None}}
  <2>1. \A y \in term : y.key \in Keys
    BY <1>3, <1>4
  <2>2. x.text \in Keys
    BY <1>6 DEF x, ItemTokens, Tokens, NoToken, ForeignToken, Token
  <2>3. Becomes(t, [thread[t] EXCEPT !.pc = "pairs", !.key = x.text, !.terms = @ \cup term])
    BY <1>6
  <2> HIDE DEF term
  <2> QED BY <1>2, <1>6, <2>1, <2>2, <2>3
<1>7. CASE /\ key # None /\ cursor' = c.cursor
           /\ Becomes(t, [thread[t] EXCEPT !.pc = "pairs", !.key = None,
                            !.terms = @ \cup {PairTerm(key, x.text)}])
  <2> DEFINE term == {PairTerm(key, x.text)}
  <2>1. \A y \in term : y.key \in Keys
    BY <1>3, <1>4, <1>7
  <2>2. Becomes(t, [thread[t] EXCEPT !.pc = "pairs", !.key = None, !.terms = @ \cup term])
    BY <1>7
  <2> HIDE DEF term
  <2> QED BY <1>2, <1>7, <2>1, <2>2
<1>8. CASE /\ Becomes(t, [thread[t] EXCEPT !.pc = "error", !.key = None, !.terms = @ \cup {}])
           /\ cursor' = Freed(t, c.cursor)
  <2> DEFINE term == {}
  <2>1. \A y \in term : y.key \in Keys
    OBVIOUS
  <2>2. Becomes(t, [thread[t] EXCEPT !.pc = "error", !.key = None, !.terms = @ \cup term])
    BY <1>8
  <2> HIDE DEF term
  <2> QED BY <1>2, <1>8, <2>1, <2>2
<1> QED BY <1>5, <1>6, <1>7, <1>8 DEF Parse, x, key

\* The list that is parsed.
LEMMA HeadFacts ==
  ASSUME Types, NEW t \in Threads, thread[t].pc \in {"parse", "pairs", "parsed"}
  PROVE  /\ thread[t].todo \in Seq(Lists) /\ thread[t].todo # <<>>
         /\ Len(thread[t].todo) \in Nat \ {0}
         /\ Head(thread[t].todo) = thread[t].todo[1]
         /\ Head(thread[t].todo) \in Lists
         /\ Head(thread[t].todo).value = None <=> Len(thread[t].todo) = 1
<1>1. /\ thread[t].todo \in Seq(Lists) /\ thread[t].todo # <<>>
      /\ \A i \in 1..Len(thread[t].todo) :
           thread[t].todo[i].value = None <=> i = Len(thread[t].todo)
  BY DEF Types, RecordOK, TodoOK
<1> DEFINE todo == thread[t].todo
           n == Len(todo)
<1>2. n \in Nat \ {0} /\ Head(todo) = todo[1] /\ Head(todo) \in Lists
  BY <1>1, SequenceParts
<1>3. \A i \in 1..n : todo[i].value = None <=> i = n
  BY <1>1
<1> HIDE DEF todo, n
<1>4. todo[1].value = None <=> n = 1
  BY <1>2, <1>3
<1> QED BY <1>1, <1>2, <1>4 DEF todo, n

LEMMA ParsingTypes ==
  ASSUME Types, NEW t \in Threads, StartParse(t) \/ NextParse(t)
  PROVE  Types'
<1> DEFINE o == thread[t]
           pairs == Head(o.todo).pairs
<1>1. MixUp(t) => mixed' \subseteq Threads
  BY DEF MixUp, Types
<1>2. CASE StartParse(t)
  <2>1. o.pc = "parse" /\ UNCHANGED tree
    BY <1>2 DEF StartParse
  <2>2. pairs \in Seq(Items)
    BY <2>1, HeadFacts DEF Lists
  <2>3. CASE /\ Becomes(t, [thread[t] EXCEPT !.pc = "parsed"])
             /\ UNCHANGED <<cursor, mixed>>
    <3>1. DOMAIN o = Fields /\ RecordOK(tree.folders, o)
      BY DEF Types, RecordOK
    <3> DEFINE r == [thread[t] EXCEPT !.pc = "parsed"]
    <3>2. /\ DOMAIN r = Fields /\ r.pc = "parsed" /\ r.job = o.job /\ r.goal = o.goal
          /\ r.at = o.at /\ r.key = o.key /\ r.terms = o.terms /\ r.todo = o.todo
      BY <3>1 DEF Fields
    <3>3. Becomes(t, r)
      BY <2>3
    <3> HIDE DEF r
    <3>4. JobOK(r) /\ AtOK(tree.folders, r)
      BY <2>1, <3>1, <3>2 DEF RecordOK, JobOK, AtOK
    <3>5. TermsOK(r) /\ TodoOK(r)
      BY <2>1, <3>1, <3>2 DEF RecordOK, TermsOK, TodoOK
    <3>6. RecordOK(tree.folders, r)
      BY <3>2, <3>4, <3>5 DEF RecordOK, Places
    <3> QED BY <2>1, <2>3, <3>2, <3>3, <3>6, Kept DEF Types
  <2>4. CASE /\ pairs # <<>> /\ MixUp(t)
             /\ Parse(t, First(t, PairTokens(t, pairs), "semicolon"))
    <3> DEFINE c == First(t, PairTokens(t, pairs), "semicolon")
    <3>1. CursorOK(c.cursor) /\ c.token \in ItemTokens
      BY <2>2, <2>4, FirstItem
    <3>2. Parse(t, c)
      BY <2>4
    <3> HIDE DEF c
    <3> QED BY <1>1, <2>1, <2>4, <3>1, <3>2, ParseTypes
  <2> QED BY <1>2, <2>3, <2>4 DEF StartParse
<1>3. CASE NextParse(t)
  <2>1. PICK c \in Following("semicolon") : Parse(t, c)
    BY <1>3 DEF NextParse
  <2>2. CursorOK(c.cursor) /\ c.token \in {NoToken, ForeignToken} \cup ItemTokens
    BY FollowingOK DEF Types
  <2>3. o.pc = "pairs" /\ MixUp(t) /\ UNCHANGED tree
    BY <1>3 DEF NextParse
  <2> QED BY <1>1, <2>1, <2>2, <2>3, ParseTypes
<1> QED BY <1>2, <1>3

LEMMA ListedKeyFacts ==
  ASSUME NEW pairs \in Seq(Items), ListedKey(pairs) # {}
  PROVE  /\ ListedKey(pairs) = {Len(pairs)} /\ Len(pairs) \in Nat \ {0}
         /\ Last(pairs) = pairs[Len(pairs)] /\ pairs[Len(pairs)].tag = "k"
         /\ pairs[Len(pairs)].text \in Keys
<1>1. pairs # <<>> /\ Last(pairs).tag = "k" /\ ListedKey(pairs) = {Len(pairs)}
  BY DEF ListedKey
<1>2. Len(pairs) \in Nat \ {0} /\ pairs[Len(pairs)] \in Items
  BY <1>1, LenProperties, EmptySeq, ElementOfSeq
<1>3. Last(pairs) = pairs[Len(pairs)]
  BY DEF Last
<1> QED BY <1>1, <1>2, <1>3 DEF Items

LEMMA ParsedTypes ==
  ASSUME Types, NEW t \in Threads, Parsed(t)
  PROVE  Types'
<1> DEFINE o == thread[t]
           x == Head(o.todo)
<1>1. /\ DOMAIN o = Fields /\ AtOK(tree.folders, o) /\ TermsOK(o) /\ TodoOK(o) /\ JobOK(o)
      /\ o.pc = "parsed" /\ o.job.op = "list" /\ UNCHANGED <<tree, cursor, mixed>>
  BY DEF Types, RecordOK, Parsed, JobOK
<1>2. /\ o.todo \in Seq(Lists) /\ o.todo # <<>> /\ x \in Lists
      /\ x.value = None <=> Len(o.todo) = 1
  BY <1>1, HeadFacts
<1>3. /\ Tail(o.todo) \in Seq(Lists) /\ Len(Tail(o.todo)) = Len(o.todo) - 1
      /\ Len(o.todo) \in Nat \ {0}
      /\ \A i \in 1..Len(Tail(o.todo)) : Tail(o.todo)[i] = o.todo[i + 1]
  BY <1>2, SequenceParts
<1>4. ASSUME NEW pc \in {"parse", "query", "error"}, NEW terms, \A y \in terms : y.key \in Keys,
             pc = "parse" => Len(o.todo) # 1,
             Becomes(t, [thread[t] EXCEPT !.pc = pc, !.terms = @ \cup terms, !.todo = Tail(@)])
      PROVE  Types'
  <2> DEFINE r == [thread[t] EXCEPT !.pc = pc, !.terms = @ \cup terms, !.todo = Tail(@)]
  <2>1. /\ DOMAIN r = Fields /\ r.pc = pc /\ r.job = o.job /\ r.goal = o.goal /\ r.at = o.at
        /\ r.key = o.key /\ r.terms = o.terms \cup terms /\ r.todo = Tail(o.todo)
    BY <1>1 DEF Fields
  <2>2. Becomes(t, r)
    BY <1>4
  <2> HIDE DEF r
  <2>3. JobOK(r)
    BY <1>1, <2>1 DEF JobOK
  <2>4. AtOK(tree.folders, r)
    BY <1>1, <2>1 DEF AtOK
  <2>5. TermsOK(r)
    BY <1>1, <1>4, <2>1 DEF TermsOK
  <2>6. TodoOK(r)
    <3>1. CASE pc = "parse"
      <4>1. Tail(o.todo) # <<>>
        <5> DEFINE n == Len(o.todo)
                   m == Len(Tail(o.todo))
        <5>1. m = n - 1 /\ n \in Nat /\ n # 1
          BY <1>3, <1>4, <3>1
        <5> HIDE DEF m, n
        <5>2. m # 0
          BY <5>1
        <5> QED BY <5>2, EmptySeq DEF m
      <4>2. \A i \in 1..Len(o.todo) : o.todo[i].value = None <=> i = Len(o.todo)
        BY <1>1 DEF TodoOK
      <4> DEFINE rest == Tail(o.todo)
                 n == Len(o.todo)
      <4>3. \A i \in 1..Len(rest) : rest[i].value = None <=> i = Len(rest)
        <5> SUFFICES ASSUME NEW i \in 1..Len(rest) PROVE rest[i].value = None <=> i = Len(rest)
          OBVIOUS
        <5>1. rest[i] = o.todo[i + 1] /\ Len(rest) = n - 1 /\ n \in Nat
          BY <1>3
        <5> HIDE DEF rest
        <5>2. i + 1 \in 1..n /\ (i = Len(rest) <=> i + 1 = n)
          BY <5>1
        <5>3. o.todo[i + 1].value = None <=> i + 1 = n
          BY <4>2, <5>2
        <5> QED BY <5>1, <5>2, <5>3
      <4> QED BY <1>3, <2>1, <3>1, <4>1, <4>3 DEF TodoOK
    <3>2. CASE pc # "parse"
      BY <1>3, <2>1, <3>2 DEF TodoOK
    <3> QED BY <3>1, <3>2
  <2>7. RecordOK(tree.folders, r)
    BY <2>1, <2>3, <2>4, <2>5, <2>6 DEF RecordOK, Places
  <2> QED BY <1>1, <2>1, <2>2, <2>7, Kept DEF Types
<1>5. CASE /\ x.value # None /\ ListedKey(x.pairs) # {}
           /\ Becomes(t, [thread[t] EXCEPT
                !.pc = "parse", !.terms = @ \cup {PairTerm(Last(x.pairs).text, x.value)},
                !.todo = Tail(@)])
  <2> DEFINE terms == {PairTerm(Last(x.pairs).text, x.value)}
  <2>1. x.pairs \in Seq(Items)
    BY <1>2 DEF Lists
  <2>2. Last(x.pairs).text \in Keys
    BY <1>5, <2>1, ListedKeyFacts
  <2>3. \A y \in terms : y.key \in Keys
    BY <2>2 DEF PairTerm, Term
  <2>4. Becomes(t, [thread[t] EXCEPT !.pc = "parse", !.terms = @ \cup terms, !.todo = Tail(@)])
    BY <1>5
  <2> HIDE DEF terms
  <2> QED BY <1>2, <1>4, <1>5, <2>3, <2>4
<1>6. CASE Becomes(t, [thread[t] EXCEPT !.pc = "query", !.terms = @ \cup {}, !.todo = Tail(@)])
  <2> DEFINE terms == {}
  <2>1. \A y \in terms : y.key \in Keys
    OBVIOUS
  <2>2. Becomes(t, [thread[t] EXCEPT !.pc = "query", !.terms = @ \cup terms, !.todo = Tail(@)])
    BY <1>6
  <2> HIDE DEF terms
  <2> QED BY <1>4, <2>1, <2>2
<1>7. CASE Becomes(t, [thread[t] EXCEPT !.pc = "error", !.terms = @ \cup {}, !.todo = Tail(@)])
  <2> DEFINE terms == {}
  <2>1. \A y \in terms : y.key \in Keys
    OBVIOUS
  <2>2. Becomes(t, [thread[t] EXCEPT !.pc = "error", !.terms = @ \cup terms, !.todo = Tail(@)])
    BY <1>7
  <2> HIDE DEF terms
  <2> QED BY <1>4, <2>1, <2>2
<1> QED BY <1>5, <1>6, <1>7 DEF Parsed

-------------------------------------------------------------------------------
(* Whatever strtok mixes up, the tree stays in shape and path_lock admits one *)
(* writer or readers.                                                         *)

\* The folders around one that is known are.
LEMMA KnownAbove ==
  ASSUME NEW f \in Known, NEW i \in 1..Len(f)
  PROVE  SubSeq(f, 1, i) \in Known
<1>1. /\ f \in Seq(Names) /\ Len(f) \in Nat
      /\ \A g \in Known : g \in Seq(Names) /\ (Len(g) > 1 => Front(g) \in Known)
  BY ListingAssumption, LenProperties
<1> DEFINE n == Len(f)
           missing == {k \in 0..(n - 1) : SubSeq(f, 1, n - k) \notin Known}
<1>2. SUFFICES ASSUME missing # {} PROVE FALSE
  <2>1. n - i \in 0..(n - 1) /\ n - (n - i) = i
    BY <1>1
  <2> QED BY <2>1
<1>3. PICK k \in missing : \A j \in missing : k <= j
  <2>1. missing \in SUBSET Nat
    OBVIOUS
  <2> HIDE DEF missing
  <2> QED BY <1>2, <2>1, Least
<1> HIDE DEF n
<1>4. k \in 0..(n - 1) /\ n \in Nat /\ SubSeq(f, 1, n - k) \notin Known
  BY <1>1, <1>3 DEF n
<1>5. k # 0
  <2>1. SubSeq(f, 1, n) = f
    BY <1>1, SubSeqFull DEF n
  <2>2. n - 0 = n
    BY <1>4
  <2> QED BY <1>4, <2>1, <2>2
<1> DEFINE g == SubSeq(f, 1, n - (k - 1))
<1>6. k - 1 \in 0..(n - 1) /\ k - 1 \notin missing
  <2>1. k - 1 \in 0..(n - 1) /\ ~(k <= k - 1)
    BY <1>4, <1>5
  <2> HIDE DEF missing
  <2> QED BY <1>3, <2>1
<1>7. g \in Known
  BY <1>6
<1>8. /\ n - (k - 1) \in 0..n /\ n - k \in 0..n /\ n - (k - 1) > 1
      /\ (n - (k - 1)) - 1 = n - k /\ n - k \in 0..(n - (k - 1))
  BY <1>4, <1>5
<1>9. Len(g) = n - (k - 1) /\ \A j \in 1..(n - (k - 1)) : g[j] = f[j]
  BY <1>1, <1>8, AboveFacts DEF n
<1> HIDE DEF g
<1>10. Front(g) \in Known /\ Front(g) = SubSeq(g, 1, n - k) /\ g \in Seq(Names)
  BY <1>1, <1>7, <1>8, <1>9 DEF Front
<1>11. /\ SubSeq(g, 1, n - k) \in Seq(Names) /\ Len(SubSeq(g, 1, n - k)) = n - k
       /\ \A j \in 1..(n - k) : SubSeq(g, 1, n - k)[j] = g[j]
  BY <1>8, <1>9, <1>10, AboveFacts
<1>12. /\ SubSeq(f, 1, n - k) \in Seq(Names) /\ Len(SubSeq(f, 1, n - k)) = n - k
       /\ \A j \in 1..(n - k) : SubSeq(f, 1, n - k)[j] = f[j]
  BY <1>1, <1>8, AboveFacts DEF n
<1>13. \A j \in 1..(n - k) : SubSeq(g, 1, n - k)[j] = SubSeq(f, 1, n - k)[j]
  BY <1>8, <1>9, <1>11, <1>12
<1>14. SubSeq(g, 1, n - k) = SubSeq(f, 1, n - k)
  BY <1>11, <1>12, <1>13, SeqEqual
<1> QED BY <1>4, <1>10, <1>14

\* The tree at first: each folder once, below the one around.
LEMMA FirstTree ==
  ASSUME Init
  PROVE  Shape(tree)
<1> DEFINE node(f) == [in |-> [i \in 1..(Len(f) - 1) |-> <<f[i], 1>>], name |-> Last(f),
                       nth |-> 1, datapath |-> Datapath(f)]
           nodes == {node(f) : f \in Known}
<1>1. tree = [folders |-> nodes, files |-> {}]
  BY DEF Init
<1>2. ASSUME NEW f \in Known
      PROVE  /\ f \in Seq(Names) /\ Len(f) \in Nat \ {0} /\ Last(f) = f[Len(f)]
             /\ \A i \in 1..Len(f) : f[i] \in Names
             /\ Len(f) > 1 => Front(f) \in Known
  <2>1. f \in Seq(Names) /\ f # <<>> /\ (Len(f) > 1 => Front(f) \in Known)
    BY ListingAssumption
  <2>2. Len(f) \in Nat \ {0} /\ \A i \in 1..Len(f) : f[i] \in Names
    BY <2>1, LenProperties, EmptySeq
  <2> QED BY <2>1, <2>2 DEF Last
<1>3. ASSUME NEW f \in Known
      PROVE  /\ node(f).in \in Addresses /\ Len(node(f).in) = Len(f) - 1
             /\ \A i \in 1..(Len(f) - 1) : node(f).in[i] = <<f[i], 1>>
             /\ node(f).name = f[Len(f)] /\ node(f).nth = 1 /\ IsNode(node(f))
  <2> DEFINE above == [i \in 1..(Len(f) - 1) |-> <<f[i], 1>>]
  <2>1. Len(f) - 1 \in Nat
    BY <1>2
  <2>2. \A i \in 1..(Len(f) - 1) : f[i] \in Names
    BY <1>2
  <2>3. above \in [1..(Len(f) - 1) -> Names \X Nat]
    BY <2>2
  <2>4. above \in Addresses
    BY <2>1, <2>3, SeqDef DEF Addresses
  <2>5. DOMAIN above = 1..(Len(f) - 1)
    OBVIOUS
  <2>6. \A i \in 1..(Len(f) - 1) : above[i] = <<f[i], 1>>
    OBVIOUS
  <2> HIDE DEF above
  <2>7. Len(above) = Len(f) - 1
    <3>1. DOMAIN above = 1..Len(above) /\ Len(above) \in Nat
      BY <2>4, LenProperties DEF Addresses
    <3> QED BY <2>1, <2>5, <3>1
  <2>8. node(f).in = above /\ node(f).name = f[Len(f)] /\ node(f).nth = 1
    BY <1>2 DEF above
  <2>9. f[Len(f)] \in Names
    BY <1>2
  <2> HIDE DEF node
  <2>10. IsNode(node(f))
    BY <2>4, <2>8, <2>9 DEF IsNode
  <2> QED BY <2>4, <2>6, <2>7, <2>8, <2>10
<1>4. ASSUME NEW f \in Known, NEW g \in Known, node(f).in = node(g).in, node(f).name = node(g).name
      PROVE  f = g
  <2> HIDE DEF node
  <2>1. Len(f) - 1 = Len(g) - 1
    BY <1>3, <1>4
  <2>2. Len(f) = Len(g)
    BY <1>2, <2>1
  <2>3. \A i \in 1..(Len(f) - 1) : <<f[i], 1>> = <<g[i], 1>>
    BY <1>3, <1>4, <2>2
  <2>4. \A i \in 1..(Len(f) - 1) : f[i] = g[i]
    BY <2>3
  <2>5. f[Len(f)] = g[Len(f)]
    BY <1>3, <1>4, <2>2
  <2>6. \A i \in 1..Len(f) : f[i] = g[i]
    BY <1>2, <2>4, <2>5
  <2> QED BY <1>2, <2>2, <2>6, SeqEqual
<1>5. IsFiniteSet(nodes)
  <2>1. IsFiniteSet(Known)
    BY ListingAssumption
  <2> DEFINE made == [f \in Known |-> node(f)]
  <2>2. made \in Surjection(Known, nodes)
    BY DEF Surjection
  <2> HIDE DEF made, nodes
  <2> QED BY <2>1, <2>2, FS_Surjection
<1>6. ASSUME NEW f \in Known PROVE Copies(nodes, node(f).in, node(f).name) = 1
  <2>1. {n \in nodes : n.in = node(f).in /\ n.name = node(f).name} = {node(f)}
    BY <1>4
  <2> HIDE DEF node, nodes
  <2> QED BY <2>1, FS_Singleton DEF Copies
<1>7. Numbered(nodes)
  <2>1. \A n \in nodes : n.nth = 1 /\ Copies(nodes, n.in, n.name) = 1
    BY <1>6
  <2>2. \A m, n \in nodes : m.in = n.in /\ m.name = n.name => m = n
    BY <1>4
  <2> HIDE DEF nodes
  <2>3. \A n \in nodes : n.nth <= Copies(nodes, n.in, n.name)
    BY <2>1
  <2>4. \A n \in nodes : \A i \in 1..Copies(nodes, n.in, n.name) :
          n \in nodes /\ n.in = n.in /\ n.name = n.name /\ n.nth = i
    BY <2>1
  <2> QED BY <2>2, <2>3, <2>4 DEF Numbered
<1>8. Hung(nodes, nodes)
  <2>1. SUFFICES ASSUME NEW f \in Known, NEW i \in 1..(Len(f) - 1)
                 PROVE  \E d \in nodes : At(d) = SubSeq(node(f).in, 1, i)
    BY <1>3 DEF Hung
  <2> DEFINE g == SubSeq(f, 1, i)
             a == At(node(g))
             b == SubSeq(node(f).in, 1, i)
  <2>2. Len(f) \in Nat /\ i \in 1..Len(f) /\ i \in 0..Len(f) /\ i \in 0..(Len(f) - 1)
    BY <1>2
  <2>3. g \in Known
    BY <2>2, KnownAbove
  <2>4. Len(g) = i /\ \A j \in 1..i : g[j] = f[j]
    BY <1>2, <2>2, AboveFacts
  <2> HIDE DEF node
  <2>5. /\ b \in Addresses /\ Len(b) = i
        /\ \A j \in 1..i : b[j] = node(f).in[j]
    BY <1>3, <2>2, AboveFacts DEF Addresses
  <2> HIDE DEF g, b
  <2>6. \A j \in 1..i : b[j] = <<f[j], 1>>
    BY <1>3, <2>5
  <2>7. /\ node(g).in \in Addresses /\ Len(node(g).in) = i - 1
        /\ \A j \in 1..(i - 1) : node(g).in[j] = <<g[j], 1>>
        /\ node(g).name = g[i] /\ node(g).nth = 1 /\ IsNode(node(g))
    BY <1>3, <2>3, <2>4
  <2>8. /\ a \in Addresses /\ Len(a) = i
        /\ \A j \in 1..(i - 1) : a[j] = <<g[j], 1>>
        /\ a[i] = <<g[i], 1>>
    <3> DEFINE m == node(g)
    <3>1. /\ IsNode(m) /\ Len(m.in) = i - 1 /\ m.name = g[i] /\ m.nth = 1
          /\ \A j \in 1..(i - 1) : m.in[j] = <<g[j], 1>>
      BY <2>7
    <3> HIDE DEF m
    <3>2. /\ At(m) \in Addresses /\ Len(At(m)) = Len(m.in) + 1
          /\ \A j \in 1..Len(m.in) : At(m)[j] = m.in[j]
          /\ At(m)[Len(m.in) + 1] = <<m.name, m.nth>>
      BY <3>1, AtFacts
    <3>3. (i - 1) + 1 = i
      BY <2>2
    <3>4. Len(At(m)) = i /\ At(m)[i] = <<g[i], 1>>
      BY <3>1, <3>2, <3>3
    <3>5. \A j \in 1..(i - 1) : At(m)[j] = <<g[j], 1>>
      BY <3>1, <3>2
    <3> QED BY <3>2, <3>4, <3>5 DEF m
  <2> HIDE DEF a
  <2>9. \A j \in 1..i : a[j] = b[j]
    BY <2>4, <2>6, <2>8
  <2>10. a = b
    BY <2>5, <2>8, <2>9, SeqEqual DEF Addresses
  <2> QED BY <2>3, <2>10 DEF a, b
<1>9. Listing(nodes, nodes)
  <2>1. \A n \in nodes : IsNode(n)
    BY <1>3
  <2> QED BY <1>5, <1>7, <1>8, <2>1 DEF Listing
<1>10. Listing({}, nodes)
  BY FS_EmptySet DEF Listing, Numbered, Hung
<1> HIDE DEF nodes
<1>11. tree.folders = nodes /\ tree.files = {} /\ tree = [folders |-> tree.folders, files |-> tree.files]
  BY <1>1
<1> QED BY <1>9, <1>10, <1>11 DEF Shape

LEMMA InitTypes ==
  ASSUME Init
  PROVE  Types
<1>1. CursorOK(cursor)
  BY Constants DEF Init, CursorOK, NoString
<1>2. \A t \in Threads : thread[t] = Idle
  BY DEF Init
<1>3. RecordOK(tree.folders, Idle)
  <2>1. DOMAIN Idle = Fields
    BY DEF Idle, Fields
  <2>2. JobOK(Idle)
    BY DEF Idle, JobOK
  <2>3. /\ Idle.pc = "idle" /\ Idle.at = <<>> /\ Idle.key = None /\ Idle.terms = {}
        /\ Idle.todo = <<>>
    BY DEF Idle
  <2> QED BY <2>1, <2>2, <2>3, IdleOK DEF Places
<1>4. Idle.pc = "idle"
  BY DEF Idle
<1>5. Lock
  BY <1>2, <1>4 DEF Lock
<1>6. thread = [t \in Threads |-> thread[t]] /\ mixed \subseteq Threads
  BY DEF Init
<1> QED BY <1>1, <1>2, <1>3, <1>5, <1>6, FirstTree DEF Types

LEMMA NextTypes ==
  ASSUME Types, [Next]_vars
  PROVE  Types'
<1>1. CASE UNCHANGED vars
  BY <1>1 DEF vars, Types, Shape, Lock
<1>2. ASSUME NEW t \in Threads, Step(t) PROVE Types'
  BY <1>2, BeginTypes, WalkTypes, RowsTypes, CutAheadTypes, WayTypes, GatherTypes,
     FoundAroundTypes, GatheredTypes, ParsingTypes, ParsedTypes, FailsTypes, ReturnTypes DEF Step
<1> QED BY <1>1, <1>2 DEF Next

LEMMA AlwaysTypes == Spec => []Types
<1>1. Init => Types
  BY InitTypes
<1>2. Types /\ [Next]_vars => Types'
  BY NextTypes
<1> QED BY <1>1, <1>2, PTL DEF Spec

\* Type invariant: also, path_lock admits one writer or readers, and the nodes of a name
\* are numbered without gaps, whoever cuts whose path.
THEOREM ListingTypes == Spec => []TypeOK
<1>1. ASSUME Types PROVE TypeOK
  <2>1. ASSUME NEW nodes \in {tree.folders, tree.files}, NEW n \in nodes
        PROVE  /\ n.nth \in 1..Copies(nodes, n.in, n.name)
               /\ n.in # <<>> => \E d \in tree.folders : At(d) = n.in
    <3>1. Listing(nodes, tree.folders) /\ IsNode(n)
      BY <1>1 DEF Types, Shape, Listing
    <3>2. n.nth \in 1..Copies(nodes, n.in, n.name)
      BY <3>1, CopiesNat DEF Listing, Numbered, IsNode
    <3>3. ASSUME n.in # <<>> PROVE \E d \in tree.folders : At(d) = n.in
      <4>1. n.in \in Seq(Names \X Nat) /\ Len(n.in) \in 1..Len(n.in)
        BY <3>1, <3>3, LenProperties, EmptySeq DEF IsNode, Addresses
      <4>2. SubSeq(n.in, 1, Len(n.in)) = n.in
        BY <4>1, SubSeqFull
      <4> QED BY <3>1, <4>1, <4>2 DEF Listing, Hung
    <3> QED BY <3>2, <3>3
  <2>2. cursor.by \in Threads \cup {Nobody} /\ (cursor.freed => cursor.by = Nobody)
    BY <1>1 DEF Types, CursorOK, Cursors, Agents
  <2>3. ASSUME NEW t \in Threads
        PROVE  /\ thread[t].pc \in Places /\ thread[t].key \in Keys \cup {None}
               /\ \A term \in thread[t].terms : term.key \in Keys
    BY <1>1 DEF Types, RecordOK, TermsOK
  <2>4. NoWriter \/ NoReader
    BY <1>1 DEF Types, Lock, NoWriter, NoReader
  <2>5. \A t, u \in Threads : thread[t].pc = "way" /\ thread[u].pc = "way" => t = u
    BY <1>1 DEF Types, Lock
  <2>6. mixed \subseteq Threads
    BY <1>1 DEF Types
  <2> QED BY <2>1, <2>2, <2>3, <2>4, <2>5, <2>6 DEF TypeOK, Places
<1> QED BY <1>1, AlwaysTypes, PTL
-------------------------------------------------------------------------------
(* Whoever is not mixed up goes where the path leads.                         *)

\* The cursor is in the string that thread t cuts, with n of its items cut.
Left(c, t, sep, tokens, n) ==
  /\ c.by = t /\ c.sep = sep /\ ~c.freed
  /\ Len(c.left) = Len(tokens) - n
  /\ \A i \in 1..(Len(tokens) - n) : c.left[i] = tokens[n + i]

Target(h, path) == IF FolderAt(h, path) # {} THEN FolderAt(h, path) ELSE FileAt(h, path)

\* A walk has cut the names that lead to where it is.
Walking(c, h, t, r) ==
  LET tokens == PathTokens(t, r.goal)
  IN  /\ r.pc \in {"walk", "way"} =>
           /\ OnWay(h, r.goal, r.at)
           /\ Left(c, t, "slash", tokens, Len(r.at))
      /\ r.pc = "lock" => Left(c, t, "slash", tokens, 1) /\ r.token = tokens[1]
      /\ r.pc = "found" => r.node = Target(h, r.goal)

Walks == \A t \in Threads \ mixed : Walking(cursor, tree, t, thread[t])

\* Another's step leaves alone the thread, the string it cuts and the tree it is in, or
\* mixes it up.
LEMMA OthersKept ==
  ASSUME Types, NEW t \in Threads, Step(t), NEW u \in Threads, u # t, u \notin mixed'
  PROVE  /\ u \notin mixed /\ thread'[u] = thread[u]
         /\ Cutting(u) /\ cursor.by = u => cursor' = cursor
         /\ thread[u].pc \in {"walk", "way", "found"} => tree' = tree
<1>1. ASSUME NEW r, Becomes(t, r) PROVE thread'[u] = thread[u]
  BY <1>1 DEF Becomes, Types
<1>2. MixUp(t) => u \notin mixed /\ ~Cutting(u)
  BY DEF MixUp
<1>3. ASSUME NEW c, cursor' = Freed(t, cursor), cursor.by = u PROVE cursor' = cursor
  BY <1>3 DEF Freed
<1>4. CASE EnterWay(t)
  <2> DEFINE c == [token |-> thread[t].token, cursor |-> cursor]
  <2>1. c.cursor = cursor /\ AddItem(t, c) /\ NoWriter /\ NoReader /\ mixed' = mixed
    BY <1>4 DEF EnterWay
  <2> HIDE DEF c
  <2>2. (\E r : Becomes(t, r)) /\ (cursor' = cursor \/ cursor' = Freed(t, cursor))
    BY <2>1 DEF AddItem
  <2>3. thread[u].pc \notin {"walk", "way", "found"}
    BY <2>1 DEF NoWriter, NoReader
  <2> QED BY <1>1, <1>3, <2>1, <2>2, <2>3
<1>5. CASE NextWay(t)
  <2>1. PICK c \in Following("slash") : AddItem(t, c)
    BY <1>5 DEF NextWay
  <2>2. \E r : Becomes(t, r)
    BY <2>1 DEF AddItem
  <2>3. thread[u].pc \notin {"walk", "way", "found"}
    BY <1>5 DEF NextWay, Types, Lock
  <2> QED BY <1>1, <1>2, <1>5, <2>2, <2>3 DEF NextWay
<1>6. CASE EnterWalk(t) \/ NextWalk(t) \/ CutAhead(t) \/ NextParse(t)
  <2>1. MixUp(t) /\ UNCHANGED tree
    BY <1>6 DEF EnterWalk, NextWalk, CutAhead, NextParse
  <2>2. \E r : Becomes(t, r)
    BY <1>6 DEF EnterWalk, NextWalk, CutAhead, NextParse, Visit, Parse
  <2> QED BY <1>1, <1>2, <2>1, <2>2
<1>7. CASE StartParse(t)
  <2>1. (MixUp(t) \/ UNCHANGED <<cursor, mixed>>) /\ UNCHANGED tree
    BY <1>7 DEF StartParse
  <2>2. \E r : Becomes(t, r)
    BY <1>7 DEF StartParse, Parse
  <2> QED BY <1>1, <1>2, <2>1, <2>2
<1>8. CASE Gather(t) \/ FoundAround(t)
  <2>1. /\ UNCHANGED <<tree, cursor>> /\ mixed \subseteq mixed'
        /\ \E r : Becomes(t, r)
    BY <1>8 DEF Gather, FoundAround, TakePairs
  <2> QED BY <1>1, <2>1
<1>9. CASE \/ StartList(t) \/ StartResolve(t) \/ StartAddFolder(t) \/ StartAddFile(t)
           \/ Resolve(t) \/ Gathered(t) \/ Parsed(t) \/ RunQuery(t) \/ ReadRow(t) \/ LastRow(t)
  <2>1. UNCHANGED <<tree, cursor, mixed>> /\ \E r : Becomes(t, r)
    BY <1>9 DEF StartList, StartResolve, StartAddFolder, StartAddFile, Begin, Resolve, Gathered,
                Parsed, RunQuery, ReadRow, LastRow
  <2> QED BY <1>1, <2>1
<1>10. CASE Fails(t) \/ Return(t)
  <2>1. /\ UNCHANGED tree /\ \E r : Becomes(t, r)
        /\ cursor' = cursor \/ cursor' = Freed(t, cursor)
        /\ mixed' = mixed \/ mixed' = mixed \ {t}
    BY <1>10 DEF Fails, Return
  <2> QED BY <1>1, <1>3, <2>1
<1> QED BY <1>4, <1>5, <1>6, <1>7, <1>8, <1>9, <1>10 DEF Step

LEMMA OthersWalk ==
  ASSUME Types, Walks, NEW t \in Threads, Step(t), NEW u \in Threads, u # t, u \notin mixed'
  PROVE  Walking(cursor', tree', u, thread'[u])
<1>1. Walking(cursor, tree, u, thread[u])
  BY OthersKept DEF Walks
<1>2. thread[u].pc \in {"walk", "way", "lock"} => cursor.by = u /\ Cutting(u)
  BY <1>1 DEF Walking, Left, Cutting
<1>3. /\ thread'[u] = thread[u]
      /\ thread[u].pc \in {"walk", "way", "lock"} => cursor' = cursor
      /\ thread[u].pc \in {"walk", "way", "found"} => tree' = tree
  BY <1>2, OthersKept
<1> QED BY <1>1, <1>3 DEF Walking

\* Nobody else has moved the cursor: the next item is the thread's own.
LEMMA NextItem ==
  ASSUME CursorOK(cursor), NEW t, NEW sep, NEW S, NEW tokens \in Seq(S), NEW n \in Nat, n <= Len(tokens),
         Left(cursor, t, sep, tokens, n), NEW c \in Following(sep)
  PROVE  /\ n = Len(tokens) => c.token = NoToken /\ c.cursor = cursor
         /\ n < Len(tokens) => c.token = tokens[n + 1] /\ Left(c.cursor, t, sep, tokens, n + 1)
<1>1. Len(tokens) \in Nat /\ ~cursor.freed /\ cursor.sep = sep /\ Len(cursor.left) = Len(tokens) - n
  BY LenProperties DEF Left
<1>2. CASE n = Len(tokens)
  <2>1. cursor.left \in Seq(NameTokens) \cup Seq(ItemTokens) /\ Len(cursor.left) = 0
    BY <1>1, <1>2 DEF CursorOK, Cursors
  <2>2. cursor.left = <<>>
    BY <2>1, EmptySeq
  <2>3. c = [token |-> NoToken, cursor |-> cursor]
    BY <1>1, <2>2 DEF Following
  <2> QED BY <1>2, <2>3
<1>3. CASE n < Len(tokens)
  <2>1. PICK R : cursor.left \in Seq(R)
    BY DEF CursorOK, Cursors
  <2>2. cursor.left # <<>>
    BY <1>1, <1>3, EmptySeq
  <2>3. /\ Head(cursor.left) = cursor.left[1]
        /\ Len(Tail(cursor.left)) = Len(cursor.left) - 1
        /\ \A i \in 1..Len(Tail(cursor.left)) : Tail(cursor.left)[i] = cursor.left[i + 1]
    BY <2>1, <2>2, SequenceParts
  <2> DEFINE left == Tail(cursor.left)
             m == [cursor EXCEPT !.left = left]
  <2>4. c = [token |-> Head(cursor.left), cursor |-> m]
    BY <1>1, <2>2 DEF Following
  <2>5. m.by = cursor.by /\ m.sep = cursor.sep /\ m.freed = cursor.freed /\ m.left = left
    BY DEF CursorOK, Cursors
  <2>6. c.token = Head(cursor.left) /\ c.cursor = m
    BY ONLY <2>4
  <2> HIDE DEF m, left
  <2>7. c.token = tokens[n + 1]
    BY <1>1, <1>3, <2>3, <2>6 DEF Left
  <2>8. Len(left) = Len(tokens) - (n + 1)
    BY <1>1, <1>3, <2>3 DEF left
  <2>9. \A i \in 1..(Len(tokens) - (n + 1)) : left[i] = tokens[(n + 1) + i]
    <3> TAKE i \in 1..(Len(tokens) - (n + 1))
    <3>1. left[i] = cursor.left[i + 1]
      BY <2>3, <2>8 DEF left
    <3>2. i + 1 \in 1..(Len(tokens) - n) /\ n + (i + 1) = (n + 1) + i
      BY <1>1
    <3>3. cursor.left[i + 1] = tokens[n + (i + 1)]
      BY <3>2 DEF Left
    <3> QED BY <3>1, <3>2, <3>3
  <2>10. Left(c.cursor, t, sep, tokens, n + 1)
    BY <2>5, <2>6, <2>8, <2>9 DEF Left
  <2> QED BY <1>1, <1>3, <2>7, <2>10
<1> QED BY <1>1, <1>2, <1>3

\* The item that a walk is at, if nobody else has moved the cursor.
AtItem(c, t, r) ==
  LET tokens == PathTokens(t, r.goal)
  IN  c.token = tokens[Len(r.at) + 1] /\ Left(c.cursor, t, "slash", tokens, Len(r.at) + 1)

LEMMA ItemFacts ==
  ASSUME Types, NEW t \in Threads, OnWay(tree, thread[t].goal, thread[t].at),
         thread[t].goal \in Seq(Names), NEW c, AtItem(c, t, thread[t])
  PROVE  /\ Len(thread[t].at) \in Nat /\ Len(thread[t].goal) \in Nat
         /\ Len(thread[t].at) < Len(thread[t].goal)
         /\ c.token # NoToken /\ c.token \in NameTokens
         /\ c.token.text = thread[t].goal[Len(thread[t].at) + 1]
         /\ IsLast(t, c.token) <=> Len(thread[t].at) + 1 = Len(thread[t].goal)
<1> DEFINE goal == thread[t].goal
           n == Len(thread[t].at)
           x == c.token
<1>1. n \in Nat /\ Len(goal) \in Nat /\ n < Len(goal)
  BY LenProperties DEF OnWay, Addresses
<1>2. n + 1 \in 1..Len(goal)
  BY <1>1
<1>3. x = PathTokens(t, goal)[n + 1]
  BY DEF AtItem
<1>4. /\ PathTokens(t, goal) \in Seq(NameTokens) /\ Len(PathTokens(t, goal)) = Len(goal)
      /\ \A i \in 1..Len(goal) :
           PathTokens(t, goal)[i] = Token(t, "name", goal[i], i = Len(goal))
  BY PathTokensFacts
<1> HIDE DEF n, goal, x
<1>5. x = Token(t, "name", goal[n + 1], n + 1 = Len(goal)) /\ x \in NameTokens
  <2>1. PathTokens(t, goal)[n + 1] \in NameTokens
    BY <1>2, <1>4, ElementOfSeq
  <2> QED BY <1>2, <1>3, <1>4, <2>1
<1>6. x # NoToken
  BY <1>5, Constants
<1>7. x.by = t /\ x.text = goal[n + 1] /\ x.last = (n + 1 = Len(goal))
  BY <1>5 DEF Token
<1> QED BY <1>1, <1>5, <1>6, <1>7 DEF IsLast, n, goal, x

LEMMA VisitWalk ==
  ASSUME Types, NEW t \in Threads, thread[t].pc \in {"find", "walk"},
         OnWay(tree, thread[t].goal, thread[t].at),
         NEW c, AtItem(c, t, thread[t]), Visit(t, c), UNCHANGED tree
  PROVE  Walking(cursor', tree', t, thread'[t])
<1> DEFINE o == thread[t]
           n == Len(o.at)
           goal == o.goal
           x == c.token
<1>1. DOMAIN o = Fields /\ goal \in Seq(Names) /\ Shape(tree)
  BY DEF Types, RecordOK, JobOK
<1>2. /\ n \in Nat /\ Len(goal) \in Nat /\ n < Len(goal)
      /\ x # NoToken /\ x.text = goal[n + 1]
      /\ IsLast(t, x) <=> n + 1 = Len(goal)
  BY <1>1, ItemFacts
<1>3. \A nodes : HereIn(nodes, t, x) = FirstOf(nodes, o.at, goal[n + 1])
  BY <1>2 DEF HereIn
<1>4. ASSUME NEW nodes, Becomes(t, [thread[t] EXCEPT !.pc = "found", !.node = nodes]),
             nodes = Target(tree, goal)
      PROVE  Walking(cursor', tree', t, thread'[t])
  <2> DEFINE r == [thread[t] EXCEPT !.pc = "found", !.node = nodes]
  <2>1. r.pc = "found" /\ r.goal = o.goal /\ r.node = nodes
    BY <1>1 DEF Fields
  <2>2. thread'[t] = r
    BY <1>4 DEF Becomes, Types
  <2> HIDE DEF r
  <2> QED BY <1>4, <2>1, <2>2 DEF Walking
<1>5. CASE IsLast(t, x)
  <2>1. Becomes(t, [thread[t] EXCEPT !.pc = "found", !.node = FoundLast(t, x)])
    BY <1>2, <1>5 DEF Visit
  <2>2. n + 1 = Len(goal)
    BY <1>2, <1>5
  <2>3. /\ Reached(tree, tree.folders, goal) = HereIn(tree.folders, t, x)
        /\ Reached(tree, tree.files, goal) = HereIn(tree.files, t, x)
    BY <1>1, <1>3, <2>2, FoundHere
  <2>4. FoundLast(t, x) = Target(tree, goal)
    BY <2>3 DEF FoundLast, Target, FolderAt, FileAt
  <2> QED BY <1>4, <2>1, <2>4
<1>6. CASE ~IsLast(t, x)
  <2>1. n + 1 < Len(goal)
    BY <1>2, <1>6
  <2>2. CASE /\ HereIn(tree.folders, t, x) = {}
             /\ Becomes(t, [thread[t] EXCEPT !.pc = "found", !.node = {}])
    <3>1. Reached(tree, tree.folders, goal) = {} /\ Reached(tree, tree.files, goal) = {}
      BY <1>1, <1>3, <2>1, <2>2, NoWayOn
    <3>2. Target(tree, goal) = {}
      BY <3>1 DEF Target, FolderAt, FileAt
    <3> DEFINE none == {}
    <3>3. none = Target(tree, goal) /\ Becomes(t, [thread[t] EXCEPT !.pc = "found", !.node = none])
      BY <2>2, <3>2
    <3> HIDE DEF none
    <3> QED BY <1>4, <3>3
  <2>3. ASSUME NEW d \in HereIn(tree.folders, t, x), cursor' = c.cursor,
               Becomes(t, [thread[t] EXCEPT !.pc = "walk", !.at = At(d)])
        PROVE  Walking(cursor', tree', t, thread'[t])
    <3> DEFINE r == [thread[t] EXCEPT !.pc = "walk", !.at = At(d)]
    <3>1. r.pc = "walk" /\ r.goal = goal /\ r.at = At(d)
      BY <1>1 DEF Fields
    <3>2. thread'[t] = r
      BY <2>3 DEF Becomes, Types
    <3> HIDE DEF r
    <3>3. OnWay(tree, goal, At(d)) /\ Len(At(d)) = n + 1
      BY <1>1, <1>3, <2>1, <2>3, StepDown
    <3>4. Left(cursor', t, "slash", PathTokens(t, goal), n + 1)
      BY <2>3 DEF AtItem
    <3> QED BY <3>1, <3>2, <3>3, <3>4 DEF Walking
  <2> QED BY <1>2, <1>6, <2>2, <2>3 DEF Visit
<1> QED BY <1>5, <1>6

\* The first item.
LEMMA StartsOnWay ==
  ASSUME Types, NEW t \in Threads, thread[t].pc \in {"find", "add", "lock"}
  PROVE  /\ thread[t].at = <<>> /\ Len(thread[t].at) = 0
         /\ thread[t].goal \in Seq(Names) /\ thread[t].goal # <<>>
         /\ OnWay(tree, thread[t].goal, thread[t].at)
<1>1. /\ thread[t].at = <<>> /\ thread[t].at \in Addresses
      /\ thread[t].goal \in Seq(Names) /\ thread[t].goal # <<>>
  BY DEF Types, RecordOK, JobOK, AtOK
<1>2. Len(thread[t].goal) \in Nat \ {0}
  BY <1>1, LenProperties, EmptySeq
<1>3. Len(<<>>) = 0 /\ DOMAIN <<>> = {}
  BY EmptySeq
<1> DEFINE at == thread[t].at
<1>4. Len(at) = 0 /\ DOMAIN at = {} /\ at = <<>> /\ at \in Addresses
  BY <1>1, <1>3
<1> HIDE DEF at
<1>5. OnWay(tree, thread[t].goal, at)
  BY <1>2, <1>4 DEF OnWay, IsFirst
<1> QED BY <1>1, <1>4, <1>5 DEF at

LEMMA FirstLeft ==
  ASSUME NEW t \in Threads, NEW path \in Seq(Names), path # <<>>,
         NEW c, c = First(t, PathTokens(t, path), "slash")
  PROVE  /\ c.token = PathTokens(t, path)[1] /\ c.token \in NameTokens
         /\ Left(c.cursor, t, "slash", PathTokens(t, path), 1)
<1> DEFINE tokens == PathTokens(t, path)
<1>1. /\ c.token = tokens[1] /\ c.token \in NameTokens
      /\ c.cursor.by = t /\ c.cursor.sep = "slash" /\ ~c.cursor.freed
      /\ Len(c.cursor.left) = Len(path) - 1
      /\ \A i \in 1..Len(path) - 1 : c.cursor.left[i] = tokens[i + 1]
  BY FirstName
<1>2. Len(tokens) = Len(path) /\ Len(path) \in Nat
  BY PathTokensFacts
<1> HIDE DEF tokens
<1>3. \A i \in 1..(Len(tokens) - 1) : c.cursor.left[i] = tokens[1 + i]
  BY <1>1, <1>2
<1>4. Left(c.cursor, t, "slash", tokens, 1)
  BY <1>1, <1>2, <1>3 DEF Left
<1> QED BY <1>1, <1>4 DEF tokens

LEMMA NextIsOwn ==
  ASSUME Types, NEW t \in Threads, thread[t].pc \in {"walk", "way"},
         Walking(cursor, tree, t, thread[t]), NEW c \in Following("slash")
  PROVE  AtItem(c, t, thread[t]) /\ OnWay(tree, thread[t].goal, thread[t].at)
<1> DEFINE tokens == PathTokens(t, thread[t].goal)
           n == Len(thread[t].at)
<1>1. OnWay(tree, thread[t].goal, thread[t].at) /\ Left(cursor, t, "slash", tokens, n)
  BY DEF Walking
<1>2. thread[t].goal \in Seq(Names) /\ CursorOK(cursor)
  BY DEF Types, RecordOK, JobOK
<1>3. tokens \in Seq(NameTokens) /\ Len(tokens) = Len(thread[t].goal)
  BY <1>2, PathTokensFacts
<1>4. n \in Nat /\ n < Len(tokens)
  BY <1>1, <1>3, LenProperties DEF OnWay, Addresses
<1> HIDE DEF tokens, n
<1>5. c.token = tokens[n + 1] /\ Left(c.cursor, t, "slash", tokens, n + 1)
  <2>1. Len(tokens) \in Nat
    BY <1>3, LenProperties
  <2>2. n <= Len(tokens)
    BY <1>4, <2>1
  <2> QED BY <1>1, <1>2, <1>3, <1>4, <2>2, NextItem
<1> QED BY <1>1, <1>5 DEF AtItem, tokens, n

LEMMA EnterWalkWalks ==
  ASSUME Types, NEW t \in Threads, EnterWalk(t)
  PROVE  Walking(cursor', tree', t, thread'[t])
<1> DEFINE c == First(t, PathTokens(t, thread[t].goal), "slash")
           tokens == PathTokens(t, thread[t].goal)
<1>1. Visit(t, c) /\ UNCHANGED tree /\ thread[t].pc = "find"
  BY DEF EnterWalk
<1>2. /\ Len(thread[t].at) = 0 /\ thread[t].goal \in Seq(Names) /\ thread[t].goal # <<>>
      /\ OnWay(tree, thread[t].goal, thread[t].at)
  BY <1>1, StartsOnWay
<1>3. AtItem(c, t, thread[t])
  BY <1>2, FirstLeft DEF AtItem
<1> HIDE DEF c
<1> QED BY <1>1, <1>2, <1>3, VisitWalk

LEMMA NextWalkWalks ==
  ASSUME Types, NEW t \in Threads, NextWalk(t), Walking(cursor, tree, t, thread[t])
  PROVE  Walking(cursor', tree', t, thread'[t])
<1>1. thread[t].pc = "walk" /\ UNCHANGED tree
  BY DEF NextWalk
<1>2. PICK c \in Following("slash") : Visit(t, c)
  BY DEF NextWalk
<1>3. AtItem(c, t, thread[t]) /\ OnWay(tree, thread[t].goal, thread[t].at)
  BY <1>1, NextIsOwn
<1> QED BY <1>1, <1>2, <1>3, VisitWalk

LEMMA CutAheadWalks ==
  ASSUME Types, NEW t \in Threads, CutAhead(t)
  PROVE  Walking(cursor', tree', t, thread'[t])
<1> DEFINE c == First(t, PathTokens(t, thread[t].goal), "slash")
           r == [thread[t] EXCEPT !.pc = "lock", !.token = c.token]
<1>1. /\ thread[t].pc = "add" /\ cursor' = c.cursor
      /\ Becomes(t, r)
  BY DEF CutAhead
<1>2. thread[t].goal \in Seq(Names) /\ thread[t].goal # <<>> /\ DOMAIN thread[t] = Fields
  BY <1>1, StartsOnWay DEF Types, RecordOK
<1>3. /\ c.token = PathTokens(t, thread[t].goal)[1]
      /\ Left(c.cursor, t, "slash", PathTokens(t, thread[t].goal), 1)
  BY <1>2, FirstLeft
<1> HIDE DEF c
<1>4. r.pc = "lock" /\ r.goal = thread[t].goal /\ r.token = c.token
  BY <1>2 DEF Fields
<1> HIDE DEF r
<1>5. thread'[t] = r
  BY <1>1 DEF Becomes, Types
<1> QED BY <1>1, <1>3, <1>4, <1>5 DEF Walking

\* What is added in front is what a lookup finds.
LEMMA MadeIsFirst ==
  ASSUME NEW nodes, IsFiniteSet(nodes), NEW n, n \notin nodes,
         n.nth = Copies(nodes, n.in, n.name) + 1
  PROVE  n \in FirstOf(nodes \cup {n}, n.in, n.name)
  BY AddedCopies DEF FirstOf

\* The folder that is made for the name a way has come to.
LEMMA MadeFolder ==
  ASSUME Types, NEW t \in Threads, OnWay(tree, thread[t].goal, thread[t].at),
         thread[t].goal \in Seq(Names), NEW c, AtItem(c, t, thread[t]),
         NEW datapath, NEW n, n = NewFolder(t, c.token, datapath),
         tree' = [tree EXCEPT !.folders = @ \cup {n}]
  PROVE  /\ n \notin tree.folders /\ Shape(tree') /\ tree'.folders = tree.folders \cup {n}
         /\ OnWay(tree', thread[t].goal, thread[t].at)
         /\ n \in FirstOf(tree'.folders, thread[t].at, thread[t].goal[Len(thread[t].at) + 1])
<1> DEFINE o == thread[t]
           x == c.token
<1>1. x \in NameTokens /\ x.text = o.goal[Len(o.at) + 1] /\ Shape(tree)
  BY ItemFacts DEF Types
<1>2. n.in = o.at /\ n.name = x.text /\ n.nth = InFront(t, tree.folders, x)
  BY DEF NewFolder
<1>3. /\ n.nth = Copies(tree.folders, n.in, n.name) + 1 /\ IsNode(n)
      /\ n.in = <<>> \/ \E d \in tree.folders : At(d) = n.in
  BY <1>1, <1>2, MadeFacts
<1> HIDE DEF o, x
<1>4. n \notin tree.folders /\ Shape([tree EXCEPT !.folders = @ \cup {n}])
  BY <1>1, <1>3, AddedFolder
<1>5. tree'.folders = tree.folders \cup {n}
  <2>1. tree = [folders |-> tree.folders, files |-> tree.files]
    BY <1>1 DEF Shape
  <2>2. tree' = [folders |-> tree.folders \cup {n}, files |-> tree.files]
    BY <2>1, WithFolders
  <2> QED BY <2>2
<1>6. OnWay(tree', o.goal, o.at)
  BY <1>1, <1>2, <1>4, <1>5, WayKept DEF o
<1>7. n \in FirstOf(tree'.folders, n.in, n.name)
  BY <1>1, <1>3, <1>4, <1>5, MadeIsFirst DEF Shape, Listing
<1> QED BY <1>1, <1>2, <1>4, <1>5, <1>6, <1>7 DEF o

\* The file that is made for the last name.
LEMMA MadeFile ==
  ASSUME Types, NEW t \in Threads, OnWay(tree, thread[t].goal, thread[t].at),
         thread[t].goal \in Seq(Names), NEW c, AtItem(c, t, thread[t]),
         NEW n, n = NewFile(t, c.token), tree' = [tree EXCEPT !.files = @ \cup {n}]
  PROVE  /\ n \notin tree.files /\ Shape(tree') /\ tree'.files = tree.files \cup {n}
         /\ OnWay(tree', thread[t].goal, thread[t].at)
         /\ n \in FirstOf(tree'.files, thread[t].at, thread[t].goal[Len(thread[t].at) + 1])
<1> DEFINE o == thread[t]
           x == c.token
<1>1. x \in NameTokens /\ x.text = o.goal[Len(o.at) + 1] /\ Shape(tree)
  BY ItemFacts DEF Types
<1>2. n.in = o.at /\ n.name = x.text /\ n.nth = InFront(t, tree.files, x)
  BY DEF NewFile
<1>3. /\ n.nth = Copies(tree.files, n.in, n.name) + 1 /\ IsNode(n)
      /\ n.in = <<>> \/ \E d \in tree.folders : At(d) = n.in
  BY <1>1, <1>2, MadeFacts
<1> HIDE DEF o, x
<1>4. n \notin tree.files /\ Shape([tree EXCEPT !.files = @ \cup {n}])
  BY <1>1, <1>3, AddedFile
<1>5. tree'.files = tree.files \cup {n} /\ tree'.folders = tree.folders
  <2>1. tree = [folders |-> tree.folders, files |-> tree.files]
    BY <1>1 DEF Shape
  <2>2. tree' = [folders |-> tree.folders, files |-> tree.files \cup {n}]
    BY <2>1, WithFiles
  <2> QED BY <2>2
<1>6. OnWay(tree', o.goal, o.at)
  BY <1>5 DEF OnWay, IsFirst, o
<1>7. n \in FirstOf(tree'.files, n.in, n.name)
  BY <1>1, <1>3, <1>4, <1>5, MadeIsFirst DEF Shape, Listing
<1> QED BY <1>1, <1>2, <1>4, <1>5, <1>6, <1>7 DEF o

\* What AddedFound says of thread t.
Finds(t) ==
  LET job == thread[t].job
      new(nodes, before) == \E n \in nodes : n \notin before
  IN  thread'[t].pc = "done" =>
        \/ job.op = "folder" /\ new(FolderAt(tree', job.path), tree.folders)
        \/ job.op = "file" /\ (FolderAt(tree', job.path) # {}
                                \/ new(FileAt(tree', job.path), tree.files))

LEMMA AddItemWalks ==
  ASSUME Types, NEW t \in Threads, thread[t].pc \in {"lock", "way"},
         OnWay(tree, thread[t].goal, thread[t].at),
         NEW c, AtItem(c, t, thread[t]), AddItem(t, c)
  PROVE  Walking(cursor', tree', t, thread'[t]) /\ Finds(t)
<1> DEFINE o == thread[t]
           n == Len(o.at)
           goal == o.goal
           x == c.token
<1>1. /\ DOMAIN o = Fields /\ goal \in Seq(Names) /\ goal = o.job.path /\ Shape(tree)
  BY DEF Types, RecordOK, JobOK
<1>2. /\ n \in Nat /\ Len(goal) \in Nat /\ n < Len(goal)
      /\ x # NoToken /\ x.text = goal[n + 1]
      /\ IsLast(t, x) <=> n + 1 = Len(goal)
  BY <1>1, ItemFacts
<1>3. CASE IsLast(t, x)
  <2> DEFINE r == [thread[t] EXCEPT !.pc = "done"]
  <2>1. Becomes(t, r)
    BY <1>2, <1>3 DEF AddItem
  <2>2. r.pc = "done"
    BY <1>1 DEF Fields
  <2>3. thread'[t] = r
    BY <2>1 DEF Becomes, Types
  <2> HIDE DEF r
  <2>4. Walking(cursor', tree', t, thread'[t])
    BY <2>2, <2>3 DEF Walking
  <2>5. n + 1 = Len(goal)
    BY <1>2, <1>3
  <2>6. CASE /\ o.job.op = "folder"
             /\ tree' = [tree EXCEPT !.folders = @ \cup {NewFolder(t, x, Datapath(goal))}]
    <3> DEFINE m == NewFolder(t, x, Datapath(goal))
    <3>1. m = NewFolder(t, c.token, Datapath(goal)) /\ tree' = [tree EXCEPT !.folders = @ \cup {m}]
      BY <2>6
    <3> HIDE DEF m
    <3>2. /\ m \notin tree.folders /\ Shape(tree') /\ OnWay(tree', goal, o.at)
          /\ m \in FirstOf(tree'.folders, o.at, goal[Len(goal)])
      BY <1>1, <2>5, <3>1, MadeFolder
    <3>3. m \in FolderAt(tree', goal)
      BY <1>1, <2>5, <3>2, FoundHere DEF FolderAt
    <3> QED BY <1>1, <2>4, <2>6, <3>2, <3>3 DEF Finds
  <2>7. CASE /\ o.job.op = "file"
             /\ tree' = [tree EXCEPT !.files = @ \cup {NewFile(t, x)}]
    <3> DEFINE m == NewFile(t, x)
    <3>1. m = NewFile(t, c.token) /\ tree' = [tree EXCEPT !.files = @ \cup {m}]
      BY <2>7
    <3> HIDE DEF m
    <3>2. /\ m \notin tree.files /\ Shape(tree') /\ OnWay(tree', goal, o.at)
          /\ m \in FirstOf(tree'.files, o.at, goal[Len(goal)])
      BY <1>1, <2>5, <3>1, MadeFile
    <3>3. m \in Reached(tree', tree'.files, goal)
      BY <1>1, <2>5, <3>2, FoundHere
    <3>4. FolderAt(tree', goal) # {} \/ m \in FileAt(tree', goal)
      BY <3>3 DEF FileAt
    <3> QED BY <1>1, <2>4, <2>7, <3>2, <3>4 DEF Finds
  <2> QED BY <1>2, <1>3, <2>6, <2>7 DEF AddItem
<1>4. CASE ~IsLast(t, x)
  <2>1. n + 1 < Len(goal)
    BY <1>2, <1>4
  <2>2. ASSUME NEW d \in FirstOf(tree'.folders, o.at, goal[n + 1]), Shape(tree'),
               OnWay(tree', goal, o.at), cursor' = c.cursor,
               Becomes(t, [thread[t] EXCEPT !.pc = "way", !.at = At(d)])
        PROVE  Walking(cursor', tree', t, thread'[t]) /\ Finds(t)
    <3> DEFINE r == [thread[t] EXCEPT !.pc = "way", !.at = At(d)]
    <3>1. r.pc = "way" /\ r.goal = goal /\ r.at = At(d)
      BY <1>1 DEF Fields
    <3>2. thread'[t] = r
      BY <2>2 DEF Becomes, Types
    <3> HIDE DEF r
    <3>3. OnWay(tree', goal, At(d)) /\ Len(At(d)) = n + 1
      BY <1>1, <2>1, <2>2, StepDown
    <3>4. Left(cursor', t, "slash", PathTokens(t, goal), n + 1)
      BY <2>2 DEF AtItem
    <3> QED BY <3>1, <3>2, <3>3, <3>4 DEF Walking, Finds
  <2>3. CASE /\ tree' = [tree EXCEPT !.folders = @ \cup {NewFolder(t, x, NoDatapath)}]
             /\ Becomes(t, [thread[t] EXCEPT !.pc = "way", !.at = At(NewFolder(t, x, NoDatapath))])
             /\ cursor' = c.cursor
    <3> DEFINE m == NewFolder(t, x, NoDatapath)
    <3>1. m = NewFolder(t, c.token, NoDatapath) /\ tree' = [tree EXCEPT !.folders = @ \cup {m}]
      BY <2>3
    <3>2. Becomes(t, [thread[t] EXCEPT !.pc = "way", !.at = At(m)])
      BY <2>3
    <3> HIDE DEF m
    <3>3. /\ Shape(tree') /\ OnWay(tree', goal, o.at)
          /\ m \in FirstOf(tree'.folders, o.at, goal[n + 1])
      BY <1>1, <3>1, MadeFolder
    <3> QED BY <2>2, <2>3, <3>2, <3>3
  <2>4. ASSUME NEW d \in HereIn(tree.folders, t, x), UNCHANGED tree, cursor' = c.cursor,
               Becomes(t, [thread[t] EXCEPT !.pc = "way", !.at = At(d)])
        PROVE  Walking(cursor', tree', t, thread'[t]) /\ Finds(t)
    <3>1. d \in FirstOf(tree'.folders, o.at, goal[n + 1])
      BY <1>2, <2>4 DEF HereIn
    <3>2. Shape(tree') /\ OnWay(tree', goal, o.at)
      BY <1>1, <2>4
    <3> QED BY <2>2, <2>4, <3>1, <3>2
  <2> QED BY <1>2, <1>4, <2>3, <2>4 DEF AddItem
<1> QED BY <1>3, <1>4

\* What OthersStayFound says of a step of thread t.
HidesNone(t) ==
  \A d \in tree.folders :
    IsFirst(tree, At(d)) =>
      \/ IsFirst(tree', At(d))
      \/ thread'[t].pc = "done" /\ IsPrefix(thread[t].job.path, NamesOf(At(d)))

\* The names of the node that is made for the last name of a way are the path.
LEMMA MadeAtGoal ==
  ASSUME NEW path \in Seq(Names), NEW at, OnWay(tree, path, at), Len(at) + 1 = Len(path),
         NEW n, IsNode(n), n.in = at, n.name = path[Len(path)]
  PROVE  NamesOf(At(n)) = path
<1>1. /\ NamesOf(At(n)) \in Seq(Names) /\ Len(NamesOf(At(n))) = Len(at) + 1 /\ Len(at) \in Nat
      /\ \A i \in 1..Len(at) : NamesOf(At(n))[i] = at[i][1]
      /\ NamesOf(At(n))[Len(at) + 1] = n.name
  BY NodeNames, AtFacts, NamesFacts
<1>2. \A i \in 1..Len(path) : NamesOf(At(n))[i] = path[i]
  BY <1>1 DEF OnWay
<1> QED BY <1>1, <1>2, SeqEqual

LEMMA AddItemHides ==
  ASSUME Types, NEW t \in Threads, thread[t].pc \in {"lock", "way"},
         OnWay(tree, thread[t].goal, thread[t].at),
         NEW c, AtItem(c, t, thread[t]), AddItem(t, c)
  PROVE  HidesNone(t)
<1> DEFINE o == thread[t]
           n == Len(o.at)
           goal == o.goal
           x == c.token
<1>1. /\ DOMAIN o = Fields /\ goal \in Seq(Names) /\ goal = o.job.path /\ Shape(tree)
      /\ \A d \in tree.folders : IsNode(d)
  BY DEF Types, RecordOK, JobOK, Shape, Listing
<1>2. /\ n \in Nat /\ Len(goal) \in Nat /\ n < Len(goal)
      /\ x \in NameTokens /\ x # NoToken /\ x.text = goal[n + 1]
      /\ IsLast(t, x) <=> n + 1 = Len(goal)
  BY <1>1, ItemFacts
<1>3. IsFirst(tree, o.at)
  BY DEF OnWay
<1>4. CASE tree'.folders = tree.folders
  BY <1>4 DEF HidesNone, IsFirst
<1>5. ASSUME NEW datapath, NEW m, m = NewFolder(t, c.token, datapath),
             tree' = [tree EXCEPT !.folders = @ \cup {m}]
      PROVE  /\ IsNode(m) /\ m.in = o.at /\ m.name = goal[n + 1]
             /\ \A d \in tree.folders :
                  IsFirst(tree, At(d)) /\ ~IsPrefix(NamesOf(At(m)), NamesOf(At(d))) =>
                    IsFirst(tree', At(d))
  <2>1. m \notin tree.folders /\ tree'.folders = tree.folders \cup {m}
    BY <1>1, <1>5, MadeFolder
  <2>2. m.in = o.at /\ m.name = x.text /\ m.nth = InFront(t, tree.folders, x)
    BY <1>5 DEF NewFolder
  <2>3. IsNode(m)
    BY <1>2, <2>2, MadeFacts
  <2> QED BY <1>1, <1>2, <2>1, <2>2, <2>3, InFrontHides
<1>6. CASE /\ IsLast(t, x)
           /\ tree' = [tree EXCEPT !.folders = @ \cup {NewFolder(t, x, Datapath(goal))}]
           /\ Becomes(t, [thread[t] EXCEPT !.pc = "done"])
  <2> DEFINE m == NewFolder(t, x, Datapath(goal))
             r == [thread[t] EXCEPT !.pc = "done"]
  <2>1. r.pc = "done"
    BY <1>1 DEF Fields
  <2>2. thread'[t].pc = "done"
    BY <1>6, <2>1 DEF Becomes, Types
  <2>3. m = NewFolder(t, c.token, Datapath(goal)) /\ tree' = [tree EXCEPT !.folders = @ \cup {m}]
    BY <1>6
  <2> HIDE DEF m
  <2>4. /\ IsNode(m) /\ m.in = o.at /\ m.name = goal[Len(goal)]
        /\ \A d \in tree.folders :
             IsFirst(tree, At(d)) /\ ~IsPrefix(NamesOf(At(m)), NamesOf(At(d))) =>
               IsFirst(tree', At(d))
    BY <1>2, <1>5, <1>6, <2>3
  <2>5. NamesOf(At(m)) = goal
    BY <1>1, <1>2, <1>6, <2>4, MadeAtGoal
  <2> QED BY <1>1, <2>2, <2>4, <2>5 DEF HidesNone
<1>7. CASE /\ HereIn(tree.folders, t, x) = {}
           /\ tree' = [tree EXCEPT !.folders = @ \cup {NewFolder(t, x, NoDatapath)}]
  <2> DEFINE m == NewFolder(t, x, NoDatapath)
  <2>1. m = NewFolder(t, c.token, NoDatapath) /\ tree' = [tree EXCEPT !.folders = @ \cup {m}]
    BY <1>7
  <2> HIDE DEF m
  <2>2. /\ IsNode(m) /\ m.in = o.at /\ m.name = x.text
        /\ \A d \in tree.folders :
             IsFirst(tree, At(d)) /\ ~IsPrefix(NamesOf(At(m)), NamesOf(At(d))) =>
               IsFirst(tree', At(d))
    BY <1>2, <1>5, <2>1
  <2>3. Copies(tree.folders, o.at, x.text) = 0
    BY <1>1, <1>7, FirstThere DEF HereIn, Shape, Listing
  <2>4. \A d \in tree.folders :
          IsFirst(tree, At(d)) => ~IsPrefix(NamesOf(At(m)), NamesOf(At(d)))
    BY <1>1, <1>3, <2>2, <2>3, MadeHides
  <2> QED BY <2>2, <2>4 DEF HidesNone
<1>8. ASSUME NEW files, tree' = [tree EXCEPT !.files = files]
      PROVE  tree'.folders = tree.folders
  <2>1. tree = [folders |-> tree.folders, files |-> tree.files]
    BY <1>1 DEF Shape
  <2> QED BY <1>8, <2>1
<1>9. \/ tree' = tree
      \/ \E files : tree' = [tree EXCEPT !.files = files]
      \/ /\ IsLast(t, x)
         /\ tree' = [tree EXCEPT !.folders = @ \cup {NewFolder(t, x, Datapath(goal))}]
         /\ Becomes(t, [thread[t] EXCEPT !.pc = "done"])
      \/ /\ HereIn(tree.folders, t, x) = {}
         /\ tree' = [tree EXCEPT !.folders = @ \cup {NewFolder(t, x, NoDatapath)}]
  BY DEF AddItem
<1> QED BY <1>4, <1>6, <1>7, <1>8, <1>9

LEMMA WayWalks ==
  ASSUME Types, NEW t \in Threads, EnterWay(t) \/ NextWay(t), Walking(cursor, tree, t, thread[t])
  PROVE  Walking(cursor', tree', t, thread'[t]) /\ Finds(t) /\ HidesNone(t)
<1>1. CASE EnterWay(t)
  <2> DEFINE c == [token |-> thread[t].token, cursor |-> cursor]
  <2>1. c.token = thread[t].token /\ c.cursor = cursor /\ AddItem(t, c) /\ thread[t].pc = "lock"
    BY <1>1 DEF EnterWay
  <2> HIDE DEF c
  <2>2. Len(thread[t].at) = 0 /\ OnWay(tree, thread[t].goal, thread[t].at)
    BY <2>1, StartsOnWay
  <2>3. AtItem(c, t, thread[t])
    BY <2>1, <2>2 DEF Walking, AtItem
  <2> QED BY <2>1, <2>2, <2>3, AddItemWalks, AddItemHides
<1>2. CASE NextWay(t)
  <2>1. PICK c \in Following("slash") : AddItem(t, c)
    BY <1>2 DEF NextWay
  <2>2. thread[t].pc = "way"
    BY <1>2 DEF NextWay
  <2>3. AtItem(c, t, thread[t]) /\ OnWay(tree, thread[t].goal, thread[t].at)
    BY <2>2, NextIsOwn
  <2> QED BY <2>1, <2>2, <2>3, AddItemWalks, AddItemHides
<1> QED BY <1>1, <1>2

\* The other steps lead to no place where a walk is under way.
LEMMA OwnStepWalks ==
  ASSUME Types, NEW t \in Threads, Step(t), Walking(cursor, tree, t, thread[t]),
         ~(EnterWalk(t) \/ NextWalk(t) \/ CutAhead(t) \/ EnterWay(t) \/ NextWay(t))
  PROVE  /\ thread'[t].pc \notin {"walk", "way", "lock", "found"}
         /\ thread[t].pc \notin {"lock", "way"} \/ thread'[t].pc # "done"
<1>1. DOMAIN thread[t] = Fields
  BY DEF Types, RecordOK
<1>2. \A r : Becomes(t, r) => thread'[t] = r
  BY DEF Becomes, Types
<1>3. CASE StartList(t) \/ StartResolve(t) \/ StartAddFolder(t) \/ StartAddFile(t)
  <2>1. ASSUME NEW r, Begin(t, r), r.pc \in {"gather", "find", "add"}
        PROVE  /\ thread'[t].pc \notin {"walk", "way", "lock", "found"}
               /\ thread'[t].pc # "done"
    BY <1>2, <2>1 DEF Begin
  <2>2. CASE StartList(t)
    <3>1. PICK f \in Listed : Begin(t, [Idle EXCEPT !.pc = "gather", !.job = [op |-> "list", path |-> f]])
      BY <2>2 DEF StartList
    <3> DEFINE r == [Idle EXCEPT !.pc = "gather", !.job = [op |-> "list", path |-> f]]
    <3>2. r.pc = "gather" /\ Begin(t, r)
      BY <3>1 DEF Idle
    <3> HIDE DEF r
    <3> QED BY <2>1, <3>2
  <2>3. CASE StartResolve(t)
    <3>1. PICK p \in Resolved : Begin(t, [Idle EXCEPT !.pc = "find", !.job = [op |-> "resolve", path |-> p], !.goal = p])
      BY <2>3 DEF StartResolve
    <3> DEFINE r == [Idle EXCEPT !.pc = "find", !.job = [op |-> "resolve", path |-> p], !.goal = p]
    <3>2. r.pc = "find" /\ Begin(t, r)
      BY <3>1 DEF Idle
    <3> HIDE DEF r
    <3> QED BY <2>1, <3>2
  <2>4. CASE StartAddFolder(t)
    <3>1. PICK p \in NewFolders : Begin(t, [Idle EXCEPT !.pc = "add", !.job = [op |-> "folder", path |-> p], !.goal = p])
      BY <2>4 DEF StartAddFolder
    <3> DEFINE r == [Idle EXCEPT !.pc = "add", !.job = [op |-> "folder", path |-> p], !.goal = p]
    <3>2. r.pc = "add" /\ Begin(t, r)
      BY <3>1 DEF Idle
    <3> HIDE DEF r
    <3> QED BY <2>1, <3>2
  <2>5. CASE StartAddFile(t)
    <3>1. PICK x \in NewFiles : Begin(t, [Idle EXCEPT !.pc = "add", !.goal = x.path,
                                !.job = [op |-> "file", path |-> x.path, id |-> x.id]])
      BY <2>5 DEF StartAddFile
    <3> DEFINE r == [Idle EXCEPT !.pc = "add", !.goal = x.path,
                                !.job = [op |-> "file", path |-> x.path, id |-> x.id]]
    <3>2. r.pc = "add" /\ Begin(t, r)
      BY <3>1 DEF Idle
    <3> HIDE DEF r
    <3> QED BY <2>1, <3>2
  <2> QED BY <1>3, <2>2, <2>3, <2>4, <2>5
<1>4. CASE Fails(t) \/ Return(t)
  <2> DEFINE r == [Idle EXCEPT !.pc = "error", !.job = thread[t].job]
  <2>1. r.pc = "error" /\ Idle.pc = "idle"
    BY DEF Idle
  <2>2. thread'[t] = r \/ thread'[t] = Idle
    BY <1>2, <1>4 DEF Fails, Return
  <2> HIDE DEF r
  <2> QED BY <2>1, <2>2
<1>5. CASE Resolve(t) \/ LastRow(t) \/ ReadRow(t) \/ RunQuery(t)
  BY <1>1, <1>2, <1>5 DEF Resolve, LastRow, ReadRow, RunQuery, Fields
<1>6. CASE Gather(t) \/ FoundAround(t)
  BY <1>1, <1>2, <1>6 DEF Gather, FoundAround, TakePairs, Fields
<1>7. CASE Gathered(t)
  BY <1>1, <1>2, <1>7 DEF Gathered, Fields
<1>8. CASE StartParse(t) \/ NextParse(t)
  BY <1>1, <1>2, <1>8 DEF StartParse, NextParse, Parse, Fields
<1>9. CASE Parsed(t)
  BY <1>1, <1>2, <1>9 DEF Parsed, Fields
<1> QED BY <1>3, <1>4, <1>5, <1>6, <1>7, <1>8, <1>9 DEF Step

\* A step changes the record of one thread.
LEMMA StepOfOther ==
  ASSUME Types, NEW t \in Threads, Step(t), NEW u \in Threads, u # t
  PROVE  thread'[u] = thread[u]
<1>1. ASSUME NEW r, Becomes(t, r) PROVE thread'[u] = thread[u]
  BY <1>1 DEF Becomes, Types
<1>2. CASE \/ StartList(t) \/ StartResolve(t) \/ StartAddFolder(t) \/ StartAddFile(t)
           \/ Resolve(t) \/ Gathered(t) \/ Parsed(t) \/ RunQuery(t) \/ ReadRow(t) \/ LastRow(t)
           \/ Fails(t) \/ Return(t)
  <2>1. \E r : Becomes(t, r)
    BY <1>2 DEF StartList, StartResolve, StartAddFolder, StartAddFile, Begin, Resolve, Gathered,
                Parsed, RunQuery, ReadRow, LastRow, Fails, Return
  <2> QED BY <1>1, <2>1
<1>3. CASE \/ EnterWalk(t) \/ NextWalk(t) \/ CutAhead(t) \/ EnterWay(t) \/ NextWay(t)
           \/ Gather(t) \/ FoundAround(t) \/ StartParse(t) \/ NextParse(t)
  <2>1. \E r : Becomes(t, r)
    BY <1>3 DEF EnterWalk, NextWalk, Visit, CutAhead, EnterWay, NextWay, AddItem,
                Gather, FoundAround, TakePairs, StartParse, NextParse, Parse
  <2> QED BY <1>1, <2>1
<1> QED BY <1>2, <1>3 DEF Step

\* A step of a thread that is not mixed up keeps it on its way.
LEMMA OwnWalk ==
  ASSUME Types, Walks, NEW t \in Threads, Step(t), t \notin mixed'
  PROVE  Walking(cursor', tree', t, thread'[t])
<1>1. CASE Return(t)
  <2>1. thread'[t] = Idle /\ Idle.pc = "idle"
    BY <1>1 DEF Return, Becomes, Types, Idle
  <2> QED BY <2>1 DEF Walking
<1>2. CASE ~Return(t)
  <2>1. mixed \subseteq mixed'
    BY <1>2 DEF Step, StartList, StartResolve, StartAddFolder, StartAddFile, Begin, EnterWalk,
       NextWalk, Resolve, CutAhead, EnterWay, NextWay, Gather, FoundAround, TakePairs, Gathered,
       StartParse, NextParse, Parsed, RunQuery, ReadRow, LastRow, Fails, MixUp
  <2>2. Walking(cursor, tree, t, thread[t])
    BY <2>1 DEF Walks
  <2>3. CASE EnterWalk(t) \/ NextWalk(t) \/ CutAhead(t) \/ EnterWay(t) \/ NextWay(t)
    BY <2>2, <2>3, EnterWalkWalks, NextWalkWalks, CutAheadWalks, WayWalks
  <2>4. CASE ~(EnterWalk(t) \/ NextWalk(t) \/ CutAhead(t) \/ EnterWay(t) \/ NextWay(t))
    BY <2>2, <2>4, OwnStepWalks DEF Walking
  <2> QED BY <2>3, <2>4
<1> QED BY <1>1, <1>2

LEMMA NextWalks ==
  ASSUME Types, Walks, [Next]_vars
  PROVE  Walks'
<1>1. CASE UNCHANGED vars
  BY <1>1 DEF vars, Walks
<1>2. ASSUME NEW t \in Threads, Step(t), NEW u \in Threads, u \notin mixed'
      PROVE  Walking(cursor', tree', u, thread'[u])
  BY <1>2, OwnWalk, OthersWalk
<1>3. CASE Next
  BY <1>2, <1>3 DEF Next, Walks
<1> QED BY <1>1, <1>3

LEMMA AlwaysWalks == Spec => []Walks
<1>1. Init => Walks
  BY DEF Init, Walks, Walking, Idle
<1>2. Types /\ Walks /\ [Next]_vars => Walks'
  BY NextWalks
<1> QED BY <1>1, <1>2, AlwaysTypes, PTL DEF Spec

\* A walk name by name ends where the path leads, while others walk and add: at the
\* first folder of that name, otherwise at the first file.
THEOREM LookupIsRight == Spec => []LookupRight
<1>1. Walks => LookupRight
  BY DEF Walks, Walking, LookupRight, Target
<1> QED BY <1>1, AlwaysWalks, PTL

\* The step that adds a folder or a file leaves a path that leads to it, a file unless a
\* folder hides it.
THEOREM AddedIsFound == Spec => AddedFound
<1> DEFINE added(t) == thread[t].pc \in {"lock", "way"} => Finds(t)
<1>1. ASSUME Types, Walks, Next, NEW t \in Threads, t \notin mixed
      PROVE  added(t)
  <2>1. Walking(cursor, tree, t, thread[t])
    BY <1>1 DEF Walks
  <2>2. PICK u \in Threads : Step(u)
    BY <1>1 DEF Next
  <2>3. CASE u # t
    <3>1. thread'[t] = thread[t]
      BY <1>1, <2>2, <2>3, StepOfOther
    <3> QED BY <3>1 DEF Finds
  <2>4. CASE u = t /\ (EnterWay(t) \/ NextWay(t))
    BY <1>1, <2>1, <2>4, WayWalks
  <2>5. CASE u = t /\ (EnterWalk(t) \/ NextWalk(t) \/ CutAhead(t))
    BY <2>5 DEF EnterWalk, NextWalk, CutAhead
  <2>6. CASE /\ u = t
             /\ ~(EnterWalk(t) \/ NextWalk(t) \/ CutAhead(t) \/ EnterWay(t) \/ NextWay(t))
    BY <1>1, <2>1, <2>2, <2>6, OwnStepWalks DEF Finds
  <2> QED BY <2>3, <2>4, <2>5, <2>6
<1>2. ASSUME Types, Walks, [Next]_vars
      PROVE  [\A t \in Threads \ mixed : added(t)]_vars
  BY <1>1, <1>2
<1>3. (\A t \in Threads \ mixed : added(t)) =>
        \A t \in Threads \ mixed :
          LET job == thread[t].job
              new(nodes, before) == \E n \in nodes : n \notin before
          IN  thread[t].pc \in {"lock", "way"} /\ thread'[t].pc = "done" =>
                \/ job.op = "folder" /\ new(FolderAt(tree', job.path), tree.folders)
                \/ job.op = "file" /\ (FolderAt(tree', job.path) # {}
                                        \/ new(FileAt(tree', job.path), tree.files))
  BY DEF Finds
<1> QED BY <1>2, <1>3, AlwaysTypes, AlwaysWalks, PTL DEF Spec, AddedFound

\* Adding a path hides no other folder: a path leads on to every folder that one led to, but
\* those of the path that is added and what is in them.
THEOREM NoneIsHidden == Spec => OthersStayFound
<1> DEFINE kept(t) == thread[t].pc \in {"lock", "way"} /\ thread'[t] # thread[t] => HidesNone(t)
<1>1. ASSUME Types, Walks, Next, NEW t \in Threads, t \notin mixed,
             thread[t].pc \in {"lock", "way"}, thread'[t] # thread[t]
      PROVE  HidesNone(t)
  <2>1. Walking(cursor, tree, t, thread[t])
    BY <1>1 DEF Walks
  <2>2. Step(t)
    BY <1>1, StepOfOther DEF Next
  <2>3. CASE EnterWay(t) \/ NextWay(t)
    BY <1>1, <2>1, <2>3, WayWalks
  <2>4. CASE ~(EnterWay(t) \/ NextWay(t))
    <3>1. tree' = tree
      BY <1>1, <2>2, <2>4 DEF Step, StartList, StartResolve, StartAddFolder, StartAddFile, Begin,
         EnterWalk, NextWalk, Resolve, CutAhead, Gather, FoundAround, TakePairs, Gathered,
         StartParse, NextParse, Parsed, RunQuery, ReadRow, LastRow, Fails, Return
    <3> QED BY <3>1 DEF HidesNone
  <2> QED BY <2>3, <2>4
<1>2. ASSUME Types, Walks, [Next]_vars
      PROVE  [\A t \in Threads \ mixed : kept(t)]_vars
  BY <1>1, <1>2
<1>3. (\A t \in Threads \ mixed : kept(t)) =>
        \A t \in Threads \ mixed :
          thread[t].pc \in {"lock", "way"} /\ thread'[t] # thread[t] =>
            \A d \in tree.folders :
              IsFirst(tree, At(d)) =>
                \/ IsFirst(tree', At(d))
                \/ thread'[t].pc = "done" /\ IsPrefix(thread[t].job.path, NamesOf(At(d)))
  BY DEF HidesNone
<1> QED BY <1>2, <1>3, AlwaysTypes, AlwaysWalks, PTL DEF Spec, OthersStayFound

-------------------------------------------------------------------------------
(* What the lists of pairs ask for, and that the SQL selects it.              *)

\* What a file is asked for at a key, by the first n items.
Asked(pairs, i) ==
  Term(pairs[i].text,
       IF i < Len(pairs) /\ pairs[i + 1].tag = "v" THEN {pairs[i + 1].text} ELSE Values)

AskedBy(pairs, n) == {Asked(pairs, i) : i \in {i \in 1..n : pairs[i].tag = "k"}}

ItemsAsked(x) == IF x.skipLast THEN Len(x.pairs) - 1 ELSE Len(x.pairs)

ListTerms(x) ==
  AskedBy(x.pairs, ItemsAsked(x)) \cup {PairTerm(Last(x.pairs).text, v) : v \in {x.value} \ {None}}

\* The lists of folder f: those of the folders around, the innermost first, and its own.
Around(f, i) == SubSeq(f, 1, Len(f) - i)

ListAt(f, i) ==
  IF i <= QueryOf(f).items
    THEN [pairs |-> QueryOf(Around(f, i)).pairs, skipLast |-> TRUE, value |-> f[Len(f) - i + 1]]
    ELSE [pairs |-> QueryOf(f).pairs, skipLast |-> QueryOf(f).folders, value |-> None]

TermsUpTo(f, n) == UNION {ListTerms(ListAt(f, i)) : i \in 1..n}

\* The files that have all that is asked for.
With(db, terms) == {p \in Paths : \A y \in terms : p \in FilesWith(db, y)}

LEMMA TableFacts ==
  ASSUME NEW db \in Tables
  PROVE  /\ \A r \in db.metadata : r.id \in Nat \ {0} /\ r.value \in Values
         /\ \A p \in Paths : db.links[p] \in Nat /\ db.links[p] <= db.lastId
         /\ db.lastId \in Nat
         /\ \A p, q \in Paths : db.links[p] = db.links[q] /\ db.links[p] # 0 => p = q
         /\ \A r \in db.metadata : \E p \in Paths : db.links[p] = r.id
<1>1. Cardinality(Paths) \in Nat /\ db \in Databases(Cardinality(Paths))
  BY ListingAssumption, TablesAssumption, FS_CardinalityType
<1> DEFINE max == Cardinality(Paths)
<1>2. /\ db.links \in [Paths -> 0..max] /\ db.lastId \in 0..max
      /\ db.metadata \in SUBSET [id : 1..max, key : 1..Cardinality(Keys), value : Values]
  BY <1>1 DEF Databases
<1> HIDE DEF max
<1>3. max \in Nat
  BY <1>1 DEF max
<1>4. \A r \in db.metadata : r.id \in Nat \ {0} /\ r.value \in Values
  BY <1>2, <1>3
<1>5. (\A p \in Paths : db.links[p] \in Nat) /\ db.lastId \in Nat
  BY <1>2, <1>3
<1> QED BY <1>4, <1>5, TablesAssumption DEF NoId

\* A file has a value of a key exactly when the query of the term selects it.
LEMMA HasTerm ==
  ASSUME NEW db, NEW p \in Paths, NEW k, NEW values
  PROVE  Has(db, p, k, values) <=> p \in FilesWith(db, Term(k, values))
<1> DEFINE y == Term(k, values)
<1>1. y.key = k /\ y.values = values
  BY DEF Term
<1> HIDE DEF y
<1>2. Has(db, p, k, values) <=> \E r \in RowsOf(db, p) : r.key = db.keys[k] /\ r.value \in values
  BY DEF Has, MetaOf, RowsAt
<1>3. p \in FilesWith(db, y) <=> \E r \in RowsOf(db, p) : r.key = db.keys[k] /\ r.value \in values
  BY <1>1 DEF FilesWith
<1> QED BY <1>2, <1>3 DEF y

LEMMA AskedFits ==
  ASSUME NEW db, NEW p \in Paths, NEW pairs \in Seq(Items), NEW skip \in BOOLEAN
  PROVE  Fits(db, p, pairs, IF skip THEN ListedKey(pairs) ELSE {}) <=>
           \A y \in AskedBy(pairs, IF skip THEN Len(pairs) - 1 ELSE Len(pairs)) :
             p \in FilesWith(db, y)
<1> DEFINE n == Len(pairs)
           besides == IF skip THEN ListedKey(pairs) ELSE {}
           m == IF skip THEN n - 1 ELSE n
           fits(i) == Has(db, p, pairs[i].text,
                          IF i < n /\ pairs[i + 1].tag = "v" THEN {pairs[i + 1].text} ELSE Values)
<1>1. n \in Nat /\ DOMAIN pairs = 1..n /\ \A i \in 1..n : pairs[i].tag \in {"k", "v"}
  <2>1. n \in Nat /\ DOMAIN pairs = 1..n /\ \A i \in 1..n : pairs[i] \in Items
    BY LenProperties, ElementOfSeq
  <2> QED BY <2>1 DEF Items
<1>2. \A i \in 1..n : pairs[i].tag = "k" => (i \in besides <=> ~(i \in 1..m))
  <2>1. SUFFICES ASSUME NEW i \in 1..n, pairs[i].tag = "k"
                 PROVE  i \in besides <=> ~(i \in 1..m)
    OBVIOUS
  <2>2. CASE ~skip
    BY <1>1, <2>2
  <2>3. CASE skip
    <3>1. pairs # <<>> /\ Last(pairs) = pairs[n]
      BY <1>1, EmptySeq DEF Last
    <3>2. i \in ListedKey(pairs) <=> i = n
      BY <1>1, <2>1, <3>1 DEF ListedKey
    <3>3. ~(i \in 1..(n - 1)) <=> i = n
      <4>1. n \in Nat /\ i \in 1..n
        BY <1>1
      <4> HIDE DEF n
      <4> QED BY <4>1
    <3> QED BY <2>3, <3>2, <3>3
  <2> QED BY <2>2, <2>3
<1>3. \A i \in 1..n : fits(i) <=> p \in FilesWith(db, Asked(pairs, i))
  BY HasTerm DEF Asked
<1>4. Fits(db, p, pairs, besides) <=> \A i \in 1..n : pairs[i].tag = "v" \/ i \in besides \/ fits(i)
  BY <1>1 DEF Fits
<1>5. m <= n /\ \A i \in 1..m : i \in 1..n
  BY <1>1
<1> HIDE DEF fits, besides, m, n
<1>6. Fits(db, p, pairs, besides) <=>
        \A i \in 1..m : pairs[i].tag = "k" => p \in FilesWith(db, Asked(pairs, i))
  BY <1>1, <1>2, <1>3, <1>4, <1>5
<1>7. (\A y \in AskedBy(pairs, m) : p \in FilesWith(db, y)) <=>
        \A i \in 1..m : pairs[i].tag = "k" => p \in FilesWith(db, Asked(pairs, i))
  BY DEF AskedBy
<1> QED BY <1>6, <1>7 DEF besides, m, n

\* One item more asks for one key more, if it is a key.
LEMMA AskedMore ==
  ASSUME NEW pairs, NEW n \in Nat
  PROVE  AskedBy(pairs, n + 1) =
           AskedBy(pairs, n) \cup IF pairs[n + 1].tag = "k" THEN {Asked(pairs, n + 1)} ELSE {}
<1>1. 1..(n + 1) = (1..n) \cup {n + 1}
  OBVIOUS
<1> QED BY <1>1 DEF AskedBy

\* The value that leads on from a folder around makes asking for its key needless.
LEMMA AroundFits ==
  ASSUME NEW db \in Tables, NEW p \in Paths, NEW pairs \in Seq(Items), NEW folders \in BOOLEAN, NEW v
  PROVE  /\ Fits(db, p, pairs, IF folders THEN ListedKey(pairs) ELSE {})
         /\ Has(db, p, Last(pairs).text, {v})
         <=> \A y \in AskedBy(pairs, Len(pairs) - 1) \cup {PairTerm(Last(pairs).text, v)} :
               p \in FilesWith(db, y)
<1> DEFINE n == Len(pairs)
           k == Last(pairs).text
           value == p \in FilesWith(db, PairTerm(k, v))
           rest == \A y \in AskedBy(pairs, n - 1) : p \in FilesWith(db, y)
           all == \A y \in AskedBy(pairs, n) : p \in FilesWith(db, y)
           fits == Fits(db, p, pairs, IF folders THEN ListedKey(pairs) ELSE {})
<1>1. Has(db, p, k, {v}) <=> value
  BY HasTerm DEF PairTerm
<1>2. fits <=> IF folders THEN rest ELSE all
  BY AskedFits
<1>3. n \in Nat
  BY LenProperties
<1>4. value => (rest <=> all)
  <2>1. CASE n = 0
    <3>1. 1..n = {} /\ 1..(n - 1) = {}
      BY <2>1
    <3> HIDE DEF n
    <3> QED BY <3>1 DEF AskedBy
  <2>2. CASE n # 0
    <3>1. n - 1 \in Nat /\ (n - 1) + 1 = n
      BY <1>3, <2>2
    <3> HIDE DEF n
    <3>2. AskedBy(pairs, n) =
            AskedBy(pairs, n - 1) \cup IF pairs[n].tag = "k" THEN {Asked(pairs, n)} ELSE {}
      BY <3>1, AskedMore
    <3>3. Asked(pairs, n) = KeyTerm(k)
      <4>1. ~(n < Len(pairs)) /\ pairs[n].text = k
        BY <1>3 DEF n, Last
      <4> HIDE DEF k
      <4> QED BY <4>1 DEF Asked, KeyTerm
    <3>4. value => p \in FilesWith(db, KeyTerm(k))
      <4>1. Has(db, p, k, {v}) => Has(db, p, k, Values)
        <5>1. ASSUME NEW w \in MetaOf(db, p, db.keys[k]) PROVE w \in Values
          BY TableFacts DEF MetaOf, RowsAt, RowsOf
        <5> QED BY <5>1 DEF Has
      <4>2. Has(db, p, k, Values) <=> p \in FilesWith(db, KeyTerm(k))
        BY HasTerm DEF KeyTerm
      <4> QED BY <1>1, <4>1, <4>2
    <3> HIDE DEF k
    <3> QED BY <3>2, <3>3, <3>4
  <2> QED BY <2>1, <2>2
<1>5. (\A y \in AskedBy(pairs, n - 1) \cup {PairTerm(k, v)} : p \in FilesWith(db, y)) <=> rest /\ value
  OBVIOUS
<1> HIDE DEF rest, all, value, fits
<1>6. fits /\ value <=> rest /\ value
  BY <1>2, <1>4
<1> QED BY <1>1, <1>5, <1>6 DEF fits, value, rest, k, n

\* An id that the terms select is the one of a single file.
LEMMA IdSelected ==
  ASSUME NEW db \in Tables, NEW terms, NEW p \in Paths, db.links[p] \in SelectedIds(db, terms)
  PROVE  \A y \in terms : p \in FilesWith(db, y)
<1> SUFFICES ASSUME NEW y \in terms PROVE p \in FilesWith(db, y)
  OBVIOUS
<1>1. db.links[p] \in 1..db.lastId
  BY DEF SelectedIds
<1>2. PICK q \in FilesWith(db, y) : db.links[q] = db.links[p]
  BY DEF SelectedIds
<1>3. db.links[p] # 0 /\ q \in Paths
  BY <1>1, TableFacts DEF FilesWith
<1>4. p = q
  BY <1>2, <1>3, TableFacts
<1> QED BY <1>2, <1>4

\* JFS_FILE_QUERY selects the files that have all that is asked for.
LEMMA FilesSelected ==
  ASSUME NEW db \in Tables, NEW terms, terms # {}
  PROVE  SelectFiles(db, terms) = With(db, terms)
<1>1. ASSUME NEW p \in With(db, terms) PROVE p \in SelectFiles(db, terms)
  <2>1. p \in Paths /\ \A y \in terms : p \in FilesWith(db, y)
    BY DEF With
  <2>2. PICK y \in terms : p \in FilesWith(db, y)
    BY <2>1
  <2>3. PICK r \in RowsOf(db, p) : TRUE
    BY <2>2 DEF FilesWith
  <2>4. r.id = db.links[p] /\ db.links[p] \in 1..db.lastId
    BY <2>1, <2>3, TableFacts DEF RowsOf
  <2>5. db.links[p] \in SelectedIds(db, terms)
    BY <2>1, <2>4 DEF SelectedIds
  <2> QED BY <2>1, <2>3, <2>5 DEF SelectFiles
<1>2. ASSUME NEW p \in SelectFiles(db, terms) PROVE p \in With(db, terms)
  <2>1. p \in Paths /\ db.links[p] \in SelectedIds(db, terms)
    BY DEF SelectFiles
  <2> QED BY <2>1, IdSelected DEF With
<1> QED BY <1>1, <1>2

\* JFS_FOLDER_QUERY selects the values of the key that these files have.
LEMMA ValuesSelected ==
  ASSUME NEW db \in Tables, NEW k, NEW terms
  PROVE  SelectValues(db, k, terms) = UNION {MetaOf(db, p, db.keys[k]) : p \in With(db, terms)}
<1>1. ASSUME NEW r \in db.metadata, r.key = db.keys[k],
             terms # {} => r.id \in SelectedIds(db, terms)
      PROVE  \E p \in With(db, terms) : r.value \in MetaOf(db, p, db.keys[k])
  <2>1. PICK p \in Paths : db.links[p] = r.id
    BY TableFacts
  <2>2. r.value \in MetaOf(db, p, db.keys[k])
    BY <1>1, <2>1 DEF MetaOf, RowsAt, RowsOf
  <2>3. p \in With(db, terms)
    BY <1>1, <2>1, IdSelected DEF With
  <2> QED BY <2>2, <2>3
<1>2. ASSUME NEW p \in With(db, terms), NEW r \in RowsAt(db, p, db.keys[k])
      PROVE  r.value \in SelectValues(db, k, terms)
  <2>1. r \in db.metadata /\ r.key = db.keys[k] /\ r.id = db.links[p] /\ p \in Paths
    BY DEF RowsAt, RowsOf, With
  <2>2. r.id \in 1..db.lastId
    BY <2>1, TableFacts
  <2>3. r.id \in SelectedIds(db, terms)
    BY <2>1, <2>2 DEF SelectedIds, With
  <2> QED BY <2>1, <2>3 DEF SelectValues
<1>3. SelectValues(db, k, terms) \subseteq UNION {MetaOf(db, p, db.keys[k]) : p \in With(db, terms)}
  BY <1>1 DEF SelectValues
<1>4. UNION {MetaOf(db, p, db.keys[k]) : p \in With(db, terms)} \subseteq SelectValues(db, k, terms)
  BY <1>2 DEF MetaOf
<1> QED BY <1>3, <1>4

\* The files below a folder are those that have all that its lists ask for.
LEMMA BelowAsked ==
  ASSUME NEW db \in Tables, NEW f \in Listed, QueryOf(f).items < Len(f),
         \A i \in 1..QueryOf(f).items : HasQuery(Around(f, i))
  PROVE  Below(db, f) = With(db, TermsUpTo(f, QueryOf(f).items + 1))
<1> DEFINE items == QueryOf(f).items
           len == Len(f)
<1>1. /\ f \in Seq(Names) /\ f # <<>> /\ items \in Nat /\ len \in Nat \ {0} /\ items < len
      /\ QueryOf(f).pairs \in Seq(Items) /\ QueryOf(f).folders \in BOOLEAN
  <2>1. f \in Seq(Names) /\ f # <<>> /\ Datapath(f) \in DOMAIN Query
    BY ListingAssumption DEF HasQuery
  <2>2. /\ items \in Nat /\ QueryOf(f).pairs \in Seq(Items)
        /\ QueryOf(f).folders \in BOOLEAN
    BY <2>1, ListingAssumption DEF QueryOf
  <2> QED BY <2>1, <2>2, LenProperties, EmptySeq
<1> SUFFICES ASSUME NEW p \in Paths
             PROVE  p \in Below(db, f) <=> p \in With(db, TermsUpTo(f, items + 1))
  BY DEF Below, With
<1> DEFINE query(n) == QueryOf(SubSeq(f, 1, n))
           fits(n) == Fits(db, p, query(n).pairs,
                           IF query(n).folders THEN ListedKey(query(n).pairs) ELSE {})
           leads(n) == Has(db, p, Last(query(n).pairs).text, {f[n + 1]})
           has(i) == \A y \in ListTerms(ListAt(f, i)) : p \in FilesWith(db, y)
<1>2. p \in Below(db, f) <=> \A n \in (len - items)..len : fits(n) /\ (n < len => leads(n))
  BY DEF Below
<1>3. p \in With(db, TermsUpTo(f, items + 1)) <=> \A i \in 1..(items + 1) : has(i)
  BY DEF With, TermsUpTo
<1>4. fits(len) <=> has(items + 1)
  <2> DEFINE x == ListAt(f, items + 1)
             q == QueryOf(f)
  <2>1. query(len) = q
    <3>1. SubSeq(f, 1, len) = f
      BY <1>1, SubSeqFull
    <3> QED BY <3>1
  <2>2. x = [pairs |-> q.pairs, skipLast |-> q.folders, value |-> None]
    <3>1. ~(items + 1 <= items)
      BY <1>1
    <3> QED BY <3>1 DEF ListAt
  <2>3. x.pairs = q.pairs /\ x.skipLast = q.folders /\ x.value = None
    BY ONLY <2>2
  <2> HIDE DEF x
  <2>4. ListTerms(x) = AskedBy(q.pairs, IF q.folders THEN Len(q.pairs) - 1 ELSE Len(q.pairs))
    BY <2>3 DEF ListTerms, ItemsAsked
  <2> HIDE DEF q, query
  <2>5. Fits(db, p, q.pairs, IF q.folders THEN ListedKey(q.pairs) ELSE {}) <=>
          \A y \in ListTerms(x) : p \in FilesWith(db, y)
    BY <1>1, <2>4, AskedFits DEF q
  <2> QED BY <2>1, <2>5 DEF x
<1>5. ASSUME NEW i \in 1..items
      PROVE  fits(len - i) /\ leads(len - i) <=> has(i)
  <2> DEFINE n == len - i
             q == QueryOf(Around(f, i))
             x == ListAt(f, i)
             v == f[n + 1]
  <2>1. q.pairs \in Seq(Items) /\ q.folders \in BOOLEAN
    BY ListingAssumption DEF QueryOf, HasQuery
  <2>2. query(n) = q
    BY DEF Around
  <2>3. n + 1 \in 1..Len(f) /\ i <= items
    BY <1>1
  <2>4. v # None
    <3>1. v \in Names
      BY <1>1, <2>3, ElementOfSeq
    <3> QED BY <3>1, Constants
  <2>5. x = [pairs |-> q.pairs, skipLast |-> TRUE, value |-> v]
    BY <2>3 DEF ListAt
  <2>6. x.pairs = q.pairs /\ x.skipLast = TRUE /\ x.value = v
    BY ONLY <2>5
  <2> HIDE DEF x, v
  <2>7. ListTerms(x) = AskedBy(q.pairs, Len(q.pairs) - 1) \cup {PairTerm(Last(q.pairs).text, v)}
    BY <2>4, <2>6 DEF ListTerms, ItemsAsked
  <2> HIDE DEF q, query, n
  <2>8. /\ Fits(db, p, q.pairs, IF q.folders THEN ListedKey(q.pairs) ELSE {})
        /\ Has(db, p, Last(q.pairs).text, {v})
        <=> \A y \in ListTerms(x) : p \in FilesWith(db, y)
    BY <2>1, <2>7, AroundFits
  <2>9. leads(n) <=> Has(db, p, Last(q.pairs).text, {v})
    BY <2>2 DEF v
  <2>10. fits(n) <=> Fits(db, p, q.pairs, IF q.folders THEN ListedKey(q.pairs) ELSE {})
    BY <2>2
  <2> QED BY <2>8, <2>9, <2>10 DEF x, n
<1> HIDE DEF fits, leads, has, items, len
<1>6. (\A n \in (len - items)..len : fits(n) /\ (n < len => leads(n))) <=>
        \A i \in 1..(items + 1) : has(i)
  <2>1. ASSUME \A n \in (len - items)..len : fits(n) /\ (n < len => leads(n)),
               NEW i \in 1..(items + 1)
        PROVE  has(i)
    <3>1. CASE i = items + 1
      <4>1. len \in (len - items)..len
        BY <1>1
      <4> QED BY <1>4, <2>1, <3>1, <4>1
    <3>2. CASE i # items + 1
      <4>1. i \in 1..items /\ len - i \in (len - items)..len /\ len - i < len
        BY <1>1, <3>2
      <4>2. fits(len - i) /\ leads(len - i)
        BY <2>1, <4>1
      <4> QED BY <1>5, <4>1, <4>2
    <3> QED BY <3>1, <3>2
  <2>2. ASSUME \A i \in 1..(items + 1) : has(i), NEW n \in (len - items)..len
        PROVE  fits(n) /\ (n < len => leads(n))
    <3>1. CASE n = len
      <4>1. items + 1 \in 1..(items + 1) /\ ~(n < len)
        BY <1>1, <3>1
      <4> QED BY <1>4, <2>2, <3>1, <4>1
    <3>2. CASE n # len
      <4> DEFINE i == len - n
      <4>1. i \in 1..items /\ i \in 1..(items + 1) /\ len - i = n
        BY <1>1, <3>2
      <4> HIDE DEF i
      <4>2. fits(len - i) /\ leads(len - i)
        BY <1>5, <2>2, <4>1
      <4> QED BY <4>1, <4>2
    <3> QED BY <3>1, <3>2
  <2> QED BY <2>1, <2>2
<1> QED BY <1>2, <1>3, <1>6 DEF items, len

\* What a query finds with the terms of all the lists of a folder.
LEMMA QueryFinds ==
  ASSUME NEW db \in Tables, NEW f \in Listed, QueryOf(f).items < Len(f),
         \A i \in 1..QueryOf(f).items : HasQuery(Around(f, i)),
         NEW terms, terms = TermsUpTo(f, QueryOf(f).items + 1),
         QueryOf(f).folders \/ terms # {}
  PROVE  IF QueryOf(f).folders
           THEN SelectValues(db, Last(QueryOf(f).pairs).text, terms) = Expected(db, f)
           ELSE SelectFiles(db, terms) = Expected(db, f)
<1>1. Below(db, f) = With(db, terms)
  BY BelowAsked
<1>2. SelectValues(db, Last(QueryOf(f).pairs).text, terms) =
        UNION {MetaOf(db, p, db.keys[Last(QueryOf(f).pairs).text]) : p \in With(db, terms)}
  BY ValuesSelected
<1>3. ~QueryOf(f).folders => SelectFiles(db, terms) = With(db, terms)
  BY FilesSelected
<1> QED BY <1>1, <1>2, <1>3 DEF Expected

-------------------------------------------------------------------------------
(* A listing that is not mixed up gathers its lists and asks for their terms. *)

Pending(pairs, n) == IF n > 0 /\ pairs[n].tag = "k" THEN pairs[n].text ELSE None

\* The terms of the lists that have been parsed.
Before(r) == TermsUpTo(r.job.path, QueryOf(r.job.path).items + 1 - Len(r.todo))

\* The lists of the folders around, as far as they have been gathered.
GatherOK(r) ==
  LET f == r.job.path
  IN  /\ r.terms = {} /\ r.key = None /\ r.list = {}
      /\ Len(r.todo) <= QueryOf(f).items /\ Len(r.todo) < Len(f)
      /\ \A i \in 1..Len(r.todo) : HasQuery(Around(f, i)) /\ r.todo[i] = ListAt(f, i)

\* The lists that are left to parse.
RestOK(r) ==
  LET f == r.job.path
      items == QueryOf(f).items
  IN  /\ r.list = {} /\ items < Len(f)
      /\ \A i \in 1..items : HasQuery(Around(f, i))
      /\ Len(r.todo) <= items + 1
      /\ \A i \in 1..Len(r.todo) : r.todo[i] = ListAt(f, items + 1 - Len(r.todo) + i)

\* The list that is parsed, of which n items have been cut.
CutOK(c, t, r, n) ==
  LET pairs == Head(r.todo).pairs
  IN  /\ Left(c, t, "semicolon", PairTokens(t, pairs), n)
      /\ r.terms = Before(r) \cup AskedBy(pairs, n - 1)
      /\ r.key = Pending(pairs, n)

ParsedOK(r) ==
  LET x == Head(r.todo)
  IN  r.key = None /\ r.terms = Before(r) \cup AskedBy(x.pairs, ItemsAsked(x))

QueryOK(r) ==
  LET f == r.job.path
  IN  /\ r.terms = TermsUpTo(f, QueryOf(f).items + 1)
      /\ QueryOf(f).folders \/ r.terms # {}

Answering(c, t, r) ==
  r.job.op = "list" =>
    /\ r.pc \in {"gather", "find", "walk", "found"} => GatherOK(r)
    /\ r.pc \in {"find", "walk", "found"} => Len(r.todo) < QueryOf(r.job.path).items
    /\ r.pc \in {"parse", "pairs", "parsed", "query"} => RestOK(r)
    /\ r.pc = "parse" => r.key = None /\ r.terms = Before(r)
    /\ r.pc = "pairs" => \E n \in 1..Len(Head(r.todo).pairs) : CutOK(c, t, r, n)
    /\ r.pc = "parsed" => ParsedOK(r)
    /\ r.pc = "query" => QueryOK(r)
    /\ r.pc = "rows" => r.rows \cup r.list = r.due
    /\ r.pc = "done" => r.list = r.due

Answers == \A t \in Threads \ mixed : Answering(cursor, t, thread[t])

LEMMA OthersAnswer ==
  ASSUME Types, Answers, NEW t \in Threads, Step(t), NEW u \in Threads, u # t, u \notin mixed'
  PROVE  Answering(cursor', u, thread'[u])
<1>1. Answering(cursor, u, thread[u]) /\ thread'[u] = thread[u]
  BY OthersKept DEF Answers
<1>2. CASE thread[u].pc = "pairs"
  <2>1. thread[u].job.op = "list"
    BY <1>2 DEF Types, RecordOK, JobOK
  <2>2. cursor.by = u
    BY <1>1, <1>2, <2>1 DEF Answering, CutOK, Left
  <2>3. cursor' = cursor
    BY <1>2, <2>2, OthersKept DEF Cutting
  <2> QED BY <1>1, <2>3
<1>3. CASE thread[u].pc # "pairs"
  BY <1>1, <1>3 DEF Answering
<1> QED BY <1>2, <1>3

\* A walk to a folder around leaves the lists alone.
LEMMA StillGathering ==
  ASSUME NEW c, NEW d, NEW t, NEW o, NEW r, Answering(c, t, o),
         o.pc \in {"find", "walk", "found"}, r.pc \in {"find", "walk", "found"},
         r.job = o.job, r.todo = o.todo, r.key = o.key, r.terms = o.terms, r.list = o.list
  PROVE  Answering(d, t, r)
  BY DEF Answering, GatherOK

LEMMA WalkAnswers ==
  ASSUME Types, NEW t \in Threads, EnterWalk(t) \/ NextWalk(t), Answering(cursor, t, thread[t])
  PROVE  Answering(cursor', t, thread'[t])
<1> DEFINE o == thread[t]
<1>1. DOMAIN o = Fields /\ o.pc \in {"find", "walk"}
  BY DEF Types, RecordOK, EnterWalk, NextWalk
<1>2. PICK c : Visit(t, c)
  BY DEF EnterWalk, NextWalk
<1>3. ASSUME NEW nodes, Becomes(t, [thread[t] EXCEPT !.pc = "found", !.node = nodes])
      PROVE  Answering(cursor', t, thread'[t])
  <2> DEFINE r == [thread[t] EXCEPT !.pc = "found", !.node = nodes]
  <2>1. /\ r.pc = "found" /\ r.job = o.job /\ r.todo = o.todo /\ r.key = o.key
        /\ r.terms = o.terms /\ r.list = o.list
    BY <1>1 DEF Fields
  <2>2. thread'[t] = r
    BY <1>3 DEF Becomes, Types
  <2> HIDE DEF r
  <2> QED BY <1>1, <2>1, <2>2, StillGathering
<1>4. ASSUME NEW at, Becomes(t, [thread[t] EXCEPT !.pc = "walk", !.at = at])
      PROVE  Answering(cursor', t, thread'[t])
  <2> DEFINE r == [thread[t] EXCEPT !.pc = "walk", !.at = at]
  <2>1. /\ r.pc = "walk" /\ r.job = o.job /\ r.todo = o.todo /\ r.key = o.key
        /\ r.terms = o.terms /\ r.list = o.list
    BY <1>1 DEF Fields
  <2>2. thread'[t] = r
    BY <1>4 DEF Becomes, Types
  <2> HIDE DEF r
  <2> QED BY <1>1, <2>1, <2>2, StillGathering
<1> QED BY <1>2, <1>3, <1>4 DEF Visit

\* The list of the next folder around.
LEMMA TakeAnswers ==
  ASSUME Types, NEW t \in Threads, thread[t].pc \in {"gather", "found"},
         thread[t].job.op = "list", Answering(cursor, t, thread[t]), t \notin mixed',
         Len(thread[t].todo) < QueryOf(thread[t].job.path).items,
         NEW g, g = Around(thread[t].job.path, Len(thread[t].todo) + 1),
         NEW datapaths, TakePairs(t, g, datapaths),
         datapaths \cap DOMAIN Query # {} =>
           /\ Len(thread[t].todo) + 1 < Len(thread[t].job.path)
           /\ Len(g) = Len(thread[t].job.path) - (Len(thread[t].todo) + 1)
  PROVE  Answering(cursor', t, thread'[t])
<1> DEFINE o == thread[t]
           f == o.job.path
           n == Len(o.todo)
<1>1. /\ DOMAIN o = Fields /\ o.todo \in Seq(Lists) /\ f \in Listed /\ GatherOK(o)
      /\ n \in Nat
  <2>1. DOMAIN o = Fields /\ o.todo \in Seq(Lists) /\ f \in Listed
    BY DEF Types, RecordOK, TodoOK, JobOK
  <2> QED BY <2>1, LenProperties DEF Answering
<1>2. ASSUME NEW d \in datapaths \cap DOMAIN Query, d = Datapath(g), NEW e,
             e = [pairs |-> Query[d].pairs, skipLast |-> TRUE, value |-> f[Len(g) + 1]],
             Becomes(t, [thread[t] EXCEPT !.pc = "gather", !.goal = <<>>, !.at = <<>>,
                                          !.node = {}, !.todo = Append(@, e)])
      PROVE  Answering(cursor', t, thread'[t])
  <2> DEFINE r == [thread[t] EXCEPT !.pc = "gather", !.goal = <<>>, !.at = <<>>,
                                    !.node = {}, !.todo = Append(@, e)]
  <2>1. /\ r.pc = "gather" /\ r.job = o.job /\ r.todo = Append(o.todo, e) /\ r.key = o.key
        /\ r.terms = o.terms /\ r.list = o.list
    BY <1>1 DEF Fields
  <2>2. thread'[t] = r
    BY <1>2 DEF Becomes, Types
  <2> HIDE DEF r
  <2>3. HasQuery(g) /\ Query[d] = QueryOf(g)
    BY <1>2 DEF HasQuery, QueryOf
  <2>4. n + 1 < Len(f) /\ Len(g) = Len(f) - (n + 1) /\ Len(f) \in Nat
    <3>1. f \in Seq(Names)
      BY <1>1, ListingAssumption
    <3> QED BY <1>2, <3>1, LenProperties
  <2>5. e = ListAt(f, n + 1)
    <3>1. n + 1 <= QueryOf(f).items
      BY <1>1, ListingAssumption DEF QueryOf, HasQuery
    <3>2. ListAt(f, n + 1) = [pairs |-> QueryOf(g).pairs, skipLast |-> TRUE,
                              value |-> f[Len(f) - (n + 1) + 1]]
      BY <3>1 DEF ListAt
    <3>3. Len(f) - (n + 1) + 1 = Len(g) + 1
      BY <2>4
    <3> QED BY <1>2, <2>3, <3>2, <3>3
  <2>6. /\ Len(r.todo) = n + 1 /\ r.todo[n + 1] = e
        /\ \A i \in 1..n : r.todo[i] = o.todo[i]
    <3>1. e \in Lists
      <4>1. Query[d].pairs \in Seq(Items)
        BY <1>2, ListingAssumption
      <4>2. f[Len(g) + 1] \in Names
        <5>1. Len(g) + 1 \in 1..Len(f) /\ f \in Seq(Names)
          <6>1. f \in Seq(Names)
            BY <1>1, ListingAssumption
          <6> HIDE DEF n, f
          <6>2. Len(g) + 1 \in 1..Len(f)
            BY <1>1, <2>4
          <6> QED BY <6>1, <6>2 DEF f
        <5> QED BY <5>1, ElementOfSeq
      <4> QED BY <1>2, <4>1, <4>2 DEF Lists
    <3> QED BY <1>1, <2>1, <3>1, AppendProperties
  <2> HIDE DEF n, f
  <2>7. \A i \in 1..(n + 1) : HasQuery(Around(f, i)) /\ r.todo[i] = ListAt(f, i)
    <3>1. \A i \in 1..n : HasQuery(Around(f, i)) /\ o.todo[i] = ListAt(f, i)
      BY <1>1 DEF GatherOK, f, n
    <3>2. HasQuery(Around(f, n + 1))
      BY <2>3 DEF f, n
    <3>3. \A i \in 1..(n + 1) : i \in 1..n \/ i = n + 1
      BY <1>1
    <3> QED BY <2>5, <2>6, <3>1, <3>2, <3>3
  <2>8. n + 1 <= QueryOf(f).items
    BY <1>1, ListingAssumption DEF QueryOf, HasQuery, n, f
  <2>9. GatherOK(r)
    <3>1. r.terms = {} /\ r.key = None /\ r.list = {}
      BY <1>1, <2>1 DEF GatherOK
    <3> QED BY <2>1, <2>4, <2>6, <2>7, <2>8, <3>1 DEF GatherOK, f
  <2> QED BY <2>1, <2>2, <2>9 DEF Answering
<1>3. CASE Becomes(t, [thread[t] EXCEPT !.pc = "error"])
  <2>1. thread'[t].pc = "error"
    BY <1>1, <1>3 DEF Becomes, Types, Fields
  <2> QED BY <2>1 DEF Answering
<1> QED BY <1>2, <1>3 DEF TakePairs

LEMMA GatherAnswers ==
  ASSUME Types, NEW t \in Threads, Gather(t), Answering(cursor, t, thread[t]), t \notin mixed'
  PROVE  Answering(cursor', t, thread'[t])
<1> DEFINE o == thread[t]
           f == o.job.path
           m == Len(o.todo)
           n == Len(f) - m - 1
           g == SubSeq(f, 1, n)
<1>1. /\ DOMAIN o = Fields /\ o.pc = "gather" /\ o.job.op = "list" /\ f \in Listed
      /\ o.todo \in Seq(Lists) /\ m < QueryOf(f).items
  BY DEF Types, RecordOK, TodoOK, JobOK, Gather
<1>2. f \in Seq(Names) /\ <<>> \notin DOMAIN Query /\ m \in Nat
  BY <1>1, ListingAssumption, LenProperties
<1>3. Len(f) \in Nat
  BY <1>2, LenProperties
<1>4. CASE /\ Len(g) > 1
           /\ Becomes(t, [thread[t] EXCEPT !.pc = "find", !.goal = g])
  <2> DEFINE r == [thread[t] EXCEPT !.pc = "find", !.goal = g]
  <2>1. /\ r.pc = "find" /\ r.job = o.job /\ r.todo = o.todo /\ r.key = o.key
        /\ r.terms = o.terms /\ r.list = o.list
    BY <1>1 DEF Fields
  <2>2. thread'[t] = r
    BY <1>4 DEF Becomes, Types
  <2> HIDE DEF r
  <2>3. GatherOK(r)
    BY <1>1, <2>1 DEF Answering, GatherOK
  <2> QED BY <1>1, <2>1, <2>2, <2>3 DEF Answering
<1>5. CASE Len(g) <= 1 /\ TakePairs(t, g, {g})
  <2> HIDE DEF o, f, m
  <2>1. n \in Int /\ n <= Len(f) /\ n = Len(f) - (m + 1)
    BY <1>2, <1>3, Fewer
  <2> HIDE DEF n
  <2>2. /\ n > 0 => Len(g) = n
        /\ n <= 0 => g = <<>> /\ Len(g) = 0
    BY <1>2, <2>1, AroundFacts
  <2>3. g = Around(f, m + 1)
    BY <2>1 DEF Around
  <2> HIDE DEF g
  <2>4. {g} \cap DOMAIN Query # {} => m + 1 < Len(f) /\ Len(g) = Len(f) - (m + 1)
    <3>1. {g} \cap DOMAIN Query # {} => n = 1
      BY <1>2, <1>5, <2>1, <2>2
    <3> QED BY <1>2, <1>3, <2>1, <2>2, <3>1
  <2> QED BY <1>1, <1>5, <2>3, <2>4, TakeAnswers DEF o, f, m
<1> QED BY <1>4, <1>5 DEF Gather

LEMMA FoundAroundAnswers ==
  ASSUME Types, NEW t \in Threads, FoundAround(t), Answering(cursor, t, thread[t]), t \notin mixed'
  PROVE  Answering(cursor', t, thread'[t])
<1> DEFINE o == thread[t]
           f == o.job.path
           m == Len(o.todo)
           n == Len(f) - m - 1
<1>1. /\ o.pc = "found" /\ o.job.op = "list" /\ f \in Listed
      /\ o.todo \in Seq(Lists) /\ n > 1 /\ o.goal = SubSeq(f, 1, n)
  BY DEF Types, RecordOK, TodoOK, JobOK, FoundAround
<1>2. f \in Seq(Names) /\ m \in Nat /\ m < QueryOf(f).items
  BY <1>1, ListingAssumption, LenProperties DEF Answering
<1>3. Len(f) \in Nat
  BY <1>2, LenProperties
<1>4. TakePairs(t, o.goal, {d.datapath : d \in o.node \cap tree.folders})
  BY DEF FoundAround
<1>5. o.goal = Around(f, m + 1) /\ m + 1 < Len(f) /\ Len(o.goal) = Len(f) - (m + 1)
  <2> HIDE DEF o, f, m
  <2>1. n \in Int /\ n <= Len(f) /\ n = Len(f) - (m + 1)
    BY <1>2, <1>3, Fewer
  <2>2. m + 1 < Len(f)
    BY <1>1, <1>2, <1>3
  <2> HIDE DEF n
  <2>3. Len(o.goal) = n
    BY <1>1, <1>2, <2>1, AroundFacts
  <2> QED BY <1>1, <2>1, <2>2, <2>3 DEF Around
<1> QED BY <1>1, <1>2, <1>4, <1>5, TakeAnswers

\* The folder's own list comes last.
LEMMA GatheredAnswers ==
  ASSUME Types, NEW t \in Threads, Gathered(t), Answering(cursor, t, thread[t])
  PROVE  Answering(cursor', t, thread'[t])
<1> DEFINE o == thread[t]
           f == o.job.path
           q == QueryOf(f)
           m == Len(o.todo)
           e == [pairs |-> q.pairs, skipLast |-> q.folders, value |-> None]
           r == [thread[t] EXCEPT !.pc = "parse", !.todo = Append(@, e)]
<1>1. /\ DOMAIN o = Fields /\ o.todo \in Seq(Lists) /\ o.pc = "gather" /\ o.job.op = "list"
      /\ f \in Listed /\ m >= q.items /\ GatherOK(o)
  BY DEF Types, RecordOK, TodoOK, JobOK, Gathered, Answering
<1>2. q.pairs \in Seq(Items) /\ q.folders \in BOOLEAN /\ q.items \in Nat /\ m \in Nat
  BY <1>1, ListingAssumption, LenProperties DEF QueryOf, HasQuery
<1>3. thread'[t] = r
  BY DEF Gathered, Becomes, Types
<1>4. e \in Lists
  BY <1>2 DEF Lists
<1>5. e = ListAt(f, q.items + 1)
  <2>1. ~(q.items + 1 <= q.items)
    BY <1>2
  <2> QED BY <2>1 DEF ListAt
<1> HIDE DEF e
<1>6. /\ r.pc = "parse" /\ r.job = o.job /\ r.todo = Append(o.todo, e) /\ r.key = o.key
      /\ r.terms = o.terms /\ r.list = o.list
  BY <1>1 DEF Fields
<1> HIDE DEF r
<1>7. /\ r.list = {} /\ r.key = None /\ r.terms = {} /\ m = q.items /\ q.items < Len(f)
      /\ \A i \in 1..m : HasQuery(Around(f, i)) /\ o.todo[i] = ListAt(f, i)
  <2>1. /\ o.list = {} /\ o.key = None /\ o.terms = {} /\ m <= q.items /\ m < Len(f)
        /\ \A i \in 1..m : HasQuery(Around(f, i)) /\ o.todo[i] = ListAt(f, i)
    BY <1>1 DEF GatherOK
  <2>2. m = q.items
    <3> HIDE DEF m, q
    <3> QED BY <1>1, <1>2, <2>1
  <2> QED BY <1>6, <2>1, <2>2
<1>8. /\ Len(r.todo) = m + 1 /\ r.todo[m + 1] = e
      /\ \A i \in 1..m : r.todo[i] = o.todo[i]
  BY <1>1, <1>4, <1>6, AppendProperties
<1>9. RestOK(r)
  <2>1. r.job.path = f
    BY <1>6
  <2> HIDE DEF m, f, q, o
  <2>2. \A i \in 1..Len(r.todo) : r.todo[i] = ListAt(f, q.items + 1 - Len(r.todo) + i)
    <3> SUFFICES ASSUME NEW i \in 1..(m + 1) PROVE r.todo[i] = ListAt(f, q.items + 1 - Len(r.todo) + i)
      BY <1>8
    <3>1. q.items + 1 - Len(r.todo) + i = i /\ (i = m + 1 \/ i \in 1..m)
      BY <1>2, <1>7, <1>8
    <3> QED BY <1>5, <1>7, <1>8, <3>1
  <2>3. Len(r.todo) <= q.items + 1
    BY <1>2, <1>7, <1>8
  <2> QED BY <1>7, <2>1, <2>2, <2>3 DEF RestOK, q
<1>10. Before(r) = {}
  <2>1. r.job.path = f
    BY <1>6
  <2> HIDE DEF m, f, o
  <2>2. q.items + 1 - Len(r.todo) = 0
    BY <1>2, <1>7, <1>8
  <2>3. 1..0 = {}
    OBVIOUS
  <2> QED BY <2>1, <2>2, <2>3 DEF Before, TermsUpTo, q
<1> QED BY <1>3, <1>6, <1>7, <1>9, <1>10 DEF Answering

\* What the key that has been cut asks for depends on the item that follows.
LEMMA PendingAsked ==
  ASSUME NEW pairs \in Seq(Items), NEW n \in 0..Len(pairs)
  PROVE  AskedBy(pairs, n) =
           AskedBy(pairs, n - 1) \cup
             {Term(k, IF n < Len(pairs) /\ pairs[n + 1].tag = "v" THEN {pairs[n + 1].text}
                      ELSE Values) : k \in {Pending(pairs, n)} \ {None}}
<1> DEFINE follows(k) == Term(k, IF n < Len(pairs) /\ pairs[n + 1].tag = "v"
                                   THEN {pairs[n + 1].text} ELSE Values)
           asked == {follows(k) : k \in {Pending(pairs, n)} \ {None}}
<1>0. SUFFICES AskedBy(pairs, n) = AskedBy(pairs, n - 1) \cup asked
  OBVIOUS
<1> HIDE DEF follows, asked
<1>1. Len(pairs) \in Nat /\ \A i \in 1..Len(pairs) : pairs[i] \in Items
  BY LenProperties, ElementOfSeq
<1>2. CASE n = 0
  <2>1. 1..n = {} /\ 1..(n - 1) = {}
    BY <1>2
  <2>2. Pending(pairs, n) = None
    BY <1>2 DEF Pending
  <2> QED BY <2>1, <2>2 DEF AskedBy, asked
<1>3. CASE n > 0
  <2>2. AskedBy(pairs, n) =
          AskedBy(pairs, n - 1) \cup IF pairs[n].tag = "k" THEN {Asked(pairs, n)} ELSE {}
    <3> DEFINE m == n - 1
    <3>1. m \in Nat /\ m + 1 = n
      BY <1>1, <1>3
    <3> HIDE DEF m
    <3>2. AskedBy(pairs, m + 1) =
            AskedBy(pairs, m) \cup IF pairs[m + 1].tag = "k" THEN {Asked(pairs, m + 1)} ELSE {}
      BY <3>1, AskedMore
    <3> QED BY <3>1, <3>2 DEF m
  <2>3. pairs[n] \in Items
    BY <1>1, <1>3
  <2>4. CASE pairs[n].tag = "k"
    <3>1. Pending(pairs, n) = pairs[n].text /\ pairs[n].text # None
      BY <1>3, <2>3, <2>4, Constants DEF Pending, Items
    <3>2. Asked(pairs, n) = follows(pairs[n].text)
      BY DEF Asked, follows
    <3>3. asked = {Asked(pairs, n)}
      BY <3>1, <3>2 DEF asked
    <3> QED BY <2>2, <2>4, <3>3
  <2>5. CASE pairs[n].tag # "k"
    <3>1. Pending(pairs, n) = None
      BY <2>5 DEF Pending
    <3>2. asked = {}
      BY <3>1 DEF asked
    <3> QED BY <2>2, <2>5, <3>2
  <2> QED BY <2>4, <2>5
<1> QED BY <1>1, <1>2, <1>3

LEMMA ParseAnswers ==
  ASSUME Types, NEW t \in Threads, thread[t].pc \in {"parse", "pairs"}, RestOK(thread[t]),
         NEW pairs, pairs = Head(thread[t].todo).pairs,
         NEW n \in 0..Len(pairs),
         thread[t].terms = Before(thread[t]) \cup AskedBy(pairs, n - 1),
         thread[t].key = Pending(pairs, n),
         NEW c, Parse(t, c),
         n = Len(pairs) => c.token = NoToken,
         n < Len(pairs) => /\ c.token = PairTokens(t, pairs)[n + 1]
                           /\ Left(c.cursor, t, "semicolon", PairTokens(t, pairs), n + 1)
  PROVE  Answering(cursor', t, thread'[t])
<1> DEFINE o == thread[t]
           x == c.token
           key == o.key
           follows(k) == Term(k, IF n < Len(pairs) /\ pairs[n + 1].tag = "v"
                                   THEN {pairs[n + 1].text} ELSE Values)
           asked == {follows(k) : k \in {key} \ {None}}
<1>1. DOMAIN o = Fields /\ o.job.op = "list" /\ key \in Keys \cup {None}
  BY DEF Types, RecordOK, JobOK, TermsOK
<1>2. pairs \in Seq(Items) /\ Head(o.todo).skipLast \in BOOLEAN
  BY HeadFacts DEF Lists
<1>3. /\ Len(pairs) \in Nat /\ \A i \in 1..Len(pairs) : pairs[i] \in Items
      /\ \A i \in 1..Len(pairs) :
           PairTokens(t, pairs)[i] = Token(t, pairs[i].tag, pairs[i].text, FALSE)
  BY <1>2, PairTokensFacts, ElementOfSeq
<1>4. AskedBy(pairs, n) = AskedBy(pairs, n - 1) \cup asked
  <2>1. key = Pending(pairs, n)
    OBVIOUS
  <2> HIDE DEF key
  <2>2. asked = {follows(k) : k \in {Pending(pairs, n)} \ {None}}
    BY <2>1
  <2> HIDE DEF asked
  <2> QED BY <1>2, <2>2, PendingAsked
<1>5. n < Len(pairs) => /\ x.tag = pairs[n + 1].tag /\ x.text = pairs[n + 1].text
                        /\ x # NoToken /\ x.tag \in {"k", "v"}
                        /\ n + 1 \in 1..Len(pairs)
  <2> SUFFICES ASSUME n < Len(pairs)
               PROVE  /\ x.tag = pairs[n + 1].tag /\ x.text = pairs[n + 1].text
                      /\ x # NoToken /\ x.tag \in {"k", "v"} /\ n + 1 \in 1..Len(pairs)
    OBVIOUS
  <2>1. n + 1 \in 1..Len(pairs)
    BY <1>3
  <2>2. x = Token(t, pairs[n + 1].tag, pairs[n + 1].text, FALSE)
    BY <1>3, <2>1
  <2>3. pairs[n + 1].tag \in {"k", "v"}
    BY <1>3, <2>1 DEF Items
  <2> QED BY <2>1, <2>2, <2>3 DEF Token, NoToken
<1>6. n = Len(pairs) \/ n < Len(pairs)
  BY <1>3
<1> HIDE DEF x, key, asked, follows
\* What the record becomes.
<1>7. ASSUME NEW pc, NEW newKey, NEW term,
             Becomes(t, [thread[t] EXCEPT !.pc = pc, !.key = newKey, !.terms = @ \cup term])
      PROVE  LET r == thread'[t]
             IN  /\ r.pc = pc /\ r.key = newKey /\ r.terms = o.terms \cup term
                 /\ r.todo = o.todo /\ r.job = o.job /\ r.list = o.list
                 /\ RestOK(r) /\ Before(r) = Before(o)
  <2> DEFINE r == [thread[t] EXCEPT !.pc = pc, !.key = newKey, !.terms = @ \cup term]
  <2>1. /\ r.pc = pc /\ r.key = newKey /\ r.terms = o.terms \cup term
        /\ r.todo = o.todo /\ r.job = o.job /\ r.list = o.list
    BY <1>1 DEF Fields
  <2>2. thread'[t] = r
    BY <1>7 DEF Becomes, Types
  <2> HIDE DEF r
  <2> QED BY <2>1, <2>2 DEF RestOK, Before
\* The list goes on with the next item.
<1>8. ASSUME n < Len(pairs), NEW newKey, newKey = Pending(pairs, n + 1), NEW term, term = asked,
             Becomes(t, [thread[t] EXCEPT !.pc = "pairs", !.key = newKey, !.terms = @ \cup term]),
             cursor' = c.cursor
      PROVE  Answering(cursor', t, thread'[t])
  <2> DEFINE r == thread'[t]
  <2>1. /\ r.pc = "pairs" /\ r.key = newKey /\ r.terms = o.terms \cup term
        /\ r.todo = o.todo /\ r.job = o.job /\ RestOK(r) /\ Before(r) = Before(o)
    BY <1>7, <1>8
  <2> HIDE DEF r
  <2>2. r.terms = Before(r) \cup AskedBy(pairs, n)
    BY <1>4, <1>8, <2>1
  <2>3. n + 1 \in 1..Len(pairs) /\ (n + 1) - 1 = n
    BY <1>5, <1>8
  <2>4. CutOK(cursor', t, r, n + 1)
    BY <1>8, <2>1, <2>2, <2>3 DEF CutOK
  <2>5. \E i \in 1..Len(Head(r.todo).pairs) : CutOK(cursor', t, r, i)
    BY <2>1, <2>3, <2>4
  <2> QED BY <2>1, <2>5 DEF Answering, r
\* The list has ended.
<1>9. CASE x = NoToken
  <2> DEFINE term == {KeyTerm(k) : k \in {key} \ (LeftOut(t) \cup {None})}
             r == thread'[t]
  <2>1. Becomes(t, [thread[t] EXCEPT !.pc = "parsed", !.key = None, !.terms = @ \cup term])
    <3>1. x.tag = "null"
      BY <1>9 DEF NoToken, Token
    <3> QED BY <1>9, <3>1 DEF Parse, x, key
  <2>2. n = Len(pairs)
    BY <1>5, <1>6, <1>9
  <2> HIDE DEF term
  <2>3. /\ r.pc = "parsed" /\ r.key = None /\ r.terms = o.terms \cup term
        /\ r.todo = o.todo /\ r.job = o.job /\ RestOK(r) /\ Before(r) = Before(o)
    BY <1>7, <2>1
  <2> HIDE DEF r
  <2>4. AskedBy(pairs, n - 1) \cup term =
          AskedBy(pairs, IF Head(o.todo).skipLast THEN Len(pairs) - 1 ELSE Len(pairs))
    <3>1. CASE Head(o.todo).skipLast
      <4>1. term = {}
        BY <3>1 DEF term, LeftOut, key
      <4> QED BY <2>2, <3>1, <4>1
    <3>2. CASE ~Head(o.todo).skipLast
      <4>1. ~(n < Len(pairs))
        BY <1>3, <2>2
      <4>2. \A k : follows(k) = KeyTerm(k)
        BY <4>1 DEF follows, KeyTerm
      <4>3. term = asked
        BY <3>2, <4>2 DEF term, asked, LeftOut
      <4> QED BY <1>4, <2>2, <3>2, <4>3
    <3> QED BY <3>1, <3>2
  <2>5. ParsedOK(r)
    BY <2>3, <2>4 DEF ParsedOK, ItemsAsked
  <2> QED BY <2>3, <2>5 DEF Answering, r
<1>10. CASE x # NoToken /\ x.tag = "k"
  <2> DEFINE term == {KeyTerm(k) : k \in {key} \ {None}}
             newKey == x.text
  <2>1. /\ Becomes(t, [thread[t] EXCEPT !.pc = "pairs", !.key = newKey, !.terms = @ \cup term])
        /\ cursor' = c.cursor
    BY <1>10 DEF Parse, x, key
  <2>2. n < Len(pairs) /\ pairs[n + 1].tag = "k" /\ x.text = pairs[n + 1].text
    BY <1>5, <1>6, <1>10 DEF x
  <2>3. \A k : follows(k) = KeyTerm(k)
    BY <2>2 DEF follows, KeyTerm
  <2>4. term = asked
    BY <2>3 DEF asked
  <2>5. newKey = Pending(pairs, n + 1)
    <3>1. n + 1 > 0
      BY <1>3
    <3> QED BY <2>2, <3>1 DEF Pending
  <2> HIDE DEF term, newKey
  <2> QED BY <1>8, <2>1, <2>2, <2>4, <2>5
<1>11. CASE x # NoToken /\ x.tag = "v" /\ key # None
  <2> DEFINE term == {PairTerm(key, x.text)}
             newKey == None
  <2>1. /\ Becomes(t, [thread[t] EXCEPT !.pc = "pairs", !.key = newKey, !.terms = @ \cup term])
        /\ cursor' = c.cursor
    BY <1>11 DEF Parse, x, key
  <2>2. n < Len(pairs) /\ pairs[n + 1].tag = "v" /\ x.text = pairs[n + 1].text
    BY <1>5, <1>6, <1>11 DEF x
  <2>3. \A k : follows(k) = PairTerm(k, x.text)
    BY <2>2 DEF follows, PairTerm
  <2>4. term = asked
    BY <1>11, <2>3 DEF asked
  <2>5. newKey = Pending(pairs, n + 1)
    BY <2>2 DEF Pending
  <2> HIDE DEF term, newKey
  <2> QED BY <1>8, <2>1, <2>2, <2>4, <2>5
<1>12. CASE x # NoToken /\ x.tag = "v" /\ key = None
  <2> DEFINE term == {}
             newKey == None
  <2>1. Becomes(t, [thread[t] EXCEPT !.pc = "error", !.key = newKey, !.terms = @ \cup term])
    BY <1>12 DEF Parse, x, key
  <2> HIDE DEF term, newKey
  <2>2. thread'[t].pc = "error"
    BY <1>7, <2>1
  <2> QED BY <2>2 DEF Answering
<1>13. x = NoToken \/ x.tag \in {"k", "v"}
  BY <1>5, <1>6 DEF x
<1> QED BY <1>9, <1>10, <1>11, <1>12, <1>13

LEMMA StartParseAnswers ==
  ASSUME Types, NEW t \in Threads, StartParse(t), Answering(cursor, t, thread[t])
  PROVE  Answering(cursor', t, thread'[t])
<1> DEFINE o == thread[t]
           pairs == Head(o.todo).pairs
           tokens == PairTokens(t, pairs)
<1>1. DOMAIN o = Fields /\ o.pc = "parse" /\ o.job.op = "list"
  BY DEF Types, RecordOK, JobOK, StartParse
<1>2. RestOK(o) /\ o.key = None /\ o.terms = Before(o)
  BY <1>1 DEF Answering
<1>3. pairs \in Seq(Items)
  BY <1>1, HeadFacts DEF Lists
<1>4. CASE pairs = <<>> /\ Becomes(t, [thread[t] EXCEPT !.pc = "parsed"])
  <2> DEFINE r == [thread[t] EXCEPT !.pc = "parsed"]
  <2>1. /\ r.pc = "parsed" /\ r.key = None /\ r.terms = o.terms
        /\ r.todo = o.todo /\ r.job = o.job /\ r.list = o.list
    BY <1>1, <1>2 DEF Fields
  <2>2. thread'[t] = r
    BY <1>4 DEF Becomes, Types
  <2> HIDE DEF r
  <2>3. RestOK(r) /\ Before(r) = Before(o)
    BY <1>2, <2>1 DEF RestOK, Before
  <2>4. AskedBy(pairs, ItemsAsked(Head(r.todo))) = {}
    <3>1. Len(pairs) = 0
      BY <1>4, EmptySeq
    <3>2. ItemsAsked(Head(r.todo)) \in {0, 0 - 1}
      BY <2>1, <3>1 DEF ItemsAsked
    <3> HIDE DEF pairs
    <3>3. 1..0 = {} /\ 1..(0 - 1) = {}
      OBVIOUS
    <3> QED BY <3>2, <3>3 DEF AskedBy
  <2>5. ParsedOK(r)
    BY <1>2, <2>1, <2>3, <2>4 DEF ParsedOK
  <2> QED BY <2>1, <2>2, <2>3, <2>5 DEF Answering
<1>5. CASE pairs # <<>> /\ Parse(t, First(t, tokens, "semicolon"))
  <2> DEFINE c == First(t, tokens, "semicolon")
             n == 0
  <2>1. Parse(t, c)
    BY <1>5
  <2>2. /\ c.token = tokens[1]
        /\ c.cursor.by = t /\ c.cursor.sep = "semicolon" /\ ~c.cursor.freed
        /\ Len(c.cursor.left) = Len(pairs) - 1
        /\ \A i \in 1..Len(pairs) - 1 : c.cursor.left[i] = tokens[i + 1]
    BY <1>3, <1>5, FirstItem
  <2>3. Len(tokens) = Len(pairs) /\ Len(pairs) \in Nat \ {0}
    BY <1>3, <1>5, PairTokensFacts, EmptySeq
  <2>4. 1..n = {} /\ 1..(n - 1) = {} /\ n \in 0..Len(pairs) /\ n < Len(pairs) /\ n + 1 = 1
    BY <2>3
  <2> HIDE DEF c, n, tokens
  <2>5. Left(c.cursor, t, "semicolon", tokens, n + 1)
    <3>1. \A i \in 1..(Len(tokens) - 1) : c.cursor.left[i] = tokens[1 + i]
      <4> TAKE i \in 1..(Len(tokens) - 1)
      <4>1. 1 + i = i + 1 /\ i \in 1..Len(pairs) - 1
        BY <2>3
      <4> QED BY <2>2, <4>1
    <3> QED BY <2>2, <2>3, <2>4, <3>1 DEF Left
  <2>6. o.terms = Before(o) \cup AskedBy(pairs, n - 1)
    BY <1>2, <2>4 DEF AskedBy
  <2>7. o.key = Pending(pairs, n)
    BY <1>2 DEF Pending, n
  <2>8. n # Len(pairs)
    BY <2>3 DEF n
  <2> QED BY <1>1, <1>2, <2>1, <2>2, <2>4, <2>5, <2>6, <2>7, <2>8, ParseAnswers DEF tokens
<1> QED BY <1>4, <1>5 DEF StartParse

LEMMA NextParseAnswers ==
  ASSUME Types, NEW t \in Threads, NextParse(t), Answering(cursor, t, thread[t])
  PROVE  Answering(cursor', t, thread'[t])
<1> DEFINE o == thread[t]
           pairs == Head(o.todo).pairs
           tokens == PairTokens(t, pairs)
<1>1. o.pc = "pairs" /\ o.job.op = "list"
  BY DEF Types, RecordOK, JobOK, NextParse
<1>2. RestOK(o) /\ \E n \in 1..Len(pairs) : CutOK(cursor, t, o, n)
  BY <1>1 DEF Answering
<1>3. PICK n \in 1..Len(pairs) : CutOK(cursor, t, o, n)
  BY <1>2
<1>4. pairs \in Seq(Items)
  BY <1>1, HeadFacts DEF Lists
<1>5. tokens \in Seq(ItemTokens) /\ Len(tokens) = Len(pairs) /\ Len(pairs) \in Nat
  BY <1>4, PairTokensFacts
<1>6. PICK c \in Following("semicolon") : Parse(t, c)
  BY DEF NextParse
<1>7. /\ Left(cursor, t, "semicolon", tokens, n)
      /\ o.terms = Before(o) \cup AskedBy(pairs, n - 1)
      /\ o.key = Pending(pairs, n)
  BY <1>3 DEF CutOK
<1> HIDE DEF pairs, tokens, o
<1>8. n \in Nat /\ n \in 0..Len(pairs) /\ n <= Len(tokens)
  BY <1>5
<1>9. /\ n = Len(tokens) => c.token = NoToken
      /\ n < Len(tokens) => /\ c.token = tokens[n + 1]
                            /\ Left(c.cursor, t, "semicolon", tokens, n + 1)
  BY <1>5, <1>6, <1>7, <1>8, NextItem DEF Types
<1> QED BY <1>1, <1>2, <1>5, <1>6, <1>7, <1>8, <1>9, ParseAnswers DEF o, pairs, tokens

LEMMA TermsMore ==
  ASSUME NEW f, NEW n \in Nat
  PROVE  TermsUpTo(f, n + 1) = TermsUpTo(f, n) \cup ListTerms(ListAt(f, n + 1))
<1>1. 1..(n + 1) = (1..n) \cup {n + 1}
  OBVIOUS
<1> QED BY <1>1 DEF TermsUpTo

\* What has been asked for when a list has been parsed, with the value that leads on.
LEMMA ParsedAnswers ==
  ASSUME Types, NEW t \in Threads, Parsed(t), Answering(cursor, t, thread[t])
  PROVE  Answering(cursor', t, thread'[t])
<1> DEFINE o == thread[t]
           f == o.job.path
           items == QueryOf(f).items
           m == Len(o.todo)
           x == Head(o.todo)
           k == items + 1 - m
<1>1. /\ DOMAIN o = Fields /\ o.pc = "parsed" /\ o.job.op = "list" /\ f \in Listed
  BY DEF Types, RecordOK, Parsed, JobOK
<1>2. RestOK(o) /\ ParsedOK(o)
  BY <1>1 DEF Answering
<1>3. /\ o.todo \in Seq(Lists) /\ o.todo # <<>> /\ m \in Nat \ {0} /\ x = o.todo[1]
      /\ x.value = None <=> m = 1
  BY <1>1, HeadFacts
<1>4. items \in Nat
  BY <1>1, ListingAssumption DEF QueryOf, HasQuery
<1>5. /\ o.list = {} /\ items < Len(f) /\ m <= items + 1
      /\ \A i \in 1..items : HasQuery(Around(f, i))
      /\ \A i \in 1..m : o.todo[i] = ListAt(f, k + i)
  BY <1>2 DEF RestOK
<1>6. /\ o.key = None
      /\ o.terms = TermsUpTo(f, k) \cup AskedBy(x.pairs, ItemsAsked(x))
  BY <1>2 DEF ParsedOK, Before
<1>7. /\ Tail(o.todo) \in Seq(Lists) /\ Len(Tail(o.todo)) = m - 1
      /\ \A i \in 1..Len(Tail(o.todo)) : Tail(o.todo)[i] = o.todo[i + 1]
  BY <1>3, SequenceParts
<1>8. k \in Nat /\ x = ListAt(f, k + 1) /\ 1 \in 1..m
  <2> HIDE DEF m, f, items, o, x
  <2>1. 1 \in 1..m /\ k \in Nat
    BY <1>3, <1>4, <1>5
  <2> HIDE DEF k
  <2> QED BY <1>3, <1>5, <2>1
<1>9. TermsUpTo(f, k + 1) = TermsUpTo(f, k) \cup ListTerms(x)
  <2> HIDE DEF k, f, x
  <2> QED BY <1>8, TermsMore
\* What the record becomes.
<1>10. ASSUME NEW pc, NEW terms,
              Becomes(t, [thread[t] EXCEPT !.pc = pc, !.terms = @ \cup terms, !.todo = Tail(@)])
       PROVE  LET r == thread'[t]
              IN  /\ r.pc = pc /\ r.key = None /\ r.terms = o.terms \cup terms
                  /\ r.todo = Tail(o.todo) /\ r.job = o.job /\ RestOK(r)
                  /\ Before(r) = TermsUpTo(f, k + 1)
  <2> DEFINE r == [thread[t] EXCEPT !.pc = pc, !.terms = @ \cup terms, !.todo = Tail(@)]
  <2>1. /\ r.pc = pc /\ r.key = None /\ r.terms = o.terms \cup terms
        /\ r.todo = Tail(o.todo) /\ r.job = o.job /\ r.list = o.list
    BY <1>1, <1>6 DEF Fields
  <2>2. thread'[t] = r
    BY <1>10 DEF Becomes, Types
  <2> HIDE DEF r
  <2>3. r.job.path = f /\ Len(r.todo) = m - 1
    BY <1>7, <2>1
  <2>4. \A i \in 1..Len(r.todo) : r.todo[i] = o.todo[i + 1]
    BY <1>7, <2>1
  <2> HIDE DEF m, f, items, o, x
  <2>5. items + 1 - Len(r.todo) = k + 1 /\ Len(r.todo) <= items + 1
    BY <1>3, <1>4, <1>5, <2>3
  <2>6. \A i \in 1..Len(r.todo) : r.todo[i] = ListAt(f, items + 1 - Len(r.todo) + i)
    <3> TAKE i \in 1..Len(r.todo)
    <3>1. i + 1 \in 1..m /\ k + (i + 1) = (k + 1) + i
      BY <1>3, <1>8, <2>3
    <3>2. o.todo[i + 1] = ListAt(f, k + (i + 1))
      BY <1>5, <3>1
    <3> QED BY <2>4, <2>5, <3>1, <3>2
  <2>7. RestOK(r)
    BY <1>5, <2>1, <2>3, <2>5, <2>6 DEF RestOK, items, f
  <2>8. Before(r) = TermsUpTo(f, k + 1)
    BY <2>3, <2>5 DEF Before, items
  <2> QED BY <2>1, <2>2, <2>7, <2>8 DEF o
<1>11. CASE /\ x.value # None
            /\ Becomes(t, [thread[t] EXCEPT
                 !.pc = "parse", !.terms = @ \cup {PairTerm(Last(x.pairs).text, x.value)},
                 !.todo = Tail(@)])
  <2> DEFINE terms == {PairTerm(Last(x.pairs).text, x.value)}
             r == thread'[t]
  <2>1. Becomes(t, [thread[t] EXCEPT !.pc = "parse", !.terms = @ \cup terms, !.todo = Tail(@)])
    BY <1>11
  <2>2. ListTerms(x) = AskedBy(x.pairs, ItemsAsked(x)) \cup terms
    <3>1. {x.value} \ {None} = {x.value}
      BY <1>11
    <3> QED BY <3>1 DEF ListTerms
  <2> HIDE DEF terms
  <2>3. /\ r.pc = "parse" /\ r.key = None /\ r.terms = o.terms \cup terms
        /\ r.job = o.job /\ RestOK(r) /\ Before(r) = TermsUpTo(f, k + 1)
    BY <1>10, <2>1
  <2> HIDE DEF r
  <2>4. r.terms = Before(r)
    BY <1>6, <1>9, <2>2, <2>3
  <2> QED BY <1>1, <2>3, <2>4 DEF Answering, r
<1>12. CASE /\ x.value = None /\ (x.skipLast \/ o.terms # {})
            /\ Becomes(t, [thread[t] EXCEPT !.pc = "query", !.terms = @ \cup {}, !.todo = Tail(@)])
  <2> DEFINE terms == {}
             r == thread'[t]
  <2>1. Becomes(t, [thread[t] EXCEPT !.pc = "query", !.terms = @ \cup terms, !.todo = Tail(@)])
    BY <1>12
  <2>2. ListTerms(x) = AskedBy(x.pairs, ItemsAsked(x)) \cup terms
    <3>1. {x.value} \ {None} = {}
      BY <1>12
    <3> QED BY <3>1 DEF ListTerms
  <2>3. terms = {}
    OBVIOUS
  <2> HIDE DEF terms
  <2>4. /\ r.pc = "query" /\ r.terms = o.terms \cup terms
        /\ r.job = o.job /\ RestOK(r)
    BY <1>10, <2>1
  <2> HIDE DEF r
  <2>5. k = items
    <3>1. m = 1
      BY <1>3, <1>12
    <3> HIDE DEF m, items
    <3> QED BY <1>4, <3>1
  <2>6. r.terms = TermsUpTo(f, items + 1)
    <3> HIDE DEF k, items
    <3> QED BY <1>6, <1>9, <2>2, <2>4, <2>5
  <2>7. x.skipLast = QueryOf(f).folders
    <3>1. ~(k + 1 <= items)
      BY <1>4, <2>5
    <3> QED BY <1>8, <3>1 DEF ListAt
  <2>8. QueryOK(r)
    BY <1>12, <2>3, <2>4, <2>6, <2>7 DEF QueryOK
  <2> QED BY <2>4, <2>8 DEF Answering, r
<1>13. CASE Becomes(t, [thread[t] EXCEPT !.pc = "error", !.terms = @ \cup {}, !.todo = Tail(@)])
  <2> DEFINE terms == {}
  <2>1. Becomes(t, [thread[t] EXCEPT !.pc = "error", !.terms = @ \cup terms, !.todo = Tail(@)])
    BY <1>13
  <2> HIDE DEF terms
  <2>2. thread'[t].pc = "error"
    BY <1>10, <2>1
  <2> QED BY <2>2 DEF Answering
<1> QED BY <1>11, <1>12, <1>13 DEF Parsed

\* The query runs on what the tables hold then, and that is what it is to show.
LEMMA RunQueryAnswers ==
  ASSUME Types, NEW t \in Threads, RunQuery(t), Answering(cursor, t, thread[t]), t \notin mixed'
  PROVE  Answering(cursor', t, thread'[t])
<1> DEFINE o == thread[t]
           f == o.job.path
           q == QueryOf(f)
           rows(db) == IF q.folders THEN SelectValues(db, Last(q.pairs).text, o.terms)
                                    ELSE SelectFiles(db, o.terms)
<1>1. DOMAIN o = Fields /\ o.pc = "query" /\ o.job.op = "list" /\ f \in Listed /\ t \notin mixed
  BY DEF Types, RecordOK, RunQuery, JobOK
<1>2. RestOK(o) /\ QueryOK(o)
  BY <1>1 DEF Answering
<1>3. PICK db \in Tables :
        Becomes(t, [thread[t] EXCEPT !.pc = "rows", !.terms = {}, !.rows = rows(db),
                                     !.due = Expected(db, f)])
  BY <1>1 DEF RunQuery
<1>4. rows(db) = Expected(db, f)
  <2>1. /\ o.terms = TermsUpTo(f, q.items + 1) /\ (q.folders \/ o.terms # {})
        /\ q.items < Len(f) /\ \A i \in 1..q.items : HasQuery(Around(f, i))
    BY <1>2 DEF QueryOK, RestOK
  <2> QED BY <1>1, <2>1, QueryFinds
<1> HIDE DEF rows
<1> DEFINE r == [thread[t] EXCEPT !.pc = "rows", !.terms = {}, !.rows = rows(db),
                                  !.due = Expected(db, f)]
<1>5. /\ r.pc = "rows" /\ r.rows = rows(db) /\ r.due = Expected(db, f) /\ r.list = o.list
  BY <1>1 DEF Fields
<1>6. thread'[t] = r
  BY <1>3 DEF Becomes, Types
<1> HIDE DEF r
<1>7. r.rows \cup r.list = r.due
  BY <1>2, <1>4, <1>5 DEF RestOK
<1> QED BY <1>5, <1>6, <1>7 DEF Answering

LEMMA ReadAnswers ==
  ASSUME Types, NEW t \in Threads, ReadRow(t) \/ LastRow(t), Answering(cursor, t, thread[t])
  PROVE  Answering(cursor', t, thread'[t])
<1> DEFINE o == thread[t]
<1>1. DOMAIN o = Fields /\ o.pc = "rows" /\ o.job.op = "list"
  BY DEF Types, RecordOK, ReadRow, LastRow, JobOK
<1>2. o.rows \cup o.list = o.due
  BY <1>1 DEF Answering
<1>3. CASE ReadRow(t)
  <2>1. PICK row \in o.rows :
          Becomes(t, [thread[t] EXCEPT !.rows = @ \ {row}, !.list = @ \cup {row}])
    BY <1>3 DEF ReadRow
  <2> DEFINE r == [thread[t] EXCEPT !.rows = @ \ {row}, !.list = @ \cup {row}]
  <2>2. r.pc = "rows" /\ r.rows = o.rows \ {row} /\ r.list = o.list \cup {row} /\ r.due = o.due
    BY <1>1 DEF Fields
  <2>3. thread'[t] = r
    BY <2>1 DEF Becomes, Types
  <2> HIDE DEF r
  <2>4. r.rows \cup r.list = r.due
    BY <1>2, <2>1, <2>2
  <2> QED BY <2>2, <2>3, <2>4 DEF Answering
<1>4. CASE LastRow(t)
  <2>1. o.rows = {} /\ Becomes(t, [thread[t] EXCEPT !.pc = "done"])
    BY <1>4 DEF LastRow
  <2> DEFINE r == [thread[t] EXCEPT !.pc = "done"]
  <2>2. r.pc = "done" /\ r.list = o.list /\ r.due = o.due
    BY <1>1 DEF Fields
  <2>3. thread'[t] = r
    BY <2>1 DEF Becomes, Types
  <2> HIDE DEF r
  <2> QED BY <1>2, <2>1, <2>2, <2>3 DEF Answering
<1> QED BY <1>3, <1>4

LEMMA StartAnswers ==
  ASSUME Types, NEW t \in Threads, StartList(t)
  PROVE  Answering(cursor', t, thread'[t])
<1>1. PICK f \in Listed :
        Begin(t, [Idle EXCEPT !.pc = "gather", !.job = [op |-> "list", path |-> f]])
  BY DEF StartList
<1> DEFINE r == [Idle EXCEPT !.pc = "gather", !.job = [op |-> "list", path |-> f]]
<1>2. /\ r.pc = "gather" /\ r.job.path = f /\ r.todo = <<>> /\ r.key = None /\ r.terms = {}
      /\ r.list = {}
  BY DEF Idle
<1>3. thread'[t] = r
  BY <1>1 DEF Begin, Becomes, Types
<1> HIDE DEF r
<1>4. f \in Seq(Names) /\ f # <<>> /\ QueryOf(f).items \in Nat
  BY ListingAssumption DEF QueryOf, HasQuery
<1>5. Len(f) \in Nat \ {0} /\ Len(r.todo) = 0
  BY <1>2, <1>4, LenProperties, EmptySeq
<1>6. GatherOK(r)
  <2>1. 1..0 = {} /\ 0 < Len(f) /\ 0 <= QueryOf(f).items
    BY <1>4, <1>5
  <2> QED BY <1>2, <1>5, <2>1 DEF GatherOK
<1> QED BY <1>2, <1>3, <1>6 DEF Answering

\* The other steps are no listing's, or end it.
LEMMA RestAnswers ==
  ASSUME Types, NEW t \in Threads,
         \/ StartResolve(t) \/ StartAddFolder(t) \/ StartAddFile(t) \/ Resolve(t)
         \/ CutAhead(t) \/ EnterWay(t) \/ NextWay(t) \/ Fails(t) \/ Return(t)
  PROVE  Answering(cursor', t, thread'[t])
<1>1. \A r : Becomes(t, r) => thread'[t] = r
  BY DEF Becomes, Types
<1>2. thread'[t].job.op # "list" \/ thread'[t].pc \in {"idle", "error"}
  <2>1. CASE StartResolve(t)
    <3>1. PICK p \in Resolved :
            Begin(t, [Idle EXCEPT !.pc = "find", !.job = [op |-> "resolve", path |-> p], !.goal = p])
      BY <2>1 DEF StartResolve
    <3> DEFINE r == [Idle EXCEPT !.pc = "find", !.job = [op |-> "resolve", path |-> p], !.goal = p]
    <3>2. r.job.op = "resolve" /\ thread'[t] = r
      BY <1>1, <3>1 DEF Idle, Begin
    <3> HIDE DEF r
    <3> QED BY <3>2
  <2>2. CASE StartAddFolder(t)
    <3>1. PICK p \in NewFolders :
            Begin(t, [Idle EXCEPT !.pc = "add", !.job = [op |-> "folder", path |-> p], !.goal = p])
      BY <2>2 DEF StartAddFolder
    <3> DEFINE r == [Idle EXCEPT !.pc = "add", !.job = [op |-> "folder", path |-> p], !.goal = p]
    <3>2. r.job.op = "folder" /\ thread'[t] = r
      BY <1>1, <3>1 DEF Idle, Begin
    <3> HIDE DEF r
    <3> QED BY <3>2
  <2>3. CASE StartAddFile(t)
    <3>1. PICK x \in NewFiles :
            Begin(t, [Idle EXCEPT !.pc = "add", !.goal = x.path,
                                  !.job = [op |-> "file", path |-> x.path, id |-> x.id]])
      BY <2>3 DEF StartAddFile
    <3> DEFINE r == [Idle EXCEPT !.pc = "add", !.goal = x.path,
                                 !.job = [op |-> "file", path |-> x.path, id |-> x.id]]
    <3>2. r.job.op = "file" /\ thread'[t] = r
      BY <1>1, <3>1 DEF Idle, Begin
    <3> HIDE DEF r
    <3> QED BY <3>2
  <2>4. CASE Resolve(t) \/ CutAhead(t) \/ EnterWay(t) \/ NextWay(t)
    <3>1. DOMAIN thread[t] = Fields /\ JobOK(thread[t])
      BY DEF Types, RecordOK
    <3>2. thread[t].job.op # "list"
      BY <2>4, <3>1 DEF JobOK, Resolve, CutAhead, EnterWay, NextWay, AddItem
    <3>3. thread'[t].job = thread[t].job
      BY <1>1, <2>4, <3>1 DEF Resolve, CutAhead, EnterWay, NextWay, AddItem, Fields
    <3> QED BY <3>2, <3>3
  <2>5. CASE Fails(t) \/ Return(t)
    <3> DEFINE r == [Idle EXCEPT !.pc = "error", !.job = thread[t].job]
    <3>1. r.pc = "error" /\ Idle.pc = "idle"
      BY DEF Idle
    <3>2. thread'[t] = r \/ thread'[t] = Idle
      BY <1>1, <2>5 DEF Fails, Return
    <3> HIDE DEF r
    <3> QED BY <3>1, <3>2
  <2> QED BY <2>1, <2>2, <2>3, <2>4, <2>5
<1> QED BY <1>2 DEF Answering

LEMMA OwnAnswer ==
  ASSUME Types, NEW t \in Threads, Step(t), t \in mixed \/ Answering(cursor, t, thread[t]),
         t \notin mixed'
  PROVE  Answering(cursor', t, thread'[t])
<1>1. CASE Return(t)
  BY <1>1, RestAnswers
<1>2. CASE ~Return(t)
  <2>1. t \notin mixed
    <3>1. MixUp(t) => mixed \subseteq mixed'
      BY DEF MixUp
    <3>2. CASE \/ StartList(t) \/ StartResolve(t) \/ StartAddFolder(t) \/ StartAddFile(t)
               \/ Resolve(t) \/ Gathered(t) \/ Parsed(t) \/ RunQuery(t) \/ ReadRow(t)
               \/ LastRow(t) \/ Fails(t)
      BY <3>2 DEF StartList, StartResolve, StartAddFolder, StartAddFile, Begin, Resolve,
                  Gathered, Parsed, RunQuery, ReadRow, LastRow, Fails
    <3>3. CASE \/ EnterWalk(t) \/ NextWalk(t) \/ CutAhead(t) \/ EnterWay(t) \/ NextWay(t)
               \/ Gather(t) \/ FoundAround(t) \/ StartParse(t) \/ NextParse(t)
      BY <3>1, <3>3 DEF EnterWalk, NextWalk, CutAhead, EnterWay, NextWay, Gather, FoundAround,
                        TakePairs, StartParse, NextParse
    <3> QED BY <1>2, <3>2, <3>3 DEF Step
  <2> QED BY <1>2, <2>1, StartAnswers, RestAnswers, WalkAnswers, GatherAnswers, FoundAroundAnswers,
             GatheredAnswers, StartParseAnswers, NextParseAnswers, ParsedAnswers, RunQueryAnswers,
             ReadAnswers DEF Step
<1> QED BY <1>1, <1>2

LEMMA NextAnswers ==
  ASSUME Types, Answers, [Next]_vars
  PROVE  Answers'
<1>1. CASE Next
  <2>1. PICK t \in Threads : Step(t)
    BY <1>1 DEF Next
  <2>2. ASSUME NEW u \in Threads \ mixed' PROVE Answering(cursor', u, thread'[u])
    <3>1. CASE u = t
      BY <2>1, <3>1, OwnAnswer DEF Answers
    <3>2. CASE u # t
      BY <2>1, <3>2, OthersAnswer
    <3> QED BY <3>1, <3>2
  <2> QED BY <2>2 DEF Answers
<1>2. CASE UNCHANGED vars
  BY <1>2 DEF vars, Answers
<1> QED BY <1>1, <1>2

LEMMA AlwaysAnswers == Spec => []Answers
<1>1. Init => Answers
  <2> SUFFICES ASSUME Init, NEW t \in Threads PROVE Answering(cursor, t, thread[t])
    BY DEF Answers
  <2>1. thread[t] = Idle /\ Idle.job.op # "list"
    BY DEF Init, Idle
  <2> QED BY <2>1 DEF Answering
<1>2. Types /\ Answers /\ [Next]_vars => Answers'
  BY NextAnswers
<1> QED BY <1>1, <1>2, AlwaysTypes, PTL DEF Spec

\* A listing that no other thread's call of strtok cut into shows exactly what the attributes
\* of the files say at the moment its query runs: jfs_dir_query_builder asks for the pairs of
\* every folder around and its own, whatever the threads, the folders and the tables are.
THEOREM ListingIsRight == Spec => []ListingRight
<1>1. Types /\ Answers => ListingRight
  BY DEF Answers, Answering, ListingRight
<1> QED BY <1>1, AlwaysTypes, AlwaysAnswers, PTL
===============================================================================
