----------------------------- MODULE FileOpsProofs -----------------------------
(***************************************************************************)
(* Proofs about the operations that change names, for any tree of paths,   *)
(* whatever fails and wherever the process dies.                           *)
(***************************************************************************)
EXTENDS FileOps, JfsDatabaseProofs, SequenceTheorems

-------------------------------------------------------------------------------
(* Paths as sequences of names.                                               *)

LEMMA PathFacts ==
  /\ \A p \in Paths : p \in Seq(Names) /\ Len(p) \in Nat \ {0}
  /\ \A p \in Paths : \A n \in 1..Len(p) : SubSeq(p, 1, n) \in Paths
  /\ MaxId \in Nat /\ IsFiniteSet(Keys)
BY FileAssumption, EmptySeq

\* A path is below another one when it begins with its names and has more.
LEMMA BelowNames ==
  ASSUME NEW p \in Seq(Names), NEW q \in Seq(Names)
  PROVE  Below(p, q) <=> Len(q) < Len(p) /\ \A i \in 1..Len(q) : p[i] = q[i]
<1>1. Len(p) \in Nat /\ Len(q) \in Nat
  BY LenProperties
<1>2. CASE Len(q) < Len(p)
  <2>1. /\ SubSeq(p, 1, Len(q)) \in Seq(Names) /\ Len(SubSeq(p, 1, Len(q))) = Len(q)
        /\ \A i \in 1..Len(q) : SubSeq(p, 1, Len(q))[i] = p[i]
    BY <1>1, <1>2
  <2>2. SubSeq(p, 1, Len(q)) = q <=> \A i \in 1..Len(q) : p[i] = q[i]
    BY <2>1, SeqEqual
  <2> QED BY <1>2, <2>2 DEF Below
<1> QED BY <1>2 DEF Below

LEMMA BelowTransitive ==
  ASSUME NEW p \in Seq(Names), NEW q \in Seq(Names), NEW r \in Seq(Names),
         Below(p, q), Below(q, r)
  PROVE  Below(p, r)
<1>1. Len(p) \in Nat /\ Len(q) \in Nat /\ Len(r) \in Nat
  BY LenProperties
<1> QED BY <1>1, BelowNames

\* Of two paths a third is below, or is, one is below the other.
LEMMA BelowLinear ==
  ASSUME NEW p \in Seq(Names), NEW q \in Seq(Names), NEW r \in Seq(Names),
         Below(p, q), p = r \/ Below(p, r)
  PROVE  q = r \/ Below(q, r) \/ Below(r, q)
<1>1. Len(p) \in Nat /\ Len(q) \in Nat /\ Len(r) \in Nat
  BY LenProperties
<1>2. CASE Len(q) = Len(r)
  <2>1. \A i \in 1..Len(q) : q[i] = r[i]
    BY <1>1, <1>2, BelowNames
  <2> QED BY <1>2, <2>1, SeqEqual
<1>3. CASE Len(q) < Len(r)
  BY <1>1, <1>3, BelowNames
<1>4. CASE Len(r) < Len(q)
  BY <1>1, <1>4, BelowNames
<1> QED BY <1>1, <1>2, <1>3, <1>4

\* The names of a path that goes along when something above it, or it, is moved.
LEMMA MovedNames ==
  ASSUME NEW p \in Seq(Names), NEW from \in Seq(Names), NEW to \in Seq(Names),
         p = from \/ Below(p, from)
  PROVE  /\ Moved(p, from, to) \in Seq(Names)
         /\ Len(Moved(p, from, to)) = Len(to) + Len(p) - Len(from)
         /\ \A i \in 1..Len(to) : Moved(p, from, to)[i] = to[i]
         /\ \A i \in (Len(from) + 1)..Len(p) :
              Moved(p, from, to)[Len(to) + i - Len(from)] = p[i]
<1> DEFINE rest == SubSeq(p, Len(from) + 1, Len(p))
<1>1. /\ Len(p) \in Nat /\ Len(from) \in Nat /\ Len(to) \in Nat /\ Len(from) <= Len(p)
  BY LenProperties DEF Below
<1>2. /\ rest \in Seq(Names) /\ Len(rest) = Len(p) - Len(from)
      /\ \A i \in 1..(Len(p) - Len(from)) : rest[i] = p[Len(from) + i]
  BY <1>1, SubSeqProperties
<1>3. Moved(p, from, to) = to \o rest
  BY DEF Moved
<1> HIDE DEF rest
<1>4. /\ to \o rest \in Seq(Names) /\ Len(to \o rest) = Len(to) + Len(rest)
      /\ \A i \in 1..(Len(to) + Len(rest)) :
           (to \o rest)[i] = IF i <= Len(to) THEN to[i] ELSE rest[i - Len(to)]
  BY <1>2, ConcatProperties
<1>5. ASSUME NEW i \in (Len(from) + 1)..Len(p)
      PROVE  (to \o rest)[Len(to) + i - Len(from)] = p[i]
  <2>1. /\ Len(to) + i - Len(from) \in 1..(Len(to) + Len(rest))
        /\ ~(Len(to) + i - Len(from) <= Len(to))
        /\ (Len(to) + i - Len(from)) - Len(to) = i - Len(from)
        /\ i - Len(from) \in 1..(Len(p) - Len(from)) /\ Len(from) + (i - Len(from)) = i
    BY <1>1, <1>2
  <2> QED BY <1>2, <1>4, <2>1
<1>6. \A i \in 1..Len(to) : (to \o rest)[i] = to[i]
  BY <1>1, <1>2, <1>4
<1> QED BY <1>1, <1>2, <1>3, <1>4, <1>5, <1>6

LEMMA MovedSelf ==
  ASSUME NEW from \in Seq(Names), NEW to \in Seq(Names)
  PROVE  Moved(from, from, to) = to
<1>1. Len(from) \in Nat /\ Len(to) \in Nat
  BY LenProperties
<1>2. /\ Moved(from, from, to) \in Seq(Names)
      /\ Len(Moved(from, from, to)) = Len(to) + Len(from) - Len(from)
      /\ \A i \in 1..Len(to) : Moved(from, from, to)[i] = to[i]
  BY MovedNames
<1>3. Len(Moved(from, from, to)) = Len(to)
  BY <1>1, <1>2
<1> QED BY <1>2, <1>3, SeqEqual

\* Moving keeps what is above what, and there is a way back.
LEMMA MovedBelow ==
  ASSUME NEW p \in Seq(Names), NEW q \in Seq(Names), NEW from \in Seq(Names),
         NEW to \in Seq(Names), Below(p, q), q = from \/ Below(q, from)
  PROVE  /\ Below(Moved(p, from, to), Moved(q, from, to))
         /\ Moved(q, from, to) = SubSeq(Moved(p, from, to), 1, Len(Moved(q, from, to)))
<1>1. Len(p) \in Nat /\ Len(q) \in Nat /\ Len(from) \in Nat /\ Len(to) \in Nat
  BY LenProperties
<1>2. Below(p, from) /\ Len(from) <= Len(q) /\ Len(q) < Len(p)
  BY <1>1, BelowTransitive DEF Below
<1> DEFINE m == Moved(p, from, to)
           n == Moved(q, from, to)
<1>3. /\ m \in Seq(Names) /\ Len(m) = Len(to) + Len(p) - Len(from)
      /\ \A i \in 1..Len(to) : m[i] = to[i]
      /\ \A i \in (Len(from) + 1)..Len(p) : m[Len(to) + i - Len(from)] = p[i]
  BY <1>2, MovedNames
<1>4. /\ n \in Seq(Names) /\ Len(n) = Len(to) + Len(q) - Len(from)
      /\ \A i \in 1..Len(to) : n[i] = to[i]
      /\ \A i \in (Len(from) + 1)..Len(q) : n[Len(to) + i - Len(from)] = q[i]
  BY <1>2, MovedNames
<1>5. \A i \in 1..Len(q) : p[i] = q[i]
  BY BelowNames
<1> HIDE DEF m, n
<1>6. ASSUME NEW i \in 1..Len(n) PROVE m[i] = n[i]
  <2>1. CASE i <= Len(to)
    BY <1>1, <1>3, <1>4, <2>1
  <2>2. CASE i > Len(to)
    <3>1. PICK j \in (Len(from) + 1)..Len(q) : i = Len(to) + j - Len(from)
      <4>1. i - Len(to) + Len(from) \in (Len(from) + 1)..Len(q)
        BY <1>1, <1>4, <2>2
      <4>2. i = Len(to) + (i - Len(to) + Len(from)) - Len(from)
        BY <1>1
      <4> QED BY <4>1, <4>2
    <3>2. j \in (Len(from) + 1)..Len(p) /\ j \in 1..Len(q)
      BY <1>1, <1>2
    <3> QED BY <1>3, <1>4, <1>5, <3>1, <3>2
  <2> QED BY <1>1, <1>4, <2>1, <2>2
<1>7. Len(n) < Len(m)
  BY <1>1, <1>2, <1>3, <1>4
<1>8. Below(m, n)
  BY <1>3, <1>4, <1>6, <1>7, BelowNames
<1> QED BY <1>8 DEF Below, m, n

LEMMA MovedBack ==
  ASSUME NEW p \in Seq(Names), NEW from \in Seq(Names), NEW to \in Seq(Names), Below(p, from)
  PROVE  Below(Moved(p, from, to), to) /\ Moved(Moved(p, from, to), to, from) = p
<1> DEFINE m == Moved(p, from, to)
           b == Moved(m, to, from)
<1>1. Len(p) \in Nat /\ Len(from) \in Nat /\ Len(to) \in Nat /\ Len(from) < Len(p)
  BY LenProperties DEF Below
<1>2. /\ m \in Seq(Names) /\ Len(m) = Len(to) + Len(p) - Len(from)
      /\ \A i \in 1..Len(to) : m[i] = to[i]
      /\ \A i \in (Len(from) + 1)..Len(p) : m[Len(to) + i - Len(from)] = p[i]
  BY MovedNames
<1>3. Below(m, to)
  <2> HIDE DEF m
  <2> QED BY <1>1, <1>2, BelowNames
<1>4. /\ b \in Seq(Names) /\ Len(b) = Len(from) + Len(m) - Len(to)
      /\ \A i \in 1..Len(from) : b[i] = from[i]
      /\ \A i \in (Len(to) + 1)..Len(m) : b[Len(from) + i - Len(to)] = m[i]
  BY <1>2, <1>3, MovedNames
<1>5. \A i \in 1..Len(from) : p[i] = from[i]
  BY BelowNames
<1> HIDE DEF m, b
<1>6. Len(b) = Len(p)
  BY <1>1, <1>2, <1>4
<1>7. ASSUME NEW i \in 1..Len(p) PROVE b[i] = p[i]
  <2>1. CASE i <= Len(from)
    BY <1>1, <1>4, <1>5, <2>1
  <2>2. CASE i > Len(from)
    <3>1. /\ Len(to) + i - Len(from) \in (Len(to) + 1)..Len(m)
          /\ Len(from) + (Len(to) + i - Len(from)) - Len(to) = i
          /\ i \in (Len(from) + 1)..Len(p)
      BY <1>1, <1>2, <2>2
    <3> QED BY <1>2, <1>4, <3>1
  <2> QED BY <1>1, <2>1, <2>2
<1>8. b = p
  BY <1>4, <1>6, <1>7, SeqEqual
<1> QED BY <1>3, <1>8 DEF m, b

-------------------------------------------------------------------------------
(* Types.                                                                     *)

Things == Bodies \cup {Nothing, Dir, Dangling}

\* What is in the tree is in a directory.
Rooted(t) == \A p, q \in Paths : t[p] # Nothing /\ Below(p, q) => t[q] = Dir

\* What is known of the operation under way: what the kernel let through still makes
\* sense until it is applied.
Underway ==
  /\ pc = "idle" <=> op = NoOp
  /\ pc \in {"make", "enter"} => op \in Operations /\ op.op \in Creations
  /\ pc \in {"store", "apply"} =>
       op \in Operations /\ op.op \in {"unlink", "rmdir", "rename"}
  /\ pc \in {"make", "store", "apply"} => Allowed(op)

FTyped == TypeOK /\ Sound(db, MaxId) /\ Underway

LEMMA OperationFacts ==
  ASSUME NEW o \in Operations
  PROVE  /\ o.op \in Creations \cup {"unlink", "rmdir", "rename"} /\ o # NoOp
         /\ o.path \in Paths /\ (o.op \in {"link", "rename"} => o.from \in Paths)
<1>1. CASE o \in [op : (Creations \ {"link"}) \cup {"unlink", "rmdir"}, path : Paths]
  BY <1>1 DEF Creations, NoOp
<1>2. CASE o \in [op : {"link", "rename"}, from : Paths, path : Paths]
  BY <1>2 DEF Creations, NoOp
<1> QED BY <1>1, <1>2 DEF Operations

LEMMA RootedFacts ==
  ASSUME NEW t \in [Paths -> Things]
  PROVE  Rooted(t) <=> \A p \in Paths : t[p] # Nothing => \A q \in Paths : Below(p, q) => t[q] = Dir
BY DEF Rooted

LEMMA TreeTyped ==
  ASSUME TypeOK
  PROVE  tree \in [Paths -> Things] /\ Rooted(tree)
BY DEF TypeOK, Things, Rooted, ParentIsDir

\* A rename moves what is in a directory together, and covers nothing.
LEMMA TreeMovedTyped ==
  ASSUME TypeOK, NEW from \in Paths, NEW to \in Paths, from # to,
         ~Below(from, to), ~Below(to, from), ParentIsDir(to)
  PROVE  TreeMoved(from, to) \in [Paths -> Things] /\ Rooted(TreeMoved(from, to))
<1> DEFINE new == TreeMoved(from, to)
<1>1. /\ \A p \in Paths : p \in Seq(Names) /\ Len(p) \in Nat \ {0}
      /\ \A p \in Paths : \A n \in 1..Len(p) : SubSeq(p, 1, n) \in Paths
      /\ tree \in [Paths -> Things] /\ Rooted(tree) /\ Nothing # Dir /\ Nothing \in Things
  BY PathFacts, TreeTyped, FileAssumption DEF Things
<1>2. ASSUME NEW p \in Paths
      PROVE  /\ p = to \/ Below(p, to) =>
                  new[p] = IF Moved(p, to, from) \in Paths THEN tree[Moved(p, to, from)] ELSE Nothing
             /\ ~(p = to \/ Below(p, to)) /\ (p = from \/ Below(p, from)) => new[p] = Nothing
             /\ ~(p = to \/ Below(p, to)) /\ ~(p = from \/ Below(p, from)) => new[p] = tree[p]
             /\ new[p] \in Things
  <2>1. new[p] = CASE p = to \/ Below(p, to) ->
                        (IF Moved(p, to, from) \in Paths THEN tree[Moved(p, to, from)] ELSE Nothing)
                   [] p = from \/ Below(p, from) -> Nothing
                   [] OTHER -> tree[p]
    BY DEF TreeMoved
  <2>2. ~((p = to \/ Below(p, to)) /\ (p = from \/ Below(p, from)))
    BY <1>1, BelowLinear
  <2> HIDE DEF new
  <2> QED BY <1>1, <2>1, <2>2
<1>3. new \in [Paths -> Things]
  <2>1. new = [p \in Paths |-> new[p]]
    BY DEF TreeMoved
  <2> QED BY <1>2, <2>1
<1> HIDE DEF new
<1>4. ASSUME NEW p \in Paths, NEW q \in Paths, new[p] # Nothing, Below(p, q) PROVE new[q] = Dir
  <2>1. CASE p = to \/ Below(p, to)
    <3> DEFINE m == Moved(p, to, from)
               n == Moved(q, to, from)
    <3>1. m \in Paths /\ tree[m] # Nothing
      BY <1>2, <1>4, <2>1
    <3>2. CASE q = to \/ Below(q, to)
      <4>1. n \in Seq(Names) /\ Below(m, n) /\ n = SubSeq(m, 1, Len(n))
        <5>1. n \in Seq(Names)
          BY <1>1, <3>2, MovedNames
        <5>2. Below(m, n) /\ n = SubSeq(m, 1, Len(n))
          BY <1>1, <1>4, <3>2, MovedBelow
        <5> QED BY <5>1, <5>2
      <4>2. Len(n) \in 1..Len(m)
        <5>1. Len(n) = Len(from) + Len(q) - Len(to)
          BY <1>1, <3>2, MovedNames
        <5>2. Len(to) <= Len(q)
          BY <1>1, <3>2 DEF Below
        <5>3. Len(n) < Len(m)
          BY <4>1 DEF Below
        <5> HIDE DEF n, m
        <5> QED BY <1>1, <3>1, <5>1, <5>2, <5>3
      <4>3. n \in Paths
        BY <1>1, <3>1, <4>1, <4>2
      <4>4. tree[n] = Dir
        BY <1>1, <3>1, <4>1, <4>3 DEF Rooted
      <4> QED BY <1>2, <3>2, <4>3, <4>4
    <3>3. CASE Below(to, q)
      <4>1. ~(q = to \/ Below(q, to))
        <5>1. Len(to) \in Nat /\ Len(q) \in Nat
          BY <1>1
        <5> QED BY <3>3, <5>1 DEF Below
      <4>2. ~(q = from \/ Below(q, from))
        BY <1>1, <3>3, BelowTransitive
      <4> QED BY <1>2, <3>3, <4>1, <4>2 DEF ParentIsDir
    <3> QED BY <1>1, <1>4, <2>1, <3>2, <3>3, BelowLinear
  <2>2. CASE ~(p = to \/ Below(p, to))
    <3>1. ~(p = from \/ Below(p, from)) /\ new[p] = tree[p]
      BY <1>2, <1>4, <2>2
    <3>2. ~(q = to \/ Below(q, to)) /\ ~(q = from \/ Below(q, from))
      BY <1>1, <1>4, <2>2, <3>1, BelowTransitive
    <3> QED BY <1>1, <1>2, <1>4, <3>1, <3>2 DEF Rooted
  <2> QED BY <2>1, <2>2
<1>5. Rooted(new)
  BY <1>4 DEF Rooted
<1> QED BY <1>3, <1>5 DEF new

LEMMA FTypedInit == Init => FTyped
<1> SUFFICES ASSUME Init PROVE FTyped
  OBVIOUS
<1>1. Sound(db, MaxId) /\ db \in Databases(MaxId)
  BY PathFacts, EmptySound DEF Init, Sound
<1>2. TypeOK
  BY <1>1 DEF Init, TypeOK
<1> QED BY <1>1, <1>2 DEF FTyped, Underway, Init

\* The tables stay sound whatever an operation stores.
LEMMA FilesSound == ASSUME FTyped, [Next]_vars PROVE Sound(db', MaxId)
<1>1. Sound(db, MaxId) /\ MaxId \in Nat /\ IsFiniteSet(Keys) /\ TypeOK
  BY PathFacts DEF FTyped
<1>2. CASE Enter
  <2>1. op.path \in Paths
    BY <1>2, OperationFacts DEF FTyped, Underway, Enter
  <2> QED BY <1>1, <1>2, <2>1, AddLinkSound DEF Enter
<1>3. CASE Store
  <2>1. op.path \in Paths /\ (op.op = "rename" => op.from \in Paths /\ op.from # op.path)
    BY <1>3, OperationFacts DEF FTyped, Underway, Store, Allowed
  <2>2. CASE op.op # "rename"
    BY <1>1, <1>3, <2>1, <2>2, DeleteFileSound DEF Store
  <2>3. CASE op.op = "rename"
    <3>1. PICK x \in BOOLEAN :
            CanRename(db, op.from, op.path, x) /\ db' = RenameFile(db, op.from, op.path, x)
      <4>1. Exists(op.path) \in BOOLEAN
        BY DEF Exists
      <4> QED BY <1>3, <2>3, <4>1 DEF Store
    <3> QED BY <1>1, <2>1, <2>3, <3>1, RenameSound
  <2> QED BY <2>2, <2>3
<1>4. ASSUME NEW p \in Paths, NEW k \in Keys, NEW v \in Values, SetAttribute(p, k, v)
      PROVE  Sound(db', MaxId)
  <2> DEFINE keyed == AddKey(db, k)
             kid == keyed.keys[k]
  <2>1. Sound(keyed, MaxId) /\ kid # NoId /\ keyed \in Databases(MaxId)
    BY <1>1, AddKeySound DEF Sound
  <2>2. keyed.links[p] # NoId /\ db' = SetMeta(keyed, p, kid, v)
    BY <1>4 DEF SetAttribute, CanSetMeta
  <2> HIDE DEF keyed
  <2>3. kid \in 1..Cardinality(Keys)
    BY <1>1, <2>1, Columns DEF NoId
  <2> HIDE DEF kid
  <2> QED BY <1>1, <2>1, <2>2, <2>3, SetMetaSound
<1>5. CASE UNCHANGED db
  BY <1>1, <1>5
<1> QED BY <1>2, <1>3, <1>4, <1>5 DEF Next, vars, Request, Make, MakeUnentered, MakeFails, EnterFails,
   StoreFails, Remove, RenameTree, ApplyFails

LEMMA SoundPrime == Sound(db, MaxId)' <=> Sound(db', MaxId)
BY DEF Sound, KeysSound, LinksSound, RowsSound, Assigned

\* Where the operation is after a step.
LEMMA UnderwayStep == ASSUME FTyped, [Next]_vars PROVE Underway'
<1>1. CASE Request
  <2>1. PICK o \in Operations :
          /\ Allowed(o) /\ op' = o /\ tree' = tree
          /\ pc' = IF o.op \in Creations THEN "make" ELSE "store"
    BY <1>1 DEF Request
  <2>2. Allowed(op)'
    BY <2>1 DEF Allowed, ParentIsDir, Exists, Inside
  <2> QED BY <2>1, <2>2, OperationFacts DEF Underway, Creations
<1>2. CASE Make
  <2>1. CASE Return
    BY <2>1 DEF Return, Underway
  <2>2. CASE pc' = "enter" /\ UNCHANGED op
    BY <1>2, <2>2 DEF Make, Underway, FTyped
  <2> QED BY <1>2, <2>1, <2>2 DEF Make
<1>3. CASE \/ MakeUnentered \/ MakeFails \/ Enter \/ EnterFails
           \/ StoreFails \/ Remove \/ RenameTree \/ ApplyFails
  BY <1>3 DEF MakeUnentered, MakeFails, Enter, EnterFails, StoreFails, Remove, RenameTree, ApplyFails,
     Return, Underway
<1>4. CASE Store
  <2>1. /\ pc = "store" /\ pc' = "apply" /\ op' = op /\ tree' = tree
        /\ op \in Operations /\ op.op \in {"unlink", "rmdir", "rename"} /\ Allowed(op)
    BY <1>4 DEF Store, FTyped, Underway
  <2>2. Allowed(op)'
    BY <2>1 DEF Allowed, ParentIsDir, Exists, Inside
  <2> QED BY <2>1, <2>2, OperationFacts DEF Underway
<1>5. CASE \E p \in Paths, k \in Keys, v \in Values : SetAttribute(p, k, v)
  BY <1>5 DEF SetAttribute, Underway, FTyped
<1>6. CASE UNCHANGED vars
  <2>1. pc' = pc /\ op' = op /\ tree' = tree /\ Underway
    BY <1>6 DEF vars, FTyped
  <2>2. Allowed(op)' <=> Allowed(op)
    BY <2>1 DEF Allowed, ParentIsDir, Exists, Inside
  <2> QED BY <2>1, <2>2 DEF Underway
<1> QED BY <1>1, <1>2, <1>3, <1>4, <1>5, <1>6 DEF Next

\* The second open makes what the first one would have made.
LEMMA CreatedEntry ==
  MakeUnentered => \E e \in NewEntries : tree' = [tree EXCEPT ![op.path] = e]
BY DEF MakeUnentered, NewEntries

\* What a step does to the tree, if anything.
LEMMA TreeStep ==
  ASSUME FTyped, [Next]_vars
  PROVE  tree' \in [Paths -> Things] /\ Rooted(tree')
<1>1. TypeOK /\ tree \in [Paths -> Things] /\ Rooted(tree) /\ Nothing # Dir
  BY TreeTyped, FileAssumption DEF FTyped
<1>2. CASE Make \/ MakeUnentered
  <2>1. op \in Operations /\ op.path \in Paths /\ ParentIsDir(op.path) /\ tree[op.path] = Nothing
    BY <1>2, OperationFacts DEF Make, MakeUnentered, FTyped, Underway, Allowed
  <2>2. PICK e \in NewEntries : tree' = [tree EXCEPT ![op.path] = e]
    BY <1>2, CreatedEntry DEF Make
  <2>3. e \in Things
    <3>1. FreeBodies \subseteq Things
      BY DEF FreeBodies, Things
    <3>2. op.op = "link" => tree[op.from] \in Things
      BY <1>1, <2>1, OperationFacts
    <3> QED BY <3>1, <3>2 DEF NewEntries, Things
  <2>4. ASSUME NEW p \in Paths, NEW q \in Paths, tree'[p] # Nothing, Below(p, q)
        PROVE  tree'[q] = Dir
    <3>1. CASE p = op.path
      <4>1. q # op.path
        BY <2>4, <3>1, PathFacts DEF Below
      <4> QED BY <1>1, <2>1, <2>2, <2>4, <3>1, <4>1 DEF ParentIsDir
    <3>2. CASE p # op.path
      <4>1. tree[q] = Dir
        BY <1>1, <2>1, <2>2, <2>4, <3>2 DEF Rooted
      <4> QED BY <1>1, <2>1, <2>2, <4>1
    <3> QED BY <3>1, <3>2
  <2> QED BY <1>1, <2>2, <2>3, <2>4 DEF Rooted
<1>3. CASE Remove
  <2>1. /\ op.path \in Paths /\ Inside(op.path) = {}
        /\ tree' = [tree EXCEPT ![op.path] = Nothing] /\ Nothing \in Things
    BY <1>3, OperationFacts DEF Remove, FTyped, Underway, Things
  <2>2. ASSUME NEW p \in Paths, NEW q \in Paths, tree'[p] # Nothing, Below(p, q)
        PROVE  tree'[q] = Dir
    <3>1. tree[p] # Nothing /\ tree[q] = Dir
      BY <1>1, <2>1, <2>2 DEF Rooted
    <3>2. q # op.path
      BY <2>1, <2>2, <3>1 DEF Inside
    <3> QED BY <1>1, <2>1, <3>1, <3>2
  <2> QED BY <1>1, <2>1, <2>2 DEF Rooted
<1>4. CASE RenameTree
  <2>1. /\ op.path \in Paths /\ op.from \in Paths /\ op.from # op.path
        /\ ~Below(op.path, op.from) /\ ~Below(op.from, op.path) /\ ParentIsDir(op.path)
    BY <1>4, OperationFacts DEF RenameTree, FTyped, Underway, Allowed
  <2>2. tree' = tree \/ tree' = TreeMoved(op.from, op.path)
    BY <1>4 DEF RenameTree
  <2> QED BY <1>1, <2>1, <2>2, TreeMovedTyped
<1>5. CASE UNCHANGED tree
  BY <1>1, <1>5
<1> QED BY <1>2, <1>3, <1>4, <1>5 DEF Next, vars, Request, MakeFails, Enter, EnterFails,
   Store, StoreFails, ApplyFails, SetAttribute

LEMMA FTypedStep == FTyped /\ [Next]_vars => FTyped'
<1> SUFFICES ASSUME FTyped, [Next]_vars PROVE FTyped'
  OBVIOUS
<1>1. Sound(db', MaxId) /\ Underway' /\ tree' \in [Paths -> Things] /\ Rooted(tree') /\ TypeOK
  BY FilesSound, UnderwayStep, TreeStep DEF FTyped
<1>2. op' \in Operations \cup {NoOp} /\ pc' \in {"idle", "make", "enter", "store", "apply"}
  <2>1. op \in Operations \cup {NoOp} /\ pc \in {"idle", "make", "enter", "store", "apply"}
    BY <1>1 DEF TypeOK
  <2> QED BY <2>1 DEF Next, vars, Request, Make, MakeFails, Enter, EnterFails, Store,
         StoreFails, Remove, RenameTree, ApplyFails, SetAttribute, Return, MakeUnentered
<1>3. astray' \subseteq Paths
  <2>1. astray \subseteq Paths
    BY <1>1 DEF TypeOK
  <2>2. CASE astray' = astray
    BY <2>1, <2>2
  <2>3. CASE Make \/ MakeUnentered \/ Enter \/ EnterFails \/ Remove \/ ApplyFails
    <3>1. /\ op \in Operations
          /\ \/ astray' \subseteq astray \cup {op.path} \cup
                                (IF op.op = "rename" THEN {op.from} ELSE {})
             \/ astray' = astray
      BY <2>3 DEF Make, MakeUnentered, Enter, EnterFails, Remove, ApplyFails, LeaveAstray,
         Settle, FTyped, Underway
    <3> QED BY <2>1, <3>1, OperationFacts
  <2>4. CASE RenameTree
    <3>1. op.path \in Paths /\ op.from \in Paths /\ Allowed(op) /\ op.op = "rename"
      BY <2>4, OperationFacts DEF RenameTree, FTyped, Underway
    <3>2. \A q \in Inside(op.from) : q \in Paths /\ Moved(q, op.from, op.path) \in Paths
      BY <3>1 DEF Allowed, Inside
    <3> QED BY <2>1, <2>4, <3>1, <3>2 DEF RenameTree, Settle
  <2> QED BY <2>2, <2>3, <2>4 DEF Next, vars, Request, MakeFails, Store,
         StoreFails, SetAttribute
<1>4. \A p \in Paths : tree'[p] # Nothing => ParentIsDir(p)'
  BY <1>1 DEF Rooted, ParentIsDir
<1>5. db' \in Databases(MaxId)
  BY <1>1 DEF Sound
<1>6. TypeOK'
  BY <1>1, <1>2, <1>3, <1>4, <1>5 DEF TypeOK, Things
<1> QED BY <1>1, <1>6, SoundPrime DEF FTyped

\* What is in the file system is in a directory, through every rename of a directory
\* with what is inside it; tables, operation and history keep their types.
THEOREM FilesTypes == Spec => []TypeOK
<1>1. FTyped => TypeOK
  BY DEF FTyped
<1> QED BY <1>1, FTypedInit, FTypedStep, PTL DEF Spec

\* However operations fail and die between their two steps, every row of metadata has
\* one path it belongs to.
THEOREM MetadataHasOwner == Spec => []MetadataOwned
<1>1. FTyped => MetadataOwned
  <2> SUFFICES ASSUME FTyped, NEW r \in db.metadata
               PROVE  \E p \in Paths : \A q \in Paths : db.links[q] = r.id <=> q = p
    BY DEF MetadataOwned
  <2>1. PICK p \in Paths : db.links[p] = r.id
    BY DEF FTyped, Sound, RowsSound
  <2>2. r.id # NoId
    BY PathFacts, Columns DEF FTyped, Sound, NoId
  <2>3. \A q \in Paths : db.links[q] = r.id <=> q = p
    BY <2>1, <2>2 DEF FTyped, Sound, LinksSound
  <2> QED BY <2>3
<1> QED BY <1>1, FTypedInit, FTypedStep, PTL DEF Spec

-------------------------------------------------------------------------------
(* The file system and the table of links.                                    *)

Agrees(p) == tree[p] # Nothing <=> db.links[p] # NoId

\* The paths an operation is between its two steps with.
Pending ==
  CASE pc = "enter" -> {op.path}
    [] pc = "apply" -> {op.path} \cup (IF op.op = "rename" THEN {op.from} ELSE {})
    [] OTHER -> {}

\* What its second step will find: a new file, a removed row, or a row that has moved.
HalfDone ==
  /\ pc = "enter" => tree[op.path] # Nothing
  /\ pc = "apply" /\ op.op # "rename" => db.links[op.path] = NoId
  /\ pc = "apply" /\ op.op = "rename" =>
       db.links[op.from] = NoId /\ (op.from \notin astray => db.links[op.path] # NoId)

Agreeing == HalfDone /\ \A p \in Paths \ (astray \cup Pending) : Agrees(p)

\* The links after each step that changes them.
LEMMA LinksStep ==
  ASSUME FTyped, [Next]_vars
  PROVE  /\ Enter => db'.links = [db.links EXCEPT ![op.path] = db.lastId + 1]
         /\ Store => db'.links = IF op.op = "rename"
                                  THEN RenamedLinks(db, op.from, op.path, Exists(op.path))
                                  ELSE [db.links EXCEPT ![op.path] = NoId]
         /\ ~Enter /\ ~Store => db'.links = db.links
<1>1. db \in Databases(MaxId) /\ Sound(db, MaxId) /\ MaxId \in Nat /\ IsFiniteSet(Keys)
  BY PathFacts DEF FTyped, TypeOK
<1>2. ASSUME Enter PROVE db'.links = [db.links EXCEPT ![op.path] = db.lastId + 1]
  <2>1. op.path \in Paths
    BY <1>2, OperationFacts DEF FTyped, Underway, Enter
  <2> QED BY <1>1, <1>2, <2>1, AddLinkColumns DEF Enter
<1>3. ASSUME Store, op.op = "rename"
      PROVE  db'.links = RenamedLinks(db, op.from, op.path, Exists(op.path))
  <2>1. op.path \in Paths /\ op.from \in Paths /\ op.from # op.path
    BY <1>3, OperationFacts DEF FTyped, Underway, Store, Allowed
  <2>2. Exists(op.path) \in BOOLEAN
    BY DEF Exists
  <2> QED BY <1>1, <1>3, <2>1, <2>2, RenameColumns DEF Store
<1>4. ASSUME Store, op.op # "rename" PROVE db'.links = [db.links EXCEPT ![op.path] = NoId]
  <2>1. op.path \in Paths
    BY <1>4, OperationFacts DEF FTyped, Underway, Store
  <2> QED BY <1>1, <1>4, <2>1, DeleteFileColumns DEF Store
<1>5. ASSUME NEW p \in Paths, NEW k \in Keys, NEW v \in Values, SetAttribute(p, k, v)
      PROVE  db'.links = db.links
  <2> DEFINE keyed == AddKey(db, k)
             kid == keyed.keys[k]
  <2>1. keyed \in Databases(MaxId) /\ keyed.links = db.links /\ keyed.keys[k] # NoId
    <3>1. keyed \in Databases(MaxId) /\ keyed.links = db.links
      BY <1>1, AddKeyColumns
    <3>2. keyed.keys[k] # NoId
      BY <1>1, AddKeySound
    <3> QED BY <3>1, <3>2
  <2>2. keyed.links[p] # NoId /\ db' = SetMeta(keyed, p, kid, v)
    BY <1>5 DEF SetAttribute, CanSetMeta
  <2> HIDE DEF keyed
  <2>3. kid \in 1..Cardinality(Keys)
    BY <1>1, <2>1, Columns DEF NoId
  <2> HIDE DEF kid
  <2> QED BY <1>1, <2>1, <2>2, <2>3, SetMetaColumns
<1>6. ~Enter /\ ~Store => db'.links = db.links
  BY <1>5 DEF Next, vars, Request, Make, MakeUnentered, MakeFails, EnterFails, StoreFails,
     Remove, RenameTree, ApplyFails
<1> QED BY <1>2, <1>3, <1>4, <1>6

\* The second step of a rename: each path holds what it holds a row for, but those of
\* which it is known that they do not.
LEMMA RenamedAgrees ==
  ASSUME FTyped, Agreeing, RenameTree, NEW p \in Paths \ astray', db' = db
  PROVE  Agrees(p)'
<1> DEFINE from == op.from
           to == op.path
<1>1. /\ pc = "apply" /\ op.op = "rename" /\ from \in Paths /\ to \in Paths
      /\ Inside(to) = {} /\ Allowed(op)
  BY OperationFacts DEF RenameTree, FTyped, Underway
<1>2. /\ Exists(from) /\ from # to /\ ~Below(to, from) /\ ~Below(from, to)
      /\ tree[from] # Nothing
  BY <1>1 DEF Allowed, Exists
<1>3. /\ db.links[from] = NoId /\ (from \notin astray => db.links[to] # NoId)
      /\ \A q \in Paths \ astray : q # from /\ q # to => Agrees(q)
  BY <1>1 DEF Agreeing, HalfDone, Pending
<1>4. /\ p # to /\ p # from => p \notin astray
      /\ p = to => from \notin astray
  BY DEF RenameTree, Settle
<1>5. CASE SameFile(from, to) /\ tree' = tree /\ from \in astray'
  <2>1. p # from /\ tree[to] # Nothing
    BY <1>2, <1>5 DEF SameFile
  <2> QED BY <1>3, <1>4, <1>5, <2>1 DEF Agrees
<1>6. CASE /\ tree' = TreeMoved(from, to)
           /\ Inside(from) \cup {Moved(q, from, to) : q \in Inside(from)} \subseteq astray'
  <2>1. /\ \A q \in Paths : q \in Seq(Names) /\ Len(q) \in Nat \ {0}
        /\ ~(from = to \/ Below(from, to))
    BY <1>2, PathFacts
  <2>2. tree'[p] = CASE p = to \/ Below(p, to) ->
                          (IF Moved(p, to, from) \in Paths THEN tree[Moved(p, to, from)] ELSE Nothing)
                     [] p = from \/ Below(p, from) -> Nothing
                     [] OTHER -> tree[p]
    BY <1>6 DEF TreeMoved
  <2>3. CASE p = to
    <3>1. Moved(p, to, from) = from
      BY <1>1, <2>1, <2>3, MovedSelf
    <3>2. tree'[p] = tree[from]
      BY <1>1, <1>2, <2>2, <2>3, <3>1
    <3> QED BY <1>2, <1>3, <1>4, <2>3, <3>2 DEF Agrees
  <2>4. CASE p = from
    <3>1. tree'[p] = Nothing
      BY <2>1, <2>2, <2>4
    <3> QED BY <1>3, <2>4, <3>1 DEF Agrees
  <2>5. CASE Below(p, to) /\ p # from /\ p # to
    <3>1. tree[p] = Nothing
      BY <1>1, <2>5 DEF Inside
    <3>2. tree'[p] = Nothing
      <4>1. SUFFICES ASSUME Moved(p, to, from) \in Paths, tree[Moved(p, to, from)] # Nothing
                     PROVE  FALSE
        BY <2>2, <2>5
      <4>2. Below(Moved(p, to, from), from) /\ Moved(Moved(p, to, from), from, to) = p
        BY <1>1, <2>1, <2>5, MovedBack
      <4>3. Moved(p, to, from) \in Inside(from)
        BY <4>1, <4>2 DEF Inside
      <4> QED BY <1>6, <4>2, <4>3
    <3> QED BY <1>3, <1>4, <2>5, <3>1, <3>2 DEF Agrees
  <2>6. CASE Below(p, from) /\ ~Below(p, to) /\ p # from /\ p # to
    <3>1. tree'[p] = Nothing
      BY <2>2, <2>6
    <3>2. tree[p] = Nothing
      BY <1>6, <2>6 DEF Inside
    <3> QED BY <1>3, <1>4, <2>6, <3>1, <3>2 DEF Agrees
  <2>7. CASE ~Below(p, from) /\ ~Below(p, to) /\ p # from /\ p # to
    <3>1. tree'[p] = tree[p]
      BY <2>2, <2>7
    <3> QED BY <1>3, <1>4, <2>7, <3>1 DEF Agrees
  <2> QED BY <2>3, <2>4, <2>5, <2>6, <2>7
<1> QED BY <1>5, <1>6 DEF RenameTree, Settle

LEMMA AgreeingInit == Init => Agreeing
BY DEF Init, Agreeing, HalfDone, Agrees, EmptyDb, Pending

LEMMA AgreeingStep == FTyped /\ Agreeing /\ [Next]_vars => Agreeing'
<1> SUFFICES ASSUME FTyped, Agreeing, [Next]_vars PROVE Agreeing'
  OBVIOUS
<1>1. /\ db.links \in [Paths -> 0..MaxId] /\ db.lastId \in Nat /\ tree \in [Paths -> Things]
      /\ \A p \in Paths \ (astray \cup Pending) : Agrees(p)
  BY PathFacts, Columns, TreeTyped DEF FTyped, TypeOK, Agreeing
<1>2. CASE Request
  <2>1. /\ pc = "idle" /\ pc' \in {"make", "store"} /\ UNCHANGED <<tree, db, astray>>
    BY <1>2 DEF Request
  <2> QED BY <1>1, <2>1 DEF Agreeing, HalfDone, Agrees, Pending
<1>3. CASE Make \/ MakeUnentered
  <2>1. /\ pc = "make" /\ op \in Operations /\ op.path \in Paths /\ op.op \in Creations
        /\ Allowed(op) /\ db' = db
    BY <1>3, OperationFacts DEF Make, MakeUnentered, FTyped, Underway
  <2>2. PICK e \in NewEntries : tree' = [tree EXCEPT ![op.path] = e]
    BY <1>3, CreatedEntry DEF Make
  <2>3. e # Nothing
    <3>1. Nothing \notin FreeBodies /\ Nothing # Dir /\ Nothing # Dangling
      BY FileAssumption DEF FreeBodies
    <3>2. op.op = "link" => tree[op.from] # Nothing
      BY <2>1 DEF Allowed, Exists
    <3> QED BY <2>1, <3>1, <3>2 DEF NewEntries, Creations
  <2>4. \A p \in Paths \ astray : p # op.path => Agrees(p)'
    BY <1>1, <2>1, <2>2 DEF Agrees, Pending
  <2>5. CASE Return /\ LeaveAstray({op.path})
    BY <2>4, <2>5 DEF Return, LeaveAstray, Agreeing, HalfDone, Pending
  <2>6. CASE pc' = "enter" /\ UNCHANGED <<op, astray>>
    BY <1>1, <2>1, <2>2, <2>3, <2>4, <2>6 DEF Agreeing, HalfDone, Pending
  <2> QED BY <1>3, <2>5, <2>6 DEF Make, MakeUnentered
<1>4. CASE MakeFails \/ StoreFails
  BY <1>1, <1>4 DEF MakeFails, StoreFails, Return, Agreeing, HalfDone, Agrees, Pending
<1>5. CASE Enter
  <2>1. /\ pc = "enter" /\ pc' = "idle" /\ tree' = tree /\ tree[op.path] # Nothing
        /\ op.path \in Paths /\ astray' = astray \ {op.path}
    BY <1>5, OperationFacts DEF Enter, Return, Settle, Agreeing, HalfDone, FTyped, Underway
  <2>2. db'.links = [db.links EXCEPT ![op.path] = db.lastId + 1]
    BY <1>5, LinksStep
  <2>3. ASSUME NEW p \in Paths \ astray' PROVE Agrees(p)'
    <3>1. CASE p = op.path
      BY <1>1, <2>1, <2>2, <3>1 DEF Agrees, NoId
    <3>2. CASE p # op.path
      BY <1>1, <2>1, <2>2, <3>2 DEF Agrees, Pending
    <3> QED BY <3>1, <3>2
  <2> QED BY <2>1, <2>3 DEF Agreeing, HalfDone, Pending
<1>6. CASE EnterFails
  <2>1. /\ pc = "enter" /\ pc' = "idle" /\ UNCHANGED <<tree, db>> /\ astray' = astray \cup {op.path}
    BY <1>6 DEF EnterFails, Return, LeaveAstray
  <2> QED BY <1>1, <2>1 DEF Agreeing, HalfDone, Agrees, Pending
<1>7. CASE Store
  <2>1. /\ pc = "store" /\ pc' = "apply" /\ UNCHANGED <<tree, op, astray>> /\ Allowed(op)
        /\ op.path \in Paths /\ op.op \in {"unlink", "rmdir", "rename"}
        /\ op.op = "rename" => op.from \in Paths
    BY <1>7, OperationFacts DEF Store, FTyped, Underway
  <2>2. \A p \in Paths \ astray : Agrees(p)
    BY <1>1, <2>1 DEF Pending
  <2>3. CASE op.op # "rename"
    <3>1. db'.links = [db.links EXCEPT ![op.path] = NoId]
      BY <1>7, <2>3, LinksStep
    <3> QED BY <1>1, <2>1, <2>2, <2>3, <3>1 DEF Agreeing, HalfDone, Agrees, Pending
  <2>4. CASE op.op = "rename"
    <3>1. db'.links = RenamedLinks(db, op.from, op.path, Exists(op.path))
      BY <1>7, <2>4, LinksStep
    <3>2. op.from # op.path /\ tree[op.from] # Nothing
      BY <2>1, <2>4 DEF Allowed, Exists
    <3>3. \A p \in Paths : p # op.from /\ p # op.path => db'.links[p] = db.links[p]
      BY <1>1, <3>1 DEF RenamedLinks
    <3>4. db'.links[op.from] = NoId /\ (op.from \notin astray => db'.links[op.path] # NoId)
      BY <1>1, <2>1, <2>2, <2>4, <3>1, <3>2 DEF RenamedLinks, Agrees
    <3> QED BY <2>1, <2>2, <2>4, <3>3, <3>4 DEF Agreeing, HalfDone, Agrees, Pending
  <2> QED BY <2>3, <2>4
<1>8. CASE Remove
  <2>1. /\ pc = "apply" /\ op.op # "rename" /\ pc' = "idle" /\ db' = db
        /\ tree' = [tree EXCEPT ![op.path] = Nothing] /\ db.links[op.path] = NoId
        /\ astray' = astray \ {op.path}
    BY <1>8 DEF Remove, Return, Settle, Agreeing, HalfDone
  <2>2. ASSUME NEW p \in Paths \ astray' PROVE Agrees(p)'
    <3>1. CASE p = op.path
      BY <1>1, <2>1, <3>1 DEF Agrees
    <3>2. CASE p # op.path
      BY <1>1, <2>1, <3>2 DEF Agrees, Pending
    <3> QED BY <3>1, <3>2
  <2> QED BY <2>1, <2>2 DEF Agreeing, HalfDone, Pending
<1>9. CASE RenameTree
  <2>1. pc' = "idle" /\ db' = db
    BY <1>9 DEF RenameTree, Return
  <2>2. \A p \in Paths \ astray' : Agrees(p)'
    BY <1>9, <2>1, RenamedAgrees
  <2> QED BY <2>1, <2>2 DEF Agreeing, HalfDone, Pending
<1>10. CASE ApplyFails
  <2>1. /\ pc = "apply" /\ pc' = "idle" /\ UNCHANGED <<tree, db>>
        /\ astray' = astray \cup Pending
    BY <1>10 DEF ApplyFails, Return, LeaveAstray, Pending
  <2> QED BY <1>1, <2>1 DEF Agreeing, HalfDone, Agrees, Pending
<1>11. CASE \E p \in Paths, k \in Keys, v \in Values : SetAttribute(p, k, v)
  <2>1. UNCHANGED <<tree, op, pc, astray>> /\ pc = "idle"
    BY <1>11 DEF SetAttribute
  <2>2. db'.links = db.links
    BY <2>1, LinksStep DEF Enter, Store
  <2> QED BY <1>1, <2>1, <2>2 DEF Agreeing, HalfDone, Agrees, Pending
<1>12. CASE UNCHANGED vars
  BY <1>12 DEF vars, Agreeing, HalfDone, Agrees, Pending
<1> QED BY <1>2, <1>3, <1>4, <1>5, <1>6, <1>7, <1>8, <1>9, <1>10, <1>11, <1>12 DEF Next

\* Between operations the file system and the table of links name the same paths, but
\* those that some operation left astray (a create whose second open made the file among
\* them) and that no operation which went through has set right since.
THEOREM FilesAgree == Spec => []Agreement
<1>1. Agreeing => Agreement
  BY DEF Agreeing, Agrees, Agreement, Pending
<1> QED BY <1>1, FTypedInit, FTypedStep, AgreeingInit, AgreeingStep, PTL DEF Spec

\* A rename that is stored leaves its target with the metadata of both files: none of it
\* is lost, and no other is gained.
THEOREM RenameKeepsMetadata == Spec => RenamePreserves
<1> DEFINE Kept == pc = "store" /\ op.op = "rename" /\ pc' = "apply" =>
                     Attributes(op.path)' = Attributes(op.from) \cup Attributes(op.path)
<1>1. FTyped /\ [Next]_vars => Kept
  <2> SUFFICES ASSUME FTyped, [Next]_vars, pc = "store", op.op = "rename", pc' = "apply"
               PROVE  Attributes(op.path)' = Attributes(op.from) \cup Attributes(op.path)
    OBVIOUS
  <2> DEFINE from == op.from
             to == op.path
  <2>1. Store
    BY DEF Next, vars, Request, Make, MakeUnentered, MakeFails, Enter, EnterFails, StoreFails,
       Remove, RenameTree, ApplyFails, SetAttribute, Return
  <2>2. /\ Sound(db, MaxId) /\ MaxId \in Nat /\ IsFiniteSet(Keys) /\ db \in Databases(MaxId)
        /\ from \in Paths /\ to \in Paths /\ from # to /\ op' = op
    BY <2>1, PathFacts, OperationFacts DEF Store, FTyped, Underway, TypeOK, Allowed
  <2>3. PICK x \in BOOLEAN : CanRename(db, from, to, x) /\ db' = RenameFile(db, from, to, x)
    <3>1. Exists(op.path) \in BOOLEAN
      BY DEF Exists
    <3> QED BY <2>1, <3>1 DEF Store
  <2>4. IF x \/ db.links[from] # NoId
          THEN RowsOf(db', to) = RowsOf(db, from) \cup MovedRows(db, from, to)
          ELSE RowsOf(db', to) = RowsOf(db, to)
    BY <2>2, <2>3, RenameSound
  <2>5. \A r \in RowsOf(db, to) :
          /\ [r EXCEPT !.id = db.links[from]].key = r.key
          /\ [r EXCEPT !.id = db.links[from]].value = r.value
    BY <2>2, Columns DEF RowsOf
  <2>6. {<<r.key, r.value>> : r \in MovedRows(db, from, to)} = Attributes(to)
    <3> DEFINE moved(r) == [r EXCEPT !.id = db.links[from]]
    <3>1. MovedRows(db, from, to) = {moved(r) : r \in RowsOf(db, to)}
      BY DEF MovedRows
    <3>2. \A r \in RowsOf(db, to) : <<moved(r).key, moved(r).value>> = <<r.key, r.value>>
      BY <2>5
    <3> HIDE DEF moved
    <3> QED BY <3>1, <3>2 DEF Attributes
  <2>7. db.links[from] = NoId => RowsOf(db, from) = {}
    BY <2>2, UnlinkedRows
  <2>8. Attributes(to)' = {<<r.key, r.value>> : r \in RowsOf(db', to)}
    BY <2>2 DEF Attributes
  <2>9. CASE x \/ db.links[from] # NoId
    <3>1. RowsOf(db', to) = RowsOf(db, from) \cup MovedRows(db, from, to)
      BY <2>4, <2>9
    <3> QED BY <2>6, <2>8, <3>1 DEF Attributes
  <2>10. CASE ~(x \/ db.links[from] # NoId)
    <3>1. RowsOf(db', to) = RowsOf(db, to) /\ RowsOf(db, from) = {}
      BY <2>4, <2>7, <2>10
    <3> QED BY <2>8, <3>1 DEF Attributes
  <2> QED BY <2>9, <2>10
<1> QED BY <1>1, FTypedInit, FTypedStep, PTL DEF Spec, RenamePreserves

===============================================================================
