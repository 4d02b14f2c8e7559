---------------------------- MODULE HierarchyProofs ----------------------------
(***************************************************************************)
(* Lemmas about the tree of dynamic folders and files: what its shape is,  *)
(* that it is kept, what a lookup finds in it, and what each operation     *)
(* changes of what is found at other paths.                                *)
(***************************************************************************)
EXTENDS Hierarchy, SequenceTheorems, FiniteSetTheorems, WellFoundedInduction, TLAPS

Addresses == Seq(Names \X Nat)

IsNode(n) == n.in \in Addresses /\ n.name \in Names /\ n.nth \in Nat \ {0}

\* The nodes of a name in a list are numbered from one up, without gaps.
Numbered(nodes) ==
  /\ \A n \in nodes : n.nth <= Copies(nodes, n.in, n.name)
  /\ \A n \in nodes : \A i \in 1..Copies(nodes, n.in, n.name) :
       \E m \in nodes : m.in = n.in /\ m.name = n.name /\ m.nth = i
  /\ \A m, n \in nodes : m.in = n.in /\ m.name = n.name /\ m.nth = n.nth => m = n

\* Every folder on the way to a node is there.
Hung(nodes, folders) ==
  \A n \in nodes : \A i \in 1..Len(n.in) : \E d \in folders : At(d) = SubSeq(n.in, 1, i)

Listing(nodes, folders) ==
  IsFiniteSet(nodes) /\ (\A n \in nodes : IsNode(n)) /\ Numbered(nodes) /\ Hung(nodes, folders)

Shape(h) ==
  /\ h = [folders |-> h.folders, files |-> h.files]
  /\ Listing(h.folders, h.folders) /\ Listing(h.files, h.folders)

-------------------------------------------------------------------------------
(* Addresses.                                                                 *)

\* The least number there is: the induction that the provers can instantiate.
LEMMA Least ==
  ASSUME NEW T \in SUBSET Nat, T # {}
  PROVE  \E x \in T : \A y \in T : x <= y
<1>1. PICK x \in T : \A y \in T : ~(<<y, x>> \in OpToRel(<, Nat))
  BY NatLessThanWellFounded, WFMin
<1>2. \A y \in T : ~(y < x)
  BY <1>1, Zenon DEF OpToRel
<1> QED BY <1>2

LEMMA AtFacts ==
  ASSUME NEW n, IsNode(n)
  PROVE  /\ At(n) \in Addresses /\ Len(At(n)) = Len(n.in) + 1 /\ Len(n.in) \in Nat
         /\ \A i \in 1..Len(n.in) : At(n)[i] = n.in[i]
         /\ At(n)[Len(n.in) + 1] = <<n.name, n.nth>>
<1>1. <<n.name, n.nth>> \in Names \X Nat /\ n.in \in Seq(Names \X Nat)
  BY DEF IsNode, Addresses
<1> QED BY <1>1, AppendProperties, LenProperties DEF At, Addresses

LEMMA AboveFacts ==
  ASSUME NEW S, NEW s \in Seq(S), NEW n \in 0..Len(s)
  PROVE  /\ SubSeq(s, 1, n) \in Seq(S) /\ Len(SubSeq(s, 1, n)) = n
         /\ \A i \in 1..n : SubSeq(s, 1, n)[i] = s[i]
<1>1. Len(s) \in Nat /\ n \in Nat /\ n <= Len(s) /\ \A i \in 1..n : s[i] \in S
  BY LenProperties
<1> QED BY <1>1, SubSeqProperties

LEMMA NamesFacts ==
  ASSUME NEW at \in Addresses
  PROVE  /\ NamesOf(at) \in Seq(Names) /\ Len(NamesOf(at)) = Len(at) /\ Len(at) \in Nat
         /\ \A i \in 1..Len(at) : NamesOf(at)[i] = at[i][1]
<1>1. /\ Len(at) \in Nat /\ DOMAIN at = 1..Len(at)
      /\ \A i \in 1..Len(at) : at[i] \in Names \X Nat
  BY LenProperties, ElementOfSeq DEF Addresses
<1>2. NamesOf(at) = [i \in 1..Len(at) |-> at[i][1]]
  BY <1>1 DEF NamesOf
<1>3. NamesOf(at) \in [1..Len(at) -> Names]
  BY <1>1, <1>2
<1>4. NamesOf(at) \in Seq(Names)
  BY <1>1, <1>3, SeqDef
<1>5. Len(NamesOf(at)) = Len(at)
  BY <1>1, <1>2, <1>4, LenProperties
<1> QED BY <1>1, <1>2, <1>4, <1>5

\* An address is the list it is in and the node.
LEMMA AtInjective ==
  ASSUME NEW m, NEW n, IsNode(m), IsNode(n), At(m) = At(n)
  PROVE  m.in = n.in /\ m.name = n.name /\ m.nth = n.nth
<1>1. /\ Len(At(m)) = Len(m.in) + 1 /\ Len(m.in) \in Nat
      /\ \A i \in 1..Len(m.in) : At(m)[i] = m.in[i]
      /\ At(m)[Len(m.in) + 1] = <<m.name, m.nth>>
  BY AtFacts
<1>2. /\ Len(At(n)) = Len(n.in) + 1 /\ Len(n.in) \in Nat
      /\ \A i \in 1..Len(n.in) : At(n)[i] = n.in[i]
      /\ At(n)[Len(n.in) + 1] = <<n.name, n.nth>>
  BY AtFacts
<1>3. Len(m.in) = Len(n.in)
  BY <1>1, <1>2
<1>4. \A i \in 1..Len(m.in) : m.in[i] = n.in[i]
  BY <1>1, <1>2, <1>3
<1>5. m.in = n.in
  BY <1>3, <1>4, SeqEqual DEF IsNode, Addresses
<1>6. <<m.name, m.nth>> = <<n.name, n.nth>>
  BY <1>1, <1>2, <1>3
<1> QED BY <1>5, <1>6

\* The names of a node's address.
LEMMA NodeNames ==
  ASSUME NEW n, IsNode(n)
  PROVE  /\ NamesOf(At(n)) = Append(NamesOf(n.in), n.name)
         /\ Len(NamesOf(At(n))) = Len(n.in) + 1
         /\ \A i \in 1..Len(n.in) : NamesOf(At(n))[i] = n.in[i][1]
         /\ NamesOf(At(n))[Len(n.in) + 1] = n.name
<1>1. /\ At(n) \in Addresses /\ n.in \in Addresses /\ Len(At(n)) = Len(n.in) + 1
      /\ Len(n.in) \in Nat /\ n.name \in Names
      /\ \A i \in 1..Len(n.in) : At(n)[i] = n.in[i]
      /\ At(n)[Len(n.in) + 1] = <<n.name, n.nth>>
  BY AtFacts DEF IsNode
<1> DEFINE a == NamesOf(At(n))
           b == NamesOf(n.in)
<1>2. /\ a \in Seq(Names) /\ Len(a) = Len(n.in) + 1
      /\ \A i \in 1..Len(n.in) + 1 : a[i] = At(n)[i][1]
  BY <1>1, NamesFacts
<1>3. /\ b \in Seq(Names) /\ Len(b) = Len(n.in)
      /\ \A i \in 1..Len(n.in) : b[i] = n.in[i][1]
  BY <1>1, NamesFacts
<1> HIDE DEF a, b
<1>4. /\ Append(b, n.name) \in Seq(Names) /\ Len(Append(b, n.name)) = Len(n.in) + 1
      /\ \A i \in 1..Len(n.in) : Append(b, n.name)[i] = b[i]
      /\ Append(b, n.name)[Len(n.in) + 1] = n.name
  BY <1>1, <1>3, AppendProperties
<1>5. \A i \in 1..Len(n.in) : a[i] = n.in[i][1]
  BY <1>1, <1>2
<1>6. a[Len(n.in) + 1] = n.name
  BY <1>1, <1>2
<1>7. \A i \in 1..Len(a) : a[i] = Append(b, n.name)[i]
  BY <1>1, <1>2, <1>3, <1>4, <1>5, <1>6
<1>8. a = Append(b, n.name)
  BY <1>2, <1>4, <1>7, SeqEqual
<1> QED BY <1>2, <1>5, <1>6, <1>8 DEF a, b

-------------------------------------------------------------------------------
(* Lists.                                                                     *)

LEMMA CopiesNat ==
  ASSUME NEW nodes, IsFiniteSet(nodes), NEW at, NEW name
  PROVE  /\ Copies(nodes, at, name) \in Nat
         /\ Copies(nodes, at, name) = 0 <=> \A n \in nodes : ~(n.in = at /\ n.name = name)
<1> DEFINE some == {n \in nodes : n.in = at /\ n.name = name}
<1>1. IsFiniteSet(some) /\ Cardinality(some) \in Nat
  BY FS_Subset, FS_CardinalityType
<1>2. Cardinality(some) = 0 <=> some = {}
  BY <1>1, FS_EmptySet
<1> QED BY <1>1, <1>2 DEF Copies

\* Where there is a node of a name, there is a first one.
LEMMA FirstThere ==
  ASSUME NEW nodes, IsFiniteSet(nodes), Numbered(nodes), NEW at, NEW name,
         Copies(nodes, at, name) # 0
  PROVE  FirstOf(nodes, at, name) # {}
<1>1. PICK n \in nodes : n.in = at /\ n.name = name
  BY CopiesNat
<1>2. Copies(nodes, at, name) \in 1..Copies(nodes, at, name)
  BY CopiesNat
<1>3. PICK m \in nodes : m.in = at /\ m.name = name /\ m.nth = Copies(nodes, at, name)
  BY <1>1, <1>2 DEF Numbered
<1> QED BY <1>3 DEF FirstOf

\* A node is added in front of its list.
LEMMA AddedCopies ==
  ASSUME NEW nodes, IsFiniteSet(nodes), NEW n, n \notin nodes, NEW at, NEW name
  PROVE  Copies(nodes \cup {n}, at, name) =
           IF n.in = at /\ n.name = name THEN Copies(nodes, at, name) + 1
           ELSE Copies(nodes, at, name)
<1> DEFINE some(s) == {m \in s : m.in = at /\ m.name = name}
<1>1. CASE n.in = at /\ n.name = name
  <2>1. some(nodes \cup {n}) = some(nodes) \cup {n} /\ n \notin some(nodes)
    BY <1>1
  <2>2. IsFiniteSet(some(nodes))
    BY FS_Subset
  <2> HIDE DEF some
  <2>3. Cardinality(some(nodes) \cup {n}) = Cardinality(some(nodes)) + 1
    BY <2>1, <2>2, FS_AddElement
  <2>4. Cardinality(some(nodes \cup {n})) = Cardinality(some(nodes)) + 1
    BY <2>1, <2>3
  <2> QED BY <1>1, <2>4 DEF Copies, some
<1>2. CASE ~(n.in = at /\ n.name = name)
  <2>1. some(nodes \cup {n}) = some(nodes)
    BY <1>2
  <2> QED BY <1>2, <2>1 DEF Copies
<1> QED BY <1>1, <1>2

LEMMA AddedNumbered ==
  ASSUME NEW nodes, IsFiniteSet(nodes), Numbered(nodes), \A m \in nodes : IsNode(m),
         NEW n, n.nth = Copies(nodes, n.in, n.name) + 1
  PROVE  n \notin nodes /\ Numbered(nodes \cup {n})
<1>1. Copies(nodes, n.in, n.name) \in Nat
  BY CopiesNat
<1>2. n \notin nodes
  BY <1>1 DEF Numbered, IsNode
<1> DEFINE all == nodes \cup {n}
           c(at, name) == Copies(nodes, at, name)
           d(at, name) == Copies(all, at, name)
<1>3. \A m \in all : c(m.in, m.name) \in Nat
  BY CopiesNat
<1>4. \A m \in all : d(m.in, m.name) = IF n.in = m.in /\ n.name = m.name
                                         THEN c(m.in, m.name) + 1 ELSE c(m.in, m.name)
  BY <1>2, AddedCopies
<1>5. /\ \A m \in nodes : m.nth \in Nat \ {0} /\ m.nth <= c(m.in, m.name)
      /\ \A m \in nodes : \A i \in 1..c(m.in, m.name) :
           \E k \in nodes : k.in = m.in /\ k.name = m.name /\ k.nth = i
      /\ \A k, m \in nodes : k.in = m.in /\ k.name = m.name /\ k.nth = m.nth => k = m
      /\ n.nth = c(n.in, n.name) + 1
  BY DEF Numbered, IsNode
<1>6. c(n.in, n.name) # 0 => \E m \in nodes : m.in = n.in /\ m.name = n.name
  BY CopiesNat
<1> HIDE DEF c, d
<1>7. \A m \in all : m.nth <= d(m.in, m.name)
  BY <1>1, <1>3, <1>4, <1>5
<1>8. ASSUME NEW m \in all, NEW i \in 1..d(m.in, m.name)
      PROVE  \E k \in all : k.in = m.in /\ k.name = m.name /\ k.nth = i
  <2>1. CASE n.in = m.in /\ n.name = m.name
    <3>1. CASE i = n.nth
      BY <2>1, <3>1
    <3>2. CASE i # n.nth
      <4>1. i \in 1..c(n.in, n.name)
        BY <1>3, <1>4, <1>5, <2>1, <3>2
      <4>2. PICK k \in nodes : k.in = n.in /\ k.name = n.name
        BY <1>3, <1>6, <4>1
      <4>3. i \in 1..c(k.in, k.name)
        BY <4>1, <4>2
      <4> QED BY <1>5, <2>1, <4>2, <4>3
    <3> QED BY <3>1, <3>2
  <2>2. CASE ~(n.in = m.in /\ n.name = m.name)
    <3>1. m \in nodes /\ i \in 1..c(m.in, m.name)
      BY <1>4, <1>8, <2>2
    <3> QED BY <1>5, <3>1
  <2> QED BY <2>1, <2>2
<1>9. ASSUME NEW k \in all, NEW m \in all, k.in = m.in, k.name = m.name, k.nth = m.nth
      PROVE  k = m
  <2>1. \A x \in nodes : x.in = n.in /\ x.name = n.name => x.nth < n.nth
    <3>1. \A x \in nodes : x.in = n.in /\ x.name = n.name => x.nth <= c(n.in, n.name)
      BY <1>5
    <3>2. c(n.in, n.name) \in Nat
      BY <1>3
    <3> QED BY <1>5, <3>1, <3>2
  <2>2. \A x \in nodes : x.in = n.in /\ x.name = n.name => x.nth # n.nth
    BY <1>3, <1>5, <2>1
  <2> QED BY <1>5, <1>9, <2>2
<1>10. Numbered(all)
  BY <1>7, <1>8, <1>9 DEF Numbered, d
<1> QED BY <1>2, <1>10

\* A list with one node more in front, whose folders are there.
LEMMA AddedListing ==
  ASSUME NEW nodes, NEW folders, NEW more, Listing(nodes, folders), folders \subseteq more,
         NEW n, IsNode(n), n.nth = Copies(nodes, n.in, n.name) + 1,
         \A i \in 1..Len(n.in) : \E d \in more : At(d) = SubSeq(n.in, 1, i)
  PROVE  n \notin nodes /\ Listing(nodes \cup {n}, more)
<1>1. IsFiniteSet(nodes \cup {n})
  BY FS_AddElement DEF Listing
<1>2. n \notin nodes /\ Numbered(nodes \cup {n})
  BY AddedNumbered DEF Listing
<1>3. Hung(nodes \cup {n}, more)
  BY DEF Listing, Hung
<1> QED BY <1>1, <1>2, <1>3 DEF Listing

\* Below a folder that is there every folder above is there.
LEMMA FoldersAbove ==
  ASSUME NEW h, Shape(h), NEW at \in Addresses,
         at = <<>> \/ \E d \in h.folders : At(d) = at
  PROVE  \A i \in 1..Len(at) : \E d \in h.folders : At(d) = SubSeq(at, 1, i)
<1>1. CASE at = <<>>
  BY <1>1, EmptySeq
<1>2. ASSUME NEW d \in h.folders, At(d) = at, NEW i \in 1..Len(at)
      PROVE  \E e \in h.folders : At(e) = SubSeq(at, 1, i)
  <2>1. /\ IsNode(d) /\ Len(at) = Len(d.in) + 1 /\ Len(d.in) \in Nat
        /\ \A j \in 1..Len(d.in) : at[j] = d.in[j]
    BY <1>2, AtFacts DEF Shape, Listing
  <2>2. CASE i = Len(at)
    <3>1. SubSeq(at, 1, i) = at
      BY <2>2, SubSeqFull DEF Addresses
    <3> QED BY <1>2, <3>1
  <2>3. CASE i # Len(at)
    <3>1. i \in 1..Len(d.in) /\ i \in 0..Len(d.in) /\ i \in 0..Len(at)
      BY <2>1, <2>3
    <3>2. /\ SubSeq(at, 1, i) \in Addresses /\ Len(SubSeq(at, 1, i)) = i
          /\ \A j \in 1..i : SubSeq(at, 1, i)[j] = at[j]
      BY <3>1, AboveFacts DEF Addresses
    <3>3. /\ SubSeq(d.in, 1, i) \in Addresses /\ Len(SubSeq(d.in, 1, i)) = i
          /\ \A j \in 1..i : SubSeq(d.in, 1, i)[j] = d.in[j]
      BY <2>1, <3>1, AboveFacts DEF Addresses, IsNode
    <3>4. \A j \in 1..i : SubSeq(at, 1, i)[j] = SubSeq(d.in, 1, i)[j]
      BY <2>1, <3>1, <3>2, <3>3
    <3>5. SubSeq(at, 1, i) = SubSeq(d.in, 1, i)
      BY <3>2, <3>3, <3>4, SeqEqual DEF Addresses
    <3> QED BY <3>1, <3>5 DEF Shape, Listing, Hung
  <2> QED BY <2>2, <2>3
<1> QED BY <1>1, <1>2

\* Other folders or other files in a tree.
LEMMA WithFolders ==
  ASSUME NEW h, h = [folders |-> h.folders, files |-> h.files], NEW more
  PROVE  [h EXCEPT !.folders = @ \cup more] =
           [folders |-> h.folders \cup more, files |-> h.files]
<1>1. PICK a, b : h = [folders |-> a, files |-> b]
  OBVIOUS
<1>2. a = h.folders /\ b = h.files
  BY <1>1
<1>3. [h EXCEPT !.folders = a \cup more] \in [folders : {a \cup more}, files : {b}]
  BY ONLY <1>1
<1>4. [h EXCEPT !.folders = a \cup more] = [folders |-> a \cup more, files |-> b]
  BY ONLY <1>3
<1> QED BY <1>2, <1>4

LEMMA WithFiles ==
  ASSUME NEW h, h = [folders |-> h.folders, files |-> h.files], NEW more
  PROVE  [h EXCEPT !.files = @ \cup more] =
           [folders |-> h.folders, files |-> h.files \cup more]
<1>1. PICK a, b : h = [folders |-> a, files |-> b]
  OBVIOUS
<1>2. a = h.folders /\ b = h.files
  BY <1>1
<1>3. [h EXCEPT !.files = b \cup more] \in [folders : {a}, files : {b \cup more}]
  BY ONLY <1>1
<1>4. [h EXCEPT !.files = b \cup more] = [folders |-> a, files |-> b \cup more]
  BY ONLY <1>3
<1> QED BY <1>2, <1>4

LEMMA AddedFolder ==
  ASSUME NEW h, Shape(h), NEW n, IsNode(n), n.nth = Copies(h.folders, n.in, n.name) + 1,
         n.in = <<>> \/ \E d \in h.folders : At(d) = n.in
  PROVE  n \notin h.folders /\ Shape([h EXCEPT !.folders = @ \cup {n}])
<1> DEFINE more == h.folders \cup {n}
           e == [h EXCEPT !.folders = @ \cup {n}]
<1>1. e = [folders |-> more, files |-> h.files]
  <2>1. h = [folders |-> h.folders, files |-> h.files]
    BY DEF Shape
  <2> QED BY <2>1, WithFolders
<1>2. \A i \in 1..Len(n.in) : \E d \in h.folders : At(d) = SubSeq(n.in, 1, i)
  BY FoldersAbove DEF IsNode
<1>3. n \notin h.folders /\ Listing(more, more)
  BY <1>2, AddedListing DEF Shape
<1>4. Listing(h.files, more)
  BY DEF Shape, Listing, Hung
<1> HIDE DEF more, e
<1>5. e.folders = more /\ e.files = h.files
  BY <1>1
<1>6. Shape(e)
  BY <1>1, <1>3, <1>4, <1>5 DEF Shape
<1> QED BY <1>3, <1>6 DEF e

LEMMA AddedFile ==
  ASSUME NEW h, Shape(h), NEW n, IsNode(n), n.nth = Copies(h.files, n.in, n.name) + 1,
         n.in = <<>> \/ \E d \in h.folders : At(d) = n.in
  PROVE  n \notin h.files /\ Shape([h EXCEPT !.files = @ \cup {n}])
<1> DEFINE more == h.files \cup {n}
           e == [h EXCEPT !.files = @ \cup {n}]
<1>1. e = [folders |-> h.folders, files |-> more]
  <2>1. h = [folders |-> h.folders, files |-> h.files]
    BY DEF Shape
  <2> QED BY <2>1, WithFiles
<1>2. \A i \in 1..Len(n.in) : \E d \in h.folders : At(d) = SubSeq(n.in, 1, i)
  BY FoldersAbove DEF IsNode
<1>3. n \notin h.files /\ Listing(more, h.folders)
  BY <1>2, AddedListing DEF Shape
<1> HIDE DEF more, e
<1>4. e.folders = h.folders /\ e.files = more
  BY <1>1
<1>5. Shape(e)
  BY <1>1, <1>3, <1>4 DEF Shape
<1> QED BY <1>3, <1>5 DEF e

-------------------------------------------------------------------------------
(* What a lookup finds.                                                       *)

\* The first folders of the names so far: where a lookup of path stands after some of them.
OnWay(h, path, at) ==
  /\ at \in Addresses /\ Len(at) < Len(path) /\ IsFirst(h, at)
  /\ \A i \in 1..Len(at) : at[i][1] = path[i]
  /\ at = <<>> \/ \E d \in h.folders : At(d) = at

\* There is one way: addresses of first folders with the same names are the same, as far as
\* both go.
LEMMA SameWay ==
  ASSUME NEW h, NEW a \in Addresses, NEW b \in Addresses, IsFirst(h, a), IsFirst(h, b),
         Len(a) <= Len(b), \A i \in 1..Len(a) : a[i][1] = b[i][1]
  PROVE  \A i \in 1..Len(a) : a[i] = b[i]
<1>1. /\ Len(a) \in Nat /\ Len(b) \in Nat
      /\ DOMAIN a = 1..Len(a) /\ DOMAIN b = 1..Len(b)
      /\ \A i \in 1..Len(a) : a[i] = <<a[i][1], a[i][2]>>
      /\ \A i \in 1..Len(b) : b[i] = <<b[i][1], b[i][2]>>
  <2>1. /\ Len(a) \in Nat /\ Len(b) \in Nat
        /\ DOMAIN a = 1..Len(a) /\ DOMAIN b = 1..Len(b)
        /\ \A i \in 1..Len(a) : a[i] \in Names \X Nat
        /\ \A i \in 1..Len(b) : b[i] \in Names \X Nat
    BY LenProperties, ElementOfSeq DEF Addresses
  <2> QED BY <2>1
<1> DEFINE differ == {i \in 1..Len(a) : a[i] # b[i]}
<1>2. SUFFICES ASSUME differ # {} PROVE FALSE
  OBVIOUS
<1>3. PICK i \in differ : \A j \in differ : i <= j
  <2>1. differ \in SUBSET Nat
    BY <1>1
  <2> HIDE DEF differ
  <2> QED BY <1>2, <2>1, Least
<1>4. i \in 1..Len(a) /\ i \in 1..Len(b) /\ i - 1 \in 0..Len(a) /\ i - 1 \in 0..Len(b)
  BY <1>1, <1>3
<1>5. \A j \in 1..(i - 1) : a[j] = b[j]
  BY <1>1, <1>3
<1>6. /\ Above(a, i) \in Addresses /\ Len(Above(a, i)) = i - 1
      /\ \A j \in 1..(i - 1) : Above(a, i)[j] = a[j]
  BY <1>4, AboveFacts DEF Addresses, Above
<1>7. /\ Above(b, i) \in Addresses /\ Len(Above(b, i)) = i - 1
      /\ \A j \in 1..(i - 1) : Above(b, i)[j] = b[j]
  BY <1>4, AboveFacts DEF Addresses, Above
<1>8. Above(a, i) = Above(b, i)
  <2>1. \A j \in 1..Len(Above(a, i)) : Above(a, i)[j] = Above(b, i)[j]
    BY <1>5, <1>6, <1>7
  <2> QED BY <1>6, <1>7, <2>1, SeqEqual DEF Addresses
<1>9. a[i][1] = b[i][1]
  BY <1>4
<1>10. a[i][2] = b[i][2]
  BY <1>1, <1>4, <1>8, <1>9 DEF IsFirst
<1>11. a[i] = b[i]
  BY <1>1, <1>4, <1>9, <1>10
<1> QED BY <1>3, <1>11

\* At the last name, what it finds is the first node of that name in the list.
LEMMA FoundHere ==
  ASSUME NEW h, Shape(h), NEW path \in Seq(Names), NEW at, OnWay(h, path, at),
         Len(at) + 1 = Len(path), NEW nodes \in {h.folders, h.files}
  PROVE  Reached(h, nodes, path) = FirstOf(nodes, at, path[Len(path)])
<1>1. Len(path) \in Nat /\ Len(at) \in Nat /\ \A n \in nodes : IsNode(n)
  BY LenProperties DEF Shape, Listing, OnWay, Addresses
<1>2. ASSUME NEW n \in nodes, NamesOf(At(n)) = path, IsFirst(h, n.in)
      PROVE  n.in = at /\ n.name = path[Len(path)]
  <2>1. /\ Len(path) = Len(n.in) + 1 /\ path[Len(n.in) + 1] = n.name
        /\ \A i \in 1..Len(n.in) : path[i] = n.in[i][1]
    BY <1>1, <1>2, NodeNames
  <2>2. /\ n.in \in Addresses /\ at \in Addresses /\ Len(n.in) \in Nat
        /\ IsFirst(h, at) /\ \A i \in 1..Len(at) : at[i][1] = path[i]
    BY <1>1, AtFacts DEF OnWay, IsNode
  <2>3. Len(n.in) = Len(at)
    BY <1>1, <2>1, <2>2
  <2>4. \A i \in 1..Len(at) : at[i][1] = n.in[i][1]
    BY <2>1, <2>2, <2>3
  <2>5. \A i \in 1..Len(at) : at[i] = n.in[i]
    BY <1>1, <1>2, <2>2, <2>3, <2>4, SameWay
  <2>6. at = n.in
    BY <2>2, <2>3, <2>5, SeqEqual DEF Addresses
  <2> QED BY <2>1, <2>3, <2>6
<1>3. ASSUME NEW n \in nodes, n.in = at, n.name = path[Len(path)]
      PROVE  NamesOf(At(n)) = path /\ IsFirst(h, n.in)
  <2>1. /\ Len(NamesOf(At(n))) = Len(path) /\ NamesOf(At(n)) \in Seq(Names)
        /\ \A i \in 1..Len(at) : NamesOf(At(n))[i] = path[i]
        /\ NamesOf(At(n))[Len(path)] = path[Len(path)]
    BY <1>1, <1>3, NodeNames, AtFacts, NamesFacts DEF OnWay
  <2>2. NamesOf(At(n)) = path
    BY <1>1, <2>1, SeqEqual
  <2> QED BY <1>3, <2>2 DEF OnWay
<1> QED BY <1>2, <1>3 DEF Reached, FirstOf

\* A lookup goes on with the first folder of the next name.
LEMMA StepDown ==
  ASSUME NEW h, Shape(h), NEW path \in Seq(Names), NEW at, OnWay(h, path, at),
         Len(at) + 1 < Len(path), NEW d \in FirstOf(h.folders, at, path[Len(at) + 1])
  PROVE  OnWay(h, path, At(d)) /\ Len(At(d)) = Len(at) + 1
<1>1. /\ d \in h.folders /\ d.in = at /\ d.name = path[Len(at) + 1]
      /\ d.nth = Copies(h.folders, at, d.name) /\ IsNode(d)
  BY DEF FirstOf, Shape, Listing
<1>2. /\ At(d) \in Addresses /\ Len(At(d)) = Len(at) + 1 /\ Len(at) \in Nat
      /\ \A i \in 1..Len(at) : At(d)[i] = at[i]
      /\ At(d)[Len(at) + 1] = <<d.name, d.nth>>
  BY <1>1, AtFacts
<1>3. \A i \in 1..Len(At(d)) : At(d)[i][1] = path[i]
  <2>1. \A i \in 1..Len(at) : at[i][1] = path[i]
    BY DEF OnWay
  <2> QED BY <1>1, <1>2, <2>1
<1>4. \A i \in 1..Len(At(d)) : Above(At(d), i) = Above(at, i)
  <2> SUFFICES ASSUME NEW i \in 1..Len(At(d)) PROVE Above(At(d), i) = Above(at, i)
    OBVIOUS
  <2>1. at \in Addresses /\ i - 1 \in 0..Len(at) /\ i - 1 \in 0..Len(At(d))
    BY <1>2 DEF OnWay
  <2>2. /\ Above(at, i) \in Addresses /\ Len(Above(at, i)) = i - 1
        /\ \A j \in 1..(i - 1) : Above(at, i)[j] = at[j]
    BY <2>1, AboveFacts DEF Above, Addresses
  <2>3. /\ Above(At(d), i) \in Addresses /\ Len(Above(At(d), i)) = i - 1
        /\ \A j \in 1..(i - 1) : Above(At(d), i)[j] = At(d)[j]
    BY <1>2, <2>1, AboveFacts DEF Above, Addresses
  <2>4. \A j \in 1..(i - 1) : Above(At(d), i)[j] = Above(at, i)[j]
    BY <1>2, <2>1, <2>2, <2>3
  <2> QED BY <2>2, <2>3, <2>4, SeqEqual DEF Addresses
<1>5. Above(at, Len(at) + 1) = at
  <2>1. SubSeq(at, 1, Len(at)) = at
    BY SubSeqFull DEF OnWay, Addresses
  <2>2. (Len(at) + 1) - 1 = Len(at)
    BY <1>2
  <2> QED BY <2>1, <2>2 DEF Above
<1>6. IsFirst(h, At(d))
  <2>1. SUFFICES ASSUME NEW i \in 1..Len(At(d))
                 PROVE  At(d)[i][2] = Copies(h.folders, Above(At(d), i), At(d)[i][1])
    BY <1>2, LenProperties DEF IsFirst, Addresses
  <2>2. CASE i \in 1..Len(at)
    <3>1. DOMAIN at = 1..Len(at)
      BY LenProperties DEF OnWay, Addresses
    <3> QED BY <1>2, <1>4, <2>2, <3>1 DEF OnWay, IsFirst
  <2>3. CASE i = Len(at) + 1
    BY <1>1, <1>2, <1>4, <1>5, <2>3
  <2> QED BY <1>2, <2>2, <2>3
<1> QED BY <1>1, <1>2, <1>3, <1>6 DEF OnWay

\* Without a folder of the next name the path leads nowhere.
LEMMA NoWayOn ==
  ASSUME NEW h, Shape(h), NEW path \in Seq(Names), NEW at, OnWay(h, path, at),
         Len(at) + 1 < Len(path), FirstOf(h.folders, at, path[Len(at) + 1]) = {},
         NEW nodes \in {h.folders, h.files}
  PROVE  Reached(h, nodes, path) = {}
<1> SUFFICES ASSUME NEW n \in nodes, NamesOf(At(n)) = path, IsFirst(h, n.in)
             PROVE  FALSE
  BY DEF Reached
<1> DEFINE k == Len(at) + 1
<1>1. /\ IsNode(n) /\ n.in \in Addresses /\ at \in Addresses /\ Len(at) \in Nat
      /\ IsFiniteSet(h.folders) /\ Numbered(h.folders)
      /\ Len(n.in) \in Nat /\ Len(path) = Len(n.in) + 1
      /\ \A i \in 1..Len(n.in) : path[i] = n.in[i][1]
      /\ \A i \in 1..Len(at) : at[i][1] = path[i]
  BY NodeNames, AtFacts, LenProperties DEF OnWay, Shape, Listing, IsNode, Addresses
<1>2. k \in 1..Len(n.in) /\ Len(at) <= Len(n.in) /\ k \in Nat /\ k - 1 = Len(at)
  BY <1>1
<1>3. \A i \in 1..Len(at) : at[i] = n.in[i]
  <2>1. \A i \in 1..Len(at) : at[i][1] = n.in[i][1]
    BY <1>1, <1>2
  <2> QED BY <1>1, <1>2, <2>1, SameWay DEF OnWay
<1>4. Above(n.in, k) = at
  <2>1. /\ SubSeq(n.in, 1, Len(at)) \in Addresses /\ Len(SubSeq(n.in, 1, Len(at))) = Len(at)
        /\ \A i \in 1..Len(at) : SubSeq(n.in, 1, Len(at))[i] = n.in[i]
    <3>1. Len(at) \in 0..Len(n.in)
      BY <1>1, <1>2
    <3> QED BY <1>1, <3>1, AboveFacts DEF Addresses
  <2>2. SubSeq(n.in, 1, Len(at)) = at
    BY <1>1, <1>3, <2>1, SeqEqual DEF Addresses
  <2> QED BY <1>2, <2>2 DEF Above
<1>5. PICK d \in h.folders : At(d) = SubSeq(n.in, 1, k)
  BY <1>2 DEF Shape, Listing, Hung
<1>6. /\ IsNode(d) /\ Len(At(d)) = Len(d.in) + 1 /\ Len(d.in) \in Nat
      /\ At(d)[Len(d.in) + 1] = <<d.name, d.nth>>
  BY AtFacts DEF Shape, Listing
<1>7. Len(SubSeq(n.in, 1, k)) = k /\ SubSeq(n.in, 1, k)[k] = n.in[k]
  BY <1>1, <1>2, AboveFacts DEF Addresses
<1>8. n.in[k] = <<d.name, d.nth>> /\ d.nth # 0
  BY <1>2, <1>5, <1>6, <1>7 DEF IsNode
<1>9. n.in[k][2] = Copies(h.folders, at, path[k])
  <2>1. k \in DOMAIN n.in
    BY <1>1, <1>2, LenProperties DEF Addresses
  <2> QED BY <1>1, <1>2, <1>4, <2>1 DEF IsFirst
<1>10. Copies(h.folders, at, path[k]) # 0
  BY <1>8, <1>9
<1> QED BY <1>1, <1>10, FirstThere

\* A folder more in a list leaves the way to the list as it is.
LEMMA WayKept ==
  ASSUME NEW h, Shape(h), NEW path, NEW at, OnWay(h, path, at),
         NEW n, n \notin h.folders, n.in = at,
         NEW e, e.folders = h.folders \cup {n}
  PROVE  OnWay(e, path, at)
<1>1. at \in Seq(Names \X Nat) /\ Len(at) \in Nat /\ DOMAIN at = 1..Len(at)
  BY LenProperties DEF OnWay, Addresses
<1>2. ASSUME NEW i \in DOMAIN at
      PROVE  Copies(e.folders, Above(at, i), at[i][1]) = Copies(h.folders, Above(at, i), at[i][1])
  <2>1. i - 1 \in 0..Len(at) /\ i - 1 # Len(at)
    BY <1>1, <1>2
  <2>2. Len(Above(at, i)) = i - 1
    BY <1>1, <2>1, AboveFacts DEF Above
  <2>3. Above(at, i) # at
    BY <2>1, <2>2
  <2> QED BY <2>3, AddedCopies DEF Shape, Listing
<1>3. IsFirst(e, at)
  BY <1>2 DEF OnWay, IsFirst
<1> QED BY <1>3 DEF OnWay

-------------------------------------------------------------------------------
(* The way to the list a node is added in: recursion unrolled.                *)

\* The next address on the way, after at[n - 1].
On(h, path, at, n) ==
  IF n = 0 THEN <<>>
  ELSE LET copies == Copies(h.folders, at[n - 1], path[n])
       IN  Append(at[n - 1], <<path[n], IF copies = 0 THEN 1 ELSE copies>>)

IsWay(h, path, m, at) == at = [n \in 0..m |-> On(h, path, at, n)]

\* An address leads along a path: at each name down the first folder, or a new one.
Leads(h, path, at) ==
  /\ at \in Addresses
  /\ \A i \in 1..Len(at) :
       at[i] = <<path[i], IF Copies(h.folders, Above(at, i), path[i]) = 0 THEN 1
                          ELSE Copies(h.folders, Above(at, i), path[i])>>

LEMMA OnSame ==
  ASSUME NEW h, NEW path, NEW a, NEW b, NEW n, n = 0 \/ a[n - 1] = b[n - 1]
  PROVE  On(h, path, a, n) = On(h, path, b, n)
BY DEF On

\* The recursion has a solution.
LEMMA WayExists ==
  ASSUME NEW h, NEW path, NEW m \in Nat
  PROVE  \E at : IsWay(h, path, m, at)
<1> DEFINE T == {k \in Nat : ~\E at : IsWay(h, path, k, at)}
<1>1. SUFFICES ASSUME T # {} PROVE FALSE
  OBVIOUS
<1>2. PICK x \in T : \A y \in T : x <= y
  <2>1. T \in SUBSET Nat
    OBVIOUS
  <2> HIDE DEF T
  <2> QED BY <1>1, <2>1, Least
<1>3. x \in Nat /\ ~\E at : IsWay(h, path, x, at)
  OBVIOUS
<1>4. CASE x = 0
  <2> DEFINE g == [n \in 0..x |-> <<>>]
  <2>1. \A n \in 0..x : On(h, path, g, n) = <<>>
    BY <1>4 DEF On
  <2>2. g = [n \in 0..x |-> On(h, path, g, n)]
    BY <2>1
  <2> QED BY <1>3, <2>2 DEF IsWay
<1>5. CASE x # 0
  <2>1. x - 1 \in Nat /\ ~(x <= x - 1)
    BY <1>3, <1>5
  <2>2. x - 1 \notin T
    BY <1>2, <2>1
  <2>3. PICK g : IsWay(h, path, x - 1, g)
    BY <2>1, <2>2
  <2> DEFINE e == [n \in 0..x |-> IF n = x THEN On(h, path, g, n) ELSE g[n]]
  <2>4. \A n \in 0..(x - 1) : e[n] = g[n] /\ g[n] = On(h, path, g, n)
    <3>1. \A n \in 0..(x - 1) : g[n] = On(h, path, g, n)
      BY <2>3 DEF IsWay
    <3>2. \A n \in 0..(x - 1) : n \in 0..x /\ n # x
      BY <1>3
    <3> QED BY <3>1, <3>2
  <2>5. \A n \in 0..x : e[n] = On(h, path, g, n)
    <3>1. \A n \in 0..x : n = x \/ n \in 0..(x - 1)
      BY <1>3
    <3> QED BY <2>4, <3>1
  <2>6. \A n \in 0..x : n = 0 \/ g[n - 1] = e[n - 1]
    <3>1. \A n \in 0..x : n = 0 \/ n - 1 \in 0..(x - 1)
      BY <1>3
    <3> QED BY <2>4, <3>1
  <2>7. \A n \in 0..x : On(h, path, g, n) = On(h, path, e, n)
    BY <2>6, OnSame
  <2>8. e = [n \in 0..x |-> e[n]]
    OBVIOUS
  <2> HIDE DEF e
  <2>9. e = [n \in 0..x |-> On(h, path, e, n)]
    BY <2>5, <2>7, <2>8
  <2> QED BY <1>3, <2>9 DEF IsWay
<1> QED BY <1>4, <1>5

LEMMA AboveAppend ==
  ASSUME NEW S, NEW s \in Seq(S), NEW e \in S
  PROVE  /\ Above(Append(s, e), Len(s) + 1) = s
         /\ \A i \in 1..Len(s) : Above(Append(s, e), i) = Above(s, i)
<1> DEFINE u == Append(s, e)
<1>1. /\ u \in Seq(S) /\ Len(u) = Len(s) + 1 /\ Len(s) \in Nat
      /\ \A i \in 1..Len(s) : u[i] = s[i]
  BY AppendProperties, LenProperties
<1> HIDE DEF u
<1>2. ASSUME NEW k \in 0..Len(s) PROVE SubSeq(u, 1, k) = SubSeq(s, 1, k)
  <2>1. k \in 0..Len(u) /\ \A i \in 1..k : i \in 1..Len(s)
    BY <1>1
  <2>2. /\ SubSeq(u, 1, k) \in Seq(S) /\ Len(SubSeq(u, 1, k)) = k
        /\ \A i \in 1..k : SubSeq(u, 1, k)[i] = u[i]
    BY <1>1, <2>1, AboveFacts
  <2>3. /\ SubSeq(s, 1, k) \in Seq(S) /\ Len(SubSeq(s, 1, k)) = k
        /\ \A i \in 1..k : SubSeq(s, 1, k)[i] = s[i]
    BY AboveFacts
  <2>4. \A i \in 1..k : SubSeq(u, 1, k)[i] = SubSeq(s, 1, k)[i]
    BY <1>1, <2>1, <2>2, <2>3
  <2> QED BY <2>2, <2>3, <2>4, SeqEqual
<1>3. SubSeq(s, 1, Len(s)) = s
  BY SubSeqFull
<1>4. Above(u, Len(s) + 1) = s
  <2>1. (Len(s) + 1) - 1 = Len(s) /\ Len(s) \in 0..Len(s)
    BY <1>1
  <2> QED BY <1>2, <1>3, <2>1 DEF Above
<1>5. \A i \in 1..Len(s) : Above(u, i) = Above(s, i)
  <2>1. \A i \in 1..Len(s) : i - 1 \in 0..Len(s)
    BY <1>1
  <2> QED BY <1>2, <2>1 DEF Above
<1> QED BY <1>4, <1>5 DEF u

\* Where the recursion leads.
LEMMA WayLeads ==
  ASSUME NEW h, IsFiniteSet(h.folders), NEW path \in Seq(Names), path # <<>>
  PROVE  Leads(h, path, Way(h, path)) /\ Len(Way(h, path)) = Len(path) - 1
<1> DEFINE above == Len(path) - 1
           at == CHOOSE a : IsWay(h, path, above, a)
           Good(n) == Leads(h, path, at[n]) /\ Len(at[n]) = n
<1>1. above \in Nat /\ Len(path) \in Nat /\ Len(path) = above + 1
  BY LenProperties, EmptySeq
<1>2. Way(h, path) = at[above]
  BY DEF Way, IsWay, On
<1>3. IsWay(h, path, above, at)
  BY <1>1, WayExists
<1> HIDE DEF above, at
<1>4. \A n \in 0..above : at[n] = On(h, path, at, n)
  BY <1>3 DEF IsWay
<1>5. \A n \in 0..above : Good(n)
  <2> DEFINE T == {n \in 0..above : ~Good(n)}
  <2>1. SUFFICES ASSUME T # {} PROVE FALSE
    OBVIOUS
  <2>2. PICK x \in T : \A y \in T : x <= y
    <3>1. T \in SUBSET Nat
      BY <1>1
    <3> HIDE DEF T
    <3> QED BY <2>1, <3>1, Least
  <2>3. x \in 0..above /\ ~Good(x)
    OBVIOUS
  <2>4. CASE x = 0
    <3>1. at[x] = <<>>
      BY <1>4, <2>3, <2>4 DEF On
    <3>2. Leads(h, path, <<>>) /\ Len(<<>>) = 0
      BY EmptySeq DEF Leads, Addresses
    <3> QED BY <2>3, <2>4, <3>1, <3>2
  <2>5. CASE x # 0
    <3>1. x - 1 \in 0..above /\ ~(x <= x - 1) /\ x \in 1..Len(path)
      BY <1>1, <2>3, <2>5
    <3>2. Good(x - 1)
      BY <2>2, <3>1
    <3> DEFINE w == at[x - 1]
               copies == Copies(h.folders, w, path[x])
               e == <<path[x], IF copies = 0 THEN 1 ELSE copies>>
    <3>3. Leads(h, path, w) /\ Len(w) = x - 1
      BY <3>2
    <3>4. at[x] = Append(w, e)
      BY <1>4, <2>3, <2>5 DEF On
    <3>5. e \in Names \X Nat
      <4>1. copies \in Nat /\ path[x] \in Names
        BY <3>1, CopiesNat, ElementOfSeq
      <4> QED BY <4>1
    <3> HIDE DEF w, e
    <3>6. w \in Seq(Names \X Nat)
      BY <3>3 DEF Leads, Addresses
    <3>7. /\ Above(Append(w, e), x) = w
          /\ \A i \in 1..(x - 1) : Above(Append(w, e), i) = Above(w, i)
      <4>1. Len(w) + 1 = x
        BY <3>1, <3>3
      <4> QED BY <3>3, <3>5, <3>6, <4>1, AboveAppend
    <3> DEFINE u == Append(w, e)
    <3>8. /\ u \in Addresses /\ Len(u) = x /\ u[x] = e
          /\ \A i \in 1..(x - 1) : u[i] = w[i]
      BY <3>1, <3>3, <3>5, <3>6, AppendProperties DEF Addresses
    <3> HIDE DEF u, copies
    <3>9. ASSUME NEW i \in 1..x
          PROVE  u[i] = <<path[i], IF Copies(h.folders, Above(u, i), path[i]) = 0 THEN 1
                                   ELSE Copies(h.folders, Above(u, i), path[i])>>
      <4>1. CASE i = x
        BY <3>7, <3>8, <4>1 DEF u, e, copies
      <4>2. CASE i # x
        <5>1. i \in 1..(x - 1)
          BY <2>3, <4>2
        <5>2. u[i] = w[i] /\ Above(u, i) = Above(w, i)
          BY <3>7, <3>8, <5>1 DEF u
        <5> QED BY <3>3, <5>1, <5>2 DEF Leads
      <4> QED BY <4>1, <4>2
    <3>10. Leads(h, path, u) /\ Len(u) = x
      BY <3>8, <3>9 DEF Leads
    <3> QED BY <2>3, <3>4, <3>10 DEF u
  <2> QED BY <2>4, <2>5
<1>6. Good(above) /\ above \in 0..above
  BY <1>1, <1>5
<1> QED BY <1>2, <1>6 DEF above

-------------------------------------------------------------------------------
(* What is made on the way, what is added at its end, and what is removed.    *)

\* Every node of MadeOnWay is the first of its name in its list, and its address is where
\* the way goes on.
LEMMA MadeOnWayFacts ==
  ASSUME NEW h, IsFiniteSet(h.folders), NEW path \in Seq(Names), path # <<>>
  PROVE  /\ IsFiniteSet(MadeOnWay(h, path))
         /\ \A n \in MadeOnWay(h, path) :
              /\ IsNode(n) /\ n.nth = 1 /\ Copies(h.folders, n.in, n.name) = 0
              /\ n.datapath = NoDatapath
              /\ \E i \in 1..Len(Way(h, path)) :
                   /\ n.in = Above(Way(h, path), i) /\ n.name = path[i]
                   /\ Len(n.in) = i - 1 /\ At(n) = SubSeq(Way(h, path), 1, i)
         /\ \A i \in 1..Len(Way(h, path)) :
              Copies(h.folders, Above(Way(h, path), i), path[i]) = 0 =>
                \E n \in MadeOnWay(h, path) :
                  n.in = Above(Way(h, path), i) /\ n.name = path[i]
<1> DEFINE way == Way(h, path)
           made == MadeOnWay(h, path)
           c(i) == Copies(h.folders, Above(way, i), way[i][1])
           new == {i \in DOMAIN way : c(i) = 0}
           node(i) == [in |-> Above(way, i), name |-> way[i][1], nth |-> 1,
                       datapath |-> NoDatapath]
<1>1. Leads(h, path, way) /\ Len(way) = Len(path) - 1
  BY WayLeads
<1>2. made = {node(i) : i \in new}
  BY DEF MadeOnWay
<1> HIDE DEF way, made
<1>3. /\ way \in Seq(Names \X Nat) /\ Len(way) \in Nat /\ DOMAIN way = 1..Len(way)
      /\ Len(path) \in Nat /\ \A i \in 1..Len(path) : path[i] \in Names
  BY <1>1, LenProperties, ElementOfSeq DEF Leads, Addresses
<1>4. \A i \in 1..Len(way) : i - 1 \in 0..Len(way) /\ i \in 0..Len(way) /\ i \in 1..Len(path)
  BY <1>1, <1>3
<1>5. \A i \in 1..Len(way) : way[i][1] = path[i]
  BY <1>1 DEF Leads
<1>6. ASSUME NEW i \in 1..Len(way)
      PROVE  /\ Above(way, i) \in Addresses /\ Len(Above(way, i)) = i - 1
             /\ IsNode(node(i))
             /\ c(i) = 0 => way[i] = <<path[i], 1>> /\ At(node(i)) = SubSeq(way, 1, i)
  <2>1. /\ Above(way, i) \in Addresses /\ Len(Above(way, i)) = i - 1
        /\ \A j \in 1..(i - 1) : Above(way, i)[j] = way[j]
    BY <1>3, <1>4, AboveFacts DEF Above, Addresses
  <2>2. IsNode(node(i))
    BY <1>3, <1>4, <1>5, <2>1 DEF IsNode
  <2>3. ASSUME c(i) = 0 PROVE way[i] = <<path[i], 1>>
    <3>1. Copies(h.folders, Above(way, i), path[i]) = 0
      BY <1>5, <2>3
    <3> QED BY <1>1, <3>1 DEF Leads
  <2>4. ASSUME c(i) = 0 PROVE At(node(i)) = SubSeq(way, 1, i)
    <3> DEFINE a == At(node(i))
               b == SubSeq(way, 1, i)
    <3>1. /\ a \in Seq(Names \X Nat) /\ Len(a) = Len(node(i).in) + 1
          /\ \A j \in 1..Len(node(i).in) : a[j] = node(i).in[j]
          /\ a[Len(node(i).in) + 1] = <<node(i).name, node(i).nth>>
      BY <2>2, AtFacts DEF Addresses
    <3>2. node(i).in = Above(way, i) /\ node(i).name = path[i] /\ node(i).nth = 1
      BY <1>5
    <3>3. b \in Seq(Names \X Nat) /\ Len(b) = i /\ \A j \in 1..i : b[j] = way[j]
      BY <1>3, <1>4, AboveFacts
    <3> HIDE DEF a, b, node
    <3>4. Len(a) = i
      BY <1>3, <2>1, <3>1, <3>2
    <3>5. \A j \in 1..i : j = i \/ j \in 1..(i - 1)
      OBVIOUS
    <3>6. a[i] = <<path[i], 1>> /\ \A j \in 1..(i - 1) : a[j] = way[j]
      <4>1. (i - 1) + 1 = i
        OBVIOUS
      <4> QED BY <2>1, <3>1, <3>2, <4>1
    <3>7. \A j \in 1..i : a[j] = b[j]
      BY <2>3, <2>4, <3>3, <3>5, <3>6
    <3>8. a = b
      BY <3>1, <3>3, <3>4, <3>7, SeqEqual
    <3> QED BY <3>8 DEF a, b
  <2> QED BY <2>1, <2>2, <2>3, <2>4
<1>7. IsFiniteSet(made)
  <2>1. IsFiniteSet(new)
    <3>1. IsFiniteSet(1..Len(way))
      <4>1. 1 \in Int /\ Len(way) \in Int
        BY <1>3
      <4> QED BY ONLY <4>1, FS_Interval
    <3>2. new \in SUBSET (1..Len(way))
      BY <1>3
    <3> QED BY <3>1, <3>2, FS_Subset
  <2> DEFINE f == [i \in new |-> node(i)]
  <2>2. f \in Surjection(new, made)
    <3>1. f \in [new -> made] /\ \A n \in made : \E i \in new : f[i] = n
      BY <1>2
    <3> QED BY <3>1 DEF Surjection
  <2> HIDE DEF f, new
  <2> QED BY <2>1, <2>2, FS_Surjection
<1>8. ASSUME NEW n \in made
      PROVE  /\ IsNode(n) /\ n.nth = 1 /\ Copies(h.folders, n.in, n.name) = 0
             /\ n.datapath = NoDatapath
             /\ \E i \in 1..Len(way) :
                  /\ n.in = Above(way, i) /\ n.name = path[i]
                  /\ Len(n.in) = i - 1 /\ At(n) = SubSeq(way, 1, i)
  <2>1. PICK i \in new : n = node(i)
    BY <1>2
  <2>2. i \in 1..Len(way) /\ c(i) = 0
    BY <1>3
  <2>3. /\ n.in = Above(way, i) /\ n.name = path[i] /\ n.nth = 1 /\ n.datapath = NoDatapath
    BY <1>5, <2>1, <2>2
  <2>4. IsNode(n) /\ At(n) = SubSeq(way, 1, i) /\ Len(Above(way, i)) = i - 1
    BY <1>6, <2>1, <2>2
  <2>5. Copies(h.folders, n.in, n.name) = 0
    BY <1>5, <2>2, <2>3
  <2> QED BY <2>2, <2>3, <2>4, <2>5
<1>9. ASSUME NEW i \in 1..Len(way), Copies(h.folders, Above(way, i), path[i]) = 0
      PROVE  \E n \in made : n.in = Above(way, i) /\ n.name = path[i]
  <2>1. i \in new
    BY <1>3, <1>5, <1>9
  <2>2. node(i) \in made /\ node(i).in = Above(way, i) /\ node(i).name = path[i]
    BY <1>2, <1>5, <1>9, <2>1
  <2> QED BY <2>2
<1> QED BY <1>7, <1>8, <1>9 DEF way, made

\* Two nodes made on the way are in different lists.
LEMMA MadeApart ==
  ASSUME NEW h, IsFiniteSet(h.folders), NEW path \in Seq(Names), path # <<>>,
         NEW m \in MadeOnWay(h, path), NEW n \in MadeOnWay(h, path), m.in = n.in
  PROVE  m = n /\ m.name = n.name
<1> DEFINE way == Way(h, path)
           node(i) == [in |-> Above(way, i), name |-> way[i][1], nth |-> 1,
                       datapath |-> NoDatapath]
<1>1. Leads(h, path, way)
  BY WayLeads
<1>2. PICK i \in DOMAIN way : m = node(i)
  BY DEF MadeOnWay
<1>3. PICK j \in DOMAIN way : n = node(j)
  BY DEF MadeOnWay
<1> HIDE DEF way
<1>4. /\ way \in Seq(Names \X Nat) /\ Len(way) \in Nat /\ DOMAIN way = 1..Len(way)
  BY <1>1, LenProperties DEF Leads, Addresses
<1>5. i \in 1..Len(way) /\ j \in 1..Len(way)
  BY <1>4
<1>6. i - 1 \in 0..Len(way) /\ j - 1 \in 0..Len(way)
  BY <1>4, <1>5
<1>7. Len(Above(way, i)) = i - 1 /\ Len(Above(way, j)) = j - 1
  BY <1>4, <1>6, AboveFacts DEF Above
<1>8. Above(way, i) = Above(way, j)
  BY <1>2, <1>3
<1>9. i = j
  <2>1. i - 1 = j - 1
    BY <1>7, <1>8
  <2> QED BY <1>5, <2>1
<1> QED BY <1>2, <1>3, <1>9

\* How many nodes of a name there are once the way is made.
LEMMA MadeCopies ==
  ASSUME NEW h, IsFiniteSet(h.folders), NEW path \in Seq(Names), path # <<>>, NEW at, NEW name
  PROVE  Copies(h.folders \cup MadeOnWay(h, path), at, name) =
           IF \E n \in MadeOnWay(h, path) : n.in = at /\ n.name = name
             THEN 1 ELSE Copies(h.folders, at, name)
<1> DEFINE made == MadeOnWay(h, path)
           more == h.folders \cup made
<1>1. \A n \in made : Copies(h.folders, n.in, n.name) = 0
  BY MadeOnWayFacts
<1>2. \A m, n \in made : m.in = n.in => m = n
  BY MadeApart
<1> HIDE DEF made
<1>3. CASE \E n \in made : n.in = at /\ n.name = name
  <2>1. PICK n \in made : n.in = at /\ n.name = name
    BY <1>3
  <2>2. \A m \in h.folders : ~(m.in = at /\ m.name = name)
    BY <1>1, <2>1, CopiesNat
  <2>3. {m \in more : m.in = at /\ m.name = name} = {n}
    BY <1>2, <2>1, <2>2
  <2>4. Copies(more, at, name) = 1
    BY <2>3, FS_Singleton DEF Copies
  <2> QED BY <1>3, <2>4 DEF made
<1>4. CASE ~\E n \in made : n.in = at /\ n.name = name
  <2>1. {m \in more : m.in = at /\ m.name = name} =
          {m \in h.folders : m.in = at /\ m.name = name}
    BY <1>4
  <2>2. Copies(more, at, name) = Copies(h.folders, at, name)
    BY <2>1 DEF Copies
  <2> QED BY <1>4, <2>2 DEF made
<1> QED BY <1>3, <1>4

\* A tree with its folders on the way to a path made keeps its shape, and the way is there.
LEMMA MadeShape ==
  ASSUME NEW h, Shape(h), NEW path \in Seq(Names), path # <<>>
  PROVE  /\ Shape([folders |-> h.folders \cup MadeOnWay(h, path), files |-> h.files])
         /\ \A i \in 1..Len(Way(h, path)) : \E d \in h.folders \cup MadeOnWay(h, path) :
              At(d) = SubSeq(Way(h, path), 1, i)
<1> DEFINE way == Way(h, path)
           made == MadeOnWay(h, path)
           more == h.folders \cup made
           e == [folders |-> more, files |-> h.files]
<1>1. /\ IsFiniteSet(h.folders) /\ Numbered(h.folders) /\ Hung(h.folders, h.folders)
      /\ \A n \in h.folders : IsNode(n)
  BY DEF Shape, Listing
<1>2. /\ IsFiniteSet(made)
      /\ \A n \in made :
           /\ IsNode(n) /\ n.nth = 1 /\ Copies(h.folders, n.in, n.name) = 0
           /\ \E i \in 1..Len(way) :
                /\ n.in = Above(way, i) /\ Len(n.in) = i - 1 /\ At(n) = SubSeq(way, 1, i)
      /\ \A i \in 1..Len(way) : Copies(h.folders, Above(way, i), path[i]) = 0 =>
           \E n \in made : n.in = Above(way, i) /\ n.name = path[i]
  BY <1>1, MadeOnWayFacts
<1>3. Leads(h, path, way)
  BY <1>1, WayLeads
<1>4. /\ way \in Seq(Names \X Nat) /\ Len(way) \in Nat
      /\ \A i \in 1..Len(way) : i - 1 \in 0..Len(way) /\ i \in 0..Len(way)
  BY <1>3, LenProperties DEF Leads, Addresses
<1>5. \A at, name : Copies(more, at, name) =
        IF \E n \in made : n.in = at /\ n.name = name THEN 1 ELSE Copies(h.folders, at, name)
  BY <1>1, MadeCopies
<1>6. \A m, n \in made : m.in = n.in => m = n
  BY <1>1, MadeApart
<1> HIDE DEF way, made
<1>7. ASSUME NEW i \in 1..Len(way) PROVE \E d \in more : At(d) = SubSeq(way, 1, i)
  <2>1. CASE Copies(h.folders, Above(way, i), path[i]) = 0
    <3>1. PICK n \in made : n.in = Above(way, i)
      BY <1>2, <2>1
    <3>2. PICK j \in 1..Len(way) : Len(n.in) = j - 1 /\ At(n) = SubSeq(way, 1, j)
      BY <1>2
    <3>3. Len(Above(way, i)) = i - 1
      BY <1>4, AboveFacts DEF Above
    <3>4. i = j
      <4>1. i - 1 = j - 1
        BY <3>1, <3>2, <3>3
      <4> QED BY <3>2, <4>1
    <3> QED BY <3>2, <3>4
  <2>2. CASE Copies(h.folders, Above(way, i), path[i]) # 0
    <3>1. PICK d \in h.folders :
             /\ d.in = Above(way, i) /\ d.name = path[i]
             /\ d.nth = Copies(h.folders, Above(way, i), path[i])
      BY <1>1, <2>2, FirstThere DEF FirstOf
    <3>2. way[i] = <<d.name, d.nth>>
      BY <1>3, <2>2, <3>1 DEF Leads
    <3> DEFINE a == At(d)
               b == SubSeq(way, 1, i)
    <3>3. /\ a \in Seq(Names \X Nat) /\ Len(a) = Len(d.in) + 1
          /\ \A j \in 1..Len(d.in) : a[j] = d.in[j]
          /\ a[Len(d.in) + 1] = <<d.name, d.nth>>
      BY <1>1, AtFacts DEF Addresses
    <3>4. b \in Seq(Names \X Nat) /\ Len(b) = i /\ \A j \in 1..i : b[j] = way[j]
      BY <1>4, AboveFacts
    <3>5. Len(d.in) = i - 1 /\ \A j \in 1..(i - 1) : d.in[j] = way[j]
      BY <1>4, <3>1, AboveFacts DEF Above
    <3> HIDE DEF a, b
    <3>6. Len(a) = i
      BY <1>4, <3>3, <3>5
    <3>7. a[i] = <<d.name, d.nth>>
      <4>1. (i - 1) + 1 = i
        OBVIOUS
      <4> QED BY <3>3, <3>5, <4>1
    <3>8. \A j \in 1..(i - 1) : a[j] = way[j]
      BY <3>3, <3>5
    <3>9. \A j \in 1..i : j = i \/ j \in 1..(i - 1)
      OBVIOUS
    <3>10. \A j \in 1..i : a[j] = b[j]
      BY <3>2, <3>4, <3>7, <3>8, <3>9
    <3>11. a = b
      BY <3>3, <3>4, <3>6, <3>10, SeqEqual
    <3> QED BY <3>1, <3>11 DEF a, b
  <2> QED BY <2>1, <2>2
<1>8. IsFiniteSet(more)
  BY <1>1, <1>2, FS_Union
<1>9. \A n \in more : IsNode(n)
  BY <1>1, <1>2
<1>10. Numbered(more)
  <2> DEFINE c(n) == Copies(h.folders, n.in, n.name)
             d(n) == Copies(more, n.in, n.name)
  <2>1. \A n \in made : d(n) = 1 /\ n.nth = 1
    BY <1>2, <1>5
  <2>2. \A n \in h.folders : c(n) # 0
    BY <1>1, CopiesNat
  <2>3. \A n \in h.folders : ~\E m \in made : m.in = n.in /\ m.name = n.name
    <3> SUFFICES ASSUME NEW n \in h.folders, NEW m \in made, m.in = n.in, m.name = n.name
                 PROVE  FALSE
      OBVIOUS
    <3>1. Copies(h.folders, m.in, m.name) = 0
      BY <1>2
    <3>2. Copies(h.folders, n.in, n.name) = 0
      BY <3>1
    <3> QED BY <2>2, <3>2
  <2>4. \A n \in h.folders : d(n) = c(n)
    BY <1>5, <2>3
  <2>5. /\ \A n \in h.folders : n.nth <= c(n)
        /\ \A n \in h.folders : \A i \in 1..c(n) :
             \E m \in h.folders : m.in = n.in /\ m.name = n.name /\ m.nth = i
        /\ \A m, n \in h.folders : m.in = n.in /\ m.name = n.name /\ m.nth = n.nth => m = n
    BY <1>1 DEF Numbered
  <2> HIDE DEF c, d
  <2>6. \A n \in more : n.nth <= d(n)
    BY <2>1, <2>4, <2>5
  <2>7. ASSUME NEW n \in more, NEW i \in 1..d(n)
        PROVE  \E m \in more : m.in = n.in /\ m.name = n.name /\ m.nth = i
    <3>1. CASE n \in made
      <4>1. i = n.nth
        BY <2>1, <2>7, <3>1
      <4> QED BY <4>1
    <3>2. CASE n \in h.folders
      <4>1. i \in 1..c(n)
        BY <2>4, <2>7, <3>2
      <4> QED BY <2>5, <3>2, <4>1
    <3> QED BY <3>1, <3>2
  <2>8. ASSUME NEW m \in more, NEW n \in more, m.in = n.in, m.name = n.name, m.nth = n.nth
        PROVE  m = n
    BY <1>6, <2>3, <2>5, <2>8
  <2> QED BY <2>6, <2>7, <2>8 DEF Numbered, d
<1>11. Hung(more, more)
  <2> SUFFICES ASSUME NEW n \in more, NEW j \in 1..Len(n.in)
               PROVE  \E d \in more : At(d) = SubSeq(n.in, 1, j)
    BY DEF Hung
  <2>1. CASE n \in h.folders
    BY <1>1, <2>1 DEF Hung
  <2>2. CASE n \in made
    <3>1. PICK i \in 1..Len(way) : n.in = Above(way, i) /\ Len(n.in) = i - 1
      BY <1>2, <2>2
    <3>2. j \in 1..Len(way) /\ j \in 0..Len(way) /\ j \in 0..Len(n.in)
      BY <1>4, <3>1
    <3>3. PICK d \in more : At(d) = SubSeq(way, 1, j)
      BY <1>7, <3>2
    <3> DEFINE a == SubSeq(way, 1, j)
               b == SubSeq(n.in, 1, j)
    <3>4. n.in \in Seq(Names \X Nat) /\ \A k \in 1..(i - 1) : n.in[k] = way[k]
      BY <1>4, <3>1, AboveFacts DEF Above
    <3>5. a \in Seq(Names \X Nat) /\ Len(a) = j /\ \A k \in 1..j : a[k] = way[k]
      BY <1>4, <3>2, AboveFacts
    <3>6. b \in Seq(Names \X Nat) /\ Len(b) = j /\ \A k \in 1..j : b[k] = n.in[k]
      BY <3>2, <3>4, AboveFacts
    <3> HIDE DEF a, b
    <3>7. \A k \in 1..j : k \in 1..(i - 1)
      BY <3>1
    <3>8. \A k \in 1..j : a[k] = b[k]
      BY <3>4, <3>5, <3>6, <3>7
    <3>9. a = b
      BY <3>5, <3>6, <3>8, SeqEqual
    <3> QED BY <3>3, <3>9 DEF a, b
  <2> QED BY <2>1, <2>2
<1>12. Listing(h.files, more)
  BY DEF Shape, Listing, Hung
<1>13. Listing(more, more)
  BY <1>8, <1>9, <1>10, <1>11 DEF Listing
<1>14. e.folders = more /\ e.files = h.files /\ e = [folders |-> more, files |-> h.files]
  OBVIOUS
<1> HIDE DEF e, more
<1>15. Shape(e)
  BY <1>12, <1>13, <1>14 DEF Shape
<1> QED BY <1>7, <1>15 DEF e, more, made, way

\* How many nodes of the last name are at the end of the way: the way has only made nodes
\* in lists above it.
LEMMA EndCopies ==
  ASSUME NEW h, IsFiniteSet(h.folders), NEW path \in Seq(Names), path # <<>>, NEW name
  PROVE  Copies(h.folders \cup MadeOnWay(h, path), Way(h, path), name) =
           Copies(h.folders, Way(h, path), name)
<1> DEFINE way == Way(h, path)
<1>1. Len(way) \in Nat
  BY WayLeads, LenProperties DEF Leads, Addresses
<1>2. \A n \in MadeOnWay(h, path) : \E i \in 1..Len(way) : Len(n.in) = i - 1
  BY MadeOnWayFacts
<1> HIDE DEF way
<1>3. \A n \in MadeOnWay(h, path) : n.in # way
  BY <1>1, <1>2
<1> QED BY <1>3, MadeCopies DEF way

\* The node that is added, and the tree.
LEMMA AddFolderShape ==
  ASSUME NEW h, Shape(h), NEW path \in Seq(Names), path # <<>>, NEW datapath
  PROVE  /\ Shape(AddFolder(h, path, datapath))
         /\ AddFolder(h, path, datapath).files = h.files
<1> DEFINE way == Way(h, path)
           made == MadeOnWay(h, path)
           e == [folders |-> h.folders \cup made, files |-> h.files]
           n == [in |-> way, name |-> Last(path),
                 nth |-> Copies(h.folders, way, Last(path)) + 1, datapath |-> datapath]
<1>1. IsFiniteSet(h.folders) /\ h = [folders |-> h.folders, files |-> h.files]
  BY DEF Shape, Listing
<1>2. /\ Shape(e)
      /\ \A i \in 1..Len(way) : \E d \in h.folders \cup made : At(d) = SubSeq(way, 1, i)
  BY MadeShape
<1>3. e.folders = h.folders \cup made /\ e.files = h.files
  OBVIOUS
<1>4. Copies(h.folders \cup made, way, Last(path)) = Copies(h.folders, way, Last(path))
  BY <1>1, EndCopies
<1>5. way \in Addresses /\ Len(way) \in Nat
  BY <1>1, WayLeads, LenProperties DEF Leads, Addresses
<1>6. Last(path) \in Names
  BY EmptySeq, LenProperties, ElementOfSeq DEF Last
<1>7. /\ n.in = way /\ n.name = Last(path)
      /\ n.nth = Copies(h.folders, way, Last(path)) + 1
  OBVIOUS
<1>8. AddFolder(h, path, datapath) = [h EXCEPT !.folders = @ \cup (made \cup {n})]
  BY DEF AddFolder
<1> HIDE DEF e, n, way, made
<1>9. Copies(h.folders, way, Last(path)) \in Nat
  BY <1>1, CopiesNat
<1>10. IsNode(n)
  BY <1>5, <1>6, <1>7, <1>9 DEF IsNode
<1>11. n.in = <<>> \/ \E d \in e.folders : At(d) = n.in
  <2>1. CASE way = <<>>
    BY <1>7, <2>1
  <2>2. CASE way # <<>>
    <3>1. Len(way) \in 1..Len(way) /\ SubSeq(way, 1, Len(way)) = way
      BY <1>5, <2>2, EmptySeq, SubSeqFull DEF Addresses
    <3> QED BY <1>2, <1>3, <1>7, <3>1
  <2> QED BY <2>1, <2>2
<1>12. n.nth = Copies(e.folders, n.in, n.name) + 1
  BY <1>3, <1>4, <1>7
<1>13. Shape([e EXCEPT !.folders = @ \cup {n}])
  BY <1>2, <1>10, <1>11, <1>12, AddedFolder
<1>14. [h EXCEPT !.folders = @ \cup (made \cup {n})] =
         [folders |-> h.folders \cup (made \cup {n}), files |-> h.files]
  BY <1>1, WithFolders
<1>15. [e EXCEPT !.folders = @ \cup {n}] = [folders |-> e.folders \cup {n}, files |-> e.files]
  BY <1>2, WithFolders DEF Shape
<1>16. h.folders \cup (made \cup {n}) = e.folders \cup {n}
  BY <1>3
<1>17. AddFolder(h, path, datapath) = [e EXCEPT !.folders = @ \cup {n}]
  BY <1>3, <1>8, <1>14, <1>15, <1>16
<1>18. AddFolder(h, path, datapath).files = h.files
  BY <1>8, <1>14
<1> QED BY <1>13, <1>17, <1>18

LEMMA AddFileShape ==
  ASSUME NEW h, Shape(h), NEW path \in Seq(Names), path # <<>>, NEW id
  PROVE  /\ Shape(AddFile(h, path, id))
         /\ \E n : n.id = id /\ AddFile(h, path, id).files = h.files \cup {n}
<1> DEFINE way == Way(h, path)
           made == MadeOnWay(h, path)
           e == [folders |-> h.folders \cup made, files |-> h.files]
           n == [in |-> way, name |-> Last(path),
                 nth |-> Copies(h.files, way, Last(path)) + 1, id |-> id]
<1>1. /\ IsFiniteSet(h.folders) /\ IsFiniteSet(h.files)
      /\ h = [folders |-> h.folders, files |-> h.files]
  BY DEF Shape, Listing
<1>2. /\ Shape(e)
      /\ \A i \in 1..Len(way) : \E d \in h.folders \cup made : At(d) = SubSeq(way, 1, i)
  BY MadeShape
<1>3. e.folders = h.folders \cup made /\ e.files = h.files
  OBVIOUS
<1>4. way \in Addresses /\ Len(way) \in Nat
  BY <1>1, WayLeads, LenProperties DEF Leads, Addresses
<1>5. Last(path) \in Names
  BY EmptySeq, LenProperties, ElementOfSeq DEF Last
<1>6. /\ n.in = way /\ n.name = Last(path) /\ n.id = id
      /\ n.nth = Copies(h.files, way, Last(path)) + 1
  OBVIOUS
<1>7. AddFile(h, path, id) =
        [h EXCEPT !.folders = h.folders \cup made, !.files = h.files \cup {n}]
  BY DEF AddFile
<1> HIDE DEF e, n, way, made
<1>8. Copies(h.files, way, Last(path)) \in Nat
  BY <1>1, CopiesNat
<1>9. IsNode(n)
  BY <1>4, <1>5, <1>6, <1>8 DEF IsNode
<1>10. n.in = <<>> \/ \E d \in e.folders : At(d) = n.in
  <2>1. CASE way = <<>>
    BY <1>6, <2>1
  <2>2. CASE way # <<>>
    <3>1. Len(way) \in 1..Len(way) /\ SubSeq(way, 1, Len(way)) = way
      BY <1>4, <2>2, EmptySeq, SubSeqFull DEF Addresses
    <3> QED BY <1>2, <1>3, <1>6, <3>1
  <2> QED BY <2>1, <2>2
<1>11. n.nth = Copies(e.files, n.in, n.name) + 1
  BY <1>3, <1>6
<1>12. Shape([e EXCEPT !.files = @ \cup {n}])
  BY <1>2, <1>9, <1>10, <1>11, AddedFile
<1>13. [e EXCEPT !.files = @ \cup {n}] = [folders |-> e.folders, files |-> e.files \cup {n}]
  BY <1>2, WithFiles DEF Shape
<1>14. AddFile(h, path, id) = [folders |-> h.folders \cup made, files |-> h.files \cup {n}]
  <2> DEFINE a == h.folders
             b == h.files
             a2 == h.folders \cup made
             b2 == h.files \cup {n}
  <2>1. h = [folders |-> a, files |-> b]
    BY <1>1
  <2>2. AddFile(h, path, id) = [h EXCEPT !.folders = a2, !.files = b2]
    BY <1>7
  <2> HIDE DEF a, b, a2, b2
  <2>3. AddFile(h, path, id) = [folders |-> a2, files |-> b2]
    BY ONLY <2>1, <2>2
  <2> QED BY <2>3 DEF a2, b2
<1>15. AddFile(h, path, id) = [e EXCEPT !.files = @ \cup {n}]
  BY <1>3, <1>13, <1>14
<1>16. AddFile(h, path, id).files = h.files \cup {n}
  BY <1>14
<1> QED BY <1>6, <1>12, <1>15, <1>16

\* Whole lists are taken away, with all that is below them.
LEMMA InvalidateShape ==
  ASSUME NEW h, Shape(h), NEW path
  PROVE  Shape(Invalidate(h, path))
<1> DEFINE below(at) == \E d \in FolderAt(h, path) : IsPrefix(At(d), at)
           folders == h.folders \ Inside(h, h.folders, path)
           files == h.files \ Inside(h, h.files, path)
           e == [folders |-> folders, files |-> files]
<1>1. /\ folders = {n \in h.folders : ~below(n.in)} /\ files = {n \in h.files : ~below(n.in)}
      /\ e = Invalidate(h, path)
      /\ e = [folders |-> folders, files |-> files] /\ e.folders = folders /\ e.files = files
  BY DEF Inside, Invalidate
<1>2. \A d \in FolderAt(h, path) : d \in h.folders
  BY DEF FolderAt, Reached
<1>3. \A nodes \in {h.folders, h.files} : Listing(nodes, h.folders)
  BY DEF Shape
<1>4. ASSUME NEW s \in Seq(Names \X Nat), NEW i \in 1..Len(s), NEW d \in h.folders,
             NEW e1 \in h.folders, At(e1) = SubSeq(s, 1, i), IsPrefix(At(d), e1.in)
      PROVE  IsPrefix(At(d), s)
  <2>1. /\ At(d) \in Seq(Names \X Nat) /\ Len(At(d)) \in Nat
        /\ IsNode(e1) /\ e1.in \in Seq(Names \X Nat) /\ Len(e1.in) \in Nat
        /\ Len(At(e1)) = Len(e1.in) + 1
        /\ \A k \in 1..Len(e1.in) : At(e1)[k] = e1.in[k]
        /\ Len(s) \in Nat
    BY <1>3, AtFacts, LenProperties DEF Listing, IsNode, Addresses
  <2>2. /\ Len(SubSeq(s, 1, i)) = i /\ \A k \in 1..i : SubSeq(s, 1, i)[k] = s[k]
    <3>1. i \in 0..Len(s)
      BY <2>1
    <3> QED BY <3>1, AboveFacts
  <2> DEFINE n == Len(At(d))
  <2>3. n <= Len(e1.in) /\ SubSeq(At(d), 1, n) = SubSeq(e1.in, 1, n)
    BY <1>4 DEF IsPrefix
  <2>4. n \in 0..Len(e1.in) /\ n \in 0..Len(s) /\ n <= Len(s) /\ n \in 0..n
    <3>1. i = Len(e1.in) + 1
      BY <1>4, <2>1, <2>2
    <3>2. n \in Nat
      BY <2>1
    <3> HIDE DEF n
    <3> QED BY <2>1, <2>3, <3>1, <3>2
  <2>5. SubSeq(e1.in, 1, n) = SubSeq(s, 1, n)
    <3> DEFINE a == SubSeq(e1.in, 1, n)
               b == SubSeq(s, 1, n)
    <3>1. a \in Seq(Names \X Nat) /\ Len(a) = n /\ \A k \in 1..n : a[k] = e1.in[k]
      BY <2>1, <2>4, AboveFacts
    <3>2. b \in Seq(Names \X Nat) /\ Len(b) = n /\ \A k \in 1..n : b[k] = s[k]
      BY <2>4, AboveFacts
    <3> HIDE DEF a, b
    <3>3. n \in Nat /\ i = Len(e1.in) + 1 /\ \A k \in 1..n : k \in 1..i /\ k \in 1..Len(e1.in)
      <4>1. i = Len(e1.in) + 1 /\ n \in Nat /\ n <= Len(e1.in)
        BY <1>4, <2>1, <2>2, <2>3
      <4> HIDE DEF n
      <4> QED BY <2>1, <4>1
    <3>4. \A k \in 1..n : a[k] = b[k]
      BY <1>4, <2>1, <2>2, <3>1, <3>2, <3>3
    <3>5. a = b
      BY <3>1, <3>2, <3>4, SeqEqual
    <3> QED BY <3>5 DEF a, b
  <2> QED BY <2>3, <2>4, <2>5 DEF IsPrefix
<1> HIDE DEF folders, files, e, below
<1>5. ASSUME NEW nodes \in {h.folders, h.files}
      PROVE  Listing({n \in nodes : ~below(n.in)}, folders)
  <2> DEFINE rest == {n \in nodes : ~below(n.in)}
  <2>1. Listing(nodes, h.folders)
    BY <1>3
  <2>2. IsFiniteSet(rest) /\ \A n \in rest : IsNode(n)
    <3>1. rest \in SUBSET nodes
      OBVIOUS
    <3> HIDE DEF rest
    <3> QED BY <2>1, <3>1, FS_Subset DEF Listing
  <2>3. \A n \in rest : Copies(rest, n.in, n.name) = Copies(nodes, n.in, n.name)
    <3> SUFFICES ASSUME NEW n \in rest
                 PROVE  Copies(rest, n.in, n.name) = Copies(nodes, n.in, n.name)
      OBVIOUS
    <3>1. {m \in rest : m.in = n.in /\ m.name = n.name} =
            {m \in nodes : m.in = n.in /\ m.name = n.name}
      OBVIOUS
    <3> QED BY <3>1 DEF Copies
  <2>4. Numbered(rest)
    <3>1. /\ \A n \in rest : n.nth <= Copies(rest, n.in, n.name)
      BY <2>1, <2>3 DEF Listing, Numbered
    <3>2. ASSUME NEW n \in rest, NEW i \in 1..Copies(rest, n.in, n.name)
          PROVE  \E m \in rest : m.in = n.in /\ m.name = n.name /\ m.nth = i
      <4>1. PICK m \in nodes : m.in = n.in /\ m.name = n.name /\ m.nth = i
        BY <2>1, <2>3 DEF Listing, Numbered
      <4>2. m \in rest
        BY <4>1
      <4> QED BY <4>1, <4>2
    <3>3. \A m, n \in rest : m.in = n.in /\ m.name = n.name /\ m.nth = n.nth => m = n
      BY <2>1 DEF Listing, Numbered
    <3> HIDE DEF rest
    <3> QED BY <3>1, <3>2, <3>3 DEF Numbered
  <2>5. Hung(rest, folders)
    <3> SUFFICES ASSUME NEW n \in rest, NEW i \in 1..Len(n.in)
                 PROVE  \E d \in folders : At(d) = SubSeq(n.in, 1, i)
      BY DEF Hung
    <3>1. PICK d \in h.folders : At(d) = SubSeq(n.in, 1, i)
      BY <2>1 DEF Listing, Hung
    <3>2. ASSUME below(d.in) PROVE FALSE
      <4>1. PICK c \in h.folders : c \in FolderAt(h, path) /\ IsPrefix(At(c), d.in)
        BY <1>2, <3>2 DEF below
      <4>2. n.in \in Seq(Names \X Nat)
        BY <2>2 DEF IsNode, Addresses
      <4>3. IsPrefix(At(c), n.in)
        BY <1>4, <3>1, <4>1, <4>2
      <4> QED BY <4>1, <4>3 DEF below
    <3> QED BY <1>1, <3>1, <3>2
  <2> HIDE DEF rest
  <2>6. Listing(rest, folders)
    BY <2>2, <2>4, <2>5 DEF Listing
  <2> QED BY <2>6 DEF rest
<1>6. Listing(folders, folders) /\ Listing(files, folders)
  BY <1>1, <1>5
<1>7. Shape(e)
  BY <1>1, <1>6 DEF Shape
<1> QED BY <1>1, <1>7

\* The first node of a name is taken out of its list.
LEMMA RemoveFileShape ==
  ASSUME NEW h, Shape(h), NEW path
  PROVE  Shape(RemoveFile(h, path))
<1> DEFINE gone == FileAt(h, path)
           rest == h.files \ gone
           c(n) == Copies(h.files, n.in, n.name)
           d(n) == Copies(rest, n.in, n.name)
<1>1. gone \subseteq h.files /\ \A n \in gone : n.nth = c(n)
  BY DEF FileAt, Reached
<1>2. Listing(h.files, h.folders)
  BY DEF Shape
<1>3. /\ IsFiniteSet(h.files) /\ \A n \in h.files : IsNode(n) /\ c(n) \in Nat
      /\ \A n \in h.files : n.nth <= c(n)
      /\ \A n \in h.files : \A i \in 1..c(n) :
           \E m \in h.files : m.in = n.in /\ m.name = n.name /\ m.nth = i
      /\ \A m, n \in h.files : m.in = n.in /\ m.name = n.name /\ m.nth = n.nth => m = n
  BY <1>2, CopiesNat DEF Listing, Numbered
<1> HIDE DEF gone
<1>4. RemoveFile(h, path) = [folders |-> h.folders, files |-> rest]
  <2> DEFINE a == h.folders
             b == h.files
             b2 == rest
  <2>1. h = [folders |-> a, files |-> b]
    BY DEF Shape
  <2>2. RemoveFile(h, path) = [h EXCEPT !.files = b2]
    BY DEF RemoveFile, gone
  <2> HIDE DEF a, b, b2
  <2>3. RemoveFile(h, path) = [folders |-> a, files |-> b2]
    BY ONLY <2>1, <2>2
  <2> QED BY <2>3 DEF a, b2
<1>5. ASSUME NEW n \in rest
      PROVE  /\ d(n) \in Nat /\ n.nth <= d(n) /\ d(n) <= c(n)
             /\ \A m \in gone : m.in = n.in /\ m.name = n.name => d(n) = c(n) - 1
  <2> DEFINE some == {m \in h.files : m.in = n.in /\ m.name = n.name}
             left == {m \in rest : m.in = n.in /\ m.name = n.name}
  <2>1. IsFiniteSet(some) /\ c(n) = Cardinality(some) /\ d(n) = Cardinality(left)
    BY <1>3, FS_Subset DEF Copies
  <2>2. CASE \E m \in gone : m.in = n.in /\ m.name = n.name
    <3>1. PICK m \in gone : m.in = n.in /\ m.name = n.name
      BY <2>2
    <3>2. m \in h.files /\ m.nth = c(n) /\ m \in some
      BY <1>1, <3>1
    <3>3. \A k \in gone : k.in = n.in /\ k.name = n.name => k = m
      <4> SUFFICES ASSUME NEW k \in gone, k.in = n.in, k.name = n.name PROVE k = m
        OBVIOUS
      <4>1. k.nth = c(k) /\ c(k) = c(n) /\ k \in h.files
        BY <1>1
      <4> QED BY <1>3, <3>1, <3>2, <4>1
    <3>4. left = some \ {m}
      BY <3>1, <3>3
    <3>5. n.nth # m.nth
      BY <1>3, <3>1, <3>2
    <3> HIDE DEF some, left, c, d
    <3>6. d(n) = c(n) - 1
      BY <2>1, <3>2, <3>4, FS_RemoveElement
    <3>7. c(n) \in Nat /\ n.nth \in Nat \ {0} /\ n.nth <= c(n)
      BY <1>3 DEF IsNode
    <3> QED BY <3>2, <3>5, <3>6, <3>7
  <2>3. CASE ~\E m \in gone : m.in = n.in /\ m.name = n.name
    <3>1. left = some
      BY <2>3
    <3>2. d(n) = c(n)
      BY <2>1, <3>1
    <3> QED BY <1>3, <2>3, <3>2
  <2> QED BY <2>2, <2>3
<1>6. Numbered(rest)
  <2>1. ASSUME NEW n \in rest, NEW i \in 1..d(n)
        PROVE  \E m \in rest : m.in = n.in /\ m.name = n.name /\ m.nth = i
    <3>1. i \in 1..c(n) /\ n \in h.files
      <4>1. d(n) \in Nat /\ c(n) \in Nat /\ d(n) <= c(n)
        BY <1>3, <1>5
      <4> HIDE DEF c, d
      <4> QED BY <2>1, <4>1
    <3>2. PICK m \in h.files : m.in = n.in /\ m.name = n.name /\ m.nth = i
      BY <1>3, <3>1
    <3>3. ASSUME m \in gone PROVE FALSE
      <4>1. m.nth = c(n) /\ d(n) = c(n) - 1
        BY <1>1, <1>5, <3>2, <3>3
      <4>2. d(n) \in Nat /\ c(n) \in Nat
        BY <1>3, <1>5
      <4> HIDE DEF c, d
      <4> QED BY <2>1, <3>2, <4>1, <4>2
    <3> QED BY <3>2, <3>3
  <2>2. \A n \in rest : n.nth <= d(n)
    BY <1>5
  <2>3. \A m, n \in rest : m.in = n.in /\ m.name = n.name /\ m.nth = n.nth => m = n
    BY <1>3
  <2> HIDE DEF rest
  <2> QED BY <2>1, <2>2, <2>3 DEF Numbered, d
<1>7. IsFiniteSet(rest) /\ (\A n \in rest : IsNode(n)) /\ Hung(rest, h.folders)
  BY <1>2, FS_Difference DEF Listing, Hung
<1>8. Listing(rest, h.folders) /\ Listing(h.folders, h.folders)
  BY <1>6, <1>7 DEF Listing, Shape
<1> DEFINE e == [folders |-> h.folders, files |-> rest]
<1>9. e.folders = h.folders /\ e.files = rest /\ e = [folders |-> h.folders, files |-> rest]
  OBVIOUS
<1> HIDE DEF e, rest
<1>10. Shape(e)
  BY <1>8, <1>9 DEF Shape
<1> QED BY <1>4, <1>10 DEF e

-------------------------------------------------------------------------------
(* Paths above one another.                                                   *)

LEMMA PrefixFacts ==
  ASSUME NEW S, NEW a \in Seq(S), NEW b \in Seq(S)
  PROVE  IsPrefix(a, b) <=> Len(a) <= Len(b) /\ \A i \in 1..Len(a) : a[i] = b[i]
<1>1. Len(a) \in Nat /\ Len(b) \in Nat /\ SubSeq(a, 1, Len(a)) = a
  BY LenProperties, SubSeqFull
<1>2. ASSUME Len(a) <= Len(b)
      PROVE  SubSeq(b, 1, Len(a)) = a <=> \A i \in 1..Len(a) : a[i] = b[i]
  <2> DEFINE n == Len(a)
             c == SubSeq(b, 1, n)
  <2>1. n \in 0..Len(b)
    BY <1>1, <1>2
  <2>2. c \in Seq(S) /\ Len(c) = n /\ \A i \in 1..n : c[i] = b[i]
    BY <2>1, AboveFacts
  <2> HIDE DEF c
  <2>3. (\A i \in 1..n : c[i] = a[i]) => c = a
    BY <2>2, SeqEqual
  <2> QED BY <2>2, <2>3 DEF c
<1> QED BY <1>1, <1>2 DEF IsPrefix

LEMMA StrictPrefixFacts ==
  ASSUME NEW S, NEW a \in Seq(S), NEW b \in Seq(S)
  PROVE  IsStrictPrefix(a, b) <=> Len(a) < Len(b) /\ \A i \in 1..Len(a) : a[i] = b[i]
<1>1. Len(a) \in Nat /\ Len(b) \in Nat
  BY LenProperties
<1>2. IsPrefix(a, b) <=> Len(a) <= Len(b) /\ \A i \in 1..Len(a) : a[i] = b[i]
  BY PrefixFacts
<1>3. Len(a) = Len(b) /\ (\A i \in 1..Len(a) : a[i] = b[i]) => a = b
  BY SeqEqual
<1> QED BY <1>1, <1>2, <1>3 DEF IsStrictPrefix

\* What is in a folder, and what is below it.
LEMMA AppendPrefix ==
  ASSUME NEW S, NEW a \in Seq(S), NEW b \in Seq(S), NEW x \in S, NEW y \in S
  PROVE  /\ IsStrictPrefix(a, Append(b, x)) <=> IsPrefix(a, b)
         /\ IsStrictPrefix(a, Append(a, x))
         /\ IsPrefix(Append(a, x), b) => IsStrictPrefix(a, b)
         /\ Append(a, x) = Append(b, y) <=> a = b /\ x = y
         /\ Front(Append(a, x)) = a /\ Last(Append(a, x)) = x
         /\ Append(a, x) \in Seq(S) /\ Append(a, x) # <<>>
<1> DEFINE u == Append(a, x)
           v == Append(b, x)
<1>1. /\ u \in Seq(S) /\ Len(u) = Len(a) + 1 /\ Len(a) \in Nat
      /\ \A i \in 1..Len(a) : u[i] = a[i]
      /\ u[Len(a) + 1] = x
  BY AppendProperties, LenProperties
<1>2. /\ v \in Seq(S) /\ Len(v) = Len(b) + 1 /\ Len(b) \in Nat
      /\ \A i \in 1..Len(b) : v[i] = b[i]
  BY AppendProperties, LenProperties
<1>3. Append(a, x) = Append(b, y) <=> a = b /\ x = y
  BY AppendInjective
<1>4. Front(u) = a
  <2>1. SubSeq(u, 1, Len(a)) = a
    <3>1. Above(u, Len(a) + 1) = a
      BY AboveAppend
    <3>2. (Len(a) + 1) - 1 = Len(a)
      BY <1>1
    <3> QED BY <3>1, <3>2 DEF Above
  <2>2. Len(u) - 1 = Len(a)
    BY <1>1
  <2> QED BY <2>1, <2>2 DEF Front
<1> HIDE DEF u, v
<1>5. IsStrictPrefix(a, v) <=> IsPrefix(a, b)
  <2>1. IsStrictPrefix(a, v) <=> Len(a) < Len(v) /\ \A i \in 1..Len(a) : a[i] = v[i]
    BY <1>2, StrictPrefixFacts
  <2>2. IsPrefix(a, b) <=> Len(a) <= Len(b) /\ \A i \in 1..Len(a) : a[i] = b[i]
    BY PrefixFacts
  <2>3. Len(a) < Len(v) <=> Len(a) <= Len(b)
    BY <1>1, <1>2
  <2>4. Len(a) <= Len(b) => \A i \in 1..Len(a) : v[i] = b[i]
    BY <1>1, <1>2
  <2> QED BY <2>1, <2>2, <2>3, <2>4
<1>6. IsStrictPrefix(a, u)
  BY <1>1, StrictPrefixFacts
<1>7. IsPrefix(u, b) => IsStrictPrefix(a, b)
  <2>1. IsPrefix(u, b) => Len(u) <= Len(b) /\ \A i \in 1..Len(u) : u[i] = b[i]
    BY <1>1, PrefixFacts
  <2>2. IsStrictPrefix(a, b) <=> Len(a) < Len(b) /\ \A i \in 1..Len(a) : a[i] = b[i]
    BY StrictPrefixFacts
  <2>3. IsPrefix(u, b) => Len(a) < Len(b) /\ \A i \in 1..Len(a) : i \in 1..Len(u)
    BY <1>1, <1>2, <2>1
  <2> QED BY <1>1, <2>1, <2>2, <2>3
<1>8. u # <<>>
  BY <1>1, EmptySeq
<1>9. Last(u) = x
  BY <1>1 DEF Last
<1> QED BY <1>1, <1>3, <1>4, <1>5, <1>6, <1>7, <1>8, <1>9 DEF u, v

\* A path is what it is in and its last name.
LEMMA FrontLast ==
  ASSUME NEW S, NEW a \in Seq(S), a # <<>>
  PROVE  Front(a) \in Seq(S) /\ Last(a) \in S /\ a = Append(Front(a), Last(a))
<1>1. /\ Len(a) \in Nat /\ Len(a) # 0 /\ Len(a) \in 1..Len(a) /\ Len(a) - 1 \in 0..Len(a)
  BY LenProperties, EmptySeq
<1> DEFINE n == Len(a)
           f == SubSeq(a, 1, n - 1)
           u == Append(f, a[n])
<1>2. f \in Seq(S) /\ Len(f) = n - 1 /\ \A i \in 1..(n - 1) : f[i] = a[i]
  BY <1>1, AboveFacts
<1>3. a[n] \in S
  BY <1>1, ElementOfSeq
<1> HIDE DEF f
<1>4. /\ u \in Seq(S) /\ Len(u) = Len(f) + 1 /\ \A i \in 1..Len(f) : u[i] = f[i]
      /\ u[Len(f) + 1] = a[n]
  BY <1>2, <1>3, AppendProperties
<1> HIDE DEF u
<1>5. Len(u) = n /\ Len(f) + 1 = n
  <2> HIDE DEF n
  <2> QED BY <1>1, <1>2, <1>4 DEF n
<1>6. \A i \in 1..n : u[i] = a[i]
  <2>1. \A i \in 1..n : i = n \/ i \in 1..(n - 1)
    BY <1>1
  <2> QED BY <1>2, <1>4, <1>5, <2>1
<1>7. u = a
  BY <1>4, <1>5, <1>6, SeqEqual
<1> QED BY <1>2, <1>3, <1>7 DEF u, f, Front, Last

-------------------------------------------------------------------------------
(* The nodes of a path, the hidden ones too.                                  *)

Standing(h, nodes, path) == {n \in nodes : NamesOf(At(n)) = path /\ IsFirst(h, n.in)}

\* The addresses above an address.
LEMMA AboveOf ==
  ASSUME NEW at \in Addresses, NEW i \in 1..Len(at)
  PROVE  /\ Above(at, i) \in Addresses /\ Len(Above(at, i)) = i - 1
         /\ \A j \in 1..(i - 1) : Above(at, i)[j] = at[j]
         /\ \A j \in 1..(i - 1) : Above(Above(at, i), j) = Above(at, j)
         /\ at[i] = <<at[i][1], at[i][2]>> /\ at[i][1] \in Names /\ at[i][2] \in Nat
<1>1. at \in Seq(Names \X Nat) /\ Len(at) \in Nat /\ at[i] \in Names \X Nat
  BY LenProperties, ElementOfSeq DEF Addresses
<1>2. i - 1 \in 0..Len(at) /\ \A j \in 1..(i - 1) : j - 1 \in 0..(i - 1) /\ j - 1 \in 0..Len(at)
  BY <1>1
<1> DEFINE a == Above(at, i)
<1>3. a \in Seq(Names \X Nat) /\ Len(a) = i - 1 /\ \A j \in 1..(i - 1) : a[j] = at[j]
  BY <1>1, <1>2, AboveFacts DEF Above
<1> HIDE DEF a
<1>4. ASSUME NEW j \in 1..(i - 1) PROVE Above(a, j) = Above(at, j)
  <2> DEFINE b == Above(a, j)
             c == Above(at, j)
  <2>1. b \in Seq(Names \X Nat) /\ Len(b) = j - 1 /\ \A k \in 1..(j - 1) : b[k] = a[k]
    BY <1>2, <1>3, AboveFacts DEF Above
  <2>2. c \in Seq(Names \X Nat) /\ Len(c) = j - 1 /\ \A k \in 1..(j - 1) : c[k] = at[k]
    BY <1>1, <1>2, AboveFacts DEF Above
  <2> HIDE DEF b, c
  <2>3. \A k \in 1..(j - 1) : b[k] = c[k]
    BY <1>1, <1>3, <2>1, <2>2
  <2>4. b = c
    BY <2>1, <2>2, <2>3, SeqEqual
  <2> QED BY <2>4 DEF b, c
<1> QED BY <1>1, <1>3, <1>4 DEF a, Addresses

LEMMA FirstAbove ==
  ASSUME NEW h, NEW at \in Addresses, IsFirst(h, at), NEW i \in 1..Len(at)
  PROVE  /\ IsFirst(h, Above(at, i))
         /\ at[i][2] = Copies(h.folders, Above(at, i), at[i][1])
<1>1. DOMAIN at = 1..Len(at) /\ Len(at) \in Nat
  BY LenProperties DEF Addresses
<1> DEFINE a == Above(at, i)
<1>2. /\ a \in Addresses /\ Len(a) = i - 1
      /\ \A j \in 1..(i - 1) : a[j] = at[j] /\ Above(a, j) = Above(at, j)
  BY AboveOf
<1>3. DOMAIN a = 1..(i - 1)
  BY <1>2, LenProperties DEF Addresses
<1> HIDE DEF a
<1>4. ASSUME NEW j \in DOMAIN a PROVE a[j][2] = Copies(h.folders, Above(a, j), a[j][1])
  <2>1. j \in 1..(i - 1) /\ j \in DOMAIN at
    BY <1>1, <1>3
  <2> QED BY <1>2, <2>1 DEF IsFirst
<1>5. IsFirst(h, a)
  BY <1>4 DEF IsFirst
<1>6. at[i][2] = Copies(h.folders, Above(at, i), at[i][1])
  BY <1>1 DEF IsFirst
<1> QED BY <1>5, <1>6 DEF a

\* At each name of a node's address is the folder it goes through.
LEMMA HungCopies ==
  ASSUME NEW h, Shape(h), NEW n \in h.folders \cup h.files, NEW i \in 1..Len(n.in)
  PROVE  \E d \in h.folders :
           /\ IsNode(d) /\ At(d) = SubSeq(n.in, 1, i)
           /\ d.in = Above(n.in, i) /\ d.name = n.in[i][1] /\ d.nth = n.in[i][2]
           /\ d.nth <= Copies(h.folders, Above(n.in, i), n.in[i][1])
           /\ Copies(h.folders, Above(n.in, i), n.in[i][1]) \in Nat \ {0}
<1>1. IsNode(n) /\ n.in \in Addresses /\ n.in \in Seq(Names \X Nat) /\ Len(n.in) \in Nat
  BY LenProperties DEF Shape, Listing, IsNode, Addresses
<1>2. PICK d \in h.folders : At(d) = SubSeq(n.in, 1, i)
  BY DEF Shape, Listing, Hung
<1>3. /\ IsNode(d) /\ Len(At(d)) = Len(d.in) + 1 /\ Len(d.in) \in Nat
      /\ \A j \in 1..Len(d.in) : At(d)[j] = d.in[j]
      /\ At(d)[Len(d.in) + 1] = <<d.name, d.nth>>
      /\ d.in \in Seq(Names \X Nat)
  BY AtFacts DEF Shape, Listing, IsNode, Addresses
<1>4. i \in 0..Len(n.in) /\ (i - 1) + 1 = i
  BY <1>1
<1>5. Len(At(d)) = i /\ \A j \in 1..i : At(d)[j] = n.in[j]
  BY <1>1, <1>2, <1>4, AboveFacts
<1>6. Len(d.in) = i - 1
  BY <1>3, <1>5
<1>7. /\ Above(n.in, i) \in Seq(Names \X Nat) /\ Len(Above(n.in, i)) = i - 1
      /\ \A j \in 1..(i - 1) : Above(n.in, i)[j] = n.in[j]
      /\ n.in[i] = <<n.in[i][1], n.in[i][2]>>
  BY <1>1, AboveOf DEF Addresses
<1>8. d.in = Above(n.in, i)
  <2>1. \A j \in 1..(i - 1) : j \in 1..i
    OBVIOUS
  <2>2. \A j \in 1..(i - 1) : d.in[j] = Above(n.in, i)[j]
    BY <1>3, <1>5, <1>6, <1>7, <2>1
  <2> QED BY <1>3, <1>6, <1>7, <2>2, SeqEqual
<1>9. <<d.name, d.nth>> = n.in[i]
  BY <1>3, <1>4, <1>5, <1>6
<1>10. d.name = n.in[i][1] /\ d.nth = n.in[i][2]
  BY <1>9
<1>11. /\ Copies(h.folders, d.in, d.name) \in Nat /\ d.nth <= Copies(h.folders, d.in, d.name)
       /\ d.nth \in Nat \ {0}
  BY <1>3, CopiesNat DEF Shape, Listing, Numbered, IsNode
<1>12. Copies(h.folders, d.in, d.name) \in Nat \ {0}
  BY <1>11
<1> QED BY <1>2, <1>3, <1>8, <1>10, <1>11, <1>12

\* Two ways to one path are the same.
LEMMA FirstSame ==
  ASSUME NEW h, NEW a \in Addresses, NEW b \in Addresses, IsFirst(h, a), IsFirst(h, b),
         NamesOf(a) = NamesOf(b)
  PROVE  a = b
<1>1. /\ Len(a) = Len(b) /\ Len(a) \in Nat
      /\ \A i \in 1..Len(a) : a[i][1] = b[i][1]
  <2>1. Len(NamesOf(a)) = Len(a) /\ Len(a) \in Nat /\ \A i \in 1..Len(a) : NamesOf(a)[i] = a[i][1]
    BY NamesFacts
  <2>2. Len(NamesOf(b)) = Len(b) /\ \A i \in 1..Len(b) : NamesOf(b)[i] = b[i][1]
    BY NamesFacts
  <2>3. Len(a) = Len(b)
    BY <2>1, <2>2
  <2> QED BY <2>1, <2>2, <2>3
<1>2. Len(a) <= Len(b)
  BY <1>1
<1>3. \A i \in 1..Len(a) : a[i] = b[i]
  BY <1>1, <1>2, SameWay
<1> QED BY <1>1, <1>3, SeqEqual DEF Addresses

\* A folder put in front of a first one of a list hides what is below that.
LEMMA AddedFirst ==
  ASSUME NEW h, Shape(h), NEW v, IsNode(v), v \notin h.folders, IsFirst(h, v.in),
         v.nth = Copies(h.folders, v.in, v.name) + 1,
         NEW e, e.folders = h.folders \cup {v}
  PROVE  /\ IsFirst(e, v.in)
         /\ \A n \in h.folders \cup h.files :
              IsFirst(e, n.in) <=> /\ IsFirst(h, n.in)
                                   /\ ~IsPrefix(NamesOf(At(v)), NamesOf(n.in))
<1>1. /\ v.in \in Addresses /\ Len(v.in) \in Nat /\ DOMAIN v.in = 1..Len(v.in)
      /\ v.nth \in Nat
  BY LenProperties DEF IsNode, Addresses
<1>2. IsFiniteSet(h.folders)
  BY DEF Shape, Listing
<1>3. \A at, name : Copies(e.folders, at, name) =
        IF v.in = at /\ v.name = name THEN Copies(h.folders, at, name) + 1
        ELSE Copies(h.folders, at, name)
  BY <1>2, AddedCopies
<1>4. IsFirst(e, v.in)
  <2> SUFFICES ASSUME NEW i \in 1..Len(v.in)
               PROVE  v.in[i][2] = Copies(e.folders, Above(v.in, i), v.in[i][1])
    BY <1>1 DEF IsFirst
  <2>1. Len(Above(v.in, i)) = i - 1
    BY <1>1, AboveOf
  <2>2. Above(v.in, i) # v.in
    BY <1>1, <2>1
  <2>3. v.in[i][2] = Copies(h.folders, Above(v.in, i), v.in[i][1])
    BY <1>1, FirstAbove
  <2> QED BY <1>3, <2>2, <2>3
<1>5. ASSUME NEW n \in h.folders \cup h.files
      PROVE  IsFirst(e, n.in) <=> /\ IsFirst(h, n.in)
                                  /\ ~IsPrefix(NamesOf(At(v)), NamesOf(n.in))
  <2> DEFINE p == NamesOf(At(v))
             q == NamesOf(n.in)
             k == Len(v.in) + 1
  <2>1. /\ n.in \in Addresses /\ Len(n.in) \in Nat /\ DOMAIN n.in = 1..Len(n.in)
    BY LenProperties DEF Shape, Listing, IsNode, Addresses
  <2>2. /\ p \in Seq(Names) /\ Len(p) = k
        /\ \A i \in 1..Len(v.in) : p[i] = v.in[i][1]
        /\ p[k] = v.name
    BY NodeNames, NamesFacts, AtFacts
  <2>3. q \in Seq(Names) /\ Len(q) = Len(n.in) /\ \A i \in 1..Len(n.in) : q[i] = n.in[i][1]
    BY <2>1, NamesFacts
  <2>4. IsPrefix(p, q) <=> Len(p) <= Len(q) /\ \A i \in 1..Len(p) : p[i] = q[i]
    BY <2>2, <2>3, PrefixFacts
  <2>5. ASSUME NEW i \in 1..Len(n.in), Above(n.in, i) = v.in, n.in[i][1] = v.name
        PROVE  IsPrefix(p, q) /\ n.in[i][2] # Copies(e.folders, Above(n.in, i), n.in[i][1])
    <3>1. /\ Len(Above(n.in, i)) = i - 1
          /\ \A j \in 1..(i - 1) : Above(n.in, i)[j] = n.in[j]
      BY <2>1, AboveOf
    <3>2. i = k /\ i \in Nat
      <4>1. i - 1 = Len(v.in)
        BY <2>5, <3>1
      <4> QED BY <1>1, <2>1, <4>1
    <3>3. \A j \in 1..Len(p) : j = i \/ j \in 1..(i - 1)
      BY <2>2, <3>2
    <3>4. \A j \in 1..Len(p) : p[j] = q[j]
      <4> SUFFICES ASSUME NEW j \in 1..Len(p) PROVE p[j] = q[j]
        OBVIOUS
      <4>1. CASE j = i
        BY <2>2, <2>3, <2>5, <3>2, <4>1
      <4>2. CASE j \in 1..(i - 1)
        <5>1. j \in 1..Len(v.in) /\ j \in 1..Len(n.in)
          BY <1>1, <2>1, <3>2, <4>2
        <5> QED BY <2>2, <2>3, <2>5, <3>1, <4>2, <5>1
      <4> QED BY <3>3, <4>1, <4>2
    <3>5. Len(p) <= Len(q)
      BY <2>1, <2>2, <2>3, <3>2
    <3>6. /\ n.in[i][2] <= Copies(h.folders, Above(n.in, i), n.in[i][1])
          /\ Copies(h.folders, Above(n.in, i), n.in[i][1]) \in Nat /\ n.in[i][2] \in Nat
      BY <2>1, HungCopies, AboveOf
    <3>7. Copies(e.folders, Above(n.in, i), n.in[i][1]) =
            Copies(h.folders, Above(n.in, i), n.in[i][1]) + 1
      BY <1>3, <2>5
    <3> QED BY <2>4, <3>4, <3>5, <3>6, <3>7
  <2>6. ASSUME NEW i \in 1..Len(n.in), ~(Above(n.in, i) = v.in /\ n.in[i][1] = v.name)
        PROVE  Copies(e.folders, Above(n.in, i), n.in[i][1]) =
                 Copies(h.folders, Above(n.in, i), n.in[i][1])
    BY <1>3, <2>6
  <2>7. ASSUME IsFirst(h, n.in), ~IsPrefix(p, q) PROVE IsFirst(e, n.in)
    <3> SUFFICES ASSUME NEW i \in 1..Len(n.in)
                 PROVE  n.in[i][2] = Copies(e.folders, Above(n.in, i), n.in[i][1])
      BY <2>1 DEF IsFirst
    <3>1. ~(Above(n.in, i) = v.in /\ n.in[i][1] = v.name)
      BY <2>5, <2>7
    <3>2. n.in[i][2] = Copies(h.folders, Above(n.in, i), n.in[i][1])
      BY <2>1, <2>7, FirstAbove
    <3> QED BY <2>6, <3>1, <3>2
  <2>8. ASSUME IsFirst(e, n.in) PROVE IsFirst(h, n.in) /\ ~IsPrefix(p, q)
    <3>1. \A i \in 1..Len(n.in) :
            n.in[i][2] = Copies(e.folders, Above(n.in, i), n.in[i][1])
      <4> SUFFICES ASSUME NEW i \in 1..Len(n.in)
                   PROVE  n.in[i][2] = Copies(e.folders, Above(n.in, i), n.in[i][1])
        OBVIOUS
      <4> QED BY ONLY <2>1, <2>8, FirstAbove, i \in 1..Len(n.in)
    <3>2. \A i \in 1..Len(n.in) : ~(Above(n.in, i) = v.in /\ n.in[i][1] = v.name)
      BY <2>5, <3>1
    <3>3. IsFirst(h, n.in)
      BY <2>1, <2>6, <3>1, <3>2 DEF IsFirst
    <3>4. ASSUME IsPrefix(p, q) PROVE FALSE
      <4>1. Len(p) <= Len(q) /\ \A i \in 1..Len(p) : p[i] = q[i]
        BY <2>4, <3>4
      <4>2. k \in 1..Len(n.in) /\ Len(v.in) <= Len(n.in) /\ k \in 1..Len(p) /\ k - 1 = Len(v.in)
        BY <1>1, <2>1, <2>2, <2>3, <4>1
      <4>3. \A i \in 1..Len(v.in) : i \in 1..Len(p) /\ i \in 1..Len(n.in)
        BY <1>1, <2>1, <2>2, <4>2
      <4>4. \A i \in 1..Len(v.in) : v.in[i][1] = n.in[i][1]
        BY <2>2, <2>3, <4>1, <4>3
      <4>5. \A i \in 1..Len(v.in) : v.in[i] = n.in[i]
        <5> HIDE DEF p, q, k
        <5>1. v.in \in Addresses /\ n.in \in Addresses /\ IsFirst(e, v.in) /\ IsFirst(e, n.in)
          BY <1>1, <1>4, <2>1, <2>8
        <5>2. Len(v.in) <= Len(n.in) /\ \A i \in 1..Len(v.in) : v.in[i][1] = n.in[i][1]
          BY <4>2, <4>4
        <5> QED BY ONLY <5>1, <5>2, SameWay
      <4>6. /\ Above(n.in, k) \in Addresses /\ Len(Above(n.in, k)) = k - 1
            /\ \A j \in 1..(k - 1) : Above(n.in, k)[j] = n.in[j]
        BY <2>1, <4>2, AboveOf
      <4>7. Above(n.in, k) = v.in
        <5> HIDE DEF k
        <5>1. \A j \in 1..Len(v.in) : Above(n.in, k)[j] = v.in[j]
          BY <4>2, <4>5, <4>6
        <5> QED BY <1>1, <4>2, <4>6, <5>1, SeqEqual DEF Addresses
      <4>8. n.in[k][1] = v.name
        BY <2>2, <2>3, <4>1, <4>2
      <4> QED BY <3>2, <4>2, <4>7, <4>8
    <3> QED BY <3>3, <3>4
  <2> QED BY <2>7, <2>8
<1> QED BY <1>4, <1>5

\* Folders made on a way leave what was first first, and the way is of first ones.
LEMMA MadeFirst ==
  ASSUME NEW h, Shape(h), NEW path \in Seq(Names), path # <<>>,
         NEW e, e.folders = h.folders \cup MadeOnWay(h, path)
  PROVE  /\ IsFirst(e, Way(h, path))
         /\ \A n \in h.folders \cup h.files : IsFirst(e, n.in) <=> IsFirst(h, n.in)
<1> DEFINE way == Way(h, path)
           made == MadeOnWay(h, path)
           c(at, name) == Copies(h.folders, at, name)
           d(at, name) == Copies(e.folders, at, name)
<1>1. IsFiniteSet(h.folders)
  BY DEF Shape, Listing
<1>2. \A at, name : d(at, name) =
        IF \E m \in made : m.in = at /\ m.name = name THEN 1 ELSE c(at, name)
  BY <1>1, MadeCopies
<1>3. /\ \A m \in made : c(m.in, m.name) = 0
      /\ \A i \in 1..Len(way) : c(Above(way, i), path[i]) = 0 =>
           \E m \in made : m.in = Above(way, i) /\ m.name = path[i]
  BY <1>1, MadeOnWayFacts
<1>4. /\ way \in Addresses /\ DOMAIN way = 1..Len(way)
      /\ \A i \in 1..Len(way) :
           way[i] = <<path[i], IF c(Above(way, i), path[i]) = 0 THEN 1
                               ELSE c(Above(way, i), path[i])>>
  BY <1>1, WayLeads, LenProperties DEF Leads, Addresses
<1> HIDE DEF way, made, c, d
<1>5. \A at, name : c(at, name) # 0 => d(at, name) = c(at, name)
  <2> SUFFICES ASSUME NEW at, NEW name, c(at, name) # 0 PROVE d(at, name) = c(at, name)
    OBVIOUS
  <2>1. ASSUME NEW m \in made, m.in = at, m.name = name PROVE FALSE
    <3>1. c(m.in, m.name) = 0
      BY <1>3
    <3> QED BY <2>1, <3>1
  <2> QED BY <1>2, <2>1
<1>6. IsFirst(e, way)
  <2> SUFFICES ASSUME NEW i \in 1..Len(way) PROVE way[i][2] = d(Above(way, i), way[i][1])
    BY <1>4 DEF IsFirst, d
  <2>1. /\ way[i][1] = path[i]
        /\ way[i][2] = IF c(Above(way, i), path[i]) = 0 THEN 1 ELSE c(Above(way, i), path[i])
    BY <1>4
  <2>2. c(Above(way, i), path[i]) = 0 => d(Above(way, i), path[i]) = 1
    BY <1>2, <1>3
  <2> QED BY <1>5, <2>1, <2>2
<1>7. ASSUME NEW n \in h.folders \cup h.files PROVE IsFirst(e, n.in) <=> IsFirst(h, n.in)
  <2>1. DOMAIN n.in = 1..Len(n.in)
    BY LenProperties DEF Shape, Listing, IsNode, Addresses
  <2>2. ASSUME NEW i \in DOMAIN n.in
        PROVE  d(Above(n.in, i), n.in[i][1]) = c(Above(n.in, i), n.in[i][1])
    <3>1. c(Above(n.in, i), n.in[i][1]) \in Nat \ {0}
      BY <2>1, HungCopies DEF c
    <3> QED BY <1>5, <3>1
  <2> QED BY <2>2 DEF IsFirst, c, d
<1> QED BY <1>6, <1>7 DEF way

\* The names of the way, of a node at its end, and of what is made on it.
LEMMA WayNames ==
  ASSUME NEW h, IsFiniteSet(h.folders), NEW path \in Seq(Names), path # <<>>
  PROVE  /\ NamesOf(Way(h, path)) = Front(path)
         /\ \A v : IsNode(v) /\ v.in = Way(h, path) /\ v.name = Last(path) =>
                     NamesOf(At(v)) = path
         /\ \A m \in MadeOnWay(h, path) : IsStrictPrefix(NamesOf(At(m)), path)
<1> DEFINE way == Way(h, path)
<1>1. /\ way \in Addresses /\ way \in Seq(Names \X Nat) /\ Len(way) = Len(path) - 1
      /\ \A i \in 1..Len(way) : way[i][1] = path[i]
  <2>1. Leads(h, path, way) /\ Len(way) = Len(path) - 1
    BY WayLeads
  <2> QED BY <2>1 DEF Leads, Addresses
<1>2. Len(path) \in Nat /\ Len(path) # 0 /\ Len(way) \in Nat
  BY <1>1, EmptySeq, LenProperties
<1>3. \A m \in MadeOnWay(h, path) : \E i \in 1..Len(way) : At(m) = SubSeq(way, 1, i)
  BY MadeOnWayFacts
<1>4. /\ Front(path) \in Seq(Names) /\ path = Append(Front(path), Last(path))
  BY FrontLast
<1>5. Len(Front(path)) = Len(path) - 1 /\ \A i \in 1..(Len(path) - 1) : Front(path)[i] = path[i]
  <2>1. Len(path) - 1 \in 0..Len(path)
    BY <1>2
  <2> QED BY <2>1, AboveFacts DEF Front
<1> HIDE DEF way
<1>6. NamesOf(way) = Front(path)
  <2>1. /\ NamesOf(way) \in Seq(Names) /\ Len(NamesOf(way)) = Len(way)
        /\ \A i \in 1..Len(way) : NamesOf(way)[i] = way[i][1]
    BY <1>1, NamesFacts
  <2>2. \A i \in 1..Len(way) : NamesOf(way)[i] = Front(path)[i]
    BY <1>1, <1>5, <2>1
  <2> QED BY <1>1, <1>4, <1>5, <2>1, <2>2, SeqEqual
<1>7. ASSUME NEW v, IsNode(v), v.in = way, v.name = Last(path)
      PROVE  NamesOf(At(v)) = path
  <2>1. NamesOf(At(v)) = Append(NamesOf(v.in), v.name)
    BY <1>7, NodeNames
  <2> QED BY <1>4, <1>6, <1>7, <2>1
<1>8. ASSUME NEW m \in MadeOnWay(h, path)
      PROVE  IsStrictPrefix(NamesOf(At(m)), path)
  <2>1. PICK i \in 1..Len(way) : At(m) = SubSeq(way, 1, i)
    BY <1>3
  <2>2. i \in 0..Len(way)
    BY <1>2
  <2>3. /\ At(m) \in Addresses /\ Len(At(m)) = i /\ \A j \in 1..i : At(m)[j] = way[j]
    BY <1>1, <2>1, <2>2, AboveFacts DEF Addresses
  <2>4. /\ NamesOf(At(m)) \in Seq(Names) /\ Len(NamesOf(At(m))) = i
        /\ \A j \in 1..i : NamesOf(At(m))[j] = At(m)[j][1]
    BY <2>3, NamesFacts
  <2>5. \A j \in 1..i : j \in 1..Len(way)
    BY <1>2
  <2>6. \A j \in 1..i : NamesOf(At(m))[j] = path[j]
    BY <1>1, <2>3, <2>4, <2>5
  <2>7. i < Len(path)
    BY <1>1, <1>2
  <2> QED BY <2>4, <2>6, <2>7, StrictPrefixFacts
<1> QED BY <1>6, <1>7, <1>8 DEF way

\* Where nodes of a path stand, they are one after the other, and one of them is found.
LEMMA StandingFound ==
  ASSUME NEW h, Shape(h), NEW nodes, nodes = h.folders \/ nodes = h.files, NEW path
  PROVE  /\ Reached(h, nodes, path) \subseteq Standing(h, nodes, path)
         /\ Standing(h, nodes, path) # {} => Reached(h, nodes, path) # {}
         /\ \A m, n \in Reached(h, nodes, path) : m = n
         /\ \A m, n \in Standing(h, nodes, path) : m.in = n.in /\ m.name = n.name
<1>1. /\ IsFiniteSet(nodes) /\ Numbered(nodes) /\ \A n \in nodes : IsNode(n)
  BY DEF Shape, Listing
<1>2. Reached(h, nodes, path) = {n \in Standing(h, nodes, path) :
                                   n.nth = Copies(nodes, n.in, n.name)}
  BY DEF Reached, Standing
<1>3. ASSUME NEW m \in Standing(h, nodes, path), NEW n \in Standing(h, nodes, path)
      PROVE  m.in = n.in /\ m.name = n.name
  <2>1. /\ IsNode(m) /\ IsNode(n) /\ IsFirst(h, m.in) /\ IsFirst(h, n.in)
        /\ NamesOf(At(m)) = NamesOf(At(n))
    BY <1>1 DEF Standing
  <2>2. /\ NamesOf(At(m)) = Append(NamesOf(m.in), m.name) /\ m.name \in Names
        /\ NamesOf(At(n)) = Append(NamesOf(n.in), n.name) /\ n.name \in Names
        /\ m.in \in Addresses /\ n.in \in Addresses
    BY <2>1, NodeNames DEF IsNode
  <2>3. NamesOf(m.in) \in Seq(Names) /\ NamesOf(n.in) \in Seq(Names)
    BY <2>2, NamesFacts
  <2>4. NamesOf(m.in) = NamesOf(n.in) /\ m.name = n.name
    <3> DEFINE a == NamesOf(m.in)
               b == NamesOf(n.in)
    <3>1. Append(a, m.name) = Append(b, n.name) /\ a \in Seq(Names) /\ b \in Seq(Names)
      BY <2>1, <2>2, <2>3
    <3> HIDE DEF a, b
    <3>2. a = b /\ m.name = n.name
      BY <2>2, <3>1, AppendPrefix
    <3> QED BY <3>2 DEF a, b
  <2> QED BY <2>1, <2>2, <2>4, FirstSame
<1>4. ASSUME Standing(h, nodes, path) # {}
      PROVE  Reached(h, nodes, path) # {}
  <2>1. PICK n \in nodes : n \in Standing(h, nodes, path)
    BY <1>4 DEF Standing
  <2>2. Copies(nodes, n.in, n.name) # 0
    BY <1>1, CopiesNat
  <2>3. PICK f \in nodes : f.in = n.in /\ f.name = n.name /\ f.nth = Copies(nodes, n.in, n.name)
    BY <1>1, <2>2, FirstThere DEF FirstOf
  <2>4. NamesOf(At(f)) = NamesOf(At(n))
    BY <1>1, <2>3, NodeNames
  <2>5. f \in Standing(h, nodes, path)
    BY <2>1, <2>3, <2>4 DEF Standing
  <2>6. f \in Reached(h, nodes, path)
    BY <1>2, <2>3, <2>5
  <2> QED BY <2>6
<1>5. ASSUME NEW m \in Reached(h, nodes, path), NEW n \in Reached(h, nodes, path)
      PROVE  m = n
  <2>1. /\ m \in nodes /\ n \in nodes /\ m.in = n.in /\ m.name = n.name
        /\ m.nth = Copies(nodes, m.in, m.name) /\ n.nth = Copies(nodes, n.in, n.name)
    BY <1>2, <1>3 DEF Standing
  <2> QED BY <1>1, <2>1 DEF Numbered
<1> QED BY <1>2, <1>3, <1>4, <1>5

\* The names of what a node is in, and of the node.
LEMMA NamesBelow ==
  ASSUME NEW n, IsNode(n), NEW p \in Seq(Names)
  PROVE  /\ IsPrefix(p, NamesOf(n.in)) <=> IsStrictPrefix(p, NamesOf(At(n)))
         /\ NamesOf(At(n)) \in Seq(Names) /\ NamesOf(n.in) \in Seq(Names)
<1>1. NamesOf(At(n)) = Append(NamesOf(n.in), n.name) /\ n.in \in Addresses /\ n.name \in Names
  BY NodeNames DEF IsNode
<1>2. NamesOf(n.in) \in Seq(Names)
  BY <1>1, NamesFacts
<1> QED BY <1>1, <1>2, AppendPrefix

\* What the folders made on a way change: they are found above the path only, where
\* nothing was.
LEMMA MadeEffect ==
  ASSUME NEW h, Shape(h), NEW path \in Seq(Names), path # <<>>,
         NEW e, e.folders = h.folders \cup MadeOnWay(h, path), NEW p
  PROVE  /\ Standing(e, h.files, p) = Standing(h, h.files, p)
         /\ FolderAt(h, p) \subseteq FolderAt(e, p)
         /\ FolderAt(h, p) = {} /\ ~IsStrictPrefix(p, path) => FolderAt(e, p) = {}
<1>1. IsFiniteSet(h.folders)
  BY DEF Shape, Listing
<1>2. \A n \in h.folders \cup h.files : IsFirst(e, n.in) <=> IsFirst(h, n.in)
  BY MadeFirst
<1>3. Standing(e, h.files, p) = Standing(h, h.files, p)
  BY <1>2 DEF Standing
<1>4. ASSUME NEW d \in FolderAt(h, p) PROVE d \in FolderAt(e, p)
  <2>1. /\ d \in h.folders /\ NamesOf(At(d)) = p /\ IsFirst(h, d.in)
        /\ d.nth = Copies(h.folders, d.in, d.name)
    BY DEF FolderAt, Reached
  <2>2. Copies(h.folders, d.in, d.name) # 0
    BY <1>1, <2>1, CopiesNat
  <2>3. ASSUME NEW m \in MadeOnWay(h, path), m.in = d.in, m.name = d.name PROVE FALSE
    <3>1. Copies(h.folders, m.in, m.name) = 0
      BY <1>1, MadeOnWayFacts
    <3> QED BY <2>2, <2>3, <3>1
  <2>4. Copies(e.folders, d.in, d.name) = Copies(h.folders, d.in, d.name)
    BY <1>1, <2>3, MadeCopies
  <2> QED BY <1>2, <2>1, <2>4 DEF FolderAt, Reached
<1>5. ASSUME FolderAt(h, p) = {}, ~IsStrictPrefix(p, path), NEW d \in FolderAt(e, p)
      PROVE  FALSE
  <2>1. d \in e.folders /\ NamesOf(At(d)) = p /\ IsFirst(e, d.in)
    BY <1>5 DEF FolderAt, Reached
  <2>2. d \notin MadeOnWay(h, path)
    BY <1>1, <1>5, <2>1, WayNames
  <2>3. d \in Standing(h, h.folders, p)
    BY <1>2, <2>1, <2>2 DEF Standing
  <2>4. Reached(h, h.folders, p) # {}
    BY <2>3, StandingFound
  <2> QED BY <1>5, <2>4 DEF FolderAt
<1> QED BY <1>3, <1>4, <1>5

\* What a folder added in front changes: it is found at its path, and nothing below.
LEMMA InFrontEffect ==
  ASSUME NEW h, Shape(h), NEW v, IsNode(v), v \notin h.folders, IsFirst(h, v.in),
         v.nth = Copies(h.folders, v.in, v.name) + 1,
         NEW e, e.folders = h.folders \cup {v}, NEW p
  PROVE  /\ v \in FolderAt(e, NamesOf(At(v)))
         /\ p # NamesOf(At(v)) /\ ~IsStrictPrefix(NamesOf(At(v)), p) =>
              FolderAt(h, p) \subseteq FolderAt(e, p)
         /\ p # NamesOf(At(v)) /\ FolderAt(h, p) = {} => FolderAt(e, p) = {}
         /\ IsStrictPrefix(NamesOf(At(v)), p) =>
              FolderAt(e, p) = {} /\ Standing(e, h.files, p) = {}
         /\ ~IsStrictPrefix(NamesOf(At(v)), p) =>
              Standing(e, h.files, p) = Standing(h, h.files, p)
<1> DEFINE P == NamesOf(At(v))
<1>1. /\ IsFiniteSet(h.folders) /\ P \in Seq(Names)
      /\ \A n \in h.folders \cup h.files : IsNode(n)
  BY NamesBelow, EmptySeq DEF Shape, Listing
<1>2. /\ IsFirst(e, v.in)
      /\ \A n \in h.folders \cup h.files :
           IsFirst(e, n.in) <=> IsFirst(h, n.in) /\ ~IsPrefix(P, NamesOf(n.in))
  BY AddedFirst
<1> HIDE DEF P
<1>3. \A n \in h.folders \cup h.files :
        IsFirst(e, n.in) <=> IsFirst(h, n.in) /\ ~IsStrictPrefix(P, NamesOf(At(n)))
  BY <1>1, <1>2, NamesBelow
<1>4. \A at, name : Copies(e.folders, at, name) =
        IF v.in = at /\ v.name = name THEN Copies(h.folders, at, name) + 1
        ELSE Copies(h.folders, at, name)
  BY <1>1, AddedCopies
<1>5. v \in FolderAt(e, P)
  BY <1>2, <1>4 DEF FolderAt, Reached, P
<1>6. ASSUME p # P, ~IsStrictPrefix(P, p), NEW d \in FolderAt(h, p) PROVE d \in FolderAt(e, p)
  <2>1. /\ d \in h.folders /\ NamesOf(At(d)) = p /\ IsFirst(h, d.in)
        /\ d.nth = Copies(h.folders, d.in, d.name)
    BY <1>6 DEF FolderAt, Reached
  <2>2. IsFirst(e, d.in)
    BY <1>3, <1>6, <2>1
  <2>3. ~(v.in = d.in /\ v.name = d.name)
    <3>1. ASSUME v.in = d.in, v.name = d.name PROVE FALSE
      <4>1. NamesOf(At(v)) = NamesOf(At(d))
        BY <1>1, <2>1, <3>1, NodeNames
      <4> QED BY <1>6, <2>1, <4>1 DEF P
    <3> QED BY <3>1
  <2>4. Copies(e.folders, d.in, d.name) = Copies(h.folders, d.in, d.name)
    BY <1>4, <2>3
  <2> QED BY <2>1, <2>2, <2>4 DEF FolderAt, Reached
<1>7. ASSUME p # P, NEW d \in FolderAt(e, p)
      PROVE  FolderAt(h, p) # {} /\ ~IsStrictPrefix(P, p)
  <2>1. d \in h.folders /\ NamesOf(At(d)) = p /\ IsFirst(e, d.in)
    BY <1>7 DEF FolderAt, Reached, P
  <2>2. IsFirst(h, d.in) /\ ~IsStrictPrefix(P, p)
    BY <1>3, <2>1
  <2>3. d \in Standing(h, h.folders, p)
    BY <2>1, <2>2 DEF Standing
  <2> QED BY <2>2, <2>3, StandingFound DEF FolderAt
<1>8. Standing(e, h.files, p) = IF IsStrictPrefix(P, p) THEN {} ELSE Standing(h, h.files, p)
  BY <1>3 DEF Standing
<1>9. IsStrictPrefix(P, p) => p # P
  BY DEF IsStrictPrefix
<1> QED BY <1>5, <1>6, <1>7, <1>8, <1>9 DEF P

\* Adding a folder makes the way and puts a node in front at its end.
LEMMA AddFolderIs ==
  ASSUME NEW h, Shape(h), NEW path \in Seq(Names), path # <<>>, NEW datapath
  PROVE  \E e, v :
           /\ Shape(e) /\ e.folders = h.folders \cup MadeOnWay(h, path) /\ e.files = h.files
           /\ IsNode(v) /\ v \notin e.folders /\ IsFirst(e, v.in)
           /\ v.nth = Copies(e.folders, v.in, v.name) + 1
           /\ NamesOf(At(v)) = path /\ v.datapath = datapath
           /\ AddFolder(h, path, datapath).folders = e.folders \cup {v}
           /\ AddFolder(h, path, datapath).files = h.files
<1> DEFINE way == Way(h, path)
           made == MadeOnWay(h, path)
           e == [folders |-> h.folders \cup made, files |-> h.files]
           v == [in |-> way, name |-> Last(path),
                 nth |-> Copies(h.folders, way, Last(path)) + 1, datapath |-> datapath]
<1>1. IsFiniteSet(h.folders) /\ h = [folders |-> h.folders, files |-> h.files]
  BY DEF Shape, Listing
<1>2. Shape(e)
  BY MadeShape
<1>3. e.folders = h.folders \cup made /\ e.files = h.files
  OBVIOUS
<1>4. Copies(h.folders \cup made, way, Last(path)) = Copies(h.folders, way, Last(path))
  BY <1>1, EndCopies
<1>5. way \in Addresses /\ Last(path) \in Names
  BY <1>1, WayLeads, FrontLast DEF Leads
<1>6. /\ v.in = way /\ v.name = Last(path) /\ v.datapath = datapath
      /\ v.nth = Copies(h.folders, way, Last(path)) + 1
  OBVIOUS
<1>7. AddFolder(h, path, datapath) = [h EXCEPT !.folders = @ \cup (made \cup {v})]
  BY DEF AddFolder
<1> HIDE DEF e, v
<1>8. IsFirst(e, way)
  BY <1>3, MadeFirst
<1> HIDE DEF way, made
<1>9. AddFolder(h, path, datapath) =
        [folders |-> h.folders \cup (made \cup {v}), files |-> h.files]
  BY <1>1, <1>7, WithFolders
<1>10. /\ AddFolder(h, path, datapath).folders = e.folders \cup {v}
       /\ AddFolder(h, path, datapath).files = h.files
  BY <1>3, <1>9
<1>11. Copies(h.folders, way, Last(path)) \in Nat
  BY <1>1, CopiesNat
<1>12. IsNode(v)
  BY <1>5, <1>6, <1>11 DEF IsNode
<1>13. v.nth = Copies(e.folders, v.in, v.name) + 1
  BY <1>3, <1>4, <1>6
<1>14. v \notin e.folders
  BY <1>2, <1>13, AddedNumbered DEF Shape, Listing
<1>15. NamesOf(At(v)) = path
  BY <1>1, <1>6, <1>12, WayNames DEF way
<1> QED BY <1>2, <1>3, <1>6, <1>8, <1>10, <1>12, <1>13, <1>14, <1>15 DEF made

LEMMA AddFileIs ==
  ASSUME NEW h, Shape(h), NEW path \in Seq(Names), path # <<>>, NEW id
  PROVE  \E v :
           /\ IsNode(v) /\ v \notin h.files /\ NamesOf(At(v)) = path /\ v.id = id
           /\ IsFirst(AddFile(h, path, id), v.in)
           /\ AddFile(h, path, id).folders = h.folders \cup MadeOnWay(h, path)
           /\ AddFile(h, path, id).files = h.files \cup {v}
<1> DEFINE way == Way(h, path)
           made == MadeOnWay(h, path)
           v == [in |-> way, name |-> Last(path),
                 nth |-> Copies(h.files, way, Last(path)) + 1, id |-> id]
           e == AddFile(h, path, id)
<1>1. /\ IsFiniteSet(h.folders) /\ IsFiniteSet(h.files)
      /\ h = [folders |-> h.folders, files |-> h.files]
  BY DEF Shape, Listing
<1>2. way \in Addresses /\ Last(path) \in Names
  BY <1>1, WayLeads, FrontLast DEF Leads
<1>3. /\ v.in = way /\ v.name = Last(path) /\ v.id = id
      /\ v.nth = Copies(h.files, way, Last(path)) + 1
  OBVIOUS
<1>4. e = [h EXCEPT !.folders = h.folders \cup made, !.files = h.files \cup {v}]
  BY DEF AddFile
<1> HIDE DEF e, v
<1>5. e = [folders |-> h.folders \cup made, files |-> h.files \cup {v}]
  <2> DEFINE a == h.folders
             b == h.files
             a2 == h.folders \cup made
             b2 == h.files \cup {v}
  <2>1. h = [folders |-> a, files |-> b]
    BY <1>1
  <2>2. e = [h EXCEPT !.folders = a2, !.files = b2]
    BY <1>4
  <2> HIDE DEF a, b, a2, b2
  <2>3. e = [folders |-> a2, files |-> b2]
    BY ONLY <2>1, <2>2
  <2> QED BY <2>3 DEF a2, b2
<1>6. e.folders = h.folders \cup made /\ e.files = h.files \cup {v}
  BY <1>5
<1>7. IsFirst(e, way)
  BY <1>6, MadeFirst
<1> HIDE DEF way, made
<1>8. Copies(h.files, way, Last(path)) \in Nat
  BY <1>1, CopiesNat
<1>9. IsNode(v)
  BY <1>2, <1>3, <1>8 DEF IsNode
<1>10. v \notin h.files
  BY <1>1, <1>3, AddedNumbered DEF Shape, Listing
<1>11. NamesOf(At(v)) = path
  BY <1>1, <1>3, <1>9, WayNames DEF way
<1> QED BY <1>3, <1>6, <1>7, <1>9, <1>10, <1>11 DEF e, made

\* What adding a folder changes: it is found at its path with its datapath, and what was
\* below is hidden; other folders stay and none appears but above it.
LEMMA AddFolderEffect ==
  ASSUME NEW h, Shape(h), NEW path \in Seq(Names), path # <<>>, NEW datapath,
         NEW e, e = AddFolder(h, path, datapath)
  PROVE  /\ \E d \in FolderAt(e, path) : d.datapath = datapath
         /\ \A p : p # path /\ ~IsStrictPrefix(path, p) =>
                   FolderAt(h, p) \subseteq FolderAt(e, p)
         /\ \A p : FolderAt(h, p) = {} /\ ~IsPrefix(p, path) => FolderAt(e, p) = {}
         /\ \A p : IsStrictPrefix(path, p) => FolderAt(e, p) = {}
         /\ \A p : IsStrictPrefix(path, p) => \A n : n \notin Standing(e, e.files, p)
         /\ \A p : ~IsStrictPrefix(path, p) =>
                   Standing(e, e.files, p) = Standing(h, h.files, p)
<1> SUFFICES ASSUME NEW p
             PROVE  /\ \E d \in FolderAt(e, path) : d.datapath = datapath
                    /\ p # path /\ ~IsStrictPrefix(path, p) =>
                         FolderAt(h, p) \subseteq FolderAt(e, p)
                    /\ FolderAt(h, p) = {} /\ ~IsPrefix(p, path) => FolderAt(e, p) = {}
                    /\ IsStrictPrefix(path, p) =>
                         FolderAt(e, p) = {} /\ Standing(e, e.files, p) = {}
                    /\ ~IsStrictPrefix(path, p) =>
                         Standing(e, e.files, p) = Standing(h, h.files, p)
  OBVIOUS
<1>1. PICK m, v :
        /\ Shape(m) /\ m.folders = h.folders \cup MadeOnWay(h, path) /\ m.files = h.files
        /\ IsNode(v) /\ v \notin m.folders /\ IsFirst(m, v.in)
        /\ v.nth = Copies(m.folders, v.in, v.name) + 1
        /\ NamesOf(At(v)) = path /\ v.datapath = datapath
        /\ e.folders = m.folders \cup {v} /\ e.files = h.files
  BY AddFolderIs
<1>2. /\ Standing(m, h.files, p) = Standing(h, h.files, p)
      /\ FolderAt(h, p) \subseteq FolderAt(m, p)
      /\ FolderAt(h, p) = {} /\ ~IsStrictPrefix(p, path) => FolderAt(m, p) = {}
  <2>1. m.folders = h.folders \cup MadeOnWay(h, path)
    BY <1>1
  <2> QED BY <2>1, MadeEffect
<1>3. /\ v \in FolderAt(e, path)
      /\ p # path /\ ~IsStrictPrefix(path, p) => FolderAt(m, p) \subseteq FolderAt(e, p)
      /\ p # path /\ FolderAt(m, p) = {} => FolderAt(e, p) = {}
      /\ IsStrictPrefix(path, p) => FolderAt(e, p) = {} /\ Standing(e, m.files, p) = {}
      /\ ~IsStrictPrefix(path, p) => Standing(e, m.files, p) = Standing(m, m.files, p)
  <2>1. /\ v \in FolderAt(e, NamesOf(At(v)))
        /\ p # NamesOf(At(v)) /\ ~IsStrictPrefix(NamesOf(At(v)), p) =>
             FolderAt(m, p) \subseteq FolderAt(e, p)
        /\ p # NamesOf(At(v)) /\ FolderAt(m, p) = {} => FolderAt(e, p) = {}
        /\ IsStrictPrefix(NamesOf(At(v)), p) =>
             FolderAt(e, p) = {} /\ Standing(e, m.files, p) = {}
        /\ ~IsStrictPrefix(NamesOf(At(v)), p) =>
             Standing(e, m.files, p) = Standing(m, m.files, p)
    <3>1. /\ Shape(m) /\ IsNode(v) /\ v \notin m.folders /\ IsFirst(m, v.in)
          /\ v.nth = Copies(m.folders, v.in, v.name) + 1
          /\ e.folders = m.folders \cup {v}
      BY <1>1
    <3> QED BY ONLY <3>1, InFrontEffect
  <2> QED BY <1>1, <2>1
<1>4. ~IsPrefix(p, path) => p # path /\ ~IsStrictPrefix(p, path)
  <2>1. IsPrefix(path, path)
    BY PrefixFacts, LenProperties
  <2> QED BY <2>1 DEF IsStrictPrefix
<1> QED BY <1>1, <1>2, <1>3, <1>4

\* What adding a file changes: it stands at its path; folders stay and none appears but
\* above it.
LEMMA AddFileEffect ==
  ASSUME NEW h, Shape(h), NEW path \in Seq(Names), path # <<>>, NEW id,
         NEW e, e = AddFile(h, path, id)
  PROVE  /\ \E v : /\ v.id = id /\ v \notin h.files
                   /\ Standing(e, e.files, path) = Standing(h, h.files, path) \cup {v}
         /\ \A p : p # path => Standing(e, e.files, p) = Standing(h, h.files, p)
         /\ \A p : FolderAt(h, p) \subseteq FolderAt(e, p)
         /\ \A p : FolderAt(h, p) = {} /\ ~IsStrictPrefix(p, path) => FolderAt(e, p) = {}
<1>1. PICK v :
        /\ IsNode(v) /\ v \notin h.files /\ NamesOf(At(v)) = path /\ v.id = id
        /\ IsFirst(e, v.in) /\ e.folders = h.folders \cup MadeOnWay(h, path)
        /\ e.files = h.files \cup {v}
  BY AddFileIs
<1>2. \A p : /\ Standing(e, h.files, p) = Standing(h, h.files, p)
             /\ FolderAt(h, p) \subseteq FolderAt(e, p)
             /\ FolderAt(h, p) = {} /\ ~IsStrictPrefix(p, path) => FolderAt(e, p) = {}
  BY <1>1, MadeEffect
<1>3. Standing(e, e.files, path) = Standing(e, h.files, path) \cup {v}
  BY <1>1 DEF Standing
<1>4. \A p : p # path => Standing(e, e.files, p) = Standing(e, h.files, p)
  BY <1>1 DEF Standing
<1> QED BY <1>1, <1>2, <1>3, <1>4

\* What deleting the contents of a folder changes: nothing but below it.
LEMMA InvalidateEffect ==
  ASSUME NEW h, Shape(h), NEW path \in Seq(Names), NEW e, e = Invalidate(h, path),
         NEW p, ~IsStrictPrefix(path, p)
  PROVE  /\ FolderAt(e, p) = FolderAt(h, p)
         /\ Standing(e, e.files, p) = Standing(h, h.files, p)
<1> DEFINE below(at) == \E d \in FolderAt(h, path) : IsPrefix(At(d), at)
<1>1. /\ e.folders = {n \in h.folders : ~below(n.in)}
      /\ e.files = {n \in h.files : ~below(n.in)}
  BY DEF Inside, Invalidate
<1>2. \A n \in h.folders \cup h.files : IsNode(n) /\ n.in \in Addresses
  BY DEF Shape, Listing, IsNode
<1>3. \A d \in FolderAt(h, path) : IsNode(d) /\ At(d) \in Addresses /\ NamesOf(At(d)) = path
  BY <1>2, AtFacts DEF FolderAt, Reached
<1>4. ASSUME NEW n \in h.folders \cup h.files, below(n.in)
      PROVE  IsStrictPrefix(path, NamesOf(At(n)))
  <2>1. PICK d \in FolderAt(h, path) : IsPrefix(At(d), n.in)
    BY <1>4
  <2>2. Len(At(d)) <= Len(n.in) /\ \A i \in 1..Len(At(d)) : At(d)[i] = n.in[i]
    BY <1>2, <1>3, <2>1, PrefixFacts DEF Addresses
  <2>3. /\ Len(path) = Len(At(d)) /\ Len(At(d)) \in Nat
        /\ \A i \in 1..Len(At(d)) : path[i] = At(d)[i][1]
    BY <1>3, NamesFacts
  <2>4. /\ NamesOf(n.in) \in Seq(Names) /\ Len(NamesOf(n.in)) = Len(n.in) /\ Len(n.in) \in Nat
        /\ \A i \in 1..Len(n.in) : NamesOf(n.in)[i] = n.in[i][1]
    BY <1>2, NamesFacts
  <2>5. \A i \in 1..Len(path) : i \in 1..Len(n.in)
    BY <2>2, <2>3, <2>4
  <2>6. \A i \in 1..Len(path) : path[i] = NamesOf(n.in)[i]
    BY <2>2, <2>3, <2>4, <2>5
  <2>7. IsPrefix(path, NamesOf(n.in))
    BY <2>2, <2>3, <2>4, <2>6, PrefixFacts
  <2> QED BY <1>2, <2>7, NamesBelow
<1>5. ASSUME NEW n \in h.folders \cup h.files, NEW i \in 1..Len(n.in), below(Above(n.in, i))
      PROVE  below(n.in)
  <2>1. PICK d \in FolderAt(h, path) : IsPrefix(At(d), Above(n.in, i))
    BY <1>5
  <2>2. /\ Above(n.in, i) \in Addresses /\ Len(Above(n.in, i)) = i - 1
        /\ \A j \in 1..(i - 1) : Above(n.in, i)[j] = n.in[j]
    BY <1>2, AboveOf
  <2>3. /\ Len(At(d)) <= i - 1
        /\ \A j \in 1..Len(At(d)) : At(d)[j] = Above(n.in, i)[j]
    BY <1>3, <2>1, <2>2, PrefixFacts DEF Addresses
  <2>4. Len(At(d)) \in Nat /\ Len(n.in) \in Nat
    BY <1>2, <1>3, LenProperties DEF Addresses
  <2>5. Len(At(d)) <= Len(n.in) /\ \A j \in 1..Len(At(d)) : j \in 1..(i - 1)
    BY <2>3, <2>4
  <2>6. \A j \in 1..Len(At(d)) : At(d)[j] = n.in[j]
    BY <2>2, <2>3, <2>5
  <2>7. IsPrefix(At(d), n.in)
    BY <1>2, <1>3, <2>5, <2>6, PrefixFacts DEF Addresses
  <2> QED BY <2>7
<1> HIDE DEF below
<1>6. ASSUME NEW at, ~below(at), NEW name
      PROVE  /\ Copies(e.folders, at, name) = Copies(h.folders, at, name)
             /\ Copies(e.files, at, name) = Copies(h.files, at, name)
  <2>1. {n \in e.folders : n.in = at /\ n.name = name} =
          {n \in h.folders : n.in = at /\ n.name = name}
    BY <1>1, <1>6
  <2>2. {n \in e.files : n.in = at /\ n.name = name} =
          {n \in h.files : n.in = at /\ n.name = name}
    BY <1>1, <1>6
  <2> QED BY <2>1, <2>2 DEF Copies
<1>7. ASSUME NEW n \in h.folders \cup h.files, ~below(n.in)
      PROVE  IsFirst(e, n.in) <=> IsFirst(h, n.in)
  <2>1. DOMAIN n.in = 1..Len(n.in)
    BY <1>2, LenProperties DEF Addresses
  <2>2. \A i \in DOMAIN n.in : Copies(e.folders, Above(n.in, i), n.in[i][1]) =
                                 Copies(h.folders, Above(n.in, i), n.in[i][1])
    BY <1>5, <1>6, <1>7, <2>1
  <2> QED BY <2>2 DEF IsFirst
<1>8. \A n \in h.folders \cup h.files : NamesOf(At(n)) = p => ~below(n.in)
  BY <1>4
<1>9. Standing(e, e.files, p) = Standing(h, h.files, p)
  BY <1>1, <1>7, <1>8 DEF Standing
<1>10. FolderAt(e, p) = FolderAt(h, p)
  <2>1. \A n : n \in FolderAt(e, p) <=>
          n \in e.folders /\ NamesOf(At(n)) = p /\ IsFirst(e, n.in)
            /\ n.nth = Copies(e.folders, n.in, n.name)
    BY DEF FolderAt, Reached
  <2>2. \A n : n \in FolderAt(h, p) <=>
          n \in h.folders /\ NamesOf(At(n)) = p /\ IsFirst(h, n.in)
            /\ n.nth = Copies(h.folders, n.in, n.name)
    BY DEF FolderAt, Reached
  <2>3. \A n \in h.folders : NamesOf(At(n)) = p =>
          /\ n \in e.folders /\ (IsFirst(e, n.in) <=> IsFirst(h, n.in))
          /\ Copies(e.folders, n.in, n.name) = Copies(h.folders, n.in, n.name)
    BY <1>1, <1>6, <1>7, <1>8
  <2>4. e.folders \subseteq h.folders
    BY <1>1
  <2>5. \A n : n \in FolderAt(e, p) <=> n \in FolderAt(h, p)
    BY <2>1, <2>2, <2>3, <2>4
  <2> QED BY <2>5
<1> QED BY <1>9, <1>10

\* What removing a file changes: the first one goes.
LEMMA RemoveFileEffect ==
  ASSUME NEW h, Shape(h), NEW path, NEW e, e = RemoveFile(h, path), NEW p
  PROVE  /\ FolderAt(e, p) = FolderAt(h, p)
         /\ Standing(e, e.files, p) = Standing(h, h.files, p) \ FileAt(h, path)
         /\ FileAt(h, path) \subseteq Standing(h, h.files, path)
<1>1. e = [folders |-> h.folders, files |-> h.files \ FileAt(h, path)]
  <2> DEFINE a == h.folders
             b == h.files
             b2 == h.files \ FileAt(h, path)
  <2>1. h = [folders |-> a, files |-> b]
    BY DEF Shape
  <2>2. e = [h EXCEPT !.files = b2]
    BY DEF RemoveFile
  <2> HIDE DEF a, b, b2
  <2>3. e = [folders |-> a, files |-> b2]
    BY ONLY <2>1, <2>2
  <2> QED BY <2>3 DEF a, b2
<1>2. e.folders = h.folders /\ e.files = h.files \ FileAt(h, path)
  BY <1>1
<1>3. \A at : IsFirst(e, at) <=> IsFirst(h, at)
  BY <1>2 DEF IsFirst
<1>4. FolderAt(e, p) = FolderAt(h, p)
  BY <1>2, <1>3 DEF FolderAt, Reached
<1>5. Standing(e, e.files, p) = Standing(h, h.files, p) \ FileAt(h, path)
  BY <1>2, <1>3 DEF Standing
<1>6. FileAt(h, path) \subseteq Standing(h, h.files, path)
  BY StandingFound DEF FileAt
<1> QED BY <1>4, <1>5, <1>6

\* Above a file or folder that stands somewhere there are folders.
LEMMA WayThere ==
  ASSUME NEW h, Shape(h), NEW nodes, nodes = h.folders \/ nodes = h.files,
         NEW q, Standing(h, nodes, q) # {},
         NEW p \in Seq(Names), p # <<>>, IsStrictPrefix(p, q)
  PROVE  FolderAt(h, p) # {}
<1>1. PICK n \in nodes : NamesOf(At(n)) = q /\ IsFirst(h, n.in)
  BY DEF Standing
<1>2. /\ IsNode(n) /\ n.in \in Addresses /\ Len(n.in) \in Nat
  BY AtFacts DEF Shape, Listing, IsNode
<1>3. IsPrefix(p, NamesOf(n.in))
  BY <1>1, <1>2, NamesBelow
<1>4. /\ NamesOf(n.in) \in Seq(Names) /\ Len(NamesOf(n.in)) = Len(n.in)
      /\ \A i \in 1..Len(n.in) : NamesOf(n.in)[i] = n.in[i][1]
  BY <1>2, NamesFacts
<1>5. Len(p) <= Len(n.in) /\ \A i \in 1..Len(p) : p[i] = NamesOf(n.in)[i]
  BY <1>3, <1>4, PrefixFacts
<1>6. Len(p) \in 1..Len(n.in) /\ \A i \in 1..Len(p) : i \in 1..Len(n.in)
  <2>1. Len(p) \in Nat /\ Len(p) # 0
    BY LenProperties, EmptySeq
  <2> QED BY <1>2, <1>5, <2>1
<1>7. PICK d \in h.folders :
        /\ IsNode(d) /\ At(d) = SubSeq(n.in, 1, Len(p))
        /\ d.in = Above(n.in, Len(p)) /\ d.name = n.in[Len(p)][1]
        /\ d.nth = n.in[Len(p)][2]
  BY <1>6, HungCopies
<1>8. IsFirst(h, d.in) /\ d.nth = Copies(h.folders, d.in, d.name)
  BY <1>1, <1>2, <1>6, <1>7, FirstAbove
<1>9. NamesOf(At(d)) = p
  <2>1. Len(p) \in 0..Len(n.in)
    BY <1>6
  <2>2. /\ At(d) \in Addresses /\ Len(At(d)) = Len(p)
        /\ \A i \in 1..Len(p) : At(d)[i] = n.in[i]
    BY <1>2, <1>7, <2>1, AboveFacts DEF Addresses
  <2>3. /\ NamesOf(At(d)) \in Seq(Names) /\ Len(NamesOf(At(d))) = Len(p)
        /\ \A i \in 1..Len(p) : NamesOf(At(d))[i] = At(d)[i][1]
    BY <2>2, NamesFacts
  <2>4. \A i \in 1..Len(p) : NamesOf(At(d))[i] = p[i]
    BY <1>4, <1>5, <1>6, <2>2, <2>3
  <2> QED BY <2>3, <2>4, SeqEqual
<1>10. d \in FolderAt(h, p)
  BY <1>8, <1>9 DEF FolderAt, Reached
<1> QED BY <1>10
\* Nodes of the same names are lists apart only by the lists they are in.
LEMMA NamesApart ==
  ASSUME NEW m, NEW n, IsNode(m), IsNode(n), NamesOf(At(m)) = NamesOf(At(n))
  PROVE  NamesOf(m.in) = NamesOf(n.in) /\ m.name = n.name
<1>1. /\ m.in \in Addresses /\ n.in \in Addresses
      /\ Len(m.in) \in Nat /\ Len(n.in) \in Nat
  BY AtFacts DEF IsNode
<1>2. Len(m.in) + 1 = Len(n.in) + 1 /\ m.name = NamesOf(At(m))[Len(m.in) + 1]
      /\ n.name = NamesOf(At(n))[Len(n.in) + 1]
  BY NodeNames
<1>3. Len(m.in) = Len(n.in)
  BY <1>1, <1>2
<1>4. \A i \in 1..Len(m.in) : m.in[i][1] = n.in[i][1]
  BY <1>3, NodeNames
<1>5. /\ NamesOf(m.in) \in Seq(Names) /\ Len(NamesOf(m.in)) = Len(m.in)
      /\ \A i \in 1..Len(m.in) : NamesOf(m.in)[i] = m.in[i][1]
  BY <1>1, NamesFacts
<1>6. /\ NamesOf(n.in) \in Seq(Names) /\ Len(NamesOf(n.in)) = Len(n.in)
      /\ \A i \in 1..Len(n.in) : NamesOf(n.in)[i] = n.in[i][1]
  BY <1>1, NamesFacts
<1>7. NamesOf(m.in) = NamesOf(n.in)
  BY <1>3, <1>4, <1>5, <1>6, SeqEqual
<1> QED BY <1>2, <1>3, <1>7

\* A folder added in front hides only those its own names lead to or through.
LEMMA InFrontHides ==
  ASSUME NEW h, Shape(h), NEW v, IsNode(v), v \notin h.folders,
         NEW e, e.folders = h.folders \cup {v},
         NEW d, IsNode(d), IsFirst(h, At(d)), ~IsPrefix(NamesOf(At(v)), NamesOf(At(d)))
  PROVE  IsFirst(e, At(d))
<1> DEFINE a == At(d)
<1>1. /\ a \in Addresses /\ Len(a) \in Nat /\ DOMAIN a = 1..Len(a) /\ Len(v.in) \in Nat
      /\ At(v) \in Addresses
  BY AtFacts, LenProperties DEF Addresses
<1>2. /\ NamesOf(a) \in Seq(Names) /\ Len(NamesOf(a)) = Len(a)
      /\ \A i \in 1..Len(a) : NamesOf(a)[i] = a[i][1]
  BY <1>1, NamesFacts
<1>3. /\ NamesOf(At(v)) \in Seq(Names) /\ Len(NamesOf(At(v))) = Len(v.in) + 1
      /\ \A i \in 1..Len(v.in) : NamesOf(At(v))[i] = v.in[i][1]
      /\ NamesOf(At(v))[Len(v.in) + 1] = v.name
  BY <1>1, NamesFacts, NodeNames
<1>4. IsFirst(h, a) /\ ~IsPrefix(NamesOf(At(v)), NamesOf(a))
  OBVIOUS
<1> HIDE DEF a
<1>5. ASSUME NEW i \in 1..Len(a)
      PROVE  ~(v.in = Above(a, i) /\ v.name = a[i][1])
  <2> SUFFICES ASSUME v.in = Above(a, i), v.name = a[i][1] PROVE FALSE
    OBVIOUS
  <2>1. Len(v.in) = i - 1 /\ \A j \in 1..(i - 1) : v.in[j] = a[j]
    BY <1>1, AboveOf
  <2>2. Len(v.in) + 1 = i /\ i \in Nat /\ i <= Len(a)
    BY <1>1, <2>1
  <2>3. ASSUME NEW j \in 1..i PROVE NamesOf(At(v))[j] = NamesOf(a)[j]
    <3>1. CASE j = i
      BY <1>2, <1>3, <2>2, <3>1
    <3>2. CASE j # i
      <4>1. j \in 1..(i - 1) /\ j \in 1..Len(v.in) /\ j \in 1..Len(a)
        BY <1>1, <2>2, <3>2
      <4> QED BY <1>2, <1>3, <2>1, <4>1
    <3> QED BY <3>1, <3>2
  <2>4. IsPrefix(NamesOf(At(v)), NamesOf(a))
    BY <1>2, <1>3, <2>2, <2>3, PrefixFacts
  <2> QED BY <1>4, <2>4
<1>6. \A i \in 1..Len(a) :
        Copies(e.folders, Above(a, i), a[i][1]) = Copies(h.folders, Above(a, i), a[i][1])
  <2>1. IsFiniteSet(h.folders)
    BY DEF Shape, Listing
  <2> QED BY <1>5, <2>1, AddedCopies
<1>7. IsFirst(e, a)
  BY <1>1, <1>4, <1>6 DEF IsFirst
<1> QED BY <1>7 DEF a

\* A folder made where its list has none of its name hides none.
LEMMA MadeHides ==
  ASSUME NEW h, Shape(h), NEW v, IsNode(v), IsFirst(h, v.in),
         Copies(h.folders, v.in, v.name) = 0,
         NEW d \in h.folders, IsFirst(h, At(d))
  PROVE  ~IsPrefix(NamesOf(At(v)), NamesOf(At(d)))
<1> DEFINE p == NamesOf(At(v))
           q == NamesOf(At(d))
<1>1. IsNode(d) /\ IsFiniteSet(h.folders) /\ \A n \in h.folders : IsNode(n)
  BY DEF Shape, Listing
<1>2. /\ At(d) \in Addresses /\ Len(At(d)) = Len(d.in) + 1 /\ Len(d.in) \in Nat
      /\ At(d)[Len(d.in) + 1] = <<d.name, d.nth>>
      /\ d.in \in Addresses /\ <<d.name, d.nth>> \in Names \X Nat
  BY <1>1, AtFacts DEF IsNode
<1>3. Above(At(d), Len(At(d))) = d.in
  BY <1>2, AboveAppend DEF At, Addresses
<1>4. IsFirst(h, d.in) /\ d.nth = Copies(h.folders, d.in, d.name)
  <2>1. Len(At(d)) \in 1..Len(At(d))
    BY <1>2
  <2>2. At(d)[Len(At(d))] = <<d.name, d.nth>>
    BY <1>2
  <2> QED BY <1>2, <1>3, <2>1, <2>2, FirstAbove
<1>5. ASSUME NEW n \in h.folders, NamesOf(At(n)) = p, IsFirst(h, n.in) PROVE FALSE
  <2>1. NamesOf(n.in) = NamesOf(v.in) /\ n.name = v.name
    BY <1>1, <1>5, NamesApart
  <2>2. n.in \in Addresses /\ v.in \in Addresses
    BY <1>1 DEF IsNode
  <2>3. n.in = v.in
    BY <1>5, <2>1, <2>2, FirstSame
  <2> QED BY <1>1, <2>1, <2>3, CopiesNat
<1>6. p \in Seq(Names) /\ q \in Seq(Names) /\ p # <<>>
  <2>1. p \in Seq(Names) /\ q \in Seq(Names) /\ Len(p) = Len(v.in) + 1 /\ Len(v.in) \in Nat
    BY <1>1, AtFacts, NodeNames, NamesFacts
  <2> HIDE DEF p, q
  <2> QED BY <2>1, EmptySeq
<1>7. d \in Standing(h, h.folders, q)
  BY <1>4 DEF Standing
<1>8. CASE IsStrictPrefix(p, q)
  <2> HIDE DEF p, q
  <2>1. FolderAt(h, p) # {}
    BY <1>6, <1>7, <1>8, WayThere
  <2> QED BY <1>5, <2>1 DEF FolderAt, Reached, p
<1>9. CASE p = q
  BY <1>4, <1>5, <1>9
<1> QED BY <1>8, <1>9 DEF IsStrictPrefix
===============================================================================
