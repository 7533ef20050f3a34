--------------------------- MODULE DocReadsProofs ---------------------------
(***************************************************************************)
(* Proofs about the reads of the document store that return many rows.     *)
(* They are exact whenever the inductive invariant of the store holds. A   *)
(* tree has one text, the list of its blocks in reading order; a walk has  *)
(* returned a part of it, and its stack stands for the rest, so that each  *)
(* turn moves one block from the one to the other. The pages of a history  *)
(* have each time told the newest of the revisions, one more to a page.    *)
(***************************************************************************)
EXTENDS DocReads, DocStoreProofs, FiniteSetTheorems, FunctionTheorems,
        SequenceTheorems, WellFoundedInduction

-----------------------------------------------------------------------------
(***************************************************************************)
(* Lists and repeated turns.                                               *)
(***************************************************************************)
\* A set of numbers that is not empty has a least one.
LEMMA LeastNumber ==
  ASSUME NEW S \in SUBSET Nat, S # {}
  PROVE  \E x \in S : \A y \in S : x =< y
<1> DEFINE Less == {ss \in Nat \X Nat : ss[1] < ss[2]}
<1>1. IsWellFoundedOn(Less, Nat)
  BY NatLessThanWellFounded, Zenon DEF OpToRel
<1>2. \A x, y \in Nat : y < x => <<y, x>> \in Less
  OBVIOUS
<1> HIDE DEF Less
<1>3. PICK x \in S : \A y \in S : ~ (<<y, x>> \in Less)
  BY <1>1, WFMin
<1>4. \A y \in S : ~(y < x)
  BY <1>2, <1>3
<1> QED BY <1>4

\* A number that is not zero has one before it.
LEMMA OneBefore ==
  ASSUME NEW n \in Nat, NEW k \in 0 .. n, k # 0
  PROVE  /\ k - 1 \in Nat /\ k = (k - 1) + 1 /\ k - 1 \in 0 .. n
         /\ k \in 1 .. n /\ ~(k =< k - 1)
  OBVIOUS

Orders(S, R) ==
  /\ \A x \in S : <<x, x>> \in R
  /\ \A x, y \in S : <<x, y>> \in R \/ <<y, x>> \in R
  /\ \A x, y \in S : <<x, y>> \in R /\ <<y, x>> \in R => x = y
  /\ \A x, y, z \in S : <<x, y>> \in R /\ <<y, z>> \in R => <<x, z>> \in R

\* A finite set in an order has each member once.
Ordered(S, R, list) ==
  /\ list \in Seq(S) /\ Len(list) = Cardinality(S)
  /\ \A x \in S : \E i \in 1 .. Len(list) : list[i] = x
  /\ \A i, j \in 1 .. Len(list) : i < j => list[i] # list[j] /\ <<list[i], list[j]>> \in R

\* The members of a finite set in the order of a relation: each is there once.
LEMMA SortedOf ==
  ASSUME NEW S, IsFiniteSet(S), NEW R, Orders(S, R)
  PROVE  Ordered(S, R, Sorted(S, R))
<1> DEFINE n == Cardinality(S)
           Down(x) == {y \in S : <<y, x>> \in R}
           rank == [x \in S |-> Cardinality(Down(x))]
           order == Sorted(S, R)
<1>1. n \in Nat
  BY FS_CardinalityType
<1>2. ASSUME NEW x \in S
      PROVE  IsFiniteSet(Down(x)) /\ rank[x] \in 1 .. n
  <2>1. IsFiniteSet(Down(x)) /\ Cardinality(Down(x)) =< n
    BY FS_Subset
  <2>2. x \in Down(x)
    BY DEF Orders
  <2>3. Cardinality(Down(x)) \in Nat /\ Cardinality(Down(x)) # 0
    BY <2>1, <2>2, FS_CardinalityType, FS_EmptySet
  <2> QED BY <2>1, <2>3, <1>1
<1>3. ASSUME NEW x \in S, NEW y \in S, x # y, <<x, y>> \in R
      PROVE  rank[x] < rank[y]
  <2>1. Down(x) \subseteq Down(y) /\ y \in Down(y) /\ y \notin Down(x)
    BY <1>3 DEF Orders
  <2>2. Cardinality(Down(x)) =< Cardinality(Down(y)) /\ Cardinality(Down(x)) # Cardinality(Down(y))
    <3>1. IsFiniteSet(Down(y))
      BY <1>2
    <3> HIDE DEF Down
    <3> QED BY <2>1, <3>1, FS_Subset
  <2>3. rank[x] \in Nat /\ rank[y] \in Nat
    <3> HIDE DEF rank, n
    <3>1. rank[x] \in 1 .. n /\ rank[y] \in 1 .. n
      BY <1>2
    <3> QED BY <1>1, <3>1
  <2> QED BY <2>2, <2>3
<1>4. rank \in [S -> 1 .. n]
  BY <1>2
<1>5. \A x, y \in S : rank[x] = rank[y] => x = y
  <2> SUFFICES ASSUME NEW x \in S, NEW y \in S, rank[x] = rank[y], x # y
               PROVE  FALSE
    OBVIOUS
  <2>1. <<x, y>> \in R \/ <<y, x>> \in R
    BY DEF Orders
  <2> HIDE DEF rank
  <2>2. rank[x] < rank[y] \/ rank[y] < rank[x]
    BY <1>3, <2>1
  <2> HIDE DEF n
  <2>3. rank[x] \in 1 .. n /\ rank[y] \in 1 .. n
    BY <1>2
  <2> QED BY <1>1, <2>2, <2>3
<1>6. rank \in Surjection(S, 1 .. n)
  <2>1. IsFiniteSet(1 .. n) /\ Cardinality(1 .. n) = n
    BY <1>1, FS_Interval
  <2> HIDE DEF rank
  <2>2. rank \in Injection(S, 1 .. n)
    BY <1>4, <1>5, Fun_IsInj
  <2> QED BY <2>1, <2>2, FS_Injection
<1>7. \A i \in 1 .. n : \E x \in S : rank[x] = i
  <2> HIDE DEF rank
  <2> QED BY <1>6, Fun_SurjectionProperties
<1>8. order = [i \in 1 .. n |-> CHOOSE x \in S : Cardinality(Down(x)) = i]
  BY DEF Sorted
<1>9. \A i \in 1 .. n : order[i] \in S /\ rank[order[i]] = i
  <2> SUFFICES ASSUME NEW i \in 1 .. n
               PROVE  order[i] \in S /\ rank[order[i]] = i
    OBVIOUS
  <2>1. \E x \in S : Cardinality(Down(x)) = i
    BY <1>7
  <2>2. order[i] = CHOOSE x \in S : Cardinality(Down(x)) = i
    BY <1>8
  <2> HIDE DEF order, Down
  <2>3. order[i] \in S /\ Cardinality(Down(order[i])) = i
    BY <2>1, <2>2
  <2> QED BY <2>3
<1>10. order \in [1 .. n -> S]
  <2> HIDE DEF order, Down
  <2>1. order = [i \in 1 .. n |-> order[i]]
    BY <1>8
  <2> QED BY <1>9, <2>1
<1> HIDE DEF order
<1>11. order \in Seq(S) /\ Len(order) = n
  BY <1>1, <1>10
<1>12. \A x \in S : \E i \in 1 .. n : order[i] = x
  <2> TAKE x \in S
  <2> HIDE DEF rank
  <2>1. rank[x] \in 1 .. n
    BY <1>2
  <2>2. order[rank[x]] \in S /\ rank[order[rank[x]]] = rank[x]
    BY <1>9, <2>1
  <2>3. order[rank[x]] = x
    BY <1>5, <2>2
  <2> QED BY <2>1, <2>3
<1>13. ASSUME NEW i \in 1 .. n, NEW j \in 1 .. n, i < j
       PROVE  order[i] # order[j] /\ <<order[i], order[j]>> \in R
  <2> HIDE DEF rank
  <2>1. /\ order[i] \in S /\ rank[order[i]] = i
        /\ order[j] \in S /\ rank[order[j]] = j
    BY <1>9
  <2>2. i \in Nat /\ j \in Nat
    BY <1>1
  <2>3. order[i] # order[j]
    BY <1>13, <2>1, <2>2
  <2>4. CASE <<order[j], order[i]>> \in R
    <3>1. rank[order[j]] < rank[order[i]]
      BY <1>3, <2>1, <2>3, <2>4
    <3> QED BY <1>13, <2>1, <2>2, <3>1
  <2> QED BY <2>1, <2>3, <2>4 DEF Orders
<1> HIDE DEF rank, Down
<1> QED BY <1>11, <1>12, <1>13 DEF Ordered, order

-----------------------------------------------------------------------------
(***************************************************************************)
(* Lists of transactions.                                                  *)
(***************************************************************************)
IsFlatten(f, seqs) ==
  f = [i \in 1 .. Len(seqs) |-> IF i = 1 THEN seqs[i] ELSE f[i - 1] \o seqs[i]]

\* Lists that are joined one after the other: there is a function that does.
LEMMA FlattenExists ==
  ASSUME NEW seqs, Len(seqs) \in Nat
  PROVE  \E f : IsFlatten(f, seqs)
<1> DEFINE len == Len(seqs)
           Upto(m, g) == /\ g = [n \in 1 .. m |-> g[n]]
                         /\ m # 0 => g[1] = seqs[1]
                         /\ \A n \in 2 .. m : g[n] = g[n - 1] \o seqs[n]
           Bad == {m \in Nat : ~ \E g : Upto(m, g)}
<1>1. Bad = {}
  <2> SUFFICES ASSUME Bad # {}
               PROVE  FALSE
    OBVIOUS
  <2>1. PICK m \in Bad : \A n \in Bad : m =< n
    <3> HIDE DEF Bad
    <3>1. Bad \in SUBSET Nat
      BY DEF Bad
    <3> QED BY <3>1, LeastNumber
  <2>2. m # 0
    <3>1. Upto(0, [n \in 1 .. 0 |-> seqs[1]])
      OBVIOUS
    <3> QED BY <2>1, <3>1
  <2>3. m \in Nat /\ m - 1 \in Nat /\ ~(m =< m - 1)
    BY <2>1, <2>2
  <2>4. PICK h : Upto(m - 1, h)
    BY <2>1, <2>3
  <2> DEFINE g == [n \in 1 .. m |-> IF n < m THEN h[n]
                                    ELSE IF n = 1 THEN seqs[1] ELSE h[m - 1] \o seqs[m]]
  <2>5. Upto(m, g)
    <3>1. g = [n \in 1 .. m |-> g[n]]
      OBVIOUS
    <3>2. g[m] = IF m = 1 THEN seqs[1] ELSE h[m - 1] \o seqs[m]
      BY <2>2, <2>3
    <3>3. \A n \in 1 .. m - 1 : g[n] = h[n]
      BY <2>3
    <3> HIDE DEF g
    <3>4. g[1] = seqs[1]
      BY <2>2, <2>3, <2>4, <3>2, <3>3
    <3>5. \A n \in 2 .. m : g[n] = g[n - 1] \o seqs[n]
      <4> TAKE n \in 2 .. m
      <4>1. CASE n = m
        <5>1. m # 1 /\ m - 1 \in 1 .. m - 1
          BY <4>1, <2>3
        <5>2. g[m - 1] = h[m - 1]
          BY <5>1, <3>3
        <5>3. g[m] = h[m - 1] \o seqs[m]
          BY <5>1, <3>2
        <5> QED BY <4>1, <5>2, <5>3
      <4>2. CASE n # m
        <5>1. n \in 2 .. m - 1 /\ n \in 1 .. m - 1 /\ n - 1 \in 1 .. m - 1
          BY <4>2, <2>3
        <5> QED BY <5>1, <3>3, <2>4
      <4> QED BY <4>1, <4>2
    <3> QED BY <3>1, <3>4, <3>5
  <2> QED BY <2>1, <2>5
<1>2. PICK g : Upto(len, g)
  BY <1>1
<1> HIDE DEF Bad
<1> DEFINE Body(n) == IF n = 1 THEN seqs[n] ELSE g[n - 1] \o seqs[n]
<1>3. \A n \in 1 .. len : g[n] = Body(n)
  <2> TAKE n \in 1 .. len
  <2>1. CASE n = 1
    BY <1>2, <2>1
  <2>2. CASE n # 1
    <3>1. n \in 2 .. len
      BY <2>2
    <3> QED BY <1>2, <2>2, <3>1
  <2> QED BY <2>1, <2>2
<1>4. g = [n \in 1 .. len |-> g[n]]
  BY <1>2
<1>5. [n \in 1 .. len |-> g[n]] = [n \in 1 .. len |-> Body(n)]
  <2> HIDE DEF Body
  <2> QED BY <1>3
<1>6. g = [n \in 1 .. len |-> Body(n)]
  BY <1>4, <1>5, Zenon
<1> QED BY <1>6 DEF IsFlatten

\* The lists up to one are the lists before it and it.
LEMMA FlattenStep ==
  ASSUME NEW seqs, Len(seqs) \in Nat, NEW f, IsFlatten(f, seqs)
  PROVE  \A i \in 1 .. Len(seqs) : f[i] = IF i = 1 THEN seqs[i] ELSE f[i - 1] \o seqs[i]
<1> DEFINE Body(i) == IF i = 1 THEN seqs[i] ELSE f[i - 1] \o seqs[i]
<1>1. f = [i \in 1 .. Len(seqs) |-> Body(i)]
  BY Zenon DEF IsFlatten
<1> HIDE DEF Body
<1>2. \A i \in 1 .. Len(seqs) : f[i] = Body(i)
  BY <1>1
<1> QED BY <1>2 DEF Body


\* Turns that are taken one after the other.
IsTurns(g, n, base, step) ==
  g[0] = base /\ \A m \in 1 .. n : g[m] = step[g[m - 1]]

\* Turns can be taken for any number of times.
LEMMA TurnsExist ==
  ASSUME NEW n \in Nat, NEW D, NEW base \in D, NEW step \in [D -> D]
  PROVE  \E g \in [0 .. n -> D] : IsTurns(g, n, base, step)
<1> DEFINE Bad == {m \in Nat : ~ \E g \in [0 .. m -> D] : IsTurns(g, m, base, step)}
<1> SUFFICES ASSUME Bad # {}
             PROVE  FALSE
  OBVIOUS
<1>1. PICK m \in Bad : \A k \in Bad : m =< k
  <2>1. Bad \in SUBSET Nat
    OBVIOUS
  <2> HIDE DEF Bad
  <2> QED BY <2>1, LeastNumber
<1>2. m # 0
  <2>1. [k \in 0 .. 0 |-> base] \in [0 .. 0 -> D] /\ IsTurns([k \in 0 .. 0 |-> base], 0, base, step)
    BY DEF IsTurns
  <2>2. 0 \notin Bad
    BY <2>1
  <2> QED BY <1>1, <2>2
<1>3. m \in Nat /\ m - 1 \in Nat /\ ~(m =< m - 1)
  BY <1>1, <1>2
<1>4. PICK h \in [0 .. m - 1 -> D] : IsTurns(h, m - 1, base, step)
  BY <1>1, <1>3
<1> DEFINE g == [k \in 0 .. m |-> IF k = m THEN step[h[m - 1]] ELSE h[k]]
<1>5. g \in [0 .. m -> D]
  <2>1. h[m - 1] \in D /\ \A k \in 0 .. m : k # m => k \in 0 .. m - 1
    BY <1>3, <1>4
  <2> QED BY <1>4, <2>1
<1>6. g[0] = base /\ g[m] = step[h[m - 1]] /\ g[m - 1] = h[m - 1]
  <2>1. 0 \in 0 .. m - 1 /\ 0 \in 0 .. m /\ 0 # m /\ m \in 0 .. m /\ m - 1 \in 0 .. m /\ m - 1 # m
    BY <1>3
  <2> QED BY <1>4, <2>1 DEF IsTurns
<1>7. \A k \in 1 .. m - 1 : g[k] = h[k] /\ g[k - 1] = h[k - 1]
  BY <1>3
<1>8. IsTurns(g, m, base, step)
  <2> HIDE DEF g
  <2>1. \A k \in 1 .. m : k # m => k \in 1 .. m - 1
    BY <1>3
  <2> QED BY <1>4, <1>6, <1>7, <2>1 DEF IsTurns
<1> QED BY <1>1, <1>5, <1>8

-----------------------------------------------------------------------------
(***************************************************************************)
(* What a read at a transaction, or now, has below a block.                *)
(***************************************************************************)
\* The tree f is what is read at a transaction, or now.
Reads(f, at) ==
  /\ f \in [Blocks -> Content] /\ WellFormed(f)
  /\ \A b \in Blocks : ContentAt(b, at) = f[b] /\ KidsAt(b, at) = KidsOf(f, b)

\* The latest of some rows is one of them.
LEMMA LatestIsRow ==
  ASSUME TypeOK, NEW rows \in SUBSET versions, rows # {}
  PROVE  Latest(rows) \in rows /\ \A r \in rows : r.tx =< Latest(rows).tx
<1> DEFINE Above == {MaxTx - r.tx : r \in rows}
<1>1. \A r \in rows : r.tx \in Txs /\ r.tx \in Nat /\ MaxTx - r.tx \in Nat
  BY BoundsAssumption DEF TypeOK, VersionRow, Txs
<1>2. Above \in SUBSET Nat /\ Above # {}
  BY <1>1
<1>3. PICK x \in Above : \A y \in Above : x =< y
  <2> HIDE DEF Above
  <2> QED BY <1>2, LeastNumber
<1>4. PICK top \in rows : x = MaxTx - top.tx
  OBVIOUS
<1>5. ASSUME NEW r \in rows
      PROVE  r.tx =< top.tx
  <2>1. MaxTx - r.tx \in Above
    OBVIOUS
  <2>2. MaxTx - top.tx =< MaxTx - r.tx
    BY <1>3, <1>4, <2>1
  <2>3. r.tx \in Nat /\ top.tx \in Nat /\ MaxTx \in Nat
    BY <1>1, BoundsAssumption
  <2> QED BY <2>2, <2>3
<1> QED BY <1>5 DEF Latest

\* What a version row holds is a content.
LEMMA VersionIsContent ==
  ASSUME TypeOK, NEW b, NEW at
  PROVE  VersionAt(b, at).content \in Content
<1>1. Tombstone \in Content
  BY BoundsAssumption DEF Tombstone, Content, ContentWith, Positions, Kinds, Fields
<1>2. CASE VersionRows(b, at) = {}
  BY <1>1, <1>2 DEF VersionAt, Missing
<1>3. CASE VersionRows(b, at) # {}
  <2>1. VersionRows(b, at) \in SUBSET versions
    BY DEF VersionRows
  <2>2. Latest(VersionRows(b, at)) \in versions
    BY <1>3, <2>1, LatestIsRow
  <2> QED BY <1>3, <2>2 DEF VersionAt, TypeOK, VersionRow
<1> QED BY <1>2, <1>3

\* What a committed transaction left, and what is there now, is a tree.
LEMMA TreeIsRead ==
  ASSUME IInv, NEW at \in {Now} \cup txLog
  PROVE  \E f : Reads(f, at)
<1>1. CASE at = Now
  <2>1. CurrentTree \in [Blocks -> Content]
    BY DEF IInv, TypeOK, CurrentTree, HeadRow
  <2>2. \A b \in Blocks : ContentAt(b, at) = CurrentTree[b]
    BY <1>1 DEF ContentAt, CurrentTree
  <2>3. \A b \in Blocks : KidsAt(b, at) = KidsOf(CurrentTree, b)
    BY <1>1, IndexGivesChildren DEF KidsAt, IInv
  <2> QED BY <2>1, <2>2, <2>3 DEF Reads, IInv, Topology
<1>2. CASE at # Now
  <2>1. at \in txLog
    BY <1>2
  <2>2. \A b \in Blocks : ContentAt(b, at) = TreeAt(at)[b]
    BY <1>2 DEF ContentAt, TreeAt
  <2>3. \A b \in Blocks : KidsAt(b, at) = KidsOf(TreeAt(at), b)
    BY <1>2, <2>1 DEF KidsAt, IInv, HistoryIsTree
  <2>4. WellFormed(TreeAt(at))
    BY <2>1 DEF IInv, HistoryIsTree
  <2>5. TreeAt(at) \in [Blocks -> Content]
    <3>1. ASSUME NEW b \in Blocks
          PROVE  VersionAt(b, at).content \in Content
      BY VersionIsContent DEF IInv
    <3> QED BY <3>1 DEF TreeAt
  <2> QED BY <2>2, <2>3, <2>4, <2>5 DEF Reads
<1> QED BY <1>1, <1>2

-----------------------------------------------------------------------------
(***************************************************************************)
(* The blocks below a block, level by level.                               *)
(***************************************************************************)
IsLevels(g, kids, base, d) ==
  g[0] = base /\ \A n \in 1 .. d : g[n] = g[n - 1] \cup UNION {kids[p] : p \in g[n - 1]}

TopOf(root, at) == {root} \ {b \in Blocks : ContentAt(b, at).deleted}

LevelsGive(kids, root, at, d) ==
  \E g \in [0 .. d -> SUBSET Blocks] :
    IsLevels(g, kids, TopOf(root, at), d) /\ Within(kids, root, at, d) = g[d]

\* The levels of a read: the first is the block unless it is deleted, and each
\* has the one before and its children.
LEMMA LevelsAre ==
  ASSUME NEW kids \in [Blocks -> SUBSET Blocks], NEW at, NEW root \in Blocks, NEW d \in Nat
  PROVE  LevelsGive(kids, root, at, d)
<1>0. PICK base : base = TopOf(root, at)
  OBVIOUS
<1> DEFINE More(S) == S \cup UNION {kids[p] : p \in S}
           Body(g) == [n \in 0 .. d |-> IF n = 0 THEN base ELSE More(g[n - 1])]
           step == [S \in SUBSET Blocks |-> More(S)]
<1>1. step \in [SUBSET Blocks -> SUBSET Blocks] /\ base \in SUBSET Blocks
  BY <1>0 DEF TopOf
<1>2. PICK g \in [0 .. d -> SUBSET Blocks] : IsTurns(g, d, base, step)
  BY <1>1, TurnsExist
<1>3. \A n \in 1 .. d : g[n] = More(g[n - 1])
  <2> TAKE n \in 1 .. d
  <2>1. n - 1 \in 0 .. d
    OBVIOUS
  <2>2. g[n - 1] \in SUBSET Blocks
    BY <2>1
  <2> QED BY <1>2, <2>2 DEF IsTurns
<1> HIDE DEF More, step
<1>4. g = Body(g)
  <2>1. \A n \in 0 .. d : g[n] = IF n = 0 THEN base ELSE More(g[n - 1])
    BY <1>2, <1>3 DEF IsTurns
  <2> QED BY <1>2, <2>1
<1> DEFINE level == CHOOSE h : h = Body(h)
<1>5. level = Body(level)
  <2> HIDE DEF Body
  <2> QED BY <1>4
<1>6. Within(kids, root, at, d) = level[d]
  BY <1>0 DEF Within, More, TopOf
<1> HIDE DEF level
<1>7. level[0] = base /\ \A n \in 1 .. d : level[n] = More(level[n - 1])
  <2>1. \A n \in 0 .. d : level[n] = IF n = 0 THEN base ELSE More(level[n - 1])
    BY <1>5
  <2> QED BY <2>1
<1>8. level = g
  <2> DEFINE Bad == {n \in 0 .. d : level[n] # g[n]}
  <2>1. Bad = {}
    <3> SUFFICES ASSUME Bad # {}
                 PROVE  FALSE
      OBVIOUS
    <3>1. PICK m \in Bad : \A n \in Bad : m =< n
      <4>1. Bad \in SUBSET Nat
        OBVIOUS
      <4> HIDE DEF Bad
      <4> QED BY <4>1, LeastNumber
    <3>2. m # 0
      BY <1>2, <1>7, <3>1 DEF IsTurns
    <3>3. m \in 1 .. d /\ m - 1 \in 0 .. d /\ ~(m =< m - 1)
      BY <3>1, <3>2
    <3>4. level[m - 1] = g[m - 1]
      BY <3>1, <3>3
    <3> QED BY <1>3, <1>7, <3>1, <3>3, <3>4
  <2>2. \A n \in 0 .. d : level[n] = g[n]
    BY <2>1
  <2>3. level = [n \in 0 .. d |-> level[n]]
    BY <1>5
  <2> QED BY <1>2, <2>2, <2>3
<1>9. IsLevels(g, kids, base, d)
  BY <1>2, <1>3 DEF IsTurns, IsLevels, More
<1> QED BY <1>0, <1>2, <1>6, <1>8, <1>9 DEF LevelsGive

\* What is one level deeper is the children of what is not.
LEMMA WithinSteps ==
  ASSUME NEW kids \in [Blocks -> SUBSET Blocks], NEW at, NEW root \in Blocks, NEW d \in Nat
  PROVE  /\ Within(kids, root, at, d) \in SUBSET Blocks
         /\ Within(kids, root, at, 0) = {root} \ {b \in Blocks : ContentAt(b, at).deleted}
         /\ Within(kids, root, at, d + 1) =
              Within(kids, root, at, d) \cup UNION {kids[p] : p \in Within(kids, root, at, d)}
<1>1. PICK base : base = TopOf(root, at)
  OBVIOUS
<1>2. PICK g \in [0 .. d -> SUBSET Blocks] :
        IsLevels(g, kids, base, d) /\ Within(kids, root, at, d) = g[d]
  BY <1>1, LevelsAre DEF LevelsGive
<1>3. PICK e : e = d + 1
  OBVIOUS
<1>4. e \in Nat /\ e \in 1 .. e /\ e - 1 = d
  BY <1>3
<1>5. PICK h \in [0 .. e -> SUBSET Blocks] :
        IsLevels(h, kids, base, e) /\ Within(kids, root, at, e) = h[e]
  <2>1. LevelsGive(kids, root, at, e)
    BY <1>4, LevelsAre
  <2> QED BY <1>1, <2>1 DEF LevelsGive
<1>6. PICK z : z = 0
  OBVIOUS
<1>7. PICK i \in [0 .. z -> SUBSET Blocks] :
        IsLevels(i, kids, base, z) /\ Within(kids, root, at, z) = i[z]
  <2>1. LevelsGive(kids, root, at, z)
    BY <1>6, LevelsAre
  <2> QED BY <1>1, <2>1 DEF LevelsGive
<1>8. Within(kids, root, at, 0) = base
  BY <1>6, <1>7 DEF IsLevels
<1>9. \A n \in 0 .. d : g[n] = h[n]
  <2> DEFINE Bad == {n \in 0 .. d : g[n] # h[n]}
  <2> SUFFICES ASSUME Bad # {}
               PROVE  FALSE
    OBVIOUS
  <2>1. PICK m \in Bad : \A n \in Bad : m =< n
    <3>1. Bad \in SUBSET Nat
      OBVIOUS
    <3> HIDE DEF Bad
    <3> QED BY <3>1, LeastNumber
  <2>2. m # 0
    BY <1>2, <1>5, <2>1 DEF IsLevels
  <2>3. m \in 1 .. d /\ m \in 1 .. e /\ m - 1 \in 0 .. d /\ ~(m =< m - 1)
    BY <1>3, <2>1, <2>2
  <2>4. g[m - 1] = h[m - 1]
    BY <2>1, <2>3
  <2> QED BY <1>2, <1>5, <2>1, <2>3, <2>4 DEF IsLevels
<1>10. h[e] = h[d] \cup UNION {kids[p] : p \in h[d]}
  BY <1>4, <1>5 DEF IsLevels
<1>11. g[d] = h[d]
  BY <1>9
<1> QED BY <1>1, <1>2, <1>3, <1>5, <1>8, <1>10, <1>11 DEF TopOf

\* The tree f and the children of its blocks.
IsTree(f, at, kids) == Reads(f, at) /\ kids = [p \in Blocks |-> KidsAt(p, at)]

\* Children are live, and name a live parent; the first level is the block.
TreeShape(f, at, kids) ==
  /\ f \in [Blocks -> Content] /\ kids \in [Blocks -> SUBSET Blocks]
  /\ \A b \in Blocks : ContentAt(b, at) = f[b] /\ KidsAt(b, at) = kids[b]
  /\ \A p, k \in Blocks : k \in kids[p] <=> ~f[k].deleted /\ f[k].parent = p
  /\ \A p \in Blocks : \A k \in kids[p] : ~f[p].deleted

\* The tree that is read has this shape.
LEMMA ShapeOfTree ==
  ASSUME NEW f, NEW at, NEW kids, IsTree(f, at, kids)
  PROVE  TreeShape(f, at, kids)
<1>1. f \in [Blocks -> Content] /\ WellPlaced(f)
  BY DEF IsTree, Reads, WellFormed
<1>2. \A b \in Blocks : ContentAt(b, at) = f[b] /\ KidsAt(b, at) = KidsOf(f, b) /\ kids[b] = KidsAt(b, at)
  BY DEF IsTree, Reads
<1>3. \A p, k \in Blocks : k \in kids[p] <=> ~f[k].deleted /\ f[k].parent = p
  BY <1>2 DEF KidsOf, LiveBlocks
<1>4. kids \in [Blocks -> SUBSET Blocks]
  <2>1. \A p \in Blocks : KidsAt(p, at) \in SUBSET Blocks
    BY <1>2 DEF KidsOf, LiveBlocks
  <2> QED BY <2>1 DEF IsTree
<1>5. ASSUME NEW p \in Blocks, NEW k \in kids[p]
      PROVE  ~f[p].deleted
  <2>1. k \in Blocks /\ ~f[k].deleted /\ f[k].parent = p
    BY <1>3, <1>4
  <2>2. p # None
    BY BlocksAssumption DEF None
  <2> QED BY <1>1, <2>1, <2>2 DEF WellPlaced, LiveBlocks
<1> QED BY <1>1, <1>2, <1>3, <1>4, <1>5 DEF TreeShape

\* The first level has the block itself, if it is live, and no other.
LEMMA FirstLevel ==
  ASSUME NEW f, NEW at, NEW kids, TreeShape(f, at, kids), NEW b \in Blocks
  PROVE  Within(kids, b, at, 0) = IF f[b].deleted THEN {} ELSE {b}
<1>1. PICK d \in Nat : d = 0
  OBVIOUS
<1>2. kids \in [Blocks -> SUBSET Blocks]
  BY DEF TreeShape
<1>3. Within(kids, b, at, 0) = {b} \ {x \in Blocks : ContentAt(x, at).deleted}
  BY <1>1, <1>2, WithinSteps
<1> QED BY <1>3 DEF TreeShape

\* Children of what is read are read one level deeper; all that is read exist.
LEMMA NextLevel ==
  ASSUME NEW f, NEW at, NEW kids, TreeShape(f, at, kids), NEW b \in Blocks, NEW d \in Nat,
         NEW x
  PROVE  /\ x \in Within(kids, b, at, d + 1) <=>
              \/ x \in Within(kids, b, at, d)
              \/ \E p \in Within(kids, b, at, d) : x \in kids[p]
         /\ Within(kids, b, at, d) \in SUBSET Blocks
<1>1. kids \in [Blocks -> SUBSET Blocks]
  BY DEF TreeShape
<1>2. /\ Within(kids, b, at, d) \in SUBSET Blocks
      /\ Within(kids, b, at, d + 1) =
           Within(kids, b, at, d) \cup UNION {kids[p] : p \in Within(kids, b, at, d)}
  BY <1>1, WithinSteps
<1> QED BY <1>2

\* What a set of blocks has that the first level is in, and that has the
\* children of its members, all levels are in.
LEMMA LevelsStay ==
  ASSUME NEW f, NEW at, NEW kids, TreeShape(f, at, kids), NEW b \in Blocks, NEW d \in Nat,
         NEW X, f[b].deleted \/ b \in X, \A p \in X : p \in Blocks => kids[p] \subseteq X
  PROVE  Within(kids, b, at, d) \subseteq X
<1> DEFINE Bad == {e \in Nat : ~(Within(kids, b, at, e) \subseteq X)}
<1>1. Bad = {}
  <2> SUFFICES ASSUME Bad # {}
               PROVE  FALSE
    OBVIOUS
  <2>1. PICK m \in Bad : \A n \in Bad : m =< n
    <3>1. Bad \in SUBSET Nat
      OBVIOUS
    <3> HIDE DEF Bad
    <3> QED BY <3>1, LeastNumber
  <2>2. m # 0
    BY <2>1, FirstLevel
  <2>3. PICK n \in Nat : m = n + 1
    <3>1. m - 1 \in Nat /\ m = (m - 1) + 1
      BY <2>1, <2>2
    <3> QED BY <3>1
  <2>4. Within(kids, b, at, n) \subseteq X
    BY <2>1, <2>3
  <2>5. Within(kids, b, at, n + 1) \subseteq X
    BY <2>3, <2>4, NextLevel
  <2> QED BY <2>1, <2>3, <2>5
<1> QED BY <1>1

\* A block below another is live, as is each of its ancestors on the way.
LEMMA WithinOf ==
  ASSUME NEW f, NEW at, NEW kids, TreeShape(f, at, kids), NEW b \in Blocks, NEW d \in Nat,
         NEW x \in Within(kids, b, at, d)
  PROVE  /\ x \in Blocks /\ ~f[x].deleted /\ ~f[b].deleted
         /\ x # b => /\ f[x].parent \in Within(kids, b, at, d)
                     /\ f[x].parent \in Blocks /\ x \in kids[f[x].parent]
<1> DEFINE Good(e) == \A y \in Within(kids, b, at, e) :
             /\ y \in Blocks /\ ~f[y].deleted /\ ~f[b].deleted
             /\ y # b => /\ f[y].parent \in Within(kids, b, at, e)
                         /\ f[y].parent \in Blocks /\ y \in kids[f[y].parent]
           Bad == {e \in Nat : ~Good(e)}
<1>1. Bad = {}
  <2> SUFFICES ASSUME Bad # {}
               PROVE  FALSE
    OBVIOUS
  <2>1. PICK m \in Bad : \A n \in Bad : m =< n
    <3>1. Bad \in SUBSET Nat
      OBVIOUS
    <3> HIDE DEF Bad
    <3> QED BY <3>1, LeastNumber
  <2>2. Good(0)
    BY FirstLevel
  <2>3. PICK n \in Nat : m = n + 1
    <3>1. m # 0
      BY <2>1, <2>2
    <3>2. m - 1 \in Nat /\ m = (m - 1) + 1
      BY <2>1, <3>1
    <3> QED BY <3>2
  <2>4. Good(n)
    BY <2>1, <2>3
  <2>5. Good(n + 1)
    <3> SUFFICES ASSUME NEW y \in Within(kids, b, at, n + 1)
                 PROVE  /\ y \in Blocks /\ ~f[y].deleted /\ ~f[b].deleted
                        /\ y # b => /\ f[y].parent \in Within(kids, b, at, n + 1)
                                    /\ f[y].parent \in Blocks /\ y \in kids[f[y].parent]
      OBVIOUS
    <3>1. CASE y \in Within(kids, b, at, n)
      <4>1. \A p \in Within(kids, b, at, n) : p \in Within(kids, b, at, n + 1)
        BY NextLevel
      <4> QED BY <2>4, <3>1, <4>1
    <3>2. CASE \E p \in Within(kids, b, at, n) : y \in kids[p]
      <4>1. PICK p \in Within(kids, b, at, n) : y \in kids[p]
        BY <3>2
      <4>2. p \in Blocks /\ ~f[b].deleted /\ p \in Within(kids, b, at, n + 1)
        BY <2>4, <4>1, NextLevel
      <4>3. y \in Blocks /\ ~f[y].deleted /\ f[y].parent = p
        BY <4>1, <4>2 DEF TreeShape
      <4> QED BY <4>1, <4>2, <4>3
    <3> QED BY <3>1, <3>2, NextLevel
  <2> QED BY <2>1, <2>3, <2>5
<1> QED BY <1>1

\* A deeper read has all of a shallower one.
LEMMA WithinGrows ==
  ASSUME NEW f, NEW at, NEW kids, TreeShape(f, at, kids), NEW b \in Blocks, NEW d \in Nat,
         NEW e \in Nat, d =< e
  PROVE  Within(kids, b, at, d) \subseteq Within(kids, b, at, e)
<1> DEFINE Bad == {n \in Nat : d =< n /\ ~(Within(kids, b, at, d) \subseteq Within(kids, b, at, n))}
<1>1. Bad = {}
  <2> SUFFICES ASSUME Bad # {}
               PROVE  FALSE
    OBVIOUS
  <2>1. PICK m \in Bad : \A n \in Bad : m =< n
    <3>1. Bad \in SUBSET Nat
      OBVIOUS
    <3> HIDE DEF Bad
    <3> QED BY <3>1, LeastNumber
  <2>2. m # d
    BY <2>1
  <2>3. PICK n \in Nat : m = n + 1 /\ d =< n
    <3>1. m - 1 \in Nat /\ m = (m - 1) + 1 /\ d =< m - 1
      BY <2>1, <2>2
    <3> QED BY <3>1
  <2>4. Within(kids, b, at, d) \subseteq Within(kids, b, at, n)
    BY <2>1, <2>3
  <2>5. \A x \in Within(kids, b, at, n) : x \in Within(kids, b, at, n + 1)
    BY NextLevel
  <2> QED BY <2>1, <2>3, <2>4, <2>5
<1> QED BY <1>1

\* What is below a live block is the block and what is below its children.
LEMMA WithinSplits ==
  ASSUME NEW f, NEW at, NEW kids, TreeShape(f, at, kids), NEW b \in Blocks, NEW d \in Nat,
         ~f[b].deleted, NEW x
  PROVE  x \in Within(kids, b, at, d + 1) <=>
           x = b \/ \E k \in kids[b] : x \in Within(kids, k, at, d)
<1> DEFINE Good(e) == \A y : y \in Within(kids, b, at, e + 1) <=>
                               y = b \/ \E k \in kids[b] : y \in Within(kids, k, at, e)
           Bad == {e \in Nat : ~Good(e)}
<1>1. kids[b] \in SUBSET Blocks /\ \A k \in kids[b] : ~f[k].deleted
  BY DEF TreeShape
<1>2. Bad = {}
  <2> SUFFICES ASSUME Bad # {}
               PROVE  FALSE
    OBVIOUS
  <2>1. PICK m \in Bad : \A n \in Bad : m =< n
    <3>1. Bad \in SUBSET Nat
      OBVIOUS
    <3> HIDE DEF Bad
    <3> QED BY <3>1, LeastNumber
  <2>2. Good(0)
    <3> SUFFICES ASSUME NEW y
                 PROVE  y \in Within(kids, b, at, 0 + 1) <=>
                          y = b \/ \E k \in kids[b] : y \in Within(kids, k, at, 0)
      OBVIOUS
    <3>1. \A p : p \in Within(kids, b, at, 0) <=> p = b
      BY FirstLevel
    <3>2. y \in Within(kids, b, at, 0 + 1) <=> y = b \/ y \in kids[b]
      <4>1. PICK z \in Nat : z = 0
        OBVIOUS
      <4>2. y \in Within(kids, b, at, z + 1) <=>
              \/ y \in Within(kids, b, at, z)
              \/ \E p \in Within(kids, b, at, z) : y \in kids[p]
        BY NextLevel
      <4> QED BY <3>1, <4>1, <4>2
    <3>3. \A k \in kids[b] : Within(kids, k, at, 0) = {k}
      BY <1>1, FirstLevel
    <3> QED BY <3>2, <3>3
  <2>3. PICK n \in Nat : m = n + 1
    <3>1. m # 0
      BY <2>1, <2>2
    <3>2. m - 1 \in Nat /\ m = (m - 1) + 1
      BY <2>1, <3>1
    <3> QED BY <3>2
  <2>4. Good(n)
    BY <2>1, <2>3
  <2>5. Good(n + 1)
    <3> SUFFICES ASSUME NEW y
                 PROVE  y \in Within(kids, b, at, (n + 1) + 1) <=>
                          y = b \/ \E k \in kids[b] : y \in Within(kids, k, at, n + 1)
      OBVIOUS
    <3>1. n + 1 \in Nat
      OBVIOUS
    <3>2. y \in Within(kids, b, at, (n + 1) + 1) <=>
            \/ y \in Within(kids, b, at, n + 1)
            \/ \E p \in Within(kids, b, at, n + 1) : y \in kids[p]
      BY <3>1, NextLevel
    <3>3. ASSUME NEW k \in kids[b]
          PROVE  y \in Within(kids, k, at, n + 1) <=>
                   \/ y \in Within(kids, k, at, n)
                   \/ \E p \in Within(kids, k, at, n) : y \in kids[p]
      BY <1>1, NextLevel
    <3>4. \A k \in kids[b] : k \in Within(kids, k, at, n)
      <4> TAKE k \in kids[b]
      <4>1. PICK z \in Nat : z = 0
        OBVIOUS
      <4>2. k \in Within(kids, k, at, z) /\ z =< n
        BY <1>1, <4>1, FirstLevel
      <4> QED BY <1>1, <4>2, WithinGrows
    <3>5. ASSUME NEW p \in Within(kids, b, at, n + 1), y \in kids[p]
          PROVE  \E k \in kids[b] : y \in Within(kids, k, at, n + 1)
      <4>1. CASE p = b
        <5>1. y \in Within(kids, y, at, n) /\ y \in kids[b]
          BY <3>4, <3>5, <4>1
        <5> QED BY <3>3, <5>1
      <4>2. CASE p # b
        <5>1. PICK k \in kids[b] : p \in Within(kids, k, at, n)
          BY <2>4, <4>2
        <5> QED BY <3>3, <3>5, <5>1
      <4> QED BY <4>1, <4>2
    <3>6. ASSUME NEW k \in kids[b], y \in Within(kids, k, at, n + 1)
          PROVE  y \in Within(kids, b, at, (n + 1) + 1)
      <4>1. CASE y \in Within(kids, k, at, n)
        BY <2>4, <3>2, <4>1
      <4>2. CASE \E p \in Within(kids, k, at, n) : y \in kids[p]
        BY <2>4, <3>2, <4>2
      <4> QED BY <3>3, <3>6, <4>1, <4>2
    <3> QED BY <2>4, <3>2, <3>3, <3>5, <3>6
  <2> QED BY <2>1, <2>3, <2>5
<1>3. Good(d)
  BY <1>2
<1> QED BY <1>3

\* What a block is below, and what is below it, at any depth.
Below(kids, b, at) == {x \in Blocks : \E d \in Nat : x \in Within(kids, b, at, d)}

\* What is below a block is live, below a live block, and, unless it is the
\* block, a child of what is below it too.
LEMMA BelowOf ==
  ASSUME NEW f, NEW at, NEW kids, TreeShape(f, at, kids), NEW b \in Blocks, NEW x \in Below(kids, b, at)
  PROVE  /\ x \in Blocks /\ ~f[x].deleted /\ ~f[b].deleted
         /\ x # b => f[x].parent \in Below(kids, b, at) /\ x \in kids[f[x].parent]
<1>1. PICK d \in Nat : x \in Within(kids, b, at, d)
  BY DEF Below
<1>2. /\ x \in Blocks /\ ~f[x].deleted /\ ~f[b].deleted
      /\ x # b => /\ f[x].parent \in Within(kids, b, at, d)
                  /\ f[x].parent \in Blocks /\ x \in kids[f[x].parent]
  BY <1>1, WithinOf
<1> QED BY <1>2 DEF Below

\* No block is below its children: a set that is closed under parents is empty.
LEMMA NoBlockIsBelowItsChildren ==
  ASSUME NEW f, NEW at, NEW kids, TreeShape(f, at, kids), WellFormed(f),
         NEW b \in Blocks, NEW k \in kids[b]
  PROVE  b \notin Below(kids, k, at)
<1> SUFFICES ASSUME b \in Below(kids, k, at)
             PROVE  FALSE
  OBVIOUS
<1>1. k \in Blocks /\ ~f[k].deleted /\ f[k].parent = b /\ ~f[b].deleted
  BY DEF TreeShape
<1> DEFINE S == {y \in Below(kids, k, at) : b \in Below(kids, y, at)}
<1>2. \A y \in S : y \in Blocks /\ ~f[y].deleted
  BY <1>1, BelowOf
<1>3. \A y \in Blocks : ~f[y].deleted => y \in Below(kids, y, at)
  <2> TAKE y \in Blocks
  <2>1. PICK z \in Nat : z = 0
    OBVIOUS
  <2>2. ~f[y].deleted => y \in Within(kids, y, at, z)
    BY <2>1, FirstLevel
  <2> QED BY <2>2 DEF Below
<1>4. k \in S
  BY <1>1, <1>3
<1>5. ASSUME NEW y \in S
      PROVE  f[y].parent \in S
  <2>1. CASE y = k
    BY <1>1, <1>3, <2>1
  <2>2. CASE y # k
    <3>1. PICK p : p = f[y].parent
      OBVIOUS
    <3>2. p \in Below(kids, k, at) /\ y \in kids[p] /\ p \in Blocks
      BY <1>1, <2>2, <3>1, BelowOf DEF Below
    <3>3. ~f[p].deleted
      BY <3>2 DEF TreeShape
    <3>4. PICK d \in Nat : b \in Within(kids, y, at, d)
      BY DEF Below
    <3>5. b \in Within(kids, p, at, d + 1) /\ d + 1 \in Nat
      BY <3>2, <3>3, <3>4, WithinSplits
    <3>6. b \in Below(kids, p, at)
      BY <3>5 DEF Below
    <3> QED BY <3>1, <3>2, <3>6
  <2> QED BY <2>1, <2>2
<1>6. S \in SUBSET LiveBlocks(f) /\ S # {}
  BY <1>2, <1>4 DEF LiveBlocks
<1> HIDE DEF S
<1>7. \E y \in S : f[y].parent \notin S
  BY <1>6 DEF WellFormed, Acyclic
<1> QED BY <1>5, <1>7

\* What is below one child of a block is below no other.
LEMMA ChildrenAreApart ==
  ASSUME NEW f, NEW at, NEW kids, TreeShape(f, at, kids), WellFormed(f),
         NEW b \in Blocks, NEW k \in kids[b], NEW l \in kids[b], k # l
  PROVE  Below(kids, k, at) \cap Below(kids, l, at) = {}
<1> DEFINE S == Below(kids, k, at) \cap Below(kids, l, at)
<1> SUFFICES ASSUME S # {}
             PROVE  FALSE
  OBVIOUS
<1>1. /\ k \in Blocks /\ ~f[k].deleted /\ f[k].parent = b
      /\ l \in Blocks /\ ~f[l].deleted /\ f[l].parent = b
  BY DEF TreeShape
<1>2. \A y \in S : y \in Blocks /\ ~f[y].deleted
  BY <1>1, BelowOf
<1>3. S \in SUBSET LiveBlocks(f)
  BY <1>2 DEF LiveBlocks
<1>4. PICK y \in S : f[y].parent \notin S
  <2> HIDE DEF S
  <2> QED BY <1>3 DEF WellFormed, Acyclic
<1>5. y = k \/ y = l
  BY <1>1, <1>4, BelowOf
<1>6. CASE y = k
  <2>1. b \in Below(kids, l, at)
    BY <1>1, <1>6, BelowOf
  <2> QED BY <2>1, NoBlockIsBelowItsChildren
<1>7. CASE y = l
  <2>1. b \in Below(kids, k, at)
    BY <1>1, <1>7, BelowOf
  <2> QED BY <2>1, NoBlockIsBelowItsChildren
<1> QED BY <1>5, <1>6, <1>7

-----------------------------------------------------------------------------
(***************************************************************************)
(* Lists that are joined.                                                  *)
(***************************************************************************)
\* What comes earlier in a list is related to what comes later.
Chained(list, R) == \A i, j \in 1 .. Len(list) : i < j => <<list[i], list[j]>> \in R

\* Two chained lists are chained together when all of one come before the other.
LEMMA ChainedOn ==
  ASSUME NEW S, NEW x \in Seq(S), NEW y \in Seq(S), NEW R, Chained(x, R), Chained(y, R),
         \A a \in ToSet(x), b \in ToSet(y) : <<a, b>> \in R
  PROVE  Chained(x \o y, R) /\ ToSet(x \o y) = ToSet(x) \cup ToSet(y)
<1>1. Len(x) \in Nat /\ Len(y) \in Nat /\ Len(x \o y) = Len(x) + Len(y) /\ x \o y \in Seq(S)
  OBVIOUS
<1>2. /\ \A n \in 1 .. Len(x) : n \in 1 .. Len(x \o y) /\ (x \o y)[n] = x[n]
      /\ \A n \in 1 .. Len(y) : n + Len(x) \in 1 .. Len(x \o y) /\ (x \o y)[n + Len(x)] = y[n]
      /\ \A n \in 1 .. Len(x \o y) : ~(n =< Len(x)) => (x \o y)[n] = y[n - Len(x)]
  BY <1>1
<1>3. /\ ToSet(x) = {x[i] : i \in 1 .. Len(x)} /\ ToSet(y) = {y[i] : i \in 1 .. Len(y)}
      /\ ToSet(x \o y) = {(x \o y)[i] : i \in 1 .. Len(x \o y)}
  BY <1>1 DEF ToSet
<1>4. Chained(x \o y, R)
  <2> SUFFICES ASSUME NEW i \in 1 .. Len(x \o y), NEW j \in 1 .. Len(x \o y), i < j
               PROVE  <<(x \o y)[i], (x \o y)[j]>> \in R
    BY DEF Chained
  <2>1. CASE j =< Len(x)
    <3>1. i \in 1 .. Len(x) /\ j \in 1 .. Len(x)
      BY <1>1, <2>1
    <3> QED BY <1>2, <3>1 DEF Chained
  <2>2. CASE ~(j =< Len(x)) /\ i =< Len(x)
    <3>1. j - Len(x) \in 1 .. Len(y) /\ i \in 1 .. Len(x)
      BY <1>1, <2>2
    <3>2. x[i] \in ToSet(x) /\ y[j - Len(x)] \in ToSet(y)
      BY <1>3, <3>1
    <3> QED BY <1>2, <2>2, <3>1, <3>2
  <2>3. CASE ~(i =< Len(x))
    <3>1. /\ j - Len(x) \in 1 .. Len(y) /\ i - Len(x) \in 1 .. Len(y) /\ i - Len(x) < j - Len(x)
          /\ ~(j =< Len(x))
      BY <1>1, <2>3
    <3> QED BY <1>2, <2>3, <3>1 DEF Chained
  <2> QED BY <1>1, <2>1, <2>2, <2>3
<1>5. ToSet(x \o y) \subseteq ToSet(x) \cup ToSet(y)
  <2> SUFFICES ASSUME NEW n \in 1 .. Len(x \o y)
               PROVE  (x \o y)[n] \in ToSet(x) \cup ToSet(y)
    BY <1>3
  <2>1. CASE n =< Len(x)
    <3>1. n \in 1 .. Len(x)
      BY <1>1, <2>1
    <3> QED BY <1>2, <1>3, <3>1
  <2>2. CASE ~(n =< Len(x))
    <3>1. n - Len(x) \in 1 .. Len(y)
      BY <1>1, <2>2
    <3> QED BY <1>2, <1>3, <2>2, <3>1
  <2> QED BY <2>1, <2>2
<1>6. ToSet(x) \cup ToSet(y) \subseteq ToSet(x \o y)
  BY <1>2, <1>3
<1> QED BY <1>4, <1>5, <1>6

\* The parts of a flattened list: each joins one list more.
IsParts(part, seqs) ==
  /\ part[0] = <<>>
  /\ \A i \in 1 .. Len(seqs) : part[i] = part[i - 1] \o seqs[i]
  /\ FlattenSeq(seqs) = part[Len(seqs)]

PartsGive(S, seqs) == \E part \in [0 .. Len(seqs) -> Seq(S)] : IsParts(part, seqs)

\* Every list of lists has parts, each longer by the next list.
LEMMA PartsOf ==
  ASSUME NEW S, NEW seqs \in Seq(Seq(S))
  PROVE  PartsGive(S, seqs)
<1>1. Len(seqs) \in Nat /\ \A i \in 1 .. Len(seqs) : seqs[i] \in Seq(S)
  OBVIOUS
<1>2. CASE Len(seqs) = 0
  <2>1. seqs = <<>> /\ FlattenSeq(seqs) = seqs
    BY <1>2, EmptySeq DEF FlattenSeq
  <2>2. [i \in 0 .. Len(seqs) |-> <<>>] \in [0 .. Len(seqs) -> Seq(S)]
    BY EmptySeq
  <2>3. IsParts([i \in 0 .. Len(seqs) |-> <<>>], seqs)
    BY <1>2, <2>1 DEF IsParts
  <2> QED BY <2>2, <2>3 DEF PartsGive
<1>3. CASE Len(seqs) # 0
  <2> DEFINE f == CHOOSE g : IsFlatten(g, seqs)
             len == Len(seqs)
  <2>1. FlattenSeq(seqs) = f[len]
    BY <1>3 DEF FlattenSeq, IsFlatten
  <2>2. IsFlatten(f, seqs)
    BY <1>1, <1>3, FlattenExists
  <2> HIDE DEF f
  <2>3. \A i \in 1 .. len : f[i] = IF i = 1 THEN seqs[i] ELSE f[i - 1] \o seqs[i]
    BY <1>1, <2>2, FlattenStep
  <2> DEFINE Bad == {i \in 1 .. len : f[i] \notin Seq(S)}
  <2>4. Bad = {}
    <3> SUFFICES ASSUME Bad # {}
                 PROVE  FALSE
      OBVIOUS
    <3>1. PICK m \in Bad : \A n \in Bad : m =< n
      <4>1. Bad \in SUBSET Nat
        OBVIOUS
      <4> HIDE DEF Bad
      <4> QED BY <4>1, LeastNumber
    <3>2. m # 1
      BY <1>1, <2>3, <3>1
    <3>3. m \in 1 .. len /\ m - 1 \in 1 .. len /\ ~(m =< m - 1)
      BY <1>1, <3>1, <3>2
    <3>4. f[m - 1] \in Seq(S)
      BY <3>1, <3>3
    <3>5. f[m] = f[m - 1] \o seqs[m] /\ seqs[m] \in Seq(S)
      BY <1>1, <2>3, <3>2, <3>3
    <3>6. f[m] \in Seq(S)
      BY <3>4, <3>5, ConcatProperties
    <3> QED BY <3>1, <3>6
  <2>5. \A i \in 1 .. len : f[i] \in Seq(S)
    BY <2>4
  <2> DEFINE part == [i \in 0 .. len |-> IF i = 0 THEN <<>> ELSE f[i]]
  <2>6. part \in [0 .. len -> Seq(S)]
    BY <2>5, EmptySeq
  <2>7. part[0] = <<>> /\ part[len] = f[len] /\ \A i \in 1 .. len : part[i] = f[i]
    BY <1>1, <1>3
  <2>8. ASSUME NEW i \in 1 .. len
        PROVE  part[i] = part[i - 1] \o seqs[i]
    <3>1. CASE i = 1
      <4>1. part[i] = seqs[i] /\ part[i - 1] = <<>> /\ seqs[i] \in Seq(S)
        BY <1>1, <2>3, <2>7, <3>1
      <4> HIDE DEF part
      <4> QED BY <4>1, ConcatEmptySeq
    <3>2. CASE i # 1
      <4>1. i - 1 \in 1 .. len
        BY <1>1, <3>2
      <4>2. part[i - 1] = f[i - 1] /\ part[i] = f[i] /\ f[i] = f[i - 1] \o seqs[i]
        BY <2>3, <2>7, <3>2, <4>1
      <4> QED BY <4>2
    <3> QED BY <3>1, <3>2
  <2> HIDE DEF part
  <2>9. IsParts(part, seqs)
    BY <2>1, <2>7, <2>8 DEF IsParts
  <2> QED BY <2>6, <2>9 DEF PartsGive
<1> QED BY <1>2, <1>3

\* What is in a flattened list is what is in its lists; it is in order when the
\* lists are, and what is in one is related to what is in the later ones.
FlatOrder(seqs, R) ==
  /\ \A i \in 1 .. Len(seqs) : Chained(seqs[i], R)
  /\ \A i, j \in 1 .. Len(seqs) : i < j =>
       \A a \in ToSet(seqs[i]), b \in ToSet(seqs[j]) : <<a, b>> \in R

IsFlat(flat, seqs, S, R) ==
  /\ flat \in Seq(S) /\ Chained(flat, R)
  /\ \A x : x \in ToSet(flat) <=> \E i \in 1 .. Len(seqs) : x \in ToSet(seqs[i])

\* Chained lists that come one after the other are chained when they are joined,
\* and have the members of all of them.
LEMMA FlatOf ==
  ASSUME NEW S, NEW seqs \in Seq(Seq(S)), NEW R, FlatOrder(seqs, R)
  PROVE  IsFlat(FlattenSeq(seqs), seqs, S, R)
<1>1. PICK len \in Nat : len = Len(seqs)
  OBVIOUS
<1>2. PICK part \in [0 .. len -> Seq(S)] : IsParts(part, seqs)
  BY <1>1, PartsOf DEF PartsGive
<1> DEFINE Good(n) == /\ Chained(part[n], R)
                      /\ \A x : x \in ToSet(part[n]) <=> \E i \in 1 .. n : x \in ToSet(seqs[i])
           Bad == {n \in 0 .. len : ~Good(n)}
<1>3. Bad = {}
  <2> SUFFICES ASSUME Bad # {}
               PROVE  FALSE
    OBVIOUS
  <2>1. PICK m \in Bad : \A n \in Bad : m =< n
    <3>1. Bad \in SUBSET Nat
      OBVIOUS
    <3> HIDE DEF Bad
    <3> QED BY <3>1, LeastNumber
  <2>2. Good(0)
    <3>1. part[0] = <<>>
      BY <1>2 DEF IsParts
    <3> QED BY <3>1 DEF Chained, ToSet
  <2>3. m \in 1 .. len /\ m - 1 \in 0 .. len /\ ~(m =< m - 1)
    BY <2>1, <2>2
  <2>4. Good(m - 1)
    BY <2>1, <2>3
  <2>5. PICK x, y : x = part[m - 1] /\ y = seqs[m]
    OBVIOUS
  <2>6. x \in Seq(S) /\ y \in Seq(S) /\ part[m] = x \o y
    <3>1. m \in 1 .. Len(seqs)
      BY <1>1, <2>3
    <3>2. seqs[m] \in Seq(S)
      BY <3>1, ElementOfSeq
    <3>3. part[m] = part[m - 1] \o seqs[m]
      BY <1>2, <3>1 DEF IsParts
    <3>4. part[m - 1] \in Seq(S)
      BY <1>2, <2>3
    <3> QED BY <2>5, <3>2, <3>3, <3>4
  <2>7. Chained(x, R) /\ Chained(y, R)
    BY <1>1, <2>3, <2>4, <2>5 DEF FlatOrder
  <2>8. \A a \in ToSet(x), b \in ToSet(y) : <<a, b>> \in R
    <3> SUFFICES ASSUME NEW a \in ToSet(x), NEW b \in ToSet(y)
                 PROVE  <<a, b>> \in R
      OBVIOUS
    <3>1. PICK i \in 1 .. m - 1 : a \in ToSet(seqs[i])
      BY <2>4, <2>5
    <3>2. i \in 1 .. len /\ i < m
      BY <2>3
    <3> QED BY <1>1, <2>3, <2>5, <3>1, <3>2 DEF FlatOrder
  <2>9. Chained(part[m], R) /\ ToSet(part[m]) = ToSet(x) \cup ToSet(y)
    BY <2>6, <2>7, <2>8, ChainedOn
  <2>10. \A i : i \in 1 .. m <=> i \in 1 .. m - 1 \/ i = m
    BY <2>3
  <2>11. Good(m)
    BY <2>4, <2>5, <2>9, <2>10
  <2> QED BY <2>1, <2>11
<1>4. Good(len)
  <2>1. len \in 0 .. len
    BY <1>1
  <2> HIDE DEF Good
  <2> QED BY <1>3, <2>1
<1>5. FlattenSeq(seqs) = part[len] /\ part[len] \in Seq(S)
  BY <1>1, <1>2 DEF IsParts
<1> QED BY <1>1, <1>4, <1>5 DEF IsFlat

\* A list of lists that are not empty is no longer than they are together.
LEMMA FlatLength ==
  ASSUME NEW S, NEW seqs \in Seq(Seq(S)), \A i \in 1 .. Len(seqs) : Len(seqs[i]) # 0
  PROVE  Len(seqs) =< Len(FlattenSeq(seqs))
<1>1. PICK len \in Nat : len = Len(seqs)
  OBVIOUS
<1>2. PICK part \in [0 .. len -> Seq(S)] : IsParts(part, seqs)
  BY <1>1, PartsOf DEF PartsGive
<1> DEFINE Bad == {n \in 0 .. len : ~(n =< Len(part[n]))}
<1>3. Bad = {}
  <2> SUFFICES ASSUME Bad # {}
               PROVE  FALSE
    OBVIOUS
  <2>1. PICK m \in Bad : \A n \in Bad : m =< n
    <3>1. Bad \in SUBSET Nat
      OBVIOUS
    <3> HIDE DEF Bad
    <3> QED BY <3>1, LeastNumber
  <2>2. m # 0
    <3>1. part[0] = <<>>
      BY <1>2 DEF IsParts
    <3>2. Len(part[0]) = 0
      BY <3>1
    <3> QED BY <2>1, <3>2
  <2>3. m \in 1 .. len /\ m - 1 \in 0 .. len /\ ~(m =< m - 1)
    BY <2>1, <2>2
  <2>4. m - 1 =< Len(part[m - 1])
    BY <2>1, <2>3
  <2>5. part[m - 1] \in Seq(S) /\ seqs[m] \in Seq(S) /\ part[m] = part[m - 1] \o seqs[m]
    <3>1. m \in 1 .. Len(seqs)
      BY <1>1, <2>3
    <3>2. seqs[m] \in Seq(S)
      BY <3>1, ElementOfSeq
    <3>3. part[m] = part[m - 1] \o seqs[m]
      BY <1>2, <3>1 DEF IsParts
    <3>4. part[m - 1] \in Seq(S)
      BY <1>2, <2>3
    <3> QED BY <3>2, <3>3, <3>4
  <2>6. PICK k, l : k = Len(part[m - 1]) /\ l = Len(seqs[m])
    OBVIOUS
  <2>7. m =< Len(part[m])
    <3>1. k \in Nat /\ l \in Nat /\ Len(part[m]) = k + l
      BY <2>5, <2>6
    <3>2. l # 0
      BY <1>1, <2>3, <2>6
    <3>3. m - 1 =< k /\ m \in Int
      BY <2>3, <2>4, <2>6
    <3>4. m =< k + l
      BY <3>1, <3>2, <3>3
    <3> QED BY <3>1, <3>4
  <2> QED BY <2>1, <2>7
<1>4. FlattenSeq(seqs) = part[len]
  BY <1>1, <1>2 DEF IsParts
<1> QED BY <1>1, <1>3, <1>4

-----------------------------------------------------------------------------
(***************************************************************************)
(* Texts: a block and, after it, the texts of its children in their order. *)
(***************************************************************************)
\* Siblings come by position and then by id, each once.
IsList(list, S, at) ==
  /\ list \in Seq(Blocks) /\ \A x : x \in ToSet(list) <=> x \in S
  /\ \A i, j \in 1 .. Len(list) : i < j => list[i] # list[j] /\ InOrder(list[i], list[j], at)

\* Sorting by rank gives each block once, by position and then by id.
LEMMA ByRankOf ==
  ASSUME NEW f, NEW at, NEW kids, TreeShape(f, at, kids), NEW S \in SUBSET Blocks
  PROVE  IsList(ByRank(S, at), S, at)
<1>1. PICK R : R = {e \in S \X S : e[1] = e[2] \/ InOrder(e[1], e[2], at)}
  OBVIOUS
<1>2. PICK place : place = [b \in Blocks |-> f[b].position]
  OBVIOUS
<1>3. \A b \in Blocks : b \in Nat /\ place[b] \in Nat
  <2>1. \A b \in Blocks : f[b] \in Content
    BY DEF TreeShape
  <2>2. \A b \in Blocks : f[b].position \in Nat
    BY <2>1, BoundsAssumption DEF Content, ContentWith, Positions
  <2> QED BY <1>2, <2>2, BlocksAssumption
<1>4. \A x, y \in S : InOrder(x, y, at) <=> place[x] < place[y] \/ (place[x] = place[y] /\ x < y)
  BY <1>2 DEF InOrder, TreeShape
<1>5. \A x, y \in S : <<x, y>> \in R <=> x = y \/ InOrder(x, y, at)
  BY <1>1
<1>6. Orders(S, R)
  <2>1. \A x \in S : x \in Nat /\ place[x] \in Nat
    BY <1>3
  <2>2. \A x, y \in S : <<x, y>> \in R <=> place[x] < place[y] \/ (place[x] = place[y] /\ x =< y)
    <3> TAKE x, y \in S
    <3>1. <<x, y>> \in R <=> x = y \/ place[x] < place[y] \/ (place[x] = place[y] /\ x < y)
      BY <1>4, <1>5, Zenon
    <3>2. PICK p \in Nat, q \in Nat : p = place[x] /\ q = place[y]
      BY <2>1
    <3>3. x \in Nat /\ y \in Nat
      BY <2>1
    <3>4. (x = y \/ p < q \/ (p = q /\ x < y)) <=> (p < q \/ (p = q /\ x =< y))
      <4>1. x = y => p = q
        BY <3>2
      <4> QED BY <3>3, <4>1
    <3> QED BY <3>1, <3>2, <3>4
  <2>3. \A x \in S : <<x, x>> \in R
    BY <2>1, <2>2
  <2>4. \A x, y \in S : <<x, y>> \in R \/ <<y, x>> \in R
    <3> TAKE x, y \in S
    <3>1. PICK p \in Nat, q \in Nat : p = place[x] /\ q = place[y]
      BY <2>1
    <3>2. x \in Nat /\ y \in Nat
      BY <2>1
    <3>3. (p < q \/ (p = q /\ x =< y)) \/ (q < p \/ (q = p /\ y =< x))
      BY <3>2
    <3> QED BY <2>2, <3>1, <3>3
  <2>5. \A x, y \in S : <<x, y>> \in R /\ <<y, x>> \in R => x = y
    BY <2>1, <2>2
  <2>6. \A x, y, z \in S : <<x, y>> \in R /\ <<y, z>> \in R => <<x, z>> \in R
    BY <2>1, <2>2
  <2> QED BY <2>3, <2>4, <2>5, <2>6 DEF Orders
<1>7. IsFiniteSet(S)
  BY ReadsAssumption, FS_Subset
<1>8. PICK list : list = ByRank(S, at)
  OBVIOUS
<1>9. Ordered(S, R, list)
  BY <1>1, <1>6, <1>7, <1>8, SortedOf DEF ByRank
<1>10. list \in Seq(Blocks) /\ Len(list) \in Nat /\ \A i \in 1 .. Len(list) : list[i] \in S
  BY <1>9 DEF Ordered
<1>11. \A x : x \in ToSet(list) <=> x \in S
  <2>1. ToSet(list) = {list[i] : i \in 1 .. Len(list)}
    BY <1>10 DEF ToSet
  <2> QED BY <1>9, <1>10, <2>1 DEF Ordered
<1>12. \A i, j \in 1 .. Len(list) : i < j => list[i] # list[j] /\ InOrder(list[i], list[j], at)
  BY <1>5, <1>9, <1>10 DEF Ordered
<1> QED BY <1>8, <1>10, <1>11, <1>12 DEF IsList

-----------------------------------------------------------------------------
(***************************************************************************)
(* The text below a block: the block, then the texts of its children.      *)
(***************************************************************************)
TextOf(V, lists, b, d) ==
  <<b>> \o FlattenSeq([i \in DOMAIN lists[b] |-> V[d - 1][lists[b][i]]])

IsTexts(V, blocks, lists, n) ==
  \A b \in blocks : V[0][b] = <<>> /\ \A d \in 1 .. n : V[d][b] = TextOf(V, lists, b, d)

TextsGive(blocks, lists, n) ==
  \E V \in [0 .. n -> [blocks -> Seq(blocks)]] : IsTexts(V, blocks, lists, n)

\* The lists that are flattened.
LEMMA TextParts ==
  ASSUME NEW blocks, NEW list \in Seq(blocks), NEW g \in [blocks -> Seq(blocks)]
  PROVE  /\ [i \in DOMAIN list |-> g[list[i]]] \in Seq(Seq(blocks))
         /\ Len([i \in DOMAIN list |-> g[list[i]]]) = Len(list)
         /\ \A i \in 1 .. Len(list) : [j \in DOMAIN list |-> g[list[j]]][i] = g[list[i]]
<1>1. DOMAIN list = 1 .. Len(list) /\ Len(list) \in Nat
  OBVIOUS
<1>2. \A i \in 1 .. Len(list) : g[list[i]] \in Seq(blocks)
  <2> TAKE i \in 1 .. Len(list)
  <2>1. list[i] \in blocks
    BY ElementOfSeq
  <2> QED BY <2>1
<1>3. PICK n \in Nat : n = Len(list)
  BY <1>1
<1>4. [i \in 1 .. n |-> g[list[i]]] \in Seq(Seq(blocks))
  BY <1>2, <1>3
<1> QED BY <1>1, <1>3, <1>4

\* The text of a block is a list of blocks when the texts of the others are.
LEMMA TextIsSeq ==
  ASSUME NEW blocks, NEW list \in Seq(blocks), NEW g \in [blocks -> Seq(blocks)], NEW b \in blocks
  PROVE  <<b>> \o FlattenSeq([i \in DOMAIN list |-> g[list[i]]]) \in Seq(blocks)
<1>1. PICK seqs : seqs = [i \in DOMAIN list |-> g[list[i]]]
  OBVIOUS
<1>2. seqs \in Seq(Seq(blocks))
  BY <1>1, TextParts
<1>3. PICK part \in [0 .. Len(seqs) -> Seq(blocks)] : IsParts(part, seqs)
  BY <1>2, PartsOf DEF PartsGive
<1>4. Len(seqs) \in 0 .. Len(seqs)
  BY <1>2
<1>5. FlattenSeq(seqs) \in Seq(blocks)
  BY <1>3, <1>4 DEF IsParts
<1>6. <<b>> \in Seq(blocks)
  OBVIOUS
<1> QED BY <1>1, <1>5, <1>6, ConcatProperties

\* The texts of all blocks, down to each depth, exist.
LEMMA TextsExist ==
  ASSUME NEW blocks, NEW lists \in [blocks -> Seq(blocks)], NEW n \in Nat
  PROVE  TextsGive(blocks, lists, n)
<1> DEFINE D == [blocks -> Seq(blocks)]
           More(g) == [b \in blocks |-> <<b>> \o FlattenSeq([i \in DOMAIN lists[b] |-> g[lists[b][i]]])]
           base == [b \in blocks |-> <<>>]
           step == [g \in D |-> More(g)]
<1>1. ASSUME NEW g \in D
      PROVE  More(g) \in D
  <2>1. \A b \in blocks : lists[b] \in Seq(blocks)
    OBVIOUS
  <2>2. \A b \in blocks : <<b>> \o FlattenSeq([i \in DOMAIN lists[b] |-> g[lists[b][i]]]) \in Seq(blocks)
    BY <2>1, TextIsSeq
  <2> QED BY <2>2
<1>2. base \in D
  BY EmptySeq
<1>3. \A b \in blocks : base[b] = <<>>
  OBVIOUS
<1> HIDE DEF More
<1>4. step \in [D -> D]
  BY <1>1
<1> HIDE DEF base
<1>5. PICK V \in [0 .. n -> D] : IsTurns(V, n, base, step)
  <2> HIDE DEF D, step
  <2> QED BY <1>2, <1>4, TurnsExist
<1>6. ASSUME NEW b \in blocks, NEW d \in 1 .. n
      PROVE  V[d][b] = TextOf(V, lists, b, d)
  <2>1. d - 1 \in 0 .. n
    OBVIOUS
  <2>2. V[d] = More(V[d - 1])
    BY <1>5, <2>1 DEF IsTurns
  <2> QED BY <2>2 DEF More, TextOf
<1>7. IsTexts(V, blocks, lists, n)
  BY <1>3, <1>5, <1>6 DEF IsTexts, IsTurns
<1> QED BY <1>5, <1>7 DEF TextsGive

\* The export takes the text below the root, of the blocks it was given.
ExportGive(blocks, root, at, n) ==
  \E V : /\ IsTexts(V, blocks, [b \in blocks |-> Bucket(blocks, b, at)], n)
         /\ root \in blocks => Exported(blocks, root, at, n) = V[n][root]

\* The export of some blocks is one of their texts.
LEMMA ExportedOf ==
  ASSUME NEW f, NEW at, NEW kids, TreeShape(f, at, kids), NEW blocks \in SUBSET Blocks,
         NEW root, NEW n \in Nat
  PROVE  ExportGive(blocks, root, at, n)
<1>1. PICK lists : lists = [b \in blocks |-> Bucket(blocks, b, at)]
  OBVIOUS
<1>2. ASSUME NEW b \in blocks
      PROVE  Bucket(blocks, b, at) \in Seq(blocks)
  <2>1. PICK S : S = {x \in blocks : ContentAt(x, at).parent = b}
    OBVIOUS
  <2>2. PICK list : list = ByRank(S, at)
    OBVIOUS
  <2>3. S \in SUBSET Blocks /\ S \in SUBSET blocks
    BY <2>1
  <2>4. IsList(list, S, at)
    BY <2>2, <2>3, ByRankOf
  <2>5. list \in Seq(Blocks) /\ \A x : x \in ToSet(list) <=> x \in S
    BY <2>4 DEF IsList
  <2>6. \A i \in 1 .. Len(list) : list[i] \in ToSet(list)
    BY <2>5 DEF ToSet
  <2>7. \A i \in 1 .. Len(list) : list[i] \in blocks
    BY <2>3, <2>5, <2>6
  <2>8. list \in Seq(blocks)
    BY <2>5, <2>7
  <2>9. Bucket(blocks, b, at) = ByRank(S, at)
    BY <2>1 DEF Bucket
  <2> QED BY <2>2, <2>8, <2>9
<1>3. lists \in [blocks -> Seq(blocks)]
  BY <1>1, <1>2
<1>4. PICK V \in [0 .. n -> [blocks -> Seq(blocks)]] : IsTexts(V, blocks, lists, n)
  BY <1>3, TextsExist DEF TextsGive
<1> DEFINE Text(g, d, b) == <<b>> \o FlattenSeq([i \in DOMAIN Bucket(blocks, b, at) |-> g[d - 1][Bucket(blocks, b, at)[i]]])
           Body(g) == [d \in 0 .. n |-> [b \in blocks |-> IF d = 0 THEN <<>> ELSE Text(g, d, b)]]
           visit == CHOOSE g : g = Body(g)
<1>5. \A g, d : \A b \in blocks : Text(g, d, b) = TextOf(g, lists, b, d)
  BY <1>1 DEF TextOf
<1>6. root \in blocks => Exported(blocks, root, at, n) = visit[n][root]
  BY DEF Exported
<1> HIDE DEF Text
<1>7. V = Body(V)
  <2>1. ASSUME NEW d \in 0 .. n, NEW b \in blocks
        PROVE  V[d][b] = IF d = 0 THEN <<>> ELSE Text(V, d, b)
    BY <1>4, <1>5 DEF IsTexts
  <2>2. \A d \in 0 .. n : V[d] = [b \in blocks |-> IF d = 0 THEN <<>> ELSE Text(V, d, b)]
    BY <1>4, <2>1
  <2> QED BY <1>4, <2>2
<1>8. visit = Body(visit)
  <2> HIDE DEF Body
  <2> QED BY <1>7
<1> HIDE DEF visit
<1>9. \A d \in 0 .. n : \A b \in blocks : visit[d][b] = IF d = 0 THEN <<>> ELSE Text(visit, d, b)
  <2>1. \A d \in 0 .. n : visit[d] = [b \in blocks |-> IF d = 0 THEN <<>> ELSE Text(visit, d, b)]
    BY <1>8
  <2> QED BY <2>1
<1>10. IsTexts(visit, blocks, lists, n)
  BY <1>5, <1>9 DEF IsTexts
<1> QED BY <1>1, <1>6, <1>10 DEF ExportGive

-----------------------------------------------------------------------------
(***************************************************************************)
(* The text of a tree that is well formed is in reading order.             *)
(***************************************************************************)
\* The children of each block, listed.
SiblingLists(lists, kids, at) ==
  /\ lists \in [Blocks -> Seq(Blocks)]
  /\ \A b \in Blocks : lists[b] = Siblings(b, at) /\ IsList(lists[b], kids[b], at)

\* The store lists the children of each block in order, each once.
LEMMA SiblingsOf ==
  ASSUME NEW f, NEW at, NEW kids, TreeShape(f, at, kids)
  PROVE  SiblingLists([b \in Blocks |-> Siblings(b, at)], kids, at)
<1>1. ASSUME NEW b \in Blocks
      PROVE  Siblings(b, at) \in Seq(Blocks) /\ IsList(Siblings(b, at), kids[b], at)
  <2>1. kids[b] \in SUBSET Blocks /\ KidsAt(b, at) = kids[b]
    BY DEF TreeShape
  <2>2. IsList(ByRank(kids[b], at), kids[b], at)
    BY <2>1, ByRankOf
  <2>3. IsList(Siblings(b, at), kids[b], at)
    BY <2>1, <2>2 DEF Siblings
  <2> QED BY <2>3 DEF IsList
<1>2. PICK lists : lists = [b \in Blocks |-> Siblings(b, at)]
  OBVIOUS
<1>3. lists \in [Blocks -> Seq(Blocks)] /\ \A b \in Blocks : lists[b] = Siblings(b, at)
  BY <1>1, <1>2
<1> QED BY <1>1, <1>2, <1>3 DEF SiblingLists

\* Reading order between different blocks.
Strictly(kids, at) == {e \in ReadingOrder(kids, at) : e[1] # e[2]}

\* A block comes before what is below it.
LEMMA OrderDown ==
  ASSUME NEW f, NEW at, NEW kids, TreeShape(f, at, kids), NEW a \in Blocks,
         NEW d \in Nat, d =< Cardinality(Blocks), NEW x \in Within(kids, a, at, d), x # a
  PROVE  <<a, x>> \in Strictly(kids, at)
<1>1. Cardinality(Blocks) \in Nat
  BY ReadsAssumption, FS_CardinalityType
<1>2. x \in Within(kids, a, at, Cardinality(Blocks))
  BY <1>1, WithinGrows
<1>3. PICK below : below = [z \in Blocks |-> Within(kids, z, at, Cardinality(Blocks))]
  OBVIOUS
<1>4. PICK Down : Down = UNION {{z} \X below[z] : z \in Blocks}
  OBVIOUS
<1>5. <<a, x>> \in Down
  BY <1>2, <1>3, <1>4
<1>6. Down \subseteq ReadingOrder(kids, at)
  BY <1>3, <1>4, Zenon DEF ReadingOrder
<1> QED BY <1>5, <1>6 DEF Strictly

BelowAll(kids, at) == [x \in Blocks |-> Within(kids, x, at, Cardinality(Blocks))]

Downward(kids, at) == UNION {{a} \X BelowAll(kids, at)[a] : a \in Blocks}

Beside(kids, at) == UNION {{e \in kids[p] \X kids[p] : InOrder(e[1], e[2], at)} : p \in Blocks}

Across(kids, at) ==
  UNION {BelowAll(kids, at)[e[1]] \X BelowAll(kids, at)[e[2]] : e \in Beside(kids, at)}

\* Reading order has what is below one sibling before what is below the next.
LEMMA OrderHasAcross ==
  ASSUME NEW kids, NEW at
  PROVE  Across(kids, at) \subseteq ReadingOrder(kids, at)
<1>1. ReadingOrder(kids, at) = Downward(kids, at) \cup Across(kids, at)
  BY DEF ReadingOrder, BelowAll, Beside, Across, Downward
<1> QED BY <1>1

\* What is below a block comes before what is below a later sibling.
LEMMA OrderAcross ==
  ASSUME NEW f, NEW at, NEW kids, TreeShape(f, at, kids), NEW p \in Blocks,
         NEW k \in kids[p], NEW l \in kids[p], InOrder(k, l, at),
         NEW d \in Nat, d =< Cardinality(Blocks),
         NEW x \in Within(kids, k, at, d), NEW y \in Within(kids, l, at, d), x # y
  PROVE  <<x, y>> \in Strictly(kids, at)
<1>1. Cardinality(Blocks) \in Nat
  BY ReadsAssumption, FS_CardinalityType
<1>2. k \in Blocks /\ l \in Blocks
  BY DEF TreeShape
<1>3. PICK below : below = BelowAll(kids, at)
  OBVIOUS
<1>4. x \in below[k] /\ y \in below[l]
  <2>1. x \in Within(kids, k, at, Cardinality(Blocks)) /\ y \in Within(kids, l, at, Cardinality(Blocks))
    BY <1>1, <1>2, WithinGrows
  <2> QED BY <1>2, <1>3, <2>1 DEF BelowAll
<1>5. PICK beside : beside = Beside(kids, at)
  OBVIOUS
<1>6. <<k, l>> \in beside
  BY <1>5 DEF Beside
<1>7. PICK across : across = UNION {below[e[1]] \X below[e[2]] : e \in beside}
  OBVIOUS
<1>8. <<x, y>> \in ReadingOrder(kids, at)
  <2>1. <<x, y>> \in across
    BY <1>4, <1>6, <1>7
  <2>2. across \subseteq ReadingOrder(kids, at)
    BY <1>3, <1>5, <1>7, OrderHasAcross DEF Across
  <2> QED BY <2>1, <2>2
<1> QED BY <1>8 DEF Strictly

\* A text in reading order of what is below a block.
IsText(text, kids, at, b, d) ==
  /\ Chained(text, Strictly(kids, at))
  /\ \A x : x \in ToSet(text) <=> x \in Within(kids, b, at, d)

\* The texts of the children of a block, each of a part of what is below it.
ChildTexts(g, sub, kids, at, b, d) ==
  \A k \in kids[b] : /\ Chained(g[k], Strictly(kids, at))
                     /\ \A x : x \in ToSet(g[k]) <=> x \in sub[k]
                     /\ sub[k] \subseteq Within(kids, k, at, d)

\* A block followed by the texts of its children, in order, is its text.
LEMMA TextStep ==
  ASSUME NEW f, NEW at, NEW kids, TreeShape(f, at, kids), WellFormed(f), NEW b \in Blocks,
         NEW list \in Seq(Blocks), IsList(list, kids[b], at), NEW g \in [Blocks -> Seq(Blocks)],
         NEW sub, NEW e \in Nat, e =< Cardinality(Blocks), ChildTexts(g, sub, kids, at, b, e),
         NEW d \in Nat, d =< Cardinality(Blocks),
         \A x : x \in Within(kids, b, at, d) <=> x = b \/ \E k \in kids[b] : x \in sub[k]
  PROVE  IsText(<<b>> \o FlattenSeq([i \in DOMAIN list |-> g[list[i]]]), kids, at, b, d)
<1>1. PICK R : R = Strictly(kids, at)
  OBVIOUS
<1>2. PICK seqs : seqs = [i \in DOMAIN list |-> g[list[i]]]
  OBVIOUS
<1>3. /\ seqs \in Seq(Seq(Blocks)) /\ Len(seqs) = Len(list) /\ Len(list) \in Nat
      /\ \A i \in 1 .. Len(list) : seqs[i] = g[list[i]]
  <2>1. /\ [i \in DOMAIN list |-> g[list[i]]] \in Seq(Seq(Blocks))
        /\ Len([i \in DOMAIN list |-> g[list[i]]]) = Len(list)
        /\ \A i \in 1 .. Len(list) : [j \in DOMAIN list |-> g[list[j]]][i] = g[list[i]]
    BY TextParts
  <2>2. Len(list) \in Nat
    OBVIOUS
  <2> QED BY <1>2, <2>1, <2>2, Zenon
<1>4. /\ \A i \in 1 .. Len(list) : list[i] \in kids[b]
      /\ \A k \in kids[b] : \E i \in 1 .. Len(list) : list[i] = k
  <2>1. ToSet(list) = {list[i] : i \in 1 .. Len(list)}
    BY DEF ToSet
  <2> QED BY <2>1 DEF IsList
<1>5. \A k \in kids[b] : \A x \in sub[k] : x \in Below(kids, k, at)
  <2> TAKE k \in kids[b]
  <2>1. k \in Blocks
    BY DEF TreeShape
  <2>2. sub[k] \subseteq Within(kids, k, at, e) /\ Within(kids, k, at, e) \in SUBSET Blocks
    BY <2>1, NextLevel DEF ChildTexts
  <2> QED BY <2>2 DEF Below
<1>6. FlatOrder(seqs, R)
  <2>1. \A i \in 1 .. Len(seqs) : Chained(seqs[i], R)
    BY <1>1, <1>3, <1>4 DEF ChildTexts
  <2>2. ASSUME NEW i \in 1 .. Len(seqs), NEW j \in 1 .. Len(seqs), i < j,
               NEW x \in ToSet(seqs[i]), NEW y \in ToSet(seqs[j])
        PROVE  <<x, y>> \in R
    <3>1. PICK k, l : k = list[i] /\ l = list[j]
      OBVIOUS
    <3>2. k \in kids[b] /\ l \in kids[b] /\ k # l /\ InOrder(k, l, at)
      BY <1>3, <1>4, <2>2, <3>1 DEF IsList
    <3>3. x \in sub[k] /\ y \in sub[l]
      BY <1>3, <3>1, <3>2 DEF ChildTexts
    <3>4. x # y
      BY <1>5, <3>2, <3>3, ChildrenAreApart
    <3>5. x \in Within(kids, k, at, e) /\ y \in Within(kids, l, at, e)
      BY <3>2, <3>3 DEF ChildTexts
    <3> QED BY <1>1, <3>2, <3>4, <3>5, OrderAcross
  <2> QED BY <2>1, <2>2 DEF FlatOrder
<1>7. PICK flat : flat = FlattenSeq(seqs)
  OBVIOUS
<1>8. IsFlat(flat, seqs, Blocks, R)
  BY <1>3, <1>6, <1>7, FlatOf
<1>9. flat \in Seq(Blocks) /\ Chained(flat, R)
  BY <1>8 DEF IsFlat
<1>10. \A x : x \in ToSet(flat) <=> \E k \in kids[b] : x \in sub[k]
  <2>1. \A i \in 1 .. Len(list) : \A x : x \in ToSet(seqs[i]) <=> x \in sub[list[i]]
    BY <1>3, <1>4 DEF ChildTexts
  <2>2. \A x : x \in ToSet(flat) <=> \E i \in 1 .. Len(list) : x \in ToSet(seqs[i])
    BY <1>3, <1>8 DEF IsFlat
  <2> QED BY <1>4, <2>1, <2>2
<1>11. \A y \in ToSet(flat) : <<b, y>> \in R
  <2> TAKE y \in ToSet(flat)
  <2>1. PICK k \in kids[b] : y \in sub[k]
    BY <1>10
  <2>2. y \in Within(kids, b, at, d)
    BY <2>1
  <2>3. y # b
    BY <1>5, <2>1, NoBlockIsBelowItsChildren
  <2> QED BY <1>1, <2>2, <2>3, OrderDown
<1>12. PICK one : one = <<b>>
  OBVIOUS
<1>13. one \in Seq(Blocks) /\ Chained(one, R) /\ ToSet(one) = {b}
  BY <1>12 DEF Chained, ToSet
<1>14. \A x \in ToSet(one), y \in ToSet(flat) : <<x, y>> \in R
  BY <1>11, <1>13
<1>15. Chained(one \o flat, R) /\ ToSet(one \o flat) = ToSet(one) \cup ToSet(flat)
  BY <1>9, <1>13, <1>14, ChainedOn
<1>16. \A x : x \in ToSet(one \o flat) <=> x \in Within(kids, b, at, d)
  BY <1>10, <1>13, <1>15
<1>17. IsText(one \o flat, kids, at, b, d)
  BY <1>1, <1>15, <1>16 DEF IsText
<1> QED BY <1>2, <1>7, <1>12, <1>17

\* The text below a live block has each block down to the depth.
LEMMA TextsAre ==
  ASSUME NEW f, NEW at, NEW kids, TreeShape(f, at, kids), WellFormed(f),
         NEW lists, SiblingLists(lists, kids, at), NEW n \in Nat, n =< Cardinality(Blocks),
         NEW V \in [0 .. n -> [Blocks -> Seq(Blocks)]], IsTexts(V, Blocks, lists, n),
         NEW d \in Nat, d + 1 =< n, NEW b \in Blocks, ~f[b].deleted
  PROVE  IsText(V[d + 1][b], kids, at, b, d)
<1> DEFINE Good(c) == \A x \in Blocks : ~f[x].deleted => IsText(V[c + 1][x], kids, at, x, c)
           Bad == {c \in Nat : c + 1 =< n /\ ~Good(c)}
<1>0. Cardinality(Blocks) \in Nat
  BY ReadsAssumption, FS_CardinalityType
<1>1. \A x \in Blocks : kids[x] \in SUBSET Blocks /\ \A k \in kids[x] : ~f[k].deleted
  BY DEF TreeShape
<1>2. ASSUME NEW c \in Nat, c + 1 =< n, NEW x \in Blocks
      PROVE  /\ V[c + 1][x] = <<x>> \o FlattenSeq([i \in DOMAIN lists[x] |-> V[c][lists[x][i]]])
             /\ V[c] \in [Blocks -> Seq(Blocks)]
             /\ lists[x] \in Seq(Blocks) /\ IsList(lists[x], kids[x], at)
  <2>1. c + 1 \in 1 .. n /\ c \in 0 .. n /\ (c + 1) - 1 = c
    BY <1>2
  <2>2. V[c + 1][x] = TextOf(V, lists, x, c + 1)
    BY <2>1 DEF IsTexts
  <2>3. lists[x] \in Seq(Blocks) /\ IsList(lists[x], kids[x], at)
    BY DEF SiblingLists
  <2> QED BY <2>1, <2>2, <2>3 DEF TextOf
<1>3. \A x \in Blocks : ~f[x].deleted => Within(kids, x, at, 0) = {x}
  <2> HIDE DEF Good, Bad
  <2>1. \A x \in Blocks : Within(kids, x, at, 0) = IF f[x].deleted THEN {} ELSE {x}
    BY FirstLevel
  <2> QED BY <2>1
<1>4. Bad = {}
  <2> SUFFICES ASSUME Bad # {}
               PROVE  FALSE
    OBVIOUS
  <2>1. PICK m \in Bad : \A c \in Bad : m =< c
    <3>1. Bad \in SUBSET Nat
      OBVIOUS
    <3> HIDE DEF Bad
    <3> QED BY <3>1, LeastNumber
  <2>2. m \in Nat /\ m + 1 =< n /\ m =< Cardinality(Blocks)
    BY <1>0, <2>1
  <2> SUFFICES ASSUME NEW x \in Blocks, ~f[x].deleted
               PROVE  IsText(V[m + 1][x], kids, at, x, m)
    BY <2>1
  <2>3. PICK list, g : list = lists[x] /\ g = V[m]
    OBVIOUS
  <2>4. /\ V[m + 1][x] = <<x>> \o FlattenSeq([i \in DOMAIN list |-> g[list[i]]])
        /\ g \in [Blocks -> Seq(Blocks)] /\ list \in Seq(Blocks) /\ IsList(list, kids[x], at)
    BY <1>2, <2>2, <2>3
  <2>5. CASE m = 0
    <3>1. PICK sub : sub = [k \in kids[x] |-> {}]
      OBVIOUS
    <3>2. \A k \in kids[x] : g[k] = <<>>
      BY <1>1, <2>3, <2>5 DEF IsTexts
    <3>3. ChildTexts(g, sub, kids, at, x, m)
      <4> SUFFICES ASSUME NEW k \in kids[x]
                   PROVE  /\ Chained(g[k], Strictly(kids, at))
                          /\ \A y : y \in ToSet(g[k]) <=> y \in sub[k]
                          /\ sub[k] \subseteq Within(kids, k, at, m)
        BY DEF ChildTexts
      <4>1. g[k] = <<>> /\ sub[k] = {}
        BY <3>1, <3>2
      <4>2. Chained(<<>>, Strictly(kids, at)) /\ ToSet(<<>>) = {}
        BY DEF Chained, ToSet
      <4> QED BY <4>1, <4>2
    <3>4. \A y : y \in Within(kids, x, at, m) <=> y = x \/ \E k \in kids[x] : y \in sub[k]
      <4>1. Within(kids, x, at, 0) = {x}
        BY <1>3
      <4>2. \A k \in kids[x] : sub[k] = {}
        BY <3>1
      <4> QED BY <2>5, <4>1, <4>2
    <3>5. IsText(<<x>> \o FlattenSeq([i \in DOMAIN list |-> g[list[i]]]), kids, at, x, m)
      BY <2>2, <2>4, <3>3, <3>4, TextStep
    <3> QED BY <2>4, <3>5
  <2>6. CASE m # 0
    <3>1. PICK e \in Nat : m = e + 1
      <4>1. m - 1 \in Nat /\ m = (m - 1) + 1
        BY <2>2, <2>6
      <4> QED BY <4>1
    <3>2. e + 1 =< n /\ e =< Cardinality(Blocks) /\ ~(m =< e)
      BY <1>0, <2>2, <3>1
    <3>3. Good(e)
      BY <2>1, <3>2
    <3>4. PICK sub : sub = [k \in kids[x] |-> Within(kids, k, at, e)]
      OBVIOUS
    <3>5. ChildTexts(g, sub, kids, at, x, e)
      <4> SUFFICES ASSUME NEW k \in kids[x]
                   PROVE  /\ Chained(g[k], Strictly(kids, at))
                          /\ \A y : y \in ToSet(g[k]) <=> y \in sub[k]
                          /\ sub[k] \subseteq Within(kids, k, at, e)
        BY DEF ChildTexts
      <4>1. k \in Blocks /\ ~f[k].deleted
        BY <1>1
      <4>2. IsText(V[e + 1][k], kids, at, k, e)
        BY <3>3, <4>1
      <4>3. IsText(g[k], kids, at, k, e)
        BY <2>3, <3>1, <4>2
      <4> QED BY <3>4, <4>3 DEF IsText
    <3>6. \A y : y \in Within(kids, x, at, m) <=> y = x \/ \E k \in kids[x] : y \in sub[k]
      BY <3>1, <3>4, WithinSplits
    <3>7. IsText(<<x>> \o FlattenSeq([i \in DOMAIN list |-> g[list[i]]]), kids, at, x, m)
      BY <2>2, <2>4, <3>2, <3>5, <3>6, TextStep
    <3> QED BY <2>4, <3>7
  <2> QED BY <2>5, <2>6
<1>5. Good(d)
  <2> HIDE DEF Good
  <2> QED BY <1>4
<1> QED BY <1>5

\* A list whose members differ is as long as they are many.
LEMMA LengthOfChain ==
  ASSUME NEW S, NEW list \in Seq(S), NEW R, Chained(list, R), \A e \in R : e[1] # e[2]
  PROVE  IsFiniteSet(ToSet(list)) /\ Cardinality(ToSet(list)) = Len(list)
<1>1. PICK n \in Nat : n = Len(list)
  OBVIOUS
<1>2. PICK T : T = ToSet(list)
  OBVIOUS
<1>3. T = {list[i] : i \in 1 .. n}
  BY <1>1, <1>2 DEF ToSet
<1>4. list \in [1 .. n -> T]
  BY <1>1, <1>3
<1>5. \A i, j \in 1 .. n : list[i] = list[j] => i = j
  <2> SUFFICES ASSUME NEW i \in 1 .. n, NEW j \in 1 .. n, i < j
               PROVE  list[i] # list[j]
    OBVIOUS
  <2>1. <<list[i], list[j]>> \in R
    BY <1>1 DEF Chained
  <2> QED BY <2>1
<1>6. list \in Surjection(1 .. n, T)
  BY <1>3, <1>4, Fun_IsSurj
<1>7. list \in Injection(1 .. n, T)
  BY <1>4, <1>5, Fun_IsInj
<1>8. IsFiniteSet(1 .. n) /\ Cardinality(1 .. n) = n
  BY FS_Interval
<1> QED BY <1>1, <1>2, <1>6, <1>7, <1>8, FS_Surjection

\* Joining lists is associative.
Associates(x, y, z) == (x \o y) \o z = x \o (y \o z)

\* Joining is associative on lists.
LEMMA Joins ==
  ASSUME NEW S, NEW x \in Seq(S), NEW y \in Seq(S), NEW z \in Seq(S)
  PROVE  Associates(x, y, z)
BY ConcatAssociative DEF Associates

JoinIs(S, x, y) == x \o y \in Seq(S) /\ Len(x \o y) = Len(x) + Len(y)

\* Two lists joined are a list, as long as they are together.
LEMMA JoinLength ==
  ASSUME NEW S, NEW x \in Seq(S), NEW y \in Seq(S)
  PROVE  JoinIs(S, x, y)
BY ConcatProperties DEF JoinIs

\* Lists that are flattened after others come after them.
LEMMA FlatConcat ==
  ASSUME NEW S, NEW xs \in Seq(Seq(S)), NEW ys \in Seq(Seq(S))
  PROVE  /\ FlattenSeq(xs) \in Seq(S) /\ FlattenSeq(ys) \in Seq(S)
         /\ FlattenSeq(xs \o ys) = FlattenSeq(xs) \o FlattenSeq(ys)
<1>1. PICK m \in Nat, n \in Nat : m = Len(xs) /\ n = Len(ys)
  OBVIOUS
<1>2. PICK zs : zs = xs \o ys
  OBVIOUS
<1>3. zs \in Seq(Seq(S)) /\ Len(zs) = m + n
  BY <1>1, <1>2, ConcatProperties
<1>4. /\ \A i \in 1 .. m : i \in 1 .. m + n /\ zs[i] = xs[i]
      /\ \A j \in 1 .. n : m + j \in 1 .. m + n /\ zs[m + j] = ys[j]
  <2>1. \A i \in 1 .. m + n : zs[i] = IF i =< m THEN xs[i] ELSE ys[i - m]
    BY <1>1, <1>2, ConcatProperties
  <2>2. \A i \in 1 .. m : i \in 1 .. m + n /\ i =< m
    BY <1>1
  <2>3. \A j \in 1 .. n : m + j \in 1 .. m + n /\ ~(m + j =< m) /\ (m + j) - m = j
    BY <1>1
  <2> QED BY <2>1, <2>2, <2>3
<1>5. PICK p \in [0 .. m -> Seq(S)] : IsParts(p, xs)
  BY <1>1, PartsOf DEF PartsGive
<1>6. PICK q \in [0 .. n -> Seq(S)] : IsParts(q, ys)
  BY <1>1, PartsOf DEF PartsGive
<1>7. PICK t \in [0 .. m + n -> Seq(S)] : IsParts(t, zs)
  BY <1>3, PartsOf DEF PartsGive
<1>8. \A i \in 0 .. m : t[i] = p[i]
  <2> DEFINE Bad == {i \in 0 .. m : t[i] # p[i]}
  <2> SUFFICES ASSUME Bad # {}
               PROVE  FALSE
    OBVIOUS
  <2>1. PICK k \in Bad : \A i \in Bad : k =< i
    <3>1. Bad \in SUBSET Nat
      OBVIOUS
    <3> HIDE DEF Bad
    <3> QED BY <3>1, LeastNumber
  <2>2. k # 0
    BY <1>5, <1>7, <2>1 DEF IsParts
  <2>3. k \in 1 .. m /\ k \in 1 .. m + n /\ k - 1 \in 0 .. m /\ ~(k =< k - 1)
    <3>1. k \in 0 .. m
      BY <2>1
    <3> HIDE DEF Bad
    <3>2. k \in 1 .. m /\ k - 1 \in 0 .. m /\ ~(k =< k - 1)
      BY <2>2, <3>1, OneBefore
    <3>3. k \in 1 .. m + n
      BY <3>2
    <3> QED BY <3>2, <3>3
  <2>4. t[k - 1] = p[k - 1]
    BY <2>1, <2>3
  <2>5. t[k] = t[k - 1] \o zs[k] /\ p[k] = p[k - 1] \o xs[k]
    BY <1>1, <1>3, <1>5, <1>7, <2>3 DEF IsParts
  <2> QED BY <1>4, <2>1, <2>3, <2>4, <2>5
<1>9. \A j \in 0 .. n : t[m + j] = p[m] \o q[j]
  <2> DEFINE Bad == {j \in 0 .. n : t[m + j] # p[m] \o q[j]}
  <2> SUFFICES ASSUME Bad # {}
               PROVE  FALSE
    OBVIOUS
  <2>1. PICK k \in Bad : \A j \in Bad : k =< j
    <3>1. Bad \in SUBSET Nat
      OBVIOUS
    <3> HIDE DEF Bad
    <3> QED BY <3>1, LeastNumber
  <2>2. p[m] \in Seq(S)
    BY <1>1, <1>5
  <2>3. k # 0
    <3>1. t[m] = p[m] /\ q[0] = <<>> /\ m + 0 = m
      BY <1>1, <1>6, <1>8 DEF IsParts
    <3>2. p[m] \o <<>> = p[m]
      BY <2>2, ConcatEmptySeq
    <3>3. ~(t[m + 0] # p[m] \o q[0])
      BY <3>1, <3>2
    <3> QED BY <2>1, <3>3
  <2>4. k \in 1 .. n /\ k - 1 \in 0 .. n /\ ~(k =< k - 1) /\ m + k \in 1 .. m + n
        /\ (m + k) - 1 = m + (k - 1)
    <3>1. k \in 0 .. n
      BY <2>1
    <3> HIDE DEF Bad
    <3>2. k \in 1 .. n /\ k - 1 \in 0 .. n /\ ~(k =< k - 1)
      BY <2>3, <3>1, OneBefore
    <3>3. m + k \in 1 .. m + n /\ (m + k) - 1 = m + (k - 1)
      BY <3>2
    <3> QED BY <3>2, <3>3
  <2>5. t[m + (k - 1)] = p[m] \o q[k - 1]
    BY <2>1, <2>4
  <2>6. t[m + k] = t[m + (k - 1)] \o zs[m + k]
    BY <1>1, <1>3, <1>7, <2>4 DEF IsParts
  <2>7. q[k] = q[k - 1] \o ys[k]
    BY <1>1, <1>6, <2>4 DEF IsParts
  <2>8. zs[m + k] = ys[k]
    BY <1>4, <2>4
  <2>9. q[k - 1] \in Seq(S) /\ ys[k] \in Seq(S)
    BY <1>1, <1>6, <2>4, ElementOfSeq
  <2>10. (p[m] \o q[k - 1]) \o ys[k] = p[m] \o (q[k - 1] \o ys[k])
    <3>1. Associates(p[m], q[k - 1], ys[k])
      BY <2>2, <2>9, Joins
    <3> QED BY <3>1 DEF Associates
  <2>11. t[m + k] = p[m] \o q[k]
    BY <2>5, <2>6, <2>7, <2>8, <2>10
  <2> QED BY <2>1, <2>11
<1>10. FlattenSeq(xs) = p[m] /\ FlattenSeq(ys) = q[n] /\ FlattenSeq(zs) = t[m + n]
  BY <1>1, <1>3, <1>5, <1>6, <1>7 DEF IsParts
<1>11. p[m] \in Seq(S) /\ q[n] \in Seq(S) /\ t[m + n] = p[m] \o q[n]
  BY <1>1, <1>5, <1>6, <1>9
<1> QED BY <1>2, <1>10, <1>11

\* Flattening one list gives it, and flattening none, or empty ones, nothing.
LEMMA FlatOne ==
  ASSUME NEW S, NEW x \in Seq(S)
  PROVE  <<x>> \in Seq(Seq(S)) /\ FlattenSeq(<<x>>) = x
<1>1. PICK one : one = <<x>>
  OBVIOUS
<1>2. one \in Seq(Seq(S)) /\ Len(one) = 1 /\ one[1] = x
  BY <1>1
<1>3. PICK len : len = Len(one)
  OBVIOUS
<1>4. PICK p \in [0 .. len -> Seq(S)] : IsParts(p, one)
  BY <1>2, <1>3, PartsOf DEF PartsGive
<1>5. p[0] = <<>> /\ p[1] = p[1 - 1] \o one[1] /\ FlattenSeq(one) = p[1]
  <2>1. 1 \in 1 .. Len(one)
    BY <1>2
  <2> QED BY <1>2, <1>4, <2>1 DEF IsParts
<1>6. p[1] = <<>> \o x
  BY <1>2, <1>5
<1>7. <<>> \o x = x
  BY ConcatEmptySeq
<1> QED BY <1>1, <1>2, <1>5, <1>6, <1>7

\* Flattening empty lists gives the empty one.
LEMMA FlatOfEmpty ==
  ASSUME NEW S, NEW seqs \in Seq(Seq(S)), \A i \in 1 .. Len(seqs) : seqs[i] = <<>>
  PROVE  FlattenSeq(seqs) = <<>>
<1>1. PICK len \in Nat : len = Len(seqs)
  OBVIOUS
<1>2. PICK p \in [0 .. len -> Seq(S)] : IsParts(p, seqs)
  BY <1>1, PartsOf DEF PartsGive
<1> DEFINE Bad == {n \in 0 .. len : p[n] # <<>>}
<1>3. Bad = {}
  <2> SUFFICES ASSUME Bad # {}
               PROVE  FALSE
    OBVIOUS
  <2>1. PICK k \in Bad : \A n \in Bad : k =< n
    <3>1. Bad \in SUBSET Nat
      OBVIOUS
    <3> HIDE DEF Bad
    <3> QED BY <3>1, LeastNumber
  <2>2. k # 0
    BY <1>2, <2>1 DEF IsParts
  <2>3. k \in 1 .. len /\ k - 1 \in 0 .. len /\ ~(k =< k - 1)
    BY <1>1, <2>1, <2>2
  <2>4. p[k - 1] = <<>>
    BY <2>1, <2>3
  <2>5. p[k] = p[k - 1] \o seqs[k] /\ seqs[k] = <<>>
    BY <1>1, <1>2, <2>3 DEF IsParts
  <2>6. <<>> \in Seq(S)
    BY EmptySeq
  <2>7. p[k] = <<>>
    BY <2>4, <2>5, <2>6, ConcatEmptySeq
  <2> QED BY <2>1, <2>7
<1>4. FlattenSeq(seqs) = p[len] /\ len \in 0 .. len
  BY <1>1, <1>2 DEF IsParts
<1> QED BY <1>3, <1>4

-----------------------------------------------------------------------------
(***************************************************************************)
(* What the stack of a walk still stands for, the next text first.         *)
(***************************************************************************)
\* Every one of D has a text.
HasTexts(g, D, S) == \A x \in D : g[x] \in Seq(S)

\* The texts of a list, and of a stack.
Each(g, list) == [i \in 1 .. Len(list) |-> g[list[i]]]

Waiting(g, stack) == [i \in 1 .. Len(stack) |-> g[stack[Len(stack) + 1 - i]]]

\* The texts of a list are the texts of its members.
EachIs(g, list, S) ==
  /\ Each(g, list) \in Seq(Seq(S)) /\ Len(Each(g, list)) = Len(list)
  /\ \A i \in 1 .. Len(list) : Each(g, list)[i] = g[list[i]]

\* The texts of the members of a list can be listed.
LEMMA EachOf ==
  ASSUME NEW D, NEW S, NEW g, HasTexts(g, D, S), NEW list \in Seq(D)
  PROVE  EachIs(g, list, S)
<1>1. PICK n \in Nat : n = Len(list)
  OBVIOUS
<1>2. ASSUME NEW i \in 1 .. n
      PROVE  g[list[i]] \in Seq(S)
  <2>1. list[i] \in D
    BY <1>1, ElementOfSeq
  <2> QED BY <2>1 DEF HasTexts
<1>3. PICK each : each = [i \in 1 .. n |-> g[list[i]]]
  OBVIOUS
<1>4. each \in Seq(Seq(S)) /\ Len(each) = n /\ \A i \in 1 .. n : each[i] = g[list[i]]
  BY <1>2, <1>3
<1>5. each = Each(g, list)
  BY <1>1, <1>3 DEF Each
<1> QED BY <1>1, <1>4, <1>5 DEF EachIs

\* A function over the domain of a list lists them.
LEMMA EachOverDomain ==
  ASSUME NEW D, NEW g, NEW list \in Seq(D)
  PROVE  [i \in DOMAIN list |-> g[list[i]]] = Each(g, list)
BY DEF Each

\* What is stacked waits, one text for each item.
LEMMA WaitingIs ==
  ASSUME NEW D, NEW S, NEW g, HasTexts(g, D, S), NEW stack \in Seq(D)
  PROVE  Waiting(g, stack) \in Seq(Seq(S)) /\ Len(Waiting(g, stack)) = Len(stack)
<1>1. PICK m \in Nat : m = Len(stack)
  OBVIOUS
<1>2. ASSUME NEW i \in 1 .. m
      PROVE  g[stack[m + 1 - i]] \in Seq(S)
  <2>1. m + 1 - i \in 1 .. Len(stack)
    BY <1>1
  <2>2. stack[m + 1 - i] \in D
    BY <2>1, ElementOfSeq
  <2> QED BY <2>2 DEF HasTexts
<1>3. [i \in 1 .. m |-> g[stack[m + 1 - i]]] \in Seq(Seq(S))
  BY <1>1, <1>2
<1>4. Waiting(g, stack) = [i \in 1 .. m |-> g[stack[m + 1 - i]]]
  BY <1>1 DEF Waiting
<1> QED BY <1>1, <1>3, <1>4

\* What is stacked last comes first, in the order it was given.
LEMMA WaitingOf ==
  ASSUME NEW D, NEW S, NEW g, HasTexts(g, D, S), NEW rest \in Seq(D), NEW K \in Seq(D)
  PROVE  /\ rest \o Reverse(K) \in Seq(D)
         /\ Len(rest \o Reverse(K)) = Len(rest) + Len(K)
         /\ Each(g, K) \in Seq(Seq(S))
         /\ Waiting(g, rest \o Reverse(K)) = Each(g, K) \o Waiting(g, rest)
<1>1. PICK m \in Nat, n \in Nat : m = Len(rest) /\ n = Len(K)
  OBVIOUS
<1>2. PICK back : back = Reverse(K)
  OBVIOUS
<1>3. back = [i \in 1 .. n |-> K[(n - i) + 1]]
  BY <1>1, <1>2 DEF Reverse
<1>4. ASSUME NEW i \in 1 .. n
      PROVE  (n - i) + 1 \in 1 .. n /\ K[(n - i) + 1] \in D
  <2>1. (n - i) + 1 \in 1 .. Len(K)
    BY <1>1
  <2> QED BY <1>1, <2>1, ElementOfSeq
<1>5. back \in Seq(D) /\ Len(back) = n /\ \A i \in 1 .. n : back[i] = K[(n - i) + 1]
  BY <1>1, <1>3, <1>4
<1>6. PICK stack : stack = rest \o back
  OBVIOUS
<1>7. /\ stack \in Seq(D) /\ Len(stack) = m + n
      /\ \A i \in 1 .. m + n : stack[i] = IF i =< m THEN rest[i] ELSE back[i - m]
  <2>1. back \in Seq(D)
    BY <1>5
  <2>2. /\ rest \o back \in Seq(D) /\ Len(rest \o back) = Len(rest) + Len(back)
        /\ \A i \in 1 .. Len(rest) + Len(back) :
             (rest \o back)[i] = IF i =< Len(rest) THEN rest[i] ELSE back[i - Len(rest)]
    BY <2>1, ConcatProperties
  <2>3. Len(rest) = m /\ Len(back) = n
    BY <1>1, <1>5
  <2> QED BY <1>6, <2>2, <2>3, Zenon
<1>8. PICK here : here = [i \in 1 .. n |-> g[K[i]]]
  OBVIOUS
<1>9. here \in Seq(Seq(S)) /\ Len(here) = n
  <2>1. ASSUME NEW i \in 1 .. n
        PROVE  g[K[i]] \in Seq(S)
    <3>1. K[i] \in D
      BY <1>1, ElementOfSeq
    <3> QED BY <3>1 DEF HasTexts
  <2> QED BY <1>1, <1>8, <2>1
<1>10. PICK later : later = Waiting(g, rest)
  OBVIOUS
<1>11. later \in Seq(Seq(S)) /\ Len(later) = m /\ \A i \in 1 .. m : later[i] = g[rest[m + 1 - i]]
  <2>1. later \in Seq(Seq(S)) /\ Len(later) = m
    <3>1. Waiting(g, rest) \in Seq(Seq(S)) /\ Len(Waiting(g, rest)) = Len(rest)
      BY WaitingIs
    <3> QED BY <1>1, <1>10, <3>1
  <2>2. later = [i \in 1 .. m |-> g[rest[m + 1 - i]]]
    BY <1>1, <1>10 DEF Waiting
  <2> QED BY <2>1, <2>2
<1>12. PICK whole : whole = Waiting(g, stack)
  OBVIOUS
<1>13. whole \in Seq(Seq(S)) /\ Len(whole) = m + n
       /\ \A i \in 1 .. m + n : whole[i] = g[stack[m + n + 1 - i]]
  <2>1. whole \in Seq(Seq(S)) /\ Len(whole) = m + n
    <3>1. stack \in Seq(D)
      BY <1>7
    <3>2. Waiting(g, stack) \in Seq(Seq(S)) /\ Len(Waiting(g, stack)) = Len(stack)
      BY <3>1, WaitingIs
    <3> QED BY <1>7, <1>12, <3>2
  <2>2. whole = [i \in 1 .. m + n |-> g[stack[m + n + 1 - i]]]
    BY <1>7, <1>12 DEF Waiting
  <2> QED BY <2>1, <2>2
<1>14. PICK both : both = here \o later
  OBVIOUS
<1>15. /\ both \in Seq(Seq(S)) /\ Len(both) = n + m
       /\ \A i \in 1 .. n + m : both[i] = IF i =< n THEN here[i] ELSE later[i - n]
  <2>1. here \in Seq(Seq(S)) /\ later \in Seq(Seq(S))
    BY <1>9, <1>11
  <2>2. /\ here \o later \in Seq(Seq(S)) /\ Len(here \o later) = Len(here) + Len(later)
        /\ \A i \in 1 .. Len(here) + Len(later) :
             (here \o later)[i] = IF i =< Len(here) THEN here[i] ELSE later[i - Len(here)]
    BY <2>1, ConcatProperties
  <2>3. Len(here) = n /\ Len(later) = m
    BY <1>9, <1>11
  <2> QED BY <1>14, <2>2, <2>3, Zenon
<1>16. ASSUME NEW i \in 1 .. m + n
       PROVE  whole[i] = both[i]
  <2>1. PICK j : j = m + n + 1 - i
    OBVIOUS
  <2>2. j \in 1 .. m + n /\ whole[i] = g[stack[j]]
    BY <1>13, <2>1
  <2>3. CASE i =< n
    <3>1. ~(j =< m) /\ j - m \in 1 .. n /\ (n - (j - m)) + 1 = i /\ i \in 1 .. n /\ i \in 1 .. n + m
      BY <2>1, <2>3
    <3>2. stack[j] = back[j - m] /\ back[j - m] = K[i]
      BY <1>5, <1>7, <2>2, <3>1
    <3>3. both[i] = here[i] /\ here[i] = g[K[i]]
      BY <1>8, <1>15, <2>3, <3>1
    <3> QED BY <2>2, <3>2, <3>3
  <2>4. CASE ~(i =< n)
    <3>1. j =< m /\ i - n \in 1 .. m /\ m + 1 - (i - n) = j /\ i \in 1 .. n + m
      BY <2>1, <2>4
    <3>2. stack[j] = rest[j]
      BY <1>7, <2>2, <3>1
    <3>3. both[i] = later[i - n]
      BY <1>15, <2>4, <3>1
    <3>4. later[i - n] = g[rest[m + 1 - (i - n)]]
      BY <1>11, <3>1
    <3> QED BY <2>2, <3>1, <3>2, <3>3, <3>4
  <2> QED BY <2>3, <2>4
<1>17. whole = both
  <2>1. Len(whole) = Len(both) /\ \A i \in 1 .. Len(whole) : whole[i] = both[i]
    BY <1>13, <1>15, <1>16
  <2> QED BY <1>13, <1>15, <2>1, SeqEqual
<1>18. here = Each(g, K)
  BY <1>1, <1>8 DEF Each
<1> QED BY <1>1, <1>2, <1>6, <1>7, <1>9, <1>10, <1>12, <1>14, <1>17, <1>18

\* The text that comes of what is stacked.
ToCome(g, stack) == FlattenSeq(Waiting(g, stack))

\* An empty stack has no text to come.
LEMMA NothingToCome ==
  ASSUME NEW D, NEW S, NEW g, HasTexts(g, D, S)
  PROVE  ToCome(g, <<>>) = <<>>
<1>1. <<>> \in Seq(D)
  BY EmptySeq
<1>2. PICK none \in Seq(D) : none = <<>>
  BY <1>1
<1>3. PICK list : list = Waiting(g, none)
  OBVIOUS
<1>4. list \in Seq(Seq(S)) /\ Len(list) = Len(none)
  BY <1>3, WaitingIs
<1>5. Len(none) = 0
  BY <1>2
<1>6. \A i \in 1 .. Len(list) : list[i] = <<>>
  BY <1>4, <1>5
<1>7. FlattenSeq(list) = <<>>
  BY <1>4, <1>6, FlatOfEmpty
<1> QED BY <1>2, <1>3, <1>7 DEF ToCome

\* When children are stacked, their texts come first and the rest after them.
LEMMA ToComeOf ==
  ASSUME NEW D, NEW S, NEW g, HasTexts(g, D, S), NEW rest \in Seq(D), NEW K \in Seq(D)
  PROVE  /\ ToCome(g, rest) \in Seq(S) /\ FlattenSeq(Each(g, K)) \in Seq(S)
         /\ ToCome(g, rest \o Reverse(K)) =
              FlattenSeq(Each(g, K)) \o ToCome(g, rest)
<1>1. PICK here, later : here = Each(g, K) /\ later = Waiting(g, rest)
  OBVIOUS
<1>2. here \in Seq(Seq(S)) /\ Waiting(g, rest \o Reverse(K)) = here \o later
  <2>1. /\ Each(g, K) \in Seq(Seq(S))
        /\ Waiting(g, rest \o Reverse(K)) = Each(g, K) \o Waiting(g, rest)
    BY WaitingOf
  <2> QED BY <1>1, <2>1, Zenon
<1>3. later \in Seq(Seq(S))
  BY <1>1, WaitingIs
<1>4. /\ FlattenSeq(here) \in Seq(S) /\ FlattenSeq(later) \in Seq(S)
      /\ FlattenSeq(here \o later) = FlattenSeq(here) \o FlattenSeq(later)
  BY <1>2, <1>3, FlatConcat
<1> QED BY <1>1, <1>2, <1>4 DEF ToCome

\* The last of the stack comes first.
LEMMA TopComes ==
  ASSUME NEW D, NEW S, NEW g, HasTexts(g, D, S), NEW stack \in Seq(D), stack # <<>>
  PROVE  /\ Last(stack) \in D /\ Front(stack) \in Seq(D) /\ Len(Front(stack)) = Len(stack) - 1
         /\ ToCome(g, stack) = g[Last(stack)] \o ToCome(g, Front(stack))
<1>1. PICK m \in Nat : m = Len(stack) /\ m # 0
  BY EmptySeq
<1>2. Last(stack) \in D
  <2>1. m \in 1 .. Len(stack)
    BY <1>1
  <2> QED BY <1>1, <2>1, ElementOfSeq DEF Last
<1>3. PICK rest, top : rest = Front(stack) /\ top = Last(stack)
  OBVIOUS
<1>4. /\ rest \in Seq(D) /\ Len(rest) = m - 1 /\ \A i \in 1 .. m - 1 : rest[i] = stack[i]
  <2>1. rest = SubSeq(stack, 1, m - 1)
    BY <1>1, <1>3 DEF Front
  <2>2. \A i \in 1 .. m - 1 : stack[i] \in D
    <3>1. \A i \in 1 .. m - 1 : i \in 1 .. Len(stack)
      BY <1>1
    <3> QED BY <3>1, ElementOfSeq
  <2>3. m - 1 \in Int /\ 1 \in Int
    BY <1>1
  <2>4. /\ SubSeq(stack, 1, m - 1) \in Seq(D)
        /\ Len(SubSeq(stack, 1, m - 1)) = IF 1 <= m - 1 THEN (m - 1) - 1 + 1 ELSE 0
        /\ \A i \in 1 .. (m - 1) - 1 + 1 : SubSeq(stack, 1, m - 1)[i] = stack[1 + i - 1]
    BY <2>2, <2>3, SubSeqProperties
  <2>5. /\ (IF 1 <= m - 1 THEN (m - 1) - 1 + 1 ELSE 0) = m - 1 /\ (m - 1) - 1 + 1 = m - 1
        /\ \A i \in 1 .. m - 1 : 1 + i - 1 = i
    BY <1>1
  <2> QED BY <2>1, <2>4, <2>5
<1>5. PICK one : one = <<top>>
  OBVIOUS
<1>6. one \in Seq(D) /\ Len(one) = 1 /\ one[1] = top /\ Reverse(one) = one
  <2>1. one \in Seq(D) /\ Len(one) = 1 /\ one[1] = top
    BY <1>2, <1>3, <1>5
  <2>2. Reverse(one) = [i \in 1 .. 1 |-> one[(1 - i) + 1]]
    BY <2>1 DEF Reverse
  <2>3. \A i \in 1 .. 1 : i = 1 /\ (1 - i) + 1 = 1
    OBVIOUS
  <2>4. Reverse(one) = [i \in 1 .. 1 |-> top]
    BY <2>1, <2>2, <2>3
  <2>5. one = [i \in 1 .. 1 |-> top]
    BY <1>5
  <2> QED BY <2>1, <2>4, <2>5
<1>7. stack = rest \o one
  <2>1. /\ rest \o one \in Seq(D) /\ Len(rest \o one) = m - 1 + 1
        /\ \A i \in 1 .. m - 1 + 1 : (rest \o one)[i] = IF i =< m - 1 THEN rest[i] ELSE one[i - (m - 1)]
    <3>1. rest \in Seq(D) /\ one \in Seq(D)
      BY <1>4, <1>6
    <3>2. /\ rest \o one \in Seq(D) /\ Len(rest \o one) = Len(rest) + Len(one)
          /\ \A i \in 1 .. Len(rest) + Len(one) :
               (rest \o one)[i] = IF i =< Len(rest) THEN rest[i] ELSE one[i - Len(rest)]
      BY <3>1, ConcatProperties
    <3>3. Len(rest) = m - 1 /\ Len(one) = 1
      BY <1>4, <1>6
    <3> QED BY <3>2, <3>3, Zenon
  <2>2. m - 1 + 1 = m
    BY <1>1
  <2>3. ASSUME NEW i \in 1 .. m
        PROVE  stack[i] = (rest \o one)[i]
    <3>1. CASE i =< m - 1
      <4>1. i \in 1 .. m - 1
        BY <3>1
      <4> QED BY <1>4, <2>1, <2>2, <3>1, <4>1
    <3>2. CASE ~(i =< m - 1)
      <4>1. i = m /\ i - (m - 1) = 1
        BY <3>2
      <4>2. (rest \o one)[i] = one[1]
        BY <2>1, <2>2, <3>2, <4>1
      <4> QED BY <1>1, <1>3, <1>6, <4>1, <4>2 DEF Last
    <3> QED BY <3>1, <3>2
  <2> QED BY <1>1, <2>1, <2>2, <2>3, SeqEqual
<1>8. PICK here : here = Each(g, one)
  OBVIOUS
<1>9. here = <<g[top]>>
  <2>1. \A i \in 1 .. 1 : i = 1
    OBVIOUS
  <2>2. here = [i \in 1 .. 1 |-> g[top]]
    BY <1>6, <1>8, <2>1 DEF Each
  <2> QED BY <2>2
<1>10. ToCome(g, rest \o Reverse(one)) = FlattenSeq(here) \o ToCome(g, rest)
  <2>1. rest \in Seq(D) /\ one \in Seq(D)
    BY <1>4, <1>6
  <2>2. ToCome(g, rest \o Reverse(one)) =
          FlattenSeq(Each(g, one)) \o ToCome(g, rest)
    BY <2>1, ToComeOf
  <2> QED BY <1>8, <2>2, Zenon
<1>11. FlattenSeq(here) = g[top]
  <2>1. g[top] \in Seq(S)
    BY <1>2, <1>3 DEF HasTexts
  <2> QED BY <1>9, <2>1, FlatOne
<1> QED BY <1>1, <1>2, <1>3, <1>4, <1>6, <1>7, <1>10, <1>11

-----------------------------------------------------------------------------
(***************************************************************************)
(* The walk of a subtree read.                                             *)
(***************************************************************************)
Items(depth) == [block : Blocks, level : 0 .. depth]

Walks(depth) == [result : Seq(Blocks), stack : Seq(Items(depth)),
                 answer : {"blocks", "refused", "wrapped"}]

\* What one turn does with the block on top and the children it loads.
Loaded(K, lists, top, depth) ==
  /\ Len(K) = IF top.level < depth THEN Len(lists[top.block]) ELSE 0
  /\ \A i \in 1 .. Len(K) : K[i] = [block |-> lists[top.block][i], level |-> top.level + 1]

Turned(v, w, top, rest, K, budget) ==
  \/ Len(w.result) = budget /\ v = Ended(w, "refused")
  \/ budget - Len(w.result) - Len(w.stack) < 0 /\ v = Ended(w, "wrapped")
  \/ Len(K) > budget - Len(w.result) - Len(w.stack) /\ v = Ended(w, "refused")
  \/ /\ Len(w.result) # budget /\ Len(K) =< budget - Len(w.result) - Len(w.stack)
     /\ v = [w EXCEPT !.result = Append(w.result, top.block), !.stack = rest \o Reverse(K)]

VisitGives(w, at, depth, budget, lists) ==
  \E top \in Items(depth), rest \in Seq(Items(depth)), K \in Seq(Items(depth)) :
    /\ top = Last(w.stack) /\ rest = Front(w.stack) /\ Loaded(K, lists, top, depth)
    /\ Turned(Visit(w, at, depth, budget), w, top, rest, K, budget)

\* One turn of the loop of subtree: it refuses, wraps round, or returns the block
\* on top and stacks the children it loads.
LEMMA VisitIs ==
  ASSUME NEW kids, NEW at, NEW lists, SiblingLists(lists, kids, at), NEW depth \in Nat,
         NEW budget \in Nat, NEW w \in Walks(depth), w.stack # <<>>
  PROVE  VisitGives(w, at, depth, budget, lists)
<1>1. PICK stack : stack = w.stack
  OBVIOUS
<1>2. stack \in Seq(Items(depth)) /\ stack # <<>> /\ w.result \in Seq(Blocks)
  BY <1>1 DEF Walks
<1>3. PICK top, rest : top = Last(w.stack) /\ rest = Front(w.stack)
  OBVIOUS
<1>4. top \in Items(depth) /\ rest \in Seq(Items(depth))
  <2>1. PICK m \in Nat : m = Len(stack) /\ m # 0
    BY <1>2, EmptySeq
  <2>2. m \in 1 .. Len(stack) /\ \A i \in 1 .. m - 1 : i \in 1 .. Len(stack)
    BY <2>1
  <2>3. stack[m] \in Items(depth) /\ \A i \in 1 .. m - 1 : stack[i] \in Items(depth)
    BY <1>2, <2>2, ElementOfSeq
  <2>4. SubSeq(stack, 1, m - 1) \in Seq(Items(depth))
    BY <2>1, <2>3, SubSeqProperties
  <2> QED BY <1>1, <1>3, <2>1, <2>3, <2>4 DEF Last, Front
<1>5. PICK opens : opens = (top.level < depth)
  OBVIOUS
<1>6. PICK loaded : loaded = IF top.level < depth THEN Siblings(top.block, at) ELSE <<>>
  OBVIOUS
<1>7. top.block \in Blocks /\ top.level \in 0 .. depth
  BY <1>4 DEF Items
<1>8. lists[top.block] \in Seq(Blocks) /\ lists[top.block] = Siblings(top.block, at)
  BY <1>7 DEF SiblingLists
<1>9. loaded \in Seq(Blocks) /\ Len(loaded) = IF top.level < depth THEN Len(lists[top.block]) ELSE 0
  BY <1>6, <1>8, EmptySeq
<1>10. \A i \in 1 .. Len(loaded) : loaded[i] = lists[top.block][i] /\ loaded[i] \in Blocks /\ top.level < depth
  <2> TAKE i \in 1 .. Len(loaded)
  <2>1. top.level < depth
    BY <1>9
  <2>2. loaded[i] \in Blocks
    BY <1>9, ElementOfSeq
  <2> QED BY <1>6, <1>8, <2>1, <2>2
<1>11. PICK n \in Nat : n = Len(loaded)
  BY <1>9
<1>12. PICK K : K = [i \in DOMAIN loaded |-> [block |-> loaded[i], level |-> top.level + 1]]
  OBVIOUS
<1>13. K = [i \in 1 .. n |-> [block |-> loaded[i], level |-> top.level + 1]]
  BY <1>9, <1>11, <1>12
<1>14. K \in Seq(Items(depth)) /\ Len(K) = n
  <2>1. ASSUME NEW i \in 1 .. n
        PROVE  [block |-> loaded[i], level |-> top.level + 1] \in Items(depth)
    <3>1. loaded[i] \in Blocks /\ top.level < depth
      BY <1>10, <1>11
    <3>2. top.level + 1 \in 0 .. depth
      BY <1>7, <3>1
    <3> QED BY <3>1, <3>2 DEF Items
  <2> QED BY <1>11, <1>13, <2>1
<1>15. Loaded(K, lists, top, depth)
  <2>1. Len(K) = IF top.level < depth THEN Len(lists[top.block]) ELSE 0
    BY <1>9, <1>11, <1>14
  <2>2. \A i \in 1 .. Len(K) : K[i] = [block |-> lists[top.block][i], level |-> top.level + 1]
    BY <1>10, <1>11, <1>13, <1>14
  <2> QED BY <2>1, <2>2 DEF Loaded
<1>16. Stacked(loaded, top.level + 1) = Reverse(K)
  BY <1>12 DEF Stacked
<1>17. PICK r \in Nat, m \in Nat : r = Len(w.result) /\ m = Len(w.stack)
  BY <1>1, <1>2
<1>18. Room(w, budget) = budget - r - m
  <2>1. Room(w, budget) = budget - r - (m - 1) - 1
    BY <1>17 DEF Room
  <2>2. budget - r - (m - 1) - 1 = budget - r - m
    BY <1>17
  <2> QED BY <2>1, <2>2
<1>19. PICK v : v = Visit(w, at, depth, budget)
  OBVIOUS
<1>20. v = CASE Len(w.result) = budget               -> Ended(w, "refused")
             [] top.level < depth /\ Room(w, budget) < 0 -> Ended(w, "wrapped")
             [] Len(loaded) > Room(w, budget)        -> Ended(w, "refused")
             [] OTHER ->
                  [w EXCEPT !.result = Append(w.result, top.block),
                            !.stack = Front(w.stack) \o Stacked(loaded, top.level + 1)]
  BY <1>3, <1>6, <1>19 DEF Visit
<1>21. PICK x : x = [w EXCEPT !.result = Append(w.result, top.block), !.stack = rest \o Reverse(K)]
  OBVIOUS
<1>22. PICK y, z : y = Ended(w, "refused") /\ z = Ended(w, "wrapped")
  OBVIOUS
<1>23. v = CASE r = budget                           -> y
             [] top.level < depth /\ budget - r - m < 0 -> z
             [] n > budget - r - m                   -> y
             [] OTHER                                -> x
  BY <1>3, <1>11, <1>16, <1>17, <1>18, <1>20, <1>21, <1>22
<1>24. \/ r = budget /\ v = y
       \/ budget - r - m < 0 /\ v = z
       \/ n > budget - r - m /\ v = y
       \/ r # budget /\ n =< budget - r - m /\ v = x
  BY <1>11, <1>17, <1>23
<1>25. Turned(v, w, top, rest, K, budget)
  BY <1>14, <1>17, <1>21, <1>22, <1>24 DEF Turned
<1> QED BY <1>3, <1>4, <1>14, <1>15, <1>19, <1>25 DEF VisitGives

\* A walk that is ended has nothing on its stack.
LEMMA EndedIs ==
  ASSUME NEW depth \in Nat, NEW w \in Walks(depth), NEW answer \in {"blocks", "refused", "wrapped"}
  PROVE  /\ Ended(w, answer) \in Walks(depth)
         /\ Ended(w, answer).stack = <<>> /\ Ended(w, answer).answer = answer
<1>1. <<>> \in Seq(Items(depth))
  BY EmptySeq
<1> QED BY <1>1 DEF Ended, Walks

\* A turn that returns a block.
Returned(w, b, stack) == [w EXCEPT !.result = Append(w.result, b), !.stack = stack]

ReturnedGives(v, w, b, stack, depth) ==
  /\ v \in Walks(depth) /\ v.stack = stack /\ v.answer = w.answer
  /\ v.result = w.result \o <<b>> /\ Len(v.result) = Len(w.result) + 1

\* A walk that returned a block is a walk with that block at its end.
LEMMA ReturnedIs ==
  ASSUME NEW depth \in Nat, NEW w \in Walks(depth), NEW b \in Blocks, NEW stack \in Seq(Items(depth))
  PROVE  ReturnedGives(Returned(w, b, stack), w, b, stack, depth)
<1>0. PICK v : v = Returned(w, b, stack)
  OBVIOUS
<1>1. w.result \in Seq(Blocks)
  BY DEF Walks
<1>2. PICK more : more = Append(w.result, b)
  OBVIOUS
<1>3. more \in Seq(Blocks) /\ Len(more) = Len(w.result) + 1 /\ more = w.result \o <<b>>
  BY <1>1, <1>2, AppendProperties, AppendIsConcat
<1>4. v = [w EXCEPT !.result = more, !.stack = stack]
  BY <1>0, <1>2 DEF Returned
<1>5. v \in Walks(depth) /\ v.stack = stack /\ v.answer = w.answer /\ v.result = more
  BY <1>3, <1>4 DEF Walks
<1> QED BY <1>0, <1>3, <1>5 DEF ReturnedGives

\* A turn takes a walk to a walk.
LEMMA VisitIsWalk ==
  ASSUME NEW kids, NEW at, NEW lists, SiblingLists(lists, kids, at), NEW depth \in Nat,
         NEW budget \in Nat, NEW w \in Walks(depth), w.stack # <<>>
  PROVE  Visit(w, at, depth, budget) \in Walks(depth)
<1>1. VisitGives(w, at, depth, budget, lists)
  BY VisitIs
<1>2. PICK v : v = Visit(w, at, depth, budget)
  OBVIOUS
<1>3. PICK top \in Items(depth), rest \in Seq(Items(depth)), K \in Seq(Items(depth)) :
        Turned(v, w, top, rest, K, budget)
  BY <1>1, <1>2 DEF VisitGives
<1>4. CASE v = Ended(w, "refused") \/ v = Ended(w, "wrapped")
  BY <1>2, <1>4, EndedIs
<1>5. CASE v = [w EXCEPT !.result = Append(w.result, top.block), !.stack = rest \o Reverse(K)]
  <2>1. PICK stack : stack = rest \o Reverse(K)
    OBVIOUS
  <2>2. stack \in Seq(Items(depth))
    <3>1. PICK n \in Nat : n = Len(K)
      OBVIOUS
    <3>2. \A i \in 1 .. n : (n - i) + 1 \in 1 .. Len(K)
      BY <3>1
    <3>3. \A i \in 1 .. n : K[(n - i) + 1] \in Items(depth)
      BY <3>2, ElementOfSeq
    <3>4. [i \in 1 .. n |-> K[(n - i) + 1]] \in Seq(Items(depth))
      BY <3>3
    <3>5. Reverse(K) \in Seq(Items(depth))
      BY <3>1, <3>4 DEF Reverse
    <3> QED BY <2>1, <3>5, ConcatProperties
  <2>3. top.block \in Blocks
    BY DEF Items
  <2>4. v \in Walks(depth)
    <3>1. ReturnedGives(Returned(w, top.block, stack), w, top.block, stack, depth)
      BY <2>2, <2>3, ReturnedIs
    <3>2. v = Returned(w, top.block, stack)
      BY <1>5, <2>1 DEF Returned
    <3> QED BY <3>1, <3>2 DEF ReturnedGives
  <2> QED BY <1>2, <2>4
<1> QED BY <1>3, <1>4, <1>5 DEF Turned

-----------------------------------------------------------------------------
(***************************************************************************)
(* What has been returned and what is still to come is the text.           *)
(***************************************************************************)
Standing(V, depth) == [x \in Items(depth) |-> V[depth + 1 - x.level][x.block]]

\* Each item of the stack stands for a text that is not empty.
LEMMA StandingIs ==
  ASSUME NEW depth \in Nat, NEW lists \in [Blocks -> Seq(Blocks)],
         NEW V \in [0 .. depth + 1 -> [Blocks -> Seq(Blocks)]], IsTexts(V, Blocks, lists, depth + 1)
  PROVE  /\ HasTexts(Standing(V, depth), Items(depth), Blocks)
         /\ \A x \in Items(depth) : Len(Standing(V, depth)[x]) # 0
<1> SUFFICES ASSUME NEW x \in Items(depth)
             PROVE  /\ V[depth + 1 - x.level][x.block] \in Seq(Blocks)
                    /\ Len(V[depth + 1 - x.level][x.block]) # 0
  BY DEF Standing, HasTexts
<1>1. PICK b, d : b = x.block /\ d = depth + 1 - x.level
  OBVIOUS
<1>2. b \in Blocks /\ d \in 1 .. depth + 1 /\ d \in 0 .. depth + 1 /\ d - 1 \in 0 .. depth + 1
  <2>1. x.block \in Blocks /\ x.level \in 0 .. depth
    BY DEF Items
  <2>2. PICK l \in Nat : l = x.level /\ l =< depth
    BY <2>1
  <2>3. d = depth + 1 - l
    BY <1>1, <2>2, Zenon
  <2>4. d \in 1 .. depth + 1 /\ d \in 0 .. depth + 1 /\ d - 1 \in 0 .. depth + 1
    BY <2>2, <2>3
  <2> QED BY <1>1, <2>1, <2>4
<1>3. V[d][b] = <<b>> \o FlattenSeq([i \in DOMAIN lists[b] |-> V[d - 1][lists[b][i]]])
  BY <1>2 DEF IsTexts, TextOf
<1>4. PICK g, list : g = V[d - 1] /\ list = lists[b]
  OBVIOUS
<1>5. g \in [Blocks -> Seq(Blocks)] /\ list \in Seq(Blocks)
  BY <1>2, <1>4
<1>6. PICK seqs : seqs = [i \in DOMAIN list |-> g[list[i]]]
  OBVIOUS
<1>7. seqs \in Seq(Seq(Blocks))
  <2>1. HasTexts(g, Blocks, Blocks)
    BY <1>5 DEF HasTexts
  <2>2. EachIs(g, list, Blocks)
    BY <1>5, <2>1, EachOf
  <2>3. seqs = Each(g, list)
    BY <1>5, <1>6, EachOverDomain
  <2> QED BY <2>2, <2>3 DEF EachIs
<1>8. FlattenSeq(seqs) \in Seq(Blocks)
  BY <1>7, FlatConcat
<1>9. PICK one, flat : one = <<b>> /\ flat = FlattenSeq(seqs)
  OBVIOUS
<1>10. one \in Seq(Blocks) /\ Len(one) = 1 /\ flat \in Seq(Blocks)
  BY <1>2, <1>8, <1>9
<1>11. one \o flat \in Seq(Blocks) /\ Len(one \o flat) = 1 + Len(flat) /\ Len(flat) \in Nat
  <2>1. JoinIs(Blocks, one, flat)
    BY <1>10, JoinLength
  <2> QED BY <1>10, <2>1 DEF JoinIs
<1>12. V[d][b] = one \o flat
  BY <1>3, <1>4, <1>6, <1>9
<1>13. Len(one \o flat) # 0
  BY <1>11
<1> QED BY <1>1, <1>11, <1>12, <1>13

\* The text of a block is the block and the texts of the children it loads.
LEMMA TextComes ==
  ASSUME NEW depth \in Nat, NEW lists \in [Blocks -> Seq(Blocks)],
         NEW V \in [0 .. depth + 1 -> [Blocks -> Seq(Blocks)]], IsTexts(V, Blocks, lists, depth + 1),
         NEW top \in Items(depth), NEW K \in Seq(Items(depth)), Loaded(K, lists, top, depth)
  PROVE  Standing(V, depth)[top] =
           <<top.block>> \o FlattenSeq(Each(Standing(V, depth), K))
<1>1. PICK b, l, d : b = top.block /\ l = top.level /\ d = depth + 1 - top.level
  OBVIOUS
<1>2. /\ b \in Blocks /\ l \in 0 .. depth /\ d \in 1 .. depth + 1 /\ d - 1 \in 0 .. depth + 1
      /\ d = depth + 1 - l
  <2>1. top.block \in Blocks /\ top.level \in 0 .. depth
    BY DEF Items
  <2>2. b \in Blocks /\ l \in 0 .. depth /\ d = depth + 1 - l
    BY <1>1, <2>1, Zenon
  <2>3. PICK m \in Nat : m = l /\ m =< depth
    BY <2>2
  <2>4. d \in 1 .. depth + 1 /\ d - 1 \in 0 .. depth + 1
    BY <2>2, <2>3
  <2> QED BY <2>2, <2>4
<1>3. V[d][b] = <<b>> \o FlattenSeq([i \in DOMAIN lists[b] |-> V[d - 1][lists[b][i]]])
  BY <1>2 DEF IsTexts, TextOf
<1>4. PICK g, list : g = V[d - 1] /\ list = lists[b]
  OBVIOUS
<1>5. g \in [Blocks -> Seq(Blocks)] /\ list \in Seq(Blocks)
  BY <1>2, <1>4
<1>6. PICK seqs : seqs = [i \in DOMAIN list |-> g[list[i]]]
  OBVIOUS
<1>7. /\ seqs \in Seq(Seq(Blocks)) /\ Len(seqs) = Len(list)
      /\ \A i \in 1 .. Len(list) : seqs[i] = g[list[i]]
  <2>1. HasTexts(g, Blocks, Blocks)
    BY <1>5 DEF HasTexts
  <2>2. EachIs(g, list, Blocks)
    BY <1>5, <2>1, EachOf
  <2>3. seqs = Each(g, list)
    BY <1>5, <1>6, EachOverDomain
  <2> QED BY <2>2, <2>3 DEF EachIs
<1>8. Standing(V, depth)[top] = <<b>> \o FlattenSeq(seqs)
  BY <1>1, <1>3, <1>4, <1>6 DEF Standing
<1>9. PICK here : here = Each(Standing(V, depth), K)
  OBVIOUS
<1>10. CASE l < depth
  <2>1. PICK n \in Nat : n = Len(list)
    BY <1>5
  <2>2. Len(K) = n /\ \A i \in 1 .. n : K[i] = [block |-> list[i], level |-> l + 1]
    BY <1>1, <1>4, <1>10, <2>1 DEF Loaded
  <2>3. ASSUME NEW i \in 1 .. n
        PROVE  Standing(V, depth)[K[i]] = g[list[i]]
    <3>1. K[i] \in Items(depth)
      BY <2>2, ElementOfSeq
    <3>2. K[i].block = list[i] /\ K[i].level = l + 1
      BY <2>2
    <3>3. depth + 1 - (l + 1) = d - 1
      BY <1>1, <1>2
    <3>4. Standing(V, depth)[K[i]] = V[depth + 1 - K[i].level][K[i].block]
      BY <3>1 DEF Standing
    <3> QED BY <1>4, <3>2, <3>3, <3>4
  <2>4. seqs = [i \in 1 .. n |-> g[list[i]]]
    BY <1>5, <1>6, <2>1
  <2>5. here = seqs
    <3>1. here = [i \in 1 .. n |-> Standing(V, depth)[K[i]]]
      BY <1>9, <2>2 DEF Each
    <3> QED BY <2>3, <2>4, <3>1
  <2> QED BY <1>1, <1>8, <1>9, <2>5
<1>11. CASE ~(l < depth)
  <2>1. d - 1 = 0 /\ Len(K) = 0
    BY <1>1, <1>2, <1>11 DEF Loaded
  <2>2. ASSUME NEW i \in 1 .. Len(seqs)
        PROVE  seqs[i] = <<>>
    <3>1. list[i] \in Blocks
      BY <1>5, <1>7, ElementOfSeq
    <3>2. V[0][list[i]] = <<>>
      BY <3>1 DEF IsTexts
    <3> QED BY <1>4, <1>7, <2>1, <3>2
  <2>3. FlattenSeq(seqs) = <<>>
    BY <1>7, <2>2, FlatOfEmpty
  <2>4. here = <<>>
    <3>1. here = [i \in 1 .. 0 |-> Standing(V, depth)[K[i]]]
      BY <1>9, <2>1 DEF Each
    <3> QED BY <3>1
  <2>5. here \in Seq(Seq(Blocks)) /\ \A i \in 1 .. Len(here) : here[i] = <<>>
    BY <2>4, EmptySeq
  <2>6. FlattenSeq(here) = <<>>
    BY <2>5, FlatOfEmpty
  <2> QED BY <1>1, <1>8, <1>9, <2>3, <2>6
<1> QED BY <1>10, <1>11

\* A walk has returned a part of the text, or found that it does not fit.
WalkIs(w, n, text, g, depth, budget) ==
  /\ w \in Walks(depth)
  /\ \/ w.answer = "refused" /\ w.stack = <<>> /\ Len(text) > budget
     \/ /\ w.answer = "blocks" /\ Len(w.result) + Len(w.stack) =< budget
        /\ w.stack = <<>> \/ Len(w.result) = n
        /\ w.result \o ToCome(g, w.stack) = text

\* A turn keeps what was returned and what is to come together the text; it
\* refuses only when the text is longer than the budget, and never wraps round.
LEMMA VisitKeeps ==
  ASSUME NEW kids, NEW at, NEW lists, SiblingLists(lists, kids, at), NEW depth \in Nat,
         NEW V \in [0 .. depth + 1 -> [Blocks -> Seq(Blocks)]], IsTexts(V, Blocks, lists, depth + 1),
         NEW budget \in Nat, NEW text, NEW n \in Nat, NEW w,
         WalkIs(w, n, text, Standing(V, depth), depth, budget), w.stack # <<>>
  PROVE  WalkIs(Visit(w, at, depth, budget), n + 1, text, Standing(V, depth), depth, budget)
<1>1. PICK g : g = Standing(V, depth)
  OBVIOUS
<1>2. PICK D : D = Items(depth)
  OBVIOUS
<1>3. lists \in [Blocks -> Seq(Blocks)]
  BY DEF SiblingLists
<1>4. HasTexts(g, D, Blocks) /\ \A x \in D : Len(g[x]) # 0
  BY <1>1, <1>2, <1>3, StandingIs
<1>5. /\ w \in Walks(depth) /\ w.answer = "blocks" /\ Len(w.result) + Len(w.stack) =< budget
      /\ Len(w.result) = n /\ w.result \o ToCome(g, w.stack) = text
  BY <1>1 DEF WalkIs
<1>6. PICK stack, result : stack = w.stack /\ result = w.result
  OBVIOUS
<1>7. stack \in Seq(D) /\ stack # <<>> /\ result \in Seq(Blocks)
  BY <1>2, <1>5, <1>6 DEF Walks
<1>8. PICK v : v = Visit(w, at, depth, budget)
  OBVIOUS
<1>9. PICK top \in D, rest \in Seq(D), K \in Seq(D) :
        /\ top = Last(stack) /\ rest = Front(stack) /\ Loaded(K, lists, top, depth)
        /\ Turned(v, w, top, rest, K, budget)
  <2>1. VisitGives(w, at, depth, budget, lists)
    BY <1>5, VisitIs
  <2> QED BY <1>2, <1>6, <1>8, <2>1 DEF VisitGives
<1>10. PICK m \in Nat, k \in Nat : m = Len(stack) /\ k = Len(K) /\ m # 0
  BY <1>7, <1>9, EmptySeq
<1>11. Len(rest) = m - 1 /\ ToCome(g, stack) = g[top] \o ToCome(g, rest)
  <2>1. /\ Len(Front(stack)) = Len(stack) - 1
        /\ ToCome(g, stack) = g[Last(stack)] \o ToCome(g, Front(stack))
    BY <1>4, <1>7, TopComes
  <2> QED BY <1>9, <1>10, <2>1, Zenon
<1>12. PICK here : here = Each(g, K)
  OBVIOUS
<1>13. PICK flat, later, one : flat = FlattenSeq(here) /\ later = ToCome(g, rest) /\ one = <<top.block>>
  OBVIOUS
<1>14. /\ here \in Seq(Seq(Blocks)) /\ rest \o Reverse(K) \in Seq(D)
       /\ Len(rest \o Reverse(K)) = m - 1 + k
  BY <1>4, <1>9, <1>10, <1>11, <1>12, WaitingOf
<1>15. flat \in Seq(Blocks) /\ later \in Seq(Blocks) /\ ToCome(g, rest \o Reverse(K)) = flat \o later
  <2>1. /\ FlattenSeq(Each(g, K)) \in Seq(Blocks) /\ ToCome(g, rest) \in Seq(Blocks)
        /\ ToCome(g, rest \o Reverse(K)) = FlattenSeq(Each(g, K)) \o ToCome(g, rest)
    BY <1>4, ToComeOf
  <2> QED BY <1>12, <1>13, <2>1, Zenon
<1>16. top.block \in Blocks /\ one \in Seq(Blocks) /\ Len(one) = 1
  <2>1. top.block \in Blocks
    BY <1>2, <1>9 DEF Items
  <2> QED BY <1>13, <2>1
<1>17. g[top] = one \o flat
  BY <1>1, <1>2, <1>3, <1>9, <1>12, <1>13, TextComes
<1>18. text = result \o ((one \o flat) \o later)
  BY <1>5, <1>6, <1>11, <1>13, <1>17
<1>19. text = (result \o one) \o (flat \o later)
  <2>1. (one \o flat) \o later = one \o (flat \o later)
    <3>1. Associates(one, flat, later)
      BY <1>15, <1>16, Joins
    <3> QED BY <3>1 DEF Associates
  <2>2. flat \o later \in Seq(Blocks)
    <3>1. JoinIs(Blocks, flat, later)
      BY <1>15, JoinLength
    <3> QED BY <3>1 DEF JoinIs
  <2>3. (result \o one) \o (flat \o later) = result \o (one \o (flat \o later))
    <3>1. Associates(result, one, flat \o later)
      BY <1>7, <1>16, <2>2, Joins
    <3> QED BY <3>1 DEF Associates
  <2> QED BY <1>18, <2>1, <2>3
<1>20. k =< Len(flat) /\ m - 1 =< Len(later)
  <2>1. \A i \in 1 .. Len(here) : Len(here[i]) # 0
    <3>1. here = [i \in 1 .. k |-> g[K[i]]]
      BY <1>10, <1>12 DEF Each
    <3>2. Len(here) = k /\ \A i \in 1 .. k : here[i] = g[K[i]]
      BY <3>1
    <3>3. \A i \in 1 .. k : K[i] \in D
      BY <1>10, ElementOfSeq
    <3> QED BY <1>4, <3>2, <3>3
  <2>2. Len(here) =< Len(FlattenSeq(here)) /\ Len(here) = k
    <3>1. here \in Seq(Seq(Blocks))
      BY <1>14
    <3>2. Len(here) =< Len(FlattenSeq(here))
      BY <2>1, <3>1, FlatLength
    <3>3. here = [i \in 1 .. k |-> g[K[i]]]
      BY <1>10, <1>12 DEF Each
    <3>4. Len(here) = k
      BY <3>3
    <3> QED BY <3>2, <3>4
  <2>3. PICK ws : ws = Waiting(g, rest)
    OBVIOUS
  <2>4. ws \in Seq(Seq(Blocks)) /\ Len(ws) = m - 1
    <3>1. HasTexts(g, D, Blocks) /\ rest \in Seq(D) /\ Len(rest) = m - 1
      BY <1>4, <1>9, <1>11
    <3>2. Waiting(g, rest) \in Seq(Seq(Blocks)) /\ Len(Waiting(g, rest)) = Len(rest)
      BY <3>1, WaitingIs
    <3> QED BY <2>3, <3>1, <3>2, Zenon
  <2>5. \A i \in 1 .. Len(ws) : Len(ws[i]) # 0
    <3> TAKE i \in 1 .. Len(ws)
    <3>1. PICK j : j = Len(rest) + 1 - i
      OBVIOUS
    <3>2. j \in 1 .. Len(rest)
      <4>1. PICK c \in Nat : c = Len(rest)
        BY <1>9, LenProperties
      <4>2. i \in 1 .. c
        BY <1>11, <2>4, <4>1, Zenon
      <4>3. c + 1 - i \in 1 .. c
        BY <4>2
      <4> QED BY <3>1, <4>1, <4>3, Zenon
    <3>3. rest[j] \in D
      BY <1>9, <3>2, ElementOfSeq
    <3>4. ws[i] = g[rest[j]]
      <4>1. i \in 1 .. Len(rest)
        BY <1>11, <2>4
      <4> QED BY <2>3, <3>1, <4>1 DEF Waiting
    <3> QED BY <1>4, <3>3, <3>4
  <2>6. Len(ws) =< Len(FlattenSeq(ws))
    BY <2>4, <2>5, FlatLength
  <2>7. flat = FlattenSeq(here) /\ later = FlattenSeq(ws)
    BY <1>13, <2>3 DEF ToCome
  <2> QED BY <2>2, <2>4, <2>6, <2>7
<1>21. Len(text) = n + 1 + Len(flat) + Len(later) /\ Len(flat) \in Nat /\ Len(later) \in Nat
  <2>1. result \o one \in Seq(Blocks) /\ Len(result \o one) = Len(result) + 1
    <3>1. JoinIs(Blocks, result, one)
      BY <1>7, <1>16, JoinLength
    <3> QED BY <1>16, <3>1 DEF JoinIs
  <2>2. flat \o later \in Seq(Blocks) /\ Len(flat \o later) = Len(flat) + Len(later)
    <3>1. JoinIs(Blocks, flat, later)
      BY <1>15, JoinLength
    <3> QED BY <3>1 DEF JoinIs
  <2>3. Len((result \o one) \o (flat \o later)) = Len(result \o one) + Len(flat \o later)
    <3>1. JoinIs(Blocks, result \o one, flat \o later)
      BY <2>1, <2>2, JoinLength
    <3> QED BY <3>1 DEF JoinIs
  <2>4. Len(flat) \in Nat /\ Len(later) \in Nat /\ Len(result) = n
    BY <1>5, <1>6, <1>15
  <2>5. PICK p, q : p = Len(flat) /\ q = Len(later)
    OBVIOUS
  <2>6. (n + 1) + (p + q) = n + 1 + p + q
    BY <2>4, <2>5
  <2> QED BY <1>19, <2>1, <2>2, <2>3, <2>4, <2>5, <2>6
<1>22. n + m =< budget
  BY <1>5, <1>6, <1>10
<1>23. CASE k > budget - n - m /\ v = Ended(w, "refused")
  <2>1. v \in Walks(depth) /\ v.stack = <<>> /\ v.answer = "refused"
    BY <1>5, <1>23, EndedIs
  <2>2. Len(text) > budget
    <3>1. PICK p \in Nat, q \in Nat : p = Len(flat) /\ q = Len(later)
      BY <1>21
    <3>2. n + 1 + p + q > budget
      BY <1>10, <1>20, <1>23, <3>1
    <3> QED BY <1>21, <3>1, <3>2
  <2>3. WalkIs(v, n + 1, text, g, depth, budget)
    BY <2>1, <2>2 DEF WalkIs
  <2> QED BY <1>1, <1>8, <2>3
<1>24. CASE /\ k =< budget - n - m
            /\ v = [w EXCEPT !.result = Append(w.result, top.block), !.stack = rest \o Reverse(K)]
  <2>1. PICK next : next = rest \o Reverse(K)
    OBVIOUS
  <2>2. next \in Seq(Items(depth))
    BY <1>2, <1>14, <2>1
  <2>3. v = [w EXCEPT !.result = Append(w.result, top.block), !.stack = next]
    BY <1>24, <2>1
  <2>4. /\ v \in Walks(depth) /\ v.stack = next /\ v.answer = "blocks"
        /\ v.result = result \o one /\ Len(v.result) = n + 1
    <3>1. w \in Walks(depth) /\ top.block \in Blocks
      BY <1>5, <1>16
    <3>2. /\ v \in Walks(depth) /\ v.stack = next /\ v.answer = w.answer
          /\ v.result = w.result \o <<top.block>> /\ Len(v.result) = Len(w.result) + 1
      <4>1. ReturnedGives(Returned(w, top.block, next), w, top.block, next, depth)
        BY <2>2, <3>1, ReturnedIs
      <4>2. v = Returned(w, top.block, next)
        BY <2>3 DEF Returned
      <4> QED BY <4>1, <4>2 DEF ReturnedGives
    <3> QED BY <1>5, <1>6, <1>13, <3>2
  <2>5. Len(v.result) + Len(v.stack) =< budget
    <3>1. Len(v.stack) = m - 1 + k
      BY <1>14, <2>1, <2>4
    <3>2. (n + 1) + (m - 1 + k) =< budget
      BY <1>10, <1>24
    <3> QED BY <2>4, <3>1, <3>2
  <2>6. v.result \o ToCome(g, v.stack) = text
    BY <1>15, <1>19, <2>1, <2>4
  <2>7. WalkIs(v, n + 1, text, g, depth, budget)
    BY <2>4, <2>5, <2>6 DEF WalkIs
  <2> QED BY <1>1, <1>8, <2>7
<1>25. n # budget /\ ~(budget - n - m < 0)
  BY <1>10, <1>22
<1> QED BY <1>5, <1>6, <1>9, <1>10, <1>23, <1>24, <1>25 DEF Turned

\* The walk ends with the text, or refuses it.
WalkEnds(w, text, budget) ==
  /\ w.stack = <<>>
  /\ \/ w.answer = "refused" /\ Len(text) > budget
     \/ w.answer = "blocks" /\ Len(text) =< budget /\ w.result = text

\* After budget + 1 turns the walk has ended: with the text, if the budget holds
\* it, and otherwise with the refusal.
LEMMA SubtreeIs ==
  ASSUME NEW kids, NEW at, NEW lists, SiblingLists(lists, kids, at), NEW depth \in Nat,
         NEW V \in [0 .. depth + 1 -> [Blocks -> Seq(Blocks)]], IsTexts(V, Blocks, lists, depth + 1),
         NEW budget \in Nat, budget # 0, NEW root \in Blocks, NEW text,
         text = IF ContentAt(root, at).deleted THEN <<>> ELSE V[depth + 1][root]
  PROVE  WalkEnds(Subtree(root, at, depth, budget), text, budget)
<1>1. PICK g, D : g = Standing(V, depth) /\ D = Items(depth)
  OBVIOUS
<1>2. HasTexts(g, D, Blocks)
  <2>1. lists \in [Blocks -> Seq(Blocks)]
    BY DEF SiblingLists
  <2> QED BY <1>1, <2>1, StandingIs
<1>3. PICK start : start = IF ContentAt(root, at).deleted THEN <<>>
                           ELSE <<[block |-> root, level |-> 0]>>
  OBVIOUS
<1>4. PICK base : base = [result |-> <<>>, stack |-> start, answer |-> "blocks"]
  OBVIOUS
<1>5. WalkIs(base, 0, text, g, depth, budget)
  <2>1. <<>> \in Seq(Blocks) /\ <<>> \in Seq(D)
    BY EmptySeq
  <2>2. base.result = <<>> /\ base.stack = start /\ base.answer = "blocks" /\ Len(base.result) = 0
    BY <1>4, EmptySeq
  <2>3. CASE ContentAt(root, at).deleted
    <3>1. start = <<>> /\ text = <<>>
      BY <1>3, <2>3
    <3>2. base \in Walks(depth)
      BY <1>1, <1>4, <2>1, <3>1 DEF Walks
    <3>3. ToCome(g, <<>>) = <<>>
      BY <1>2, NothingToCome
    <3>4. base.result \o ToCome(g, base.stack) = text
      BY <2>1, <2>2, <3>1, <3>3, ConcatEmptySeq
    <3>5. Len(base.result) + Len(base.stack) =< budget
      BY <2>2, <3>1, EmptySeq
    <3> QED BY <2>2, <3>1, <3>2, <3>4, <3>5 DEF WalkIs
  <2>4. CASE ~ContentAt(root, at).deleted
    <3>1. PICK item : item = [block |-> root, level |-> 0]
      OBVIOUS
    <3>2. item \in D /\ item.block = root /\ item.level = 0
      BY <1>1, <3>1 DEF Items
    <3>3. start = <<item>> /\ text = V[depth + 1][root]
      BY <1>3, <2>4, <3>1
    <3>4. start \in Seq(D) /\ Len(start) = 1 /\ start # <<>> /\ Last(start) = item
      BY <3>2, <3>3 DEF Last
    <3>5. base \in Walks(depth)
      BY <1>1, <1>4, <2>1, <3>4 DEF Walks
    <3>6. g[item] = text
      <4>1. depth + 1 - 0 = depth + 1
        OBVIOUS
      <4> QED BY <1>1, <3>2, <3>3, <4>1 DEF Standing
    <3>7. Front(start) = <<>>
      <4>1. start \in Seq(D) /\ start # <<>>
        BY <3>4
      <4>2. Front(start) \in Seq(D) /\ Len(Front(start)) = Len(start) - 1
        BY <1>2, <4>1, TopComes
      <4>3. Len(Front(start)) = 0
        BY <3>4, <4>2
      <4> QED BY <4>2, <4>3, EmptySeq
    <3>8. ToCome(g, start) = text
      <4>1. start \in Seq(D) /\ start # <<>>
        BY <3>4
      <4>2. ToCome(g, start) = g[Last(start)] \o ToCome(g, Front(start))
        BY <1>2, <4>1, TopComes
      <4>3. ToCome(g, <<>>) = <<>>
        BY <1>2, NothingToCome
      <4>4. g[item] \in Seq(Blocks)
        BY <1>2, <3>2 DEF HasTexts
      <4>5. g[item] \o <<>> = g[item]
        BY <4>4, ConcatEmptySeq
      <4> QED BY <3>4, <3>6, <3>7, <4>2, <4>3, <4>5
    <3>9. text \in Seq(Blocks)
      BY <1>2, <3>2, <3>6 DEF HasTexts
    <3>10. base.result \o ToCome(g, base.stack) = text
      BY <2>2, <3>8, <3>9, ConcatEmptySeq
    <3>11. Len(base.result) + Len(base.stack) =< budget
      BY <2>2, <3>4
    <3> QED BY <2>2, <3>5, <3>10, <3>11 DEF WalkIs
  <2> QED BY <2>3, <2>4
<1> DEFINE Step(w) == IF w.stack = <<>> THEN w ELSE Visit(w, at, depth, budget)
           step == [w \in Walks(depth) |-> Step(w)]
           Body(h) == [turn \in 0 .. budget + 1 |->
                         IF turn = 0 THEN [result |-> <<>>, stack |-> start, answer |-> "blocks"]
                         ELSE LET w == h[turn - 1]
                              IN  IF w.stack = <<>> THEN w ELSE Visit(w, at, depth, budget)]
           after == CHOOSE h : h = Body(h)
<1>6. step \in [Walks(depth) -> Walks(depth)]
  <2>1. ASSUME NEW w \in Walks(depth)
        PROVE  Step(w) \in Walks(depth)
    BY VisitIsWalk
  <2> HIDE DEF Step
  <2> QED BY <2>1
<1>7. base \in Walks(depth)
  BY <1>5 DEF WalkIs
<1>8. PICK last \in Nat : last = budget + 1
  OBVIOUS
<1>9. PICK h \in [0 .. last -> Walks(depth)] : IsTurns(h, last, base, step)
  <2> HIDE DEF step
  <2> QED BY <1>6, <1>7, TurnsExist
<1>10. h = Body(h)
  <2>1. ASSUME NEW n \in 0 .. last
        PROVE  h[n] = IF n = 0 THEN base ELSE Step(h[n - 1])
    <3>1. CASE n = 0
      BY <1>9, <3>1 DEF IsTurns
    <3>2. CASE n # 0
      <4>1. n \in 1 .. last /\ n - 1 \in 0 .. last
        BY <1>8, <3>2
      <4>2. h[n - 1] \in Walks(depth)
        BY <1>9, <4>1
      <4>3. h[n] = step[h[n - 1]]
        BY <1>9, <4>1 DEF IsTurns
      <4> QED BY <3>2, <4>2, <4>3
    <3> QED BY <3>1, <3>2
  <2>2. Body(h) = [n \in 0 .. last |-> IF n = 0 THEN base ELSE Step(h[n - 1])]
    BY <1>4, <1>8
  <2> HIDE DEF Body, Step
  <2> QED BY <1>9, <2>1, <2>2
<1>11. after = Body(after)
  <2> HIDE DEF Body
  <2> QED BY <1>10
<1>12. Subtree(root, at, depth, budget) = after[last]
  BY <1>3, <1>8 DEF Subtree
<1> HIDE DEF after
<1>13. \A n \in 0 .. last : after[n] = IF n = 0 THEN base ELSE Step(after[n - 1])
  <2>1. Body(after) = [n \in 0 .. last |-> IF n = 0 THEN base ELSE Step(after[n - 1])]
    BY <1>4, <1>8
  <2> HIDE DEF Body, Step
  <2> QED BY <1>11, <2>1
<1> DEFINE Good(n) == WalkIs(after[n], n, text, g, depth, budget)
           Bad == {n \in 0 .. last : ~Good(n)}
<1>14. Bad = {}
  <2> SUFFICES ASSUME Bad # {}
               PROVE  FALSE
    OBVIOUS
  <2>1. PICK k \in Bad : \A n \in Bad : k =< n
    <3>1. Bad \in SUBSET Nat
      BY <1>8
    <3> HIDE DEF Bad
    <3> QED BY <3>1, LeastNumber
  <2>2. k # 0
    <3>1. after[0] = base
      BY <1>8, <1>13
    <3>2. Good(0)
      BY <1>5, <3>1
    <3>3. ~Good(k)
      BY <2>1
    <3> HIDE DEF Good, Bad
    <3> QED BY <3>2, <3>3
  <2>3. PICK n \in Nat : k = n + 1 /\ n \in 0 .. last /\ k \in 0 .. last /\ ~(k =< n) /\ k - 1 = n
    <3>1. k \in 0 .. last
      BY <2>1
    <3> HIDE DEF Good, Bad
    <3>2. k - 1 \in Nat /\ k = (k - 1) + 1 /\ k - 1 \in 0 .. last /\ ~(k =< k - 1)
      BY <2>2, <3>1, OneBefore
    <3> QED BY <3>1, <3>2
  <2>4. Good(n)
    BY <2>1, <2>3
  <2>5. after[k] = Step(after[n])
    BY <1>13, <2>2, <2>3
  <2>6. Good(k)
    <3>1. PICK w : w = after[n]
      OBVIOUS
    <3>2. WalkIs(w, n, text, g, depth, budget)
      BY <2>4, <3>1
    <3>3. CASE w.stack = <<>>
      <4>1. after[k] = w
        BY <2>5, <3>1, <3>3
      <4> QED BY <3>2, <3>3, <4>1 DEF WalkIs
    <3>4. CASE w.stack # <<>>
      <4>1. after[k] = Visit(w, at, depth, budget)
        BY <2>5, <3>1, <3>4
      <4>2. WalkIs(w, n, text, Standing(V, depth), depth, budget)
        BY <1>1, <3>2
      <4>3. WalkIs(Visit(w, at, depth, budget), n + 1, text, Standing(V, depth), depth, budget)
        BY <3>4, <4>2, VisitKeeps
      <4> QED BY <1>1, <2>3, <4>1, <4>3
    <3> QED BY <3>3, <3>4
  <2> QED BY <2>1, <2>6
<1>15. PICK w : w = after[last]
  OBVIOUS
<1>16. WalkIs(w, last, text, g, depth, budget)
  <2>1. last \in 0 .. last
    BY <1>8
  <2> QED BY <1>14, <1>15, <2>1
<1>17. CASE w.answer = "refused" /\ w.stack = <<>> /\ Len(text) > budget
  BY <1>12, <1>15, <1>17 DEF WalkEnds
<1>18. CASE /\ w.answer = "blocks" /\ Len(w.result) + Len(w.stack) =< budget
            /\ w.stack = <<>> \/ Len(w.result) = last
            /\ w.result \o ToCome(g, w.stack) = text
  <2>1. w.result \in Seq(Blocks) /\ w.stack \in Seq(Items(depth))
    BY <1>16 DEF WalkIs, Walks
  <2>2. PICK p \in Nat, q \in Nat : p = Len(w.result) /\ q = Len(w.stack)
    BY <2>1
  <2>7. Len(w.result) + Len(w.stack) =< budget /\ (w.stack = <<>> \/ Len(w.result) = last)
    BY <1>18
  <2>8. p + q =< budget /\ p # last
    <3> HIDE DEF Good, Bad, Body, Step, step
    <3>1. p + q =< budget
      BY <2>2, <2>7, Zenon
    <3> QED BY <1>8, <3>1
  <2>3. w.stack = <<>>
    BY <2>2, <2>7, <2>8
  <2>4. ToCome(g, w.stack) = <<>>
    BY <1>2, <2>3, NothingToCome
  <2>5. w.result = text
    BY <1>18, <2>1, <2>4, ConcatEmptySeq
  <2>6. p =< budget
    <3> HIDE DEF Good, Bad, Body, Step, step
    <3> QED BY <2>8
  <2> QED BY <1>12, <1>15, <1>18, <2>2, <2>3, <2>5, <2>6 DEF WalkEnds
<1> QED BY <1>16, <1>17, <1>18 DEF WalkIs

-----------------------------------------------------------------------------
(***************************************************************************)
(* The export, and what the two say of a subtree read.                     *)
(***************************************************************************)
\* Among the blocks that were read a block has the children it has.
LEMMA BucketIs ==
  ASSUME NEW f, NEW at, NEW kids, TreeShape(f, at, kids), NEW lists, SiblingLists(lists, kids, at),
         NEW root \in Blocks, NEW depth \in Nat, NEW b \in Blocks,
         kids[b] \subseteq Within(kids, root, at, depth)
  PROVE  Bucket(Within(kids, root, at, depth), b, at) = lists[b]
<1>1. PICK whole : whole = Within(kids, root, at, depth)
  OBVIOUS
<1>2. \A x \in whole : x \in Blocks /\ ~f[x].deleted
  BY <1>1, WithinOf
<1>3. \A x \in Blocks : ContentAt(x, at) = f[x]
  BY DEF TreeShape
<1>4. \A x \in Blocks : x \in kids[b] <=> ~f[x].deleted /\ f[x].parent = b
  BY DEF TreeShape
<1>5. kids[b] \subseteq whole
  BY <1>1
<1>6. {x \in whole : ContentAt(x, at).parent = b} = kids[b]
  BY <1>2, <1>3, <1>4, <1>5
<1>7. Bucket(whole, b, at) = ByRank(kids[b], at)
  BY <1>6 DEF Bucket
<1>8. KidsAt(b, at) = kids[b]
  BY DEF TreeShape
<1>9. lists[b] = ByRank(kids[b], at)
  BY <1>8 DEF SiblingLists, Siblings
<1> QED BY <1>1, <1>7, <1>9

PartsAgree(V, W, list, c) == \A i \in 1 .. Len(list) : W[c][list[i]] = V[c][list[i]]

\* Two texts of one list agree when their parts do.
LEMMA TextsAgree ==
  ASSUME NEW V, NEW W, NEW lists, NEW buckets, NEW b, NEW d \in Nat,
         lists[b] \in Seq(Blocks), buckets[b] = lists[b], PartsAgree(V, W, lists[b], d - 1)
  PROVE  TextOf(W, buckets, b, d) = TextOf(V, lists, b, d)
<1>1. PICK list, g, h : list = lists[b] /\ g = V[d - 1] /\ h = W[d - 1]
  OBVIOUS
<1>2. DOMAIN list = 1 .. Len(list)
  BY <1>1
<1>3. \A i \in DOMAIN list : h[list[i]] = g[list[i]]
  BY <1>1, <1>2 DEF PartsAgree
<1>4. [i \in DOMAIN list |-> h[list[i]]] = [i \in DOMAIN list |-> g[list[i]]]
  BY <1>3
<1>5. TextOf(W, buckets, b, d) = <<b>> \o FlattenSeq([i \in DOMAIN list |-> h[list[i]]])
  BY <1>1 DEF TextOf
<1>6. TextOf(V, lists, b, d) = <<b>> \o FlattenSeq([i \in DOMAIN list |-> g[list[i]]])
  BY <1>1 DEF TextOf
<1> QED BY <1>4, <1>5, <1>6

\* A block that has no children loaded is its own text.
LEMMA BareText ==
  ASSUME NEW blocks, NEW W, NEW lists, NEW n \in Nat, IsTexts(W, blocks, lists, n), 1 =< n,
         NEW b \in blocks, lists[b] \in Seq(blocks)
  PROVE  W[1][b] = <<b>> \o <<>>
<1>1. PICK list, g : list = lists[b] /\ g = W[0]
  OBVIOUS
<1>2. PICK seqs : seqs = [i \in DOMAIN list |-> g[list[i]]]
  OBVIOUS
<1>3. W[1][b] = <<b>> \o FlattenSeq(seqs)
  <2>1. 1 \in 1 .. n /\ 1 - 1 = 0
    OBVIOUS
  <2>2. W[1][b] = TextOf(W, lists, b, 1)
    BY <2>1 DEF IsTexts
  <2> QED BY <1>1, <1>2, <2>1, <2>2 DEF TextOf
<1>4. PICK m \in Nat : m = Len(list)
  BY <1>1
<1>5. \A i \in 1 .. m : g[list[i]] = <<>>
  <2> TAKE i \in 1 .. m
  <2>1. list[i] \in blocks
    BY <1>1, <1>4, ElementOfSeq
  <2> QED BY <1>1, <2>1 DEF IsTexts
<1>6. seqs = [i \in 1 .. m |-> <<>>]
  <2>1. DOMAIN list = 1 .. m
    BY <1>1, <1>4
  <2> QED BY <1>2, <1>5, <2>1
<1>7. <<>> \in Seq(blocks)
  BY EmptySeq
<1>8. seqs \in Seq(Seq(blocks)) /\ Len(seqs) = m /\ \A i \in 1 .. Len(seqs) : seqs[i] = <<>>
  BY <1>6, <1>7
<1>9. FlattenSeq(seqs) = <<>>
  BY <1>8, FlatOfEmpty
<1> QED BY <1>3, <1>9

\* The export of a tree that was read is its text.
LEMMA ExportIsText ==
  ASSUME NEW f, NEW at, NEW kids, TreeShape(f, at, kids), NEW lists, SiblingLists(lists, kids, at),
         NEW root \in Blocks, ~f[root].deleted, NEW depth \in Nat,
         NEW V, IsTexts(V, Blocks, lists, depth + 1)
  PROVE  Exported(Within(kids, root, at, depth), root, at, depth + 1) = V[depth + 1][root]
<1>1. PICK whole : whole = Within(kids, root, at, depth)
  OBVIOUS
<1>2. PICK n \in Nat : n = depth + 1
  OBVIOUS
<1>3. whole \in SUBSET Blocks
  BY <1>1, NextLevel
<1>4. PICK buckets : buckets = [b \in whole |-> Bucket(whole, b, at)]
  OBVIOUS
<1>5. PICK W : /\ IsTexts(W, whole, buckets, n)
               /\ root \in whole => Exported(whole, root, at, n) = W[n][root]
  <2>1. ExportGive(whole, root, at, n)
    BY <1>3, ExportedOf
  <2> QED BY <1>4, <2>1 DEF ExportGive
<1>6. root \in Within(kids, root, at, 0) /\ root \in whole
  <2>1. root \in Within(kids, root, at, 0)
    BY FirstLevel
  <2>2. 0 \in Nat /\ 0 =< depth
    OBVIOUS
  <2>3. Within(kids, root, at, 0) \subseteq Within(kids, root, at, depth)
    BY <2>2, WithinGrows
  <2> QED BY <1>1, <2>1, <2>3
<1>7. ASSUME NEW b \in whole
      PROVE  buckets[b] \in Seq(whole) /\ lists[b] \in Seq(Blocks)
  <2>1. PICK S : S = {x \in whole : ContentAt(x, at).parent = b}
    OBVIOUS
  <2>2. PICK list : list = ByRank(S, at)
    OBVIOUS
  <2>3. S \in SUBSET Blocks /\ S \in SUBSET whole
    BY <1>3, <2>1
  <2>4. IsList(list, S, at)
    BY <2>2, <2>3, ByRankOf
  <2>5. list \in Seq(Blocks) /\ \A x : x \in ToSet(list) <=> x \in S
    BY <2>4 DEF IsList
  <2>6. \A i \in 1 .. Len(list) : list[i] \in ToSet(list)
    BY <2>5 DEF ToSet
  <2>7. \A i \in 1 .. Len(list) : list[i] \in whole
    BY <2>3, <2>5, <2>6
  <2>8. list \in Seq(whole)
    <3>1. PICK m \in Nat : m = Len(list)
      BY <2>5
    <3>2. [i \in 1 .. m |-> list[i]] \in Seq(whole)
      BY <2>7, <3>1
    <3>3. list = [i \in 1 .. m |-> list[i]]
      BY <2>5, <3>1
    <3> QED BY <3>2, <3>3
  <2>9. buckets[b] = list
    BY <1>4, <2>1, <2>2 DEF Bucket
  <2>10. lists[b] \in Seq(Blocks)
    BY <1>3 DEF SiblingLists
  <2> QED BY <2>8, <2>9, <2>10
<1> DEFINE Good(d) == \A b \in Within(kids, root, at, n - d) : W[d][b] = V[d][b]
           Bad == {d \in 1 .. n : ~Good(d)}
<1>8. Bad = {}
  <2> SUFFICES ASSUME Bad # {}
               PROVE  FALSE
    OBVIOUS
  <2>1. PICK d \in Bad : \A c \in Bad : d =< c
    <3>1. Bad \in SUBSET Nat
      OBVIOUS
    <3> HIDE DEF Bad
    <3> QED BY <3>1, LeastNumber
  <2>2. d \in 1 .. n /\ n - d \in Nat /\ n - d =< depth /\ d \in Nat
    BY <1>2, <2>1
  <2> SUFFICES ASSUME NEW b \in Within(kids, root, at, n - d)
               PROVE  W[d][b] = V[d][b]
    BY <2>1
  <2>3. b \in whole /\ b \in Blocks
    <3>1. Within(kids, root, at, n - d) \subseteq Within(kids, root, at, depth)
      BY <2>2, WithinGrows
    <3> QED BY <1>1, <1>3, <3>1
  <2>4. CASE d = 1
    <3>1. 1 =< n
      BY <2>2, <2>4
    <3>2. W[1][b] = <<b>> \o <<>>
      BY <1>5, <1>7, <2>3, <3>1, BareText
    <3>3. IsTexts(V, Blocks, lists, n)
      BY <1>2
    <3>4. V[1][b] = <<b>> \o <<>>
      <4>1. lists[b] \in Seq(Blocks)
        BY <1>7, <2>3
      <4> QED BY <2>3, <3>1, <3>3, <4>1, BareText
    <3> QED BY <2>4, <3>2, <3>4
  <2>5. CASE d # 1
    <3>1. PICK c \in Nat : d = c + 1
      <4>1. d - 1 \in Nat /\ d = (d - 1) + 1
        BY <2>2, <2>5
      <4> QED BY <4>1
    <3>2. c \in 1 .. n /\ ~(d =< c) /\ n - c = (n - d) + 1 /\ n - c \in Nat /\ n - c =< depth /\ d - 1 = c
      BY <1>2, <2>2, <2>5, <3>1
    <3>3. Good(c)
      BY <2>1, <3>2
    <3>4. kids[b] \subseteq Within(kids, root, at, n - c)
      <4> SUFFICES ASSUME NEW k \in kids[b]
                   PROVE  k \in Within(kids, root, at, n - c)
        OBVIOUS
      <4>1. k \in Within(kids, root, at, (n - d) + 1)
        BY <2>2, NextLevel
      <4> QED BY <3>2, <4>1
    <3>5. kids[b] \subseteq Within(kids, root, at, depth)
      BY <3>2, <3>4, WithinGrows
    <3>6. buckets[b] = lists[b]
      <4>1. Bucket(whole, b, at) = lists[b]
        BY <1>1, <2>3, <3>5, BucketIs
      <4> QED BY <1>4, <2>3, <4>1
    <3>7. \A i \in 1 .. Len(lists[b]) : lists[b][i] \in kids[b]
      <4>1. IsList(lists[b], kids[b], at)
        BY <2>3 DEF SiblingLists
      <4>2. \A x : x \in ToSet(lists[b]) <=> x \in kids[b]
        BY <4>1 DEF IsList
      <4>3. \A i \in 1 .. Len(lists[b]) : lists[b][i] \in ToSet(lists[b])
        <5>1. PICK list : list = lists[b]
          OBVIOUS
        <5>2. list \in Seq(Blocks)
          BY <1>7, <2>3, <5>1
        <5>3. \A i \in 1 .. Len(list) : list[i] \in ToSet(list)
          BY <5>2 DEF ToSet
        <5> QED BY <5>1, <5>3
      <4> QED BY <4>2, <4>3
    <3>8. \A i \in 1 .. Len(lists[b]) : W[d - 1][lists[b][i]] = V[d - 1][lists[b][i]]
      BY <3>2, <3>3, <3>4, <3>7
    <3>9. TextOf(W, buckets, b, d) = TextOf(V, lists, b, d)
      <4>1. lists[b] \in Seq(Blocks)
        BY <1>7, <2>3
      <4>2. PartsAgree(V, W, lists[b], d - 1)
        BY <3>8 DEF PartsAgree
      <4> QED BY <2>2, <3>6, <4>1, <4>2, TextsAgree
    <3>10. W[d][b] = TextOf(W, buckets, b, d)
      BY <1>5, <2>2, <2>3 DEF IsTexts
    <3>11. V[d][b] = TextOf(V, lists, b, d)
      BY <1>2, <2>2, <2>3 DEF IsTexts
    <3> QED BY <3>9, <3>10, <3>11
  <2> QED BY <2>4, <2>5
<1>9. Good(n)
  <2>1. n \in 1 .. n
    BY <1>2
  <2> HIDE DEF Good
  <2> QED BY <1>8, <2>1
<1>10. W[n][root] = V[n][root]
  <2>1. n - n = 0
    OBVIOUS
  <2> QED BY <1>6, <1>9, <2>1
<1> QED BY <1>1, <1>2, <1>5, <1>6, <1>10

\* A tree that was read is exact.
TreeIsExact(kids, at, root, depth, budget) ==
  LET whole == Within(kids, root, at, depth)
      walk  == Subtree(root, at, depth, budget)
  IN  IF Cardinality(whole) > budget THEN walk.answer = "refused"
      ELSE /\ walk.answer = "blocks" /\ walk.stack = <<>>
           /\ Len(walk.result) = Cardinality(whole)
           /\ ToSet(walk.result) = whole
           /\ Exported(whole, root, at, depth + 1) = walk.result
           /\ \A i, j \in DOMAIN walk.result :
                i < j => <<walk.result[i], walk.result[j]>> \in ReadingOrder(kids, at)

\* A subtree read of a tree that is well formed is exact.
LEMMA TreesAreExact ==
  ASSUME NEW f, NEW at, NEW kids, TreeShape(f, at, kids), WellFormed(f), NEW root \in Blocks,
         NEW depth \in 0 .. Cardinality(Blocks) - 1, NEW budget \in 1 .. Cardinality(Blocks)
  PROVE  TreeIsExact(kids, at, root, depth, budget)
<1>1. Cardinality(Blocks) \in Nat
  BY ReadsAssumption, FS_CardinalityType
<1>2. depth \in Nat /\ budget \in Nat /\ budget # 0 /\ depth + 1 =< Cardinality(Blocks)
      /\ depth =< Cardinality(Blocks)
  BY <1>1
<1>3. PICK lists : SiblingLists(lists, kids, at)
  BY SiblingsOf
<1>4. PICK n \in Nat : n = depth + 1
  BY <1>2
<1>5. PICK V \in [0 .. n -> [Blocks -> Seq(Blocks)]] : IsTexts(V, Blocks, lists, n)
  <2>1. lists \in [Blocks -> Seq(Blocks)]
    BY <1>3 DEF SiblingLists
  <2> QED BY <2>1, TextsExist DEF TextsGive
<1>6. PICK text : text = IF ContentAt(root, at).deleted THEN <<>> ELSE V[n][root]
  OBVIOUS
<1>7. PICK whole, walk : whole = Within(kids, root, at, depth) /\ walk = Subtree(root, at, depth, budget)
  OBVIOUS
<1>8. WalkEnds(walk, text, budget)
  <2>1. V \in [0 .. depth + 1 -> [Blocks -> Seq(Blocks)]] /\ IsTexts(V, Blocks, lists, depth + 1)
    BY <1>4, <1>5
  <2>2. text = IF ContentAt(root, at).deleted THEN <<>> ELSE V[depth + 1][root]
    BY <1>4, <1>6
  <2> QED BY <1>2, <1>3, <1>7, <2>1, <2>2, SubtreeIs
<1>9. ContentAt(root, at) = f[root]
  BY DEF TreeShape
<1>10. /\ text \in Seq(Blocks) /\ ToSet(text) = whole /\ Chained(text, Strictly(kids, at))
       /\ Exported(whole, root, at, n) = text
  <2>1. CASE f[root].deleted
    <3>1. text = <<>>
      BY <1>6, <1>9, <2>1
    <3>2. whole = {}
      <4> SUFFICES ASSUME NEW x \in whole
                   PROVE  FALSE
        OBVIOUS
      <4>1. ~f[root].deleted
        BY <1>2, <1>7, WithinOf
      <4> QED BY <2>1, <4>1
    <3>3. Exported(whole, root, at, n) = <<>>
      BY <3>2 DEF Exported
    <3>4. text \in Seq(Blocks) /\ ToSet(text) = {} /\ Chained(text, Strictly(kids, at))
      BY <3>1, EmptySeq DEF Chained, ToSet
    <3> QED BY <3>1, <3>2, <3>3, <3>4
  <2>2. CASE ~f[root].deleted
    <3>1. text = V[n][root] /\ n \in 0 .. n
      BY <1>4, <1>6, <1>9, <2>2
    <3>2. text \in Seq(Blocks)
      BY <1>5, <3>1
    <3>3. IsText(V[depth + 1][root], kids, at, root, depth)
      <4>1. depth + 1 =< n /\ n =< Cardinality(Blocks)
        BY <1>2, <1>4
      <4> QED BY <1>2, <1>3, <1>5, <2>2, <4>1, TextsAre
    <3>4. IsText(text, kids, at, root, depth)
      BY <1>4, <3>1, <3>3
    <3>5. Chained(text, Strictly(kids, at)) /\ \A x : x \in ToSet(text) <=> x \in whole
      BY <1>7, <3>4 DEF IsText
    <3>6. ToSet(text) = whole
      BY <3>5
    <3>7. Exported(whole, root, at, n) = text
      <4>1. PICK T : T = V
        OBVIOUS
      <4>2. IsTexts(T, Blocks, lists, depth + 1)
        BY <1>4, <1>5, <4>1
      <4>3. Exported(Within(kids, root, at, depth), root, at, depth + 1) = T[depth + 1][root]
        BY <1>2, <1>3, <2>2, <4>2, ExportIsText
      <4> QED BY <1>4, <1>7, <3>1, <4>1, <4>3
    <3> QED BY <3>2, <3>5, <3>6, <3>7
  <2> QED BY <2>1, <2>2
<1>11. Cardinality(whole) = Len(text)
  <2>1. PICK R : R = Strictly(kids, at)
    OBVIOUS
  <2>2. Chained(text, R) /\ \A e \in R : e[1] # e[2]
    BY <1>10, <2>1 DEF Strictly
  <2> QED BY <1>10, <2>2, LengthOfChain
<1>12. PICK len \in Nat : len = Len(text)
  BY <1>10
<1>13. CASE len > budget
  <2>1. Cardinality(whole) > budget /\ walk.answer = "refused"
    BY <1>2, <1>8, <1>11, <1>12, <1>13 DEF WalkEnds
  <2> QED BY <1>7, <2>1 DEF TreeIsExact
<1>14. CASE ~(len > budget)
  <2>1. ~(Cardinality(whole) > budget)
    BY <1>11, <1>12, <1>14
  <2>2. walk.answer = "blocks" /\ walk.stack = <<>> /\ walk.result = text
    BY <1>8, <1>12, <1>14 DEF WalkEnds
  <2>3. Len(walk.result) = Cardinality(whole) /\ ToSet(walk.result) = whole
    BY <1>10, <1>11, <2>2
  <2>4. Exported(whole, root, at, depth + 1) = walk.result
    BY <1>4, <1>10, <2>2
  <2>5. \A i, j \in DOMAIN walk.result :
          i < j => <<walk.result[i], walk.result[j]>> \in ReadingOrder(kids, at)
    <3>1. DOMAIN text = 1 .. Len(text)
      BY <1>10
    <3>2. \A i, j \in DOMAIN text : i < j => <<text[i], text[j]>> \in Strictly(kids, at)
      BY <1>10, <3>1 DEF Chained
    <3> QED BY <2>2, <3>2 DEF Strictly
  <2> QED BY <1>7, <2>1, <2>2, <2>3, <2>4, <2>5 DEF TreeIsExact
<1> QED BY <1>13, <1>14

\* All subtree reads of a store in an inductive state are exact.
LEMMA SubtreesExact == IInv => SubtreesAreExact
<1> SUFFICES ASSUME IInv, NEW at \in {Now} \cup txLog, NEW root \in Blocks,
                    NEW depth \in 0 .. Cardinality(Blocks) - 1, NEW budget \in 1 .. Cardinality(Blocks)
             PROVE  TreeIsExact([p \in Blocks |-> KidsAt(p, at)], at, root, depth, budget)
  BY DEF SubtreesAreExact, TreeIsExact
<1>1. PICK kids : kids = [p \in Blocks |-> KidsAt(p, at)]
  OBVIOUS
<1>2. PICK f : Reads(f, at)
  BY TreeIsRead
<1>3. IsTree(f, at, kids)
  BY <1>1, <1>2 DEF IsTree
<1>4. TreeShape(f, at, kids) /\ WellFormed(f)
  BY <1>2, <1>3, ShapeOfTree DEF Reads
<1>5. TreeIsExact(kids, at, root, depth, budget)
  BY <1>4, TreesAreExact
<1> QED BY <1>1, <1>5

-----------------------------------------------------------------------------
(***************************************************************************)
(* Histories by the page.                                                  *)
(***************************************************************************)
\* The revisions of a block.
RowsOf(b) == {v \in versions : v.block = b}

Later == {e \in versions \X versions : e[1].tx > e[2].tx}

\* A block has one revision to a transaction, and so no more than MaxTx.
LEMMA RowsAreFew ==
  ASSUME IInv, NEW b
  PROVE  /\ IsFiniteSet(RowsOf(b)) /\ Cardinality(RowsOf(b)) =< MaxTx
         /\ \A r \in RowsOf(b) : r.tx \in 1 .. MaxTx
         /\ \A r, s \in RowsOf(b) : r.tx = s.tx => r = s
<1>1. MaxTx \in Nat
  BY BoundsAssumption
<1>2. \A r \in RowsOf(b) : r.tx \in 1 .. MaxTx
  BY DEF IInv, TypeOK, VersionRow, Txs, RowsOf
<1>3. \A r, s \in RowsOf(b) : r.tx = s.tx => r = s
  BY DEF IInv, VersionsOfHeads, RowsOf
<1>4. PICK S : S = RowsOf(b)
  OBVIOUS
<1>5. PICK place : place = [r \in S |-> r.tx]
  OBVIOUS
<1>6. place \in [S -> 1 .. MaxTx] /\ \A r, s \in S : place[r] = place[s] => r = s
  BY <1>2, <1>3, <1>4, <1>5
<1>7. place \in Injection(S, 1 .. MaxTx)
  BY <1>6, Fun_IsInj
<1>8. IsFiniteSet(1 .. MaxTx) /\ Cardinality(1 .. MaxTx) = MaxTx
  BY <1>1, FS_Interval
<1>9. IsFiniteSet(S) /\ Cardinality(S) =< Cardinality(1 .. MaxTx)
  BY <1>7, <1>8, FS_Injection
<1> QED BY <1>2, <1>3, <1>4, <1>8, <1>9

\* A page has the latest of the revisions up to its bound, newest first.
IsPage(page, rows, limit) ==
  /\ page \in Seq(rows) /\ Chained(page, Later)
  /\ \A r \in rows : \/ r \in ToSet(page)
                     \/ Len(page) = limit /\ \A x \in ToSet(page) : r.tx < x.tx

\* A page of the history is a page of the revisions up to its bound.
LEMMA PageIs ==
  ASSUME IInv, NEW b, NEW before, NEW limit \in Nat
  PROVE  IsPage(History(b, before, limit), VersionRows(b, before), limit)
<1>1. PICK rows : rows = VersionRows(b, before)
  OBVIOUS
<1>2. PICK R : R = {e \in rows \X rows : e[1].tx >= e[2].tx}
  OBVIOUS
<1>3. PICK list : list = Sorted(rows, R)
  OBVIOUS
<1>4. rows \subseteq RowsOf(b) /\ rows \subseteq versions
  BY <1>1 DEF VersionRows, RowsOf
<1>5. /\ \A r \in rows : r.tx \in Nat
      /\ \A r, s \in rows : r.tx = s.tx => r = s
  BY <1>4, RowsAreFew, BoundsAssumption
<1>6. \A r, s \in rows : <<r, s>> \in R <=> r.tx >= s.tx
  BY <1>2
<1>7. Orders(rows, R)
  <2>1. \A x \in rows : <<x, x>> \in R
    BY <1>5, <1>6
  <2>2. \A x, y \in rows : <<x, y>> \in R \/ <<y, x>> \in R
    <3> TAKE x, y \in rows
    <3>1. PICK p \in Nat, q \in Nat : p = x.tx /\ q = y.tx
      BY <1>5
    <3>2. p >= q \/ q >= p
      OBVIOUS
    <3>3. x.tx >= y.tx \/ y.tx >= x.tx
      BY <3>1, <3>2
    <3> QED BY <1>6, <3>3
  <2>3. \A x, y \in rows : <<x, y>> \in R /\ <<y, x>> \in R => x = y
    <3> TAKE x, y \in rows
    <3>1. (x.tx >= y.tx /\ y.tx >= x.tx) => x.tx = y.tx
      BY <1>5
    <3> QED BY <1>5, <1>6, <3>1
  <2>4. \A x, y, z \in rows : <<x, y>> \in R /\ <<y, z>> \in R => <<x, z>> \in R
    BY <1>5, <1>6
  <2> QED BY <2>1, <2>2, <2>3, <2>4 DEF Orders
<1>8. IsFiniteSet(rows)
  <2>1. IsFiniteSet(RowsOf(b))
    BY RowsAreFew
  <2> QED BY <1>4, <2>1, FS_Subset
<1>9. Ordered(rows, R, list)
  BY <1>3, <1>7, <1>8, SortedOf
<1>10. PICK len \in Nat : len = Len(list)
  BY <1>9 DEF Ordered
<1>11. /\ list \in Seq(rows) /\ \A r \in rows : \E i \in 1 .. len : list[i] = r
       /\ \A i \in 1 .. len : list[i] \in rows
       /\ \A i, j \in 1 .. len : i < j => list[i] # list[j] /\ <<list[i], list[j]>> \in R
  <2>1. list \in Seq(rows)
    BY <1>9 DEF Ordered
  <2>2. \A i \in 1 .. len : list[i] \in rows
    BY <1>10, <2>1, ElementOfSeq
  <2> QED BY <1>9, <1>10, <2>1, <2>2 DEF Ordered
<1>12. \A i, j \in 1 .. len : i < j => list[j].tx < list[i].tx
  <2> SUFFICES ASSUME NEW i \in 1 .. len, NEW j \in 1 .. len, i < j
               PROVE  list[j].tx < list[i].tx
    OBVIOUS
  <2>1. PICK x \in rows, y \in rows : x = list[i] /\ y = list[j]
    BY <1>11
  <2>2. x # y /\ <<x, y>> \in R
    BY <1>11, <2>1
  <2>3. x.tx >= y.tx /\ x.tx # y.tx /\ x.tx \in Nat /\ y.tx \in Nat
    BY <1>5, <1>6, <2>2
  <2>4. y.tx < x.tx
    BY <2>3
  <2> QED BY <2>1, <2>4
<1>13. PICK k \in Nat : k = IF limit < len THEN limit ELSE len
  OBVIOUS
<1>14. PICK page : page = SubSeq(list, 1, k)
  OBVIOUS
<1>15. k =< len /\ (k # len => k = limit)
  BY <1>10, <1>13
<1>16. page \in Seq(rows) /\ Len(page) = k /\ \A i \in 1 .. k : page[i] = list[i]
  <2>1. \A i \in 1 .. k : list[i] \in rows
    BY <1>11, <1>15
  <2>2. k \in Int /\ 1 \in Int
    OBVIOUS
  <2>3. /\ SubSeq(list, 1, k) \in Seq(rows)
        /\ Len(SubSeq(list, 1, k)) = IF 1 <= k THEN k - 1 + 1 ELSE 0
        /\ \A i \in 1 .. k - 1 + 1 : SubSeq(list, 1, k)[i] = list[1 + i - 1]
    BY <2>1, <2>2, SubSeqProperties
  <2>4. /\ (IF 1 <= k THEN k - 1 + 1 ELSE 0) = k /\ k - 1 + 1 = k
        /\ \A i \in 1 .. k : 1 + i - 1 = i
    OBVIOUS
  <2> QED BY <1>14, <2>3, <2>4
<1>17. \A i \in 1 .. k : i \in 1 .. len /\ page[i] \in rows
  BY <1>11, <1>15, <1>16
<1>18. Chained(page, Later)
  <2> SUFFICES ASSUME NEW i \in 1 .. k, NEW j \in 1 .. k, i < j
               PROVE  <<page[i], page[j]>> \in Later
    BY <1>16 DEF Chained
  <2>1. page[j].tx < page[i].tx
    BY <1>12, <1>16, <1>17
  <2>2. page[i] \in rows /\ page[j] \in rows /\ page[i].tx \in Nat /\ page[j].tx \in Nat
    BY <1>5, <1>17
  <2>3. page[i].tx > page[j].tx
    BY <2>1, <2>2
  <2> QED BY <1>4, <2>2, <2>3 DEF Later
<1>19. ToSet(page) = {page[i] : i \in 1 .. k}
  <2>1. DOMAIN page = 1 .. k
    BY <1>16
  <2> QED BY <2>1 DEF ToSet
<1>20. ASSUME NEW r \in rows
       PROVE  \/ r \in ToSet(page)
              \/ Len(page) = limit /\ \A x \in ToSet(page) : r.tx < x.tx
  <2>1. PICK j \in 1 .. len : list[j] = r
    BY <1>11
  <2>2. CASE j =< k
    <3>1. j \in 1 .. k
      BY <2>2
    <3> QED BY <1>16, <1>19, <2>1, <3>1
  <2>3. CASE ~(j =< k)
    <3>1. k = limit /\ \A i \in 1 .. k : i < j
      BY <1>15, <2>3
    <3>2. \A i \in 1 .. k : r.tx < page[i].tx
      BY <1>12, <1>16, <1>17, <2>1, <3>1
    <3> QED BY <1>16, <1>19, <3>1, <3>2
  <2> QED BY <2>2, <2>3
<1>21. History(b, before, limit) = page
  BY <1>1, <1>2, <1>3, <1>10, <1>13, <1>14 DEF History
<1> QED BY <1>1, <1>16, <1>18, <1>20, <1>21 DEF IsPage

\* What a reader was told: the latest revisions, all of them or enough pages.
IsTold(told, b, n) ==
  /\ told \in Seq(RowsOf(b)) /\ Chained(told, Later)
  /\ \A r \in RowsOf(b) : \/ r \in ToSet(told)
                          \/ Len(told) >= n + 2 /\ \A x \in ToSet(told) : r.tx < x.tx

More(told, b) == IF told = <<>> THEN <<>> ELSE told \o Tail(History(b, Last(told).tx, 2))

\* A page that begins with the revision that ended the last one.
NextIs(page, b, last) ==
  /\ page # <<>> /\ page[1] = last /\ Tail(page) \in Seq(RowsOf(b)) /\ Chained(Tail(page), Later)
  /\ Len(page) = Len(Tail(page)) + 1 /\ Len(Tail(page)) \in Nat
  /\ \A x : x \in ToSet(page) <=> x = last \/ x \in ToSet(Tail(page))
  /\ \A x \in ToSet(Tail(page)) : x.tx < last.tx

\* The next page begins with the revision it was asked from, and goes on below.
LEMMA NextPage ==
  ASSUME IInv, NEW b, NEW last \in RowsOf(b)
  PROVE  NextIs(History(b, last.tx, 2), b, last)
<1>1. PICK rows, page : rows = VersionRows(b, last.tx) /\ page = History(b, last.tx, 2)
  OBVIOUS
<1>2. page \in Seq(rows) /\ Chained(page, Later)
      /\ \A r \in rows : \/ r \in ToSet(page)
                         \/ Len(page) = 2 /\ \A x \in ToSet(page) : r.tx < x.tx
  <2>1. IsPage(page, rows, 2)
    BY <1>1, PageIs
  <2> QED BY <2>1 DEF IsPage
<1>3. \A r \in rows : r \in RowsOf(b) /\ r.tx =< last.tx /\ r.tx \in Nat
  <2>1. \A r \in rows : r \in RowsOf(b) /\ r.tx =< last.tx
    BY <1>1 DEF VersionRows, RowsOf
  <2> QED BY <2>1, RowsAreFew, BoundsAssumption
<1>4. last \in rows /\ last.tx \in Nat
  <2>1. last.tx \in Nat
    BY RowsAreFew, BoundsAssumption
  <2> QED BY <1>1, <2>1 DEF VersionRows, RowsOf
<1>5. PICK len \in Nat : len = Len(page)
  BY <1>2
<1>6. ToSet(page) = {page[i] : i \in 1 .. len} /\ \A i \in 1 .. len : page[i] \in rows
  BY <1>2, <1>5, ElementOfSeq DEF ToSet
<1>7. \A i, j \in 1 .. len : i < j => page[i].tx > page[j].tx
  BY <1>2, <1>5 DEF Chained, Later
<1>8. len # 0
  BY <1>2, <1>4, <1>5, <1>6
<1>9. 1 \in 1 .. len /\ page[1] \in rows /\ page[1] \in ToSet(page)
  BY <1>6, <1>8
<1>10. page[1] = last
  <2>1. ~(last.tx < page[1].tx)
    BY <1>3, <1>4, <1>9
  <2>2. last \in ToSet(page)
    BY <1>2, <1>4, <1>9, <2>1
  <2>3. PICK j \in 1 .. len : page[j] = last
    BY <1>6, <2>2
  <2>4. CASE j = 1
    BY <2>3, <2>4
  <2>5. CASE j # 1
    <3>1. 1 < j
      BY <2>5
    <3>2. page[1].tx > last.tx
      BY <1>7, <1>9, <2>3, <3>1
    <3>3. page[1].tx \in Nat
      BY <1>3, <1>9
    <3> QED BY <1>4, <2>1, <3>2, <3>3
  <2> QED BY <2>4, <2>5
<1>11. PICK tail : tail = Tail(page)
  OBVIOUS
<1>12. page # <<>>
  BY <1>5, <1>8, EmptySeq
<1>13. PICK m \in Nat : m = Len(tail) /\ m = len - 1
  <2>1. Len(tail) = len - 1
    BY <1>2, <1>5, <1>11, <1>12, HeadTailProperties
  <2> QED BY <1>5, <1>8, <2>1
<1>14. tail \in Seq(rows) /\ \A i \in 1 .. m : tail[i] = page[i + 1]
  BY <1>2, <1>11, <1>12, <1>13, HeadTailProperties
<1>15. \A i \in 1 .. m : i + 1 \in 1 .. len /\ 1 < i + 1
  BY <1>13
<1>16. ToSet(tail) = {tail[i] : i \in 1 .. m}
  <2>1. DOMAIN tail = 1 .. m
    <3>1. tail \in Seq(rows)
      BY <1>14, Zenon
    <3>2. DOMAIN tail = 1 .. Len(tail)
      BY <3>1
    <3>3. Len(tail) = m
      BY <1>13, Zenon
    <3> QED BY <3>2, <3>3, Zenon
  <2> QED BY <2>1 DEF ToSet
<1>17. Chained(tail, Later)
  <2>1. \A i, j \in 1 .. m : i < j => <<tail[i], tail[j]>> \in Later
    <3> TAKE i, j \in 1 .. m
    <3>1. i < j => i + 1 < j + 1
      OBVIOUS
    <3>2. i < j => <<page[i + 1], page[j + 1]>> \in Later
      BY <1>2, <1>5, <1>15, <3>1 DEF Chained
    <3> QED BY <1>14, <3>2
  <2> QED BY <1>13, <2>1 DEF Chained
<1>18. \A x \in ToSet(tail) : x.tx < last.tx
  <2> TAKE x \in ToSet(tail)
  <2>1. PICK i \in 1 .. m : x = tail[i]
    BY <1>16
  <2>2. x = page[i + 1] /\ i + 1 \in 1 .. len /\ 1 < i + 1
    BY <1>14, <1>15, <2>1
  <2>3. last.tx > x.tx
    BY <1>7, <1>9, <1>10, <2>2
  <2>4. x.tx \in Nat
    BY <1>3, <1>6, <2>2
  <2> QED BY <1>4, <2>3, <2>4
<1>19. \A x : x \in ToSet(page) <=> x = last \/ x \in ToSet(tail)
  <2>1. ASSUME NEW i \in 1 .. len
        PROVE  page[i] = last \/ page[i] \in ToSet(tail)
    <3>1. CASE i = 1
      BY <1>10, <3>1
    <3>2. CASE i # 1
      <4>1. i - 1 \in 1 .. m /\ (i - 1) + 1 = i
        BY <1>13, <3>2
      <4>2. tail[i - 1] = page[i]
        BY <1>14, <4>1
      <4> QED BY <1>16, <4>1, <4>2
    <3> QED BY <3>1, <3>2
  <2>2. \A i \in 1 .. m : tail[i] \in ToSet(page)
    BY <1>6, <1>14, <1>15
  <2> QED BY <1>6, <1>9, <1>10, <1>16, <2>1, <2>2
<1>20. tail \in Seq(RowsOf(b))
  <2>1. rows \subseteq RowsOf(b)
    BY <1>3
  <2> QED BY <1>14, <2>1, SeqMonotonic
<1>21. Len(page) = Len(tail) + 1 /\ Len(tail) \in Nat
  BY <1>5, <1>13
<1>22. NextIs(page, b, last)
  BY <1>10, <1>11, <1>12, <1>17, <1>18, <1>19, <1>20, <1>21 DEF NextIs
<1> QED BY <1>1, <1>22

\* The last that was told is a revision, no later than the others.
LEMMA LastTold ==
  ASSUME IInv, NEW b, NEW told \in Seq(RowsOf(b)), told # <<>>
  PROVE  /\ Last(told) \in RowsOf(b) /\ Last(told) \in ToSet(told)
         /\ Chained(told, Later) => \A x \in ToSet(told) : x.tx >= Last(told).tx
<1>1. PICK m \in Nat : m = Len(told) /\ m # 0
  BY EmptySeq
<1>2. m \in 1 .. m /\ ToSet(told) = {told[i] : i \in 1 .. m} /\ Last(told) = told[m]
  BY <1>1 DEF ToSet, Last
<1>3. \A i \in 1 .. m : told[i] \in RowsOf(b)
  BY <1>1, ElementOfSeq
<1>4. \A i \in 1 .. m : told[i].tx \in Nat
  BY <1>3, RowsAreFew, BoundsAssumption
<1>5. ASSUME Chained(told, Later), NEW i \in 1 .. m
      PROVE  told[i].tx >= told[m].tx
  <2>1. CASE i = m
    BY <1>4, <2>1
  <2>2. CASE i # m
    <3>1. i < m
      BY <2>2
    <3>2. told[i].tx > told[m].tx
      BY <1>1, <1>2, <1>5, <3>1 DEF Chained, Later
    <3> QED BY <1>2, <1>4, <3>2
  <2> QED BY <2>1, <2>2
<1> QED BY <1>2, <1>3, <1>5

\* What the next page adds are revisions.
LEMMA MoreIsRows ==
  ASSUME IInv, NEW b, NEW told \in Seq(RowsOf(b))
  PROVE  More(told, b) \in Seq(RowsOf(b))
<1>1. CASE told = <<>>
  BY <1>1, EmptySeq DEF More
<1>2. CASE told # <<>>
  <2>1. PICK last, page : last = Last(told) /\ page = History(b, Last(told).tx, 2)
    OBVIOUS
  <2>2. last \in RowsOf(b)
    BY <1>2, <2>1, LastTold
  <2>3. Tail(page) \in Seq(RowsOf(b))
    BY <2>1, <2>2, NextPage DEF NextIs
  <2>4. More(told, b) = told \o Tail(page)
    BY <1>2, <2>1 DEF More
  <2> QED BY <2>3, <2>4, ConcatProperties
<1> QED BY <1>1, <1>2

\* Each page adds a revision to what was told, until all are.
LEMMA MoreIsTold ==
  ASSUME IInv, NEW b, NEW n \in Nat, NEW told, IsTold(told, b, n)
  PROVE  IsTold(More(told, b), b, n + 1)
<1>1. /\ told \in Seq(RowsOf(b)) /\ Chained(told, Later)
      /\ \A r \in RowsOf(b) : \/ r \in ToSet(told)
                              \/ Len(told) >= n + 2 /\ \A x \in ToSet(told) : r.tx < x.tx
  BY DEF IsTold
<1>2. CASE told = <<>>
  <2>1. More(told, b) = told /\ Len(told) = 0
    BY <1>2, EmptySeq DEF More
  <2>2. ~(Len(told) >= n + 2)
    BY <2>1
  <2> QED BY <1>1, <2>1, <2>2 DEF IsTold
<1>3. CASE told # <<>>
  <2>1. PICK last, page : last = Last(told) /\ page = History(b, Last(told).tx, 2)
    OBVIOUS
  <2>2. last \in RowsOf(b) /\ last \in ToSet(told) /\ \A x \in ToSet(told) : x.tx >= last.tx
    BY <1>1, <1>3, <2>1, LastTold
  <2>3. PICK tail : tail = Tail(page)
    OBVIOUS
  <2>4. /\ page # <<>> /\ page[1] = last /\ tail \in Seq(RowsOf(b)) /\ Chained(tail, Later)
        /\ Len(page) = Len(tail) + 1 /\ Len(tail) \in Nat
        /\ \A x : x \in ToSet(page) <=> x = last \/ x \in ToSet(tail)
        /\ \A x \in ToSet(tail) : x.tx < last.tx
    BY <2>1, <2>2, <2>3, NextPage DEF NextIs
  <2>5. More(told, b) = told \o tail
    BY <1>3, <2>1, <2>3 DEF More
  <2>6. \A r \in RowsOf(b) : r \in versions /\ r.tx \in Nat
    <3>1. \A r \in RowsOf(b) : r.tx \in Nat
      BY RowsAreFew, BoundsAssumption
    <3> QED BY <3>1 DEF RowsOf
  <2>7. (\A x \in ToSet(told) : x \in RowsOf(b)) /\ (\A x \in ToSet(tail) : x \in RowsOf(b))
    <3>1. \A i \in 1 .. Len(told) : told[i] \in RowsOf(b)
      BY <1>1, ElementOfSeq
    <3>2. \A i \in 1 .. Len(tail) : tail[i] \in RowsOf(b)
      BY <2>4, ElementOfSeq
    <3>3. ToSet(told) = {told[i] : i \in 1 .. Len(told)} /\ ToSet(tail) = {tail[i] : i \in 1 .. Len(tail)}
      BY <1>1, <2>4 DEF ToSet
    <3> QED BY <3>1, <3>2, <3>3
  <2>8. \A x \in ToSet(told), y \in ToSet(tail) : <<x, y>> \in Later
    <3> TAKE x \in ToSet(told), y \in ToSet(tail)
    <3>1. x.tx >= last.tx /\ y.tx < last.tx
      BY <2>2, <2>4
    <3>2. x \in RowsOf(b) /\ y \in RowsOf(b)
      BY <2>7
    <3>3. PICK p \in Nat, q \in Nat, l \in Nat : p = x.tx /\ q = y.tx /\ l = last.tx
      BY <2>2, <2>6, <3>2
    <3>4. x.tx > y.tx
      BY <3>1, <3>3
    <3> QED BY <2>6, <3>2, <3>4 DEF Later
  <2>9. PICK both : both = told \o tail
    OBVIOUS
  <2>10. Chained(both, Later) /\ ToSet(both) = ToSet(told) \cup ToSet(tail)
    BY <1>1, <2>4, <2>8, <2>9, ChainedOn
  <2>11. both \in Seq(RowsOf(b)) /\ Len(both) = Len(told) + Len(tail)
    BY <1>1, <2>4, <2>9, ConcatProperties
  <2>12. ASSUME NEW r \in RowsOf(b), r \notin ToSet(both)
         PROVE  Len(both) >= (n + 1) + 2 /\ \A x \in ToSet(both) : r.tx < x.tx
    <3>1. r \notin ToSet(told) /\ r \notin ToSet(tail)
      BY <2>10, <2>12
    <3>2. Len(told) >= n + 2 /\ \A x \in ToSet(told) : r.tx < x.tx
      BY <1>1, <3>1
    <3>3. r.tx < last.tx /\ r \notin ToSet(page)
      BY <2>2, <2>4, <3>1, <3>2
    <3>4. r \in VersionRows(b, last.tx)
      <4>1. r.tx \in Nat /\ last.tx \in Nat
        BY <2>2, <2>6
      <4>2. r.tx =< last.tx
        BY <3>3, <4>1
      <4> QED BY <4>2 DEF VersionRows, RowsOf
    <3>5. Len(page) = 2 /\ \A x \in ToSet(page) : r.tx < x.tx
      <4>1. IsPage(page, VersionRows(b, last.tx), 2)
        BY <2>1, PageIs
      <4> QED BY <3>3, <3>4, <4>1 DEF IsPage
    <3>6. Len(both) >= (n + 1) + 2
      <4>1. PICK p \in Nat, q \in Nat : p = Len(told) /\ q = Len(tail)
        BY <1>1, <2>4
      <4>2. q = 1 /\ p >= n + 2
        <5>1. q + 1 = 2
          BY <2>4, <3>5, <4>1, Zenon
        <5>2. q = 1
          BY <5>1
        <5>3. p >= n + 2
          BY <3>2, <4>1, Zenon
        <5> QED BY <5>2, <5>3
      <4>3. p + q >= (n + 1) + 2
        BY <4>2
      <4> QED BY <2>11, <4>1, <4>3
    <3>7. \A x \in ToSet(both) : r.tx < x.tx
      BY <2>4, <2>10, <3>2, <3>5
    <3> QED BY <3>6, <3>7
  <2>13. IsTold(both, b, n + 1)
    BY <2>10, <2>11, <2>12 DEF IsTold
  <2> QED BY <2>5, <2>9, <2>13
<1> QED BY <1>2, <1>3

\* The reader starts at the last transaction, which no revision is above.
LEMMA FirstTold ==
  ASSUME IInv, NEW b
  PROVE  IsTold(History(b, LatestTransaction, 2), b, 0)
<1>1. PICK last : last = LatestTransaction
  OBVIOUS
<1>2. last \in txLog \cup {None} /\ \A u \in txLog : u =< last
  <2>1. \E t \in txLog \cup {None} : \A u \in txLog : u =< t
    BY DEF IInv, LastTxExists, IsLastTx
  <2> QED BY <1>1, <2>1 DEF LatestTransaction
<1>3. VersionRows(b, last) = RowsOf(b)
  <2>1. \A v \in versions : v.tx =< last
    BY <1>2 DEF IInv, RowsAreCommitted
  <2> QED BY <2>1 DEF VersionRows, RowsOf
<1>4. PICK page : page = History(b, last, 2)
  OBVIOUS
<1>5. IsPage(page, RowsOf(b), 2)
  <2>1. IsPage(page, VersionRows(b, last), 2)
    BY <1>4, PageIs
  <2> QED BY <1>3, <2>1
<1>6. Len(page) = 2 => Len(page) >= 0 + 2
  OBVIOUS
<1>7. IsTold(page, b, 0)
  BY <1>5, <1>6 DEF IsPage, IsTold
<1> QED BY <1>1, <1>4, <1>7

\* What the pages of a block tell is exact.
HistoryIsExact(b) ==
  LET pages[n \in 0 .. MaxTx] ==
        IF n = 0 THEN History(b, LatestTransaction, 2)
        ELSE LET told == pages[n - 1]
             IN  IF told = <<>> THEN <<>>
                 ELSE told \o Tail(History(b, Last(told).tx, 2))
      told == pages[MaxTx]
  IN  /\ \A i, j \in DOMAIN told : i < j => told[i].tx > told[j].tx
      /\ {v.tx : v \in ToSet(told)} = {t \in txLog : b \in ChangedBlocks(t)}
      /\ \A i \in DOMAIN told : ContentAt(b, told[i].tx) = told[i].content
      /\ told # <<>> => Head(told).content = ContentAt(b, Now)

\* The revision of a transaction is what is read at it.
LEMMA RevisionIsRead ==
  ASSUME IInv, NEW b, NEW r \in RowsOf(b)
  PROVE  ContentAt(b, r.tx) = r.content
<1>1. r.tx \in 1 .. MaxTx /\ r.tx \in Nat /\ r.tx # Now
  BY RowsAreFew, BoundsAssumption DEF Now, None
<1>2. PICK rows : rows = VersionRows(b, r.tx)
  OBVIOUS
<1>3. r \in rows /\ rows \subseteq RowsOf(b) /\ rows \in SUBSET versions /\ \A s \in rows : s.tx =< r.tx
  BY <1>1, <1>2 DEF VersionRows, RowsOf
<1>4. PICK top : top = Latest(rows)
  OBVIOUS
<1>5. top \in rows /\ r.tx =< top.tx
  <2>1. TypeOK /\ rows # {}
    BY <1>3 DEF IInv
  <2> QED BY <1>3, <1>4, <2>1, LatestIsRow
<1>6. top = r
  <2>1. top.tx =< r.tx /\ top.tx \in Nat /\ top \in RowsOf(b)
    BY <1>3, <1>5, RowsAreFew, BoundsAssumption
  <2>2. top.tx = r.tx
    BY <1>1, <1>5, <2>1
  <2> QED BY <2>1, <2>2, RowsAreFew
<1>7. VersionAt(b, r.tx).content = Latest(rows).content
  BY <1>2, <1>3 DEF VersionAt
<1> QED BY <1>1, <1>4, <1>6, <1>7 DEF ContentAt

\* The pages of each block tell its history exactly.
LEMMA HistoryOf ==
  ASSUME IInv, NEW b \in Blocks
  PROVE  HistoryIsExact(b)
<1>1. PICK last \in Nat : last = MaxTx
  BY BoundsAssumption
<1>2. PICK base : base = History(b, LatestTransaction, 2)
  OBVIOUS
<1>3. IsTold(base, b, 0)
  BY <1>2, FirstTold
<1> DEFINE D == Seq(RowsOf(b))
           step == [told \in D |-> More(told, b)]
           Body(g) == [n \in 0 .. MaxTx |->
                         IF n = 0 THEN History(b, LatestTransaction, 2)
                         ELSE LET told == g[n - 1]
                              IN  IF told = <<>> THEN <<>>
                                  ELSE told \o Tail(History(b, Last(told).tx, 2))]
           pages == CHOOSE g : g = Body(g)
<1>4. base \in D
  BY <1>3 DEF IsTold
<1>5. step \in [D -> D]
  <2>1. \A told \in D : More(told, b) \in D
    BY MoreIsRows
  <2> HIDE DEF D
  <2> QED BY <2>1
<1>6. PICK h \in [0 .. last -> D] : IsTurns(h, last, base, step)
  <2> HIDE DEF step, D
  <2> QED BY <1>4, <1>5, TurnsExist
<1>7. \A g : Body(g) = [n \in 0 .. last |-> IF n = 0 THEN base ELSE More(g[n - 1], b)]
  BY <1>1, <1>2 DEF More
<1>8. h = Body(h)
  <2>1. ASSUME NEW n \in 0 .. last
        PROVE  h[n] = IF n = 0 THEN base ELSE More(h[n - 1], b)
    <3>1. CASE n = 0
      BY <1>6, <3>1 DEF IsTurns
    <3>2. CASE n # 0
      <4>1. n \in 1 .. last /\ n - 1 \in 0 .. last
        BY <3>2
      <4>2. h[n - 1] \in D
        BY <1>6, <4>1
      <4>3. h[n] = step[h[n - 1]]
        BY <1>6, <4>1 DEF IsTurns
      <4> HIDE DEF D
      <4> QED BY <3>2, <4>2, <4>3
    <3> QED BY <3>1, <3>2
  <2> HIDE DEF Body, D
  <2> QED BY <1>6, <1>7, <2>1
<1>9. pages = Body(pages)
  <2> HIDE DEF Body
  <2> QED BY <1>8
<1> HIDE DEF pages
<1>10. \A n \in 0 .. last : pages[n] = IF n = 0 THEN base ELSE More(pages[n - 1], b)
  <2> HIDE DEF Body
  <2> QED BY <1>7, <1>9
<1> DEFINE Good(n) == IsTold(pages[n], b, n)
           Bad == {n \in 0 .. last : ~Good(n)}
<1>11. Bad = {}
  <2> SUFFICES ASSUME Bad # {}
               PROVE  FALSE
    OBVIOUS
  <2>1. PICK k \in Bad : \A n \in Bad : k =< n
    <3>1. Bad \in SUBSET Nat
      OBVIOUS
    <3> HIDE DEF Bad
    <3> QED BY <3>1, LeastNumber
  <2>2. k # 0
    <3>1. 0 \in 0 .. last
      OBVIOUS
    <3>2. pages[0] = base
      BY <1>10, <3>1
    <3> QED BY <1>3, <2>1, <3>2
  <2>3. PICK n \in Nat : k = n + 1 /\ n \in 0 .. last /\ k \in 0 .. last /\ ~(k =< n) /\ k - 1 = n
    <3>1. k \in 0 .. last
      BY <2>1
    <3> HIDE DEF Good, Bad
    <3>2. k - 1 \in Nat /\ k = (k - 1) + 1 /\ k - 1 \in 0 .. last /\ ~(k =< k - 1)
      BY <2>2, <3>1, OneBefore
    <3> QED BY <3>1, <3>2
  <2>4. Good(n)
    BY <2>1, <2>3
  <2>5. pages[k] = More(pages[n], b)
    BY <1>10, <2>2, <2>3
  <2>6. IsTold(More(pages[n], b), b, n + 1)
    BY <2>3, <2>4, MoreIsTold
  <2>7. Good(k)
    BY <2>3, <2>5, <2>6
  <2> QED BY <2>1, <2>7
<1>12. PICK told : told = pages[MaxTx]
  OBVIOUS
<1>13. IsTold(told, b, last)
  <2>1. last \in 0 .. last
    OBVIOUS
  <2> HIDE DEF Good
  <2>2. Good(last)
    BY <1>11, <2>1
  <2> QED BY <1>1, <1>12, <2>2 DEF Good
<1>14. told \in Seq(RowsOf(b)) /\ Chained(told, Later)
  BY <1>13 DEF IsTold
<1>15. PICK len \in Nat : len = Len(told)
  BY <1>14
<1>16. /\ DOMAIN told = 1 .. len /\ ToSet(told) = {told[i] : i \in 1 .. len}
       /\ \A i \in 1 .. len : told[i] \in RowsOf(b)
  <2> HIDE DEF D, step, Body, Good, Bad
  <2>1. told \in Seq(RowsOf(b))
    BY <1>14
  <2>2. DOMAIN told = 1 .. len
    BY <1>15, <2>1
  <2>3. ToSet(told) = {told[i] : i \in 1 .. len}
    BY <2>2 DEF ToSet
  <2>4. \A i \in 1 .. len : told[i] \in RowsOf(b)
    BY <1>15, <2>1, ElementOfSeq
  <2> QED BY <2>2, <2>3, <2>4
<1>17. len =< last
  <2>1. \A e \in Later : e[1] # e[2]
    <3> SUFFICES ASSUME NEW e \in Later, e[1] = e[2]
                 PROVE  FALSE
      OBVIOUS
    <3>1. e[1] \in versions /\ e[1].tx > e[1].tx
      BY DEF Later
    <3>2. e[1].tx \in Nat
      BY <3>1, BoundsAssumption DEF IInv, TypeOK, VersionRow, Txs
    <3> QED BY <3>1, <3>2
  <2>2. PICK R : R = Later
    OBVIOUS
  <2>3. Cardinality(ToSet(told)) = len
    BY <1>14, <1>15, <2>1, <2>2, LengthOfChain
  <2>4. ToSet(told) \subseteq RowsOf(b)
    BY <1>16
  <2>5. IsFiniteSet(RowsOf(b)) /\ Cardinality(RowsOf(b)) =< MaxTx
    BY RowsAreFew
  <2>6. Cardinality(ToSet(told)) =< Cardinality(RowsOf(b))
    BY <2>4, <2>5, FS_Subset
  <2>7. Cardinality(RowsOf(b)) \in Nat
    BY <2>5, FS_CardinalityType
  <2> QED BY <1>1, <2>3, <2>5, <2>6, <2>7
<1>18. ToSet(told) = RowsOf(b)
  <2>1. ~(Len(told) >= last + 2)
    BY <1>15, <1>17
  <2>2. RowsOf(b) \subseteq ToSet(told)
    BY <1>13, <2>1 DEF IsTold
  <2> QED BY <1>16, <2>2
<1>19. \A i, j \in DOMAIN told : i < j => told[i].tx > told[j].tx
  BY <1>14, <1>15, <1>16 DEF Chained, Later
<1>20. {v.tx : v \in ToSet(told)} = {t \in txLog : b \in ChangedBlocks(t)}
  <2>1. changes = {<<v.tx, v.block>> : v \in versions} /\ txLog = {v.tx : v \in versions}
    BY DEF IInv, RowsAreCommitted
  <2>2. \A t : <<t, b>> \in changes <=> \E v \in RowsOf(b) : v.tx = t
    BY <2>1 DEF RowsOf
  <2>3. \A t : b \in ChangedBlocks(t) <=> <<t, b>> \in changes
    BY DEF ChangedBlocks
  <2>4. \A v \in RowsOf(b) : v.tx \in txLog
    BY <2>1 DEF RowsOf
  <2> QED BY <1>18, <2>2, <2>3, <2>4
<1>21. \A i \in DOMAIN told : ContentAt(b, told[i].tx) = told[i].content
  BY <1>16, RevisionIsRead
<1>22. ASSUME told # <<>>
       PROVE  Head(told).content = ContentAt(b, Now)
  <2>1. len # 0
    BY <1>14, <1>15, <1>22, EmptySeq
  <2>2. 1 \in 1 .. len /\ Head(told) = told[1] /\ told[1] \in RowsOf(b)
    BY <1>14, <1>15, <1>16, <1>22, <2>1
  <2>3. PICK h1 : h1 = [block |-> b, tx |-> heads[b].tx, content |-> heads[b].content]
    OBVIOUS
  <2>4. \A r \in RowsOf(b) : r.tx =< heads[b].tx /\ r.tx \in Nat /\ r.tx # None
    <3>1. \A r \in RowsOf(b) : r.tx =< heads[b].tx
      BY DEF IInv, VersionsOfHeads, RowsOf
    <3>2. \A r \in RowsOf(b) : r.tx \in 1 .. MaxTx
      BY RowsAreFew
    <3> QED BY <3>1, <3>2, BoundsAssumption DEF None
  <2>5. heads[b].tx # None
    <3>1. heads[b].tx \in Nat
      BY BoundsAssumption DEF IInv, TypeOK, HeadRow, Revisions, Txs, None
    <3>2. told[1].tx =< heads[b].tx /\ told[1].tx \in Nat /\ told[1].tx # 0
      BY <2>2, <2>4 DEF None
    <3> QED BY <3>1, <3>2 DEF None
  <2>6. h1 \in RowsOf(b) /\ h1.tx = heads[b].tx /\ h1.content = heads[b].content
    BY <2>3, <2>5 DEF IInv, VersionsOfHeads, RowsOf
  <2>7. PICK j \in 1 .. len : told[j] = h1
    BY <1>16, <1>18, <2>6
  <2>8. j = 1
    <3> SUFFICES ASSUME j # 1
                 PROVE  FALSE
      OBVIOUS
    <3>1. 1 < j
      OBVIOUS
    <3>2. told[1].tx > h1.tx
      BY <1>16, <1>19, <2>2, <2>7, <3>1
    <3>3. told[1].tx =< h1.tx /\ told[1].tx \in Nat /\ h1.tx \in Nat
      BY <2>2, <2>4, <2>6
    <3> QED BY <3>2, <3>3
  <2> QED BY <2>2, <2>6, <2>7, <2>8 DEF ContentAt
<1> HIDE DEF Body
<1> QED BY <1>12, <1>19, <1>20, <1>21, <1>22 DEF HistoryIsExact, pages, Body

\* All histories of a store in an inductive state are exact.
LEMMA HistoriesExact == IInv => HistoriesAreExact
<1> SUFFICES ASSUME IInv
             PROVE  HistoriesAreExact
  OBVIOUS
<1>1. \A b \in Blocks : HistoryIsExact(b)
  BY HistoryOf
<1>2. ASSUME NEW t \in txLog
      PROVE  ChangedBlocks(t) # {}
  <2>1. changes = {<<v.tx, v.block>> : v \in versions} /\ txLog = {v.tx : v \in versions}
    BY DEF IInv, RowsAreCommitted
  <2>2. PICK v \in versions : v.tx = t
    BY <2>1
  <2>3. v.block \in Blocks /\ <<t, v.block>> \in changes
    BY <2>1, <2>2 DEF IInv, TypeOK, VersionRow
  <2> QED BY <2>3 DEF ChangedBlocks
<1> QED BY <1>1, <1>2 DEF HistoriesAreExact, HistoryIsExact

\* The reads of many rows are exact in every reachable state, for any finite set
\* of blocks and any number of transactions: the pages of a history tell every
\* version once and newest first (history, changed_blocks), and a subtree read
\* within its depth and budget returns the live blocks once each and in reading
\* order, as the export has them, or is refused (subtree, exportDocument).
THEOREM ReadsAreExactHolds == Spec => []ReadsAreExact
<1>1. IInv => ReadsAreExact
  BY SubtreesExact, HistoriesExact DEF ReadsAreExact
<1> QED BY <1>1, Invariance, PTL
=============================================================================
