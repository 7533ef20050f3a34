-------------------------- MODULE DocMemoryProofs --------------------------
(***************************************************************************)
(* Proofs about the memory service, for any blocks, projects, calls and    *)
(* contents: what several clients do to the store through awaits.          *)
(***************************************************************************)
EXTENDS DocMemory, DocStoreProofs, FiniteSetTheorems, WellFoundedInduction

-----------------------------------------------------------------------------
(***************************************************************************)
(* Walks down a tree, level by level.                                      *)
(***************************************************************************)
Depth == Cardinality(Blocks)

\* g[n] holds the blocks at most n steps below b, K the children of each.
LevelsOf(g, K, b) ==
  /\ DOMAIN g = 0 .. Depth
  /\ g[0] = {b}
  /\ \A n \in 1 .. Depth : g[n] = g[n - 1] \cup UNION {K[x] : x \in g[n - 1]}

\* A set of numbers that is not empty has a least one.
LEMMA LeastNumber ==
  ASSUME NEW S \in SUBSET Nat, S # {}
  PROVE  \E x \in S : \A y \in S : x =< y
<1> DEFINE Less == {ss \in Nat \X Nat : ss[1] < ss[2]}
<1>1. IsWellFoundedOn(Less, Nat)
  BY NatLessThanWellFounded, Zenon DEF OpToRel
<1>2. \A x, y \in Nat : y < x => <<y, x>> \in Less
  OBVIOUS
<1> HIDE DEF Less
<1>3. PICK x \in S : \A y \in S : ~ (<<y, x>> \in Less)
  BY <1>1, WFMin
<1>4. \A y \in S : ~(y < x)
  BY <1>2, <1>3
<1> QED BY <1>4

\* No path down a tree is longer than there are blocks, and they are finite.
LEMMA DepthIsNatural == Depth \in Nat
  BY MemoryAssumption, FS_CardinalityType DEF Depth

\* There is such a walk, whatever the children are.
LEMMA LevelsExist ==
  ASSUME NEW K, NEW b
  PROVE  \E g : LevelsOf(g, K, b)
<1> DEFINE Upto(m, g) ==
             /\ DOMAIN g = 0 .. m
             /\ g[0] = {b}
             /\ \A n \in 1 .. m : g[n] = g[n - 1] \cup UNION {K[x] : x \in g[n - 1]}
           Bad == {m \in Nat : ~ \E g : Upto(m, g)}
<1>1. Bad = {}
  <2> SUFFICES ASSUME Bad # {}
               PROVE  FALSE
    OBVIOUS
  <2>1. PICK m \in Bad : \A n \in Bad : m =< n
    <3> HIDE DEF Bad
    <3>1. Bad \in SUBSET Nat
      BY DEF Bad
    <3> QED BY <3>1, LeastNumber
  <2>2. m # 0
    <3>1. Upto(0, [n \in 0 .. 0 |-> {b}])
      OBVIOUS
    <3>2. 0 \notin Bad
      BY <3>1
    <3> QED BY <2>1, <3>2
  <2>3. m \in Nat /\ m - 1 \in Nat /\ ~(m =< m - 1)
    BY <2>1, <2>2
  <2>4. PICK h : Upto(m - 1, h)
    BY <2>1, <2>3
  <2> DEFINE g == [n \in 0 .. m |-> IF n = m
                     THEN h[m - 1] \cup UNION {K[x] : x \in h[m - 1]} ELSE h[n]]
  <2>5. Upto(m, g)
    <3>1. DOMAIN g = 0 .. m /\ g[0] = h[0]
      BY <2>2, <2>3
    <3>2. g[m] = h[m - 1] \cup UNION {K[x] : x \in h[m - 1]} /\ g[m - 1] = h[m - 1]
      BY <2>3
    <3>3. \A n \in 1 .. m - 1 : g[n] = h[n] /\ g[n - 1] = h[n - 1]
      BY <2>3
    <3> HIDE DEF g
    <3>4. \A n \in 1 .. m : g[n] = g[n - 1] \cup UNION {K[x] : x \in g[n - 1]}
      <4> TAKE n \in 1 .. m
      <4>1. CASE n = m
        BY <4>1, <3>2
      <4>2. CASE n # m
        <5>1. n \in 1 .. m - 1
          BY <4>2, <2>3
        <5> QED BY <5>1, <3>3, <2>4
      <4> QED BY <4>1, <4>2
    <3> QED BY <3>1, <3>4, <2>4
  <2> QED BY <2>1, <2>5
<1>2. \E g : Upto(Depth, g)
  BY <1>1, DepthIsNatural
<1> QED BY <1>2 DEF LevelsOf

\* A walk stays in every set that its root is in and that is closed under K.
LEMMA LevelsStayIn ==
  ASSUME NEW K, NEW b, NEW g, LevelsOf(g, K, b),
         NEW X, b \in X, \A x \in X : K[x] \subseteq X
  PROVE  \A n \in 0 .. Depth : g[n] \subseteq X
<1> DEFINE Bad == {n \in 0 .. Depth : ~(g[n] \subseteq X)}
<1> SUFFICES ASSUME Bad # {}
             PROVE  FALSE
  OBVIOUS
<1>1. PICK m \in Bad : \A n \in Bad : m =< n
  <2>1. Bad \in SUBSET Nat
    OBVIOUS
  <2> HIDE DEF Bad
  <2> QED BY <2>1, LeastNumber
<1>2. m # 0
  BY <1>1 DEF LevelsOf
<1>3. m \in 1 .. Depth /\ m - 1 \in 0 .. Depth /\ ~(m =< m - 1)
  BY <1>1, <1>2, DepthIsNatural
<1>4. g[m - 1] \subseteq X
  BY <1>1, <1>3
<1>5. g[m] = g[m - 1] \cup UNION {K[x] : x \in g[m - 1]}
  BY <1>3 DEF LevelsOf
<1>6. g[m] \subseteq X
  BY <1>4, <1>5
<1> QED BY <1>1, <1>6

\* A walk depends on the children of the blocks it has passed only.
LEMMA LevelsDepend ==
  ASSUME NEW K, NEW L, NEW b, NEW g, NEW h, LevelsOf(g, K, b), LevelsOf(h, L, b),
         \A n \in 1 .. Depth : \A x \in g[n - 1] : K[x] = L[x]
  PROVE  g[Depth] = h[Depth] /\ \A n \in 0 .. Depth : g[n] = h[n]
<1> DEFINE Bad == {n \in 0 .. Depth : g[n] # h[n]}
<1>0. Bad = {}
  <2> SUFFICES ASSUME Bad # {}
               PROVE  FALSE
    OBVIOUS
  <2>1. PICK m \in Bad : \A n \in Bad : m =< n
    <3>1. Bad \in SUBSET Nat
      OBVIOUS
    <3> HIDE DEF Bad
    <3> QED BY <3>1, LeastNumber
  <2>2. m # 0
    BY <2>1 DEF LevelsOf
  <2>3. m \in 1 .. Depth /\ m - 1 \in 0 .. Depth /\ ~(m =< m - 1)
    BY <2>1, <2>2, DepthIsNatural
  <2>4. g[m - 1] = h[m - 1]
    BY <2>1, <2>3
  <2>5. /\ g[m] = g[m - 1] \cup UNION {K[x] : x \in g[m - 1]}
        /\ h[m] = h[m - 1] \cup UNION {L[x] : x \in h[m - 1]}
    BY <2>3 DEF LevelsOf
  <2>6. UNION {K[x] : x \in g[m - 1]} = UNION {L[x] : x \in h[m - 1]}
    BY <2>3, <2>4
  <2>7. g[m] = h[m]
    BY <2>4, <2>5, <2>6
  <2> QED BY <2>1, <2>7
<1> QED BY <1>0, DepthIsNatural

\* What the levels of a walk grow by.
LEMMA LevelsGrow ==
  ASSUME NEW K, NEW b, NEW g, LevelsOf(g, K, b)
  PROVE  /\ b \in g[Depth]
         /\ \A n \in 0 .. Depth : g[n] \subseteq g[Depth]
         /\ \A n \in 1 .. Depth : \A x \in g[n - 1] : K[x] \subseteq g[Depth]
<1> DEFINE Bad == {m \in Nat : m =< Depth /\ ~(g[Depth - m] \subseteq g[Depth])}
<1>1. Bad = {}
  <2> SUFFICES ASSUME Bad # {}
               PROVE  FALSE
    OBVIOUS
  <2>1. PICK m \in Bad : \A n \in Bad : m =< n
    <3>1. Bad \in SUBSET Nat
      OBVIOUS
    <3> HIDE DEF Bad
    <3> QED BY <3>1, LeastNumber
  <2>2. m # 0
    BY <2>1, DepthIsNatural
  <2>3. m - 1 \in Nat /\ m - 1 =< Depth /\ ~(m =< m - 1)
    BY <2>1, <2>2, DepthIsNatural
  <2>4. g[Depth - (m - 1)] \subseteq g[Depth]
    BY <2>1, <2>3
  <2>5. /\ Depth - (m - 1) \in 1 .. Depth
        /\ (Depth - (m - 1)) - 1 = Depth - m
    BY <2>1, <2>2, DepthIsNatural
  <2>6. g[Depth - m] \subseteq g[Depth - (m - 1)]
    BY <2>5 DEF LevelsOf
  <2> QED BY <2>1, <2>4, <2>6
<1>2. \A n \in 0 .. Depth : g[n] \subseteq g[Depth]
  <2> TAKE n \in 0 .. Depth
  <2>1. Depth - n \in Nat /\ Depth - n =< Depth /\ Depth - (Depth - n) = n
    BY DepthIsNatural
  <2> QED BY <1>1, <2>1
<1>3. b \in g[Depth]
  BY <1>2, DepthIsNatural DEF LevelsOf
<1>4. \A n \in 1 .. Depth : \A x \in g[n - 1] : K[x] \subseteq g[n]
  BY DEF LevelsOf
<1>5. \A n \in 1 .. Depth : n \in 0 .. Depth
  OBVIOUS
<1> QED BY <1>2, <1>3, <1>4, <1>5

-----------------------------------------------------------------------------
(***************************************************************************)
(* The subtree read is such a walk.                                        *)
(***************************************************************************)
IsWalk(g, b, at) ==
  g = [n \in 0 .. Cardinality(Blocks) |->
         IF n = 0 THEN {b}
         ELSE g[n - 1] \cup UNION {Children(x, at) : x \in g[n - 1]}]

SubtreeIsWalk ==
  \A b \in Blocks, at \in Revisions :
    \A K \in [Blocks -> SUBSET Blocks] : \A g :
      LevelsOf(g, K, b) /\ (\A x \in Blocks : Children(x, at) = K[x]) =>
        Subtree(b, at) = IF Get(b, at).content.deleted THEN {} ELSE g[Depth]

\* So every walk gives the subtree read.
LEMMA SubtreeByLevels == SubtreeIsWalk
<1> SUFFICES ASSUME NEW b \in Blocks, NEW at \in Revisions,
                    NEW K \in [Blocks -> SUBSET Blocks], NEW g,
                    LevelsOf(g, K, b), \A x \in Blocks : Children(x, at) = K[x]
             PROVE  Subtree(b, at) = IF Get(b, at).content.deleted THEN {} ELSE g[Depth]
  BY DEF SubtreeIsWalk
<1> DEFINE f == [n \in 0 .. Cardinality(Blocks) |-> g[n]]
<1>1. \A n \in 0 .. Depth : g[n] \subseteq Blocks
  BY LevelsStayIn
<1>2. \A n \in 0 .. Depth : f[n] = g[n]
  BY DEF Depth
<1>3. IsWalk(f, b, at)
  <2> SUFFICES ASSUME NEW n \in 0 .. Cardinality(Blocks)
               PROVE  f[n] = IF n = 0 THEN {b}
                             ELSE f[n - 1] \cup UNION {Children(x, at) : x \in f[n - 1]}
    BY DEF IsWalk
  <2>1. CASE n = 0
    BY <2>1, <1>2 DEF LevelsOf, Depth
  <2>2. CASE n # 0
    <3>1. n \in 1 .. Depth /\ n - 1 \in 0 .. Depth
      BY <2>2, DepthIsNatural DEF Depth
    <3>2. f[n - 1] = g[n - 1] /\ f[n] = g[n]
      BY <3>1, <1>2 DEF Depth
    <3>3. \A x \in f[n - 1] : Children(x, at) = K[x]
      BY <3>1, <3>2, <1>1
    <3>4. g[n] = g[n - 1] \cup UNION {K[x] : x \in g[n - 1]}
      BY <3>1 DEF LevelsOf
    <3> HIDE DEF f
    <3>5. UNION {K[x] : x \in f[n - 1]} = UNION {Children(x, at) : x \in f[n - 1]}
      BY <3>3
    <3> QED BY <2>2, <3>2, <3>4, <3>5
  <2> QED BY <2>1, <2>2
<1> HIDE DEF f
<1> DEFINE w == CHOOSE walk : IsWalk(walk, b, at)
<1>4. /\ IsWalk(w, b, at)
      /\ Subtree(b, at) = IF Get(b, at).content.deleted THEN {}
                          ELSE w[Cardinality(Blocks)]
  <2>1. Subtree(b, at) = IF Get(b, at).content.deleted THEN {}
                         ELSE w[Cardinality(Blocks)]
    BY DEF IsWalk, Subtree
  <2>2. \E walk : IsWalk(walk, b, at)
    BY <1>3
  <2> QED BY <2>1, <2>2
<1> HIDE DEF w
<1>5. \A n \in 0 .. Depth : w[n] = g[n]
  <2> DEFINE Bad == {n \in 0 .. Depth : w[n] # g[n]}
  <2> SUFFICES ASSUME Bad # {}
               PROVE  FALSE
    OBVIOUS
  <2>1. PICK m \in Bad : \A n \in Bad : m =< n
    <3>1. Bad \in SUBSET Nat
      OBVIOUS
    <3> HIDE DEF Bad
    <3> QED BY <3>1, LeastNumber
  <2>2. \A n \in 0 .. Depth :
          w[n] = IF n = 0 THEN {b}
                 ELSE w[n - 1] \cup UNION {Children(x, at) : x \in w[n - 1]}
    BY <1>4 DEF IsWalk, Depth
  <2>3. m # 0
    BY <2>1, <2>2 DEF LevelsOf
  <2>4. m \in 1 .. Depth /\ m - 1 \in 0 .. Depth /\ ~(m =< m - 1)
    BY <2>1, <2>3, DepthIsNatural
  <2>5. w[m - 1] = g[m - 1]
    BY <2>1, <2>4
  <2>6. \A x \in g[m - 1] : Children(x, at) = K[x]
    BY <2>4, <1>1
  <2>7. w[m] = w[m - 1] \cup UNION {Children(x, at) : x \in w[m - 1]}
    BY <2>2, <2>3, <2>4
  <2>8. g[m] = g[m - 1] \cup UNION {K[x] : x \in g[m - 1]}
    BY <2>4 DEF LevelsOf
  <2>9. UNION {K[x] : x \in g[m - 1]} = UNION {Children(x, at) : x \in g[m - 1]}
    BY <2>6
  <2>10. w[m] = g[m]
    BY <2>5, <2>7, <2>8, <2>9
  <2> QED BY <2>1, <2>10
<1> QED BY <1>4, <1>5, DepthIsNatural DEF Depth

-----------------------------------------------------------------------------
(***************************************************************************)
(* The inductive invariant: what holds of the store beside IInv, and what  *)
(* each call has established at each of its steps.                         *)
(***************************************************************************)
Written(b) == heads[b].tx # None
Ancestors(b) == Chain(CurrentTree, b)

\* The block is, or will be for ever, below the project's root.
InProject(r, b) == Written(b) /\ r \in Ancestors(b)

\* No tool moves a block, and every parent was written.
ParentsKept ==
  /\ \A v \in versions : v.content.parent = heads[v.block].content.parent
  /\ \A b \in Blocks : Written(b) /\ heads[b].content.parent # None =>
       heads[heads[b].content.parent].tx # None
  /\ \A r \in Roots : Written(r) /\ heads[r].content.parent = None

\* What was fetched of b: a version of it, or that it was missing.
Historical(b, row) ==
  /\ row = [tx |-> row.tx, content |-> row.content]
  /\ IF row.tx = None THEN row.content = Tombstone
     ELSE [block |-> b, tx |-> row.tx, content |-> row.content] \in versions

Active ==
  {"snapshot", "scope", "subtree", "entries", "anchor", "target", "parent", "transact"}

ArgumentsInv(k) ==
  k.step \in Active =>
    /\ k.root \in Roots /\ k.block \in Blocks /\ k.cursor \in Blocks
    /\ DOMAIN k.named \subseteq Blocks /\ DOMAIN k.seen \subseteq Blocks
    /\ \A b \in DOMAIN k.seen : Historical(b, k.seen[b])
    /\ k.written = {}
    /\ k.tool # "read" => k.at = None
    /\ k.step = "scope" /\ k.cursor # k.block => k.block \in DOMAIN k.seen
    /\ k.tool = "append" => DOMAIN k.named = {}
    /\ k.tool = "remove" /\ ~k.whole => DOMAIN k.named = {k.block}

\* A read: "was" is the subtree at its snapshot too.
ReadInv(k) ==
  k.tool = "read" =>
    /\ k.step # "receipts"
    /\ k.step \in {"snapshot", "scope"} => k.result = {}
    /\ k.step = "snapshot" => DOMAIN k.seen = {} /\ k.cursor = k.block
    /\ k.step \in {"scope", "subtree", "entries"} =>
         /\ k.at \in txLog
         /\ k.was = Revision(Subtree(k.block, k.at), k.at)
         /\ \A b \in DOMAIN k.seen : k.seen[b] = VersionAt(b, k.at)
    /\ k.step = "entries" => k.block = k.root
    /\ k.step \in {"entries", "done"} => k.result = k.was

\* A write: which blocks scoped has seen below the project's root.
ScopeInv(k) ==
  k.tool # "read" /\ k.step \in Active =>
    /\ k.step = "scope" => /\ k.cursor \in Ancestors(k.block)
                           /\ k.cursor # k.block => Written(k.block)
    /\ k.tool # "change" /\ k.step # "scope" => InProject(k.root, k.block)
    /\ k.tool = "change" =>
         \A b \in DOMAIN k.seen :
           \/ InProject(k.root, b) /\ ~k.seen[b].content.deleted
           \/ k.step = "scope" /\ b = k.block
    /\ k.tool = "change" /\ k.step = "transact" => k.block \in DOMAIN k.seen

\* The children of each block among the blocks seen.
SeenKids(seen) ==
  [p \in Blocks |-> {b \in DOMAIN seen : /\ ~seen[b].content.deleted
                                        /\ seen[b].content.parent = p}]

\* A removal has seen a whole subtree, at the revisions the caller named.
RemoveInv(k) ==
  k.tool = "remove" /\ k.step = "transact" =>
    /\ \A b \in DOMAIN k.seen : InProject(k.root, b) /\ ~k.seen[b].content.deleted
    /\ {<<b, k.seen[b].tx>> : b \in DOMAIN k.seen}
         = {<<b, k.named[b]>> : b \in DOMAIN k.named}
    /\ \E g : LevelsOf(g, SeenKids(k.seen), k.block) /\ DOMAIN k.seen = g[Depth]

ReplaceInv(k) ==
  k.tool = "replace" /\ k.step = "transact" =>
    DOMAIN k.seen = {k.block} /\ k.seen[k.block].content.parent # None

ReceiptsInv(k) ==
  /\ k.step = "receipts" =>
       /\ k.tx \in txLog /\ k.written \subseteq Blocks
       /\ \A b \in k.written : VersionAt(b, k.tx).tx = k.tx
  /\ k.step = "done" =>
       {r \in k.result : r[1] \in k.written} = {<<b, k.tx>> : b \in k.written}

CallInv(k) ==
  /\ ArgumentsInv(k) /\ ReadInv(k) /\ ScopeInv(k)
  /\ RemoveInv(k) /\ ReplaceInv(k) /\ ReceiptsInv(k)

IsCall(k) ==
  k = [tool |-> k.tool, step |-> k.step, root |-> k.root, block |-> k.block,
       named |-> k.named, whole |-> k.whole, at |-> k.at, cursor |-> k.cursor,
       seen |-> k.seen, list |-> k.list, tx |-> k.tx, written |-> k.written,
       result |-> k.result, was |-> k.was]

Shape == call = [c \in Calls |-> call[c]] /\ \A c \in Calls : IsCall(call[c])

MInv == IInv /\ ParentsKept /\ Shape /\ \A c \in Calls : CallInv(call[c])

-----------------------------------------------------------------------------
(***************************************************************************)
(* Ancestor chains.                                                        *)
(***************************************************************************)
LEMMA ChainHolds ==
  ASSUME NEW f, NEW b \in Blocks
  PROVE  /\ b \in Chain(f, b)
         /\ \A x \in Chain(f, b) :
              /\ f[x].parent \in Blocks \ {None} => f[x].parent \in Chain(f, b)
              /\ Chain(f, x) \subseteq Chain(f, b)
  BY DEF Chain, ParentClosed

\* Two trees that agree on the parents of a parent-closed set agree on the
\* ancestors of its members.
LEMMA ChainAgrees ==
  ASSUME NEW f, NEW g, NEW W \in SUBSET Blocks, ParentClosed(f, W),
         \A x \in W : g[x].parent = f[x].parent, NEW b \in W
  PROVE  Chain(g, b) = Chain(f, b)
<1>1. ASSUME NEW y \in Chain(g, b)
      PROVE  y \in Chain(f, b)
  <2> SUFFICES ASSUME NEW S \in SUBSET Blocks, b \in S, ParentClosed(f, S)
               PROVE  y \in S
    BY DEF Chain
  <2>1. ParentClosed(g, S \cap W)
    BY DEF ParentClosed
  <2> QED BY <2>1 DEF Chain
<1>2. ASSUME NEW y \in Chain(f, b)
      PROVE  y \in Chain(g, b)
  <2> SUFFICES ASSUME NEW S \in SUBSET Blocks, b \in S, ParentClosed(g, S)
               PROVE  y \in S
    BY DEF Chain
  <2>1. ParentClosed(f, S \cap W)
    BY DEF ParentClosed
  <2> QED BY <2>1 DEF Chain
<1> QED BY <1>1, <1>2

\* Who is above a block, and is not the block, is above its parent.
LEMMA ChainOfParent ==
  ASSUME NEW f, NEW b \in Blocks, f[b].parent \in Blocks,
         NEW r \in Chain(f, b), r # b
  PROVE  r \in Chain(f, f[b].parent)
<1> SUFFICES ASSUME NEW S \in SUBSET Blocks, f[b].parent \in S, ParentClosed(f, S)
             PROVE  r \in S
  BY DEF Chain
<1>1. ParentClosed(f, S \cup {b}) /\ S \cup {b} \in SUBSET Blocks
  BY DEF ParentClosed
<1>2. r \in S \cup {b}
  BY <1>1 DEF Chain
<1> QED BY <1>2

\* The chain of a block that ends at a root leaves every set of blocks whose
\* parents are in the set or among a few others through one of the others.
LEMMA ChainLeaves ==
  ASSUME NEW f, NEW new \in SUBSET Blocks, NEW P \in SUBSET Blocks,
         \A x \in new : f[x].parent \in new \cup P,
         NEW b \in new, \E x \in Chain(f, b) : f[x].parent = None
  PROVE  \E p \in P : p \in Chain(f, b)
<1> SUFFICES ASSUME \A p \in P : p \notin Chain(f, b)
             PROVE  FALSE
  OBVIOUS
<1> DEFINE S == Chain(f, b) \cap new
<1>1. None \notin Blocks
  BY BlocksAssumption DEF None
<1>2. b \in S
  BY ChainHolds
<1>3. ParentClosed(f, S)
  <2> SUFFICES ASSUME NEW x \in S, f[x].parent # None
               PROVE  f[x].parent \in S
    BY DEF ParentClosed
  <2>1. f[x].parent \in new \cup P /\ f[x].parent \in Blocks
    OBVIOUS
  <2>2. f[x].parent \in Chain(f, b)
    BY <2>1, ChainHolds
  <2> QED BY <2>1, <2>2
<1>4. Chain(f, b) \subseteq S
  BY <1>2, <1>3 DEF Chain
<1> QED BY <1>1, <1>4

-----------------------------------------------------------------------------
(***************************************************************************)
(* The state an import leaves.                                             *)
(***************************************************************************)
LEMMA MemoryInitInv == MemoryInit => MInv
<1> SUFFICES ASSUME MemoryInit
             PROVE  MInv
  OBVIOUS
<1> DEFINE Row(b) == [block |-> b, tx |-> 1, content |-> Setup[b]]
           Member(l) == [parent |-> l.parent, child |-> l.child, tx |-> 1,
                         present |-> TRUE]
<1>0. /\ heads = [b \in Blocks |-> IF b \in Imported
                                   THEN [tx |-> 1, content |-> Setup[b]] ELSE Missing]
      /\ versions = {Row(b) : b \in Imported}
      /\ childIndex = ImportedLinks
      /\ memberships = {Member(l) : l \in ImportedLinks}
      /\ txLog = {1}
      /\ changes = {<<1, b>> : b \in Imported}
      /\ call = [c \in Calls |-> Idle]
  BY DEF MemoryInit
<1>1. /\ 1 \in Txs /\ 1 # None /\ None \notin Blocks
      /\ Setup \in [Blocks -> Content] /\ WellFormed(Setup)
      /\ Imported \subseteq Blocks /\ Roots \subseteq Imported /\ Roots # {}
      /\ \A b \in Blocks : b \in Imported <=> ~Setup[b].deleted
  BY MemoryAssumption, BoundsAssumption, BlocksAssumption
     DEF Txs, None, Imported, LiveBlocks
<1>2. \A b \in Blocks : IF b \in Imported
                        THEN heads[b].tx = 1 /\ heads[b].content = Setup[b]
                        ELSE heads[b].tx = None /\ heads[b].content = Tombstone
  BY <1>0 DEF Missing
<1>3. \A l : l \in ImportedLinks <=> \E b \in Imported : l \in LinkOf(b, Setup[b])
  BY DEF ImportedLinks
<1>4. ImportedLinks \subseteq LinkRow
  <2>1. \A b \in Imported : LinkOf(b, Setup[b]) \subseteq LinkRow
    BY <1>1 DEF LinkOf, LinkRow, Content, ContentWith
  <2> QED BY <1>3, <2>1
<1>20. /\ \A v \in versions : /\ v.block \in Imported /\ v = Row(v.block)
                              /\ v.tx = 1 /\ v.content = Setup[v.block]
       /\ \A b \in Imported : Row(b) \in versions
  BY <1>0
<1>21. \A m \in memberships :
         \E l \in ImportedLinks :
           /\ m = Member(l) /\ m.parent = l.parent /\ m.child = l.child
           /\ m.tx = 1 /\ m.present
  BY <1>0
<1>5. TypeOK
  <2>1. Missing \in HeadRow /\ \A b \in Imported : [tx |-> 1, content |-> Setup[b]] \in HeadRow
    BY <1>1, BoundsAssumption
       DEF Missing, Tombstone, HeadRow, Revisions, Content, ContentWith, Positions,
           Kinds, Fields, None
  <2>2. heads \in [Blocks -> HeadRow]
    BY <1>0, <2>1
  <2>3. versions \subseteq VersionRow
    BY <1>0, <1>1 DEF VersionRow
  <2>4. memberships \subseteq MembershipRow
    <3>1. \A l \in ImportedLinks : Member(l) \in MembershipRow
      BY <1>1, <1>4 DEF MembershipRow, LinkRow
    <3> HIDE DEF Member
    <3> QED BY <1>21, <3>1
  <2> QED BY <1>0, <1>1, <1>4, <2>2, <2>3, <2>4 DEF TypeOK
<1>6. LastTxExists
  BY <1>0, <1>1 DEF LastTxExists, IsLastTx, Revisions
<1>7. \A b \in Blocks : CurrentTree[b] = IF b \in Imported THEN Setup[b] ELSE Tombstone
  BY <1>2 DEF CurrentTree
<1>8. Topology
  <2>1. LiveBlocks(CurrentTree) = LiveBlocks(Setup)
    BY <1>1, <1>7 DEF LiveBlocks, Tombstone
  <2>2. \A b \in LiveBlocks(Setup) : CurrentTree[b] = Setup[b]
    BY <1>7 DEF Imported, LiveBlocks
  <2>3. WellPlaced(CurrentTree)
    BY <1>1, <2>1, <2>2 DEF WellFormed, WellPlaced
  <2>4. Acyclic(CurrentTree)
    BY <1>1, <2>1, <2>2 DEF WellFormed, Acyclic
  <2> QED BY <2>3, <2>4 DEF Topology, WellFormed
<1>9. IndexMatchesHeads
  <2>1. \A b \in Blocks : b \notin Imported => LinkOf(b, heads[b].content) = {}
    BY <1>2 DEF LinkOf, Tombstone
  <2>2. \A b \in Imported : b \in Blocks /\ heads[b].content = Setup[b]
    BY <1>1, <1>2
  <2>3. \A l : l \in childIndex <=> \E b \in Blocks : l \in LinkOf(b, heads[b].content)
    BY <1>0, <1>3, <2>1, <2>2
  <2> QED BY <2>3 DEF IndexMatchesHeads
<1>10. VersionsOfHeads
  <2>1. ASSUME NEW b \in Blocks
        PROVE  IF heads[b].tx = None THEN heads[b].content = Tombstone
               ELSE [block |-> b, tx |-> heads[b].tx, content |-> heads[b].content]
                      \in versions
    BY <1>1, <1>2, <1>20
  <2>2. \A v \in versions : v.tx =< heads[v.block].tx
    BY <1>1, <1>2, <1>20
  <2>3. \A v, w \in versions : v.block = w.block /\ v.tx = w.tx => v = w
    <3> HIDE DEF Row
    <3> QED BY <1>20
  <2> QED BY <2>1, <2>2, <2>3 DEF VersionsOfHeads
<1>11. MembershipsOfHeads
  <2>1. ASSUME NEW p \in Blocks, NEW b \in Blocks
        PROVE  b \in KidsOf(CurrentTree, p) <=>
                 \E l \in ImportedLinks : l.parent = p /\ l.child = b
    <3>1. b \in KidsOf(CurrentTree, p) <=>
            b \in Imported /\ Setup[b].parent = p
      BY <1>1, <1>7 DEF KidsOf, LiveBlocks, Tombstone
    <3>2. b \in Imported /\ Setup[b].parent = p =>
            \E l \in LinkOf(b, Setup[b]) : l.parent = p /\ l.child = b
      BY <1>1 DEF LinkOf
    <3> QED BY <1>3, <3>1, <3>2, LinkOfFields
  <2>2. \A m \in memberships :
          /\ m = MembershipOf(m.parent, m.child, 1, TRUE)
          /\ \E l \in ImportedLinks : m.parent = l.parent /\ m.child = l.child
          /\ m.tx = 1 /\ m.present
    BY <1>21 DEF MembershipOf
  <2>3. \A l \in ImportedLinks : Member(l) \in memberships
    BY <1>0
  <2>4. ASSUME NEW p \in Blocks, NEW b \in Blocks
        PROVE  IF b \in KidsOf(CurrentTree, p) THEN EndsPresent(p, b)
               ELSE EndsAbsent(p, b)
    <3>1. CASE b \in KidsOf(CurrentTree, p)
      <4>1. PICK l \in ImportedLinks : l.parent = p /\ l.child = b
        BY <2>1, <3>1
      <4>2. /\ Member(l).parent = p /\ Member(l).child = b
            /\ Member(l).present /\ Member(l).tx = 1
        BY <4>1
      <4>3. Member(l) \in memberships /\ \A n \in memberships : n.tx = 1
        BY <2>2, <2>3, <4>1
      <4> HIDE DEF Member
      <4>4. EndsPresent(p, b)
        BY <4>2, <4>3 DEF EndsPresent
      <4> QED BY <3>1, <4>4
    <3>2. CASE b \notin KidsOf(CurrentTree, p)
      <4>1. ~ \E l \in ImportedLinks : l.parent = p /\ l.child = b
        BY <2>1, <3>2
      <4>2. \A m \in memberships : ~(m.parent = p /\ m.child = b)
        BY <2>2, <4>1
      <4> QED BY <3>2, <4>2 DEF EndsAbsent
    <3> QED BY <3>1, <3>2
  <2>5. \A m, n \in memberships :
          m.parent = n.parent /\ m.child = n.child /\ m.tx = n.tx => m = n
    <3> SUFFICES ASSUME NEW m \in memberships, NEW n \in memberships,
                        m.parent = n.parent, m.child = n.child
                 PROVE  m = n
      OBVIOUS
    <3>1. /\ m = MembershipOf(m.parent, m.child, 1, TRUE)
          /\ n = MembershipOf(n.parent, n.child, 1, TRUE)
      BY <2>2
    <3> QED BY <3>1
  <2> QED BY <2>4, <2>5 DEF MembershipsOfHeads
<1>12. RowsAreCommitted
  <2>1. \A m \in memberships : m.tx \in txLog
    BY <1>0
  <2>2. changes = {<<v.tx, v.block>> : v \in versions}
    <3>1. \A b \in Imported : Row(b).tx = 1 /\ Row(b).block = b
      OBVIOUS
    <3> HIDE DEF Row
    <3> QED BY <1>0, <1>20, <3>1
  <2>3. txLog = {v.tx : v \in versions}
    <3>1. PICK b : b \in Imported
      BY <1>1
    <3>2. Row(b) \in versions /\ Row(b).tx = 1
      BY <1>20, <3>1
    <3> HIDE DEF Row
    <3> QED BY <1>0, <1>20, <3>2
  <2> QED BY <2>1, <2>2, <2>3 DEF RowsAreCommitted
<1>13. HistoryIsTree
  <2>1. NewestReadsAreHeads
    BY <1>5, <1>8, <1>10, <1>11, NewestReads
  <2>2. /\ \A v \in versions : v.tx =< 1
        /\ \A m \in memberships : m.tx =< 1
    BY <1>0
  <2>3. /\ TreeAt(1) = CurrentTree
        /\ \A p \in Blocks : ChildrenAt(p, 1) = KidsOf(CurrentTree, p)
    BY <1>1, <2>1, <2>2 DEF NewestReadsAreHeads
  <2> QED BY <1>0, <1>8, <2>3 DEF HistoryIsTree, Topology
<1>14. IInv
  BY <1>5, <1>6, <1>8, <1>9, <1>10, <1>11, <1>12, <1>13 DEF IInv
<1>15. ParentsKept
  <2>1. \A v \in versions : v.content.parent = heads[v.block].content.parent
    BY <1>0, <1>1, <1>2
  <2>2. \A b \in Imported : Setup[b].parent # None => Setup[b].parent \in Imported
    BY <1>1 DEF WellFormed, WellPlaced, Imported
  <2>3. \A b \in Blocks : Written(b) <=> b \in Imported
    BY <1>1, <1>2 DEF Written
  <2>4. \A r \in Roots : Written(r) /\ heads[r].content.parent = None
    BY <1>1, <1>2, <2>3, MemoryAssumption
  <2> QED BY <1>1, <1>2, <2>1, <2>2, <2>3, <2>4 DEF ParentsKept
<1>16. Shape /\ \A c \in Calls : CallInv(call[c])
  <2>1. IsCall(Idle) /\ Idle.step = "idle" /\ Idle.tool = "none"
    BY DEF IsCall, Idle
  <2>2. \A c \in Calls : call[c] = Idle
    BY <1>0
  <2>3. CallInv(Idle)
    BY <2>1 DEF CallInv, ArgumentsInv, ReadInv, ScopeInv, RemoveInv, ReplaceInv,
                ReceiptsInv, Active
  <2> QED BY <1>0, <2>1, <2>2, <2>3 DEF Shape
<1> QED BY <1>14, <1>15, <1>16 DEF MInv

-----------------------------------------------------------------------------
(***************************************************************************)
(* What every step leaves behind for the calls that did not take it.       *)
(***************************************************************************)
Grows ==
  /\ versions \subseteq versions'
  /\ txLog \subseteq txLog'
  /\ \A at \in txLog :
       /\ \A b \in Blocks : VersionAt(b, at)' = VersionAt(b, at)
       /\ \A p \in Blocks : ChildrenAt(p, at)' = ChildrenAt(p, at)
  /\ \A b \in Blocks : Written(b) => Written(b)' /\ Ancestors(b)' = Ancestors(b)

\* A step that leaves the store alone leaves everything behind.
LEMMA StutterGrows == UNCHANGED vars => Grows /\ (ParentsKept => ParentsKept')
<1> SUFFICES ASSUME UNCHANGED vars
             PROVE  Grows /\ (ParentsKept => ParentsKept')
  OBVIOUS
<1> USE DEF vars
<1>1. \A b, at : VersionAt(b, at)' = VersionAt(b, at)
  BY DEF VersionAt, VersionRows, Latest
<1>2. \A p, at : ChildrenAt(p, at)' = ChildrenAt(p, at)
  <2>1. \A p, b, at : MembershipRows(p, b, at)' = MembershipRows(p, b, at)
    BY DEF MembershipRows
  <2>2. \A p, b, at : MemberAt(p, b, at)' = MemberAt(p, b, at)
    BY <2>1 DEF MemberAt, Latest
  <2> QED BY <1>1, <2>2 DEF ChildrenAt
<1>3. \A b : Ancestors(b)' = Ancestors(b)
  BY DEF Ancestors, CurrentTree, Chain, ParentClosed
<1>4. ParentsKept => ParentsKept'
  BY DEF ParentsKept, Written
<1> QED BY <1>1, <1>2, <1>3, <1>4 DEF Grows, Written

\* A batch of a tool: written blocks keep their parents, new ones are live.
KeepsParents(contents) ==
  \A b \in DOMAIN contents :
    IF Written(b) THEN contents[b].parent = heads[b].content.parent
    ELSE ~contents[b].deleted

\* A live block was written.
LiveBlocksAreWritten == \A b \in Blocks : ~heads[b].content.deleted => Written(b)

\* For what was never written reads as a deleted block.
LEMMA LiveIsWritten == VersionsOfHeads => LiveBlocksAreWritten
<1> SUFFICES ASSUME VersionsOfHeads, NEW b \in Blocks, ~Written(b)
             PROVE  heads[b].content.deleted
  BY DEF LiveBlocksAreWritten
<1>1. heads[b].content = Tombstone
  BY DEF VersionsOfHeads, Written
<1>2. Tombstone.deleted = TRUE
  BY DEF Tombstone
<1> QED BY <1>1, <1>2

\* The parents of written blocks were written.
LEMMA WrittenIsClosed ==
  TypeOK /\ ParentsKept => ParentClosed(CurrentTree, {b \in Blocks : Written(b)})
<1> SUFFICES ASSUME TypeOK, ParentsKept, NEW b \in Blocks, Written(b),
                    CurrentTree[b].parent # None
             PROVE  CurrentTree[b].parent \in {x \in Blocks : Written(x)}
  BY DEF ParentClosed
<1>1. CurrentTree[b].parent = heads[b].content.parent
  BY DEF CurrentTree
<1>2. heads[b].content.parent \in Blocks
  BY <1>1 DEF TypeOK, HeadRow, Content, ContentWith
<1> QED BY <1>1, <1>2 DEF ParentsKept, Written

\* The ancestors after a step are those in the tree after it.
LEMMA AncestorsPrimed == \A b : Ancestors(b)' = Chain(CurrentTree', b)
  BY DEF Ancestors, Chain, ParentClosed

\* An accepted batch that keeps parents leaves reads and ancestors behind.
LEMMA WriteGrows ==
  ASSUME IInv, IInv', ParentsKept,
         NEW S \in SUBSET Blocks, NEW contents \in [S -> Content],
         NEW tx \in Txs, AcceptedWrite(S, contents, tx), KeepsParents(contents)
  PROVE  /\ Grows /\ ParentsKept'
         /\ \A b \in S : Written(b)'
<1>1. /\ \A b \in S : heads'[b].tx = tx /\ heads'[b].content = contents[b]
      /\ \A b \in Blocks \ S : heads'[b] = heads[b]
  BY HeadsStep
<1>2. tx # None
  BY DEF Txs, None
<1>3. \A b \in Blocks : Written(b)' <=> Written(b) \/ b \in S
  BY <1>1, <1>2 DEF Written
<1>4. \A b \in Blocks : Written(b) => heads'[b].content.parent = heads[b].content.parent
  <2>1. \A b \in S : Written(b) => contents[b].parent = heads[b].content.parent
    BY DEF KeepsParents
  <2> QED BY <1>1, <2>1
<1>5. \A b \in Blocks : Written(b) => Ancestors(b)' = Ancestors(b)
  <2> DEFINE W == {b \in Blocks : Written(b)}
  <2>1. ParentClosed(CurrentTree, W)
    BY WrittenIsClosed DEF IInv
  <2>2. \A b \in W : CurrentTree'[b].parent = CurrentTree[b].parent
    BY <1>4 DEF CurrentTree
  <2>3. W \in SUBSET Blocks
    OBVIOUS
  <2> HIDE DEF W
  <2>4. \A b \in W : Chain(CurrentTree', b) = Chain(CurrentTree, b)
    BY <2>1, <2>2, <2>3, ChainAgrees
  <2> QED BY <2>4, AncestorsPrimed DEF W, Ancestors
<1>6. versions' = versions \cup
        {[block |-> b, tx |-> tx, content |-> contents[b]] : b \in S}
  BY DEF AcceptedWrite, Write
<1>7. txLog' = txLog \cup {tx}
  BY DEF AcceptedWrite, Write
<1>8. Grows
  BY <1>3, <1>5, <1>6, <1>7, ReadsStep DEF Grows, IInv
<1>9. \A v \in versions' : v.content.parent = heads'[v.block].content.parent
  <2>1. ASSUME NEW v \in versions
        PROVE  v.content.parent = heads'[v.block].content.parent
    <3>1. v.block \in Blocks /\ v.tx \in Txs /\ heads[v.block].tx \in Revisions
      BY DEF IInv, TypeOK, VersionRow, HeadRow
    <3>2. v.tx =< heads[v.block].tx
      BY DEF IInv, VersionsOfHeads
    <3>3. Written(v.block)
      BY <3>1, <3>2 DEF Written, Revisions, Txs, None
    <3> QED BY <1>4, <3>1, <3>3 DEF ParentsKept
  <2>2. \A b \in S : contents[b].parent = heads'[b].content.parent
    BY <1>1
  <2> QED BY <1>6, <2>1, <2>2
<1>10. ASSUME NEW b \in Blocks, Written(b)', heads'[b].content.parent # None
       PROVE  heads'[heads'[b].content.parent].tx # None
  <2>1. heads'[b].content.parent \in Blocks
    BY <1>10 DEF IInv, TypeOK, HeadRow, Content, ContentWith
  <2>2. CASE Written(b)
    <3>1. heads[heads'[b].content.parent].tx # None
      BY <1>4, <1>10, <2>2 DEF ParentsKept
    <3> QED BY <1>1, <1>2, <2>1, <3>1
  <2>3. CASE ~Written(b)
    <3>1. b \in S /\ ~heads'[b].content.deleted
      BY <1>1, <1>3, <1>10, <2>3 DEF KeepsParents
    <3>2. WellPlaced(CurrentTree')
      BY DEF IInv, Topology, WellFormed, WellPlaced, LiveBlocks
    <3>3. ~heads'[heads'[b].content.parent].content.deleted
      BY <1>10, <3>1, <3>2 DEF WellPlaced, LiveBlocks, CurrentTree
    <3>4. VersionsOfHeads'
      BY DEF IInv
    <3>5. LiveBlocksAreWritten'
      BY <3>4, LiveIsWritten, PTL
    <3> QED BY <2>1, <3>3, <3>5 DEF LiveBlocksAreWritten, Written
  <2> QED BY <2>2, <2>3
<1>11. \A r \in Roots : Written(r)' /\ heads'[r].content.parent = None
  <2>1. \A r \in Roots : r \in Blocks
    BY MemoryAssumption DEF LiveBlocks
  <2> QED BY <1>3, <1>4, <2>1 DEF ParentsKept
<1>12. ParentsKept'
  BY <1>9, <1>10, <1>11 DEF ParentsKept, Written
<1> QED BY <1>3, <1>8, <1>12

\* A subtree consists of blocks.
LEMMA SubtreeInBlocks ==
  ASSUME NEW b \in Blocks, NEW at \in Revisions
  PROVE  Subtree(b, at) \subseteq Blocks
<1>1. PICK K \in [Blocks -> SUBSET Blocks] : \A x \in Blocks : K[x] = Children(x, at)
  <2>1. \A x \in Blocks : Children(x, at) \in SUBSET Blocks
    BY DEF Children, ChildrenAt, ChildrenNow
  <2>2. [x \in Blocks |-> Children(x, at)] \in [Blocks -> SUBSET Blocks]
    BY <2>1
  <2> QED BY <2>2
<1>2. PICK g : LevelsOf(g, K, b)
  BY LevelsExist
<1>3. Subtree(b, at) = IF Get(b, at).content.deleted THEN {} ELSE g[Depth]
  BY <1>1, <1>2, SubtreeByLevels DEF SubtreeIsWalk
<1>4. g[Depth] \subseteq Blocks
  BY <1>2, LevelsStayIn, DepthIsNatural
<1> QED BY <1>3, <1>4

\* What a read returns at a committed transaction, and where it is.
LEMMA SubtreeStable ==
  ASSUME TypeOK, Grows, NEW b \in Blocks, NEW at \in txLog
  PROVE  /\ Subtree(b, at)' = Subtree(b, at)
         /\ Revision(Subtree(b, at), at)' = Revision(Subtree(b, at), at)
<1>0. at \in Revisions /\ at # None
  BY DEF TypeOK, Revisions, Txs, None
<1>1. PICK K \in [Blocks -> SUBSET Blocks] : \A x \in Blocks : K[x] = Children(x, at)
  <2>1. \A x \in Blocks : Children(x, at) \in SUBSET Blocks
    BY <1>0 DEF Children, ChildrenAt
  <2>2. [x \in Blocks |-> Children(x, at)] \in [Blocks -> SUBSET Blocks]
    BY <2>1
  <2> QED BY <2>2
<1>2. PICK g : LevelsOf(g, K, b)
  BY LevelsExist
<1>3. /\ Get(b, at)' = Get(b, at)
      /\ \A x \in Blocks : Children(x, at)' = K[x]
      /\ \A x \in Blocks : Get(x, at)' = Get(x, at)
  BY <1>0, <1>1 DEF Get, Children, Grows
<1>4. Subtree(b, at) = IF Get(b, at).content.deleted THEN {} ELSE g[Depth]
  BY <1>0, <1>1, <1>2, SubtreeByLevels DEF SubtreeIsWalk
<1>5. SubtreeIsWalk'
  BY SubtreeByLevels, PTL
<1>6. Subtree(b, at)' = IF Get(b, at)'.content.deleted THEN {} ELSE g[Depth]
  BY <1>0, <1>2, <1>3, <1>5 DEF SubtreeIsWalk
<1>7. Subtree(b, at)' = Subtree(b, at)
  BY <1>3, <1>4, <1>6
<1>8. Subtree(b, at) \subseteq Blocks
  <2>1. g[Depth] \subseteq Blocks
    BY <1>2, LevelsStayIn, DepthIsNatural
  <2> QED BY <1>4, <2>1
<1>9. Revision(Subtree(b, at), at)' = {<<x, Get(x, at)'.tx>> : x \in Subtree(b, at)'}
  BY DEF Revision
<1>10. Revision(Subtree(b, at), at) = {<<x, Get(x, at).tx>> : x \in Subtree(b, at)}
  BY DEF Revision
<1> QED BY <1>3, <1>7, <1>8, <1>9, <1>10

\* What a call has established stays so whatever the others do.
LEMMA CallInvStable ==
  ASSUME TypeOK, Grows, NEW k, CallInv(k)
  PROVE  CallInv(k)'
<1> USE DEF CallInv
<1>1. \A b \in Blocks : \A row : Historical(b, row) => Historical(b, row)'
  BY DEF Historical, Grows
<1>2. \A r, b \in Blocks : InProject(r, b) => InProject(r, b)'
  BY DEF InProject, Grows
<1>3. \A r \in Roots : r \in Blocks
  BY MemoryAssumption DEF LiveBlocks
<1>4. ArgumentsInv(k)'
  BY <1>1 DEF ArgumentsInv
<1>5. ReadInv(k)'
  <2> SUFFICES ASSUME k.tool = "read"
               PROVE  ReadInv(k)'
    BY DEF ReadInv
  <2>1. ASSUME k.step \in {"scope", "subtree", "entries"}
        PROVE  /\ k.at \in txLog'
               /\ k.was = Revision(Subtree(k.block, k.at), k.at)'
               /\ \A b \in DOMAIN k.seen : k.seen[b] = VersionAt(b, k.at)'
    <3>1. k.block \in Blocks /\ k.at \in txLog /\ DOMAIN k.seen \subseteq Blocks
      BY <2>1 DEF ArgumentsInv, ReadInv, Active
    <3> QED BY <2>1, <3>1, SubtreeStable DEF ReadInv, Grows
  <2> QED BY <2>1 DEF ReadInv
<1>6. ScopeInv(k)'
  <2> SUFFICES ASSUME k.tool # "read", k.step \in Active
               PROVE  ScopeInv(k)'
    BY DEF ScopeInv
  <2>1. k.block \in Blocks /\ k.root \in Blocks /\ DOMAIN k.seen \subseteq Blocks
    BY <1>3 DEF ArgumentsInv
  <2>2. ASSUME k.step = "scope"
        PROVE  /\ k.cursor \in Ancestors(k.block)'
               /\ k.cursor # k.block => Written(k.block)'
    <3>1. CASE k.cursor = k.block
      BY <2>1, <3>1, ChainHolds, AncestorsPrimed
    <3>2. CASE k.cursor # k.block
      BY <2>1, <2>2, <3>2 DEF ScopeInv, Grows
    <3> QED BY <3>1, <3>2
  <2> QED BY <1>2, <2>1, <2>2 DEF ScopeInv
<1>7. RemoveInv(k)'
  <2> SUFFICES ASSUME k.tool = "remove", k.step = "transact"
               PROVE  RemoveInv(k)'
    BY DEF RemoveInv
  <2>1. k.root \in Blocks /\ DOMAIN k.seen \subseteq Blocks
    BY <1>3 DEF ArgumentsInv, Active
  <2> QED BY <1>2, <2>1 DEF RemoveInv
<1>8. ReplaceInv(k)'
  BY DEF ReplaceInv
<1>9. ReceiptsInv(k)'
  BY DEF ReceiptsInv, Grows
<1> QED BY <1>4, <1>5, <1>6, <1>7, <1>8, <1>9

-----------------------------------------------------------------------------
(***************************************************************************)
(* Queries. Each is shown to leave the store alone and to give its call a  *)
(* state that keeps the invariant.                                         *)
(***************************************************************************)
Moves(c) ==
  /\ UNCHANGED vars
  /\ \E n : call' = [call EXCEPT ![c] = n] /\ IsCall(n) /\ CallInv(n)

\* A nonempty set of versions has a latest one.
LEMMA LatestVersion ==
  ASSUME TypeOK, NEW rows \in SUBSET versions, rows # {}
  PROVE  Latest(rows) \in rows /\ \A r \in rows : r.tx =< Latest(rows).tx
<1> DEFINE Above == {MaxTx - r.tx : r \in rows}
<1>1. \A r \in rows : r.tx \in Txs /\ r.tx \in Nat /\ MaxTx - r.tx \in Nat
  BY BoundsAssumption DEF TypeOK, VersionRow, Txs
<1>2. Above \in SUBSET Nat /\ Above # {}
  BY <1>1
<1>3. PICK x \in Above : \A y \in Above : x =< y
  <2> HIDE DEF Above
  <2> QED BY <1>2, LeastNumber
<1>4. PICK top \in rows : x = MaxTx - top.tx
  OBVIOUS
<1>5. ASSUME NEW r \in rows
      PROVE  r.tx =< top.tx
  <2>1. MaxTx - r.tx \in Above
    OBVIOUS
  <2>2. MaxTx - top.tx =< MaxTx - r.tx
    BY <1>3, <1>4, <2>1
  <2>3. r.tx \in Nat /\ top.tx \in Nat /\ MaxTx \in Nat
    BY <1>1, BoundsAssumption
  <2> QED BY <2>2, <2>3
<1> QED BY <1>5 DEF Latest

\* What a get returns is a version of the block, or that there is none.
LEMMA GetsVersion ==
  ASSUME TypeOK, VersionsOfHeads, NEW b \in Blocks, NEW at
  PROVE  Historical(b, Get(b, at)) /\ Get(b, at) \in HeadRow
<1>1. heads[b] \in HeadRow /\ versions \subseteq VersionRow
  BY DEF TypeOK
<1>2. Missing \in HeadRow
  BY BoundsAssumption
     DEF Missing, Tombstone, HeadRow, Revisions, Content, ContentWith, Positions,
         Kinds, Fields, None
<1>3. CASE at = None
  BY <1>1, <1>3 DEF Get, Historical, VersionsOfHeads, HeadRow
<1>4. CASE at # None
  <2>1. Get(b, at) = VersionAt(b, at)
    BY <1>4 DEF Get
  <2> DEFINE rows == VersionRows(b, at)
  <2>2. CASE rows = {}
    <3>1. Get(b, at) = Missing
      BY <2>1, <2>2 DEF VersionAt
    <3> QED BY <1>2, <3>1 DEF Historical, Missing
  <2>3. CASE rows # {}
    <3>1. rows \in SUBSET versions
      BY DEF VersionRows
    <3>2. Latest(rows) \in rows
      BY <2>3, <3>1, LatestVersion
    <3>3. PICK v \in versions : v.block = b /\ v = Latest(rows)
      BY <3>2 DEF VersionRows
    <3>4. Get(b, at) = [tx |-> v.tx, content |-> v.content]
      BY <2>1, <2>3, <3>3 DEF VersionAt
    <3>5. /\ v = [block |-> b, tx |-> v.tx, content |-> v.content]
          /\ v.tx \in Txs /\ v.content \in Content
      BY <1>1, <3>3 DEF VersionRow
    <3> QED BY <3>4, <3>5 DEF Historical, HeadRow, Revisions, Txs, None
  <2> QED BY <2>2, <2>3
<1> QED BY <1>3, <1>4

\* Two fetches of one revision are the same.
LEMMA RevisionsAgree ==
  ASSUME VersionsOfHeads, NEW b, NEW r, NEW s,
         Historical(b, r), Historical(b, s), r.tx = s.tx
  PROVE  r = s
<1>1. CASE r.tx = None
  BY <1>1 DEF Historical
<1>2. CASE r.tx # None
  <2> DEFINE v == [block |-> b, tx |-> r.tx, content |-> r.content]
             w == [block |-> b, tx |-> s.tx, content |-> s.content]
  <2>1. v \in versions /\ w \in versions /\ v.block = w.block /\ v.tx = w.tx
    BY <1>2 DEF Historical
  <2>2. v = w
    BY <2>1 DEF VersionsOfHeads
  <2>3. v.content = r.content /\ w.content = s.content
    OBVIOUS
  <2>4. r.content = s.content
    BY <2>2, <2>3
  <2> QED BY <2>4 DEF Historical
<1> QED BY <1>1, <1>2

\* What scoped has fetched after the get of the cursor.
LEMMA FetchedHolds ==
  ASSUME TypeOK, VersionsOfHeads, NEW k, ArgumentsInv(k), k.step = "scope"
  PROVE  /\ DOMAIN Fetched(k) = DOMAIN k.seen \cup {k.block}
         /\ \A b \in DOMAIN Fetched(k) : Historical(b, Fetched(k)[b])
         /\ ReadInv(k) /\ k.tool = "read" =>
              \A b \in DOMAIN Fetched(k) : Fetched(k)[b] = VersionAt(b, k.at)
<1>1. /\ k.block \in Blocks /\ DOMAIN k.seen \subseteq Blocks
      /\ \A b \in DOMAIN k.seen : Historical(b, k.seen[b])
      /\ k.cursor # k.block => k.block \in DOMAIN k.seen
  BY DEF ArgumentsInv, Active
<1>2. CASE k.cursor = k.block
  <2>1. Fetched(k) = Over(Only(k.block, Get(k.block, k.at)), k.seen)
    BY <1>2 DEF Fetched
  <2>2. /\ DOMAIN Fetched(k) = DOMAIN k.seen \cup {k.block}
        /\ Fetched(k)[k.block] = Get(k.block, k.at)
        /\ \A b \in DOMAIN k.seen : b # k.block => Fetched(k)[b] = k.seen[b]
    BY <2>1 DEF Over, Only
  <2>3. Historical(k.block, Get(k.block, k.at))
    BY <1>1, GetsVersion
  <2>4. ReadInv(k) /\ k.tool = "read" => Get(k.block, k.at) = VersionAt(k.block, k.at)
    BY DEF ReadInv, Get, TypeOK, Txs, None
  <2> QED BY <1>1, <2>2, <2>3, <2>4 DEF ReadInv
<1>3. CASE k.cursor # k.block
  <2>1. Fetched(k) = k.seen
    BY <1>3 DEF Fetched
  <2> QED BY <1>1, <1>3, <2>1 DEF ReadInv
<1> QED BY <1>2, <1>3

\* The snapshot of a read is the current tree when it is taken.
LEMMA SnapshotIsCurrent ==
  ASSUME IInv, NEW t \in txLog, IsLastTx(t), NEW b \in Blocks
  PROVE  Revision(Subtree(b, None), None) = Revision(Subtree(b, t), t)
<1>1. /\ t \in Txs /\ t \in Revisions /\ t # None /\ None \in Revisions
      /\ \A u \in txLog : u =< t
  BY DEF IInv, TypeOK, Txs, Revisions, None, IsLastTx
<1>2. NewestReadsAreHeads
  BY NewestReads DEF IInv
<1>3. /\ \A v \in versions : v.tx =< t
      /\ \A m \in memberships : m.tx =< t
  BY <1>1 DEF IInv, RowsAreCommitted
<1>4. /\ \A x \in Blocks : VersionAt(x, t) = heads[x]
      /\ \A p \in Blocks : ChildrenAt(p, t) = KidsOf(CurrentTree, p)
  BY <1>1, <1>2, <1>3 DEF NewestReadsAreHeads
<1>5. \A p \in Blocks : ChildrenNow(p) = KidsOf(CurrentTree, p)
  BY IndexGivesChildren DEF IInv
<1>6. PICK K \in [Blocks -> SUBSET Blocks] : \A x \in Blocks : K[x] = ChildrenNow(x)
  <2>1. [x \in Blocks |-> ChildrenNow(x)] \in [Blocks -> SUBSET Blocks]
    BY DEF ChildrenNow
  <2> QED BY <2>1
<1>7. PICK g : LevelsOf(g, K, b)
  BY LevelsExist
<1>8. \A x \in Blocks : /\ Children(x, None) = K[x] /\ Children(x, t) = K[x]
                        /\ Get(x, None) = Get(x, t)
  BY <1>1, <1>4, <1>5, <1>6 DEF Children, Get
<1>9. /\ Subtree(b, None) = IF Get(b, None).content.deleted THEN {} ELSE g[Depth]
      /\ Subtree(b, t) = IF Get(b, t).content.deleted THEN {} ELSE g[Depth]
  BY <1>1, <1>7, <1>8, SubtreeByLevels DEF SubtreeIsWalk
<1>10. g[Depth] \subseteq Blocks
  BY <1>7, LevelsStayIn, DepthIsNatural
<1>11. Subtree(b, None) = Subtree(b, t) /\ Subtree(b, t) \subseteq Blocks
  BY <1>8, <1>9, <1>10
<1> HIDE <1>9
<1> QED BY <1>8, <1>11 DEF Revision

\* A climb that has reached the project's root shows the block below it.
LEMMA ClimbedToRoot ==
  ASSUME TypeOK, NEW k, ArgumentsInv(k), ScopeInv(k), k.step = "scope",
         k.tool # "read", AtRoot(k)
  PROVE  InProject(k.root, k.block)
<1>1. k.cursor = k.root /\ Written(k.root) /\ k.root \in Ancestors(k.block)
  BY DEF ArgumentsInv, ScopeInv, AtRoot, Get, Written, Active
<1>2. Written(k.block)
  BY <1>1 DEF ScopeInv, Active
<1> QED BY <1>1, <1>2 DEF InProject

\* A call that has failed has nothing more to keep.
LEMMA FailedHolds == IsCall(Failed) /\ CallInv(Failed)
<1>1. IsCall(Idle) /\ Idle.tool = "none"
  BY DEF IsCall, Idle
<1>2. PICK i : i = Idle
  OBVIOUS
<1>3. PICK n : n = [i EXCEPT !.step = "failed"]
  OBVIOUS
<1>4. IsCall(n) /\ n.step = "failed" /\ n.tool = "none"
  BY <1>1, <1>2, <1>3 DEF IsCall
<1>5. CallInv(n)
  BY <1>4 DEF CallInv, ArgumentsInv, ReadInv, ScopeInv, RemoveInv, ReplaceInv,
              ReceiptsInv, Active
<1> QED BY <1>2, <1>3, <1>4, <1>5 DEF Failed

\* The fields of a call that starts.
LEMMA CallFields ==
  ASSUME NEW tool, NEW root, NEW block, NEW named, NEW whole,
         NEW k, k = Call(tool, root, block, named, whole)
  PROVE  /\ IsCall(k)
         /\ k.tool = tool /\ k.step = "scope" /\ k.root = root /\ k.block = block
         /\ k.named = named /\ k.whole = whole /\ k.cursor = block /\ k.at = None
         /\ DOMAIN k.seen = {} /\ k.written = {} /\ k.result = {}
<1>1. PICK i : i = Idle
  OBVIOUS
<1>2. DOMAIN NoBlocks = {}
  BY DEF NoBlocks
<1>3. /\ IsCall(i) /\ i.at = None /\ i.written = {} /\ i.result = {}
      /\ i.seen = NoBlocks
  BY <1>1 DEF IsCall, Idle
<1>4. k = [i EXCEPT !.tool = tool, !.step = "scope", !.root = root, !.block = block,
                    !.named = named, !.whole = whole, !.cursor = block]
  BY <1>1 DEF Call
<1> QED BY <1>2, <1>3, <1>4 DEF IsCall

\* A write that has just started.
LEMMA WriteStarts ==
  ASSUME NEW tool \in {"append", "insert", "replace", "change", "remove"},
         NEW r \in Roots, NEW b \in Blocks, NEW named, NEW whole,
         DOMAIN named \subseteq Blocks,
         tool = "append" => DOMAIN named = {},
         tool = "remove" /\ ~whole => DOMAIN named = {b},
         NEW k, k = Call(tool, r, b, named, whole)
  PROVE  IsCall(k) /\ CallInv(k)
<1>2. /\ IsCall(k)
      /\ k.tool = tool /\ k.step = "scope" /\ k.root = r /\ k.block = b
      /\ k.named = named /\ k.whole = whole /\ k.cursor = b /\ k.at = None
      /\ DOMAIN k.seen = {} /\ k.written = {} /\ k.result = {}
  BY CallFields
<1>3. b \in Ancestors(b)
  BY ChainHolds DEF Ancestors
<1>4. ArgumentsInv(k)
  BY <1>2 DEF ArgumentsInv
<1>5. ScopeInv(k)
  BY <1>2, <1>3 DEF ScopeInv
<1>6. ReadInv(k) /\ RemoveInv(k) /\ ReplaceInv(k) /\ ReceiptsInv(k)
  BY <1>2 DEF ReadInv, RemoveInv, ReplaceInv, ReceiptsInv
<1> QED BY <1>2, <1>4, <1>5, <1>6 DEF CallInv

\* A call starts with what its caller names.
LEMMA StartsMove ==
  ASSUME TypeOK, NEW c \in Calls, Starts(c)
  PROVE  Moves(c)
<1>0. /\ \A r \in Roots : r \in Blocks
      /\ DOMAIN NoRevisions = {} /\ \A b, t : DOMAIN Only(b, t) = {b}
  BY MemoryAssumption DEF LiveBlocks, NoRevisions, Only
<1>1. CASE StartRead(c)
  <2>1. PICK r \in Roots, b \in Blocks :
          Start(c, [Call("read", r, b, NoRevisions, FALSE) EXCEPT !.step = "snapshot"])
    BY <1>1 DEF StartRead
  <2>2. PICK k, tool, whole :
          tool = "read" /\ whole = FALSE /\ k = Call(tool, r, b, NoRevisions, whole)
    OBVIOUS
  <2>3. /\ IsCall(k)
        /\ k.tool = "read" /\ k.step = "scope" /\ k.root = r /\ k.block = b
        /\ k.named = NoRevisions /\ k.cursor = b /\ k.at = None
        /\ DOMAIN k.seen = {} /\ k.written = {} /\ k.result = {}
    BY <2>2, CallFields
  <2>4. PICK n : n = [k EXCEPT !.step = "snapshot"]
    OBVIOUS
  <2>5. /\ IsCall(n)
        /\ n.tool = "read" /\ n.step = "snapshot" /\ n.root = r /\ n.block = b
        /\ n.named = NoRevisions /\ n.cursor = b /\ n.at = None
        /\ DOMAIN n.seen = {} /\ n.written = {} /\ n.result = {}
    BY <2>3, <2>4 DEF IsCall
  <2>6. CallInv(n)
    BY <1>0, <2>5 DEF CallInv, ArgumentsInv, ReadInv, ScopeInv, RemoveInv, ReplaceInv,
                      ReceiptsInv
  <2> QED BY <2>1, <2>2, <2>4, <2>5, <2>6 DEF Moves, Start
<1>2. CASE StartAppend(c)
  <2>1. PICK r \in Roots, p \in Blocks : Start(c, Call("append", r, p, NoRevisions, FALSE))
    BY <1>2 DEF StartAppend
  <2> QED BY <1>0, <2>1, WriteStarts DEF Moves, Start
<1>3. CASE StartWrite(c)
  <2>1. PICK tool \in {"insert", "replace"}, r \in Roots, b \in Blocks :
          \E t \in Known(b) : Start(c, Call(tool, r, b, Only(b, t), FALSE))
    BY <1>3 DEF StartWrite
  <2>2. PICK t \in Known(b) : Start(c, Call(tool, r, b, Only(b, t), FALSE))
    BY <2>1
  <2>3. PICK named : named = Only(b, t)
    OBVIOUS
  <2>4. DOMAIN named = {b}
    BY <1>0, <2>3
  <2> QED BY <2>2, <2>3, <2>4, WriteStarts DEF Moves, Start
<1>4. CASE StartChange(c)
  <2>1. PICK r \in Roots, S \in Edited : \E named \in [S -> txLog], first \in S :
          Start(c, Call("change", r, first, named, FALSE))
    BY <1>4 DEF StartChange
  <2>2. PICK named \in [S -> txLog], first \in S :
          Start(c, Call("change", r, first, named, FALSE))
    BY <2>1
  <2>3. S \subseteq Blocks /\ DOMAIN named = S
    BY DEF Edited
  <2> QED BY <2>2, <2>3, WriteStarts DEF Moves, Start
<1>5. CASE StartRemove(c)
  <2>1. PICK r \in Roots, b \in Blocks :
          \/ \E t \in Known(b) : Start(c, Call("remove", r, b, Only(b, t), FALSE))
          \/ \E at \in txLog :
               Start(c, Call("remove", r, b, [x \in Subtree(b, at) |-> Get(x, at).tx], TRUE))
    BY <1>5 DEF StartRemove
  <2>2. ASSUME NEW t, Start(c, Call("remove", r, b, Only(b, t), FALSE))
        PROVE  Moves(c)
    <3>1. PICK named : named = Only(b, t)
      OBVIOUS
    <3>2. DOMAIN named = {b}
      BY <1>0, <3>1
    <3> QED BY <2>2, <3>1, <3>2, WriteStarts DEF Moves, Start
  <2>3. ASSUME NEW at \in txLog, NEW named, named = [x \in Subtree(b, at) |-> Get(x, at).tx],
               Start(c, Call("remove", r, b, named, TRUE))
        PROVE  Moves(c)
    <3>1. DOMAIN named = Subtree(b, at)
      BY <2>3
    <3>2. Subtree(b, at) \subseteq Blocks
      BY SubtreeInBlocks DEF TypeOK, Revisions
    <3> QED BY <2>3, <3>1, <3>2, WriteStarts DEF Moves, Start
  <2> QED BY <2>1, <2>2, <2>3
<1> QED BY <1>1, <1>2, <1>3, <1>4, <1>5 DEF Starts

\* An answer.
LEMMA DoneFields ==
  ASSUME NEW k, NEW n, n = Done(k)
  PROVE  /\ IsCall(n) /\ n.step = "done" /\ n.tool = k.tool
         /\ n.result = k.result /\ n.was = k.was
         /\ n.written = k.written /\ n.tx = k.tx
<1>1. PICK i : i = Idle
  OBVIOUS
<1>2. IsCall(i)
  BY <1>1 DEF IsCall, Idle
<1>3. n = [i EXCEPT !.tool = k.tool, !.step = "done", !.root = k.root, !.tx = k.tx,
                    !.result = k.result, !.was = k.was, !.written = k.written]
  BY <1>1 DEF Done
<1> QED BY <1>2, <1>3 DEF IsCall

\* The answer of a read that returns what its snapshot held.
LEMMA ReadIsDone ==
  ASSUME NEW k, k.tool = "read", k.written = {}, k.result = k.was
  PROVE  IsCall(Done(k)) /\ CallInv(Done(k))
<1>1. PICK n : n = Done(k)
  OBVIOUS
<1>2. /\ IsCall(n) /\ n.step = "done" /\ n.tool = "read"
      /\ n.result = n.was /\ n.written = {}
  BY <1>1, DoneFields
<1>3. CallInv(n)
  BY <1>2 DEF CallInv, ArgumentsInv, ReadInv, ScopeInv, RemoveInv, ReplaceInv,
              ReceiptsInv, Active
<1> QED BY <1>1, <1>2, <1>3

\* A read takes its snapshot.
LEMMA SnapshotMoves ==
  ASSUME MInv, NEW c \in Calls, Snapshot(c)
  PROVE  Moves(c)
<1>1. PICK k : k = call[c]
  OBVIOUS
<1>2. IsCall(k) /\ CallInv(k)
  BY <1>1 DEF MInv, Shape
<1>3. PICK t \in txLog :
        /\ IsLastTx(t)
        /\ Step(c, [k EXCEPT !.step = "scope", !.at = t,
                             !.was = Revision(Subtree(k.block, None), None)])
  BY <1>1, Zenon DEF Snapshot
<1>4. PICK w : w = Revision(Subtree(k.block, None), None)
  OBVIOUS
<1>5. PICK n : n = [k EXCEPT !.step = "scope", !.at = t, !.was = w]
  OBVIOUS
<1>6. /\ IsCall(n) /\ k.tool = "read" /\ k.step = "snapshot"
      /\ n.tool = k.tool /\ n.step = "scope" /\ n.root = k.root /\ n.block = k.block
      /\ n.named = k.named /\ n.cursor = k.cursor /\ n.at = t /\ n.seen = k.seen
      /\ n.written = k.written /\ n.result = k.result /\ n.was = w /\ n.whole = k.whole
  BY <1>1, <1>2, <1>5 DEF IsCall, Snapshot, At
<1>7. ArgumentsInv(n)
  BY <1>2, <1>6 DEF CallInv, ArgumentsInv, ReadInv, Active
<1>8. ReadInv(n)
  <2>1. k.block \in Blocks
    BY <1>2, <1>6 DEF CallInv, ArgumentsInv, Active
  <2>2. w = Revision(Subtree(k.block, t), t)
    BY <1>3, <1>4, <2>1, SnapshotIsCurrent DEF MInv
  <2> QED BY <1>2, <1>6, <2>2 DEF CallInv, ReadInv
<1>9. ScopeInv(n) /\ RemoveInv(n) /\ ReplaceInv(n) /\ ReceiptsInv(n)
  BY <1>6 DEF ScopeInv, RemoveInv, ReplaceInv, ReceiptsInv
<1> QED BY <1>3, <1>4, <1>5, <1>6, <1>7, <1>8, <1>9 DEF Moves, Step, CallInv

\* scoped goes up one block.
LEMMA ClimbMoves ==
  ASSUME MInv, NEW c \in Calls, Climb(c)
  PROVE  Moves(c)
<1>1. PICK k : k = call[c]
  OBVIOUS
<1>2. IsCall(k) /\ CallInv(k)
  BY <1>1 DEF MInv, Shape
<1>3. PICK b : b = Get(k.cursor, k.at)
  OBVIOUS
<1>4. /\ k.step = "scope" /\ b.tx # None /\ b.content.parent # None
      /\ Step(c, [k EXCEPT !.cursor = b.content.parent, !.seen = Fetched(k)])
  BY <1>1, <1>3, Zenon DEF Climb
<1>5. PICK s : s = Fetched(k)
  OBVIOUS
<1>6. PICK n : n = [k EXCEPT !.cursor = b.content.parent, !.seen = s]
  OBVIOUS
<1>7. /\ IsCall(n)
      /\ n.tool = k.tool /\ n.step = "scope" /\ n.root = k.root /\ n.block = k.block
      /\ n.named = k.named /\ n.cursor = b.content.parent /\ n.at = k.at /\ n.seen = s
      /\ n.written = k.written /\ n.result = k.result /\ n.was = k.was
      /\ n.whole = k.whole
  BY <1>2, <1>4, <1>6 DEF IsCall
<1>8. /\ k.cursor \in Blocks /\ k.block \in Blocks /\ DOMAIN k.seen \subseteq Blocks
      /\ TypeOK /\ VersionsOfHeads
  BY <1>2, <1>4 DEF CallInv, ArgumentsInv, Active, MInv, IInv
<1>9. b.content.parent \in Blocks
  <2>1. b \in HeadRow
    BY <1>3, <1>8, GetsVersion
  <2> QED BY <1>4, <2>1 DEF HeadRow, Content, ContentWith
<1>10. /\ DOMAIN s = DOMAIN k.seen \cup {k.block}
       /\ \A x \in DOMAIN s : Historical(x, s[x])
       /\ k.tool = "read" => \A x \in DOMAIN s : s[x] = VersionAt(x, k.at)
  BY <1>2, <1>4, <1>5, <1>8, FetchedHolds DEF CallInv
<1>11. ArgumentsInv(n)
  BY <1>2, <1>4, <1>7, <1>8, <1>9, <1>10 DEF CallInv, ArgumentsInv, Active
<1>12. ReadInv(n)
  BY <1>2, <1>4, <1>7, <1>10 DEF CallInv, ReadInv
<1>13. ScopeInv(n)
  <2> SUFFICES ASSUME k.tool # "read"
               PROVE  ScopeInv(n)
    BY <1>7 DEF ScopeInv
  <2>1. b = heads[k.cursor] /\ k.cursor \in Ancestors(k.block)
    BY <1>2, <1>3, <1>4 DEF CallInv, ArgumentsInv, ScopeInv, Active, Get
  <2>2. b.content.parent = CurrentTree[k.cursor].parent
    BY <1>8, <2>1 DEF CurrentTree
  <2>3. b.content.parent \in Ancestors(k.block)
    BY <1>4, <1>8, <1>9, <2>1, <2>2, ChainHolds DEF Ancestors
  <2>4. Written(k.block)
    BY <1>2, <1>4, <2>1 DEF CallInv, ScopeInv, Written, Active
  <2>5. k.tool = "change" =>
          \A x \in DOMAIN s :
            (InProject(k.root, x) /\ ~s[x].content.deleted) \/ x = k.block
    <3>1. \A x \in DOMAIN k.seen : x # k.block => s[x] = k.seen[x]
      BY <1>5 DEF Fetched, Over, Only
    <3> QED BY <1>2, <1>4, <1>10, <3>1 DEF CallInv, ScopeInv, Active
  <2> QED BY <1>7, <2>3, <2>4, <2>5 DEF ScopeInv
<1>14. RemoveInv(n) /\ ReplaceInv(n) /\ ReceiptsInv(n)
  BY <1>7 DEF RemoveInv, ReplaceInv, ReceiptsInv
<1> QED BY <1>4, <1>5, <1>6, <1>7, <1>11, <1>12, <1>13, <1>14 DEF Moves, Step, CallInv

\* A read's block is in its project at the snapshot.
LEMMA ReadScopedMoves ==
  ASSUME MInv, NEW c \in Calls, ReadScoped(c)
  PROVE  Moves(c)
<1>1. PICK k : k = call[c]
  OBVIOUS
<1>2. IsCall(k) /\ CallInv(k)
  BY <1>1 DEF MInv, Shape
<1>3. /\ k.tool = "read" /\ k.step = "scope"
      /\ IF Fetched(k)[k.block].content.deleted THEN Step(c, Done(k))
         ELSE Step(c, [k EXCEPT !.step = "subtree"])
  BY <1>1 DEF ReadScoped, At
<1>4. /\ k.block \in Blocks /\ k.at \in txLog /\ k.at # None /\ k.written = {}
      /\ k.result = {} /\ k.was = Revision(Subtree(k.block, k.at), k.at)
      /\ TypeOK /\ VersionsOfHeads
  BY <1>2, <1>3 DEF CallInv, ArgumentsInv, ReadInv, Active, MInv, IInv, TypeOK, Txs, None
<1>5. CASE Fetched(k)[k.block].content.deleted
  <2>1. Fetched(k)[k.block] = Get(k.block, k.at)
    BY <1>2, <1>3, <1>4, FetchedHolds DEF CallInv, Get
  <2>2. Subtree(k.block, k.at) = {}
    BY <1>5, <2>1 DEF Subtree
  <2>3. k.result = k.was
    BY <1>4, <2>2 DEF Revision
  <2> QED BY <1>3, <1>4, <1>5, <2>3, ReadIsDone DEF Moves, Step
<1>6. CASE ~Fetched(k)[k.block].content.deleted
  <2>1. PICK n : n = [k EXCEPT !.step = "subtree"]
    OBVIOUS
  <2>2. /\ IsCall(n)
        /\ n.tool = k.tool /\ n.step = "subtree" /\ n.root = k.root /\ n.block = k.block
        /\ n.named = k.named /\ n.cursor = k.cursor /\ n.at = k.at /\ n.seen = k.seen
        /\ n.written = k.written /\ n.result = k.result /\ n.was = k.was
        /\ n.whole = k.whole
    BY <1>2, <2>1 DEF IsCall
  <2>3. ArgumentsInv(n) /\ ReadInv(n)
    BY <1>2, <1>3, <2>2 DEF CallInv, ArgumentsInv, ReadInv, Active
  <2>4. ScopeInv(n) /\ RemoveInv(n) /\ ReplaceInv(n) /\ ReceiptsInv(n)
    BY <1>3, <2>2 DEF ScopeInv, RemoveInv, ReplaceInv, ReceiptsInv
  <2> QED BY <1>3, <1>6, <2>1, <2>2, <2>3, <2>4 DEF Moves, Step, CallInv
<1> QED BY <1>5, <1>6

\* The block of a write is in its project.
LEMMA WriteScopedMoves ==
  ASSUME MInv, NEW c \in Calls, WriteScoped(c)
  PROVE  Moves(c)
<1>1. PICK k : k = call[c]
  OBVIOUS
<1>2. IsCall(k) /\ CallInv(k)
  BY <1>1 DEF MInv, Shape
<1>3. PICK step : step = CASE k.tool = "append"  -> "parent"
                           [] k.tool = "insert"  -> "anchor"
                           [] k.tool = "replace" -> "target"
  OBVIOUS
<1>4. /\ k.tool \in {"append", "insert", "replace"} /\ k.step = "scope" /\ AtRoot(k)
      /\ Step(c, [k EXCEPT !.step = step])
  BY <1>1, <1>3 DEF WriteScoped, At
<1>5. step \in {"parent", "anchor", "target"}
  BY <1>3, <1>4
<1>6. PICK n : n = [k EXCEPT !.step = step]
  OBVIOUS
<1>7. /\ IsCall(n)
      /\ n.tool = k.tool /\ n.step = step /\ n.root = k.root /\ n.block = k.block
      /\ n.named = k.named /\ n.cursor = k.cursor /\ n.at = k.at /\ n.seen = k.seen
      /\ n.written = k.written /\ n.whole = k.whole
  BY <1>2, <1>6 DEF IsCall
<1>8. InProject(k.root, k.block)
  BY <1>2, <1>4, ClimbedToRoot DEF CallInv, MInv, IInv
<1>9. ArgumentsInv(n)
  BY <1>2, <1>4, <1>5, <1>7 DEF CallInv, ArgumentsInv, Active
<1>10. ScopeInv(n)
  BY <1>4, <1>5, <1>7, <1>8 DEF ScopeInv
<1>11. ReadInv(n) /\ RemoveInv(n) /\ ReplaceInv(n) /\ ReceiptsInv(n)
  BY <1>4, <1>5, <1>7 DEF ReadInv, RemoveInv, ReplaceInv, ReceiptsInv
<1> QED BY <1>4, <1>6, <1>7, <1>9, <1>10, <1>11 DEF Moves, Step, CallInv

\* change has compared one block, and goes on to the next or to the write.
LEMMA ChangeScopedMoves ==
  ASSUME MInv, NEW c \in Calls, ChangeScoped(c)
  PROVE  Moves(c)
<1>1. PICK k : k = call[c]
  OBVIOUS
<1>2. IsCall(k) /\ CallInv(k)
  BY <1>1 DEF MInv, Shape
<1>3. PICK s : s = Fetched(k)
  OBVIOUS
<1>4. /\ k.tool = "change" /\ k.step = "scope" /\ AtRoot(k)
      /\ ~s[k.block].content.deleted
      /\ \/ Step(c, [k EXCEPT !.seen = s, !.step = "transact"])
         \/ \E b \in DOMAIN k.named \ DOMAIN s :
              Step(c, [k EXCEPT !.seen = s, !.block = b, !.cursor = b])
  BY <1>1, <1>3, Zenon DEF ChangeScoped, At, Fresh
<1>5. /\ k.block \in Blocks /\ DOMAIN k.seen \subseteq Blocks
      /\ DOMAIN k.named \subseteq Blocks /\ TypeOK /\ VersionsOfHeads
  BY <1>2, <1>4 DEF CallInv, ArgumentsInv, Active, MInv, IInv
<1>6. /\ DOMAIN s = DOMAIN k.seen \cup {k.block}
      /\ \A x \in DOMAIN s : Historical(x, s[x])
  BY <1>2, <1>3, <1>4, <1>5, FetchedHolds DEF CallInv
<1>7. \A x \in DOMAIN s : InProject(k.root, x) /\ ~s[x].content.deleted
  <2>1. InProject(k.root, k.block)
    BY <1>2, <1>4, <1>5, ClimbedToRoot DEF CallInv
  <2>2. \A x \in DOMAIN k.seen : x # k.block => s[x] = k.seen[x]
    BY <1>3 DEF Fetched, Over, Only
  <2> QED BY <1>2, <1>4, <1>6, <2>1, <2>2 DEF CallInv, ScopeInv, Active
<1>8. CASE Step(c, [k EXCEPT !.seen = s, !.step = "transact"])
  <2>1. PICK n : n = [k EXCEPT !.seen = s, !.step = "transact"]
    OBVIOUS
  <2>2. /\ IsCall(n)
        /\ n.tool = k.tool /\ n.step = "transact" /\ n.root = k.root /\ n.block = k.block
        /\ n.named = k.named /\ n.cursor = k.cursor /\ n.at = k.at /\ n.seen = s
        /\ n.written = k.written /\ n.whole = k.whole
    BY <1>2, <2>1 DEF IsCall
  <2>3. ArgumentsInv(n)
    BY <1>2, <1>4, <1>5, <1>6, <2>2 DEF CallInv, ArgumentsInv, Active
  <2>4. ScopeInv(n)
    BY <1>4, <1>6, <1>7, <2>2 DEF ScopeInv
  <2>5. ReadInv(n) /\ RemoveInv(n) /\ ReplaceInv(n) /\ ReceiptsInv(n)
    BY <1>4, <2>2 DEF ReadInv, RemoveInv, ReplaceInv, ReceiptsInv
  <2> QED BY <1>8, <2>1, <2>2, <2>3, <2>4, <2>5 DEF Moves, Step, CallInv
<1>9. ASSUME NEW b \in DOMAIN k.named \ DOMAIN s,
             Step(c, [k EXCEPT !.seen = s, !.block = b, !.cursor = b])
      PROVE  Moves(c)
  <2>1. PICK n : n = [k EXCEPT !.seen = s, !.block = b, !.cursor = b]
    OBVIOUS
  <2>2. /\ IsCall(n)
        /\ n.tool = k.tool /\ n.step = k.step /\ n.root = k.root /\ n.block = b
        /\ n.named = k.named /\ n.cursor = b /\ n.at = k.at /\ n.seen = s
        /\ n.written = k.written /\ n.whole = k.whole
    BY <1>2, <2>1 DEF IsCall
  <2>3. ArgumentsInv(n)
    BY <1>2, <1>4, <1>5, <1>6, <2>2 DEF CallInv, ArgumentsInv, Active
  <2>4. b \in Ancestors(b)
    BY <1>5, ChainHolds DEF Ancestors
  <2>5. ScopeInv(n)
    BY <1>4, <1>7, <2>2, <2>4 DEF ScopeInv
  <2>6. ReadInv(n) /\ RemoveInv(n) /\ ReplaceInv(n) /\ ReceiptsInv(n)
    BY <1>4, <2>2 DEF ReadInv, RemoveInv, ReplaceInv, ReceiptsInv
  <2> QED BY <1>9, <2>1, <2>2, <2>3, <2>5, <2>6 DEF Moves, Step, CallInv
<1> QED BY <1>4, <1>8, <1>9

\* The block of a removal is in its project.
LEMMA RemoveScopedMoves ==
  ASSUME MInv, NEW c \in Calls, RemoveScoped(c)
  PROVE  Moves(c)
<1>1. PICK k : k = call[c]
  OBVIOUS
<1>2. IsCall(k) /\ CallInv(k)
  BY <1>1 DEF MInv, Shape
<1>3. /\ k.tool = "remove" /\ k.step = "scope" /\ AtRoot(k)
      /\ Step(c, [k EXCEPT !.step = "subtree"])
  BY <1>1 DEF RemoveScoped, At
<1>4. PICK n : n = [k EXCEPT !.step = "subtree"]
  OBVIOUS
<1>5. /\ IsCall(n)
      /\ n.tool = k.tool /\ n.step = "subtree" /\ n.root = k.root /\ n.block = k.block
      /\ n.named = k.named /\ n.cursor = k.cursor /\ n.at = k.at /\ n.seen = k.seen
      /\ n.written = k.written /\ n.whole = k.whole
  BY <1>2, <1>4 DEF IsCall
<1>6. InProject(k.root, k.block)
  BY <1>2, <1>3, ClimbedToRoot DEF CallInv, MInv, IInv
<1>7. ArgumentsInv(n)
  BY <1>2, <1>3, <1>5 DEF CallInv, ArgumentsInv, Active
<1>8. ScopeInv(n)
  BY <1>3, <1>5, <1>6 DEF ScopeInv
<1>9. ReadInv(n) /\ RemoveInv(n) /\ ReplaceInv(n) /\ ReceiptsInv(n)
  BY <1>3, <1>5 DEF ReadInv, RemoveInv, ReplaceInv, ReceiptsInv
<1> QED BY <1>3, <1>4, <1>5, <1>7, <1>8, <1>9 DEF Moves, Step, CallInv

\* The subtree of a read, at its snapshot.
LEMMA ReadSubtreeMoves ==
  ASSUME MInv, NEW c \in Calls, ReadSubtree(c)
  PROVE  Moves(c)
<1>1. PICK k : k = call[c]
  OBVIOUS
<1>2. IsCall(k) /\ CallInv(k)
  BY <1>1 DEF MInv, Shape
<1>3. PICK all : all = [k EXCEPT !.result = Revision(Subtree(k.block, k.at), k.at)]
  OBVIOUS
<1>4. /\ k.tool = "read" /\ k.step = "subtree"
      /\ Step(c, IF k.block = k.root THEN [all EXCEPT !.step = "entries"]
                 ELSE Done(all))
  BY <1>1, <1>3, Zenon DEF ReadSubtree, At
<1>5. /\ k.was = Revision(Subtree(k.block, k.at), k.at) /\ k.written = {}
  BY <1>2, <1>4 DEF CallInv, ArgumentsInv, ReadInv, Active
<1>6. /\ IsCall(all)
      /\ all.tool = k.tool /\ all.step = k.step /\ all.root = k.root
      /\ all.block = k.block /\ all.named = k.named /\ all.cursor = k.cursor
      /\ all.at = k.at /\ all.seen = k.seen /\ all.written = k.written
      /\ all.whole = k.whole /\ all.result = k.was /\ all.was = k.was
  BY <1>2, <1>3, <1>5 DEF IsCall
<1>7. CASE k.block # k.root
  BY <1>4, <1>5, <1>6, <1>7, ReadIsDone DEF Moves, Step
<1>8. CASE k.block = k.root
  <2>1. PICK n : n = [all EXCEPT !.step = "entries"]
    OBVIOUS
  <2>2. /\ IsCall(n)
        /\ n.tool = k.tool /\ n.step = "entries" /\ n.root = k.root
        /\ n.block = k.block /\ n.named = k.named /\ n.cursor = k.cursor
        /\ n.at = k.at /\ n.seen = k.seen /\ n.written = k.written
        /\ n.whole = k.whole /\ n.result = k.was /\ n.was = k.was
    BY <1>6, <2>1 DEF IsCall
  <2>3. ArgumentsInv(n) /\ ReadInv(n)
    BY <1>2, <1>4, <1>8, <2>2 DEF CallInv, ArgumentsInv, ReadInv, Active
  <2>4. ScopeInv(n) /\ RemoveInv(n) /\ ReplaceInv(n) /\ ReceiptsInv(n)
    BY <1>4, <2>2 DEF ScopeInv, RemoveInv, ReplaceInv, ReceiptsInv
  <2> QED BY <1>4, <1>8, <2>1, <2>2, <2>3, <2>4 DEF Moves, Step, CallInv
<1> QED BY <1>7, <1>8

\* The entry points of a read of the root, at its snapshot.
LEMMA ReadEntriesMoves ==
  ASSUME MInv, NEW c \in Calls, ReadEntries(c)
  PROVE  Moves(c)
<1>1. PICK k : k = call[c]
  OBVIOUS
<1>2. IsCall(k) /\ CallInv(k)
  BY <1>1 DEF MInv, Shape
<1>3. PICK w : w = k.result \cup Revision(Subtree(k.root, k.at), k.at)
  OBVIOUS
<1>4. PICK all : all = [k EXCEPT !.result = w]
  OBVIOUS
<1>5. k.tool = "read" /\ k.step = "entries" /\ Step(c, Done(all))
  BY <1>1, <1>3, <1>4 DEF ReadEntries, At
<1>6. /\ k.was = Revision(Subtree(k.root, k.at), k.at) /\ k.written = {}
      /\ k.result = k.was
  BY <1>2, <1>5 DEF CallInv, ArgumentsInv, ReadInv, Active
<1>7. /\ all.tool = k.tool /\ all.written = k.written
      /\ all.result = k.was /\ all.was = k.was
  BY <1>2, <1>3, <1>4, <1>6 DEF IsCall
<1> QED BY <1>5, <1>6, <1>7, ReadIsDone DEF Moves, Step

\* replace has compared its target, a text.
LEMMA ReadTargetMoves ==
  ASSUME MInv, NEW c \in Calls, ReadTarget(c)
  PROVE  Moves(c)
<1>1. PICK k : k = call[c]
  OBVIOUS
<1>2. IsCall(k) /\ CallInv(k)
  BY <1>1 DEF MInv, Shape
<1>3. PICK b : b = heads[k.block]
  OBVIOUS
<1>4. PICK s : s = Only(k.block, b)
  OBVIOUS
<1>5. /\ k.tool = "replace" /\ k.step = "target"
      /\ ~b.content.deleted /\ b.content.kind = "Text"
      /\ Step(c, [k EXCEPT !.seen = s, !.step = "transact"])
  BY <1>1, <1>3, <1>4, Zenon DEF ReadTarget, At
<1>6. PICK n : n = [k EXCEPT !.seen = s, !.step = "transact"]
  OBVIOUS
<1>7. /\ IsCall(n)
      /\ n.tool = k.tool /\ n.step = "transact" /\ n.root = k.root /\ n.block = k.block
      /\ n.named = k.named /\ n.cursor = k.cursor /\ n.at = k.at /\ n.seen = s
      /\ n.written = k.written /\ n.whole = k.whole
  BY <1>2, <1>6 DEF IsCall
<1>8. /\ k.block \in Blocks /\ DOMAIN s = {k.block} /\ s[k.block] = b
  BY <1>2, <1>4, <1>5 DEF CallInv, ArgumentsInv, Active, Only
<1>9. Historical(k.block, b)
  BY <1>3, <1>8, GetsVersion DEF MInv, IInv, Get
<1>10. ArgumentsInv(n)
  BY <1>2, <1>5, <1>7, <1>8, <1>9 DEF CallInv, ArgumentsInv, Active
<1>11. ScopeInv(n)
  BY <1>2, <1>5, <1>7 DEF CallInv, ScopeInv, Active
<1>12. b.content.parent # None
  <2>1. CurrentTree[k.block] = b.content /\ k.block \in LiveBlocks(CurrentTree)
    BY <1>3, <1>5, <1>8 DEF CurrentTree, LiveBlocks
  <2>2. Canonical(b.content)
    BY <2>1 DEF MInv, IInv, Topology, WellFormed, WellPlaced
  <2> QED BY <1>5, <2>2 DEF Canonical
<1>13. ReplaceInv(n)
  BY <1>7, <1>8, <1>12 DEF ReplaceInv
<1>14. ReadInv(n) /\ RemoveInv(n) /\ ReceiptsInv(n)
  BY <1>5, <1>7 DEF ReadInv, RemoveInv, ReceiptsInv
<1> QED BY <1>5, <1>6, <1>7, <1>10, <1>11, <1>13, <1>14 DEF Moves, Step, CallInv

\* insert has read its anchor's parent.
LEMMA ReadAnchorMoves ==
  ASSUME MInv, NEW c \in Calls, ReadAnchor(c)
  PROVE  Moves(c)
<1>1. PICK k : k = call[c]
  OBVIOUS
<1>2. IsCall(k) /\ CallInv(k)
  BY <1>1 DEF MInv, Shape
<1>3. PICK p : p = heads[k.block].content.parent
  OBVIOUS
<1>4. /\ k.tool = "insert" /\ k.step = "anchor" /\ p # None
      /\ Step(c, [k EXCEPT !.cursor = p, !.step = "parent"])
  BY <1>1, <1>3, Zenon DEF ReadAnchor, At
<1>5. PICK n : n = [k EXCEPT !.cursor = p, !.step = "parent"]
  OBVIOUS
<1>6. /\ IsCall(n)
      /\ n.tool = k.tool /\ n.step = "parent" /\ n.root = k.root /\ n.block = k.block
      /\ n.named = k.named /\ n.cursor = p /\ n.at = k.at /\ n.seen = k.seen
      /\ n.written = k.written /\ n.whole = k.whole
  BY <1>2, <1>5 DEF IsCall
<1>7. p \in Blocks
  <2>1. k.block \in Blocks
    BY <1>2, <1>4 DEF CallInv, ArgumentsInv, Active
  <2> QED BY <1>3, <1>4, <2>1 DEF MInv, IInv, TypeOK, HeadRow, Content, ContentWith
<1>8. ArgumentsInv(n)
  BY <1>2, <1>4, <1>6, <1>7 DEF CallInv, ArgumentsInv, Active
<1>9. ScopeInv(n)
  BY <1>2, <1>4, <1>6 DEF CallInv, ScopeInv, Active
<1>10. ReadInv(n) /\ RemoveInv(n) /\ ReplaceInv(n) /\ ReceiptsInv(n)
  BY <1>4, <1>6 DEF ReadInv, RemoveInv, ReplaceInv, ReceiptsInv
<1> QED BY <1>4, <1>5, <1>6, <1>8, <1>9, <1>10 DEF Moves, Step, CallInv

\* append and insert have read the parent of what they write.
LEMMA ReadParentMoves ==
  ASSUME MInv, NEW c \in Calls, ReadParent(c)
  PROVE  Moves(c)
<1>1. PICK k : k = call[c]
  OBVIOUS
<1>2. IsCall(k) /\ CallInv(k)
  BY <1>1 DEF MInv, Shape
<1>3. PICK list : list = (heads[IF k.tool = "append" THEN k.block
                                ELSE k.cursor].content.kind = "List")
  OBVIOUS
<1>4. /\ k.tool \in {"append", "insert"} /\ k.step = "parent"
      /\ Step(c, [k EXCEPT !.list = list, !.step = "transact"])
  BY <1>1, <1>3, Zenon DEF ReadParent, At
<1>5. PICK n : n = [k EXCEPT !.list = list, !.step = "transact"]
  OBVIOUS
<1>6. /\ IsCall(n)
      /\ n.tool = k.tool /\ n.step = "transact" /\ n.root = k.root /\ n.block = k.block
      /\ n.named = k.named /\ n.cursor = k.cursor /\ n.at = k.at /\ n.seen = k.seen
      /\ n.written = k.written /\ n.whole = k.whole
  BY <1>2, <1>5 DEF IsCall
<1>7. ArgumentsInv(n)
  BY <1>2, <1>4, <1>6 DEF CallInv, ArgumentsInv, Active
<1>8. ScopeInv(n)
  BY <1>2, <1>4, <1>6 DEF CallInv, ScopeInv, Active
<1>9. ReadInv(n) /\ RemoveInv(n) /\ ReplaceInv(n) /\ ReceiptsInv(n)
  BY <1>4, <1>6 DEF ReadInv, RemoveInv, ReplaceInv, ReceiptsInv
<1> QED BY <1>4, <1>5, <1>6, <1>7, <1>8, <1>9 DEF Moves, Step, CallInv

\* The receipts of a write, at the transaction it committed.
LEMMA ReceiptsMove ==
  ASSUME MInv, NEW c \in Calls, Receipts(c)
  PROVE  Moves(c)
<1>1. PICK k : k = call[c]
  OBVIOUS
<1>2. IsCall(k) /\ CallInv(k)
  BY <1>1 DEF MInv, Shape
<1>3. PICK w : w = Revision(k.written, k.tx)
  OBVIOUS
<1>4. /\ k.step = "receipts"
      /\ Step(c, [k EXCEPT !.step = "done", !.result = w])
  BY <1>1, <1>3, Zenon DEF Receipts
<1>5. PICK n : n = [k EXCEPT !.step = "done", !.result = w]
  OBVIOUS
<1>6. /\ IsCall(n) /\ n.tool = k.tool /\ n.step = "done" /\ n.tx = k.tx
      /\ n.written = k.written /\ n.result = w
  BY <1>2, <1>5 DEF IsCall
<1>7. /\ k.tool # "read" /\ k.tx \in txLog /\ k.tx # None
      /\ \A b \in k.written : VersionAt(b, k.tx).tx = k.tx
  BY <1>2, <1>4 DEF CallInv, ReadInv, ReceiptsInv, MInv, IInv, TypeOK, Txs, None
<1>8. w = {<<b, k.tx>> : b \in k.written}
  BY <1>3, <1>7 DEF Revision, Get
<1>9. ReceiptsInv(n)
  BY <1>6, <1>8 DEF ReceiptsInv
<1>10. ArgumentsInv(n) /\ ReadInv(n) /\ ScopeInv(n) /\ RemoveInv(n) /\ ReplaceInv(n)
  BY <1>6, <1>7 DEF ArgumentsInv, ReadInv, ScopeInv, RemoveInv, ReplaceInv, Active
<1> QED BY <1>4, <1>5, <1>6, <1>9, <1>10 DEF Moves, Step, CallInv

\* The current subtree of a live block: the levels of a walk by its children.
LEMMA CurrentSubtree ==
  ASSUME IInv, NEW b \in Blocks
  PROVE  \E K \in [Blocks -> SUBSET Blocks] : \E g :
           /\ \A p \in Blocks : K[p] = KidsOf(CurrentTree, p)
           /\ LevelsOf(g, K, b) /\ g[Depth] \subseteq Blocks
           /\ Subtree(b, None) = IF heads[b].content.deleted THEN {} ELSE g[Depth]
<1>1. PICK K \in [Blocks -> SUBSET Blocks] :
        \A p \in Blocks : K[p] = KidsOf(CurrentTree, p)
  <2>1. \A p \in Blocks : KidsOf(CurrentTree, p) \in SUBSET Blocks
    BY DEF KidsOf, LiveBlocks
  <2>2. [p \in Blocks |-> KidsOf(CurrentTree, p)] \in [Blocks -> SUBSET Blocks]
    BY <2>1
  <2> QED BY <2>2
<1>2. PICK g : LevelsOf(g, K, b)
  BY LevelsExist
<1>3. g[Depth] \subseteq Blocks
  BY <1>2, LevelsStayIn, DepthIsNatural
<1>4. \A p \in Blocks : Children(p, None) = K[p]
  BY <1>1, IndexGivesChildren DEF IInv, Children
<1>5. None \in Revisions /\ Get(b, None) = heads[b]
  BY DEF Revisions, None, Get
<1>6. Subtree(b, None) = IF heads[b].content.deleted THEN {} ELSE g[Depth]
  BY <1>2, <1>4, <1>5, SubtreeByLevels DEF SubtreeIsWalk
<1> QED BY <1>1, <1>2, <1>3, <1>6

\* A set of blocks with one member at most.
LEMMA OnlyMember ==
  ASSUME NEW S \in SUBSET Blocks, NEW b \in S, ~(Cardinality(S) > 1)
  PROVE  S = {b}
<1> SUFFICES ASSUME NEW y \in S, y # b
             PROVE  FALSE
  OBVIOUS
<1>1. IsFiniteSet(S) /\ {b, y} \subseteq S
  BY MemoryAssumption, FS_Subset
<1>2. Cardinality({b, y}) =< Cardinality(S) /\ Cardinality(S) \in Nat
  BY <1>1, FS_Subset, FS_CardinalityType
<1>3. IsFiniteSet({b}) /\ Cardinality({b}) = 1
  BY FS_Singleton
<1>4. Cardinality({b} \cup {y}) = 2
  <2>1. y \notin {b}
    OBVIOUS
  <2>2. Cardinality({b} \cup {y}) = Cardinality({b}) + 1
    BY <1>3, <2>1, FS_AddElement
  <2> QED BY <1>3, <2>2
<1>5. {b} \cup {y} = {b, y}
  OBVIOUS
<1> QED BY <1>2, <1>4, <1>5

\* A removal has read the complete subtree.
LEMMA RemoveSubtreeMoves ==
  ASSUME MInv, NEW c \in Calls, RemoveSubtree(c)
  PROVE  Moves(c)
<1>1. PICK k : k = call[c]
  OBVIOUS
<1>2. IsCall(k) /\ CallInv(k) /\ IInv
  BY <1>1 DEF MInv, Shape
<1>3. PICK S : S = Subtree(k.block, None)
  OBVIOUS
<1>4. PICK s : s = [b \in S |-> heads[b]]
  OBVIOUS
<1>5. /\ k.tool = "remove" /\ k.step = "subtree"
      /\ S # {} /\ heads[k.block].tx = k.named[k.block]
      /\ Cardinality(S) > 1 => k.whole
      /\ k.whole => Revision(S, None) = {<<b, k.named[b]>> : b \in DOMAIN k.named}
      /\ Step(c, [k EXCEPT !.seen = s, !.step = "transact"])
  BY <1>1, <1>3, <1>4, Zenon DEF RemoveSubtree, At
<1>6. PICK n : n = [k EXCEPT !.seen = s, !.step = "transact"]
  OBVIOUS
<1>7. /\ IsCall(n)
      /\ n.tool = k.tool /\ n.step = "transact" /\ n.root = k.root /\ n.block = k.block
      /\ n.named = k.named /\ n.cursor = k.cursor /\ n.at = k.at /\ n.seen = s
      /\ n.written = k.written /\ n.whole = k.whole
  BY <1>2, <1>6 DEF IsCall
<1>8. k.block \in Blocks /\ InProject(k.root, k.block)
  BY <1>2, <1>5 DEF CallInv, ArgumentsInv, ScopeInv, Active
<1>9. PICK K \in [Blocks -> SUBSET Blocks] : \E g :
        /\ \A p \in Blocks : K[p] = KidsOf(CurrentTree, p)
        /\ LevelsOf(g, K, k.block) /\ g[Depth] \subseteq Blocks
        /\ Subtree(k.block, None)
             = IF heads[k.block].content.deleted THEN {} ELSE g[Depth]
  BY <1>2, <1>8, CurrentSubtree
<1>19. PICK g :
        /\ \A p \in Blocks : K[p] = KidsOf(CurrentTree, p)
        /\ LevelsOf(g, K, k.block) /\ g[Depth] \subseteq Blocks
        /\ Subtree(k.block, None)
             = IF heads[k.block].content.deleted THEN {} ELSE g[Depth]
  BY <1>9
<1>10. S = g[Depth] /\ ~heads[k.block].content.deleted /\ S \subseteq Blocks
       /\ k.block \in S
  <2>1. S = g[Depth] /\ ~heads[k.block].content.deleted
    BY <1>3, <1>5, <1>19
  <2> QED BY <1>19, <2>1, LevelsGrow
<1>11. DOMAIN s = S /\ \A b \in S : s[b] = heads[b] /\ Historical(b, s[b])
  <2>1. \A b \in S : Get(b, None) = heads[b] /\ Historical(b, Get(b, None))
    BY <1>2, <1>10, GetsVersion DEF IInv, Get
  <2> QED BY <1>4, <2>1
<1>12. ArgumentsInv(n)
  BY <1>2, <1>5, <1>7, <1>10, <1>11 DEF CallInv, ArgumentsInv, Active
<1>13. ScopeInv(n)
  BY <1>5, <1>7, <1>8 DEF ScopeInv
<1>14. \A b \in S : InProject(k.root, b) /\ ~s[b].content.deleted
  <2> DEFINE X == {x \in Blocks : ~heads[x].content.deleted /\ InProject(k.root, x)}
  <2>1. k.block \in X
    BY <1>8, <1>10
  <2>2. ASSUME NEW x \in X, NEW y \in K[x]
        PROVE  y \in X
    <3>1. /\ y \in Blocks /\ ~heads[y].content.deleted
          /\ CurrentTree[y].parent = x
      BY <1>19, <2>2 DEF KidsOf, LiveBlocks, CurrentTree
    <3>2. Written(y)
      BY <1>2, <3>1, LiveIsWritten DEF IInv, LiveBlocksAreWritten
    <3>3. x \in Ancestors(y) /\ Ancestors(x) \subseteq Ancestors(y)
      <4>1. x \in Blocks \ {None}
        BY BlocksAssumption DEF None
      <4>2. x \in Chain(CurrentTree, y)
        BY <3>1, <4>1, ChainHolds
      <4> QED BY <3>1, <4>2, ChainHolds DEF Ancestors
    <3> QED BY <3>1, <3>2, <3>3 DEF InProject
  <2>3. g[Depth] \subseteq X
    <3> HIDE DEF X
    <3> QED BY <1>19, <2>1, <2>2, LevelsStayIn, DepthIsNatural
  <2> QED BY <1>10, <1>11, <2>3
<1>15. {<<b, s[b].tx>> : b \in DOMAIN s} = {<<b, k.named[b]>> : b \in DOMAIN k.named}
  <2>1. CASE k.whole
    <3>1. Revision(S, None) = {<<b, s[b].tx>> : b \in DOMAIN s}
      BY <1>11 DEF Revision, Get
    <3> QED BY <1>5, <2>1, <3>1
  <2>2. CASE ~k.whole
    <3>1. S = {k.block}
      BY <1>5, <1>10, <2>2, OnlyMember
    <3>2. DOMAIN k.named = {k.block}
      BY <1>2, <1>5, <2>2 DEF CallInv, ArgumentsInv, Active
    <3> QED BY <1>5, <1>11, <3>1, <3>2
  <2> QED BY <2>1, <2>2
<1>16. \E h : LevelsOf(h, SeenKids(s), k.block) /\ DOMAIN s = h[Depth]
  <2>1. PICK h : LevelsOf(h, SeenKids(s), k.block)
    BY LevelsExist
  <2>2. ASSUME NEW m \in 1 .. Depth, NEW x \in g[m - 1]
        PROVE  K[x] = SeenKids(s)[x]
    <3>1. K[x] \subseteq S
      BY <1>19, <1>10, LevelsGrow
    <3>2. x \in Blocks
      <4>1. m - 1 \in 0 .. Depth
        BY DepthIsNatural
      <4> QED BY <1>19, <4>1, LevelsGrow
    <3>3. K[x] = {b \in Blocks : ~heads[b].content.deleted
                                 /\ heads[b].content.parent = x}
      BY <1>19, <3>2 DEF KidsOf, LiveBlocks, CurrentTree
    <3>4. SeenKids(s)[x] = {b \in S : ~heads[b].content.deleted
                                      /\ heads[b].content.parent = x}
      BY <1>11, <3>2 DEF SeenKids
    <3> QED BY <1>10, <3>1, <3>3, <3>4
  <2>3. g[Depth] = h[Depth]
    <3> DEFINE L == SeenKids(s)
    <3>1. LevelsOf(h, L, k.block) /\ \A m \in 1 .. Depth : \A x \in g[m - 1] : K[x] = L[x]
      BY <2>1, <2>2
    <3> HIDE DEF L
    <3> QED BY <1>19, <3>1, LevelsDepend
  <2> QED BY <1>10, <1>11, <2>1, <2>3
<1>17. RemoveInv(n)
  BY <1>7, <1>11, <1>14, <1>15, <1>16 DEF RemoveInv
<1>18. ReadInv(n) /\ ReplaceInv(n) /\ ReceiptsInv(n)
  BY <1>5, <1>7 DEF ReadInv, ReplaceInv, ReceiptsInv
<1> QED BY <1>5, <1>6, <1>7, <1>12, <1>13, <1>17, <1>18 DEF Moves, Step, CallInv

\* Every step that does not write the store moves its call on.
LEMMA ReadsMove ==
  ASSUME MInv, NEW c \in Calls, Starts(c) \/ Reads(c) \/ Reject(c)
  PROVE  Moves(c)
<1>1. CASE Starts(c)
  BY <1>1, StartsMove DEF MInv, IInv
<1>2. CASE Reads(c)
  BY <1>2, SnapshotMoves, ClimbMoves, ReadScopedMoves, ReadSubtreeMoves,
     ReadEntriesMoves, WriteScopedMoves, ChangeScopedMoves, RemoveScopedMoves,
     RemoveSubtreeMoves, ReadTargetMoves, ReadAnchorMoves, ReadParentMoves,
     ReceiptsMove DEF Reads
<1>3. CASE Reject(c)
  BY <1>3, FailedHolds DEF Reject, Step, Moves
<1> QED BY <1>1, <1>2, <1>3

-----------------------------------------------------------------------------
(***************************************************************************)
(* What a step keeps.                                                      *)
(***************************************************************************)
LEMMA StepKeeps ==
  ASSUME MInv, Grows, IInv', ParentsKept', NEW c \in Calls, NEW n,
         call' = [call EXCEPT ![c] = n], IsCall(n), CallInv(n)'
  PROVE  MInv'
<1>1. call = [d \in Calls |-> call[d]] /\ \A d \in Calls : IsCall(call[d])
  BY DEF MInv, Shape
<1>2. call' = [d \in Calls |-> IF d = c THEN n ELSE call[d]]
  BY <1>1
<1>3. \A d \in Calls : call'[d] = IF d = c THEN n ELSE call[d]
  BY <1>2
<1>4. Shape'
  <2>1. call' = [d \in Calls |-> call'[d]]
    BY <1>2
  <2>2. \A d \in Calls : IsCall(call'[d])
    BY <1>1, <1>3
  <2> QED BY <2>1, <2>2 DEF Shape, IsCall
<1>5. ASSUME NEW d \in Calls
      PROVE  CallInv(call[d])'
  <2>1. PICK k : k = call'[d]
    OBVIOUS
  <2>2. CallInv(k)'
    <3>1. CASE d = c
      BY <1>3, <2>1, <3>1
    <3>2. CASE d # c
      <4>1. k = call[d]
        BY <1>3, <2>1, <3>2
      <4>2. CallInv(k)
        BY <4>1 DEF MInv
      <4> QED BY <4>2, CallInvStable DEF MInv, IInv
    <3> QED BY <3>1, <3>2
  <2> QED BY <2>1, <2>2 DEF CallInv, ArgumentsInv, ReadInv, ScopeInv, RemoveInv,
                            ReplaceInv, ReceiptsInv
<1> QED BY <1>4, <1>5 DEF MInv

\* A step that leaves the store alone keeps the invariant.
LEMMA MoveKeeps ==
  ASSUME MInv, NEW c \in Calls, Moves(c)
  PROVE  MInv'
<1>1. PICK n : call' = [call EXCEPT ![c] = n] /\ IsCall(n) /\ CallInv(n)
  BY DEF Moves
<1>2. UNCHANGED vars
  BY DEF Moves
<1>3. Grows /\ ParentsKept'
  BY <1>2, StutterGrows DEF MInv
<1>4. IInv'
  BY <1>2, StutterInvariant DEF MInv
<1>5. CallInv(n)'
  BY <1>1, <1>3, CallInvStable DEF MInv, IInv
<1> QED BY <1>1, <1>3, <1>4, <1>5, StepKeeps

-----------------------------------------------------------------------------
(***************************************************************************)
(* Writes. The batch of a tool is one the store accepts, keeps the parents *)
(* of the blocks it changes, and stays below the project's root.           *)
(***************************************************************************)
Batch(c, S, contents) ==
  /\ call[c].tool # "read"
  /\ S \in SUBSET Blocks /\ S # {}
  /\ contents \in [S -> Submitted]
  /\ KeepsParents(contents)
  /\ Commit(contents)
  /\ \E written \in SUBSET S : Committed(c, written)

\* Each block of the batch is in the project, or is new and below others of
\* the batch that are new or blocks of the project.
InScope(c, S, contents) ==
  \E P \in SUBSET Blocks :
    /\ \A p \in P : InProject(call[c].root, p)
    /\ \A b \in S :
         \/ InProject(call[c].root, b)
         \/ ~Written(b) /\ contents[b].parent \in {x \in S : ~Written(x)} \cup P

\* What a batch does to the store.
LEMMA BatchWrites ==
  ASSUME MInv, NEW c, NEW S, NEW contents, Batch(c, S, contents)
  PROVE  \E tx \in Txs :
           /\ AcceptedWrite(S, contents, tx) /\ contents \in [S -> Content]
           /\ IInv' /\ Grows /\ ParentsKept'
           /\ txLog' = txLog \cup {tx} /\ tx \notin txLog
           /\ \A b \in S : heads'[b].tx = tx /\ Written(b)'
           /\ \A b \in Blocks \ S : heads'[b] = heads[b]
<1>1. PICK tx \in Txs : AcceptedWrite(S, contents, tx)
  BY CommitIsAcceptedWrite DEF Batch, MInv, IInv
<1>2. S \in SUBSET Blocks /\ contents \in [S -> Content] /\ KeepsParents(contents)
  BY <1>1 DEF AcceptedWrite, Batch
<1>3. IInv'
  BY <1>1, <1>2, WriteInvariant DEF MInv
<1>4. Grows /\ ParentsKept' /\ \A b \in S : Written(b)'
  BY <1>1, <1>2, <1>3, WriteGrows DEF MInv
<1>5. /\ \A b \in S : heads'[b].tx = tx
      /\ \A b \in Blocks \ S : heads'[b] = heads[b]
  BY <1>1, <1>2, HeadsStep
<1>6. txLog' = txLog \cup {tx} /\ tx \notin txLog
  BY <1>1 DEF AcceptedWrite, Write, Txs
<1> QED BY <1>1, <1>2, <1>3, <1>4, <1>5, <1>6

\* A call that has committed a batch.
LEMMA CommittedHolds ==
  ASSUME MInv, NEW c \in Calls, NEW S, NEW contents, Batch(c, S, contents)
  PROVE  \E n : call' = [call EXCEPT ![c] = n] /\ IsCall(n) /\ CallInv(n)'
<1>1. PICK k : k = call[c]
  OBVIOUS
<1>2. IsCall(k) /\ CallInv(k) /\ k.tool # "read"
  BY <1>1 DEF MInv, Shape, Batch
<1>3. PICK tx \in Txs :
        /\ AcceptedWrite(S, contents, tx) /\ contents \in [S -> Content]
        /\ IInv' /\ txLog' = txLog \cup {tx} /\ tx \notin txLog
        /\ \A b \in S : heads'[b].tx = tx
  BY BatchWrites
<1>4. PICK written \in SUBSET S : Committed(c, written)
  BY DEF Batch
<1>5. CASE call' = [call EXCEPT ![c] = Failed]
  <2>1. PICK n : n = Failed
    OBVIOUS
  <2>2. IsCall(n) /\ n.step = "failed" /\ n.tool = "none"
    <3>1. IsCall(Idle) /\ Idle.tool = "none"
      BY DEF IsCall, Idle
    <3>2. PICK i : i = Idle
      OBVIOUS
    <3> QED BY <2>1, <3>1, <3>2 DEF IsCall, Failed
  <2>3. CallInv(n)'
    BY <2>2 DEF CallInv, ArgumentsInv, ReadInv, ScopeInv, RemoveInv, ReplaceInv,
                ReceiptsInv, Active
  <2> QED BY <1>5, <2>1, <2>2, <2>3
<1>6. ASSUME NEW t \in txLog' \ txLog,
             NEW next, next = [k EXCEPT !.tx = t, !.written = written],
             call' = [call EXCEPT ![c] = IF written = {} THEN Done(next)
                                         ELSE [Done(next) EXCEPT !.step = "receipts"]]
      PROVE  \E n : call' = [call EXCEPT ![c] = n] /\ IsCall(n) /\ CallInv(n)'
  <2>1. t = tx
    BY <1>3, <1>6
  <2>2. next.tool = k.tool /\ next.tx = tx /\ next.written = written
    BY <1>2, <1>6, <2>1 DEF IsCall
  <2>3. PICK done : done = Done(next)
    OBVIOUS
  <2>4. /\ IsCall(done) /\ done.step = "done" /\ done.tool = k.tool
        /\ done.written = written /\ done.tx = tx
    BY <2>2, <2>3, DoneFields
  <2>5. CASE written = {}
    <3>1. CallInv(done)'
      BY <1>2, <2>4, <2>5 DEF CallInv, ArgumentsInv, ReadInv, ScopeInv, RemoveInv,
                              ReplaceInv, ReceiptsInv, Active
    <3> QED BY <1>6, <2>3, <2>4, <2>5, <3>1
  <2>6. CASE written # {}
    <3>1. PICK n : n = [done EXCEPT !.step = "receipts"]
      OBVIOUS
    <3>2. /\ IsCall(n) /\ n.step = "receipts" /\ n.tool = k.tool
          /\ n.written = written /\ n.tx = tx
      BY <2>4, <3>1 DEF IsCall
    <3>3. \A b \in written : VersionAt(b, tx)'.tx = tx
      <4>1. NewestReadsAreHeads'
        <5>1. TypeOK' /\ Topology' /\ VersionsOfHeads' /\ MembershipsOfHeads'
          BY <1>3 DEF IInv
        <5> QED BY <5>1, NewestReads, PTL
      <4>2. S \in SUBSET Blocks
        BY DEF Batch
      <4>3. \A b \in Blocks : VersionAt(b, tx)' = heads'[b]
        BY <1>3, <4>1, <4>2, NewTxReads DEF MInv, IInv
      <4> QED BY <1>3, <4>2, <4>3
    <3>4. ReceiptsInv(n)'
      BY <1>3, <1>4, <3>2, <3>3 DEF ReceiptsInv, Batch
    <3>5. CallInv(n)'
      BY <1>2, <3>2, <3>4 DEF CallInv, ArgumentsInv, ReadInv, ScopeInv, RemoveInv,
                              ReplaceInv, Active
    <3> QED BY <1>6, <2>3, <2>6, <3>1, <3>2, <3>5
  <2> QED BY <2>5, <2>6
<1> QED BY <1>1, <1>4, <1>5, <1>6 DEF Committed

\* A batch keeps the invariant.
LEMMA BatchKeeps ==
  ASSUME MInv, NEW c \in Calls, NEW S, NEW contents, Batch(c, S, contents)
  PROVE  MInv'
<1>1. PICK n : call' = [call EXCEPT ![c] = n] /\ IsCall(n) /\ CallInv(n)'
  BY CommittedHolds
<1>2. IInv' /\ Grows /\ ParentsKept'
  BY BatchWrites
<1> QED BY <1>1, <1>2, StepKeeps

\* What a call has fetched of a block that it knows was written.
LEMMA SeenBlock ==
  ASSUME MInv, NEW b \in Blocks, NEW row, Historical(b, row),
         row.content.deleted => row.content.parent # None
  PROVE  /\ row.content \in Content /\ row.content.parent = heads[b].content.parent
         /\ Written(b)
<1>1. row.tx # None
  BY DEF Historical, Tombstone
<1>2. PICK v \in versions : v = [block |-> b, tx |-> row.tx, content |-> row.content]
  BY <1>1 DEF Historical
<1>3. v.block = b /\ v.tx = row.tx /\ v.content = row.content
  BY <1>2
<1>4. v.tx \in Txs /\ v.content \in Content /\ heads[b].tx \in Revisions
  BY DEF MInv, IInv, TypeOK, VersionRow, HeadRow
<1>5. v.tx =< heads[b].tx
  BY <1>3 DEF MInv, IInv, VersionsOfHeads
<1>6. Written(b)
  BY <1>4, <1>5 DEF Written, Txs, Revisions, None
<1> QED BY <1>3, <1>4, <1>6 DEF MInv, ParentsKept

\* The batch of a change.
LEMMA ChangeWrites ==
  ASSUME MInv, NEW c \in Calls, Change(c)
  PROVE  \E S, contents : /\ Batch(c, S, contents) /\ InScope(c, S, contents)
                          /\ Current(call[c].named)
<1>1. PICK k : k = call[c]
  OBVIOUS
<1>2. IsCall(k) /\ CallInv(k)
  BY <1>1 DEF MInv, Shape
<1>3. PICK s : s = k.seen
  OBVIOUS
<1>4. /\ k.tool = "change" /\ k.step = "transact" /\ Current(k.named)
      /\ \E contents \in [DOMAIN s -> UNION {Changed(s[b].content) : b \in DOMAIN s}] :
           /\ \A b \in DOMAIN s : contents[b] \in Changed(s[b].content)
           /\ Commit(contents)
           /\ Committed(c, {})
  BY <1>1, <1>3, Zenon DEF Change, At
<1>5. PICK contents \in [DOMAIN s -> UNION {Changed(s[b].content) : b \in DOMAIN s}] :
           /\ \A b \in DOMAIN s : contents[b] \in Changed(s[b].content)
           /\ Commit(contents)
           /\ Committed(c, {})
  BY <1>4
<1>6. DOMAIN s \subseteq Blocks /\ k.block \in DOMAIN s
  BY <1>2, <1>3, <1>4 DEF CallInv, ArgumentsInv, ScopeInv, Active
<1>7. \A b \in DOMAIN s : /\ Historical(b, s[b]) /\ ~s[b].content.deleted
                          /\ InProject(k.root, b)
  BY <1>2, <1>3, <1>4 DEF CallInv, ArgumentsInv, ScopeInv, Active
<1>8. \A b \in DOMAIN s : /\ s[b].content \in Content
                          /\ s[b].content.parent = heads[b].content.parent
                          /\ Written(b)
  BY <1>6, <1>7, SeenBlock
<1>9. ASSUME NEW b \in DOMAIN s
      PROVE  contents[b] \in Submitted /\ contents[b].parent = s[b].content.parent
  <2>1. PICK d : d = s[b].content
    OBVIOUS
  <2>2. PICK e : e = contents[b]
    OBVIOUS
  <2>3. d \in Content /\ d \in Submitted
    BY <1>8, <2>1, BoundsAssumption DEF Content, ContentWith, Submitted, Positions
  <2>4. \/ e = d
        \/ /\ d.kind \in {"Section", "ListItem"}
           /\ e = [d EXCEPT !.fields = FieldsOf[d.kind]]
    BY <1>5, <2>1, <2>2 DEF Changed
  <2>5. d.kind \in {"Section", "ListItem"} => FieldsOf[d.kind] \subseteq Fields
    BY DEF FieldsOf, Fields
  <2>6. e \in Submitted /\ e.parent = d.parent
    BY <2>3, <2>4, <2>5 DEF Submitted, ContentWith
  <2> QED BY <2>1, <2>2, <2>6
<1>10. contents \in [DOMAIN s -> Submitted]
  BY <1>9
<1>11. KeepsParents(contents)
  BY <1>8, <1>9, <1>10 DEF KeepsParents
<1>12. Batch(c, DOMAIN s, contents)
  BY <1>1, <1>4, <1>5, <1>6, <1>10, <1>11 DEF Batch
<1>13. InScope(c, DOMAIN s, contents)
  <2>1. \A b \in DOMAIN s : InProject(call[c].root, b)
    BY <1>1, <1>7
  <2> USE DEF InScope
  <2> WITNESS {} \in SUBSET Blocks
  <2> QED BY <2>1
<1> QED BY <1>1, <1>4, <1>12, <1>13

\* The batch of a removal deletes what it has seen.
LEMMA RemoveWrites ==
  ASSUME MInv, NEW c \in Calls, Remove(c)
  PROVE  \E contents :
           /\ Batch(c, DOMAIN call[c].seen, contents)
           /\ InScope(c, DOMAIN call[c].seen, contents)
           /\ \A b \in DOMAIN call[c].seen :
                contents[b].deleted /\ heads[b] = call[c].seen[b]
<1>1. PICK k : k = call[c]
  OBVIOUS
<1>2. IsCall(k) /\ CallInv(k)
  BY <1>1 DEF MInv, Shape
<1>3. PICK s : s = k.seen
  OBVIOUS
<1>4. PICK contents :
        contents = [b \in DOMAIN s |-> [s[b].content EXCEPT !.deleted = TRUE]]
  OBVIOUS
<1>5. /\ k.tool = "remove" /\ k.step = "transact"
      /\ Current([b \in DOMAIN s |-> s[b].tx])
      /\ Commit(contents) /\ Committed(c, {})
  BY <1>1, <1>3, <1>4, Zenon DEF Remove, At
<1>6. DOMAIN s \subseteq Blocks /\ k.block \in DOMAIN s
  <2>1. PICK g : LevelsOf(g, SeenKids(s), k.block) /\ DOMAIN s = g[Depth]
    BY <1>2, <1>3, <1>5 DEF CallInv, RemoveInv
  <2>2. k.block \in g[Depth]
    <3> DEFINE K == SeenKids(s)
    <3>1. LevelsOf(g, K, k.block)
      BY <2>1
    <3> HIDE DEF K
    <3> QED BY <3>1, LevelsGrow
  <2> QED BY <1>2, <1>3, <1>5, <2>1, <2>2 DEF CallInv, ArgumentsInv, Active
<1>7. \A b \in DOMAIN s : /\ Historical(b, s[b]) /\ ~s[b].content.deleted
                          /\ InProject(k.root, b)
  BY <1>2, <1>3, <1>5 DEF CallInv, ArgumentsInv, RemoveInv, Active
<1>8. \A b \in DOMAIN s : /\ s[b].content \in Content
                          /\ s[b].content.parent = heads[b].content.parent
                          /\ Written(b)
  BY <1>6, <1>7, SeenBlock
<1>9. ASSUME NEW b \in DOMAIN s
      PROVE  /\ contents[b] \in Submitted /\ contents[b].parent = s[b].content.parent
             /\ contents[b].deleted
  <2>1. PICK d : d = s[b].content
    OBVIOUS
  <2>2. PICK e : e = contents[b]
    OBVIOUS
  <2>3. d \in Content /\ d \in Submitted
    BY <1>8, <2>1, BoundsAssumption DEF Content, ContentWith, Submitted, Positions
  <2>4. e = [d EXCEPT !.deleted = TRUE]
    BY <1>4, <2>1, <2>2
  <2>5. e \in Submitted /\ e.parent = d.parent /\ e.deleted
    BY <2>3, <2>4 DEF Submitted, ContentWith
  <2> QED BY <2>1, <2>2, <2>5
<1>10. contents \in [DOMAIN s -> Submitted]
  BY <1>4, <1>9
<1>11. KeepsParents(contents)
  BY <1>8, <1>9, <1>10 DEF KeepsParents
<1>12. Batch(c, DOMAIN s, contents)
  BY <1>1, <1>5, <1>6, <1>10, <1>11 DEF Batch
<1>13. InScope(c, DOMAIN s, contents)
  <2>1. \A b \in DOMAIN s : InProject(call[c].root, b)
    BY <1>1, <1>7
  <2> USE DEF InScope
  <2> WITNESS {} \in SUBSET Blocks
  <2> QED BY <2>1
<1>14. ASSUME NEW b \in DOMAIN s
       PROVE  heads[b] = s[b]
  <2>1. heads[b].tx = s[b].tx
    BY <1>5 DEF Current
  <2>2. Historical(b, heads[b])
    BY <1>6, GetsVersion DEF MInv, IInv, Get
  <2> QED BY <1>7, <2>1, <2>2, RevisionsAgree DEF MInv, IInv
<1> QED BY <1>1, <1>3, <1>9, <1>12, <1>13, <1>14

\* What an insertion or a replacement writes below p.
LEMMA ParsedBlocks ==
  ASSUME MInv, NEW new \in NewBlocks, NEW parents, NEW p, NEW list,
         NEW text \in Parsed(new, parents, p, list)
  PROVE  /\ new \subseteq Blocks /\ \A b \in new : ~Written(b)
         /\ DOMAIN text = new
         /\ \A b \in new : /\ text[b] \in Submitted /\ ~text[b].deleted
                           /\ text[b].parent \in parents
<1>1. new \subseteq Blocks /\ \A b \in new : ~Written(b)
  BY DEF NewBlocks, Unused, Written
<1>2. text \in [new -> {d \in Contents : ~d.deleted /\ d.parent \in parents}]
  BY DEF Parsed
<1>3. Contents \subseteq Submitted
  BY EditsAssumption DEF Submitted
<1> QED BY <1>1, <1>2, <1>3

\* Siblings that get another rank are children of p and stay there.
LEMMA RerankedBlocks ==
  ASSUME MInv, NEW p \in Blocks, NEW S \in SUBSET ChildrenNow(p),
         NEW ranks \in Reranked(S)
  PROVE  /\ DOMAIN ranks \subseteq S
         /\ \A b \in DOMAIN ranks :
              /\ b \in Blocks /\ Written(b)
              /\ ranks[b] \in Submitted /\ ranks[b].parent = p
              /\ heads[b].content.parent = p
<1>1. PICK M \in SUBSET S :
        ranks \in {[b \in M |-> [heads[b].content EXCEPT !.position = rank[b]]] :
                     rank \in {f \in [M -> Positions] :
                                 \A b \in M : f[b] # heads[b].content.position}}
  BY DEF Reranked
<1>2. PICK rank \in [M -> Positions] :
        ranks = [b \in M |-> [heads[b].content EXCEPT !.position = rank[b]]]
  BY <1>1
<1>3. DOMAIN ranks = M
  BY <1>2
<1>4. ASSUME NEW b \in M
      PROVE  /\ b \in Blocks /\ Written(b)
             /\ ranks[b] \in Submitted /\ ranks[b].parent = p
             /\ heads[b].content.parent = p
  <2>1. b \in KidsOf(CurrentTree, p)
    BY <1>4, IndexGivesChildren DEF MInv, IInv
  <2>2. b \in Blocks /\ ~heads[b].content.deleted /\ heads[b].content.parent = p
    BY <2>1 DEF KidsOf, LiveBlocks, CurrentTree
  <2>3. Written(b)
    BY <2>2, LiveIsWritten DEF MInv, IInv, LiveBlocksAreWritten
  <2>4. PICK d, e : d = heads[b].content /\ e = ranks[b]
    OBVIOUS
  <2>5. d \in Content
    BY <2>2, <2>4 DEF MInv, IInv, TypeOK, HeadRow
  <2>6. e = [d EXCEPT !.position = rank[b]] /\ rank[b] \in Positions
    BY <1>2, <1>4, <2>4
  <2>7. e \in Submitted /\ e.parent = d.parent
    BY <2>5, <2>6, BoundsAssumption DEF Content, ContentWith, Submitted, Positions
  <2> QED BY <2>2, <2>3, <2>4, <2>7
<1> QED BY <1>3, <1>4

\* Who is above a block of the project that is not the root is above its parent.
LEMMA ParentInProject ==
  ASSUME MInv, NEW r \in Roots, NEW b \in Blocks, InProject(r, b),
         heads[b].content.parent # None
  PROVE  heads[b].content.parent \in Blocks /\ InProject(r, heads[b].content.parent)
<1>1. heads[b].content.parent \in Blocks
  BY DEF MInv, IInv, TypeOK, HeadRow, Content, ContentWith
<1>2. r # b
  BY DEF MInv, ParentsKept
<1>3. CurrentTree[b].parent = heads[b].content.parent
  BY DEF CurrentTree
<1>4. r \in Ancestors(heads[b].content.parent)
  BY <1>1, <1>2, <1>3, ChainOfParent DEF InProject, Ancestors
<1>5. heads[heads[b].content.parent].tx # None
  BY DEF InProject, MInv, ParentsKept
<1> QED BY <1>1, <1>4, <1>5 DEF InProject, Written

\* A child of a block of the project is in the project.
LEMMA ChildInProject ==
  ASSUME MInv, NEW r, NEW p \in Blocks, InProject(r, p),
         NEW b \in Blocks, Written(b), heads[b].content.parent = p
  PROVE  InProject(r, b)
<1>1. CurrentTree[b].parent = p /\ p \in Blocks \ {None}
  BY BlocksAssumption DEF CurrentTree, None
<1>2. p \in Chain(CurrentTree, b)
  BY <1>1, ChainHolds
<1>3. Ancestors(p) \subseteq Ancestors(b)
  BY <1>2, ChainHolds DEF Ancestors
<1> QED BY <1>3 DEF InProject

\* The batch of an append or an insertion.
LEMMA InsertWrites ==
  ASSUME MInv, NEW c \in Calls, Insert(c)
  PROVE  \E S, contents : /\ Batch(c, S, contents) /\ InScope(c, S, contents)
                          /\ Current(call[c].named)
<1>1. PICK k : k = call[c]
  OBVIOUS
<1>2. IsCall(k) /\ CallInv(k)
  BY <1>1 DEF MInv, Shape
<1>3. PICK p : p = IF k.tool = "append" THEN k.block ELSE heads[k.block].content.parent
  OBVIOUS
<1>4. /\ k.tool \in {"append", "insert"} /\ k.step = "transact"
      /\ k.tool = "insert" => Current(k.named) /\ p # None
      /\ \E new \in NewBlocks :
           \E text \in Parsed(new, new \cup {p}, p, k.list) :
             /\ \E b \in new : text[b].parent = p
             /\ \E ranks \in Reranked(ChildrenNow(p)) : Commit(Over(text, ranks))
             /\ Committed(c, new)
  BY <1>1, <1>3, Zenon DEF Insert, At
<1>5. PICK new \in NewBlocks :
           \E text \in Parsed(new, new \cup {p}, p, k.list) :
             /\ \E b \in new : text[b].parent = p
             /\ \E ranks \in Reranked(ChildrenNow(p)) : Commit(Over(text, ranks))
             /\ Committed(c, new)
  BY <1>4
<1>6. PICK text \in Parsed(new, new \cup {p}, p, k.list) :
             /\ \E b \in new : text[b].parent = p
             /\ \E ranks \in Reranked(ChildrenNow(p)) : Commit(Over(text, ranks))
             /\ Committed(c, new)
  BY <1>5
<1>7. PICK ranks \in Reranked(ChildrenNow(p)) : Commit(Over(text, ranks))
  BY <1>6
<1>8. PICK contents : contents = Over(text, ranks)
  OBVIOUS
<1>9. /\ k.root \in Roots /\ k.block \in Blocks /\ InProject(k.root, k.block)
      /\ Current(k.named)
  <2>1. k.tool = "append" => DOMAIN k.named = {}
    BY <1>2, <1>4 DEF CallInv, ArgumentsInv, Active
  <2> QED BY <1>2, <1>4, <2>1 DEF CallInv, ArgumentsInv, ScopeInv, Active, Current
<1>10. p \in Blocks /\ InProject(k.root, p)
  <2>1. CASE k.tool = "append"
    BY <1>3, <1>9, <2>1
  <2>2. CASE k.tool = "insert"
    <3>1. p = heads[k.block].content.parent /\ p # None
      BY <1>3, <1>4, <2>2
    <3> QED BY <1>9, <3>1, ParentInProject
  <2> QED BY <1>4, <2>1, <2>2
<1>11. /\ new \subseteq Blocks /\ \A b \in new : ~Written(b)
       /\ DOMAIN text = new
       /\ \A b \in new : /\ text[b] \in Submitted /\ ~text[b].deleted
                         /\ text[b].parent \in new \cup {p}
  BY <1>6, ParsedBlocks
<1>12. \A b \in DOMAIN ranks :
         /\ b \in Blocks /\ Written(b)
         /\ ranks[b] \in Submitted /\ ranks[b].parent = p
         /\ heads[b].content.parent = p
  BY <1>7, <1>10, RerankedBlocks
<1>13. PICK S : S = new \cup DOMAIN ranks
  OBVIOUS
<1>14. /\ S \in SUBSET Blocks /\ S # {} /\ new \in SUBSET S
       /\ contents = [b \in S |-> contents[b]]
       /\ \A b \in new : contents[b] = text[b]
       /\ \A b \in DOMAIN ranks : b \notin new /\ contents[b] = ranks[b]
  <2>1. contents = [b \in new \cup DOMAIN ranks |->
                      IF b \in new THEN text[b] ELSE ranks[b]]
    BY <1>8, <1>11 DEF Over
  <2> QED BY <1>6, <1>11, <1>12, <1>13, <2>1
<1>15. contents \in [S -> Submitted]
  BY <1>11, <1>12, <1>13, <1>14
<1>16. KeepsParents(contents)
  BY <1>11, <1>12, <1>13, <1>14 DEF KeepsParents
<1>17. Batch(c, S, contents)
  BY <1>1, <1>4, <1>6, <1>7, <1>8, <1>14, <1>15, <1>16 DEF Batch
<1>18. InScope(c, S, contents)
  <2>1. \A b \in DOMAIN ranks : InProject(k.root, b)
    BY <1>10, <1>12, ChildInProject
  <2>2. \A b \in new : contents[b].parent \in {x \in S : ~Written(x)} \cup {p}
    BY <1>11, <1>13, <1>14
  <2>3. \A b \in S : \/ InProject(call[c].root, b)
                     \/ /\ ~Written(b)
                        /\ contents[b].parent \in {x \in S : ~Written(x)} \cup {p}
    BY <1>1, <1>11, <1>13, <2>1, <2>2
  <2> {p} \in SUBSET Blocks
    BY <1>10
  <2> USE DEF InScope
  <2> WITNESS {p} \in SUBSET Blocks
  <2> QED BY <1>1, <1>10, <2>3
<1> QED BY <1>1, <1>9, <1>17, <1>18

\* The batch of a replacement.
LEMMA ReplaceWrites ==
  ASSUME MInv, NEW c \in Calls, Replace(c)
  PROVE  \E S, contents : /\ Batch(c, S, contents) /\ InScope(c, S, contents)
                          /\ Current(call[c].named)
<1>1. PICK k : k = call[c]
  OBVIOUS
<1>2. IsCall(k) /\ CallInv(k)
  BY <1>1 DEF MInv, Shape
<1>3. PICK t, old, p : t = k.block /\ old = k.seen[t].content /\ p = old.parent
  OBVIOUS
<1>4. /\ k.tool = "replace" /\ k.step = "transact" /\ Current(k.named)
      /\ \E new \in NewBlocks, first \in Contents :
           \E text \in Parsed(new, new \cup {t, p}, p, FALSE) :
             /\ ~first.deleted /\ first.parent = p /\ first.kind # "ListItem"
             /\ IF \E b \in new : text[b].parent = p
                THEN \E ranks \in Reranked(ChildrenNow(p) \ {t}) :
                       Commit(Over(Only(t, first), Over(text, ranks)))
                ELSE first.position = old.position /\ Commit(Over(Only(t, first), text))
             /\ Committed(c, new \cup {t})
  BY <1>1, <1>3, Zenon DEF Replace, At
<1>5. PICK new \in NewBlocks, first \in Contents :
           \E text \in Parsed(new, new \cup {t, p}, p, FALSE) :
             /\ ~first.deleted /\ first.parent = p /\ first.kind # "ListItem"
             /\ IF \E b \in new : text[b].parent = p
                THEN \E ranks \in Reranked(ChildrenNow(p) \ {t}) :
                       Commit(Over(Only(t, first), Over(text, ranks)))
                ELSE first.position = old.position /\ Commit(Over(Only(t, first), text))
             /\ Committed(c, new \cup {t})
  BY <1>4
<1>6. PICK text \in Parsed(new, new \cup {t, p}, p, FALSE) :
             /\ ~first.deleted /\ first.parent = p /\ first.kind # "ListItem"
             /\ IF \E b \in new : text[b].parent = p
                THEN \E ranks \in Reranked(ChildrenNow(p) \ {t}) :
                       Commit(Over(Only(t, first), Over(text, ranks)))
                ELSE first.position = old.position /\ Commit(Over(Only(t, first), text))
             /\ Committed(c, new \cup {t})
  BY <1>5
<1>7. /\ k.root \in Roots /\ t \in Blocks /\ InProject(k.root, t)
      /\ t \in DOMAIN k.seen /\ Historical(t, k.seen[t]) /\ p # None
  BY <1>2, <1>3, <1>4 DEF CallInv, ArgumentsInv, ScopeInv, ReplaceInv, Active
<1>8. p = heads[t].content.parent /\ Written(t)
  BY <1>3, <1>7, SeenBlock
<1>9. p \in Blocks /\ InProject(k.root, p)
  BY <1>7, <1>8, ParentInProject
<1>10. /\ new \subseteq Blocks /\ \A b \in new : ~Written(b)
       /\ DOMAIN text = new
       /\ \A b \in new : /\ text[b] \in Submitted /\ ~text[b].deleted
                         /\ text[b].parent \in new \cup {t, p}
  BY <1>6, ParsedBlocks
<1>11. PICK more :
         /\ Commit(Over(Only(t, first), more))
         /\ DOMAIN more \subseteq Blocks /\ t \notin DOMAIN more
         /\ new \subseteq DOMAIN more
         /\ \A b \in new : more[b] = text[b]
         /\ \A b \in DOMAIN more \ new :
              /\ Written(b) /\ heads[b].content.parent = p
              /\ more[b] \in Submitted /\ more[b].parent = p
  <2>1. CASE \E b \in new : text[b].parent = p
    <3>1. PICK ranks \in Reranked(ChildrenNow(p) \ {t}) :
            Commit(Over(Only(t, first), Over(text, ranks)))
      BY <1>6, <2>1
    <3>2. /\ DOMAIN ranks \subseteq ChildrenNow(p) \ {t}
          /\ \A b \in DOMAIN ranks :
               /\ b \in Blocks /\ Written(b)
               /\ ranks[b] \in Submitted /\ ranks[b].parent = p
               /\ heads[b].content.parent = p
      BY <1>9, <3>1, RerankedBlocks
    <3>3. Over(text, ranks) = [b \in new \cup DOMAIN ranks |->
                                 IF b \in new THEN text[b] ELSE ranks[b]]
      BY <1>10 DEF Over
    <3>4. t \notin new
      BY <1>8, <1>10
    <3>5. PICK m : m = Over(text, ranks)
      OBVIOUS
    <3>6. DOMAIN m = new \cup DOMAIN ranks
          /\ \A b \in DOMAIN m : m[b] = IF b \in new THEN text[b] ELSE ranks[b]
      BY <3>3, <3>5
    <3>7. Commit(Over(Only(t, first), m))
      BY <3>1, <3>5
    <3> QED BY <1>10, <3>2, <3>4, <3>6, <3>7
  <2>2. CASE ~ \E b \in new : text[b].parent = p
    <3>1. Commit(Over(Only(t, first), text))
      BY <1>6, <2>2
    <3> QED BY <1>8, <1>10, <3>1
  <2> QED BY <2>1, <2>2
<1>12. PICK contents : contents = Over(Only(t, first), more)
  OBVIOUS
<1>13. PICK S : S = {t} \cup DOMAIN more
  OBVIOUS
<1>14. /\ S \in SUBSET Blocks /\ S # {} /\ new \cup {t} \in SUBSET S
       /\ contents = [b \in S |-> contents[b]]
       /\ contents[t] = first
       /\ \A b \in DOMAIN more : contents[b] = more[b]
  <2>1. contents = [b \in S |-> IF b = t THEN first ELSE more[b]]
    BY <1>12, <1>13 DEF Over, Only
  <2> QED BY <1>7, <1>11, <1>13, <2>1
<1>15. contents \in [S -> Submitted]
  <2>1. first \in Submitted
    BY EditsAssumption DEF Submitted
  <2>2. \A b \in DOMAIN more : more[b] \in Submitted
    BY <1>10, <1>11
  <2> QED BY <1>13, <1>14, <2>1, <2>2
<1>16. KeepsParents(contents)
  <2>1. contents[t].parent = heads[t].content.parent
    BY <1>6, <1>8, <1>14
  <2>2. \A b \in DOMAIN more :
          IF Written(b) THEN contents[b].parent = heads[b].content.parent
          ELSE ~contents[b].deleted
    BY <1>10, <1>11, <1>14
  <2>3. DOMAIN contents = S
    BY <1>15
  <2> QED BY <1>8, <1>13, <2>1, <2>2, <2>3 DEF KeepsParents
<1>17. Batch(c, S, contents)
  BY <1>1, <1>4, <1>6, <1>11, <1>12, <1>14, <1>15, <1>16 DEF Batch
<1>18. InScope(c, S, contents)
  <2>1. \A b \in DOMAIN more \ new : InProject(k.root, b)
    BY <1>9, <1>11, ChildInProject
  <2>2. \A b \in new : contents[b].parent \in {x \in S : ~Written(x)} \cup {t, p}
    BY <1>10, <1>11, <1>13, <1>14
  <2>3. \A b \in S : \/ InProject(call[c].root, b)
                     \/ /\ ~Written(b)
                        /\ contents[b].parent \in {x \in S : ~Written(x)} \cup {t, p}
    BY <1>1, <1>7, <1>10, <1>13, <2>1, <2>2
  <2> {t, p} \in SUBSET Blocks
    BY <1>7, <1>9
  <2> USE DEF InScope
  <2> WITNESS {t, p} \in SUBSET Blocks
  <2> QED BY <1>1, <1>7, <1>9, <2>3
<1> QED BY <1>1, <1>4, <1>17, <1>18

\* Every write of a tool is such a batch.
LEMMA TransactWrites ==
  ASSUME MInv, NEW c \in Calls, Transacts(c)
  PROVE  \E S, contents : Batch(c, S, contents) /\ InScope(c, S, contents)
<1>1. CASE Change(c)
  BY <1>1, ChangeWrites
<1>2. CASE Remove(c)
  BY <1>2, RemoveWrites
<1>3. CASE Insert(c)
  BY <1>3, InsertWrites
<1>4. CASE Replace(c)
  BY <1>4, ReplaceWrites
<1> QED BY <1>1, <1>2, <1>3, <1>4 DEF Transacts

-----------------------------------------------------------------------------
(***************************************************************************)
(* The invariant holds, and with it the memory service's promises.         *)
(***************************************************************************)
LEMMA MemoryStepInv == MInv /\ [MemoryNext]_mvars => MInv'
<1> SUFFICES ASSUME MInv, [MemoryNext]_mvars
             PROVE  MInv'
  OBVIOUS
<1>1. ASSUME NEW c \in Calls, Starts(c) \/ Reads(c) \/ Reject(c)
      PROVE  MInv'
  BY <1>1, ReadsMove, MoveKeeps
<1>2. ASSUME NEW c \in Calls, Transacts(c)
      PROVE  MInv'
  BY <1>2, TransactWrites, BatchKeeps
<1>3. CASE UNCHANGED mvars
  <2>1. UNCHANGED vars /\ call' = call
    BY <1>3 DEF mvars
  <2>2. IInv' /\ ParentsKept' /\ Grows
    BY <2>1, StutterInvariant, StutterGrows DEF MInv
  <2>3. Shape'
    BY <2>1 DEF MInv, Shape, IsCall
  <2>4. ASSUME NEW d \in Calls
        PROVE  CallInv(call[d])'
    <3>1. PICK k : k = call[d]
      OBVIOUS
    <3>2. CallInv(k)
      BY <3>1 DEF MInv
    <3>3. CallInv(k)'
      BY <2>2, <3>2, CallInvStable DEF MInv, IInv
    <3>4. k = call'[d]
      BY <2>1, <3>1
    <3> QED BY <3>3, <3>4 DEF CallInv, ArgumentsInv, ReadInv, ScopeInv, RemoveInv,
                              ReplaceInv, ReceiptsInv
  <2> QED BY <2>2, <2>3, <2>4 DEF MInv
<1> QED BY <1>1, <1>2, <1>3 DEF MemoryNext

\* The invariant holds in every state of the service.
LEMMA MemoryInvariance == MemorySpec => []MInv
  BY MemoryInitInv, MemoryStepInv, PTL DEF MemorySpec

\* Through any interleaving of calls, the rows keep what DocStore promises of
\* them: they are typed, the current tree is a forest of accepted blocks, and
\* every historical tree reads as it was.
THEOREM MemoryKeepsStore == MemorySpec => [](TypeOK /\ Topology /\ HistoryIsTree)
<1>1. MInv => TypeOK /\ Topology /\ HistoryIsTree
  BY DEF MInv, IInv
<1> QED BY <1>1, MemoryInvariance, PTL

\* Both scans of a read show the tree as it was when its snapshot was taken,
\* whatever was written between them.
THEOREM ReadsShowSnapshots == MemorySpec => []ReadsAreSnapshots
<1>1. MInv => ReadsAreSnapshots
  BY DEF MInv, CallInv, ReadInv, ReadsAreSnapshots
<1> QED BY <1>1, MemoryInvariance, PTL

\* The receipts of a write name the transaction it committed.
THEOREM ReceiptsHold == MemorySpec => []ReceiptsAreCommitted
<1>1. MInv => ReceiptsAreCommitted
  BY DEF MInv, CallInv, ReceiptsInv, ReceiptsAreCommitted
<1> QED BY <1>1, MemoryInvariance, PTL

\* Only a write that a call makes commits in its name.
LEMMA CommitsTransact ==
  ASSUME MInv, [MemoryNext]_mvars, NEW c \in Calls, Commits(c)
  PROVE  Transacts(c)
<1>1. txLog' # txLog /\ call'[c] # call[c]
  BY DEF Commits
<1>2. PICK d \in Calls : Starts(d) \/ Reads(d) \/ Transacts(d) \/ Reject(d)
  BY <1>1 DEF MemoryNext, mvars, vars
<1>3. ~(Starts(d) \/ Reads(d) \/ Reject(d))
  <2> SUFFICES ASSUME Starts(d) \/ Reads(d) \/ Reject(d)
               PROVE  FALSE
    OBVIOUS
  <2>1. UNCHANGED vars
    BY ReadsMove DEF Moves
  <2> QED BY <1>1, <2>1 DEF vars
<1>4. Transacts(d)
  BY <1>2, <1>3
<1>5. PICK n : call' = [call EXCEPT ![d] = n]
  BY <1>4, TransactWrites, CommittedHolds
<1>6. c = d
  <2>1. call = [e \in Calls |-> call[e]]
    BY DEF MInv, Shape
  <2> QED BY <1>1, <1>5, <2>1
<1> QED BY <1>4, <1>6

\* A call writes only if the blocks it names are at the revisions it names:
\* no update made between its awaits is lost.
THEOREM EditsNamed == MemorySpec => EditsNamedRevisions
<1>1. MInv /\ [MemoryNext]_mvars =>
        [\A c \in Calls : Commits(c) => Current(call[c].named)]_mvars
  <2> SUFFICES ASSUME MInv, [MemoryNext]_mvars, NEW c \in Calls, Commits(c)
               PROVE  Current(call[c].named)
    OBVIOUS
  <2>1. Change(c) \/ Remove(c) \/ Insert(c) \/ Replace(c)
    BY CommitsTransact DEF Transacts
  <2>2. CASE Remove(c)
    <3>1. PICK k : k = call[c]
      OBVIOUS
    <3>2. CallInv(k) /\ k.tool = "remove" /\ k.step = "transact"
      BY <2>2, <3>1 DEF MInv, Remove, At
    <3>3. {<<b, k.seen[b].tx>> : b \in DOMAIN k.seen}
            = {<<b, k.named[b]>> : b \in DOMAIN k.named}
      BY <3>2 DEF CallInv, RemoveInv
    <3>4. \A b \in DOMAIN k.seen : heads[b] = k.seen[b]
      BY <2>2, <3>1, RemoveWrites
    <3>5. ASSUME NEW b \in DOMAIN k.named
          PROVE  heads[b].tx = k.named[b]
      <4>1. <<b, k.named[b]>> \in {<<x, k.seen[x].tx>> : x \in DOMAIN k.seen}
        BY <3>3
      <4>2. PICK x \in DOMAIN k.seen : <<b, k.named[b]>> = <<x, k.seen[x].tx>>
        BY <4>1
      <4> QED BY <3>4, <4>2
    <3> QED BY <3>1, <3>5 DEF Current
  <2> QED BY <2>1, <2>2, ChangeWrites, InsertWrites, ReplaceWrites
<1> QED BY <1>1, MemoryInvariance, PTL DEF MemorySpec, EditsNamedRevisions

\* What a batch changes are exactly its blocks.
LEMMA BatchTouches ==
  ASSUME MInv, NEW c, NEW S, NEW contents, Batch(c, S, contents)
  PROVE  Touched = S
<1>1. PICK tx \in Txs :
        /\ tx \notin txLog
        /\ \A b \in S : heads'[b].tx = tx
        /\ \A b \in Blocks \ S : heads'[b] = heads[b]
  BY BatchWrites
<1>2. S \subseteq Blocks
  BY DEF Batch
<1>3. ASSUME NEW b \in S
      PROVE  heads[b].tx # tx
  <2> SUFFICES ASSUME heads[b].tx = tx
               PROVE  FALSE
    OBVIOUS
  <2>1. tx # None
    BY DEF Txs, None
  <2>2. PICK v \in versions : v = [block |-> b, tx |-> tx, content |-> heads[b].content]
    BY <1>2, <2>1 DEF MInv, IInv, VersionsOfHeads
  <2>3. v.tx = tx
    BY <2>2
  <2> QED BY <1>1, <2>3 DEF MInv, IInv, RowsAreCommitted
<1> QED BY <1>1, <1>2, <1>3 DEF Touched

\* A call changes blocks of its own project only.
THEOREM ProjectHolds == MemorySpec => StaysInProject
<1>1. MInv /\ [MemoryNext]_mvars =>
        [\A c \in Calls :
           Commits(c) => \A b \in Touched : call[c].root \in Chain(CurrentTree', b)]_mvars
  <2> SUFFICES ASSUME MInv, [MemoryNext]_mvars, NEW c \in Calls, Commits(c),
                      NEW b \in Touched
               PROVE  call[c].root \in Chain(CurrentTree', b)
    OBVIOUS
  <2>1. Transacts(c)
    BY CommitsTransact
  <2>2. PICK S, contents : Batch(c, S, contents) /\ InScope(c, S, contents)
    BY <2>1, TransactWrites
  <2>3. b \in S /\ S \in SUBSET Blocks /\ contents \in [S -> Submitted]
    BY <2>2, BatchTouches DEF Batch
  <2>4. PICK tx \in Txs : /\ AcceptedWrite(S, contents, tx)
                          /\ contents \in [S -> Content] /\ Grows
    BY <2>2, BatchWrites
  <2>5. PICK r : r = call[c].root
    OBVIOUS
  <2>6. \A x \in Blocks : InProject(r, x) => r \in Chain(CurrentTree', x)
    BY <2>4, AncestorsPrimed DEF InProject, Grows
  <2>7. PICK P \in SUBSET Blocks :
          /\ \A p \in P : InProject(r, p)
          /\ \A x \in S :
               \/ InProject(r, x)
               \/ ~Written(x) /\ contents[x].parent \in {y \in S : ~Written(y)} \cup P
    BY <2>2, <2>5 DEF InScope
  <2>8. CASE InProject(r, b)
    BY <2>3, <2>5, <2>6, <2>8
  <2>9. CASE ~InProject(r, b)
    <3> DEFINE new == {y \in S : ~Written(y)}
    <3>1. b \in new /\ new \in SUBSET Blocks
      BY <2>3, <2>7, <2>9
    <3>2. CurrentTree' = Overlay(contents) /\ \A x \in S : Overlay(contents)[x] = contents[x]
      BY <2>3, <2>4, TreeStep DEF MInv, IInv
    <3>3. PICK f : f = CurrentTree'
      OBVIOUS
    <3>4. \A x \in new : f[x].parent \in new \cup P
      BY <2>7, <3>2, <3>3 DEF InProject
    <3>5. \E x \in Chain(f, b) : f[x].parent = None
      <4>1. ValidEdit(Overlay(contents), b)
        BY <2>3, <2>4 DEF AcceptedWrite
      <4>2. ~contents[b].deleted
        BY <2>2, <2>3, <3>1 DEF Batch, KeepsParents
      <4>3. ValidAncestry(Overlay(contents), b)
        BY <2>3, <3>2, <4>1, <4>2 DEF ValidEdit
      <4> QED BY <3>2, <3>3, <4>3 DEF ValidAncestry
    <3> HIDE DEF new
    <3>6. PICK p \in P : p \in Chain(f, b)
      BY <3>1, <3>4, <3>5, ChainLeaves
    <3>7. r \in Chain(f, p)
      BY <2>6, <2>7, <3>3, <3>6
    <3>8. Chain(f, p) \subseteq Chain(f, b)
      BY <2>3, <3>6, ChainHolds
    <3> QED BY <2>5, <3>3, <3>7, <3>8
  <2> QED BY <2>8, <2>9
<1> QED BY <1>1, MemoryInvariance, PTL DEF MemorySpec, StaysInProject

\* A removal deletes, at once, the whole live subtree the caller read, at the
\* revisions it read: the blocks a removal does not delete keep their parents,
\* so the store refuses it when a block was added below.
THEOREM RemovalsHold == MemorySpec => RemovesWhatWasRead
<1>1. MInv /\ [MemoryNext]_mvars =>
        [\A c \in Calls :
           Commits(c) /\ call[c].tool = "remove" =>
             /\ Touched = Subtree(call[c].block, None)
             /\ Revision(Touched, None) =
                  {<<b, call[c].named[b]>> : b \in DOMAIN call[c].named}]_mvars
  <2> SUFFICES ASSUME MInv, [MemoryNext]_mvars, NEW c \in Calls, Commits(c),
                      call[c].tool = "remove"
               PROVE  /\ Touched = Subtree(call[c].block, None)
                      /\ Revision(Touched, None) =
                           {<<b, call[c].named[b]>> : b \in DOMAIN call[c].named}
    OBVIOUS
  <2>1. Remove(c)
    BY CommitsTransact DEF Transacts, Change, Insert, Replace, At
  <2>2. PICK k : k = call[c]
    OBVIOUS
  <2>3. CallInv(k) /\ k.tool = "remove" /\ k.step = "transact"
    BY <2>1, <2>2 DEF MInv, Remove, At
  <2>4. PICK S : S = DOMAIN k.seen
    OBVIOUS
  <2>5. PICK contents :
          /\ Batch(c, S, contents)
          /\ \A b \in S : contents[b].deleted /\ heads[b] = k.seen[b]
    BY <2>1, <2>2, <2>4, RemoveWrites
  <2>6. Touched = S /\ S \in SUBSET Blocks
    BY <2>5, BatchTouches DEF Batch
  <2>7. PICK g : LevelsOf(g, SeenKids(k.seen), k.block) /\ S = g[Depth]
    BY <2>3, <2>4 DEF CallInv, RemoveInv
  <2>8. PICK L : L = SeenKids(k.seen)
    OBVIOUS
  <2>9. k.block \in S /\ \A n \in 0 .. Depth : g[n] \subseteq S
    BY <2>7, <2>8, LevelsGrow
  <2>10. \A b \in S : ~heads[b].content.deleted
    BY <2>3, <2>4, <2>5 DEF CallInv, RemoveInv
  <2>11. \E K \in [Blocks -> SUBSET Blocks] : \E h :
           /\ \A p \in Blocks : K[p] = KidsOf(CurrentTree, p)
           /\ LevelsOf(h, K, k.block) /\ h[Depth] \subseteq Blocks
           /\ Subtree(k.block, None)
                = IF heads[k.block].content.deleted THEN {} ELSE h[Depth]
    BY <2>6, <2>9, CurrentSubtree DEF MInv
  <2>12. PICK K \in [Blocks -> SUBSET Blocks] : \E h :
           /\ \A p \in Blocks : K[p] = KidsOf(CurrentTree, p)
           /\ LevelsOf(h, K, k.block) /\ h[Depth] \subseteq Blocks
           /\ Subtree(k.block, None)
                = IF heads[k.block].content.deleted THEN {} ELSE h[Depth]
    BY <2>11
  <2>13. PICK h :
           /\ \A p \in Blocks : K[p] = KidsOf(CurrentTree, p)
           /\ LevelsOf(h, K, k.block) /\ h[Depth] \subseteq Blocks
           /\ Subtree(k.block, None)
                = IF heads[k.block].content.deleted THEN {} ELSE h[Depth]
    BY <2>12
  <2>14. ASSUME NEW x \in S
         PROVE  L[x] = K[x]
    <3>1. x \in Blocks /\ contents[x].deleted
      BY <2>5, <2>6
    <3>2. PICK tx \in Txs : /\ AcceptedWrite(S, contents, tx)
                            /\ contents \in [S -> Content]
      BY <2>5, BatchWrites
    <3>3. ValidEdit(Overlay(contents), x)
      BY <3>2 DEF AcceptedWrite
    <3>4. \A b \in Blocks : Overlay(contents)[b] = IF b \in S THEN contents[b]
                                                   ELSE heads[b].content
      BY <3>2 DEF Overlay
    <3>5. KeptChildren(Overlay(contents), x) = {}
      BY <3>1, <3>3, <3>4 DEF ValidEdit
    <3>6. K[x] = ChildrenNow(x)
      BY <2>13, <3>1, IndexGivesChildren DEF MInv, IInv
    <3>7. K[x] = {b \in Blocks : ~heads[b].content.deleted
                                 /\ heads[b].content.parent = x}
      <4>1. K[x] = KidsOf(CurrentTree, x)
        BY <2>13, <3>1
      <4>2. \A b \in Blocks : CurrentTree[b] = heads[b].content
        BY DEF CurrentTree
      <4> QED BY <4>1, <4>2 DEF KidsOf, LiveBlocks
    <3>8. K[x] \subseteq S
      <4> SUFFICES ASSUME NEW y \in K[x], y \notin S
                   PROVE  FALSE
        OBVIOUS
      <4>1. /\ Overlay(contents)[y] = heads[y].content
            /\ ~heads[y].content.deleted /\ heads[y].content.parent = x
        BY <3>4, <3>7
      <4>2. y \in KeptChildren(Overlay(contents), x)
        BY <3>6, <4>1 DEF KeptChildren
      <4> QED BY <3>5, <4>2
    <3>9. L[x] = {b \in S : ~heads[b].content.deleted
                            /\ heads[b].content.parent = x}
      BY <2>4, <2>5, <2>8, <3>1 DEF SeenKids
    <3> QED BY <2>6, <3>7, <3>8, <3>9
  <2>15. g[Depth] = h[Depth]
    <3>1. \A n \in 1 .. Depth : \A x \in g[n - 1] : L[x] = K[x]
      <4> SUFFICES ASSUME NEW n \in 1 .. Depth
                   PROVE  \A x \in g[n - 1] : L[x] = K[x]
        OBVIOUS
      <4>1. n - 1 \in 0 .. Depth
        BY DepthIsNatural
      <4> QED BY <2>9, <2>14, <4>1
    <3> QED BY <2>7, <2>8, <2>13, <3>1, LevelsDepend
  <2>16. Touched = Subtree(k.block, None)
    BY <2>6, <2>7, <2>9, <2>10, <2>13, <2>15
  <2>17. Revision(S, None) = {<<b, k.named[b]>> : b \in DOMAIN k.named}
    <3>1. Revision(S, None) = {<<b, k.seen[b].tx>> : b \in S}
      BY <2>5 DEF Revision, Get
    <3> QED BY <2>3, <2>4, <3>1 DEF CallInv, RemoveInv
  <2> QED BY <2>2, <2>6, <2>16, <2>17
<1> QED BY <1>1, MemoryInvariance, PTL DEF MemorySpec, RemovesWhatWasRead
=============================================================================
