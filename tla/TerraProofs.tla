----------------------------- MODULE TerraProofs -----------------------------
(***************************************************************************)
(* Proofs about Terra and its read commands, for any branches, entities,   *)
(* properties and items. What a branch sees up to one of its transactions, *)
(* or of its ancestors' before the branch points, is what the branch of    *)
(* that transaction saw then; what it saw then does not change.            *)
(***************************************************************************)
EXTENDS TerraReads, FiniteSetTheorems, FunctionTheorems, SequenceTheorems, WellFoundedInduction, TLAPS

-----------------------------------------------------------------------------
(***************************************************************************)
(* Numbers.                                                                *)
(***************************************************************************)
\* A set of natural numbers has a least one.
LEMMA LeastNumber ==
  ASSUME NEW S \in SUBSET Nat, S # {}
  PROVE  \E x \in S : \A y \in S : x =< y
<1> DEFINE Less == {ss \in Nat \X Nat : ss[1] < ss[2]}
<1>1. IsWellFoundedOn(Less, Nat)
  BY NatLessThanWellFounded, Zenon DEF OpToRel
<1>2. \A x, y \in Nat : y < x => <<y, x>> \in Less
  OBVIOUS
<1> HIDE DEF Less
<1>3. PICK x \in S : \A y \in S : ~ (<<y, x>> \in Less)
  BY <1>1, WFMin
<1>4. \A y \in S : ~(y < x)
  BY <1>2, <1>3
<1> QED BY <1>4

\* A bounded one has a greatest.
LEMMA GreatestNumber ==
  ASSUME NEW S \in SUBSET Nat, S # {}, NEW n \in Nat, \A x \in S : x =< n
  PROVE  \E x \in S : \A y \in S : y =< x
<1> DEFINE T == {n - x : x \in S}
<1>1. T \in SUBSET Nat
  <2>1. \A x \in S : n - x \in Nat
    OBVIOUS
  <2> QED BY <2>1
<1>0. T # {}
  OBVIOUS
<1> HIDE DEF T
<1>2. PICK m \in T : \A k \in T : m =< k
  BY <1>1, <1>0, LeastNumber
<1>3. PICK x \in S : m = n - x
  BY DEF T
<1>4. ASSUME NEW y \in S
      PROVE  y =< x
  <2>1. n - y \in T
    BY DEF T
  <2>2. n - x =< n - y
    BY <1>2, <1>3, <2>1
  <2> QED BY <2>2
<1> QED BY <1>4

-----------------------------------------------------------------------------
(***************************************************************************)
(* Branches and transactions.                                              *)
(***************************************************************************)
Key(r) == [branch |-> r.branch, tx |-> r.tx]

\* Transactions are numbered as they commit.
IdsInv ==
  /\ IsFiniteSet(transactions) /\ Cardinality(transactions) =< MaxTx
  /\ \A t \in transactions :
       t = Key(t) /\ t.branch \in Opened /\ t.tx \in 1 .. Cardinality(transactions)
  /\ \A t, u \in transactions : t.tx = u.tx => t = u

IsDepth(d) ==
  /\ d \in [Opened -> 0 .. MaxDepth]
  /\ d[Main] = 0
  /\ \A s \in DOMAIN branches : d[s] = d[branches[s].parent] + 1

\* A branch starts at a transaction of its parent, and comes after it.
BranchInv ==
  /\ DOMAIN branches \subseteq Slugs \ {Main}
  /\ \A s \in DOMAIN branches :
       /\ branches[s].parent \in Opened
       /\ [branch |-> branches[s].parent, tx |-> branches[s].from] \in transactions
       /\ \A t \in transactions : t.branch = s => branches[s].from < t.tx
  /\ \E d : IsDepth(d)

Point(s) == [branch |-> branches[s].parent, upper |-> branches[s].from]

\* What compute_ancestry computes: the parent, then the parent's ancestors.
AncestryWalks ==
  /\ Ancestry(Main) = <<>>
  /\ \A s \in DOMAIN branches, p \in Opened : p = branches[s].parent =>
       Ancestry(s) = <<Point(s)>> \o Ancestry(p)

\* Its scopes are of open branches, up to committed transactions; there are as
\* many as the branch is deep.
AncestryIsPath ==
  /\ AncestryWalks
  /\ \A s \in Opened : Ancestry(s) \in
       Seq([branch : Opened, upper : 1 .. Cardinality(transactions)])
  /\ \A d : IsDepth(d) => \A s \in Opened : Len(Ancestry(s)) = d[s]

\* One step of the walk, for every branch at once.
Rise(h) ==
  [s \in DOMAIN branches |->
     <<Point(s)>> \o (IF branches[s].parent = Main THEN <<>> ELSE h[branches[s].parent])]

IsUp(up) ==
  up = [n \in 0 .. MaxDepth |->
          [s \in DOMAIN branches |->
             IF n = 0 THEN <<>>
             ELSE <<[branch |-> branches[s].parent, upper |-> branches[s].from]>>
                  \o (IF branches[s].parent = Main THEN <<>>
                      ELSE up[n - 1][branches[s].parent])]]

\* The recursion has a solution.
LEMMA UpExists == \E up : IsUp(up)
<1> DEFINE Upto(m, g) ==
             /\ g = [n \in 0 .. m |-> g[n]]
             /\ g[0] = [s \in DOMAIN branches |-> <<>>]
             /\ \A n \in 1 .. m : g[n] = Rise(g[n - 1])
           Bad == {m \in Nat : ~ \E g : Upto(m, g)}
<1>1. Bad = {}
  <2> SUFFICES ASSUME Bad # {}
               PROVE  FALSE
    OBVIOUS
  <2>1. PICK m \in Bad : \A n \in Bad : m =< n
    <3> HIDE DEF Bad
    <3>1. Bad \in SUBSET Nat
      BY DEF Bad
    <3> QED BY <3>1, LeastNumber
  <2>2. m # 0
    <3>1. Upto(0, [n \in 0 .. 0 |-> [s \in DOMAIN branches |-> <<>>]])
      OBVIOUS
    <3>2. 0 \notin Bad
      BY <3>1
    <3> QED BY <2>1, <3>2
  <2>3. m \in Nat /\ m - 1 \in Nat /\ ~(m =< m - 1)
    BY <2>1, <2>2
  <2>4. PICK h : Upto(m - 1, h)
    BY <2>1, <2>3
  <2> DEFINE g == [n \in 0 .. m |-> IF n = m THEN Rise(h[m - 1]) ELSE h[n]]
  <2>5. Upto(m, g)
    <3>1. g = [n \in 0 .. m |-> g[n]] /\ g[0] = h[0]
      BY <2>2, <2>3
    <3>2. g[m] = Rise(h[m - 1]) /\ g[m - 1] = h[m - 1]
      BY <2>3
    <3>3. \A n \in 1 .. m - 1 : g[n] = h[n] /\ g[n - 1] = h[n - 1]
      BY <2>3
    <3> HIDE DEF g
    <3>4. \A n \in 1 .. m : g[n] = Rise(g[n - 1])
      <4> TAKE n \in 1 .. m
      <4>1. CASE n = m
        BY <4>1, <3>2
      <4>2. CASE n # m
        <5>1. n \in 1 .. m - 1
          BY <4>2, <2>3
        <5> QED BY <5>1, <3>3, <2>4
      <4> QED BY <4>1, <4>2
    <3> QED BY <3>1, <3>4, <2>4
  <2> QED BY <2>1, <2>5
<1>2. PICK g : Upto(MaxDepth, g)
  BY <1>1, TerraAssumption
<1> HIDE DEF Bad
<1>3. g = [n \in 0 .. MaxDepth |-> g[n]]
  BY <1>2
<1> DEFINE Body(n) ==
             [s \in DOMAIN branches |->
               IF n = 0 THEN <<>>
               ELSE <<[branch |-> branches[s].parent, upper |-> branches[s].from]>>
                    \o (IF branches[s].parent = Main THEN <<>>
                        ELSE g[n - 1][branches[s].parent])]
<1>4. ASSUME NEW n \in 0 .. MaxDepth
      PROVE  g[n] = Body(n)
  <2>1. CASE n = 0
    BY <1>2, <2>1
  <2>2. CASE n # 0
    <3>1. n \in 1 .. MaxDepth
      BY <2>2, TerraAssumption
    <3>2. g[n] = Rise(g[n - 1])
      BY <1>2, <3>1
    <3> QED BY <2>2, <3>2 DEF Rise, Point
  <2> QED BY <2>1, <2>2
<1>5. [n \in 0 .. MaxDepth |-> g[n]] = [n \in 0 .. MaxDepth |-> Body(n)]
  <2> HIDE DEF Body
  <2> QED BY <1>4
<1>6. g = [n \in 0 .. MaxDepth |-> Body(n)]
  BY <1>3, <1>5, Zenon
<1> QED BY <1>6 DEF IsUp

\* What holds of the main branch, and of a branch whenever it holds of its
\* parent, holds of all branches.
LEMMA BranchInduction ==
  ASSUME BranchInv, NEW S, Main \in S,
         \A s \in DOMAIN branches : branches[s].parent \in S => s \in S
  PROVE  Opened \subseteq S
<1> PICK d : IsDepth(d)
  BY DEF BranchInv
<1> DEFINE Bad == {k \in Nat : \E s \in Opened : s \notin S /\ d[s] = k}
<1>1. Bad = {}
  <2> SUFFICES ASSUME Bad # {}
               PROVE  FALSE
    OBVIOUS
  <2>1. PICK k \in Bad : \A n \in Bad : k =< n
    <3>1. Bad \in SUBSET Nat
      OBVIOUS
    <3> HIDE DEF Bad
    <3> QED BY <3>1, LeastNumber
  <2>2. PICK s \in Opened : s \notin S /\ d[s] = k
    BY <2>1
  <2>3. s \in DOMAIN branches /\ branches[s].parent \in Opened
    BY <2>2 DEF Opened, BranchInv
  <2>4. branches[s].parent \notin S
    BY <2>2, <2>3
  <2>5. d[branches[s].parent] \in Nat /\ d[s] = d[branches[s].parent] + 1
    BY <2>3, TerraAssumption DEF IsDepth
  <2>6. d[branches[s].parent] \in Bad
    BY <2>3, <2>4, <2>5
  <2> HIDE DEF Bad
  <2> QED BY <2>1, <2>2, <2>5, <2>6
<1>2. \A s \in Opened : d[s] \in Nat
  BY TerraAssumption DEF IsDepth
<1> QED BY <1>1, <1>2

LEMMA UpStep ==
  ASSUME NEW up, IsUp(up), NEW n \in 1 .. MaxDepth, NEW s \in DOMAIN branches
  PROVE  up[n][s] = <<Point(s)>> \o (IF branches[s].parent = Main THEN <<>>
                                     ELSE up[n - 1][branches[s].parent])
<1> DEFINE Body(k) ==
             [r \in DOMAIN branches |->
               IF k = 0 THEN <<>>
               ELSE <<[branch |-> branches[r].parent, upper |-> branches[r].from]>>
                    \o (IF branches[r].parent = Main THEN <<>>
                        ELSE up[k - 1][branches[r].parent])]
<1>1. up = [k \in 0 .. MaxDepth |-> Body(k)]
  BY Zenon DEF IsUp
<1>2. n \in 0 .. MaxDepth /\ n # 0
  BY TerraAssumption
<1>3. up[n] = Body(n)
  <2> HIDE DEF Body
  <2> QED BY <1>1, <1>2
<1> QED BY <1>2, <1>3, Zenon DEF Point

\* As many steps as the branch is deep are enough, and more change nothing.
LEMMA UpSettles ==
  ASSUME BranchInv, NEW d, IsDepth(d), NEW up, IsUp(up)
  PROVE  \A s \in DOMAIN branches : \A n, m \in d[s] .. MaxDepth : up[n][s] = up[m][s]
<1> DEFINE S == {s \in Opened : s \in DOMAIN branches =>
                   \A n, m \in d[s] .. MaxDepth : up[n][s] = up[m][s]}
<1>1. Main \in S
  BY DEF Opened, BranchInv
<1>2. ASSUME NEW s \in DOMAIN branches, branches[s].parent \in S,
             NEW n \in d[s] .. MaxDepth, NEW m \in d[s] .. MaxDepth
      PROVE  up[n][s] = up[m][s]
  <2> DEFINE p == branches[s].parent
  <2>0. p \in Opened
    BY DEF BranchInv
  <2>1. d[p] \in Nat /\ d[s] = d[p] + 1
    BY <2>0, TerraAssumption DEF IsDepth
  <2>2. n \in 1 .. MaxDepth /\ m \in 1 .. MaxDepth
    BY <2>1, TerraAssumption
  <2>3. up[n][s] = <<Point(s)>> \o (IF p = Main THEN <<>> ELSE up[n - 1][p])
    BY <2>2, UpStep
  <2>4. up[m][s] = <<Point(s)>> \o (IF p = Main THEN <<>> ELSE up[m - 1][p])
    BY <2>2, UpStep
  <2>5. CASE p = Main
    BY <2>3, <2>4, <2>5
  <2>6. CASE p # Main
    <3>1. p \in DOMAIN branches
      BY <2>0, <2>6 DEF Opened
    <3>2. n - 1 \in d[p] .. MaxDepth /\ m - 1 \in d[p] .. MaxDepth
      BY <2>1, <2>2, TerraAssumption
    <3>3. up[n - 1][p] = up[m - 1][p]
      BY <3>1, <3>2, <1>2
    <3> QED BY <2>3, <2>4, <2>6, <3>3
  <2> QED BY <2>5, <2>6
<1>3. \A s \in DOMAIN branches : branches[s].parent \in S => s \in S
  BY <1>2 DEF Opened
<1>4. Opened \subseteq S
  <2> HIDE DEF S
  <2> QED BY <1>1, <1>3, BranchInduction
<1> QED BY <1>4 DEF Opened

\* The walk of compute_ancestry, without its limit.
LEMMA AncestrySteps ==
  ASSUME BranchInv
  PROVE  AncestryWalks
<1> PICK d : IsDepth(d)
  BY DEF BranchInv
<1> DEFINE up == CHOOSE u : IsUp(u)
<1>1. IsUp(up)
  BY UpExists
<1>2. \A s : Ancestry(s) = IF s = Main THEN <<>> ELSE up[MaxDepth][s]
  BY DEF Ancestry, IsUp
<1> HIDE DEF up
<1>3. Ancestry(Main) = <<>>
  BY <1>2
<1>4. ASSUME NEW s \in DOMAIN branches
      PROVE  Ancestry(s) = <<Point(s)>> \o Ancestry(branches[s].parent)
  <2> DEFINE p == branches[s].parent
  <2>1. p \in Opened /\ d[p] \in Nat /\ d[s] = d[p] + 1 /\ d[s] =< MaxDepth /\ s # Main
    <3>1. p \in Opened /\ s \in Opened /\ s # Main
      BY DEF BranchInv, Opened
    <3> QED BY <3>1, TerraAssumption DEF IsDepth
  <2>2. up[MaxDepth][s] = <<Point(s)>> \o (IF p = Main THEN <<>> ELSE up[MaxDepth - 1][p])
    BY <1>1, TerraAssumption, UpStep
  <2>3. CASE p = Main
    BY <1>2, <2>1, <2>2, <2>3
  <2>4. CASE p # Main
    <3>1. p \in DOMAIN branches
      BY <2>1, <2>4 DEF Opened
    <3>2. MaxDepth - 1 \in d[p] .. MaxDepth /\ MaxDepth \in d[p] .. MaxDepth
      BY <2>1, TerraAssumption
    <3>3. up[MaxDepth - 1][p] = up[MaxDepth][p]
      BY <1>1, <3>1, <3>2, UpSettles
    <3> QED BY <1>2, <2>1, <2>2, <2>4, <3>3
  <2> QED BY <2>3, <2>4
<1> QED BY <1>3, <1>4 DEF AncestryWalks

\* A step adds one scope: its length, and its elements.
LEMMA OneMore ==
  ASSUME NEW T, NEW x \in T, NEW q \in Seq(T)
  PROVE  /\ <<x>> \o q \in Seq(T)
         /\ Len(<<x>> \o q) = Len(q) + 1
         /\ (<<x>> \o q)[1] = x
         /\ \A i \in 1 .. Len(q) : (<<x>> \o q)[i + 1] = q[i]
OBVIOUS

\* The scopes of every branch are scopes of open branches, up to committed
\* transactions, as many as the branch is deep.
LEMMA PathOfAncestry ==
  ASSUME IdsInv, BranchInv
  PROVE  AncestryIsPath
<1> DEFINE T == [branch : Opened, upper : 1 .. Cardinality(transactions)]
<1>1. \A s \in DOMAIN branches : Point(s) \in T
  <2> SUFFICES ASSUME NEW s \in DOMAIN branches
               PROVE  Point(s) \in T
    OBVIOUS
  <2>1. branches[s].parent \in Opened
    BY DEF BranchInv
  <2>2. PICK t \in transactions :
          t = [branch |-> branches[s].parent, tx |-> branches[s].from]
    BY DEF BranchInv
  <2>3. branches[s].from \in 1 .. Cardinality(transactions)
    BY <2>2 DEF IdsInv
  <2> QED BY <2>1, <2>3 DEF Point
<1>2. \A s \in DOMAIN branches : branches[s].parent \in Opened
  BY DEF BranchInv
<1>6. ASSUME NEW s \in DOMAIN branches, Ancestry(branches[s].parent) \in Seq(T)
      PROVE  /\ Ancestry(s) \in Seq(T)
             /\ Len(Ancestry(s)) = Len(Ancestry(branches[s].parent)) + 1
  <2> DEFINE q == Ancestry(branches[s].parent)
             x == Point(s)
  <2>1. Ancestry(s) = <<x>> \o q
    BY <1>2, AncestrySteps DEF AncestryWalks
  <2>2. q \in Seq(T) /\ x \in T
    BY <1>1, <1>6
  <2> HIDE DEF q, x, T
  <2>3. Len(<<x>> \o q) = Len(q) + 1 /\ <<x>> \o q \in Seq(T)
    BY <2>2, OneMore
  <2>4. Len(Ancestry(s)) = Len(q) + 1 /\ Ancestry(s) \in Seq(T)
    BY <2>1, <2>3, Zenon
  <2> QED BY <2>4 DEF q
<1> DEFINE S == {s \in Opened : Ancestry(s) \in Seq(T)}
<1>3. Opened \subseteq S
  <2>1. Main \in S
    BY AncestrySteps DEF Opened, AncestryWalks
  <2>2. \A s \in DOMAIN branches : branches[s].parent \in S => s \in S
    <3> HIDE DEF T
    <3> QED BY <1>6 DEF Opened
  <2> HIDE DEF S
  <2> QED BY <2>1, <2>2, BranchInduction
<1>4. \A s \in Opened : Ancestry(s) \in Seq(T)
  BY <1>3
<1>5. ASSUME NEW d, IsDepth(d)
      PROVE  \A s \in Opened : Len(Ancestry(s)) = d[s]
  <2> DEFINE D == {s \in Opened : Len(Ancestry(s)) = d[s]}
  <2>1. Main \in D
    BY <1>5, AncestrySteps DEF Opened, IsDepth, AncestryWalks
  <2>2. \A s \in DOMAIN branches : branches[s].parent \in D => s \in D
    <3> SUFFICES ASSUME NEW s \in DOMAIN branches, branches[s].parent \in D
                 PROVE  s \in D
      OBVIOUS
    <3> HIDE DEF T
    <3>1. Len(Ancestry(s)) = Len(Ancestry(branches[s].parent)) + 1
      BY <1>2, <1>4, <1>6
    <3> QED BY <3>1, <1>5 DEF Opened, IsDepth
  <2> HIDE DEF D
  <2>3. Opened \subseteq D
    BY <2>1, <2>2, BranchInduction
  <2> QED BY <2>3 DEF D
<1> QED BY <1>4, <1>5, AncestrySteps DEF AncestryIsPath

\* The ancestry of a branch ends at the main branch.
LEMMA PathsReachMain ==
  ASSUME IdsInv, BranchInv
  PROVE  AncestryReachesMain
<1>0. AncestryIsPath
  BY PathOfAncestry
<1> DEFINE T == [branch : Opened, upper : 1 .. Cardinality(transactions)]
           Ends(s) == Ancestry(s)[Len(Ancestry(s))].branch = Main
           S == {s \in Opened : s # Main => Ends(s)}
<1>1. ASSUME NEW s \in DOMAIN branches, branches[s].parent \in S
      PROVE  Ends(s)
  <2> DEFINE p == branches[s].parent
             q == Ancestry(p)
             x == Point(s)
  <2>1. Ancestry(s) = <<x>> \o q /\ q \in Seq(T) /\ x.branch = p
    BY <1>0, <1>1 DEF AncestryIsPath, AncestryWalks, Opened, Point
  <2>2. CASE p = Main
    <3>1. q = <<>>
      BY <1>0, <2>2 DEF AncestryIsPath, AncestryWalks
    <3>2. <<x>> \o <<>> = <<x>> /\ Len(<<x>>) = 1 /\ <<x>>[1] = x
      OBVIOUS
    <3> QED BY <2>1, <2>2, <3>1, <3>2
  <2>3. CASE p # Main
    <3>1. p \in DOMAIN branches
      BY <1>1, <2>3 DEF Opened
    <3>2. PICK d : IsDepth(d)
      BY DEF BranchInv
    <3>3. Len(q) = d[p] /\ d[p] = d[branches[p].parent] + 1
      BY <1>0, <1>1, <3>1, <3>2 DEF AncestryIsPath, IsDepth
    <3>4. d[branches[p].parent] \in Nat
      <4>1. branches[p].parent \in Opened
        BY <3>1 DEF BranchInv
      <4> QED BY <3>2, <4>1, TerraAssumption DEF IsDepth
    <3>5. Len(q) \in 1 .. Len(q)
      BY <3>3, <3>4
    <3>6. q[Len(q)].branch = Main
      BY <1>1, <2>3
    <3> HIDE DEF q, x, T
    <3>7. Len(<<x>> \o q) = Len(q) + 1 /\ (<<x>> \o q)[Len(q) + 1] = q[Len(q)]
      BY <2>1, <3>5
    <3> QED BY <2>1, <3>6, <3>7
  <2> QED BY <2>2, <2>3
<1>2. Main \in S
  BY DEF Opened
<1>3. \A s \in DOMAIN branches : branches[s].parent \in S => s \in S
  BY <1>1 DEF Opened
<1>4. Opened \subseteq S
  <2> HIDE DEF S
  <2> QED BY <1>2, <1>3, BranchInduction
<1> QED BY <1>4 DEF AncestryReachesMain

-----------------------------------------------------------------------------
(***************************************************************************)
(* Transactions and branches, step by step.                                *)
(***************************************************************************)
\* What a checkout of the parent at a transaction does to the branches.
Opens(parent, slug, from) ==
  /\ parent \in Opened
  /\ slug \in Slugs \ Opened
  /\ [branch |-> parent, tx |-> from] \in transactions
  /\ ~TooDeep(parent)
  /\ branches' = [s \in DOMAIN branches \cup {slug} |->
                    IF s = slug THEN [parent |-> parent, from |-> from]
                    ELSE branches[s]]

\* A step of the store: a transaction of a branch that is open or opened by it.
Commits(scopes) ==
  /\ Execute(scopes)
  /\ \/ Branch(scopes) \in Opened /\ branches' = branches
     \/ \E parent, from : Opens(parent, Branch(scopes), from)

\* The branch a transaction is committed to is the one of its first scope.
LEMMA FirstScope ==
  ASSUME IdsInv, BranchInv, NEW b \in Opened, NEW x, NEW y
  PROVE  Branch(<<x>> \o Ancestry(b)) = x.branch /\ Branch(<<x, y>> \o Ancestry(b)) = x.branch
<1> DEFINE T == [branch : Opened, upper : 1 .. Cardinality(transactions)]
           q == Ancestry(b)
<1>1. q \in Seq(T)
  BY PathOfAncestry DEF AncestryIsPath
<1> HIDE DEF T, q
<1>2. (<<x>> \o q)[1] = x /\ (<<x, y>> \o q)[1] = x
  BY <1>1
<1> QED BY <1>2 DEF q, Branch

\* Every step of the specification is one.
LEMMA StepsCommit ==
  ASSUME IdsInv, BranchInv, Next
  PROVE  \E scopes : Commits(scopes)
<1>1. PICK b \in Opened : Transact(b) \/ \E s \in Slugs : OrderlyCheckout(b, s)
  BY DEF Next
<1>2. CASE Transact(b)
  <2> DEFINE x == [branch |-> b, upper |-> MaxTx]
  <2>0. x.branch = b /\ Scopes(b) = <<x>> \o Ancestry(b)
    BY DEF Scopes, ScopesAt
  <2> HIDE DEF x
  <2>1. Branch(Scopes(b)) = b
    BY <2>0, FirstScope
  <2> QED BY <1>2, <2>1 DEF Transact, Commits
<1>3. ASSUME NEW s \in Slugs, OrderlyCheckout(b, s)
      PROVE  \E scopes : Commits(scopes)
  <2>1. PICK from \in Committed(b) : Checkout(b, s, from)
    BY <1>3 DEF OrderlyCheckout
  <2> DEFINE x == [branch |-> s, upper |-> MaxTx]
             y == [branch |-> b, upper |-> from]
             scopes == <<x, y>> \o Ancestry(b)
  <2>2. Branch(scopes) = s
    <3>1. x.branch = s
      OBVIOUS
    <3> HIDE DEF x, y
    <3> QED BY <3>1, FirstScope
  <2>3. [branch |-> b, tx |-> from] \in transactions
    <3>1. PICK t \in transactions : t.branch = b /\ t.tx = from
      BY DEF Committed
    <3> QED BY <3>1 DEF IdsInv, Key
  <2>4. Opens(b, s, from)
    BY <1>3, <2>1, <2>3 DEF OrderlyCheckout, Checkout, Opens, Opened
  <2>5. Execute(scopes)
    BY <2>1 DEF Checkout
  <2> HIDE DEF scopes
  <2> QED BY <2>2, <2>4, <2>5 DEF Commits
<1> QED BY <1>1, <1>2, <1>3

\* A step opens branches, and closes or moves none.
LEMMA OpenedStay ==
  ASSUME NEW scopes, Commits(scopes)
  PROVE  /\ Opened \subseteq Opened' /\ Branch(scopes) \in Opened'
         /\ \A s \in DOMAIN branches : s \in DOMAIN branches' /\ branches'[s] = branches[s]
<1>1. CASE branches' = branches /\ Branch(scopes) \in Opened
  BY <1>1 DEF Opened
<1>2. CASE \E parent, from : Opens(parent, Branch(scopes), from)
  BY <1>2 DEF Opens, Opened
<1> QED BY <1>1, <1>2 DEF Commits

\* The next transaction.
LEMMA CommitAddsOne ==
  ASSUME IdsInv, NEW scopes, Commits(scopes)
  PROVE  /\ NextTx \in 1 .. MaxTx /\ NextTx = Cardinality(transactions) + 1
         /\ transactions' = transactions \cup {[branch |-> Branch(scopes), tx |-> NextTx]}
         /\ IsFiniteSet(transactions') /\ Cardinality(transactions') = NextTx
         /\ Cardinality(transactions) \in Nat
         /\ \A t \in transactions : t.tx \in 1 .. Cardinality(transactions)
<1>1. Cardinality(transactions) \in Nat
  BY FS_CardinalityType DEF IdsInv
<1>2. NextTx =< MaxTx
       /\ transactions' = transactions \cup {[branch |-> Branch(scopes), tx |-> NextTx]}
  BY DEF Commits, Execute
<1>3. [branch |-> Branch(scopes), tx |-> NextTx] \notin transactions
  BY <1>1 DEF IdsInv, NextTx
<1>4. IsFiniteSet(transactions') /\ Cardinality(transactions') = NextTx
  BY <1>2, <1>3, FS_AddElement DEF IdsInv, NextTx
<1> QED BY <1>1, <1>2, <1>4, TerraAssumption DEF NextTx, IdsInv

\* Transactions stay numbered.
LEMMA CommitsKeepIds ==
  ASSUME IdsInv, NEW scopes, Commits(scopes)
  PROVE  IdsInv'
<1> DEFINE n == NextTx
           new == [branch |-> Branch(scopes), tx |-> n]
<1>1. /\ n \in 1 .. MaxTx /\ n = Cardinality(transactions) + 1
      /\ transactions' = transactions \cup {new}
      /\ IsFiniteSet(transactions') /\ Cardinality(transactions') = n
      /\ Cardinality(transactions) \in Nat
      /\ \A t \in transactions : t.tx \in 1 .. Cardinality(transactions)
  BY CommitAddsOne
<1>2. Opened \subseteq Opened' /\ Branch(scopes) \in Opened'
  BY OpenedStay
<1>3. \A t \in transactions : t = Key(t) /\ t.branch \in Opened
  BY DEF IdsInv
<1> HIDE DEF n
<1>4. new = Key(new) /\ new.branch = Branch(scopes) /\ new.tx = n
  BY DEF Key
<1> HIDE DEF new
<1>5. \A t \in transactions' : t = Key(t) /\ t.branch \in Opened' /\ t.tx \in 1 .. n
  BY <1>1, <1>2, <1>3, <1>4
<1>6. \A t, u \in transactions' : t.tx = u.tx => t = u
  <2>1. \A t, u \in transactions : t.tx = u.tx => t = u
    BY DEF IdsInv
  <2> QED BY <2>1, <1>1, <1>4
<1> QED BY <1>1, <1>5, <1>6, TerraAssumption DEF IdsInv, Key

\* Branches stay a tree, no deeper than MaxDepth.
LEMMA CommitsKeepBranches ==
  ASSUME IdsInv, BranchInv, NEW scopes, Commits(scopes)
  PROVE  BranchInv'
<1> DEFINE n == NextTx
           new == [branch |-> Branch(scopes), tx |-> n]
<1>1. /\ n \in 1 .. MaxTx /\ n = Cardinality(transactions) + 1
      /\ transactions' = transactions \cup {new}
      /\ Cardinality(transactions) \in Nat
      /\ \A t \in transactions : t.tx \in 1 .. Cardinality(transactions)
      /\ new.branch = Branch(scopes) /\ new.tx = n
  BY CommitAddsOne
<1> HIDE DEF n, new
<1>2. CASE branches' = branches
  <2>1. Opened' = Opened
    BY <1>2 DEF Opened
  <2>2. \A d : IsDepth(d) => IsDepth(d)'
    BY <1>2, <2>1 DEF IsDepth
  <2>3. \E d : IsDepth(d)'
    BY <2>2 DEF BranchInv
  <2>4. ASSUME NEW s \in DOMAIN branches'
        PROVE  /\ branches'[s].parent \in Opened'
               /\ [branch |-> branches'[s].parent, tx |-> branches'[s].from] \in transactions'
               /\ \A t \in transactions' : t.branch = s => branches'[s].from < t.tx
    <3>1. PICK u \in transactions :
            u = [branch |-> branches[s].parent, tx |-> branches[s].from]
      BY <1>2, <2>4 DEF BranchInv
    <3>2. branches[s].from \in 1 .. Cardinality(transactions)
      BY <1>1, <3>1
    <3>3. \A t \in transactions : t.branch = s => branches[s].from < t.tx
      BY <1>2, <2>4 DEF BranchInv
    <3>4. branches[s].from < new.tx
      BY <1>1, <3>2
    <3>5. branches[s].parent \in Opened
      BY <1>2, <2>4 DEF BranchInv
    <3> QED BY <1>1, <1>2, <2>1, <3>1, <3>3, <3>4, <3>5
  <2>5. DOMAIN branches' \subseteq Slugs \ {Main}
    BY <1>2 DEF BranchInv
  <2> QED BY <2>3, <2>4, <2>5 DEF BranchInv
<1>3. ASSUME NEW parent, NEW from, Opens(parent, Branch(scopes), from)
      PROVE  BranchInv'
  <2> DEFINE slug == Branch(scopes)
  <2>1. /\ parent \in Opened /\ slug \in Slugs /\ slug \notin Opened /\ slug # Main
        /\ slug \notin DOMAIN branches /\ slug # parent
        /\ [branch |-> parent, tx |-> from] \in transactions
        /\ ~TooDeep(parent)
        /\ DOMAIN branches' = DOMAIN branches \cup {slug}
        /\ branches'[slug] = [parent |-> parent, from |-> from]
        /\ \A s \in DOMAIN branches : branches'[s] = branches[s]
    BY <1>3 DEF Opens, Opened
  <2> HIDE DEF slug
  <2>2. Opened' = Opened \cup {slug}
    BY <2>1 DEF Opened
  <2>3. DOMAIN branches' \subseteq Slugs \ {Main}
    BY <2>1 DEF BranchInv
  <2>4. ASSUME NEW s \in DOMAIN branches'
        PROVE  /\ branches'[s].parent \in Opened'
               /\ [branch |-> branches'[s].parent, tx |-> branches'[s].from] \in transactions'
               /\ \A t \in transactions' : t.branch = s => branches'[s].from < t.tx
    <3>1. CASE s = slug
      <4>1. branches'[s].parent = parent /\ branches'[s].from = from
        BY <2>1, <3>1
      <4>2. PICK u \in transactions : u = [branch |-> parent, tx |-> from]
        BY <2>1
      <4>3. from \in 1 .. Cardinality(transactions)
        BY <1>1, <4>2
      <4>4. \A t \in transactions : t.branch # slug
        BY <2>1 DEF IdsInv
      <4>5. from < new.tx
        BY <1>1, <4>3
      <4> QED BY <1>1, <2>1, <2>2, <3>1, <4>1, <4>2, <4>4, <4>5
    <3>2. CASE s # slug
      <4>0. s \in DOMAIN branches /\ branches'[s] = branches[s]
        BY <2>1, <3>2
      <4>1. PICK u \in transactions :
              u = [branch |-> branches[s].parent, tx |-> branches[s].from]
        BY <4>0 DEF BranchInv
      <4>2. branches[s].from \in 1 .. Cardinality(transactions)
        BY <1>1, <4>1
      <4>3. \A t \in transactions : t.branch = s => branches[s].from < t.tx
        BY <4>0 DEF BranchInv
      <4>4. branches[s].from < new.tx
        BY <1>1, <4>2
      <4>5. branches[s].parent \in Opened
        BY <4>0 DEF BranchInv
      <4> QED BY <1>1, <2>2, <4>0, <4>1, <4>3, <4>4, <4>5
    <3> QED BY <3>1, <3>2
  <2>5. PICK d : IsDepth(d)
    BY DEF BranchInv
  <2>6. d[parent] \in Nat /\ d[parent] + 1 =< MaxDepth
    <3>1. Len(Ancestry(parent)) = d[parent]
      BY <2>1, <2>5, PathOfAncestry DEF AncestryIsPath
    <3>2. d[parent] \in 0 .. MaxDepth
      BY <2>1, <2>5 DEF IsDepth
    <3> QED BY <2>1, <3>1, <3>2, TerraAssumption DEF TooDeep
  <2> DEFINE e == [s \in Opened' |-> IF s = slug THEN d[parent] + 1 ELSE d[s]]
  <2>7. \A s \in Opened : e[s] = d[s]
    BY <2>1, <2>2
  <2>8. e[slug] = d[parent] + 1
    BY <2>2
  <2>9. e \in [Opened' -> 0 .. MaxDepth]
    <3>1. \A s \in Opened : d[s] \in 0 .. MaxDepth
      BY <2>5 DEF IsDepth
    <3> QED BY <2>2, <2>6, <3>1, TerraAssumption
  <2> HIDE DEF e
  <2>10. \A s \in DOMAIN branches' : e[s] = e[branches'[s].parent] + 1
    <3> SUFFICES ASSUME NEW s \in DOMAIN branches'
                 PROVE  e[s] = e[branches'[s].parent] + 1
      OBVIOUS
    <3>1. CASE s = slug
      BY <2>1, <2>7, <2>8, <3>1
    <3>2. CASE s # slug
      <4>1. s \in DOMAIN branches /\ branches'[s] = branches[s]
        BY <2>1, <3>2
      <4>2. s \in Opened /\ branches[s].parent \in Opened
        BY <4>1 DEF BranchInv, Opened
      <4> QED BY <2>5, <2>7, <4>1, <4>2 DEF IsDepth
    <3> QED BY <3>1, <3>2
  <2>11. e[Main] = 0
    BY <2>5, <2>7 DEF IsDepth, Opened
  <2>12. PICK x : x = e
    OBVIOUS
  <2>13. IsDepth(x)'
    BY <2>9, <2>10, <2>11, <2>12 DEF IsDepth
  <2> QED BY <2>3, <2>4, <2>13 DEF BranchInv
<1> QED BY <1>2, <1>3 DEF Commits

-----------------------------------------------------------------------------
(***************************************************************************)
(* The rows a transaction writes.                                          *)
(***************************************************************************)
\* Rows of a branch at a transaction.
At(R, b, tx) == \A r \in R : r.branch = b /\ r.tx = tx

\* A property is asserted at most once, about the entity of the operation; an
\* assertion that addresses another addresses one that is shown.
Asserts(A, scopes, tx, e) ==
  /\ At(A, Branch(scopes), tx)
  /\ \A r \in A : /\ r.entity = e /\ r.prop \in Props
                  /\ r.supersedes \in {None} \cup Targets(scopes, e, r.prop)
  /\ \A r, s \in A : r.prop = s.prop => r = s

LEMMA WriteAsserts ==
  ASSUME NEW scopes, NEW tx, NEW e, NEW A \in Assertions(scopes, tx, e)
  PROVE  Asserts(A, scopes, tx, e)
<1>1. PICK terminal \in Statuses :
        A \in {R \in SUBSET Claims(scopes, tx, e, terminal) :
                 \A r, s \in R : r.prop = s.prop => r = s}
  BY DEF Assertions
<1>2. ASSUME NEW r \in A
      PROVE  /\ r.branch = Branch(scopes) /\ r.tx = tx /\ r.entity = e /\ r.prop \in Props
             /\ r.supersedes \in {None} \cup Targets(scopes, e, r.prop)
  <2>1. r \in Claims(scopes, tx, e, terminal)
    BY <1>1
  <2>2. PICK p \in Props :
          \E value \in {Null, Value}, target \in {None} \cup Targets(scopes, e, p) :
            r = AssertionRow(scopes, tx, e, p, value, terminal, target)
    BY <2>1 DEF Claims
  <2> QED BY <2>2 DEF AssertionRow
<1> QED BY <1>1, <1>2 DEF Asserts, At

LEMMA DeletionAsserts ==
  ASSUME NEW scopes, NEW tx, NEW e, NEW terminal
  PROVE  Asserts(Withdrawals(scopes, tx, e, terminal), scopes, tx, e)
<1>1. \A r \in Withdrawals(scopes, tx, e, terminal) :
        \E p \in Props : r = AssertionRow(scopes, tx, e, p, Null, terminal, None)
  BY DEF Withdrawals
<1> QED BY <1>1 DEF Asserts, At, AssertionRow

\* What write_entity writes, for a record and assertions.
Written(scopes, tx, e, D, A) ==
  [entities |-> D, assertions |-> A,
   embeddings |-> {EmbeddingRow(scopes, tx, e, TRUE, EmbedText(scopes, e, A))},
   changes |-> {Change(IF IsNew(scopes, e) THEN "created" ELSE "updated", e, A)}]

LEMMA Writes ==
  ASSUME NEW scopes, NEW tx, NEW e, NEW op \in Write(scopes, tx, e)
  PROVE  \E D \in Descriptions(scopes, tx, e), A \in Assertions(scopes, tx, e) :
           op = Written(scopes, tx, e, D, A)
<1>1. Write(scopes, tx, e) =
        {Written(scopes, tx, e, D, A) :
           D \in Descriptions(scopes, tx, e), A \in Assertions(scopes, tx, e)}
  BY DEF Write, Written
<1> QED BY <1>1

\* What one operation on an entity writes.
LEMMA OperationRows ==
  ASSUME NEW scopes, NEW tx, NEW e, NEW op \in EntityOperations(scopes, tx, e)
  PROVE  /\ At(op.entities, Branch(scopes), tx) /\ \A r \in op.entities : r.entity = e
         /\ Asserts(op.assertions, scopes, tx, e)
         /\ At(op.embeddings, Branch(scopes), tx) /\ \A r \in op.embeddings : r.entity = e
         /\ \A r, s \in op.entities : r = s
         /\ \A r, s \in op.embeddings : r = s
<1>1. CASE op \in Write(scopes, tx, e)
  <2>1. PICK D \in Descriptions(scopes, tx, e), A \in Assertions(scopes, tx, e) :
          op = Written(scopes, tx, e, D, A)
    BY <1>1, Writes
  <2>2. Asserts(A, scopes, tx, e)
    BY WriteAsserts
  <2>3. At(D, Branch(scopes), tx) /\ (\A r \in D : r.entity = e) /\ \A r, s \in D : r = s
    <3>1. D = {EntityRow(scopes, tx, e, FALSE)} \/ D = {}
      BY DEF Descriptions
    <3>2. LET x == EntityRow(scopes, tx, e, FALSE)
          IN  x.branch = Branch(scopes) /\ x.tx = tx /\ x.entity = e
      BY DEF EntityRow
    <3>3. CASE D = {}
      BY <3>3 DEF At
    <3>4. CASE D = {EntityRow(scopes, tx, e, FALSE)}
      BY <3>2, <3>4 DEF At
    <3> QED BY <3>1, <3>3, <3>4
  <2>4. LET r == EmbeddingRow(scopes, tx, e, TRUE, EmbedText(scopes, e, A))
        IN  r.branch = Branch(scopes) /\ r.tx = tx /\ r.entity = e
    BY DEF EmbeddingRow
  <2>5. /\ op.entities = D /\ op.assertions = A
        /\ op.embeddings = {EmbeddingRow(scopes, tx, e, TRUE, EmbedText(scopes, e, A))}
    BY <2>1 DEF Written
  <2> QED BY <2>2, <2>3, <2>4, <2>5 DEF At
<1>2. CASE op \in Delete(scopes, tx, e)
  <2>1. op = Deletion(scopes, tx, e, Withdrawals(scopes, tx, e, TRUE))
    BY <1>2 DEF Delete
  <2>2. /\ op.entities = {EntityRow(scopes, tx, e, TRUE)}
        /\ op.assertions = Withdrawals(scopes, tx, e, TRUE)
        /\ op.embeddings = {EmbeddingRow(scopes, tx, e, FALSE, {})}
    BY <2>1 DEF Deletion
  <2>3. Asserts(Withdrawals(scopes, tx, e, TRUE), scopes, tx, e)
    BY DeletionAsserts
  <2>4. LET r == EntityRow(scopes, tx, e, TRUE)
        IN  r.branch = Branch(scopes) /\ r.tx = tx /\ r.entity = e
    BY DEF EntityRow
  <2>5. LET r == EmbeddingRow(scopes, tx, e, FALSE, {})
        IN  r.branch = Branch(scopes) /\ r.tx = tx /\ r.entity = e
    BY DEF EmbeddingRow
  <2> QED BY <2>2, <2>3, <2>4, <2>5 DEF At
<1>3. CASE op = [entities |-> {}, assertions |-> {}, embeddings |-> {}, changes |-> {}]
  BY <1>3 DEF At, Asserts
<1> QED BY <1>1, <1>2, <1>3 DEF EntityOperations

\* What one operation on a managed item writes.
LEMMA ManagedRows ==
  ASSUME NEW scopes, NEW tx, NEW m, NEW op \in ManagedOperations(scopes, tx, m)
  PROVE  At(op.managed, Branch(scopes), tx)
<1>1. CASE op \in CreateManaged(scopes, tx, m)
  <2>1. PICK state \in States, F \in SUBSET Fields :
          op = [managed |-> {ManagedRow(scopes, tx, m, state, F)},
                changes |-> {[kind |-> "created", item |-> m]}]
    BY <1>1 DEF CreateManaged
  <2> QED BY <2>1 DEF At, ManagedRow
<1>2. CASE op \in UpdateManaged(scopes, tx, m)
  <2> DEFINE Updated(old, state, removed, set) ==
               [managed |-> {ManagedRow(scopes, tx, m, state,
                                        (old.fields \ removed) \cup set)},
                changes |-> {[kind |-> "updated", item |-> m]}]
  <2>1. UpdateManaged(scopes, tx, m) =
          UNION {{Updated(old, state, removed, set) :
                    state \in {old.state} \cup States,
                    removed \in SUBSET Fields, set \in SUBSET Fields} :
                 old \in GetLatest(ItemRows(m), scopes)}
    BY DEF UpdateManaged
  <2>2. \A old, state, removed, set :
          At(Updated(old, state, removed, set).managed, Branch(scopes), tx)
    BY DEF At, ManagedRow
  <2> HIDE DEF Updated
  <2>3. \E old, state, removed, set : op = Updated(old, state, removed, set)
    BY <1>2, <2>1
  <2> QED BY <2>2, <2>3
<1>3. CASE op = [managed |-> {}, changes |-> {}]
  BY <1>3 DEF At
<1> QED BY <1>1, <1>2, <1>3 DEF ManagedOperations

\* The operations of a transaction, one for every entity and item.
Performs(op, item, scopes) ==
  /\ \A e \in Entities : op[e] \in EntityOperations(scopes, NextTx, e)
  /\ \A m \in Items : item[m] \in ManagedOperations(scopes, NextTx, m)
  /\ entities' = entities \cup UNION {op[e].entities : e \in Entities}
  /\ assertions' = assertions \cup UNION {op[e].assertions : e \in Entities}
  /\ embeddings' = embeddings \cup UNION {op[e].embeddings : e \in Entities}
  /\ managed' = managed \cup UNION {item[m].managed : m \in Items}

LEMMA CommitPerforms ==
  ASSUME NEW scopes, Commits(scopes)
  PROVE  \E op, item : Performs(op, item, scopes)
<1> DEFINE ops == OneOfEach([e \in Entities |-> EntityOperations(scopes, NextTx, e)])
           items == OneOfEach([m \in Items |-> ManagedOperations(scopes, NextTx, m)])
<1>1. PICK op \in ops, item \in items :
        /\ entities' = entities \cup UNION {op[e].entities : e \in Entities}
        /\ assertions' = assertions \cup UNION {op[e].assertions : e \in Entities}
        /\ embeddings' = embeddings \cup UNION {op[e].embeddings : e \in Entities}
        /\ managed' = managed \cup UNION {item[m].managed : m \in Items}
  BY Zenon DEF Commits, Execute
<1>2. \A e \in Entities : op[e] \in EntityOperations(scopes, NextTx, e)
  BY DEF OneOfEach
<1>3. \A m \in Items : item[m] \in ManagedOperations(scopes, NextTx, m)
  BY DEF OneOfEach
<1>4. Performs(op, item, scopes)
  BY <1>1, <1>2, <1>3 DEF Performs
<1> QED BY <1>4

\* Rows are only added, and all belong to the transaction.
Adds(new, old, b, tx) == old \subseteq new /\ At(new \ old, b, tx)

LEMMA CommitAdds ==
  ASSUME NEW scopes, Commits(scopes)
  PROVE  /\ Adds(entities', entities, Branch(scopes), NextTx)
         /\ Adds(assertions', assertions, Branch(scopes), NextTx)
         /\ Adds(embeddings', embeddings, Branch(scopes), NextTx)
         /\ Adds(managed', managed, Branch(scopes), NextTx)
<1>1. PICK op, item : Performs(op, item, scopes)
  BY CommitPerforms
<1>2. \A e \in Entities : /\ At(op[e].entities, Branch(scopes), NextTx)
                          /\ At(op[e].assertions, Branch(scopes), NextTx)
                          /\ At(op[e].embeddings, Branch(scopes), NextTx)
  BY <1>1, OperationRows DEF Performs, Asserts
<1>3. \A m \in Items : At(item[m].managed, Branch(scopes), NextTx)
  BY <1>1, ManagedRows DEF Performs
<1>4. Adds(entities', entities, Branch(scopes), NextTx)
  BY <1>1, <1>2 DEF Performs, Adds, At
<1>5. Adds(assertions', assertions, Branch(scopes), NextTx)
  BY <1>1, <1>2 DEF Performs, Adds, At
<1>6. Adds(embeddings', embeddings, Branch(scopes), NextTx)
  BY <1>1, <1>2 DEF Performs, Adds, At
<1>7. Adds(managed', managed, Branch(scopes), NextTx)
  BY <1>1, <1>3 DEF Performs, Adds, At
<1> QED BY <1>4, <1>5, <1>6, <1>7

-----------------------------------------------------------------------------
(***************************************************************************)
(* What a step leaves of a view.                                           *)
(***************************************************************************)
\* The ancestry of a branch is fixed when it is opened.
LEMMA AncestryStays ==
  ASSUME IdsInv, BranchInv, BranchInv', NEW scopes, Commits(scopes)
  PROVE  \A b \in Opened : Ancestry(b)' = Ancestry(b)
<1> DEFINE S == {b \in Opened : Ancestry(b)' = Ancestry(b)}
<1>1. AncestryWalks
  BY AncestrySteps
<1>2. AncestryWalks'
  BY BranchInv', AncestrySteps, PTL
<1>3. \A s \in DOMAIN branches : s \in DOMAIN branches' /\ branches'[s] = branches[s]
  BY OpenedStay
<1>4. Main \in S
  BY <1>1, <1>2 DEF Opened, AncestryWalks
<1>5. \A s \in DOMAIN branches : branches[s].parent \in S => s \in S
  <2> SUFFICES ASSUME NEW s \in DOMAIN branches, branches[s].parent \in S
               PROVE  s \in S
    OBVIOUS
  <2>1. PICK p \in Opened : p = branches[s].parent
    OBVIOUS
  <2>6. p \in Opened' /\ p = branches'[s].parent
    BY <1>3, <2>1, OpenedStay
  <2>2. Ancestry(p)' = Ancestry(p)
    BY <2>1
  <2>3. Point(s)' = Point(s)
    BY <1>3 DEF Point
  <2>4. Ancestry(s)' = <<Point(s)'>> \o Ancestry(p)'
    BY <1>2, <1>3, <2>6 DEF AncestryWalks
  <2>7. Ancestry(s) = <<Point(s)>> \o Ancestry(p)
    BY <1>1, <2>1 DEF AncestryWalks
  <2>5. Ancestry(s)' = Ancestry(s)
    BY <2>7, <2>2, <2>3, <2>4
  <2> QED BY <2>5 DEF Opened
<1>6. Opened \subseteq S
  <2> HIDE DEF S
  <2> QED BY <1>4, <1>5, BranchInduction
<1> QED BY <1>6

\* The newest rows are the same where the scopes have the same rows.
LEMMA LatestStays ==
  ASSUME NEW R, NEW Q, NEW x, NEW y, Len(x) = Len(y),
         \A i \in 1 .. Len(x) :
           {r \in Q : InScope(y[i], r)} = {r \in R : InScope(x[i], r)}
  PROVE  GetLatest(Q, y) = GetLatest(R, x)
<1> DEFINE F(S, s, i) == {r \in S : InScope(s[i], r)}
           First(S, s) == {i \in 1 .. Len(s) : /\ F(S, s, i) # {}
                                               /\ \A j \in 1 .. i - 1 : F(S, s, j) = {}}
<1>1. \A i \in 1 .. Len(x) : F(Q, y, i) = F(R, x, i)
  OBVIOUS
<1>2. \A i \in 1 .. Len(x) : \A j \in 1 .. i - 1 : j \in 1 .. Len(x)
  OBVIOUS
<1>3. GetLatest(Q, y) = {Latest(F(Q, y, i)) : i \in First(Q, y)}
      /\ GetLatest(R, x) = {Latest(F(R, x, i)) : i \in First(R, x)}
  BY DEF GetLatest
<1> HIDE DEF F
<1>4. First(Q, y) = First(R, x)
  BY <1>1, <1>2
<1>5. \A i \in First(Q, y) : Latest(F(Q, y, i)) = Latest(F(R, x, i))
  BY <1>1
<1> HIDE DEF First
<1> QED BY <1>3, <1>4, <1>5

\* No row a step adds is in a scope.
Sees(scopes, b, tx) == \E i \in 1 .. Len(scopes) : InScope(scopes[i], [branch |-> b, tx |-> tx])

LEMMA ViewStays ==
  ASSUME NEW at, Commits(at), NEW scopes, ~Sees(scopes, Branch(at), NextTx)
  PROVE  View(scopes)' = View(scopes)
<1> DEFINE b == Branch(at)
           n == NextTx
<1>1. /\ Adds(entities', entities, b, n) /\ Adds(assertions', assertions, b, n)
      /\ Adds(managed', managed, b, n)
  BY CommitAdds
<1>2. \A i \in 1 .. Len(scopes) : ~(b = scopes[i].branch /\ n =< scopes[i].upper)
  BY DEF Sees, InScope
<1> HIDE DEF b, n
<1>3. \A new, old, i : Adds(new, old, b, n) /\ i \in 1 .. Len(scopes)
        => \A r \in new : InScope(scopes[i], r) => r \in old
  BY <1>2 DEF Adds, At, InScope
<1>4. \A i \in 1 .. Len(scopes) :
        /\ \A r \in entities' : InScope(scopes[i], r) => r \in entities
        /\ \A r \in assertions' : InScope(scopes[i], r) => r \in assertions
        /\ \A r \in managed' : InScope(scopes[i], r) => r \in managed
  BY <1>1, <1>3
<1>5. \A e \in Entities : GetLatest(EntityRows(e), scopes)' = GetLatest(EntityRows(e), scopes)
  <2> TAKE e \in Entities
  <2>1. \A i \in 1 .. Len(scopes) :
          {r \in EntityRows(e)' : InScope(scopes[i], r)} =
          {r \in EntityRows(e) : InScope(scopes[i], r)}
    BY <1>1, <1>4 DEF EntityRows, Adds
  <2>2. PICK Q : Q = EntityRows(e)'
    OBVIOUS
  <2>3. GetLatest(Q, scopes) = GetLatest(EntityRows(e), scopes)
    BY <2>1, <2>2, LatestStays
  <2>4. GetLatest(EntityRows(e), scopes)' = GetLatest(Q, scopes)
    BY <2>2 DEF GetLatest, EntityRows, Latest, InScope
  <2> QED BY <2>3, <2>4
<1>6. \A m \in Items : GetLatest(ItemRows(m), scopes)' = GetLatest(ItemRows(m), scopes)
  <2> TAKE m \in Items
  <2>1. \A i \in 1 .. Len(scopes) :
          {r \in ItemRows(m)' : InScope(scopes[i], r)} =
          {r \in ItemRows(m) : InScope(scopes[i], r)}
    BY <1>1, <1>4 DEF ItemRows, Adds
  <2>2. PICK Q : Q = ItemRows(m)'
    OBVIOUS
  <2>3. GetLatest(Q, scopes) = GetLatest(ItemRows(m), scopes)
    BY <2>1, <2>2, LatestStays
  <2>4. GetLatest(ItemRows(m), scopes)' = GetLatest(Q, scopes)
    BY <2>2 DEF GetLatest, ItemRows, Latest, InScope
  <2> QED BY <2>3, <2>4
<1>7. \A e \in Entities, p \in Props : Stream(scopes, e, p)' = Stream(scopes, e, p)
  BY <1>1, <1>4 DEF Stream, Adds
<1>8. [e \in Entities |-> GetLatest(EntityRows(e), scopes)]' =
        [e \in Entities |-> GetLatest(EntityRows(e), scopes)]
  BY <1>5
<1>9. [m \in Items |-> GetLatest(ItemRows(m), scopes)]' =
        [m \in Items |-> GetLatest(ItemRows(m), scopes)]
  BY <1>6
<1>10. [e \in Entities |-> [p \in Props |-> Stream(scopes, e, p)]]' =
         [e \in Entities |-> [p \in Props |-> Stream(scopes, e, p)]]
  BY <1>7
<1> QED BY <1>8, <1>9, <1>10 DEF View

\* The scopes of a branch: its own, then its ancestors', up to transactions
\* that are committed.
LEMMA ScopesOf ==
  ASSUME IdsInv, BranchInv, NEW b \in Opened, NEW at
  PROVE  LET scopes == ScopesAt(b, at)
         IN  /\ Len(scopes) \in Nat \ {0}
             /\ scopes[1] = [branch |-> b, upper |-> at]
             /\ \A i \in 2 .. Len(scopes) :
                  /\ scopes[i].branch \in Opened
                  /\ scopes[i].upper \in 1 .. Cardinality(transactions)
<1> DEFINE T == [branch : Opened, upper : 1 .. Cardinality(transactions)]
           q == Ancestry(b)
           x == [branch |-> b, upper |-> at]
<1>1. q \in Seq(T)
  BY PathOfAncestry DEF AncestryIsPath
<1>2. \A t \in T : t.branch \in Opened /\ t.upper \in 1 .. Cardinality(transactions)
  OBVIOUS
<1>3. ScopesAt(b, at) = <<x>> \o q
  BY DEF ScopesAt
<1> HIDE DEF T, q, x
<1>4. /\ Len(<<x>> \o q) \in Nat \ {0} /\ (<<x>> \o q)[1] = x
      /\ \A i \in 2 .. Len(<<x>> \o q) : (<<x>> \o q)[i] \in T
  BY <1>1
<1> QED BY <1>2, <1>3, <1>4 DEF x

LEMMA ScopesStay ==
  ASSUME IdsInv, BranchInv, BranchInv', NEW at, Commits(at), NEW b \in Opened, NEW tx
  PROVE  ScopesAt(b, tx)' = ScopesAt(b, tx)
BY AncestryStays DEF ScopesAt

\* What a reader saw at a committed transaction it sees after the next one too.
LEMMA PinnedViewStays ==
  ASSUME IdsInv, BranchInv, BranchInv', NEW at, Commits(at),
         NEW b \in Opened, NEW t \in transactions
  PROVE  \A scopes : scopes = ScopesAt(b, t.tx)
           => scopes = ScopesAt(b, t.tx)' /\ View(scopes)' = View(scopes)
<1> SUFFICES ASSUME NEW scopes, scopes = ScopesAt(b, t.tx)
             PROVE  scopes = ScopesAt(b, t.tx)' /\ View(scopes)' = View(scopes)
  OBVIOUS
<1>1. scopes = ScopesAt(b, t.tx)'
  BY ScopesStay
<1>2. /\ NextTx = Cardinality(transactions) + 1 /\ Cardinality(transactions) \in Nat
      /\ t.tx \in 1 .. Cardinality(transactions)
  BY CommitAddsOne
<1>3. /\ scopes[1] = [branch |-> b, upper |-> t.tx] /\ Len(scopes) \in Nat
      /\ \A i \in 2 .. Len(scopes) : scopes[i].upper \in 1 .. Cardinality(transactions)
  BY ScopesOf
<1>4. ASSUME NEW i \in 1 .. Len(scopes)
      PROVE  ~(NextTx =< scopes[i].upper)
  <2>1. CASE i = 1
    BY <1>2, <1>3, <2>1
  <2>2. CASE i # 1
    <3>1. i \in 2 .. Len(scopes)
      BY <1>3, <2>2
    <3> QED BY <1>2, <1>3, <3>1
  <2> QED BY <2>1, <2>2
<1>5. ~Sees(scopes, Branch(at), NextTx)
  BY <1>4 DEF Sees, InScope
<1> QED BY <1>1, <1>5, ViewStays

\* A transaction of another branch leaves what the branch shows.
LEMMA OtherViewStays ==
  ASSUME IdsInv, BranchInv, BranchInv', NEW at, Commits(at),
         NEW b \in Opened, Branch(at) # b
  PROVE  \A scopes : scopes = Scopes(b)
           => scopes = Scopes(b)' /\ View(scopes)' = View(scopes)
<1> SUFFICES ASSUME NEW scopes, scopes = Scopes(b)
             PROVE  scopes = Scopes(b)' /\ View(scopes)' = View(scopes)
  OBVIOUS
<1>0. scopes = ScopesAt(b, MaxTx)
  BY DEF Scopes
<1>1. scopes = Scopes(b)'
  BY <1>0, ScopesStay DEF Scopes
<1>2. NextTx = Cardinality(transactions) + 1 /\ Cardinality(transactions) \in Nat
  BY CommitAddsOne
<1>3. /\ scopes[1] = [branch |-> b, upper |-> MaxTx] /\ Len(scopes) \in Nat
      /\ \A i \in 2 .. Len(scopes) : scopes[i].upper \in 1 .. Cardinality(transactions)
  BY <1>0, ScopesOf
<1>4. ASSUME NEW i \in 1 .. Len(scopes)
      PROVE  ~(Branch(at) = scopes[i].branch /\ NextTx =< scopes[i].upper)
  <2>1. CASE i = 1
    BY <1>3, <2>1
  <2>2. CASE i # 1
    <3>1. i \in 2 .. Len(scopes)
      BY <1>3, <2>2
    <3> QED BY <1>2, <1>3, <3>1
  <2> QED BY <2>1, <2>2
<1>5. ~Sees(scopes, Branch(at), NextTx)
  BY <1>4 DEF Sees, InScope
<1> QED BY <1>1, <1>5, ViewStays

-----------------------------------------------------------------------------
(***************************************************************************)
(* The invariant of transactions and branches, and what follows from it.   *)
(***************************************************************************)
TreeInv == IdsInv /\ BranchInv

LEMMA TreeInvInit ==
  ASSUME Init
  PROVE  TreeInv
<1>1. IdsInv
  <2>1. IsFiniteSet(transactions) /\ Cardinality(transactions) = 0
    BY FS_EmptySet DEF Init
  <2> QED BY <2>1, TerraAssumption DEF IdsInv, Init
<1>2. Opened = {Main} /\ DOMAIN branches = {}
  BY DEF Init, Opened
<1>3. IsDepth([s \in {Main} |-> 0])
  BY <1>2, TerraAssumption DEF IsDepth
<1>4. BranchInv
  BY <1>2, <1>3 DEF BranchInv
<1> QED BY <1>1, <1>4 DEF TreeInv

LEMMA TreeInvNext ==
  ASSUME TreeInv, [Next]_vars
  PROVE  TreeInv'
<1>1. CASE Next
  <2>1. PICK scopes : Commits(scopes)
    BY <1>1, StepsCommit DEF TreeInv
  <2> QED BY <2>1, CommitsKeepIds, CommitsKeepBranches DEF TreeInv
<1>2. CASE UNCHANGED vars
  <2>1. IdsInv'
    BY <1>2 DEF vars, TreeInv, IdsInv, Opened, Key
  <2>2. \A d : IsDepth(d) => IsDepth(d)'
    BY <1>2 DEF vars, IsDepth, Opened
  <2>3. BranchInv'
    BY <1>2, <2>2 DEF vars, TreeInv, BranchInv, Opened
  <2> QED BY <2>1, <2>3 DEF TreeInv
<1> QED BY <1>1, <1>2

\* compute_ancestry finds every ancestor of an open branch, down to the main
\* one: checkout refuses a branch that is deeper than the walk looks.
THEOREM AncestryAlwaysReachesMain == Spec => []AncestryReachesMain
<1>1. TreeInv => AncestryReachesMain
  BY PathsReachMain DEF TreeInv
<1> QED BY <1>1, TreeInvInit, TreeInvNext, PTL DEF Spec

\* A reader at a committed transaction sees the same records, items and
\* assertions for ever, whatever is committed later on any branch.
THEOREM PinnedViewsStayStable == Spec => PinnedViewsAreStable
<1> DEFINE Step ==
             \A b \in Opened : \A t \in transactions :
               \A old \in {ScopesAt(b, t.tx)}, new \in {ScopesAt(b, t.tx)'} :
                 View(new)' = View(old)
<1>1. ASSUME TreeInv, TreeInv', Next
      PROVE  Step
  <2>1. PICK at : Commits(at)
    BY <1>1, StepsCommit DEF TreeInv
  <2>2. ASSUME NEW b \in Opened, NEW t \in transactions,
               NEW old \in {ScopesAt(b, t.tx)}, NEW new \in {ScopesAt(b, t.tx)'}
        PROVE  View(new)' = View(old)
    <3>1. old = ScopesAt(b, t.tx) /\ new = ScopesAt(b, t.tx)'
      OBVIOUS
    <3>2. old = ScopesAt(b, t.tx)' /\ View(old)' = View(old)
      BY <1>1, <2>1, <3>1, PinnedViewStays DEF TreeInv
    <3>3. new = old
      BY <3>1, <3>2
    <3> QED BY <3>2, <3>3
  <2> QED BY <2>2
<1>2. TreeInv /\ TreeInv' /\ [Next]_vars => [Step]_vars
  BY <1>1
<1> HIDE DEF Step
<1> QED BY <1>2, TreeInvInit, TreeInvNext, PTL DEF Spec, PinnedViewsAreStable, Step

\* A transaction changes what its own branch shows, and no other: neither the
\* parent nor the branches made from it before, however deep.
THEOREM BranchesStayIsolated == Spec => BranchesAreIsolated
<1> DEFINE Step ==
             \A b \in Opened :
               (\A t \in transactions' \ transactions : t.branch # b)
                 => \A old \in {Scopes(b)}, new \in {Scopes(b)'} : View(new)' = View(old)
<1>1. ASSUME TreeInv, TreeInv', Next
      PROVE  Step
  <2>1. PICK at : Commits(at)
    BY <1>1, StepsCommit DEF TreeInv
  <2>2. ASSUME NEW b \in Opened, \A t \in transactions' \ transactions : t.branch # b,
               NEW old \in {Scopes(b)}, NEW new \in {Scopes(b)'}
        PROVE  View(new)' = View(old)
    <3>1. old = Scopes(b) /\ new = Scopes(b)'
      OBVIOUS
    <3>2. Branch(at) # b
      <4> DEFINE t == [branch |-> Branch(at), tx |-> NextTx]
      <4>1. /\ NextTx = Cardinality(transactions) + 1 /\ Cardinality(transactions) \in Nat
            /\ t \in transactions'
            /\ \A u \in transactions : u.tx \in 1 .. Cardinality(transactions)
        BY <1>1, <2>1, CommitAddsOne DEF TreeInv
      <4>2. t.tx = NextTx /\ t.branch = Branch(at)
        OBVIOUS
      <4> HIDE DEF t
      <4>3. t \notin transactions
        BY <4>1, <4>2
      <4> QED BY <2>2, <4>1, <4>2, <4>3
    <3>3. old = Scopes(b)' /\ View(old)' = View(old)
      BY <1>1, <2>1, <3>1, <3>2, OtherViewStays DEF TreeInv
    <3>4. new = old
      BY <3>1, <3>3
    <3> QED BY <3>3, <3>4
  <2> QED BY <2>2
<1>2. TreeInv /\ TreeInv' /\ [Next]_vars => [Step]_vars
  BY <1>1
<1> HIDE DEF Step
<1> QED BY <1>2, TreeInvInit, TreeInvNext, PTL DEF Spec, BranchesAreIsolated, Step

-----------------------------------------------------------------------------
(***************************************************************************)
(* The merge of a property's assertions.                                   *)
(***************************************************************************)
\* Assertions of one property: an assertion supersedes an older one or none.
Proper(rows) ==
  /\ IsFiniteSet(rows)
  /\ \A r \in rows : r.tx \in Nat \ {0} /\ r.supersedes \in Nat /\ r.supersedes < r.tx
  /\ \A r, s \in rows : r.tx = s.tx => r = s

\* Rows that their transactions tell apart.
Numbered(rows) ==
  /\ IsFiniteSet(rows)
  /\ \A r \in rows : r.tx \in Nat \ {0}
  /\ \A r, s \in rows : r.tx = s.tx => r = s

\* The newest row comes first.
LEMMA OrderOf ==
  ASSUME NEW rows, Numbered(rows)
  PROVE  /\ Len(NewestFirst(rows)) \in Nat
         /\ NewestFirst(rows) \in Seq(rows) /\ Len(NewestFirst(rows)) = Cardinality(rows)
         /\ \A i \in 1 .. Len(NewestFirst(rows)) : NewestFirst(rows)[i] \in rows
         /\ \A r \in rows : \E i \in 1 .. Len(NewestFirst(rows)) : NewestFirst(rows)[i] = r
         /\ \A i, j \in 1 .. Len(NewestFirst(rows)) :
              i < j => NewestFirst(rows)[j].tx < NewestFirst(rows)[i].tx
<1> DEFINE n == Cardinality(rows)
           Up(r) == {s \in rows : s.tx >= r.tx}
           rank == [r \in rows |-> Cardinality(Up(r))]
           order == NewestFirst(rows)
<1>1. n \in Nat
  BY FS_CardinalityType DEF Numbered
<1>2. ASSUME NEW r \in rows
      PROVE  IsFiniteSet(Up(r)) /\ rank[r] \in 1 .. n
  <2>1. IsFiniteSet(Up(r)) /\ Cardinality(Up(r)) =< n
    BY FS_Subset DEF Numbered
  <2>2. r \in Up(r)
    BY DEF Numbered
  <2>3. Cardinality(Up(r)) \in Nat /\ Cardinality(Up(r)) # 0
    BY <2>1, <2>2, FS_CardinalityType, FS_EmptySet
  <2> QED BY <2>1, <2>3, <1>1
<1>3. ASSUME NEW r \in rows, NEW s \in rows, s.tx < r.tx
      PROVE  rank[r] < rank[s]
  <2>1. Up(r) \subseteq Up(s) /\ s \in Up(s) /\ s \notin Up(r)
    BY <1>3 DEF Numbered
  <2>2. Cardinality(Up(r)) =< Cardinality(Up(s)) /\ Cardinality(Up(r)) # Cardinality(Up(s))
    <3>1. IsFiniteSet(Up(s))
      BY <1>2
    <3> HIDE DEF Up
    <3> QED BY <2>1, <3>1, FS_Subset
  <2>3. rank[r] \in Nat /\ rank[s] \in Nat
    <3> HIDE DEF rank, n
    <3>1. rank[r] \in 1 .. n /\ rank[s] \in 1 .. n
      BY <1>2
    <3> QED BY <1>1, <3>1
  <2> QED BY <2>2, <2>3
<1>4. rank \in [rows -> 1 .. n]
  BY <1>2
<1>5. rank \in Injection(rows, 1 .. n)
  <2>1. \A r, s \in rows : rank[r] = rank[s] => r = s
    <3> SUFFICES ASSUME NEW r \in rows, NEW s \in rows, rank[r] = rank[s]
                 PROVE  r = s
      OBVIOUS
    <3> HIDE DEF rank
    <3>1. ~(s.tx < r.tx) /\ ~(r.tx < s.tx)
      <4> HIDE DEF n
      <4>1. rank[r] \in 1 .. n /\ rank[s] \in 1 .. n
        BY <1>2
      <4> QED BY <1>1, <1>3, <4>1
    <3>2. s.tx = r.tx
      BY <3>1 DEF Numbered
    <3> QED BY <3>2 DEF Numbered
  <2> HIDE DEF rank
  <2> QED BY <1>4, <2>1, Fun_IsInj
<1>6. rank \in Surjection(rows, 1 .. n)
  <2>1. IsFiniteSet(1 .. n) /\ Cardinality(1 .. n) = n
    BY <1>1, FS_Interval
  <2> HIDE DEF rank
  <2> QED BY <1>5, <2>1, FS_Injection
<1>7. \A i \in 1 .. n : \E r \in rows : rank[r] = i
  <2> HIDE DEF rank
  <2> QED BY <1>6, Fun_SurjectionProperties
<1>8. order = [i \in 1 .. n |-> CHOOSE r \in rows : Cardinality(Up(r)) = i]
  BY DEF NewestFirst
<1>9. \A i \in 1 .. n : order[i] \in rows /\ rank[order[i]] = i
  <2> SUFFICES ASSUME NEW i \in 1 .. n
               PROVE  order[i] \in rows /\ rank[order[i]] = i
    OBVIOUS
  <2>1. \E r \in rows : Cardinality(Up(r)) = i
    BY <1>7
  <2>2. order[i] = CHOOSE r \in rows : Cardinality(Up(r)) = i
    BY <1>8
  <2> HIDE DEF order, Up
  <2>3. order[i] \in rows /\ Cardinality(Up(order[i])) = i
    BY <2>1, <2>2
  <2> QED BY <2>3
<1>10. order \in Seq(rows) /\ Len(order) = n
  <2>1. order \in [1 .. n -> rows]
    <3> HIDE DEF order, Up
    <3>1. order = [i \in 1 .. n |-> order[i]]
      BY <1>8
    <3> QED BY <3>1, <1>9
  <2> HIDE DEF order
  <2> QED BY <1>1, <2>1
<1> HIDE DEF order, rank, n, Up
<1>11. \A r \in rows : \E i \in 1 .. n : order[i] = r
  <2> TAKE r \in rows
  <2>1. rank[r] \in 1 .. n
    BY <1>2
  <2>2. order[rank[r]] \in rows /\ rank[order[rank[r]]] = rank[r]
    BY <1>9, <2>1
  <2>3. order[rank[r]] = r
    BY <2>2, <1>5, Fun_IsInj DEF Injection, IsInjective
  <2> QED BY <2>1, <2>3
<1>12. \A i, j \in 1 .. n : i < j => order[j].tx < order[i].tx
  <2> SUFFICES ASSUME NEW i \in 1 .. n, NEW j \in 1 .. n, i < j
               PROVE  order[j].tx < order[i].tx
    OBVIOUS
  <2>1. /\ order[i] \in rows /\ order[j] \in rows
        /\ rank[order[i]] = i /\ rank[order[j]] = j
    BY <1>9
  <2>2. ~(order[i].tx < order[j].tx)
    BY <1>3, <2>1
  <2>3. order[i].tx # order[j].tx
    BY <2>1 DEF Numbered
  <2>4. order[i].tx \in Nat /\ order[j].tx \in Nat
    BY <2>1 DEF Numbered
  <2> QED BY <2>2, <2>3, <2>4
<1> QED BY <1>1, <1>9, <1>10, <1>11, <1>12 DEF order, n

\* The walk of the merge, after each of the rows.
IsWalk(after, order) ==
  after = [n \in 0 .. Len(order) |->
             IF n = 0 THEN [replaced |-> {}, cut |-> FALSE, shown |-> {}]
             ELSE Look(after[n - 1], order[n])]

LEMMA WalkExists ==
  ASSUME NEW order, Len(order) \in Nat
  PROVE  \E after : IsWalk(after, order)
<1> DEFINE start == [replaced |-> {}, cut |-> FALSE, shown |-> {}]
           len == Len(order)
           Upto(m, g) == /\ g = [n \in 0 .. m |-> g[n]]
                         /\ g[0] = start
                         /\ \A n \in 1 .. m : g[n] = Look(g[n - 1], order[n])
           Bad == {m \in Nat : ~ \E g : Upto(m, g)}
<1> HIDE DEF start
<1>1. Bad = {}
  <2> SUFFICES ASSUME Bad # {}
               PROVE  FALSE
    OBVIOUS
  <2>1. PICK m \in Bad : \A n \in Bad : m =< n
    <3> HIDE DEF Bad
    <3>1. Bad \in SUBSET Nat
      BY DEF Bad
    <3> QED BY <3>1, LeastNumber
  <2>2. m # 0
    <3>1. Upto(0, [n \in 0 .. 0 |-> start])
      OBVIOUS
    <3>2. 0 \notin Bad
      BY <3>1
    <3> QED BY <2>1, <3>2
  <2>3. m \in Nat /\ m - 1 \in Nat /\ ~(m =< m - 1)
    BY <2>1, <2>2
  <2>4. PICK h : Upto(m - 1, h)
    BY <2>1, <2>3
  <2> DEFINE g == [n \in 0 .. m |-> IF n = m THEN Look(h[m - 1], order[m]) ELSE h[n]]
  <2>5. Upto(m, g)
    <3>1. g = [n \in 0 .. m |-> g[n]] /\ g[0] = h[0]
      BY <2>2, <2>3
    <3>2. g[m] = Look(h[m - 1], order[m]) /\ g[m - 1] = h[m - 1]
      BY <2>3
    <3>3. \A n \in 1 .. m - 1 : g[n] = h[n] /\ g[n - 1] = h[n - 1]
      BY <2>3
    <3> HIDE DEF g
    <3>4. \A n \in 1 .. m : g[n] = Look(g[n - 1], order[n])
      <4> TAKE n \in 1 .. m
      <4>1. CASE n = m
        BY <4>1, <3>2
      <4>2. CASE n # m
        <5>1. n \in 1 .. m - 1
          BY <4>2, <2>3
        <5> QED BY <5>1, <3>3, <2>4
      <4> QED BY <4>1, <4>2
    <3> QED BY <3>1, <3>4, <2>4
  <2> QED BY <2>1, <2>5
<1>2. PICK g : Upto(len, g)
  BY <1>1
<1> HIDE DEF Bad
<1> DEFINE Body(n) == IF n = 0 THEN start ELSE Look(g[n - 1], order[n])
<1>3. \A n \in 0 .. len : g[n] = Body(n)
  <2> TAKE n \in 0 .. len
  <2>1. CASE n = 0
    BY <1>2, <2>1
  <2>2. CASE n # 0
    <3>1. n \in 1 .. len
      BY <2>2
    <3> QED BY <1>2, <2>2, <3>1
  <2> QED BY <2>1, <2>2
<1>4. g = [n \in 0 .. len |-> g[n]]
  BY <1>2
<1>5. [n \in 0 .. len |-> g[n]] = [n \in 0 .. len |-> Body(n)]
  <2> HIDE DEF Body
  <2> QED BY <1>3
<1>6. g = [n \in 0 .. len |-> Body(n)]
  BY <1>4, <1>5, Zenon
<1> QED BY <1>6 DEF IsWalk, start

LEMMA WalkStep ==
  ASSUME NEW order, Len(order) \in Nat, NEW after, IsWalk(after, order)
  PROVE  /\ after[0] = [replaced |-> {}, cut |-> FALSE, shown |-> {}]
         /\ \A n \in 1 .. Len(order) : after[n] = Look(after[n - 1], order[n])
<1> DEFINE start == [replaced |-> {}, cut |-> FALSE, shown |-> {}]
           len == Len(order)
           Body(n) == IF n = 0 THEN start ELSE Look(after[n - 1], order[n])
<1>1. after = [n \in 0 .. len |-> Body(n)]
  BY Zenon DEF IsWalk
<1>2. \A n \in 0 .. len : after[n] = Body(n)
  <2> HIDE DEF Body, len
  <2> QED BY <1>1
<1>3. 0 \in 0 .. len /\ \A n \in 1 .. len : n \in 0 .. len /\ n # 0
  OBVIOUS
<1> HIDE DEF start, len
<1> QED BY <1>2, <1>3, Zenon DEF start, len

\* The assertions that end the walk.
Ends(rows) == {r \in rows : Terminal(r) /\ (HasStatuses => ~Withdrawn(rows, r))}

\* The assertions that are shown.
Kept(rows) ==
  {r \in rows : /\ r.value # Null /\ ~Withdrawn(rows, r)
                /\ \A s \in Ends(rows) : s.tx =< r.tx}

\* The walk when it has passed the assertions F.
Passed(rows, F, seen) ==
  /\ seen.shown = F \cap Kept(rows)
  /\ seen.cut <=> \E s \in F : s \in Ends(rows)
  /\ ~seen.cut => seen.replaced = {s.supersedes : s \in F}

Newer(rows, r) == {s \in rows : r.tx < s.tx}

\* One step of the walk.
LEMMA LookKeeps ==
  ASSUME NEW rows, Proper(rows), NEW r \in rows, NEW seen, NEW next,
         Passed(rows, Newer(rows, r), seen), next = Look(seen, r)
  PROVE  Passed(rows, Newer(rows, r) \cup {r}, next)
<1> DEFINE F == Newer(rows, r)
<1>0. /\ F \in SUBSET rows /\ \A s \in rows : s \in F <=> r.tx < s.tx
      /\ seen.shown = F \cap Kept(rows)
      /\ seen.cut <=> \E s \in F : s \in Ends(rows)
      /\ ~seen.cut => seen.replaced = {s.supersedes : s \in F}
  BY DEF Newer, Passed
<1> HIDE DEF F
<1>1. CASE seen.cut
  <2>1. next = seen
    BY <1>1 DEF Look
  <2>2. PICK s \in F : s \in Ends(rows)
    BY <1>0, <1>1
  <2>3. ~(s.tx =< r.tx)
    <3>1. r.tx \in Nat /\ s.tx \in Nat /\ r.tx < s.tx
      BY <1>0, <2>2 DEF Proper
    <3> QED BY <3>1
  <2>4. r \notin Kept(rows)
    BY <2>2, <2>3 DEF Kept
  <2> QED BY <1>0, <1>1, <2>1, <2>2, <2>4 DEF Passed, F
<1>2. CASE ~seen.cut
  <2> DEFINE replaced == seen.replaced \cup {r.supersedes}
             hidden == r.tx \in replaced
             cut == Terminal(r) /\ (hidden => ~HasStatuses)
  <2>1. next = [replaced |-> replaced,
                cut |-> cut,
                shown |-> IF hidden \/ r.value = Null THEN seen.shown
                          ELSE seen.shown \cup {r}]
    BY <1>2 DEF Look
  <2>2. replaced = {s.supersedes : s \in F \cup {r}}
    BY <1>0, <1>2
  <2>3. hidden <=> Withdrawn(rows, r)
    <3>1. ASSUME hidden PROVE Withdrawn(rows, r)
      <4>1. PICK s \in F \cup {r} : s.supersedes = r.tx
        BY <2>2, <3>1
      <4>2. s # r
        BY <1>0, <4>1 DEF Proper
      <4>3. s \in rows /\ r.tx < s.tx /\ r.tx \in Nat /\ s.tx \in Nat
        BY <1>0, <4>1, <4>2 DEF Proper
      <4> QED BY <4>1, <4>3 DEF Withdrawn
    <3>2. ASSUME Withdrawn(rows, r) PROVE hidden
      <4>1. PICK s \in rows : s.supersedes = r.tx /\ s.tx > r.tx
        BY <3>2 DEF Withdrawn
      <4>2. s \in F
        BY <1>0, <4>1 DEF Proper
      <4> HIDE DEF replaced
      <4> QED BY <2>2, <4>1, <4>2
    <3> QED BY <3>1, <3>2
  <2> HIDE DEF replaced, cut
  <2>10. /\ next.replaced = replaced
         /\ next.shown = IF hidden \/ r.value = Null THEN seen.shown
                         ELSE seen.shown \cup {r}
    BY <2>1
  <2>4. next.cut <=> (Terminal(r) /\ (hidden => ~HasStatuses))
    <3>1. next.cut = cut
      <4> HIDE DEF hidden
      <4> QED BY <2>1
    <3> QED BY <3>1, Zenon DEF cut
  <2>5. next.cut <=> r \in Ends(rows)
    BY <2>3, <2>4, TerraAssumption DEF Ends
  <2>6. \A s \in Ends(rows) : s.tx =< r.tx
    <3> SUFFICES ASSUME NEW s \in Ends(rows)
                 PROVE  s.tx =< r.tx
      OBVIOUS
    <3>1. s \in rows /\ s \notin F
      BY <1>0, <1>2 DEF Ends
    <3>2. s.tx \in Nat /\ r.tx \in Nat /\ ~(r.tx < s.tx)
      BY <1>0, <3>1 DEF Proper
    <3> QED BY <3>2
  <2>7. r \in Kept(rows) <=> ~(hidden \/ r.value = Null)
    BY <2>3, <2>6 DEF Kept
  <2> HIDE DEF hidden
  <2>8. next.shown = (F \cup {r}) \cap Kept(rows)
    BY <1>0, <2>10, <2>7
  <2>9. next.cut <=> \E s \in F \cup {r} : s \in Ends(rows)
    BY <1>0, <1>2, <2>5
  <2> QED BY <2>2, <2>10, <2>8, <2>9 DEF Passed, F
<1> QED BY <1>1, <1>2

\* The merge shows the assertions that are shown.
LEMMA MergeKeeps ==
  ASSUME NEW rows, Proper(rows)
  PROVE  Merged(rows) = Kept(rows)
<1> DEFINE order == NewestFirst(rows)
           len == Len(order)
           after == CHOOSE f : IsWalk(f, order)
<1>1. Merged(rows) = after[len].shown
  BY DEF Merged, IsWalk
<1>2. /\ len \in Nat
      /\ \A i \in 1 .. len : order[i] \in rows
      /\ \A r \in rows : \E i \in 1 .. len : order[i] = r
      /\ \A i, j \in 1 .. len : i < j => order[j].tx < order[i].tx
  BY OrderOf DEF Proper, Numbered
<1> HIDE DEF order
<1>3. IsWalk(after, order)
  BY <1>2, WalkExists
<1> HIDE DEF after
<1>4. /\ after[0] = [replaced |-> {}, cut |-> FALSE, shown |-> {}]
      /\ \A n \in 1 .. len : after[n] = Look(after[n - 1], order[n])
  BY <1>2, <1>3, WalkStep
<1> HIDE DEF len
<1> DEFINE F(n) == {r \in rows : \E i \in 1 .. n : order[i] = r}
           I(n) == Passed(rows, F(n), after[n])
           Bad == {n \in 0 .. len : ~I(n)}
<1>5. I(0)
  <2>1. F(0) = {}
    OBVIOUS
  <2> HIDE DEF F
  <2> QED BY <1>4, <2>1 DEF Passed
<1>6. Bad = {}
  <2> SUFFICES ASSUME Bad # {}
               PROVE  FALSE
    OBVIOUS
  <2>1. PICK n \in Bad : \A m \in Bad : n =< m
    <3> HIDE DEF Bad
    <3>1. Bad \in SUBSET Nat
      BY <1>2 DEF Bad
    <3> QED BY <3>1, LeastNumber
  <2>2. n \in 0 .. len /\ ~I(n)
    BY <2>1
  <2>3. n # 0
    <3> HIDE DEF I
    <3> QED BY <1>5, <2>2
  <2>4. n \in 1 .. len /\ n - 1 \in 0 .. len /\ ~(n =< n - 1)
    BY <1>2, <2>2, <2>3
  <2>5. I(n - 1)
    <3> HIDE DEF I
    <3> QED BY <2>1, <2>4
  <2> DEFINE r == order[n]
             seen == after[n - 1]
  <2>6. r \in rows /\ after[n] = Look(seen, r)
    BY <1>2, <1>4, <2>4
  <2>7. F(n) = F(n - 1) \cup {r}
    <3>1. \A i : i \in 1 .. n <=> i \in 1 .. n - 1 \/ i = n
      BY <2>4, <1>2
    <3> QED BY <3>1, <2>6
  <2>8. \A s \in rows : s \in F(n - 1) <=> r.tx < s.tx
    <3> SUFFICES ASSUME NEW s \in rows
                 PROVE  s \in F(n - 1) <=> r.tx < s.tx
      OBVIOUS
    <3>1. PICK k \in 1 .. len : order[k] = s
      BY <1>2
    <3>2. r.tx \in Nat /\ s.tx \in Nat
      BY <2>6 DEF Proper
    <3>3. CASE k < n
      <4>1. k \in 1 .. n - 1
        BY <1>2, <2>4, <3>1, <3>3
      <4> QED BY <1>2, <2>4, <3>1, <3>3, <4>1
    <3>4. CASE ~(k < n)
      <4>1. ~(r.tx < s.tx)
        BY <1>2, <2>4, <3>1, <3>2, <3>4
      <4>2. \A i \in 1 .. n - 1 : order[i] # s
        <5> SUFFICES ASSUME NEW i \in 1 .. n - 1
                     PROVE  order[i] # s
          OBVIOUS
        <5>1. i \in 1 .. len /\ i < n
          BY <1>2, <2>4
        <5>2. r.tx < order[i].tx
          BY <1>2, <2>4, <5>1
        <5> QED BY <4>1, <5>2
      <4> QED BY <4>1, <4>2
    <3> QED BY <3>3, <3>4
  <2>9. F(n - 1) = Newer(rows, r)
    BY <2>8 DEF Newer
  <2> HIDE DEF F, r, seen
  <2>10. Passed(rows, Newer(rows, r), seen)
    BY <2>5, <2>9 DEF seen
  <2>14. Passed(rows, Newer(rows, r) \cup {r}, after[n])
    BY <2>6, <2>10, LookKeeps
  <2>11. I(n)
    BY <2>7, <2>9, <2>14
  <2> HIDE DEF I
  <2> QED BY <2>2, <2>11
<1>7. I(len)
  <2> HIDE DEF I
  <2> QED BY <1>2, <1>6
<1>8. F(len) = rows
  BY <1>2
<1>9. Kept(rows) \subseteq rows
  BY DEF Kept
<1> HIDE DEF F
<1> QED BY <1>1, <1>7, <1>8, <1>9 DEF Passed

\* They are what the layers mean.
LEMMA MergeIsLayers ==
  ASSUME NEW rows, Proper(rows)
  PROVE  Merged(rows) = Layers(rows)
<1> DEFINE order == NewestFirst(rows)
           len == Len(order)
           base == {r \in Ends(rows) : \A s \in Ends(rows) : s.tx =< r.tx}
<1>1. /\ len \in Nat
      /\ \A i \in 1 .. len : order[i] \in rows
      /\ \A r \in rows : \E i \in 1 .. len : order[i] = r
      /\ \A i, j \in 1 .. len : i < j => order[j].tx < order[i].tx
  BY OrderOf DEF Proper, Numbered
<1> HIDE DEF order, len
<1>2. ASSUME Ends(rows) # {}
      PROVE  base # {}
  <2> DEFINE I == {i \in 1 .. len : order[i] \in Ends(rows)}
  <2>1. I # {} /\ I \in SUBSET Nat
    BY <1>1, <1>2 DEF Ends
  <2>2. PICK i \in I : \A j \in I : i =< j
    <3> HIDE DEF I
    <3> QED BY <2>1, LeastNumber
  <2>3. ASSUME NEW s \in Ends(rows)
        PROVE  s.tx =< order[i].tx
    <3>1. PICK j \in 1 .. len : order[j] = s
      BY <1>1 DEF Ends
    <3>2. i \in 1 .. len /\ i =< j
      BY <2>2, <3>1
    <3>3. order[i].tx \in Nat /\ s.tx \in Nat
      BY <1>1, <3>1, <3>2 DEF Proper
    <3> QED BY <1>1, <3>1, <3>2, <3>3
  <2>4. order[i] \in base
    BY <2>2, <2>3
  <2> QED BY <2>4
<1>3. ASSUME NEW r \in rows
      PROVE  (\A s \in base : s.tx =< r.tx) <=> (\A s \in Ends(rows) : s.tx =< r.tx)
  <2>1. CASE Ends(rows) = {}
    BY <2>1
  <2>2. CASE Ends(rows) # {}
    <3>1. PICK m \in base : TRUE
      BY <1>2, <2>2
    <3>2. \A s \in Ends(rows) : s.tx =< m.tx /\ s.tx \in Nat
      BY <3>1 DEF Ends, Proper
    <3>3. r.tx \in Nat /\ m.tx \in Nat
      BY <3>1 DEF Ends, Proper
    <3> QED BY <3>1, <3>2, <3>3
  <2> QED BY <2>1, <2>2
<1>4. Layers(rows) = {r \in rows : /\ r.value # Null
                                   /\ ~Withdrawn(rows, r)
                                   /\ \A s \in base : s.tx =< r.tx}
  BY DEF Layers, Ends
<1>5. Layers(rows) = Kept(rows)
  <2> HIDE DEF base
  <2> QED BY <1>3, <1>4 DEF Kept
<1> QED BY <1>5, MergeKeeps

-----------------------------------------------------------------------------
(***************************************************************************)
(* The rows of the store.                                                  *)
(***************************************************************************)
\* Every row belongs to a committed transaction, which wrote at most one about
\* the same thing; an assertion addresses an older one or none.
RowInv ==
  /\ \A r \in entities \cup assertions \cup embeddings : Key(r) \in transactions
  /\ \A r, s \in entities : r.entity = s.entity /\ r.tx = s.tx => r = s
  /\ \A r, s \in embeddings : r.entity = s.entity /\ r.tx = s.tx => r = s
  /\ \A r, s \in assertions :
       r.entity = s.entity /\ r.prop = s.prop /\ r.tx = s.tx => r = s
  /\ \A r \in assertions : r.supersedes \in Nat /\ r.supersedes < r.tx

\* Distinct rows of distinct transactions are finitely many.
LEMMA RowsAreFinite ==
  ASSUME NEW rows, NEW n \in Nat, \A r \in rows : r.tx \in 1 .. n,
         \A r, s \in rows : r.tx = s.tx => r = s
  PROVE  IsFiniteSet(rows) /\ Cardinality(rows) =< n
<1> DEFINE f == [r \in rows |-> r.tx]
<1>1. f \in [rows -> 1 .. n] /\ \A r, s \in rows : f[r] = f[s] => r = s
  OBVIOUS
<1>2. IsFiniteSet(1 .. n) /\ Cardinality(1 .. n) = n
  BY FS_Interval
<1> HIDE DEF f
<1>3. f \in Injection(rows, 1 .. n)
  BY <1>1, Fun_IsInj
<1> QED BY <1>2, <1>3, FS_Injection

LEMMA TxOfRows ==
  ASSUME IdsInv, RowInv
  PROVE  /\ Cardinality(transactions) \in Nat
         /\ \A r \in entities \cup assertions \cup embeddings :
              r.tx \in 1 .. Cardinality(transactions)
<1>1. Cardinality(transactions) \in Nat
  BY FS_CardinalityType DEF IdsInv
<1>2. ASSUME NEW r \in entities \cup assertions \cup embeddings
      PROVE  r.tx \in 1 .. Cardinality(transactions)
  <2>1. Key(r) \in transactions
    BY DEF RowInv
  <2>2. Key(r).tx = r.tx
    BY DEF Key
  <2> QED BY <2>1, <2>2 DEF IdsInv
<1> QED BY <1>1, <1>2

LEMMA StreamIsProper ==
  ASSUME IdsInv, RowInv, NEW scopes, NEW e, NEW p
  PROVE  Proper(Stream(scopes, e, p))
<1> DEFINE rows == Stream(scopes, e, p)
<1>1. rows \subseteq assertions /\ \A r \in rows : r.entity = e /\ r.prop = p
  BY DEF Stream
<1> HIDE DEF rows
<1>2. /\ Cardinality(transactions) \in Nat
      /\ \A r \in rows : r.tx \in 1 .. Cardinality(transactions)
  BY <1>1, TxOfRows
<1>3. \A r, s \in rows : r.tx = s.tx => r = s
  BY <1>1 DEF RowInv
<1>4. IsFiniteSet(rows)
  BY <1>2, <1>3, RowsAreFinite
<1>5. \A r \in rows : r.tx \in Nat \ {0} /\ r.supersedes \in Nat /\ r.supersedes < r.tx
  BY <1>1, <1>2 DEF RowInv
<1> QED BY <1>3, <1>4, <1>5 DEF Proper, rows

\* What is shown of a property are assertions that are visible.
LEMMA ShownIsVisible ==
  ASSUME IdsInv, RowInv, NEW scopes, NEW e, NEW p
  PROVE  /\ Visible(scopes, e, p) = Layers(Stream(scopes, e, p))
         /\ Visible(scopes, e, p) \subseteq Stream(scopes, e, p)
         /\ Shown(scopes, e, p) \subseteq Visible(scopes, e, p)
         /\ Shown(scopes, e, p) = {} => Visible(scopes, e, p) = {}
<1> DEFINE rows == Stream(scopes, e, p)
           seen == Visible(scopes, e, p)
<1>1. Proper(rows)
  BY StreamIsProper
<1>2. seen = Layers(rows)
  BY <1>1, MergeIsLayers DEF Visible
<1>3. seen \subseteq rows
  BY <1>2 DEF Layers
<1>4. ASSUME seen # {}
      PROVE  Latest(seen) \in seen
  <2> DEFINE txs == {r.tx : r \in seen}
  <2>1. txs \in SUBSET Nat /\ txs # {}
    BY <1>1, <1>3, <1>4 DEF Proper
  <2>2. Cardinality(transactions) \in Nat /\ \A t \in txs : t =< Cardinality(transactions)
    <3>1. rows \subseteq assertions
      BY DEF Stream
    <3> QED BY <1>3, <3>1, TxOfRows
  <2> HIDE DEF seen, rows
  <2>3. PICK m \in txs : \A t \in txs : t =< m
    <3> HIDE DEF txs
    <3> QED BY <2>1, <2>2, GreatestNumber
  <2>4. \E r \in seen : \A s \in seen : s.tx =< r.tx
    BY <2>3
  <2> QED BY <2>4 DEF Latest
<1>5. Shown(scopes, e, p) = IF HasStatuses \/ seen = {} THEN seen ELSE {Latest(seen)}
  BY DEF Shown
<1> HIDE DEF seen
<1>6. Shown(scopes, e, p) \subseteq seen /\ (Shown(scopes, e, p) = {} => seen = {})
  BY <1>4, <1>5
<1> QED BY <1>2, <1>3, <1>6 DEF seen

\* The assertions of an operation.
LEMMA ClaimsAreProper ==
  ASSUME IdsInv, RowInv, NEW scopes, NEW tx, NEW e, NEW A, Asserts(A, scopes, tx, e),
         tx = Cardinality(transactions) + 1
  PROVE  /\ \A r \in A : r.supersedes \in Nat /\ r.supersedes < r.tx
         /\ \A r \in A : r.tx = tx /\ r.branch = Branch(scopes) /\ r.entity = e
         /\ \A r, s \in A : r.prop = s.prop => r = s
<1>1. Cardinality(transactions) \in Nat
  BY TxOfRows
<1>2. ASSUME NEW r \in A
      PROVE  r.supersedes \in Nat /\ r.supersedes < r.tx
  <2>1. r.tx = tx /\ r.supersedes \in {None} \cup Targets(scopes, e, r.prop)
    BY DEF Asserts, At
  <2>2. CASE r.supersedes = None
    BY <1>1, <2>1, <2>2 DEF None
  <2>3. CASE r.supersedes \in Targets(scopes, e, r.prop)
    <3>1. PICK q \in Shown(scopes, e, r.prop) : r.supersedes = q.tx
      BY <2>3 DEF Targets
    <3>2. q \in assertions
      BY ShownIsVisible DEF Stream
    <3>3. q.tx \in 1 .. Cardinality(transactions)
      BY <3>2, TxOfRows
    <3> QED BY <1>1, <2>1, <3>1, <3>3
  <2> QED BY <2>1, <2>2, <2>3
<1> QED BY <1>2 DEF Asserts, At

\* A step's rows are new, and a transaction writes one about each thing.
LEMMA CommitsKeepRows ==
  ASSUME IdsInv, RowInv, NEW scopes, Commits(scopes)
  PROVE  RowInv'
<1> DEFINE n == NextTx
           b == Branch(scopes)
           new == [branch |-> b, tx |-> n]
<1>1. /\ n = Cardinality(transactions) + 1
      /\ transactions' = transactions \cup {new}
  BY CommitAddsOne
<1>2. /\ Cardinality(transactions) \in Nat
      /\ \A r \in entities \cup assertions \cup embeddings :
           r.tx \in 1 .. Cardinality(transactions)
  BY TxOfRows
<1>3. PICK op, item : Performs(op, item, scopes)
  BY CommitPerforms
<1>4. \A e \in Entities : op[e] \in EntityOperations(scopes, n, e)
  BY <1>3 DEF Performs
<1> HIDE DEF n
<1> DEFINE E == UNION {op[e].entities : e \in Entities}
           A == UNION {op[e].assertions : e \in Entities}
           V == UNION {op[e].embeddings : e \in Entities}
<1>5. entities' = entities \cup E /\ assertions' = assertions \cup A /\ embeddings' = embeddings \cup V
  BY <1>3 DEF Performs
<1>6. /\ \A r \in E : r.branch = b /\ r.tx = n
      /\ \A r, s \in E : r.entity = s.entity => r = s
  <2>1. \A e \in Entities : \A r \in op[e].entities : r.branch = b /\ r.tx = n /\ r.entity = e
    BY <1>4, OperationRows DEF At
  <2>2. \A e \in Entities : \A r, s \in op[e].entities : r = s
    BY <1>4, OperationRows
  <2> QED BY <2>1, <2>2
<1>7. /\ \A r \in V : r.branch = b /\ r.tx = n
      /\ \A r, s \in V : r.entity = s.entity => r = s
  <2>1. \A e \in Entities : \A r \in op[e].embeddings : r.branch = b /\ r.tx = n /\ r.entity = e
    BY <1>4, OperationRows DEF At
  <2>2. \A e \in Entities : \A r, s \in op[e].embeddings : r = s
    BY <1>4, OperationRows
  <2> QED BY <2>1, <2>2
<1>8. /\ \A r \in A : r.branch = b /\ r.tx = n /\ r.supersedes \in Nat /\ r.supersedes < r.tx
      /\ \A r, s \in A : r.entity = s.entity /\ r.prop = s.prop => r = s
  <2>1. \A e \in Entities : Asserts(op[e].assertions, scopes, n, e)
    BY <1>4, OperationRows
  <2>2. ASSUME NEW e \in Entities
        PROVE  /\ \A r \in op[e].assertions :
                    /\ r.branch = b /\ r.tx = n /\ r.entity = e
                    /\ r.supersedes \in Nat /\ r.supersedes < r.tx
               /\ \A r, s \in op[e].assertions : r.prop = s.prop => r = s
    BY <1>1, <2>1, ClaimsAreProper
  <2> QED BY <2>2
<1> HIDE DEF E, A, V, b
<1>9. \A r : r.branch = b /\ r.tx = n => Key(r) \in transactions'
  BY <1>1 DEF Key
<1>10. \A r \in entities' \cup assertions' \cup embeddings' : Key(r) \in transactions'
  <2>1. \A r \in entities \cup assertions \cup embeddings : Key(r) \in transactions
    BY DEF RowInv
  <2> HIDE DEF new
  <2> QED BY <1>1, <1>5, <1>6, <1>7, <1>8, <1>9, <2>1
<1>11. \A r \in entities \cup assertions \cup embeddings : r.tx # n
  BY <1>1, <1>2
<1>12. \A r, s \in entities' : r.entity = s.entity /\ r.tx = s.tx => r = s
  <2>1. \A r, s \in entities : r.entity = s.entity /\ r.tx = s.tx => r = s
    BY DEF RowInv
  <2> QED BY <1>5, <1>6, <1>11, <2>1
<1>13. \A r, s \in embeddings' : r.entity = s.entity /\ r.tx = s.tx => r = s
  <2>1. \A r, s \in embeddings : r.entity = s.entity /\ r.tx = s.tx => r = s
    BY DEF RowInv
  <2> QED BY <1>5, <1>7, <1>11, <2>1
<1>14. \A r, s \in assertions' :
         r.entity = s.entity /\ r.prop = s.prop /\ r.tx = s.tx => r = s
  <2>1. \A r, s \in assertions :
          r.entity = s.entity /\ r.prop = s.prop /\ r.tx = s.tx => r = s
    BY DEF RowInv
  <2> QED BY <1>5, <1>8, <1>11, <2>1
<1>15. \A r \in assertions' : r.supersedes \in Nat /\ r.supersedes < r.tx
  BY <1>5, <1>8 DEF RowInv
<1> QED BY <1>10, <1>12, <1>13, <1>14, <1>15 DEF RowInv, Key

LEMMA RowInvHolds == Spec => [](TreeInv /\ RowInv)
<1>1. Init => RowInv
  BY DEF Init, RowInv
<1>2. ASSUME TreeInv, RowInv, [Next]_vars
      PROVE  RowInv'
  <2>1. CASE Next
    <3>1. PICK scopes : Commits(scopes)
      BY <1>2, <2>1, StepsCommit DEF TreeInv
    <3> QED BY <1>2, <3>1, CommitsKeepRows DEF TreeInv
  <2>2. CASE UNCHANGED vars
    BY <1>2, <2>2 DEF vars, RowInv, Key
  <2> QED BY <1>2, <2>1, <2>2
<1> QED BY <1>1, <1>2, TreeInvInit, TreeInvNext, PTL DEF Spec

\* The merge that stops at the first terminal assertion shows, for every branch,
\* transaction and property, what the layers mean (store/query/properties.rs).
THEOREM MergeAlwaysShowsLayers == Spec => []MergeShowsLayers
<1>1. TreeInv /\ RowInv => MergeShowsLayers
  BY ShownIsVisible DEF MergeShowsLayers, TreeInv
<1> QED BY <1>1, RowInvHolds, PTL

-----------------------------------------------------------------------------
(***************************************************************************)
(* What the readers of a branch are shown, in Terra and by its read        *)
(* commands. What a branch sees up to a bound are the rows of a line       *)
(* of transactions: a set that has, below each of its transactions, what   *)
(* that transaction could see. What a transaction did for the branch that  *)
(* ran it therefore holds for each branch that sees it: a deletion leaves  *)
(* nothing to show, an embedding describes what is shown, the log has what *)
(* was written, and all searches find the same entities.                   *)
(***************************************************************************)
-----------------------------------------------------------------------------
(***************************************************************************)
(* Lines. What a branch sees up to a bound are the rows of a set of        *)
(* transactions, its line; the line below any of them is the line of its   *)
(* own branch at that transaction.                                         *)
(***************************************************************************)
InLine(b, at, k) ==
  \E i \in 1 .. Len(ScopesAt(b, at)) : InScope(ScopesAt(b, at)[i], k)

Seen(scopes) == {k \in transactions : \E i \in 1 .. Len(scopes) : InScope(scopes[i], k)}

Line(b, at) == Seen(ScopesAt(b, at))

\* What a transaction could see, and what it sees itself.
Past(k) == Line(k.branch, k.tx)
Before(k) == Past(k) \ {k}

\* The scopes of a branch are one more than those of its parent at its branch
\* point.
LEMMA ScopesStep ==
  ASSUME IdsInv, BranchInv, NEW s \in DOMAIN branches, NEW at
  PROVE  /\ ScopesAt(s, at) =
              <<[branch |-> s, upper |-> at]>>
                \o ScopesAt(branches[s].parent, branches[s].from)
         /\ ScopesAt(branches[s].parent, branches[s].from) \in
              Seq([branch : Opened, upper : 1 .. Cardinality(transactions)])
<1>0. branches[s].parent \in Opened /\ s \in Opened
  BY DEF BranchInv, Opened
<1>1. Ancestry(s) = <<Point(s)>> \o Ancestry(branches[s].parent)
  BY <1>0, AncestrySteps DEF AncestryWalks
<1>2. Ancestry(s) = ScopesAt(branches[s].parent, branches[s].from)
  BY <1>1 DEF ScopesAt, Point
<1>3. Ancestry(s) \in Seq([branch : Opened, upper : 1 .. Cardinality(transactions)])
  BY <1>0, PathOfAncestry DEF AncestryIsPath
<1> QED BY <1>2, <1>3 DEF ScopesAt

LEMMA InLineMain ==
  ASSUME BranchInv, NEW at, NEW k
  PROVE  InLine(Main, at, k) <=> k.branch = Main /\ k.tx =< at
<1> DEFINE x == [branch |-> Main, upper |-> at]
<1>1. ScopesAt(Main, at) = <<x>>
  <2>1. <<x>> \o <<>> = <<x>>
    OBVIOUS
  <2> QED BY <2>1, AncestrySteps DEF ScopesAt, AncestryWalks
<1>2. x.branch = Main /\ x.upper = at
  OBVIOUS
<1> HIDE DEF x
<1> QED BY <1>1, <1>2 DEF InLine, InScope

LEMMA InLineStep ==
  ASSUME IdsInv, BranchInv, NEW s \in DOMAIN branches, NEW at, NEW k
  PROVE  InLine(s, at, k) <=>
           \/ k.branch = s /\ k.tx =< at
           \/ InLine(branches[s].parent, branches[s].from, k)
<1> DEFINE T == [branch : Opened, upper : 1 .. Cardinality(transactions)]
           x == [branch |-> s, upper |-> at]
           q == ScopesAt(branches[s].parent, branches[s].from)
           scopes == ScopesAt(s, at)
<1>1. scopes = <<x>> \o q /\ q \in Seq(T)
  BY ScopesStep
<1>2. x.branch = s /\ x.upper = at
  OBVIOUS
<1>3. InLine(s, at, k) <=> \E i \in 1 .. Len(scopes) : InScope(scopes[i], k)
  BY DEF InLine
<1>4. InLine(branches[s].parent, branches[s].from, k) <=>
        \E i \in 1 .. Len(q) : InScope(q[i], k)
  BY DEF InLine
<1> HIDE DEF scopes, q, x, T
<1>5. /\ Len(q) \in Nat /\ Len(scopes) = Len(q) + 1 /\ scopes[1] = x
      /\ \A i \in 1 .. Len(q) : scopes[i + 1] = q[i]
  BY <1>1
<1>6. ASSUME NEW i \in 1 .. Len(scopes), InScope(scopes[i], k)
      PROVE  InScope(x, k) \/ \E j \in 1 .. Len(q) : InScope(q[j], k)
  <2>1. CASE i = 1
    BY <1>5, <1>6, <2>1
  <2>2. CASE i # 1
    <3>1. i - 1 \in 1 .. Len(q) /\ (i - 1) + 1 = i
      BY <1>5, <2>2
    <3>2. scopes[i] = q[i - 1]
      BY <1>5, <3>1
    <3> QED BY <1>6, <3>1, <3>2
  <2> QED BY <2>1, <2>2
<1>7. ASSUME InScope(x, k)
      PROVE  \E i \in 1 .. Len(scopes) : InScope(scopes[i], k)
  BY <1>5, <1>7
<1>8. ASSUME NEW j \in 1 .. Len(q), InScope(q[j], k)
      PROVE  \E i \in 1 .. Len(scopes) : InScope(scopes[i], k)
  BY <1>5, <1>8
<1>9. InScope(x, k) <=> k.branch = s /\ k.tx =< at
  BY <1>2 DEF InScope
<1> QED BY <1>3, <1>4, <1>6, <1>7, <1>8, <1>9

\* The numbers of transactions and branch points.
LEMMA Numbers ==
  ASSUME IdsInv, BranchInv
  PROVE  /\ \A t \in transactions : t.tx \in Nat \ {0} /\ t.branch \in Opened
         /\ \A s \in DOMAIN branches : /\ branches[s].from \in Nat /\ branches[s].parent \in Opened
                                       /\ \A t \in transactions : t.branch = s => branches[s].from < t.tx
<1>1. Cardinality(transactions) \in Nat
  BY FS_CardinalityType DEF IdsInv
<1>2. \A t \in transactions : t.tx \in Nat \ {0} /\ t.branch \in Opened
  BY <1>1 DEF IdsInv
<1>3. ASSUME NEW s \in DOMAIN branches
      PROVE  branches[s].from \in Nat
  <2>1. PICK u \in transactions :
          u = [branch |-> branches[s].parent, tx |-> branches[s].from]
    BY DEF BranchInv
  <2> QED BY <1>2, <2>1
<1> QED BY <1>2, <1>3 DEF BranchInv

\* A line of ancestors ends at the branch point.
LEMMA LineBelowPoint ==
  ASSUME IdsInv, BranchInv
  PROVE  \A s \in DOMAIN branches : \A k \in transactions :
           InLine(branches[s].parent, branches[s].from, k) => k.tx =< branches[s].from
<1> DEFINE Below(s) == \A k \in transactions :
                         InLine(branches[s].parent, branches[s].from, k)
                           => k.tx =< branches[s].from
           S == {s \in Opened : s \in DOMAIN branches => Below(s)}
<1>1. Main \in S
  BY DEF Opened, BranchInv
<1>2. ASSUME NEW s \in DOMAIN branches, branches[s].parent \in S, NEW k \in transactions,
             InLine(branches[s].parent, branches[s].from, k)
      PROVE  k.tx =< branches[s].from
  <2> DEFINE p == branches[s].parent
             from == branches[s].from
  <2>0. p \in Opened /\ [branch |-> p, tx |-> from] \in transactions
    BY DEF BranchInv
  <2>1. CASE p = Main
    BY <1>2, <2>1, InLineMain
  <2>2. CASE p # Main
    <3>1. p \in DOMAIN branches
      BY <2>0, <2>2 DEF Opened
    <3>2. \/ k.branch = p /\ k.tx =< from
          \/ InLine(branches[p].parent, branches[p].from, k)
      BY <1>2, <3>1, InLineStep
    <3>3. CASE InLine(branches[p].parent, branches[p].from, k)
      <4>1. k.tx =< branches[p].from
        BY <1>2, <3>1, <3>3
      <4>2. branches[p].from < from
        <5>1. \A t \in transactions : t.branch = p => branches[p].from < t.tx
          BY <3>1 DEF BranchInv
        <5>2. PICK t \in transactions : t = [branch |-> p, tx |-> from]
          BY <2>0
        <5>3. t.branch = p /\ t.tx = from
          BY <5>2
        <5> QED BY <5>1, <5>3
      <4>3. k.tx \in Nat /\ from \in Nat /\ branches[p].from \in Nat
        BY <3>1, Numbers
      <4> QED BY <4>1, <4>2, <4>3
    <3> QED BY <3>2, <3>3
  <2> QED BY <2>1, <2>2
<1>3. \A s \in DOMAIN branches : branches[s].parent \in S => s \in S
  BY <1>2 DEF Opened
<1>4. Opened \subseteq S
  <2> HIDE DEF S
  <2> QED BY <1>1, <1>3, BranchInduction
<1> QED BY <1>4 DEF Opened

\* The line below one of its transactions is the past of that transaction.
LEMMA LineIsChain ==
  ASSUME IdsInv, BranchInv
  PROVE  \A b \in Opened : \A at \in Nat : \A k \in Line(b, at) :
           Past(k) = {j \in Line(b, at) : j.tx =< k.tx}
<1> DEFINE Chain(b) == \A at \in Nat : \A k, j \in transactions :
                         InLine(b, at, k) =>
                           (InLine(k.branch, k.tx, j) <=> InLine(b, at, j) /\ j.tx =< k.tx)
           S == {b \in Opened : Chain(b)}
<1>0. /\ \A t \in transactions : t.tx \in Nat \ {0} /\ t.branch \in Opened
      /\ \A s \in DOMAIN branches : /\ branches[s].from \in Nat /\ branches[s].parent \in Opened
                                    /\ \A t \in transactions : t.branch = s => branches[s].from < t.tx
  BY Numbers
<1>1. Main \in S
  <2>1. ASSUME NEW at \in Nat, NEW k \in transactions, NEW j \in transactions, InLine(Main, at, k)
        PROVE  InLine(k.branch, k.tx, j) <=> InLine(Main, at, j) /\ j.tx =< k.tx
    <3>1. k.branch = Main /\ k.tx =< at
      BY <2>1, InLineMain
    <3>2. InLine(k.branch, k.tx, j) <=> j.branch = Main /\ j.tx =< k.tx
      BY <3>1, InLineMain
    <3>3. InLine(Main, at, j) <=> j.branch = Main /\ j.tx =< at
      BY InLineMain
    <3>4. k.tx \in Nat /\ j.tx \in Nat
      BY <1>0
    <3> QED BY <3>1, <3>2, <3>3, <3>4
  <2> QED BY <2>1 DEF Opened
<1>2. ASSUME NEW s \in DOMAIN branches, branches[s].parent \in S,
             NEW at \in Nat, NEW k \in transactions, NEW j \in transactions, InLine(s, at, k)
      PROVE  InLine(k.branch, k.tx, j) <=> InLine(s, at, j) /\ j.tx =< k.tx
  <2> DEFINE p == branches[s].parent
             from == branches[s].from
  <2>1. InLine(s, at, j) <=> (j.branch = s /\ j.tx =< at) \/ InLine(p, from, j)
    BY InLineStep
  <2>2. InLine(s, at, k) <=> (k.branch = s /\ k.tx =< at) \/ InLine(p, from, k)
    BY InLineStep
  <2>3. /\ InLine(p, from, j) => j.tx =< from
        /\ InLine(p, from, k) => k.tx =< from
    BY LineBelowPoint
  <2>4. /\ k.tx \in Nat /\ j.tx \in Nat /\ from \in Nat
        /\ k.branch = s => from < k.tx
        /\ j.branch = s => from < j.tx
    BY <1>0
  <2>5. CASE k.branch = s /\ k.tx =< at
    <3>1. InLine(s, k.tx, j) <=> (j.branch = s /\ j.tx =< k.tx) \/ InLine(p, from, j)
      BY InLineStep
    <3>2. ASSUME InLine(k.branch, k.tx, j) PROVE InLine(s, at, j) /\ j.tx =< k.tx
      <4>1. CASE j.branch = s /\ j.tx =< k.tx
        BY <2>1, <2>4, <2>5, <4>1
      <4>2. CASE InLine(p, from, j)
        BY <2>1, <2>3, <2>4, <2>5, <4>2
      <4> QED BY <2>5, <3>1, <3>2, <4>1, <4>2
    <3> QED BY <2>1, <2>5, <3>1, <3>2
  <2>6. CASE InLine(p, from, k)
    <3>1. InLine(k.branch, k.tx, j) <=> InLine(p, from, j) /\ j.tx =< k.tx
      BY <1>0, <1>2, <2>6
    <3>2. j.branch = s => ~(j.tx =< k.tx)
      BY <2>3, <2>4, <2>6
    <3> QED BY <2>1, <3>1, <3>2
  <2> QED BY <1>2, <2>2, <2>5, <2>6
<1>3. \A s \in DOMAIN branches : branches[s].parent \in S => s \in S
  BY <1>2 DEF Opened
<1>4. Opened \subseteq S
  <2> HIDE DEF S
  <2> QED BY <1>1, <1>3, BranchInduction
<1>5. ASSUME NEW b \in Opened, NEW at \in Nat, NEW k \in Line(b, at)
      PROVE  Past(k) = {j \in Line(b, at) : j.tx =< k.tx}
  <2>1. k \in transactions /\ InLine(b, at, k)
    BY DEF Line, Seen, InLine
  <2>2. \A j \in transactions :
          InLine(k.branch, k.tx, j) <=> InLine(b, at, j) /\ j.tx =< k.tx
    BY <1>4, <2>1
  <2> QED BY <2>2 DEF Past, Line, Seen, InLine
<1> QED BY <1>5

\* Of two scopes the earlier has the newer rows.
Descends(scopes) ==
  /\ Len(scopes) \in Nat
  /\ \A i, j \in 1 .. Len(scopes) : \A k, l \in transactions :
       i < j /\ InScope(scopes[i], k) /\ InScope(scopes[j], l) => l.tx < k.tx

AllDescend == \A b \in Opened : \A at \in Nat : Descends(ScopesAt(b, at))

LEMMA ScopesDescend ==
  ASSUME IdsInv, BranchInv
  PROVE  AllDescend
<1> DEFINE Falls(b) == \A at \in Nat :
             \A i, j \in 1 .. Len(ScopesAt(b, at)) : \A k, l \in transactions :
               i < j /\ InScope(ScopesAt(b, at)[i], k) /\ InScope(ScopesAt(b, at)[j], l)
                 => l.tx < k.tx
           S == {b \in Opened : Falls(b)}
<1>1. Main \in S
  <2>1. \A at : Len(ScopesAt(Main, at)) = 1
    <3> TAKE at
    <3>1. ScopesAt(Main, at) = <<[branch |-> Main, upper |-> at]>> \o <<>>
      BY AncestrySteps DEF ScopesAt, AncestryWalks
    <3> QED BY <3>1
  <2> QED BY <2>1 DEF Opened
<1>2. ASSUME NEW s \in DOMAIN branches, branches[s].parent \in S, NEW at \in Nat,
             NEW i \in 1 .. Len(ScopesAt(s, at)), NEW j \in 1 .. Len(ScopesAt(s, at)),
             NEW k \in transactions, NEW l \in transactions,
             i < j, InScope(ScopesAt(s, at)[i], k), InScope(ScopesAt(s, at)[j], l)
      PROVE  l.tx < k.tx
  <2> DEFINE T == [branch : Opened, upper : 1 .. Cardinality(transactions)]
             x == [branch |-> s, upper |-> at]
             p == branches[s].parent
             from == branches[s].from
             q == ScopesAt(p, from)
             scopes == ScopesAt(s, at)
  <2>1. scopes = <<x>> \o q /\ q \in Seq(T)
    BY ScopesStep
  <2>2. x.branch = s /\ x.upper = at
    OBVIOUS
  <2>3. Falls(p) /\ p \in Opened /\ from \in Nat
    BY <1>2, Numbers
  <2>4. \A m \in 1 .. Len(q) : InScope(q[m], l) => InLine(p, from, l)
    BY DEF InLine
  <2>5. InScope(scopes[i], k) /\ InScope(scopes[j], l) /\ i \in 1 .. Len(scopes) /\ j \in 1 .. Len(scopes)
    BY <1>2
  <2>6. \A m, n \in 1 .. Len(q) : m < n /\ InScope(q[m], k) /\ InScope(q[n], l) => l.tx < k.tx
    BY <2>3
  <2> HIDE DEF scopes, q, x, T
  <2>7. /\ Len(q) \in Nat /\ Len(scopes) = Len(q) + 1 /\ scopes[1] = x
        /\ \A m \in 1 .. Len(q) : scopes[m + 1] = q[m]
    BY <2>1
  <2>8. j - 1 \in 1 .. Len(q) /\ scopes[j] = q[j - 1]
    <3>1. j - 1 \in 1 .. Len(q) /\ (j - 1) + 1 = j
      BY <1>2, <2>5, <2>7
    <3> QED BY <2>7, <3>1
  <2>9. CASE i = 1
    <3>1. k.branch = s
      BY <2>2, <2>5, <2>7, <2>9 DEF InScope
    <3>2. InLine(p, from, l)
      BY <2>4, <2>5, <2>8
    <3>3. l.tx =< from
      BY <3>2, LineBelowPoint
    <3>4. from < k.tx /\ l.tx \in Nat /\ k.tx \in Nat /\ from \in Nat
      BY <3>1, Numbers
    <3> QED BY <3>3, <3>4
  <2>10. CASE i # 1
    <3>1. i - 1 \in 1 .. Len(q) /\ (i - 1) + 1 = i /\ i - 1 < j - 1
      BY <1>2, <2>5, <2>7, <2>10
    <3>2. scopes[i] = q[i - 1]
      BY <2>7, <3>1
    <3> QED BY <2>5, <2>6, <2>8, <3>1, <3>2
  <2> QED BY <2>9, <2>10
<1>3. \A s \in DOMAIN branches : branches[s].parent \in S => s \in S
  BY <1>2 DEF Opened
<1>4. Opened \subseteq S
  <2> HIDE DEF S
  <2> QED BY <1>1, <1>3, BranchInduction
<1>5. \A b \in Opened : \A at : Len(ScopesAt(b, at)) \in Nat
  BY ScopesOf
<1> QED BY <1>4, <1>5 DEF AllDescend, Descends

\* The newest of some rows.
LEMMA LatestOf ==
  ASSUME NEW R, R # {}, NEW n \in Nat, \A r \in R : r.tx \in 1 .. n
  PROVE  Latest(R) \in R /\ \A s \in R : s.tx =< Latest(R).tx
<1> DEFINE txs == {r.tx : r \in R}
<1>1. txs \in SUBSET Nat /\ txs # {} /\ \A t \in txs : t =< n
  OBVIOUS
<1>2. PICK m \in txs : \A t \in txs : t =< m
  <2> HIDE DEF txs
  <2> QED BY <1>1, GreatestNumber
<1>3. \E r \in R : \A s \in R : s.tx =< r.tx
  BY <1>2
<1> QED BY <1>3 DEF Latest

\* The newest row of some transactions, if there is any.
Newest(R, T) ==
  {r \in R : Key(r) \in T /\ \A s \in R : Key(s) \in T => s.tx =< r.tx}

LEMMA LatestSeen ==
  ASSUME IdsInv, NEW R, \A r \in R : Key(r) \in transactions,
         \A r, s \in R : r.tx = s.tx => r = s, NEW scopes, Descends(scopes)
  PROVE  GetLatest(R, scopes) = Newest(R, Seen(scopes))
<1> DEFINE F(i) == {r \in R : InScope(scopes[i], r)}
           first == {i \in 1 .. Len(scopes) : /\ F(i) # {}
                                              /\ \A j \in 1 .. i - 1 : F(j) = {}}
<1>1. GetLatest(R, scopes) = {Latest(F(i)) : i \in first}
  BY DEF GetLatest
<1>2. Len(scopes) \in Nat
  BY DEF Descends
<1>3. \A r, i : InScope(scopes[i], r) <=> InScope(scopes[i], Key(r))
  BY DEF InScope, Key
<1>4. \A r \in R : Key(r) \in Seen(scopes) <=> \E i \in 1 .. Len(scopes) : r \in F(i)
  BY <1>3 DEF Seen
<1>5. \A i, j \in 1 .. Len(scopes) : \A r \in F(i), s \in F(j) : i < j => s.tx < r.tx
  <2> SUFFICES ASSUME NEW i \in 1 .. Len(scopes), NEW j \in 1 .. Len(scopes),
                      NEW r \in F(i), NEW s \in F(j), i < j
               PROVE  s.tx < r.tx
    OBVIOUS
  <2>1. InScope(scopes[i], Key(r)) /\ InScope(scopes[j], Key(s))
    BY <1>3
  <2>2. Key(r) \in transactions /\ Key(s) \in transactions
    OBVIOUS
  <2>3. Key(s).tx < Key(r).tx
    BY <2>1, <2>2 DEF Descends
  <2> QED BY <2>3 DEF Key
<1>6. Cardinality(transactions) \in Nat /\ \A r \in R : r.tx \in 1 .. Cardinality(transactions)
  <2>1. \A r \in R : Key(r).tx \in 1 .. Cardinality(transactions)
    BY DEF IdsInv
  <2> QED BY <2>1, FS_CardinalityType DEF IdsInv, Key
<1>7. \A i \in 1 .. Len(scopes) : F(i) # {} =>
        Latest(F(i)) \in F(i) /\ \A s \in F(i) : s.tx =< Latest(F(i)).tx
  <2> SUFFICES ASSUME NEW i \in 1 .. Len(scopes), F(i) # {}
               PROVE  Latest(F(i)) \in F(i) /\ \A s \in F(i) : s.tx =< Latest(F(i)).tx
    OBVIOUS
  <2>1. \A r \in F(i) : r.tx \in 1 .. Cardinality(transactions)
    BY <1>6
  <2> HIDE DEF F
  <2> QED BY <1>6, <2>1, LatestOf
<1>8. \A i : F(i) \subseteq R
  OBVIOUS
<1> HIDE DEF F
<1>9. ASSUME NEW i \in first
      PROVE  Latest(F(i)) \in Newest(R, Seen(scopes))
  <2>1. Latest(F(i)) \in F(i) /\ Latest(F(i)) \in R /\ Key(Latest(F(i))) \in Seen(scopes)
    BY <1>4, <1>7, <1>8
  <2>2. ASSUME NEW s \in R, Key(s) \in Seen(scopes)
        PROVE  s.tx =< Latest(F(i)).tx
    <3>1. PICK j \in 1 .. Len(scopes) : s \in F(j)
      BY <1>4, <2>2
    <3>2. ~(j < i)
      BY <1>2, <3>1
    <3>3. CASE j = i
      BY <1>7, <3>1, <3>3
    <3>4. CASE i < j
      <4>1. s.tx < Latest(F(i)).tx
        BY <1>5, <2>1, <3>1, <3>4
      <4>2. s.tx \in 1 .. Cardinality(transactions)
             /\ Latest(F(i)).tx \in 1 .. Cardinality(transactions)
        BY <1>6, <2>1
      <4> QED BY <1>6, <4>1, <4>2
    <3> QED BY <1>2, <3>2, <3>3, <3>4
  <2> QED BY <2>1, <2>2 DEF Newest
<1>10. ASSUME NEW x \in Newest(R, Seen(scopes))
       PROVE  x \in {Latest(F(i)) : i \in first}
  <2> DEFINE I == {i \in 1 .. Len(scopes) : F(i) # {}}
  <2>1. I \in SUBSET Nat /\ I # {}
    BY <1>2, <1>4 DEF Newest
  <2>2. PICK i \in I : \A j \in I : i =< j
    <3> HIDE DEF I
    <3> QED BY <2>1, LeastNumber
  <2>3. i \in first
    BY <1>2, <2>2
  <2>4. Latest(F(i)) \in Newest(R, Seen(scopes))
    BY <1>9, <2>3
  <2>5. x \in R /\ Latest(F(i)) \in R /\ x.tx =< Latest(F(i)).tx /\ Latest(F(i)).tx =< x.tx
    BY <2>4 DEF Newest
  <2>6. x.tx \in 1 .. Cardinality(transactions) /\ Latest(F(i)).tx \in 1 .. Cardinality(transactions)
    BY <1>6, <2>5
  <2>7. x.tx = Latest(F(i)).tx
    BY <1>6, <2>5, <2>6
  <2> QED BY <2>3, <2>5, <2>7
<1> HIDE DEF first
<1>11. {Latest(F(i)) : i \in first} = Newest(R, Seen(scopes))
  BY <1>9, <1>10
<1> QED BY <1>1, <1>11

\* The assertions of some transactions.
RowsOf(T, e, p) == {r \in assertions : r.entity = e /\ r.prop = p /\ Key(r) \in T}

LEMMA StreamSeen ==
  ASSUME RowInv, NEW scopes, NEW e, NEW p
  PROVE  Stream(scopes, e, p) = RowsOf(Seen(scopes), e, p)
<1>1. \A r, i : InScope(scopes[i], r) <=> InScope(scopes[i], Key(r))
  BY DEF InScope, Key
<1>2. \A r \in assertions : Key(r) \in transactions
  BY DEF RowInv
<1>3. \A r \in assertions : Key(r) \in Seen(scopes)
                              <=> \E i \in 1 .. Len(scopes) : InScope(scopes[i], r)
  BY <1>1, <1>2 DEF Seen
<1> QED BY <1>3 DEF Stream, RowsOf

\* The record of an entity is live.
Alive(e, T) == \E d \in Newest(EntityRows(e), T) : ~d.deleted

LEMMA RecordSeen ==
  ASSUME IdsInv, RowInv, NEW scopes, Descends(scopes), NEW e
  PROVE  /\ GetLatest(EntityRows(e), scopes) = Newest(EntityRows(e), Seen(scopes))
         /\ LiveRecord(scopes, e) = {} <=> ~Alive(e, Seen(scopes))
<1>1. /\ \A r \in EntityRows(e) : Key(r) \in transactions
      /\ \A r, s \in EntityRows(e) : r.tx = s.tx => r = s
  BY DEF RowInv, EntityRows
<1>2. GetLatest(EntityRows(e), scopes) = Newest(EntityRows(e), Seen(scopes))
  BY <1>1, LatestSeen
<1> QED BY <1>2 DEF LiveRecord, Alive

-----------------------------------------------------------------------------
(***************************************************************************)
(* Lines, step by step.                                                    *)
(***************************************************************************)
\* Two scopes before others.
TwoThen(a, c, r) == <<a>> \o (<<c>> \o r) = <<a, c>> \o r

LEMMA TwoMore ==
  ASSUME NEW T, NEW a, NEW c, NEW r \in Seq(T)
  PROVE  TwoThen(a, c, r)
<1> DEFINE U == T \cup {a, c}
<1>1. r \in Seq(U) /\ <<a>> \in Seq(U) /\ <<c>> \in Seq(U) /\ <<a, c>> \in Seq(U)
  OBVIOUS
<1>2. <<a>> \o <<c>> = <<a, c>>
  <2> DEFINE s == <<a>> \o <<c>>
             t == <<a, c>>
  <2>1. s \in Seq(U) /\ t \in Seq(U) /\ Len(s) = 2 /\ Len(t) = 2
    BY <1>1
  <2>2. s[1] = a /\ s[2] = c /\ t[1] = a /\ t[2] = c
    BY <1>1
  <2>3. \A i \in 1 .. Len(s) : s[i] = t[i]
    BY <2>1, <2>2
  <2> HIDE DEF s, t
  <2>4. s = t
    BY <2>1, <2>3, SeqEqual
  <2> QED BY <2>4 DEF s, t
<1> HIDE DEF U
<1>3. (<<a>> \o <<c>>) \o r = <<a>> \o (<<c>> \o r)
  BY <1>1, ConcatAssociative
<1> QED BY <1>2, <1>3 DEF TwoThen

\* A transaction sees its branch as it is once the transaction is committed.
OnLine(scopes) == \A b : b = Branch(scopes) => scopes = ScopesAt(b, MaxTx)'

LEMMA StepsAreOnLine ==
  ASSUME IdsInv, BranchInv, Next
  PROVE  \E scopes : Commits(scopes) /\ OnLine(scopes)
<1>1. PICK b \in Opened : Transact(b) \/ \E s \in Slugs : OrderlyCheckout(b, s)
  BY DEF Next
<1> DEFINE T == [branch : Opened, upper : 1 .. Cardinality(transactions)]
           q == Ancestry(b)
<1>2. q \in Seq(T)
  BY PathOfAncestry DEF AncestryIsPath
<1>3. CASE Transact(b)
  <2> DEFINE x == [branch |-> b, upper |-> MaxTx]
             scopes == <<x>> \o q
  <2>1. x.branch = b /\ Scopes(b) = scopes
    BY DEF Scopes, ScopesAt
  <2>2. Branch(scopes) = b
    <3> HIDE DEF x
    <3> QED BY <2>1, FirstScope
  <2>3. Commits(scopes)
    BY <1>3, <2>1, <2>2 DEF Transact, Commits
  <2>4. BranchInv'
    BY <2>3, CommitsKeepBranches
  <2>5. Ancestry(b)' = q
    BY <2>3, <2>4, AncestryStays
  <2>6. ScopesAt(b, MaxTx)' = scopes
    BY <2>5 DEF ScopesAt
  <2> HIDE DEF scopes
  <2> QED BY <2>2, <2>3, <2>6 DEF OnLine
<1>4. ASSUME NEW s \in Slugs, OrderlyCheckout(b, s)
      PROVE  \E scopes : Commits(scopes) /\ OnLine(scopes)
  <2>1. PICK from \in Committed(b) : Checkout(b, s, from)
    BY <1>4 DEF OrderlyCheckout
  <2> DEFINE x == [branch |-> s, upper |-> MaxTx]
             y == [branch |-> b, upper |-> from]
             scopes == <<x, y>> \o q
  <2>2. Branch(scopes) = s
    <3>1. x.branch = s
      OBVIOUS
    <3> HIDE DEF x, y
    <3> QED BY <3>1, FirstScope
  <2>3. [branch |-> b, tx |-> from] \in transactions
    <3>1. PICK t \in transactions : t.branch = b /\ t.tx = from
      BY DEF Committed
    <3> QED BY <3>1 DEF IdsInv, Key
  <2>4. Opens(b, s, from)
    BY <1>4, <2>1, <2>3 DEF OrderlyCheckout, Checkout, Opens, Opened
  <2>5. Execute(scopes)
    BY <2>1 DEF Checkout
  <2>6. Commits(scopes)
    <3> HIDE DEF scopes
    <3> QED BY <2>2, <2>4, <2>5 DEF Commits
  <2>7. BranchInv'
    BY <2>6, CommitsKeepBranches
  <2>8. Ancestry(b)' = q
    BY <2>6, <2>7, AncestryStays
  <2>9. AncestryWalks'
    BY <2>7, AncestrySteps, PTL
  <2>10. /\ s \in DOMAIN branches' /\ branches'[s].parent = b /\ branches'[s].from = from
         /\ b \in Opened'
    BY <2>4, <2>6, OpenedStay DEF Opens
  <2>11. Ancestry(s)' = <<Point(s)'>> \o Ancestry(b)'
    BY <2>9, <2>10 DEF AncestryWalks
  <2>12. Point(s)' = y
    BY <2>10 DEF Point
  <2>13. ScopesAt(s, MaxTx)' = <<x>> \o (<<y>> \o q)
    BY <2>8, <2>11, <2>12 DEF ScopesAt
  <2>14. <<x>> \o (<<y>> \o q) = scopes
    <3>1. q \in Seq(T)
      BY <1>2
    <3> HIDE DEF x, y, q, T
    <3>2. TwoThen(x, y, q)
      BY <3>1, TwoMore
    <3> QED BY <3>2 DEF TwoThen
  <2> HIDE DEF scopes
  <2> QED BY <2>2, <2>6, <2>13, <2>14 DEF OnLine
<1> QED BY <1>1, <1>3, <1>4

\* A bound matters to newer transactions only.
LineUpTo ==
  \A b \in Opened : \A at, to \in Nat : \A k \in transactions :
    k.tx =< at /\ k.tx =< to => (InLine(b, at, k) <=> InLine(b, to, k))

LEMMA LineBounds ==
  ASSUME IdsInv, BranchInv
  PROVE  LineUpTo
<1> SUFFICES ASSUME NEW b \in Opened, NEW at \in Nat, NEW to \in Nat, NEW k \in transactions,
                    k.tx =< at, k.tx =< to
             PROVE  InLine(b, at, k) <=> InLine(b, to, k)
  BY DEF LineUpTo
<1>1. CASE b = Main
  BY <1>1, InLineMain
<1>2. CASE b # Main
  <2>1. b \in DOMAIN branches
    BY <1>2 DEF Opened
  <2> QED BY <2>1, InLineStep
<1> QED BY <1>1, <1>2

\* A set of transactions that has the past of each of its elements, and nothing
\* else as old.
IsLine(T) ==
  /\ T \subseteq transactions
  /\ \A k \in T : Past(k) = {j \in T : j.tx =< k.tx}

AllLines == \A b \in Opened : \A at \in Nat : IsLine(Line(b, at))

LEMMA LinesAreLines ==
  ASSUME IdsInv, BranchInv
  PROVE  AllLines
<1> SUFFICES ASSUME NEW b \in Opened, NEW at \in Nat
             PROVE  IsLine(Line(b, at))
  BY DEF AllLines
<1>1. Line(b, at) \subseteq transactions
  BY DEF Line, Seen
<1> QED BY <1>1, LineIsChain DEF IsLine

LEMMA OlderIsLine ==
  ASSUME IdsInv, BranchInv, NEW T, IsLine(T), NEW k \in T
  PROVE  /\ IsLine(Before(k)) /\ IsLine(Past(k))
         /\ Before(k) = {j \in T : j.tx < k.tx} /\ Past(k) \subseteq T /\ k \in Past(k)
<1>1. \A j, i \in T : j.tx \in Nat /\ (j.tx = i.tx => j = i)
  BY Numbers DEF IdsInv, IsLine
<1>2. Past(k) = {j \in T : j.tx =< k.tx} /\ T \subseteq transactions
  BY DEF IsLine
<1>3. Before(k) = {j \in T : j.tx < k.tx}
  BY <1>1, <1>2 DEF Before
<1>4. ASSUME NEW i \in T, i.tx =< k.tx
      PROVE  Past(i) = {j \in Past(k) : j.tx =< i.tx}
  <2>1. Past(i) = {j \in T : j.tx =< i.tx}
    BY DEF IsLine
  <2> QED BY <1>1, <1>2, <1>4, <2>1
<1>5. ASSUME NEW i \in T, i.tx < k.tx
      PROVE  Past(i) = {j \in Before(k) : j.tx =< i.tx}
  <2>1. Past(i) = {j \in T : j.tx =< i.tx}
    BY DEF IsLine
  <2> QED BY <1>1, <1>3, <1>5, <2>1
<1> QED BY <1>1, <1>2, <1>3, <1>4, <1>5 DEF IsLine

\* What a transaction could see it can see for ever.
LEMMA PastStays ==
  ASSUME IdsInv, BranchInv, BranchInv', NEW at, Commits(at), NEW k \in transactions
  PROVE  Past(k)' = Past(k)
<1> DEFINE b == k.branch
           new == [branch |-> Branch(at), tx |-> NextTx]
<1>1. b \in Opened /\ k.tx \in 1 .. Cardinality(transactions)
  BY DEF IdsInv
<1>2. /\ transactions' = transactions \cup {new}
      /\ Cardinality(transactions) \in Nat /\ NextTx = Cardinality(transactions) + 1
  BY CommitAddsOne
<1>3. ScopesAt(b, k.tx)' = ScopesAt(b, k.tx)
  BY <1>1, ScopesStay
<1>4. PICK scopes : scopes = ScopesAt(b, k.tx)
  OBVIOUS
<1>5. /\ Len(scopes) \in Nat \ {0}
      /\ scopes[1] = [branch |-> b, upper |-> k.tx]
      /\ \A i \in 2 .. Len(scopes) : scopes[i].upper \in 1 .. Cardinality(transactions)
  BY <1>1, <1>4, ScopesOf
<1>6. ASSUME NEW i \in 1 .. Len(scopes)
      PROVE  ~InScope(scopes[i], new)
  <2>1. new.tx = Cardinality(transactions) + 1
    BY <1>2
  <2>2. scopes[i].upper \in 1 .. Cardinality(transactions)
    <3>1. CASE i = 1
      BY <1>1, <1>5, <3>1
    <3>2. CASE i # 1
      BY <1>5, <3>2
    <3> QED BY <3>1, <3>2
  <2> HIDE DEF new
  <2> QED BY <1>2, <2>1, <2>2 DEF InScope
<1>7. Past(k) = {j \in transactions : \E i \in 1 .. Len(scopes) : InScope(scopes[i], j)}
  BY <1>4 DEF Past, Line, Seen
<1>8. Past(k)' = {j \in transactions' : \E i \in 1 .. Len(scopes) : InScope(scopes[i], j)}
  BY <1>3, <1>4 DEF Past, Line, Seen, InScope
<1> HIDE DEF new
<1> QED BY <1>2, <1>6, <1>7, <1>8

\* So do the rows of older transactions.
LEMMA RowsStay ==
  ASSUME IdsInv, NEW at, Commits(at), NEW T, T \subseteq transactions
  PROVE  \A e : /\ \A p : RowsOf(T, e, p)' = RowsOf(T, e, p)
                /\ Newest(EntityRows(e), T)' = Newest(EntityRows(e), T)
<1> DEFINE n == NextTx
           b == Branch(at)
<1>1. /\ Adds(entities', entities, b, n) /\ Adds(assertions', assertions, b, n)
  BY CommitAdds
<1>2. \A t \in T : t.tx # n
  BY CommitAddsOne
<1>3. \A r : Key(r).tx = r.tx
  BY DEF Key
<1>4. \A r \in entities' : Key(r) \in T => r \in entities
  BY <1>1, <1>2, <1>3 DEF Adds, At
<1>5. \A r \in assertions' : Key(r) \in T => r \in assertions
  BY <1>1, <1>2, <1>3 DEF Adds, At
<1>6. entities \subseteq entities' /\ assertions \subseteq assertions'
  BY <1>1 DEF Adds
<1> TAKE e
<1>7. \A p : RowsOf(T, e, p)' = RowsOf(T, e, p)
  BY <1>5, <1>6 DEF RowsOf, Key
<1>8. Newest(EntityRows(e), T)' = Newest(EntityRows(e), T)
  BY <1>4, <1>6 DEF Newest, EntityRows, Key
<1> QED BY <1>7, <1>8

\* What a transaction that reads these scopes sees, and leaves behind.
ReadsHead(scopes) ==
  /\ Descends(scopes) /\ IsLine(Seen(scopes))
  /\ \A k : k = [branch |-> Branch(scopes), tx |-> NextTx] =>
       /\ k \notin Seen(scopes)
       /\ Past(k)' = Seen(scopes) \cup {k} /\ Before(k)' = Seen(scopes)

LEMMA StepReads ==
  ASSUME IdsInv, IdsInv', BranchInv, BranchInv', NEW scopes, Commits(scopes), OnLine(scopes)
  PROVE  ReadsHead(scopes)
<1>a. PICK n : n = NextTx
  OBVIOUS
<1> DEFINE b == Branch(scopes)
           new == [branch |-> b, tx |-> n]
<1>1. /\ n \in 1 .. MaxTx /\ n = Cardinality(transactions) + 1
      /\ transactions' = transactions \cup {new}
      /\ Cardinality(transactions) \in Nat
      /\ \A t \in transactions : t.tx \in 1 .. Cardinality(transactions)
      /\ MaxTx \in Nat
  BY <1>a, CommitAddsOne, TerraAssumption
<1>2. b \in Opened' /\ scopes = ScopesAt(b, MaxTx)'
  BY OpenedStay DEF OnLine
<1>3. new.branch = b /\ new.tx = n
  OBVIOUS
<1>4. LineUpTo' /\ AllDescend' /\ AllLines'
  <2>1. LineUpTo'
    BY LineBounds, PTL
  <2>2. AllDescend'
    BY ScopesDescend, PTL
  <2>3. AllLines'
    BY LinesAreLines, PTL
  <2> QED BY <2>1, <2>2, <2>3
<1> HIDE DEF new
<1>5. \A k \in transactions' :
        InLine(b, MaxTx, k)' <=> \E i \in 1 .. Len(scopes) : InScope(scopes[i], k)
  BY <1>2 DEF InLine, InScope
<1>6. InLine(b, MaxTx, new)'
  <2>1. LET q == ScopesAt(b, MaxTx)'
        IN  /\ Len(q) \in Nat \ {0} /\ q[1] = [branch |-> b, upper |-> MaxTx]
    <3>1. /\ Len(scopes) \in Nat
      BY <1>1, <1>2, <1>4 DEF AllDescend, Descends
    <3>2. scopes = <<[branch |-> b, upper |-> MaxTx]>> \o Ancestry(b)'
      BY <1>2 DEF ScopesAt
    <3>3. AncestryIsPath'
      BY PathOfAncestry, PTL
    <3>4. Ancestry(b)' \in Seq([branch : Opened', upper : 1 .. Cardinality(transactions')])
      BY <1>2, <3>3 DEF AncestryIsPath
    <3>5. \E q : q = Ancestry(b)'
      OBVIOUS
    <3>6. PICK q : q = Ancestry(b)'
      BY <3>5
    <3>7. q \in Seq([branch : Opened', upper : 1 .. Cardinality(transactions')])
           /\ scopes = <<[branch |-> b, upper |-> MaxTx]>> \o q
      BY <3>2, <3>4, <3>6
    <3>8. Len(scopes) \in Nat \ {0} /\ scopes[1] = [branch |-> b, upper |-> MaxTx]
      BY <3>7
    <3> QED BY <1>2, <3>8
  <2>2. 1 \in 1 .. Len(scopes) /\ InScope(scopes[1], new)
    BY <1>1, <1>2, <1>3, <2>1 DEF InScope
  <2> QED BY <1>1, <1>5, <2>2
<1>7. \A k \in transactions' : InLine(b, n, k)' <=> InLine(b, MaxTx, k)'
  <2>1. \A k \in transactions' : k.tx =< n /\ k.tx =< MaxTx
    BY <1>1, <1>3
  <2> QED BY <1>1, <1>2, <1>4, <2>1 DEF LineUpTo
<1>8. Line(b, n)' = Seen(scopes) \cup {new}
  <2>1. Line(b, n)' = {k \in transactions' : InLine(b, n, k)'}
    BY DEF Line, Seen, InLine
  <2>2. \A k \in transactions : k \in Seen(scopes) <=> InLine(b, MaxTx, k)'
    BY <1>1, <1>5 DEF Seen
  <2>3. Seen(scopes) \subseteq transactions
    BY DEF Seen
  <2> QED BY <1>1, <1>6, <1>7, <2>1, <2>2, <2>3
<1>9. new \notin Seen(scopes) /\ Past(new)' = Seen(scopes) \cup {new}
       /\ Before(new)' = Seen(scopes)
  <2>1. new \notin transactions
    BY <1>1, <1>3
  <2>2. new \notin Seen(scopes)
    BY <2>1 DEF Seen
  <2>3. Past(new)' = Line(b, n)'
    BY <1>3 DEF Past, Line, ScopesAt
  <2> QED BY <1>8, <2>2, <2>3 DEF Before
<1>10. IsLine(Seen(scopes))
  <2>1. \A k \in Line(b, n)' : Past(k)' = {j \in Line(b, n)' : j.tx =< k.tx}
    BY <1>1, <1>2, <1>4 DEF AllLines, IsLine
  <2>2. ASSUME NEW k \in Seen(scopes)
        PROVE  Past(k) = {j \in Seen(scopes) : j.tx =< k.tx}
    <3>1. k \in transactions /\ ~(new.tx =< k.tx)
      BY <1>1, <1>3 DEF Seen
    <3>2. Past(k)' = Past(k)
      BY <3>1, PastStays
    <3> QED BY <1>8, <2>1, <2>2, <3>1, <3>2
  <2>3. Seen(scopes) \subseteq transactions
    BY DEF Seen
  <2> QED BY <2>2, <2>3 DEF IsLine
<1>11. Descends(scopes)
  <2>1. /\ Len(scopes) \in Nat
        /\ \A i, j \in 1 .. Len(scopes) : \A k, l \in transactions' :
             i < j /\ InScope(scopes[i], k) /\ InScope(scopes[j], l) => l.tx < k.tx
    BY <1>1, <1>2, <1>4 DEF AllDescend, Descends, InScope
  <2> QED BY <1>1, <2>1 DEF Descends
<1> QED BY <1>a, <1>9, <1>10, <1>11 DEF ReadsHead, new

-----------------------------------------------------------------------------
(***************************************************************************)
(* What is kept of a property.                                             *)
(***************************************************************************)
\* What was not kept is not kept later either, unless a later assertion
\* addresses what came before.
LEMMA NoRevival ==
  ASSUME NEW D, NEW R, D \subseteq R, Kept(D) = {},
         \A a \in R \ D : \A s \in D : a.supersedes # s.tx
  PROVE  \A r \in D : r \notin Kept(R)
<1> SUFFICES ASSUME NEW r \in D, r \in Kept(R)
             PROVE  FALSE
  OBVIOUS
<1>1. /\ r.value # Null /\ ~Withdrawn(R, r)
      /\ \A s \in Ends(R) : s.tx =< r.tx
  BY DEF Kept
<1>2. ~Withdrawn(D, r)
  BY <1>1 DEF Withdrawn
<1>3. PICK s \in Ends(D) : ~(s.tx =< r.tx)
  BY <1>1, <1>2 DEF Kept
<1>4. s \in D /\ Terminal(s) /\ (HasStatuses => ~Withdrawn(D, s))
  BY DEF Ends
<1>5. Withdrawn(R, s) => Withdrawn(D, s)
  BY <1>4 DEF Withdrawn
<1>6. s \in Ends(R)
  BY <1>4, <1>5 DEF Ends
<1> QED BY <1>1, <1>3, <1>6

\* Assertions up to a transaction.
Older(rows, n) == \A r \in rows : r.tx \in Nat /\ r.tx < n /\ r.supersedes \in Nat /\ r.supersedes < r.tx

\* A terminal assertion that is the newest leaves at most itself.
LEMMA NewestEnds ==
  ASSUME NEW rows, NEW a, a.tx \in Nat, Older(rows, a.tx), Terminal(a)
  PROVE  Kept(rows \cup {a}) = {x \in {a} : x.value # Null}
<1> DEFINE R == rows \cup {a}
<1>1. a.supersedes = 0
  BY DEF Terminal, None
<1>2. ~Withdrawn(R, a)
  <2> SUFFICES ASSUME NEW s \in R, s.supersedes = a.tx, s.tx > a.tx
               PROVE  FALSE
    BY DEF Withdrawn
  <2>1. s \in rows \/ s = a
    OBVIOUS
  <2> QED BY <2>1 DEF Older
<1>3. a \in Ends(R)
  BY <1>2 DEF Ends
<1>4. \A s \in R : s.tx =< a.tx /\ (a.tx =< s.tx => s = a)
  BY DEF Older
<1>5. Kept(R) \subseteq {x \in {a} : x.value # Null}
  BY <1>3, <1>4 DEF Kept
<1>6. Ends(R) \subseteq R
  BY DEF Ends
<1>7. a.value # Null => a \in Kept(R)
  BY <1>2, <1>4, <1>6 DEF Kept
<1> QED BY <1>5, <1>7

\* Where nothing is kept, an assertion that addresses none is all there is.
LEMMA NewestAlone ==
  ASSUME NEW rows, NEW a, a.tx \in Nat, Older(rows, a.tx), a.supersedes = None, Kept(rows) = {}
  PROVE  Kept(rows \cup {a}) = {x \in {a} : x.value # Null}
<1> DEFINE R == rows \cup {a}
<1>1. a.supersedes = 0
  BY DEF None
<1>2. ~Withdrawn(R, a)
  <2> SUFFICES ASSUME NEW s \in R, s.supersedes = a.tx, s.tx > a.tx
               PROVE  FALSE
    BY DEF Withdrawn
  <2>1. s \in rows \/ s = a
    OBVIOUS
  <2> QED BY <2>1 DEF Older
<1>3. \A s \in R : s.tx =< a.tx
  BY DEF Older
<1>4. Ends(R) \subseteq R
  BY DEF Ends
<1>5. a.value # Null => a \in Kept(R)
  BY <1>2, <1>3, <1>4 DEF Kept
<1>6. \A r \in rows : r \notin Kept(R) \/ r = a
  <2> SUFFICES ASSUME NEW r \in rows, r \in Kept(R), r # a
               PROVE  FALSE
    OBVIOUS
  <2>1. /\ r.value # Null /\ ~Withdrawn(R, r)
        /\ \A s \in Ends(R) : s.tx =< r.tx
    BY DEF Kept
  <2>2. ~Withdrawn(rows, r)
    BY <2>1 DEF Withdrawn
  <2>3. PICK s \in Ends(rows) : ~(s.tx =< r.tx)
    BY <2>1, <2>2 DEF Kept
  <2>4. s \in rows /\ Terminal(s) /\ (HasStatuses => ~Withdrawn(rows, s))
    BY DEF Ends
  <2>5. Withdrawn(R, s) => Withdrawn(rows, s)
    <3>1. ASSUME NEW q \in R, q.supersedes = s.tx, q.tx > s.tx
          PROVE  q \in rows
      <4>1. s.tx \in Nat /\ s.supersedes \in Nat /\ s.supersedes < s.tx
        BY <2>4 DEF Older
      <4>2. q # a
        BY <1>1, <3>1, <4>1
      <4> QED BY <3>1, <4>2
    <3> QED BY <3>1 DEF Withdrawn
  <2>6. s \in Ends(R)
    BY <2>4, <2>5 DEF Ends
  <2> QED BY <2>1, <2>3, <2>6
<1>7. Kept(R) \subseteq R
  BY DEF Kept
<1>8. \A x \in Kept(R) : x = a /\ x.value # Null
  <2>1. \A x \in Kept(R) : x.value # Null
    BY DEF Kept
  <2> QED BY <1>6, <1>7, <2>1
<1> HIDE DEF R
<1>9. Kept(R) = {x \in {a} : x.value # Null}
  BY <1>5, <1>8
<1> QED BY <1>9 DEF R

-----------------------------------------------------------------------------
(***************************************************************************)
(* What a line shows.                                                      *)
(***************************************************************************)
Showing(T, e, p) == Kept(RowsOf(T, e, p))

\* A deletion leaves nothing to show.
DeadInv == \A d \in entities : d.deleted => \A p \in Props : Showing(Past(Key(d)), d.entity, p) = {}

\* An assertion addresses one that was shown.
TargetInv ==
  \A r \in assertions : r.supersedes # None =>
    \E q \in Showing(Before(Key(r)), r.entity, r.prop) : q.tx = r.supersedes

\* An assertion is about an entity that its transaction writes or finds alive.
HomeInv ==
  \A a \in assertions :
    \/ \E d \in entities : d.entity = a.entity /\ Key(d) = Key(a)
    \/ Alive(a.entity, Before(Key(a)))

LineInv == DeadInv /\ TargetInv /\ HomeInv

\* What a line shows was asserted after any deletion on it.
LEMMA DeadStayHidden ==
  ASSUME IdsInv, BranchInv, RowInv, LineInv, NEW T, IsLine(T),
         NEW d \in entities, d.deleted, Key(d) \in T, NEW p \in Props
  PROVE  \A a \in Showing(T, d.entity, p) : d.tx < a.tx
<1> DEFINE e == d.entity
           D == RowsOf(Past(Key(d)), e, p)
           Rows(S) == RowsOf(S, e, p)
           Back(n) == \E a \in Rows(T), s \in D : a.tx = n /\ a \notin D /\ a.supersedes = s.tx
           Bad == {n \in Nat : Back(n)}
<1>0. \A k \in transactions : k.tx \in Nat
  BY Numbers
<1>1. /\ \A r \in Rows(T) : r \in assertions /\ Key(r) \in T /\ Key(r).tx = r.tx /\ r.tx \in Nat
                            /\ r.entity = e /\ r.prop = p
      /\ Key(d).tx = d.tx /\ d.tx \in Nat
  BY <1>0 DEF RowsOf, Key, IsLine
<1>2. Past(Key(d)) = {j \in T : j.tx =< d.tx} /\ Past(Key(d)) \subseteq T
  BY <1>1 DEF IsLine
<1>3. D = {a \in Rows(T) : a.tx =< d.tx}
  BY <1>1, <1>2 DEF RowsOf
<1>4. Kept(D) = {}
  BY DEF LineInv, DeadInv, Showing
<1>5. Bad = {}
  <2> SUFFICES ASSUME Bad # {}
               PROVE  FALSE
    OBVIOUS
  <2>1. PICK n \in Bad : \A m \in Bad : n =< m
    <3>1. Bad \in SUBSET Nat
      OBVIOUS
    <3> HIDE DEF Bad
    <3> QED BY <3>1, LeastNumber
  <2>2. PICK a \in Rows(T), s \in D : a.tx = n /\ a \notin D /\ a.supersedes = s.tx
    BY <2>1
  <2>3. a.supersedes # None
    <3>1. s \in assertions
      BY DEF RowsOf
    <3>2. s.supersedes \in Nat /\ s.supersedes < s.tx /\ s.tx \in Nat
      BY <1>1, <1>3, <3>1 DEF RowInv
    <3> QED BY <2>2, <3>2 DEF None
  <2> DEFINE B == Before(Key(a))
  <2>4. PICK q \in Kept(Rows(B)) : q.tx = s.tx
    <3>1. a \in assertions /\ a.entity = e /\ a.prop = p
      BY <1>1
    <3>2. \E q \in Showing(B, e, p) : q.tx = s.tx
      BY <2>2, <2>3, <3>1 DEF LineInv, TargetInv
    <3> QED BY <3>2 DEF Showing
  <2>5. B = {j \in T : j.tx < a.tx}
    <3>1. Key(a) \in T /\ Key(a).tx = a.tx
      BY <1>1
    <3> HIDE DEF B
    <3>2. B = {j \in T : j.tx < Key(a).tx}
      BY <3>1, OlderIsLine DEF B
    <3> QED BY <3>1, <3>2
  <2>6. Rows(B) = {r \in Rows(T) : r.tx < a.tx}
    BY <1>1, <2>5 DEF RowsOf
  <2>7. d.tx < a.tx
    BY <1>1, <1>3, <2>2
  <2>8. D \subseteq Rows(B)
    BY <1>1, <1>3, <2>6, <2>7
  <2>9. \A r \in Rows(B) \ D : \A c \in D : r.supersedes # c.tx
    <3> SUFFICES ASSUME NEW r \in Rows(B), r \notin D, NEW c \in D, r.supersedes = c.tx
                 PROVE  FALSE
      OBVIOUS
    <3>1. r \in Rows(T) /\ r.tx < a.tx /\ r.tx \in Nat
      BY <1>1, <2>6
    <3>2. r.tx \in Bad
      BY <3>1
    <3>3. n =< r.tx /\ a.tx = n
      BY <2>1, <2>2, <3>2
    <3> QED BY <1>1, <3>1, <3>3
  <2>10. q = s
    <3>1. q \in Rows(B) /\ s \in Rows(B)
      BY <2>8 DEF Kept
    <3>2. q \in assertions /\ s \in assertions /\ q.entity = s.entity /\ q.prop = s.prop
      BY <3>1 DEF RowsOf
    <3> QED BY <2>4, <3>2 DEF RowInv
  <2> HIDE DEF D, Rows, B
  <2>11. s \notin Kept(Rows(B))
    BY <1>4, <2>2, <2>8, <2>9, NoRevival
  <2> QED BY <2>4, <2>10, <2>11
<1>6. \A a \in Rows(T) \ D : \A s \in D : a.supersedes # s.tx
  BY <1>1, <1>5
<1> HIDE DEF Bad
<1>7. D \subseteq Rows(T)
  BY <1>3
<1> HIDE DEF D, Rows
<1>8. \A r \in D : r \notin Kept(Rows(T))
  BY <1>4, <1>6, <1>7, NoRevival
<1>9. Kept(Rows(T)) \subseteq Rows(T)
  BY DEF Kept
<1> QED BY <1>1, <1>3, <1>8, <1>9 DEF Showing, Rows

\* The newest of some entity's records, if it has any.
LEMMA NewestRecord ==
  ASSUME IdsInv, RowInv, NEW T, T \subseteq transactions, NEW e,
         NEW c \in EntityRows(e), Key(c) \in T
  PROVE  /\ Newest(EntityRows(e), T) # {}
         /\ \A d \in Newest(EntityRows(e), T) :
              d \in entities /\ d.entity = e /\ Key(d) \in T /\ Key(d).tx = d.tx /\ d.tx \in Nat
              /\ \A x \in EntityRows(e) : Key(x) \in T => x.tx =< d.tx
<1> DEFINE R == {d \in EntityRows(e) : Key(d) \in T}
<1>0. \A r : Key(r).tx = r.tx
  BY DEF Key
<1>1. Cardinality(transactions) \in Nat /\ \A r \in R : r.tx \in 1 .. Cardinality(transactions)
  BY TxOfRows DEF EntityRows
<1>2. R # {} /\ \A r \in EntityRows(e) : Key(r) \in T => r \in R
  OBVIOUS
<1>3. \A r \in R : r \in EntityRows(e) /\ Key(r) \in T
  OBVIOUS
<1> HIDE DEF R
<1>4. PICK d \in R : \A s \in R : s.tx =< d.tx
  BY <1>1, <1>2, LatestOf
<1>5. d \in Newest(EntityRows(e), T)
  BY <1>2, <1>3, <1>4 DEF Newest
<1> QED BY <1>0, <1>1, <1>2, <1>5 DEF Newest, EntityRows

\* What is not there shows nothing.
LEMMA AbsentShowsNothing ==
  ASSUME IdsInv, BranchInv, RowInv, LineInv, NEW T, IsLine(T), NEW e, ~Alive(e, T),
         NEW p \in Props
  PROVE  Showing(T, e, p) = {}
<1> SUFFICES ASSUME NEW a \in Showing(T, e, p)
             PROVE  FALSE
  OBVIOUS
<1>0. T \subseteq transactions
  BY DEF IsLine
<1>1. a \in assertions /\ a.entity = e /\ a.prop = p /\ Key(a) \in T /\ Key(a).tx = a.tx
  BY DEF Showing, Kept, RowsOf, Key
<1>2. Before(Key(a)) = {j \in T : j.tx < a.tx}
  <2>1. PICK k \in T : k = Key(a)
    BY <1>1
  <2>2. Before(k) = {j \in T : j.tx < k.tx}
    BY OlderIsLine
  <2> QED BY <1>1, <2>1, <2>2
<1>3. \/ \E d \in entities : d.entity = a.entity /\ Key(d) = Key(a)
      \/ Alive(a.entity, Before(Key(a)))
  BY <1>1 DEF LineInv, HomeInv
<1>4. \E c \in EntityRows(e) : Key(c) \in T
  <2>1. CASE \E d \in entities : d.entity = a.entity /\ Key(d) = Key(a)
    BY <1>1, <2>1 DEF EntityRows
  <2>2. CASE Alive(a.entity, Before(Key(a)))
    BY <1>1, <1>2, <2>2 DEF Alive, Newest
  <2> QED BY <1>3, <2>1, <2>2
<1>5. PICK d \in Newest(EntityRows(e), T) :
        d \in entities /\ d.entity = e /\ Key(d) \in T /\ Key(d).tx = d.tx /\ d.tx \in Nat
        /\ \A x \in EntityRows(e) : Key(x) \in T => x.tx =< d.tx
  BY <1>0, <1>4, NewestRecord
<1>6. d.deleted
  BY DEF Alive
<1>7. d.tx < a.tx
  BY <1>1, <1>5, <1>6, DeadStayHidden
<1>8. CASE \E c \in entities : c.entity = a.entity /\ Key(c) = Key(a)
  <2>1. PICK c \in entities : c.entity = e /\ Key(c) = Key(a)
    BY <1>1, <1>8
  <2>2. c.tx = a.tx
    BY <2>1 DEF Key
  <2>3. c.tx =< d.tx /\ a.tx \in Nat
    BY <1>0, <1>1, <1>5, <2>1, Numbers DEF EntityRows
  <2> QED BY <1>5, <1>7, <2>2, <2>3
<1>9. CASE Alive(a.entity, Before(Key(a)))
  <2>1. PICK c \in Newest(EntityRows(e), Before(Key(a))) : ~c.deleted
    BY <1>1, <1>9 DEF Alive
  <2>2. /\ c \in entities /\ c.entity = e /\ Key(c) \in T
        /\ \A x \in EntityRows(e) : Key(x) \in Before(Key(a)) => x.tx =< c.tx
    BY <1>2 DEF Newest, EntityRows
  <2>3. d.tx =< c.tx
    BY <1>2, <1>5, <1>7, <2>2 DEF EntityRows
  <2>4. c.tx =< d.tx
    BY <1>5, <2>2 DEF EntityRows
  <2>5. c.tx \in Nat
    <3>1. Key(c).tx = c.tx
      BY DEF Key
    <3> QED BY <1>0, <2>2, <3>1, Numbers
  <2>6. c = d
    BY <1>5, <2>2, <2>3, <2>4, <2>5 DEF RowInv
  <2> QED BY <1>6, <2>1, <2>6
<1> QED BY <1>3, <1>8, <1>9

\* Without statuses a property shows one assertion at most.
LEMMA OneIsShown ==
  ASSUME IdsInv, BranchInv, RowInv, LineInv, ~HasStatuses, NEW T, IsLine(T), NEW e, NEW p
  PROVE  \A r, s \in Showing(T, e, p) : r = s
<1> DEFINE Pair(S, r, s) == r \in Showing(S, e, p) /\ s \in Showing(S, e, p) /\ r.tx < s.tx
           Two(n) == \E S : IsLine(S) /\ \E r, s : Pair(S, r, s) /\ s.tx = n
           Bad == {n \in Nat : Two(n)}
<1>0. \A S : IsLine(S) => \A r \in Showing(S, e, p) :
        /\ r \in assertions /\ r.entity = e /\ r.prop = p /\ Key(r) \in S /\ Key(r).tx = r.tx
        /\ r.tx \in Nat \ {0}
  <2> SUFFICES ASSUME NEW S, IsLine(S), NEW r \in Showing(S, e, p)
               PROVE  /\ r \in assertions /\ r.entity = e /\ r.prop = p
                      /\ Key(r) \in S /\ Key(r).tx = r.tx /\ r.tx \in Nat \ {0}
    OBVIOUS
  <2>1. r \in assertions /\ r.entity = e /\ r.prop = p /\ Key(r) \in S /\ Key(r).tx = r.tx
    BY DEF Showing, Kept, RowsOf, Key
  <2>2. Key(r) \in transactions
    BY <2>1 DEF IsLine
  <2> QED BY <2>1, <2>2, Numbers
<1>1. ASSUME NEW S, IsLine(S), NEW r, NEW s, Pair(S, r, s)
      PROVE  \E n \in Nat : n < s.tx /\ Two(n)
  <2>1. /\ r \in assertions /\ r.entity = e /\ r.prop = p /\ Key(r) \in S /\ r.tx \in Nat
        /\ s \in assertions /\ s.entity = e /\ s.prop = p /\ Key(s) \in S /\ s.tx \in Nat \ {0}
        /\ Key(r).tx = r.tx /\ Key(s).tx = s.tx /\ r.tx < s.tx
    BY <1>0, <1>1
  <2>2. /\ r \in RowsOf(S, e, p) /\ s \in RowsOf(S, e, p)
        /\ r.value # Null /\ ~Withdrawn(RowsOf(S, e, p), r)
        /\ \A x \in Ends(RowsOf(S, e, p)) : x.tx =< r.tx
    BY <1>1 DEF Showing, Kept
  <2>3. s.supersedes # None
    <3>1. SUFFICES ASSUME s.supersedes = None
                   PROVE  FALSE
      OBVIOUS
    <3>2. s \in Ends(RowsOf(S, e, p))
      BY <2>2, <3>1 DEF Ends, Terminal
    <3> QED BY <2>1, <2>2, <3>2
  <2> DEFINE B == Before(Key(s))
  <2>4. PICK q \in Showing(B, e, p) : q.tx = s.supersedes
    BY <2>1, <2>3 DEF LineInv, TargetInv
  <2>5. IsLine(B) /\ B = {j \in S : j.tx < s.tx}
    <3>1. PICK k \in S : k = Key(s)
      BY <2>1
    <3>2. IsLine(Before(k)) /\ Before(k) = {j \in S : j.tx < k.tx}
      BY <1>1, OlderIsLine
    <3> QED BY <2>1, <3>1, <3>2
  <2> HIDE DEF B
  <2>6. RowsOf(B, e, p) \subseteq RowsOf(S, e, p) /\ r \in RowsOf(B, e, p)
    BY <2>1, <2>5 DEF RowsOf
  <2>7. ~Withdrawn(RowsOf(B, e, p), r)
    BY <2>2, <2>6 DEF Withdrawn
  <2>8. Ends(RowsOf(B, e, p)) \subseteq Ends(RowsOf(S, e, p))
    BY <2>6 DEF Ends
  <2>9. r \in Showing(B, e, p)
    BY <2>2, <2>6, <2>7, <2>8 DEF Showing, Kept
  <2>10. q.tx \in Nat /\ q.tx < s.tx
    BY <1>0, <2>1, <2>4, <2>5
  <2>11. r.tx # q.tx
    <3>1. SUFFICES ASSUME s.supersedes = r.tx
                   PROVE  FALSE
      BY <2>4
    <3>2. Withdrawn(RowsOf(S, e, p), r)
      BY <2>1, <2>2, <3>1 DEF Withdrawn
    <3> QED BY <2>2, <3>2
  <2>12. CASE r.tx < q.tx
    <3>1. Pair(B, r, q)
      BY <2>4, <2>9, <2>12
    <3> HIDE DEF Pair
    <3> QED BY <2>5, <2>10, <3>1
  <2>13. CASE q.tx < r.tx
    <3>1. Pair(B, q, r)
      BY <2>4, <2>9, <2>13
    <3> HIDE DEF Pair
    <3> QED BY <2>1, <2>5, <3>1
  <2> QED BY <2>1, <2>10, <2>11, <2>12, <2>13
<1>2. Bad = {}
  <2> SUFFICES ASSUME Bad # {}
               PROVE  FALSE
    OBVIOUS
  <2>1. PICK n \in Bad : \A m \in Bad : n =< m
    <3>1. Bad \in SUBSET Nat
      OBVIOUS
    <3> HIDE DEF Bad
    <3> QED BY <3>1, LeastNumber
  <2>2. PICK S, r, s : IsLine(S) /\ Pair(S, r, s) /\ s.tx = n
    BY <2>1
  <2> HIDE DEF Pair, Two
  <2>3. PICK m \in Nat : m < n /\ Two(m)
    BY <1>1, <2>2
  <2>4. m \in Bad /\ n \in Nat
    BY <2>3
  <2> HIDE DEF Bad
  <2> QED BY <2>1, <2>3, <2>4
<1>3. \A r, s \in Showing(T, e, p) : ~(r.tx < s.tx)
  <2> SUFFICES ASSUME NEW r \in Showing(T, e, p), NEW s \in Showing(T, e, p), r.tx < s.tx
               PROVE  FALSE
    OBVIOUS
  <2>1. Pair(T, r, s) /\ s.tx \in Nat
    BY <1>0
  <2> HIDE DEF Pair
  <2>2. s.tx \in Bad
    BY <2>1
  <2> QED BY <1>2, <2>2
<1> HIDE DEF Bad, Two, Pair
<1> SUFFICES ASSUME NEW r \in Showing(T, e, p), NEW s \in Showing(T, e, p)
             PROVE  r = s
  OBVIOUS
<1>4. ~(r.tx < s.tx) /\ ~(s.tx < r.tx)
  BY <1>3
<1>5. /\ r \in assertions /\ r.entity = e /\ r.prop = p /\ r.tx \in Nat
      /\ s \in assertions /\ s.entity = e /\ s.prop = p /\ s.tx \in Nat
  BY <1>0
<1> QED BY <1>4, <1>5 DEF RowInv

\* What a branch shows is what its line shows.
LEMMA VisibleIsShowing ==
  ASSUME IdsInv, RowInv, NEW scopes, NEW e, NEW p
  PROVE  Visible(scopes, e, p) = Showing(Seen(scopes), e, p)
<1>1. Stream(scopes, e, p) = RowsOf(Seen(scopes), e, p)
  BY StreamSeen
<1>2. Proper(Stream(scopes, e, p))
  BY StreamIsProper
<1> QED BY <1>1, <1>2, MergeKeeps DEF Visible, Showing

LEMMA ShownIsShowing ==
  ASSUME IdsInv, BranchInv, RowInv, LineInv, NEW scopes, IsLine(Seen(scopes)), NEW e, NEW p
  PROVE  Shown(scopes, e, p) = Showing(Seen(scopes), e, p)
<1>1. Visible(scopes, e, p) = Showing(Seen(scopes), e, p)
  BY VisibleIsShowing
<1>2. /\ Shown(scopes, e, p) \subseteq Visible(scopes, e, p)
      /\ Shown(scopes, e, p) = {} => Visible(scopes, e, p) = {}
  BY ShownIsVisible
<1>3. CASE HasStatuses
  BY <1>1, <1>3 DEF Shown
<1>4. CASE ~HasStatuses
  <2>1. \A r, s \in Showing(Seen(scopes), e, p) : r = s
    BY <1>4, OneIsShown
  <2> QED BY <1>1, <1>2, <2>1
<1> QED BY <1>3, <1>4

LEMMA LinesKeepDeletions ==
  ASSUME TreeInv, RowInv, LineInv
  PROVE  DeletionsAreFinal
<1> USE DEF TreeInv
<1> SUFFICES ASSUME NEW b \in Opened, NEW e \in Entities, NEW p \in Props
             PROVE  /\ \A t \in transactions :
                         LiveRecord(ScopesAt(b, t.tx), e) = {} => Visible(ScopesAt(b, t.tx), e, p) = {}
                    /\ \A d \in {r \in EntityRows(e) : r.deleted}, a \in Visible(Scopes(b), e, p) :
                         (\E i \in 1 .. Len(Scopes(b)) : InScope(Scopes(b)[i], d)) => a.tx > d.tx
  BY DEF DeletionsAreFinal
<1>1. AllLines /\ AllDescend
  BY LinesAreLines, ScopesDescend
<1>2. ASSUME NEW t \in transactions, LiveRecord(ScopesAt(b, t.tx), e) = {}
      PROVE  Visible(ScopesAt(b, t.tx), e, p) = {}
  <2> DEFINE scopes == ScopesAt(b, t.tx)
  <2>1. t.tx \in Nat
    BY Numbers
  <2>2. IsLine(Seen(scopes)) /\ Descends(scopes)
    BY <1>1, <2>1 DEF AllLines, AllDescend, Line
  <2> HIDE DEF scopes
  <2>3. LiveRecord(scopes, e) = {}
    BY <1>2 DEF scopes
  <2>4. ~Alive(e, Seen(scopes))
    BY <2>2, <2>3, RecordSeen
  <2>5. Visible(scopes, e, p) = {}
    BY <2>2, <2>4, AbsentShowsNothing, VisibleIsShowing
  <2> QED BY <2>5 DEF scopes
<1>3. ASSUME NEW d \in EntityRows(e), d.deleted, NEW a \in Visible(Scopes(b), e, p),
             \E i \in 1 .. Len(Scopes(b)) : InScope(Scopes(b)[i], d)
      PROVE  a.tx > d.tx
  <2> DEFINE scopes == Scopes(b)
  <2>1. IsLine(Seen(scopes))
    BY <1>1, TerraAssumption DEF AllLines, Line, Scopes
  <2> HIDE DEF scopes
  <2>2. a \in Showing(Seen(scopes), e, p)
    BY <1>3, VisibleIsShowing DEF scopes
  <2>3. d \in entities /\ d.entity = e
    BY DEF EntityRows
  <2>4. \E i \in 1 .. Len(scopes) : InScope(scopes[i], Key(d))
    BY <1>3 DEF InScope, Key, scopes
  <2>5. Key(d) \in Seen(scopes)
    BY <2>3, <2>4 DEF Seen, RowInv
  <2>6. d.tx < a.tx
    BY <1>3, <2>1, <2>2, <2>3, <2>5, DeadStayHidden
  <2> QED BY <2>6
<1> QED BY <1>2, <1>3

\* What is embedded: the properties shown, each with its transaction.
Text(T, e) == UNION {{<<p, a.tx>> : a \in Showing(T, e, p)} : p \in Props}

\* An embedding describes its entity as its transaction leaves it.
EmbedInv ==
  \A r \in embeddings :
    IF Alive(r.entity, Past(Key(r)))
    THEN r.active /\ r.text = Text(Past(Key(r)), r.entity)
    ELSE ~r.active

\* A transaction that writes about an entity embeds it.
EmbeddedInv ==
  \A x \in entities \cup assertions :
    \E r \in embeddings : r.entity = x.entity /\ Key(r) = Key(x)

TextInv == EmbedInv /\ EmbeddedInv

LEMMA LinesKeepTexts ==
  ASSUME TreeInv, RowInv, LineInv, TextInv
  PROVE  EmbeddingsDescribeWhatIsShown
<1> USE DEF TreeInv
<1> SUFFICES ASSUME NEW b \in Opened, NEW e \in Entities,
                    NEW r \in GetLatest(EmbeddingRows(e), Scopes(b))
             PROVE  IF LiveRecord(Scopes(b), e) = {} THEN ~r.active
                    ELSE /\ r.active
                         /\ r.text = UNION {{<<p, a.tx>> : a \in Shown(Scopes(b), e, p)} :
                                              p \in Props}
  BY DEF EmbeddingsDescribeWhatIsShown
<1> DEFINE scopes == Scopes(b)
           T == Seen(scopes)
           k == Key(r)
<1>1. IsLine(T) /\ Descends(scopes)
  <2>1. AllLines /\ AllDescend
    BY LinesAreLines, ScopesDescend
  <2> QED BY <2>1, TerraAssumption DEF AllLines, AllDescend, Line, Scopes
<1>2. r \in Newest(EmbeddingRows(e), T)
  <2> DEFINE R == EmbeddingRows(e)
  <2>1. /\ \A x \in R : Key(x) \in transactions
        /\ \A x, y \in R : x.tx = y.tx => x = y
    BY DEF EmbeddingRows, RowInv
  <2> HIDE DEF R, T, scopes
  <2>2. r \in GetLatest(R, scopes)
    BY DEF R, scopes
  <2>3. GetLatest(R, scopes) = Newest(R, Seen(scopes))
    BY <1>1, <2>1, LatestSeen
  <2> QED BY <2>2, <2>3 DEF R, T
<1> HIDE DEF scopes
<1>3. /\ r \in embeddings /\ r.entity = e /\ k \in T /\ k.tx = r.tx
      /\ \A x \in embeddings : x.entity = e /\ Key(x) \in T => x.tx =< r.tx
  BY <1>2 DEF Newest, EmbeddingRows, Key
<1> HIDE DEF T, k
<1>4. Past(k) = {j \in T : j.tx =< r.tx}
  BY <1>1, <1>3 DEF IsLine
<1>5. \A x \in entities \cup assertions : x.entity = e /\ Key(x) \in T => Key(x) \in Past(k)
  <2> SUFFICES ASSUME NEW x \in entities \cup assertions, x.entity = e, Key(x) \in T
               PROVE  Key(x) \in Past(k)
    OBVIOUS
  <2>1. PICK y \in embeddings : y.entity = x.entity /\ Key(y) = Key(x)
    BY DEF TextInv, EmbeddedInv
  <2>2. y.tx =< r.tx
    BY <1>3, <2>1
  <2>3. Key(x).tx = y.tx
    BY <2>1 DEF Key
  <2> QED BY <1>4, <2>2, <2>3
<1>6. Past(k) \subseteq T
  BY <1>4
<1>7. \A p : RowsOf(T, e, p) = RowsOf(Past(k), e, p)
  BY <1>5, <1>6 DEF RowsOf
<1>8. Newest(EntityRows(e), T) = Newest(EntityRows(e), Past(k))
  BY <1>5, <1>6 DEF Newest, EntityRows
<1>9. Alive(e, T) <=> Alive(e, Past(k))
  BY <1>8 DEF Alive
<1>10. LiveRecord(scopes, e) = {} <=> ~Alive(e, T)
  BY <1>1, RecordSeen DEF T
<1>11. \A p : Shown(scopes, e, p) = Showing(Past(k), e, p)
  <2>1. \A p : Shown(scopes, e, p) = Showing(T, e, p)
    BY <1>1, ShownIsShowing DEF T
  <2> QED BY <1>7, <2>1 DEF Showing
<1>12. UNION {{<<p, a.tx>> : a \in Shown(scopes, e, p)} : p \in Props} = Text(Past(k), e)
  BY <1>11 DEF Text
<1>13. IF Alive(e, Past(k)) THEN r.active /\ r.text = Text(Past(k), e) ELSE ~r.active
  BY <1>3 DEF TextInv, EmbedInv, k
<1>14. IF LiveRecord(scopes, e) = {} THEN ~r.active
       ELSE /\ r.active
            /\ r.text = UNION {{<<p, a.tx>> : a \in Shown(scopes, e, p)} : p \in Props}
  BY <1>9, <1>10, <1>12, <1>13, Zenon
<1> QED BY <1>14 DEF scopes

-----------------------------------------------------------------------------
(***************************************************************************)
(* What an operation on an entity does.                                    *)
(***************************************************************************)
IsIdle(op) == op.entities = {} /\ op.assertions = {} /\ op.embeddings = {}

IsWrite(op, scopes, tx, e) ==
  /\ \/ op.entities = {EntityRow(scopes, tx, e, FALSE)}
     \/ op.entities = {} /\ ~IsNew(scopes, e)
  /\ op.embeddings = {EmbeddingRow(scopes, tx, e, TRUE, EmbedText(scopes, e, op.assertions))}

IsDeletion(op, scopes, tx, e) ==
  /\ op.entities = {EntityRow(scopes, tx, e, TRUE)}
  /\ op.assertions = Withdrawals(scopes, tx, e, TRUE)
  /\ op.embeddings = {EmbeddingRow(scopes, tx, e, FALSE, {})}

LEMMA OperationCases ==
  ASSUME NEW scopes, NEW tx, NEW e, NEW op \in EntityOperations(scopes, tx, e)
  PROVE  IsIdle(op) \/ IsWrite(op, scopes, tx, e) \/ IsDeletion(op, scopes, tx, e)
<1>1. CASE op \in Write(scopes, tx, e)
  <2>1. PICK D \in Descriptions(scopes, tx, e), A \in Assertions(scopes, tx, e) :
          op = Written(scopes, tx, e, D, A)
    BY <1>1, Writes
  <2>2. /\ op.entities = D /\ op.assertions = A
        /\ op.embeddings = {EmbeddingRow(scopes, tx, e, TRUE, EmbedText(scopes, e, A))}
    BY <2>1 DEF Written
  <2>3. D = {EntityRow(scopes, tx, e, FALSE)} \/ (D = {} /\ ~IsNew(scopes, e))
    BY DEF Descriptions
  <2> QED BY <2>2, <2>3 DEF IsWrite
<1>2. CASE op \in Delete(scopes, tx, e)
  <2>1. op = Deletion(scopes, tx, e, Withdrawals(scopes, tx, e, TRUE))
    BY <1>2 DEF Delete
  <2> QED BY <2>1 DEF Deletion, IsDeletion
<1>3. CASE op = [entities |-> {}, assertions |-> {}, embeddings |-> {}, changes |-> {}]
  BY <1>3 DEF IsIdle
<1> QED BY <1>1, <1>2, <1>3 DEF EntityOperations

\* The rows of the operations are the new rows.
Operates(op, scopes, new) ==
  \A e \in Entities :
    /\ IsIdle(op[e]) \/ IsWrite(op[e], scopes, new.tx, e) \/ IsDeletion(op[e], scopes, new.tx, e)
    /\ \A r \in op[e].entities : r.entity = e /\ Key(r) = new /\ r \in entities'
    /\ \A r \in op[e].assertions : r.entity = e /\ Key(r) = new /\ r \in assertions'
    /\ \A r \in op[e].embeddings : r.entity = e /\ Key(r) = new /\ r \in embeddings'
    /\ Asserts(op[e].assertions, scopes, new.tx, e)

OnlyRows(op, new) ==
  /\ \A r \in entities' : r \in entities \/ \E e \in Entities : r \in op[e].entities
  /\ \A r \in assertions' : r \in assertions \/ \E e \in Entities : r \in op[e].assertions
  /\ \A r \in embeddings' : r \in embeddings \/ \E e \in Entities : r \in op[e].embeddings
  /\ \A r \in entities \cup assertions \cup embeddings : Key(r) \in transactions /\ Key(r) # new
  /\ entities \subseteq entities' /\ assertions \subseteq assertions'
  /\ embeddings \subseteq embeddings'

LEMMA StepOperates ==
  ASSUME IdsInv, RowInv, NEW scopes, Commits(scopes),
         NEW new, new = [branch |-> Branch(scopes), tx |-> NextTx]
  PROVE  \E op : Operates(op, scopes, new) /\ OnlyRows(op, new)
<1>1. PICK op, item : Performs(op, item, scopes)
  BY CommitPerforms
<1>2. new.branch = Branch(scopes) /\ new.tx = NextTx
  OBVIOUS
<1>3. new \notin transactions
  BY <1>2, CommitAddsOne
<1>4. ASSUME NEW e \in Entities
      PROVE  /\ IsIdle(op[e]) \/ IsWrite(op[e], scopes, new.tx, e)
                \/ IsDeletion(op[e], scopes, new.tx, e)
             /\ \A r \in op[e].entities : r.entity = e /\ Key(r) = new
             /\ \A r \in op[e].assertions : r.entity = e /\ Key(r) = new
             /\ \A r \in op[e].embeddings : r.entity = e /\ Key(r) = new
             /\ Asserts(op[e].assertions, scopes, new.tx, e)
  <2>1. op[e] \in EntityOperations(scopes, new.tx, e)
    BY <1>1, <1>2 DEF Performs
  <2>2. IsIdle(op[e]) \/ IsWrite(op[e], scopes, new.tx, e) \/ IsDeletion(op[e], scopes, new.tx, e)
    BY <2>1, OperationCases
  <2>3. /\ At(op[e].entities, Branch(scopes), new.tx) /\ \A r \in op[e].entities : r.entity = e
        /\ Asserts(op[e].assertions, scopes, new.tx, e)
        /\ At(op[e].embeddings, Branch(scopes), new.tx) /\ \A r \in op[e].embeddings : r.entity = e
    BY <2>1, OperationRows
  <2>4. \A r : r.branch = Branch(scopes) /\ r.tx = new.tx => Key(r) = new
    BY <1>2 DEF Key
  <2> QED BY <2>2, <2>3, <2>4 DEF At, Asserts
<1>5. Operates(op, scopes, new)
  BY <1>1, <1>4 DEF Operates, Performs
<1>6. OnlyRows(op, new)
  BY <1>1, <1>3 DEF OnlyRows, Performs, RowInv
<1> QED BY <1>5, <1>6

\* What older transactions show does not change.
LEMMA PastShowsSame ==
  ASSUME IdsInv, BranchInv, BranchInv', NEW at, Commits(at), NEW k \in transactions
  PROVE  \A e : /\ Alive(e, Past(k))' <=> Alive(e, Past(k))
                /\ Alive(e, Before(k))' <=> Alive(e, Before(k))
                /\ \A p : /\ Showing(Past(k), e, p)' = Showing(Past(k), e, p)
                          /\ Showing(Before(k), e, p)' = Showing(Before(k), e, p)
<1>1. PICK T : T = Past(k)
  OBVIOUS
<1>2. PICK B : B = Before(k)
  OBVIOUS
<1>3. Past(k)' = T /\ Before(k)' = B
  BY <1>1, <1>2, PastStays DEF Before
<1>4. T \subseteq transactions /\ B \subseteq transactions
  BY <1>1, <1>2 DEF Past, Line, Seen, Before
<1> TAKE e
<1>5. /\ \A p : RowsOf(T, e, p)' = RowsOf(T, e, p)
      /\ Newest(EntityRows(e), T)' = Newest(EntityRows(e), T)
  BY <1>4, RowsStay
<1>6. /\ \A p : RowsOf(B, e, p)' = RowsOf(B, e, p)
      /\ Newest(EntityRows(e), B)' = Newest(EntityRows(e), B)
  BY <1>4, RowsStay
<1>7. \A p : Showing(Past(k), e, p)' = Showing(Past(k), e, p)
  BY <1>1, <1>3, <1>5 DEF Showing, RowsOf
<1>8. \A p : Showing(Before(k), e, p)' = Showing(Before(k), e, p)
  BY <1>2, <1>3, <1>6 DEF Showing, RowsOf
<1>9. Alive(e, Past(k))' <=> Alive(e, Past(k))
  BY <1>1, <1>3, <1>5 DEF Alive, Newest, EntityRows
<1>10. Alive(e, Before(k))' <=> Alive(e, Before(k))
  BY <1>2, <1>3, <1>6 DEF Alive, Newest, EntityRows
<1> QED BY <1>7, <1>8, <1>9, <1>10

\* What a transaction shows is what it read and what it wrote.
LEMMA NewShows ==
  ASSUME IdsInv, NEW scopes, Commits(scopes), ReadsHead(scopes),
         NEW new, new = [branch |-> Branch(scopes), tx |-> NextTx],
         NEW op, Operates(op, scopes, new), OnlyRows(op, new), NEW e \in Entities
  PROVE  /\ Alive(e, Before(new))' <=> Alive(e, Seen(scopes))
         /\ op[e].entities = {} => (Alive(e, Past(new))' <=> Alive(e, Seen(scopes)))
         /\ \A d : op[e].entities = {d} => (Alive(e, Past(new))' <=> ~d.deleted)
         /\ \A p : /\ Showing(Before(new), e, p)' = Showing(Seen(scopes), e, p)
                   /\ Showing(Past(new), e, p)' =
                        Kept(RowsOf(Seen(scopes), e, p) \cup {a \in op[e].assertions : a.prop = p})
<1>1. PICK T : T = Seen(scopes)
  OBVIOUS
<1>2. /\ new \notin T /\ T \subseteq transactions
      /\ Past(new)' = T \cup {new} /\ Before(new)' = T
  BY <1>1 DEF ReadsHead, Seen
<1>3. /\ \A p : RowsOf(T, e, p)' = RowsOf(T, e, p)
      /\ Newest(EntityRows(e), T)' = Newest(EntityRows(e), T)
  BY <1>2, RowsStay
<1>4. /\ \A r \in op[e].entities : r.entity = e /\ Key(r) = new /\ r \in entities'
      /\ \A r \in op[e].assertions : r.entity = e /\ Key(r) = new /\ r \in assertions'
  BY DEF Operates
<1>5. \A r \in entities' : r.entity = e /\ Key(r) = new => r \in op[e].entities
  BY DEF OnlyRows, Operates
<1>6. \A r \in assertions' : r.entity = e /\ Key(r) = new => r \in op[e].assertions
  BY DEF OnlyRows, Operates
<1>7. \A r \in entities' : Key(r) \in T => r \in entities
  BY <1>2 DEF OnlyRows, Operates
<1>8. \A r \in assertions' : Key(r) \in T => r \in assertions
  BY <1>2 DEF OnlyRows, Operates
<1>9. entities \subseteq entities' /\ assertions \subseteq assertions'
  BY DEF OnlyRows
<1>10. Alive(e, Before(new))' <=> Alive(e, Seen(scopes))
  BY <1>1, <1>2, <1>3 DEF Alive, Newest, EntityRows
<1>11. ASSUME op[e].entities = {}
       PROVE  Alive(e, Past(new))' <=> Alive(e, Seen(scopes))
  <2>1. Newest(EntityRows(e), T \cup {new})' = Newest(EntityRows(e), T)'
    BY <1>5, <1>11 DEF Newest, EntityRows, Key
  <2> QED BY <1>1, <1>2, <1>3, <2>1 DEF Alive, Newest, EntityRows
<1>12. ASSUME NEW d, op[e].entities = {d}
       PROVE  Alive(e, Past(new))' <=> ~d.deleted
  <2>1. d \in entities' /\ d.entity = e /\ Key(d) = new
    BY <1>4, <1>12
  <2>2. d.tx = NextTx
    BY <2>1 DEF Key
  <2>3. \A r : Key(r) \in T => r.tx < d.tx /\ r.tx \in Nat /\ d.tx \in Nat
    <3>1. \A r : Key(r).tx = r.tx
      BY DEF Key
    <3>2. /\ \A t \in transactions : t.tx \in 1 .. Cardinality(transactions)
          /\ Cardinality(transactions) \in Nat /\ NextTx = Cardinality(transactions) + 1
      BY CommitAddsOne
    <3> QED BY <1>2, <2>2, <3>1, <3>2
  <2>4. d.tx \in Nat
    BY <2>2, CommitAddsOne
  <2>5. \A r \in entities' : r.entity = e /\ Key(r) = new => r = d
    BY <1>5, <1>12
  <2>6. Newest(EntityRows(e), T \cup {new})' = {d}
    <3>1. \A r \in EntityRows(e)' : Key(r) \in T \cup {new} => r = d \/ Key(r) \in T
      BY <2>5 DEF EntityRows
    <3>2. d \in EntityRows(e)' /\ Key(d) \in T \cup {new}
      BY <2>1 DEF EntityRows
    <3>3. d \in Newest(EntityRows(e), T \cup {new})'
      <4>1. \A r \in EntityRows(e)' : Key(r) \in T \cup {new} => r.tx =< d.tx
        BY <2>3, <2>4, <3>1
      <4> QED BY <3>2, <4>1 DEF Newest, EntityRows, Key
    <3>4. \A r \in Newest(EntityRows(e), T \cup {new})' :
            r \in EntityRows(e)' /\ Key(r) \in T \cup {new} /\ d.tx =< r.tx
      BY <3>2 DEF Newest, EntityRows, Key
    <3>5. \A r \in Newest(EntityRows(e), T \cup {new})' : r = d
      BY <2>3, <3>1, <3>4
    <3> QED BY <3>3, <3>5
  <2>7. Alive(e, T \cup {new})' <=> ~d.deleted
    BY <2>6 DEF Alive
  <2> QED BY <1>2, <2>7 DEF Alive, Newest, EntityRows
<1>13. ASSUME NEW p
       PROVE  /\ Showing(Before(new), e, p)' = Showing(Seen(scopes), e, p)
              /\ Showing(Past(new), e, p)' =
                   Kept(RowsOf(Seen(scopes), e, p) \cup {a \in op[e].assertions : a.prop = p})
  <2>1. Showing(Before(new), e, p)' = Showing(Seen(scopes), e, p)
    BY <1>1, <1>2, <1>3 DEF Showing, RowsOf
  <2>2. RowsOf(T \cup {new}, e, p)' = RowsOf(T, e, p) \cup {a \in op[e].assertions : a.prop = p}
    BY <1>3, <1>4, <1>6 DEF RowsOf
  <2>3. Showing(Past(new), e, p)' = Kept(RowsOf(T \cup {new}, e, p)')
    BY <1>2 DEF Showing, RowsOf
  <2> QED BY <1>1, <2>1, <2>2, <2>3
<1> QED BY <1>10, <1>11, <1>12, <1>13

-----------------------------------------------------------------------------
(***************************************************************************)
(* The invariants of lines, step by step.                                  *)
(***************************************************************************)
LEMMA SeenIsOlder ==
  ASSUME IdsInv, RowInv, NEW T, T \subseteq transactions, NEW e, NEW p, NEW n, n = NextTx
  PROVE  n \in Nat /\ Older(RowsOf(T, e, p), n)
<1>1. Cardinality(transactions) \in Nat /\ n = Cardinality(transactions) + 1
  BY TxOfRows DEF NextTx
<1>2. \A r \in RowsOf(T, e, p) : r \in assertions /\ r.tx \in 1 .. Cardinality(transactions)
  BY TxOfRows DEF RowsOf
<1> QED BY <1>1, <1>2 DEF Older, RowInv

LEMMA TargetsKept ==
  ASSUME IdsInv, BranchInv, BranchInv', RowInv, LineInv,
         NEW scopes, Commits(scopes), ReadsHead(scopes)
  PROVE  TargetInv'
<1>1. PICK new : new = [branch |-> Branch(scopes), tx |-> NextTx]
  OBVIOUS
<1>2. PICK op : Operates(op, scopes, new) /\ OnlyRows(op, new)
  BY <1>1, StepOperates
<1> SUFFICES ASSUME NEW r \in assertions', r.supersedes # None
             PROVE  \E q \in Showing(Before(Key(r)), r.entity, r.prop)' : q.tx = r.supersedes
  BY DEF TargetInv
<1>3. CASE r \in assertions
  <2>1. PICK k \in transactions : k = Key(r)
    BY <1>3 DEF RowInv
  <2>2. \E q \in Showing(Before(k), r.entity, r.prop) : q.tx = r.supersedes
    BY <1>3, <2>1 DEF LineInv, TargetInv
  <2>3. Showing(Before(k), r.entity, r.prop)' = Showing(Before(k), r.entity, r.prop)
    BY PastShowsSame
  <2> QED BY <2>1, <2>2, <2>3
<1>4. ASSUME NEW e \in Entities, r \in op[e].assertions
      PROVE  \E q \in Showing(Before(Key(r)), r.entity, r.prop)' : q.tx = r.supersedes
  <2>1. r.entity = e /\ Key(r) = new /\ r.supersedes \in {None} \cup Targets(scopes, e, r.prop)
    BY <1>2, <1>4 DEF Operates, Asserts
  <2>2. PICK q \in Shown(scopes, e, r.prop) : q.tx = r.supersedes
    BY <2>1 DEF Targets
  <2>3. q \in Showing(Seen(scopes), e, r.prop)
    BY ShownIsShowing DEF ReadsHead
  <2>4. Showing(Before(new), e, r.prop)' = Showing(Seen(scopes), e, r.prop)
    <3>1. \A p : /\ Showing(Before(new), e, p)' = Showing(Seen(scopes), e, p)
                 /\ Showing(Past(new), e, p)' =
                      Kept(RowsOf(Seen(scopes), e, p) \cup {a \in op[e].assertions : a.prop = p})
      BY <1>1, <1>2, NewShows
    <3> QED BY <3>1
  <2> QED BY <2>1, <2>2, <2>3, <2>4
<1> QED BY <1>2, <1>3, <1>4 DEF OnlyRows

LEMMA HomesKept ==
  ASSUME IdsInv, BranchInv, BranchInv', RowInv, LineInv,
         NEW scopes, Commits(scopes), ReadsHead(scopes)
  PROVE  HomeInv'
<1>1. PICK new : new = [branch |-> Branch(scopes), tx |-> NextTx]
  OBVIOUS
<1>2. PICK op : Operates(op, scopes, new) /\ OnlyRows(op, new)
  BY <1>1, StepOperates
<1> SUFFICES ASSUME NEW a \in assertions'
             PROVE  \/ \E d \in entities' : d.entity = a.entity /\ Key(d) = Key(a)
                    \/ Alive(a.entity, Before(Key(a)))'
  BY DEF HomeInv, Key
<1>3. CASE a \in assertions
  <2>1. PICK k \in transactions : k = Key(a)
    BY <1>3 DEF RowInv
  <2>2. \/ \E d \in entities : d.entity = a.entity /\ Key(d) = k
        \/ Alive(a.entity, Before(k))
    BY <1>3, <2>1 DEF LineInv, HomeInv
  <2>3. Alive(a.entity, Before(k))' <=> Alive(a.entity, Before(k))
    BY PastShowsSame
  <2> QED BY <1>2, <2>1, <2>2, <2>3 DEF OnlyRows
<1>4. ASSUME NEW e \in Entities, a \in op[e].assertions
      PROVE  \/ \E d \in entities' : d.entity = a.entity /\ Key(d) = Key(a)
             \/ Alive(a.entity, Before(Key(a)))'
  <2>1. a.entity = e /\ Key(a) = new
    BY <1>2, <1>4 DEF Operates
  <2>2. \A d \in op[e].entities : d \in entities' /\ d.entity = e /\ Key(d) = new
    BY <1>2 DEF Operates
  <2>3. op[e].entities # {} \/ ~IsNew(scopes, e)
    <3>1. IsWrite(op[e], scopes, new.tx, e) \/ IsDeletion(op[e], scopes, new.tx, e)
      BY <1>2, <1>4 DEF Operates, IsIdle
    <3>2. CASE IsWrite(op[e], scopes, new.tx, e)
      BY <3>2, Zenon DEF IsWrite
    <3>3. CASE IsDeletion(op[e], scopes, new.tx, e)
      BY <3>3 DEF IsDeletion
    <3> QED BY <3>1, <3>2, <3>3
  <2>4. CASE op[e].entities # {}
    BY <2>1, <2>2, <2>4
  <2>5. CASE ~IsNew(scopes, e)
    <3>1. Alive(e, Seen(scopes))
      BY <2>5, RecordSeen DEF IsNew, ReadsHead
    <3>2. Alive(e, Before(new))'
      BY <1>1, <1>2, <3>1, NewShows
    <3> QED BY <2>1, <3>2
  <2> QED BY <2>3, <2>4, <2>5
<1> QED BY <1>2, <1>3, <1>4 DEF OnlyRows

LEMMA DeadKept ==
  ASSUME IdsInv, BranchInv, BranchInv', RowInv, LineInv,
         NEW scopes, Commits(scopes), ReadsHead(scopes)
  PROVE  DeadInv'
<1>1. PICK new : new = [branch |-> Branch(scopes), tx |-> NextTx]
  OBVIOUS
<1>2. PICK op : Operates(op, scopes, new) /\ OnlyRows(op, new)
  BY <1>1, StepOperates
<1> SUFFICES ASSUME NEW d \in entities', d.deleted, NEW p \in Props
             PROVE  Showing(Past(Key(d)), d.entity, p)' = {}
  BY DEF DeadInv
<1>3. CASE d \in entities
  <2>1. PICK k \in transactions : k = Key(d)
    BY <1>3 DEF RowInv
  <2>2. Showing(Past(k), d.entity, p) = {}
    BY <1>3, <2>1 DEF LineInv, DeadInv
  <2>3. Showing(Past(k), d.entity, p)' = Showing(Past(k), d.entity, p)
    BY PastShowsSame
  <2> QED BY <2>1, <2>2, <2>3
<1>4. ASSUME NEW e \in Entities, d \in op[e].entities
      PROVE  Showing(Past(Key(d)), d.entity, p)' = {}
  <2> DEFINE O == RowsOf(Seen(scopes), e, p)
             A == {a \in op[e].assertions : a.prop = p}
  <2>1. d.entity = e /\ Key(d) = new
    BY <1>2, <1>4 DEF Operates
  <2>2. Showing(Past(new), e, p)' = Kept(O \cup A)
    BY <1>1, <1>2, NewShows
  <2>3. op[e].assertions = Withdrawals(scopes, new.tx, e, TRUE)
    <3>1. ~IsIdle(op[e])
      BY <1>4 DEF IsIdle
    <3>2. ~IsWrite(op[e], scopes, new.tx, e)
      <4>1. EntityRow(scopes, new.tx, e, FALSE).deleted = FALSE
        BY DEF EntityRow
      <4>2. d # EntityRow(scopes, new.tx, e, FALSE)
        BY <4>1
      <4> QED BY <1>4, <4>2 DEF IsWrite
    <3> QED BY <1>2, <3>1, <3>2 DEF Operates, IsDeletion
  <2>4. Shown(scopes, e, p) = Kept(O)
    BY ShownIsShowing DEF ReadsHead, Showing
  <2>5. CASE Kept(O) = {}
    <3>1. A = {}
      <4>1. \A a \in op[e].assertions : \E q \in Props : a.prop = q /\ Shown(scopes, e, q) # {}
        BY <2>3 DEF Withdrawals, AssertionRow
      <4> QED BY <2>4, <2>5, <4>1
    <3>2. O \cup A = O
      BY <3>1
    <3> QED BY <2>1, <2>2, <2>5, <3>2
  <2>6. CASE Kept(O) # {}
    <3> DEFINE a == AssertionRow(scopes, new.tx, e, p, Null, TRUE, None)
    <3>1. A = {a}
      <4>1. \A x \in op[e].assertions : \E q \in Props :
              x = AssertionRow(scopes, new.tx, e, q, Null, TRUE, None) /\ x.prop = q
        BY <2>3 DEF Withdrawals, AssertionRow
      <4>2. a \in op[e].assertions
        BY <2>3, <2>4, <2>6 DEF Withdrawals
      <4>3. a.prop = p
        BY DEF AssertionRow
      <4> HIDE DEF a
      <4>4. \A x \in A : x = a
        BY <4>1 DEF a
      <4> QED BY <4>2, <4>3, <4>4
    <3>2. a.tx = NextTx /\ Terminal(a) /\ a.value = Null
      BY <1>1 DEF AssertionRow, Terminal
    <3> HIDE DEF a
    <3>3. a.tx \in Nat /\ Older(O, a.tx)
      BY <3>2, SeenIsOlder DEF Seen
    <3>4. Kept(O \cup {a}) = {x \in {a} : x.value # Null}
      <4> HIDE DEF O
      <4> QED BY <3>2, <3>3, NewestEnds
    <3>5. Kept(O \cup {a}) = {}
      BY <3>2, <3>4
    <3> QED BY <2>1, <2>2, <3>1, <3>5
  <2> QED BY <2>5, <2>6
<1> QED BY <1>2, <1>3, <1>4 DEF OnlyRows

\* The preview of the merge is what the transaction will show.
LEMMA ProjectedIsKept ==
  ASSUME IdsInv, BranchInv, RowInv, LineInv, NEW scopes, ReadsHead(scopes),
         NEW n, n = NextTx, NEW e, NEW A, Asserts(A, scopes, n, e), NEW p \in Props
  PROVE  Projected(scopes, e, p, A) =
           Kept(RowsOf(Seen(scopes), e, p) \cup {a \in A : a.prop = p})
<1> DEFINE O == RowsOf(Seen(scopes), e, p)
           P == {a \in A : a.prop = p}
<1>1. Stream(scopes, e, p) = O /\ Proper(O)
  BY StreamSeen, StreamIsProper
<1>2. n \in Nat /\ Older(O, n)
  BY SeenIsOlder DEF Seen
<1>3. n = Cardinality(transactions) + 1 /\ Cardinality(transactions) \in Nat
  BY TxOfRows DEF NextTx
<1>4. /\ \A r \in A : r.supersedes \in Nat /\ r.supersedes < r.tx
      /\ \A r \in A : r.tx = n
      /\ \A r, s \in A : r.prop = s.prop => r = s
  BY <1>3, ClaimsAreProper
<1>5. P = {} \/ \E a \in A : a.prop = p /\ P = {a}
  BY <1>4
<1>6. CASE ~IsNew(scopes, e)
  <2>1. Projected(scopes, e, p, A) = Merged(O \cup P)
    BY <1>1, <1>6 DEF Projected
  <2>2. Proper(O \cup P)
    <3>1. IsFiniteSet(O \cup P)
      <4>1. IsFiniteSet(O)
        BY <1>1 DEF Proper
      <4>2. CASE P = {}
        <5>1. O \cup P = O
          BY <4>2
        <5> QED BY <4>1, <5>1
      <4>3. CASE \E a \in A : P = {a}
        BY <4>1, <4>3, FS_AddElement
      <4> QED BY <1>5, <4>2, <4>3
    <3>2. \A r \in O \cup P : r.tx \in Nat \ {0} /\ r.supersedes \in Nat /\ r.supersedes < r.tx
      <4>1. \A r \in O : r.tx \in Nat \ {0} /\ r.supersedes \in Nat /\ r.supersedes < r.tx
        BY <1>1 DEF Proper
      <4>2. \A r \in P : r.tx \in Nat \ {0} /\ r.supersedes \in Nat /\ r.supersedes < r.tx
        BY <1>3, <1>4
      <4> QED BY <4>1, <4>2
    <3>3. \A r, s \in O \cup P : r.tx = s.tx => r = s
      <4>1. \A r, s \in O : r.tx = s.tx => r = s
        BY <1>1 DEF Proper
      <4>2. \A r, s \in P : r = s
        BY <1>4
      <4>3. \A r \in O, s \in P : r.tx # s.tx
        BY <1>2, <1>4 DEF Older
      <4> QED BY <4>1, <4>2, <4>3
    <3> QED BY <3>1, <3>2, <3>3 DEF Proper
  <2> HIDE DEF O, P
  <2>3. Merged(O \cup P) = Kept(O \cup P)
    BY <2>2, MergeKeeps
  <2> QED BY <2>1, <2>3 DEF O, P
<1>7. CASE IsNew(scopes, e)
  <2>1. Projected(scopes, e, p, A) = {x \in P : x.value # Null}
    BY <1>7 DEF Projected
  <2>2. ~Alive(e, Seen(scopes))
    BY <1>7, RecordSeen DEF IsNew, ReadsHead
  <2>3. Kept(O) = {}
    BY <2>2, AbsentShowsNothing DEF ReadsHead, Showing
  <2>4. CASE P = {}
    <3>1. O \cup P = O
      BY <2>4
    <3> QED BY <2>1, <2>3, <2>4, <3>1
  <2>5. ASSUME NEW a \in A, a.prop = p, P = {a}
        PROVE  Projected(scopes, e, p, A) = Kept(O \cup P)
    <3>1. a.supersedes = None
      BY <1>7 DEF Asserts, Targets
    <3>2. a.tx \in Nat /\ Older(O, a.tx)
      BY <1>2, <1>4
    <3>3. Kept(O \cup {a}) = {x \in {a} : x.value # Null}
      <4> HIDE DEF O, P
      <4> QED BY <2>3, <3>1, <3>2, NewestAlone
    <3> QED BY <2>1, <2>5, <3>3
  <2> QED BY <1>5, <2>4, <2>5
<1> QED BY <1>6, <1>7

LEMMA TextsKept ==
  ASSUME IdsInv, BranchInv, BranchInv', RowInv, LineInv, TextInv,
         NEW scopes, Commits(scopes), ReadsHead(scopes)
  PROVE  TextInv'
<1>1. PICK new : new = [branch |-> Branch(scopes), tx |-> NextTx]
  OBVIOUS
<1>2. PICK op : Operates(op, scopes, new) /\ OnlyRows(op, new)
  BY <1>1, StepOperates
<1>3. ASSUME NEW x \in entities' \cup assertions'
      PROVE  \E r \in embeddings' : r.entity = x.entity /\ Key(r) = Key(x)
  <2>1. CASE x \in entities \cup assertions
    <3>1. PICK r \in embeddings : r.entity = x.entity /\ Key(r) = Key(x)
      BY <2>1 DEF TextInv, EmbeddedInv
    <3> QED BY <1>2, <3>1 DEF OnlyRows
  <2>2. ASSUME NEW e \in Entities, x \in op[e].entities \/ x \in op[e].assertions
        PROVE  \E r \in embeddings' : r.entity = x.entity /\ Key(r) = Key(x)
    <3>1. x.entity = e /\ Key(x) = new
      BY <1>2, <2>2 DEF Operates
    <3>2. op[e].embeddings # {}
      <4>1. IsWrite(op[e], scopes, new.tx, e) \/ IsDeletion(op[e], scopes, new.tx, e)
        BY <1>2, <2>2 DEF Operates, IsIdle
      <4>2. CASE IsWrite(op[e], scopes, new.tx, e)
        BY <4>2 DEF IsWrite
      <4>3. CASE IsDeletion(op[e], scopes, new.tx, e)
        BY <4>3 DEF IsDeletion
      <4> QED BY <4>1, <4>2, <4>3
    <3>3. \A r \in op[e].embeddings : r.entity = e /\ Key(r) = new /\ r \in embeddings'
      BY <1>2 DEF Operates
    <3> QED BY <3>1, <3>2, <3>3
  <2> QED BY <1>2, <2>1, <2>2 DEF OnlyRows
<1>4. EmbeddedInv'
  BY <1>3 DEF EmbeddedInv, Key
<1> DEFINE Fits(r) ==
             IF Alive(r.entity, Past(Key(r)))'
             THEN r.active /\ r.text = Text(Past(Key(r)), r.entity)'
             ELSE ~r.active
<1>5. ASSUME NEW r \in embeddings
      PROVE  Fits(r)
  <2>1. PICK k \in transactions : k = Key(r)
    BY DEF RowInv
  <2>2. IF Alive(r.entity, Past(k)) THEN r.active /\ r.text = Text(Past(k), r.entity)
        ELSE ~r.active
    BY <2>1 DEF TextInv, EmbedInv
  <2>3. Alive(r.entity, Past(k))' <=> Alive(r.entity, Past(k))
    BY PastShowsSame
  <2>4. \A p : Showing(Past(k), r.entity, p)' = Showing(Past(k), r.entity, p)
    BY PastShowsSame
  <2>5. Text(Past(k), r.entity)' = Text(Past(k), r.entity)
    BY <2>4 DEF Text
  <2>6. IF Alive(r.entity, Past(k))' THEN r.active /\ r.text = Text(Past(k), r.entity)'
        ELSE ~r.active
    BY <2>2, <2>3, <2>5, Zenon
  <2> QED BY <2>1, <2>6
<1>6. ASSUME NEW e \in Entities, NEW r \in op[e].embeddings
      PROVE  Fits(r)
  <2>1. r.entity = e /\ Key(r) = new
    BY <1>2 DEF Operates
  <2>2. /\ op[e].entities = {} => (Alive(e, Past(new))' <=> Alive(e, Seen(scopes)))
        /\ \A d : op[e].entities = {d} => (Alive(e, Past(new))' <=> ~d.deleted)
    BY <1>1, <1>2, NewShows
  <2>3. CASE IsWrite(op[e], scopes, new.tx, e)
    <3>1. r = EmbeddingRow(scopes, new.tx, e, TRUE, EmbedText(scopes, e, op[e].assertions))
      BY <2>3 DEF IsWrite
    <3>2. r.active /\ r.text = EmbedText(scopes, e, op[e].assertions)
      BY <3>1 DEF EmbeddingRow
    <3>3. Alive(e, Past(new))'
      <4>1. CASE op[e].entities = {EntityRow(scopes, new.tx, e, FALSE)}
        <5>1. ~EntityRow(scopes, new.tx, e, FALSE).deleted
          BY DEF EntityRow
        <5> QED BY <2>2, <4>1, <5>1
      <4>2. CASE op[e].entities = {} /\ ~IsNew(scopes, e)
        <5>1. Alive(e, Seen(scopes))
          BY <4>2, RecordSeen DEF IsNew, ReadsHead
        <5> QED BY <2>2, <4>2, <5>1
      <4> QED BY <2>3, <4>1, <4>2 DEF IsWrite
    <3>4. ASSUME NEW p \in Props
          PROVE  Projected(scopes, e, p, op[e].assertions) = Showing(Past(new), e, p)'
      <4>1. Asserts(op[e].assertions, scopes, new.tx, e) /\ new.tx = NextTx
        BY <1>1, <1>2 DEF Operates
      <4>2. Projected(scopes, e, p, op[e].assertions) =
              Kept(RowsOf(Seen(scopes), e, p) \cup {a \in op[e].assertions : a.prop = p})
        BY <4>1, ProjectedIsKept
      <4>3. Showing(Past(new), e, p)' =
              Kept(RowsOf(Seen(scopes), e, p) \cup {a \in op[e].assertions : a.prop = p})
        BY <1>1, <1>2, NewShows
      <4> QED BY <4>2, <4>3
    <3>5. EmbedText(scopes, e, op[e].assertions) = Text(Past(new), e)'
      BY <3>4 DEF EmbedText, Text
    <3> QED BY <2>1, <3>2, <3>3, <3>5
  <2>4. CASE IsDeletion(op[e], scopes, new.tx, e)
    <3>1. r = EmbeddingRow(scopes, new.tx, e, FALSE, {})
      BY <2>4 DEF IsDeletion
    <3>2. ~r.active
      BY <3>1 DEF EmbeddingRow
    <3>3. EntityRow(scopes, new.tx, e, TRUE).deleted
      BY DEF EntityRow
    <3>4. ~Alive(e, Past(new))'
      BY <2>2, <2>4, <3>3 DEF IsDeletion
    <3> QED BY <2>1, <3>2, <3>4
  <2> QED BY <1>2, <2>3, <2>4 DEF Operates, IsIdle
<1>7. \A r \in embeddings' : Fits(r)
  <2> HIDE DEF Fits
  <2> QED BY <1>2, <1>5, <1>6 DEF OnlyRows
<1>8. EmbedInv'
  BY <1>7, Zenon DEF EmbedInv, Key
<1> QED BY <1>4, <1>8 DEF TextInv

LEMMA LinesHold == Spec => [](TreeInv /\ RowInv /\ LineInv /\ TextInv)
<1>1. Init => LineInv /\ TextInv
  BY DEF Init, LineInv, DeadInv, TargetInv, HomeInv, TextInv, EmbedInv, EmbeddedInv
<1>2. ASSUME TreeInv, TreeInv', RowInv, LineInv, TextInv, [Next]_vars
      PROVE  LineInv' /\ TextInv'
  <2>1. CASE Next
    <3>1. PICK scopes : Commits(scopes) /\ OnLine(scopes)
      BY <1>2, <2>1, StepsAreOnLine DEF TreeInv
    <3>2. ReadsHead(scopes)
      BY <1>2, <3>1, StepReads DEF TreeInv
    <3>3. TargetInv' /\ HomeInv' /\ DeadInv'
      BY <1>2, <3>1, <3>2, TargetsKept, HomesKept, DeadKept DEF TreeInv
    <3>4. TextInv'
      BY <1>2, <3>1, <3>2, TextsKept DEF TreeInv
    <3> QED BY <3>3, <3>4 DEF LineInv
  <2>2. CASE UNCHANGED vars
    <3>1. \A b, at : ScopesAt(b, at)' = ScopesAt(b, at)
      BY <2>2 DEF vars, ScopesAt, Ancestry
    <3>2. \A k : Past(k)' = Past(k) /\ Before(k)' = Before(k)
      BY <2>2, <3>1 DEF vars, Past, Before, Line, Seen, InScope
    <3>3. \A T, e, p : Showing(T, e, p)' = Showing(T, e, p) /\ (Alive(e, T)' <=> Alive(e, T))
      BY <2>2 DEF vars, Showing, RowsOf, Alive, Newest, EntityRows
    <3> QED BY <1>2, <2>2, <3>2, <3>3 DEF vars, LineInv, DeadInv, TargetInv, HomeInv,
              TextInv, EmbedInv, EmbeddedInv, Text
  <2> QED BY <1>2, <2>1, <2>2
<1> QED BY <1>1, <1>2, RowInvHolds, PTL DEF Spec

\* Nothing asserted before a deletion is shown after it, on any branch that sees
\* the deletion and at any transaction, although later withdrawals reopen older
\* evidence (write_entity, delete_entity in transaction.rs, visible_properties).
THEOREM DeletionsStayFinal == Spec => []DeletionsAreFinal
<1>1. TreeInv /\ RowInv /\ LineInv => DeletionsAreFinal
  BY LinesKeepDeletions
<1> QED BY <1>1, LinesHold, PTL

\* The text embedded before the commit, from a preview of the merge, is what
\* readers of the branch are shown afterwards (build_embed_text, with_pending).
THEOREM EmbeddingsStayTrue == Spec => []EmbeddingsDescribeWhatIsShown
<1>1. TreeInv /\ RowInv /\ LineInv /\ TextInv => EmbeddingsDescribeWhatIsShown
  BY LinesKeepTexts
<1> QED BY <1>1, LinesHold, PTL
-----------------------------------------------------------------------------
(***************************************************************************)
(* The history of an entity.                                               *)
(***************************************************************************)
\* A list within its limit is whole.
LEMMA AllOfList ==
  ASSUME NEW S, NEW list \in Seq(S), NEW limit \in Nat, Len(list) =< limit
  PROVE  UpTo(limit, list) = list
<1>1. UpTo(limit, list) = SubSeq(list, 1, Len(list))
  BY DEF UpTo
<1> QED BY <1>1

\* The scopes of a branch differ by the bound of the branch itself.
LEMMA ScopesAlike ==
  ASSUME TreeInv, NEW b \in Opened, NEW t, NEW u, NEW x, NEW y,
         x = ScopesAt(b, t), y = ScopesAt(b, u)
  PROVE  /\ Len(x) = Len(y) /\ Len(x) \in Nat
         /\ x[1] = [branch |-> b, upper |-> t] /\ y[1] = [branch |-> b, upper |-> u]
         /\ \A i \in 2 .. Len(x) : x[i] = y[i]
<1> DEFINE q == Ancestry(b)
           T == [branch : Opened, upper : 1 .. Cardinality(transactions)]
           v == [branch |-> b, upper |-> t]
           w == [branch |-> b, upper |-> u]
<1>1. q \in Seq(T)
  BY PathOfAncestry DEF AncestryIsPath, TreeInv
<1>2. x = <<v>> \o q /\ y = <<w>> \o q
  BY DEF ScopesAt
<1> HIDE DEF q, T, v, w
<1>3. /\ Len(x) = Len(y) /\ Len(x) \in Nat /\ x[1] = v /\ y[1] = w
      /\ \A i \in 2 .. Len(x) : x[i] = y[i]
  BY <1>1, <1>2
<1> QED BY <1>3 DEF v, w

\* Transactions that wrote no row of an entity do not change its snapshot.
LEMMA QuietSnapshots ==
  ASSUME TreeInv, RowInv, NEW b \in Opened, NEW e, NEW t \in Nat, NEW u \in Nat, t < u,
         \A r \in HistoryRows(e) \cup EntityRows(e) :
           r.branch = b => ~(t < r.tx /\ r.tx =< u)
  PROVE  Snapshot(ScopesAt(b, t), e) = Snapshot(ScopesAt(b, u), e)
<1>1. PICK x, y : x = ScopesAt(b, t) /\ y = ScopesAt(b, u)
  OBVIOUS
<1>2. /\ Len(x) = Len(y) /\ Len(x) \in Nat
      /\ x[1] = [branch |-> b, upper |-> t] /\ y[1] = [branch |-> b, upper |-> u]
      /\ \A i \in 2 .. Len(x) : x[i] = y[i]
  BY <1>1, ScopesAlike
<1>3. Cardinality(transactions) \in Nat
      /\ \A r \in entities \cup assertions : r.tx \in 1 .. Cardinality(transactions)
  BY TxOfRows DEF TreeInv
<1>4. \A r \in HistoryRows(e) \cup EntityRows(e), i \in 1 .. Len(x) :
        InScope(x[i], r) <=> InScope(y[i], r)
  <2> SUFFICES ASSUME NEW r \in HistoryRows(e) \cup EntityRows(e), NEW i \in 1 .. Len(x)
               PROVE  InScope(x[i], r) <=> InScope(y[i], r)
    OBVIOUS
  <2>1. r.tx \in Nat
    BY <1>3 DEF HistoryRows, EntityRows
  <2>2. CASE i = 1
    <3>1. x[i].branch = b /\ x[i].upper = t /\ y[i].branch = b /\ y[i].upper = u
      BY <1>2, <2>2
    <3> QED BY <2>1, <3>1 DEF InScope
  <2>3. CASE i # 1
    BY <1>2, <2>3
  <2> QED BY <2>2, <2>3
<1>5. LiveRecord(x, e) = LiveRecord(y, e)
  <2>1. \A i \in 1 .. Len(x) : {r \in EntityRows(e) : InScope(y[i], r)} =
                               {r \in EntityRows(e) : InScope(x[i], r)}
    BY <1>4
  <2>2. GetLatest(EntityRows(e), y) = GetLatest(EntityRows(e), x)
    BY <1>2, <2>1, LatestStays
  <2> QED BY <2>2 DEF LiveRecord
<1>6. \A p : Shown(x, e, p) = Shown(y, e, p)
  <2> TAKE p
  <2>1. Stream(x, e, p) = Stream(y, e, p)
    BY <1>2, <1>4 DEF Stream, HistoryRows
  <2> QED BY <2>1 DEF Shown, Visible
<1> QED BY <1>1, <1>5, <1>6 DEF Snapshot

\* The newest transaction of a branch.
LEMMA HeadOf ==
  ASSUME TreeInv, NEW b, Committed(b) # {}
  PROVE  /\ HeadTx(b) \in Committed(b)
         /\ \A t \in Committed(b) : t =< HeadTx(b)
<1>1. Cardinality(transactions) \in Nat /\ Committed(b) \subseteq 1 .. Cardinality(transactions)
  BY FS_CardinalityType DEF TreeInv, IdsInv, Committed
<1>2. PICK m \in Committed(b) : \A t \in Committed(b) : t =< m
  <2> DEFINE C == Committed(b)
             n == Cardinality(transactions)
  <2>1. C \in SUBSET Nat /\ C # {} /\ n \in Nat /\ \A t \in C : t =< n
    BY <1>1
  <2> HIDE DEF C, n
  <2>2. \E m \in C : \A t \in C : t =< m
    BY <2>1, GreatestNumber
  <2> QED BY <2>2 DEF C
<1> QED BY <1>2 DEF HeadTx

\* A row in scope is found, or a newer one.
LEMMA SomeIsFound ==
  ASSUME NEW R, NEW scopes, Len(scopes) \in Nat,
         \E r \in R : \E i \in 1 .. Len(scopes) : InScope(scopes[i], r)
  PROVE  GetLatest(R, scopes) # {}
<1> DEFINE F(i) == {r \in R : InScope(scopes[i], r)}
           I == {i \in 1 .. Len(scopes) : F(i) # {}}
           first == {i \in 1 .. Len(scopes) : F(i) # {} /\ \A j \in 1 .. i - 1 : F(j) = {}}
<1>1. GetLatest(R, scopes) = {Latest(F(i)) : i \in first}
  BY DEF GetLatest
<1> HIDE DEF F
<1>2. I \in SUBSET Nat /\ I # {}
  BY DEF F
<1>3. PICK i \in I : \A j \in I : i =< j
  <2> HIDE DEF I
  <2> QED BY <1>2, LeastNumber
<1>4. i \in first
  BY <1>3
<1> QED BY <1>1, <1>4

LEMMA HistoryExplains ==
  ASSUME TreeInv, RowInv
  PROVE  HistoryExplainsEveryChange
<1> SUFFICES ASSUME NEW b \in Opened, NEW e \in Entities,
                    NEW t \in Committed(b), NEW u \in Committed(b), t < u,
                    Snapshot(ScopesAt(b, t), e) # Snapshot(ScopesAt(b, u), e)
             PROVE  \E h \in HistoryAtHead(b, e) : t < h.tx /\ h.tx =< u
  BY DEF HistoryExplainsEveryChange
<1>1. /\ Cardinality(transactions) \in Nat
      /\ \A r \in entities \cup assertions : r.tx \in 1 .. Cardinality(transactions)
  BY TxOfRows DEF TreeInv
<1>2. \A c \in Committed(b) : c \in 1 .. Cardinality(transactions)
  BY DEF Committed, TreeInv, IdsInv
<1>3. PICK head : head = HeadTx(b)
  OBVIOUS
<1>4. head \in Committed(b) /\ u =< head
  BY <1>3, HeadOf
<1>5. PICK scopes : scopes = ScopesAt(b, head)
  OBVIOUS
<1>6. Len(scopes) \in Nat \ {0} /\ scopes[1] = [branch |-> b, upper |-> head]
  BY <1>5, ScopesOf DEF TreeInv
\* The row that made the difference.
<1>7. PICK r \in HistoryRows(e) \cup EntityRows(e) : r.branch = b /\ t < r.tx /\ r.tx =< u
  BY <1>1, <1>2, QuietSnapshots
<1>8. r.tx \in Events(scopes, e)
  <2>1. r.tx \in Nat /\ u \in Nat /\ head \in Nat
    BY <1>1, <1>2, <1>4 DEF HistoryRows, EntityRows
  <2>2. InScope(scopes[1], r)
    BY <1>4, <1>6, <1>7, <2>1 DEF InScope
  <2> QED BY <1>6, <2>2 DEF Events
\* The entity has a record.
<1>9. GetLatest(EntityRows(e), scopes) # {}
  <2>1. PICK at \in {t, u} : LiveRecord(ScopesAt(b, at), e) # {}
    BY DEF Snapshot
  <2>2. at \in Committed(b)
    OBVIOUS
  <2>3. PICK y : y = ScopesAt(b, at)
    OBVIOUS
  <2>4. PICK i \in 1 .. Len(y), d \in EntityRows(e) : InScope(y[i], d)
    BY <2>1, <2>3 DEF LiveRecord, GetLatest
  <2>5. at =< head
    BY <1>3, HeadOf
  <2>6. /\ Len(y) = Len(scopes) /\ Len(y) \in Nat
        /\ y[1] = [branch |-> b, upper |-> at] /\ scopes[1] = [branch |-> b, upper |-> head]
        /\ \A j \in 2 .. Len(y) : y[j] = scopes[j]
    BY <1>5, <2>3, ScopesAlike
  <2>7. InScope(scopes[i], d)
    <3>1. CASE i = 1
      <4>1. d.tx \in Nat /\ at \in Nat /\ head \in Nat
        BY <1>1, <1>2, <1>4, <2>2 DEF EntityRows
      <4> QED BY <1>6, <2>4, <2>5, <2>6, <3>1, <4>1 DEF InScope
    <3>2. CASE i # 1
      BY <2>4, <2>6, <3>2
    <3> QED BY <3>1, <3>2
  <2> QED BY <1>6, <2>4, <2>6, <2>7, SomeIsFound
<1> DEFINE events == {x \in Events(scopes, e) : x >= None}
           entries == {Entry(b, e, x) : x \in events}
           list == NewestFirst(entries)
<1>10. \A x \in events : x \in 1 .. Cardinality(transactions)
  BY <1>1 DEF Events, HistoryRows, EntityRows
<1>11. \A x : Entry(b, e, x).tx = x
  BY DEF Entry
<1>12. /\ \A h \in entries : h.tx \in 1 .. Cardinality(transactions)
       /\ \A h, k \in entries : h.tx = k.tx => h = k
       /\ r.tx \in events => \E h \in entries : h.tx = r.tx
  <2> HIDE DEF events
  <2> QED BY <1>10, <1>11
<1>13. r.tx \in events
  BY <1>1, <1>8 DEF None, HistoryRows, EntityRows
<1> HIDE DEF events, entries
<1>14. IsFiniteSet(entries) /\ Cardinality(entries) =< Cardinality(transactions)
  BY <1>1, <1>12, RowsAreFinite
<1>15. Numbered(entries)
  BY <1>1, <1>12, <1>14 DEF Numbered
<1>16. /\ list \in Seq(entries) /\ Len(list) = Cardinality(entries)
       /\ \A h \in entries : \E i \in 1 .. Len(list) : list[i] = h
  BY <1>15, OrderOf
<1> HIDE DEF list
<1>17. UpTo(NoLimit, list) = list
  <2>1. Cardinality(Entities) \in Nat
    BY FS_CardinalityType, ReadsAssumption
  <2>2. NoLimit \in Nat /\ Len(list) =< NoLimit
    BY <1>1, <1>14, <1>16, <2>1, TerraAssumption DEF NoLimit, TreeInv, IdsInv
  <2> QED BY <1>16, <2>2, AllOfList
<1>18. History(b, e, None, HeadTx(b), NoLimit) = list
  BY <1>3, <1>5, <1>9, <1>17 DEF History, list, entries, events
<1>19. PICK h \in entries : h.tx = r.tx
  BY <1>12, <1>13
<1>20. h \in HistoryAtHead(b, e)
  <2>1. DOMAIN list = 1 .. Len(list)
    BY <1>16
  <2> QED BY <1>16, <1>18, <1>19, <2>1 DEF HistoryAtHead, ToSet
<1> QED BY <1>7, <1>19, <1>20

\* A change of what a branch shows of an entity between two of its transactions
\* has a transaction in the history, whatever else happened on the branch.
THEOREM HistoryAlwaysExplains == Spec => []HistoryExplainsEveryChange
<1>1. TreeInv /\ RowInv => HistoryExplainsEveryChange
  BY HistoryExplains
<1> QED BY <1>1, RowInvHolds, PTL

-----------------------------------------------------------------------------
(***************************************************************************)
(* Lists in an order.                                                      *)
(***************************************************************************)
Orders(S, R) ==
  /\ \A x \in S : <<x, x>> \in R
  /\ \A x, y \in S : <<x, y>> \in R \/ <<y, x>> \in R
  /\ \A x, y \in S : <<x, y>> \in R /\ <<y, x>> \in R => x = y
  /\ \A x, y, z \in S : <<x, y>> \in R /\ <<y, z>> \in R => <<x, z>> \in R

\* A finite set in an order has each member once.
Ordered(S, R, list) ==
  /\ list \in Seq(S) /\ Len(list) = Cardinality(S)
  /\ \A x \in S : \E i \in 1 .. Len(list) : list[i] = x
  /\ \A i, j \in 1 .. Len(list) : i < j => list[i] # list[j] /\ <<list[i], list[j]>> \in R

LEMMA InOrderOf ==
  ASSUME NEW S, IsFiniteSet(S), NEW R, Orders(S, R)
  PROVE  Ordered(S, R, InOrder(S, R))
<1> DEFINE n == Cardinality(S)
           Down(x) == {y \in S : <<y, x>> \in R}
           rank == [x \in S |-> Cardinality(Down(x))]
           order == InOrder(S, R)
<1>1. n \in Nat
  BY FS_CardinalityType
<1>2. ASSUME NEW x \in S
      PROVE  IsFiniteSet(Down(x)) /\ rank[x] \in 1 .. n
  <2>1. IsFiniteSet(Down(x)) /\ Cardinality(Down(x)) =< n
    BY FS_Subset
  <2>2. x \in Down(x)
    BY DEF Orders
  <2>3. Cardinality(Down(x)) \in Nat /\ Cardinality(Down(x)) # 0
    BY <2>1, <2>2, FS_CardinalityType, FS_EmptySet
  <2> QED BY <2>1, <2>3, <1>1
<1>3. ASSUME NEW x \in S, NEW y \in S, x # y, <<x, y>> \in R
      PROVE  rank[x] < rank[y]
  <2>1. Down(x) \subseteq Down(y) /\ y \in Down(y) /\ y \notin Down(x)
    BY <1>3 DEF Orders
  <2>2. Cardinality(Down(x)) =< Cardinality(Down(y)) /\ Cardinality(Down(x)) # Cardinality(Down(y))
    <3>1. IsFiniteSet(Down(y))
      BY <1>2
    <3> HIDE DEF Down
    <3> QED BY <2>1, <3>1, FS_Subset
  <2>3. rank[x] \in Nat /\ rank[y] \in Nat
    <3> HIDE DEF rank, n
    <3>1. rank[x] \in 1 .. n /\ rank[y] \in 1 .. n
      BY <1>2
    <3> QED BY <1>1, <3>1
  <2> QED BY <2>2, <2>3
<1>4. rank \in [S -> 1 .. n]
  BY <1>2
<1>5. \A x, y \in S : rank[x] = rank[y] => x = y
  <2> SUFFICES ASSUME NEW x \in S, NEW y \in S, rank[x] = rank[y], x # y
               PROVE  FALSE
    OBVIOUS
  <2>1. <<x, y>> \in R \/ <<y, x>> \in R
    BY DEF Orders
  <2> HIDE DEF rank
  <2>2. rank[x] < rank[y] \/ rank[y] < rank[x]
    BY <1>3, <2>1
  <2> HIDE DEF n
  <2>3. rank[x] \in 1 .. n /\ rank[y] \in 1 .. n
    BY <1>2
  <2> QED BY <1>1, <2>2, <2>3
<1>6. rank \in Surjection(S, 1 .. n)
  <2>1. IsFiniteSet(1 .. n) /\ Cardinality(1 .. n) = n
    BY <1>1, FS_Interval
  <2> HIDE DEF rank
  <2>2. rank \in Injection(S, 1 .. n)
    BY <1>4, <1>5, Fun_IsInj
  <2> QED BY <2>1, <2>2, FS_Injection
<1>7. \A i \in 1 .. n : \E x \in S : rank[x] = i
  <2> HIDE DEF rank
  <2> QED BY <1>6, Fun_SurjectionProperties
<1>8. order = [i \in 1 .. n |-> CHOOSE x \in S : Cardinality(Down(x)) = i]
  BY DEF InOrder
<1>9. \A i \in 1 .. n : order[i] \in S /\ rank[order[i]] = i
  <2> SUFFICES ASSUME NEW i \in 1 .. n
               PROVE  order[i] \in S /\ rank[order[i]] = i
    OBVIOUS
  <2>1. \E x \in S : Cardinality(Down(x)) = i
    BY <1>7
  <2>2. order[i] = CHOOSE x \in S : Cardinality(Down(x)) = i
    BY <1>8
  <2> HIDE DEF order, Down
  <2>3. order[i] \in S /\ Cardinality(Down(order[i])) = i
    BY <2>1, <2>2
  <2> QED BY <2>3
<1>10. order \in [1 .. n -> S]
  <2> HIDE DEF order, Down
  <2>1. order = [i \in 1 .. n |-> order[i]]
    BY <1>8
  <2> QED BY <1>9, <2>1
<1> HIDE DEF order
<1>11. order \in Seq(S) /\ Len(order) = n
  BY <1>1, <1>10
<1>12. \A x \in S : \E i \in 1 .. n : order[i] = x
  <2> TAKE x \in S
  <2> HIDE DEF rank
  <2>1. rank[x] \in 1 .. n
    BY <1>2
  <2>2. order[rank[x]] \in S /\ rank[order[rank[x]]] = rank[x]
    BY <1>9, <2>1
  <2>3. order[rank[x]] = x
    BY <1>5, <2>2
  <2> QED BY <2>1, <2>3
<1>13. ASSUME NEW i \in 1 .. n, NEW j \in 1 .. n, i < j
       PROVE  order[i] # order[j] /\ <<order[i], order[j]>> \in R
  <2> HIDE DEF rank
  <2>1. /\ order[i] \in S /\ rank[order[i]] = i
        /\ order[j] \in S /\ rank[order[j]] = j
    BY <1>9
  <2>2. i \in Nat /\ j \in Nat
    BY <1>1
  <2>3. order[i] # order[j]
    BY <1>13, <2>1, <2>2
  <2>4. CASE <<order[j], order[i]>> \in R
    <3>1. rank[order[j]] < rank[order[i]]
      BY <1>3, <2>1, <2>3, <2>4
    <3> QED BY <1>13, <2>1, <2>2, <3>1
  <2> QED BY <2>1, <2>3, <2>4 DEF Orders
<1> HIDE DEF rank, Down
<1> QED BY <1>11, <1>12, <1>13 DEF Ordered, order

\* The members of a list at some of its places.
LEMMA SelectedOf ==
  ASSUME NEW X, NEW list \in Seq(X), NEW places \in SUBSET (1 .. Len(list))
  PROVE  /\ Selected(list, places) \in Seq(X) /\ IsFiniteSet(places)
         /\ Len(Selected(list, places)) = Cardinality(places)
         /\ ToSet(Selected(list, places)) = {list[i] : i \in places}
<1> DEFINE R == {x \in places \X places : x[1] =< x[2]}
           order == InOrder(places, R)
           taken == [k \in 1 .. Len(order) |-> list[order[k]]]
<1>1. IsFiniteSet(places) /\ \A i \in places : i \in Nat /\ list[i] \in X
  <2>1. PICK n \in Nat : n = Len(list)
    OBVIOUS
  <2>2. IsFiniteSet(1 .. n)
    BY <2>1, FS_Interval
  <2>3. IsFiniteSet(places)
    BY <2>1, <2>2, FS_Subset
  <2> QED BY <2>3
<1>2. \A x, y \in places : <<x, y>> \in R <=> x =< y
  OBVIOUS
<1>3. Orders(places, R)
  <2> HIDE DEF R
  <2> QED BY <1>1, <1>2 DEF Orders
<1> HIDE DEF R
<1>4. Ordered(places, R, order)
  BY <1>1, <1>3, InOrderOf
<1> HIDE DEF order
<1>5. /\ order \in Seq(places) /\ Len(order) = Cardinality(places) /\ Len(order) \in Nat
      /\ \A x \in places : \E k \in 1 .. Len(order) : order[k] = x
  BY <1>4 DEF Ordered
<1>6. /\ \A k \in 1 .. Len(order) : order[k] \in places
      /\ taken \in Seq(X) /\ Len(taken) = Len(order) /\ DOMAIN taken = 1 .. Len(order)
  <2>1. \A k \in 1 .. Len(order) : order[k] \in places
    BY <1>5
  <2>2. taken \in [1 .. Len(order) -> X]
    BY <1>1, <2>1
  <2> HIDE DEF taken
  <2> QED BY <1>5, <2>1, <2>2
<1>7. Selected(list, places) = taken
  BY DEF Selected, taken, order, R
<1>8. ToSet(taken) = {list[i] : i \in places}
  <2>1. ASSUME NEW k \in 1 .. Len(order)
        PROVE  \E i \in places : taken[k] = list[i]
    BY <1>6
  <2>2. ASSUME NEW i \in places
        PROVE  \E k \in 1 .. Len(order) : taken[k] = list[i]
    BY <1>5
  <2> HIDE DEF taken
  <2>3. ToSet(taken) = {taken[k] : k \in 1 .. Len(order)}
    BY <1>6 DEF ToSet
  <2>4. \A x \in ToSet(taken) : x \in {list[i] : i \in places}
    BY <2>1, <2>3
  <2>5. \A i \in places : list[i] \in ToSet(taken)
    BY <2>2, <2>3
  <2> QED BY <2>4, <2>5
<1> QED BY <1>1, <1>5, <1>6, <1>7, <1>8

\* A finite set as a list.
LEMMA SetToSeqOf ==
  ASSUME NEW S, IsFiniteSet(S)
  PROVE  /\ SetToSeq(S) \in Seq(S) /\ Len(SetToSeq(S)) = Cardinality(S)
         /\ \A x \in S : \E i \in 1 .. Len(SetToSeq(S)) : SetToSeq(S)[i] = x
         /\ \A i, j \in 1 .. Len(SetToSeq(S)) : SetToSeq(S)[i] = SetToSeq(S)[j] => i = j
<1>1. PICK n : n = Cardinality(S)
  OBVIOUS
<1>2. n \in Nat /\ ExistsBijection(1 .. n, S)
  BY <1>1, FS_CardinalityType
<1>3. PICK f : f \in Bijection(1 .. n, S)
  BY <1>2 DEF ExistsBijection
<1>4. f \in [1 .. n -> S] /\ IsInjective(f)
  BY <1>3 DEF Bijection, Injection
<1>5. PICK g : g = SetToSeq(S)
  OBVIOUS
<1>6. g \in [1 .. n -> S] /\ IsInjective(g)
  BY <1>1, <1>4, <1>5 DEF SetToSeq
<1>7. g \in Injection(1 .. n, S)
  BY <1>6 DEF Injection
<1>8. IsFiniteSet(1 .. n) /\ Cardinality(1 .. n) = n
  BY <1>2, FS_Interval
<1>9. g \in Surjection(1 .. n, S)
  BY <1>1, <1>7, <1>8, FS_Injection
<1>10. \A x \in S : \E i \in 1 .. n : g[i] = x
  BY <1>9 DEF Surjection
<1>11. g \in Seq(S) /\ Len(g) = n
  BY <1>2, <1>6
<1>12. \A i, j \in 1 .. n : g[i] = g[j] => i = j
  BY <1>6 DEF IsInjective
<1> QED BY <1>1, <1>5, <1>10, <1>11, <1>12

\* Rows from new to old.
LEMMA ByAgeOf ==
  ASSUME NEW rows, IsFiniteSet(rows), \A r \in rows : r.tx \in Nat
  PROVE  /\ ByAge(rows) \in Seq(rows) /\ Len(ByAge(rows)) = Cardinality(rows)
         /\ Cardinality(rows) \in Nat
         /\ \A r \in rows : \E i \in 1 .. Len(ByAge(rows)) : ByAge(rows)[i] = r
         /\ \A i, j \in 1 .. Len(ByAge(rows)) :
              i < j => /\ ByAge(rows)[j].tx =< ByAge(rows)[i].tx
                       /\ ByAge(rows)[j] # ByAge(rows)[i]
<1>1. PICK some : some = SetToSeq(rows)
  OBVIOUS
<1>2. /\ some \in Seq(rows) /\ Len(some) = Cardinality(rows)
      /\ \A r \in rows : \E i \in 1 .. Len(some) : some[i] = r
      /\ \A i, j \in 1 .. Len(some) : some[i] = some[j] => i = j
  BY <1>1, SetToSeqOf
<1>3. PICK n \in Nat : n = Len(some)
  BY <1>2
<1> DEFINE places == 1 .. n
           R == {x \in places \X places :
                   \/ some[x[1]].tx > some[x[2]].tx
                   \/ some[x[1]].tx = some[x[2]].tx /\ x[1] =< x[2]}
           order == InOrder(places, R)
           list == [k \in places |-> some[order[k]]]
<1>4. ByAge(rows) = list
  BY <1>1, <1>3 DEF ByAge
<1>5. \A i \in places : i \in Nat /\ some[i] \in rows /\ some[i].tx \in Nat
  BY <1>2, <1>3
<1>6. \A i, j \in places : <<i, j>> \in R <=>
        \/ some[i].tx > some[j].tx
        \/ some[i].tx = some[j].tx /\ i =< j
  OBVIOUS
<1>7. IsFiniteSet(places) /\ Cardinality(places) = n
  BY FS_Interval
<1>8. Orders(places, R)
  <2> HIDE DEF R, places
  <2> QED BY <1>5, <1>6 DEF Orders
<1> HIDE DEF R
<1>9. Ordered(places, R, order)
  BY <1>7, <1>8, InOrderOf
<1> HIDE DEF order
<1>10. /\ order \in Seq(places) /\ Len(order) = n
       /\ \A i \in places : \E k \in places : order[k] = i
       /\ \A k, l \in places : k < l => order[k] # order[l] /\ <<order[k], order[l]>> \in R
  BY <1>7, <1>9 DEF Ordered
<1>11. \A k \in places : order[k] \in places
  <2> SUFFICES ASSUME NEW k \in 1 .. Len(order) PROVE order[k] \in places
    BY <1>10
  <2> HIDE DEF places
  <2> QED BY <1>10
<1>12. list \in Seq(rows) /\ Len(list) = n
  BY <1>5, <1>11
<1>13. \A r \in rows : \E k \in places : list[k] = r
  <2> TAKE r \in rows
  <2>1. PICK i \in places : some[i] = r
    BY <1>2, <1>3
  <2>2. PICK k \in places : order[k] = i
    BY <1>10
  <2> QED BY <2>1, <2>2
<1>14. ASSUME NEW k \in places, NEW l \in places, k < l
       PROVE  list[l].tx =< list[k].tx /\ list[l] # list[k]
  <2>1. PICK i \in places, j \in places : i = order[k] /\ j = order[l]
    BY <1>11
  <2>2. i # j /\ <<i, j>> \in R
    BY <1>10, <1>14, <2>1
  <2>3. list[k] = some[i] /\ list[l] = some[j]
    BY <2>1
  <2>4. some[j].tx =< some[i].tx
    BY <1>5, <1>6, <2>2
  <2>5. some[i] # some[j]
    BY <1>2, <1>3, <2>2
  <2> QED BY <2>3, <2>4, <2>5
<1> HIDE DEF list
<1> QED BY <1>2, <1>3, <1>4, <1>12, <1>13, <1>14

-----------------------------------------------------------------------------
(***************************************************************************)
(* Lists of transactions.                                                  *)
(***************************************************************************)
IsFlatten(f, seqs) ==
  f = [i \in 1 .. Len(seqs) |-> IF i = 1 THEN seqs[i] ELSE f[i - 1] \o seqs[i]]

LEMMA FlattenExists ==
  ASSUME NEW seqs, Len(seqs) \in Nat
  PROVE  \E f : IsFlatten(f, seqs)
<1> DEFINE len == Len(seqs)
           Upto(m, g) == /\ g = [n \in 1 .. m |-> g[n]]
                         /\ m # 0 => g[1] = seqs[1]
                         /\ \A n \in 2 .. m : g[n] = g[n - 1] \o seqs[n]
           Bad == {m \in Nat : ~ \E g : Upto(m, g)}
<1>1. Bad = {}
  <2> SUFFICES ASSUME Bad # {}
               PROVE  FALSE
    OBVIOUS
  <2>1. PICK m \in Bad : \A n \in Bad : m =< n
    <3> HIDE DEF Bad
    <3>1. Bad \in SUBSET Nat
      BY DEF Bad
    <3> QED BY <3>1, LeastNumber
  <2>2. m # 0
    <3>1. Upto(0, [n \in 1 .. 0 |-> seqs[1]])
      OBVIOUS
    <3> QED BY <2>1, <3>1
  <2>3. m \in Nat /\ m - 1 \in Nat /\ ~(m =< m - 1)
    BY <2>1, <2>2
  <2>4. PICK h : Upto(m - 1, h)
    BY <2>1, <2>3
  <2> DEFINE g == [n \in 1 .. m |-> IF n < m THEN h[n]
                                    ELSE IF n = 1 THEN seqs[1] ELSE h[m - 1] \o seqs[m]]
  <2>5. Upto(m, g)
    <3>1. g = [n \in 1 .. m |-> g[n]]
      OBVIOUS
    <3>2. g[m] = IF m = 1 THEN seqs[1] ELSE h[m - 1] \o seqs[m]
      BY <2>2, <2>3
    <3>3. \A n \in 1 .. m - 1 : g[n] = h[n]
      BY <2>3
    <3> HIDE DEF g
    <3>4. g[1] = seqs[1]
      BY <2>2, <2>3, <2>4, <3>2, <3>3
    <3>5. \A n \in 2 .. m : g[n] = g[n - 1] \o seqs[n]
      <4> TAKE n \in 2 .. m
      <4>1. CASE n = m
        <5>1. m # 1 /\ m - 1 \in 1 .. m - 1
          BY <4>1, <2>3
        <5>2. g[m - 1] = h[m - 1]
          BY <5>1, <3>3
        <5>3. g[m] = h[m - 1] \o seqs[m]
          BY <5>1, <3>2
        <5> QED BY <4>1, <5>2, <5>3
      <4>2. CASE n # m
        <5>1. n \in 2 .. m - 1 /\ n \in 1 .. m - 1 /\ n - 1 \in 1 .. m - 1
          BY <4>2, <2>3
        <5> QED BY <5>1, <3>3, <2>4
      <4> QED BY <4>1, <4>2
    <3> QED BY <3>1, <3>4, <3>5
  <2> QED BY <2>1, <2>5
<1>2. PICK g : Upto(len, g)
  BY <1>1
<1> HIDE DEF Bad
<1> DEFINE Body(n) == IF n = 1 THEN seqs[n] ELSE g[n - 1] \o seqs[n]
<1>3. \A n \in 1 .. len : g[n] = Body(n)
  <2> TAKE n \in 1 .. len
  <2>1. CASE n = 1
    BY <1>2, <2>1
  <2>2. CASE n # 1
    <3>1. n \in 2 .. len
      BY <2>2
    <3> QED BY <1>2, <2>2, <3>1
  <2> QED BY <2>1, <2>2
<1>4. g = [n \in 1 .. len |-> g[n]]
  BY <1>2
<1>5. [n \in 1 .. len |-> g[n]] = [n \in 1 .. len |-> Body(n)]
  <2> HIDE DEF Body
  <2> QED BY <1>3
<1>6. g = [n \in 1 .. len |-> Body(n)]
  BY <1>4, <1>5, Zenon
<1> QED BY <1>6 DEF IsFlatten

LEMMA FlattenStep ==
  ASSUME NEW seqs, Len(seqs) \in Nat, NEW f, IsFlatten(f, seqs)
  PROVE  \A i \in 1 .. Len(seqs) : f[i] = IF i = 1 THEN seqs[i] ELSE f[i - 1] \o seqs[i]
<1> DEFINE Body(i) == IF i = 1 THEN seqs[i] ELSE f[i - 1] \o seqs[i]
<1>1. f = [i \in 1 .. Len(seqs) |-> Body(i)]
  BY Zenon DEF IsFlatten
<1> HIDE DEF Body
<1>2. \A i \in 1 .. Len(seqs) : f[i] = Body(i)
  BY <1>1
<1> QED BY <1>2 DEF Body

\* From new to old.
Falling(list) == \A i, j \in 1 .. Len(list) : i < j => list[j].tx < list[i].tx

LEMMA FallingOn ==
  ASSUME NEW S, NEW x \in Seq(S), NEW y \in Seq(S), Falling(x), Falling(y),
         \A i \in 1 .. Len(x), j \in 1 .. Len(y) : y[j].tx < x[i].tx
  PROVE  Falling(x \o y)
<1> SUFFICES ASSUME NEW i \in 1 .. Len(x \o y), NEW j \in 1 .. Len(x \o y), i < j
             PROVE  (x \o y)[j].tx < (x \o y)[i].tx
  BY DEF Falling
<1>1. Len(x) \in Nat /\ Len(y) \in Nat /\ Len(x \o y) = Len(x) + Len(y)
  OBVIOUS
<1>2. /\ \A n \in 1 .. Len(x) : (x \o y)[n] = x[n]
      /\ \A n \in 1 .. Len(x \o y) : ~(n =< Len(x)) => (x \o y)[n] = y[n - Len(x)]
  OBVIOUS
<1>3. CASE j =< Len(x)
  BY <1>1, <1>2, <1>3 DEF Falling
<1>4. CASE ~(j =< Len(x)) /\ i =< Len(x)
  <2>1. j - Len(x) \in 1 .. Len(y) /\ i \in 1 .. Len(x)
    BY <1>1, <1>4
  <2> QED BY <1>2, <1>4, <2>1
<1>5. CASE ~(i =< Len(x))
  <2>1. j - Len(x) \in 1 .. Len(y) /\ i - Len(x) \in 1 .. Len(y) /\ i - Len(x) < j - Len(x)
        /\ ~(j =< Len(x))
    BY <1>1, <1>5
  <2> QED BY <1>2, <1>5, <2>1 DEF Falling
<1> QED BY <1>1, <1>3, <1>4, <1>5

\* Lists from new to old, each older than the one before it.
Cascade(seqs) ==
  /\ \A i \in 1 .. Len(seqs) : Falling(seqs[i])
  /\ \A i, j \in 1 .. Len(seqs) : i < j =>
       \A k \in 1 .. Len(seqs[i]), l \in 1 .. Len(seqs[j]) : seqs[j][l].tx < seqs[i][k].tx

LEMMA CascadeFalls ==
  ASSUME NEW S, NEW seqs, Len(seqs) \in Nat \ {0}, \A i \in 1 .. Len(seqs) : seqs[i] \in Seq(S)
  PROVE  /\ FlattenSeq(seqs) \in Seq(S)
         /\ Cascade(seqs) => Falling(FlattenSeq(seqs))
         /\ \A i \in 1 .. Len(seqs) : \A k \in 1 .. Len(seqs[i]) :
              \E n \in 1 .. Len(FlattenSeq(seqs)) : FlattenSeq(seqs)[n] = seqs[i][k]
<1> DEFINE f == CHOOSE g : IsFlatten(g, seqs)
           len == Len(seqs)
<1>1. FlattenSeq(seqs) = f[len]
  BY DEF FlattenSeq, IsFlatten
<1>2. IsFlatten(f, seqs)
  BY FlattenExists
<1> HIDE DEF f
<1>3. \A i \in 1 .. len : f[i] = IF i = 1 THEN seqs[i] ELSE f[i - 1] \o seqs[i]
  BY <1>2, FlattenStep
<1> DEFINE Holds(m) == /\ f[m] \in Seq(S)
                       /\ Cascade(seqs) => Falling(f[m])
                       /\ \A i \in 1 .. m : \A k \in 1 .. Len(seqs[i]) :
                            \E n \in 1 .. Len(f[m]) : f[m][n] = seqs[i][k]
                       /\ \A n \in 1 .. Len(f[m]) :
                            \E i \in 1 .. m : \E k \in 1 .. Len(seqs[i]) : f[m][n] = seqs[i][k]
           Bad == {m \in 1 .. len : ~Holds(m)}
<1>4. len \in Nat /\ len # 0
  OBVIOUS
<1>5. Holds(1)
  BY <1>3, <1>4 DEF Cascade
<1>6. ASSUME NEW m \in 2 .. len, Holds(m - 1)
      PROVE  Holds(m)
  <2>1. PICK x : x = f[m - 1]
    OBVIOUS
  <2>2. PICK y : y = seqs[m]
    OBVIOUS
  <2>3. m \in 1 .. len /\ m - 1 \in 1 .. len /\ m # 1 /\ m \in Nat
    BY <1>4
  <2>4. f[m] = x \o y
    BY <1>3, <2>1, <2>2, <2>3
  <2>5. x \in Seq(S) /\ y \in Seq(S) /\ (Cascade(seqs) => Falling(x) /\ Falling(y))
    BY <1>6, <2>1, <2>2, <2>3 DEF Cascade
  <2>6. Cascade(seqs) => \A i \in 1 .. Len(x), j \in 1 .. Len(y) : y[j].tx < x[i].tx
    <3> SUFFICES ASSUME Cascade(seqs), NEW i \in 1 .. Len(x), NEW j \in 1 .. Len(y)
                 PROVE  y[j].tx < x[i].tx
      OBVIOUS
    <3>1. PICK a \in 1 .. m - 1 : \E k \in 1 .. Len(seqs[a]) : x[i] = seqs[a][k]
      BY <1>6, <2>1
    <3>2. a \in 1 .. len /\ a < m
      BY <2>3, <1>4
    <3> QED BY <2>2, <2>3, <3>1, <3>2 DEF Cascade
  <2>7. /\ Len(x) \in Nat /\ Len(y) \in Nat /\ Len(x \o y) = Len(x) + Len(y)
        /\ \A n \in 1 .. Len(x) : n \in 1 .. Len(x \o y) /\ (x \o y)[n] = x[n]
        /\ \A n \in 1 .. Len(y) : n + Len(x) \in 1 .. Len(x \o y) /\ (x \o y)[n + Len(x)] = y[n]
        /\ \A n \in 1 .. Len(x \o y) : n \in 1 .. Len(x) \/ n - Len(x) \in 1 .. Len(y)
        /\ \A n \in 1 .. Len(x \o y) : n \notin 1 .. Len(x) => (x \o y)[n] = y[n - Len(x)]
    BY <2>5
  <2>8. (Cascade(seqs) => Falling(x \o y)) /\ x \o y \in Seq(S)
    BY <2>5, <2>6, FallingOn
  <2>9. ASSUME NEW i \in 1 .. m, NEW k \in 1 .. Len(seqs[i])
        PROVE  \E n \in 1 .. Len(x \o y) : (x \o y)[n] = seqs[i][k]
    <3>1. CASE i = m
      BY <2>2, <2>7, <3>1
    <3>2. CASE i # m
      <4>1. i \in 1 .. m - 1
        BY <2>3, <3>2
      <4>2. PICK n \in 1 .. Len(x) : x[n] = seqs[i][k]
        BY <1>6, <2>1, <4>1
      <4> QED BY <2>7, <4>2
    <3> QED BY <3>1, <3>2
  <2>10. ASSUME NEW n \in 1 .. Len(x \o y)
         PROVE  \E i \in 1 .. m : \E k \in 1 .. Len(seqs[i]) : (x \o y)[n] = seqs[i][k]
    <3>1. CASE n \in 1 .. Len(x)
      <4>1. PICK i \in 1 .. m - 1 : \E k \in 1 .. Len(seqs[i]) : x[n] = seqs[i][k]
        BY <1>6, <2>1, <3>1
      <4>2. i \in 1 .. m
        BY <2>3
      <4> QED BY <2>7, <3>1, <4>1, <4>2
    <3>2. CASE n \notin 1 .. Len(x)
      <4>1. n - Len(x) \in 1 .. Len(seqs[m]) /\ (x \o y)[n] = seqs[m][n - Len(x)]
        BY <2>2, <2>7, <3>2
      <4> QED BY <2>3, <4>1
    <3> QED BY <3>1, <3>2
  <2> DEFINE z == x \o y
  <2>11. /\ z \in Seq(S) /\ (Cascade(seqs) => Falling(z))
         /\ \A i \in 1 .. m : \A k \in 1 .. Len(seqs[i]) : \E n \in 1 .. Len(z) : z[n] = seqs[i][k]
         /\ \A n \in 1 .. Len(z) : \E i \in 1 .. m : \E k \in 1 .. Len(seqs[i]) : z[n] = seqs[i][k]
    BY <2>8, <2>9, <2>10
  <2>12. f[m] = z
    BY <2>4
  <2> HIDE DEF z
  <2> QED BY <2>11, <2>12
<1>7. Bad = {}
  <2> SUFFICES ASSUME Bad # {}
               PROVE  FALSE
    OBVIOUS
  <2> HIDE DEF Holds
  <2>1. PICK m \in Bad : \A n \in Bad : m =< n
    <3>1. Bad \in SUBSET Nat
      OBVIOUS
    <3> HIDE DEF Bad
    <3> QED BY <3>1, LeastNumber
  <2>2. m # 1
    BY <1>5, <2>1
  <2>3. m \in 2 .. len /\ m - 1 \in 1 .. len /\ ~(m =< m - 1)
    BY <1>4, <2>1, <2>2
  <2>4. Holds(m - 1)
    BY <2>1, <2>3
  <2> QED BY <1>6, <2>1, <2>3, <2>4
<1>8. Holds(len)
  <2> HIDE DEF Holds
  <2> QED BY <1>4, <1>7
<1> QED BY <1>1, <1>8


\* The list of a branch is its line, from new to old.
LEMMA ListIsLine ==
  ASSUME TreeInv, NEW b \in Opened, NEW at \in Nat
  PROVE  /\ Falling(ListTransactions(b, at, NoLimit))
         /\ Line(b, at) \subseteq ToSet(ListTransactions(b, at, NoLimit))
<1>1. PICK scopes : scopes = ScopesAt(b, at)
  OBVIOUS
<1>2. Len(scopes) \in Nat \ {0} /\ Descends(scopes)
  BY <1>1, ScopesOf, ScopesDescend DEF TreeInv, AllDescend
<1>3. /\ Cardinality(transactions) \in Nat /\ Cardinality(transactions) =< MaxTx
      /\ IsFiniteSet(transactions)
      /\ \A t \in transactions : t.tx \in Nat \ {0}
      /\ \A t, u \in transactions : t.tx = u.tx => t = u
  BY FS_CardinalityType, Numbers DEF TreeInv, IdsInv
<1> DEFINE T(i) == {r \in transactions : InScope(scopes[i], r)}
           seqs == [i \in 1 .. Len(scopes) |-> ByAge(T(i))]
           list == FlattenSeq(seqs)
<1>4. ASSUME NEW i \in 1 .. Len(scopes)
      PROVE  /\ seqs[i] \in Seq(transactions) /\ seqs[i] \in Seq(T(i)) /\ Falling(seqs[i])
             /\ \A r \in T(i) : \E n \in 1 .. Len(seqs[i]) : seqs[i][n] = r
  <2>1. T(i) \subseteq transactions /\ IsFiniteSet(T(i))
    BY <1>3, FS_Subset
  <2> HIDE DEF T
  <2>2. \A r \in T(i) : r.tx \in Nat
    BY <1>3, <2>1
  <2>3. PICK s : s = ByAge(T(i))
    OBVIOUS
  <2>4. seqs[i] = s
    BY <2>3
  <2>5. /\ s \in Seq(T(i))
        /\ \A r \in T(i) : \E n \in 1 .. Len(s) : s[n] = r
        /\ \A m, n \in 1 .. Len(s) : m < n => s[n].tx =< s[m].tx /\ s[n] # s[m]
    BY <2>1, <2>2, <2>3, ByAgeOf
  <2>6. s \in Seq(transactions)
    BY <2>1, <2>5
  <2>7. Falling(s)
    <3> SUFFICES ASSUME NEW m \in 1 .. Len(s), NEW n \in 1 .. Len(s), m < n
                 PROVE  s[n].tx < s[m].tx
      BY DEF Falling
    <3>1. s[m] \in transactions /\ s[n] \in transactions
      BY <2>6
    <3>2. s[n].tx =< s[m].tx /\ s[n] # s[m]
      BY <2>5
    <3>3. s[m].tx \in Nat /\ s[n].tx \in Nat /\ s[m].tx # s[n].tx
      BY <1>3, <3>1, <3>2
    <3> QED BY <3>2, <3>3
  <2> QED BY <2>4, <2>5, <2>6, <2>7
<1>5. Len(seqs) = Len(scopes)
  BY <1>2
<1>6. ASSUME NEW i \in 1 .. Len(scopes), NEW j \in 1 .. Len(scopes), i < j,
             NEW k \in 1 .. Len(seqs[i]), NEW l \in 1 .. Len(seqs[j])
      PROVE  seqs[j][l].tx < seqs[i][k].tx
  <2>1. seqs[i] \in Seq(T(i)) /\ seqs[j] \in Seq(T(j))
    BY <1>4
  <2> HIDE DEF seqs, T
  <2>2. seqs[i][k] \in T(i) /\ seqs[j][l] \in T(j)
    BY <2>1
  <2> QED BY <1>2, <1>6, <2>2 DEF Descends, T
<1> HIDE DEF seqs
<1>7. Cascade(seqs)
  BY <1>4, <1>5, <1>6 DEF Cascade
<1>8. /\ list \in Seq(transactions)
      /\ Falling(list)
      /\ \A i \in 1 .. Len(seqs) : \A k \in 1 .. Len(seqs[i]) :
           \E n \in 1 .. Len(list) : list[n] = seqs[i][k]
  <2>1. Len(seqs) \in Nat \ {0} /\ \A i \in 1 .. Len(seqs) : seqs[i] \in Seq(transactions)
    BY <1>2, <1>4, <1>5
  <2> QED BY <1>7, <2>1, CascadeFalls
<1> HIDE DEF list
<1>9. Len(list) =< Cardinality(transactions)
  <2>1. list \in [1 .. Len(list) -> transactions] /\ Len(list) \in Nat
    BY <1>8
  <2>2. \A m, n \in 1 .. Len(list) : list[m] = list[n] => m = n
    <3> SUFFICES ASSUME NEW m \in 1 .. Len(list), NEW n \in 1 .. Len(list), list[m] = list[n]
                 PROVE  m = n
      OBVIOUS
    <3>1. list[m].tx \in Nat /\ list[n].tx = list[m].tx
      BY <1>3, <2>1
    <3>2. ~(list[m].tx < list[n].tx) /\ ~(list[n].tx < list[m].tx)
      BY <3>1
    <3>3. ~(m < n) /\ ~(n < m)
      BY <1>8, <3>2 DEF Falling
    <3> QED BY <2>1, <3>3
  <2>3. list \in Injection(1 .. Len(list), transactions)
    BY <2>1, <2>2, Fun_IsInj
  <2>4. Cardinality(1 .. Len(list)) = Len(list)
    <3>1. PICK n \in Nat : n = Len(list)
      BY <2>1
    <3>2. Cardinality(1 .. n) = n
      BY FS_Interval
    <3> QED BY <3>1, <3>2
  <2> QED BY <1>3, <2>3, <2>4, FS_Injection
<1>10. UpTo(NoLimit, list) = list
  <2>1. Cardinality(Entities) \in Nat
    BY FS_CardinalityType, ReadsAssumption
  <2>2. Len(list) \in Nat
    BY <1>8
  <2>3. NoLimit \in Nat /\ Len(list) =< NoLimit
    BY <1>3, <1>9, <2>1, <2>2, TerraAssumption DEF NoLimit
  <2> QED BY <1>8, <2>3, AllOfList
<1>11. ListTransactions(b, at, NoLimit) = list
  <2>1. ScanBack(transactions, scopes) = list
    BY DEF ScanBack, list, seqs
  <2> QED BY <1>1, <1>10, <2>1 DEF ListTransactions
<1>12. ASSUME NEW k \in Line(b, at)
       PROVE  k \in ToSet(list)
  <2>1. PICK i \in 1 .. Len(scopes) : k \in T(i)
    BY <1>1, <1>12 DEF Line, Seen
  <2>2. PICK n \in 1 .. Len(seqs[i]) : seqs[i][n] = k
    BY <1>4, <2>1
  <2>3. PICK m \in 1 .. Len(list) : list[m] = k
    BY <1>5, <1>8, <2>2
  <2> QED BY <1>8, <2>3 DEF ToSet
<1> QED BY <1>8, <1>11, <1>12

\* What a branch sees it sees at its head.
LEMMA HeadSeesAll ==
  ASSUME TreeInv, NEW b \in Opened, NEW k \in Line(b, MaxTx)
  PROVE  HeadTx(b) \in Nat /\ k \in Line(b, HeadTx(b))
<1>1. Cardinality(transactions) \in Nat /\ Committed(b) \subseteq Nat
  BY FS_CardinalityType DEF TreeInv, IdsInv, Committed
<1>2. PICK head : head = HeadTx(b)
  OBVIOUS
<1>3. head \in Nat /\ \A t \in Committed(b) : t =< head
  <2>1. CASE Committed(b) = {}
    BY <1>2, <2>1 DEF HeadTx, None
  <2>2. CASE Committed(b) # {}
    BY <1>1, <1>2, <2>2, HeadOf
  <2> QED BY <2>1, <2>2
<1>4. PICK x, y : x = ScopesAt(b, MaxTx) /\ y = ScopesAt(b, head)
  OBVIOUS
<1>5. /\ Len(x) = Len(y) /\ Len(x) \in Nat
      /\ x[1] = [branch |-> b, upper |-> MaxTx] /\ y[1] = [branch |-> b, upper |-> head]
      /\ \A i \in 2 .. Len(x) : x[i] = y[i]
  BY <1>4, ScopesAlike
<1>6. k \in transactions
  BY DEF Line, Seen
<1>7. PICK i \in 1 .. Len(x) : InScope(x[i], k)
  BY <1>4 DEF Line, Seen
<1>8. InScope(y[i], k)
  <2>1. CASE i = 1
    <3>1. k.branch = b
      BY <1>5, <1>7, <2>1 DEF InScope
    <3>2. k.tx \in Committed(b)
      BY <1>6, <3>1 DEF Committed
    <3> QED BY <1>3, <1>5, <2>1, <3>1, <3>2 DEF InScope
  <2>2. CASE i # 1
    BY <1>5, <1>7, <2>2
  <2> QED BY <2>1, <2>2
<1> QED BY <1>2, <1>3, <1>4, <1>5, <1>6, <1>8 DEF Line, Seen

-----------------------------------------------------------------------------
(***************************************************************************)
(* What the log tells of a transaction.                                    *)
(***************************************************************************)
\* An entry accounts for the rows of the transaction k.
Tells(l, k) ==
  /\ l.tx = k.tx /\ l.branch = k.branch
  /\ \A c, d \in l.changes : c.entity = d.entity => c = d
  /\ \A r \in entities : Key(r) = k => \E c \in l.changes : c.entity = r.entity
  /\ \A a \in assertions : Key(a) = k =>
       \E c \in l.changes : c.entity = a.entity /\ a.prop \in c.props
  /\ \A c \in l.changes : c.kind = "deleted" =>
       \E r \in entities : Key(r) = k /\ r.entity = c.entity /\ r.deleted
  /\ \A r \in touched : Key(r) = k =>
       r.entity \in l.touched \/ \E c \in l.changes : c.entity = r.entity
  /\ \A e \in l.touched : \E r \in touched : Key(r) = k /\ r.entity = e
  /\ \A c \in l.changes : \E r \in touched : Key(r) = k /\ r.entity = c.entity
  /\ \A r \in managed : Key(r) = k => \E c \in l.managed : c.item = r.item
  /\ \A c \in l.managed : \E r \in managed : Key(r) = k /\ r.item = c.item

LogInv ==
  /\ \A r \in touched \cup managed : Key(r) \in transactions
  /\ \A k \in transactions : \E l \in log : Tells(l, k)

\* What an operation on an entity tells the log.
ChangeTells(op, e) ==
  /\ \A c \in op.changes : c.entity = e
  /\ \A c, d \in op.changes : c = d
  /\ op.changes = {} => op.entities = {} /\ op.assertions = {}
  /\ \A c \in op.changes : \A a \in op.assertions : a.prop \in c.props
  /\ \A c \in op.changes : c.kind = "deleted" => \E r \in op.entities : r.deleted

LEMMA OperationTells ==
  ASSUME NEW scopes, NEW tx, NEW e, NEW op \in EntityOperations(scopes, tx, e)
  PROVE  ChangeTells(op, e)
<1>0. \A kind, A : /\ Change(kind, e, A).entity = e /\ Change(kind, e, A).kind = kind
                   /\ \A a \in A : a.prop \in Change(kind, e, A).props
  BY DEF Change
<1>1. CASE op \in Write(scopes, tx, e)
  <2>1. PICK D \in Descriptions(scopes, tx, e), A \in Assertions(scopes, tx, e) :
          op = Written(scopes, tx, e, D, A)
    BY <1>1, Writes
  <2>2. PICK kind : kind = IF IsNew(scopes, e) THEN "created" ELSE "updated"
    OBVIOUS
  <2>3. op.assertions = A /\ op.changes = {Change(kind, e, A)}
    BY <2>1, <2>2 DEF Written
  <2>4. kind # "deleted"
    BY <2>2
  <2>5. PICK c : c = Change(kind, e, A)
    OBVIOUS
  <2>6. c.entity = e /\ c.kind # "deleted" /\ \A a \in A : a.prop \in c.props
    BY <1>0, <2>4, <2>5
  <2> QED BY <2>3, <2>5, <2>6 DEF ChangeTells
<1>2. CASE op \in Delete(scopes, tx, e)
  <2>1. PICK A : A = Withdrawals(scopes, tx, e, TRUE)
    OBVIOUS
  <2>2. op = Deletion(scopes, tx, e, A)
    BY <1>2, <2>1 DEF Delete
  <2>3. /\ op.entities = {EntityRow(scopes, tx, e, TRUE)}
        /\ op.assertions = A /\ op.changes = {Change("deleted", e, A)}
    BY <2>2 DEF Deletion
  <2>4. EntityRow(scopes, tx, e, TRUE).deleted
    BY DEF EntityRow
  <2>5. PICK r : r = EntityRow(scopes, tx, e, TRUE)
    OBVIOUS
  <2>6. PICK c : c = Change("deleted", e, A)
    OBVIOUS
  <2>7. c.entity = e /\ \A a \in A : a.prop \in c.props
    BY <1>0, <2>6
  <2>8. op.entities = {r} /\ op.assertions = A /\ op.changes = {c} /\ r.deleted
    BY <2>3, <2>4, <2>5, <2>6, Zenon
  <2> QED BY <2>7, <2>8 DEF ChangeTells
<1>3. CASE op = [entities |-> {}, assertions |-> {}, embeddings |-> {}, changes |-> {}]
  BY <1>3 DEF ChangeTells
<1> QED BY <1>1, <1>2, <1>3 DEF EntityOperations

\* What an operation on a managed item tells the log.
ItemTells(op, m) ==
  /\ \A c \in op.changes : c.item = m
  /\ \A r \in op.managed : r.item = m
  /\ op.changes = {} => op.managed = {}
  /\ op.managed = {} => op.changes = {}

LEMMA OneTells ==
  ASSUME NEW m, NEW r, NEW c, r.item = m, c.item = m
  PROVE  ItemTells([managed |-> {r}, changes |-> {c}], m)
BY DEF ItemTells

LEMMA ManagedTells ==
  ASSUME NEW scopes, NEW tx, NEW m, NEW op \in ManagedOperations(scopes, tx, m)
  PROVE  ItemTells(op, m)
<1>0. \A state, F : ManagedRow(scopes, tx, m, state, F).item = m
  BY DEF ManagedRow
<1>1. CASE op \in CreateManaged(scopes, tx, m)
  <2>1. PICK state \in States, F \in SUBSET Fields :
          op = [managed |-> {ManagedRow(scopes, tx, m, state, F)},
                changes |-> {[kind |-> "created", item |-> m]}]
    BY <1>1 DEF CreateManaged
  <2>2. PICK c : c = [kind |-> "created", item |-> m]
    OBVIOUS
  <2> QED BY <1>0, <2>1, <2>2, OneTells
<1>2. CASE op \in UpdateManaged(scopes, tx, m)
  <2> DEFINE Updated(old, state, removed, set) ==
               [managed |-> {ManagedRow(scopes, tx, m, state,
                                        (old.fields \ removed) \cup set)},
                changes |-> {[kind |-> "updated", item |-> m]}]
  <2>1. UpdateManaged(scopes, tx, m) =
          UNION {{Updated(old, state, removed, set) :
                    state \in {old.state} \cup States,
                    removed \in SUBSET Fields, set \in SUBSET Fields} :
                 old \in GetLatest(ItemRows(m), scopes)}
    BY DEF UpdateManaged
  <2>2. \A old, state, removed, set : ItemTells(Updated(old, state, removed, set), m)
    <3> TAKE old, state, removed, set
    <3>1. PICK c : c = [kind |-> "updated", item |-> m]
      OBVIOUS
    <3>2. PICK r : r = ManagedRow(scopes, tx, m, state, (old.fields \ removed) \cup set)
      OBVIOUS
    <3> QED BY <1>0, <3>1, <3>2, OneTells
  <2> HIDE DEF Updated
  <2>3. \E old, state, removed, set : op = Updated(old, state, removed, set)
    BY <1>2, <2>1
  <2> QED BY <2>2, <2>3
<1>3. CASE op = [managed |-> {}, changes |-> {}]
  BY <1>3 DEF ItemTells
<1> QED BY <1>1, <1>2, <1>3 DEF ManagedOperations

\* What a transaction adds to the log and to the touches, for the operations
\* that it is made of.
Entries(op, item, named, scopes, n) ==
  [tx |-> n, branch |-> Branch(scopes),
   changes |-> UNION {op[e].changes : e \in Entities}, touched |-> named,
   managed |-> UNION {item[m].changes : m \in Items}]

Logs(op, item, named, scopes) ==
  /\ touched' = touched \cup
       {TouchedRow(scopes, NextTx, e) :
          e \in TouchedBy(UNION {op[x].changes : x \in Entities}) \cup named}
  /\ log' = log \cup {Entries(op, item, named, scopes, NextTx)}

LEMMA CommitLogs ==
  ASSUME NEW scopes, Commits(scopes)
  PROVE  \E op, item, named : /\ Performs(op, item, scopes) /\ Logs(op, item, named, scopes)
                               /\ named \subseteq Touchable
<1> DEFINE ops == OneOfEach([e \in Entities |-> EntityOperations(scopes, NextTx, e)])
           items == OneOfEach([m \in Items |-> ManagedOperations(scopes, NextTx, m)])
<1>1. PICK op \in ops, item \in items, named \in SUBSET Touchable :
        /\ entities' = entities \cup UNION {op[e].entities : e \in Entities}
        /\ assertions' = assertions \cup UNION {op[e].assertions : e \in Entities}
        /\ embeddings' = embeddings \cup UNION {op[e].embeddings : e \in Entities}
        /\ managed' = managed \cup UNION {item[m].managed : m \in Items}
        /\ Logs(op, item, named, scopes)
  BY Zenon DEF Commits, Execute, Logs, Entries
<1>2. \A e \in Entities : op[e] \in EntityOperations(scopes, NextTx, e)
  BY DEF OneOfEach
<1>3. \A m \in Items : item[m] \in ManagedOperations(scopes, NextTx, m)
  BY DEF OneOfEach
<1>4. Performs(op, item, scopes)
  BY <1>1, <1>2, <1>3 DEF Performs
<1> QED BY <1>1, <1>4

\* Entries of earlier transactions stay true.
LEMMA TellsStays ==
  ASSUME NEW l, NEW k, Tells(l, k),
         entities \subseteq entities' /\ touched \subseteq touched' /\ managed \subseteq managed',
         \A r \in entities' \ entities : Key(r) # k,
         \A r \in assertions' \ assertions : Key(r) # k,
         \A r \in touched' \ touched : Key(r) # k,
         \A r \in managed' \ managed : Key(r) # k
  PROVE  Tells(l, k)'
<1>1. \A r : Key(r)' = Key(r)
  BY DEF Key
<1>2. /\ \A r \in entities' : Key(r) = k => \E c \in l.changes : c.entity = r.entity
      /\ \A a \in assertions' : Key(a) = k =>
           \E c \in l.changes : c.entity = a.entity /\ a.prop \in c.props
  BY DEF Tells
<1>3. \A c \in l.changes : c.kind = "deleted" =>
        \E r \in entities' : Key(r) = k /\ r.entity = c.entity /\ r.deleted
  BY DEF Tells
<1>4. /\ \A r \in touched' : Key(r) = k =>
           r.entity \in l.touched \/ \E c \in l.changes : c.entity = r.entity
      /\ \A e \in l.touched : \E r \in touched' : Key(r) = k /\ r.entity = e
      /\ \A c \in l.changes : \E r \in touched' : Key(r) = k /\ r.entity = c.entity
  BY DEF Tells
<1>5. /\ \A r \in managed' : Key(r) = k => \E c \in l.managed : c.item = r.item
      /\ \A c \in l.managed : \E r \in managed' : Key(r) = k /\ r.item = c.item
  BY DEF Tells
<1>6. /\ l.tx = k.tx /\ l.branch = k.branch
      /\ \A c, d \in l.changes : c.entity = d.entity => c = d
  BY DEF Tells
<1> QED BY <1>1, <1>2, <1>3, <1>4, <1>5, <1>6 DEF Tells

LEMMA LogKept ==
  ASSUME TreeInv, RowInv, LogInv, NEW scopes, Commits(scopes)
  PROVE  LogInv'
<1>1. PICK new : new = [branch |-> Branch(scopes), tx |-> NextTx]
  OBVIOUS
<1>2. /\ transactions' = transactions \cup {new} /\ new \notin transactions
      /\ new.branch = Branch(scopes) /\ new.tx = NextTx
  BY <1>1, CommitAddsOne DEF TreeInv
<1>3. PICK op, item, named : Performs(op, item, scopes) /\ Logs(op, item, named, scopes)
  BY CommitLogs
<1>4. ASSUME NEW e \in Entities
      PROVE  /\ ChangeTells(op[e], e)
             /\ \A r \in op[e].entities : r.entity = e /\ Key(r) = new
             /\ \A r \in op[e].assertions : r.entity = e /\ Key(r) = new
  <2>1. op[e] \in EntityOperations(scopes, new.tx, e)
    BY <1>2, <1>3 DEF Performs
  <2>2. \A r : r.branch = new.branch /\ r.tx = new.tx => Key(r) = new
    BY <1>1 DEF Key
  <2>3. /\ At(op[e].entities, new.branch, new.tx) /\ \A r \in op[e].entities : r.entity = e
        /\ Asserts(op[e].assertions, scopes, new.tx, e)
    BY <1>2, <2>1, OperationRows
  <2> QED BY <1>2, <2>1, <2>2, <2>3, OperationTells DEF At, Asserts
<1>5. ASSUME NEW m \in Items
      PROVE  ItemTells(item[m], m) /\ \A r \in item[m].managed : Key(r) = new
  <2>1. item[m] \in ManagedOperations(scopes, new.tx, m)
    BY <1>2, <1>3 DEF Performs
  <2>2. \A r : r.branch = new.branch /\ r.tx = new.tx => Key(r) = new
    BY <1>1 DEF Key
  <2> QED BY <1>2, <2>1, <2>2, ManagedRows, ManagedTells DEF At
<1> DEFINE E == UNION {op[e].entities : e \in Entities}
           A == UNION {op[e].assertions : e \in Entities}
           M == UNION {item[m].managed : m \in Items}
           C == UNION {op[e].changes : e \in Entities}
           D == UNION {item[m].changes : m \in Items}
           T == {TouchedRow(scopes, NextTx, e) : e \in TouchedBy(C) \cup named}
<1>0. PICK l : l = Entries(op, item, named, scopes, NextTx)
  OBVIOUS
<1>6. /\ entities' = entities \cup E /\ assertions' = assertions \cup A
      /\ managed' = managed \cup M /\ touched' = touched \cup T /\ log' = log \cup {l}
  BY <1>0, <1>3 DEF Performs, Logs
<1>7. /\ l.tx = new.tx /\ l.branch = new.branch /\ l.changes = C /\ l.touched = named
      /\ l.managed = D
  BY <1>0, <1>2 DEF Entries
<1>8. /\ \A c, d \in C : c.entity = d.entity => c = d
      /\ \A r \in E : \E c \in C : c.entity = r.entity
      /\ \A a \in A : \E c \in C : c.entity = a.entity /\ a.prop \in c.props
      /\ \A c \in C : c.kind = "deleted" => \E r \in E : r.entity = c.entity /\ r.deleted
      /\ \A r \in E \cup A : Key(r) = new
  <2>1. \A c, d \in C : c.entity = d.entity => c = d
    BY <1>4 DEF ChangeTells
  <2>2. \A r \in E : \E c \in C : c.entity = r.entity
    <3> SUFFICES ASSUME NEW e \in Entities, NEW r \in op[e].entities
                 PROVE  \E c \in C : c.entity = r.entity
      OBVIOUS
    <3>1. op[e].changes # {} /\ op[e].changes \subseteq C
      BY <1>4 DEF ChangeTells
    <3> QED BY <1>4, <3>1 DEF ChangeTells
  <2>3. \A a \in A : \E c \in C : c.entity = a.entity /\ a.prop \in c.props
    <3> SUFFICES ASSUME NEW e \in Entities, NEW a \in op[e].assertions
                 PROVE  \E c \in C : c.entity = a.entity /\ a.prop \in c.props
      OBVIOUS
    <3>1. op[e].changes # {} /\ op[e].changes \subseteq C
      BY <1>4 DEF ChangeTells
    <3> QED BY <1>4, <3>1 DEF ChangeTells
  <2>4. ASSUME NEW c \in C, c.kind = "deleted"
        PROVE  \E r \in E : r.entity = c.entity /\ r.deleted
    <3>1. PICK e \in Entities : c \in op[e].changes
      OBVIOUS
    <3>2. PICK r \in op[e].entities : r.deleted
      BY <1>4, <2>4, <3>1 DEF ChangeTells
    <3> QED BY <1>4, <3>1, <3>2 DEF ChangeTells
  <2>5. \A r \in E \cup A : Key(r) = new
    BY <1>4
  <2> QED BY <2>1, <2>2, <2>3, <2>4, <2>5
<1>9. /\ \A r \in M : Key(r) = new /\ \E c \in D : c.item = r.item
      /\ \A c \in D : \E r \in M : r.item = c.item
  <2>1. ASSUME NEW m \in Items, NEW r \in item[m].managed
        PROVE  Key(r) = new /\ \E c \in D : c.item = r.item
    <3>1. item[m].changes # {} /\ item[m].changes \subseteq D
      BY <1>5, <2>1 DEF ItemTells
    <3> QED BY <1>5, <2>1, <3>1 DEF ItemTells
  <2>2. ASSUME NEW m \in Items, NEW c \in item[m].changes
        PROVE  \E r \in M : r.item = c.item
    <3>1. item[m].managed # {} /\ item[m].managed \subseteq M
      BY <1>5, <2>2 DEF ItemTells
    <3> QED BY <1>5, <2>2, <3>1 DEF ItemTells
  <2> QED BY <2>1, <2>2
<1>10. /\ \A r \in T : Key(r) = new /\ (r.entity \in named \/ \E c \in C : c.entity = r.entity)
       /\ \A e \in named : \E r \in T : r.entity = e
       /\ \A c \in C : \E r \in T : r.entity = c.entity
  <2>1. \A e : /\ TouchedRow(scopes, NextTx, e).entity = e
               /\ Key(TouchedRow(scopes, NextTx, e)) = new
    BY <1>1 DEF TouchedRow, Key
  <2>2. \A e : e \in TouchedBy(C) <=> \E c \in C : c.entity = e
    BY DEF TouchedBy
  <2> HIDE DEF C
  <2> QED BY <2>1, <2>2
<1> HIDE DEF E, A, M, C, D, T
<1>11. \A r \in entities \cup assertions \cup touched \cup managed : Key(r) \in transactions
  BY DEF RowInv, LogInv
<1>12. \A r : Key(r)' = Key(r)
  BY DEF Key
<1>13. \A r \in touched' \cup managed' : Key(r)' \in transactions'
  BY <1>2, <1>6, <1>9, <1>10, <1>11, <1>12
<1>14. ASSUME NEW k \in transactions
       PROVE  \E x \in log' : Tells(x, k)'
  <2>1. PICK x \in log : Tells(x, k)
    BY DEF LogInv
  <2>2. k # new
    BY <1>2
  <2>3. Tells(x, k)'
    BY <1>6, <1>8, <1>9, <1>10, <2>1, <2>2, TellsStays
  <2> QED BY <1>6, <2>1, <2>3
<1>15. Tells(l, new)'
  <2>1. /\ \A r \in entities' : Key(r) = new => r \in E
        /\ \A r \in assertions' : Key(r) = new => r \in A
        /\ \A r \in touched' : Key(r) = new => r \in T
        /\ \A r \in managed' : Key(r) = new => r \in M
    BY <1>2, <1>6, <1>11
  <2>2. /\ \A r \in entities' : Key(r) = new => \E c \in l.changes : c.entity = r.entity
        /\ \A a \in assertions' : Key(a) = new =>
             \E c \in l.changes : c.entity = a.entity /\ a.prop \in c.props
        /\ \A c, d \in l.changes : c.entity = d.entity => c = d
        /\ l.tx = new.tx /\ l.branch = new.branch
    BY <1>7, <1>8, <2>1
  <2>3. \A c \in l.changes : c.kind = "deleted" =>
          \E r \in entities' : Key(r) = new /\ r.entity = c.entity /\ r.deleted
    BY <1>6, <1>7, <1>8
  <2>4. /\ \A r \in touched' : Key(r) = new =>
             r.entity \in l.touched \/ \E c \in l.changes : c.entity = r.entity
        /\ \A e \in l.touched : \E r \in touched' : Key(r) = new /\ r.entity = e
        /\ \A c \in l.changes : \E r \in touched' : Key(r) = new /\ r.entity = c.entity
    BY <1>6, <1>7, <1>10, <2>1
  <2>5. /\ \A r \in managed' : Key(r) = new => \E c \in l.managed : c.item = r.item
        /\ \A c \in l.managed : \E r \in managed' : Key(r) = new /\ r.item = c.item
    BY <1>6, <1>7, <1>9, <2>1
  <2> QED BY <1>12, <2>2, <2>3, <2>4, <2>5 DEF Tells
<1>16. l \in log'
  BY <1>6
<1> QED BY <1>2, <1>13, <1>14, <1>15, <1>16 DEF LogInv


LEMMA LogHolds == Spec => [](TreeInv /\ RowInv /\ LogInv)
<1>1. Init => LogInv
  BY DEF Init, LogInv
<1>2. ASSUME TreeInv, RowInv, LogInv, [Next]_vars
      PROVE  LogInv'
  <2>1. CASE Next
    <3>1. PICK scopes : Commits(scopes)
      BY <1>2, <2>1, StepsCommit DEF TreeInv
    <3> QED BY <1>2, <3>1, LogKept
  <2>2. CASE UNCHANGED vars
    <3>1. \A l, k : Tells(l, k)' <=> Tells(l, k)
      BY <2>2 DEF vars, Tells, Key
    <3> QED BY <1>2, <2>2, <3>1 DEF vars, LogInv, Key
  <2> QED BY <1>2, <2>1, <2>2
<1> QED BY <1>1, <1>2, RowInvHolds, PTL DEF Spec

-----------------------------------------------------------------------------
(***************************************************************************)
(* What a transaction is shown to have written.                            *)
(***************************************************************************)
\* The log of a transaction is found, on its branch or without regard to it.
LEMMA TransactionIsFound ==
  ASSUME TreeInv, LogInv, NEW k \in transactions
  PROVE  /\ GetTransaction(k.branch, k.tx, TRUE) # {}
         /\ \E l : Tells(l, k) /\ \A b : Detail(l) \in GetTransaction(b, k.tx, FALSE)
<1>1. PICK l \in log : Tells(l, k)
  BY DEF LogInv
<1>2. l.tx = k.tx /\ l.branch = k.branch
  BY <1>1 DEF Tells
<1>3. [branch |-> l.branch, tx |-> k.tx] \in transactions
  BY <1>2 DEF TreeInv, IdsInv, Key
<1>4. \A c \in l.managed : Of(l, ItemRows(c.item)) # {}
  <2> TAKE c \in l.managed
  <2>1. PICK r \in managed : Key(r) = k /\ r.item = c.item
    BY <1>1 DEF Tells
  <2>2. r.branch = k.branch /\ r.tx = k.tx
    BY <2>1 DEF Key
  <2> QED BY <1>2, <2>1, <2>2 DEF Of, ItemRows
<1> QED BY <1>1, <1>2, <1>3, <1>4 DEF GetTransaction

\* Its detail has all its rows.
LEMMA DetailHasAll ==
  ASSUME TreeInv, RowInv, LogInv, NEW k \in transactions, NEW l, Tells(l, k)
  PROVE  LET d == Detail(l)
             Wrote(rows) == {r \in rows : r.tx = k.tx}
         IN  /\ UNION {c.record : c \in d.written} =
                  {r \in Wrote(entities) : r.entity \notin d.deleted}
             /\ UNION {c.properties : c \in d.written} =
                  {a \in Wrote(assertions) : a.entity \notin d.deleted}
             /\ \A e \in d.deleted : \E r \in Wrote(EntityRows(e)) : r.deleted
             /\ {r.entity : r \in Wrote(touched)} =
                  d.touched \cup d.deleted \cup {c.entity : c \in d.written}
             /\ d.managed = Wrote(managed)
<1>1. \A r : Key(r) \in transactions /\ r.tx = k.tx <=> Key(r) = k
  BY DEF TreeInv, IdsInv, Key
<1>2. \A r \in entities \cup assertions \cup touched \cup managed : r.tx = k.tx <=> Key(r) = k
  BY <1>1 DEF RowInv, LogInv
<1>3. \A r : r.branch = l.branch /\ r.tx = l.tx <=> Key(r) = k
  BY DEF Tells, Key, TreeInv, IdsInv
<1> DEFINE gone == {c \in l.changes : c.kind = "deleted"}
           kept == {c \in l.changes : c.kind # "deleted"}
           d == Detail(l)
<1>4. /\ d.written = {Details(l, c) : c \in kept}
      /\ d.deleted = {c.entity : c \in gone}
      /\ d.touched = l.touched
      /\ d.managed = UNION {Of(l, ItemRows(c.item)) : c \in l.managed}
  BY DEF Detail
<1>5. \A c : /\ Details(l, c).entity = c.entity
             /\ Details(l, c).record = Of(l, EntityRows(c.entity))
             /\ Details(l, c).properties =
                  {a \in Of(l, assertions) : a.entity = c.entity /\ a.prop \in c.props}
  BY DEF Details
<1>6. \A rows : Of(l, rows) = {r \in rows : Key(r) = k}
  BY <1>3 DEF Of
<1>7. \A c \in l.changes, x \in l.changes : c.entity = x.entity => c = x
  BY DEF Tells
<1> HIDE DEF d
<1>8. UNION {c.record : c \in d.written} = {r \in entities : Key(r) = k /\ r.entity \notin d.deleted}
  <2>1. UNION {c.record : c \in d.written} = UNION {Of(l, EntityRows(c.entity)) : c \in kept}
    BY <1>4, <1>5
  <2>2. ASSUME NEW c \in kept, NEW r \in Of(l, EntityRows(c.entity))
        PROVE  r \in entities /\ Key(r) = k /\ r.entity \notin d.deleted
    <3>1. r \in entities /\ Key(r) = k /\ r.entity = c.entity
      BY <1>6 DEF EntityRows
    <3> QED BY <1>4, <1>7, <3>1
  <2>3. ASSUME NEW r \in entities, Key(r) = k, r.entity \notin d.deleted
        PROVE  \E c \in kept : r \in Of(l, EntityRows(c.entity))
    <3>1. PICK c \in l.changes : c.entity = r.entity
      BY <2>3 DEF Tells
    <3>2. c \in kept
      BY <1>4, <2>3, <3>1
    <3> QED BY <1>6, <2>3, <3>1, <3>2 DEF EntityRows
  <2> HIDE DEF kept
  <2> QED BY <2>1, <2>2, <2>3
<1>9. UNION {c.properties : c \in d.written} =
        {a \in assertions : Key(a) = k /\ a.entity \notin d.deleted}
  <2> DEFINE P(c) == {a \in Of(l, assertions) : a.entity = c.entity /\ a.prop \in c.props}
  <2>1. UNION {c.properties : c \in d.written} = UNION {P(c) : c \in kept}
    BY <1>4, <1>5
  <2>2. ASSUME NEW c \in kept, NEW a \in P(c)
        PROVE  a \in assertions /\ Key(a) = k /\ a.entity \notin d.deleted
    <3>1. a \in assertions /\ Key(a) = k /\ a.entity = c.entity
      BY <1>6
    <3> QED BY <1>4, <1>7, <3>1
  <2>3. ASSUME NEW a \in assertions, Key(a) = k, a.entity \notin d.deleted
        PROVE  \E c \in kept : a \in P(c)
    <3>1. PICK c \in l.changes : c.entity = a.entity /\ a.prop \in c.props
      BY <2>3 DEF Tells
    <3>2. c \in kept
      BY <1>4, <2>3, <3>1
    <3> QED BY <1>6, <2>3, <3>1, <3>2
  <2> HIDE DEF kept, P
  <2> QED BY <2>1, <2>2, <2>3
<1>10. \A e \in d.deleted : \E r \in EntityRows(e) : Key(r) = k /\ r.deleted
  <2> TAKE e \in d.deleted
  <2>1. PICK c \in l.changes : c.kind = "deleted" /\ c.entity = e
    BY <1>4
  <2>2. PICK r \in entities : Key(r) = k /\ r.entity = c.entity /\ r.deleted
    BY <2>1 DEF Tells
  <2> QED BY <2>1, <2>2 DEF EntityRows
<1>11. {r.entity : r \in {s \in touched : Key(s) = k}} =
         d.touched \cup d.deleted \cup {c.entity : c \in d.written}
  <2>1. {c.entity : c \in d.written} = {c.entity : c \in kept}
    BY <1>4, <1>5
  <2>2. d.deleted \cup {c.entity : c \in kept} = {c.entity : c \in l.changes}
    BY <1>4
  <2>3. {r.entity : r \in {s \in touched : Key(s) = k}} =
          l.touched \cup {c.entity : c \in l.changes}
    <3>1. ASSUME NEW r \in touched, Key(r) = k
          PROVE  r.entity \in l.touched \cup {c.entity : c \in l.changes}
      BY <3>1 DEF Tells
    <3>2. ASSUME NEW e \in l.touched \cup {c.entity : c \in l.changes}
          PROVE  \E r \in touched : Key(r) = k /\ r.entity = e
      BY <3>2 DEF Tells
    <3> QED BY <3>1, <3>2
  <2> HIDE DEF kept
  <2> QED BY <1>4, <2>1, <2>2, <2>3
<1>12. d.managed = {r \in managed : Key(r) = k}
  <2>1. ASSUME NEW c \in l.managed, NEW r \in Of(l, ItemRows(c.item))
        PROVE  r \in managed /\ Key(r) = k
    BY <1>6 DEF ItemRows
  <2>2. ASSUME NEW r \in managed, Key(r) = k
        PROVE  \E c \in l.managed : r \in Of(l, ItemRows(c.item))
    <3>1. PICK c \in l.managed : c.item = r.item
      BY <2>2 DEF Tells
    <3> QED BY <1>6, <2>2, <3>1 DEF ItemRows
  <2> QED BY <1>4, <2>1, <2>2
<1> HIDE DEF gone, kept
<1>13. /\ {r \in entities : r.tx = k.tx} = {r \in entities : Key(r) = k}
       /\ {r \in assertions : r.tx = k.tx} = {r \in assertions : Key(r) = k}
       /\ {r \in touched : r.tx = k.tx} = {r \in touched : Key(r) = k}
       /\ {r \in managed : r.tx = k.tx} = {r \in managed : Key(r) = k}
       /\ \A e : {r \in EntityRows(e) : r.tx = k.tx} = {r \in EntityRows(e) : Key(r) = k}
  BY <1>2 DEF EntityRows
<1> QED BY <1>8, <1>9, <1>10, <1>11, <1>12, <1>13 DEF d

LEMMA DetailsAreWhole ==
  ASSUME TreeInv, RowInv, LogInv, NEW b, NEW k \in transactions
  PROVE  DetailIsWhole(b, k.tx)
<1>1. PICK l : Tells(l, k) /\ Detail(l) \in GetTransaction(b, k.tx, FALSE)
  BY TransactionIsFound
<1>2. PICK d : d = Detail(l)
  OBVIOUS
<1> QED BY <1>1, <1>2, DetailHasAll DEF DetailIsWhole

\* The head of a branch is a number, and a transaction is in the line it ends.
LEMMA HeadIsNumber ==
  ASSUME TreeInv, NEW b
  PROVE  HeadTx(b) \in Nat
<1>1. Cardinality(transactions) \in Nat /\ Committed(b) \subseteq Nat
  BY FS_CardinalityType DEF TreeInv, IdsInv, Committed
<1>2. PICK head : head = HeadTx(b)
  OBVIOUS
<1>3. CASE Committed(b) = {}
  BY <1>2, <1>3 DEF HeadTx, None
<1>4. CASE Committed(b) # {}
  BY <1>1, <1>2, <1>4, HeadOf
<1> QED BY <1>2, <1>3, <1>4

LEMMA SelfInLine ==
  ASSUME TreeInv, NEW k \in transactions
  PROVE  InLine(k.branch, k.tx, k)
<1>1. k.branch \in Opened /\ k.tx \in Nat
  BY DEF TreeInv, IdsInv
<1>2. PICK scopes : scopes = ScopesAt(k.branch, k.tx)
  OBVIOUS
<1>3. scopes[1] = [branch |-> k.branch, upper |-> k.tx] /\ Len(scopes) \in Nat \ {0}
  BY <1>1, <1>2, ScopesOf DEF TreeInv
<1>4. InScope(scopes[1], k)
  BY <1>1, <1>3 DEF InScope
<1> QED BY <1>2, <1>3, <1>4 DEF InLine

LEMMA ProvenanceFollows ==
  ASSUME TreeInv, RowInv, LogInv
  PROVE  ProvenanceResolves
<1>1. \A k \in transactions : DetailIsWhole(Main, k.tx)
  BY DetailsAreWhole
<1>2. ASSUME NEW b \in Opened
      PROVE  LET listed == ListTransactions(b, HeadTx(b), NoLimit)
                 made == GetBranch(b)
             IN  /\ \A i, j \in 1 .. Len(listed) : i < j => listed[i].tx > listed[j].tx
                 /\ \A e \in Entities, p \in Props : \A a \in Shown(Scopes(b), e, p) :
                      [branch |-> a.branch, tx |-> a.tx] \in ToSet(listed)
                 /\ b # Main => /\ GetTransaction(made.parent, made.from, TRUE) # {}
                                /\ [branch |-> made.parent, tx |-> made.from] \in ToSet(listed)
  <2>1. PICK listed : listed = ListTransactions(b, HeadTx(b), NoLimit)
    OBVIOUS
  <2>2. HeadTx(b) \in Nat
    BY HeadIsNumber
  <2>3. Falling(listed) /\ Line(b, HeadTx(b)) \subseteq ToSet(listed)
    BY <2>1, <2>2, ListIsLine
  <2>4. Line(b, MaxTx) \subseteq ToSet(listed)
    BY <2>3, HeadSeesAll
  <2>5. \A i, j \in 1 .. Len(listed) : i < j => listed[i].tx > listed[j].tx
    <3> SUFFICES ASSUME NEW i \in 1 .. Len(listed), NEW j \in 1 .. Len(listed), i < j
                 PROVE  listed[i].tx > listed[j].tx
      OBVIOUS
    <3> QED BY <2>3 DEF Falling
  <2>6. ASSUME NEW e \in Entities, NEW p \in Props, NEW a \in Shown(Scopes(b), e, p)
        PROVE  [branch |-> a.branch, tx |-> a.tx] \in ToSet(listed)
    <3>1. a \in Stream(Scopes(b), e, p)
      BY ShownIsVisible DEF TreeInv
    <3>2. Key(a) \in Line(b, MaxTx)
      BY <3>1, StreamSeen DEF RowsOf, Line, Scopes
    <3> QED BY <2>4, <3>2 DEF Key
  <2>7. ASSUME b # Main
        PROVE  LET made == GetBranch(b)
               IN  /\ GetTransaction(made.parent, made.from, TRUE) # {}
                   /\ [branch |-> made.parent, tx |-> made.from] \in ToSet(listed)
    <3>1. b \in DOMAIN branches
      BY <2>7 DEF Opened
    <3>2. PICK k : k = [branch |-> branches[b].parent, tx |-> branches[b].from]
      OBVIOUS
    <3>3. k \in transactions /\ k.branch = branches[b].parent /\ k.tx = branches[b].from
      BY <3>1, <3>2 DEF TreeInv, BranchInv
    <3>4. GetTransaction(k.branch, k.tx, TRUE) # {}
      BY <3>3, TransactionIsFound
    <3>5. k \in Line(b, MaxTx)
      <4>1. InLine(k.branch, k.tx, k)
        BY <3>3, SelfInLine
      <4>2. InLine(b, MaxTx, k)
        BY <3>1, <3>3, <4>1, InLineStep DEF TreeInv
      <4> QED BY <3>3, <4>2 DEF InLine, Line, Seen
    <3> QED BY <2>4, <2>7, <3>2, <3>3, <3>4, <3>5 DEF GetBranch
  <2> QED BY <2>1, <2>5, <2>6, <2>7
<1> QED BY <1>1, <1>2 DEF ProvenanceResolves

\* A transaction's detail has every row it wrote, under any branch or none; a
\* branch's list goes from new to old and has the transaction of every row the
\* branch shows; a branch's point is found on the parent it names
\* (get_transaction.rs, list_transactions.rs, get_branch.rs).
THEOREM ProvenanceAlwaysResolves == Spec => []ProvenanceResolves
<1>1. TreeInv /\ RowInv /\ LogInv => ProvenanceResolves
  BY ProvenanceFollows
<1> QED BY <1>1, LogHolds, PTL
-----------------------------------------------------------------------------
(***************************************************************************)
(* Searches.                                                               *)
(***************************************************************************)
\* Only entities are touched.
TouchInv ==
  \A r \in touched : /\ r.entity \in Entities
                     /\ r = [branch |-> r.branch, tx |-> r.tx, entity |-> r.entity]

LEMMA TouchHolds == Spec => [](TreeInv /\ RowInv /\ LogInv /\ TouchInv)
<1>1. Init => TouchInv
  BY DEF Init, TouchInv
<1>2. ASSUME TreeInv, TouchInv, [Next]_vars
      PROVE  TouchInv'
  <2>1. CASE Next
    <3>1. PICK scopes : Commits(scopes)
      BY <1>2, <2>1, StepsCommit DEF TreeInv
    <3>2. PICK op, item, named : /\ Performs(op, item, scopes) /\ Logs(op, item, named, scopes)
                                 /\ named \subseteq Touchable
      BY <3>1, CommitLogs
    <3>3. \A e \in Entities : \A c \in op[e].changes : c.entity = e
      BY <3>2, OperationTells DEF Performs, ChangeTells
    <3>4. TouchedBy(UNION {op[e].changes : e \in Entities}) \cup named \subseteq Entities
      BY <3>2, <3>3, TerraAssumption DEF TouchedBy
    <3> DEFINE Fits(r) == r = [branch |-> r.branch, tx |-> r.tx, entity |-> r.entity]
    <3>5. \A e : LET r == TouchedRow(scopes, NextTx, e) IN r.entity = e /\ Fits(r)
      BY DEF TouchedRow
    <3> HIDE DEF Fits
    <3>6. \A r \in touched' : r.entity \in Entities /\ Fits(r)
      <4>1. \A r \in touched : r.entity \in Entities /\ Fits(r)
        BY <1>2 DEF TouchInv, Fits
      <4> QED BY <3>2, <3>4, <3>5, <4>1 DEF Logs
    <3> QED BY <3>6 DEF TouchInv, Fits
  <2>2. CASE UNCHANGED vars
    BY <1>2, <2>2 DEF vars, TouchInv
  <2> QED BY <1>2, <2>1, <2>2
<1> QED BY <1>1, <1>2, LogHolds, PTL DEF Spec

\* Each member of a list once.
LEMMA OnceOf ==
  ASSUME NEW X, IsFiniteSet(X), NEW list \in Seq(X)
  PROVE  /\ Once(list) \in Seq(X)
         /\ Len(Once(list)) =< Cardinality(X)
         /\ ToSet(Once(list)) = ToSet(list)
<1> DEFINE P == {i \in 1 .. Len(list) : \A j \in 1 .. i - 1 : list[j] # list[i]}
<1>1. Once(list) = Selected(list, P)
  BY DEF Once
<1>2. P \in SUBSET (1 .. Len(list)) /\ \A i \in P : i \in Nat /\ list[i] \in X
  OBVIOUS
<1>3. \A i, j \in P : list[i] = list[j] => i = j
  <2> SUFFICES ASSUME NEW i \in P, NEW j \in P, i < j, list[i] = list[j]
               PROVE  FALSE
    BY <1>2
  <2>1. i \in 1 .. j - 1
    BY <1>2
  <2> QED BY <2>1
<1>4. ASSUME NEW i \in 1 .. Len(list)
      PROVE  \E j \in P : list[j] = list[i]
  <2> DEFINE Same == {j \in 1 .. Len(list) : list[j] = list[i]}
  <2>1. Same \in SUBSET Nat /\ i \in Same
    OBVIOUS
  <2>2. PICK j \in Same : \A m \in Same : j =< m
    <3> HIDE DEF Same
    <3> QED BY <2>1, LeastNumber
  <2>3. ASSUME NEW m \in 1 .. j - 1
        PROVE  list[m] # list[j]
    <3>1. m \in 1 .. Len(list) /\ ~(j =< m)
      BY <2>2
    <3> QED BY <2>2, <3>1
  <2> QED BY <2>2, <2>3
<1>5. ToSet(list) = {list[i] : i \in 1 .. Len(list)}
  BY DEF ToSet
<1>6. {list[i] : i \in 1 .. Len(list)} = {list[i] : i \in P}
  <2>1. \A i \in P : i \in 1 .. Len(list)
    OBVIOUS
  <2> HIDE DEF P
  <2>2. \A x \in {list[i] : i \in 1 .. Len(list)} : x \in {list[i] : i \in P}
    BY <1>4
  <2>3. \A x \in {list[i] : i \in P} : x \in {list[i] : i \in 1 .. Len(list)}
    BY <2>1
  <2> QED BY <2>2, <2>3
<1> HIDE DEF P
<1>7. /\ Selected(list, P) \in Seq(X) /\ IsFiniteSet(P)
      /\ Len(Selected(list, P)) = Cardinality(P)
      /\ ToSet(Selected(list, P)) = {list[i] : i \in P}
  BY <1>2, SelectedOf
<1>8. Cardinality(P) =< Cardinality(X)
  <2> DEFINE f == [i \in P |-> list[i]]
  <2>1. f \in [P -> X] /\ \A i, j \in P : f[i] = f[j] => i = j
    BY <1>2, <1>3
  <2> HIDE DEF f
  <2>2. f \in Injection(P, X)
    BY <2>1, Fun_IsInj
  <2> QED BY <2>2, FS_Injection
<1> QED BY <1>1, <1>5, <1>6, <1>7, <1>8

\* Those of a list that are live.
LEMMA LivingOf ==
  ASSUME NEW X, NEW list \in Seq(X), NEW scopes
  PROVE  ToSet(Living(list, scopes)) = {e \in ToSet(list) : LiveRecord(scopes, e) # {}}
<1> DEFINE P == {i \in 1 .. Len(list) : LiveRecord(scopes, list[i]) # {}}
<1>1. P \in SUBSET (1 .. Len(list)) /\ Living(list, scopes) = Selected(list, P)
  BY DEF Living
<1>2. ToSet(list) = {list[i] : i \in 1 .. Len(list)}
  BY DEF ToSet
<1>3. \A x \in {list[i] : i \in P} :
        x \in {e \in {list[i] : i \in 1 .. Len(list)} : LiveRecord(scopes, e) # {}}
  OBVIOUS
<1>4. \A x \in {e \in {list[i] : i \in 1 .. Len(list)} : LiveRecord(scopes, e) # {}} :
        x \in {list[i] : i \in P}
  OBVIOUS
<1> HIDE DEF P
<1>5. ToSet(Selected(list, P)) = {list[i] : i \in P}
  BY <1>1, SelectedOf
<1> QED BY <1>1, <1>2, <1>3, <1>4, <1>5

\* A scan of rows finds those in scope.
LEMMA ScanBackOf ==
  ASSUME NEW rows, IsFiniteSet(rows), \A r \in rows : r.tx \in Nat,
         NEW scopes, Len(scopes) \in Nat \ {0}
  PROVE  /\ ScanBack(rows, scopes) \in Seq(rows)
         /\ \A r \in rows : (\E i \in 1 .. Len(scopes) : InScope(scopes[i], r))
              => \E n \in 1 .. Len(ScanBack(rows, scopes)) : ScanBack(rows, scopes)[n] = r
<1> DEFINE F(i) == {r \in rows : InScope(scopes[i], r)}
           seqs == [i \in 1 .. Len(scopes) |-> ByAge(F(i))]
<1>1. ScanBack(rows, scopes) = FlattenSeq(seqs)
  BY DEF ScanBack
<1>2. ASSUME NEW i \in 1 .. Len(scopes)
      PROVE  /\ seqs[i] \in Seq(rows)
             /\ \A r \in F(i) : \E n \in 1 .. Len(seqs[i]) : seqs[i][n] = r
  <2>1. IsFiniteSet(F(i)) /\ F(i) \subseteq rows /\ \A r \in F(i) : r.tx \in Nat
    BY FS_Subset
  <2>2. PICK s : s = ByAge(F(i))
    OBVIOUS
  <2>3. seqs[i] = s
    BY <2>2
  <2> HIDE DEF F, seqs
  <2>4. s \in Seq(F(i)) /\ \A r \in F(i) : \E n \in 1 .. Len(s) : s[n] = r
    BY <2>1, <2>2, ByAgeOf
  <2>5. s \in Seq(rows)
    BY <2>1, <2>4
  <2> QED BY <2>3, <2>4, <2>5
<1>3. Len(seqs) = Len(scopes)
  OBVIOUS
<1> HIDE DEF seqs
<1>4. /\ FlattenSeq(seqs) \in Seq(rows)
      /\ \A i \in 1 .. Len(seqs) : \A k \in 1 .. Len(seqs[i]) :
           \E n \in 1 .. Len(FlattenSeq(seqs)) : FlattenSeq(seqs)[n] = seqs[i][k]
  BY <1>2, <1>3, CascadeFalls
<1>5. ASSUME NEW r \in rows, NEW i \in 1 .. Len(scopes), InScope(scopes[i], r)
      PROVE  \E n \in 1 .. Len(FlattenSeq(seqs)) : FlattenSeq(seqs)[n] = r
  <2>1. r \in F(i)
    BY <1>5
  <2>2. PICK k \in 1 .. Len(seqs[i]) : seqs[i][k] = r
    BY <1>2, <2>1
  <2> QED BY <1>3, <1>4, <2>2
<1> QED BY <1>1, <1>4, <1>5

\* Touches are finitely many.
LEMMA TouchedAreFinite ==
  ASSUME TreeInv, LogInv, TouchInv
  PROVE  IsFiniteSet(touched) /\ \A r \in touched : r.tx \in Nat
<1>1. Cardinality(transactions) \in Nat
  BY FS_CardinalityType DEF TreeInv, IdsInv
<1>2. PICK n \in Nat : n = Cardinality(transactions)
  BY <1>1
<1>3. \A r \in touched : r.tx \in 1 .. n
  BY <1>2 DEF TreeInv, IdsInv, LogInv, Key
<1>4. \A r, s \in touched : r.tx = s.tx /\ r.entity = s.entity => r = s
  <2> SUFFICES ASSUME NEW r \in touched, NEW s \in touched, r.tx = s.tx, r.entity = s.entity
               PROVE  r = s
    OBVIOUS
  <2>1. Key(r) \in transactions /\ Key(s) \in transactions /\ Key(r).tx = Key(s).tx
    BY DEF LogInv, Key
  <2>2. Key(r) = Key(s)
    BY <2>1 DEF TreeInv, IdsInv
  <2>3. r.branch = s.branch
    BY <2>2 DEF Key
  <2> QED BY <2>3 DEF TouchInv
<1> DEFINE T == (1 .. n) \X Entities
           f == [r \in touched |-> <<r.tx, r.entity>>]
<1>5. f \in [touched -> T] /\ \A r, s \in touched : f[r] = f[s] => r = s
  BY <1>3, <1>4 DEF TouchInv
<1>6. IsFiniteSet(T)
  <2>1. IsFiniteSet(1 .. n)
    BY FS_Interval
  <2> QED BY <2>1, FS_Product, ReadsAssumption
<1> HIDE DEF T, f
<1>7. f \in Injection(touched, T)
  BY <1>5, Fun_IsInj
<1>8. IsFiniteSet(touched)
  BY <1>6, <1>7, FS_Injection
<1> QED BY <1>3, <1>8

\* A live record is the row of a transaction on the line.
LEMMA LiveRecordOf ==
  ASSUME TreeInv, RowInv, NEW b \in Opened, NEW at \in Nat, NEW e,
         NEW d \in LiveRecord(ScopesAt(b, at), e)
  PROVE  /\ d \in entities /\ d.entity = e /\ Key(d) \in Line(b, at)
         /\ \A c \in LiveRecord(ScopesAt(b, at), e) : c = d
<1>1. PICK scopes : scopes = ScopesAt(b, at)
  OBVIOUS
<1>2. Descends(scopes)
  BY <1>1, ScopesDescend DEF TreeInv, AllDescend
<1>3. \A c \in LiveRecord(scopes, e) : c \in Newest(EntityRows(e), Seen(scopes))
  BY <1>2, RecordSeen DEF TreeInv, LiveRecord
<1>4. \A c \in LiveRecord(scopes, e) : c \in entities /\ c.entity = e /\ Key(c) \in Seen(scopes)
  BY <1>3 DEF Newest, EntityRows
<1>5. \A c \in LiveRecord(scopes, e) : c = d
  <2> TAKE c \in LiveRecord(scopes, e)
  <2>1. /\ c \in entities /\ d \in entities /\ c.entity = d.entity
        /\ Key(c) \in transactions /\ Key(d) \in transactions
    BY <1>1, <1>4 DEF Seen
  <2>2. c.tx =< d.tx /\ d.tx =< c.tx
    BY <1>1, <1>3, <1>4 DEF Newest, EntityRows
  <2>3. c.tx \in Nat /\ d.tx \in Nat
    BY <2>1, Numbers DEF TreeInv, Key
  <2> QED BY <2>1, <2>2, <2>3 DEF RowInv
<1> QED BY <1>1, <1>4, <1>5 DEF Line

\* The entities with a live record.
LiveAt(b, at) == {e \in Entities : LiveRecord(ScopesAt(b, at), e) # {}}

LEMMA NoLimitIsNumber ==
  /\ Cardinality(Entities) \in Nat /\ NoLimit \in Nat
  /\ \A n \in Nat : n =< Cardinality(Entities) => n =< NoLimit
<1>1. Cardinality(Entities) \in Nat
  BY FS_CardinalityType, ReadsAssumption
<1> QED BY <1>1, TerraAssumption DEF NoLimit

\* The touches of a line have its live entities.
LEMMA TouchedSearch ==
  ASSUME TreeInv, RowInv, LogInv, TouchInv, NEW b \in Opened, NEW at \in Nat
  PROVE  ToSet(ListTouched(b, at, NoLimit)) = LiveAt(b, at)
<1>1. PICK scopes : scopes = ScopesAt(b, at)
  OBVIOUS
<1>2. Len(scopes) \in Nat \ {0}
  BY <1>1, ScopesOf DEF TreeInv
<1>3. PICK touches : touches = ScanBack(touched, scopes)
  OBVIOUS
<1>4. /\ touches \in Seq(touched)
      /\ \A r \in touched : (\E i \in 1 .. Len(scopes) : InScope(scopes[i], r))
           => \E n \in 1 .. Len(touches) : touches[n] = r
  BY <1>2, <1>3, TouchedAreFinite, ScanBackOf
<1> DEFINE names == [i \in 1 .. Len(touches) |-> touches[i].entity]
<1>5. names \in Seq(Entities) /\ Len(names) = Len(touches)
  <2>1. \A i \in 1 .. Len(touches) : touches[i] \in touched
    BY <1>4
  <2>2. \A i \in 1 .. Len(touches) : touches[i].entity \in Entities
    BY <2>1 DEF TouchInv
  <2> QED BY <1>4, <2>2
<1>6. ToSet(names) = {touches[i].entity : i \in 1 .. Len(touches)}
  BY DEF ToSet
<1>7. ListTouched(b, at, NoLimit) = Living(UpTo(NoLimit, Once(names)), scopes)
  BY <1>1, <1>3 DEF ListTouched
<1> HIDE DEF names
<1>8. PICK once : once = Once(names)
  OBVIOUS
<1>9. once \in Seq(Entities) /\ Len(once) =< Cardinality(Entities) /\ ToSet(once) = ToSet(names)
  BY <1>5, <1>8, OnceOf, ReadsAssumption
<1>10. UpTo(NoLimit, once) = once
  <2>1. Len(once) \in Nat
    BY <1>9
  <2>2. NoLimit \in Nat /\ Len(once) =< NoLimit
    BY <1>9, <2>1, NoLimitIsNumber
  <2> QED BY <1>9, <2>2, AllOfList
<1>11. ToSet(ListTouched(b, at, NoLimit)) = {e \in ToSet(names) : LiveRecord(scopes, e) # {}}
  BY <1>7, <1>8, <1>9, <1>10, LivingOf
<1>12. ASSUME NEW e, NEW d \in LiveRecord(scopes, e)
       PROVE  e \in ToSet(names)
  <2>1. d \in entities /\ d.entity = e /\ Key(d) \in Line(b, at)
    BY <1>1, LiveRecordOf
  <2>2. PICK k \in transactions : k = Key(d)
    BY <2>1 DEF RowInv
  <2>3. PICK l \in log : Tells(l, k)
    BY DEF LogInv
  <2>4. PICK r \in touched : Key(r) = k /\ r.entity = e
    BY <2>1, <2>2, <2>3 DEF Tells
  <2>5. PICK i \in 1 .. Len(scopes) : InScope(scopes[i], k)
    BY <1>1, <2>1, <2>2 DEF Line, Seen
  <2>6. InScope(scopes[i], r)
    BY <2>4, <2>5 DEF InScope, Key
  <2>7. PICK n \in 1 .. Len(touches) : touches[n] = r
    BY <1>4, <2>6
  <2> QED BY <1>6, <2>4, <2>7
<1>13. \A e \in ToSet(names) : e \in Entities
  BY <1>5 DEF ToSet
<1> QED BY <1>1, <1>11, <1>12, <1>13 DEF LiveAt

\* A search by pattern has the live entities that match.
Matches(scopes, e, pattern, columns) ==
  \/ SlugMatches(e, pattern, columns)
  \/ ContentMatches(UNION {Shown(scopes, e, p) : p \in Props}, pattern, columns)

LEMMA GrepSearch ==
  ASSUME TreeInv, RowInv, NEW b \in Opened, NEW at \in Nat, NEW pattern, NEW columns
  PROVE  ToSet(Grep(b, at, pattern, columns, NoLimit)) =
           {e \in LiveAt(b, at) :
              /\ NeedsProperties(columns) \/ SlugMatches(e, pattern, columns)
              /\ Matches(ScopesAt(b, at), e, pattern, columns)}
<1>1. PICK scopes : scopes = ScopesAt(b, at)
  OBVIOUS
<1> DEFINE candidates == {e \in EntitySlugs(b) :
                            NeedsProperties(columns) \/ SlugMatches(e, pattern, columns)}
           live == UNION {LiveRecord(scopes, e) : e \in candidates}
           found == {r \in live : Matches(scopes, r.entity, pattern, columns)}
           newest == ByAge(found)
           names == [i \in 1 .. Len(newest) |-> newest[i].entity]
<1>2. Grep(b, at, pattern, columns, NoLimit) = UpTo(NoLimit, names)
  BY <1>1 DEF Grep, Matches
<1>3. \A e : \A d \in LiveRecord(scopes, e) :
        /\ d \in entities /\ d.entity = e /\ Key(d) \in Line(b, at)
        /\ \A c \in LiveRecord(scopes, e) : c = d
  BY <1>1, LiveRecordOf
<1>4. ASSUME NEW e \in Entities, NEW d \in LiveRecord(scopes, e)
      PROVE  e \in EntitySlugs(b)
  <2>1. d \in EntityRows(e) /\ Key(d) \in Line(b, at)
    BY <1>3 DEF EntityRows
  <2>2. PICK i \in 1 .. Len(scopes) : InScope(scopes[i], d)
    BY <1>1, <2>1 DEF Line, Seen, InScope, Key
  <2>3. PICK all : all = ScopesAt(b, MaxTx)
    OBVIOUS
  <2>4. /\ Len(all) = Len(scopes) /\ Len(all) \in Nat
        /\ all[1] = [branch |-> b, upper |-> MaxTx] /\ scopes[1] = [branch |-> b, upper |-> at]
        /\ \A j \in 2 .. Len(all) : all[j] = scopes[j]
    BY <1>1, <2>3, ScopesAlike
  <2>5. i \in 1 .. Len(all) /\ d.branch = all[i].branch
    <3>1. d.branch = scopes[i].branch
      BY <2>2 DEF InScope
    <3>2. CASE i = 1
      BY <2>4, <3>1, <3>2
    <3>3. CASE i # 1
      BY <2>4, <3>1, <3>3
    <3> QED BY <2>4, <3>2, <3>3
  <2> QED BY <2>1, <2>3, <2>5 DEF EntitySlugs, Scopes
<1>5. EntitySlugs(b) \subseteq Entities
  BY DEF EntitySlugs
<1>6. \A r \in found : /\ r \in entities /\ r.entity \in candidates /\ r.entity \in Entities
                       /\ r \in LiveRecord(scopes, r.entity)
  BY <1>3, <1>5
<1>7. \A r, s \in found : r.entity = s.entity => r = s
  BY <1>3, <1>6
<1>8. {r.entity : r \in found} =
        {e \in LiveAt(b, at) :
           /\ NeedsProperties(columns) \/ SlugMatches(e, pattern, columns)
           /\ Matches(scopes, e, pattern, columns)}
  <2>1. ASSUME NEW e \in Entities, NEW d \in LiveRecord(scopes, e),
               NeedsProperties(columns) \/ SlugMatches(e, pattern, columns),
               Matches(scopes, e, pattern, columns)
        PROVE  d \in found /\ d.entity = e
    BY <1>3, <1>4, <2>1
  <2>2. \A r \in found : Matches(scopes, r.entity, pattern, columns)
    OBVIOUS
  <2>3. \A e \in candidates : NeedsProperties(columns) \/ SlugMatches(e, pattern, columns)
    OBVIOUS
  <2> HIDE DEF found, candidates
  <2> QED BY <1>1, <1>6, <2>1, <2>2, <2>3 DEF LiveAt
<1> HIDE DEF found
<1>9. IsFiniteSet(found) /\ Cardinality(found) =< Cardinality(Entities)
  <2> DEFINE f == [r \in found |-> r.entity]
  <2>1. f \in [found -> Entities] /\ \A r, s \in found : f[r] = f[s] => r = s
    BY <1>6, <1>7
  <2> HIDE DEF f
  <2>2. f \in Injection(found, Entities)
    BY <2>1, Fun_IsInj
  <2> QED BY <2>2, FS_Injection, ReadsAssumption
<1>10. \A r \in found : r.tx \in Nat
  <2> TAKE r \in found
  <2>1. Key(r) \in transactions /\ Key(r).tx = r.tx
    BY <1>6 DEF RowInv, Key
  <2> QED BY <2>1, Numbers DEF TreeInv
<1>11. /\ newest \in Seq(found) /\ Len(newest) = Cardinality(found) /\ Len(newest) \in Nat
       /\ \A r \in found : \E i \in 1 .. Len(newest) : newest[i] = r
  BY <1>9, <1>10, ByAgeOf
<1> HIDE DEF newest
<1>12. \A i \in 1 .. Len(newest) : newest[i] \in found /\ newest[i].entity \in Entities
  BY <1>6, <1>11
<1>13. names \in Seq(Entities) /\ Len(names) = Len(newest)
  BY <1>11, <1>12
<1>14. ToSet(names) = {newest[i].entity : i \in 1 .. Len(newest)}
  BY DEF ToSet
<1>15. {newest[i].entity : i \in 1 .. Len(newest)} = {r.entity : r \in found}
  <2>1. \A x \in {newest[i].entity : i \in 1 .. Len(newest)} : x \in {r.entity : r \in found}
    BY <1>12
  <2>2. \A x \in {r.entity : r \in found} : x \in {newest[i].entity : i \in 1 .. Len(newest)}
    BY <1>11
  <2> QED BY <2>1, <2>2
<1> HIDE DEF names
<1>16. UpTo(NoLimit, names) = names
  <2>1. NoLimit \in Nat /\ Len(names) =< NoLimit
    BY <1>9, <1>11, <1>13, NoLimitIsNumber
  <2> QED BY <1>13, <2>1, AllOfList
<1> QED BY <1>1, <1>2, <1>8, <1>14, <1>15, <1>16

\* The newest embedding of a live entity is the newest of its scope.
LEMMA FirstAlone ==
  ASSUME NEW R, NEW scopes, NEW i \in 1 .. Len(scopes), \E r \in R : InScope(scopes[i], r)
  PROVE  GetLatest(R, <<scopes[i]>>) = {Latest({r \in R : InScope(scopes[i], r)})}
<1>1. PICK x : x = <<scopes[i]>>
  OBVIOUS
<1>2. Len(x) = 1 /\ x[1] = scopes[i]
  BY <1>1
<1> DEFINE F(j) == {r \in R : InScope(x[j], r)}
           first == {j \in 1 .. Len(x) : F(j) # {} /\ \A m \in 1 .. j - 1 : F(m) = {}}
<1>3. GetLatest(R, x) = {Latest(F(j)) : j \in first}
  BY DEF GetLatest
<1>4. F(1) = {r \in R : InScope(scopes[i], r)} /\ F(1) # {}
  BY <1>2
<1>5. first = {1}
  <2> HIDE DEF F
  <2> QED BY <1>2, <1>4
<1> HIDE DEF first, F
<1>6. {Latest(F(j)) : j \in first} = {Latest(F(1))}
  BY <1>5
<1> QED BY <1>1, <1>3, <1>4, <1>6

\* A branch has one line, read with no bound or at its head.
LEMMA LiveAtHead ==
  ASSUME TreeInv, RowInv, NEW b \in Opened
  PROVE  LiveAt(b, MaxTx) = LiveAt(b, HeadTx(b))
<1>1. PICK head \in Nat : head = HeadTx(b)
  BY HeadIsNumber
<1>2. PICK x, y : x = ScopesAt(b, MaxTx) /\ y = ScopesAt(b, head)
  OBVIOUS
<1>3. /\ Len(x) = Len(y) /\ Len(x) \in Nat
      /\ x[1] = [branch |-> b, upper |-> MaxTx] /\ y[1] = [branch |-> b, upper |-> head]
      /\ \A i \in 2 .. Len(x) : x[i] = y[i]
  BY <1>2, ScopesAlike
<1>4. \A k \in transactions : k.tx \in Nat /\ k.tx =< MaxTx
  <2>1. PICK n \in Nat : n = Cardinality(transactions)
    BY FS_CardinalityType DEF TreeInv, IdsInv
  <2>2. n =< MaxTx /\ \A k \in transactions : k.tx \in 1 .. n
    BY <2>1 DEF TreeInv, IdsInv
  <2> QED BY <2>2, TerraAssumption
<1>5. ASSUME NEW k \in transactions, NEW i \in 1 .. Len(y), InScope(y[i], k)
      PROVE  InScope(x[i], k)
  <2>1. CASE i = 1
    BY <1>3, <1>4, <1>5, <2>1 DEF InScope
  <2>2. CASE i # 1
    BY <1>3, <1>5, <2>2
  <2> QED BY <2>1, <2>2
<1>6. Seen(y) \subseteq Seen(x)
  BY <1>3, <1>5 DEF Seen
<1>7. Seen(x) \subseteq Seen(y)
  <2>1. \A k \in Line(b, MaxTx) : k \in Line(b, HeadTx(b))
    BY HeadSeesAll
  <2> QED BY <1>1, <1>2, <2>1 DEF Line
<1>8. Seen(x) = Seen(y)
  BY <1>6, <1>7
<1>9. Descends(x) /\ Descends(y)
  BY <1>1, <1>2, ScopesDescend, TerraAssumption DEF TreeInv, AllDescend
<1>10. \A e : LiveRecord(x, e) = {} <=> LiveRecord(y, e) = {}
  BY <1>8, <1>9, RecordSeen DEF TreeInv
<1> QED BY <1>1, <1>2, <1>10 DEF LiveAt

\* A live entity is collected: its newest embedding is active.
LEMMA LiveIsCollected ==
  ASSUME TreeInv, RowInv, LineInv, TextInv, NEW b \in Opened,
         NEW e \in Entities, NEW d \in LiveRecord(Scopes(b), e)
  PROVE  e \in Collected(Scopes(b))
<1>1. PICK scopes : scopes = Scopes(b)
  OBVIOUS
<1>2. scopes = ScopesAt(b, MaxTx) /\ Len(scopes) \in Nat
  BY <1>1, ScopesOf DEF TreeInv, Scopes
<1>3. d \in entities /\ d.entity = e /\ Key(d) \in Line(b, MaxTx)
  BY LiveRecordOf, TerraAssumption DEF Scopes
<1>4. PICK r \in embeddings : r.entity = e /\ Key(r) = Key(d)
  BY <1>3 DEF TextInv, EmbeddedInv
<1>5. PICK i \in 1 .. Len(scopes) : InScope(scopes[i], Key(d))
  BY <1>2, <1>3 DEF Line, Seen
<1>6. r \in EmbeddingRows(e) /\ InScope(scopes[i], r)
  BY <1>4, <1>5 DEF EmbeddingRows, InScope, Key
<1> DEFINE R == EmbeddingRows(e)
           F(j) == {x \in R : InScope(scopes[j], x)}
           first == {j \in 1 .. Len(scopes) : F(j) # {} /\ \A m \in 1 .. j - 1 : F(m) = {}}
<1>7. GetLatest(R, scopes) = {Latest(F(j)) : j \in first}
  BY DEF GetLatest
<1>8. GetLatest(R, scopes) # {}
  BY <1>2, <1>6, SomeIsFound
<1>9. PICK j \in first : Latest(F(j)) \in GetLatest(R, scopes)
  BY <1>7, <1>8
<1>10. Latest(F(j)).active
  <2>1. LiveRecord(scopes, e) # {}
    BY <1>1
  <2>2. EmbeddingsDescribeWhatIsShown
    BY LinesKeepTexts
  <2>3. \A x \in GetLatest(R, scopes) : x.active
    BY <1>1, <2>1, <2>2, Zenon DEF EmbeddingsDescribeWhatIsShown
  <2> QED BY <1>9, <2>3
<1>11. GetLatest(R, <<scopes[j]>>) = {Latest(F(j))}
  <2>1. j \in 1 .. Len(scopes) /\ \E x \in R : InScope(scopes[j], x)
    BY <1>9
  <2> QED BY <2>1, FirstAlone
<1>12. ActiveIn(scopes[j], e) # {}
  BY <1>10, <1>11, Zenon DEF ActiveIn
<1> QED BY <1>1, <1>9, <1>12 DEF Collected

\* A search by similarity has the live entities.
LEMMA SimilarSearch ==
  ASSUME TreeInv, RowInv, LineInv, TextInv, NEW b \in Opened
  PROVE  ToSet(FindSimilar(b, SetToSeq(Entities), NoLimit)) = LiveAt(b, MaxTx)
<1>1. PICK scopes : scopes = Scopes(b)
  OBVIOUS
<1>2. PICK ranking : ranking = SetToSeq(Entities)
  OBVIOUS
<1>3. /\ ranking \in Seq(Entities) /\ Len(ranking) = Cardinality(Entities)
      /\ \A e \in Entities : \E i \in 1 .. Len(ranking) : ranking[i] = e
  BY <1>2, SetToSeqOf, ReadsAssumption
<1> DEFINE P == {i \in 1 .. Len(ranking) : ranking[i] \in Collected(scopes)}
<1>4. FindSimilar(b, ranking, NoLimit) = Living(UpTo(NoLimit, Selected(ranking, P)), scopes)
  BY <1>1 DEF FindSimilar
<1>5. P \in SUBSET (1 .. Len(ranking))
  OBVIOUS
<1>6. \A e \in Collected(scopes) : e \in {ranking[i] : i \in P}
  BY <1>3 DEF Collected
<1>7. {ranking[i] : i \in P} \subseteq Entities
  BY <1>3
<1> HIDE DEF P
<1>8. PICK scored : scored = Selected(ranking, P)
  OBVIOUS
<1>9. /\ scored \in Seq(Entities) /\ Len(scored) = Cardinality(P)
      /\ ToSet(scored) = {ranking[i] : i \in P}
  BY <1>3, <1>5, <1>8, SelectedOf
<1>10. Cardinality(P) \in Nat /\ Cardinality(P) =< Cardinality(Entities)
  <2>1. PICK n \in Nat : n = Len(ranking)
    BY <1>3
  <2>2. IsFiniteSet(1 .. n) /\ Cardinality(1 .. n) = n
    BY FS_Interval
  <2> QED BY <1>3, <1>5, <2>1, <2>2, FS_Subset, FS_CardinalityType
<1>11. UpTo(NoLimit, scored) = scored
  <2>1. NoLimit \in Nat /\ Len(scored) =< NoLimit
    BY <1>9, <1>10, NoLimitIsNumber
  <2> QED BY <1>9, <2>1, AllOfList
<1>12. ToSet(Living(scored, scopes)) = {e \in ToSet(scored) : LiveRecord(scopes, e) # {}}
  BY <1>9, LivingOf
<1>13. \A e \in Entities : LiveRecord(scopes, e) # {} => e \in Collected(scopes)
  <2> SUFFICES ASSUME NEW e \in Entities, NEW d \in LiveRecord(Scopes(b), e)
               PROVE  e \in Collected(Scopes(b))
    BY <1>1
  <2> QED BY LiveIsCollected
<1>14. LiveAt(b, MaxTx) = {e \in Entities : LiveRecord(scopes, e) # {}}
  BY <1>1 DEF LiveAt, Scopes
<1> QED BY <1>2, <1>4, <1>6, <1>7, <1>8, <1>9, <1>11, <1>12, <1>13, <1>14

LEMMA SearchesFollow ==
  ASSUME TreeInv, RowInv, LineInv, TextInv, LogInv, TouchInv
  PROVE  SearchesAgree
<1> SUFFICES ASSUME NEW b \in Opened
             PROVE  LET head == HeadTx(b)
                        named == ToSet(Grep(b, head, Entities, {"slug"}, NoLimit))
                    IN  /\ \A t \in Committed(b) :
                             ToSet(ListTouched(b, t, NoLimit)) =
                               ToSet(Grep(b, t, Entities, {"slug"}, NoLimit))
                        /\ ToSet(FindSimilar(b, SetToSeq(Entities), NoLimit)) = named
                        /\ ToSet(Grep(b, head, {Value}, {"value"}, NoLimit)) =
                             {e \in named : \E s \in Snapshot(ScopesAt(b, head), e) :
                                \E a \in s.shown : a.value = Value}
  BY DEF SearchesAgree
<1>1. ASSUME NEW at \in Nat
      PROVE  ToSet(Grep(b, at, Entities, {"slug"}, NoLimit)) = LiveAt(b, at)
  <2>1. \A e \in Entities : \A scopes :
          /\ SlugMatches(e, Entities, {"slug"})
          /\ Matches(scopes, e, Entities, {"slug"})
    BY DEF SlugMatches, Matches
  <2> QED BY <2>1, GrepSearch DEF LiveAt
<1>2. PICK head \in Nat : head = HeadTx(b)
  BY HeadIsNumber
<1>3. ASSUME NEW t \in Committed(b)
      PROVE  ToSet(ListTouched(b, t, NoLimit)) = ToSet(Grep(b, t, Entities, {"slug"}, NoLimit))
  <2>1. t \in Nat
    BY DEF TreeInv, IdsInv, Committed
  <2> QED BY <1>1, <2>1, TouchedSearch
<1>4. ToSet(FindSimilar(b, SetToSeq(Entities), NoLimit)) = LiveAt(b, head)
  BY <1>2, SimilarSearch, LiveAtHead
<1>5. PICK scopes : scopes = ScopesAt(b, head)
  OBVIOUS
<1>6. ToSet(Grep(b, head, {Value}, {"value"}, NoLimit)) =
        {e \in LiveAt(b, head) : Matches(scopes, e, {Value}, {"value"})}
  <2>1. NeedsProperties({"value"})
    BY DEF NeedsProperties
  <2> QED BY <1>5, <2>1, GrepSearch
<1>7. ASSUME NEW e \in LiveAt(b, head)
      PROVE  Matches(scopes, e, {Value}, {"value"}) <=>
               \E s \in Snapshot(scopes, e) : \E a \in s.shown : a.value = Value
  <2>1. PICK shown : shown = UNION {Shown(scopes, e, p) : p \in Props}
    OBVIOUS
  <2>2. Matches(scopes, e, {Value}, {"value"}) <=> \E a \in shown : a.value = Value
    BY <2>1 DEF Matches, SlugMatches, ContentMatches
  <2>3. PICK d : d \in LiveRecord(scopes, e)
    BY <1>5 DEF LiveAt
  <2>4. Snapshot(scopes, e) = {[record |-> r, shown |-> shown] : r \in LiveRecord(scopes, e)}
    BY <2>1 DEF Snapshot
  <2>5. \A s \in Snapshot(scopes, e) : s.shown = shown
    BY <2>4
  <2>6. \E s \in Snapshot(scopes, e) : s.shown = shown
    <3>1. PICK s : s = [record |-> d, shown |-> shown]
      OBVIOUS
    <3>2. s.shown = shown /\ s \in Snapshot(scopes, e)
      BY <2>3, <2>4, <3>1
    <3> QED BY <3>2
  <2>7. (\E a \in shown : a.value = Value) <=>
          \E s \in Snapshot(scopes, e) : \E a \in s.shown : a.value = Value
    BY <2>5, <2>6
  <2> QED BY <2>2, <2>7
<1> QED BY <1>1, <1>2, <1>3, <1>4, <1>5, <1>6, <1>7

\* The touch log, the newest embeddings and a search by name agree on which
\* entities a branch has, and a search for a value finds those of them that show
\* it (touched_entities.rs, similar_entities.rs, grep_entities.rs).
THEOREM SearchesAlwaysAgree == Spec => []SearchesAgree
<1>1. TreeInv /\ RowInv /\ LineInv /\ TextInv /\ LogInv /\ TouchInv => SearchesAgree
  BY SearchesFollow
<1> QED BY <1>1, LinesHold, TouchHolds, PTL
=============================================================================
