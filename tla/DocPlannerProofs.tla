-------------------------- MODULE DocPlannerProofs --------------------------
(***************************************************************************)
(* Proofs about the placement planner, for any blocks, ranks, gap and      *)
(* limits: a placed block is where it was asked to be, whatever the ranks  *)
(* of its siblings were, and the others keep their order.                  *)
(***************************************************************************)
EXTENDS DocPlanner, DocStoreProofs, FiniteSetTheorems

-----------------------------------------------------------------------------
(***************************************************************************)
(* Sibling order.                                                          *)
(***************************************************************************)
SiblingKey == [position : Positions, child : Blocks]

\* The keys below one parent: finitely many, one for each child.
SiblingSet(keys) ==
  /\ keys \in SUBSET SiblingKey
  /\ IsFiniteSet(keys)
  /\ \A j, k \in keys : j.child = k.child => j = k

\* Ranks and ids are numbers.
LEMMA KeyFields ==
  ASSUME NEW k \in SiblingKey
  PROVE  k.position \in Nat /\ k.position =< MaxPos /\ k.child \in Nat
<1>1. k.position \in 0 .. MaxPos /\ k.child \in Blocks
  BY DEF SiblingKey, Positions
<1>2. k.position \in Nat /\ k.position =< MaxPos
  BY <1>1, BoundsAssumption
<1> QED BY <1>1, <1>2, BlocksAssumption

\* Sibling order is a strict order, total on keys of different children.
LEMMA PrecedesIsOrder ==
  ASSUME NEW j \in SiblingKey, NEW k \in SiblingKey, NEW l \in SiblingKey
  PROVE  /\ ~Precedes(k, k)
         /\ Precedes(j, k) /\ Precedes(k, l) => Precedes(j, l)
         /\ j.child # k.child => Precedes(j, k) \/ Precedes(k, j)
         /\ ~(Precedes(j, k) /\ Precedes(k, j))
  BY KeyFields DEF Precedes

\* Strictly more elements in the larger of two finite sets.
LEMMA StrictSubset ==
  ASSUME NEW S, NEW T, IsFiniteSet(T), S \subseteq T, NEW x \in T, x \notin S
  PROVE  Cardinality(S) \in Nat /\ Cardinality(T) \in Nat /\ Cardinality(S) < Cardinality(T)
<1>1. IsFiniteSet(S) /\ Cardinality(S) =< Cardinality(T) /\ Cardinality(S) # Cardinality(T)
  BY FS_Subset
<1> QED BY <1>1, FS_CardinalityType

\* The values of a function on a finite set are finitely many.
LEMMA ImageIsFinite ==
  ASSUME NEW S, IsFiniteSet(S), NEW g
  PROVE  IsFiniteSet({g[x] : x \in S})
<1> DEFINE T == {g[x] : x \in S}
           h == [x \in S |-> g[x]]
<1>1. h \in Surjection(S, T)
  BY DEF Surjection
<1> HIDE DEF h, T
<1>2. IsFiniteSet(T)
  BY <1>1, FS_Surjection
<1> QED BY <1>2 DEF T

\* A set of numbers that is not empty has a least one.
LEMMA LeastNumber ==
  ASSUME NEW S \in SUBSET Nat, S # {}
  PROVE  \E x \in S : \A y \in S : x =< y
<1> DEFINE Less == {ss \in Nat \X Nat : ss[1] < ss[2]}
<1>1. IsWellFoundedOn(Less, Nat)
  BY NatLessThanWellFounded, Zenon DEF OpToRel
<1>2. \A x, y \in Nat : y < x => <<y, x>> \in Less
  OBVIOUS
<1> HIDE DEF Less
<1>3. PICK x \in S : \A y \in S : ~ (<<y, x>> \in Less)
  BY <1>1, WFMin
<1>4. \A y \in S : ~(y < x)
  BY <1>2, <1>3
<1> QED BY <1>4

\* The first and the last of finitely many keys.
LEMMA FirstAndLast ==
  ASSUME NEW D \in SUBSET SiblingKey, IsFiniteSet(D), D # {}
  PROVE  /\ \E k \in D : \A j \in D : ~Precedes(j, k)
         /\ \E k \in D : \A j \in D : ~Precedes(k, j)
<1> DEFINE Before(k) == {j \in D : Precedes(j, k)}
           After(k) == {j \in D : Precedes(k, j)}
<1>1. \A k \in D : Cardinality(Before(k)) \in Nat /\ Cardinality(After(k)) \in Nat
  <2> SUFFICES ASSUME NEW k \in D
               PROVE  Cardinality(Before(k)) \in Nat /\ Cardinality(After(k)) \in Nat
    OBVIOUS
  <2>1. Before(k) \in SUBSET D /\ After(k) \in SUBSET D
    OBVIOUS
  <2> QED BY <2>1, FS_Subset, FS_CardinalityType
<1>2. ASSUME NEW j \in D, NEW k \in D, Precedes(j, k)
      PROVE  /\ Cardinality(Before(j)) < Cardinality(Before(k))
             /\ Cardinality(After(k)) < Cardinality(After(j))
  <2>1. Before(j) \subseteq Before(k) /\ j \in Before(k) /\ j \notin Before(j)
    BY <1>2, PrecedesIsOrder
  <2>2. After(k) \subseteq After(j) /\ k \in After(j) /\ k \notin After(k)
    BY <1>2, PrecedesIsOrder
  <2>3. Before(k) \in SUBSET D /\ After(j) \in SUBSET D
    OBVIOUS
  <2>4. IsFiniteSet(Before(k)) /\ IsFiniteSet(After(j))
    BY <2>3, FS_Subset
  <2> HIDE DEF Before, After
  <2> QED BY <2>1, <2>2, <2>4, StrictSubset
<1> HIDE DEF Before, After
<1>3. \E k \in D : \A j \in D : Cardinality(Before(k)) =< Cardinality(Before(j))
  <2> DEFINE N == {Cardinality(Before(k)) : k \in D}
  <2>1. N \in SUBSET Nat /\ N # {}
    BY <1>1
  <2>2. PICK n \in N : \A m \in N : n =< m
    <3> HIDE DEF N
    <3> QED BY <2>1, LeastNumber
  <2> QED BY <2>2
<1>4. \E k \in D : \A j \in D : Cardinality(After(k)) =< Cardinality(After(j))
  <2> DEFINE N == {Cardinality(After(k)) : k \in D}
  <2>1. N \in SUBSET Nat /\ N # {}
    BY <1>1
  <2>2. PICK n \in N : \A m \in N : n =< m
    <3> HIDE DEF N
    <3> QED BY <2>1, LeastNumber
  <2> QED BY <2>2
<1>5. \E k \in D : \A j \in D : ~Precedes(j, k)
  BY <1>1, <1>2, <1>3
<1>6. \E k \in D : \A j \in D : ~Precedes(k, j)
  BY <1>1, <1>2, <1>4
<1> QED BY <1>5, <1>6

-----------------------------------------------------------------------------
(***************************************************************************)
(* A placement cuts the siblings in two; the neighbours are next to the    *)
(* cut.                                                                    *)
(***************************************************************************)
\* Whether the sibling key k comes before the place asked for, next to a.
Below(at, a, k) ==
  \/ at = "Last"
  \/ at = "Before" /\ Precedes(k, a)
  \/ at = "After" /\ ~Precedes(a, k)

NearestBelow(keys, at, a) ==
  {k \in keys : Below(at, a, k) /\ \A j \in keys : Below(at, a, j) => ~Precedes(k, j)}

NearestAbove(keys, at, a) ==
  {k \in keys : ~Below(at, a, k) /\ \A j \in keys : ~Below(at, a, j) => ~Precedes(j, k)}

\* The key of the anchor is one of the siblings, when there is an anchor.
Anchored(keys, at, anchors, a) ==
  \/ at \in {"First", "Last"}
  \/ at \in {"Before", "After"} /\ anchors = {a} /\ a \in keys

\* LeftOf and RightOf, as functions of the anchor's keys.
LeftIn(keys, at, anchors) ==
  CASE at = "First"  -> {}
    [] at = "Last"   -> PrevOf(keys, {})
    [] at = "Before" -> PrevOf(keys, anchors)
    [] at = "After"  -> anchors

RightIn(keys, at, anchors) ==
  CASE at = "First"  -> NextOf(keys, {})
    [] at = "Last"   -> {}
    [] at = "Before" -> anchors
    [] at = "After"  -> NextOf(keys, anchors)

\* The neighbours that the planner seeks are those next to the cut.
LEMMA Sides ==
  ASSUME NEW keys, SiblingSet(keys), NEW at, NEW anchors, NEW a,
         Anchored(keys, at, anchors, a)
  PROVE  /\ LeftIn(keys, at, anchors) = NearestBelow(keys, at, a)
         /\ RightIn(keys, at, anchors) = NearestAbove(keys, at, a)
<1>1. CASE at \in {"First", "Last"}
  <2>1. CASE at = "First"
    BY <2>1 DEF LeftIn, RightIn, NearestBelow, NearestAbove, Below, NextOf
  <2>2. CASE at = "Last"
    BY <2>2 DEF LeftIn, RightIn, NearestBelow, NearestAbove, Below, PrevOf
  <2> QED BY <1>1, <2>1, <2>2
<1>2. CASE at \in {"Before", "After"} /\ anchors = {a} /\ a \in keys
  <2>2. /\ a \in SiblingKey /\ ~Precedes(a, a)
        /\ \A k \in keys : k # a => Precedes(a, k) \/ Precedes(k, a)
        /\ \A k \in keys : ~(Precedes(a, k) /\ Precedes(k, a))
    <3>1. a \in SiblingKey /\ \A k \in keys : k \in SiblingKey /\ (k # a => k.child # a.child)
      BY <1>2 DEF SiblingSet
    <3> QED BY <3>1, PrecedesIsOrder
  <2>3. CASE at = "Before"
    <3>1. LeftIn(keys, at, anchors) = PrevOf(keys, {a}) /\ RightIn(keys, at, anchors) = {a}
      BY <1>2, <2>3 DEF LeftIn, RightIn
    <3>2. PrevOf(keys, {a}) = NearestBelow(keys, at, a)
      BY <2>3 DEF PrevOf, NearestBelow, Below
    <3>3. ASSUME NEW k
          PROVE  k \in NearestAbove(keys, at, a) <=> k = a
      BY <1>2, <2>2, <2>3 DEF NearestAbove, Below
    <3> QED BY <3>1, <3>2, <3>3
  <2>4. CASE at = "After"
    <3>1. RightIn(keys, at, anchors) = NextOf(keys, {a}) /\ LeftIn(keys, at, anchors) = {a}
      BY <1>2, <2>4 DEF LeftIn, RightIn
    <3>2. NextOf(keys, {a}) = NearestAbove(keys, at, a)
      BY <2>4 DEF NextOf, NearestAbove, Below
    <3>3. ASSUME NEW k
          PROVE  k \in NearestBelow(keys, at, a) <=> k = a
      BY <1>2, <2>2, <2>4 DEF NearestBelow, Below
    <3> QED BY <3>1, <3>2, <3>3
  <2> QED BY <1>2, <2>3, <2>4
<1> QED BY <1>1, <1>2 DEF Anchored

\* A key that lies in the cut has the same neighbours.
LEMMA NeighboursOfCut ==
  ASSUME NEW keys, NEW at, NEW a, NEW own,
         \A k \in keys : /\ Below(at, a, k) <=> Precedes(k, own)
                         /\ ~Below(at, a, k) <=> Precedes(own, k)
  PROVE  /\ NearestBelow(keys, at, a) = PrevOf(keys, {own})
         /\ NearestAbove(keys, at, a) = NextOf(keys, {own})
  BY DEF NearestBelow, NearestAbove, PrevOf, NextOf

\* There is a nearest sibling on a side of the cut where there is any.
LEMMA NearestExist ==
  ASSUME NEW keys, SiblingSet(keys), NEW at, NEW a, NEW k \in keys
  PROVE  /\ Below(at, a, k) =>
              /\ NearestBelow(keys, at, a) # {}
              /\ \A l \in NearestBelow(keys, at, a) : k.position =< l.position
         /\ ~Below(at, a, k) =>
              /\ NearestAbove(keys, at, a) # {}
              /\ \A l \in NearestAbove(keys, at, a) : l.position =< k.position
<1>1. keys \in SUBSET SiblingKey /\ IsFiniteSet(keys)
  BY DEF SiblingSet
<1>2. ASSUME Below(at, a, k)
      PROVE  /\ NearestBelow(keys, at, a) # {}
             /\ \A l \in NearestBelow(keys, at, a) : k.position =< l.position
  <2> DEFINE D == {j \in keys : Below(at, a, j)}
  <2>1. D \in SUBSET keys /\ D \in SUBSET SiblingKey /\ D # {}
    BY <1>1, <1>2
  <2>2. IsFiniteSet(D)
    BY <1>1, <2>1, FS_Subset
  <2>3. \E l \in D : \A j \in D : ~Precedes(l, j)
    <3> HIDE DEF D
    <3> QED BY <2>1, <2>2, FirstAndLast
  <2>4. NearestBelow(keys, at, a) # {}
    BY <2>3 DEF NearestBelow
  <2>5. \A l \in NearestBelow(keys, at, a) : ~Precedes(l, k) /\ l \in SiblingKey
    BY <1>1, <1>2 DEF NearestBelow
  <2>6. \A l \in NearestBelow(keys, at, a) : k.position =< l.position
    BY <1>1, <2>5, KeyFields DEF Precedes
  <2> QED BY <2>4, <2>6
<1>3. ASSUME ~Below(at, a, k)
      PROVE  /\ NearestAbove(keys, at, a) # {}
             /\ \A l \in NearestAbove(keys, at, a) : l.position =< k.position
  <2> DEFINE D == {j \in keys : ~Below(at, a, j)}
  <2>1. D \in SUBSET keys /\ D \in SUBSET SiblingKey /\ D # {}
    BY <1>1, <1>3
  <2>2. IsFiniteSet(D)
    BY <1>1, <2>1, FS_Subset
  <2>3. \E l \in D : \A j \in D : ~Precedes(j, l)
    <3> HIDE DEF D
    <3> QED BY <2>1, <2>2, FirstAndLast
  <2>4. NearestAbove(keys, at, a) # {}
    BY <2>3 DEF NearestAbove
  <2>5. \A l \in NearestAbove(keys, at, a) : ~Precedes(k, l) /\ l \in SiblingKey
    BY <1>1, <1>3 DEF NearestAbove
  <2>6. \A l \in NearestAbove(keys, at, a) : l.position =< k.position
    BY <1>1, <2>5, KeyFields DEF Precedes
  <2> QED BY <2>4, <2>6
<1> QED BY <1>2, <1>3

-----------------------------------------------------------------------------
(***************************************************************************)
(* Ranks.                                                                  *)
(***************************************************************************)
\* Slots of a rebalance do not touch.
LEMMA SlotsAreApart ==
  ASSUME NEW m \in Nat, NEW n \in Nat
  PROVE  /\ m * Gap \in Nat
         /\ m < n => m * Gap < n * Gap
         /\ m =< n => m * Gap =< n * Gap
<1>1. Gap \in Nat /\ Gap >= 1
  BY PlannerAssumption
<1>2. m * Gap \in Nat
  BY <1>1
<1>3. ASSUME m < n
      PROVE  m * Gap < n * Gap
  <2>1. n - m \in Nat /\ n - m >= 1 /\ n = m + (n - m)
    BY <1>3
  <2>2. n * Gap = m * Gap + (n - m) * Gap
    BY <1>1, <2>1
  <2>3. (n - m) * Gap \in Nat /\ (n - m) * Gap >= 1
    BY <1>1, <2>1
  <2> QED BY <1>2, <2>2, <2>3
<1>4. ASSUME m = n
      PROVE  m * Gap =< n * Gap
  BY <1>2, <1>4
<1>5. ASSUME m =< n
      PROVE  m * Gap =< n * Gap
  <2>1. m < n \/ m = n
    BY <1>5
  <2>2. ASSUME m < n
        PROVE  m * Gap =< n * Gap
    <3>1. n * Gap \in Nat
      BY <1>1
    <3> QED BY <1>2, <1>3, <2>2, <3>1
  <2> QED BY <1>4, <2>1, <2>2
<1> QED BY <1>2, <1>3, <1>5

\* The slots of fewer siblings than MaxSiblings, and one more, are ranks.
LEMMA SlotsAreRanks ==
  ASSUME NEW n \in 1 .. MaxSiblings
  PROVE  n * Gap \in Positions
<1>1. n \in Nat /\ MaxSiblings \in Nat /\ n =< MaxSiblings
  BY PlannerAssumption
<1>2. n * Gap \in Nat /\ MaxSiblings * Gap \in Nat /\ n * Gap =< MaxSiblings * Gap
  BY <1>1, SlotsAreApart
<1>3. n * Gap =< MaxPos
  BY <1>2, PlannerAssumption, BoundsAssumption
<1> QED BY <1>2, <1>3 DEF Positions

\* A free rank lies strictly between the neighbours that there are.
LEMMA FreeRankFits ==
  ASSUME NEW left \in SUBSET SiblingKey, NEW right \in SUBSET SiblingKey,
         NEW pos \in FreeRank(left, right)
  PROVE  /\ pos \in Positions
         /\ left # {} => \E l \in left : l.position < pos
         /\ right # {} => \E r \in right : pos < r.position
<1> USE BoundsAssumption DEF Positions
<1>1. Gap \in Positions /\ Gap \in Nat /\ Gap >= 1
  <2>1. 1 \in 1 .. MaxSiblings /\ 1 * Gap = Gap
    BY PlannerAssumption
  <2> QED BY <2>1, SlotsAreRanks, PlannerAssumption
<1>2. CASE left = {} /\ right = {}
  <2>1. FreeRank(left, right) = {Gap}
    BY <1>2 DEF FreeRank
  <2> QED BY <1>1, <1>2, <2>1
<1>3. CASE left = {} /\ right # {}
  <2>1. pos \in {r.position \div 2 : r \in {k \in right : k.position > 0}}
    BY <1>3 DEF FreeRank
  <2>2. PICK r \in right : r.position > 0 /\ pos = r.position \div 2
    BY <2>1
  <2>3. r.position \in Nat /\ r.position =< MaxPos
    BY KeyFields
  <2>4. pos \in Nat /\ pos < r.position
    BY <2>2, <2>3
  <2> QED BY <1>3, <2>3, <2>4
<1>4. CASE left # {} /\ right = {}
  <2>1. pos \in {l.position + Gap : l \in {k \in left : k.position + Gap =< MaxPos}}
    BY <1>4 DEF FreeRank
  <2>2. PICK l \in left : l.position + Gap =< MaxPos /\ pos = l.position + Gap
    BY <2>1
  <2>3. l.position \in Nat
    BY KeyFields
  <2> QED BY <1>1, <1>4, <2>2, <2>3
<1>5. CASE left # {} /\ right # {}
  <2>1. pos \in {n[1].position + (n[2].position - n[1].position) \div 2 :
                   n \in {m \in left \X right : m[2].position - m[1].position > 1}}
    BY <1>5 DEF FreeRank
  <2>2. PICK n \in left \X right :
          /\ n[2].position - n[1].position > 1
          /\ pos = n[1].position + (n[2].position - n[1].position) \div 2
    BY <2>1
  <2>3. n[1] \in left /\ n[2] \in right
    BY <2>2
  <2>4. PICK l \in left, r \in right : l = n[1] /\ r = n[2]
    BY <2>3
  <2>5. /\ l.position \in Nat /\ r.position \in Nat /\ r.position =< MaxPos
        /\ r.position - l.position > 1
        /\ pos = l.position + (r.position - l.position) \div 2
    BY <2>2, <2>4, KeyFields
  <2>6. pos \in Nat /\ l.position < pos /\ pos < r.position
    BY <2>5
  <2> QED BY <1>5, <2>5, <2>6
<1> QED BY <1>2, <1>3, <1>4, <1>5

\* A key of a free rank lies in the cut, whatever its id.
LEMMA FreeRankCuts ==
  ASSUME NEW keys, SiblingSet(keys), NEW at, NEW a, NEW b,
         NEW pos \in FreeRank(NearestBelow(keys, at, a), NearestAbove(keys, at, a))
  PROVE  /\ pos \in Positions
         /\ \A k \in keys :
              /\ Below(at, a, k) <=> Precedes(k, [position |-> pos, child |-> b])
              /\ ~Below(at, a, k) <=> Precedes([position |-> pos, child |-> b], k)
<1> DEFINE left == NearestBelow(keys, at, a)
           right == NearestAbove(keys, at, a)
           own == [position |-> pos, child |-> b]
<1>1. left \in SUBSET SiblingKey /\ right \in SUBSET SiblingKey
  BY DEF SiblingSet, NearestBelow, NearestAbove
<1>2. /\ pos \in Positions
      /\ left # {} => \E l \in left : l.position < pos
      /\ right # {} => \E r \in right : pos < r.position
  <2>1. pos \in FreeRank(left, right)
    OBVIOUS
  <2> HIDE DEF left, right
  <2> QED BY <1>1, <2>1, FreeRankFits
<1>3. ASSUME NEW k \in keys
      PROVE  /\ Below(at, a, k) <=> Precedes(k, own)
             /\ ~Below(at, a, k) <=> Precedes(own, k)
  <2>1. k \in SiblingKey /\ k.position \in Nat /\ pos \in Nat
    BY <1>2, KeyFields, BoundsAssumption DEF SiblingSet, Positions
  <2>2. CASE Below(at, a, k)
    <3>1. left # {} /\ \A l \in left : k.position =< l.position
      BY <2>2, NearestExist
    <3>2. PICK l \in left : l.position < pos
      BY <1>2, <3>1
    <3>3. l.position \in Nat /\ k.position =< l.position
      BY <1>1, <3>1, KeyFields
    <3>4. k.position < pos
      BY <2>1, <3>2, <3>3
    <3> QED BY <2>1, <2>2, <3>4 DEF Precedes
  <2>3. CASE ~Below(at, a, k)
    <3>1. right # {} /\ \A r \in right : r.position =< k.position
      BY <2>3, NearestExist
    <3>2. PICK r \in right : pos < r.position
      BY <1>2, <3>1
    <3>3. r.position \in Nat /\ r.position =< k.position
      BY <1>1, <3>1, KeyFields
    <3>4. pos < k.position
      BY <2>1, <3>2, <3>3
    <3> QED BY <2>1, <2>3, <3>4 DEF Precedes
  <2> QED BY <2>2, <2>3
<1> QED BY <1>2, <1>3

-----------------------------------------------------------------------------
(***************************************************************************)
(* Rebalancing.                                                            *)
(***************************************************************************)
\* Siblings are numbered in their order.
LEMMA IndexIsOrder ==
  ASSUME NEW keys, SiblingSet(keys)
  PROVE  /\ Cardinality(keys) \in Nat
         /\ \A k \in keys : IndexOf(keys, k) \in Nat /\ IndexOf(keys, k) < Cardinality(keys)
         /\ \A j, k \in keys : Precedes(j, k) <=> IndexOf(keys, j) < IndexOf(keys, k)
<1> DEFINE Before(k) == {j \in keys : Precedes(j, k)}
<1>1. keys \in SUBSET SiblingKey /\ IsFiniteSet(keys)
      /\ \A j, k \in keys : j.child = k.child => j = k
  BY DEF SiblingSet
<1>2. ASSUME NEW k \in keys
      PROVE  /\ IsFiniteSet(Before(k)) /\ Before(k) \subseteq keys
             /\ k \notin Before(k) /\ IndexOf(keys, k) = Cardinality(Before(k))
  <2>1. Before(k) \in SUBSET keys
    OBVIOUS
  <2>2. k \notin Before(k)
    BY <1>1, PrecedesIsOrder
  <2>3. IndexOf(keys, k) = Cardinality(Before(k))
    BY DEF IndexOf
  <2> HIDE DEF Before
  <2> QED BY <1>1, <2>1, <2>2, <2>3, FS_Subset
<1>3. ASSUME NEW k \in keys
      PROVE  IndexOf(keys, k) \in Nat /\ IndexOf(keys, k) < Cardinality(keys)
  <2> HIDE DEF Before
  <2> QED BY <1>1, <1>2, StrictSubset
<1>4. ASSUME NEW j \in keys, NEW k \in keys, Precedes(j, k)
      PROVE  IndexOf(keys, j) < IndexOf(keys, k)
  <2>1. Before(j) \subseteq Before(k) /\ j \in Before(k)
    BY <1>1, <1>4, PrecedesIsOrder
  <2> HIDE DEF Before
  <2> QED BY <1>2, <2>1, StrictSubset
<1>5. ASSUME NEW j \in keys, NEW k \in keys, ~Precedes(j, k)
      PROVE  ~(IndexOf(keys, j) < IndexOf(keys, k))
  <2>1. j = k \/ Precedes(k, j)
    BY <1>1, <1>5, PrecedesIsOrder
  <2>2. IndexOf(keys, j) \in Nat /\ IndexOf(keys, k) \in Nat
    BY <1>3
  <2>3. CASE j = k
    BY <2>2, <2>3
  <2>4. CASE Precedes(k, j)
    BY <1>4, <2>2, <2>4
  <2> QED BY <2>1, <2>3, <2>4
<1>6. Cardinality(keys) \in Nat
  BY <1>1, FS_CardinalityType
<1> QED BY <1>3, <1>4, <1>5, <1>6

\* The gap is opened at the cut: the siblings below it keep lower slots.
LEMMA IndexIsCut ==
  ASSUME NEW keys, SiblingSet(keys), NEW place, NEW a,
         Anchored(keys, place.at, AnchorKeys(place), a)
  PROVE  /\ InsertIndex(keys, place) \in 0 .. Cardinality(keys)
         /\ \A k \in keys :
              Below(place.at, a, k) <=> IndexOf(keys, k) < InsertIndex(keys, place)
<1>1. /\ Cardinality(keys) \in Nat
      /\ \A k \in keys : IndexOf(keys, k) \in Nat /\ IndexOf(keys, k) < Cardinality(keys)
      /\ \A j, k \in keys : Precedes(j, k) <=> IndexOf(keys, j) < IndexOf(keys, k)
  BY IndexIsOrder
<1>2. CASE place.at \in {"First", "Last"}
  <2>1. CASE place.at = "First"
    BY <1>1, <2>1 DEF InsertIndex, Below
  <2>2. CASE place.at = "Last"
    BY <1>1, <2>2 DEF InsertIndex, Below
  <2> QED BY <1>2, <2>1, <2>2
<1>3. CASE place.at \in {"Before", "After"} /\ AnchorKeys(place) = {a} /\ a \in keys
  <2>2. (CHOOSE k \in AnchorKeys(place) : TRUE) = a
    BY <1>3
  <2>3. /\ IndexOf(keys, a) \in Nat /\ IndexOf(keys, a) < Cardinality(keys)
        /\ \A k \in keys : /\ Precedes(k, a) <=> IndexOf(keys, k) < IndexOf(keys, a)
                           /\ Precedes(a, k) <=> IndexOf(keys, a) < IndexOf(keys, k)
    BY <1>1, <1>3
  <2>4. CASE place.at = "Before"
    <3>1. InsertIndex(keys, place) = IndexOf(keys, a)
      BY <2>2, <2>4 DEF InsertIndex
    <3>2. \A k \in keys : Below(place.at, a, k) <=> Precedes(k, a)
      BY <2>4 DEF Below
    <3> QED BY <1>1, <2>3, <3>1, <3>2
  <2>5. CASE place.at = "After"
    <3>1. InsertIndex(keys, place) = IndexOf(keys, a) + 1
      BY <2>2, <2>5 DEF InsertIndex
    <3>2. \A k \in keys : Below(place.at, a, k) <=> ~Precedes(a, k)
      BY <2>5 DEF Below
    <3> QED BY <1>1, <2>3, <3>1, <3>2
  <2> QED BY <1>3, <2>4, <2>5
<1> QED BY <1>2, <1>3 DEF Anchored

\* Fresh ranks keep the order and leave one slot free at the index.
LEMMA FreshRanks ==
  ASSUME NEW keys, SiblingSet(keys), Cardinality(keys) < MaxSiblings,
         NEW index \in 0 .. Cardinality(keys)
  PROVE  /\ (index + 1) * Gap \in Positions
         /\ \A k \in keys :
              /\ FreshRank(keys, index, k) \in Positions
              /\ FreshRank(keys, index, k) < (index + 1) * Gap <=> IndexOf(keys, k) < index
              /\ (index + 1) * Gap < FreshRank(keys, index, k) <=> ~(IndexOf(keys, k) < index)
         /\ \A j, k \in keys :
              FreshRank(keys, index, j) < FreshRank(keys, index, k) <=> Precedes(j, k)
         /\ \A j, k \in keys :
              FreshRank(keys, index, j) = FreshRank(keys, index, k) => j = k
<1> DEFINE Slot(k) == IF IndexOf(keys, k) >= index THEN IndexOf(keys, k) + 2
                      ELSE IndexOf(keys, k) + 1
           n == Cardinality(keys)
<1>1. /\ n \in Nat /\ n < MaxSiblings /\ MaxSiblings \in Nat /\ index \in Nat /\ index =< n
      /\ \A k \in keys : IndexOf(keys, k) \in Nat /\ IndexOf(keys, k) < n
      /\ \A j, k \in keys : Precedes(j, k) <=> IndexOf(keys, j) < IndexOf(keys, k)
  BY IndexIsOrder, PlannerAssumption
<1>2. \A k \in keys : FreshRank(keys, index, k) = Slot(k) * Gap
  BY DEF FreshRank
<1>3. index + 1 \in 1 .. MaxSiblings
  BY <1>1
<1>4. \A k \in keys : /\ Slot(k) \in 1 .. MaxSiblings /\ Slot(k) \in Nat
                      /\ Slot(k) < index + 1 <=> IndexOf(keys, k) < index
                      /\ index + 1 < Slot(k) <=> ~(IndexOf(keys, k) < index)
  BY <1>1
<1>5. \A j, k \in keys : Slot(j) < Slot(k) <=> IndexOf(keys, j) < IndexOf(keys, k)
  BY <1>1
<1>6. \A j, k \in keys : Slot(j) = Slot(k) => j = k
  <2> SUFFICES ASSUME NEW j \in keys, NEW k \in keys, Slot(j) = Slot(k)
               PROVE  j = k
    OBVIOUS
  <2>1. ~Precedes(j, k) /\ ~Precedes(k, j)
    BY <1>1, <1>4, <1>5
  <2> QED BY <2>1, PrecedesIsOrder DEF SiblingSet
<1>7. \A l, m \in Nat : /\ l * Gap < m * Gap <=> l < m
                        /\ l * Gap = m * Gap => l = m
  <2> SUFFICES ASSUME NEW l \in Nat, NEW m \in Nat
               PROVE  /\ l * Gap < m * Gap <=> l < m
                      /\ l * Gap = m * Gap => l = m
    OBVIOUS
  <2>1. l * Gap \in Nat /\ m * Gap \in Nat /\ (l < m => l * Gap < m * Gap)
        /\ (m < l => m * Gap < l * Gap) /\ (m =< l => m * Gap =< l * Gap)
    BY SlotsAreApart
  <2> QED BY <2>1
<1> HIDE DEF Slot, n
<1>8. (index + 1) * Gap \in Positions /\ \A k \in keys : Slot(k) * Gap \in Positions
  BY <1>3, <1>4, SlotsAreRanks
<1>9. index + 1 \in Nat
  BY <1>1
<1> QED BY <1>1, <1>2, <1>4, <1>5, <1>6, <1>7, <1>8, <1>9

\* The key of a sibling after a rebalance.
Fresh(keys, index, k) == [position |-> FreshRank(keys, index, k), child |-> k.child]

FreshKeys(keys, index) == {Fresh(keys, index, k) : k \in keys}

\* A rebalance gives the same siblings in the same order.
LEMMA FreshKeysOrder ==
  ASSUME NEW keys, SiblingSet(keys), Cardinality(keys) < MaxSiblings,
         NEW index \in 0 .. Cardinality(keys)
  PROVE  /\ SiblingSet(FreshKeys(keys, index))
         /\ \A k \in keys : /\ Fresh(keys, index, k) \in SiblingKey
                            /\ Fresh(keys, index, k).child = k.child
                            /\ Fresh(keys, index, k).position = FreshRank(keys, index, k)
         /\ \A j, k \in keys :
              Precedes(Fresh(keys, index, j), Fresh(keys, index, k)) <=> Precedes(j, k)
<1> DEFINE F(k) == Fresh(keys, index, k)
<1>2. /\ \A k \in keys : FreshRank(keys, index, k) \in Positions
      /\ \A j, k \in keys :
           FreshRank(keys, index, j) < FreshRank(keys, index, k) <=> Precedes(j, k)
      /\ \A j, k \in keys :
           FreshRank(keys, index, j) = FreshRank(keys, index, k) => j = k
  BY FreshRanks
<1>3. /\ keys \in SUBSET SiblingKey /\ IsFiniteSet(keys)
      /\ \A j, k \in keys : j.child = k.child => j = k
  BY DEF SiblingSet
<1>4. \A k \in keys : /\ F(k) \in SiblingKey /\ F(k).child = k.child
                      /\ F(k).position = FreshRank(keys, index, k)
  BY <1>2, <1>3 DEF Fresh, SiblingKey
<1>6. ASSUME NEW j \in keys, NEW k \in keys
      PROVE  Precedes(F(j), F(k)) <=> Precedes(j, k)
  <2>1. Precedes(j, j) <=> FALSE
    BY <1>3, PrecedesIsOrder
  <2>2. CASE j = k
    <3>1. ~Precedes(F(j), F(j))
      BY <1>4, PrecedesIsOrder
    <3> QED BY <2>1, <2>2, <3>1
  <2>3. CASE j # k
    <3>1. F(j).position # F(k).position
      BY <1>2, <1>4, <2>3
    <3>2. Precedes(F(j), F(k)) <=> F(j).position < F(k).position
      BY <3>1 DEF Precedes
    <3> QED BY <1>2, <1>4, <3>2
  <2> QED BY <2>2, <2>3
<1>7. SiblingSet(FreshKeys(keys, index))
  <2>1. FreshKeys(keys, index) \in SUBSET SiblingKey
    BY <1>4 DEF FreshKeys
  <2>2. IsFiniteSet(FreshKeys(keys, index))
    <3> DEFINE g == [k \in keys |-> F(k)]
    <3>1. FreshKeys(keys, index) = {g[k] : k \in keys} /\ DOMAIN g = keys
      BY DEF FreshKeys
    <3> HIDE DEF g, F
    <3> QED BY <1>3, <3>1, ImageIsFinite
  <2>3. \A j, k \in FreshKeys(keys, index) : j.child = k.child => j = k
    BY <1>3, <1>4 DEF FreshKeys
  <2> QED BY <2>1, <2>2, <2>3 DEF SiblingSet
<1> QED BY <1>4, <1>6, <1>7

\* After a rebalance there is room at the cut.
LEMMA FreshKeysCut ==
  ASSUME NEW keys, SiblingSet(keys), Cardinality(keys) < MaxSiblings,
         NEW place, NEW a, Anchored(keys, place.at, AnchorKeys(place), a), NEW b
  PROVE  LET index == InsertIndex(keys, place)
             own == [position |-> (index + 1) * Gap, child |-> b]
         IN  /\ own.position \in Positions
             /\ SiblingSet(FreshKeys(keys, index))
             /\ \A k \in FreshKeys(keys, index) :
                  /\ Below(place.at, Fresh(keys, index, a), k) <=> Precedes(k, own)
                  /\ ~Below(place.at, Fresh(keys, index, a), k) <=> Precedes(own, k)
<1> DEFINE index == InsertIndex(keys, place)
           own == [position |-> (index + 1) * Gap, child |-> b]
           F(k) == Fresh(keys, index, k)
<1>1. /\ index \in 0 .. Cardinality(keys)
      /\ \A k \in keys : Below(place.at, a, k) <=> IndexOf(keys, k) < index
  BY IndexIsCut
<1> HIDE DEF index
<1>2. /\ (index + 1) * Gap \in Positions
      /\ \A k \in keys :
           /\ FreshRank(keys, index, k) \in Positions
           /\ FreshRank(keys, index, k) < (index + 1) * Gap <=> IndexOf(keys, k) < index
           /\ (index + 1) * Gap < FreshRank(keys, index, k) <=> ~(IndexOf(keys, k) < index)
  BY <1>1, FreshRanks
<1>4. /\ SiblingSet(FreshKeys(keys, index))
      /\ \A k \in keys : F(k).position = FreshRank(keys, index, k)
      /\ \A j, k \in keys : Precedes(F(j), F(k)) <=> Precedes(j, k)
  BY <1>1, FreshKeysOrder
<1>5. \A n \in Positions : n \in Int
  BY BoundsAssumption DEF Positions
<1>8. ASSUME NEW k \in keys
      PROVE  /\ Below(place.at, F(a), F(k)) <=> Precedes(F(k), own)
             /\ ~Below(place.at, F(a), F(k)) <=> Precedes(own, F(k))
  <2>1. Below(place.at, F(a), F(k)) <=> Below(place.at, a, k)
    <3>1. CASE place.at \in {"First", "Last"}
      BY <3>1 DEF Below
    <3>2. CASE a \in keys
      BY <1>4, <3>2 DEF Below
    <3> QED BY <3>1, <3>2 DEF Anchored
  <2>2. /\ F(k).position < own.position <=> IndexOf(keys, k) < index
        /\ own.position < F(k).position <=> ~(IndexOf(keys, k) < index)
        /\ F(k).position \in Int /\ own.position \in Int
    BY <1>2, <1>4, <1>5
  <2>3. /\ Precedes(F(k), own) <=> F(k).position < own.position
        /\ Precedes(own, F(k)) <=> own.position < F(k).position
    BY <2>2 DEF Precedes
  <2> QED BY <1>1, <2>1, <2>2, <2>3
<1>9. \A k \in FreshKeys(keys, index) :
        /\ Below(place.at, F(a), k) <=> Precedes(k, own)
        /\ ~Below(place.at, F(a), k) <=> Precedes(own, k)
  BY <1>8 DEF FreshKeys
<1> QED BY <1>2, <1>4, <1>9 DEF index

-----------------------------------------------------------------------------
(***************************************************************************)
(* The plan as a tree: what the heads will be when it is committed.        *)
(***************************************************************************)
EditRow == [expected : Revisions, content : Content]

\* Every variable of the planner has its type; a plan exists only under the lock.
PlanTypeOK ==
  /\ planning \in BOOLEAN
  /\ ops \in Nat
  /\ DOMAIN pending \in SUBSET Blocks
  /\ pending \in [DOMAIN pending -> EditRow]
  /\ ops > 0 => DOMAIN pending # {}
  /\ ~planning => pending = NoEdits /\ asked = <<None, NoPlacement>>

PlannedTree == [x \in Blocks |-> Planned(x).content]

IsSibling(f, p, x) == ~f[x].deleted /\ f[x].parent = p

\* The sibling keys below p in a tree, without e.
KeysIn(f, p, e) == {KeyOf(x, f[x]) : x \in {y \in Blocks \ {e} : IsSibling(f, p, y)}}

\* The planner sees a typed row for every block.
LEMMA PlannedType ==
  ASSUME TypeOK, PlanTypeOK, NEW x \in Blocks
  PROVE  Planned(x) \in EditRow
<1>1. CASE x \in DOMAIN pending
  BY <1>1 DEF PlanTypeOK, Planned
<1>2. CASE x \notin DOMAIN pending
  <2>1. heads[x] \in HeadRow
    BY DEF TypeOK
  <2>2. heads[x].tx \in Revisions /\ heads[x].content \in Content
    BY <2>1 DEF HeadRow
  <2> QED BY <1>2, <2>2 DEF Planned, EditRow
<1> QED BY <1>1, <1>2

\* The contents it sees make a tree of typed contents.
LEMMA PlannedTreeType ==
  ASSUME TypeOK, PlanTypeOK
  PROVE  PlannedTree \in [Blocks -> Content]
  BY PlannedType DEF PlannedTree, EditRow

\* The siblings below a parent are a sibling set, one key for each child.
LEMMA KeysAreSiblings ==
  ASSUME NEW f \in [Blocks -> Content], NEW p, NEW e
  PROVE  /\ SiblingSet(KeysIn(f, p, e))
         /\ \A x \in Blocks \ {e} : IsSibling(f, p, x) <=> KeyOf(x, f[x]) \in KeysIn(f, p, e)
         /\ \A k \in KeysIn(f, p, e) :
              k.child \in Blocks \ {e} /\ IsSibling(f, p, k.child) /\ k = KeyOf(k.child, f[k.child])
<1>1. \A x \in Blocks : KeyOf(x, f[x]) \in SiblingKey /\ KeyOf(x, f[x]).child = x
  <2> SUFFICES ASSUME NEW x \in Blocks
               PROVE  KeyOf(x, f[x]) \in SiblingKey /\ KeyOf(x, f[x]).child = x
    OBVIOUS
  <2>1. f[x].position \in Positions
    BY DEF Content, ContentWith
  <2> QED BY <2>1 DEF KeyOf, SiblingKey
<1>2. \A k \in KeysIn(f, p, e) :
        k.child \in Blocks \ {e} /\ IsSibling(f, p, k.child) /\ k = KeyOf(k.child, f[k.child])
  BY <1>1 DEF KeysIn
<1>3. \A x \in Blocks \ {e} : IsSibling(f, p, x) <=> KeyOf(x, f[x]) \in KeysIn(f, p, e)
  <2>1. \A x \in Blocks \ {e} : IsSibling(f, p, x) => KeyOf(x, f[x]) \in KeysIn(f, p, e)
    BY DEF KeysIn
  <2>2. \A x \in Blocks \ {e} : KeyOf(x, f[x]) \in KeysIn(f, p, e) => IsSibling(f, p, x)
    BY <1>1, <1>2
  <2> QED BY <2>1, <2>2
<1>4. IsFiniteSet(KeysIn(f, p, e))
  <2> DEFINE S == {y \in Blocks \ {e} : IsSibling(f, p, y)}
             g == [x \in Blocks |-> KeyOf(x, f[x])]
  <2>1. S \in SUBSET Blocks /\ IsFiniteSet(Blocks)
    BY PlannerAssumption
  <2>2. KeysIn(f, p, e) = {g[x] : x \in S}
    BY DEF KeysIn
  <2> HIDE DEF S, g
  <2>3. IsFiniteSet(S)
    BY <2>1, FS_Subset
  <2> QED BY <2>2, <2>3, ImageIsFinite
<1> QED BY <1>1, <1>2, <1>3, <1>4 DEF SiblingSet, KeysIn

\* The planner finds the siblings of the planned tree: the index entries that no
\* staged edit hides, and the staged edits.
SiblingsArePlanned ==
  \A p, e \in Blocks : SiblingKeys(p, e) = KeysIn(PlannedTree, p, e)

\* The index, overlaid by the staged edits, lists the planned siblings.
LEMMA SiblingsOfPlan == TypeOK /\ PlanTypeOK /\ IndexMatchesHeads => SiblingsArePlanned
<1> SUFFICES ASSUME TypeOK, PlanTypeOK, IndexMatchesHeads, NEW p \in Blocks, NEW e \in Blocks,
                    NEW k
             PROVE  k \in SiblingKeys(p, e) <=> k \in KeysIn(PlannedTree, p, e)
  BY DEF SiblingsArePlanned
<1>1. \A l : l \in childIndex <=> \E b \in Blocks : l \in LinkOf(b, heads[b].content)
  BY DEF IndexMatchesHeads
<1>2. /\ DOMAIN pending \in SUBSET Blocks /\ None \notin Blocks
      /\ \A x \in DOMAIN pending : PlannedTree[x] = pending[x].content
      /\ \A x \in Blocks : x \notin DOMAIN pending => PlannedTree[x] = heads[x].content
  <2>1. DOMAIN pending \in SUBSET Blocks /\ None \notin Blocks
    BY BlocksAssumption DEF PlanTypeOK, None
  <2> QED BY <2>1 DEF PlannedTree, Planned
<1>3. k \in SiblingKeys(p, e) <=>
        \/ \E l \in childIndex : /\ l.parent = p /\ l.child \notin DOMAIN pending \cup {e}
                                 /\ k = [position |-> l.position, child |-> l.child]
        \/ \E x \in DOMAIN pending \ {e} :
             /\ IsSibling(PlannedTree, p, x)
             /\ k = KeyOf(x, PlannedTree[x])
  BY <1>2 DEF SiblingKeys, IsSibling
<1>4. k \in KeysIn(PlannedTree, p, e) <=>
        \E x \in Blocks \ {e} : IsSibling(PlannedTree, p, x) /\ k = KeyOf(x, PlannedTree[x])
  BY DEF KeysIn
<1>5. ASSUME NEW l \in childIndex, l.parent = p, l.child \notin DOMAIN pending \cup {e}
      PROVE  /\ l.child \in Blocks \ {e} /\ IsSibling(PlannedTree, p, l.child)
             /\ [position |-> l.position, child |-> l.child] = KeyOf(l.child, PlannedTree[l.child])
  <2>1. PICK b \in Blocks : l \in LinkOf(b, heads[b].content)
    BY <1>1
  <2>2. /\ l.parent = heads[b].content.parent /\ l.position = heads[b].content.position
        /\ l.child = b /\ ~heads[b].content.deleted
    BY <2>1, LinkOfFields
  <2> QED BY <1>2, <1>5, <2>2 DEF IsSibling, KeyOf
<1>6. ASSUME NEW x \in Blocks \ {e}, x \notin DOMAIN pending, IsSibling(PlannedTree, p, x)
      PROVE  \E l \in childIndex : /\ l.parent = p /\ l.child \notin DOMAIN pending \cup {e}
                                   /\ KeyOf(x, PlannedTree[x])
                                      = [position |-> l.position, child |-> l.child]
  <2> DEFINE l == [parent |-> heads[x].content.parent,
                   position |-> heads[x].content.position, child |-> x]
  <2>1. l \in LinkOf(x, heads[x].content)
    BY <1>2, <1>6 DEF LinkOf, IsSibling
  <2>2. l \in childIndex
    BY <1>1, <2>1
  <2> QED BY <1>2, <1>6, <2>2 DEF IsSibling, KeyOf
<1>7. ASSUME k \in SiblingKeys(p, e)
      PROVE  k \in KeysIn(PlannedTree, p, e)
  <2>1. CASE \E l \in childIndex : /\ l.parent = p /\ l.child \notin DOMAIN pending \cup {e}
                                   /\ k = [position |-> l.position, child |-> l.child]
    <3>1. PICK l \in childIndex : /\ l.parent = p /\ l.child \notin DOMAIN pending \cup {e}
                                  /\ k = [position |-> l.position, child |-> l.child]
      BY <2>1
    <3> QED BY <1>4, <1>5, <3>1
  <2>2. CASE \E x \in DOMAIN pending \ {e} : IsSibling(PlannedTree, p, x)
                                             /\ k = KeyOf(x, PlannedTree[x])
    BY <1>2, <1>4, <2>2
  <2> QED BY <1>3, <1>7, <2>1, <2>2
<1>8. ASSUME k \in KeysIn(PlannedTree, p, e)
      PROVE  k \in SiblingKeys(p, e)
  <2>1. PICK x \in Blocks \ {e} : IsSibling(PlannedTree, p, x) /\ k = KeyOf(x, PlannedTree[x])
    BY <1>4, <1>8
  <2>2. CASE x \in DOMAIN pending
    BY <1>3, <2>1, <2>2
  <2>3. CASE x \notin DOMAIN pending
    BY <1>3, <1>6, <2>1, <2>3
  <2> QED BY <2>2, <2>3
<1> QED BY <1>7, <1>8

-----------------------------------------------------------------------------
(***************************************************************************)
(* What an operation does to the plan.                                     *)
(***************************************************************************)
\* A plan that puts c at the block b and leaves the other blocks as in f.
Replaced(f, g, b, c) == \A x \in Blocks : g[x] = IF x = b THEN c ELSE f[x]

\* A plan that also gives the siblings below p their ranks of a rebalance.
RerankedSibling(f, b, p, index, x) ==
  [f[x] EXCEPT !.position = FreshRank(KeysIn(f, p, b), index, KeyOf(x, f[x]))]

Reranked(f, g, b, c, p, index) ==
  \A x \in Blocks : g[x] = IF x = b THEN c
                           ELSE IF IsSibling(f, p, x) THEN RerankedSibling(f, b, p, index, x)
                           ELSE f[x]

\* A change of ranks below p keeps every set of siblings, those below p with
\* their fresh keys.
LEMMA RerankedKeys ==
  ASSUME NEW f \in [Blocks -> Content], NEW g, NEW b \in Blocks, NEW c,
         NEW p, NEW index, Reranked(f, g, b, c, p, index)
  PROVE  /\ \A x \in Blocks \ {b} : g[x].parent = f[x].parent /\ g[x].deleted = f[x].deleted
         /\ \A x \in Blocks \ {b} : IsSibling(f, p, x) =>
              KeyOf(x, g[x]) = Fresh(KeysIn(f, p, b), index, KeyOf(x, f[x]))
         /\ KeysIn(g, p, b) = FreshKeys(KeysIn(f, p, b), index)
         /\ \A q \in Blocks \ {p} : KeysIn(g, q, b) = KeysIn(f, q, b)
<1> DEFINE keys == KeysIn(f, p, b)
<1>1. ASSUME NEW x \in Blocks \ {b}
      PROVE  /\ g[x].parent = f[x].parent /\ g[x].deleted = f[x].deleted
             /\ ~IsSibling(f, p, x) => g[x] = f[x]
             /\ IsSibling(f, p, x) =>
                  KeyOf(x, g[x]) = Fresh(keys, index, KeyOf(x, f[x]))
  <2> HIDE DEF keys
  <2>1. PICK r : r = f[x]
    OBVIOUS
  <2>2. r \in [parent : Blocks \cup {None}, position : Positions, kind : Kinds,
               fields : SUBSET Fields, deleted : BOOLEAN]
    BY <2>1 DEF Content, ContentWith
  <2>3. \A n : /\ [r EXCEPT !.position = n].parent = r.parent
               /\ [r EXCEPT !.position = n].deleted = r.deleted
               /\ [r EXCEPT !.position = n].position = n
    BY <2>2
  <2>4. CASE IsSibling(f, p, x)
    <3>1. g[x] = [r EXCEPT !.position = FreshRank(keys, index, KeyOf(x, r))]
      BY <2>1, <2>4 DEF Reranked, RerankedSibling, keys
    <3>2. KeyOf(x, r).child = x
      BY DEF KeyOf
    <3> QED BY <2>1, <2>3, <2>4, <3>1, <3>2 DEF KeyOf, Fresh
  <2>5. CASE ~IsSibling(f, p, x)
    BY <2>5 DEF Reranked
  <2> QED BY <2>4, <2>5
<1>2. \A q : \A x \in Blocks \ {b} : IsSibling(g, q, x) <=> IsSibling(f, q, x)
  BY <1>1 DEF IsSibling
<1>3. ASSUME NEW q \in Blocks \ {p}
      PROVE  KeysIn(g, q, b) = KeysIn(f, q, b)
  <2>1. \A x \in Blocks \ {b} : IsSibling(f, q, x) => g[x] = f[x]
    BY <1>1, <1>3 DEF IsSibling
  <2> QED BY <1>2, <2>1 DEF KeysIn
<1>4. KeysIn(g, p, b) = FreshKeys(keys, index)
  <2>1. \A k : k \in KeysIn(g, p, b) <=>
          \E x \in Blocks \ {b} : IsSibling(f, p, x) /\ k = KeyOf(x, g[x])
    BY <1>2 DEF KeysIn
  <2>2. \A k : k \in KeysIn(g, p, b) <=>
          \E x \in Blocks \ {b} :
            IsSibling(f, p, x) /\ k = Fresh(keys, index, KeyOf(x, f[x]))
    BY <1>1, <2>1
  <2>3. \A j : j \in keys <=>
          \E x \in Blocks \ {b} : IsSibling(f, p, x) /\ j = KeyOf(x, f[x])
    BY DEF KeysIn
  <2>4. \A k : k \in FreshKeys(keys, index) <=>
          \E j \in keys : k = Fresh(keys, index, j)
    BY DEF FreshKeys
  <2> HIDE DEF keys
  <2> QED BY <2>2, <2>3, <2>4
<1> QED BY <1>1, <1>3, <1>4

\* Replacing one block keeps the keys of all the others.
LEMMA ReplacedKeys ==
  ASSUME NEW f, NEW g, NEW b \in Blocks, NEW c, Replaced(f, g, b, c)
  PROVE  \A q : KeysIn(g, q, b) = KeysIn(f, q, b)
  BY DEF Replaced, KeysIn, IsSibling

\* Staging an edit: the plan gains it, under the revision the caller named.
LEMMA StageStep ==
  ASSUME TypeOK, NEW edits, DOMAIN edits \in SUBSET Blocks,
         edits \in [DOMAIN edits -> EditRow],
         NEW b \in Blocks, NEW expected \in Revisions, NEW c \in Content,
         pending' = Staged(edits, b, expected, c), heads' = heads
  PROVE  /\ DOMAIN pending' \in SUBSET Blocks /\ DOMAIN pending' # {}
         /\ pending' \in [DOMAIN pending' -> EditRow]
         /\ \A x \in DOMAIN pending' : pending'[x].expected =
              IF x = b THEN expected ELSE edits[x].expected
         /\ \A x \in DOMAIN pending' \ {b} : x \in DOMAIN edits
         /\ \A x \in Blocks : PlannedTree'[x] = IF x = b THEN c
                                                ELSE IF x \in DOMAIN edits THEN edits[x].content
                                                ELSE heads[x].content
<1>1. pending' = [x \in DOMAIN edits \cup {b} |->
                    IF x = b THEN [expected |-> expected, content |-> c] ELSE edits[x]]
  BY DEF Staged
<1>2. DOMAIN pending' = DOMAIN edits \cup {b}
  BY <1>1
<1>3. \A x \in DOMAIN edits \cup {b} :
        pending'[x] = IF x = b THEN [expected |-> expected, content |-> c] ELSE edits[x]
  BY <1>1
<1>4. [expected |-> expected, content |-> c] \in EditRow
  BY DEF EditRow
<1>5. pending' \in [DOMAIN pending' -> EditRow]
  BY <1>1, <1>2, <1>4
<1>6. \A x \in Blocks : PlannedTree'[x] = IF x \in DOMAIN pending' THEN pending'[x].content
                                          ELSE heads[x].content
  BY DEF PlannedTree, Planned
<1> QED BY <1>2, <1>3, <1>5, <1>6

\* The contents that clients submit, when their rank is not negative.
LEMMA SubmittedContent ==
  ASSUME NEW c \in Contents
  PROVE  /\ c \in Submitted
         /\ c.position >= 0 => c \in Content
         /\ \A p \in Blocks, n \in Positions :
              /\ [c EXCEPT !.parent = p, !.position = n] \in Content
              /\ [c EXCEPT !.parent = p, !.position = n].parent = p
              /\ [c EXCEPT !.parent = p, !.position = n].position = n
              /\ [c EXCEPT !.parent = p, !.position = n].deleted = c.deleted
<1>1. c \in ContentWith({n \in Int : n =< MaxPos})
  BY EditsAssumption
<1>2. c \in [parent : Blocks \cup {None}, position : {n \in Int : n =< MaxPos}, kind : Kinds,
             fields : SUBSET Fields, deleted : BOOLEAN]
  BY <1>1 DEF ContentWith
<1>3. c.position >= 0 => c.position \in Positions
  BY <1>2, BoundsAssumption DEF Positions
<1>4. c.position >= 0 => c \in Content
  BY <1>2, <1>3 DEF Content, ContentWith
<1>5. ASSUME NEW p \in Blocks, NEW n \in Positions
      PROVE  /\ [c EXCEPT !.parent = p, !.position = n] \in Content
             /\ [c EXCEPT !.parent = p, !.position = n].parent = p
             /\ [c EXCEPT !.parent = p, !.position = n].position = n
             /\ [c EXCEPT !.parent = p, !.position = n].deleted = c.deleted
  BY <1>2 DEF Content, ContentWith
<1> QED BY <1>1, <1>4, <1>5 DEF Submitted

\* The edits that a rebalance leaves: the plan so far, with a fresh rank for
\* every sibling, under the revisions the plan already names.
LEMMA RebalancedEdits ==
  ASSUME TypeOK, PlanTypeOK, PlanIsCurrent, SiblingsArePlanned,
         NEW p \in Blocks, NEW b \in Blocks, NEW keys, keys = SiblingKeys(p, b),
         Cardinality(keys) < MaxSiblings, NEW index \in 0 .. Cardinality(keys),
         NEW edits, edits = Rebalanced(keys, index),
         NEW f, f = PlannedTree
  PROVE  /\ DOMAIN edits \in SUBSET Blocks /\ edits \in [DOMAIN edits -> EditRow]
         /\ \A x \in DOMAIN edits : edits[x].expected = heads[x].tx
         /\ \A x \in Blocks \ {b} :
              (IF x \in DOMAIN edits THEN edits[x].content ELSE heads[x].content)
              = IF IsSibling(f, p, x) THEN RerankedSibling(f, b, p, index, x) ELSE f[x]
<1>1. /\ keys = KeysIn(f, p, b) /\ f \in [Blocks -> Content] /\ DOMAIN pending \in SUBSET Blocks
      /\ pending \in [DOMAIN pending -> EditRow]
      /\ \A x \in DOMAIN pending : pending[x].expected = heads[x].tx
  BY PlannedTreeType DEF SiblingsArePlanned, PlanTypeOK, PlanIsCurrent
<1>2. /\ SiblingSet(keys)
      /\ \A x \in Blocks \ {b} : IsSibling(f, p, x) <=> KeyOf(x, f[x]) \in keys
      /\ \A k \in keys :
           k.child \in Blocks \ {b} /\ IsSibling(f, p, k.child) /\ k = KeyOf(k.child, f[k.child])
  BY <1>1, KeysAreSiblings
<1> DEFINE moved == Moved(keys, index)
           KeyFor(x) == CHOOSE k \in moved : k.child = x
           Ranked(x) == [Planned(x) EXCEPT
                           !.content.position = FreshRank(keys, index, KeyFor(x))]
           ids == {k.child : k \in moved}
<1>3. edits = [x \in DOMAIN pending \cup ids |-> IF x \in ids THEN Ranked(x) ELSE pending[x]]
  BY DEF Rebalanced
<1>4. \A k : k \in moved <=> k \in keys /\ k.position # FreshRank(keys, index, k)
  BY DEF Moved
<1> HIDE DEF moved
<1>5. ASSUME NEW x \in ids
      PROVE  x \in Blocks \ {b} /\ IsSibling(f, p, x) /\ KeyFor(x) = KeyOf(x, f[x])
  <2>1. PICK k \in moved : k.child = x
    OBVIOUS
  <2>2. KeyFor(x) \in moved /\ KeyFor(x).child = x
    BY <2>1
  <2> HIDE DEF KeyFor
  <2>3. KeyFor(x) \in keys
    BY <1>4, <2>2
  <2> QED BY <1>2, <2>2, <2>3
<1>6. ASSUME NEW x \in Blocks
      PROVE  /\ Planned(x) \in EditRow /\ Planned(x).content = f[x]
             /\ Planned(x).expected = heads[x].tx
  BY <1>1, PlannedType DEF PlannedTree, Planned
<1>7. ASSUME NEW x \in ids
      PROVE  /\ Ranked(x) \in EditRow /\ Ranked(x).expected = heads[x].tx
             /\ Ranked(x).content = RerankedSibling(f, b, p, index, x)
  <2>1. PICK r : r = Planned(x)
    OBVIOUS
  <2>2. PICK n : n = FreshRank(keys, index, KeyOf(x, f[x]))
    OBVIOUS
  <2>3. n \in Positions
    <3>1. KeyOf(x, f[x]) \in keys
      BY <1>2, <1>5
    <3>2. FreshRank(keys, index, KeyOf(x, f[x])) \in Positions
      BY <1>2, <3>1, FreshRanks
    <3> QED BY <2>2, <3>2
  <2>4. Ranked(x) = [r EXCEPT !.content.position = n]
    BY <1>5, <2>1, <2>2
  <2> HIDE DEF Ranked, ids
  <2>5. r \in [expected : Revisions, content : Content] /\ r.content = f[x]
        /\ r.expected = heads[x].tx
    BY <1>5, <1>6, <2>1 DEF EditRow
  <2>6. PICK s : s = r.content
    OBVIOUS
  <2>7. s \in [parent : Blocks \cup {None}, position : Positions, kind : Kinds,
               fields : SUBSET Fields, deleted : BOOLEAN]
    BY <2>5, <2>6 DEF Content, ContentWith
  <2>8. [s EXCEPT !.position = n] \in Content
    BY <2>3, <2>7 DEF Content, ContentWith
  <2>9. /\ Ranked(x).content = [s EXCEPT !.position = n] /\ Ranked(x).expected = r.expected
        /\ Ranked(x) = [expected |-> r.expected, content |-> [s EXCEPT !.position = n]]
    BY <2>4, <2>5, <2>6
  <2>10. RerankedSibling(f, b, p, index, x) = [s EXCEPT !.position = n]
    BY <1>1, <2>2, <2>5, <2>6 DEF RerankedSibling
  <2> QED BY <2>5, <2>8, <2>9, <2>10 DEF EditRow
<1>8. DOMAIN edits = DOMAIN pending \cup ids
      /\ \A x \in DOMAIN edits : edits[x] = IF x \in ids THEN Ranked(x) ELSE pending[x]
  <2> HIDE DEF ids, Ranked
  <2> QED BY <1>3
<1>9. ASSUME NEW x \in Blocks \ {b}, x \notin ids, IsSibling(f, p, x)
      PROVE  RerankedSibling(f, b, p, index, x) = f[x]
  <2>1. KeyOf(x, f[x]) \in keys /\ KeyOf(x, f[x]).child = x
        /\ KeyOf(x, f[x]).position = f[x].position
    BY <1>2, <1>9 DEF KeyOf
  <2>2. f[x].position = FreshRank(keys, index, KeyOf(x, f[x]))
    BY <1>4, <1>9, <2>1
  <2>3. f[x] \in [parent : Blocks \cup {None}, position : Positions, kind : Kinds,
                  fields : SUBSET Fields, deleted : BOOLEAN]
    BY <1>1 DEF Content, ContentWith
  <2>4. [f[x] EXCEPT !.position = f[x].position] = f[x]
    BY <2>3
  <2> QED BY <1>1, <2>2, <2>4 DEF RerankedSibling
<1> HIDE DEF ids, Ranked
<1>10. \A x \in DOMAIN edits : edits[x] \in EditRow /\ edits[x].expected = heads[x].tx
  BY <1>1, <1>7, <1>8
<1>11. edits \in [DOMAIN edits -> EditRow]
  <2>1. edits = [x \in DOMAIN edits |-> edits[x]]
    BY <1>3, <1>8
  <2> QED BY <1>10, <2>1
<1>12. \A x \in ids : x \in Blocks
  BY <1>5
<1>13. ASSUME NEW x \in Blocks \ {b}
       PROVE  (IF x \in DOMAIN edits THEN edits[x].content ELSE heads[x].content)
              = IF IsSibling(f, p, x) THEN RerankedSibling(f, b, p, index, x) ELSE f[x]
  <2>1. CASE x \in ids
    BY <1>5, <1>7, <1>8, <2>1
  <2>2. CASE x \notin ids
    <3>1. f[x] = IF x \in DOMAIN pending THEN pending[x].content ELSE heads[x].content
      BY DEF PlannedTree, Planned
    <3> QED BY <1>8, <1>9, <2>2, <3>1
  <2> QED BY <2>1, <2>2
<1> QED BY <1>1, <1>8, <1>10, <1>11, <1>12, <1>13

\* What a placement leaves in a planned tree: the block is below p, between the
\* neighbours that were asked for.
IsPlaced(g, b, at, p, anchors) ==
  LET own  == KeyOf(b, g[b])
      keys == KeysIn(g, p, b)
  IN  /\ p \in Blocks
      /\ g[b].parent = p /\ ~g[b].deleted /\ g[b].position \in Positions
      /\ LeftIn(keys, at, anchors) = PrevOf(keys, {own})
      /\ RightIn(keys, at, anchors) = NextOf(keys, {own})

\* The anchor of a placement that the planner accepts is one of the siblings.
LEMMA AnchorIsSibling ==
  ASSUME TypeOK, PlanTypeOK, SiblingsArePlanned, NEW b \in Blocks,
         NEW place \in EndPlacements \cup AnchorPlacements,
         place \in AnchorPlacements => ValidAnchor(b, place),
         NEW f, f = PlannedTree
  PROVE  /\ ParentOf(place) \in Blocks
         /\ \/ place \in EndPlacements /\ place.at \in {"First", "Last"}
               /\ AnchorKeys(place) = {} /\ ParentOf(place) = place.parent
            \/ /\ place \notin EndPlacements /\ place.at \in {"Before", "After"}
               /\ place.anchor \in Blocks \ {b}
               /\ IsSibling(f, ParentOf(place), place.anchor)
               /\ ParentOf(place) = f[place.anchor].parent
               /\ AnchorKeys(place) = {KeyOf(place.anchor, f[place.anchor])}
<1>1. CASE place \in EndPlacements
  <2>1. place.at \in {"First", "Last"} /\ place.parent \in Blocks
    BY <1>1 DEF EndPlacements
  <2> QED BY <1>1, <2>1 DEF AnchorKeys, ParentOf
<1>2. CASE place \in AnchorPlacements
  <2>1. place.at \in {"Before", "After"} /\ place.anchor \in Blocks
    BY <1>2 DEF AnchorPlacements
  <2>2. place \notin EndPlacements
    BY <2>1 DEF EndPlacements
  <2>3. Planned(place.anchor).content = f[place.anchor]
    BY <2>1 DEF PlannedTree
  <2>4. place.anchor # b /\ ~f[place.anchor].deleted /\ f[place.anchor].parent # None
    BY <1>2, <2>3 DEF ValidAnchor
  <2>5. f[place.anchor].parent \in Blocks \cup {None}
    BY <2>1, PlannedTreeType DEF Content, ContentWith
  <2> QED BY <2>1, <2>2, <2>3, <2>4, <2>5 DEF AnchorKeys, ParentOf, IsSibling
<1> QED BY <1>1, <1>2

\* The index, the heads and the rules of the store do not change while a plan grows.
PlanGrows(b, place) ==
  /\ UNCHANGED vars /\ planning' = planning /\ planning /\ ops' = ops + 1
  /\ asked' = <<b, place>>

\* Placing a block puts it where it was asked to be, and every other block keeps
\* its siblings, in their order.
LEMMA PlaceStep ==
  ASSUME TypeOK, PlanTypeOK, PlanIsCurrent, SiblingsArePlanned,
         NEW b \in Blocks, NEW expected \in Revisions, NEW content \in Contents,
         NEW place \in EndPlacements \cup AnchorPlacements, Place(b, expected, content, place),
         NEW f, f = PlannedTree, NEW g, g = PlannedTree'
  PROVE  /\ PlanGrows(b, place)
         /\ DOMAIN pending' \in SUBSET Blocks /\ DOMAIN pending' # {}
         /\ pending' \in [DOMAIN pending' -> EditRow]
         /\ \A x \in DOMAIN pending' : pending'[x].expected = heads[x].tx
         /\ \E c : \/ Replaced(f, g, b, c)
                   \/ \E p \in Blocks : \E index \in 0 .. Cardinality(KeysIn(f, p, b)) :
                        /\ Cardinality(KeysIn(f, p, b)) < MaxSiblings
                        /\ Reranked(f, g, b, c, p, index)
         /\ IF place \in EndPlacements THEN IsPlaced(g, b, place.at, place.parent, {})
            ELSE IsPlaced(g, b, place.at, g[place.anchor].parent,
                          {KeyOf(place.anchor, g[place.anchor])})
<1> DEFINE p == ParentOf(place)
           keys == SiblingKeys(p, b)
           anchors == AnchorKeys(place)
           a == KeyOf(place.anchor, f[place.anchor])
           index == InsertIndex(keys, place)
           At(pos) == [content EXCEPT !.parent = p, !.position = pos]
           rank == FreeRank(LeftOf(keys, place), RightOf(keys, place))
<1>1. /\ PlanGrows(b, place) /\ ~content.deleted
      /\ place \in AnchorPlacements => ValidAnchor(b, place)
      /\ \/ \E pos \in rank : Stage(pending, b, expected, At(pos))
         \/ /\ rank = {}
            /\ Cardinality(keys) < MaxSiblings
            /\ Stage(Rebalanced(keys, index), b, expected, At((index + 1) * Gap))
  BY DEF Place, PlanGrows, Planning
<1>2. p \in Blocks
  BY <1>1, AnchorIsSibling
<1>3. \/ place \in EndPlacements /\ place.at \in {"First", "Last"}
         /\ anchors = {} /\ p = place.parent
      \/ /\ place \notin EndPlacements /\ place.at \in {"Before", "After"}
         /\ place.anchor \in Blocks \ {b} /\ IsSibling(f, p, place.anchor)
         /\ p = f[place.anchor].parent /\ anchors = {a}
  BY <1>1, AnchorIsSibling
<1>4. /\ f \in [Blocks -> Content] /\ keys = KeysIn(f, p, b) /\ heads' = heads
      /\ DOMAIN pending \in SUBSET Blocks /\ pending \in [DOMAIN pending -> EditRow]
      /\ \A x \in DOMAIN pending : pending[x].expected = heads[x].tx
      /\ \A x \in Blocks : f[x] = IF x \in DOMAIN pending THEN pending[x].content
                                  ELSE heads[x].content
  BY <1>1, <1>2, PlannedTreeType
     DEF SiblingsArePlanned, PlanTypeOK, PlanIsCurrent, PlanGrows, vars, PlannedTree, Planned
<1> HIDE DEF p
<1>5. SiblingSet(keys) /\ (\A x \in Blocks \ {b} : IsSibling(f, p, x) => KeyOf(x, f[x]) \in keys)
  BY <1>4, KeysAreSiblings
<1>6. Anchored(keys, place.at, anchors, a)
  BY <1>3, <1>5 DEF Anchored
<1>7. Planned(b).expected = heads[b].tx
  BY <1>4 DEF Planned
<1>8. \A pos \in Positions : /\ At(pos) \in Content /\ At(pos).parent = p
                             /\ At(pos).position = pos /\ ~At(pos).deleted
  <2>1. \A pos \in Positions :
          /\ [content EXCEPT !.parent = p, !.position = pos] \in Content
          /\ [content EXCEPT !.parent = p, !.position = pos].parent = p
          /\ [content EXCEPT !.parent = p, !.position = pos].position = pos
          /\ [content EXCEPT !.parent = p, !.position = pos].deleted = content.deleted
    BY <1>2, SubmittedContent
  <2> QED BY <1>1, <2>1
<1> HIDE DEF keys, anchors, a, At
<1>9. \A edits, c : Stage(edits, b, expected, c) =>
        expected = heads[b].tx /\ pending' = Staged(edits, b, expected, c)
  BY <1>7 DEF Stage
<1>10. CASE \E pos \in rank : Stage(pending, b, expected, At(pos))
  <2>1. PICK pos \in rank : Stage(pending, b, expected, At(pos))
    BY <1>10
  <2>2. /\ LeftOf(keys, place) = LeftIn(keys, place.at, anchors)
        /\ RightOf(keys, place) = RightIn(keys, place.at, anchors)
    BY DEF LeftOf, RightOf, LeftIn, RightIn, anchors
  <2>3. /\ LeftIn(keys, place.at, anchors) = NearestBelow(keys, place.at, a)
        /\ RightIn(keys, place.at, anchors) = NearestAbove(keys, place.at, a)
    BY <1>5, <1>6, Sides
  <2>4. pos \in FreeRank(NearestBelow(keys, place.at, a), NearestAbove(keys, place.at, a))
    BY <2>1, <2>2, <2>3
  <2> DEFINE own == [position |-> pos, child |-> b]
  <2>5. /\ pos \in Positions
        /\ \A k \in keys : /\ Below(place.at, a, k) <=> Precedes(k, own)
                           /\ ~Below(place.at, a, k) <=> Precedes(own, k)
    BY <1>5, <2>4, FreeRankCuts
  <2> HIDE DEF own
  <2>6. /\ LeftIn(keys, place.at, anchors) = PrevOf(keys, {own})
        /\ RightIn(keys, place.at, anchors) = NextOf(keys, {own})
    BY <2>3, <2>5, NeighboursOfCut
  <2>7. PICK c \in Content : c = At(pos)
    BY <1>8, <2>5
  <2>8. c.parent = p /\ c.position = pos /\ ~c.deleted /\ KeyOf(b, c) = own
    BY <1>8, <2>5, <2>7 DEF KeyOf, own
  <2>9. expected = heads[b].tx /\ pending' = Staged(pending, b, expected, c)
    BY <1>9, <2>1, <2>7
  <2>10. /\ DOMAIN pending' \in SUBSET Blocks /\ DOMAIN pending' # {}
         /\ pending' \in [DOMAIN pending' -> EditRow]
         /\ \A x \in DOMAIN pending' : pending'[x].expected =
              IF x = b THEN expected ELSE pending[x].expected
         /\ \A x \in DOMAIN pending' \ {b} : x \in DOMAIN pending
         /\ \A x \in Blocks : g[x] = IF x = b THEN c
                                     ELSE IF x \in DOMAIN pending THEN pending[x].content
                                     ELSE heads[x].content
    BY <1>4, <2>9, StageStep
  <2>11. Replaced(f, g, b, c)
    BY <1>4, <2>10 DEF Replaced
  <2>12. KeysIn(g, p, b) = keys
    BY <1>4, <2>11, ReplacedKeys
  <2>13. g[b] = c /\ (place \notin EndPlacements => g[place.anchor] = f[place.anchor])
    BY <1>3, <2>11 DEF Replaced
  <2>14. IF place \in EndPlacements THEN IsPlaced(g, b, place.at, place.parent, {})
         ELSE IsPlaced(g, b, place.at, g[place.anchor].parent,
                       {KeyOf(place.anchor, g[place.anchor])})
    <3>1. IsPlaced(g, b, place.at, p, anchors)
      BY <1>2, <2>5, <2>6, <2>8, <2>12, <2>13 DEF IsPlaced
    <3> QED BY <1>3, <2>13, <3>1 DEF a
  <2>15. \A x \in DOMAIN pending' : pending'[x].expected = heads[x].tx
    BY <1>4, <2>9, <2>10
  <2> QED BY <1>1, <2>10, <2>11, <2>14, <2>15
<1>11. CASE /\ Cardinality(keys) < MaxSiblings
            /\ Stage(Rebalanced(keys, index), b, expected, At((index + 1) * Gap))
  <2>1. index \in 0 .. Cardinality(keys)
    BY <1>5, <1>6, IndexIsCut DEF anchors
  <2> DEFINE pos == (index + 1) * Gap
             own == [position |-> pos, child |-> b]
             fresh == FreshKeys(keys, index)
             a2 == Fresh(keys, index, a)
  <2>2. /\ pos \in Positions /\ SiblingSet(fresh)
        /\ \A k \in fresh : /\ Below(place.at, a2, k) <=> Precedes(k, own)
                            /\ ~Below(place.at, a2, k) <=> Precedes(own, k)
    BY <1>5, <1>6, <1>11, FreshKeysCut DEF anchors
  <2>3. PICK c \in Content : c = At(pos)
    BY <1>8, <2>2
  <2>4. c.parent = p /\ c.position = pos /\ ~c.deleted /\ KeyOf(b, c) = own
    BY <1>8, <2>2, <2>3 DEF KeyOf
  <2>5. PICK edits : edits = Rebalanced(keys, index)
    OBVIOUS
  <2>6. expected = heads[b].tx /\ pending' = Staged(edits, b, expected, c)
    BY <1>9, <1>11, <2>3, <2>5
  <2> HIDE DEF index, pos, own, fresh, a2
  <2>7. /\ DOMAIN edits \in SUBSET Blocks /\ edits \in [DOMAIN edits -> EditRow]
        /\ \A x \in DOMAIN edits : edits[x].expected = heads[x].tx
        /\ \A x \in Blocks \ {b} :
             (IF x \in DOMAIN edits THEN edits[x].content ELSE heads[x].content)
             = IF IsSibling(f, p, x) THEN RerankedSibling(f, b, p, index, x) ELSE f[x]
    BY <1>2, <1>11, <2>1, <2>5, RebalancedEdits DEF keys
  <2>8. /\ DOMAIN pending' \in SUBSET Blocks /\ DOMAIN pending' # {}
        /\ pending' \in [DOMAIN pending' -> EditRow]
        /\ \A x \in DOMAIN pending' : pending'[x].expected =
             IF x = b THEN expected ELSE edits[x].expected
        /\ \A x \in DOMAIN pending' \ {b} : x \in DOMAIN edits
        /\ \A x \in Blocks : g[x] = IF x = b THEN c
                                    ELSE IF x \in DOMAIN edits THEN edits[x].content
                                    ELSE heads[x].content
    BY <1>4, <2>6, <2>7, StageStep
  <2>9. Reranked(f, g, b, c, p, index)
    BY <2>7, <2>8 DEF Reranked
  <2>10. /\ \A x \in Blocks \ {b} : g[x].parent = f[x].parent
         /\ \A x \in Blocks \ {b} : IsSibling(f, p, x) =>
              KeyOf(x, g[x]) = Fresh(keys, index, KeyOf(x, f[x]))
         /\ KeysIn(g, p, b) = fresh
    <3>1. /\ \A x \in Blocks \ {b} : g[x].parent = f[x].parent /\ g[x].deleted = f[x].deleted
          /\ \A x \in Blocks \ {b} : IsSibling(f, p, x) =>
               KeyOf(x, g[x]) = Fresh(KeysIn(f, p, b), index, KeyOf(x, f[x]))
          /\ KeysIn(g, p, b) = FreshKeys(KeysIn(f, p, b), index)
      <4>1. f \in [Blocks -> Content]
        BY <1>4
      <4> QED BY <2>9, <4>1, RerankedKeys
    <3> QED BY <1>4, <3>1 DEF fresh
  <2>11. g[b] = c
    BY <2>9 DEF Reranked
  <2>12. \A x \in DOMAIN pending' : pending'[x].expected = heads[x].tx
    BY <2>6, <2>7, <2>8
  <2>13. ASSUME NEW as, Anchored(fresh, place.at, as, a2)
         PROVE  IsPlaced(g, b, place.at, p, as)
    <3>1. /\ LeftIn(fresh, place.at, as) = NearestBelow(fresh, place.at, a2)
          /\ RightIn(fresh, place.at, as) = NearestAbove(fresh, place.at, a2)
      BY <2>2, <2>13, Sides
    <3>2. /\ NearestBelow(fresh, place.at, a2) = PrevOf(fresh, {own})
          /\ NearestAbove(fresh, place.at, a2) = NextOf(fresh, {own})
      BY <2>2, NeighboursOfCut
    <3> QED BY <1>2, <2>2, <2>4, <2>10, <2>11, <3>1, <3>2 DEF IsPlaced
  <2>14. IF place \in EndPlacements THEN IsPlaced(g, b, place.at, place.parent, {})
         ELSE IsPlaced(g, b, place.at, g[place.anchor].parent,
                       {KeyOf(place.anchor, g[place.anchor])})
    <3>1. CASE place \in EndPlacements
      <4>1. place.at \in {"First", "Last"} /\ p = place.parent
        BY <1>3, <3>1
      <4>2. Anchored(fresh, place.at, {}, a2)
        BY <4>1 DEF Anchored
      <4> QED BY <2>13, <3>1, <4>1, <4>2
    <3>2. CASE place \notin EndPlacements
      <4>1. /\ place.at \in {"Before", "After"} /\ place.anchor \in Blocks \ {b}
            /\ IsSibling(f, p, place.anchor) /\ p = f[place.anchor].parent
        BY <1>3, <3>2
      <4>2. KeyOf(place.anchor, g[place.anchor]) = a2 /\ g[place.anchor].parent = p
        BY <2>10, <4>1 DEF a, a2
      <4>3. a \in keys /\ a2 \in fresh
        BY <1>5, <4>1 DEF a, a2, fresh, FreshKeys
      <4>4. Anchored(fresh, place.at, {KeyOf(place.anchor, g[place.anchor])}, a2)
        BY <4>1, <4>2, <4>3 DEF Anchored
      <4> QED BY <2>13, <3>2, <4>2, <4>4
    <3> QED BY <3>1, <3>2
  <2>15. \E q \in Blocks : \E i \in 0 .. Cardinality(KeysIn(f, q, b)) :
           /\ Cardinality(KeysIn(f, q, b)) < MaxSiblings
           /\ Reranked(f, g, b, c, q, i)
    BY <1>2, <1>4, <1>11, <2>1, <2>9
  <2> QED BY <1>1, <2>8, <2>12, <2>14, <2>15
<1> QED BY <1>1, <1>10, <1>11

-----------------------------------------------------------------------------
(***************************************************************************)
(* The invariant of the planner.                                           *)
(***************************************************************************)
PInv == IInv /\ PlanTypeOK /\ PlanIsCurrent /\ PlacedWhereAsked

\* The same children in the same order.
SameOrderIn(old, new) ==
  /\ {k.child : k \in old} = {k.child : k \in new}
  /\ \A j, k \in old, m, n \in new :
       j.child = m.child /\ k.child = n.child =>
         (Precedes(j, k) <=> Precedes(m, n))

\* One replaced block, or fresh ranks below one parent, keep every order.
LEMMA OrderIsKept ==
  ASSUME NEW f \in [Blocks -> Content], NEW g, NEW b \in Blocks, NEW c,
         \/ Replaced(f, g, b, c)
         \/ \E p \in Blocks : \E index \in 0 .. Cardinality(KeysIn(f, p, b)) :
              /\ Cardinality(KeysIn(f, p, b)) < MaxSiblings
              /\ Reranked(f, g, b, c, p, index),
         NEW q \in Blocks
  PROVE  SameOrderIn(KeysIn(f, q, b), KeysIn(g, q, b))
<1> DEFINE old == KeysIn(f, q, b)
           new == KeysIn(g, q, b)
<1>1. SiblingSet(old) /\ \A j, k \in old : j.child = k.child => j = k
  BY KeysAreSiblings DEF SiblingSet
<1>2. CASE new = old
  BY <1>1, <1>2 DEF SameOrderIn
<1>3. ASSUME NEW index \in 0 .. Cardinality(old), Cardinality(old) < MaxSiblings,
             Reranked(f, g, b, c, q, index)
      PROVE  SameOrderIn(old, new)
  <2> DEFINE F(k) == Fresh(old, index, k)
  <2>1. new = FreshKeys(old, index)
    <3>1. KeysIn(g, q, b) = FreshKeys(KeysIn(f, q, b), index)
      <4>1. Reranked(f, g, b, c, q, index)
        BY <1>3
      <4> HIDE DEF old, new, F
      <4> QED BY <4>1, RerankedKeys
    <3> QED BY <3>1
  <2>2. /\ \A k \in old : F(k).child = k.child
        /\ \A j, k \in old : Precedes(F(j), F(k)) <=> Precedes(j, k)
    <3> HIDE DEF old
    <3> QED BY <1>1, <1>3, FreshKeysOrder
  <2>3. \A m : m \in new <=> \E k \in old : m = F(k)
    BY <2>1 DEF FreshKeys
  <2> HIDE DEF old, new, F
  <2>4. \A m \in new, j \in old : j.child = m.child => m = F(j)
    BY <1>1, <2>2, <2>3
  <2>5. \A x : (\E k \in old : x = k.child) <=> (\E m \in new : x = m.child)
    BY <2>2, <2>3
  <2>6. {k.child : k \in old} = {k.child : k \in new}
    BY <2>5
  <2>7. \A j, k \in old, m, n \in new :
          j.child = m.child /\ k.child = n.child => (Precedes(j, k) <=> Precedes(m, n))
    BY <2>2, <2>4
  <2> QED BY <2>6, <2>7 DEF SameOrderIn
<1>4. CASE Replaced(f, g, b, c)
  <2>1. new = old
    BY <1>4, ReplacedKeys
  <2> QED BY <1>2, <2>1
<1>5. CASE \E p \in Blocks : \E index \in 0 .. Cardinality(KeysIn(f, p, b)) :
             /\ Cardinality(KeysIn(f, p, b)) < MaxSiblings
             /\ Reranked(f, g, b, c, p, index)
  <2>1. PICK p \in Blocks, index \in Int :
          /\ index \in 0 .. Cardinality(KeysIn(f, p, b))
          /\ Cardinality(KeysIn(f, p, b)) < MaxSiblings
          /\ Reranked(f, g, b, c, p, index)
    BY <1>5
  <2>2. CASE p = q
    BY <1>3, <2>1, <2>2
  <2>3. CASE p # q
    <3>1. \A r \in Blocks \ {p} : KeysIn(g, r, b) = KeysIn(f, r, b)
      <4> HIDE DEF old, new
      <4> QED BY <2>1, RerankedKeys
    <3>2. new = old
      BY <2>3, <3>1
    <3> QED BY <1>2, <3>2
  <2> QED BY <2>2, <2>3
<1> QED BY <1>4, <1>5

\* The siblings of the plan after a step that keeps the store.
LEMMA SiblingsAfter ==
  ASSUME IInv, UNCHANGED vars, PlanTypeOK'
  PROVE  SiblingsArePlanned'
<1>1. IInv'
  BY StutterInvariant
<1>2. TypeOK' /\ IndexMatchesHeads'
  BY <1>1 DEF IInv
<1> QED BY <1>2, SiblingsOfPlan, PTL

\* An operation that stages edits keeps the types and the revisions of the plan.
LEMMA GrowsStep ==
  ASSUME PlanTypeOK, NEW b, NEW place, PlanGrows(b, place),
         DOMAIN pending' \in SUBSET Blocks, DOMAIN pending' # {},
         pending' \in [DOMAIN pending' -> EditRow],
         \A x \in DOMAIN pending' : pending'[x].expected = heads[x].tx
  PROVE  PlanTypeOK' /\ PlanIsCurrent'
<1>1. planning' = TRUE /\ ops' \in Nat /\ heads' = heads
  BY DEF PlanTypeOK, PlanGrows, vars
<1> QED BY <1>1 DEF PlanTypeOK, PlanIsCurrent

\* A Put replaces one block of the plan.
LEMMA PutStep ==
  ASSUME TypeOK, PlanTypeOK, PlanIsCurrent,
         NEW b \in Blocks, NEW expected \in Revisions, NEW content \in Contents,
         Put(b, expected, content), NEW f, f = PlannedTree, NEW g, g = PlannedTree'
  PROVE  /\ PlanGrows(b, NoPlacement)
         /\ DOMAIN pending' \in SUBSET Blocks /\ DOMAIN pending' # {}
         /\ pending' \in [DOMAIN pending' -> EditRow]
         /\ \A x \in DOMAIN pending' : pending'[x].expected = heads[x].tx
         /\ Replaced(f, g, b, content)
<1>1. /\ PlanGrows(b, NoPlacement) /\ content.position >= 0 /\ Planned(b).expected = expected
      /\ pending' = Staged(pending, b, expected, content)
  BY DEF Put, PlanGrows, Planning, Stage
<1>2. content \in Content
  BY <1>1, SubmittedContent
<1>3. /\ heads' = heads /\ DOMAIN pending \in SUBSET Blocks
      /\ pending \in [DOMAIN pending -> EditRow]
      /\ \A x \in DOMAIN pending : pending[x].expected = heads[x].tx
      /\ \A x \in Blocks : f[x] = IF x \in DOMAIN pending THEN pending[x].content
                                  ELSE heads[x].content
  BY <1>1 DEF PlanTypeOK, PlanIsCurrent, PlanGrows, vars, PlannedTree, Planned
<1>4. /\ DOMAIN pending' \in SUBSET Blocks /\ DOMAIN pending' # {}
      /\ pending' \in [DOMAIN pending' -> EditRow]
      /\ \A x \in DOMAIN pending' : pending'[x].expected =
           IF x = b THEN expected ELSE pending[x].expected
      /\ \A x \in DOMAIN pending' \ {b} : x \in DOMAIN pending
      /\ \A x \in Blocks : g[x] = IF x = b THEN content
                                  ELSE IF x \in DOMAIN pending THEN pending[x].content
                                  ELSE heads[x].content
  BY <1>1, <1>2, <1>3, StageStep
<1>5. expected = heads[b].tx
  BY <1>1, <1>3 DEF Planned
<1> QED BY <1>1, <1>3, <1>4, <1>5 DEF Replaced

\* The two operations of a plan.
Operation(b, expected, content) ==
  \/ Put(b, expected, content)
  \/ \E place \in EndPlacements : Place(b, expected, content, place)
  \/ \E place \in AnchorPlacements : Place(b, expected, content, place)

\* An operation writes nothing, keeps the plan typed and current, places its
\* block as asked and leaves the order of the other siblings.
LEMMA OperationStep ==
  ASSUME PInv, NEW b \in Blocks, NEW expected \in Revisions, NEW content \in Contents,
         Operation(b, expected, content)
  PROVE  /\ UNCHANGED vars /\ PlanTypeOK' /\ PlanIsCurrent' /\ PlacedWhereAsked'
         /\ asked'[1] = b /\ \A p \in Blocks : SameOrderBut(b, p)
<1>1. TypeOK /\ PlanTypeOK /\ PlanIsCurrent /\ IndexMatchesHeads
  BY DEF PInv, IInv
<1>2. SiblingsArePlanned
  BY <1>1, SiblingsOfPlan
<1>3. PICK f \in [Blocks -> Content] : f = PlannedTree
  BY <1>1, PlannedTreeType
<1>4. PICK g : g = PlannedTree'
  OBVIOUS
<1>5. ASSUME NEW place, PlanGrows(b, place), PlanTypeOK',
             NEW c,
             \/ Replaced(f, g, b, c)
             \/ \E p \in Blocks : \E index \in 0 .. Cardinality(KeysIn(f, p, b)) :
                  /\ Cardinality(KeysIn(f, p, b)) < MaxSiblings
                  /\ Reranked(f, g, b, c, p, index)
      PROVE  \A p \in Blocks : SameOrderBut(b, p)
  <2>1. SiblingsArePlanned'
    BY <1>5, SiblingsAfter DEF PInv, PlanGrows
  <2>2. ASSUME NEW p \in Blocks
        PROVE  SameOrderBut(b, p)
    <3>1. /\ SiblingKeys(p, b) = KeysIn(f, p, b)
          /\ SiblingKeys(p, b)' = KeysIn(g, p, b)
      BY <1>2, <1>3, <1>4, <2>1 DEF SiblingsArePlanned
    <3>2. SameOrderIn(KeysIn(f, p, b), KeysIn(g, p, b))
      BY <1>5, OrderIsKept
    <3>3. SameOrderIn(SiblingKeys(p, b), SiblingKeys(p, b)')
      BY <3>1, <3>2
    <3> QED BY <3>3 DEF SameOrderIn, SameOrderBut
  <2> QED BY <2>2
<1>6. CASE Put(b, expected, content)
  <2>1. /\ PlanGrows(b, NoPlacement)
        /\ DOMAIN pending' \in SUBSET Blocks /\ DOMAIN pending' # {}
        /\ pending' \in [DOMAIN pending' -> EditRow]
        /\ \A x \in DOMAIN pending' : pending'[x].expected = heads[x].tx
        /\ Replaced(f, g, b, content)
    BY <1>1, <1>3, <1>4, <1>6, PutStep
  <2>2. PlanTypeOK' /\ PlanIsCurrent'
    BY <1>1, <2>1, GrowsStep
  <2>3. UNCHANGED vars /\ asked' = <<b, NoPlacement>>
    BY <2>1 DEF PlanGrows
  <2>4. PlacedWhereAsked'
    BY <2>3 DEF PlacedWhereAsked
  <2>5. \A p \in Blocks : SameOrderBut(b, p)
    BY <1>5, <2>1, <2>2
  <2> QED BY <2>2, <2>3, <2>4, <2>5
<1>7. ASSUME NEW place \in EndPlacements \cup AnchorPlacements,
             Place(b, expected, content, place)
      PROVE  /\ UNCHANGED vars /\ PlanTypeOK' /\ PlanIsCurrent' /\ PlacedWhereAsked'
             /\ asked'[1] = b /\ \A p \in Blocks : SameOrderBut(b, p)
  <2>1. /\ PlanGrows(b, place)
        /\ DOMAIN pending' \in SUBSET Blocks /\ DOMAIN pending' # {}
        /\ pending' \in [DOMAIN pending' -> EditRow]
        /\ \A x \in DOMAIN pending' : pending'[x].expected = heads[x].tx
        /\ \E c : \/ Replaced(f, g, b, c)
                  \/ \E p \in Blocks : \E index \in 0 .. Cardinality(KeysIn(f, p, b)) :
                       /\ Cardinality(KeysIn(f, p, b)) < MaxSiblings
                       /\ Reranked(f, g, b, c, p, index)
        /\ IF place \in EndPlacements THEN IsPlaced(g, b, place.at, place.parent, {})
           ELSE IsPlaced(g, b, place.at, g[place.anchor].parent,
                         {KeyOf(place.anchor, g[place.anchor])})
    BY <1>1, <1>2, <1>3, <1>4, <1>7, PlaceStep
  <2>2. PlanTypeOK' /\ PlanIsCurrent'
    BY <1>1, <2>1, GrowsStep
  <2>3. UNCHANGED vars /\ asked' = <<b, place>>
    BY <2>1 DEF PlanGrows
  <2>4. \A p \in Blocks : SameOrderBut(b, p)
    BY <1>5, <2>1, <2>2
  <2>5. PlacedWhereAsked'
    <3>1. SiblingsArePlanned'
      BY <2>2, <2>3, SiblingsAfter DEF PInv
    <3>2. Planned(b).content' = g[b]
      BY <1>4 DEF PlannedTree
    <3>3. ASSUME NEW p, NEW anchors, ParentOf(place)' = p, AnchorKeys(place)' = anchors,
                 IsPlaced(g, b, place.at, p, anchors)
          PROVE  PlacedWhereAsked'
      <4>1. PICK keys : keys = KeysIn(g, p, b)
        OBVIOUS
      <4>2. p \in Blocks /\ SiblingKeys(p, b)' = keys
        BY <1>4, <3>1, <3>3, <4>1 DEF SiblingsArePlanned, IsPlaced
      <4>3. SiblingKeys(ParentOf(place), b)' = keys
        BY <3>3, <4>2 DEF SiblingKeys
      <4>4. PICK own : own = KeyOf(b, g[b])
        OBVIOUS
      <4>5. /\ g[b].parent = p /\ ~g[b].deleted /\ g[b].position \in Positions
            /\ LeftIn(keys, place.at, anchors) = PrevOf(keys, {own})
            /\ RightIn(keys, place.at, anchors) = NextOf(keys, {own})
        BY <3>3, <4>1, <4>4 DEF IsPlaced
      <4>6. /\ LeftOf(keys, place)' = LeftIn(keys, place.at, anchors)
            /\ RightOf(keys, place)' = RightIn(keys, place.at, anchors)
        BY <3>3 DEF LeftOf, RightOf, LeftIn, RightIn
      <4>7. KeyOf(b, Planned(b).content)' = own
        BY <3>2, <4>4 DEF KeyOf
      <4> QED BY <2>3, <3>2, <3>3, <4>3, <4>5, <4>6, <4>7 DEF PlacedWhereAsked, LeftOf, RightOf
    <3>4. CASE place \in EndPlacements
      <4>1. ParentOf(place)' = place.parent /\ AnchorKeys(place)' = {}
        BY <3>4 DEF ParentOf, AnchorKeys
      <4> QED BY <2>1, <3>3, <3>4, <4>1
    <3>5. CASE place \notin EndPlacements
      <4>1. place \in AnchorPlacements /\ place.anchor \in Blocks
        BY <1>7, <3>5 DEF AnchorPlacements
      <4>2. Planned(place.anchor).content' = g[place.anchor]
        BY <1>4, <4>1 DEF PlannedTree
      <4>3. /\ ParentOf(place)' = g[place.anchor].parent
            /\ AnchorKeys(place)' = {KeyOf(place.anchor, g[place.anchor])}
        BY <3>5, <4>2 DEF ParentOf, AnchorKeys
      <4> QED BY <2>1, <3>3, <3>5, <4>3
    <3> QED BY <3>4, <3>5
  <2> QED BY <2>2, <2>3, <2>4, <2>5
<1> QED BY <1>6, <1>7 DEF Operation

\* The end of a plan leaves no edits and no placement to look at.
LEMMA FinishStep ==
  ASSUME Finish
  PROVE  PlanTypeOK' /\ PlanIsCurrent' /\ PlacedWhereAsked'
<1>1. /\ planning' = FALSE /\ pending' = NoEdits /\ ops' = 0
      /\ asked' = <<None, NoPlacement>>
  BY DEF Finish
<1>2. DOMAIN pending' = {} /\ pending' \in [DOMAIN pending' -> EditRow]
  BY <1>1 DEF NoEdits
<1>3. planning' \in BOOLEAN
  BY <1>1, Zenon
<1>4. ops' \in Nat /\ ~(ops' > 0)
  <2>1. ops' = 0
    BY <1>1
  <2> QED BY <2>1
<1>5. PlanTypeOK'
  BY <1>1, <1>2, <1>3, <1>4 DEF PlanTypeOK
<1>6. PlanIsCurrent'
  BY <1>2 DEF PlanIsCurrent
<1> QED BY <1>1, <1>5, <1>6 DEF PlacedWhereAsked

\* A plan is committed as one batch that the store accepts.
LEMMA CommitPlanStep ==
  ASSUME PInv, CommitPlan
  PROVE  \E S \in SUBSET Blocks : \E contents \in [S -> Content], tx \in Txs :
           AcceptedWrite(S, contents, tx)
<1>1. /\ DOMAIN pending \in SUBSET Blocks /\ DOMAIN pending # {} /\ TypeOK
      /\ pending \in [DOMAIN pending -> EditRow]
  BY DEF PInv, IInv, PlanTypeOK, CommitPlan
<1> DEFINE S == DOMAIN pending
           contents == [b \in S |-> pending[b].content]
<1>2. Commit(contents)
  BY DEF CommitPlan
<1>3. contents \in [S -> Content]
  BY <1>1 DEF EditRow
<1>4. Content \subseteq Submitted
  BY BoundsAssumption DEF Content, Submitted, ContentWith, Positions
<1>5. contents \in [S -> Submitted]
  BY <1>3, <1>4
<1> HIDE DEF S, contents
<1>6. S \in SUBSET Blocks /\ S # {}
  BY <1>1 DEF S
<1>7. PICK tx \in Txs : AcceptedWrite(S, contents, tx)
  BY <1>1, <1>2, <1>5, <1>6, CommitIsAcceptedWrite
<1> QED BY <1>3, <1>6, <1>7

\* Every step keeps the store as it is or writes one accepted batch.
LEMMA StoreSteps ==
  ASSUME PInv, [PlanNext]_planVars
  PROVE  \/ UNCHANGED vars
         \/ \E S \in SUBSET Blocks : \E contents \in [S -> Content], tx \in Txs :
              AcceptedWrite(S, contents, tx)
<1>1. ASSUME NEW b \in Blocks, NEW expected \in Revisions, NEW content \in Contents,
             Operation(b, expected, content)
      PROVE  UNCHANGED vars
  BY <1>1, OperationStep
<1>2. CASE Begin \/ Abort \/ UNCHANGED planVars
  BY <1>2 DEF Begin, Abort, planVars
<1>3. CASE CommitPlan
  BY <1>3, CommitPlanStep
<1>4. CASE ApplyDirect
  BY <1>4, ApplyIsAcceptedWrite DEF ApplyDirect, PInv, IInv
<1> QED BY <1>1, <1>2, <1>3, <1>4 DEF PlanNext, Operation

\* Nobody looks at the plan while another writer commits: it is empty.
LEMMA IdleStep ==
  ASSUME PInv, ~planning, pending' = pending, ops' = ops, asked' = asked,
         planning' \in BOOLEAN
  PROVE  PlanTypeOK' /\ PlanIsCurrent' /\ PlacedWhereAsked'
<1>1. /\ pending' = NoEdits /\ asked' = <<None, NoPlacement>> /\ PlanTypeOK
  BY DEF PInv, PlanTypeOK
<1>2. DOMAIN NoEdits = {}
  BY DEF NoEdits
<1>3. PlanTypeOK'
  BY <1>1 DEF PlanTypeOK
<1>4. PlanIsCurrent'
  BY <1>1, <1>2 DEF PlanIsCurrent
<1> QED BY <1>1, <1>3, <1>4 DEF PlacedWhereAsked

\* A planner starts with an empty plan.
LEMMA PlannerInit == PlanInit => PInv
<1> SUFFICES ASSUME PlanInit
             PROVE  PInv
  OBVIOUS
<1>1. IInv
  BY InitInvariant DEF PlanInit
<1>2. /\ planning = FALSE /\ pending = NoEdits /\ ops = 0 /\ asked = <<None, NoPlacement>>
  BY DEF PlanInit
<1>3. DOMAIN pending = {} /\ pending \in [DOMAIN pending -> EditRow]
  BY <1>2 DEF NoEdits
<1>4. planning \in BOOLEAN
  BY <1>2, Zenon
<1>5. ops \in Nat /\ ~(ops > 0)
  <2>1. ops = 0
    BY <1>2
  <2> QED BY <2>1
<1>6. PlanTypeOK
  BY <1>2, <1>3, <1>4, <1>5 DEF PlanTypeOK
<1>7. PlanIsCurrent
  BY <1>3 DEF PlanIsCurrent
<1>8. PlacedWhereAsked
  BY <1>2 DEF PlacedWhereAsked
<1> QED BY <1>1, <1>6, <1>7, <1>8 DEF PInv

\* The invariant is kept by every operation, commit and direct write.
LEMMA PlannerStep == PInv /\ [PlanNext]_planVars => PInv'
<1> SUFFICES ASSUME PInv, [PlanNext]_planVars
             PROVE  PInv'
  OBVIOUS
<1>1. IInv'
  <2>1. CASE UNCHANGED vars
    BY <2>1, StutterInvariant DEF PInv
  <2>2. CASE \E S \in SUBSET Blocks : \E contents \in [S -> Content], tx \in Txs :
               AcceptedWrite(S, contents, tx)
    BY <2>2, WriteInvariant DEF PInv
  <2> QED BY <2>1, <2>2, StoreSteps
<1>2. ASSUME NEW b \in Blocks, NEW expected \in Revisions, NEW content \in Contents,
             Operation(b, expected, content)
      PROVE  PlanTypeOK' /\ PlanIsCurrent' /\ PlacedWhereAsked'
  BY <1>2, OperationStep
<1>3. ASSUME CommitPlan \/ Abort
      PROVE  PlanTypeOK' /\ PlanIsCurrent' /\ PlacedWhereAsked'
  BY <1>3, FinishStep DEF CommitPlan, Abort
<1>4. ASSUME Begin \/ ApplyDirect
      PROVE  PlanTypeOK' /\ PlanIsCurrent' /\ PlacedWhereAsked'
  <2>1. /\ ~planning /\ pending' = pending /\ ops' = ops /\ asked' = asked
        /\ planning' \in BOOLEAN
    BY <1>4 DEF Begin, ApplyDirect, pvars, PInv, PlanTypeOK
  <2> QED BY <2>1, IdleStep
<1>5. ASSUME UNCHANGED planVars
      PROVE  PlanTypeOK' /\ PlanIsCurrent' /\ PlacedWhereAsked'
  <2>1. /\ UNCHANGED vars /\ planning' = planning /\ pending' = pending /\ ops' = ops
        /\ asked' = asked /\ heads' = heads /\ childIndex' = childIndex
    BY <1>5 DEF planVars, pvars, vars
  <2>2. PlanTypeOK' /\ PlanIsCurrent'
    BY <2>1 DEF PInv, PlanTypeOK, PlanIsCurrent
  <2>3. PlacedWhereAsked'
    <3>1. PlacedWhereAsked
      BY DEF PInv
    <3>2. \A x : Planned(x)' = Planned(x)
      BY <2>1 DEF Planned
    <3>3. \A p, e : SiblingKeys(p, e)' = SiblingKeys(p, e)
      BY <2>1 DEF SiblingKeys
    <3>4. \A place : ParentOf(place)' = ParentOf(place) /\ AnchorKeys(place)' = AnchorKeys(place)
      BY <3>2 DEF ParentOf, AnchorKeys
    <3>5. \A keys, place : /\ LeftOf(keys, place)' = LeftOf(keys, place)
                           /\ RightOf(keys, place)' = RightOf(keys, place)
      BY <3>4 DEF LeftOf, RightOf
    <3> QED BY <2>1, <3>1, <3>2, <3>3, <3>4, <3>5 DEF PlacedWhereAsked
  <2> QED BY <2>2, <2>3
<1>6. PlanTypeOK' /\ PlanIsCurrent' /\ PlacedWhereAsked'
  BY <1>2, <1>3, <1>4, <1>5 DEF PlanNext, Operation
<1> QED BY <1>1, <1>6 DEF PInv

-----------------------------------------------------------------------------
(***************************************************************************)
(* Results.                                                                *)
(***************************************************************************)
\* The inductive invariant holds throughout.
LEMMA PlannerInvariance == PlanSpec => []PInv
  BY PlannerInit, PlannerStep, PTL DEF PlanSpec

\* A store that is written through plans, beside direct writers, keeps its
\* rows typed, its tree well formed and its history readable (transact).
THEOREM PlannerKeepsStore == PlanSpec => [](TypeOK /\ Topology /\ HistoryIsTree)
<1>1. PInv => TypeOK /\ Topology /\ HistoryIsTree
  BY DEF PInv, IInv
<1> QED BY <1>1, PlannerInvariance, PTL

\* The revisions of a plan stay those of the committed heads until it commits:
\* the second revision check of apply_inner never fails.
THEOREM PlansAreCurrent == PlanSpec => []PlanIsCurrent
<1>1. PInv => PlanIsCurrent
  BY DEF PInv
<1> QED BY <1>1, PlannerInvariance, PTL

\* A placed block is next to its anchor, or first, or last, whatever the ranks
\* of its siblings are and whether or not they had to be rebalanced (place).
THEOREM PlacedRight == PlanSpec => []PlacedWhereAsked
<1>1. PInv => PlacedWhereAsked
  BY DEF PInv
<1> QED BY <1>1, PlannerInvariance, PTL

\* An operation of a plan, with its rebalance, moves no block but its own.
THEOREM OneBlockMoves == PlanSpec => OperationsMoveOneBlock
<1>1. PInv /\ [PlanNext]_planVars =>
        [ops' > ops => \A b, p \in Blocks : asked'[1] = b => SameOrderBut(b, p)]_planVars
  <2> SUFFICES ASSUME PInv, PlanNext, ops' > ops, NEW b \in Blocks, NEW p \in Blocks,
                      asked'[1] = b
               PROVE  SameOrderBut(b, p)
    OBVIOUS
  <2>1. ops \in Nat /\ ops' # ops /\ ops' # 0
    BY DEF PInv, PlanTypeOK
  <2>2. ~(Begin \/ CommitPlan \/ Abort \/ ApplyDirect)
    BY <2>1 DEF Begin, CommitPlan, Abort, ApplyDirect, Finish, pvars
  <2>3. PICK x \in Blocks, expected \in Revisions, content \in Contents :
          Operation(x, expected, content)
    BY <2>2 DEF PlanNext, Operation
  <2> QED BY <2>3, OperationStep
<1> QED BY <1>1, PlannerInvariance, PTL DEF PlanSpec, OperationsMoveOneBlock

\* Every step of the planner is a step of the abstract forest or a stutter.
LEMMA PlannerRefinesStep == PInv /\ PInv' /\ [PlanNext]_planVars => [Forest!Next]_Forest!fvars
<1> SUFFICES ASSUME PInv, PInv', [PlanNext]_planVars
             PROVE  Forest!Next \/ UNCHANGED Forest!fvars
  OBVIOUS
<1>1. CASE UNCHANGED vars
  BY <1>1, StutterRefines
<1>2. CASE \E S \in SUBSET Blocks : \E contents \in [S -> Content], tx \in Txs :
             AcceptedWrite(S, contents, tx)
  <2>1. IInv /\ IInv'
    BY DEF PInv
  <2> QED BY <1>2, <2>1, WriteRefines
<1> QED BY <1>1, <1>2, StoreSteps

\* Plans and direct writes together are still one versioned forest: a plan is
\* one transaction of it, or nothing.
THEOREM PlannerRefines == PlanSpec => ImplementsForest
<1>1. PlanInit => Forest!Init
  BY InitRefines DEF PlanInit
<1> QED BY <1>1, PlannerRefinesStep, PlannerInvariance, PTL
        DEF PlanSpec, ImplementsForest, Forest!Spec
=============================================================================
