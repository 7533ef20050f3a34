---------------------------- MODULE TerraDbProofs ----------------------------
(***************************************************************************)
(* Proofs about TerraDb and StoreScans, for any names and hashes, any      *)
(* families and stores of any size, and about TerraFormats. The            *)
(* argument about scans: db holds the encodings of the rows and each       *)
(* decodes to its row (DbInv, an invariant); the order of the bytes        *)
(* numbers the keys of db, and a walk reads, in that order, the keys it    *)
(* keeps; a loop that seeks past what it has read skips no first key of    *)
(* a group. What a scan keeps is then said of the rows.                    *)
(***************************************************************************)
EXTENDS TerraFormats, StoreScans, FiniteSetTheorems, FunctionTheorems,
        SequenceTheorems, WellFoundedInduction, TLAPS

-----------------------------------------------------------------------------
(***************************************************************************)
(* Fields and their tokens.                                                *)
(***************************************************************************)

Kinds == {"slug", "uuid", "i64"}

\* What the layouts have in common.
IsLayout(t) ==
  /\ t \in Seq(Kinds) /\ Len(t) \in 1 .. 4
  /\ \A i \in 1 .. Len(t) : t[i] = "i64" => i = 2 /\ Len(t) = 3 /\ t[1] = "uuid"

\* The layouts of the entries, looked at one by one: an i64 is the position of a
\* child, between two ids (children.rs).
LEMMA LayoutOf ==
  ASSUME NEW f \in Fixed
  PROVE  IsLayout(Layout[f])
<1>1. ASSUME NEW middle \in Seq({"slug"}), Len(middle) \in 0 .. 2
      PROVE  IsLayout(Versioned(middle))
  <2>1. PICK head : head = <<"slug">> \o middle
    OBVIOUS
  <2>2. /\ head \in Seq(Kinds) /\ Len(head) = Len(middle) + 1
        /\ \A i \in 1 .. Len(head) : head[i] = "slug"
    BY <1>1, <2>1 DEF Kinds
  <2>3. PICK t : t = head \o <<"uuid">>
    OBVIOUS
  <2>4. /\ t \in Seq(Kinds) /\ Len(t) = Len(head) + 1
        /\ \A i \in 1 .. Len(t) : t[i] # "i64"
    BY <2>2, <2>3 DEF Kinds
  <2> QED BY <1>1, <2>1, <2>2, <2>3, <2>4 DEF Versioned, IsLayout
<1>2. IsLayout(EntityKey) /\ IsLayout(EmbeddingKey) /\ IsLayout(ManagedKey)
  BY <1>1 DEF EntityKey, EmbeddingKey, ManagedKey
<1>3. IsLayout(BranchKey) /\ IsLayout(TransactionKey) /\ IsLayout(TouchedKey)
  BY DEF IsLayout, Kinds, BranchKey, TransactionKey, TouchedKey
<1>4. IsLayout(EntityChangeKey) /\ IsLayout(TransactionLogKey)
  BY DEF IsLayout, Kinds, EntityChangeKey, TransactionLogKey
<1>5. IsLayout(ChildKey) /\ IsLayout(ChildVersionKey) /\ IsLayout(VersionKey)
  BY DEF IsLayout, Kinds, ChildKey, ChildVersionKey, VersionKey
<1> QED BY <1>2, <1>3, <1>4, <1>5 DEF Fixed, Layout

\* The encoding of an i64 that is not negative is the number itself.
LEMMA Remainder ==
  ASSUME NEW n \in Nat \ {0}, NEW v \in 0 .. n - 1
  PROVE  v % n = v
OBVIOUS

\* What a field may hold is between the ends of its kind, as a number and as a token.
InField(kind, v) ==
  CASE kind = "slug" -> v \in Names
    [] kind = "uuid" -> v \in Uuids
    [] kind = "i64"  -> v \in 0 .. MaxI64

\* A token of a name or an id is strictly between those of Nil and Top, which no
\* entry holds: bounds that leave a field open take in all of its values.
LEMMA TokenOf ==
  ASSUME NEW kind \in Kinds, NEW v, InField(kind, v)
  PROVE  /\ EncodeField(kind, v) \in Nat
         /\ kind # "i64" => EncodeField(kind, v) > EncodeField(kind, Nil(kind))
         /\ kind # "i64" => EncodeField(kind, v) < EncodeField(kind, Top(kind))
         /\ EncodeField(kind, v) =< EncodeField(kind, Top(kind))
         /\ kind # "slug" => EncodeField(kind, v) = v
<1> USE KeySpaceAssumption DEF Kinds
<1>1. CASE kind = "slug"
  <2>1. v \in Names /\ v # MinSlug /\ v # MaxSlug /\ MaxSlug # MinSlug
    BY <1>1 DEF InField, MinSlug
  <2>2. EncodeField(kind, v) = Hash[v] /\ Hash[v] \in 1 .. MaxUuid - 1
    BY <1>1, <2>1 DEF EncodeField, HashOf
  <2>3. EncodeField(kind, Nil(kind)) = 0 /\ EncodeField(kind, Top(kind)) = MaxUuid
    BY <1>1, <2>1 DEF EncodeField, HashOf, Nil, Top, NilUuid
  <2> QED BY <1>1, <2>2, <2>3
<1>2. CASE kind = "uuid"
  BY <1>2 DEF InField, EncodeField, Nil, Top, NilUuid
<1>3. CASE kind = "i64"
  <2>1. v \in 0 .. 2 * Half - 1 /\ MaxI64 \in 0 .. 2 * Half - 1 /\ 2 * Half \in Nat \ {0}
    BY <1>3 DEF InField, MaxI64
  <2>2. EncodeField(kind, v) = v /\ EncodeField(kind, Top(kind)) = MaxI64
    BY <1>3, <2>1, Remainder DEF EncodeField, Top
  <2> QED BY <1>3, <2>1, <2>2 DEF InField
<1> QED BY <1>1, <1>2, <1>3

-----------------------------------------------------------------------------
(***************************************************************************)
(* Finite sets: least and greatest members, and the number of the members  *)
(* up to each in an order.                                                 *)
(***************************************************************************)

\* A set of natural numbers has a least one.
LEMMA LeastNumber ==
  ASSUME NEW S \in SUBSET Nat, S # {}
  PROVE  \E x \in S : \A y \in S : x =< y
<1> DEFINE Less == {ss \in Nat \X Nat : ss[1] < ss[2]}
<1>1. IsWellFoundedOn(Less, Nat)
  BY NatLessThanWellFounded, Zenon DEF OpToRel
<1>2. \A x, y \in Nat : y < x => <<y, x>> \in Less
  OBVIOUS
<1> HIDE DEF Less
<1>3. PICK x \in S : \A y \in S : ~ (<<y, x>> \in Less)
  BY <1>1, WFMin
<1>4. \A y \in S : ~(y < x)
  BY <1>2, <1>3
<1> QED BY <1>4

\* A bounded one has a greatest.
LEMMA GreatestNumber ==
  ASSUME NEW S \in SUBSET Nat, S # {}, NEW n \in Nat, \A x \in S : x =< n
  PROVE  \E x \in S : \A y \in S : y =< x
<1> DEFINE T == {n - x : x \in S}
<1>1. T \in SUBSET Nat
  <2>1. \A x \in S : n - x \in Nat
    OBVIOUS
  <2> QED BY <2>1
<1>0. T # {}
  OBVIOUS
<1> HIDE DEF T
<1>2. PICK m \in T : \A k \in T : m =< k
  BY <1>1, <1>0, LeastNumber
<1>3. PICK x \in S : m = n - x
  BY DEF T
<1>4. ASSUME NEW y \in S
      PROVE  y =< x
  <2>1. n - y \in T
    BY DEF T
  <2>2. n - x =< n - y
    BY <1>2, <1>3, <2>1
  <2> QED BY <2>2
<1> QED BY <1>4

Orders(S, R) ==
  /\ \A x \in S : <<x, x>> \in R
  /\ \A x, y \in S : <<x, y>> \in R \/ <<y, x>> \in R
  /\ \A x, y \in S : <<x, y>> \in R /\ <<y, x>> \in R => x = y
  /\ \A x, y, z \in S : <<x, y>> \in R /\ <<y, z>> \in R => <<x, z>> \in R

\* The rank of a member: how many are not after it.
Rank(S, R) == [x \in S |-> Cardinality({y \in S : <<y, x>> \in R})]

\* The rank of each member in an order: a number of its own, from 1 to the size.
LEMMA RankOf ==
  ASSUME NEW S, IsFiniteSet(S), NEW R, Orders(S, R)
  PROVE  LET rank == Rank(S, R)
             n == Cardinality(S)
         IN  /\ n \in Nat /\ rank \in [S -> 1 .. n]
             /\ \A i \in 1 .. n : \E x \in S : rank[x] = i
             /\ \A x, y \in S : rank[x] =< rank[y] <=> <<x, y>> \in R
<1> DEFINE n == Cardinality(S)
           Down(x) == {y \in S : <<y, x>> \in R}
           rank == [x \in S |-> Cardinality(Down(x))]
<1>1. n \in Nat
  BY FS_CardinalityType
<1>2. ASSUME NEW x \in S
      PROVE  IsFiniteSet(Down(x)) /\ rank[x] \in 1 .. n
  <2>1. IsFiniteSet(Down(x)) /\ Cardinality(Down(x)) =< n
    BY FS_Subset
  <2>2. x \in Down(x)
    BY DEF Orders
  <2>3. Cardinality(Down(x)) \in Nat /\ Cardinality(Down(x)) # 0
    BY <2>1, <2>2, FS_CardinalityType, FS_EmptySet
  <2> QED BY <2>1, <2>3, <1>1
<1>3. ASSUME NEW x \in S, NEW y \in S, x # y, <<x, y>> \in R
      PROVE  rank[x] < rank[y]
  <2>1. Down(x) \subseteq Down(y) /\ y \in Down(y) /\ y \notin Down(x)
    BY <1>3 DEF Orders
  <2>2. Cardinality(Down(x)) =< Cardinality(Down(y)) /\ Cardinality(Down(x)) # Cardinality(Down(y))
    <3>1. IsFiniteSet(Down(y))
      BY <1>2
    <3> HIDE DEF Down
    <3> QED BY <2>1, <3>1, FS_Subset
  <2>3. rank[x] \in Nat /\ rank[y] \in Nat
    <3> HIDE DEF rank, n
    <3>1. rank[x] \in 1 .. n /\ rank[y] \in 1 .. n
      BY <1>2
    <3> QED BY <1>1, <3>1
  <2> QED BY <2>2, <2>3
<1>4. rank \in [S -> 1 .. n]
  BY <1>2
<1>5. \A x, y \in S : rank[x] = rank[y] => x = y
  <2> SUFFICES ASSUME NEW x \in S, NEW y \in S, rank[x] = rank[y], x # y
               PROVE  FALSE
    OBVIOUS
  <2>1. <<x, y>> \in R \/ <<y, x>> \in R
    BY DEF Orders
  <2> HIDE DEF rank
  <2>2. rank[x] < rank[y] \/ rank[y] < rank[x]
    BY <1>3, <2>1
  <2> HIDE DEF n
  <2>3. rank[x] \in 1 .. n /\ rank[y] \in 1 .. n
    BY <1>2
  <2> QED BY <1>1, <2>2, <2>3
<1>6. rank \in Surjection(S, 1 .. n)
  <2>1. IsFiniteSet(1 .. n) /\ Cardinality(1 .. n) = n
    BY <1>1, FS_Interval
  <2> HIDE DEF rank
  <2>2. rank \in Injection(S, 1 .. n)
    BY <1>4, <1>5, Fun_IsInj
  <2> QED BY <2>1, <2>2, FS_Injection
<1>7. \A i \in 1 .. n : \E x \in S : rank[x] = i
  <2> HIDE DEF rank
  <2> QED BY <1>6, Fun_SurjectionProperties
<1>8. ASSUME NEW x \in S, NEW y \in S
      PROVE  rank[x] =< rank[y] <=> <<x, y>> \in R
  <2> HIDE DEF rank, n
  <2>1. rank[x] \in 1 .. n /\ rank[y] \in 1 .. n
    BY <1>4
  <2>2. rank[x] \in Nat /\ rank[y] \in Nat
    BY <1>1, <2>1
  <2>3. CASE x = y
    BY <2>2, <2>3 DEF Orders
  <2>4. CASE x # y /\ <<x, y>> \in R
    BY <1>3, <2>2, <2>4
  <2>5. CASE x # y /\ <<x, y>> \notin R
    <3>1. <<y, x>> \in R
      BY <2>5 DEF Orders
    <3>2. rank[y] < rank[x]
      BY <1>3, <2>5, <3>1
    <3> QED BY <2>2, <2>5, <3>2
  <2> QED BY <2>3, <2>4, <2>5
<1>9. rank = Rank(S, R)
  BY DEF Rank
<1> HIDE DEF rank
<1> QED BY <1>1, <1>4, <1>7, <1>8, <1>9

-----------------------------------------------------------------------------
(***************************************************************************)
(* Keys of a fixed layout are read back from their bytes.                  *)
(***************************************************************************)

\* One sequence after another.
LEMMA JoinOf ==
  ASSUME NEW S, NEW x \in Seq(S), NEW y \in Seq(S), NEW z, z = x \o y
  PROVE  /\ z \in Seq(S) /\ Len(z) = Len(x) + Len(y)
         /\ \A i \in 1 .. Len(x) : z[i] = x[i]
         /\ \A i \in 1 .. Len(y) : z[Len(x) + i] = y[i]
BY ConcatProperties

\* What the assumptions on the constants say of single numbers.
LEMMA NumbersOf ==
  /\ MaxI64 \in Nat /\ MaxSlug \in Nat /\ MaxUuid \in Nat
  /\ \A n \in Names : n \in Nat /\ n > MinSlug /\ n < MaxSlug
  /\ \A u \in Uuids : u \in Nat /\ u > NilUuid /\ u < MaxUuid
  /\ \A n \in Names : Hash[n] \in Nat /\ Hash[n] > NilUuid /\ Hash[n] < MaxUuid
<1>1. MaxI64 \in Nat /\ MaxSlug \in Nat /\ MaxUuid \in Nat
  BY KeySpaceAssumption DEF MaxI64
<1>2. \A n \in 1 .. MaxSlug - 1 : n \in Nat /\ n > MinSlug /\ n < MaxSlug
  BY <1>1 DEF MinSlug
<1>3. \A u \in 1 .. MaxUuid - 1 : u \in Nat /\ u > NilUuid /\ u < MaxUuid
  BY <1>1 DEF NilUuid
<1>4. \A n \in Names : Hash[n] \in 1 .. MaxUuid - 1
  BY KeySpaceAssumption
<1> QED BY <1>1, <1>2, <1>3, <1>4, KeySpaceAssumption

\* The names of a key have places one after the other.
LEMMA PlaceOf ==
  ASSUME NEW f \in Fixed
  PROVE  /\ Cardinality(Slugs(f)) \in Nat
         /\ \A i \in Slugs(f) : Place(f, i) \in 1 .. Cardinality(Slugs(f))
         /\ \A n \in 1 .. Cardinality(Slugs(f)) : \E i \in Slugs(f) : Place(f, i) = n
         /\ \A i, j \in Slugs(f) : Place(f, i) = Place(f, j) => i = j
<1> DEFINE S == Slugs(f)
           R == {x \in S \X S : x[1] =< x[2]}
<1>1. S \subseteq Nat /\ IsFiniteSet(S)
  <2>1. PICK n \in Nat : n = Len(Layout[f])
    BY LayoutOf DEF IsLayout
  <2>2. S \subseteq 1 .. n
    BY <2>1 DEF Slugs
  <2>3. IsFiniteSet(1 .. n)
    BY <2>1, FS_Interval
  <2> QED BY <2>2, <2>3, FS_Subset
<1>2. \A x, y \in S : <<x, y>> \in R <=> x =< y
  OBVIOUS
<1> HIDE DEF R, S
<1>3. Orders(S, R)
  <2>1. \A x \in S : x \in Nat
    BY <1>1
  <2> QED BY <1>2, <2>1 DEF Orders
<1>4. PICK rank : rank = Rank(S, R)
  OBVIOUS
<1>5. /\ Cardinality(S) \in Nat /\ rank \in [S -> 1 .. Cardinality(S)]
      /\ \A i \in 1 .. Cardinality(S) : \E x \in S : rank[x] = i
      /\ \A x, y \in S : rank[x] =< rank[y] <=> <<x, y>> \in R
  <2>1. LET r == Rank(S, R)
            n == Cardinality(S)
        IN  /\ n \in Nat /\ r \in [S -> 1 .. n]
            /\ \A i \in 1 .. n : \E x \in S : r[x] = i
            /\ \A x, y \in S : r[x] =< r[y] <=> <<x, y>> \in R
    BY <1>1, <1>3, RankOf
  <2> QED BY <1>4, <2>1
<1>6. \A i \in S : rank[i] = Place(f, i)
  <2> TAKE i \in S
  <2>1. {y \in S : <<y, i>> \in R} = {j \in S : j =< i}
    BY <1>2
  <2> QED BY <1>4, <2>1 DEF Rank, Place, S
<1>7. \A i, j \in S : rank[i] = rank[j] => i = j
  <2> SUFFICES ASSUME NEW i \in S, NEW j \in S, rank[i] = rank[j]
               PROVE  i = j
    OBVIOUS
  <2>1. rank[i] \in Nat /\ rank[j] \in Nat
    BY <1>5
  <2>2. rank[i] =< rank[j] /\ rank[j] =< rank[i]
    BY <2>1
  <2>3. i =< j /\ j =< i /\ i \in Nat /\ j \in Nat
    BY <1>1, <1>2, <1>5, <2>2
  <2> QED BY <2>3
<1> QED BY <1>5, <1>6, <1>7 DEF S

\* The keys of a family of fixed layout.
IsKey(f, key) ==
  /\ DOMAIN key = 1 .. Len(Layout[f])
  /\ \A i \in 1 .. Len(Layout[f]) : InField(Layout[f][i], key[i])

\* A key of a fixed layout has a field for each of its kinds, and no others.
LEMMA KeyFields ==
  ASSUME NEW f \in Fixed, NEW key \in Keys(f)
  PROVE  /\ IsKey(f, key)
         /\ \A a : key = a <=> /\ DOMAIN key = DOMAIN a
                               /\ a = [i \in DOMAIN a |-> a[i]]
                               /\ \A i \in DOMAIN key : key[i] = a[i]
<1>1. f # "assertions"
  BY DEF Fixed, Layout
<1>2. /\ key \in [1 .. Len(Layout[f]) -> UNION {Values(f, i) : i \in 1 .. Len(Layout[f])}]
      /\ \A i \in 1 .. Len(Layout[f]) : key[i] \in Values(f, i)
  BY <1>1 DEF Keys
<1>3. ASSUME NEW i \in 1 .. Len(Layout[f]), NEW v \in Values(f, i)
      PROVE  InField(Layout[f][i], v)
  <2>1. Layout[f][i] \in Kinds
    BY LayoutOf DEF IsLayout
  <2> QED BY <1>3, <2>1, TerraDbAssumption DEF Values, InField, Kinds
<1> QED BY <1>2, <1>3 DEF IsKey

\* The tokens of a key: its fields, a separator and its names.
LEMMA EncodeOf ==
  ASSUME NEW f \in Fixed, NEW key, IsKey(f, key)
  PROVE  LET size == Len(Layout[f])
             bytes == Encode(f, key)
         IN  /\ bytes \in Seq(Nat) /\ Len(bytes) = size + 1 + Cardinality(Slugs(f))
             /\ \A i \in 1 .. size : bytes[i] = EncodeField(Layout[f][i], key[i])
             /\ bytes[size + 1] = Separator
             /\ \A i \in Slugs(f) : bytes[size + 1 + Place(f, i)] = key[i]
<1>1. PICK size \in 1 .. 4 : size = Len(Layout[f])
  BY LayoutOf DEF IsLayout
<1>2. PICK n \in Nat : n = Cardinality(Slugs(f))
  BY PlaceOf
<1>3. PICK x : x = EncodeFixed(f, key)
  OBVIOUS
<1>4. /\ x \in Seq(Nat) /\ Len(x) = size
      /\ \A i \in 1 .. size : x[i] = EncodeField(Layout[f][i], key[i])
  <2>1. \A i \in 1 .. size : Layout[f][i] \in Kinds /\ InField(Layout[f][i], key[i])
    BY <1>1, LayoutOf DEF IsLayout, IsKey
  <2>2. \A i \in 1 .. size : EncodeField(Layout[f][i], key[i]) \in Nat
    BY <2>1, TokenOf
  <2>3. x = [i \in 1 .. size |-> EncodeField(Layout[f][i], key[i])]
    BY <1>1, <1>3 DEF EncodeFixed
  <2> QED BY <2>2, <2>3
<1>5. PICK y : y = Suffix(f, key)
  OBVIOUS
<1>6. /\ y \in Seq(Nat) /\ Len(y) = n
      /\ \A i \in Slugs(f) : y[Place(f, i)] = key[i]
  <2> DEFINE At(m) == CHOOSE i \in Slugs(f) : Place(f, i) = m
  <2>1. \A m \in 1 .. n : At(m) \in Slugs(f) /\ Place(f, At(m)) = m
    BY <1>2, PlaceOf
  <2>2. \A i \in Slugs(f) : key[i] \in Nat
    <3> TAKE i \in Slugs(f)
    <3>1. key[i] \in Names
      BY DEF Slugs, IsKey, InField
    <3> QED BY <3>1, NumbersOf
  <2>3. y = [m \in 1 .. n |-> key[At(m)]]
    BY <1>2, <1>5 DEF Suffix
  <2> HIDE DEF At
  <2>4. y \in Seq(Nat) /\ Len(y) = n /\ \A m \in 1 .. n : y[m] = key[At(m)]
    BY <2>1, <2>2, <2>3
  <2>5. \A i \in Slugs(f) : Place(f, i) \in 1 .. n /\ At(Place(f, i)) = i
    BY <1>2, <2>1, PlaceOf
  <2> QED BY <2>4, <2>5
<1>7. PICK bytes : bytes = Encode(f, key)
  OBVIOUS
<1>8. bytes = x \o <<Separator>> \o y
  BY <1>3, <1>5, <1>7 DEF Encode
<1>9. PICK z : z = x \o <<Separator>>
  OBVIOUS
<1>10. /\ z \in Seq(Nat) /\ Len(z) = size + 1 /\ z[size + 1] = Separator
       /\ \A i \in 1 .. size : z[i] = x[i]
  <2>1. PICK mark : mark = <<Separator>>
    OBVIOUS
  <2>2. mark \in Seq(Nat) /\ Len(mark) = 1 /\ mark[1] = Separator
    BY <2>1 DEF Separator
  <2>3. z = x \o mark
    BY <1>9, <2>1
  <2>4. /\ z \in Seq(Nat) /\ Len(z) = Len(x) + Len(mark)
        /\ \A i \in 1 .. Len(x) : z[i] = x[i]
        /\ \A i \in 1 .. Len(mark) : z[Len(x) + i] = mark[i]
    <3>1. x \in Seq(Nat) /\ mark \in Seq(Nat)
      BY <1>4, <2>2
    <3> QED BY <2>3, <3>1, JoinOf
  <2>5. 1 \in 1 .. Len(mark)
    BY <2>2
  <2> QED BY <1>1, <1>4, <2>2, <2>4, <2>5
<1>11. /\ bytes \in Seq(Nat) /\ Len(bytes) = size + 1 + n
       /\ \A i \in 1 .. size + 1 : bytes[i] = z[i]
       /\ \A i \in 1 .. n : bytes[size + 1 + i] = y[i]
  <2>1. bytes = z \o y
    BY <1>8, <1>9
  <2>2. /\ bytes \in Seq(Nat) /\ Len(bytes) = Len(z) + Len(y)
        /\ \A i \in 1 .. Len(z) : bytes[i] = z[i]
        /\ \A i \in 1 .. Len(y) : bytes[Len(z) + i] = y[i]
    BY <1>6, <1>10, <2>1, JoinOf
  <2> QED BY <1>1, <1>2, <1>6, <1>10, <2>2
<1>12. \A i \in Slugs(f) : bytes[size + 1 + Place(f, i)] = key[i]
  BY <1>2, <1>6, <1>11, PlaceOf
<1>13. bytes[size + 1] = Separator /\ \A i \in 1 .. size : bytes[i] = EncodeField(Layout[f][i], key[i])
  BY <1>4, <1>10, <1>11
<1> QED BY <1>1, <1>2, <1>7, <1>11, <1>12, <1>13

\* What was encoded is what is decoded.
LEMMA DecodeOf ==
  ASSUME NEW f \in Fixed, NEW key \in Keys(f)
  PROVE  Decode(f, Encode(f, key)) = key
<1>1. PICK size \in 1 .. 4 : size = Len(Layout[f])
  BY LayoutOf DEF IsLayout
<1>2. PICK bytes : bytes = Encode(f, key)
  OBVIOUS
<1>3. IsKey(f, key)
  BY KeyFields
<1>4. /\ \A i \in 1 .. size : bytes[i] = EncodeField(Layout[f][i], key[i])
      /\ \A i \in Slugs(f) : bytes[size + 1 + Place(f, i)] = key[i]
  BY <1>1, <1>2, <1>3, EncodeOf
<1>5. PICK d : d = Decode(f, bytes)
  OBVIOUS
<1>6. d = [i \in 1 .. size |->
            IF i \in Slugs(f) THEN bytes[size + 1 + Place(f, i)]
            ELSE IF Layout[f][i] = "i64" /\ bytes[i] > MaxI64 THEN bytes[i] - 2 * Half
            ELSE bytes[i]]
  BY <1>1, <1>5 DEF Decode
<1>7. ASSUME NEW i \in 1 .. size
      PROVE  d[i] = key[i]
  <2>1. CASE i \in Slugs(f)
    BY <1>4, <1>6, <2>1
  <2>2. CASE i \notin Slugs(f)
    <3>1. Layout[f][i] \in Kinds /\ Layout[f][i] # "slug" /\ InField(Layout[f][i], key[i])
      BY <1>1, <1>3, <2>2, LayoutOf DEF IsLayout, IsKey, Slugs
    <3>2. bytes[i] = key[i]
      BY <1>4, <3>1, TokenOf
    <3>3. ~(Layout[f][i] = "i64" /\ bytes[i] > MaxI64)
      <4>1. CASE Layout[f][i] = "i64"
        <5>1. bytes[i] \in 0 .. MaxI64
          BY <3>1, <3>2, <4>1 DEF InField
        <5> QED BY <5>1, KeySpaceAssumption DEF MaxI64
      <4>2. CASE Layout[f][i] # "i64"
        BY <4>2
      <4> QED BY <4>1, <4>2
    <3> QED BY <1>6, <2>2, <3>2, <3>3
  <2> QED BY <2>1, <2>2
<1>8. DOMAIN key = 1 .. size
  BY <1>1, <1>3 DEF IsKey
<1>9. DOMAIN d = 1 .. size /\ d = [i \in DOMAIN d |-> d[i]]
  BY <1>6
<1>10. key = d
  BY <1>7, <1>8, <1>9, KeyFields
<1> QED BY <1>2, <1>5, <1>10

-----------------------------------------------------------------------------
(***************************************************************************)
(* Keys of assertions are read back from their bytes.                      *)
(***************************************************************************)

\* The keys of assertions.
IsAssertion(key) ==
  /\ key = [branch |-> key.branch, entity |-> key.entity, prop |-> key.prop, tx |-> key.tx]
  /\ key.branch \in Names /\ key.entity \in Names /\ key.tx \in Uuids
  /\ key.prop \in Seq(Names) /\ Len(key.prop) \in Nat \ {0}

\* A key of an assertion is a record of its four fields.
LEMMA AssertionFields ==
  ASSUME NEW key \in Keys("assertions")
  PROVE  IsAssertion(key)
<1>1. key \in [branch : Branches, entity : Owners, prop : Paths, tx : Txs]
  BY DEF Keys
<1>2. key.prop \in Seq(Names) /\ key.prop # <<>>
  BY <1>1, TerraDbAssumption
<1>3. Len(key.prop) \in Nat \ {0}
  BY <1>2
<1> QED BY <1>1, <1>2, <1>3, TerraDbAssumption DEF IsAssertion

\* The bytes of a path: a marker and a hash for each of its segments.
LEMMA PathBytesOf ==
  ASSUME NEW path \in Seq(Names)
  PROVE  /\ PathBytes(path) \in Seq(Nat) /\ Len(PathBytes(path)) = 2 * Len(path)
         /\ \A i \in 1 .. Len(path) : /\ PathBytes(path)[2 * i - 1] = Child
                                      /\ PathBytes(path)[2 * i] = Hash[path[i]]
<1>1. PICK n \in Nat : n = Len(path)
  OBVIOUS
<1>2. PICK x : x = PathBytes(path)
  OBVIOUS
<1>3. x = [i \in 1 .. 2 * n |-> IF i % 2 = 1 THEN Child ELSE Hash[path[i \div 2]]]
  BY <1>1, <1>2 DEF PathBytes
<1>4. \A i \in 1 .. n : Hash[path[i]] \in Nat
  BY <1>1, NumbersOf
<1>5. \A i \in 1 .. 2 * n : i % 2 = 1 \/ i \div 2 \in 1 .. n
  BY <1>1
<1>6. \A i \in 1 .. 2 * n : x[i] \in Nat
  BY <1>3, <1>4, <1>5 DEF Child
<1>7. ASSUME NEW i \in 1 .. n
      PROVE  x[2 * i - 1] = Child /\ x[2 * i] = Hash[path[i]]
  <2>1. 2 * i - 1 \in 1 .. 2 * n /\ (2 * i - 1) % 2 = 1
    OBVIOUS
  <2>2. 2 * i \in 1 .. 2 * n /\ (2 * i) % 2 = 0 /\ (2 * i) \div 2 = i
    OBVIOUS
  <2> QED BY <1>3, <2>1, <2>2
<1>8. x \in Seq(Nat) /\ Len(x) = 2 * n
  BY <1>3, <1>6
<1> QED BY <1>1, <1>2, <1>7, <1>8

AreBytesOf(bytes, key, n) ==
  /\ bytes \in Seq(Nat) /\ Len(bytes) = 3 * n + 8
  /\ bytes[1] = Hash[key.branch] /\ bytes[2] = Hash[key.entity]
  /\ \A i \in 1 .. n : bytes[2 * i + 1] = Child /\ bytes[2 * i + 2] = Hash[key.prop[i]]
  /\ bytes[2 * n + 3] = PathEnd /\ bytes[2 * n + 4] = key.tx
  /\ bytes[2 * n + 5] = Separator
  /\ bytes[2 * n + 6] = key.branch /\ bytes[2 * n + 7] = key.entity
  /\ \A i \in 1 .. n : bytes[2 * n + 8 + i] = key.prop[i]

\* The tokens of the key of an assertion.
LEMMA AssertionBytes ==
  ASSUME NEW key, IsAssertion(key), NEW n, n = Len(key.prop), NEW bytes, bytes = EncodeAssertion(key)
  PROVE  AreBytesOf(bytes, key, n)
<1>1. n \in Nat \ {0} /\ key.prop \in Seq(Names) /\ key.branch \in Names /\ key.entity \in Names
  BY DEF IsAssertion
<1>2. /\ key.tx \in Nat /\ key.branch \in Nat /\ key.entity \in Nat
      /\ Hash[key.branch] \in Nat /\ Hash[key.entity] \in Nat /\ \A i \in 1 .. n : key.prop[i] \in Nat
  BY <1>1, NumbersOf DEF IsAssertion
<1>3. PICK head : head = <<Hash[key.branch], Hash[key.entity]>>
  OBVIOUS
<1>4. head \in Seq(Nat) /\ Len(head) = 2 /\ head[1] = Hash[key.branch] /\ head[2] = Hash[key.entity]
  BY <1>2, <1>3
<1>5. PICK p : p = PathBytes(key.prop)
  OBVIOUS
<1>6. /\ p \in Seq(Nat) /\ Len(p) = 2 * n
      /\ \A i \in 1 .. n : p[2 * i - 1] = Child /\ p[2 * i] = Hash[key.prop[i]]
  BY <1>1, <1>5, PathBytesOf
<1>7. PICK q : q = Append(p, PathEnd)
  OBVIOUS
<1>8. q \in Seq(Nat) /\ Len(q) = 2 * n + 1 /\ q[2 * n + 1] = PathEnd /\ \A i \in 1 .. 2 * n : q[i] = p[i]
  <2>1. PICK m \in Nat : m = Len(p)
    BY <1>6
  <2>2. p \in Seq(Nat) /\ PathEnd \in Nat
    BY <1>6 DEF PathEnd
  <2>3. q \in Seq(Nat) /\ Len(q) = m + 1 /\ q[m + 1] = PathEnd /\ \A i \in 1 .. m : q[i] = p[i]
    BY <1>7, <2>1, <2>2
  <2>4. m = 2 * n
    BY <1>6, <2>1
  <2> QED BY <2>3, <2>4
<1>9. PICK a : a = EncodeAddress(key)
  OBVIOUS
<1>10. a = (head \o q) \o <<key.tx>>
  <2>1. key.prop[1] \in Names
    BY <1>1
  <2>2. key.prop # NoPath /\ key.prop # LastPath
    BY <2>1, NumbersOf DEF NoPath, LastPath
  <2>3. HashOf(key.branch) = Hash[key.branch] /\ HashOf(key.entity) = Hash[key.entity]
    BY <1>1, NumbersOf DEF HashOf
  <2> QED BY <1>3, <1>5, <1>7, <1>9, <2>2, <2>3 DEF EncodeAddress
<1>11. PICK b : b = head \o q
  OBVIOUS
<1>12. /\ b \in Seq(Nat) /\ Len(b) = Len(head) + Len(q)
       /\ \A i \in 1 .. Len(head) : b[i] = head[i]
       /\ \A i \in 1 .. Len(q) : b[Len(head) + i] = q[i]
  <2>1. head \in Seq(Nat) /\ q \in Seq(Nat)
    BY <1>4, <1>8
  <2> QED BY <1>11, <2>1, JoinOf
<1>13. PICK t : t = <<key.tx>>
  OBVIOUS
<1>14. t \in Seq(Nat) /\ Len(t) = 1 /\ t[1] = key.tx
  BY <1>2, <1>13
<1>15. /\ a \in Seq(Nat) /\ Len(a) = Len(b) + Len(t)
       /\ \A i \in 1 .. Len(b) : a[i] = b[i]
       /\ \A i \in 1 .. Len(t) : a[Len(b) + i] = t[i]
  <2>1. b \in Seq(Nat) /\ t \in Seq(Nat) /\ a = b \o t
    BY <1>10, <1>11, <1>12, <1>13, <1>14
  <2> QED BY <2>1, JoinOf
<1>16. PICK u : u = <<Separator, key.branch, key.entity, Len(key.prop)>>
  OBVIOUS
<1>17. /\ u \in Seq(Nat) /\ Len(u) = 4
       /\ u[1] = Separator /\ u[2] = key.branch /\ u[3] = key.entity
  BY <1>1, <1>2, <1>16 DEF Separator
<1>18. PICK v : v = a \o u
  OBVIOUS
<1>19. /\ v \in Seq(Nat) /\ Len(v) = Len(a) + Len(u)
       /\ \A i \in 1 .. Len(a) : v[i] = a[i]
       /\ \A i \in 1 .. Len(u) : v[Len(a) + i] = u[i]
  <2>1. a \in Seq(Nat) /\ u \in Seq(Nat)
    BY <1>15, <1>17
  <2> QED BY <1>18, <2>1, JoinOf
<1>20. key.prop \in Seq(Nat)
  BY <1>1, <1>2
<1>21. /\ bytes \in Seq(Nat) /\ Len(bytes) = Len(v) + n
       /\ \A i \in 1 .. Len(v) : bytes[i] = v[i]
       /\ \A i \in 1 .. n : bytes[Len(v) + i] = key.prop[i]
  <2>1. bytes = v \o key.prop
    BY <1>9, <1>16, <1>18 DEF EncodeAssertion
  <2>2. v \in Seq(Nat)
    BY <1>19
  <2>3. /\ bytes \in Seq(Nat) /\ Len(bytes) = Len(v) + Len(key.prop)
        /\ \A i \in 1 .. Len(v) : bytes[i] = v[i]
        /\ \A i \in 1 .. Len(key.prop) : bytes[Len(v) + i] = key.prop[i]
    BY <1>20, <2>1, <2>2, JoinOf
  <2> QED BY <2>3
<1>22. Len(b) = 2 * n + 3 /\ Len(a) = 2 * n + 4 /\ Len(v) = 2 * n + 8
  BY <1>1, <1>4, <1>8, <1>12, <1>14, <1>15, <1>17, <1>19
<1>23. \A i \in 1 .. 2 * n + 4 : bytes[i] = a[i]
  <2> TAKE i \in 1 .. 2 * n + 4
  <2>1. i \in 1 .. Len(a) /\ i \in 1 .. Len(v)
    BY <1>1, <1>22
  <2> QED BY <1>19, <1>21, <2>1
<1>24. \A i \in 1 .. 2 * n + 3 : bytes[i] = b[i]
  BY <1>1, <1>15, <1>22, <1>23
<1>25. bytes[1] = Hash[key.branch] /\ bytes[2] = Hash[key.entity]
  BY <1>1, <1>4, <1>12, <1>24
<1>26. \A i \in 1 .. 2 * n + 1 : bytes[2 + i] = q[i]
  <2> TAKE i \in 1 .. 2 * n + 1
  <2>1. 2 + i \in 1 .. 2 * n + 3 /\ i \in 1 .. Len(q)
    BY <1>1, <1>8
  <2>2. b[2 + i] = q[i]
    BY <1>4, <1>12, <2>1
  <2> QED BY <1>24, <2>1, <2>2
<1>27. \A i \in 1 .. n : bytes[2 * i + 1] = Child /\ bytes[2 * i + 2] = Hash[key.prop[i]]
  <2> TAKE i \in 1 .. n
  <2>1. 2 * i - 1 \in 1 .. 2 * n /\ 2 * i \in 1 .. 2 * n /\ 2 + (2 * i - 1) = 2 * i + 1
    BY <1>1
  <2>2. bytes[2 + (2 * i - 1)] = q[2 * i - 1] /\ bytes[2 + 2 * i] = q[2 * i]
    BY <1>1, <1>26, <2>1
  <2>3. 2 + 2 * i = 2 * i + 2
    BY <1>1
  <2> QED BY <1>6, <1>8, <2>1, <2>2, <2>3
<1>28. bytes[2 * n + 3] = PathEnd
  <2>1. 2 * n + 1 \in 1 .. 2 * n + 1 /\ 2 + (2 * n + 1) = 2 * n + 3
    BY <1>1
  <2> QED BY <1>8, <1>26, <2>1
<1>29. bytes[2 * n + 4] = key.tx
  <2>1. 1 \in 1 .. Len(t) /\ Len(b) + 1 = 2 * n + 4 /\ 2 * n + 4 \in 1 .. 2 * n + 4
    BY <1>1, <1>14, <1>22
  <2>2. a[Len(b) + 1] = t[1]
    BY <1>15, <2>1
  <2> QED BY <1>14, <1>23, <2>1, <2>2
<1>30. /\ bytes[2 * n + 5] = Separator /\ bytes[2 * n + 6] = key.branch
       /\ bytes[2 * n + 7] = key.entity
  <2>1. \A i \in 1 .. 4 : v[2 * n + 4 + i] = u[i] /\ 2 * n + 4 + i \in 1 .. 2 * n + 8
    <3> TAKE i \in 1 .. 4
    <3>1. i \in 1 .. Len(u) /\ Len(a) + i = 2 * n + 4 + i /\ 2 * n + 4 + i \in 1 .. 2 * n + 8
      BY <1>1, <1>17, <1>22
    <3>2. v[Len(a) + i] = u[i]
      BY <1>19, <3>1
    <3> QED BY <3>1, <3>2
  <2>2. \A i \in 1 .. 4 : bytes[2 * n + 4 + i] = u[i]
    BY <1>21, <1>22, <2>1
  <2>3. /\ 2 * n + 4 + 1 = 2 * n + 5 /\ 2 * n + 4 + 2 = 2 * n + 6 /\ 2 * n + 4 + 3 = 2 * n + 7
        /\ 1 \in 1 .. 4 /\ 2 \in 1 .. 4 /\ 3 \in 1 .. 4
    BY <1>1
  <2> QED BY <1>17, <2>2, <2>3
<1>31. Len(bytes) = 3 * n + 8
  BY <1>1, <1>21, <1>22
<1> QED BY <1>21, <1>22, <1>25, <1>27, <1>28, <1>29, <1>30, <1>31 DEF AreBytesOf

\* What was encoded is what is decoded.
LEMMA DecodeAssertionOf ==
  ASSUME NEW key, IsAssertion(key)
  PROVE  DecodeAssertion(EncodeAssertion(key)) = key
<1>1. PICK n \in Nat \ {0} : n = Len(key.prop)
  BY DEF IsAssertion
<1>2. PICK bytes : bytes = EncodeAssertion(key)
  OBVIOUS
<1>3. /\ bytes \in Seq(Nat) /\ Len(bytes) = 3 * n + 8
      /\ \A i \in 1 .. n : bytes[2 * i + 1] = Child
      /\ bytes[2 * n + 3] = PathEnd /\ bytes[2 * n + 4] = key.tx
      /\ bytes[2 * n + 5] = Separator
      /\ bytes[2 * n + 6] = key.branch /\ bytes[2 * n + 7] = key.entity
      /\ \A i \in 1 .. n : bytes[2 * n + 8 + i] = key.prop[i]
  <2>1. AreBytesOf(bytes, key, n)
    BY <1>1, <1>2, AssertionBytes
  <2> QED BY <2>1 DEF AreBytesOf
<1> DEFINE stops == {p \in 3 .. Len(bytes) : p % 2 = 1 /\ bytes[p] # Child}
           end == CHOOSE p \in stops : \A q \in stops : p =< q
<1>4. 2 * n + 3 \in stops
  <2>1. 2 * n + 3 \in 3 .. 3 * n + 8 /\ (2 * n + 3) % 2 = 1
    OBVIOUS
  <2> QED BY <1>3, <2>1 DEF Child, PathEnd
<1>5. \A q \in stops : 2 * n + 3 =< q
  <2> SUFFICES ASSUME NEW q \in 3 .. 3 * n + 8, q % 2 = 1, q < 2 * n + 3
               PROVE  bytes[q] = Child
    BY <1>3
  <2>1. PICK i \in 1 .. n : q = 2 * i + 1
    <3>1. q = 2 * ((q - 1) \div 2) + 1 /\ (q - 1) \div 2 \in 1 .. n
      OBVIOUS
    <3> QED BY <3>1
  <2> QED BY <1>3, <2>1
<1>6. end = 2 * n + 3
  <2>1. stops \subseteq Nat
    BY <1>3
  <2> HIDE DEF stops
  <2>2. end \in stops /\ \A q \in stops : end =< q
    BY <1>4, <1>5
  <2>3. end \in Nat /\ end =< 2 * n + 3 /\ 2 * n + 3 =< end
    BY <1>4, <1>5, <2>1, <2>2
  <2> QED BY <2>3
<1> DEFINE named == end + 2
           path == SubSeq(bytes, named + 4, Len(bytes))
<1>7. named = 2 * n + 5 /\ named + 4 = 2 * n + 9 /\ named + 1 = 2 * n + 6 /\ named + 2 = 2 * n + 7
      /\ end + 1 = 2 * n + 4 /\ (end - 3) \div 2 = n /\ ~(named + 4 > Len(bytes)) /\ ~(end < 5)
  <2> HIDE DEF end
  <2> QED BY <1>3, <1>6
<1>8. stops # {}
  BY <1>4
<1>9. DecodeAssertion(bytes) =
        IF \/ stops = {}
           \/ bytes[end] # PathEnd \/ end < 5 \/ named + 4 > Len(bytes)
           \/ bytes[named] # Separator \/ Len(path) # (end - 3) \div 2
        THEN Malformed
        ELSE [branch |-> bytes[named + 1], entity |-> bytes[named + 2],
              prop |-> path, tx |-> bytes[end + 1]]
  BY DEF DecodeAssertion
<1>10. path = key.prop
  <2>1. PICK x : x = path
    OBVIOUS
  <2>2. x = SubSeq(bytes, 2 * n + 9, 3 * n + 8)
    BY <1>3, <1>7, <2>1
  <2>3. Len(x) = n /\ x \in Seq(Nat) /\ \A i \in 1 .. n : x[i] = bytes[2 * n + 8 + i]
    <3>1. PICK a, b : a = 2 * n + 9 /\ b = 3 * n + 8 /\ a \in Nat /\ b \in Nat
      OBVIOUS
    <3>2. x = SubSeq(bytes, a, b) /\ a \in 1 .. Len(bytes) + 1 /\ b \in a - 1 .. Len(bytes)
      BY <1>3, <2>2, <3>1
    <3>3. /\ x \in Seq(Nat) /\ Len(x) = b - a + 1
          /\ \A i \in 1 .. b - a + 1 : x[i] = bytes[a + i - 1]
      <4>1. \A i \in a .. b : bytes[i] \in Nat
        <5>1. \A i \in a .. b : i \in 1 .. Len(bytes)
          BY <3>1, <3>2
        <5>2. bytes \in Seq(Nat)
          BY <1>3
        <5> QED BY <5>1, <5>2
      <4>2. /\ SubSeq(bytes, a, b) \in Seq(Nat)
            /\ Len(SubSeq(bytes, a, b)) = IF a =< b THEN b - a + 1 ELSE 0
            /\ \A i \in 1 .. b - a + 1 : SubSeq(bytes, a, b)[i] = bytes[a + i - 1]
        BY <3>1, <4>1, SubSeqProperties
      <4> QED BY <3>1, <3>2, <4>2
    <3>4. b - a + 1 = n /\ \A i \in 1 .. n : a + i - 1 = 2 * n + 8 + i
      BY <3>1
    <3> QED BY <3>3, <3>4
  <2>4. \A i \in 1 .. n : x[i] = key.prop[i]
    BY <1>3, <2>3
  <2>5. key.prop \in Seq(Names) /\ Len(key.prop) = n
    BY <1>1 DEF IsAssertion
  <2>6. x = key.prop
    BY <2>3, <2>4, <2>5
  <2> QED BY <2>1, <2>6
<1> HIDE DEF stops, end, named, path
<1>11. Len(path) = (end - 3) \div 2
  BY <1>1, <1>7, <1>10
<1>12. DecodeAssertion(bytes) = [branch |-> key.branch, entity |-> key.entity,
                                 prop |-> key.prop, tx |-> key.tx]
  BY <1>3, <1>6, <1>7, <1>8, <1>9, <1>10, <1>11
<1> QED BY <1>2, <1>12 DEF IsAssertion

-----------------------------------------------------------------------------
(***************************************************************************)
(* The store holds the encodings of its rows.                              *)
(***************************************************************************)

\* What is put can be read back.
LEMMA KeyOfBytes ==
  ASSUME NEW f \in Followed, NEW key \in Keys(f)
  PROVE  EncodeKey(f, key) \in Seq(Nat) /\ DecodeKey(f, EncodeKey(f, key)) = key
<1>1. CASE f = "assertions"
  <2>1. IsAssertion(key)
    BY <1>1, AssertionFields
  <2>2. PICK bytes : bytes = EncodeAssertion(key)
    OBVIOUS
  <2>3. bytes \in Seq(Nat)
    BY <2>1, <2>2, AssertionBytes DEF AreBytesOf
  <2> QED BY <1>1, <2>1, <2>2, <2>3, DecodeAssertionOf DEF EncodeKey, DecodeKey
<1>2. CASE f # "assertions"
  <2>1. f \in Fixed
    BY <1>2, TerraDbAssumption
  <2>2. IsKey(f, key)
    BY <2>1, KeyFields
  <2>3. Encode(f, key) \in Seq(Nat)
    BY <2>1, <2>2, EncodeOf
  <2> QED BY <1>2, <2>1, <2>3, DecodeOf DEF EncodeKey, DecodeKey
<1> QED BY <1>1, <1>2

\* The store has the encoded rows.
DbInv ==
  /\ cf \in Followed
  /\ rows \subseteq Keys(cf) /\ IsFiniteSet(rows)
  /\ db = {EncodeKey(cf, k) : k \in rows}

\* Every batch leaves a store in which the keys are the encodings of the rows and
\* each decodes to its row (TerraDb::write, VersionedKey::encode and decode).
LEMMA DbHolds == Spec => []DbInv
<1>1. Init => DbInv
  BY FS_EmptySet DEF Init, DbInv
<1>2. ASSUME DbInv, NEW put \in Keys(cf), NEW delete, Commit(put, delete), delete \subseteq rows
      PROVE  DbInv'
  <2>1. cf' = cf /\ rows' = (rows \ delete) \cup {put}
    BY <1>2 DEF Commit
  <2>2. rows' \subseteq Keys(cf)
    BY <1>2, <2>1 DEF DbInv
  <2>3. IsFiniteSet(rows')
    <3>1. IsFiniteSet(rows \ delete)
      BY <1>2, FS_Subset DEF DbInv
    <3> QED BY <2>1, <3>1, FS_AddElement
  <2>4. PICK code : code = [k \in Keys(cf) |-> EncodeKey(cf, k)]
    OBVIOUS
  <2>5. \A j, k \in Keys(cf) : code[j] = code[k] => j = k
    <3>1. \A k \in Keys(cf) : DecodeKey(cf, code[k]) = k
      BY <1>2, <2>4, KeyOfBytes DEF DbInv
    <3> QED BY <3>1
  <2>6. db = {code[k] : k \in rows}
    BY <1>2, <2>4 DEF DbInv
  <2>7. db' = (db \ {code[k] : k \in delete}) \cup {code[put]}
    <3>1. {EncodeKey(cf, k) : k \in delete} = {code[k] : k \in delete}
      BY <1>2, <2>4 DEF DbInv
    <3>2. EncodeKey(cf, put) = code[put]
      BY <1>2, <2>4
    <3> QED BY <1>2, <3>1, <3>2 DEF Commit
  <2>8. db' = {code[k] : k \in rows'}
    <3>1. \A x \in db' : x \in {code[k] : k \in rows'}
      BY <2>1, <2>6, <2>7
    <3>2. ASSUME NEW k \in rows'
          PROVE  code[k] \in db'
      <4>1. CASE k = put
        BY <2>7, <4>1
      <4>2. CASE k # put
        <5>1. k \in rows /\ k \notin delete /\ k \in Keys(cf)
          BY <2>1, <2>2, <4>2
        <5>2. \A j \in delete : code[j] # code[k]
          BY <1>2, <2>5, <5>1 DEF DbInv
        <5> QED BY <2>6, <2>7, <5>1, <5>2
      <4> QED BY <4>1, <4>2
    <3> QED BY <3>1, <3>2
  <2>9. {code[k] : k \in rows'} = {EncodeKey(cf, k) : k \in rows'}
    BY <2>2, <2>4
  <2>10. db' = {EncodeKey(cf', k) : k \in rows'}
    BY <2>1, <2>8, <2>9
  <2> QED BY <1>2, <2>1, <2>2, <2>3, <2>10 DEF DbInv
<1>3. ASSUME DbInv, [Next]_vars
      PROVE  DbInv'
  <2>1. CASE Next
    <3>1. PICK put \in Keys(cf) : \/ Commit(put, {})
                                  \/ cf \in Deletable /\ \E k \in rows : Commit(put, {k})
      BY <2>1 DEF Next, Write
    <3>2. CASE Commit(put, {})
      BY <1>2, <1>3, <3>2
    <3>3. CASE \E k \in rows : Commit(put, {k})
      <4>1. PICK k \in rows : Commit(put, {k})
        BY <3>3
      <4> QED BY <1>2, <1>3, <4>1
    <3> QED BY <3>1, <3>2, <3>3
  <2>2. CASE UNCHANGED vars
    BY <1>3, <2>2 DEF DbInv, vars, EncodeKey
  <2> QED BY <1>3, <2>1, <2>2
<1> QED BY <1>1, <1>3, PTL DEF Spec

\* Keys and rows are the same in number, and each leads to the other.
LEMMA RowsAreRead ==
  ASSUME DbInv
  PROVE  /\ Decoded(db) = rows /\ Cardinality(db) = Cardinality(rows) /\ IsFiniteSet(db)
         /\ \A key \in Keys(cf) : Get(key) # {} <=> key \in rows
         /\ \A k \in db : /\ k \in Seq(Nat) /\ DecodeKey(cf, k) \in rows
                          /\ k = EncodeKey(cf, DecodeKey(cf, k))
<1>1. \A k \in Keys(cf) : EncodeKey(cf, k) \in Seq(Nat) /\ DecodeKey(cf, EncodeKey(cf, k)) = k
  BY KeyOfBytes DEF DbInv
<1>2. \A k \in rows : k \in Keys(cf) /\ EncodeKey(cf, k) \in db
  BY DEF DbInv
<1>3. \A k \in db : \E r \in rows : k = EncodeKey(cf, r)
  BY DEF DbInv
<1>4. \A k \in db : /\ k \in Seq(Nat) /\ DecodeKey(cf, k) \in rows
                    /\ k = EncodeKey(cf, DecodeKey(cf, k))
  BY <1>1, <1>2, <1>3
<1>5. Decoded(db) = rows
  <2>1. \A r \in rows : r \in Decoded(db)
    BY <1>1, <1>2 DEF Decoded
  <2>2. \A r \in Decoded(db) : r \in rows
    BY <1>4 DEF Decoded
  <2> QED BY <2>1, <2>2
<1>6. Cardinality(db) = Cardinality(rows) /\ IsFiniteSet(db)
  <2> DEFINE f == [k \in rows |-> EncodeKey(cf, k)]
  <2>1. f \in [rows -> db] /\ \A j, k \in rows : f[j] = f[k] => j = k
    <3>1. \A j, k \in rows : EncodeKey(cf, j) = EncodeKey(cf, k) => j = k
      BY <1>1, <1>2
    <3> QED BY <1>2, <3>1
  <2>2. \A k \in db : \E r \in rows : f[r] = k
    BY <1>3
  <2> HIDE DEF f
  <2>3. f \in Bijection(rows, db)
    <3>1. f \in Injection(rows, db)
      BY <2>1, Fun_IsInj
    <3>2. f \in Surjection(rows, db)
      BY <2>1, <2>2, Fun_IsSurj
    <3> QED BY <3>1, <3>2 DEF Bijection
  <2>4. ExistsBijection(rows, db)
    BY <2>3 DEF ExistsBijection
  <2>5. IsFiniteSet(rows)
    BY DEF DbInv
  <2> QED BY <2>4, <2>5, FS_Bijection
<1>7. ASSUME NEW key \in Keys(cf)
      PROVE  Get(key) # {} <=> key \in rows
  <2>1. CASE key \in rows
    BY <1>2, <2>1 DEF Get
  <2>2. CASE Get(key) # {}
    <3>1. PICK k \in db : k = EncodeKey(cf, key)
      BY <2>2 DEF Get
    <3> QED BY <1>1, <1>4, <2>2, <3>1
  <2> QED BY <2>1, <2>2
<1> QED BY <1>4, <1>5, <1>6, <1>7

-----------------------------------------------------------------------------
(***************************************************************************)
(* The order of the bytes.                                                 *)
(***************************************************************************)

\* The position that decides between two texts.
Splits(i, a, b) ==
  /\ i \in 1 .. Len(b) /\ i =< Len(a) + 1
  /\ \A j \in 1 .. i - 1 : a[j] = b[j]
  /\ i =< Len(a) => a[i] < b[i]

\* A text is before another if some position decides it.
LEMMA SplitsIsBefore ==
  ASSUME NEW a, NEW b
  PROVE  Before(a, b) <=> \E i \in 1 .. Len(b) : Splits(i, a, b)
BY DEF Before, Splits

\* The order of bytes is an order: three keys.
LEMMA BeforeTransitive ==
  ASSUME NEW a \in Seq(Nat), NEW b \in Seq(Nat), NEW c \in Seq(Nat), Before(a, b), Before(b, c)
  PROVE  Before(a, c)
<1>1. PICK i \in 1 .. Len(b) : Splits(i, a, b)
  BY SplitsIsBefore
<1>2. PICK k \in 1 .. Len(c) : Splits(k, b, c)
  BY SplitsIsBefore
<1>3. CASE i < k
  <2>1. i \in 1 .. Len(c) /\ i \in 1 .. k - 1
    BY <1>1, <1>2, <1>3
  <2>2. Splits(i, a, c)
    BY <1>1, <1>2, <1>3, <2>1 DEF Splits
  <2> QED BY <2>1, <2>2, SplitsIsBefore
<1>4. CASE k =< i
  <2>1. k \in 1 .. Len(b) /\ (k < i => k \in 1 .. i - 1)
    BY <1>1, <1>2, <1>4 DEF Splits
  <2>2. \A j \in 1 .. k - 1 : a[j] = c[j]
    BY <1>1, <1>2, <1>4 DEF Splits
  <2>3. k =< Len(a) => a[k] \in Nat /\ b[k] \in Nat /\ c[k] \in Nat
    <3>1. b[k] \in Nat
      BY <2>1, ElementOfSeq
    <3>2. c[k] \in Nat
      BY ElementOfSeq
    <3>3. k \in Nat /\ 1 =< k /\ Len(a) \in Nat
      BY <2>1
    <3>4. k =< Len(a) => k \in 1 .. Len(a)
      BY <3>3
    <3>5. k =< Len(a) => a[k] \in Nat
      BY <3>4, ElementOfSeq
    <3> QED BY <3>1, <3>2, <3>5
  <2>4. b[k] < c[k]
    BY <1>2, <2>1 DEF Splits
  <2>5. k =< Len(a) => a[k] < c[k]
    <3>1. CASE k = i
      BY <1>1, <2>3, <2>4, <3>1 DEF Splits
    <3>2. CASE k # i
      <4>1. a[k] = b[k]
        BY <1>1, <1>4, <2>1, <3>2 DEF Splits
      <4> QED BY <2>4, <4>1
    <3> QED BY <3>1, <3>2
  <2>6. Splits(k, a, c)
    BY <1>1, <1>2, <1>4, <2>2, <2>5 DEF Splits
  <2> QED BY <2>6, SplitsIsBefore
<1> QED BY <1>1, <1>2, <1>3, <1>4

\* No two keys are before each other.
LEMMA BeforeOneWay ==
  ASSUME NEW a \in Seq(Nat), NEW b \in Seq(Nat), Before(a, b)
  PROVE  ~UpTo(b, a)
<1>1. \A c \in Seq(Nat) : ~Before(c, c)
  <2> SUFFICES ASSUME NEW c \in Seq(Nat), Before(c, c)
               PROVE  FALSE
    OBVIOUS
  <2>1. PICK i \in 1 .. Len(c) : Splits(i, c, c)
    BY SplitsIsBefore
  <2>2. c[i] \in Nat /\ c[i] < c[i]
    BY <2>1, ElementOfSeq DEF Splits
  <2> QED BY <2>2
<1> QED BY <1>1, BeforeTransitive DEF UpTo

\* Of two different keys, one is before the other.
LEMMA BeforeTotal ==
  ASSUME NEW a \in Seq(Nat), NEW b \in Seq(Nat)
  PROVE  a = b \/ Before(a, b) \/ Before(b, a)
<1> DEFINE D == {i \in 1 .. Len(a) : i =< Len(b) /\ a[i] # b[i]}
<1>1. CASE D = {}
  <2>1. \A i \in 1 .. Len(a) : i =< Len(b) => a[i] = b[i]
    BY <1>1
  <2> HIDE DEF D
  <2>2. CASE Len(a) = Len(b)
    <3>1. a = b
      BY <2>1, <2>2, SeqEqual
    <3> QED BY <3>1
  <2>3. CASE Len(a) < Len(b)
    <3>1. Splits(Len(a) + 1, a, b)
      BY <2>1, <2>3 DEF Splits
    <3>2. Len(a) + 1 \in 1 .. Len(b)
      BY <2>3
    <3> QED BY <3>1, <3>2, SplitsIsBefore
  <2>4. CASE Len(b) < Len(a)
    <3>1. Splits(Len(b) + 1, b, a)
      BY <2>1, <2>4 DEF Splits
    <3>2. Len(b) + 1 \in 1 .. Len(a)
      BY <2>4
    <3> QED BY <3>1, <3>2, SplitsIsBefore
  <2>5. Len(a) \in Nat /\ Len(b) \in Nat
    OBVIOUS
  <2> QED BY <2>2, <2>3, <2>4, <2>5
<1>2. CASE D # {}
  <2>1. PICK i \in D : \A j \in D : i =< j
    <3>1. D \in SUBSET Nat
      OBVIOUS
    <3> HIDE DEF D
    <3> QED BY <1>2, <3>1, LeastNumber
  <2>2. i \in 1 .. Len(a) /\ i \in 1 .. Len(b) /\ a[i] # b[i]
    BY <2>1
  <2>3. \A j \in 1 .. i - 1 : a[j] = b[j]
    <3> SUFFICES ASSUME NEW j \in 1 .. i - 1
                 PROVE  a[j] = b[j]
      OBVIOUS
    <3>1. j \in 1 .. Len(a) /\ j =< Len(b) /\ ~(i =< j)
      BY <2>2
    <3> QED BY <2>1, <3>1
  <2>4. a[i] \in Nat /\ b[i] \in Nat
    BY <2>2, ElementOfSeq
  <2> HIDE DEF D
  <2>5. CASE a[i] < b[i]
    <3>1. Splits(i, a, b)
      BY <2>2, <2>3, <2>5 DEF Splits
    <3> QED BY <2>2, <3>1, SplitsIsBefore
  <2>6. CASE b[i] < a[i]
    <3>1. Splits(i, b, a)
      BY <2>2, <2>3, <2>6 DEF Splits
    <3> QED BY <2>2, <3>1, SplitsIsBefore
  <2> QED BY <2>2, <2>4, <2>5, <2>6
<1> QED BY <1>1, <1>2

\* The number of a key in the order of the store.
InOrder == {p \in db \X db : UpTo(p[1], p[2])}

\* The store is a finite set of texts, and place numbers its keys in their order.
Numbers(place, n) ==
  /\ n \in Nat /\ n = Cardinality(db) /\ place \in [db -> 1 .. n]
  /\ \A k \in db : k \in Seq(Nat) /\ place[k] \in Nat
  /\ \A i \in 1 .. n : \E k \in db : place[k] = i
  /\ \A j, k \in db : place[j] =< place[k] <=> UpTo(j, k)
  /\ \A j, k \in db : place[j] < place[k] <=> Before(j, k)
  /\ \A j, k \in db : place[j] = place[k] => j = k

\* The keys of a store can be numbered in the order of their bytes.
LEMMA NumbersExist ==
  ASSUME IsFiniteSet(db), \A k \in db : k \in Seq(Nat)
  PROVE  \E place : Numbers(place, Cardinality(db))
<1>1. Orders(db, InOrder)
  <2>1. \A x, y \in db : <<x, y>> \in InOrder <=> UpTo(x, y)
    BY DEF InOrder
  <2>2. \A x, y \in db : UpTo(x, y) \/ UpTo(y, x)
    BY BeforeTotal DEF UpTo
  <2>3. \A x, y \in db : UpTo(x, y) /\ UpTo(y, x) => x = y
    BY BeforeOneWay DEF UpTo
  <2>4. \A x, y, z \in db : UpTo(x, y) /\ UpTo(y, z) => UpTo(x, z)
    BY BeforeTransitive DEF UpTo
  <2>5. \A x \in db : UpTo(x, x)
    BY DEF UpTo
  <2> QED BY <2>1, <2>2, <2>3, <2>4, <2>5 DEF Orders
<1>2. PICK place : place = Rank(db, InOrder)
  OBVIOUS
<1>3. PICK n : n = Cardinality(db)
  OBVIOUS
<1>4. /\ n \in Nat /\ place \in [db -> 1 .. n]
      /\ \A i \in 1 .. n : \E x \in db : place[x] = i
      /\ \A x, y \in db : place[x] =< place[y] <=> <<x, y>> \in InOrder
  BY <1>1, <1>2, <1>3, RankOf
<1>5. \A k \in db : place[k] \in Nat
  BY <1>4
<1>6. \A j, k \in db : place[j] =< place[k] <=> UpTo(j, k)
  BY <1>4 DEF InOrder
<1>7. \A j, k \in db : place[j] = place[k] => j = k
  <2> SUFFICES ASSUME NEW j \in db, NEW k \in db, place[j] = place[k]
               PROVE  j = k
    OBVIOUS
  <2>1. UpTo(j, k) /\ UpTo(k, j)
    BY <1>5, <1>6
  <2> QED BY <2>1, BeforeOneWay DEF UpTo
<1>8. \A j, k \in db : place[j] < place[k] <=> Before(j, k)
  <2> SUFFICES ASSUME NEW j \in db, NEW k \in db
               PROVE  place[j] < place[k] <=> Before(j, k)
    OBVIOUS
  <2>1. place[j] < place[k] <=> ~(place[k] =< place[j])
    BY <1>5
  <2>2. ~UpTo(k, j) <=> Before(j, k)
    BY BeforeOneWay, BeforeTotal DEF UpTo
  <2> QED BY <1>6, <2>1, <2>2
<1> QED BY <1>3, <1>4, <1>5, <1>6, <1>7, <1>8 DEF Numbers

-----------------------------------------------------------------------------
(***************************************************************************)
(* Cursors: each step leads to the first key of a set, or to the last one. *)
(***************************************************************************)

\* F holds the first key of T, if T has one.
IsFirst(F, T, place) ==
  /\ F \subseteq T
  /\ \A j, k \in F : j = k
  /\ \A j \in T : \E k \in F : place[k] =< place[j]

IsLast(F, T, place) ==
  /\ F \subseteq T
  /\ \A j, k \in F : j = k
  /\ \A j \in T : \E k \in F : place[j] =< place[k]

\* The least and the greatest key of a set of keys, as the cursors find them.
LEMMA FirstOf ==
  ASSUME NEW place, NEW n, Numbers(place, n), NEW T \in SUBSET db
  PROVE  /\ IsFirst({k \in T : \A j \in T : UpTo(k, j)}, T, place)
         /\ IsLast({k \in T : \A j \in T : UpTo(j, k)}, T, place)
<1> DEFINE F == {k \in T : \A j \in T : UpTo(k, j)}
           L == {k \in T : \A j \in T : UpTo(j, k)}
           P == {place[k] : k \in T}
<1>1. /\ \A j, k \in db : place[j] =< place[k] <=> UpTo(j, k)
      /\ \A j, k \in db : place[j] = place[k] => j = k
      /\ \A k \in db : place[k] \in Nat /\ place[k] =< n
      /\ n \in Nat
  BY DEF Numbers
<1>2. P \in SUBSET Nat /\ \A x \in P : x =< n
  BY <1>1
<1>3. \A j, k \in F : j = k
  <2> SUFFICES ASSUME NEW j \in F, NEW k \in F
               PROVE  j = k
    OBVIOUS
  <2>1. place[j] =< place[k] /\ place[k] =< place[j]
    BY <1>1
  <2>2. place[j] = place[k]
    BY <1>1, <2>1
  <2> QED BY <1>1, <2>2
<1>4. \A j, k \in L : j = k
  <2> SUFFICES ASSUME NEW j \in L, NEW k \in L
               PROVE  j = k
    OBVIOUS
  <2>1. place[j] =< place[k] /\ place[k] =< place[j]
    BY <1>1
  <2>2. place[j] = place[k]
    BY <1>1, <2>1
  <2> QED BY <1>1, <2>2
<1>5. ASSUME NEW t \in T
      PROVE  /\ \E k \in F : place[k] =< place[t]
             /\ \E k \in L : place[t] =< place[k]
  <2>1. P # {}
    OBVIOUS
  <2> HIDE DEF P
  <2>2. PICK x \in P : \A y \in P : x =< y
    BY <1>2, <2>1, LeastNumber
  <2>3. PICK z \in P : \A y \in P : y =< z
    BY <1>1, <1>2, <2>1, GreatestNumber
  <2>4. PICK k \in T : place[k] = x
    BY <2>2 DEF P
  <2>5. PICK l \in T : place[l] = z
    BY <2>3 DEF P
  <2>6. \A j \in T : place[k] =< place[j] /\ place[j] =< place[l]
    BY <2>2, <2>3, <2>4, <2>5 DEF P
  <2>7. k \in F /\ l \in L
    BY <1>1, <2>6
  <2> QED BY <2>6, <2>7
<1> QED BY <1>3, <1>4, <1>5 DEF IsFirst, IsLast

NotBefore(point) == {k \in db : UpTo(point, k)}
NotAfter(point) == {k \in db : UpTo(k, point)}
Following(key) == {k \in db : Before(key, k)}
Preceding(key) == {k \in db : Before(k, key)}

\* Where seek, seek_for_prev, next and prev lead (DbIterator, scan_rev).
LEMMA StepsOf ==
  ASSUME NEW place, NEW n, Numbers(place, n), NEW point
  PROVE  /\ IsFirst(Seek(point), NotBefore(point), place)
         /\ IsLast(SeekBack(point), NotAfter(point), place)
         /\ IsFirst(After(point), Following(point), place)
         /\ IsLast(Prior(point), Preceding(point), place)
<1>1. /\ NotBefore(point) \subseteq db /\ NotAfter(point) \subseteq db
      /\ Following(point) \subseteq db /\ Preceding(point) \subseteq db
  BY DEF NotBefore, NotAfter, Following, Preceding
<1>2. Seek(point) = {k \in NotBefore(point) : \A j \in NotBefore(point) : UpTo(k, j)}
  BY DEF Seek, NotBefore
<1>3. SeekBack(point) = {k \in NotAfter(point) : \A j \in NotAfter(point) : UpTo(j, k)}
  BY DEF SeekBack, NotAfter
<1>4. After(point) = {k \in Following(point) : \A j \in Following(point) : UpTo(k, j)}
  BY DEF After, Following
<1>5. Prior(point) = {k \in Preceding(point) : \A j \in Preceding(point) : UpTo(j, k)}
  BY DEF Prior, Preceding
<1> QED BY <1>1, <1>2, <1>3, <1>4, <1>5, FirstOf

-----------------------------------------------------------------------------
\* One turn of a walk.
Turn(start, step, lower, upper, keys) ==
  LET next == IF keys = <<>> THEN start ELSE step[keys[Len(keys)]]
  IN  IF \E k \in next : Inside(lower, upper, k)
      THEN Append(keys, CHOOSE k \in next : Inside(lower, upper, k))
      ELSE keys

IsWent(went, start, step, lower, upper, n) ==
  /\ went[0] = <<>>
  /\ \A m \in 1 .. n : went[m] = Turn(start, step, lower, upper, went[m - 1])

\* A walk is the last of its turns: one for each key of the store is enough.
LEMMA WentExists ==
  ASSUME NEW start, NEW step, NEW lower, NEW upper, Cardinality(db) \in Nat
  PROVE  \E went : /\ IsWent(went, start, step, lower, upper, Cardinality(db))
                   /\ Walk(start, step, lower, upper) = went[Cardinality(db)]
<1> DEFINE len == Cardinality(db)
           Next1(keys) == Turn(start, step, lower, upper, keys)
           Upto(m, g) == /\ g = [n \in 0 .. m |-> g[n]]
                         /\ g[0] = <<>>
                         /\ \A n \in 1 .. m : g[n] = Next1(g[n - 1])
           Bad == {m \in Nat : ~ \E g : Upto(m, g)}
<1> HIDE DEF Next1
<1>1. Bad = {}
  <2> SUFFICES ASSUME Bad # {}
               PROVE  FALSE
    OBVIOUS
  <2>1. PICK m \in Bad : \A n \in Bad : m =< n
    <3> HIDE DEF Bad
    <3>1. Bad \in SUBSET Nat
      BY DEF Bad
    <3> QED BY <3>1, LeastNumber
  <2>2. m # 0
    <3>1. Upto(0, [n \in 0 .. 0 |-> <<>>])
      OBVIOUS
    <3>2. 0 \notin Bad
      BY <3>1
    <3> QED BY <2>1, <3>2
  <2>3. m \in Nat /\ m - 1 \in Nat /\ ~(m =< m - 1)
    BY <2>1, <2>2
  <2>4. PICK h : Upto(m - 1, h)
    BY <2>1, <2>3
  <2> DEFINE g == [n \in 0 .. m |-> IF n = m THEN Next1(h[m - 1]) ELSE h[n]]
  <2>5. Upto(m, g)
    <3>1. g = [n \in 0 .. m |-> g[n]] /\ g[0] = h[0]
      BY <2>2, <2>3
    <3>2. g[m] = Next1(h[m - 1]) /\ g[m - 1] = h[m - 1]
      BY <2>3
    <3>3. \A n \in 1 .. m - 1 : g[n] = h[n] /\ g[n - 1] = h[n - 1]
      BY <2>3
    <3> HIDE DEF g
    <3>4. \A n \in 1 .. m : g[n] = Next1(g[n - 1])
      <4> TAKE n \in 1 .. m
      <4>1. CASE n = m
        BY <4>1, <3>2
      <4>2. CASE n # m
        <5>1. n \in 1 .. m - 1
          BY <4>2, <2>3
        <5> QED BY <5>1, <3>3, <2>4
      <4> QED BY <4>1, <4>2
    <3> QED BY <3>1, <3>4, <2>4
  <2> QED BY <2>1, <2>5
<1>2. PICK g : Upto(len, g)
  BY <1>1
<1> HIDE DEF Bad
<1> DEFINE Body(f) == [n \in 0 .. len |-> IF n = 0 THEN <<>> ELSE Next1(f[n - 1])]
<1>3. g = Body(g)
  <2>1. \A n \in 0 .. len : g[n] = Body(g)[n]
    <3> TAKE n \in 0 .. len
    <3>1. CASE n = 0
      BY <1>2, <3>1
    <3>2. CASE n # 0
      <4>1. n \in 1 .. len
        BY <3>2
      <4> QED BY <1>2, <3>2, <4>1
    <3> QED BY <3>1, <3>2
  <2> QED BY <1>2, <2>1
<1> DEFINE went == CHOOSE f : f = Body(f)
<1>4. went = Body(went)
  <2> HIDE DEF Body
  <2> QED BY <1>3
<1>5. IsWent(went, start, step, lower, upper, len)
  <2> HIDE DEF went
  <2>1. went[0] = <<>>
    BY <1>4
  <2>2. ASSUME NEW m \in 1 .. len
        PROVE  went[m] = Next1(went[m - 1])
    BY <1>4, <2>2
  <2> QED BY <2>1, <2>2 DEF IsWent, Next1
<1>6. Walk(start, step, lower, upper) = went[len]
  BY DEF Walk, Next1, Turn
<1> QED BY <1>5, <1>6

-----------------------------------------------------------------------------
(***************************************************************************)
(* Walks: a walk reads every key it keeps, in one direction.               *)
(***************************************************************************)

Kept(lower, upper) == {k \in db : Inside(lower, upper, k)}

\* From what it reads, S, a walk goes on only in one direction, o.
Proceeds(start, step, S, o, n) ==
  /\ n \in Nat /\ n = Cardinality(db) /\ o \in [db -> 1 .. n]
  /\ start \subseteq db /\ \A j, k \in start : j = k
  /\ \A k \in S : /\ step[k] \subseteq db /\ \A i, j \in step[k] : i = j
                  /\ \A j \in step[k] : o[k] < o[j]

\* Where the walk goes next.
NextOf(w, start, step) == IF w = <<>> THEN start ELSE step[w[Len(w)]]

IsWalk(w, start, step, S, o) ==
  /\ w \in Seq(S)
  /\ \A i, j \in 1 .. Len(w) : i < j => o[w[i]] < o[w[j]]
  /\ \A i \in 1 .. Len(w) : w[i] \in IF i = 1 THEN start ELSE step[w[i - 1]]

IsWhole(w, start, step, S, o) ==
  IsWalk(w, start, step, S, o) /\ NextOf(w, start, step) \cap S = {}

\* One more turn keeps a walk a walk, and adds a key unless the walk has ended.
LEMMA TurnOf ==
  ASSUME NEW start, NEW step, NEW lower, NEW upper, NEW o, NEW n,
         Proceeds(start, step, Kept(lower, upper), o, n),
         NEW w, IsWalk(w, start, step, Kept(lower, upper), o),
         NEW v, v = Turn(start, step, lower, upper, w)
  PROVE  /\ IsWalk(v, start, step, Kept(lower, upper), o)
         /\ \/ Len(v) = Len(w) + 1
            \/ v = w /\ NextOf(w, start, step) \cap Kept(lower, upper) = {}
         /\ NextOf(w, start, step) \cap Kept(lower, upper) = {} => v = w
<1> DEFINE S == Kept(lower, upper)
           next == NextOf(w, start, step)
<1>1. w \in Seq(S) /\ S \subseteq db /\ Len(w) \in Nat
  BY DEF IsWalk, Kept
<1>2. w # <<>> => Len(w) \in 1 .. Len(w) /\ w[Len(w)] \in S /\ w[Len(w)] \in db
  <2>1. w # <<>> => Len(w) # 0
    BY <1>1, EmptySeq
  <2> QED BY <1>1, <2>1, ElementOfSeq
<1>3. next \subseteq db
  BY <1>2 DEF NextOf, Proceeds
<1>4. \A k \in next : Inside(lower, upper, k) <=> k \in S
  BY <1>3 DEF Kept
<1>5. CASE next \cap S = {}
  <2>1. ~ \E k \in next : Inside(lower, upper, k)
    BY <1>4, <1>5
  <2>2. v = w
    BY <2>1 DEF Turn, NextOf
  <2> QED BY <1>5, <2>2
<1>6. CASE next \cap S # {}
  <2>1. \E k \in next : Inside(lower, upper, k)
    BY <1>4, <1>6
  <2>2. PICK k \in next : Inside(lower, upper, k) /\ v = Append(w, k)
    BY <2>1 DEF Turn, NextOf
  <2>3. k \in S
    BY <1>4, <2>2
  <2>4. /\ v \in Seq(S) /\ Len(v) = Len(w) + 1
        /\ \A i \in 1 .. Len(w) : v[i] = w[i]
        /\ v[Len(w) + 1] = k
    BY <1>1, <2>2, <2>3, AppendProperties
  <2>5. \A i \in 1 .. Len(w) : o[w[i]] < o[k]
    <3> SUFFICES ASSUME NEW i \in 1 .. Len(w)
                 PROVE  o[w[i]] < o[k]
      OBVIOUS
    <3>1. w # <<>>
      BY <1>1
    <3>2. w[Len(w)] \in S /\ w[Len(w)] \in db /\ k \in step[w[Len(w)]]
      BY <1>2, <2>2, <3>1 DEF NextOf
    <3>3. o[w[Len(w)]] < o[k]
      BY <3>2 DEF Proceeds
    <3>4. w[i] \in db /\ k \in db
      BY <1>1, <2>3, ElementOfSeq
    <3>5. o[w[i]] \in Nat /\ o[w[Len(w)]] \in Nat /\ o[k] \in Nat
      BY <3>2, <3>4 DEF Proceeds
    <3>6. i = Len(w) \/ o[w[i]] < o[w[Len(w)]]
      BY <1>1 DEF IsWalk
    <3> QED BY <3>3, <3>5, <3>6
  <2>6. \A i, j \in 1 .. Len(v) : i < j => o[v[i]] < o[v[j]]
    <3> SUFFICES ASSUME NEW i \in 1 .. Len(v), NEW j \in 1 .. Len(v), i < j
                 PROVE  o[v[i]] < o[v[j]]
      OBVIOUS
    <3>1. i \in 1 .. Len(w) /\ v[i] = w[i]
      BY <1>1, <2>4
    <3>2. CASE j = Len(w) + 1
      BY <2>4, <2>5, <3>1, <3>2
    <3>3. CASE j # Len(w) + 1
      <4>1. j \in 1 .. Len(w) /\ v[j] = w[j]
        BY <1>1, <2>4, <3>3
      <4> QED BY <3>1, <4>1 DEF IsWalk
    <3> QED BY <3>2, <3>3
  <2>7. \A i \in 1 .. Len(v) : v[i] \in IF i = 1 THEN start ELSE step[v[i - 1]]
    <3> SUFFICES ASSUME NEW i \in 1 .. Len(v)
                 PROVE  v[i] \in IF i = 1 THEN start ELSE step[v[i - 1]]
      OBVIOUS
    <3>1. CASE i \in 1 .. Len(w)
      <4>1. v[i] = w[i] /\ (i # 1 => v[i - 1] = w[i - 1])
        BY <1>1, <2>4, <3>1
      <4> QED BY <3>1, <4>1 DEF IsWalk
    <3>2. CASE i = Len(w) + 1 /\ w = <<>>
      <4>1. i = 1 /\ v[i] = k /\ k \in start
        BY <2>2, <2>4, <3>2 DEF NextOf
      <4> QED BY <4>1
    <3>3. CASE i = Len(w) + 1 /\ w # <<>>
      <4>1. i # 1 /\ v[i] = k /\ v[i - 1] = w[Len(w)] /\ k \in step[w[Len(w)]]
        BY <1>1, <1>2, <2>2, <2>4, <3>3 DEF NextOf
      <4> QED BY <4>1
    <3>4. i \in 1 .. Len(w) \/ i = Len(w) + 1
      BY <1>1, <2>4
    <3> QED BY <3>1, <3>2, <3>3, <3>4
  <2> QED BY <1>6, <2>4, <2>6, <2>7 DEF IsWalk
<1> QED BY <1>5, <1>6

\* A walk of increasing keys has room for its numbers.
LEMMA WalkRoom ==
  ASSUME NEW start, NEW step, NEW S \in SUBSET db, NEW o, NEW n, Proceeds(start, step, S, o, n),
         NEW w, IsWalk(w, start, step, S, o)
  PROVE  \A i \in 1 .. Len(w) : i =< o[w[i]] /\ o[w[i]] \in 1 .. n /\ w[i] \in S
<1>1. w \in Seq(S) /\ Len(w) \in Nat
  BY DEF IsWalk
<1>2. \A i \in 1 .. Len(w) : w[i] \in S /\ o[w[i]] \in 1 .. n
  BY <1>1, ElementOfSeq DEF Proceeds
<1> DEFINE Bad == {i \in 1 .. Len(w) : ~(i =< o[w[i]])}
<1>3. Bad = {}
  <2> SUFFICES ASSUME Bad # {}
               PROVE  FALSE
    OBVIOUS
  <2>1. PICK i \in Bad : \A j \in Bad : i =< j
    <3>1. Bad \in SUBSET Nat
      OBVIOUS
    <3> HIDE DEF Bad
    <3> QED BY <3>1, LeastNumber
  <2>2. i \in 1 .. Len(w) /\ ~(i =< o[w[i]]) /\ n \in Nat
    BY <2>1 DEF Proceeds
  <2>3. i # 1
    BY <1>2, <2>2
  <2>4. i - 1 \in 1 .. Len(w) /\ ~(i =< i - 1) /\ i - 1 < i
    BY <1>1, <2>2, <2>3
  <2>5. i - 1 =< o[w[i - 1]]
    BY <2>1, <2>4
  <2>6. o[w[i - 1]] < o[w[i]]
    BY <2>2, <2>4 DEF IsWalk
  <2>7. o[w[i]] \in Nat /\ o[w[i - 1]] \in Nat
    BY <1>2, <2>2, <2>4
  <2> QED BY <2>2, <2>5, <2>6, <2>7
<1> QED BY <1>2, <1>3

\* A walk ends where there is nothing more to read.
LEMMA WalkOf ==
  ASSUME NEW start, NEW step, NEW lower, NEW upper, NEW o, NEW n,
         Proceeds(start, step, Kept(lower, upper), o, n)
  PROVE  IsWhole(Walk(start, step, lower, upper), start, step, Kept(lower, upper), o)
<1> DEFINE S == Kept(lower, upper)
<1>0. n \in Nat /\ n = Cardinality(db) /\ S \subseteq db
  BY DEF Proceeds, Kept
<1>1. PICK went : /\ IsWent(went, start, step, lower, upper, n)
                  /\ Walk(start, step, lower, upper) = went[n]
  BY <1>0, WentExists
<1> DEFINE I(m) == /\ IsWalk(went[m], start, step, S, o)
                   /\ Len(went[m]) = m \/ NextOf(went[m], start, step) \cap S = {}
           Bad == {m \in 0 .. n : ~I(m)}
<1>2. I(0)
  <2>1. went[0] = <<>>
    BY <1>1 DEF IsWent
  <2> QED BY <2>1 DEF IsWalk
<1>3. Bad = {}
  <2> SUFFICES ASSUME Bad # {}
               PROVE  FALSE
    OBVIOUS
  <2>1. PICK m \in Bad : \A j \in Bad : m =< j
    <3>1. Bad \in SUBSET Nat
      BY <1>0
    <3> HIDE DEF Bad
    <3> QED BY <3>1, LeastNumber
  <2>2. m \in 0 .. n /\ ~I(m)
    BY <2>1
  <2>3. m # 0
    <3> HIDE DEF I
    <3> QED BY <1>2, <2>2
  <2>4. m \in 1 .. n /\ m - 1 \in 0 .. n /\ ~(m =< m - 1)
    BY <1>0, <2>2, <2>3
  <2>5. I(m - 1)
    <3> HIDE DEF I
    <3> QED BY <2>1, <2>4
  <2>6. went[m] = Turn(start, step, lower, upper, went[m - 1])
    BY <1>1, <2>4 DEF IsWent
  <2>7. PICK w : w = went[m - 1]
    OBVIOUS
  <2>8. /\ IsWalk(w, start, step, S, o)
        /\ Len(w) = m - 1 \/ NextOf(w, start, step) \cap S = {}
    BY <2>5, <2>7
  <2>9. /\ IsWalk(went[m], start, step, S, o)
        /\ \/ Len(went[m]) = Len(w) + 1
           \/ went[m] = w /\ NextOf(w, start, step) \cap S = {}
        /\ NextOf(w, start, step) \cap S = {} => went[m] = w
    BY <2>6, <2>7, <2>8, TurnOf
  <2>10. m - 1 + 1 = m
    BY <2>4
  <2> HIDE DEF S
  <2> QED BY <2>2, <2>8, <2>9, <2>10
<1>4. PICK w : w = went[n]
  OBVIOUS
<1>5. IsWalk(w, start, step, S, o) /\ (Len(w) = n \/ NextOf(w, start, step) \cap S = {})
  <2>1. n \in 0 .. n
    BY <1>0
  <2>2. I(n)
    <3> HIDE DEF I
    <3> QED BY <1>3, <2>1
  <2> QED BY <1>4, <2>2
<1>6. CASE Len(w) = n
  <2>1. ASSUME NEW k \in NextOf(w, start, step), k \in S
        PROVE  FALSE
    <3>1. k \in db /\ o[k] \in 1 .. n
      BY <1>0, <2>1 DEF Proceeds
    <3>2. n \in 1 .. Len(w) /\ w # <<>>
      BY <1>0, <1>6, <3>1, EmptySeq
    <3>3. n =< o[w[n]] /\ o[w[n]] \in 1 .. n /\ w[n] \in S
      BY <1>0, <1>5, <3>2, WalkRoom
    <3>4. o[w[n]] < o[k]
      BY <1>6, <2>1, <3>2, <3>3 DEF NextOf, Proceeds
    <3> QED BY <1>0, <3>1, <3>3, <3>4
  <2>2. NextOf(w, start, step) \cap S = {}
    BY <2>1
  <2> QED BY <1>1, <1>4, <1>5, <2>2 DEF IsWhole
<1> QED BY <1>1, <1>4, <1>5, <1>6 DEF IsWhole

\* Key k comes before what is read of a set.
Short(k, set, S, o) == \A s \in set : s \in S => o[k] < o[s]

\* What a walk leaves out lies between one of its turns and the next.
LEMMA WalkCovers ==
  ASSUME NEW start, NEW step, NEW S \in SUBSET db, NEW o, NEW n, Proceeds(start, step, S, o, n),
         NEW w, IsWhole(w, start, step, S, o), NEW k \in db
  PROVE  \/ Short(k, start, S, o)
         \/ \E i \in 1 .. Len(w) : o[w[i]] =< o[k] /\ Short(k, step[w[i]], S, o)
<1>1. w \in Seq(S) /\ Len(w) \in Nat /\ n \in Nat
  BY DEF IsWhole, IsWalk, Proceeds
<1>2. \A i \in 1 .. Len(w) : o[w[i]] \in 1 .. n /\ w[i] \in db /\ w[i] \in S
  BY WalkRoom DEF IsWhole
<1>3. o[k] \in 1 .. n
  BY DEF Proceeds
<1> DEFINE P == {i \in 1 .. Len(w) : o[w[i]] =< o[k]}
<1>4. CASE P = {}
  <2>1. CASE w = <<>>
    <3>1. start \cap S = {}
      BY <2>1 DEF IsWhole, NextOf
    <3> QED BY <3>1 DEF Short
  <2>2. CASE w # <<>>
    <3>1. 1 \in 1 .. Len(w)
      BY <1>1, <2>2, EmptySeq
    <3>2. w[1] \in start /\ ~(o[w[1]] =< o[k])
      BY <1>4, <3>1 DEF IsWhole, IsWalk
    <3>3. \A s \in start : s = w[1]
      BY <3>2 DEF Proceeds
    <3>4. o[k] < o[w[1]]
      BY <1>2, <1>3, <3>1, <3>2
    <3> QED BY <3>3, <3>4 DEF Short
  <2> QED BY <2>1, <2>2
<1>5. CASE P # {}
  <2>1. PICK i \in P : \A j \in P : j =< i
    <3>1. P \in SUBSET Nat /\ \A j \in P : j =< Len(w)
      BY <1>1
    <3> HIDE DEF P
    <3> QED BY <1>1, <1>5, <3>1, GreatestNumber
  <2>2. i \in 1 .. Len(w) /\ o[w[i]] =< o[k]
    BY <2>1
  <2>3. CASE i = Len(w)
    <3>1. step[w[i]] \cap S = {}
      BY <1>1, <2>2, <2>3, EmptySeq DEF IsWhole, NextOf
    <3> QED BY <2>2, <3>1 DEF Short
  <2>4. CASE i # Len(w)
    <3>1. i + 1 \in 1 .. Len(w) /\ i + 1 # 1 /\ (i + 1) - 1 = i /\ ~(i + 1 =< i)
      BY <1>1, <2>2, <2>4
    <3>2. w[i + 1] \in step[w[i]]
      <4>1. \A j \in 1 .. Len(w) : w[j] \in IF j = 1 THEN start ELSE step[w[j - 1]]
        BY DEF IsWhole, IsWalk
      <4>2. w[i + 1] \in step[w[(i + 1) - 1]]
        BY <3>1, <4>1
      <4> QED BY <3>1, <4>2
    <3>3. ~(o[w[i + 1]] =< o[k])
      BY <2>1, <3>1
    <3>4. o[k] < o[w[i + 1]]
      BY <1>2, <1>3, <3>1, <3>3
    <3>5. \A s \in step[w[i]] : s = w[i + 1]
      BY <1>2, <2>2, <3>2 DEF Proceeds
    <3> QED BY <2>2, <3>4, <3>5 DEF Short
  <2> QED BY <2>3, <2>4
<1> QED BY <1>4, <1>5

-----------------------------------------------------------------------------
(***************************************************************************)
(* Scans, forward and in reverse.                                          *)
(***************************************************************************)

\* The same order, equality included.
LEMMA UpToTransitive ==
  ASSUME NEW a \in Seq(Nat), NEW b \in Seq(Nat), NEW c \in Seq(Nat), UpTo(a, b), UpTo(b, c)
  PROVE  UpTo(a, c)
BY BeforeTransitive DEF UpTo

\* The keys of S, each once, in the order of o.
Enumerates(w, S, o) ==
  /\ w \in Seq(S)
  /\ \A i, j \in 1 .. Len(w) : i < j => o[w[i]] < o[w[j]]
  /\ \A k \in S : \E i \in 1 .. Len(w) : w[i] = k

\* scan reads the keys of a range, each once and in order.
LEMMA ScanOf ==
  ASSUME NEW place, NEW n, Numbers(place, n), NEW lower \in Seq(Nat), NEW upper \in Seq(Nat)
  PROVE  Enumerates(Scan(lower, upper), Kept(lower, upper), place)
<1> DEFINE step == [k \in db |-> After(k)]
           start == Seek(lower)
           S == Kept(lower, upper)
<1>1. /\ n \in Nat /\ n = Cardinality(db) /\ place \in [db -> 1 .. n]
      /\ \A k \in db : k \in Seq(Nat) /\ place[k] \in Nat
      /\ \A j, k \in db : place[j] =< place[k] <=> UpTo(j, k)
      /\ \A j, k \in db : place[j] < place[k] <=> Before(j, k)
      /\ \A j, k \in db : place[j] = place[k] => j = k
  BY DEF Numbers
<1>2. IsFirst(start, NotBefore(lower), place) /\ \A k \in db : IsFirst(After(k), Following(k), place)
  BY StepsOf
<1>3. Proceeds(start, step, S, place, n)
  <2>1. start \subseteq db /\ \A j, k \in start : j = k
    BY <1>2 DEF IsFirst, NotBefore
  <2>2. ASSUME NEW k \in S
        PROVE  /\ step[k] \subseteq db /\ \A i, j \in step[k] : i = j
               /\ \A j \in step[k] : place[k] < place[j]
    BY <1>1, <1>2 DEF IsFirst, Following, Kept
  <2> QED BY <1>1, <2>1, <2>2 DEF Proceeds
<1>4. PICK w : w = Scan(lower, upper)
  OBVIOUS
<1>5. IsWhole(w, start, step, S, place)
  BY <1>3, <1>4, WalkOf DEF Scan
<1>6. S \subseteq db /\ \A k \in db : k \in S <=> UpTo(lower, k) /\ UpTo(k, upper)
  BY DEF Kept, Inside
<1>7. \A i \in 1 .. Len(w) : w[i] \in S
  BY <1>3, <1>5, <1>6, WalkRoom DEF IsWhole
<1>8. \A k \in db : step[k] = After(k)
  OBVIOUS
<1> HIDE DEF S, step, start
<1>9. ASSUME NEW k \in S
      PROVE  \E i \in 1 .. Len(w) : w[i] = k
  <2>1. k \in db /\ UpTo(lower, k) /\ UpTo(k, upper)
    BY <1>6
  <2>2. \A s \in db : UpTo(lower, s) /\ place[s] =< place[k] => s \in S
    BY <1>1, <1>6, <2>1, UpToTransitive
  <2>3. ~Short(k, start, S, place)
    <3>1. k \in NotBefore(lower)
      BY <2>1 DEF NotBefore
    <3>2. PICK s \in start : place[s] =< place[k]
      BY <1>2, <3>1 DEF IsFirst
    <3>3. s \in db /\ UpTo(lower, s)
      BY <1>2, <3>2 DEF IsFirst, NotBefore
    <3>4. place[s] \in Nat /\ place[k] \in Nat
      BY <1>1, <2>1, <3>3
    <3>5. ~(place[k] < place[s])
      BY <3>2, <3>4
    <3> QED BY <2>2, <3>2, <3>3, <3>5 DEF Short
  <2>4. PICK i \in 1 .. Len(w) : place[w[i]] =< place[k] /\ Short(k, step[w[i]], S, place)
    BY <1>3, <1>5, <1>6, <2>1, <2>3, WalkCovers
  <2>5. w[i] \in S /\ w[i] \in db /\ UpTo(lower, w[i])
    BY <1>6, <1>7
  <2>6. CASE w[i] # k
    <3>1. Before(w[i], k)
      BY <1>1, <2>1, <2>4, <2>5, <2>6 DEF UpTo
    <3>2. k \in Following(w[i])
      BY <2>1, <3>1 DEF Following
    <3>3. PICK s \in After(w[i]) : place[s] =< place[k]
      BY <1>2, <2>5, <3>2 DEF IsFirst
    <3>4. s \in db /\ UpTo(w[i], s)
      BY <1>2, <2>5, <3>3 DEF IsFirst, Following, UpTo
    <3>5. UpTo(lower, s)
      BY <1>1, <2>5, <3>4, UpToTransitive
    <3>6. place[k] < place[s]
      BY <1>8, <2>2, <2>4, <2>5, <3>3, <3>4, <3>5 DEF Short
    <3>7. place[s] \in Nat /\ place[k] \in Nat
      BY <1>1, <2>1, <3>4
    <3> QED BY <3>3, <3>6, <3>7
  <2> QED BY <2>6
<1>10. w \in Seq(S) /\ \A i, j \in 1 .. Len(w) : i < j => place[w[i]] < place[w[j]]
  BY <1>5 DEF IsWhole, IsWalk
<1> QED BY <1>4, <1>9, <1>10 DEF Enumerates, S

\* The numbers of the keys from the last to the first.
Mirrored(place, n) == [k \in db |-> n + 1 - place[k]]

\* scan_rev reads the keys of a range, each once and in reverse order.
LEMMA ScanRevOf ==
  ASSUME NEW place, NEW n, Numbers(place, n), NEW lower \in Seq(Nat), NEW upper \in Seq(Nat)
  PROVE  Enumerates(ScanRev(lower, upper), Kept(lower, upper), Mirrored(place, n))
<1> DEFINE step == [k \in db |-> Prior(k)]
           start == SeekBack(upper)
           S == Kept(lower, upper)
           o == Mirrored(place, n)
<1>1. /\ n \in Nat /\ n = Cardinality(db) /\ place \in [db -> 1 .. n]
      /\ \A k \in db : k \in Seq(Nat) /\ place[k] \in Nat
      /\ \A j, k \in db : place[j] =< place[k] <=> UpTo(j, k)
      /\ \A j, k \in db : place[j] < place[k] <=> Before(j, k)
      /\ \A j, k \in db : place[j] = place[k] => j = k
  BY DEF Numbers
<1>2. IsLast(start, NotAfter(upper), place) /\ \A k \in db : IsLast(Prior(k), Preceding(k), place)
  BY StepsOf
<1>3. /\ o \in [db -> 1 .. n] /\ \A k \in db : o[k] \in Nat
      /\ \A j, k \in db : o[j] < o[k] <=> place[k] < place[j]
      /\ \A j, k \in db : o[j] =< o[k] <=> place[k] =< place[j]
  BY <1>1 DEF Mirrored
<1> HIDE DEF o
<1>4. Proceeds(start, step, S, o, n)
  <2>1. start \subseteq db /\ \A j, k \in start : j = k
    BY <1>2 DEF IsLast, NotAfter
  <2>2. ASSUME NEW k \in S
        PROVE  /\ step[k] \subseteq db /\ \A i, j \in step[k] : i = j
               /\ \A j \in step[k] : o[k] < o[j]
    BY <1>1, <1>2, <1>3 DEF IsLast, Preceding, Kept
  <2> QED BY <1>1, <1>3, <2>1, <2>2 DEF Proceeds
<1>5. PICK w : w = ScanRev(lower, upper)
  OBVIOUS
<1>6. IsWhole(w, start, step, S, o)
  BY <1>4, <1>5, WalkOf DEF ScanRev
<1>7. S \subseteq db /\ \A k \in db : k \in S <=> UpTo(lower, k) /\ UpTo(k, upper)
  BY DEF Kept, Inside
<1>8. \A i \in 1 .. Len(w) : w[i] \in S
  BY <1>4, <1>6, <1>7, WalkRoom DEF IsWhole
<1>9. \A k \in db : step[k] = Prior(k)
  OBVIOUS
<1> HIDE DEF S, step, start
<1>10. ASSUME NEW k \in S
       PROVE  \E i \in 1 .. Len(w) : w[i] = k
  <2>1. k \in db /\ UpTo(lower, k) /\ UpTo(k, upper)
    BY <1>7
  <2>2. \A s \in db : UpTo(s, upper) /\ place[k] =< place[s] => s \in S
    BY <1>1, <1>7, <2>1, UpToTransitive
  <2>3. ~Short(k, start, S, o)
    <3>1. k \in NotAfter(upper)
      BY <2>1 DEF NotAfter
    <3>2. PICK s \in start : place[k] =< place[s]
      BY <1>2, <3>1 DEF IsLast
    <3>3. s \in db /\ UpTo(s, upper)
      BY <1>2, <3>2 DEF IsLast, NotAfter
    <3>4. place[s] \in Nat /\ place[k] \in Nat
      BY <1>1, <2>1, <3>3
    <3>5. ~(o[k] < o[s])
      BY <1>3, <2>1, <3>2, <3>3, <3>4
    <3> QED BY <2>2, <3>2, <3>3, <3>5 DEF Short
  <2>4. PICK i \in 1 .. Len(w) : o[w[i]] =< o[k] /\ Short(k, step[w[i]], S, o)
    BY <1>4, <1>6, <1>7, <2>1, <2>3, WalkCovers
  <2>5. w[i] \in S /\ w[i] \in db /\ UpTo(w[i], upper)
    BY <1>7, <1>8
  <2>6. CASE w[i] # k
    <3>1. Before(k, w[i])
      BY <1>1, <1>3, <2>1, <2>4, <2>5, <2>6 DEF UpTo
    <3>2. k \in Preceding(w[i])
      BY <2>1, <3>1 DEF Preceding
    <3>3. PICK s \in Prior(w[i]) : place[k] =< place[s]
      BY <1>2, <2>5, <3>2 DEF IsLast
    <3>4. s \in db /\ UpTo(s, w[i])
      BY <1>2, <2>5, <3>3 DEF IsLast, Preceding, UpTo
    <3>5. UpTo(s, upper)
      BY <1>1, <2>5, <3>4, UpToTransitive
    <3>6. o[k] < o[s]
      BY <1>9, <2>2, <2>4, <2>5, <3>3, <3>4, <3>5 DEF Short
    <3>7. place[s] \in Nat /\ place[k] \in Nat /\ place[s] < place[k]
      BY <1>1, <1>3, <2>1, <3>4, <3>6
    <3> QED BY <3>3, <3>7
  <2> QED BY <2>6
<1>11. w \in Seq(S) /\ \A i, j \in 1 .. Len(w) : i < j => o[w[i]] < o[w[j]]
  BY <1>6 DEF IsWhole, IsWalk
<1> QED BY <1>5, <1>10, <1>11 DEF Enumerates, S, o

-----------------------------------------------------------------------------
\* Numbers that grow keep up with their indices.
LEMMA Growing ==
  ASSUME NEW p \in Nat, NEW q \in Nat, NEW d \in [1 .. p -> 1 .. q],
         \A i, j \in 1 .. p : i < j => d[i] < d[j]
  PROVE  p =< q /\ \A i \in 1 .. p : i =< d[i]
<1> DEFINE Bad == {i \in 1 .. p : ~(i =< d[i])}
<1>1. Bad = {}
  <2> SUFFICES ASSUME Bad # {}
               PROVE  FALSE
    OBVIOUS
  <2>1. PICK i \in Bad : \A j \in Bad : i =< j
    <3>1. Bad \in SUBSET Nat
      OBVIOUS
    <3> HIDE DEF Bad
    <3> QED BY <3>1, LeastNumber
  <2>2. i \in 1 .. p /\ ~(i =< d[i]) /\ d[i] \in 1 .. q
    BY <2>1
  <2>3. i # 1
    BY <2>2
  <2>4. i - 1 \in 1 .. p /\ ~(i =< i - 1) /\ i - 1 < i
    BY <2>2, <2>3
  <2>5. i - 1 =< d[i - 1] /\ d[i - 1] < d[i] /\ d[i - 1] \in 1 .. q
    BY <2>1, <2>2, <2>4
  <2> QED BY <2>2, <2>5
<1>2. p # 0 => p =< d[p] /\ d[p] \in 1 .. q
  BY <1>1
<1> QED BY <1>1, <1>2

\* Numbers up to p that increase p times are those from 1 to p.
LEMMA Steady ==
  ASSUME NEW p \in Nat, NEW d \in [1 .. p -> 1 .. p],
         \A i, j \in 1 .. p : i < j => d[i] < d[j]
  PROVE  \A i \in 1 .. p : d[i] = i
<1>1. \A i \in 1 .. p : i =< d[i] /\ d[i] \in 1 .. p
  BY Growing
<1>2. PICK e : e = [i \in 1 .. p |-> p + 1 - d[p + 1 - i]]
  OBVIOUS
<1>3. e \in [1 .. p -> 1 .. p] /\ \A i, j \in 1 .. p : i < j => e[i] < e[j]
  <2>1. \A i \in 1 .. p : p + 1 - i \in 1 .. p /\ e[i] = p + 1 - d[p + 1 - i]
    BY <1>2
  <2>2. \A i \in 1 .. p : d[p + 1 - i] \in 1 .. p /\ e[i] \in 1 .. p
    BY <2>1
  <2>3. ASSUME NEW i \in 1 .. p, NEW j \in 1 .. p, i < j
        PROVE  e[i] < e[j]
    <3>1. p + 1 - j < p + 1 - i
      BY <2>3
    <3>2. d[p + 1 - j] < d[p + 1 - i]
      BY <2>1, <3>1
    <3> QED BY <2>1, <2>2, <3>2
  <2>4. e \in [1 .. p -> 1 .. p]
    BY <1>2, <2>1, <2>2
  <2> QED BY <2>3, <2>4
<1>4. ASSUME NEW i \in 1 .. p
      PROVE  d[i] = i
  <2>1. p + 1 - i \in 1 .. p /\ p + 1 - (p + 1 - i) = i
    OBVIOUS
  <2>2. p + 1 - i =< e[p + 1 - i]
    BY <1>3, <2>1, Growing
  <2>3. e[p + 1 - i] = p + 1 - d[i]
    BY <1>2, <2>1
  <2> QED BY <1>1, <2>2, <2>3
<1> QED BY <1>4

\* Where the items of w are in v, counted from its end.
FromEnd(d, v, w) ==
  /\ d \in [1 .. Len(w) -> 1 .. Len(v)]
  /\ \A i, j \in 1 .. Len(w) : i < j => d[i] < d[j]
  /\ \A i \in 1 .. Len(w) : w[i] = v[Len(v) + 1 - d[i]]

\* Two readings of the same keys, in opposite orders: where the key of one is in
\* the other.
LEMMA MirrorIndex ==
  ASSUME NEW S, NEW o, NEW r, \A k \in S : o[k] \in Nat /\ r[k] \in Nat,
         \A j, k \in S : o[j] < o[k] => r[k] < r[j],
         NEW v, Enumerates(v, S, r), NEW w, Enumerates(w, S, o)
  PROVE  \E d : FromEnd(d, v, w)
<1>1. v \in Seq(S) /\ w \in Seq(S) /\ Len(v) \in Nat /\ Len(w) \in Nat
  BY DEF Enumerates
<1>2. /\ \A i \in 1 .. Len(w) : w[i] \in S
      /\ \A i \in 1 .. Len(v) : v[i] \in S
  BY <1>1, ElementOfSeq
<1>3. PICK at \in [1 .. Len(w) -> 1 .. Len(v)] : \A i \in 1 .. Len(w) : v[at[i]] = w[i]
  <2> DEFINE at == [i \in 1 .. Len(w) |-> CHOOSE j \in 1 .. Len(v) : v[j] = w[i]]
  <2>1. \A i \in 1 .. Len(w) : \E j \in 1 .. Len(v) : v[j] = w[i]
    BY <1>2 DEF Enumerates
  <2>2. \A i \in 1 .. Len(w) : at[i] \in 1 .. Len(v) /\ v[at[i]] = w[i]
    BY <2>1
  <2> QED BY <2>2
<1>4. PICK d : d = [i \in 1 .. Len(w) |-> Len(v) + 1 - at[i]]
  OBVIOUS
<1>5. \A i \in 1 .. Len(w) : /\ d[i] \in 1 .. Len(v) /\ d[i] = Len(v) + 1 - at[i]
                             /\ at[i] = Len(v) + 1 - d[i] /\ at[i] \in 1 .. Len(v)
  BY <1>1, <1>3, <1>4
<1>6. ASSUME NEW i \in 1 .. Len(w), NEW j \in 1 .. Len(w), i < j
      PROVE  d[i] < d[j]
  <2>1. o[w[i]] < o[w[j]]
    BY <1>6 DEF Enumerates
  <2>2. r[v[at[j]]] < r[v[at[i]]]
    BY <1>2, <1>3, <2>1
  <2>3. r[v[at[j]]] \in Nat /\ r[v[at[i]]] \in Nat
    BY <1>2, <1>5
  <2>4. at[i] < at[j] => r[v[at[i]]] < r[v[at[j]]]
    BY <1>5 DEF Enumerates
  <2>5. at[i] # at[j] /\ ~(at[i] < at[j])
    BY <2>2, <2>3, <2>4
  <2> QED BY <1>1, <1>5, <2>5
<1>7. d \in [1 .. Len(w) -> 1 .. Len(v)]
  BY <1>4, <1>5
<1>8. \A i \in 1 .. Len(w) : w[i] = v[Len(v) + 1 - d[i]]
  BY <1>3, <1>5
<1> QED BY <1>6, <1>7, <1>8 DEF FromEnd

\* Two readings of the same keys, in opposite orders, are each other's reverse.
LEMMA MirrorOf ==
  ASSUME NEW S, NEW o, NEW r, \A k \in S : o[k] \in Nat /\ r[k] \in Nat,
         \A j, k \in S : o[j] < o[k] <=> r[k] < r[j],
         NEW v, Enumerates(v, S, r), NEW w, Enumerates(w, S, o)
  PROVE  w = Reverse(v)
<1>1. v \in Seq(S) /\ w \in Seq(S) /\ Len(v) \in Nat /\ Len(w) \in Nat
  BY DEF Enumerates
<1>2. PICK d : FromEnd(d, v, w)
  BY MirrorIndex
<1>3. PICK e : FromEnd(e, w, v)
  BY MirrorIndex
<1>4. Len(w) =< Len(v) /\ Len(v) =< Len(w)
  BY <1>1, <1>2, <1>3, Growing DEF FromEnd
<1>5. Len(w) = Len(v)
  BY <1>1, <1>4
<1>6. \A i \in 1 .. Len(w) : d[i] = i
  BY <1>1, <1>2, <1>5, Steady DEF FromEnd
<1>7. \A i \in 1 .. Len(w) : w[i] = v[Len(v) - i + 1]
  <2> TAKE i \in 1 .. Len(w)
  <2>1. Len(v) + 1 - i = Len(v) - i + 1
    BY <1>1
  <2> QED BY <1>2, <1>6, <2>1 DEF FromEnd
<1>8. w = [i \in 1 .. Len(w) |-> w[i]]
  BY <1>1
<1> QED BY <1>5, <1>7, <1>8 DEF Reverse

-----------------------------------------------------------------------------
(***************************************************************************)
(* Bounds of a range.                                                      *)
(***************************************************************************)

\* What a bound may set a field to.
InBound(kind, v) ==
  /\ v \in Nat
  /\ kind = "slug" => v \in Names \cup {MaxSlug}
  /\ kind = "i64" => v \in 0 .. MaxI64

\* The tokens of a bound are numbers, and what a key may hold a bound may hold.
LEMMA BoundToken ==
  ASSUME NEW kind \in Kinds
  PROVE  /\ EncodeField(kind, Nil(kind)) \in Nat /\ EncodeField(kind, Top(kind)) \in Nat
         /\ \A v : InBound(kind, v) => EncodeField(kind, v) \in Nat
         /\ \A v : InField(kind, v) => InBound(kind, v) /\ v \in Nat
<1> USE KeySpaceAssumption DEF Kinds
<1>1. CASE kind = "slug"
  <2>1. \A v \in Names : v # MinSlug /\ v # MaxSlug /\ Hash[v] \in Nat /\ v \in Nat
    BY NumbersOf
  <2> QED BY <1>1, <2>1 DEF EncodeField, HashOf, Nil, Top, NilUuid, InBound, InField
<1>2. CASE kind = "uuid"
  BY <1>2 DEF InField, EncodeField, Nil, Top, NilUuid, InBound
<1>3. CASE kind = "i64"
  <2>1. PICK m \in Nat \ {0} : m = 2 * Half
    OBVIOUS
  <2>2. \A v \in Int : v % m \in Nat
    BY <2>1
  <2>3. MinI64 \in Int /\ MaxI64 \in Nat
    BY DEF MinI64, MaxI64
  <2> QED BY <1>3, <2>1, <2>2, <2>3 DEF InField, EncodeField, Nil, Top, InBound
<1> QED BY <1>1, <1>2, <1>3

\* The first fields of a bound are set, the others are an end of their kind.
InBounds(f, lo) ==
  /\ lo \in Seq(Nat) /\ Len(lo) =< Len(Layout[f])
  /\ \A i \in 1 .. Len(lo) : InBound(Layout[f][i], lo[i])

IsLower(b, f, lo) ==
  /\ b \in Seq(Nat) /\ Len(b) = Len(Layout[f]) + 1 /\ b[Len(Layout[f]) + 1] = Separator
  /\ \A i \in 1 .. Len(lo) : b[i] = EncodeField(Layout[f][i], lo[i])
  /\ \A i \in Len(lo) + 1 .. Len(Layout[f]) : b[i] = EncodeField(Layout[f][i], Nil(Layout[f][i]))

IsUpper(b, f, hi) ==
  /\ b \in Seq(Nat) /\ Len(b) = Len(Layout[f]) + 1 /\ b[Len(Layout[f]) + 1] = SeparatorUpper
  /\ \A i \in 1 .. Len(hi) : b[i] = EncodeField(Layout[f][i], hi[i])
  /\ \A i \in Len(hi) + 1 .. Len(Layout[f]) : b[i] = EncodeField(Layout[f][i], Top(Layout[f][i]))

\* lower_bound completes the fields with Nil, upper_bound with Top (KeyPrefix).
LEMMA BoundsOf ==
  ASSUME NEW f \in Fixed, NEW lo, InBounds(f, lo)
  PROVE  IsLower(LowerBound(f, lo), f, lo) /\ IsUpper(UpperBound(f, lo), f, lo)
<1>1. PICK size \in 1 .. 4 : size = Len(Layout[f])
  BY LayoutOf DEF IsLayout
<1>2. PICK m \in Nat : m = Len(lo) /\ m =< size /\ DOMAIN lo = 1 .. m
  BY <1>1 DEF InBounds
<1>3. \A i \in 1 .. size : Layout[f][i] \in Kinds
  BY <1>1, LayoutOf DEF IsLayout
<1>4. \A i \in 1 .. size : /\ EncodeField(Layout[f][i], Nil(Layout[f][i])) \in Nat
                           /\ EncodeField(Layout[f][i], Top(Layout[f][i])) \in Nat
                           /\ i =< m => EncodeField(Layout[f][i], lo[i]) \in Nat
  BY <1>1, <1>2, <1>3, BoundToken DEF InBounds
<1>5. ASSUME NEW ends, NEW x, x = EncodeFixed(f, With(f, ends, lo)),
             \A i \in 1 .. size : EncodeField(Layout[f][i], ends[i]) \in Nat
      PROVE  /\ x \in Seq(Nat) /\ Len(x) = size
             /\ \A i \in 1 .. m : x[i] = EncodeField(Layout[f][i], lo[i])
             /\ \A i \in m + 1 .. size : x[i] = EncodeField(Layout[f][i], ends[i])
  <2>1. PICK set : set = With(f, ends, lo)
    OBVIOUS
  <2>2. \A i \in 1 .. size : set[i] = IF i =< m THEN lo[i] ELSE ends[i]
    BY <1>1, <1>2, <2>1 DEF With
  <2>3. x = [i \in 1 .. size |-> EncodeField(Layout[f][i], set[i])]
    BY <1>1, <1>5, <2>1 DEF EncodeFixed
  <2>4. \A i \in 1 .. size : EncodeField(Layout[f][i], set[i]) \in Nat
    <3> TAKE i \in 1 .. size
    <3>1. CASE i =< m
      BY <1>4, <2>2, <3>1
    <3>2. CASE ~(i =< m)
      BY <1>5, <2>2, <3>2
    <3> QED BY <3>1, <3>2
  <2>5. x \in Seq(Nat) /\ Len(x) = size
    BY <2>3, <2>4
  <2>6. \A i \in 1 .. m : x[i] = EncodeField(Layout[f][i], lo[i])
    BY <1>2, <2>2, <2>3
  <2>7. \A i \in m + 1 .. size : x[i] = EncodeField(Layout[f][i], ends[i])
    BY <1>2, <2>2, <2>3
  <2> QED BY <2>5, <2>6, <2>7
<1>6. ASSUME NEW x \in Seq(Nat), Len(x) = size, NEW s \in Nat, NEW b, b = x \o <<s>>
      PROVE  /\ b \in Seq(Nat) /\ Len(b) = size + 1 /\ b[size + 1] = s
             /\ \A i \in 1 .. size : b[i] = x[i]
  <2>2. PICK y : y = <<s>>
    OBVIOUS
  <2>1. y \in Seq(Nat) /\ Len(y) = 1 /\ y[1] = s
    BY <2>2
  <2>3. /\ b \in Seq(Nat) /\ Len(b) = Len(x) + Len(y)
        /\ \A i \in 1 .. Len(x) : b[i] = x[i]
        /\ \A i \in 1 .. Len(y) : b[Len(x) + i] = y[i]
    <3>1. b = x \o y /\ x \in Seq(Nat) /\ y \in Seq(Nat)
      BY <1>6, <2>1, <2>2
    <3> QED BY <3>1, JoinOf
  <2>4. b[size + 1] = s
    BY <1>6, <2>1, <2>2, <2>3
  <2> QED BY <1>6, <2>1, <2>2, <2>3, <2>4
<1>7. IsLower(LowerBound(f, lo), f, lo)
  <2>1. PICK ends : ends = [i \in 1 .. Len(Layout[f]) |-> Nil(Layout[f][i])]
    OBVIOUS
  <2>2. \A i \in 1 .. size : ends[i] = Nil(Layout[f][i])
    BY <1>1, <2>1
  <2>3. PICK x : x = EncodeFixed(f, With(f, ends, lo))
    OBVIOUS
  <2>4. PICK b : b = LowerBound(f, lo)
    OBVIOUS
  <2>5. b = x \o <<Separator>>
    BY <2>1, <2>3, <2>4 DEF LowerBound
  <2>6. /\ x \in Seq(Nat) /\ Len(x) = size
        /\ \A i \in 1 .. m : x[i] = EncodeField(Layout[f][i], lo[i])
        /\ \A i \in m + 1 .. size : x[i] = EncodeField(Layout[f][i], ends[i])
    <3>1. \A i \in 1 .. size : EncodeField(Layout[f][i], ends[i]) \in Nat
      BY <1>4, <2>2
    <3> QED BY <1>5, <2>3, <3>1
  <2>7. /\ b \in Seq(Nat) /\ Len(b) = size + 1 /\ b[size + 1] = Separator
        /\ \A i \in 1 .. size : b[i] = x[i]
    BY <1>6, <2>5, <2>6 DEF Separator
  <2>8. \A i \in 1 .. m : b[i] = EncodeField(Layout[f][i], lo[i])
    BY <1>2, <2>6, <2>7
  <2>9. \A i \in m + 1 .. size : b[i] = EncodeField(Layout[f][i], Nil(Layout[f][i]))
    BY <1>2, <2>2, <2>6, <2>7
  <2> QED BY <1>1, <1>2, <2>4, <2>7, <2>8, <2>9 DEF IsLower
<1>8. IsUpper(UpperBound(f, lo), f, lo)
  <2>1. PICK ends : ends = [i \in 1 .. Len(Layout[f]) |-> Top(Layout[f][i])]
    OBVIOUS
  <2>2. \A i \in 1 .. size : ends[i] = Top(Layout[f][i])
    BY <1>1, <2>1
  <2>3. PICK x : x = EncodeFixed(f, With(f, ends, lo))
    OBVIOUS
  <2>4. PICK b : b = UpperBound(f, lo)
    OBVIOUS
  <2>5. b = x \o <<SeparatorUpper>>
    BY <2>1, <2>3, <2>4 DEF UpperBound
  <2>6. /\ x \in Seq(Nat) /\ Len(x) = size
        /\ \A i \in 1 .. m : x[i] = EncodeField(Layout[f][i], lo[i])
        /\ \A i \in m + 1 .. size : x[i] = EncodeField(Layout[f][i], ends[i])
    <3>1. \A i \in 1 .. size : EncodeField(Layout[f][i], ends[i]) \in Nat
      BY <1>4, <2>2
    <3> QED BY <1>5, <2>3, <3>1
  <2>7. /\ b \in Seq(Nat) /\ Len(b) = size + 1 /\ b[size + 1] = SeparatorUpper
        /\ \A i \in 1 .. size : b[i] = x[i]
    BY <1>6, <2>5, <2>6 DEF SeparatorUpper
  <2>8. \A i \in 1 .. m : b[i] = EncodeField(Layout[f][i], lo[i])
    BY <1>2, <2>6, <2>7
  <2>9. \A i \in m + 1 .. size : b[i] = EncodeField(Layout[f][i], Top(Layout[f][i]))
    BY <1>2, <2>2, <2>6, <2>7
  <2> QED BY <1>1, <1>2, <2>4, <2>7, <2>8, <2>9 DEF IsUpper
<1> QED BY <1>7, <1>8

\* Where two texts first differ decides between them.
LEMMA DecidedAt ==
  ASSUME NEW a \in Seq(Nat), NEW b \in Seq(Nat), NEW i \in 1 .. Len(a), i \in 1 .. Len(b),
         \A j \in 1 .. i - 1 : a[j] = b[j], a[i] < b[i]
  PROVE  Before(a, b) /\ UpTo(a, b) /\ ~UpTo(b, a)
<1>1. Splits(i, a, b)
  BY DEF Splits
<1>2. Before(a, b)
  BY <1>1, SplitsIsBefore
<1> QED BY <1>2, BeforeOneWay DEF UpTo

\* Two texts agree up to n, or there is a first place where they do not.
LEMMA FirstDifference ==
  ASSUME NEW a \in Seq(Nat), NEW b \in Seq(Nat), NEW n \in Nat, n =< Len(a), n =< Len(b)
  PROVE  \/ \A i \in 1 .. n : a[i] = b[i]
         \/ \E i \in 1 .. n : a[i] < b[i] /\ \A j \in 1 .. i - 1 : a[j] = b[j]
         \/ \E i \in 1 .. n : b[i] < a[i] /\ \A j \in 1 .. i - 1 : b[j] = a[j]
<1> DEFINE D == {i \in 1 .. n : a[i] # b[i]}
<1>1. CASE D = {}
  BY <1>1
<1>2. CASE D # {}
  <2>1. PICK i \in D : \A j \in D : i =< j
    <3>1. D \in SUBSET Nat
      OBVIOUS
    <3> HIDE DEF D
    <3> QED BY <1>2, <3>1, LeastNumber
  <2>2. i \in 1 .. n /\ a[i] # b[i] /\ i \in 1 .. Len(a) /\ i \in 1 .. Len(b)
    BY <2>1
  <2>3. \A j \in 1 .. i - 1 : a[j] = b[j]
    <3> SUFFICES ASSUME NEW j \in 1 .. i - 1
                 PROVE  a[j] = b[j]
      OBVIOUS
    <3>1. j \in 1 .. n /\ ~(i =< j)
      BY <2>2
    <3> QED BY <2>1, <3>1
  <2>4. a[i] \in Nat /\ b[i] \in Nat
    BY <2>2, ElementOfSeq
  <2>5. a[i] < b[i] \/ b[i] < a[i]
    BY <2>2, <2>4
  <2> QED BY <2>2, <2>3, <2>5
<1> QED BY <1>1, <1>2

-----------------------------------------------------------------------------
(***************************************************************************)
(* Ranges: which keys are inside the bounds, said of their fields.         *)
(***************************************************************************)

\* The fields of a key start with these values.
Starts(key, values) == \A i \in 1 .. Len(values) : key[i] = values[i]

\* The values are a prefix of some key.
ArePrefix(f, values) ==
  /\ values \in Seq(Nat) /\ Len(values) < Len(Layout[f])
  /\ \A i \in 1 .. Len(values) : InField(Layout[f][i], values[i])
  /\ Layout[f][Len(values) + 1] # "i64"

\* What the field after a prefix may be bounded by.
Limits(kind, at) == IF kind = "uuid" THEN at \in Nat ELSE at = Top(kind)

\* Different values of a field have different tokens: names by their hashes, which
\* the assumption takes to differ.
LEMMA TokensDiffer ==
  ASSUME NEW kind \in Kinds, NEW v, NEW w, InField(kind, v), InField(kind, w),
         EncodeField(kind, v) = EncodeField(kind, w)
  PROVE  v = w
<1>1. CASE kind = "slug"
  <2>1. v \in Names /\ w \in Names
    BY <1>1 DEF InField
  <2>2. v # MinSlug /\ v # MaxSlug /\ w # MinSlug /\ w # MaxSlug
    BY <2>1, NumbersOf
  <2>3. Hash[v] = Hash[w]
    BY <1>1, <2>2 DEF EncodeField, HashOf
  <2> QED BY <2>1, <2>3, KeySpaceAssumption
<1>2. CASE kind # "slug"
  BY <1>2, TokenOf
<1> QED BY <1>1, <1>2

\* A key is inside the bounds of a prefix when it starts with it and, where the
\* upper bound has a field more, the field is not greater.
LEMMA RangeOf ==
  ASSUME NEW f \in Fixed, NEW values, ArePrefix(f, values),
         NEW at, Limits(Layout[f][Len(values) + 1], at),
         NEW key, IsKey(f, key),
         NEW lower, lower = LowerBound(f, values), NEW upper, upper = UpperBound(f, Append(values, at))
  PROVE  /\ lower \in Seq(Nat) /\ upper \in Seq(Nat)
         /\ Inside(lower, upper, Encode(f, key)) <=>
              /\ Starts(key, values)
              /\ Layout[f][Len(values) + 1] = "uuid" => key[Len(values) + 1] =< at
<1>1. PICK size \in 1 .. 4 : size = Len(Layout[f])
  BY LayoutOf DEF IsLayout
<1>2. PICK n \in Nat : n = Len(values) /\ n < size /\ values \in Seq(Nat)
  BY <1>1 DEF ArePrefix
<1>3. PICK kind : kind = Layout[f][n + 1]
  OBVIOUS
<1>4. \A i \in 1 .. size : Layout[f][i] \in Kinds /\ InField(Layout[f][i], key[i])
  BY <1>1, LayoutOf DEF IsLayout, IsKey
<1>5. kind \in Kinds /\ kind # "i64" /\ n + 1 \in 1 .. size
  <2>1. n + 1 \in 1 .. size
    BY <1>1, <1>2
  <2> QED BY <1>2, <1>3, <1>4, <2>1 DEF ArePrefix
<1>6. InBounds(f, values) /\ \A i \in 1 .. n : InField(Layout[f][i], values[i])
  <2>1. \A i \in 1 .. n : InField(Layout[f][i], values[i]) /\ Layout[f][i] \in Kinds
    BY <1>1, <1>2, <1>4 DEF ArePrefix
  <2>2. \A i \in 1 .. n : InBound(Layout[f][i], values[i])
    BY <2>1, BoundToken
  <2> QED BY <1>1, <1>2, <2>1, <2>2 DEF InBounds
<1>7. IsLower(lower, f, values)
  BY <1>6, BoundsOf
<1>8. PICK hi : hi = Append(values, at)
  OBVIOUS
<1>9. at \in Nat /\ InBound(kind, at)
  <2>1. Limits(kind, at)
    BY <1>2, <1>3
  <2> QED BY <1>5, <2>1, KeySpaceAssumption DEF Limits, InBound, Top, Kinds
<1>10. /\ hi \in Seq(Nat) /\ Len(hi) = n + 1 /\ hi[n + 1] = at
       /\ \A i \in 1 .. n : hi[i] = values[i]
  BY <1>2, <1>8, <1>9, AppendProperties
<1>11. IsUpper(upper, f, hi)
  <2>1. \A i \in 1 .. n + 1 : InBound(Layout[f][i], hi[i])
    <3> TAKE i \in 1 .. n + 1
    <3>1. CASE i = n + 1
      BY <1>3, <1>9, <1>10, <3>1
    <3>2. CASE i # n + 1
      <4>1. i \in 1 .. n
        BY <1>2, <3>2
      <4> QED BY <1>2, <1>6, <1>10, <4>1 DEF InBounds
    <3> QED BY <3>1, <3>2
  <2>2. InBounds(f, hi)
    BY <1>1, <1>2, <1>10, <2>1 DEF InBounds
  <2> QED BY <1>8, <2>2, BoundsOf
<1>12. PICK e : e = Encode(f, key)
  OBVIOUS
<1>13. /\ e \in Seq(Nat) /\ Len(e) >= size + 1 /\ e[size + 1] = Separator
       /\ \A i \in 1 .. size : e[i] = EncodeField(Layout[f][i], key[i])
  <2>1. PICK m \in Nat : m = Cardinality(Slugs(f))
    BY PlaceOf
  <2>2. /\ e \in Seq(Nat) /\ Len(e) = size + 1 + m /\ e[size + 1] = Separator
        /\ \A i \in 1 .. size : e[i] = EncodeField(Layout[f][i], key[i])
    BY <1>1, <1>12, <2>1, EncodeOf
  <2>3. size + 1 + m >= size + 1
    BY <2>1
  <2> QED BY <2>2, <2>3
<1>14. /\ lower \in Seq(Nat) /\ Len(lower) = size + 1 /\ lower[size + 1] = Separator
       /\ \A i \in 1 .. n : lower[i] = EncodeField(Layout[f][i], values[i])
       /\ lower[n + 1] = EncodeField(kind, Nil(kind))
  <2>1. n + 1 \in n + 1 .. size
    BY <1>2
  <2> QED BY <1>1, <1>2, <1>3, <1>7, <2>1 DEF IsLower
<1>15. /\ upper \in Seq(Nat) /\ Len(upper) = size + 1 /\ upper[size + 1] = SeparatorUpper
       /\ \A i \in 1 .. n : upper[i] = lower[i]
       /\ upper[n + 1] = EncodeField(kind, at)
       /\ \A i \in n + 2 .. size : upper[i] = EncodeField(Layout[f][i], Top(Layout[f][i]))
  <2>1. \A i \in 1 .. n : i \in 1 .. n + 1
    BY <1>2
  <2>2. n + 1 \in 1 .. n + 1 /\ (n + 1) + 1 = n + 2
    BY <1>2
  <2> QED BY <1>1, <1>3, <1>10, <1>11, <1>14, <2>1, <2>2 DEF IsUpper
<1>19. \A i \in 1 .. size + 1 : /\ i \in 1 .. Len(e) /\ i \in 1 .. Len(lower) /\ i \in 1 .. Len(upper)
                               /\ e[i] \in Nat /\ lower[i] \in Nat /\ upper[i] \in Nat
  <2>1. Len(e) \in Nat /\ size + 1 =< Len(e)
    BY <1>13
  <2>2. \A i \in 1 .. size + 1 : i \in 1 .. Len(e) /\ i \in 1 .. Len(lower) /\ i \in 1 .. Len(upper)
    BY <1>14, <1>15, <2>1
  <2> QED BY <1>13, <1>14, <1>15, <2>2, ElementOfSeq
<1>20. n =< Len(e) /\ n =< Len(lower) /\ n =< Len(upper)
  <2>1. Len(e) \in Nat /\ Len(lower) \in Nat /\ Len(upper) \in Nat
    BY <1>13, <1>14, <1>15
  <2>2. n =< size + 1 /\ size + 1 =< Len(e) /\ size + 1 = Len(lower) /\ size + 1 = Len(upper)
    BY <1>2, <1>13, <1>14, <1>15
  <2> QED BY <1>2, <2>1, <2>2
<1>16. kind = "uuid" => key[n + 1] \in Nat /\ key[n + 1] = e[n + 1]
  <2>1. e[n + 1] = EncodeField(kind, key[n + 1]) /\ InField(kind, key[n + 1])
    BY <1>3, <1>4, <1>5, <1>13
  <2> QED BY <1>5, <2>1, TokenOf
<1>17. CASE \E i \in 1 .. n : e[i] # lower[i]
  <2>1. ~Starts(key, values)
    <3>1. PICK i \in 1 .. n : e[i] # lower[i]
      BY <1>17
    <3>2. i \in 1 .. size
      BY <1>2
    <3>3. key[i] # values[i]
      BY <1>13, <1>14, <3>1, <3>2
    <3> QED BY <1>2, <3>3 DEF Starts
  <2>2. n =< Len(e) /\ n =< Len(lower) /\ n =< Len(upper)
    BY <1>20
  <2>3. \/ \E i \in 1 .. n : e[i] < lower[i] /\ \A j \in 1 .. i - 1 : e[j] = lower[j]
        \/ \E i \in 1 .. n : lower[i] < e[i] /\ \A j \in 1 .. i - 1 : lower[j] = e[j]
    BY <1>13, <1>14, <1>17, <2>2, FirstDifference
  <2>4. ~Inside(lower, upper, e)
    <3>1. ASSUME NEW i \in 1 .. n, e[i] < lower[i], \A j \in 1 .. i - 1 : e[j] = lower[j]
          PROVE  ~UpTo(lower, e)
      <4>1. i \in 1 .. Len(e) /\ i \in 1 .. Len(lower)
        BY <2>2, <1>13
      <4> QED BY <1>13, <1>14, <3>1, <4>1, DecidedAt
    <3>2. ASSUME NEW i \in 1 .. n, lower[i] < e[i], \A j \in 1 .. i - 1 : lower[j] = e[j]
          PROVE  ~UpTo(e, upper)
      <4>1. i \in 1 .. Len(e) /\ i \in 1 .. Len(upper) /\ \A j \in 1 .. i - 1 : j \in 1 .. n
        BY <2>2, <1>13
      <4>2. upper[i] < e[i] /\ \A j \in 1 .. i - 1 : upper[j] = e[j]
        BY <1>15, <3>2, <4>1
      <4> QED BY <1>13, <1>15, <4>1, <4>2, DecidedAt
    <3> QED BY <2>3, <3>1, <3>2 DEF Inside
  <2> QED BY <1>2, <1>12, <1>14, <1>15, <2>1, <2>4
<1>18. CASE \A i \in 1 .. n : e[i] = lower[i]
  <2>1. Starts(key, values)
    <3>1. ASSUME NEW i \in 1 .. n
          PROVE  key[i] = values[i]
      <4>1. i \in 1 .. size
        BY <1>2
      <4>2. EncodeField(Layout[f][i], key[i]) = EncodeField(Layout[f][i], values[i])
        BY <1>13, <1>14, <1>18, <4>1
      <4> QED BY <1>4, <1>6, <4>1, <4>2, TokensDiffer
    <3> QED BY <1>2, <3>1 DEF Starts
  <2>2. /\ n + 1 \in 1 .. Len(e) /\ n + 1 \in 1 .. Len(lower) /\ n + 1 \in 1 .. Len(upper)
        /\ (n + 1) - 1 = n
    BY <1>2, <1>5, <1>19
  <2>3. e[n + 1] = EncodeField(kind, key[n + 1]) /\ InField(kind, key[n + 1])
    BY <1>3, <1>4, <1>5, <1>13
  <2>4. UpTo(lower, e)
    <3>1. lower[n + 1] < e[n + 1]
      BY <1>5, <1>14, <2>3, TokenOf, BoundToken
    <3>2. \A j \in 1 .. (n + 1) - 1 : lower[j] = e[j]
      BY <1>18, <2>2
    <3> QED BY <1>13, <1>14, <2>2, <3>1, <3>2, DecidedAt
  <2>5. \A j \in 1 .. (n + 1) - 1 : upper[j] = e[j]
    BY <1>15, <1>18, <2>2
  <2>6. CASE kind # "uuid"
    <3>1. at = Top(kind)
      BY <1>2, <1>3, <2>6 DEF Limits
    <3>2. e[n + 1] < upper[n + 1]
      BY <1>5, <1>15, <2>3, <3>1, TokenOf, BoundToken
    <3>3. UpTo(e, upper)
      BY <1>13, <1>15, <2>2, <2>5, <3>2, DecidedAt
    <3> QED BY <1>2, <1>3, <1>12, <1>14, <1>15, <2>1, <2>4, <2>6, <3>3 DEF Inside
  <2>7. CASE kind = "uuid"
    <3>1. upper[n + 1] = at /\ e[n + 1] = key[n + 1] /\ e[n + 1] \in Nat
      BY <1>15, <1>16, <2>7 DEF EncodeField
    <3>2. CASE at < key[n + 1]
      <4>1. ~UpTo(e, upper)
        BY <1>13, <1>15, <2>2, <2>5, <3>1, <3>2, DecidedAt
      <4>2. ~(key[n + 1] =< at)
        BY <1>9, <3>1, <3>2
      <4> QED BY <1>2, <1>3, <1>12, <1>14, <1>15, <2>7, <4>1, <4>2 DEF Inside
    <3>3. CASE key[n + 1] =< at
      <4>1. UpTo(e, upper)
        <5>1. CASE key[n + 1] < at
          BY <1>13, <1>15, <2>2, <2>5, <3>1, <5>1, DecidedAt
        <5>2. CASE key[n + 1] = at
          <6>1. \A i \in 1 .. size : e[i] =< upper[i]
            <7> TAKE i \in 1 .. size
            <7>1. CASE i =< n
              <8>1. i \in 1 .. n
                BY <7>1
              <8>2. e[i] = upper[i] /\ e[i] \in Nat
                BY <1>15, <1>18, <1>19, <8>1
              <8> QED BY <8>2
            <7>2. CASE i = n + 1
              BY <3>1, <5>2, <7>2
            <7>3. CASE i > n + 1
              <8>1. i \in n + 2 .. size
                BY <1>2, <7>3
              <8> QED BY <1>4, <1>13, <1>15, <8>1, TokenOf
            <7> QED BY <1>2, <7>1, <7>2, <7>3
          <6>2. size =< Len(e) /\ size =< Len(upper) /\ size \in Nat
            BY <1>13, <1>15
          <6>3. \A i \in 1 .. size : e[i] \in Nat /\ upper[i] \in Nat /\ ~(upper[i] < e[i])
            <7>1. \A i \in 1 .. size : e[i] \in Nat /\ upper[i] \in Nat
              BY <1>19
            <7> QED BY <6>1, <7>1
          <6>4. CASE \A i \in 1 .. size : e[i] = upper[i]
            <7>1. size + 1 \in 1 .. Len(e) /\ size + 1 \in 1 .. Len(upper) /\ (size + 1) - 1 = size
              BY <1>13, <1>15
            <7>2. e[size + 1] < upper[size + 1]
              BY <1>13, <1>15 DEF Separator, SeparatorUpper
            <7> QED BY <1>13, <1>15, <6>4, <7>1, <7>2, DecidedAt
          <6>5. CASE \E i \in 1 .. size : e[i] < upper[i] /\ \A j \in 1 .. i - 1 : e[j] = upper[j]
            <7>1. PICK i \in 1 .. size : e[i] < upper[i] /\ \A j \in 1 .. i - 1 : e[j] = upper[j]
              BY <6>5
            <7>2. i \in 1 .. Len(e) /\ i \in 1 .. Len(upper)
              BY <1>13, <1>15
            <7> QED BY <1>13, <1>15, <7>1, <7>2, DecidedAt
          <6> QED BY <1>13, <1>15, <6>2, <6>3, <6>4, <6>5, FirstDifference
        <5> QED BY <1>9, <3>1, <3>3, <5>1, <5>2
      <4> QED BY <1>2, <1>3, <1>12, <1>14, <1>15, <2>1, <2>4, <3>3, <4>1 DEF Inside
    <3> QED BY <1>9, <3>1, <3>2, <3>3
  <2> QED BY <2>6, <2>7
<1> QED BY <1>17, <1>18

-----------------------------------------------------------------------------
(***************************************************************************)
(* Scans match rows.                                                       *)
(***************************************************************************)

\* A key of a fixed layout is a sequence as long as its layout.
LEMMA KeyIsSeq ==
  ASSUME NEW f \in Fixed, NEW key \in Keys(f)
  PROVE  key \in Seq(Nat) /\ Len(key) = Len(Layout[f]) /\ f # "assertions"
<1>1. PICK size \in 1 .. 4 : size = Len(Layout[f])
  BY LayoutOf DEF IsLayout
<1>2. f # "assertions"
  BY DEF Fixed, Layout
<1>3. key \in [1 .. size -> UNION {Values(f, i) : i \in 1 .. Len(Layout[f])}]
  BY <1>1, <1>2 DEF Keys
<1>4. \A i \in 1 .. size : InField(Layout[f][i], key[i]) /\ Layout[f][i] \in Kinds
  BY <1>1, KeyFields, LayoutOf DEF IsKey, IsLayout
<1>5. \A i \in 1 .. size : key[i] \in Nat
  BY <1>4, BoundToken
<1>6. key = [i \in 1 .. size |-> key[i]]
  BY <1>3
<1>7. key \in Seq(Nat) /\ Len(key) = size
  BY <1>5, <1>6
<1> QED BY <1>1, <1>2, <1>7

\* A key starts with the values if they are its first fields.
LEMMA StartOf ==
  ASSUME NEW key \in Seq(Nat), NEW values \in Seq(Nat), Len(values) =< Len(key)
  PROVE  SubSeq(key, 1, Len(values)) = values <=> Starts(key, values)
<1>1. PICK n \in Nat : n = Len(values) /\ n =< Len(key)
  OBVIOUS
<1>2. PICK s : s = SubSeq(key, 1, n)
  OBVIOUS
<1>3. s \in Seq(Nat) /\ Len(s) = n /\ \A i \in 1 .. n : s[i] = key[i]
  <2>1. \A i \in 1 .. n : key[i] \in Nat
    BY <1>1
  <2>2. /\ s \in Seq(Nat) /\ Len(s) = IF 1 =< n THEN n - 1 + 1 ELSE 0
        /\ \A i \in 1 .. n - 1 + 1 : s[i] = key[1 + i - 1]
    BY <1>2, <2>1, SubSeqProperties
  <2>3. n - 1 + 1 = n /\ \A i \in 1 .. n : 1 + i - 1 = i
    BY <1>1
  <2> QED BY <1>1, <2>2, <2>3
<1>4. CASE Starts(key, values)
  <2>1. \A i \in 1 .. n : s[i] = values[i]
    BY <1>1, <1>3, <1>4 DEF Starts
  <2>2. s = values
    BY <1>1, <1>3, <2>1, SeqEqual
  <2> QED BY <1>1, <1>2, <1>4, <2>2
<1>5. CASE s = values
  <2>1. Starts(key, values)
    BY <1>1, <1>3, <1>5 DEF Starts
  <2> QED BY <1>1, <1>2, <1>5, <2>1
<1> QED BY <1>1, <1>2, <1>4, <1>5

\* A range of a prefix holds the rows of the prefix.
RangeRows(values, at) ==
  {s \in Under(values) : Layout[cf][Len(values) + 1] = "uuid" => s[Len(values) + 1] =< at}

\* The keys a range keeps are those of the rows of its prefix.
LEMMA KeptRows ==
  ASSUME DbInv, cf \in Fixed, NEW values, ArePrefix(cf, values),
         NEW at, Limits(Layout[cf][Len(values) + 1], at)
  PROVE  LET lower == LowerBound(cf, values)
             upper == UpperBound(cf, Append(values, at))
         IN  /\ lower \in Seq(Nat) /\ upper \in Seq(Nat)
             /\ Decoded(Kept(lower, upper)) = RangeRows(values, at)
<1>1. PICK lower, upper : lower = LowerBound(cf, values) /\ upper = UpperBound(cf, Append(values, at))
  OBVIOUS
<1>2. \A s \in rows : /\ s \in Keys(cf) /\ IsKey(cf, s) /\ s \in Seq(Nat) /\ Len(s) = Len(Layout[cf])
                      /\ cf # "assertions" /\ EncodeKey(cf, s) = Encode(cf, s)
                      /\ EncodeKey(cf, s) \in db
  <2>1. \A s \in rows : s \in Keys(cf) /\ EncodeKey(cf, s) \in db
    BY DEF DbInv
  <2> QED BY <2>1, KeyFields, KeyIsSeq DEF EncodeKey
<1>3. \A k \in db : DecodeKey(cf, k) \in rows /\ k = EncodeKey(cf, DecodeKey(cf, k))
  BY RowsAreRead
<1>4. \A s \in rows : DecodeKey(cf, EncodeKey(cf, s)) = s
  BY <1>2, KeyOfBytes DEF DbInv
<1>5. ASSUME NEW s \in rows
      PROVE  EncodeKey(cf, s) \in Kept(lower, upper) <=> s \in RangeRows(values, at)
  <2>1. Inside(lower, upper, Encode(cf, s)) <=>
              /\ Starts(s, values)
              /\ Layout[cf][Len(values) + 1] = "uuid" => s[Len(values) + 1] =< at
    BY <1>1, <1>2, RangeOf
  <2>2. SubSeq(s, 1, Len(values)) = values <=> Starts(s, values)
    <3>1. values \in Seq(Nat) /\ Len(values) =< Len(s)
      BY <1>2 DEF ArePrefix
    <3> QED BY <1>2, <3>1, StartOf
  <2> QED BY <1>2, <2>1, <2>2 DEF Kept, RangeRows, Under
<1>6. RangeRows(values, at) \subseteq rows
  BY DEF RangeRows, Under
<1>7. Decoded(Kept(lower, upper)) = RangeRows(values, at)
  <2>1. \A x \in Decoded(Kept(lower, upper)) : x \in RangeRows(values, at)
    BY <1>3, <1>5 DEF Decoded, Kept
  <2>2. \A x \in RangeRows(values, at) : x \in Decoded(Kept(lower, upper))
    BY <1>4, <1>5, <1>6 DEF Decoded
  <2> QED BY <2>1, <2>2
<1>8. lower \in Seq(Nat) /\ upper \in Seq(Nat)
  <2>1. /\ InBounds(cf, values) /\ InBounds(cf, Append(values, at))
    <3>1. PICK n \in Nat : n = Len(values) /\ n < Len(Layout[cf]) /\ values \in Seq(Nat)
      BY DEF ArePrefix
    <3>2. PICK size \in 1 .. 4 : size = Len(Layout[cf]) /\ \A i \in 1 .. size : Layout[cf][i] \in Kinds
      BY LayoutOf DEF IsLayout
    <3>3. n + 1 \in 1 .. size /\ Layout[cf][n + 1] # "i64"
      BY <3>1, <3>2 DEF ArePrefix
    <3>4. at \in Nat /\ InBound(Layout[cf][n + 1], at)
      BY <3>1, <3>2, <3>3, KeySpaceAssumption DEF Limits, InBound, Top, Kinds
    <3>5. \A i \in 1 .. n : InBound(Layout[cf][i], values[i])
      <4> TAKE i \in 1 .. n
      <4>1. i \in 1 .. size /\ Layout[cf][i] \in Kinds /\ InField(Layout[cf][i], values[i])
        BY <3>1, <3>2 DEF ArePrefix
      <4> QED BY <4>1, BoundToken
    <3>6. PICK hi : hi = Append(values, at)
      OBVIOUS
    <3>7. /\ hi \in Seq(Nat) /\ Len(hi) = n + 1 /\ hi[n + 1] = at
          /\ \A i \in 1 .. n : hi[i] = values[i]
      BY <3>1, <3>4, <3>6, AppendProperties
    <3>8. \A i \in 1 .. n + 1 : InBound(Layout[cf][i], hi[i])
      <4> TAKE i \in 1 .. n + 1
      <4>1. CASE i = n + 1
        BY <3>4, <3>7, <4>1
      <4>2. CASE i # n + 1
        <5>1. i \in 1 .. n
          BY <4>2
        <5> QED BY <3>5, <3>7, <5>1
      <4> QED BY <4>1, <4>2
    <3>9. InBounds(cf, values)
      BY <3>1, <3>2, <3>5 DEF InBounds
    <3>10. InBounds(cf, hi)
      BY <3>2, <3>3, <3>7, <3>8 DEF InBounds
    <3> QED BY <3>6, <3>9, <3>10
  <2>2. IsLower(lower, cf, values) /\ IsUpper(upper, cf, Append(values, at))
    BY <1>1, <2>1, BoundsOf
  <2> QED BY <2>2 DEF IsLower, IsUpper
<1> QED BY <1>1, <1>7, <1>8

\* scan yields the rows of its prefix, and scan_rev the same ones in reverse.
LEMMA ScansAreRows ==
  ASSUME DbInv, cf \in Fixed, NEW values, ArePrefix(cf, values),
         NEW at, Limits(Layout[cf][Len(values) + 1], at),
         NEW lower, lower = LowerBound(cf, values), NEW upper, upper = UpperBound(cf, Append(values, at))
  PROVE  /\ Decoded(ToSet(Scan(lower, upper))) = RangeRows(values, at)
         /\ ScanRev(lower, upper) = Reverse(Scan(lower, upper))
<1>1. /\ lower \in Seq(Nat) /\ upper \in Seq(Nat)
      /\ Decoded(Kept(lower, upper)) = RangeRows(values, at)
  BY KeptRows
<1>2. PICK n : n = Cardinality(db)
  OBVIOUS
<1>3. PICK place : Numbers(place, n)
  BY <1>2, RowsAreRead, NumbersExist
<1>4. PICK S : S = Kept(lower, upper)
  OBVIOUS
<1>5. Enumerates(Scan(lower, upper), S, place) /\ Enumerates(ScanRev(lower, upper), S, Mirrored(place, n))
  BY <1>1, <1>3, <1>4, ScanOf, ScanRevOf
<1>6. ScanRev(lower, upper) = Reverse(Scan(lower, upper))
  <2>1. n \in Nat /\ \A k \in db : place[k] \in 1 .. n
    BY <1>3 DEF Numbers
  <2>2. S \subseteq db
    BY <1>4 DEF Kept
  <2>3. PICK o : o = Mirrored(place, n)
    OBVIOUS
  <2>4. \A k \in S : o[k] = n + 1 - place[k] /\ place[k] \in 1 .. n
    BY <2>1, <2>2, <2>3 DEF Mirrored
  <2>5. \A k \in S : o[k] \in Nat /\ place[k] \in Nat
    BY <2>1, <2>4
  <2>6. \A j, k \in S : o[j] < o[k] <=> place[k] < place[j]
    BY <2>1, <2>4
  <2> QED BY <1>5, <2>3, <2>5, <2>6, MirrorOf
<1>7. ToSet(Scan(lower, upper)) = S
  <2>1. PICK w : w = Scan(lower, upper)
    OBVIOUS
  <2>2. w \in Seq(S) /\ \A k \in S : \E i \in 1 .. Len(w) : w[i] = k
    BY <1>5, <2>1 DEF Enumerates
  <2>3. DOMAIN w = 1 .. Len(w) /\ \A i \in 1 .. Len(w) : w[i] \in S
    BY <2>2, ElementOfSeq
  <2>4. \A k \in ToSet(w) : k \in S
    BY <2>3 DEF ToSet
  <2>5. \A k \in S : k \in ToSet(w)
    BY <2>2, <2>3 DEF ToSet
  <2> QED BY <2>1, <2>4, <2>5
<1> QED BY <1>1, <1>4, <1>6, <1>7

\* In a store that holds the encodings of its rows, scans match rows.
LEMMA ScansMatch == DbInv => ScansMatchRows
<1> SUFFICES ASSUME DbInv
             PROVE  ScansMatchRows
  OBVIOUS
<1>1. /\ Decoded(db) = rows /\ Cardinality(db) = Cardinality(rows)
      /\ \A key \in Keys(cf) : Get(key) # {} <=> key \in rows
  BY RowsAreRead
<1>2. ASSUME cf \in Fixed, NEW r \in rows, NEW n \in {m \in 0 .. Len(r) - 1 : Layout[cf][m + 1] # "i64"},
             NEW at \in IF Layout[cf][n + 1] = "uuid" THEN Uuids \cup {MaxUuid} ELSE {Top(Layout[cf][n + 1])},
             NEW lower, lower = LowerBound(cf, SubSeq(r, 1, n)),
             NEW upper, upper = UpperBound(cf, Append(SubSeq(r, 1, n), at))
      PROVE  /\ Decoded(ToSet(Scan(lower, upper))) =
                  {s \in Under(SubSeq(r, 1, n)) : Layout[cf][n + 1] = "uuid" => s[n + 1] =< at}
             /\ ScanRev(lower, upper) = Reverse(Scan(lower, upper))
  <2>1. r \in Keys(cf)
    BY DEF DbInv
  <2>2. r \in Seq(Nat) /\ Len(r) = Len(Layout[cf]) /\ IsKey(cf, r)
    BY <1>2, <2>1, KeyIsSeq, KeyFields
  <2>3. n \in 0 .. Len(r) - 1 /\ n \in Nat /\ n < Len(r) /\ Layout[cf][n + 1] # "i64"
    BY <2>2
  <2>4. PICK values : values = SubSeq(r, 1, n)
    OBVIOUS
  <2>5. values \in Seq(Nat) /\ Len(values) = n /\ \A i \in 1 .. n : values[i] = r[i]
    <3>1. \A i \in 1 .. n : r[i] \in Nat
      BY <2>2, <2>3
    <3>2. /\ values \in Seq(Nat) /\ Len(values) = IF 1 =< n THEN n - 1 + 1 ELSE 0
          /\ \A i \in 1 .. n - 1 + 1 : values[i] = r[1 + i - 1]
      BY <2>3, <2>4, <3>1, SubSeqProperties
    <3>3. n - 1 + 1 = n /\ \A i \in 1 .. n : 1 + i - 1 = i
      BY <2>3
    <3> QED BY <2>3, <3>2, <3>3
  <2>6. ArePrefix(cf, values)
    BY <2>2, <2>3, <2>5 DEF ArePrefix, IsKey
  <2>7. Limits(Layout[cf][Len(values) + 1], at)
    BY <1>2, <2>5, KeySpaceAssumption DEF Limits
  <2>8. /\ Decoded(ToSet(Scan(lower, upper))) = RangeRows(values, at)
        /\ ScanRev(lower, upper) = Reverse(Scan(lower, upper))
    <3>1. lower = LowerBound(cf, values) /\ upper = UpperBound(cf, Append(values, at)) /\ cf \in Fixed
      BY <1>2, <2>4
    <3> QED BY <2>6, <2>7, <3>1, ScansAreRows
  <2> QED BY <2>4, <2>5, <2>8 DEF RangeRows
<1> QED BY <1>1, <1>2 DEF ScansMatchRows

\* Whatever the hashes of the names are and however many keys there are: a range
\* scan yields exactly the rows of its prefix, and a reverse scan the reverse.
THEOREM ScansMatchRowsHolds == Spec => []ScansMatchRows
BY DbHolds, ScansMatch, PTL

-----------------------------------------------------------------------------
(***************************************************************************)
(* Loops that seek past what they have read.                               *)
(***************************************************************************)

\* A walk whose next key is found by a seek beyond the one it is at.
LEMMA SeekingWalk ==
  ASSUME NEW place, NEW n, Numbers(place, n), NEW lower \in Seq(Nat), NEW upper \in Seq(Nat),
         NEW step, \A k \in Kept(lower, upper) :
                     /\ step[k] \subseteq db /\ \A i, j \in step[k] : i = j
                     /\ \A j \in step[k] : Before(k, j),
         NEW w, w = Walk(Seek(lower), step, lower, upper), NEW S, S = Kept(lower, upper)
  PROVE  /\ IsWhole(w, Seek(lower), step, S, place) /\ Proceeds(Seek(lower), step, S, place, n)
         /\ \A k \in S : \E i \in 1 .. Len(w) : UpTo(w[i], k) /\ Short(k, step[w[i]], S, place)
<1>1. /\ n \in Nat /\ n = Cardinality(db) /\ place \in [db -> 1 .. n]
      /\ \A k \in db : k \in Seq(Nat) /\ place[k] \in Nat
      /\ \A j, k \in db : place[j] =< place[k] <=> UpTo(j, k)
      /\ \A j, k \in db : place[j] < place[k] <=> Before(j, k)
  BY DEF Numbers
<1>2. IsFirst(Seek(lower), NotBefore(lower), place)
  BY StepsOf
<1>3. S \subseteq db /\ \A k \in db : k \in S <=> UpTo(lower, k) /\ UpTo(k, upper)
  BY DEF Kept, Inside
<1>4. Proceeds(Seek(lower), step, S, place, n)
  <2>1. Seek(lower) \subseteq db /\ \A j, k \in Seek(lower) : j = k
    BY <1>2 DEF IsFirst, NotBefore
  <2>2. ASSUME NEW k \in S
        PROVE  /\ step[k] \subseteq db /\ \A i, j \in step[k] : i = j
               /\ \A j \in step[k] : place[k] < place[j]
    <3>1. /\ step[k] \subseteq db /\ \A i, j \in step[k] : i = j
          /\ \A j \in step[k] : Before(k, j)
      BY <2>2
    <3> QED BY <1>1, <1>3, <3>1
  <2> QED BY <1>1, <2>1, <2>2 DEF Proceeds
<1>5. IsWhole(w, Seek(lower), step, S, place)
  BY <1>4, WalkOf
<1>6. \A i \in 1 .. Len(w) : w[i] \in S
  BY <1>3, <1>4, <1>5, WalkRoom DEF IsWhole
<1>7. ASSUME NEW k \in S
      PROVE  \E i \in 1 .. Len(w) : UpTo(w[i], k) /\ Short(k, step[w[i]], S, place)
  <2>1. k \in db /\ UpTo(lower, k) /\ UpTo(k, upper)
    BY <1>3
  <2>2. ~Short(k, Seek(lower), S, place)
    <3>1. k \in NotBefore(lower)
      BY <2>1 DEF NotBefore
    <3>2. PICK s \in Seek(lower) : place[s] =< place[k]
      BY <1>2, <3>1 DEF IsFirst
    <3>3. s \in db /\ UpTo(lower, s)
      BY <1>2, <3>2 DEF IsFirst, NotBefore
    <3>4. place[s] \in Nat /\ place[k] \in Nat
      BY <1>1, <2>1, <3>3
    <3>5. UpTo(s, upper)
      BY <1>1, <2>1, <3>2, <3>3, UpToTransitive
    <3>6. s \in S /\ ~(place[k] < place[s])
      BY <1>3, <3>2, <3>3, <3>4, <3>5
    <3> QED BY <3>2, <3>6 DEF Short
  <2>3. PICK i \in 1 .. Len(w) : place[w[i]] =< place[k] /\ Short(k, step[w[i]], S, place)
    BY <1>3, <1>4, <1>5, <2>1, <2>2, WalkCovers
  <2>4. UpTo(w[i], k)
    BY <1>1, <1>3, <1>6, <2>1, <2>3
  <2> QED BY <2>3, <2>4
<1> QED BY <1>4, <1>5, <1>7

\* A key that is short of a seek is short of its point.
LEMMA ShortOfPoint ==
  ASSUME NEW place, NEW n, Numbers(place, n), NEW lower \in Seq(Nat), NEW upper \in Seq(Nat),
         NEW S, S = Kept(lower, upper), NEW k \in S, NEW v \in S, NEW point \in Seq(Nat),
         Before(v, point), Short(k, Seek(point), S, place)
  PROVE  Before(k, point)
<1>1. /\ \A j \in db : j \in Seq(Nat) /\ place[j] \in Nat
      /\ \A i, j \in db : place[i] =< place[j] <=> UpTo(i, j)
  BY DEF Numbers
<1>2. IsFirst(Seek(point), NotBefore(point), place)
  BY StepsOf
<1>3. \A j \in db : j \in S <=> UpTo(lower, j) /\ UpTo(j, upper)
  BY DEF Kept, Inside
<1>4. k \in db /\ v \in db /\ UpTo(lower, v) /\ UpTo(k, upper)
  BY <1>3 DEF Kept
<1>5. ~UpTo(point, k)
  <2> SUFFICES ASSUME UpTo(point, k)
               PROVE  FALSE
    OBVIOUS
  <2>1. k \in NotBefore(point)
    BY <1>4 DEF NotBefore
  <2>2. PICK s \in Seek(point) : place[s] =< place[k]
    BY <1>2, <2>1 DEF IsFirst
  <2>3. s \in db /\ UpTo(point, s) /\ s \in Seq(Nat)
    BY <1>1, <1>2, <2>2 DEF IsFirst, NotBefore
  <2>4. UpTo(lower, s)
    <3>1. UpTo(v, point) /\ v \in Seq(Nat)
      BY <1>1, <1>4 DEF UpTo
    <3>2. UpTo(v, s)
      BY <2>3, <3>1, UpToTransitive
    <3> QED BY <1>4, <2>3, <3>1, <3>2, UpToTransitive
  <2>5. UpTo(s, upper)
    BY <1>1, <1>4, <2>2, <2>3, UpToTransitive
  <2>6. place[k] < place[s]
    BY <1>3, <2>2, <2>3, <2>4, <2>5 DEF Short
  <2> QED BY <1>1, <1>4, <2>2, <2>3, <2>6
<1>6. k \in Seq(Nat)
  BY <1>1, <1>4
<1> QED BY <1>5, <1>6, BeforeTotal DEF UpTo

\* The point of a key is past the keys that agree with it at m, or are less
\* there, and before the others.
Separates(points, S, m) ==
  \A j, k \in S : /\ k[m] \in Nat /\ points[k] \in Seq(Nat)
                  /\ Before(j, points[k]) <=> j[m] =< k[m]
                  /\ UpTo(j, k) => j[m] =< k[m]

\* One key of S for each token at m.
OneOfEach(w, S, m) ==
  /\ w \in Seq(S)
  /\ \A k \in S : \E i \in 1 .. Len(w) : w[i][m] = k[m]
  /\ \A i, j \in 1 .. Len(w) : i < j => w[i][m] < w[j][m]

\* Where each point is past the keys that agree at m and before those that do
\* not, a loop that seeks from point to point reads one key of each kind.
LEMMA GroupsOf ==
  ASSUME NEW place, NEW n, Numbers(place, n), NEW lower \in Seq(Nat), NEW upper \in Seq(Nat),
         NEW S, S = Kept(lower, upper), NEW points, NEW m, Separates(points, S, m),
         NEW w, w = SkipScan(lower, upper, points)
  PROVE  OneOfEach(w, S, m)
<1>0. /\ \A k \in S : k[m] \in Nat /\ points[k] \in Seq(Nat)
      /\ \A j, k \in S : Before(j, points[k]) <=> j[m] =< k[m]
      /\ \A j, k \in S : UpTo(j, k) => j[m] =< k[m]
  BY DEF Separates
<1>1. /\ \A j \in db : j \in Seq(Nat) /\ place[j] \in Nat
      /\ \A i, j \in db : place[i] =< place[j] <=> UpTo(i, j)
      /\ \A i, j \in db : place[i] < place[j] <=> Before(i, j)
  BY DEF Numbers
<1>2. S \subseteq db
  BY DEF Kept
<1>3. PICK step : step = [k \in db |-> Seek(points[k])]
  OBVIOUS
<1>4. \A k \in S : /\ step[k] = Seek(points[k]) /\ Before(k, points[k])
                   /\ IsFirst(step[k], NotBefore(points[k]), place)
  BY <1>0, <1>2, <1>3, StepsOf
<1>5. \A k \in S : \A j \in step[k] : j \in db /\ UpTo(points[k], j) /\ Before(k, j)
  <2> SUFFICES ASSUME NEW k \in S, NEW j \in step[k]
               PROVE  j \in db /\ UpTo(points[k], j) /\ Before(k, j)
    OBVIOUS
  <2>1. j \in db /\ UpTo(points[k], j)
    BY <1>4 DEF IsFirst, NotBefore
  <2>2. k \in Seq(Nat) /\ j \in Seq(Nat) /\ points[k] \in Seq(Nat) /\ Before(k, points[k])
    BY <1>0, <1>1, <1>2, <1>4, <2>1
  <2> QED BY <2>1, <2>2, BeforeTransitive DEF UpTo
<1>6. \A k \in S : /\ step[k] \subseteq db /\ \A i, j \in step[k] : i = j
                   /\ \A j \in step[k] : Before(k, j)
  BY <1>4, <1>5 DEF IsFirst
<1>7. /\ IsWhole(w, Seek(lower), step, S, place) /\ Proceeds(Seek(lower), step, S, place, n)
      /\ \A k \in S : \E i \in 1 .. Len(w) : UpTo(w[i], k) /\ Short(k, step[w[i]], S, place)
  <2>1. w = Walk(Seek(lower), step, lower, upper)
    BY <1>3 DEF SkipScan
  <2> QED BY <1>6, <2>1, SeekingWalk
<1>8. \A i \in 1 .. Len(w) : w[i] \in S
  BY <1>2, <1>7, WalkRoom DEF IsWhole
<1>9. w \in Seq(S) /\ Len(w) \in Nat
  BY <1>7 DEF IsWhole, IsWalk
<1>10. ASSUME NEW k \in S
       PROVE  \E i \in 1 .. Len(w) : w[i][m] = k[m]
  <2>1. PICK i \in 1 .. Len(w) : UpTo(w[i], k) /\ Short(k, step[w[i]], S, place)
    BY <1>7
  <2>2. w[i] \in S /\ Before(w[i], points[w[i]]) /\ step[w[i]] = Seek(points[w[i]]) /\ points[w[i]] \in Seq(Nat)
    BY <1>0, <1>4, <1>8
  <2>3. Before(k, points[w[i]])
    BY <2>1, <2>2, ShortOfPoint
  <2>4. k[m] =< w[i][m] /\ w[i][m] =< k[m]
    BY <1>0, <2>1, <2>2, <2>3
  <2> QED BY <1>0, <2>2, <2>4
<1>11. ASSUME NEW i \in 1 .. Len(w), NEW j \in 1 .. Len(w), i < j
       PROVE  w[i][m] < w[j][m]
  <2>1. i + 1 \in 1 .. Len(w) /\ i + 1 # 1 /\ (i + 1) - 1 = i
    BY <1>9, <1>11
  <2>2. w[i + 1] \in step[w[i]]
    <3>1. \A l \in 1 .. Len(w) : w[l] \in IF l = 1 THEN Seek(lower) ELSE step[w[l - 1]]
      BY <1>7 DEF IsWhole, IsWalk
    <3>2. w[i + 1] \in step[w[(i + 1) - 1]]
      BY <2>1, <3>1
    <3> QED BY <2>1, <3>2
  <2>3. w[i] \in S /\ w[j] \in S /\ w[i + 1] \in S
    BY <1>8, <2>1
  <2>4. UpTo(points[w[i]], w[i + 1])
    BY <1>5, <2>2, <2>3
  <2>5. UpTo(w[i + 1], w[j])
    <3>1. CASE i + 1 = j
      BY <3>1 DEF UpTo
    <3>2. CASE i + 1 < j
      <4>1. place[w[i + 1]] < place[w[j]]
        BY <1>7, <2>1, <3>2 DEF IsWhole, IsWalk
      <4> QED BY <1>1, <1>2, <2>3, <4>1 DEF UpTo
    <3> QED BY <1>11, <3>1, <3>2
  <2>6. points[w[i]] \in Seq(Nat) /\ w[j] \in Seq(Nat) /\ w[i + 1] \in Seq(Nat)
    BY <1>0, <1>1, <1>2, <2>3
  <2>7. UpTo(points[w[i]], w[j])
    BY <2>4, <2>5, <2>6, UpToTransitive
  <2>8. ~Before(w[j], points[w[i]])
    BY <2>6, <2>7, BeforeOneWay
  <2>9. ~(w[j][m] =< w[i][m])
    BY <1>0, <2>3, <2>8
  <2> QED BY <1>0, <2>3, <2>9
<1> QED BY <1>9, <1>10, <1>11 DEF OneOfEach

\* A field that is not set is the end of its kind.
LEMMA OpenUpper ==
  ASSUME NEW f \in Fixed, NEW values, ArePrefix(f, values)
  PROVE  UpperBound(f, values) = UpperBound(f, Append(values, Top(Layout[f][Len(values) + 1])))
<1>1. PICK size \in 1 .. 4 : size = Len(Layout[f])
  BY LayoutOf DEF IsLayout
<1>2. PICK n \in Nat : n = Len(values) /\ n < size /\ values \in Seq(Nat)
  BY <1>1 DEF ArePrefix
<1>3. PICK top : top = Top(Layout[f][n + 1])
  OBVIOUS
<1>4. top \in Nat
  <2>1. Layout[f][n + 1] \in Kinds /\ Layout[f][n + 1] # "i64"
    <3>1. n + 1 \in 1 .. size
      BY <1>2
    <3> QED BY <1>1, <1>2, <3>1, LayoutOf DEF IsLayout, ArePrefix
  <2> QED BY <1>3, <2>1, KeySpaceAssumption DEF Top, Kinds
<1>5. PICK hi : hi = Append(values, top)
  OBVIOUS
<1>6. /\ hi \in Seq(Nat) /\ Len(hi) = n + 1 /\ hi[n + 1] = top
      /\ \A i \in 1 .. n : hi[i] = values[i]
  BY <1>2, <1>4, <1>5, AppendProperties
<1>7. PICK ends : ends = [i \in 1 .. Len(Layout[f]) |-> Top(Layout[f][i])]
  OBVIOUS
<1>8. With(f, ends, values) = With(f, ends, hi)
  <2>1. ASSUME NEW i \in 1 .. size
        PROVE  (IF i \in DOMAIN values THEN values[i] ELSE ends[i]) = (IF i \in DOMAIN hi THEN hi[i] ELSE ends[i])
    <3>1. DOMAIN values = 1 .. n /\ DOMAIN hi = 1 .. n + 1
      BY <1>2, <1>6
    <3>2. CASE i =< n
      <4>1. i \in 1 .. n /\ i \in 1 .. n + 1
        BY <1>2, <3>2
      <4> QED BY <1>6, <3>1, <4>1
    <3>3. CASE i = n + 1
      <4>1. ends[i] = top /\ hi[i] = top /\ i \in 1 .. n + 1 /\ i \notin 1 .. n
        BY <1>1, <1>2, <1>3, <1>6, <1>7, <3>3
      <4> QED BY <3>1, <4>1
    <3>4. CASE i > n + 1
      <4>1. i \notin 1 .. n + 1 /\ i \notin 1 .. n
        BY <1>2, <3>4
      <4> QED BY <3>1, <4>1
    <3> QED BY <1>2, <3>2, <3>3, <3>4
  <2> QED BY <1>1, <2>1 DEF With
<1> QED BY <1>2, <1>3, <1>5, <1>7, <1>8 DEF UpperBound

\* All rows of a prefix.
LEMMA PrefixRows ==
  ASSUME DbInv, cf \in Fixed, NEW values, ArePrefix(cf, values)
  PROVE  LET lower == LowerBound(cf, values)
             upper == UpperBound(cf, values)
         IN  /\ lower \in Seq(Nat) /\ upper \in Seq(Nat)
             /\ Decoded(Kept(lower, upper)) = Under(values)
<1>1. PICK size \in 1 .. 4 : size = Len(Layout[cf]) /\ \A i \in 1 .. size : Layout[cf][i] \in Kinds
  BY LayoutOf DEF IsLayout
<1>2. PICK n \in Nat : n = Len(values) /\ n < size
  BY <1>1 DEF ArePrefix
<1>3. PICK kind : kind = Layout[cf][Len(values) + 1]
  OBVIOUS
<1>4. PICK top : top = Top(kind)
  OBVIOUS
<1>5. UpperBound(cf, values) = UpperBound(cf, Append(values, top))
  BY <1>3, <1>4, OpenUpper
<1>6. Limits(kind, top)
  <2>1. kind \in Kinds
    BY <1>1, <1>2, <1>3
  <2> QED BY <1>4, <2>1, KeySpaceAssumption DEF Limits, Top
<1>7. RangeRows(values, top) = Under(values)
  <2>1. ASSUME kind = "uuid", NEW s \in rows
        PROVE  s[n + 1] =< top
    <3>1. s \in Keys(cf) /\ n + 1 \in 1 .. size
      BY <1>2 DEF DbInv
    <3>2. InField(kind, s[n + 1])
      BY <1>1, <1>2, <1>3, <3>1, KeyFields DEF IsKey
    <3>3. s[n + 1] \in Uuids
      BY <2>1, <3>2 DEF InField
    <3> QED BY <1>4, <2>1, <3>3, NumbersOf DEF Top
  <2> QED BY <1>2, <1>3, <2>1 DEF RangeRows, Under
<1> QED BY <1>3, <1>5, <1>6, <1>7, KeptRows

\* A key of the store, and the row it was put for.
HasTokens(k, s, values) ==
  /\ k \in Seq(Nat) /\ s \in rows /\ Starts(s, values) /\ k = Encode(cf, s) /\ IsKey(cf, s)
  /\ \A i \in 1 .. Len(Layout[cf]) : /\ i \in 1 .. Len(k) /\ k[i] \in Nat
                                      /\ k[i] = EncodeField(Layout[cf][i], s[i])
  /\ \A i \in 1 .. Len(values) : k[i] = EncodeField(Layout[cf][i], values[i])

\* The tokens of the keys that are kept.
LEMMA KeptTokens ==
  ASSUME DbInv, cf \in Fixed, NEW values, ArePrefix(cf, values),
         NEW K \in SUBSET db, Decoded(K) \subseteq Under(values),
         NEW k \in K, NEW s, s = DecodeKey(cf, k)
  PROVE  HasTokens(k, s, values)
<1>1. k \in Seq(Nat) /\ s \in rows /\ k = EncodeKey(cf, s) /\ s \in Keys(cf)
  BY RowsAreRead DEF DbInv
<1>2. s \in Seq(Nat) /\ Len(s) = Len(Layout[cf]) /\ cf # "assertions" /\ IsKey(cf, s)
  BY <1>1, KeyIsSeq, KeyFields
<1>3. k = Encode(cf, s)
  BY <1>1, <1>2 DEF EncodeKey
<1>4. Starts(s, values)
  <2>1. s \in Under(values)
    BY DEF Decoded
  <2>2. values \in Seq(Nat) /\ Len(values) =< Len(s)
    BY <1>2 DEF ArePrefix
  <2> QED BY <1>2, <2>1, <2>2, StartOf DEF Under
<1>5. PICK size \in 1 .. 4 : size = Len(Layout[cf])
  BY LayoutOf DEF IsLayout
<1>6. PICK m \in Nat : m = Cardinality(Slugs(cf))
  BY PlaceOf
<1>7. Len(k) = size + 1 + m /\ \A i \in 1 .. size : k[i] = EncodeField(Layout[cf][i], s[i])
  BY <1>2, <1>3, <1>5, <1>6, EncodeOf
<1>8. \A i \in 1 .. size : i \in 1 .. Len(k) /\ k[i] \in Nat
  <2>1. \A i \in 1 .. size : i \in 1 .. Len(k)
    BY <1>7
  <2> QED BY <1>1, <2>1, ElementOfSeq
<1>9. \A i \in 1 .. Len(values) : k[i] = EncodeField(Layout[cf][i], values[i])
  <2>1. PICK n \in Nat : n = Len(values) /\ n < size
    BY <1>5 DEF ArePrefix
  <2>2. \A i \in 1 .. n : i \in 1 .. size /\ s[i] = values[i]
    BY <1>4, <2>1 DEF Starts
  <2> QED BY <1>7, <2>1, <2>2
<1> QED BY <1>1, <1>2, <1>3, <1>4, <1>5, <1>7, <1>8, <1>9 DEF HasTokens

-----------------------------------------------------------------------------
\* The newest row of an address up to a time is the last key of its range.
LEMMA LatestOf ==
  ASSUME DbInv, cf \in Fixed, NEW values, ArePrefix(cf, values), NEW at \in Nat,
         NEW m, m = Len(values) + 1, m = Len(Layout[cf]), Layout[cf][m] = "uuid"
  PROVE  Decoded(GetLatest(LowerBound(cf, values), UpperBound(cf, Append(values, at)))) =
           Newest({s \in Under(values) : s[m] =< at}, m)
<1>1. PICK lower, upper : lower = LowerBound(cf, values) /\ upper = UpperBound(cf, Append(values, at))
  OBVIOUS
<1>2. PICK K : K = Kept(lower, upper)
  OBVIOUS
<1>3. PICK R : R = {s \in Under(values) : s[m] =< at}
  OBVIOUS
<1>4. lower \in Seq(Nat) /\ upper \in Seq(Nat) /\ Decoded(K) = R
  <2>1. Limits(Layout[cf][Len(values) + 1], at)
    BY DEF Limits
  <2>2. RangeRows(values, at) = R
    BY <1>3 DEF RangeRows
  <2> QED BY <1>1, <1>2, <2>1, <2>2, KeptRows
<1>5. K \subseteq db /\ R \subseteq Under(values) /\ R \subseteq rows
  BY <1>2, <1>3 DEF Kept, Under
<1>6. \A k \in db : k \in K <=> UpTo(lower, k) /\ UpTo(k, upper)
  BY <1>2 DEF Kept, Inside
<1>7. \A k \in db : k \in Seq(Nat) /\ k = EncodeKey(cf, DecodeKey(cf, k))
  BY RowsAreRead
<1>8. \A s \in R : \E k \in K : DecodeKey(cf, k) = s
  BY <1>4 DEF Decoded
<1>9. \A k \in K : DecodeKey(cf, k) \in R
  BY <1>4 DEF Decoded
<1>10. ASSUME NEW j \in K, NEW k \in K
       PROVE  /\ DecodeKey(cf, j)[m] \in Nat
              /\ DecodeKey(cf, j)[m] < DecodeKey(cf, k)[m] => Before(j, k)
              /\ DecodeKey(cf, j)[m] = DecodeKey(cf, k)[m] => j = k
  <2>1. PICK r, s : r = DecodeKey(cf, j) /\ s = DecodeKey(cf, k)
    OBVIOUS
  <2>2. PICK n \in Nat : n = Len(values) /\ m = n + 1 /\ Len(Layout[cf]) = n + 1
    BY DEF ArePrefix
  <2>3. Decoded(K) \subseteq Under(values)
    BY <1>4, <1>5
  <2>4. HasTokens(j, r, values)
    BY <1>5, <2>1, <2>3, KeptTokens
  <2>5. HasTokens(k, s, values)
    BY <1>5, <2>1, <2>3, KeptTokens
  <2>6. m \in 1 .. Len(Layout[cf])
    BY <2>2
  <2>9. j[m] = r[m] /\ k[m] = s[m]
    <3>1. j[m] = EncodeField(Layout[cf][m], r[m]) /\ k[m] = EncodeField(Layout[cf][m], s[m])
      BY <2>4, <2>5, <2>6 DEF HasTokens
    <3> QED BY <3>1 DEF EncodeField
  <2>10. m \in 1 .. Len(j) /\ m \in 1 .. Len(k) /\ r[m] \in Nat
    BY <2>4, <2>5, <2>6, <2>9 DEF HasTokens
  <2>7. ASSUME r[m] < s[m]
        PROVE  Before(j, k)
    <3>1. j[m] < k[m] /\ j \in Seq(Nat) /\ k \in Seq(Nat)
      BY <2>4, <2>5, <2>7, <2>9 DEF HasTokens
    <3>2. \A i \in 1 .. n : j[i] = k[i]
      BY <2>2, <2>4, <2>5 DEF HasTokens
    <3>3. m - 1 = n
      BY <2>2
    <3> QED BY <2>10, <3>1, <3>2, <3>3, DecidedAt
  <2>8. ASSUME r[m] = s[m]
        PROVE  j = k
    <3>1. r \in Seq(Nat) /\ Len(r) = n + 1 /\ s \in Seq(Nat) /\ Len(s) = n + 1
      BY <2>2, <2>4, <2>5, KeyIsSeq DEF DbInv, HasTokens
    <3>2. \A i \in 1 .. n : r[i] = s[i]
      BY <2>2, <2>4, <2>5 DEF Starts, HasTokens
    <3>3. \A i \in 1 .. n + 1 : r[i] = s[i]
      BY <2>2, <2>8, <3>2
    <3>4. r = s
      BY <3>1, <3>3, SeqEqual
    <3> QED BY <2>4, <2>5, <3>4 DEF HasTokens
  <2> QED BY <2>1, <2>7, <2>8, <2>10
<1>11. ASSUME NEW k \in K, \A j \in K : DecodeKey(cf, j)[m] =< DecodeKey(cf, k)[m]
       PROVE  k \in GetLatest(lower, upper)
  <2>1. k \in db /\ UpTo(lower, k) /\ UpTo(k, upper)
    BY <1>5, <1>6
  <2>2. ASSUME NEW j \in db, UpTo(j, upper)
        PROVE  UpTo(j, k)
    <3> SUFFICES ASSUME ~UpTo(j, k)
                 PROVE  FALSE
      OBVIOUS
    <3>1. Before(k, j)
      BY <1>7, <2>1, BeforeTotal DEF UpTo
    <3>2. UpTo(lower, j)
      BY <1>4, <1>7, <2>1, <3>1, UpToTransitive DEF UpTo
    <3>3. j \in K
      BY <1>6, <2>2, <3>2
    <3>4. DecodeKey(cf, j)[m] =< DecodeKey(cf, k)[m]
      BY <1>11, <3>3
    <3>5. Before(j, k) \/ j = k
      BY <1>10, <3>3, <3>4
    <3> QED BY <3>5 DEF UpTo
  <2>3. k \in SeekBack(upper)
    BY <2>1, <2>2 DEF SeekBack
  <2> QED BY <2>1, <2>3 DEF GetLatest, Inside
<1>12. ASSUME NEW k \in GetLatest(lower, upper), NEW j \in K
       PROVE  k \in K /\ DecodeKey(cf, j)[m] =< DecodeKey(cf, k)[m]
  <2>1. k \in db /\ UpTo(lower, k) /\ UpTo(k, upper) /\ \A i \in db : UpTo(i, upper) => UpTo(i, k)
    BY <1>12 DEF GetLatest, SeekBack, Inside
  <2>2. k \in K /\ UpTo(j, k)
    BY <1>5, <1>6, <2>1
  <2>3. ~Before(k, j)
    BY <1>5, <1>7, <2>1, <2>2, BeforeOneWay
  <2>4. ~(DecodeKey(cf, k)[m] < DecodeKey(cf, j)[m])
    BY <1>10, <2>2, <2>3
  <2>5. DecodeKey(cf, k)[m] \in Nat /\ DecodeKey(cf, j)[m] \in Nat
    BY <1>10, <2>2
  <2> QED BY <2>2, <2>4, <2>5
<1>13. GetLatest(lower, upper) \subseteq K
  BY <1>6 DEF GetLatest, SeekBack, Inside
<1>14. \A s \in Decoded(GetLatest(lower, upper)) : s \in Newest(R, m)
  <2> SUFFICES ASSUME NEW k \in GetLatest(lower, upper)
               PROVE  DecodeKey(cf, k) \in Newest(R, m)
    BY DEF Decoded
  <2>1. \A s \in R : s[m] =< DecodeKey(cf, k)[m]
    BY <1>8, <1>12
  <2> QED BY <1>9, <1>13, <2>1 DEF Newest
<1>15. \A s \in Newest(R, m) : s \in Decoded(GetLatest(lower, upper))
  <2> SUFFICES ASSUME NEW s \in Newest(R, m)
               PROVE  s \in Decoded(GetLatest(lower, upper))
    OBVIOUS
  <2>1. PICK k \in K : DecodeKey(cf, k) = s
    BY <1>8 DEF Newest
  <2>2. \A j \in K : DecodeKey(cf, j)[m] =< DecodeKey(cf, k)[m]
    BY <1>9, <2>1 DEF Newest
  <2>3. k \in GetLatest(lower, upper)
    BY <1>11, <2>2
  <2> QED BY <2>1, <2>3 DEF Decoded
<1> QED BY <1>1, <1>3, <1>14, <1>15

\* The keys of a prefix, in the order of the field after it.
LEMMA InKeptOrder ==
  ASSUME DbInv, cf \in Fixed, NEW values, ArePrefix(cf, values), NEW m, m = Len(values) + 1,
         NEW K \in SUBSET db, Decoded(K) \subseteq Under(values)
  PROVE  \A j, k \in K : j[m] \in Nat /\ (UpTo(j, k) => j[m] =< k[m])
<1> SUFFICES ASSUME NEW j \in K, NEW k \in K
             PROVE  j[m] \in Nat /\ (UpTo(j, k) => j[m] =< k[m])
  OBVIOUS
<1>1. PICK r, s : r = DecodeKey(cf, j) /\ s = DecodeKey(cf, k)
  OBVIOUS
<1>2. HasTokens(j, r, values) /\ HasTokens(k, s, values)
  BY <1>1, KeptTokens
<1>3. PICK n \in Nat : n = Len(values) /\ n + 1 = m /\ n + 1 \in 1 .. Len(Layout[cf]) /\ m - 1 = n
  <2>1. PICK size \in 1 .. 4 : size = Len(Layout[cf])
    BY LayoutOf DEF IsLayout
  <2> QED BY <2>1 DEF ArePrefix
<1>4. /\ j[m] \in Nat /\ k[m] \in Nat /\ m \in 1 .. Len(j) /\ m \in 1 .. Len(k)
      /\ j \in Seq(Nat) /\ k \in Seq(Nat)
  BY <1>2, <1>3 DEF HasTokens
<1>5. \A i \in 1 .. m - 1 : k[i] = j[i]
  BY <1>2, <1>3 DEF HasTokens
<1>6. k[m] < j[m] => ~UpTo(j, k)
  BY <1>4, <1>5, DecidedAt
<1> QED BY <1>4, <1>6

\* Whether a key is before a point is decided at m, or else after it.
Divides(p, j, m) ==
  /\ j[m] < p[m] => Before(j, p)
  /\ p[m] < j[m] => ~Before(j, p)
  /\ j[m] = p[m] /\ j[m + 1] < p[m + 1] => Before(j, p)
  /\ j[m] = p[m] /\ p[m + 1] < j[m + 1] => ~Before(j, p)

\* A point that starts with the prefix, and what it leaves behind.
LEMMA PointOf ==
  ASSUME DbInv, cf \in Fixed, NEW values, ArePrefix(cf, values), NEW m, m = Len(values) + 1,
         NEW K \in SUBSET db, Decoded(K) \subseteq Under(values), NEW j \in K,
         NEW p \in Seq(Nat), m + 1 \in 1 .. Len(p), m + 1 \in 1 .. Len(j),
         \A i \in 1 .. Len(values) : p[i] = EncodeField(Layout[cf][i], values[i])
  PROVE  Divides(p, j, m)
<1>1. HasTokens(j, DecodeKey(cf, j), values)
  BY KeptTokens
<1>2. PICK n \in Nat : n = Len(values) /\ n + 1 = m /\ m - 1 = n /\ (m + 1) - 1 = m
  <2>1. Len(values) \in Nat
    BY DEF ArePrefix
  <2> QED BY <2>1
<1>3. m \in 1 .. Len(p) /\ m \in 1 .. Len(j) /\ j \in Seq(Nat)
  <2>1. j \in Seq(Nat)
    BY <1>1 DEF HasTokens
  <2> QED BY <1>2, <2>1
<1>4. \A i \in 1 .. n : j[i] = p[i]
  BY <1>1, <1>2 DEF HasTokens
<1>5. j[m] = p[m] => \A i \in 1 .. (m + 1) - 1 : j[i] = p[i]
  <2> SUFFICES ASSUME j[m] = p[m], NEW i \in 1 .. m
               PROVE  j[i] = p[i]
    BY <1>2
  <2>1. CASE i = m
    BY <2>1
  <2>2. CASE i # m
    <3>1. i \in 1 .. n
      BY <1>2, <2>2
    <3> QED BY <1>4, <3>1
  <2> QED BY <2>1, <2>2
<1>6. p[m] < j[m] => UpTo(p, j)
  BY <1>2, <1>3, <1>4, DecidedAt
<1>7. j[m] < p[m] => Before(j, p)
  BY <1>2, <1>3, <1>4, DecidedAt
<1>8. j[m] = p[m] /\ j[m + 1] < p[m + 1] => Before(j, p)
  BY <1>3, <1>5, DecidedAt
<1>9. j[m] = p[m] /\ p[m + 1] < j[m + 1] => UpTo(p, j)
  BY <1>3, <1>5, DecidedAt
<1> QED BY <1>3, <1>6, <1>7, <1>8, <1>9, BeforeOneWay DEF Divides

-----------------------------------------------------------------------------
\* discover: one key of each value is read.
LEMMA SkipVersionsOf ==
  ASSUME DbInv, cf \in Fixed, NEW values, ArePrefix(cf, values), NEW m, m = Len(values) + 1,
         m < Len(Layout[cf]), Layout[cf][m] = "slug", Layout[cf][m + 1] = "uuid",
         NEW found, found = SkipVersions(cf, values)
  PROVE  IsInjective(found) /\ ToSet(found) = {r[m] : r \in Under(values)}
<1>1. PICK size \in 1 .. 4 : size = Len(Layout[cf]) /\ \A i \in 1 .. size : Layout[cf][i] \in Kinds
  BY LayoutOf DEF IsLayout
<1>2. PICK n \in Nat : n = Len(values) /\ n + 1 = m /\ m \in 1 .. size /\ m + 1 \in 1 .. size
                       /\ values \in Seq(Nat)
  BY <1>1 DEF ArePrefix
<1>3. PICK lower, upper : lower = LowerBound(cf, values) /\ upper = UpperBound(cf, values)
  OBVIOUS
<1>4. PICK K : K = Kept(lower, upper)
  OBVIOUS
<1>5. lower \in Seq(Nat) /\ upper \in Seq(Nat) /\ Decoded(K) = Under(values)
  BY <1>3, <1>4, PrefixRows
<1>6. K \subseteq db
  BY <1>4 DEF Kept
<1>7. \A k \in K : HasTokens(k, DecodeKey(cf, k), values)
  BY <1>5, <1>6, KeptTokens
<1>8. PICK points : points = [k \in db |-> LowerBound(cf, values \o <<DecodeKey(cf, k)[n + 1], MaxUuid>>)]
  OBVIOUS
<1>9. PICK w : w = SkipScan(lower, upper, points)
  OBVIOUS
<1>10. found = [i \in 1 .. Len(w) |-> DecodeKey(cf, w[i])[m]]
  BY <1>2, <1>3, <1>8, <1>9 DEF SkipVersions
<1>11. \A k \in K : /\ DecodeKey(cf, k)[m] \in Names /\ k[m] = EncodeField("slug", DecodeKey(cf, k)[m])
                    /\ k[m + 1] \in Nat /\ k[m + 1] < MaxUuid /\ m + 1 \in 1 .. Len(k)
                    /\ k[m] \in Nat
  <2> SUFFICES ASSUME NEW k \in K
               PROVE  /\ DecodeKey(cf, k)[m] \in Names /\ k[m] = EncodeField("slug", DecodeKey(cf, k)[m])
                      /\ k[m + 1] \in Nat /\ k[m + 1] < MaxUuid /\ m + 1 \in 1 .. Len(k)
                      /\ k[m] \in Nat
    OBVIOUS
  <2>1. PICK s : s = DecodeKey(cf, k)
    OBVIOUS
  <2>2. HasTokens(k, s, values)
    BY <1>7, <2>1
  <2>3. InField("slug", s[m]) /\ InField("uuid", s[m + 1])
    BY <1>1, <1>2, <2>2 DEF HasTokens, IsKey
  <2>4. s[m] \in Names /\ s[m + 1] \in Uuids
    BY <2>3 DEF InField
  <2>5. k[m] = EncodeField("slug", s[m]) /\ k[m + 1] = EncodeField("uuid", s[m + 1])
        /\ m + 1 \in 1 .. Len(k) /\ k[m] \in Nat
    BY <1>1, <1>2, <2>2 DEF HasTokens
  <2>6. k[m + 1] = s[m + 1]
    BY <2>5 DEF EncodeField
  <2> QED BY <2>1, <2>4, <2>5, <2>6, NumbersOf
<1>12. ASSUME NEW k \in K
       PROVE  /\ points[k] \in Seq(Nat)
              /\ \A j \in K : Before(j, points[k]) <=> j[m] =< k[m]
  <2>1. PICK g : g = DecodeKey(cf, k)[m] /\ g \in Names /\ g \in Nat
    BY <1>11, NumbersOf
  <2>2. PICK tail : tail = <<g, MaxUuid>>
    OBVIOUS
  <2>3. PICK lo : lo = values \o tail
    OBVIOUS
  <2>4. points[k] = LowerBound(cf, lo)
    BY <1>2, <1>6, <1>8, <2>1, <2>2, <2>3
  <2>5. tail \in Seq(Nat) /\ Len(tail) = 2 /\ tail[1] = g /\ tail[2] = MaxUuid
    BY <2>1, <2>2, NumbersOf
  <2>6. /\ lo \in Seq(Nat) /\ Len(lo) = n + 2
        /\ \A i \in 1 .. n : lo[i] = values[i]
        /\ \A i \in 1 .. 2 : lo[n + i] = tail[i]
    <3>1. values \in Seq(Nat) /\ tail \in Seq(Nat) /\ lo = values \o tail
      BY <1>2, <2>3, <2>5
    <3>2. /\ lo \in Seq(Nat) /\ Len(lo) = Len(values) + Len(tail)
          /\ \A i \in 1 .. Len(values) : lo[i] = values[i]
          /\ \A i \in 1 .. Len(tail) : lo[Len(values) + i] = tail[i]
      BY <3>1, JoinOf
    <3> QED BY <1>2, <2>5, <3>2
  <2>7. lo[m] = g /\ lo[m + 1] = MaxUuid
    <3>1. lo[n + 1] = tail[1] /\ lo[n + 2] = tail[2] /\ m + 1 = n + 2
      BY <1>2, <2>6
    <3> QED BY <1>2, <2>5, <3>1
  <2>8. InBounds(cf, lo)
    <3>1. ASSUME NEW i \in 1 .. n + 2
          PROVE  InBound(Layout[cf][i], lo[i])
      <4>1. CASE i =< n
        <5>1. i \in 1 .. n /\ i \in 1 .. size
          BY <1>2, <4>1
        <5>2. InField(Layout[cf][i], values[i]) /\ Layout[cf][i] \in Kinds
          BY <1>1, <1>2, <5>1 DEF ArePrefix
        <5> QED BY <2>6, <5>1, <5>2, BoundToken
      <4>2. CASE i = m
        BY <2>1, <2>7, <4>2 DEF InBound
      <4>3. CASE i = m + 1
        BY <2>7, <4>3, NumbersOf DEF InBound
      <4> QED BY <1>2, <4>1, <4>2, <4>3
    <3>2. n + 2 =< size
      BY <1>2
    <3> QED BY <1>1, <2>6, <3>1, <3>2 DEF InBounds
  <2>9. PICK p : p = points[k]
    OBVIOUS
  <2>10. IsLower(p, cf, lo)
    BY <2>4, <2>8, <2>9, BoundsOf
  <2>11. m \in 1 .. Len(lo) /\ m + 1 \in 1 .. Len(lo) /\ \A i \in 1 .. n : i \in 1 .. Len(lo)
    BY <1>2, <2>6
  <2>12. /\ p \in Seq(Nat) /\ p[m] = k[m] /\ p[m + 1] = MaxUuid
         /\ \A i \in 1 .. n : p[i] = EncodeField(Layout[cf][i], values[i])
    <3>1. p[m] = EncodeField("slug", g) /\ p[m + 1] = EncodeField("uuid", MaxUuid)
      BY <2>7, <2>10, <2>11 DEF IsLower
    <3>2. \A i \in 1 .. n : p[i] = EncodeField(Layout[cf][i], values[i])
      BY <2>6, <2>10, <2>11 DEF IsLower
    <3>3. p \in Seq(Nat)
      BY <2>10 DEF IsLower
    <3>4. p[m + 1] = MaxUuid
      BY <3>1 DEF EncodeField
    <3> QED BY <1>11, <2>1, <3>1, <3>2, <3>3, <3>4
  <2>13. m + 1 \in 1 .. Len(p)
    BY <1>1, <1>2, <2>10 DEF IsLower
  <2>14. ASSUME NEW j \in K
         PROVE  Before(j, p) <=> j[m] =< k[m]
    <3>1. /\ j[m] < p[m] => Before(j, p)
          /\ p[m] < j[m] => ~Before(j, p)
          /\ j[m] = p[m] /\ j[m + 1] < p[m + 1] => Before(j, p)
      <4>1. m + 1 \in 1 .. Len(j)
        BY <1>11
      <4>2. \A i \in 1 .. Len(values) : p[i] = EncodeField(Layout[cf][i], values[i])
        BY <1>2, <2>12
      <4>3. Decoded(K) \subseteq Under(values) /\ p \in Seq(Nat)
        BY <1>5, <2>12
      <4>4. Divides(p, j, m)
        BY <1>6, <2>13, <4>1, <4>2, <4>3, PointOf
      <4> QED BY <4>4 DEF Divides
    <3>2. j[m + 1] < p[m + 1] /\ j[m] \in Nat /\ k[m] \in Nat
      BY <1>11, <2>12
    <3> QED BY <2>12, <3>1, <3>2
  <2> QED BY <2>9, <2>12, <2>14
<1>13. PICK place : Numbers(place, Cardinality(db))
  BY RowsAreRead, NumbersExist
<1>14. /\ w \in Seq(K)
       /\ \A k \in K : \E i \in 1 .. Len(w) : w[i][m] = k[m]
       /\ \A i, j \in 1 .. Len(w) : i < j => w[i][m] < w[j][m]
  <2>1. \A k \in K : k[m] \in Nat /\ points[k] \in Seq(Nat)
    BY <1>11, <1>12
  <2>2. \A j, k \in K : Before(j, points[k]) <=> j[m] =< k[m]
    BY <1>12
  <2>3. \A j, k \in K : UpTo(j, k) => j[m] =< k[m]
    BY <1>5, <1>6, InKeptOrder
  <2>4. Separates(points, K, m)
    BY <2>1, <2>2, <2>3 DEF Separates
  <2>5. OneOfEach(w, K, m)
    BY <1>4, <1>5, <1>9, <1>13, <2>4, GroupsOf
  <2> QED BY <2>5 DEF OneOfEach
<1>15. Len(w) \in Nat /\ \A i \in 1 .. Len(w) : w[i] \in K
  BY <1>14, ElementOfSeq
<1>16. DOMAIN found = 1 .. Len(w) /\ \A i \in 1 .. Len(w) : found[i] = DecodeKey(cf, w[i])[m]
  BY <1>10
<1>17. IsInjective(found)
  <2>1. ASSUME NEW i \in 1 .. Len(w), NEW j \in 1 .. Len(w), found[i] = found[j], i < j
        PROVE  FALSE
    <3>1. w[i][m] = w[j][m]
      BY <1>11, <1>15, <1>16, <2>1
    <3>2. w[i][m] < w[j][m] /\ w[i][m] \in Nat
      BY <1>11, <1>14, <1>15, <2>1
    <3> QED BY <3>1, <3>2
  <2>2. ASSUME NEW i \in 1 .. Len(w), NEW j \in 1 .. Len(w), found[i] = found[j]
        PROVE  i = j
    <3>1. ~(i < j) /\ ~(j < i)
      BY <2>1, <2>2
    <3> QED BY <1>15, <3>1
  <2> QED BY <1>16, <2>2 DEF IsInjective
<1>18. \A x \in ToSet(found) : x \in {r[m] : r \in Under(values)}
  <2> SUFFICES ASSUME NEW i \in 1 .. Len(w)
               PROVE  found[i] \in {r[m] : r \in Under(values)}
    BY <1>16 DEF ToSet
  <2>1. DecodeKey(cf, w[i]) \in Under(values)
    BY <1>5, <1>15 DEF Decoded
  <2> QED BY <1>16, <2>1
<1>19. \A r \in Under(values) : r[m] \in ToSet(found)
  <2> SUFFICES ASSUME NEW r \in Under(values)
               PROVE  r[m] \in ToSet(found)
    OBVIOUS
  <2>1. PICK k \in K : DecodeKey(cf, k) = r
    BY <1>5 DEF Decoded
  <2>2. PICK i \in 1 .. Len(w) : w[i][m] = k[m]
    BY <1>14
  <2>3. DecodeKey(cf, w[i])[m] = r[m]
    <3>1. /\ DecodeKey(cf, w[i])[m] \in Names /\ r[m] \in Names
          /\ EncodeField("slug", DecodeKey(cf, w[i])[m]) = EncodeField("slug", r[m])
      BY <1>11, <1>15, <2>1, <2>2
    <3> QED BY <3>1, TokensDiffer DEF InField, Kinds
  <2>4. found[i] = r[m]
    BY <1>16, <2>3
  <2> QED BY <1>16, <2>4 DEF ToSet
<1> QED BY <1>17, <1>18, <1>19

-----------------------------------------------------------------------------
(***************************************************************************)
(* Loops over groups of rows, and the newest row of each.                  *)
(***************************************************************************)

\* Slugs, and a transaction after them.
IsVersioned(t, n) ==
  /\ t \in Seq(Kinds) /\ Len(t) = n + 1 /\ t[n + 1] = "uuid"
  /\ \A i \in 1 .. n : t[i] = "slug"

\* The layouts of the entries that the loops walk.
LEMMA LayoutsOf ==
  /\ {"entities", "embeddings", "managed", "memberships", "children"} \subseteq Fixed
  /\ IsVersioned(Layout["entities"], 2) /\ IsVersioned(Layout["embeddings"], 2)
  /\ IsVersioned(Layout["managed"], 3)
  /\ Layout["memberships"] = <<"uuid", "uuid", "uuid">> /\ Layout["children"] = <<"uuid", "i64", "uuid">>
<1>1. ASSUME NEW n \in 1 .. 2, NEW middle \in Seq({"slug"}), Len(middle) = n
      PROVE  IsVersioned(Versioned(middle), n + 1)
  <2>1. PICK head : head = <<"slug">> \o middle
    OBVIOUS
  <2>2. /\ head \in Seq(Kinds) /\ Len(head) = n + 1
        /\ \A i \in 1 .. n + 1 : head[i] = "slug"
    BY <1>1, <2>1 DEF Kinds
  <2>3. PICK t : t = head \o <<"uuid">>
    OBVIOUS
  <2>4. /\ t \in Seq(Kinds) /\ Len(t) = n + 1 + 1 /\ t[n + 1 + 1] = "uuid"
        /\ \A i \in 1 .. n + 1 : t[i] = "slug"
    BY <2>2, <2>3 DEF Kinds
  <2> QED BY <2>1, <2>3, <2>4 DEF Versioned, IsVersioned
<1>2. IsVersioned(EntityKey, 2) /\ IsVersioned(EmbeddingKey, 2)
  <2>1. PICK middle : middle = <<"slug">>
    OBVIOUS
  <2>2. middle \in Seq({"slug"}) /\ Len(middle) = 1
    BY <2>1
  <2>3. IsVersioned(Versioned(middle), 1 + 1)
    BY <1>1, <2>2
  <2> QED BY <2>1, <2>3 DEF EntityKey, EmbeddingKey
<1>3. IsVersioned(ManagedKey, 3)
  <2>1. PICK middle : middle = <<"slug", "slug">>
    OBVIOUS
  <2>2. middle \in Seq({"slug"}) /\ Len(middle) = 2
    BY <2>1
  <2>3. IsVersioned(Versioned(middle), 2 + 1)
    BY <1>1, <2>2
  <2> QED BY <2>1, <2>3 DEF ManagedKey
<1> QED BY <1>2, <1>3 DEF Fixed, Layout, ChildVersionKey, ChildKey

\* An element after a sequence.
LEMMA OneMore ==
  ASSUME NEW s \in Seq(Nat), NEW v \in Nat, NEW t, t = Append(s, v), NEW n \in Nat, n = Len(s)
  PROVE  t \in Seq(Nat) /\ Len(t) = n + 1 /\ t[n + 1] = v /\ \A i \in 1 .. n : t[i] = s[i]
BY AppendProperties

\* Prefixes of one, two and three fields.
LEMMA PairOf ==
  ASSUME NEW x \in Nat, NEW y \in Nat, NEW z \in Nat
  PROVE  /\ <<x>> \in Seq(Nat) /\ <<x, y>> \in Seq(Nat)
         /\ Append(<<x>>, y) = <<x, y>> /\ Append(<<x, y>>, z) = <<x, y, z>>
         /\ <<x>> \o <<y, z>> = <<x, y, z>>
<1>1. PICK a, b, c, d : a = <<x>> /\ b = <<x, y>> /\ c = <<x, y, z>> /\ d = <<y, z>>
  OBVIOUS
<1>2. /\ a \in Seq(Nat) /\ b \in Seq(Nat) /\ c \in Seq(Nat) /\ d \in Seq(Nat)
      /\ Len(a) = 1 /\ Len(b) = 2 /\ Len(c) = 3 /\ Len(d) = 2
      /\ a[1] = x /\ b[1] = x /\ b[2] = y /\ c[1] = x /\ c[2] = y /\ c[3] = z /\ d[1] = y /\ d[2] = z
  BY <1>1
<1>3. Append(a, y) = b
  <2>1. PICK t : t = Append(a, y)
    OBVIOUS
  <2>2. t \in Seq(Nat) /\ Len(t) = 2 /\ t[1] = x /\ t[2] = y
    <3>1. a \in Seq(Nat) /\ y \in Nat /\ Len(a) = 1
      BY <1>2
    <3>2. t \in Seq(Nat) /\ Len(t) = 1 + 1 /\ t[1 + 1] = y /\ \A i \in 1 .. 1 : t[i] = a[i]
      BY <2>1, <3>1, OneMore
    <3> QED BY <1>2, <3>2
  <2>3. \A i \in 1 .. 2 : t[i] = b[i]
    BY <1>2, <2>2
  <2> QED BY <1>2, <2>1, <2>2, <2>3, SeqEqual
<1>4. Append(b, z) = c
  <2>1. PICK t : t = Append(b, z)
    OBVIOUS
  <2>2. t \in Seq(Nat) /\ Len(t) = 3 /\ t[1] = x /\ t[2] = y /\ t[3] = z
    <3>1. b \in Seq(Nat) /\ z \in Nat /\ Len(b) = 2
      BY <1>2
    <3>2. t \in Seq(Nat) /\ Len(t) = 2 + 1 /\ t[2 + 1] = z /\ \A i \in 1 .. 2 : t[i] = b[i]
      BY <2>1, <3>1, OneMore
    <3> QED BY <1>2, <3>2
  <2>3. \A i \in 1 .. 3 : t[i] = c[i]
    BY <1>2, <2>2
  <2> QED BY <1>2, <2>1, <2>2, <2>3, SeqEqual
<1>5. a \o d = c
  <2>1. PICK t : t = a \o d
    OBVIOUS
  <2>2. /\ t \in Seq(Nat) /\ Len(t) = Len(a) + Len(d)
        /\ \A i \in 1 .. Len(a) : t[i] = a[i]
        /\ \A i \in 1 .. Len(d) : t[Len(a) + i] = d[i]
    <3>1. a \in Seq(Nat) /\ d \in Seq(Nat)
      BY <1>2
    <3> QED BY <2>1, <3>1, JoinOf
  <2>3. Len(t) = 3 /\ t[1] = a[1] /\ t[1 + 1] = d[1] /\ t[1 + 2] = d[2]
    BY <1>2, <2>2
  <2>4. \A i \in 1 .. 3 : t[i] = c[i]
    BY <1>2, <2>3
  <2> QED BY <1>2, <2>1, <2>2, <2>3, <2>4, SeqEqual
<1> QED BY <1>1, <1>2, <1>3, <1>4, <1>5

\* A row is under a prefix when it starts with it.
LEMMA UnderOf ==
  ASSUME DbInv, cf \in Fixed, NEW values \in Seq(Nat), Len(values) =< Len(Layout[cf])
  PROVE  \A r \in rows : r \in Under(values) <=> Starts(r, values)
<1> SUFFICES ASSUME NEW r \in rows
             PROVE  r \in Under(values) <=> Starts(r, values)
  OBVIOUS
<1>1. r \in Keys(cf)
  BY DEF DbInv
<1>2. r \in Seq(Nat) /\ Len(r) = Len(Layout[cf])
  BY <1>1, KeyIsSeq
<1>3. SubSeq(r, 1, Len(values)) = values <=> Starts(r, values)
  BY <1>2, StartOf
<1> QED BY <1>3 DEF Under

\* The newest rows of an address at a time.
NewestAt(values, at, m) == Newest({s \in Under(values) : s[m] =< at}, m)

\* What get_latest finds at an address of the store.
Latest(values, v, at) ==
  GetLatest(LowerBound(cf, Append(values, v)), UpperBound(cf, Append(Append(values, v), at)))

\* V has the field m of every row under the values; W is what it may be.
Gathers(V, W, values, m) ==
  /\ V \subseteq W
  /\ \A v \in W : InField(Layout[cf][m], v)
  /\ \A r \in Under(values) : r[m] \in V

Gathered(V, W, values, m, at) ==
  Decoded(UNION {Latest(values, v, at) : v \in V}) = UNION {NewestAt(Append(values, v), at, m + 1) : v \in W}

\* The newest rows of the addresses under a prefix, from those found.
LEMMA GatherOf ==
  ASSUME DbInv, cf \in Fixed, NEW values, ArePrefix(cf, values), NEW m, m = Len(values) + 1,
         m + 1 = Len(Layout[cf]), Layout[cf][m + 1] = "uuid", NEW at \in Nat,
         NEW V, NEW W, Gathers(V, W, values, m)
  PROVE  Gathered(V, W, values, m, at)
<1>1. PICK size \in 1 .. 4 : size = Len(Layout[cf]) /\ \A i \in 1 .. size : Layout[cf][i] \in Kinds
  BY LayoutOf DEF IsLayout
<1>2. PICK n \in Nat : n = Len(values) /\ n + 1 = m /\ m \in 1 .. size /\ values \in Seq(Nat)
  BY <1>1 DEF ArePrefix
<1>3. ASSUME NEW v \in W, NEW vs, vs = Append(values, v)
      PROVE  /\ ArePrefix(cf, vs) /\ m + 1 = Len(vs) + 1
             /\ \A r \in rows : r \in Under(vs) <=> r \in Under(values) /\ r[m] = v
  <2>1. v \in Nat /\ InField(Layout[cf][m], v)
    <3>1. InField(Layout[cf][m], v) /\ Layout[cf][m] \in Kinds
      BY <1>1, <1>2 DEF Gathers
    <3> QED BY <3>1, BoundToken
  <2>2. /\ vs \in Seq(Nat) /\ Len(vs) = n + 1 /\ vs[n + 1] = v
        /\ \A i \in 1 .. n : vs[i] = values[i]
    BY <1>2, <1>3, <2>1, AppendProperties
  <2>3. \A i \in 1 .. n + 1 : InField(Layout[cf][i], vs[i])
    <3> TAKE i \in 1 .. n + 1
    <3>1. CASE i = n + 1
      BY <1>2, <2>1, <2>2, <3>1
    <3>2. CASE i # n + 1
      <4>1. i \in 1 .. n
        BY <3>2
      <4> QED BY <1>2, <2>2, <4>1 DEF ArePrefix
    <3> QED BY <3>1, <3>2
  <2>4. ArePrefix(cf, vs)
    <3>1. Len(vs) < Len(Layout[cf]) /\ Layout[cf][Len(vs) + 1] = "uuid"
      BY <1>1, <1>2, <2>2
    <3> QED BY <2>2, <2>3, <3>1 DEF ArePrefix
  <2>5. ASSUME NEW r \in rows
        PROVE  r \in Under(vs) <=> r \in Under(values) /\ r[m] = v
    <3>1. r \in Under(vs) <=> Starts(r, vs)
      BY <2>4, UnderOf DEF ArePrefix
    <3>2. r \in Under(values) <=> Starts(r, values)
      BY <1>1, <1>2, UnderOf
    <3>3. Starts(r, vs) <=> Starts(r, values) /\ r[m] = v
      <4>1. \A i : i \in 1 .. n + 1 <=> i \in 1 .. n \/ i = n + 1
        BY <1>2
      <4> QED BY <1>2, <2>2, <4>1 DEF Starts
    <3> QED BY <3>1, <3>2, <3>3
  <2> QED BY <1>2, <2>2, <2>4, <2>5
<1>4. ASSUME NEW v \in V
      PROVE  Decoded(Latest(values, v, at)) = NewestAt(Append(values, v), at, m + 1)
  <2>1. PICK vs : vs = Append(values, v)
    OBVIOUS
  <2>2. ArePrefix(cf, vs) /\ m + 1 = Len(vs) + 1
    BY <1>3, <2>1 DEF Gathers
  <2>3. PICK t : t = m + 1
    OBVIOUS
  <2>4. t = Len(vs) + 1 /\ t = Len(Layout[cf]) /\ Layout[cf][t] = "uuid"
    BY <2>2, <2>3
  <2>5. Decoded(GetLatest(LowerBound(cf, vs), UpperBound(cf, Append(vs, at)))) =
           Newest({s \in Under(vs) : s[t] =< at}, t)
    BY <2>2, <2>4, LatestOf
  <2> QED BY <2>1, <2>3, <2>5 DEF NewestAt, Latest
<1>5. ASSUME NEW v \in W, NEW r \in NewestAt(Append(values, v), at, m + 1)
      PROVE  v \in V
  <2>1. r \in Under(Append(values, v)) /\ r \in rows
    BY <1>5 DEF NewestAt, Newest, Under
  <2>2. r \in Under(values) /\ r[m] = v
    BY <1>3, <2>1
  <2> QED BY <2>2 DEF Gathers
<1>6. ASSUME NEW x \in Decoded(UNION {Latest(values, v, at) : v \in V})
      PROVE  \E v \in W : x \in NewestAt(Append(values, v), at, m + 1)
  <2>1. PICK k \in UNION {Latest(values, v, at) : v \in V} : x = DecodeKey(cf, k)
    BY <1>6 DEF Decoded
  <2>2. PICK v \in V : k \in Latest(values, v, at)
    BY <2>1
  <2>3. x \in Decoded(Latest(values, v, at))
    BY <2>1, <2>2 DEF Decoded
  <2> QED BY <1>4, <2>3 DEF Gathers
<1>7. ASSUME NEW v \in W, NEW x \in NewestAt(Append(values, v), at, m + 1)
      PROVE  x \in Decoded(UNION {Latest(values, u, at) : u \in V})
  <2>1. v \in V
    BY <1>5, <1>7
  <2>2. x \in Decoded(Latest(values, v, at))
    BY <1>4, <1>7, <2>1
  <2> QED BY <2>1, <2>2 DEF Decoded
<1> QED BY <1>6, <1>7 DEF Gathered

-----------------------------------------------------------------------------
\* entity_slugs names every entity of a branch, and each once.
LEMMA EntitySlugsOf ==
  ASSUME DbInv, cf = "entities", NEW b \in Branches
  PROVE  /\ IsInjective(EntitySlugs(b))
         /\ ToSet(EntitySlugs(b)) = {r[2] : r \in Under(<<b>>)}
<1>1. PICK values : values = <<b>>
  OBVIOUS
<1>2. /\ cf \in Fixed /\ Len(Layout[cf]) = 3 /\ Layout[cf][1] = "slug" /\ Layout[cf][2] = "slug"
      /\ Layout[cf][3] = "uuid"
  BY LayoutsOf DEF IsVersioned
<1>3. values \in Seq(Nat) /\ Len(values) = 1 /\ values[1] = b /\ b \in Names
  BY <1>1, NumbersOf, TerraDbAssumption
<1>4. ArePrefix(cf, values)
  <2>1. InField("slug", b)
    BY <1>3 DEF InField
  <2>2. \A i \in 1 .. 1 : InField(Layout[cf][i], values[i])
    BY <1>2, <1>3, <2>1
  <2> QED BY <1>2, <1>3, <2>2 DEF ArePrefix
<1>5. PICK found : found = SkipVersions(cf, values)
  OBVIOUS
<1>6. IsInjective(found) /\ ToSet(found) = {r[2] : r \in Under(values)}
  <2>1. PICK m : m = 2
    OBVIOUS
  <2>2. m = Len(values) + 1 /\ m < Len(Layout[cf]) /\ Layout[cf][m] = "slug" /\ Layout[cf][m + 1] = "uuid"
    BY <1>2, <1>3, <2>1
  <2>3. IsInjective(found) /\ ToSet(found) = {r[m] : r \in Under(values)}
    BY <1>2, <1>4, <1>5, <2>2, SkipVersionsOf
  <2> QED BY <2>1, <2>3
<1> QED BY <1>1, <1>5, <1>6 DEF EntitySlugs

\* The embeddings of a branch at a transaction: the newest row of each entity.
LEMMA EmbeddingsOf ==
  ASSUME DbInv, cf = "embeddings", NEW b \in Branches, NEW at \in Uuids
  PROVE  Decoded(Embeddings(b, at)) =
           UNION {Newest({s \in Under(<<b, e>>) : s[3] =< at}, 3) : e \in Owners}
<1>1. PICK values : values = <<b>>
  OBVIOUS
<1>2. /\ cf \in Fixed /\ Len(Layout[cf]) = 3 /\ Layout[cf][1] = "slug" /\ Layout[cf][2] = "slug"
      /\ Layout[cf][3] = "uuid"
  BY LayoutsOf DEF IsVersioned
<1>3. values \in Seq(Nat) /\ Len(values) = 1 /\ values[1] = b /\ b \in Names /\ at \in Nat
  BY <1>1, NumbersOf, TerraDbAssumption
<1>4. ArePrefix(cf, values)
  <2>1. InField("slug", b)
    BY <1>3 DEF InField
  <2>2. \A i \in 1 .. 1 : InField(Layout[cf][i], values[i])
    BY <1>2, <1>3, <2>1
  <2> QED BY <1>2, <1>3, <2>2 DEF ArePrefix
<1>5. PICK m : m = 2
  OBVIOUS
<1>6. /\ m = Len(values) + 1 /\ m < Len(Layout[cf]) /\ Layout[cf][m] = "slug" /\ Layout[cf][m + 1] = "uuid"
      /\ m + 1 = Len(Layout[cf]) /\ m + 1 = 3
  BY <1>2, <1>3, <1>5
<1>7. PICK V : V = ToSet(SkipVersions(cf, values))
  OBVIOUS
<1>8. V = {r[m] : r \in Under(values)}
  BY <1>2, <1>4, <1>6, <1>7, SkipVersionsOf
<1>9. \A r \in Under(values) : r[m] \in Owners
  <2> SUFFICES ASSUME NEW r \in Under(values)
               PROVE  r[2] \in Owners
    BY <1>5
  <2>1. r \in Keys(cf)
    BY DEF DbInv, Under
  <2>2. r[2] \in Values(cf, 2)
    BY <1>2, <2>1 DEF Keys
  <2> QED BY <1>2, <2>2 DEF Values
<1>10. Decoded(UNION {Latest(values, v, at) : v \in V}) =
         UNION {NewestAt(Append(values, v), at, m + 1) : v \in Owners}
  <2>1. \A v \in Owners : InField("slug", v)
    BY TerraDbAssumption DEF InField
  <2>2. V \subseteq Owners /\ \A r \in Under(values) : r[m] \in V
    BY <1>8, <1>9
  <2>3. Gathers(V, Owners, values, m)
    BY <1>6, <2>1, <2>2 DEF Gathers
  <2>4. PICK t : t = m + 1
    OBVIOUS
  <2>5. t = Len(Layout[cf]) /\ Layout[cf][t] = "uuid" /\ cf \in Fixed /\ at \in Nat /\ m = Len(values) + 1
    BY <1>2, <1>3, <1>6, <2>4
  <2>6. Gathered(V, Owners, values, m, at)
    BY <1>4, <2>3, <2>4, <2>5, GatherOf
  <2> QED BY <2>6 DEF Gathered
<1>11. V \subseteq Nat /\ Owners \subseteq Nat
  BY <1>8, <1>9, NumbersOf, TerraDbAssumption
<1>12. \A v \in Nat : Append(values, v) = <<b, v>> /\ Append(Append(values, v), at) = values \o <<v, at>>
  <2>1. b \in Nat /\ at \in Nat
    BY <1>3, NumbersOf
  <2>2. ASSUME NEW v \in Nat
        PROVE  Append(<<b>>, v) = <<b, v>> /\ Append(<<b, v>>, at) = <<b>> \o <<v, at>>
    BY <2>1, PairOf
  <2> QED BY <1>1, <2>2
<1>13. Embeddings(b, at) = UNION {Latest(values, v, at) : v \in V}
  <2>1. \A v \in V : Latest(values, v, at) =
                     GetLatest(LowerBound(cf, Append(values, v)), UpperBound(cf, values \o <<v, at>>))
    BY <1>11, <1>12 DEF Latest
  <2>2. Embeddings(b, at) = NewestOf(cf, values, at)
    BY <1>1 DEF Embeddings
  <2>3. NewestOf(cf, values, at) =
          UNION {GetLatest(LowerBound(cf, Append(values, v)), UpperBound(cf, values \o <<v, at>>)) : v \in V}
    BY <1>7 DEF NewestOf
  <2> QED BY <2>1, <2>2, <2>3
<1>14. \A v \in Owners : NewestAt(Append(values, v), at, m + 1) = Newest({s \in Under(<<b, v>>) : s[3] =< at}, 3)
  BY <1>6, <1>11, <1>12 DEF NewestAt
<1> QED BY <1>10, <1>13, <1>14

\* What a row of a prefix has after it.
LEMMA FieldsAfter ==
  ASSUME DbInv, cf \in Fixed, NEW values, ArePrefix(cf, values),
         NEW K, Decoded(K) = Under(values), K \subseteq db, NEW k \in K, NEW s, s = DecodeKey(cf, k),
         NEW i \in 1 .. Len(Layout[cf])
  PROVE  /\ k \in Seq(Nat) /\ k[i] \in Nat /\ i \in 1 .. Len(k) /\ InField(Layout[cf][i], s[i])
         /\ Layout[cf][i] = "uuid" => k[i] = s[i] /\ s[i] \in Uuids /\ k[i] < MaxUuid /\ k[i] > NilUuid
         /\ Layout[cf][i] = "i64" => k[i] = s[i] /\ s[i] \in 0 .. MaxI64
<1>1. HasTokens(k, s, values)
  BY KeptTokens
<1>2. /\ k \in Seq(Nat) /\ k[i] \in Nat /\ i \in 1 .. Len(k) /\ k[i] = EncodeField(Layout[cf][i], s[i])
      /\ InField(Layout[cf][i], s[i])
  BY <1>1 DEF HasTokens, IsKey
<1>3. Layout[cf][i] \in Kinds
  BY LayoutOf DEF IsLayout
<1>4. Layout[cf][i] # "slug" => k[i] = s[i]
  BY <1>2, <1>3, TokenOf
<1> QED BY <1>2, <1>4, NumbersOf DEF InField

-----------------------------------------------------------------------------
\* The memberships of a parent at a transaction: the newest row of each child.
LEMMA MembershipsOf ==
  ASSUME DbInv, cf = "memberships", NEW parent \in Uuids, NEW at \in Uuids
  PROVE  Decoded(MembershipsAt(parent, at)) =
           UNION {Newest({s \in Under(<<parent, c>>) : s[3] =< at}, 3) : c \in Uuids}
<1>1. PICK values : values = <<parent>>
  OBVIOUS
<1>2. /\ cf \in Fixed /\ Len(Layout[cf]) = 3
      /\ \A i \in 1 .. 3 : Layout[cf][i] = "uuid"
  BY LayoutsOf
<1>3. values \in Seq(Nat) /\ Len(values) = 1 /\ values[1] = parent /\ parent \in Nat /\ at \in Nat
  BY <1>1, NumbersOf
<1>4. ArePrefix(cf, values)
  <2>1. \A i \in 1 .. 1 : InField(Layout[cf][i], values[i])
    <3>1. InField("uuid", parent)
      BY DEF InField
    <3> QED BY <1>2, <1>3, <3>1
  <2> QED BY <1>2, <1>3, <2>1 DEF ArePrefix
<1>5. PICK lower, upper : lower = LowerBound(cf, values) /\ upper = UpperBound(cf, values)
  OBVIOUS
<1>6. PICK K : K = Kept(lower, upper)
  OBVIOUS
<1>7. lower \in Seq(Nat) /\ upper \in Seq(Nat) /\ Decoded(K) = Under(values) /\ K \subseteq db
  BY <1>2, <1>4, <1>5, <1>6, PrefixRows DEF Kept
<1>8. ASSUME NEW k \in K, NEW s, s = DecodeKey(cf, k)
      PROVE  /\ s[2] \in Uuids /\ s[2] = k[2] /\ k[2] \in Nat /\ k[3] \in Nat /\ k[3] > NilUuid
             /\ 3 \in 1 .. Len(k) /\ s[3] = k[3]
  <2>1. 2 \in 1 .. Len(Layout[cf]) /\ 3 \in 1 .. Len(Layout[cf])
    BY <1>2
  <2>2. s[2] \in Uuids /\ s[2] = k[2] /\ k[2] \in Nat
    BY <1>2, <1>4, <1>7, <1>8, <2>1, FieldsAfter
  <2>3. k[3] \in Nat /\ k[3] > NilUuid /\ 3 \in 1 .. Len(k) /\ s[3] = k[3]
    BY <1>2, <1>4, <1>7, <1>8, <2>1, FieldsAfter
  <2> QED BY <2>2, <2>3
<1>9. PICK points : points = [k \in db |-> NextChild(parent, DecodeKey("memberships", k)[2])]
  OBVIOUS
<1>10. PICK w : w = SkipScan(lower, upper, points)
  OBVIOUS
<1>11. ASSUME NEW k \in K
       PROVE  points[k] \in Seq(Nat) /\ \A j \in K : Before(j, points[k]) <=> j[2] =< k[2]
  <2>1. PICK c : c = DecodeKey(cf, k)[2] /\ c \in Nat /\ c = k[2]
    BY <1>8
  <2>2. PICK lo : lo = <<parent, c + 1>>
    OBVIOUS
  <2>3. lo \in Seq(Nat) /\ Len(lo) = 2 /\ lo[1] = parent /\ lo[2] = c + 1
    BY <1>3, <2>1, <2>2
  <2>4. PICK p : p = points[k]
    OBVIOUS
  <2>5. p = LowerBound(cf, lo)
    BY <1>7, <1>9, <2>1, <2>2, <2>4 DEF NextChild
  <2>6. InBounds(cf, lo)
    <3>1. \A i \in 1 .. 2 : InBound("uuid", lo[i])
      BY <1>3, <2>1, <2>3 DEF InBound
    <3> QED BY <1>2, <2>3, <3>1 DEF InBounds
  <2>7. IsLower(p, cf, lo)
    BY <1>2, <2>5, <2>6, BoundsOf
  <2>8. /\ p \in Seq(Nat) /\ p[1] = parent /\ p[2] = c + 1 /\ p[3] = NilUuid /\ Len(p) = 4
    <3>1. \A i \in 1 .. 2 : p[i] = EncodeField("uuid", lo[i])
      BY <1>2, <2>3, <2>7 DEF IsLower
    <3>2. p[3] = EncodeField("uuid", Nil("uuid")) /\ p \in Seq(Nat) /\ Len(p) = 4
      BY <1>2, <2>3, <2>7 DEF IsLower
    <3> QED BY <2>3, <3>1, <3>2 DEF EncodeField, Nil
  <2>9. ASSUME NEW j \in K
        PROVE  Before(j, p) <=> j[2] =< k[2]
    <3>1. PICK m : m = 2
      OBVIOUS
    <3>2. m = Len(values) + 1 /\ m + 1 = 3 /\ m + 1 \in 1 .. Len(p) /\ m + 1 \in 1 .. Len(j)
      BY <1>3, <1>8, <2>8, <3>1
    <3>3. \A i \in 1 .. Len(values) : p[i] = EncodeField(Layout[cf][i], values[i])
      BY <1>2, <1>3, <2>8 DEF EncodeField
    <3>4. Decoded(K) \subseteq Under(values) /\ p \in Seq(Nat) /\ cf \in Fixed
      BY <1>2, <1>7, <2>8
    <3>5. Divides(p, j, m)
      BY <1>4, <1>7, <3>2, <3>3, <3>4, PointOf
    <3>6. /\ j[2] < c + 1 => Before(j, p)
          /\ c + 1 < j[2] => ~Before(j, p)
          /\ j[2] = c + 1 /\ NilUuid < j[3] => ~Before(j, p)
      BY <2>8, <3>1, <3>2, <3>5 DEF Divides
    <3>7. j[2] \in Nat /\ NilUuid < j[3]
      BY <1>8 DEF NilUuid
    <3> QED BY <2>1, <3>6, <3>7
  <2> QED BY <2>4, <2>8, <2>9
<1>12. OneOfEach(w, K, 2)
  <2>1. PICK place : Numbers(place, Cardinality(db))
    BY RowsAreRead, NumbersExist
  <2>2. PICK m : m = 2
    OBVIOUS
  <2>3. \A j, k \in K : UpTo(j, k) => j[m] =< k[m]
    <3>1. m = Len(values) + 1 /\ Decoded(K) \subseteq Under(values)
      BY <1>3, <1>7, <2>2
    <3> QED BY <1>2, <1>4, <1>7, <3>1, InKeptOrder
  <2>4. \A k \in K : k[m] \in Nat /\ points[k] \in Seq(Nat)
    BY <1>8, <1>11, <2>2
  <2>5. \A j, k \in K : Before(j, points[k]) <=> j[m] =< k[m]
    BY <1>11, <2>2
  <2>6. Separates(points, K, m)
    BY <2>3, <2>4, <2>5 DEF Separates
  <2> QED BY <1>6, <1>7, <1>10, <2>1, <2>2, <2>6, GroupsOf
<1>13. /\ Len(w) \in Nat /\ \A i \in 1 .. Len(w) : w[i] \in K
       /\ \A k \in K : \E i \in 1 .. Len(w) : w[i][2] = k[2]
  <2>1. w \in Seq(K) /\ \A k \in K : \E i \in 1 .. Len(w) : w[i][2] = k[2]
    BY <1>12 DEF OneOfEach
  <2>2. Len(w) \in Nat /\ \A i \in 1 .. Len(w) : w[i] \in K
    BY <2>1
  <2> QED BY <2>1, <2>2
<1>14. PICK V : V = {DecodeKey(cf, w[i])[2] : i \in 1 .. Len(w)}
  OBVIOUS
<1>15. PICK m : m = 2
  OBVIOUS
<1>16. /\ m = Len(values) + 1 /\ m < Len(Layout[cf]) /\ Layout[cf][m] = "uuid" /\ Layout[cf][m + 1] = "uuid"
       /\ m + 1 = Len(Layout[cf]) /\ m + 1 = 3
  BY <1>2, <1>3, <1>15
<1>17. Gathers(V, Uuids, values, m)
  <2>1. V \subseteq Uuids
    BY <1>8, <1>13, <1>14
  <2>2. \A v \in Uuids : InField(Layout[cf][m], v)
    BY <1>16 DEF InField
  <2>3. ASSUME NEW r \in Under(values)
        PROVE  r[m] \in V
    <3>1. PICK k \in K : r = DecodeKey(cf, k)
      BY <1>7 DEF Decoded
    <3>2. PICK i \in 1 .. Len(w) : w[i][2] = k[2]
      BY <1>13
    <3>3. DecodeKey(cf, w[i])[2] = r[2]
      BY <1>8, <1>13, <3>1, <3>2
    <3> QED BY <1>14, <1>15, <3>3
  <2> QED BY <2>1, <2>2, <2>3 DEF Gathers
<1>18. Decoded(UNION {Latest(values, v, at) : v \in V}) =
         UNION {NewestAt(Append(values, v), at, m + 1) : v \in Uuids}
  <2>1. PICK t : t = m + 1
    OBVIOUS
  <2>2. t = Len(Layout[cf]) /\ Layout[cf][t] = "uuid" /\ cf \in Fixed /\ at \in Nat /\ m = Len(values) + 1
    BY <1>2, <1>3, <1>16, <2>1
  <2>3. Gathered(V, Uuids, values, m, at)
    BY <1>4, <1>17, <2>1, <2>2, GatherOf
  <2> QED BY <2>3 DEF Gathered
<1>19. \A v \in Uuids : /\ Append(values, v) = <<parent, v>>
                        /\ Append(Append(values, v), at) = <<parent, v, at>>
  <2>1. ASSUME NEW v \in Uuids
        PROVE  Append(<<parent>>, v) = <<parent, v>> /\ Append(<<parent, v>>, at) = <<parent, v, at>>
    BY <1>3, NumbersOf, PairOf
  <2> QED BY <1>1, <2>1
<1>20. MembershipsAt(parent, at) = UNION {Latest(values, v, at) : v \in V}
  <2>1. MembershipsAt(parent, at) =
          UNION {GetLatest(LowerBound(cf, <<parent, DecodeKey(cf, w[i])[2]>>),
                           UpperBound(cf, <<parent, DecodeKey(cf, w[i])[2], at>>)) : i \in 1 .. Len(w)}
    BY <1>1, <1>5, <1>9, <1>10 DEF MembershipsAt
  <2>2. \A i \in 1 .. Len(w) : /\ DecodeKey(cf, w[i])[2] \in V
                               /\ DecodeKey(cf, w[i])[2] \in Uuids
    BY <1>8, <1>13, <1>14
  <2>3. \A i \in 1 .. Len(w) : Latest(values, DecodeKey(cf, w[i])[2], at) =
          GetLatest(LowerBound(cf, <<parent, DecodeKey(cf, w[i])[2]>>),
                    UpperBound(cf, <<parent, DecodeKey(cf, w[i])[2], at>>))
    BY <1>19, <2>2 DEF Latest
  <2>4. \A x \in MembershipsAt(parent, at) : x \in UNION {Latest(values, v, at) : v \in V}
    BY <2>1, <2>2, <2>3
  <2>5. \A x \in UNION {Latest(values, v, at) : v \in V} : x \in MembershipsAt(parent, at)
    BY <1>14, <2>1, <2>3
  <2> QED BY <2>4, <2>5
<1>21. \A v \in Uuids : NewestAt(Append(values, v), at, m + 1) = Newest({s \in Under(<<parent, v>>) : s[3] =< at}, 3)
  BY <1>16, <1>19 DEF NewestAt
<1> QED BY <1>18, <1>20, <1>21

\* A key that is short of the step to the next key is not past the key stepped from.
LEMMA ShortOfNext ==
  ASSUME NEW place, NEW n, Numbers(place, n), NEW lower \in Seq(Nat), NEW upper \in Seq(Nat),
         NEW S, S = Kept(lower, upper), NEW k \in S, NEW v \in S,
         UpTo(v, k), Short(k, After(v), S, place)
  PROVE  k = v
<1>1. /\ \A j \in db : j \in Seq(Nat) /\ place[j] \in Nat
      /\ \A i, j \in db : place[i] =< place[j] <=> UpTo(i, j)
  BY DEF Numbers
<1>2. IsFirst(After(v), Following(v), place)
  BY StepsOf
<1>3. \A j \in db : j \in S <=> UpTo(lower, j) /\ UpTo(j, upper)
  BY DEF Kept, Inside
<1>4. k \in db /\ v \in db /\ UpTo(lower, v) /\ UpTo(k, upper)
  BY <1>3 DEF Kept
<1> SUFFICES ASSUME k # v
             PROVE  FALSE
  OBVIOUS
<1>5. k \in Following(v)
  BY <1>4 DEF UpTo, Following
<1>6. PICK s \in After(v) : place[s] =< place[k]
  BY <1>2, <1>5 DEF IsFirst
<1>7. s \in db /\ UpTo(v, s)
  BY <1>2, <1>6 DEF IsFirst, Following, UpTo
<1>8. UpTo(lower, s)
  BY <1>1, <1>4, <1>7, UpToTransitive
<1>9. UpTo(s, upper)
  <2>1. UpTo(s, k)
    BY <1>1, <1>4, <1>6, <1>7
  <2> QED BY <1>1, <1>4, <1>7, <2>1, UpToTransitive
<1>10. place[k] < place[s]
  BY <1>3, <1>6, <1>7, <1>8, <1>9 DEF Short
<1> QED BY <1>1, <1>4, <1>6, <1>7, <1>10

\* A bound on the last field of the last value there can be leaves out no row.
LEMMA ManagedRange ==
  ASSUME DbInv, cf = "managed", NEW branch \in Branches, NEW type \in Types, NEW at \in Uuids,
         NEW values, values = <<branch, type>>,
         NEW lower, lower = LowerBound(cf, values),
         NEW upper, upper = UpperBound(cf, <<branch, type, MaxSlug, at>>)
  PROVE  /\ lower \in Seq(Nat) /\ upper \in Seq(Nat)
         /\ Decoded(Kept(lower, upper)) = Under(values)
         /\ values \in Seq(Nat) /\ Len(values) = 2 /\ values[1] = branch /\ values[2] = type
         /\ ArePrefix(cf, values)
<1>1. /\ cf \in Fixed /\ Len(Layout[cf]) = 4 /\ Layout[cf][1] = "slug" /\ Layout[cf][2] = "slug"
      /\ Layout[cf][3] = "slug" /\ Layout[cf][4] = "uuid"
  BY LayoutsOf DEF IsVersioned
<1>2. branch \in Names /\ type \in Names /\ branch \in Nat /\ type \in Nat /\ at \in Nat
  BY NumbersOf, TerraDbAssumption
<1>3. values \in Seq(Nat) /\ Len(values) = 2 /\ values[1] = branch /\ values[2] = type
  BY <1>2
<1>4. ArePrefix(cf, values)
  <2>1. InField("slug", branch) /\ InField("slug", type)
    BY <1>2 DEF InField
  <2>2. \A i \in 1 .. 2 : InField(Layout[cf][i], values[i])
    BY <1>1, <1>3, <2>1
  <2> QED BY <1>1, <1>3, <2>2 DEF ArePrefix
<1>5. PICK past : past = UpperBound(cf, values)
  OBVIOUS
<1>6. lower \in Seq(Nat) /\ past \in Seq(Nat) /\ Decoded(Kept(lower, past)) = Under(values)
  BY <1>1, <1>4, <1>5, PrefixRows
<1>7. PICK hi : hi = <<branch, type, MaxSlug, at>>
  OBVIOUS
<1>8. /\ hi \in Seq(Nat) /\ Len(hi) = 4
      /\ hi[1] = branch /\ hi[2] = type /\ hi[3] = MaxSlug /\ hi[4] = at
  BY <1>2, <1>7, NumbersOf
<1>9. InBounds(cf, hi) /\ InBounds(cf, values)
  <2>1. InBound("slug", branch) /\ InBound("slug", type) /\ InBound("slug", MaxSlug) /\ InBound("uuid", at)
    BY <1>2, NumbersOf DEF InBound
  <2>2. \A i \in 1 .. 4 : InBound(Layout[cf][i], hi[i])
    BY <1>1, <1>8, <2>1
  <2>3. \A i \in 1 .. 2 : InBound(Layout[cf][i], values[i])
    BY <1>1, <1>3, <2>1
  <2> QED BY <1>1, <1>3, <1>8, <2>2, <2>3 DEF InBounds
<1>10. IsUpper(upper, cf, hi) /\ IsUpper(past, cf, values)
  BY <1>1, <1>5, <1>7, <1>9, BoundsOf
<1>11. HashOf(MaxSlug) = MaxUuid
  BY NumbersOf, KeySpaceAssumption DEF HashOf, MinSlug
<1>12. /\ upper \in Seq(Nat) /\ upper[1] = EncodeField("slug", branch) /\ upper[2] = EncodeField("slug", type)
       /\ upper[3] = MaxUuid /\ upper[4] = at /\ Len(upper) = 5
  <2>1. \A i \in 1 .. 4 : upper[i] = EncodeField(Layout[cf][i], hi[i])
    BY <1>8, <1>10 DEF IsUpper
  <2>2. /\ upper[1] = EncodeField("slug", branch) /\ upper[2] = EncodeField("slug", type)
        /\ upper[3] = EncodeField("slug", MaxSlug) /\ upper[4] = EncodeField("uuid", at)
    BY <1>1, <1>8, <2>1
  <2>3. upper \in Seq(Nat) /\ Len(upper) = 5
    BY <1>1, <1>10 DEF IsUpper
  <2>4. EncodeField("slug", MaxSlug) = MaxUuid /\ EncodeField("uuid", at) = at
    BY <1>11 DEF EncodeField
  <2> QED BY <2>2, <2>3, <2>4
<1>13. /\ past[1] = EncodeField("slug", branch) /\ past[2] = EncodeField("slug", type)
       /\ past[3] = MaxUuid /\ past[4] = MaxUuid /\ Len(past) = 5
  <2>1. \A i \in 1 .. 2 : past[i] = EncodeField(Layout[cf][i], values[i])
    BY <1>3, <1>10 DEF IsUpper
  <2>2. \A i \in 3 .. 4 : past[i] = EncodeField(Layout[cf][i], Top(Layout[cf][i]))
    BY <1>1, <1>3, <1>10 DEF IsUpper
  <2>3. /\ past[1] = EncodeField("slug", branch) /\ past[2] = EncodeField("slug", type)
        /\ past[3] = EncodeField("slug", MaxSlug) /\ past[4] = EncodeField("uuid", MaxUuid)
    BY <1>1, <1>3, <2>1, <2>2 DEF Top
  <2> QED BY <1>1, <1>10, <1>11, <2>3 DEF IsUpper, EncodeField
<1>14. UpTo(upper, past)
  <2>1. \A i \in 1 .. 4 - 1 : upper[i] = past[i]
    BY <1>12, <1>13
  <2>2. upper[4] < past[4] /\ 4 \in 1 .. Len(upper) /\ 4 \in 1 .. Len(past)
    BY <1>12, <1>13, NumbersOf
  <2>3. PICK i : i = 4
    OBVIOUS
  <2>4. /\ i \in 1 .. Len(upper) /\ i \in 1 .. Len(past) /\ upper[i] < past[i]
        /\ \A j \in 1 .. i - 1 : upper[j] = past[j]
    BY <2>1, <2>2, <2>3
  <2> QED BY <1>6, <1>12, <2>4, DecidedAt DEF UpTo
<1>15. ASSUME NEW k \in Kept(lower, past)
       PROVE  UpTo(k, upper)
  <2>1. HasTokens(k, DecodeKey(cf, k), values)
    <3>1. Kept(lower, past) \in SUBSET db /\ Decoded(Kept(lower, past)) \subseteq Under(values)
      BY <1>6 DEF Kept
    <3> QED BY <1>1, <1>4, <3>1, KeptTokens
  <2>2. k \in Seq(Nat) /\ k[1] = EncodeField("slug", branch) /\ k[2] = EncodeField("slug", type)
    BY <1>1, <1>3, <2>1 DEF HasTokens
  <2>3. 3 \in 1 .. Len(k) /\ k[3] = EncodeField("slug", DecodeKey(cf, k)[3]) /\ InField("slug", DecodeKey(cf, k)[3])
    BY <1>1, <2>1 DEF HasTokens, IsKey
  <2>4. k[3] < MaxUuid
    <3>1. EncodeField("slug", DecodeKey(cf, k)[3]) < EncodeField("slug", Top("slug"))
      BY <2>3, TokenOf DEF Kinds
    <3> QED BY <1>11, <2>3, <3>1 DEF Top, EncodeField
  <2>5. PICK i : i = 3
    OBVIOUS
  <2>6. \A j \in 1 .. 3 - 1 : k[j] = upper[j]
    BY <1>12, <2>2
  <2>7. /\ i \in 1 .. Len(k) /\ i \in 1 .. Len(upper) /\ k[i] < upper[i]
        /\ \A j \in 1 .. i - 1 : k[j] = upper[j]
    BY <1>12, <2>3, <2>4, <2>5, <2>6
  <2> QED BY <1>12, <2>2, <2>7, DecidedAt DEF UpTo
<1>16. Kept(lower, upper) = Kept(lower, past)
  <2>1. ASSUME NEW k \in db, UpTo(k, upper)
        PROVE  UpTo(k, past)
    <3>1. k \in Seq(Nat)
      BY RowsAreRead
    <3> QED BY <1>6, <1>12, <1>14, <2>1, <3>1, UpToTransitive
  <2> QED BY <1>15, <2>1 DEF Kept, Inside
<1> QED BY <1>3, <1>4, <1>6, <1>12, <1>16

-----------------------------------------------------------------------------
(***************************************************************************)
(* Managed items, and the loops together: skips miss nothing.              *)
(***************************************************************************)

\* The managed items of a type at a transaction: the newest row of each item.
LEMMA ManagedOf ==
  ASSUME DbInv, cf = "managed", NEW branch \in Branches, NEW type \in Types, NEW at \in Uuids
  PROVE  Decoded(ManagedItems(branch, type, at)) =
           UNION {Newest({s \in Under(<<branch, type, i>>) : s[4] =< at}, 4) : i \in Owners}
<1>1. PICK values : values = <<branch, type>>
  OBVIOUS
<1>2. /\ cf \in Fixed /\ Len(Layout[cf]) = 4 /\ Layout[cf][1] = "slug" /\ Layout[cf][2] = "slug"
      /\ Layout[cf][3] = "slug" /\ Layout[cf][4] = "uuid"
  BY LayoutsOf DEF IsVersioned
<1>3. PICK lower, upper : lower = LowerBound(cf, values) /\ upper = UpperBound(cf, <<branch, type, MaxSlug, at>>)
  OBVIOUS
<1>4. PICK K : K = Kept(lower, upper)
  OBVIOUS
<1>5. /\ lower \in Seq(Nat) /\ upper \in Seq(Nat) /\ Decoded(K) = Under(values) /\ K \subseteq db
      /\ values \in Seq(Nat) /\ Len(values) = 2 /\ values[1] = branch /\ values[2] = type
      /\ ArePrefix(cf, values)
  <2>1. K \subseteq db
    BY <1>4 DEF Kept
  <2>2. /\ lower \in Seq(Nat) /\ upper \in Seq(Nat)
        /\ Decoded(Kept(lower, upper)) = Under(values)
        /\ values \in Seq(Nat) /\ Len(values) = 2 /\ values[1] = branch /\ values[2] = type
        /\ ArePrefix(cf, values)
    BY <1>1, <1>3, ManagedRange
  <2> QED BY <1>4, <2>1, <2>2
<1>6. branch \in Nat /\ type \in Nat /\ at \in Nat /\ Owners \subseteq Names /\ Owners \subseteq Nat
  BY NumbersOf, TerraDbAssumption
<1>7. ASSUME NEW k \in K, NEW s, s = DecodeKey(cf, k)
      PROVE  /\ s[3] \in Owners /\ k[3] = EncodeField("slug", s[3]) /\ k[3] \in Nat
             /\ k[4] \in Nat /\ k[4] < MaxUuid /\ 4 \in 1 .. Len(k)
  <2>1. 3 \in 1 .. Len(Layout[cf]) /\ 4 \in 1 .. Len(Layout[cf])
    BY <1>2
  <2>2. k[4] \in Nat /\ k[4] < MaxUuid /\ 4 \in 1 .. Len(k)
    BY <1>2, <1>5, <1>7, <2>1, FieldsAfter
  <2>3. HasTokens(k, s, values)
    <3>1. K \in SUBSET db /\ Decoded(K) \subseteq Under(values)
      BY <1>5
    <3> QED BY <1>2, <1>5, <1>7, <3>1, KeptTokens
  <2>4. k[3] = EncodeField("slug", s[3]) /\ k[3] \in Nat /\ s \in rows
    BY <1>2, <2>1, <2>3 DEF HasTokens
  <2>5. s[3] \in Values(cf, 3)
    <3>1. s \in Keys(cf)
      BY <2>4 DEF DbInv
    <3> QED BY <1>2, <2>1, <3>1 DEF Keys
  <2>6. s[3] \in Owners
    BY <1>2, <2>5 DEF Values
  <2> QED BY <2>2, <2>4, <2>6
<1>8. PICK points : points = [k \in db |-> LowerBound(cf, Append(<<branch, type, DecodeKey(cf, k)[3]>>, MaxUuid))]
  OBVIOUS
<1>9. PICK Stays : Stays = {k \in db :
         /\ GetLatest(LowerBound("managed", <<branch, type, DecodeKey("managed", k)[3]>>),
                      UpperBound("managed", Append(<<branch, type, DecodeKey("managed", k)[3]>>, at))) = {}
         /\ ~\E j \in db : Before(j, k) /\ SubSeq(j, 1, 3) = SubSeq(k, 1, 3)}
  OBVIOUS
<1>10. PICK step : step = [k \in db |-> IF k \in Stays THEN After(k) ELSE Seek(points[k])]
  OBVIOUS
<1>11. PICK w : w = Walk(Seek(lower), step, lower, upper)
  OBVIOUS
<1>12. ManagedItems(branch, type, at) =
         UNION {GetLatest(LowerBound(cf, <<branch, type, DecodeKey(cf, w[i])[3]>>),
                          UpperBound(cf, Append(<<branch, type, DecodeKey(cf, w[i])[3]>>, at))) : i \in 1 .. Len(w)}
  <2>1. step = [k \in db |->
          IF /\ GetLatest(LowerBound("managed", <<branch, type, DecodeKey("managed", k)[3]>>),
                          UpperBound("managed", Append(<<branch, type, DecodeKey("managed", k)[3]>>, at))) = {}
             /\ ~\E j \in db : Before(j, k) /\ SubSeq(j, 1, 3) = SubSeq(k, 1, 3)
          THEN After(k)
          ELSE Seek(LowerBound("managed", Append(<<branch, type, DecodeKey("managed", k)[3]>>, MaxUuid)))]
    BY <1>8, <1>9, <1>10
  <2>2. cf = "managed"
    OBVIOUS
  <2> QED BY <1>1, <1>3, <1>11, <2>1, <2>2 DEF ManagedItems
<1>13. ASSUME NEW k \in K
       PROVE  /\ points[k] \in Seq(Nat) /\ Before(k, points[k])
              /\ \A j \in K : Before(j, points[k]) => j[3] =< k[3]
  <2>1. PICK g : g = DecodeKey(cf, k)[3] /\ g \in Owners /\ g \in Nat /\ g \in Names
                 /\ k[3] = EncodeField("slug", g)
    BY <1>6, <1>7
  <2>2. PICK lo : lo = Append(<<branch, type, g>>, MaxUuid)
    OBVIOUS
  <2>3. /\ lo \in Seq(Nat) /\ Len(lo) = 4
        /\ lo[1] = branch /\ lo[2] = type /\ lo[3] = g /\ lo[4] = MaxUuid
    <3>1. PICK x : x = <<branch, type, g>>
      OBVIOUS
    <3>2. x \in Seq(Nat) /\ Len(x) = 3 /\ x[1] = branch /\ x[2] = type /\ x[3] = g /\ MaxUuid \in Nat
      BY <1>6, <2>1, <3>1, NumbersOf
    <3>3. lo \in Seq(Nat) /\ Len(lo) = 3 + 1 /\ lo[3 + 1] = MaxUuid /\ \A i \in 1 .. 3 : lo[i] = x[i]
      BY <2>2, <3>1, <3>2, OneMore
    <3> QED BY <3>2, <3>3
  <2>4. PICK p : p = points[k]
    OBVIOUS
  <2>5. p = LowerBound(cf, lo)
    BY <1>5, <1>8, <2>1, <2>2, <2>4
  <2>6. InBounds(cf, lo)
    <3>1. InBound("slug", branch) /\ InBound("slug", type) /\ InBound("slug", g) /\ InBound("uuid", MaxUuid)
      BY <1>6, <2>1, NumbersOf, TerraDbAssumption DEF InBound
    <3>2. \A i \in 1 .. 4 : InBound(Layout[cf][i], lo[i])
      BY <1>2, <2>3, <3>1
    <3> QED BY <1>2, <2>3, <3>2 DEF InBounds
  <2>7. IsLower(p, cf, lo)
    BY <1>2, <2>5, <2>6, BoundsOf
  <2>8. /\ p \in Seq(Nat) /\ p[3] = k[3] /\ p[4] = MaxUuid /\ Len(p) = 5
        /\ p[1] = EncodeField("slug", branch) /\ p[2] = EncodeField("slug", type)
    <3>1. \A i \in 1 .. 4 : p[i] = EncodeField(Layout[cf][i], lo[i])
      BY <2>3, <2>7 DEF IsLower
    <3>2. /\ p[1] = EncodeField("slug", branch) /\ p[2] = EncodeField("slug", type)
          /\ p[3] = EncodeField("slug", g) /\ p[4] = EncodeField("uuid", MaxUuid)
      BY <1>2, <2>3, <3>1
    <3>3. p \in Seq(Nat) /\ Len(p) = 5
      BY <1>2, <2>7 DEF IsLower
    <3>4. EncodeField("uuid", MaxUuid) = MaxUuid
      BY DEF EncodeField
    <3> QED BY <2>1, <3>2, <3>3, <3>4
  <2>9. ASSUME NEW j \in K
        PROVE  /\ j[3] < k[3] => Before(j, p)
               /\ k[3] < j[3] => ~Before(j, p)
               /\ j[3] = k[3] => Before(j, p)
    <3>1. PICK m : m = 3
      OBVIOUS
    <3>2. m = Len(values) + 1 /\ m + 1 = 4 /\ m + 1 \in 1 .. Len(p) /\ m + 1 \in 1 .. Len(j)
      BY <1>5, <1>7, <2>8, <3>1
    <3>3. \A i \in 1 .. Len(values) : p[i] = EncodeField(Layout[cf][i], values[i])
      BY <1>2, <1>5, <2>8
    <3>4. K \in SUBSET db /\ Decoded(K) \subseteq Under(values) /\ p \in Seq(Nat) /\ cf \in Fixed
      BY <1>2, <1>5, <2>8
    <3>5. Divides(p, j, m)
      BY <1>5, <3>2, <3>3, <3>4, PointOf
    <3>6. /\ j[3] < p[3] => Before(j, p)
          /\ p[3] < j[3] => ~Before(j, p)
          /\ j[3] = p[3] /\ j[4] < p[4] => Before(j, p)
      BY <3>1, <3>2, <3>5 DEF Divides
    <3> QED BY <1>7, <2>8, <3>6
  <2>10. Before(k, p)
    BY <2>9
  <2>11. \A j \in K : Before(j, p) => j[3] =< k[3]
    BY <1>7, <2>9
  <2> QED BY <2>4, <2>8, <2>10, <2>11
<1>14. PICK n : n = Cardinality(db)
  OBVIOUS
<1>15. PICK place : Numbers(place, n)
  BY <1>14, RowsAreRead, NumbersExist
<1>16. \A k \in db : k \in Seq(Nat)
  BY RowsAreRead
<1>17. ASSUME NEW k \in K
       PROVE  /\ step[k] \subseteq db /\ \A i, j \in step[k] : i = j
              /\ \A j \in step[k] : Before(k, j)
  <2>1. k \in db
    BY <1>5
  <2>2. CASE k \in Stays
    <3>1. IsFirst(After(k), Following(k), place) /\ step[k] = After(k)
      BY <1>10, <1>15, <2>1, <2>2, StepsOf
    <3> QED BY <3>1 DEF IsFirst, Following
  <2>3. CASE k \notin Stays
    <3>1. IsFirst(Seek(points[k]), NotBefore(points[k]), place) /\ step[k] = Seek(points[k])
      BY <1>10, <1>15, <2>1, <2>3, StepsOf
    <3>2. \A j \in step[k] : j \in db /\ UpTo(points[k], j)
      BY <3>1 DEF IsFirst, NotBefore
    <3>3. \A j \in step[k] : Before(k, j)
      <4> SUFFICES ASSUME NEW j \in step[k]
                   PROVE  Before(k, j)
        OBVIOUS
      <4>1. j \in Seq(Nat) /\ k \in Seq(Nat) /\ points[k] \in Seq(Nat) /\ Before(k, points[k]) /\ UpTo(points[k], j)
        BY <1>13, <1>16, <2>1, <3>2
      <4> QED BY <4>1, BeforeTransitive DEF UpTo
    <3> QED BY <3>1, <3>2, <3>3 DEF IsFirst
  <2> QED BY <2>2, <2>3
<1>18. /\ IsWhole(w, Seek(lower), step, K, place) /\ Proceeds(Seek(lower), step, K, place, n)
       /\ \A k \in K : \E i \in 1 .. Len(w) : UpTo(w[i], k) /\ Short(k, step[w[i]], K, place)
  <2>1. \A k \in Kept(lower, upper) :
          /\ step[k] \subseteq db /\ \A i, j \in step[k] : i = j
          /\ \A j \in step[k] : Before(k, j)
    BY <1>4, <1>17
  <2>2. lower \in Seq(Nat) /\ upper \in Seq(Nat)
    BY <1>5
  <2> QED BY <1>4, <1>11, <1>15, <2>1, <2>2, SeekingWalk
<1>19. \A i \in 1 .. Len(w) : w[i] \in K
  <2>1. K \in SUBSET db /\ IsWalk(w, Seek(lower), step, K, place)
    BY <1>5, <1>18 DEF IsWhole
  <2> QED BY <1>18, <2>1, WalkRoom
<1>20. ASSUME NEW k \in K
       PROVE  \E i \in 1 .. Len(w) : w[i][3] = k[3]
  <2>1. PICK i \in 1 .. Len(w) : UpTo(w[i], k) /\ Short(k, step[w[i]], K, place)
    BY <1>18
  <2>2. PICK v : v = w[i]
    OBVIOUS
  <2>3. v \in K /\ v \in db /\ UpTo(v, k) /\ Short(k, step[v], K, place)
    BY <1>5, <1>19, <2>1, <2>2
  <2>4. CASE v \in Stays
    <3>1. step[v] = After(v)
      BY <1>10, <2>3, <2>4
    <3>2. k = v
      BY <1>4, <1>5, <1>15, <2>3, <3>1, ShortOfNext
    <3> QED BY <2>2, <3>2
  <2>5. CASE v \notin Stays
    <3>1. step[v] = Seek(points[v]) /\ points[v] \in Seq(Nat) /\ Before(v, points[v])
      BY <1>10, <1>13, <2>3, <2>5
    <3>2. Before(k, points[v])
      BY <1>4, <1>5, <1>15, <2>3, <3>1, ShortOfPoint
    <3>3. k[3] =< v[3]
      BY <1>13, <2>3, <3>2
    <3>4. v[3] =< k[3]
      <4>1. PICK m : m = 3
        OBVIOUS
      <4>2. m = Len(values) + 1 /\ K \in SUBSET db /\ Decoded(K) \subseteq Under(values)
        BY <1>5, <4>1
      <4>3. \A x, y \in K : x[m] \in Nat /\ (UpTo(x, y) => x[m] =< y[m])
        BY <1>2, <1>5, <4>2, InKeptOrder
      <4> QED BY <2>3, <4>1, <4>3
    <3>5. k[3] \in Nat /\ v[3] \in Nat
      BY <1>7, <2>3
    <3>6. v[3] = k[3]
      BY <3>3, <3>4, <3>5
    <3> QED BY <2>2, <3>6
  <2> QED BY <2>4, <2>5
<1>21. PICK V : V = {DecodeKey(cf, w[i])[3] : i \in 1 .. Len(w)}
  OBVIOUS
<1>22. PICK m : m = 3
  OBVIOUS
<1>23. /\ m = Len(values) + 1 /\ m < Len(Layout[cf]) /\ Layout[cf][m] = "slug" /\ Layout[cf][m + 1] = "uuid"
       /\ m + 1 = Len(Layout[cf]) /\ m + 1 = 4
  BY <1>2, <1>5, <1>22
<1>24. Gathers(V, Owners, values, m)
  <2>1. V \subseteq Owners
    BY <1>7, <1>19, <1>21
  <2>2. \A v \in Owners : InField(Layout[cf][m], v)
    BY <1>6, <1>23 DEF InField
  <2>3. ASSUME NEW r \in Under(values)
        PROVE  r[m] \in V
    <3>1. PICK k \in K : r = DecodeKey(cf, k)
      BY <1>5 DEF Decoded
    <3>2. PICK i \in 1 .. Len(w) : w[i][3] = k[3]
      BY <1>20
    <3>3. PICK x : x = DecodeKey(cf, w[i])[3]
      OBVIOUS
    <3>4. /\ EncodeField("slug", x) = EncodeField("slug", r[3])
          /\ x \in Names /\ r[3] \in Names
      BY <1>6, <1>7, <1>19, <3>1, <3>2, <3>3
    <3>5. x = r[3]
      BY <3>4, TokensDiffer DEF InField, Kinds
    <3> QED BY <1>21, <1>22, <3>3, <3>5
  <2> QED BY <2>1, <2>2, <2>3 DEF Gathers
<1>25. Decoded(UNION {Latest(values, v, at) : v \in V}) =
         UNION {NewestAt(Append(values, v), at, m + 1) : v \in Owners}
  <2>1. PICK t : t = m + 1
    OBVIOUS
  <2>2. t = Len(Layout[cf]) /\ Layout[cf][t] = "uuid" /\ cf \in Fixed /\ at \in Nat /\ m = Len(values) + 1
    BY <1>2, <1>6, <1>23, <2>1
  <2>3. Gathered(V, Owners, values, m, at)
    BY <1>5, <1>24, <2>1, <2>2, GatherOf
  <2> QED BY <2>3 DEF Gathered
<1>26. \A v \in Owners : Append(values, v) = <<branch, type, v>>
  <2>1. ASSUME NEW v \in Owners
        PROVE  Append(<<branch, type>>, v) = <<branch, type, v>>
    BY <1>6, PairOf
  <2> QED BY <1>1, <2>1
<1>27. ManagedItems(branch, type, at) = UNION {Latest(values, v, at) : v \in V}
  <2>1. \A i \in 1 .. Len(w) : /\ DecodeKey(cf, w[i])[3] \in V
                               /\ DecodeKey(cf, w[i])[3] \in Owners
    BY <1>7, <1>19, <1>21
  <2>2. \A i \in 1 .. Len(w) : Latest(values, DecodeKey(cf, w[i])[3], at) =
          GetLatest(LowerBound(cf, <<branch, type, DecodeKey(cf, w[i])[3]>>),
                    UpperBound(cf, Append(<<branch, type, DecodeKey(cf, w[i])[3]>>, at)))
    BY <1>26, <2>1 DEF Latest
  <2>3. \A x \in ManagedItems(branch, type, at) : x \in UNION {Latest(values, v, at) : v \in V}
    BY <1>12, <2>1, <2>2
  <2>4. \A x \in UNION {Latest(values, v, at) : v \in V} : x \in ManagedItems(branch, type, at)
    BY <1>12, <1>21, <2>2
  <2> QED BY <2>3, <2>4
<1>28. \A v \in Owners : NewestAt(Append(values, v), at, m + 1) = Newest({s \in Under(<<branch, type, v>>) : s[4] =< at}, 4)
  BY <1>23, <1>26 DEF NewestAt
<1> QED BY <1>25, <1>27, <1>28

\* In a store that holds the encodings of its rows, the loops miss nothing.
LEMMA SkipsMiss == DbInv => SkipsMissNothing
BY EntitySlugsOf, EmbeddingsOf, ManagedOf, MembershipsOf DEF SkipsMissNothing

\* The loops that seek past what they have read, at any hashes and any number of
\* keys, find every entity of a branch once, and the newest row of each embedding,
\* membership and managed item.
THEOREM SkipsMissNothingHolds == Spec => []SkipsMissNothing
BY DbHolds, SkipsMiss, PTL

-----------------------------------------------------------------------------
(***************************************************************************)
(* Children in the order of their positions.                               *)
(***************************************************************************)

\* The order of four tokens.
Lower(a, b) ==
  \/ a[1] < b[1]
  \/ a[1] = b[1] /\ a[2] < b[2]
  \/ a[1] = b[1] /\ a[2] = b[2] /\ a[3] < b[3]
  \/ a[1] = b[1] /\ a[2] = b[2] /\ a[3] = b[3] /\ a[4] < b[4]

FourTokens(a) == a \in Seq(Nat) /\ Len(a) = 4

\* The order of the bytes of four tokens is that of the tokens.
LEMMA FourInOrder ==
  ASSUME NEW a, NEW b, FourTokens(a), FourTokens(b)
  PROVE  /\ Before(a, b) <=> Lower(a, b)
         /\ UpTo(a, b) <=> ~Lower(b, a)
<1>1. ASSUME NEW x, NEW y, FourTokens(x), FourTokens(y), Lower(x, y)
      PROVE  Before(x, y) /\ ~UpTo(y, x)
  <2>1. ASSUME NEW i \in 1 .. 4, \A j \in 1 .. i - 1 : x[j] = y[j], x[i] < y[i]
        PROVE  Before(x, y) /\ ~UpTo(y, x)
    <3>1. x \in Seq(Nat) /\ y \in Seq(Nat) /\ i \in 1 .. Len(x) /\ i \in 1 .. Len(y)
      BY <1>1 DEF FourTokens
    <3> QED BY <2>1, <3>1, DecidedAt
  <2>2. CASE x[1] < y[1]
    <3>1. \A j \in 1 .. 1 - 1 : x[j] = y[j]
      OBVIOUS
    <3> QED BY <2>1, <2>2, <3>1
  <2>3. CASE x[1] = y[1] /\ x[2] < y[2]
    <3>1. \A j \in 1 .. 2 - 1 : x[j] = y[j]
      BY <2>3
    <3> QED BY <2>1, <2>3, <3>1
  <2>4. CASE x[1] = y[1] /\ x[2] = y[2] /\ x[3] < y[3]
    <3>1. \A j \in 1 .. 3 - 1 : x[j] = y[j]
      BY <2>4
    <3> QED BY <2>1, <2>4, <3>1
  <2>5. CASE x[1] = y[1] /\ x[2] = y[2] /\ x[3] = y[3] /\ x[4] < y[4]
    <3>1. \A j \in 1 .. 4 - 1 : x[j] = y[j]
      BY <2>5
    <3> QED BY <2>1, <2>5, <3>1
  <2> QED BY <1>1, <2>2, <2>3, <2>4, <2>5 DEF Lower
<1>2. a \in Seq(Nat) /\ b \in Seq(Nat) /\ Len(a) = 4 /\ Len(b) = 4
  BY DEF FourTokens
<1>3. /\ a[1] \in Nat /\ a[2] \in Nat /\ a[3] \in Nat /\ a[4] \in Nat
      /\ b[1] \in Nat /\ b[2] \in Nat /\ b[3] \in Nat /\ b[4] \in Nat
  <2>1. \A i \in 1 .. 4 : a[i] \in Nat /\ b[i] \in Nat
    BY <1>2, ElementOfSeq
  <2> QED BY <2>1
<1>4. ~Lower(a, b) /\ ~Lower(b, a) => a = b
  <2> SUFFICES ASSUME ~Lower(a, b), ~Lower(b, a)
               PROVE  a = b
    OBVIOUS
  <2>1. a[1] = b[1] /\ a[2] = b[2] /\ a[3] = b[3] /\ a[4] = b[4]
    BY <1>3 DEF Lower
  <2>2. \A i \in 1 .. 4 : a[i] = b[i]
    BY <2>1
  <2> QED BY <1>2, <2>2, SeqEqual
<1>5. Lower(a, b) => Before(a, b) /\ UpTo(a, b) /\ ~UpTo(b, a)
  BY <1>1 DEF UpTo
<1>6. Lower(b, a) => Before(b, a) /\ ~UpTo(a, b)
  BY <1>1
<1>7. Before(a, b) => ~UpTo(b, a)
  BY <1>2, BeforeOneWay
<1>8. UpTo(a, b) <=> a = b \/ Before(a, b)
  BY DEF UpTo
<1>9. UpTo(b, a) <=> b = a \/ Before(b, a)
  BY DEF UpTo
<1> QED BY <1>4, <1>5, <1>6, <1>7, <1>8, <1>9

\* The bytes and the row of a child.
IsChild(k, s) ==
  /\ FourTokens(k) /\ s \in rows /\ s \in Seq(Nat) /\ Len(s) = 3
  /\ k[1] = s[1] /\ k[2] = s[2] /\ k[3] = s[3] /\ k[4] = Separator
  /\ k[1] \in Uuids /\ k[2] \in 0 .. MaxI64 /\ k[3] \in Uuids

\* Keys of children keep their fields as they are, position and all.
LEMMA ChildrenAre ==
  ASSUME DbInv, cf = "children"
  PROVE  \A k \in db : IsChild(k, DecodeKey(cf, k))
<1> SUFFICES ASSUME NEW k \in db
             PROVE  IsChild(k, DecodeKey(cf, k))
  OBVIOUS
<1>1. /\ cf \in Fixed /\ Len(Layout[cf]) = 3 /\ Layout[cf][1] = "uuid" /\ Layout[cf][2] = "i64"
      /\ Layout[cf][3] = "uuid"
  BY LayoutsOf
<1>2. PICK s : s = DecodeKey(cf, k)
  OBVIOUS
<1>3. k \in Seq(Nat) /\ s \in rows /\ k = EncodeKey(cf, s)
  BY <1>2, RowsAreRead
<1>4. s \in Seq(Nat) /\ Len(s) = 3 /\ cf # "assertions" /\ IsKey(cf, s)
  <2>1. s \in Keys(cf)
    BY <1>3 DEF DbInv
  <2> QED BY <1>1, <2>1, KeyIsSeq, KeyFields
<1>5. k = Encode(cf, s)
  BY <1>3, <1>4 DEF EncodeKey
<1>6. Cardinality(Slugs(cf)) = 0
  <2>1. Slugs(cf) = {}
    BY <1>1 DEF Slugs
  <2> QED BY <2>1, FS_EmptySet
<1>7. /\ Len(k) = 4 /\ k[4] = Separator
      /\ \A i \in 1 .. 3 : k[i] = EncodeField(Layout[cf][i], s[i])
  <2>1. /\ Len(k) = 3 + 1 + Cardinality(Slugs(cf)) /\ k[3 + 1] = Separator
        /\ \A i \in 1 .. 3 : k[i] = EncodeField(Layout[cf][i], s[i])
    <3>1. PICK size : size = Len(Layout[cf])
      OBVIOUS
    <3>2. /\ Len(k) = size + 1 + Cardinality(Slugs(cf)) /\ k[size + 1] = Separator
          /\ \A i \in 1 .. size : k[i] = EncodeField(Layout[cf][i], s[i])
      BY <1>1, <1>4, <1>5, <3>1, EncodeOf
    <3> QED BY <1>1, <3>1, <3>2
  <2> QED BY <1>6, <2>1
<1>8. InField("uuid", s[1]) /\ InField("i64", s[2]) /\ InField("uuid", s[3])
  BY <1>1, <1>4 DEF IsKey
<1>9. k[1] = s[1] /\ k[2] = s[2] /\ k[3] = s[3]
  BY <1>1, <1>7, <1>8, TokenOf DEF Kinds
<1> QED BY <1>2, <1>3, <1>4, <1>7, <1>8, <1>9 DEF IsChild, FourTokens, InField

\* The ends of the ranges of children.
LEMMA ChildBounds ==
  ASSUME cf = "children", NEW parent \in Uuids, NEW position \in 0 .. MaxI64, NEW child \in Uuids,
         NEW a, a = LowerBound(cf, FromZero(parent)), NEW b, b = UpperBound(cf, <<parent>>),
         NEW c, c = LowerBound(cf, <<parent, position, child>>),
         NEW d, d = UpperBound(cf, <<parent, position, child>>)
  PROVE  /\ FourTokens(a) /\ a[1] = parent /\ a[2] = 0 /\ a[3] = NilUuid /\ a[4] = Separator
         /\ FourTokens(b) /\ b[1] = parent /\ b[2] = MaxI64 /\ b[3] = MaxUuid /\ b[4] = SeparatorUpper
         /\ FourTokens(c) /\ c[1] = parent /\ c[2] = position /\ c[3] = child /\ c[4] = Separator
         /\ FourTokens(d) /\ d[1] = parent /\ d[2] = position /\ d[3] = child /\ d[4] = SeparatorUpper
<1>1. /\ cf \in Fixed /\ Len(Layout[cf]) = 3 /\ Layout[cf][1] = "uuid" /\ Layout[cf][2] = "i64"
      /\ Layout[cf][3] = "uuid"
  BY LayoutsOf
<1>2. parent \in Nat /\ child \in Nat /\ position \in Nat /\ MaxI64 \in Nat
  BY NumbersOf
<1>3. \A v : InField("uuid", v) => EncodeField("uuid", v) = v
  BY DEF EncodeField
<1>4. \A v \in 0 .. MaxI64 : EncodeField("i64", v) = v
  BY TokenOf DEF Kinds, InField
<1>5. EncodeField("uuid", parent) = parent /\ EncodeField("uuid", child) = child
  BY DEF EncodeField
<1>6. EncodeField("i64", position) = position /\ EncodeField("i64", 0) = 0 /\ EncodeField("i64", MaxI64) = MaxI64
  BY <1>2, <1>4
<1>7. PICK one, two, three : one = <<parent>> /\ two = <<parent, 0>> /\ three = <<parent, position, child>>
  OBVIOUS
<1>8. /\ one \in Seq(Nat) /\ Len(one) = 1 /\ one[1] = parent
      /\ two \in Seq(Nat) /\ Len(two) = 2 /\ two[1] = parent /\ two[2] = 0
      /\ three \in Seq(Nat) /\ Len(three) = 3 /\ three[1] = parent /\ three[2] = position /\ three[3] = child
  BY <1>2, <1>7
<1>9. InBounds(cf, one) /\ InBounds(cf, two) /\ InBounds(cf, three)
  <2>1. InBound("uuid", parent) /\ InBound("uuid", child) /\ InBound("i64", 0) /\ InBound("i64", position)
    BY <1>2 DEF InBound
  <2>2. \A i \in 1 .. 1 : InBound(Layout[cf][i], one[i])
    BY <1>1, <1>8, <2>1
  <2>3. \A i \in 1 .. 2 : InBound(Layout[cf][i], two[i])
    BY <1>1, <1>8, <2>1
  <2>4. \A i \in 1 .. 3 : InBound(Layout[cf][i], three[i])
    BY <1>1, <1>8, <2>1
  <2> QED BY <1>1, <1>8, <2>2, <2>3, <2>4 DEF InBounds
<1>10. IsLower(a, cf, two) /\ IsUpper(b, cf, one) /\ IsLower(c, cf, three) /\ IsUpper(d, cf, three)
  <2>1. a = LowerBound(cf, two) /\ b = UpperBound(cf, one) /\ c = LowerBound(cf, three) /\ d = UpperBound(cf, three)
    BY <1>7 DEF FromZero
  <2> QED BY <1>1, <1>9, <2>1, BoundsOf
<1>11. FourTokens(a) /\ a[1] = parent /\ a[2] = 0 /\ a[3] = NilUuid /\ a[4] = Separator
  <2>1. a \in Seq(Nat) /\ Len(a) = 4 /\ a[4] = Separator
    BY <1>1, <1>10 DEF IsLower
  <2>2. \A i \in 1 .. 2 : a[i] = EncodeField(Layout[cf][i], two[i])
    BY <1>8, <1>10 DEF IsLower
  <2>3. \A i \in 3 .. 3 : a[i] = EncodeField(Layout[cf][i], Nil(Layout[cf][i]))
    BY <1>1, <1>8, <1>10 DEF IsLower
  <2>4. a[1] = EncodeField("uuid", parent) /\ a[2] = EncodeField("i64", 0) /\ a[3] = EncodeField("uuid", NilUuid)
    BY <1>1, <1>8, <2>2, <2>3 DEF Nil
  <2>5. EncodeField("uuid", NilUuid) = NilUuid
    BY DEF EncodeField
  <2> QED BY <1>5, <1>6, <2>1, <2>4, <2>5 DEF FourTokens
<1>12. FourTokens(b) /\ b[1] = parent /\ b[2] = MaxI64 /\ b[3] = MaxUuid /\ b[4] = SeparatorUpper
  <2>1. b \in Seq(Nat) /\ Len(b) = 4 /\ b[4] = SeparatorUpper
    BY <1>1, <1>10 DEF IsUpper
  <2>2. \A i \in 1 .. 1 : b[i] = EncodeField(Layout[cf][i], one[i])
    BY <1>8, <1>10 DEF IsUpper
  <2>3. \A i \in 2 .. 3 : b[i] = EncodeField(Layout[cf][i], Top(Layout[cf][i]))
    BY <1>1, <1>8, <1>10 DEF IsUpper
  <2>4. b[1] = EncodeField("uuid", parent) /\ b[2] = EncodeField("i64", MaxI64) /\ b[3] = EncodeField("uuid", MaxUuid)
    BY <1>1, <1>8, <2>2, <2>3 DEF Top
  <2>5. EncodeField("uuid", MaxUuid) = MaxUuid
    BY DEF EncodeField
  <2> QED BY <1>5, <1>6, <2>1, <2>4, <2>5 DEF FourTokens
<1>13. FourTokens(c) /\ c[1] = parent /\ c[2] = position /\ c[3] = child /\ c[4] = Separator
  <2>1. c \in Seq(Nat) /\ Len(c) = 4 /\ c[4] = Separator
    BY <1>1, <1>10 DEF IsLower
  <2>2. \A i \in 1 .. 3 : c[i] = EncodeField(Layout[cf][i], three[i])
    BY <1>8, <1>10 DEF IsLower
  <2> QED BY <1>1, <1>5, <1>6, <1>8, <2>1, <2>2 DEF FourTokens
<1>14. FourTokens(d) /\ d[1] = parent /\ d[2] = position /\ d[3] = child /\ d[4] = SeparatorUpper
  <2>1. d \in Seq(Nat) /\ Len(d) = 4 /\ d[4] = SeparatorUpper
    BY <1>1, <1>10 DEF IsUpper
  <2>2. \A i \in 1 .. 3 : d[i] = EncodeField(Layout[cf][i], three[i])
    BY <1>8, <1>10 DEF IsUpper
  <2> QED BY <1>1, <1>5, <1>6, <1>8, <2>1, <2>2 DEF FourTokens
<1> QED BY <1>11, <1>12, <1>13, <1>14

\* A range of children: what it keeps, said of the rows.
LEMMA ChildRanges ==
  ASSUME DbInv, cf = "children", NEW parent \in Uuids, NEW position \in 0 .. MaxI64, NEW child \in Uuids,
         NEW a, a = LowerBound(cf, FromZero(parent)), NEW b, b = UpperBound(cf, <<parent>>),
         NEW c, c = LowerBound(cf, <<parent, position, child>>),
         NEW d, d = UpperBound(cf, <<parent, position, child>>),
         NEW k \in db, NEW s, s = DecodeKey(cf, k), NEW at, at = <<parent, position, child>>
  PROVE  /\ Inside(a, b, k) <=> s \in Under(<<parent>>)
         /\ Inside(c, b, k) <=> s \in Under(<<parent>>) /\ (s = at \/ Follows(s, at))
         /\ Inside(a, d, k) <=> s \in Under(<<parent>>) /\ (s = at \/ Follows(at, s))
<1>1. /\ FourTokens(a) /\ a[1] = parent /\ a[2] = 0 /\ a[3] = NilUuid /\ a[4] = Separator
      /\ FourTokens(b) /\ b[1] = parent /\ b[2] = MaxI64 /\ b[3] = MaxUuid /\ b[4] = SeparatorUpper
      /\ FourTokens(c) /\ c[1] = parent /\ c[2] = position /\ c[3] = child /\ c[4] = Separator
      /\ FourTokens(d) /\ d[1] = parent /\ d[2] = position /\ d[3] = child /\ d[4] = SeparatorUpper
  BY ChildBounds
<1>2. IsChild(k, s)
  BY ChildrenAre
<1>3. /\ s \in rows /\ s \in Seq(Nat) /\ Len(s) = 3 /\ k[1] = s[1] /\ k[2] = s[2] /\ k[3] = s[3]
      /\ k[4] = Separator /\ FourTokens(k)
  BY <1>2 DEF IsChild
<1>4. /\ s[1] \in Nat /\ s[2] \in Nat /\ s[2] =< MaxI64 /\ s[3] \in Nat /\ s[3] > NilUuid /\ s[3] < MaxUuid
      /\ parent \in Nat /\ position \in Nat /\ child \in Nat /\ MaxI64 \in Nat /\ MaxUuid \in Nat
      /\ position =< MaxI64 /\ child < MaxUuid
  BY <1>2, NumbersOf DEF IsChild
<1>5. s \in Under(<<parent>>) <=> s[1] = parent
  <2>1. PICK values : values = <<parent>>
    OBVIOUS
  <2>2. values \in Seq(Nat) /\ Len(values) = 1 /\ values[1] = parent
    BY <1>4, <2>1
  <2>3. cf \in Fixed /\ Len(values) =< Len(Layout[cf])
    BY <2>2, LayoutsOf
  <2>4. s \in Under(values) <=> Starts(s, values)
    BY <1>3, <2>2, <2>3, UnderOf
  <2>5. Starts(s, values) <=> s[1] = parent
    BY <2>2 DEF Starts
  <2> QED BY <2>1, <2>4, <2>5
<1>6. at[1] = parent /\ at[2] = position /\ at[3] = child
  OBVIOUS
<1>7. s = at <=> s[1] = parent /\ s[2] = position /\ s[3] = child
  <2>1. at \in Seq(Nat) /\ Len(at) = 3
    BY <1>4
  <2>2. s[1] = parent /\ s[2] = position /\ s[3] = child => s = at
    <3> SUFFICES ASSUME s[1] = parent, s[2] = position, s[3] = child
                 PROVE  s = at
      OBVIOUS
    <3>1. \A i \in 1 .. 3 : s[i] = at[i]
      BY <1>6
    <3> QED BY <1>3, <2>1, <3>1, SeqEqual
  <2> QED BY <1>6, <2>2
<1>8. /\ Follows(s, at) <=> s[2] > position \/ (s[2] = position /\ s[3] > child)
      /\ Follows(at, s) <=> position > s[2] \/ (position = s[2] /\ child > s[3])
  BY <1>6 DEF Follows
<1>9. /\ UpTo(a, k) <=> ~Lower(k, a)
      /\ UpTo(c, k) <=> ~Lower(k, c)
      /\ UpTo(k, b) <=> ~Lower(b, k)
      /\ UpTo(k, d) <=> ~Lower(d, k)
  BY <1>1, <1>3, FourInOrder
<1>10. Lower(k, a) <=> s[1] < parent
  BY <1>1, <1>3, <1>4 DEF Lower, Separator, NilUuid
<1>11. Lower(k, c) <=> \/ s[1] < parent
                       \/ s[1] = parent /\ (s[2] < position \/ (s[2] = position /\ s[3] < child))
  BY <1>1, <1>3, <1>4 DEF Lower, Separator
<1>12. Lower(b, k) <=> parent < s[1]
  BY <1>1, <1>3, <1>4 DEF Lower, Separator, SeparatorUpper
<1>13. Lower(d, k) <=> \/ parent < s[1]
                       \/ s[1] = parent /\ (position < s[2] \/ (s[2] = position /\ child < s[3]))
  BY <1>1, <1>3, <1>4 DEF Lower, Separator, SeparatorUpper
<1>14. Inside(a, b, k) <=> s[1] = parent
  BY <1>4, <1>9, <1>10, <1>12 DEF Inside
<1>15. Inside(c, b, k) <=> /\ s[1] = parent
                           /\ s[2] > position \/ (s[2] = position /\ s[3] >= child)
  BY <1>4, <1>9, <1>11, <1>12 DEF Inside
<1>16. Inside(a, d, k) <=> /\ s[1] = parent
                           /\ s[2] < position \/ (s[2] = position /\ s[3] =< child)
  BY <1>4, <1>9, <1>10, <1>13 DEF Inside
<1>17. Inside(c, b, k) <=> s[1] = parent /\ (s = at \/ Follows(s, at))
  BY <1>4, <1>7, <1>8, <1>15
<1>18. Inside(a, d, k) <=> s[1] = parent /\ (s = at \/ Follows(at, s))
  BY <1>4, <1>7, <1>8, <1>16
<1> QED BY <1>5, <1>14, <1>17, <1>18

\* Keys of one parent are in the order of their rows.
LEMMA ChildrenInOrder ==
  ASSUME DbInv, cf = "children", NEW j \in db, NEW k \in db, j[1] = k[1]
  PROVE  /\ Before(j, k) <=> Follows(DecodeKey(cf, k), DecodeKey(cf, j))
         /\ DecodeKey(cf, j) = DecodeKey(cf, k) => j = k
<1>1. IsChild(j, DecodeKey(cf, j)) /\ IsChild(k, DecodeKey(cf, k))
  BY ChildrenAre
<1>2. PICK r, s : r = DecodeKey(cf, j) /\ s = DecodeKey(cf, k)
  OBVIOUS
<1>3. Before(j, k) <=> Lower(j, k)
  BY <1>1, FourInOrder DEF IsChild
<1>4. /\ j[2] = r[2] /\ j[3] = r[3] /\ k[2] = s[2] /\ k[3] = s[3] /\ j[4] = 0 /\ k[4] = 0
      /\ r[2] \in Nat /\ r[3] \in Nat /\ s[2] \in Nat /\ s[3] \in Nat /\ j[1] \in Nat
  BY <1>1, <1>2, NumbersOf DEF IsChild, Separator
<1>5. Lower(j, k) <=> Follows(s, r)
  BY <1>4 DEF Lower, Follows
<1>6. r = s => j = k
  BY <1>2, RowsAreRead
<1> QED BY <1>2, <1>3, <1>5, <1>6

-----------------------------------------------------------------------------
(***************************************************************************)
(* Neighbours: the first child after a position and the last one before.   *)
(***************************************************************************)

\* The key at the first of some places of a scan.
AtFirst(w, places) == {w[i] : i \in {j \in places : \A m \in places : j =< m}}

\* The places of some keys in a scan.
PlacesOf(w, A) == {i \in 1 .. Len(w) : w[i] \in A}

\* The least keys of a set in an order.
LeastOf(A, o) == {k \in A : \A j \in A : o[k] =< o[j]}

\* The first of a scan that is among some of its keys.
LEMMA FirstAmong ==
  ASSUME NEW w, NEW K, NEW o, Enumerates(w, K, o), \A k \in K : o[k] \in Nat,
         NEW A, A \subseteq K
  PROVE  AtFirst(w, PlacesOf(w, A)) = LeastOf(A, o)
<1>0. PICK past : past = PlacesOf(w, A)
  OBVIOUS
<1>1. /\ w \in Seq(K) /\ Len(w) \in Nat
      /\ \A i, j \in 1 .. Len(w) : i < j => o[w[i]] < o[w[j]]
      /\ \A k \in K : \E i \in 1 .. Len(w) : w[i] = k
  <2>1. w \in Seq(K)
    BY DEF Enumerates
  <2> QED BY <2>1 DEF Enumerates
<1>2. \A i \in 1 .. Len(w) : w[i] \in K /\ o[w[i]] \in Nat
  BY <1>1, ElementOfSeq
<1>3. \A i \in past : i \in 1 .. Len(w) /\ w[i] \in A /\ i \in Nat
  BY <1>0 DEF PlacesOf
<1>4. \A k \in A : \E i \in past : w[i] = k
  BY <1>0, <1>1 DEF PlacesOf
<1>5. \A i, j \in past : i =< j <=> o[w[i]] =< o[w[j]]
  <2> SUFFICES ASSUME NEW i \in past, NEW j \in past
               PROVE  i =< j <=> o[w[i]] =< o[w[j]]
    OBVIOUS
  <2>1. i < j \/ i = j \/ j < i
    BY <1>3
  <2>2. i < j => o[w[i]] < o[w[j]]
    BY <1>1, <1>3
  <2>3. j < i => o[w[j]] < o[w[i]]
    BY <1>1, <1>3
  <2>4. o[w[i]] \in Nat /\ o[w[j]] \in Nat /\ i \in Nat /\ j \in Nat
    BY <1>2, <1>3
  <2> QED BY <2>1, <2>2, <2>3, <2>4
<1>6. ASSUME NEW i \in past, \A m \in past : i =< m
      PROVE  w[i] \in {k \in A : \A j \in A : o[k] =< o[j]}
  <2>1. ASSUME NEW j \in A
        PROVE  o[w[i]] =< o[j]
    <3>1. PICK m \in past : w[m] = j
      BY <1>4
    <3>2. i =< m
      BY <1>6
    <3> QED BY <1>5, <3>1, <3>2
  <2> QED BY <1>3, <2>1
<1>7. ASSUME NEW k \in A, \A j \in A : o[k] =< o[j]
      PROVE  k \in {w[i] : i \in {j \in past : \A m \in past : j =< m}}
  <2>1. PICK i \in past : w[i] = k
    BY <1>4
  <2>2. \A m \in past : i =< m
    BY <1>3, <1>5, <1>7, <2>1
  <2> QED BY <2>1, <2>2
<1>8. \A x \in {w[i] : i \in {j \in past : \A m \in past : j =< m}} : x \in {k \in A : \A j \in A : o[k] =< o[j]}
  BY <1>6
<1>9. \A x \in {k \in A : \A j \in A : o[k] =< o[j]} : x \in {w[i] : i \in {j \in past : \A m \in past : j =< m}}
  BY <1>7
<1> QED BY <1>0, <1>8, <1>9 DEF AtFirst, LeastOf

\* The children after a position, and those before it.
Later(parent, at) == {r \in Under(<<parent>>) : Follows(r, at)}

Earlier(parent, at) == {r \in Under(<<parent>>) : Follows(at, r)}

\* The neighbour after a position, and the one before it.
Nearest(set) == {r \in set : \A s \in set \ {r} : Follows(s, r)}

Furthest(set) == {r \in set : \A s \in set \ {r} : Follows(r, s)}

\* The first key of a set of children in one order is the nearest row in the other.
LEMMA FirstIsNearest ==
  ASSUME DbInv, cf = "children", NEW place, NEW n, Numbers(place, n),
         NEW A \in SUBSET db, NEW parent, \A k \in A : k[1] = parent
  PROVE  /\ Decoded({k \in A : \A j \in A : place[k] =< place[j]}) = Nearest(Decoded(A))
         /\ Decoded({k \in A : \A j \in A : place[j] =< place[k]}) = Furthest(Decoded(A))
<1>1. ASSUME NEW j \in A, NEW k \in A
      PROVE  /\ place[j] =< place[k] <=> j = k \/ Follows(DecodeKey(cf, k), DecodeKey(cf, j))
             /\ DecodeKey(cf, j) = DecodeKey(cf, k) <=> j = k
  <2>1. /\ Before(j, k) <=> Follows(DecodeKey(cf, k), DecodeKey(cf, j))
        /\ DecodeKey(cf, j) = DecodeKey(cf, k) => j = k
    <3>1. j \in db /\ k \in db /\ j[1] = k[1]
      OBVIOUS
    <3> QED BY <3>1, ChildrenInOrder
  <2>2. place[j] =< place[k] <=> UpTo(j, k)
    BY DEF Numbers
  <2> QED BY <2>1, <2>2 DEF UpTo
<1>2. \A r : r \in Decoded(A) <=> \E k \in A : r = DecodeKey(cf, k)
  BY DEF Decoded
<1>3. ASSUME NEW k \in A
      PROVE  /\ (\A j \in A : place[k] =< place[j]) <=> DecodeKey(cf, k) \in Nearest(Decoded(A))
             /\ (\A j \in A : place[j] =< place[k]) <=> DecodeKey(cf, k) \in Furthest(Decoded(A))
  <2>1. (\A j \in A : place[k] =< place[j]) <=>
          \A j \in A : DecodeKey(cf, j) # DecodeKey(cf, k) => Follows(DecodeKey(cf, j), DecodeKey(cf, k))
    BY <1>1
  <2>2. (\A j \in A : place[j] =< place[k]) <=>
          \A j \in A : DecodeKey(cf, j) # DecodeKey(cf, k) => Follows(DecodeKey(cf, k), DecodeKey(cf, j))
    BY <1>1
  <2>3. DecodeKey(cf, k) \in Decoded(A)
    BY <1>2
  <2>4. DecodeKey(cf, k) \in Nearest(Decoded(A)) <=>
          \A j \in A : DecodeKey(cf, j) # DecodeKey(cf, k) => Follows(DecodeKey(cf, j), DecodeKey(cf, k))
    BY <1>2, <2>3 DEF Nearest
  <2>5. DecodeKey(cf, k) \in Furthest(Decoded(A)) <=>
          \A j \in A : DecodeKey(cf, j) # DecodeKey(cf, k) => Follows(DecodeKey(cf, k), DecodeKey(cf, j))
    BY <1>2, <2>3 DEF Furthest
  <2> QED BY <2>1, <2>2, <2>4, <2>5
<1>4. PICK F, L : /\ F = {k \in A : \A j \in A : place[k] =< place[j]}
                  /\ L = {k \in A : \A j \in A : place[j] =< place[k]}
  OBVIOUS
<1>5. F \subseteq A /\ L \subseteq A
  BY <1>4
<1>6. \A k \in A : /\ k \in F <=> DecodeKey(cf, k) \in Nearest(Decoded(A))
                   /\ k \in L <=> DecodeKey(cf, k) \in Furthest(Decoded(A))
  BY <1>3, <1>4
<1>7. \A r : r \in Decoded(F) <=> r \in Nearest(Decoded(A))
  <2>1. \A r : r \in Decoded(F) <=> \E k \in F : r = DecodeKey(cf, k)
    BY DEF Decoded
  <2>2. \A r \in Nearest(Decoded(A)) : r \in Decoded(A)
    BY DEF Nearest
  <2> QED BY <1>2, <1>5, <1>6, <2>1, <2>2
<1>8. \A r : r \in Decoded(L) <=> r \in Furthest(Decoded(A))
  <2>1. \A r : r \in Decoded(L) <=> \E k \in L : r = DecodeKey(cf, k)
    BY DEF Decoded
  <2>2. \A r \in Furthest(Decoded(A)) : r \in Decoded(A)
    BY DEF Furthest
  <2> QED BY <1>2, <1>5, <1>6, <2>1, <2>2
<1> QED BY <1>4, <1>7, <1>8

-----------------------------------------------------------------------------
(***************************************************************************)
(* Siblings in order.                                                      *)
(***************************************************************************)

\* The children of a block, in order.
LEMMA ChildrenOf ==
  ASSUME DbInv, cf = "children", NEW parent \in Uuids,
         NEW children, children = CurrentChildren(parent)
  PROVE  /\ Decoded(ToSet(children)) = Under(<<parent>>)
         /\ \A i, j \in 1 .. Len(children) :
              i < j => Follows(DecodeKey(cf, children[j]), DecodeKey(cf, children[i]))
<1>1. PICK a, b : a = LowerBound(cf, FromZero(parent)) /\ b = UpperBound(cf, <<parent>>)
  OBVIOUS
<1>2. PICK c, d : /\ c = LowerBound(cf, <<parent, 0, parent>>)
                  /\ d = UpperBound(cf, <<parent, 0, parent>>)
  OBVIOUS
<1>3. 0 \in 0 .. MaxI64
  BY NumbersOf
<1>4. a \in Seq(Nat) /\ b \in Seq(Nat)
  BY <1>1, <1>2, <1>3, ChildBounds DEF FourTokens
<1>5. PICK K : K = Kept(a, b)
  OBVIOUS
<1>6. \A k \in db : k \in K <=> DecodeKey(cf, k) \in Under(<<parent>>)
  <2> SUFFICES ASSUME NEW k \in db
               PROVE  k \in K <=> DecodeKey(cf, k) \in Under(<<parent>>)
    OBVIOUS
  <2>1. PICK s, at : s = DecodeKey(cf, k) /\ at = <<parent, 0, parent>>
    OBVIOUS
  <2>2. Inside(a, b, k) <=> s \in Under(<<parent>>)
    BY <1>1, <1>2, <1>3, <2>1, ChildRanges
  <2> QED BY <1>5, <2>1, <2>2 DEF Kept
<1>7. K \subseteq db
  BY <1>5 DEF Kept
<1>8. PICK n : n = Cardinality(db)
  OBVIOUS
<1>9. PICK place : Numbers(place, n)
  BY <1>8, RowsAreRead, NumbersExist
<1>10. Enumerates(children, K, place)
  <2>1. children = Scan(a, b)
    BY <1>1 DEF CurrentChildren
  <2> QED BY <1>4, <1>5, <1>9, <2>1, ScanOf
<1>11. /\ children \in Seq(K) /\ Len(children) \in Nat
       /\ \A i, j \in 1 .. Len(children) : i < j => place[children[i]] < place[children[j]]
       /\ \A k \in K : \E i \in 1 .. Len(children) : children[i] = k
  BY <1>10 DEF Enumerates
<1>12. \A i \in 1 .. Len(children) : children[i] \in K
  BY <1>11, ElementOfSeq
<1>13. ToSet(children) = K
  BY <1>11, <1>12 DEF ToSet
<1>14. Decoded(K) = Under(<<parent>>)
  <2>1. \A s \in Decoded(K) : s \in Under(<<parent>>)
    BY <1>6, <1>7 DEF Decoded
  <2>2. \A s \in Under(<<parent>>) : s \in Decoded(K)
    <3> SUFFICES ASSUME NEW s \in Under(<<parent>>)
                 PROVE  s \in Decoded(K)
      OBVIOUS
    <3>1. s \in rows
      BY DEF Under
    <3>2. PICK k \in db : DecodeKey(cf, k) = s
      BY <3>1, RowsAreRead DEF Decoded
    <3> QED BY <1>6, <3>2 DEF Decoded
  <2> QED BY <2>1, <2>2
<1>15. \A k \in K : k[1] = parent
  <2> SUFFICES ASSUME NEW k \in K
               PROVE  k[1] = parent
    OBVIOUS
  <2>1. PICK s : s = DecodeKey(cf, k)
    OBVIOUS
  <2>2. s \in Under(<<parent>>) /\ k \in db
    BY <1>6, <1>7, <2>1
  <2>3. IsChild(k, s)
    BY <2>1, <2>2, ChildrenAre
  <2>4. PICK values : values = <<parent>>
    OBVIOUS
  <2>5. values \in Seq(Nat) /\ Len(values) = 1 /\ values[1] = parent
    BY <2>4, NumbersOf
  <2>6. cf \in Fixed /\ Len(values) =< Len(Layout[cf])
    BY <2>5, LayoutsOf
  <2>7. Starts(s, values)
    BY <2>2, <2>3, <2>4, <2>5, <2>6, UnderOf DEF IsChild
  <2> QED BY <2>3, <2>5, <2>7 DEF Starts, IsChild
<1>16. ASSUME NEW i \in 1 .. Len(children), NEW j \in 1 .. Len(children), i < j
       PROVE  Follows(DecodeKey(cf, children[j]), DecodeKey(cf, children[i]))
  <2>1. PICK x, y : x = children[i] /\ y = children[j]
    OBVIOUS
  <2>2. x \in db /\ y \in db /\ x[1] = y[1] /\ place[x] < place[y]
    BY <1>7, <1>11, <1>12, <1>15, <1>16, <2>1
  <2>3. Before(x, y)
    BY <1>9, <2>2 DEF Numbers
  <2>4. Follows(DecodeKey(cf, y), DecodeKey(cf, x))
    BY <2>2, <2>3, ChildrenInOrder
  <2> QED BY <2>1, <2>4
<1> QED BY <1>13, <1>14, <1>16

\* The neighbours that next_sibling and previous_sibling seek are the nearest row
\* after a place and the furthest row before it.
LEMMA NeighboursOf ==
  ASSUME DbInv, cf = "children", NEW parent \in Uuids, NEW position \in Positions, NEW child \in Uuids,
         NEW at, at = <<parent, position, child>>
  PROVE  /\ Decoded(Neighbour(parent, <<position, child>>, FALSE)) =
              Nearest(Later(parent, at))
         /\ Decoded(Neighbour(parent, <<position, child>>, TRUE)) =
              Furthest(Earlier(parent, at))
<1>1. PICK a, b : a = LowerBound(cf, FromZero(parent)) /\ b = UpperBound(cf, <<parent>>)
  OBVIOUS
<1>2. PICK c, d : c = LowerBound(cf, at) /\ d = UpperBound(cf, at)
  OBVIOUS
<1>3. position \in 0 .. MaxI64 /\ position \in Nat /\ parent \in Nat /\ child \in Nat
  BY TerraDbAssumption, NumbersOf
<1>4. a \in Seq(Nat) /\ b \in Seq(Nat) /\ c \in Seq(Nat) /\ d \in Seq(Nat)
  BY <1>1, <1>2, <1>3, ChildBounds DEF FourTokens
<1>5. \A k \in db : /\ k \in Kept(c, b) <=> /\ DecodeKey(cf, k) \in Under(<<parent>>)
                                            /\ DecodeKey(cf, k) = at \/ Follows(DecodeKey(cf, k), at)
                    /\ k \in Kept(a, d) <=> /\ DecodeKey(cf, k) \in Under(<<parent>>)
                                            /\ DecodeKey(cf, k) = at \/ Follows(at, DecodeKey(cf, k))
  <2> SUFFICES ASSUME NEW k \in db
               PROVE  /\ k \in Kept(c, b) <=> /\ DecodeKey(cf, k) \in Under(<<parent>>)
                                              /\ DecodeKey(cf, k) = at \/ Follows(DecodeKey(cf, k), at)
                      /\ k \in Kept(a, d) <=> /\ DecodeKey(cf, k) \in Under(<<parent>>)
                                              /\ DecodeKey(cf, k) = at \/ Follows(at, DecodeKey(cf, k))
    OBVIOUS
  <2>1. PICK s : s = DecodeKey(cf, k)
    OBVIOUS
  <2>2. /\ Inside(c, b, k) <=> s \in Under(<<parent>>) /\ (s = at \/ Follows(s, at))
        /\ Inside(a, d, k) <=> s \in Under(<<parent>>) /\ (s = at \/ Follows(at, s))
    BY <1>1, <1>2, <1>3, <2>1, ChildRanges
  <2> QED BY <2>1, <2>2 DEF Kept
<1>6. \A k \in db : DecodeKey(cf, k) \in Under(<<parent>>) => k[1] = parent
  <2> SUFFICES ASSUME NEW k \in db, DecodeKey(cf, k) \in Under(<<parent>>)
               PROVE  k[1] = parent
    OBVIOUS
  <2>1. PICK s : s = DecodeKey(cf, k)
    OBVIOUS
  <2>2. IsChild(k, s) /\ s \in Under(<<parent>>)
    BY <2>1, ChildrenAre
  <2>3. PICK values : values = <<parent>>
    OBVIOUS
  <2>4. values \in Seq(Nat) /\ Len(values) = 1 /\ values[1] = parent
    BY <1>3, <2>3
  <2>5. cf \in Fixed /\ Len(values) =< Len(Layout[cf])
    BY <2>4, LayoutsOf
  <2>6. Starts(s, values)
    BY <2>2, <2>3, <2>4, <2>5, UnderOf DEF IsChild
  <2> QED BY <2>2, <2>4, <2>6 DEF Starts, IsChild
<1>7. ~Follows(at, at)
  BY <1>3 DEF Follows
<1>8. PICK n : n = Cardinality(db) /\ n \in Nat
  <2>1. Cardinality(db) \in Nat
    BY RowsAreRead, FS_CardinalityType
  <2> QED BY <2>1
<1>9. PICK place : Numbers(place, n)
  BY <1>8, RowsAreRead, NumbersExist
<1>10. \A k \in db : place[k] \in Nat /\ place[k] \in 1 .. n
  BY <1>9 DEF Numbers
<1>11. Decoded(Neighbour(parent, <<position, child>>, FALSE)) =
         Nearest(Later(parent, at))
  <2>1. PICK K, A, w : /\ K = Kept(c, b) /\ A = {k \in K : DecodeKey(cf, k) # at}
                       /\ w = Scan(c, b)
    OBVIOUS
  <2>2. PICK past : past = PlacesOf(w, A)
    OBVIOUS
  <2>3. K \subseteq db /\ A \in SUBSET K /\ A \in SUBSET db
    BY <2>1 DEF Kept
  <2>4. Enumerates(w, K, place)
    BY <1>4, <1>9, <2>1, ScanOf
  <2>5. \A i \in 1 .. Len(w) : w[i] \in K
    BY <2>4, ElementOfSeq DEF Enumerates
  <2>6. past = {i \in 1 .. Len(w) : DecodeKey("children", w[i]) # at}
    BY <2>1, <2>2, <2>5 DEF PlacesOf
  <2>7. Neighbour(parent, <<position, child>>, FALSE) = AtFirst(w, past)
    <3>1. PICK pivot : pivot = <<position, child>>
      OBVIOUS
    <3>2. pivot[1] = position /\ pivot[2] = child
      BY <3>1
    <3>3. Neighbour(parent, pivot, FALSE) = AtFirst(w, past)
      BY <1>1, <1>2, <2>1, <2>6, <3>2 DEF Neighbour, AtFirst
    <3> QED BY <3>1, <3>3
  <2>8. \A k \in K : place[k] \in Nat
    BY <1>10, <2>3
  <2>9. Neighbour(parent, <<position, child>>, FALSE) = {k \in A : \A j \in A : place[k] =< place[j]}
    <3>1. Neighbour(parent, <<position, child>>, FALSE) = LeastOf(A, place)
      <4>1. A \subseteq K
        BY <2>1
      <4>2. AtFirst(w, PlacesOf(w, A)) = LeastOf(A, place)
        BY <2>4, <2>8, <4>1, FirstAmong
      <4> QED BY <2>2, <2>7, <4>2
    <3> QED BY <3>1 DEF LeastOf
  <2>10. \A k \in A : k[1] = parent
    BY <1>5, <1>6, <2>1, <2>3
  <2>11. Decoded(Neighbour(parent, <<position, child>>, FALSE)) = Nearest(Decoded(A))
    BY <1>9, <2>3, <2>9, <2>10, FirstIsNearest
  <2>12. \A s \in Decoded(A) : s \in Later(parent, at)
    BY <1>5, <2>1, <2>3 DEF Decoded, Later, Earlier
  <2>13. \A s \in Later(parent, at) : s \in Decoded(A)
    <3> SUFFICES ASSUME NEW s \in Under(<<parent>>), Follows(s, at)
                 PROVE  s \in Decoded(A)
      BY DEF Later
    <3>1. s \in rows
      BY DEF Under
    <3>2. PICK k \in db : DecodeKey(cf, k) = s
      BY <3>1, RowsAreRead DEF Decoded
    <3>3. k \in A
      BY <1>5, <1>7, <2>1, <3>2
    <3> QED BY <3>2, <3>3 DEF Decoded
  <2>14. Decoded(A) = Later(parent, at)
    BY <2>12, <2>13
  <2> QED BY <2>11, <2>14
<1>12. Decoded(Neighbour(parent, <<position, child>>, TRUE)) =
         Furthest(Earlier(parent, at))
  <2>1. PICK K, A, w : /\ K = Kept(a, d) /\ A = {k \in K : DecodeKey(cf, k) # at}
                       /\ w = ScanRev(a, d)
    OBVIOUS
  <2>2. PICK past : past = PlacesOf(w, A)
    OBVIOUS
  <2>3. K \subseteq db /\ A \in SUBSET K /\ A \in SUBSET db
    BY <2>1 DEF Kept
  <2>15. PICK o : o = Mirrored(place, n)
    OBVIOUS
  <2>4. Enumerates(w, K, o)
    BY <1>4, <1>9, <2>1, <2>15, ScanRevOf
  <2>5. \A i \in 1 .. Len(w) : w[i] \in K
    BY <2>4, ElementOfSeq DEF Enumerates
  <2>6. past = {i \in 1 .. Len(w) : DecodeKey("children", w[i]) # at}
    BY <2>1, <2>2, <2>5 DEF PlacesOf
  <2>7. Neighbour(parent, <<position, child>>, TRUE) = AtFirst(w, past)
    <3>1. PICK pivot : pivot = <<position, child>>
      OBVIOUS
    <3>2. pivot[1] = position /\ pivot[2] = child
      BY <3>1
    <3>3. Neighbour(parent, pivot, TRUE) = AtFirst(w, past)
      BY <1>1, <1>2, <2>1, <2>6, <3>2 DEF Neighbour, AtFirst
    <3> QED BY <3>1, <3>3
  <2>16. \A k \in db : o[k] = n + 1 - place[k]
    BY <2>15 DEF Mirrored
  <2>8. \A k \in K : o[k] \in Nat
    BY <1>8, <1>10, <2>3, <2>16
  <2>9. Neighbour(parent, <<position, child>>, TRUE) = {k \in A : \A j \in A : place[j] =< place[k]}
    <3>1. Neighbour(parent, <<position, child>>, TRUE) = LeastOf(A, o)
      <4>1. A \subseteq K
        BY <2>1
      <4>2. AtFirst(w, PlacesOf(w, A)) = LeastOf(A, o)
        BY <2>4, <2>8, <4>1, FirstAmong
      <4> QED BY <2>2, <2>7, <4>2
    <3>2. \A j, k \in A : o[k] =< o[j] <=> place[j] =< place[k]
      BY <1>8, <1>10, <2>3, <2>16
    <3> QED BY <3>1, <3>2 DEF LeastOf
  <2>10. \A k \in A : k[1] = parent
    BY <1>5, <1>6, <2>1, <2>3
  <2>11. Decoded(Neighbour(parent, <<position, child>>, TRUE)) = Furthest(Decoded(A))
    BY <1>9, <2>3, <2>9, <2>10, FirstIsNearest
  <2>12. \A s \in Decoded(A) : s \in Earlier(parent, at)
    BY <1>5, <2>1, <2>3 DEF Decoded, Later, Earlier
  <2>13. \A s \in Earlier(parent, at) : s \in Decoded(A)
    <3> SUFFICES ASSUME NEW s \in Under(<<parent>>), Follows(at, s)
                 PROVE  s \in Decoded(A)
      BY DEF Earlier
    <3>1. s \in rows
      BY DEF Under
    <3>2. PICK k \in db : DecodeKey(cf, k) = s
      BY <3>1, RowsAreRead DEF Decoded
    <3>3. k \in A
      BY <1>5, <1>7, <2>1, <3>2
    <3> QED BY <3>2, <3>3 DEF Decoded
  <2>14. Decoded(A) = Earlier(parent, at)
    BY <2>12, <2>13
  <2> QED BY <2>11, <2>14
<1> QED BY <1>11, <1>12

\* In a store that holds the encodings of its rows, siblings are in order.
LEMMA SiblingsAre == DbInv => SiblingsInOrder
<1> SUFFICES ASSUME DbInv, cf = "children", NEW parent \in Uuids
             PROVE  LET children == CurrentChildren(parent)
                        key(i) == DecodeKey(cf, children[i])
                    IN  /\ Decoded(ToSet(children)) = Under(<<parent>>)
                        /\ \A i, j \in 1 .. Len(children) : i < j => Follows(key(j), key(i))
                        /\ \A position \in Positions, child \in Uuids :
                             LET pivot == <<parent, position, child>>
                                 after == {r \in Under(<<parent>>) : Follows(r, pivot)}
                                 prior == {r \in Under(<<parent>>) : Follows(pivot, r)}
                             IN  /\ Decoded(Neighbour(parent, <<position, child>>, FALSE)) =
                                      {r \in after : \A s \in after \ {r} : Follows(s, r)}
                                 /\ Decoded(Neighbour(parent, <<position, child>>, TRUE)) =
                                      {r \in prior : \A s \in prior \ {r} : Follows(r, s)}
  BY DEF SiblingsInOrder
<1>1. PICK children : children = CurrentChildren(parent)
  OBVIOUS
<1>2. /\ Decoded(ToSet(children)) = Under(<<parent>>)
      /\ \A i, j \in 1 .. Len(children) :
           i < j => Follows(DecodeKey(cf, children[j]), DecodeKey(cf, children[i]))
  BY <1>1, ChildrenOf
<1>3. ASSUME NEW position \in Positions, NEW child \in Uuids
      PROVE  /\ Decoded(Neighbour(parent, <<position, child>>, FALSE)) =
                  Nearest({r \in Under(<<parent>>) : Follows(r, <<parent, position, child>>)})
             /\ Decoded(Neighbour(parent, <<position, child>>, TRUE)) =
                  Furthest({r \in Under(<<parent>>) : Follows(<<parent, position, child>>, r)})
  <2>1. PICK at : at = <<parent, position, child>>
    OBVIOUS
  <2>2. /\ Decoded(Neighbour(parent, <<position, child>>, FALSE)) =
              Nearest(Later(parent, at))
        /\ Decoded(Neighbour(parent, <<position, child>>, TRUE)) =
              Furthest(Earlier(parent, at))
    BY <2>1, NeighboursOf
  <2>3. Later(parent, at) = {r \in Under(<<parent>>) : Follows(r, at)}
    BY DEF Later
  <2>4. Earlier(parent, at) = {r \in Under(<<parent>>) : Follows(at, r)}
    BY DEF Earlier
  <2> QED BY <2>1, <2>2, <2>3, <2>4, Zenon
<1> QED BY <1>1, <1>2, <1>3 DEF Nearest, Furthest

\* The children of a block are read in the order of position, then of id, and the
\* neighbours of any place among them are the ones next to it.
THEOREM SiblingsInOrderHolds == Spec => []SiblingsInOrder
BY DbHolds, SiblingsAre, PTL

-----------------------------------------------------------------------------
(***************************************************************************)
(* Reads of a subtree to a depth. The keys between the bounds of a subtree *)
(* are those of its versions: texts between two that start alike start     *)
(* like them.                                                              *)
(***************************************************************************)

\* Two texts have the same first l tokens.
Agree(a, b, l) == l =< Len(a) /\ l =< Len(b) /\ \A i \in 1 .. l : a[i] = b[i]

\* What is between two texts that start alike starts like them.
LEMMA Between ==
  ASSUME NEW a \in Seq(Nat), NEW b \in Seq(Nat), NEW t \in Seq(Nat), UpTo(a, t), UpTo(t, b),
         NEW l \in Nat, Agree(a, b, l)
  PROVE  Agree(t, a, l)
<1>0. l =< Len(a) /\ l =< Len(b) /\ \A i \in 1 .. l : a[i] = b[i]
  BY DEF Agree
<1>1. CASE a = t
  BY <1>0, <1>1 DEF Agree
<1>2. CASE Before(a, t)
  <2>1. PICK i \in 1 .. Len(t) : Splits(i, a, t)
    BY <1>2, SplitsIsBefore
  <2>2. i =< Len(a) + 1 /\ \A j \in 1 .. i - 1 : a[j] = t[j]
    BY <2>1 DEF Splits
  <2>3. CASE l < i
    BY <1>0, <2>1, <2>2, <2>3 DEF Agree
  <2>4. CASE i =< l
    <3>1. a[i] < t[i] /\ i \in 1 .. Len(b)
      BY <1>0, <2>1, <2>4 DEF Splits
    <3>2. \A j \in 1 .. i - 1 : b[j] = t[j]
      BY <1>0, <2>2, <2>4
    <3>3. b[i] < t[i]
      BY <1>0, <2>4, <3>1
    <3>4. ~UpTo(t, b)
      BY <3>1, <3>2, <3>3, DecidedAt
    <3> QED BY <3>4
  <2> QED BY <2>3, <2>4
<1> QED BY <1>1, <1>2 DEF UpTo

\* The tokens of the subtree of a path: lower end, of 2 * m + 2 tokens.
StartsAt(t, branch, entity, path, m) ==
  /\ t[1] = Hash[branch] /\ t[2] = Hash[entity]
  /\ \A i \in 1 .. m : t[2 * i + 1] = Child /\ t[2 * i + 2] = Hash[path[i]]

AreEnds(a, b, branch, entity, path, m) ==
  /\ a \in Seq(Nat) /\ Len(a) = 2 * m + 2 /\ StartsAt(a, branch, entity, path, m)
  /\ b \in Seq(Nat) /\ Len(b) = 2 * m + 3 /\ StartsAt(b, branch, entity, path, m)
  /\ b[2 * m + 3] = AfterChildren
  /\ \A i \in 1 .. 2 * m + 2 : a[i] = b[i]

\* The ends of the range of a subtree start alike, and the upper one goes on with
\* a marker past that of a child.
LEMMA SubtreeEnds ==
  ASSUME NEW branch \in Names, NEW entity \in Names, NEW path \in Seq(Names), NEW m, m = Len(path),
         NEW a, a = SubtreeLower(branch, entity, path), NEW b, b = SubtreeUpper(branch, entity, path)
  PROVE  AreEnds(a, b, branch, entity, path, m)
<1>1. m \in Nat
  OBVIOUS
<1>2. PICK head : head = <<Hash[branch], Hash[entity]>>
  OBVIOUS
<1>3. head \in Seq(Nat) /\ Len(head) = 2 /\ head[1] = Hash[branch] /\ head[2] = Hash[entity]
  BY <1>2, NumbersOf
<1>4. PICK p : p = PathBytes(path)
  OBVIOUS
<1>5. /\ p \in Seq(Nat) /\ Len(p) = 2 * m
      /\ \A i \in 1 .. m : p[2 * i - 1] = Child /\ p[2 * i] = Hash[path[i]]
  BY <1>4, PathBytesOf
<1>6. /\ a \in Seq(Nat) /\ Len(a) = Len(head) + Len(p)
      /\ \A i \in 1 .. Len(head) : a[i] = head[i]
      /\ \A i \in 1 .. Len(p) : a[Len(head) + i] = p[i]
  <2>1. a = head \o p
    BY <1>2, <1>4 DEF SubtreeLower
  <2>2. head \in Seq(Nat) /\ p \in Seq(Nat)
    BY <1>3, <1>5
  <2> QED BY <2>1, <2>2, JoinOf
<1>7. Len(a) = 2 * m + 2
  BY <1>1, <1>3, <1>5, <1>6
<1>8. StartsAt(a, branch, entity, path, m)
  <2>1. a[1] = Hash[branch] /\ a[2] = Hash[entity]
    BY <1>3, <1>6
  <2>2. \A i \in 1 .. 2 * m : a[2 + i] = p[i]
    BY <1>3, <1>5, <1>6
  <2>3. ASSUME NEW i \in 1 .. m
        PROVE  a[2 * i + 1] = Child /\ a[2 * i + 2] = Hash[path[i]]
    <3>1. 2 * i - 1 \in 1 .. 2 * m /\ 2 * i \in 1 .. 2 * m /\ 2 + (2 * i - 1) = 2 * i + 1
      BY <1>1
    <3>2. a[2 + (2 * i - 1)] = p[2 * i - 1] /\ a[2 + 2 * i] = p[2 * i]
      BY <2>2, <3>1
    <3>3. 2 + 2 * i = 2 * i + 2
      OBVIOUS
    <3> QED BY <1>5, <3>1, <3>2, <3>3
  <2> QED BY <2>1, <2>3 DEF StartsAt
<1>9. PICK l \in Nat : l = 2 * m + 2
  BY <1>1
<1>10. b \in Seq(Nat) /\ Len(b) = l + 1 /\ b[l + 1] = AfterChildren /\ \A i \in 1 .. l : b[i] = a[i]
  <2>1. PICK x : x = AfterChildren /\ x \in Nat
    BY DEF AfterChildren
  <2>2. b = Append(a, x) /\ a \in Seq(Nat) /\ l = Len(a)
    BY <1>6, <1>7, <1>9, <2>1 DEF SubtreeUpper
  <2>3. b \in Seq(Nat) /\ Len(b) = l + 1 /\ b[l + 1] = x /\ \A i \in 1 .. l : b[i] = a[i]
    BY <2>1, <2>2, OneMore
  <2> QED BY <2>1, <2>3
<1>11. l + 1 = 2 * m + 3
  BY <1>1, <1>9
<1>12. StartsAt(b, branch, entity, path, m)
  <2>1. 1 \in 1 .. l /\ 2 \in 1 .. l /\ \A i \in 1 .. m : 2 * i + 1 \in 1 .. l /\ 2 * i + 2 \in 1 .. l
    BY <1>1, <1>9
  <2> QED BY <1>8, <1>10, <2>1 DEF StartsAt
<1>13. \A i \in 1 .. 2 * m + 2 : a[i] = b[i]
  BY <1>9, <1>10
<1>14. Len(b) = 2 * m + 3 /\ b[2 * m + 3] = AfterChildren
  BY <1>10, <1>11
<1> QED BY <1>6, <1>7, <1>8, <1>10, <1>12, <1>13, <1>14 DEF AreEnds

\* A path that starts with another one.
LEMMA PrefixOf ==
  ASSUME NEW p \in Seq(Names), NEW q \in Seq(Names)
  PROVE  IsPrefix(p, q) <=> Len(p) =< Len(q) /\ \A i \in 1 .. Len(p) : p[i] = q[i]
<1>1. PICK m \in Nat, n \in Nat : m = Len(p) /\ n = Len(q)
  <2>1. Len(p) \in Nat /\ Len(q) \in Nat
    OBVIOUS
  <2> QED BY <2>1
<1>2. CASE m =< n
  <2>1. SubSeq(p, 1, m) = p
    BY <1>1
  <2>2. PICK h : h = SubSeq(q, 1, m)
    OBVIOUS
  <2>3. h \in Seq(Names) /\ Len(h) = m /\ \A i \in 1 .. m : h[i] = q[i]
    BY <1>1, <1>2, <2>2
  <2>4. p = h <=> \A i \in 1 .. m : p[i] = h[i]
    BY <1>1, <2>3
  <2> QED BY <1>1, <1>2, <2>1, <2>2, <2>3, <2>4 DEF IsPrefix
<1>3. CASE ~(m =< n)
  BY <1>1, <1>3 DEF IsPrefix
<1> QED BY <1>2, <1>3

\* The key of an assertion starts at a subtree if its path is in it.
LEMMA StartsIsPrefix ==
  ASSUME NEW key, IsAssertion(key), NEW n, n = Len(key.prop), NEW bytes, AreBytesOf(bytes, key, n),
         NEW branch \in Names, NEW entity \in Names, NEW path \in Seq(Names), NEW m, m = Len(path)
  PROVE  /\ 2 * m + 2 =< Len(bytes) /\ StartsAt(bytes, branch, entity, path, m)
            <=> key.branch = branch /\ key.entity = entity /\ IsPrefix(path, key.prop)
         /\ n \in Nat \ {0} /\ m \in Nat /\ (IsPrefix(path, key.prop) => m =< n)
<1>1. /\ n \in Nat \ {0} /\ m \in Nat /\ key.prop \in Seq(Names)
      /\ key.branch \in Names /\ key.entity \in Names
  BY DEF IsAssertion
<1>2. /\ Len(bytes) = 3 * n + 8
      /\ bytes[1] = Hash[key.branch] /\ bytes[2] = Hash[key.entity]
      /\ \A i \in 1 .. n : bytes[2 * i + 1] = Child /\ bytes[2 * i + 2] = Hash[key.prop[i]]
      /\ bytes[2 * n + 3] = PathEnd
  BY DEF AreBytesOf
<1>3. IsPrefix(path, key.prop) <=> m =< n /\ \A i \in 1 .. m : path[i] = key.prop[i]
  BY <1>1, PrefixOf
<1>4. \A x, y \in Names : Hash[x] = Hash[y] => x = y
  BY KeySpaceAssumption
<1>5. ASSUME 2 * m + 2 =< Len(bytes), StartsAt(bytes, branch, entity, path, m)
      PROVE  key.branch = branch /\ key.entity = entity /\ IsPrefix(path, key.prop)
  <2>1. key.branch = branch /\ key.entity = entity
    <3>1. Hash[key.branch] = Hash[branch] /\ Hash[key.entity] = Hash[entity]
      BY <1>2, <1>5 DEF StartsAt
    <3> QED BY <1>1, <1>4, <3>1
  <2>2. m =< n
    <3> SUFFICES ASSUME n < m
                 PROVE  FALSE
      BY <1>1
    <3>1. PICK i \in 1 .. m : i = n + 1
      BY <1>1
    <3>2. bytes[2 * i + 1] = Child /\ 2 * i + 1 = 2 * n + 3
      BY <1>1, <1>5, <3>1 DEF StartsAt
    <3> QED BY <1>2, <3>2 DEF Child, PathEnd
  <2>3. ASSUME NEW i \in 1 .. m
        PROVE  path[i] = key.prop[i]
    <3>1. i \in 1 .. n /\ path[i] \in Names /\ key.prop[i] \in Names
      BY <1>1, <2>2
    <3>2. Hash[path[i]] = Hash[key.prop[i]]
      BY <1>2, <1>5, <3>1 DEF StartsAt
    <3> QED BY <1>4, <3>1, <3>2
  <2> QED BY <1>3, <2>1, <2>2, <2>3
<1>6. ASSUME key.branch = branch, key.entity = entity, IsPrefix(path, key.prop)
      PROVE  2 * m + 2 =< Len(bytes) /\ StartsAt(bytes, branch, entity, path, m)
  <2>1. 2 * m + 2 =< Len(bytes)
    BY <1>1, <1>2, <1>3, <1>6
  <2>2. ASSUME NEW i \in 1 .. m
        PROVE  bytes[2 * i + 1] = Child /\ bytes[2 * i + 2] = Hash[path[i]]
    <3>1. i \in 1 .. n /\ path[i] = key.prop[i]
      BY <1>1, <1>3, <1>6
    <3> QED BY <1>2, <3>1
  <2> QED BY <1>2, <1>6, <2>1, <2>2 DEF StartsAt
<1> QED BY <1>1, <1>3, <1>5, <1>6

\* An assertion in the subtree of a path.
InTree(key, branch, entity, path) ==
  key.branch = branch /\ key.entity = entity /\ IsPrefix(path, key.prop)

\* The keys inside the range of a subtree are those of its assertions, and its
\* upper end is past them.
LEMMA SubtreeKeys ==
  ASSUME NEW key, IsAssertion(key), NEW bytes, bytes = EncodeAssertion(key),
         NEW branch \in Names, NEW entity \in Names, NEW path \in Seq(Names),
         NEW a, a = SubtreeLower(branch, entity, path), NEW b, b = SubtreeUpper(branch, entity, path)
  PROVE  /\ Inside(a, b, bytes) <=> InTree(key, branch, entity, path)
         /\ InTree(key, branch, entity, path) => Before(bytes, b)
         /\ bytes \in Seq(Nat) /\ a \in Seq(Nat) /\ b \in Seq(Nat)
<1>1. PICK n : n = Len(key.prop)
  OBVIOUS
<1>2. PICK m \in Nat : m = Len(path)
  <2>1. Len(path) \in Nat
    OBVIOUS
  <2> QED BY <2>1
<1>3. AreBytesOf(bytes, key, n)
  BY <1>1, AssertionBytes
<1>4. /\ bytes \in Seq(Nat) /\ Len(bytes) = 3 * n + 8
      /\ \A i \in 1 .. n : bytes[2 * i + 1] = Child
      /\ bytes[2 * n + 3] = PathEnd
  BY <1>3 DEF AreBytesOf
<1>5. /\ a \in Seq(Nat) /\ Len(a) = 2 * m + 2 /\ StartsAt(a, branch, entity, path, m)
      /\ b \in Seq(Nat) /\ Len(b) = 2 * m + 3 /\ StartsAt(b, branch, entity, path, m)
      /\ b[2 * m + 3] = AfterChildren
      /\ \A i \in 1 .. 2 * m + 2 : a[i] = b[i]
  <2>1. AreEnds(a, b, branch, entity, path, m)
    BY <1>2, SubtreeEnds
  <2> QED BY <2>1 DEF AreEnds
<1>6. /\ 2 * m + 2 =< Len(bytes) /\ StartsAt(bytes, branch, entity, path, m)
            <=> InTree(key, branch, entity, path)
      /\ n \in Nat \ {0} /\ (InTree(key, branch, entity, path) => m =< n)
  <2>1. /\ 2 * m + 2 =< Len(bytes) /\ StartsAt(bytes, branch, entity, path, m)
            <=> key.branch = branch /\ key.entity = entity /\ IsPrefix(path, key.prop)
        /\ n \in Nat \ {0} /\ m \in Nat /\ (IsPrefix(path, key.prop) => m =< n)
    BY <1>1, <1>2, <1>3, StartsIsPrefix
  <2> QED BY <2>1 DEF InTree
<1>7. PICK l \in Nat : l = 2 * m + 2
  BY <1>2
<1>8. /\ Len(a) = l /\ Len(b) = l + 1 /\ b[l + 1] = AfterChildren
      /\ \A i \in 1 .. l : a[i] = b[i]
  <2>1. l + 1 = 2 * m + 3
    BY <1>2, <1>7
  <2> QED BY <1>5, <1>7, <2>1
<1>9. ASSUME Inside(a, b, bytes)
      PROVE  InTree(key, branch, entity, path)
  <2>1. l =< Len(bytes) /\ \A i \in 1 .. l : bytes[i] = a[i]
    <3>1. UpTo(a, bytes) /\ UpTo(bytes, b)
      BY <1>9 DEF Inside
    <3>2. bytes \in Seq(Nat) /\ a \in Seq(Nat) /\ b \in Seq(Nat)
      BY <1>4, <1>5
    <3>3. Agree(a, b, l)
      BY <1>8 DEF Agree
    <3>4. Agree(bytes, a, l)
      BY <3>1, <3>2, <3>3, Between
    <3> QED BY <3>4 DEF Agree
  <2>2. StartsAt(bytes, branch, entity, path, m)
    <3>1. 1 \in 1 .. l /\ 2 \in 1 .. l /\ \A i \in 1 .. m : 2 * i + 1 \in 1 .. l /\ 2 * i + 2 \in 1 .. l
      BY <1>2, <1>7
    <3> QED BY <1>5, <2>1, <3>1 DEF StartsAt
  <2> QED BY <1>6, <1>7, <2>1, <2>2
<1>10. ASSUME InTree(key, branch, entity, path)
       PROVE  Inside(a, b, bytes) /\ Before(bytes, b)
  <2>1. m =< n /\ l =< Len(bytes) /\ StartsAt(bytes, branch, entity, path, m)
    BY <1>6, <1>7, <1>10
  <2>2. \A i \in 1 .. l : bytes[i] = a[i]
    <3> SUFFICES ASSUME NEW i \in 1 .. l
                 PROVE  bytes[i] = a[i]
      OBVIOUS
    <3>1. CASE i \in 1 .. 2
      BY <1>5, <2>1, <3>1 DEF StartsAt
    <3>2. CASE i \notin 1 .. 2
      <4>1. PICK j \in 1 .. m : i = 2 * j + 1 \/ i = 2 * j + 2
        <5>1. PICK h : h = (i - 1) \div 2
          OBVIOUS
        <5>2. i \in Nat /\ 3 =< i /\ i =< 2 * m + 2
          BY <1>7, <3>2
        <5>3. h \in 1 .. m /\ (i = 2 * h + 1 \/ i = 2 * h + 2)
          BY <1>2, <5>1, <5>2
        <5> QED BY <5>3
      <4> QED BY <1>5, <2>1, <4>1 DEF StartsAt
    <3> QED BY <3>1, <3>2
  <2>3. l + 1 =< Len(bytes) /\ bytes[l + 1] < AfterChildren /\ bytes[l + 1] \in Nat
    <3>1. l + 1 = 2 * m + 3 /\ 2 * m + 3 =< 3 * n + 8
      BY <1>2, <1>6, <1>7, <2>1
    <3>2. CASE m = n
      BY <1>4, <3>1, <3>2 DEF PathEnd, AfterChildren
    <3>3. CASE m < n
      <4>1. PICK i \in 1 .. n : i = m + 1
        BY <1>2, <1>6, <3>3
      <4>2. 2 * i + 1 = l + 1
        BY <1>2, <1>7, <4>1
      <4>3. bytes[l + 1] = Child
        BY <1>4, <4>1, <4>2
      <4>4. l + 1 =< Len(bytes)
        BY <1>4, <3>1
      <4> QED BY <4>3, <4>4 DEF Child, AfterChildren
    <3> QED BY <1>2, <1>6, <2>1, <3>2, <3>3
  <2>4. Before(bytes, b)
    <3>1. \A j \in 1 .. (l + 1) - 1 : bytes[j] = b[j]
      BY <1>8, <2>2
    <3>2. l + 1 \in 1 .. Len(bytes) /\ l + 1 \in 1 .. Len(b) /\ bytes[l + 1] < b[l + 1]
      <4>1. Len(bytes) \in Nat
        BY <1>4
      <4> QED BY <1>8, <2>3, <4>1
    <3> QED BY <1>4, <1>5, <3>1, <3>2, DecidedAt
  <2>5. UpTo(a, bytes)
    <3>1. Splits(l + 1, a, bytes)
      <4>1. \A j \in 1 .. (l + 1) - 1 : a[j] = bytes[j]
        BY <2>2
      <4>2. l + 1 \in 1 .. Len(bytes) /\ l + 1 =< Len(a) + 1 /\ ~(l + 1 =< Len(a))
        <5>1. Len(bytes) \in Nat
          BY <1>4
        <5> QED BY <1>8, <2>3, <5>1
      <4> QED BY <4>1, <4>2 DEF Splits
    <3>2. l + 1 \in 1 .. Len(bytes)
      BY <3>1 DEF Splits
    <3> QED BY <3>1, <3>2, SplitsIsBefore DEF UpTo
  <2> QED BY <2>4, <2>5 DEF Inside, UpTo
<1> QED BY <1>4, <1>5, <1>9, <1>10

\* Between an assertion of a subtree and the end of it are only such assertions.
LEMMA StaysInTree ==
  ASSUME NEW s, IsAssertion(s), NEW t, IsAssertion(t), NEW x, x = EncodeAssertion(s),
         NEW y, y = EncodeAssertion(t),
         NEW branch \in Names, NEW entity \in Names, NEW path \in Seq(Names),
         InTree(s, branch, entity, path), UpTo(x, y), Before(y, SubtreeUpper(branch, entity, path))
  PROVE  InTree(t, branch, entity, path)
<1>1. PICK a, b : a = SubtreeLower(branch, entity, path) /\ b = SubtreeUpper(branch, entity, path)
  OBVIOUS
<1>2. x \in Seq(Nat) /\ y \in Seq(Nat) /\ a \in Seq(Nat) /\ Inside(a, b, x)
  BY <1>1, SubtreeKeys
<1>3. UpTo(a, y)
  <2>1. UpTo(a, x)
    BY <1>2 DEF Inside
  <2> QED BY <1>2, <2>1, UpToTransitive
<1>4. Inside(a, b, y)
  BY <1>1, <1>3 DEF Inside, UpTo
<1> QED BY <1>1, <1>4, SubtreeKeys

-----------------------------------------------------------------------------
(***************************************************************************)
(* The seek past the versions of a property, or past a subtree, stays in   *)
(* it, and a path sorts before its extensions.                             *)
(***************************************************************************)

\* A point in the versions of a property: its address and a transaction.
IsPoint(p, branch, entity, prop, n, tx) ==
  /\ p \in Seq(Nat) /\ Len(p) = 2 * n + 5 /\ StartsAt(p, branch, entity, prop, n)
  /\ p[2 * n + 3] = PathEnd /\ p[2 * n + 4] = tx

\* The tokens of the lower end of an address.
LEMMA PointBytes ==
  ASSUME NEW branch \in Names, NEW entity \in Names, NEW prop \in Seq(Names),
         NEW n \in Nat \ {0}, n = Len(prop), NEW tx \in Nat,
         NEW key, key = [branch |-> branch, entity |-> entity, prop |-> prop, tx |-> tx],
         NEW point, point = AssertionLower(key)
  PROVE  IsPoint(point, branch, entity, prop, n, tx)
<1>1. PICK head : head = <<Hash[branch], Hash[entity]>>
  OBVIOUS
<1>2. head \in Seq(Nat) /\ Len(head) = 2 /\ head[1] = Hash[branch] /\ head[2] = Hash[entity]
  BY <1>1, NumbersOf
<1>3. PICK p : p = PathBytes(prop)
  OBVIOUS
<1>4. /\ p \in Seq(Nat) /\ Len(p) = 2 * n
      /\ \A i \in 1 .. n : p[2 * i - 1] = Child /\ p[2 * i] = Hash[prop[i]]
  BY <1>3, PathBytesOf
<1>5. PICK e : e = PathEnd /\ e \in Nat
  BY DEF PathEnd
<1>6. PICK q : q = Append(p, e)
  OBVIOUS
<1>7. PICK m \in Nat : m = 2 * n
  OBVIOUS
<1>8. q \in Seq(Nat) /\ Len(q) = m + 1 /\ q[m + 1] = e /\ \A i \in 1 .. m : q[i] = p[i]
  <2>1. p \in Seq(Nat) /\ m = Len(p)
    BY <1>4, <1>7
  <2> QED BY <1>5, <1>6, <2>1, OneMore
<1>9. PICK b : b = head \o q
  OBVIOUS
<1>10. /\ b \in Seq(Nat) /\ Len(b) = Len(head) + Len(q)
       /\ \A i \in 1 .. Len(head) : b[i] = head[i]
       /\ \A i \in 1 .. Len(q) : b[Len(head) + i] = q[i]
  <2>1. head \in Seq(Nat) /\ q \in Seq(Nat)
    BY <1>2, <1>8
  <2> QED BY <1>9, <2>1, JoinOf
<1>11. /\ Len(b) = m + 3 /\ b[1] = Hash[branch] /\ b[2] = Hash[entity]
       /\ \A i \in 1 .. m + 1 : b[2 + i] = q[i]
  BY <1>2, <1>8, <1>10
<1>12. PICK a : a = EncodeAddress(key)
  OBVIOUS
<1>13. a = b \o <<tx>>
  <2>1. prop[1] \in Names
    OBVIOUS
  <2>2. prop # NoPath /\ prop # LastPath
    BY <2>1, NumbersOf DEF NoPath, LastPath
  <2>3. HashOf(branch) = Hash[branch] /\ HashOf(entity) = Hash[entity]
    BY NumbersOf DEF HashOf
  <2>4. key.branch = branch /\ key.entity = entity /\ key.prop = prop /\ key.tx = tx
    OBVIOUS
  <2> QED BY <1>1, <1>3, <1>5, <1>6, <1>9, <1>12, <2>2, <2>3, <2>4 DEF EncodeAddress
<1>14. PICK k \in Nat : k = m + 3
  OBVIOUS
<1>15. a \in Seq(Nat) /\ Len(a) = k + 1 /\ a[k + 1] = tx /\ \A i \in 1 .. k : a[i] = b[i]
  <2>1. a = Append(b, tx)
    BY <1>10, <1>13
  <2>2. b \in Seq(Nat) /\ k = Len(b)
    BY <1>10, <1>11, <1>14
  <2> QED BY <2>1, <2>2, OneMore
<1>16. PICK z : z = Separator /\ z \in Nat
  BY DEF Separator
<1>17. PICK l \in Nat : l = k + 1
  OBVIOUS
<1>17a. PICK r : r = Append(a, z)
  OBVIOUS
<1>17b. r \in Seq(Nat) /\ Len(r) = l + 1 /\ r[l + 1] = z /\ \A i \in 1 .. l : r[i] = a[i]
  <2>1. a \in Seq(Nat) /\ l = Len(a)
    BY <1>15, <1>17
  <2>2. z \in Nat
    BY <1>16
  <2> QED BY <1>17a, <2>1, <2>2, OneMore
<1>18. point \in Seq(Nat) /\ Len(point) = l + 1 /\ point[l + 1] = z /\ \A i \in 1 .. l : point[i] = a[i]
  <2>1. point = r
    BY <1>12, <1>16, <1>17a DEF AssertionLower
  <2> QED BY <1>17b, <2>1
<1>19. \A i \in 1 .. k : point[i] = b[i]
  BY <1>15, <1>17, <1>18
<1>20. Len(point) = 2 * n + 5
  BY <1>7, <1>14, <1>17, <1>18
<1>21. point[1] = Hash[branch] /\ point[2] = Hash[entity]
  BY <1>11, <1>14, <1>19
<1>22. ASSUME NEW i \in 1 .. n
       PROVE  point[2 * i + 1] = Child /\ point[2 * i + 2] = Hash[prop[i]]
  <2>1. /\ 2 * i - 1 \in 1 .. m /\ 2 * i \in 1 .. m /\ 2 * i - 1 \in 1 .. m + 1 /\ 2 * i \in 1 .. m + 1
        /\ 2 + (2 * i - 1) = 2 * i + 1 /\ 2 + 2 * i = 2 * i + 2
        /\ 2 * i + 1 \in 1 .. k /\ 2 * i + 2 \in 1 .. k
    BY <1>7, <1>14
  <2>2. b[2 + (2 * i - 1)] = q[2 * i - 1] /\ b[2 + 2 * i] = q[2 * i]
    BY <1>11, <2>1
  <2>3. b[2 * i + 1] = p[2 * i - 1] /\ b[2 * i + 2] = p[2 * i]
    BY <1>8, <2>1, <2>2
  <2> QED BY <1>4, <1>19, <2>1, <2>3
<1>23. point[2 * n + 3] = PathEnd
  <2>1. 2 + (m + 1) = 2 * n + 3 /\ 2 * n + 3 \in 1 .. k /\ m + 1 \in 1 .. m + 1
    BY <1>7, <1>14
  <2>2. b[2 + (m + 1)] = q[m + 1]
    BY <1>11, <2>1
  <2> QED BY <1>5, <1>8, <1>19, <2>1, <2>2
<1>24. point[2 * n + 4] = tx
  <2>1. 2 * n + 4 = k + 1 /\ k + 1 \in 1 .. l
    BY <1>7, <1>14, <1>17
  <2> QED BY <1>15, <1>18, <2>1
<1>25. StartsAt(point, branch, entity, prop, n)
  BY <1>21, <1>22 DEF StartsAt
<1> QED BY <1>18, <1>20, <1>23, <1>24, <1>25 DEF IsPoint

\* The last point in the versions of the property of an assertion.
LastPoint(key) ==
  AssertionLower([branch |-> key.branch, entity |-> key.entity, prop |-> key.prop, tx |-> MaxUuid])

\* Two assertions of one property.
SameProperty(s, t) == s.branch = t.branch /\ s.entity = t.entity /\ s.prop = t.prop

\* The versions of a property are in the order of their transactions, and end
\* before its last point.
LEMMA VersionsInOrder ==
  ASSUME NEW s, IsAssertion(s), NEW t, IsAssertion(t), SameProperty(s, t),
         NEW x, x = EncodeAssertion(s), NEW y, y = EncodeAssertion(t)
  PROVE  /\ s.tx < t.tx => Before(x, y)
         /\ Before(x, LastPoint(t)) /\ LastPoint(t) \in Seq(Nat)
         /\ s.tx \in Nat /\ t.tx \in Nat /\ (s.tx = t.tx => s = t)
<1>1. PICK n : n = Len(s.prop)
  OBVIOUS
<1>2. n \in Nat \ {0} /\ s.tx \in Nat /\ t.tx \in Nat /\ s.tx < MaxUuid /\ MaxUuid \in Nat
  BY <1>1, NumbersOf DEF IsAssertion
<1>3. AreBytesOf(x, s, n) /\ AreBytesOf(y, t, n)
  BY <1>1, AssertionBytes DEF SameProperty
<1>4. PICK l \in Nat : l = 2 * n + 3
  BY <1>2
<1>5. PICK p : p = LastPoint(t)
  OBVIOUS
<1>6. IsPoint(p, t.branch, t.entity, t.prop, n, MaxUuid)
  <2>1. PICK key : key = [branch |-> t.branch, entity |-> t.entity, prop |-> t.prop, tx |-> MaxUuid]
    OBVIOUS
  <2>2. p = AssertionLower(key)
    BY <1>5, <2>1 DEF LastPoint
  <2>3. t.branch \in Names /\ t.entity \in Names /\ t.prop \in Seq(Names) /\ n = Len(t.prop)
    BY <1>1 DEF SameProperty, IsAssertion
  <2> QED BY <1>2, <2>1, <2>2, <2>3, PointBytes
<1>7. \A j \in 1 .. l : x[j] = y[j] /\ x[j] = p[j]
  <2> SUFFICES ASSUME NEW j \in 1 .. l
               PROVE  x[j] = y[j] /\ x[j] = p[j]
    OBVIOUS
  <2>1. CASE j \in 1 .. 2
    BY <1>3, <1>6, <2>1 DEF AreBytesOf, IsPoint, StartsAt, SameProperty
  <2>2. CASE j = l
    BY <1>3, <1>4, <1>6, <2>2 DEF AreBytesOf, IsPoint
  <2>3. CASE j \notin 1 .. 2 /\ j # l
    <3>1. PICK i \in 1 .. n : j = 2 * i + 1 \/ j = 2 * i + 2
      <4>1. PICK h : h = (j - 1) \div 2
        OBVIOUS
      <4>2. j \in Nat /\ 3 =< j /\ j =< 2 * n + 2
        BY <1>2, <1>4, <2>3
      <4>3. h \in 1 .. n /\ (j = 2 * h + 1 \/ j = 2 * h + 2)
        BY <1>2, <4>1, <4>2
      <4> QED BY <4>3
    <3>2. /\ x[2 * i + 1] = Child /\ x[2 * i + 2] = Hash[s.prop[i]]
          /\ y[2 * i + 1] = Child /\ y[2 * i + 2] = Hash[t.prop[i]]
      BY <1>3, <3>1 DEF AreBytesOf
    <3>3. p[2 * i + 1] = Child /\ p[2 * i + 2] = Hash[t.prop[i]]
      BY <1>6, <3>1 DEF IsPoint, StartsAt
    <3>4. s.prop = t.prop
      BY DEF SameProperty
    <3> QED BY <3>1, <3>2, <3>3, <3>4
  <2> QED BY <2>1, <2>2, <2>3
<1>8. /\ x \in Seq(Nat) /\ y \in Seq(Nat) /\ p \in Seq(Nat)
      /\ l + 1 \in 1 .. Len(x) /\ l + 1 \in 1 .. Len(y) /\ l + 1 \in 1 .. Len(p) /\ (l + 1) - 1 = l
      /\ x[l + 1] = s.tx /\ y[l + 1] = t.tx /\ p[l + 1] = MaxUuid
  <2>1. l + 1 = 2 * n + 4 /\ l + 1 \in 1 .. 3 * n + 8 /\ l + 1 \in 1 .. 2 * n + 5 /\ (l + 1) - 1 = l
    BY <1>2, <1>4
  <2>2. x \in Seq(Nat) /\ Len(x) = 3 * n + 8 /\ x[2 * n + 4] = s.tx
    BY <1>3 DEF AreBytesOf
  <2>3. y \in Seq(Nat) /\ Len(y) = 3 * n + 8 /\ y[2 * n + 4] = t.tx
    BY <1>3 DEF AreBytesOf
  <2>4. p \in Seq(Nat) /\ Len(p) = 2 * n + 5 /\ p[2 * n + 4] = MaxUuid
    BY <1>6 DEF IsPoint
  <2> QED BY <2>1, <2>2, <2>3, <2>4
<1>9. s.tx < t.tx => Before(x, y)
  BY <1>7, <1>8, DecidedAt
<1>10. Before(x, p)
  BY <1>2, <1>7, <1>8, DecidedAt
<1>11. s.tx = t.tx => s = t
  BY DEF IsAssertion, SameProperty
<1> QED BY <1>2, <1>5, <1>8, <1>9, <1>10, <1>11

\* What follows an assertion, and is before the last point of its property, is
\* of that property.
LEMMA StaysInVersions ==
  ASSUME NEW s, IsAssertion(s), NEW t, IsAssertion(t),
         NEW x, x = EncodeAssertion(s), NEW y, y = EncodeAssertion(t),
         UpTo(x, y), Before(y, LastPoint(s))
  PROVE  SameProperty(s, t)
<1>1. PICK n : n = Len(s.prop)
  OBVIOUS
<1>2. n \in Nat \ {0} /\ s.branch \in Names /\ s.entity \in Names /\ s.prop \in Seq(Names)
  BY <1>1 DEF IsAssertion
<1>3. PICK p : p = LastPoint(s)
  OBVIOUS
<1>4. IsPoint(p, s.branch, s.entity, s.prop, n, MaxUuid)
  <2>1. PICK key : key = [branch |-> s.branch, entity |-> s.entity, prop |-> s.prop, tx |-> MaxUuid]
    OBVIOUS
  <2>2. p = AssertionLower(key) /\ MaxUuid \in Nat
    BY <1>3, <2>1, NumbersOf DEF LastPoint
  <2> QED BY <1>1, <1>2, <2>1, <2>2, PointBytes
<1>5. PICK k : k = Len(t.prop)
  OBVIOUS
<1>6. AreBytesOf(x, s, n) /\ AreBytesOf(y, t, k) /\ k \in Nat \ {0}
  BY <1>1, <1>5, AssertionBytes DEF IsAssertion
<1>7. PICK l \in Nat : l = 2 * n + 3
  BY <1>2
<1>8. x \in Seq(Nat) /\ y \in Seq(Nat) /\ p \in Seq(Nat) /\ UpTo(x, y) /\ UpTo(y, p)
  BY <1>3, <1>4, <1>6 DEF AreBytesOf, IsPoint, UpTo
<1>9. Agree(x, p, l)
  <2>1. \A j \in 1 .. l : x[j] = p[j]
    <3> SUFFICES ASSUME NEW j \in 1 .. l
                 PROVE  x[j] = p[j]
      OBVIOUS
    <3>1. CASE j \in 1 .. 2
      <4>1. x[1] = Hash[s.branch] /\ x[2] = Hash[s.entity]
        BY <1>6 DEF AreBytesOf
      <4>2. p[1] = Hash[s.branch] /\ p[2] = Hash[s.entity]
        BY <1>4 DEF IsPoint, StartsAt
      <4>3. j = 1 \/ j = 2
        BY <3>1
      <4> QED BY <4>1, <4>2, <4>3
    <3>2. CASE j = l
      BY <1>4, <1>6, <1>7, <3>2 DEF AreBytesOf, IsPoint
    <3>3. CASE j \notin 1 .. 2 /\ j # l
      <4>1. PICK i \in 1 .. n : j = 2 * i + 1 \/ j = 2 * i + 2
        <5>1. PICK h : h = (j - 1) \div 2
          OBVIOUS
        <5>2. j \in Nat /\ 3 =< j /\ j =< 2 * n + 2
          BY <1>2, <1>7, <3>3
        <5>3. h \in 1 .. n /\ (j = 2 * h + 1 \/ j = 2 * h + 2)
          BY <1>2, <5>1, <5>2
        <5> QED BY <5>3
      <4>2. x[2 * i + 1] = Child /\ x[2 * i + 2] = Hash[s.prop[i]]
        BY <1>6, <4>1 DEF AreBytesOf
      <4>3. p[2 * i + 1] = Child /\ p[2 * i + 2] = Hash[s.prop[i]]
        BY <1>4, <4>1 DEF IsPoint, StartsAt
      <4> QED BY <4>1, <4>2, <4>3
    <3> QED BY <3>1, <3>2, <3>3
  <2>2. l =< Len(x) /\ l =< Len(p)
    <3>1. Len(x) = 3 * n + 8 /\ Len(p) = 2 * n + 5
      BY <1>4, <1>6 DEF AreBytesOf, IsPoint
    <3> QED BY <1>2, <1>7, <3>1
  <2> QED BY <2>1, <2>2 DEF Agree
<1>10. Agree(y, x, l)
  <2>1. Agree(x, p, l) /\ x \in Seq(Nat) /\ p \in Seq(Nat) /\ y \in Seq(Nat)
    BY <1>8, <1>9
  <2> QED BY <1>8, <2>1, Between
<1>11. l =< Len(y) /\ \A j \in 1 .. l : y[j] = x[j]
  BY <1>10 DEF Agree
<1>12. StartsAt(y, s.branch, s.entity, s.prop, n) /\ 2 * n + 2 =< Len(y)
  <2>1. 1 \in 1 .. l /\ 2 \in 1 .. l /\ \A i \in 1 .. n : 2 * i + 1 \in 1 .. l /\ 2 * i + 2 \in 1 .. l
    BY <1>2, <1>7
  <2>2. 2 * n + 2 =< Len(y)
    <3>1. Len(y) \in Nat
      BY <1>8
    <3> QED BY <1>2, <1>7, <1>11, <3>1
  <2>3. /\ x[1] = Hash[s.branch] /\ x[2] = Hash[s.entity]
        /\ \A i \in 1 .. n : x[2 * i + 1] = Child /\ x[2 * i + 2] = Hash[s.prop[i]]
    BY <1>6 DEF AreBytesOf
  <2> QED BY <1>11, <2>1, <2>2, <2>3 DEF StartsAt
<1>13. t.branch = s.branch /\ t.entity = s.entity /\ IsPrefix(s.prop, t.prop) /\ n =< k
  <2>1. /\ 2 * n + 2 =< Len(y) /\ StartsAt(y, s.branch, s.entity, s.prop, n)
             <=> t.branch = s.branch /\ t.entity = s.entity /\ IsPrefix(s.prop, t.prop)
        /\ k \in Nat \ {0} /\ n \in Nat /\ (IsPrefix(s.prop, t.prop) => n =< k)
    BY <1>1, <1>2, <1>5, <1>6, StartsIsPrefix
  <2> QED BY <1>12, <2>1
<1>14. k = n
  <2> SUFFICES ASSUME n < k
               PROVE  FALSE
    BY <1>2, <1>6, <1>13
  <2>1. PICK i \in 1 .. k : i = n + 1
    BY <1>2, <1>6
  <2>2. y[l] = Child /\ l \in 1 .. l
    <3>1. 2 * i + 1 = l /\ l \in 1 .. l
      BY <1>2, <1>7, <2>1
    <3>2. y[2 * i + 1] = Child
      BY <1>6, <2>1 DEF AreBytesOf
    <3> QED BY <3>1, <3>2
  <2>3. x[l] = PathEnd
    BY <1>6, <1>7 DEF AreBytesOf
  <2> QED BY <1>11, <2>2, <2>3 DEF Child, PathEnd
<1>15. s.prop = t.prop
  <2>1. t.prop \in Seq(Names) /\ Len(t.prop) = n
    BY <1>5, <1>14 DEF IsAssertion
  <2>2. \A i \in 1 .. n : s.prop[i] = t.prop[i]
    BY <1>1, <1>2, <1>13, <2>1, PrefixOf
  <2> QED BY <1>1, <1>2, <2>1, <2>2, SeqEqual
<1> QED BY <1>13, <1>15 DEF SameProperty

\* A path is before the paths it is a prefix of.
LEMMA PrefixFirst ==
  ASSUME NEW s, IsAssertion(s), NEW t, IsAssertion(t), s.branch = t.branch, s.entity = t.entity,
         IsStrictPrefix(s.prop, t.prop), NEW x, x = EncodeAssertion(s), NEW y, y = EncodeAssertion(t)
  PROVE  Before(x, y)
<1>1. PICK n, k : n = Len(s.prop) /\ k = Len(t.prop)
  OBVIOUS
<1>2. n \in Nat \ {0} /\ k \in Nat \ {0} /\ s.prop \in Seq(Names) /\ t.prop \in Seq(Names)
  BY <1>1 DEF IsAssertion
<1>3. n =< k /\ \A i \in 1 .. n : s.prop[i] = t.prop[i]
  BY <1>1, <1>2, PrefixOf DEF IsStrictPrefix
<1>4. n < k
  <2>1. n = k => s.prop = t.prop
    BY <1>1, <1>2, <1>3, SeqEqual
  <2> QED BY <1>2, <1>3, <2>1 DEF IsStrictPrefix
<1>5. AreBytesOf(x, s, n) /\ AreBytesOf(y, t, k)
  BY <1>1, AssertionBytes
<1>6. PICK l \in Nat : l = 2 * n + 2
  BY <1>2
<1>7. \A j \in 1 .. l : x[j] = y[j]
  <2> SUFFICES ASSUME NEW j \in 1 .. l
               PROVE  x[j] = y[j]
    OBVIOUS
  <2>1. CASE j \in 1 .. 2
    BY <1>5, <2>1 DEF AreBytesOf
  <2>2. CASE j \notin 1 .. 2
    <3>1. PICK i \in 1 .. n : j = 2 * i + 1 \/ j = 2 * i + 2
      <4>1. PICK h : h = (j - 1) \div 2
        OBVIOUS
      <4>2. j \in Nat /\ 3 =< j /\ j =< 2 * n + 2
        BY <1>6, <2>2
      <4>3. h \in 1 .. n /\ (j = 2 * h + 1 \/ j = 2 * h + 2)
        BY <1>2, <4>1, <4>2
      <4> QED BY <4>3
    <3>2. i \in 1 .. k
      BY <1>2, <1>3, <3>1
    <3>3. /\ x[2 * i + 1] = Child /\ x[2 * i + 2] = Hash[s.prop[i]]
          /\ y[2 * i + 1] = Child /\ y[2 * i + 2] = Hash[t.prop[i]]
      BY <1>5, <3>1, <3>2 DEF AreBytesOf
    <3> QED BY <1>3, <3>1, <3>3
  <2> QED BY <2>1, <2>2
<1>8. /\ x \in Seq(Nat) /\ y \in Seq(Nat) /\ l + 1 \in 1 .. Len(x) /\ l + 1 \in 1 .. Len(y)
      /\ (l + 1) - 1 = l /\ x[l + 1] < y[l + 1]
  <2>1. PICK i \in 1 .. k : i = n + 1
    BY <1>2, <1>4
  <2>2. l + 1 = 2 * i + 1 /\ l + 1 = 2 * n + 3 /\ (l + 1) - 1 = l
        /\ l + 1 \in 1 .. 3 * n + 8 /\ l + 1 \in 1 .. 3 * k + 8
    BY <1>2, <1>4, <1>6, <2>1
  <2>3. x \in Seq(Nat) /\ y \in Seq(Nat) /\ Len(x) = 3 * n + 8 /\ Len(y) = 3 * k + 8
    BY <1>5 DEF AreBytesOf
  <2>4. y[2 * i + 1] = Child /\ x[2 * n + 3] = PathEnd
    BY <1>5, <2>1 DEF AreBytesOf
  <2>5. x[l + 1] = PathEnd /\ y[l + 1] = Child
    BY <2>2, <2>4
  <2>6. x[l + 1] < y[l + 1]
    BY <2>5 DEF Child, PathEnd
  <2> QED BY <2>2, <2>3, <2>6
<1> QED BY <1>7, <1>8, DecidedAt

-----------------------------------------------------------------------------
(***************************************************************************)
(* The loop of discover_props, which skips what a snapshot does not show.  *)
(***************************************************************************)

\* A loop over S that seeks to a point after each key.
Skips(w, points, S) ==
  /\ w \in Seq(S) /\ Len(w) \in Nat
  /\ \A k \in S : \E i \in 1 .. Len(w) : UpTo(w[i], k) /\ Before(k, points[w[i]])
  /\ \A i, j \in 1 .. Len(w) : i < j => UpTo(points[w[i]], w[j])

\* Where each point is past its key, every key is read or is before the point of
\* an earlier one, and no key is read that is before the point of an earlier one.
LEMMA SkipsOf ==
  ASSUME NEW place, NEW n, Numbers(place, n), NEW lower \in Seq(Nat), NEW upper \in Seq(Nat),
         NEW S, S = Kept(lower, upper), NEW points,
         \A k \in S : points[k] \in Seq(Nat) /\ Before(k, points[k]),
         NEW w, w = SkipScan(lower, upper, points)
  PROVE  Skips(w, points, S)
<1>1. /\ \A j \in db : j \in Seq(Nat) /\ place[j] \in Nat
      /\ \A i, j \in db : place[i] =< place[j] <=> UpTo(i, j)
      /\ \A i, j \in db : place[i] < place[j] <=> Before(i, j)
  BY DEF Numbers
<1>2. S \subseteq db
  BY DEF Kept
<1>3. PICK step : step = [k \in db |-> Seek(points[k])]
  OBVIOUS
<1>4. \A k \in S : /\ step[k] = Seek(points[k]) /\ Before(k, points[k])
                   /\ IsFirst(step[k], NotBefore(points[k]), place)
  BY <1>2, <1>3, StepsOf
<1>5. \A k \in S : \A j \in step[k] : j \in db /\ UpTo(points[k], j) /\ Before(k, j)
  <2> SUFFICES ASSUME NEW k \in S, NEW j \in step[k]
               PROVE  j \in db /\ UpTo(points[k], j) /\ Before(k, j)
    OBVIOUS
  <2>1. j \in db /\ UpTo(points[k], j)
    BY <1>4 DEF IsFirst, NotBefore
  <2>2. k \in Seq(Nat) /\ j \in Seq(Nat) /\ points[k] \in Seq(Nat) /\ Before(k, points[k])
    BY <1>1, <1>2, <1>4, <2>1
  <2> QED BY <2>1, <2>2, BeforeTransitive DEF UpTo
<1>6. \A k \in S : /\ step[k] \subseteq db /\ \A i, j \in step[k] : i = j
                   /\ \A j \in step[k] : Before(k, j)
  BY <1>4, <1>5 DEF IsFirst
<1>7. /\ IsWhole(w, Seek(lower), step, S, place) /\ Proceeds(Seek(lower), step, S, place, n)
      /\ \A k \in S : \E i \in 1 .. Len(w) : UpTo(w[i], k) /\ Short(k, step[w[i]], S, place)
  <2>1. w = Walk(Seek(lower), step, lower, upper)
    BY <1>3 DEF SkipScan
  <2> QED BY <1>6, <2>1, SeekingWalk
<1>8. \A i \in 1 .. Len(w) : w[i] \in S
  BY <1>2, <1>7, WalkRoom DEF IsWhole
<1>9. w \in Seq(S) /\ Len(w) \in Nat
  BY <1>7 DEF IsWhole, IsWalk
<1>10. ASSUME NEW k \in S
       PROVE  \E i \in 1 .. Len(w) : UpTo(w[i], k) /\ Before(k, points[w[i]])
  <2>1. PICK i \in 1 .. Len(w) : UpTo(w[i], k) /\ Short(k, step[w[i]], S, place)
    BY <1>7
  <2>2. w[i] \in S /\ Before(w[i], points[w[i]]) /\ step[w[i]] = Seek(points[w[i]]) /\ points[w[i]] \in Seq(Nat)
    BY <1>4, <1>8
  <2>3. Before(k, points[w[i]])
    BY <2>1, <2>2, ShortOfPoint
  <2> QED BY <2>1, <2>3
<1>11. ASSUME NEW i \in 1 .. Len(w), NEW j \in 1 .. Len(w), i < j
       PROVE  UpTo(points[w[i]], w[j])
  <2>1. i + 1 \in 1 .. Len(w) /\ i + 1 # 1 /\ (i + 1) - 1 = i
    BY <1>9, <1>11
  <2>2. w[i + 1] \in step[w[i]]
    <3>1. \A l \in 1 .. Len(w) : w[l] \in IF l = 1 THEN Seek(lower) ELSE step[w[l - 1]]
      BY <1>7 DEF IsWhole, IsWalk
    <3>2. w[i + 1] \in step[w[(i + 1) - 1]]
      BY <2>1, <3>1
    <3> QED BY <2>1, <3>2
  <2>3. w[i] \in S /\ w[j] \in S /\ w[i + 1] \in S
    BY <1>8, <2>1
  <2>4. UpTo(points[w[i]], w[i + 1])
    BY <1>5, <2>2, <2>3
  <2>5. UpTo(w[i + 1], w[j])
    <3>1. CASE i + 1 = j
      BY <3>1 DEF UpTo
    <3>2. CASE i + 1 < j
      <4>1. place[w[i + 1]] < place[w[j]]
        BY <1>7, <2>1, <3>2 DEF IsWhole, IsWalk
      <4> QED BY <1>1, <1>2, <2>3, <4>1 DEF UpTo
    <3> QED BY <1>11, <3>1, <3>2
  <2>6. points[w[i]] \in Seq(Nat) /\ w[j] \in Seq(Nat) /\ w[i + 1] \in Seq(Nat)
    BY <1>1, <1>2, <2>3
  <2> QED BY <2>4, <2>5, <2>6, UpToTransitive
<1> QED BY <1>9, <1>10, <1>11 DEF Skips

\* An end of the range of all properties of an entity.
IsEnd(t, branch, entity, mid) ==
  t \in Seq(Nat) /\ 3 =< Len(t) /\ t[1] = Hash[branch] /\ t[2] = Hash[entity] /\ t[3] = mid

\* The tokens of an end that has no path.
LEMMA FiveTokens ==
  ASSUME NEW x \in Nat, NEW y \in Nat, NEW z \in Nat, NEW tx \in Nat, NEW last \in Nat, NEW head,
         head = <<x, y>>, NEW mark, mark = <<z>>, NEW time, time = <<tx>>,
         NEW t, t = Append((head \o mark) \o time, last)
  PROVE  t \in Seq(Nat) /\ 3 =< Len(t) /\ t[1] = x /\ t[2] = y /\ t[3] = z
<1>1. head \in Seq(Nat) /\ Len(head) = 2 /\ head[1] = x /\ head[2] = y
  OBVIOUS
<1>2. mark \in Seq(Nat) /\ Len(mark) = 1 /\ mark[1] = z /\ time \in Seq(Nat) /\ Len(time) = 1
  OBVIOUS
<1>3. PICK b : b = head \o mark
  OBVIOUS
<1>4. /\ b \in Seq(Nat) /\ Len(b) = Len(head) + Len(mark)
      /\ \A i \in 1 .. Len(head) : b[i] = head[i]
      /\ \A i \in 1 .. Len(mark) : b[Len(head) + i] = mark[i]
  <2>1. head \in Seq(Nat) /\ mark \in Seq(Nat)
    BY <1>1, <1>2
  <2> QED BY <1>3, <2>1, JoinOf
<1>5. Len(b) = 3 /\ b[1] = x /\ b[2] = y /\ b[3] = z
  <2>1. b[1] = x /\ b[2] = y
    BY <1>1, <1>4
  <2>2. 2 + 1 = 3 /\ 1 \in 1 .. Len(mark) /\ Len(head) = 2
    BY <1>1, <1>2
  <2>3. b[2 + 1] = z
    BY <1>2, <1>4, <2>2
  <2> QED BY <1>1, <1>2, <1>4, <2>1, <2>2, <2>3
<1>6. PICK a : a = b \o time
  OBVIOUS
<1>7. /\ a \in Seq(Nat) /\ Len(a) = Len(b) + Len(time)
      /\ \A i \in 1 .. Len(b) : a[i] = b[i]
      /\ \A i \in 1 .. Len(time) : a[Len(b) + i] = time[i]
  <2>1. b \in Seq(Nat) /\ time \in Seq(Nat)
    BY <1>2, <1>4
  <2> QED BY <1>6, <2>1, JoinOf
<1>8. Len(a) = 4 /\ a[1] = x /\ a[2] = y /\ a[3] = z
  BY <1>2, <1>5, <1>7
<1>9. PICK l \in Nat : l = Len(a)
  BY <1>8
<1>10. PICK r : r = Append(a, last)
  OBVIOUS
<1>11. r \in Seq(Nat) /\ Len(r) = l + 1 /\ r[l + 1] = last /\ \A i \in 1 .. l : r[i] = a[i]
  <2>1. a \in Seq(Nat)
    BY <1>7
  <2> QED BY <1>9, <1>10, <2>1, OneMore
<1>12. l = 4
  BY <1>8, <1>9
<1>13. r \in Seq(Nat) /\ 3 =< Len(r) /\ r[1] = x /\ r[2] = y /\ r[3] = z
  BY <1>8, <1>11, <1>12
<1>14. t = r
  BY <1>3, <1>6, <1>10
<1> QED BY <1>13, <1>14, Zenon

\* The ends of an address that has no path, or the last one.
LEMMA EndBytes ==
  ASSUME NEW branch \in Names, NEW entity \in Names,
         NEW a, a = AssertionLower([branch |-> branch, entity |-> entity, prop |-> NoPath, tx |-> NilUuid]),
         NEW b, b = AssertionUpper([branch |-> branch, entity |-> entity, prop |-> LastPath, tx |-> MaxUuid])
  PROVE  IsEnd(a, branch, entity, PathEnd) /\ IsEnd(b, branch, entity, PastPaths)
<1>1. /\ Hash[branch] \in Nat /\ Hash[entity] \in Nat /\ MaxUuid \in Nat /\ MaxSlug \in Nat
      /\ HashOf(branch) = Hash[branch] /\ HashOf(entity) = Hash[entity] /\ MinSlug # MaxSlug
  <2>1. branch \in Nat /\ branch > MinSlug /\ branch < MaxSlug /\ MaxSlug \in Nat
    BY NumbersOf
  <2>2. MinSlug # MaxSlug
    BY <2>1 DEF MinSlug
  <2> QED BY <2>2, NumbersOf DEF HashOf
<1>2. NoPath # LastPath
  BY <1>1 DEF NoPath, LastPath
<1>3. ASSUME NEW prop, NEW tx \in Nat, NEW mid \in Nat, NEW key,
             key = [branch |-> branch, entity |-> entity, prop |-> prop, tx |-> tx],
             EncodeAddress(key) = (<<Hash[branch], Hash[entity]>> \o <<mid>>) \o <<tx>>,
             NEW last \in Nat, NEW t, t = Append(EncodeAddress(key), last)
      PROVE  IsEnd(t, branch, entity, mid)
  <2>1. t = Append((<<Hash[branch], Hash[entity]>> \o <<mid>>) \o <<tx>>, last)
    BY <1>3
  <2>3. PICK head, mark, time : head = <<Hash[branch], Hash[entity]>> /\ mark = <<mid>> /\ time = <<tx>>
    OBVIOUS
  <2>2. t \in Seq(Nat) /\ 3 =< Len(t) /\ t[1] = Hash[branch] /\ t[2] = Hash[entity] /\ t[3] = mid
    BY <1>1, <2>1, <2>3, FiveTokens
  <2> QED BY <2>2 DEF IsEnd
<1>4. IsEnd(a, branch, entity, PathEnd)
  <2>1. PICK key : key = [branch |-> branch, entity |-> entity, prop |-> NoPath, tx |-> NilUuid]
    OBVIOUS
  <2>2. EncodeAddress(key) = (<<Hash[branch], Hash[entity]>> \o <<PathEnd>>) \o <<NilUuid>>
    BY <1>1, <1>2, <2>1 DEF EncodeAddress
  <2>3. a = Append(EncodeAddress(key), Separator)
    BY <2>1 DEF AssertionLower
  <2>4. NilUuid \in Nat /\ PathEnd \in Nat /\ Separator \in Nat
    BY DEF NilUuid, PathEnd, Separator
  <2> QED BY <1>3, <2>1, <2>2, <2>3, <2>4
<1>5. IsEnd(b, branch, entity, PastPaths)
  <2>1. PICK key : key = [branch |-> branch, entity |-> entity, prop |-> LastPath, tx |-> MaxUuid]
    OBVIOUS
  <2>2. EncodeAddress(key) = (<<Hash[branch], Hash[entity]>> \o <<PastPaths>>) \o <<MaxUuid>>
    <3>1. key.branch = branch /\ key.entity = entity /\ key.prop = LastPath /\ key.tx = MaxUuid
      BY <2>1
    <3> QED BY <1>1, <1>2, <3>1 DEF EncodeAddress
  <2>3. b = Append(EncodeAddress(key), SeparatorUpper)
    BY <2>1 DEF AssertionUpper
  <2>4. MaxUuid \in Nat /\ PastPaths \in Nat /\ SeparatorUpper \in Nat
    BY <1>1 DEF PastPaths, SeparatorUpper
  <2> QED BY <1>3, <2>1, <2>2, <2>3, <2>4
<1> QED BY <1>4, <1>5

\* The keys between the ends of an entity are those of its assertions.
LEMMA EntityKeys ==
  ASSUME NEW key, IsAssertion(key), NEW bytes, bytes = EncodeAssertion(key),
         NEW branch \in Names, NEW entity \in Names,
         NEW a, IsEnd(a, branch, entity, PathEnd), NEW b, IsEnd(b, branch, entity, PastPaths)
  PROVE  Inside(a, b, bytes) <=> key.branch = branch /\ key.entity = entity
<1>1. PICK n : n = Len(key.prop)
  OBVIOUS
<1>2. n \in Nat \ {0} /\ key.branch \in Names /\ key.entity \in Names
  BY <1>1 DEF IsAssertion
<1>3. AreBytesOf(bytes, key, n)
  BY <1>1, AssertionBytes
<1>4. /\ bytes \in Seq(Nat) /\ bytes[1] = Hash[key.branch] /\ bytes[2] = Hash[key.entity]
      /\ bytes[3] = Child /\ 3 \in 1 .. Len(bytes)
  <2>1. PICK i \in 1 .. n : i = 1
    BY <1>2
  <2>2. bytes[2 * i + 1] = Child /\ 2 * i + 1 = 3
    BY <1>3, <2>1 DEF AreBytesOf
  <2>3. Len(bytes) = 3 * n + 8
    BY <1>3 DEF AreBytesOf
  <2>4. 3 \in 1 .. Len(bytes)
    BY <1>2, <2>3
  <2> QED BY <1>3, <2>2, <2>4 DEF AreBytesOf
<1>5. /\ a \in Seq(Nat) /\ 3 \in 1 .. Len(a) /\ a[1] = Hash[branch] /\ a[2] = Hash[entity] /\ a[3] = PathEnd
      /\ b \in Seq(Nat) /\ 3 \in 1 .. Len(b) /\ b[1] = Hash[branch] /\ b[2] = Hash[entity] /\ b[3] = PastPaths
  BY DEF IsEnd
<1>6. ASSUME Inside(a, b, bytes)
      PROVE  key.branch = branch /\ key.entity = entity
  <2>1. PICK l \in Nat : l = 2
    OBVIOUS
  <2>2. Agree(a, b, l)
    <3>1. \A i \in 1 .. 2 : a[i] = b[i]
      <4>1. a[1] = b[1] /\ a[2] = b[2]
        BY <1>5
      <4> QED BY <4>1
    <3> QED BY <1>5, <2>1, <3>1 DEF Agree
  <2>3. UpTo(a, bytes) /\ UpTo(bytes, b)
    BY <1>6 DEF Inside
  <2>4. a \in Seq(Nat) /\ b \in Seq(Nat) /\ bytes \in Seq(Nat)
    BY <1>4, <1>5
  <2>5. Agree(bytes, a, l)
    BY <2>2, <2>3, <2>4, Between
  <2>6. bytes[1] = a[1] /\ bytes[2] = a[2]
    BY <2>1, <2>5 DEF Agree
  <2>7. Hash[key.branch] = Hash[branch] /\ Hash[key.entity] = Hash[entity]
    BY <1>4, <1>5, <2>6
  <2> QED BY <1>2, <2>7, KeySpaceAssumption
<1>7. ASSUME key.branch = branch, key.entity = entity
      PROVE  Inside(a, b, bytes)
  <2>1. \A j \in 1 .. 3 - 1 : a[j] = bytes[j] /\ bytes[j] = b[j]
    <3>1. a[1] = bytes[1] /\ bytes[1] = b[1] /\ a[2] = bytes[2] /\ bytes[2] = b[2]
      BY <1>4, <1>5, <1>7
    <3>2. \A j \in 1 .. 3 - 1 : j = 1 \/ j = 2
      OBVIOUS
    <3> QED BY <3>1, <3>2
  <2>2. a[3] < bytes[3] /\ bytes[3] < b[3]
    BY <1>4, <1>5 DEF PathEnd, Child, PastPaths
  <2>5. PICK i : i = 3
    OBVIOUS
  <2>6. /\ i \in 1 .. Len(a) /\ i \in 1 .. Len(b) /\ i \in 1 .. Len(bytes)
        /\ a[i] < bytes[i] /\ bytes[i] < b[i] /\ \A j \in 1 .. i - 1 : a[j] = bytes[j] /\ bytes[j] = b[j]
    BY <1>4, <1>5, <2>1, <2>2, <2>5
  <2>7. a \in Seq(Nat) /\ b \in Seq(Nat) /\ bytes \in Seq(Nat)
    BY <1>4, <1>5
  <2>3. UpTo(a, bytes)
    BY <2>6, <2>7, DecidedAt
  <2>4. UpTo(bytes, b)
    BY <2>6, <2>7, DecidedAt
  <2> QED BY <2>3, <2>4 DEF Inside
<1> QED BY <1>6, <1>7

-----------------------------------------------------------------------------
(***************************************************************************)
(* Cut paths and what stands for a deep one.                               *)
(***************************************************************************)

\* A prefix of a prefix.
LEMMA PrefixTransitive ==
  ASSUME NEW p \in Seq(Names), NEW q \in Seq(Names), NEW r \in Seq(Names), IsPrefix(p, q), IsPrefix(q, r)
  PROVE  IsPrefix(p, r)
<1>1. PICK l \in Nat, m \in Nat, n \in Nat : l = Len(p) /\ m = Len(q) /\ n = Len(r)
  <2>1. Len(p) \in Nat /\ Len(q) \in Nat /\ Len(r) \in Nat
    OBVIOUS
  <2> QED BY <2>1
<1>2. l =< m /\ \A i \in 1 .. l : p[i] = q[i]
  BY <1>1, PrefixOf
<1>3. m =< n /\ \A i \in 1 .. m : q[i] = r[i]
  BY <1>1, PrefixOf
<1>4. l =< n /\ \A i \in 1 .. l : p[i] = r[i]
  BY <1>1, <1>2, <1>3
<1> QED BY <1>1, <1>4, PrefixOf

\* Two paths that are a prefix of each other, or have the same length.
LEMMA PrefixEqual ==
  ASSUME NEW p \in Seq(Names), NEW q \in Seq(Names), IsPrefix(p, q)
  PROVE  /\ Len(p) =< Len(q) /\ (Len(q) =< Len(p) => p = q)
         /\ Len(p) \in Nat /\ Len(q) \in Nat /\ (IsPrefix(q, p) => p = q)
<1>1. PICK l \in Nat, m \in Nat : l = Len(p) /\ m = Len(q)
  <2>1. Len(p) \in Nat /\ Len(q) \in Nat
    OBVIOUS
  <2> QED BY <2>1
<1>2. l =< m /\ \A i \in 1 .. l : p[i] = q[i]
  BY <1>1, PrefixOf
<1>3. m =< l => p = q
  <2> SUFFICES ASSUME m =< l
               PROVE  p = q
    OBVIOUS
  <2>1. l = m
    BY <1>2
  <2> QED BY <1>1, <1>2, <2>1, SeqEqual
<1>4. IsPrefix(q, p) => m =< l
  BY <1>1, PrefixOf
<1> QED BY <1>1, <1>2, <1>3, <1>4

\* The number of segments a path is cut to.
CutLength(root, depth) == IF Len(root) + depth = 0 THEN 1 ELSE Len(root) + depth

IsPath(path) == path \in Seq(Names) /\ Len(path) \in Nat \ {0}

\* The first c segments of a path, and the path or these.
IsCut(cut, path, c) ==
  /\ cut \in Seq(Names) /\ Len(cut) = c /\ c \in Nat \ {0} /\ c =< Len(path)
  /\ \A i \in 1 .. c : cut[i] = path[i]

\* The cut of a deep path is a start of it, of the length of a cut.
LEMMA CutOf ==
  ASSUME NEW path, IsPath(path), NEW root \in Seq(Names), NEW depth \in Nat, Deep(path, root, depth),
         NEW c, c = CutLength(root, depth), NEW cut, cut = Cut(path, root, depth)
  PROVE  /\ IsCut(cut, path, c) /\ IsPrefix(cut, path)
         /\ Len(root) \in Nat /\ Len(root) + depth < Len(path)
<1>1. PICK r \in Nat, n \in Nat \ {0} : r = Len(root) /\ n = Len(path)
  <2>1. Len(root) \in Nat /\ Len(path) \in Nat \ {0}
    BY DEF IsPath
  <2> QED BY <2>1
<1>2. r + depth < n
  BY <1>1 DEF Deep
<1>3. c \in Nat \ {0} /\ c =< n
  BY <1>1, <1>2 DEF CutLength
<1>4. cut = SubSeq(path, 1, c)
  BY DEF Cut, CutLength
<1>5. cut \in Seq(Names) /\ Len(cut) = c /\ \A i \in 1 .. c : cut[i] = path[i]
  BY <1>1, <1>3, <1>4 DEF IsPath
<1>6. IsCut(cut, path, c)
  BY <1>1, <1>3, <1>5 DEF IsCut
<1>7. IsPrefix(cut, path)
  BY <1>1, <1>3, <1>5, PrefixOf DEF IsPath
<1> QED BY <1>1, <1>2, <1>6, <1>7

\* What stands for a path begins with the cut of it.
LEMMA RefOf ==
  ASSUME NEW path, IsPath(path), NEW root \in Seq(Names), NEW depth \in Nat, Deep(path, root, depth),
         NEW ref, ref = Ref(path, root, depth), NEW cut, cut = Cut(path, root, depth)
  PROVE  /\ ref \in Seq(Names) /\ IsPrefix(ref, path) /\ IsPrefix(cut, ref)
         /\ ref = IF cut[CutLength(root, depth)] \in Hyphened THEN path ELSE cut
<1>1. PICK c : c = CutLength(root, depth)
  OBVIOUS
<1>2. IsCut(cut, path, c) /\ IsPrefix(cut, path)
  BY <1>1, CutOf
<1>3. ref = IF cut[c] \in Hyphened THEN path ELSE cut
  BY <1>2 DEF Ref, IsCut
<1>4. cut \in Seq(Names) /\ path \in Seq(Names)
  BY <1>2 DEF IsCut, IsPath
<1>5. IsPrefix(path, path) /\ IsPrefix(cut, cut)
  BY <1>4, PrefixOf
<1> QED BY <1>1, <1>2, <1>3, <1>4, <1>5

\* Two deep paths, one under what stands for the other.
LEMMA RefsAgree ==
  ASSUME NEW p, IsPath(p), NEW q, IsPath(q), NEW root \in Seq(Names), NEW depth \in Nat,
         Deep(p, root, depth), Deep(q, root, depth),
         NEW c, c = Cut(p, root, depth), NEW r, r = Ref(p, root, depth), NEW t, t = Ref(q, root, depth),
         IsPrefix(r, q) \/ IsPrefix(c, q) \/ IsPrefix(r, t)
  PROVE  Cut(q, root, depth) = c /\ (r = t \/ (r = p /\ t = q))
<1>1. PICK n : n = CutLength(root, depth)
  OBVIOUS
<1>2. PICK d : d = Cut(q, root, depth)
  OBVIOUS
<1>3. IsCut(c, p, n) /\ IsCut(d, q, n)
  BY <1>1, <1>2, CutOf
<1>4. /\ r \in Seq(Names) /\ IsPrefix(c, r) /\ r = IF c[n] \in Hyphened THEN p ELSE c
  BY <1>1, RefOf
<1>5. /\ t \in Seq(Names) /\ IsPrefix(t, q) /\ t = IF d[n] \in Hyphened THEN q ELSE d
  BY <1>1, <1>2, RefOf
<1>6. c \in Seq(Names) /\ d \in Seq(Names) /\ q \in Seq(Names) /\ n \in Nat \ {0}
  BY <1>3 DEF IsCut, IsPath
<1>7. IsPrefix(c, q)
  <2>1. IsPrefix(r, t) => IsPrefix(r, q)
    BY <1>4, <1>5, <1>6, PrefixTransitive
  <2>2. IsPrefix(r, q) => IsPrefix(c, q)
    BY <1>4, <1>6, PrefixTransitive
  <2> QED BY <2>1, <2>2
<1>8. c = d
  <2>1. \A i \in 1 .. n : c[i] = q[i]
    BY <1>3, <1>6, <1>7, PrefixOf DEF IsCut
  <2>2. \A i \in 1 .. n : c[i] = d[i]
    BY <1>3, <2>1 DEF IsCut
  <2> QED BY <1>3, <1>6, <2>2, SeqEqual DEF IsCut
<1> QED BY <1>2, <1>4, <1>5, <1>8

\* A path that is not deep, under the cut of one that is.
LEMMA CutStops ==
  ASSUME NEW p, IsPath(p), NEW q, IsPath(q), NEW root \in Seq(Names), NEW depth \in Nat,
         Deep(p, root, depth), ~Deep(q, root, depth), IsPrefix(Cut(p, root, depth), q)
  PROVE  IsStrictPrefix(q, p)
<1>1. PICK n, cut : n = CutLength(root, depth) /\ cut = Cut(p, root, depth)
  OBVIOUS
<1>2. IsCut(cut, p, n) /\ IsPrefix(cut, p) /\ Len(root) \in Nat /\ Len(root) + depth < Len(p)
  BY <1>1, CutOf
<1>3. cut \in Seq(Names) /\ p \in Seq(Names) /\ q \in Seq(Names) /\ Len(q) \in Nat \ {0}
  BY <1>2 DEF IsCut, IsPath
<1>4. Len(q) =< Len(root) + depth
  BY <1>2, <1>3 DEF Deep
<1>5. n = Len(root) + depth /\ Len(cut) = n
  BY <1>1, <1>2, <1>3, <1>4 DEF CutLength, IsCut
<1>6. q = cut
  BY <1>1, <1>3, <1>4, <1>5, PrefixEqual
<1>7. q # p
  BY <1>2, <1>3, <1>4, <1>5
<1> QED BY <1>2, <1>6, <1>7 DEF IsStrictPrefix

-----------------------------------------------------------------------------
(***************************************************************************)
(* What select reads: every version of the subtree is read or stood for.   *)
(***************************************************************************)

\* The keys of the store are the encodings of its assertions.
LEMMA AssertionRows ==
  ASSUME DbInv, cf = "assertions"
  PROVE  /\ \A k \in db : /\ k \in Seq(Nat) /\ KeyOf(k) \in rows /\ IsAssertion(KeyOf(k))
                          /\ k = EncodeAssertion(KeyOf(k))
         /\ \A r \in rows : /\ IsAssertion(r) /\ EncodeAssertion(r) \in db
                            /\ KeyOf(EncodeAssertion(r)) = r /\ EncodeAssertion(r) \in Seq(Nat)
<1>1. \A r \in rows : IsAssertion(r)
  BY AssertionFields DEF DbInv
<1>2. \A k \in db : k \in Seq(Nat) /\ KeyOf(k) \in rows /\ k = EncodeAssertion(KeyOf(k))
  BY RowsAreRead DEF DecodeKey, EncodeKey, KeyOf
<1>3. \A r \in rows : EncodeAssertion(r) \in db
  BY DEF DbInv, EncodeKey
<1>4. \A r \in rows : KeyOf(EncodeAssertion(r)) = r
  BY <1>1, DecodeAssertionOf DEF KeyOf
<1> QED BY <1>1, <1>2, <1>3, <1>4

\* discover_props reads one version of each property of the entity.
LEMMA DiscoveredOf ==
  ASSUME DbInv, cf = "assertions", NEW branch \in Branches, NEW entity \in Owners,
         NEW props, props = DiscoveredProps(branch, entity)
  PROVE  /\ IsInjective(props)
         /\ ToSet(props) = {r.prop : r \in {s \in rows : s.branch = branch /\ s.entity = entity}}
<1>1. branch \in Names /\ entity \in Names
  BY TerraDbAssumption
<1>2. PICK lower, upper :
        /\ lower = AssertionLower([branch |-> branch, entity |-> entity, prop |-> NoPath, tx |-> NilUuid])
        /\ upper = AssertionUpper([branch |-> branch, entity |-> entity, prop |-> LastPath, tx |-> MaxUuid])
  OBVIOUS
<1>3. IsEnd(lower, branch, entity, PathEnd) /\ IsEnd(upper, branch, entity, PastPaths)
  BY <1>1, <1>2, EndBytes
<1>4. lower \in Seq(Nat) /\ upper \in Seq(Nat)
  BY <1>3 DEF IsEnd
<1>5. PICK K : K = Kept(lower, upper)
  OBVIOUS
<1>6. /\ \A k \in db : /\ k \in Seq(Nat) /\ KeyOf(k) \in rows /\ IsAssertion(KeyOf(k))
                       /\ k = EncodeAssertion(KeyOf(k))
      /\ \A r \in rows : /\ IsAssertion(r) /\ EncodeAssertion(r) \in db /\ KeyOf(EncodeAssertion(r)) = r
  BY AssertionRows
<1>7. \A k \in db : k \in K <=> KeyOf(k).branch = branch /\ KeyOf(k).entity = entity
  <2> SUFFICES ASSUME NEW k \in db
               PROVE  k \in K <=> KeyOf(k).branch = branch /\ KeyOf(k).entity = entity
    OBVIOUS
  <2>1. IsAssertion(KeyOf(k)) /\ k = EncodeAssertion(KeyOf(k))
    BY <1>6
  <2>2. Inside(lower, upper, k) <=> KeyOf(k).branch = branch /\ KeyOf(k).entity = entity
    BY <1>1, <1>3, <2>1, EntityKeys
  <2> QED BY <1>5, <2>2 DEF Kept
<1>8. K \subseteq db
  BY <1>5 DEF Kept
<1>9. PICK points :
        points = [k \in db |-> AssertionLower([branch |-> branch, entity |-> entity,
                                               prop |-> KeyOf(k).prop, tx |-> MaxUuid])]
  OBVIOUS
<1>10. \A k \in K : points[k] = LastPoint(KeyOf(k))
  BY <1>7, <1>8, <1>9 DEF LastPoint
<1>11. ASSUME NEW j \in K, NEW k \in K
       PROVE  /\ points[k] \in Seq(Nat) /\ Before(k, points[k])
              /\ KeyOf(j).prop = KeyOf(k).prop => Before(j, points[k])
              /\ UpTo(k, j) /\ Before(j, points[k]) => KeyOf(j).prop = KeyOf(k).prop
  <2>1. PICK s, t : s = KeyOf(j) /\ t = KeyOf(k)
    OBVIOUS
  <2>2. IsAssertion(s) /\ IsAssertion(t) /\ j = EncodeAssertion(s) /\ k = EncodeAssertion(t)
    BY <1>6, <1>8, <2>1
  <2>3. points[k] = LastPoint(t)
    BY <1>10, <2>1
  <2>4. SameProperty(t, t) /\ (s.prop = t.prop => SameProperty(s, t))
    BY <1>7, <1>8, <2>1 DEF SameProperty
  <2>5. Before(k, LastPoint(t)) /\ LastPoint(t) \in Seq(Nat)
    BY <2>2, <2>4, VersionsInOrder
  <2>6. s.prop = t.prop => Before(j, LastPoint(t))
    BY <2>2, <2>4, VersionsInOrder
  <2>7. UpTo(k, j) /\ Before(j, LastPoint(t)) => SameProperty(t, s)
    BY <2>2, StaysInVersions
  <2> QED BY <2>1, <2>3, <2>5, <2>6, <2>7 DEF SameProperty
<1>12. PICK w : w = SkipScan(lower, upper, points)
  OBVIOUS
<1>13. PICK place : Numbers(place, Cardinality(db))
  BY RowsAreRead, NumbersExist
<1>14. Skips(w, points, K)
  <2>1. \A k \in K : points[k] \in Seq(Nat) /\ Before(k, points[k])
    BY <1>11
  <2> QED BY <1>4, <1>5, <1>12, <1>13, <2>1, SkipsOf
<1>15. /\ w \in Seq(K) /\ Len(w) \in Nat
       /\ \A k \in K : \E i \in 1 .. Len(w) : UpTo(w[i], k) /\ Before(k, points[w[i]])
       /\ \A i, j \in 1 .. Len(w) : i < j => UpTo(points[w[i]], w[j])
  BY <1>14 DEF Skips
<1>16. \A i \in 1 .. Len(w) : w[i] \in K
  BY <1>15, ElementOfSeq
<1>17. DOMAIN props = 1 .. Len(w) /\ \A i \in 1 .. Len(w) : props[i] = KeyOf(w[i]).prop
  <2>1. props = [i \in 1 .. Len(w) |-> KeyOf(w[i]).prop]
    BY <1>2, <1>9, <1>12 DEF DiscoveredProps
  <2> QED BY <2>1
<1>18. ASSUME NEW i \in 1 .. Len(w), NEW j \in 1 .. Len(w), i < j
       PROVE  props[i] # props[j]
  <2>1. UpTo(points[w[i]], w[j]) /\ w[i] \in K /\ w[j] \in K
    BY <1>15, <1>16, <1>18
  <2>2. points[w[i]] \in Seq(Nat) /\ w[j] \in Seq(Nat)
    BY <1>6, <1>8, <1>11, <2>1
  <2>3. ~Before(w[j], points[w[i]])
    BY <2>1, <2>2, BeforeOneWay
  <2>4. KeyOf(w[j]).prop # KeyOf(w[i]).prop
    BY <1>11, <2>1, <2>3
  <2> QED BY <1>17, <2>4
<1>19. IsInjective(props)
  <2>1. ASSUME NEW i \in 1 .. Len(w), NEW j \in 1 .. Len(w), props[i] = props[j]
        PROVE  i = j
    <3>1. ~(i < j) /\ ~(j < i)
      BY <1>18, <2>1
    <3> QED BY <1>15, <3>1
  <2> QED BY <1>17, <2>1 DEF IsInjective
<1>20. \A x \in ToSet(props) : x \in {r.prop : r \in {s \in rows : s.branch = branch /\ s.entity = entity}}
  <2> SUFFICES ASSUME NEW i \in 1 .. Len(w)
               PROVE  props[i] \in {r.prop : r \in {s \in rows : s.branch = branch /\ s.entity = entity}}
    BY <1>17 DEF ToSet
  <2>1. PICK r : r = KeyOf(w[i])
    OBVIOUS
  <2>2. r \in rows /\ r.branch = branch /\ r.entity = entity
    BY <1>6, <1>7, <1>8, <1>16, <2>1
  <2> QED BY <1>17, <2>1, <2>2
<1>21. ASSUME NEW r \in rows, r.branch = branch, r.entity = entity
       PROVE  r.prop \in ToSet(props)
  <2>1. PICK k : k = EncodeAssertion(r)
    OBVIOUS
  <2>2. k \in db /\ KeyOf(k) = r /\ k \in K
    BY <1>6, <1>7, <1>21, <2>1
  <2>3. PICK i \in 1 .. Len(w) : UpTo(w[i], k) /\ Before(k, points[w[i]])
    BY <1>15, <2>2
  <2>4. KeyOf(k).prop = KeyOf(w[i]).prop
    BY <1>11, <1>16, <2>2, <2>3
  <2>5. props[i] = r.prop
    BY <1>17, <2>2, <2>4
  <2> QED BY <1>17, <2>5 DEF ToSet
<1> QED BY <1>19, <1>20, <1>21

-----------------------------------------------------------------------------
\* A version in the snapshot, of a path below the depth.
Omitted(key, at, root, depth) == InSnapshot(key, at) /\ Deep(key.prop, root, depth)

\* Once v is read, t is skipped.
Stands(v, t, at, root, depth) ==
  IF Omitted(v, at, root, depth) THEN IsPrefix(Ref(v.prop, root, depth), t.prop) ELSE v.prop = t.prop

InSubtree(branch, entity, root) == {s \in rows : InTree(s, branch, entity, root)}

\* Every version in the subtree is read, or one before it that it is skipped for;
\* none is read that is skipped for another.
Reads(read, tree, at, root, depth) ==
  /\ read \subseteq tree
  /\ \A t \in tree : \E v \in read : /\ UpTo(EncodeAssertion(v), EncodeAssertion(t))
                                     /\ Stands(v, t, at, root, depth)
  /\ \A u, v \in read : UpTo(EncodeAssertion(u), EncodeAssertion(v)) /\ u # v
                          => ~Stands(u, v, at, root, depth)

\* The two reads of a subtree.
Selected(read, at, root, depth) ==
  [selected |-> {k.prop : k \in {r \in read : InSnapshot(r, at) /\ ~Omitted(r, at, root, depth)}},
   refs |-> {Ref(r.prop, root, depth) : r \in {x \in read : Omitted(x, at, root, depth)}}]

\* The keys inside the ends of a subtree.
LEMMA TreeKeys ==
  ASSUME DbInv, cf = "assertions", NEW branch \in Names, NEW entity \in Names, NEW root \in Seq(Names),
         NEW lower, lower = SubtreeLower(branch, entity, root),
         NEW upper, upper = SubtreeUpper(branch, entity, root)
  PROVE  /\ \A k \in db : k \in Kept(lower, upper) <=> KeyOf(k) \in InSubtree(branch, entity, root)
         /\ rows # {} => lower \in Seq(Nat) /\ upper \in Seq(Nat)
<1>1. /\ \A k \in db : KeyOf(k) \in rows /\ IsAssertion(KeyOf(k)) /\ k = EncodeAssertion(KeyOf(k))
      /\ \A r \in rows : IsAssertion(r) /\ EncodeAssertion(r) \in db /\ KeyOf(EncodeAssertion(r)) = r
  BY AssertionRows
<1>2. ASSUME NEW k \in db
      PROVE  /\ Inside(lower, upper, k) <=> InTree(KeyOf(k), branch, entity, root)
             /\ lower \in Seq(Nat) /\ upper \in Seq(Nat)
  <2>1. IsAssertion(KeyOf(k)) /\ k = EncodeAssertion(KeyOf(k))
    BY <1>1
  <2> QED BY <2>1, SubtreeKeys
<1>3. \A k \in db : k \in Kept(lower, upper) <=> KeyOf(k) \in InSubtree(branch, entity, root)
  BY <1>1, <1>2 DEF Kept, InSubtree
<1>4. rows # {} => lower \in Seq(Nat) /\ upper \in Seq(Nat)
  BY <1>1, <1>2
<1> QED BY <1>3, <1>4

\* Where the loop goes on after a version: past the subtree that is stood for, or
\* past the versions of the property.
LEMMA StandsOf ==
  ASSUME NEW u, IsAssertion(u), NEW v, IsAssertion(v), NEW x, x = EncodeAssertion(u),
         NEW y, y = EncodeAssertion(v),
         NEW branch \in Names, NEW entity \in Names, NEW root \in Seq(Names), NEW depth \in Nat, NEW at,
         InTree(u, branch, entity, root), InTree(v, branch, entity, root),
         NEW point, point = IF Omitted(u, at, root, depth)
                            THEN SubtreeUpper(branch, entity, Ref(u.prop, root, depth))
                            ELSE LastPoint(u)
  PROVE  /\ point \in Seq(Nat) /\ Before(x, point)
         /\ Stands(u, v, at, root, depth) => Before(y, point)
         /\ UpTo(x, y) /\ Before(y, point) => Stands(u, v, at, root, depth)
<1>1. u.branch = branch /\ u.entity = entity /\ v.branch = branch /\ v.entity = entity
  BY DEF InTree
<1>2. IsPath(u.prop) /\ u.prop \in Seq(Names)
  BY DEF IsPath, IsAssertion
<1>3. CASE Omitted(u, at, root, depth)
  <2>1. PICK ref : ref = Ref(u.prop, root, depth)
    OBVIOUS
  <2>2. ref \in Seq(Names) /\ IsPrefix(ref, u.prop)
    BY <1>2, <1>3, <2>1, RefOf DEF Omitted
  <2>3. PICK a, b : a = SubtreeLower(branch, entity, ref) /\ b = SubtreeUpper(branch, entity, ref)
    OBVIOUS
  <2>4. point = b
    BY <1>3, <2>1, <2>3
  <2>5. InTree(u, branch, entity, ref)
    BY <1>1, <2>2 DEF InTree
  <2>6. Before(x, b) /\ b \in Seq(Nat)
    BY <2>2, <2>3, <2>5, SubtreeKeys
  <2>7. InTree(v, branch, entity, ref) => Before(y, b)
    BY <2>2, <2>3, SubtreeKeys
  <2>8. UpTo(x, y) /\ Before(y, b) => InTree(v, branch, entity, ref)
    BY <2>2, <2>3, <2>5, StaysInTree
  <2>9. Stands(u, v, at, root, depth) <=> InTree(v, branch, entity, ref)
    BY <1>1, <1>3, <2>1 DEF Stands, InTree
  <2> QED BY <2>4, <2>6, <2>7, <2>8, <2>9
<1>4. CASE ~Omitted(u, at, root, depth)
  <2>1. point = LastPoint(u)
    BY <1>4
  <2>2. Stands(u, v, at, root, depth) <=> SameProperty(v, u)
    BY <1>1, <1>4 DEF Stands, SameProperty
  <2>3. SameProperty(u, u)
    BY DEF SameProperty
  <2>4. Before(x, LastPoint(u)) /\ LastPoint(u) \in Seq(Nat)
    BY <2>3, VersionsInOrder
  <2>5. SameProperty(v, u) => Before(y, LastPoint(u))
    BY VersionsInOrder
  <2>6. UpTo(x, y) /\ Before(y, LastPoint(u)) => SameProperty(v, u)
    <3>1. UpTo(x, y) /\ Before(y, LastPoint(u)) => SameProperty(u, v)
      BY StaysInVersions
    <3> QED BY <3>1 DEF SameProperty
  <2> QED BY <2>1, <2>2, <2>4, <2>5, <2>6
<1> QED BY <1>3, <1>4

\* select reads what its loop does not skip.
LEMMA SelectionReads ==
  ASSUME DbInv, cf = "assertions", rows # {},
         NEW branch \in Names, NEW entity \in Names, NEW root \in Seq(Names), NEW depth \in Nat, NEW at
  PROVE  \E read : /\ Reads(read, InSubtree(branch, entity, root), at, root, depth)
                   /\ Selection(branch, entity, at, root, depth) = Selected(read, at, root, depth)
<1>1. PICK lower, upper : lower = SubtreeLower(branch, entity, root) /\ upper = SubtreeUpper(branch, entity, root)
  OBVIOUS
<1>2. PICK K, tree : K = Kept(lower, upper) /\ tree = InSubtree(branch, entity, root)
  OBVIOUS
<1>3. /\ \A k \in db : /\ k \in Seq(Nat) /\ KeyOf(k) \in rows /\ IsAssertion(KeyOf(k))
                       /\ k = EncodeAssertion(KeyOf(k))
      /\ \A r \in rows : /\ IsAssertion(r) /\ EncodeAssertion(r) \in db /\ KeyOf(EncodeAssertion(r)) = r
  BY AssertionRows
<1>4. lower \in Seq(Nat) /\ upper \in Seq(Nat) /\ \A k \in db : k \in K <=> KeyOf(k) \in tree
  BY <1>1, <1>2, TreeKeys
<1>5. K \subseteq db /\ tree \subseteq rows
  BY <1>2 DEF Kept, InSubtree
<1>6. PICK points :
        points = [k \in db |->
                   IF Omitted(KeyOf(k), at, root, depth)
                   THEN SubtreeUpper(branch, entity, Ref(KeyOf(k).prop, root, depth))
                   ELSE AssertionLower([branch |-> branch, entity |-> entity,
                                        prop |-> KeyOf(k).prop, tx |-> MaxUuid])]
  OBVIOUS
<1>7. PICK w : w = SkipScan(lower, upper, points)
  OBVIOUS
<1>8. PICK read : read = {KeyOf(w[i]) : i \in 1 .. Len(w)}
  OBVIOUS
<1>9. ASSUME NEW j \in K, NEW k \in K
      PROVE  /\ points[k] \in Seq(Nat) /\ Before(k, points[k])
             /\ Stands(KeyOf(k), KeyOf(j), at, root, depth) => Before(j, points[k])
             /\ UpTo(k, j) /\ Before(j, points[k]) => Stands(KeyOf(k), KeyOf(j), at, root, depth)
  <2>1. PICK u, v : u = KeyOf(k) /\ v = KeyOf(j)
    OBVIOUS
  <2>2. IsAssertion(u) /\ IsAssertion(v) /\ k = EncodeAssertion(u) /\ j = EncodeAssertion(v)
    BY <1>3, <1>5, <2>1
  <2>3. InTree(u, branch, entity, root) /\ InTree(v, branch, entity, root)
    BY <1>2, <1>4, <1>5, <2>1 DEF InSubtree
  <2>4. points[k] = IF Omitted(u, at, root, depth)
                    THEN SubtreeUpper(branch, entity, Ref(u.prop, root, depth))
                    ELSE LastPoint(u)
    <3>1. u.branch = branch /\ u.entity = entity
      BY <2>3 DEF InTree
    <3> QED BY <1>5, <1>6, <2>1, <3>1 DEF LastPoint
  <2>5. /\ points[k] \in Seq(Nat) /\ Before(k, points[k])
        /\ Stands(u, v, at, root, depth) => Before(j, points[k])
        /\ UpTo(k, j) /\ Before(j, points[k]) => Stands(u, v, at, root, depth)
    BY <2>2, <2>3, <2>4, StandsOf
  <2> QED BY <2>1, <2>5
<1>10. PICK place : Numbers(place, Cardinality(db))
  BY RowsAreRead, NumbersExist
<1>11. Skips(w, points, K)
  <2>1. \A k \in K : points[k] \in Seq(Nat) /\ Before(k, points[k])
    BY <1>9
  <2> QED BY <1>2, <1>4, <1>7, <1>10, <2>1, SkipsOf
<1>12. /\ w \in Seq(K) /\ Len(w) \in Nat
       /\ \A k \in K : \E i \in 1 .. Len(w) : UpTo(w[i], k) /\ Before(k, points[w[i]])
       /\ \A i, j \in 1 .. Len(w) : i < j => UpTo(points[w[i]], w[j])
  BY <1>11 DEF Skips
<1>13. \A i \in 1 .. Len(w) : w[i] \in K
  BY <1>12, ElementOfSeq
<1>14. read \subseteq tree
  BY <1>4, <1>5, <1>8, <1>13
<1>15. ASSUME NEW t \in tree
       PROVE  \E v \in read : /\ UpTo(EncodeAssertion(v), EncodeAssertion(t))
                              /\ Stands(v, t, at, root, depth)
  <2>1. PICK k : k = EncodeAssertion(t)
    OBVIOUS
  <2>2. k \in db /\ KeyOf(k) = t /\ k \in K
    BY <1>3, <1>4, <1>5, <2>1
  <2>3. PICK i \in 1 .. Len(w) : UpTo(w[i], k) /\ Before(k, points[w[i]])
    BY <1>12, <2>2
  <2>4. Stands(KeyOf(w[i]), t, at, root, depth)
    BY <1>9, <1>13, <2>2, <2>3
  <2>5. EncodeAssertion(KeyOf(w[i])) = w[i]
    BY <1>3, <1>5, <1>13
  <2> QED BY <1>8, <2>1, <2>3, <2>4, <2>5
<1>16. ASSUME NEW u \in read, NEW v \in read, UpTo(EncodeAssertion(u), EncodeAssertion(v)), u # v
       PROVE  ~Stands(u, v, at, root, depth)
  <2>1. PICK i \in 1 .. Len(w), j \in 1 .. Len(w) : u = KeyOf(w[i]) /\ v = KeyOf(w[j])
    BY <1>8
  <2>2. /\ w[i] \in K /\ w[j] \in K /\ w[i] \in Seq(Nat) /\ w[j] \in Seq(Nat)
        /\ EncodeAssertion(u) = w[i] /\ EncodeAssertion(v) = w[j]
    BY <1>3, <1>5, <1>13, <2>1
  <2>3. i < j
    <3> SUFFICES ASSUME ~(i < j)
                 PROVE  FALSE
      OBVIOUS
    <3>1. i # j
      BY <1>16, <2>1
    <3>2. j < i
      BY <3>1
    <3>3. UpTo(points[w[j]], w[i]) /\ Before(w[j], points[w[j]]) /\ points[w[j]] \in Seq(Nat)
      BY <1>9, <1>12, <2>2, <3>2
    <3>4. Before(w[j], w[i])
      BY <2>2, <3>3, BeforeTransitive DEF UpTo
    <3>5. ~UpTo(w[i], w[j])
      BY <2>2, <3>4, BeforeOneWay
    <3> QED BY <1>16, <2>2, <3>5
  <2>4. UpTo(points[w[i]], w[j]) /\ points[w[i]] \in Seq(Nat)
    BY <1>9, <1>12, <2>2, <2>3
  <2>5. ~Before(w[j], points[w[i]])
    BY <2>2, <2>4, BeforeOneWay
  <2> QED BY <1>9, <2>1, <2>2, <2>5
<1>17. Reads(read, tree, at, root, depth)
  BY <1>14, <1>15, <1>16 DEF Reads
<1>18. Selection(branch, entity, at, root, depth) = Selected(read, at, root, depth)
  BY <1>1, <1>6, <1>7, <1>8 DEF Selection, Selected, Omitted
<1> QED BY <1>2, <1>17, <1>18

-----------------------------------------------------------------------------
(***************************************************************************)
(* What select answers, made of what it reads.                             *)
(***************************************************************************)

\* v is read for f, the first version of the property of s.
ReadFor(v, f, s, at, root, depth) ==
  /\ f.prop = s.prop /\ f.tx =< s.tx
  /\ UpTo(EncodeAssertion(v), EncodeAssertion(f))
  /\ \/ Omitted(v, at, root, depth) /\ IsPrefix(Ref(v.prop, root, depth), s.prop)
     \/ ~Omitted(v, at, root, depth) /\ v = f

\* The first version of a property is read, or a version of a path before it.
LEMMA FirstIsRead ==
  ASSUME NEW branch, NEW entity, NEW root, NEW depth, NEW at, NEW tree,
         tree = InSubtree(branch, entity, root), \A r \in rows : IsAssertion(r),
         NEW read, Reads(read, tree, at, root, depth), NEW s \in tree
  PROVE  \E f \in tree : \E v \in read : ReadFor(v, f, s, at, root, depth)
<1>1. \A t \in tree : IsAssertion(t) /\ t.branch = branch /\ t.entity = entity
  BY DEF InSubtree, InTree
<1>2. \A t \in tree : t.tx \in Nat
  BY <1>1, NumbersOf DEF IsAssertion
<1>3. PICK T : T = {t.tx : t \in {u \in tree : u.prop = s.prop}}
  OBVIOUS
<1>4. T \in SUBSET Nat /\ T # {}
  BY <1>2, <1>3
<1>5. PICK x \in T : \A y \in T : x =< y
  BY <1>4, LeastNumber
<1>6. PICK f \in tree : f.prop = s.prop /\ f.tx = x
  BY <1>3, <1>5
<1>7. \A t \in tree : t.prop = s.prop => f.tx =< t.tx
  BY <1>3, <1>5, <1>6
<1>8. PICK v \in read : /\ UpTo(EncodeAssertion(v), EncodeAssertion(f))
                        /\ Stands(v, f, at, root, depth)
  BY <1>6 DEF Reads
<1>9. v \in tree
  BY DEF Reads
<1>10. CASE Omitted(v, at, root, depth)
  BY <1>6, <1>7, <1>8, <1>10 DEF Stands, ReadFor
<1>11. CASE ~Omitted(v, at, root, depth)
  <2>1. v.prop = f.prop
    BY <1>8, <1>11 DEF Stands
  <2>2. SameProperty(f, v) /\ IsAssertion(f) /\ IsAssertion(v)
    BY <1>1, <1>6, <1>9, <2>1 DEF SameProperty
  <2>3. PICK a, b : a = EncodeAssertion(f) /\ b = EncodeAssertion(v)
    OBVIOUS
  <2>4. (f.tx < v.tx => Before(a, b)) /\ (f.tx = v.tx => f = v) /\ f.tx \in Nat /\ v.tx \in Nat
    BY <2>2, <2>3, VersionsInOrder
  <2>5. a \in Seq(Nat) /\ b \in Seq(Nat)
    BY <2>2, <2>3, AssertionBytes DEF AreBytesOf
  <2>6. ~Before(a, b)
    BY <1>8, <2>3, <2>5, BeforeOneWay
  <2>7. f.tx =< v.tx
    BY <1>6, <1>7, <1>9, <2>1
  <2>8. f = v
    BY <2>4, <2>6, <2>7
  <2> QED BY <1>6, <1>7, <1>8, <1>11, <2>8 DEF ReadFor
<1> QED BY <1>10, <1>11

\* What is to be selected in a subtree.
Visible(tree, at) == {s \in tree : s.tx =< at}
DeepPaths(tree, at, root, depth) ==
  {s.prop : s \in {x \in Visible(tree, at) : Deep(x.prop, root, depth)}}
RefsOf(tree, at, root, depth) == {Ref(p, root, depth) : p \in DeepPaths(tree, at, root, depth)}
Shallowest(refs) == {p \in refs : \A q \in refs : ~IsStrictPrefix(q, p)}

\* What is read is exact, whatever is skipped.
LEMMA SelectedOf ==
  ASSUME NEW branch, NEW entity, NEW root \in Seq(Names), NEW depth \in Nat, NEW at \in Nat, NEW tree,
         tree = InSubtree(branch, entity, root), \A r \in rows : IsAssertion(r),
         NEW read, Reads(read, tree, at, root, depth)
  PROVE  Selected(read, at, root, depth) =
           [selected |-> {s.prop : s \in Visible(tree, at)} \ DeepPaths(tree, at, root, depth),
            refs |-> Shallowest(RefsOf(tree, at, root, depth))]
<1>1. \A t \in tree : IsAssertion(t) /\ t.branch = branch /\ t.entity = entity
  BY DEF InSubtree, InTree
<1>2. \A t \in tree : t.tx \in Nat /\ IsPath(t.prop) /\ t.prop \in Seq(Names)
  BY <1>1, NumbersOf DEF IsAssertion, IsPath
<1>3. /\ read \subseteq tree
      /\ \A u, v \in read : UpTo(EncodeAssertion(u), EncodeAssertion(v)) /\ u # v
                              => ~Stands(u, v, at, root, depth)
  BY DEF Reads
<1>4. \A t \in tree : EncodeAssertion(t) \in Seq(Nat)
  BY <1>1, AssertionBytes DEF AreBytesOf
<1>5. ASSUME NEW s \in tree, NEW t \in tree, IsStrictPrefix(s.prop, t.prop)
      PROVE  Before(EncodeAssertion(s), EncodeAssertion(t)) /\ ~UpTo(EncodeAssertion(t), EncodeAssertion(s))
  <2>1. PICK x, y : x = EncodeAssertion(s) /\ y = EncodeAssertion(t)
    OBVIOUS
  <2>2. IsAssertion(s) /\ IsAssertion(t) /\ s.branch = t.branch /\ s.entity = t.entity
    BY <1>1
  <2>3. Before(x, y)
    BY <1>5, <2>1, <2>2, PrefixFirst
  <2> QED BY <1>4, <2>1, <2>3, BeforeOneWay
<1>6. ASSUME NEW s \in tree
      PROVE  \E f \in tree : \E v \in read : ReadFor(v, f, s, at, root, depth)
  BY <1>6, FirstIsRead
<1>7. PICK D : D = DeepPaths(tree, at, root, depth)
  OBVIOUS
<1>8. \A s \in tree : s.tx =< at => (s.prop \in D <=> Deep(s.prop, root, depth))
  BY <1>7 DEF DeepPaths, Visible
<1>9. PICK A : A = {k.prop : k \in {r \in read : InSnapshot(r, at) /\ ~Omitted(r, at, root, depth)}}
  OBVIOUS
<1>10. PICK B : B = {s.prop : s \in Visible(tree, at)} \ D
  OBVIOUS
<1>11. A \subseteq B
  <2> SUFFICES ASSUME NEW k \in read, InSnapshot(k, at), ~Omitted(k, at, root, depth)
               PROVE  k.prop \in B
    BY <1>9
  <2>1. k \in tree /\ k.tx =< at /\ ~Deep(k.prop, root, depth)
    BY <1>3 DEF InSnapshot, Omitted
  <2> QED BY <1>8, <1>10, <2>1 DEF Visible
<1>12. B \subseteq A
  <2> SUFFICES ASSUME NEW s \in tree, s.tx =< at, ~Deep(s.prop, root, depth)
               PROVE  s.prop \in A
    BY <1>8, <1>10 DEF Visible
  <2>1. PICK f \in tree, v \in read : ReadFor(v, f, s, at, root, depth)
    BY <1>6
  <2>2. /\ f.prop = s.prop /\ f.tx =< s.tx /\ UpTo(EncodeAssertion(v), EncodeAssertion(f))
        /\ \/ Omitted(v, at, root, depth) /\ IsPrefix(Ref(v.prop, root, depth), s.prop)
           \/ ~Omitted(v, at, root, depth) /\ v = f
    BY <2>1 DEF ReadFor
  <2>3. ~Omitted(v, at, root, depth)
    <3> SUFFICES ASSUME Omitted(v, at, root, depth)
                 PROVE  FALSE
      OBVIOUS
    <3>1. PICK p, q : p = v.prop /\ q = s.prop
      OBVIOUS
    <3>2. Deep(p, root, depth) /\ ~Deep(q, root, depth) /\ IsPath(p) /\ IsPath(q) /\ p \in Seq(Names) /\ q \in Seq(Names)
      BY <1>2, <1>3, <3>1 DEF Omitted
    <3>3. PICK c, r : c = Cut(p, root, depth) /\ r = Ref(p, root, depth)
      OBVIOUS
    <3>4. r \in Seq(Names) /\ IsPrefix(c, r)
      BY <3>2, <3>3, RefOf
    <3>5. c \in Seq(Names)
      BY <3>2, <3>3, CutOf DEF IsCut
    <3>6. IsPrefix(c, q)
      BY <2>2, <3>1, <3>2, <3>3, <3>4, <3>5, PrefixTransitive
    <3>7. IsStrictPrefix(q, p)
      BY <3>2, <3>3, <3>6, CutStops
    <3>8. ~UpTo(EncodeAssertion(v), EncodeAssertion(f))
      BY <1>3, <1>5, <2>2, <3>1, <3>7
    <3> QED BY <2>2, <3>8
  <2>4. v.prop = s.prop /\ v.tx =< s.tx
    BY <2>2, <2>3
  <2>5. InSnapshot(v, at)
    <3>1. v.tx \in Nat /\ s.tx \in Nat
      BY <1>2, <1>3
    <3> QED BY <2>4, <3>1 DEF InSnapshot
  <2> QED BY <1>9, <2>3, <2>4, <2>5
<1>13. PICK R : R = RefsOf(tree, at, root, depth)
  OBVIOUS
<1>14. R = {Ref(p, root, depth) : p \in D}
  BY <1>7, <1>13 DEF RefsOf
<1>15. PICK E : E = {Ref(r.prop, root, depth) : r \in {x \in read : Omitted(x, at, root, depth)}}
  OBVIOUS
<1>16. \A v \in read : Omitted(v, at, root, depth) => v \in tree /\ v.prop \in D /\ Deep(v.prop, root, depth)
                                                   /\ v.tx =< at
  BY <1>3, <1>8 DEF Omitted, InSnapshot
<1>17. E \subseteq R
  BY <1>14, <1>15, <1>16
<1>18. ASSUME NEW s \in tree, s.tx =< at, Deep(s.prop, root, depth)
       PROVE  \E v \in read : /\ Omitted(v, at, root, depth) /\ IsPrefix(Ref(v.prop, root, depth), s.prop)
                              /\ \E f \in tree : f.prop = s.prop /\ UpTo(EncodeAssertion(v), EncodeAssertion(f))
  <2>1. PICK f \in tree, v \in read : ReadFor(v, f, s, at, root, depth)
    BY <1>6
  <2>2. /\ f.prop = s.prop /\ f.tx =< s.tx /\ UpTo(EncodeAssertion(v), EncodeAssertion(f))
        /\ \/ Omitted(v, at, root, depth) /\ IsPrefix(Ref(v.prop, root, depth), s.prop)
           \/ ~Omitted(v, at, root, depth) /\ v = f
    BY <2>1 DEF ReadFor
  <2>3. Omitted(f, at, root, depth)
    <3>1. f.tx =< at
      BY <1>2, <1>18, <2>2
    <3> QED BY <1>18, <2>2, <3>1 DEF Omitted, InSnapshot
  <2>4. Omitted(v, at, root, depth) /\ IsPrefix(Ref(v.prop, root, depth), s.prop)
    BY <2>2, <2>3
  <2> QED BY <2>2, <2>4
<1>19. ASSUME NEW x \in E, NEW y \in R, IsStrictPrefix(y, x)
       PROVE  FALSE
  <2>1. PICK r \in read : Omitted(r, at, root, depth) /\ x = Ref(r.prop, root, depth)
    BY <1>15
  <2>2. PICK s \in tree : s.tx =< at /\ Deep(s.prop, root, depth) /\ y = Ref(s.prop, root, depth)
    BY <1>7, <1>14 DEF DeepPaths, Visible
  <2>3. PICK p, q : p = s.prop /\ q = r.prop
    OBVIOUS
  <2>4. /\ IsPath(p) /\ IsPath(q) /\ p \in Seq(Names) /\ q \in Seq(Names)
        /\ Deep(p, root, depth) /\ Deep(q, root, depth) /\ IsPrefix(y, x) /\ y # x
    BY <1>2, <1>16, <1>19, <2>1, <2>2, <2>3 DEF IsStrictPrefix
  <2>5. PICK c : c = Cut(p, root, depth)
    OBVIOUS
  <2>6. y = p /\ x = q
    <3>1. y = Ref(p, root, depth) /\ x = Ref(q, root, depth)
      BY <2>1, <2>2, <2>3
    <3>2. x = y \/ (y = p /\ x = q)
      BY <2>4, <2>5, <3>1, RefsAgree
    <3> QED BY <2>4, <3>2
  <2>7. PICK v \in read : /\ Omitted(v, at, root, depth) /\ IsPrefix(Ref(v.prop, root, depth), p)
                          /\ \E f \in tree : f.prop = p /\ UpTo(EncodeAssertion(v), EncodeAssertion(f))
    BY <1>18, <2>2, <2>3
  <2>8. PICK f \in tree : f.prop = p /\ UpTo(EncodeAssertion(v), EncodeAssertion(f))
    BY <2>7
  <2>9. /\ Before(EncodeAssertion(f), EncodeAssertion(r)) /\ ~UpTo(EncodeAssertion(r), EncodeAssertion(f))
        /\ v \in tree /\ r \in tree
    BY <1>3, <1>5, <1>19, <2>3, <2>6, <2>8
  <2>10. UpTo(EncodeAssertion(v), EncodeAssertion(r)) /\ v # r
    <3>1. UpTo(EncodeAssertion(f), EncodeAssertion(r))
      BY <2>9 DEF UpTo
    <3>2. UpTo(EncodeAssertion(v), EncodeAssertion(r))
      BY <1>4, <2>8, <2>9, <3>1, UpToTransitive
    <3> QED BY <2>8, <2>9, <3>2
  <2>11. IsPrefix(Ref(v.prop, root, depth), q)
    <3>1. PICK u, a : u = v.prop /\ a = Ref(v.prop, root, depth)
      OBVIOUS
    <3>2. IsPath(u) /\ Deep(u, root, depth)
      BY <1>2, <1>16, <2>7, <3>1
    <3>3. PICK b : b = Cut(u, root, depth)
      OBVIOUS
    <3>4. a \in Seq(Names)
      BY <3>1, <3>2, <3>3, RefOf
    <3>5. IsPrefix(p, q)
      BY <2>4, <2>6
    <3>6. IsPrefix(a, q)
      BY <2>4, <2>7, <3>1, <3>4, <3>5, PrefixTransitive
    <3> QED BY <3>1, <3>6
  <2>12. Stands(v, r, at, root, depth)
    BY <2>3, <2>7, <2>11 DEF Stands
  <2> QED BY <1>3, <2>10, <2>12
<1>20. ASSUME NEW y \in R, \A x \in R : ~IsStrictPrefix(x, y)
       PROVE  y \in E
  <2>1. PICK s \in tree : s.tx =< at /\ Deep(s.prop, root, depth) /\ y = Ref(s.prop, root, depth)
    BY <1>7, <1>14 DEF DeepPaths, Visible
  <2>2. PICK v \in read : Omitted(v, at, root, depth) /\ IsPrefix(Ref(v.prop, root, depth), s.prop)
    BY <1>18, <2>1
  <2>3. PICK p, q : p = v.prop /\ q = s.prop
    OBVIOUS
  <2>4. IsPath(p) /\ IsPath(q) /\ Deep(p, root, depth) /\ Deep(q, root, depth)
    BY <1>2, <1>16, <2>1, <2>2, <2>3
  <2>5. PICK c, x : c = Cut(p, root, depth) /\ x = Ref(p, root, depth)
    OBVIOUS
  <2>6. y = Ref(q, root, depth) /\ IsPrefix(x, q)
    BY <2>1, <2>2, <2>3, <2>5
  <2>7. x = y \/ (x = p /\ y = q)
    BY <2>4, <2>5, <2>6, RefsAgree
  <2>8. x \in E
    BY <1>15, <2>2, <2>3, <2>5
  <2>9. x = y
    <3> SUFFICES ASSUME x # y
                 PROVE  FALSE
      OBVIOUS
    <3>1. IsStrictPrefix(x, y)
      BY <2>6, <2>7 DEF IsStrictPrefix
    <3> QED BY <1>17, <1>20, <2>8, <3>1
  <2> QED BY <2>8, <2>9
<1>21. E = Shallowest(R)
  <2>1. \A x \in E : x \in Shallowest(R)
    BY <1>17, <1>19 DEF Shallowest
  <2>2. \A y \in Shallowest(R) : y \in E
    BY <1>20 DEF Shallowest
  <2> QED BY <2>1, <2>2
<1>22. A = B
  BY <1>11, <1>12
<1>23. Selected(read, at, root, depth) = [selected |-> A, refs |-> E]
  BY <1>9, <1>15 DEF Selected
<1> QED BY <1>7, <1>10, <1>13, <1>21, <1>22, <1>23

\* collect_assertion_txs steps over every version that is not below the depth.
LEMMA HistoryOf ==
  ASSUME DbInv, cf = "assertions", rows # {},
         NEW branch \in Names, NEW entity \in Names, NEW root \in Seq(Names), NEW depth \in Nat,
         NEW at \in Nat, NEW tree, tree = InSubtree(branch, entity, root)
  PROVE  HistoryTxs(branch, entity, at, root, depth) =
           {<<s.tx, s.prop>> : s \in {x \in Visible(tree, at) : x.prop \notin DeepPaths(tree, at, root, depth)}}
<1>1. PICK lower, upper : lower = SubtreeLower(branch, entity, root) /\ upper = SubtreeUpper(branch, entity, root)
  OBVIOUS
<1>2. PICK K : K = Kept(lower, upper)
  OBVIOUS
<1>3. /\ \A k \in db : /\ k \in Seq(Nat) /\ KeyOf(k) \in rows /\ IsAssertion(KeyOf(k))
                       /\ k = EncodeAssertion(KeyOf(k))
      /\ \A r \in rows : /\ IsAssertion(r) /\ EncodeAssertion(r) \in db /\ KeyOf(EncodeAssertion(r)) = r
  BY AssertionRows
<1>4. lower \in Seq(Nat) /\ upper \in Seq(Nat) /\ \A k \in db : k \in K <=> KeyOf(k) \in tree
  BY <1>1, <1>2, TreeKeys
<1>5. K \subseteq db /\ tree \subseteq rows
  BY <1>2 DEF Kept, InSubtree
<1>6. PICK step :
        step = [k \in db |->
                 IF Deep(KeyOf(k).prop, root, depth)
                 THEN Seek(SubtreeUpper(branch, entity, Cut(KeyOf(k).prop, root, depth)))
                 ELSE After(k)]
  OBVIOUS
<1>7. PICK w : w = Walk(Seek(lower), step, lower, upper)
  OBVIOUS
<1>8. PICK read : read = {KeyOf(w[i]) : i \in 1 .. Len(w)}
  OBVIOUS
<1>9. PICK points : points = [k \in db |-> SubtreeUpper(branch, entity, Cut(KeyOf(k).prop, root, depth))]
  OBVIOUS
<1>10. \A s \in tree : /\ IsAssertion(s) /\ IsPath(s.prop) /\ s.prop \in Seq(Names)
                       /\ s.branch = branch /\ s.entity = entity
  BY <1>3, <1>5 DEF IsAssertion, IsPath, InSubtree, InTree
<1>11. ASSUME NEW v \in K, Deep(KeyOf(v).prop, root, depth)
       PROVE  /\ points[v] \in Seq(Nat) /\ Before(v, points[v]) /\ step[v] = Seek(points[v])
              /\ \A k \in K : UpTo(v, k) /\ Before(k, points[v])
                                => IsPrefix(Cut(KeyOf(v).prop, root, depth), KeyOf(k).prop)
  <2>1. PICK t, c : t = KeyOf(v) /\ c = Cut(KeyOf(v).prop, root, depth)
    OBVIOUS
  <2>2. t \in tree /\ IsAssertion(t) /\ v = EncodeAssertion(t) /\ v \in db
    BY <1>3, <1>4, <1>5, <2>1
  <2>3. c \in Seq(Names) /\ IsPrefix(c, t.prop)
    BY <1>10, <1>11, <2>1, <2>2, CutOf DEF IsCut
  <2>4. InTree(t, branch, entity, c)
    BY <1>10, <2>2, <2>3 DEF InTree
  <2>5. PICK a, b : a = SubtreeLower(branch, entity, c) /\ b = SubtreeUpper(branch, entity, c)
    OBVIOUS
  <2>6. points[v] = b /\ step[v] = Seek(b)
    BY <1>6, <1>9, <1>11, <2>1, <2>2, <2>5
  <2>7. b \in Seq(Nat) /\ Before(v, b)
    BY <2>2, <2>3, <2>4, <2>5, SubtreeKeys
  <2>8. ASSUME NEW k \in K, UpTo(v, k), Before(k, b)
        PROVE  IsPrefix(c, KeyOf(k).prop)
    <3>1. PICK s : s = KeyOf(k)
      OBVIOUS
    <3>2. IsAssertion(s) /\ k = EncodeAssertion(s)
      BY <1>3, <1>5, <3>1
    <3>3. InTree(s, branch, entity, c)
      BY <2>2, <2>3, <2>4, <2>5, <2>8, <3>2, StaysInTree
    <3> QED BY <3>1, <3>3 DEF InTree
  <2> QED BY <2>1, <2>6, <2>7, <2>8
<1>12. PICK n : n = Cardinality(db)
  OBVIOUS
<1>13. PICK place : Numbers(place, n)
  BY <1>12, RowsAreRead, NumbersExist
<1>14. ASSUME NEW k \in K
       PROVE  /\ step[k] \subseteq db /\ \A i, j \in step[k] : i = j
              /\ \A j \in step[k] : Before(k, j)
  <2>1. k \in db
    BY <1>5
  <2>2. CASE ~Deep(KeyOf(k).prop, root, depth)
    <3>1. IsFirst(After(k), Following(k), place) /\ step[k] = After(k)
      BY <1>6, <1>13, <2>1, <2>2, StepsOf
    <3> QED BY <3>1 DEF IsFirst, Following
  <2>3. CASE Deep(KeyOf(k).prop, root, depth)
    <3>1. points[k] \in Seq(Nat) /\ Before(k, points[k]) /\ step[k] = Seek(points[k])
      BY <1>11, <2>3
    <3>2. IsFirst(step[k], NotBefore(points[k]), place)
      BY <1>13, <3>1, StepsOf
    <3>3. \A j \in step[k] : j \in db /\ UpTo(points[k], j)
      BY <3>2 DEF IsFirst, NotBefore
    <3>4. \A j \in step[k] : Before(k, j)
      <4> SUFFICES ASSUME NEW j \in step[k]
                   PROVE  Before(k, j)
        OBVIOUS
      <4>1. /\ j \in Seq(Nat) /\ k \in Seq(Nat) /\ points[k] \in Seq(Nat)
            /\ Before(k, points[k]) /\ UpTo(points[k], j)
        BY <1>3, <2>1, <3>1, <3>3
      <4> QED BY <4>1, BeforeTransitive DEF UpTo
    <3> QED BY <3>2, <3>3, <3>4 DEF IsFirst
  <2> QED BY <2>2, <2>3
<1>15. /\ IsWhole(w, Seek(lower), step, K, place) /\ Proceeds(Seek(lower), step, K, place, n)
       /\ \A k \in K : \E i \in 1 .. Len(w) : UpTo(w[i], k) /\ Short(k, step[w[i]], K, place)
  <2>1. \A k \in Kept(lower, upper) :
          /\ step[k] \subseteq db /\ \A i, j \in step[k] : i = j
          /\ \A j \in step[k] : Before(k, j)
    BY <1>2, <1>14
  <2>2. lower \in Seq(Nat) /\ upper \in Seq(Nat)
    BY <1>4
  <2>3. PICK W : W = Walk(Seek(lower), step, lower, upper)
    OBVIOUS
  <2>4. /\ IsWhole(W, Seek(lower), step, Kept(lower, upper), place)
        /\ Proceeds(Seek(lower), step, Kept(lower, upper), place, n)
        /\ \A k \in Kept(lower, upper) :
             \E i \in 1 .. Len(W) : UpTo(W[i], k) /\ Short(k, step[W[i]], Kept(lower, upper), place)
    BY <1>13, <2>1, <2>2, <2>3, SeekingWalk
  <2>5. W = w
    BY <1>7, <2>3
  <2> QED BY <1>2, <2>4, <2>5
<1>16. \A i \in 1 .. Len(w) : w[i] \in K
  <2>1. K \in SUBSET db /\ IsWalk(w, Seek(lower), step, K, place)
    BY <1>5, <1>15 DEF IsWhole
  <2> QED BY <1>15, <2>1, WalkRoom
<1>17. read \subseteq tree
  BY <1>4, <1>5, <1>8, <1>16
<1>18. ASSUME NEW s \in tree, ~Deep(s.prop, root, depth)
       PROVE  s \in read
  <2>1. PICK k : k = EncodeAssertion(s)
    OBVIOUS
  <2>2. k \in db /\ KeyOf(k) = s /\ k \in K /\ k \in Seq(Nat)
    BY <1>3, <1>4, <1>5, <2>1
  <2>3. PICK i \in 1 .. Len(w) : UpTo(w[i], k) /\ Short(k, step[w[i]], K, place)
    BY <1>15, <2>2
  <2>4. PICK v : v = w[i]
    OBVIOUS
  <2>5. v \in K /\ v \in db /\ v \in Seq(Nat) /\ UpTo(v, k) /\ Short(k, step[v], K, place)
    BY <1>3, <1>5, <1>16, <2>3, <2>4
  <2>6. ~Deep(KeyOf(v).prop, root, depth)
    <3> SUFFICES ASSUME Deep(KeyOf(v).prop, root, depth)
                 PROVE  FALSE
      OBVIOUS
    <3>1. PICK t : t = KeyOf(v)
      OBVIOUS
    <3>2. t \in tree /\ IsAssertion(t) /\ v = EncodeAssertion(t)
      BY <1>3, <1>4, <2>5, <3>1
    <3>3. step[v] = Seek(points[v]) /\ points[v] \in Seq(Nat) /\ Before(v, points[v])
      BY <1>11, <2>5
    <3>4. Before(k, points[v])
      BY <1>2, <1>4, <1>13, <2>2, <2>5, <3>3, ShortOfPoint
    <3>5. IsPrefix(Cut(t.prop, root, depth), s.prop)
      BY <1>11, <2>2, <2>5, <3>1, <3>4
    <3>6. PICK p, q : p = t.prop /\ q = s.prop
      OBVIOUS
    <3>7. IsStrictPrefix(q, p)
      BY <1>10, <1>18, <3>1, <3>2, <3>5, <3>6, CutStops
    <3>8. IsAssertion(s) /\ s.branch = t.branch /\ s.entity = t.entity
      BY <1>10, <3>2
    <3>9. Before(k, v)
      BY <2>1, <3>2, <3>6, <3>7, <3>8, PrefixFirst
    <3> QED BY <2>2, <2>5, <3>9, BeforeOneWay
  <2>7. step[v] = After(v)
    BY <1>6, <2>5, <2>6
  <2>8. k = v
    BY <1>2, <1>4, <1>13, <2>2, <2>5, <2>7, ShortOfNext
  <2> QED BY <1>8, <2>2, <2>4, <2>8
<1>19. \A s \in tree : s.tx =< at => (s.prop \in DeepPaths(tree, at, root, depth) <=> Deep(s.prop, root, depth))
  BY DEF DeepPaths, Visible
<1>20. {r \in read : ~Deep(r.prop, root, depth) /\ r.tx =< at} =
         {x \in Visible(tree, at) : x.prop \notin DeepPaths(tree, at, root, depth)}
  BY <1>17, <1>18, <1>19 DEF Visible
<1>21. HistoryTxs(branch, entity, at, root, depth) =
         {<<k.tx, k.prop>> : k \in {r \in read : ~Deep(r.prop, root, depth) /\ r.tx =< at}}
  BY <1>1, <1>6, <1>7, <1>8 DEF HistoryTxs
<1> QED BY <1>20, <1>21

\* In a store that holds the encodings of its rows, reads of subtrees are exact.
LEMMA SelectionIs == DbInv => SelectionIsExact
<1> SUFFICES ASSUME DbInv, cf = "assertions"
             PROVE  SelectionIsExact
  BY DEF SelectionIsExact
<1>1. ASSUME NEW b \in Branches, NEW e \in Owners, NEW props, props = DiscoveredProps(b, e)
      PROVE  /\ IsInjective(props)
             /\ ToSet(props) = {r.prop : r \in {s \in rows : s.branch = b /\ s.entity = e}}
  BY <1>1, DiscoveredOf
<1>2. ASSUME NEW r \in Ranges, NEW at \in Txs, NEW depth \in Depths
      PROVE  LET root == r.root
                 below == {s \in rows : /\ s.branch = r.branch /\ s.entity = r.entity
                                        /\ IsPrefix(root, s.prop) /\ s.tx =< at}
                 deep == {s.prop : s \in {x \in below : Deep(x.prop, root, depth)}}
                 refs == {Ref(p, root, depth) : p \in deep}
             IN  /\ Selection(r.branch, r.entity, at, root, depth) =
                      [selected |-> {s.prop : s \in below} \ deep,
                       refs |-> {p \in refs : \A q \in refs : ~IsStrictPrefix(q, p)}]
                 /\ HistoryTxs(r.branch, r.entity, at, root, depth) =
                      {<<s.tx, s.prop>> : s \in {x \in below : x.prop \notin deep}}
  <2> DEFINE root == r.root
             below == {s \in rows : /\ s.branch = r.branch /\ s.entity = r.entity
                                    /\ IsPrefix(root, s.prop) /\ s.tx =< at}
             deep == {s.prop : s \in {x \in below : Deep(x.prop, root, depth)}}
             refs == {Ref(p, root, depth) : p \in deep}
  <2> SUFFICES /\ Selection(r.branch, r.entity, at, root, depth) =
                    [selected |-> {s.prop : s \in below} \ deep,
                     refs |-> {p \in refs : \A q \in refs : ~IsStrictPrefix(q, p)}]
               /\ HistoryTxs(r.branch, r.entity, at, root, depth) =
                    {<<s.tx, s.prop>> : s \in {x \in below : x.prop \notin deep}}
    OBVIOUS
  <2>1. PICK o \in rows, m \in Nat :
          m =< Len(o.prop) /\ r = [branch |-> o.branch, entity |-> o.entity, root |-> SubSeq(o.prop, 1, m)]
    <3>1. PICK o \in rows : \E m \in 0 .. Len(o.prop) :
            r = [branch |-> o.branch, entity |-> o.entity, root |-> SubSeq(o.prop, 1, m)]
      BY <1>2 DEF Ranges
    <3>2. IsAssertion(o)
      BY AssertionRows
    <3>3. Len(o.prop) \in Nat
      BY <3>2 DEF IsAssertion
    <3> QED BY <3>1, <3>3
  <2>2. \A x \in rows : IsAssertion(x)
    BY AssertionRows
  <2>3. PICK branch, entity : branch = r.branch /\ entity = r.entity
    OBVIOUS
  <2>4. branch \in Names /\ entity \in Names
    BY <2>1, <2>2, <2>3 DEF IsAssertion
  <2>5. root \in Seq(Names)
    <3>1. o.prop \in Seq(Names) /\ root = SubSeq(o.prop, 1, m)
      BY <1>2, <2>1, <2>2 DEF IsAssertion
    <3> QED BY <2>1, <3>1
  <2>6. depth \in Nat /\ at \in Nat /\ rows # {}
    BY <1>2, <2>1, TerraDbAssumption, NumbersOf DEF Depths
  <2>7. PICK tree : tree = InSubtree(branch, entity, root)
    OBVIOUS
  <2>8. below = Visible(tree, at)
    BY <2>3, <2>7 DEF Visible, InSubtree, InTree
  <2>9. deep = DeepPaths(tree, at, root, depth)
    <3> HIDE DEF below, root
    <3> QED BY <2>8 DEF DeepPaths
  <2>10. refs = RefsOf(tree, at, root, depth)
    <3> HIDE DEF deep, root
    <3> QED BY <2>9 DEF RefsOf
  <2> HIDE DEF root, below, deep, refs
  <2>11. PICK read : /\ Reads(read, tree, at, root, depth)
                     /\ Selection(branch, entity, at, root, depth) = Selected(read, at, root, depth)
    BY <2>4, <2>5, <2>6, <2>7, SelectionReads
  <2>12. Selected(read, at, root, depth) =
           [selected |-> {s.prop : s \in Visible(tree, at)} \ DeepPaths(tree, at, root, depth),
            refs |-> Shallowest(RefsOf(tree, at, root, depth))]
    BY <2>2, <2>5, <2>6, <2>7, <2>11, SelectedOf
  <2>13. HistoryTxs(branch, entity, at, root, depth) =
           {<<s.tx, s.prop>> : s \in {x \in Visible(tree, at) : x.prop \notin DeepPaths(tree, at, root, depth)}}
    BY <2>4, <2>5, <2>6, <2>7, HistoryOf
  <2>14. Shallowest(refs) = {p \in refs : \A q \in refs : ~IsStrictPrefix(q, p)}
    BY DEF Shallowest
  <2> QED BY <2>3, <2>8, <2>9, <2>10, <2>11, <2>12, <2>13, <2>14
<1>3. \A b \in Branches, e \in Owners :
        LET props == DiscoveredProps(b, e)
        IN  /\ IsInjective(props)
            /\ ToSet(props) = {r.prop : r \in {s \in rows : s.branch = b /\ s.entity = e}}
  BY <1>1
<1> QED BY <1>2, <1>3 DEF SelectionIsExact

\* The reads of a subtree to a depth are exact in every store: for hashes that do
\* not collide, any number of versions, and any names that a slug may hold but not
\* end with (select, discover_props, collect_assertion_txs).
THEOREM SelectionIsExactHolds == Spec => []SelectionIsExact
BY DbHolds, SelectionIs, PTL

-----------------------------------------------------------------------------
(***************************************************************************)
(* The formats: the invariant names the version a family is stamped with,  *)
(* the one of its marker, or the legacy version while it has none.         *)
(***************************************************************************)

Stamp(f) == IF marker[f] = Unmarked THEN Legacy ELSE marker[f]

FormatTypeOK ==
  /\ families \subseteq Families
  /\ marker \in [Families -> Versions \cup {Unmarked}]
  /\ encoded \in [Families -> SUBSET Versions]
  /\ opening \subseteq Programs
  /\ writer \subseteq Programs
  /\ reader \subseteq [program : Programs, rows : [Families -> SUBSET Versions]]

OneWriter == opening = Nobody \/ writer = Nobody

RowsAreStamped == \A f \in Families : encoded[f] \subseteq {Stamp(f)}

WriterIsStamped == \A p \in writer : \A f \in DOMAIN p : p[f] = Stamp(f)

\* Whoever has opened the directory has named every family there is.
AllAreNamed == \A p \in opening \cup writer : families \subseteq DOMAIN p

ReadersDecode ==
  \A r \in reader : \A f \in DOMAIN r.program : r.rows[f] \subseteq {r.program[f]}

FormatInv ==
  FormatTypeOK /\ OneWriter /\ RowsAreStamped /\ WriterIsStamped /\ AllAreNamed /\ ReadersDecode

-----------------------------------------------------------------------------
(***************************************************************************)
(* Lemmas                                                                  *)
(***************************************************************************)
\* A release has a version for each of its families (terra_db.rs: formats).
LEMMA ProgramType ==
  ASSUME NEW p \in Programs
  PROVE  /\ DOMAIN p \subseteq Families
         /\ \A f \in DOMAIN p : p[f] \in Versions /\ p[f] # Unmarked
BY TerraFormatsAssumption DEF Unmarked

\* A compatible writer that finds no rows of another stamp leaves, with the
\* markers it writes, every family stamped with its own version, and every
\* row stamped as it was (validate_formats).
LEMMA MarkedStamps ==
  ASSUME NEW p \in Programs, FormatTypeOK, RowsAreStamped, Compatible(p, FALSE),
         marker' = Marked(p), UNCHANGED encoded
  PROVE  /\ marker' \in [Families -> Versions \cup {Unmarked}]
         /\ \A f \in DOMAIN p : p[f] = Stamp(f)'
         /\ \A f \in Families : encoded'[f] \subseteq {Stamp(f)'}
<1>1. /\ DOMAIN p \subseteq Families
      /\ \A f \in DOMAIN p : p[f] \in Versions /\ p[f] # Unmarked
  BY ProgramType
<1>2. \A f \in Families :
        marker'[f] = IF f \in DOMAIN p /\ marker[f] = Unmarked /\ p[f] # Legacy
                     THEN p[f] ELSE marker[f]
  BY DEF Marked
<1>3. marker' \in [Families -> Versions \cup {Unmarked}]
  BY <1>1 DEF Marked, FormatTypeOK
<1>4. ASSUME NEW f \in DOMAIN p
      PROVE  p[f] = Stamp(f)'
  <2>1. CASE marker[f] = Unmarked
    BY <2>1, <1>1, <1>2 DEF Stamp, Unmarked, Legacy
  <2>2. CASE marker[f] # Unmarked
    BY <2>2, <1>1, <1>2 DEF Stamp, Compatible
  <2> QED BY <2>1, <2>2
<1>5. ASSUME NEW f \in Families
      PROVE  encoded'[f] \subseteq {Stamp(f)'}
  <2>1. CASE f \in DOMAIN p /\ marker[f] = Unmarked /\ p[f] # Legacy
    BY <2>1 DEF Compatible, Initialisable
  <2>2. CASE ~(f \in DOMAIN p /\ marker[f] = Unmarked /\ p[f] # Legacy)
    BY <2>2, <1>2 DEF Stamp, RowsAreStamped
  <2> QED BY <2>1, <2>2
<1> QED BY <1>3, <1>4, <1>5

\* A reader may only open what has its version, marked or legacy: there is no
\* family it would have to initialise (validate_formats, read_only).
LEMMA ReadersMatch ==
  ASSUME NEW p \in Programs, Compatible(p, TRUE), NEW f \in DOMAIN p
  PROVE  p[f] = Stamp(f)
BY DEF Compatible, Initialisable, Stamp

-----------------------------------------------------------------------------
(***************************************************************************)
(* The invariant is inductive.                                             *)
(***************************************************************************)

\* A store with no rows and no open program satisfies the invariant.
LEMMA FormatInitInvariant == FormatInit => FormatInv
BY DEF FormatInit, FormatInv, FormatTypeOK, OneWriter, RowsAreStamped, WriterIsStamped, AllAreNamed,
       ReadersDecode, Nobody, Unmarked

\* Opening for writing leaves the rows alone.
LEMMA OpenPreserves ==
  ASSUME FormatInv, NEW p \in Programs, Open(p)
  PROVE  FormatInv'
<1>1. DOMAIN p \subseteq Families
  BY ProgramType
<1> QED
  BY <1>1 DEF FormatInv, Open, FormatTypeOK, OneWriter, RowsAreStamped, WriterIsStamped, AllAreNamed,
              ReadersDecode, Nobody, Stamp

\* A validated writer has marked every family it names with its own version.
LEMMA ValidatePreserves ==
  ASSUME FormatInv, NEW p \in Programs, Validate(p)
  PROVE  FormatInv'
<1>1. /\ marker' \in [Families -> Versions \cup {Unmarked}]
      /\ \A f \in DOMAIN p : p[f] = Stamp(f)'
      /\ \A f \in Families : encoded'[f] \subseteq {Stamp(f)'}
  BY MarkedStamps DEF FormatInv, Validate
<1>2. FormatTypeOK' /\ RowsAreStamped' /\ WriterIsStamped'
  BY <1>1 DEF FormatInv, Validate, FormatTypeOK, RowsAreStamped, WriterIsStamped, Nobody
<1>3. OneWriter' /\ AllAreNamed' /\ ReadersDecode'
  BY DEF FormatInv, Validate, OneWriter, AllAreNamed, ReadersDecode, Nobody
<1> QED BY <1>2, <1>3 DEF FormatInv

\* A refused program leaves nothing behind.
LEMMA RefusePreserves ==
  ASSUME FormatInv, NEW p \in Programs, Refuse(p)
  PROVE  FormatInv'
BY DEF FormatInv, Refuse, FormatTypeOK, OneWriter, RowsAreStamped, WriterIsStamped, AllAreNamed,
       ReadersDecode, Nobody, Stamp

\* A reader is admitted only when it decodes every row there is.
LEMMA OpenReadOnlyPreserves ==
  ASSUME FormatInv, NEW p \in Programs, OpenReadOnly(p)
  PROVE  FormatInv'
<1>1. DOMAIN p \subseteq Families
  BY ProgramType
<1>2. ReadersDecode'
  <2>1. \A f \in DOMAIN p : encoded[f] \subseteq {p[f]}
    BY <1>1, ReadersMatch DEF OpenReadOnly, FormatInv, RowsAreStamped
  <2> QED BY <2>1 DEF OpenReadOnly, ReadersDecode
<1>3. FormatTypeOK'
  BY DEF FormatInv, OpenReadOnly, FormatTypeOK
<1>4. OneWriter' /\ RowsAreStamped' /\ WriterIsStamped' /\ AllAreNamed'
  BY DEF FormatInv, OpenReadOnly, OneWriter, RowsAreStamped, WriterIsStamped, AllAreNamed, Stamp
<1> QED BY <1>2, <1>3, <1>4 DEF FormatInv

\* A row is written in the version of its family's marker.
LEMMA PutPreserves ==
  ASSUME FormatInv, NEW f \in Families, Put(f)
  PROVE  FormatInv'
<1>1. PICK p \in writer : f \in DOMAIN p /\ encoded' = [encoded EXCEPT ![f] = @ \cup {p[f]}]
  BY DEF Put
<1>2. p \in Programs /\ p[f] \in Versions
  BY <1>1, ProgramType DEF FormatInv, FormatTypeOK
<1>3. p[f] = Stamp(f)
  BY <1>1 DEF FormatInv, WriterIsStamped
<1>4. FormatTypeOK'
  BY <1>1, <1>2 DEF FormatInv, Put, FormatTypeOK
<1>5. RowsAreStamped'
  BY <1>1, <1>3 DEF FormatInv, Put, FormatTypeOK, RowsAreStamped, Stamp
<1>6. OneWriter' /\ WriterIsStamped' /\ AllAreNamed' /\ ReadersDecode'
  BY DEF FormatInv, Put, OneWriter, WriterIsStamped, AllAreNamed, ReadersDecode, Stamp
<1> QED BY <1>4, <1>5, <1>6 DEF FormatInv

\* Clearing a family leaves no row of another version.
LEMMA ClearPreserves ==
  ASSUME FormatInv, NEW f \in Families, Clear(f)
  PROVE  FormatInv'
BY DEF FormatInv, Clear, FormatTypeOK, OneWriter, RowsAreStamped, WriterIsStamped, AllAreNamed,
       ReadersDecode, Stamp

\* Closing a program leaves the rows alone.
LEMMA StopPreserves ==
  ASSUME FormatInv, Stop \/ StopReader
  PROVE  FormatInv'
BY DEF FormatInv, Stop, StopReader, FormatTypeOK, OneWriter, RowsAreStamped, WriterIsStamped,
       AllAreNamed, ReadersDecode, Nobody, Stamp

\* Every step keeps the invariant.
LEMMA FormatNextPreserves == FormatInv /\ [FormatNext]_formatVars => FormatInv'
<1> SUFFICES ASSUME FormatInv, [FormatNext]_formatVars PROVE FormatInv'
  OBVIOUS
<1>1. CASE \E p \in Programs : Open(p) \/ Validate(p) \/ Refuse(p) \/ OpenReadOnly(p)
  BY <1>1, OpenPreserves, ValidatePreserves, RefusePreserves, OpenReadOnlyPreserves
<1>2. CASE \E f \in Families : Put(f) \/ Clear(f)
  BY <1>2, PutPreserves, ClearPreserves
<1>3. CASE Stop \/ StopReader
  BY <1>3, StopPreserves
<1>4. CASE UNCHANGED formatVars
  BY <1>4 DEF formatVars, FormatInv, FormatTypeOK, OneWriter, RowsAreStamped, WriterIsStamped, AllAreNamed,
              ReadersDecode, Stamp
<1> QED BY <1>1, <1>2, <1>3, <1>4 DEF FormatNext

\* The invariant holds throughout (terra_db.rs: open_internal, validate_formats).
THEOREM FormatInvariant == FormatSpec => []FormatInv
BY FormatInitInvariant, FormatNextPreserves, PTL DEF FormatSpec

-----------------------------------------------------------------------------
\* A program that writes, or reads, only ever sees rows of its own version,
\* whatever releases came before it and wherever they stopped.
THEOREM DecodesItsOwnHolds == FormatSpec => []DecodesItsOwn
<1>1. FormatInv => DecodesItsOwn
  <2> SUFFICES ASSUME FormatInv PROVE DecodesItsOwn
    OBVIOUS
  <2>1. ASSUME NEW p \in writer, NEW f \in DOMAIN p
        PROVE  encoded[f] \subseteq {p[f]}
    <3>1. f \in Families
      BY ProgramType DEF FormatInv, FormatTypeOK
    <3> QED BY <3>1 DEF FormatInv, RowsAreStamped, WriterIsStamped
  <2> QED BY <2>1 DEF FormatInv, ReadersDecode, DecodesItsOwn
<1> QED BY <1>1, FormatInvariant, PTL

\* Whoever had the store open for writing can open it again after it stops:
\* its families are all there are, and each is stamped with its version.
THEOREM StoppedStoresReopenHolds == FormatSpec => StoppedStoresReopen
<1> DEFINE Reopening == \A p \in writer : writer' = Nobody => Reopens(p)'
<1>1. FormatInv /\ FormatInv' /\ [FormatNext]_formatVars => [Reopening]_formatVars
  <2> SUFFICES ASSUME FormatInv, FormatInv', [FormatNext]_formatVars,
                      NEW p \in writer, writer' = Nobody
               PROVE  Reopens(p)'
    OBVIOUS
  <2>1. UNCHANGED <<families, marker, encoded>>
    <3>1. writer # Nobody /\ opening = Nobody
      BY DEF FormatInv, OneWriter, Nobody
    <3> QED
      BY <3>1 DEF FormatNext, formatVars, Open, Validate, Refuse, OpenReadOnly, Put, Clear, Stop,
                  StopReader, Nobody
  <2>2. families \subseteq DOMAIN p
    BY DEF FormatInv, AllAreNamed
  <2>3. \A f \in DOMAIN p : p[f] = Stamp(f)
    BY DEF FormatInv, WriterIsStamped
  <2> QED
    BY <2>1, <2>2, <2>3 DEF Reopens, Compatible, Initialisable, Stamp
<1> QED BY <1>1, FormatInvariant, PTL DEF FormatSpec, StoppedStoresReopen
=============================================================================
