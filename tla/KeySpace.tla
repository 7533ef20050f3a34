------------------------------ MODULE KeySpace ------------------------------
(***************************************************************************)
(* The keys of the store (io/storage_key.rs, io/key_prefix.rs, io/slug.rs, *)
(* store/versioned_key.rs, store/entry/assertion_key.rs). A key is encoded *)
(* to bytes that RocksDB orders lexicographically; every read is a range   *)
(* of these bytes.                                                         *)
(*                                                                         *)
(* A slug hash, a UUID and a marker byte are one token each: where two     *)
(* keys of a family agree on every token so far, the next token of both    *)
(* has the same width, so the order of token sequences is the order of the *)
(* bytes. A name is a number; its hash is another, in no relation to it,   *)
(* and no two names share one.                                             *)
(***************************************************************************)
EXTENDS Integers, FiniteSets, Sequences

CONSTANTS
  Names,     \* texts of branches, entities, types, items, path segments
  Hash,      \* Slug::hash: the hash of each name
  Uuids,     \* transaction ids and block ids
  MaxSlug,   \* the name that stands for the end of all names
  MaxUuid,   \* the greatest UUID: the bytes of its hash, and no id
  Half       \* an i64 is from -Half up to Half - 1: 2^63

ASSUME KeySpaceAssumption ==
  /\ MaxSlug \in Nat /\ MaxUuid \in Nat /\ Half \in Nat \ {0}
  /\ Names \subseteq 1 .. MaxSlug - 1
  /\ Uuids \subseteq 1 .. MaxUuid - 1
  /\ Hash \in [Names -> 1 .. MaxUuid - 1]
  /\ \A m, n \in Names : Hash[m] = Hash[n] => m = n

-----------------------------------------------------------------------------
(***************************************************************************)
(* Fields and their sentinels: the nil key and the max key of a family are *)
(* the ends of its range.                                                  *)
(***************************************************************************)
NilUuid == 0
MinSlug == 0
MinI64 == -Half
MaxI64 == Half - 1

Nil(kind) == CASE kind = "slug" -> MinSlug
               [] kind = "uuid" -> NilUuid
               [] kind = "i64"  -> MinI64

Top(kind) == CASE kind = "slug" -> MaxSlug
               [] kind = "uuid" -> MaxUuid
               [] kind = "i64"  -> MaxI64

HashOf(name) == CASE name = MinSlug -> NilUuid
                  [] name = MaxSlug -> MaxUuid
                  [] OTHER          -> Hash[name]

\* to_be_bytes: two's complement, so a negative number follows all others.
EncodeField(kind, v) ==
  CASE kind = "slug" -> HashOf(v)
    [] kind = "uuid" -> v
    [] kind = "i64"  -> v % (2 * Half)

-----------------------------------------------------------------------------
(***************************************************************************)
(* Column families. A versioned key is branch | middle | tx.               *)
(***************************************************************************)
Versioned(middle) == <<"slug">> \o middle \o <<"uuid">>

EntityKey == Versioned(<<"slug">>)
EmbeddingKey == Versioned(<<"slug">>)
ManagedKey == Versioned(<<"slug", "slug">>)
BranchKey == <<"slug">>
TransactionKey == <<"slug", "uuid">>
TouchedKey == <<"slug", "uuid", "slug">>
EntityChangeKey == <<"uuid">>
TransactionLogKey == <<"uuid">>
ChildKey == <<"uuid", "i64", "uuid">>
ChildVersionKey == <<"uuid", "uuid", "uuid">>
VersionKey == <<"uuid", "uuid">>

\* The families of fixed size; the keys of assertions have a path.
Layout == [entities |-> EntityKey, embeddings |-> EmbeddingKey,
           managed |-> ManagedKey, branches |-> BranchKey,
           transactions |-> TransactionKey, touched |-> TouchedKey,
           changes |-> EntityChangeKey, logs |-> TransactionLogKey,
           children |-> ChildKey, memberships |-> ChildVersionKey,
           versions |-> VersionKey]

Fixed == DOMAIN Layout

-----------------------------------------------------------------------------
(***************************************************************************)
(* Encoding: the fields, a separator, then the names of the slugs. A bound *)
(* has no names: one separator sorts before every name, the other after.   *)
(***************************************************************************)
Separator == 0
SeparatorUpper == 1

EncodeFixed(f, key) ==
  [i \in 1 .. Len(Layout[f]) |-> EncodeField(Layout[f][i], key[i])]

Slugs(f) == {i \in 1 .. Len(Layout[f]) : Layout[f][i] = "slug"}

\* The place of a name among the names.
Place(f, i) == Cardinality({j \in Slugs(f) : j =< i})

\* The names follow in the order of the fields.
Suffix(f, key) ==
  [n \in 1 .. Cardinality(Slugs(f)) |-> key[CHOOSE i \in Slugs(f) : Place(f, i) = n]]

Encode(f, key) == EncodeFixed(f, key) \o <<Separator>> \o Suffix(f, key)

\* A hash is skipped: the name is read from the suffix.
Decode(f, bytes) ==
  LET size == Len(Layout[f])
  IN  [i \in 1 .. size |->
        IF i \in Slugs(f) THEN bytes[size + 1 + Place(f, i)]
        ELSE IF Layout[f][i] = "i64" /\ bytes[i] > MaxI64 THEN bytes[i] - 2 * Half
        ELSE bytes[i]]

-----------------------------------------------------------------------------
(***************************************************************************)
(* Assertions: branch | entity | (1 | segment)* | 0 | tx. A path that ends *)
(* sorts before the paths it is a prefix of; marker 2 follows them all.    *)
(***************************************************************************)
PathEnd == 0
Child == 1
AfterChildren == 2
PastPaths == 255

NoPath == <<MinSlug>>
LastPath == <<MaxSlug>>

PathBytes(path) ==
  [i \in 1 .. 2 * Len(path) |-> IF i % 2 = 1 THEN Child ELSE Hash[path[i \div 2]]]

EncodeAddress(key) ==
  <<HashOf(key.branch), HashOf(key.entity)>>
  \o (CASE key.prop = LastPath -> <<PastPaths>>
        [] key.prop = NoPath -> <<PathEnd>>
        [] OTHER -> Append(PathBytes(key.prop), PathEnd))
  \o <<key.tx>>

EncodeAssertion(key) ==
  EncodeAddress(key) \o <<Separator, key.branch, key.entity, Len(key.prop)>> \o key.prop

Malformed == [branch |-> MinSlug, entity |-> MinSlug, prop |-> NoPath, tx |-> NilUuid]

\* The path ends at the first marker that begins no segment; the number of
\* segments before it is compared with the path named in the suffix.
DecodeAssertion(bytes) ==
  LET stops == {p \in 3 .. Len(bytes) : p % 2 = 1 /\ bytes[p] # Child}
      end == CHOOSE p \in stops : \A q \in stops : p =< q
      named == end + 2
      path == SubSeq(bytes, named + 4, Len(bytes))
  IN  IF \/ stops = {}
         \/ bytes[end] # PathEnd \/ end < 5 \/ named + 4 > Len(bytes)
         \/ bytes[named] # Separator \/ Len(path) # (end - 3) \div 2
      THEN Malformed
      ELSE [branch |-> bytes[named + 1], entity |-> bytes[named + 2],
            prop |-> path, tx |-> bytes[end + 1]]

-----------------------------------------------------------------------------
(***************************************************************************)
(* Ranges. A KeyBound starts as nil .. max and some fields of its ends are *)
(* set: lo and hi map the number of a field to its value.                  *)
(***************************************************************************)
Before(a, b) ==
  \E i \in 1 .. Len(b) :
    /\ i =< Len(a) + 1
    /\ \A j \in 1 .. i - 1 : a[j] = b[j]
    /\ i =< Len(a) => a[i] < b[i]

UpTo(a, b) == a = b \/ Before(a, b)

With(f, ends, set) ==
  [i \in 1 .. Len(Layout[f]) |-> IF i \in DOMAIN set THEN set[i] ELSE ends[i]]

LowerBound(f, lo) ==
  EncodeFixed(f, With(f, [i \in 1 .. Len(Layout[f]) |-> Nil(Layout[f][i])], lo))
  \o <<Separator>>

\* Mutant: the upper end is the address itself, which sorts before its rows.
UpperBare(f, hi) ==
  EncodeFixed(f, With(f, [i \in 1 .. Len(Layout[f]) |-> Top(Layout[f][i])], hi))
  \o <<Separator>>

UpperBound(f, hi) ==
  EncodeFixed(f, With(f, [i \in 1 .. Len(Layout[f]) |-> Top(Layout[f][i])], hi))
  \o <<SeparatorUpper>>

AssertionLower(key) == Append(EncodeAddress(key), Separator)

AssertionUpper(key) == Append(EncodeAddress(key), SeparatorUpper)

\* The subtree of a path, the path itself included; all paths for <<>>.
SubtreeLower(branch, entity, path) ==
  <<Hash[branch], Hash[entity]>> \o PathBytes(path)

SubtreeUpper(branch, entity, path) ==
  Append(SubtreeLower(branch, entity, path), AfterChildren)
=============================================================================
