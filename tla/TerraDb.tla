------------------------------- MODULE TerraDb -------------------------------
(***************************************************************************)
(* The key-value layer (io/terra_db.rs, io/db_iterator.rs, write_batch.rs) *)
(* and the loops of the store that walk it: a batch of encoded keys is     *)
(* committed at once, and a read seeks to a point and steps from key to    *)
(* key until one is outside its bounds. Column families share nothing, so  *)
(* one of them is followed. Values are left out: a loop that reads keys    *)
(* decides by keys alone.                                                  *)
(*                                                                         *)
(* RocksDB is external: an ordered map whose iterators see all keys in     *)
(* order. (The prefix extractor it is opened with has no filter built over *)
(* it, so a seek across prefixes misses nothing.)                          *)
(***************************************************************************)
EXTENDS KeySpace

CONSTANTS
  Followed,   \* the families followed: names of Layout, or "assertions"
  Branches,   \* branch names
  Owners,     \* entities and managed items
  Txs,        \* transactions that write assertions
  Paths,      \* property paths: sequences of names
  Hyphened,   \* names that cannot end a slug, though they can stand in one
  Positions,  \* positions of siblings
  Types,      \* managed types
  MaxRows     \* bound on the rows stored

ASSUME TerraDbAssumption ==
  /\ Followed \subseteq Fixed \cup {"assertions"}
  /\ Branches \cup Owners \subseteq Names
  /\ Txs \subseteq Uuids
  /\ Paths \subseteq Seq(Names) \ {<<>>}
  /\ Hyphened \subseteq Names
  /\ \A p \in Paths : p[Len(p)] \notin Hyphened
  /\ Positions \subseteq 0 .. MaxI64
  /\ Types \subseteq Names
  /\ MaxRows \in Nat

VARIABLES
  cf,    \* the family followed
  db,    \* its keys, encoded
  rows   \* the keys that were put and not deleted since

vars == <<cf, db, rows>>

-----------------------------------------------------------------------------
\* What a field may hold: a position is never negative (documents/mod.rs).
Values(f, i) ==
  CASE Layout[f][i] = "slug" -> IF i = 1 THEN Branches
                                ELSE IF f = "managed" /\ i = 2 THEN Types ELSE Owners
    [] Layout[f][i] = "uuid" -> Uuids
    [] Layout[f][i] = "i64"  -> Positions

Keys(f) ==
  IF f = "assertions"
  THEN [branch : Branches, entity : Owners, prop : Paths, tx : Txs]
  ELSE {k \in [1 .. Len(Layout[f]) -> UNION {Values(f, i) : i \in 1 .. Len(Layout[f])}] :
          \A i \in 1 .. Len(Layout[f]) : k[i] \in Values(f, i)}

EncodeKey(f, k) == IF f = "assertions" THEN EncodeAssertion(k) ELSE Encode(f, k)

DecodeKey(f, b) == IF f = "assertions" THEN DecodeAssertion(b) ELSE Decode(f, b)

Init ==
  /\ cf \in Followed
  /\ db = {}
  /\ rows = {}

\* A batch that puts one key and may delete another.
Commit(put, delete) ==
  /\ Cardinality((rows \ delete) \cup {put}) =< MaxRows
  /\ db' = (db \ {EncodeKey(cf, k) : k \in delete}) \cup {EncodeKey(cf, put)}
  /\ rows' = (rows \ delete) \cup {put}
  /\ UNCHANGED cf

Deletable == {"children"}

\* Only the indexes of current state are deleted from.
Write ==
  \E put \in Keys(cf) :
    \/ Commit(put, {})
    \/ cf \in Deletable /\ \E k \in rows : Commit(put, {k})

Next == Write

Spec == Init /\ [][Next]_vars

-----------------------------------------------------------------------------
(***************************************************************************)
(* Reads. A position of an iterator is the set of the key it is at: empty  *)
(* at the end.                                                             *)
(***************************************************************************)
Get(key) == {k \in db : k = EncodeKey(cf, key)}

Seek(point) ==
  {k \in db : UpTo(point, k) /\ \A j \in db : UpTo(point, j) => UpTo(k, j)}

SeekBack(point) ==
  {k \in db : UpTo(k, point) /\ \A j \in db : UpTo(j, point) => UpTo(j, k)}

After(key) == {k \in db : Before(key, k) /\ \A j \in db : Before(key, j) => UpTo(k, j)}

Prior(key) == {k \in db : Before(k, key) /\ \A j \in db : Before(j, key) => UpTo(j, k)}

Inside(lower, upper, k) == UpTo(lower, k) /\ UpTo(k, upper)

\* next: the first key outside the bounds ends the walk. A walk that goes on from
\* key to key takes at most one turn for each.
Walk(start, step, lower, upper) ==
  LET went[n \in 0 .. Cardinality(db)] ==
        IF n = 0 THEN <<>>
        ELSE LET keys == went[n - 1]
                 next == IF keys = <<>> THEN start ELSE step[keys[Len(keys)]]
             IN  IF \E k \in next : Inside(lower, upper, k)
                 THEN Append(keys, CHOOSE k \in next : Inside(lower, upper, k))
                 ELSE keys
  IN  went[Cardinality(db)]

Scan(lower, upper) == Walk(Seek(lower), [k \in db |-> After(k)], lower, upper)

ScanRev(lower, upper) == Walk(SeekBack(upper), [k \in db |-> Prior(k)], lower, upper)

\* get_latest: the first key of a reverse scan.
GetLatest(lower, upper) == {k \in SeekBack(upper) : Inside(lower, upper, k)}

\* A loop that seeks to points[k] after it has read k.
SkipScan(lower, upper, points) ==
  Walk(Seek(lower), [k \in db |-> Seek(points[k])], lower, upper)
=============================================================================
