----------------------------- MODULE StoreScans -----------------------------
(***************************************************************************)
(* The loops of the stores over the key-value layer: each walks the keys   *)
(* of a range and seeks past what it has seen. They are compared with what *)
(* the rows say, whatever the hashes of the names are.                     *)
(***************************************************************************)
EXTENDS TerraDb, SequencesExt

-----------------------------------------------------------------------------
(***************************************************************************)
(* Reads of one family of fixed layout: a prefix of n fields is set, and   *)
(* the field after it may be bounded.                                      *)
(***************************************************************************)
\* discover: the distinct values of field n + 1 under a prefix of n fields.
\* Every version of a value is skipped by its last possible transaction.
SkipVersions(f, values) ==
  LET n == Len(values)
      points == [k \in db |->
                  LowerBound(f, values \o <<DecodeKey(f, k)[n + 1], MaxUuid>>)]
      keys == SkipScan(LowerBound(f, values), UpperBound(f, values), points)
  IN  [i \in 1 .. Len(keys) |-> DecodeKey(f, keys[i])[n + 1]]

\* The newest row of each value, up to a transaction.
NewestOf(f, values, at) ==
  UNION {GetLatest(LowerBound(f, Append(values, v)),
                   UpperBound(f, values \o <<v, at>>)) :
           v \in ToSet(SkipVersions(f, values))}

\* entity_slugs on one branch.
EntitySlugs(branch) == SkipVersions("entities", <<branch>>)

\* collect_embeddings on one branch: the rows the search is made from.
Embeddings(branch, at) == NewestOf("embeddings", <<branch>>, at)

\* collect_managed on one branch: an item is left by a seek, but for the
\* first row of an item that has none at that time, which is stepped over.
ManagedItems(branch, type, at) ==
  LET item(k) == DecodeKey("managed", k)[3]
      bounds(i) == <<branch, type, i>>
      latest(i) == GetLatest(LowerBound("managed", bounds(i)),
                             UpperBound("managed", Append(bounds(i), at)))
      seen(k) == \E j \in db : Before(j, k) /\ SubSeq(j, 1, 3) = SubSeq(k, 1, 3)
      step == [k \in db |->
                IF latest(item(k)) = {} /\ ~seen(k)
                THEN After(k)
                ELSE Seek(LowerBound("managed", Append(bounds(item(k)), MaxUuid)))]
      lower == LowerBound("managed", <<branch, type>>)
      keys == Walk(Seek(lower), step, lower,
                   UpperBound("managed", <<branch, type, MaxSlug, at>>))
  IN  UNION {latest(item(keys[i])) : i \in 1 .. Len(keys)}

-----------------------------------------------------------------------------
(***************************************************************************)
(* Documents: the children of a block at a transaction, and the neighbours *)
(* of a position among its current children.                               *)
(***************************************************************************)
\* Mutant: the seek skips one id more.
NextChildLate(parent, child) == LowerBound("memberships", <<parent, child + 2>>)

\* children_bounded: the successor of the child's id begins the next child.
NextChild(parent, child) == LowerBound("memberships", <<parent, child + 1>>)

MembershipsAt(parent, at) ==
  LET points == [k \in db |-> NextChild(parent, DecodeKey("memberships", k)[2])]
      keys == SkipScan(LowerBound("memberships", <<parent>>),
                       UpperBound("memberships", <<parent>>), points)
      child(i) == DecodeKey("memberships", keys[i])[2]
  IN  UNION {GetLatest(LowerBound("memberships", <<parent, child(i)>>),
                       UpperBound("memberships", <<parent, child(i), at>>)) :
               i \in 1 .. Len(keys)}

\* Mutant: the scan starts at the least position there is.
AnyPosition(parent) == <<parent>>

\* Positions are read from 0: a nil position is negative, encoded after them.
FromZero(parent) == <<parent, 0>>

CurrentChildren(parent) ==
  Scan(LowerBound("children", FromZero(parent)), UpperBound("children", <<parent>>))

\* neighbor: the first key past the pivot, which the bounds include.
Neighbour(parent, pivot, reverse) ==
  LET at == <<parent, pivot[1], pivot[2]>>
      keys == IF reverse
              THEN ScanRev(LowerBound("children", FromZero(parent)), UpperBound("children", at))
              ELSE Scan(LowerBound("children", at), UpperBound("children", <<parent>>))
      past == {i \in 1 .. Len(keys) : DecodeKey("children", keys[i]) # at}
  IN  {keys[i] : i \in {j \in past : \A m \in past : j =< m}}

-----------------------------------------------------------------------------
(***************************************************************************)
(* Properties of an entity. A range is a subtree of paths; a depth bounds  *)
(* how far below its root a path is read.                                  *)
(***************************************************************************)
KeyOf(k) == DecodeAssertion(k)

\* discover_props
DiscoveredProps(branch, entity) ==
  LET end(prop, tx) == [branch |-> branch, entity |-> entity, prop |-> prop, tx |-> tx]
      points == [k \in db |-> AssertionLower(end(KeyOf(k).prop, MaxUuid))]
      keys == SkipScan(AssertionLower(end(NoPath, NilUuid)),
                       AssertionUpper(end(LastPath, MaxUuid)), points)
  IN  [i \in 1 .. Len(keys) |-> KeyOf(keys[i]).prop]

\* The path that stands for what lies below the depth.
Cut(path, root, depth) ==
  LET count == Len(root) + depth
  IN  SubSeq(path, 1, IF count = 0 THEN 1 ELSE count)

Deep(path, root, depth) == Len(path) - Len(root) > depth

\* A prefix of a slug need not be a slug: then the path stands for itself.
Ref(path, root, depth) ==
  LET cut == Cut(path, root, depth)
  IN  IF cut[Len(cut)] \in Hyphened THEN path ELSE cut

\* Mutant: the oldest version of a property decides nothing.
Exists(key, upper) == TRUE

\* The first version is the oldest: a later one is not in the snapshot.
InSnapshot(key, upper) == key.tx =< upper

Selection(branch, entity, upper, root, depth) ==
  LET omitted(key) == InSnapshot(key, upper) /\ Deep(key.prop, root, depth)
      ref(key) == Ref(key.prop, root, depth)
      points == [k \in db |->
                  IF omitted(KeyOf(k))
                  THEN SubtreeUpper(branch, entity, ref(KeyOf(k)))
                  ELSE AssertionLower([branch |-> branch, entity |-> entity,
                                       prop |-> KeyOf(k).prop, tx |-> MaxUuid])]
      keys == SkipScan(SubtreeLower(branch, entity, root),
                       SubtreeUpper(branch, entity, root), points)
      read == {KeyOf(keys[i]) : i \in 1 .. Len(keys)}
  IN  [selected |-> {k.prop : k \in {r \in read : InSnapshot(r, upper) /\ ~omitted(r)}},
       refs     |-> {ref(r) : r \in {x \in read : omitted(x)}}]

\* collect_assertion_txs: every version of what is not below the depth.
HistoryTxs(branch, entity, upper, root, depth) ==
  LET step == [k \in db |->
                IF Deep(KeyOf(k).prop, root, depth)
                THEN Seek(SubtreeUpper(branch, entity, Cut(KeyOf(k).prop, root, depth)))
                ELSE After(k)]
      keys == Walk(Seek(SubtreeLower(branch, entity, root)), step,
                   SubtreeLower(branch, entity, root), SubtreeUpper(branch, entity, root))
      read == {KeyOf(keys[i]) : i \in 1 .. Len(keys)}
  IN  {<<k.tx, k.prop>> : k \in {r \in read : ~Deep(r.prop, root, depth) /\ r.tx =< upper}}

-----------------------------------------------------------------------------
(***************************************************************************)
(* Properties                                                              *)
(***************************************************************************)
Newest(set, tx) == {r \in set : \A s \in set : s[tx] =< r[tx]}

Decoded(keys) == {DecodeKey(cf, k) : k \in keys}

Under(values) == {r \in rows : SubSeq(r, 1, Len(values)) = values}

\* What was put is what is read back, no key is found that was not put, and no
\* two keys share their bytes. A range that sets a prefix of the fields, and
\* bounds a transaction after it, yields the rows of that prefix up to that
\* transaction and no others, whatever the order of the hashes; the reverse
\* scan yields them backwards (TerraDb::get, scan, scan_rev).
ScansMatchRows ==
  /\ Decoded(db) = rows /\ Cardinality(db) = Cardinality(rows)
  /\ \A key \in Keys(cf) : Get(key) # {} <=> key \in rows
  /\ cf \in Fixed =>
       \A r \in rows : \A n \in {m \in 0 .. Len(r) - 1 : Layout[cf][m + 1] # "i64"} :
         LET values == SubSeq(r, 1, n)
             next == Layout[cf][n + 1]
         IN  \A at \in IF next = "uuid" THEN Uuids \cup {MaxUuid} ELSE {Top(next)} :
               LET lower == LowerBound(cf, values)
                   upper == UpperBound(cf, Append(values, at))
                   found == Scan(lower, upper)
               IN  /\ Decoded(ToSet(found)) =
                        {s \in Under(values) : next = "uuid" => s[n + 1] =< at}
                   /\ ScanRev(lower, upper) = Reverse(found)

\* A loop that seeks past the versions of what it has read meets every
\* entity, item or child once and takes its newest row up to the time asked.
SkipsMissNothing ==
  /\ cf = "entities" => \A b \in Branches :
       LET slugs == EntitySlugs(b)
       IN  IsInjective(slugs) /\ ToSet(slugs) = {r[2] : r \in Under(<<b>>)}
  /\ cf = "embeddings" => \A b \in Branches, at \in Uuids :
       Decoded(Embeddings(b, at)) =
         UNION {Newest({s \in Under(<<b, e>>) : s[3] =< at}, 3) : e \in Owners}
  /\ cf = "managed" => \A b \in Branches, t \in Types, at \in Uuids :
       Decoded(ManagedItems(b, t, at)) =
         UNION {Newest({s \in Under(<<b, t, i>>) : s[4] =< at}, 4) : i \in Owners}
  /\ cf = "memberships" => \A p \in Uuids, at \in Uuids :
       Decoded(MembershipsAt(p, at)) =
         UNION {Newest({s \in Under(<<p, c>>) : s[3] =< at}, 3) : c \in Uuids}

Follows(a, b) == a[2] > b[2] \/ (a[2] = b[2] /\ a[3] > b[3])

\* Children are read in the order of their positions as numbers, although a
\* position is stored as unsigned bytes; the neighbour of a position is the
\* next child after it, or before it, whichever is asked.
SiblingsInOrder ==
  cf = "children" => \A p \in Uuids :
    LET children == CurrentChildren(p)
        key(i) == DecodeKey(cf, children[i])
    IN  /\ Decoded(ToSet(children)) = Under(<<p>>)
        /\ \A i, j \in 1 .. Len(children) : i < j => Follows(key(j), key(i))
        /\ \A position \in Positions, child \in Uuids :
             LET pivot == <<p, position, child>>
                 after == {r \in Under(<<p>>) : Follows(r, pivot)}
                 prior == {r \in Under(<<p>>) : Follows(pivot, r)}
             IN  /\ Decoded(Neighbour(p, <<position, child>>, FALSE)) =
                      {r \in after : \A s \in after \ {r} : Follows(s, r)}
                 /\ Decoded(Neighbour(p, <<position, child>>, TRUE)) =
                      {r \in prior : \A s \in prior \ {r} : Follows(r, s)}

Depths == 0 .. 2

\* Every subtree that has a property, and its parents.
Ranges == UNION {{[branch |-> r.branch, entity |-> r.entity,
                   root |-> SubSeq(r.prop, 1, n)] : n \in 0 .. Len(r.prop)} : r \in rows}

\* A read of a subtree to a depth selects exactly the properties that exist
\* at its time within that depth. What exists deeper is stood for by the
\* shallowest references that cover it; nothing else is referred to. The
\* history of the subtree is made of every version within the depth.
SelectionIsExact ==
  cf = "assertions" =>
    /\ \A b \in Branches, e \in Owners :
         LET props == DiscoveredProps(b, e)
         IN  /\ IsInjective(props)
             /\ ToSet(props) = {r.prop : r \in {s \in rows : s.branch = b /\ s.entity = e}}
    /\ \A r \in Ranges, at \in Txs, depth \in Depths :
         LET root == r.root
             below == {s \in rows : /\ s.branch = r.branch /\ s.entity = r.entity
                                    /\ IsPrefix(root, s.prop) /\ s.tx =< at}
             deep == {s.prop : s \in {x \in below : Deep(x.prop, root, depth)}}
             refs == {Ref(p, root, depth) : p \in deep}
         IN  /\ Selection(r.branch, r.entity, at, root, depth) =
                  [selected |-> {s.prop : s \in below} \ deep,
                   refs |-> {p \in refs : \A q \in refs : ~IsStrictPrefix(q, p)}]
             /\ HistoryTxs(r.branch, r.entity, at, root, depth) =
                  {<<s.tx, s.prop>> : s \in {x \in below : x.prop \notin deep}}
=============================================================================
