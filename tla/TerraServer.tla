----------------------------- MODULE TerraServer -----------------------------
(***************************************************************************)
(* terra-server: a process that loads the schema, opens the store and      *)
(* answers HTTP requests on several threads (terra-server/src/main.rs,     *)
(* dispatch.rs, dto/, error.rs), each through Terra::execute (terra.rs).   *)
(* Transactions hold the mutation lock from their preconditions to their   *)
(* commit. Queries take no lock: each reads family after family while      *)
(* transactions commit. The process may die between any two steps and be   *)
(* started again with another schema.                                      *)
(*                                                                         *)
(* One entity with one property and one managed item of main are followed, *)
(* and the names of the branches made from main. A row of store holds what *)
(* one transaction put: its families are read apart. Terra models what is  *)
(* written on branches, the paths and the ancestries left out here.        *)
(*                                                                         *)
(* Transaction ids come from the clock. Within one process they only grow  *)
(* (the uuid crate is external); a new process has the clock alone.        *)
(***************************************************************************)
EXTENDS TerraSchema

CONSTANTS
  Calls,      \* requests that clients send, each once
  Requests,   \* what they may ask
  Files,      \* schema files the project may have
  Rollback,   \* whether the clock may be behind the store when a process starts
  MaxStarts   \* bound on the processes

\* The commands that change the store, and so are MUTATES.
Mutating == {"transaction", "checkout"}

\* The queries that read the head of the branch first, for want of a bound,
\* and those that read what there is when no bound is given.
AtHead == {"entities.touched", "managed.list", "transactions.list",
           "transaction.get", "entity.history"}
AsAsked == {"entity.get", "entities.grep", "entities.similar"}

IsOption(set) == \A x, y \in set : x = y

\* An entity to be written: at most one value of the property.
IsWrite(w) ==
  /\ w.description \in BOOLEAN
  /\ IsOption(w.value) /\ IsOption(w.status) /\ w.value \cup {Null} \subseteq STRING

IsItem(m) == m.type \in STRING /\ IsOption(m.state) /\ m.state \subseteq STRING

\* The precondition and the operations: the entity is not written and deleted
\* twice, and an item is not created or updated twice.
IsTransaction(r) ==
  /\ IsOption(r.expected) /\ r.delete \in BOOLEAN
  /\ IsOption(r.write) /\ \A w \in r.write : IsWrite(w)
  /\ IsOption(r.create) /\ IsOption(r.update)
  /\ \A m \in r.create \cup r.update : IsItem(m)

\* A branch is made from the head, and its first transaction says only why.
IsCheckout(r) ==
  /\ IsOption(r.branch)
  /\ (r.command = "checkout") = (r.branch # {})
  /\ r.branch # {} => r.expected \cup r.write \cup r.create \cup r.update = {} /\ ~r.delete

\* A query is for the store as of a transaction, if it names one.
IsQuery(r) == IsOption(r.at) /\ r.at \subseteq Nat

\* One command. What serde or a slug refuses is malformed.
IsRequest(r) ==
  /\ r.command \in Mutating \cup AtHead \cup AsAsked
  /\ r.malformed \in BOOLEAN
  /\ IsTransaction(r) /\ IsCheckout(r) /\ IsQuery(r)

ASSUME TerraServerAssumption ==
  /\ IsFiniteSet(Calls)
  /\ \A r \in Requests : IsRequest(r)
  /\ \A f \in Files : IsSchema(f)
  /\ Rollback \in BOOLEAN
  /\ MaxStarts \in Nat

VARIABLES
  up,       \* whether a process serves
  schema,   \* the schema it loaded, or the last one did
  starts,   \* processes so far
  clock,    \* the ids of the process are above it
  lock,     \* the call that holds the mutation lock
  store,    \* what committed transactions put
  call      \* each call: where it is, its request and what it has read

process == <<up, schema, starts>>
vars == <<up, schema, starts, clock, lock, store, call>>

-----------------------------------------------------------------------------
(***************************************************************************)
(* Families of the store, each up to a transaction if one is given         *)
(***************************************************************************)
Newest(rows) == {r \in rows : \A s \in rows : s.tx =< r.tx}

Bounded(rows, bound) == {r \in rows : \A b \in bound : r.tx =< b}

\* The first transaction of a branch that is checked out is not one of main.
OnMain == {r \in store : r.branch = {}}

HeadTx == Max({0} \cup {r.tx : r \in OnMain})

LastTx == Max({0} \cup {r.tx : r \in store})

Record(bound) ==
  UNION {r.record : r \in Newest(Bounded({s \in store : s.record # {}}, bound))}

Claims(bound) ==
  UNION {{[tx |-> r.tx, value |-> c.value, status |-> c.status] : c \in r.claim} :
           r \in Bounded(store, bound)}

Item(bound) ==
  UNION {r.item : r \in Newest(Bounded({s \in store : s.item # {}}, bound))}

NextId ==
  CHOOSE t \in clock + 1 .. clock + Cardinality(store) + 1 :
    /\ \A r \in store : r.tx # t
    /\ \A u \in clock + 1 .. t - 1 : \E r \in store : r.tx = u

-----------------------------------------------------------------------------
(***************************************************************************)
(* Calls                                                                   *)
(***************************************************************************)
Unsent == [pc |-> "unsent"]

NewCall(request) ==
  [pc |-> "received", request |-> request, under |-> schema, bound |-> request.at,
   batch |-> {}, record |-> {}, shown |-> {}, items |-> {}, txs |-> {}, entries |-> {}, detail |-> {},
   answer |-> "none"]

InFlight(c) == call[c].pc \notin {"unsent", "answered"}

At(c, pc) == up /\ call[c].pc = pc

Answered(c, answer) == [call EXCEPT ![c].pc = "answered", ![c].answer = answer]

Init ==
  /\ up = FALSE
  /\ schema = [statuses |-> {}, types |-> <<>>, transaction_meta |-> <<>>,
               entity_change_meta |-> <<>>, branch_meta |-> <<>>]
  /\ starts = 0
  /\ clock = 0
  /\ lock = {}
  /\ store = {}
  /\ call = [c \in Calls |-> Unsent]

\* main: a file that is not accepted ends the process before it serves.
Start(file) ==
  /\ ~up /\ starts < MaxStarts
  /\ Accepted(file)
  /\ up' = TRUE
  /\ schema' = Parsed(file)
  /\ starts' = starts + 1
  /\ clock' \in IF Rollback THEN 0 .. LastTx + 1 ELSE {LastTx}
  /\ UNCHANGED <<lock, store, call>>

\* The process dies; its clients hear nothing more.
Die ==
  /\ up
  /\ up' = FALSE
  /\ lock' = {}
  /\ call' = [c \in Calls |->
               IF InFlight(c)
               THEN [call[c] EXCEPT !.pc = "answered", !.answer = "lost", !.batch = {}]
               ELSE call[c]]
  /\ UNCHANGED <<schema, starts, clock, store>>

\* A bound is a transaction that a client can have heard of.
Send(c, request) ==
  /\ At(c, "unsent")
  /\ request.at \subseteq {r.tx : r \in store}
  /\ call' = [call EXCEPT ![c] = NewCall(request)]
  /\ UNCHANGED <<process, clock, lock, store>>

\* handle: a body that does not parse, a bad slug or an unknown command.
Reject(c) ==
  /\ At(c, "received")
  /\ call[c].request.malformed
  /\ call' = Answered(c, "parse_error")
  /\ UNCHANGED <<process, clock, lock, store>>

Asks(c, commands) ==
  ~call[c].request.malformed /\ call[c].request.command \in commands

-----------------------------------------------------------------------------
(***************************************************************************)
(* Transactions                                                            *)
(***************************************************************************)
\* A null expects that the property is absent.
Expected(request) == request.expected \ {Null}

Current == {c.value : c \in Newest(Shown(schema, Claims({})))}

IsNew == Record({}) # {"live"}

Conflicting(r) == r.expected # {} /\ Current # Expected(r)

Invalid(r) ==
  \/ ~FieldsValid(r.meta, schema.transaction_meta, TRUE)
  \/ \E w \in r.write : ~WriteValid(schema, w)
  \/ \E m \in r.create : ~CreateValid(schema, m)
  \/ \E m \in r.update : ~UpdateValid(schema, m)

\* The checks of ExecuteCheckout, then those of its first transaction.
CheckoutRefusal(r) ==
  IF \E b \in r.branch : ~FieldsValid(b.meta, schema.branch_meta, TRUE)
    THEN {"validation_error"}
  ELSE IF HeadTx = 0 THEN {"storage_error"}
  ELSE IF \E b \in r.branch, s \in store : b.slug \in s.branch THEN {"conflict"}
  ELSE IF Invalid(r) THEN {"validation_error"}
  ELSE {}

\* The checks of ExecuteTransaction in their order, as classify names them.
TransactionRefusal(r) ==
  IF Conflicting(r) THEN {"conflict"}
  ELSE IF Invalid(r) \/ (IsNew /\ \E w \in r.write : ~w.description)
    THEN {"validation_error"}
  ELSE IF r.delete /\ r.write # {} THEN {"storage_error"}
  ELSE IF r.delete /\ Record({}) = {} THEN {"not_found"}
  ELSE IF r.create # {} /\ Item({}) # {} THEN {"conflict"}
  ELSE IF r.create # {} /\ r.update # {} THEN {"storage_error"}
  ELSE IF r.update # {} /\ Item({}) = {} THEN {"not_found"}
  ELSE {}

Refusal(r) == IF r.branch = {} THEN TransactionRefusal(r) ELSE CheckoutRefusal(r)

RecordOf(r) ==
  IF r.delete THEN {"deleted"}
  ELSE IF \E w \in r.write : IsNew \/ w.description THEN {"live"} ELSE {}

\* A deletion withdraws the property if it shows one.
ClaimOf(r) ==
  IF r.delete
  THEN {[value |-> Null, status |-> RetractionStatus(schema)] :
          shown \in {s \in {TRUE} : Shown(schema, Claims({})) # {}}}
  ELSE UNION {{[value |-> v, status |-> StoredStatus(schema, w.status)] : v \in w.value} :
                w \in r.write}

Created(m) ==
  [type |-> m.type, state |-> m.state, fields |-> m.fields,
   under |-> {schema.types[m.type]}]

Updated(old, m) ==
  [type |-> m.type, state |-> MergedState(old.state, m.state),
   fields |-> MergedFields(old.fields, m.fields),
   under |-> old.under \cup {schema.types[m.type]}]

ItemOf(r) ==
  {Created(m) : m \in r.create} \cup UNION {{Updated(old, m) : old \in Item({})} : m \in r.update}

Row(c, t) ==
  LET r == call[c].request
  IN  [tx |-> t, by |-> c, branch |-> {b.slug : b \in r.branch}, record |-> RecordOf(r),
       claim |-> ClaimOf(r), item |-> ItemOf(r)]

\* Mutant: a transaction is executed like a query.
LockShared(c) ==
  /\ At(c, "received") /\ Asks(c, Mutating)
  /\ call' = [call EXCEPT ![c].pc = "locked"]
  /\ UNCHANGED <<process, clock, lock, store>>

Lock(c) ==
  /\ At(c, "received") /\ Asks(c, Mutating)
  /\ lock = {}
  /\ lock' = {c}
  /\ call' = [call EXCEPT ![c].pc = "locked"]
  /\ UNCHANGED <<process, clock, store>>

Refuse(c) ==
  /\ At(c, "locked")
  /\ \E error \in Refusal(call[c].request) : call' = Answered(c, error)
  /\ lock' = {}
  /\ UNCHANGED <<process, clock, store>>

Stage(c) ==
  /\ At(c, "locked")
  /\ Refusal(call[c].request) = {}
  /\ clock' = NextId
  /\ call' = [call EXCEPT ![c].pc = "staged", ![c].batch = {Row(c, NextId)}]
  /\ UNCHANGED <<process, lock, store>>

\* Mutant: managed items are put in a batch of their own, which is dropped.
CommitEntities(c) ==
  /\ At(c, "staged")
  /\ store' = store \cup {[r EXCEPT !.item = {}] : r \in call[c].batch}
  /\ call' = [call EXCEPT ![c].pc = "committed", ![c].batch = {}]
  /\ lock' = {}
  /\ UNCHANGED <<process, clock>>

Commit(c) ==
  /\ At(c, "staged")
  /\ store' = store \cup call[c].batch
  /\ call' = [call EXCEPT ![c].pc = "committed", ![c].batch = {}]
  /\ lock' = {}
  /\ UNCHANGED <<process, clock>>

\* Others may commit, and the process may die, before the client hears of it.
Reply(c) ==
  /\ At(c, "committed")
  /\ call' = Answered(c, "ok")
  /\ UNCHANGED <<process, clock, lock, store>>

-----------------------------------------------------------------------------
(***************************************************************************)
(* Queries, one family after the other                                     *)
(***************************************************************************)
FirstRead(command) ==
  CASE command = "managed.list"      -> "items"
    [] command = "transactions.list" -> "transactions"
    [] command = "transaction.get"   -> "detail"
    [] OTHER                         -> "record"

ReadHead(c) ==
  /\ At(c, "received") /\ Asks(c, AtHead)
  /\ call' = [call EXCEPT ![c].pc = FirstRead(call[c].request.command),
                          ![c].bound = IF @ = {} THEN {HeadTx} ELSE @]
  /\ UNCHANGED <<process, clock, lock, store>>

Live(bound) == Record(bound) \ {"deleted"}

\* entity_head: what is deleted is not found, and is left out of a list; but
\* its history is there.
ReadRecord(c) ==
  /\ At(c, "record") \/ (At(c, "received") /\ Asks(c, AsAsked))
  /\ LET past   == Asks(c, {"entity.history"})
         record == IF past THEN Record(call[c].bound) ELSE Live(call[c].bound)
     IN  call' = IF record # {}
                 THEN [call EXCEPT ![c].pc = IF past THEN "events" ELSE "claims",
                                   ![c].record = record]
                 ELSE Answered(c, IF past \/ Asks(c, {"entity.get"}) THEN "not_found" ELSE "ok")
  /\ UNCHANGED <<process, clock, lock, store>>

\* Mutant: the properties are read as they are now.
ReadClaimsNow(c) ==
  /\ At(c, "claims")
  /\ call' = [Answered(c, "ok") EXCEPT ![c].shown = Shown(schema, Claims({}))]
  /\ UNCHANGED <<process, clock, lock, store>>

ReadClaims(c) ==
  /\ At(c, "claims")
  /\ call' = [Answered(c, "ok") EXCEPT ![c].shown = Shown(schema, Claims(call[c].bound))]
  /\ UNCHANGED <<process, clock, lock, store>>

ListItems(under, bound) ==
  {m \in Item(bound) : m.type \in DOMAIN under.types /\ Listed(under, m)}

ReadItems(c) ==
  /\ At(c, "items")
  /\ call' = [Answered(c, "ok") EXCEPT ![c].items = ListItems(schema, call[c].bound)]
  /\ UNCHANGED <<process, clock, lock, store>>

Txs(rows) == {r.tx : r \in rows}

ReadTransactions(c) ==
  /\ At(c, "transactions")
  /\ call' = [Answered(c, "ok") EXCEPT ![c].txs = Txs(Bounded(OnMain, call[c].bound))]
  /\ UNCHANGED <<process, clock, lock, store>>

\* A transaction is found whatever its branch; its rows are read there.
ReadDetail(c) ==
  /\ At(c, "detail")
  /\ LET found == {r \in store : r.tx \in call[c].bound}
     IN  call' = [Answered(c, IF found = {} THEN "not_found" ELSE "ok") EXCEPT
                    ![c].detail = found]
  /\ UNCHANGED <<process, clock, lock, store>>

\* collect_assertion_txs, then collect_entity_txs.
ReadEvents(c) ==
  /\ At(c, "events")
  /\ call' = [call EXCEPT ![c].pc = "changes", ![c].txs = Txs(Claims(call[c].bound))]
  /\ UNCHANGED <<process, clock, lock, store>>

ReadChanges(c) ==
  /\ At(c, "changes")
  /\ call' = [call EXCEPT
       ![c].pc = "entries",
       ![c].txs = @ \cup Txs({r \in Bounded(store, call[c].bound) : r.record # {}})]
  /\ UNCHANGED <<process, clock, lock, store>>

Entry(under, t) ==
  [tx |-> t, record |-> Live({t}),
   shown |-> IF Live({t}) = {} THEN {} ELSE Shown(under, Claims({t}))]

\* A snapshot for every event, the last one first.
ReadEntry(c) ==
  /\ At(c, "entries")
  /\ LET left == call[c].txs \ Txs(call[c].entries)
     IN  call' = IF left = {} THEN Answered(c, "ok")
                 ELSE [call EXCEPT ![c].entries = @ \cup {Entry(schema, Max(left))}]
  /\ UNCHANGED <<process, clock, lock, store>>

Handle(c) ==
  \/ Reject(c)
  \/ Lock(c) \/ Refuse(c) \/ Stage(c) \/ Commit(c) \/ Reply(c)
  \/ ReadHead(c) \/ ReadRecord(c) \/ ReadClaims(c) \/ ReadItems(c)
  \/ ReadTransactions(c) \/ ReadDetail(c) \/ ReadEvents(c) \/ ReadChanges(c) \/ ReadEntry(c)

Next ==
  \/ \E file \in Files : Start(file)
  \/ Die
  \/ \E c \in Calls : Handle(c) \/ \E r \in Requests : Send(c, r)

Spec == Init /\ [][Next]_vars

-----------------------------------------------------------------------------
(***************************************************************************)
(* Properties                                                              *)
(***************************************************************************)
Asked(c) == call[c].request

\* The transactions that took the property from one value to another one.
Claimants(e) ==
  {r \in store : /\ Asked(r.by).expected = {e}
                 /\ \E c \in r.claim : c.value \notin {e, Null}}

\* The transactions after which the property may have had that value.
Sources(e) ==
  {r \in store : r.record = {"deleted"} \/ \E c \in r.claim : c.value \in {e, Null}}

\* What the statuses mean may change when a process starts.
Reinterpretations ==
  IF starts = 0 \/ \A f, g \in Files : f.statuses = g.statuses THEN 0 ELSE starts - 1

\* Clients that claim a value at once, each expecting what it read, have one
\* winner: a value is taken at most as often as it came about. So do clients
\* that check out a branch of one name.
ClaimsHaveOneWinner ==
  /\ \A r, s \in store : r.branch \cap s.branch # {} => r = s
  /\ \A e \in UNION {r.expected : r \in Requests} :
       Cardinality(Claimants(e))
         =< Cardinality(Sources(e)) + Reinterpretations + (IF e = Null THEN 1 ELSE 0)

Rows(c) == {r \in store : r.by = c}

Complete(r, request) ==
  /\ r.branch = {b.slug : b \in request.branch}
  /\ request.delete <=> r.record = {"deleted"}
  /\ (\E w \in request.write : w.value # {}) => r.claim # {}
  /\ request.create \cup request.update # {} <=> r.item # {}

\* A transaction that is answered with success is stored as a whole. One that
\* is refused, or not answered, has left nothing, and one whose process died
\* has left all or nothing.
AnswersAreTrue ==
  \A c \in Calls :
    /\ \A r \in Rows(c) :
         /\ Complete(r, Asked(c))
         /\ call[c].pc = "committed" \/ call[c].answer \in {"ok", "lost"}
    /\ (call[c].pc = "answered" /\ call[c].answer = "ok" /\ Asks(c, Mutating))
         => Cardinality(Rows(c)) = 1

Query(c) ==
  call[c].pc = "answered" /\ call[c].answer # "lost" /\ ~Asks(c, Mutating)
  /\ ~Asked(c).malformed

\* The transactions that changed the entity.
Events(bound) ==
  Txs({r \in Bounded(store, bound) : r.record # {} \/ r.claim # {}})

\* A query with a bound, its own or the head it read, answers with the store
\* at that transaction, for ever, whatever was committed while it read: the
\* entity and its properties, the items that are listed, the transactions, all
\* that one of them put, or an entry of the history for every change of the
\* entity.
BoundedReadsAreSnapshots ==
  \A c \in Calls :
    (Query(c) /\ call[c].bound # {}) =>
      LET bound == call[c].bound
          under == call[c].under
      IN  CASE Asks(c, {"managed.list"}) -> call[c].items = ListItems(under, bound)
            [] Asks(c, {"transactions.list"}) -> call[c].txs = Txs(Bounded(OnMain, bound))
            [] Asks(c, {"transaction.get"}) ->
                 call[c].detail = {r \in store : r.tx \in bound}
            [] Asks(c, {"entity.history"}) ->
                 call[c].entries = IF Record(bound) = {} THEN {}
                                   ELSE {Entry(under, t) : t \in Events(bound)}
            [] OTHER ->
                 /\ call[c].record = Live(bound)
                 /\ call[c].shown = IF Live(bound) = {} THEN {}
                                    ELSE Shown(under, Claims(bound))

\* What an item holds was declared by a schema that one of its versions was
\* written under: what an update carries on is what an earlier one checked.
ItemsFitTheirSchemas ==
  \A r \in store : \A m \in r.item :
    /\ \A f \in DOMAIN m.fields :
         \E def \in m.under : f \in DOMAIN def.fields /\ FieldValid(m.fields[f], def.fields[f])
    /\ \E def \in m.under : StateValid(m.state, def)

KeepsTerminals(old, new) ==
  \A n \in new.statuses : \E o \in old.statuses :
    /\ ToSet(o.terminal) \subseteq ToSet(n.terminal)
    /\ o.default \in ToSet(o.terminal) => n.default \in ToSet(n.terminal)

\* A schema whose terminal statuses include those of the last one, or one
\* without statuses, never shows again what was retracted or consolidated.
RestartsReviveNothing ==
  [][(starts > 0 /\ KeepsTerminals(schema, schema')) =>
       Shown(schema', Claims({})) \subseteq Shown(schema, Claims({}))]_vars

-----------------------------------------------------------------------------
(***************************************************************************)
(* What a comment in the code says, and the code does not do.              *)
(***************************************************************************)
\* store/query/entity_snapshot.rs:1: "load a single entity with properties at a
\* point in time". An answer shows the record and the properties as they were
\* after one transaction.
GetsArePointsInTime ==
  \A c \in Calls :
    (Query(c) /\ Asks(c, {"entity.get"}) /\ call[c].answer = "ok") =>
      \E t \in {r.tx : r \in store} :
        /\ Record({t}) = call[c].record
        /\ Shown(call[c].under, Claims({t})) = call[c].shown
=============================================================================
