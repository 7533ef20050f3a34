----------------------------- MODULE TerraSchema -----------------------------
(***************************************************************************)
(* The schema of a project (config/data_schema.rs), the validation of what *)
(* is written under it (domain/validator.rs) and the reads that depend on  *)
(* it. A schema is a file of the project: it changes between two runs of   *)
(* the server while the rows stay.                                         *)
(*                                                                         *)
(* An option is a set of at most one element. A JSON value is one of the   *)
(* kinds that validation tells apart.                                      *)
(***************************************************************************)
EXTENDS Naturals, FiniteSets, Sequences, SequencesExt

Null == "null"
Text == "text"
Number == "number"

-----------------------------------------------------------------------------
(***************************************************************************)
(* What a schema file declares. A terminal status may be given without a   *)
(* list; a field is JSON unless it is declared as text.                    *)
(***************************************************************************)
IsStatuses(statuses) ==
  /\ statuses.values \subseteq STRING /\ statuses.default \in STRING
  /\ ToSet(statuses.terminal) \subseteq STRING

IsFields(defs) ==
  \A f \in DOMAIN defs : defs[f].type \in {Text, "json"} /\ defs[f].required \in BOOLEAN

IsType(def) ==
  /\ IsFields(def.fields)
  /\ Cardinality(def.lifecycle) =< 1
  /\ \A l \in def.lifecycle : {l.initial} \cup l.states \cup l.visible \subseteq STRING

IsSchema(file) ==
  /\ DOMAIN file = {"statuses", "types", "transaction_meta", "entity_change_meta", "branch_meta"}
  /\ IsFields(file.transaction_meta) /\ IsFields(file.entity_change_meta)
  /\ IsFields(file.branch_meta)
  /\ \A t \in DOMAIN file.types : IsType(file.types[t])
  /\ Cardinality(file.statuses) =< 1 /\ \A s \in file.statuses : IsStatuses(s)

-----------------------------------------------------------------------------
(***************************************************************************)
(* DataSchema::validate                                                    *)
(***************************************************************************)
StatusesValid(statuses) ==
  /\ statuses.values # {} /\ "" \notin statuses.values
  /\ statuses.terminal # <<>>
  /\ ToSet(statuses.terminal) \cup {statuses.default} \subseteq statuses.values

\* The states that a lifecycle does not list are those it mentions.
Derived(lifecycle) ==
  IF lifecycle.states # {} THEN lifecycle
  ELSE [lifecycle EXCEPT !.states = {lifecycle.initial} \cup lifecycle.visible]

LifecycleValid(lifecycle) ==
  LET mentioned == {lifecycle.initial} \cup lifecycle.visible
  IN  "" \notin mentioned /\ mentioned \subseteq Derived(lifecycle).states

TypeValid(def) ==
  \A l \in def.lifecycle : "state" \notin DOMAIN def.fields /\ LifecycleValid(l)

Accepted(file) ==
  /\ \A s \in file.statuses : StatusesValid(s)
  /\ \A t \in DOMAIN file.types : TypeValid(file.types[t])

Parsed(file) ==
  [file EXCEPT !.types =
    [t \in DOMAIN file.types |->
      [file.types[t] EXCEPT !.lifecycle = {Derived(l) : l \in file.types[t].lifecycle}]]]

-----------------------------------------------------------------------------
(***************************************************************************)
(* DomainValidator. A null is a value: it is present, and it is text.      *)
(***************************************************************************)
FieldValid(value, def) == def.type = Text => value \in {Text, Null}

FieldsValid(values, defs, checkRequired) ==
  /\ \A f \in DOMAIN defs :
       /\ checkRequired /\ defs[f].required => f \in DOMAIN values
       /\ f \in DOMAIN values => FieldValid(values[f], defs[f])
  /\ DOMAIN values \subseteq DOMAIN defs

StateValid(state, def) ==
  /\ Cardinality(state) = Cardinality(def.lifecycle)
  /\ \A l \in def.lifecycle : state \subseteq l.states

StatusValid(schema, status) ==
  \A given \in status : \E s \in schema.statuses : given \in s.values

WriteValid(schema, write) ==
  /\ write.value # {} => FieldsValid(write.meta, schema.entity_change_meta, TRUE)
  /\ StatusValid(schema, write.status)

CreateValid(schema, item) ==
  /\ item.type \in DOMAIN schema.types
  /\ FieldsValid(item.fields, schema.types[item.type].fields, TRUE)
  /\ StateValid(item.state, schema.types[item.type])

\* Mutant: an update is checked like the values it replaces were.
UpdateUnchecked(schema, item) == item.type \in DOMAIN schema.types

\* What is required is not asked for again, and a state may be left out.
UpdateValid(schema, item) ==
  /\ item.type \in DOMAIN schema.types
  /\ FieldsValid(item.fields, schema.types[item.type].fields, FALSE)
  /\ item.state # {} => StateValid(item.state, schema.types[item.type])

-----------------------------------------------------------------------------
(***************************************************************************)
(* Values that are stored under a schema, and read under another           *)
(***************************************************************************)
\* A null of the input removes the field; a state left out is carried on.
MergedFields(stored, given) ==
  LET kept == DOMAIN stored \ DOMAIN given
      set == {f \in DOMAIN given : given[f] # Null}
  IN  [f \in kept \cup set |-> IF f \in set THEN given[f] ELSE stored[f]]

MergedState(stored, given) == IF given # {} THEN given ELSE stored

Resolve(statuses, status) == IF status # {} THEN status ELSE {statuses.default}

StoredStatus(schema, status) == UNION {Resolve(s, status) : s \in schema.statuses}

RetractionStatus(schema) == {s.terminal[1] : s \in schema.statuses}

\* Mutant: only the status of automatic retractions is terminal.
IsFirstTerminal(statuses, status) == Resolve(statuses, status) = {statuses.terminal[1]}

\* An assertion without a status is read under today's default.
IsTerminal(statuses, status) == Resolve(statuses, status) \subseteq ToSet(statuses.terminal)

Ends(schema, claim) == \A s \in schema.statuses : IsTerminal(s, claim.status)

\* The newest claim that ends the walk, and what was claimed after it.
Shown(schema, claims) ==
  {c \in claims : /\ c.value # Null
                  /\ \A d \in claims : d.tx > c.tx => ~Ends(schema, d)}

Listed(schema, item) ==
  \A l \in schema.types[item.type].lifecycle :
    l.visible # {} => item.state \subseteq l.visible /\ item.state # {}
=============================================================================
