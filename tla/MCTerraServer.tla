---------------------------- MODULE MCTerraServer ----------------------------
(***************************************************************************)
(* Requests of every command over a property that is claimed, asserted,    *)
(* retracted and deleted, and an item that is created and updated; schemas *)
(* that differ in statuses, fields and lifecycle, and one that is refused. *)
(***************************************************************************)
EXTENDS TerraServer, TLC

Field(type, required) == [type |-> type, required |-> required]

Reason == "reason" :> Field(Text, TRUE)

Open == [initial |-> "open", states |-> {}, visible |-> {"open"}]
Open2 == [initial |-> "open", states |-> {"open", "done"}, visible |-> {}]

Task == [fields |-> "goal" :> Field("json", TRUE), lifecycle |-> {Open}]
Task2 == [fields |-> "goal" :> Field("json", FALSE) @@ "note" :> Field(Text, FALSE),
          lifecycle |-> {Open2}]
Note == [fields |-> "note" :> Field(Text, FALSE), lifecycle |-> {}]

Statuses(terminal, default) ==
  [values |-> {"fact", "guess"}, terminal |-> terminal, default |-> default]

Schema(statuses, task) ==
  [statuses |-> statuses, types |-> "task" :> task,
   transaction_meta |-> Reason, entity_change_meta |-> Reason, branch_meta |-> Reason]

MCFiles == {
  Schema({}, Task),
  Schema({Statuses(<<"fact">>, "guess")}, Task2),
  Schema({Statuses(<<"guess", "fact">>, "guess")}, Note),
  Schema({Statuses(<<"done">>, "guess")}, Task)}

Why == "reason" :> Text

Base ==
  [command |-> "transaction", malformed |-> FALSE, at |-> {}, expected |-> {}, meta |-> Why,
   write |-> {}, delete |-> FALSE, create |-> {}, update |-> {}, branch |-> {}]

Write(value, status) ==
  {[description |-> TRUE, value |-> {value}, status |-> status, meta |-> Why]}

TaskItem(state, fields) == {[type |-> "task", state |-> state, fields |-> fields]}

Get == [Base EXCEPT !.command = "entity.get"]
Past == [Get EXCEPT !.at = {1}]
Touched == [Base EXCEPT !.command = "entities.touched"]
List == [Base EXCEPT !.command = "managed.list"]
Log == [Base EXCEPT !.command = "transactions.list"]
Detail == [Base EXCEPT !.command = "transaction.get"]
Branch == [Base EXCEPT !.command = "checkout", !.branch = {[slug |-> "b", meta |-> Why]}]
History == [Base EXCEPT !.command = "entity.history"]
Garbage == [Base EXCEPT !.malformed = TRUE]

Claim(e, v) == [Base EXCEPT !.expected = {e}, !.write = Write(v, {})]
Delete == [Base EXCEPT !.delete = TRUE]

Create(state, fields) == [Base EXCEPT !.create = TaskItem(state, fields)]
Update(state, fields) == [Base EXCEPT !.update = TaskItem(state, fields)]

\* An item and what is known of it change in one transaction.
Opened == [Create({"open"}, "goal" :> Number) EXCEPT !.write = Write("a", {"guess"})]
Undone == [Update({"done"}, "goal" :> Null) EXCEPT !.write = Write("b", {})]
Retracted == [Update({}, "note" :> Number) EXCEPT !.write = Write(Null, {"fact"})]

MCRequests == {
  Claim(Null, "a"), Claim("a", "b"), Opened, Undone, Retracted, Delete, Branch,
  Past, Touched, List, Log, Detail, History, Garbage}

Symmetry == Permutations(Calls)

\* A property is claimed, read and deleted.
Torn == {Claim(Null, "a"), Delete, Get}
=============================================================================
