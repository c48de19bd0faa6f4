----------------------------- MODULE Documents -----------------------------
(* What the readers of workflow documents promise.  A call hands a node to a  *)
(* reader while one call of the allocator fails, or none; what it made is     *)
(* destroyed later.                                                           *)
EXTENDS DocumentMeaning

CONSTANT DocumentCalls      \* the calls considered: a reader, a node, the key of a flat form

VARIABLES
    ask,        \* the call, and which call of the allocator fails
    got,        \* the reading
    stage       \* "asked", "read" or "gone"

docVars == <<ask, got, stage>>

MetadataReaders == {"task", "workflow"}
ContractReaders == {"inputs", "outputs"}
TreeReaders == {"named", "flat"}

NewReading(fault) == [Reading(fault) EXCEPT !.tree = NewTree]

DocInit ==
    /\ \E call \in DocumentCalls : ask = [call |-> call, fault |-> 0]
    /\ got = NewReading(0)
    /\ stage = "asked"

\* The reading of a call to one of some readers.
ReadOnce(ops, reading) ==
    /\ stage = "asked" /\ ask.call.op \in ops
    /\ got' = reading
    /\ stage' = "read"
    /\ UNCHANGED ask

ReadTaskFields == ReadOnce(TaskKinds, praktor_yaml_task_fields_create(NewReading(ask.fault), ask.call.op, ask.call.node))
ReadActionParams == ReadOnce(ActionKinds, praktor_yaml_action_params_create(NewReading(ask.fault), ask.call.op, ask.call.node))
ReadTask == ReadOnce({"task"}, praktor_yaml_task_metadata_create(NewReading(ask.fault), ask.call.node))
ReadWorkflow == ReadOnce({"workflow"}, praktor_yaml_workflow_metadata_create(NewReading(ask.fault), ask.call.node))
ReadScript == ReadOnce({"script"}, praktor_yaml_task_script_read(NewReading(ask.fault), ask.call.node))
ReadContract ==
    ReadOnce(ContractReaders, praktor_yaml_contract_fields_create(NewReading(ask.fault), ask.call.node, ask.call.op = "outputs"))
ReadNamedTree == ReadOnce({"named"}, praktor_orch_from_named_yaml(NewReading(ask.fault), ask.call.node))
ReadFlatTree == ReadOnce({"flat"}, praktor_orch_from_flat_yaml(NewReading(ask.fault), ask.call.node, ask.call.key))
CreateSnapshot == ReadOnce({"snapshot"}, praktor_workflow_snapshot_create_inline(NewReading(ask.fault), ask.call.node))

\* The same call while one of the allocations that it makes fails.
Disturb ==
    /\ stage = "read" /\ ask.fault = 0
    /\ \E fault \in 1 .. got.calls : ask' = [ask EXCEPT !.fault = fault]
    /\ got' = NewReading(0)
    /\ stage' = "asked"

\* Two names are compared by each of the three comparisons.
CompareNames ==
    LET name == ask.call.node.items[1].val.text
        other == ask.call.node.items[2].val.text
    IN
    /\ stage = "asked" /\ ask.call.op = "names"
    /\ got' = [got EXCEPT !.args = <<orch_name_is(name, other), key_is(name, other), flat_key_matches(name, other)>>]
    /\ stage' = "read"
    /\ UNCHANGED ask

\* The owner that a call made is destroyed.
Destroyed(op, s) ==
    CASE op \in TaskKinds   -> praktor_yaml_task_fields_destroy(s)
      [] op \in ActionKinds -> praktor_yaml_action_params_destroy(s)
      [] op \in TreeReaders -> praktor_orch_tree_destroy(s)
      [] op = "snapshot"    -> praktor_workflow_snapshot_destroy(s, TRUE, TRUE)
      [] op = "script"      -> IF "script" \in DOMAIN s.own THEN Free(s) ELSE s
      [] OTHER              -> Free(s)

DestroyDocument ==
    /\ stage = "read" /\ got.status = "OK" /\ ask.call.op # "names"
    /\ got' = Destroyed(ask.call.op, got)
    /\ stage' = "gone"
    /\ UNCHANGED ask

DocNext ==
    \/ ReadTaskFields \/ ReadActionParams \/ ReadTask \/ ReadWorkflow \/ ReadScript \/ ReadContract
    \/ ReadNamedTree \/ ReadFlatTree \/ CreateSnapshot \/ Disturb \/ CompareNames \/ DestroyDocument

-----------------------------------------------------------------------------
FieldReaders == TaskKinds \cup ActionKinds \cup MetadataReaders \cup ContractReaders \cup {"script"}

FieldShape(op, n) ==
    CASE op \in TaskKinds -> Shape(n, op) [] op \in ActionKinds -> ActionShape(op, n)
      [] op = "task" -> TaskShape(n) [] op = "workflow" -> WorkflowShape(n)
      [] op = "script" -> Has(n, "script") => Shape(Get(n, "script"), "some field")
      [] OTHER -> ContractShape(n, op = "outputs")

\* What was read is what the document stands for.
ReadAs(op, n) ==
    CASE op \in TaskKinds -> <<got.lists[1], got.lists[2], got.lists[3], got.maps[1], got.maps[2], got.own>> = FieldValues(op, n)
      [] op \in ActionKinds -> <<got.own, got.args, got.set>> = ActionValues(op, n)
      [] op = "task" -> got.json = TaskJson(n) [] op = "workflow" -> got.json = WorkflowJson(n)
      [] op = "script" -> got.own = Own(n, {"script"})
      [] OTHER -> got.fields = ContractJson(n)

FieldLists == {"depends_on", "dotEnv", "sources", "generates", "vars", "env", "variables", "each", "triggers"}

\* All texts of a node, its keys among them, are few and short enough.
RECURSIVE TextsIn(_), Broad(_)
TextsIn(n) == <<n.text>> \o FlattenSeq([i \in DOMAIN n.items |-> <<KeyText(n.items[i])>> \o TextsIn(n.items[i].val)])
Broad(n) == Len(n.items) > TASK_MAX_ENTRIES \/ \E v \in Values(n) : Broad(v)

Small(n) == Len(TextsIn(n)) <= TASK_MAX_STRINGS /\ Bytes(TextsIn(n)) <= TASK_MAX_BYTES /\ ~Broad(n)

ActionRoomy(texts, args) ==
    LET keys == SetToSeq(DOMAIN texts) IN Bytes(args \o [i \in DOMAIN keys |-> texts[keys[i]]]) <= ACTION_MAX_BYTES

Roomy(op, n) ==
    CASE op \in ActionKinds -> ActionRoomy(ActionValues(op, n)[1], ActionValues(op, n)[2])
      [] op \in TaskKinds -> Small(n)
      [] op \in MetadataReaders -> \A key \in FieldLists : Has(n, key) => Small(Get(n, key))
      [] OTHER -> TRUE

SnapshotRoomy(root) ==
    /\ Roomy("workflow", root)
    /\ \A task \in Values(Get(root, "tasks")) : \A op \in {"task", "command"} : op = "task" \/ Has(task, op) => Roomy(op, task)

\* The readers of fields take exactly the documents of the right shape that are
\* within the budgets, give what these say or the defaults, and do so whichever
\* allocation fails (yaml_task_fields.c, yaml_action_params.c, yaml_*_metadata.c,
\* yaml_contract.c): a later value of a key counts, the first field of a contract
\* counts, numbers convert without wrapping, and no key is dropped.
FieldsExact ==
    LET op == ask.call.op
        n == ask.call.node
    IN
    stage = "read" /\ op \in FieldReaders =>
        /\ got.status = "OK" => FieldShape(op, n) /\ ReadAs(op, n)
        /\ got.status \in {"EINVAL", "ERANGE"} => ~(FieldShape(op, n) /\ Roomy(op, n))

\* A name without its underscores and capitals.
Bare(t) == SelectSeq([i \in DOMAIN t |-> Fold(t[i])], LAMBDA c : c # "_")

\* What was read is one of the terms, and nothing is refused that is a term.
TreeRead(terms) == (got.status = "OK" => terms = {Unfolded(got.tree, 1)}) /\ (got.status = "EINVAL" => terms = {})

SnapshotRead(n, shape, roomy) ==
    /\ got.status = "OK" =>
        /\ got.meta = WorkflowJson(n)
        /\ \A i \in DOMAIN got.tasks :
            LET task == Get(n, "tasks").items[i].val IN
            got.tasks[i].json = TaskJson(task) /\ Unfolded(got.tasks[i].tree, 1) \in TaskMeans(task)
    /\ (got.status = "OK" => shape) /\ (got.status = "EINVAL" => ~(shape /\ roomy))

\* An orchestration is read as the tree that it stands for (orch_yaml.c,
\* orch_tree.c): "ENOMEM while fetching a present branch must never commit a
\* shortened AST", a tree is refused only when the document is ill-formed or
\* exceeds a bound, and the last spelling of a parameter counts; the three ways
\* in which names are compared agree on what spellings are the same.  A snapshot
\* has the tree of the one runner of each of its tasks (workflow_snapshot.c); a
\* task may have retries whatever its runner is, which the documentation does not
\* grant (RetriesOfToolsOnly).
TreesExact ==
    LET n == ask.call.node IN
    stage = "read" =>
        /\ ask.call.op \in TreeReaders =>
            TreeRead({t \in IF ask.call.op = "named" THEN Means(n, 0) ELSE FlatMeans(n, ask.call.key) : Bounded(t)})
        /\ ask.call.op = "names" => got.args = [i \in 1 .. 3 |-> Bare(n.items[1].val.text) = Bare(n.items[2].val.text)]
        /\ ask.call.op = "snapshot" => SnapshotRead(n, SnapshotShape(n), SnapshotRoomy(n))

\* "only the `tool:` runner accepts `retries`" (docs/HOST_TOOL.md): a workflow
\* with a task that has retries and no tool gets no snapshot.
RetriesOfToolsOnly ==
    stage = "read" /\ ask.call.op = "snapshot" /\ got.status = "OK" =>
        \A i \in DOMAIN got.tasks :
            LET task == Get(ask.call.node, "tasks").items[i].val IN Has(task, "retries") => Has(task, "tool")

\* The owners that a result holds.
Held(op, s) ==
    CASE op \in TaskKinds -> 1 + Len(TaskTexts(s)) [] op \in ActionKinds -> 1 + Len(ActionTexts(s))
      [] op \in TreeReaders -> TreeOwners(s.tree)
      [] op = "script" -> Cardinality(DOMAIN s.own) [] op = "names" -> 0
      [] op = "snapshot" -> 6 + Sum([i \in DOMAIN s.tasks |-> 1 + TreeOwners(s.tasks[i].tree)])
      [] OTHER -> 1

\* Whichever allocation fails, a failed call leaves no owner alive and publishes
\* nothing, a successful one leaves those of its result, which destroying frees;
\* a failure is the allocator's exactly when an allocation failed; and the bytes
\* charged to an owner are those that it holds ("Failure destroys provisional
\* nodes and leaves *out unchanged", orch_tree.h).
OwnersExact ==
    LET op == ask.call.op IN
    /\ stage = "read" =>
        /\ got.live = IF got.status = "OK" THEN Held(op, got) ELSE 0
        /\ got.status = "ENOMEM" <=> ask.fault \in 1 .. got.calls
        /\ op \in FieldReaders =>
            got.origin \in CASE got.status = "OK" -> {"NONE"} [] got.status = "ENOMEM" -> {"PROVIDER", "ALLOCATION"}
                             [] OTHER -> {"INPUT"}
        /\ got.status = "OK" /\ op \in TaskKinds => got.retained = Bytes(TaskTexts(got)) /\ got.retained <= TASK_MAX_BYTES
        /\ got.status = "OK" /\ op \in ActionKinds => got.retained = Bytes(ActionTexts(got)) /\ got.retained <= ACTION_MAX_BYTES
    /\ stage = "gone" => got.live = 0
=============================================================================
