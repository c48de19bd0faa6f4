-------------------------- MODULE WorkflowSnapshot --------------------------
(* The snapshot of an inline workflow (yml/workflow_snapshot.c): a document   *)
(* is parsed, and the snapshot owns the workflow's metadata, each task's      *)
(* metadata and orchestration tree, and the dependency graph.  It is given    *)
(* out whole, or destroyed with everything in it.                             *)
EXTENDS YamlActions, YamlMetadata, OrchYaml

CONSTANTS WORKFLOW_MAX_TASKS, WORKFLOW_MAX_EDGES

-----------------------------------------------------------------------------
RECURSIVE DecimalDigits(_)
DecimalDigits(n) ==
    IF n < 10 THEN <<DigitPieces[n + 1]>> ELSE DecimalDigits(n \div 10) \o <<DigitPieces[(n % 10) + 1]>>

\* The text of an int.
DecimalText(n) == IF n < 0 THEN <<"-">> \o DecimalDigits(-n) ELSE DecimalDigits(n)

\* praktor_yaml_action_command(): the view of a command's parameters, with what
\* stands for the texts that are not there.
CommandView(s, task) ==
    LET chosen == {p \in 1 .. 4 : praktor_yaml_has(task, Parsers[p])}
        absent == "delimiter" :> <<"=">> @@ "line_separator" :> <<"LF">> @@ "filter" :> <<>>
    IN  [sequence |-> cyaml_get(task, "command").kind = "seq", command |-> View(s, "command", <<>>), commands |-> s.args,
         format |-> s.set["output_format"], parser |-> IF chosen = {} THEN "none" ELSE Parsers[Min(chosen)],
         values |-> s.own @@ "capture_group" :> DecimalText(s.set["capture_group"]) @@ absent]

\* command_tree(): the tree is made while the owner of the parameters is alive.
CommandTree(s, input) ==
    LET views == IF input.sequence THEN Create(s, "NONE") ELSE s
        tree == praktor_orch_from_command(views, input)
    IN
    IF input.sequence /\ Len(input.commands) > ORCH_MAX_COMMANDS THEN Invalid(s)
    ELSE IF views.status # "OK" THEN views ELSE IF input.sequence THEN Free(tree) ELSE tree

TreeOfParams(s, task) ==
    IF s.status # "OK" THEN s ELSE praktor_yaml_action_params_destroy(CommandTree(s, CommandView(s, task)))

command_tree(s, task) ==
    Then(praktor_yaml_action_params_create([s EXCEPT !.own = <<>>, !.args = <<>>, !.retained = 0], "command", task),
         LAMBDA t : TreeOfParams(t, task))

\* task_tree(): a task has one runner, and one that a snapshot supports.
task_tree(s, task) ==
    LET runner == IF "runner_kind" \in DOMAIN s.json THEN s.json["runner_kind"].text[1] ELSE "none"
        several == runner # "none" /\ s.json["runner_count"].number > 10
    IN
    IF s.status # "OK" THEN s
    ELSE IF several \/ praktor_yaml_has(task, "script") THEN Invalid(s)
    ELSE CASE runner = "command" -> command_tree(s, task)
           [] runner = "actions" ->
                praktor_orch_from_named_yaml(praktor_yaml_field_get(s, task, "actions"), cyaml_get(task, "actions"))
           [] runner = "orch_root" -> praktor_orch_from_flat_yaml(s, task, s.json["orch_node_type"].text[1])
           [] OTHER -> Invalid(s)

-----------------------------------------------------------------------------
\* praktor_workflow_dependencies_create() over the metadata of n tasks; what it
\* allocates counts as one.
Projection(n, names) ==
    INSTANCE WorkflowDependencies
        WITH Count <- n, Graphs <- {}, Names <- names, Dynamic <- <<"{{">>, MaxEdges <- WORKFLOW_MAX_EDGES

\* has_dynamic_marker(): the target is resolved when the trigger fires.
Target(text) == IF Contains(text, "{{") \/ Contains(text, "}}") THEN <<"{{">> ELSE text

Texts(v) == [i \in DOMAIN v.items |-> v.items[i].val.text]

\* What the graph is made from: the names, what each task depends on, and the
\* targets of its triggers, of which the last task is one.
Sources(tasks) ==
    LET Json0(t) == tasks[t + 1].json
        Listed(t) == IF "triggers" \notin DOMAIN Json0(t) THEN {}
                     ELSE UNION {Range(Texts(Json0(t)["triggers"].items[g].val)) : g \in 1 .. 3}
        Finally(t) == IF "finally" \in DOMAIN Json0(t) THEN {Json0(t)["finally"].text} ELSE {}
    IN
    [name |-> [t \in 0 .. Len(tasks) - 1 |-> Json0(t)["name"].text],
     depends_on |-> [t \in 0 .. Len(tasks) - 1 |->
                        IF "depends_on" \in DOMAIN Json0(t) THEN Texts(Json0(t)["depends_on"]) ELSE <<>>],
     triggers |-> [t \in 0 .. Len(tasks) - 1 |-> {Target(text) : text \in Listed(t) \cup Finally(t)}]]

praktor_workflow_dependencies_create(s) ==
    LET n == Len(s.tasks)
        doc == Sources(s.tasks)
        made == Create(s, "NONE")
    IN
    IF made.status # "OK" THEN made
    ELSE IF Projection(n, Range(doc.name))!Admitted(doc) THEN made ELSE Invalid(Free(made))

-----------------------------------------------------------------------------
\* A task's metadata are the snapshot's before its tree is made.
SnapshotTask(s, task) ==
    LET Kept(t) == IF t.status # "OK" THEN t ELSE [t EXCEPT !.tasks = Append(@, [json |-> t.json, tree |-> NewTree])]
        Planted(t) == IF t.status # "OK" THEN t ELSE [t EXCEPT !.tasks[Len(t.tasks)].tree = t.tree, !.tree = NewTree]
    IN
    IF s.status # "OK" THEN s
    ELSE Then(Then(praktor_yaml_task_metadata_create(s, task), LAMBDA t : task_tree(Kept(t), task)), Planted)

RECURSIVE SnapshotTasks(_, _)
SnapshotTasks(s, items) ==
    IF items = <<>> THEN s ELSE Then(SnapshotTask(s, Head(items).val), LAMBDA t : SnapshotTasks(t, Tail(items)))

\* praktor_workflow_snapshot_destroy(): the trees and the metadata of the tasks,
\* the workflow's metadata, the three arrays and the snapshot.
TaskOwn(task) == 1 + (IF task.tree = NewTree THEN 0 ELSE TreeOwners(task.tree))

praktor_workflow_snapshot_destroy(s, graph, metadata) ==
    LET own == Sum([i \in DOMAIN s.tasks |-> TaskOwn(s.tasks[i])]) IN
    [s EXCEPT !.tasks = <<>>, !.live = @ - own - 4 - (IF graph THEN 1 ELSE 0) - (IF metadata THEN 1 ELSE 0)]

\* The three arrays of the tasks are all asked for before any is looked at;
\* when one is missing the others go with the snapshot.
TaskOwners(s) ==
    LET hit == s.fault - s.calls \in 1 .. 3
        asked == [s EXCEPT !.calls = @ + 3]
    IN
    IF s.status # "OK" THEN s ELSE IF hit THEN Stop(Free(asked), "ENOMEM", "NONE") ELSE [asked EXCEPT !.live = @ + 3]

\* The metadata, the tasks one after the other, and the graph over views of them.
\* A failure destroys what there is.
SnapshotMembers(s, root) ==
    LET Graph(t) == IF t.status # "OK" THEN t ELSE Free(praktor_workflow_dependencies_create(t))
        Kept(t) == IF t.status = "OK" THEN t ELSE praktor_workflow_snapshot_destroy(t, FALSE, TRUE)
    IN
    IF s.status # "OK" THEN praktor_workflow_snapshot_destroy(s, FALSE, FALSE)
    ELSE Then(Then(SnapshotTasks([s EXCEPT !.meta = s.json], cyaml_get(root, "tasks").items),
                   LAMBDA t : Graph(Create(t, "NONE"))), Kept)

\* praktor_workflow_snapshot_create_inline(): no includes, and some tasks.
Snapshot(s, root) ==
    LET tasks == cyaml_get(root, "tasks")
        found == praktor_yaml_field_get(s, root, "tasks")
        made == TaskOwners(Create(found, "NONE"))
    IN
    IF root.kind # "map" \/ praktor_yaml_has(root, "includes") \/ ~praktor_yaml_has(root, "tasks") THEN Invalid(s)
    ELSE IF found.status = "OK" /\ (tasks.kind # "seq" \/ Len(tasks.items) \notin 1 .. WORKFLOW_MAX_TASKS) THEN Invalid(found)
    ELSE IF made.status # "OK" THEN made
    ELSE Then(praktor_yaml_workflow_metadata_create([made EXCEPT !.tasks = <<>>], root), LAMBDA t : SnapshotMembers(t, root))

praktor_workflow_snapshot_create_inline(s, root) ==
    LET document == praktor_yaml_document_create(s, root) IN
    IF document.status # "OK" THEN document ELSE Then(Snapshot(document, root), praktor_yaml_document_destroy)
=============================================================================
