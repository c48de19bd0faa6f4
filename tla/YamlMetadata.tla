---------------------------- MODULE YamlMetadata ----------------------------
(* What a workflow document says about the workflow, its tasks and its        *)
(* contract (yml/yaml_workflow_metadata.c, yaml_task_metadata.c and           *)
(* yaml_contract.c), as JSON objects.  json is the object at hand, fields the *)
(* contract's fields by name.  A value in no object yet is a live owner, and  *)
(* one in an object is not: it goes with the object.                          *)
EXTENDS YamlTaskFields

CONSTANT RETRY_MAX      \* the retries that a task may ask for, 1024

\* A failure that nobody has claimed is one of the allocator.
Blame(s) == IF s.status = "ENOMEM" /\ s.origin = "NONE" THEN [s EXCEPT !.origin = "ALLOCATION"] ELSE s

Items(keys, values) == [i \in DOMAIN values |-> [key |-> keys[i], val |-> values[i]]]

JsonList(texts) == Json("seq", <<>>, 0, [i \in DOMAIN texts |-> [key |-> <<>>, val |-> JsonText(texts[i])]])

JsonBool(flag) == Json("bool", <<>>, IF flag THEN 1 ELSE 0, <<>>)

JsonNumber(n) == Json("number", <<>>, 10 * n, <<>>)

\* native_list_json() and the like: a value is made with all that is in it.
Join(s) == IF s.status # "OK" THEN s ELSE Free(Undo(Allocate(s, "NONE")))

RECURSIVE Build(_, _)
RECURSIVE BuildEach(_, _)
BuildEach(s, items) ==
    IF s.status # "OK" \/ items = <<>> THEN s ELSE BuildEach(Join(Undo(Build(s, Head(items).val))), Tail(items))

Build(s, v) == BuildEach(Create(s, "NONE"), v.items)

\* A value that was made goes into the object at hand, or is freed.
Insert(s, key, v) ==
    LET added == Allocate(s, "NONE") IN
    IF s.status # "OK" THEN s ELSE Free(IF added.status # "OK" THEN added ELSE [added EXCEPT !.json = (key :> v) @@ @])

add_owned(s, key, v) == Insert(Build(s, v), key, v)

\* The text in the hand becomes a member and is freed.
add_text(s, key) == IF s.status # "OK" THEN s ELSE Free(add_owned(s, key, JsonText(s.text)))

\* The scalar of a field that is there.
ReadField(s, node, key) == read_scalar(praktor_yaml_field_get(s, node, key), cyaml_get(node, key), FALSE)

add_scalar(s, node, key) == IF praktor_yaml_has(node, key) THEN add_text(ReadField(s, node, key), key) ELSE s

\* A field is read by an owner of its own, whose view is made into a value.
Fresh(s) ==
    LET empty == Reading(0) IN
    [s EXCEPT !.own = empty.own, !.lists = empty.lists, !.maps = empty.maps, !.expanded = 0, !.retained = 0]

\* An owner's text, or what stands for one that is not there.
View(o, field, default) == IF field \in DOMAIN o.own THEN o.own[field] ELSE default

\* add_map(), add_list(), add_each_metadata() and add_triggers_metadata()
add_map(o) == Json("map", <<>>, 0, [i \in DOMAIN o.maps[1] |-> [key |-> o.maps[1][i].key, val |-> JsonText(o.maps[1][i].values[1])]])

add_list(o) == JsonList(o.lists[1])

add_each_metadata(o) ==
    LET matrix == [i \in DOMAIN o.maps[2] |-> [key |-> o.maps[2][i].key, val |-> JsonList(o.maps[2][i].values)]] IN
    Json("map", <<>>, 0, Items(EachKeys,
        <<JsonList(o.lists[1]), Json("map", <<>>, 0, matrix), JsonText(View(o, "as", <<"item">>)),
          JsonText(View(o, "index_variable", <<>>))>>))

add_triggers_metadata(o) ==
    Json("map", <<>>, 0, Items(Groups, <<JsonList(o.lists[1]), JsonList(o.lists[2]), JsonList(o.lists[3])>>))

OwnerView(o, kind) ==
    CASE kind = "map" -> add_map(o) [] kind = "list" -> add_list(o) [] kind = "each" -> add_each_metadata(o)
      [] OTHER -> add_triggers_metadata(o)

AddView(o, member, kind) ==
    IF o.status # "OK" THEN o ELSE praktor_yaml_task_fields_destroy(add_owned(o, member, OwnerView(o, kind)))

FromOwner(s, node, key, kind) ==
    LET member == IF key = "dotEnv" THEN "dot_env" ELSE key
        got == Fresh(praktor_yaml_field_get(s, node, key))
    IN
    IF s.status # "OK" \/ ~praktor_yaml_has(node, key) THEN s
    ELSE IF got.status # "OK" THEN got
    ELSE Then(praktor_yaml_task_fields_create(got, kind, cyaml_get(node, key)), LAMBDA o : AddView(o, member, kind))

-----------------------------------------------------------------------------
\* The digits of a retry count, none of which may take it beyond the bound.
RetryDigit(n, c) ==
    IF n.bad \/ ~IsDigit(c, 10) \/ n.count > RETRY_MAX \div 10 \/ (n.count = RETRY_MAX \div 10 /\ Digit(c) > RETRY_MAX % 10)
    THEN [n EXCEPT !.bad = TRUE] ELSE [n EXCEPT !.count = 10 * @ + Digit(c)]

RECURSIVE RetryDigits(_, _)
RetryDigits(n, t) == IF t = <<>> THEN n ELSE RetryDigits(RetryDigit(n, Head(t)), Tail(t))

RetryCount(t) == RetryDigits([bad |-> t = <<>>, count |-> 0], t)

\* A timeout beside a child is no metadata but a node of the orchestration.
add_timeout_retry(s, node) ==
    LET limit == cyaml_get(node, "timeout")
        Looked(t) == praktor_yaml_field_get(praktor_yaml_field_get(t, node, "timeout"), node, "child")
        Timed(t) == IF limit.kind = "scalar" /\ ~praktor_yaml_has(node, "child")
                    THEN add_text(read_scalar(t, limit, FALSE), "timeout") ELSE t
        retries == cyaml_get(node, "retries")
        count == RetryCount(cyaml_get(retries, "count").text)
        Counted(t) == IF count.bad THEN Refuse(t) ELSE add_owned(t, "retry_count", JsonNumber(count.count))
        Checked(t) == praktor_yaml_check_keys(praktor_yaml_field_get(t, node, "retries"), retries, {"count"})
        Retried(t) ==
            IF ~praktor_yaml_has(node, "retries") THEN t
            ELSE IF retries.kind # "map" \/ ~praktor_yaml_has(retries, "count") THEN Refuse(Checked(t))
            ELSE Counted(Dispose(ReadField(Checked(t), retries, "count")))
    IN  Then(Then(Looked(s), Timed), Retried)

AddFlag(s, key) == IF s.status # "OK" THEN s ELSE add_owned(s, key, JsonBool(s.flag))

\* A member that is a boolean.
add_boolean(s, node, key) ==
    IF praktor_yaml_has(node, key)
    THEN AddFlag(praktor_yaml_field_boolean(praktor_yaml_field_get(s, node, key), cyaml_get(node, key), FALSE), key) ELSE s

add_silent_metadata(s, node) == add_boolean(s, node, "silent")

-----------------------------------------------------------------------------
\* The runners of a task, in the order in which they are looked for.
DirectRunners ==
    <<"command", "actions", "program", "download", "service", "managed_process", "uses", "dynamic_tasks", "tool">>

Controls == <<"sequence", "parallel", "reactive_sequence", "pipeline_sequence", "fallback", "selector">>

CommandParsers == {"parse_json", "parse_regex", "parse_lines", "parse_keyvalue"}

Leaves ==
    <<"shell", "parse_json", "parse_regex", "parse_lines", "parse_keyvalue", "check_exit_code", "wait_event", "file_exists",
      "sleep", "set_variable", "subtree">>

Wrappers == <<"inverter", "force_success", "force_failure">>

Decorators ==
    <<"repeat", "timeout", "delay", "run_once", "keep_running_until_failure", "consume_queue", "precondition", "entry_updated">>

Advanced == <<"switch", "if", "while">>

OrchRunners == Controls \o Leaves \o Wrappers \o Decorators \o Advanced

\* record_runner_candidate(): a key is a runner only with what goes with it.
IsRunner(node, key) ==
    /\ praktor_yaml_has(node, key)
    /\ key \in CommandParsers => ~praktor_yaml_has(node, "command")
    /\ key \in Range(Decorators) => praktor_yaml_has(node, "child")
    /\ key = "switch" => praktor_yaml_has(node, "cases")
    /\ key = "if" => praktor_yaml_has(node, "then")
    /\ key = "while" => praktor_yaml_has(node, "do")

RunnersOf(node) == SelectSeq(DirectRunners \o OrchRunners, LAMBDA key : IsRunner(node, key))

add_runner_selection(s, node) ==
    LET runners == RunnersOf(node)
        direct == runners[1] \in Range(DirectRunners)
        Counted(t) == add_owned(t, "runner_count", JsonNumber(Len(runners)))
        Kinded(t) == add_owned(t, "runner_kind", JsonText(<<IF direct THEN runners[1] ELSE "orch_root">>))
        Typed(t) == IF direct THEN t ELSE add_owned(t, "orch_node_type", JsonText(<<runners[1]>>))
    IN
    IF runners = <<>> THEN s ELSE Typed(Kinded(Counted(s)))

TaskKeys ==
    {"name", "description", "depends_on", "vars", "env", "dotEnv", "when", "each", "timeout", "retries", "triggers",
     "working_dir", "silent", "sources", "generates", "finally", "args", "stdin", "output_format", "with", "script",
     "then", "else", "do", "max_iterations", "child", "cases"} \cup Range(DirectRunners \o OrchRunners)

\* A name, or a last task, that is there must not be empty.  The text of an
\* empty name is freed last, with the object.
RequiredName(s, node) ==
    IF ~praktor_yaml_has(node, "name") THEN Refuse(s)
    ELSE IF cyaml_get(node, "name").text = <<>> THEN Refuse(Dispose(ReadField(s, node, "name")))
    ELSE add_text(ReadField(s, node, "name"), "name")

\* A directory may be empty and then is none.
OptionalUnlessEmpty(s, node, key) ==
    IF ~praktor_yaml_has(node, key) THEN s
    ELSE IF cyaml_get(node, key).text # <<>> THEN add_text(ReadField(s, node, key), key)
    ELSE Require(Dispose(ReadField(s, node, key)), key # "finally")

\* The members in the order in which they are read.
TaskOrder ==
    <<"name", "description", "depends_on", "vars", "env", "dotEnv", "when", "each", "timeout", "triggers", "working_dir",
      "silent", "sources", "generates", "finally">>

OwnerKind(key) ==
    CASE key \in {"vars", "env", "variables"} -> "map" [] key \in {"each", "triggers"} -> key [] OTHER -> "list"

TaskMember(s, node, key) ==
    CASE key = "name" -> RequiredName(s, node)
      [] key \in {"description", "when"} -> add_scalar(s, node, key)
      [] key = "timeout" -> add_timeout_retry(s, node)
      [] key \in {"working_dir", "finally"} -> OptionalUnlessEmpty(s, node, key)
      [] key = "silent" -> add_silent_metadata(s, node)
      [] OTHER -> FromOwner(s, node, key, OwnerKind(key))

RECURSIVE TaskMembers(_, _, _)
TaskMembers(s, node, order) ==
    IF order = <<>> THEN add_runner_selection(s, node)
    ELSE Then(TaskMember(s, node, Head(order)), LAMBDA t : TaskMembers(t, node, Tail(order)))

praktor_yaml_task_metadata_create(s, node) ==
    LET extras == praktor_yaml_has(node, "set_variable") /\ (praktor_yaml_has(node, "value") \/ praktor_yaml_has(node, "from"))
        Keys(t) == praktor_yaml_check_keys(t, node, TaskKeys \cup (IF extras THEN {"value", "from"} ELSE {}))
        Tooled(t) == IF praktor_yaml_has(node, "with") /\ ~praktor_yaml_has(node, "tool")
                     THEN Refuse(praktor_yaml_field_get(t, node, "with")) ELSE t
        made == Create(Tooled(Keys([s EXCEPT !.json = <<>>])), "ALLOCATION")
    IN
    IF node.kind # "map" THEN Refuse(s)
    ELSE IF made.status # "OK" THEN Blame(made) ELSE Then(TaskMembers(made, node, TaskOrder), LAMBDA t : Blame(Undo(t)))

\* The script of a task, which must not be empty; it is the caller's.
praktor_yaml_task_script_read(s, node) ==
    IF ~praktor_yaml_has(node, "script") THEN s
    ELSE IF cyaml_get(node, "script").text = <<>> THEN Refuse(Dispose(ReadField(s, node, "script")))
    ELSE Keep(ReadField(s, node, "script"), "script")

-----------------------------------------------------------------------------
WorkflowKeys ==
    {"name", "description", "inputs", "outputs", "input_policy", "variables", "env", "dotEnv", "defaults", "includes", "tasks"}

InputPolicy(s, text) ==
    IF s.status # "OK" THEN s
    ELSE IF text \notin {<<"strict">>, <<"allow_extra">>} THEN Refuse(Free(s))
    ELSE Free(add_owned(s, "strict_inputs", JsonBool(text = <<"strict">>)))

\* The defaults are an object of their own, which is filled while the other waits.
WorkflowDefaults(s, n) ==
    LET Members(json) == Items(<<"timeout">>, IF "timeout" \in DOMAIN json THEN <<json["timeout"]>> ELSE <<>>)
        made == Create(praktor_yaml_check_keys([s EXCEPT !.json = <<>>], n, {"timeout"}), "NONE")
        Filled(t) == Insert([t EXCEPT !.json = s.json], "defaults", Json("map", <<>>, 0, Members(t.json)))
    IN
    IF n.kind # "map" THEN Refuse(s)
    ELSE IF made.status # "OK" THEN made ELSE Filled(Undo(add_scalar(made, n, "timeout")))

WorkflowOrder == <<"name", "description", "input_policy", "variables", "env", "dotEnv", "defaults">>

WorkflowMember(s, node, key) ==
    CASE key \in {"name", "description"} -> add_scalar(s, node, key)
      [] key \in {"input_policy", "defaults"} /\ ~praktor_yaml_has(node, key) -> s
      [] key = "input_policy" -> InputPolicy(ReadField(s, node, key), cyaml_get(node, key).text)
      [] key = "defaults" -> WorkflowDefaults(praktor_yaml_field_get(s, node, key), cyaml_get(node, key))
      [] OTHER -> FromOwner(s, node, key, OwnerKind(key))

RECURSIVE WorkflowMembers(_, _, _)
WorkflowMembers(s, node, order) ==
    IF order = <<>> THEN s
    ELSE Then(WorkflowMember(s, node, Head(order)), LAMBDA t : WorkflowMembers(t, node, Tail(order)))

praktor_yaml_workflow_metadata_create(s, node) ==
    LET made == Create(praktor_yaml_check_keys([s EXCEPT !.json = <<>>], node, WorkflowKeys), "ALLOCATION") IN
    IF node.kind # "map" THEN Refuse(s)
    ELSE IF made.status # "OK" THEN Blame(made) ELSE Then(WorkflowMembers(made, node, WorkflowOrder), LAMBDA t : Blame(Undo(t)))

-----------------------------------------------------------------------------
ContractTypes == {"string", "boolean", "integer", "number", "array", "object"}

\* Every integer is a number too.
praktor_contract_value_matches_type(v, type) ==
    CASE type = "string" -> v.type = "string" [] type = "boolean" -> v.type = "bool" [] type = "integer" -> v.type = "integer"
      [] type = "number" -> v.type \in {"integer", "number"} [] type = "array" -> v.type = "seq" [] OTHER -> v.type = "map"

\* A value of the declared type, or a refusal.
Matching(s) ==
    IF s.status # "OK" \/ praktor_contract_value_matches_type(s.value, s.json["type"].text[1]) THEN s ELSE Refuse(Free(s))

TypedValue(s, n) == Matching(praktor_yaml_value(s, n))

\* A value of the enumeration, which waits for its place in a list.
EnumJoin(s) == IF s.status # "OK" THEN s ELSE [Join(s) EXCEPT !.args = Append(@, s.value)]

RECURSIVE EnumEach(_, _)
EnumEach(s, items) ==
    IF s.status # "OK" \/ items = <<>> THEN s ELSE EnumEach(EnumJoin(Undo(TypedValue(s, Head(items).val))), Tail(items))

EnumValues(s, n) ==
    LET Listing(t) == Insert(t, "enum", Json("seq", <<>>, 0, [i \in DOMAIN t.args |-> [key |-> <<>>, val |-> t.args[i]]])) IN
    IF n.kind # "seq" \/ n.items = <<>> THEN Refuse(s) ELSE Listing(EnumEach(Create([s EXCEPT !.args = <<>>], "NONE"), n.items))

\* The members of a field after its type, in the order in which they are read.
FieldMembers(s, node) ==
    LET Inserted(t) == Insert(t, "default", t.value)
        Default(t) ==
            IF praktor_yaml_has(node, "default")
            THEN Inserted(TypedValue(praktor_yaml_field_get(t, node, "default"), cyaml_get(node, "default"))) ELSE t
        Enum(t) ==
            IF praktor_yaml_has(node, "enum") THEN EnumValues(praktor_yaml_field_get(t, node, "enum"), cyaml_get(node, "enum")) ELSE t
    IN  Enum(Default(add_scalar(add_scalar(add_boolean(s, node, "required"), node, "description"), node, "value")))

parse_field(s, node, output) ==
    LET allowed == {"type", "required", "default", "enum", "description"} \cup (IF output THEN {"value"} ELSE {})
        Typed(t) == IF ~praktor_yaml_has(node, "type") THEN Refuse(t) ELSE ReadField(t, node, "type")
        Known(t) == IF t.status # "OK" \/ \E type \in ContractTypes : t.text = <<type>> THEN t ELSE Refuse(Free(t))
        Made(t) == IF t.status # "OK" THEN t ELSE Undo(Create([t EXCEPT !.json = <<>>], "NONE"))
        made == Made(Known(Typed(praktor_yaml_check_keys(s, node, allowed))))
    IN
    IF node.kind # "map" THEN Refuse(s)
    ELSE IF made.status # "OK" THEN made ELSE Undo(FieldMembers(add_text(made, "type"), node))

\* The first field of a name is the one that counts.
ContractField(s, item, output) ==
    LET k == praktor_yaml_field_decode(s, KeyNode(item))
        Added(f) ==
            IF item.key \in DOMAIN f.fields THEN Free(Free(f))
            ELSE IF Breaks(f) THEN Free(Free(Allocate(f, "NONE")))
            ELSE [Free(Free(Allocate(f, "NONE"))) EXCEPT !.fields = (item.key :> f.json) @@ @]
        Parsed(f) == IF f.status # "OK" THEN Free(f) ELSE Added(f)
    IN
    IF k.status # "OK" THEN k
    ELSE IF k.text = <<>> THEN Refuse(Free(k)) ELSE Parsed(parse_field(k, item.val, output))

RECURSIVE ContractFields(_, _, _)
ContractFields(s, items, output) ==
    IF items = <<>> THEN s ELSE ContractFields(ContractField(s, Head(items), output), Tail(items), output)

praktor_yaml_contract_fields_create(s, node, output) ==
    LET made == Create([s EXCEPT !.fields = <<>>], "ALLOCATION") IN
    IF node.kind # "map" THEN Refuse(s)
    ELSE IF made.status # "OK" THEN Blame(made)
    ELSE Blame(Undo(ContractFields(made, node.items, output)))
=============================================================================
