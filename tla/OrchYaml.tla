------------------------------ MODULE OrchYaml ------------------------------
(* Orchestration nodes in YAML (yml/orch_yaml.c): the named form, a mapping   *)
(* of a type to its parameters and children, and the flat forms with sibling  *)
(* keys.  The reader fills rows, each with its type, its parent and owned     *)
(* keys and values, and hands them to praktor_orch_from_flat_nodes().         *)
EXTENDS OrchTree

CONSTANT NAMED_YAML_MAX_DEPTH

\* key_is(): a loop that steps over the underscores of both, and what is left.
key_is(key, expected) ==
    LET steps == Len(key) + Len(expected)
        Step(p, k) ==
            IF p.stop \/ p.i > Len(key) \/ p.j > Len(expected) THEN p
            ELSE IF key[p.i] = "_" THEN [p EXCEPT !.i = @ + 1]
            ELSE IF expected[p.j] = "_" THEN [p EXCEPT !.j = @ + 1]
            ELSE IF Fold(key[p.i]) # Fold(expected[p.j]) THEN [p EXCEPT !.stop = TRUE]
            ELSE [p EXCEPT !.i = @ + 1, !.j = @ + 1]
        p == FoldLeft(Step, [i |-> 1, j |-> 1, stop |-> FALSE], [k \in 1 .. steps |-> k])
        Blank(t, from) == \A k \in from .. Len(t) : t[k] = "_"
    IN  ~p.stop /\ Blank(key, p.i) /\ Blank(expected, p.j)

\* flat_key_matches(): underscores are skipped before each letter.
flat_key_matches(actual, expected) ==
    LET Skip(t, i) == Min({k \in i .. Len(t) + 1 : ~IsAt(t, k, "_")})
        Step(p, k) ==
            LET a == Skip(actual, p.a)
                e == Skip(expected, p.e)
            IN
            IF p.done THEN p
            ELSE IF a > Len(actual) \/ e > Len(expected)
            THEN [p EXCEPT !.done = TRUE, !.same = a > Len(actual) /\ e > Len(expected)]
            ELSE IF Fold(actual[a]) # Fold(expected[e]) THEN [p EXCEPT !.done = TRUE]
            ELSE [p EXCEPT !.a = a + 1, !.e = e + 1]
    IN  FoldLeft(Step, [a |-> 1, e |-> 1, done |-> FALSE, same |-> FALSE], [k \in 1 .. Len(actual) + 1 |-> k]).same

-----------------------------------------------------------------------------
\* praktor_yaml_scalar() and praktor_yaml_key(): a text of the reader's own.
Scalar(s, node) == IF node.kind # "scalar" THEN Invalid(s) ELSE praktor_yaml_field_decode(s, node)

\* A key is decoded, looked at and freed.
WithKey(s, item) == Dispose(praktor_yaml_field_decode(s, KeyNode(item)))

runtime_scalar(text) == \E i \in DOMAIN text : text[i] \in {"{", "}"}

IntegerKeys ==
    {"capture_group", "expected", "timeout", "num_attempts", "num_cycles", "timeout_ms", "delay_ms", "max_iterations"}

BooleanKeys == {"stream_output", "fail_if_missing"}

IsInteger(text) == IsDecimal(IF text # <<>> /\ text[1] = "+" THEN <<"-">> \o Tail(text) ELSE text)

\* validate_param(): a value with braces is left to the run.
validate_param(key, text) ==
    \/ runtime_scalar(text)
    \/ /\ Canon(key) \in IntegerKeys => IsInteger(text)
       /\ Canon(key) \in BooleanKeys => Lower(text) \in {<<"true">>, <<"false">>}

\* Mutant: the value that another spelling of its key replaces is not freed.
ReplaceParamKept(s, i, j, key, text) == [s EXCEPT !.rows[i].params[j] = Param(key, text)]

\* The last of two spellings counts; the first one's key and value are freed.
ReplaceParam(s, i, j, key, text) == [Free(Free(s)) EXCEPT !.rows[i].params[j] = Param(key, text)]

\* param_with_source() takes the key and the value on every path.
param_with_source(s, i, key) ==
    LET params == s.rows[i].params
        same == {j \in DOMAIN params : Canon(params[j].key) = Canon(key)}
    IN
    IF s.status # "OK" THEN s
    ELSE IF ~validate_param(key, s.text) THEN Invalid(Free(Free(s)))
    ELSE IF same # {} THEN ReplaceParam(s, i, Min(same), key, s.text)
    ELSE IF Len(params) >= ORCH_MAX_PARAMS THEN Invalid(Free(Free(s)))
    ELSE [s EXCEPT !.rows[i].params = Append(@, Param(key, s.text))]

\* flat_add_param(): the key is copied; the value goes when that fails.
flat_add_param(s, i, key) ==
    IF s.status # "OK" THEN s ELSE param_with_source(Undo(Create(s, "NONE")), i, key)

flat_append_node(s, type, parent, depth) ==
    IF s.status # "OK" THEN s
    ELSE IF depth > NAMED_YAML_MAX_DEPTH \/ Len(s.rows) >= ORCH_MAX_NODES THEN Invalid(s)
    ELSE [s EXCEPT !.rows = Append(@, Row(type, parent))]

\* flat_require(): a field that must be there is fetched.
flat_require(s, map, key) == IF praktor_yaml_has(map, key) THEN praktor_yaml_field_get(s, map, key) ELSE Invalid(s)

-----------------------------------------------------------------------------
\* The flat forms with one child, and the parameter that their key holds.
SingleChild ==
    "timeout" :> "timeout_ms" @@ "repeat" :> "num_cycles" @@ "delay" :> "delay_ms"
    @@ "keep_running_until_failure" :> "max_iterations" @@ "precondition" :> "condition"
    @@ "entry_updated" :> "watch_key" @@ "consume_queue" :> "queue_key" @@ "run_once" :> "none"

FlatType == "if" :> "if_then_else" @@ "while" :> "while_do" @@ "switch" :> "switch" @@ "set_variable" :> "set_variable"

FlatSiblings ==
    "if" :> {"if", "then", "else"} @@ "while" :> {"while", "do", "max_iterations"} @@ "switch" :> {"switch", "cases"}
    @@ "set_variable" :> {"set_variable", "value", "from"}

\* flat_single_child_kind() and flat_key_allowed()
flat_key_allowed(key, kind) ==
    Canon(key) \in (IF kind \in DOMAIN SingleChild THEN {kind, "child"} ELSE FlatSiblings[kind])

\* flat_task_metadata_key()
FlatTaskKeys ==
    {"name", "description", "depends_on", "vars", "env", "dot_env", "fallback", "selector", "when", "each", "timeout",
     "triggers", "working_dir", "silent", "sources", "generates", "finally", "command", "uses", "dynamic_tasks",
     "output_format", "parse_regex", "parse_json", "parse_lines", "parse_keyvalue", "script", "actions"}

ValidateKey(s, item, allowed) == IF allowed THEN WithKey(s, item) ELSE Invalid(WithKey(s, item))

RECURSIVE ValidateKeys(_, _, _, _)
ValidateKeys(s, items, kind, allow_metadata) ==
    LET key == Head(items).key
        allowed == flat_key_allowed(key, kind) \/ (allow_metadata /\ Canon(key) \in FlatTaskKeys)
    IN
    IF items = <<>> THEN s ELSE ValidateKeys(ValidateKey(s, Head(items), allowed), Tail(items), kind, allow_metadata)

flat_validate_keys(s, map, kind, allow_metadata) == ValidateKeys(s, map.items, kind, allow_metadata)

Retired == {"if_then_else", "while_do", "switch", "set_variable", "timeout", "repeat", "delay"}

\* validate_named_row(): the subtree is read, and its root is complete.
validate_named_row(s, i) ==
    LET row == s.rows[i]
        Present(key) == \E j \in DOMAIN row.params : Canon(row.params[j].key) = key
        children == Cardinality({j \in i + 1 .. Len(s.rows) : s.rows[j].parent = i})
    IN
    IF \/ s.status # "OK"
       \/ /\ \A key \in Range(catalog[row.type].required) : Present(key)
          /\ ChildCount(row.type, children, Present("condition"))
    THEN s ELSE Invalid(s)

\* One member of a named node's mapping: a parameter, or the children's place.
NamedMember(s, i, item) ==
    LET k == praktor_yaml_field_decode(s, KeyNode(item)) IN
    IF Canon(item.key) \in {"child", "children"} THEN WithKey(s, item)
    ELSE IF ~Allows(s.rows[i].type, item.key) THEN Invalid(WithKey(s, item))
    ELSE IF k.status # "OK" THEN k ELSE param_with_source(Undo(Scalar(k, item.val)), i, item.key)

RECURSIVE NamedMembers(_, _, _)
NamedMembers(s, i, items) == IF items = <<>> THEN s ELSE NamedMembers(NamedMember(s, i, Head(items)), i, Tail(items))

-----------------------------------------------------------------------------
RECURSIVE parse(_, _, _, _)
RECURSIVE children(_, _, _, _)
RECURSIVE flat_branch(_, _, _, _)
RECURSIVE flat_parse(_, _, _, _, _, _)
RECURSIVE parse_named_entry(_, _, _, _)

RECURSIVE ParseEach(_, _, _, _)
ParseEach(s, items, parent, depth) ==
    IF items = <<>> THEN s ELSE ParseEach(parse(s, Head(items).val, parent, depth), Tail(items), parent, depth)

children(s, node, parent, depth) ==
    IF node.kind # "seq" THEN Invalid(s) ELSE ParseEach(s, node.items, parent, depth + 1)

\* Several nodes in a branch are a sequence.
flat_branch(s, branch, parent, depth) ==
    LET several == branch.kind = "seq"
        above == IF several THEN flat_append_node(s, "sequence", parent, depth) ELSE s
    IN
    IF several /\ branch.items = <<>> THEN Invalid(s)
    ELSE ParseEach(above, IF several THEN branch.items ELSE <<[val |-> branch]>>,
                   IF several THEN Len(s.rows) + 1 ELSE parent, depth + 1)

\* A key's value, which must be a scalar, becomes a parameter.
ScalarParam(s, n, i, key) == flat_add_param(Scalar(s, n), i, key)

FieldParam(s, map, field, i, key) == ScalarParam(flat_require(s, map, field), cyaml_get(map, field), i, key)

\* Mutant: an else branch that cannot be fetched is taken for none.
FlatBranchShortened(s, map, key, i, depth) ==
    LET looked == flat_require(s, map, key) IN
    IF key = "else" /\ s.status = "OK" /\ looked.status # "OK" THEN [s EXCEPT !.calls = looked.calls]
    ELSE flat_branch(looked, cyaml_get(map, key), i, depth)

FlatBranch(s, map, key, i, depth) == flat_branch(flat_require(s, map, key), cyaml_get(map, key), i, depth)

RECURSIVE FlatBranches(_, _, _, _, _)
FlatBranches(s, map, keys, i, depth) ==
    IF keys = <<>> THEN s ELSE FlatBranches(FlatBranch(s, map, Head(keys), i, depth), map, Tail(keys), i, depth)

\* A condition is a scalar or the first branch.
ScalarCondition(s, map, key, i) ==
    IF cyaml_get(map, key).kind = "scalar" THEN FieldParam(s, map, key, i, "condition") ELSE s

TestBranch(map, key) == IF cyaml_get(map, key).kind = "scalar" THEN <<>> ELSE <<key>>

\* The flat forms, each with the keys that it reads in their order.  The value
\* of run_once is read and left.
FlatSingle(s, map, i, depth, kind) ==
    LET n == cyaml_get(map, kind)
        Valued(t) == IF kind = "run_once" THEN Dispose(Scalar(t, n)) ELSE ScalarParam(t, n, i, SingleChild[kind])
    IN  flat_branch(Valued(flat_require(flat_require(s, map, kind), map, "child")), cyaml_get(map, "child"), i, depth)

FlatIf(s, map, i, depth) ==
    LET otherwise == IF praktor_yaml_has(map, "else") THEN <<"else">> ELSE <<>> IN
    FlatBranches(ScalarCondition(s, map, "if", i), map, TestBranch(map, "if") \o <<"then">> \o otherwise, i, depth)

FlatWhile(s, map, i, depth) ==
    LET Limited(t) == IF praktor_yaml_has(map, "max_iterations") THEN FieldParam(t, map, "max_iterations", i, "max_iterations")
                      ELSE t
        tested == FlatBranches(ScalarCondition(s, map, "while", i), map, TestBranch(map, "while"), i, depth)
    IN  FlatBranch(Limited(tested), map, "do", i, depth)

RECURSIVE FlatCases(_, _, _, _)
FlatCases(s, items, i, depth) ==
    IF items = <<>> THEN s ELSE FlatCases(flat_branch(s, Head(items).val, i, depth), Tail(items), i, depth)

FlatSwitch(s, map, i, depth) ==
    LET cases == cyaml_get(map, "cases")
        Found(t) == IF cases.kind # "seq" \/ cases.items = <<>> THEN Invalid(t) ELSE t
    IN
    IF ~praktor_yaml_has(map, "cases") THEN Invalid(s)
    ELSE FlatCases(Found(flat_require(FieldParam(s, map, "switch", i, "variable"), map, "cases")), cases.items, i, depth)

FlatSet(s, map, i) ==
    LET source == IF praktor_yaml_has(map, "value") THEN "value" ELSE "from" IN
    IF praktor_yaml_has(map, "value") = praktor_yaml_has(map, "from") THEN Invalid(s)
    ELSE FieldParam(FieldParam(s, map, "set_variable", i, "key"), map, source, i, source)

flat_parse(s, map, parent, depth, kind, allow_metadata) ==
    LET type == IF kind \in DOMAIN SingleChild THEN kind ELSE FlatType[kind]
        i == Len(s.rows) + 1
        added == flat_append_node(flat_validate_keys(s, map, kind, allow_metadata), type, parent, depth)
    IN
    IF map.kind # "map" THEN Invalid(s)
    ELSE IF added.status # "OK" THEN added
    ELSE CASE kind \in DOMAIN SingleChild -> FlatSingle(added, map, i, depth, kind)
           [] kind = "if" -> FlatIf(added, map, i, depth)
           [] kind = "while" -> FlatWhile(added, map, i, depth)
           [] kind = "switch" -> FlatSwitch(added, map, i, depth)
           [] OTHER -> FlatSet(added, map, i)

-----------------------------------------------------------------------------
\* The members come before the children, which are looked up by their exact name.
NamedPlaces(node) == {Canon(node.items[k].key) : k \in DOMAIN node.items} \cap {"child", "children"}

NamedChildren(s, node, i, depth) ==
    LET place == IF "children" \in NamedPlaces(node) THEN "children" ELSE "child"
        got == flat_require(s, node, place)
    IN
    IF Cardinality(NamedPlaces(node)) = 2 THEN Invalid(s)
    ELSE IF NamedPlaces(node) = {} \/ s.status # "OK" THEN s
    ELSE IF ~catalog[s.rows[i].type].allows_children THEN Invalid(got)
    ELSE IF place = "children" THEN children(got, cyaml_get(node, place), i, depth)
    ELSE flat_branch(got, cyaml_get(node, place), i, depth)

NamedMapping(s, node, i, depth) == NamedChildren(NamedMembers(s, i, node.items), node, i, depth)

\* The value alone stands for the one parameter that the type requires.
NamedScalar(s, node, i) ==
    LET required == catalog[s.rows[i].type].required IN
    IF node.kind # "scalar" \/ Len(required) # 1 THEN Invalid(s) ELSE ScalarParam(s, node, i, required[1])

NamedValue(s, node, i, depth) ==
    CASE node.kind = "seq" -> IF catalog[s.rows[i].type].allows_children THEN children(s, node, i, depth) ELSE Invalid(s)
      [] node.kind = "map" -> NamedMapping(s, node, i, depth)
      [] OTHER -> NamedScalar(s, node, i)

parse_named_entry(s, item, parent, depth) ==
    LET type == Canon(item.key)
        i == Len(s.rows) + 1
        typed == flat_append_node(IF type \in Retired \/ type \notin DOMAIN catalog THEN Invalid(WithKey(s, item))
                                  ELSE WithKey(s, item), type, parent, depth)
    IN
    IF depth > NAMED_YAML_MAX_DEPTH \/ Len(s.rows) >= ORCH_MAX_NODES THEN Invalid(s)
    ELSE IF typed.status # "OK" THEN typed
    ELSE validate_named_row(NamedValue(typed, item.val, i, depth), i)

\* The flat form that a mapping is, if it is one.
FlatForms(map) ==
    LET Is(kind) ==
            /\ praktor_yaml_has(map, kind)
            /\ CASE kind = "if" -> praktor_yaml_has(map, "then")
                 [] kind = "while" -> praktor_yaml_has(map, "do")
                 [] kind = "switch" -> praktor_yaml_has(map, "cases")
                 [] kind = "set_variable" -> praktor_yaml_has(map, "value") \/ praktor_yaml_has(map, "from")
                 [] OTHER -> praktor_yaml_has(map, "child")
    IN  SelectSeq(<<"if", "while", "switch", "set_variable", "timeout", "repeat", "delay">>, Is)

parse(s, map, parent, depth) ==
    IF FlatForms(map) # <<>> THEN flat_parse(s, map, parent, depth, FlatForms(map)[1], FALSE)
    ELSE IF depth > NAMED_YAML_MAX_DEPTH \/ map.kind # "map" \/ Len(map.items) # 1 THEN Invalid(s)
    ELSE parse_named_entry(s, map.items[1], parent, depth)

-----------------------------------------------------------------------------
\* cleanup(): the rows with their keys and values.
cleanup(s) == [s EXCEPT !.live = @ - 1 - 2 * Sum([i \in DOMAIN s.rows |-> Len(s.rows[i].params)]), !.rows = <<>>]

\* The rows are copied to an array and made into a tree.
flat_publish(s) ==
    LET array == Create(s, "NONE") IN
    IF array.status # "OK" THEN array ELSE Free(praktor_orch_from_flat_nodes(array, array.rows))

praktor_orch_from_named_yaml(s, node) ==
    LET made == Create([s EXCEPT !.rows = <<>>], "NONE") IN
    IF made.status # "OK" THEN made ELSE cleanup(flat_publish(parse(made, node, ROOT_PARENT, 0)))

\* A type that is no flat form takes the value of its key and nothing else.
FlatRoot(s, node, node_type) ==
    LET flat == \/ node_type \in (DOMAIN FlatType \cup DOMAIN SingleChild) \ {"run_once"}
                \/ node_type = "run_once" /\ praktor_yaml_has(node, "child")
    IN
    IF flat THEN flat_parse(s, node, ROOT_PARENT, 0, node_type, TRUE)
    ELSE IF ~praktor_yaml_has(node, node_type) THEN Invalid(s)
    ELSE parse_named_entry(praktor_yaml_field_get(s, node, node_type), node.items[Min(Places(node, node_type))], ROOT_PARENT, 0)

praktor_orch_from_flat_yaml(s, node, node_type) ==
    LET made == Create([s EXCEPT !.rows = <<>>], "NONE") IN
    IF made.status # "OK" THEN made ELSE cleanup(flat_publish(FlatRoot(made, node, node_type)))
=============================================================================
