------------------------------ MODULE OrchTree ------------------------------
(* Orchestration trees (yml/orch_tree.c): a tree owns its nodes, a node the   *)
(* values of its parameters and the list of its children.  A tree is made     *)
(* from a command or from rows that name their parents, and is checked before *)
(* it is given out.                                                           *)
(* Names are compared without regard to case and underscores; a name stands   *)
(* here for all its spellings, and Canon() leads from a spelling to it.       *)
EXTENDS YamlFields

CONSTANTS
    ORCH_MAX_COMMANDS,      \* PRAKTOR_ORCH_MAX_COMMANDS
    ORCH_MAX_PARAMS, ORCH_MAX_BYTES,
    Canon(_)                \* the name that a spelling is one of

ASSUME OrchAssumption == ORCH_MAX_COMMANDS \in Nat \ {0} /\ ORCH_MAX_PARAMS \in Nat /\ ORCH_MAX_BYTES \in Nat

ORCH_MAX_NODES == ORCH_MAX_COMMANDS + 2

ROOT_PARENT == 0

-----------------------------------------------------------------------------
\* The comparison of names, character by character.
Fold(c) == IF c = "A" THEN "a" ELSE c

IsAt(t, i, c) == i <= Len(t) /\ t[i] = c

\* orch_name_is(): the canonical name is stepped along with each letter.
orch_name_is(name, canonical) ==
    LET Skip(j) == Min({k \in j .. Len(canonical) + 1 : ~IsAt(canonical, k, "_")})
        Letter(j, c) ==
            IF j = 0 \/ c = "_" THEN j
            ELSE IF Skip(j) <= Len(canonical) /\ Fold(c) = Fold(canonical[Skip(j)]) THEN Skip(j) + 1 ELSE 0
        last == FoldLeft(Letter, 1, name)
    IN  last # 0 /\ Skip(last) = Len(canonical) + 1

-----------------------------------------------------------------------------
\* The catalogue (orch_nodes.def): what a type requires and allows.
NodeSpec(control, children, required, optional) ==
    [control |-> control, allows_children |-> children, required |-> required, optional |-> optional]

Plain == NodeSpec(TRUE, TRUE, <<>>, <<>>)

catalog ==
    [type \in {"sequence", "fallback", "selector", "parallel", "reactive_sequence", "inverter", "force_success",
               "force_failure", "run_once"} |-> Plain]
    @@ "switch" :> NodeSpec(TRUE, TRUE, <<"variable">>, <<>>)
    @@ "while_do" :> NodeSpec(TRUE, TRUE, <<>>, <<"condition", "max_iterations">>)
    @@ "if_then_else" :> NodeSpec(TRUE, TRUE, <<>>, <<"condition">>)
    @@ "repeat" :> NodeSpec(TRUE, TRUE, <<>>, <<"num_cycles">>)
    @@ "timeout" :> NodeSpec(TRUE, TRUE, <<>>, <<"timeout_ms">>)
    @@ "delay" :> NodeSpec(TRUE, TRUE, <<>>, <<"delay_ms">>)
    @@ "subtree" :> NodeSpec(FALSE, FALSE, <<"tree">>, <<>>)
    @@ "keep_running_until_failure" :> NodeSpec(TRUE, TRUE, <<>>, <<"max_iterations">>)
    @@ "consume_queue" :> NodeSpec(TRUE, TRUE, <<"queue_key">>, <<"item_key">>)
    @@ "precondition" :> NodeSpec(TRUE, TRUE, <<"condition">>, <<>>)
    @@ "entry_updated" :> NodeSpec(TRUE, TRUE, <<"watch_key">>, <<>>)
    @@ "pipeline_sequence" :> NodeSpec(TRUE, TRUE, <<>>, <<"input_key", "output_key">>)
    @@ "shell" :> NodeSpec(FALSE, FALSE, <<"cmd">>,
            <<"output_key", "stderr_key", "exit_code_key", "working_dir", "timeout", "stream_output">>)
    @@ "parse_json" :> NodeSpec(FALSE, FALSE, <<"input_key">>, <<"path", "output_key">>)
    @@ "parse_regex" :> NodeSpec(FALSE, FALSE, <<"input_key", "pattern">>, <<"capture_group", "output_key">>)
    @@ "parse_lines" :> NodeSpec(FALSE, FALSE, <<"input_key">>, <<"filter", "output_key">>)
    @@ "parse_keyvalue" :> NodeSpec(FALSE, FALSE, <<"input_key">>, <<"delimiter", "line_separator", "output_key">>)
    @@ "check_exit_code" :> NodeSpec(FALSE, FALSE, <<"expected">>, <<"input_key">>)
    @@ "wait_event" :> NodeSpec(FALSE, FALSE, <<"event">>, <<"timeout">>)
    @@ "sleep" :> NodeSpec(FALSE, FALSE, <<"duration">>, <<>>)
    @@ "file_exists" :> NodeSpec(FALSE, FALSE, <<"path">>, <<"output_key", "fail_if_missing">>)
    @@ "set_variable" :> NodeSpec(FALSE, FALSE, <<"key">>, <<"value", "from">>)

orch_single_child(type) ==
    type \in {"inverter", "force_success", "force_failure", "repeat", "timeout", "delay", "keep_running_until_failure",
              "run_once", "consume_queue", "precondition", "entry_updated"}

\* orch_param_key(): the catalogue's name of a parameter, or none.
Allows(type, key) == Canon(key) \in Range(catalog[type].required) \cup Range(catalog[type].optional)

-----------------------------------------------------------------------------
\* A failure of the tree's own carries no origin.
Invalid(s) == IF s.status # "OK" THEN s ELSE Stop(s, "EINVAL", "NONE")

\* Growing lists: room for four, then twice as much, up to the limit.  The need
\* is at most one more than the room.
Room(capacity, need, limit) ==
    LET first == IF capacity = 0 THEN 4 ELSE capacity
        double == IF first >= need THEN first ELSE IF first > limit \div 2 THEN limit ELSE 2 * first
    IN  IF need <= capacity THEN capacity ELSE Min({limit, double})

orch_reserve(s, capacity, need, limit) ==
    IF need > limit THEN Stop(s, "ENOMEM", "NONE")
    ELSE IF need <= capacity THEN s
    ELSE IF capacity = 0 THEN Create(s, "NONE") ELSE Allocate(s, "NONE")

NewNode(type) == [type |-> type, params |-> <<>>, paramRoom |-> 0, children |-> <<>>, childRoom |-> 0]

NewTree == [nodes |-> <<>>, room |-> 0, retained |-> 0]

Size(s) == Len(s.tree.nodes)

orch_add_node(s, type) ==
    LET made == Create(s, "NONE")
        grown == orch_reserve(made, s.tree.room, Size(s) + 1, ORCH_MAX_NODES)
    IN
    IF s.status # "OK" THEN s
    ELSE IF Size(s) = ORCH_MAX_NODES THEN Invalid(s)
    ELSE IF made.status # "OK" THEN made
    ELSE IF grown.status # "OK" THEN Free(grown)
    ELSE [grown EXCEPT !.tree.nodes = Append(@, NewNode(type)), !.tree.room = Room(@, Size(s) + 1, ORCH_MAX_NODES)]

Fits(len, retained) == len < ORCH_MAX_BYTES - retained

orch_add_param(s, i, key, value) ==
    LET node == s.tree.nodes[i]
        need == Len(node.params) + 1
        made == Create(s, "NONE")
        grown == orch_reserve(made, node.paramRoom, need, ORCH_MAX_PARAMS)
    IN
    IF s.status # "OK" THEN s
    ELSE IF ~Fits(Len(value), s.tree.retained) \/ need > ORCH_MAX_PARAMS THEN Invalid(s)
    ELSE IF made.status # "OK" THEN made
    ELSE IF grown.status # "OK" THEN Free(grown)
    ELSE [grown EXCEPT !.tree.nodes[i].params = Append(@, [key |-> key, value |-> value]),
                       !.tree.nodes[i].paramRoom = Room(@, need, ORCH_MAX_PARAMS),
                       !.tree.retained = @ + Len(value) + 1]

ChildLimit == ORCH_MAX_COMMANDS + 1

orch_append(s, parent, child) ==
    LET node == s.tree.nodes[parent]
        need == Len(node.children) + 1
        grown == orch_reserve(s, node.childRoom, need, ChildLimit)
    IN
    IF s.status # "OK" THEN s
    ELSE IF grown.status # "OK" THEN grown
    ELSE [grown EXCEPT !.tree.nodes[parent].children = Append(@, child),
                       !.tree.nodes[parent].childRoom = Room(@, need, ChildLimit)]

\* What a node and a tree own: the list storage counts from its first growth.
Used(room) == IF room = 0 THEN 0 ELSE 1

NodeOwners(node) == 1 + Len(node.params) + Used(node.paramRoom) + Used(node.childRoom)

RECURSIVE NodesOwn(_)
NodesOwn(nodes) == IF nodes = <<>> THEN 0 ELSE NodeOwners(Head(nodes)) + NodesOwn(Tail(nodes))

TreeOwners(tree) == 1 + Used(tree.room) + NodesOwn(tree.nodes)

praktor_orch_tree_destroy(s) == [s EXCEPT !.live = @ - TreeOwners(s.tree), !.tree = NewTree]

\* A tree is given out, or destroyed with what has been made of it.
Given(s) == IF s.status = "OK" THEN s ELSE praktor_orch_tree_destroy(s)

-----------------------------------------------------------------------------
\* praktor_orch_from_command().  A command has its texts, and a parser with its
\* parameters in the order in which they are added.
RECURSIVE Params(_, _, _)
Params(s, i, params) ==
    IF params = <<>> THEN s ELSE Params(orch_add_param(s, i, Head(params).key, Head(params).value), i, Tail(params))

Param(key, value) == [key |-> key, value |-> value]

\* The parameters of each parser; a filter is added only when there is one, and
\* the capture group is a number made into a text of its own.
ParserParams(input) ==
    LET v == input.values IN
    CASE input.parser = "parse_json" -> <<Param("path", v["path"]), Param("output_key", v["output_key"])>>
      [] input.parser = "parse_lines" ->
            (IF v["filter"] = <<>> THEN <<>> ELSE <<Param("filter", v["filter"])>>) \o <<Param("output_key", v["output_key"])>>
      [] input.parser = "parse_keyvalue" ->
            <<Param("delimiter", v["delimiter"]), Param("line_separator", v["line_separator"]),
              Param("output_key", v["output_key"])>>
      [] OTHER -> <<Param("path", <<"$">>), Param("output_key", <<"data">>)>>

CaptureGroup(s, i, input) ==
    LET text == Create(orch_add_param(s, i, "pattern", input.values["pattern"]), "NONE") IN
    IF text.status # "OK" THEN text
    ELSE orch_add_param(Free(orch_add_param(text, i, "capture_group", input.values["capture_group"])),
                        i, "output_key", input.values["output_key"])

orch_postprocessor(s, input) ==
    LET type == IF input.parser # "none" THEN input.parser ELSE "parse_json"
        i == Size(s) + 1
        Begun(t) == orch_add_param(orch_add_node(t, type), i, "input_key", <<"stdout">>)
        Filled(t) == IF input.parser = "parse_regex" THEN CaptureGroup(t, i, input) ELSE Params(t, i, ParserParams(input))
    IN
    IF input.parser = "none" /\ input.format # "json" THEN s ELSE orch_append(Filled(Begun(s)), 1, i)

\* The commands one after the other; the last one's output is kept.
Commands(input) == IF input.sequence THEN input.commands ELSE <<input.command>>

CommandNode(s, input, k) ==
    LET i == Size(s) + 1
        Kept(t) == IF k = Len(Commands(input)) THEN orch_add_param(t, i, "output_key", <<"stdout">>) ELSE t
    IN  orch_append(Kept(orch_add_param(orch_add_node(s, "shell"), i, "cmd", Commands(input)[k])), 1, i)

RECURSIVE CommandNodes(_, _, _)
CommandNodes(s, input, k) ==
    IF k > Len(Commands(input)) THEN s ELSE CommandNodes(CommandNode(s, input, k), input, k + 1)

praktor_orch_from_command(s, input) ==
    LET made == Create(s, "NONE") IN
    IF input.sequence /\ Len(input.commands) > ORCH_MAX_COMMANDS THEN Invalid(s)
    ELSE IF made.status # "OK" THEN made
    ELSE Given(orch_postprocessor(CommandNodes(orch_add_node([made EXCEPT !.tree = NewTree], "sequence"), input, 1), input))

-----------------------------------------------------------------------------
\* praktor_orch_from_flat_nodes().  A row has a type, the row of its parent and
\* its parameters; each parent comes before its children.
Row(type, parent) == [type |-> type, parent |-> parent, params |-> <<>>]

orch_has_param(node, key) == \E j \in DOMAIN node.params : node.params[j].key = key

FlatParam(s, i, p) ==
    IF s.status # "OK" THEN s
    ELSE IF ~Allows(s.tree.nodes[i].type, p.key) \/ orch_has_param(s.tree.nodes[i], Canon(p.key)) THEN Invalid(s)
    ELSE orch_add_param(s, i, Canon(p.key), p.value)

RECURSIVE FlatParams(_, _, _)
FlatParams(s, i, params) == IF params = <<>> THEN s ELSE FlatParams(FlatParam(s, i, Head(params)), i, Tail(params))

FlatNode(s, rows, i) ==
    LET row == rows[i]
        placed == IF i = 1 THEN row.parent = ROOT_PARENT ELSE row.parent \in 1 .. i - 1
        Joined(t) == IF i = 1 THEN t
                     ELSE IF catalog[rows[row.parent].type].allows_children THEN orch_append(t, row.parent, i) ELSE Invalid(t)
    IN
    IF ~placed \/ Len(row.params) > ORCH_MAX_PARAMS THEN Invalid(s)
    ELSE Joined(FlatParams(orch_add_node(s, row.type), i, row.params))

RECURSIVE FlatNodes(_, _, _)
FlatNodes(s, rows, i) == IF i > Len(rows) THEN s ELSE FlatNodes(FlatNode(s, rows, i), rows, i + 1)

\* A condition is a parameter or the first child.
ChildCount(type, children, scalar_condition) ==
    CASE type = "if_then_else" -> IF scalar_condition THEN children \in 1 .. 2 ELSE children \in 2 .. 3
      [] type = "while_do" -> children = (IF scalar_condition THEN 1 ELSE 2)
      [] orch_single_child(type) -> children = 1
      [] OTHER -> catalog[type].control => children > 0

NodeComplete(node) ==
    /\ \A key \in Range(catalog[node.type].required) : orch_has_param(node, key)
    /\ ChildCount(node.type, Len(node.children), orch_has_param(node, "condition"))

praktor_orch_from_flat_nodes(s, rows) ==
    LET made == Create(s, "NONE")
        Checked(t) == IF \A i \in DOMAIN t.tree.nodes : NodeComplete(t.tree.nodes[i]) THEN t ELSE Invalid(t)
    IN
    IF rows = <<>> \/ Len(rows) > ORCH_MAX_NODES THEN Invalid(s)
    ELSE IF made.status # "OK" THEN made
    ELSE Given(Checked(FlatNodes([made EXCEPT !.tree = NewTree], rows, 1)))
=============================================================================
