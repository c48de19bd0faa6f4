-------------------------- MODULE DocumentMeaning -------------------------
(* What workflow documents mean: the shapes, values and trees that a document *)
(* stands for, stated by its nodes alone, without an order of reading.        *)
EXTENDS WorkflowSnapshot

-----------------------------------------------------------------------------
\* Shapes.
Has(node, key) == praktor_yaml_has(node, key)

Get(node, key) == cyaml_get(node, key)

IsScalar(n) == n.kind = "scalar"

IsField(n) == IsScalar(n) /\ Len(n.text) <= PARAMETER_MAX

Values(n) == {n.items[i].val : i \in DOMAIN n.items}

\* The number that digits spell, which TLC's integers hold.
RECURSIVE Spells(_, _)
Spells(t, base) == IF t = <<>> THEN 0 ELSE base * Spells(Front(t), base) + Digit(Last(t))

IntegerOf(n) ==
    IF ~IsScalar(n) \/ ~IsDecimal(n.text) THEN {}
    ELSE {(IF n.text[1] = "-" THEN -1 ELSE 1) * Spells(Unsigned(n.text), 10)} \cap (-INT_MAX - 1 .. INT_MAX)

\* A flag is one of six words; the one for force_terminate may be a number too,
\* with a sign, a base and underscores, and then is 0 or 1.
ForceNumber(t) ==
    LET u == IF t # <<>> /\ t[1] \in {"+", "-"} THEN Tail(t) ELSE t
        based == Len(u) > 1 /\ u[1] = "0" /\ u[2] \in {"b", "o", "x"}
        base == IF ~based THEN 10 ELSE CASE u[2] = "b" -> 2 [] u[2] = "o" -> 8 [] OTHER -> 16
        digits == SelectSeq(IF based THEN SubSeq(u, 3, Len(u)) ELSE u, LAMBDA c : c # "_")
        begins == based \/ (u # <<>> /\ u[1] # "_")
    IN
    IF ~begins \/ digits = <<>> \/ \E i \in DOMAIN digits : ~IsDigit(digits[i], base) THEN {}
    ELSE {Spells(digits, base)} \cap (IF t[1] = "-" THEN {0} ELSE {0, 1})

Flags(n, force) ==
    LET t == Lower(n.text) IN
    IF ~IsField(n) THEN {}
    ELSE IF t \in {<<"true">>, <<"yes">>, <<"1">>} \/ (force /\ t = <<"on">>) THEN {TRUE}
    ELSE IF t \in {<<"false">>, <<"no">>, <<"0">>} \/ (force /\ t = <<"off">>) THEN {FALSE}
    ELSE IF force THEN {v = 1 : v \in ForceNumber(t)} ELSE {}

\* JSON values: nested containers of scalars, within two bounds.
RECURSIVE Nesting(_), Nodes(_), ScalarsOnly(_), Converted(_)
Nesting(n) == IF n.items = <<>> THEN 1 ELSE 1 + Max({Nesting(v) : v \in Values(n)})
Nodes(n) == 1 + Sum([i \in DOMAIN n.items |-> Nodes(n.items[i].val)])
ScalarsOnly(n) == n.kind # "none" /\ \A v \in Values(n) : ScalarsOnly(v)
Converted(n) ==
    IF IsScalar(n) THEN ScalarJson(n)
    ELSE Json(n.kind, <<>>, 0, [i \in DOMAIN n.items |-> [key |-> n.items[i].key, val |-> Converted(n.items[i].val)]])

JsonOk(n) == ScalarsOnly(n) /\ Nesting(n) <= VALUE_MAX_DEPTH /\ Nodes(n) <= VALUE_MAX_NODES

RECURSIVE Shape(_, _)
\* A mapping of these keys and no others, all of their shapes, with those needed.
Mapping(n, shapes, needed) ==
    /\ n.kind = "map"
    /\ \A i \in DOMAIN n.items : n.items[i].key \in DOMAIN shapes
    /\ \A key \in needed : Has(n, key)
    /\ \A key \in DOMAIN shapes : Has(n, key) => Shape(Get(n, key), shapes[key])

Shape(n, k) ==
    CASE k = "any"       -> TRUE
      [] k = "text"      -> IsScalar(n)
      [] k = "some text" -> IsScalar(n) /\ n.text # <<>>
      [] k = "field"     -> IsField(n)
      [] k = "some field" -> IsField(n) /\ n.text # <<>>
      [] k = "string"    -> IsField(n) /\ n.string
      [] k = "name"      -> IsField(n) /\ n.string /\ n.text # <<>>
      [] k = "flag"      -> Flags(n, FALSE) # {}
      [] k = "force"     -> Flags(n, TRUE) # {}
      [] k = "integer"   -> IntegerOf(n) # {}
      [] k = "positive"  -> \E v \in IntegerOf(n) : v > 0
      [] k = "operation" -> IsField(n) /\ n.string /\ \E o \in Operations : n.text = <<o>>
      [] k = "format"    -> IsScalar(n) /\ Lower(n.text) \in {<<>>, <<"text">>, <<"json">>}
      [] k = "strings"   -> n.kind = "seq" /\ Len(n.items) <= ACTION_MAX_ARGUMENTS /\ \A v \in Values(n) : Shape(v, "string")
      [] k = "list"      -> IsScalar(n) \/ (n.kind = "seq" /\ \A v \in Values(n) : IsScalar(v))
      [] k = "some list" -> Shape(n, "list") /\ (n.items # <<>> \/ n.text # <<>>)
      [] k = "map"       -> n.kind = "map" /\ \A v \in Values(n) : IsScalar(v)
      [] k = "matrix"    -> n.kind = "map" /\ \A v \in Values(n) : Shape(v, "some list")
      [] k = "names"     -> n.kind = "seq" /\ n.items # <<>> /\ \A v \in Values(n) : Shape(v, "some text")
      [] k = "command"   -> Shape(n, "some text") \/ Shape(n, "names")
      [] k = "identity"  -> Mapping(n, "image_name" :> "name", {"image_name"})
      [] k = "each"      ->
            /\ Mapping(n, "items" :> "list" @@ "matrix" :> "matrix" @@ "as" :> "text" @@ "index_variable" :> "text", {})
            /\ (Shape(Get(n, "items"), "some list")) # (Get(n, "matrix").items # <<>>)
      [] k = "triggers"  -> Mapping(n, [g \in Range(Groups) |-> "names"], {}) /\ \E g \in Range(Groups) : Has(n, g)
      [] k = "template"  ->
            Mapping(n, "name" :> "some text" @@ "command" :> "command" @@ "timeout" :> "text" @@ "when" :> "text"
                       @@ "depends_on" :> "list" @@ "env" :> "map", {"name", "command"})
      [] k = "dynamic"   ->
            Mapping(n, "items_variable" :> "some text" @@ "template" :> "template", {"items_variable", "template"})
      [] OTHER           -> IsScalar(n) /\ n.text # <<>>

-----------------------------------------------------------------------------
\* The shape of what each reader reads.
CommandShape(task) ==
    LET chosen == {p \in 1 .. 4 : Has(task, Parsers[p])}
        n == Get(task, "command")
        needed == <<{"pattern", "output_key"}, {"path", "output_key"}, {"output_key"}, {"output_key"}>>
        Kind(key) == IF key = "capture_group" THEN "integer" ELSE "text"
    IN
    /\ Shape(n, "command") /\ Len(n.items) <= ACTION_MAX_ARGUMENTS
    /\ Has(task, "output_format") => Shape(Get(task, "output_format"), "format")
    /\ Cardinality(chosen) <= 1
    /\ \A p \in chosen : Mapping(Get(task, Parsers[p]), [key \in ParserKeys[p] |-> Kind(key)], needed[p])

ActionShape(op, task) ==
    LET n == Get(task, op) IN
    CASE op = "download" ->
            Mapping(n, "url" :> "some field" @@ "path" :> "some field" @@ "sha256" :> "field" @@ "overwrite" :> "flag"
                       @@ "timeout_ms" :> "positive", {"url", "path"})
      [] op = "service" ->
            Mapping(n, "operation" :> "operation" @@ "name" :> "name" @@ "profile" :> "name" @@ "arguments" :> "strings"
                       @@ "timeout_ms" :> "positive" @@ "poll_interval_ms" :> "positive", {"name"})
      [] op = "managed_process" ->
            /\ Mapping(n, "operation" :> "operation" @@ "executable" :> "string" @@ "arguments" :> "strings"
                          @@ "working_directory" :> "name" @@ "identity" :> "identity" @@ "startup_timeout_ms" :> "positive"
                          @@ "stop_timeout_ms" :> "positive" @@ "force_terminate" :> "force", {"identity"})
            /\ Get(n, "operation").text \in {<<"start">>, <<"restart">>} => Get(n, "executable").text # <<>>
      [] op = "command" -> CommandShape(task)
      [] OTHER ->
            /\ Shape(Get(task, "program"), "some text")
            /\ Has(task, "args") => Shape(Get(task, "args"), "list") /\ Len(Get(task, "args").items) <= ACTION_MAX_ARGUMENTS
            /\ Has(task, "stdin") => IsScalar(Get(task, "stdin"))
            /\ Has(task, "output_format") => Shape(Get(task, "output_format"), "format")

\* A value is of a contract's type when it converts to it.
Typed(n, type) == JsonOk(n) /\ praktor_contract_value_matches_type(Converted(n), type)

ContractShape(n, output) ==
    /\ n.kind = "map"
    /\ \A i \in DOMAIN n.items :
        LET f == n.items[i].val
            type == Get(f, "type").text[1]
            enum == Get(f, "enum")
        IN
        /\ n.items[i].key # ""
        /\ Mapping(f, "type" :> "some field" @@ "required" :> "flag" @@ "description" :> "field" @@ "default" :> "any"
                      @@ "enum" :> "any" @@ (IF output THEN "value" :> "field" ELSE <<>>), {"type"})
        /\ \E t \in ContractTypes : Get(f, "type").text = <<t>>
        /\ Has(f, "default") => Typed(Get(f, "default"), type)
        /\ Has(f, "enum") => enum.kind = "seq" /\ enum.items # <<>> /\ \A v \in Values(enum) : Typed(v, type)

\* A key of a task is a runner when what belongs to it is there; all others are
\* metadata, or belong to a runner.
Beside ==
    [key \in Range(Decorators) |-> "child"] @@ "switch" :> "cases" @@ "if" :> "then" @@ "while" :> "do"

Runners(task) ==
    {key \in Range(DirectRunners \o OrchRunners) :
        /\ Has(task, key)
        /\ key \in DOMAIN Beside => Has(task, Beside[key])
        /\ ~(key \in Range(Parsers) /\ Has(task, "command"))}

RetryShape(n) ==
    /\ Mapping(n, "count" :> "some field", {"count"})
    /\ \A i \in DOMAIN Get(n, "count").text : IsDigit(Get(n, "count").text[i], 10)
    /\ Spells(Get(n, "count").text, 10) <= RETRY_MAX

\* The members of a task that become metadata, and their shapes.
MetadataShapes ==
    [key \in {"description", "when", "working_dir"} |-> "field"] @@ [key \in {"name", "finally"} |-> "some field"]
    @@ [key \in {"depends_on", "dotEnv", "sources", "generates"} |-> "list"] @@ [key \in {"vars", "env"} |-> "map"]
    @@ "each" :> "each" @@ "triggers" :> "triggers" @@ "silent" :> "flag"

\* As the code has it: with asks for a tool, retries for no runner in particular.
TaskShape(n) ==
    LET extra == IF Has(n, "set_variable") /\ (Has(n, "value") \/ Has(n, "from")) THEN {"value", "from"} ELSE {} IN
    /\ Mapping(n, MetadataShapes @@ [key \in TaskKeys \cup extra |-> "any"], {"name"})
    /\ Has(n, "with") => Has(n, "tool")
    /\ Has(n, "timeout") /\ ~Has(n, "child") /\ IsScalar(Get(n, "timeout")) => IsField(Get(n, "timeout"))
    /\ Has(n, "retries") => RetryShape(Get(n, "retries"))

WorkflowShape(n) ==
    /\ Mapping(n, [key \in WorkflowKeys |-> "any"] , {})
    /\ \A key \in {"name", "description"} : Has(n, key) => IsField(Get(n, key))
    /\ Has(n, "input_policy") => Get(n, "input_policy").text \in {<<"strict">>, <<"allow_extra">>}
    /\ \A key \in {"variables", "env"} : Has(n, key) => Shape(Get(n, key), "map")
    /\ Has(n, "dotEnv") => Shape(Get(n, "dotEnv"), "list")
    /\ Has(n, "defaults") => Mapping(Get(n, "defaults"), "timeout" :> "field", {})

-----------------------------------------------------------------------------
\* The values that a document stands for.
Listed(n) == IF ~IsScalar(n) THEN [i \in DOMAIN n.items |-> n.items[i].val.text] ELSE IF n.text = <<>> THEN <<>> ELSE <<n.text>>

\* The keys of a mapping in the order of their first places, with their last values.
Entries(n, F(_)) ==
    LET At(key) == {i \in DOMAIN n.items : n.items[i].key = key}
        firsts == SelectSeq([i \in DOMAIN n.items |-> i], LAMBDA i : i = Min(At(n.items[i].key)))
    IN  [j \in DOMAIN firsts |-> [key |-> KeyText(n.items[firsts[j]]), values |-> F(n.items[Max(At(n.items[firsts[j]].key))].val)]]

One(n) == <<n.text>>

Own(n, keys) == [key \in {k \in keys : Has(n, k)} |-> Get(n, key).text]

\* The texts of a task's fields: three lists, the strings, the matrix, the named texts.
FieldValues(op, n) ==
    LET t == Get(n, "template")
        named == Own(n, {"as", "index_variable"})
    IN
    CASE op = "list" -> <<Listed(n), <<>>, <<>>, <<>>, <<>>, <<>>>>
      [] op = "map"  -> <<<<>>, <<>>, <<>>, Entries(n, One), <<>>, <<>>>>
      [] op = "each" -> <<Listed(Get(n, "items")), <<>>, <<>>, <<>>, Entries(Get(n, "matrix"), Listed),
                          [key \in {k \in DOMAIN named : k = "as" => named[k] # <<>>} |-> named[key]]>>
      [] op = "triggers" -> <<Listed(Get(n, Groups[1])), Listed(Get(n, Groups[2])), Listed(Get(n, Groups[3])), <<>>, <<>>, <<>>>>
      [] op = "dynamic" ->
            <<IF IsScalar(Get(t, "command")) THEN <<>> ELSE Listed(Get(t, "command")), Listed(Get(t, "depends_on")), <<>>,
              Entries(Get(t, "env"), One), <<>>,
              Own(n, {"items_variable"}) @@ Own(t, {"name", "timeout", "when"})
                @@ Own(t, IF IsScalar(Get(t, "command")) THEN {"command"} ELSE {})>>
      [] OTHER -> <<<<>>, <<>>, <<>>, <<>>, <<>>, "uses" :> n.text>>

\* The flags, numbers and choices of an action: what the document says, or the default.
Choice(op, n, key, default) ==
    IF ~Has(n, key) THEN default
    ELSE CASE key = "operation" -> Get(n, key).text[1]
           [] key = "overwrite" -> TRUE \in Flags(Get(n, key), FALSE)
           [] key = "force_terminate" -> TRUE \in Flags(Get(n, key), TRUE)
           [] key = "output_format" -> IF Lower(Get(n, key).text) = <<"json">> THEN "json" ELSE "text"
           [] OTHER -> CHOOSE v \in IntegerOf(Get(n, key)) : TRUE

ActionValues(op, task) ==
    LET n == IF op \in {"command", "program"} THEN task ELSE Get(task, op)
        p == IF op = "command" /\ \E q \in 1 .. 4 : Has(task, Parsers[q])
             THEN Get(task, Parsers[CHOOSE q \in 1 .. 4 : Has(task, Parsers[q])]) ELSE Missing
        listed == CASE op = "command" -> IF IsScalar(Get(n, "command")) THEN Missing ELSE Get(n, "command")
                    [] op = "program" -> Get(n, "args") [] OTHER -> Get(n, "arguments")
        texts == CASE op = "command" -> IF IsScalar(Get(n, "command")) THEN {"command"} ELSE {}
                   [] op = "program" -> {"program", "stdin"}
                   [] op = "download" -> {"url", "path", "sha256"} [] op = "service" -> {"name", "profile"}
                   [] OTHER -> {"executable", "working_directory"}
        defaults == [key \in DOMAIN Defaults(op) |-> Choice(op, n, key, Defaults(op)[key])]
    IN
    <<Own(n, texts) @@ Own(Get(n, "identity"), {"image_name"}) @@ Own(p, UNION Range(ParserKeys) \ {"capture_group"}),
      Listed(listed),
      IF p = Missing THEN defaults ELSE [defaults EXCEPT !["capture_group"] = Choice(op, p, "capture_group", 1)]>>

JsonMap(n) ==
    LET e == Entries(n, One) IN Json("map", <<>>, 0, [i \in DOMAIN e |-> [key |-> e[i].key, val |-> JsonText(e[i].values[1])]])

\* The members of present keys, each made by F.
Members(n, keys, F(_)) == [key \in {k \in keys : Has(n, k)} |-> F(Get(n, key))]

Renamed(members, from, to) == [key \in DOMAIN members \ {from} |-> members[key]] @@ (IF from \in DOMAIN members THEN to :> members[from] ELSE <<>>)

TextMember(n) == JsonText(n.text)

ListMember(n) == JsonList(Listed(n))

FlagMember(n) == JsonBool(TRUE \in Flags(n, FALSE))

EachMember(n) ==
    LET m == Entries(Get(n, "matrix"), Listed)
        named == IF Get(n, "as").text = <<>> THEN <<"item">> ELSE Get(n, "as").text
    IN  Json("map", <<>>, 0,
            <<[key |-> "items", val |-> ListMember(Get(n, "items"))],
              [key |-> "matrix", val |-> Json("map", <<>>, 0, [i \in DOMAIN m |-> [key |-> m[i].key, val |-> JsonList(m[i].values)]])],
              [key |-> "as", val |-> JsonText(named)], [key |-> "index_variable", val |-> TextMember(Get(n, "index_variable"))]>>)

TriggersMember(n) == Json("map", <<>>, 0, [g \in 1 .. 3 |-> [key |-> Groups[g], val |-> ListMember(Get(n, Groups[g]))]])

\* What selects the runner: how many there are, and the first.
Selection(n) ==
    LET order == DirectRunners \o OrchRunners
        first == order[Min({i \in DOMAIN order : order[i] \in Runners(n)})]
    IN
    IF Runners(n) = {} THEN <<>>
    ELSE "runner_count" :> JsonNumber(Cardinality(Runners(n)))
         @@ (IF first \in Range(DirectRunners) THEN "runner_kind" :> JsonText(<<first>>)
             ELSE "runner_kind" :> JsonText(<<"orch_root">>) @@ "orch_node_type" :> JsonText(<<first>>))

TaskJson(n) ==
    LET timed == IF IsScalar(Get(n, "timeout")) /\ ~Has(n, "child") THEN {"timeout"} ELSE {}
        placed == IF Get(n, "working_dir").text # <<>> THEN {"working_dir"} ELSE {}
        count == Get(Get(n, "retries"), "count")
        made == Members(n, {"name", "description", "when", "finally"} \cup timed \cup placed, TextMember)
                @@ Members(n, {"depends_on", "dotEnv", "sources", "generates"}, ListMember)
                @@ Members(n, {"vars", "env"}, JsonMap) @@ Members(n, {"silent"}, FlagMember)
                @@ Members(n, {"each"}, EachMember) @@ Members(n, {"triggers"}, TriggersMember)
                @@ (IF Has(n, "retries") THEN "retry_count" :> JsonNumber(Spells(count.text, 10)) ELSE <<>>) @@ Selection(n)
    IN  Renamed(made, "dotEnv", "dot_env")

PolicyMember(n) == JsonBool(n.text = <<"strict">>)

DefaultsMember(n) ==
    Json("map", <<>>, 0, IF Has(n, "timeout") THEN <<[key |-> "timeout", val |-> TextMember(Get(n, "timeout"))]>> ELSE <<>>)

WorkflowJson(n) ==
    LET made == Members(n, {"name", "description"}, TextMember) @@ Members(n, {"input_policy"}, PolicyMember)
                @@ Members(n, {"variables", "env"}, JsonMap) @@ Members(n, {"dotEnv"}, ListMember)
                @@ Members(n, {"defaults"}, DefaultsMember)
    IN  Renamed(Renamed(made, "dotEnv", "dot_env"), "input_policy", "strict_inputs")

\* The first field of a name counts.
ContractJson(n) ==
    LET First(key) == n.items[Min({i \in DOMAIN n.items : n.items[i].key = key})].val
        Enum(m) == Json("seq", <<>>, 0, [i \in DOMAIN m.items |-> [key |-> <<>>, val |-> Converted(m.items[i].val)]])
    IN  [key \in {n.items[i].key : i \in DOMAIN n.items} |->
            Members(First(key), {"type", "description", "value"}, TextMember) @@ Members(First(key), {"required"}, FlagMember)
            @@ Members(First(key), {"default"}, Converted) @@ Members(First(key), {"enum"}, Enum)]

-----------------------------------------------------------------------------
\* The trees that nodes stand for: none, or one.
Term(type, params, below) == [type |-> type, params |-> params, children |-> below]

\* One choice from each of a sequence of sets, none of which may be empty.
Every(sets) == IF \E i \in DOMAIN sets : sets[i] = {} THEN {} ELSE {[i \in DOMAIN sets |-> CHOOSE t \in sets[i] : TRUE]}

\* A parameter is a scalar, and of the kind that its name asks for.
ParamOk(key, n) ==
    /\ IsScalar(n)
    /\ \/ \E i \in DOMAIN n.text : n.text[i] \in {"{", "}"}
       \/ /\ Canon(key) \in IntegerKeys =>
                LET digits == IF n.text # <<>> /\ n.text[1] \in {"+", "-"} THEN Tail(n.text) ELSE n.text
                IN  digits # <<>> /\ \A i \in DOMAIN digits : IsDigit(digits[i], 10)
          /\ Canon(key) \in BooleanKeys => Lower(n.text) \in {<<"true">>, <<"false">>}

Complete(t) ==
    /\ Range(catalog[t.type].required) \subseteq DOMAIN t.params
    /\ t.children # <<>> => catalog[t.type].allows_children
    /\ LET n == Len(t.children)
           c == IF "condition" \in DOMAIN t.params THEN 0 ELSE 1
       IN CASE t.type = "if_then_else" -> n \in 1 + c .. 2 + c [] t.type = "while_do" -> n = 1 + c
            [] orch_single_child(t.type) -> n = 1 [] OTHER -> catalog[t.type].control => n > 0

RECURSIVE Means(_, _)
RECURSIVE MeansAll(_, _)
RECURSIVE Branch(_, _)
RECURSIVE FlatTerms(_, _, _, _)
RECURSIVE NamedTerms(_, _, _)

MeansAll(n, depth) == IF n.kind # "seq" THEN {} ELSE Every([i \in DOMAIN n.items |-> Means(n.items[i].val, depth + 1)])

Branch(n, depth) ==
    LET nodes == IF n.kind = "seq" THEN n ELSE Node("seq", <<>>, FALSE, <<[key |-> "", val |-> n]>>) IN
    {IF n.kind = "seq" THEN Term("sequence", <<>>, below) ELSE below[1] : below \in MeansAll(nodes, depth) \ {<<>>}}

\* A member that is a parameter gives one, and one that is a branch a child.
Settings(n, key, param) == IF ParamOk(param, Get(n, key)) THEN {param :> Get(n, key).text} ELSE {}

\* The keys that a flat form may have beside those of a task's metadata.
FlatKeys(kind) == IF kind \in DOMAIN SingleChild THEN {kind, "child"} ELSE FlatSiblings[kind]

FlatTerms(n, depth, kind, metadata) ==
    LET scalar == IsScalar(Get(n, kind))
        condition == IF scalar THEN Settings(n, kind, "condition") ELSE {<<>>}
        limit == IF Has(n, "max_iterations") THEN Settings(n, "max_iterations", "max_iterations") ELSE {<<>>}
        source == IF Has(n, "value") THEN "value" ELSE "from"
        params == CASE kind = "if" -> condition
                    [] kind = "while" -> {c @@ l : c \in condition, l \in limit}
                    [] kind = "switch" -> Settings(n, kind, "variable")
                    [] kind = "set_variable" -> {k @@ v : k \in Settings(n, kind, "key"), v \in Settings(n, source, source)}
                    [] kind = "run_once" -> IF scalar THEN {<<>>} ELSE {}
                    [] OTHER -> Settings(n, kind, SingleChild[kind])
        test == IF scalar THEN <<>> ELSE <<Get(n, kind)>>
        branches == CASE kind = "if" -> test \o <<Get(n, "then")>> \o (IF Has(n, "else") THEN <<Get(n, "else")>> ELSE <<>>)
                      [] kind = "while" -> test \o <<Get(n, "do")>>
                      [] kind = "switch" -> [i \in DOMAIN Get(n, "cases").items |-> Get(n, "cases").items[i].val]
                      [] kind = "set_variable" -> <<>>
                      [] OTHER -> <<Get(n, "child")>>
    IN
    IF \/ n.kind # "map"
       \/ \E i \in DOMAIN n.items : Canon(n.items[i].key) \notin FlatKeys(kind) \cup (IF metadata THEN FlatTaskKeys ELSE {})
       \/ kind = "switch" /\ Get(n, "cases").kind # "seq"
       \/ kind = "set_variable" /\ Has(n, "value") = Has(n, "from")
    THEN {}
    ELSE {Term(IF kind \in DOMAIN FlatType THEN FlatType[kind] ELSE kind, p, c) :
             p \in params, c \in Every([i \in DOMAIN branches |-> Branch(branches[i], depth)])}

\* A type with its parameters, its children, or the one value that it requires.
NamedTerms(key, n, depth) ==
    LET type == Canon(key)
        Spelled(name) == \E i \in DOMAIN n.items : Canon(n.items[i].key) = name
        members == {i \in DOMAIN n.items : Canon(n.items[i].key) \notin {"child", "children"}}
        Latest(name) == n.items[Max({i \in members : Canon(n.items[i].key) = name})].val.text
        params == IF \A i \in members : Allows(type, n.items[i].key) /\ ParamOk(n.items[i].key, n.items[i].val)
                  THEN {[name \in {Canon(n.items[i].key) : i \in members} |-> Latest(name)]} ELSE {}
        below == CASE n.kind = "seq" -> n
                   [] Spelled("child") /\ Spelled("children") -> Missing
                   [] Spelled("children") -> Get(n, "children")
                   [] OTHER -> Node("seq", <<>>, FALSE, <<>>)
        only == n.kind = "map" /\ Spelled("child") /\ ~Spelled("children")
        required == catalog[type].required
    IN
    IF type \in Retired \/ type \notin DOMAIN catalog THEN {}
    ELSE CASE only -> {Term(type, p, <<c>>) : p \in params, c \in Branch(Get(n, "child"), depth)}
           [] ~only /\ n.kind \in {"seq", "map"} ->
                {Term(type, p, c) : p \in (IF n.kind = "seq" THEN {<<>>} ELSE params), c \in MeansAll(below, depth)}
           [] OTHER -> IF Len(required) = 1 /\ ParamOk(required[1], n) THEN {Term(type, required[1] :> n.text, <<>>)} ELSE {}

\* A mapping is a flat form when it has the keys of one, and else has one key.
Means(n, depth) ==
    LET flat == FlatForms(n)
        terms == IF flat # <<>> THEN FlatTerms(n, depth, flat[1], FALSE)
                 ELSE IF n.kind = "map" /\ Len(n.items) = 1 THEN NamedTerms(n.items[1].key, n.items[1].val, depth) ELSE {}
    IN  IF depth > NAMED_YAML_MAX_DEPTH THEN {} ELSE {t \in terms : Complete(t)}

FlatMeans(n, key) ==
    LET flat == key \in DOMAIN FlatType \cup DOMAIN SingleChild /\ (key = "run_once" => Has(n, "child")) IN
    {t \in IF flat THEN FlatTerms(n, 0, key, TRUE) ELSE IF Has(n, key) THEN NamedTerms(key, Get(n, key), 0) ELSE {} : Complete(t)}

\* A command is its shells one after the other and a parser of the last output.
CommandInput(task, v) ==
    [sequence |-> ~IsScalar(Get(task, "command")), format |-> v[3]["output_format"],
     lines |-> IF IsScalar(Get(task, "command")) THEN <<v[1]["command"]>> ELSE v[2],
     parser |-> IF \E q \in 1 .. 4 : Has(task, Parsers[q]) THEN Parsers[CHOOSE q \in 1 .. 4 : Has(task, Parsers[q])] ELSE "none",
     values |-> v[1] @@ "capture_group" :> DecimalText(v[3]["capture_group"]) @@ "delimiter" :> <<"=">>
                @@ "line_separator" :> <<"LF">> @@ "filter" :> <<>>]

CommandTerm(input) ==
    LET lines == input.lines
        Keys(params) == [key \in {params[i].key : i \in DOMAIN params} |-> params[CHOOSE i \in DOMAIN params : params[i].key = key].value]
        shells == [i \in DOMAIN lines |->
                      Term("shell", IF i = Len(lines) THEN "cmd" :> lines[i] @@ "output_key" :> <<"stdout">> ELSE "cmd" :> lines[i], <<>>)]
        regex == IF input.parser = "parse_regex"
                 THEN [key \in {"pattern", "capture_group", "output_key"} |-> input.values[key]] ELSE Keys(ParserParams(input))
        parser == IF input.parser = "none" /\ input.format = "text" THEN <<>>
                  ELSE <<Term(IF input.parser = "none" THEN "parse_json" ELSE input.parser, "input_key" :> <<"stdout">> @@ regex, <<>>)>>
    IN  Term("sequence", <<>>, shells \o parser)

CommandMeans(task) == {CommandTerm(CommandInput(task, ActionValues("command", task)))}

\* The tree that the nodes of an owner are.
RECURSIVE Unfolded(_, _)
Unfolded(tree, i) ==
    LET node == tree.nodes[i] IN
    Term(node.type, [key \in {node.params[j].key : j \in DOMAIN node.params} |->
                        node.params[CHOOSE j \in DOMAIN node.params : node.params[j].key = key].value],
         [c \in DOMAIN node.children |-> Unfolded(tree, node.children[c])])

RECURSIVE Count(_), Weight(_)
Count(t) == 1 + Sum([i \in DOMAIN t.children |-> Count(t.children[i])])
Weight(t) == Sum(LET k == SetToSeq(DOMAIN t.params) IN [i \in DOMAIN k |-> Len(t.params[k[i]]) + 1])
             + Sum([i \in DOMAIN t.children |-> Weight(t.children[i])])

Bounded(t) == Count(t) <= ORCH_MAX_NODES /\ Weight(t) <= ORCH_MAX_BYTES

\* The tree of a task that has one runner, and one that a snapshot supports.
TaskMeans(task) ==
    LET runner == CHOOSE key \in Runners(task) : TRUE IN
    IF Cardinality(Runners(task)) # 1 \/ Has(task, "script") THEN {}
    ELSE CASE runner = "command" -> IF ActionShape("command", task) THEN CommandMeans(task) ELSE {}
           [] runner = "actions" -> Means(Get(task, "actions"), 0)
           [] runner \in Range(DirectRunners) -> {}
           [] OTHER -> FlatMeans(task, runner)

\* A document that has a snapshot: its tasks are what they should be, each has
\* a tree within the bounds, and they depend on one another in some order.
SnapshotShape(root) ==
    LET tasks == [i \in DOMAIN Get(root, "tasks").items |-> Get(root, "tasks").items[i].val]
        doc == Sources([i \in DOMAIN tasks |-> [json |-> TaskJson(tasks[i])]])
    IN
    /\ WorkflowShape(root) /\ ~Has(root, "includes")
    /\ Get(root, "tasks").kind = "seq" /\ Len(tasks) \in 1 .. WORKFLOW_MAX_TASKS
    /\ \A i \in DOMAIN tasks : TaskShape(tasks[i]) /\ \E t \in TaskMeans(tasks[i]) : Bounded(t)
    /\ Projection(Len(tasks), Range(doc.name))!WellFormed(doc)
=============================================================================
