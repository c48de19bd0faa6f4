---------------------------- MODULE MCComponents ----------------------------
(* Components that share no state: the readers of documents, the evaluator of *)
(* expressions, the initialisation of a project and a process, by the driver  *)
(* under any order of calls or under the worker's thread.  One of them runs,  *)
(* the others stay as they began.                                             *)
(* The driver has one byte of capture for two streams that carry two bytes    *)
(* together, in one read or in several: a read that fits, one that fits in    *)
(* part and one that does not fit at all occur, on either stream.             *)
EXTENDS Documents, Expressions, ProjectInit, ProcessWorker

VARIABLE subject        \* which of them runs

-----------------------------------------------------------------------------
(* Documents for the readers, expressions for the evaluator, and directories  *)
(* to initialise.                                                             *)

\* A word, a plain scalar that is no string, a list, a mapping of pairs.
W(text) == Node("scalar", text, TRUE, <<>>)
P(text) == Node("scalar", text, FALSE, <<>>)
L(nodes) == Node("seq", <<>>, FALSE, [i \in DOMAIN nodes |-> [key |-> "", plain |-> TRUE, val |-> nodes[i]]])
M(pairs) == Node("map", <<>>, FALSE, [i \in DOMAIN pairs |-> [key |-> pairs[i][1], plain |-> TRUE, val |-> pairs[i][2]]])
A == W(<<"a">>)
B == W(<<"b">>)
AB == W(<<"a", "b">>)
Empty == W(<<>>)
Request(op, node) == [op |-> op, node |-> node, key |-> ""]

\* The pairs with one key's value changed, or left out when there is none.
Changed(pairs, key, v) ==
    LET rest == SelectSeq(pairs, LAMBDA p : p[1] # key) IN IF v = Missing THEN rest ELSE Append(rest, <<key, v>>)

\* One key at a time takes each of its other values.
Variants(pairs, choices) == {pairs} \cup UNION {{Changed(pairs, key, v) : v \in choices[key]} : key \in DOMAIN choices}

\* Two keys at a time.
Variants2(pairs, choices) == UNION {Variants(p, choices) : p \in Variants(pairs, choices)}

\* A key that is spelled otherwise is listed but not found.
Respelled(node) == [node EXCEPT !.items[1].plain = FALSE]

Maps(op, pairs) == {Request(op, M(p)) : p \in pairs}

ListCalls ==
    {Request("list", L(s)) : s \in UNION {[1 .. n -> {A, AB, Empty}] : n \in 0 .. 4}}
    \cup {Request("list", n) : n \in {A, Empty, M(<<>>), L(<<A, L(<<>>)>>)}}
    \cup {Request("map", M(s)) : s \in UNION {[1 .. n -> {"a", "b"} \X {Empty, AB}] : n \in 0 .. 3}}
    \cup {Request("map", n) : n \in {A, M(<<<<"a", A>>, <<"b", L(<<A>>)>>>>), M(<<<<"", A>>, <<"c", B>>>>),
                                  M(<<<<"a", A>>, <<"b", A>>, <<"c", A>>, <<"a", B>>>>)}}
    \cup {Request("uses", n) : n \in {A, Empty, L(<<A>>)}}

EachCalls ==
    LET base == <<<<"items", L(<<A, B>>)>>>>
        choices == "items" :> {Missing, A, Empty, L(<<>>), M(<<>>), L(<<A, B, A>>)}
                   @@ "matrix" :> {A, M(<<>>), M(<<<<"a", L(<<A, B>>)>>>>), M(<<<<"a", A>>, <<"a", B>>>>),
                                   M(<<<<"a", L(<<>>)>>>>), M(<<<<"a", L(<<A, M(<<>>)>>)>>>>)}
                   @@ "as" :> {Empty, B, L(<<>>)} @@ "index_variable" :> {A, Empty} @@ "x" :> {A}
    IN  Maps("each", Variants2(base, choices)) \cup {Request("each", A), Request("each", Respelled(M(base)))}

TriggerCalls ==
    LET base == <<<<"on_success", L(<<A>>)>>>>
        choices == "on_success" :> {Missing, A, L(<<>>), L(<<A, Empty>>), L(<<L(<<>>)>>)}
                   @@ "on_failure" :> {L(<<A, B>>), Empty} @@ "on_complete" :> {L(<<B>>), L(<<>>)} @@ "x" :> {A}
    IN  Maps("triggers", Variants2(base, choices))

DynamicCalls ==
    LET template == <<<<"name", A>>, <<"command", B>>>>
        choices == "name" :> {Missing, Empty} @@ "command" :> {Missing, Empty, L(<<A>>), L(<<>>), L(<<A, Empty>>), M(<<>>)}
                   @@ "timeout" :> {A} @@ "when" :> {Empty, L(<<>>)} @@ "depends_on" :> {A, L(<<A>>), M(<<>>)}
                   @@ "env" :> {M(<<<<"a", B>>>>), M(<<<<"a", B>>, <<"a", A>>>>), A} @@ "x" :> {A}
        outer == <<<<"items_variable", A>>, <<"template", M(template)>>>>
    IN  Maps("dynamic", {Changed(outer, "template", M(t)) : t \in Variants(template, choices)}
                        \cup Variants(outer, "items_variable" :> {Missing, Empty} @@ "template" :> {Missing, A} @@ "x" :> {A}))

\* Numbers at the edges of an int, and texts that are none.
Numbers == {P(<<"0">>), P(<<"1">>), P(<<"3", "1">>), P(<<"3", "2">>), P(<<"-", "1">>), P(<<"1", "2", "8">>), P(<<>>), P(<<"-">>), A, L(<<>>)}

\* Flags, among them numbers with a sign, a base, underscores and too many digits.
FlagNodes ==
    {P(<<t>>) : t \in {"TRUE", "yes", "On", "off", "0", "1", "2"}} \cup {A, Empty, L(<<>>), W(<<"a", "b", "c", "d", "e">>)}
    \cup {P(t) : t \in {<<"0", "x", "4", "1">>, <<"0", "x", "0", "1">>, <<"0", "b", "1">>, <<"0", "o", "1", "0", "1">>,
                        <<"-", "1">>, <<"-", "0">>, <<"+", "1">>, <<"+">>, <<"0", "b", "_", "1">>, <<"_", "1">>, <<"0", "_", "1">>,
                        <<"0", "x">>, <<"6", "5">>, <<"0", "b", "2">>, <<"0", "0", "1">>, <<"1", "2", "8">>}}

Names == {Missing, Empty, P(<<"1">>), AB, L(<<>>), W(<<"a", "b", "c", "d", "e">>)}

In(key, pairs) == {<<<<key, M(p)>>>> : p \in pairs}

DownloadCalls ==
    LET base == <<<<"url", A>>, <<"path", B>>>>
        choices == "url" :> Names @@ "path" :> Names @@ "sha256" :> Names @@ "overwrite" :> FlagNodes
                   @@ "timeout_ms" :> Numbers @@ "x" :> {A}
    IN  Maps("download", In("download", Variants(base, choices)) \cup {<<>>, <<<<"download", A>>>>})

ListNodes == {A, L(<<>>), L(<<A, B>>), L(<<A, B, A>>), L(<<A, P(<<"1">>)>>), L(<<AB, W(<<"a", "b", "c">>)>>)}

ServiceCalls ==
    LET base == <<<<"name", A>>>>
        choices == "name" :> Names @@ "operation" :> {W(<<"stop">>), A, P(<<"1">>)} @@ "profile" :> Names
                   @@ "arguments" :> ListNodes @@ "timeout_ms" :> Numbers @@ "poll_interval_ms" :> {P(<<"1">>), P(<<"0">>)} @@ "x" :> {A}
    IN  Maps("service", In("service", Variants(base, choices)))

ProcessCalls ==
    LET base == <<<<"identity", M(<<<<"image_name", A>>>>)>>, <<"operation", W(<<"start">>)>>, <<"executable", B>>>>
        choices == "identity" :> {Missing, A, M(<<>>), M(<<<<"image_name", Empty>>>>), M(<<<<"image_name", A>>, <<"x", A>>>>)}
                   @@ "operation" :> {Missing, W(<<"stop">>), W(<<"restart">>), A} @@ "executable" :> {Missing, Empty, P(<<"1">>)}
                   @@ "arguments" :> {L(<<B>>), A} @@ "working_directory" :> {Empty, B} @@ "startup_timeout_ms" :> {P(<<"0">>), P(<<"3">>)}
                   @@ "stop_timeout_ms" :> {P(<<"3">>), A} @@ "force_terminate" :> FlagNodes
    IN  Maps("managed_process", In("managed_process", Variants2(base, [choices EXCEPT !["force_terminate"] = {P(<<"On">>)}])
                                                      \cup Variants(base, choices)))

CommandPairs ==
    LET base == <<<<"command", A>>>>
        choices == "command" :> {Missing, Empty, AB, M(<<>>), L(<<A>>), L(<<A, B>>), L(<<A, B, A>>), L(<<>>), L(<<A, Empty>>)}
                   @@ "output_format" :> {W(<<"JSON">>), W(<<"text">>), Empty, A, L(<<>>)}
                   @@ "parse_regex" :> {M(<<<<"pattern", A>>, <<"output_key", B>>>>), M(<<<<"pattern", A>>>>), A,
                                        M(<<<<"pattern", A>>, <<"output_key", B>>, <<"capture_group", P(<<"2">>)>>>>),
                                        M(<<<<"pattern", A>>, <<"output_key", B>>, <<"capture_group", P(<<"3", "2">>)>>>>)}
                   @@ "parse_json" :> {M(<<<<"path", A>>, <<"output_key", B>>>>), M(<<<<"output_key", B>>>>), M(<<<<"path", L(<<>>)>>>>)}
                   @@ "parse_lines" :> {M(<<<<"output_key", B>>>>), M(<<<<"filter", A>>, <<"output_key", B>>>>), M(<<>>)}
                   @@ "parse_keyvalue" :> {M(<<<<"output_key", B>>>>), M(<<<<"output_key", B>>, <<"delimiter", A>>, <<"line_separator", A>>>>),
                                           M(<<<<"output_key", B>>, <<"x", A>>>>)}
    IN  Variants2(base, choices)

ProgramCalls ==
    LET base == <<<<"program", A>>>>
        choices == "program" :> {Missing, Empty, L(<<>>)} @@ "args" :> ListNodes \cup {Empty, L(<<A, Empty>>), M(<<>>)}
                   @@ "stdin" :> {A, Empty, L(<<>>)} @@ "output_format" :> {W(<<"JSON">>), A}
    IN  Maps("program", Variants2(base, choices))

ActionCalls == DownloadCalls \cup ServiceCalls \cup ProcessCalls \cup Maps("command", CommandPairs) \cup ProgramCalls

\* Tasks: each member alone beside a name, and the runners in pairs.
TaskPairs ==
    LET base == <<<<"name", A>>>>
        members == "name" :> Names @@ "description" :> Names @@ "depends_on" :> ListNodes @@ "dotEnv" :> {A, Empty, M(<<>>)}
                   @@ "vars" :> {M(<<<<"a", A>>, <<"b", B>>, <<"a", B>>>>), A} @@ "env" :> {M(<<>>), M(<<<<"a", L(<<>>)>>>>)}
                   @@ "when" :> {AB, L(<<>>)} @@ "timeout" :> {P(<<"3">>), W(<<"a", "b", "c", "d", "e">>), L(<<A>>)}
                   @@ "each" :> {M(<<<<"items", A>>>>), M(<<<<"matrix", M(<<<<"a", L(<<A, B>>)>>>>)>>, <<"as", B>>>>), M(<<>>)}
                   @@ "retries" :> {A, M(<<>>), M(<<<<"x", A>>>>)} \cup
                                   {M(<<<<"count", P(t)>>>>) : t \in {<<"0">>, <<"1", "2">>, <<"1", "3">>, <<"2", "0">>, <<>>, <<"-", "1">>, <<"a">>}}
                   @@ "triggers" :> {M(<<<<"on_failure", L(<<A, B>>)>>>>), M(<<>>)} @@ "working_dir" :> {Empty, A, M(<<>>)}
                   @@ "silent" :> {P(<<"yes">>), P(<<"no">>), A} @@ "sources" :> {L(<<A, B>>)} @@ "generates" :> {L(<<L(<<>>)>>)}
                   @@ "finally" :> {Empty, B} @@ "x" :> {A} @@ "with" :> {A} @@ "value" :> {A} @@ "script" :> {A}
        runners == [key \in {"command", "actions", "tool", "sequence", "parse_json", "sleep", "inverter", "timeout", "repeat", "switch", "if",
                             "while", "child", "then", "do", "cases", "with", "set_variable", "value"} |-> {A}]
    IN  Variants(base, members) \cup Variants2(base, runners) \cup Variants2(<<<<"name", A>>, <<"child", B>>>>, runners)

WorkflowPairs ==
    LET choices == "name" :> Names @@ "description" :> {A, L(<<>>)} @@ "input_policy" :> {W(<<"strict">>), W(<<"allow_extra">>), A, Empty, L(<<>>)}
                   @@ "variables" :> {M(<<<<"a", A>>, <<"a", B>>>>), A} @@ "env" :> {M(<<>>)} @@ "dotEnv" :> {L(<<A, B>>), M(<<>>)}
                   @@ "defaults" :> {A, M(<<>>), M(<<<<"timeout", P(<<"1">>)>>>>), M(<<<<"timeout", L(<<>>)>>>>), M(<<<<"x", A>>>>)}
                   @@ "includes" :> {A} @@ "x" :> {A}
    IN  Variants2(<<<<"tasks", L(<<>>)>>>>, choices)

\* A contract's field of each type with values of each type.
Samples ==
    {A, P(<<"TRUE">>), P(<<"3">>), P(<<"3", ".", "5">>), P(<<"NULL">>), P(<<>>), P(<<"1", "2", "9">>), L(<<>>), L(<<A, P(<<"1">>)>>),
     M(<<<<"a", L(<<P(<<"~">>)>>)>>>>), L(<<L(<<L(<<A>>)>>)>>), L(<<A, A, A, A, A>>), L(<<A, A, A, A>>)}

ContractCalls ==
    LET F(type) == <<<<"type", W(<<type>>)>>>>
        More(type) == Variants(F(type), "default" :> Samples @@ "enum" :> {L(<<x>>) : x \in Samples})
        base == F("string")
        choices == "type" :> Names @@ "required" :> {P(<<"yes">>), A} @@ "description" :> {A, L(<<>>)} @@ "value" :> {AB} @@ "x" :> {A}
                   @@ "default" :> {A, P(<<"3">>)} @@ "enum" :> {A, L(<<>>), L(<<A, B>>), L(<<A, P(<<"3">>)>>)}
    IN  {Request("inputs", M(<<<<"a", M(p)>>>>)) : p \in UNION {More(type) : type \in ContractTypes} \cup Variants2(base, choices)}
        \cup {Request("outputs", M(<<<<"a", M(p)>>>>)) : p \in Variants(base, choices)}
        \cup {Request("inputs", n) : n \in {A, M(<<>>), M(<<<<"", M(base)>>>>), M(<<<<"a", A>>>>),
                                         M(<<<<"a", M(base)>>, <<"a", M(F("integer"))>>, <<"b", M(F("object"))>>>>)}}

MetadataCalls ==
    Maps("task", TaskPairs) \cup Maps("workflow", WorkflowPairs) \cup ContractCalls
    \cup Maps("script", {<<>>, <<<<"script", A>>>>, <<<<"script", Empty>>>>, <<<<"script", L(<<>>)>>>>})

\* Orchestrations: leaves, named nodes with parameters and children, and flat forms.
Sleep == M(<<<<"sleep", P(<<"3">>)>>>>)
Shell == M(<<<<"shell", M(<<<<"cmd", A>>, <<"Timeout", P(<<"1">>)>>>>)>>>>)
Steps(nodes) == M(<<<<"sequence", L(nodes)>>>>)

LeafNodes ==
    {Sleep, Shell, A, L(<<Sleep>>), M(<<>>), M(<<<<"sleep", A>>, <<"shell", A>>>>), M(<<<<"x", A>>>>), M(<<<<"sleep", L(<<Sleep>>)>>>>),
     M(<<<<"shell", M(<<<<"cmd", A>>, <<"output_key", B>>, <<"OutputKey", AB>>>>)>>>>), M(<<<<"shell", M(<<<<"output_key", B>>>>)>>>>),
     M(<<<<"shell", M(<<<<"cmd", A>>, <<"timeout", A>>>>)>>>>), M(<<<<"shell", M(<<<<"cmd", A>>, <<"timeout", W(<<"{", "a">>)>>>>)>>>>),
     M(<<<<"shell", M(<<<<"cmd", A>>, <<"stream_output", P(<<"TRUE">>)>>, <<"Timeout", P(<<"+", "1">>)>>>>)>>>>),
     M(<<<<"shell", M(<<<<"cmd", L(<<>>)>>>>)>>>>), M(<<<<"shell", M(<<<<"cmd", A>>, <<"x", A>>>>)>>>>),
     M(<<<<"parse_regex", A>>>>), M(<<<<"parse_json", A>>>>), M(<<<<"set_variable", A>>, <<"value", B>>>>),
     M(<<<<"set_variable", A>>, <<"value", B>>, <<"from", B>>>>), M(<<<<"set_variable", M(<<<<"key", A>>>>)>>>>),
     M(<<<<"shell", M(<<<<"cmd", W(<<"a", "b", "c", "d", "a", "b", "c">>)>>, <<"output_key", W(<<"a", "b", "c", "d">>)>>>>)>>>>),
     M(<<<<"shell", M(<<<<"cmd", W(<<"a", "b", "c", "d", "a", "b", "c">>)>>, <<"output_key", W(<<"a", "b", "c", "d", "e", "f">>)>>>>)>>>>)}

FlatPairs ==
    Variants2(<<<<"if", A>>, <<"then", Sleep>>>>,
        "if" :> {Sleep, L(<<Sleep, Sleep>>), L(<<>>)} @@ "then" :> {L(<<Sleep>>), A, L(<<>>)} @@ "else" :> {Sleep, L(<<Sleep, Sleep>>), A}
        @@ "Else" :> {Sleep} @@ "x" :> {A})
    \cup Variants(<<<<"while", A>>, <<"do", Sleep>>>>,
        "while" :> {Sleep} @@ "do" :> {A} @@ "max_iterations" :> {P(<<"2">>), A} @@ "MaxIterations" :> {P(<<"2">>)})
    \cup Variants(<<<<"switch", A>>, <<"cases", L(<<Sleep, L(<<Sleep>>)>>)>>>>, "switch" :> {Sleep} @@ "cases" :> {L(<<>>), A, L(<<A>>)})
    \cup Variants(<<<<"timeout", P(<<"3">>)>>, <<"child", Sleep>>>>, "timeout" :> {A} @@ "child" :> {L(<<Sleep, Shell>>), A})

NamedPairs ==
    {<<<<key, n>>>> : key \in {"sequence", "SEQUENCE", "inverter"}, n \in {L(<<Sleep>>), L(<<Sleep, Shell>>), L(<<>>), A, Sleep}}
    \cup {<<<<"sequence", L([i \in 1 .. n |-> Sleep])>>>> : n \in 3 .. 5}
    \cup {<<<<"sequence", M(p)>>>> : p \in {<<<<"children", L(<<Sleep, Sleep>>)>>>>, <<<<"child", L(<<Sleep, Shell>>)>>>>, <<<<"child", Sleep>>>>,
             <<<<"children", L(<<Sleep>>)>>, <<"child", Sleep>>>>, <<<<"Children", L(<<Sleep>>)>>>>, <<>>}}
    \cup {<<<<"precondition", M(p)>>>> : p \in {<<<<"condition", A>>, <<"child", Sleep>>>>, <<<<"child", Sleep>>>>, <<<<"condition", A>>>>}}
    \cup {<<<<"run_once", L(<<Steps(<<Steps(<<Sleep>>)>>)>>)>>>>, <<<<"run_once", L(<<Steps(<<M(<<<<"inverter", L(<<Sleep>>)>>>>)>>)>>)>>>>,
          <<<<"run_once", M(<<<<"child", L(<<Steps(<<Sleep>>)>>)>>>>)>>>>}

TreeCalls ==
    {Request("named", n) : n \in LeafNodes} \cup Maps("named", FlatPairs \cup NamedPairs)
    \cup {Request("named", Steps(<<M(p), Sleep>>)) : p \in Variants(<<<<"if", Sleep>>, <<"then", Sleep>>>>, "else" :> {Sleep})}
    \cup {[op |-> "flat", node |-> M(<<<<"name", A>>>> \o p), key |-> p[1][1]] :
            p \in {q \in FlatPairs \cup NamedPairs : q[1][1] \in DOMAIN FlatType \cup DOMAIN SingleChild \cup {"sequence"}}}
    \cup {[op |-> "flat", node |-> M(<<<<"run_once", A>>, <<"child", n>>>>), key |-> "run_once"] : n \in {Sleep, L(<<Sleep, Shell>>), A}}

NameCalls ==
    LET Upto(k) == UNION {[1 .. n -> {"a", "A", "b", "_"}] : n \in 0 .. k} IN {Request("names", L(<<W(a), W(b)>>)) : a \in Upto(3), b \in Upto(2)}

\* Workflows: one task of each kind, and two that depend on one another.
Task(pairs) == M(<<<<"name", A>>>> \o pairs)
Flow(tasks) == <<<<"tasks", L(tasks)>>>>
Runner == <<<<"command", B>>>>
Then2 == M(<<<<"name", B>>>> \o Runner \o <<<<"depends_on", A>>>>)

SnapshotCalls ==
    {Request("snapshot", M(Flow(<<Task(p)>>))) : p \in {q \in CommandPairs : Len(q) <= 2} \cup {<<<<"actions", n>>>> : n \in {Sleep, Steps(<<Sleep, Shell>>), A}}
        \cup {<<<<"timeout", P(<<"3">>)>>, <<"child", Sleep>>>>, <<<<"sequence", L(<<Sleep>>)>>, <<"timeout", P(<<"3">>)>>>>,
              <<<<"if", A>>, <<"then", Sleep>>, <<"timeout", P(<<"3">>)>>>>, <<<<"program", A>>>>, <<<<"tool", A>>>>, <<>>,
              <<<<"if", A>>, <<"then", Sleep>>, <<"retries", M(<<<<"count", P(<<"1">>)>>>>)>>>>,
              Runner \o <<<<"script", A>>>>, Runner \o <<<<"sleep", A>>>>, Runner \o <<<<"retries", M(<<<<"count", P(<<"1">>)>>>>)>>>>}}
    \cup {Request("snapshot", M(Flow(<<Task(p \o q), Then2>>))) : p \in {Runner}, q \in
            {<<>>, <<<<"depends_on", B>>>>, <<<<"depends_on", L(<<B, A>>)>>>>, <<<<"triggers", M(<<<<"on_success", L(<<B>>)>>>>)>>>>,
             <<<<"triggers", M(<<<<"on_failure", L(<<AB>>)>>>>)>>>>, <<<<"finally", W(<<"{{">>)>>>>, <<<<"finally", B>>>>, <<<<"finally", AB>>>>}}
    \cup {Request("snapshot", n) : n \in {Missing, A, M(<<>>), M(Flow(<<>>)), M(<<<<"tasks", A>>>>), M(Flow(<<Task(Runner)>>) \o <<<<"includes", A>>>>),
            M(Flow(<<Task(Runner), Task(Runner)>>)), M(Flow(<<Task(Runner), Then2, Then2>>)), M(Flow(<<Task(Runner)>>) \o <<<<"x", A>>>>),
            M(<<<<"name", A>>, <<"env", M(<<<<"a", B>>>>)>>>> \o Flow(<<Task(Runner), Then2>>))}}

ModelDocumentCalls ==
    ListCalls \cup EachCalls \cup TriggerCalls \cup DynamicCalls \cup ActionCalls \cup MetadataCalls \cup TreeCalls \cup NameCalls \cup SnapshotCalls

ModelCanon(x) ==
    CASE x = "Timeout" -> "timeout" [] x = "OutputKey" -> "output_key" [] x = "Else" -> "else" [] x = "MaxIterations" -> "max_iterations"
      [] x = "SEQUENCE" -> "sequence" [] x = "Children" -> "children" [] x = "dotEnv" -> "dot_env" [] OTHER -> x

-----------------------------------------------------------------------------
\* Expressions: what a text is made of, and the texts.
ModelVariables ==
    <<"a">> :> Text(<<"a", "1">>) @@ <<"b">> :> Number(10) @@ <<"a", ".", "b">> :> Text(<<>>)

Token(kind, value) == [kind |-> kind, value |-> value]

Op(value) == Token("OPERATOR", value)

Ident(name) == Token("IDENTIFIER", <<name>>)

LParen == Token("LPAREN", <<"(">>)
RParen == Token("RPAREN", <<")">>)
Dot == Token("DOT", <<".">>)

RECURSIVE Escaped(_)
Escaped(t) == IF t = <<>> THEN <<>> ELSE (IF Head(t) = "'" THEN <<"\\", "'">> ELSE <<Head(t)>>) \o Escaped(Tail(t))

Spelling(t) ==
    CASE t.kind = "VARIABLE" -> <<"$">> \o t.value
      [] t.kind = "STRING"   -> <<"'">> \o Escaped(t.value) \o <<"'">>
      [] t.kind = "REGEX"    -> <<"/">> \o t.value \o <<"/">>
      [] OTHER               -> t.value

Spelled(s) == FlattenSeq([i \in DOMAIN s |-> <<" ">> \o Spelling(s[i])])

\* A slash begins a regular expression in an operand's place, and elsewhere
\* stands for itself unless it ends the input.
Readable(s) ==
    \A i \in DOMAIN s :
        LET place == i = 1 \/ s[i - 1].kind \in {"OPERATOR", "LPAREN"} IN
        /\ s[i].kind = "REGEX" => place
        /\ s[i] = Op(<<"/">>) => ~place /\ i < Len(s)

NoFault == [at |-> 0, gives |-> FALSE]

\* A call with roomy limits.
Ask(s) ==
    [text |-> Spelled(s), written |-> IF Readable(s) THEN s ELSE <<>>, host |-> TRUE, regex |-> TRUE, fault |-> NoFault,
     max_input |-> 60, max_tokens |-> 30, max_depth |-> 4, max_string |-> 9]

Raw(t) == [Ask(<<>>) EXCEPT !.text = t]

Operands ==
    {Token("VARIABLE", <<"a">>), Token("STRING", <<"1">>), Token("STRING", <<"nan">>), Token("REGEX", <<"a">>), Ident("true")}

Operators == {Op(<<"|", "|">>), Op(<<"&", "&">>), Op(<<"=", "=">>), Op(<<"!", "=">>), Op(<<"<">>), Op(<<">", "=">>)}

Not == Op(<<"!">>)

Alphabet == {Token("VARIABLE", <<"a">>), Token("STRING", <<"'">>), Token("REGEX", <<"\\", "/">>), Ident("true"), Ident("includes"),
             Dot, LParen, RParen, Not, Op(<<"=", "=">>), Op(<<"=", "=", "=">>), Op(<<"/">>)}

Short == UNION {[1 .. n -> Alphabet] : n \in 0 .. 3}

Middles == {Token("VARIABLE", <<"a">>), Token("STRING", <<"1">>)}

Chains == {<<x, f, y, g, z>> : x, z \in Operands, y \in Middles, f, g \in Operators}

Methods == {"includes", "startsWith", "endsWith", "test", "a"}

Receivers == {Token("VARIABLE", <<"a">>), Token("REGEX", <<"a">>), Token("NUMBER", <<"1">>)}

Arguments == {<<>>, <<Token("STRING", <<"1">>)>>, <<Token("VARIABLE", <<"a", ".", "b">>)>>, <<Token("REGEX", <<"a">>)>>}

Call1(x, m, args) == <<x, Dot, Ident(m), LParen>> \o args \o <<RParen>>

MethodCalls == {Call1(x, m, args) : x \in Receivers, m \in Methods, args \in Arguments}

Endings == {<<Dot, Ident("test"), LParen, Token("STRING", <<"true">>), RParen>>, <<Op(<<"=", "=">>), Ident("true")>>, <<RParen>>}

Nested == {[i \in 1 .. n |-> LParen] \o <<Token("NUMBER", <<"1">>)>> \o [i \in 1 .. m |-> RParen] : n, m \in 0 .. 4}
          \cup {[i \in 1 .. n |-> Not] \o <<Token("VARIABLE", <<"b">>)>> : n \in 1 .. 4}

\* Comparisons with a number out of range: a literal, which is refused, or a
\* text, which is infinite.
Vast ==
    LET numbers == {Token("NUMBER", <<LongRun>>), Token("STRING", <<LongRun>>), Token("NUMBER", <<"1", ".", LongRun>>)}
    IN {<<x, f, y>> : x, y \in numbers, f \in Operators}

\* Sentences that ask the Host and the allocator at many places.
Rich ==
    {Call1(Token("VARIABLE", <<"a">>), "test", <<Token("STRING", <<"1">>)>>) \o <<Op(<<"&", "&">>), Token("REGEX", <<"a">>)>>,
     Call1(Token("REGEX", <<"a">>), "test", Call1(Token("VARIABLE", <<"a">>), "includes", <<Token("STRING", <<"1">>)>>)),
     <<Not, Token("STRING", <<"1">>), Op(<<"=", "=">>), Token("REGEX", <<"a">>)>>,
     <<Token("REGEX", <<"a">>), Op(<<"|", "|">>), Token("STRING", <<"1">>), Op(<<"<">>), Token("VARIABLE", <<"a">>)>>}

Faulty == {[Ask(s) EXCEPT !.fault = [at |-> n, gives |-> g]] : s \in Rich, n \in 1 .. 12, g \in BOOLEAN}

Limited ==
    {[Ask(s) EXCEPT !.max_depth = n] : s \in Rich \cup Nested, n \in {0, 1, 2, 3, 129}}
    \cup {[Ask(s) EXCEPT !.max_tokens = n] : s \in Rich, n \in 0 .. 12}
    \cup {[Ask(s) EXCEPT !.max_string = n] : s \in Rich, n \in 0 .. 2}
    \cup {[Ask(s) EXCEPT !.max_input = n] : s \in Rich, n \in 18 .. 26}
    \cup {[Ask(s) EXCEPT !.host = h, !.regex = ~h] : s \in Rich, h \in BOOLEAN}

Pieces == {"$", "a", "1", ".", "'", "/", "\\", "=", " ", "?", "(", "&"}

ModelCalls ==
    {Ask(s) : s \in Short \cup Chains \cup MethodCalls \cup {c \o d : c \in MethodCalls, d \in Endings} \cup Nested \cup Vast \cup Rich}
    \cup Faulty \cup Limited \cup {Raw(t) : t \in UNION {[1 .. n -> Pieces] : n \in 1 .. 3}}

-----------------------------------------------------------------------------
\* The directories where templates are looked for.
Shelf(names) == [there |-> TRUE, names |-> names, dir |-> FALSE]
NoShelf == [there |-> FALSE, names |-> {}, dir |-> FALSE]
Folder == [there |-> TRUE, names |-> {"x"}, dir |-> TRUE]

ModelSites ==
    {<<NoShelf, Shelf({"wanted", "x"}), Shelf({"wanted"})>>, <<Shelf({"x"}), Folder, NoShelf>>,
     <<Shelf({"x"}), NoShelf, Shelf({"x", "y"})>>, <<Shelf({"x"}), Shelf({"z"}), Shelf({"x", "y"})>>}

-----------------------------------------------------------------------------
(* The machines.                                                              *)

MCBytes == 2

MCWritten == [i \in Reads |-> MCBytes]

MCModes == {[retained |-> TRUE, streamed |-> TRUE], [retained |-> FALSE, streamed |-> FALSE]}

NoDocument == ask = <<>> /\ got = <<>> /\ stage = "none"

NoExpression == expr = [phase |-> "none", p |-> [tok |-> [size |-> 0, value |-> <<>>]]]

NoProject ==
    /\ site = <<NoShelf, NoShelf, NoShelf>> /\ inode = <<>> /\ entry = 0
    /\ call = [i \in Callers |-> NewInit] /\ faults = 0

ComponentsInit ==
    /\ \/ subject = "documents" /\ DocInit /\ NoExpression /\ NoProject
       \/ subject = "expressions" /\ ExprInit /\ NoDocument /\ NoProject
       \/ subject = "project" /\ InitInit /\ NoDocument /\ NoExpression
       \/ subject \in {"driver", "worker"} /\ NoDocument /\ NoExpression /\ NoProject
    /\ WorkerInit

\* Bounds: the driver by itself has a retainer and an emit callback, the worker's
\* has neither; how a process ends matters to the worker alone, and one stream
\* is enough for it.  A process that the driver's owner terminates wrote nothing.
DriverStep ==
    /\ DriverNext /\ UNCHANGED wk
    /\ lib'.written["out"] + lib'.written["err"] <= MCBytes
    /\ lib'.ending # "TIMED_OUT" /\ (lib'.terminated => lib'.written = NoBytes)
    /\ drv'.payload = "driver" => drv'.emit \/ drv'.closing

WorkerStep == WorkerNext /\ lib'.written["err"] = 0

ComponentsNext ==
    /\ \/ subject = "documents" /\ DocNext /\ UNCHANGED <<exprVars, initVars, workerVars>>
       \/ subject = "expressions" /\ ExprNext /\ UNCHANGED <<docVars, initVars, workerVars>>
       \/ subject = "project" /\ InitNext /\ UNCHANGED <<docVars, exprVars, workerVars>>
       \/ subject = "driver" /\ DriverStep /\ UNCHANGED <<docVars, exprVars, initVars>>
       \/ subject = "worker" /\ WorkerStep /\ UNCHANGED <<docVars, exprVars, initVars>>
    /\ UNCHANGED subject

ComponentsSpec == ComponentsInit /\ [][ComponentsNext]_<<subject, docVars, exprVars, initVars, workerVars>>
=============================================================================
