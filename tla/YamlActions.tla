----------------------------- MODULE YamlActions -----------------------------
(* The parameters of an action (yml/yaml_action_params.c): downloads,         *)
(* services, managed processes, commands and programs.  own holds the texts,  *)
(* args the arguments, set the flags and numbers of the owner.                *)
EXTENDS YamlTaskFields

CONSTANTS ACTION_MAX_ARGUMENTS, ACTION_MAX_BYTES

retain_text(s) == Charge(s, ACTION_MAX_BYTES)

read_text(s, parent, key, string_only) ==
    Keep(retain_text(read_scalar(praktor_yaml_field_get(s, parent, key), cyaml_get(parent, key), string_only)), key)

\* empty_error(): the node is looked up again to say where it is.
NotEmpty(s, parent, key) ==
    IF cyaml_get(parent, key).text # <<>> THEN s ELSE Refuse(praktor_yaml_field_get(s, parent, key))

Set(s, field, v) == IF s.status # "OK" THEN s ELSE [s EXCEPT !.set = (field :> v) @@ @]

Operations == {"status", "start", "stop", "restart"}

\* The message is made before the text is read.
Operation(s, text) ==
    IF \E o \in Operations : text = <<o>> THEN Set(Dispose(s), "operation", text[1]) ELSE Refuse(Dispose(s))

operation(s, parent) ==
    LET n == cyaml_get(parent, "operation") IN
    IF praktor_yaml_has(parent, "operation")
    THEN Operation(read_scalar(Allocate(praktor_yaml_field_get(s, parent, "operation"), "ALLOCATION"), n, TRUE), n.text) ELSE s

IsPositive(n) == n > 0

Positive(s, key) == Require(Set(s, key, s.number), IsPositive(s.number))

positive_integer(s, parent, key) ==
    IF praktor_yaml_has(parent, key)
    THEN Positive(praktor_yaml_field_integer(praktor_yaml_field_get(s, parent, key), cyaml_get(parent, key)), key) ELSE s

\* append_argument() consumes the text on every path.
PushArgument(s) ==
    IF s.status # "OK" THEN s
    ELSE IF Len(s.args) >= ACTION_MAX_ARGUMENTS THEN Refuse(Free(s))
    ELSE IF Breaks(s) THEN Free(Allocate(s, "ALLOCATION")) ELSE [Allocate(s, "ALLOCATION") EXCEPT !.args = Append(@, s.text)]

append_argument(s) == PushArgument(retain_text(s))

\* The items of a sequence become the arguments: the strings of an action, or
\* whatever scalars a command or a program has.
RECURSIVE AppendArguments(_, _, _)
AppendArguments(s, items, strings) ==
    LET n == Head(items).val IN
    IF items = <<>> THEN s
    ELSE Then(append_argument(IF strings THEN read_scalar(s, n, TRUE) ELSE praktor_yaml_field_decode(s, n)),
              LAMBDA t : AppendArguments(t, Tail(items), strings))

EachArgument(s, node, strings) ==
    IF Len(node.items) > ACTION_MAX_ARGUMENTS THEN Refuse(s) ELSE AppendArguments(s, node.items, strings)

arguments(s, parent) ==
    LET n == cyaml_get(parent, "arguments")
        got == praktor_yaml_field_get(s, parent, "arguments")
    IN
    IF ~praktor_yaml_has(parent, "arguments") THEN s
    ELSE IF n.kind # "seq" THEN Refuse(got) ELSE EachArgument(got, n, TRUE)

SetFlag(s, key) == Set(s, key, s.flag)

Flag(s, parent, key, force) ==
    IF praktor_yaml_has(parent, key)
    THEN SetFlag(praktor_yaml_field_boolean(praktor_yaml_field_get(s, parent, key), cyaml_get(parent, key), force), key) ELSE s

\* Optional texts that are read when they are there, and must not be empty.
OptionalText(s, node, key, string_only) ==
    IF praktor_yaml_has(node, key) THEN read_text(s, node, key, string_only) ELSE s

OptionalName(s, node, key) ==
    IF praktor_yaml_has(node, key) THEN NotEmpty(read_text(s, node, key, TRUE), node, key) ELSE s

\* A mapping with no other keys, and with these.
Block(s, node, allowed, needed) ==
    IF node.kind # "map" THEN Refuse(s)
    ELSE Require(praktor_yaml_check_keys(s, node, allowed), \A key \in needed : praktor_yaml_has(node, key))

-----------------------------------------------------------------------------
DownloadKeys == {"url", "path", "sha256", "overwrite", "timeout_ms"}

download(s, node) ==
    LET Texts(t) == read_text(read_text(t, node, "url", FALSE), node, "path", FALSE)
        Filled(t) == NotEmpty(NotEmpty(t, node, "url"), node, "path")
        Summed(t) == Flag(OptionalText(t, node, "sha256", FALSE), node, "overwrite", FALSE)
        Timed(t) == positive_integer(t, node, "timeout_ms")
    IN  Then(Then(Then(Then(Block(s, node, DownloadKeys, {"url", "path"}), Texts), Filled), Summed), Timed)

ServiceKeys == {"operation", "name", "profile", "arguments", "timeout_ms", "poll_interval_ms"}

service(s, node) ==
    LET Named(t) == NotEmpty(read_text(t, node, "name", TRUE), node, "name")
        Asked(t) == OptionalName(operation(t, node), node, "profile")
        Given(t) == arguments(t, node)
        Timed(t) == positive_integer(positive_integer(t, node, "timeout_ms"), node, "poll_interval_ms")
    IN  Then(Then(Then(Then(Block(s, node, ServiceKeys, {"name"}), Named), Asked), Given), Timed)

ProcessKeys ==
    {"operation", "executable", "arguments", "working_directory", "identity", "startup_timeout_ms", "stop_timeout_ms",
     "force_terminate"}

\* A start or a restart needs something to execute.
managed_process(s, node) ==
    LET id == cyaml_get(node, "identity")
        Identity(t) == Block(praktor_yaml_field_get(t, node, "identity"), id, {"image_name"}, {"image_name"})
        Named(t) == NotEmpty(read_text(t, id, "image_name", TRUE), id, "image_name")
        Able(t) ==
            Require(t, \/ t.set["operation"] \notin {"start", "restart"}
                       \/ "executable" \in DOMAIN t.own /\ t.own["executable"] # <<>>)
        Executed(t) == Able(OptionalText(operation(t, node), node, "executable", TRUE))
        Placed(t) == OptionalName(arguments(t, node), node, "working_directory")
        Timed(t) == positive_integer(positive_integer(t, node, "startup_timeout_ms"), node, "stop_timeout_ms")
        Forced(t) == Flag(t, node, "force_terminate", TRUE)
        Told(t) == Then(Then(Then(t, Identity), Named), Executed)
    IN  Then(Then(Then(Told(Block(s, node, ProcessKeys, {"identity"})), Placed), Timed), Forced)

-----------------------------------------------------------------------------
\* Commands and programs decode their scalars without the limit of a field.
scalar_field(s, parent, key) ==
    Keep(retain_text(praktor_yaml_field_decode(praktor_yaml_field_get(s, parent, key), cyaml_get(parent, key))), key)

scalar_list(s, node) ==
    CASE node.kind = "seq" -> EachArgument(s, node, FALSE)
      [] node.kind = "scalar" -> IF node.text = <<>> THEN Dispose(praktor_yaml_field_decode(s, node))
                                 ELSE append_argument(praktor_yaml_field_decode(s, node))
      [] OTHER -> Refuse(s)

OutputFormat(s, text) ==
    CASE Lower(text) \in {<<>>, <<"text">>} -> Set(s, "output_format", "text")
      [] Lower(text) = <<"json">> -> Set(s, "output_format", "json")
      [] OTHER -> Refuse(s)

output_format(s, task) ==
    LET n == cyaml_get(task, "output_format") IN
    IF praktor_yaml_has(task, "output_format")
    THEN OutputFormat(Dispose(praktor_yaml_field_decode(praktor_yaml_field_get(s, task, "output_format"), n)), n.text) ELSE s

required_scalar(s, node, key) ==
    IF praktor_yaml_has(node, key) THEN scalar_field(s, node, key) ELSE Refuse(s)

OptionalScalar(s, node, key) == IF praktor_yaml_has(node, key) THEN scalar_field(s, node, key) ELSE s

Parsers == <<"parse_regex", "parse_json", "parse_lines", "parse_keyvalue">>

ParserKeys ==
    <<{"pattern", "capture_group", "output_key"}, {"path", "output_key"}, {"filter", "output_key"},
      {"delimiter", "line_separator", "output_key"}>>

command_parser(s, task, p) ==
    LET node == cyaml_get(task, Parsers[p])
        Grouped(t) == Set(t, "capture_group", t.number)
        Group(t) == IF praktor_yaml_has(node, "capture_group")
                    THEN Grouped(praktor_yaml_field_integer(praktor_yaml_field_get(t, node, "capture_group"),
                                                            cyaml_get(node, "capture_group"))) ELSE t
        Members(t) ==
            CASE p = 1 -> Group(required_scalar(t, node, "pattern"))
              [] p = 2 -> required_scalar(t, node, "path")
              [] p = 3 -> OptionalScalar(t, node, "filter")
              [] OTHER -> OptionalScalar(OptionalScalar(t, node, "delimiter"), node, "line_separator")
        Keyed(t) == required_scalar(t, node, "output_key")
    IN  Then(Then(Block(praktor_yaml_field_get(s, task, Parsers[p]), node, ParserKeys[p], {}), Members), Keyed)

\* A command is a text or a list of texts, with at most one parser.
command_params(s, task) ==
    LET node == cyaml_get(task, "command")
        chosen == {p \in 1 .. 4 : praktor_yaml_has(task, Parsers[p])}
        Read(t) ==
            CASE node.kind = "seq" -> Require(scalar_list(t, node),
                        node.items # <<>> /\ \A i \in DOMAIN node.items : node.items[i].val.text # <<>>)
              [] node.kind = "scalar" -> Require(scalar_field(t, task, "command"), node.text # <<>>)
              [] OTHER -> Refuse(t)
        Parsed(t) == IF chosen = {} THEN t ELSE command_parser(Set(t, "capture_group", 1), task, Min(chosen))
        Formatted(t) == output_format(t, task)
        second == Parsers[Min(chosen \ {Min(chosen)})]
    IN
    IF ~praktor_yaml_has(task, "command") THEN Refuse(s)
    ELSE IF Cardinality(chosen) > 1 THEN Refuse(praktor_yaml_field_get(s, task, second))
    ELSE Then(Then(Then(praktor_yaml_field_get(s, task, "command"), Read), Formatted), Parsed)

program_params(s, task) ==
    LET node == cyaml_get(task, "program")
        Named(t) == Require(scalar_field(Require(t, node.kind = "scalar"), task, "program"), node.text # <<>>)
        Args(t) == IF praktor_yaml_has(task, "args")
                   THEN scalar_list(praktor_yaml_field_get(t, task, "args"), cyaml_get(task, "args")) ELSE t
        Rest(t) == output_format(OptionalScalar(t, task, "stdin"), task)
    IN
    IF ~praktor_yaml_has(task, "program") THEN Refuse(s)
    ELSE Then(Then(Then(praktor_yaml_field_get(s, task, "program"), Named), Args), Rest)

-----------------------------------------------------------------------------
ActionTexts(s) == s.args \o LET fields == SetToSeq(DOMAIN s.own) IN [i \in DOMAIN fields |-> s.own[fields[i]]]

praktor_yaml_action_params_destroy(s) == Free([s EXCEPT !.live = @ - Len(ActionTexts(s))])

\* The owner begins with the defaults of its kind.
Defaults(kind) ==
    CASE kind = "download" -> [overwrite |-> FALSE, timeout_ms |-> 300000]
      [] kind = "service"  -> [operation |-> "status", timeout_ms |-> 30000, poll_interval_ms |-> 200]
      [] kind = "managed_process" ->
            [operation |-> "status", startup_timeout_ms |-> 5000, stop_timeout_ms |-> 5000, force_terminate |-> FALSE]
      [] kind = "command"  -> [output_format |-> "text", capture_group |-> 0]
      [] OTHER             -> [output_format |-> "text"]

ActionKinds == {"download", "service", "managed_process", "command", "program"}

ActionParams(o, kind, task) ==
    LET node == cyaml_get(task, kind)
        got == praktor_yaml_field_get(o, task, kind)
    IN
    CASE kind = "command" -> command_params(o, task)
      [] kind = "program" -> program_params(o, task)
      [] kind = "download" -> download(got, node)
      [] kind = "service" -> service(got, node)
      [] OTHER -> managed_process(got, node)

HeldOrDestroyed(s) == IF s.status = "OK" THEN s ELSE praktor_yaml_action_params_destroy(s)

praktor_yaml_action_params_create(s, kind, task) ==
    LET owner == Create([s EXCEPT !.set = Defaults(kind)], "ALLOCATION") IN
    IF owner.status # "OK" THEN owner ELSE Then(ActionParams(owner, kind, task), HeldOrDestroyed)
=============================================================================
