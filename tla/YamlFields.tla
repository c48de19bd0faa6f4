----------------------------- MODULE YamlFields -----------------------------
(* YAML documents and their fields (yml/yaml_document.c, yaml_fields.c,       *)
(* yaml_value.c): a node is read by looking a key up, by decoding a scalar    *)
(* into a text of the reader's own, and by converting texts to integers,      *)
(* booleans and JSON values.                                                  *)
(* A text is a sequence of pieces, a piece being a word or a character; a     *)
(* node has its aliases resolved.  A reading is a record that is handed on    *)
(* from call to call: the status, whose failure it is (origin), the calls of  *)
(* the allocator so far and the one of them that fails, the owners that are   *)
(* alive, and what has been read.  After a failure nothing more is read: a    *)
(* reader hands a failed reading on as it is.                                 *)
EXTENDS Integers, SequencesExt, FiniteSetsExt

CONSTANTS
    PARAMETER_MAX,      \* PRAKTOR_YAML_MAX_PARAMETER_LENGTH, in pieces
    INT_MAX, INTMAX_MAX, UINT64_MAX,
    VALUE_MAX_DEPTH, VALUE_MAX_NODES

-----------------------------------------------------------------------------
\* Nodes.  A mapping's item has a key, and whether it is spelled plainly: keys
\* are looked up by their spelling, but decoded where they are listed.
Node(kind, text, string, items) == [kind |-> kind, text |-> text, string |-> string, items |-> items]

Missing == Node("none", <<>>, FALSE, <<>>)

KeyText(item) == IF item.key = "" THEN <<>> ELSE <<item.key>>

KeyNode(item) == Node("scalar", KeyText(item), TRUE, <<>>)

Places(node, key) == {i \in DOMAIN node.items : node.kind = "map" /\ node.items[i].plain /\ node.items[i].key = key}

praktor_yaml_has(node, key) == Places(node, key) # {}

cyaml_get(node, key) == IF praktor_yaml_has(node, key) THEN node.items[Min(Places(node, key))].val ELSE Missing

-----------------------------------------------------------------------------
\* Readings.
Reading(fault) ==
    [status |-> "OK", origin |-> "NONE", calls |-> 0, fault |-> fault, live |-> 0, retained |-> 0, expanded |-> 0,
     text |-> <<>>, number |-> 0, flag |-> FALSE, value |-> <<>>, remaining |-> VALUE_MAX_NODES,
     own |-> <<>>, set |-> <<>>, args |-> <<>>, lists |-> [g \in 0 .. 3 |-> <<>>], maps |-> [m \in 1 .. 2 |-> <<>>],
     json |-> <<>>, fields |-> <<>>, rows |-> <<>>, tree |-> <<>>, meta |-> <<>>, tasks |-> <<>>]

\* Step(s): a step on a reading that is there, as one statement follows another.
Then(s, Step(_)) == CHOOSE t \in {Step(r) : r \in {s}} : TRUE

\* A call of the allocator, which succeeds unless it is the one that fails.
Tried(s) == [s EXCEPT !.calls = @ + 1]

Breaks(s) == s.calls + 1 = s.fault

Stop(s, status, origin) == [s EXCEPT !.status = status, !.origin = origin]

\* praktor_yaml_field_fail(): a failure is reported with a message, and is one
\* of the allocator when the message cannot be made.
RefuseAs(s, status) ==
    IF s.status # "OK" THEN s
    ELSE IF Breaks(s) THEN Stop(Tried(s), "ENOMEM", "ALLOCATION") ELSE Stop(Tried(s), status, "INPUT")

Refuse(s) == RefuseAs(s, "EINVAL")

\* A message or a container is allocated.
Allocate(s, origin) ==
    IF s.status # "OK" THEN s ELSE IF Breaks(s) THEN Stop(Tried(s), "ENOMEM", origin) ELSE Tried(s)

\* A new owner is alive.
Create(s, origin) ==
    IF s.status # "OK" THEN s
    ELSE IF Breaks(s) THEN Stop(Tried(s), "ENOMEM", origin) ELSE [Tried(s) EXCEPT !.live = @ + 1]

\* The owner in the hand is freed: always, after a success, or after a failure.
Free(s) == [s EXCEPT !.live = @ - 1]

\* What was read must be good.
Require(s, good) == IF s.status # "OK" \/ good THEN s ELSE Refuse(s)

Dispose(s) == IF s.status = "OK" THEN Free(s) ELSE s

Undo(s) == IF s.status = "OK" THEN s ELSE Free(s)

\* praktor_yaml_document_create(): an owner, a copy of the source and what the
\* provider parsed; a source that is no YAML has no root.
praktor_yaml_document_create(s, root) ==
    LET owner == Create(s, "ALLOCATION")
        source == Create(owner, "ALLOCATION")
        parsed == Create(source, "PROVIDER")
    IN
    IF owner.status # "OK" THEN owner
    ELSE IF source.status # "OK" THEN Free(source)
    ELSE IF parsed.status # "OK" THEN Free(Free(parsed))
    ELSE IF root = Missing THEN Stop(Free(Free(Free(parsed))), "EINVAL", "PROVIDER") ELSE parsed

praktor_yaml_document_destroy(s) == Free(Free(Free(s)))

\* scalar_text(): the provider decodes, and its text is copied and freed.
Hold(s, text) == IF s.status = "OK" THEN [s EXCEPT !.text = text] ELSE s

praktor_yaml_field_decode(s, node) ==
    IF node.kind # "scalar" THEN Refuse(s) ELSE Hold(Create(Allocate(s, "PROVIDER"), "ALLOCATION"), node.text)

\* n texts are decoded and freed again, one after the other.
Glance(s, n) ==
    LET at == s.fault - s.calls IN
    IF s.status # "OK" THEN s
    ELSE IF at \notin 1 .. 2 * n THEN [s EXCEPT !.calls = @ + 2 * n]
    ELSE Stop([s EXCEPT !.calls = s.fault], "ENOMEM", IF at % 2 = 1 THEN "PROVIDER" ELSE "ALLOCATION")

\* praktor_yaml_get() also looks for the key's place, by the decoded keys.
praktor_yaml_field_get(s, node, key) ==
    IF ~praktor_yaml_has(node, key) THEN s
    ELSE Glance(s, Min({i \in DOMAIN node.items : node.items[i].key = key}))

\* Every key of a mapping is one of those allowed.
praktor_yaml_check_keys(s, node, allowed) ==
    LET unknown == {i \in DOMAIN node.items : node.kind = "map" /\ node.items[i].key \notin allowed} IN
    IF unknown # {} THEN Refuse(Glance(s, Min(unknown)))
    ELSE IF node.kind = "map" THEN Glance(s, Len(node.items)) ELSE s

TextBounded(s) == IF s.status = "OK" /\ Len(s.text) > PARAMETER_MAX THEN Refuse(Free(s)) ELSE s

read_scalar(s, node, string_only) ==
    IF node.kind # "scalar" \/ (string_only /\ ~node.string) THEN Refuse(s) ELSE TextBounded(praktor_yaml_field_decode(s, node))

-----------------------------------------------------------------------------
\* Integers and booleans.
DigitPieces == <<"0", "1", "2", "3", "4", "5", "6", "7", "8", "9", "a", "b", "c", "d", "e", "f">>

Digit(c) == CHOOSE n \in 0 .. 15 : DigitPieces[n + 1] = c

IsDigit(c, base) == \E n \in 1 .. base : DigitPieces[n] = c

Unsigned(t) == IF t # <<>> /\ t[1] = "-" THEN Tail(t) ELSE t

IsDecimal(t) == Unsigned(t) # <<>> /\ \A i \in DOMAIN Unsigned(t) : IsDigit(Unsigned(t)[i], 10)

RECURSIVE Sum(_)
Sum(s) == IF s = <<>> THEN 0 ELSE Head(s) + Sum(Tail(s))

RECURSIVE DecimalValue(_)
DecimalValue(t) == IF t = <<>> THEN 0 ELSE 10 * DecimalValue(Front(t)) + Digit(Last(t))

\* strtoimax() of a whole text: the number, or none when it is beyond the range.
Ranged(n, least, most) == IF n \in least .. most THEN {n} ELSE {}

strtoimax(t) == Ranged((IF t[1] = "-" THEN -1 ELSE 1) * DecimalValue(Unsigned(t)), -INTMAX_MAX - 1, INTMAX_MAX)

WholeNumbers(t) == IF IsDecimal(t) THEN strtoimax(t) ELSE {}

\* praktor_yaml_integer(): a decimal int and nothing else.
Numbered(s, numbers) ==
    IF s.status # "OK" THEN s
    ELSE IF \E n \in numbers : n \in -INT_MAX - 1 .. INT_MAX THEN [s EXCEPT !.number = CHOOSE n \in numbers : TRUE]
    ELSE RefuseAs(s, "ERANGE")

praktor_yaml_field_integer(s, node) ==
    Numbered(Dispose(praktor_yaml_field_decode(s, node)), WholeNumbers(node.text))

Lowered(c) ==
    CASE c = "TRUE" -> "true" [] c = "On" -> "on" [] c = "JSON" -> "json" [] c = "NULL" -> "null" [] c = "X" -> "x" [] OTHER -> c

Lower(t) == [i \in DOMAIN t |-> Lowered(t[i])]

\* Mutant: a digit that would wrap the number around is taken.
TakesDigitWrapping(number, digit, base) == digit < base

\* A digit that the number has room for.
TakesDigit(number, digit, base) == digit < base /\ number <= (UINT64_MAX - digit) \div base

TakeDigit(n, c, base) ==
    IF n.bad \/ c = "_" THEN n
    ELSE IF ~IsDigit(c, 16) \/ ~TakesDigit(n.number, Digit(c), base) THEN [n EXCEPT !.bad = TRUE]
    ELSE [n EXCEPT !.number = (@ * base + Digit(c)) % (UINT64_MAX + 1), !.digits = TRUE]

RECURSIVE TakeDigits(_, _, _)
TakeDigits(n, t, base) == IF t = <<>> THEN n ELSE TakeDigits(TakeDigit(n, Head(t), base), Tail(t), base)

\* praktor_yaml_force_terminate_integer(): none, or whether it is a one.  A
\* base, underscores and a sign are allowed.
praktor_yaml_force_terminate_integer(t) ==
    LET signed == t # <<>> /\ t[1] \in {"+", "-"}
        u == IF signed THEN Tail(t) ELSE t
        base == IF Len(u) > 1 /\ u[1] = "0" THEN CASE u[2] = "b" -> 2 [] u[2] = "o" -> 8 [] u[2] = "x" -> 16 [] OTHER -> 10
                ELSE 10
        v == IF base = 10 THEN u ELSE SubSeq(u, 3, Len(u))
        r == TakeDigits([bad |-> FALSE, number |-> 0, digits |-> FALSE], v, base)
    IN
    IF \/ v = <<>> \/ (base = 10 /\ ~IsDigit(v[1], 10))
       \/ r.bad \/ ~r.digits \/ r.number > 1 \/ (t[1] = "-" /\ r.number # 0)
    THEN {} ELSE {r.number = 1}

\* praktor_yaml_bool_integer(): the parser's own integer, 0 or 1.
praktor_yaml_bool_integer(node) ==
    IF node.kind = "scalar" /\ ~node.string THEN {n = 1 : n \in WholeNumbers(node.text) \cap {0, 1}} ELSE {}

Affirmed(t, force) == t \in {<<"true">>, <<"yes">>, <<"1">>} \cup (IF force THEN {<<"on">>} ELSE {})

Denied(t, force) == t \in {<<"false">>, <<"no">>, <<"0">>} \cup (IF force THEN {<<"off">>} ELSE {})

FlagsOf(node, t, force) ==
    IF Affirmed(t, force) THEN {TRUE} ELSE IF Denied(t, force) THEN {FALSE}
    ELSE IF ~force THEN {}
    ELSE IF praktor_yaml_bool_integer(node) # {} THEN praktor_yaml_bool_integer(node)
    ELSE praktor_yaml_force_terminate_integer(t)

Flagged(s, flags) ==
    IF s.status # "OK" THEN s ELSE IF flags = {} THEN Refuse(Free(s)) ELSE [Free(s) EXCEPT !.flag = TRUE \in flags]

praktor_yaml_field_boolean(s, node, force) ==
    Flagged(read_scalar(Allocate(s, "ALLOCATION"), node, FALSE), FlagsOf(node, Lower(node.text), force))

-----------------------------------------------------------------------------
\* JSON values: what a text without quotes stands for, and nested values.
Json(type, text, number, items) == [type |-> type, text |-> text, number |-> number, items |-> items]

JsonText(t) == Json("string", t, 0, <<>>)

\* strtod() over the whole of a text that is no integer: digits with a point,
\* or nothing at all.
IsReal(t) ==
    \/ t = <<>>
    \/ \E i \in DOMAIN t : t[i] = "." /\ Len(t) > 1 /\ \A j \in DOMAIN t \ {i} : IsDigit(t[j], 10)
    \/ IsDecimal(t)

Tenths(t) ==
    LET i == IF Contains(t, ".") THEN Min({j \in DOMAIN t : t[j] = "."}) ELSE Len(t) + 1
    IN  10 * DecimalValue(SubSeq(t, 1, i - 1)) + (IF i < Len(t) THEN Digit(t[i + 1]) ELSE 0)

ScalarJson(node) ==
    LET t == node.text
        l == Lower(t)
    IN
    CASE node.string -> JsonText(t)
      [] l \in {<<"null">>, <<"~">>} -> Json("null", <<>>, 0, <<>>)
      [] l \in {<<"true">>, <<"yes">>, <<"on">>} -> Json("bool", <<>>, 1, <<>>)
      [] l \in {<<"false">>, <<"no">>, <<"off">>} -> Json("bool", <<>>, 0, <<>>)
      [] WholeNumbers(t) # {} -> Json("integer", <<>>, CHOOSE n \in WholeNumbers(t) : TRUE, <<>>)
      [] IsReal(t) -> Json("number", <<>>, Tenths(Unsigned(t)), <<>>)
      [] OTHER -> JsonText(t)

\* The text is freed before the value is looked at.
Yield(s, v) == IF s.status = "OK" THEN [s EXCEPT !.value = v] ELSE s

scalar_value(s, node) == Yield(Create(Dispose(praktor_yaml_field_decode(s, node)), "PROVIDER"), ScalarJson(node))

RECURSIVE convert_value(_, _, _)
RECURSIVE ConvertItems(_, _, _, _)

\* The items from the one after the converted ones on.  A value that cannot be
\* added is freed with its container.
AddItem(s, node, item) ==
    LET keyed == IF node.kind = "map" THEN Free(Undo(praktor_yaml_field_decode(s, KeyNode(item)))) ELSE s
        added == Allocate(keyed, "PROVIDER")
    IN
    IF s.status # "OK" THEN s
    ELSE IF keyed.status # "OK" THEN keyed
    ELSE IF added.status # "OK" THEN Free(Free(added)) ELSE Free(added)

ConvertItem(s, node, depth, done, value) ==
    LET item == node.items[Len(done) + 1] IN
    ConvertItems(AddItem(s, node, item), node, depth, Append(done, [key |-> item.key, val |-> value]))

ConvertNext(s, node, depth, done) == ConvertItem(s, node, depth, done, s.value)

ConvertItems(s, node, depth, done) ==
    IF s.status # "OK" THEN s
    ELSE IF Len(done) = Len(node.items) THEN [s EXCEPT !.value = Json(node.kind, <<>>, 0, done)]
    ELSE ConvertNext(Undo(convert_value(s, node.items[Len(done) + 1].val, depth + 1)), node, depth, done)

\* The nesting is bounded, and so are the nodes, of which an alias makes many.
convert_value(s, node, depth) ==
    LET t == [s EXCEPT !.remaining = @ - 1] IN
    IF depth > VALUE_MAX_DEPTH \/ s.remaining = 0 THEN Refuse(s)
    ELSE IF node.kind \notin {"map", "seq"} THEN scalar_value(t, node)
    ELSE ConvertItems(Create(t, "PROVIDER"), node, depth, <<>>)

praktor_yaml_value(s, node) == convert_value([s EXCEPT !.remaining = VALUE_MAX_NODES], node, 1)
=============================================================================
