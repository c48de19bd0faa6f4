--------------------------- MODULE YamlTaskFields ---------------------------
(* The lists and maps of a task (yml/yaml_task_fields.c): an owner of texts   *)
(* that counts the strings it decoded and the bytes it retains, and that is   *)
(* destroyed with everything in it when any of its fields is refused.         *)
(* lists[1..3] are the owner's lists and lists[0] the values of the matrix    *)
(* entry at hand; maps[1] are the strings, maps[2] the matrix; own holds the  *)
(* named texts.                                                               *)
EXTENDS YamlFields

CONSTANTS TASK_MAX_ENTRIES, TASK_MAX_STRINGS, TASK_MAX_BYTES

\* The bytes that texts take, with their terminators.
Bytes(texts) == Sum([i \in DOMAIN texts |-> Len(texts[i]) + 1])

tf_release(s, texts) == [s EXCEPT !.live = @ - Len(texts), !.retained = @ - Bytes(texts)]

\* An entry of the strings has one value, one of the matrix has several.
Entry(key, values) == [key |-> key, values |-> values]

EntryTexts(e) == <<e.key>> \o e.values

\* A decoded text is charged to the owner, or freed and refused.
Charge(s, most) ==
    IF s.status # "OK" THEN s
    ELSE IF Len(s.text) >= most - s.retained THEN Refuse(Free(s)) ELSE [s EXCEPT !.retained = @ + Len(s.text) + 1]

tf_decode(s, node) ==
    IF s.status # "OK" THEN s
    ELSE IF s.expanded = TASK_MAX_STRINGS THEN Refuse(s)
    ELSE Charge(praktor_yaml_field_decode([s EXCEPT !.expanded = @ + 1], node), TASK_MAX_BYTES)

\* The text just decoded becomes a field of the owner.
Keep(s, field) == IF s.status # "OK" THEN s ELSE [s EXCEPT !.own = (field :> s.text) @@ @]

\* The text just decoded becomes the last of a list, or is released.
AddListed(s, g, skip_empty) ==
    IF s.status # "OK" THEN s
    ELSE IF skip_empty /\ s.text = <<>> THEN tf_release(s, <<s.text>>)
    ELSE IF Len(s.lists[g]) = TASK_MAX_ENTRIES THEN Refuse(tf_release(s, <<s.text>>))
    ELSE IF Breaks(s) THEN tf_release(Allocate(s, "ALLOCATION"), <<s.text>>)
    ELSE [Allocate(s, "ALLOCATION") EXCEPT !.lists[g] = Append(@, s.text)]

tf_append(s, node, g, skip_empty) == AddListed(tf_decode(s, node), g, skip_empty)

RECURSIVE AppendEach(_, _, _)
AppendEach(s, items, g) ==
    IF items = <<>> THEN s ELSE AppendEach(tf_append(s, Head(items).val, g, FALSE), Tail(items), g)

tf_list(s, node, g) ==
    CASE node.kind = "seq" -> AppendEach(s, node.items, g)
      [] node.kind = "scalar" -> tf_append(s, node, g, TRUE)
      [] OTHER -> Refuse(s)

\* A later value of a key replaces the first: the new key and the old values go.
Replaced(s, old, key) == tf_release(s, <<key>> \o old)

\* tf_store() consumes the candidate on every path.  The index is made with
\* the first entry; the entry is in the vector before it is in the index.
tf_store(s, m, e) ==
    LET old == {i \in DOMAIN s.maps[m] : s.maps[m][i].key = e.key}
        i == Min(old)
        indexed == IF s.maps[m] = <<>> THEN Allocate(s, "ALLOCATION") ELSE s
        grown == Allocate(indexed, "ALLOCATION")
    IN
    IF indexed.status # "OK" THEN tf_release(indexed, EntryTexts(e))
    ELSE IF old # {} THEN [Replaced(s, s.maps[m][i].values, e.key) EXCEPT !.maps[m][i].values = e.values]
    ELSE IF Len(s.maps[m]) = TASK_MAX_ENTRIES THEN Refuse(tf_release(indexed, EntryTexts(e)))
    ELSE IF grown.status # "OK" THEN tf_release(grown, EntryTexts(e))
    ELSE Allocate([grown EXCEPT !.maps[m] = Append(@, e)], "ALLOCATION")

\* One entry of a map: the key, then its value or the list of its values.
SomeListed(s, g) == Require(s, s.lists[g] # <<>>)

MapValue(s, node, m) ==
    IF m = 1 THEN tf_decode(s, node)
    ELSE SomeListed(tf_list(Allocate([s EXCEPT !.lists[0] = <<>>], "ALLOCATION"), node, 0), 0)

Stored(s, key, m) ==
    LET values == IF m = 2 THEN s.lists[0] ELSE IF s.status = "OK" THEN <<s.text>> ELSE <<>> IN
    IF s.status = "OK" THEN tf_store(s, m, Entry(key, values)) ELSE tf_release(s, <<key>> \o values)

MapEntry(s, item, m) ==
    LET k == tf_decode(s, KeyNode(item)) IN
    IF k.status # "OK" THEN k ELSE Stored(MapValue(k, item.val, m), KeyText(item), m)

RECURSIVE MapEach(_, _, _)
MapEach(s, items, m) == IF items = <<>> THEN s ELSE MapEach(MapEntry(s, Head(items), m), Tail(items), m)

tf_map(s, node, m) == IF node.kind # "map" THEN Refuse(s) ELSE MapEach(s, node.items, m)

tf_optional(s, node, key) ==
    IF praktor_yaml_has(node, key) THEN Keep(tf_decode(praktor_yaml_field_get(s, node, key), cyaml_get(node, key)), key) ELSE s

tf_required(s, node, key) ==
    IF praktor_yaml_has(node, key) THEN Require(tf_optional(s, node, key), cyaml_get(node, key).text # <<>>) ELSE Refuse(s)

-----------------------------------------------------------------------------
EachKeys == <<"items", "matrix", "as", "index_variable">>

\* An empty name of the item counts as none.
tf_each(s, node) ==
    LET Listing(t) == IF praktor_yaml_has(node, "items")
                      THEN tf_list(praktor_yaml_field_get(t, node, "items"), cyaml_get(node, "items"), 1) ELSE t
        Mapping(t) == IF praktor_yaml_has(node, "matrix")
                      THEN tf_map(praktor_yaml_field_get(t, node, "matrix"), cyaml_get(node, "matrix"), 2) ELSE t
        Exact(t) == Require(t, (t.lists[1] = <<>>) # (t.maps[2] = <<>>))
        Named(t) == IF t.status = "OK" /\ "as" \in DOMAIN t.own /\ t.own["as"] = <<>>
                    THEN [tf_release(t, <<<<>>>>) EXCEPT !.own = [f \in DOMAIN @ \ {"as"} |-> @[f]]] ELSE t
    IN
    IF node.kind # "map" THEN Refuse(s)
    ELSE tf_optional(Named(tf_optional(Exact(Mapping(Listing(praktor_yaml_check_keys(s, node, Range(EachKeys))))), node, "as")),
                     node, "index_variable")

Groups == <<"on_success", "on_failure", "on_complete">>

\* A group of triggers is a list of names; a name is kept before it is found empty.
TriggerName(s, node, g) ==
    IF node.kind # "scalar" THEN Refuse(s) ELSE Require(tf_append(s, node, g, FALSE), node.text # <<>>)

RECURSIVE TriggerNames(_, _, _)
TriggerNames(s, items, g) ==
    IF items = <<>> THEN s ELSE TriggerNames(TriggerName(s, Head(items).val, g), Tail(items), g)

Trigger(s, node, g) == IF node.kind # "seq" THEN Refuse(s) ELSE SomeListed(TriggerNames(s, node.items, g), g)

RECURSIVE TriggerGroups(_, _, _)
TriggerGroups(s, node, g) ==
    LET n == cyaml_get(node, Groups[g]) IN
    IF g > 3 THEN s
    ELSE TriggerGroups(IF praktor_yaml_has(node, Groups[g]) THEN Trigger(praktor_yaml_field_get(s, node, Groups[g]), n, g) ELSE s,
                       node, g + 1)

tf_triggers(s, node) ==
    LET any == \E g \in 1 .. 3 : praktor_yaml_has(node, Groups[g]) IN
    IF node.kind # "map" THEN Refuse(s)
    ELSE Require(TriggerGroups(praktor_yaml_check_keys(s, node, Range(Groups)), node, 1), any)

\* The command of a template: a text, or a list decoded before it is looked at.
TemplateCommand(s, n) ==
    LET good == IF n.kind = "seq" THEN n.items # <<>> /\ \A i \in DOMAIN n.items : n.items[i].val.text # <<>> ELSE n.text # <<>> IN
    Require(IF n.kind = "seq" THEN tf_list(s, n, 1) ELSE Keep(tf_decode(s, n), "command"), good)

TemplateKeys == {"name", "command", "timeout", "when", "depends_on", "env"}

DynamicTemplate(s, node) ==
    LET Command(t) ==
            IF praktor_yaml_has(node, "command")
            THEN TemplateCommand(praktor_yaml_field_get(t, node, "command"), cyaml_get(node, "command")) ELSE Refuse(t)
        Depends(t) ==
            IF praktor_yaml_has(node, "depends_on")
            THEN tf_list(praktor_yaml_field_get(t, node, "depends_on"), cyaml_get(node, "depends_on"), 2) ELSE t
        Env(t) ==
            IF praktor_yaml_has(node, "env") THEN tf_map(praktor_yaml_field_get(t, node, "env"), cyaml_get(node, "env"), 1) ELSE t
    IN
    IF node.kind # "map" THEN Refuse(s)
    ELSE Env(Depends(tf_optional(tf_optional(
            Command(tf_required(praktor_yaml_check_keys(s, node, TemplateKeys), node, "name")), node, "timeout"), node, "when")))

tf_dynamic(s, node) ==
    LET items == tf_required(praktor_yaml_check_keys(s, node, {"items_variable", "template"}), node, "items_variable") IN
    IF node.kind # "map" THEN Refuse(s)
    ELSE IF praktor_yaml_has(node, "template")
         THEN DynamicTemplate(praktor_yaml_field_get(items, node, "template"), cyaml_get(node, "template")) ELSE Refuse(items)

\* praktor_yaml_task_fields_destroy(): every text that the owner still holds.
TaskTexts(s) ==
    s.lists[1] \o s.lists[2] \o s.lists[3]
    \o FlattenSeq([i \in DOMAIN s.maps[1] |-> EntryTexts(s.maps[1][i])])
    \o FlattenSeq([i \in DOMAIN s.maps[2] |-> EntryTexts(s.maps[2][i])])
    \o LET fields == SetToSeq(DOMAIN s.own) IN [i \in DOMAIN fields |-> s.own[fields[i]]]

praktor_yaml_task_fields_destroy(s) == Free(tf_release(s, TaskTexts(s)))

TaskKinds == {"list", "map", "each", "triggers", "dynamic", "uses"}

TaskFields(o, kind, node) ==
    CASE kind = "list"     -> tf_list(o, node, 1)
      [] kind = "map"      -> tf_map(o, node, 1)
      [] kind = "each"     -> tf_each(o, node)
      [] kind = "triggers" -> tf_triggers(o, node)
      [] kind = "dynamic"  -> tf_dynamic(o, node)
      [] OTHER             -> Require(Keep(tf_decode(o, node), "uses"), node.text # <<>>)

OwnedOrDestroyed(s) == IF s.status = "OK" THEN s ELSE praktor_yaml_task_fields_destroy(s)

praktor_yaml_task_fields_create(s, kind, node) ==
    LET owner == Create(s, "ALLOCATION") IN
    IF owner.status # "OK" THEN owner ELSE OwnedOrDestroyed(TaskFields(owner, kind, node))
=============================================================================
