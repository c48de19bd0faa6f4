------------------------------ MODULE NativeHost ------------------------------
(* praktor_c11_native_host (native_host.c): the value store, the slots of the *)
(* sleeping leaves, the compiled patterns, and the leaf actions that a        *)
(* Session dispatches to it.  A call of tick_leaf() is the set of results it  *)
(* may have: the texts that an action parses are outside the model, so        *)
(* whether they match is left open; what is written where, and when a call    *)
(* fails instead, is not.  A text is a sequence of tokens.                    *)
EXTENDS ValueStore

CONSTANTS
    MaxRunningLeaves,   \* slots for sleeping leaves
    RegexCapacity,      \* slots for compiled patterns
    PatternOf           \* the pattern that a leaf uses in a call

ASSUME HostAssumption ==
    /\ MaxRunningLeaves \in Nat
    /\ RegexCapacity \in Nat \ {0}

\* Which text is read and written, by the default ports of the actions.
InputKey == "shell_output"

OutputKeysOf(action) ==
    CASE action = "ParseLines"  -> {"parsed_lines", "parsed_lines_count"}
      [] action = "SetVariable" -> {"watched"}
      [] OTHER                  -> {"parsed_output"}

\* A host at rest.  A Session is the only owner of slots; its nodes name them.
NewHost == [sleep |-> {}, regex |-> {}]

\* The result of a call: the host, the values, the code and the node status.
Answer(h, v, r, status) == [h |-> h, v |-> v, r |-> r, status |-> status]

Refusal(h, v, r) == Answer(h, v, r, "INVALID")

\* set() or set_many() of the keys K, all or none.
Written(h, v, K, text) ==
    IF Cardinality(K \cup Present(v)) <= Capacity
    THEN Answer(h, [k \in Keys |-> IF k \in K THEN text ELSE v[k]], "OK", "SUCCESS")
    ELSE Refusal(h, v, "ENOBUFS")

\* The slot is cleared when the sleep ends or the leaf is halted.
Woken(h, n) == [h EXCEPT !.sleep = @ \ {n}]

\* tick_sleep(): a duration that cannot be read, a zero duration, a free slot
\* or none; later the clock may be behind, not there yet, or past the end.
TickSleep(h, v, n) ==
    IF n \in h.sleep
    THEN {Refusal(h, v, "EINVAL"), Answer(h, v, "OK", "RUNNING"), Answer(Woken(h, n), v, "OK", "SUCCESS")}
    ELSE {Refusal(h, v, "EINVAL"), Answer(h, v, "OK", "SUCCESS"),
          IF Cardinality(h.sleep) < MaxRunningLeaves
          THEN Answer([h EXCEPT !.sleep = @ \cup {n}], v, "OK", "RUNNING")
          ELSE Refusal(h, v, "ENOBUFS")}

\* cached_regex(): the verdict of the first compilation is kept for the life of
\* the host, also when it was a failure for want of memory, and no entry is
\* ever given up.
CachedRegex(h, p) ==
    LET known == {e \in h.regex : e.pattern = p} IN
    IF known # {} THEN {[h |-> h, status |-> e.status] : e \in known}
    ELSE IF Cardinality(h.regex) = RegexCapacity THEN {[h |-> h, status |-> "ENOBUFS"]}
    ELSE {[h |-> [h EXCEPT !.regex = @ \cup {[pattern |-> p, status |-> status]}], status |-> status] :
             status \in {"OK", "INVALID", "ENOTSUP", "ENOMEM"}}

\* ParseKeyValue: no input fails; ports that cannot be resolved and texts that
\* do not fit are errors, and only a full result is written.
TickParseKeyValue(h, v, texts) ==
    IF v[InputKey] = Absent THEN {Answer(h, v, "OK", "FAILURE"), Refusal(h, v, "EINVAL")}
    ELSE {Refusal(h, v, "EINVAL"), Refusal(h, v, "ENOBUFS")}
         \cup {Written(h, v, OutputKeysOf("ParseKeyValue"), t) : t \in texts}

\* ParseJson: also a text that is no JSON or has no such member fails, and a
\* string with a NUL in it is not supported.
TickParseJson(h, v, texts) ==
    IF v[InputKey] = Absent THEN {Answer(h, v, "OK", "FAILURE"), Refusal(h, v, "EINVAL")}
    ELSE {Answer(h, v, "OK", "FAILURE"), Refusal(h, v, "ENOTSUP"), Refusal(h, v, "EINVAL"), Refusal(h, v, "ENOBUFS")}
         \cup {Written(h, v, OutputKeysOf("ParseJson"), t) : t \in texts}

\* ParseRegex: the pattern is looked up once the input is there; one that does
\* not compile fails the leaf.
TickParseRegex(h, v, n, texts) ==
    {Refusal(h, v, "EINVAL")} \cup
    IF v[InputKey] = Absent THEN {Answer(h, v, "OK", "FAILURE")}
    ELSE UNION {
        CASE c.status = "INVALID" -> {Answer(c.h, v, "OK", "FAILURE")}
          [] c.status = "OK"      -> {Answer(c.h, v, "OK", "FAILURE"), Refusal(c.h, v, "EINVAL"),
                                      Refusal(c.h, v, "ENOBUFS")}
                                     \cup {Written(c.h, v, OutputKeysOf("ParseRegex"), t) : t \in texts}
          [] OTHER                -> {Refusal(c.h, v, c.status)} : c \in CachedRegex(h, PatternOf[n])}

\* ParseLines: the filter, if there is one, is looked up before the input; one
\* that does not compile is no filter.  Lines and number are written together.
TickParseLines(h, v, n, texts) ==
    {Refusal(h, v, "EINVAL")} \cup UNION {
        IF c.status \notin {"OK", "INVALID"} THEN {Refusal(c.h, v, c.status)}
        ELSE IF v[InputKey] = Absent THEN {Answer(c.h, v, "OK", "FAILURE"), Refusal(c.h, v, "EINVAL")}
        ELSE {Refusal(c.h, v, "EINVAL"), Refusal(c.h, v, "ENOBUFS")}
             \cup {Written(c.h, v, OutputKeysOf("ParseLines"), t) : t \in texts}
        : c \in CachedRegex(h, PatternOf[n]) \cup {[h |-> h, status |-> "OK"]}}

\* SetVariable: without a key or a source it fails, a source that cannot be read
\* is an error.
TickSetVariable(h, v, texts) ==
    {Answer(h, v, "OK", "FAILURE"), Refusal(h, v, "EINVAL")}
        \cup {Written(h, v, OutputKeysOf("SetVariable"), t) : t \in texts}

\* CheckExitCode reads only.
TickCheckExitCode(h, v) ==
    {Answer(h, v, "OK", "FAILURE"), Refusal(h, v, "EINVAL")}
        \cup (IF v["shell_exit_code"] = Absent THEN {} ELSE {Answer(h, v, "OK", "SUCCESS")})

\* tick_leaf() of the host: the dispatch on the action.
NativeTick(h, v, n, action, texts) ==
    IF action = "Sleep" THEN TickSleep(h, v, n)
    ELSE IF n \in h.sleep THEN {Refusal(h, v, "EINVAL")}
    ELSE CASE action = "ParseJson"     -> TickParseJson(h, v, texts)
           [] action = "ParseKeyValue" -> TickParseKeyValue(h, v, texts)
           [] action = "ParseRegex"    -> TickParseRegex(h, v, n, texts)
           [] action = "ParseLines"    -> TickParseLines(h, v, n, texts)
           [] action = "SetVariable"   -> TickSetVariable(h, v, texts)
           [] action = "CheckExitCode" -> TickCheckExitCode(h, v)
           [] OTHER                    -> {Refusal(h, v, "ENOTSUP")}

\* halt_typed_leaf()
NativeHalt(h, n) == Woken(h, n)
=============================================================================
