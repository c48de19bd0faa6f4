----------------------------- MODULE MCRuntime -----------------------------
(* Three tasks a, b and c.  Workflows that run: a chain, a chain declared     *)
(* twice, a join and independent tasks, with commands and variables that      *)
(* share or overflow the text store.  Workflows that are only admitted: every *)
(* choice of dependencies, among them unknown names, repetitions and cycles;  *)
(* their third task has an unsupported action.                                *)
EXTENDS Runtime

Doc(names, first, second, third, targets) ==
    [name |-> [t \in Tasks |-> names[t + 1]],
     depends_on |-> [t \in Tasks |-> <<first, second, third>>[t + 1]],
     triggers |-> [t \in Tasks |-> IF t = 0 THEN targets ELSE {}]]

Dependencies == {<<>>, <<"a">>, <<"b">>, <<"c">>, <<"a", "a">>, <<"a", "b">>, <<"c", "z">>}

AdmissionDocs ==
    {Doc(names, first, second, third, targets) :
        names \in {<<"a", "b", "c">>, <<"a", "b", "a">>}, targets \in {{}, {"b", "dyn"}, {"z"}},
        first \in Dependencies, second \in Dependencies, third \in Dependencies}

abc == <<"a", "b", "c">>

RunDocs ==
    {Doc(abc, <<>>, <<"a">>, <<"b">>, {}), Doc(abc, <<>>, <<"a", "a">>, <<"a", "b">>, {"c"}),
     Doc(abc, <<"c">>, <<>>, <<>>, {})}

Kinds(first, second, third) == [t \in Tasks |-> <<first, second, third>>[t + 1]]

Work(doc, kind, variables, last) ==
    [doc |-> doc, kind |-> kind, variables |-> variables,
     key |-> [t \in Tasks |-> IF t = 2 THEN "y" ELSE "x"],
     vars |-> [t \in Tasks |-> IF t = 2 THEN last ELSE {}]]

RunWorkflows ==
    {Work(doc, kind, variables, last) :
        doc \in RunDocs, variables \in {{}, {"x"}}, last \in {{}, {"stdout"}},
        kind \in {Kinds("Shell", "Shell", "SetVariable"), Kinds("Shell", "Command", "Shell"),
                  Kinds("Command", "SetVariable", "SetVariable"),
                  Kinds("SetVariable", "Shell", "SetVariable")}}

MCWorkflows ==
    RunWorkflows
    \cup {Work(doc, Kinds("SetVariable", "SetVariable", "Other"), {}, {}) : doc \in AdmissionDocs}
    \cup {Work(doc, Kinds("SetVariable", "SetVariable", "SetVariable"),
               {"x", "y", "stdout", "shell_output"}, {}) : doc \in RunDocs}

\* The graphs of the workflows that run.
MCGraphs == {<<>>} \cup {EdgesOf(w.doc) : w \in {v \in MCWorkflows : Admitted(v.doc)}}

MCValues == 0 .. Count

MCValuesOf == [k \in Keys |-> Values]
=============================================================================
