----------------------------- MODULE MCSession -----------------------------
(* Six small trees on one host: a pipeline whose first stage has two leaves,  *)
(* a retried Shell under a Timeout beside a Sleep, a queue of two items, an   *)
(* observed value in front of a parser, a guarded choice, and a pipeline of a *)
(* Shell and a queue.  A Session may be destroyed and made again on its host. *)
EXTENDS Session, SessionPlan

Node(kind, action, parent) == [kind |-> kind, action |-> action, parent |-> parent, custom |-> FALSE]

Host(parent) == [kind |-> "LEAF", action |-> "Host", parent |-> parent, custom |-> TRUE]

PipelinePlan ==
    <<Node("PIPELINE", "", 0), Node("SEQUENCE", "", 1), Host(2), Host(2), Host(1)>>

ShellPlan ==
    <<Node("FALLBACK", "", 0), Node("TIMEOUT", "", 1), Node("RETRY", "", 2), Node("LEAF", "Shell", 3),
      Node("LEAF", "Sleep", 1)>>

QueuePlan == <<Node("QUEUE", "", 0), Host(1)>>

EntryPlan ==
    <<Node("SEQUENCE", "", 0), Node("ENTRY", "", 1), Node("LEAF", "SetVariable", 2), Node("LEAF", "ParseLines", 1)>>

GuardPlan ==
    <<Node("PRECONDITION", "", 0), Node("SWITCH", "", 1), Node("LEAF", "ParseRegex", 2), Node("LEAF", "ParseLines", 2),
      Node("LEAF", "CheckExitCode", 2), Node("LEAF", "ParseJson", 2), Node("LEAF", "SWITCH_FAILURE", 2),
      Node("LEAF", "SUCCESS", 2)>>

MixedPlan ==
    <<Node("PIPELINE", "", 0), Node("LEAF", "Shell", 1), Node("QUEUE", "", 1), Node("ENTRY", "", 3), Host(4)>>

NestedPlan ==
    <<Node("PIPELINE", "", 0), Node("PIPELINE", "", 1), Host(2), Node("SEQUENCE", "", 2), Host(4), Host(4)>>

MCKeys ==
    {"pipeline_input", "pipeline_output", "pipeline_result", "watched", "task_queue", "current_item", "shell_output",
     "shell_stderr", "shell_exit_code", "shell_error", "parsed_output", "parsed_lines", "parsed_lines_count"}

\* Leaves and the owner write an empty text or one token.
MCTexts == {<<>>, <<"a">>}

MCValues == MCTexts \cup {<<"0">>, <<"1">>, <<"1", "2">>, <<"2">>, <<"broken">>}

MCValuesOf == [k \in MCKeys |-> {}]

Only(k, t) == [j \in MCKeys |-> IF j = k THEN t ELSE Absent]

\* Five other keys take room.
Crowded(k, t) ==
    LET K == {"parsed_output", "parsed_lines", "parsed_lines_count", "pipeline_result", "pipeline_output"} IN
    [j \in MCKeys |-> IF j = k THEN t ELSE IF j \in K THEN <<"a">> ELSE Absent]

MCScenarios ==
    {[plan |-> PipelinePlan, seed |-> Only("pipeline_input", <<"a">>)],
     [plan |-> MixedPlan, seed |-> Only("task_queue", <<"1", "2">>)],
     [plan |-> ShellPlan, seed |-> Only("parsed_output", <<"a">>)],
     [plan |-> ShellPlan, seed |-> Crowded("parsed_output", <<"a">>)],
     [plan |-> QueuePlan, seed |-> Crowded("task_queue", <<"1", "2">>)],
     [plan |-> QueuePlan, seed |-> Only("task_queue", <<"1", "2">>)],
     [plan |-> QueuePlan, seed |-> Only("task_queue", <<"broken">>)],
     [plan |-> EntryPlan, seed |-> Only("shell_output", <<"a">>)],
     [plan |-> GuardPlan, seed |-> Only("shell_output", <<"a">>)],
     [plan |-> GuardPlan, seed |-> Only("shell_exit_code", <<"0">>)]}

NestedScenarios == {[plan |-> NestedPlan, seed |-> Only("pipeline_input", <<"a">>)]}

MCPatternOf == [n \in 1 .. 6 |-> n]

-----------------------------------------------------------------------------
\* All trees of at most four nodes over five types, with the ports of a command
\* as they should be or not, and at most one text that is refused.
MCTypes == {"Sequence", "Inverter", "ParseJson", "Shell", "Retry"}

MCOrchTrees ==
    UNION {{[parent |-> f, type |-> t, stdout |-> b, refused |-> r] :
               f \in {g \in [1 .. n -> 0 .. n - 1] : g[1] = 0 /\ \A i \in 2 .. n : g[i] \in 1 .. i - 1},
               t \in [1 .. n -> MCTypes], b \in IF n = 3 THEN BOOLEAN ELSE {TRUE}, r \in {{}, {n}}} : n \in 1 .. 4}

MCProfiles == {"DEFAULT", "SINGLE_SHELL", "SINGLE_COMMAND", "COMMAND_JSON"}

\* Below, at and above the budget.
MCLimits == {-1, 0, 1, 50, 51}

\* A plan is made or a Session runs: the calls share nothing but the plan.
AllVars == <<sessionVars, planVars>>

PlanRuns == PlanNext /\ UNCHANGED sessionVars

SessionRuns == SessionNext /\ UNCHANGED planVars

NoSession ==
    /\ sess = [NewSession(<<>>) EXCEPT !.alive = FALSE]
    /\ eng = FreshEngine(<<>>)
    /\ host = NewHost
    /\ procs = [native |-> 0, retained |-> 0]
    /\ store = EmptyStore
    /\ txn = <<>>
    /\ hist = NewHistory(EmptyStore)

AllInit == PlanInit /\ (SessionInit \/ NoSession)

AllNext ==
    \/ sess.plan = <<>> /\ PlanRuns
    \/ sess.plan # <<>> /\ SessionRuns

AllSpec == AllInit /\ [][AllNext]_AllVars
=============================================================================
