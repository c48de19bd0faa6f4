----------------------------- MODULE SessionPlan -----------------------------
(* How a Session's plan comes about: praktor_c11_compile_node() (plan.c)      *)
(* turns an action, its typed parameters and its number of children into the  *)
(* descriptor of a node, tree_init() (tree_adapter.c) refuses descriptors     *)
(* that break the callback contract, and create_plan() (orch_session_plan.c)  *)
(* walks an orchestration tree with an explicit stack and compiles it.        *)
(* A tree is a record: parent[i] of each node i (0 above the root, node 1),   *)
(* its type, and the parameter texts that are refused.                        *)
EXTENDS Integers, FiniteSets, SequencesExt

CONSTANTS
    OrchTrees,          \* the orchestration trees
    Profiles,           \* the admission profiles
    MaxDepth,           \* limits->max_depth
    MaxIterations,      \* limits->max_control_iterations
    MaxChildren,        \* bound of the children of a single compiled node
    Limits              \* the values of a control parameter

ASSUME PlanAssumption ==
    /\ {MaxDepth, MaxIterations, MaxChildren} \subseteq Nat \ {0}
    /\ Limits \subseteq Int

VARIABLES
    build,              \* a call of create_plan()
    compiled            \* the result of a call of compile_node()

planVars == <<build, compiled>>

-----------------------------------------------------------------------------
Unary ==
    {"INVERTER", "FORCE_SUCCESS", "FORCE_FAILURE", "RETRY", "REPEAT", "TIMEOUT", "DELAY", "RUN_ONCE",
     "KEEP_RUNNING_UNTIL_FAILURE", "ENTRY_UPDATED", "CONSUME_QUEUE"}

\* Controls that have no meaning without a child.
Emptiable == {"PARALLEL", "REACTIVE_SEQUENCE", "REACTIVE_FALLBACK", "SWITCH"}

ConditionKinds == {"IF_THEN_ELSE", "PRECONDITION", "WHILE_DO"}

LimitKinds == {"RETRY", "REPEAT", "KEEP_RUNNING_UNTIL_FAILURE", "WHILE_DO"}

TimedKinds == {"TIMEOUT", "DELAY"}

NodeKinds ==
    Unary \cup Emptiable \cup ConditionKinds \cup {"SEQUENCE", "FALLBACK", "PIPELINE_SEQUENCE", "LEAF"}

\* What compile_node() is given: the kind that the action names, whether there
\* are parameters condition, variable and watch_key, and the control parameter:
\* none, one to be substituted, one that is no integer, or a number.
CompileInputs ==
    [kind : NodeKinds, scalar : BOOLEAN, named : BOOLEAN, children : 0 .. MaxChildren,
     control : [form : {"none", "dynamic", "text"}, value : {0}] \cup [form : {"number"}, value : Limits]]

\* The number of children that a kind may have.
Arity(kind, scalar) ==
    CASE kind = "LEAF"                      -> {0}
      [] kind = "IF_THEN_ELSE"              -> IF scalar THEN 1 .. 2 ELSE 2 .. 3
      [] kind = "WHILE_DO"                  -> IF scalar THEN {1} ELSE {2}
      [] kind \in Unary \cup {"PRECONDITION"} -> {1}
      [] OTHER                              -> Nat

\* The default of a control parameter.
FallbackValue(kind) ==
    CASE kind = "RETRY"                      -> 3
      [] kind = "WHILE_DO"                   -> 100
      [] kind = "KEEP_RUNNING_UNTIL_FAILURE" -> 1000
      [] kind = "TIMEOUT"                    -> 1000
      [] kind = "DELAY"                      -> 100
      [] OTHER                               -> 0

\* The value of the control parameter: a substituted one is resolved later and
\* only bounded here.
ControlValue(x) ==
    LET f == FallbackValue(x.kind) IN
    CASE x.control.form = "number" -> x.control.value
      [] x.control.form = "dynamic" /\ x.kind \in LimitKinds /\ f > MaxIterations -> MaxIterations
      [] OTHER                      -> f

\* The parameters that compile_node() accepts.
Compilable(x) ==
    /\ x.children \in Arity(x.kind, x.scalar)
    /\ x.kind = "PRECONDITION" => x.scalar
    /\ x.kind \in {"SWITCH", "ENTRY_UPDATED"} => x.named
    /\ x.kind = "REPEAT" => x.control.form # "none"
    /\ x.kind \in LimitKinds \cup TimedKinds => x.control.form # "text" /\ ControlValue(x) >= 0
    /\ x.kind \in LimitKinds => ControlValue(x) <= MaxIterations

\* A control without children, and what it then returns.
EmptyTerminal(kind) ==
    CASE kind = "SWITCH" -> "SWITCH_FAILURE" [] kind = "REACTIVE_FALLBACK" -> "FAILURE" [] OTHER -> "SUCCESS"

PlainNode(kind) ==
    [kind |-> kind, terminal |-> "RUNTIME", condition |-> FALSE, parallel |-> FALSE, limit |-> 0,
     duration |-> 0, mask |-> {}, prune |-> FALSE]

\* A control that may not run once becomes a leaf that ends at once.
ZeroBudget(x) ==
    [PlainNode("LEAF") EXCEPT !.terminal = IF x.kind = "WHILE_DO" THEN "SUCCESS" ELSE "FAILURE",
                              !.prune = TRUE]

\* compile_node() of an input that it accepts.
CompileNode(x) ==
    LET dynamic == x.control.form = "dynamic"
        plain == [PlainNode(x.kind) EXCEPT !.condition = x.kind \in ConditionKinds /\ x.scalar,
                                           !.parallel = x.kind = "PARALLEL"]
    IN IF x.children = 0 /\ x.kind \in Emptiable
       THEN [PlainNode("LEAF") EXCEPT !.terminal = EmptyTerminal(x.kind), !.prune = TRUE]
       ELSE IF x.kind \in TimedKinds
       THEN [plain EXCEPT !.duration = ControlValue(x), !.mask = IF dynamic THEN {"DURATION"} ELSE {}]
       ELSE IF x.kind \notin LimitKinds THEN plain
       ELSE IF ControlValue(x) = 0 /\ ~dynamic /\ x.kind # "REPEAT" THEN ZeroBudget(x)
       ELSE [plain EXCEPT !.limit = ControlValue(x), !.mask = IF dynamic THEN {"LIMIT"} ELSE {}]

\* callback_contract_valid() for a Session, which provides every hook.
CallbackContractValid(d) ==
    /\ d.condition => d.kind \in ConditionKinds
    /\ d.parallel => d.kind = "PARALLEL"
    /\ d.limit # 0 => d.kind \in LimitKinds
    /\ d.duration # 0 => d.kind \in TimedKinds
    /\ Cardinality(d.mask) <= 1
    /\ "LIMIT" \in d.mask => d.kind \in LimitKinds
    /\ "DURATION" \in d.mask => d.kind \in TimedKinds

-----------------------------------------------------------------------------
Size(tree) == Len(tree.parent)

\* praktor_orch_child_at() in order.
OrchChildren(tree, i) == SetToSortSeq({j \in 1 .. Size(tree) : tree.parent[j] = i}, <)

ChildCount(tree, i) == Len(OrchChildren(tree, i))

\* The action types that every profile supports.
SupportedTypes ==
    {"Sequence", "Fallback", "Selector", "Inverter", "ForceSuccess", "ForceFailure", "SetVariable", "CheckExitCode",
     "ParseJson", "ParseKeyValue", "ParseRegex", "ParseLines", "Sleep"}

OrchKind(type) ==
    CASE type = "Sequence"               -> "SEQUENCE"
      [] type \in {"Fallback", "Selector"} -> "FALLBACK"
      [] type = "Inverter"               -> "INVERTER"
      [] type = "ForceSuccess"           -> "FORCE_SUCCESS"
      [] type = "ForceFailure"           -> "FORCE_FAILURE"
      [] OTHER                           -> "LEAF"

\* The parser that a command profile asks for.
ParserOf(profile) ==
    CASE profile = "COMMAND_JSON" -> "ParseJson" [] profile = "COMMAND_KEYVALUE" -> "ParseKeyValue"
      [] profile = "COMMAND_REGEX" -> "ParseRegex" [] profile = "COMMAND_LINES" -> "ParseLines"

\* The shape that a profile is qualified for.
ProfileAdmits(tree, profile) ==
    CASE profile = "DEFAULT"        -> TRUE
      [] profile = "SINGLE_SHELL"   -> tree.type = <<"Shell">>
      [] profile = "SINGLE_COMMAND" -> tree.type = <<"Sequence", "Shell">>
      [] OTHER                      -> /\ tree.type = <<"Sequence", "Shell", ParserOf(profile)>>
                                       /\ tree.parent = <<0, 1, 1>>
                                       /\ tree.stdout

TypeAdmitted(type, profile) == type \in SupportedTypes \/ (type = "Shell" /\ profile # "DEFAULT")

NodeInput(tree, i) ==
    [kind |-> OrchKind(tree.type[i]), scalar |-> FALSE, named |-> FALSE, children |-> ChildCount(tree, i),
     control |-> [form |-> "none", value |-> 0]]

\* Mutant: the room that the popped entry left is not counted.
ChildrenFitTightly(tree, i, rest) ==
    ChildCount(tree, i) < Size(tree) /\ ChildCount(tree, i) < Size(tree) - Len(rest) - 1

\* The children of a popped node fit on the stack.
ChildrenFit(tree, i, rest) ==
    ChildCount(tree, i) < Size(tree) /\ ChildCount(tree, i) <= Size(tree) - Len(rest) - 1

\* A node that create_plan() adds to the plan.
Admitted(b, visit, rest) ==
    /\ Len(b.nodes) < Size(b.tree)
    /\ visit.depth <= MaxDepth
    /\ TypeAdmitted(b.tree.type[visit.node], b.profile)
    /\ ChildrenFit(b.tree, visit.node, rest)
    /\ visit.node \notin b.tree.refused
    /\ Compilable(NodeInput(b.tree, visit.node))
    /\ ~CompileNode(NodeInput(b.tree, visit.node)).prune

\* No call is going on.
NoBuild ==
    [tree |-> [parent |-> <<>>, type |-> <<>>, stdout |-> FALSE, refused |-> {}], profile |-> "DEFAULT",
     pc |-> "none", stack |-> <<>>, nodes |-> <<>>, status |-> "NONE"]

NewBuild(tree, profile) ==
    [tree |-> tree, profile |-> profile, pc |-> "check", stack |-> <<>>, nodes |-> <<>>, status |-> "NONE"]

\* The plan is destroyed unless it is complete.
Finished(b, status) ==
    [b EXCEPT !.pc = "done", !.stack = <<>>, !.status = status, !.nodes = IF status = "OK" THEN @ ELSE <<>>]

BeginBuild ==
    /\ build.pc = "none"
    /\ \E tree \in OrchTrees, profile \in Profiles : build' = NewBuild(tree, profile)
    /\ UNCHANGED compiled

EndBuild ==
    /\ build.pc = "done"
    /\ build' = NoBuild
    /\ UNCHANGED compiled

CheckProfile ==
    /\ build.pc = "check"
    /\ build' = IF ProfileAdmits(build.tree, build.profile)
                THEN [build EXCEPT !.pc = "walk", !.stack = <<[node |-> 1, parent |-> 0, depth |-> 1]>>]
                ELSE Finished(build, "REFUSED")
    /\ UNCHANGED compiled

\* The last entry of the stack is compiled and replaced by its children, the
\* first child on top.
WalkNode ==
    /\ build.pc = "walk"
    /\ build.stack # <<>>
    /\ LET visit == Last(build.stack)
           rest == Front(build.stack)
           index == Len(build.nodes) + 1
           kids == OrchChildren(build.tree, visit.node)
           pushed == [j \in 1 .. Len(kids) |-> [node |-> kids[j], parent |-> index, depth |-> visit.depth + 1]]
       IN build' = IF Admitted(build, visit, rest)
                   THEN [build EXCEPT !.nodes = Append(@, [node |-> visit.node, parent |-> visit.parent]),
                                      !.stack = rest \o Reverse(pushed)]
                   ELSE Finished(build, "REFUSED")
    /\ UNCHANGED compiled

FinishWalk ==
    /\ build.pc = "walk"
    /\ build.stack = <<>>
    /\ build' = Finished(build, IF Len(build.nodes) = Size(build.tree) THEN "OK" ELSE "REFUSED")
    /\ UNCHANGED compiled

\* An allocation fails.
OutOfMemory ==
    /\ build.pc \in {"check", "walk"}
    /\ build' = Finished(build, "ENOMEM")
    /\ UNCHANGED compiled

NothingCompiled ==
    [done |-> FALSE, node |-> PlainNode("LEAF"),
     input |-> [kind |-> "LEAF", scalar |-> FALSE, named |-> FALSE, children |-> 0,
                control |-> [form |-> "none", value |-> 0]]]

\* A C caller compiles a single node, and then another one.
Compile ==
    /\ build.pc = "none"
    /\ ~compiled.done
    /\ \E x \in CompileInputs : Compilable(x) /\ compiled' = [done |-> TRUE, input |-> x, node |-> CompileNode(x)]
    /\ UNCHANGED build

ForgetCompiled ==
    /\ compiled.done
    /\ compiled' = NothingCompiled
    /\ UNCHANGED build

PlanInit == build = NoBuild /\ compiled = NothingCompiled

PlanNext ==
    \/ ~compiled.done /\ (BeginBuild \/ EndBuild \/ CheckProfile \/ WalkNode \/ FinishWalk \/ OutOfMemory)
    \/ Compile \/ ForgetCompiled

-----------------------------------------------------------------------------
(* The reference: what is admitted, and the preorder, from the tree alone.    *)

Preorder(tree) ==
    LET pre[i \in 1 .. Size(tree)] == <<i>> \o FlattenSeq([c \in 1 .. ChildCount(tree, i) |-> pre[OrchChildren(tree, i)[c]]])
    IN pre[1]

Depth(tree, i) ==
    LET depth[j \in 0 .. Size(tree)] == IF j = 0 THEN 0 ELSE 1 + depth[tree.parent[j]] IN depth[i]

Admissible(tree, profile) ==
    /\ ProfileAdmits(tree, profile)
    /\ tree.refused = {}
    /\ \A i \in 1 .. Size(tree) :
          /\ Depth(tree, i) <= MaxDepth
          /\ TypeAdmitted(tree.type[i], profile)
          /\ ChildCount(tree, i) \in Arity(OrchKind(tree.type[i]), FALSE)

\* create_plan() succeeds for exactly the trees that a profile admits: the
\* bounds of its stack never refuse one, and memory aside nothing else does.
\* The plan is the tree in preorder, each node with the index of its parent,
\* which is what tree_init() and session_restore_pipeline() rely on.
PreorderExact ==
    LET order == Preorder(build.tree)
        at(i) == IF i = 0 THEN 0 ELSE CHOOSE k \in 1 .. Len(order) : order[k] = i
    IN /\ Len(build.stack) <= Size(build.tree)
       /\ build.pc = "done" /\ build.status # "ENOMEM" =>
             (build.status = "OK" <=> Admissible(build.tree, build.profile))
       /\ build.status = "OK" =>
             build.nodes = [k \in 1 .. Len(order) |-> [node |-> order[k], parent |-> at(build.tree.parent[order[k]])]]

\* What compile_node() accepts, tree_init() accepts: the descriptor keeps the
\* callback contract also when a control was turned into a leaf, the children
\* that are left fit its kind, and only a Repeat or a limit that is resolved
\* later may be zero.
CompiledFitsAdapter ==
    compiled.done =>
        LET d == compiled.node IN
        /\ CallbackContractValid(d)
        /\ (IF d.prune THEN 0 ELSE compiled.input.children) \in Arity(d.kind, d.condition)
        /\ d.limit <= MaxIterations
        /\ d.kind \in LimitKinds \ {"REPEAT"} /\ d.limit = 0 => d.mask = {"LIMIT"}

\* What a Session is made of is what it was asked for: create_plan() lays out
\* exactly the trees its profile admits, and compile_node() makes of each node a
\* descriptor that tree_init() takes.
PlanExact == PreorderExact /\ CompiledFitsAdapter
=============================================================================
