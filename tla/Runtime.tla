------------------------------- MODULE Runtime -------------------------------
(* praktor_runtime_execute_yaml() (runtime.c): one call that admits a         *)
(* workflow, runs its tasks one at a time and reports a status.  It composes  *)
(* the dependency graph, the DAG state, the task registry and the text store; *)
(* between the steps the caller may ask for cancellation and the deadline may *)
(* pass.  A text value is abstracted to the task that wrote it, Count for the *)
(* workflow's own variables, so that the model shows whose text is where.     *)
(* The typed label of an output is identified with the port it is read from;  *)
(* shell_stderr, which behaves as shell_exit_code does, is left out.          *)
EXTENDS DagState, TaskRegistry, ValueStore, WorkflowDependencies

CONSTANTS
    Workflows,          \* the documents given to the call, with their actions
    ResourcesMayFail    \* allocation and library calls may fail

\* The snapshot of a document: its tasks and references, the action of each task
\* and the key it sets, the variables of the workflow and of each task.
Workflow ==
    [doc : Document, kind : [Tasks -> {"Shell", "Command", "SetVariable", "Other"}],
     key : [Tasks -> Keys], variables : SUBSET Keys, vars : [Tasks -> SUBSET Keys]]

\* Graphs are the dependency graphs of the documents that are admitted, and the
\* empty one; that admission leaves no cycle is checked as AdmissionExact.
ASSUME RuntimeAssumption ==
    /\ ResourcesMayFail \in BOOLEAN
    /\ Values = 0 .. Count
    /\ MaxActive = 1
    /\ OutputKeys = Keys
    /\ {"shell_output", "shell_exit_code", "stdout"} \subseteq Keys
    /\ Workflows \subseteq Workflow
    /\ <<>> \in Graphs
    /\ \A w \in Workflows : Admitted(w.doc) => EdgesOf(w.doc) \in Graphs

VARIABLES
    workflow,           \* snapshot: graph, runner kind, set_variable key, variables
    rt,                 \* locals of the call
    typed               \* history: the task that wrote each typed output

runtimeVars == <<dagVars, registryVars, storeVars, workflow, rt, typed>>

NoTask == Count

Processes(t) == workflow.kind[t] \in {"Shell", "Command"}

\* Where the Session stores what a command left, in its order: the lowering of
\* a Command renames the output port.
Written(t) ==
    CASE workflow.kind[t] = "Shell"   -> <<"shell_output", "shell_exit_code">>
      [] workflow.kind[t] = "Command" -> <<"stdout", "shell_exit_code">>
      [] OTHER                        -> <<workflow.key[t]>>

\* The ports that publish_success() reads and publishes.
Ports(t) == IF Processes(t) THEN {"shell_exit_code", "shell_output"} ELSE {workflow.key[t]}

\* set() of one value of an action, unless one before it failed.
SetText(r, k, t) ==
    IF r.ok /\ CanSet(r.scope, k) THEN [scope |-> [r.scope EXCEPT ![k] = t], ok |-> TRUE]
    ELSE [r EXCEPT !.ok = FALSE]

\* publish_process(): the values are set one after the other until one fails.
TextStored(scope, t) ==
    LET keys == Written(t)
        first == SetText([scope |-> scope, ok |-> TRUE], keys[1], t)
    IN IF Len(keys) = 1 THEN first ELSE SetText(first, keys[2], t)

\* set_many() of the variables named in K, all with the value v.
SeedFits(s, K) == Cardinality(K \cup Present(s)) <= Capacity

Seeded(s, K, v) == [k \in Keys |-> IF k \in K THEN v ELSE s[k]]

\* The outcome of everything that precedes the first task.
StartupStatus(w) ==
    IF ~Admitted(w.doc) THEN "INVALID"
    ELSE IF \E t \in Tasks : w.kind[t] = "Other" THEN "UNSUPPORTED"
    ELSE IF ~SeedFits(EmptyStore, w.variables) THEN "INVALID" ELSE "OK"

-----------------------------------------------------------------------------
RuntimeInit ==
    /\ workflow \in Workflows
    /\ graph = <<>> /\ dag = DagCreate(<<>>) /\ succeeded = {}
    /\ registry = RegCreate /\ groups = [g \in Groups |-> NoGroup]
    /\ store = EmptyStore /\ txn = [x \in Txns |-> NoTxn]
    /\ rt = [pc |-> "start", status |-> "INVALID", task |-> NoTask, scope |-> EmptyStore,
             passed |-> FALSE, accepted |-> FALSE, error |-> FALSE, procs |-> 0,
             cancel |-> FALSE, late |-> FALSE, lost |-> {}]
    /\ typed = [t \in Tasks |-> EmptyStore]

\* Component host, snapshot, registry, DAG, preflight of every plan, root
\* variables, retainer.  Nothing has run when one of them fails.
StartupRefused ==
    /\ rt.pc = "start"
    /\ \E status \in {"INVALID", "UNSUPPORTED"} :
          /\ status = StartupStatus(workflow) \/ ResourcesMayFail
          /\ rt' = [rt EXCEPT !.pc = "exit", !.status = status]
    /\ UNCHANGED <<dagVars, registryVars, storeVars, workflow, typed>>

Startup ==
    /\ rt.pc = "start"
    /\ StartupStatus(workflow) = "OK"
    /\ graph' = EdgesOf(workflow.doc)
    /\ dag' = DagCreate(graph')
    /\ store' = Seeded(EmptyStore, workflow.variables, Count)
    /\ rt' = [rt EXCEPT !.pc = "head", !.status = "OK"]
    /\ UNCHANGED <<succeeded, registryVars, txn, workflow, typed>>

\* Mutant: only the cancellation is looked at.
HaltReasonCancelOnly(r) == IF r.cancel THEN "CANCELLED" ELSE "NONE"

\* The probe is called first, the clock is read second.
HaltReason(r) == IF r.cancel THEN "CANCELLED" ELSE IF r.late THEN "DEADLINE" ELSE "NONE"

HeadHalts ==
    /\ rt.pc = "head"
    /\ HaltReason(rt) # "NONE"
    /\ dag' = DagStop(dag, HaltReason(rt))
    /\ rt' = [rt EXCEPT !.pc = "marshal", !.status = HaltReason(rt)]
    /\ UNCHANGED <<graph, succeeded, registryVars, storeVars, workflow, typed>>

HeadBreaks ==
    /\ rt.pc = "head"
    /\ HaltReason(rt) = "NONE"
    /\ dag.terminal # "CONTINUE" \/ DagReadyCount(dag) = 0
    /\ rt' = [rt EXCEPT !.pc = "marshal"]
    /\ UNCHANGED <<dagVars, registryVars, storeVars, workflow, typed>>

HeadClaims ==
    /\ rt.pc = "head"
    /\ HaltReason(rt) = "NONE"
    /\ ClaimReady(1)
    /\ \E t \in InPhase(dag', "RESERVED") \ InPhase(dag, "RESERVED") :
          rt' = [rt EXCEPT !.pc = "begin", !.task = t, !.passed = FALSE,
                           !.accepted = FALSE, !.error = FALSE, !.scope = EmptyStore]
    /\ UNCHANGED <<registryVars, storeVars, workflow, typed>>

\* The task starts, its host gets a copy of the root text with the task's own
\* variables on top, and the Session and the executor are set up.
BeginTask ==
    /\ rt.pc = "begin"
    /\ StartTask(rt.task)
    /\ \/ /\ SeedFits(store, workflow.vars[rt.task])
          /\ rt' = [rt EXCEPT !.pc = "admit", !.scope = Seeded(store, workflow.vars[rt.task], Count)]
       \/ /\ ~SeedFits(store, workflow.vars[rt.task]) \/ ResourcesMayFail
          /\ rt' = [rt EXCEPT !.pc = "teardown", !.error = TRUE]
    /\ UNCHANGED <<dagVars, storeVars, workflow, typed>>

\* The gate finds the claim reserved; the executor takes the callback or not.
AdmitTask ==
    /\ rt.pc = "admit"
    /\ \/ /\ dag.phase[rt.task] = "RESERVED"
          /\ rt' = [rt EXCEPT !.pc = "running", !.accepted = TRUE]
          /\ UNCHANGED dagVars
       \/ /\ dag.phase[rt.task] # "RESERVED" \/ ResourcesMayFail
          /\ Refuse(rt.task)
          /\ rt' = [rt EXCEPT !.pc = "teardown", !.error = TRUE]
    /\ UNCHANGED <<registryVars, storeVars, workflow, typed>>

\* callback_run() gives up: the Session is cancelled, which closes a running
\* process without storing anything, and the DAG stops.
CallbackHalts ==
    /\ rt.pc = "running"
    /\ HaltReason(rt) # "NONE"
    /\ dag' = DagStop(dag, HaltReason(rt))
    /\ \E procs \in 0 .. rt.procs :
          rt' = [rt EXCEPT !.pc = "teardown", !.status = HaltReason(rt), !.procs = procs]
    /\ UNCHANGED <<graph, succeeded, registryVars, storeVars, workflow, typed>>

\* A tick leaves the process of the action running.
TickRunning ==
    /\ rt.pc = "running"
    /\ HaltReason(rt) = "NONE"
    /\ Processes(rt.task)
    /\ rt' = [rt EXCEPT !.procs = 1]
    /\ UNCHANGED <<dagVars, registryVars, storeVars, workflow, typed>>

\* A tick ends the action.  A command that ran stores its outcome whether it
\* succeeded or not, but nothing if its output is no text or too long for the
\* store; set_variable may find its source missing.  The lease of a process may
\* outlive the tick.
TickEnds(success, stored) ==
    /\ rt.pc = "running"
    /\ HaltReason(rt) = "NONE"
    /\ success => stored
    /\ stored => success \/ Processes(rt.task)
    /\ LET result == TextStored(rt.scope, rt.task)
           passed == success /\ result.ok
       IN \E procs \in 0 .. rt.procs :
             rt' = [rt EXCEPT !.pc = "teardown", !.passed = passed, !.procs = procs,
                              !.scope = IF stored THEN result.scope ELSE rt.scope,
                              !.status = IF passed THEN rt.status ELSE "FAILED"]
    /\ UNCHANGED <<dagVars, registryVars, storeVars, workflow, typed>>

\* The executor does not report the callback run, finalized and idle.
ExecutorFails ==
    /\ rt.pc = "running"
    /\ ResourcesMayFail
    /\ rt' = [rt EXCEPT !.pc = "teardown", !.error = TRUE]
    /\ UNCHANGED <<dagVars, registryVars, storeVars, workflow, typed>>

\* session_destroy() hands the process over and drain() waits for it, or the
\* program aborts: it never continues with a process that borrows its state.
Teardown ==
    /\ rt.pc = "teardown"
    /\ \/ rt' = [rt EXCEPT !.pc = "publish", !.procs = 0]
       \/ /\ rt.procs # 0 \/ ResourcesMayFail
          /\ rt' = [rt EXCEPT !.pc = "aborted"]
    /\ UNCHANGED <<dagVars, registryVars, storeVars, workflow, typed>>

\* Mutant: what a task left in its scope is published whatever its outcome.
PublishesAlways(r) == r.accepted /\ ~r.error

Publishes(r) == r.accepted /\ ~r.error /\ r.passed

\* The transaction that prepare_task_text_outputs() stages.
StagedText(t) ==
    [TxnBegin(store) EXCEPT !.working = [k \in Keys |-> IF k \in Ports(t) THEN rt.scope[k] ELSE store[k]],
                            !.ops = IF Processes(t) THEN <<"shell_exit_code", "shell_output">>
                                    ELSE <<workflow.key[t]>>]

CanStageText(t) ==
    /\ Ports(t) \subseteq Present(rt.scope)
    /\ Cardinality(Ports(t) \cup Present(store)) <= Capacity

Only(t, v) == [x \in {t} |-> v]

\* publish_success() reaches its commit and the commit accepts it.
CanPublishTask(t) ==
    LET update == Only(t, Ports(t)) IN
    /\ CanStageText(t)
    /\ CanPrepare(registry, update) /\ CanPublish(registry, RegPrepare(registry, update))
    /\ GroupCommitOK(store, Only(t, StagedText(t)), {t})

\* publish_success(): text and typed outputs together.
PublishSuccess(t) ==
    /\ CanPublishTask(t)
    /\ registry' = RegPublish(registry, RegPrepare(registry, Only(t, Ports(t))))
    /\ store' = GroupResult(store, Only(t, StagedText(t)), {t})
    /\ typed' = [typed EXCEPT ![t] = [k \in Keys |-> IF k \in Ports(t) THEN rt.scope[k] ELSE typed[t][k]]]
    /\ UNCHANGED groups

\* publish_failure_exit(): the typed exit code alone, read from the scope.
PublishFailureExit(t) ==
    IF rt.scope["shell_exit_code"] # Absent /\ Mutable(registry[t])
    THEN /\ MergeOutputs(t, {"shell_exit_code"})
         /\ typed' = [typed EXCEPT ![t]["shell_exit_code"] = rt.scope["shell_exit_code"]]
    ELSE UNCHANGED <<registryVars, typed>>

Publish ==
    /\ rt.pc = "publish"
    /\ \/ /\ Publishes(rt)
          /\ PublishSuccess(rt.task)
          /\ rt' = [rt EXCEPT !.pc = "settle"]
       \/ /\ Publishes(rt)
          /\ ~CanPublishTask(rt.task) \/ ResourcesMayFail
          /\ rt' = [rt EXCEPT !.pc = "settle", !.error = TRUE]
          /\ UNCHANGED <<registryVars, store, typed>>
       \/ /\ ~Publishes(rt)
          /\ \/ rt.accepted /\ ~rt.error /\ Processes(rt.task) /\ PublishFailureExit(rt.task)
             \/ /\ ~rt.accepted \/ rt.error \/ ~Processes(rt.task) \/ ResourcesMayFail
                /\ UNCHANGED <<registryVars, typed>>
          /\ rt' = [rt EXCEPT !.pc = "settle"]
          /\ UNCHANGED store
    /\ UNCHANGED <<dagVars, txn, workflow>>

\* Mutant: the task error does not reach the status of the call.
StatusAfterUnseen(r) == r.status

StatusAfter(r) ==
    IF r.error THEN "RESOURCE"
    ELSE IF ~r.passed /\ r.status = "OK" THEN "FAILED" ELSE r.status

\* dag_finish(false), which rejects a claim that was refused before.
FailedInDag(d, t) ==
    IF d.phase[t] = "RESERVED" THEN DagFinish(d, graph, t, FALSE) ELSE d

\* The end of one turn of the loop.  registry_fail() copies the reason and its
\* failure is not looked at.
SettleTask ==
    /\ rt.pc = "settle"
    /\ LET t == rt.task
           status == StatusAfter(rt)
           next == [rt EXCEPT !.status = status, !.pc = IF status = "OK" THEN "head" ELSE "marshal"]
       IN
       \/ /\ rt.passed /\ ~rt.error
          /\ Complete(t)
          /\ dag' = DagFinish(dag, graph, t, TRUE)
          /\ succeeded' = succeeded \cup {t}
          /\ rt' = next
       \/ /\ ~rt.passed \/ rt.error
          /\ dag' = FailedInDag(IF rt.error THEN DagStop(dag, "FAILED") ELSE dag, t)
          /\ \/ Fail(t) /\ rt' = next
             \/ /\ ResourcesMayFail
                /\ rt' = [next EXCEPT !.lost = rt.lost \cup {t}]
                /\ UNCHANGED registryVars
          /\ UNCHANGED succeeded
    /\ UNCHANGED <<graph, storeVars, workflow, typed>>

MarshalResult ==
    /\ rt.pc = "marshal"
    /\ \/ rt' = [rt EXCEPT !.pc = "exit"]
       \/ ResourcesMayFail /\ rt' = [rt EXCEPT !.pc = "exit", !.status = "RESOURCE"]
    /\ UNCHANGED <<dagVars, registryVars, storeVars, workflow, typed>>

\* The retainer is empty, the cleanups run, the component host stops.
ExitCall ==
    /\ rt.pc = "exit"
    /\ \/ rt' = [rt EXCEPT !.pc = "done"]
       \/ ResourcesMayFail /\ rt' = [rt EXCEPT !.pc = "done", !.status = "RESOURCE"]
    /\ UNCHANGED <<dagVars, registryVars, storeVars, workflow, typed>>

AskCancel ==
    /\ rt.pc \notin {"done", "aborted"}
    /\ ~rt.cancel
    /\ rt' = [rt EXCEPT !.cancel = TRUE]
    /\ UNCHANGED <<dagVars, registryVars, storeVars, workflow, typed>>

DeadlinePasses ==
    /\ rt.pc \notin {"start", "done", "aborted"}
    /\ ~rt.late
    /\ rt' = [rt EXCEPT !.late = TRUE]
    /\ UNCHANGED <<dagVars, registryVars, storeVars, workflow, typed>>

\* The steps the calling thread takes by itself.
OwnerStep ==
    \/ StartupRefused \/ Startup
    \/ HeadHalts \/ HeadBreaks \/ HeadClaims
    \/ BeginTask \/ AdmitTask \/ CallbackHalts
    \/ Teardown \/ Publish \/ SettleTask
    \/ MarshalResult \/ ExitCall

\* What the action of a task does.
ActionStep ==
    \/ TickRunning
    \/ \E success, stored \in BOOLEAN : TickEnds(success, stored)
    \/ ExecutorFails

RuntimeNext == OwnerStep \/ ActionStep \/ AskCancel \/ DeadlinePasses

\* The thread runs and time passes; nothing makes a command end by itself.
RuntimeSpec ==
    /\ RuntimeInit /\ [][RuntimeNext]_runtimeVars
    /\ WF_runtimeVars(OwnerStep) /\ WF_runtimeVars(DeadlinePasses)

-----------------------------------------------------------------------------
\* The status is one praktor.h defines, and what the call keeps of DAG, registry
\* and text stays well formed and within capacity.
RuntimeTypeOK ==
    /\ rt.status \in {"OK", "FAILED", "CANCELLED", "DEADLINE", "UNSUPPORTED", "INVALID", "RESOURCE"}
    /\ dag \in DagRecord /\ registry \in [Tasks -> Slot]
    /\ store \in Contents /\ rt.scope \in Contents /\ StoreSize(store) <= Capacity
    /\ typed \in [Tasks -> Contents]

BetweenTasks == rt.pc \in {"head", "marshal", "exit", "done"}

\* Between two tasks, and when the call returns, no claim and no process is
\* outstanding and the DAG and the registry tell the same story of every task,
\* a task whose failure could not be recorded excepted; the call says
\* "cancelled" or "deadline" only if the DAG was stopped for that reason.
NothingOutstanding ==
    BetweenTasks =>
        /\ rt.procs = 0 /\ dag.active = 0
        /\ \A t \in Tasks :
              /\ registry[t].state = "PENDING" <=> dag.phase[t] = "PENDING"
              /\ registry[t].state = "SUCCESS" <=> t \in succeeded
              /\ registry[t].state = "RUNNING" <=> t \in rt.lost
        /\ rt.status \in {"CANCELLED", "DEADLINE"} => dag.terminal = rt.status

\* The call returns OK only if every task of the workflow ran, in an order its
\* dependencies allow, and succeeded.
OkMeansAllSucceeded ==
    (rt.pc = "done" /\ rt.status = "OK") =>
        /\ \A t \in Tasks : registry[t].state = "SUCCESS"
        /\ DagAllSucceeded(dag)

\* The run is well-formed, it leaves nothing outstanding between two tasks, and
\* it says OK only of a workflow that succeeded (runtime.c).
RuntimeInv == RuntimeTypeOK /\ NothingOutstanding /\ OkMeansAllSucceeded

\* The root text holds the workflow's variables and what successful tasks
\* published, nothing of a task that failed or was cancelled; what a successful
\* task published is in the scope of every task that starts later.
TextFollowsSuccess ==
    /\ BetweenTasks =>
          \A k \in Present(store) : store[k] = Count \/ registry[store[k]].state = "SUCCESS"
    /\ rt.pc \in {"admit", "running"} =>
          \A t \in Tasks : registry[t].state = "SUCCESS" => Ports(t) \subseteq Present(rt.scope)

\* workflow_dependencies_create() admits a document exactly if its names are
\* unique, its references lead to tasks, the edges fit and some order of the
\* tasks respects the dependencies, also if one is declared twice.
AdmissionExact ==
    Admitted(workflow.doc) <=>
        WellFormed(workflow.doc) /\ Len(EdgesOf(workflow.doc)) <= MaxEdges

\* The call returns, or the program aborts over a process it cannot reap, even
\* if an action never ends by itself.
RuntimeReturns == <>(rt.pc \in {"done", "aborted"})

\* What a task publishes under its name is what this task produced.
OutputsAreOwn == \A t \in Tasks : \A k \in Keys : typed[t][k] \in {Absent, t}
=============================================================================
