----------------------------- MODULE MCProgress -----------------------------
(* What has to come to an end: the DAG of a workflow, a control call of a     *)
(* workflow action, of a managed process or of a service, a cohort that its   *)
(* owner settles, and a process worker that is cancelled or destroyed.  One   *)
(* of them runs; the calls that do not run are over from the beginning, and   *)
(* the DAG is stopped before anything else runs.                              *)
(* The DAG has four tasks and a handful of graphs: every list of at most two  *)
(* edges (repeated edges included), the chain, the diamond, the diamond with  *)
(* repeated edges and a join of three tasks.  One instance of an image may    *)
(* run at the beginning, a control call starts one and others two; the        *)
(* budgets differ, so that a deadline taken for another one would show.       *)
(* The cohorts have a workflow of their own, without values, and the worker a *)
(* process without output; nothing there runs out of memory and the process   *)
(* library does not fail.                                                     *)
EXTENDS DagState, ProcessControl, ServiceControl, ProcessWorker

VARIABLES
    subject,            \* which of them runs
    workflowGraph, workflowDag, workflowSucceeded, registry, groups, store, txn, cohort, branch

callVars == <<controlVars, serviceVars>>

E(p, d) == [predecessor |-> p, dependent |-> d]

MCPairs == {E(p, d) : p \in Tasks, d \in Tasks}

MCShort ==
    {g \in {<<>>} \cup {<<a>> : a \in MCPairs} \cup {<<a, b>> : a, b \in MCPairs} :
        Acyclic(g)}

MCGraphs ==
    MCShort \cup
    { <<E(0, 1), E(1, 2), E(2, 3)>>,
      <<E(0, 1), E(0, 2), E(1, 3), E(2, 3)>>,
      <<E(0, 1), E(0, 1), E(0, 2), E(1, 3), E(2, 3), E(2, 3)>>,
      <<E(3, 0), E(2, 0), E(1, 0)>> }

MCNothingWritten == [i \in Reads |-> 0]

MCModes == {[retained |-> FALSE, streamed |-> FALSE]}

\* Two cohorts of a workflow that begins with two tasks or with one; they are
\* used up before it ends.
Owner == INSTANCE OwnerCohort WITH
    Graphs <- {<<E(0, 2), E(1, 2), E(2, 3)>>, <<E(0, 1), E(1, 2), E(2, 3)>>}, MaxCapacity <- 2,
    OutputKeys <- {}, MaxOutputs <- 1, MaxRevision <- 2, Groups <- {},
    Keys <- {}, Values <- {"v1"}, ValuesOf <- [k \in {} |-> {}], Absent <- "absent",
    Capacity <- 1, Txns <- Tasks, Sources <- {},
    Cohorts <- {"c1", "c2"}, QueueCapacity <- 1, MaxLeases <- 1, MayRunOutOfMemory <- FALSE,
    graph <- workflowGraph, dag <- workflowDag, succeeded <- workflowSucceeded

ownerVars == <<workflowGraph, workflowDag, workflowSucceeded, registry, groups, store, txn, cohort, branch>>

NoControl ==
    /\ world = [alive |-> {}, next |-> 1, killed |-> {}]
    /\ ctl = [op |-> "STATUS", force |-> FALSE, pc |-> "done", phase |-> "query", error |-> "NONE",
              changed |-> FALSE, snapshot |-> 0, started |-> 0, forced |-> 0, elapsed |-> 0,
              observed |-> FALSE, first |-> 0]

NoService ==
    /\ scm = 1
    /\ svc = [op |-> "STATUS", pc |-> "done", stage |-> "query", command |-> "status",
              state |-> "UNKNOWN", error |-> "INVALID", changed |-> FALSE, elapsed |-> 0,
              issued |-> <<>>, asked |-> {}, stopped |-> FALSE]

ProgressInit ==
    /\ subject \in {"dag", "control", "service", "owner", "worker"}
    /\ DagInit /\ (subject # "dag" => graph = <<>>)
    /\ IF subject = "control" THEN ControlInit ELSE NoControl
    /\ IF subject = "service" THEN ServiceInit ELSE NoService
    /\ Owner!CohortInit /\ (subject # "owner" => workflowGraph = <<E(0, 1), E(1, 2), E(2, 3)>>)
    /\ WorkerInit

DagStep ==
    /\ \/ subject = "dag" /\ DagNext
       \/ subject # "dag" /\ dag.terminal = "CONTINUE" /\ Stop("CANCELLED")
    /\ UNCHANGED <<callVars, ownerVars, workerVars>>

\* A call that has returned is not followed further.
OtherStep ==
    \/ subject = "control" /\ ctl.pc # "done" /\ ControlNext /\ UNCHANGED <<serviceVars, ownerVars, workerVars>>
    \/ subject = "service" /\ svc.pc # "done" /\ ServiceNext /\ UNCHANGED <<controlVars, ownerVars, workerVars>>
    \/ subject = "owner" /\ Owner!CohortNext /\ UNCHANGED <<callVars, workerVars>>
    \/ subject = "worker" /\ WorkerNext /\ UNCHANGED <<callVars, ownerVars>>

ProgressNext ==
    /\ DagStep \/ (dag.terminal # "CONTINUE" /\ OtherStep /\ UNCHANGED dagVars)
    /\ UNCHANGED subject

Is(what) == subject = what /\ UNCHANGED subject

\* The owner of the DAG keeps claiming and settling.
DagProgress ==
    /\ WF_dagVars(Is("dag") /\ \E capacity \in 1 .. 3 : ClaimReady(capacity))
    /\ \A t \in Tasks :
          WF_dagVars(Is("dag") /\ ((\E success \in BOOLEAN : Finish(t, success)) \/ Refuse(t)))
    /\ WF_dagVars(dag.terminal = "CONTINUE" /\ subject # "dag" /\ DagStep)

\* A host call returns and time passes.
CallProgress ==
    /\ WF_controlVars(Is("control") /\ ControlStep) /\ WF_controlVars(Is("control") /\ TimePasses)
    /\ WF_serviceVars(Is("service") /\ ServiceStep) /\ WF_serviceVars(Is("service") /\ ServiceTime)

\* Callbacks of a cohort return and its owner settles it.  Two cohorts take the
\* first three tasks at most.
OwnerProgress ==
    /\ \A c \in {"c1", "c2"}, t \in 0 .. 2 :
          /\ WF_ownerVars(Is("owner") /\ Owner!RunBegin(c, t))
          /\ WF_ownerVars(Is("owner") /\ Owner!RunEnd(c, t))
          /\ WF_ownerVars(Is("owner") /\ Owner!RunCancelled(c, t))
    /\ \A c \in {"c1", "c2"} : WF_ownerVars(Is("owner") /\ Owner!SettleCompletely(c))

\* All of this, and the threads of a worker run.
ProgressSpec ==
    /\ ProgressInit /\ [][ProgressNext]_<<subject, dagVars, callVars, ownerVars, workerVars>>
    /\ DagProgress /\ CallProgress /\ OwnerProgress /\ WorkerFairness

\* A closed cohort is settled in the end, whatever its branches returned and
\* whatever they left behind (workflow_owner_settlement.c).
ClosedCohortSettles == Owner!ClosedCohortSettles

\* A control call returns, whatever the process, the service and other
\* administrators do (process_control.c, service_control.c).
CallReturns == <>(ctl.pc = "done" /\ svc.pc = "done")
=============================================================================
