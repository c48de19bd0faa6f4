---------------------------- MODULE OwnerCohort ----------------------------
(* One owner thread runs cohorts of parallel branches                         *)
(* (workflow_owner_settlement.c, workflow_parallel_process_guard.c,           *)
(* workflow_parallel_commit.c) over the DAG state, the task registry and the  *)
(* value store.  A cohort is the set of tasks of one claim_ready(); each task *)
(* is posted to the cohort's own CFlow executor, runs on a worker thread with *)
(* a private value transaction and a private process retainer, and is settled *)
(* by the owner in one uninterrupted turn.  The owner may call the functions  *)
(* at any time and in any order, as may happen while workers are running; a   *)
(* call that is rejected before it changes anything is not a step.            *)
(* The executor and the retainers are libraries outside the repository.       *)
EXTENDS DagState, TaskRegistry, ValueStore

LOCAL INSTANCE FiniteSetsExt

CONSTANTS
    Cohorts,        \* cohorts, each with an executor and a recovery gate
    QueueCapacity,  \* queue slots of a cohort's executor
    MaxLeases,      \* processes one branch may hold in its retainer
    MayRunOutOfMemory   \* registry_fail() may be refused its memory

ASSUME CohortAssumption ==
    /\ QueueCapacity \in Nat
    /\ MaxLeases \in Nat
    /\ MayRunOutOfMemory \in BOOLEAN
    /\ Txns = Tasks

VARIABLES
    cohort,         \* executor and praktor_c11_process_cohort_recovery of each cohort
    branch          \* callback, result and retainer of each task

cohortVars == <<cohort, branch>>
ownerVars == <<dagVars, registryVars, storeVars, cohortVars>>

\* SIZE_MAX: no sweep of the retainers has been completed.
Unknown == Count * MaxLeases + 1

CohortRecord ==
    [tasks : SUBSET Tasks, shutdown : {"NONE", "DRAIN", "CANCEL_PENDING"},
     rejected : BOOLEAN, error : BOOLEAN, pending : 0 .. Unknown,
     bound : BOOLEAN, sealed : BOOLEAN]

\* An executor that was created, and the gate after recovery_init().
NewCohort(S) ==
    [tasks |-> S, shutdown |-> "NONE", rejected |-> FALSE, error |-> FALSE,
     pending |-> Unknown, bound |-> FALSE, sealed |-> FALSE]

Callback == {"none", "rejected", "queued", "running", "completed", "cancelled"}

\* faulted is a history: the retainer once reported a native error.
BranchRecord ==
    [callback : Callback, ok : BOOLEAN, leases : 0 .. MaxLeases, faulted : BOOLEAN]

InCallback(S, states) == {t \in S : branch[t].callback \in states}

-----------------------------------------------------------------------------
(* What the owner reads of executor and registry.                             *)

\* accepted equals the number of branches and nothing was rejected.
AllAccepted(c) ==
    /\ ~cohort[c].rejected
    /\ InCallback(cohort[c].tasks, {"none", "rejected"}) = {}

\* CLOSED, nothing queued or running, wait_idle() returns IDLE.
CallbacksSettled(c) ==
    /\ cohort[c].shutdown # "NONE"
    /\ InCallback(cohort[c].tasks, {"queued", "running"}) = {}

\* Mutant: a cohort can be aborted as failed only while the DAG continues.
PreflightFailedOnce(c, mode) ==
    /\ cohort[c].tasks # {} /\ ~cohort[c].sealed
    /\ dag.terminal = IF mode = "ABORT_CANCELLED" THEN "CANCELLED" ELSE "CONTINUE"
    /\ \A t \in cohort[c].tasks : dag.phase[t] = "RESERVED" /\ ~Finalized(registry[t].state)
    /\ mode = "PUBLISH" => \A t \in cohort[c].tasks : txn[t].active

\* preflight_cohort()
Preflight(c, mode) ==
    /\ cohort[c].tasks # {}
    /\ ~cohort[c].sealed
    /\ mode = "PUBLISH" => dag.terminal = "CONTINUE"
    /\ mode = "ABORT_FAILED" => dag.terminal \in {"CONTINUE", "FAILED"}
    /\ mode = "ABORT_CANCELLED" => dag.terminal = "CANCELLED"
    /\ \A t \in cohort[c].tasks :
          /\ dag.phase[t] = "RESERVED"
          /\ registry[t].state \in {"PENDING", "RUNNING"}
          /\ mode = "PUBLISH" => txn[t].active

-----------------------------------------------------------------------------
(* One sweep over the retainers of a cohort: run_ready() reaps some of the    *)
(* processes of each and may report a native error.                           *)

Sweeps(c) ==
    {s \in [cohort[c].tasks -> [left : 0 .. MaxLeases, fault : BOOLEAN]] :
        \A t \in cohort[c].tasks :
            s[t].left <= branch[t].leases /\ (s[t].fault => branch[t].leases > 0)}

LeasesLeft(s) == MapThenSumSet(LAMBDA t : s[t].left, DOMAIN s)

\* Mutant: the gate only remembers the error of the last sweep.
DrainGateForgetful(c, s) ==
    [cohort[c] EXCEPT !.error = \E t \in DOMAIN s : s[t].fault,
                      !.pending = LeasesLeft(s),
                      !.bound = TRUE]

\* The gate after a full sweep: the first error stays latched.
DrainGate(c, s) ==
    [cohort[c] EXCEPT !.error = cohort[c].error \/ \E t \in DOMAIN s : s[t].fault,
                      !.pending = LeasesLeft(s),
                      !.bound = TRUE]

DrainBranches(s) ==
    [t \in Tasks |->
        IF t \in DOMAIN s
        THEN [branch[t] EXCEPT !.leases = s[t].left, !.faulted = branch[t].faulted \/ s[t].fault]
        ELSE branch[t]]

DrainOK(gate) == ~gate.error /\ gate.pending = 0

-----------------------------------------------------------------------------
CohortInit ==
    /\ DagInit
    /\ RegistryInit
    /\ StoreInit
    /\ cohort = [c \in Cohorts |-> NewCohort({})]
    /\ branch = [t \in Tasks |-> [callback |-> "none", ok |-> FALSE, leases |-> 0, faulted |-> FALSE]]

\* The owner claims a cohort, creates its executor and gate and begins the
\* transactions of its branches.
OpenCohort(c, capacity) ==
    /\ cohort[c].tasks = {}
    /\ dag.terminal = "CONTINUE"
    /\ \E S \in (SUBSET Unblocked(dag)) \ {{}} :
          /\ IsFirstOf(S, Unblocked(dag), ClaimLimit(dag, capacity))
          /\ dag' = DagClaim(dag, S)
          /\ txn' = [t \in Tasks |-> IF t \in S THEN TxnBegin(store) ELSE txn[t]]
          /\ cohort' = [cohort EXCEPT ![c] = NewCohort(S)]
    /\ UNCHANGED <<graph, succeeded, registryVars, store, branch>>

\* try_post(): accepted while the executor is open and has a free slot.
Post(c, t) ==
    /\ t \in cohort[c].tasks
    /\ branch[t].callback = "none"
    /\ LET accepted == /\ cohort[c].shutdown = "NONE"
                       /\ Cardinality(InCallback(cohort[c].tasks, {"queued"})) < QueueCapacity
       IN /\ branch' = [branch EXCEPT ![t].callback = IF accepted THEN "queued" ELSE "rejected"]
          /\ cohort' = [cohort EXCEPT ![c].rejected = cohort[c].rejected \/ ~accepted]
    /\ UNCHANGED <<dagVars, registryVars, storeVars>>

\* A worker takes the branch and reserves retainer slots before it spawns.
RunBegin(c, t) ==
    /\ t \in cohort[c].tasks
    /\ branch[t].callback = "queued"
    /\ cohort[c].shutdown # "CANCEL_PENDING"
    /\ \E n \in 0 .. MaxLeases :
          branch' = [branch EXCEPT ![t].callback = "running", ![t].leases = n]
    /\ UNCHANGED <<dagVars, registryVars, storeVars, cohort>>

\* run() and finalize() return: a result, writes in the private transaction,
\* and the processes that were handed over to the retainer.
RunEnd(c, t) ==
    /\ t \in cohort[c].tasks
    /\ branch[t].callback = "running"
    /\ \E ok \in BOOLEAN, n \in 0 .. branch[t].leases :
          branch' = [branch EXCEPT ![t].callback = "completed", ![t].ok = ok, ![t].leases = n]
    /\ \/ UNCHANGED txn
       \/ \E k \in Keys : \E v \in ValuesOf[k] :
             CanTxnSet(txn[t], k) /\ txn' = [txn EXCEPT ![t] = TxnSet(txn[t], k, v)]
    /\ UNCHANGED <<dagVars, registryVars, store, cohort>>

\* cancel() and finalize() of a descriptor that was still queued.
RunCancelled(c, t) ==
    /\ t \in cohort[c].tasks
    /\ branch[t].callback = "queued"
    /\ cohort[c].shutdown = "CANCEL_PENDING"
    /\ branch' = [branch EXCEPT ![t].callback = "cancelled"]
    /\ UNCHANGED <<dagVars, registryVars, storeVars, cohort>>

\* praktor_c11_workflow_owner_close_admission(); a second shutdown is refused
\* by the executor, after the DAG was stopped.
CloseAdmission(c, policy) ==
    /\ cohort[c].tasks # {}
    /\ dag' = IF policy = "CANCEL_PENDING" THEN DagStop(dag, "CANCELLED") ELSE dag
    /\ cohort' = [cohort EXCEPT ![c].shutdown = IF @ = "NONE" THEN policy ELSE @]
    /\ UNCHANGED <<graph, succeeded, registryVars, storeVars, branch>>

\* praktor_workflow_dag_stop() for a reason outside the cohorts.
OwnerStop(reason) ==
    /\ Stop(reason)
    /\ UNCHANGED <<registryVars, storeVars, cohortVars>>

\* A write of the owner to the shared store between two turns.
OwnerWrite(k) ==
    /\ \/ Erase(k)
       \/ \E v \in ValuesOf[k] : SetMany([x \in {k} |-> v])
    /\ UNCHANGED <<dagVars, registryVars, cohortVars>>

\* drain_process_retainers() called by an owner that saw the callbacks settle.
DrainOnly(c) ==
    /\ cohort[c].tasks # {}
    /\ CallbacksSettled(c)
    /\ ~cohort[c].sealed
    /\ \E s \in Sweeps(c) :
          cohort' = [cohort EXCEPT ![c] = DrainGate(c, s)] /\ branch' = DrainBranches(s)
    /\ UNCHANGED <<dagVars, registryVars, storeVars>>

\* Mutant: the loop ends before the last task.
CompletedPrefixShort(r, S) == {t \in S : \E u \in S : t < u}

\* The tasks of S that the publication loop completes before it meets a slot
\* of the registry r that refuses.
CompletedPrefix(r, S) == {t \in S : \A u \in S : u <= t => Mutable(r[u])}

\* The publication turn after a clean sweep: typed and text outputs of the
\* branches S, then the status of each task.
PublishOutputs(c, S, U) ==
    LET published == RegPublish(registry, RegPrepare(registry, U))
        settled == CompletedPrefix(published, S)
        finished == FoldSet(LAMBDA t, d : DagFinish(d, graph, t, TRUE), dag, settled)
    IN
    /\ store' = GroupResult(store, txn, S)
    /\ txn' = Closed(txn, S)
    /\ registry' = [t \in Tasks |-> IF t \in settled THEN RegComplete(published[t]) ELSE published[t]]
    /\ dag' = IF settled = S THEN finished ELSE DagStop(finished, "FAILED")
    /\ succeeded' = succeeded \cup settled

\* praktor_c11_workflow_owner_settle_cohort(PUBLISH), typed outputs U.  The
\* sweep counts even if the commit is refused afterwards.
SettlePublish(c, U) ==
    LET S == cohort[c].tasks IN
    /\ Preflight(c, "PUBLISH")
    /\ AllAccepted(c)
    /\ InCallback(S, {"cancelled"}) = {}
    /\ CallbacksSettled(c)
    /\ ~cohort[c].error
    /\ \A t \in S : branch[t].ok
    /\ \E s \in Sweeps(c) :
          LET gate == DrainGate(c, s)
              commit == /\ DrainOK(gate)
                        /\ CanPrepare(registry, U)
                        /\ GroupCommitOK(store, txn, S)
          IN
          /\ branch' = DrainBranches(s)
          /\ cohort' = [cohort EXCEPT ![c] = [gate EXCEPT !.sealed = commit]]
          /\ IF commit THEN PublishOutputs(c, S, U)
             ELSE UNCHANGED <<dag, succeeded, registry, storeVars>>
    /\ UNCHANGED <<graph, groups>>

\* Mutant: a branch that was cancelled before it ran is finished like the others.
AbortBranchesAll(d, S) ==
    FoldSet(LAMBDA t, x : DagFinish(x, graph, t, FALSE), d, S)

\* Settle each branch of an aborted cohort: one that never ran is refused, one
\* that ran is failed.
AbortBranches(d, S) ==
    FoldSet(LAMBDA t, x : IF branch[t].callback = "cancelled"
                          THEN DagRefuse(x, t) ELSE DagFinish(x, graph, t, FALSE), d, S)

\* The branches that the abort loop settles: all, or those before the first one
\* for which registry_fail() returns an error.
AbortPrefixes(S) ==
    {S} \cup
    {{u \in S : u < t} : t \in {u \in S : MayRunOutOfMemory /\ branch[u].callback = "completed"}}

\* The gate is sealed when the loop has settled every branch.
AbortGate(gate, settled, S) == [gate EXCEPT !.sealed = (settled = S)]

\* ABORT_FAILED and ABORT_CANCELLED once the callbacks have settled: the DAG is
\* stopped first, the native sweep may leave the rest for a later turn.
SettleAbort(c, mode) ==
    LET S == cohort[c].tasks
        stopped == IF mode = "ABORT_FAILED" THEN DagStop(dag, "FAILED") ELSE dag
    IN
    /\ Preflight(c, mode)
    /\ AllAccepted(c)
    /\ CallbacksSettled(c)
    /\ mode = "ABORT_FAILED" => InCallback(S, {"cancelled"}) = {}
    /\ \E s \in Sweeps(c) :
          LET gate == DrainGate(c, s) IN
          /\ branch' = DrainBranches(s)
          /\ \/ /\ gate.pending # 0
                /\ dag' = stopped
                /\ cohort' = [cohort EXCEPT ![c] = gate]
                /\ UNCHANGED <<registry, txn>>
             \/ /\ gate.pending = 0
                /\ \E settled \in AbortPrefixes(S) :
                      /\ dag' = AbortBranches(stopped, settled)
                      /\ registry' =
                            [t \in Tasks |->
                                IF t \in settled /\ branch[t].callback = "completed"
                                THEN RegFail(registry[t]) ELSE registry[t]]
                      /\ cohort' = [cohort EXCEPT ![c] = AbortGate(gate, settled, S)]
                /\ txn' = Closed(txn, S)
    /\ UNCHANGED <<graph, succeeded, groups, store>>

CohortNext ==
    \/ \E c \in Cohorts, capacity \in 1 .. MaxCapacity : OpenCohort(c, capacity)
    \/ \E c \in Cohorts, t \in Tasks :
          Post(c, t) \/ RunBegin(c, t) \/ RunEnd(c, t) \/ RunCancelled(c, t)
    \/ \E c \in Cohorts, policy \in {"DRAIN", "CANCEL_PENDING"} : CloseAdmission(c, policy)
    \/ \E reason \in StopReason : OwnerStop(reason)
    \/ \E k \in Keys : OwnerWrite(k)
    \/ \E c \in Cohorts : DrainOnly(c)
    \/ \E c \in Cohorts : \E U \in [cohort[c].tasks -> SUBSET OutputKeys] : SettlePublish(c, U)
    \/ \E c \in Cohorts, mode \in {"ABORT_FAILED", "ABORT_CANCELLED"} : SettleAbort(c, mode)

CohortSpec == CohortInit /\ [][CohortNext]_ownerVars

-----------------------------------------------------------------------------
\* Gates and branches are well formed: pending is a count of processes held or
\* unknown, never more than the retainers can hold.
CohortTypeOK ==
    /\ cohort \in [Cohorts -> CohortRecord]
    /\ branch \in [Tasks -> BranchRecord]

\* The tasks the registry reports as SUCCESS.
Published == {t \in Tasks : registry[t].state = "SUCCESS"}

\* Outputs of a cohort become visible only if every branch of it was accepted,
\* ran and succeeded, every native process it started was reaped and no sweep
\* ever met a native error; and they become visible for all branches at once.
PublishedMeansClean ==
    \A c \in Cohorts : cohort[c].tasks \cap Published # {} =>
        /\ cohort[c].tasks \subseteq Published
        /\ ~cohort[c].rejected
        /\ \A t \in cohort[c].tasks :
              /\ branch[t].callback = "completed" /\ branch[t].ok
              /\ branch[t].leases = 0 /\ ~branch[t].faulted

\* No retainer is driven by the owner as long as a callback could still reserve
\* or adopt a process in it.
DrivenOnlyWhenIdle ==
    \A c \in Cohorts : cohort[c].bound =>
        InCallback(cohort[c].tasks, {"queued", "running"}) = {}

\* The pending count the gate reports is never a false zero: whatever was
\* last observed is still the number of processes held.
PendingIsExact ==
    \A c \in Cohorts : cohort[c].pending # Unknown =>
        cohort[c].pending = MapThenSumSet(LAMBDA t : branch[t].leases, cohort[c].tasks)

\* A gate is sealed once its cohort is settled, and not before.
SealedMeansSettled ==
    \A c \in Cohorts :
        cohort[c].sealed => \A t \in cohort[c].tasks : dag.phase[t] \in {"FINISHED", "REFUSED"}

\* What the drain gate knows of the processes of its cohort is true, it is sealed
\* over settled branches only, and what the cohort publishes is clean.
CohortInv ==
    CohortTypeOK /\ DrivenOnlyWhenIdle /\ PendingIsExact /\ SealedMeansSettled /\ PublishedMeansClean

\* DAG and registry tell the same story of every task between two owner turns,
\* also when a turn ended early.
DagAndRegistryAgree ==
    \A t \in Tasks :
        /\ (t \in succeeded) <=> (registry[t].state = "SUCCESS")
        /\ (dag.phase[t] = "FINISHED" /\ t \notin succeeded) <=> (registry[t].state = "FAILED")
        /\ dag.phase[t] \in {"PENDING", "RESERVED", "REFUSED"} => registry[t].state = "PENDING"

\* The tasks of cohort c that a step reports as SUCCESS.
NewlyPublished(c) ==
    {t \in cohort[c].tasks : registry'[t] # registry[t] /\ registry'[t].state = "SUCCESS"}

\* Text and status go together, as settle_cohort() publishes them in one turn:
\* when tasks of a cohort are reported as SUCCESS, all of the cohort are, and the
\* text they wrote is in the shared store; and no turn that ends branches'
\* transactions changes text unless it reports a whole cohort, of whose
\* branches the changed texts are.  (The owner's own writes end no transaction.)
TextWithStatus ==
    [][/\ \A c \in Cohorts : NewlyPublished(c) # {} =>
             /\ NewlyPublished(c) = cohort[c].tasks
             /\ \A t \in cohort[c].tasks : \A k \in Touched(txn[t]) : store'[k] = txn[t].working[k]
       /\ (store' # store /\ txn' # txn) =>
             \E c \in Cohorts :
                /\ cohort[c].tasks # {} /\ NewlyPublished(c) = cohort[c].tasks
                /\ \A k \in Keys : store'[k] # store[k] => \E t \in cohort[c].tasks : k \in Touched(txn[t])
      ]_ownerVars

\* A settlement turn never leaves a cohort with some reservations settled and
\* others not: every claimed task can still receive its finish or refuse.
NoHalfSettledCohort ==
    \A c \in Cohorts : \A t, u \in cohort[c].tasks :
        (dag.phase[t] = "RESERVED") <=> (dag.phase[u] = "RESERVED")

-----------------------------------------------------------------------------
(* Progress.  Worker threads are scheduled; the owner posts what it claimed,  *)
(* closes admission and keeps calling settle; a terminated process is reaped  *)
(* sooner or later.                                                           *)

SettleCompletely(c) ==
    /\ SettleAbort(c, "ABORT_FAILED") \/ SettleAbort(c, "ABORT_CANCELLED")
    /\ cohort'[c].sealed

CohortFairness ==
    /\ \A c \in Cohorts, t \in Tasks :
          WF_ownerVars(RunBegin(c, t)) /\ WF_ownerVars(RunEnd(c, t)) /\ WF_ownerVars(RunCancelled(c, t))
    /\ \A c \in Cohorts : WF_ownerVars(SettleCompletely(c))

\* Admission of the cohort is closed, all branches were accepted, and the DAG
\* was stopped for no reason other than the one the cohort is settled for.
Settleable(c) ==
    /\ cohort[c].tasks # {}
    /\ AllAccepted(c)
    /\ \/ cohort[c].shutdown = "DRAIN" /\ dag.terminal \in {"CONTINUE", "FAILED"}
       \/ cohort[c].shutdown # "NONE" /\ dag.terminal = "CANCELLED"

\* A closed cohort is settled in the end, whatever its branches returned and
\* whatever processes and native errors they left behind.
ClosedCohortSettles ==
    \A c \in Cohorts : Settleable(c) ~> (cohort[c].sealed \/ ~Settleable(c))
=============================================================================
