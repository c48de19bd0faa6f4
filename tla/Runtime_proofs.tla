---------------------------- MODULE Runtime_proofs ----------------------------
(* Proofs about praktor_runtime_execute_yaml(), for every number of tasks,    *)
(* all documents and actions, every capacity of text and whatever fails:      *)
(* RuntimeInv and TextFollowsSuccess.  The steps that move registry and texts *)
(* are here, the others and the invariant in RuntimeLoop_proofs.              *)
EXTENDS RuntimeLoop_proofs

-----------------------------------------------------------------------------
(* Steps that move the registry and the texts.                                *)

\* One mutation of the slot of one task.
LEMMA SlotMoves ==
    ASSUME RuntimeIInv, NEW t \in Tasks, NEW new, SlotStep(registry[t], new),
           registry' = [registry EXCEPT ![t] = new]
    PROVE  /\ registry' \in [Tasks -> Slot] /\ OutputsBounded'
           /\ registry'[t] = new /\ \A u \in Tasks \ {t} : registry'[u] = registry[u]
<1>1. registry \in [Tasks -> Slot] /\ \A u \in Tasks : OutputsFit(registry[u].outputs)
  BY DEF RuntimeIInv, Sound, OutputsBounded
<1>2. new \in Slot /\ OutputsFit(new.outputs)
  BY <1>1, SlotStepKeeps
<1>3. /\ registry' \in [Tasks -> Slot]
      /\ registry'[t] = new /\ \A u \in Tasks \ {t} : registry'[u] = registry[u]
  BY <1>1, <1>2
<1> QED
  BY <1>1, <1>2, <1>3 DEF OutputsBounded

\* The task starts in a scope that holds all that was published before it.
LEMMA BeginTaskKeeps ==
    ASSUME RuntimeIInv, BeginTask
    PROVE  RuntimeIInv'
<1> DEFINE t == rt.task
           K == workflow.vars[t]
           seeded == Seeded(store, K, Count)
<1>1. /\ rt.pc = "begin" /\ t \in Tasks /\ workflow \in Workflows /\ store \in Contents
      /\ dag.phase[t] = "RESERVED" /\ rt.status = "OK" /\ ~rt.error /\ ~rt.accepted /\ ~rt.passed
  BY DEF BeginTask, RuntimeIInv, Locals, AtTask, InTask, Sound
<1>2. /\ dag' = dag /\ graph' = graph /\ succeeded' = succeeded
      /\ store' = store /\ workflow' = workflow /\ typed' = typed
  BY DEF BeginTask, dagVars, storeVars
<1>3. /\ registry' \in [Tasks -> Slot] /\ OutputsBounded'
      /\ registry'[t] = RegStart(registry[t]) /\ \A u \in Tasks \ {t} : registry'[u] = registry[u]
  BY <1>1, SlotMoves DEF BeginTask, StartTask, SlotStep
<1>4. Sound'
  <2>1. DagInv'
    BY <1>2, DagUntouched DEF RuntimeIInv, Sound
  <2> QED
    BY <1>2, <1>3, <2>1 DEF RuntimeIInv, Sound, StoreSize, Present
<1>5. registry'[t].state = "RUNNING"
  BY <1>3 DEF RegStart
<1>6. /\ seeded \in Contents /\ Present(seeded) = K \cup Present(store)
      /\ \A k \in Keys : seeded[k] \in {Count, store[k]}
  BY <1>1, PortsAreKeys, AuthorsAreValues, SeededKeeps
<1>7. CASE rt' = [rt EXCEPT !.pc = "admit", !.scope = seeded]
  <2>1. /\ DOMAIN rt' = RtFields /\ rt'.pc = "admit" /\ rt'.status = rt.status /\ rt'.task = rt.task
        /\ rt'.scope = seeded /\ rt'.passed = rt.passed /\ rt'.accepted = rt.accepted
        /\ rt'.error = rt.error /\ rt'.procs = rt.procs /\ rt'.cancel = rt.cancel
        /\ rt'.late = rt.late /\ rt'.lost = rt.lost
    BY <1>7 DEF RuntimeIInv, Locals, RtFields
  <2> HIDE DEF seeded
  <2>2. Locals'
    BY <1>1, <1>6, <2>1 DEF RuntimeIInv, Locals, InTask, Ending, Statuses
  <2>3. Agree'
    BY <1>1, <1>2, <1>3, <2>1 DEF RuntimeIInv, Agree, Current, InTask
  <2>4. AtTask'
    BY <1>1, <1>2, <1>5, <2>1 DEF RuntimeIInv, AtTask, InTask
  <2>5. Reasons' /\ Fresh'
    BY <1>1, <1>2, <2>1 DEF RuntimeIInv, Reasons, Fresh, InTask, Ending
  <2>6. Authors'
    <3>1. /\ \A k \in Present(store) : store[k] \in {Count} \cup succeeded
          /\ \A u \in succeeded : Ports(u) \subseteq Present(store)
      BY <1>1 DEF RuntimeIInv, Authors, Published
    <3>2. \A k \in Present(seeded) : seeded[k] \in {Count, t} \cup succeeded
      BY <1>6, <3>1 DEF Present
    <3>3. \A u \in succeeded : Ports(u) \subseteq Present(seeded)
      BY <1>6, <3>1
    <3> QED
      BY <1>1, <1>2, <2>1, <3>1, <3>2, <3>3 DEF Authors, Published, Publishes, Ports, Processes, InTask
  <2> QED
    BY <1>4, <2>2, <2>3, <2>4, <2>5, <2>6, AllTogether
<1>8. CASE rt' = [rt EXCEPT !.pc = "teardown", !.error = TRUE]
  <2>1. /\ DOMAIN rt' = RtFields /\ rt'.pc = "teardown" /\ rt'.status = rt.status
        /\ rt'.task = rt.task /\ rt'.scope = rt.scope /\ rt'.passed = rt.passed
        /\ rt'.accepted = rt.accepted /\ rt'.error = TRUE /\ rt'.procs = rt.procs
        /\ rt'.cancel = rt.cancel /\ rt'.late = rt.late /\ rt'.lost = rt.lost
    BY <1>8 DEF RuntimeIInv, Locals, RtFields
  <2>2. Locals'
    BY <1>1, <2>1 DEF RuntimeIInv, Locals, InTask, Ending, Statuses
  <2>3. Agree'
    BY <1>1, <1>2, <1>3, <2>1 DEF RuntimeIInv, Agree, Current, InTask
  <2>4. AtTask'
    BY <1>1, <1>2, <1>5, <2>1 DEF RuntimeIInv, AtTask, InTask
  <2>5. Reasons' /\ Fresh'
    BY <1>1, <1>2, <2>1 DEF RuntimeIInv, Reasons, Fresh, InTask, Ending
  <2>6. Authors'
    BY <1>1, <1>2, <2>1 DEF RuntimeIInv, Authors, Published, Publishes, Ports, Processes, InTask
  <2> QED
    BY <1>4, <2>2, <2>3, <2>4, <2>5, <2>6, AllTogether
<1> QED
  BY <1>7, <1>8 DEF BeginTask

\* publish_success() mutates the slot of its task, which goes on running.
LEMMA PublishesSlot ==
    ASSUME RuntimeIInv, NEW t \in Tasks, registry[t].state = "RUNNING", CanPublishTask(t),
           registry' = RegPublish(registry, RegPrepare(registry, Only(t, Ports(t))))
    PROVE  /\ registry' \in [Tasks -> Slot] /\ OutputsBounded'
           /\ registry'[t].state = "RUNNING" /\ \A u \in Tasks \ {t} : registry'[u] = registry[u]
<1> DEFINE U == Only(t, Ports(t))
           new == StoreOutputs(registry[t], StageUpdate(registry[t], Ports(t)))
<1>1. DOMAIN U = {t} /\ U[t] = Ports(t)
  BY DEF Only
<1>2. Ports(t) \in SUBSET OutputKeys /\ Ports(t) # {}
  BY PortsAreKeys, RuntimeAssumption DEF RuntimeIInv, Sound
<1>3. Mutable(registry[t]) /\ OutputsFit(StageUpdate(registry[t], Ports(t)))
  BY <1>1 DEF CanPublishTask, CanPrepare
<1>4. SlotStep(registry[t], new)
  BY <1>2, <1>3 DEF SlotStep
<1>5. registry \in [Tasks -> Slot]
  BY DEF RuntimeIInv, Sound
<1>6. registry' = [registry EXCEPT ![t] = new]
  <2>1. /\ DOMAIN RegPrepare(registry, U) = {t}
        /\ RegPrepare(registry, U)[t].updates = Ports(t)
        /\ RegPrepare(registry, U)[t].staged = StageUpdate(registry[t], Ports(t))
    BY <1>1 DEF RegPrepare
  <2>2. registry' = [u \in Tasks |-> IF u = t THEN new ELSE registry[u]]
    BY <1>2, <2>1 DEF RegPublish
  <2> QED
    BY <1>5, <2>2
<1>7. new.state = "RUNNING"
  <2>1. registry[t] \in Slot
    BY <1>5
  <2> QED
    BY <2>1 DEF StoreOutputs, Slot
<1> HIDE DEF new
<1> QED
  BY <1>4, <1>6, <1>7, SlotMoves

\* publish_failure_exit() mutates the slot of its task, or nothing.
LEMMA PublishesExit ==
    ASSUME RuntimeIInv, NEW t \in Tasks, registry[t].state = "RUNNING", PublishFailureExit(t)
    PROVE  /\ registry' \in [Tasks -> Slot] /\ OutputsBounded' /\ typed' \in [Tasks -> Contents]
           /\ registry'[t].state = "RUNNING" /\ \A u \in Tasks \ {t} : registry'[u] = registry[u]
<1> DEFINE K == {"shell_exit_code"}
           new == StoreOutputs(registry[t], StageUpdate(registry[t], K))
<1>1. registry \in [Tasks -> Slot] /\ OutputsBounded /\ typed \in [Tasks -> Contents] /\ rt.scope \in Contents
  BY DEF RuntimeIInv, Sound, Locals
<1>2. "shell_exit_code" \in Keys /\ K \in SUBSET OutputKeys
  BY RuntimeAssumption
<1>3. CASE /\ MergeOutputs(t, K)
           /\ typed' = [typed EXCEPT ![t]["shell_exit_code"] = rt.scope["shell_exit_code"]]
  <2>1. SlotStep(registry[t], new) /\ registry' = [registry EXCEPT ![t] = new]
    BY <1>2, <1>3 DEF SlotStep, MergeOutputs
  <2>2. new.state = "RUNNING"
    <3>1. registry[t] \in Slot
      BY <1>1
    <3> QED
      BY <3>1 DEF StoreOutputs, Slot
  <2> HIDE DEF new
  <2>3. typed' \in [Tasks -> Contents]
    BY <1>1, <1>2, <1>3 DEF Contents
  <2> QED
    BY <2>1, <2>2, <2>3, SlotMoves
<1>4. CASE UNCHANGED <<registryVars, typed>>
  BY <1>1, <1>4 DEF registryVars, OutputsBounded
<1> QED
  BY <1>3, <1>4 DEF PublishFailureExit

\* What a task leaves is published whole if it succeeded; a failed one publishes
\* its exit code in the registry alone, and no text.
LEMMA PublishKeeps ==
    ASSUME RuntimeIInv, Publish
    PROVE  RuntimeIInv'
<1> DEFINE t == rt.task
<1>1. /\ rt.pc = "publish" /\ t \in Tasks /\ workflow \in Workflows /\ registry[t].state = "RUNNING"
      /\ store \in Contents /\ rt.scope \in Contents /\ typed \in [Tasks -> Contents]
  BY DEF Publish, RuntimeIInv, Locals, AtTask, InTask, Sound
<1>2. dag' = dag /\ graph' = graph /\ succeeded' = succeeded /\ workflow' = workflow
  BY DEF Publish, dagVars
<1>3. DagInv'
  BY <1>2, DagUntouched DEF RuntimeIInv, Sound
<1>4. /\ \A k \in Present(store) : store[k] \in {Count} \cup succeeded
      /\ \A u \in succeeded : Ports(u) \subseteq Present(store)
      /\ \A k \in Present(rt.scope) : rt.scope[k] \in {Count, t} \cup succeeded
  BY <1>1 DEF RuntimeIInv, Authors, Published, InTask
<1>5. CASE Publishes(rt) /\ PublishSuccess(t) /\ rt' = [rt EXCEPT !.pc = "settle"]
  <2>1. /\ DOMAIN rt' = RtFields /\ rt'.pc = "settle" /\ rt'.status = rt.status
        /\ rt'.task = rt.task /\ rt'.scope = rt.scope /\ rt'.passed = rt.passed
        /\ rt'.accepted = rt.accepted /\ rt'.error = rt.error /\ rt'.procs = rt.procs
        /\ rt'.cancel = rt.cancel /\ rt'.late = rt.late /\ rt'.lost = rt.lost
    BY <1>5 DEF RuntimeIInv, Locals, RtFields
  <2>2. /\ registry' \in [Tasks -> Slot] /\ OutputsBounded'
        /\ registry'[t].state = "RUNNING" /\ \A u \in Tasks \ {t} : registry'[u] = registry[u]
    BY <1>1, <1>5, PublishesSlot DEF PublishSuccess
  <2>3. /\ store' = [k \in Keys |-> IF k \in Ports(t) THEN rt.scope[k] ELSE store[k]]
        /\ store' \in Contents /\ StoreSize(store') <= Capacity
        /\ Present(store') = Ports(t) \cup Present(store)
    BY <1>1, <1>5, PublishedText DEF PublishSuccess, CanPublishTask
  <2>4. typed' \in [Tasks -> Contents]
    BY <1>1, <1>5 DEF PublishSuccess, Contents
  <2>5. Sound'
    BY <1>1, <1>2, <1>3, <2>2, <2>3, <2>4 DEF Sound, StoreSize, Present
  <2>6. Locals'
    BY <1>1, <2>1 DEF RuntimeIInv, Locals, InTask, Ending, Statuses
  <2>7. Agree'
    BY <1>1, <1>2, <2>1, <2>2 DEF RuntimeIInv, Agree, Current, InTask
  <2>8. AtTask' /\ Reasons' /\ Fresh'
    BY <1>1, <1>2, <2>1, <2>2 DEF RuntimeIInv, AtTask, Reasons, Fresh, InTask, Ending
  <2>9. Authors'
    <3>1. \A k \in Present(store') : store'[k] \in {Count} \cup succeeded \cup {t}
      <4>1. Ports(t) \subseteq Present(rt.scope)
        BY <1>5 DEF PublishSuccess, CanPublishTask, CanStageText
      <4> QED
        BY <1>4, <2>3, <4>1 DEF Present
    <3>2. \A u \in succeeded \cup {t} : Ports(u) \subseteq Present(store')
      BY <1>4, <2>3
    <3>3. Published'
      BY <1>5, <2>1 DEF Published, Publishes
    <3> QED
      BY <1>1, <1>2, <1>4, <2>1, <3>1, <3>2, <3>3 DEF Authors, Ports, Processes
  <2> QED
    BY <2>5, <2>6, <2>7, <2>8, <2>9, AllTogether
<1>6. CASE /\ Publishes(rt) /\ rt' = [rt EXCEPT !.pc = "settle", !.error = TRUE]
           /\ UNCHANGED <<registryVars, store, typed>>
  <2>1. /\ DOMAIN rt' = RtFields /\ rt'.pc = "settle" /\ rt'.status = rt.status
        /\ rt'.task = rt.task /\ rt'.scope = rt.scope /\ rt'.passed = rt.passed
        /\ rt'.accepted = rt.accepted /\ rt'.error = TRUE /\ rt'.procs = rt.procs
        /\ rt'.cancel = rt.cancel /\ rt'.late = rt.late /\ rt'.lost = rt.lost
    BY <1>6 DEF RuntimeIInv, Locals, RtFields
  <2>2. registry' = registry /\ store' = store /\ typed' = typed
    BY <1>6 DEF registryVars
  <2>3. Sound'
    BY <1>2, <1>3, <2>2 DEF RuntimeIInv, Sound, StoreSize, Present, OutputsBounded
  <2>4. Locals'
    BY <1>1, <2>1 DEF RuntimeIInv, Locals, InTask, Ending, Statuses
  <2>5. Agree'
    BY <1>1, <1>2, <2>1, <2>2 DEF RuntimeIInv, Agree, Current, InTask
  <2>6. AtTask' /\ Reasons' /\ Fresh'
    BY <1>1, <1>2, <2>1, <2>2 DEF RuntimeIInv, AtTask, Reasons, Fresh, InTask, Ending
  <2>7. Authors'
    BY <1>1, <1>2, <1>4, <2>1, <2>2 DEF Authors, Published, Publishes, Ports, Processes, InTask
  <2> QED
    BY <2>3, <2>4, <2>5, <2>6, <2>7, AllTogether
<1>7. CASE /\ ~Publishes(rt) /\ rt' = [rt EXCEPT !.pc = "settle"] /\ UNCHANGED store
           /\ PublishFailureExit(t) \/ UNCHANGED <<registryVars, typed>>
  <2>1. /\ DOMAIN rt' = RtFields /\ rt'.pc = "settle" /\ rt'.status = rt.status
        /\ rt'.task = rt.task /\ rt'.scope = rt.scope /\ rt'.passed = rt.passed
        /\ rt'.accepted = rt.accepted /\ rt'.error = rt.error /\ rt'.procs = rt.procs
        /\ rt'.cancel = rt.cancel /\ rt'.late = rt.late /\ rt'.lost = rt.lost
    BY <1>7 DEF RuntimeIInv, Locals, RtFields
  <2>2. /\ registry' \in [Tasks -> Slot] /\ OutputsBounded' /\ typed' \in [Tasks -> Contents]
        /\ registry'[t].state = "RUNNING" /\ \A u \in Tasks \ {t} : registry'[u] = registry[u]
    <3>1. CASE PublishFailureExit(t)
      BY <1>1, <3>1, PublishesExit
    <3>2. CASE UNCHANGED <<registryVars, typed>>
      BY <1>1, <3>2 DEF RuntimeIInv, Sound, registryVars, OutputsBounded
    <3> QED
      BY <1>7, <3>1, <3>2
  <2>3. Sound'
    BY <1>2, <1>3, <1>7, <2>2 DEF RuntimeIInv, Sound, StoreSize, Present
  <2>4. Locals'
    BY <1>1, <2>1 DEF RuntimeIInv, Locals, InTask, Ending, Statuses
  <2>5. Agree'
    BY <1>1, <1>2, <2>1, <2>2 DEF RuntimeIInv, Agree, Current, InTask
  <2>6. AtTask' /\ Reasons' /\ Fresh'
    BY <1>1, <1>2, <2>1, <2>2 DEF RuntimeIInv, AtTask, Reasons, Fresh, InTask, Ending
  <2>7. Authors'
    BY <1>1, <1>2, <1>4, <1>7, <2>1 DEF Authors, Published, Publishes, Ports, Processes, InTask
  <2> QED
    BY <2>3, <2>4, <2>5, <2>6, <2>7, AllTogether
<1> QED
  BY <1>5, <1>6, <1>7 DEF Publish

-----------------------------------------------------------------------------
(* The settlement of a task, and the two ends of the call.                    *)

\* dag_finish(false) after the stop() of an error: the task ends, and the first
\* terminal reason stays.
LEMMA FailsDag ==
    ASSUME RuntimeIInv, rt.pc = "settle", UNCHANGED <<graph, succeeded>>,
           dag' = FailedInDag(IF rt.error THEN DagStop(dag, "FAILED") ELSE dag, rt.task)
    PROVE  /\ DagInv' /\ dag'.phase[rt.task] \in {"FINISHED", "REFUSED"}
           /\ \A u \in Tasks \ {rt.task} : dag'.phase[u] = dag.phase[u]
           /\ dag.terminal # "CONTINUE" => dag'.terminal = dag.terminal
<1> DEFINE t == rt.task
<1>1. DagInv /\ dag \in DagRecord /\ dag.phase \in [Tasks -> Phase] /\ t \in Tasks
  BY DEF RuntimeIInv, Sound, DagInv, DagTypeOK, DagRecord, Locals, InTask
<1>2. /\ DagStop(dag, "FAILED").phase = dag.phase /\ DagStop(dag, "FAILED").remaining = dag.remaining
      /\ DagStop(dag, "FAILED").active = dag.active /\ DagStop(dag, "FAILED").completed = dag.completed
      /\ DagStop(dag, "FAILED").terminal = IF dag.terminal = "CONTINUE" THEN "FAILED" ELSE dag.terminal
  BY <1>1 DEF DagStop, DagRecord
<1>3. CASE dag.phase[t] = "RESERVED"
  <2>1. DagFinish(DagStop(dag, "FAILED"), graph, t, FALSE) = DagFinish(dag, graph, t, FALSE)
    BY <1>2 DEF DagFinish
  <2>2. dag' = DagFinish(dag, graph, t, FALSE)
    BY <1>2, <1>3, <2>1 DEF FailedInDag
  <2>3. Finish(t, FALSE)
    BY <1>3, <2>2 DEF Finish
  <2>4. DagInv'
    BY <1>1, <2>3, FinishInv
  <2>5. /\ dag'.phase = [dag.phase EXCEPT ![t] = "FINISHED"]
        /\ dag.terminal # "CONTINUE" => dag'.terminal = dag.terminal
    BY <2>2 DEF DagFinish
  <2> QED
    BY <1>1, <2>4, <2>5
<1>4. CASE dag.phase[t] = "REFUSED" /\ rt.error
  <2>1. dag' = DagStop(dag, "FAILED")
    BY <1>2, <1>4 DEF FailedInDag
  <2>2. Stop("FAILED") /\ "FAILED" \in StopReason
    BY <2>1 DEF Stop, StopReason
  <2>3. DagInv'
    BY <1>1, <2>2, StopInv
  <2> QED
    BY <1>2, <1>4, <2>1, <2>3
<1> QED
  BY <1>3, <1>4 DEF RuntimeIInv, AtTask, InTask

\* A task that passed is completed, in the registry and in the DAG.
LEMMA SettleSuccessKeeps ==
    ASSUME RuntimeIInv, rt.pc = "settle", rt.passed, ~rt.error, Complete(rt.task),
           dag' = DagFinish(dag, graph, rt.task, TRUE), succeeded' = succeeded \cup {rt.task},
           rt' = [rt EXCEPT !.status = StatusAfter(rt),
                            !.pc = IF StatusAfter(rt) = "OK" THEN "head" ELSE "marshal"],
           UNCHANGED <<graph, storeVars, workflow, typed>>
    PROVE  RuntimeIInv'
<1> DEFINE t == rt.task
<1>1. t \in Tasks /\ dag.phase[t] = "RESERVED" /\ rt.status = "OK" /\ rt.accepted
  BY DEF RuntimeIInv, Locals, AtTask, InTask
<1>2. StatusAfter(rt) = "OK"
  BY <1>1 DEF StatusAfter
<1>3. /\ DOMAIN rt' = RtFields /\ rt'.pc = "head" /\ rt'.status = rt.status /\ rt'.task = rt.task
      /\ rt'.scope = rt.scope /\ rt'.passed = rt.passed /\ rt'.accepted = rt.accepted
      /\ rt'.error = rt.error /\ rt'.procs = rt.procs /\ rt'.cancel = rt.cancel
      /\ rt'.late = rt.late /\ rt'.lost = rt.lost
  BY <1>1, <1>2 DEF RuntimeIInv, Locals, RtFields
<1>4. store' = store /\ workflow' = workflow /\ typed' = typed
  BY DEF storeVars
<1>5. DagInv'
  <2>1. Finish(t, TRUE)
    BY <1>1 DEF Finish
  <2> QED
    BY <1>1, <2>1, FinishInv DEF RuntimeIInv, Sound
<1>6. /\ registry' \in [Tasks -> Slot] /\ OutputsBounded'
      /\ registry'[t] = RegComplete(registry[t]) /\ \A u \in Tasks \ {t} : registry'[u] = registry[u]
  BY <1>1, SlotMoves DEF Complete, SlotStep
<1>7. Sound'
  BY <1>4, <1>5, <1>6 DEF RuntimeIInv, Sound, StoreSize, Present
<1>8. registry'[t].state = "SUCCESS"
  <2>1. registry[t] \in Slot
    BY <1>1 DEF RuntimeIInv, Sound
  <2> QED
    BY <1>6, <2>1 DEF RegComplete, Slot
<1>9. /\ dag'.phase[t] = "FINISHED" /\ \A u \in Tasks \ {t} : dag'.phase[u] = dag.phase[u]
      /\ dag'.terminal = dag.terminal
  <2>1. dag.phase \in [Tasks -> Phase]
    BY DEF RuntimeIInv, Sound, DagInv, DagTypeOK, DagRecord
  <2> QED
    BY <1>1, <2>1 DEF DagFinish
<1>10. t \notin succeeded /\ t \notin rt.lost
  BY DEF RuntimeIInv, AtTask, InTask
<1>11. Locals'
  BY <1>1, <1>3 DEF RuntimeIInv, Locals, InTask, Ending, Statuses
<1>12. Agree'
  <2>1. ASSUME NEW u \in Tasks \ {t}
        PROVE  /\ dag'.phase[u] # "RESERVED"
               /\ registry'[u].state = "PENDING" <=> dag'.phase[u] = "PENDING"
               /\ registry'[u].state = "SUCCESS" <=> u \in succeeded'
               /\ registry'[u].state = "RUNNING" <=> u \in rt'.lost
    <3>1. /\ dag.phase[u] # "RESERVED"
          /\ registry[u].state = "PENDING" <=> dag.phase[u] = "PENDING"
          /\ registry[u].state = "SUCCESS" <=> u \in succeeded
          /\ registry[u].state = "RUNNING" <=> u \in rt.lost
      BY DEF RuntimeIInv, Agree, Current, InTask
    <3> QED
      BY <1>3, <1>6, <1>9, <3>1
  <2> QED
    BY <1>3, <1>8, <1>9, <1>10, <2>1 DEF Agree
<1>13. AtTask' /\ Reasons' /\ Fresh'
  BY <1>1, <1>3, <1>9 DEF RuntimeIInv, AtTask, Reasons, Fresh, InTask, Ending
<1>14. Authors'
  BY <1>1, <1>3, <1>4 DEF RuntimeIInv, Authors, Published, Publishes, Ports, Processes, InTask
<1> QED
  BY <1>7, <1>11, <1>12, <1>13, <1>14, AllTogether

\* A task that failed is finished in the DAG, and failed in the registry or lost.
LEMMA SettleFailureKeeps ==
    ASSUME RuntimeIInv, rt.pc = "settle", ~rt.passed \/ rt.error,
           dag' = FailedInDag(IF rt.error THEN DagStop(dag, "FAILED") ELSE dag, rt.task),
           NEW lost,
           \/ Fail(rt.task) /\ lost = rt.lost
           \/ UNCHANGED registryVars /\ lost = rt.lost \cup {rt.task},
           DOMAIN rt' = RtFields, \A f \in RtFields \ {"status", "pc", "lost"} : rt'[f] = rt[f],
           rt'.status = StatusAfter(rt), rt'.lost = lost,
           rt'.pc = IF StatusAfter(rt) = "OK" THEN "head" ELSE "marshal",
           UNCHANGED <<graph, succeeded, storeVars, workflow, typed>>
    PROVE  RuntimeIInv'
<1> DEFINE t == rt.task
           status == StatusAfter(rt)
<1>1. /\ t \in Tasks /\ t \notin succeeded /\ t \notin rt.lost
      /\ registry[t].state = "RUNNING" /\ rt.lost \subseteq Tasks
  BY DEF RuntimeIInv, Locals, AtTask, InTask
<1>2. /\ status # "OK" /\ status \in Statuses
      /\ status \in {"CANCELLED", "DEADLINE"} => status = rt.status
  BY DEF StatusAfter, RuntimeIInv, Locals, Statuses
<1> HIDE DEF status
<1>3. /\ DOMAIN rt' = RtFields /\ rt'.pc = "marshal" /\ rt'.status = status /\ rt'.task = rt.task
      /\ rt'.scope = rt.scope /\ rt'.passed = rt.passed /\ rt'.accepted = rt.accepted
      /\ rt'.error = rt.error /\ rt'.procs = rt.procs /\ rt'.cancel = rt.cancel
      /\ rt'.late = rt.late /\ rt'.lost = lost
  BY <1>2 DEF RtFields, status
<1>4. store' = store /\ workflow' = workflow /\ typed' = typed /\ succeeded' = succeeded
  BY DEF storeVars
<1>5. /\ DagInv' /\ dag'.phase[t] \in {"FINISHED", "REFUSED"}
      /\ \A u \in Tasks \ {t} : dag'.phase[u] = dag.phase[u]
      /\ dag.terminal # "CONTINUE" => dag'.terminal = dag.terminal
  BY FailsDag
<1>6. /\ registry' \in [Tasks -> Slot] /\ OutputsBounded' /\ \A u \in Tasks \ {t} : registry'[u] = registry[u]
      /\ \/ registry'[t].state = "FAILED" /\ lost = rt.lost
         \/ registry'[t].state = "RUNNING" /\ lost = rt.lost \cup {t}
  <2>1. CASE Fail(t) /\ lost = rt.lost
    <3>1. /\ registry' \in [Tasks -> Slot] /\ OutputsBounded'
          /\ registry'[t] = RegFail(registry[t]) /\ \A u \in Tasks \ {t} : registry'[u] = registry[u]
      BY <1>1, <2>1, SlotMoves DEF Fail, SlotStep
    <3>2. registry[t] \in Slot
      BY <1>1 DEF RuntimeIInv, Sound
    <3> QED
      BY <2>1, <3>1, <3>2 DEF RegFail, Slot
  <2>2. CASE UNCHANGED registryVars /\ lost = rt.lost \cup {t}
    BY <1>1, <2>2 DEF RuntimeIInv, Sound, registryVars, OutputsBounded
  <2> QED
    BY <2>1, <2>2
<1>7. Sound'
  BY <1>4, <1>5, <1>6 DEF RuntimeIInv, Sound, StoreSize, Present
<1>8. Locals'
  BY <1>1, <1>2, <1>3, <1>6 DEF RuntimeIInv, Locals, InTask, Ending, Statuses
<1>9. Agree'
  <2>1. ASSUME NEW u \in Tasks \ {t}
        PROVE  /\ dag'.phase[u] # "RESERVED"
               /\ registry'[u].state = "PENDING" <=> dag'.phase[u] = "PENDING"
               /\ registry'[u].state = "SUCCESS" <=> u \in succeeded'
               /\ registry'[u].state = "RUNNING" <=> u \in rt'.lost
    <3>1. u \in Tasks \ Current
      BY DEF Current
    <3>2. /\ dag.phase[u] # "RESERVED"
          /\ registry[u].state = "PENDING" <=> dag.phase[u] = "PENDING"
          /\ registry[u].state = "SUCCESS" <=> u \in succeeded
          /\ registry[u].state = "RUNNING" <=> u \in rt.lost
      BY <3>1 DEF RuntimeIInv, Agree
    <3>3. /\ dag'.phase[u] = dag.phase[u] /\ registry'[u] = registry[u] /\ succeeded' = succeeded
          /\ u \in rt'.lost <=> u \in rt.lost
      BY <1>3, <1>4, <1>5, <1>6
    <3> QED
      BY <3>2, <3>3
  <2>2. /\ dag'.phase[t] \notin {"RESERVED", "PENDING"} /\ registry'[t].state \notin {"PENDING", "SUCCESS"}
        /\ t \notin succeeded' /\ (registry'[t].state = "RUNNING" <=> t \in rt'.lost)
    BY <1>1, <1>3, <1>4, <1>5, <1>6
  <2> QED
    BY <2>1, <2>2 DEF Agree
<1>10. AtTask' /\ Reasons' /\ Fresh'
  BY <1>1, <1>2, <1>3, <1>5 DEF RuntimeIInv, AtTask, Reasons, Fresh, InTask, Ending
<1>11. Authors'
  <2>1. ~Published /\ ~Published'
    BY <1>3 DEF Published, Publishes
  <2> QED
    BY <1>3, <1>4, <2>1, AuthorsStay DEF InTask
<1> QED
  BY <1>7, <1>8, <1>9, <1>10, <1>11, AllTogether

\* The end of one turn of the loop.
LEMMA SettleTaskKeeps ==
    ASSUME RuntimeIInv, SettleTask
    PROVE  RuntimeIInv'
<1> DEFINE status == StatusAfter(rt)
           next == [rt EXCEPT !.status = status, !.pc = IF status = "OK" THEN "head" ELSE "marshal"]
           failed == /\ ~rt.passed \/ rt.error
                     /\ dag' = FailedInDag(IF rt.error THEN DagStop(dag, "FAILED") ELSE dag, rt.task)
                     /\ UNCHANGED <<graph, succeeded, storeVars, workflow, typed>>
<1>1. rt.pc = "settle" /\ DOMAIN rt = RtFields
  BY DEF SettleTask, RuntimeIInv, Locals
<1>2. CASE /\ rt.passed /\ ~rt.error /\ Complete(rt.task) /\ dag' = DagFinish(dag, graph, rt.task, TRUE)
           /\ succeeded' = succeeded \cup {rt.task} /\ rt' = next
  BY <1>1, <1>2, SettleSuccessKeeps DEF SettleTask
<1>3. CASE failed /\ Fail(rt.task) /\ rt' = next
  <2>1. /\ DOMAIN rt' = RtFields /\ \A f \in RtFields \ {"status", "pc", "lost"} : rt'[f] = rt[f]
        /\ rt'.status = status /\ rt'.lost = rt.lost /\ rt'.pc = IF status = "OK" THEN "head" ELSE "marshal"
    BY <1>1, <1>3 DEF RtFields
  <2> QED
    BY <1>1, <1>3, <2>1, SettleFailureKeeps
<1>4. CASE failed /\ UNCHANGED registryVars /\ rt' = [next EXCEPT !.lost = rt.lost \cup {rt.task}]
  <2>1. /\ DOMAIN rt' = RtFields /\ \A f \in RtFields \ {"status", "pc", "lost"} : rt'[f] = rt[f]
        /\ rt'.status = status /\ rt'.lost = rt.lost \cup {rt.task}
        /\ rt'.pc = IF status = "OK" THEN "head" ELSE "marshal"
    BY <1>1, <1>4 DEF RtFields
  <2> QED
    BY <1>1, <1>4, <2>1, SettleFailureKeeps
<1> QED
  BY <1>2, <1>3, <1>4 DEF SettleTask

\* An admitted workflow starts with a fresh DAG over its graph and with its
\* variables.
LEMMA StartupKeeps ==
    ASSUME RuntimeIInv, Startup
    PROVE  RuntimeIInv'
<1> DEFINE g == EdgesOf(workflow.doc)
           K == workflow.variables
           seeded == Seeded(EmptyStore, K, Count)
<1>1. rt.pc = "start" /\ rt' = [rt EXCEPT !.pc = "head", !.status = "OK"]
  BY DEF Startup
<1>2. /\ DOMAIN rt' = RtFields /\ rt'.pc = "head" /\ rt'.status = "OK" /\ rt'.task = rt.task
      /\ rt'.scope = rt.scope /\ rt'.passed = rt.passed /\ rt'.accepted = rt.accepted
      /\ rt'.error = rt.error /\ rt'.procs = rt.procs /\ rt'.cancel = rt.cancel
      /\ rt'.late = rt.late /\ rt'.lost = rt.lost
  BY <1>1 DEF RuntimeIInv, Locals, RtFields
<1>3. /\ graph' = g /\ dag' = DagCreate(g) /\ store' = seeded
      /\ succeeded' = succeeded /\ registry' = registry /\ workflow' = workflow /\ typed' = typed
  BY DEF Startup, registryVars
<1>4. workflow \in Workflows /\ Admitted(workflow.doc) /\ SeedFits(EmptyStore, K)
  BY DEF Startup, StartupStatus, RuntimeIInv, Sound
<1>5. succeeded = {} /\ rt.lost = {} /\ registry = RegCreate
  BY <1>1 DEF RuntimeIInv, Fresh
<1>6. DagInv'
  <2>1. g \in Graphs
    BY <1>4, RuntimeAssumption
  <2> HIDE DEF g
  <2>2. DagInit'
    BY <1>3, <1>5, <2>1 DEF DagInit
  <2>3. DagInit' => DagInv'
    BY InitInv, PTL
  <2> QED
    BY <2>2, <2>3
<1>7. /\ seeded \in Contents /\ StoreSize(seeded) <= Capacity
      /\ \A k \in Present(seeded) : seeded[k] = Count
  <2>1. EmptyStore \in Contents /\ \A k \in Keys : EmptyStore[k] = Absent
    BY DEF EmptyStore, Contents
  <2>2. K \in SUBSET Keys
    BY <1>4, RuntimeAssumption DEF Workflow
  <2>3. Count \in Values /\ SeedFits(EmptyStore, K)
    BY <1>4, AuthorsAreValues
  <2> HIDE DEF K
  <2>4. /\ seeded \in Contents /\ StoreSize(seeded) <= Capacity
        /\ \A k \in Keys : seeded[k] \in {Count, Absent}
    BY <2>1, <2>2, <2>3, SeededKeeps
  <2> QED
    BY <2>4 DEF Present
<1> HIDE DEF seeded
<1>8. Sound'
  BY <1>3, <1>6, <1>7 DEF RuntimeIInv, Sound, OutputsBounded, StoreSize, Present
<1>9. Locals'
  BY <1>1, <1>2 DEF RuntimeIInv, Locals, InTask, Ending, Statuses
<1>10. /\ dag'.terminal = "CONTINUE"
       /\ \A t \in Tasks : dag'.phase[t] = "PENDING" /\ registry'[t].state = "PENDING"
  BY <1>3, <1>5 DEF DagCreate, RegCreate
<1>11. Agree'
  BY <1>2, <1>3, <1>5, <1>10 DEF Agree
<1>12. AtTask' /\ Reasons' /\ Fresh'
  BY <1>2, <1>3, <1>10 DEF AtTask, Reasons, Fresh, InTask, Ending
<1>13. Authors'
  BY <1>2, <1>3, <1>5, <1>7 DEF Authors, Published, InTask
<1> QED
  BY <1>8, <1>9, <1>11, <1>12, <1>13, AllTogether

\* Before the call has done anything, nothing is claimed, stored or published.
LEMMA RuntimeStarts == RuntimeInit => RuntimeIInv
<1> SUFFICES ASSUME RuntimeInit PROVE RuntimeIInv
  OBVIOUS
<1>1. /\ rt.pc = "start" /\ rt.status = "INVALID" /\ rt.scope = EmptyStore /\ rt.lost = {} /\ rt.procs = 0
      /\ rt.passed = FALSE /\ rt.accepted = FALSE /\ rt.error = FALSE /\ DOMAIN rt = RtFields
  BY DEF RuntimeInit, RtFields
<1>2. /\ dag = DagCreate(graph) /\ graph \in Graphs /\ succeeded = {} /\ registry = RegCreate
      /\ store = EmptyStore /\ workflow \in Workflows /\ typed = [t \in Tasks |-> EmptyStore]
      /\ groups = [h \in Groups |-> NoGroup]
  BY RuntimeAssumption DEF RuntimeInit
<1>3. DagInv
  BY <1>2, InitInv DEF DagInit
<1>4. registry \in [Tasks -> Slot] /\ OutputsBounded
  BY <1>2, RegistryInitInv DEF RegistryInit, RegistryInv, RegistryTypeOK
<1>5. EmptyStore \in Contents /\ StoreSize(EmptyStore) <= Capacity /\ Present(EmptyStore) = {}
  BY NoTxnWell DEF EmptyStore, Present
<1>6. Sound
  BY <1>2, <1>3, <1>4, <1>5 DEF Sound
<1>7. Locals
  BY <1>1, <1>5 DEF Locals, InTask, Ending, Statuses
<1>8. /\ dag.terminal = "CONTINUE"
      /\ \A t \in Tasks : dag.phase[t] = "PENDING" /\ registry[t].state = "PENDING"
  BY <1>2 DEF DagCreate, RegCreate
<1>9. Agree
  BY <1>1, <1>2, <1>8 DEF Agree
<1>10. AtTask /\ Reasons /\ Fresh
  BY <1>1, <1>2 DEF AtTask, Reasons, Fresh, InTask, Ending
<1>11. Authors
  BY <1>1, <1>2, <1>5 DEF Authors, Published, InTask
<1> QED
  BY <1>6, <1>7, <1>9, <1>10, <1>11 DEF RuntimeIInv

\* Every step of the call keeps the invariant.
LEMMA RuntimeStepKeeps ==
    ASSUME RuntimeIInv, [RuntimeNext]_runtimeVars
    PROVE  RuntimeIInv'
<1>1. CASE UNCHANGED runtimeVars
  <2>1. rt' = rt /\ UNCHANGED <<dagVars, registryVars, storeVars, workflow, typed>>
    BY <1>1 DEF runtimeVars
  <2>2. /\ Sound' /\ dag' = dag /\ graph' = graph /\ succeeded' = succeeded /\ registry' = registry
        /\ store' = store /\ workflow' = workflow /\ typed' = typed
    BY <2>1, Untouched
  <2>3. Locals' /\ AtTask' /\ Reasons' /\ Fresh'
    BY <2>1, <2>2 DEF RuntimeIInv, Locals, AtTask, Reasons, Fresh
  <2>4. Agree'
    <3>1. Current' = Current
      BY <2>1 DEF Current
    <3> QED
      BY <2>1, <2>2, <3>1, AgreeElsewhere
  <2>5. Authors'
    <3>1. Published' <=> Published
      BY <2>1 DEF Published, Publishes
    <3> QED
      BY <2>1, <2>2, <3>1, AuthorsStay
  <2> QED
    BY <2>2, <2>3, <2>4, <2>5, AllTogether
<1>2. CASE OwnerStep
  BY <1>2, StartupRefusedKeeps, StartupKeeps, HeadHaltsKeeps, HeadBreaksKeeps, HeadClaimsKeeps,
     BeginTaskKeeps, AdmitTaskKeeps, CallbackHaltsKeeps, TeardownKeeps, PublishKeeps, SettleTaskKeeps,
     EndingKeeps DEF OwnerStep
<1>3. CASE ActionStep
  BY <1>3, TickRunningKeeps, TickEndsKeeps, ExecutorFailsKeeps DEF ActionStep
<1>4. CASE AskCancel \/ DeadlinePasses
  BY <1>4, MarkKeeps
<1> QED
  BY <1>1, <1>2, <1>3, <1>4 DEF RuntimeNext

\* What the invariant says of a call between two tasks and at its end.
LEMMA RuntimePromises == RuntimeIInv => RuntimeInv /\ TextFollowsSuccess
<1> SUFFICES ASSUME RuntimeIInv PROVE RuntimeInv /\ TextFollowsSuccess
  OBVIOUS
<1>1. RuntimeTypeOK
  BY DEF RuntimeIInv, Sound, DagInv, DagTypeOK, Locals, Statuses, RuntimeTypeOK
<1>2. NothingOutstanding
  <2> SUFFICES ASSUME BetweenTasks
               PROVE  /\ rt.procs = 0 /\ dag.active = 0
                      /\ \A t \in Tasks :
                            /\ registry[t].state = "PENDING" <=> dag.phase[t] = "PENDING"
                            /\ registry[t].state = "SUCCESS" <=> t \in succeeded
                            /\ registry[t].state = "RUNNING" <=> t \in rt.lost
                      /\ rt.status \in {"CANCELLED", "DEADLINE"} => dag.terminal = rt.status
    BY DEF NothingOutstanding
  <2>1. rt.procs = 0 /\ Current = {}
    BY DEF BetweenTasks, RuntimeIInv, Locals, Current, InTask
  <2>2. InPhase(dag, "RESERVED") = {}
    BY <2>1 DEF RuntimeIInv, Agree, InPhase
  <2>3. dag.active = 0
    BY <2>2, FS_EmptySet DEF RuntimeIInv, Sound, DagInv, CountersExact
  <2> QED
    BY <2>1, <2>3 DEF RuntimeIInv, Agree, Reasons
<1>3. OkMeansAllSucceeded
  <2> SUFFICES ASSUME rt.pc = "done", rt.status = "OK"
               PROVE  (\A t \in Tasks : registry[t].state = "SUCCESS") /\ DagAllSucceeded(dag)
    BY DEF OkMeansAllSucceeded
  <2>1. DagAllSucceeded(dag)
    BY DEF RuntimeIInv, Reasons, Ending
  <2>2. succeeded = Tasks
    BY <2>1, CompleteMeansSucceeded DEF RuntimeIInv, Sound, AllSucceededSound
  <2>3. \A t \in Tasks : registry[t].state = "SUCCESS"
    BY <2>2 DEF RuntimeIInv, Agree, Current, InTask
  <2> QED
    BY <2>1, <2>3
<1>4. ASSUME BetweenTasks, NEW k \in Present(store)
      PROVE  store[k] = Count \/ registry[store[k]].state = "SUCCESS"
  <2>1. store[k] \in {Count} \cup succeeded
    BY <1>4 DEF RuntimeIInv, Authors, Published, BetweenTasks
  <2>2. \A t \in Tasks : t \in succeeded => registry[t].state = "SUCCESS"
    BY <1>4 DEF RuntimeIInv, Agree, Current, BetweenTasks, InTask
  <2>3. succeeded \subseteq Tasks
    BY DEF RuntimeIInv, Sound, DagInv, DagTypeOK
  <2> QED
    BY <2>1, <2>2, <2>3
<1>5. ASSUME rt.pc \in {"admit", "running"}, NEW t \in Tasks, registry[t].state = "SUCCESS"
      PROVE  Ports(t) \subseteq Present(rt.scope)
  <2>1. t # rt.task
    BY <1>5 DEF RuntimeIInv, AtTask, InTask
  <2>2. t \in succeeded
    BY <1>5, <2>1 DEF RuntimeIInv, Agree, Current, InTask
  <2> QED
    BY <1>5, <2>2 DEF RuntimeIInv, Authors
<1> QED
  BY <1>1, <1>2, <1>3, <1>4, <1>5 DEF RuntimeInv, TextFollowsSuccess

\* For every workflow, all failures, cancellations and deadlines at any moment
\* (praktor_runtime_execute_yaml()): between two tasks nothing is outstanding and
\* DAG and registry agree, and the call returns OK only if every task succeeded.
THEOREM RuntimeInvariant == RuntimeSpec => []RuntimeInv
<1>1. RuntimeIInv /\ [RuntimeNext]_runtimeVars => RuntimeIInv'
  BY RuntimeStepKeeps
<1>2. RuntimeIInv => RuntimeInv
  BY RuntimePromises
<1> QED
  BY <1>1, <1>2, RuntimeStarts, PTL DEF RuntimeSpec

\* The root text is what the workflow and its successful tasks wrote, and a task
\* that starts sees all of it (publish_success(), prepare_task_text_outputs()).
THEOREM TextAlwaysFollowsSuccess == RuntimeSpec => []TextFollowsSuccess
<1>1. RuntimeIInv /\ [RuntimeNext]_runtimeVars => RuntimeIInv'
  BY RuntimeStepKeeps
<1>2. RuntimeIInv => TextFollowsSuccess
  BY RuntimePromises
<1> QED
  BY <1>1, <1>2, RuntimeStarts, PTL DEF RuntimeSpec

\* The scheduling loop of the call keeps the promises of the DAG, which the
\* component makes to every owner (workflow_dag_state.c under runtime.c).
THEOREM RuntimeSchedules == RuntimeSpec => []DagInv
<1>1. RuntimeIInv /\ [RuntimeNext]_runtimeVars => RuntimeIInv'
  BY RuntimeStepKeeps
<1>2. RuntimeIInv => DagInv
  BY DEF RuntimeIInv, Sound
<1> QED
  BY <1>1, <1>2, RuntimeStarts, PTL DEF RuntimeSpec
=============================================================================
