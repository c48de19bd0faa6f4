------------------------- MODULE RuntimeLoop_proofs -------------------------
(* The inductive invariant of praktor_runtime_execute_yaml() and the steps of *)
(* its loop that change the locals of the call or the DAG, for every number   *)
(* of tasks, all documents and actions and every capacity of text.            *)
EXTENDS Runtime, DagState_proofs, Stores_proofs

-----------------------------------------------------------------------------
(* The inductive invariant.                                                   *)

RtFields == {"pc", "status", "task", "scope", "passed", "accepted", "error", "procs", "cancel", "late", "lost"}

InTask == {"begin", "admit", "running", "teardown", "publish", "settle"}
Ending == {"marshal", "exit", "done"}
Statuses == {"OK", "FAILED", "CANCELLED", "DEADLINE", "UNSUPPORTED", "INVALID", "RESOURCE"}

\* What the call keeps of the workflow, the DAG, the registry and the texts is
\* well formed, each by the invariant of its own component.
Sound ==
    /\ DagInv /\ workflow \in Workflows
    /\ registry \in [Tasks -> Slot] /\ OutputsBounded
    /\ store \in Contents /\ StoreSize(store) <= Capacity /\ typed \in [Tasks -> Contents]

\* The locals of the call.
Locals ==
    /\ DOMAIN rt = RtFields
    /\ rt.pc \in InTask \cup Ending \cup {"start", "head", "aborted"}
    /\ rt.status \in Statuses /\ rt.scope \in Contents /\ rt.lost \subseteq Tasks
    /\ rt.passed \in BOOLEAN /\ rt.accepted \in BOOLEAN /\ rt.error \in BOOLEAN
    /\ rt.pc \in InTask \cup {"aborted"} => rt.task \in Tasks
    /\ rt.pc \notin InTask \cup {"aborted"} => rt.procs = 0
    /\ rt.pc \in {"publish", "settle"} => rt.procs = 0

\* The task the loop is at, if it is at one.
Current == IF rt.pc \in InTask \cup {"aborted"} THEN {rt.task} ELSE {}

\* DAG and registry tell the same story of every task but the current one.
Agree ==
    \A t \in Tasks \ Current :
        /\ dag.phase[t] # "RESERVED"
        /\ registry[t].state = "PENDING" <=> dag.phase[t] = "PENDING"
        /\ registry[t].state = "SUCCESS" <=> t \in succeeded
        /\ registry[t].state = "RUNNING" <=> t \in rt.lost

\* The current task: claimed and open in the registry, its claim given up by a
\* refusal only, which is an error.
AtTask ==
    rt.pc \in InTask =>
        /\ rt.task \notin succeeded /\ rt.task \notin rt.lost
        /\ registry[rt.task].state = IF rt.pc = "begin" THEN "PENDING" ELSE "RUNNING"
        /\ dag.phase[rt.task] = "RESERVED" \/ (dag.phase[rt.task] = "REFUSED" /\ rt.error /\ ~rt.accepted)
        /\ rt.pc \in {"begin", "admit", "running"} => ~rt.error /\ ~rt.passed /\ rt.status = "OK"
        /\ rt.pc \in {"begin", "admit"} => ~rt.accepted
        /\ rt.pc = "running" => rt.accepted
        /\ rt.passed => rt.accepted /\ rt.status = "OK"

\* The status of the call and the terminal reason of the DAG.
Reasons ==
    /\ rt.pc = "head" => rt.status = "OK"
    /\ rt.pc \in InTask /\ rt.status = "OK" /\ ~rt.error => dag.terminal = "CONTINUE"
    /\ rt.pc = "head" => dag.terminal = "CONTINUE"
    /\ rt.status \in {"CANCELLED", "DEADLINE"} => dag.terminal = rt.status
    /\ rt.pc \in Ending /\ rt.status = "OK" => DagAllSucceeded(dag)

\* Nothing has happened before the workflow is admitted.
Fresh ==
    rt.pc = "start" =>
        succeeded = {} /\ rt.lost = {} /\ registry = RegCreate /\ rt.status = "INVALID"

\* The current task has published its outputs.
Published == rt.pc = "settle" /\ Publishes(rt)

\* The authors of the root text, and of the scope of the current task.
Authors ==
    LET done == succeeded \cup (IF Published THEN {rt.task} ELSE {}) IN
    /\ \A k \in Present(store) : store[k] \in {Count} \cup done
    /\ \A t \in done : Ports(t) \subseteq Present(store)
    /\ rt.pc \in InTask => \A k \in Present(rt.scope) : rt.scope[k] \in {Count, rt.task} \cup succeeded
    /\ rt.pc \in {"admit", "running"} => \A t \in succeeded : Ports(t) \subseteq Present(rt.scope)

RuntimeIInv == Sound /\ Locals /\ Agree /\ AtTask /\ Reasons /\ Fresh /\ Authors

-----------------------------------------------------------------------------
(* Texts.                                                                     *)

\* The ports and keys of a task are keys of the store, and its kind is known.
LEMMA PortsAreKeys ==
    ASSUME workflow \in Workflows, NEW t \in Tasks
    PROVE  /\ workflow.key[t] \in Keys /\ workflow.vars[t] \subseteq Keys /\ workflow.variables \subseteq Keys
           /\ Ports(t) \subseteq Keys /\ Ports(t) # {}
           /\ Processes(t) \in BOOLEAN
<1>1. workflow \in Workflow
  BY RuntimeAssumption
<1>2. workflow.key[t] \in Keys /\ workflow.vars[t] \subseteq Keys /\ workflow.variables \subseteq Keys
  BY <1>1 DEF Workflow
<1>3. Processes(t) \in BOOLEAN
  BY DEF Processes
<1>4. Ports(t) = {"shell_exit_code", "shell_output"} \/ Ports(t) = {workflow.key[t]}
  BY DEF Ports
<1> QED
  BY <1>2, <1>3, <1>4, RuntimeAssumption

\* A task, and the workflow itself, is the author of a text.
LEMMA AuthorsAreValues ==
    Tasks \subseteq Values /\ Count \in Values /\ Count \notin Tasks /\ Absent \notin Values
BY RuntimeAssumption, GraphAssumption, StoreAssumption DEF Tasks

\* One set() of publish_process() leaves a well-formed scope, and in it a text of
\* the task or what was there.
LEMMA SetTextKeeps ==
    ASSUME NEW r, DOMAIN r = {"scope", "ok"}, r.scope \in Contents, r.ok \in BOOLEAN,
           NEW k \in Keys, NEW t \in Tasks, NEW x, x = SetText(r, k, t)
    PROVE  /\ DOMAIN x = {"scope", "ok"} /\ x.scope \in Contents /\ x.ok \in BOOLEAN
           /\ \A j \in Keys : x.scope[j] \in {r.scope[j], t}
<1>1. CASE r.ok /\ CanSet(r.scope, k)
  <2>1. x = [scope |-> [r.scope EXCEPT ![k] = t], ok |-> TRUE]
    BY <1>1 DEF SetText
  <2> QED
    BY <2>1, AuthorsAreValues DEF Contents
<1>2. CASE ~(r.ok /\ CanSet(r.scope, k))
  <2>1. x = [r EXCEPT !.ok = FALSE]
    BY <1>2 DEF SetText
  <2> QED
    BY <2>1
<1> QED
  BY <1>1, <1>2

\* publish_process() changes texts of its task only.
LEMMA TextStoredKeeps ==
    ASSUME workflow \in Workflows, NEW t \in Tasks, NEW scope \in Contents
    PROVE  /\ TextStored(scope, t).scope \in Contents /\ TextStored(scope, t).ok \in BOOLEAN
           /\ \A k \in Keys : TextStored(scope, t).scope[k] \in {scope[k], t}
<1> DEFINE keys == Written(t)
           zero == [scope |-> scope, ok |-> TRUE]
           first == SetText(zero, keys[1], t)
           second == SetText(first, keys[2], t)
<1>1. keys[1] \in Keys /\ (Len(keys) # 1 => keys[2] \in Keys)
  BY PortsAreKeys, RuntimeAssumption DEF Written
<1>2. DOMAIN zero = {"scope", "ok"} /\ zero.scope = scope /\ zero.scope \in Contents /\ zero.ok \in BOOLEAN
  OBVIOUS
<1>3. TextStored(scope, t) = IF Len(keys) = 1 THEN first ELSE second
  BY DEF TextStored
<1>4. first = SetText(zero, keys[1], t) /\ second = SetText(first, keys[2], t)
  OBVIOUS
<1> HIDE DEF keys, zero, first, second
<1>5. /\ DOMAIN first = {"scope", "ok"} /\ first.scope \in Contents /\ first.ok \in BOOLEAN
      /\ \A j \in Keys : first.scope[j] \in {scope[j], t}
  <2>1. \A j \in Keys : first.scope[j] \in {zero.scope[j], t}
    BY <1>1, <1>2, <1>4, SetTextKeeps
  <2>2. DOMAIN first = {"scope", "ok"} /\ first.scope \in Contents /\ first.ok \in BOOLEAN
    BY <1>1, <1>2, <1>4, SetTextKeeps
  <2> QED
    BY <1>2, <2>1, <2>2
<1>6. Len(keys) # 1 => /\ second.scope \in Contents /\ second.ok \in BOOLEAN
                       /\ \A j \in Keys : second.scope[j] \in {first.scope[j], t}
  BY <1>1, <1>4, <1>5, SetTextKeeps
<1> QED
  BY <1>3, <1>5, <1>6

\* set_many() of variables of one author.
LEMMA SeededKeeps ==
    ASSUME NEW s \in Contents, NEW K \in SUBSET Keys, NEW v \in Values
    PROVE  /\ Seeded(s, K, v) \in Contents
           /\ Present(Seeded(s, K, v)) = K \cup Present(s)
           /\ \A k \in Keys : Seeded(s, K, v)[k] \in {v, s[k]}
           /\ SeedFits(s, K) => StoreSize(Seeded(s, K, v)) <= Capacity
<1>1. /\ Seeded(s, K, v) \in Contents
      /\ Present(Seeded(s, K, v)) = K \cup Present(s)
      /\ \A k \in Keys : Seeded(s, K, v)[k] \in {v, s[k]}
  BY StoreAssumption DEF Seeded, Contents, Present
<1> QED
  BY <1>1 DEF SeedFits, StoreSize

\* What publish_success() commits: the ports of the task from its scope, and all
\* else as it was.
LEMMA PublishedText ==
    ASSUME workflow \in Workflows, NEW t \in Tasks, store \in Contents, rt.scope \in Contents,
           CanStageText(t), NEW s, s = GroupResult(store, Only(t, StagedText(t)), {t})
    PROVE  /\ s = [k \in Keys |-> IF k \in Ports(t) THEN rt.scope[k] ELSE store[k]]
           /\ s \in Contents /\ StoreSize(s) <= Capacity
           /\ Present(s) = Ports(t) \cup Present(store)
<1> DEFINE x == StagedText(t)
           T == Only(t, x)
<1>1. T[t] = x
  BY DEF Only
<1>2. Touched(x) = Ports(t) /\ x.working = [k \in Keys |-> IF k \in Ports(t) THEN rt.scope[k] ELSE store[k]]
  <2>1. /\ x.ops = IF Processes(t) THEN <<"shell_exit_code", "shell_output">> ELSE <<workflow.key[t]>>
        /\ x.working = [k \in Keys |-> IF k \in Ports(t) THEN rt.scope[k] ELSE store[k]]
    BY DEF StagedText, TxnBegin
  <2>2. CASE Processes(t)
    <3>1. x.ops = <<"shell_exit_code", "shell_output">>
      BY <2>1, <2>2
    <3>2. Len(x.ops) = 2 /\ x.ops[1] = "shell_exit_code" /\ x.ops[2] = "shell_output"
      BY <3>1
    <3>3. Touched(x) = {x.ops[1], x.ops[2]}
      BY <3>2 DEF Touched
    <3> QED
      BY <2>1, <2>2, <3>2, <3>3 DEF Ports
  <2>3. CASE ~Processes(t)
    <3>1. x.ops = <<workflow.key[t]>>
      BY <2>1, <2>3
    <3>2. Len(x.ops) = 1 /\ x.ops[1] = workflow.key[t]
      BY <3>1
    <3>3. Touched(x) = {x.ops[1]}
      BY <3>2 DEF Touched
    <3> QED
      BY <2>1, <2>3, <3>2, <3>3 DEF Ports
  <2> QED
    BY <2>2, <2>3
<1> HIDE DEF x
<1>3. Ports(t) \subseteq Keys /\ \A k \in Ports(t) : x.working[k] = rt.scope[k] /\ rt.scope[k] # Absent
  BY <1>2, PortsAreKeys DEF CanStageText, Present
<1> HIDE DEF T
<1>4. \A k \in Keys : GroupWriters(T, {t}, k) = IF k \in Ports(t) THEN {t} ELSE {}
  BY <1>1, <1>2, <1>3 DEF GroupWriters
<1>5. GroupWrites(T, {t}) = Ports(t)
  BY <1>3, <1>4 DEF GroupWrites
<1>6. \A k \in Keys \ Ports(t) : GroupErased(store, T, {t})[k] = store[k]
  BY <1>1, <1>2 DEF GroupErased
<1>7. \A k \in Ports(t) : (CHOOSE y \in GroupWriters(T, {t}, k) : TRUE) = t
  BY <1>3, <1>4
<1>8. s = [k \in Keys |-> IF k \in GroupWrites(T, {t})
                          THEN T[CHOOSE y \in GroupWriters(T, {t}, k) : TRUE].working[k]
                          ELSE GroupErased(store, T, {t})[k]]
  BY DEF GroupResult, T, x
<1>9. s = [k \in Keys |-> IF k \in Ports(t) THEN rt.scope[k] ELSE store[k]]
  <2>1. ASSUME NEW k \in Keys PROVE s[k] = IF k \in Ports(t) THEN rt.scope[k] ELSE store[k]
    <3>1. CASE k \in Ports(t)
      BY <1>1, <1>3, <1>5, <1>7, <1>8, <3>1
    <3>2. CASE k \notin Ports(t)
      BY <1>5, <1>6, <1>8, <3>2
    <3> QED
      BY <3>1, <3>2
  <2> QED
    BY <1>8, <2>1
<1>10. s \in Contents
  BY <1>9 DEF Contents
<1>11. Present(s) = Ports(t) \cup Present(store)
  BY <1>3, <1>9 DEF Present
<1> QED
  BY <1>9, <1>10, <1>11 DEF CanStageText, StoreSize

-----------------------------------------------------------------------------
(* Steps that change nothing but the locals of the call.                      *)

\* The conjuncts of the invariant, for the step that ends the proof of an action.
LEMMA AllTogether ==
    ASSUME Sound', Locals', Agree', AtTask', Reasons', Fresh', Authors'
    PROVE  RuntimeIInv'
BY DEF RuntimeIInv

\* DAG and registry agree on the tasks that a step leaves alone.
LEMMA AgreeElsewhere ==
    ASSUME RuntimeIInv, Current \subseteq Current',
           \A u \in Tasks \ Current' :
              /\ dag'.phase[u] = dag.phase[u] /\ registry'[u] = registry[u]
              /\ u \in succeeded' <=> u \in succeeded
              /\ u \in rt'.lost <=> u \in rt.lost
    PROVE  Agree'
<1>1. Agree
  BY DEF RuntimeIInv
<1> SUFFICES ASSUME NEW u \in Tasks \ Current'
             PROVE  /\ dag'.phase[u] # "RESERVED"
                    /\ registry'[u].state = "PENDING" <=> dag'.phase[u] = "PENDING"
                    /\ registry'[u].state = "SUCCESS" <=> u \in succeeded'
                    /\ registry'[u].state = "RUNNING" <=> u \in rt'.lost
  BY DEF Agree
<1>2. u \in Tasks \ Current
  OBVIOUS
<1>3. /\ dag.phase[u] # "RESERVED"
      /\ registry[u].state = "PENDING" <=> dag.phase[u] = "PENDING"
      /\ registry[u].state = "SUCCESS" <=> u \in succeeded
      /\ registry[u].state = "RUNNING" <=> u \in rt.lost
  BY <1>1, <1>2 DEF Agree
<1> QED
  BY <1>3

\* The authors of the texts, when a step leaves the texts alone.
LEMMA AuthorsStay ==
    ASSUME RuntimeIInv, store' = store, workflow' = workflow, succeeded' = succeeded,
           Published' <=> Published, rt'.task = rt.task, rt'.scope = rt.scope,
           rt'.pc \in InTask => rt.pc \in InTask,
           rt'.pc \in {"admit", "running"} => rt.pc \in {"admit", "running"}
    PROVE  Authors'
<1> DEFINE done == succeeded \cup (IF Published THEN {rt.task} ELSE {})
<1>1. /\ \A k \in Present(store) : store[k] \in {Count} \cup done
      /\ \A t \in done : Ports(t) \subseteq Present(store)
      /\ rt.pc \in InTask => \A k \in Present(rt.scope) : rt.scope[k] \in {Count, rt.task} \cup succeeded
      /\ rt.pc \in {"admit", "running"} => \A t \in succeeded : Ports(t) \subseteq Present(rt.scope)
  BY DEF RuntimeIInv, Authors
<1>2. done' = done
  OBVIOUS
<1>3. \A t : Ports(t)' = Ports(t)
  BY DEF Ports, Processes
<1> HIDE DEF done
<1>4. /\ \A k \in Present(store') : store'[k] \in {Count} \cup done'
      /\ \A t \in done' : Ports(t)' \subseteq Present(store')
      /\ rt'.pc \in InTask =>
            \A k \in Present(rt'.scope) : rt'.scope[k] \in {Count, rt'.task} \cup succeeded'
      /\ rt'.pc \in {"admit", "running"} =>
            \A t \in succeeded' : Ports(t)' \subseteq Present(rt'.scope)
  BY <1>1, <1>2, <1>3
<1> QED
  BY <1>4 DEF Authors, done, Present

\* A DAG nobody touches keeps its invariant.
LEMMA DagUntouched ==
    ASSUME DagInv, dag' = dag, graph' = graph, succeeded' = succeeded
    PROVE  DagInv'
BY DEF DagInv, DagTypeOK, CountersExact, RemainingExact, LiveMeansSuccess, DependenciesFirst, InPhase

\* A step that touches neither the components nor their history leaves them sound.
LEMMA Untouched ==
    ASSUME RuntimeIInv, UNCHANGED <<dagVars, registryVars, storeVars, workflow, typed>>
    PROVE  /\ Sound' /\ dag' = dag /\ graph' = graph /\ succeeded' = succeeded /\ registry' = registry
           /\ store' = store /\ workflow' = workflow /\ typed' = typed
<1>1. /\ dag' = dag /\ graph' = graph /\ succeeded' = succeeded /\ registry' = registry
      /\ store' = store /\ workflow' = workflow /\ typed' = typed
  BY DEF dagVars, registryVars, storeVars
<1>2. DagInv'
  BY <1>1, DagUntouched DEF RuntimeIInv, Sound
<1> QED
  BY <1>1, <1>2 DEF RuntimeIInv, Sound, OutputsBounded, StoreSize, Present

\* A call that is refused at its start has run nothing.
LEMMA StartupRefusedKeeps ==
    ASSUME RuntimeIInv, StartupRefused
    PROVE  RuntimeIInv'
<1>1. PICK status \in {"INVALID", "UNSUPPORTED"} : rt' = [rt EXCEPT !.pc = "exit", !.status = status]
  BY DEF StartupRefused
<1>2. /\ DOMAIN rt' = RtFields /\ rt'.pc = "exit" /\ rt'.status = status /\ rt'.task = rt.task
      /\ rt'.scope = rt.scope /\ rt'.passed = rt.passed /\ rt'.accepted = rt.accepted
      /\ rt'.error = rt.error /\ rt'.procs = rt.procs /\ rt'.cancel = rt.cancel
      /\ rt'.late = rt.late /\ rt'.lost = rt.lost
  BY <1>1 DEF RuntimeIInv, Locals, RtFields
<1>3. /\ Sound' /\ dag' = dag /\ graph' = graph /\ succeeded' = succeeded /\ registry' = registry
      /\ store' = store /\ workflow' = workflow /\ typed' = typed
  BY Untouched DEF StartupRefused
<1>4. rt.pc = "start"
  BY DEF StartupRefused
<1>5. Locals'
  BY <1>2, <1>4 DEF RuntimeIInv, Locals, InTask, Ending, Statuses
<1>6. Agree'
  BY <1>2, <1>3, <1>4 DEF RuntimeIInv, Agree, Current, InTask
<1>7. AtTask' /\ Reasons' /\ Fresh'
  BY <1>2, <1>3, <1>4 DEF RuntimeIInv, AtTask, Reasons, Fresh, InTask, Ending
<1>8. Authors'
  BY <1>2, <1>3, <1>4 DEF RuntimeIInv, Authors, Published, Publishes, Ports, Processes, InTask
<1> QED
  BY <1>3, <1>5, <1>6, <1>7, <1>8, AllTogether

\* The loop ends by itself when nothing is ready and nothing was stopped: then,
\* and only then, everything has succeeded.
LEMMA HeadBreaksKeeps ==
    ASSUME RuntimeIInv, HeadBreaks
    PROVE  RuntimeIInv'
<1>1. rt.pc = "head" /\ rt' = [rt EXCEPT !.pc = "marshal"]
  BY DEF HeadBreaks
<1>2. /\ DOMAIN rt' = RtFields /\ rt'.pc = "marshal" /\ rt'.status = rt.status /\ rt'.task = rt.task
      /\ rt'.scope = rt.scope /\ rt'.passed = rt.passed /\ rt'.accepted = rt.accepted
      /\ rt'.error = rt.error /\ rt'.procs = rt.procs /\ rt'.cancel = rt.cancel
      /\ rt'.late = rt.late /\ rt'.lost = rt.lost
  BY <1>1 DEF RuntimeIInv, Locals, RtFields
<1>3. /\ Sound' /\ dag' = dag /\ graph' = graph /\ succeeded' = succeeded /\ registry' = registry
      /\ store' = store /\ workflow' = workflow /\ typed' = typed
  BY Untouched DEF HeadBreaks
<1>4. Locals'
  BY <1>1, <1>2 DEF RuntimeIInv, Locals, InTask, Ending, Statuses
<1>5. Agree'
  BY <1>1, <1>2, <1>3 DEF RuntimeIInv, Agree, Current, InTask
<1>6. DagAllSucceeded(dag)
  <2>1. dag.terminal = "CONTINUE" /\ DagReadyCount(dag) = 0
    BY <1>1 DEF HeadBreaks, RuntimeIInv, Reasons
  <2>2. InPhase(dag, "RESERVED") = {}
    BY <1>1 DEF RuntimeIInv, Agree, Current, InTask, InPhase
  <2>3. dag.active = 0
    BY <2>2, FS_EmptySet DEF RuntimeIInv, Sound, DagInv, CountersExact
  <2> QED
    BY <2>1, <2>3, IdleMeansComplete DEF RuntimeIInv, Sound, NoStall, DagQuiescent, DagAllSucceeded
<1>7. AtTask' /\ Reasons' /\ Fresh'
  BY <1>1, <1>2, <1>3, <1>6 DEF RuntimeIInv, AtTask, Reasons, Fresh, InTask, Ending
<1>8. Authors'
  BY <1>1, <1>2, <1>3 DEF RuntimeIInv, Authors, Published, Publishes, Ports, Processes, InTask
<1> QED
  BY <1>3, <1>4, <1>5, <1>7, <1>8, AllTogether

\* A tick that leaves the process running.
LEMMA TickRunningKeeps ==
    ASSUME RuntimeIInv, TickRunning
    PROVE  RuntimeIInv'
<1>1. rt.pc = "running" /\ rt' = [rt EXCEPT !.procs = 1]
  BY DEF TickRunning
<1>2. /\ DOMAIN rt' = RtFields /\ rt'.pc = rt.pc /\ rt'.status = rt.status /\ rt'.task = rt.task
      /\ rt'.scope = rt.scope /\ rt'.passed = rt.passed /\ rt'.accepted = rt.accepted
      /\ rt'.error = rt.error /\ rt'.procs = 1 /\ rt'.cancel = rt.cancel /\ rt'.late = rt.late
      /\ rt'.lost = rt.lost
  BY <1>1 DEF RuntimeIInv, Locals, RtFields
<1>3. /\ Sound' /\ dag' = dag /\ graph' = graph /\ succeeded' = succeeded /\ registry' = registry
      /\ store' = store /\ workflow' = workflow /\ typed' = typed
  BY Untouched DEF TickRunning
<1>4. Locals'
  BY <1>1, <1>2 DEF RuntimeIInv, Locals, InTask, Ending, Statuses
<1>5. Agree'
  BY <1>1, <1>2, <1>3 DEF RuntimeIInv, Agree, Current
<1>6. AtTask' /\ Reasons' /\ Fresh'
  BY <1>1, <1>2, <1>3 DEF RuntimeIInv, AtTask, Reasons, Fresh
<1>7. Authors'
  BY <1>1, <1>2, <1>3 DEF RuntimeIInv, Authors, Published, Publishes, Ports, Processes, InTask
<1> QED
  BY <1>3, <1>4, <1>5, <1>6, <1>7, AllTogether

\* A tick that ends the action: what it stored is the task's own text.
LEMMA TickEndsKeeps ==
    ASSUME RuntimeIInv, NEW success \in BOOLEAN, NEW stored \in BOOLEAN, TickEnds(success, stored)
    PROVE  RuntimeIInv'
<1> DEFINE result == TextStored(rt.scope, rt.task)
           passed == success /\ result.ok
           scope == IF stored THEN result.scope ELSE rt.scope
           status == IF passed THEN rt.status ELSE "FAILED"
<1>1. PICK procs \in 0 .. rt.procs :
         rt' = [rt EXCEPT !.pc = "teardown", !.passed = passed, !.procs = procs,
                          !.scope = scope, !.status = status]
  BY DEF TickEnds
<1>2. /\ DOMAIN rt' = RtFields /\ rt'.pc = "teardown" /\ rt'.status = status /\ rt'.task = rt.task
      /\ rt'.scope = scope /\ rt'.passed = passed /\ rt'.accepted = rt.accepted
      /\ rt'.error = rt.error /\ rt'.procs = procs /\ rt'.cancel = rt.cancel /\ rt'.late = rt.late
      /\ rt'.lost = rt.lost
  BY <1>1 DEF RuntimeIInv, Locals, RtFields
<1>3. /\ Sound' /\ dag' = dag /\ graph' = graph /\ succeeded' = succeeded /\ registry' = registry
      /\ store' = store /\ workflow' = workflow /\ typed' = typed
  BY Untouched DEF TickEnds
<1>4. /\ rt.pc = "running" /\ rt.task \in Tasks /\ rt.scope \in Contents
      /\ rt.status = "OK" /\ rt.accepted /\ ~rt.error
  BY DEF TickEnds, RuntimeIInv, Locals, AtTask, InTask
<1>5. /\ scope \in Contents /\ passed \in BOOLEAN
      /\ \A k \in Keys : scope[k] \in {rt.scope[k], rt.task}
  BY <1>4, TextStoredKeeps DEF RuntimeIInv, Sound
<1>6. status = IF passed THEN "OK" ELSE "FAILED"
  BY <1>4
<1> HIDE DEF result, passed, scope, status
<1>7. Locals'
  BY <1>2, <1>4, <1>5, <1>6 DEF RuntimeIInv, Locals, InTask, Ending, Statuses
<1>8. Agree'
  BY <1>2, <1>3, <1>4 DEF RuntimeIInv, Agree, Current, InTask
<1>9. AtTask'
  BY <1>2, <1>3, <1>4, <1>5, <1>6 DEF RuntimeIInv, AtTask, InTask
<1>10. Reasons' /\ Fresh'
  BY <1>2, <1>3, <1>4, <1>5, <1>6 DEF RuntimeIInv, Reasons, Fresh, InTask, Ending
<1>11. Authors'
  <2>1. \A k \in Present(scope) : scope[k] \in {Count, rt.task} \cup succeeded
    BY <1>4, <1>5 DEF RuntimeIInv, Authors, Present, InTask
  <2> QED
    BY <1>2, <1>3, <1>4, <2>1 DEF RuntimeIInv, Authors, Published, Publishes, Ports, Processes, InTask
<1> QED
  BY <1>3, <1>7, <1>8, <1>9, <1>10, <1>11, AllTogether

\* The executor fails: an error that the settlement will see.
LEMMA ExecutorFailsKeeps ==
    ASSUME RuntimeIInv, ExecutorFails
    PROVE  RuntimeIInv'
<1>1. rt.pc = "running" /\ rt' = [rt EXCEPT !.pc = "teardown", !.error = TRUE]
  BY DEF ExecutorFails
<1>2. /\ DOMAIN rt' = RtFields /\ rt'.pc = "teardown" /\ rt'.status = rt.status
      /\ rt'.task = rt.task /\ rt'.scope = rt.scope /\ rt'.passed = rt.passed
      /\ rt'.accepted = rt.accepted /\ rt'.error = TRUE /\ rt'.procs = rt.procs
      /\ rt'.cancel = rt.cancel /\ rt'.late = rt.late /\ rt'.lost = rt.lost
  BY <1>1 DEF RuntimeIInv, Locals, RtFields
<1>3. /\ Sound' /\ dag' = dag /\ graph' = graph /\ succeeded' = succeeded /\ registry' = registry
      /\ store' = store /\ workflow' = workflow /\ typed' = typed
  BY Untouched DEF ExecutorFails
<1>4. Locals'
  BY <1>1, <1>2 DEF RuntimeIInv, Locals, InTask, Ending, Statuses
<1>5. Agree'
  BY <1>1, <1>2, <1>3 DEF RuntimeIInv, Agree, Current, InTask
<1>6. AtTask' /\ Reasons' /\ Fresh'
  BY <1>1, <1>2, <1>3 DEF RuntimeIInv, AtTask, Reasons, Fresh, InTask, Ending
<1>7. Authors'
  BY <1>1, <1>2, <1>3 DEF RuntimeIInv, Authors, Published, Publishes, Ports, Processes, InTask
<1> QED
  BY <1>3, <1>4, <1>5, <1>6, <1>7, AllTogether

\* The process is drained, or the program aborts.
LEMMA TeardownKeeps ==
    ASSUME RuntimeIInv, Teardown
    PROVE  RuntimeIInv'
<1>1. /\ Sound' /\ dag' = dag /\ graph' = graph /\ succeeded' = succeeded /\ registry' = registry
      /\ store' = store /\ workflow' = workflow /\ typed' = typed
  BY Untouched DEF Teardown
<1>2. CASE rt' = [rt EXCEPT !.pc = "publish", !.procs = 0]
  <2>1. /\ DOMAIN rt' = RtFields /\ rt'.pc = "publish" /\ rt'.status = rt.status
        /\ rt'.task = rt.task /\ rt'.scope = rt.scope /\ rt'.passed = rt.passed
        /\ rt'.accepted = rt.accepted /\ rt'.error = rt.error /\ rt'.procs = 0
        /\ rt'.cancel = rt.cancel /\ rt'.late = rt.late /\ rt'.lost = rt.lost
    BY <1>2 DEF RuntimeIInv, Locals, RtFields
  <2>2. rt.pc = "teardown"
    BY DEF Teardown
  <2>3. Locals'
    BY <2>1, <2>2 DEF RuntimeIInv, Locals, InTask, Ending, Statuses
  <2>4. Agree'
    BY <1>1, <2>1, <2>2 DEF RuntimeIInv, Agree, Current, InTask
  <2>5. AtTask' /\ Reasons' /\ Fresh'
    BY <1>1, <2>1, <2>2 DEF RuntimeIInv, AtTask, Reasons, Fresh, InTask, Ending
  <2>6. Authors'
    BY <1>1, <2>1, <2>2 DEF RuntimeIInv, Authors, Published, Publishes, Ports, Processes, InTask
  <2> QED
    BY <1>1, <2>3, <2>4, <2>5, <2>6, AllTogether
<1>3. CASE rt' = [rt EXCEPT !.pc = "aborted"]
  <2>1. /\ DOMAIN rt' = RtFields /\ rt'.pc = "aborted" /\ rt'.status = rt.status
        /\ rt'.task = rt.task /\ rt'.scope = rt.scope /\ rt'.passed = rt.passed
        /\ rt'.accepted = rt.accepted /\ rt'.error = rt.error /\ rt'.procs = rt.procs
        /\ rt'.cancel = rt.cancel /\ rt'.late = rt.late /\ rt'.lost = rt.lost
    BY <1>3 DEF RuntimeIInv, Locals, RtFields
  <2>2. rt.pc = "teardown"
    BY DEF Teardown
  <2>3. Locals'
    BY <2>1, <2>2 DEF RuntimeIInv, Locals, InTask, Ending, Statuses
  <2>4. Agree'
    BY <1>1, <2>1, <2>2 DEF RuntimeIInv, Agree, Current, InTask
  <2>5. AtTask' /\ Reasons' /\ Fresh'
    BY <1>1, <2>1, <2>2 DEF RuntimeIInv, AtTask, Reasons, Fresh, InTask, Ending
  <2>6. Authors'
    BY <1>1, <2>1, <2>2 DEF RuntimeIInv, Authors, Published, Publishes, Ports, Processes, InTask
  <2> QED
    BY <1>1, <2>3, <2>4, <2>5, <2>6, AllTogether
<1> QED
  BY <1>2, <1>3 DEF Teardown

\* The end of the call: marshalling and cleanups may turn the status into an
\* error, never into OK.
LEMMA EndingKeeps ==
    ASSUME RuntimeIInv, MarshalResult \/ ExitCall
    PROVE  RuntimeIInv'
<1>1. /\ Sound' /\ dag' = dag /\ graph' = graph /\ succeeded' = succeeded /\ registry' = registry
      /\ store' = store /\ workflow' = workflow /\ typed' = typed
  BY Untouched DEF MarshalResult, ExitCall
<1>2. /\ rt.pc \in {"marshal", "exit"}
      /\ \E pc \in {"exit", "done"}, status \in {rt.status, "RESOURCE"} :
            rt' = [rt EXCEPT !.pc = pc, !.status = status]
  <2>1. DOMAIN rt = RtFields
    BY DEF RuntimeIInv, Locals
  <2>2. \A pc : [rt EXCEPT !.pc = pc] = [rt EXCEPT !.pc = pc, !.status = rt.status]
    BY <2>1 DEF RtFields
  <2> QED
    BY <2>2 DEF MarshalResult, ExitCall
<1>3. PICK pc \in {"exit", "done"}, status \in {rt.status, "RESOURCE"} :
         rt' = [rt EXCEPT !.pc = pc, !.status = status]
  BY <1>2
<1>4. /\ DOMAIN rt' = RtFields /\ rt'.pc = pc /\ rt'.status = status /\ rt'.task = rt.task
      /\ rt'.scope = rt.scope /\ rt'.passed = rt.passed /\ rt'.accepted = rt.accepted
      /\ rt'.error = rt.error /\ rt'.procs = rt.procs /\ rt'.cancel = rt.cancel
      /\ rt'.late = rt.late /\ rt'.lost = rt.lost
  BY <1>3 DEF RuntimeIInv, Locals, RtFields
<1>5. Locals'
  BY <1>2, <1>4 DEF RuntimeIInv, Locals, InTask, Ending, Statuses
<1>6. Agree'
  BY <1>1, <1>2, <1>4 DEF RuntimeIInv, Agree, Current, InTask
<1>7. AtTask' /\ Reasons' /\ Fresh'
  BY <1>1, <1>2, <1>4 DEF RuntimeIInv, AtTask, Reasons, Fresh, InTask, Ending
<1>8. Authors'
  BY <1>1, <1>2, <1>4 DEF RuntimeIInv, Authors, Published, Publishes, Ports, Processes, InTask
<1> QED
  BY <1>1, <1>5, <1>6, <1>7, <1>8, AllTogether

\* A request for cancellation, and the deadline, only leave their mark.
LEMMA MarkKeeps ==
    ASSUME RuntimeIInv, AskCancel \/ DeadlinePasses
    PROVE  RuntimeIInv'
<1>1. /\ Sound' /\ dag' = dag /\ graph' = graph /\ succeeded' = succeeded /\ registry' = registry
      /\ store' = store /\ workflow' = workflow /\ typed' = typed
  BY Untouched DEF AskCancel, DeadlinePasses
<1>2. /\ DOMAIN rt' = RtFields /\ rt'.pc = rt.pc /\ rt'.status = rt.status /\ rt'.task = rt.task
      /\ rt'.scope = rt.scope /\ rt'.passed = rt.passed /\ rt'.accepted = rt.accepted
      /\ rt'.error = rt.error /\ rt'.procs = rt.procs /\ rt'.lost = rt.lost
  BY DEF RuntimeIInv, Locals, RtFields, AskCancel, DeadlinePasses
<1>3. Locals'
  BY <1>2 DEF RuntimeIInv, Locals, InTask, Ending, Statuses
<1>4. Agree'
  BY <1>1, <1>2 DEF RuntimeIInv, Agree, Current
<1>5. AtTask' /\ Reasons' /\ Fresh'
  BY <1>1, <1>2 DEF RuntimeIInv, AtTask, Reasons, Fresh
<1>6. Authors'
  <2>1. Published' <=> Published
    BY <1>2 DEF Published, Publishes
  <2> QED
    BY <1>1, <1>2, <2>1, AuthorsStay
<1> QED
  BY <1>1, <1>3, <1>4, <1>5, <1>6, AllTogether

-----------------------------------------------------------------------------
(* Steps that move the DAG.                                                   *)

\* The registry and the texts nobody touches, and the DAG by a lemma of its own.
LEMMA DagStep ==
    ASSUME RuntimeIInv, DagInv', UNCHANGED <<registryVars, storeVars, workflow, typed>>
    PROVE  /\ Sound' /\ registry' = registry /\ store' = store /\ workflow' = workflow /\ typed' = typed
BY DEF RuntimeIInv, Sound, OutputsBounded, StoreSize, Present, registryVars, storeVars

\* stop() with the reason the owner found: it is the terminal reason, because
\* none was recorded before.
LEMMA HaltsDag ==
    ASSUME RuntimeIInv, rt.pc \in {"head", "running"}, HaltReason(rt) # "NONE",
           dag' = DagStop(dag, HaltReason(rt)), UNCHANGED <<graph, succeeded>>
    PROVE  /\ DagInv' /\ HaltReason(rt) \in {"CANCELLED", "DEADLINE"}
           /\ dag'.terminal = HaltReason(rt) /\ dag'.phase = dag.phase
<1>1. HaltReason(rt) \in {"CANCELLED", "DEADLINE"}
  BY DEF HaltReason
<1>2. DagInv /\ Stop(HaltReason(rt)) /\ HaltReason(rt) \in StopReason
  BY <1>1 DEF RuntimeIInv, Sound, Stop, StopReason
<1>3. DagInv'
  BY <1>2, StopInv
<1>4. dag.terminal = "CONTINUE" /\ dag \in DagRecord
  BY DEF RuntimeIInv, Sound, DagInv, DagTypeOK, Reasons, AtTask, InTask
<1>5. dag'.terminal = HaltReason(rt) /\ dag'.phase = dag.phase
  BY <1>4 DEF DagStop, DagRecord
<1> QED
  BY <1>1, <1>3, <1>5

\* The loop is left because of a cancellation or the deadline.
LEMMA HeadHaltsKeeps ==
    ASSUME RuntimeIInv, HeadHalts
    PROVE  RuntimeIInv'
<1> DEFINE reason == HaltReason(rt)
<1>1. rt.pc = "head" /\ rt' = [rt EXCEPT !.pc = "marshal", !.status = reason]
  BY DEF HeadHalts
<1>2. /\ DOMAIN rt' = RtFields /\ rt'.pc = "marshal" /\ rt'.status = reason /\ rt'.task = rt.task
      /\ rt'.scope = rt.scope /\ rt'.passed = rt.passed /\ rt'.accepted = rt.accepted
      /\ rt'.error = rt.error /\ rt'.procs = rt.procs /\ rt'.cancel = rt.cancel
      /\ rt'.late = rt.late /\ rt'.lost = rt.lost
  BY <1>1 DEF RuntimeIInv, Locals, RtFields
<1>3. /\ DagInv' /\ reason \in {"CANCELLED", "DEADLINE"} /\ dag'.terminal = reason /\ dag'.phase = dag.phase
  BY HaltsDag DEF HeadHalts
<1>4. /\ Sound' /\ registry' = registry /\ store' = store /\ workflow' = workflow /\ typed' = typed
  BY <1>3, DagStep DEF HeadHalts
<1>5. succeeded' = succeeded
  BY DEF HeadHalts
<1> HIDE DEF reason
<1>6. Locals'
  BY <1>1, <1>2, <1>3 DEF RuntimeIInv, Locals, InTask, Ending, Statuses
<1>7. Agree'
  BY <1>1, <1>2, <1>3, <1>4, <1>5 DEF RuntimeIInv, Agree, Current, InTask
<1>8. AtTask' /\ Reasons' /\ Fresh'
  BY <1>1, <1>2, <1>3, <1>4 DEF RuntimeIInv, AtTask, Reasons, Fresh, InTask, Ending
<1>9. Authors'
  BY <1>1, <1>2, <1>4, <1>5 DEF RuntimeIInv, Authors, Published, Publishes, Ports, Processes, InTask
<1> QED
  BY <1>4, <1>6, <1>7, <1>8, <1>9, AllTogether

\* The callback of a running task gives up.
LEMMA CallbackHaltsKeeps ==
    ASSUME RuntimeIInv, CallbackHalts
    PROVE  RuntimeIInv'
<1> DEFINE reason == HaltReason(rt)
<1>1. PICK procs \in 0 .. rt.procs : rt' = [rt EXCEPT !.pc = "teardown", !.status = reason, !.procs = procs]
  BY DEF CallbackHalts
<1>2. /\ DOMAIN rt' = RtFields /\ rt'.pc = "teardown" /\ rt'.status = reason /\ rt'.task = rt.task
      /\ rt'.scope = rt.scope /\ rt'.passed = rt.passed /\ rt'.accepted = rt.accepted
      /\ rt'.error = rt.error /\ rt'.procs = procs /\ rt'.cancel = rt.cancel /\ rt'.late = rt.late
      /\ rt'.lost = rt.lost
  BY <1>1 DEF RuntimeIInv, Locals, RtFields
<1>3. rt.pc = "running"
  BY DEF CallbackHalts
<1>4. /\ DagInv' /\ reason \in {"CANCELLED", "DEADLINE"} /\ dag'.terminal = reason /\ dag'.phase = dag.phase
  BY <1>3, HaltsDag DEF CallbackHalts
<1>5. /\ Sound' /\ registry' = registry /\ store' = store /\ workflow' = workflow /\ typed' = typed
  BY <1>4, DagStep DEF CallbackHalts
<1>6. succeeded' = succeeded
  BY DEF CallbackHalts
<1> HIDE DEF reason
<1>7. Locals'
  BY <1>2, <1>3, <1>4 DEF RuntimeIInv, Locals, InTask, Ending, Statuses
<1>8. Agree'
  <2>1. Current' = Current
    BY <1>2, <1>3 DEF Current, InTask
  <2> QED
    BY <1>2, <1>4, <1>5, <1>6, <2>1, AgreeElsewhere
<1>9. AtTask' /\ Reasons' /\ Fresh'
  BY <1>2, <1>3, <1>4, <1>5, <1>6 DEF RuntimeIInv, AtTask, Reasons, Fresh, InTask, Ending
<1>10. Authors'
  BY <1>2, <1>3, <1>5, <1>6 DEF RuntimeIInv, Authors, Published, Publishes, Ports, Processes, InTask
<1> QED
  BY <1>5, <1>7, <1>8, <1>9, <1>10, AllTogether

\* A claim of one task, when none is reserved, reserves one that was waiting.
LEMMA ClaimsOne ==
    ASSUME RuntimeIInv, rt.pc = "head", ClaimReady(1),
           NEW t \in InPhase(dag', "RESERVED") \ InPhase(dag, "RESERVED")
    PROVE  /\ DagInv' /\ t \in Tasks /\ dag.phase[t] = "PENDING" /\ dag'.phase[t] = "RESERVED"
           /\ \A u \in Tasks \ {t} : dag'.phase[u] = dag.phase[u]
           /\ dag'.terminal = dag.terminal /\ succeeded' = succeeded /\ graph' = graph
<1>1. DagInv /\ 1 \in 1 .. MaxCapacity
  BY DagAssumption DEF RuntimeIInv, Sound
<1>2. DagInv'
  BY <1>1, ClaimInv
<1>3. PICK S \in SUBSET Unblocked(dag) : dag' = DagClaim(dag, S)
  BY DEF ClaimReady
<1>4. dag \in DagRecord
  BY <1>1 DEF DagInv, DagTypeOK
<1>5. /\ dag'.phase = [u \in Tasks |-> IF u \in S THEN "RESERVED" ELSE dag.phase[u]]
      /\ dag'.terminal = dag.terminal
  BY <1>3, <1>4 DEF DagClaim, DagRecord
<1>6. t \in Tasks /\ dag'.phase[t] = "RESERVED" /\ dag.phase[t] = "PENDING"
  BY <1>5 DEF InPhase, Unblocked
<1>7. InPhase(dag', "RESERVED") = {t}
  <2>1. dag'.active <= 1 /\ dag'.active = Cardinality(InPhase(dag', "RESERVED"))
    BY <1>2, RuntimeAssumption DEF DagInv, DagTypeOK, CountersExact
  <2>2. InPhase(dag', "RESERVED") \in SUBSET Tasks
    BY DEF InPhase
  <2>3. IsFiniteSet(InPhase(dag', "RESERVED")) /\ Cardinality(InPhase(dag', "RESERVED")) \in Nat
    BY <2>2, TasksFinite
  <2>4. {t} \subseteq InPhase(dag', "RESERVED") /\ IsFiniteSet({t}) /\ Cardinality({t}) = 1
    BY FS_Singleton
  <2>5. Cardinality({t}) <= Cardinality(InPhase(dag', "RESERVED"))
    BY <2>3, <2>4, FS_Subset
  <2>6. Cardinality({t}) = Cardinality(InPhase(dag', "RESERVED"))
    BY <2>1, <2>3, <2>4, <2>5
  <2> QED
    BY <2>3, <2>4, <2>6, FS_Subset
<1>8. ASSUME NEW u \in Tasks \ {t} PROVE dag'.phase[u] = dag.phase[u]
  <2>1. dag'.phase[u] # "RESERVED"
    BY <1>7 DEF InPhase
  <2> QED
    BY <1>5, <2>1
<1> QED
  BY <1>2, <1>5, <1>6, <1>8 DEF ClaimReady

\* The next task is claimed: the registry has not seen it yet.
LEMMA HeadClaimsKeeps ==
    ASSUME RuntimeIInv, HeadClaims
    PROVE  RuntimeIInv'
<1>1. PICK t \in InPhase(dag', "RESERVED") \ InPhase(dag, "RESERVED") :
         rt' = [rt EXCEPT !.pc = "begin", !.task = t, !.passed = FALSE,
                          !.accepted = FALSE, !.error = FALSE, !.scope = EmptyStore]
  BY DEF HeadClaims
<1>2. /\ DOMAIN rt' = RtFields /\ rt'.pc = "begin" /\ rt'.status = rt.status /\ rt'.task = t
      /\ rt'.scope = EmptyStore /\ rt'.passed = FALSE /\ rt'.accepted = FALSE /\ rt'.error = FALSE
      /\ rt'.procs = rt.procs /\ rt'.cancel = rt.cancel /\ rt'.late = rt.late /\ rt'.lost = rt.lost
  BY <1>1 DEF RuntimeIInv, Locals, RtFields
<1>3. rt.pc = "head"
  BY DEF HeadClaims
<1>4. /\ DagInv' /\ t \in Tasks /\ dag.phase[t] = "PENDING" /\ dag'.phase[t] = "RESERVED"
      /\ \A u \in Tasks \ {t} : dag'.phase[u] = dag.phase[u]
      /\ dag'.terminal = dag.terminal /\ succeeded' = succeeded /\ graph' = graph
  BY <1>1, <1>3, ClaimsOne DEF HeadClaims
<1>5. /\ Sound' /\ registry' = registry /\ store' = store /\ workflow' = workflow /\ typed' = typed
  BY <1>4, DagStep DEF HeadClaims
<1>6. EmptyStore \in Contents /\ Present(EmptyStore) = {}
  BY DEF EmptyStore, Contents, Present
<1>7. Locals'
  BY <1>2, <1>3, <1>4, <1>6 DEF RuntimeIInv, Locals, InTask, Ending, Statuses
<1>8. Agree'
  <2>1. Current = {} /\ Current' = {t}
    BY <1>2, <1>3 DEF Current, InTask
  <2> QED
    BY <1>2, <1>4, <1>5, <2>1, AgreeElsewhere
<1>9. AtTask'
  <2>1. registry[t].state = "PENDING" /\ t \notin succeeded /\ t \notin rt.lost
    BY <1>3, <1>4 DEF RuntimeIInv, Agree, Current, InTask
  <2> QED
    BY <1>2, <1>3, <1>4, <1>5, <2>1 DEF RuntimeIInv, AtTask, Reasons, InTask
<1>10. Reasons' /\ Fresh'
  BY <1>2, <1>3, <1>4, <1>5 DEF RuntimeIInv, Reasons, Fresh, InTask, Ending
<1>11. Authors'
  BY <1>2, <1>3, <1>4, <1>5, <1>6 DEF RuntimeIInv, Authors, Published, Publishes, Ports, Processes, InTask
<1> QED
  BY <1>5, <1>7, <1>8, <1>9, <1>10, <1>11, AllTogether

\* The claim is admitted, or refused with an error.
LEMMA AdmitTaskKeeps ==
    ASSUME RuntimeIInv, AdmitTask
    PROVE  RuntimeIInv'
<1>1. /\ rt.pc = "admit" /\ rt.task \in Tasks /\ dag.phase[rt.task] = "RESERVED"
      /\ rt.status = "OK" /\ ~rt.error /\ ~rt.accepted /\ ~rt.passed
  BY DEF AdmitTask, RuntimeIInv, Locals, AtTask, InTask
<1>2. CASE UNCHANGED dagVars /\ rt' = [rt EXCEPT !.pc = "running", !.accepted = TRUE]
  <2>1. /\ DOMAIN rt' = RtFields /\ rt'.pc = "running" /\ rt'.status = rt.status
        /\ rt'.task = rt.task /\ rt'.scope = rt.scope /\ rt'.passed = rt.passed
        /\ rt'.accepted = TRUE /\ rt'.error = rt.error /\ rt'.procs = rt.procs
        /\ rt'.cancel = rt.cancel /\ rt'.late = rt.late /\ rt'.lost = rt.lost
    BY <1>2 DEF RuntimeIInv, Locals, RtFields
  <2>2. /\ Sound' /\ dag' = dag /\ graph' = graph /\ succeeded' = succeeded /\ registry' = registry
        /\ store' = store /\ workflow' = workflow /\ typed' = typed
    BY <1>2, Untouched DEF AdmitTask
  <2>3. Locals'
    BY <1>1, <2>1 DEF RuntimeIInv, Locals, InTask, Ending, Statuses
  <2>4. Agree'
    BY <1>1, <2>1, <2>2 DEF RuntimeIInv, Agree, Current, InTask
  <2>5. AtTask' /\ Reasons' /\ Fresh'
    BY <1>1, <2>1, <2>2 DEF RuntimeIInv, AtTask, Reasons, Fresh, InTask, Ending
  <2>6. Authors'
    BY <1>1, <2>1, <2>2 DEF RuntimeIInv, Authors, Published, Publishes, Ports, Processes, InTask
  <2> QED
    BY <2>2, <2>3, <2>4, <2>5, <2>6, AllTogether
<1>3. CASE Refuse(rt.task) /\ rt' = [rt EXCEPT !.pc = "teardown", !.error = TRUE]
  <2>1. /\ DOMAIN rt' = RtFields /\ rt'.pc = "teardown" /\ rt'.status = rt.status
        /\ rt'.task = rt.task /\ rt'.scope = rt.scope /\ rt'.passed = rt.passed
        /\ rt'.accepted = rt.accepted /\ rt'.error = TRUE /\ rt'.procs = rt.procs
        /\ rt'.cancel = rt.cancel /\ rt'.late = rt.late /\ rt'.lost = rt.lost
    BY <1>3 DEF RuntimeIInv, Locals, RtFields
  <2>2. DagInv'
    BY <1>1, <1>3, RefuseInv DEF RuntimeIInv, Sound
  <2>3. /\ Sound' /\ registry' = registry /\ store' = store /\ workflow' = workflow /\ typed' = typed
    BY <2>2, DagStep DEF AdmitTask
  <2>4. dag.phase \in [Tasks -> Phase]
    BY DEF RuntimeIInv, Sound, DagInv, DagTypeOK, DagRecord
  <2>5. /\ dag'.phase = [dag.phase EXCEPT ![rt.task] = "REFUSED"] /\ succeeded' = succeeded
        /\ dag'.phase[rt.task] = "REFUSED" /\ \A u \in Tasks \ {rt.task} : dag'.phase[u] = dag.phase[u]
    BY <1>1, <1>3, <2>4 DEF Refuse, DagRefuse
  <2>6. Locals'
    BY <1>1, <2>1 DEF RuntimeIInv, Locals, InTask, Ending, Statuses
  <2>7. Agree'
    <3>1. Current = {rt.task} /\ Current' = {rt.task}
      BY <1>1, <2>1 DEF Current, InTask
    <3> QED
      BY <2>1, <2>3, <2>5, <3>1, AgreeElsewhere
  <2>8. AtTask'
    BY <1>1, <2>1, <2>3, <2>5 DEF RuntimeIInv, AtTask, InTask
  <2>9. Reasons' /\ Fresh'
    BY <1>1, <2>1, <2>3 DEF RuntimeIInv, Reasons, Fresh, InTask, Ending
  <2>10. Authors'
    BY <1>1, <2>1, <2>3, <2>5 DEF RuntimeIInv, Authors, Published, Publishes, Ports, Processes, InTask
  <2> QED
    BY <2>3, <2>6, <2>7, <2>8, <2>9, <2>10, AllTogether
<1> QED
  BY <1>2, <1>3 DEF AdmitTask
=============================================================================
