---------------------------- MODULE TaskRegistry ----------------------------
(* praktor_workflow_task_registry (workflow_task_registry.c): the state, the  *)
(* outputs and the mutation counter of every task of one workflow run, and    *)
(* the output groups that are prepared first and published later.  A JSON     *)
(* value is abstracted to the revision whose mutation stored it, 0 meaning    *)
(* that the key is absent, so that two objects stored at different times are  *)
(* never confused.  The Reg... operators are the functions of the file; a     *)
(* call that is rejected changes nothing and is not a step.                   *)
EXTENDS DagGraph

CONSTANTS
    OutputKeys,     \* names of outputs
    MaxOutputs,     \* PRAKTOR_WORKFLOW_TASK_MAX_OUTPUTS
    MaxRevision,    \* UINT64_MAX, the revision after which mutations are refused
    Groups          \* handles for prepared output groups

ASSUME RegistryAssumption ==
    /\ MaxOutputs \in Nat
    /\ MaxRevision \in Nat
    /\ IsFiniteSet(OutputKeys)

VARIABLES
    registry,       \* the slots
    groups          \* the prepared group behind each handle, empty if there is none

registryVars == <<registry, groups>>

TaskState == {"PENDING", "RUNNING", "SUCCESS", "FAILED", "SKIPPED"}

Slot ==
    [state : TaskState, outputs : [OutputKeys -> 0 .. MaxRevision],
     reason : BOOLEAN, revision : 0 .. MaxRevision]

\* staged_output_entry; updates is the set of keys the entry replaces and is
\* empty when staged is NULL.  The pointer comparison of publish is left out:
\* an address may be reused, so only the revision tells two objects apart.
Entry ==
    [updates : SUBSET OutputKeys, staged : [OutputKeys -> 0 .. MaxRevision],
     state : TaskState, revision : 0 .. MaxRevision]

NoOutputs == [k \in OutputKeys |-> 0]

NoGroup == [t \in {} |-> 0]

RegCreate ==
    [t \in Tasks |->
        [state |-> "PENDING", outputs |-> NoOutputs, reason |-> FALSE, revision |-> 0]]

Finalized(s) == s \in {"SUCCESS", "FAILED", "SKIPPED"}

RevisionAvailable(slot) == slot.revision < MaxRevision

\* Not finalized and with a turn left: what every mutation but start() asks for.
Mutable(slot) == ~Finalized(slot.state) /\ RevisionAvailable(slot)

\* start() opens a task again from whatever state it is in.
RegStart(slot) ==
    [state |-> "RUNNING", outputs |-> NoOutputs, reason |-> FALSE,
     revision |-> slot.revision + 1]

RegComplete(slot) ==
    [slot EXCEPT !.state = "SUCCESS", !.revision = slot.revision + 1]

RegFail(slot) ==
    [slot EXCEPT !.state = "FAILED", !.reason = TRUE, !.revision = slot.revision + 1]

RegSkip(slot) ==
    [slot EXCEPT !.state = "SKIPPED", !.revision = slot.revision + 1]

\* The outputs of the slot with the keys K replaced.
StageUpdate(slot, K) ==
    [k \in OutputKeys |-> IF k \in K THEN slot.revision + 1 ELSE slot.outputs[k]]

OutputsFit(outputs) == Cardinality({k \in OutputKeys : outputs[k] # 0}) <= MaxOutputs

\* Mutant: storing outputs does not consume a revision.
StoreOutputsSilent(slot, outputs) ==
    [slot EXCEPT !.outputs = outputs,
                 !.state = IF slot.state = "PENDING" THEN "RUNNING" ELSE slot.state]

\* slot->outputs is replaced, a pending task is running from now on.
StoreOutputs(slot, outputs) ==
    [slot EXCEPT !.outputs = outputs,
                 !.state = IF slot.state = "PENDING" THEN "RUNNING" ELSE slot.state,
                 !.revision = slot.revision + 1]

\* The update sets U (one per task of its domain) are admissible as a group.
CanPrepare(r, U) ==
    /\ DOMAIN U # {}
    /\ \A t \in DOMAIN U : Mutable(r[t]) /\ OutputsFit(StageUpdate(r[t], U[t]))

RegPrepare(r, U) ==
    [t \in DOMAIN U |->
        [updates |-> U[t], staged |-> StageUpdate(r[t], U[t]),
         state |-> r[t].state, revision |-> r[t].revision]]

\* Mutant: publication compares the state but not the revision.
CanPublishStateOnly(r, group) ==
    \A t \in DOMAIN group :
        r[t].state = group[t].state /\ RevisionAvailable(r[t])

\* The preflight over all entries of a group.
CanPublish(r, group) ==
    \A t \in DOMAIN group :
        /\ r[t].state = group[t].state
        /\ r[t].revision = group[t].revision
        /\ RevisionAvailable(r[t])

\* The entries that are still fresh are stored, the others skipped (used by a mutant).
RegPublishFresh(r, group) ==
    [t \in Tasks |->
        IF t \in DOMAIN group /\ group[t].updates # {} /\ r[t].revision = group[t].revision
        THEN StoreOutputs(r[t], group[t].staged) ELSE r[t]]

RegPublish(r, group) ==
    [t \in Tasks |->
        IF t \in DOMAIN group /\ group[t].updates # {}
        THEN StoreOutputs(r[t], group[t].staged) ELSE r[t]]

-----------------------------------------------------------------------------
RegistryInit ==
    /\ registry = RegCreate
    /\ groups = [g \in Groups |-> NoGroup]

StartTask(t) ==
    /\ RevisionAvailable(registry[t])
    /\ registry' = [registry EXCEPT ![t] = RegStart(registry[t])]
    /\ UNCHANGED groups

Complete(t) ==
    /\ Mutable(registry[t])
    /\ registry' = [registry EXCEPT ![t] = RegComplete(registry[t])]
    /\ UNCHANGED groups

Fail(t) ==
    /\ Mutable(registry[t])
    /\ registry' = [registry EXCEPT ![t] = RegFail(registry[t])]
    /\ UNCHANGED groups

Skip(t) ==
    /\ Mutable(registry[t])
    /\ registry' = [registry EXCEPT ![t] = RegSkip(registry[t])]
    /\ UNCHANGED groups

\* set_output() replaces one key, merge_outputs() any set of keys; an empty
\* merge changes nothing.
MergeOutputs(t, K) ==
    /\ Mutable(registry[t])
    /\ K # {}
    /\ OutputsFit(StageUpdate(registry[t], K))
    /\ registry' = [registry EXCEPT ![t] = StoreOutputs(registry[t], StageUpdate(registry[t], K))]
    /\ UNCHANGED groups

SetOutput(t, k) == MergeOutputs(t, {k})

PrepareGroup(g, U) ==
    /\ groups[g] = NoGroup
    /\ CanPrepare(registry, U)
    /\ groups' = [groups EXCEPT ![g] = RegPrepare(registry, U)]
    /\ UNCHANGED registry

\* Mutant: stale entries are skipped instead of refusing the group.
PublishGroupSkipping(g) ==
    /\ groups[g] # NoGroup
    /\ \A t \in DOMAIN groups[g] : RevisionAvailable(registry[t])
    /\ registry' = RegPublishFresh(registry, groups[g])
    /\ groups' = [groups EXCEPT ![g] = NoGroup]

PublishGroup(g) ==
    /\ groups[g] # NoGroup
    /\ CanPublish(registry, groups[g])
    /\ registry' = RegPublish(registry, groups[g])
    /\ groups' = [groups EXCEPT ![g] = NoGroup]

DiscardGroup(g) ==
    /\ groups[g] # NoGroup
    /\ groups' = [groups EXCEPT ![g] = NoGroup]
    /\ UNCHANGED registry

RegistryNext ==
    \/ \E t \in Tasks : StartTask(t) \/ Complete(t) \/ Fail(t) \/ Skip(t)
    \/ \E t \in Tasks, k \in OutputKeys : SetOutput(t, k)
    \/ \E t \in Tasks, K \in SUBSET OutputKeys : MergeOutputs(t, K)
    \/ \E g \in Groups, S \in SUBSET Tasks : \E U \in [S -> SUBSET OutputKeys] : PrepareGroup(g, U)
    \/ \E g \in Groups : PublishGroup(g) \/ DiscardGroup(g)

RegistrySpec == RegistryInit /\ [][RegistryNext]_registryVars

-----------------------------------------------------------------------------
\* Slots and staged entries are well formed; in particular the mutation counter
\* of a task never passes UINT64_MAX, where it would wrap.
RegistryTypeOK ==
    /\ registry \in [Tasks -> Slot]
    /\ groups = [g \in Groups |-> groups[g]]
    /\ \A g \in Groups :
          DOMAIN groups[g] \subseteq Tasks /\ groups[g] \in [DOMAIN groups[g] -> Entry]

\* No sequence of set, merge and publish stores more outputs than
\* PRAKTOR_WORKFLOW_TASK_MAX_OUTPUTS, also when a group staged them earlier.
OutputsBounded == \A t \in Tasks : OutputsFit(registry[t].outputs)

\* A prepared entry whose revision is still the one of its task describes that
\* task exactly: the task is open, in the recorded state, and every output the
\* entry does not update is the current one.  Nothing that happened in between
\* (a restart included) can bring an old revision back.
FreshEntryMatches ==
    \A g \in Groups : \A t \in DOMAIN groups[g] :
        LET e == groups[g][t] IN
        /\ e.revision <= registry[t].revision
        /\ ~Finalized(e.state)
        /\ e.revision = registry[t].revision =>
              /\ e.state = registry[t].state
              /\ e.staged = StageUpdate(registry[t], e.updates)
              /\ OutputsFit(e.staged)

\* The inductive invariant.
RegistryInv == RegistryTypeOK /\ OutputsBounded /\ FreshEntryMatches

\* Every observable mutation of a task consumes exactly one revision.
OneRevisionPerChange ==
    [][\A t \in Tasks : registry'[t] # registry[t] =>
          registry'[t].revision = registry[t].revision + 1]_registryVars

\* A finalized task keeps state, outputs and reason until start() opens it
\* again with empty outputs, whatever groups were prepared before.
FinalizedImmutable ==
    [][\A t \in Tasks : Finalized(registry[t].state) =>
          registry'[t] \in {registry[t], RegStart(registry[t])}]_registryVars

\* A stored output is only ever replaced by a value of the very step that
\* replaces it, or dropped by start(): publishing a group prepared earlier
\* never brings an older value back and never loses one stored meanwhile.
NoLostOutput ==
    [][\A t \in Tasks : \A k \in OutputKeys :
          registry'[t].outputs[k] # registry[t].outputs[k] =>
              \/ registry'[t].outputs[k] = registry[t].revision + 1
              \/ registry'[t] = RegStart(registry[t])]_registryVars

\* A group whose publication changes the registry publishes all its entries.
PublishAllOrNothing ==
    [][\A g \in Groups :
          (groups'[g] = NoGroup /\ groups[g] # NoGroup /\ registry' # registry) =>
              \A t \in DOMAIN groups[g] :
                  groups[g][t].updates # {} => registry'[t].outputs = groups[g][t].staged
      ]_registryVars
=============================================================================
