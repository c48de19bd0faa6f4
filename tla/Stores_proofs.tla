---------------------------- MODULE Stores_proofs ----------------------------
(* Proofs about the task registry and the value store.  The registry keeps    *)
(* RegistryInv, and with it its action properties, for every number of tasks, *)
(* output names, revisions and prepared groups; the value store keeps         *)
(* StoreInv and NoLostUpdate for every capacity, any finite set of keys and   *)
(* any number of values and transactions.                                     *)
EXTENDS TaskRegistry, ValueStore, FiniteSetTheorems, WellFoundedInduction, TLAPS

-----------------------------------------------------------------------------
(* The task registry.                                                         *)

\* The mutations of one slot, as the steps of the registry apply them.
SlotStep(old, new) ==
    \/ RevisionAvailable(old) /\ new = RegStart(old)
    \/ Mutable(old) /\ new \in {RegComplete(old), RegFail(old), RegSkip(old)}
    \/ /\ Mutable(old)
       /\ \E K \in SUBSET OutputKeys :
             /\ K # {}
             /\ OutputsFit(StageUpdate(old, K))
             /\ new = StoreOutputs(old, StageUpdate(old, K))

\* StageUpdate() keeps the type of the outputs and adds nothing when no key is
\* updated.
LEMMA StageUpdateType ==
    ASSUME NEW slot \in Slot, NEW K \in SUBSET OutputKeys, RevisionAvailable(slot)
    PROVE  StageUpdate(slot, K) \in [OutputKeys -> 0 .. MaxRevision]
BY RegistryAssumption DEF StageUpdate, Slot, RevisionAvailable

\* A mutation keeps the slot well typed and within MAX_OUTPUTS, and consumes
\* one revision.
LEMMA SlotStepKeeps ==
    ASSUME NEW old \in Slot, NEW new, OutputsFit(old.outputs), SlotStep(old, new)
    PROVE  /\ new \in Slot
           /\ OutputsFit(new.outputs)
           /\ new.revision = old.revision + 1
           /\ Finalized(old.state) => new = RegStart(old)
           /\ \A k \in OutputKeys : new.outputs[k] # old.outputs[k] =>
                 new.outputs[k] = old.revision + 1 \/ new = RegStart(old)
<1>1. old.revision + 1 \in 0 .. MaxRevision
  BY RegistryAssumption DEF SlotStep, Slot, Mutable, RevisionAvailable
<1>2. CASE new = RegStart(old)
  <2>1. {k \in OutputKeys : NoOutputs[k] # 0} = {}
    BY DEF NoOutputs
  <2>2. OutputsFit(NoOutputs)
    BY <2>1, FS_EmptySet, RegistryAssumption DEF OutputsFit
  <2>3. NoOutputs \in [OutputKeys -> 0 .. MaxRevision]
    BY RegistryAssumption DEF NoOutputs
  <2> QED
    BY <1>1, <1>2, <2>2, <2>3 DEF RegStart, Slot, TaskState
<1>3. CASE Mutable(old) /\ new \in {RegComplete(old), RegFail(old), RegSkip(old)}
  BY <1>1, <1>3 DEF RegComplete, RegFail, RegSkip, Slot, TaskState, Mutable
<1>4. ASSUME Mutable(old),
             NEW K \in SUBSET OutputKeys,
             OutputsFit(StageUpdate(old, K)),
             new = StoreOutputs(old, StageUpdate(old, K))
      PROVE  /\ new \in Slot
             /\ OutputsFit(new.outputs)
             /\ new.revision = old.revision + 1
             /\ ~Finalized(old.state)
             /\ \A k \in OutputKeys : new.outputs[k] # old.outputs[k] =>
                   new.outputs[k] = old.revision + 1
  <2>1. StageUpdate(old, K) \in [OutputKeys -> 0 .. MaxRevision]
    BY <1>4, StageUpdateType DEF Mutable
  <2>2. \A k \in OutputKeys : StageUpdate(old, K)[k] # old.outputs[k] =>
            StageUpdate(old, K)[k] = old.revision + 1
    BY DEF StageUpdate
  <2> QED
    BY <1>1, <1>4, <2>1, <2>2 DEF StoreOutputs, Slot, TaskState, Mutable
<1> QED
  BY <1>2, <1>3, <1>4 DEF SlotStep

\* Every step of the registry mutates each slot at most once, by one of the
\* mutations of SlotStep; for a published group this is what the preflight buys.
LEMMA StepIsSlotStep ==
    ASSUME RegistryInv, RegistryNext
    PROVE  /\ registry' = [t \in Tasks |-> registry'[t]]
           /\ \A t \in Tasks : registry'[t] = registry[t] \/ SlotStep(registry[t], registry'[t])
<1>1. CASE \E t \in Tasks : StartTask(t) \/ Complete(t) \/ Fail(t) \/ Skip(t)
  BY <1>1 DEF StartTask, Complete, Fail, Skip, SlotStep, RegistryInv, RegistryTypeOK
<1>2. ASSUME NEW t \in Tasks, NEW K \in SUBSET OutputKeys, MergeOutputs(t, K)
      PROVE  /\ registry' = [u \in Tasks |-> registry'[u]]
             /\ \A u \in Tasks : registry'[u] = registry[u] \/ SlotStep(registry[u], registry'[u])
  BY <1>2 DEF MergeOutputs, SlotStep, RegistryInv, RegistryTypeOK
<1>3. ASSUME NEW g \in Groups, PublishGroup(g)
      PROVE  /\ registry' = [u \in Tasks |-> registry'[u]]
             /\ \A u \in Tasks : registry'[u] = registry[u] \/ SlotStep(registry[u], registry'[u])
  <2>1. registry' = RegPublish(registry, groups[g]) /\ CanPublish(registry, groups[g])
    BY <1>3 DEF PublishGroup
  <2>2. registry' = [u \in Tasks |-> registry'[u]]
    BY <2>1 DEF RegPublish
  <2>3. ASSUME NEW u \in Tasks, u \in DOMAIN groups[g], groups[g][u].updates # {}
        PROVE  SlotStep(registry[u], registry'[u])
    <3>1. groups[g][u] \in Entry
      BY <2>3 DEF RegistryInv, RegistryTypeOK
    <3>2. /\ ~Finalized(registry[u].state)
          /\ groups[g][u].staged = StageUpdate(registry[u], groups[g][u].updates)
          /\ OutputsFit(groups[g][u].staged)
          /\ RevisionAvailable(registry[u])
      BY <2>1, <2>3 DEF CanPublish, RegistryInv, FreshEntryMatches
    <3>3. registry'[u] = StoreOutputs(registry[u], groups[g][u].staged)
      BY <2>1, <2>3 DEF RegPublish
    <3> QED
      BY <2>3, <3>1, <3>2, <3>3 DEF SlotStep, Mutable, Entry
  <2>4. ASSUME NEW u \in Tasks, ~(u \in DOMAIN groups[g] /\ groups[g][u].updates # {})
        PROVE  registry'[u] = registry[u]
    BY <2>1, <2>4 DEF RegPublish
  <2> QED
    BY <2>2, <2>3, <2>4
<1>4. CASE UNCHANGED registry
  BY <1>4 DEF RegistryInv, RegistryTypeOK
<1>5. ASSUME NEW t \in Tasks, NEW k \in OutputKeys, SetOutput(t, k)
      PROVE  /\ registry' = [u \in Tasks |-> registry'[u]]
             /\ \A u \in Tasks : registry'[u] = registry[u] \/ SlotStep(registry[u], registry'[u])
  BY <1>2, <1>5 DEF SetOutput
<1> QED
  BY <1>1, <1>2, <1>3, <1>4, <1>5 DEF RegistryNext, PrepareGroup, DiscardGroup

\* What a step leaves of the prepared groups: each is the one it was, none, or
\* has just been prepared from the current slots.
LEMMA GroupStep ==
    ASSUME RegistryInv, RegistryNext
    PROVE  /\ groups' = [g \in Groups |-> groups'[g]]
           /\ \A g \in Groups :
                 \/ groups'[g] = groups[g]
                 \/ groups'[g] = NoGroup
                 \/ /\ registry' = registry
                    /\ \E S \in SUBSET Tasks : \E U \in [S -> SUBSET OutputKeys] :
                          CanPrepare(registry, U) /\ groups'[g] = RegPrepare(registry, U)
<1>1. CASE UNCHANGED groups
  BY <1>1 DEF RegistryInv, RegistryTypeOK
<1>2. ASSUME NEW g \in Groups, PublishGroup(g) \/ DiscardGroup(g)
      PROVE  /\ groups' = [h \in Groups |-> groups'[h]]
             /\ \A h \in Groups : groups'[h] = groups[h] \/ groups'[h] = NoGroup
  BY <1>2 DEF PublishGroup, DiscardGroup, RegistryInv, RegistryTypeOK
<1>3. ASSUME NEW g \in Groups, NEW S \in SUBSET Tasks, NEW U \in [S -> SUBSET OutputKeys],
             PrepareGroup(g, U)
      PROVE  /\ groups' = [h \in Groups |-> groups'[h]]
             /\ registry' = registry
             /\ \A h \in Groups : groups'[h] = groups[h] \/
                   (CanPrepare(registry, U) /\ groups'[h] = RegPrepare(registry, U))
  BY <1>3 DEF PrepareGroup, RegistryInv, RegistryTypeOK
<1> QED
  BY <1>1, <1>2, <1>3 DEF RegistryNext, StartTask, Complete, Fail, Skip, SetOutput, MergeOutputs

\* An empty registry, before the first task is started, satisfies the invariant.
LEMMA RegistryInitInv == RegistryInit => RegistryInv
<1> SUFFICES ASSUME RegistryInit PROVE RegistryInv
  OBVIOUS
<1>1. NoOutputs \in [OutputKeys -> 0 .. MaxRevision]
  BY RegistryAssumption DEF NoOutputs
<1>2. {k \in OutputKeys : NoOutputs[k] # 0} = {}
  BY DEF NoOutputs
<1>3. OutputsFit(NoOutputs)
  BY <1>2, FS_EmptySet, RegistryAssumption DEF OutputsFit
<1>4. registry \in [Tasks -> Slot] /\ OutputsBounded
  BY <1>1, <1>3, RegistryAssumption DEF RegistryInit, RegCreate, Slot, TaskState, OutputsBounded
<1>5. /\ groups = [g \in Groups |-> groups[g]]
      /\ \A g \in Groups : DOMAIN groups[g] = {} /\ groups[g] \in [DOMAIN groups[g] -> Entry]
  BY DEF RegistryInit, NoGroup
<1> QED
  BY <1>4, <1>5 DEF RegistryInv, RegistryTypeOK, FreshEntryMatches

\* An entry kept by a step still matches: if its task changed, its revision is
\* in the past from now on.
LEMMA KeptEntry ==
    ASSUME NEW e \in Entry, NEW old \in Slot, NEW new,
           OutputsFit(old.outputs),
           new = old \/ SlotStep(old, new),
           e.revision <= old.revision,
           ~Finalized(e.state),
           e.revision = old.revision =>
              e.state = old.state /\ e.staged = StageUpdate(old, e.updates) /\ OutputsFit(e.staged)
    PROVE  /\ e.revision <= new.revision
           /\ e.revision = new.revision =>
              e.state = new.state /\ e.staged = StageUpdate(new, e.updates) /\ OutputsFit(e.staged)
<1>1. CASE new = old
  BY <1>1
<1>2. CASE SlotStep(old, new)
  <2>1. new.revision = old.revision + 1
    BY <1>2, SlotStepKeeps
  <2>2. e.revision \in Nat /\ old.revision \in Nat
    BY DEF Entry, Slot
  <2> QED
    BY <2>1, <2>2
<1> QED
  BY <1>1, <1>2

\* An entry that was just prepared matches the slot it was prepared from.
LEMMA NewEntry ==
    ASSUME NEW slot \in Slot, NEW K \in SUBSET OutputKeys, Mutable(slot),
           OutputsFit(StageUpdate(slot, K)), NEW e,
           e = [updates |-> K, staged |-> StageUpdate(slot, K),
                state |-> slot.state, revision |-> slot.revision]
    PROVE  /\ e \in Entry
           /\ e.revision <= slot.revision
           /\ ~Finalized(e.state)
           /\ e.state = slot.state
           /\ e.staged = StageUpdate(slot, e.updates)
           /\ OutputsFit(e.staged)
<1>1. StageUpdate(slot, K) \in [OutputKeys -> 0 .. MaxRevision]
  BY StageUpdateType DEF Mutable
<1>2. slot.revision \in 0 .. MaxRevision /\ slot.state \in TaskState
  BY DEF Slot
<1> QED
  BY <1>1, <1>2 DEF Entry, Mutable

\* One step of the registry.
LEMMA RegistryStepInv ==
    ASSUME RegistryInv, [RegistryNext]_registryVars
    PROVE  RegistryInv'
<1>1. CASE UNCHANGED registryVars
  BY <1>1 DEF registryVars, RegistryInv, RegistryTypeOK, OutputsBounded, FreshEntryMatches
<1>2. CASE RegistryNext
  <2>1. /\ registry' = [t \in Tasks |-> registry'[t]]
        /\ \A t \in Tasks : registry'[t] = registry[t] \/ SlotStep(registry[t], registry'[t])
    BY <1>2, StepIsSlotStep
  <2>2. \A t \in Tasks : registry[t] \in Slot /\ OutputsFit(registry[t].outputs)
    BY DEF RegistryInv, RegistryTypeOK, OutputsBounded
  <2>3. \A t \in Tasks : registry'[t] \in Slot /\ OutputsFit(registry'[t].outputs)
    BY <2>1, <2>2, SlotStepKeeps
  <2>4. registry' \in [Tasks -> Slot] /\ OutputsBounded'
    BY <2>1, <2>3 DEF OutputsBounded
  <2>5. ASSUME NEW g \in Groups
        PROVE  /\ DOMAIN groups'[g] \subseteq Tasks
               /\ groups'[g] \in [DOMAIN groups'[g] -> Entry]
               /\ \A t \in DOMAIN groups'[g] :
                     /\ groups'[g][t].revision <= registry'[t].revision
                     /\ ~Finalized(groups'[g][t].state)
                     /\ groups'[g][t].revision = registry'[t].revision =>
                           /\ groups'[g][t].state = registry'[t].state
                           /\ groups'[g][t].staged = StageUpdate(registry'[t], groups'[g][t].updates)
                           /\ OutputsFit(groups'[g][t].staged)
    <3>1. CASE groups'[g] = groups[g]
      <4>1. DOMAIN groups[g] \subseteq Tasks /\ groups[g] \in [DOMAIN groups[g] -> Entry]
        BY DEF RegistryInv, RegistryTypeOK
      <4>2. ASSUME NEW t \in DOMAIN groups[g]
            PROVE  /\ groups[g][t].revision <= registry'[t].revision
                   /\ ~Finalized(groups[g][t].state)
                   /\ groups[g][t].revision = registry'[t].revision =>
                         /\ groups[g][t].state = registry'[t].state
                         /\ groups[g][t].staged = StageUpdate(registry'[t], groups[g][t].updates)
                         /\ OutputsFit(groups[g][t].staged)
        <5>1. groups[g][t] \in Entry /\ t \in Tasks
          BY <4>1
        <5>2. /\ groups[g][t].revision <= registry[t].revision
              /\ ~Finalized(groups[g][t].state)
              /\ groups[g][t].revision = registry[t].revision =>
                    /\ groups[g][t].state = registry[t].state
                    /\ groups[g][t].staged = StageUpdate(registry[t], groups[g][t].updates)
                    /\ OutputsFit(groups[g][t].staged)
          BY DEF RegistryInv, FreshEntryMatches
        <5> QED
          BY <2>1, <2>2, <5>1, <5>2, KeptEntry
      <4> QED
        BY <3>1, <4>1, <4>2
    <3>2. CASE groups'[g] = NoGroup
      BY <3>2 DEF NoGroup
    <3>3. ASSUME registry' = registry,
                 NEW S \in SUBSET Tasks, NEW U \in [S -> SUBSET OutputKeys],
                 CanPrepare(registry, U), groups'[g] = RegPrepare(registry, U)
          PROVE  /\ DOMAIN groups'[g] = S
                 /\ \A t \in S :
                     /\ groups'[g][t] \in Entry
                     /\ groups'[g][t].revision <= registry'[t].revision
                     /\ ~Finalized(groups'[g][t].state)
                     /\ groups'[g][t].state = registry'[t].state
                     /\ groups'[g][t].staged = StageUpdate(registry'[t], groups'[g][t].updates)
                     /\ OutputsFit(groups'[g][t].staged)
      <4>1. DOMAIN groups'[g] = S
        BY <3>3 DEF RegPrepare
      <4>2. ASSUME NEW t \in S
            PROVE  /\ registry[t] \in Slot /\ U[t] \in SUBSET OutputKeys
                   /\ Mutable(registry[t]) /\ OutputsFit(StageUpdate(registry[t], U[t]))
                   /\ groups'[g][t] = [updates |-> U[t], staged |-> StageUpdate(registry[t], U[t]),
                                       state |-> registry[t].state, revision |-> registry[t].revision]
        BY <2>2, <3>3 DEF CanPrepare, RegPrepare
      <4> QED
        BY <3>3, <4>1, <4>2, NewEntry
    <3>4. CASE \E S \in SUBSET Tasks : \E U \in [S -> SUBSET OutputKeys] :
                  registry' = registry /\ CanPrepare(registry, U) /\ groups'[g] = RegPrepare(registry, U)
      <4>1. groups'[g] = [t \in DOMAIN groups'[g] |-> groups'[g][t]]
        BY <3>4 DEF RegPrepare
      <4> QED
        BY <3>3, <3>4, <4>1
    <3> QED
      BY <1>2, <3>1, <3>2, <3>4, GroupStep
  <2>6. groups' = [g \in Groups |-> groups'[g]]
    BY <1>2, GroupStep
  <2>7. RegistryTypeOK'
    BY <2>4, <2>5, <2>6 DEF RegistryTypeOK
  <2>8. FreshEntryMatches'
    BY <2>5 DEF FreshEntryMatches
  <2> QED
    BY <2>4, <2>7, <2>8 DEF RegistryInv
<1> QED
  BY <1>1, <1>2

\* The task registry keeps its types, the MAX_OUTPUTS bound and the match
\* between prepared entries and task slots after any sequence of calls.
THEOREM RegistryInvariant == RegistrySpec => []RegistryInv
<1>1. RegistryInv /\ [RegistryNext]_registryVars => RegistryInv'
  BY RegistryStepInv
<1> QED
  BY <1>1, RegistryInitInv, PTL DEF RegistrySpec

\* A prepared output group that passes the preflight of publish describes its
\* tasks exactly, restarts and other groups notwithstanding.
THEOREM FreshEntryMatchesAlways == RegistrySpec => []FreshEntryMatches
<1>1. RegistryInv => FreshEntryMatches
  BY DEF RegistryInv
<1> QED
  BY <1>1, RegistryInvariant, PTL

\* Each change of a task consumes exactly one revision.
THEOREM OneRevisionPerChangeAlways == RegistrySpec => OneRevisionPerChange
<1>1. ASSUME RegistryInv, RegistryNext
      PROVE  \A t \in Tasks : registry'[t] # registry[t] =>
                 registry'[t].revision = registry[t].revision + 1
  BY <1>1, StepIsSlotStep, SlotStepKeeps DEF RegistryInv, RegistryTypeOK, OutputsBounded
<1>2. RegistryInv /\ [RegistryNext]_registryVars =>
        [\A t \in Tasks : registry'[t] # registry[t] =>
            registry'[t].revision = registry[t].revision + 1]_registryVars
  BY <1>1
<1> QED
  BY <1>2, RegistryInvariant, PTL DEF RegistrySpec, OneRevisionPerChange

\* A finalized task changes only by being started again.
THEOREM FinalizedImmutableAlways == RegistrySpec => FinalizedImmutable
<1>1. ASSUME RegistryInv, RegistryNext
      PROVE  \A t \in Tasks : Finalized(registry[t].state) =>
                 registry'[t] \in {registry[t], RegStart(registry[t])}
  BY <1>1, StepIsSlotStep, SlotStepKeeps DEF RegistryInv, RegistryTypeOK, OutputsBounded
<1>2. RegistryInv /\ [RegistryNext]_registryVars =>
        [\A t \in Tasks : Finalized(registry[t].state) =>
            registry'[t] \in {registry[t], RegStart(registry[t])}]_registryVars
  BY <1>1
<1> QED
  BY <1>2, RegistryInvariant, PTL DEF RegistrySpec, FinalizedImmutable

\* No publication loses or reverts an output stored after the group was
\* prepared.
THEOREM NoLostOutputAlways == RegistrySpec => NoLostOutput
<1>1. ASSUME RegistryInv, RegistryNext
      PROVE  \A t \in Tasks : \A k \in OutputKeys :
                registry'[t].outputs[k] # registry[t].outputs[k] =>
                    \/ registry'[t].outputs[k] = registry[t].revision + 1
                    \/ registry'[t] = RegStart(registry[t])
  BY <1>1, StepIsSlotStep, SlotStepKeeps DEF RegistryInv, RegistryTypeOK, OutputsBounded
<1>2. RegistryInv /\ [RegistryNext]_registryVars =>
        [\A t \in Tasks : \A k \in OutputKeys :
            registry'[t].outputs[k] # registry[t].outputs[k] =>
                \/ registry'[t].outputs[k] = registry[t].revision + 1
                \/ registry'[t] = RegStart(registry[t])]_registryVars
  BY <1>1
<1> QED
  BY <1>2, RegistryInvariant, PTL DEF RegistrySpec, NoLostOutput

\* A group that is published is published whole.
THEOREM PublishAllOrNothingAlways == RegistrySpec => PublishAllOrNothing
<1>1. ASSUME RegistryInv, RegistryNext, NEW g \in Groups, groups'[g] = NoGroup, groups[g] # NoGroup,
             registry' # registry, NEW t \in DOMAIN groups[g], groups[g][t].updates # {}
      PROVE  registry'[t].outputs = groups[g][t].staged
  <2>1. groups' # groups
    BY <1>1
  <2>2. PICK h \in Groups : PublishGroup(h)
    BY <1>1, <2>1 DEF RegistryNext, StartTask, Complete, Fail, Skip, SetOutput, MergeOutputs,
                      PrepareGroup, DiscardGroup
  <2>3. h = g
    BY <1>1, <2>2 DEF PublishGroup, RegistryInv, RegistryTypeOK
  <2>4. t \in Tasks /\ registry[t] \in Slot
    BY <1>1 DEF RegistryInv, RegistryTypeOK
  <2>5. registry'[t] = StoreOutputs(registry[t], groups[g][t].staged)
    BY <1>1, <2>2, <2>3, <2>4 DEF PublishGroup, RegPublish
  <2> QED
    BY <2>4, <2>5 DEF StoreOutputs, Slot
<1>2. RegistryInv /\ [RegistryNext]_registryVars =>
        [\A g \in Groups :
            (groups'[g] = NoGroup /\ groups[g] # NoGroup /\ registry' # registry) =>
                \A t \in DOMAIN groups[g] :
                    groups[g][t].updates # {} => registry'[t].outputs = groups[g][t].staged]_registryVars
  BY <1>1
<1> QED
  BY <1>2, RegistryInvariant, PTL DEF RegistrySpec, PublishAllOrNothing

-----------------------------------------------------------------------------
(* Sets of numbers and the size of a store.                                   *)

\* A set of natural numbers has a least element: a proof that goes through the
\* touched keys in order looks at the first one that goes wrong.
LEMMA LeastNumber ==
    ASSUME NEW T \in SUBSET Nat, T # {}
    PROVE  \E n \in T : \A m \in T : n <= m
<1>1. PICK n \in T : \A m \in T : ~ (<<m, n>> \in OpToRel(<, Nat))
  BY NatLessThanWellFounded, WFMin
<1>2. \A m \in T : ~ (m < n)
  BY <1>1 DEF OpToRel
<1> QED
  BY <1>2

\* The entries of a store are finitely many.
LEMMA SizeIsNumber ==
    ASSUME NEW s
    PROVE  IsFiniteSet(Present(s)) /\ StoreSize(s) \in Nat
<1>1. Present(s) \in SUBSET Keys
  BY DEF Present
<1> QED
  BY <1>1, StoreAssumption, FS_Subset, FS_CardinalityType DEF StoreSize

\* Less entries need less slots.
LEMMA SizeGrows ==
    ASSUME NEW s, NEW t, Present(s) \subseteq Present(t)
    PROVE  StoreSize(s) <= StoreSize(t)
BY SizeIsNumber, FS_Subset DEF StoreSize

\* One entry more needs one slot more at most.
LEMMA SizeOfOneMore ==
    ASSUME NEW s, NEW t, NEW k, Present(t) \subseteq Present(s) \cup {k}, CanSet(s, k), k \in Keys,
           StoreSize(s) <= Capacity
    PROVE  StoreSize(t) <= Capacity
<1>1. IsFiniteSet(Present(s)) /\ StoreSize(s) \in Nat /\ StoreSize(t) \in Nat
  BY SizeIsNumber
<1>2. CASE s[k] # Absent
  <2>1. Present(t) \subseteq Present(s)
    BY <1>2 DEF Present
  <2> QED
    BY <1>1, <2>1, SizeGrows, StoreAssumption
<1>3. CASE StoreSize(s) < Capacity
  <2>1. /\ IsFiniteSet(Present(s) \cup {k})
        /\ Cardinality(Present(s) \cup {k}) <= StoreSize(s) + 1
    <3>1. /\ IsFiniteSet(Present(s) \cup {k})
          /\ \/ Cardinality(Present(s) \cup {k}) = Cardinality(Present(s))
             \/ Cardinality(Present(s) \cup {k}) = Cardinality(Present(s)) + 1
      BY <1>1, FS_AddElement
    <3> QED
      BY <1>1, <3>1 DEF StoreSize
  <2>2. StoreSize(t) <= Cardinality(Present(s) \cup {k}) /\ Cardinality(Present(s) \cup {k}) \in Nat
    BY <2>1, FS_Subset, FS_CardinalityType DEF StoreSize
  <2> QED
    BY <1>1, <1>3, <2>1, <2>2, StoreAssumption
<1> QED
  BY <1>2, <1>3 DEF CanSet

-----------------------------------------------------------------------------
(* The list of touched keys.                                                  *)

\* txn_record() adds the key to the keys touched, once, and within the list.
LEMMA RecordOpAdds ==
    ASSUME NEW x \in TxnRecord, NEW k \in Keys, CanRecord(x, k), Len(x.ops) <= Capacity,
           \A i, j \in 1 .. Len(x.ops) : x.ops[i] = x.ops[j] => i = j
    PROVE  /\ RecordOp(x, k) \in Seq(Keys) /\ Len(RecordOp(x, k)) <= Capacity
           /\ \A i, j \in 1 .. Len(RecordOp(x, k)) : RecordOp(x, k)[i] = RecordOp(x, k)[j] => i = j
           /\ {RecordOp(x, k)[i] : i \in 1 .. Len(RecordOp(x, k))} = Touched(x) \cup {k}
<1>1. x.ops \in Seq(Keys) /\ Len(x.ops) \in Nat
  BY DEF TxnRecord
<1>2. CASE k \in Touched(x)
  BY <1>1, <1>2 DEF RecordOp, Touched
<1>3. CASE k \notin Touched(x)
  <2> DEFINE r == Append(x.ops, k)
  <2>1. RecordOp(x, k) = r
    BY <1>3 DEF RecordOp
  <2>2. r \in Seq(Keys) /\ Len(r) = Len(x.ops) + 1 /\ r[Len(x.ops) + 1] = k
    BY <1>1
  <2>3. \A i \in 1 .. Len(x.ops) : r[i] = x.ops[i] /\ x.ops[i] # k
    BY <1>1, <1>3 DEF Touched
  <2>4. Len(r) <= Capacity
    BY <1>1, <1>3, <2>2, StoreAssumption DEF CanRecord
  <2> HIDE DEF r
  <2>5. \A i \in 1 .. Len(r) : i \in 1 .. Len(x.ops) \/ i = Len(x.ops) + 1
    BY <1>1, <2>2
  <2>6. \A i, j \in 1 .. Len(r) : r[i] = r[j] => i = j
    BY <2>2, <2>3, <2>5
  <2>7. {r[i] : i \in 1 .. Len(r)} = Touched(x) \cup {k}
    <3>1. \A i \in 1 .. Len(r) : r[i] \in Touched(x) \cup {k}
      BY <2>2, <2>3, <2>5 DEF Touched
    <3>2. \A i \in 1 .. Len(x.ops) : i \in 1 .. Len(r)
      BY <1>1, <2>2
    <3>3. Touched(x) \subseteq {r[i] : i \in 1 .. Len(r)}
      BY <2>3, <3>2 DEF Touched
    <3>4. Len(x.ops) + 1 \in 1 .. Len(r)
      BY <1>1, <2>2
    <3> QED
      BY <2>2, <3>1, <3>3, <3>4
  <2> QED
    BY <2>1, <2>2, <2>4, <2>6, <2>7
<1> QED
  BY <1>2, <1>3

\* The keys touched are keys.
LEMMA TouchedAreKeys == ASSUME NEW x \in TxnRecord PROVE Touched(x) \subseteq Keys
BY DEF TxnRecord, Touched

-----------------------------------------------------------------------------
(* Commits.                                                                   *)

\* What txn_commit() makes of each entry.
LEMMA CommitByKey ==
    ASSUME NEW s \in Contents, NEW x \in TxnRecord
    PROVE  /\ CommitResult(s, x) \in Contents
           /\ \A k \in Keys : CommitResult(s, x)[k] = IF k \in Touched(x) THEN x.working[k] ELSE s[k]
BY DEF CommitResult, AppliedOps, Touched, Contents, TxnRecord

\* Each insertion of txn_commit() has found a free slot at its turn, so the
\* store is within its capacity at the end.
LEMMA CommitFits ==
    ASSUME NEW s \in Contents, StoreSize(s) <= Capacity, NEW x \in TxnRecord, CommitOK(s, x)
    PROVE  StoreSize(CommitResult(s, x)) <= Capacity
<1> DEFINE After(n) == AppliedOps(s, x, n)
           Over == {n \in 0 .. Len(x.ops) : ~ (StoreSize(After(n)) <= Capacity)}
<1>1. x.ops \in Seq(Keys) /\ Len(x.ops) \in Nat /\ x.working \in Contents
  BY DEF TxnRecord
<1>2. SUFFICES ASSUME Over # {} PROVE FALSE
  BY <1>1 DEF CommitResult
<1>3. PICK n \in Over : \A m \in Over : n <= m
  <2>1. Over \in SUBSET Nat
    BY <1>1
  <2> HIDE DEF Over
  <2> QED
    BY <1>2, <2>1, LeastNumber
<1>4. n # 0
  <2>1. Present(After(0)) = Present(s)
    BY DEF AppliedOps, Present, Contents
  <2> QED
    BY <2>1 DEF StoreSize
<1>5. n - 1 \in 0 .. Len(x.ops) /\ n \in 1 .. Len(x.ops) /\ x.ops[n] \in Keys
  BY <1>1, <1>4
<1>6. StoreSize(After(n - 1)) <= Capacity
  <2>1. ~ (n <= n - 1)
    BY <1>5
  <2> QED
    BY <1>3, <1>5, <2>1
<1>7. \A k \in Keys : k # x.ops[n] => After(n)[k] = After(n - 1)[k]
  <2>1. \A i \in 1 .. n : i \in 1 .. n - 1 \/ i = n
    BY <1>5
  <2>2. \A i \in 1 .. n - 1 : i \in 1 .. n
    BY <1>5
  <2> QED
    BY <2>1, <2>2 DEF AppliedOps
<1>8. After(n)[x.ops[n]] = x.working[x.ops[n]]
  BY <1>5 DEF AppliedOps
<1>9. CASE x.working[x.ops[n]] = Absent
  <2>1. Present(After(n)) \subseteq Present(After(n - 1))
    BY <1>7, <1>8, <1>9 DEF Present
  <2>2. StoreSize(After(n)) <= StoreSize(After(n - 1))
    BY <2>1, SizeGrows
  <2> QED
    BY <1>6, <2>2, SizeIsNumber, StoreAssumption
<1>10. CASE x.working[x.ops[n]] # Absent
  <2>1. CanSet(After(n - 1), x.ops[n])
    BY <1>5, <1>10 DEF CommitOK
  <2>2. Present(After(n)) \subseteq Present(After(n - 1)) \cup {x.ops[n]}
    BY <1>7 DEF Present
  <2> QED
    BY <1>5, <1>6, <2>1, <2>2, SizeOfOneMore
<1> QED
  BY <1>9, <1>10

\* What txn_commit_group() makes of each entry, when no key is touched twice.
LEMMA GroupByKey ==
    ASSUME NEW s \in Contents, NEW T \in [Txns -> TxnRecord], NEW X \in SUBSET Txns, GroupDisjoint(T, X)
    PROVE  /\ GroupResult(s, T, X) \in Contents
           /\ \A k \in Keys : \A x \in X : k \in Touched(T[x]) => GroupResult(s, T, X)[k] = T[x].working[k]
           /\ \A k \in Keys : (\A x \in X : k \notin Touched(T[x])) => GroupResult(s, T, X)[k] = s[k]
<1>1. \A x \in X : T[x].working \in Contents
  BY DEF TxnRecord
<1>2. \A k \in Keys : GroupErased(s, T, X)[k] \in {s[k], Absent}
  BY DEF GroupErased
<1>3. \A k \in GroupWrites(T, X) :
         (CHOOSE x \in GroupWriters(T, X, k) : TRUE) \in GroupWriters(T, X, k)
  BY DEF GroupWrites
<1>4. \A k \in Keys : \A x, y \in X : k \in Touched(T[x]) /\ k \in Touched(T[y]) => x = y
  BY DEF GroupDisjoint
<1>5. GroupResult(s, T, X) \in Contents
  <2>1. \A k \in GroupWrites(T, X) :
           T[CHOOSE x \in GroupWriters(T, X, k) : TRUE].working[k] \in Values \cup {Absent}
    BY <1>1, <1>3 DEF GroupWrites, GroupWriters, Contents
  <2>2. \A k \in Keys : GroupErased(s, T, X)[k] \in Values \cup {Absent}
    BY <1>2 DEF Contents
  <2> QED
    BY <2>1, <2>2 DEF GroupResult, Contents
<1>6. ASSUME NEW k \in Keys, NEW x \in X, k \in Touched(T[x])
      PROVE  GroupResult(s, T, X)[k] = T[x].working[k]
  <2>1. CASE T[x].working[k] = Absent
    <3>1. k \notin GroupWrites(T, X)
      BY <1>4, <1>6, <2>1 DEF GroupWrites, GroupWriters
    <3>2. GroupErased(s, T, X)[k] = Absent
      BY <1>6, <2>1 DEF GroupErased
    <3> QED
      BY <2>1, <3>1, <3>2 DEF GroupResult
  <2>2. CASE T[x].working[k] # Absent
    <3>1. k \in GroupWrites(T, X)
      BY <1>6, <2>2 DEF GroupWrites, GroupWriters
    <3>2. (CHOOSE y \in GroupWriters(T, X, k) : TRUE) = x
      BY <1>3, <1>4, <1>6, <3>1 DEF GroupWriters
    <3> QED
      BY <3>1, <3>2 DEF GroupResult
  <2> QED
    BY <2>1, <2>2
<1>7. ASSUME NEW k \in Keys, \A x \in X : k \notin Touched(T[x])
      PROVE  GroupResult(s, T, X)[k] = s[k]
  <2>1. k \notin GroupWrites(T, X)
    BY <1>7 DEF GroupWrites, GroupWriters
  <2>2. GroupErased(s, T, X)[k] = s[k]
    BY <1>7 DEF GroupErased
  <2> QED
    BY <2>1, <2>2 DEF GroupResult
<1> QED
  BY <1>5, <1>6, <1>7

\* What txn_commit_group() counts before it inserts is the size of its result.
LEMMA GroupCounts ==
    ASSUME NEW s \in Contents, NEW T \in [Txns -> TxnRecord], NEW X \in SUBSET Txns, GroupDisjoint(T, X)
    PROVE  GroupFits(s, T, X) <=> StoreSize(GroupResult(s, T, X)) <= Capacity
<1> DEFINE W == GroupWrites(T, X)
           E == GroupErased(s, T, X)
           R == GroupResult(s, T, X)
<1>1. Present(R) = W \cup Present(E)
  <2>1. \A k \in W : R[k] # Absent
    <3> TAKE k \in W
    <3>1. (CHOOSE x \in GroupWriters(T, X, k) : TRUE) \in GroupWriters(T, X, k)
      BY DEF GroupWrites
    <3> QED
      BY <3>1 DEF GroupResult, GroupWriters, GroupWrites
  <2>2. \A k \in Keys \ W : R[k] = E[k]
    BY DEF GroupResult
  <2>3. W \subseteq Keys
    BY DEF GroupWrites
  <2> QED
    BY <2>1, <2>2, <2>3 DEF Present
<1>2. /\ IsFiniteSet(W) /\ IsFiniteSet(Present(E))
  BY StoreAssumption, FS_Subset, SizeIsNumber DEF GroupWrites
<1> HIDE DEF W, E, R
<1>3. IsFiniteSet(W \ Present(E)) /\ Cardinality(W \ Present(E)) \in Nat
  BY <1>2, FS_Difference, FS_CardinalityType
<1>4. (W \ Present(E)) \cup Present(E) = W \cup Present(E) /\ (W \ Present(E)) \cap Present(E) = {}
  OBVIOUS
<1>5. Cardinality(W \cup Present(E)) =
         Cardinality(W \ Present(E)) + Cardinality(Present(E)) - Cardinality((W \ Present(E)) \cap Present(E))
  BY <1>2, <1>3, <1>4, FS_Union
<1>6. StoreSize(R) = Cardinality(W \ Present(E)) + StoreSize(E)
  <2>1. Cardinality((W \ Present(E)) \cap Present(E)) = 0 /\ Cardinality(Present(E)) \in Nat
    BY <1>2, <1>4, FS_EmptySet, FS_CardinalityType
  <2>2. Cardinality(W \cup Present(E)) = Cardinality(W \ Present(E)) + Cardinality(Present(E))
    BY <1>3, <1>5, <2>1
  <2> QED
    BY <1>1, <2>2 DEF StoreSize
<1> QED
  BY <1>6 DEF GroupFits, W, E, R

-----------------------------------------------------------------------------
(* The machine.                                                               *)

\* What is inductive of StoreInv; GroupIsSerial follows from it.
StoreIInv == StoreTypeOK /\ CapacityRespected /\ OpsCoverWrites

\* One transaction object, within its capacity and with all its writes recorded.
TxnWell(x) ==
    /\ x \in TxnRecord
    /\ StoreSize(x.working) <= Capacity /\ Len(x.ops) <= Capacity
    /\ \A k \in Keys : x.working[k] # x.baseline[k] => k \in Touched(x)
    /\ \A i, j \in 1 .. Len(x.ops) : x.ops[i] = x.ops[j] => i = j

\* The invariant holds of the store and of each transaction by itself.
LEMMA Separately ==
    StoreIInv <=> /\ store \in Contents /\ StoreSize(store) <= Capacity
                  /\ txn \in [Txns -> TxnRecord] /\ \A x \in Txns : TxnWell(txn[x])
BY DEF StoreIInv, StoreTypeOK, CapacityRespected, OpsCoverWrites, TxnWell

\* ... and in the next state.
LEMMA SeparatelyNext ==
    StoreIInv' <=> /\ store' \in Contents /\ StoreSize(store') <= Capacity
                   /\ txn' \in [Txns -> TxnRecord] /\ \A x \in Txns : TxnWell(txn'[x])
BY DEF StoreIInv, StoreTypeOK, CapacityRespected, OpsCoverWrites, TxnWell, StoreSize, Present, Touched

\* A transaction object that was never used, or is used no more.
LEMMA NoTxnWell == EmptyStore \in Contents /\ StoreSize(EmptyStore) <= Capacity /\ TxnWell(NoTxn)
<1>1. EmptyStore \in Contents
  BY DEF EmptyStore, Contents
<1>2. StoreSize(EmptyStore) = 0
  <2>1. Present(EmptyStore) = {}
    BY DEF EmptyStore, Present
  <2> QED
    BY <2>1, FS_EmptySet DEF StoreSize
<1>3. NoTxn.ops = <<>> /\ NoTxn.working = EmptyStore /\ NoTxn.baseline = EmptyStore /\ Len(<<>>) = 0
  BY DEF NoTxn
<1>4. NoTxn \in TxnRecord
  BY <1>1 DEF NoTxn, TxnRecord
<1> QED
  BY <1>1, <1>2, <1>3, <1>4, StoreAssumption DEF TxnWell

\* A transaction that has just begun.
LEMMA BeginWell == ASSUME NEW s \in Contents, StoreSize(s) <= Capacity PROVE TxnWell(TxnBegin(s))
<1>1. TxnBegin(s).ops = <<>> /\ TxnBegin(s).working = s /\ TxnBegin(s).baseline = s /\ Len(<<>>) = 0
  BY DEF TxnBegin
<1>2. TxnBegin(s) \in TxnRecord
  BY DEF TxnBegin, TxnRecord
<1> QED
  BY <1>1, <1>2, StoreAssumption DEF TxnWell

\* A write or an erasure of one key in a working copy, with its record.
LEMMA WriteWell ==
    ASSUME NEW x, TxnWell(x), NEW k \in Keys, NEW v \in Values \cup {Absent}, CanRecord(x, k),
           v # Absent => CanSet(x.working, k)
    PROVE  TxnWell([x EXCEPT !.working[k] = v, !.ops = RecordOp(x, k)])
<1> DEFINE y == [x EXCEPT !.working[k] = v, !.ops = RecordOp(x, k)]
<1>1. x \in TxnRecord
  BY DEF TxnWell
<1>2. /\ RecordOp(x, k) \in Seq(Keys) /\ Len(RecordOp(x, k)) <= Capacity
      /\ \A i, j \in 1 .. Len(RecordOp(x, k)) : RecordOp(x, k)[i] = RecordOp(x, k)[j] => i = j
      /\ {RecordOp(x, k)[i] : i \in 1 .. Len(RecordOp(x, k))} = Touched(x) \cup {k}
  BY <1>1, RecordOpAdds DEF TxnWell
<1>3. /\ y.working = [x.working EXCEPT ![k] = v] /\ y.ops = RecordOp(x, k) /\ y.baseline = x.baseline
      /\ x.working \in Contents
  BY <1>1 DEF TxnRecord
<1>4. y \in TxnRecord
  <2>1. [x.working EXCEPT ![k] = v] \in Contents
    BY <1>3 DEF Contents
  <2> QED
    BY <1>1, <1>2, <2>1 DEF TxnRecord
<1> HIDE DEF y
<1>5. Touched(y) = Touched(x) \cup {k}
  <2>1. Touched(y) = {RecordOp(x, k)[i] : i \in 1 .. Len(RecordOp(x, k))}
    BY <1>3 DEF Touched
  <2> QED
    BY <1>2, <2>1
<1>6. StoreSize(y.working) <= Capacity
  <2>1. CASE v = Absent
    <3>1. Present(y.working) \subseteq Present(x.working)
      BY <1>3, <2>1 DEF Present, Contents
    <3>2. StoreSize(y.working) <= StoreSize(x.working)
      BY <3>1, SizeGrows
    <3> QED
      BY <3>2, SizeIsNumber, StoreAssumption DEF TxnWell
  <2>2. CASE v # Absent
    <3>1. Present(y.working) \subseteq Present(x.working) \cup {k}
      BY <1>3 DEF Present, Contents
    <3> QED
      BY <2>2, <3>1, SizeOfOneMore DEF TxnWell
  <2> QED
    BY <2>1, <2>2
<1>7. \A h \in Keys : y.working[h] # y.baseline[h] => h \in Touched(y)
  BY <1>3, <1>5 DEF TxnWell, Contents
<1> QED
  BY <1>2, <1>3, <1>4, <1>6, <1>7 DEF TxnWell, y

\* Commits and aborts reset the objects of X and leave the others alone.
LEMMA ClosedWell ==
    ASSUME NEW T \in [Txns -> TxnRecord], \A x \in Txns : TxnWell(T[x]), NEW X
    PROVE  /\ Closed(T, X) \in [Txns -> TxnRecord] /\ \A x \in Txns : TxnWell(Closed(T, X)[x])
           /\ \A x \in Txns : Closed(T, X)[x] = IF x \in X THEN NoTxn ELSE T[x]
<1>1. \A x \in Txns : Closed(T, X)[x] = IF x \in X THEN NoTxn ELSE T[x]
  BY DEF Closed
<1>2. \A x \in Txns : TxnWell(Closed(T, X)[x])
  BY <1>1, NoTxnWell
<1>3. Closed(T, X) \in [Txns -> TxnRecord]
  BY NoTxnWell DEF Closed, TxnWell
<1> QED
  BY <1>1, <1>2, <1>3

\* Every operation of value_store.c keeps the invariant.
LEMMA StoreStepKeeps == ASSUME StoreIInv, StoreNext PROVE StoreIInv'
<1>1. /\ store \in Contents /\ StoreSize(store) <= Capacity
      /\ txn \in [Txns -> TxnRecord] /\ \A x \in Txns : TxnWell(txn[x])
  BY Separately
<1>2. ASSUME NEW K \in (SUBSET Keys) \ {{}}, NEW W \in [K -> Values], SetMany(W) PROVE StoreIInv'
  <2>1. /\ store' = [k \in Keys |-> IF k \in K THEN W[k] ELSE store[k]] /\ txn' = txn
        /\ Cardinality(K \cup Present(store)) <= Capacity
    BY <1>2 DEF SetMany
  <2>2. store' \in Contents
    BY <1>1, <2>1 DEF Contents
  <2>3. Present(store') \subseteq K \cup Present(store) /\ K \cup Present(store) \subseteq Keys
    BY <2>1 DEF Present
  <2>4. StoreSize(store') <= Capacity
    <3>1. IsFiniteSet(K \cup Present(store))
      BY <2>3, StoreAssumption, FS_Subset
    <3>2. StoreSize(store') <= Cardinality(K \cup Present(store)) /\ Cardinality(K \cup Present(store)) \in Nat
      BY <2>3, <3>1, FS_Subset, FS_CardinalityType DEF StoreSize
    <3> QED
      BY <2>1, <3>2, SizeIsNumber, StoreAssumption
  <2> QED
    BY <1>1, <2>1, <2>2, <2>4, SeparatelyNext
<1>3. ASSUME NEW k \in Keys, Erase(k) PROVE StoreIInv'
  <2>1. store' = [store EXCEPT ![k] = Absent] /\ txn' = txn
    BY <1>3 DEF Erase
  <2>2. store' \in Contents /\ Present(store') \subseteq Present(store)
    BY <1>1, <2>1 DEF Contents, Present
  <2>3. StoreSize(store') <= Capacity
    BY <1>1, <2>2, SizeGrows, SizeIsNumber, StoreAssumption
  <2> QED
    BY <1>1, <2>1, <2>2, <2>3, SeparatelyNext
<1>4. ASSUME NEW source \in Sources, ReplaceClone(source) PROVE StoreIInv'
  <2>1. store' = source /\ txn' = txn
    BY <1>4 DEF ReplaceClone
  <2>2. source \in Contents /\ StoreSize(source) <= Capacity
    BY StoreAssumption DEF Contents, StoreSize, Present
  <2> QED
    BY <1>1, <2>1, <2>2, SeparatelyNext
<1>5. ASSUME NEW x \in Txns, Begin(x) PROVE StoreIInv'
  <2>1. txn' = [txn EXCEPT ![x] = TxnBegin(store)] /\ store' = store /\ TxnWell(TxnBegin(store))
    BY <1>1, <1>5, BeginWell DEF Begin
  <2> QED
    BY <1>1, <2>1, SeparatelyNext DEF TxnWell
<1>6. ASSUME NEW x \in Txns, NEW k \in Keys, NEW v \in Values \cup {Absent}, CanRecord(txn[x], k),
             v # Absent => CanSet(txn[x].working, k),
             txn' = [txn EXCEPT ![x] = [txn[x] EXCEPT !.working[k] = v, !.ops = RecordOp(txn[x], k)]],
             store' = store
      PROVE  StoreIInv'
  <2> DEFINE y == [txn[x] EXCEPT !.working[k] = v, !.ops = RecordOp(txn[x], k)]
  <2>1. TxnWell(y)
    BY <1>1, <1>6, WriteWell
  <2>2. txn' = [txn EXCEPT ![x] = y]
    BY <1>6
  <2> HIDE DEF y
  <2>3. txn' \in [Txns -> TxnRecord] /\ \A z \in Txns : TxnWell(txn'[z])
    BY <1>1, <2>1, <2>2 DEF TxnWell
  <2> QED
    BY <1>1, <1>6, <2>3, SeparatelyNext
<1>7. ASSUME NEW x \in Txns, NEW k \in Keys, EraseInTxn(x, k) PROVE StoreIInv'
  BY <1>6, <1>7 DEF EraseInTxn, CanTxnErase, TxnErase
<1>8. ASSUME NEW x \in Txns, NEW k \in Keys, NEW v \in ValuesOf[k], SetInTxn(x, k, v) PROVE StoreIInv'
  <2>1. v \in Values
    BY <1>8, StoreAssumption
  <2> QED
    BY <1>6, <1>8, <2>1 DEF SetInTxn, CanTxnSet, TxnSet
<1>9. ASSUME NEW x \in Txns, Commit(x) PROVE StoreIInv'
  <2>1. store' = CommitResult(store, txn[x]) /\ txn' = Closed(txn, {x}) /\ CommitOK(store, txn[x])
    BY <1>9 DEF Commit
  <2>2. txn[x] \in TxnRecord
    BY <1>1
  <2>3. store' \in Contents /\ StoreSize(store') <= Capacity
    BY <1>1, <2>1, <2>2, CommitByKey, CommitFits
  <2> QED
    BY <1>1, <2>1, <2>3, ClosedWell, SeparatelyNext
<1>10. ASSUME NEW x \in Txns, Abort(x) PROVE StoreIInv'
  BY <1>1, <1>10, ClosedWell, SeparatelyNext DEF Abort
<1>11. ASSUME NEW X \in SUBSET Txns, CommitGroup(X) PROVE StoreIInv'
  <2>1. /\ store' = GroupResult(store, txn, X) /\ txn' = Closed(txn, X)
        /\ GroupDisjoint(txn, X) /\ GroupFits(store, txn, X)
    BY <1>11 DEF CommitGroup, GroupCommitOK
  <2>2. store' \in Contents /\ StoreSize(store') <= Capacity
    BY <1>1, <2>1, GroupByKey, GroupCounts
  <2> QED
    BY <1>1, <2>1, <2>2, ClosedWell, SeparatelyNext
<1> QED
  BY <1>2, <1>3, <1>4, <1>5, <1>7, <1>8, <1>9, <1>10, <1>11 DEF StoreNext

-----------------------------------------------------------------------------
(* A group commit and the single commits.                                     *)

\* A group of two has the effect of the single commits in either order, and it
\* is refused only if the keys overlap or a single commit would be refused: a
\* branch that merges with others is as good as one that merges alone.
LEMMA SerialGroup == ASSUME StoreIInv PROVE GroupIsSerial
<1>1. /\ store \in Contents /\ StoreSize(store) <= Capacity
      /\ txn \in [Txns -> TxnRecord] /\ \A x \in Txns : TxnWell(txn[x])
  BY Separately
<1>2. SUFFICES ASSUME NEW x \in Txns, NEW y \in Txns, x # y, txn[x].active, txn[y].active,
                      UnchangedSinceBegin(store, txn[x])
               PROVE  /\ GroupCommitOK(store, txn, {x, y}) =>
                            /\ GroupResult(store, txn, {x, y}) = SerialResult(x, y)
                            /\ UnchangedSinceBegin(CommitResult(store, txn[x]), txn[y])
                      /\ SerialOK(x, y) /\ GroupDisjoint(txn, {x, y}) => GroupCommitOK(store, txn, {x, y})
  BY DEF GroupIsSerial
<1> DEFINE G == GroupResult(store, txn, {x, y})
           one == CommitResult(store, txn[x])
           both == SerialResult(x, y)
<1>3. {x, y} \in SUBSET Txns /\ txn[x] \in TxnRecord /\ txn[y] \in TxnRecord
  BY <1>1
<1>4. /\ one \in Contents /\ both \in Contents
      /\ \A k \in Keys : one[k] = IF k \in Touched(txn[x]) THEN txn[x].working[k] ELSE store[k]
      /\ \A k \in Keys : both[k] = IF k \in Touched(txn[y]) THEN txn[y].working[k] ELSE one[k]
  <2>1. /\ one \in Contents
        /\ \A k \in Keys : one[k] = IF k \in Touched(txn[x]) THEN txn[x].working[k] ELSE store[k]
    BY <1>1, <1>3, CommitByKey
  <2> HIDE DEF one
  <2>2. both = CommitResult(one, txn[y])
    BY DEF SerialResult, one
  <2> HIDE DEF both
  <2> QED
    BY <1>3, <2>1, <2>2, CommitByKey
<1>5. ASSUME GroupDisjoint(txn, {x, y})
      PROVE  /\ G = both
             /\ UnchangedSinceBegin(one, txn[y]) <=> UnchangedSinceBegin(store, txn[y])
  <2>1. \A k \in Keys : k \in Touched(txn[x]) => k \notin Touched(txn[y])
    BY <1>2, <1>5 DEF GroupDisjoint
  <2>2. /\ G \in Contents
        /\ \A k \in Keys : k \in Touched(txn[x]) => G[k] = txn[x].working[k]
        /\ \A k \in Keys : k \in Touched(txn[y]) => G[k] = txn[y].working[k]
        /\ \A k \in Keys : k \notin Touched(txn[x]) /\ k \notin Touched(txn[y]) => G[k] = store[k]
    <3>1. /\ G \in Contents
          /\ \A k \in Keys : \A z \in {x, y} : k \in Touched(txn[z]) => G[k] = txn[z].working[k]
          /\ \A k \in Keys : (\A z \in {x, y} : k \notin Touched(txn[z])) => G[k] = store[k]
      BY <1>1, <1>3, <1>5, GroupByKey
    <3> HIDE DEF G
    <3> QED
      BY <3>1
  <2> HIDE DEF G, one, both
  <2>3. \A k \in Keys : G[k] = both[k]
    BY <1>4, <2>1, <2>2
  <2>4. G = both
    BY <1>4, <2>2, <2>3 DEF Contents
  <2>5. \A k \in Touched(txn[y]) : one[k] = store[k]
    BY <1>3, <1>4, <2>1, TouchedAreKeys
  <2> QED
    BY <2>4, <2>5 DEF UnchangedSinceBegin
<1>6. ASSUME GroupCommitOK(store, txn, {x, y})
      PROVE  G = both /\ UnchangedSinceBegin(one, txn[y])
  <2>1. GroupDisjoint(txn, {x, y}) /\ UnchangedSinceBegin(store, txn[y])
    BY <1>6 DEF GroupCommitOK
  <2> QED
    BY <1>5, <2>1
<1>7. ASSUME SerialOK(x, y), GroupDisjoint(txn, {x, y})
      PROVE  GroupCommitOK(store, txn, {x, y})
  <2>1. CommitOK(store, txn[x]) /\ CommitOK(one, txn[y])
    BY <1>7 DEF SerialOK
  <2>2. StoreSize(one) <= Capacity
    BY <1>1, <1>3, <2>1, CommitFits
  <2>3. StoreSize(both) <= Capacity
    <3>1. both = CommitResult(one, txn[y])
      BY DEF SerialResult
    <3> HIDE DEF one
    <3> QED
      BY <1>3, <1>4, <2>1, <2>2, <3>1, CommitFits
  <2>4. GroupFits(store, txn, {x, y})
    BY <1>1, <1>3, <1>5, <1>7, <2>3, GroupCounts
  <2>5. UnchangedSinceBegin(store, txn[y])
    BY <1>5, <1>7, <2>1 DEF CommitOK
  <2> QED
    BY <1>2, <1>7, <2>4, <2>5 DEF GroupCommitOK
<1> QED
  BY <1>6, <1>7

-----------------------------------------------------------------------------
\* An empty store and no transaction.
LEMMA StoreStarts == ASSUME StoreInit PROVE StoreIInv
<1>1. store = EmptyStore /\ txn = [x \in Txns |-> NoTxn]
  BY DEF StoreInit
<1>2. txn \in [Txns -> TxnRecord] /\ \A x \in Txns : TxnWell(txn[x])
  BY <1>1, NoTxnWell DEF TxnWell
<1> QED
  BY <1>1, <1>2, NoTxnWell, Separately

\* A stuttering step.
LEMMA StoreStutters == ASSUME StoreIInv, UNCHANGED storeVars PROVE StoreIInv'
<1>1. store' = store /\ txn' = txn
  BY DEF storeVars
<1> QED
  BY <1>1, Separately, SeparatelyNext

\* For every capacity and any number of keys, values and open transactions:
\* neither the store nor a working copy overflows, no write is without its
\* record, and a group commit has the effect of single ones (value_store.c).
THEOREM StoreInvariant == StoreSpec => []StoreInv
<1>1. StoreInit => StoreIInv
  BY StoreStarts
<1>2. StoreIInv /\ [StoreNext]_storeVars => StoreIInv'
  BY StoreStepKeeps, StoreStutters
<1>3. StoreIInv => StoreInv
  BY SerialGroup DEF StoreIInv, StoreInv
<1> QED
  BY <1>1, <1>2, <1>3, PTL DEF StoreSpec

\* A step that closes transactions publishes what they touched and overwrites
\* nothing that they have not seen.
LEMMA CommitsLoseNothing ==
    ASSUME StoreIInv, StoreNext, store' # store, txn' # txn
    PROVE  OverwritesOnlySeen /\ PublishesAllTouched
<1>1. /\ store \in Contents /\ txn \in [Txns -> TxnRecord]
  BY DEF StoreIInv, StoreTypeOK
<1>2. ~NoTxn.active
  BY DEF NoTxn
<1>3. CASE \E x \in Txns : Commit(x)
  <2>1. PICK x \in Txns : Commit(x)
    BY <1>3
  <2>2. /\ txn[x].active /\ store' = CommitResult(store, txn[x]) /\ txn' = Closed(txn, {x})
        /\ UnchangedSinceBegin(store, txn[x])
    BY <2>1 DEF Commit, CommitOK
  <2>3. txn'[x] = NoTxn /\ \A z \in Txns \ {x} : txn'[z] = txn[z]
    BY <1>1, <2>2 DEF Closed
  <2>4. \A k \in Keys : store'[k] = IF k \in Touched(txn[x]) THEN txn[x].working[k] ELSE store[k]
    BY <1>1, <2>2, CommitByKey
  <2>5. OverwritesOnlySeen
    BY <1>2, <2>2, <2>3, <2>4 DEF OverwritesOnlySeen, UnchangedSinceBegin
  <2>6. PublishesAllTouched
    BY <1>1, <2>3, <2>4, TouchedAreKeys DEF PublishesAllTouched
  <2> QED
    BY <2>5, <2>6
<1>4. CASE \E X \in SUBSET Txns : CommitGroup(X)
  <2>1. PICK X \in SUBSET Txns : CommitGroup(X)
    BY <1>4
  <2>2. /\ store' = GroupResult(store, txn, X) /\ txn' = Closed(txn, X) /\ GroupDisjoint(txn, X)
        /\ \A x \in X : txn[x].active /\ UnchangedSinceBegin(store, txn[x])
    BY <2>1 DEF CommitGroup, GroupCommitOK
  <2>3. (\A x \in X : txn'[x] = NoTxn) /\ \A z \in Txns \ X : txn'[z] = txn[z]
    BY <1>1, <2>2 DEF Closed
  <2>4. /\ \A k \in Keys : \A x \in X : k \in Touched(txn[x]) => store'[k] = txn[x].working[k]
        /\ \A k \in Keys : (\A x \in X : k \notin Touched(txn[x])) => store'[k] = store[k]
    <3>1. GroupDisjoint(txn, X) /\ store \in Contents /\ txn \in [Txns -> TxnRecord]
      BY <1>1, <2>2
    <3>2. /\ \A k \in Keys : \A x \in X :
                k \in Touched(txn[x]) => GroupResult(store, txn, X)[k] = txn[x].working[k]
          /\ \A k \in Keys :
                (\A x \in X : k \notin Touched(txn[x])) => GroupResult(store, txn, X)[k] = store[k]
      BY <3>1, GroupByKey
    <3> QED
      BY <2>2, <3>2
  <2>5. OverwritesOnlySeen
    <3>1. SUFFICES ASSUME NEW k \in Keys, store'[k] # store[k]
                   PROVE  \E x \in Txns : /\ txn[x].active /\ ~txn'[x].active
                                          /\ store[k] = txn[x].baseline[k] /\ store'[k] = txn[x].working[k]
      BY DEF OverwritesOnlySeen
    <3>2. PICK x \in X : k \in Touched(txn[x])
      BY <2>4, <3>1
    <3>3. store[k] = txn[x].baseline[k] /\ store'[k] = txn[x].working[k]
      BY <2>2, <2>4, <3>2 DEF UnchangedSinceBegin
    <3> QED
      BY <1>2, <2>2, <2>3, <3>2, <3>3
  <2>6. PublishesAllTouched
    BY <1>1, <2>3, <2>4, TouchedAreKeys DEF PublishesAllTouched
  <2> QED
    BY <2>5, <2>6
<1>5. ASSUME ~ (\E x \in Txns : Commit(x)), ~ (\E X \in SUBSET Txns : CommitGroup(X)) PROVE FALSE
  BY <1>5 DEF StoreNext, SetMany, Erase, ReplaceClone, Begin, EraseInTxn, SetInTxn, Abort
<1> QED
  BY <1>3, <1>4, <1>5

\* No commit, alone or in a group, loses an update of anybody (value_store.c).
THEOREM NoUpdateIsLost == StoreSpec => NoLostUpdate
<1>1. StoreInit => StoreIInv
  BY StoreStarts
<1>2. StoreIInv /\ [StoreNext]_storeVars => StoreIInv'
  BY StoreStepKeeps, StoreStutters
<1>3. StoreIInv /\ [StoreNext]_storeVars
         => [(store' # store /\ txn' # txn) => OverwritesOnlySeen /\ PublishesAllTouched]_storeVars
  BY CommitsLoseNothing
<1> QED
  BY <1>1, <1>2, <1>3, PTL DEF StoreSpec, NoLostUpdate
=============================================================================
