--------------------------- MODULE DagState_proofs ---------------------------
(* Proofs about workflow_dag_state.c, for every number of tasks, every        *)
(* admitted graph, every concurrency limit and every caller buffer.           *)
EXTENDS DagState, FiniteSetTheorems, TLAPS

\* The set of tasks and each of its subsets is finite.
LEMMA TasksFinite ==
    /\ IsFiniteSet(Tasks)
    /\ Cardinality(Tasks) = Count
    /\ \A S \in SUBSET Tasks : IsFiniteSet(S) /\ Cardinality(S) \in Nat
  <1>1. IsFiniteSet(Tasks) /\ Cardinality(Tasks) = Count
    BY GraphAssumption, FS_Interval DEF Tasks
  <1>2. ASSUME NEW S \in SUBSET Tasks
        PROVE  IsFiniteSet(S) /\ Cardinality(S) \in Nat
    BY <1>1, FS_Subset, FS_CardinalityType
  <1> QED
    BY <1>1, <1>2

\* The size of a set split in two disjoint parts.
LEMMA DisjointSum ==
    ASSUME NEW A, NEW B, IsFiniteSet(A), IsFiniteSet(B), A \cap B = {}
    PROVE  /\ IsFiniteSet(A \cup B)
           /\ Cardinality(A \cup B) = Cardinality(A) + Cardinality(B)
           /\ Cardinality(A) \in Nat
           /\ Cardinality(B) \in Nat
  <1>1. Cardinality(A) \in Nat /\ Cardinality(B) \in Nat
    BY FS_CardinalityType
  <1>2. Cardinality(A \cap B) = 0
    BY FS_EmptySet
  <1>3. /\ IsFiniteSet(A \cup B)
        /\ Cardinality(A \cup B) = Cardinality(A) + Cardinality(B) - Cardinality(A \cap B)
    BY FS_Union, Zenon
  <1> QED
    BY <1>1, <1>2, <1>3

\* The edge positions of a graph that satisfy any condition form a finite set.
LEMMA EdgeSetsFinite ==
    ASSUME NEW g \in Graphs
    PROVE  /\ Len(g) \in Nat
           /\ \A i \in 1 .. Len(g) : g[i] \in Edge
           /\ \A S \in SUBSET (1 .. Len(g)) : IsFiniteSet(S) /\ Cardinality(S) \in Nat
  <1>1. g \in Seq(Edge)
    BY GraphAssumption
  <1>2. Len(g) \in Nat /\ \A i \in 1 .. Len(g) : g[i] \in Edge
    BY <1>1
  <1>3. IsFiniteSet(1 .. Len(g))
    BY <1>2, FS_Interval
  <1>4. ASSUME NEW S \in SUBSET (1 .. Len(g))
        PROVE  IsFiniteSet(S) /\ Cardinality(S) \in Nat
    BY <1>3, FS_Subset, FS_CardinalityType
  <1> QED
    BY <1>2, <1>4

\* finish() of a reserved task retires all its edges: every counter is at least
\* the number of edges still to be retired.
LEMMA RetireAll ==
    ASSUME DagInv, NEW t \in Tasks, dag.phase[t] = "RESERVED", dag.terminal = "CONTINUE"
    PROVE  /\ RetiredPrefix(dag, graph, t) = Len(graph)
           /\ \A u \in Tasks :
                 /\ EdgesBetween(graph, t, u, Len(graph)) \subseteq OpenEdges(graph, dag.phase, u)
                 /\ DagRetire(dag, graph, t)[u] =
                      Cardinality(OpenEdges(graph, [dag.phase EXCEPT ![t] = "FINISHED"], u))
  <1> DEFINE open(u) == OpenEdges(graph, dag.phase, u)
             between(u, n) == EdgesBetween(graph, t, u, n)
             after(u) == OpenEdges(graph, [dag.phase EXCEPT ![t] = "FINISHED"], u)
  <1>1. graph \in Graphs /\ dag \in DagRecord
    BY DEF DagInv, DagTypeOK
  <1>2. Len(graph) \in Nat /\ \A i \in 1 .. Len(graph) : graph[i] \in Edge
    BY <1>1, EdgeSetsFinite
  <1>3. \A u \in Tasks : dag.remaining[u] = Cardinality(open(u))
    BY DEF DagInv, RemainingExact
  <1>4. ASSUME NEW u \in Tasks, NEW n \in 0 .. Len(graph)
        PROVE  between(u, n) \subseteq open(u)
    BY <1>2 DEF EdgesBetween, OpenEdges, Incoming, Edge
  <1>5. ASSUME NEW u \in Tasks
        PROVE  IsFiniteSet(open(u)) /\ Cardinality(open(u)) \in Nat
    <2>1. open(u) \in SUBSET (1 .. Len(graph))
      BY DEF OpenEdges, Incoming
    <2> QED
      BY <1>1, <2>1, EdgeSetsFinite
  <1>6. ASSUME NEW n \in 0 .. Len(graph)
        PROVE  CanRetire(dag, graph, t, n)
    <2>1. ASSUME NEW u \in Tasks
          PROVE  Cardinality(between(u, n)) <= Cardinality(open(u))
      BY <1>4, <1>5, FS_Subset
    <2> QED
      BY <1>3, <2>1 DEF CanRetire
  <1>7. RetiredPrefix(dag, graph, t) = Len(graph)
    <2>1. \A n \in 0 .. Len(graph) :
             (CanRetire(dag, graph, t, n) /\ (n = Len(graph) \/ ~CanRetire(dag, graph, t, n + 1)))
                <=> n = Len(graph)
      BY <1>2, <1>6
    <2> QED
      BY <1>2, <2>1 DEF RetiredPrefix
  <1>8. ASSUME NEW u \in Tasks
        PROVE  Cardinality(open(u)) = Cardinality(after(u)) + Cardinality(between(u, Len(graph)))
    <2>1. dag.phase \in [Tasks -> Phase]
      BY <1>1 DEF DagRecord
    <2>2. \A i \in 1 .. Len(graph) : graph[i].predecessor \in Tasks
      BY <1>2 DEF Edge
    <2>3. /\ open(u) = after(u) \cup between(u, Len(graph))
          /\ after(u) \cap between(u, Len(graph)) = {}
      BY <1>2, <2>1, <2>2 DEF EdgesBetween, OpenEdges, Incoming
    <2>4. IsFiniteSet(after(u)) /\ IsFiniteSet(between(u, Len(graph)))
      BY <1>5, <2>3, FS_Subset
    <2> QED
      BY <2>3, <2>4, DisjointSum
  <1>9. ASSUME NEW u \in Tasks
        PROVE  DagRetire(dag, graph, t)[u] = Cardinality(after(u))
    <2>1. DagRetire(dag, graph, t)[u] = dag.remaining[u] - Cardinality(between(u, Len(graph)))
      BY <1>7 DEF DagRetire
    <2>2. after(u) \subseteq open(u) /\ between(u, Len(graph)) \subseteq open(u)
      BY <1>1, <1>2, <1>4 DEF OpenEdges, Incoming, Edge, DagRecord
    <2>3. Cardinality(after(u)) \in Nat /\ Cardinality(between(u, Len(graph))) \in Nat
      BY <1>5, <2>2, FS_Subset, FS_CardinalityType
    <2> QED
      BY <1>3, <1>8, <2>1, <2>3
  <1> QED
    BY <1>2, <1>4, <1>7, <1>9

\* create() establishes the invariant.
LEMMA InitInv == DagInit => DagInv
  <1> SUFFICES ASSUME DagInit PROVE DagInv
    OBVIOUS
  <1>1. graph \in Graphs /\ dag = DagCreate(graph) /\ succeeded = {}
    BY DEF DagInit
  <1>2. ASSUME NEW u \in Tasks
        PROVE  Cardinality(Incoming(graph, u)) \in Nat
    <2>1. Incoming(graph, u) \in SUBSET (1 .. Len(graph))
      BY DEF Incoming
    <2> QED
      BY <1>1, <2>1, EdgeSetsFinite
  <1>3. DagTypeOK
    BY <1>1, <1>2, DagAssumption DEF DagTypeOK, DagCreate, DagRecord, Phase
  <1>4. CountersExact
    <2>1. InPhase(dag, "RESERVED") = {} /\ InPhase(dag, "FINISHED") = {}
      BY <1>1 DEF InPhase, DagCreate
    <2> QED
      BY <1>1, <2>1, FS_EmptySet DEF CountersExact, DagCreate
  <1>5. RemainingExact
    <2>1. ASSUME NEW u \in Tasks
          PROVE  OpenEdges(graph, dag.phase, u) = Incoming(graph, u)
      <3>1. \A i \in Incoming(graph, u) : graph[i].predecessor \in Tasks
        BY <1>1, EdgeSetsFinite DEF Incoming, Edge
      <3> QED
        BY <1>1, <3>1 DEF DagCreate, OpenEdges
    <2> QED
      BY <1>1, <2>1 DEF RemainingExact, DagCreate
  <1>6. LiveMeansSuccess
    BY <1>1 DEF LiveMeansSuccess, InPhase, DagCreate
  <1>7. DependenciesFirst
    <2>1. \A i \in 1 .. Len(graph) : graph[i].dependent \in Tasks
      BY <1>1, EdgeSetsFinite DEF Edge
    <2> QED
      BY <1>1, <2>1 DEF DependenciesFirst, DagCreate
  <1> QED
    BY <1>3, <1>4, <1>5, <1>6, <1>7 DEF DagInv

\* claim_ready() preserves the invariant: what it hands out has no open edge.
LEMMA ClaimInv ==
    ASSUME DagInv, NEW capacity \in 1 .. MaxCapacity, ClaimReady(capacity)
    PROVE  DagInv'
  <1>1. PICK S \in SUBSET Unblocked(dag) :
            /\ IsFirstOf(S, Unblocked(dag), ClaimLimit(dag, capacity))
            /\ dag' = DagClaim(dag, S)
    BY DEF ClaimReady
  <1>2. dag.terminal = "CONTINUE" /\ graph' = graph /\ succeeded' = succeeded
    BY DEF ClaimReady
  <1>3. graph \in Graphs /\ dag \in DagRecord /\ dag.active <= MaxActive /\ succeeded \subseteq Tasks
    BY DEF DagInv, DagTypeOK
  <1>4. S \subseteq InPhase(dag, "PENDING") /\ S \subseteq Tasks
    BY DEF Unblocked, InPhase
  <1>5. /\ dag'.phase = [t \in Tasks |-> IF t \in S THEN "RESERVED" ELSE dag.phase[t]]
        /\ dag'.active = dag.active + Cardinality(S)
        /\ dag'.remaining = dag.remaining
        /\ dag'.completed = dag.completed
        /\ dag'.terminal = dag.terminal
        /\ dag' \in [phase : {dag'.phase}, remaining : {dag'.remaining}, active : {dag'.active},
                     completed : {dag'.completed}, terminal : {dag'.terminal}]
    BY <1>1, <1>3 DEF DagClaim, DagRecord
  <1>6. Cardinality(S) \in Nat /\ Cardinality(S) <= ClaimLimit(dag, capacity)
    <2>1. Unblocked(dag) \in SUBSET Tasks
      BY DEF Unblocked, InPhase
    <2>2. Cardinality(Unblocked(dag)) \in Nat /\ Cardinality(S) \in Nat
      BY <1>4, <2>1, TasksFinite
    <2>3. ClaimLimit(dag, capacity) \in Nat
      BY <1>3, DagAssumption DEF ClaimLimit, DagRecord
    <2> QED
      BY <1>1, <2>2, <2>3 DEF IsFirstOf
  <1>7. dag.active + Cardinality(S) <= MaxActive
    BY <1>3, <1>6, DagAssumption DEF ClaimLimit, DagRecord
  <1>8. DagTypeOK'
    BY <1>2, <1>3, <1>5, <1>6, <1>7 DEF DagTypeOK, DagRecord, Phase
  <1>9. CountersExact'
    <2>1. /\ InPhase(dag', "RESERVED") = InPhase(dag, "RESERVED") \cup S
          /\ InPhase(dag, "RESERVED") \cap S = {}
          /\ InPhase(dag', "FINISHED") = InPhase(dag, "FINISHED")
      BY <1>4, <1>5 DEF InPhase
    <2>2. IsFiniteSet(S) /\ IsFiniteSet(InPhase(dag, "RESERVED"))
      BY <1>4, TasksFinite DEF InPhase
    <2>3. Cardinality(InPhase(dag', "RESERVED")) = Cardinality(InPhase(dag, "RESERVED")) + Cardinality(S)
      BY <2>1, <2>2, DisjointSum
    <2> QED
      BY <1>5, <2>1, <2>3 DEF CountersExact, DagInv
  <1>10. RemainingExact'
    <2>1. ASSUME NEW u \in Tasks
          PROVE  OpenEdges(graph, dag'.phase, u) = OpenEdges(graph, dag.phase, u)
      <3>1. \A i \in Incoming(graph, u) : graph[i].predecessor \in Tasks
        BY <1>3, EdgeSetsFinite DEF Incoming, Edge
      <3> QED
        BY <1>4, <1>5, <3>1 DEF InPhase, OpenEdges
    <2> QED
      BY <1>2, <1>5, <2>1 DEF RemainingExact, DagInv
  <1>11. LiveMeansSuccess'
    <2>1. InPhase(dag', "FINISHED") = InPhase(dag, "FINISHED") /\ InPhase(dag', "REFUSED") = InPhase(dag, "REFUSED")
      BY <1>4, <1>5 DEF InPhase
    <2> QED
      BY <1>2, <1>5, <2>1 DEF LiveMeansSuccess, DagInv
  <1>12. DependenciesFirst'
    <2> SUFFICES ASSUME NEW i \in 1 .. Len(graph), dag'.phase[graph[i].dependent] # "PENDING"
                 PROVE  graph[i].predecessor \in succeeded
      BY <1>2 DEF DependenciesFirst
    <2>1. graph[i].dependent \in Tasks /\ graph[i].predecessor \in Tasks
      BY <1>3, EdgeSetsFinite DEF Edge
    <2>2. CASE graph[i].dependent \in S
      <3> DEFINE open == OpenEdges(graph, dag.phase, graph[i].dependent)
      <3>1. dag.remaining[graph[i].dependent] = 0
        BY <2>2 DEF Unblocked
      <3>2. Cardinality(open) = 0
        BY <1>2, <2>1, <3>1 DEF DagInv, RemainingExact
      <3>3. IsFiniteSet(open)
        <4>1. open \in SUBSET (1 .. Len(graph))
          BY DEF OpenEdges, Incoming
        <4> QED
          BY <1>3, <4>1, EdgeSetsFinite
      <3>4. open = {}
        BY <3>2, <3>3, FS_EmptySet
      <3>5. dag.phase[graph[i].predecessor] = "FINISHED"
        BY <3>4 DEF OpenEdges, Incoming
      <3> QED
        BY <1>2, <2>1, <3>5 DEF DagInv, LiveMeansSuccess, InPhase
    <2>3. CASE graph[i].dependent \notin S
      BY <1>5, <2>1, <2>3 DEF DagInv, DependenciesFirst
    <2> QED
      BY <2>2, <2>3
  <1> QED
    BY <1>8, <1>9, <1>10, <1>11, <1>12 DEF DagInv

\* Moving a reserved task to another phase takes it off the active count.
LEMMA LeaveReserved ==
    ASSUME DagInv, NEW t \in Tasks, dag.phase[t] = "RESERVED",
           NEW p \in {"FINISHED", "REFUSED"}, dag'.phase = [dag.phase EXCEPT ![t] = p]
    PROVE  /\ InPhase(dag', "RESERVED") = InPhase(dag, "RESERVED") \ {t}
           /\ InPhase(dag', p) = InPhase(dag, p) \cup {t}
           /\ \A q \in Phase \ {"RESERVED", p} : InPhase(dag', q) = InPhase(dag, q)
           /\ Cardinality(InPhase(dag', "RESERVED")) = Cardinality(InPhase(dag, "RESERVED")) - 1
           /\ Cardinality(InPhase(dag', p)) = Cardinality(InPhase(dag, p)) + 1
           /\ Cardinality(InPhase(dag, "RESERVED")) - 1 \in Nat
  <1>1. dag.phase \in [Tasks -> Phase]
    BY DEF DagInv, DagTypeOK, DagRecord
  <1>2. /\ InPhase(dag', "RESERVED") = InPhase(dag, "RESERVED") \ {t}
        /\ InPhase(dag', p) = InPhase(dag, p) \cup {t}
        /\ \A q \in Phase \ {"RESERVED", p} : InPhase(dag', q) = InPhase(dag, q)
        /\ t \in InPhase(dag, "RESERVED")
        /\ t \notin InPhase(dag, p)
    BY <1>1 DEF InPhase
  <1>3. \A q \in Phase : InPhase(dag, q) \in SUBSET Tasks
    BY DEF InPhase
  <1>4. IsFiniteSet(InPhase(dag, "RESERVED")) /\ IsFiniteSet(InPhase(dag, p))
    BY <1>3, TasksFinite DEF Phase
  <1>5. /\ IsFiniteSet(InPhase(dag', "RESERVED"))
        /\ Cardinality(InPhase(dag', "RESERVED")) = Cardinality(InPhase(dag, "RESERVED")) - 1
    BY <1>2, <1>4, FS_RemoveElement
  <1>6. Cardinality(InPhase(dag', p)) = Cardinality(InPhase(dag, p)) + 1
    BY <1>2, <1>4, FS_AddElement
  <1>7. Cardinality(InPhase(dag', "RESERVED")) \in Nat
    BY <1>5, FS_CardinalityType
  <1> QED
    BY <1>2, <1>5, <1>6, <1>7

\* finish() preserves the invariant, whatever the result it reports.
LEMMA FinishInv ==
    ASSUME DagInv, NEW t \in Tasks, NEW success \in BOOLEAN, Finish(t, success)
    PROVE  DagInv'
  <1>1. /\ dag.phase[t] = "RESERVED"
        /\ dag' = DagFinish(dag, graph, t, success)
        /\ succeeded' = IF success THEN succeeded \cup {t} ELSE succeeded
        /\ graph' = graph
    BY DEF Finish
  <1>2. graph \in Graphs /\ dag \in DagRecord /\ dag.active <= MaxActive /\ succeeded \subseteq Tasks
    BY DEF DagInv, DagTypeOK
  <1>3. /\ dag'.phase = [dag.phase EXCEPT ![t] = "FINISHED"]
        /\ dag'.remaining = IF success /\ dag.terminal = "CONTINUE"
                            THEN DagRetire(dag, graph, t) ELSE dag.remaining
        /\ dag'.active = dag.active - 1
        /\ dag'.completed = dag.completed + 1
        /\ dag'.terminal = IF dag.terminal = "CONTINUE" /\ ~success THEN "FAILED" ELSE dag.terminal
    BY <1>1 DEF DagFinish
  <1>4. /\ InPhase(dag', "RESERVED") = InPhase(dag, "RESERVED") \ {t}
        /\ InPhase(dag', "FINISHED") = InPhase(dag, "FINISHED") \cup {t}
        /\ InPhase(dag', "REFUSED") = InPhase(dag, "REFUSED")
        /\ Cardinality(InPhase(dag', "RESERVED")) = Cardinality(InPhase(dag, "RESERVED")) - 1
        /\ Cardinality(InPhase(dag', "FINISHED")) = Cardinality(InPhase(dag, "FINISHED")) + 1
        /\ Cardinality(InPhase(dag, "RESERVED")) - 1 \in Nat
    BY <1>1, <1>3, LeaveReserved DEF Phase
  <1>5. CountersExact'
    BY <1>3, <1>4 DEF CountersExact, DagInv
  <1>6. dag'.active \in Nat /\ dag'.active <= MaxActive
    BY <1>2, <1>3, <1>4, DagAssumption DEF CountersExact, DagInv, DagRecord
  <1>7. dag'.terminal = "CONTINUE" => success /\ dag.terminal = "CONTINUE"
    BY <1>3
  <1>8. DependenciesFirst'
    <2> SUFFICES ASSUME NEW i \in 1 .. Len(graph), dag'.phase[graph[i].dependent] # "PENDING"
                 PROVE  graph[i].predecessor \in succeeded'
      BY <1>1 DEF DependenciesFirst
    <2>1. graph[i].dependent \in Tasks
      BY <1>2, EdgeSetsFinite DEF Edge
    <2>2. dag.phase[graph[i].dependent] # "PENDING"
      BY <1>1, <1>2, <1>3, <2>1 DEF DagRecord
    <2> QED
      BY <1>1, <2>2 DEF DagInv, DependenciesFirst
  <1>9. LiveMeansSuccess'
    BY <1>1, <1>4, <1>7 DEF DagInv, LiveMeansSuccess
  <1>10. RemainingExact' /\ dag'.remaining \in [Tasks -> Nat]
    <2>1. CASE success /\ dag.terminal = "CONTINUE"
      <3>1. ASSUME NEW u \in Tasks
            PROVE  /\ dag'.remaining[u] = Cardinality(OpenEdges(graph, dag'.phase, u))
                   /\ dag'.remaining[u] \in Nat
        <4>1. dag'.remaining[u] = Cardinality(OpenEdges(graph, dag'.phase, u))
          BY <1>1, <1>3, <2>1, RetireAll
        <4>2. OpenEdges(graph, dag'.phase, u) \in SUBSET (1 .. Len(graph))
          BY DEF OpenEdges, Incoming
        <4> QED
          BY <1>2, <4>1, <4>2, EdgeSetsFinite
      <3>2. dag'.remaining \in [Tasks -> Nat]
        BY <1>3, <2>1, <3>1 DEF DagRetire
      <3> QED
        BY <1>1, <3>1, <3>2 DEF RemainingExact
    <2>2. CASE ~(success /\ dag.terminal = "CONTINUE")
      BY <1>2, <1>3, <1>7, <2>2 DEF RemainingExact, DagRecord
    <2> QED
      BY <2>1, <2>2
  <1>11. DagTypeOK'
    <2>1. dag'.phase \in [Tasks -> Phase] /\ dag'.completed \in Nat
      BY <1>2, <1>3 DEF DagRecord, Phase
    <2>2. dag'.terminal \in StopReason \cup {"CONTINUE"}
      BY <1>2, <1>3 DEF DagRecord, StopReason
    <2>3. dag' \in DagRecord
      BY <1>1, <1>6, <1>10, <2>1, <2>2 DEF DagRecord, DagFinish
    <2> QED
      BY <1>1, <1>2, <1>6, <2>3 DEF DagTypeOK
  <1> QED
    BY <1>5, <1>8, <1>9, <1>10, <1>11 DEF DagInv

\* refuse() preserves the invariant: it always leaves a terminal reason.
LEMMA RefuseInv ==
    ASSUME DagInv, NEW t \in Tasks, Refuse(t)
    PROVE  DagInv'
  <1>1. /\ dag.phase[t] = "RESERVED" /\ dag' = DagRefuse(dag, t)
        /\ succeeded' = succeeded /\ graph' = graph
    BY DEF Refuse
  <1>2. graph \in Graphs /\ dag \in DagRecord /\ dag.active <= MaxActive /\ succeeded \subseteq Tasks
    BY DEF DagInv, DagTypeOK
  <1>3. /\ dag'.phase = [dag.phase EXCEPT ![t] = "REFUSED"]
        /\ dag'.remaining = dag.remaining
        /\ dag'.active = dag.active - 1
        /\ dag'.completed = dag.completed
        /\ dag'.terminal = IF dag.terminal = "CONTINUE" THEN "ADMISSION_REFUSED" ELSE dag.terminal
    BY <1>1 DEF DagRefuse
  <1>4. /\ InPhase(dag', "FINISHED") = InPhase(dag, "FINISHED")
        /\ Cardinality(InPhase(dag', "RESERVED")) = Cardinality(InPhase(dag, "RESERVED")) - 1
        /\ Cardinality(InPhase(dag, "RESERVED")) - 1 \in Nat
    BY <1>1, <1>3, LeaveReserved DEF Phase
  <1>5. dag'.terminal \in StopReason
    BY <1>2, <1>3 DEF DagRecord, StopReason
  <1>6. dag'.terminal # "CONTINUE"
    BY <1>5 DEF StopReason
  <1>7. CountersExact'
    BY <1>3, <1>4 DEF CountersExact, DagInv
  <1>8. DagTypeOK'
    <2>1. dag'.active \in Nat /\ dag'.active <= MaxActive
      BY <1>2, <1>3, <1>4, DagAssumption DEF CountersExact, DagInv, DagRecord
    <2>2. dag'.phase \in [Tasks -> Phase]
      BY <1>2, <1>3 DEF DagRecord, Phase
    <2>3. dag' \in DagRecord
      BY <1>1, <1>2, <1>3, <1>5, <2>1, <2>2 DEF DagRecord, DagRefuse
    <2> QED
      BY <1>1, <1>2, <2>1, <2>3 DEF DagTypeOK
  <1>9. RemainingExact' /\ LiveMeansSuccess'
    BY <1>1, <1>4, <1>6 DEF RemainingExact, LiveMeansSuccess, DagInv
  <1>10. DependenciesFirst'
    <2> SUFFICES ASSUME NEW i \in 1 .. Len(graph), dag'.phase[graph[i].dependent] # "PENDING"
                 PROVE  graph[i].predecessor \in succeeded
      BY <1>1 DEF DependenciesFirst
    <2>1. graph[i].dependent \in Tasks
      BY <1>2, EdgeSetsFinite DEF Edge
    <2>2. dag.phase[graph[i].dependent] # "PENDING"
      BY <1>1, <1>2, <1>3, <2>1 DEF DagRecord
    <2> QED
      BY <2>2 DEF DagInv, DependenciesFirst
  <1> QED
    BY <1>7, <1>8, <1>9, <1>10 DEF DagInv

\* stop() preserves the invariant.
LEMMA StopInv ==
    ASSUME DagInv, NEW reason \in StopReason, Stop(reason)
    PROVE  DagInv'
  <1>1. dag' = DagStop(dag, reason) /\ succeeded' = succeeded /\ graph' = graph
    BY DEF Stop
  <1>2. dag \in DagRecord
    BY DEF DagInv, DagTypeOK
  <1>3. /\ dag'.phase = dag.phase /\ dag'.remaining = dag.remaining
        /\ dag'.active = dag.active /\ dag'.completed = dag.completed
        /\ dag'.terminal = IF dag.terminal = "CONTINUE" THEN reason ELSE dag.terminal
        /\ dag' \in DagRecord
    BY <1>1, <1>2 DEF DagStop, DagRecord
  <1>4. dag'.terminal # "CONTINUE"
    BY <1>3 DEF StopReason
  <1>5. \A p \in Phase : InPhase(dag', p) = InPhase(dag, p)
    BY <1>3 DEF InPhase
  <1>6. CountersExact' /\ LiveMeansSuccess'
    BY <1>1, <1>3, <1>4, <1>5 DEF CountersExact, LiveMeansSuccess, DagInv, Phase
  <1>7. DagTypeOK' /\ RemainingExact' /\ DependenciesFirst'
    BY <1>1, <1>3, <1>4 DEF DagTypeOK, RemainingExact, DependenciesFirst, DagInv
  <1> QED
    BY <1>6, <1>7 DEF DagInv

\* Every reachable state of workflow_dag_state.c satisfies the inductive
\* invariant: exact counters, exact remaining[] and dependencies first.
THEOREM DagInvariant == DagSpec => []DagInv
  <1>1. DagInit => DagInv
    BY InitInv
  <1>2. DagInv /\ [DagNext]_dagVars => DagInv'
    <2> SUFFICES ASSUME DagInv, [DagNext]_dagVars PROVE DagInv'
      OBVIOUS
    <2>1. CASE \E capacity \in 1 .. MaxCapacity : ClaimReady(capacity)
      BY <2>1, ClaimInv
    <2>2. CASE \E t \in Tasks, success \in BOOLEAN : Finish(t, success)
      BY <2>2, FinishInv
    <2>3. CASE \E t \in Tasks : Refuse(t)
      BY <2>3, RefuseInv
    <2>4. CASE \E reason \in StopReason : Stop(reason)
      BY <2>4, StopInv
    <2>5. CASE UNCHANGED dagVars
      BY <2>5 DEF dagVars, DagInv, DagTypeOK, CountersExact, RemainingExact,
                  LiveMeansSuccess, DependenciesFirst, InPhase
    <2> QED
      BY <2>1, <2>2, <2>3, <2>4, <2>5 DEF DagNext
  <1> QED
    BY <1>1, <1>2, PTL DEF DagSpec

\* No task is handed out before all its predecessors succeeded.
THEOREM DependenciesFirstAlways == DagSpec => []DependenciesFirst
  <1>1. DagInv => DependenciesFirst
    BY DEF DagInv
  <1> QED
    BY <1>1, DagInvariant, PTL

\* When all tasks are completed and the run continues, all have succeeded.
LEMMA CompleteMeansSucceeded == DagInv => AllSucceededSound
  <1> SUFFICES ASSUME DagInv, DagAllSucceeded(dag) PROVE succeeded = Tasks
    BY DEF AllSucceededSound
  <1>1. Cardinality(InPhase(dag, "FINISHED")) = Cardinality(Tasks)
    BY TasksFinite DEF DagAllSucceeded, DagInv, CountersExact
  <1>2. InPhase(dag, "FINISHED") = Tasks
    <2>1. InPhase(dag, "FINISHED") \in SUBSET Tasks
      BY DEF InPhase
    <2> QED
      BY <1>1, <2>1, TasksFinite, FS_Subset
  <1> QED
    BY <1>2 DEF DagAllSucceeded, DagInv, LiveMeansSuccess

\* get_stats() reports all_succeeded only if every task succeeded.
THEOREM AllSucceededSoundAlways == DagSpec => []AllSucceededSound
  BY CompleteMeansSucceeded, DagInvariant, PTL

\* A run that continues and has neither a ready nor a reserved task is complete:
\* among waiting tasks one would have no predecessor left to wait for.
LEMMA IdleMeansComplete == DagInv => NoStall
  <1> SUFFICES ASSUME DagInv, dag.terminal = "CONTINUE", dag.active = 0, DagReadyCount(dag) = 0
               PROVE  DagQuiescent(dag)
    BY DEF NoStall
  <1> DEFINE waiting == InPhase(dag, "PENDING")
  <1>1. graph \in Graphs /\ dag \in DagRecord
    BY DEF DagInv, DagTypeOK
  <1>2. InPhase(dag, "RESERVED") = {} /\ InPhase(dag, "REFUSED") = {} /\ Unblocked(dag) = {}
    <2>1. InPhase(dag, "RESERVED") \in SUBSET Tasks /\ Unblocked(dag) \in SUBSET Tasks
      BY DEF InPhase, Unblocked
    <2>2. Cardinality(InPhase(dag, "RESERVED")) = 0 /\ Cardinality(Unblocked(dag)) = 0
      BY DEF DagInv, CountersExact, DagReadyCount
    <2> QED
      BY <2>1, <2>2, TasksFinite, FS_EmptySet DEF DagInv, LiveMeansSuccess
  <1>3. waiting = {}
    <2> SUFFICES ASSUME waiting # {} PROVE FALSE
      OBVIOUS
    <2>1. waiting \in (SUBSET Tasks) \ {{}}
      BY DEF InPhase
    <2>2. PICK t \in waiting : \A i \in Incoming(graph, t) : graph[i].predecessor \notin waiting
      BY <1>1, <2>1, GraphAssumption DEF Acyclic
    <2>3. OpenEdges(graph, dag.phase, t) = {}
      <3>1. \A i \in Incoming(graph, t) : graph[i].predecessor \in Tasks
        BY <1>1, EdgeSetsFinite DEF Incoming, Edge
      <3>2. \A i \in Incoming(graph, t) : dag.phase[graph[i].predecessor] \in Phase
        BY <1>1, <3>1 DEF DagRecord
      <3> QED
        BY <1>2, <2>2, <3>1, <3>2 DEF OpenEdges, InPhase, Phase
    <2>4. t \in Tasks /\ dag.remaining[t] = 0
      BY <2>3, FS_EmptySet DEF DagInv, RemainingExact, InPhase
    <2>5. t \in Unblocked(dag)
      BY <2>4 DEF Unblocked
    <2> QED
      BY <1>2, <2>5
  <1>4. InPhase(dag, "FINISHED") = Tasks
    BY <1>1, <1>2, <1>3 DEF InPhase, DagRecord, Phase
  <1> QED
    BY <1>4, TasksFinite DEF DagQuiescent, DagInv, CountersExact

\* A live run with nothing reserved and nothing ready is complete, because an
\* acyclic graph always has a task with no unfinished predecessor.
THEOREM NoStallAlways == DagSpec => []NoStall
  BY IdleMeansComplete, DagInvariant, PTL

\* finish() never stops half way through the edges of a reserved task.
THEOREM FinishNeverPartialAlways == DagSpec => []FinishNeverPartial
  <1>1. DagInv => FinishNeverPartial
    BY RetireAll DEF FinishNeverPartial, DagFinishOK, InPhase
  <1> QED
    BY <1>1, DagInvariant, PTL

\* What the run of the DAG checks of its small graphs holds for every graph: the
\* counters are exact, no run stalls and no finish() of a claimed task is partial.
THEOREM DagSafety == DagSpec => []DagSafe
  <1>1. DagInv /\ NoStall /\ FinishNeverPartial => DagSafe
    BY DEF DagSafe
  <1> QED
    BY <1>1, DagInvariant, NoStallAlways, FinishNeverPartialAlways, PTL

\* The first terminal reason is final and ends admission.
THEOREM TerminalIsFinalAlways == DagSpec => TerminalIsFinal
  <1> DEFINE A == dag.terminal # "CONTINUE" =>
                    /\ dag'.terminal = dag.terminal
                    /\ InPhase(dag', "RESERVED") \subseteq InPhase(dag, "RESERVED")
  <1>1. DagInv /\ [DagNext]_dagVars => [A]_dagVars
    <2> SUFFICES ASSUME DagInv, DagNext, dag.terminal # "CONTINUE"
                 PROVE  /\ dag'.terminal = dag.terminal
                        /\ InPhase(dag', "RESERVED") \subseteq InPhase(dag, "RESERVED")
      BY DEF dagVars
    <2>1. dag \in DagRecord
      BY DEF DagInv, DagTypeOK
    <2>2. CASE \E capacity \in 1 .. MaxCapacity : ClaimReady(capacity)
      BY <2>2 DEF ClaimReady
    <2>3. CASE \E t \in Tasks, success \in BOOLEAN : Finish(t, success)
      BY <2>1, <2>3 DEF Finish, DagFinish, InPhase, DagRecord
    <2>4. CASE \E t \in Tasks : Refuse(t)
      BY <2>1, <2>4 DEF Refuse, DagRefuse, InPhase, DagRecord
    <2>5. CASE \E reason \in StopReason : Stop(reason)
      BY <2>1, <2>5 DEF Stop, DagStop, InPhase, DagRecord
    <2> QED
      BY <2>2, <2>3, <2>4, <2>5 DEF DagNext
  <1> QED
    BY <1>1, DagInvariant, PTL DEF DagSpec, TerminalIsFinal

\* How the phases read as statuses of the counter-free scheduler.
LEMMA StatusOfPhase ==
    ASSUME dag \in DagRecord
    PROVE  \A t \in Tasks :
              /\ AbstractStatus[t] = "waiting" <=> dag.phase[t] = "PENDING"
              /\ AbstractStatus[t] = "running" <=> dag.phase[t] = "RESERVED"
              /\ AbstractStatus[t] = "refused" <=> dag.phase[t] = "REFUSED"
              /\ AbstractStatus[t] = "succeeded" <=> dag.phase[t] = "FINISHED" /\ t \in succeeded
              /\ AbstractStatus[t] = "failed" <=> dag.phase[t] = "FINISHED" /\ t \notin succeeded
              /\ AbstractStatus[t] \in {"waiting", "running", "refused", "succeeded", "failed"}
  BY DEF AbstractStatus, StatusOf, DagRecord, Phase

\* The counters and the phases implement the scheduler that looks at the
\* graph itself: a claim hands out exactly the first tasks all of whose
\* predecessors succeeded.
THEOREM Refinement == DagSpec => ImplementsScheduler
  <1>1. DagInit => Scheduler!Init
    BY DEF DagInit, DagCreate, Scheduler!Init, AbstractStatus, StatusOf, AbstractHalted
  <1>2. DagInv /\ DagInv' /\ [DagNext]_dagVars => [Scheduler!Next]_Scheduler!vars
    <2> SUFFICES ASSUME DagInv, DagInv', [DagNext]_dagVars
                 PROVE  [Scheduler!Next]_Scheduler!vars
      OBVIOUS
    <2>1. graph \in Graphs /\ dag \in DagRecord /\ dag' \in DagRecord /\ succeeded \subseteq Tasks
      BY DEF DagInv, DagTypeOK
    <2> DEFINE st == AbstractStatus
    <2>2. \A t \in Tasks :
              /\ st[t] = "waiting" <=> dag.phase[t] = "PENDING"
              /\ st[t] = "running" <=> dag.phase[t] = "RESERVED"
              /\ st[t] = "succeeded" <=> dag.phase[t] = "FINISHED" /\ t \in succeeded
      BY <2>1, StatusOfPhase
    <2>3. CASE \E capacity \in 1 .. MaxCapacity : ClaimReady(capacity)
      <3>1. PICK capacity \in 1 .. MaxCapacity : ClaimReady(capacity)
        BY <2>3
      <3>2. PICK S \in SUBSET Unblocked(dag) :
                /\ IsFirstOf(S, Unblocked(dag), ClaimLimit(dag, capacity))
                /\ dag' = DagClaim(dag, S)
        BY <3>1 DEF ClaimReady
      <3>3. dag.terminal = "CONTINUE" /\ graph' = graph /\ succeeded' = succeeded
        BY <3>1 DEF ClaimReady
      <3>4. Scheduler!Launchable = Unblocked(dag)
        <4>1. ASSUME NEW t \in Tasks
              PROVE  dag.remaining[t] = 0 <=>
                        \A i \in Incoming(graph, t) : st[graph[i].predecessor] = "succeeded"
          <5>1. dag.remaining[t] = Cardinality(OpenEdges(graph, dag.phase, t))
            BY <3>3 DEF DagInv, RemainingExact
          <5>2. IsFiniteSet(OpenEdges(graph, dag.phase, t))
            <6>1. OpenEdges(graph, dag.phase, t) \in SUBSET (1 .. Len(graph))
              BY DEF OpenEdges, Incoming
            <6> QED
              BY <2>1, <6>1, EdgeSetsFinite
          <5>3. dag.remaining[t] = 0 <=> OpenEdges(graph, dag.phase, t) = {}
            BY <5>1, <5>2, FS_EmptySet
          <5>4. \A i \in Incoming(graph, t) : graph[i].predecessor \in Tasks
            BY <2>1, EdgeSetsFinite DEF Incoming, Edge
          <5>5. \A u \in Tasks : st[u] = "succeeded" <=> dag.phase[u] = "FINISHED"
            BY <2>2, <3>3 DEF DagInv, LiveMeansSuccess, InPhase
          <5> QED
            BY <5>3, <5>4, <5>5 DEF OpenEdges
        <4> QED
          BY <2>2, <4>1 DEF Scheduler!Launchable, Incoming, Unblocked, InPhase
      <3>5. Cardinality(Scheduler!Running \cup S) <= MaxActive
        <4>1. Scheduler!Running = InPhase(dag, "RESERVED")
          BY <2>2 DEF Scheduler!Running, InPhase
        <4>2. S \subseteq InPhase(dag, "PENDING") /\ dag' \in DagRecord
          BY <2>1 DEF Unblocked
        <4>3. InPhase(dag', "RESERVED") = InPhase(dag, "RESERVED") \cup S
          BY <2>1, <3>2, <4>2 DEF DagClaim, DagRecord, InPhase
        <4> QED
          BY <4>1, <4>3 DEF DagInv, CountersExact, DagTypeOK
      <3>6. st' = [t \in Tasks |-> IF t \in S THEN "running" ELSE st[t]]
        <4>1. dag'.phase = [t \in Tasks |-> IF t \in S THEN "RESERVED" ELSE dag.phase[t]]
          BY <2>1, <3>2 DEF DagClaim, DagRecord
        <4>2. \A t \in S : StatusOf(t, "RESERVED", succeeded) = "running"
          BY DEF StatusOf
        <4> QED
          BY <3>3, <4>1, <4>2 DEF AbstractStatus
      <3>7. AbstractHalted = FALSE /\ AbstractHalted' = FALSE
        BY <2>1, <3>2, <3>3 DEF AbstractHalted, DagClaim, DagRecord
      <3>8. Scheduler!Launch(S)
        BY <3>2, <3>3, <3>4, <3>5, <3>6, <3>7 DEF Scheduler!Launch, IsFirstOf
      <3> QED
        BY <3>4, <3>8 DEF Scheduler!Next
    <2>4. CASE \E t \in Tasks, success \in BOOLEAN : Finish(t, success)
      <3>1. PICK t \in Tasks, success \in BOOLEAN : Finish(t, success)
        BY <2>4
      <3>2. st[t] = "running" /\ graph' = graph
        BY <2>2, <3>1 DEF Finish
      <3>3. st' = [st EXCEPT ![t] = IF success THEN "succeeded" ELSE "failed"]
        <4>1. dag'.phase = [dag.phase EXCEPT ![t] = "FINISHED"] /\ dag.phase[t] = "RESERVED"
          BY <3>1 DEF Finish, DagFinish
        <4>2. succeeded' = IF success THEN succeeded \cup {t} ELSE succeeded
          BY <3>1 DEF Finish
        <4>3. t \notin succeeded
          BY <4>1 DEF DagInv, LiveMeansSuccess, InPhase
        <4>4. dag.phase \in [Tasks -> Phase]
          BY <2>1 DEF DagRecord
        <4> QED
          BY <4>1, <4>2, <4>3, <4>4 DEF AbstractStatus, StatusOf, Phase
      <3>4. AbstractHalted' = (AbstractHalted \/ ~success)
        BY <3>1 DEF AbstractHalted, Finish, DagFinish
      <3> QED
        BY <3>1, <3>2, <3>3, <3>4 DEF Scheduler!Next, Scheduler!Settle
    <2>5. CASE \E t \in Tasks : Refuse(t)
      <3>1. PICK t \in Tasks : Refuse(t)
        BY <2>5
      <3>2. st[t] = "running" /\ graph' = graph /\ succeeded' = succeeded
        BY <2>2, <3>1 DEF Refuse
      <3>3. st' = [st EXCEPT ![t] = "refused"]
        <4>1. dag'.phase = [dag.phase EXCEPT ![t] = "REFUSED"] /\ dag.phase \in [Tasks -> Phase]
          BY <2>1, <3>1 DEF Refuse, DagRefuse, DagRecord
        <4> QED
          BY <3>2, <4>1 DEF AbstractStatus, StatusOf, Phase
      <3>4. AbstractHalted' = TRUE
        BY <3>1 DEF AbstractHalted, Refuse, DagRefuse
      <3> QED
        BY <3>1, <3>2, <3>3, <3>4 DEF Scheduler!Next, Scheduler!Drop
    <2>6. CASE \E reason \in StopReason : Stop(reason)
      <3>1. PICK reason \in StopReason : Stop(reason)
        BY <2>6
      <3>2. dag'.phase = dag.phase /\ succeeded' = succeeded /\ graph' = graph
        BY <2>1, <3>1 DEF Stop, DagStop, DagRecord
      <3>3. st' = st
        BY <3>2 DEF AbstractStatus
      <3>4. AbstractHalted' = TRUE
        BY <2>1, <3>1 DEF AbstractHalted, Stop, DagStop, DagRecord, StopReason
      <3> QED
        BY <3>2, <3>3, <3>4 DEF Scheduler!Next, Scheduler!Halt
    <2>7. CASE UNCHANGED dagVars
      BY <2>7 DEF dagVars, Scheduler!vars, AbstractStatus, AbstractHalted
    <2> QED
      BY <2>3, <2>4, <2>5, <2>6, <2>7 DEF DagNext
  <1> QED
    BY <1>1, <1>2, DagInvariant, PTL DEF DagSpec, ImplementsScheduler, Scheduler!Spec
=============================================================================
