------------------------------ MODULE DagState ------------------------------
(* praktor_workflow_dag_state (workflow_dag_state.c): the single-owner        *)
(* readiness counter over an admitted dependency graph.  The operators        *)
(* Dag... are its functions over the state record; the machine below lets an  *)
(* owner call them in any order and with any argument the functions accept.   *)
(* A call that a function rejects changes nothing and is not a step.          *)
EXTENDS DagGraph

CONSTANTS
    MaxActive,      \* concurrency limit given to create()
    MaxCapacity     \* largest buffer a caller passes to claim_ready()

ASSUME DagAssumption ==
    /\ MaxActive \in Nat \ {0}
    /\ MaxCapacity \in Nat \ {0}

VARIABLES
    graph,          \* borrowed immutable graph
    dag,            \* struct praktor_workflow_dag_state
    succeeded       \* history: tasks whose finish() reported success

dagVars == <<graph, dag, succeeded>>

Phase == {"PENDING", "RESERVED", "FINISHED", "REFUSED"}
StopReason == {"FAILED", "CANCELLED", "DEADLINE", "ADMISSION_REFUSED"}

DagRecord ==
    [phase : [Tasks -> Phase], remaining : [Tasks -> Nat],
     active : Nat, completed : Nat, terminal : StopReason \cup {"CONTINUE"}]

\* Mutant: remaining[] counts distinct predecessors instead of edges.
DagCreateDistinct(g) ==
    [phase     |-> [t \in Tasks |-> "PENDING"],
     remaining |-> [t \in Tasks |-> Cardinality({g[i].predecessor : i \in Incoming(g, t)})],
     active    |-> 0,
     completed |-> 0,
     terminal  |-> "CONTINUE"]

DagCreate(g) ==
    [phase     |-> [t \in Tasks |-> "PENDING"],
     remaining |-> [t \in Tasks |-> Cardinality(Incoming(g, t))],
     active    |-> 0,
     completed |-> 0,
     terminal  |-> "CONTINUE"]

InPhase(d, p) == {t \in Tasks : d.phase[t] = p}

Unblocked(d) == {t \in InPhase(d, "PENDING") : d.remaining[t] = 0}

\* How many tasks one claim_ready() may reserve.
ClaimLimit(d, capacity) ==
    IF d.active >= MaxActive THEN 0
    ELSE IF MaxActive - d.active < capacity THEN MaxActive - d.active ELSE capacity

\* claim_ready() that hands out the set S.
DagClaim(d, S) ==
    [d EXCEPT !.phase = [t \in Tasks |-> IF t \in S THEN "RESERVED" ELSE d.phase[t]],
              !.active = d.active + Cardinality(S)]

\* Edges among the first n of g that lead from t to u.
EdgesBetween(g, t, u, n) ==
    {i \in 1 .. n : g[i].predecessor = t /\ g[i].dependent = u}

\* finish() can retire the first n edges of g without meeting a zero counter.
CanRetire(d, g, t, n) ==
    \A u \in Tasks : Cardinality(EdgesBetween(g, t, u, n)) <= d.remaining[u]

\* Edges the loop of finish() gets through before it returns.
RetiredPrefix(d, g, t) ==
    CHOOSE n \in 0 .. Len(g) :
        CanRetire(d, g, t, n) /\ (n = Len(g) \/ ~CanRetire(d, g, t, n + 1))

\* Mutant: a dependent is retired once however often the edge is repeated.
DagRetireOnce(d, g, t) ==
    [u \in Tasks |-> IF EdgesBetween(g, t, u, Len(g)) = {} THEN d.remaining[u]
                     ELSE d.remaining[u] - 1]

DagRetire(d, g, t) ==
    [u \in Tasks |->
        d.remaining[u] - Cardinality(EdgesBetween(g, t, u, RetiredPrefix(d, g, t)))]

DagFinish(d, g, t, success) ==
    [phase     |-> [d.phase EXCEPT ![t] = "FINISHED"],
     remaining |-> IF success /\ d.terminal = "CONTINUE"
                   THEN DagRetire(d, g, t) ELSE d.remaining,
     active    |-> d.active - 1,
     completed |-> d.completed + 1,
     terminal  |-> IF d.terminal = "CONTINUE" /\ ~success THEN "FAILED" ELSE d.terminal]

\* finish() of a reserved task returns SALTS_OK.
DagFinishOK(d, g, t, success) ==
    /\ d.phase[t] = "RESERVED"
    /\ (success /\ d.terminal = "CONTINUE") => RetiredPrefix(d, g, t) = Len(g)

\* First terminal reason wins.
DagStop(d, reason) ==
    [d EXCEPT !.terminal = IF d.terminal = "CONTINUE" THEN reason ELSE d.terminal]

DagRefuse(d, t) ==
    [phase     |-> [d.phase EXCEPT ![t] = "REFUSED"],
     remaining |-> d.remaining,
     active    |-> d.active - 1,
     completed |-> d.completed,
     terminal  |-> IF d.terminal = "CONTINUE" THEN "ADMISSION_REFUSED" ELSE d.terminal]

\* get_stats()
DagReadyCount(d) ==
    IF d.terminal # "CONTINUE" THEN 0 ELSE Cardinality(Unblocked(d))

DagQuiescent(d) ==
    d.active = 0 /\ (d.terminal # "CONTINUE" \/ d.completed = Count)

DagAllSucceeded(d) ==
    d.terminal = "CONTINUE" /\ d.completed = Count /\ d.active = 0

-----------------------------------------------------------------------------
DagInit ==
    /\ graph \in Graphs
    /\ dag = DagCreate(graph)
    /\ succeeded = {}

\* Mutant: claim_ready() without its check of the terminal reason.
ClaimReadyAlways(capacity) ==
    /\ \E S \in SUBSET Unblocked(dag) :
          /\ IsFirstOf(S, Unblocked(dag), ClaimLimit(dag, capacity))
          /\ dag' = DagClaim(dag, S)
    /\ UNCHANGED <<graph, succeeded>>

ClaimReady(capacity) ==
    /\ dag.terminal = "CONTINUE"
    /\ \E S \in SUBSET Unblocked(dag) :
          /\ IsFirstOf(S, Unblocked(dag), ClaimLimit(dag, capacity))
          /\ dag' = DagClaim(dag, S)
    /\ UNCHANGED <<graph, succeeded>>

Finish(t, success) ==
    /\ dag.phase[t] = "RESERVED"
    /\ dag' = DagFinish(dag, graph, t, success)
    /\ succeeded' = IF success THEN succeeded \cup {t} ELSE succeeded
    /\ UNCHANGED graph

Refuse(t) ==
    /\ dag.phase[t] = "RESERVED"
    /\ dag' = DagRefuse(dag, t)
    /\ UNCHANGED <<graph, succeeded>>

Stop(reason) ==
    /\ dag' = DagStop(dag, reason)
    /\ UNCHANGED <<graph, succeeded>>

DagNext ==
    \/ \E capacity \in 1 .. MaxCapacity : ClaimReady(capacity)
    \/ \E t \in Tasks, success \in BOOLEAN : Finish(t, success)
    \/ \E t \in Tasks : Refuse(t)
    \/ \E reason \in StopReason : Stop(reason)

DagSpec == DagInit /\ [][DagNext]_dagVars

\* The owner keeps claiming while it can and settles every reservation.
DagFairness ==
    /\ WF_dagVars(\E capacity \in 1 .. MaxCapacity : ClaimReady(capacity))
    /\ \A t \in Tasks : WF_dagVars((\E success \in BOOLEAN : Finish(t, success)) \/ Refuse(t))

DagFairSpec == DagSpec /\ DagFairness

-----------------------------------------------------------------------------
\* The fields of the state record stay in range; active never exceeds the
\* max_active given to create().
DagTypeOK ==
    /\ graph \in Graphs
    /\ dag \in DagRecord
    /\ dag.active <= MaxActive
    /\ succeeded \subseteq Tasks

\* active and completed, which claim_ready() and get_stats() trust instead of
\* counting, agree with the phases after every sequence of calls.
CountersExact ==
    /\ dag.active = Cardinality(InPhase(dag, "RESERVED"))
    /\ dag.completed = Cardinality(InPhase(dag, "FINISHED"))

\* The edges into u whose predecessor has not finished in the phases ph.
OpenEdges(g, ph, u) == {i \in Incoming(g, u) : ph[g[i].predecessor] # "FINISHED"}

\* While the run continues, remaining[] of every task is the number of edges
\* (repeated edges counted) whose predecessor has not finished: duplicates are
\* retired with their original cardinality.
RemainingExact ==
    dag.terminal = "CONTINUE" =>
        \A t \in Tasks :
            dag.remaining[t] = Cardinality(OpenEdges(graph, dag.phase, t))

\* As long as no terminal reason was recorded, every finished task succeeded
\* and none was refused: finish(false) and refuse() always leave a reason.
LiveMeansSuccess ==
    /\ succeeded \subseteq InPhase(dag, "FINISHED")
    /\ dag.terminal = "CONTINUE" =>
          InPhase(dag, "FINISHED") = succeeded /\ InPhase(dag, "REFUSED") = {}

\* A task that was ever handed out by claim_ready() had all its predecessors
\* finished with success, whatever failed, stopped or was refused meanwhile.
DependenciesFirst ==
    \A i \in 1 .. Len(graph) :
        dag.phase[graph[i].dependent] # "PENDING" => graph[i].predecessor \in succeeded

\* The inductive invariant behind the safety properties.
DagInv ==
    /\ DagTypeOK
    /\ CountersExact
    /\ RemainingExact
    /\ LiveMeansSuccess
    /\ DependenciesFirst

\* all_succeeded of get_stats() really means that every task ran to success.
AllSucceededSound ==
    DagAllSucceeded(dag) => succeeded = Tasks

\* A run that continues with no reservation out and nothing ready is complete:
\* the scheduling loop that stops on an empty claim leaves no task behind.
NoStall ==
    (dag.terminal = "CONTINUE" /\ dag.active = 0 /\ DagReadyCount(dag) = 0)
        => DagQuiescent(dag)

\* finish() of a reserved task never meets a zero remaining[] counter, so its
\* SALTS_EINVAL after half the edges were retired cannot happen.
FinishNeverPartial ==
    \A t \in InPhase(dag, "RESERVED") :
        \A success \in BOOLEAN : DagFinishOK(dag, graph, t, success)

\* In every order of claims, finishes, refusals and stops the counters of the
\* DAG are exact, dependencies finish first, the loop that stops on an empty
\* claim is complete and no finish() is refused halfway.
DagSafe == DagInv /\ NoStall /\ FinishNeverPartial

\* The first terminal reason is kept and every later call hands out nothing.
TerminalIsFinal ==
    [][dag.terminal # "CONTINUE" =>
          /\ dag'.terminal = dag.terminal
          /\ InPhase(dag', "RESERVED") \subseteq InPhase(dag, "RESERVED")]_dagVars

\* An owner that keeps claiming and settles every reservation reaches
\* quiescence: no graph, failure, refusal or stop leaves it waiting.
EventuallyQuiescent == <>[]DagQuiescent(dag)

\* The status of task t in phase p as the counter-free scheduler sees it.
StatusOf(t, p, done) ==
    CASE p = "PENDING"  -> "waiting"
      [] p = "RESERVED" -> "running"
      [] p = "REFUSED"  -> "refused"
      [] p = "FINISHED" -> IF t \in done THEN "succeeded" ELSE "failed"

AbstractStatus == [t \in Tasks |-> StatusOf(t, dag.phase[t], succeeded)]

AbstractHalted == dag.terminal # "CONTINUE"

Scheduler ==
    INSTANCE DagScheduler WITH
        Size <- Cardinality, status <- AbstractStatus, halted <- AbstractHalted

\* Every behaviour of workflow_dag_state.c, which works with counters, is one
\* of the counter-free scheduler its header describes.
ImplementsScheduler == Scheduler!Spec
=============================================================================
