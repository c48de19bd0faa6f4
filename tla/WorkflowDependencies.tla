------------------------ MODULE WorkflowDependencies ------------------------
(* praktor_workflow_dependencies_create() (workflow_dependencies.c): the      *)
(* dependency graph of a workflow document, or a refusal.  A document gives   *)
(* every task a name, the names it depends on in their order, and the names   *)
(* its triggers refer to.  The open-addressing table of names is abstracted   *)
(* to the mapping it implements, and the queue of check_cycles() to a set.    *)
EXTENDS DagGraph

CONSTANTS
    Names,
    Dynamic,        \* a trigger target that holds a marker and is resolved later
    MaxEdges        \* PRAKTOR_WORKFLOW_MAX_EDGES

ASSUME DependenciesAssumption == MaxEdges \in Nat

Document ==
    [name : [Tasks -> Names], depends_on : [Tasks -> Seq(Names)],
     triggers : [Tasks -> SUBSET (Names \cup {Dynamic})]]

NamesOf(doc) == {doc.name[t] : t \in Tasks}

\* Phase one: every name is new when its task is reached.
DistinctNames(doc) == \A t \in Tasks : \A u \in 0 .. t - 1 : doc.name[u] # doc.name[t]

\* Phase two: static trigger targets are tasks.
TriggersKnown(doc) == \A t \in Tasks : doc.triggers[t] \subseteq NamesOf(doc) \cup {Dynamic}

DependsKnown(doc) ==
    \A t \in Tasks : \A j \in 1 .. Len(doc.depends_on[t]) : doc.depends_on[t][j] \in NamesOf(doc)

\* name_index()
NameIndex(doc, name) == CHOOSE t \in Tasks : doc.name[t] = name

\* Phase three: the edges of the first n tasks, in declaration order and with
\* their repetitions.
EdgesUpTo(doc) ==
    LET upTo[n \in 0 .. Count] ==
            IF n = 0 THEN <<>>
            ELSE upTo[n - 1] \o
                 [j \in 1 .. Len(doc.depends_on[n - 1]) |->
                     [predecessor |-> NameIndex(doc, doc.depends_on[n - 1][j]), dependent |-> n - 1]]
    IN upTo

EdgesOf(doc) == EdgesUpTo(doc)[Count]

Between(g, t, u) == {i \in Incoming(g, u) : g[i].predecessor = t}

\* Mutant: a repeated edge is counted twice and retired once.
KahnStepOnce(g, s) ==
    LET t == CHOOSE x \in s.queue : \A y \in s.queue : x <= y
        degrees == [u \in Tasks |-> IF Between(g, t, u) = {} THEN s.degrees[u] ELSE s.degrees[u] - 1]
    IN [degrees |-> degrees, visited |-> s.visited + 1,
        queue |-> (s.queue \ {t}) \cup {u \in Tasks : s.degrees[u] # 0 /\ degrees[u] = 0}]

\* One turn of the loop of check_cycles().
KahnStep(g, s) ==
    LET t == CHOOSE x \in s.queue : \A y \in s.queue : x <= y
        degrees == [u \in Tasks |-> s.degrees[u] - Cardinality(Between(g, t, u))]
    IN [degrees |-> degrees, visited |-> s.visited + 1,
        queue |-> (s.queue \ {t}) \cup {u \in Tasks : s.degrees[u] # 0 /\ degrees[u] = 0}]

\* The loop ends early once the queue is empty.
KahnTurns(g, S) == {IF s.queue = {} THEN s ELSE KahnStep(g, s) : s \in S}

Kahn(g) ==
    LET degrees == [u \in Tasks |-> Cardinality(Incoming(g, u))]
        turn[n \in 0 .. Count] ==
            IF n = 0
            THEN {[degrees |-> degrees, visited |-> 0, queue |-> {u \in Tasks : degrees[u] = 0}]}
            ELSE KahnTurns(g, turn[n - 1])
    IN turn[Count]

\* Phase four: check_cycles()
NoCycle(g) == \A s \in Kahn(g) : s.visited = Count

\* praktor_workflow_dependencies_create() returns SALTS_OK, memory permitting.
Admitted(doc) ==
    /\ DistinctNames(doc)
    /\ TriggersKnown(doc)
    /\ DependsKnown(doc)
    /\ \E g \in {EdgesOf(doc)} : Len(g) <= MaxEdges /\ NoCycle(g)

\* What a document must be: names that identify tasks, references that lead to
\* tasks, and an order in which each task comes after all it depends on.
WellFormed(doc) ==
    LET predecessors(t) == {u \in Tasks : \E j \in 1 .. Len(doc.depends_on[t]) : doc.depends_on[t][j] = doc.name[u]}
    IN
    /\ Cardinality(NamesOf(doc)) = Count
    /\ \A t \in Tasks : \A name \in doc.triggers[t] : name = Dynamic \/ \E u \in Tasks : doc.name[u] = name
    /\ \A t \in Tasks : \A j \in 1 .. Len(doc.depends_on[t]) : \E u \in Tasks : doc.name[u] = doc.depends_on[t][j]
    /\ \E rank \in [Tasks -> Tasks] : \A t \in Tasks : \A u \in predecessors(t) : rank[u] < rank[t]
=============================================================================
