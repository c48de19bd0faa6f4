------------------------------ MODULE DagGraph ------------------------------
(* The immutable dependency graph that workflow_dependencies.c projects from *)
(* a workflow and that workflow_dag_state.c borrows: tasks are numbered in    *)
(* declaration order and the edges are kept as a list, so that a dependency   *)
(* declared twice is two edges.                                               *)
EXTENDS Naturals, Sequences, FiniteSets

CONSTANTS
    Count,      \* number of tasks of the workflow
    Graphs      \* the dependency graphs considered, each a sequence of edges

Tasks == 0 .. Count - 1

\* dependency_edge: the dependent may start once the predecessor succeeded.
Edge == [predecessor : Tasks, dependent : Tasks]

\* Positions of the edges of g that end in t.
Incoming(g, t) == {i \in 1 .. Len(g) : g[i].dependent = t}

\* Every non-empty set of tasks has a member that depends on none of the
\* others: the form of acyclicity the scheduler relies on.
Acyclic(g) ==
    \A S \in (SUBSET Tasks) \ {{}} :
        \E t \in S : \A i \in Incoming(g, t) : g[i].predecessor \notin S

\* The graphs a workflow can have once workflow_dependencies.c has admitted it.
ASSUME GraphAssumption ==
    /\ Count \in Nat \ {0}
    /\ \A g \in Graphs : g \in Seq(Edge) /\ Acyclic(g)

\* S holds the n lowest-numbered members of R, or all of R if it has fewer.
IsFirstOf(S, R, n) ==
    /\ S \subseteq R
    /\ Cardinality(S) = IF n <= Cardinality(R) THEN n ELSE Cardinality(R)
    /\ \A s \in S, r \in R \ S : s < r
=============================================================================
