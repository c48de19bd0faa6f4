---------------------------- MODULE DagScheduler ----------------------------
(* What workflow_dag_state.h promises of a single-owner DAG scheduler, with   *)
(* no counters: a task is launched only when every predecessor has succeeded, *)
(* in declaration order, at most MaxActive at a time, and nothing is launched *)
(* once the run is halted.                                                    *)
EXTENDS Naturals, Sequences

CONSTANTS
    Tasks,      \* task numbers, in declaration order
    Graphs,     \* the dependency graphs considered, each a sequence of edges
    MaxActive,  \* most tasks that may run at a time
    Size(_)     \* the number of elements of a set of tasks

VARIABLES
    graph,      \* the borrowed dependency graph
    status,     \* waiting, running, succeeded, failed or refused, per task
    halted      \* a terminal reason was recorded

vars == <<graph, status, halted>>

Init ==
    /\ graph \in Graphs
    /\ status = [t \in Tasks |-> "waiting"]
    /\ halted = FALSE

Running == {t \in Tasks : status[t] = "running"}

\* Tasks all of whose predecessors have succeeded.
Launchable ==
    {t \in Tasks :
        /\ status[t] = "waiting"
        /\ \A i \in 1 .. Len(graph) :
              graph[i].dependent = t => status[graph[i].predecessor] = "succeeded"}

\* The owner receives the set S, the first launchable tasks in declaration order.
Launch(S) ==
    /\ ~halted
    /\ \A s \in S, r \in Launchable \ S : s < r
    /\ Size(Running \cup S) <= MaxActive
    /\ status' = [t \in Tasks |-> IF t \in S THEN "running" ELSE status[t]]
    /\ UNCHANGED <<graph, halted>>

Settle(t, success) ==
    /\ status[t] = "running"
    /\ status' = [status EXCEPT ![t] = IF success THEN "succeeded" ELSE "failed"]
    /\ halted' = (halted \/ ~success)
    /\ UNCHANGED graph

Drop(t) ==
    /\ status[t] = "running"
    /\ status' = [status EXCEPT ![t] = "refused"]
    /\ halted' = TRUE
    /\ UNCHANGED graph

Halt ==
    /\ halted' = TRUE
    /\ UNCHANGED <<graph, status>>

Next ==
    \/ \E S \in SUBSET Launchable : Launch(S)
    \/ \E t \in Tasks, success \in BOOLEAN : Settle(t, success)
    \/ \E t \in Tasks : Drop(t)
    \/ Halt

Spec == Init /\ [][Next]_vars
=============================================================================
