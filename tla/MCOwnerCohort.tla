--------------------------- MODULE MCOwnerCohort ---------------------------
(* Three tasks, the third of which depends on the other two; two cohorts that *)
(* may be open together or one after the other; one key that                  *)
(* branches and the owner write; at most one process per branch.              *)
EXTENDS OwnerCohort, TLC

CONSTANTS k1, v1

E(p, d) == [predecessor |-> p, dependent |-> d]

MCGraphs == {<<E(0, 2), E(1, 2)>>}

MCTxns == 0 .. 2

MCValuesOf == k1 :> {v1}

MCSymmetry == Permutations(Cohorts)

\* The smaller instance, for the cohort that is left half settled.
MCSmallGraphs == {<<>>, <<E(0, 1)>>}

MCSmallTxns == 0 .. 1

MCNoValues == [k \in {} |-> {}]
=============================================================================
