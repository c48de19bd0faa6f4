------------------------------ MODULE MCStores ------------------------------
(* The two stores that are shared through prepared copies; one of them runs.  *)
(* The registry has two tasks, two outstanding groups, an output name and a   *)
(* revision counter that runs out.  The value store has two slots for three   *)
(* keys, so that both the store and the list of touched keys run full, with   *)
(* two open transactions and the owner's direct writes.  One key takes two    *)
(* values, the others one: an entry can be updated, added and removed by      *)
(* everybody.  Groups and transactions share model values, which keeps the    *)
(* symmetry small.                                                            *)
EXTENDS TaskRegistry, ValueStore, TLC

CONSTANTS k1, k2, k3, v1, v2

VARIABLE subject        \* which of the two runs

MCGraphs == {<<>>}

MCValuesOf == (k1 :> {v1, v2}) @@ (k2 :> {v1}) @@ (k3 :> {v1})

\* replace_clone() resets the store or fills it.
MCSources ==
    {EmptyStore} \cup
    {[k \in Keys |-> IF k \in K THEN v1 ELSE Absent] :
        K \in {S \in SUBSET Keys : Cardinality(S) = Capacity}}

MCSymmetry == Permutations({k2, k3}) \cup Permutations(Txns)

StoresInit == subject \in {"registry", "values"} /\ RegistryInit /\ StoreInit

StoresNext ==
    \/ subject = "registry" /\ RegistryNext /\ UNCHANGED <<subject, storeVars>>
    \/ subject = "values" /\ StoreNext /\ UNCHANGED <<subject, registryVars>>

StoresSpec == StoresInit /\ [][StoresNext]_<<subject, registryVars, storeVars>>

\* What was prepared in a copy becomes visible as a whole: a group of the
\* registry publishes all its entries or none, and commits of the value store,
\* alone or in a group, publish every touched key and overwrite no other update.
PublishesWhole == PublishAllOrNothing /\ NoLostUpdate
=============================================================================
