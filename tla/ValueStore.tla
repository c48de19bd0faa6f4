----------------------------- MODULE ValueStore -----------------------------
(* praktor_c11_value_store (value_store.c): the bounded key/value store of a  *)
(* workflow run and the transactions that branches fork from it.  The store   *)
(* is a function from keys to values, Absent where no entry is occupied.  A   *)
(* transaction keeps the store it began with, its private working copy and    *)
(* the keys it touched, in first-touch order.  The machine lets the owner     *)
(* write to the store directly while any number of transactions are open.     *)
EXTENDS Naturals, Sequences, FiniteSets

CONSTANTS
    Keys,
    Values,
    ValuesOf,       \* the values that callers write under each key
    Absent,         \* no entry for the key
    Capacity,       \* slots of the store, and of the list of touched keys
    Txns,           \* transaction objects
    Sources         \* contents of other stores that replace_clone() copies

ASSUME StoreAssumption ==
    /\ Absent \notin Values
    /\ Capacity \in Nat \ {0}
    /\ IsFiniteSet(Keys)
    /\ ValuesOf \in [Keys -> SUBSET Values]
    /\ Sources \subseteq [Keys -> Values \cup {Absent}]
    /\ \A s \in Sources : Cardinality({k \in Keys : s[k] # Absent}) <= Capacity

VARIABLES
    store,          \* the shared target
    txn             \* the transactions

storeVars == <<store, txn>>

Contents == [Keys -> Values \cup {Absent}]

TxnRecord == [active : BOOLEAN, baseline : Contents, working : Contents, ops : Seq(Keys)]

EmptyStore == [k \in Keys |-> Absent]

NoTxn == [active |-> FALSE, baseline |-> EmptyStore, working |-> EmptyStore, ops |-> <<>>]

Present(s) == {k \in Keys : s[k] # Absent}

StoreSize(s) == Cardinality(Present(s))

\* set() finds the entry or a free slot.
CanSet(s, k) == s[k] # Absent \/ StoreSize(s) < Capacity

Touched(x) == {x.ops[i] : i \in 1 .. Len(x.ops)}

\* txn_begin(): baseline and working are clones of the target.
TxnBegin(s) == [active |-> TRUE, baseline |-> s, working |-> s, ops |-> <<>>]

\* txn_record() has a slot for the key.
CanRecord(x, k) == k \in Touched(x) \/ Len(x.ops) < Capacity

RecordOp(x, k) == IF k \in Touched(x) THEN x.ops ELSE Append(x.ops, k)

CanTxnSet(x, k) == x.active /\ CanSet(x.working, k) /\ CanRecord(x, k)

TxnSet(x, k, v) == [x EXCEPT !.working[k] = v, !.ops = RecordOp(x, k)]

CanTxnErase(x, k) == x.active /\ x.working[k] # Absent /\ CanRecord(x, k)

TxnErase(x, k) == [x EXCEPT !.working[k] = Absent, !.ops = RecordOp(x, k)]

\* same_key() of target and baseline for every touched key.
UnchangedSinceBegin(s, x) == \A k \in Touched(x) : s[k] = x.baseline[k]

\* The staged store after the first n touched keys were applied.
AppliedOps(s, x, n) ==
    [k \in Keys |-> IF \E i \in 1 .. n : x.ops[i] = k THEN x.working[k] ELSE s[k]]

\* txn_commit() applies the touched keys one after the other; each insertion
\* needs a free slot at its turn.
CommitOK(s, x) ==
    /\ UnchangedSinceBegin(s, x)
    /\ \A n \in 1 .. Len(x.ops) :
          x.working[x.ops[n]] # Absent => CanSet(AppliedOps(s, x, n - 1), x.ops[n])

CommitResult(s, x) == AppliedOps(s, x, Len(x.ops))

\* No key is touched by two transactions of the group X.
GroupDisjoint(T, X) == \A x, y \in X : x # y => Touched(T[x]) \cap Touched(T[y]) = {}

\* The staged store of txn_commit_group() once all deletions are applied.
GroupErased(s, T, X) ==
    [k \in Keys |->
        IF \E x \in X : k \in Touched(T[x]) /\ T[x].working[k] = Absent
        THEN Absent ELSE s[k]]

\* Transactions of the group that leave a value for k.
GroupWriters(T, X, k) == {x \in X : k \in Touched(T[x]) /\ T[x].working[k] # Absent}

GroupWrites(T, X) == {k \in Keys : GroupWriters(T, X, k) # {}}

\* Mutant: insertions are counted against the store before the deletions.
GroupFitsBeforeErase(s, T, X) ==
    Cardinality(GroupWrites(T, X) \ Present(s)) + StoreSize(s) <= Capacity

\* Every insertion after the deletions finds a free slot.
GroupFits(s, T, X) ==
    LET erased == GroupErased(s, T, X) IN
    Cardinality(GroupWrites(T, X) \ Present(erased)) + StoreSize(erased) <= Capacity

GroupCommitOK(s, T, X) ==
    /\ X # {}
    /\ \A x \in X : T[x].active /\ UnchangedSinceBegin(s, T[x])
    /\ GroupDisjoint(T, X)
    /\ GroupFits(s, T, X)

GroupResult(s, T, X) ==
    [k \in Keys |->
        IF k \in GroupWrites(T, X)
        THEN T[CHOOSE x \in GroupWriters(T, X, k) : TRUE].working[k]
        ELSE GroupErased(s, T, X)[k]]

\* The transaction objects after those of X were committed or aborted.
Closed(T, X) == [x \in DOMAIN T |-> IF x \in X THEN NoTxn ELSE T[x]]

-----------------------------------------------------------------------------
StoreInit ==
    /\ store = EmptyStore
    /\ txn = [x \in Txns |-> NoTxn]

\* set() and set_many(): the pairs W replace or add entries, or none does.
SetMany(W) ==
    /\ Cardinality(DOMAIN W \cup Present(store)) <= Capacity
    /\ store' = [k \in Keys |-> IF k \in DOMAIN W THEN W[k] ELSE store[k]]
    /\ UNCHANGED txn

Erase(k) ==
    /\ store[k] # Absent
    /\ store' = [store EXCEPT ![k] = Absent]
    /\ UNCHANGED txn

\* replace_clone() from another store of the same geometry.
ReplaceClone(source) ==
    /\ store' = source
    /\ UNCHANGED txn

Begin(x) ==
    /\ ~txn[x].active
    /\ txn' = [txn EXCEPT ![x] = TxnBegin(store)]
    /\ UNCHANGED store

SetInTxn(x, k, v) ==
    /\ CanTxnSet(txn[x], k)
    /\ txn' = [txn EXCEPT ![x] = TxnSet(txn[x], k, v)]
    /\ UNCHANGED store

EraseInTxn(x, k) ==
    /\ CanTxnErase(txn[x], k)
    /\ txn' = [txn EXCEPT ![x] = TxnErase(txn[x], k)]
    /\ UNCHANGED store

Commit(x) ==
    /\ txn[x].active
    /\ CommitOK(store, txn[x])
    /\ store' = CommitResult(store, txn[x])
    /\ txn' = Closed(txn, {x})

CommitGroup(X) ==
    /\ GroupCommitOK(store, txn, X)
    /\ store' = GroupResult(store, txn, X)
    /\ txn' = Closed(txn, X)

Abort(x) ==
    /\ txn[x].active
    /\ txn' = Closed(txn, {x})
    /\ UNCHANGED store

StoreNext ==
    \/ \E K \in (SUBSET Keys) \ {{}} : \E W \in [K -> Values] :
          (\A k \in K : W[k] \in ValuesOf[k]) /\ SetMany(W)
    \/ \E k \in Keys : Erase(k)
    \/ \E source \in Sources : ReplaceClone(source)
    \/ \E x \in Txns : Begin(x) \/ Commit(x) \/ Abort(x)
    \/ \E x \in Txns, k \in Keys : EraseInTxn(x, k) \/ \E v \in ValuesOf[k] : SetInTxn(x, k, v)
    \/ \E X \in SUBSET Txns : CommitGroup(X)

StoreSpec == StoreInit /\ [][StoreNext]_storeVars

-----------------------------------------------------------------------------
\* The store maps keys to values and every transaction object stays usable after
\* commit, group commit and abort.
StoreTypeOK ==
    /\ store \in Contents
    /\ txn \in [Txns -> TxnRecord]

\* No commit, group commit or direct write ever fills more slots than the
\* store, or a working copy, has.
CapacityRespected ==
    /\ StoreSize(store) <= Capacity
    /\ \A x \in Txns : StoreSize(txn[x].working) <= Capacity /\ Len(txn[x].ops) <= Capacity

\* Whatever a transaction changed in its working copy is among the keys that
\* its commit will compare and apply, each listed once, also after its list of
\* touched keys ran full.
OpsCoverWrites ==
    \A x \in Txns :
        /\ \A k \in Keys : txn[x].working[k] # txn[x].baseline[k] => k \in Touched(txn[x])
        /\ \A i, j \in 1 .. Len(txn[x].ops) : txn[x].ops[i] = txn[x].ops[j] => i = j

\* An entry changed by a commit, alone or in a group, still held what the
\* transaction that changes it began with, and takes the value that it left in
\* its working copy: no write of another owner is lost.
OverwritesOnlySeen ==
    \A k \in Keys : store'[k] # store[k] =>
        \E x \in Txns :
            /\ txn[x].active /\ ~txn'[x].active
            /\ store[k] = txn[x].baseline[k] /\ store'[k] = txn[x].working[k]

\* After a commit the store agrees with the working copy of every committed
\* transaction on every key it touched: all that it did is published.
PublishesAllTouched ==
    \A x \in Txns : (txn[x].active /\ ~txn'[x].active) =>
        \A k \in Touched(txn[x]) : store'[k] = txn[x].working[k]

\* No update is lost by txn_commit() and txn_commit_group(), neither one that
\* somebody else made nor one of the transactions themselves.
NoLostUpdate ==
    [][(store' # store /\ txn' # txn) => OverwritesOnlySeen /\ PublishesAllTouched]_storeVars

\* The store and the success of committing x and then y.
SerialResult(x, y) == CommitResult(CommitResult(store, txn[x]), txn[y])

SerialOK(x, y) ==
    CommitOK(store, txn[x]) /\ CommitOK(CommitResult(store, txn[x]), txn[y])

\* A group commit has the effect of the single commits in either order, and it
\* is refused only if the keys overlap or one of those orders would be refused.
GroupIsSerial ==
    \A x, y \in Txns :
        (x # y /\ txn[x].active /\ txn[y].active /\ UnchangedSinceBegin(store, txn[x])) =>
        /\ GroupCommitOK(store, txn, {x, y}) =>
              /\ GroupResult(store, txn, {x, y}) = SerialResult(x, y)
              /\ UnchangedSinceBegin(CommitResult(store, txn[x]), txn[y])
        /\ SerialOK(x, y) /\ GroupDisjoint(txn, {x, y}) => GroupCommitOK(store, txn, {x, y})

\* Whatever the owner and the open transactions have done, the store and the
\* working copies are within capacity, no write is without its record, and
\* txn_commit_group() would have the effect of single commits.
StoreInv == StoreTypeOK /\ CapacityRespected /\ OpsCoverWrites /\ GroupIsSerial
=============================================================================
