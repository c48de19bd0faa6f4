---------------------------- MODULE SessionValues ----------------------------
(* What a Session keeps between ticks (session_values.c) and the controls     *)
(* that use it (session_controls.c): the pool of cached texts, the stages of  *)
(* a PipelineSequence, the observation of an EntryUpdated and the items of a  *)
(* ConsumeQueue.  A world is a record of the Session s, the values v, the     *)
(* host h and whether every step so far went well (ok); each control maps a   *)
(* world to the next, and after a failed step the rest is skipped.            *)
(* Texts are sequences of tokens; a key is the one token of its name, a JSON  *)
(* array the sequence of its items.  The pool holds tokens for bytes.         *)
EXTENDS NativeHost, FiniteSetsExt, SequencesExt

CONSTANTS
    MaxStateBytes       \* config.max_state_bytes

ASSUME ValuesAssumption == MaxStateBytes \in Nat \ {0}

\* The slots of a node.  SHELL_CMD and SHELL_OUT stand for the six of a Shell.
SlotNames == {"PIPE_DATA", "PIPE_KEY", "ENTRY_VALUE", "SHELL_CMD", "SHELL_OUT"}

NoSlot == [present |-> FALSE, offset |-> 0, size |-> 0]

\* session_cached(): the bytes at the slot's offset.
Cached(s, n, k) ==
    LET c == s.slots[n][k] IN
    IF c.present THEN SubSeq(s.pool, c.offset + 1, c.offset + c.size) ELSE <<>>

\* Mutant: the slot that follows the removed bytes immediately is not moved.
MovedTooFew(c, end, removed) ==
    IF c.present /\ c.offset > end THEN [c EXCEPT !.offset = @ - removed] ELSE c

\* A slot behind the removed bytes moves to the front.
Moved(c, end, removed) ==
    IF c.present /\ c.offset >= end THEN [c EXCEPT !.offset = @ - removed] ELSE c

\* session_uncache(): the bytes and the terminator are cut out of the pool.
Uncache(s, n, k) ==
    LET c == s.slots[n][k]
        removed == c.size + 1
        end == c.offset + removed
    IN IF ~c.present THEN s
       ELSE [s EXCEPT
               !.pool = SubSeq(s.pool, 1, c.offset) \o SubSeq(s.pool, end + 1, Len(s.pool)),
               !.slots = [m \in DOMAIN s.slots |-> [j \in SlotNames |->
                             IF m = n /\ j = k THEN NoSlot ELSE Moved(s.slots[m][j], end, removed)]]]

\* session_cache() stays within the budget.
CanCache(s, n, k, text) ==
    LET c == s.slots[n][k]
        retained == Len(s.pool) - (IF c.present THEN c.size + 1 ELSE 0)
    IN Len(text) < MaxStateBytes /\ retained <= MaxStateBytes - Len(text) - 1

Cache(w, n, k, text) ==
    IF ~w.ok THEN w
    ELSE IF ~CanCache(w.s, n, k, text) THEN [w EXCEPT !.ok = FALSE]
    ELSE LET u == Uncache(w.s, n, k) IN
         [w EXCEPT !.s = [u EXCEPT !.pool = Append(@ \o text, "NUL"),
                                   !.slots[n][k] = [present |-> TRUE, offset |-> Len(u.pool), size |-> Len(text)]]]

\* session_set(): the host's store takes the value or the call fails.
SessionSet(w, k, text) ==
    IF ~w.ok THEN w
    ELSE IF CanSet(w.v, k) THEN [w EXCEPT !.v[k] = text]
    ELSE [w EXCEPT !.ok = FALSE]

\* session_has() and session_get(): an absent key reads as no text.
Text(w, k) == IF w.v[k] = Absent THEN <<>> ELSE w.v[k]

-----------------------------------------------------------------------------
\* The plan: each node names its parent, 0 above the root.
Children(plan, p) == SetToSortSeq({i \in DOMAIN plan : plan[i].parent = p}, <)

\* The nodes from n up to the root, n included.
Lineage(plan, n) ==
    LET up[i \in 0 .. Len(plan)] == IF i = 0 THEN {} ELSE {i} \cup up[plan[i].parent]
    IN up[n]

\* p has an active pipeline whose current stage contains n.
InStage(s, n, p) ==
    /\ s.node[p].pipeline
    /\ p \in Lineage(s.plan, n) \ {n}
    /\ Children(s.plan, p)[s.node[p].child] \in Lineage(s.plan, n)

\* The pipelines that the walk to the root stops at.
Restorable(s, n) == {p \in DOMAIN s.plan : InStage(s, n, p) /\ ~s.node[p].restored}

\* Mutant: nothing is restored.
NothingRestored(w, n) == w

\* session_restore_pipeline(): the nearest pipeline that was not restored in
\* this tick puts its data back.
RestorePipeline(w, n) ==
    LET P == Restorable(w.s, n) IN
    IF P = {} THEN w
    ELSE LET p == Max(P)
             r == SessionSet(w, "pipeline_input", Cached(w.s, p, "PIPE_DATA"))
         IN IF r.ok THEN [r EXCEPT !.s.node[p].restored = TRUE] ELSE r

ClearPipeline(s, n) ==
    [Uncache(Uncache(s, n, "PIPE_DATA"), n, "PIPE_KEY")
        EXCEPT !.node[n].pipeline = FALSE, !.node[n].restored = FALSE]

\* session_pipeline_prepare() for stage c.
PipelinePrepare(w0, n, c) ==
    LET w == RestorePipeline(w0, n)
        opened == Cache(Cache(w, n, "PIPE_KEY", <<"pipeline_result">>),
                        n, "PIPE_DATA", Text(w, "pipeline_input"))
        ready == IF w.s.node[n].pipeline THEN w ELSE opened
    IN IF ~w.ok THEN w
       ELSE IF ~ready.ok THEN [ready EXCEPT !.s = ClearPipeline(ready.s, n)]
       ELSE SessionSet([ready EXCEPT !.s.node[n].pipeline = TRUE, !.s.node[n].child = c],
                       "pipeline_input", Cached(ready.s, n, "PIPE_DATA"))

\* session_pipeline_complete() for stage c.
PipelineComplete(w, n, c, status) ==
    LET fed == IF w.v["pipeline_output"] = Absent THEN w
               ELSE Cache(w, n, "PIPE_DATA", w.v["pipeline_output"])
        key == Cached(fed.s, n, "PIPE_KEY")
        stored == SessionSet(fed, IF key = <<>> THEN "pipeline_input" ELSE key[1], Cached(fed.s, n, "PIPE_DATA"))
    IN IF status # "SUCCESS" THEN [w EXCEPT !.s = ClearPipeline(w.s, n)]
       ELSE IF ~fed.ok \/ c < Len(Children(w.s.plan, n)) THEN fed
       ELSE [stored EXCEPT !.s = ClearPipeline(stored.s, n)]

\* session_entry_changed(): the new text is remembered, changed says whether it
\* differs from the one before.
EntryChanged(w0, n) ==
    LET w == RestorePipeline(w0, n)
        current == Text(w, "watched")
        r == Cache(w, n, "ENTRY_VALUE", current)
    IN [world |-> IF r.ok THEN [r EXCEPT !.s.node[n].observed = TRUE] ELSE r,
        changed |-> ~w.s.node[n].observed \/ current # Cached(w.s, n, "ENTRY_VALUE")]

\* Mutant: the item is handed out and the queue is left as it was.
RemainingAll(items) == items

\* What is left in the queue once its first item was taken.
Remaining(items) == Tail(items)

\* The text is a JSON array with an item.
HasItem(text) == text # <<>> /\ text[1] # "broken"

\* session_queue_begin(): the rest of the queue is written before the item.
QueueBegin(w0, n) ==
    LET r == RestorePipeline(w0, n)
        w == IF r.ok THEN [r EXCEPT !.s.node[n].active = FALSE, !.s.node[n].more = FALSE] ELSE r
        items == Text(w, "task_queue")
        taken == SessionSet(SessionSet(w, "task_queue", Remaining(items)), "current_item", <<items[1]>>)
    IN IF ~w.ok \/ ~HasItem(items) THEN [world |-> w, item |-> FALSE]
       ELSE IF ~taken.ok THEN [world |-> taken, item |-> FALSE]
       ELSE [world |-> [taken EXCEPT !.s.node[n].active = TRUE, !.s.node[n].more = Len(items) > 1],
             item |-> TRUE]

\* session_queue_finish() and session_queue_abort() forget the item.
QueueEnd(s, n) == [s EXCEPT !.node[n].active = FALSE, !.node[n].more = FALSE]
=============================================================================
