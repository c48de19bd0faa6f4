------------------------------- MODULE Session -------------------------------
(* praktor_c11_session (session.c): one behaviour tree whose leaves a host or *)
(* a process executes.  The tree runtime decides the order of the callbacks;  *)
(* it is a library outside the repository, modelled from the contract in      *)
(* tree_adapter.h and from the tests (eng, external).  Between two callbacks  *)
(* of a tick nothing else runs: every call on a busy Session returns EBUSY.   *)
(* The Session is configured with host-owned values and typed leaf hooks;     *)
(* the tree has no Parallel node.                                             *)
EXTENDS SessionValues

CONSTANTS
    Scenarios,          \* a plan, and the host's values to begin with
    Texts,              \* the texts that leaves write
    RetainerCapacity    \* reservations of the process retainer

VARIABLES
    sess,       \* the Session: plan, node states, cached texts, drivers
    host,       \* the native host
    procs,      \* live native processes, and those the retainer adopted
    eng,        \* the tree runtime
    hist        \* history: open activations, stray halts, stage input, items

sessionVars == <<sess, host, procs, eng, hist, storeVars>>

NewNode == [pipeline |-> FALSE, restored |-> FALSE, child |-> 1, observed |-> FALSE,
            active |-> FALSE, more |-> FALSE, owner |-> "NONE"]

\* session_init() over a plan.
NewSession(plan) ==
    [alive |-> TRUE, plan |-> plan, node |-> [n \in DOMAIN plan |-> NewNode],
     slots |-> [n \in DOMAIN plan |-> [k \in SlotNames |-> NoSlot]], pool |-> <<>>,
     proc |-> [n \in DOMAIN plan |-> "none"]]

World == [s |-> sess, v |-> store, h |-> host, p |-> procs, g |-> hist, ok |-> TRUE]

Becomes(w) ==
    /\ sess' = w.s /\ store' = w.v /\ host' = w.h /\ procs' = w.p /\ hist' = w.g
    /\ UNCHANGED txn

\* process_view(): the driver still owns a native process.
ProcessActive(s, n) == s.proc[n] \in {"live", "closing"}

\* pending(): a process is being shut down.
Pending(s) == \E n \in DOMAIN s.plan : s.proc[n] = "closing"

\* Reservations of the retainer: one for each driver, one for each adopted process.
Reserved(w) == Cardinality({n \in DOMAIN w.s.plan : w.s.proc[n] # "none"}) + w.p.retained

-----------------------------------------------------------------------------
\* close_process(): the process ends within the budget, with or without an
\* error, or it keeps its leases.
CloseProcess(w, n) ==
    LET ended == [w EXCEPT !.s.proc[n] = "dead", !.p.native = @ - 1]
        kept == [w EXCEPT !.s.proc[n] = "closing"]
    IN IF w.s.proc[n] = "none" THEN {[w |-> w, ok |-> TRUE]}
       ELSE IF w.s.proc[n] = "dead" THEN {[w |-> w, ok |-> FALSE]}
       ELSE {[w |-> ended, ok |-> TRUE], [w |-> ended, ok |-> FALSE], [w |-> kept, ok |-> FALSE]}

\* Mutant: the driver is given up whether or not its process ended.
FinalizeAlways(w, n) ==
    [w EXCEPT !.s = [Uncache(Uncache(w.s, n, "SHELL_CMD"), n, "SHELL_OUT")
                        EXCEPT !.proc[n] = "none", !.node[n].owner = "NONE"]]

\* finalize_process(): a driver that still has a process stays with the leaf.
FinalizeProcess(w, n) ==
    IF ProcessActive(w.s, n) THEN [w EXCEPT !.s.node[n].owner = "PROCESS"]
    ELSE [w EXCEPT !.s = [Uncache(Uncache(w.s, n, "SHELL_CMD"), n, "SHELL_OUT")
                             EXCEPT !.proc[n] = "none", !.node[n].owner = "NONE"]]

\* publish_process(): one value after the other, until one cannot be written.
PublishProcess(w, code, success) ==
    LET out == SessionSet(w, "shell_output", <<"a">>)
        err == SessionSet(out, "shell_stderr", <<"a">>)
        exit == SessionSet(err, "shell_exit_code", code)
    IN IF success THEN exit ELSE SessionSet(exit, "shell_error", <<"a">>)

\* start_process(): parameters are cached in order until one fails or the budget
\* is used up; the driver may get no reservation, fail before or after the
\* native process exists, or the first line may not be emitted.
StartProcess(w, n) ==
    LET cmd == Cache(w, n, "SHELL_CMD", <<"cmd">>)
        out == Cache(cmd, n, "SHELL_OUT", <<"shell_output">>)
        live == [out EXCEPT !.s.proc[n] = "live", !.p.native = @ + 1]
    IN IF ~out.ok THEN {[w |-> [out EXCEPT !.ok = TRUE], ok |-> FALSE]}
       ELSE {[w |-> w, ok |-> FALSE], [w |-> out, ok |-> FALSE]}
            \cup (IF Reserved(w) >= RetainerCapacity THEN {}
                  ELSE {[w |-> [out EXCEPT !.s.proc[n] = "dead"], ok |-> FALSE],
                        [w |-> live, ok |-> FALSE], [w |-> live, ok |-> TRUE]})

\* What a callback of a leaf returns.
LeafResult(w, r, status) == [w |-> [w EXCEPT !.ok = TRUE], r |-> r, status |-> status]

\* The part of tick_process() after the driver was started.
DriveProcess(w, n) ==
    IF w.s.proc[n] = "closing"
    THEN {LeafResult(FinalizeProcess(c.w, n), "OK", "FAILURE") : c \in CloseProcess(w, n)}
    ELSE {LeafResult(w, "OK", "RUNNING")} \cup
         UNION {{LET code == IF success THEN <<"0">> ELSE <<"1">>
                     published == PublishProcess(c.w, code, success /\ c.ok) IN
                 LeafResult(FinalizeProcess(published, n), "OK",
                            IF success /\ c.ok /\ published.ok THEN "SUCCESS" ELSE "FAILURE")
                 : c \in CloseProcess(w, n)} : success \in BOOLEAN}

\* tick_process()
TickProcess(w, n) ==
    LET starts == IF w.s.proc[n] = "none" THEN StartProcess(w, n) ELSE {[w |-> w, ok |-> TRUE]} IN
    UNION {IF x.ok THEN DriveProcess([x.w EXCEPT !.s.node[n].owner = "PROCESS"], n)
           ELSE {LeafResult(FinalizeProcess(PublishProcess(c.w, <<"1">>, FALSE), n), "OK", "FAILURE")
                 : c \in CloseProcess(x.w, n)} : x \in starts}

\* dispatch_halt(): the host ends the activation of the leaf.
DispatchHalt(w, n) ==
    [w EXCEPT !.h = NativeHalt(@, n), !.g.open = @ \ {n}, !.g.stray = @ \/ n \notin w.g.open]

\* halt_leaf(): ok tells whether the process could be closed without an error.
HaltLeaf(w0, n) ==
    LET owner == w0.s.node[n].owner
        w == [w0 EXCEPT !.s.node[n].owner = "NONE"]
    IN IF owner = "PROCESS" \/ ProcessActive(w.s, n)
       THEN {[FinalizeProcess(c.w, n) EXCEPT !.ok = c.ok] : c \in CloseProcess(w, n)}
       ELSE IF owner = "HOST" THEN {DispatchHalt(w, n)} ELSE {w}

\* A leaf hook of a custom host may do anything that its contract allows, and
\* decline; a first tick that fails may have acquired something.  Its pipeline
\* stages write pipeline_output.
CustomTick(h, v, n) ==
    {Answer(h, v, "OK", status) : status \in {"FAILURE", "RUNNING", "SUCCESS", "INVALID"}}
        \cup {Refusal(h, v, r) : r \in {"ENOTSUP", "EIO"}}
        \cup {Written(h, v, {"pipeline_output"}, t) : t \in Texts}

HostTick(w, n) ==
    LET node == w.s.plan[n] IN
    IF node.custom THEN CustomTick(w.h, w.v, n) ELSE NativeTick(w.h, w.v, n, node.action, Texts)

\* Mutant: the failed leaf is not halted.
LeafFailedUnhalted(w, n, r) == LeafResult([w EXCEPT !.s.node[n].owner = "NONE"], r, "INVALID")

\* The activation ends with the error of the hook.
LeafFailed(w, n, r) == LeafResult(DispatchHalt([w EXCEPT !.s.node[n].owner = "NONE"], n), r, "INVALID")

\* tick_leaf() once the host answered a.
HostAnswered(w0, n, a) ==
    LET owner == w0.s.node[n].owner
        w == [w0 EXCEPT !.h = a.h, !.v = a.v]
        opened == [w EXCEPT !.g.open = @ \cup {n}]
        running == a.status = "RUNNING"
    IN IF a.r = "OK" /\ a.status # "INVALID"
       THEN {LeafResult([w EXCEPT !.s.node[n].owner = IF running THEN "HOST" ELSE "NONE",
                                  !.g.open = IF running THEN @ \cup {n} ELSE @ \ {n}], "OK", a.status)}
       ELSE IF a.r # "ENOTSUP" \/ owner = "HOST"
       THEN {LeafFailed(opened, n, IF a.r = "OK" THEN "EINVAL" ELSE a.r)}
       ELSE IF w.s.plan[n].action = "Shell" THEN TickProcess(w, n)
       ELSE {LeafResult(w, "ENOTSUP", "INVALID")}

\* The input of the innermost pipeline stage that contains the leaf.
StageInput(s, n) == LET P == {p \in DOMAIN s.plan : InStage(s, n, p)} IN Cached(s, Max(P), "PIPE_DATA")

\* Notes whether a leaf in a stage finds the input of its stage.
Witnessed(w, n) ==
    LET P == {p \in DOMAIN w.s.plan : InStage(w.s, n, p)} IN
    [w EXCEPT !.g.foreign = @ \/ (P # {} /\ w.v["pipeline_input"] # StageInput(w.s, n))]

\* tick_leaf().  A Switch without children became a leaf that fails, once its
\* selector was read: from the values as they are, without restoring the input
\* of its stage.
TickLeaf(w0, n) ==
    LET w == Witnessed(RestorePipeline(w0, n), n)
        node == w.s.plan[n]
    IN IF node.action \in {"SUCCESS", "FAILURE"} THEN {LeafResult(w0, "OK", node.action)}
       ELSE IF node.action = "SWITCH_FAILURE"
       THEN {LeafResult(w0, "OK", "FAILURE"), LeafResult(w0, "EINVAL", "INVALID")}
       ELSE IF ~w.ok THEN {LeafResult(w, "EIO", "INVALID")}
       ELSE IF w.s.node[n].owner = "PROCESS" THEN TickProcess(w, n)
       ELSE UNION {HostAnswered(w, n, a) : a \in HostTick(w, n)}

-----------------------------------------------------------------------------
(* The tree runtime, external.  cur is the child that a node is at, 0 when it *)
(* is not active; last what an EntryUpdated returned; leaf the leaf that is   *)
(* running between two ticks.                                                 *)

FreshEngine(plan) ==
    LET zero == [n \in DOMAIN plan |-> 0] IN
    [pc |-> "idle", at |-> 0, status |-> "INVALID", res |-> "OK", cur |-> zero, tries |-> zero,
     last |-> [n \in DOMAIN plan |-> "FAILURE"], leaf |-> 0]

\* The runtime visits child c of n.
Down(e, n, c) == [e EXCEPT !.pc = "visit", !.cur[n] = c, !.at = Children(sess.plan, n)[c]]

\* n returns a status to its parent.
Up(e, n, status) ==
    [e EXCEPT !.pc = "return", !.at = n, !.status = status,
              !.cur[n] = IF status = "RUNNING" THEN @ ELSE 0,
              !.tries[n] = IF status = "RUNNING" THEN @ ELSE 0]

\* A callback reported an error: the whole activation is given up.
Failed(e, r) == [e EXCEPT !.pc = "failed", !.res = r]

Visiting(kinds) == eng.pc = "visit" /\ sess.plan[eng.at].kind \in kinds

\* The abort hooks of the controls D that are active.
Aborted(w, D) ==
    LET abort(n, s) == CASE s.plan[n].kind = "PIPELINE" -> ClearPipeline(s, n)
                         [] s.plan[n].kind = "QUEUE"    -> QueueEnd(s, n)
                         [] OTHER                       -> s
    IN [w EXCEPT !.s = FoldSet(abort, w.s, D)]

\* The nodes D are halted, the running leaf first.
Halted(w, D) ==
    LET active == {n \in D : eng.cur[n] > 0} IN
    {Aborted(x, active) : x \in IF eng.leaf \in D THEN HaltLeaf(w, eng.leaf) ELSE {w}}

Stopped(e, D) ==
    [e EXCEPT !.cur = [n \in DOMAIN @ |-> IF n \in D THEN 0 ELSE @[n]],
              !.tries = [n \in DOMAIN @ |-> IF n \in D THEN 0 ELSE @[n]],
              !.leaf = IF @ \in D THEN 0 ELSE @]

AllNodes == DOMAIN sess.plan

Below(p) == {n \in AllNodes : p \in Lineage(sess.plan, n)}

\* Sequence and Fallback go on where they were.
VisitComposite ==
    /\ Visiting({"SEQUENCE", "FALLBACK"})
    /\ eng' = Down(eng, eng.at, IF eng.cur[eng.at] = 0 THEN 1 ELSE eng.cur[eng.at])
    /\ UNCHANGED <<sess, host, procs, hist, storeVars>>

\* A control that is active goes on with its child; a Timeout may not.
ResumeControl ==
    /\ Visiting({"PIPELINE", "QUEUE", "ENTRY", "TIMEOUT", "RETRY", "PRECONDITION", "SWITCH"})
    /\ eng.cur[eng.at] > 0
    /\ eng' = Down(eng, eng.at, eng.cur[eng.at])
    /\ UNCHANGED <<sess, host, procs, hist, storeVars>>

\* The deadline of a Timeout passed: what runs below it is halted.
TimeoutExpires ==
    /\ Visiting({"TIMEOUT"})
    /\ eng.cur[eng.at] > 0
    /\ \E w \in Halted(World, Below(eng.at)) : Becomes(w)
    /\ eng' = Up(Stopped(eng, Below(eng.at)), eng.at, "FAILURE")

OpenPipeline ==
    /\ Visiting({"PIPELINE"})
    /\ eng.cur[eng.at] = 0
    /\ eng' = [eng EXCEPT !.pc = "prepare", !.cur[eng.at] = 1]
    /\ UNCHANGED <<sess, host, procs, hist, storeVars>>

PreparePipeline ==
    /\ eng.pc = "prepare"
    /\ LET n == eng.at
           w == PipelinePrepare(World, n, eng.cur[n])
       IN Becomes(w) /\ eng' = IF w.ok THEN Down(eng, n, eng.cur[n]) ELSE Failed(eng, "EIO")

\* Takes note of the items.
VisitQueue ==
    /\ Visiting({"QUEUE"})
    /\ eng.cur[eng.at] = 0
    /\ LET n == eng.at
           q == QueueBegin(World, n)
           w == [q.world EXCEPT !.g.taken = IF q.item THEN @ \o q.world.v["current_item"] ELSE @,
                                !.g.lost = @ \/ (~q.world.ok /\ q.world.v["task_queue"] # store["task_queue"])]
       IN /\ Becomes(w)
          /\ eng' = IF ~w.ok THEN Failed(eng, "EIO")
                    ELSE IF q.item THEN Down(eng, n, 1) ELSE Up(eng, n, "FAILURE")

VisitEntry ==
    /\ Visiting({"ENTRY"})
    /\ eng.cur[eng.at] = 0
    /\ LET c == EntryChanged(World, eng.at) IN
       /\ Becomes(c.world)
       /\ eng' = IF ~c.world.ok THEN Failed(eng, "EIO")
                 ELSE IF c.changed THEN Down(eng, eng.at, 1) ELSE Up(eng, eng.at, eng.last[eng.at])

\* session_dynamic(): the limit or the duration is resolved, or it is not valid.
VisitDynamic ==
    /\ Visiting({"TIMEOUT", "RETRY"})
    /\ eng.cur[eng.at] = 0
    /\ eng' \in {Down(eng, eng.at, 1), Failed(eng, "EINVAL")}
    /\ UNCHANGED <<sess, host, procs, hist, storeVars>>

\* session_condition() and session_select(): the text that decides is outside
\* the model, and it may not be readable.
VisitGuard ==
    /\ Visiting({"PRECONDITION", "SWITCH"})
    /\ eng.cur[eng.at] = 0
    /\ LET n == eng.at
           w == RestorePipeline(World, n)
           chosen == {Down(eng, n, c) : c \in 1 .. Len(Children(sess.plan, n))}
       IN /\ Becomes(w)
          /\ eng' \in IF w.ok THEN chosen \cup {Up(eng, n, "FAILURE"), Failed(eng, "EINVAL")}
                      ELSE {Failed(eng, "EIO")}

VisitLeaf ==
    /\ Visiting({"LEAF"})
    /\ \E x \in TickLeaf(World, eng.at) :
          /\ Becomes(x.w)
          /\ eng' = IF x.r = "OK"
                    THEN [Up(eng, eng.at, x.status) EXCEPT !.leaf = IF x.status = "RUNNING" THEN eng.at ELSE 0]
                    ELSE Failed(eng, x.r)

\* The tree returned.
RootReturns ==
    /\ eng.pc = "return"
    /\ sess.plan[eng.at].parent = 0
    /\ eng' = [eng EXCEPT !.pc = "idle", !.at = 0, !.status = "INVALID", !.res = "OK"]
    /\ UNCHANGED <<sess, host, procs, hist, storeVars>>

\* A child returned to a node that has no hook for it.
PlainReturn ==
    LET n == sess.plan[eng.at].parent
        kind == sess.plan[n].kind
        c == eng.cur[n]
        more == c < Len(Children(sess.plan, n))
        again == kind = "RETRY" /\ eng.status = "FAILURE" /\ eng.tries[n] = 0
        next == \/ kind = "SEQUENCE" /\ eng.status = "SUCCESS" /\ more
                \/ kind = "FALLBACK" /\ eng.status = "FAILURE" /\ more
        up == Up(eng, n, eng.status)
    IN /\ eng.pc = "return" /\ n # 0
       /\ kind \in {"PIPELINE", "QUEUE"} => eng.status = "RUNNING"
       /\ eng' = IF next THEN Down(eng, n, c + 1)
                 ELSE IF again THEN [Down(eng, n, c) EXCEPT !.tries[n] = 1]
                 ELSE IF kind = "ENTRY" THEN [up EXCEPT !.last[n] = eng.status] ELSE up
       /\ UNCHANGED <<sess, host, procs, hist, storeVars>>

ReturnToPipeline ==
    LET n == sess.plan[eng.at].parent
        c == eng.cur[n]
        w == PipelineComplete(World, n, c, eng.status)
    IN /\ eng.pc = "return" /\ n # 0 /\ eng.status # "RUNNING"
       /\ sess.plan[n].kind = "PIPELINE"
       /\ Becomes(w)
       /\ eng' = IF ~w.ok THEN Failed(eng, "EIO")
                 ELSE IF eng.status = "SUCCESS" /\ c < Len(Children(sess.plan, n))
                 THEN [eng EXCEPT !.pc = "prepare", !.at = n, !.cur[n] = c + 1]
                 ELSE Up(eng, n, eng.status)

\* session_queue_finish() after a success, session_queue_abort() after a failure.
ReturnToQueue ==
    LET n == sess.plan[eng.at].parent IN
    /\ eng.pc = "return" /\ n # 0 /\ eng.status # "RUNNING"
    /\ sess.plan[n].kind = "QUEUE"
    /\ Becomes([World EXCEPT !.s = QueueEnd(sess, n)])
    /\ eng' = IF eng.status = "SUCCESS" /\ sess.node[n].more
              THEN [Up(eng, n, "RUNNING") EXCEPT !.cur[n] = 0] ELSE Up(eng, n, eng.status)

\* After an error the whole activation is halted and reset, and the tick
\* returns the error of the callback.
Unwind ==
    /\ eng.pc = "failed"
    /\ \E w \in Halted(World, AllNodes) : Becomes([w EXCEPT !.ok = TRUE])
    /\ eng' = [Stopped(eng, AllNodes) EXCEPT !.pc = "idle", !.at = 0, !.status = "INVALID"]

-----------------------------------------------------------------------------
(* The calls of the owner.  Inside a tick each of them returns EBUSY.         *)

Idle == sess.alive /\ eng.pc = "idle"

\* A new generation: no pipeline has restored its input yet.
NextGeneration(s) == [s EXCEPT !.node = [n \in DOMAIN @ |-> [@[n] EXCEPT !.restored = FALSE]]]

\* session_tick(): the root is visited, unless a process is being shut down.
Tick ==
    /\ Idle
    /\ sess' = NextGeneration(sess)
    /\ eng' = IF Pending(sess) THEN [eng EXCEPT !.res = "EBUSY"] ELSE [eng EXCEPT !.pc = "visit", !.at = 1]
    /\ UNCHANGED <<host, procs, hist, storeVars>>

\* The flags, the cached pipelines and observations of every node are dropped.
Cleared(s) ==
    LET forget(n, x) == Uncache(ClearPipeline(x, n), n, "ENTRY_VALUE")
        f == FoldSet(forget, s, DOMAIN s.plan)
    IN [f EXCEPT !.node = [n \in DOMAIN s.plan |->
            [NewNode EXCEPT !.child = s.node[n].child, !.owner = IF ProcessActive(s, n) THEN "PROCESS" ELSE "NONE"]]]

\* session_reset() and session_cancel()
ClearExecution ==
    /\ Idle
    /\ \E w \in Halted(World, AllNodes) :
          LET c == [w EXCEPT !.s = Cleared(w.s)] IN
          /\ Becomes(c)
          /\ eng' = [FreshEngine(sess.plan) EXCEPT
                        !.res = IF Pending(c.s) THEN "EBUSY" ELSE IF c.ok THEN "CLEARED" ELSE "EIO"]

\* A driver is released: the retainer adopts a process that still has leases.
Release(w, n) ==
    LET closed == IF w.s.proc[n] = "closing" THEN {[w |-> w, ok |-> FALSE]} ELSE CloseProcess(w, n) IN
    {[c.w EXCEPT !.s.proc[n] = "none",
                 !.p.retained = IF ProcessActive(c.w.s, n) THEN @ + 1 ELSE @] : c \in closed}

\* session_destroy(): the tree is halted, then every driver is released.
Destroy ==
    /\ Idle
    /\ \E w \in FoldSet(LAMBDA n, W : UNION {Release(x, n) : x \in W}, Halted(World, AllNodes), AllNodes) :
          Becomes([w EXCEPT !.s = [NewSession(sess.plan) EXCEPT !.alive = FALSE, !.proc = w.s.proc]])
    /\ eng' = FreshEngine(sess.plan)

\* session_init() again, on the same host.
InitSession ==
    /\ ~sess.alive
    /\ sess' = NewSession(sess.plan)
    /\ UNCHANGED <<host, procs, eng, hist, storeVars>>

\* Between two ticks the owner writes a value that a control reads.
OwnerWrites ==
    /\ Idle
    /\ \E k \in {"pipeline_input", "watched"}, t \in Texts :
          CanSet(store, k) /\ store' = [store EXCEPT ![k] = t]
    /\ UNCHANGED <<sess, host, procs, eng, hist, txn>>

\* External: the last lease of an adopted process settles.
RetainerReaps ==
    /\ procs.retained > 0
    /\ procs' = [native |-> procs.native - 1, retained |-> procs.retained - 1]
    /\ UNCHANGED <<sess, host, eng, hist, storeVars>>

NewHistory(seed) ==
    [open |-> {}, stray |-> FALSE, foreign |-> FALSE, taken |-> <<>>, lost |-> FALSE,
     queue |-> IF seed["task_queue"] = Absent THEN <<>> ELSE seed["task_queue"]]

SessionInit ==
    \E x \in Scenarios :
        /\ sess = NewSession(x.plan)
        /\ eng = FreshEngine(x.plan)
        /\ host = NewHost
        /\ procs = [native |-> 0, retained |-> 0]
        /\ store = x.seed
        /\ txn = <<>>
        /\ hist = NewHistory(x.seed)

EngineStep ==
    \/ VisitComposite \/ ResumeControl \/ TimeoutExpires \/ OpenPipeline \/ PreparePipeline
    \/ VisitQueue \/ VisitEntry \/ VisitDynamic \/ VisitGuard \/ VisitLeaf
    \/ RootReturns \/ PlainReturn \/ ReturnToPipeline \/ ReturnToQueue \/ Unwind

SessionNext ==
    \/ EngineStep
    \/ Tick \/ ClearExecution \/ Destroy \/ InitSession
    \/ OwnerWrites \/ RetainerReaps

SessionSpec == SessionInit /\ [][SessionNext]_sessionVars

-----------------------------------------------------------------------------
Slots == {<<n, k>> \in AllNodes \X SlotNames : sess.slots[n][k].present}

\* The bytes of a slot, its terminator included.
Extent(c) == c.offset + 1 .. c.offset + c.size + 1

\* The slots divide the pool among themselves: no byte belongs to two or to
\* none, each text ends where its terminator is, and the budget is kept
\* (session_cache() and session_uncache() move the texts behind a removed one).
PoolExact ==
    /\ Len(sess.pool) <= MaxStateBytes
    /\ \A x \in Slots : LET c == sess.slots[x[1]][x[2]] IN
          Max(Extent(c)) <= Len(sess.pool) /\ {i \in Extent(c) : sess.pool[i] = "NUL"} = {Max(Extent(c))}
    /\ \A x, y \in Slots : x # y =>
          Extent(sess.slots[x[1]][x[2]]) \cap Extent(sess.slots[y[1]][y[2]]) = {}
    /\ Len(sess.pool) = MapThenSumSet(LAMBDA x : sess.slots[x[1]][x[2]].size + 1, Slots)
    /\ \A x \in Slots : x[2] = "PIPE_KEY" => Cached(sess, x[1], x[2]) = <<"pipeline_result">>
    /\ \A x \in Slots : x[2] = "SHELL_CMD" => Cached(sess, x[1], x[2]) = <<"cmd">>

SessionTypeOK ==
    /\ sess.node \in [AllNodes -> [pipeline : BOOLEAN, restored : BOOLEAN, child : 1 .. Len(sess.plan),
                                   observed : BOOLEAN, active : BOOLEAN, more : BOOLEAN,
                                   owner : {"NONE", "HOST", "PROCESS"}]]
    /\ sess.proc \in [AllNodes -> {"none", "live", "closing", "dead"}]
    /\ eng.pc \in {"idle", "visit", "prepare", "return", "failed"}
    /\ eng.status \in {"SUCCESS", "FAILURE", "RUNNING", "INVALID"}
    /\ eng.cur \in [AllNodes -> 0 .. Len(sess.plan)]
    /\ eng.leaf \in AllNodes \cup {0}
    /\ StoreSize(store) <= Capacity
    /\ Cardinality(host.regex) <= RegexCapacity
    /\ Cardinality(host.sleep) <= MaxRunningLeaves
    /\ procs \in [native : Nat, retained : 0 .. RetainerCapacity]

\* An activation that the host opened by returning RUNNING is ended exactly
\* once: by its last tick or by one halt.  Between ticks the open ones are those
\* of the leaf that runs, no sleeping slot outlives its activation, and nothing
\* is open once the Session is gone (tick_leaf(), halt_leaf(), dispatch_halt()).
ActivationsBalanced ==
    /\ ~hist.stray
    /\ host.sleep \subseteq hist.open
    /\ eng.pc = "idle" => /\ hist.open = {n \in AllNodes : sess.node[n].owner = "HOST"}
                          /\ hist.open \subseteq {eng.leaf}
    /\ ~sess.alive => hist.open = {}

\* No native process is dropped: each belongs to a driver or to the retainer,
\* within its reservations, and between ticks a process that is not being shut
\* down is the running leaf's (finalize_process(), release in session_destroy()).
LeasesAccounted ==
    /\ procs.native = Cardinality({n \in AllNodes : ProcessActive(sess, n)}) + procs.retained
    /\ Reserved(World) <= RetainerCapacity
    /\ eng.pc = "idle" => \A n \in AllNodes : sess.proc[n] = "live" => n = eng.leaf
    /\ eng.pc = "idle" => \A n \in AllNodes : sess.proc[n] # "dead"
    /\ ~sess.alive => procs.native = procs.retained

\* A leaf inside a stage of a PipelineSequence finds the stage's data under
\* pipeline_input, also on a later tick and whatever the owner wrote there in
\* the meantime (session_restore_pipeline()).
StageReadsItsInput == ~hist.foreign

\* Over ticks, halts, failures and resets every item of a ConsumeQueue's queue
\* is handed out once and in order; only a begin that reported an error may
\* have dropped one (session_queue_begin()).
QueueExact == ~hist.lost => hist.taken \o Text(World, "task_queue") = hist.queue

\* A reset or cancel that reports success left nothing behind: no process, no
\* activation, no cached text (clear_execution()).
ClearedMeansClean ==
    eng.pc = "idle" /\ eng.res = "CLEARED" =>
        /\ \A n \in AllNodes : sess.proc[n] = "none" /\ sess.node[n].owner = "NONE"
        /\ hist.open = {} /\ host.sleep = {} /\ sess.pool = <<>>

\* The Session is well-formed, the texts that it keeps between ticks are intact
\* whatever order they are cached and dropped in (session_values.c), and none is
\* left by a reset or cancel.
SessionInv == SessionTypeOK /\ PoolExact /\ ClearedMeansClean
=============================================================================
