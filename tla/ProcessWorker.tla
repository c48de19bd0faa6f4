--------------------------- MODULE ProcessWorker ---------------------------
(* praktor_process_worker (process_worker.c): a thread that owns a process    *)
(* driver, and the handle through which other threads observe, cancel and     *)
(* destroy it.  A step is a critical section of the mutex or what the thread  *)
(* does on its own between two of them; pc is where the thread is.  Waiting   *)
(* and reading change nothing and are not steps: wait() returns when          *)
(* completed is set, result() is admitted from then on.                       *)
EXTENDS ProcessDriver

VARIABLES wk

workerVars == <<wk, drv, lib>>

ThreadPC == {"none", "setup", "check", "admit", "mark", "run", "tick", "drain", "publish", "exited"}

LiveState == {"STARTING", "RUNNING", "CANCELLING"}
FinalState == {"EXITED", "SIGNALED", "TIMED_OUT", "CANCELLED", "SPAWN_FAILED", "WAIT_FAILED",
               "OUTPUT_LIMIT_EXCEEDED"}

\* outcome and spawned are locals of run_worker(), terminated one of
\* praktor_process_driver_run(); early is a history: the cancellation was
\* accepted before the thread looked for it.
WorkerRecord ==
    [pc : ThreadPC, joining : BOOLEAN, completed : BOOLEAN, cancel_requested : BOOLEAN,
     state : LiveState \cup FinalState, outcome : FinalState, spawned : BOOLEAN,
     terminated : BOOLEAN, early : BOOLEAN]

NoWorker ==
    [pc |-> "none", joining |-> FALSE, completed |-> FALSE, cancel_requested |-> FALSE,
     state |-> "STARTING", outcome |-> "SPAWN_FAILED", spawned |-> FALSE,
     terminated |-> FALSE, early |-> FALSE]

WorkerInit == wk = NoWorker /\ DriverInit

\* praktor_process_worker_start(): the handle is published, then the thread runs.
WorkerStart ==
    /\ wk.pc = "none"
    /\ wk' = [NoWorker EXCEPT !.pc = "setup"]
    /\ drv' = NoDriver /\ lib' = NoProcess

-----------------------------------------------------------------------------
(* The thread: run_worker().                                                  *)

Setup ==
    /\ wk.pc = "setup"
    /\ \/ wk' = [wk EXCEPT !.pc = "check"]
       \/ LibraryMayFail /\ wk' = [wk EXCEPT !.pc = "publish", !.outcome = "WAIT_FAILED"]
    /\ UNCHANGED driverVars

\* Mutant: the request is not looked at before admission.
CheckCancelNever ==
    /\ wk.pc = "check"
    /\ wk' = [wk EXCEPT !.pc = "admit"]
    /\ UNCHANGED driverVars

CheckCancel ==
    /\ wk.pc = "check"
    /\ wk' = IF wk.cancel_requested THEN [wk EXCEPT !.pc = "publish", !.outcome = "CANCELLED"]
             ELSE [wk EXCEPT !.pc = "admit"]
    /\ UNCHANGED driverVars

\* praktor_process_driver_start(), without a retainer; without memory there is
\* no driver at all.
Admit ==
    /\ wk.pc = "admit"
    /\ \/ \E mode \in {m \in Modes : ~m.retained} :
             /\ Becomes(StartResults(mode))
             /\ wk' = IF drv'.failed THEN [wk EXCEPT !.pc = "drain"]
                      ELSE [wk EXCEPT !.pc = "mark", !.spawned = TRUE]
       \/ /\ LibraryMayFail
          /\ wk' = [wk EXCEPT !.pc = "publish"]
          /\ UNCHANGED driverVars

MarkRunning ==
    /\ wk.pc = "mark"
    /\ wk' = [wk EXCEPT !.pc = "run", !.state = IF wk.cancel_requested THEN @ ELSE "RUNNING"]
    /\ UNCHANGED driverVars

\* Mutant: the request is noticed but the process is not terminated.
RunCheckOnly ==
    /\ wk.pc = "run"
    /\ wk' = [wk EXCEPT !.pc = "tick", !.terminated = wk.cancel_requested]
    /\ UNCHANGED driverVars

\* The head of the loop of praktor_process_driver_run().
RunCheck ==
    /\ wk.pc = "run"
    /\ IF wk.cancel_requested /\ ~wk.terminated
       THEN /\ wk' = [wk EXCEPT !.pc = "tick", !.terminated = TRUE]
            /\ lib' = [lib EXCEPT !.terminated = TRUE]
            /\ drv' \in {drv} \cup {d \in {[drv EXCEPT !.failed = TRUE]} : LibraryMayFail}
       ELSE wk' = [wk EXCEPT !.pc = "tick"] /\ UNCHANGED driverVars

\* One pass of tick().  A terminate() that failed has set failed, and tick() then makes no pass.
RunTick ==
    /\ wk.pc = "tick"
    /\ IF drv.failed THEN drv' = [drv EXCEPT !.done = TRUE] /\ UNCHANGED lib ELSE Tick
    /\ wk' = [wk EXCEPT !.pc = IF drv'.pass = 1 THEN "tick" ELSE IF drv'.done THEN "drain" ELSE "run"]

\* terminal() and the choice after the driver was drained.
Outcome(w, d) ==
    IF ~w.spawned THEN "SPAWN_FAILED"
    ELSE IF d.limited THEN "OUTPUT_LIMIT_EXCEEDED"
    ELSE IF d.failed THEN "WAIT_FAILED"
    ELSE IF d.result = "TERMINATED" THEN "CANCELLED" ELSE d.result

\* praktor_process_driver_drain(): close() until the library object is gone.
Drain ==
    /\ wk.pc = "drain"
    /\ Becomes(CloseResults(DriverState))
    /\ wk' = IF lib'.active THEN wk
             ELSE [wk EXCEPT !.pc = "publish", !.outcome = Outcome(wk, drv')]

\* The state a process ends in: an accepted cancellation wins over an exit.
PublishedState(w) ==
    IF /\ w.spawned /\ w.cancel_requested
       /\ w.outcome \notin {"TIMED_OUT", "WAIT_FAILED", "OUTPUT_LIMIT_EXCEEDED"}
    THEN "CANCELLED" ELSE w.outcome

Publish ==
    /\ wk.pc = "publish"
    /\ wk' = [wk EXCEPT !.pc = "exited", !.completed = TRUE, !.state = PublishedState(wk)]
    /\ UNCHANGED driverVars

-----------------------------------------------------------------------------
(* Other threads, and callbacks on the thread itself.                         *)

\* The worker after praktor_process_worker_cancel().
Cancelled(w) ==
    IF w.completed \/ w.cancel_requested THEN w
    ELSE [w EXCEPT !.cancel_requested = TRUE, !.state = "CANCELLING", !.early = (w.pc = "setup")]

Cancel ==
    /\ wk.pc # "none"
    /\ wk' = Cancelled(wk)
    /\ UNCHANGED driverVars

\* praktor_process_worker_destroy(): request, join, release.
DestroyBegin ==
    /\ wk.pc # "none" /\ ~wk.joining
    /\ wk' = [Cancelled(wk) EXCEPT !.joining = TRUE]
    /\ UNCHANGED driverVars

DestroyEnd ==
    /\ wk.joining /\ wk.pc = "exited"
    /\ \/ drv.payload = "none" /\ UNCHANGED driverVars
       \/ drv.payload = "driver" /\ Becomes(Released(DriverState))
    /\ wk' = [wk EXCEPT !.pc = "none", !.joining = FALSE]

ThreadStep ==
    \/ Setup \/ CheckCancel \/ Admit \/ MarkRunning \/ RunCheck \/ RunTick \/ Drain \/ Publish

WorkerNext ==
    \/ WorkerStart \/ ThreadStep \/ Cancel \/ DestroyBegin \/ DestroyEnd
    \/ ChildNext /\ UNCHANGED wk

WorkerSpec == WorkerInit /\ [][WorkerNext]_workerVars

-----------------------------------------------------------------------------
\* The worker stays well formed.
WorkerTypeOK == wk \in WorkerRecord

\* A cancellation that was accepted, at whatever moment before completion, is
\* never followed by a report that the process ended on its own.
CancelNeverSucceeds ==
    (wk.completed /\ wk.cancel_requested) => wk.state \notin {"EXITED", "SIGNALED"}

\* CANCELLED is reported only if some caller asked for it and was accepted.
CancelledOnlyIfAsked == wk.state \in {"CANCELLED", "CANCELLING"} => wk.cancel_requested

\* When a waiter learns of the completion the native process is gone, and no
\* buffer of the result is still in the hands of the library.
CompletedMeansReaped == wk.completed => ~lib.active /\ lib.requests = {}

\* A cancellation accepted while the thread is set up prevents the admission of
\* the process, as the comment on thread_start says.
EarlyCancelPreventsAdmission == (wk.pc # "none" /\ wk.early) => drv.payload = "none"

\* An accepted cancellation is honoured, wherever in the life of the thread
\* cancel() meets it; there is no cancellation out of nothing and no completion
\* before the end (process_worker.c).
WorkerInv ==
    /\ WorkerTypeOK /\ CancelledOnlyIfAsked /\ CompletedMeansReaped
    /\ CancelNeverSucceeds /\ EarlyCancelPreventsAdmission

-----------------------------------------------------------------------------
(* Progress: the thread is scheduled, a terminated child ends and its pipes   *)
(* are closed, a tick() with something to do does some of it sooner or later  *)
(* and the library becomes quiescent when it is closed.                       *)

\* A tick that does more than to find the library busy.
ProductiveTick == RunTick /\ [drv' EXCEPT !.pass = 0] # [drv EXCEPT !.pass = 0]

WorkerFairness ==
    /\ WF_workerVars(ThreadStep) /\ WF_workerVars(DestroyEnd)
    /\ SF_workerVars(ProductiveTick)
    /\ WF_workerVars(ChildEnds("TERMINATED") /\ UNCHANGED wk)
    /\ \A i \in Reads : WF_workerVars(lib.ending # "none" /\ ChildCloses(i) /\ UNCHANGED wk)

\* An accepted cancellation completes the worker, wherever its thread was.
CancelCompletes == wk.cancel_requested ~> (wk.completed \/ wk.pc = "none")

\* destroy() returns.
DestroyReturns == wk.joining ~> (wk.pc = "none")

\* Nobody who waits for a worker waits for ever: an accepted cancellation
\* completes it, and destroy() comes back from its join.
WorkerReturns == CancelCompletes /\ DestroyReturns
=============================================================================
