--------------------------- MODULE ProcessControl ---------------------------
(* praktor_process_control_execute() (process_control.c): one call that       *)
(* queries, starts, stops or restarts an application identified by its image, *)
(* against deadlines.  Every host call is a step, between two steps instances *)
(* of the image may end or be started by somebody else and time may pass.  An *)
(* instance stands for pid, session and creation token (process_native.c);    *)
(* these are never used twice.  pc is the phase the result would report.      *)
EXTENDS Naturals

CONSTANTS
    MaxInstance,    \* bound: instances that ever exist
    StartupBudget,  \* startup_timeout_ms
    StopBudget      \* stop_timeout_ms

ASSUME ControlAssumption ==
    /\ MaxInstance \in Nat \ {0}
    /\ StartupBudget \in Nat \ {0}
    /\ StopBudget \in Nat \ {0}

VARIABLES ctl, world

controlVars == <<ctl, world>>

Operation == {"STATUS", "START", "STOP", "RESTART"}

ControlPhase == {"query", "request_stop", "stop_poll", "force_query", "terminate", "terminate_poll",
          "restart_query", "start", "start_poll", "start_timeout_query",
          "start_timeout_terminate", "start_timeout_cleanup_poll"}

\* 0 is no instance: the snapshot of an image that is not running.
Instance == 0 .. MaxInstance

LongestBudget == IF StartupBudget < StopBudget THEN StopBudget ELSE StartupBudget

\* elapsed is the time since the deadline was set, as far as it matters;
\* observed: the query of the current round of a polling loop has been made.
\* Histories for the properties: first is the instance the call found running,
\* forced the one that force_query found after the stop deadline.
ControlRecord ==
    [op : Operation, force : BOOLEAN, pc : ControlPhase \cup {"done"}, phase : ControlPhase,
     error : {"NONE", "BACKEND_FAILURE", "TIMEOUT"}, changed : BOOLEAN, snapshot : Instance,
     started : Instance, elapsed : 0 .. LongestBudget, observed : BOOLEAN, first : Instance,
     forced : Instance]

\* alive are the instances of the image, killed those terminated by this call.
WorldRecord == [alive : SUBSET (1 .. MaxInstance), next : 1 .. MaxInstance + 1,
                killed : SUBSET (1 .. MaxInstance)]

\* query() of process_native.c finds one of the instances, if there is any.
Visible == IF world.alive = {} THEN {0} ELSE world.alive

-----------------------------------------------------------------------------
(* Control flow: what ctl becomes when a function of the file returns.        *)

Return(c, error) == [c EXCEPT !.pc = "done", !.phase = c.pc, !.error = error]

At(c, phase) == [c EXCEPT !.pc = phase, !.elapsed = 0, !.observed = FALSE]

\* start() on entry.
EnterStart(c) == IF c.snapshot # 0 THEN Return(c, "NONE") ELSE At(c, "start")

\* stop() returned true.
StopDone(c) == IF c.op = "RESTART" THEN At(c, "restart_query") ELSE Return(c, "NONE")

\* stop() on entry.
EnterStop(c) == IF c.snapshot = 0 THEN StopDone(c) ELSE At(c, "request_stop")

\* expired()
Expired(c, budget) == c.elapsed >= budget

ControlInit ==
    /\ world \in [alive : SUBSET {1}, next : {2}, killed : {{}}]
    /\ \E op \in Operation, force \in BOOLEAN :
          ctl = [op |-> op, force |-> force, pc |-> "query", phase |-> "query", error |-> "NONE",
                 changed |-> FALSE, snapshot |-> 0, started |-> 0, elapsed |-> 0,
                 observed |-> FALSE, first |-> 0, forced |-> 0]

\* A host call that reports an error ends the execution.
BackendFails ==
    /\ ctl.pc # "done" /\ ~ctl.observed
    /\ ctl' = [Return(ctl, "BACKEND_FAILURE") EXCEPT
                  !.snapshot = IF ctl.pc = "start_timeout_query" THEN ctl.started ELSE @]
    /\ UNCHANGED world

\* query() with the snapshot i, then the rest of the phase up to the next call.
Query ==
    /\ ctl.pc = "query"
    /\ \E i \in Visible :
          LET c == [ctl EXCEPT !.snapshot = i, !.first = i] IN
          ctl' = CASE ctl.op = "STATUS" -> Return(c, "NONE")
                   [] ctl.op = "START" -> EnterStart(c)
                   [] ctl.op \in {"STOP", "RESTART"} -> EnterStop(c)
    /\ UNCHANGED world

\* validate() of process_native.c: the instance of a snapshot is still the one
\* that runs, by pid, session and creation time.
StillRuns(i) == i \in world.alive

RequestStop ==
    /\ ctl.pc = "request_stop"
    /\ ctl' = IF StillRuns(ctl.snapshot) THEN At([ctl EXCEPT !.changed = TRUE], "stop_poll")
              ELSE Return(ctl, "BACKEND_FAILURE")
    /\ UNCHANGED world

\* poll_for_stopped() met its deadline: escalate, or give up.
PollTimeout(c) ==
    IF c.pc = "stop_poll" /\ c.force THEN At(c, "force_query") ELSE Return(c, "TIMEOUT")

\* poll_for_stopped() saw no instance before the deadline.
PollStopped(c) ==
    IF c.pc = "start_timeout_cleanup_poll"
    THEN [Return(c, "TIMEOUT") EXCEPT !.phase = "start_poll"] ELSE StopDone(c)

\* Mutant: polling does not watch the deadline.
PollRoundForever(c) ==
    IF ~c.observed THEN [c EXCEPT !.observed = TRUE]
    ELSE IF c.snapshot = 0 THEN PollStopped(c) ELSE [c EXCEPT !.observed = FALSE]

\* One round of the loop: the deadline is looked at before and after the query.
PollRound(c) ==
    CASE Expired(c, StopBudget) -> PollTimeout(c)
      [] ~Expired(c, StopBudget) /\ ~c.observed -> [c EXCEPT !.observed = TRUE]
      [] ~Expired(c, StopBudget) /\ c.observed ->
            IF c.snapshot = 0 THEN PollStopped(c) ELSE [c EXCEPT !.observed = FALSE]

PollForStopped ==
    /\ ctl.pc \in {"stop_poll", "terminate_poll", "start_timeout_cleanup_poll"}
    /\ IF ctl.observed THEN ctl' = PollRound(ctl)
       ELSE \E i \in Visible :
               ctl' = LET c == PollRound(ctl) IN
                      IF c.observed THEN [c EXCEPT !.snapshot = i] ELSE c
    /\ UNCHANGED world

ForceQuery ==
    /\ ctl.pc = "force_query"
    /\ \E i \in Visible :
          LET c == [ctl EXCEPT !.snapshot = i, !.forced = i] IN
          ctl' = IF i = 0 THEN StopDone(c) ELSE At(c, "terminate")
    /\ UNCHANGED world

\* Mutant: the startup timeout terminates the instance that was seen last.
TerminateTargetSeen(c) == c.snapshot

\* The instance terminate() is called for.
TerminateTarget(c) == IF c.pc = "terminate" THEN c.snapshot ELSE c.started

TerminateInstance ==
    /\ ctl.pc \in {"terminate", "start_timeout_terminate"}
    /\ IF StillRuns(TerminateTarget(ctl))
       THEN /\ world' = [world EXCEPT !.alive = @ \ {TerminateTarget(ctl)},
                                      !.killed = @ \cup {TerminateTarget(ctl)}]
            /\ ctl' = At(ctl, IF ctl.pc = "terminate" THEN "terminate_poll"
                              ELSE "start_timeout_cleanup_poll")
       ELSE ctl' = Return(ctl, "BACKEND_FAILURE") /\ UNCHANGED world

RestartQuery ==
    /\ ctl.pc = "restart_query"
    /\ \E i \in Visible : ctl' = EnterStart([ctl EXCEPT !.snapshot = i])
    /\ UNCHANGED world

\* The startup budget runs from before the host call.
StartInstance ==
    /\ ctl.pc = "start"
    /\ world.next <= MaxInstance
    /\ world' = [world EXCEPT !.alive = @ \cup {world.next}, !.next = @ + 1]
    /\ ctl' = [ctl EXCEPT !.pc = "start_poll", !.changed = TRUE,
                          !.snapshot = world.next, !.started = world.next]

\* After the query of start_poll: running in time, too late, or once more.
StartRound(c) ==
    IF Expired(c, StartupBudget) THEN [c EXCEPT !.pc = "start_timeout_query", !.observed = FALSE]
    ELSE IF c.snapshot # 0 THEN Return(c, "NONE") ELSE [c EXCEPT !.observed = FALSE]

StartPoll ==
    /\ ctl.pc = "start_poll"
    /\ IF ctl.observed THEN ctl' = StartRound(ctl)
       ELSE \E i \in Visible : ctl' = [ctl EXCEPT !.snapshot = i, !.observed = TRUE]
    /\ UNCHANGED world

\* The last look before the timeout is reported: an instance that runs is
\* terminated first.
StartTimeoutQuery ==
    /\ ctl.pc = "start_timeout_query"
    /\ \E i \in Visible :
          LET c == [ctl EXCEPT !.snapshot = i] IN
          ctl' = IF i # 0 THEN At(c, "start_timeout_terminate")
                 ELSE [Return(c, "TIMEOUT") EXCEPT !.phase = "start_poll"]
    /\ UNCHANGED world

-----------------------------------------------------------------------------
InstanceEnds ==
    /\ \E i \in world.alive : world' = [world EXCEPT !.alive = @ \ {i}]
    /\ UNCHANGED ctl

SomebodyStarts ==
    /\ world.next < MaxInstance
    /\ world' = [world EXCEPT !.alive = @ \cup {world.next}, !.next = @ + 1]
    /\ UNCHANGED ctl

TimePasses ==
    /\ ctl.pc # "done" /\ ctl.elapsed < LongestBudget
    /\ ctl' = [ctl EXCEPT !.elapsed = @ + 1]
    /\ UNCHANGED world

ControlStep ==
    \/ Query \/ RequestStop \/ PollForStopped \/ ForceQuery \/ TerminateInstance
    \/ RestartQuery \/ StartInstance \/ StartPoll \/ StartTimeoutQuery

ControlNext == ControlStep \/ BackendFails \/ InstanceEnds \/ SomebodyStarts \/ TimePasses

ControlSpec == ControlInit /\ [][ControlNext]_controlVars

-----------------------------------------------------------------------------
\* The result and the instances stay well formed.
ControlTypeOK == ctl \in ControlRecord /\ world \in WorldRecord

Succeeded == ctl.pc = "done" /\ ctl.error = "NONE"

\* Whom a call may terminate: the instance it started itself, whatever
\* replacements it saw since, and the one instance that force_query found.  The
\* latter only in a stop or restart with force_terminate, after a request to
\* stop was accepted and its deadline passed; it may be a replacement that
\* somebody else started in between (process_control.c:88-90).  So a status
\* and a stop without force_terminate terminate nothing.
KillsAsAsked ==
    /\ world.killed \subseteq {ctl.started, ctl.forced}
    /\ ctl.forced # 0 => ctl.op \in {"STOP", "RESTART"} /\ ctl.force /\ ctl.changed
    /\ ctl.started # 0 => ctl.op \in {"START", "RESTART"} /\ ctl.changed

\* A successful restart never answers with the instance it found at the
\* beginning, and that instance is gone.
RestartReplaces ==
    (Succeeded /\ ctl.op = "RESTART" /\ ctl.first # 0) =>
        ctl.snapshot # ctl.first /\ ctl.first \notin world.alive

\* A start that is reported as timed out in start_poll leaves no instance it
\* has started behind.
TimedOutStartCleansUp ==
    (ctl.pc = "done" /\ ctl.error = "TIMEOUT" /\ ctl.phase = "start_poll") =>
        ctl.started # 0 /\ ctl.started \notin world.alive

\* Whatever processes come and go between two looks of a call, it terminates
\* nothing but what it has started and the one instance a forced stop found
\* after its deadline, a restart has replaced what it found at first, and a start
\* that timed out leaves nothing of its own behind.
ControlInv == ControlTypeOK /\ KillsAsAsked /\ RestartReplaces /\ TimedOutStartCleansUp
=============================================================================
