--------------------------- MODULE ServiceControl ---------------------------
(* praktor_service_control_execute() (service_control.c): one call that       *)
(* queries, starts, stops or restarts a service by running commands of a      *)
(* profile against one deadline.  A command is two steps, its admission and   *)
(* its answer, and in between the service moves on its own, other             *)
(* administrators act and time passes.  busy makes calls on one control       *)
(* sequential, so one call is the whole system.                               *)
EXTENDS Naturals, Sequences

CONSTANTS ServiceBudget     \* timeout_ms

ASSUME ServiceAssumption == ServiceBudget \in Nat \ {0}

\* svc is the execution, scm the state number the service manager would print.
VARIABLES svc, scm

serviceVars == <<svc, scm>>

ServiceState == {"UNKNOWN", "STOPPED", "START_PENDING", "STOP_PENDING", "RUNNING"}

ServiceError == {"NONE", "INVALID", "STATE_FAILED", "SPAWN_FAILED", "TIMEOUT", "CANCELLED"}

ServiceCommand == {"status", "start", "stop"}

\* stage is the function of the call tree: the first query(), the wait for a
\* pending start in a restart, stop() or start().  issued, asked and stopped are
\* histories: the commands run so far that change something, those of them that
\* succeeded, and whether STOPPED has been observed.
ServiceRecord ==
    [op : {"STATUS", "START", "STOP", "RESTART"}, pc : {"prepare", "poll", "run", "host", "done"},
     stage : {"query", "settle", "stop", "start"}, command : ServiceCommand, state : ServiceState,
     error : ServiceError, changed : BOOLEAN, elapsed : 0 .. ServiceBudget,
     issued : Seq({"start", "stop"}), asked : SUBSET {"start", "stop"}, stopped : BOOLEAN]

\* praktor_service_parse_state(): the four numbers it supports.
ParseState(n) ==
    CASE n = 1 -> "STOPPED" [] n = 2 -> "START_PENDING" [] n = 3 -> "STOP_PENDING"
      [] n = 4 -> "RUNNING" [] OTHER -> "UNKNOWN"

\* What the service does without this call: a pending change completes, it
\* ends, is paused (7) and continues, or somebody else starts or stops it.
Moves(n) ==
    CASE n = 1 -> {2} [] n = 2 -> {1, 4} [] n = 3 -> {1} [] n = 4 -> {1, 3, 7} [] OTHER -> {4}

-----------------------------------------------------------------------------
(* Control flow: what svc becomes when a function of the file returns.        *)

ServiceReturn(s, error) == [s EXCEPT !.pc = "done", !.error = error]

RunCommand(s, command) == [s EXCEPT !.pc = "run", !.command = command]

PollFor(s, stage) == [s EXCEPT !.pc = "poll", !.stage = stage]

PollTarget(stage) == IF stage = "stop" THEN "STOPPED" ELSE "RUNNING"

\* start()
ServiceStart(s) ==
    CASE s.state = "RUNNING" -> ServiceReturn(s, "NONE")
      [] s.state = "STOP_PENDING" -> ServiceReturn(s, "STATE_FAILED")
      [] s.state = "STOPPED" -> RunCommand([s EXCEPT !.stage = "start"], "start")
      [] s.state = "START_PENDING" -> PollFor(s, "start")

\* stop() returned true.
ServiceStopped(s) == IF s.op = "RESTART" THEN ServiceStart(s) ELSE ServiceReturn(s, "NONE")

\* stop()
ServiceStop(s) ==
    CASE s.state = "STOPPED" -> ServiceStopped(s)
      [] s.state = "START_PENDING" -> ServiceReturn(s, "STATE_FAILED")
      [] s.state = "RUNNING" -> RunCommand([s EXCEPT !.stage = "stop"], "stop")
      [] s.state = "STOP_PENDING" -> PollFor(s, "stop")

\* Mutant: a restart waits for a pending start and takes it for its own.
DispatchPending(s) ==
    CASE s.op = "STATUS" -> ServiceReturn(s, "NONE")
      [] s.op = "START" \/ (s.op = "RESTART" /\ s.state = "START_PENDING") -> ServiceStart(s)
      [] s.op = "STOP" \/ (s.op = "RESTART" /\ s.state # "START_PENDING") -> ServiceStop(s)

\* The operation, after the first query.
Dispatch(s) ==
    CASE s.op = "STATUS" -> ServiceReturn(s, "NONE")
      [] s.op = "START" -> ServiceStart(s)
      [] s.op = "STOP" -> ServiceStop(s)
      [] s.op = "RESTART" -> IF s.state = "START_PENDING" THEN PollFor(s, "settle") ELSE ServiceStop(s)

\* A query succeeded: what the caller of query() does with the state.
Observed(s) ==
    CASE s.stage = "query" -> Dispatch(s)
      [] s.stage # "query" /\ s.state # PollTarget(s.stage) -> PollFor(s, s.stage)
      [] s.stage = "settle" /\ s.state = "RUNNING" -> ServiceStop(s)
      [] s.stage = "stop" /\ s.state = "STOPPED" -> ServiceStopped(s)
      [] s.stage = "start" /\ s.state = "RUNNING" -> ServiceReturn(s, "NONE")

ServiceExpired(s) == s.elapsed >= ServiceBudget

\* The rest of run() after the command exited with 0, and of its caller; n is
\* the number in its output, 0 for an output that exceeds the bound.
Answered(s, n) ==
    LET c == IF s.command = "status" THEN s
             ELSE [s EXCEPT !.changed = TRUE, !.asked = @ \cup {s.command}]
    IN CASE ServiceExpired(c) -> ServiceReturn(c, "TIMEOUT")
         [] ~ServiceExpired(c) /\ (n = 0 \/ (c.command = "status" /\ ParseState(n) = "UNKNOWN")) ->
               ServiceReturn(c, "STATE_FAILED")
         [] ~ServiceExpired(c) /\ n # 0 /\ c.command # "status" -> PollFor(c, c.stage)
         [] OTHER -> Observed([c EXCEPT !.state = ParseState(n), !.stopped = @ \/ ParseState(n) = "STOPPED"])

-----------------------------------------------------------------------------
ServiceInit ==
    /\ scm \in {1, 2, 3, 4, 7}
    /\ \E op \in {"STATUS", "START", "STOP", "RESTART"} :
          svc = [op |-> op, pc |-> "prepare", stage |-> "query", command |-> "status",
                 state |-> "UNKNOWN", error |-> "NONE", changed |-> FALSE, elapsed |-> 0,
                 issued |-> <<>>, asked |-> {}, stopped |-> FALSE]

\* prepare(): all three commands are rendered within the bounds, or none runs.
Prepare ==
    /\ svc.pc = "prepare"
    /\ svc' \in {RunCommand(svc, "status"), ServiceReturn(svc, "INVALID"),
                 ServiceReturn(svc, "STATE_FAILED")}
    /\ UNCHANGED scm

\* The head of the loop of poll_for(), and its sleep.
PollSleep ==
    /\ svc.pc = "poll"
    /\ svc' = IF ServiceExpired(svc) THEN ServiceReturn(svc, "TIMEOUT") ELSE RunCommand(svc, "status")
    /\ UNCHANGED scm

\* run() up to the call of the host.
RunBegins ==
    /\ svc.pc = "run"
    /\ svc' = IF ServiceExpired(svc) THEN ServiceReturn(svc, "TIMEOUT")
              ELSE [svc EXCEPT !.pc = "host",
                               !.issued = IF svc.command = "status" THEN @ ELSE Append(@, svc.command)]
    /\ UNCHANGED scm

\* The states the service may be in when the command that was run is over:
\* the manager refuses to start what is not stopped and to stop what is not
\* running.
Effect ==
    CASE svc.command = "status" -> {scm}
      [] svc.command = "start" -> IF scm = 1 THEN {2} ELSE {}
      [] svc.command = "stop" -> IF scm = 4 THEN {3} ELSE {}

\* The command exits with 0.
CommandSucceeds ==
    /\ svc.pc = "host"
    /\ \E n \in Effect : scm' = n /\ svc' \in {Answered(svc, n), Answered(svc, 0)}

\* It does not, or the host cannot tell; it may have acted nevertheless.
CommandFails ==
    /\ svc.pc = "host"
    /\ scm' \in {scm} \cup Effect
    /\ svc' \in {ServiceReturn(svc, e) : e \in {"SPAWN_FAILED", "TIMEOUT", "CANCELLED", "STATE_FAILED"}}

ServiceMoves ==
    /\ scm' \in Moves(scm)
    /\ UNCHANGED svc

ServiceTime ==
    /\ svc.pc # "done" /\ svc.elapsed < ServiceBudget
    /\ svc' = [svc EXCEPT !.elapsed = @ + 1]
    /\ UNCHANGED scm

ServiceStep == Prepare \/ PollSleep \/ RunBegins \/ CommandSucceeds \/ CommandFails

ServiceNext == ServiceStep \/ ServiceMoves \/ ServiceTime

ServiceSpec == ServiceInit /\ [][ServiceNext]_serviceVars

-----------------------------------------------------------------------------
\* The execution and the state of the service stay well formed.
ServiceTypeOK == svc \in ServiceRecord /\ scm \in {1, 2, 3, 4, 7}

ServiceOk == svc.pc = "done" /\ svc.error = "NONE"

\* No command is repeated, a start follows a stop and never the reverse, and an
\* operation runs only the commands it stands for.
CommandsInOrder ==
    svc.issued \in CASE svc.op = "STATUS" -> {<<>>}
                     [] svc.op = "START" -> {<<>>, <<"start">>}
                     [] svc.op = "STOP" -> {<<>>, <<"stop">>}
                     [] svc.op = "RESTART" -> {<<>>, <<"stop">>, <<"start">>, <<"stop", "start">>}

\* A success is based on answers within the deadline, and changed tells exactly
\* whether it took a command.
SuccessIsSound ==
    ServiceOk => svc.elapsed < ServiceBudget /\ (svc.changed <=> svc.issued # <<>>)

\* A successful restart has seen the service stopped and has then started it
\* itself, also when it began while somebody else was starting or stopping it.
RestartCycles ==
    (ServiceOk /\ svc.op = "RESTART") =>
        svc.stopped /\ "start" \in svc.asked /\ svc.state = "RUNNING"

\* Well formed; commands in order; success in time and with changed exact: the
\* comments on prepare() and on a late successful command; a restart restarts.
ServiceInv == ServiceTypeOK /\ CommandsInOrder /\ SuccessIsSound /\ RestartCycles
=============================================================================
