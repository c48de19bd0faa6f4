------------------------ MODULE ControlCalls_proofs ------------------------
(* Proofs about control calls, for every budget and any number of instances:  *)
(* ControlInv of ProcessControl and ServiceInv of ServiceControl.             *)
EXTENDS ProcessControl, ServiceControl, SequenceTheorems, TLAPS

-----------------------------------------------------------------------------
(* Process control.                                                           *)

StopPhases == {"request_stop", "stop_poll", "force_query", "terminate", "terminate_poll"}

StartPhases == {"start_poll", "start_timeout_query", "start_timeout_terminate",
                "start_timeout_cleanup_poll"}

\* An operation is only in the phases that it consists of; a stop escalates after
\* an accepted request, and terminates what force_query has found.
PhaseOfOperation ==
    /\ ctl.pc \in StopPhases => ctl.op \in {"STOP", "RESTART"}
    /\ ctl.pc \in {"force_query", "terminate", "terminate_poll"} => ctl.force
    /\ ctl.pc = "restart_query" => ctl.op = "RESTART"
    /\ ctl.pc = "start" \/ ctl.pc \in StartPhases => ctl.op \in {"START", "RESTART"}
    /\ ctl.pc \in {"stop_poll", "force_query"} => ctl.changed
    /\ ctl.pc \in {"query", "request_stop", "stop_poll", "force_query"} => ctl.forced = 0
    /\ ctl.pc = "terminate" => ctl.forced = ctl.snapshot

\* Instances that are alive or that the call has met have been created before,
\* and nothing has been started before start_poll.
InstancesKnown ==
    /\ \A i \in world.alive : i < world.next
    /\ ctl.first < world.next
    /\ ctl.started < world.next
    /\ ctl.pc \in StartPhases => ctl.started # 0
    /\ ctl.pc # "done" /\ ctl.pc \notin StartPhases => ctl.started = 0

\* An image once seen without instances has lost the one found at first.
FirstIsGone ==
    /\ ctl.pc \in {"stop_poll", "terminate_poll"} /\ ctl.observed /\ ctl.snapshot = 0 =>
          ctl.first \notin world.alive
    /\ ctl.op = "RESTART" /\ (ctl.pc \in {"restart_query", "start"} \/ ctl.pc \in StartPhases) =>
          ctl.first \notin world.alive
    /\ ctl.op = "RESTART" /\ ctl.pc = "start_poll" /\ ctl.first # 0 => ctl.snapshot # ctl.first

\* What start_timeout_terminate has terminated stays so.
StartedIsGone == ctl.pc = "start_timeout_cleanup_poll" => ctl.started \notin world.alive

ControlIInv == ControlInv /\ PhaseOfOperation /\ InstancesKnown /\ FirstIsGone /\ StartedIsGone

\* The clock of a call runs in a range that is never empty, and starts at 0.
LEMMA BudgetFact == LongestBudget \in Nat /\ 0 \in 0 .. LongestBudget
BY ControlAssumption DEF LongestBudget

\* What the functions of process_control.c return is well formed.
LEMMA ResultTypes ==
    ASSUME NEW c \in ControlRecord, c.pc # "done"
    PROVE  /\ \A e \in {"NONE", "BACKEND_FAILURE", "TIMEOUT"} : Return(c, e) \in ControlRecord
           /\ \A p \in ControlPhase : At(c, p) \in ControlRecord
           /\ {EnterStart(c), StopDone(c), EnterStop(c), PollTimeout(c), PollStopped(c),
               PollRound(c), StartRound(c)} \subseteq ControlRecord
<1>1. ASSUME NEW e \in {"NONE", "BACKEND_FAILURE", "TIMEOUT"} PROVE Return(c, e) \in ControlRecord
  BY DEF Return, ControlRecord
<1>2. ASSUME NEW p \in ControlPhase PROVE At(c, p) \in ControlRecord
  BY BudgetFact DEF At, ControlRecord
<1>3. EnterStart(c) \in ControlRecord /\ StopDone(c) \in ControlRecord
  BY <1>1, <1>2 DEF EnterStart, StopDone, ControlPhase
<1>4. EnterStop(c) \in ControlRecord
  BY <1>2, <1>3 DEF EnterStop, ControlPhase
<1>5. PollTimeout(c) \in ControlRecord
  BY <1>1, <1>2 DEF PollTimeout, ControlPhase
<1>6. PollStopped(c) \in ControlRecord
  <2>1. [Return(c, "TIMEOUT") EXCEPT !.phase = "start_poll"] \in ControlRecord
    BY <1>1 DEF ControlRecord, ControlPhase
  <2> QED
    BY <1>3, <2>1 DEF PollStopped
<1>7. \A b \in BOOLEAN : [c EXCEPT !.observed = b] \in ControlRecord
  BY DEF ControlRecord
<1>8. PollRound(c) \in ControlRecord
  BY <1>5, <1>6, <1>7 DEF PollRound
<1>9. StartRound(c) \in ControlRecord
  <2>1. [c EXCEPT !.pc = "start_timeout_query", !.observed = FALSE] \in ControlRecord
    BY DEF ControlRecord, ControlPhase
  <2> QED
    BY <1>1, <1>7, <2>1 DEF StartRound
<1> QED
  BY <1>1, <1>2, <1>3, <1>4, <1>5, <1>6, <1>8, <1>9

\* Every step keeps the records well formed.
LEMMA ControlTypes == ASSUME ControlTypeOK, ControlNext PROVE ControlTypeOK'
<1> USE DEF ControlTypeOK
<1>fields.
      /\ world.alive \subseteq 1 .. MaxInstance
      /\ world.killed \subseteq 1 .. MaxInstance
      /\ world.next \in 1 .. MaxInstance + 1
  BY DEF WorldRecord
<1>1. Visible \subseteq Instance
  BY <1>fields, ControlAssumption DEF Visible, Instance
<1>born. ASSUME world.next <= MaxInstance
      PROVE  [world EXCEPT !.alive = @ \cup {world.next}, !.next = @ + 1] \in WorldRecord
  <2>1. world.next \in 1 .. MaxInstance /\ world.next + 1 \in 1 .. MaxInstance + 1
    BY <1>fields, <1>born, ControlAssumption
  <2>2. world.alive \cup {world.next} \subseteq 1 .. MaxInstance
    BY <1>fields, <2>1
  <2> QED
    BY <2>1, <2>2 DEF WorldRecord
<1>2. \A i \in Instance : /\ [ctl EXCEPT !.snapshot = i] \in ControlRecord
                          /\ [ctl EXCEPT !.snapshot = i].pc = ctl.pc
  BY DEF ControlRecord
<1>3. CASE Query
  <2>1. \A i \in Instance : /\ [ctl EXCEPT !.snapshot = i, !.first = i] \in ControlRecord
                            /\ [ctl EXCEPT !.snapshot = i, !.first = i].pc = "query"
    BY <1>3 DEF Query, ControlRecord
  <2>2. ctl.op \in Operation
    BY DEF ControlRecord
  <2> QED
    BY <1>1, <1>3, <2>1, <2>2, ResultTypes DEF Query, Operation
<1>4. CASE RequestStop
  <2>1. /\ [ctl EXCEPT !.changed = TRUE] \in ControlRecord
        /\ [ctl EXCEPT !.changed = TRUE].pc # "done"
    BY <1>4 DEF RequestStop, ControlRecord
  <2> QED
    BY <1>4, <2>1, ResultTypes DEF RequestStop, ControlPhase
<1>5. CASE PollForStopped
  <2>1. PollRound(ctl) \in ControlRecord
    BY <1>5, ResultTypes DEF PollForStopped
  <2>2. \A i \in Instance : [PollRound(ctl) EXCEPT !.snapshot = i] \in ControlRecord
    BY <2>1 DEF ControlRecord
  <2> QED
    BY <1>1, <1>5, <2>1, <2>2 DEF PollForStopped
<1>6. CASE ForceQuery
  <2>1. \A i \in Instance : /\ [ctl EXCEPT !.snapshot = i, !.forced = i] \in ControlRecord
                            /\ [ctl EXCEPT !.snapshot = i, !.forced = i].pc # "done"
    BY <1>6 DEF ForceQuery, ControlRecord
  <2> QED
    BY <1>1, <1>6, <2>1, ResultTypes DEF ForceQuery, ControlPhase
<1>7. CASE TerminateInstance
  <2>1. ctl' \in ControlRecord
    BY <1>7, ResultTypes DEF TerminateInstance, ControlPhase
  <2>2. world' \in WorldRecord
    <3>1. ASSUME NEW t \in world.alive
          PROVE  [world EXCEPT !.alive = @ \ {t}, !.killed = @ \cup {t}] \in WorldRecord
      <4>1. world.alive \ {t} \subseteq 1 .. MaxInstance /\ world.killed \cup {t} \subseteq 1 .. MaxInstance
        BY <1>fields
      <4> QED
        BY <4>1 DEF WorldRecord
    <3> QED
      BY <1>7, <3>1 DEF TerminateInstance, StillRuns
  <2> QED
    BY <2>1, <2>2
<1>8. CASE RestartQuery
  BY <1>1, <1>2, <1>8, ResultTypes DEF RestartQuery
<1>9. CASE StartInstance
  <2>1. world.next \in Instance
    BY <1>9, ControlAssumption DEF StartInstance, WorldRecord, Instance
  <2>2. ctl' \in ControlRecord
    BY <1>9, <2>1 DEF StartInstance, ControlRecord, ControlPhase
  <2>3. world' \in WorldRecord
    BY <1>9, <1>born DEF StartInstance
  <2> QED
    BY <2>2, <2>3
<1>10. CASE StartPoll
  <2>1. \A i \in Instance : [ctl EXCEPT !.snapshot = i, !.observed = TRUE] \in ControlRecord
    BY DEF ControlRecord
  <2> QED
    BY <1>1, <1>10, <2>1, ResultTypes DEF StartPoll
<1>11. CASE StartTimeoutQuery
  <2>1. \A i \in Instance :
          [Return([ctl EXCEPT !.snapshot = i], "TIMEOUT") EXCEPT !.phase = "start_poll"] \in ControlRecord
    <3> TAKE i \in Instance
    <3>1. Return([ctl EXCEPT !.snapshot = i], "TIMEOUT") \in ControlRecord
      BY <1>2, <1>11, ResultTypes DEF StartTimeoutQuery
    <3> QED
      BY <3>1 DEF ControlRecord, ControlPhase
  <2> QED
    BY <1>1, <1>2, <1>11, <2>1, ResultTypes DEF StartTimeoutQuery, ControlPhase
<1>12. CASE BackendFails
  <2>1. Return(ctl, "BACKEND_FAILURE") \in ControlRecord
    BY <1>12, ResultTypes DEF BackendFails
  <2> QED
    BY <1>12, <2>1 DEF BackendFails, ControlRecord
<1>13. CASE InstanceEnds
  BY <1>13 DEF InstanceEnds, WorldRecord
<1>14. CASE SomebodyStarts
  BY <1>14, <1>born, ControlAssumption, <1>fields DEF SomebodyStarts
<1>15. CASE TimePasses
  BY <1>15, BudgetFact DEF TimePasses, ControlRecord
<1> QED
  BY <1>3, <1>4, <1>5, <1>6, <1>7, <1>8, <1>9, <1>10, <1>11, <1>12, <1>13, <1>14, <1>15
     DEF ControlNext, ControlStep


\* What process_control.c does in one step, and what happens around it, keeps
\* the inductive invariant.
LEMMA ControlStepKeeps == ASSUME ControlIInv, ControlNext PROVE ControlIInv'
<1> USE DEF ControlIInv, ControlInv, Succeeded, StopPhases, StartPhases
<1>types. ControlTypeOK'
  BY ControlTypes
<1>1. /\ ctl \in ControlRecord /\ world \in WorldRecord
      /\ ctl' \in ControlRecord /\ world' \in WorldRecord
  BY <1>types DEF ControlTypeOK
<1> USE DEF ControlRecord, WorldRecord, Operation, Instance, ControlPhase
<1>2. CASE Query
  <2>1. KillsAsAsked'
    BY <1>1, <1>2
       DEF Query, EnterStart, EnterStop, StopDone, Return, At, Visible, KillsAsAsked
  <2>2. RestartReplaces'
    BY <1>1, <1>2
       DEF Query, EnterStart, EnterStop, StopDone, Return, At, Visible, RestartReplaces
  <2>3. TimedOutStartCleansUp'
    BY <1>1, <1>2
       DEF Query, EnterStart, EnterStop, StopDone, Return, At, Visible, TimedOutStartCleansUp
  <2>4. PhaseOfOperation'
    BY <1>1, <1>2
       DEF Query, EnterStart, EnterStop, StopDone, Return, At, Visible, PhaseOfOperation
  <2>5. InstancesKnown'
    BY <1>1, <1>2
       DEF Query, EnterStart, EnterStop, StopDone, Return, At, Visible, InstancesKnown
  <2>6. FirstIsGone'
    BY <1>1, <1>2 DEF Query, EnterStart, EnterStop, StopDone, Return, At, Visible, FirstIsGone
  <2>7. StartedIsGone'
    BY <1>1, <1>2 DEF Query, EnterStart, EnterStop, StopDone, Return, At, Visible, StartedIsGone
  <2> QED
    BY <1>types, <2>1, <2>2, <2>3, <2>4, <2>5, <2>6, <2>7
<1>3. CASE RequestStop
  <2>1. KillsAsAsked' /\ RestartReplaces' /\ TimedOutStartCleansUp'
    BY <1>1, <1>3
       DEF RequestStop, Return, At, StillRuns, KillsAsAsked, RestartReplaces,
           TimedOutStartCleansUp
  <2>2. PhaseOfOperation'
    BY <1>1, <1>3 DEF RequestStop, Return, At, StillRuns, PhaseOfOperation
  <2>3. InstancesKnown'
    BY <1>1, <1>3 DEF RequestStop, Return, At, StillRuns, InstancesKnown
  <2>4. FirstIsGone'
    BY <1>1, <1>3 DEF RequestStop, Return, At, StillRuns, FirstIsGone
  <2>5. StartedIsGone'
    BY <1>1, <1>3 DEF RequestStop, Return, At, StillRuns, StartedIsGone
  <2> QED
    BY <1>types, <2>1, <2>2, <2>3, <2>4, <2>5
<1>4. CASE PollForStopped
  <2>outcome.
        \/ ctl' = PollTimeout(ctl)
        \/ ctl.observed /\ ctl.snapshot = 0 /\ ctl' = PollStopped(ctl)
        \/ ctl' = [ctl EXCEPT !.observed = FALSE]
        \/ \E i \in Visible : ctl' = [ctl EXCEPT !.observed = TRUE, !.snapshot = i]
    BY <1>1, <1>4
       DEF PollForStopped, PollRound, PollTimeout, PollStopped, StopDone, Expired, Return, At
  <2>here. ctl.pc \in {"stop_poll", "terminate_poll", "start_timeout_cleanup_poll"} /\ UNCHANGED world
    BY <1>4 DEF PollForStopped
  <2>1. CASE ctl' = PollTimeout(ctl)
    <3>1. KillsAsAsked'
      BY <1>1, <2>here, <2>1 DEF PollTimeout, Return, At, KillsAsAsked
    <3>2. RestartReplaces'
      BY <1>1, <2>here, <2>1 DEF PollTimeout, Return, At, RestartReplaces
    <3>3. TimedOutStartCleansUp'
      BY <1>1, <2>here, <2>1 DEF PollTimeout, Return, At, TimedOutStartCleansUp
    <3>4. PhaseOfOperation'
      BY <1>1, <2>here, <2>1 DEF PollTimeout, Return, At, PhaseOfOperation
    <3>5. InstancesKnown'
      BY <1>1, <2>here, <2>1 DEF PollTimeout, Return, At, InstancesKnown
    <3>6. FirstIsGone'
      BY <1>1, <2>here, <2>1 DEF PollTimeout, Return, At, FirstIsGone
    <3>7. StartedIsGone'
      BY <1>1, <2>here, <2>1 DEF PollTimeout, Return, At, StartedIsGone
    <3> QED
      BY <1>types, <3>1, <3>2, <3>3, <3>4, <3>5, <3>6, <3>7
  <2>2. CASE ctl.observed /\ ctl.snapshot = 0 /\ ctl' = PollStopped(ctl)
    <3>1. KillsAsAsked'
      BY <1>1, <2>here, <2>2 DEF PollStopped, StopDone, Return, At, KillsAsAsked
    <3>2. RestartReplaces'
      BY <1>1, <2>here, <2>2
         DEF PollStopped, StopDone, Return, At, RestartReplaces, PhaseOfOperation
    <3>3. TimedOutStartCleansUp'
      BY <1>1, <2>here, <2>2
         DEF PollStopped, StopDone, Return, At, TimedOutStartCleansUp, InstancesKnown,
             StartedIsGone
    <3>4. PhaseOfOperation'
      BY <1>1, <2>here, <2>2 DEF PollStopped, StopDone, Return, At, PhaseOfOperation
    <3>5. InstancesKnown'
      BY <1>1, <2>here, <2>2 DEF PollStopped, StopDone, Return, At, InstancesKnown
    <3>6. FirstIsGone'
      BY <1>1, <2>here, <2>2
         DEF PollStopped, StopDone, Return, At, FirstIsGone, PhaseOfOperation
    <3>7. StartedIsGone'
      BY <1>1, <2>here, <2>2 DEF PollStopped, StopDone, Return, At, StartedIsGone
    <3> QED
      BY <1>types, <3>1, <3>2, <3>3, <3>4, <3>5, <3>6, <3>7
  <2>3. CASE ctl' = [ctl EXCEPT !.observed = FALSE]
    <3>1. KillsAsAsked' /\ RestartReplaces' /\ TimedOutStartCleansUp'
      BY <1>1, <2>here, <2>3 DEF KillsAsAsked, RestartReplaces, TimedOutStartCleansUp
    <3>2. PhaseOfOperation'
      BY <1>1, <2>here, <2>3 DEF PhaseOfOperation
    <3>3. InstancesKnown'
      BY <1>1, <2>here, <2>3 DEF InstancesKnown
    <3>4. FirstIsGone'
      BY <1>1, <2>here, <2>3 DEF FirstIsGone
    <3>5. StartedIsGone'
      BY <1>1, <2>here, <2>3 DEF StartedIsGone
    <3> QED
      BY <1>types, <3>1, <3>2, <3>3, <3>4, <3>5
  <2>4. CASE \E i \in Visible : ctl' = [ctl EXCEPT !.observed = TRUE, !.snapshot = i]
    <3>1. KillsAsAsked' /\ RestartReplaces' /\ TimedOutStartCleansUp'
      BY <1>1, <2>here, <2>4
         DEF Visible, KillsAsAsked, RestartReplaces, TimedOutStartCleansUp
    <3>2. PhaseOfOperation'
      BY <1>1, <2>here, <2>4 DEF Visible, PhaseOfOperation
    <3>3. InstancesKnown'
      BY <1>1, <2>here, <2>4 DEF Visible, InstancesKnown
    <3>4. FirstIsGone'
      BY <1>1, <2>here, <2>4 DEF Visible, FirstIsGone, InstancesKnown
    <3>5. StartedIsGone'
      BY <1>1, <2>here, <2>4 DEF Visible, StartedIsGone
    <3> QED
      BY <1>types, <3>1, <3>2, <3>3, <3>4, <3>5
  <2> QED
    BY <2>outcome, <2>1, <2>2, <2>3, <2>4
<1>5. CASE ForceQuery
  <2>1. KillsAsAsked'
    BY <1>1, <1>5
       DEF ForceQuery, StopDone, Return, At, Visible, KillsAsAsked, PhaseOfOperation, InstancesKnown
  <2>2. RestartReplaces'
    BY <1>1, <1>5 DEF ForceQuery, StopDone, Return, At, Visible, RestartReplaces
  <2>3. TimedOutStartCleansUp'
    BY <1>1, <1>5 DEF ForceQuery, StopDone, Return, At, Visible, TimedOutStartCleansUp
  <2>4. PhaseOfOperation'
    BY <1>1, <1>5 DEF ForceQuery, StopDone, Return, At, Visible, PhaseOfOperation
  <2>5. InstancesKnown'
    BY <1>1, <1>5 DEF ForceQuery, StopDone, Return, At, Visible, InstancesKnown
  <2>6. FirstIsGone'
    BY <1>1, <1>5 DEF ForceQuery, StopDone, Return, At, Visible, FirstIsGone
  <2>7. StartedIsGone'
    BY <1>1, <1>5 DEF ForceQuery, StopDone, Return, At, Visible, StartedIsGone
  <2> QED
    BY <1>types, <2>1, <2>2, <2>3, <2>4, <2>5, <2>6, <2>7
<1>6. CASE TerminateInstance
  <2>1. CASE ctl.pc = "terminate" /\ StillRuns(ctl.snapshot)
    <3>effect.
          /\ world' = [world EXCEPT !.alive = @ \ {ctl.snapshot}, !.killed = @ \cup {ctl.snapshot}]
          /\ ctl' = At(ctl, "terminate_poll")
      BY <1>6, <2>1 DEF TerminateInstance, TerminateTarget
    <3>1. KillsAsAsked'
      BY <1>1, <2>1, <3>effect DEF At, StillRuns, KillsAsAsked, PhaseOfOperation
    <3>2. RestartReplaces' /\ TimedOutStartCleansUp'
      BY <1>1, <2>1, <3>effect DEF At, StillRuns, RestartReplaces, TimedOutStartCleansUp
    <3>3. PhaseOfOperation'
      BY <1>1, <2>1, <3>effect DEF At, StillRuns, PhaseOfOperation
    <3>4. InstancesKnown'
      BY <1>1, <2>1, <3>effect DEF At, StillRuns, InstancesKnown
    <3>5. FirstIsGone'
      BY <1>1, <2>1, <3>effect DEF At, StillRuns, FirstIsGone
    <3>6. StartedIsGone'
      BY <1>1, <2>1, <3>effect DEF At, StillRuns, StartedIsGone
    <3> QED
      BY <1>types, <3>1, <3>2, <3>3, <3>4, <3>5, <3>6
  <2>2. CASE ctl.pc = "start_timeout_terminate" /\ StillRuns(ctl.started)
    <3>effect.
          /\ world' = [world EXCEPT !.alive = @ \ {ctl.started}, !.killed = @ \cup {ctl.started}]
          /\ ctl' = At(ctl, "start_timeout_cleanup_poll")
      BY <1>6, <2>2 DEF TerminateInstance, TerminateTarget
    <3>1. KillsAsAsked'
      BY <1>1, <2>2, <3>effect DEF At, StillRuns, KillsAsAsked, PhaseOfOperation
    <3>2. RestartReplaces' /\ TimedOutStartCleansUp'
      BY <1>1, <2>2, <3>effect DEF At, StillRuns, RestartReplaces, TimedOutStartCleansUp
    <3>3. PhaseOfOperation'
      BY <1>1, <2>2, <3>effect DEF At, StillRuns, PhaseOfOperation
    <3>4. InstancesKnown'
      BY <1>1, <2>2, <3>effect DEF At, StillRuns, InstancesKnown
    <3>5. FirstIsGone'
      BY <1>1, <2>2, <3>effect DEF At, StillRuns, FirstIsGone
    <3>6. StartedIsGone'
      BY <1>1, <2>2, <3>effect DEF At, StillRuns, StartedIsGone
    <3> QED
      BY <1>types, <3>1, <3>2, <3>3, <3>4, <3>5, <3>6
  <2>3. CASE ctl' = Return(ctl, "BACKEND_FAILURE") /\ UNCHANGED world
    <3>1. KillsAsAsked' /\ RestartReplaces' /\ TimedOutStartCleansUp'
      BY <1>1, <1>6, <2>3
         DEF TerminateInstance, Return, KillsAsAsked, RestartReplaces,
             TimedOutStartCleansUp
    <3>2. PhaseOfOperation'
      BY <1>1, <1>6, <2>3 DEF TerminateInstance, Return, PhaseOfOperation
    <3>3. InstancesKnown'
      BY <1>1, <1>6, <2>3 DEF TerminateInstance, Return, InstancesKnown
    <3>4. FirstIsGone'
      BY <1>1, <1>6, <2>3 DEF TerminateInstance, Return, FirstIsGone
    <3>5. StartedIsGone'
      BY <1>1, <1>6, <2>3 DEF TerminateInstance, Return, StartedIsGone
    <3> QED
      BY <1>types, <3>1, <3>2, <3>3, <3>4, <3>5
  <2> QED
    BY <1>6, <2>1, <2>2, <2>3 DEF TerminateInstance, TerminateTarget
<1>7. CASE RestartQuery
  <2>1. KillsAsAsked'
    BY <1>1, <1>7 DEF RestartQuery, EnterStart, Return, At, Visible, KillsAsAsked
  <2>2. RestartReplaces'
    BY <1>1, <1>7
       DEF RestartQuery, EnterStart, Return, At, Visible, RestartReplaces, FirstIsGone
  <2>3. TimedOutStartCleansUp'
    BY <1>1, <1>7 DEF RestartQuery, EnterStart, Return, At, Visible, TimedOutStartCleansUp
  <2>4. PhaseOfOperation'
    BY <1>1, <1>7 DEF RestartQuery, EnterStart, Return, At, Visible, PhaseOfOperation
  <2>5. InstancesKnown'
    BY <1>1, <1>7 DEF RestartQuery, EnterStart, Return, At, Visible, InstancesKnown
  <2>6. FirstIsGone'
    BY <1>1, <1>7 DEF RestartQuery, EnterStart, Return, At, Visible, FirstIsGone
  <2>7. StartedIsGone'
    BY <1>1, <1>7 DEF RestartQuery, EnterStart, Return, At, Visible, StartedIsGone
  <2> QED
    BY <1>types, <2>1, <2>2, <2>3, <2>4, <2>5, <2>6, <2>7
<1>8. CASE StartInstance
  <2>1. KillsAsAsked'
    BY <1>1, <1>8, ControlAssumption
       DEF StartInstance, KillsAsAsked, InstancesKnown, PhaseOfOperation
  <2>2. RestartReplaces' /\ TimedOutStartCleansUp'
    BY <1>1, <1>8, ControlAssumption DEF StartInstance, RestartReplaces, TimedOutStartCleansUp
  <2>3. PhaseOfOperation'
    BY <1>1, <1>8, ControlAssumption DEF StartInstance, PhaseOfOperation
  <2>4. InstancesKnown'
    BY <1>1, <1>8, ControlAssumption DEF StartInstance, InstancesKnown
  <2>5. FirstIsGone'
    BY <1>1, <1>8, ControlAssumption DEF StartInstance, FirstIsGone, InstancesKnown
  <2>6. StartedIsGone'
    BY <1>1, <1>8, ControlAssumption DEF StartInstance, StartedIsGone
  <2> QED
    BY <1>types, <2>1, <2>2, <2>3, <2>4, <2>5, <2>6
<1>9. CASE StartPoll
  <2>outcome.
        \/ \E i \in Visible : ctl' = [ctl EXCEPT !.snapshot = i, !.observed = TRUE]
        \/ ctl' = [ctl EXCEPT !.pc = "start_timeout_query", !.observed = FALSE]
        \/ ctl.snapshot # 0 /\ ctl' = Return(ctl, "NONE")
        \/ ctl' = [ctl EXCEPT !.observed = FALSE]
    BY <1>9 DEF StartPoll, StartRound
  <2>here. ctl.pc = "start_poll" /\ UNCHANGED world
    BY <1>9 DEF StartPoll
  <2>1. CASE \E i \in Visible : ctl' = [ctl EXCEPT !.snapshot = i, !.observed = TRUE]
    <3>1. KillsAsAsked' /\ RestartReplaces' /\ TimedOutStartCleansUp'
      BY <1>1, <2>here, <2>1
         DEF Visible, KillsAsAsked, RestartReplaces, TimedOutStartCleansUp
    <3>2. PhaseOfOperation'
      BY <1>1, <2>here, <2>1 DEF Visible, PhaseOfOperation
    <3>3. InstancesKnown'
      BY <1>1, <2>here, <2>1 DEF Visible, InstancesKnown
    <3>4. FirstIsGone'
      BY <1>1, <2>here, <2>1 DEF Visible, FirstIsGone, InstancesKnown
    <3>5. StartedIsGone'
      BY <1>1, <2>here, <2>1 DEF Visible, StartedIsGone
    <3> QED
      BY <1>types, <3>1, <3>2, <3>3, <3>4, <3>5
  <2>2. CASE ctl' = [ctl EXCEPT !.pc = "start_timeout_query", !.observed = FALSE]
    <3>1. KillsAsAsked' /\ RestartReplaces' /\ TimedOutStartCleansUp'
      BY <1>1, <2>here, <2>2 DEF KillsAsAsked, RestartReplaces, TimedOutStartCleansUp
    <3>2. PhaseOfOperation'
      BY <1>1, <2>here, <2>2 DEF PhaseOfOperation
    <3>3. InstancesKnown'
      BY <1>1, <2>here, <2>2 DEF InstancesKnown
    <3>4. FirstIsGone'
      BY <1>1, <2>here, <2>2 DEF FirstIsGone
    <3>5. StartedIsGone'
      BY <1>1, <2>here, <2>2 DEF StartedIsGone
    <3> QED
      BY <1>types, <3>1, <3>2, <3>3, <3>4, <3>5
  <2>3. CASE ctl.snapshot # 0 /\ ctl' = Return(ctl, "NONE")
    <3>1. KillsAsAsked'
      BY <1>1, <2>here, <2>3 DEF Return, KillsAsAsked
    <3>2. RestartReplaces'
      BY <1>1, <2>here, <2>3 DEF Return, RestartReplaces, FirstIsGone
    <3>3. TimedOutStartCleansUp'
      BY <1>1, <2>here, <2>3 DEF Return, TimedOutStartCleansUp
    <3>4. PhaseOfOperation'
      BY <1>1, <2>here, <2>3 DEF Return, PhaseOfOperation
    <3>5. InstancesKnown'
      BY <1>1, <2>here, <2>3 DEF Return, InstancesKnown
    <3>6. FirstIsGone'
      BY <1>1, <2>here, <2>3 DEF Return, FirstIsGone
    <3>7. StartedIsGone'
      BY <1>1, <2>here, <2>3 DEF Return, StartedIsGone
    <3> QED
      BY <1>types, <3>1, <3>2, <3>3, <3>4, <3>5, <3>6, <3>7
  <2>4. CASE ctl' = [ctl EXCEPT !.observed = FALSE]
    <3>1. KillsAsAsked' /\ RestartReplaces' /\ TimedOutStartCleansUp'
      BY <1>1, <2>here, <2>4 DEF KillsAsAsked, RestartReplaces, TimedOutStartCleansUp
    <3>2. PhaseOfOperation'
      BY <1>1, <2>here, <2>4 DEF PhaseOfOperation
    <3>3. InstancesKnown'
      BY <1>1, <2>here, <2>4 DEF InstancesKnown
    <3>4. FirstIsGone'
      BY <1>1, <2>here, <2>4 DEF FirstIsGone
    <3>5. StartedIsGone'
      BY <1>1, <2>here, <2>4 DEF StartedIsGone
    <3> QED
      BY <1>types, <3>1, <3>2, <3>3, <3>4, <3>5
  <2> QED
    BY <2>outcome, <2>1, <2>2, <2>3, <2>4
<1>10. CASE StartTimeoutQuery
  <2>1. KillsAsAsked'
    BY <1>1, <1>10 DEF StartTimeoutQuery, Return, At, Visible, KillsAsAsked
  <2>2. RestartReplaces'
    BY <1>1, <1>10 DEF StartTimeoutQuery, Return, At, Visible, RestartReplaces
  <2>3. TimedOutStartCleansUp'
    BY <1>1, <1>10
       DEF StartTimeoutQuery, Return, At, Visible, TimedOutStartCleansUp, InstancesKnown
  <2>4. PhaseOfOperation'
    BY <1>1, <1>10 DEF StartTimeoutQuery, Return, At, Visible, PhaseOfOperation
  <2>5. InstancesKnown'
    BY <1>1, <1>10 DEF StartTimeoutQuery, Return, At, Visible, InstancesKnown
  <2>6. FirstIsGone'
    BY <1>1, <1>10 DEF StartTimeoutQuery, Return, At, Visible, FirstIsGone
  <2>7. StartedIsGone'
    BY <1>1, <1>10 DEF StartTimeoutQuery, Return, At, Visible, StartedIsGone
  <2> QED
    BY <1>types, <2>1, <2>2, <2>3, <2>4, <2>5, <2>6, <2>7
<1>11. CASE BackendFails
  <2>1. KillsAsAsked' /\ RestartReplaces' /\ TimedOutStartCleansUp'
    BY <1>1, <1>11
       DEF BackendFails, Return, KillsAsAsked, RestartReplaces, TimedOutStartCleansUp
  <2>2. PhaseOfOperation'
    BY <1>1, <1>11 DEF BackendFails, Return, PhaseOfOperation
  <2>3. InstancesKnown'
    BY <1>1, <1>11 DEF BackendFails, Return, InstancesKnown
  <2>4. FirstIsGone'
    BY <1>1, <1>11 DEF BackendFails, Return, FirstIsGone
  <2>5. StartedIsGone'
    BY <1>1, <1>11 DEF BackendFails, Return, StartedIsGone
  <2> QED
    BY <1>types, <2>1, <2>2, <2>3, <2>4, <2>5
<1>12. CASE InstanceEnds
  <2>1. KillsAsAsked' /\ RestartReplaces' /\ TimedOutStartCleansUp'
    BY <1>1, <1>12 DEF InstanceEnds, KillsAsAsked, RestartReplaces, TimedOutStartCleansUp
  <2>2. PhaseOfOperation'
    BY <1>1, <1>12 DEF InstanceEnds, PhaseOfOperation
  <2>3. InstancesKnown'
    BY <1>1, <1>12 DEF InstanceEnds, InstancesKnown
  <2>4. FirstIsGone'
    BY <1>1, <1>12 DEF InstanceEnds, FirstIsGone
  <2>5. StartedIsGone'
    BY <1>1, <1>12 DEF InstanceEnds, StartedIsGone
  <2> QED
    BY <1>types, <2>1, <2>2, <2>3, <2>4, <2>5
<1>13. CASE SomebodyStarts
  <2>1. KillsAsAsked'
    BY <1>1, <1>13 DEF SomebodyStarts, KillsAsAsked
  <2>2. RestartReplaces'
    BY <1>1, <1>13 DEF SomebodyStarts, RestartReplaces, InstancesKnown
  <2>3. TimedOutStartCleansUp'
    BY <1>1, <1>13 DEF SomebodyStarts, TimedOutStartCleansUp, InstancesKnown
  <2>4. PhaseOfOperation'
    BY <1>1, <1>13 DEF SomebodyStarts, PhaseOfOperation
  <2>5. InstancesKnown'
    BY <1>1, <1>13 DEF SomebodyStarts, InstancesKnown
  <2>6. FirstIsGone'
    BY <1>1, <1>13 DEF SomebodyStarts, FirstIsGone, InstancesKnown
  <2>7. StartedIsGone'
    BY <1>1, <1>13 DEF SomebodyStarts, StartedIsGone, InstancesKnown
  <2> QED
    BY <1>types, <2>1, <2>2, <2>3, <2>4, <2>5, <2>6, <2>7
<1>14. CASE TimePasses
  <2>1. KillsAsAsked' /\ RestartReplaces' /\ TimedOutStartCleansUp'
    BY <1>1, <1>14 DEF TimePasses, KillsAsAsked, RestartReplaces, TimedOutStartCleansUp
  <2>2. PhaseOfOperation'
    BY <1>1, <1>14 DEF TimePasses, PhaseOfOperation
  <2>3. InstancesKnown'
    BY <1>1, <1>14 DEF TimePasses, InstancesKnown
  <2>4. FirstIsGone'
    BY <1>1, <1>14 DEF TimePasses, FirstIsGone
  <2>5. StartedIsGone'
    BY <1>1, <1>14 DEF TimePasses, StartedIsGone
  <2> QED
    BY <1>types, <2>1, <2>2, <2>3, <2>4, <2>5
<1> QED
  BY <1>2, <1>3, <1>4, <1>5, <1>6, <1>7, <1>8, <1>9, <1>10, <1>11, <1>12, <1>13, <1>14
     DEF ControlNext, ControlStep

\* A call begins within the invariant.
LEMMA ControlStarts == ControlInit => ControlIInv
<1> SUFFICES ASSUME ControlInit PROVE ControlIInv
  OBVIOUS
<1>1. world.alive \subseteq {1} /\ world.next = 2 /\ world.killed = {}
  BY DEF ControlInit
<1>2. world \in WorldRecord
  BY ControlAssumption DEF ControlInit, WorldRecord
<1>3. ctl \in ControlRecord
  BY BudgetFact, ControlAssumption DEF ControlInit, ControlRecord, ControlPhase, Instance
<1>4. ctl.pc = "query" /\ ctl.first = 0 /\ ctl.started = 0 /\ ctl.forced = 0
  BY DEF ControlInit
<1> QED
  BY <1>1, <1>2, <1>3, <1>4
     DEF ControlIInv, ControlInv, ControlTypeOK, KillsAsAsked, RestartReplaces, Succeeded,
         TimedOutStartCleansUp, PhaseOfOperation, InstancesKnown, FirstIsGone, StartedIsGone,
         StopPhases, StartPhases

\* Whatever budgets a call of praktor_process_control_execute() has and however
\* many instances come and go between its looks: it terminates nothing but the
\* instance it started and the one that a forced stop or restart found once its
\* stop deadline had passed, a restart that succeeds has replaced the instance it
\* found, and a start that timed out leaves nothing of its own behind.
THEOREM ControlInvariant == ControlSpec => []ControlInv
<1>1. ControlIInv /\ UNCHANGED controlVars => ControlIInv'
  BY DEF ControlIInv, ControlInv, ControlTypeOK, KillsAsAsked, RestartReplaces, Succeeded,
         TimedOutStartCleansUp, PhaseOfOperation, InstancesKnown, FirstIsGone, StartedIsGone,
         controlVars
<1>2. ControlIInv /\ [ControlNext]_controlVars => ControlIInv'
  BY <1>1, ControlStepKeeps
<1>3. ControlIInv => ControlInv
  BY DEF ControlIInv
<1> QED
  BY ControlStarts, <1>2, <1>3, PTL DEF ControlSpec

-----------------------------------------------------------------------------
(* Service control.                                                           *)

\* A command that changes the service is about to be run, or is running.
Commanding == svc.pc \in {"run", "host"} /\ svc.command # "status"

\* An operation is only in the functions that it calls, and start() and stop()
\* run the command of their name.
StageOfOperation ==
    /\ svc.op = "STATUS" => svc.stage = "query"
    /\ svc.op = "START" => svc.stage \in {"query", "start"}
    /\ svc.op = "STOP" => svc.stage \in {"query", "stop"}
    /\ svc.pc = "prepare" => svc.stage = "query" /\ svc.command = "status"
    /\ svc.pc = "poll" => svc.stage # "query"
    /\ Commanding => svc.command = svc.stage

\* The commands that have been run when the call is in one of its functions: a
\* restart is in start() with its own start behind it, or before it.
IssuedInStage ==
    svc.pc # "done" =>
        /\ svc.stage \in {"query", "settle"} => svc.issued = <<>>
        /\ svc.stage = "stop" => svc.issued \in {<<>>, <<"stop">>}
        /\ svc.stage = "start" /\ svc.op = "START" => svc.issued \in {<<>>, <<"start">>}
        /\ svc.stage = "start" /\ svc.op = "RESTART" =>
              svc.issued \in IF svc.pc = "run" /\ Commanding THEN {<<>>, <<"stop">>}
                             ELSE {<<"start">>, <<"stop", "start">>}
        /\ svc.pc = "run" /\ Commanding /\ svc.op # "RESTART" => svc.issued = <<>>
        /\ svc.pc = "run" /\ Commanding /\ svc.stage = "stop" => svc.issued = <<>>
        /\ svc.pc = "host" /\ Commanding => svc.issued # <<>>

\* changed is behind only while a command runs, which then is the last one.
ChangedExact ==
    svc.pc # "done" =>
        (svc.changed <=> svc.issued \notin IF svc.pc = "host" /\ Commanding
                                           THEN {<<"start">>, <<"stop">>} ELSE {<<>>})

\* A restart in start() has seen the service stopped, and its start succeeded
\* unless it has yet to run.
RestartStarts ==
    svc.pc # "done" /\ svc.op = "RESTART" /\ svc.stage = "start" =>
        svc.stopped /\ (Commanding \/ "start" \in svc.asked)

ServiceIInv == ServiceInv /\ StageOfOperation /\ IssuedInStage /\ ChangedExact /\ RestartStarts

\* The sequences of commands that occur are different from each other, and one
\* grows into the other.
LEMMA CommandSequences ==
    /\ <<>> # <<"start">> /\ <<>> # <<"stop">> /\ <<>> # <<"stop", "start">>
    /\ <<"start">> # <<"stop">>
    /\ <<"stop", "start">> # <<"start">> /\ <<"stop", "start">> # <<"stop">>
    /\ Append(<<>>, "start") = <<"start">> /\ Append(<<>>, "stop") = <<"stop">>
    /\ Append(<<"stop">>, "start") = <<"stop", "start">>
<1>1. /\ Len(<<>>) = 0 /\ Len(<<"start">>) = 1 /\ Len(<<"stop">>) = 1 /\ Len(<<"stop", "start">>) = 2
      /\ <<"start">>[1] = "start" /\ <<"stop">>[1] = "stop"
  OBVIOUS
<1>2. Append(<<>>, "start") = <<"start">> /\ Append(<<>>, "stop") = <<"stop">>
  OBVIOUS
<1>3. Append(<<"stop">>, "start") = <<"stop", "start">>
  <2> DEFINE a == Append(<<"stop">>, "start")
             b == <<"stop", "start">>
  <2>1. a \in Seq({"start", "stop"}) /\ Len(a) = 2 /\ a[1] = "stop" /\ a[2] = "start"
    BY AppendProperties
  <2>2. b \in Seq({"start", "stop"}) /\ Len(b) = 2 /\ b[1] = "stop" /\ b[2] = "start"
    OBVIOUS
  <2>3. \A i \in 1 .. Len(a) : a[i] = b[i]
    BY <2>1, <2>2
  <2> QED
    BY <2>1, <2>2, <2>3, SeqEqual
<1>4. "start" # "stop"
  OBVIOUS
<1> QED
  BY <1>1, <1>2, <1>3, <1>4

\* What the callers of query() do with a state they know: they return, run the
\* one command that is left, or poll.
LEMMA ObservedOutcomes ==
    ASSUME NEW c \in ServiceRecord, c.state # "UNKNOWN",
           c.op = "STATUS" => c.stage = "query",
           c.op = "START" => c.stage \in {"query", "start"},
           c.op = "STOP" => c.stage \in {"query", "stop"}
    PROVE  \/ Observed(c) = ServiceReturn(c, "STATE_FAILED")
           \/ /\ Observed(c) = ServiceReturn(c, "NONE")
              /\ c.op = "RESTART" => c.stage = "start" /\ c.state = "RUNNING"
           \/ /\ Observed(c) = RunCommand([c EXCEPT !.stage = "start"], "start")
              /\ c.state = "STOPPED"
              /\ (c.op = "START" /\ c.stage = "query") \/ (c.op = "RESTART" /\ c.stage \in {"query", "stop"})
           \/ /\ Observed(c) = RunCommand([c EXCEPT !.stage = "stop"], "stop")
              /\ c.op \in {"STOP", "RESTART"} /\ c.stage \in {"query", "settle"}
           \/ \E stage \in {"settle", "stop", "start"} :
                 /\ Observed(c) = PollFor(c, stage)
                 /\ \/ stage = c.stage
                    \/ c.stage = "query" /\ <<c.op, stage>> \in {<<"START", "start">>, <<"STOP", "stop">>,
                                                 <<"RESTART", "stop">>, <<"RESTART", "settle">>}
<1> USE DEF ServiceRecord, ServiceState
<1>1. CASE c.stage = "query"
  <2>1. CASE c.op = "STATUS"
    BY <1>1, <2>1 DEF Observed, Dispatch
  <2>2. CASE c.op = "START"
    BY <1>1, <2>2 DEF Observed, Dispatch, ServiceStart
  <2>3. CASE c.op = "STOP"
    BY <1>1, <2>3 DEF Observed, Dispatch, ServiceStop, ServiceStopped
  <2>4. CASE c.op = "RESTART"
    BY <1>1, <2>4 DEF Observed, Dispatch, ServiceStop, ServiceStopped, ServiceStart
  <2> QED
    BY <2>1, <2>2, <2>3, <2>4
<1>2. CASE c.stage # "query" /\ c.state # PollTarget(c.stage)
  <2>1. Observed(c) = PollFor(c, c.stage)
    <3>1. CASE c.stage = "settle"
      BY <1>2, <3>1 DEF Observed, PollTarget
    <3>2. CASE c.stage = "stop"
      BY <1>2, <3>2 DEF Observed, PollTarget
    <3>3. CASE c.stage = "start"
      BY <1>2, <3>3 DEF Observed, PollTarget
    <3> QED
      BY <1>2, <3>1, <3>2, <3>3
  <2> QED
    BY <1>2, <2>1
<1>3. CASE c.stage = "settle" /\ c.state = "RUNNING"
  BY <1>3 DEF Observed, ServiceStop, PollTarget
<1>4. CASE c.stage = "stop" /\ c.state = "STOPPED"
  BY <1>4 DEF Observed, ServiceStopped, ServiceStart, PollTarget
<1>5. CASE c.stage = "start" /\ c.state = "RUNNING"
  BY <1>5 DEF Observed, PollTarget
<1> QED
  BY <1>1, <1>2, <1>3, <1>4, <1>5 DEF PollTarget

\* What becomes of an execution whose command exited with 0 and printed n.
LEMMA AnsweredOutcomes ==
    ASSUME NEW s \in ServiceRecord, NEW n \in Nat
    PROVE  \/ /\ s.command = "status"
              /\ \E e \in {"TIMEOUT", "STATE_FAILED"} : Answered(s, n) = ServiceReturn(s, e)
           \/ /\ s.command # "status"
              /\ \E e \in {"TIMEOUT", "STATE_FAILED"} :
                    Answered(s, n) = ServiceReturn([s EXCEPT !.changed = TRUE, !.asked = @ \cup {s.command}], e)
           \/ /\ s.command # "status"
              /\ Answered(s, n) = PollFor([s EXCEPT !.changed = TRUE, !.asked = @ \cup {s.command}], s.stage)
           \/ /\ s.command = "status" /\ ~ServiceExpired(s)
              /\ \E state \in ServiceState \ {"UNKNOWN"} :
                    Answered(s, n) = Observed([s EXCEPT !.state = state, !.stopped = @ \/ state = "STOPPED"])
<1> DEFINE c == [s EXCEPT !.changed = TRUE, !.asked = @ \cup {s.command}]
<1>1. CASE s.command = "status"
  <2>1. CASE ServiceExpired(s)
    BY <1>1, <2>1 DEF Answered
  <2>2. CASE ~ServiceExpired(s) /\ (n = 0 \/ ParseState(n) = "UNKNOWN")
    BY <1>1, <2>2 DEF Answered
  <2>3. CASE ~ServiceExpired(s) /\ n # 0 /\ ParseState(n) # "UNKNOWN"
    <3>1. ParseState(n) \in ServiceState \ {"UNKNOWN"}
      BY <2>3 DEF ParseState, ServiceState
    <3>2. Answered(s, n) = Observed([s EXCEPT !.state = ParseState(n), !.stopped = @ \/ ParseState(n) = "STOPPED"])
      BY <1>1, <2>3 DEF Answered
    <3> QED
      BY <1>1, <2>3, <3>1, <3>2
  <2> QED
    BY <2>1, <2>2, <2>3
<1>2. CASE s.command # "status"
  <2>1. c.command = s.command /\ c.stage = s.stage /\ c.elapsed = s.elapsed
    BY DEF ServiceRecord
  <2>2. CASE ServiceExpired(c)
    BY <1>2, <2>1, <2>2 DEF Answered
  <2>3. CASE ~ServiceExpired(c) /\ n = 0
    BY <1>2, <2>1, <2>3 DEF Answered
  <2>4. CASE ~ServiceExpired(c) /\ n # 0
    BY <1>2, <2>1, <2>4 DEF Answered
  <2> QED
    BY <2>2, <2>3, <2>4
<1> QED
  BY <1>1, <1>2

\* An execution that ends with an error promises no more than the order of its
\* commands.
LEMMA ErrorEnds ==
    ASSUME ServiceIInv, scm' \in {1, 2, 3, 4, 7},
           NEW c \in ServiceRecord, NEW e \in ServiceError \ {"NONE"},
           c.op = svc.op, c.stage = svc.stage, c.issued = svc.issued,
           svc' = ServiceReturn(c, e)
    PROVE  ServiceIInv'
<1> USE DEF ServiceIInv, ServiceInv
<1>1. svc \in ServiceRecord /\ svc' \in ServiceRecord
  BY DEF ServiceTypeOK, ServiceReturn, ServiceRecord
<1>2. /\ svc'.pc = "done" /\ svc'.error # "NONE"
      /\ svc'.op = svc.op /\ svc'.stage = svc.stage /\ svc'.issued = svc.issued
  BY DEF ServiceReturn, ServiceRecord
<1>3. ServiceTypeOK' /\ SuccessIsSound' /\ RestartCycles'
  BY <1>1, <1>2 DEF ServiceTypeOK, SuccessIsSound, RestartCycles, ServiceOk
<1>4. CommandsInOrder'
  BY <1>2 DEF CommandsInOrder
<1>5. StageOfOperation'
  BY <1>2 DEF StageOfOperation, Commanding
<1>6. IssuedInStage' /\ ChangedExact' /\ RestartStarts'
  BY <1>2 DEF IssuedInStage, ChangedExact, RestartStarts
<1> QED
  BY <1>3, <1>4, <1>5, <1>6

\* The service and other administrators change nothing of the execution.
LEMMA ServiceAround ==
    ASSUME ServiceIInv, scm' \in {1, 2, 3, 4, 7}, svc' = svc
    PROVE  ServiceIInv'
<1> USE DEF ServiceIInv, ServiceInv
<1>1. ServiceTypeOK' /\ SuccessIsSound' /\ RestartCycles'
  BY DEF ServiceTypeOK, SuccessIsSound, RestartCycles, ServiceOk
<1>2. CommandsInOrder'
  BY DEF CommandsInOrder
<1>3. StageOfOperation' /\ RestartStarts'
  BY DEF StageOfOperation, RestartStarts, Commanding
<1>4. IssuedInStage' /\ ChangedExact'
  BY DEF IssuedInStage, ChangedExact, Commanding
<1> QED
  BY <1>1, <1>2, <1>3, <1>4

\* What service_control.c does in one step, and what happens around it, keeps
\* the inductive invariant.
LEMMA ServiceStepKeeps == ASSUME ServiceIInv, ServiceNext PROVE ServiceIInv'
<1> USE DEF ServiceIInv, ServiceInv
<1>types. svc \in ServiceRecord /\ scm \in {1, 2, 3, 4, 7}
  BY DEF ServiceTypeOK
<1>effect. svc.pc = "host" => Effect \subseteq {1, 2, 3, 4, 7}
  BY <1>types DEF Effect, ServiceRecord, ServiceCommand
<1>1. CASE Prepare
  <2>1. CASE svc' = RunCommand(svc, "status")
    <3>1. ServiceTypeOK'
      BY <1>types, <1>1, <2>1
         DEF Prepare, RunCommand, ServiceTypeOK, ServiceRecord, ServiceCommand
    <3>2. CommandsInOrder'
      BY <1>types, <2>1 DEF RunCommand, CommandsInOrder, ServiceRecord
    <3>3. SuccessIsSound' /\ RestartCycles'
      BY <1>types, <2>1 DEF RunCommand, SuccessIsSound, RestartCycles, ServiceOk, ServiceRecord
    <3>4. StageOfOperation'
      BY <1>types, <1>1, <2>1
         DEF Prepare, RunCommand, StageOfOperation, Commanding, ServiceRecord
    <3>5. IssuedInStage' /\ ChangedExact' /\ RestartStarts'
      BY <1>types, <1>1, <2>1
         DEF Prepare, RunCommand, StageOfOperation, IssuedInStage, ChangedExact,
                                  RestartStarts, Commanding, ServiceRecord
    <3> QED
      BY <3>1, <3>2, <3>3, <3>4, <3>5
  <2>2. CASE svc' \in {ServiceReturn(svc, "INVALID"), ServiceReturn(svc, "STATE_FAILED")}
    BY <1>types, <1>1, <2>2, ErrorEnds DEF Prepare, ServiceError
  <2> QED
    BY <1>1, <2>1, <2>2 DEF Prepare
<1>2. CASE PollSleep
  <2>1. CASE svc' = RunCommand(svc, "status")
    <3>1. ServiceTypeOK'
      BY <1>types, <1>2, <2>1
         DEF PollSleep, RunCommand, ServiceTypeOK, ServiceRecord, ServiceCommand
    <3>2. CommandsInOrder'
      BY <1>types, <2>1 DEF RunCommand, CommandsInOrder, ServiceRecord
    <3>3. SuccessIsSound' /\ RestartCycles'
      BY <1>types, <2>1 DEF RunCommand, SuccessIsSound, RestartCycles, ServiceOk, ServiceRecord
    <3>4. StageOfOperation'
      BY <1>types, <1>2, <2>1
         DEF PollSleep, RunCommand, StageOfOperation, Commanding, ServiceRecord
    <3>5. IssuedInStage' /\ ChangedExact' /\ RestartStarts'
      BY <1>types, <1>2, <2>1 DEF PollSleep, RunCommand, IssuedInStage, ChangedExact,
                                  RestartStarts, Commanding, ServiceRecord
    <3> QED
      BY <3>1, <3>2, <3>3, <3>4, <3>5
  <2>2. CASE svc' = ServiceReturn(svc, "TIMEOUT")
    BY <1>types, <1>2, <2>2, ErrorEnds DEF PollSleep, ServiceError
  <2> QED
    BY <1>2, <2>1, <2>2 DEF PollSleep
<1>3. CASE RunBegins
  <2>1. CASE svc' = ServiceReturn(svc, "TIMEOUT")
    BY <1>types, <1>3, <2>1, ErrorEnds DEF RunBegins, ServiceError
  <2>2. CASE svc.command = "status" /\ svc' = [svc EXCEPT !.pc = "host"]
    <3>1. ServiceTypeOK'
      BY <1>types, <1>3, <2>2 DEF RunBegins, ServiceTypeOK, ServiceRecord
    <3>2. CommandsInOrder'
      BY <1>types, <2>2 DEF CommandsInOrder, ServiceRecord
    <3>3. SuccessIsSound' /\ RestartCycles'
      BY <1>types, <2>2 DEF SuccessIsSound, RestartCycles, ServiceOk, ServiceRecord
    <3>4. StageOfOperation'
      BY <1>types, <2>2 DEF StageOfOperation, Commanding, ServiceRecord
    <3>5. IssuedInStage' /\ ChangedExact' /\ RestartStarts'
      BY <1>types, <1>3, <2>2
         DEF RunBegins, IssuedInStage, ChangedExact, RestartStarts, Commanding, ServiceRecord
    <3> QED
      BY <3>1, <3>2, <3>3, <3>4, <3>5
  <2>3. CASE svc.command # "status" /\ svc' = [svc EXCEPT !.pc = "host", !.issued = Append(@, svc.command)]
    <3>1. /\ svc.pc = "run" /\ Commanding /\ svc.command = svc.stage
          /\ \/ svc.stage = "stop" /\ svc.op \in {"STOP", "RESTART"}
             \/ svc.stage = "start" /\ svc.op \in {"START", "RESTART"}
      BY <1>types, <1>3, <2>3
         DEF RunBegins, Commanding, StageOfOperation, ServiceRecord, ServiceCommand
    <3>2. /\ svc.stage = "stop" => svc.issued = <<>>
          /\ svc.stage = "start" => svc.issued = <<>> \/ (svc.op = "RESTART" /\ svc.issued = <<"stop">>)
      BY <3>1 DEF IssuedInStage
    <3>3. \/ svc.issued = <<>> /\ svc.stage = "stop" /\ svc'.issued = <<"stop">>
          \/ svc.issued = <<>> /\ svc.stage = "start" /\ svc'.issued = <<"start">>
          \/ /\ svc.issued = <<"stop">> /\ svc.stage = "start" /\ svc.op = "RESTART"
             /\ svc'.issued = <<"stop", "start">>
      BY <1>types, <2>3, <3>1, <3>2, CommandSequences DEF ServiceRecord
    <3>4. /\ svc'.pc = "host" /\ svc'.command = svc.command /\ svc'.stage = svc.stage /\ svc'.op = svc.op
          /\ svc'.changed = svc.changed /\ svc'.stopped = svc.stopped
      BY <1>types, <2>3 DEF ServiceRecord
    <3>5. ServiceTypeOK'
      <4>1. {<<"start">>, <<"stop">>, <<"stop", "start">>} \subseteq Seq({"start", "stop"})
        OBVIOUS
      <4>2. svc'.issued \in Seq({"start", "stop"})
        BY <3>3, <4>1
      <4> QED
        BY <1>types, <1>3, <2>3, <4>2 DEF RunBegins, ServiceTypeOK, ServiceRecord
    <3>6. CommandsInOrder'
      BY <3>1, <3>3, <3>4 DEF CommandsInOrder
    <3>7. SuccessIsSound' /\ RestartCycles'
      BY <3>4 DEF SuccessIsSound, RestartCycles, ServiceOk
    <3>8. StageOfOperation'
      BY <3>1, <3>4 DEF StageOfOperation, Commanding
    <3>9. IssuedInStage'
      BY <3>1, <3>3, <3>4, CommandSequences DEF IssuedInStage, Commanding
    <3>10. ChangedExact'
      BY <3>1, <3>3, <3>4, CommandSequences DEF ChangedExact, Commanding
    <3>11. RestartStarts'
      BY <3>1, <3>4 DEF RestartStarts, Commanding
    <3> QED
      BY <3>5, <3>6, <3>7, <3>8, <3>9, <3>10, <3>11
  <2> QED
    BY <1>types, <1>3, <2>1, <2>2, <2>3 DEF RunBegins, ServiceRecord
<1>4. CASE CommandSucceeds
  <2>1. PICK n \in Nat : svc' = Answered(svc, n)
    BY <1>4, <1>effect DEF CommandSucceeds
  <2>2. scm' \in {1, 2, 3, 4, 7} /\ svc.pc = "host"
    BY <1>4, <1>effect DEF CommandSucceeds
  <2> DEFINE c == [svc EXCEPT !.changed = TRUE, !.asked = @ \cup {svc.command}]
  <2>3. CASE \E e \in {"TIMEOUT", "STATE_FAILED"} : svc' = ServiceReturn(svc, e)
    BY <1>types, <2>2, <2>3, ErrorEnds DEF ServiceError
  <2>4. ASSUME svc.command # "status"
        PROVE  /\ c \in ServiceRecord
               /\ c.op = svc.op /\ c.stage = svc.stage /\ c.issued = svc.issued /\ c.stopped = svc.stopped
               /\ c.changed /\ svc.command \in c.asked /\ Commanding /\ svc.command = svc.stage
    BY <1>types, <2>2, <2>4 DEF ServiceRecord, ServiceCommand, Commanding, StageOfOperation
  <2>5. CASE svc.command # "status" /\ \E e \in {"TIMEOUT", "STATE_FAILED"} : svc' = ServiceReturn(c, e)
    BY <2>2, <2>4, <2>5, ErrorEnds DEF ServiceError
  <2>6. CASE svc.command # "status" /\ svc' = PollFor(c, svc.stage)
    <3>1. /\ svc'.pc = "poll" /\ svc'.op = svc.op /\ svc'.stage = svc.stage /\ svc'.issued = svc.issued
          /\ svc'.changed /\ svc'.stopped = svc.stopped /\ svc.stage \in svc'.asked
          /\ svc.stage \in {"stop", "start"} /\ Commanding
      BY <1>types, <2>4, <2>6 DEF PollFor, ServiceRecord, ServiceCommand
    <3>2. ServiceTypeOK'
      BY <2>2, <2>4, <2>6 DEF PollFor, ServiceTypeOK, ServiceRecord
    <3>3. CommandsInOrder'
      BY <3>1 DEF CommandsInOrder
    <3>4. SuccessIsSound' /\ RestartCycles'
      BY <3>1 DEF SuccessIsSound, RestartCycles, ServiceOk
    <3>5. StageOfOperation'
      BY <3>1 DEF StageOfOperation, Commanding
    <3>6. IssuedInStage'
      BY <2>2, <3>1 DEF IssuedInStage, Commanding
    <3>7. ChangedExact'
      BY <2>2, <3>1 DEF IssuedInStage, ChangedExact, Commanding
    <3>8. RestartStarts'
      BY <2>2, <3>1 DEF RestartStarts, Commanding
    <3> QED
      BY <3>2, <3>3, <3>4, <3>5, <3>6, <3>7, <3>8
  <2>7. ASSUME svc.command = "status", ~ServiceExpired(svc), NEW state \in ServiceState \ {"UNKNOWN"},
               svc' = Observed([svc EXCEPT !.state = state, !.stopped = @ \/ state = "STOPPED"])
        PROVE  ServiceIInv'
    <3> DEFINE s == [svc EXCEPT !.state = state, !.stopped = @ \/ state = "STOPPED"]
    <3>1. s \in ServiceRecord
      BY <1>types DEF ServiceRecord
    <3>2. /\ s.op = svc.op /\ s.stage = svc.stage /\ s.issued = svc.issued /\ s.changed = svc.changed
          /\ s.asked = svc.asked /\ s.state = state /\ s.elapsed = svc.elapsed /\ s.command = "status"
          /\ s.stopped = (svc.stopped \/ state = "STOPPED")
      BY <1>types, <2>7 DEF ServiceRecord
    <3>3. svc.elapsed < ServiceBudget /\ ~Commanding
      BY <1>types, <2>7, ServiceAssumption DEF ServiceExpired, ServiceRecord, Commanding
    <3>4. svc.changed <=> svc.issued # <<>>
      BY <2>2, <3>3 DEF ChangedExact
    <3> HIDE DEF s
    <3>5. CASE svc' = ServiceReturn(s, "STATE_FAILED")
      BY <2>2, <3>1, <3>2, <3>5, ErrorEnds DEF ServiceError
    <3>6. CASE /\ svc' = ServiceReturn(s, "NONE")
               /\ s.op = "RESTART" => s.stage = "start" /\ s.state = "RUNNING"
      <4>1. /\ svc'.pc = "done" /\ svc'.op = svc.op /\ svc'.stage = svc.stage /\ svc'.issued = svc.issued
            /\ svc'.changed = svc.changed /\ svc'.elapsed = svc.elapsed /\ svc'.state = s.state
            /\ svc'.asked = svc.asked /\ svc'.stopped = s.stopped
        BY <3>1, <3>2, <3>6 DEF ServiceReturn, ServiceRecord
      <4>2. ServiceTypeOK'
        BY <2>2, <3>1, <3>6, ZenonT(40) DEF ServiceReturn, ServiceTypeOK, ServiceRecord, ServiceError
      <4>3. CommandsInOrder'
        BY <4>1 DEF CommandsInOrder
      <4>4. SuccessIsSound'
        BY <3>3, <3>4, <4>1 DEF SuccessIsSound
      <4>5. RestartCycles'
        BY <2>2, <3>2, <3>3, <3>6, <4>1 DEF RestartCycles, RestartStarts
      <4>6. StageOfOperation'
        BY <4>1 DEF StageOfOperation, Commanding
      <4>7. IssuedInStage' /\ ChangedExact' /\ RestartStarts'
        BY <4>1 DEF IssuedInStage, ChangedExact, RestartStarts
      <4> QED
        BY <4>2, <4>3, <4>4, <4>5, <4>6, <4>7
    <3>7. CASE /\ svc' = RunCommand([s EXCEPT !.stage = "start"], "start")
               /\ s.state = "STOPPED"
               /\ (s.op = "START" /\ s.stage = "query") \/ (s.op = "RESTART" /\ s.stage \in {"query", "stop"})
      <4>1. /\ svc'.pc = "run" /\ svc'.command = "start" /\ svc'.stage = "start" /\ svc'.op = svc.op
            /\ svc'.issued = svc.issued /\ svc'.changed = svc.changed /\ svc'.stopped
        BY <3>1, <3>2, <3>7 DEF RunCommand, ServiceRecord
      <4>2. svc.issued = <<>> \/ (svc.op = "RESTART" /\ svc.issued = <<"stop">>)
        BY <2>2, <3>2, <3>7 DEF IssuedInStage
      <4>3. ServiceTypeOK'
        BY <2>2, <3>1, <3>7 DEF RunCommand, ServiceTypeOK, ServiceRecord, ServiceCommand
      <4>4. CommandsInOrder'
        BY <4>1 DEF CommandsInOrder
      <4>5. SuccessIsSound' /\ RestartCycles'
        BY <4>1 DEF SuccessIsSound, RestartCycles, ServiceOk
      <4>6. StageOfOperation'
        BY <3>2, <3>7, <4>1 DEF StageOfOperation, Commanding
      <4>7. IssuedInStage'
        BY <3>2, <3>7, <4>1, <4>2, ZenonT(40) DEF IssuedInStage, Commanding
      <4>8. ChangedExact' /\ RestartStarts'
        BY <3>4, <4>1 DEF ChangedExact, RestartStarts, Commanding
      <4> QED
        BY <4>3, <4>4, <4>5, <4>6, <4>7, <4>8
    <3>8. CASE /\ svc' = RunCommand([s EXCEPT !.stage = "stop"], "stop")
               /\ s.op \in {"STOP", "RESTART"} /\ s.stage \in {"query", "settle"}
      <4>1. /\ svc'.pc = "run" /\ svc'.command = "stop" /\ svc'.stage = "stop" /\ svc'.op = svc.op
            /\ svc'.issued = svc.issued /\ svc'.changed = svc.changed
        BY <3>1, <3>2, <3>8 DEF RunCommand, ServiceRecord
      <4>2. svc.issued = <<>>
        BY <2>2, <3>2, <3>8 DEF IssuedInStage
      <4>3. ServiceTypeOK'
        BY <2>2, <3>1, <3>8 DEF RunCommand, ServiceTypeOK, ServiceRecord, ServiceCommand
      <4>4. CommandsInOrder'
        BY <4>1 DEF CommandsInOrder
      <4>5. SuccessIsSound' /\ RestartCycles'
        BY <4>1 DEF SuccessIsSound, RestartCycles, ServiceOk
      <4>6. StageOfOperation'
        BY <3>2, <3>8, <4>1 DEF StageOfOperation, Commanding
      <4>7. IssuedInStage'
        BY <4>1, <4>2 DEF IssuedInStage, Commanding
      <4>8. ChangedExact' /\ RestartStarts'
        BY <3>4, <4>1 DEF ChangedExact, RestartStarts, Commanding
      <4> QED
        BY <4>3, <4>4, <4>5, <4>6, <4>7, <4>8
    <3>9. ASSUME NEW stage \in {"settle", "stop", "start"}, svc' = PollFor(s, stage),
                 \/ stage = s.stage
                 \/ s.stage = "query" /\ <<s.op, stage>> \in {<<"START", "start">>, <<"STOP", "stop">>,
                                              <<"RESTART", "stop">>, <<"RESTART", "settle">>}
          PROVE  ServiceIInv'
      <4>1. /\ svc'.pc = "poll" /\ svc'.stage = stage /\ svc'.op = svc.op /\ svc'.asked = svc.asked
            /\ svc'.issued = svc.issued /\ svc'.changed = svc.changed /\ svc'.stopped = s.stopped
        BY <3>1, <3>2, <3>9 DEF PollFor, ServiceRecord
      <4>2. \/ stage = svc.stage
            \/ svc.stage = "query" /\ svc.op = "START" /\ stage = "start"
            \/ svc.stage = "query" /\ svc.op = "STOP" /\ stage = "stop"
            \/ svc.stage = "query" /\ svc.op = "RESTART" /\ stage \in {"stop", "settle"}
        BY <3>2, <3>9
      <4>3. ServiceTypeOK'
        BY <2>2, <3>1, <3>9 DEF PollFor, ServiceTypeOK, ServiceRecord
      <4>4. CommandsInOrder'
        BY <4>1 DEF CommandsInOrder
      <4>5. SuccessIsSound' /\ RestartCycles'
        BY <4>1 DEF SuccessIsSound, RestartCycles, ServiceOk
      <4>6. StageOfOperation'
        BY <4>1, <4>2 DEF StageOfOperation, Commanding
      <4>7. IssuedInStage'
        BY <2>2, <3>3, <4>1, <4>2 DEF IssuedInStage, Commanding
      <4>8. ChangedExact'
        BY <3>4, <4>1 DEF ChangedExact, Commanding
      <4>9. RestartStarts'
        BY <2>2, <3>2, <3>3, <4>1, <4>2 DEF RestartStarts, Commanding
      <4> QED
        BY <4>3, <4>4, <4>5, <4>6, <4>7, <4>8, <4>9
    <3>10. /\ s.op = "STATUS" => s.stage = "query"
           /\ s.op = "START" => s.stage \in {"query", "start"}
           /\ s.op = "STOP" => s.stage \in {"query", "stop"}
           /\ s.state # "UNKNOWN"
      BY <2>7, <3>2 DEF StageOfOperation
    <3>11. svc' = Observed(s)
      BY <2>7 DEF s
    <3> QED
      BY <3>1, <3>10, <3>11, <3>5, <3>6, <3>7, <3>8, <3>9, ObservedOutcomes
  <2> QED
    BY <1>types, <2>1, <2>3, <2>5, <2>6, <2>7, AnsweredOutcomes
<1>5. CASE CommandFails
  BY <1>types, <1>effect, <1>5, ErrorEnds DEF CommandFails, ServiceError
<1>6. CASE ServiceMoves
  BY <1>types, <1>6, ServiceAround DEF ServiceMoves, Moves
<1>7. CASE ServiceTime
  <2>1. /\ svc' = [svc EXCEPT !.elapsed = svc.elapsed + 1] /\ svc.pc # "done" /\ scm' = scm
        /\ svc.elapsed + 1 \in 0 .. ServiceBudget
    BY <1>types, <1>7, ServiceAssumption DEF ServiceTime, ServiceRecord
  <2>2. /\ svc'.pc = svc.pc /\ svc'.command = svc.command /\ svc'.stage = svc.stage /\ svc'.op = svc.op
        /\ svc'.issued = svc.issued /\ svc'.changed = svc.changed /\ svc'.stopped = svc.stopped
        /\ svc'.asked = svc.asked
    BY <1>types, <2>1 DEF ServiceRecord
  <2>3. ServiceTypeOK'
    BY <1>types, <2>1 DEF ServiceTypeOK, ServiceRecord
  <2>4. CommandsInOrder'
    BY <2>2 DEF CommandsInOrder
  <2>5. SuccessIsSound' /\ RestartCycles'
    BY <2>1, <2>2 DEF SuccessIsSound, RestartCycles, ServiceOk
  <2>6. StageOfOperation' /\ RestartStarts'
    BY <2>2 DEF StageOfOperation, RestartStarts, Commanding
  <2>7. IssuedInStage' /\ ChangedExact'
    BY <2>2 DEF IssuedInStage, ChangedExact, Commanding
  <2> QED
    BY <2>3, <2>4, <2>5, <2>6, <2>7
<1> QED
  BY <1>1, <1>2, <1>3, <1>4, <1>5, <1>6, <1>7 DEF ServiceNext, ServiceStep

\* However the service and other administrators move while a call of
\* praktor_service_control_execute() runs, and whatever its deadline: it runs no
\* command twice or out of order, success is reported in time and with changed
\* exact, and a restart that succeeds has stopped the service and started it.
THEOREM ServiceInvariant == ServiceSpec => []ServiceInv
<1>1. ServiceInit => ServiceIInv
  <2> SUFFICES ASSUME ServiceInit PROVE ServiceIInv
    OBVIOUS
  <2>1. ServiceTypeOK
    BY ServiceAssumption
       DEF ServiceInit, ServiceTypeOK, ServiceRecord, ServiceCommand, ServiceState, ServiceError
  <2>2. /\ svc.pc = "prepare" /\ svc.stage = "query" /\ svc.command = "status" /\ svc.issued = <<>>
        /\ ~svc.changed /\ svc.op \in {"STATUS", "START", "STOP", "RESTART"}
    BY DEF ServiceInit
  <2> QED
    BY <2>1, <2>2
       DEF ServiceIInv, ServiceInv, CommandsInOrder, SuccessIsSound, RestartCycles, ServiceOk,
                      StageOfOperation, IssuedInStage, ChangedExact, RestartStarts, Commanding
<1>2. ServiceIInv /\ UNCHANGED serviceVars => ServiceIInv'
  BY ServiceAround DEF serviceVars, ServiceIInv, ServiceInv, ServiceTypeOK
<1>3. ServiceIInv /\ [ServiceNext]_serviceVars => ServiceIInv'
  BY <1>2, ServiceStepKeeps
<1>4. ServiceIInv => ServiceInv
  BY DEF ServiceIInv
<1> QED
  BY <1>1, <1>3, <1>4, PTL DEF ServiceSpec
=============================================================================
