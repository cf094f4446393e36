----------------------------- MODULE MCServices -----------------------------
(***************************************************************************)
(* Five parts of flocks that do not share state, for TLC in one run: a     *)
(* behaviour is one of any of them, and the others stay as they start.     *)
(***************************************************************************)
EXTENDS PermissionRequests, BackgroundRuns, TaskScheduling, TaskWriteGate, WorkflowEngine

VARIABLE part

vars == <<permVars, bgVars, schedVars, writeVars, engineVars, part>>

(* A workflow of a fork, a join and a loop: s, then a and b, then j, which *)
(* may go back to a.                                                       *)
Diamond == [n \in {"s", "a", "b", "j"} |->
              IF n = "s" THEN <<"a", "b">> ELSE IF n = "j" THEN <<"a">> ELSE <<"j">>]

(* Types, and the joins' accounts of what they were sent.                  *)
Consistent == PermTypeOK /\ BgTypeOK /\ SchedTypeOK /\ GateTypeOK /\ EngineTypeOK /\ JoinsAreFed

Init ==
  /\ part \in {"permission", "background", "scheduling", "writes", "workflow"}
  /\ PermInit /\ BgInit /\ SchedInit /\ GateInit /\ EngineInit
  /\ (part /= "background") => mayAsk
  /\ (part /= "workflow") => isolated = {} /\ fatal = {}

OfAsking(A)     == part = "permission" /\ A /\ UNCHANGED <<bgVars, schedVars, writeVars, engineVars, part>>
OfBackground(A) == part = "background" /\ A /\ UNCHANGED <<permVars, schedVars, writeVars, engineVars, part>>
OfScheduling(A) == part = "scheduling" /\ A /\ UNCHANGED <<permVars, bgVars, writeVars, engineVars, part>>
OfWriting(A)    == part = "writes" /\ A /\ UNCHANGED <<permVars, bgVars, schedVars, engineVars, part>>
OfRunning(A)    == part = "workflow" /\ A /\ UNCHANGED <<permVars, bgVars, schedVars, writeVars, part>>

Next ==
  \/ OfAsking(PermNext) \/ OfBackground(BgNext) \/ OfScheduling(SchedNext) \/ OfWriting(GateNext)
  \/ OfRunning(EngineNext)

Spec == Init /\ [][Next]_vars

-----------------------------------------------------------------------------
(* Who asks polls every 0.25 s, and who answers goes on; nobody has to     *)
(* answer.                                                                 *)
AskingGoesOn ==
  /\ WF_permVars(part = "permission" /\ AskStep)
  /\ WF_permVars(part = "permission" /\ \E u \in Users : UserStep(u))

(* The event loop runs what can run; a session loop that was told to stop  *)
(* ends, as does one that neither waits nor hangs; what it waits for       *)
(* comes, from a person or the limiter; time passes for one that hangs.    *)
BackgroundGoesOn ==
  /\ WF_bgVars(part = "background" /\ (ExecutorChecks \/ ExecutorLearns \/ RunNext \/ QuestionRejected))
  /\ WF_bgVars(part = "background" /\ WatchdogLooks)
  /\ SF_bgVars(part = "background" /\ LoopEnds)
  /\ WF_bgVars(part = "background" /\ loop \in Waiting /\ LoopActs)
  /\ WF_bgVars(part = "background" /\ loop = "stuck" /\ GoesQuiet)

(* The loop goes on ticking; requests are handled, and executions end.     *)
SchedulingGoesOn ==
  /\ WF_schedVars(part = "scheduling" /\ TickNext)
  /\ WF_schedVars(part = "scheduling" /\ \E p \in People : Handles(p))
  /\ \A s \in Schedulers : WF_schedVars(part = "scheduling" /\ RunEnds(s))

(* The thread and the event loop run what can run, in whatever order.      *)
WritingGoesOn ==
  WF_writeVars(part = "writes" /\ (ThreadDoes \/ CloseLocks \/ CloseEnds \/ \E c \in Callers : GoesOn(c)))

(* The engine's thread goes on, its timers fire, a child told to end does; *)
(* nothing is assumed of the nodes.                                        *)
RunningGoesOn ==
  /\ WF_engineVars(part = "workflow" /\ EngineStep)
  /\ WF_engineVars(part = "workflow" /\ ChildDies)

FairSpec == Spec /\ AskingGoesOn /\ BackgroundGoesOn /\ SchedulingGoesOn /\ WritingGoesOn /\ RunningGoesOn
=============================================================================
