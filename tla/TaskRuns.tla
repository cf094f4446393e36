------------------------------ MODULE TaskRuns ------------------------------
(***************************************************************************)
(* A dispatched run of an execution: TaskManager._run_execution with       *)
(* TaskExecutor.dispatch inside it, and the business work it starts (an    *)
(* agent session in the background manager, or a workflow in a worker      *)
(* thread).  A run is numbered by its claim; the number stands for the     *)
(* started_at that claim wrote, and for the session the run creates.       *)
(*                                                                         *)
(* A step ends where the coroutine awaits the store or the work.           *)
(***************************************************************************)
EXTENDS TaskQueue

CONSTANTS Workflow,    \* the executions in workflow mode; the others are agent
          MaxClaims    \* bound: claims of one behaviour

ASSUME ExecsAssumption     == Execs # {}
ASSUME WorkflowAssumption  == Workflow \subseteq Execs
ASSUME MaxClaimsAssumption == MaxClaims \in Nat

VARIABLES run,         \* the runs, by number
          claims,      \* how many claims there were
          wfEvent,     \* _workflow_cancel_events: the run whose event is registered
          wfStarted,   \* _workflow_started
          sched        \* whether the scheduler row of the executions exists

runVars == <<run, claims, wfEvent, wfStarted, sched>>

Runs == 1..MaxClaims

(* Where the coroutine of a run is.  The first three lines are inside      *)
(* dispatch; "fail*" are _mark_execution_failed; "int*" is the             *)
(* CancelledError branch; "release", "finishref" the finally block;        *)
(* "judge" to "later" _handle_failure; "pending" a result kept in          *)
(* _pending_completions.                                                   *)
PC == {"unused", "scheduler", "start", "register", "check", "open", "work",
       "save", "reread", "guard", "fail", "failwrite", "failreread", "intread",
       "intjudge", "intrequeue", "release", "finishref", "judge", "hold", "later",
       "pending", "over"}
InDispatch == {"start", "register", "check", "open", "work", "save"}

(* How _run_execution leaves: on to failure handling, with the exception   *)
(* raised again, or raised again after queueing the execution once more.   *)
Exit == {"settle", "raise", "requeued"}

(* exec: the execution; obj: the TaskExecution object; sess: the session   *)
(* the work runs in; work: not registered, registered and held back,       *)
(* running, ended; stop: told to stop; eff: started a call (or workflow)   *)
(* whose effect is not confirmed.                                          *)
RunType == [exec: Execs, pc: PC, exit: Exit, obj: RowType, sess: Nat,
            work: {"none", "held", "going", "ended"}, stop: BOOLEAN, eff: BOOLEAN]

AnExec == CHOOSE e \in Execs : TRUE

NewRun(e, o, pc) == [exec |-> e, pc |-> pc, exit |-> "settle", obj |-> o,
                     sess |-> 0, work |-> "none", stop |-> FALSE, eff |-> FALSE]

RunsTypeOK ==
  /\ run \in [Runs -> RunType] /\ claims \in 0..MaxClaims
  /\ wfEvent \in [Execs -> {0} \cup Runs]
  /\ wfStarted \in [Execs -> {"none", "no", "yes"}]
  /\ sched \in BOOLEAN

RunsInit ==
  /\ run = [r \in Runs |-> NewRun(AnExec, NoRow("new"), "unused")]
  /\ claims = 0
  /\ wfEvent = [e \in Execs |-> 0]
  /\ wfStarted = [e \in Execs |-> "none"]
  /\ sched = TRUE

IsWorkflow(r) == run[r].exec \in Workflow
Live(r) == run[r].pc \notin {"unused", "over"}

-----------------------------------------------------------------------------
(* The work as TaskExecutor leaves it once it has ended: a workflow takes  *)
(* its cancel event with it (_release_workflow_run).                       *)
Released(r) == IF wfEvent[run[r].exec] = r
               THEN [wfEvent EXCEPT ![run[r].exec] = 0] ELSE wfEvent

Forgotten(e) == [wfStarted EXCEPT ![e] = "none"]

(* The runs that request_runtime_cancel and                                *)
(* cancel_background_runs_for_session reach for execution e and session s. *)
Reached(e, s) ==
  IF e \in Workflow
  THEN {r \in Runs : r = wfEvent[e]}
  ELSE {r \in Runs : s # 0 /\ run[r].sess = s /\ run[r].work \in {"held", "going"}}

Signalled(S) == [r \in Runs |-> IF r \in S THEN [run[r] EXCEPT !.stop = TRUE] ELSE run[r]]

(* run_outcome: whether the run of object o may simply run again.  Whether *)
(* a workflow started is kept per execution; an agent run is judged by the *)
(* calls of its session.                                                   *)
SafeToRetryVariant(e, o) ==
  o.sess = 0 \/ ~\E r \in Runs : run[r].exec = e /\ run[r].sess = o.sess /\ run[r].eff

SafeToRetry(e, o) ==
  IF e \in Workflow
  THEN wfStarted[e] = "no" \/ (wfStarted[e] = "none" /\ o.started = 0)
  ELSE o.sess = 0 \/ ~\E r \in Runs : run[r].exec = e /\ run[r].sess = o.sess /\ run[r].eff

(* A session that cannot be read makes the outcome unsafe.                 *)
Outcomes(e, o) == {SafeToRetry(e, o)} \cup (IF e \notin Workflow /\ o.sess # 0 THEN {FALSE} ELSE {})

Held(o) == [o EXCEPT !.due = FALSE, !.held = TRUE]   \* hold_for_verification

-----------------------------------------------------------------------------
(* The run starts: its scheduler is read, and dispatch takes or creates    *)
(* the session.  Without a scheduler the run only fails its row.           *)
ReadScheduler(r) ==
  LET e == run[r].exec
      o == run[r].obj
  IN /\ run[r].pc = "scheduler"
     /\ IF sched
        THEN /\ run' = [run EXCEPT ![r].pc = "start",
                 ![r].obj = [o EXCEPT !.sess = IF e \in Workflow THEN 0 ELSE IF @ = 0 THEN r ELSE @]]
             /\ wfStarted' = IF e \in Workflow THEN [wfStarted EXCEPT ![e] = "no"] ELSE wfStarted
             /\ UNCHANGED storeVars
        ELSE /\ run' = [run EXCEPT ![r].pc = "over", ![r].obj = [o EXCEPT !.status = "failed"]]
             /\ IF Present(e) THEN WriteRow(e, [o EXCEPT !.status = "failed"]) ELSE UNCHANGED storeVars
             /\ UNCHANGED wfStarted
     /\ UNCHANGED <<queueVars, claims, wfEvent, sched>>

(* Creating the session, or recording it, raises.                          *)
DispatchFails(r) ==
  /\ run[r].pc = "start"
  /\ run' = [run EXCEPT ![r].pc = "fail"]
  /\ UNCHANGED <<storeVars, queueVars, claims, wfEvent, wfStarted, sched>>

StartSession(r) ==
  LET e == run[r].exec IN
  /\ run[r].pc = "start"
  /\ IF IsActive(e)
     THEN StartRow(e, run[r].obj.sess, run[r].obj.started)
          /\ run' = [run EXCEPT ![r].pc = "register"]
     ELSE run' = [run EXCEPT ![r].pc = "reread"] /\ UNCHANGED storeVars
  /\ UNCHANGED <<queueVars, claims, wfEvent, wfStarted, sched>>

(* The work is registered, held back, before the record is read.           *)
Register(r) ==
  LET e == run[r].exec IN
  /\ run[r].pc = "register"
  /\ run' = [run EXCEPT ![r].pc = "check", ![r].work = "held", ![r].sess = run[r].obj.sess]
  /\ wfEvent' = IF e \in Workflow THEN [wfEvent EXCEPT ![e] = r] ELSE wfEvent
  /\ UNCHANGED <<storeVars, queueVars, claims, wfStarted, sched>>

(* The work ended with a result that is to be saved; a completed workflow  *)
(* is forgotten.                                                           *)
EndWork(r, status) ==
  /\ run' = [run EXCEPT ![r].pc = "save", ![r].work = "ended",
                    ![r].obj = [run[r].obj EXCEPT !.status = status]]
  /\ wfEvent' = Released(r)
  /\ wfStarted' = IF status = "completed" THEN Forgotten(run[r].exec) ELSE wfStarted
  /\ UNCHANGED <<storeVars, queueVars, claims, sched>>

(* Told to stop, an agent run ends with a CancelledError in its waiter.    *)
Interrupted(r) ==
  /\ run' = [run EXCEPT ![r].pc = "intread", ![r].exit = "raise", ![r].work = "ended"]
  /\ wfEvent' = Released(r)
  /\ UNCHANGED <<storeVars, queueVars, claims, wfStarted, sched>>

(* _still_running says yes, says no, or cannot be read.                    *)
CheckVariant(r) ==
  /\ run[r].pc = "check"
  /\ run' = [run EXCEPT ![r].pc = "open"]
  /\ UNCHANGED <<storeVars, queueVars, claims, wfEvent, wfStarted, sched>>

Check(r) ==
  /\ run[r].pc = "check"
  /\ \/ /\ row[run[r].exec].status = "running"
        /\ run' = [run EXCEPT ![r].pc = "open"]
        /\ UNCHANGED <<storeVars, queueVars, claims, wfEvent, wfStarted, sched>>
     \/ row[run[r].exec].status # "running" /\ EndWork(r, "cancelled")
     \/ EndWork(r, "failed")

(* The gate opens, or the workflow is handed to a thread.                  *)
Open(r) ==
  LET e == run[r].exec IN
  /\ run[r].pc = "open"
  /\ \/ /\ ~run[r].stop
        /\ run' = [run EXCEPT ![r].pc = "work", ![r].work = "going"]
        /\ wfStarted' = IF e \in Workflow THEN [wfStarted EXCEPT ![e] = "yes"] ELSE wfStarted
        /\ UNCHANGED <<storeVars, queueVars, claims, wfEvent, sched>>
     \/ run[r].stop /\ IsWorkflow(r) /\ EndWork(r, "cancelled")
     \/ run[r].stop /\ ~IsWorkflow(r) /\ Interrupted(r)

-----------------------------------------------------------------------------
(* The work itself: a session loop or a workflow engine, of which only     *)
(* this is kept: it may start something whose effect nobody confirms, an   *)
(* agent run only until it is told to stop.                                *)
StartEffect(r) ==
  /\ run[r].work = "going" /\ ~run[r].eff
  /\ run[r].stop => IsWorkflow(r)
  /\ run' = [run EXCEPT ![r].eff = TRUE]
  /\ UNCHANGED <<storeVars, queueVars, claims, wfEvent, wfStarted, sched>>

WorkEnds(r) ==
  /\ run[r].pc = "work" /\ run[r].work = "going"
  /\ \/ (run[r].stop => IsWorkflow(r)) /\ \E s \in {"completed", "failed"} : EndWork(r, s)
     \/ ~IsWorkflow(r) /\ ~run[r].stop /\ EndWork(r, "cancelled")   \* stopped from its session
     \/ IsWorkflow(r) /\ run[r].stop /\ ~run[r].eff /\ EndWork(r, "cancelled")   \* before its thread began
     \/ ~IsWorkflow(r) /\ run[r].stop /\ Interrupted(r)

(* The two hour limit of an agent run: cancelled, and not waited for.      *)
AbsoluteTimeoutVariant(r) ==
  /\ run[r].pc = "work" /\ ~IsWorkflow(r)
  /\ run' = [run EXCEPT ![r].pc = "save", ![r].obj = [run[r].obj EXCEPT !.status = "failed"]]
  /\ UNCHANGED <<storeVars, queueVars, claims, wfEvent, wfStarted, sched>>

AbsoluteTimeout(r) ==
  /\ run[r].pc = "work" /\ ~IsWorkflow(r)
  /\ run' = [run EXCEPT ![r].pc = "save", ![r].stop = TRUE,
                        ![r].obj = [run[r].obj EXCEPT !.status = "failed"]]
  /\ UNCHANGED <<storeVars, queueVars, claims, wfEvent, wfStarted, sched>>

(* The dispatch guard, for a workflow that does not keep its own limit:    *)
(* the thread is told to stop and runs on.  (An agent run has met          *)
(* AbsoluteTimeout by then.)                                               *)
GuardTimeout(r) ==
  /\ run[r].pc = "work" /\ IsWorkflow(r)
  /\ run' = [run EXCEPT ![r].pc = "guard", ![r].stop = TRUE]
  /\ UNCHANGED <<storeVars, queueVars, claims, wfEvent, wfStarted, sched>>

GuardCancel(r) ==
  /\ run[r].pc = "guard"
  /\ run' = [Signalled(Reached(run[r].exec, run[r].obj.sess)) EXCEPT ![r].pc = "fail"]
  /\ UNCHANGED <<storeVars, queueVars, claims, wfEvent, wfStarted, sched>>

(* Work nobody waits for any more ends.                                    *)
LateWorkEnds(r) ==
  /\ run[r].work = "going" /\ run[r].pc # "work" /\ run[r].stop
  /\ run' = [run EXCEPT ![r].work = "ended"]
  /\ wfEvent' = Released(r)
  /\ UNCHANGED <<storeVars, queueVars, claims, wfStarted, sched>>

-----------------------------------------------------------------------------
(* The last write of dispatch: update_active_execution.                    *)
Save(r) ==
  LET e == run[r].exec
      o == run[r].obj
  IN /\ run[r].pc = "save"
     /\ IF StillActive(e, o)
        THEN WriteRow(e, o) /\ run' = [run EXCEPT ![r].pc = "release", ![r].obj = row'[e]]
        ELSE run' = [run EXCEPT ![r].pc = "reread"] /\ UNCHANGED storeVars
     /\ UNCHANGED <<queueVars, claims, wfEvent, wfStarted, sched>>

(* The write raises (TaskResultPersistenceError), applied or not: a commit *)
(* in flight when the write times out is not undone.  The result waits     *)
(* (one for each execution), and the slot stays taken.                     *)
NoLongerPending(x, e) ==
  IF run[x].exec = e /\ run[x].pc = "pending" THEN [run[x] EXCEPT !.pc = "over"] ELSE run[x]

SaveFails(r, applied) ==
  LET e == run[r].exec
      o == run[r].obj
  IN /\ run[r].pc = "save"
     /\ applied => StillActive(e, o)
     /\ IF applied THEN WriteRow(e, o) ELSE UNCHANGED storeVars
     /\ run' = [x \in Runs |-> IF x = r THEN [run[x] EXCEPT !.pc = "pending"] ELSE NoLongerPending(x, e)]
     /\ UNCHANGED <<queueVars, claims, wfEvent, wfStarted, sched>>

(* get_execution(id) or execution, after a write that found no row.        *)
Reread(r) ==
  /\ run[r].pc \in {"reread", "failreread"}
  /\ run' = [run EXCEPT ![r].pc = "release", ![r].obj = Current(run[r].exec, @)]
  /\ UNCHANGED <<storeVars, queueVars, claims, wfEvent, wfStarted, sched>>

(* _mark_execution_failed: the row is read again; one that has ended is    *)
(* left.  The CancelledError branch passes hold.                           *)
Fail(r) ==
  LET o == Current(run[r].exec, run[r].obj)
      f == [o EXCEPT !.status = "failed"]
  IN /\ run[r].pc = "fail"
     /\ run' = IF Present(run[r].exec) /\ o.status \in Terminal
               THEN [run EXCEPT ![r].pc = "release", ![r].obj = o]
               ELSE [run EXCEPT ![r].pc = "failwrite",
                                ![r].obj = IF run[r].exit = "raise" THEN Held(f) ELSE f]
     /\ UNCHANGED <<storeVars, queueVars, claims, wfEvent, wfStarted, sched>>

FailWrite(r) ==
  LET e == run[r].exec
      o == run[r].obj
  IN /\ run[r].pc = "failwrite"
     /\ IF StillActive(e, o)
        THEN WriteRow(e, o) /\ run' = [run EXCEPT ![r].pc = "release", ![r].obj = row'[e]]
        ELSE run' = [run EXCEPT ![r].pc = "failreread"] /\ UNCHANGED storeVars
     /\ UNCHANGED <<queueVars, claims, wfEvent, wfStarted, sched>>

(* The CancelledError branch: what the row says now; an execution that has *)
(* not ended is judged, and queued again or failed and held.               *)
InterruptRead(r) ==
  LET o == Current(run[r].exec, run[r].obj) IN
  /\ run[r].pc = "intread"
  /\ run' = [run EXCEPT ![r].obj = o, ![r].pc = IF o.status \in Terminal THEN "release" ELSE "intjudge"]
  /\ UNCHANGED <<storeVars, queueVars, claims, wfEvent, wfStarted, sched>>

InterruptJudge(r) ==
  /\ run[r].pc = "intjudge"
  /\ \E safe \in Outcomes(run[r].exec, run[r].obj) :
       run' = [run EXCEPT ![r].pc = IF safe THEN "intrequeue" ELSE "fail"]
  /\ wfStarted' = Forgotten(run[r].exec)
  /\ UNCHANGED <<storeVars, queueVars, claims, wfEvent, sched>>

InterruptRequeue(r) ==
  LET e == run[r].exec
      o == run[r].obj
      q == Requeued(o, FALSE)
      c == Current(e, q)
  IN /\ run[r].pc = "intrequeue"
     /\ IF Requeueable(e, o.status, o.ver)
        THEN /\ RequeueRow(e, q)
             /\ run' = [run EXCEPT ![r].pc = "release", ![r].exit = "requeued", ![r].obj = row'[e]]
        ELSE /\ UNCHANGED storeVars
             /\ run' = [run EXCEPT ![r].pc = "release", ![r].obj = c,
                         ![r].exit = IF c.status = "queued" THEN "requeued" ELSE @]
     /\ UNCHANGED <<queueVars, claims, wfEvent, wfStarted, sched>>

-----------------------------------------------------------------------------
(* A result of e waits to be saved (e in _pending_completions).            *)
ResultPending(e) == \E r \in Runs : run[r].exec = e /\ run[r].pc = "pending"

(* Past the finally block: a failure is handled, unless it is raised on.   *)
Done(r) == IF run[r].exit = "settle" /\ run[r].obj.status = "failed" THEN "judge" ELSE "over"

(* The finally block, with the start time the run was claimed with.        *)
Release(r) ==
  LET e == run[r].exec IN
  /\ run[r].pc = "release"
  /\ IF ResultPending(e) THEN UNCHANGED slot ELSE MarkFinished(e, r)
  /\ run' = [run EXCEPT ![r].pc = IF run[r].exit = "requeued" \/ ResultPending(e)
                                  THEN Done(r) ELSE "finishref"]
  /\ UNCHANGED <<storeVars, paused, claims, wfEvent, wfStarted, sched>>

FinishRef(r) ==
  /\ run[r].pc = "finishref"
  /\ FinishRefRow(run[r].exec, r)
  /\ run' = [run EXCEPT ![r].pc = Done(r)]
  /\ UNCHANGED <<queueVars, claims, wfEvent, wfStarted, sched>>

(* _handle_failure: judge the failed run, then hold it for a person or set *)
(* it up for a retry, if its row is still as the failure wrote it.         *)
Judge(r) ==
  /\ run[r].pc = "judge"
  /\ \E safe \in Outcomes(run[r].exec, run[r].obj) :
       run' = [run EXCEPT ![r].pc = IF ~safe THEN "hold"
                            ELSE IF run[r].obj.count < MaxRetries THEN "later" ELSE "over"]
  /\ wfStarted' = Forgotten(run[r].exec)
  /\ UNCHANGED <<storeVars, queueVars, claims, wfEvent, sched>>

SettleVariant(r) ==
  LET e == run[r].exec
      o == run[r].obj
      n == IF run[r].pc = "hold" THEN Held(o) ELSE [o EXCEPT !.count = @ + 1]
  IN /\ run[r].pc \in {"hold", "later"}
     /\ IF Unchanged(e, o.ver) THEN WriteRow(e, n) ELSE UNCHANGED storeVars
     /\ run' = [run EXCEPT ![r].pc = "over"]
     /\ UNCHANGED <<queueVars, claims, wfEvent, wfStarted, sched>>

Settle(r) ==
  LET e == run[r].exec
      o == run[r].obj
      n == IF run[r].pc = "hold" THEN Held(o) ELSE [o EXCEPT !.count = @ + 1, !.due = TRUE]
  IN /\ run[r].pc \in {"hold", "later"}
     /\ IF Unchanged(e, o.ver) THEN WriteRow(e, n) ELSE UNCHANGED storeVars
     /\ run' = [run EXCEPT ![r].pc = "over"]
     /\ UNCHANGED <<queueVars, claims, wfEvent, wfStarted, sched>>

RunStep(r) ==
  \/ ReadScheduler(r) \/ DispatchFails(r) \/ StartSession(r) \/ Register(r)
  \/ Check(r) \/ Open(r) \/ StartEffect(r) \/ WorkEnds(r)
  \/ AbsoluteTimeout(r) \/ GuardTimeout(r) \/ GuardCancel(r) \/ LateWorkEnds(r)
  \/ Save(r) \/ Reread(r) \/ Fail(r) \/ FailWrite(r)
  \/ InterruptRead(r) \/ InterruptJudge(r) \/ InterruptRequeue(r)
  \/ Release(r) \/ FinishRef(r) \/ Judge(r) \/ Settle(r)
=============================================================================
