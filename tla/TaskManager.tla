---------------------------- MODULE TaskManager ----------------------------
(***************************************************************************)
(* The task manager (flocks/task/manager.py): the execution loop that      *)
(* claims work and recovers what got lost, the requests of people, the     *)
(* cleanup loop, start, stop and crash, around the runs of TaskRuns.       *)
(*                                                                         *)
(* One process, one event loop: a step ends where its coroutine awaits the *)
(* store.  The execution loop does one thing at a time, so nothing is      *)
(* claimed while it recovers; requests, runs and the cleanup loop          *)
(* interleave with it freely.                                              *)
(***************************************************************************)
EXTENDS TaskRuns

CONSTANTS Reqs,        \* requests that can be in progress at once
          Ops,         \* what people may ask for
          Faults,      \* what may go wrong
          MaxCalls,    \* bound: requests of one behaviour
          MaxFaults    \* bound: faults of one behaviour

AllOps    == {"cancel", "delete", "drop", "retry", "resume", "view", "pause"}
AllFaults == {"crash", "stop", "save", "lostsave", "lostclaim", "suspend"}

ASSUME OpsAssumption    == Ops \subseteq AllOps
ASSUME FaultsAssumption == Faults \subseteq AllFaults
ASSUME BoundsAssumption == MaxCalls \in Nat /\ MaxFaults \in Nat

VARIABLES mgr,     \* the process: starting, up, stopping or down
          orphans, \* start: running rows still to be settled
          loop,    \* what the execution loop is in the middle of
          req,     \* the requests
          acks,    \* history: claims made when a person last sent e off again
          calls, faults

managerVars == <<mgr, orphans, loop, req, acks, calls, faults>>
vars == <<storeVars, queueVars, runVars, managerVars>>

LoopPC == {"idle", "retry", "orphan", "stalejudge", "stalefail", "stalewrite",
           "stalefree", "staleref", "flushread", "flushjudge"}
ReqPC  == {"idle", "write", "stop", "free", "delete", "drop", "requeue"}

LoopType == [pc: LoopPC, exec: Execs, obj: RowType, r: Nat, hold: BOOLEAN]
ReqType  == [pc: ReqPC, op: AllOps, exec: Execs, obj: RowType, todo: SUBSET Execs]

ManagerTypeOK ==
  /\ mgr \in {"starting", "up", "stopping", "down"} /\ orphans \subseteq Execs
  /\ loop \in LoopType /\ req \in [Reqs -> ReqType] /\ acks \in [Execs -> Nat]
  /\ calls \in 0..MaxCalls /\ faults \in 0..MaxFaults

LoopIdle == [pc |-> "idle", exec |-> AnExec, obj |-> NoRow("new"), r |-> 0, hold |-> FALSE]
ReqIdle  == [pc |-> "idle", op |-> "cancel", exec |-> AnExec, obj |-> NoRow("new"), todo |-> {}]

Init == /\ StoreInit /\ QueueInit /\ RunsInit
        /\ mgr = "up" /\ orphans = {}
        /\ loop = LoopIdle
        /\ req = [q \in Reqs |-> ReqIdle]
        /\ acks = [e \in Execs |-> 0]
        /\ calls = 0 /\ faults = 0

Fault(f) == f \in Faults /\ faults < MaxFaults /\ faults' = faults + 1

-----------------------------------------------------------------------------
(* create_execution_from_scheduler, for a rerun, a run-once scheduler or a *)
(* tick of the scheduler.                                                  *)
Create(e) ==
  /\ mgr = "up" /\ sched
  /\ CreateRow(e)
  /\ UNCHANGED <<queueVars, runVars, managerVars>>

LoopFree == mgr = "up" /\ loop.pc = "idle"

(* TaskQueue.dequeue, and the task that runs what it claimed.              *)
Dequeue(e) ==
  LET r == claims + 1 IN
  /\ LoopFree /\ claims < MaxClaims
  /\ MayDequeue(e)
  /\ ClaimRow(e, r)
  /\ slot' = [slot EXCEPT ![e] = r]
  /\ claims' = r
  /\ run' = [run EXCEPT ![r] = NewRun(e, row'[e], "scheduler")]
  /\ UNCHANGED <<paused, wfEvent, wfStarted, sched, managerVars>>

(* The claim is committed, but the call that made it raises.               *)
LoseClaim(e) ==
  LET r == claims + 1 IN
  /\ LoopFree /\ claims < MaxClaims /\ Fault("lostclaim")
  /\ MayDequeue(e)
  /\ ClaimRow(e, r)
  /\ claims' = r
  /\ run' = [run EXCEPT ![r] = NewRun(e, row'[e], "over")]
  /\ UNCHANGED <<queueVars, wfEvent, wfStarted, sched, mgr, orphans, loop, req, acks, calls>>

(* _process_retry_queue and _recover_orphaned_queued_executions: a row is  *)
(* read, then queued again if it is still as it was read.                  *)
TakeRow(e) ==
  /\ LoopFree
  /\ \/ Retryable(e)      /\ loop' = [LoopIdle EXCEPT !.pc = "retry",  !.exec = e, !.obj = row[e]]
     \/ OrphanedQueued(e) /\ loop' = [LoopIdle EXCEPT !.pc = "orphan", !.exec = e, !.obj = row[e]]
  /\ UNCHANGED <<storeVars, queueVars, runVars, mgr, orphans, req, acks, calls, faults>>

LoopRequeue ==
  LET e == loop.exec
      o == loop.obj
      q == Requeued(o, FALSE)
      n == IF loop.pc = "retry" THEN [q EXCEPT !.due = FALSE] ELSE q
  IN /\ mgr = "up" /\ loop.pc \in {"retry", "orphan"}
     /\ IF Requeueable(e, o.status, o.ver) THEN RequeueRow(e, n) ELSE UNCHANGED storeVars
     /\ loop' = LoopIdle
     /\ UNCHANGED <<queueVars, runVars, mgr, orphans, req, acks, calls, faults>>

(* _recover_stale_active_executions, of a row that says running longer     *)
(* than any dispatch lasts: then no dispatcher of it is left, unless the   *)
(* machine slept, when its wall clock ran on and its timeouts did not.     *)
Dispatched(e) == \E r \in Runs : Live(r) /\ run[r].pc # "pending" /\ run[r].exec = e /\ r = row[e].started
AbandonedVariant(e) == slot[e] # 0 /\ ~Dispatched(e)
Abandoned(e) == ~Dispatched(e)

TakeStale(e) ==
  /\ LoopFree
  /\ row[e].status = "running" /\ ~ResultPending(e)
  /\ \/ Abandoned(e) /\ UNCHANGED faults
     \/ ~Abandoned(e) /\ Fault("suspend")
  /\ run' = Signalled(Reached(e, row[e].sess))
  /\ loop' = [LoopIdle EXCEPT !.pc = "stalejudge", !.exec = e, !.obj = row[e]]
  /\ UNCHANGED <<storeVars, queueVars, claims, wfEvent, wfStarted, sched, mgr, orphans, req, acks, calls>>

StaleJudge ==
  /\ mgr = "up" /\ loop.pc = "stalejudge"
  /\ \E safe \in Outcomes(loop.exec, loop.obj) :
       loop' = [loop EXCEPT !.pc = "stalefail", !.hold = ~safe]
  /\ wfStarted' = Forgotten(loop.exec)
  /\ UNCHANGED <<storeVars, queueVars, run, claims, wfEvent, sched, mgr, orphans, req, acks, calls, faults>>

StaleFail ==
  LET o == Current(loop.exec, loop.obj)
      f == [o EXCEPT !.status = "failed"]
  IN /\ mgr = "up" /\ loop.pc = "stalefail"
     /\ loop' = IF Present(loop.exec) /\ o.status \in Terminal
                THEN [loop EXCEPT !.pc = "stalefree"]
                ELSE [loop EXCEPT !.pc = "stalewrite", !.obj = IF loop.hold THEN Held(f) ELSE f]
     /\ UNCHANGED <<storeVars, queueVars, runVars, mgr, orphans, req, acks, calls, faults>>

StaleWrite ==
  LET e == loop.exec IN
  /\ mgr = "up" /\ loop.pc = "stalewrite"
  /\ IF StillActive(e, loop.obj) THEN WriteRow(e, loop.obj) ELSE UNCHANGED storeVars
  /\ loop' = [loop EXCEPT !.pc = "stalefree"]
  /\ UNCHANGED <<queueVars, runVars, mgr, orphans, req, acks, calls, faults>>

(* The slot, then the reference, whichever run they are of by now.         *)
StaleFree ==
  /\ mgr = "up" /\ loop.pc = "stalefree"
  /\ MarkFinished(loop.exec, 0)
  /\ loop' = [loop EXCEPT !.pc = "staleref"]
  /\ UNCHANGED <<storeVars, paused, runVars, mgr, orphans, req, acks, calls, faults>>

StaleFinishRef ==
  /\ mgr = "up" /\ loop.pc = "staleref"
  /\ FinishRefRow(loop.exec, 0)
  /\ loop' = LoopIdle
  /\ UNCHANGED <<queueVars, runVars, mgr, orphans, req, acks, calls, faults>>

(* _flush_pending_completions: a waiting result is written again (a write  *)
(* that raises leaves it waiting).  A saved failure is then handled here,  *)
(* by the steps of the run, while the loop waits for them.                 *)
FlushWrite(r) ==
  LET e == run[r].exec
      o == run[r].obj
  IN /\ LoopFree /\ run[r].pc = "pending"
     /\ IF StillActive(e, o)
        THEN /\ WriteRow(e, o)
             /\ MarkFinished(e, o.started)
             /\ run' = [run EXCEPT ![r].pc = IF o.status = "failed" THEN "judge" ELSE "over",
                                   ![r].obj = row'[e]]
             /\ loop' = IF o.status = "failed"
                        THEN [LoopIdle EXCEPT !.pc = "flushjudge", !.exec = e, !.r = r] ELSE loop
        ELSE /\ loop' = [LoopIdle EXCEPT !.pc = "flushread", !.exec = e, !.r = r]
             /\ UNCHANGED <<storeVars, slot, run>>
     /\ UNCHANGED <<paused, claims, wfEvent, wfStarted, sched, mgr, orphans, req, acks, calls, faults>>

FlushRead ==
  LET e == loop.exec
      r == loop.r
  IN /\ mgr = "up" /\ loop.pc = "flushread"
     /\ IF IsActive(e) THEN UNCHANGED slot ELSE MarkFinished(e, run[r].obj.started)
     /\ run' = [x \in Runs |-> NoLongerPending(x, e)]
     /\ loop' = LoopIdle
     /\ UNCHANGED <<storeVars, paused, claims, wfEvent, wfStarted, sched, mgr, orphans, req, acks, calls, faults>>

FlushHandled ==
  /\ mgr = "up" /\ loop.pc = "flushjudge" /\ run[loop.r].pc = "over"
  /\ loop' = LoopIdle
  /\ UNCHANGED <<storeVars, queueVars, runVars, mgr, orphans, req, acks, calls, faults>>

LoopStep ==
  \/ \E e \in Execs : Dequeue(e) \/ TakeRow(e) \/ TakeStale(e)
  \/ \E r \in Runs : FlushWrite(r)
  \/ LoopRequeue \/ StaleJudge \/ StaleFail \/ StaleWrite \/ StaleFree \/ StaleFinishRef
  \/ FlushRead \/ FlushHandled

-----------------------------------------------------------------------------
(* Requests.  cancel_execution: read, write cancelled, then stop the run,  *)
(* free the reference and the slot.  delete_execution and delete_scheduler *)
(* ("drop") cancel first; retry_execution and resume_execution read a      *)
(* failed row and queue it again if it is still as it was read.            *)
Asked(q, op) ==
  /\ mgr = "up" /\ req[q].pc = "idle" /\ op \in Ops /\ calls < MaxCalls
  /\ calls' = calls + 1

Ask(q, op, e, pc) ==
  /\ Asked(q, op)
  /\ req' = [req EXCEPT ![q] = [pc |-> pc, op |-> op, exec |-> e, obj |-> row[e], todo |-> {}]]
  /\ UNCHANGED <<storeVars, queueVars, runVars, mgr, orphans, loop, acks, faults>>

AskCancel(q, e) == IsActive(e) /\ Ask(q, "cancel", e, "write")
AskDelete(q, e) == Present(e) /\ Ask(q, "delete", e, IF IsActive(e) THEN "write" ELSE "delete")
AskRetry(q, e)  == row[e].status = "failed" /\ Ask(q, "retry", e, "requeue")
AskResume(q, e) ==
  /\ row[e].status = "failed" /\ row[e].held
  /\ e \notin Workflow /\ row[e].sess # 0
  /\ Ask(q, "resume", e, "requeue")
AskDrop(q) ==
  /\ sched /\ Asked(q, "drop")
  /\ req' = [req EXCEPT ![q] = [ReqIdle EXCEPT !.pc = "drop", !.op = "drop",
                                               !.todo = {e \in Execs : IsActive(e)}]]
  /\ UNCHANGED <<storeVars, queueVars, runVars, mgr, orphans, loop, acks, faults>>

(* Where a request goes on once its execution is cancelled, or was not.    *)
AfterCancel(q) ==
  IF req[q].op = "delete" THEN [req EXCEPT ![q].pc = "delete"]
  ELSE IF req[q].op = "drop" THEN [req EXCEPT ![q].pc = "drop", ![q].todo = @ \ {req[q].exec}]
  ELSE [req EXCEPT ![q] = ReqIdle]

CancelWrite(q) ==
  LET e == req[q].exec IN
  /\ req[q].pc = "write"
  /\ IF IsActive(e)
     THEN CancelRow(e) /\ req' = [req EXCEPT ![q].pc = "stop"]
     ELSE UNCHANGED storeVars /\ req' = AfterCancel(q)
  /\ UNCHANGED <<queueVars, runVars, mgr, orphans, loop, acks, calls, faults>>

(* The row as it is now names the session to stop.                         *)
CancelStop(q) ==
  LET e == req[q].exec IN
  /\ req[q].pc = "stop"
  /\ run' = Signalled(Reached(e, Current(e, req[q].obj).sess))
  /\ req' = [req EXCEPT ![q].pc = "free"]
  /\ UNCHANGED <<storeVars, queueVars, claims, wfEvent, wfStarted, sched, mgr, orphans, loop, acks, calls, faults>>

CancelFree(q) ==
  LET e == req[q].exec IN
  /\ req[q].pc = "free"
  /\ FinishRefRow(e, 0)
  /\ MarkFinished(e, 0)
  /\ req' = AfterCancel(q)
  /\ UNCHANGED <<paused, runVars, mgr, orphans, loop, acks, calls, faults>>

DeleteExecution(q) ==
  /\ req[q].pc = "delete"
  /\ DeleteRows({req[q].exec})
  /\ req' = [req EXCEPT ![q] = ReqIdle]
  /\ UNCHANGED <<queueVars, runVars, mgr, orphans, loop, acks, calls, faults>>

(* _cleanup_scheduler_active_executions, one execution after the other.    *)
DropNext(q) ==
  /\ req[q].pc = "drop"
  /\ \E e \in req[q].todo :
       req' = IF IsActive(e) THEN [req EXCEPT ![q].pc = "write", ![q].exec = e, ![q].obj = row[e]]
              ELSE [req EXCEPT ![q].todo = @ \ {e}]
  /\ UNCHANGED <<storeVars, queueVars, runVars, mgr, orphans, loop, acks, calls, faults>>

DropScheduler(q) ==
  /\ req[q].pc = "drop" /\ req[q].todo = {}
  /\ sched' = FALSE
  /\ DeleteRows({e \in Execs : Present(e)})
  /\ req' = [req EXCEPT ![q] = ReqIdle]
  /\ UNCHANGED <<queueVars, run, claims, wfEvent, wfStarted, mgr, orphans, loop, acks, calls, faults>>

(* retry_execution starts over; resume_execution keeps the session.        *)
PersonRequeue(q) ==
  LET e == req[q].exec
      o == req[q].obj
      n == IF req[q].op = "resume"
           THEN [Requeued(o, TRUE) EXCEPT !.held = FALSE, !.due = FALSE]
           ELSE [Requeued(o, FALSE) EXCEPT !.held = FALSE, !.due = FALSE, !.count = @ + 1]
  IN /\ req[q].pc = "requeue"
     /\ IF Requeueable(e, "failed", o.ver)
        THEN RequeueRow(e, n) /\ acks' = [acks EXCEPT ![e] = claims]
        ELSE UNCHANGED <<storeVars, acks>>
     /\ req' = [req EXCEPT ![q] = ReqIdle]
     /\ UNCHANGED <<queueVars, runVars, mgr, orphans, loop, calls, faults>>

View(q, e) ==
  /\ Asked(q, "view") /\ ViewRow(e)
  /\ UNCHANGED <<queueVars, runVars, mgr, orphans, loop, req, acks, faults>>

PauseQueue(q) ==
  /\ Asked(q, "pause") /\ ~paused /\ paused' = TRUE
  /\ UNCHANGED <<storeVars, slot, runVars, mgr, orphans, loop, req, acks, faults>>

ResumeQueue ==
  /\ mgr = "up" /\ paused /\ paused' = FALSE
  /\ UNCHANGED <<storeVars, slot, runVars, managerVars>>

RequestStep(q) ==
  \/ CancelWrite(q) \/ CancelStop(q) \/ CancelFree(q) \/ DeleteExecution(q)
  \/ DropNext(q) \/ DropScheduler(q) \/ PersonRequeue(q)

AskStep(q) ==
  \/ \E e \in Execs : AskCancel(q, e) \/ AskDelete(q, e) \/ AskRetry(q, e) \/ AskResume(q, e) \/ View(q, e)
  \/ AskDrop(q) \/ PauseQueue(q)

(* _expire_stale_executions: nothing else touches what it cancels.         *)
Expire(e) ==
  /\ mgr = "up" /\ ExpireRow(e)
  /\ UNCHANGED <<queueVars, runVars, managerVars>>

-----------------------------------------------------------------------------
(* stop: the loop ends, and every run is cancelled and waited for.  One    *)
(* that is in dispatch goes to the CancelledError branch, one that is past *)
(* it and before the end of the finally block goes through that block.     *)
Unwinding == {"guard", "fail", "failwrite", "failreread", "intread", "intjudge",
              "intrequeue", "release"}

Interruption(x) ==
  IF x.pc \in InDispatch \cup {"reread"}
  THEN [x EXCEPT !.pc = "intread", !.exit = "raise",
                 !.stop = @ \/ x.work = "going",
                 !.work = IF @ = "held" \/ (@ = "going" /\ x.exec \notin Workflow) THEN "ended" ELSE @]
  ELSE IF x.pc \in Unwinding
  THEN [x EXCEPT !.pc = "release", !.exit = IF @ = "requeued" THEN @ ELSE "raise"]
  ELSE IF x.pc = "unused" THEN x
  ELSE [x EXCEPT !.pc = "over"]

Stop ==
  /\ mgr = "up" /\ Fault("stop")
  /\ \A q \in Reqs : req[q].pc = "idle"
  /\ mgr' = "stopping"
  /\ loop' = LoopIdle
  /\ run' = [r \in Runs |-> Interruption(run[r])]
  /\ wfEvent' = [e \in Execs |-> IF wfEvent[e] # 0 /\ run'[wfEvent[e]].work = "ended" THEN 0 ELSE wfEvent[e]]
  /\ UNCHANGED <<storeVars, queueVars, claims, wfStarted, sched, orphans, req, acks, calls>>

(* The process is gone: what is left is the store.                         *)
Gone ==
  /\ mgr' = "down" /\ orphans' = {}
  /\ slot' = [e \in Execs |-> 0] /\ paused' = FALSE
  /\ loop' = LoopIdle /\ req' = [q \in Reqs |-> ReqIdle]
  /\ run' = [r \in Runs |-> IF run[r].pc = "unused" THEN run[r]
                            ELSE [run[r] EXCEPT !.pc = "over", !.work = IF @ = "none" THEN @ ELSE "ended"]]
  /\ wfEvent' = [e \in Execs |-> 0] /\ wfStarted' = [e \in Execs |-> "none"]
  /\ UNCHANGED <<storeVars, claims, sched, acks, calls>>

Quit ==
  /\ mgr = "stopping" /\ \A r \in Runs : ~Live(r) /\ run[r].work # "going"
  /\ Gone /\ UNCHANGED faults

Crash == mgr # "down" /\ Fault("crash") /\ Gone

(* start: list the running rows, queue their references again, ...         *)
Start ==
  /\ mgr = "down" /\ mgr' = "starting"
  /\ orphans' = {e \in Execs : row[e].status = "running"}
  /\ RequeueRunningRefs
  /\ UNCHANGED <<queueVars, runVars, loop, req, acks, calls, faults>>

(* ... settle each of those rows, ...                                      *)
SettleOrphanVariant(e) ==
  /\ mgr = "starting" /\ e \in orphans
  /\ RequeueRow(e, Requeued(row[e], FALSE))
  /\ orphans' = orphans \ {e}
  /\ UNCHANGED <<queueVars, runVars, mgr, loop, req, acks, calls, faults>>

SettleOrphan(e) ==
  /\ mgr = "starting" /\ e \in orphans
  /\ \E safe \in Outcomes(e, row[e]) :
       IF safe THEN RequeueRow(e, Requeued(row[e], FALSE))
       ELSE WriteRow(e, Held([row[e] EXCEPT !.status = "failed"]))
  /\ orphans' = orphans \ {e}
  /\ UNCHANGED <<queueVars, runVars, mgr, loop, req, acks, calls, faults>>

(* ... give every queued row a reference, and go.                          *)
RefOrphan(e) ==
  /\ mgr = "starting" /\ orphans = {} /\ OrphanedQueued(e)
  /\ RequeueRow(e, Requeued(row[e], FALSE))
  /\ UNCHANGED <<queueVars, runVars, managerVars>>

Started ==
  /\ mgr = "starting" /\ orphans = {} /\ ~\E e \in Execs : OrphanedQueued(e)
  /\ mgr' = "up"
  /\ UNCHANGED <<storeVars, queueVars, runVars, orphans, loop, req, acks, calls, faults>>

-----------------------------------------------------------------------------
Running == mgr \in {"up", "stopping"}

RunProgress(r) == Running /\ RunStep(r) /\ UNCHANGED managerVars

FailSave(r) ==
  /\ Running
  /\ \/ Fault("save") /\ SaveFails(r, FALSE)
     \/ Fault("lostsave") /\ SaveFails(r, TRUE)
  /\ UNCHANGED <<mgr, orphans, loop, req, acks, calls>>

Next ==
  \/ \E e \in Execs : Create(e) \/ LoseClaim(e) \/ Expire(e) \/ SettleOrphan(e) \/ RefOrphan(e)
  \/ LoopStep
  \/ \E q \in Reqs : AskStep(q) \/ RequestStep(q)
  \/ \E r \in Runs : RunProgress(r) \/ FailSave(r)
  \/ ResumeQueue \/ Stop \/ Quit \/ Crash \/ Start \/ Started

Spec == Init /\ [][Next]_vars
=============================================================================
