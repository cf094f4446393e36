--------------------------- MODULE TaskProperties ---------------------------
(***************************************************************************)
(* What the task center promises, stated of the states and steps of        *)
(* TaskManager.  MCTaskManager checks them; the modules *_proofs prove     *)
(* most of them for every value of the constants.                          *)
(***************************************************************************)
EXTENDS TaskManager

(* Every variable keeps its type.                                          *)
TypeOK == StoreTypeOK /\ QueueTypeOK /\ RunsTypeOK /\ ManagerTypeOK

-----------------------------------------------------------------------------
(* Queue and record.                                                       *)

(* A queue reference never outlives what it refers to: one that waits is   *)
(* of a queued execution (while start settles what a crash left, of a      *)
(* running one), one that was claimed is of a running execution.  A        *)
(* finished execution has none, so nothing can claim it again.             *)
RefMatchesRow ==
  \A e \in Execs :
    /\ ref[e] = "queued" => row[e].status \in {"queued", "running"}
    /\ ref[e] = "running" => row[e].status = "running"

(* The other way round, once start has settled what a crash left: a        *)
(* running execution still holds the reference it was claimed with, and    *)
(* only a queued one has a reference that can be claimed.                  *)
RunningHoldsItsRef ==
  mgr = "up" =>
    \A e \in Execs : /\ row[e].status = "running" <=> ref[e] = "running"
                     /\ ref[e] = "queued" => row[e].status = "queued"

(* An execution that waits in the queue carries nothing over from the run  *)
(* before: no start time (the next claim sets its own, the fencing token   *)
(* of its run), no pending retry, and no hold for verification.            *)
QueuedStartsClean ==
  \A e \in Execs : row[e].status = "queued" =>
    row[e].started = 0 /\ ~row[e].due /\ ~row[e].held

(* A finished execution stays finished: cancelled and completed rows only  *)
(* ever disappear, and a failed one only waits, is queued again, or        *)
(* disappears.  No late result, no stale snapshot and no recovery brings   *)
(* one back.                                                               *)
FinalStatus ==
  [][\A e \in Execs :
       /\ row[e].status \in {"completed", "cancelled"} =>
            row'[e].status \in {row[e].status, "deleted"}
       /\ row[e].status = "failed" => row'[e].status \in {"failed", "queued", "deleted"}]_vars

(* A result is only written by the run whose claim the row still carries:  *)
(* whatever became of the dispatchers of earlier claims, they complete     *)
(* nothing that was started after them.                                    *)
ResultOfItsRun ==
  [][\A e \in Execs : row[e].status # "completed" /\ row'[e].status = "completed" =>
       \E r \in Runs : /\ run[r].exec = e /\ r = row[e].started
                       /\ run[r].work = "ended" /\ run[r].obj.status = "completed"]_vars

-----------------------------------------------------------------------------
(* Work and record.                                                        *)

(* The work of a run that was not told to stop.                            *)
Going(r) == run[r].work = "going" /\ ~run[r].stop

(* A run that has started something nobody confirmed, or still can: a      *)
(* workflow that was told to stop runs on.                                 *)
Exposed(r) == run[r].eff \/ (IsWorkflow(r) /\ run[r].work = "going")

Cancelling(e) == \E q \in Reqs : req[q].exec = e /\ req[q].pc = "stop"

(* Cancelling reaches the work: once no request is between the cancelled   *)
(* record and the signal, no work of a cancelled execution goes on without *)
(* having been told to stop -- wherever its dispatcher was meanwhile.      *)
CancelledIsStopped ==
  \A r \in Runs : row[run[r].exec].status = "cancelled" /\ ~Cancelling(run[r].exec) => ~Going(r)

(* An execution never starts over by itself once an earlier run of it      *)
(* started something whose effect nobody confirmed: a run with such an     *)
(* effect leads back into the queue only through a person.                 *)
NoBlindRerun ==
  \A r \in Runs : run[r].eff /\ row[run[r].exec].status = "queued" => r <= acks[run[r].exec]

(* At no time is more work going than max_concurrent, counting every run   *)
(* that has not been told to stop.                                         *)
CapRespected == Cardinality({r \in Runs : Going(r)}) <= MaxConcurrent

(* Nobody runs an execution a second time beside work that can still act:  *)
(* while a later run of an execution works, the work of an earlier one is  *)
(* over or was told to stop, and what it may have done, or as a workflow   *)
(* may still do, a person knew of who sent the execution off since.  (Two  *)
(* things may go on then: an agent's task that was cancelled at its limit  *)
(* and not waited for, which starts nothing more; and, when a person       *)
(* retries beside it, a workflow's thread that nobody can stop.)           *)
OneRunner ==
  \A r, s \in Runs :
    run[r].exec = run[s].exec /\ r < s /\ run[s].work = "going" =>
      /\ run[r].work = "going" => run[r].stop
      /\ Exposed(r) => r <= acks[run[r].exec]

(* A slot is only ever occupied by a dispatcher that is still there, or    *)
(* whose result still waits to be saved: no run ends and leaves its slot   *)
(* taken (the queue would be short of it until the next restart).          *)
NoSlotLeak ==
  mgr = "up" => \A e \in Execs : slot[e] # 0 => Live(slot[e]) /\ run[slot[e]].exec = e

(* While a result waits to be saved its execution is not run again.        *)
PendingBlocksRerun ==
  \A r, s \in Runs : run[r].pc = "pending" /\ Going(s) => run[r].exec # run[s].exec

(* Every failure is handled: a failed execution no dispatcher and no       *)
(* recovery is busy with any more either has a retry coming, or is held    *)
(* for a person, or has used its retries up.                               *)
Busy(e) == \/ \E r \in Runs : Live(r) /\ run[r].exec = e
           \/ loop.pc # "idle" /\ loop.exec = e
FailureHandled ==
  \A e \in Execs : mgr = "up" /\ row[e].status = "failed" /\ ~Busy(e) =>
    row[e].due \/ row[e].held \/ row[e].count >= MaxRetries

(* Automatic retries are bounded: an execution that was sent off again has *)
(* every failed run since the last time a person did so in its retry_count *)
(* (a fault may keep one from being counted), and until a person does, the *)
(* count stays within max_retries.                                         *)
FailedRuns(e) ==
  {r \in Runs : run[r].exec = e /\ r > acks[e] /\ run[r].pc = "over" /\ run[r].obj.status = "failed"}
RetriesBounded ==
  \A e \in Execs : IsActive(e) =>
    /\ Cardinality(FailedRuns(e)) <= row[e].count + faults
    /\ acks[e] = 0 => row[e].count <= MaxRetries

(* What belongs to a running execution belongs to it exactly while it runs *)
(* and leaves nothing behind: its slot, its reference, its row's marks; so *)
(* no more work goes on than there are slots.                              *)
HoldingsInStep == CapRespected /\ NoSlotLeak /\ RunningHoldsItsRef /\ QueuedStartsClean

(* An execution is run again only when that is safe, when the result of    *)
(* its last run is saved, and not more often than max_retries.             *)
RerunsAreSafe == NoBlindRerun /\ PendingBlocksRerun /\ RetriesBounded

(* An execution that has a retry coming gets it: retry_after is only set   *)
(* on a row that _process_retry_queue will pick up.                        *)
DueIsRetried == \A e \in Execs : row[e].status = "failed" /\ row[e].due => row[e].count < MaxRetries

-----------------------------------------------------------------------------
(* The task center implements ExecutionLifecycle: an attempt since the     *)
(* last time a person sent e off leaves it in doubt by starting an effect. *)
InDoubt(e) == \E r \in Runs : run[r].exec = e /\ run[r].eff /\ r > acks[e]

Lifecycle == INSTANCE ExecutionLifecycle WITH
  status <- [e \in Execs |-> row[e].status],
  doubt  <- [e \in Execs |-> InDoubt(e)]

(* Through claims, cancellations, crashes, restarts and unsaved results,   *)
(* every step of the task center is a step of the lifecycle or none.       *)
ImplementsLifecycle == Lifecycle!Spec

-----------------------------------------------------------------------------
(* Liveness.  The fairness is of the one event loop: a coroutine that can  *)
(* go on does (requests; runs, whose work ends at the latest with its two  *)
(* hour limit; the steps of the execution loop once it has begun one), an  *)
(* agent's task that was cancelled ends, and the execution loop, which     *)
(* goes through all waiting results, due retries, overdue and orphaned     *)
(* rows and the whole queue again and again, misses none of them for ever. *)
(* Nothing is assumed of people, of faults, of a workflow thread that was  *)
(* told to stop, or of anybody starting the process again.                 *)
Coroutine(r) == \/ ReadScheduler(r) \/ StartSession(r) \/ Register(r) \/ Check(r) \/ Open(r)
                \/ WorkEnds(r) \/ AbsoluteTimeout(r) \/ GuardTimeout(r) \/ GuardCancel(r)
                \/ Save(r) \/ Reread(r) \/ Fail(r) \/ FailWrite(r)
                \/ InterruptRead(r) \/ InterruptJudge(r) \/ InterruptRequeue(r)
                \/ Release(r) \/ FinishRef(r) \/ Judge(r) \/ Settle(r)

RunFair(r) == Running /\ Coroutine(r) /\ UNCHANGED managerVars
EndFair(r) == Running /\ ~IsWorkflow(r) /\ LateWorkEnds(r) /\ UNCHANGED managerVars
LoopFair   == LoopRequeue \/ StaleJudge \/ StaleFail \/ StaleWrite \/ StaleFree
              \/ StaleFinishRef \/ FlushRead \/ FlushHandled

Fairness ==
  /\ \A r \in Runs : WF_vars(RunFair(r)) /\ WF_vars(EndFair(r)) /\ SF_vars(FlushWrite(r))
  /\ WF_vars(LoopFair)
  /\ \A q \in Reqs : WF_vars(RequestStep(q))
  /\ \A e \in Execs : SF_vars(Dequeue(e)) /\ SF_vars(TakeRow(e)) /\ SF_vars(TakeStale(e) /\ Abandoned(e))

FairSpec == Spec /\ Fairness

(* The process is stopped, the queue is paused, or the model has used up   *)
(* its claims.                                                             *)
Halted == mgr # "up" \/ paused \/ claims = MaxClaims

(* An execution that waits in the queue is claimed, or leaves the queue:   *)
(* no lost reference, leaked slot or unsaved result keeps it there.        *)
QueuedIsClaimed == \A e \in Execs : row[e].status = "queued" ~> row[e].status # "queued" \/ Halted

(* Whatever happens to its dispatcher, its result or its claim, a running  *)
(* execution stops being shown as running.                                 *)
RunningEnds == \A e \in Execs : row[e].status = "running" ~> row[e].status # "running" \/ mgr # "up"

(* A slot that is taken is given back.                                     *)
SlotsComeBack == \A e \in Execs : slot[e] # 0 ~> slot[e] = 0 \/ mgr # "up"

(* No agent work goes on for ever, also when its dispatcher gave up on it  *)
(* at the time limit or its execution was cancelled under it.              *)
AgentWorkEnds == \A r \in Runs : run[r].work = "going" /\ ~IsWorkflow(r) ~> run[r].work # "going"

(* A retry that is due happens, unless a person sees to the execution.     *)
DueRetryHappens ==
  \A e \in Execs : Retryable(e) ~> row[e].status # "failed" \/ mgr # "up"

(* Nothing a run had, or was to come after it, is left behind for ever.    *)
NothingIsLeftBehind == RunningEnds /\ SlotsComeBack /\ AgentWorkEnds /\ DueRetryHappens
=============================================================================
