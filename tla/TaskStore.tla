----------------------------- MODULE TaskStore -----------------------------
(***************************************************************************)
(* The execution tables of the task center (flocks/task/store.py): one row *)
(* of task_executions and at most one queue reference per execution.       *)
(*                                                                         *)
(* The definitions named ...Variant, here and in the modules above this    *)
(* one, are mistakes that could be made in the code after them; nothing    *)
(* uses them but the check that some property notices each.                *)
(*                                                                         *)
(* Every write method of the store is one BEGIN IMMEDIATE transaction, so  *)
(* each operator below is one atomic step.  A conditional write is two     *)
(* operators: the WHERE clause (whether the statement finds its row) and   *)
(* the write itself; the caller sees rowcount through the first.           *)
(*                                                                         *)
(* A row keeps what the task center decides on: the status, the start time *)
(* (the number of the claim that set it, 0 for NULL), updated_at (a        *)
(* counter: every write of the row moves it on), the session (the number   *)
(* of the run that created it, 0 for NULL) and, of RetryConfig,            *)
(* retry_count, whether retry_after is set, and whether blocked_reason is. *)
(***************************************************************************)
EXTENDS Naturals

CONSTANTS Execs,       \* execution ids
          MaxRetries   \* RetryConfig.max_retries

ASSUME MaxRetriesAssumption == MaxRetries \in Nat

VARIABLES row,   \* task_executions, by id
          ref    \* task_execution_queue_refs, by execution id

storeVars == <<row, ref>>

Active   == {"queued", "running"}
Terminal == {"completed", "failed", "cancelled"}
Status   == Active \cup Terminal \cup {"new", "deleted"}

RowType == [status: Status, started: Nat, ver: Nat, sess: Nat,
            count: Nat, due: BOOLEAN, held: BOOLEAN]
RefType == {"none", "queued", "running"}

NoRow(status) == [status |-> status, started |-> 0, ver |-> 0, sess |-> 0,
                  count |-> 0, due |-> FALSE, held |-> FALSE]

StoreTypeOK == row \in [Execs -> RowType] /\ ref \in [Execs -> RefType]

StoreInit == /\ row = [e \in Execs |-> NoRow("new")]
             /\ ref = [e \in Execs |-> "none"]

Present(e)  == row[e].status \notin {"new", "deleted"}
IsActive(e) == row[e].status \in Active

(* get_execution(id) or the caller's own object.                           *)
Current(e, o) == IF Present(e) THEN row[e] ELSE o

-----------------------------------------------------------------------------
(* create_execution(enqueue=True).                                         *)
CreateRow(e) ==
  /\ row[e].status = "new"
  /\ row' = [row EXCEPT ![e] = [NoRow("queued") EXCEPT !.ver = 1]]
  /\ ref' = [ref EXCEPT ![e] = "queued"]

(* The whole row of object o, its version moved on; a terminal one takes   *)
(* its queue reference with it.                                            *)
WriteRowVariant(e, o) ==
  /\ row' = [row EXCEPT ![e] = o]
  /\ ref' = IF o.status \in Terminal THEN [ref EXCEPT ![e] = "none"] ELSE ref

WriteRow(e, o) ==
  /\ row' = [row EXCEPT ![e] = [o EXCEPT !.ver = row[e].ver + 1]]
  /\ ref' = IF o.status \in Terminal THEN [ref EXCEPT ![e] = "none"] ELSE ref

(* WHERE of update_active_execution: not finished, and still the run that  *)
(* the object was claimed for.                                             *)
StillActiveOverwriteVariant(e, o) == Present(e) /\ o.started \in {0, row[e].started}
StillActiveUnfencedVariant(e, o) == IsActive(e)
StillActive(e, o) == IsActive(e) /\ o.started \in {0, row[e].started}

(* WHERE of update_execution_if_unchanged.                                 *)
Unchanged(e, ver) == Present(e) /\ row[e].ver = ver

(* WHERE of requeue_execution.                                             *)
RequeueableVariant(e, status, ver) == Present(e)
Requeueable(e, status, ver) == row[e].status = status /\ Unchanged(e, ver)

(* What _requeue_execution makes of an object before it is written.        *)
Requeued(o, keepSession) ==
  [o EXCEPT !.status = "queued", !.started = 0,
            !.sess = IF keepSession THEN @ ELSE 0]

(* requeue_execution: the row and a queued reference, reused or inserted.  *)
RequeueRow(e, o) ==
  /\ row' = [row EXCEPT ![e] = [o EXCEPT !.ver = row[e].ver + 1]]
  /\ ref' = [ref EXCEPT ![e] = "queued"]

(* cancel_active_execution: the status columns only.                       *)
CancelRow(e) ==
  /\ row' = [row EXCEPT ![e].status = "cancelled", ![e].ver = @ + 1]
  /\ ref' = [ref EXCEPT ![e] = "none"]

(* expire_queued_execution.                                                *)
ExpireRow(e) ==
  /\ row[e].status = "queued"
  /\ row' = [row EXCEPT ![e].status = "cancelled", ![e].ver = @ + 1]
  /\ ref' = IF ref[e] = "queued" THEN [ref EXCEPT ![e] = "none"] ELSE ref

(* start_execution_session: COALESCE keeps a start time that is there.     *)
StartRow(e, sess, started) ==
  /\ row' = [row EXCEPT ![e].status = "running", ![e].sess = sess,
                        ![e].ver = @ + 1,
                        ![e].started = IF @ = 0 THEN started ELSE @]
  /\ UNCHANGED ref

(* claim_next_queue_execution: what its SELECT finds, and the two UPDATEs. *)
Claimable(e) == ref[e] = "queued" /\ row[e].status = "queued"

ClaimRow(e, started) ==
  /\ row' = [row EXCEPT ![e].status = "running", ![e].ver = @ + 1,
                        ![e].started = IF @ = 0 THEN started ELSE @]
  /\ ref' = [ref EXCEPT ![e] = "running"]

(* finish_queue_ref; expected = 0 is the call without expected_started_at. *)
FinishRefRow(e, expected) ==
  /\ ref' = IF expected = 0 \/ (Present(e) /\ row[e].started = expected)
            THEN [ref EXCEPT ![e] = "none"] ELSE ref
  /\ UNCHANGED row

(* mark_execution_viewed moves the version on, and no column kept here.    *)
ViewRow(e) ==
  /\ Present(e)
  /\ row' = [row EXCEPT ![e].ver = @ + 1]
  /\ UNCHANGED ref

(* delete_execution; delete_scheduler deletes the rows of its executions.  *)
(* The references go with the rows (ON DELETE CASCADE).                    *)
DeleteRows(S) ==
  /\ row' = [e \in Execs |-> IF e \in S THEN NoRow("deleted") ELSE row[e]]
  /\ ref' = [e \in Execs |-> IF e \in S THEN "none" ELSE ref[e]]

(* requeue_running_refs.                                                   *)
RequeueRunningRefs ==
  /\ ref' = [e \in Execs |-> IF ref[e] = "running" THEN "queued" ELSE ref[e]]
  /\ UNCHANGED row

(* list_orphaned_queued_executions.                                        *)
OrphanedQueued(e) == row[e].status = "queued" /\ ref[e] = "none"

(* list_retryable_failed_executions, once retry_after has passed.          *)
Retryable(e) == row[e].status = "failed" /\ row[e].due /\ row[e].count < MaxRetries
=============================================================================
