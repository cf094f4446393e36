----------------------------- MODULE TaskQueue -----------------------------
(***************************************************************************)
(* The in-memory side of the execution queue (flocks/task/queue.py).       *)
(* slot[e] is 0 when e is not in _running_ids, and otherwise the start     *)
(* time _running_started_at keeps for it.                                  *)
(***************************************************************************)
EXTENDS TaskStore, FiniteSets

CONSTANT MaxConcurrent   \* TaskQueue.max_concurrent

ASSUME MaxConcurrentAssumption == MaxConcurrent \in Nat \ {0}

VARIABLES slot, paused

queueVars == <<slot, paused>>

QueueTypeOK == slot \in [Execs -> Nat] /\ paused \in BOOLEAN

QueueInit == slot = [e \in Execs |-> 0] /\ paused = FALSE

Occupied == {e \in Execs : slot[e] # 0}

(* The conditions of dequeue under its lock, for the execution it claims.  *)
(* Priorities and FIFO order are left open: any claimable one may be next. *)
MayDequeueVariant(e) ==
  /\ ~paused
  /\ Cardinality(Occupied) <= MaxConcurrent
  /\ slot[e] = 0
  /\ Claimable(e)

MayDequeue(e) ==
  /\ ~paused
  /\ Cardinality(Occupied) < MaxConcurrent
  /\ slot[e] = 0
  /\ Claimable(e)

(* mark_finished; expected = 0 is the call without expected_started_at.    *)
MarkFinishedVariant(e, expected) ==
  slot' = IF expected # 0 /\ slot[e] \in {0, expected}
          THEN slot ELSE [slot EXCEPT ![e] = 0]

MarkFinished(e, expected) ==
  slot' = IF expected # 0 /\ slot[e] \notin {0, expected}
          THEN slot ELSE [slot EXCEPT ![e] = 0]
=============================================================================
