------------------------- MODULE ExecutionLifecycle -------------------------
(***************************************************************************)
(* What a person is promised about an execution, without the queue, the    *)
(* store, the dispatchers or the process they live in: the statuses its    *)
(* record goes through, and that work is started over only when nothing    *)
(* is in doubt about what it did already (flocks/task/outcome.py), or when *)
(* a person says so.                                                       *)
(***************************************************************************)
CONSTANT Execs

VARIABLES status,   \* of the record; "new" before it, "deleted" after it
          doubt     \* an attempt started something nobody confirmed since

vars == <<status, doubt>>

Init == /\ status = [e \in Execs |-> "new"]
        /\ doubt = [e \in Execs |-> FALSE]

Become(e, s) == status' = [status EXCEPT ![e] = s] /\ UNCHANGED doubt

Submit(e) == status[e] = "new" /\ Become(e, "queued")

Begin(e) == status[e] = "queued" /\ Become(e, "running")

(* Work does something outside, perhaps after its record was finished.     *)
Effect(e) ==
  /\ status[e] \notin {"new", "queued"}
  /\ doubt' = [doubt EXCEPT ![e] = TRUE]
  /\ UNCHANGED status

End(e) ==
  \/ status[e] = "running" /\ \E s \in {"completed", "failed"} : Become(e, s)
  \/ status[e] \in {"queued", "running"} /\ Become(e, "cancelled")

(* By itself: an interrupted run, or an automatic retry.                   *)
StartOver(e) ==
  /\ status[e] \in {"running", "failed"} /\ ~doubt[e]
  /\ Become(e, "queued")

(* Because a person asked for it, after checking what it did.              *)
SendAgain(e) ==
  /\ status[e] = "failed"
  /\ status' = [status EXCEPT ![e] = "queued"]
  /\ doubt' = [doubt EXCEPT ![e] = FALSE]

Remove(S) ==
  /\ \A e \in S : status[e] # "new"
  /\ status' = [e \in Execs |-> IF e \in S THEN "deleted" ELSE status[e]]
  /\ UNCHANGED doubt

Next ==
  \/ \E e \in Execs : Submit(e) \/ Begin(e) \/ Effect(e) \/ End(e) \/ StartOver(e) \/ SendAgain(e)
  \/ \E S \in SUBSET Execs : Remove(S)

Spec == Init /\ [][Next]_vars
=============================================================================
