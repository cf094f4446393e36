------------------------- MODULE TaskCenter_proofs --------------------------
(***************************************************************************)
(* What the owner of an execution may have started is never forgotten, and *)
(* what follows from that and from its being the only one: one runner at a *)
(* time, cancels that reach the work, no blind rerun, that the task center *)
(* implements ExecutionLifecycle, and that automatic retries are bounded.  *)
(*                                                                         *)
(* The argument: an execution is unsafe while a run of it may have started *)
(* an effect nobody confirmed.  Only its owner makes it so, and from then  *)
(* on the row and the process hold the evidence (EvidenceKept) run_outcome *)
(* judges by; so whatever comes to queue it again (SafeInQueue,            *)
(* SafeToQueue) finds it, or holds an object that is out of date and       *)
(* writes nothing.  The owner also is the one run that may have failed     *)
(* uncounted, from which the bound on retries follows.                     *)
(***************************************************************************)
EXTENDS TaskOwners_proofs, FiniteSetTheorems

(* While an execution is unsafe, run_outcome says so.                      *)
LEMMA DoubtIsSeen ==
  ASSUME TypeOK, DoubtIsKnown, NEW e \in Execs, row[e].status \in {"running", "failed"}, Unsafe(e)
  PROVE  ~SafeToRetry(e, row[e])
<1>1. PICK r \in Runs : run[r].exec = e /\ Exposed(r) /\ r > acks[e]
  BY DEF Unsafe
<1>2. EvidenceKept(r) /\ r # 0
  BY DEF DoubtIsKnown, Runs
<1> QED
  BY <1>1, <1>2 DEF EvidenceKept, SafeToRetry, Exposed, IsWorkflow

(* An execution whose owner has started nothing is safe.                   *)
LEMMA OwnerUnexposed ==
  ASSUME TypeOK, OwnersInStep, DoubtIsKnown, NEW r \in Runs, Owns(r), ~Exposed(r),
         row[run[r].exec].status \in {"running", "failed"}
  PROVE  ~Unsafe(run[r].exec)
<1>1. row[run[r].exec].started = r
  BY DEF OwnersInStep, OwnerHasRow, CalledOff
<1> QED
  BY <1>1 DEF Unsafe, DoubtIsKnown, EvidenceKept

(* A run whose execution does not exist yet has not begun.                 *)
LEMMA UnusedUnexposed ==
  ASSUME TypeOK, FencesHold, NEW r \in Runs, run[r].pc \in {"unused", "scheduler", "start", "register"}
  PROVE  ~Exposed(r)
BY DEF FencesHold, Fenced, Exposed

-----------------------------------------------------------------------------
(* A step that starts nothing, and what it may then do to the row and to   *)
(* the note that a workflow was started.                                   *)
NoNewDoubt == /\ acks' = acks
              /\ \A x \in Runs : Exposed(x)' => /\ Exposed(x) /\ run'[x].exec = run[x].exec
                                                /\ run'[x].sess = run[x].sess

(* A step takes no evidence from an execution that is unsafe, and queues   *)
(* none.                                                                   *)
DoubtFate(e) ==
  /\ row'[e].status \in {"running", "failed"} =>
       \/ ~Unsafe(e)
       \/ /\ row[e].status \in {"running", "failed"}
          /\ row'[e].started = row[e].started /\ row'[e].sess = row[e].sess
          /\ wfStarted'[e] = "no" => wfStarted[e] = "no"
  /\ row'[e].status = "queued" \/ (row'[e].status = "failed" /\ row'[e].due) => ~Unsafe(e)

(* Without a new doubt nothing becomes unsafe.                             *)
LEMMA NoNewUnsafe ==
  ASSUME NoNewDoubt, NEW e \in Execs, Unsafe(e)'
  PROVE  Unsafe(e)
BY DEF NoNewDoubt, Unsafe

(* Then the work in doubt stays known.                                     *)
LEMMA DoubtStays ==
  ASSUME TypeOK, DoubtIsKnown, NoNewDoubt, \A e \in Execs : DoubtFate(e), \A x \in Runs : SafeToQueue(x)'
  PROVE  DoubtIsKnown'
<1>1. \A e \in Execs : SafeInQueue(e)'
  BY NoNewUnsafe DEF SafeInQueue, DoubtFate
<1>2. ASSUME NEW r \in Runs
      PROVE  EvidenceKept(r)'
  <2> DEFINE e == run[r].exec
  <2> SUFFICES ASSUME row'[run'[r].exec].status \in {"running", "failed"}, Exposed(r)', r > acks'[run'[r].exec]
               PROVE  /\ row'[run'[r].exec].started = r
                      /\ run'[r].exec \in Workflow => wfStarted'[run'[r].exec] # "no"
                      /\ run'[r].exec \notin Workflow =>
                           run'[r].sess # 0 /\ row'[run'[r].exec].sess = run'[r].sess
    BY DEF EvidenceKept
  <2>1. /\ run'[r].exec = e /\ run'[r].sess = run[r].sess /\ Exposed(r) /\ r > acks[e] /\ e \in Execs
    BY ViewTypes DEF NoNewDoubt, TypeOK
  <2>2. Unsafe(e)
    BY <2>1 DEF Unsafe
  <2>3. /\ row[e].status \in {"running", "failed"}
        /\ row'[e].started = row[e].started /\ row'[e].sess = row[e].sess
        /\ wfStarted'[e] = "no" => wfStarted[e] = "no"
    BY <2>1, <2>2 DEF DoubtFate
  <2> QED
    BY <2>1, <2>3 DEF DoubtIsKnown, EvidenceKept
<1> QED
  BY <1>1, <1>2 DEF DoubtIsKnown

(* A row that a step keeps.                                                *)
LEMMA KeptFate ==
  ASSUME TypeOK, DoubtIsKnown, NEW e \in Execs, Kept(e), wfStarted'[e] = "no" => wfStarted[e] = "no"
  PROVE  DoubtFate(e)
BY DEF DoubtIsKnown, SafeInQueue, Kept, DoubtFate

(* A run that keeps its object, or is not about to queue anything.         *)
LEMMA IdleSafe ==
  ASSUME TypeOK, TypeOK', MovesOn, NoNewDoubt, NEW x \in Runs, RunCurrent(x), SafeToQueue(x), Idle(x)
  PROVE  SafeToQueue(x)'
<1> DEFINE e == run[x].exec
<1>0. /\ e \in Execs /\ run[x].obj \in RowType /\ run'[x].exec = e /\ run'[x].pc = run[x].pc
      /\ run'[x].obj = run[x].obj
  BY ViewTypes DEF TypeOK, Idle
<1>1. CASE run[x].pc \notin {"later", "intrequeue"}
  BY <1>0, <1>1 DEF SafeToQueue
<1>2. CASE run[x].pc \in {"later", "intrequeue"}
  <2>1. row[e].status # "new" /\ (row[e].status # "deleted" => run[x].obj.ver <= row[e].ver)
    BY <1>2 DEF RunCurrent
  <2>2. row'[e].status # "deleted" => /\ row[e].status # "deleted" /\ row'[e].ver >= row[e].ver
                                      /\ row'[e].ver = row[e].ver => row'[e] = row[e]
    BY <1>0, <2>1, RowsAge DEF TypeOK
  <2>3. run[x].obj.ver \in Nat /\ row[e].ver \in Nat /\ row'[e].ver \in Nat
    BY <1>0 DEF RowType, TypeOK, StoreTypeOK
  <2>4. Unsafe(e)' => Unsafe(e)
    BY <1>0, NoNewUnsafe
  <2>5. row'[e].status # "deleted" /\ run[x].obj.ver = row'[e].ver => row'[e] = row[e] /\ row[e].status # "deleted"
    BY <2>1, <2>2, <2>3
  <2> QED
    BY <1>0, <2>1, <2>4, <2>5 DEF SafeToQueue, Present
<1> QED
  BY <1>1, <1>2

(* A run that is not about to queue its execution has nothing to show.     *)
LEMMA NotQueueing ==
  ASSUME NEW x \in Runs, run'[x].pc \notin {"later", "intrequeue"}
  PROVE  SafeToQueue(x)'
BY DEF SafeToQueue
-----------------------------------------------------------------------------
(* The two steps of a run that start something.                            *)
Begins(r) == StartEffect(r) \/ (Open(r) /\ ~run[r].stop)

(* Nothing a dispatcher does adds a doubt, but to begin the work.          *)
LEMMA RunNoNewDoubt ==
  ASSUME TypeOK, FencesHold, NEW r \in Runs, RunStep(r), ~Begins(r), Alone(r), acks' = acks
  PROVE  NoNewDoubt
<1> DEFINE e == run[r].exec
<1>0. /\ run[r] \in RunType /\ run \in [Runs -> RunType] /\ Fenced(r)
  BY DEF TypeOK, RunsTypeOK, FencesHold
<1>1. \A x \in Runs \ {r} : Exposed(x)' => /\ Exposed(x) /\ run'[x].exec = run[x].exec
                                           /\ run'[x].sess = run[x].sess
  BY DEF Alone, Idle, Exposed, IsWorkflow
<1>2. run'[r].exec = e
  BY RunOwnsLess
<1> DEFINE Same == /\ run'[r].eff = run[r].eff /\ run'[r].sess = run[r].sess
                   /\ run'[r].work = "going" => run[r].work = "going"
<1>3. CASE Register(r)
  <2>1. run[r].pc = "register" /\ run'[r].work = "held" /\ run'[r].eff = run[r].eff
    BY <1>0, <1>3 DEF Register, RunType
  <2> QED
    BY <1>0, <1>1, <2>1 DEF NoNewDoubt, Exposed, Fenced
<1>4. CASE GuardCancel(r)
  <2> DEFINE s == Signalled(Reached(e, run[r].obj.sess))
  <2>1. s \in [Runs -> RunType]
    BY SignalledType DEF TypeOK
  <2>2. s[r].eff = run[r].eff /\ s[r].sess = run[r].sess /\ s[r].work = run[r].work
    BY <1>0 DEF Signalled
  <2>3. run' = [s EXCEPT ![r].pc = "fail"]
    BY <1>4 DEF GuardCancel
  <2> HIDE DEF s
  <2>4. Same
    BY <2>1, <2>2, <2>3 DEF RunType
  <2> QED
    BY <1>1, <1>2, <2>4 DEF NoNewDoubt, Exposed, IsWorkflow
<1>5. CASE InterruptRequeue(r)
  <2> DEFINE c == Current(e, Requeued(run[r].obj, FALSE))
             y == IF c.status = "queued" THEN "requeued" ELSE run[r].exit
             z == row'[e]
  <2>1. \/ run' = [run EXCEPT ![r].pc = "release", ![r].exit = "requeued", ![r].obj = z]
        \/ run' = [run EXCEPT ![r].pc = "release", ![r].obj = c, ![r].exit = y]
    BY <1>5 DEF InterruptRequeue
  <2> HIDE DEF c, y, z
  <2>2. Same
    BY <1>0, <2>1 DEF RunType
  <2> QED
    BY <1>1, <1>2, <2>2 DEF NoNewDoubt, Exposed, IsWorkflow
<1>6. CASE ReadScheduler(r) \/ DispatchFails(r) \/ StartSession(r)
  BY <1>0, <1>1, <1>2, <1>6 DEF ReadScheduler, DispatchFails, StartSession, NoNewDoubt, Exposed, IsWorkflow, RunType
<1>7. CASE Check(r) \/ Open(r) \/ WorkEnds(r)
  <2>1. Same
    BY <1>0, <1>7 DEF Check, Open, WorkEnds, EndWork, Interrupted, Begins, RunType
  <2> QED
    BY <1>1, <1>2, <2>1 DEF NoNewDoubt, Exposed, IsWorkflow
<1>8. CASE \/ AbsoluteTimeout(r) \/ GuardTimeout(r) \/ LateWorkEnds(r)
           \/ Save(r) \/ Reread(r) \/ FailWrite(r) \/ InterruptRead(r) \/ InterruptJudge(r)
           \/ Release(r) \/ FinishRef(r) \/ Judge(r) \/ Settle(r)
  <2>1. Same
    BY <1>0, <1>8 DEF AbsoluteTimeout, GuardTimeout, LateWorkEnds, Save, Reread, FailWrite, InterruptRead,
                      InterruptJudge, Release, FinishRef, Judge, Settle, RunType
  <2> QED
    BY <1>1, <1>2, <2>1 DEF NoNewDoubt, Exposed, IsWorkflow
<1>9. CASE Fail(r)
  <2>1. Same
    BY <1>0, <1>9 DEF Fail, RunType
  <2> QED
    BY <1>1, <1>2, <2>1 DEF NoNewDoubt, Exposed, IsWorkflow
<1> QED
  BY <1>3, <1>4, <1>5, <1>6, <1>7, <1>8, <1>9 DEF RunStep, Begins

(* It leaves the evidence, and queues only what is safe.                   *)
LEMMA RunFates ==
  ASSUME TypeOK, ViewsCurrent, FencesHold, OwnersInStep, DoubtIsKnown, NEW r \in Runs,
         RunStep(r) \/ (\E a \in BOOLEAN : SaveFails(r, a)), ~Begins(r)
  PROVE  \A x \in Execs : DoubtFate(x)
<1> DEFINE e == run[r].exec
           o == run[r].obj
<1> USE DEF storeVars
<1>0. /\ run[r] \in RunType /\ e \in Execs /\ o \in RowType /\ RunCurrent(r) /\ row \in [Execs -> RowType]
      /\ StoreTypeOK /\ r \in Nat /\ r # 0 /\ Fenced(r) /\ row[e] \in RowType
      /\ wfStarted \in [Execs -> {"none", "no", "yes"}]
      /\ OwnerHasRow(r) /\ WorkReached(r) /\ ObjectAgrees(r) /\ \A x \in Execs : MarksInStep(x)
  BY ViewTypes DEF TypeOK, RunsTypeOK, ViewsCurrent, StoreTypeOK, FencesHold, Runs, OwnersInStep
<1>1. \A x \in Execs \ {e} : wfStarted'[x] = "no" => wfStarted[x] = "no"
  BY <1>0 DEF RunStep, SaveFails, ReadScheduler, DispatchFails, StartSession, Register, Check, Open, StartEffect,
         WorkEnds, EndWork, Interrupted, AbsoluteTimeout, GuardTimeout, GuardCancel, LateWorkEnds, Save, Reread,
         Fail, FailWrite, InterruptRead, InterruptJudge, InterruptRequeue, Release, FinishRef, Judge,
         Settle, Forgotten
<1>2. (wfStarted'[e] = "no" => wfStarted[e] = "no") \/ ReadScheduler(r)
  BY <1>0 DEF RunStep, SaveFails, DispatchFails, StartSession, Register, Check, Open, StartEffect,
         WorkEnds, EndWork, Interrupted, AbsoluteTimeout, GuardTimeout, GuardCancel, LateWorkEnds, Save, Reread,
         Fail, FailWrite, InterruptRead, InterruptJudge, InterruptRequeue, Release, FinishRef, Judge,
         Settle, Forgotten
<1>3. ASSUME NEW x \in Execs, row'[x] = row[x], x # e \/ ~ReadScheduler(r)
      PROVE  DoubtFate(x)
  BY <1>1, <1>2, <1>3, KeptFate DEF Kept
<1>4. ASSUME NEW n \in RowType, WriteRow(e, n) \/ RequeueRow(e, n), ~ReadScheduler(r),
             n.status \in {"running", "failed"} =>
               \/ ~Unsafe(e)
               \/ row[e].status \in {"running", "failed"} /\ n.started = row[e].started /\ n.sess = row[e].sess,
             n.status = "queued" \/ (n.status = "failed" /\ n.due) => ~Unsafe(e)
      PROVE  \A x \in Execs : DoubtFate(x)
  BY <1>0, <1>2, <1>3, <1>4, WriteFields, RequeueFields DEF DoubtFate
<1>5. CASE ReadScheduler(r)
  <2>1. ~sched => ~Present(e)
    BY <1>0 DEF ViewsCurrent, StartCurrent
  <2>2. row' = row
    BY <1>5, <2>1 DEF ReadScheduler
  <2>3. row[e].status \in {"running", "failed"} => ~Unsafe(e)
    BY <1>0, <1>5, OwnerUnexposed, UnusedUnexposed DEF ReadScheduler, Owns, OwnPC, PC
  <2>4. DoubtFate(e)
    BY <2>2, <2>3, <1>0 DEF DoubtFate, DoubtIsKnown, SafeInQueue
  <2> QED
    BY <1>3, <2>2, <2>4
<1>6. CASE StartSession(r)
  <2>1. UNCHANGED row \/ (IsActive(e) /\ StartRow(e, o.sess, o.started))
    BY <1>6 DEF StartSession
  <2>2. Owns(r) /\ ~Exposed(r) /\ ~ReadScheduler(r)
    BY <1>6, UnusedUnexposed DEF StartSession, Owns, OwnPC, PC, ReadScheduler
  <2>3. CASE IsActive(e) /\ StartRow(e, o.sess, o.started)
    <3>1. o.sess \in Nat /\ o.started \in Nat
      BY <1>0 DEF RowType
    <3>2. /\ \A x \in Execs \ {e} : row'[x] = row[x]
          /\ row'[e].status = "running"
      BY <1>0, <2>3, <3>1, StartFields
    <3>3. row[e].status = "running"
      BY <1>0, <2>2, <2>3 DEF OwnerHasRow, CalledOff, IsActive, Active
    <3>4. ~Unsafe(e)
      BY <2>2, <3>3, OwnerUnexposed
    <3> QED
      BY <1>3, <2>2, <3>2, <3>4 DEF DoubtFate
  <2> QED
    BY <1>3, <2>1, <2>2, <2>3
<1>7. CASE Save(r) \/ \E a \in BOOLEAN : SaveFails(r, a)
  <2>1. UNCHANGED row \/ (WriteRow(e, o) /\ StillActive(e, o))
    BY <1>7 DEF Save, SaveFails
  <2>2. run[r].pc = "save" /\ ~ReadScheduler(r)
    BY <1>7 DEF Save, SaveFails, ReadScheduler
  <2>3. /\ StillActive(e, o) => row[e].status = "running" /\ row[e].started = o.started /\ row[e].sess = o.sess
        /\ ~o.due /\ o.status # "queued"
    BY <1>0, <2>2 DEF StillActive, IsActive, Active, Owns, OwnPC, PC, OwnerHasRow, CalledOff, ObjectAgrees,
                      FirstObject, InDispatch, Clean, Fenced, Present, RunCurrent, Terminal
  <2> QED
    BY <1>0, <1>3, <1>4, <2>1, <2>2, <2>3
<1>8. CASE FailWrite(r)
  <2>1. UNCHANGED row \/ (WriteRow(e, o) /\ StillActive(e, o))
    BY <1>8 DEF FailWrite
  <2>2. run[r].pc = "failwrite" /\ o.status = "failed" /\ Owns(r) /\ ~ReadScheduler(r)
    BY <1>0, <1>8 DEF FailWrite, RunCurrent, Owns, OwnPC, PC, ReadScheduler
  <2>3. StillActive(e, o) => /\ row[e].status = "running" /\ row[e].started = o.started /\ row[e].sess = o.sess
                             /\ ~o.due
    BY <1>0, <2>2 DEF StillActive, IsActive, OwnerHasRow, CalledOff, ObjectAgrees, Active
  <2> QED
    BY <1>0, <1>3, <1>4, <2>1, <2>2, <2>3
<1>9. CASE InterruptRequeue(r)
  <2>1. UNCHANGED row \/ (RequeueRow(e, Requeued(o, FALSE)) /\ Requeueable(e, o.status, o.ver))
    BY <1>9 DEF InterruptRequeue
  <2>2. run[r].pc = "intrequeue" /\ Owns(r) /\ o.status \notin Terminal /\ ~ReadScheduler(r)
    BY <1>0, <1>9 DEF InterruptRequeue, RunCurrent, Owns, OwnPC, PC, ReadScheduler
  <2>3. Requeueable(e, o.status, o.ver) => ~Unsafe(e)
    BY <1>0, <2>2 DEF Requeueable, Unchanged, Present, RowType, Status, OwnerHasRow, CalledOff,
                      DoubtIsKnown, SafeToQueue, SafeInQueue, Terminal
  <2> QED
    BY <1>0, <1>3, <1>4, <2>1, <2>2, <2>3, RequeuedFields
<1>10. CASE Settle(r)
  <2> DEFINE n == IF run[r].pc = "hold" THEN Held(o) ELSE [o EXCEPT !.count = @ + 1, !.due = TRUE]
  <2>1. UNCHANGED row \/ (WriteRow(e, n) /\ Unchanged(e, o.ver))
    BY <1>10 DEF Settle
  <2>2. o.status = "failed" /\ Settling(run[r]) /\ run[r].pc \in {"hold", "later"} /\ ~ReadScheduler(r)
    BY <1>0, <1>10 DEF Settle, RunCurrent, Settling, ReadScheduler
  <2>3. Unchanged(e, o.ver) => /\ row[e] = o
                               /\ run[r].pc = "later" => ~Unsafe(e)
    BY <1>0, <2>2 DEF Unchanged, ObjectAgrees, DoubtIsKnown, SafeToQueue
  <2>4. n \in RowType /\ n.status = "failed" /\ n.started = o.started /\ n.sess = o.sess
        /\ (run[r].pc = "hold" => ~n.due)
    <3>1. o.count + 1 \in Nat
      BY <1>0 DEF RowType
    <3> QED
      BY <1>0, <2>2, <3>1 DEF Held, RowType
  <2> HIDE DEF n
  <2> QED
    BY <1>0, <1>3, <1>4, <2>1, <2>2, <2>3, <2>4
<1>11. CASE UNCHANGED row /\ ~ReadScheduler(r)
  BY <1>3, <1>11
<1> QED
  BY <1>5, <1>6, <1>7, <1>8, <1>9, <1>10, <1>11
  DEF RunStep, DispatchFails, Register, Check, Open,
      StartEffect, WorkEnds, EndWork, Interrupted, AbsoluteTimeout, GuardTimeout, GuardCancel,
      LateWorkEnds, Reread, Fail, InterruptRead, InterruptJudge, Release, FinishRef, FinishRefRow, Judge
-----------------------------------------------------------------------------
(* What a run is about to queue again is safe: it was judged by the row    *)
(* that is still there.                                                    *)
LEMMA JudgedSafe ==
  ASSUME TypeOK, DoubtIsKnown, NoNewDoubt, row' = row, NEW r \in Runs, ObjectAgrees(r),
         run[r].pc = "intjudge" \/ Settling(run[r]),
         run'[r].exec = run[r].exec, run'[r].obj = run[r].obj,
         SafeToRetry(run[r].exec, run[r].obj),
         run'[r].pc = "later" => run[r].obj.status = "failed"
  PROVE  SafeToQueue(r)'
<1> DEFINE e == run[r].exec
<1>1. e \in Execs
  BY ViewTypes DEF TypeOK
<1>2. Present(e) /\ run[r].obj.ver = row[e].ver => run[r].obj = row[e]
  BY DEF ObjectAgrees
<1>3. Present(e) /\ run[r].obj.ver = row[e].ver /\ row[e].status \in {"running", "failed"} => ~Unsafe(e)'
  BY <1>1, <1>2, DoubtIsSeen, NoNewUnsafe
<1>4. e = run'[r].exec
  OBVIOUS
<1> QED
  BY <1>1, <1>2, <1>3 DEF SafeToQueue, Present

(* Where it is about to queue its execution, that is safe.                 *)
LEMMA RunSafe ==
  ASSUME TypeOK, TypeOK', ViewsCurrent, OwnersInStep, DoubtIsKnown, MovesOn, NoNewDoubt,
         NEW r \in Runs, RunStep(r), ~Begins(r)
  PROVE  SafeToQueue(r)'
<1>0. /\ run[r] \in RunType /\ run \in [Runs -> RunType] /\ RunCurrent(r) /\ ObjectAgrees(r)
  BY DEF TypeOK, RunsTypeOK, ViewsCurrent, OwnersInStep
<1>1. CASE Judge(r)
  <2>1. /\ run[r].pc = "judge" /\ run'[r].exec = run[r].exec /\ run'[r].obj = run[r].obj /\ row' = row
        /\ run'[r].pc = "later" => SafeToRetry(run[r].exec, run[r].obj)
        /\ run'[r].pc # "intrequeue"
    <3>1. PICK safe \in Outcomes(run[r].exec, run[r].obj) :
            run' = [run EXCEPT ![r].pc = IF ~safe THEN "hold"
                                ELSE IF run[r].obj.count < MaxRetries THEN "later" ELSE "over"]
      BY <1>1 DEF Judge
    <3>2. safe => SafeToRetry(run[r].exec, run[r].obj)
      BY DEF Outcomes
    <3> QED
      BY <1>0, <1>1, <3>1, <3>2 DEF Judge, storeVars, RunType
  <2>2. run[r].obj.status = "failed"
    BY <1>0, <2>1 DEF RunCurrent
  <2> QED
    BY <1>0, <2>1, <2>2, JudgedSafe, NotQueueing DEF Settling
<1>2. CASE InterruptJudge(r)
  <2>1. /\ run[r].pc = "intjudge" /\ run'[r].exec = run[r].exec /\ run'[r].obj = run[r].obj /\ row' = row
        /\ run'[r].pc = "intrequeue" => SafeToRetry(run[r].exec, run[r].obj)
        /\ run'[r].pc # "later"
    <3>1. PICK safe \in Outcomes(run[r].exec, run[r].obj) :
            run' = [run EXCEPT ![r].pc = IF safe THEN "intrequeue" ELSE "fail"]
      BY <1>2 DEF InterruptJudge
    <3>2. safe => SafeToRetry(run[r].exec, run[r].obj)
      BY DEF Outcomes
    <3> QED
      BY <1>0, <1>2, <3>1, <3>2 DEF InterruptJudge, storeVars, RunType
  <2> QED
    BY <1>0, <2>1, JudgedSafe, NotQueueing
<1>3. CASE LateWorkEnds(r)
  <2>1. /\ run'[r].exec = run[r].exec /\ run'[r].obj = run[r].obj /\ run'[r].pc = run[r].pc /\ row' = row
    BY <1>0, <1>3 DEF LateWorkEnds, storeVars, RunType
  <2>2. run[r].exec \in Execs /\ SafeToQueue(r)
    BY ViewTypes DEF TypeOK, DoubtIsKnown
  <2> QED
    BY <2>1, <2>2, NoNewUnsafe DEF SafeToQueue, Present
<1>4. CASE GuardCancel(r)
  <2> DEFINE s == Signalled(Reached(run[r].exec, run[r].obj.sess))
  <2>1. s \in [Runs -> RunType]
    BY SignalledType DEF TypeOK
  <2>2. run' = [s EXCEPT ![r].pc = "fail"]
    BY <1>4 DEF GuardCancel
  <2> HIDE DEF s
  <2> QED
    BY <2>1, <2>2, NotQueueing DEF RunType
<1>5. CASE InterruptRequeue(r)
  <2> DEFINE c == Current(run[r].exec, Requeued(run[r].obj, FALSE))
             y == IF c.status = "queued" THEN "requeued" ELSE run[r].exit
             z == row'[run[r].exec]
  <2>1. \/ run' = [run EXCEPT ![r].pc = "release", ![r].exit = "requeued", ![r].obj = z]
        \/ run' = [run EXCEPT ![r].pc = "release", ![r].obj = c, ![r].exit = y]
    BY <1>5 DEF InterruptRequeue
  <2> HIDE DEF c, y, z
  <2> QED
    BY <1>0, <2>1, NotQueueing DEF RunType
<1>6. CASE ReadScheduler(r) \/ DispatchFails(r) \/ StartSession(r) \/ Register(r) \/ Check(r) \/ Open(r) \/ WorkEnds(r)
  <2>1. run'[r].pc \notin {"later", "intrequeue"}
    BY <1>0, <1>6 DEF ReadScheduler, DispatchFails, StartSession, Register, Check, Open, WorkEnds, EndWork, Interrupted,
                      RunType
  <2> QED
    BY <2>1, NotQueueing
<1>7. CASE \/ AbsoluteTimeout(r) \/ GuardTimeout(r) \/ Save(r) \/ Reread(r) \/ FailWrite(r) \/ InterruptRead(r)
           \/ Release(r) \/ FinishRef(r) \/ Settle(r)
  <2>1. run'[r].pc \notin {"later", "intrequeue"}
    BY <1>0, <1>7 DEF AbsoluteTimeout, GuardTimeout, Save, Reread, FailWrite, InterruptRead, Release, FinishRef, Done,
                      Settle, RunType
  <2> QED
    BY <2>1, NotQueueing
<1>8. CASE Fail(r)
  <2>1. run'[r].pc \notin {"later", "intrequeue"}
    BY <1>0, <1>8 DEF Fail, RunType
  <2> QED
    BY <2>1, NotQueueing
<1> QED
  BY <1>1, <1>2, <1>3, <1>4, <1>5, <1>6, <1>7, <1>8 DEF RunStep, Begins

(* A step of one run that does all this keeps the work in doubt known.     *)
LEMMA ActorDoubts ==
  ASSUME TypeOK, TypeOK', ViewsCurrent, DoubtIsKnown, MovesOn, NoNewDoubt, NEW r \in Runs,
         Alone(r), SafeToQueue(r)', \A x \in Execs : DoubtFate(x)
  PROVE  DoubtIsKnown'
<1>1. ASSUME NEW x \in Runs \ {r}
      PROVE  SafeToQueue(x)'
  BY IdleSafe DEF Alone, ViewsCurrent, DoubtIsKnown
<1> QED
  BY <1>1, DoubtStays

(* So does one that moves no run.                                          *)
LEMMA IdleDoubts ==
  ASSUME TypeOK, TypeOK', ViewsCurrent, DoubtIsKnown, MovesOn, \A x \in Runs : Idle(x), acks' = acks,
         \A x \in Execs : DoubtFate(x)
  PROVE  DoubtIsKnown'
<1>1. NoNewDoubt
  BY DEF Idle, NoNewDoubt, Exposed, IsWorkflow
<1>2. \A x \in Runs : SafeToQueue(x)'
  BY <1>1, IdleSafe DEF ViewsCurrent, DoubtIsKnown
<1> QED
  BY <1>1, <1>2, DoubtStays

(* A run that begins owns its row, which names it.                         *)
LEMMA BeginningDoubts ==
  ASSUME TypeOK, ViewsCurrent, FencesHold, OwnersInStep, DoubtIsKnown, NEW r \in Runs,
         run[r].pc \in {"open", "work"}, Alone(r), row' = row, acks' = acks,
         run'[r].exec = run[r].exec, run'[r].sess = run[r].sess, run'[r].pc = "work",
         IsWorkflow(r) => wfStarted'[run[r].exec] # "no",
         \A x \in Execs : x # run[r].exec => wfStarted'[x] = wfStarted[x]
  PROVE  DoubtIsKnown'
<1> DEFINE e == run[r].exec
<1>0. /\ e \in Execs /\ Fenced(r) /\ OwnerHasRow(r) /\ ObjectAgrees(r) /\ Owns(r) /\ r \in Nat
      /\ \A x \in Runs : run[x].exec \in Execs
  BY ViewTypes DEF TypeOK, FencesHold, OwnersInStep, Owns, OwnPC, PC, Runs
<1>1. CalledOff(e) \/ (row[e].status = "running" /\ row[e].started = r)
  BY <1>0 DEF OwnerHasRow
<1>2. \A x \in Runs \ {r} : /\ run'[x].exec = run[x].exec /\ run'[x].pc = run[x].pc /\ run'[x].obj = run[x].obj
                            /\ run'[x].sess = run[x].sess /\ Exposed(x)' = Exposed(x)
  BY DEF Alone, Idle, Exposed, IsWorkflow
<1>3. \A x \in Execs \ {e} : Unsafe(x)' => Unsafe(x)
  BY <1>2 DEF Unsafe
<1>4. \A x \in Execs : SafeInQueue(x)'
  BY <1>1, <1>3 DEF SafeInQueue, DoubtIsKnown, CalledOff
<1>5. ASSUME NEW x \in Runs
      PROVE  SafeToQueue(x)'
  <2>1. CASE x = r
    BY <2>1, NotQueueing
  <2>2. CASE x # r /\ run[x].exec # e
    BY <1>0, <1>2, <1>3, <2>2 DEF SafeToQueue, DoubtIsKnown, Present
  <2>3. CASE x # r /\ run[x].exec = e
    <3>1. run[x].pc # "intrequeue"
      BY <1>0, <2>3 DEF OwnersInStep, OneOwner, Keeps, Owns, OwnPC, PC
    <3>2. run[x].pc = "later" /\ Present(e) => run[x].obj.ver # row[e].ver
      BY <1>1, <2>3 DEF OwnersInStep, ObjectAgrees, Settling, ViewsCurrent, RunCurrent, CalledOff
    <3> QED
      BY <1>2, <2>3, <3>1, <3>2 DEF SafeToQueue, Present
  <2> QED
    BY <2>1, <2>2, <2>3
<1>6. EvidenceKept(r)'
  <2>1. ~IsWorkflow(r) => run[r].sess # 0
    BY <1>0 DEF Fenced, InDispatch, IsWorkflow
  <2>2. row[e].status = "running" => row[e].sess = run[r].sess
    BY <1>0 DEF Fenced, ObjectAgrees, Present
  <2> QED
    BY <1>1, <2>1, <2>2 DEF EvidenceKept, CalledOff, IsWorkflow
<1>7. ASSUME NEW x \in Runs \ {r}
      PROVE  EvidenceKept(x)'
  BY <1>0, <1>2, <1>7 DEF EvidenceKept, DoubtIsKnown, IsWorkflow
<1> QED
  BY <1>4, <1>5, <1>6, <1>7 DEF DoubtIsKnown
(* So does every step of a dispatcher, with the one that begins the work.  *)
LEMMA RunStepDoubts ==
  ASSUME TypeOK, TypeOK', ViewsCurrent, FencesHold, OwnersInStep, DoubtIsKnown, MovesOn, NEW r \in Runs,
         RunStep(r), UNCHANGED <<mgr, claims, acks>>
  PROVE  DoubtIsKnown'
<1>0. /\ run[r] \in RunType /\ run \in [Runs -> RunType] /\ Fenced(r)
      /\ run[r].exec \in Execs /\ wfStarted \in [Execs -> {"none", "no", "yes"}]
  BY ViewTypes DEF TypeOK, RunsTypeOK, FencesHold
<1>a. Alone(r)
  BY RunStepFenced
<1>1. CASE ~Begins(r)
  <2>1. NoNewDoubt
    BY <1>1, <1>a, RunNoNewDoubt
  <2> QED
    BY <1>1, <1>a, <2>1, RunSafe, RunFates, ActorDoubts
<1>2. CASE Open(r) /\ ~run[r].stop
  <2>1. /\ run[r].pc = "open" /\ row' = row
        /\ run'[r].exec = run[r].exec /\ run'[r].sess = run[r].sess /\ run'[r].pc = "work"
        /\ IsWorkflow(r) => wfStarted'[run[r].exec] = "yes"
        /\ \A x \in Execs : x # run[r].exec => wfStarted'[x] = wfStarted[x]
    BY <1>0, <1>2 DEF Open, storeVars, RunType, IsWorkflow
  <2> QED
    BY <1>a, <2>1, BeginningDoubts
<1>3. CASE StartEffect(r)
  <2>1. /\ row' = row /\ wfStarted' = wfStarted
        /\ run'[r].exec = run[r].exec /\ run'[r].sess = run[r].sess /\ run'[r].pc = run[r].pc
        /\ run'[r].obj = run[r].obj /\ run'[r].work = run[r].work /\ run'[r].exit = run[r].exit
        /\ run[r].work = "going"
    BY <1>0, <1>3 DEF StartEffect, storeVars, RunType
  <2>2. CASE IsWorkflow(r)
    <3>1. \A x \in Runs : /\ run'[x].exec = run[x].exec /\ run'[x].pc = run[x].pc /\ run'[x].obj = run[x].obj
                          /\ run'[x].sess = run[x].sess /\ Exposed(x)' = Exposed(x)
      BY <1>a, <2>1, <2>2 DEF Alone, Idle, Exposed, IsWorkflow
    <3>2. \A x \in Execs : Unsafe(x)' = Unsafe(x)
      BY <3>1 DEF Unsafe
    <3> QED
      <4>1. \A x \in Execs : SafeInQueue(x)'
        BY <2>1, <3>2 DEF DoubtIsKnown, SafeInQueue
      <4>2. ASSUME NEW x \in Runs
            PROVE  run[x].exec \in Execs /\ run'[x].exec = run[x].exec /\ SafeToQueue(x) /\ EvidenceKept(x)
        BY <3>1, ViewTypes DEF TypeOK, DoubtIsKnown
      <4>3. \A x \in Runs : SafeToQueue(x)'
        BY <2>1, <3>1, <3>2, <4>2 DEF SafeToQueue, Present
      <4>4. \A x \in Runs : EvidenceKept(x)'
        BY <2>1, <3>1, <4>2 DEF EvidenceKept
      <4> QED
        BY <4>1, <4>3, <4>4 DEF DoubtIsKnown
  <2>3. CASE ~IsWorkflow(r)
    <3>1. run[r].pc = "work"
      BY <1>0, <1>3, <2>1, <2>3 DEF StartEffect, Fenced
    <3> QED
      BY <1>a, <2>1, <2>3, <3>1, BeginningDoubts
  <2> QED
    BY <2>2, <2>3
<1> QED
  BY <1>1, <1>2, <1>3 DEF Begins

(* So does a write of a result that fails.                                 *)
LEMMA FailSaveDoubts ==
  ASSUME TypeOK, TypeOK', ViewsCurrent, FencesHold, OwnersInStep, DoubtIsKnown, MovesOn, NEW r \in Runs,
         NEW a \in BOOLEAN, SaveFails(r, a), acks' = acks
  PROVE  DoubtIsKnown'
<1>0. run[r] \in RunType /\ run[r].pc = "save"
  BY DEF TypeOK, RunsTypeOK, SaveFails
<1>1. \A x \in Runs \ {r} : run'[x] = run[x]
  BY <1>0 DEF SaveFails, NoLongerPending, OwnersInStep, OneOwner, Keeps, Owns, OwnPC, PC
<1>2. /\ run'[r].pc = "pending" /\ run'[r].exec = run[r].exec /\ run'[r].sess = run[r].sess
      /\ run'[r].work = run[r].work /\ run'[r].eff = run[r].eff
  BY <1>0 DEF SaveFails, RunType
<1>3. Alone(r) /\ NoNewDoubt
  BY <1>1, <1>2 DEF Alone, Idle, NoNewDoubt, Exposed, IsWorkflow
<1>4. ~Begins(r)
  <2>1. ASSUME StartEffect(r)
        PROVE  FALSE
    BY <1>0, <1>2, <2>1 DEF StartEffect, TypeOK, RunsTypeOK, RunType
  <2> QED
    BY <1>0, <2>1 DEF Begins, Open
<1> QED
  BY <1>2, <1>3, <1>4, NotQueueing, RunFates, ActorDoubts

-----------------------------------------------------------------------------
(* A claim takes a queued execution, which is safe, and a run not yet used.*)
LEMMA ClaimDoubts ==
  ASSUME TypeOK, TypeOK', ViewsCurrent, FencesHold, OwnersInStep, DoubtIsKnown, MovesOn, NEW e \in Execs,
         claims < MaxClaims, MayDequeue(e), ClaimRow(e, claims + 1),
         NEW pc \in {"scheduler", "over"}, run' = [run EXCEPT ![claims + 1] = NewRun(e, row'[e], pc)],
         UNCHANGED <<wfStarted, acks>>
  PROVE  DoubtIsKnown'
<1>1. PICK r \in Runs : r = claims + 1
  BY MaxClaimsAssumption DEF TypeOK, RunsTypeOK, Runs
<1>2. /\ claims \in Nat /\ r \in Nat /\ r > 0 /\ StoreTypeOK /\ run \in [Runs -> RunType]
      /\ row[e].status = "queued"
  BY <1>1, MaxClaimsAssumption DEF TypeOK, RunsTypeOK, MayDequeue, Claimable
<1>3. /\ row'[e].status = "running" /\ \A x \in Execs \ {e} : row'[x] = row[x]
  BY <1>1, <1>2, ClaimFields
<1>5. run'[r] = NewRun(e, row'[e], pc) /\ \A x \in Runs \ {r} : run'[x] = run[x]
  BY <1>1, <1>2
<1>6. NoNewDoubt
  BY <1>5 DEF NoNewDoubt, Exposed, IsWorkflow, NewRun
<1>7. ~Unsafe(e)
  BY <1>2 DEF DoubtIsKnown, SafeInQueue
<1>8. \A x \in Execs : DoubtFate(x)
  BY <1>3, <1>7, KeptFate DEF DoubtFate, Kept
<1>9. Alone(r)
  BY <1>5 DEF Alone, Idle
<1>10. SafeToQueue(r)'
  <2>1. run'[r].pc = pc
    BY <1>5 DEF NewRun
  <2> QED
    BY <2>1, NotQueueing
<1> QED
  BY <1>6, <1>8, <1>9, <1>10, ActorDoubts

(* A waiting result is of the run the row names.                           *)
LEMMA FlushDoubts ==
  ASSUME TypeOK, TypeOK', ViewsCurrent, FencesHold, OwnersInStep, DoubtIsKnown, MovesOn, NEW r \in Runs, FlushWrite(r)
  PROVE  DoubtIsKnown'
<1> DEFINE e == run[r].exec
           o == run[r].obj
<1> USE DEF storeVars
<1>0. /\ run[r] \in RunType /\ run \in [Runs -> RunType] /\ e \in Execs /\ o \in RowType
      /\ StoreTypeOK /\ RunCurrent(r) /\ Fenced(r) /\ ObjectAgrees(r) /\ r \in Nat /\ r # 0
      /\ run[r].pc = "pending" /\ o.started = r /\ Clean(o) /\ o.status \in Terminal
      /\ UNCHANGED <<wfStarted, acks>>
  BY ViewTypes DEF TypeOK, RunsTypeOK, ViewsCurrent, FencesHold, OwnersInStep,
                   FlushWrite, ObjectAgrees, Fenced, RunCurrent, FirstObject, Runs
<1>1. CASE StillActive(e, o)
  <2>1. /\ WriteRow(e, o)
        /\ run' = [run EXCEPT ![r].pc = IF o.status = "failed" THEN "judge" ELSE "over", ![r].obj = row'[e]]
    BY <1>0, <1>1 DEF FlushWrite
  <2> DEFINE z == row'[e]
  <2>2. /\ run'[r].exec = e /\ run'[r].pc \in {"judge", "over"} /\ run'[r].sess = run[r].sess
        /\ run'[r].work = run[r].work /\ run'[r].eff = run[r].eff
        /\ \A x \in Runs \ {r} : run'[x] = run[x]
    <3>1. run' = [run EXCEPT ![r].pc = IF o.status = "failed" THEN "judge" ELSE "over", ![r].obj = z]
      BY <2>1
    <3> HIDE DEF z
    <3> QED
      BY <1>0, <3>1 DEF RunType
  <2>3. /\ \A x \in Execs \ {e} : row'[x] = row[x]
        /\ row'[e].status = o.status /\ ~row'[e].due /\ row'[e].started = r /\ row'[e].sess = o.sess
        /\ row'[e].status \notin {"running", "queued"}
    BY <1>0, <2>1, WriteFields DEF Clean, Terminal
  <2>4. row[e].started = r /\ row[e].status = "running" /\ row[e].sess = o.sess
    BY <1>0, <1>1 DEF StillActive, IsActive, Active, FencesHold, QueuedUnstarted, ObjectAgrees
  <2>5. \A x \in Execs : DoubtFate(x)
    BY <1>0, <2>3, <2>4, KeptFate DEF DoubtFate, Kept
  <2>6. NoNewDoubt /\ Alone(r)
    BY <1>0, <2>2 DEF NoNewDoubt, Exposed, IsWorkflow, Alone, Idle
  <2> QED
    BY <2>2, <2>5, <2>6, NotQueueing, ActorDoubts
<1>2. CASE ~StillActive(e, o)
  <2>1. UNCHANGED <<row, run>>
    BY <1>2 DEF FlushWrite
  <2> QED
    BY <1>0, <2>1, KeptFate, IdleDoubts DEF Kept, Idle
<1> QED
  BY <1>1, <1>2

(* What the execution loop queues again is safe, and what it recovers      *)
(* keeps what its row tells.                                               *)
LEMMA LoopStepDoubts ==
  ASSUME TypeOK, TypeOK', ViewsCurrent, FencesHold, OwnersInStep, DoubtIsKnown, MovesOn, LoopStep
  PROVE  DoubtIsKnown'
<1> DEFINE le == loop.exec
           lo == loop.obj
<1> USE DEF storeVars, queueVars, runVars
<1>0. /\ StoreTypeOK /\ loop \in LoopType /\ le \in Execs /\ lo \in RowType /\ row[le] \in RowType
      /\ LoopAgrees /\ row \in [Execs -> RowType] /\ run \in [Runs -> RunType]
      /\ wfStarted \in [Execs -> {"none", "no", "yes"}]
  BY LoopViewTypes DEF TypeOK, ManagerTypeOK, StoreTypeOK, RunsTypeOK, OwnersInStep
<1>1. ASSUME NEW e \in Execs, Dequeue(e)
      PROVE  DoubtIsKnown'
  BY <1>1, ClaimDoubts DEF Dequeue, managerVars
<1>2. ASSUME NEW r \in Runs, FlushWrite(r)
      PROVE  DoubtIsKnown'
  BY <1>2, FlushDoubts
<1>3. CASE FlushRead
  <2>1. UNCHANGED <<row, wfStarted, acks>> /\ \A x \in Runs : run'[x] = NoLongerPending(x, le)
    BY <1>3 DEF FlushRead
  <2>2. \A x \in Runs : run'[x].pc = "over" \/ run'[x] = run[x]
    BY <1>0, <2>1 DEF NoLongerPending, RunType
  <2>3. \A x \in Runs : /\ run'[x].exec = run[x].exec /\ run'[x].sess = run[x].sess
                        /\ run'[x].work = run[x].work /\ run'[x].eff = run[x].eff
    BY <1>0, <2>1 DEF NoLongerPending, RunType
  <2>4. NoNewDoubt
    BY <2>1, <2>3 DEF NoNewDoubt, Exposed, IsWorkflow
  <2>5. \A x \in Runs : SafeToQueue(x)'
    BY <2>2, <2>4, NotQueueing, IdleSafe DEF Idle, ViewsCurrent, DoubtIsKnown
  <2> QED
    BY <2>1, <2>4, <2>5, KeptFate, DoubtStays DEF Kept
<1>4. CASE LoopRequeue
  <2> DEFINE q == Requeued(lo, FALSE)
             n == IF loop.pc = "retry" THEN [q EXCEPT !.due = FALSE] ELSE q
  <2>1. q \in RowType /\ q.status = "queued"
    BY <1>0, RequeuedFields
  <2>2. n \in RowType /\ n.status = "queued"
    BY <2>1 DEF RowType
  <2>3. row' = row \/ (RequeueRow(le, n) /\ Requeueable(le, lo.status, lo.ver))
    BY <1>4 DEF LoopRequeue
  <2>4. loop.pc \in {"retry", "orphan"} /\ lo.status = (IF loop.pc = "retry" THEN "failed" ELSE "queued")
    BY <1>4 DEF LoopRequeue, ViewsCurrent, LoopCurrent
  <2> HIDE DEF n
  <2>5. Requeueable(le, lo.status, lo.ver) => ~Unsafe(le)
    BY <1>0, <2>4 DEF Requeueable, Unchanged, LoopAgrees, DoubtIsKnown, SafeInQueue
  <2>6. UNCHANGED <<run, wfStarted, acks>>
    BY <1>4 DEF LoopRequeue
  <2>7. \A x \in Execs : DoubtFate(x)
    BY <1>0, <2>2, <2>3, <2>5, <2>6, RequeueFields, KeptFate DEF DoubtFate, Kept
  <2> QED
    BY <2>6, <2>7, IdleDoubts DEF Idle
<1>5. CASE StaleWrite
  <2>1. row' = row \/ (WriteRow(le, lo) /\ StillActive(le, lo))
    BY <1>5 DEF StaleWrite
  <2>2. lo.status = "failed" /\ loop.pc = "stalewrite" /\ UNCHANGED <<run, wfStarted, acks>>
    BY <1>5 DEF StaleWrite, ViewsCurrent, LoopCurrent
  <2>3. StillActive(le, lo) => /\ row[le].status = "running" /\ ~lo.due
                               /\ lo.started = row[le].started /\ lo.sess = row[le].sess
    BY <1>0, <2>2 DEF StillActive, IsActive, Active, LoopAgrees, CalledOff
  <2>4. \A x \in Execs : DoubtFate(x)
    BY <1>0, <2>1, <2>2, <2>3, WriteFields, KeptFate DEF DoubtFate, Kept
  <2> QED
    BY <2>2, <2>4, IdleDoubts DEF Idle
<1>6. CASE \/ \E e \in Execs : TakeRow(e) \/ TakeStale(e)
           \/ StaleJudge \/ StaleFail \/ StaleFree \/ StaleFinishRef \/ FlushHandled
  <2>1. row' = row /\ acks' = acks /\ (wfStarted' = wfStarted \/ wfStarted' = Forgotten(le))
    BY <1>6 DEF TakeRow, TakeStale, StaleJudge, StaleFail, StaleFree, StaleFinishRef, FinishRefRow, FlushHandled
  <2>2. run' = run \/ \E S : run' = Signalled(S)
    BY <1>6 DEF TakeRow, TakeStale, StaleJudge, StaleFail, StaleFree, StaleFinishRef, FlushHandled
  <2>3. \A x \in Execs : Kept(x) /\ (wfStarted'[x] = "no" => wfStarted[x] = "no")
    BY <1>0, <2>1 DEF Kept, Forgotten
  <2>4. \A x \in Runs : Idle(x)
    BY <2>2, RunsIdle DEF TypeOK
  <2> QED
    BY <2>1, <2>3, <2>4, KeptFate, IdleDoubts
<1> QED
  BY <1>1, <1>2, <1>3, <1>4, <1>5, <1>6 DEF LoopStep
-----------------------------------------------------------------------------
(* A person who sends an execution off again takes its doubt away; no      *)
(* other request queues anything.                                          *)
LEMMA RequestDoubts ==
  ASSUME TypeOK, TypeOK', ViewsCurrent, FencesHold, DoubtIsKnown, MovesOn,
         NEW q \in Reqs, AskStep(q) \/ RequestStep(q)
  PROVE  DoubtIsKnown'
<1> DEFINE e == req[q].exec
           o == req[q].obj
<1> USE DEF storeVars, queueVars, runVars
<1>0. /\ StoreTypeOK /\ e \in Execs /\ o \in RowType
  BY ReqViewTypes DEF TypeOK
<1>1. /\ run' = run \/ \E S : run' = Signalled(S)
      /\ wfStarted' = wfStarted
  BY DEF AskStep, AskCancel, AskDelete, AskRetry, AskResume, AskDrop, PauseQueue, View, Ask,
         RequestStep, CancelWrite, CancelStop, CancelFree, DeleteExecution, DropNext,
         DropScheduler, PersonRequeue
<1>2. \A x \in Runs : Idle(x)
  BY <1>1, RunsIdle DEF TypeOK
<1>3. CASE PersonRequeue(q) /\ Requeueable(e, "failed", o.ver)
  <2>0. PICK f \in Execs : f = e
    BY <1>0
  <2> DEFINE n == SentAgain(o, req[q].op)
  <2>1. RequeueRow(f, n) /\ run' = run /\ acks' = [acks EXCEPT ![f] = claims]
    BY <1>3, <2>0 DEF PersonRequeue, SentAgain
  <2>2. n \in RowType /\ n.status = "queued"
    BY <1>0, SentAgainFields
  <2> HIDE DEF n
  <2>3. row'[f].status = "queued" /\ \A x \in Execs \ {f} : row'[x] = row[x]
    BY <1>0, <2>1, <2>2, RequeueFields
  <2>4. acks'[f] = claims /\ \A x \in Execs \ {f} : acks'[x] = acks[x]
    BY <1>0, <2>1 DEF TypeOK, ManagerTypeOK
  <2>5. ~Unsafe(f)'
    BY <2>1, <2>4, UnusedUnexposed DEF Unsafe, FencesHold, Fenced, Exposed, IsWorkflow
  <2>6. \A x \in Execs \ {f} : Unsafe(x)' = Unsafe(x)
    BY <2>1, <2>4 DEF Unsafe, Exposed, IsWorkflow
  <2>7. \A x \in Execs : SafeInQueue(x)'
    BY <2>3, <2>5, <2>6 DEF SafeInQueue, DoubtIsKnown
  <2>8. ASSUME NEW x \in Runs
        PROVE  SafeToQueue(x)' /\ EvidenceKept(x)'
    <3>1. run[x].exec \in Execs /\ run'[x] = run[x] /\ SafeToQueue(x) /\ EvidenceKept(x)
      BY <2>1, ViewTypes DEF TypeOK, DoubtIsKnown
    <3>2. CASE run[x].exec = f
      BY <2>3, <2>5, <3>1, <3>2 DEF SafeToQueue, EvidenceKept
    <3>3. CASE run[x].exec # f
      <4>1. SafeToQueue(x)'
        BY <2>3, <2>6, <3>1, <3>3 DEF SafeToQueue, Present
      <4>2. EvidenceKept(x)'
        BY <1>1, <2>3, <2>4, <3>1, <3>3 DEF EvidenceKept, Exposed, IsWorkflow
      <4> QED
        BY <4>1, <4>2
    <3> QED
      BY <3>2, <3>3
  <2> QED
    BY <2>7, <2>8 DEF DoubtIsKnown
<1>4. CASE ~(PersonRequeue(q) /\ Requeueable(e, "failed", o.ver))
  <2>1. acks' = acks
    BY <1>4 DEF AskStep, AskCancel, AskDelete, AskRetry, AskResume, AskDrop, PauseQueue, View, Ask,
         RequestStep, CancelWrite, CancelStop, CancelFree, DeleteExecution, DropNext,
         DropScheduler, PersonRequeue
  <2>2. \A x \in Execs : Kept(x) \/ row'[x].status \in {"cancelled", "deleted"}
    <3>1. ASSUME NEW x \in Execs, ViewRow(x)
          PROVE  \A y \in Execs : Kept(y)
      BY <1>0, <3>1, ViewFields DEF Kept
    <3>2. ASSUME CancelRow(e)
          PROVE  \A x \in Execs : Kept(x) \/ row'[x].status = "cancelled"
      BY <1>0, <3>2, CancelFields DEF Kept
    <3>3. ASSUME NEW S, DeleteRows(S)
          PROVE  \A x \in Execs : Kept(x) \/ row'[x].status = "deleted"
      BY <1>0, <3>3, DeleteFields DEF Kept, NoRow
    <3>4. CASE row' = row
      BY <3>4 DEF Kept
    <3> QED
      BY <1>4, <3>1, <3>2, <3>3, <3>4
      DEF AskStep, AskCancel, AskDelete, AskRetry, AskResume, AskDrop, PauseQueue, View, Ask,
          RequestStep, CancelWrite, CancelStop, CancelFree, FinishRefRow, DeleteExecution, DropNext, DropScheduler,
          PersonRequeue
  <2>3. \A x \in Execs : DoubtFate(x)
    BY <1>1, <2>2, KeptFate DEF DoubtFate
  <2> QED
    BY <1>2, <2>1, <2>3, IdleDoubts
<1> QED
  BY <1>3, <1>4

(* When the runs are stopped, or gone, what they had started is still known*)
(* of them, and none of them queues anything.                              *)
LEMMA EndedKeeps ==
  ASSUME TypeOK, Stop \/ Gone, NEW x \in Runs
  PROVE  /\ run'[x].pc \notin {"later", "intrequeue"}
         /\ run'[x].exec = run[x].exec /\ run'[x].sess = run[x].sess /\ run'[x].eff = run[x].eff
         /\ run'[x].work = "going" => run[x].work = "going"
<1>1. run[x] \in RunType
  BY DEF TypeOK, RunsTypeOK
<1>2. CASE Stop
  <2>1. run'[x] = Interruption(run[x])
    BY <1>2 DEF Stop
  <2> DEFINE s == run[x].stop \/ run[x].work = "going"
             w == IF run[x].work = "held" \/ (run[x].work = "going" /\ run[x].exec \notin Workflow)
                  THEN "ended" ELSE run[x].work
             y == IF run[x].exit = "requeued" THEN run[x].exit ELSE "raise"
  <2>2. \/ run'[x] = [run[x] EXCEPT !.pc = "intread", !.exit = "raise", !.stop = s, !.work = w]
        \/ run'[x] = [run[x] EXCEPT !.pc = "release", !.exit = y]
        \/ run'[x] = run[x] /\ run[x].pc = "unused"
        \/ run'[x] = [run[x] EXCEPT !.pc = "over"]
    BY <2>1 DEF Interruption
  <2>3. w = "going" => run[x].work = "going"
    OBVIOUS
  <2> HIDE DEF s, w, y
  <2> QED
    BY <1>1, <2>2, <2>3 DEF RunType
<1>3. CASE Gone
  <2> DEFINE w == IF run[x].work = "none" THEN run[x].work ELSE "ended"
  <2>1. run'[x] = IF run[x].pc = "unused" THEN run[x] ELSE [run[x] EXCEPT !.pc = "over", !.work = w]
    BY <1>3 DEF Gone
  <2>2. w # "going"
    OBVIOUS
  <2> HIDE DEF w
  <2> QED
    BY <1>1, <2>1, <2>2 DEF RunType
<1> QED
  BY <1>2, <1>3

(* So does the end of the process.                                         *)
LEMMA EndedDoubts ==
  ASSUME TypeOK, DoubtIsKnown, Stop \/ Gone
  PROVE  DoubtIsKnown'
<1>1. acks' = acks /\ row' = row /\ \A x \in Execs : wfStarted'[x] = "no" => wfStarted[x] = "no"
  BY DEF Stop, Gone, storeVars
<1>2. NoNewDoubt
  BY <1>1, EndedKeeps DEF NoNewDoubt, Exposed, IsWorkflow
<1>3. \A x \in Runs : SafeToQueue(x)'
  BY EndedKeeps, NotQueueing
<1> QED
  BY <1>1, <1>2, <1>3, KeptFate, DoubtStays DEF Kept

(* So does every step of the task center.                                  *)
LEMMA NextDoubts ==
  ASSUME TypeOK, TypeOK', ViewsCurrent, FencesHold, OwnersInStep, DoubtIsKnown, [Next]_vars
  PROVE  DoubtIsKnown'
<1> USE DEF storeVars, queueVars, runVars
<1>0. /\ MovesOn /\ StoreTypeOK /\ row \in [Execs -> RowType]
      /\ \A x \in Runs : run[x].exec \in Execs
  BY NextCurrent, ViewTypes DEF AllCurrent, RunsStayCurrent, TypeOK, StoreTypeOK
<1>1. ASSUME UNCHANGED <<run, wfStarted, acks>>, \A x \in Execs : DoubtFate(x)
      PROVE  DoubtIsKnown'
  BY <1>0, <1>1, IdleDoubts DEF Idle
<1>2. ASSUME NEW e \in Execs, Create(e)
      PROVE  DoubtIsKnown'
  <2>1. row[e].status = "new" /\ \A x \in Execs \ {e} : row'[x] = row[x]
    BY <1>0, <1>2, CreateFields DEF Create
  <2>2. ~Unsafe(e)
    BY <2>1, UnusedUnexposed DEF Unsafe, FencesHold, Fenced
  <2> QED
    BY <1>1, <1>2, <2>1, <2>2, KeptFate DEF Create, managerVars, Kept, DoubtFate
<1>3. ASSUME NEW e \in Execs, Expire(e) \/ RefOrphan(e)
      PROVE  DoubtIsKnown'
  <2>1. Requeued(row[e], FALSE) \in RowType /\ Requeued(row[e], FALSE).status = "queued"
    BY <1>0, RequeuedFields
  <2>2. row[e].status = "queued" /\ \A x \in Execs \ {e} : row'[x] = row[x]
    BY <1>0, <1>3, <2>1, CancelFields, RequeueFields DEF Expire, ExpireRow, RefOrphan, OrphanedQueued
  <2>3. ~Unsafe(e)
    BY <2>2 DEF DoubtIsKnown, SafeInQueue
  <2> QED
    BY <1>1, <1>3, <2>2, <2>3, KeptFate DEF Expire, RefOrphan, managerVars, Kept, DoubtFate
<1>4. ASSUME NEW e \in Execs, SettleOrphan(e)
      PROVE  DoubtIsKnown'
  <2> DEFINE f == [row[e] EXCEPT !.status = "failed"]
             q == Requeued(row[e], FALSE)
  <2>1. q \in RowType /\ q.status = "queued"
    BY <1>0, RequeuedFields
  <2>2. /\ Held(f) \in RowType /\ Held(f).status = "failed" /\ ~Held(f).due
        /\ Held(f).started = row[e].started /\ Held(f).sess = row[e].sess
    <3>1. f \in RowType /\ f.status = "failed" /\ f.started = row[e].started /\ f.sess = row[e].sess
      BY <1>0 DEF RowType, Status, Terminal
    <3> QED
      BY <3>1 DEF RowType, Held
  <2>3. row[e].status = "running"
    BY <1>4 DEF SettleOrphan, ViewsCurrent, StartCurrent
  <2>4. (RequeueRow(e, q) /\ SafeToRetry(e, row[e])) \/ WriteRow(e, Held(f))
    <3>1. PICK safe \in Outcomes(e, row[e]) : IF safe THEN RequeueRow(e, q) ELSE WriteRow(e, Held(f))
      BY <1>4 DEF SettleOrphan
    <3>2. safe => SafeToRetry(e, row[e])
      BY DEF Outcomes
    <3> QED
      BY <3>1, <3>2
  <2>5. RequeueRow(e, q) /\ SafeToRetry(e, row[e]) => ~Unsafe(e)
    BY <2>3, DoubtIsSeen
  <2>6. UNCHANGED <<run, wfStarted, acks>>
    BY <1>4 DEF SettleOrphan
  <2> HIDE DEF f, q
  <2>7. \A x \in Execs : DoubtFate(x)
    BY <1>0, <2>1, <2>2, <2>3, <2>4, <2>5, <2>6, WriteFields, RequeueFields, KeptFate DEF DoubtFate, Kept
  <2> QED
    BY <1>1, <2>6, <2>7
<1>5. ASSUME NEW e \in Execs, LoseClaim(e)
      PROVE  DoubtIsKnown'
  BY <1>0, <1>5, ClaimDoubts DEF LoseClaim
<1>6. ASSUME NEW r \in Runs, RunProgress(r)
      PROVE  DoubtIsKnown'
  <2>1. UNCHANGED <<mgr, claims, acks>> /\ RunStep(r)
    BY <1>6 DEF RunProgress, managerVars, RunStep, ReadScheduler, DispatchFails, StartSession, Register, Check,
                  Open, StartEffect, WorkEnds, EndWork, Interrupted, AbsoluteTimeout, GuardTimeout, GuardCancel,
                  LateWorkEnds, Save, Reread, Fail, FailWrite, InterruptRead, InterruptJudge,
                  InterruptRequeue, Release, FinishRef, Judge, Settle
  <2> QED
    BY <1>0, <2>1, RunStepDoubts
<1>7. ASSUME NEW r \in Runs, FailSave(r)
      PROVE  DoubtIsKnown'
  BY <1>0, <1>7, FailSaveDoubts DEF FailSave
<1>8. CASE LoopStep
  BY <1>0, <1>8, LoopStepDoubts
<1>9. ASSUME NEW q \in Reqs, AskStep(q) \/ RequestStep(q)
      PROVE  DoubtIsKnown'
  BY <1>0, <1>9, RequestDoubts
<1>10. CASE Stop \/ Quit \/ Crash
  BY <1>10, EndedDoubts DEF Quit, Crash
<1>11. CASE Start \/ Started \/ ResumeQueue \/ UNCHANGED vars
  <2>1. UNCHANGED <<row, run, wfStarted, acks>>
    BY <1>11 DEF Start, RequeueRunningRefs, Started, ResumeQueue, vars, managerVars
  <2> QED
    BY <1>1, <2>1, KeptFate DEF Kept
<1> QED
  BY <1>2, <1>3, <1>4, <1>5, <1>6, <1>7, <1>8, <1>9, <1>10, <1>11 DEF Next

(* At the start nothing is in doubt.                                       *)
LEMMA InitDoubts == Init => DoubtIsKnown
<1> SUFFICES ASSUME Init PROVE DoubtIsKnown
  OBVIOUS
<1>1. /\ \A e \in Execs : row[e].status = "new"
      /\ \A r \in Runs : run[r].pc = "unused" /\ run[r].exec \in Execs
  BY ExecsAssumption DEF Init, StoreInit, RunsInit, NoRow, NewRun, AnExec
<1> QED
  BY <1>1 DEF DoubtIsKnown, SafeInQueue, SafeToQueue, EvidenceKept

(* Work in doubt is known to be, unless the machine sleeps.                *)
THEOREM WorkStaysInOrder ==
  ASSUME "suspend" \notin Faults
  PROVE  Spec => []WorkInOrder
<1>1. TypeOK /\ TypeOK' /\ ViewsCurrent /\ FencesHold /\ OwnersInStep /\ DoubtIsKnown /\ [Next]_vars => DoubtIsKnown'
  BY NextDoubts
<1>2. WorkInOrder <=> OwnersInStep /\ DoubtIsKnown
  BY DEF WorkInOrder
<1> QED
  BY <1>1, <1>2, TypeCorrect, ViewsStayCurrent, FencesStay, OwnersStay, InitDoubts, PTL DEF Spec

-----------------------------------------------------------------------------
(* What follows from the invariant.  All of it holds of every instance of  *)
(* the task center, with every fault but a machine that sleeps.            *)
InOrder == TypeOK /\ ViewsCurrent /\ FencesHold /\ WorkInOrder

(* All parts of the invariant together.                                    *)
LEMMA StaysInOrder ==
  ASSUME "suspend" \notin Faults
  PROVE  Spec => []InOrder
<1>1. InOrder <=> TypeOK /\ ViewsCurrent /\ FencesHold /\ WorkInOrder
  BY DEF InOrder
<1> QED
  BY <1>1, TypeCorrect, ViewsStayCurrent, FencesStay, WorkStaysInOrder, PTL

(* Work that was not told to stop is of the owner of its execution.        *)
LEMMA GoingOwns ==
  ASSUME FencesHold, NEW r \in Runs, Going(r)
  PROVE  run[r].pc = "work" /\ Owns(r) /\ Keeps(r)
BY DEF FencesHold, Fenced, Going, Owns, Keeps, OwnPC, PC

(* Cancelling reaches the work.                                            *)
THEOREM CancellingStops ==
  ASSUME "suspend" \notin Faults
  PROVE  Spec => []CancelledIsStopped
<1>1. InOrder => CancelledIsStopped
  BY GoingOwns DEF InOrder, CancelledIsStopped, WorkInOrder, OwnersInStep, WorkReached, Going
<1> QED
  BY <1>1, StaysInOrder, PTL

(* No execution starts over by itself while an effect of it is in doubt.   *)
THEOREM NoRerunIsBlind ==
  ASSUME "suspend" \notin Faults
  PROVE  Spec => []NoBlindRerun
<1>1. ASSUME InOrder, NEW r \in Runs, run[r].eff, row[run[r].exec].status = "queued"
      PROVE  r <= acks[run[r].exec]
  <2>1. run[r].exec \in Execs /\ r \in Nat
    BY <1>1, ViewTypes DEF InOrder, TypeOK, Runs
  <2>2. acks[run[r].exec] \in Nat
    BY <1>1, <2>1 DEF InOrder, TypeOK, ManagerTypeOK
  <2>3. ~Unsafe(run[r].exec)
    BY <1>1, <2>1 DEF InOrder, WorkInOrder, DoubtIsKnown, SafeInQueue
  <2> QED
    BY <1>1, <2>1, <2>2, <2>3 DEF Unsafe, Exposed
<1>2. InOrder => NoBlindRerun
  BY <1>1 DEF NoBlindRerun
<1> QED
  BY <1>2, StaysInOrder, PTL

(* While a result waits to be saved its execution is not run again.        *)
THEOREM PendingIsNotRerun ==
  ASSUME "suspend" \notin Faults
  PROVE  Spec => []PendingBlocksRerun
<1>1. InOrder => PendingBlocksRerun
  BY GoingOwns DEF InOrder, PendingBlocksRerun, WorkInOrder, OwnersInStep, OneOwner, Keeps
<1> QED
  BY <1>1, StaysInOrder, PTL

(* A queued execution carries nothing over from the run before.            *)
THEOREM QueuedIsClean ==
  ASSUME "suspend" \notin Faults
  PROVE  Spec => []QueuedStartsClean
<1>1. InOrder => QueuedStartsClean
  BY DEF InOrder, QueuedStartsClean, WorkInOrder, OwnersInStep, MarksInStep, Clean, FencesHold, QueuedUnstarted,
         Active
<1> QED
  BY <1>1, StaysInOrder, PTL
-----------------------------------------------------------------------------
(* The task center implements the lifecycle, step by step.                 *)
SameDoubts == \A e \in Execs : InDoubt(e)' = InDoubt(e)

(* Where nothing starts an effect and no person sees to one, the doubts    *)
(* are the same.                                                           *)
LEMMA EffsKept ==
  ASSUME acks' = acks, \A x \in Runs : run'[x].exec = run[x].exec /\ run'[x].eff = run[x].eff
  PROVE  SameDoubts
BY DEF SameDoubts, InDoubt

(* What is in doubt is unsafe.                                             *)
LEMMA DoubtIsUnsafe ==
  ASSUME NEW e \in Execs, ~Unsafe(e)
  PROVE  ~InDoubt(e)
BY DEF Unsafe, Exposed, InDoubt

(* What one step may do to the status of one execution.                    *)
StatusStep(e) ==
  LET s == row[e].status
      t == row'[e].status
  IN \/ t = s
     \/ s = "new" /\ t = "queued"
     \/ s = "queued" /\ t = "running"
     \/ s = "running" /\ t \in {"completed", "failed"}
     \/ s \in {"queued", "running"} /\ t = "cancelled"
     \/ s \in {"running", "failed"} /\ t = "queued" /\ ~Unsafe(e)

(* One execution takes such a step.                                        *)
OneStatusStep == \E e \in Execs : /\ StatusStep(e)
                                  /\ \A x \in Execs \ {e} : row'[x].status = row[x].status

(* Without a change of doubts, that is a step of the lifecycle.            *)
LEMMA StatusImplements ==
  ASSUME SameDoubts, OneStatusStep
  PROVE  [Lifecycle!Next]_Lifecycle!vars
<1> DEFINE st == [x \in Execs |-> row[x].status]
           d  == [x \in Execs |-> InDoubt(x)]
<1>1. PICK e \in Execs : StatusStep(e) /\ \A x \in Execs \ {e} : row'[x].status = row[x].status
  BY DEF OneStatusStep
<1>2. d' = d
  BY DEF SameDoubts
<1>3. st' = [st EXCEPT ![e] = row'[e].status] /\ st[e] = row[e].status /\ (row'[e].status = row[e].status => st' = st)
  BY <1>1
<1>4. ~Unsafe(e) => ~d[e]
  BY DoubtIsUnsafe
<1>5. \/ st' = st
      \/ st[e] = "new" /\ st' = [st EXCEPT ![e] = "queued"]
      \/ st[e] = "queued" /\ st' = [st EXCEPT ![e] = "running"]
      \/ st[e] = "running" /\ \E s \in {"completed", "failed"} : st' = [st EXCEPT ![e] = s]
      \/ st[e] \in {"queued", "running"} /\ st' = [st EXCEPT ![e] = "cancelled"]
      \/ st[e] \in {"running", "failed"} /\ ~d[e] /\ st' = [st EXCEPT ![e] = "queued"]
  BY <1>1, <1>3, <1>4 DEF StatusStep
<1> HIDE DEF st, d
<1>6. \/ st' = st /\ d' = d
      \/ \E x \in Execs :
           \/ st[x] = "new" /\ st' = [st EXCEPT ![x] = "queued"] /\ UNCHANGED d
           \/ st[x] = "queued" /\ st' = [st EXCEPT ![x] = "running"] /\ UNCHANGED d
           \/ \/ st[x] = "running" /\ \E s \in {"completed", "failed"} : st' = [st EXCEPT ![x] = s] /\ UNCHANGED d
              \/ st[x] \in {"queued", "running"} /\ st' = [st EXCEPT ![x] = "cancelled"] /\ UNCHANGED d
           \/ st[x] \in {"running", "failed"} /\ ~d[x] /\ st' = [st EXCEPT ![x] = "queued"] /\ UNCHANGED d
  BY <1>2, <1>5
<1> QED
  BY <1>6 DEF st, d, Lifecycle!Next, Lifecycle!vars, Lifecycle!Submit, Lifecycle!Begin, Lifecycle!End,
              Lifecycle!StartOver, Lifecycle!Become

(* Without any change of status, it is none.                               *)
LEMMA SameImplements ==
  ASSUME SameDoubts, \A e \in Execs : row'[e].status = row[e].status
  PROVE  [Lifecycle!Next]_Lifecycle!vars
BY ExecsAssumption, StatusImplements DEF OneStatusStep, StatusStep
(* Only the work itself leaves anything in doubt.                          *)
LEMMA OnlyWorkDoubts ==
  ASSUME TypeOK, NEW r \in Runs, RunStep(r), ~StartEffect(r)
  PROVE  run'[r].eff = run[r].eff
<1>0. run[r] \in RunType /\ run \in [Runs -> RunType]
  BY DEF TypeOK, RunsTypeOK
<1>1. CASE ReadScheduler(r) \/ DispatchFails(r) \/ StartSession(r) \/ Register(r)
  BY <1>0, <1>1 DEF ReadScheduler, DispatchFails, StartSession, Register, RunType
<1>2. CASE GuardCancel(r)
  <2> DEFINE s == Signalled(Reached(run[r].exec, run[r].obj.sess))
  <2>1. s \in [Runs -> RunType] /\ s[r].eff = run[r].eff
    BY SignalledType DEF Signalled, TypeOK
  <2>2. run' = [s EXCEPT ![r].pc = "fail"]
    BY <1>2 DEF GuardCancel
  <2> HIDE DEF s
  <2> QED
    BY <2>1, <2>2 DEF RunType
<1>3. CASE InterruptRequeue(r)
  <2> DEFINE c == Current(run[r].exec, Requeued(run[r].obj, FALSE))
             y == IF c.status = "queued" THEN "requeued" ELSE run[r].exit
             z == row'[run[r].exec]
  <2>1. \/ run' = [run EXCEPT ![r].pc = "release", ![r].exit = "requeued", ![r].obj = z]
        \/ run' = [run EXCEPT ![r].pc = "release", ![r].obj = c, ![r].exit = y]
    BY <1>3 DEF InterruptRequeue
  <2> HIDE DEF c, y, z
  <2> QED
    BY <1>0, <2>1 DEF RunType
<1>4. CASE Check(r) \/ Open(r) \/ WorkEnds(r)
  BY <1>0, <1>4 DEF Check, Open, WorkEnds, EndWork, Interrupted, RunType
<1>5. CASE \/ AbsoluteTimeout(r) \/ GuardTimeout(r) \/ LateWorkEnds(r)
           \/ Save(r) \/ Reread(r) \/ FailWrite(r) \/ InterruptRead(r) \/ InterruptJudge(r)
           \/ Release(r) \/ FinishRef(r) \/ Judge(r) \/ Settle(r)
  BY <1>0, <1>5 DEF AbsoluteTimeout, GuardTimeout, LateWorkEnds, Save, Reread, FailWrite, InterruptRead,
                    InterruptJudge, Release, FinishRef, Judge, Settle, RunType
<1>6. CASE Fail(r)
  BY <1>0, <1>6 DEF Fail, RunType
<1> QED
  BY <1>1, <1>2, <1>3, <1>4, <1>5, <1>6 DEF RunStep

(* A run takes its row along one edge of the lifecycle.                    *)
LEMMA RunStatus ==
  ASSUME TypeOK, ViewsCurrent, FencesHold, OwnersInStep, DoubtIsKnown, NEW r \in Runs,
         RunStep(r) \/ (\E a \in BOOLEAN : SaveFails(r, a))
  PROVE  OneStatusStep
<1> DEFINE e == run[r].exec
           o == run[r].obj
<1> USE DEF storeVars
<1>0. /\ run[r] \in RunType /\ e \in Execs /\ o \in RowType /\ RunCurrent(r) /\ row \in [Execs -> RowType]
      /\ StoreTypeOK /\ r \in Nat /\ r # 0 /\ Fenced(r) /\ row[e] \in RowType
      /\ OwnerHasRow(r) /\ ObjectAgrees(r)
  BY ViewTypes DEF TypeOK, RunsTypeOK, ViewsCurrent, StoreTypeOK, FencesHold, Runs, OwnersInStep
<1>1. CASE row' = row
  BY <1>0, <1>1 DEF OneStatusStep, StatusStep
<1>2. ASSUME NEW n \in RowType, WriteRow(e, n) \/ RequeueRow(e, n),
             \/ n.status = row[e].status
             \/ row[e].status = "running" /\ n.status \in Terminal
             \/ row[e].status = "running" /\ n.status = "queued" /\ ~Unsafe(e)
      PROVE  OneStatusStep
  <2>1. row'[e].status = n.status /\ \A x \in Execs \ {e} : row'[x] = row[x]
    BY <1>0, <1>2, WriteFields, RequeueFields
  <2> QED
    BY <1>0, <1>2, <2>1 DEF OneStatusStep, StatusStep, Terminal
<1>3. CASE ReadScheduler(r)
  <2>1. row' = row
    BY <1>0, <1>3 DEF ReadScheduler, ViewsCurrent, StartCurrent
  <2> QED
    BY <1>1, <2>1
<1>4. CASE StartSession(r)
  <2>1. UNCHANGED row \/ (IsActive(e) /\ StartRow(e, o.sess, o.started))
    BY <1>4 DEF StartSession
  <2>2. Owns(r)
    BY <1>4 DEF StartSession, Owns, OwnPC, PC
  <2>3. CASE IsActive(e) /\ StartRow(e, o.sess, o.started)
    <3>1. o.sess \in Nat /\ o.started \in Nat
      BY <1>0 DEF RowType
    <3>2. /\ \A x \in Execs \ {e} : row'[x] = row[x]
          /\ row'[e].status = "running"
      BY <1>0, <2>3, <3>1, StartFields
    <3>3. row[e].status = "running"
      BY <1>0, <2>2, <2>3 DEF OwnerHasRow, CalledOff, IsActive, Active
    <3> QED
      BY <1>0, <3>2, <3>3 DEF OneStatusStep, StatusStep
  <2> QED
    BY <1>1, <2>1, <2>3
<1>5. CASE Save(r) \/ (\E a \in BOOLEAN : SaveFails(r, a)) \/ FailWrite(r)
  <2>1. UNCHANGED row \/ (WriteRow(e, o) /\ StillActive(e, o))
    BY <1>5 DEF Save, SaveFails, FailWrite
  <2>2. Owns(r) /\ o.status \in Terminal
    BY <1>0, <1>5 DEF Save, SaveFails, FailWrite, RunCurrent, Owns, OwnPC, PC, Terminal
  <2>3. StillActive(e, o) => row[e].status = "running"
    BY <1>0, <2>2 DEF StillActive, IsActive, Active, OwnerHasRow, CalledOff
  <2> QED
    BY <1>0, <1>1, <1>2, <2>1, <2>2, <2>3
<1>6. CASE InterruptRequeue(r)
  <2>1. UNCHANGED row \/ (RequeueRow(e, Requeued(o, FALSE)) /\ Requeueable(e, o.status, o.ver))
    BY <1>6 DEF InterruptRequeue
  <2>2. run[r].pc = "intrequeue" /\ Owns(r) /\ o.status \notin Terminal
    BY <1>0, <1>6 DEF InterruptRequeue, RunCurrent, Owns, OwnPC, PC
  <2>3. Requeueable(e, o.status, o.ver) => row[e].status = "running" /\ ~Unsafe(e)
    BY <1>0, <2>2 DEF Requeueable, Unchanged, Present, RowType, Status, OwnerHasRow, CalledOff,
                      DoubtIsKnown, SafeToQueue, SafeInQueue, Terminal
  <2> QED
    BY <1>0, <1>1, <1>2, <2>1, <2>3, RequeuedFields
<1>7. CASE Settle(r)
  <2> DEFINE n == IF run[r].pc = "hold" THEN Held(o) ELSE [o EXCEPT !.count = @ + 1, !.due = TRUE]
  <2>1. UNCHANGED row \/ (WriteRow(e, n) /\ Unchanged(e, o.ver))
    BY <1>7 DEF Settle
  <2>2. o.status = "failed" /\ Settling(run[r])
    BY <1>0, <1>7 DEF Settle, RunCurrent, Settling
  <2>3. Unchanged(e, o.ver) => row[e] = o
    BY <1>0, <2>2 DEF Unchanged, ObjectAgrees
  <2>4. n \in RowType /\ n.status = "failed"
    <3>1. o.count + 1 \in Nat
      BY <1>0 DEF RowType
    <3> QED
      BY <1>0, <2>2, <3>1 DEF Held, RowType
  <2> HIDE DEF n
  <2> QED
    BY <1>0, <1>1, <1>2, <2>1, <2>2, <2>3, <2>4
<1> QED
  BY <1>1, <1>3, <1>4, <1>5, <1>6, <1>7
  DEF RunStep, DispatchFails, Register, Check, Open,
      StartEffect, WorkEnds, EndWork, Interrupted, AbsoluteTimeout, GuardTimeout, GuardCancel,
      LateWorkEnds, Reread, Fail, InterruptRead, InterruptJudge, Release, FinishRef, FinishRefRow, Judge

(* Work that does something outside has a record, which is not queued.     *)
LEMMA EffectImplements ==
  ASSUME TypeOK, FencesHold, OwnersInStep, DoubtIsKnown, NEW r \in Runs, StartEffect(r), acks' = acks,
         Alone(r)
  PROVE  [Lifecycle!Next]_Lifecycle!vars
<1> DEFINE e == run[r].exec
           st == [x \in Execs |-> row[x].status]
           d  == [x \in Execs |-> InDoubt(x)]
<1>0. /\ run[r] \in RunType /\ run \in [Runs -> RunType] /\ e \in Execs /\ Fenced(r)
      /\ \A x \in Runs : run[x].exec \in Execs
  BY ViewTypes DEF TypeOK, RunsTypeOK, FencesHold
<1>1. row' = row /\ run'[r].exec = e /\ run'[r].eff /\ run[r].work = "going"
  BY <1>0 DEF StartEffect, storeVars, RunType
<1>2. \A x \in Runs \ {r} : run'[x].exec = run[x].exec /\ run'[x].eff = run[x].eff
  BY DEF Alone, Idle
<1>3. CASE r > acks[e]
  <2>1. st[e] \notin {"new", "queued"}
    <3>1. CASE IsWorkflow(r)
      <4>1. Unsafe(e)
        BY <1>1, <1>3, <3>1 DEF Unsafe, Exposed
      <4> QED
        BY <1>0, <1>1, <4>1 DEF DoubtIsKnown, SafeInQueue, Fenced
    <3>2. CASE ~IsWorkflow(r)
      <4>1. Owns(r)
        BY <1>0, <1>1, <3>2 DEF StartEffect, Fenced, Owns, OwnPC, PC
      <4> QED
        BY <1>0, <4>1 DEF OwnersInStep, OwnerHasRow, CalledOff
    <3> QED
      BY <3>1, <3>2
  <2>2. d' = [d EXCEPT ![e] = TRUE]
    <3>1. \A x \in Execs \ {e} : InDoubt(x)' = InDoubt(x)
      BY <1>0, <1>1, <1>2 DEF InDoubt
    <3>2. PICK f \in Execs : f = e
      BY <1>0
    <3>3. InDoubt(f)' = TRUE
      BY <1>0, <1>1, <1>3, <3>2 DEF InDoubt
    <3>4. \A x \in Execs \ {f} : InDoubt(x)' = InDoubt(x)
      BY <3>1, <3>2
    <3>5. d' = [d EXCEPT ![f] = TRUE]
      BY <3>3, <3>4
    <3> QED
      BY <3>2, <3>5
  <2>3. st' = st
    BY <1>1
  <2> HIDE DEF st, d
  <2>4. \E x \in Execs : st[x] \notin {"new", "queued"} /\ d' = [d EXCEPT ![x] = TRUE] /\ UNCHANGED st
    BY <1>0, <2>1, <2>2, <2>3
  <2> QED
    BY <2>4 DEF st, d, Lifecycle!Next, Lifecycle!Effect
<1>4. CASE ~(r > acks[e])
  <2>1. SameDoubts
    BY <1>0, <1>1, <1>2, <1>4 DEF SameDoubts, InDoubt
  <2> QED
    BY <1>1, <2>1, SameImplements
<1> QED
  BY <1>3, <1>4
(* Every step of a dispatcher is a step of the lifecycle or none.          *)
LEMMA RunImplements ==
  ASSUME TypeOK, ViewsCurrent, FencesHold, OwnersInStep, DoubtIsKnown, MovesOn, NEW r \in Runs,
         RunStep(r), UNCHANGED <<mgr, claims, acks>>
  PROVE  [Lifecycle!Next]_Lifecycle!vars
<1>1. Alone(r)
  BY RunStepFenced
<1>2. CASE StartEffect(r)
  BY <1>1, <1>2, EffectImplements
<1>3. CASE ~StartEffect(r)
  <2>1. \A x \in Runs : run'[x].exec = run[x].exec /\ run'[x].eff = run[x].eff
    BY <1>1, <1>3, OnlyWorkDoubts, RunOwnsLess DEF Alone, Idle
  <2> QED
    BY <2>1, RunStatus, EffsKept, StatusImplements
<1> QED
  BY <1>2, <1>3

(* So is a write of a result that fails.                                   *)
LEMMA FailSaveImplements ==
  ASSUME TypeOK, ViewsCurrent, FencesHold, OwnersInStep, DoubtIsKnown, NEW r \in Runs,
         NEW a \in BOOLEAN, SaveFails(r, a), acks' = acks
  PROVE  [Lifecycle!Next]_Lifecycle!vars
<1>1. \A x \in Runs : run'[x].exec = run[x].exec /\ run'[x].eff = run[x].eff
  <2>1. run \in [Runs -> RunType]
    BY DEF TypeOK, RunsTypeOK
  <2>2. \A x \in Runs : run'[x] = IF x = r THEN [run[x] EXCEPT !.pc = "pending"] ELSE NoLongerPending(x, run[r].exec)
    BY DEF SaveFails
  <2> QED
    BY <2>1, <2>2 DEF NoLongerPending, RunType
<1> QED
  BY <1>1, RunStatus, EffsKept, StatusImplements

(* A claim: a new run has left nothing in doubt, like the unused one.      *)
LEMMA ClaimImplements ==
  ASSUME TypeOK, FencesHold, NEW e \in Execs,
         claims < MaxClaims, MayDequeue(e), ClaimRow(e, claims + 1), NEW pc,
         run' = [run EXCEPT ![claims + 1] = NewRun(e, row'[e], pc)], acks' = acks
  PROVE  [Lifecycle!Next]_Lifecycle!vars
<1>1. PICK r \in Runs : r = claims + 1
  BY MaxClaimsAssumption DEF TypeOK, RunsTypeOK, Runs
<1>2. /\ claims \in Nat /\ r \in Nat /\ r > claims /\ StoreTypeOK /\ run \in [Runs -> RunType]
      /\ row[e].status = "queued" /\ Fenced(r)
  BY <1>1, MaxClaimsAssumption DEF TypeOK, RunsTypeOK, MayDequeue, Claimable, FencesHold
<1>3. row'[e].status = "running" /\ \A x \in Execs \ {e} : row'[x] = row[x]
  BY <1>1, <1>2, ClaimFields
<1>4. ~run[r].eff /\ ~run'[r].eff /\ \A x \in Runs \ {r} : run'[x] = run[x]
  BY <1>1, <1>2 DEF Fenced, NewRun
<1>5. SameDoubts
  BY <1>4 DEF SameDoubts, InDoubt
<1>6. OneStatusStep
  BY <1>2, <1>3 DEF OneStatusStep, StatusStep
<1> QED
  BY <1>5, <1>6, StatusImplements

(* So is a step of the execution loop.                                     *)
LEMMA LoopStepImplements ==
  ASSUME TypeOK, ViewsCurrent, FencesHold, OwnersInStep, DoubtIsKnown, LoopStep
  PROVE  [Lifecycle!Next]_Lifecycle!vars
<1> DEFINE le == loop.exec
           lo == loop.obj
<1> USE DEF storeVars, queueVars, runVars
<1>0. /\ StoreTypeOK /\ loop \in LoopType /\ le \in Execs /\ lo \in RowType /\ row[le] \in RowType
      /\ LoopAgrees /\ row \in [Execs -> RowType] /\ run \in [Runs -> RunType]
  BY LoopViewTypes DEF TypeOK, ManagerTypeOK, StoreTypeOK, RunsTypeOK, OwnersInStep
<1>1. ASSUME NEW e \in Execs, Dequeue(e)
      PROVE  [Lifecycle!Next]_Lifecycle!vars
  BY <1>1, ClaimImplements DEF Dequeue, managerVars
<1>2. ASSUME acks' = acks, \A x \in Runs : run'[x].exec = run[x].exec /\ run'[x].eff = run[x].eff,
             row' = row \/ OneStatusStep
      PROVE  [Lifecycle!Next]_Lifecycle!vars
  BY <1>2, EffsKept, StatusImplements, SameImplements
<1>3. ASSUME NEW r \in Runs, FlushWrite(r)
      PROVE  [Lifecycle!Next]_Lifecycle!vars
  <2> DEFINE e == run[r].exec
             o == run[r].obj
             z == row'[e]
             y == IF o.status = "failed" THEN "judge" ELSE "over"
  <2>0. /\ e \in Execs /\ o \in RowType /\ o.status \in Terminal /\ o.started = r /\ r # 0 /\ acks' = acks
    BY <1>3, ViewTypes DEF FlushWrite, TypeOK, ViewsCurrent, RunCurrent, FencesHold, Fenced, FirstObject, Runs
  <2>1. CASE StillActive(e, o)
    <3>1. WriteRow(e, o) /\ run' = [run EXCEPT ![r].pc = y, ![r].obj = z]
      BY <1>3, <2>1 DEF FlushWrite
    <3>2. row'[e].status = o.status /\ \A x \in Execs \ {e} : row'[x] = row[x]
      BY <1>0, <2>0, <3>1, WriteFields
    <3>3. row[e].status = "running"
      BY <2>0, <2>1 DEF StillActive, IsActive, Active, FencesHold, QueuedUnstarted
    <3>4. OneStatusStep
      BY <2>0, <3>2, <3>3 DEF OneStatusStep, StatusStep, Terminal
    <3> HIDE DEF z, y
    <3>5. \A x \in Runs : run'[x].exec = run[x].exec /\ run'[x].eff = run[x].eff
      BY <1>0, <3>1 DEF RunType
    <3> QED
      BY <1>2, <2>0, <3>4, <3>5
  <2>2. CASE ~StillActive(e, o)
    <3>1. UNCHANGED <<row, run>>
      BY <1>3, <2>2 DEF FlushWrite
    <3> QED
      BY <1>2, <2>0, <3>1
  <2> QED
    BY <2>1, <2>2
<1>4. CASE FlushRead
  <2>1. UNCHANGED <<row, acks>> /\ \A x \in Runs : run'[x] = NoLongerPending(x, le)
    BY <1>4 DEF FlushRead
  <2>2. \A x \in Runs : run'[x].exec = run[x].exec /\ run'[x].eff = run[x].eff
    BY <1>0, <2>1 DEF NoLongerPending, RunType
  <2> QED
    BY <1>2, <2>1, <2>2
<1>5. CASE LoopRequeue
  <2> DEFINE q == Requeued(lo, FALSE)
             n == IF loop.pc = "retry" THEN [q EXCEPT !.due = FALSE] ELSE q
  <2>1. q \in RowType /\ q.status = "queued"
    BY <1>0, RequeuedFields
  <2>2. n \in RowType /\ n.status = "queued"
    BY <2>1 DEF RowType
  <2>3. row' = row \/ (RequeueRow(le, n) /\ Requeueable(le, lo.status, lo.ver))
    BY <1>5 DEF LoopRequeue
  <2>4. loop.pc \in {"retry", "orphan"} /\ lo.status = (IF loop.pc = "retry" THEN "failed" ELSE "queued")
    BY <1>5 DEF LoopRequeue, ViewsCurrent, LoopCurrent
  <2> HIDE DEF n
  <2>5. Requeueable(le, lo.status, lo.ver) => ~Unsafe(le) /\ row[le].status \in {"failed", "queued"}
    BY <1>0, <2>4 DEF Requeueable, Unchanged, LoopAgrees, DoubtIsKnown, SafeInQueue
  <2>6. UNCHANGED <<run, acks>>
    BY <1>5 DEF LoopRequeue
  <2>7. row' = row \/ OneStatusStep
    BY <1>0, <2>2, <2>3, <2>5, RequeueFields DEF OneStatusStep, StatusStep
  <2> QED
    BY <1>2, <2>6, <2>7
<1>6. CASE StaleWrite
  <2>1. row' = row \/ (WriteRow(le, lo) /\ StillActive(le, lo))
    BY <1>6 DEF StaleWrite
  <2>2. lo.status = "failed" /\ loop.pc = "stalewrite" /\ UNCHANGED <<run, acks>>
    BY <1>6 DEF StaleWrite, ViewsCurrent, LoopCurrent
  <2>3. StillActive(le, lo) => row[le].status = "running"
    BY <1>0, <2>2 DEF StillActive, IsActive, Active, LoopAgrees, CalledOff
  <2>4. row' = row \/ OneStatusStep
    BY <1>0, <2>1, <2>2, <2>3, WriteFields DEF OneStatusStep, StatusStep
  <2> QED
    BY <1>2, <2>2, <2>4
<1>7. CASE \/ \E e \in Execs : TakeRow(e) \/ TakeStale(e)
           \/ StaleJudge \/ StaleFail \/ StaleFree \/ StaleFinishRef \/ FlushHandled
  <2>1. row' = row /\ acks' = acks
    BY <1>7 DEF TakeRow, TakeStale, StaleJudge, StaleFail, StaleFree, StaleFinishRef, FinishRefRow, FlushHandled
  <2>2. run' = run \/ \E S : run' = Signalled(S)
    BY <1>7 DEF TakeRow, TakeStale, StaleJudge, StaleFail, StaleFree, StaleFinishRef, FlushHandled
  <2>3. \A x \in Runs : Idle(x)
    BY <2>2, RunsIdle DEF TypeOK
  <2> QED
    BY <1>2, <2>1, <2>3 DEF Idle
<1> QED
  BY <1>1, <1>3, <1>4, <1>5, <1>6, <1>7 DEF LoopStep

(* Removing executions that exist.                                         *)
LEMMA RemoveImplements ==
  ASSUME NEW S \in SUBSET Execs, DeleteRows(S), SameDoubts, \A e \in S : row[e].status # "new"
  PROVE  [Lifecycle!Next]_Lifecycle!vars
<1> DEFINE st == [x \in Execs |-> row[x].status]
           d  == [x \in Execs |-> InDoubt(x)]
<1>1. st' = [x \in Execs |-> IF x \in S THEN "deleted" ELSE st[x]]
  <2>1. \A x \in Execs : row'[x].status = IF x \in S THEN "deleted" ELSE row[x].status
    BY DEF DeleteRows, NoRow
  <2> QED
    BY <2>1
<1>2. d' = d
  BY DEF SameDoubts
<1>3. \A e \in S : st[e] # "new"
  OBVIOUS
<1> HIDE DEF st, d
<1>4. \E T \in SUBSET Execs : /\ \A e \in T : st[e] # "new"
                              /\ st' = [x \in Execs |-> IF x \in T THEN "deleted" ELSE st[x]] /\ UNCHANGED d
  BY <1>1, <1>2, <1>3
<1> QED
  BY <1>4 DEF st, d, Lifecycle!Next, Lifecycle!Remove
(* A person sends it off again: the doubt is theirs.                       *)
LEMMA SendAgainImplements ==
  ASSUME TypeOK, FencesHold, NEW e \in Execs, row[e].status = "failed", row'[e].status = "queued",
         \A x \in Execs \ {e} : row'[x] = row[x], run' = run, acks' = [acks EXCEPT ![e] = claims]
  PROVE  [Lifecycle!Next]_Lifecycle!vars
<1> DEFINE st == [x \in Execs |-> row[x].status]
           d  == [x \in Execs |-> InDoubt(x)]
<1>1. acks'[e] = claims /\ \A x \in Execs \ {e} : acks'[x] = acks[x]
  BY DEF TypeOK, ManagerTypeOK
<1>2. InDoubt(e)' = FALSE
  BY <1>1 DEF InDoubt, FencesHold, Fenced
<1>3. \A x \in Execs \ {e} : InDoubt(x)' = InDoubt(x)
  BY <1>1 DEF InDoubt
<1>4. d' = [d EXCEPT ![e] = FALSE]
  BY <1>2, <1>3
<1>5. st[e] = "failed" /\ st' = [st EXCEPT ![e] = "queued"]
  OBVIOUS
<1> HIDE DEF st, d
<1>6. \E x \in Execs : st[x] = "failed" /\ st' = [st EXCEPT ![x] = "queued"] /\ d' = [d EXCEPT ![x] = FALSE]
  BY <1>4, <1>5
<1> QED
  BY <1>6 DEF st, d, Lifecycle!Next, Lifecycle!SendAgain

(* So are the requests of people.                                          *)
LEMMA RequestImplements ==
  ASSUME TypeOK, ViewsCurrent, FencesHold, OwnersInStep, NEW q \in Reqs, AskStep(q) \/ RequestStep(q)
  PROVE  [Lifecycle!Next]_Lifecycle!vars
<1> DEFINE e == req[q].exec
           o == req[q].obj
<1> USE DEF storeVars, queueVars, runVars
<1>0. /\ StoreTypeOK /\ e \in Execs /\ o \in RowType /\ RequestInStep(q)
  BY ReqViewTypes DEF TypeOK, OwnersInStep
<1>1. run' = run \/ \E S : run' = Signalled(S)
  BY DEF AskStep, AskCancel, AskDelete, AskRetry, AskResume, AskDrop, PauseQueue, View, Ask,
         RequestStep, CancelWrite, CancelStop, CancelFree, DeleteExecution, DropNext,
         DropScheduler, PersonRequeue
<1>2. \A x \in Runs : run'[x].exec = run[x].exec /\ run'[x].eff = run[x].eff
  BY <1>1, RunsIdle DEF TypeOK, Idle
<1>3. CASE PersonRequeue(q) /\ Requeueable(e, "failed", o.ver)
  <2> DEFINE n == SentAgain(o, req[q].op)
  <2>1. RequeueRow(e, n) /\ run' = run /\ acks' = [acks EXCEPT ![e] = claims] /\ row[e].status = "failed"
    BY <1>3 DEF PersonRequeue, SentAgain, Requeueable
  <2>2. n \in RowType /\ n.status = "queued"
    BY <1>0, SentAgainFields
  <2> HIDE DEF n
  <2>3. row'[e].status = "queued" /\ \A x \in Execs \ {e} : row'[x] = row[x]
    BY <1>0, <2>1, <2>2, RequeueFields
  <2> HIDE DEF e
  <2> QED
    BY <1>0, <2>1, <2>3, SendAgainImplements
<1>4. CASE ~(PersonRequeue(q) /\ Requeueable(e, "failed", o.ver))
  <2>1. acks' = acks
    BY <1>4 DEF AskStep, AskCancel, AskDelete, AskRetry, AskResume, AskDrop, PauseQueue, View, Ask,
         RequestStep, CancelWrite, CancelStop, CancelFree, DeleteExecution, DropNext,
         DropScheduler, PersonRequeue
  <2>2. SameDoubts
    BY <1>2, <2>1, EffsKept
  <2>3. ASSUME NEW x \in Execs, ViewRow(x)
        PROVE  [Lifecycle!Next]_Lifecycle!vars
    <3>1. \A y \in Execs : row'[y].status = row[y].status
      BY <1>0, <2>3, ViewFields
    <3> QED
      BY <2>2, <3>1, SameImplements
  <2>4. CASE CancelWrite(q) /\ IsActive(e)
    <3>1. \A x \in Execs \ {e} : row'[x] = row[x]
      BY <1>0, <2>4, CancelFields DEF CancelWrite
    <3>2. row'[e].status = "cancelled"
      BY <1>0, <2>4, CancelFields DEF CancelWrite
    <3> QED
      BY <1>0, <2>2, <2>4, <3>1, <3>2, StatusImplements DEF OneStatusStep, StatusStep, IsActive, Active
  <2>5. CASE DeleteExecution(q)
    <3>1. DeleteRows({e}) /\ row[e].status # "new"
      BY <1>0, <2>5 DEF DeleteExecution, RequestInStep
    <3> HIDE DEF e
    <3> QED
      BY <1>0, <2>2, <3>1, RemoveImplements
  <2>6. CASE DropScheduler(q)
    <3> DEFINE S == {x \in Execs : Present(x)}
    <3>1. S \in SUBSET Execs /\ DeleteRows(S) /\ \A x \in S : row[x].status # "new"
      BY <2>6 DEF DropScheduler, Present
    <3> HIDE DEF S
    <3> QED
      BY <2>2, <3>1, RemoveImplements
  <2>7. CASE row' = row
    BY <2>2, <2>7, SameImplements
  <2> QED
    BY <1>4, <2>3, <2>4, <2>5, <2>6, <2>7
    DEF AskStep, AskCancel, AskDelete, AskRetry, AskResume, AskDrop, PauseQueue, View, Ask,
        RequestStep, CancelWrite, CancelStop, CancelFree, FinishRefRow, DropNext, PersonRequeue
<1> QED
  BY <1>3, <1>4

(* So is every step of the task center.                                    *)
LEMMA NextImplements ==
  ASSUME TypeOK, TypeOK', ViewsCurrent, FencesHold, WorkInOrder, [Next]_vars
  PROVE  [Lifecycle!Next]_Lifecycle!vars
<1> USE DEF storeVars, queueVars, runVars
<1>0. /\ MovesOn /\ StoreTypeOK /\ row \in [Execs -> RowType] /\ OwnersInStep /\ DoubtIsKnown
  BY NextCurrent DEF AllCurrent, RunsStayCurrent, TypeOK, StoreTypeOK, WorkInOrder
<1>1. ASSUME acks' = acks, \A x \in Runs : run'[x].exec = run[x].exec /\ run'[x].eff = run[x].eff,
             row' = row \/ OneStatusStep
      PROVE  [Lifecycle!Next]_Lifecycle!vars
  BY <1>1, EffsKept, StatusImplements, SameImplements
<1>2. ASSUME NEW e \in Execs, Create(e) \/ Expire(e) \/ RefOrphan(e)
      PROVE  [Lifecycle!Next]_Lifecycle!vars
  <2>1. Requeued(row[e], FALSE) \in RowType /\ Requeued(row[e], FALSE).status = "queued"
    BY <1>0, RequeuedFields
  <2>2. OneStatusStep
    BY <1>0, <1>2, <2>1, CreateFields, CancelFields, RequeueFields
    DEF Create, Expire, ExpireRow, RefOrphan, OrphanedQueued, OneStatusStep, StatusStep
  <2> QED
    BY <1>1, <1>2, <2>2 DEF Create, Expire, RefOrphan, managerVars
<1>3. ASSUME NEW e \in Execs, SettleOrphan(e)
      PROVE  [Lifecycle!Next]_Lifecycle!vars
  <2> DEFINE f == [row[e] EXCEPT !.status = "failed"]
             q == Requeued(row[e], FALSE)
  <2>1. q \in RowType /\ q.status = "queued"
    BY <1>0, RequeuedFields
  <2>2. Held(f) \in RowType /\ Held(f).status = "failed"
    <3>1. f \in RowType /\ f.status = "failed"
      BY <1>0 DEF RowType, Status, Terminal
    <3> QED
      BY <3>1 DEF RowType, Held
  <2>3. row[e].status = "running"
    BY <1>3 DEF SettleOrphan, ViewsCurrent, StartCurrent
  <2>4. (RequeueRow(e, q) /\ ~Unsafe(e)) \/ WriteRow(e, Held(f))
    <3>1. PICK safe \in Outcomes(e, row[e]) : IF safe THEN RequeueRow(e, q) ELSE WriteRow(e, Held(f))
      BY <1>3 DEF SettleOrphan
    <3>2. safe => SafeToRetry(e, row[e])
      BY DEF Outcomes
    <3> QED
      BY <1>0, <2>3, <3>1, <3>2, DoubtIsSeen
  <2>5. UNCHANGED <<run, acks>>
    BY <1>3 DEF SettleOrphan
  <2> HIDE DEF f, q
  <2>6. OneStatusStep
    BY <1>0, <2>1, <2>2, <2>3, <2>4, WriteFields, RequeueFields DEF OneStatusStep, StatusStep
  <2> QED
    BY <1>1, <2>5, <2>6
<1>4. ASSUME NEW e \in Execs, LoseClaim(e)
      PROVE  [Lifecycle!Next]_Lifecycle!vars
  BY <1>4, ClaimImplements DEF LoseClaim
<1>5. ASSUME NEW r \in Runs, RunProgress(r)
      PROVE  [Lifecycle!Next]_Lifecycle!vars
  <2>1. UNCHANGED <<mgr, claims, acks>> /\ RunStep(r)
    BY <1>5 DEF RunProgress, managerVars, RunStep, ReadScheduler, DispatchFails, StartSession, Register, Check,
                  Open, StartEffect, WorkEnds, EndWork, Interrupted, AbsoluteTimeout, GuardTimeout, GuardCancel,
                  LateWorkEnds, Save, Reread, Fail, FailWrite, InterruptRead, InterruptJudge,
                  InterruptRequeue, Release, FinishRef, Judge, Settle
  <2> QED
    BY <1>0, <2>1, RunImplements
<1>6. ASSUME NEW r \in Runs, FailSave(r)
      PROVE  [Lifecycle!Next]_Lifecycle!vars
  BY <1>0, <1>6, FailSaveImplements DEF FailSave
<1>7. CASE LoopStep
  BY <1>0, <1>7, LoopStepImplements
<1>8. ASSUME NEW q \in Reqs, AskStep(q) \/ RequestStep(q)
      PROVE  [Lifecycle!Next]_Lifecycle!vars
  BY <1>0, <1>8, RequestImplements
<1>9. CASE Stop \/ Quit \/ Crash
  <2>1. row' = row /\ acks' = acks
    BY <1>9 DEF Stop, Quit, Crash, Gone
  <2>2. \A x \in Runs : run'[x].exec = run[x].exec /\ run'[x].eff = run[x].eff
    BY <1>9, EndedKeeps DEF Quit, Crash
  <2> QED
    BY <1>1, <2>1, <2>2
<1>10. CASE Start \/ Started \/ ResumeQueue \/ UNCHANGED vars
  <2>1. UNCHANGED <<row, run, acks>>
    BY <1>10 DEF Start, RequeueRunningRefs, Started, ResumeQueue, vars, managerVars
  <2> QED
    BY <1>1, <2>1
<1> QED
  BY <1>2, <1>3, <1>4, <1>5, <1>6, <1>7, <1>8, <1>9, <1>10 DEF Next

(* The executions start as the lifecycle has them.                         *)
LEMMA InitImplements == Init => Lifecycle!Init
<1> SUFFICES ASSUME Init PROVE Lifecycle!Init
  OBVIOUS
<1>1. \A e \in Execs : row[e].status = "new" /\ InDoubt(e) = FALSE
  BY DEF Init, StoreInit, RunsInit, NoRow, NewRun, InDoubt
<1> QED
  BY <1>1 DEF Lifecycle!Init

(* The task center implements the lifecycle of an execution: through       *)
(* claims, cancellations, retries, crashes, restarts and results that      *)
(* cannot be saved, an execution never starts over by itself while it is   *)
(* in doubt what it did.                                                   *)
THEOREM LifecycleImplemented ==
  ASSUME "suspend" \notin Faults
  PROVE  Spec => ImplementsLifecycle
<1>1. InOrder /\ InOrder' /\ [Next]_vars => [Lifecycle!Next]_Lifecycle!vars
  BY NextImplements DEF InOrder
<1> QED
  BY <1>1, StaysInOrder, InitImplements, PTL DEF Spec, ImplementsLifecycle, Lifecycle!Spec

-----------------------------------------------------------------------------
(* Automatic retries are bounded.  A failed run is counted in its row's    *)
(* retry_count by the step that gives its retry a time, unless it is ended *)
(* by a fault; what is neither is the owner's or still being handled, and  *)
(* there is one such run at most.                                          *)

(* What the writes of the store do to retry_count.                         *)
LEMMA RowCounts ==
  ASSUME StoreTypeOK, NEW e \in Execs
  PROVE  /\ \A o \in RowType : WriteRow(e, o) \/ RequeueRow(e, o) => row'[e].count = o.count
         /\ \A s, t \in Nat : StartRow(e, s, t) => row'[e].count = row[e].count
         /\ \A t \in Nat : ClaimRow(e, t) => row'[e].count = row[e].count
         /\ ViewRow(e) => row'[e].count = row[e].count
         /\ CreateRow(e) => row'[e].count = 0
<1>1. row \in [Execs -> RowType] /\ row[e] \in RowType
  BY DEF StoreTypeOK
<1>2. \A o \in RowType : WriteRow(e, o) \/ RequeueRow(e, o) => row'[e].count = o.count
  BY <1>1 DEF WriteRow, RequeueRow, RowType
<1>3. \A s, t \in Nat : StartRow(e, s, t) => row'[e].count = row[e].count
  BY <1>1 DEF StartRow, RowType
<1>4. \A t \in Nat : ClaimRow(e, t) => row'[e].count = row[e].count
  BY <1>1 DEF ClaimRow, RowType
<1>5. ViewRow(e) => row'[e].count = row[e].count
  BY <1>1 DEF ViewRow, RowType
<1>6. CreateRow(e) => row'[e].count = 0
  BY <1>1 DEF CreateRow, NoRow
<1> QED
  BY <1>2, <1>3, <1>4, <1>5, <1>6

(* At most one more failed run than before is paid for by a fault or in    *)
(* the count.                                                              *)
Paid(e) == row'[e].count + faults' > row[e].count + faults

LEMMA CountGoesOn ==
  ASSUME TypeOK, TypeOK', NEW e \in Execs, Cardinality(Counted(e)) <= row[e].count + faults,
         row'[e].count + faults' >= row[e].count + faults,
         NEW r, Counted(e)' \subseteq Counted(e) \cup {r}, Paid(e) \/ Counted(e)' \subseteq Counted(e)
  PROVE  Cardinality(Counted(e)') <= row'[e].count + faults'
<1>1. IsFiniteSet(Counted(e)) /\ Cardinality(Counted(e)) \in Nat
  <2>1. IsFiniteSet(Runs)
    BY FS_Interval, MaxClaimsAssumption DEF Runs
  <2>2. Counted(e) \in SUBSET Runs
    BY DEF Counted
  <2> QED
    BY <2>1, <2>2, FS_Subset, FS_CardinalityType
<1>2. /\ row[e].count \in Nat /\ row'[e].count \in Nat /\ faults \in Nat /\ faults' \in Nat
  BY BoundsAssumption DEF TypeOK, StoreTypeOK, ManagerTypeOK, RowType
<1>3. CASE Counted(e)' \subseteq Counted(e)
  <2>1. Cardinality(Counted(e)') <= Cardinality(Counted(e)) /\ Cardinality(Counted(e)') \in Nat
    BY <1>1, <1>3, FS_Subset, FS_CardinalityType
  <2> QED
    BY <1>1, <1>2, <2>1
<1>4. CASE Paid(e)
  <2>1. /\ IsFiniteSet(Counted(e) \cup {r})
        /\ Cardinality(Counted(e) \cup {r}) <= Cardinality(Counted(e)) + 1
    <3>1. IsFiniteSet(Counted(e)) /\ Cardinality(Counted(e)) \in Nat
      BY <1>1, FS_CardinalityType
    <3>2. IsFiniteSet(Counted(e) \cup {r})
      BY <3>1, FS_AddElement
    <3>3. Cardinality(Counted(e) \cup {r}) \in {Cardinality(Counted(e)), Cardinality(Counted(e)) + 1}
      BY <3>1, FS_AddElement
    <3> QED
      BY <3>1, <3>2, <3>3
  <2>2. Cardinality(Counted(e) \cup {r}) \in Nat
    BY <2>1, FS_CardinalityType
  <2>3. Cardinality(Counted(e)') <= Cardinality(Counted(e) \cup {r}) /\ Cardinality(Counted(e)') \in Nat
    BY <2>1, FS_Subset, FS_CardinalityType
  <2> QED
    BY <1>1, <1>2, <1>4, <2>1, <2>2, <2>3 DEF Paid
<1> QED
  BY <1>3, <1>4

-----------------------------------------------------------------------------
(* A run that stays where it is begins to handle nothing.                  *)
Rests(x) == /\ run'[x].exec = run[x].exec /\ run'[x].obj = run[x].obj
            /\ run'[x].pc = run[x].pc /\ run'[x].exit = run[x].exit

LEMMA RestingHandlesNot ==
  ASSUME TypeOK, TypeOK', MovesOn, NEW x \in Runs, RunCurrent(x), Rests(x), Handling(x)'
  PROVE  Handling(x) /\ row'[run[x].exec] = row[run[x].exec]
<1>1. /\ run[x].exec \in Execs /\ run'[x].exec = run[x].exec /\ run'[x].obj = run[x].obj
      /\ run[x].obj.ver \in Nat /\ row[run[x].exec].ver \in Nat
  BY ViewTypes DEF TypeOK, Rests, RowType
<1>2. Settling(run[x]) /\ Settling(run'[x])
  BY DEF Handling, Settling, Rests
<1>3. /\ run[x].obj.status = "failed" /\ row'[run[x].exec].status = "failed"
      /\ run[x].obj.ver = row'[run[x].exec].ver
  BY <1>1 DEF Handling
<1>4. row[run[x].exec].status \notin {"new", "deleted"} /\ run[x].obj.ver <= row[run[x].exec].ver
  BY <1>1, <1>2, <1>3, RowsAge DEF RunCurrent, Settling, TypeOK
<1>5. row'[run[x].exec] = row[run[x].exec]
  BY <1>1, <1>3, <1>4, RowsAge DEF TypeOK
<1> QED
  BY <1>2, <1>3, <1>5 DEF Handling

(* What a step may do to the row of a run that takes none.                 *)
Undisturbed(x) ==
  LET e == run[x].exec IN
  /\ Rests(x) /\ acks'[e] = acks[e]
  /\ BackAgain(e)' => BackAgain(e)
  /\ Keeps(x) /\ row'[e].status = "running" /\ row'[e].started = x =>
       row[e].status = "running" /\ row[e].started = x /\ row'[e].count = row[e].count
  /\ BackAgain(e)' /\ Owns(x) /\ row[e].status = "running" /\ row[e].started = x =>
       row'[e].status = "running" /\ row'[e].started = x
  /\ BackAgain(e)' /\ Handling(x) => row'[e] = row[e]

LEMMA UndisturbedAccounted ==
  ASSUME TypeOK, TypeOK', MovesOn, NEW x \in Runs, RunCurrent(x), RunAccounted(x), Undisturbed(x)
  PROVE  RunAccounted(x)'
<1> DEFINE e == run[x].exec
<1>1. /\ run'[x].exec = e /\ run'[x].obj = run[x].obj /\ run'[x].pc = run[x].pc
      /\ run'[x].exit = run[x].exit /\ acks'[e] = acks[e]
  BY DEF Undisturbed, Rests
<1>2. /\ Owns(x)' = Owns(x) /\ Keeps(x)' = Keeps(x)
      /\ GivenUp(x)' = GivenUp(x) /\ Failing(x)' = Failing(x)
  BY <1>1 DEF Owns, Keeps, GivenUp, Failing
<1>3. Handling(x)' => Handling(x) /\ row'[e] = row[e]
  BY RestingHandlesNot DEF Undisturbed
<1>4. /\ run'[x].pc \in InDispatch \cup {"scheduler"} => run'[x].exit = "settle"
      /\ run'[x].pc = "later" => run'[x].obj.count < MaxRetries
  BY <1>1 DEF RunAccounted
<1>5. Keeps(x)' /\ row'[e].status = "running" /\ row'[e].started = x => run'[x].obj.count = row'[e].count
  BY <1>1, <1>2 DEF RunAccounted, Undisturbed
<1>6. Handling(x)' => row'[e].started = x /\ x > acks'[e] /\ ~row'[e].due
  BY <1>1, <1>3 DEF RunAccounted
<1>7. ASSUME BackAgain(e)', Failing(x)', ~GivenUp(x)'
      PROVE  (row'[e].status = "running" /\ Owns(x)' /\ row'[e].started = x) \/ Handling(x)'
  <2>1. BackAgain(e) /\ Failing(x) /\ ~GivenUp(x)
    BY <1>2, <1>7 DEF Undisturbed
  <2>2. CASE row[e].status = "running" /\ Owns(x) /\ row[e].started = x
    BY <1>2, <1>7, <2>2 DEF Undisturbed
  <2>3. CASE Handling(x)
    <3>1. row'[e] = row[e]
      BY <1>7, <2>3 DEF Undisturbed
    <3> QED
      BY <1>1, <2>3, <3>1 DEF Handling, Settling
  <2> QED
    BY <2>1, <2>2, <2>3 DEF RunAccounted
<1> QED
  BY <1>1, <1>4, <1>5, <1>6, <1>7 DEF RunAccounted

(* A run that was never made has nothing to account for.                   *)
LEMMA UnusedAccounted ==
  ASSUME NEW x \in Runs, run'[x].pc = "unused"
  PROVE  RunAccounted(x)' /\ ~Failing(x)'
BY DEF RunAccounted, Failing, Handling, Settling, Keeps, Owns, OwnPC, InDispatch

(* What a step may do to a row while every run stays where it is.          *)
Calm(e) ==
  /\ acks'[e] = acks[e]
  /\ \/ row'[e].status = row[e].status /\ row'[e].started = row[e].started
        /\ row'[e].count = row[e].count /\ row'[e].due = row[e].due
     \/ CalledOff(e)'
     \/ row[e].status = "running" /\ row'[e].status = "failed" /\ ~row'[e].due
     \/ row'[e].status = "queued" /\ row'[e].count = row[e].count
        /\ \/ row[e].status = "failed" /\ row[e].due
           \/ row[e].status = "running" /\ \A x \in Runs : run[x].exec = e => ~Owns(x)
     \/ row[e].status = "new" /\ row'[e].status = "queued" /\ row'[e].count = 0

LEMMA CalmFate ==
  ASSUME TypeOK, TypeOK', ViewsCurrent, MovesOn, \A x \in Runs : Idle(x),
         NEW e \in Execs, Calm(e), row[e].status # "new"
  PROVE  BackAgain(e)' => BackAgain(e) /\ row'[e].count = row[e].count
<1>1. ASSUME NEW x \in Runs, run'[x].exec = e, Handling(x)'
      PROVE  run[x].exec = e /\ Handling(x) /\ row'[e] = row[e]
  BY <1>1, RestingHandlesNot DEF Rests, Idle, ViewsCurrent
<1> QED
  BY <1>1 DEF BackAgain, Calm, IsActive, Active, CalledOff

LEMMA CalmUndisturbed ==
  ASSUME TypeOK, TypeOK', ViewsCurrent, FencesHold, MovesOn, \A x \in Runs : Idle(x),
         NEW x \in Runs, RunAccounted(x), Calm(run[x].exec)
  PROVE  RunAccounted(x)'
<1>0. PICK e \in Execs : e = run[x].exec
  BY ViewTypes DEF TypeOK
<1>1. RunCurrent(x) /\ Idle(x) /\ Calm(e) /\ e = run'[x].exec
  BY <1>0 DEF ViewsCurrent, Idle
<1>2. BackAgain(run[x].exec)' <=> BackAgain(e)'
  BY <1>1 DEF BackAgain, IsActive
<1>3. CASE row[e].status = "new"
  <2>1. run'[x].pc = "unused"
    BY <1>0, <1>1, <1>3 DEF FencesHold, Fenced, Idle
  <2> QED
    BY <2>1, UnusedAccounted
<1>4. CASE row[e].status # "new"
  <2>1. BackAgain(e)' => BackAgain(e) /\ row'[e].count = row[e].count
    BY <1>1, <1>4, CalmFate
  <2>2. \A y \in Runs : run'[y].exec = e /\ Handling(y)' => row'[e] = row[e]
    BY RestingHandlesNot DEF Rests, Idle, ViewsCurrent
  <2>3. BackAgain(e)' /\ row'[e] # row[e] => IsActive(e)' \/ (row'[e].status = "failed" /\ row'[e].due)
    BY <2>2 DEF BackAgain
  <2>4. BackAgain(e)' /\ Handling(x) => row'[e] = row[e]
    <3>1. Handling(x) => row[e].status = "failed" /\ ~row[e].due
      BY <1>0 DEF Handling, RunAccounted
    <3> QED
      BY <1>1, <2>3, <3>1 DEF Calm, IsActive, Active, CalledOff
  <2>5. ~(BackAgain(e)' /\ CalledOff(e)')
    BY DEF BackAgain, IsActive, Active, CalledOff
  <2>6. BackAgain(e)' /\ Owns(x) /\ row[e].status = "running" /\ row[e].started = x =>
          row'[e].status = "running" /\ row'[e].started = x
    BY <1>0, <1>1, <1>4, <2>3, <2>5 DEF Calm, IsActive, Active
  <2>7. Keeps(x) /\ row'[e].status = "running" /\ row'[e].started = x =>
          row[e].status = "running" /\ row[e].started = x /\ row'[e].count = row[e].count
    BY <1>1, <1>4 DEF Calm, CalledOff
  <2> QED
    BY <1>0, <1>1, <1>2, <2>1, <2>4, <2>6, <2>7, UndisturbedAccounted DEF Undisturbed, Calm, Rests, Idle
<1> QED
  BY <1>3, <1>4

LEMMA IdleRetries ==
  ASSUME TypeOK, TypeOK', ViewsCurrent, FencesHold, RetriesInStep, MovesOn, \A x \in Runs : Idle(x),
         \A e \in Execs : Calm(e), claims' = claims, faults' >= faults
  PROVE  RetriesInStep'
<1>1. ASSUME NEW x \in Runs
      PROVE  RunAccounted(x)'
  <2>1. run[x].exec \in Execs
    BY ViewTypes DEF TypeOK
  <2> QED
    BY <2>1, CalmUndisturbed DEF RetriesInStep
<1>2. ASSUME NEW e \in Execs
      PROVE  CountKept(e)'
  <2>0. /\ CountKept(e) /\ Calm(e) /\ acks'[e] = acks[e]
        /\ row[e].count \in Nat /\ row'[e].count \in Nat /\ faults \in Nat /\ faults' \in Nat
    BY BoundsAssumption DEF RetriesInStep, Calm, TypeOK, StoreTypeOK, ManagerTypeOK, RowType
  <2>1. /\ acks'[e] <= claims'
        /\ row'[e].status \in {"running", "failed"} => claims' > 0
        /\ row'[e].status = "running" => row'[e].started > acks'[e]
    BY <2>0 DEF CountKept, Calm, CalledOff
  <2>2. Counted(e)' = Counted(e)
    BY <2>0 DEF Counted, Failing, GivenUp, Idle
  <2>3. CASE row[e].status # "new"
    <3>1. BackAgain(e)' => BackAgain(e) /\ row'[e].count = row[e].count
      BY <2>3, CalmFate
    <3>2. BackAgain(e)' => Cardinality(Counted(e)') <= row'[e].count + faults'
      <4>1. BackAgain(e)' => Counted(e)' \subseteq Counted(e) \cup {0}
        BY <2>2
      <4>2. BackAgain(e)' => Cardinality(Counted(e)) <= row[e].count + faults
        BY <2>0, <3>1 DEF CountKept
      <4>3. BackAgain(e)' => row'[e].count + faults' >= row[e].count + faults
        BY <2>0, <3>1
      <4> QED
        BY <2>2, <4>1, <4>2, <4>3, CountGoesOn
    <3> QED
      BY <2>0, <2>1, <3>1, <3>2 DEF CountKept
  <2>4. CASE row[e].status = "new"
    <3>1. Counted(e) = {}
      BY <2>4 DEF FencesHold, Fenced, Counted, Failing
    <3>2. row'[e].count = 0 \/ ~BackAgain(e)'
      <4>1. ASSUME row'[e].status = "new" PROVE ~BackAgain(e)'
        BY <4>1 DEF BackAgain, IsActive, Active
      <4>2. CalledOff(e)' => ~BackAgain(e)'
        BY DEF BackAgain, IsActive, Active, CalledOff
      <4> QED
        BY <2>0, <2>4, <4>1, <4>2 DEF Calm
    <3>3. Cardinality(Counted(e)') = 0
      BY <2>2, <3>1, FS_EmptySet
    <3> QED
      BY <2>0, <2>1, <3>2, <3>3, MaxRetriesAssumption DEF CountKept
  <2> QED
    BY <2>3, <2>4
<1> QED
  BY <1>1, <1>2 DEF RetriesInStep

-----------------------------------------------------------------------------
(* What a step of run r does to the row of its execution: as its owner, or *)
(* to settle its failure, which is counted where it leads to a retry.      *)
WritesOf(r, e) ==
  /\ \A x \in Execs \ {e} : row'[x] = row[x]
  /\ \/ row'[e] = row[e]
     \/ /\ Keeps(r) /\ row[e].status = "running" /\ row[e].started = r /\ row'[e].count = row[e].count
        /\ \/ row'[e].status = "running" /\ row'[e].started = r
           \/ row'[e].status = "queued"
           \/ row'[e].status \in Terminal /\ row'[e].started = r /\ ~row'[e].due
     \/ /\ Handling(r) /\ row'[e].status = "failed"
        /\ \/ ~row'[e].due /\ row'[e].count = row[e].count
           \/ row'[e].count = row[e].count + 1 /\ row'[e].count <= MaxRetries

LEMMA RunWrites ==
  ASSUME TypeOK, ViewsCurrent, FencesHold, OwnersInStep, NEW r \in Runs, RunAccounted(r),
         NEW e \in Execs, e = run[r].exec, RunStep(r) \/ \E a \in BOOLEAN : SaveFails(r, a)
  PROVE  WritesOf(r, e)
<1> DEFINE o == run[r].obj
<1> USE DEF storeVars
<1>0. /\ run[r] \in RunType /\ o \in RowType /\ RunCurrent(r) /\ row \in [Execs -> RowType]
      /\ StoreTypeOK /\ r \in Nat /\ r # 0 /\ Fenced(r) /\ row[e] \in RowType
      /\ OwnerHasRow(r) /\ ObjectAgrees(r)
  BY ViewTypes DEF TypeOK, RunsTypeOK, ViewsCurrent, StoreTypeOK, FencesHold, Runs, OwnersInStep
<1>1. CASE UNCHANGED row
  BY <1>0, <1>1 DEF WritesOf
<1>2. Owns(r) /\ IsActive(e) => row[e].status = "running" /\ row[e].started = r
  BY <1>0 DEF OwnerHasRow, CalledOff, IsActive, Active
<1>3. CASE ReadScheduler(r)
  <2>1. ~sched => ~Present(e)
    BY <1>0 DEF ViewsCurrent, StartCurrent
  <2> QED
    BY <1>1, <1>3, <2>1 DEF ReadScheduler
<1>4. CASE StartSession(r)
  <2>1. UNCHANGED row \/ (IsActive(e) /\ StartRow(e, o.sess, o.started))
    BY <1>4 DEF StartSession
  <2>2. Owns(r)
    BY <1>4 DEF StartSession, Owns, OwnPC, PC
  <2>3. CASE IsActive(e) /\ StartRow(e, o.sess, o.started)
    <3>1. o.sess \in Nat /\ o.started \in Nat
      BY <1>0 DEF RowType
    <3> QED
      BY <1>0, <1>2, <2>2, <2>3, <3>1, StartFields, RowCounts DEF WritesOf, Keeps
  <2> QED
    BY <1>1, <2>1, <2>3
<1>5. ASSUME run[r].pc \in {"save", "failwrite"}, StillActive(e, o), WriteRow(e, o)
      PROVE  WritesOf(r, e)
  <2>1. Owns(r) /\ IsActive(e) /\ o.status \in Terminal
    BY <1>0, <1>5 DEF StillActive, Owns, OwnPC, PC, RunCurrent, Terminal
  <2>2. o.started = r /\ ~o.due
    BY <1>0, <1>2, <1>5, <2>1 DEF ObjectAgrees, FirstObject, InDispatch, Clean, Fenced
  <2>3. o.count = row[e].count
    BY <1>0, <1>2, <2>1 DEF RunAccounted, Keeps
  <2>4. /\ \A x \in Execs \ {e} : row'[x] = row[x]
        /\ row'[e].status = o.status /\ row'[e].started = o.started /\ row'[e].due = o.due
    BY <1>0, <1>5, WriteFields
  <2>5. row'[e].count = o.count
    BY <1>0, <1>5, RowCounts
  <2> QED
    BY <1>2, <2>1, <2>2, <2>3, <2>4, <2>5 DEF WritesOf, Keeps
<1>6. CASE Save(r) \/ FailWrite(r) \/ \E a \in BOOLEAN : SaveFails(r, a)
  BY <1>1, <1>5, <1>6 DEF Save, FailWrite, SaveFails
<1>7. CASE InterruptRequeue(r)
  <2>1. UNCHANGED row \/ (RequeueRow(e, Requeued(o, FALSE)) /\ Requeueable(e, o.status, o.ver))
    BY <1>7 DEF InterruptRequeue
  <2>2. run[r].pc = "intrequeue" /\ Owns(r) /\ o.status \notin Terminal
    BY <1>0, <1>7 DEF InterruptRequeue, RunCurrent, Owns, OwnPC, PC
  <2>3. CASE RequeueRow(e, Requeued(o, FALSE)) /\ Requeueable(e, o.status, o.ver)
    <3>1. o = row[e] /\ row[e].status = "running" /\ row[e].started = r
      BY <1>0, <2>2, <2>3 DEF Requeueable, Unchanged, Present, ObjectAgrees, OwnerHasRow, CalledOff, Terminal
    <3> DEFINE n == Requeued(o, FALSE)
    <3>2. n \in RowType /\ n.status = "queued" /\ n.count = o.count
      BY <1>0, RequeuedFields
    <3>3. RequeueRow(e, n)
      BY <2>3
    <3> HIDE DEF n
    <3>4. row'[e].status = "queued" /\ \A x \in Execs \ {e} : row'[x] = row[x]
      BY <1>0, <3>2, <3>3, RequeueFields
    <3>5. row'[e].count = n.count
      BY <1>0, <3>2, <3>3, RowCounts
    <3> QED
      BY <2>2, <3>1, <3>2, <3>4, <3>5 DEF WritesOf, Keeps
  <2> QED
    BY <1>1, <2>1, <2>3
<1>8. CASE Settle(r)
  <2> DEFINE n == IF run[r].pc = "hold" THEN Held(o) ELSE [o EXCEPT !.count = @ + 1, !.due = TRUE]
  <2>1. UNCHANGED row \/ (WriteRow(e, n) /\ Unchanged(e, o.ver))
    BY <1>8 DEF Settle
  <2>2. o.status = "failed" /\ Settling(run[r]) /\ run[r].pc \in {"hold", "later"}
    BY <1>0, <1>8 DEF Settle, RunCurrent, Settling
  <2>3. CASE WriteRow(e, n) /\ Unchanged(e, o.ver)
    <3>1. o = row[e] /\ Handling(r) /\ row[e].status = "failed"
      BY <1>0, <2>2, <2>3 DEF Unchanged, ObjectAgrees, Handling
    <3>2. /\ n \in RowType /\ n.status = "failed"
          /\ (~n.due /\ n.count = o.count) \/ (n.count = o.count + 1 /\ n.count <= MaxRetries)
      <4>1. CASE run[r].pc = "hold"
        BY <1>0, <2>2, <4>1 DEF Held, RowType
      <4>2. CASE run[r].pc = "later"
        <5>1. o.count \in Nat /\ o.count + 1 \in Nat /\ o.count < MaxRetries
          BY <1>0, <4>2 DEF RowType, RunAccounted
        <5>2. n = [o EXCEPT !.count = o.count + 1, !.due = TRUE]
          BY <4>2
        <5>3. n \in RowType /\ n.status = "failed" /\ n.count = o.count + 1
          BY <1>0, <2>2, <5>1, <5>2 DEF RowType
        <5> QED
          BY <5>1, <5>3, MaxRetriesAssumption
      <4> QED
        BY <2>2, <4>1, <4>2
    <3> HIDE DEF n
    <3> QED
      BY <1>0, <2>3, <3>1, <3>2, WriteFields, RowCounts DEF WritesOf, Keeps
  <2> QED
    BY <1>1, <2>1, <2>3
<1> QED
  BY <1>1, <1>3, <1>4, <1>6, <1>7, <1>8
  DEF RunStep, DispatchFails, Register, Check, Open,
      StartEffect, WorkEnds, EndWork, Interrupted, AbsoluteTimeout, GuardTimeout, GuardCancel,
      LateWorkEnds, Reread, Fail, InterruptRead, InterruptJudge, Release, FinishRef, FinishRefRow, Judge

-----------------------------------------------------------------------------
(* What a step of run r leaves: a failure that is counted, the owner's, or *)
(* handled on.                                                             *)
Accounts(r, e) ==
  /\ run'[r].exec = e /\ RunAccounted(r)'
  /\ Handling(r)' => Handling(r) \/ IsActive(e)
  /\ BackAgain(e)' /\ Failing(r)' /\ GivenUp(r)' => (Failing(r) /\ GivenUp(r)) \/ Paid(e)

(* An owner that stays one.                                                *)
LEMMA OwnerAccounts ==
  ASSUME NEW r \in Runs, NEW e \in Execs, e = run[r].exec, RunAccounted(r), OwnerHasRow(r),
         Owns(r), Owns(r)', run'[r].exec = e,
         run'[r].obj.count \in {run[r].obj.count, row[e].count},
         run'[r].pc \in InDispatch \cup {"scheduler"} => run'[r].exit = "settle",
         \/ row'[e] = row[e]
         \/ row'[e].status = "running" /\ row'[e].started = row[e].started /\ row'[e].count = row[e].count
            /\ row[e].status = "running"
  PROVE  Accounts(r, e)
<1>1. run'[r].pc \in OwnPC /\ Keeps(r)
  BY DEF Owns, Keeps
<1>2. /\ ~Handling(r)' /\ ~GivenUp(r)' /\ run'[r].pc # "later"
  BY <1>1 DEF Handling, Settling, GivenUp, OwnPC
<1>3. CalledOff(e) \/ (row[e].status = "running" /\ row[e].started = r)
  BY DEF OwnerHasRow
<1>4. Keeps(r)' /\ row'[e].status = "running" /\ row'[e].started = r => run'[r].obj.count = row'[e].count
  BY <1>1, <1>3 DEF RunAccounted
<1>5. BackAgain(e)' => row'[e].status = "running" /\ row'[e].started = r
  <2>1. BackAgain(e)' => ~CalledOff(e)'
    BY DEF BackAgain, IsActive, Active, CalledOff
  <2> QED
    BY <1>3, <2>1 DEF CalledOff
<1>6. BackAgain(run[r].exec)' <=> BackAgain(e)'
  BY DEF BackAgain, IsActive
<1> QED
  BY <1>1, <1>2, <1>4, <1>5, <1>6 DEF Accounts, RunAccounted

(* An owner that leaves its row as it is, and takes over what it says.     *)
LEMMA LeaverAccounts ==
  ASSUME NEW r \in Runs, NEW e \in Execs, e = run[r].exec, RunAccounted(r), OwnerHasRow(r),
         Owns(r), run'[r].pc = "release", run'[r].exec = e, row'[e] = row[e],
         Present(e) => run'[r].obj = row[e]
  PROVE  Accounts(r, e)
<1>1. ~Keeps(r)' /\ run'[r].pc \notin InDispatch \cup {"scheduler", "later"}
  BY DEF Keeps, Owns, OwnPC, InDispatch
<1>2. CalledOff(e) \/ (row[e].status = "running" /\ row[e].started = r)
  BY DEF OwnerHasRow
<1>3. ~Handling(r)'
  BY <1>2 DEF Handling, CalledOff
<1>4. BackAgain(e)' => row[e].status = "running"
  BY <1>2 DEF BackAgain, IsActive, Active, CalledOff
<1>5. BackAgain(e)' => ~Failing(r)'
  BY <1>4 DEF Failing, Present
<1>6. BackAgain(run[r].exec)' <=> BackAgain(e)'
  BY DEF BackAgain, IsActive
<1> QED
  BY <1>1, <1>3, <1>5, <1>6 DEF Accounts, RunAccounted

(* An owner that writes how its run ended, or queues its execution again.  *)
LEMMA WriterAccounts ==
  ASSUME TypeOK, TypeOK', ViewsCurrent, MovesOn, NEW r \in Runs, NEW e \in Execs, e = run[r].exec,
         CountKept(e), acks' = acks, Alone(r), Owns(r), row[e].status = "running", row[e].started = r,
         run'[r].pc = "release", run'[r].exec = e, run'[r].obj = row'[e],
         row'[e].status \in Terminal \cup {"queued"}, row'[e].started = r \/ row'[e].status = "queued",
         row'[e].status \in Terminal => ~row'[e].due
  PROVE  Accounts(r, e)
<1>1. ~Keeps(r)' /\ run'[r].pc \notin InDispatch \cup {"scheduler", "later"}
  BY DEF Keeps, Owns, OwnPC, InDispatch
<1>2. Handling(r)' => row'[e].started = r /\ r > acks'[e] /\ ~row'[e].due /\ run'[r].exit = "settle"
  BY DEF Handling, CountKept, Settling, Terminal
<1>3. ASSUME BackAgain(e)', row'[e].status = "failed"
      PROVE  Handling(r)'
  <2>1. PICK x \in Runs : run'[x].exec = e /\ Handling(x)'
    BY <1>3 DEF BackAgain, IsActive, Active, Terminal
  <2>2. x # r => row'[e] = row[e]
    BY <2>1, RestingHandlesNot DEF Rests, Alone, Idle, ViewsCurrent
  <2> QED
    BY <2>1, <2>2 DEF Terminal
<1>4. BackAgain(e)' /\ Failing(r)' => Handling(r)' /\ ~GivenUp(r)'
  <2>1. Failing(r)' => row'[e].status = "failed"
    BY DEF Failing
  <2> QED
    BY <1>2, <1>3, <2>1 DEF GivenUp
<1>5. BackAgain(run[r].exec)' <=> BackAgain(e)'
  BY DEF BackAgain, IsActive
<1>6. IsActive(e)
  BY DEF IsActive, Active
<1> QED
  BY <1>1, <1>2, <1>4, <1>5, <1>6 DEF Accounts, RunAccounted

(* The end of failure handling.                                            *)
LEMMA HandlerAccounts ==
  ASSUME TypeOK, TypeOK', ViewsCurrent, MovesOn, NEW r \in Runs, NEW e \in Execs, e = run[r].exec,
         \A x \in Runs : RunAccounted(x), Alone(r), faults' = faults, acks' = acks, WritesOf(r, e),
         run[r].pc \in {"judge", "hold", "later"}, run'[r].pc = "over", run'[r].exec = e,
         run'[r].obj = run[r].obj
  PROVE  Accounts(r, e)
<1>1. ~Owns(r) /\ ~Keeps(r) /\ ~GivenUp(r)
  BY DEF Owns, Keeps, OwnPC, GivenUp
<1>2. ASSUME NEW x \in Runs, run'[x].exec = e, Handling(x)'
      PROVE  run[x].exec = e /\ Handling(x) /\ row'[e] = row[e] /\ row[e].started = x /\ x # r
  <2>1. x # r
    BY <1>2 DEF Handling, Settling
  <2> QED
    BY <1>2, <2>1, RestingHandlesNot DEF Rests, Alone, Idle, ViewsCurrent, RunAccounted
<1>3. ASSUME BackAgain(e)', Failing(r)'
      PROVE  Paid(e)
  <2>1. Failing(r)
    BY <1>3 DEF Failing
  <2>2. row'[e] = row[e] => BackAgain(e)
    BY <1>2, <1>3 DEF BackAgain, IsActive
  <2>3. Handling(r)
    BY <1>1, <2>1, <2>2 DEF WritesOf, RunAccounted
  <2>4. row[e].status = "failed" /\ row[e].started = r /\ ~row[e].due
    BY <2>3 DEF Handling, RunAccounted
  <2>5. row'[e].status = "failed" /\ row'[e].due
    BY <1>1, <1>2, <1>3, <2>4 DEF BackAgain, IsActive, Active, WritesOf
  <2>6. row'[e].count = row[e].count + 1
    BY <1>1, <2>4, <2>5 DEF WritesOf
  <2> QED
    <3>1. row[e].count \in Nat /\ faults \in Nat
      BY BoundsAssumption DEF TypeOK, StoreTypeOK, ManagerTypeOK, RowType
    <3> QED
      BY <2>6, <3>1 DEF Paid
<1>4. BackAgain(run[r].exec)' <=> BackAgain(e)'
  BY DEF BackAgain, IsActive
<1>5. ~Handling(r)' /\ ~Keeps(r)' /\ GivenUp(r)'
  BY DEF Handling, Settling, Keeps, Owns, OwnPC, GivenUp
<1> QED
  BY <1>3, <1>4, <1>5 DEF Accounts, RunAccounted, InDispatch

(* Every step of a dispatcher accounts for its run.                        *)
LEMMA RunAccounts ==
  ASSUME TypeOK, TypeOK', ViewsCurrent, FencesHold, OwnersInStep, MovesOn, NEW r \in Runs,
         NEW e \in Execs, e = run[r].exec, \A x \in Runs : RunAccounted(x), CountKept(e),
         faults' = faults, acks' = acks, Alone(r), WritesOf(r, e), RunStep(r)
  PROVE  Accounts(r, e)
<1> DEFINE o == run[r].obj
<1> USE DEF storeVars, queueVars
<1>0. /\ RunAccounted(r)
      /\ run[r] \in RunType /\ run \in [Runs -> RunType] /\ o \in RowType /\ RunCurrent(r)
      /\ OwnerHasRow(r) /\ Fenced(r) /\ ObjectAgrees(r) /\ row[e] \in RowType /\ StoreTypeOK
  BY ViewTypes DEF TypeOK, RunsTypeOK, ViewsCurrent, StoreTypeOK, FencesHold, OwnersInStep
<1>1. ASSUME Owns(r), run'[r].pc \in OwnPC, run'[r].exec = e, row'[e] = row[e],
             run'[r].obj.count \in {o.count, row[e].count},
             run'[r].pc \in InDispatch \cup {"scheduler"} => run'[r].exit = "settle"
      PROVE  Accounts(r, e)
  BY <1>0, <1>1, OwnerAccounts DEF Owns
<1>2. run[r].pc \in InDispatch \cup {"scheduler"} => run[r].exit = "settle"
  BY <1>0 DEF RunAccounted
<1>3. ASSUME row' = row, run'[r].exec = e, run'[r].pc = run[r].pc, run'[r].obj = o, run'[r].exit = run[r].exit
      PROVE  Accounts(r, e)
  <2>1. \A y \in Runs : run'[y].exec = e /\ Handling(y)' => run[y].exec = e /\ Handling(y)
    BY <1>3, RestingHandlesNot DEF Rests, Alone, Idle, ViewsCurrent
  <2>2. BackAgain(e)' => BackAgain(e)
    BY <1>3, <2>1 DEF BackAgain, IsActive
  <2>3. BackAgain(run[r].exec)' <=> BackAgain(e)'
    BY <1>3 DEF BackAgain, IsActive
  <2>4. RunAccounted(r)'
    BY <1>0, <1>3, <2>2, <2>3, UndisturbedAccounted DEF Undisturbed, Rests
  <2> QED
    BY <1>3, <2>1, <2>4 DEF Accounts, Failing, GivenUp
<1>4. CASE ReadScheduler(r)
  <2>1. CASE sched
    <3> DEFINE z == IF e \in Workflow THEN 0 ELSE IF o.sess = 0 THEN r ELSE o.sess
    <3>1. run' = [run EXCEPT ![r].pc = "start", ![r].obj = [o EXCEPT !.sess = z]] /\ row' = row
      BY <1>4, <2>1 DEF ReadScheduler
    <3> HIDE DEF z
    <3>2. /\ run'[r].pc = "start" /\ run'[r].exec = e /\ run'[r].exit = run[r].exit
          /\ run'[r].obj.count = o.count
      BY <1>0, <3>1 DEF RunType, RowType
    <3> QED
      BY <1>1, <1>2, <1>4, <3>1, <3>2 DEF ReadScheduler, Owns, OwnPC, PC
  <2>2. CASE ~sched
    <3>1. run'[r].pc = "over" /\ run'[r].exec = e
      BY <1>0, <1>4, <2>2 DEF ReadScheduler, RunType
    <3>2. ~Present(e) /\ row' = row
      BY <1>4, <2>2 DEF ReadScheduler, ViewsCurrent, StartCurrent
    <3>3. ~BackAgain(e)' /\ ~BackAgain(run[r].exec)'
      BY <3>1, <3>2 DEF BackAgain, IsActive, Active, Present
    <3> QED
      BY <3>1, <3>3 DEF Accounts, RunAccounted, Handling, Settling, Keeps, Owns, OwnPC, InDispatch
  <2> QED
    BY <2>1, <2>2
<1>5. CASE StartSession(r)
  <2>1. /\ run'[r].exec = e /\ run'[r].obj = o /\ run'[r].exit = run[r].exit
        /\ run'[r].pc \in {"register", "reread"} /\ run[r].pc = "start"
    BY <1>0, <1>5 DEF StartSession, RunType
  <2>2. Owns(r) /\ Owns(r)' /\ run[r].exit = "settle"
    BY <1>2, <2>1 DEF Owns, OwnPC, PC, InDispatch
  <2>3. row'[e] = row[e] \/ (IsActive(e) /\ StartRow(e, o.sess, o.started))
    BY <1>5 DEF StartSession
  <2>4. IsActive(e) => row[e].status = "running" /\ row[e].started = r
    BY <1>0, <2>2 DEF OwnerHasRow, CalledOff, IsActive, Active
  <2>5. \/ row'[e] = row[e]
        \/ row'[e].status = "running" /\ row'[e].started = row[e].started /\ row'[e].count = row[e].count
           /\ row[e].status = "running"
    <3>1. CASE IsActive(e) /\ StartRow(e, o.sess, o.started)
      <4>1. row'[e].status = "running"
        BY <1>0, <3>1 DEF StartRow, StoreTypeOK, RowType
      <4> QED
        BY <2>4, <3>1, <4>1 DEF WritesOf, Handling, Active
    <3> QED
      BY <2>3, <3>1
  <2> QED
    BY <1>0, <2>1, <2>2, <2>5, OwnerAccounts
<1>6. CASE DispatchFails(r) \/ Register(r) \/ GuardTimeout(r) \/ InterruptJudge(r) \/ AbsoluteTimeout(r)
  <2>1. /\ row' = row /\ run'[r].exec = e /\ run'[r].exit = run[r].exit
        /\ run'[r].obj \in {o, [o EXCEPT !.status = "failed"]}
        /\ run[r].pc \in {"start", "register", "work", "intjudge"}
        /\ \/ run'[r].pc \in {"fail", "guard", "intrequeue"}
           \/ run'[r].pc \in {"check", "save"} /\ run[r].pc \in {"register", "work"}
    BY <1>0, <1>6 DEF DispatchFails, Register, GuardTimeout, InterruptJudge, AbsoluteTimeout, RunType
  <2>2. run'[r].obj.count = o.count
    BY <1>0, <2>1 DEF RowType
  <2> QED
    BY <1>1, <1>2, <2>1, <2>2 DEF Owns, OwnPC, PC, InDispatch
<1>7. CASE GuardCancel(r)
  <2> DEFINE S == Reached(e, o.sess)
  <2>1. run' = [Signalled(S) EXCEPT ![r].pc = "fail"] /\ row' = row /\ run[r].pc = "guard"
    BY <1>7 DEF GuardCancel
  <2> HIDE DEF S
  <2>2. run'[r] = [Signalled(S)[r] EXCEPT !.pc = "fail"]
    BY <2>1 DEF Signalled
  <2>3. Signalled(S)[r] \in RunType
    BY <1>0 DEF Signalled, RunType
  <2>4. run'[r].exec = e /\ run'[r].obj = o /\ run'[r].pc = "fail"
    BY <1>0, <2>2, <2>3, SignalledKeeps DEF RunType, TypeOK
  <2> QED
    BY <1>1, <2>1, <2>4 DEF Owns, OwnPC, PC, InDispatch
<1>8. ASSUME run[r].pc \in {"check", "open", "work"}, NEW s, EndWork(r, s)
      PROVE  Accounts(r, e)
  <2>1. /\ row' = row /\ run'[r].exec = e /\ run'[r].exit = run[r].exit /\ run'[r].pc = "save"
        /\ run'[r].obj = [o EXCEPT !.status = s]
    BY <1>0, <1>8 DEF EndWork, RunType
  <2>2. run'[r].obj.count = o.count
    BY <1>0, <2>1 DEF RowType
  <2> QED
    BY <1>1, <1>2, <1>8, <2>1, <2>2 DEF Owns, OwnPC, PC, InDispatch
<1>9. ASSUME run[r].pc \in {"check", "open", "work"}, Interrupted(r)
      PROVE  Accounts(r, e)
  <2>1. row' = row /\ run'[r].exec = e /\ run'[r].pc = "intread" /\ run'[r].obj = o
    BY <1>0, <1>9 DEF Interrupted, RunType
  <2> QED
    BY <1>1, <1>9, <2>1 DEF Owns, OwnPC, PC, InDispatch
<1>10. ASSUME run[r].pc \in {"check", "open"}, row' = row, NEW pc \in {"open", "work"}, run'[r].pc = pc,
              run'[r].exec = e, run'[r].obj = o, run'[r].exit = run[r].exit
       PROVE  Accounts(r, e)
  BY <1>1, <1>2, <1>10 DEF Owns, OwnPC, PC, InDispatch
<1>11. CASE Check(r) \/ Open(r) \/ WorkEnds(r)
  <2>1. run[r].pc \in {"check", "open", "work"}
    BY <1>11 DEF Check, Open, WorkEnds
  <2>2. \/ \E s : EndWork(r, s)
        \/ Interrupted(r)
        \/ /\ run[r].pc \in {"check", "open"} /\ row' = row /\ run'[r].pc \in {"open", "work"}
           /\ run'[r].exec = e /\ run'[r].obj = o /\ run'[r].exit = run[r].exit
    BY <1>0, <1>11 DEF Check, Open, WorkEnds, RunType
  <2> QED
    BY <1>8, <1>9, <1>10, <2>1, <2>2
<1>12. CASE StartEffect(r) \/ LateWorkEnds(r)
  <2>1. row' = row /\ run'[r] \in {[run[r] EXCEPT !.eff = TRUE], [run[r] EXCEPT !.work = "ended"]}
    BY <1>0, <1>12 DEF StartEffect, LateWorkEnds
  <2>2. /\ run'[r].exec = e /\ run'[r].pc = run[r].pc /\ run'[r].obj = o /\ run'[r].exit = run[r].exit
    BY <1>0, <2>1 DEF RunType
  <2> QED
    BY <1>3, <2>1, <2>2
<1>13. ASSUME Owns(r), run'[r].pc = "release", run'[r].exec = e, row'[e] = row[e],
              Present(e) => run'[r].obj = row[e]
       PROVE  Accounts(r, e)
  BY <1>0, <1>13, LeaverAccounts
<1>14. Owns(r) /\ IsActive(e) => row[e].status = "running" /\ row[e].started = r
  BY <1>0 DEF OwnerHasRow, CalledOff, IsActive, Active
<1>15. CASE Save(r) \/ FailWrite(r)
  <2>1. Owns(r) /\ o.status \in Terminal /\ run[r].pc \in {"save", "failwrite"}
    BY <1>0, <1>15 DEF Save, FailWrite, Owns, OwnPC, PC, RunCurrent, Terminal
  <2>2. CASE StillActive(e, o)
    <3> DEFINE z == row'[e]
    <3>1. WriteRow(e, o) /\ run' = [run EXCEPT ![r].pc = "release", ![r].obj = z]
      BY <1>15, <2>2 DEF Save, FailWrite
    <3> HIDE DEF z
    <3>2. run'[r].pc = "release" /\ run'[r].exec = e /\ run'[r].obj = z
      BY <1>0, <3>1 DEF RunType
    <3>3. row[e].status = "running" /\ row[e].started = r
      BY <1>14, <2>1, <2>2 DEF StillActive
    <3>4. o.started = r /\ ~o.due
      BY <1>0, <2>1, <3>3 DEF ObjectAgrees, FirstObject, InDispatch, Clean, Fenced
    <3>5. row'[e].status = o.status /\ row'[e].started = o.started /\ row'[e].due = o.due
      BY <1>0, <3>1, WriteFields
    <3> QED
      BY <2>1, <3>2, <3>3, <3>4, <3>5, WriterAccounts DEF z
  <2>3. CASE ~StillActive(e, o)
    <3>1. row' = row /\ run'[r].pc \in {"reread", "failreread"} /\ run'[r].exec = e /\ run'[r].obj = o
      BY <1>0, <1>15, <2>3 DEF Save, FailWrite, RunType
    <3> QED
      BY <1>1, <2>1, <3>1 DEF OwnPC, PC, InDispatch
  <2> QED
    BY <2>2, <2>3
<1>16. CASE Reread(r)
  <2>1. /\ row' = row /\ run'[r].pc = "release" /\ run'[r].exec = e /\ run'[r].obj = Current(e, o)
        /\ run[r].pc \in {"reread", "failreread"}
    BY <1>0, <1>16 DEF Reread, RunType
  <2> QED
    BY <1>13, <2>1 DEF Owns, OwnPC, PC, Current
<1>17. CASE Fail(r)
  <2> DEFINE c == Current(e, o)
             f == [c EXCEPT !.status = "failed"]
             n == IF run[r].exit = "raise" THEN Held(f) ELSE f
  <2>1. row' = row /\ Owns(r)
    BY <1>17 DEF Fail, Owns, OwnPC, PC
  <2>2. CASE Present(e) /\ c.status \in Terminal
    <3>1. run'[r].pc = "release" /\ run'[r].exec = e /\ run'[r].obj = c
      BY <1>0, <1>17, <2>2 DEF Fail, RunType
    <3> QED
      BY <1>13, <2>1, <3>1 DEF Current
  <2>3. CASE ~(Present(e) /\ c.status \in Terminal)
    <3>1. run'[r].pc = "failwrite" /\ run'[r].exec = e /\ run'[r].obj = n
      BY <1>0, <1>17, <2>3 DEF Fail, RunType
    <3>2. c \in RowType /\ c.count \in {o.count, row[e].count}
      BY <1>0 DEF Current
    <3>3. n.count = c.count
      BY <3>2 DEF Held, RowType
    <3> QED
      BY <1>1, <2>1, <3>1, <3>2, <3>3 DEF OwnPC, PC, InDispatch
  <2> QED
    BY <2>2, <2>3
<1>18. CASE InterruptRead(r)
  <2>1. /\ row' = row /\ run'[r].exec = e /\ run'[r].obj = Current(e, o)
        /\ run'[r].pc \in {"release", "intjudge"} /\ run[r].pc = "intread"
    BY <1>0, <1>18 DEF InterruptRead, RunType
  <2>2. Owns(r)
    BY <2>1 DEF Owns, OwnPC, PC
  <2> QED
    BY <1>1, <1>13, <2>1, <2>2 DEF Current, OwnPC, PC, InDispatch
<1>19. CASE InterruptRequeue(r)
  <2> DEFINE q == Requeued(o, FALSE)
             z == row'[e]
  <2>1. Owns(r) /\ o.status \notin Terminal
    BY <1>0, <1>19 DEF InterruptRequeue, Owns, OwnPC, PC, RunCurrent
  <2>2. CASE Requeueable(e, o.status, o.ver)
    <3>1. RequeueRow(e, q) /\ run' = [run EXCEPT ![r].pc = "release", ![r].exit = "requeued", ![r].obj = z]
      BY <1>19, <2>2 DEF InterruptRequeue
    <3> HIDE DEF z
    <3>2. run'[r].pc = "release" /\ run'[r].exec = e /\ run'[r].obj = z
      BY <1>0, <3>1 DEF RunType
    <3>3. row[e].status = "running" /\ row[e].started = r
      BY <1>0, <2>1, <2>2 DEF Requeueable, Unchanged, Present, OwnerHasRow, CalledOff, Terminal
    <3>4. q \in RowType /\ q.status = "queued"
      BY <1>0, RequeuedFields
    <3> HIDE DEF q
    <3>5. row'[e].status = "queued"
      BY <1>0, <3>1, <3>4, RequeueFields
    <3> QED
      BY <2>1, <3>2, <3>3, <3>5, WriterAccounts DEF z, Terminal
  <2>3. CASE ~Requeueable(e, o.status, o.ver)
    <3> DEFINE x == IF Current(e, q).status = "queued" THEN "requeued" ELSE run[r].exit
    <3>1. row' = row /\ run' = [run EXCEPT ![r].pc = "release", ![r].obj = Current(e, q), ![r].exit = x]
      BY <1>19, <2>3 DEF InterruptRequeue
    <3> HIDE DEF x
    <3>2. run'[r].pc = "release" /\ run'[r].exec = e /\ run'[r].obj = Current(e, q)
      BY <1>0, <3>1 DEF RunType
    <3> QED
      BY <1>13, <2>1, <3>1, <3>2 DEF Current
  <2> QED
    BY <2>2, <2>3
<1>20. CASE Release(r) \/ FinishRef(r)
  <2>1. /\ row' = row /\ run'[r].exec = e /\ run'[r].obj = o /\ run'[r].exit = run[r].exit
        /\ run[r].pc \in {"release", "finishref"} /\ run'[r].pc \in {"finishref", Done(r)}
    BY <1>0, <1>20 DEF Release, FinishRef, FinishRefRow, RunType
  <2>2. Done(r) = IF run[r].exit = "settle" /\ o.status = "failed" THEN "judge" ELSE "over"
    BY DEF Done
  <2>3. Handling(r)' => Handling(r)
    BY <2>1, <2>2 DEF Handling, Settling
  <2>4. ~Keeps(r) /\ ~Keeps(r)' /\ ~Owns(r)
    BY <2>1, <2>2 DEF Keeps, Owns, OwnPC
  <2>5. \A y \in Runs : run'[y].exec = e /\ Handling(y)' => run[y].exec = e /\ Handling(y)
    BY <2>1, <2>3, RestingHandlesNot DEF Rests, Alone, Idle, ViewsCurrent
  <2>6. BackAgain(e)' => BackAgain(e)
    BY <2>1, <2>5 DEF BackAgain, IsActive
  <2>7. GivenUp(r)' /\ Failing(r)' => GivenUp(r) /\ Failing(r)
    BY <2>1, <2>2 DEF GivenUp, Failing
  <2>8. ASSUME BackAgain(e)', Failing(r)', ~GivenUp(r)' PROVE Handling(r)'
    <3>1. run[r].exit = "settle"
      BY <2>1, <2>2, <2>8 DEF GivenUp
    <3>2. Failing(r) /\ ~GivenUp(r)
      BY <2>1, <2>2, <2>8, <3>1 DEF Failing, GivenUp
    <3>3. Handling(r)
      BY <1>0, <2>4, <2>6, <2>8, <3>2 DEF RunAccounted
    <3> QED
      BY <2>1, <2>2, <2>8, <3>1, <3>3 DEF Handling, Settling, GivenUp
  <2>9. BackAgain(run[r].exec)' <=> BackAgain(e)'
    BY <2>1 DEF BackAgain, IsActive
  <2>10. run'[r].pc \notin InDispatch \cup {"scheduler", "later"}
    BY <2>1, <2>2 DEF InDispatch
  <2> QED
    BY <1>0, <2>1, <2>3, <2>4, <2>7, <2>8, <2>9, <2>10 DEF Accounts, RunAccounted
<1>21. CASE Judge(r)
  <2>1. /\ row' = row /\ run'[r].exec = e /\ run'[r].obj = o /\ run[r].pc = "judge"
        /\ \/ run'[r].pc = "hold"
           \/ run'[r].pc = "later" /\ o.count < MaxRetries
           \/ run'[r].pc = "over"
    BY <1>0, <1>21 DEF Judge, RunType
  <2>2. CASE run'[r].pc = "over"
    BY <2>1, <2>2, HandlerAccounts
  <2>3. CASE run'[r].pc \in {"hold", "later"}
    <3>1. Handling(r)' <=> Handling(r)
      BY <2>1, <2>3 DEF Handling, Settling
    <3>2. ~Keeps(r)' /\ ~Owns(r) /\ ~GivenUp(r) /\ ~GivenUp(r)' /\ (Failing(r)' => Failing(r))
      BY <2>1, <2>3 DEF Keeps, Owns, OwnPC, GivenUp, Failing
    <3>3. \A y \in Runs : run'[y].exec = e /\ Handling(y)' => run[y].exec = e /\ Handling(y)
      BY <2>1, <3>1, RestingHandlesNot DEF Rests, Alone, Idle, ViewsCurrent
    <3>4. BackAgain(e)' => BackAgain(e)
      BY <2>1, <3>3 DEF BackAgain, IsActive
    <3>5. BackAgain(run[r].exec)' <=> BackAgain(e)'
      BY <2>1 DEF BackAgain, IsActive
    <3> QED
      BY <1>0, <2>1, <2>3, <3>1, <3>2, <3>4, <3>5 DEF Accounts, RunAccounted, InDispatch
  <2> QED
    BY <2>1, <2>2, <2>3
<1>22. CASE Settle(r)
  <2>1. run'[r].pc = "over" /\ run'[r].exec = e /\ run'[r].obj = o /\ run[r].pc \in {"hold", "later"}
    BY <1>0, <1>22 DEF Settle, RunType
  <2> QED
    BY <2>1, HandlerAccounts
<1> QED
  BY <1>4, <1>5, <1>6, <1>7, <1>11, <1>12, <1>15, <1>16, <1>17, <1>18, <1>19, <1>20, <1>21, <1>22 DEF RunStep

-----------------------------------------------------------------------------
(* What carries the count of an execution over a step.                     *)
LEMMA CountCarries ==
  ASSUME TypeOK, TypeOK', NEW e \in Execs, CountKept(e), acks'[e] = acks[e],
         claims' >= claims, faults' >= faults,
         row'[e].status \in {"running", "failed"} => claims' > 0,
         row'[e].status = "running" => row'[e].started > acks[e],
         NEW r,
         BackAgain(e)' => /\ BackAgain(e) /\ row'[e].count >= row[e].count
                          /\ row'[e].count = row[e].count \/ row'[e].count <= MaxRetries
                          /\ Counted(e)' \subseteq Counted(e) \cup {r}
                          /\ Paid(e) \/ Counted(e)' \subseteq Counted(e)
  PROVE  CountKept(e)'
<1>1. /\ row[e].count \in Nat /\ row'[e].count \in Nat /\ faults \in Nat /\ faults' \in Nat
      /\ claims \in Nat /\ claims' \in Nat /\ acks[e] \in Nat
  BY BoundsAssumption, MaxClaimsAssumption DEF TypeOK, StoreTypeOK, ManagerTypeOK, RunsTypeOK, RowType
<1>2. ASSUME BackAgain(e)'
      PROVE  Cardinality(Counted(e)') <= row'[e].count + faults'
  <2>1. Cardinality(Counted(e)) <= row[e].count + faults
    BY <1>2 DEF CountKept
  <2>2. row'[e].count + faults' >= row[e].count + faults
    BY <1>1, <1>2
  <2> QED
    BY <1>2, <2>1, <2>2, CountGoesOn
<1>3. BackAgain(e)' /\ acks'[e] = 0 => row'[e].count <= MaxRetries
  BY DEF CountKept
<1>4. acks'[e] <= claims'
  BY <1>1 DEF CountKept
<1> QED
  BY <1>2, <1>3, <1>4 DEF CountKept

(* A run whose result is superseded while it waits to be written.          *)
LetGo(x) == /\ run[x].pc = "pending" /\ run'[x].pc = "over"
            /\ run'[x].exec = run[x].exec /\ run'[x].obj = run[x].obj

LEMMA LetGoAccounted ==
  ASSUME NEW x \in Runs, LetGo(x)
  PROVE  RunAccounted(x)' /\ ~Handling(x)'
BY DEF LetGo, RunAccounted, Handling, Settling, Keeps, Owns, OwnPC, InDispatch, GivenUp

(* Runs that stay where they are, and rows nobody writes, bring nothing    *)
(* back.                                                                   *)
LEMMA NothingNew ==
  ASSUME TypeOK, TypeOK', ViewsCurrent, MovesOn, NEW e \in Execs, row'[e] = row[e],
         \A x \in Runs : run'[x].exec = e => Rests(x) \/ LetGo(x) \/ ~Handling(x)'
  PROVE  BackAgain(e)' => BackAgain(e)
<1>1. ASSUME NEW x \in Runs, run'[x].exec = e, Handling(x)'
      PROVE  run[x].exec = e /\ Handling(x)
  BY <1>1, RestingHandlesNot, LetGoAccounted DEF Rests, ViewsCurrent
<1> QED
  BY <1>1 DEF BackAgain, IsActive

LEMMA RowKeptAccounted ==
  ASSUME TypeOK, TypeOK', ViewsCurrent, MovesOn, NEW x \in Runs, RunAccounted(x), Rests(x),
         row'[run[x].exec] = row[run[x].exec], acks'[run[x].exec] = acks[run[x].exec],
         \A y \in Runs : run'[y].exec = run[x].exec => Rests(y) \/ LetGo(y) \/ ~Handling(y)'
  PROVE  RunAccounted(x)'
<1>0. PICK e \in Execs : e = run[x].exec
  BY ViewTypes DEF TypeOK
<1>1. BackAgain(e)' => BackAgain(e)
  BY <1>0, NothingNew
<1>2. BackAgain(run[x].exec)' <=> BackAgain(e)'
  BY <1>0 DEF BackAgain, IsActive, Rests
<1> QED
  BY <1>0, <1>1, <1>2, UndisturbedAccounted DEF Undisturbed, ViewsCurrent

(* A step that moves nothing but results out of the waiting list.          *)
LEMMA RestRetries ==
  ASSUME TypeOK, TypeOK', ViewsCurrent, RetriesInStep, MovesOn, row' = row, acks' = acks, claims' = claims,
         faults' >= faults, \A x \in Runs : Rests(x) \/ LetGo(x)
  PROVE  RetriesInStep'
<1>1. ASSUME NEW x \in Runs
      PROVE  RunAccounted(x)'
  BY <1>1, RowKeptAccounted, LetGoAccounted DEF RetriesInStep
<1>2. ASSUME NEW e \in Execs
      PROVE  CountKept(e)'
  <2>1. BackAgain(e)' => BackAgain(e)
    BY NothingNew
  <2>2. Counted(e)' \subseteq Counted(e)
    BY DEF Counted, Failing, GivenUp, Rests, LetGo
  <2>3. CountKept(e) /\ row[e].count \in Nat /\ claims \in Nat
    BY MaxClaimsAssumption DEF RetriesInStep, TypeOK, StoreTypeOK, RowType, RunsTypeOK
  <2>4. /\ row'[e].status \in {"running", "failed"} => claims' > 0
        /\ row'[e].status = "running" => row'[e].started > acks[e]
    BY <2>3 DEF CountKept
  <2>5. Counted(e)' \subseteq Counted(e) \cup {0}
    BY <2>2
  <2> QED
    BY <2>1, <2>2, <2>3, <2>4, <2>5, CountCarries
<1> QED
  BY <1>1, <1>2 DEF RetriesInStep

(* A step of run r, which may let go of results that wait.                 *)
LEMMA ActorRetries ==
  ASSUME TypeOK, TypeOK', ViewsCurrent, RetriesInStep, MovesOn, NEW r \in Runs, NEW e \in Execs,
         e = run[r].exec, WritesOf(r, e), Accounts(r, e), \A x \in Runs \ {r} : Rests(x) \/ LetGo(x),
         acks' = acks, claims' = claims, faults' >= faults
  PROVE  RetriesInStep'
<1>0. /\ row[e].count \in Nat /\ row'[e].count \in Nat /\ \A x \in Runs : RunAccounted(x)
      /\ RunAccounted(r)' /\ run'[r].exec = e
  BY DEF RetriesInStep, TypeOK, StoreTypeOK, RowType, Accounts
<1>1. BackAgain(e)' => BackAgain(e)
  <2>1. ASSUME NEW z \in Runs, run'[z].exec = e, Handling(z)'
        PROVE  BackAgain(e)
    <3>1. CASE z = r
      BY <2>1, <3>1 DEF Accounts, BackAgain, Handling
    <3>2. CASE z # r
      BY <2>1, <3>2, RestingHandlesNot, LetGoAccounted DEF Rests, ViewsCurrent, BackAgain, Handling
    <3> QED
      BY <3>1, <3>2
  <2>2. IsActive(e)' => IsActive(e)
    BY DEF IsActive, Active, Terminal, WritesOf
  <2>3. row'[e].status = "failed" /\ row'[e].due => BackAgain(e)
    BY DEF WritesOf, BackAgain, IsActive, Active, Handling
  <2> QED
    BY <2>1, <2>2, <2>3 DEF BackAgain
<1>2. ASSUME NEW x \in Runs \ {r}
      PROVE  RunAccounted(x)'
  <2>1. CASE LetGo(x)
    BY <2>1, LetGoAccounted
  <2>2. CASE Rests(x) /\ run[x].exec # e
    <3>1. run[x].exec \in Execs
      BY ViewTypes DEF TypeOK
    <3>2. row'[run[x].exec] = row[run[x].exec]
      BY <2>2, <3>1 DEF WritesOf
    <3> QED
      BY <1>0, <2>2, <3>2, RowKeptAccounted
  <2>3. CASE Rests(x) /\ run[x].exec = e
    <3>1. BackAgain(run[x].exec)' <=> BackAgain(e)'
      BY <2>3 DEF BackAgain, IsActive, Rests
    <3>2. Handling(x) => row[e].status = "failed" /\ row[e].started = x
      BY <1>0, <2>3 DEF Handling, RunAccounted
    <3>3. Handling(r) => row[e].status = "failed" /\ row[e].started = r
      BY <1>0 DEF Handling, RunAccounted
    <3>4. Undisturbed(x)
      BY <1>1, <2>3, <3>1, <3>2, <3>3 DEF Undisturbed, WritesOf, Terminal
    <3> QED
      BY <1>0, <3>4, UndisturbedAccounted DEF ViewsCurrent
  <2> QED
    BY <2>1, <2>2, <2>3
<1>3. ASSUME NEW d \in Execs
      PROVE  CountKept(d)'
  <2>0. CountKept(d) /\ claims \in Nat /\ row[d].count \in Nat
    BY MaxClaimsAssumption DEF RetriesInStep, TypeOK, RunsTypeOK, StoreTypeOK, RowType
  <2>1. /\ row'[d].status \in {"running", "failed"} => claims' > 0
        /\ row'[d].status = "running" => row'[d].started > acks[d]
    <3>1. CASE row'[d] = row[d]
      BY <2>0, <3>1 DEF CountKept
    <3>2. CASE row'[d] # row[d]
      BY <2>0, <3>2 DEF CountKept, WritesOf, Handling, Terminal
    <3> QED
      BY <3>1, <3>2
  <2>2. \A x \in Runs \ {r} : x \in Counted(d)' => x \in Counted(d)
    BY DEF Counted, Failing, GivenUp, Rests, LetGo
  <2>3. Counted(d)' \subseteq Counted(d) \cup {r}
    BY <2>2 DEF Counted
  <2>4. CASE d # e
    <3>1. row'[d] = row[d]
      BY <2>4 DEF WritesOf
    <3>2. BackAgain(d)' => BackAgain(d)
      BY <1>0, <2>4, <3>1, NothingNew
    <3>3. Counted(d)' \subseteq Counted(d)
      BY <1>0, <2>2, <2>4 DEF Counted
    <3> QED
      BY <2>0, <2>1, <2>3, <3>1, <3>2, <3>3, CountCarries
  <2>5. CASE d = e
    <3>1. ASSUME BackAgain(d)', ~Paid(d)
          PROVE  Counted(d)' \subseteq Counted(d)
      <4>1. r \in Counted(d)' => r \in Counted(d)
        BY <2>5, <3>1 DEF Accounts, Counted
      <4> QED
        BY <2>3, <4>1
    <3>2. row'[d].count = row[d].count \/ (row'[d].count = row[d].count + 1 /\ row'[d].count <= MaxRetries)
      BY <2>5 DEF WritesOf
    <3> QED
      BY <1>1, <2>0, <2>1, <2>3, <2>5, <3>1, <3>2, CountCarries
  <2> QED
    BY <2>4, <2>5
<1> QED
  BY <1>0, <1>2, <1>3 DEF RetriesInStep

(* Every step of a dispatcher, a write of its result that fails, ...       *)
LEMMA RunStepRetries ==
  ASSUME TypeOK, TypeOK', ViewsCurrent, FencesHold, OwnersInStep, RetriesInStep, MovesOn, NEW r \in Runs,
         RunStep(r), UNCHANGED <<mgr, claims, acks, faults>>
  PROVE  RetriesInStep'
<1>0. PICK e \in Execs : e = run[r].exec
  BY ViewTypes DEF TypeOK
<1>1. Alone(r) /\ \A x \in Runs \ {r} : Rests(x)
  BY RunStepFenced DEF Alone, Idle, Rests
<1>2. /\ CountKept(e) /\ \A x \in Runs : RunAccounted(x)
      /\ faults \in Nat /\ faults' = faults
  BY BoundsAssumption DEF RetriesInStep, TypeOK, ManagerTypeOK
<1>3. WritesOf(r, e)
  BY <1>0, <1>2, RunWrites
<1>4. Accounts(r, e)
  BY <1>0, <1>1, <1>2, <1>3, RunAccounts
<1> QED
  BY <1>0, <1>1, <1>2, <1>3, <1>4, ActorRetries

(* ... which is one of the faults the count makes room for, ...            *)
LEMMA FailSaveRetries ==
  ASSUME TypeOK, TypeOK', ViewsCurrent, FencesHold, OwnersInStep, RetriesInStep, MovesOn, NEW r \in Runs,
         NEW a \in BOOLEAN, SaveFails(r, a), acks' = acks, faults' = faults + 1
  PROVE  RetriesInStep'
<1>0. PICK e \in Execs : e = run[r].exec
  BY ViewTypes DEF TypeOK
<1>1. /\ run[r] \in RunType /\ run[r].obj \in RowType /\ RunCurrent(r) /\ StoreTypeOK /\ run[r].pc = "save"
      /\ row[e].count \in Nat /\ faults \in Nat /\ RunAccounted(r)
  BY ViewTypes, BoundsAssumption DEF TypeOK, ViewsCurrent, SaveFails, StoreTypeOK, RowType, RetriesInStep, ManagerTypeOK
<1>2. \A x \in Runs \ {r} : run'[x] = run[x]
  BY <1>1 DEF SaveFails, NoLongerPending, OwnersInStep, OneOwner, Keeps, Owns, OwnPC, PC
<1>3. run'[r].pc = "pending" /\ run'[r].exec = e /\ run'[r].obj = run[r].obj /\ claims' = claims
  BY <1>0, <1>1 DEF SaveFails, RunType
<1>4. WritesOf(r, e)
  BY <1>0, <1>1, RunWrites
<1>5. row'[e] = row[e] \/ row'[e].status # "running"
  BY <1>0, <1>1, WriteFields DEF SaveFails, storeVars, RunCurrent, Terminal
<1>6. row'[e].count = row[e].count
  BY <1>0, <1>1, <1>4 DEF WritesOf, Handling, Settling
<1>7. Accounts(r, e)
  <2>1. ~Handling(r)' /\ GivenUp(r)' /\ Keeps(r)
    BY <1>1, <1>3 DEF Handling, Settling, GivenUp, Keeps, Owns, OwnPC, PC
  <2>2. row'[e].status = "running" /\ row'[e].started = r => run'[r].obj.count = row'[e].count
    BY <1>0, <1>1, <1>3, <1>5, <2>1 DEF RunAccounted
  <2>3. Paid(e)
    BY <1>1, <1>6 DEF Paid
  <2> QED
    BY <1>3, <2>1, <2>2, <2>3 DEF Accounts, RunAccounted, InDispatch
<1> QED
  BY <1>0, <1>1, <1>2, <1>3, <1>4, <1>7, ActorRetries DEF Rests

(* ... and a claim.                                                        *)
LEMMA ClaimRetries ==
  ASSUME TypeOK, TypeOK', ViewsCurrent, FencesHold, RetriesInStep, MovesOn, NEW e \in Execs,
         claims < MaxClaims, MayDequeue(e), ClaimRow(e, claims + 1), claims' = claims + 1,
         NEW pc \in {"scheduler", "over"}, run' = [run EXCEPT ![claims + 1] = NewRun(e, row'[e], pc)],
         acks' = acks, faults' >= faults
  PROVE  RetriesInStep'
<1>1. PICK r \in Runs : r = claims + 1
  BY MaxClaimsAssumption DEF TypeOK, RunsTypeOK, Runs
<1>2. /\ claims \in Nat /\ r \in Nat /\ r > 0 /\ StoreTypeOK /\ run \in [Runs -> RunType]
      /\ row[e].status = "queued" /\ row[e].started = 0 /\ row[e].count \in Nat /\ run[r].pc = "unused"
  BY <1>1, MaxClaimsAssumption
  DEF TypeOK, RunsTypeOK, StoreTypeOK, RowType, MayDequeue, Claimable, FencesHold, QueuedUnstarted, Fenced
<1>3. /\ row'[e].status = "running" /\ row'[e].started = r /\ \A x \in Execs \ {e} : row'[x] = row[x]
      /\ row'[e].count = row[e].count
  BY <1>1, <1>2, ClaimFields, RowCounts
<1> DEFINE z == row'[e]
<1>4. /\ run'[r].exec = e /\ run'[r].obj = z /\ run'[r].pc = pc /\ run'[r].exit = "settle"
      /\ \A x \in Runs \ {r} : run'[x] = run[x]
  BY <1>1, <1>2 DEF NewRun
<1>5. ~Handling(r)' /\ ~Failing(r)' /\ RunAccounted(r)'
  BY <1>3, <1>4 DEF Handling, Settling, Failing, RunAccounted
<1>6. \A x \in Runs : Rests(x) \/ ~Handling(x)'
  BY <1>4, <1>5 DEF Rests
<1>7. BackAgain(e)
  BY <1>2 DEF BackAgain, IsActive, Active
<1>8. ASSUME NEW x \in Runs \ {r}
      PROVE  RunAccounted(x)'
  <2>0. run[x].exec \in Execs /\ RunAccounted(x) /\ Rests(x)
    BY <1>4, ViewTypes DEF TypeOK, RetriesInStep, Rests
  <2>1. CASE run[x].exec # e
    <3>1. row'[run[x].exec] = row[run[x].exec]
      BY <1>3, <2>0, <2>1
    <3> QED
      BY <1>6, <2>0, <3>1, RowKeptAccounted
  <2>2. CASE run[x].exec = e
    BY <1>2, <1>3, <1>7, <2>0, <2>2, UndisturbedAccounted DEF Undisturbed, Handling, ViewsCurrent
  <2> QED
    BY <2>1, <2>2
<1>9. ASSUME NEW d \in Execs
      PROVE  CountKept(d)'
  <2>1. CountKept(d) /\ acks[d] \in Nat /\ claims' >= claims /\ claims' > 0
    BY <1>2 DEF RetriesInStep, TypeOK, ManagerTypeOK
  <2>2. Counted(d)' \subseteq Counted(d)
    BY <1>4, <1>5 DEF Counted, Failing, GivenUp
  <2>3. BackAgain(d)' => BackAgain(d)
    BY <1>3, <1>6, <1>7, NothingNew
  <2>4. row'[d].count = row[d].count /\ row[d].count \in Nat
    BY <1>3 DEF TypeOK, StoreTypeOK, RowType
  <2>5. row'[d].status = "running" => row'[d].started > acks[d]
    <3>1. CASE d = e
      BY <1>1, <1>2, <1>3, <2>1, <3>1 DEF CountKept
    <3> QED
      BY <1>3, <2>1, <3>1 DEF CountKept
  <2>6. Counted(d)' \subseteq Counted(d) \cup {0}
    BY <2>2
  <2> QED
    BY <2>1, <2>2, <2>3, <2>4, <2>5, <2>6, CountCarries
<1> QED
  BY <1>5, <1>8, <1>9 DEF RetriesInStep

(* A waiting result that is written, or given up.                          *)
LEMMA FlushRetries ==
  ASSUME TypeOK, TypeOK', ViewsCurrent, FencesHold, OwnersInStep, RetriesInStep, MovesOn,
         NEW r \in Runs, FlushWrite(r)
  PROVE  RetriesInStep'
<1>1. PICK e \in Execs : e = run[r].exec
  BY ViewTypes DEF TypeOK
<1> DEFINE o == run[r].obj
<1> USE DEF storeVars
<1>2. /\ run[r] \in RunType /\ run \in [Runs -> RunType] /\ o \in RowType /\ StoreTypeOK
      /\ faults \in Nat /\ row[e].count \in Nat /\ r \in Nat /\ r # 0
  <2>1. run[r] \in RunType /\ o \in RowType /\ r \in Nat /\ r # 0
    BY ViewTypes DEF TypeOK, Runs
  <2>2. run \in [Runs -> RunType] /\ StoreTypeOK
    BY DEF TypeOK, RunsTypeOK
  <2>3. faults \in Nat /\ row[e].count \in Nat
    BY BoundsAssumption DEF TypeOK, StoreTypeOK, RowType, ManagerTypeOK
  <2> QED
    BY <2>1, <2>2, <2>3
<1>3. /\ RunCurrent(r) /\ Fenced(r) /\ ObjectAgrees(r) /\ RunAccounted(r) /\ CountKept(e)
      /\ run[r].pc = "pending" /\ UNCHANGED <<claims, acks, faults>>
  BY <1>1 DEF ViewsCurrent, FencesHold, OwnersInStep, RetriesInStep, FlushWrite
<1>4. o.started = r /\ Clean(o) /\ o.status \in Terminal
  BY <1>3 DEF ObjectAgrees, Fenced, RunCurrent, FirstObject
<1>5. CASE StillActive(e, o)
  <2> DEFINE z == row'[e]
             p == IF o.status = "failed" THEN "judge" ELSE "over"
  <2>1. WriteRow(e, o) /\ run' = [run EXCEPT ![r].pc = p, ![r].obj = z]
    BY <1>1, <1>2, <1>3, <1>4, <1>5 DEF FlushWrite
  <2> HIDE DEF z
  <2>2. /\ run'[r].exec = e /\ run'[r].pc = p /\ run'[r].obj = z
        /\ \A x \in Runs \ {r} : run'[x] = run[x]
    BY <1>1, <1>2, <1>3, <1>4, <2>1 DEF RunType
  <2>3. /\ \A x \in Execs \ {e} : row'[x] = row[x]
        /\ row'[e].status = o.status /\ ~row'[e].due /\ row'[e].started = r /\ row'[e].count = o.count
    BY <1>2, <1>3, <1>4, <2>1, WriteFields, RowCounts DEF Clean
  <2>4. row[e].started = r /\ row[e].status = "running" /\ Keeps(r)
    BY <1>2, <1>3, <1>4, <1>5 DEF StillActive, IsActive, Active, FencesHold, QueuedUnstarted, Keeps
  <2>5. WritesOf(r, e)
    BY <1>1, <1>2, <1>3, <1>4, <2>3, <2>4 DEF WritesOf, RunAccounted
  <2>6. Accounts(r, e)
    <3>1. ~Keeps(r)' /\ run'[r].pc \notin InDispatch \cup {"scheduler", "later"}
      BY <2>2 DEF Keeps, Owns, OwnPC, InDispatch
    <3>2. Handling(r)' => row'[e].started = r /\ r > acks'[e] /\ ~row'[e].due
      BY <1>2, <1>3, <1>4, <2>3, <2>4 DEF CountKept
    <3>3. Failing(r)' => Handling(r)' /\ ~GivenUp(r)'
      BY <2>2, <2>3 DEF Failing, Handling, Settling, GivenUp, z
    <3>4. IsActive(e)
      BY <2>4 DEF IsActive, Active
    <3> QED
      BY <2>2, <3>1, <3>2, <3>3, <3>4 DEF Accounts, RunAccounted
  <2> QED
    BY <1>1, <1>2, <1>3, <1>4, <2>2, <2>5, <2>6, ActorRetries DEF Rests
<1>6. CASE ~StillActive(e, o)
  <2>1. UNCHANGED <<row, run>>
    BY <1>1, <1>6 DEF FlushWrite
  <2> QED
    BY <1>2, <1>3, <1>4, <2>1, RestRetries DEF Rests
<1> QED
  BY <1>5, <1>6

LEMMA FlushReadRetries ==
  ASSUME TypeOK, TypeOK', ViewsCurrent, RetriesInStep, MovesOn, FlushRead
  PROVE  RetriesInStep'
<1>1. UNCHANGED <<row, claims, acks, faults>> /\ \A x \in Runs : run'[x] = NoLongerPending(x, loop.exec)
  BY DEF FlushRead, storeVars
<1>2. faults \in Nat /\ run \in [Runs -> RunType]
  BY BoundsAssumption DEF TypeOK, ManagerTypeOK, RunsTypeOK
<1>3. \A x \in Runs : Rests(x) \/ LetGo(x)
  BY <1>1, <1>2 DEF NoLongerPending, RunType, Rests, LetGo
<1> QED
  BY <1>1, <1>2, <1>3, RestRetries

-----------------------------------------------------------------------------
(* Rows that keep what the count rests on are calm.                        *)
LEMMA CalmRows ==
  ASSUME StoreTypeOK, acks' = acks, NEW e \in Execs,
         \/ row'[e] = row[e]
         \/ row'[e].status \in {"cancelled", "deleted"}
         \/ ViewRow(e)
  PROVE  Calm(e)
BY ViewFields, RowCounts DEF Calm, CalledOff

(* What the execution loop queues again is as it was read, and what it     *)
(* recovers it marks failed.                                               *)
LEMMA LoopRetries ==
  ASSUME TypeOK, TypeOK', ViewsCurrent, FencesHold, OwnersInStep, RetriesInStep, MovesOn, LoopStep
  PROVE  RetriesInStep'
<1> DEFINE lo == loop.obj
<1> USE DEF storeVars, queueVars, runVars
<1>0. PICK le \in Execs : le = loop.exec
  BY LoopViewTypes DEF TypeOK
<1>1. /\ StoreTypeOK /\ loop \in LoopType /\ lo \in RowType /\ row[le] \in RowType
      /\ LoopAgrees /\ row \in [Execs -> RowType] /\ faults \in Nat
  <2>1. StoreTypeOK /\ loop \in LoopType /\ LoopAgrees /\ row \in [Execs -> RowType]
    BY DEF TypeOK, ManagerTypeOK, StoreTypeOK, OwnersInStep
  <2>2. lo \in RowType /\ row[le] \in RowType
    BY <2>1, LoopViewTypes DEF TypeOK
  <2>3. faults \in Nat
    BY BoundsAssumption DEF TypeOK, ManagerTypeOK
  <2> QED
    BY <2>1, <2>2, <2>3
<1>2. ASSUME NEW e \in Execs, Dequeue(e)
      PROVE  RetriesInStep'
  <2>1. /\ claims < MaxClaims /\ MayDequeue(e) /\ ClaimRow(e, claims + 1) /\ claims' = claims + 1
        /\ run' = [run EXCEPT ![claims + 1] = NewRun(e, row'[e], "scheduler")]
        /\ acks' = acks /\ faults' = faults
    BY <1>2 DEF Dequeue, managerVars
  <2>2. faults' >= faults /\ "scheduler" \in {"scheduler", "over"}
    BY <1>1, <2>1
  <2> QED
    BY <2>1, <2>2, ClaimRetries
<1>3. CASE LoopRequeue
  <2> DEFINE q == Requeued(lo, FALSE)
             n == IF loop.pc = "retry" THEN [q EXCEPT !.due = FALSE] ELSE q
  <2>1. q \in RowType /\ q.status = "queued" /\ q.count = lo.count /\ q.due = lo.due /\ q.started = 0
    BY <1>1, RequeuedFields
  <2>2. /\ n \in RowType /\ n.status = "queued" /\ n.count = lo.count /\ n.started = 0
        /\ loop.pc = "orphan" => n.due = lo.due
    BY <2>1 DEF RowType
  <2>3. row' = row \/ (RequeueRow(le, n) /\ Requeueable(le, lo.status, lo.ver))
    BY <1>0, <1>3 DEF LoopRequeue
  <2>4. loop.pc \in {"retry", "orphan"} /\ lo.status = (IF loop.pc = "retry" THEN "failed" ELSE "queued")
    BY <1>3 DEF LoopRequeue, ViewsCurrent, LoopCurrent
  <2> HIDE DEF n
  <2>5. Requeueable(le, lo.status, lo.ver) =>
          /\ lo = row[le]
          /\ loop.pc = "retry" => row[le].status = "failed" /\ row[le].due
          /\ loop.pc = "orphan" => row[le].status = "queued" /\ row[le].started = 0
    BY <1>0, <1>1, <2>4 DEF Requeueable, Unchanged, LoopAgrees, FencesHold, QueuedUnstarted
  <2>6. UNCHANGED <<run, claims, acks, faults>>
    BY <1>3 DEF LoopRequeue
  <2>7. ASSUME RequeueRow(le, n), Requeueable(le, lo.status, lo.ver)
        PROVE  Calm(le) /\ \A x \in Execs \ {le} : row'[x] = row[x]
    <3>1. /\ row'[le].status = "queued" /\ row'[le].count = lo.count /\ row'[le].started = 0
          /\ row'[le].due = n.due /\ \A x \in Execs \ {le} : row'[x] = row[x]
      BY <1>1, <2>2, <2>7, RequeueFields, RowCounts
    <3> QED
      BY <2>2, <2>4, <2>5, <2>6, <2>7, <3>1 DEF Calm
  <2>8. \A x \in Execs : Calm(x)
    BY <1>1, <2>3, <2>6, <2>7, CalmRows
  <2> QED
    BY <1>1, <2>6, <2>8, IdleRetries DEF Idle
<1>4. CASE StaleWrite
  <2>1. row' = row \/ (WriteRow(le, lo) /\ StillActive(le, lo))
    BY <1>0, <1>4 DEF StaleWrite
  <2>2. lo.status = "failed" /\ loop.pc = "stalewrite" /\ UNCHANGED <<run, claims, acks, faults>>
    BY <1>4 DEF StaleWrite, ViewsCurrent, LoopCurrent
  <2>3. StillActive(le, lo) => row[le].status = "running" /\ ~lo.due
    BY <1>0, <1>1, <2>2 DEF StillActive, IsActive, Active, LoopAgrees, CalledOff, Recovering
  <2>4. WriteRow(le, lo) => /\ row'[le].status = "failed" /\ row'[le].due = lo.due
                            /\ \A x \in Execs \ {le} : row'[x] = row[x]
    BY <1>1, <2>2, WriteFields
  <2>5. ASSUME NEW x \in Execs
        PROVE  Calm(x)
    BY <1>1, <2>1, <2>2, <2>3, <2>4, CalmRows DEF Calm
  <2> QED
    BY <1>1, <2>2, <2>5, IdleRetries DEF Idle
<1>5. CASE \/ \E e \in Execs : TakeRow(e) \/ TakeStale(e)
           \/ StaleJudge \/ StaleFail \/ StaleFree \/ StaleFinishRef \/ FlushHandled
  <2>1. row' = row /\ acks' = acks /\ claims' = claims /\ faults' \in {faults, faults + 1}
    BY <1>5 DEF TakeRow, TakeStale, StaleJudge, StaleFail, StaleFree, StaleFinishRef, FinishRefRow, FlushHandled, Fault
  <2>2. run' = run \/ \E S : run' = Signalled(S)
    BY <1>5 DEF TakeRow, TakeStale, StaleJudge, StaleFail, StaleFree, StaleFinishRef, FlushHandled
  <2>3. \A x \in Execs : Calm(x)
    BY <1>1, <2>1, CalmRows
  <2>4. \A x \in Runs : Idle(x)
    BY <2>2, RunsIdle DEF TypeOK
  <2> QED
    BY <1>1, <2>1, <2>3, <2>4, IdleRetries
<1> QED
  BY <1>2, <1>3, <1>4, <1>5, FlushRetries, FlushReadRetries DEF LoopStep

(* A person who sends a failed execution off again starts a new count.     *)
LEMMA PersonRetries ==
  ASSUME TypeOK, TypeOK', ViewsCurrent, FencesHold, RetriesInStep, MovesOn, NEW f \in Execs,
         row[f].status = "failed", row'[f].status = "queued", \A x \in Execs \ {f} : row'[x] = row[x],
         run' = run, claims' = claims, faults' = faults, acks' = [acks EXCEPT ![f] = claims]
  PROVE  RetriesInStep'
<1>1. /\ acks'[f] = claims /\ \A x \in Execs \ {f} : acks'[x] = acks[x]
      /\ claims \in Nat /\ faults \in Nat /\ claims > 0 /\ row'[f].count \in Nat
      /\ \A x \in Runs : Rests(x)
  BY BoundsAssumption, MaxClaimsAssumption
  DEF TypeOK, ManagerTypeOK, RunsTypeOK, StoreTypeOK, RowType, RetriesInStep, CountKept, Rests
<1>2. \A x \in Runs : run[x].exec = f => ~Failing(x)'
  BY <1>1 DEF Failing, FencesHold, Fenced, Runs
<1>3. ASSUME NEW x \in Runs
      PROVE  RunAccounted(x)'
  <2>0. run[x].exec \in Execs /\ RunAccounted(x)
    BY ViewTypes DEF TypeOK, RetriesInStep
  <2>1. CASE run[x].exec = f
    BY <1>1, <1>2, <2>0, <2>1 DEF RunAccounted, Handling, Keeps, Owns
  <2>2. CASE run[x].exec # f
    BY <1>1, <2>0, <2>2, RowKeptAccounted
  <2> QED
    BY <2>1, <2>2
<1>4. CountKept(f)'
  <2>1. Counted(f)' = {}
    BY <1>2 DEF Counted
  <2>2. Cardinality(Counted(f)') = 0
    BY <2>1, FS_EmptySet
  <2> QED
    BY <1>1, <2>2 DEF CountKept
<1>5. ASSUME NEW d \in Execs \ {f}
      PROVE  CountKept(d)'
  <2>1. CountKept(d) /\ acks'[d] = acks[d] /\ row'[d] = row[d] /\ row[d].count \in Nat
    BY <1>1 DEF RetriesInStep, TypeOK, StoreTypeOK, RowType
  <2>2. BackAgain(d)' => BackAgain(d)
    BY <1>1, <2>1, NothingNew
  <2>3. Counted(d)' = Counted(d)
    BY <2>1 DEF Counted, Failing, GivenUp
  <2>4. BackAgain(d)' => Cardinality(Counted(d)') <= row'[d].count + faults'
    <3>1. BackAgain(d)' => Cardinality(Counted(d)) <= row[d].count + faults
      BY <2>1, <2>2 DEF CountKept
    <3> QED
      BY <2>1, <2>3, <3>1
  <2> QED
    BY <2>1, <2>2, <2>4 DEF CountKept
<1> QED
  BY <1>3, <1>4, <1>5 DEF RetriesInStep

(* The other requests call executions off.                                 *)
LEMMA RequestRetries ==
  ASSUME TypeOK, TypeOK', ViewsCurrent, FencesHold, RetriesInStep, MovesOn,
         NEW q \in Reqs, AskStep(q) \/ RequestStep(q)
  PROVE  RetriesInStep'
<1> DEFINE e == req[q].exec
           o == req[q].obj
<1> USE DEF storeVars, queueVars, runVars
<1>0. /\ StoreTypeOK /\ e \in Execs /\ o \in RowType /\ faults \in Nat
  BY ReqViewTypes, BoundsAssumption DEF TypeOK, ManagerTypeOK
<1>1. CASE PersonRequeue(q) /\ Requeueable(e, "failed", o.ver)
  <2>0. PICK f \in Execs : f = e
    BY <1>0
  <2> DEFINE n == SentAgain(o, req[q].op)
  <2>1. RequeueRow(f, n) /\ UNCHANGED <<run, claims, faults>> /\ acks' = [acks EXCEPT ![f] = claims]
    BY <1>1, <2>0 DEF PersonRequeue, SentAgain
  <2>2. n \in RowType /\ n.status = "queued"
    BY <1>0, SentAgainFields
  <2> HIDE DEF n
  <2>3. row'[f].status = "queued" /\ \A x \in Execs \ {f} : row'[x] = row[x]
    BY <1>0, <2>1, <2>2, RequeueFields
  <2>4. row[f].status = "failed"
    BY <1>1, <2>0 DEF Requeueable
  <2> QED
    BY <2>1, <2>3, <2>4, PersonRetries
<1>2. CASE ~(PersonRequeue(q) /\ Requeueable(e, "failed", o.ver))
  <2>1. UNCHANGED <<acks, claims, faults>>
    BY <1>2 DEF AskStep, AskCancel, AskDelete, AskRetry, AskResume, AskDrop, PauseQueue, View, Ask,
         RequestStep, CancelWrite, CancelStop, CancelFree, DeleteExecution, DropNext,
         DropScheduler, PersonRequeue
  <2>2. run' = run \/ \E S : run' = Signalled(S)
    BY DEF AskStep, AskCancel, AskDelete, AskRetry, AskResume, AskDrop, PauseQueue, View, Ask,
         RequestStep, CancelWrite, CancelStop, CancelFree, DeleteExecution, DropNext,
         DropScheduler, PersonRequeue
  <2>3. \A x \in Execs : Calm(x)
    <3>1. ASSUME NEW x \in Execs, ViewRow(x)
          PROVE  \A y \in Execs : Calm(y)
      BY <1>0, <2>1, <3>1, ViewFields, CalmRows
    <3>2. ASSUME CancelRow(e)
          PROVE  \A x \in Execs : Calm(x)
      BY <1>0, <2>1, <3>2, CancelFields, CalmRows
    <3>3. ASSUME NEW S, DeleteRows(S)
          PROVE  \A x \in Execs : Calm(x)
      <4>1. \A x \in Execs : row'[x] = row[x] \/ row'[x].status = "deleted"
        BY <1>0, <3>3, DeleteFields DEF NoRow
      <4> QED
        BY <1>0, <2>1, <4>1, CalmRows
    <3>4. CASE row' = row
      BY <1>0, <2>1, <3>4, CalmRows
    <3> QED
      BY <1>2, <3>1, <3>2, <3>3, <3>4
      DEF AskStep, AskCancel, AskDelete, AskRetry, AskResume, AskDrop, PauseQueue, View, Ask,
          RequestStep, CancelWrite, CancelStop, CancelFree, FinishRefRow, DeleteExecution, DropNext, DropScheduler,
          PersonRequeue
  <2>4. \A x \in Runs : Idle(x)
    BY <2>2, RunsIdle DEF TypeOK
  <2> QED
    BY <1>0, <2>1, <2>3, <2>4, IdleRetries
<1> QED
  BY <1>1, <1>2

-----------------------------------------------------------------------------
(* stop and a crash end the one run that has not accounted for its failure *)
(* yet; they are faults the count makes room for.                          *)
Ends(x) ==
  /\ run'[x].exec = run[x].exec /\ run'[x].obj = run[x].obj
  /\ \/ run'[x].pc = "unused"
     \/ run[x].pc # "unused" /\ run'[x].pc = "over"
     \/ run[x].pc # "unused" /\ run'[x].pc = "release" /\ run'[x].exit # "settle"
     \/ Owns(x) /\ run'[x].pc = "intread"

LEMMA StopEnds ==
  ASSUME TypeOK, Stop \/ Gone, NEW x \in Runs
  PROVE  Ends(x)
<1>1. run[x] \in RunType
  BY DEF TypeOK, RunsTypeOK
<1>2. CASE Stop
  <2>1. run'[x] = Interruption(run[x])
    BY <1>2 DEF Stop
  <2>2. CASE run[x].pc \in InDispatch \cup {"reread"}
    <3> DEFINE s == run[x].stop \/ run[x].work = "going"
               w == IF run[x].work = "held" \/ (run[x].work = "going" /\ run[x].exec \notin Workflow)
                    THEN "ended" ELSE run[x].work
    <3>1. run'[x] = [run[x] EXCEPT !.pc = "intread", !.exit = "raise", !.stop = s, !.work = w]
      BY <2>1, <2>2 DEF Interruption
    <3> HIDE DEF s, w
    <3>2. run'[x].pc = "intread" /\ run'[x].exec = run[x].exec /\ run'[x].obj = run[x].obj
      BY <1>1, <3>1 DEF RunType
    <3> QED
      BY <2>2, <3>2 DEF Ends, Owns, OwnPC, PC, InDispatch
  <2>3. CASE run[x].pc \in Unwinding
    BY <1>1, <2>1, <2>3 DEF Ends, Interruption, Unwinding, RunType, InDispatch
  <2>4. CASE run[x].pc \notin InDispatch \cup {"reread"} \cup Unwinding
    BY <1>1, <2>1, <2>4 DEF Ends, Interruption, RunType
  <2> QED
    BY <2>2, <2>3, <2>4
<1>3. CASE Gone
  <2> DEFINE w == IF run[x].work = "none" THEN run[x].work ELSE "ended"
  <2>1. run'[x] = IF run[x].pc = "unused" THEN run[x] ELSE [run[x] EXCEPT !.pc = "over", !.work = w]
    BY <1>3 DEF Gone
  <2> HIDE DEF w
  <2> QED
    BY <1>1, <2>1 DEF Ends, RunType
<1> QED
  BY <1>2, <1>3

LEMMA EndedRetries ==
  ASSUME TypeOK, TypeOK', ViewsCurrent, RetriesInStep, MovesOn, Stop \/ Gone, faults' = faults + 1
  PROVE  RetriesInStep'
<1>1. UNCHANGED <<row, acks, claims>>
  BY DEF Stop, Gone, storeVars
<1>2. \A x \in Runs : ~Handling(x)' /\ (Owns(x)' => Owns(x)) /\ (Keeps(x)' => Keeps(x))
  BY StopEnds DEF Ends, Handling, Settling, Owns, Keeps, OwnPC
<1>3. \A e \in Execs : BackAgain(e)' => BackAgain(e)
  BY <1>1, <1>2, NothingNew
<1>4. \A x \in Runs : Failing(x)' => Failing(x)
  BY <1>1, StopEnds DEF Ends, Failing, Owns, OwnPC
<1>5. ASSUME NEW x \in Runs
      PROVE  RunAccounted(x)'
  <2>0. PICK e \in Execs : e = run[x].exec
    BY ViewTypes DEF TypeOK
  <2>1. /\ RunAccounted(x) /\ Ends(x) /\ run'[x].exec = e /\ run'[x].obj = run[x].obj
        /\ row'[e] = row[e] /\ ~Handling(x)'
    BY <1>1, <1>2, <2>0, StopEnds DEF RetriesInStep, Ends
  <2>2. run'[x].pc \notin InDispatch \cup {"scheduler", "later"}
    BY <2>1 DEF Ends, InDispatch
  <2>3. Keeps(x)' /\ row'[e].status = "running" /\ row'[e].started = x => run'[x].obj.count = row'[e].count
    BY <1>2, <2>0, <2>1 DEF RunAccounted
  <2>4. ASSUME BackAgain(e)', Failing(x)', ~GivenUp(x)'
        PROVE  row'[e].status = "running" /\ Owns(x)' /\ row'[e].started = x
    <3>1. run'[x].pc = "intread" /\ Owns(x)
      BY <2>1, <2>4 DEF Ends, GivenUp, Failing
    <3>2. Owns(x)' /\ ~Handling(x) /\ ~GivenUp(x)
      BY <3>1 DEF Owns, OwnPC, PC, Handling, Settling, GivenUp
    <3> QED
      BY <1>3, <1>4, <2>0, <2>1, <2>4, <3>2 DEF RunAccounted
  <2>5. BackAgain(run[x].exec)' <=> BackAgain(e)'
    BY <2>1 DEF BackAgain, IsActive
  <2> QED
    BY <2>1, <2>2, <2>3, <2>4, <2>5 DEF RunAccounted
<1>6. ASSUME NEW e \in Execs
      PROVE  CountKept(e)'
  <2>0. CountKept(e) /\ row[e].count \in Nat /\ faults \in Nat /\ claims \in Nat
    BY MaxClaimsAssumption, BoundsAssumption
    DEF RetriesInStep, TypeOK, StoreTypeOK, RowType, ManagerTypeOK, RunsTypeOK
  <2>1. ASSUME BackAgain(e)', NEW x \in Counted(e)'
        PROVE  x \in Counted(e) \/ x = row[e].started
    <3>1. x \in Runs /\ run[x].exec = e /\ Failing(x) /\ RunAccounted(x) /\ BackAgain(e)
      BY <1>3, <1>4, <2>1, StopEnds DEF Counted, Ends, RetriesInStep
    <3>2. CASE GivenUp(x)
      BY <3>1, <3>2 DEF Counted
    <3>3. CASE ~GivenUp(x)
      BY <3>1, <3>3 DEF RunAccounted
    <3> QED
      BY <3>2, <3>3
  <2>2. BackAgain(e)' => Counted(e)' \subseteq Counted(e) \cup {row[e].started}
    BY <2>1
  <2>3. /\ Paid(e) /\ row'[e] = row[e] /\ acks'[e] = acks[e] /\ claims' = claims /\ faults' >= faults
        /\ claims' >= claims
    BY <1>1, <2>0 DEF Paid
  <2>4. /\ row'[e].status \in {"running", "failed"} => claims' > 0
        /\ row'[e].status = "running" => row'[e].started > acks[e]
    BY <2>0, <2>3 DEF CountKept
  <2>5. row'[e].count >= row[e].count /\ row'[e].count = row[e].count
    BY <2>0, <2>3
  <2> QED
    BY <1>3, <2>0, <2>2, <2>3, <2>4, <2>5, CountCarries
<1> QED
  BY <1>5, <1>6 DEF RetriesInStep

(* No step of the task center loses count of the retries.                  *)
LEMMA NextRetries ==
  ASSUME InOrder, TypeOK', RetriesInStep, [Next]_vars
  PROVE  RetriesInStep'
<1> USE DEF storeVars, queueVars, runVars
<1>0. /\ TypeOK /\ ViewsCurrent /\ FencesHold /\ OwnersInStep /\ MovesOn /\ StoreTypeOK
      /\ row \in [Execs -> RowType]
  BY NextCurrent DEF InOrder, WorkInOrder, AllCurrent, RunsStayCurrent, TypeOK, StoreTypeOK
<1>1. faults \in Nat
  BY <1>0, BoundsAssumption DEF TypeOK, ManagerTypeOK
<1>2. ASSUME UNCHANGED <<run, claims, faults>>, \A x \in Execs : Calm(x)
      PROVE  RetriesInStep'
  BY <1>0, <1>1, <1>2, IdleRetries DEF Idle
<1>3. ASSUME NEW e \in Execs, Create(e)
      PROVE  RetriesInStep'
  <2>1. /\ row[e].status = "new" /\ row'[e].status = "queued" /\ row'[e].count = 0
        /\ \A x \in Execs \ {e} : row'[x] = row[x]
    BY <1>0, <1>3, CreateFields, RowCounts DEF Create
  <2>2. UNCHANGED <<run, claims, faults>> /\ acks' = acks
    BY <1>3 DEF Create, managerVars
  <2>3. \A x \in Execs : Calm(x)
    BY <2>1, <2>2 DEF Calm
  <2> QED
    BY <1>2, <2>2, <2>3
<1>4. ASSUME NEW e \in Execs, Expire(e)
      PROVE  RetriesInStep'
  <2>1. row'[e].status = "cancelled" /\ \A x \in Execs \ {e} : row'[x] = row[x]
    BY <1>0, <1>4, CancelFields DEF Expire
  <2>2. UNCHANGED <<run, claims, faults>> /\ acks' = acks
    BY <1>4 DEF Expire, managerVars
  <2>3. \A x \in Execs : Calm(x)
    BY <1>0, <2>1, <2>2, CalmRows
  <2> QED
    BY <1>2, <2>2, <2>3
<1>5. ASSUME NEW e \in Execs, RefOrphan(e)
      PROVE  RetriesInStep'
  <2> DEFINE q == Requeued(row[e], FALSE)
  <2>1. /\ q \in RowType /\ q.status = "queued" /\ q.started = 0 /\ q.due = row[e].due /\ q.count = row[e].count
        /\ RequeueRow(e, q) /\ UNCHANGED <<run, claims, faults>> /\ acks' = acks
    BY <1>0, <1>5, RequeuedFields DEF RefOrphan, managerVars
  <2> HIDE DEF q
  <2>2. row[e].status = "queued" /\ row[e].started = 0
    BY <1>0, <1>5 DEF RefOrphan, OrphanedQueued, FencesHold, QueuedUnstarted
  <2>3. /\ row'[e].status = "queued" /\ row'[e].started = 0 /\ row'[e].due = row[e].due
        /\ row'[e].count = row[e].count /\ \A x \in Execs \ {e} : row'[x] = row[x]
    BY <1>0, <2>1, RequeueFields, RowCounts
  <2>4. \A x \in Execs : Calm(x)
    BY <2>1, <2>2, <2>3 DEF Calm
  <2> QED
    BY <1>2, <2>1, <2>4
<1>6. ASSUME NEW e \in Execs, SettleOrphan(e)
      PROVE  RetriesInStep'
  <2> DEFINE f == [row[e] EXCEPT !.status = "failed"]
             q == Requeued(row[e], FALSE)
  <2>1. q \in RowType /\ q.status = "queued" /\ q.count = row[e].count
    BY <1>0, RequeuedFields
  <2>2. /\ Held(f) \in RowType /\ Held(f).status = "failed" /\ ~Held(f).due
    <3>1. f \in RowType /\ f.status = "failed"
      BY <1>0 DEF RowType, Status, Terminal
    <3> QED
      BY <3>1 DEF RowType, Held
  <2>3. row[e].status = "running" /\ \A x \in Runs : ~Owns(x)
    BY <1>0, <1>6 DEF SettleOrphan, ViewsCurrent, StartCurrent, FencesHold, Fenced, Live, Owns, OwnPC
  <2>4. RequeueRow(e, q) \/ WriteRow(e, Held(f))
    BY <1>6 DEF SettleOrphan
  <2>5. UNCHANGED <<run, claims, faults>> /\ acks' = acks
    BY <1>6 DEF SettleOrphan
  <2> HIDE DEF f, q
  <2>6. \/ row'[e].status = "queued" /\ row'[e].count = row[e].count
        \/ row'[e].status = "failed" /\ ~row'[e].due
    BY <1>0, <2>1, <2>2, <2>4, WriteFields, RequeueFields, RowCounts
  <2>7. \A x \in Execs \ {e} : row'[x] = row[x]
    BY <1>0, <2>1, <2>2, <2>4, WriteFields, RequeueFields
  <2>8. \A x \in Execs : Calm(x)
    BY <2>3, <2>5, <2>6, <2>7 DEF Calm
  <2> QED
    BY <1>2, <2>5, <2>8
<1>7. ASSUME NEW e \in Execs, LoseClaim(e)
      PROVE  RetriesInStep'
  <2>1. /\ claims < MaxClaims /\ MayDequeue(e) /\ ClaimRow(e, claims + 1) /\ claims' = claims + 1
        /\ run' = [run EXCEPT ![claims + 1] = NewRun(e, row'[e], "over")]
        /\ acks' = acks /\ faults' = faults + 1
    BY <1>7 DEF LoseClaim, Fault
  <2>2. faults' >= faults /\ "over" \in {"scheduler", "over"}
    BY <1>1, <2>1
  <2> QED
    BY <1>0, <2>1, <2>2, ClaimRetries
<1>8. ASSUME NEW r \in Runs, RunProgress(r)
      PROVE  RetriesInStep'
  <2>1. UNCHANGED <<mgr, claims, acks, faults>> /\ RunStep(r)
    BY <1>8 DEF RunProgress, managerVars, RunStep, ReadScheduler, DispatchFails, StartSession, Register, Check,
                  Open, StartEffect, WorkEnds, EndWork, Interrupted, AbsoluteTimeout, GuardTimeout, GuardCancel,
                  LateWorkEnds, Save, Reread, Fail, FailWrite, InterruptRead, InterruptJudge,
                  InterruptRequeue, Release, FinishRef, Judge, Settle
  <2> QED
    BY <1>0, <2>1, RunStepRetries
<1>9. ASSUME NEW r \in Runs, FailSave(r)
      PROVE  RetriesInStep'
  BY <1>0, <1>9, FailSaveRetries DEF FailSave, Fault
<1>10. CASE LoopStep
  BY <1>0, <1>10, LoopRetries
<1>11. ASSUME NEW q \in Reqs, AskStep(q) \/ RequestStep(q)
       PROVE  RetriesInStep'
  BY <1>0, <1>11, RequestRetries
<1>12. CASE Stop \/ Crash
  BY <1>0, <1>12, EndedRetries DEF Stop, Crash, Fault
<1>13. CASE Quit
  <2>1. /\ UNCHANGED <<row, claims, acks, faults>> /\ Gone /\ \A x \in Runs : ~Live(x)
    BY <1>13 DEF Quit, Gone
  <2>2. ASSUME NEW x \in Runs
        PROVE  Rests(x)
    <3> DEFINE w == IF run[x].work = "none" THEN run[x].work ELSE "ended"
    <3>1. run[x] \in RunType /\ run[x].pc \in {"unused", "over"}
      BY <1>0, <2>1 DEF Live, TypeOK, RunsTypeOK
    <3>2. run'[x] = IF run[x].pc = "unused" THEN run[x] ELSE [run[x] EXCEPT !.pc = "over", !.work = w]
      BY <2>1 DEF Gone
    <3> HIDE DEF w
    <3> QED
      BY <3>1, <3>2 DEF Rests, RunType
  <2> QED
    BY <1>0, <1>1, <2>1, <2>2, RestRetries
<1>14. CASE Start \/ Started \/ ResumeQueue \/ UNCHANGED vars
  <2>1. UNCHANGED <<row, run, claims, faults>> /\ acks' = acks
    BY <1>14 DEF Start, RequeueRunningRefs, Started, ResumeQueue, vars, managerVars
  <2> QED
    BY <1>0, <1>2, <2>1, CalmRows
<1> QED
  BY <1>3, <1>4, <1>5, <1>6, <1>7, <1>8, <1>9, <1>10, <1>11, <1>12, <1>13, <1>14 DEF Next

(* At the start nothing has failed.                                        *)
LEMMA InitRetries == Init => RetriesInStep
<1> SUFFICES ASSUME Init PROVE RetriesInStep
  OBVIOUS
<1>1. /\ \A e \in Execs : row[e].status = "new" /\ acks[e] = 0
      /\ \A r \in Runs : run[r].pc = "unused" /\ claims = 0
  BY DEF Init, StoreInit, RunsInit, NoRow, NewRun
<1>2. \A r \in Runs : ~Failing(r) /\ ~Handling(r) /\ ~Keeps(r)
  BY <1>1 DEF Failing, Handling, Settling, Keeps, Owns, OwnPC
<1>3. \A r \in Runs : RunAccounted(r)
  BY <1>1, <1>2 DEF RunAccounted, InDispatch
<1>4. \A e \in Execs : ~BackAgain(e)
  BY <1>1 DEF BackAgain, IsActive, Active
<1>5. claims = 0
  BY DEF Init, RunsInit
<1> QED
  BY <1>1, <1>3, <1>4, <1>5 DEF RetriesInStep, CountKept

(* Every failed run of an execution that is run again is counted, unless   *)
(* the machine sleeps.                                                     *)
THEOREM RetriesStayInStep ==
  ASSUME "suspend" \notin Faults
  PROVE  Spec => []RetriesInStep
<1>1. InOrder /\ TypeOK' /\ RetriesInStep /\ [Next]_vars => RetriesInStep'
  BY NextRetries
<1>2. InOrder => TypeOK
  BY DEF InOrder
<1> QED
  BY <1>1, <1>2, StaysInOrder, InitRetries, PTL DEF Spec

(* So an execution that goes on without a person has not failed more often *)
(* than its retry_count and the faults say, and its retry_count is within  *)
(* max_retries.                                                            *)
THEOREM RetriesAreBounded ==
  ASSUME "suspend" \notin Faults
  PROVE  Spec => []RetriesBounded
<1>1. ASSUME InOrder, RetriesInStep, NEW e \in Execs, IsActive(e)
      PROVE  /\ Cardinality(FailedRuns(e)) <= row[e].count + faults
             /\ acks[e] = 0 => row[e].count <= MaxRetries
  <2>1. CountKept(e) /\ BackAgain(e)
    BY <1>1 DEF RetriesInStep, BackAgain
  <2>2. FailedRuns(e) \subseteq Counted(e)
    BY <1>1 DEF FailedRuns, Counted, Failing, GivenUp
  <2>3. Counted(e) \subseteq Runs /\ IsFiniteSet(Runs)
    BY FS_Interval, MaxClaimsAssumption DEF Runs, Counted
  <2>4. IsFiniteSet(Counted(e))
    BY <2>3, FS_Subset
  <2>5. Cardinality(FailedRuns(e)) <= Cardinality(Counted(e))
    BY <2>2, <2>4, FS_Subset
  <2>6. Cardinality(FailedRuns(e)) \in Nat /\ Cardinality(Counted(e)) \in Nat
    BY <2>2, <2>4, FS_Subset, FS_CardinalityType
  <2>7. row[e].count \in Nat /\ faults \in Nat
    BY <1>1, BoundsAssumption DEF InOrder, TypeOK, StoreTypeOK, RowType, ManagerTypeOK
  <2> QED
    BY <2>1, <2>5, <2>6, <2>7 DEF CountKept
<1>2. InOrder /\ RetriesInStep => RetriesBounded
  BY <1>1 DEF RetriesBounded
<1> QED
  BY <1>2, StaysInOrder, RetriesStayInStep, PTL

(* An execution is run again only when that is safe, when the result of    *)
(* its last run is saved, and not more often than max_retries.             *)
THEOREM RerunsStaySafe ==
  ASSUME "suspend" \notin Faults
  PROVE  Spec => []RerunsAreSafe
<1>1. RerunsAreSafe <=> NoBlindRerun /\ PendingBlocksRerun /\ RetriesBounded
  BY DEF RerunsAreSafe
<1> QED
  BY <1>1, NoRerunIsBlind, PendingIsNotRerun, RetriesAreBounded, PTL

-----------------------------------------------------------------------------
(* Only the last run of an execution acts.  A step either lets the runs go *)
(* on as they are, where only an owner begins anything and a person who    *)
(* sends an execution off knows of all its runs, or claims an execution.   *)
Goes(x) == /\ run'[x].exec = run[x].exec
           /\ Owns(x)' => Owns(x)
           /\ Exposed(x)' => Exposed(x) \/ Owns(x)

Onward == /\ claims' = claims
          /\ \A x \in Runs : Goes(x)
          /\ \A e \in Execs : acks'[e] \in {acks[e], claims}

Claim(e) == /\ claims < MaxClaims /\ claims' = claims + 1 /\ acks' = acks
            /\ row[e].status = "queued"
            /\ \E n : n.exec = e /\ run' = [run EXCEPT ![claims + 1] = n]

(* Going on, a run that another one came after begins nothing.             *)
LEMMA OnwardLastActs ==
  ASSUME TypeOK, FencesHold, OnlyLastActs, Onward
  PROVE  OnlyLastActs'
<1> SUFFICES ASSUME NEW r \in Runs, Superseded(r)'
             PROVE  ~Owns(r)' /\ (Exposed(r)' => r <= acks'[run'[r].exec])
  BY DEF OnlyLastActs
<1>1. Superseded(r)
  BY DEF Superseded, Onward, Goes
<1>2. ~Owns(r) /\ (Exposed(r) => r <= acks[run[r].exec])
  BY <1>1 DEF OnlyLastActs
<1>3. run'[r].exec = run[r].exec /\ ~Owns(r)' /\ (Exposed(r)' => Exposed(r))
  BY <1>2 DEF Onward, Goes
<1>4. /\ run[r].exec \in Execs /\ claims \in Nat /\ r \in Nat
      /\ acks'[run[r].exec] \in {acks[run[r].exec], claims}
  BY ViewTypes, MaxClaimsAssumption DEF TypeOK, RunsTypeOK, Runs, Onward
<1>5. r <= claims
  <2>1. PICK s \in Runs : r < s /\ s <= claims
    BY <1>1 DEF Superseded
  <2> QED
    BY <1>4, <2>1 DEF Runs
<1> QED
  BY <1>2, <1>3, <1>4, <1>5

(* A claim finds nobody who owns the execution, and nothing in doubt.      *)
LEMMA ClaimLastActs ==
  ASSUME TypeOK, OwnersInStep, DoubtIsKnown, OnlyLastActs, NEW e \in Execs, Claim(e)
  PROVE  OnlyLastActs'
<1> SUFFICES ASSUME NEW r \in Runs, Superseded(r)'
             PROVE  ~Owns(r)' /\ (Exposed(r)' => r <= acks'[run'[r].exec])
  BY DEF OnlyLastActs
<1>0. claims \in Nat /\ claims + 1 \in Runs /\ claims' = claims + 1 /\ acks' = acks
      /\ run \in [Runs -> RunType] /\ row[e].status = "queued" /\ r \in Nat
  BY MaxClaimsAssumption DEF TypeOK, RunsTypeOK, Runs, Claim
<1>1. PICK n : n.exec = e /\ run' = [run EXCEPT ![claims + 1] = n]
  BY DEF Claim
<1>2. run'[claims + 1].exec = e /\ \A x \in Runs \ {claims + 1} : run'[x] = run[x]
  BY <1>0, <1>1
<1>3. PICK s \in Runs : run'[s].exec = run'[r].exec /\ r < s /\ s <= claims + 1
  BY <1>0 DEF Superseded
<1>4. s \in Nat /\ r # claims + 1
  BY <1>0, <1>3 DEF Runs
<1>5. run'[r] = run[r] /\ Owns(r)' = Owns(r) /\ Exposed(r)' = Exposed(r)
  BY <1>2, <1>4 DEF Owns, Exposed, IsWorkflow
<1>6. CASE s = claims + 1
  <2>1. run[r].exec = e
    BY <1>2, <1>3, <1>5, <1>6
  <2>2. ~Unsafe(e)
    BY <1>0 DEF DoubtIsKnown, SafeInQueue
  <2>3. Exposed(r) => r <= acks[e]
    <3>1. acks[e] \in Nat
      BY DEF TypeOK, ManagerTypeOK
    <3> QED
      BY <1>0, <2>1, <2>2, <3>1 DEF Unsafe
  <2>4. ~Owns(r)
    BY <1>0, <2>1 DEF OwnersInStep, OwnerHasRow, CalledOff
  <2> QED
    BY <1>0, <1>5, <2>1, <2>3, <2>4
<1>7. CASE s # claims + 1
  <2>1. run'[s] = run[s] /\ s <= claims
    BY <1>0, <1>2, <1>3, <1>4, <1>7
  <2>2. Superseded(r)
    BY <1>3, <1>5, <2>1 DEF Superseded
  <2> QED
    BY <1>0, <1>5, <2>2 DEF OnlyLastActs
<1> QED
  BY <1>6, <1>7

(* A run that only its dispatcher moves goes on.                           *)
LEMMA IdleGoes ==
  ASSUME NEW x \in Runs, Idle(x)
  PROVE  Goes(x)
BY DEF Idle, Goes, Owns, Exposed, IsWorkflow

(* What is begun is begun by the owner.                                    *)
LEMMA RunGoes ==
  ASSUME TypeOK, FencesHold, NEW r \in Runs, RunStep(r), Alone(r), acks' = acks
  PROVE  \A x \in Runs : Goes(x)
<1>1. \A x \in Runs \ {r} : Goes(x)
  BY IdleGoes DEF Alone
<1>2. run'[r].exec = run[r].exec /\ (Owns(r)' => Owns(r))
  BY RunOwnsLess
<1>3. Exposed(r)' => Exposed(r) \/ Owns(r)
  <2>1. CASE ~Begins(r)
    BY <2>1, RunNoNewDoubt DEF NoNewDoubt
  <2>2. CASE StartEffect(r)
    BY <2>2 DEF StartEffect, FencesHold, Fenced, Exposed, IsWorkflow, Owns, OwnPC, PC
  <2>3. CASE Open(r)
    BY <2>3 DEF Open, Owns, OwnPC, PC
  <2> QED
    BY <2>1, <2>2, <2>3 DEF Begins
<1> QED
  BY <1>1, <1>2, <1>3 DEF Goes

(* The execution loop claims an execution, or lets the runs go on.         *)
LEMMA LoopGoes ==
  ASSUME TypeOK, LoopStep
  PROVE  Onward \/ \E e \in Execs : Claim(e)
<1> USE DEF runVars
<1>0. run \in [Runs -> RunType]
  BY DEF TypeOK, RunsTypeOK
<1>1. ASSUME NEW e \in Execs, Dequeue(e)
      PROVE  Claim(e)
  <2>1. NewRun(e, row'[e], "scheduler").exec = e
    BY DEF NewRun
  <2> QED
    BY <1>1, <2>1 DEF Dequeue, Claim, MayDequeue, Claimable, managerVars
<1>2. ASSUME acks' = acks, claims' = claims, run' = run \/ \E S : run' = Signalled(S)
      PROVE  Onward
  BY <1>2, RunsIdle, IdleGoes DEF Onward, TypeOK
<1>3. ASSUME NEW r \in Runs, FlushWrite(r)
      PROVE  Onward
  <2> DEFINE z == row'[run[r].exec]
             p == IF run[r].obj.status = "failed" THEN "judge" ELSE "over"
  <2>1. claims' = claims /\ acks' = acks /\ (run' = run \/ run' = [run EXCEPT ![r].pc = p, ![r].obj = z])
    BY <1>3 DEF FlushWrite
  <2>2. p \in {"judge", "over"}
    OBVIOUS
  <2> HIDE DEF z, p
  <2>3. ASSUME run' = [run EXCEPT ![r].pc = p, ![r].obj = z]
        PROVE  Onward
    <3>1. /\ \A x \in Runs \ {r} : run'[x] = run[x]
          /\ run'[r].exec = run[r].exec /\ run'[r].pc = p
          /\ run'[r].work = run[r].work /\ run'[r].eff = run[r].eff
      BY <1>0, <2>3 DEF RunType
    <3>2. \A x \in Runs : Goes(x)
      BY <2>2, <3>1 DEF Goes, Owns, OwnPC, Exposed, IsWorkflow
    <3> QED
      BY <2>1, <3>2 DEF Onward
  <2> QED
    BY <1>2, <2>1, <2>3
<1>4. CASE FlushRead
  <2>1. claims' = claims /\ acks' = acks /\ \A x \in Runs : run'[x] = NoLongerPending(x, loop.exec)
    BY <1>4 DEF FlushRead
  <2>2. ASSUME NEW x \in Runs
        PROVE  Goes(x)
    <3>1. /\ run'[x].exec = run[x].exec /\ run'[x].work = run[x].work /\ run'[x].eff = run[x].eff
          /\ run'[x].pc \in {run[x].pc, "over"}
      BY Zenon, <1>0, <2>1 DEF NoLongerPending, RunType
    <3> QED
      BY <3>1 DEF Goes, Owns, OwnPC, Exposed, IsWorkflow
  <2> QED
    BY <2>1, <2>2 DEF Onward
<1>5. CASE \/ \E e \in Execs : TakeRow(e) \/ TakeStale(e)
           \/ LoopRequeue \/ StaleWrite
           \/ StaleJudge \/ StaleFail \/ StaleFree \/ StaleFinishRef \/ FlushHandled
  <2>1. acks' = acks /\ claims' = claims
    BY Zenon, <1>5 DEF TakeRow, TakeStale, LoopRequeue, StaleWrite, StaleJudge, StaleFail, StaleFree, StaleFinishRef,
                FlushHandled
  <2>2. run' = run \/ \E S : run' = Signalled(S)
    BY Zenon, <1>5 DEF TakeRow, TakeStale, LoopRequeue, StaleWrite, StaleJudge, StaleFail, StaleFree, StaleFinishRef,
                FlushHandled
  <2> QED
    BY <1>2, <2>1, <2>2
<1> QED
  BY <1>1, <1>3, <1>4, <1>5 DEF LoopStep

(* So does every step of the task center.                                  *)
LEMMA NextGoes ==
  ASSUME TypeOK, TypeOK', ViewsCurrent, FencesHold, OwnersInStep, [Next]_vars
  PROVE  Onward \/ \E e \in Execs : Claim(e)
<1> USE DEF runVars
<1>0. MovesOn /\ run \in [Runs -> RunType]
  BY NextCurrent DEF AllCurrent, RunsStayCurrent, TypeOK, RunsTypeOK
<1>1. ASSUME acks' = acks, claims' = claims, run' = run \/ \E S : run' = Signalled(S)
      PROVE  Onward
  BY <1>1, RunsIdle, IdleGoes DEF Onward, TypeOK
<1>2. ASSUME NEW e \in Execs, Create(e) \/ Expire(e) \/ SettleOrphan(e) \/ RefOrphan(e)
      PROVE  Onward
  BY <1>1, <1>2 DEF Create, Expire, SettleOrphan, RefOrphan, managerVars
<1>3. ASSUME NEW e \in Execs, LoseClaim(e)
      PROVE  Claim(e)
  <2>1. NewRun(e, row'[e], "over").exec = e
    BY DEF NewRun
  <2> QED
    BY <1>3, <2>1 DEF LoseClaim, Claim, MayDequeue, Claimable
<1>4. ASSUME NEW r \in Runs, RunProgress(r)
      PROVE  Onward
  <2>1. UNCHANGED <<mgr, claims, acks>> /\ RunStep(r)
    BY Zenon, <1>4 DEF RunProgress, managerVars, RunStep, ReadScheduler, DispatchFails, StartSession, Register, Check,
                  Open, StartEffect, WorkEnds, EndWork, Interrupted, AbsoluteTimeout, GuardTimeout, GuardCancel,
                  LateWorkEnds, Save, Reread, Fail, FailWrite, InterruptRead, InterruptJudge,
                  InterruptRequeue, Release, FinishRef, Judge, Settle
  <2>2. Alone(r)
    BY <1>0, <2>1, RunStepFenced
  <2> QED
    BY <2>1, <2>2, RunGoes DEF Onward
<1>5. ASSUME NEW r \in Runs, FailSave(r)
      PROVE  Onward
  <2>1. PICK a \in BOOLEAN : SaveFails(r, a)
    BY <1>5 DEF FailSave
  <2>2. claims' = claims /\ acks' = acks
    BY <1>5, <2>1 DEF FailSave, SaveFails
  <2>3. ASSUME NEW x \in Runs
        PROVE  Goes(x)
    <3>1. /\ run'[x].exec = run[x].exec /\ run'[x].work = run[x].work /\ run'[x].eff = run[x].eff
          /\ run'[x].pc \in {run[x].pc, "pending", "over"}
      BY <1>0, <2>1 DEF SaveFails, NoLongerPending, RunType
    <3> QED
      BY <3>1 DEF Goes, Owns, OwnPC, Exposed, IsWorkflow
  <2> QED
    BY <2>2, <2>3 DEF Onward
<1>6. CASE LoopStep
  BY <1>6, LoopGoes
<1>7. ASSUME NEW q \in Reqs, AskStep(q)
      PROVE  Onward
  <2>1. acks' = acks /\ UNCHANGED runVars
    BY <1>7 DEF AskStep, AskCancel, AskDelete, AskRetry, AskResume, AskDrop, PauseQueue, View, Ask
  <2> QED
    BY <1>1, <2>1
<1>8. ASSUME NEW q \in Reqs, RequestStep(q)
      PROVE  Onward
  <2>1. CASE PersonRequeue(q)
    <3>1. run' = run /\ claims' = claims
      BY <2>1 DEF PersonRequeue
    <3>2. acks' = acks \/ acks' = [acks EXCEPT ![req[q].exec] = claims]
      BY <2>1 DEF PersonRequeue
    <3>3. acks \in [Execs -> Nat]
      BY DEF TypeOK, ManagerTypeOK
    <3>4. \A e \in Execs : acks'[e] \in {acks[e], claims}
      BY <3>2, <3>3
    <3>5. \A x \in Runs : Goes(x)
      BY <3>1, RunsIdle, IdleGoes DEF TypeOK
    <3> QED
      BY <3>1, <3>4, <3>5 DEF Onward
  <2>2. CASE CancelStop(q)
    BY <1>1, <2>2 DEF CancelStop
  <2>3. CASE CancelWrite(q) \/ CancelFree(q) \/ DeleteExecution(q) \/ DropNext(q) \/ DropScheduler(q)
    BY Zenon, <1>1, <2>3 DEF CancelWrite, CancelFree, DeleteExecution, DropNext, DropScheduler
  <2> QED
    BY <1>8, <2>1, <2>2, <2>3 DEF RequestStep
<1>9. CASE Stop \/ Quit \/ Crash
  <2>1. claims' = claims /\ acks' = acks
    BY Zenon, <1>9 DEF Stop, Quit, Crash, Gone
  <2>2. ASSUME NEW x \in Runs
        PROVE  Goes(x)
    <3>1. Ends(x)
      BY <1>9, StopEnds DEF Quit, Crash
    <3>2. Owns(x)' => Owns(x)
      BY <3>1 DEF Ends, Owns, OwnPC
    <3>3. Exposed(x)' => Exposed(x)
      BY <1>9, EndedKeeps DEF Quit, Crash, Exposed, IsWorkflow
    <3> QED
      BY <3>1, <3>2, <3>3 DEF Ends, Goes
  <2> QED
    BY <2>1, <2>2 DEF Onward
<1>10. CASE Start \/ Started \/ ResumeQueue \/ UNCHANGED vars
  <2>1. UNCHANGED <<run, acks, claims>>
    BY <1>10 DEF Start, Started, ResumeQueue, vars, managerVars
  <2> QED
    BY <1>1, <2>1
<1> QED
  BY <1>2, <1>3, <1>4, <1>5, <1>6, <1>7, <1>8, <1>9, <1>10 DEF Next

(* So a run that another of its execution came after owns nothing, and has *)
(* nothing in doubt but what a person knew of.                             *)
LEMMA LastActsStays ==
  ASSUME "suspend" \notin Faults
  PROVE  Spec => []OnlyLastActs
<1>1. Init => OnlyLastActs
  BY DEF Init, RunsInit, OnlyLastActs, Superseded, Runs
<1>2. InOrder /\ InOrder' /\ OnlyLastActs /\ [Next]_vars => OnlyLastActs'
  BY NextGoes, OnwardLastActs, ClaimLastActs DEF InOrder, WorkInOrder
<1> QED
  BY <1>1, <1>2, StaysInOrder, PTL DEF Spec

(* While a later run of an execution works, the work of an earlier one is  *)
(* over or was told to stop, and what it may have done, or as a workflow   *)
(* may still do, a person knew of who sent the execution off since.  Also  *)
(* runs that were told to stop are counted: the agent's task nobody waited *)
(* for, and the workflow's thread the guard gave up on.                    *)
THEOREM OneRunnerAtATime ==
  ASSUME "suspend" \notin Faults
  PROVE  Spec => []OneRunner
<1>1. ASSUME InOrder, OnlyLastActs, NEW r \in Runs, NEW s \in Runs,
             run[r].exec = run[s].exec, r < s, run[s].work = "going"
      PROVE  /\ run[r].work = "going" => run[r].stop
             /\ Exposed(r) => r <= acks[run[r].exec]
  <2>1. s <= claims
    BY <1>1, MaxClaimsAssumption DEF InOrder, FencesHold, Fenced, TypeOK, RunsTypeOK, Runs
  <2>2. ~Owns(r) /\ (Exposed(r) => r <= acks[run[r].exec])
    BY <1>1, <2>1 DEF OnlyLastActs, Superseded
  <2>3. ~Going(r)
    BY <1>1, <2>2, GoingOwns DEF InOrder
  <2> QED
    BY <2>2, <2>3 DEF Going
<1>2. InOrder /\ OnlyLastActs => OneRunner
  BY <1>1 DEF OneRunner
<1> QED
  BY <1>2, StaysInOrder, LastActsStays, PTL
=============================================================================
