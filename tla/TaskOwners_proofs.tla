------------------------- MODULE TaskOwners_proofs --------------------------
(***************************************************************************)
(* OwnersInStep is an invariant of the task center, unless the machine     *)
(* sleeps: the running row of an execution carries the claim of the one    *)
(* run that owns it.                                                       *)
(*                                                                         *)
(* The argument: a step moves at most one run, and a dispatcher only gives *)
(* up what it owns (RunOwnsLess); so it is enough that no other run is     *)
(* robbed of its row, its slot, or the signal that reaches its work        *)
(* (Bystander).  Rows are taken from their owner by a cancel or a delete,  *)
(* which call the execution off, and by recovery, which only takes rows    *)
(* nobody owns.                                                            *)
(***************************************************************************)
EXTENDS TaskFinality_proofs

(* A row of which a step at most moves the version on.                     *)
Kept(e) == /\ row'[e].status = row[e].status /\ row'[e].started = row[e].started
           /\ row'[e].sess = row[e].sess /\ row'[e].due = row[e].due /\ row'[e].held = row[e].held

(* What the invariant says of one run.                                     *)
InStep(x) == OwnerHasRow(x) /\ WorkReached(x) /\ ObjectAgrees(x)

(* A row that was called off is never brought back.                        *)
LEMMA CalledOffStays ==
  ASSUME MovesOn, NEW e \in Execs, CalledOff(e)
  PROVE  CalledOff(e)'
BY DEF MovesOn, RowStep, CalledOff

(* A run that is over, or not yet claimed, owns nothing.                   *)
LEMMA OverInStep ==
  ASSUME NEW x \in Runs, run'[x].pc \in {"unused", "over"}
  PROVE  InStep(x)' /\ ~Owns(x)' /\ ~Keeps(x)'
BY DEF InStep, OwnerHasRow, WorkReached, ObjectAgrees, Owns, Keeps, OwnPC, FirstObject, InDispatch, Settling

(* What a step must leave of run x's surroundings.                         *)
Bystander(x) ==
  LET e == run[x].exec IN
  /\ Idle(x)
  /\ Owns(x) => CalledOff(e)' \/ Kept(e)
  /\ Owns(x) /\ row'[e].status # "deleted" => row'[e].sess = row[e].sess
  /\ Keeps(x) /\ slot[e] = x => CalledOff(e)' \/ slot'[e] = x
  /\ Owns(x) /\ wfEvent[e] = x => wfEvent'[e] = x
  /\ run[x].pc = "pending" /\ row'[e].status = "running" /\ row'[e].started = x =>
       row[e].status = "running" /\ row[e].started = x /\ row'[e].sess = row[e].sess
  /\ run[x].pc \in {"open", "work"} /\ row'[e].status = "cancelled" /\ ~Cancelling(e)' =>
       (row[e].status = "cancelled" /\ ~Cancelling(e)) \/ run'[x].stop

(* A bystander stays in step.                                              *)
LEMMA BystanderInStep ==
  ASSUME TypeOK, TypeOK', MovesOn, NEW x \in Runs, RunCurrent(x), InStep(x), Bystander(x)
  PROVE  InStep(x)'
<1> DEFINE e == run[x].exec
<1>0. /\ run[x] \in RunType /\ e \in Execs /\ run[x].obj \in RowType /\ row[e] \in RowType
      /\ row'[e] \in RowType
      /\ run'[x].exec = e /\ run'[x].pc = run[x].pc /\ run'[x].obj = run[x].obj
      /\ run'[x].exit = run[x].exit
  BY ViewTypes DEF TypeOK, Bystander, Idle, StoreTypeOK
<1>1. CASE run[x].pc \in {"unused", "over"}
  BY <1>0, <1>1, OverInStep
<1>2. CASE run[x].pc \notin {"unused", "over"}
  <2>1. CalledOff(e) => CalledOff(e)'
    BY <1>0, CalledOffStays
  <2>2. row'[e].status # "deleted" =>
             /\ row[e].status # "deleted" /\ row[e].status # "new"
             /\ row'[e].ver >= row[e].ver
             /\ row'[e].ver = row[e].ver => row'[e] = row[e]
    BY <1>0, <1>2, RowsAge DEF RunCurrent, TypeOK
  <2>3. OwnerHasRow(x)'
    BY <1>0, <2>1 DEF InStep, Bystander, OwnerHasRow, Owns, Keeps, Kept
  <2>4. WorkReached(x)'
    BY <1>0 DEF InStep, Bystander, Idle, WorkReached, Owns, OwnPC, PC
  <2>5. ObjectAgrees(x)'
    <3>1. run[x].obj.ver \in Nat /\ row[e].ver \in Nat /\ row'[e].ver \in Nat
      BY <1>0 DEF RowType
    <3>2. row'[e].status # "deleted" => run[x].obj.ver <= row[e].ver
      BY <1>2, <2>2 DEF RunCurrent
    <3>3. Owns(x) /\ row'[e].status \notin {"cancelled", "deleted"} => Kept(e)
      BY <1>0 DEF Bystander, CalledOff
    <3>4. Present(e)' => Present(e) /\ (row'[e].ver = run[x].obj.ver => row'[e] = row[e])
      BY <1>0, <2>2, <3>1, <3>2 DEF Present
    <3>5. Settling(run'[x]) = Settling(run[x])
      BY <1>0 DEF Settling
    <3>6. run[x].pc \in {"register", "check", "open", "work", "save"} /\ Present(e)' => row'[e].sess = row[e].sess
      BY <1>0, <3>3 DEF Bystander, Owns, OwnPC, PC, Kept, Present
    <3> QED
      BY <1>0, <3>3, <3>4, <3>5, <3>6
      DEF InStep, Bystander, ObjectAgrees, Owns, OwnPC, PC, Kept, FirstObject
  <2> QED
    BY <2>3, <2>4, <2>5 DEF InStep
<1> QED
  BY <1>1, <1>2
-----------------------------------------------------------------------------
(* The marks a write leaves on its row.                                    *)
LEMMA MarksWritten ==
  ASSUME StoreTypeOK, \A x \in Execs : MarksInStep(x), NEW e \in Execs, NEW o \in RowType,
         o.status \in Active => Clean(o),
         o.status = "failed" /\ o.due => ~o.held,
         WriteRow(e, o) \/ RequeueRow(e, o)
  PROVE  \A x \in Execs : MarksInStep(x)'
BY WriteFields, RequeueFields DEF MarksInStep, Clean

(* What the steps of run r do to the rows: as their owner, or to settle a  *)
(* failure.                                                                *)
RowsOf(r) == \A e \in Execs : \/ row'[e] = row[e]
                              \/ e = run[r].exec /\ Owns(r)
                              \/ e = run[r].exec /\ row[e].status = "failed" /\ row'[e].status = "failed"

(* The rows and marks a step of a dispatcher may change.                   *)
LEMMA RunRows ==
  ASSUME TypeOK, ViewsCurrent, FencesHold, OwnersInStep, NEW r \in Runs,
         RunStep(r) \/ \E a \in BOOLEAN : SaveFails(r, a)
  PROVE  RowsOf(r) /\ \A x \in Execs : MarksInStep(x)'
<1> DEFINE e == run[r].exec
           o == run[r].obj
<1> USE DEF storeVars
<1>0. /\ run[r] \in RunType /\ e \in Execs /\ o \in RowType /\ RunCurrent(r) /\ row \in [Execs -> RowType]
      /\ StoreTypeOK /\ r \in Nat /\ r # 0 /\ Fenced(r) /\ row[e] \in RowType
      /\ OwnerHasRow(r) /\ WorkReached(r) /\ ObjectAgrees(r) /\ \A x \in Execs : MarksInStep(x)
  BY ViewTypes DEF TypeOK, RunsTypeOK, ViewsCurrent, StoreTypeOK, FencesHold, Runs, OwnersInStep
<1>1. ASSUME NEW n \in RowType, n.status \in Active => Clean(n),
             n.status = "failed" /\ n.due => ~n.held,
             WriteRow(e, n) \/ RequeueRow(e, n),
             Owns(r) \/ (row[e].status = "failed" /\ n.status = "failed")
      PROVE  RowsOf(r) /\ \A x \in Execs : MarksInStep(x)'
  BY <1>0, <1>1, MarksWritten, WriteFields, RequeueFields DEF RowsOf
<1>2. CASE UNCHANGED row
  BY <1>0, <1>2 DEF RowsOf, MarksInStep
<1>3. CASE ReadScheduler(r)
  <2>1. ~sched => ~Present(e)
    BY <1>0 DEF ViewsCurrent, StartCurrent
  <2> QED
    BY <1>2, <1>3, <2>1 DEF ReadScheduler
<1>4. CASE StartSession(r)
  <2>1. UNCHANGED row \/ (IsActive(e) /\ StartRow(e, o.sess, o.started))
    BY <1>4 DEF StartSession
  <2>2. Owns(r)
    BY <1>4 DEF StartSession, Owns, OwnPC, PC
  <2>3. CASE IsActive(e) /\ StartRow(e, o.sess, o.started)
    <3>1. o.sess \in Nat /\ o.started \in Nat
      BY <1>0 DEF RowType
    <3>2. /\ \A x \in Execs \ {e} : row'[x] = row[x]
          /\ row'[e].status = "running" /\ row'[e].due = row[e].due /\ row'[e].held = row[e].held
      BY <1>0, <2>3, <3>1, StartFields
    <3> QED
      BY <1>0, <2>2, <2>3, <3>2 DEF RowsOf, MarksInStep, IsActive, Clean
  <2> QED
    BY <1>2, <2>1, <2>3
<1>5. CASE Save(r) \/ \E a \in BOOLEAN : SaveFails(r, a)
  <2>1. UNCHANGED row \/ WriteRow(e, o)
    BY <1>5 DEF Save, SaveFails
  <2>2. run[r].pc = "save"
    BY <1>5 DEF Save, SaveFails
  <2>3. Owns(r) /\ Clean(o)
    BY <1>0, <2>2 DEF Owns, OwnPC, PC, ObjectAgrees, FirstObject, InDispatch
  <2> QED
    BY <1>0, <1>1, <1>2, <2>1, <2>3 DEF Clean
<1>6. CASE FailWrite(r)
  <2>1. UNCHANGED row \/ (WriteRow(e, o) /\ StillActive(e, o))
    BY <1>6 DEF FailWrite
  <2>2. run[r].pc = "failwrite" /\ o.status = "failed" /\ Owns(r)
    BY <1>0, <1>6 DEF FailWrite, RunCurrent, Owns, OwnPC, PC
  <2>3. StillActive(e, o) => ~o.due
    BY <1>0, <2>2 DEF StillActive, IsActive, OwnerHasRow, CalledOff, ObjectAgrees, Active
  <2> QED
    BY <1>0, <1>1, <1>2, <2>1, <2>2, <2>3 DEF Active
<1>7. CASE InterruptRequeue(r)
  <2>1. UNCHANGED row \/ (RequeueRow(e, Requeued(o, FALSE)) /\ Requeueable(e, o.status, o.ver))
    BY <1>7 DEF InterruptRequeue
  <2>2. run[r].pc = "intrequeue" /\ Owns(r) /\ o.status \notin Terminal
    BY <1>0, <1>7 DEF InterruptRequeue, RunCurrent, Owns, OwnPC, PC
  <2>3. Requeueable(e, o.status, o.ver) => Clean(o)
    BY <1>0, <2>2 DEF Requeueable, Unchanged, Present, ObjectAgrees, MarksInStep, RowType, Status
  <2> QED
    BY <1>0, <1>1, <1>2, <2>1, <2>2, <2>3, RequeuedFields DEF Clean, Active
<1>8. CASE Settle(r)
  <2> DEFINE n == IF run[r].pc = "hold" THEN Held(o) ELSE [o EXCEPT !.count = @ + 1, !.due = TRUE]
  <2>1. UNCHANGED row \/ (WriteRow(e, n) /\ Unchanged(e, o.ver))
    BY <1>8 DEF Settle
  <2>2. o.status = "failed" /\ Settling(run[r])
    BY <1>0, <1>8 DEF Settle, RunCurrent, Settling
  <2>3. Unchanged(e, o.ver) => row[e].status = "failed" /\ ~o.held
    BY <1>0, <2>2 DEF Unchanged, Present, ObjectAgrees, RunCurrent, Settling
  <2>4. n \in RowType /\ n.status = "failed" /\ (~o.held /\ n.due => ~n.held)
    <3>1. o.count + 1 \in Nat
      BY <1>0 DEF RowType
    <3> QED
      BY <1>0, <2>2, <3>1 DEF Held, RowType
  <2> HIDE DEF n
  <2> QED
    BY <1>0, <1>1, <1>2, <2>1, <2>3, <2>4 DEF Active
<1> QED
  BY <1>2, <1>3, <1>4, <1>5, <1>6, <1>7, <1>8
  DEF RunStep, DispatchFails, Register, Check, Open,
      StartEffect, WorkEnds, EndWork, Interrupted, AbsoluteTimeout, GuardTimeout, GuardCancel,
      LateWorkEnds, Reread, Fail, InterruptRead, InterruptJudge, Release, FinishRef, FinishRefRow, Judge
-----------------------------------------------------------------------------
(* The run that takes a step stays in step with its row.                   *)
LEMMA EndWorkInStep ==
  ASSUME TypeOK, NEW r \in Runs, InStep(r), run[r].pc \in {"check", "open", "work"}, NEW s,
         EndWork(r, s)
  PROVE  InStep(r)'
<1>1. run[r] \in RunType /\ run \in [Runs -> RunType] /\ run[r].obj \in RowType
  BY ViewTypes DEF TypeOK, RunsTypeOK
<1>2. /\ run'[r].exec = run[r].exec /\ run'[r].pc = "save"
      /\ run'[r].obj = [run[r].obj EXCEPT !.status = s] /\ UNCHANGED <<row, slot>>
  BY <1>1 DEF EndWork, RunType, storeVars, queueVars
<1>3. /\ run'[r].obj.sess = run[r].obj.sess
      /\ run'[r].obj.due = run[r].obj.due /\ run'[r].obj.held = run[r].obj.held
  BY <1>1, <1>2 DEF RowType
<1> QED
  BY <1>1, <1>2, <1>3
  DEF InStep, OwnerHasRow, WorkReached, ObjectAgrees, Owns, Keeps, OwnPC, PC, FirstObject, InDispatch,
      CalledOff, Clean, Present, Settling

(* An interrupt of a dispatcher keeps its run in step.                     *)
LEMMA InterruptedInStep ==
  ASSUME TypeOK, NEW r \in Runs, InStep(r), run[r].pc \in {"check", "open", "work"}, Interrupted(r)
  PROVE  InStep(r)'
<1>1. run[r] \in RunType /\ run \in [Runs -> RunType]
  BY DEF TypeOK, RunsTypeOK
<1>2. /\ run'[r].exec = run[r].exec /\ run'[r].pc = "intread"
      /\ run'[r].obj = run[r].obj /\ UNCHANGED <<row, slot>>
  BY <1>1 DEF Interrupted, RunType, storeVars, queueVars
<1> QED
  BY <1>1, <1>2
  DEF InStep, OwnerHasRow, WorkReached, ObjectAgrees, Owns, Keeps, OwnPC, PC, FirstObject, InDispatch,
      CalledOff, Clean, Present, Settling

(* So does every step of its own.                                          *)
LEMMA RunInStep ==
  ASSUME TypeOK, TypeOK', ViewsCurrent, FencesHold, OwnersInStep, MovesOn, NEW r \in Runs,
         RunStep(r), UNCHANGED req
  PROVE  InStep(r)'
<1> DEFINE e == run[r].exec
           o == run[r].obj
           w == row[e]
<1> USE DEF storeVars, queueVars
<1>0. /\ run[r] \in RunType /\ e \in Execs /\ o \in RowType /\ RunCurrent(r) /\ row \in [Execs -> RowType]
      /\ StoreTypeOK /\ r \in Nat /\ r # 0 /\ Fenced(r) /\ w \in RowType /\ run \in [Runs -> RunType]
      /\ InStep(r) /\ MarksInStep(e)
  BY ViewTypes DEF TypeOK, RunsTypeOK, ViewsCurrent, StoreTypeOK, FencesHold, Runs, OwnersInStep, InStep
<1>a. InStep(r)'
      <=> OwnerHasRow(r)' /\ WorkReached(r)' /\ ObjectAgrees(r)'
  BY DEF InStep
<1> USE DEF InStep, OwnerHasRow, WorkReached, ObjectAgrees, Owns, Keeps, OwnPC, PC, FirstObject, InDispatch,
            CalledOff, Clean, Present, Settling
<1>2. CASE ReadScheduler(r)
  <2>1. CASE sched
    <3>1. /\ run' = [run EXCEPT ![r].pc = "start",
                 ![r].obj = [o EXCEPT !.sess = IF e \in Workflow THEN 0 ELSE IF @ = 0 THEN r ELSE @]]
          /\ run[r].pc = "scheduler" /\ UNCHANGED <<row, slot>>
      BY <1>2, <2>1 DEF ReadScheduler
    <3>2. /\ run'[r].exec = e /\ run'[r].pc = "start"
          /\ run'[r].obj.due = o.due /\ run'[r].obj.held = o.held
      BY <1>0, <3>1 DEF RunType, RowType
    <3> QED
      BY <1>0, <3>1, <3>2
  <2>2. CASE ~sched
    <3>1. run'[r].pc = "over"
      BY <1>0, <1>2, <2>2 DEF ReadScheduler, RunType
    <3> QED
      BY <3>1, OverInStep
  <2> QED
    BY <2>1, <2>2
<1>3. CASE DispatchFails(r)
  BY <1>0, <1>3 DEF DispatchFails, RunType
<1>4. CASE StartSession(r)
  <2>1. CASE IsActive(e)
    <3>1. o.sess \in Nat /\ o.started \in Nat
      BY <1>0 DEF RowType
    <3>2. /\ run[r].pc = "start" /\ run'[r].pc = "register" /\ run'[r].exec = e /\ run'[r].obj = o
          /\ UNCHANGED slot /\ StartRow(e, o.sess, o.started)
      BY <1>0, <1>4, <2>1 DEF StartSession, RunType
    <3>3. /\ row'[e].status = "running" /\ row'[e].sess = o.sess
          /\ row'[e].started = (IF w.started = 0 THEN o.started ELSE w.started)
      BY <1>0, <3>1, <3>2, StartFields
    <3>4. w.status = "running" /\ w.started = r
      BY <1>0, <2>1, <3>2 DEF IsActive, Active
    <3> QED
      BY <1>0, <3>2, <3>3, <3>4
  <2>2. CASE ~IsActive(e)
    BY <1>0, <1>4, <2>2 DEF StartSession, RunType
  <2> QED
    BY <2>1, <2>2
<1>5. CASE Register(r)
  <2>1. /\ run[r].pc = "register" /\ run'[r].pc = "check" /\ run'[r].exec = e /\ run'[r].obj = o
        /\ UNCHANGED <<row, slot>>
        /\ wfEvent' = IF e \in Workflow THEN [wfEvent EXCEPT ![e] = r] ELSE wfEvent
    BY <1>0, <1>5 DEF Register, RunType
  <2>2. e \in Workflow => wfEvent'[e] = r
    BY <1>0, <2>1 DEF TypeOK, RunsTypeOK
  <2> QED
    BY <1>0, <2>1, <2>2
<1>6. CASE Check(r)
  <2>1. CASE \E s \in {"cancelled", "failed"} : EndWork(r, s)
    BY <1>0, <1>6, <2>1, EndWorkInStep DEF Check
  <2>2. CASE w.status = "running" /\ run' = [run EXCEPT ![r].pc = "open"] /\ UNCHANGED <<row, slot, wfEvent>>
    BY <1>0, <1>6, <2>2 DEF Check, RunType
  <2> QED
    BY SMTT(20), <1>6, <2>1, <2>2 DEF Check
<1>7. CASE Open(r)
  <2>1. CASE \E s \in {"cancelled"} : EndWork(r, s)
    <3>1. run[r].pc \in {"check", "open", "work"}
      BY <1>7 DEF Open
    <3> QED
      BY <1>0, <2>1, <3>1, EndWorkInStep
  <2>2. CASE Interrupted(r)
    BY <1>0, <1>7, <2>2, InterruptedInStep DEF Open
  <2>3. CASE ~run[r].stop /\ run' = [run EXCEPT ![r].pc = "work", ![r].work = "going"]
             /\ UNCHANGED <<row, slot, wfEvent>>
    BY <1>0, <1>7, <2>3 DEF Open, RunType, Cancelling
  <2> QED
    BY SMTT(20), <1>7, <2>1, <2>2, <2>3 DEF Open
<1>8. CASE StartEffect(r)
  BY SMTT(20), <1>0, <1>8 DEF StartEffect, RunType, Cancelling
<1>9. CASE WorkEnds(r)
  BY <1>0, <1>9, EndWorkInStep, InterruptedInStep DEF WorkEnds
<1>10. CASE AbsoluteTimeout(r)
  <2>1. /\ run[r].pc = "work" /\ run'[r].pc = "save" /\ run'[r].exec = e
        /\ run'[r].obj = [o EXCEPT !.status = "failed"] /\ UNCHANGED <<row, slot>>
    BY <1>0, <1>10 DEF AbsoluteTimeout, RunType
  <2>2. run'[r].obj.sess = o.sess /\ run'[r].obj.due = o.due /\ run'[r].obj.held = o.held
    BY <1>0, <2>1 DEF RowType
  <2> QED
    BY <1>0, <2>1, <2>2
<1>11. CASE GuardTimeout(r)
  BY <1>0, <1>11 DEF GuardTimeout, RunType
<1>12. CASE GuardCancel(r)
  <2> DEFINE s == Signalled(Reached(e, o.sess))
  <2>1. s \in [Runs -> RunType]
    BY SignalledType DEF TypeOK
  <2>2. s[r].exec = e /\ s[r].obj = o
    BY <1>0 DEF Signalled
  <2>3. run' = [s EXCEPT ![r].pc = "fail"] /\ run[r].pc = "guard" /\ UNCHANGED <<row, slot>>
    BY <1>12 DEF GuardCancel
  <2> HIDE DEF s
  <2> QED
    BY <1>0, <2>1, <2>2, <2>3 DEF RunType
<1>13. CASE LateWorkEnds(r)
  <2>1. /\ run'[r].exec = e /\ run'[r].pc = run[r].pc /\ run'[r].obj = o /\ run'[r].stop = run[r].stop
        /\ run'[r].exit = run[r].exit
        /\ UNCHANGED <<row, slot>> /\ run[r].work = "going" /\ run[r].pc # "work"
    BY <1>0, <1>13 DEF LateWorkEnds, RunType
  <2>2. run[r].pc \notin {"check", "open"}
    BY <1>0, <2>1 DEF Fenced
  <2> QED
    BY <1>0, <2>1, <2>2
<1>14. CASE Save(r)
  <2>1. CASE StillActive(e, o)
    <3>1. /\ run[r].pc = "save" /\ run'[r].pc = "release" /\ run'[r].exec = e /\ run'[r].obj = row'[e]
          /\ run'[r].exit = run[r].exit /\ WriteRow(e, o)
      BY <1>0, <1>14, <2>1 DEF Save, RunType
    <3>2. row'[e].due = o.due /\ row'[e].held = o.held
      BY <1>0, <3>1, WriteFields
    <3> QED
      BY <1>0, <3>1, <3>2
  <2>2. CASE ~StillActive(e, o)
    BY <1>0, <1>14, <2>2 DEF Save, RunType
  <2> QED
    BY <2>1, <2>2
<1>15. CASE Reread(r)
  <2>1. /\ run[r].pc \in {"reread", "failreread"} /\ run'[r].pc = "release" /\ run'[r].exec = e
        /\ run'[r].obj = Current(e, o) /\ UNCHANGED <<row, slot>>
    BY <1>0, <1>15 DEF Reread, RunType
  <2> QED
    BY <1>0, <2>1 DEF Current
<1>16. CASE Fail(r)
  <2> DEFINE c == Current(e, o)
             f == [c EXCEPT !.status = "failed"]
  <2>1. c \in RowType /\ (Present(e) => c = w)
    BY <1>0, ViewTypes DEF TypeOK, Current
  <2>2. CASE Present(e) /\ c.status \in Terminal
    <3>1. /\ run[r].pc = "fail" /\ run'[r].pc = "release" /\ run'[r].exec = e
          /\ run'[r].obj = w /\ UNCHANGED <<row, slot>>
      BY <1>0, <1>16, <2>1, <2>2 DEF Fail, RunType
    <3> QED
      BY <1>0, <3>1
  <2>3. CASE ~(Present(e) /\ c.status \in Terminal)
    <3>1. /\ run[r].pc = "fail" /\ run'[r].pc = "failwrite" /\ run'[r].exec = e
          /\ run'[r].obj = (IF run[r].exit = "raise" THEN Held(f) ELSE f) /\ UNCHANGED <<row, slot>>
          /\ run'[r].exit = run[r].exit
      BY <1>0, <1>16, <2>3 DEF Fail, RunType
    <3>2. /\ run'[r].obj.started = c.started /\ run'[r].obj.sess = c.sess
          /\ c.due = FALSE => ~run'[r].obj.due
          /\ c.held = FALSE /\ run[r].exit = "settle" => ~run'[r].obj.held
      BY <2>1, <3>1 DEF Held, RowType
    <3>3. w.status = "running" => c = w /\ ~w.due /\ ~w.held
      BY <1>0, <2>1 DEF MarksInStep, Active
    <3> HIDE DEF c
    <3> QED
      BY <1>0, <3>1, <3>2, <3>3 DEF RowType
  <2> QED
    BY <2>2, <2>3
<1>17. CASE FailWrite(r)
  <2>1. CASE StillActive(e, o)
    <3>1. /\ run[r].pc = "failwrite" /\ run'[r].pc = "release" /\ run'[r].exec = e /\ run'[r].obj = row'[e]
          /\ run'[r].exit = run[r].exit /\ WriteRow(e, o)
      BY <1>0, <1>17, <2>1 DEF FailWrite, RunType
    <3>2. row'[e].due = o.due /\ row'[e].held = o.held
      BY <1>0, <3>1, WriteFields
    <3>3. w.status = "running"
      BY <1>0, <2>1, <3>1 DEF StillActive, IsActive, Active
    <3> QED
      BY <1>0, <3>1, <3>2, <3>3
  <2>2. CASE ~StillActive(e, o)
    BY <1>0, <1>17, <2>2 DEF FailWrite, RunType
  <2> QED
    BY <2>1, <2>2
<1>18. CASE InterruptRead(r)
  <2>1. /\ run[r].pc = "intread" /\ run'[r].pc \in {"release", "intjudge"} /\ run'[r].exec = e
        /\ run'[r].obj = Current(e, o) /\ UNCHANGED <<row, slot>>
    BY <1>0, <1>18 DEF InterruptRead, RunType
  <2> QED
    BY <1>0, <2>1 DEF Current
<1>19. CASE InterruptJudge(r)
  BY <1>0, <1>19 DEF InterruptJudge, RunType
<1>20. CASE InterruptRequeue(r)
  <2> DEFINE q == Requeued(o, FALSE)
             c == Current(e, q)
             y == IF c.status = "queued" THEN "requeued" ELSE run[r].exit
  <2>1. run[r].pc = "intrequeue" /\ q.status = "queued"
    BY <1>0, <1>20, RequeuedFields DEF InterruptRequeue
  <2>2. CASE Requeueable(e, o.status, o.ver)
    <3>1. run' = [run EXCEPT ![r].pc = "release", ![r].exit = "requeued", ![r].obj = row'[e]]
      BY <1>20, <2>2 DEF InterruptRequeue
    <3>2. run'[r].pc = "release" /\ run'[r].exit = "requeued"
      BY <1>0, <3>1 DEF RunType
    <3> QED
      BY <3>2
  <2>3. CASE ~Requeueable(e, o.status, o.ver)
    <3>1. run' = [run EXCEPT ![r].pc = "release", ![r].obj = c, ![r].exit = y] /\ UNCHANGED row
      BY <1>20, <2>3 DEF InterruptRequeue
    <3>2. c.status # "queued" => c = w /\ Present(e)
      BY <2>1 DEF Current
    <3>3. y = "settle" => c.status # "queued"
      OBVIOUS
    <3> HIDE DEF c, y
    <3>4. run'[r].pc = "release" /\ run'[r].exec = e /\ run'[r].exit = y /\ run'[r].obj = c
      BY <1>0, <3>1 DEF RunType
    <3> QED
      BY <1>0, <2>1, <3>1, <3>2, <3>3, <3>4
  <2> QED
    BY <2>2, <2>3
<1>21. CASE Release(r) \/ FinishRef(r)
  <2>1. /\ run[r].pc \in {"release", "finishref"} /\ UNCHANGED row
        /\ run'[r].exec = e /\ run'[r].obj = o /\ run'[r].exit = run[r].exit
        /\ run'[r].pc \in {"finishref", "over"} \/ (run'[r].pc = "judge" /\ run[r].exit = "settle")
    BY <1>0, <1>21 DEF Release, FinishRef, FinishRefRow, Done, RunType
  <2> QED
    BY <1>0, <2>1
<1>22. CASE Judge(r)
  <2>1. /\ run[r].pc = "judge" /\ UNCHANGED row /\ run'[r].exec = e /\ run'[r].obj = o
        /\ run'[r].exit = run[r].exit /\ run'[r].pc \in {"hold", "later", "over"}
    BY <1>0, <1>22 DEF Judge, RunType
  <2> QED
    BY <1>0, <2>1
<1>23. CASE Settle(r)
  <2>1. run'[r].pc = "over"
    BY <1>0, <1>23 DEF Settle, RunType
  <2> QED
    BY <2>1, OverInStep
<1> QED
  BY <1>2, <1>3, <1>4, <1>5, <1>6, <1>7, <1>8, <1>9, <1>10, <1>11, <1>12, <1>13, <1>14, <1>15, <1>16,
     <1>17, <1>18, <1>19, <1>20, <1>21, <1>22, <1>23
  DEF RunStep
-----------------------------------------------------------------------------
(* What a step leaves in order that changes no owner.                      *)
NoNewOwner == \A x \in Runs : Keeps(x)' => /\ Keeps(x) /\ run'[x].exec = run[x].exec
                                           /\ Owns(x)' => Owns(x)

(* Without a new owner there are no two.                                   *)
LEMMA OneOwnerStays ==
  ASSUME OneOwner, NoNewOwner
  PROVE  OneOwner'
BY DEF OneOwner, NoNewOwner, Keeps

(* An idle run owns what it owned.                                         *)
LEMMA IdleOwner ==
  ASSUME NEW x \in Runs, Idle(x)
  PROVE  /\ Owns(x)' = Owns(x) /\ Keeps(x)' = Keeps(x) /\ run'[x].exec = run[x].exec
BY DEF Idle, Owns, Keeps

(* A row the execution loop recovers may be called off meanwhile.          *)
Quiet(e) == \/ Kept(e) \/ CalledOff(e)'
            \/ row[e].status # "running" /\ row'[e].status # "running"

(* The execution loop agrees with the rows while others act.               *)
LEMMA LoopStays ==
  ASSUME TypeOK, TypeOK', MovesOn, LoopAgrees, NoNewOwner, loop' = loop, mgr' \in {mgr, "up"},
         Recovering => Quiet(loop.exec)
  PROVE  LoopAgrees'
<1> DEFINE e == loop.exec
           w == row[e]
<1>0. /\ e \in Execs /\ loop.obj \in RowType /\ row[e] \in RowType /\ row'[e] \in RowType
      /\ loop' = loop
  BY LoopViewTypes DEF TypeOK, StoreTypeOK
<1>1. mgr' # "up" => loop'.pc = "idle"
  BY DEF LoopAgrees
<1>2. CalledOff(e) => CalledOff(e)'
  BY <1>0, CalledOffStays
<1>3. Recovering' => CalledOff(e)' \/ \A r \in Runs : run'[r].exec = e => ~Keeps(r)'
  BY <1>0, <1>2 DEF LoopAgrees, NoNewOwner, Recovering
<1>4. loop.pc \in {"stalejudge", "stalefail", "stalewrite"} => row'[e].status = "running" \/ CalledOff(e)'
  BY <1>0, <1>2 DEF LoopAgrees, Recovering, Quiet, Kept
<1>5. loop.pc = "stalewrite" /\ row'[e].status = "running" =>
          loop.obj.started = row'[e].started /\ loop.obj.sess = row'[e].sess /\ ~loop.obj.due
  BY <1>0, <1>2, <1>4 DEF LoopAgrees, Recovering, Quiet, Kept, CalledOff
<1>6. loop.pc \in {"retry", "orphan"} => /\ row'[e].status # "new"
                                         /\ row'[e].status # "deleted" =>
                                               /\ loop.obj.ver <= row'[e].ver
                                               /\ loop.obj.ver = row'[e].ver => loop.obj = row'[e]
  <2> SUFFICES ASSUME loop.pc \in {"retry", "orphan"}
               PROVE  /\ row'[e].status # "new"
                      /\ row'[e].status # "deleted" =>
                            /\ loop.obj.ver <= row'[e].ver
                            /\ loop.obj.ver = row'[e].ver => loop.obj = row'[e]
    OBVIOUS
  <2>1. row[e].status # "new"
    BY DEF LoopAgrees
  <2>2. /\ row'[e].status # "new"
        /\ row'[e].status # "deleted" =>
              /\ row[e].status # "deleted"
              /\ row'[e].ver >= row[e].ver
              /\ row'[e].ver = row[e].ver => row'[e] = row[e]
    BY <1>0, <2>1, RowsAge DEF TypeOK
  <2>3. row[e].status # "deleted" => loop.obj.ver <= row[e].ver /\ (loop.obj.ver = row[e].ver => loop.obj = row[e])
    BY <1>0, <2>1 DEF LoopAgrees, Present
  <2>4. loop.obj.ver \in Nat /\ row[e].ver \in Nat /\ row'[e].ver \in Nat
    BY <1>0 DEF RowType
  <2> QED
    BY <2>2, <2>3, <2>4
<1> QED
  BY <1>0, <1>1, <1>3, <1>4, <1>5, <1>6 DEF LoopAgrees, Present

(* So do the requests.                                                     *)
LEMMA RequestsStay ==
  ASSUME TypeOK, MovesOn, req' = req, \A q \in Reqs : RequestInStep(q)
  PROVE  \A q \in Reqs : RequestInStep(q)'
<1> SUFFICES ASSUME NEW q \in Reqs PROVE RequestInStep(q)'
  OBVIOUS
<1>1. req[q].exec \in Execs
  BY ReqViewTypes DEF TypeOK
<1>2. /\ CalledOff(req[q].exec) => CalledOff(req[q].exec)'
      /\ row[req[q].exec].status # "new" => row'[req[q].exec].status # "new"
  BY <1>1, CalledOffStays DEF MovesOn, RowStep, Active, Terminal
<1> QED
  BY <1>2 DEF RequestInStep

-----------------------------------------------------------------------------
(* A dispatcher at most gives up what it owns.                             *)
LEMMA RunOwnsLess ==
  ASSUME TypeOK, NEW r \in Runs, RunStep(r)
  PROVE  /\ run'[r].exec = run[r].exec
         /\ Owns(r)' => Owns(r)
         /\ Keeps(r)' => Keeps(r)
<1>0. run[r] \in RunType /\ run \in [Runs -> RunType]
  BY DEF TypeOK, RunsTypeOK
<1> USE DEF Owns, Keeps, OwnPC, PC
<1>1. CASE GuardCancel(r)
  <2> DEFINE s == Signalled(Reached(run[r].exec, run[r].obj.sess))
  <2>1. s \in [Runs -> RunType]
    BY SignalledType DEF TypeOK
  <2>2. s[r].exec = run[r].exec
    BY <1>0 DEF Signalled
  <2>3. run' = [s EXCEPT ![r].pc = "fail"] /\ run[r].pc = "guard"
    BY <1>1 DEF GuardCancel
  <2> HIDE DEF s
  <2> QED
    BY <2>1, <2>2, <2>3 DEF RunType
<1>2. /\ ReadScheduler(r) => run'[r].exec = run[r].exec /\ run[r].pc = "scheduler"
      /\ DispatchFails(r) \/ StartSession(r) \/ Register(r) \/ Check(r) \/ Open(r) \/ WorkEnds(r)
           \/ AbsoluteTimeout(r) \/ GuardTimeout(r) =>
           run'[r].exec = run[r].exec /\ run[r].pc \in InDispatch /\ run'[r].pc # "pending"
  BY <1>0 DEF ReadScheduler, DispatchFails, StartSession, Register, Check, Open, WorkEnds, EndWork,
              Interrupted, AbsoluteTimeout, GuardTimeout, RunType, InDispatch
<1>3. ReadScheduler(r) => run'[r].pc # "pending"
  BY <1>0 DEF ReadScheduler, RunType
<1>4. StartEffect(r) \/ LateWorkEnds(r) => run'[r].exec = run[r].exec /\ run'[r].pc = run[r].pc
  BY <1>0 DEF StartEffect, LateWorkEnds, RunType
<1>5. Save(r) \/ Reread(r) \/ FailWrite(r) \/ InterruptRead(r) \/ InterruptJudge(r) =>
        run'[r].exec = run[r].exec /\ Owns(r) /\ run'[r].pc # "pending"
  BY <1>0 DEF Save, Reread, FailWrite, InterruptRead, InterruptJudge, RunType
<1>7. Fail(r) => run'[r].exec = run[r].exec /\ Owns(r) /\ run'[r].pc # "pending"
  BY <1>0 DEF Fail, RunType
<1>8. InterruptRequeue(r) => run'[r].exec = run[r].exec /\ Owns(r) /\ run'[r].pc # "pending"
  <2> DEFINE c == Current(run[r].exec, Requeued(run[r].obj, FALSE))
             y == IF c.status = "queued" THEN "requeued" ELSE run[r].exit
             z == row'[run[r].exec]
  <2> SUFFICES ASSUME InterruptRequeue(r)
               PROVE  run'[r].exec = run[r].exec /\ Owns(r) /\ run'[r].pc # "pending"
    OBVIOUS
  <2>1. run[r].pc = "intrequeue"
    BY DEF InterruptRequeue
  <2>2. \/ run' = [run EXCEPT ![r].pc = "release", ![r].exit = "requeued", ![r].obj = z]
        \/ run' = [run EXCEPT ![r].pc = "release", ![r].obj = c, ![r].exit = y]
    BY DEF InterruptRequeue
  <2> HIDE DEF c, y, z
  <2> QED
    BY <1>0, <2>1, <2>2 DEF RunType
<1>6. Release(r) \/ FinishRef(r) \/ Judge(r) \/ Settle(r) =>
        run'[r].exec = run[r].exec /\ run'[r].pc \in {"finishref", "judge", "hold", "later", "over"}
  BY <1>0 DEF Release, FinishRef, Judge, Settle, Done, RunType
<1> QED
  BY <1>0, <1>1, <1>2, <1>3, <1>4, <1>5, <1>6, <1>7, <1>8 DEF RunStep, InDispatch

(* What a step of run r must leave to the other runs.                      *)
LeavesHoldings(r) ==
  \A x \in Runs \ {r} : /\ slot[run[x].exec] = x => slot'[run[x].exec] = x
                        /\ wfEvent[run[x].exec] = x =>
                             wfEvent'[run[x].exec] = x \/ (Owns(r) /\ run[r].exec = run[x].exec)

(* What a dispatcher does to the slots, the workflow events and the other  *)
(* runs.                                                                   *)
LEMMA RunHoldings ==
  ASSUME TypeOK, NEW r \in Runs, RunStep(r)
  PROVE  LeavesHoldings(r)
<1> SUFFICES ASSUME NEW x \in Runs \ {r}
             PROVE  /\ slot[run[x].exec] = x => slot'[run[x].exec] = x
                    /\ wfEvent[run[x].exec] = x =>
                         wfEvent'[run[x].exec] = x \/ (Owns(r) /\ run[r].exec = run[x].exec)
  BY DEF LeavesHoldings
<1>0. run[r].exec \in Execs /\ run[x].exec \in Execs /\ r \in Nat /\ x \in Nat /\ r # 0 /\ x # 0
  BY ViewTypes DEF TypeOK, Runs
<1>1. UNCHANGED slot \/ MarkFinished(run[r].exec, r)
  BY DEF RunStep, ReadScheduler, DispatchFails, StartSession, Register, Check, Open, StartEffect, WorkEnds,
         EndWork, Interrupted, AbsoluteTimeout, GuardTimeout, GuardCancel, LateWorkEnds, Save, Reread,
         Fail, FailWrite, InterruptRead, InterruptJudge, InterruptRequeue, Release, FinishRef, Judge,
         Settle, queueVars
<1>2. \/ UNCHANGED wfEvent \/ wfEvent' = Released(r)
      \/ wfEvent' = [wfEvent EXCEPT ![run[r].exec] = r] /\ Owns(r)
  BY DEF RunStep, ReadScheduler, DispatchFails, StartSession, Register, Check, Open, StartEffect, WorkEnds,
         EndWork, Interrupted, AbsoluteTimeout, GuardTimeout, GuardCancel, LateWorkEnds, Save, Reread,
         Fail, FailWrite, InterruptRead, InterruptJudge, InterruptRequeue, Release, FinishRef, Judge,
         Settle, Owns, OwnPC, PC
<1> QED
  BY <1>0, <1>1, <1>2 DEF MarkFinished, Released, TypeOK, QueueTypeOK, RunsTypeOK

(* The other runs stand by.                                                *)
LEMMA RunBystanders ==
  ASSUME TypeOK, OwnersInStep, NEW r \in Runs, LeavesHoldings(r), RowsOf(r), Alone(r), UNCHANGED req,
         NEW x \in Runs \ {r}
  PROVE  Bystander(x)
<1> DEFINE e == run[x].exec
<1>0. /\ run[r].exec \in Execs /\ e \in Execs
      /\ OwnerHasRow(x) /\ run'[x].exec = e /\ Idle(x)
  BY ViewTypes DEF TypeOK, OwnersInStep, Alone, Idle
<1>1. Keeps(x) /\ Owns(r) => run[r].exec # e
  BY DEF OwnersInStep, OneOwner
<1>2. slot[e] = x => slot'[e] = x
  BY DEF LeavesHoldings
<1>3. wfEvent[e] = x => wfEvent'[e] = x \/ (Owns(r) /\ run[r].exec = e)
  BY DEF LeavesHoldings
<1>5. Owns(x) => row'[e] = row[e]
  BY <1>0, <1>1 DEF RowsOf, Keeps, OwnerHasRow, CalledOff
<1>6. run[x].pc = "pending" /\ row'[e].status = "running" => row'[e] = row[e]
  BY <1>0, <1>1 DEF RowsOf, Keeps
<1>7. run[x].pc \in {"open", "work"} => Owns(x)
  BY DEF Owns, OwnPC, PC
<1>8. Cancelling(e)' = Cancelling(e)
  BY <1>0 DEF Cancelling
<1> QED
  BY <1>0, <1>1, <1>2, <1>3, <1>5, <1>6, <1>7, <1>8 DEF Bystander, Kept, Keeps

(* So a step of one run leaves all in step.                                *)
LEMMA ActorOwners ==
  ASSUME TypeOK, TypeOK', ViewsCurrent, OwnersInStep, MovesOn, NEW r \in Runs,
         LeavesHoldings(r), RowsOf(r), Alone(r), \A x \in Execs : MarksInStep(x)', InStep(r)',
         run'[r].exec = run[r].exec, Owns(r)' => Owns(r), Keeps(r)' => Keeps(r),
         UNCHANGED <<mgr, loop, req>>
  PROVE  OwnersInStep'
<1>2. \A x \in Runs \ {r} : InStep(x)'
  BY RunBystanders, BystanderInStep DEF OwnersInStep, InStep, ViewsCurrent
<1>3. NoNewOwner
  BY IdleOwner DEF NoNewOwner, Alone, Keeps
<1>4. LoopAgrees'
  <2>1. Recovering => Quiet(loop.exec)
    <3>1. loop.exec \in Execs
      BY LoopViewTypes DEF TypeOK
    <3>2. CalledOff(loop.exec) => CalledOff(loop.exec)'
      BY <3>1, CalledOffStays
    <3> QED
      BY <3>1, <3>2 DEF RowsOf, Quiet, Kept, OwnersInStep, LoopAgrees, Keeps
  <2> QED
    BY <1>3, <2>1, LoopStays DEF OwnersInStep
<1> QED
  BY <1>2, <1>3, <1>4, OneOwnerStays, RequestsStay DEF OwnersInStep, InStep

(* A step of a dispatcher keeps the owners in step.                        *)
LEMMA RunStepOwners ==
  ASSUME TypeOK, TypeOK', ViewsCurrent, FencesHold, OwnersInStep, MovesOn, NEW r \in Runs,
         RunStep(r), UNCHANGED <<mgr, loop, req, claims>>
  PROVE  OwnersInStep'
BY RunRows, RunStepFenced, RunInStep, RunHoldings, RunOwnsLess, ActorOwners

(* A result that cannot be saved waits; nobody else owned its execution.   *)
LEMMA FailSaveOwners ==
  ASSUME TypeOK, TypeOK', ViewsCurrent, FencesHold, OwnersInStep, MovesOn, NEW r \in Runs,
         NEW a \in BOOLEAN, SaveFails(r, a), UNCHANGED <<mgr, loop, req>>
  PROVE  OwnersInStep'
<1> DEFINE e == run[r].exec
           o == run[r].obj
<1>0. /\ run[r] \in RunType /\ e \in Execs /\ o \in RowType /\ RunCurrent(r) /\ StoreTypeOK
      /\ InStep(r) /\ run[r].pc = "save" /\ UNCHANGED <<slot, wfEvent>>
  BY ViewTypes DEF TypeOK, ViewsCurrent, OwnersInStep, InStep, SaveFails, queueVars
<1>1. RowsOf(r) /\ \A x \in Execs : MarksInStep(x)'
  BY RunRows
<1>2. \A x \in Runs \ {r} : run'[x] = run[x]
  BY <1>0 DEF SaveFails, NoLongerPending, OwnersInStep, OneOwner, Keeps, Owns, OwnPC, PC
<1>3. run'[r].pc = "pending" /\ run'[r].exec = e /\ run'[r].obj = o
  BY <1>0 DEF SaveFails, RunType
<1>4. InStep(r)'
  <2>1. row'[e] = row[e] \/ row'[e].status = o.status
    BY <1>0, WriteFields DEF SaveFails, storeVars
  <2>2. row'[e].status = "running" => row'[e] = row[e]
    BY <1>0, <2>1 DEF RunCurrent, Terminal
  <2>3. CalledOff(e) => CalledOff(e)'
    BY <1>0, <1>3, CalledOffStays
  <2> QED
    BY <1>0, <1>3, <2>2, <2>3
    DEF InStep, OwnerHasRow, WorkReached, ObjectAgrees, Owns, Keeps, OwnPC, PC, FirstObject, InDispatch,
        CalledOff, Clean, Present, Settling
<1>5. Alone(r) /\ LeavesHoldings(r)
  BY <1>0, <1>2 DEF Alone, Idle, LeavesHoldings
<1> QED
  BY <1>0, <1>1, <1>3, <1>4, <1>5, ActorOwners DEF Owns, Keeps, OwnPC, PC
-----------------------------------------------------------------------------
(* Steps that are of no run: what they may do to a row that has an owner.  *)
RowFate(e) ==
  \/ Kept(e) \/ row'[e].status = "deleted"
  \/ row'[e].status = "cancelled" /\ IsActive(e) /\ row'[e].sess = row[e].sess
  \/ row[e].status # "running" /\ ~CalledOff(e) /\ row'[e].status \notin {"running", "cancelled"}

(* A run is told to stop before the last request to cancel lets go.        *)
ToldToStop(x) ==
  LET e == run[x].exec IN
  run[x].pc \in {"open", "work"} /\ row'[e].status = "cancelled" /\ ~Cancelling(e)' =>
    (row[e].status = "cancelled" /\ ~Cancelling(e)) \/ run'[x].stop

(* An idle run whose row and slot are not taken from it is a bystander.    *)
LEMMA IdleBystander ==
  ASSUME TypeOK, NEW x \in Runs, InStep(x), Idle(x), RowFate(run[x].exec), ToldToStop(x),
         Keeps(x) /\ slot[run[x].exec] = x => CalledOff(run[x].exec) \/ slot'[run[x].exec] = x,
         wfEvent' = wfEvent
  PROVE  Bystander(x)
<1> DEFINE e == run[x].exec
<1>0. e \in Execs /\ run'[x].exec = e
  BY ViewTypes DEF TypeOK, Idle
<1>1. CalledOff(e)' <=> row'[e].status \in {"cancelled", "deleted"}
  BY <1>0 DEF CalledOff
<1>2. Owns(x) => CalledOff(e) \/ (row[e].status = "running" /\ row[e].started = x)
  BY DEF InStep, OwnerHasRow
<1>3. Owns(x) => /\ CalledOff(e)' \/ Kept(e)
                 /\ row'[e].status # "deleted" => row'[e].sess = row[e].sess
  BY <1>1, <1>2 DEF RowFate, Kept, CalledOff
<1>4. CalledOff(e) => CalledOff(e)'
  BY <1>1 DEF RowFate, Kept, CalledOff, IsActive, Active
<1>5. run[x].pc = "pending" /\ row'[e].status = "running" /\ row'[e].started = x =>
        row[e].status = "running" /\ row[e].started = x /\ row'[e].sess = row[e].sess
  BY DEF RowFate, Kept
<1> QED
  BY <1>0, <1>1, <1>3, <1>4, <1>5 DEF Bystander, ToldToStop

(* A step in which all runs are bystanders keeps the owners in step.       *)
LEMMA IdleOwners ==
  ASSUME TypeOK, TypeOK', ViewsCurrent, OwnersInStep, MovesOn,
         \A x \in Runs : /\ Idle(x) /\ RowFate(run[x].exec) /\ ToldToStop(x)
                         /\ Keeps(x) /\ slot[run[x].exec] = x =>
                              CalledOff(run[x].exec) \/ slot'[run[x].exec] = x,
         wfEvent' = wfEvent,
         \A x \in Execs : MarksInStep(x)', LoopAgrees', \A q \in Reqs : RequestInStep(q)'
  PROVE  OwnersInStep'
<1>1. \A x \in Runs : InStep(x)'
  BY IdleBystander, BystanderInStep DEF OwnersInStep, InStep, ViewsCurrent
<1>2. NoNewOwner
  BY IdleOwner DEF NoNewOwner
<1> QED
  BY <1>1, <1>2, OneOwnerStays DEF OwnersInStep, InStep

(* Nothing is told to stop, and no request lets go.                        *)
LEMMA NobodyLetsGo ==
  ASSUME NEW x \in Runs, OwnersInStep, RowFate(run[x].exec), Cancelling(run[x].exec) => Cancelling(run[x].exec)',
         row[run[x].exec].status = "running" /\ row'[run[x].exec].status = "cancelled" =>
           Cancelling(run[x].exec)'
  PROVE  ToldToStop(x)
<1> DEFINE e == run[x].exec
<1>1. run[x].pc \in {"open", "work"} => CalledOff(e) \/ row[e].status = "running"
  BY DEF OwnersInStep, OwnerHasRow, Owns, OwnPC, PC
<1>2. row'[e].status = "cancelled" => row[e].status # "deleted"
  BY DEF RowFate, Kept, IsActive, Active, CalledOff
<1> QED
  BY <1>1, <1>2 DEF ToldToStop, CalledOff

-----------------------------------------------------------------------------
(* A claim finds no owner, and makes one.                                  *)
LEMMA ClaimOwners ==
  ASSUME TypeOK, TypeOK', ViewsCurrent, FencesHold, OwnersInStep, MovesOn, NEW e \in Execs,
         claims < MaxClaims, LoopFree, MayDequeue(e), ClaimRow(e, claims + 1),
         NEW pc \in {"scheduler", "over"}, run' = [run EXCEPT ![claims + 1] = NewRun(e, row'[e], pc)],
         \/ slot' = [slot EXCEPT ![e] = claims + 1]
         \/ slot' = slot /\ pc = "over",
         UNCHANGED <<wfEvent, mgr, loop, req>>
  PROVE  OwnersInStep'
<1>1. PICK r \in Runs : r = claims + 1
  BY MaxClaimsAssumption DEF TypeOK, RunsTypeOK, Runs
<1>2. /\ claims \in Nat /\ r \in Nat /\ r > 0 /\ StoreTypeOK /\ run \in [Runs -> RunType]
      /\ slot \in [Execs -> Nat] /\ row[e].status = "queued" /\ slot[e] = 0
  BY <1>1, MaxClaimsAssumption DEF TypeOK, RunsTypeOK, QueueTypeOK, MayDequeue, Claimable
<1>3. /\ row'[e].status = "running" /\ row'[e].started = r
      /\ row'[e].due = row[e].due /\ row'[e].held = row[e].held
      /\ \A x \in Execs \ {e} : row'[x] = row[x]
  BY <1>1, <1>2, ClaimFields DEF FencesHold, QueuedUnstarted
<1>4. \A x \in Runs : Keeps(x) => run[x].exec # e
  BY <1>2, MaxClaimsAssumption DEF OwnersInStep, OwnerHasRow, Keeps, CalledOff, Runs
<1>5. run'[r] = NewRun(e, row'[e], pc) /\ \A x \in Runs \ {r} : run'[x] = run[x]
  BY <1>1, <1>2
<1>6. MarksInStep(e) /\ \A x \in Execs : MarksInStep(x)'
  BY <1>2, <1>3 DEF OwnersInStep, MarksInStep, Active, Clean
<1>7. InStep(r)' /\ (Keeps(r)' => run'[r].exec = e)
  BY <1>1, <1>2, <1>3, <1>5, <1>6
  DEF NewRun, InStep, OwnerHasRow, WorkReached, ObjectAgrees, Owns, Keeps, OwnPC, PC, FirstObject, InDispatch,
      CalledOff, Clean, Settling, MarksInStep, Active
<1>8. ASSUME NEW x \in Runs \ {r}
      PROVE  InStep(x)' /\ Owns(x)' = Owns(x) /\ Keeps(x)' = Keeps(x) /\ run'[x].exec = run[x].exec
  <2>1. run[x].exec \in Execs /\ Idle(x) /\ run'[x] = run[x]
    BY <1>5, ViewTypes DEF TypeOK, Idle
  <2>2. Keeps(x) => /\ run[x].exec # e /\ row'[run[x].exec] = row[run[x].exec]
                    /\ slot'[run[x].exec] = slot[run[x].exec]
    BY <1>2, <1>3, <1>4, <2>1
  <2>3. Bystander(x)
    BY <2>1, <2>2 DEF Bystander, Keeps, Kept, Owns, OwnPC, PC, Cancelling
  <2> QED
    BY <2>1, <2>3, BystanderInStep, IdleOwner DEF OwnersInStep, InStep, ViewsCurrent
<1>9. OneOwner'
  <2>1. \A x \in Runs \ {r} : Keeps(x)' => run'[x].exec # e
    BY <1>4, <1>8
  <2>2. \A x \in Runs : Owns(x) => Keeps(x)
    BY DEF Keeps
  <2> QED
    BY <1>7, <1>8, <2>1, <2>2 DEF OneOwner, OwnersInStep, Keeps
<1>10. LoopAgrees'
  BY DEF LoopAgrees, LoopFree, Recovering
<1> QED
  BY <1>6, <1>7, <1>8, <1>9, <1>10, RequestsStay DEF OwnersInStep, InStep

(* A waiting result that is written ends the ownership of its run.         *)
LEMMA FlushOwners ==
  ASSUME TypeOK, TypeOK', ViewsCurrent, FencesHold, OwnersInStep, MovesOn, NEW r \in Runs, FlushWrite(r)
  PROVE  OwnersInStep'
<1> DEFINE e == run[r].exec
           o == run[r].obj
<1> USE DEF storeVars
<1>0. /\ run[r] \in RunType /\ run \in [Runs -> RunType] /\ e \in Execs /\ o \in RowType
      /\ row[e] \in RowType /\ slot \in [Execs -> Nat]
      /\ StoreTypeOK /\ RunCurrent(r) /\ Fenced(r) /\ InStep(r) /\ r \in Nat /\ r # 0
      /\ run[r].pc = "pending" /\ o.started = r /\ Clean(o) /\ o.status \in Terminal
  BY ViewTypes DEF TypeOK, RunsTypeOK, QueueTypeOK, StoreTypeOK, ViewsCurrent, FencesHold, OwnersInStep, InStep,
                   FlushWrite, ObjectAgrees, Fenced, RunCurrent, FirstObject, Runs
<1>1. CASE StillActive(e, o)
  <2>1. /\ WriteRow(e, o) /\ MarkFinished(e, r) /\ UNCHANGED <<wfEvent, mgr, req>>
        /\ run' = [run EXCEPT ![r].pc = IF o.status = "failed" THEN "judge" ELSE "over", ![r].obj = row'[e]]
        /\ loop'.pc \in {"idle", "flushjudge"} /\ mgr = "up"
    BY <1>0, <1>1 DEF FlushWrite, LoopFree, LoopIdle
  <2>2. /\ run'[r].exec = e /\ run'[r].pc \in {"judge", "over"} /\ run'[r].obj = row'[e]
        /\ \A x \in Runs \ {r} : run'[x] = run[x]
    BY <1>0, <2>1 DEF RunType
  <2>3. /\ \A x \in Execs \ {e} : row'[x] = row[x]
        /\ row'[e].status = o.status /\ ~row'[e].due /\ ~row'[e].held
        /\ row'[e].status \notin {"running"}
    BY <1>0, <2>1, WriteFields DEF Clean, Terminal
  <2>4. row[e].started = r /\ row[e].status = "running"
    BY <1>0, <1>1 DEF StillActive, IsActive, Active, FencesHold, QueuedUnstarted
  <2>5. \A x \in Runs \ {r} : Owns(x) => run[x].exec # e
    BY <2>4 DEF OwnersInStep, OwnerHasRow, CalledOff
  <2>6. \A x \in Runs \ {r} : slot[run[x].exec] = x => slot'[run[x].exec] = x
    BY <1>0, <2>1, ViewTypes DEF MarkFinished, TypeOK, Runs
  <2>7. \A x \in Runs \ {r} : Bystander(x)
    <3> SUFFICES ASSUME NEW x \in Runs \ {r} PROVE Bystander(x)
      OBVIOUS
    <3>1. run[x].exec \in Execs /\ Idle(x) /\ run'[x] = run[x]
      BY <2>2, ViewTypes DEF TypeOK, Idle
    <3>2. Owns(x) => row'[run[x].exec] = row[run[x].exec]
      BY <2>3, <2>5, <3>1
    <3>3. row'[run[x].exec].status = "running" => row'[run[x].exec] = row[run[x].exec]
      BY <2>3, <3>1
    <3>4. Cancelling(run[x].exec)' = Cancelling(run[x].exec)
      BY <2>1, <3>1 DEF Cancelling
    <3>5. run[x].pc \in {"open", "work"} => Owns(x)
      BY DEF Owns, OwnPC, PC
    <3> QED
      BY <2>1, <2>6, <3>1, <3>2, <3>3, <3>4, <3>5 DEF Bystander, Kept
  <2>8. \A x \in Runs \ {r} : InStep(x)'
    BY <2>7, BystanderInStep DEF OwnersInStep, InStep, ViewsCurrent
  <2>9. InStep(r)' /\ ~Keeps(r)'
    BY <1>0, <2>2, <2>3
    DEF InStep, OwnerHasRow, WorkReached, ObjectAgrees, Owns, Keeps, OwnPC, PC, FirstObject, InDispatch,
        Settling
  <2>10. NoNewOwner
    BY <2>2, <2>9 DEF NoNewOwner, Keeps, Owns
  <2>11. LoopAgrees'
    BY <2>1 DEF LoopAgrees, Recovering
  <2>12. \A x \in Execs : MarksInStep(x)'
    BY <1>0, <2>3 DEF MarksInStep, OwnersInStep, Active, Terminal
  <2> QED
    BY <2>1, <2>8, <2>9, <2>10, <2>11, <2>12, OneOwnerStays, RequestsStay DEF OwnersInStep, InStep
<1>2. CASE ~StillActive(e, o)
  <2>1. UNCHANGED <<row, run, slot, wfEvent, mgr, req>> /\ loop'.pc = "flushread" /\ mgr = "up"
    BY <1>2 DEF FlushWrite, LoopFree, LoopIdle
  <2>2. LoopAgrees'
    BY <2>1 DEF LoopAgrees, Recovering
  <2> QED
    BY <2>1, <2>2 DEF OwnersInStep, OneOwner, OwnerHasRow, WorkReached, ObjectAgrees, MarksInStep, RequestInStep,
                      Owns, Keeps, CalledOff, Cancelling, Present
<1> QED
  BY <1>1, <1>2
-----------------------------------------------------------------------------
(* The execution loop recovers rows nobody owns, if the machine does not   *)
(* sleep.                                                                  *)
LEMMA StaleHasNoOwner ==
  ASSUME TypeOK, OwnersInStep, NEW e \in Execs, TakeStale(e), "suspend" \notin Faults
  PROVE  \A x \in Runs : run[x].exec = e => ~Keeps(x)
BY DEF TakeStale, Fault, Abandoned, Dispatched, ResultPending, Live, OwnersInStep, OwnerHasRow, CalledOff, Keeps,
       Owns, OwnPC, PC

(* What the loop takes up, it knows.                                       *)
LEMMA TakenAgrees ==
  ASSUME TypeOK, OwnersInStep, "suspend" \notin Faults, NEW e \in Execs, TakeRow(e) \/ TakeStale(e)
  PROVE  LoopAgrees'
<1>1. mgr = "up" /\ row' = row /\ mgr' = "up" /\ row[e] \in RowType
  BY DEF TakeRow, TakeStale, LoopFree, storeVars, TypeOK, StoreTypeOK
<1>2. CASE TakeRow(e)
  <2>1. /\ loop'.exec = e /\ loop'.obj = row[e] /\ loop'.pc \in {"retry", "orphan"}
        /\ loop'.pc = "retry" => row[e].due
        /\ row[e].status # "new" /\ row[e].ver \in Nat
    BY <1>1, <1>2 DEF TakeRow, LoopIdle, Retryable, OrphanedQueued, RowType
  <2> QED
    BY <1>1, <2>1 DEF LoopAgrees, Recovering
<1>3. CASE TakeStale(e)
  <2>1. \A x \in Runs : Keeps(x)' => run'[x].exec # e
    <3>1. \A x \in Runs : Idle(x)
      BY <1>3, RunsIdle DEF TakeStale, TypeOK
    <3> QED
      BY <1>3, <3>1, StaleHasNoOwner, IdleOwner
  <2>2. loop'.exec = e /\ loop'.pc = "stalejudge" /\ row[e].status = "running"
    BY <1>3 DEF TakeStale, LoopIdle
  <2> QED
    BY <1>1, <2>1, <2>2 DEF LoopAgrees, Recovering, CalledOff
<1> QED
  BY <1>2, <1>3

(* The steps in which it recovers a row.                                   *)
LEMMA RecoveryAgrees ==
  ASSUME TypeOK, TypeOK', MovesOn, OwnersInStep, NoNewOwner,
         StaleJudge \/ StaleFail \/ StaleWrite \/ StaleFree \/ StaleFinishRef
  PROVE  LoopAgrees'
<1> DEFINE e == loop.exec
           w == row[e]
<1>0. /\ loop \in LoopType /\ e \in Execs /\ loop.obj \in RowType /\ w \in RowType /\ StoreTypeOK
      /\ LoopAgrees /\ MarksInStep(e) /\ mgr' = "up" /\ Recovering
      /\ CalledOff(e) \/ \A x \in Runs : run[x].exec = e => ~Keeps(x)
      /\ CalledOff(e) => row'[e].status \in {"cancelled", "deleted"}
  BY LoopViewTypes, CalledOffStays
  DEF TypeOK, ManagerTypeOK, OwnersInStep, LoopAgrees, Recovering, StaleJudge, StaleFail, StaleWrite, StaleFree,
      StaleFinishRef, CalledOff
<1>1. row'[e].status \in {"cancelled", "deleted"} \/ \A x \in Runs : run'[x].exec = e => ~Keeps(x)'
  BY <1>0 DEF NoNewOwner
<1>2. CASE StaleJudge
  <2>1. /\ loop'.exec = e /\ loop'.pc = "stalefail" /\ row' = row /\ loop.pc = "stalejudge"
    BY <1>0, <1>2 DEF StaleJudge, LoopType, storeVars
  <2> QED
    BY <1>0, <1>1, <2>1 DEF LoopAgrees, Recovering, CalledOff
<1>3. CASE StaleFail
  <2> DEFINE c == Current(e, loop.obj)
             f == [c EXCEPT !.status = "failed"]
  <2>1. CASE Present(e) /\ c.status \in Terminal
    <3>1. loop'.exec = e /\ loop'.pc = "stalefree"
      BY <1>0, <1>3, <2>1 DEF StaleFail, LoopType
    <3> QED
      BY <1>0, <1>1, <3>1 DEF LoopAgrees, Recovering, CalledOff
  <2>2. CASE ~(Present(e) /\ c.status \in Terminal)
    <3>1. /\ loop'.exec = e /\ loop'.pc = "stalewrite" /\ row' = row /\ loop.pc = "stalefail"
          /\ loop'.obj = (IF loop.hold THEN Held(f) ELSE f)
      BY <1>0, <1>3, <2>2 DEF StaleFail, LoopType, storeVars
    <3>2. w.status = "running" => c = w /\ ~w.due
      BY <1>0 DEF Current, Present, MarksInStep, Active, Clean
    <3>3. c \in RowType
      BY <1>0, LoopViewTypes DEF TypeOK
    <3>4. /\ loop'.obj.started = c.started /\ loop'.obj.sess = c.sess
          /\ ~c.due => ~loop'.obj.due
      BY <3>1, <3>3 DEF Held, RowType
    <3> HIDE DEF c
    <3> QED
      BY <1>0, <1>1, <3>1, <3>2, <3>4 DEF LoopAgrees, Recovering, CalledOff
  <2> QED
    BY <2>1, <2>2
<1>4. CASE StaleWrite \/ StaleFree
  <2>1. loop'.exec = e /\ loop'.pc \in {"stalefree", "staleref"}
    BY <1>0, <1>4 DEF StaleWrite, StaleFree, LoopType
  <2> QED
    BY <1>0, <1>1, <2>1 DEF LoopAgrees, Recovering, CalledOff
<1>5. CASE StaleFinishRef
  <2>1. loop'.pc = "idle"
    BY <1>5 DEF StaleFinishRef, LoopIdle
  <2> QED
    BY <1>0, <2>1 DEF LoopAgrees, Recovering
<1> QED
  BY <1>2, <1>3, <1>4, <1>5

(* So does a step of the execution loop: what it recovers nobody owns.     *)
LEMMA LoopStepOwners ==
  ASSUME TypeOK, TypeOK', ViewsCurrent, FencesHold, OwnersInStep, MovesOn, LoopStep, "suspend" \notin Faults
  PROVE  OwnersInStep'
<1> DEFINE le == loop.exec
           lo == loop.obj
<1> USE DEF storeVars, queueVars, runVars
<1>0. /\ StoreTypeOK /\ loop \in LoopType /\ le \in Execs /\ lo \in RowType /\ row[le] \in RowType
      /\ LoopAgrees /\ \A x \in Execs : MarksInStep(x)
      /\ slot \in [Execs -> Nat] /\ row \in [Execs -> RowType]
  BY LoopViewTypes DEF TypeOK, ManagerTypeOK, QueueTypeOK, StoreTypeOK, OwnersInStep
<1>a. \A x \in Runs : run[x].exec \in Execs
  BY ViewTypes DEF TypeOK
<1>1. ASSUME NEW e \in Execs, Dequeue(e)
      PROVE  OwnersInStep'
  BY <1>1, ClaimOwners DEF Dequeue, managerVars
<1>2. ASSUME NEW r \in Runs, FlushWrite(r)
      PROVE  OwnersInStep'
  BY <1>2, FlushOwners
<1>3. CASE FlushRead
  <2>1. /\ UNCHANGED <<row, wfEvent, mgr, req>> /\ mgr = "up" /\ loop' = LoopIdle
        /\ UNCHANGED slot \/ (~IsActive(le) /\ MarkFinished(le, run[loop.r].obj.started))
        /\ \A x \in Runs : run'[x] = NoLongerPending(x, le)
    BY <1>3 DEF FlushRead
  <2>2. \A x \in Runs : slot'[run[x].exec] = slot[run[x].exec] \/ run[x].exec = le
    BY <1>0, <1>a, <2>1 DEF MarkFinished
  <2>3. \A x \in Runs : Owns(x) /\ run[x].exec = le => CalledOff(le) \/ UNCHANGED slot
    BY <2>1 DEF OwnersInStep, OwnerHasRow, CalledOff, IsActive, Active
  <2>4. ASSUME NEW x \in Runs
        PROVE  InStep(x)' /\ (Keeps(x)' => Keeps(x) /\ run'[x] = run[x])
    <3>1. CASE run[x].exec = le /\ run[x].pc = "pending"
      <4>1. run'[x].pc = "over"
        BY <2>1, <3>1 DEF NoLongerPending, TypeOK, RunsTypeOK, RunType
      <4> QED
        BY <4>1, OverInStep
    <3>2. CASE ~(run[x].exec = le /\ run[x].pc = "pending")
      <4>1. run'[x] = run[x] /\ run[x].exec \in Execs
        BY <1>a, <2>1, <3>2 DEF NoLongerPending
      <4>2. Keeps(x) /\ slot[run[x].exec] = x => CalledOff(run[x].exec) \/ slot'[run[x].exec] = x
        BY <2>2, <2>3, <3>2 DEF Keeps
      <4>3. Idle(x) /\ RowFate(run[x].exec) /\ ToldToStop(x)
        BY <2>1, <4>1 DEF Idle, RowFate, Kept, ToldToStop, Cancelling
      <4> QED
        BY <2>1, <4>1, <4>2, <4>3, IdleBystander, BystanderInStep DEF OwnersInStep, InStep, ViewsCurrent, Keeps, Owns
    <3> QED
      BY <3>1, <3>2
  <2>5. LoopAgrees'
    BY <2>1 DEF LoopAgrees, LoopIdle, Recovering
  <2>6. NoNewOwner
    BY <2>4 DEF NoNewOwner, Owns, Keeps
  <2> QED
    BY <2>1, <2>4, <2>5, <2>6, OneOwnerStays, RequestsStay DEF OwnersInStep, InStep, MarksInStep
(* The other steps leave the runs alone, or only tell them to stop.        *)
<1>4. ASSUME run' = run \/ (\E S : run' = Signalled(S)), UNCHANGED <<wfEvent, mgr, req>>,
             \A x \in Runs : RowFate(run[x].exec), \A x \in Execs : row'[x].status = "cancelled" => row[x].status = "cancelled",
             slot' = slot \/ (slot' = [slot EXCEPT ![le] = 0] /\ Recovering),
             \A x \in Execs : MarksInStep(x)', NoNewOwner => LoopAgrees'
      PROVE  OwnersInStep'
  <2>1. \A x \in Runs : Idle(x)
    BY <1>4, RunsIdle DEF TypeOK
  <2>2. NoNewOwner
    BY <2>1, IdleOwner DEF NoNewOwner
  <2>3. ASSUME NEW x \in Runs
        PROVE  ToldToStop(x)
    <3>1. /\ Cancelling(run[x].exec)' = Cancelling(run[x].exec)
          /\ row'[run[x].exec].status = "cancelled" => row[run[x].exec].status = "cancelled"
      BY <1>4, <1>a, <2>1 DEF Cancelling, Idle
    <3> QED
      BY <1>4, <3>1, NobodyLetsGo
  <2>4. \A x \in Runs : Keeps(x) /\ slot[run[x].exec] = x =>
                          CalledOff(run[x].exec) \/ slot'[run[x].exec] = x
    BY <1>0, <1>4, <1>a DEF LoopAgrees
  <2> QED
    BY <1>4, <2>1, <2>2, <2>3, <2>4, IdleOwners, RequestsStay DEF OwnersInStep
<1>5. CASE LoopRequeue
  <2> DEFINE q == Requeued(lo, FALSE)
             n == IF loop.pc = "retry" THEN [q EXCEPT !.due = FALSE] ELSE q
  <2>1. q \in RowType /\ q.status = "queued" /\ q.due = lo.due /\ q.held = lo.held
    BY <1>0, RequeuedFields
  <2>2. /\ n \in RowType /\ n.status = "queued" /\ n.held = lo.held
        /\ loop.pc = "retry" => ~n.due
        /\ loop.pc = "orphan" => n.due = lo.due
    BY <2>1 DEF RowType
  <2>3. row' = row \/ (RequeueRow(le, n) /\ Requeueable(le, lo.status, lo.ver))
    BY <1>5 DEF LoopRequeue
  <2>4. loop.pc \in {"retry", "orphan"} /\ lo.status = (IF loop.pc = "retry" THEN "failed" ELSE "queued")
    BY <1>5 DEF LoopRequeue, ViewsCurrent, LoopCurrent
  <2>5. /\ UNCHANGED <<run, wfEvent, mgr, req, slot>> /\ loop' = LoopIdle /\ mgr = "up"
    BY <1>5 DEF LoopRequeue
  <2>6. LoopAgrees'
    BY <2>5 DEF LoopAgrees, LoopIdle, Recovering
  <2> HIDE DEF n
  <2>7. Requeueable(le, lo.status, lo.ver) => row[le] = lo /\ Clean(n)
    BY <1>0, <2>2, <2>4 DEF Requeueable, Unchanged, LoopAgrees, MarksInStep, Clean, Active
  <2>8. \A x \in Execs : MarksInStep(x)'
    BY <1>0, <2>2, <2>3, <2>7, MarksWritten DEF MarksInStep, Clean
  <2>9. \A x \in Execs : RowFate(x) /\ (row'[x].status = "cancelled" => row[x].status = "cancelled")
    BY <1>0, <2>2, <2>3, <2>4, <2>7, RequeueFields DEF RowFate, Kept, CalledOff
  <2> QED
    BY <1>4, <1>a, <2>5, <2>6, <2>8, <2>9
<1>6. CASE StaleWrite
  <2>1. row' = row \/ (WriteRow(le, lo) /\ StillActive(le, lo))
    BY <1>6 DEF StaleWrite
  <2>2. lo.status = "failed" /\ loop.pc = "stalewrite" /\ UNCHANGED <<run, wfEvent, mgr, req, slot>>
    BY <1>6 DEF StaleWrite, ViewsCurrent, LoopCurrent
  <2>3. StillActive(le, lo) => /\ row[le].status = "running" /\ ~lo.due
                               /\ \A x \in Runs : run[x].exec = le => ~Keeps(x)
    BY <1>0, <2>2 DEF StillActive, IsActive, Active, LoopAgrees, Recovering, CalledOff
  <2>4. \A x \in Execs : MarksInStep(x)'
    BY <1>0, <2>1, <2>2, <2>3, MarksWritten DEF MarksInStep, Active
  <2>5. /\ \A x \in Execs \ {le} : row'[x] = row[x]
        /\ row'[le] = row[le] \/ (row'[le].status = "failed" /\ StillActive(le, lo))
    BY <1>0, <2>1, <2>2, WriteFields
  <2>6. ASSUME NEW x \in Runs
        PROVE  Bystander(x)
    <3>1. run[x].exec \in Execs /\ Idle(x) /\ run'[x] = run[x]
      BY <1>a, <2>2 DEF Idle
    <3>2. Owns(x) => row'[run[x].exec] = row[run[x].exec]
      BY <2>3, <2>5, <3>1 DEF Keeps
    <3>3. row'[run[x].exec].status \in {"running", "cancelled"} => row'[run[x].exec] = row[run[x].exec]
      BY <2>5, <3>1
    <3> QED
      BY <2>2, <3>1, <3>2, <3>3 DEF Bystander, Kept, Cancelling
  <2>7. \A x \in Runs : InStep(x)'
    BY <2>6, BystanderInStep DEF OwnersInStep, InStep, ViewsCurrent
  <2>8. NoNewOwner
    BY <2>2 DEF NoNewOwner, Keeps, Owns
  <2>9. LoopAgrees'
    BY <1>6, <2>8, RecoveryAgrees
  <2> QED
    BY <2>2, <2>4, <2>7, <2>8, <2>9, OneOwnerStays, RequestsStay DEF OwnersInStep, InStep
<1>7. CASE \/ \E e \in Execs : TakeRow(e) \/ TakeStale(e)
           \/ StaleJudge \/ StaleFail \/ StaleFree \/ StaleFinishRef \/ FlushHandled
  <2>1. row' = row /\ UNCHANGED <<wfEvent, mgr, req>>
    BY <1>7 DEF TakeRow, TakeStale, StaleJudge, StaleFail, StaleFree, StaleFinishRef, FinishRefRow, FlushHandled
  <2>2. run' = run \/ \E S : run' = Signalled(S)
    BY <1>7 DEF TakeRow, TakeStale, StaleJudge, StaleFail, StaleFree, StaleFinishRef, FlushHandled
  <2>3. slot' = slot \/ (slot' = [slot EXCEPT ![le] = 0] /\ Recovering)
    BY <1>7 DEF TakeRow, TakeStale, StaleJudge, StaleFail, StaleFree, StaleFinishRef, FlushHandled, MarkFinished,
                Recovering
  <2>4. NoNewOwner => LoopAgrees'
    <3>1. CASE FlushHandled
      BY <3>1 DEF FlushHandled, LoopAgrees, LoopIdle, Recovering
    <3> QED
      BY <1>7, <3>1, TakenAgrees, RecoveryAgrees
  <2> QED
    BY <1>0, <1>4, <2>1, <2>2, <2>3, <2>4 DEF RowFate, Kept, MarksInStep
<1> QED
  BY <1>1, <1>2, <1>3, <1>5, <1>6, <1>7 DEF LoopStep
-----------------------------------------------------------------------------
(* The signal of a request that cancels reaches the run that owns the      *)
(* cancelled execution, wherever its work is.                              *)
LEMMA CancelReaches ==
  ASSUME TypeOK, FencesHold, OwnersInStep, NEW q \in Reqs, CancelStop(q), NEW x \in Runs,
         run[x].exec = req[q].exec, run[x].pc \in {"open", "work"}, row[req[q].exec].status = "cancelled"
  PROVE  run'[x].stop
<1> DEFINE e == req[q].exec
<1>0. /\ e \in Execs /\ run[x] \in RunType /\ Fenced(x) /\ WorkReached(x) /\ ObjectAgrees(x)
      /\ run' = Signalled(Reached(e, row[e].sess)) /\ Present(e)
  BY ReqViewTypes DEF TypeOK, RunsTypeOK, FencesHold, OwnersInStep, CancelStop, Current, Present
<1>1. x \in Reached(e, row[e].sess)
  <2>1. CASE e \in Workflow
    BY <1>0, <2>1 DEF WorkReached, Reached
  <2>2. CASE e \notin Workflow
    <3>1. /\ run[x].sess = run[x].obj.sess /\ run[x].obj.sess # 0 /\ row[e].sess = run[x].obj.sess
          /\ run[x].work \in {"held", "going"}
      BY <1>0, <2>2 DEF Fenced, ObjectAgrees, InDispatch
    <3> QED
      BY <2>2, <3>1 DEF Reached
  <2> QED
    BY <2>1, <2>2
<1> QED
  BY <1>0, <1>1 DEF Signalled, RunType

(* The requests after a step of one of them, or of a person who asks.      *)
LEMMA RequestInOrder ==
  ASSUME TypeOK, OwnersInStep, MovesOn, NEW q \in Reqs, AskStep(q) \/ RequestStep(q)
  PROVE  /\ \A p \in Reqs : RequestInStep(p)'
         /\ \A p \in Reqs \ {q} : req'[p] = req[p]
         /\ req[q].pc # "stop" => \A e \in Execs : Cancelling(e) => Cancelling(e)'
<1> DEFINE e == req[q].exec
<1>0. /\ req \in [Reqs -> ReqType] /\ req[q] \in ReqType /\ e \in Execs /\ StoreTypeOK /\ RequestInStep(q)
      /\ AnExec \in Execs
  BY ReqViewTypes, LoopIdleType DEF TypeOK, ManagerTypeOK, OwnersInStep
<1>1. \A x \in Execs : /\ CalledOff(x) => CalledOff(x)'
                       /\ row[x].status # "new" => row'[x].status # "new"
  BY CalledOffStays DEF MovesOn, RowStep, Active, Terminal
<1>2. \A p \in Reqs \ {q} : req'[p] = req[p]
  BY <1>0 DEF AskStep, AskCancel, AskDelete, AskRetry, AskResume, AskDrop, PauseQueue, View, Ask,
              RequestStep, CancelWrite, CancelStop, CancelFree, DeleteExecution, DropNext, DropScheduler,
              PersonRequeue, AfterCancel
<1>3. RequestInStep(q)'
  <2>1. ASSUME NEW op, NEW x \in Execs, NEW pc, Ask(q, op, x, pc), pc \in {"write", "delete", "requeue"},
               pc # "requeue" => row[x].status # "new"
        PROVE  RequestInStep(q)'
    <3>1. req'[q].pc = pc /\ req'[q].exec = x /\ row' = row
      BY <1>0, <2>1 DEF Ask, storeVars
    <3> QED
      BY <2>1, <3>1 DEF RequestInStep
  <2>2. ASSUME NEW x \in Execs, AskCancel(q, x) \/ AskDelete(q, x) \/ AskRetry(q, x) \/ AskResume(q, x)
        PROVE  RequestInStep(q)'
    BY <2>1, <2>2 DEF AskCancel, AskDelete, AskRetry, AskResume, IsActive, Active, Present
  <2>3. CASE AskDrop(q) \/ DropScheduler(q) \/ DeleteExecution(q) \/ PersonRequeue(q)
    <3>1. CASE AskDrop(q)
      BY <1>0, <3>1 DEF AskDrop, ReqIdle, RequestInStep
    <3>2. CASE ~AskDrop(q)
      BY <1>0, <2>3, <3>2 DEF DropScheduler, DeleteExecution, PersonRequeue, ReqIdle, RequestInStep
    <3> QED
      BY <3>1, <3>2
  <2>4. CASE PauseQueue(q) \/ \E x \in Execs : View(q, x)
    <3>1. req' = req
      BY <2>4 DEF PauseQueue, View
    <3> QED
      BY <1>0, <1>1, <3>1 DEF RequestInStep
  <2>5. req' = AfterCancel(q) /\ row[e].status # "new" => RequestInStep(q)'
    <3>1. CASE req[q].op = "delete"
      <4>1. req' = AfterCancel(q) => req'[q].pc = "delete" /\ req'[q].exec = e
        BY <1>0, <3>1 DEF AfterCancel, ReqType
      <4> QED
        BY <1>0, <1>1, <4>1 DEF RequestInStep
    <3>2. CASE req[q].op # "delete"
      <4>1. req' = AfterCancel(q) => req'[q].pc \in {"drop", "idle"}
        BY <1>0, <3>2 DEF AfterCancel, ReqType, ReqIdle
      <4> QED
        BY <4>1 DEF RequestInStep
    <3> QED
      BY <3>1, <3>2
  <2>6. CASE CancelWrite(q)
    <3>1. CASE IsActive(e)
      <4>1. req'[q].pc = "stop" /\ req'[q].exec = e /\ CancelRow(e)
        BY <1>0, <2>6, <3>1 DEF CancelWrite, ReqType
      <4>2. row'[e].status = "cancelled"
        BY <1>0, <4>1, CancelFields
      <4> QED
        BY <4>1, <4>2 DEF RequestInStep, CalledOff
    <3>2. CASE ~IsActive(e)
      BY <1>0, <2>5, <2>6, <3>2 DEF CancelWrite, RequestInStep
    <3> QED
      BY <3>1, <3>2
  <2>7. CASE CancelStop(q)
    <3>1. req'[q].pc = "free" /\ req'[q].exec = e /\ req[q].pc = "stop"
      BY <1>0, <2>7 DEF CancelStop, ReqType
    <3> QED
      BY <1>0, <1>1, <3>1 DEF RequestInStep
  <2>8. CASE CancelFree(q)
    BY <1>0, <2>5, <2>8 DEF CancelFree, RequestInStep, CalledOff
  <2>9. CASE DropNext(q)
    <3>1. PICK x \in req[q].todo :
            req' = IF IsActive(x) THEN [req EXCEPT ![q].pc = "write", ![q].exec = x, ![q].obj = row[x]]
                   ELSE [req EXCEPT ![q].todo = @ \ {x}]
      BY <2>9 DEF DropNext
    <3>2. req[q].pc = "drop" /\ row' = row
      BY <2>9 DEF DropNext, storeVars
    <3>3. CASE IsActive(x)
      <4>1. req'[q].pc = "write" /\ req'[q].exec = x
        BY <1>0, <3>1, <3>3 DEF ReqType
      <4> QED
        BY <3>2, <3>3, <4>1 DEF RequestInStep, IsActive, Active
    <3>4. CASE ~IsActive(x)
      <4>1. req'[q].pc = "drop"
        BY <1>0, <3>1, <3>2, <3>4 DEF ReqType
      <4> QED
        BY <4>1 DEF RequestInStep
    <3> QED
      BY <3>3, <3>4
  <2> QED
    BY <2>2, <2>3, <2>4, <2>6, <2>7, <2>8, <2>9 DEF AskStep, RequestStep
<1>4. \A p \in Reqs : RequestInStep(p)'
  <2> SUFFICES ASSUME NEW p \in Reqs \ {q} PROVE RequestInStep(p)'
    BY <1>3
  <2>1. req[p].exec \in Execs /\ RequestInStep(p) /\ req'[p] = req[p]
    BY <1>2, ReqViewTypes DEF TypeOK, OwnersInStep
  <2> QED
    BY <1>1, <2>1 DEF RequestInStep
<1> QED
  BY <1>2, <1>4 DEF Cancelling

(* So do the requests of people.                                           *)
LEMMA RequestOwners ==
  ASSUME TypeOK, TypeOK', ViewsCurrent, FencesHold, OwnersInStep, MovesOn,
         NEW q \in Reqs, AskStep(q) \/ RequestStep(q)
  PROVE  OwnersInStep'
<1> DEFINE e == req[q].exec
           o == req[q].obj
<1> USE DEF storeVars, queueVars, runVars
<1>0. /\ StoreTypeOK /\ req \in [Reqs -> ReqType] /\ e \in Execs /\ o \in RowType /\ RequestInStep(q)
      /\ LoopAgrees /\ \A x \in Execs : MarksInStep(x)
      /\ slot \in [Execs -> Nat] /\ row \in [Execs -> RowType] /\ loop.exec \in Execs
  BY ReqViewTypes, LoopViewTypes
  DEF TypeOK, ManagerTypeOK, QueueTypeOK, StoreTypeOK, OwnersInStep
<1>a. \A x \in Runs : run[x].exec \in Execs
  BY ViewTypes DEF TypeOK
<1> DEFINE Fates == \A x \in Execs : RowFate(x) /\ MarksInStep(x)'
           Heard == \A x \in Execs : row[x].status # "cancelled" /\ row'[x].status = "cancelled" => Cancelling(x)'
<1>1. /\ run' = run \/ \E S : run' = Signalled(S)
      /\ UNCHANGED <<wfEvent, mgr, loop>>
      /\ CancelStop(q) \/ run' = run
  BY DEF AskStep, AskCancel, AskDelete, AskRetry, AskResume, AskDrop, PauseQueue, View, Ask,
         RequestStep, CancelWrite, CancelStop, CancelFree, DeleteExecution, DropNext,
         DropScheduler, PersonRequeue
<1>2. \A x \in Runs : Idle(x)
  BY <1>1, RunsIdle DEF TypeOK
<1>3. /\ \A p \in Reqs : RequestInStep(p)'
      /\ \A p \in Reqs \ {q} : req'[p] = req[p]
      /\ req[q].pc # "stop" => \A x \in Execs : Cancelling(x) => Cancelling(x)'
  BY RequestInOrder
<1>4. Fates /\ Heard
  <2>1. ASSUME NEW x \in Execs, ViewRow(x)
        PROVE  Fates
    BY <1>0, <2>1, ViewFields DEF RowFate, Kept, MarksInStep, Clean
  <2>2. ASSUME NEW x \in Execs, ViewRow(x)
        PROVE  Heard
    BY <1>0, <2>2, ViewFields
  <2>3. CASE CancelWrite(q)
    <3>1. CASE IsActive(e)
      <4>1. req'[q].pc = "stop" /\ req'[q].exec = e /\ CancelRow(e)
        BY <1>0, <2>3, <3>1 DEF CancelWrite, ReqType
      <4>2. /\ \A x \in Execs \ {e} : row'[x] = row[x]
            /\ row'[e].status = "cancelled" /\ row'[e].sess = row[e].sess
        BY <1>0, <4>1, CancelFields
      <4> QED
        BY <1>0, <3>1, <4>1, <4>2 DEF RowFate, Kept, MarksInStep, Clean, Cancelling, Active
    <3>2. CASE ~IsActive(e)
      BY <1>0, <2>3, <3>2 DEF CancelWrite, RowFate, Kept, MarksInStep
    <3> QED
      BY <3>1, <3>2
  <2>4. ASSUME NEW S, DeleteRows(S)
        PROVE  Fates /\ Heard
    BY <1>0, <2>4, DeleteFields DEF RowFate, Kept, MarksInStep, Clean, NoRow, Active
  <2>5. CASE PersonRequeue(q)
    <3> DEFINE n == SentAgain(o, req[q].op)
    <3>1. row' = row \/ (RequeueRow(e, n) /\ row[e].status = "failed")
      BY <2>5 DEF PersonRequeue, SentAgain, Requeueable
    <3>2. n \in RowType /\ n.status = "queued" /\ ~n.due /\ ~n.held
      BY <1>0, SentAgainFields
    <3> HIDE DEF n
    <3> QED
      BY <1>0, <3>1, <3>2, RequeueFields DEF RowFate, Kept, MarksInStep, Clean, CalledOff
  <2>6. CASE row' = row
    BY <1>0, <2>6 DEF RowFate, Kept, MarksInStep
  <2> QED
    BY <2>1, <2>2, <2>3, <2>4, <2>5, <2>6
    DEF AskStep, AskCancel, AskDelete, AskRetry, AskResume, AskDrop, PauseQueue, View, Ask,
        RequestStep, CancelStop, CancelFree, FinishRefRow, DeleteExecution, DropNext, DropScheduler
<1>5. ASSUME NEW x \in Runs
      PROVE  ToldToStop(x)
  <2>1. CASE CancelStop(q)
    <3>1. row' = row /\ req[q].pc = "stop" /\ \A f \in Execs \ {e} : Cancelling(f) => Cancelling(f)'
      BY <1>3, <2>1 DEF CancelStop, Cancelling
    <3>2. CASE run[x].exec = e
      BY <2>1, <3>1, <3>2, CancelReaches DEF ToldToStop
    <3>3. CASE run[x].exec # e
      BY <1>2, <1>a, <3>1, <3>3 DEF ToldToStop, Idle
    <3> QED
      BY <3>2, <3>3
  <2>2. CASE ~CancelStop(q)
    <3>1. req[q].pc # "stop"
      BY <1>0, <2>2 DEF AskStep, AskCancel, AskDelete, AskRetry, AskResume, AskDrop, PauseQueue, View, Ask, Asked,
                  RequestStep, CancelWrite, CancelFree, DeleteExecution, DropNext, DropScheduler, PersonRequeue
    <3>2. /\ Cancelling(run[x].exec) => Cancelling(run[x].exec)'
          /\ row[run[x].exec].status # "cancelled" /\ row'[run[x].exec].status = "cancelled" =>
                Cancelling(run[x].exec)'
      BY <1>2, <1>3, <1>4, <1>a, <3>1 DEF Idle
    <3> QED
      BY <1>4, <1>a, <3>2, NobodyLetsGo
  <2> QED
    BY <2>1, <2>2
<1>6. \A x \in Runs : Keeps(x) /\ slot[run[x].exec] = x => CalledOff(run[x].exec) \/ slot'[run[x].exec] = x
  <2>1. slot' = slot \/ (CancelFree(q) /\ MarkFinished(e, 0))
    BY DEF AskStep, AskCancel, AskDelete, AskRetry, AskResume, AskDrop, PauseQueue, View, Ask,
        RequestStep, CancelWrite, CancelStop, CancelFree, DeleteExecution, DropNext, DropScheduler, PersonRequeue
  <2>2. CancelFree(q) => CalledOff(e)
    BY <1>0 DEF CancelFree, RequestInStep
  <2> QED
    BY <1>0, <1>a, <2>1, <2>2 DEF MarkFinished
<1>7. NoNewOwner
  BY <1>2, IdleOwner DEF NoNewOwner
<1>8. LoopAgrees'
  <2>1. Quiet(loop.exec)
    BY <1>0, <1>1, <1>4 DEF RowFate, Quiet, CalledOff
  <2> QED
    BY <1>0, <1>1, <1>7, <2>1, LoopStays
<1> QED
  BY <1>1, <1>2, <1>3, <1>4, <1>5, <1>6, <1>8, <1>a, IdleOwners
-----------------------------------------------------------------------------
(* Stop leaves each run in the CancelledError branch, in its finally       *)
(* block, or over.                                                         *)
LEMMA StopOwners ==
  ASSUME TypeOK, TypeOK', MovesOn, OwnersInStep, Stop
  PROVE  OwnersInStep'
<1>1. UNCHANGED <<row, slot, req>> /\ mgr' = "stopping" /\ loop'.pc = "idle"
  BY DEF Stop, storeVars, queueVars, LoopIdle
<1>2. ASSUME NEW x \in Runs
      PROVE  InStep(x)' /\ (Keeps(x)' => Owns(x) /\ run'[x].exec = run[x].exec)
  <2>1. run[x] \in RunType /\ run'[x] = Interruption(run[x]) /\ InStep(x)
    BY DEF Stop, TypeOK, RunsTypeOK, OwnersInStep, InStep
  <2>2. CASE run[x].pc \in InDispatch \cup {"reread"}
    <3> DEFINE s == run[x].stop \/ run[x].work = "going"
               w == IF run[x].work = "held" \/ (run[x].work = "going" /\ run[x].exec \notin Workflow)
                    THEN "ended" ELSE run[x].work
    <3>1. run'[x] = [run[x] EXCEPT !.pc = "intread", !.exit = "raise", !.stop = s, !.work = w]
      BY <2>1, <2>2 DEF Interruption
    <3> HIDE DEF s, w
    <3>2. run'[x].pc = "intread" /\ run'[x].exec = run[x].exec
      BY <2>1, <3>1 DEF RunType
    <3> QED
      BY <1>1, <2>1, <2>2, <3>2
      DEF InStep, OwnerHasRow, WorkReached, ObjectAgrees, Owns, Keeps, OwnPC, PC, FirstObject, InDispatch,
          CalledOff, Settling
  <2>3. CASE run[x].pc \in Unwinding
    <3>1. run'[x].pc = "release" /\ run'[x].exit # "settle"
      BY <2>1, <2>3 DEF Interruption, Unwinding, RunType, InDispatch
    <3> QED
      BY <3>1 DEF InStep, OwnerHasRow, WorkReached, ObjectAgrees, Owns, Keeps, OwnPC, PC, FirstObject, InDispatch,
                  Settling
  <2>4. CASE run[x].pc \notin InDispatch \cup {"reread"} \cup Unwinding
    <3>1. run'[x].pc \in {"unused", "over"}
      BY <2>1, <2>4 DEF Interruption, RunType
    <3> QED
      BY <3>1, OverInStep
  <2> QED
    BY <2>2, <2>3, <2>4
<1>3. NoNewOwner
  BY <1>2 DEF NoNewOwner, Keeps
<1>4. LoopAgrees'
  BY <1>1 DEF LoopAgrees, Recovering
<1> QED
  BY <1>1, <1>2, <1>3, <1>4, OneOwnerStays, RequestsStay DEF OwnersInStep, InStep, MarksInStep

(* With the process gone nobody owns anything.                             *)
LEMMA NobodyOwners ==
  ASSUME TypeOK, MovesOn, OwnersInStep, \A x \in Runs : run'[x].pc \in {"unused", "over"},
         loop'.pc = "idle", \A x \in Execs : MarksInStep(x)',
         req' = req \/ \A q \in Reqs : req'[q].pc = "idle"
  PROVE  OwnersInStep'
<1>1. \A x \in Runs : InStep(x)' /\ ~Owns(x)' /\ ~Keeps(x)'
  BY OverInStep
<1>2. \A q \in Reqs : RequestInStep(q)'
  BY RequestsStay DEF RequestInStep, OwnersInStep
<1>3. LoopAgrees'
  BY DEF LoopAgrees, Recovering
<1> QED
  BY <1>1, <1>2, <1>3 DEF OwnersInStep, OneOwner, InStep

(* So does every step of the task center, if the machine does not sleep.   *)
LEMMA NextOwners ==
  ASSUME TypeOK, TypeOK', ViewsCurrent, FencesHold, OwnersInStep, [Next]_vars, "suspend" \notin Faults
  PROVE  OwnersInStep'
<1> USE DEF storeVars, queueVars, runVars
<1>0. /\ MovesOn /\ StoreTypeOK /\ row \in [Execs -> RowType] /\ (\A x \in Execs : MarksInStep(x)) /\ LoopAgrees
      /\ \A x \in Runs : run[x].exec \in Execs
  BY NextCurrent, ViewTypes DEF AllCurrent, RunsStayCurrent, TypeOK, StoreTypeOK, OwnersInStep
<1>1. ASSUME UNCHANGED <<run, wfEvent, slot, req, loop>>, mgr' \in {mgr, "up"},
             \A x \in Execs : RowFate(x) /\ MarksInStep(x)',
             \A x \in Execs : row[x].status = "running" /\ row'[x].status = "cancelled" => FALSE
      PROVE  OwnersInStep'
  <2>1. \A x \in Runs : Idle(x)
    BY <1>1 DEF Idle
  <2>2. \A x \in Runs : ToldToStop(x)
    BY <1>0, <1>1, NobodyLetsGo DEF Cancelling
  <2>3. NoNewOwner
    BY <2>1, IdleOwner DEF NoNewOwner
  <2>4. LoopAgrees'
    <3>1. loop.exec \in Execs
      BY LoopViewTypes DEF TypeOK
    <3>2. Quiet(loop.exec)
      BY <1>1, <3>1 DEF RowFate, Quiet, CalledOff
    <3> QED
      BY <1>0, <1>1, <2>3, <3>2, LoopStays
  <2> QED
    BY <1>0, <1>1, <2>1, <2>2, <2>4, IdleOwners, RequestsStay DEF OwnersInStep
<1>2. ASSUME NEW e \in Execs, Create(e) \/ Expire(e) \/ RefOrphan(e)
      PROVE  OwnersInStep'
  <2>1. Requeued(row[e], FALSE) \in RowType /\ Requeued(row[e], FALSE).status = "queued"
        /\ Requeued(row[e], FALSE).due = row[e].due /\ Requeued(row[e], FALSE).held = row[e].held
    BY <1>0, RequeuedFields
  <2>2. \A x \in Execs : row[x].status = "running" /\ row'[x].status = "cancelled" => FALSE
    BY <1>0, <1>2, <2>1, CreateFields, CancelFields, RequeueFields
    DEF Create, Expire, RefOrphan, ExpireRow
  <2>3. ASSUME NEW x \in Execs
        PROVE  RowFate(x) /\ MarksInStep(x)'
    <3>1. x # e => row'[x] = row[x]
      BY <1>0, <1>2, <2>1, CreateFields, CancelFields, RequeueFields DEF Create, Expire, RefOrphan
    <3>2. Create(e) => row[e].status = "new" /\ row'[e].status = "queued" /\ ~row'[e].due /\ ~row'[e].held
      BY <1>0, CreateFields DEF Create
    <3>3. Expire(e) => row[e].status = "queued" /\ row'[e].status = "cancelled" /\ row'[e].sess = row[e].sess
      BY <1>0, CancelFields DEF Expire, ExpireRow
    <3>4. RefOrphan(e) => row[e].status = "queued" /\ row'[e].status = "queued" /\ row'[e].due = row[e].due
                          /\ row'[e].held = row[e].held
      BY <1>0, <2>1, RequeueFields DEF RefOrphan, OrphanedQueued
    <3> QED
      BY <1>0, <1>2, <3>1, <3>2, <3>3, <3>4 DEF RowFate, Kept, MarksInStep, CalledOff, IsActive, Active, Clean
  <2> QED
    BY <1>1, <1>2, <2>2, <2>3 DEF Create, Expire, RefOrphan, managerVars
<1>3. ASSUME NEW e \in Execs, SettleOrphan(e)
      PROVE  OwnersInStep'
  <2> DEFINE f == [row[e] EXCEPT !.status = "failed"]
             q == Requeued(row[e], FALSE)
  <2>1. /\ q \in RowType /\ q.status = "queued" /\ q.due = row[e].due /\ q.held = row[e].held
    BY <1>0, RequeuedFields
  <2>2. Held(f) \in RowType /\ Held(f).status = "failed" /\ ~Held(f).due
    <3>1. f \in RowType /\ f.status = "failed"
      BY <1>0 DEF RowType, Status, Terminal
    <3> QED
      BY <3>1 DEF RowType, Held
  <2>3. RequeueRow(e, q) \/ WriteRow(e, Held(f))
    BY <1>3 DEF SettleOrphan
  <2>4. row[e].status = "running" /\ mgr = "starting" /\ Clean(row[e])
    BY <1>0, <1>3 DEF SettleOrphan, ViewsCurrent, StartCurrent, MarksInStep, Active
  <2> HIDE DEF f, q
  <2>5. \A x \in Execs : MarksInStep(x)'
    BY <1>0, <2>1, <2>2, <2>3, <2>4, MarksWritten DEF Clean, Active
  <2>6. UNCHANGED <<run, loop, req>> /\ loop.pc = "idle" /\ \A x \in Runs : run[x].pc \in {"unused", "over"}
    BY <1>0, <1>3, <2>4 DEF SettleOrphan, FencesHold, Fenced, Live, LoopAgrees
  <2> QED
    BY <1>0, <2>5, <2>6, NobodyOwners
<1>4. ASSUME NEW e \in Execs, LoseClaim(e)
      PROVE  OwnersInStep'
  BY <1>0, <1>4, ClaimOwners DEF LoseClaim
<1>5. ASSUME NEW r \in Runs, RunProgress(r)
      PROVE  OwnersInStep'
  <2>1. UNCHANGED <<mgr, loop, req, claims>> /\ RunStep(r)
    BY <1>5 DEF RunProgress, managerVars, RunStep, ReadScheduler, DispatchFails, StartSession, Register, Check,
                  Open, StartEffect, WorkEnds, EndWork, Interrupted, AbsoluteTimeout, GuardTimeout, GuardCancel,
                  LateWorkEnds, Save, Reread, Fail, FailWrite, InterruptRead, InterruptJudge,
                  InterruptRequeue, Release, FinishRef, Judge, Settle
  <2> QED
    BY <1>0, <2>1, RunStepOwners
<1>6. ASSUME NEW r \in Runs, FailSave(r)
      PROVE  OwnersInStep'
  BY <1>0, <1>6, FailSaveOwners DEF FailSave
<1>7. CASE LoopStep
  BY <1>0, <1>7, LoopStepOwners
<1>8. ASSUME NEW q \in Reqs, AskStep(q) \/ RequestStep(q)
      PROVE  OwnersInStep'
  BY <1>0, <1>8, RequestOwners
<1>9. CASE Stop
  BY <1>0, <1>9, StopOwners
<1>10. CASE Quit \/ Crash
  <2>1. /\ \A x \in Runs : run'[x].pc \in {"unused", "over"}
        /\ loop'.pc = "idle" /\ row' = row /\ \A q \in Reqs : req'[q].pc = "idle"
    <3>1. Gone
      BY <1>10 DEF Quit, Crash
    <3>2. ASSUME NEW x \in Runs
          PROVE  run'[x].pc \in {"unused", "over"}
      <4> DEFINE w == IF run[x].work = "none" THEN run[x].work ELSE "ended"
      <4>1. run[x] \in RunType
        BY DEF TypeOK, RunsTypeOK
      <4>2. run'[x] = IF run[x].pc = "unused" THEN run[x] ELSE [run[x] EXCEPT !.pc = "over", !.work = w]
        BY <3>1 DEF Gone
      <4> HIDE DEF w
      <4> QED
        BY <4>1, <4>2 DEF RunType
    <3> QED
      BY <3>1, <3>2 DEF Gone, LoopIdle, ReqIdle
  <2> QED
    BY <1>0, <2>1, NobodyOwners DEF MarksInStep
<1>11. CASE Start
  <2>1. /\ \A x \in Runs : run'[x].pc \in {"unused", "over"}
        /\ loop'.pc = "idle" /\ row' = row /\ req' = req
    BY <1>0, <1>11 DEF Start, RequeueRunningRefs, FencesHold, Fenced, Live, LoopAgrees
  <2> QED
    BY <1>0, <2>1, NobodyOwners DEF MarksInStep
<1>12. CASE Started \/ ResumeQueue \/ UNCHANGED vars
  <2>1. UNCHANGED <<row, run, wfEvent, slot, req, loop>> /\ mgr' \in {mgr, "up"}
    BY <1>12 DEF Started, ResumeQueue, vars, managerVars
  <2> QED
    BY <1>0, <1>1, <2>1 DEF RowFate, Kept, MarksInStep
<1> QED
  BY <1>2, <1>3, <1>4, <1>5, <1>6, <1>7, <1>8, <1>9, <1>10, <1>11, <1>12 DEF Next

(* At the start nothing is owned.                                          *)
LEMMA InitOwners == Init => OwnersInStep
BY DEF Init, StoreInit, RunsInit, NoRow, NewRun, LoopIdle, ReqIdle, OwnersInStep, OneOwner, LoopAgrees, Recovering,
       OwnerHasRow, WorkReached, ObjectAgrees, MarksInStep, RequestInStep, Owns, Keeps, OwnPC, Clean, FirstObject,
       InDispatch, Settling, Active

(* Unless the machine sleeps, a running row has one owner, which knows it: *)
(* the run whose claim it carries, in its slot, with its work in reach of  *)
(* a cancel.  (After a sleep _recover_stale_executions takes the row from  *)
(* a dispatcher that goes on.)                                             *)
THEOREM OwnersStay ==
  ASSUME "suspend" \notin Faults
  PROVE  Spec => []OwnersInStep
<1>1. TypeOK /\ TypeOK' /\ ViewsCurrent /\ FencesHold /\ OwnersInStep /\ [Next]_vars => OwnersInStep'
  BY NextOwners
<1> QED
  BY <1>1, TypeCorrect, ViewsStayCurrent, FencesStay, InitOwners, PTL DEF Spec
=============================================================================
