------------------------ MODULE TaskFinality_proofs -------------------------
(***************************************************************************)
(* What holds of the task center whatever fails: every variable keeps its  *)
(* type, a finished execution stays finished, whoever writes its record,   *)
(* and a result is only written by the run whose claim the row carries.    *)
(*                                                                         *)
(* The second rests on ViewsCurrent: each write of the store moves a row   *)
(* along RowStep, if the object written is what ViewsCurrent says of it;   *)
(* and rows that only move along RowStep leave every object as current as  *)
(* it was.  The third rests on FencesHold: a queued row has no start       *)
(* time, so that a claim's own becomes the token that tells its dispatcher *)
(* from those of earlier claims.                                           *)
(***************************************************************************)
EXTENDS TaskProperties, TaskInvariant, TLAPS

-----------------------------------------------------------------------------
(* Types: what each write, each step of a dispatcher and each step of the  *)
(* manager keeps.                                                          *)

(* The store's writes keep the types of its two tables.                    *)
LEMMA CreateRowType ==
  ASSUME StoreTypeOK, NEW e \in Execs, CreateRow(e)
  PROVE  StoreTypeOK'
BY DEF StoreTypeOK, CreateRow, NoRow, RowType, RefType, Status, Active, Terminal

(* Writing a whole object keeps the types, and leaves a typed row.         *)
LEMMA WriteRowType ==
  ASSUME StoreTypeOK, NEW e \in Execs, NEW o \in RowType, WriteRow(e, o)
  PROVE  StoreTypeOK' /\ row'[e] \in RowType
BY DEF StoreTypeOK, WriteRow, RowType, RefType, Status, Active, Terminal

(* So does queueing an object again.                                       *)
LEMMA RequeueRowType ==
  ASSUME StoreTypeOK, NEW e \in Execs, NEW o \in RowType, RequeueRow(e, o)
  PROVE  StoreTypeOK' /\ row'[e] \in RowType
BY DEF StoreTypeOK, RequeueRow, RowType, RefType, Status, Active, Terminal

(* Recording the session and the start time keeps the types.               *)
LEMMA StartRowType ==
  ASSUME StoreTypeOK, NEW e \in Execs, NEW s \in Nat, NEW t \in Nat, StartRow(e, s, t)
  PROVE  StoreTypeOK'
BY DEF StoreTypeOK, StartRow, RowType, RefType, Status, Active, Terminal

(* What _requeue_execution makes of an object is a row again.              *)
LEMMA RequeuedType ==
  ASSUME NEW o \in RowType, NEW k \in BOOLEAN
  PROVE  Requeued(o, k) \in RowType
BY DEF Requeued, RowType, Status, Active, Terminal

-----------------------------------------------------------------------------
(* Every step of a run keeps every type.                                   *)
LEMMA ViewTypes ==
  ASSUME StoreTypeOK, RunsTypeOK, NEW r \in Runs
  PROVE  /\ run[r] \in RunType /\ run[r].exec \in Execs /\ run[r].obj \in RowType
         /\ row[run[r].exec] \in RowType /\ Current(run[r].exec, run[r].obj) \in RowType
         /\ r \in Nat
BY MaxClaimsAssumption DEF StoreTypeOK, RunsTypeOK, RunType, Current, Runs

(* Work that ends with a result keeps every type.                          *)
LEMMA EndWorkType ==
  ASSUME StoreTypeOK, QueueTypeOK, RunsTypeOK, NEW r \in Runs,
         NEW s \in {"completed", "failed", "cancelled"}, EndWork(r, s)
  PROVE  StoreTypeOK' /\ QueueTypeOK' /\ RunsTypeOK'
<1>1. [run[r].obj EXCEPT !.status = s] \in RowType
  BY ViewTypes DEF RowType, Status, Terminal
<1>2. run' \in [Runs -> RunType]
  <2>1. ASSUME NEW x \in RunType, NEW o \in RowType
        PROVE  [x EXCEPT !.pc = "save", !.work = "ended", !.obj = o] \in RunType
    BY DEF RunType, PC
  <2>2. run' = [run EXCEPT ![r] = [run[r] EXCEPT !.pc = "save", !.work = "ended",
                                                !.obj = [run[r].obj EXCEPT !.status = s]]]
    BY DEF EndWork
  <2> QED
    BY <1>1, <2>1, <2>2, ViewTypes DEF RunsTypeOK
<1>3. wfEvent' \in [Execs -> {0} \cup Runs] /\ wfStarted' \in [Execs -> {"none", "no", "yes"}]
  BY ViewTypes DEF EndWork, Released, Forgotten, RunsTypeOK
<1> QED
  BY <1>2, <1>3 DEF EndWork, RunsTypeOK, QueueTypeOK, StoreTypeOK, storeVars, queueVars

(* Work that ends because it was told to stop keeps every type.            *)
LEMMA InterruptedType ==
  ASSUME StoreTypeOK, QueueTypeOK, RunsTypeOK, NEW r \in Runs, Interrupted(r)
  PROVE  StoreTypeOK' /\ QueueTypeOK' /\ RunsTypeOK'
<1>1. run' \in [Runs -> RunType]
  <2>1. ASSUME NEW x \in RunType
        PROVE  [x EXCEPT !.pc = "intread", !.exit = "raise", !.work = "ended"] \in RunType
    BY DEF RunType, PC, Exit
  <2> QED
    BY <2>1, ViewTypes DEF Interrupted, RunsTypeOK
<1>2. wfEvent' \in [Execs -> {0} \cup Runs]
  BY ViewTypes DEF Interrupted, Released, RunsTypeOK
<1> QED
  BY <1>1, <1>2 DEF Interrupted, RunsTypeOK, QueueTypeOK, StoreTypeOK, storeVars, queueVars

(* Telling runs to stop leaves them typed.                                 *)
LEMMA SignalledType ==
  ASSUME RunsTypeOK, NEW S
  PROVE  Signalled(S) \in [Runs -> RunType]
<1>1. ASSUME NEW x \in RunType
      PROVE  [x EXCEPT !.stop = TRUE] \in RunType
  BY DEF RunType
<1> QED
  BY <1>1 DEF Signalled, RunsTypeOK

(* Putting another object into a run leaves it typed.                      *)
LEMMA MoveType ==
  ASSUME RunsTypeOK, NEW r \in Runs, NEW p \in PC, NEW o \in RowType
  PROVE  [run EXCEPT ![r].pc = p, ![r].obj = o] \in [Runs -> RunType]
<1>1. ASSUME NEW x \in RunType
      PROVE  [x EXCEPT !.pc = p, !.obj = o] \in RunType
  BY DEF RunType
<1> QED
  BY <1>1 DEF RunsTypeOK

(* Every step of a run, one case for each.                                 *)
LEMMA RunStepType ==
  ASSUME StoreTypeOK, QueueTypeOK, RunsTypeOK, NEW r \in Runs, RunStep(r)
  PROVE  StoreTypeOK' /\ QueueTypeOK' /\ RunsTypeOK'
<1> DEFINE e == run[r].exec
           o == run[r].obj
<1> USE DEF storeVars, queueVars
<1>0. /\ run[r] \in RunType /\ e \in Execs /\ o \in RowType /\ row[e] \in RowType
      /\ Current(e, o) \in RowType /\ r \in Nat
  BY ViewTypes
<1>1. CASE ReadScheduler(r)
  <2>1. CASE sched
    <3> DEFINE n == [o EXCEPT !.sess = IF e \in Workflow THEN 0 ELSE IF @ = 0 THEN r ELSE @]
    <3>1. n \in RowType
      BY <1>0 DEF RowType
    <3>2. "start" \in PC
      BY DEF PC
    <3>3. run' = [run EXCEPT ![r].pc = "start", ![r].obj = n]
      BY <1>1, <2>1 DEF ReadScheduler
    <3>4. run' \in [Runs -> RunType]
      <4> HIDE DEF n
      <4> QED
        BY <3>1, <3>2, <3>3, MoveType
    <3>5. wfStarted' \in [Execs -> {"none", "no", "yes"}]
      BY <1>0, <1>1, <2>1 DEF ReadScheduler, RunsTypeOK
    <3> QED
      BY <1>1, <2>1, <3>4, <3>5 DEF ReadScheduler, RunsTypeOK, QueueTypeOK, StoreTypeOK
  <2>2. CASE ~sched
    <3> DEFINE f == [o EXCEPT !.status = "failed"]
    <3>1. f \in RowType
      BY <1>0 DEF RowType, Status, Terminal
    <3>2. StoreTypeOK'
      BY <1>0, <1>1, <2>2, <3>1, WriteRowType DEF ReadScheduler, StoreTypeOK
    <3> QED
      BY <1>0, <1>1, <2>2, <3>1, <3>2 DEF ReadScheduler, RunsTypeOK, RunType, PC, QueueTypeOK
  <2> QED
    BY <2>1, <2>2
<1>2. CASE DispatchFails(r)
  BY <1>0, <1>2 DEF DispatchFails, RunsTypeOK, RunType, PC, QueueTypeOK, StoreTypeOK
<1>3. CASE StartSession(r)
  <2>1. o.sess \in Nat /\ o.started \in Nat
    BY <1>0 DEF RowType
  <2>2. StoreTypeOK'
    BY <1>0, <1>3, <2>1, StartRowType DEF StartSession, StoreTypeOK
  <2> QED
    BY <1>0, <1>3, <2>2 DEF StartSession, RunsTypeOK, RunType, PC, QueueTypeOK
<1>4. CASE Register(r)
  <2>1. ASSUME NEW x \in RunType, NEW s \in Nat
        PROVE  [x EXCEPT !.pc = "check", !.work = "held", !.sess = s] \in RunType
    BY DEF RunType, PC
  <2>2. o.sess \in Nat
    BY <1>0 DEF RowType
  <2>3. run' = [run EXCEPT ![r] = [run[r] EXCEPT !.pc = "check", !.work = "held", !.sess = o.sess]]
    BY <1>4 DEF Register
  <2>4. run' \in [Runs -> RunType]
    BY <1>0, <2>1, <2>2, <2>3 DEF RunsTypeOK
  <2>5. wfEvent' \in [Execs -> {0} \cup Runs]
    BY <1>0, <1>4 DEF Register, RunsTypeOK
  <2> QED
    BY <1>4, <2>4, <2>5 DEF Register, RunsTypeOK, QueueTypeOK, StoreTypeOK
<1>5. CASE Check(r)
  BY <1>0, <1>5, EndWorkType DEF Check, RunsTypeOK, RunType, PC, QueueTypeOK, StoreTypeOK
<1>6. CASE Open(r)
  <2>1. ASSUME NEW s \in {"completed", "failed", "cancelled"}, EndWork(r, s)
        PROVE  StoreTypeOK' /\ QueueTypeOK' /\ RunsTypeOK'
    BY <1>0, <2>1, EndWorkType
  <2>2. ASSUME Interrupted(r)
        PROVE  StoreTypeOK' /\ QueueTypeOK' /\ RunsTypeOK'
    BY <1>0, <2>2, InterruptedType
  <2> QED
    BY <1>0, <1>6, <2>1, <2>2 DEF Open, RunsTypeOK, RunType, PC, QueueTypeOK, StoreTypeOK
<1>7. CASE StartEffect(r)
  BY <1>0, <1>7 DEF StartEffect, RunsTypeOK, RunType, QueueTypeOK, StoreTypeOK
<1>8. CASE WorkEnds(r)
  BY <1>0, <1>8, EndWorkType, InterruptedType DEF WorkEnds
<1>9. CASE AbsoluteTimeout(r)
  <2>1. [o EXCEPT !.status = "failed"] \in RowType
    BY <1>0 DEF RowType, Status, Terminal
  <2> QED
    BY <1>0, <1>9, <2>1 DEF AbsoluteTimeout, RunsTypeOK, RunType, PC, QueueTypeOK, StoreTypeOK
<1>10. CASE GuardTimeout(r)
  BY <1>0, <1>10 DEF GuardTimeout, RunsTypeOK, RunType, PC, QueueTypeOK, StoreTypeOK
<1>11. CASE GuardCancel(r)
  <2> DEFINE s == Signalled(Reached(e, o.sess))
  <2>1. s \in [Runs -> RunType]
    BY <1>0, SignalledType
  <2>2. run' = [s EXCEPT ![r].pc = "fail"]
    BY <1>11 DEF GuardCancel
  <2> HIDE DEF s
  <2>3. run' = [s EXCEPT ![r] = [s[r] EXCEPT !.pc = "fail"]]
    BY <2>1, <2>2
  <2>4. [s[r] EXCEPT !.pc = "fail"] \in RunType
    BY <1>0, <2>1 DEF RunType, PC
  <2>5. run' \in [Runs -> RunType]
    BY <1>0, <2>1, <2>3, <2>4
  <2> QED
    BY <1>0, <1>11, <2>5 DEF GuardCancel, RunsTypeOK, QueueTypeOK, StoreTypeOK
<1>12. CASE LateWorkEnds(r)
  BY <1>0, <1>12 DEF LateWorkEnds, Released, RunsTypeOK, RunType, QueueTypeOK, StoreTypeOK
<1>13. CASE Save(r)
  BY <1>0, <1>13, WriteRowType DEF Save, RunsTypeOK, RunType, PC, QueueTypeOK, StoreTypeOK
<1>14. CASE Reread(r)
  <2>1. run' = [run EXCEPT ![r] = [@ EXCEPT !.pc = "release", !.obj = Current(e, o)]]
    BY <1>0, <1>14 DEF Reread, RunsTypeOK
  <2>2. [run[r] EXCEPT !.pc = "release", !.obj = Current(e, o)] \in RunType
    BY <1>0 DEF RunType, PC
  <2> QED
    BY <1>0, <1>14, <2>1, <2>2 DEF Reread, RunsTypeOK, QueueTypeOK, StoreTypeOK
<1>15. CASE Fail(r)
  <2> DEFINE c == Current(e, o)
             f == [c EXCEPT !.status = "failed"]
  <2>1. f \in RowType /\ Held(f) \in RowType
    BY <1>0 DEF RowType, Held, Status, Terminal
  <2> QED
    BY <1>0, <1>15, <2>1 DEF Fail, RunsTypeOK, RunType, PC, QueueTypeOK, StoreTypeOK
<1>16. CASE FailWrite(r)
  <2>1. CASE StillActive(e, o)
    <3>1. WriteRow(e, o) /\ StoreTypeOK' /\ row'[e] \in RowType
      BY <1>0, <1>16, <2>1, WriteRowType DEF FailWrite
    <3> QED
      BY <1>0, <1>16, <2>1, <3>1 DEF FailWrite, RunsTypeOK, RunType, PC, QueueTypeOK
  <2>2. CASE ~StillActive(e, o)
    BY <1>0, <1>16, <2>2 DEF FailWrite, RunsTypeOK, RunType, PC, QueueTypeOK, StoreTypeOK
  <2> QED
    BY <2>1, <2>2
<1>17. CASE InterruptRead(r)
  BY <1>0, <1>17 DEF InterruptRead, RunsTypeOK, RunType, PC, QueueTypeOK, StoreTypeOK
<1>18. CASE InterruptJudge(r)
  BY <1>0, <1>18 DEF InterruptJudge, Forgotten, RunsTypeOK, RunType, PC, QueueTypeOK, StoreTypeOK
<1>19. CASE InterruptRequeue(r)
  <2>1. Requeued(o, FALSE) \in RowType /\ Current(e, Requeued(o, FALSE)) \in RowType
    BY <1>0, RequeuedType DEF Current
  <2>2. CASE Requeueable(e, o.status, o.ver)
    <3>1. StoreTypeOK' /\ row'[e] \in RowType
      BY <1>0, <1>19, <2>1, <2>2, RequeueRowType DEF InterruptRequeue
    <3> QED
      BY <1>0, <1>19, <2>2, <3>1 DEF InterruptRequeue, RunsTypeOK, RunType, PC, Exit, QueueTypeOK
  <2>3. CASE ~Requeueable(e, o.status, o.ver)
    BY <1>0, <1>19, <2>1, <2>3
    DEF InterruptRequeue, RunsTypeOK, RunType, PC, Exit, QueueTypeOK, StoreTypeOK
  <2> QED
    BY <2>2, <2>3
<1>20. CASE Release(r)
  <2>1. QueueTypeOK'
    BY <1>0, <1>20 DEF Release, MarkFinished, QueueTypeOK
  <2> QED
    BY <1>0, <1>20, <2>1 DEF Release, Done, RunsTypeOK, RunType, PC, StoreTypeOK
<1>21. CASE FinishRef(r)
  <2>1. StoreTypeOK'
    BY <1>0, <1>21 DEF FinishRef, FinishRefRow, StoreTypeOK, RefType
  <2> QED
    BY <1>0, <1>21, <2>1 DEF FinishRef, Done, RunsTypeOK, RunType, PC, QueueTypeOK
<1>22. CASE Judge(r)
  BY <1>0, <1>22 DEF Judge, Forgotten, RunsTypeOK, RunType, PC, QueueTypeOK, StoreTypeOK
<1>23. CASE Settle(r)
  <2>1. Held(o) \in RowType
    BY <1>0 DEF RowType, Held
  <2>2. [o EXCEPT !.count = @ + 1, !.due = TRUE] \in RowType
    <3>1. o.count + 1 \in Nat
      BY <1>0 DEF RowType
    <3> QED
      BY <1>0, <3>1 DEF RowType
  <2> QED
    BY <1>0, <1>23, <2>1, <2>2, WriteRowType DEF Settle, RunsTypeOK, RunType, PC, QueueTypeOK, StoreTypeOK
<1> QED
  BY <1>1, <1>2, <1>3, <1>4, <1>5, <1>6, <1>7, <1>8, <1>9, <1>10, <1>11, <1>12, <1>13, <1>14, <1>15,
     <1>16, <1>17, <1>18, <1>19, <1>20, <1>21, <1>22, <1>23 DEF RunStep

(* A final write that raises keeps the types, applied or not.              *)
LEMMA FailSaveType ==
  ASSUME StoreTypeOK, QueueTypeOK, RunsTypeOK, NEW r \in Runs, NEW a \in BOOLEAN, SaveFails(r, a)
  PROVE  StoreTypeOK' /\ QueueTypeOK' /\ RunsTypeOK'
<1>1. StoreTypeOK'
  BY ViewTypes, WriteRowType DEF SaveFails, StoreTypeOK, storeVars
<1>2. run' \in [Runs -> RunType]
  BY DEF SaveFails, NoLongerPending, RunsTypeOK, RunType, PC
<1> QED
  BY <1>1, <1>2 DEF SaveFails, RunsTypeOK, QueueTypeOK, queueVars

-----------------------------------------------------------------------------
(* Every step of the execution loop keeps every type.                      *)
TypesKept == StoreTypeOK' /\ QueueTypeOK' /\ RunsTypeOK' /\ ManagerTypeOK'

(* The idle loop, the idle request and the placeholder are typed.          *)
LEMMA LoopIdleType == LoopIdle \in LoopType /\ AnExec \in Execs /\ ReqIdle \in ReqType
<1>1. AnExec \in Execs
  BY ExecsAssumption DEF AnExec
<1>2. NoRow("new") \in RowType
  BY DEF NoRow, RowType, Status
<1> QED
  BY <1>1, <1>2 DEF LoopIdle, ReqIdle, LoopType, ReqType, LoopPC, ReqPC, AllOps

(* A fault stays within its bound.                                         *)
LEMMA FaultType ==
  ASSUME ManagerTypeOK, NEW f, Fault(f)
  PROVE  faults' \in 0..MaxFaults
BY BoundsAssumption DEF ManagerTypeOK, Fault

(* The loop works on a typed object of a typed row.                        *)
LEMMA LoopViewTypes ==
  ASSUME StoreTypeOK, ManagerTypeOK
  PROVE  /\ loop.exec \in Execs /\ loop.obj \in RowType /\ row[loop.exec] \in RowType
         /\ Current(loop.exec, loop.obj) \in RowType
         /\ Requeued(loop.obj, FALSE) \in RowType
BY RequeuedType DEF StoreTypeOK, ManagerTypeOK, LoopType, Current

(* A claim writes a typed row, and the run made for it is typed.           *)
LEMMA ClaimType ==
  ASSUME StoreTypeOK, QueueTypeOK, RunsTypeOK, NEW e \in Execs, claims < MaxClaims,
         ClaimRow(e, claims + 1), NEW pc \in PC
  PROVE  /\ StoreTypeOK' /\ claims + 1 \in 0..MaxClaims /\ claims + 1 \in Runs
         /\ NewRun(e, row'[e], pc) \in RunType
<1>1. claims + 1 \in 0..MaxClaims /\ claims + 1 \in Runs /\ claims + 1 \in Nat
  BY MaxClaimsAssumption DEF RunsTypeOK, Runs
<1>2. StoreTypeOK' /\ row'[e] \in RowType
  BY <1>1 DEF ClaimRow, StoreTypeOK, RowType, RefType, Status, Active
<1> QED
  BY <1>1, <1>2 DEF NewRun, RunType, Exit

(* Every step of the execution loop, one case for each.                    *)
LEMMA LoopStepType ==
  ASSUME StoreTypeOK, QueueTypeOK, RunsTypeOK, ManagerTypeOK, LoopStep
  PROVE  TypesKept
<1> USE DEF storeVars, queueVars, runVars, TypesKept
<1> DEFINE le == loop.exec
           lo == loop.obj
<1>0. /\ LoopIdle \in LoopType /\ le \in Execs /\ lo \in RowType /\ row[le] \in RowType
      /\ Current(le, lo) \in RowType /\ Requeued(lo, FALSE) \in RowType
  BY LoopIdleType, LoopViewTypes
<1>1. ASSUME NEW e \in Execs, Dequeue(e)
      PROVE  TypesKept
  <2>1. /\ StoreTypeOK' /\ claims + 1 \in 0..MaxClaims /\ claims + 1 \in Runs
        /\ NewRun(e, row'[e], "scheduler") \in RunType /\ claims + 1 \in Nat
    BY <1>1, ClaimType, MaxClaimsAssumption DEF Dequeue, PC, Runs
  <2>2. QueueTypeOK' /\ RunsTypeOK'
    BY <1>1, <2>1 DEF Dequeue, QueueTypeOK, RunsTypeOK
  <2> QED
    BY <1>1, <2>1, <2>2 DEF Dequeue, ManagerTypeOK, managerVars
<1>2. ASSUME NEW e \in Execs, TakeRow(e)
      PROVE  TypesKept
  <2>1. row[e] \in RowType
    BY DEF StoreTypeOK
  <2>2. loop' \in LoopType
    BY <1>0, <1>2, <2>1 DEF TakeRow, LoopType, LoopPC
  <2> QED
    BY <1>2, <2>2 DEF TakeRow, StoreTypeOK, QueueTypeOK, RunsTypeOK, ManagerTypeOK
<1>3. ASSUME NEW e \in Execs, TakeStale(e)
      PROVE  TypesKept
  <2>1. row[e] \in RowType
    BY DEF StoreTypeOK
  <2>2. loop' \in LoopType
    BY <1>0, <1>3, <2>1 DEF TakeStale, LoopType, LoopPC
  <2>3. run' \in [Runs -> RunType] /\ faults' \in 0..MaxFaults
    BY <1>3, SignalledType, FaultType DEF TakeStale, ManagerTypeOK
  <2> QED
    BY <1>3, <2>2, <2>3 DEF TakeStale, StoreTypeOK, QueueTypeOK, RunsTypeOK, ManagerTypeOK
<1>4. ASSUME NEW r \in Runs, FlushWrite(r)
      PROVE  TypesKept
  <2> DEFINE e == run[r].exec
             o == run[r].obj
  <2>1. e \in Execs /\ o \in RowType /\ run[r] \in RunType /\ r \in Nat
    BY ViewTypes
  <2>2. CASE StillActive(e, o)
    <3>1. StoreTypeOK' /\ row'[e] \in RowType
      BY <1>4, <2>1, <2>2, WriteRowType DEF FlushWrite
    <3>2. QueueTypeOK'
      BY <1>4, <2>1, <2>2 DEF FlushWrite, MarkFinished, QueueTypeOK
    <3>3. run' \in [Runs -> RunType]
      BY <1>4, <2>1, <2>2, <3>1 DEF FlushWrite, RunsTypeOK, RunType, PC
    <3>4. loop' \in LoopType
      BY <1>0, <1>4, <2>1, <2>2 DEF FlushWrite, LoopType, LoopPC, ManagerTypeOK
    <3> QED
      BY <1>4, <3>1, <3>2, <3>3, <3>4 DEF FlushWrite, RunsTypeOK, ManagerTypeOK
  <2>3. CASE ~StillActive(e, o)
    <3>1. loop' \in LoopType
      BY <1>0, <1>4, <2>1, <2>3 DEF FlushWrite, LoopType, LoopPC
    <3> QED
      BY <1>4, <2>3, <3>1 DEF FlushWrite, StoreTypeOK, QueueTypeOK, RunsTypeOK, ManagerTypeOK
  <2> QED
    BY <2>2, <2>3
<1>5. CASE LoopRequeue
  <2> DEFINE q == Requeued(lo, FALSE)
             n == IF loop.pc = "retry" THEN [q EXCEPT !.due = FALSE] ELSE q
  <2>1. n \in RowType
    BY <1>0 DEF RowType
  <2>2. StoreTypeOK'
    BY <1>0, <1>5, <2>1, RequeueRowType DEF LoopRequeue, StoreTypeOK
  <2> QED
    BY <1>0, <1>5, <2>2 DEF LoopRequeue, QueueTypeOK, RunsTypeOK, ManagerTypeOK
<1>6. CASE StaleJudge
  <2>1. loop' \in LoopType
    <3>1. PICK safe : loop' = [loop EXCEPT !.pc = "stalefail", !.hold = ~safe]
      BY <1>6 DEF StaleJudge
    <3>2. loop \in LoopType /\ (~safe) \in BOOLEAN
      BY DEF ManagerTypeOK
    <3> QED
      BY <3>1, <3>2 DEF LoopType, LoopPC
  <2>2. wfStarted' \in [Execs -> {"none", "no", "yes"}]
    BY <1>0, <1>6 DEF StaleJudge, Forgotten, RunsTypeOK
  <2> QED
    BY <1>6, <2>1, <2>2 DEF StaleJudge, StoreTypeOK, QueueTypeOK, RunsTypeOK, ManagerTypeOK
<1>7. CASE StaleFail
  <2> DEFINE f == [Current(le, lo) EXCEPT !.status = "failed"]
  <2>1. f \in RowType
    BY <1>0 DEF RowType, Status, Terminal
  <2>2. Held(f) \in RowType
    BY <2>1 DEF RowType, Held
  <2>3. loop' \in LoopType
    BY <1>0, <1>7, <2>1, <2>2 DEF StaleFail, ManagerTypeOK, LoopType, LoopPC
  <2> QED
    BY <1>7, <2>3 DEF StaleFail, StoreTypeOK, QueueTypeOK, RunsTypeOK, ManagerTypeOK
<1>8. CASE StaleWrite
  <2>1. StoreTypeOK'
    BY <1>0, <1>8, WriteRowType DEF StaleWrite, StoreTypeOK
  <2>2. loop' \in LoopType
    BY <1>8 DEF StaleWrite, ManagerTypeOK, LoopType, LoopPC
  <2> QED
    BY <1>8, <2>1, <2>2 DEF StaleWrite, QueueTypeOK, RunsTypeOK, ManagerTypeOK
<1>9. CASE StaleFree
  <2>1. QueueTypeOK'
    BY <1>0, <1>9 DEF StaleFree, MarkFinished, QueueTypeOK
  <2>2. loop' \in LoopType
    BY <1>9 DEF StaleFree, ManagerTypeOK, LoopType, LoopPC
  <2> QED
    BY <1>9, <2>1, <2>2 DEF StaleFree, StoreTypeOK, RunsTypeOK, ManagerTypeOK
<1>10. CASE StaleFinishRef
  <2>1. StoreTypeOK'
    BY <1>0, <1>10 DEF StaleFinishRef, FinishRefRow, StoreTypeOK, RefType
  <2> QED
    BY <1>0, <1>10, <2>1 DEF StaleFinishRef, QueueTypeOK, RunsTypeOK, ManagerTypeOK
<1>11. CASE FlushRead
  <2>1. QueueTypeOK'
    BY <1>0, <1>11 DEF FlushRead, MarkFinished, QueueTypeOK
  <2>2. run' \in [Runs -> RunType]
    BY <1>11 DEF FlushRead, NoLongerPending, RunsTypeOK, RunType, PC
  <2> QED
    BY <1>0, <1>11, <2>1, <2>2 DEF FlushRead, StoreTypeOK, RunsTypeOK, ManagerTypeOK
<1>12. CASE FlushHandled
  BY <1>0, <1>12 DEF FlushHandled, StoreTypeOK, QueueTypeOK, RunsTypeOK, ManagerTypeOK
<1> QED
  BY <1>1, <1>2, <1>3, <1>4, <1>5, <1>6, <1>7, <1>8, <1>9, <1>10, <1>11, <1>12 DEF LoopStep

-----------------------------------------------------------------------------
(* Every step of a request keeps every type.                               *)
LEMMA ReqViewTypes ==
  ASSUME StoreTypeOK, ManagerTypeOK, NEW q \in Reqs
  PROVE  /\ req[q] \in ReqType /\ req[q].exec \in Execs /\ req[q].obj \in RowType
         /\ row[req[q].exec] \in RowType /\ req[q].todo \subseteq Execs
BY DEF StoreTypeOK, ManagerTypeOK, ReqType

(* Deleting rows keeps the types of the tables.                            *)
LEMMA DeleteRowsType ==
  ASSUME StoreTypeOK, NEW S, DeleteRows(S)
  PROVE  StoreTypeOK'
BY DEF StoreTypeOK, DeleteRows, NoRow, RowType, RefType, Status

(* A request stays within its bound.                                       *)
LEMMA AskedType ==
  ASSUME ManagerTypeOK, NEW q \in Reqs, NEW op \in AllOps, Asked(q, op)
  PROVE  calls' \in 0..MaxCalls
BY BoundsAssumption DEF ManagerTypeOK, Asked

(* A request that begins by reading a row is typed.                        *)
LEMMA AskType ==
  ASSUME StoreTypeOK, QueueTypeOK, RunsTypeOK, ManagerTypeOK,
         NEW q \in Reqs, NEW op \in AllOps, NEW e \in Execs, NEW pc \in ReqPC, Ask(q, op, e, pc)
  PROVE  TypesKept
<1>1. row[e] \in RowType
  BY DEF StoreTypeOK
<1>2. req' \in [Reqs -> ReqType]
  BY <1>1 DEF Ask, ManagerTypeOK, ReqType
<1>3. calls' \in 0..MaxCalls
  BY AskedType DEF Ask
<1> QED
  BY <1>2, <1>3 DEF Ask, TypesKept, StoreTypeOK, QueueTypeOK, RunsTypeOK, ManagerTypeOK,
                    storeVars, queueVars, runVars

(* Every way a request begins, one case for each.                          *)
LEMMA AskStepType ==
  ASSUME StoreTypeOK, QueueTypeOK, RunsTypeOK, ManagerTypeOK, NEW q \in Reqs, AskStep(q)
  PROVE  TypesKept
<1> USE DEF storeVars, queueVars, runVars
<1>1. ASSUME NEW e \in Execs, AskCancel(q, e)
      PROVE  TypesKept
  BY <1>1, AskType DEF AskCancel, AllOps, ReqPC
<1>2. ASSUME NEW e \in Execs, AskDelete(q, e)
      PROVE  TypesKept
  BY <1>2, AskType DEF AskDelete, AllOps, ReqPC
<1>3. ASSUME NEW e \in Execs, AskRetry(q, e)
      PROVE  TypesKept
  BY <1>3, AskType DEF AskRetry, AllOps, ReqPC
<1>4. ASSUME NEW e \in Execs, AskResume(q, e)
      PROVE  TypesKept
  BY <1>4, AskType DEF AskResume, AllOps, ReqPC
<1>5. ASSUME NEW e \in Execs, View(q, e)
      PROVE  TypesKept
  <2>1. StoreTypeOK'
    BY <1>5 DEF View, ViewRow, StoreTypeOK, RowType
  <2>2. calls' \in 0..MaxCalls
    BY <1>5, AskedType DEF View, AllOps
  <2> QED
    BY <1>5, <2>1, <2>2 DEF View, TypesKept, QueueTypeOK, RunsTypeOK, ManagerTypeOK
<1>6. CASE AskDrop(q)
  <2>1. req' \in [Reqs -> ReqType]
    BY <1>6, LoopIdleType DEF AskDrop, ManagerTypeOK, ReqType, ReqPC, AllOps
  <2>2. calls' \in 0..MaxCalls
    BY <1>6, AskedType DEF AskDrop, AllOps
  <2> QED
    BY <1>6, <2>1, <2>2 DEF AskDrop, TypesKept, StoreTypeOK, QueueTypeOK, RunsTypeOK, ManagerTypeOK
<1>7. CASE PauseQueue(q)
  <2>1. calls' \in 0..MaxCalls
    BY <1>7, AskedType DEF PauseQueue, AllOps
  <2> QED
    BY <1>7, <2>1 DEF PauseQueue, TypesKept, StoreTypeOK, QueueTypeOK, RunsTypeOK, ManagerTypeOK
<1> QED
  BY <1>1, <1>2, <1>3, <1>4, <1>5, <1>6, <1>7 DEF AskStep

(* Where a request goes on after cancelling is typed.                      *)
LEMMA AfterCancelType ==
  ASSUME StoreTypeOK, ManagerTypeOK, NEW q \in Reqs
  PROVE  AfterCancel(q) \in [Reqs -> ReqType]
<1>1. CASE req[q].op = "delete"
  BY <1>1 DEF AfterCancel, ManagerTypeOK, ReqType, ReqPC
<1>2. CASE req[q].op = "drop"
  <2>1. ASSUME NEW x \in ReqType, NEW T \in SUBSET Execs
        PROVE  [x EXCEPT !.pc = "drop", !.todo = T] \in ReqType
    BY DEF ReqType, ReqPC
  <2>2. req[q].todo \ {req[q].exec} \in SUBSET Execs
    BY ReqViewTypes
  <2> QED
    BY <1>2, <2>1, <2>2 DEF AfterCancel, ManagerTypeOK
<1>3. CASE req[q].op \notin {"delete", "drop"}
  BY <1>3, LoopIdleType DEF AfterCancel, ManagerTypeOK
<1> QED
  BY <1>1, <1>2, <1>3

(* Every later step of a request, one case for each.                       *)
LEMMA RequestStepType ==
  ASSUME StoreTypeOK, QueueTypeOK, RunsTypeOK, ManagerTypeOK, NEW q \in Reqs, RequestStep(q)
  PROVE  TypesKept
<1> USE DEF storeVars, queueVars, runVars, TypesKept
<1> DEFINE e == req[q].exec
           o == req[q].obj
<1>0. /\ req[q] \in ReqType /\ e \in Execs /\ o \in RowType /\ row[e] \in RowType
      /\ req[q].todo \subseteq Execs /\ AfterCancel(q) \in [Reqs -> ReqType]
      /\ ReqIdle \in ReqType
  BY ReqViewTypes, AfterCancelType, LoopIdleType
<1>1. CASE CancelWrite(q)
  <2>1. StoreTypeOK'
    BY <1>0, <1>1 DEF CancelWrite, CancelRow, StoreTypeOK, RowType, RefType, Status, Terminal
  <2>2. [req EXCEPT ![q].pc = "stop"] \in [Reqs -> ReqType]
    BY DEF ManagerTypeOK, ReqType, ReqPC
  <2>3. req' \in [Reqs -> ReqType]
    BY <1>0, <1>1, <2>2 DEF CancelWrite
  <2> QED
    BY <1>1, <2>1, <2>3 DEF CancelWrite, QueueTypeOK, RunsTypeOK, ManagerTypeOK
<1>2. CASE CancelStop(q)
  <2>1. req' \in [Reqs -> ReqType]
    BY <1>2 DEF CancelStop, ManagerTypeOK, ReqType, ReqPC
  <2> QED
    BY <1>2, <2>1, SignalledType DEF CancelStop, StoreTypeOK, QueueTypeOK, RunsTypeOK, ManagerTypeOK
<1>3. CASE CancelFree(q)
  <2>1. StoreTypeOK' /\ QueueTypeOK'
    BY <1>0, <1>3 DEF CancelFree, FinishRefRow, MarkFinished, StoreTypeOK, QueueTypeOK, RefType
  <2> QED
    BY <1>0, <1>3, <2>1 DEF CancelFree, RunsTypeOK, ManagerTypeOK
<1>4. CASE DeleteExecution(q)
  <2>1. StoreTypeOK'
    BY <1>4, DeleteRowsType DEF DeleteExecution
  <2> QED
    BY <1>0, <1>4, <2>1 DEF DeleteExecution, QueueTypeOK, RunsTypeOK, ManagerTypeOK
<1>5. CASE DropNext(q)
  <2>1. PICK x \in req[q].todo :
          req' = IF IsActive(x) THEN [req EXCEPT ![q].pc = "write", ![q].exec = x, ![q].obj = row[x]]
                 ELSE [req EXCEPT ![q].todo = @ \ {x}]
    BY <1>5 DEF DropNext
  <2>2. x \in Execs /\ row[x] \in RowType
    BY <1>0, <2>1 DEF StoreTypeOK
  <2>3. /\ [req[q] EXCEPT !.pc = "write", !.exec = x, !.obj = row[x]] \in ReqType
        /\ [req[q] EXCEPT !.todo = @ \ {x}] \in ReqType
    BY <1>0, <2>2 DEF ManagerTypeOK, ReqType, ReqPC
  <2>4. \/ req' = [req EXCEPT ![q] = [req[q] EXCEPT !.pc = "write", !.exec = x, !.obj = row[x]]]
        \/ req' = [req EXCEPT ![q] = [req[q] EXCEPT !.todo = @ \ {x}]]
    BY <2>1
  <2>5. req' \in [Reqs -> ReqType]
    BY <1>0, <2>3, <2>4 DEF ManagerTypeOK
  <2> QED
    BY <1>5, <2>5 DEF DropNext, StoreTypeOK, QueueTypeOK, RunsTypeOK, ManagerTypeOK
<1>6. CASE DropScheduler(q)
  <2>1. StoreTypeOK'
    BY <1>6, DeleteRowsType DEF DropScheduler
  <2> QED
    BY <1>0, <1>6, <2>1 DEF DropScheduler, QueueTypeOK, RunsTypeOK, ManagerTypeOK
<1>7. CASE PersonRequeue(q)
  <2> DEFINE f == [Requeued(o, TRUE) EXCEPT !.held = FALSE, !.due = FALSE]
             g == [Requeued(o, FALSE) EXCEPT !.held = FALSE, !.due = FALSE, !.count = @ + 1]
  <2>1. Requeued(o, TRUE) \in RowType /\ Requeued(o, FALSE) \in RowType
    BY <1>0, RequeuedType
  <2>2. f \in RowType
    BY <2>1 DEF RowType
  <2>3. g \in RowType
    <3>1. ASSUME NEW p \in RowType
          PROVE  [p EXCEPT !.held = FALSE, !.due = FALSE, !.count = @ + 1] \in RowType
      <4>1. p.count + 1 \in Nat
        BY DEF RowType
      <4> QED
        BY <4>1 DEF RowType
    <3> QED
      BY <2>1, <3>1
  <2>4. StoreTypeOK'
    BY <1>0, <1>7, <2>2, <2>3, RequeueRowType DEF PersonRequeue, StoreTypeOK
  <2>5. acks' \in [Execs -> Nat]
    BY <1>0, <1>7, MaxClaimsAssumption DEF PersonRequeue, ManagerTypeOK, RunsTypeOK
  <2> QED
    BY <1>0, <1>7, <2>4, <2>5 DEF PersonRequeue, QueueTypeOK, RunsTypeOK, ManagerTypeOK
<1> QED
  BY <1>1, <1>2, <1>3, <1>4, <1>5, <1>6, <1>7 DEF RequestStep

-----------------------------------------------------------------------------
(* Starting, stopping and ending the process keep every type.              *)
LEMMA InterruptionType ==
  ASSUME NEW x \in RunType
  PROVE  Interruption(x) \in RunType
<1>1. CASE x.pc \in InDispatch \cup {"reread"}
  <2> DEFINE s == x.stop \/ x.work = "going"
             w == IF x.work = "held" \/ (x.work = "going" /\ x.exec \notin Workflow) THEN "ended" ELSE x.work
  <2>1. s \in BOOLEAN /\ w \in {"none", "held", "going", "ended"}
    BY DEF RunType
  <2>2. [x EXCEPT !.pc = "intread", !.exit = "raise", !.stop = s, !.work = w] \in RunType
    BY <2>1 DEF RunType, PC, Exit
  <2> QED
    BY <1>1, <2>2 DEF Interruption
<1>2. CASE x.pc \in Unwinding
  <2> DEFINE t == IF x.exit = "requeued" THEN x.exit ELSE "raise"
  <2>1. t \in Exit
    BY DEF Exit
  <2>2. Interruption(x) = [x EXCEPT !.pc = "release", !.exit = t]
    BY <1>2 DEF Interruption, Unwinding, InDispatch
  <2> HIDE DEF t
  <2>3. [x EXCEPT !.pc = "release", !.exit = t] \in RunType
    BY <2>1 DEF RunType, PC
  <2> QED
    BY <2>2, <2>3
<1>3. CASE x.pc \notin InDispatch \cup {"reread"} \cup Unwinding
  BY <1>3 DEF Interruption, RunType, PC
<1> QED
  BY <1>1, <1>2, <1>3

(* stop keeps every type.                                                  *)
LEMMA StopType ==
  ASSUME StoreTypeOK, QueueTypeOK, RunsTypeOK, ManagerTypeOK, Stop
  PROVE  TypesKept
<1>1. run' \in [Runs -> RunType]
  BY InterruptionType DEF Stop, RunsTypeOK
<1>2. wfEvent' \in [Execs -> {0} \cup Runs]
  BY DEF Stop, RunsTypeOK
<1>3. faults' \in 0..MaxFaults
  BY FaultType DEF Stop
<1> QED
  BY <1>1, <1>2, <1>3, LoopIdleType
  DEF Stop, TypesKept, StoreTypeOK, QueueTypeOK, RunsTypeOK, ManagerTypeOK, storeVars, queueVars

(* A process that ends, or dies, keeps every type.                         *)
LEMMA GoneType ==
  ASSUME StoreTypeOK, QueueTypeOK, RunsTypeOK, ManagerTypeOK, Gone, faults' \in 0..MaxFaults
  PROVE  TypesKept
<1>1. ASSUME NEW x \in RunType
      PROVE  [x EXCEPT !.pc = "over", !.work = IF @ = "none" THEN @ ELSE "ended"] \in RunType
  <2> DEFINE w == IF x.work = "none" THEN x.work ELSE "ended"
  <2>1. w \in {"none", "held", "going", "ended"}
    BY DEF RunType
  <2> QED
    BY <2>1 DEF RunType, PC
<1>2. run' \in [Runs -> RunType]
  BY <1>1 DEF Gone, RunsTypeOK
<1> QED
  BY <1>2, LoopIdleType
  DEF Gone, TypesKept, StoreTypeOK, QueueTypeOK, RunsTypeOK, ManagerTypeOK, storeVars

(* Every step of the process and of the cleanup loop, one case for each.   *)
LEMMA ProcessStepType ==
  ASSUME StoreTypeOK, QueueTypeOK, RunsTypeOK, ManagerTypeOK,
         \/ ResumeQueue \/ Stop \/ Quit \/ Crash \/ Start \/ Started
         \/ \E e \in Execs : Expire(e) \/ SettleOrphan(e) \/ RefOrphan(e)
  PROVE  TypesKept
<1> USE DEF storeVars, queueVars, runVars, managerVars, TypesKept
<1>1. CASE ResumeQueue
  BY <1>1 DEF ResumeQueue, StoreTypeOK, QueueTypeOK, RunsTypeOK, ManagerTypeOK
<1>2. CASE Stop
  BY <1>2, StopType
<1>3. CASE Quit
  BY <1>3, GoneType DEF Quit, ManagerTypeOK
<1>4. CASE Crash
  BY <1>4, GoneType, FaultType DEF Crash
<1>5. CASE Start
  <2>1. StoreTypeOK'
    BY <1>5 DEF Start, RequeueRunningRefs, StoreTypeOK, RefType
  <2> QED
    BY <1>5, <2>1 DEF Start, QueueTypeOK, RunsTypeOK, ManagerTypeOK
<1>6. CASE Started
  BY <1>6 DEF Started, StoreTypeOK, QueueTypeOK, RunsTypeOK, ManagerTypeOK
<1>7. ASSUME NEW e \in Execs, Expire(e)
      PROVE  TypesKept
  <2>1. StoreTypeOK'
    BY <1>7 DEF Expire, ExpireRow, StoreTypeOK, RowType, RefType, Status, Terminal
  <2> QED
    BY <1>7, <2>1 DEF Expire, QueueTypeOK, RunsTypeOK, ManagerTypeOK
<1>8. ASSUME NEW e \in Execs, SettleOrphan(e)
      PROVE  TypesKept
  <2> DEFINE f == [row[e] EXCEPT !.status = "failed"]
  <2>1. row[e] \in RowType
    BY DEF StoreTypeOK
  <2>2. f \in RowType /\ Requeued(row[e], FALSE) \in RowType
    BY <2>1, RequeuedType DEF RowType, Status, Terminal
  <2>3. Held(f) \in RowType
    BY <2>2 DEF RowType, Held
  <2>4. StoreTypeOK'
    BY <1>8, <2>2, <2>3, RequeueRowType, WriteRowType DEF SettleOrphan
  <2> QED
    BY <1>8, <2>4 DEF SettleOrphan, QueueTypeOK, RunsTypeOK, ManagerTypeOK
<1>9. ASSUME NEW e \in Execs, RefOrphan(e)
      PROVE  TypesKept
  <2>1. Requeued(row[e], FALSE) \in RowType
    BY RequeuedType DEF StoreTypeOK
  <2>2. StoreTypeOK'
    BY <1>9, <2>1, RequeueRowType DEF RefOrphan
  <2> QED
    BY <1>9, <2>2 DEF RefOrphan, QueueTypeOK, RunsTypeOK, ManagerTypeOK
<1> QED
  BY <1>1, <1>2, <1>3, <1>4, <1>5, <1>6, <1>7, <1>8, <1>9

-----------------------------------------------------------------------------
(* The initial state is typed.                                             *)
LEMMA InitType == Init => TypeOK
<1> SUFFICES ASSUME Init PROVE TypeOK
  OBVIOUS
<1>1. StoreTypeOK /\ QueueTypeOK
  BY DEF Init, StoreInit, QueueInit, StoreTypeOK, QueueTypeOK, NoRow, RowType, RefType, Status
<1>2. RunsTypeOK
  <2> DEFINE n == NewRun(AnExec, NoRow("new"), "unused")
  <2>1. n \in RunType
    BY LoopIdleType DEF NewRun, RunType, NoRow, RowType, Status, PC, Exit
  <2>2. run = [r \in Runs |-> n]
    BY DEF Init, RunsInit
  <2> HIDE DEF n
  <2>3. run \in [Runs -> RunType]
    BY <2>1, <2>2
  <2>4. claims \in 0..MaxClaims
    BY MaxClaimsAssumption DEF Init, RunsInit
  <2>5. /\ wfEvent \in [Execs -> {0} \cup Runs] /\ sched \in BOOLEAN
        /\ wfStarted \in [Execs -> {"none", "no", "yes"}]
    BY DEF Init, RunsInit
  <2> QED
    BY <2>3, <2>4, <2>5 DEF RunsTypeOK
<1>3. ManagerTypeOK
  BY LoopIdleType, BoundsAssumption DEF Init, ManagerTypeOK
<1> QED
  BY <1>1, <1>2, <1>3 DEF TypeOK

(* Every step of the task center keeps every type.                         *)
LEMMA NextType == TypeOK /\ [Next]_vars => TypeOK'
<1> SUFFICES ASSUME TypeOK, [Next]_vars PROVE TypeOK'
  OBVIOUS
<1> USE DEF TypeOK, TypesKept, managerVars
<1>1. ASSUME NEW e \in Execs, Create(e)
      PROVE  TypeOK'
  BY <1>1, CreateRowType DEF Create, QueueTypeOK, RunsTypeOK, ManagerTypeOK, queueVars, runVars
<1>2. ASSUME NEW e \in Execs, LoseClaim(e)
      PROVE  TypeOK'
  <2>1. /\ StoreTypeOK' /\ claims + 1 \in 0..MaxClaims /\ claims + 1 \in Runs
        /\ NewRun(e, row'[e], "over") \in RunType
    BY <1>2, ClaimType DEF LoseClaim, PC
  <2>2. faults' \in 0..MaxFaults
    BY <1>2, FaultType DEF LoseClaim
  <2> QED
    BY <1>2, <2>1, <2>2 DEF LoseClaim, QueueTypeOK, RunsTypeOK, ManagerTypeOK, queueVars
<1>3. CASE LoopStep
  BY <1>3, LoopStepType
<1>4. ASSUME NEW q \in Reqs, AskStep(q) \/ RequestStep(q)
      PROVE  TypeOK'
  BY <1>4, AskStepType, RequestStepType
<1>5. ASSUME NEW r \in Runs, RunProgress(r)
      PROVE  TypeOK'
  BY <1>5, RunStepType DEF RunProgress, ManagerTypeOK
<1>6. ASSUME NEW r \in Runs, FailSave(r)
      PROVE  TypeOK'
  <2>1. faults' \in 0..MaxFaults
    BY <1>6, FaultType DEF FailSave
  <2>2. StoreTypeOK' /\ QueueTypeOK' /\ RunsTypeOK'
    BY <1>6, FailSaveType DEF FailSave
  <2> QED
    BY <1>6, <2>1, <2>2 DEF FailSave, ManagerTypeOK
<1>7. CASE \/ ResumeQueue \/ Stop \/ Quit \/ Crash \/ Start \/ Started
           \/ \E e \in Execs : Expire(e) \/ SettleOrphan(e) \/ RefOrphan(e)
  BY <1>7, ProcessStepType
<1>8. CASE UNCHANGED vars
  BY <1>8 DEF vars, storeVars, queueVars, runVars, StoreTypeOK, QueueTypeOK, RunsTypeOK, ManagerTypeOK
<1> QED
  BY <1>1, <1>2, <1>3, <1>4, <1>5, <1>6, <1>7, <1>8 DEF Next

(* Every variable of the task center keeps its type.                       *)
THEOREM TypeCorrect == Spec => []TypeOK
<1> QED
  BY InitType, NextType, PTL DEF Spec

-----------------------------------------------------------------------------
(* A step of one row that goes nowhere it may not go.                      *)
RowStep(e) ==
  \/ row'[e] = row[e]
  \/ row'[e].status = "deleted"
  \/ /\ row[e].status # "deleted" /\ row'[e].status \in Active \cup Terminal
     /\ row[e].status # "new" => row'[e].ver > row[e].ver
     /\ row[e].status = "new" => sched
     /\ row[e].status \in {"completed", "cancelled"} => row'[e].status = row[e].status
     /\ row[e].status = "failed" => row'[e].status \in {"failed", "queued"}

(* Every row takes such a step, and no reference is left behind.           *)
MovesOn == (\A e \in Execs : RowStep(e)) /\ RefMatchesRow'

-----------------------------------------------------------------------------
(* Each write of the store, where its WHERE clause (or the caller's view)  *)
(* lets it through, moves its row on and keeps the references in line.     *)
LEMMA NoWriteMoves ==
  ASSUME RefMatchesRow, UNCHANGED <<row, ref>>
  PROVE  MovesOn
BY DEF MovesOn, RowStep, RefMatchesRow

(* A step that only touches references may take away or requeue them.      *)
LEMMA RefMoves ==
  ASSUME RefMatchesRow, UNCHANGED row,
         \A e \in Execs : \/ ref'[e] \in {ref[e], "none"}
                          \/ ref[e] = "running" /\ ref'[e] = "queued"
  PROVE  MovesOn
BY DEF MovesOn, RowStep, RefMatchesRow

(* A new row comes with its reference.                                     *)
LEMMA CreateMoves ==
  ASSUME StoreTypeOK, RefMatchesRow, sched, NEW e \in Execs, CreateRow(e)
  PROVE  MovesOn
BY DEF MovesOn, RowStep, RefMatchesRow, CreateRow, NoRow, StoreTypeOK, RowType, Active

(* A whole-row write, of an active row or of a failure over itself.        *)
LEMMA WriteMoves ==
  ASSUME StoreTypeOK, RefMatchesRow, NEW e \in Execs, NEW o \in RowType, o.status \in Terminal,
         IsActive(e) \/ (row[e].status = "failed" /\ o.status = "failed"),
         WriteRow(e, o)
  PROVE  /\ MovesOn
         /\ row'[e].status = o.status
BY DEF MovesOn, RowStep, RefMatchesRow, WriteRow, IsActive, StoreTypeOK, RowType, Active, Terminal

(* Queueing again, from a row that is running, queued or failed.           *)
LEMMA RequeueMoves ==
  ASSUME StoreTypeOK, RefMatchesRow, NEW e \in Execs, NEW o \in RowType, o.status = "queued",
         row[e].status \in Active \cup {"failed"},
         RequeueRow(e, o)
  PROVE  MovesOn
BY DEF MovesOn, RowStep, RefMatchesRow, RequeueRow, StoreTypeOK, RowType, Active, Terminal

(* Cancelling an active row.                                               *)
LEMMA CancelMoves ==
  ASSUME StoreTypeOK, RefMatchesRow, NEW e \in Execs, IsActive(e), CancelRow(e)
  PROVE  MovesOn
BY DEF MovesOn, RowStep, RefMatchesRow, CancelRow, IsActive, StoreTypeOK, RowType, Active, Terminal

(* Expiring a queued row.                                                  *)
LEMMA ExpireMoves ==
  ASSUME StoreTypeOK, RefMatchesRow, NEW e \in Execs, ExpireRow(e)
  PROVE  MovesOn
BY DEF MovesOn, RowStep, RefMatchesRow, ExpireRow, StoreTypeOK, RowType, RefType, Active, Terminal

(* Recording the session of an active row.                                 *)
LEMMA StartMoves ==
  ASSUME StoreTypeOK, RefMatchesRow, NEW e \in Execs, IsActive(e), NEW s, NEW t, StartRow(e, s, t)
  PROVE  MovesOn
BY DEF MovesOn, RowStep, RefMatchesRow, StartRow, IsActive, StoreTypeOK, RowType, Active, Terminal

(* Claiming what the SELECT of the claim finds.                            *)
LEMMA ClaimMoves ==
  ASSUME StoreTypeOK, RefMatchesRow, NEW e \in Execs, Claimable(e), NEW t, ClaimRow(e, t)
  PROVE  /\ MovesOn
         /\ row'[e].status = "running"
BY DEF MovesOn, RowStep, RefMatchesRow, Claimable, ClaimRow, StoreTypeOK, RowType, Active, Terminal

(* Viewing a row, whatever its status.                                     *)
LEMMA ViewMoves ==
  ASSUME StoreTypeOK, RefMatchesRow, NEW e \in Execs, ViewRow(e)
  PROVE  MovesOn
BY DEF MovesOn, RowStep, RefMatchesRow, ViewRow, Present, StoreTypeOK, RowType, Status, Active, Terminal

(* Deleting rows takes their references along.                             *)
LEMMA DeleteMoves ==
  ASSUME StoreTypeOK, RefMatchesRow, NEW S, DeleteRows(S)
  PROVE  MovesOn
BY DEF MovesOn, RowStep, RefMatchesRow, DeleteRows, NoRow, StoreTypeOK

-----------------------------------------------------------------------------
(* Rows that move on leave a dispatcher's view as current as it was: a     *)
(* dispatcher that does nothing, or only gives up, keeps RunCurrent.       *)
LEMMA RowsAge ==
  ASSUME StoreTypeOK, StoreTypeOK', MovesOn, NEW e \in Execs, row[e].status # "new"
  PROVE  /\ row'[e].status # "new"
         /\ row'[e].status # "deleted" =>
              /\ row[e].status # "deleted"
              /\ row[e].ver \in Nat /\ row'[e].ver \in Nat
              /\ row'[e].ver >= row[e].ver
              /\ row'[e].ver = row[e].ver => row'[e] = row[e]
BY DEF MovesOn, RowStep, StoreTypeOK, RowType, Active, Terminal

(* A run that does nothing while the rows move on stays current.           *)
LEMMA IdleRun ==
  ASSUME StoreTypeOK, StoreTypeOK', RunsTypeOK, MovesOn, NEW r \in Runs, RunCurrent(r),
         run'[r].exec = run[r].exec, run'[r].obj = run[r].obj,
         run'[r].pc = run[r].pc, run'[r].exit = run[r].exit
  PROVE  RunCurrent(r)'
<1> DEFINE e == run[r].exec
           v == run[r].obj.ver
<1>1. CASE run[r].pc \in {"unused", "over"}
  BY <1>1 DEF RunCurrent
<1>2. CASE run[r].pc \notin {"unused", "over"}
  <2>1. e \in Execs /\ v \in Nat
    BY ViewTypes DEF RowType
  <2>2. row[e].status # "new"
    BY <1>2 DEF RunCurrent
  <2>3. /\ row'[e].status # "new"
        /\ row'[e].status # "deleted" =>
             /\ row[e].status # "deleted" /\ row[e].ver \in Nat /\ row'[e].ver \in Nat
             /\ row'[e].ver >= row[e].ver
             /\ row'[e].ver = row[e].ver => row'[e] = row[e]
    BY <2>1, <2>2, RowsAge
  <2>4. row'[e].status # "deleted" => v <= row'[e].ver
    BY <1>2, <2>1, <2>3 DEF RunCurrent
  <2>5. row'[e].status # "deleted" /\ Settling(run[r]) /\ v = row'[e].ver => run[r].obj.status = row'[e].status
    BY <1>2, <2>1, <2>3 DEF RunCurrent
  <2> QED
    BY <1>2, <2>3, <2>4, <2>5 DEF RunCurrent, Settling
<1> QED
  BY <1>1, <1>2

(* A run that is over holds no view that matters.                          *)
LEMMA OverRun ==
  ASSUME NEW r \in Runs, run'[r].pc \in {"unused", "over"}
  PROVE  RunCurrent(r)'
BY DEF RunCurrent

(* A dispatcher that goes on with the object it has, not to settle a       *)
(* failure.                                                                *)
LEMMA GoesOn ==
  ASSUME StoreTypeOK, StoreTypeOK', RunsTypeOK, MovesOn, NEW r \in Runs, RunCurrent(r),
         run[r].pc \notin {"unused", "over"},
         run'[r].exec = run[r].exec, run'[r].obj.ver = run[r].obj.ver,
         ~Settling(run'[r]),
         run'[r].pc \in {"save", "pending"} => run'[r].obj.status \in Terminal,
         run'[r].pc = "failwrite" => run'[r].obj.status = "failed",
         run'[r].pc \in {"intjudge", "intrequeue"} => run'[r].obj.status \notin Terminal
  PROVE  RunCurrent(r)'
<1> DEFINE e == run[r].exec
           v == run[r].obj.ver
<1>1. e \in Execs /\ v \in Nat
  BY ViewTypes DEF RowType
<1>2. row[e].status # "new"
  BY DEF RunCurrent
<1>3. /\ row'[e].status # "new"
      /\ row'[e].status # "deleted" =>
           /\ row[e].status # "deleted" /\ row[e].ver \in Nat /\ row'[e].ver \in Nat
           /\ row'[e].ver >= row[e].ver
  BY <1>1, <1>2, RowsAge
<1>4. row'[e].status # "deleted" => v <= row'[e].ver
  BY <1>1, <1>3 DEF RunCurrent
<1> QED
  BY <1>3, <1>4 DEF RunCurrent, Settling

(* A dispatcher that goes on with its row as it is after the step, or with *)
(* a row that is gone.                                                     *)
LEMMA SeesRow ==
  ASSUME StoreTypeOK, StoreTypeOK', RunsTypeOK, MovesOn, NEW r \in Runs, RunCurrent(r),
         run[r].pc \notin {"unused", "over"},
         run'[r].exec = run[r].exec,
         row'[run[r].exec].status # "deleted" =>
           run'[r].obj.ver = row'[run[r].exec].ver /\ run'[r].obj.status = row'[run[r].exec].status,
         run'[r].pc \in {"release", "finishref", "judge", "over", "intread", "intjudge"},
         run'[r].pc = "judge" => run'[r].obj.status = "failed",
         run'[r].pc = "intjudge" => run'[r].obj.status \notin Terminal
  PROVE  RunCurrent(r)'
<1> DEFINE e == run[r].exec
<1>1. e \in Execs /\ row[e].status # "new"
  BY ViewTypes DEF RunCurrent
<1>2. row'[e].status # "new"
  BY <1>1, RowsAge
<1>3. row'[e].ver \in Nat
  BY <1>1 DEF StoreTypeOK, RowType
<1> QED
  BY <1>2, <1>3 DEF RunCurrent, Settling

-----------------------------------------------------------------------------
(* Every step of a run moves the rows on and keeps every view current.     *)
Others(r) == \A x \in Runs \ {r} : /\ run'[x].exec = run[x].exec /\ run'[x].obj = run[x].obj
                                   /\ run'[x].pc = run[x].pc /\ run'[x].exit = run[x].exit
(* The rows move on, and every run stays current.                          *)
RunsStayCurrent == MovesOn /\ \A x \in Runs : RunCurrent(x)'

(* It is enough to look at the run that took the step.                     *)
LEMMA OneRun ==
  ASSUME StoreTypeOK, StoreTypeOK', RunsTypeOK, ViewsCurrent, NEW r \in Runs,
         MovesOn, Others(r), RunCurrent(r)'
  PROVE  RunsStayCurrent
<1> SUFFICES ASSUME NEW x \in Runs PROVE RunCurrent(x)'
  BY DEF RunsStayCurrent
<1>1. CASE x = r
  BY <1>1
<1>2. CASE x # r
  BY <1>2, IdleRun DEF Others, ViewsCurrent
<1> QED
  BY <1>1, <1>2

(* The end of work, with its result, keeps every view current.             *)
LEMMA EndWorkCurrent ==
  ASSUME TypeOK, TypeOK', ViewsCurrent, NEW r \in Runs, run[r].pc \notin {"unused", "over"},
         NEW s \in Terminal, EndWork(r, s)
  PROVE  RunsStayCurrent
<1> USE DEF TypeOK, ViewsCurrent
<1>1. MovesOn
  BY NoWriteMoves DEF EndWork, storeVars
<1>2. Others(r) /\ run'[r].exec = run[r].exec /\ run'[r].pc = "save"
  BY DEF EndWork, Others, RunsTypeOK
<1>3. run'[r].obj = [run[r].obj EXCEPT !.status = s]
  BY DEF EndWork, RunsTypeOK, RunType
<1>4. run'[r].obj.ver = run[r].obj.ver /\ run'[r].obj.status = s
  BY <1>3, ViewTypes DEF RowType
<1>5. RunCurrent(r)'
  BY <1>1, <1>2, <1>4, GoesOn DEF Settling
<1> QED
  BY <1>1, <1>2, <1>5, OneRun

(* So does the end of work that was told to stop.                          *)
LEMMA InterruptedCurrent ==
  ASSUME TypeOK, TypeOK', ViewsCurrent, NEW r \in Runs, run[r].pc \notin {"unused", "over"},
         Interrupted(r)
  PROVE  RunsStayCurrent
<1> USE DEF TypeOK, ViewsCurrent
<1>1. MovesOn
  BY NoWriteMoves DEF Interrupted, storeVars
<1>2. /\ Others(r) /\ run'[r].exec = run[r].exec /\ run'[r].pc = "intread"
      /\ run'[r].obj = run[r].obj
  BY DEF Interrupted, Others, RunsTypeOK, RunType
<1>3. RunCurrent(r)'
  BY <1>1, <1>2, GoesOn DEF Settling
<1> QED
  BY <1>1, <1>2, <1>3, OneRun

(* Telling runs to stop changes nothing a view depends on.                 *)
LEMMA SignalledKeeps ==
  ASSUME RunsTypeOK, NEW S, NEW x \in Runs
  PROVE  /\ Signalled(S)[x].exec = run[x].exec /\ Signalled(S)[x].obj = run[x].obj
         /\ Signalled(S)[x].pc = run[x].pc /\ Signalled(S)[x].exit = run[x].exit
BY DEF Signalled, RunsTypeOK, RunType

(* Every step of a run, one case for each.                                 *)
LEMMA RunStepCurrent ==
  ASSUME TypeOK, TypeOK', ViewsCurrent, NEW r \in Runs, RunStep(r)
  PROVE  RunsStayCurrent
<1> DEFINE e == run[r].exec
           o == run[r].obj
<1> USE DEF TypeOK, ViewsCurrent, storeVars
<1>0. /\ run[r] \in RunType /\ e \in Execs /\ o \in RowType /\ row[e] \in RowType
      /\ Current(e, o) \in RowType /\ RunCurrent(r) /\ run \in [Runs -> RunType]
  BY ViewTypes DEF RunsTypeOK
<1>1. CASE ReadScheduler(r)
  <2>1. ~sched => ~Present(e)
    BY <1>0 DEF StartCurrent
  <2>2. MovesOn
    BY <1>1, <2>1, NoWriteMoves DEF ReadScheduler
  <2>3. Others(r) /\ run'[r].exec = e /\ run'[r].pc \in {"start", "over"}
    BY <1>0, <1>1 DEF ReadScheduler, Others, RunType
  <2>4. CASE run'[r].pc = "over"
    BY <2>2, <2>3, <2>4, OverRun, OneRun
  <2>5. CASE run'[r].pc = "start"
    <3>1. sched
      BY <1>0, <1>1, <2>5 DEF ReadScheduler, RunType
    <3>2. run'[r].obj = [o EXCEPT !.sess = IF e \in Workflow THEN 0 ELSE IF @ = 0 THEN r ELSE @]
      BY <1>0, <1>1, <3>1 DEF ReadScheduler, RunType
    <3>3. run'[r].obj.ver = o.ver
      BY <1>0, <3>2 DEF RowType
    <3>4. RunCurrent(r)'
      BY <1>0, <1>1, <2>2, <2>3, <2>5, <3>3, GoesOn DEF ReadScheduler, Settling
    <3> QED
      BY <2>2, <2>3, <3>4, OneRun
  <2> QED
    BY <2>3, <2>4, <2>5
<1>2. CASE DispatchFails(r) \/ Register(r) \/ StartEffect(r) \/ GuardTimeout(r)
           \/ InterruptJudge(r)
  <2>1. MovesOn
    BY <1>2, NoWriteMoves
    DEF DispatchFails, Register, StartEffect, GuardTimeout, InterruptJudge
  <2>2. /\ Others(r) /\ run'[r].exec = e /\ run'[r].obj = o
    BY <1>0, <1>2 DEF DispatchFails, Register, StartEffect, GuardTimeout,
                      InterruptJudge, Others, RunType
  <2>3. CASE StartEffect(r)
    <3>1. run'[r].pc = run[r].pc /\ run'[r].exit = run[r].exit
      BY <1>0, <2>3 DEF StartEffect, RunType
    <3> QED
      BY <1>0, <2>1, <2>2, <3>1, IdleRun, OneRun
  <2>4. CASE ~StartEffect(r)
    <3>1. /\ run[r].pc \notin {"unused", "over"}
          /\ run'[r].pc \in {"fail", "check", "guard", "intrequeue"}
          /\ run'[r].pc = "intrequeue" => run[r].pc = "intjudge"
      BY <1>0, <1>2, <2>4 DEF DispatchFails, Register, GuardTimeout,
                              InterruptJudge, RunType
    <3>2. run'[r].pc = "intrequeue" => o.status \notin Terminal
      BY <1>0, <3>1 DEF RunCurrent
    <3>3. RunCurrent(r)'
      BY <1>0, <2>1, <2>2, <3>1, <3>2, GoesOn DEF Settling
    <3> QED
      BY <2>1, <2>2, <3>3, OneRun
  <2> QED
    BY <2>3, <2>4
<1>3. CASE StartSession(r)
  <2>1. MovesOn
    BY <1>0, <1>3, StartMoves, NoWriteMoves DEF StartSession
  <2>2. /\ Others(r) /\ run'[r].exec = e /\ run'[r].obj = o
        /\ run'[r].pc \in {"register", "reread"} /\ run[r].pc = "start"
    BY <1>0, <1>3 DEF StartSession, Others, RunType
  <2>3. RunCurrent(r)'
    BY <1>0, <2>1, <2>2, GoesOn DEF Settling
  <2> QED
    BY <2>1, <2>2, <2>3, OneRun
<1>4. CASE Check(r)
  <2>1. CASE \E s \in {"cancelled", "failed"} : EndWork(r, s)
    BY <1>0, <1>4, <2>1, EndWorkCurrent DEF Check, Terminal
  <2>2. CASE run' = [run EXCEPT ![r].pc = "open"] /\ UNCHANGED storeVars
    <3>1. MovesOn
      BY <2>2, NoWriteMoves
    <3>2. /\ Others(r) /\ run'[r].exec = e /\ run'[r].obj = o /\ run'[r].pc = "open"
          /\ run[r].pc = "check"
      BY <1>0, <1>4, <2>2 DEF Check, Others, RunType
    <3>3. RunCurrent(r)'
      BY <1>0, <3>1, <3>2, GoesOn DEF Settling
    <3> QED
      BY <3>1, <3>2, <3>3, OneRun
  <2> QED
    BY <1>4, <2>1, <2>2 DEF Check
<1>5. CASE Open(r)
  <2>1. run[r].pc = "open"
    BY <1>5 DEF Open
  <2>2. CASE EndWork(r, "cancelled")
    BY <2>1, <2>2, EndWorkCurrent DEF Terminal
  <2>3. CASE Interrupted(r)
    BY <2>1, <2>3, InterruptedCurrent
  <2>4. CASE run' = [run EXCEPT ![r].pc = "work", ![r].work = "going"] /\ UNCHANGED storeVars
    <3>1. MovesOn
      BY <2>4, NoWriteMoves
    <3>2. /\ Others(r) /\ run'[r].exec = e /\ run'[r].obj = o /\ run'[r].pc = "work"
      BY <1>0, <2>4 DEF Others, RunType
    <3>3. RunCurrent(r)'
      BY <1>0, <2>1, <3>1, <3>2, GoesOn DEF Settling
    <3> QED
      BY <3>1, <3>2, <3>3, OneRun
  <2> QED
    BY <1>5, <2>2, <2>3, <2>4 DEF Open
<1>6. CASE WorkEnds(r)
  <2>1. run[r].pc = "work"
    BY <1>6 DEF WorkEnds
  <2>2. CASE \E s \in Terminal : EndWork(r, s)
    BY <2>1, <2>2, EndWorkCurrent
  <2>3. CASE Interrupted(r)
    BY <2>1, <2>3, InterruptedCurrent
  <2> QED
    BY <1>6, <2>2, <2>3 DEF WorkEnds, Terminal
<1>7. CASE AbsoluteTimeout(r)
  <2>1. MovesOn
    BY <1>7, NoWriteMoves DEF AbsoluteTimeout
  <2>2. /\ Others(r) /\ run'[r].exec = e /\ run'[r].obj = [o EXCEPT !.status = "failed"]
        /\ run'[r].pc = "save" /\ run[r].pc = "work"
    BY <1>0, <1>7 DEF AbsoluteTimeout, Others, RunType
  <2>3. run'[r].obj.ver = o.ver /\ run'[r].obj.status = "failed"
    BY <1>0, <2>2 DEF RowType
  <2>4. RunCurrent(r)'
    BY <1>0, <2>1, <2>2, <2>3, GoesOn DEF Settling, Terminal
  <2> QED
    BY <2>1, <2>2, <2>4, OneRun
<1>8. CASE LateWorkEnds(r)
  <2>1. MovesOn
    BY <1>8, NoWriteMoves DEF LateWorkEnds
  <2>2. /\ Others(r) /\ run'[r].exec = e /\ run'[r].obj = o
        /\ run'[r].pc = run[r].pc /\ run'[r].exit = run[r].exit
    BY <1>0, <1>8 DEF LateWorkEnds, Others, RunType
  <2> QED
    BY <1>0, <2>1, <2>2, IdleRun, OneRun
<1>9. CASE GuardCancel(r)
  <2> DEFINE s == Signalled(Reached(e, o.sess))
  <2>1. MovesOn
    BY <1>9, NoWriteMoves DEF GuardCancel
  <2>2. s \in [Runs -> RunType]
    BY SignalledType
  <2>3. \A x \in Runs : /\ s[x].exec = run[x].exec /\ s[x].obj = run[x].obj
                        /\ s[x].pc = run[x].pc /\ s[x].exit = run[x].exit
    BY SignalledKeeps
  <2>4. run' = [s EXCEPT ![r].pc = "fail"] /\ run[r].pc = "guard"
    BY <1>9 DEF GuardCancel
  <2> HIDE DEF s
  <2>5. Others(r) /\ run'[r].exec = e /\ run'[r].obj = o /\ run'[r].pc = "fail"
    BY <2>2, <2>3, <2>4 DEF Others, RunType
  <2>6. RunCurrent(r)'
    BY <1>0, <2>1, <2>4, <2>5, GoesOn DEF Settling
  <2> QED
    BY <2>1, <2>5, <2>6, OneRun
<1>10. CASE Save(r) \/ FailWrite(r)
  <2>1. run[r].pc \in {"save", "failwrite"} /\ o.status \in Terminal
    BY <1>0, <1>10 DEF Save, FailWrite, RunCurrent, Terminal
  <2>2. CASE StillActive(e, o)
    <3>1. WriteRow(e, o) /\ run' = [run EXCEPT ![r].pc = "release", ![r].obj = row'[e]]
      BY <1>10, <2>2 DEF Save, FailWrite
    <3>2. MovesOn
      BY <1>0, <2>1, <2>2, <3>1, WriteMoves DEF StillActive
    <3>3. /\ Others(r) /\ run'[r].exec = e /\ run'[r].obj = row'[e] /\ run'[r].pc = "release"
      BY <1>0, <3>1 DEF Others, RunType
    <3>4. RunCurrent(r)'
      BY <1>0, <2>1, <3>2, <3>3, SeesRow
    <3> QED
      BY <3>2, <3>3, <3>4, OneRun
  <2>3. CASE ~StillActive(e, o)
    <3>1. /\ \E p \in {"reread", "failreread"} : run' = [run EXCEPT ![r].pc = p]
          /\ UNCHANGED storeVars
      BY <1>10, <2>3 DEF Save, FailWrite
    <3>2. MovesOn
      BY <3>1, NoWriteMoves
    <3>3. Others(r) /\ run'[r].exec = e /\ run'[r].obj = o /\ run'[r].pc \in {"reread", "failreread"}
      BY <1>0, <3>1 DEF Others, RunType
    <3>4. RunCurrent(r)'
      BY <1>0, <2>1, <3>2, <3>3, GoesOn DEF Settling
    <3> QED
      BY <3>2, <3>3, <3>4, OneRun
  <2> QED
    BY <2>2, <2>3
<1>11. CASE Reread(r) \/ InterruptRead(r)
  <2>1. MovesOn
    BY <1>11, NoWriteMoves DEF Reread, InterruptRead
  <2>2. run[r].pc \in {"reread", "failreread", "intread"} /\ row' = row
    BY <1>11 DEF Reread, InterruptRead
  <2>3. /\ Others(r) /\ run'[r].exec = e /\ run'[r].obj = Current(e, o)
        /\ run'[r].pc \in {"release", "intjudge"}
        /\ run'[r].pc = "intjudge" => run'[r].obj.status \notin Terminal
    BY <1>0, <1>11 DEF Reread, InterruptRead, Others, RunType
  <2>4. row[e].status # "deleted" => run'[r].obj = row[e]
    BY <1>0, <2>2, <2>3 DEF RunCurrent, Current, Present
  <2>5. RunCurrent(r)'
    BY <1>0, <2>1, <2>2, <2>3, <2>4, SeesRow
  <2> QED
    BY <2>1, <2>3, <2>5, OneRun
<1>12. CASE Fail(r)
  <2> DEFINE c == Current(e, o)
             f == [c EXCEPT !.status = "failed"]
             n == IF run[r].exit = "raise" THEN Held(f) ELSE f
  <2>1. MovesOn
    BY <1>12, NoWriteMoves DEF Fail
  <2>2. run[r].pc = "fail" /\ row' = row
    BY <1>12 DEF Fail
  <2>3. row[e].status # "deleted" => c = row[e]
    BY <1>0, <2>2 DEF RunCurrent, Current, Present
  <2>4. CASE Present(e) /\ c.status \in Terminal
    <3>1. Others(r) /\ run'[r].exec = e /\ run'[r].obj = c /\ run'[r].pc = "release"
      BY <1>0, <1>12, <2>4 DEF Fail, Others, RunType
    <3>2. RunCurrent(r)'
      BY <1>0, <2>1, <2>2, <2>3, <3>1, SeesRow
    <3> QED
      BY <2>1, <3>1, <3>2, OneRun
  <2>5. CASE ~(Present(e) /\ c.status \in Terminal)
    <3>1. n.status = "failed" /\ n.ver = c.ver /\ c.ver \in Nat
      BY <1>0 DEF Held, RowType
    <3>2. Others(r) /\ run'[r].exec = e /\ run'[r].obj = n /\ run'[r].pc = "failwrite"
      BY <1>0, <1>12, <2>5 DEF Fail, Others, RunType
    <3>3. RunCurrent(r)'
      BY <1>0, <2>2, <2>3, <3>1, <3>2 DEF RunCurrent, Settling, RowType
    <3> QED
      BY <2>1, <3>2, <3>3, OneRun
  <2> QED
    BY <2>4, <2>5
<1>13. CASE InterruptRequeue(r)
  <2> DEFINE q == Requeued(o, FALSE)
  <2>1. run[r].pc = "intrequeue" /\ o.status \notin Terminal
    BY <1>0, <1>13 DEF InterruptRequeue, RunCurrent
  <2>2. q \in RowType /\ q.status = "queued"
    BY <1>0, RequeuedType DEF Requeued, RowType
  <2>3. CASE Requeueable(e, o.status, o.ver)
    <3>1. RequeueRow(e, q)
      BY <1>13, <2>3 DEF InterruptRequeue
    <3>2. row[e].status \in Active
      BY <1>0, <2>1, <2>3 DEF Requeueable, Unchanged, Present, RowType, Status
    <3>3. MovesOn
      BY <1>0, <2>2, <3>1, <3>2, RequeueMoves
    <3>4. Others(r) /\ run'[r].exec = e /\ run'[r].obj = row'[e] /\ run'[r].pc = "release"
      BY <1>0, <1>13, <2>3 DEF InterruptRequeue, Others, RunType
    <3>5. RunCurrent(r)'
      BY <1>0, <2>1, <3>3, <3>4, SeesRow
    <3> QED
      BY <3>3, <3>4, <3>5, OneRun
  <2>4. CASE ~Requeueable(e, o.status, o.ver)
    <3>1. MovesOn /\ row' = row
      BY <1>13, <2>4, NoWriteMoves DEF InterruptRequeue
    <3>2. Others(r) /\ run'[r].exec = e /\ run'[r].obj = Current(e, q) /\ run'[r].pc = "release"
      <4> DEFINE c == Current(e, q)
                 x == IF c.status = "queued" THEN "requeued" ELSE run[r].exit
      <4>1. run' = [run EXCEPT ![r].pc = "release", ![r].obj = c, ![r].exit = x]
        BY <1>13, <2>4 DEF InterruptRequeue
      <4> HIDE DEF c, x
      <4> QED
        BY <1>0, <4>1 DEF Others, RunType, c
    <3>3. row[e].status # "deleted" => run'[r].obj = row[e]
      BY <1>0, <2>1, <3>2 DEF RunCurrent, Current, Present
    <3>4. RunCurrent(r)'
      BY <1>0, <2>1, <3>1, <3>2, <3>3, SeesRow
    <3> QED
      BY <3>1, <3>2, <3>4, OneRun
  <2> QED
    BY <2>3, <2>4
<1>14. CASE Release(r) \/ FinishRef(r) \/ Judge(r)
  <2>1. MovesOn
    <3>1. row' = row /\ \A x \in Execs : ref'[x] \in {ref[x], "none"}
      BY <1>14 DEF Release, FinishRef, FinishRefRow, Judge, StoreTypeOK
    <3> QED
      BY <3>1, RefMoves
  <2>2. /\ Others(r) /\ run'[r].exec = e /\ run'[r].obj = o /\ run'[r].exit = run[r].exit
        /\ run'[r].pc \in {"finishref", "judge", "over", "hold", "later"}
        /\ run[r].pc \in {"release", "finishref", "judge"}
        /\ run'[r].pc = "finishref" => run[r].pc = "release"
        /\ run'[r].pc \in {"judge"} => run[r].pc # "judge" /\ run[r].exit = "settle" /\ o.status = "failed"
        /\ run'[r].pc \in {"hold", "later"} => run[r].pc = "judge"
    BY <1>0, <1>14 DEF Release, FinishRef, Judge, Done, Others, RunType
  <2>3. row' = row
    BY <1>14 DEF Release, FinishRef, FinishRefRow, Judge
  <2>4. RunCurrent(r)'
    BY <1>0, <2>2, <2>3 DEF RunCurrent, Settling
  <2> QED
    BY <2>1, <2>2, <2>4, OneRun
<1>15. CASE Settle(r)
  <2> DEFINE n == IF run[r].pc = "hold" THEN Held(o) ELSE [o EXCEPT !.count = @ + 1, !.due = TRUE]
  <2>1. run[r].pc \in {"hold", "later"} /\ o.status = "failed" /\ Settling(run[r])
    BY <1>0, <1>15 DEF Settle, RunCurrent, Settling
  <2>2. n \in RowType /\ n.status = "failed"
    <3>1. o.count + 1 \in Nat
      BY <1>0 DEF RowType
    <3> QED
      BY <1>0, <2>1, <3>1 DEF Held, RowType
  <2>3. Unchanged(e, o.ver) => row[e].status = "failed"
    BY <1>0, <2>1 DEF RunCurrent, Unchanged, Present
  <2>4. MovesOn
    <3>1. CASE Unchanged(e, o.ver)
      <4>1. WriteRow(e, n)
        BY <1>15, <3>1 DEF Settle
      <4> QED
        BY <1>0, <2>2, <2>3, <3>1, <4>1, WriteMoves DEF Terminal
    <3>2. CASE ~Unchanged(e, o.ver)
      BY <1>15, <3>2, NoWriteMoves DEF Settle
    <3> QED
      BY <3>1, <3>2
  <2>5. Others(r) /\ run'[r].pc = "over"
    BY <1>0, <1>15 DEF Settle, Others, RunType
  <2> QED
    BY <2>4, <2>5, OverRun, OneRun
<1> QED
  BY <1>1, <1>2, <1>3, <1>4, <1>5, <1>6, <1>7, <1>8, <1>9, <1>10, <1>11, <1>12, <1>13, <1>14, <1>15
  DEF RunStep

-----------------------------------------------------------------------------
(* Every other step of the running process moves the rows on and keeps     *)
(* every view current.                                                     *)
AllCurrent == RunsStayCurrent /\ LoopCurrent' /\ StartCurrent'

(* Steps that leave the runs alone, or only tell them to stop.             *)
LEMMA IdleRuns ==
  ASSUME TypeOK, TypeOK', ViewsCurrent, MovesOn,
         run' = run \/ \E S : run' = Signalled(S)
  PROVE  RunsStayCurrent
<1> SUFFICES ASSUME NEW x \in Runs PROVE RunCurrent(x)'
  BY DEF RunsStayCurrent
<1>1. /\ run'[x].exec = run[x].exec /\ run'[x].obj = run[x].obj
      /\ run'[x].pc = run[x].pc /\ run'[x].exit = run[x].exit
  BY SignalledKeeps DEF TypeOK
<1> QED
  BY <1>1, IdleRun DEF TypeOK, ViewsCurrent

(* What start relies on is not disturbed by rows that move on.             *)
LEMMA StartStays ==
  ASSUME StoreTypeOK, StartCurrent, MovesOn, mgr \in {"up", "stopping"},
         UNCHANGED <<mgr, orphans, sched>>, mgr = "up" \/ req' = req
  PROVE  StartCurrent'
<1>1. orphans = {}
  BY DEF StartCurrent
<1>2. ~sched => \A e \in Execs : row[e].status \in {"new", "deleted"}
  BY DEF StartCurrent, Present
<1>3. ~sched => \A e \in Execs : row'[e].status \in {"new", "deleted"}
  BY <1>2 DEF MovesOn, RowStep
<1> QED
  BY <1>1, <1>3 DEF StartCurrent, Present

(* A final write that raises, applied or not, keeps every view current.    *)
LEMMA FailSaveCurrent ==
  ASSUME TypeOK, TypeOK', ViewsCurrent, NEW r \in Runs, NEW a \in BOOLEAN, SaveFails(r, a)
  PROVE  RunsStayCurrent
<1> DEFINE e == run[r].exec
           o == run[r].obj
<1> USE DEF TypeOK, ViewsCurrent, storeVars
<1>0. e \in Execs /\ o \in RowType /\ RunCurrent(r) /\ run[r].pc = "save"
  BY ViewTypes DEF SaveFails
<1>1. MovesOn
  BY <1>0, WriteMoves, NoWriteMoves DEF SaveFails, StillActive, RunCurrent
<1>2. ASSUME NEW x \in Runs
      PROVE  RunCurrent(x)'
  <2>1. CASE x = r
    <3>1. run'[r].exec = e /\ run'[r].obj = o /\ run'[r].pc = "pending"
      BY <2>1 DEF SaveFails, RunsTypeOK, RunType
    <3> QED
      BY <1>0, <1>1, <2>1, <3>1, GoesOn DEF Settling, RunCurrent
  <2>2. CASE x # r
    <3>1. run'[x] = run[x] \/ run'[x].pc = "over"
      BY <2>2 DEF SaveFails, NoLongerPending, RunsTypeOK, RunType
    <3> QED
      BY <1>1, <3>1, IdleRun, OverRun
  <2> QED
    BY <2>1, <2>2
<1> QED
  BY <1>1, <1>2 DEF RunsStayCurrent

(* A claim starts its run with the row as the claim left it.               *)
LEMMA ClaimCurrent ==
  ASSUME TypeOK, TypeOK', ViewsCurrent, NEW e \in Execs, claims < MaxClaims, Claimable(e),
         ClaimRow(e, claims + 1), NEW pc \in {"scheduler", "over"},
         run' = [run EXCEPT ![claims + 1] = NewRun(e, row'[e], pc)]
  PROVE  RunsStayCurrent
<1> USE DEF TypeOK, ViewsCurrent
<1>1. PICK r \in Runs : r = claims + 1
  BY MaxClaimsAssumption DEF RunsTypeOK, Runs
<1>2. MovesOn /\ row'[e].status = "running"
  BY ClaimMoves
<1>3. Others(r) /\ run'[r] = NewRun(e, row'[e], pc)
  BY <1>1 DEF Others, RunsTypeOK
<1>4. row'[e].ver \in Nat
  BY DEF StoreTypeOK, RowType
<1>5. RunCurrent(r)'
  BY <1>2, <1>3, <1>4 DEF RunCurrent, NewRun, Settling
<1> QED
  BY <1>2, <1>3, <1>5, OneRun

(* Every step of the execution loop, one case for each.                    *)
LEMMA LoopStepCurrent ==
  ASSUME TypeOK, TypeOK', ViewsCurrent, LoopStep
  PROVE  AllCurrent
<1> DEFINE le == loop.exec
           lo == loop.obj
<1> USE DEF TypeOK, ViewsCurrent, storeVars, LoopFree
<1>0. /\ le \in Execs /\ lo \in RowType /\ row[le] \in RowType /\ loop \in LoopType
      /\ LoopIdle.pc = "idle"
  BY LoopViewTypes DEF ManagerTypeOK, LoopIdle
<1>1. mgr = "up" /\ UNCHANGED <<mgr, orphans, sched>>
  BY DEF LoopStep, Dequeue, TakeRow, TakeStale, FlushWrite, LoopRequeue, StaleJudge, StaleFail,
         StaleWrite, StaleFree, StaleFinishRef, FlushRead, FlushHandled, managerVars, runVars
<1>2. MovesOn => StartCurrent'
  BY <1>1, StartStays
<1>3. ASSUME NEW e \in Execs, Dequeue(e)
      PROVE  AllCurrent
  <2>1. RunsStayCurrent
    BY <1>3, ClaimCurrent DEF Dequeue, MayDequeue
  <2> QED
    BY <1>2, <1>3, <2>1 DEF AllCurrent, RunsStayCurrent, Dequeue, LoopCurrent, managerVars
<1>4. ASSUME NEW e \in Execs, TakeRow(e) \/ TakeStale(e)
      PROVE  AllCurrent
  <2>1. MovesOn
    BY <1>4, NoWriteMoves DEF TakeRow, TakeStale
  <2>2. RunsStayCurrent
    BY <1>4, <2>1, IdleRuns DEF TakeRow, TakeStale, runVars
  <2>3. LoopCurrent'
    BY <1>4 DEF TakeRow, TakeStale, Retryable, OrphanedQueued, LoopCurrent, LoopIdle
  <2> QED
    BY <1>2, <2>1, <2>2, <2>3 DEF AllCurrent
<1>5. ASSUME NEW r \in Runs, FlushWrite(r)
      PROVE  AllCurrent
  <2> DEFINE e == run[r].exec
             o == run[r].obj
  <2>1. e \in Execs /\ o \in RowType /\ run[r] \in RunType /\ RunCurrent(r) /\ o.status \in Terminal
    BY <1>5, ViewTypes DEF FlushWrite, RunCurrent
  <2>2. CASE StillActive(e, o)
    <3>1. MovesOn /\ row'[e].status = o.status
      BY <1>5, <2>1, <2>2, WriteMoves DEF FlushWrite, StillActive
    <3>2. /\ Others(r) /\ run'[r].exec = e /\ run'[r].obj = row'[e] /\ run[r].pc = "pending"
          /\ run'[r].pc = IF o.status = "failed" THEN "judge" ELSE "over"
      BY <1>5, <2>1, <2>2 DEF FlushWrite, Others, RunsTypeOK, RunType
    <3>3. RunCurrent(r)'
      BY <2>1, <3>1, <3>2, SeesRow
    <3>4. LoopCurrent'
      BY <1>5, <2>2 DEF FlushWrite, LoopCurrent, LoopIdle
    <3> QED
      BY <1>2, <3>1, <3>2, <3>3, <3>4, OneRun DEF AllCurrent
  <2>3. CASE ~StillActive(e, o)
    <3>1. MovesOn
      BY <1>5, <2>3, NoWriteMoves DEF FlushWrite
    <3>2. RunsStayCurrent
      BY <1>5, <2>3, <3>1, IdleRuns DEF FlushWrite
    <3>3. LoopCurrent'
      BY <1>5, <2>3 DEF FlushWrite, LoopCurrent, LoopIdle
    <3> QED
      BY <1>2, <3>1, <3>2, <3>3 DEF AllCurrent
  <2> QED
    BY <2>2, <2>3
<1>6. CASE LoopRequeue
  <2> DEFINE q == Requeued(lo, FALSE)
             n == IF loop.pc = "retry" THEN [q EXCEPT !.due = FALSE] ELSE q
  <2>1. q \in RowType /\ q.status = "queued"
    BY <1>0, RequeuedType DEF Requeued, RowType
  <2>2. n \in RowType /\ n.status = "queued"
    BY <2>1 DEF RowType
  <2>3. Requeueable(le, lo.status, lo.ver) => row[le].status \in Active \cup {"failed"}
    BY <1>6 DEF LoopRequeue, LoopCurrent, Requeueable, Active
  <2>4. MovesOn
    <3>1. CASE Requeueable(le, lo.status, lo.ver)
      <4>1. RequeueRow(le, n)
        BY <1>6, <3>1 DEF LoopRequeue
      <4> QED
        BY <1>0, <2>2, <2>3, <3>1, <4>1, RequeueMoves
    <3>2. CASE ~Requeueable(le, lo.status, lo.ver)
      BY <1>6, <3>2, NoWriteMoves DEF LoopRequeue
    <3> QED
      BY <3>1, <3>2
  <2> QED
    BY <1>0, <1>2, <1>6, <2>4, IdleRuns DEF AllCurrent, LoopRequeue, LoopCurrent, runVars
<1>7. CASE StaleJudge \/ StaleFail \/ FlushHandled
  <2>1. MovesOn
    BY <1>7, NoWriteMoves DEF StaleJudge, StaleFail, FlushHandled
  <2>2. RunsStayCurrent
    BY <1>7, <2>1, IdleRuns DEF StaleJudge, StaleFail, FlushHandled, runVars
  <2>3. LoopCurrent'
    <3>1. CASE StaleJudge
      BY <1>0, <3>1 DEF StaleJudge, LoopCurrent, LoopType
    <3>2. CASE StaleFail
      <4> DEFINE f == [Current(le, lo) EXCEPT !.status = "failed"]
                 n == IF loop.hold THEN Held(f) ELSE f
      <4>1. n.status = "failed"
        BY <1>0, LoopViewTypes DEF Held, RowType
      <4>2. \/ loop' = [loop EXCEPT !.pc = "stalefree"]
            \/ loop' = [loop EXCEPT !.pc = "stalewrite", !.obj = n]
        BY <3>2 DEF StaleFail
      <4> QED
        BY <1>0, <4>1, <4>2 DEF LoopCurrent, LoopType
    <3>3. CASE FlushHandled
      BY <1>0, <3>3 DEF FlushHandled, LoopCurrent
    <3> QED
      BY <1>7, <3>1, <3>2, <3>3
  <2> QED
    BY <1>2, <2>1, <2>2, <2>3 DEF AllCurrent
<1>8. CASE StaleWrite
  <2>1. lo.status = "failed"
    BY <1>8 DEF StaleWrite, LoopCurrent
  <2>2. MovesOn
    BY <1>0, <1>8, <2>1, WriteMoves, NoWriteMoves DEF StaleWrite, StillActive, Terminal
  <2> QED
    BY <1>0, <1>2, <1>8, <2>2, IdleRuns DEF AllCurrent, StaleWrite, LoopCurrent, LoopType, runVars
<1>9. CASE StaleFree \/ StaleFinishRef
  <2>1. row' = row /\ \A x \in Execs : ref'[x] \in {ref[x], "none"}
    BY <1>9 DEF StaleFree, StaleFinishRef, FinishRefRow, StoreTypeOK
  <2>2. MovesOn
    BY <2>1, RefMoves
  <2> QED
    BY <1>0, <1>2, <1>9, <2>2, IdleRuns
    DEF AllCurrent, StaleFree, StaleFinishRef, LoopCurrent, LoopType, runVars
<1>10. CASE FlushRead
  <2>1. MovesOn
    BY <1>10, NoWriteMoves DEF FlushRead
  <2>2. ASSUME NEW x \in Runs
        PROVE  RunCurrent(x)'
    <3>1. run'[x] = run[x] \/ run'[x].pc = "over"
      BY <1>10 DEF FlushRead, NoLongerPending, RunsTypeOK, RunType
    <3> QED
      BY <2>1, <3>1, IdleRun, OverRun
  <2> QED
    BY <1>0, <1>2, <1>10, <2>1, <2>2 DEF AllCurrent, RunsStayCurrent, FlushRead, LoopCurrent
<1> QED
  BY <1>3, <1>4, <1>5, <1>6, <1>7, <1>8, <1>9, <1>10 DEF LoopStep

-----------------------------------------------------------------------------
(* Requests and the cleanup loop only ever run while the process is up.    *)
LEMMA RequestCurrent ==
  ASSUME TypeOK, TypeOK', ViewsCurrent, NEW q \in Reqs, AskStep(q) \/ RequestStep(q)
  PROVE  AllCurrent
<1> DEFINE e == req[q].exec
           o == req[q].obj
<1> USE DEF TypeOK, ViewsCurrent, storeVars
<1>0. /\ e \in Execs /\ o \in RowType /\ row[e] \in RowType
  BY ReqViewTypes
<1>1. mgr = "up" /\ UNCHANGED <<mgr, orphans, loop>>
  <2>1. CASE AskStep(q)
    BY <2>1 DEF AskStep, AskCancel, AskDelete, AskRetry, AskResume, AskDrop, PauseQueue, View, Ask, Asked
  <2>2. CASE RequestStep(q)
    <3>1. req[q].pc # "idle" /\ UNCHANGED <<mgr, orphans, loop>>
      BY <2>2 DEF RequestStep, CancelWrite, CancelStop, CancelFree, DeleteExecution, DropNext,
                  DropScheduler, PersonRequeue
    <3> QED
      BY <3>1 DEF StartCurrent
  <2> QED
    BY <2>1, <2>2
<1>2. LoopCurrent'
  BY <1>1 DEF LoopCurrent
<1>3. UNCHANGED sched /\ MovesOn => StartCurrent'
  BY <1>1, StartStays
<1>4. run' = run \/ \E S : run' = Signalled(S)
  <2>1. CASE AskStep(q)
    BY <2>1 DEF AskStep, AskCancel, AskDelete, AskRetry, AskResume, AskDrop, PauseQueue, View, Ask, runVars
  <2>2. CASE RequestStep(q)
    BY <2>2 DEF RequestStep, CancelWrite, CancelStop, CancelFree, DeleteExecution, DropNext,
                DropScheduler, PersonRequeue, runVars
  <2> QED
    BY <2>1, <2>2
<1>5. MovesOn /\ StartCurrent' => AllCurrent
  BY <1>2, <1>4, IdleRuns DEF AllCurrent
<1>6. CASE AskStep(q)
  <2>1. MovesOn
    BY <1>6, ViewMoves, NoWriteMoves
    DEF AskStep, AskCancel, AskDelete, AskRetry, AskResume, AskDrop, PauseQueue, View, Ask
  <2>2. UNCHANGED sched
    BY <1>6 DEF AskStep, AskCancel, AskDelete, AskRetry, AskResume, AskDrop, PauseQueue, View, Ask, runVars
  <2> QED
    BY <1>3, <1>5, <2>1, <2>2
<1>7. CASE CancelWrite(q) \/ CancelStop(q) \/ CancelFree(q)
  <2>1. UNCHANGED sched
    BY <1>7 DEF CancelWrite, CancelStop, CancelFree, runVars
  <2>2. CASE CancelWrite(q)
    BY <1>0, <1>3, <1>5, <2>1, <2>2, CancelMoves, NoWriteMoves DEF CancelWrite
  <2>3. CASE CancelStop(q)
    BY <1>3, <1>5, <2>1, <2>3, NoWriteMoves DEF CancelStop
  <2>4. CASE CancelFree(q)
    <3>1. row' = row /\ \A x \in Execs : ref'[x] \in {ref[x], "none"}
      BY <2>4 DEF CancelFree, FinishRefRow, StoreTypeOK
    <3> QED
      BY <1>3, <1>5, <2>1, <3>1, RefMoves
  <2> QED
    BY <1>7, <2>2, <2>3, <2>4
<1>8. CASE DeleteExecution(q) \/ DropNext(q)
  <2>1. MovesOn
    BY <1>8, DeleteMoves, NoWriteMoves DEF DeleteExecution, DropNext
  <2>2. UNCHANGED sched
    BY <1>8 DEF DeleteExecution, DropNext, runVars
  <2> QED
    BY <1>3, <1>5, <2>1, <2>2
<1>9. CASE DropScheduler(q)
  <2>1. MovesOn
    BY <1>9, DeleteMoves DEF DropScheduler
  <2>2. \A x \in Execs : ~Present(x)'
    BY <1>9 DEF DropScheduler, DeleteRows, NoRow, Present
  <2>3. StartCurrent'
    BY <1>1, <2>2 DEF StartCurrent
  <2> QED
    BY <1>5, <2>1, <2>3
<1>10. CASE PersonRequeue(q)
  <2> DEFINE f == [Requeued(o, TRUE) EXCEPT !.held = FALSE, !.due = FALSE]
             g == [Requeued(o, FALSE) EXCEPT !.held = FALSE, !.due = FALSE, !.count = @ + 1]
             n == IF req[q].op = "resume" THEN f ELSE g
  <2>1. /\ Requeued(o, TRUE) \in RowType /\ Requeued(o, FALSE) \in RowType
        /\ Requeued(o, TRUE).status = "queued" /\ Requeued(o, FALSE).status = "queued"
    BY <1>0, RequeuedType DEF Requeued, RowType
  <2>2. f \in RowType /\ f.status = "queued"
    BY <2>1 DEF RowType
  <2>3. g \in RowType /\ g.status = "queued"
    <3>1. ASSUME NEW p \in RowType, p.status = "queued"
          PROVE  /\ [p EXCEPT !.held = FALSE, !.due = FALSE, !.count = @ + 1] \in RowType
                 /\ [p EXCEPT !.held = FALSE, !.due = FALSE, !.count = @ + 1].status = "queued"
      <4>1. p.count + 1 \in Nat
        BY DEF RowType
      <4> QED
        BY <3>1, <4>1 DEF RowType
    <3> QED
      BY <2>1, <3>1
  <2>4. UNCHANGED sched
    BY <1>10 DEF PersonRequeue, runVars
  <2>5. CASE Requeueable(e, "failed", o.ver)
    <3>1. RequeueRow(e, n)
      BY <1>10, <2>5 DEF PersonRequeue
    <3>2. n \in RowType /\ n.status = "queued"
      BY <2>2, <2>3
    <3>3. row[e].status \in Active \cup {"failed"}
      BY <2>5 DEF Requeueable
    <3>4. MovesOn
      BY <1>0, <3>1, <3>2, <3>3, RequeueMoves
    <3> QED
      BY <1>3, <1>5, <2>4, <3>4
  <2>6. CASE ~Requeueable(e, "failed", o.ver)
    BY <1>3, <1>5, <1>10, <2>4, <2>6, NoWriteMoves DEF PersonRequeue
  <2> QED
    BY <2>5, <2>6
<1> QED
  BY <1>6, <1>7, <1>8, <1>9, <1>10 DEF RequestStep

-----------------------------------------------------------------------------
(* Stopping and starting.  A dispatcher that stop cancels goes on to read  *)
(* its row, or leaves through the finally block with the cancellation      *)
(* raised again, and settles no failure; after a crash there is none.      *)
LEMMA StopCurrent ==
  ASSUME TypeOK, TypeOK', ViewsCurrent, Stop
  PROVE  AllCurrent
<1> USE DEF TypeOK, ViewsCurrent
<1>1. MovesOn
  BY NoWriteMoves DEF Stop, storeVars
<1>2. ASSUME NEW x \in Runs
      PROVE  RunCurrent(x)'
  <2>1. run[x] \in RunType /\ run'[x] = Interruption(run[x]) /\ RunCurrent(x)
    BY <1>2 DEF Stop, RunsTypeOK
  <2>2. CASE run[x].pc \in InDispatch \cup {"reread"}
    <3> DEFINE s == run[x].stop \/ run[x].work = "going"
               w == IF run[x].work = "held" \/ (run[x].work = "going" /\ run[x].exec \notin Workflow)
                    THEN "ended" ELSE run[x].work
    <3>1. run'[x] = [run[x] EXCEPT !.pc = "intread", !.exit = "raise", !.stop = s, !.work = w]
      BY <2>1, <2>2 DEF Interruption
    <3> HIDE DEF s, w
    <3>2. run'[x].pc = "intread" /\ run'[x].exec = run[x].exec /\ run'[x].obj = run[x].obj
      BY <2>1, <3>1 DEF RunType
    <3> QED
      BY <1>1, <2>1, <2>2, <3>2, GoesOn DEF InDispatch, Settling
  <2>3. CASE run[x].pc \in Unwinding
    <3>1. /\ run'[x].pc = "release" /\ run'[x].exit # "settle"
          /\ run'[x].exec = run[x].exec /\ run'[x].obj = run[x].obj
      BY <2>1, <2>3 DEF Interruption, Unwinding, RunType, InDispatch
    <3> QED
      BY <1>1, <2>1, <2>3, <3>1, GoesOn DEF Settling, Unwinding
  <2>4. CASE run[x].pc \notin InDispatch \cup {"reread"} \cup Unwinding
    <3>1. run'[x].pc \in {"unused", "over"}
      BY <2>1, <2>4 DEF Interruption, RunType
    <3> QED
      BY <3>1, OverRun
  <2> QED
    BY <2>2, <2>3, <2>4
<1>3. LoopCurrent'
  BY DEF Stop, LoopCurrent, LoopIdle
<1>4. StartCurrent'
  BY DEF Stop, StartCurrent, storeVars, Present
<1> QED
  BY <1>1, <1>2, <1>3, <1>4 DEF AllCurrent, RunsStayCurrent

(* A process that ends leaves no view behind.                              *)
LEMMA GoneCurrent ==
  ASSUME TypeOK, TypeOK', ViewsCurrent, Gone
  PROVE  AllCurrent
<1> USE DEF TypeOK, ViewsCurrent
<1>1. MovesOn
  BY NoWriteMoves DEF Gone, storeVars
<1>2. ASSUME NEW x \in Runs
      PROVE  RunCurrent(x)'
  <2>1. run'[x].pc \in {"unused", "over"}
    <3> DEFINE w == IF run[x].work = "none" THEN run[x].work ELSE "ended"
    <3>1. run'[x] = IF run[x].pc = "unused" THEN run[x] ELSE [run[x] EXCEPT !.pc = "over", !.work = w]
      BY DEF Gone
    <3> HIDE DEF w
    <3> QED
      BY <3>1 DEF RunsTypeOK, RunType
  <2> QED
    BY <2>1, OverRun
<1>3. LoopCurrent'
  BY DEF Gone, LoopCurrent, LoopIdle
<1>4. StartCurrent'
  BY DEF Gone, StartCurrent, ReqIdle, storeVars, Present
<1> QED
  BY <1>1, <1>2, <1>3, <1>4 DEF AllCurrent, RunsStayCurrent

(* Every step of start, which settles what the last process left.          *)
LEMMA StartupCurrent ==
  ASSUME TypeOK, TypeOK', ViewsCurrent,
         Start \/ Started \/ \E e \in Execs : SettleOrphan(e) \/ RefOrphan(e)
  PROVE  AllCurrent
<1> USE DEF TypeOK, ViewsCurrent
<1>1. UNCHANGED <<run, loop, req, sched>> /\ LoopCurrent'
  BY DEF Start, Started, SettleOrphan, RefOrphan, runVars, managerVars, LoopCurrent
<1>2. MovesOn => RunsStayCurrent
  BY <1>1, IdleRuns
<1>3. CASE Start
  <2>1. MovesOn
    BY <1>3, RefMoves DEF Start, RequeueRunningRefs, StoreTypeOK
  <2>2. StartCurrent'
    BY <1>1, <1>3 DEF Start, RequeueRunningRefs, StartCurrent, Present
  <2> QED
    BY <1>1, <1>2, <2>1, <2>2 DEF AllCurrent
<1>4. CASE Started
  <2>1. MovesOn
    BY <1>4, NoWriteMoves DEF Started, storeVars
  <2>2. StartCurrent'
    BY <1>1, <1>4 DEF Started, StartCurrent, storeVars, Present
  <2> QED
    BY <1>1, <1>2, <2>1, <2>2 DEF AllCurrent
<1>5. ASSUME NEW e \in Execs, SettleOrphan(e)
      PROVE  AllCurrent
  <2> DEFINE f == [row[e] EXCEPT !.status = "failed"]
             q == Requeued(row[e], FALSE)
  <2>1. row[e] \in RowType /\ row[e].status = "running" /\ mgr = "starting"
    BY <1>5 DEF StoreTypeOK, SettleOrphan, StartCurrent
  <2>2. f \in RowType /\ f.status = "failed"
    BY <2>1 DEF RowType, Status, Terminal
  <2>3. Held(f) \in RowType /\ Held(f).status = "failed"
    BY <2>2 DEF RowType, Held
  <2>4. q \in RowType /\ q.status = "queued"
    BY <2>1, RequeuedType DEF Requeued, RowType
  <2>5. RequeueRow(e, q) \/ WriteRow(e, Held(f))
    BY <1>5 DEF SettleOrphan
  <2>6. MovesOn
    BY <2>1, <2>3, <2>4, <2>5, RequeueMoves, WriteMoves DEF IsActive, Active, Terminal
  <2>7. \A x \in Execs \ {e} : row'[x] = row[x]
    BY <2>5 DEF RequeueRow, WriteRow, StoreTypeOK
  <2>8. /\ sched /\ mgr' = mgr /\ orphans' = orphans \ {e}
        /\ \A x \in orphans : x \in Execs /\ row[x].status = "running"
    BY <1>5, <2>1 DEF SettleOrphan, StartCurrent, Present, ManagerTypeOK
  <2>9. StartCurrent'
    BY <1>1, <2>1, <2>7, <2>8 DEF StartCurrent
  <2> QED
    BY <1>1, <1>2, <2>6, <2>9 DEF AllCurrent
<1>6. ASSUME NEW e \in Execs, RefOrphan(e)
      PROVE  AllCurrent
  <2> DEFINE q == Requeued(row[e], FALSE)
  <2>1. row[e] \in RowType /\ row[e].status = "queued"
    BY <1>6 DEF StoreTypeOK, RefOrphan, OrphanedQueued
  <2>2. q \in RowType /\ q.status = "queued"
    BY <2>1, RequeuedType DEF Requeued, RowType
  <2>3. MovesOn
    BY <1>6, <2>1, <2>2, RequeueMoves DEF RefOrphan, Active
  <2>4. sched /\ orphans' = {} /\ mgr' = mgr
    BY <1>6, <2>1 DEF RefOrphan, StartCurrent, Present, managerVars
  <2>5. StartCurrent'
    BY <1>1, <2>4 DEF StartCurrent
  <2> QED
    BY <1>1, <1>2, <2>3, <2>5 DEF AllCurrent
<1> QED
  BY <1>3, <1>4, <1>5, <1>6

-----------------------------------------------------------------------------
(* The whole next-state relation.                                          *)
LEMMA InitCurrent == Init => ViewsCurrent
<1> SUFFICES ASSUME Init PROVE ViewsCurrent
  OBVIOUS
<1>1. \A r \in Runs : run[r].pc = "unused"
  BY DEF Init, RunsInit, NewRun
<1>2. RefMatchesRow
  BY DEF Init, StoreInit, RefMatchesRow
<1>3. LoopCurrent /\ StartCurrent
  BY DEF Init, LoopCurrent, StartCurrent, LoopIdle, RunsInit
<1> QED
  BY <1>1, <1>2, <1>3 DEF ViewsCurrent, RunCurrent

(* Every step of the task center keeps the inductive invariant.            *)
LEMMA NextCurrent ==
  ASSUME TypeOK, TypeOK', ViewsCurrent, [Next]_vars
  PROVE  AllCurrent
<1> USE DEF TypeOK, ViewsCurrent
<1>1. ASSUME NEW e \in Execs, Create(e)
      PROVE  AllCurrent
  <2>1. MovesOn /\ UNCHANGED <<run, loop, req, mgr, orphans, sched>>
    BY <1>1, CreateMoves DEF Create, runVars, managerVars
  <2>2. StartCurrent'
    BY <1>1, <2>1, StartStays DEF Create
  <2> QED
    BY <2>1, <2>2, IdleRuns DEF AllCurrent, LoopCurrent
<1>2. ASSUME NEW e \in Execs, LoseClaim(e)
      PROVE  AllCurrent
  <2>1. RunsStayCurrent
    BY <1>2, ClaimCurrent DEF LoseClaim, MayDequeue
  <2>2. UNCHANGED <<loop, req, mgr, orphans, sched>> /\ mgr = "up"
    BY <1>2 DEF LoseClaim, LoopFree
  <2>3. StartCurrent'
    BY <2>1, <2>2, StartStays DEF RunsStayCurrent
  <2> QED
    BY <2>1, <2>2, <2>3 DEF AllCurrent, LoopCurrent
<1>3. ASSUME NEW e \in Execs, Expire(e)
      PROVE  AllCurrent
  <2>1. MovesOn /\ UNCHANGED <<run, loop, req, mgr, orphans, sched>>
    BY <1>3, ExpireMoves DEF Expire, runVars, managerVars
  <2>2. StartCurrent'
    BY <1>3, <2>1, StartStays DEF Expire
  <2> QED
    BY <2>1, <2>2, IdleRuns DEF AllCurrent, LoopCurrent
<1>4. ASSUME NEW r \in Runs, RunProgress(r) \/ FailSave(r)
      PROVE  AllCurrent
  <2>1. RunsStayCurrent
    BY <1>4, RunStepCurrent, FailSaveCurrent DEF RunProgress, FailSave
  <2>2. UNCHANGED <<loop, req, mgr, orphans>> /\ mgr \in {"up", "stopping"}
    BY <1>4 DEF RunProgress, FailSave, Running, managerVars
  <2>3. UNCHANGED sched
    <3>1. CASE FailSave(r)
      BY <3>1 DEF FailSave, SaveFails
    <3>2. CASE RunProgress(r)
      BY <3>2 DEF RunProgress, RunStep, ReadScheduler, DispatchFails, StartSession, Register, Check, Open,
                  StartEffect, WorkEnds, EndWork, Interrupted, AbsoluteTimeout, GuardTimeout, GuardCancel,
                  LateWorkEnds, Save, Reread, Fail, FailWrite, InterruptRead, InterruptJudge,
                  InterruptRequeue, Release, FinishRef, Judge, Settle
    <3> QED
      BY <1>4, <3>1, <3>2
  <2>4. StartCurrent'
    BY <2>1, <2>2, <2>3, StartStays DEF RunsStayCurrent
  <2> QED
    BY <2>1, <2>2, <2>4 DEF AllCurrent, LoopCurrent
<1>5. CASE LoopStep
  BY <1>5, LoopStepCurrent
<1>6. ASSUME NEW q \in Reqs, AskStep(q) \/ RequestStep(q)
      PROVE  AllCurrent
  BY <1>6, RequestCurrent
<1>7. CASE Stop
  BY <1>7, StopCurrent
<1>8. CASE Quit \/ Crash
  BY <1>8, GoneCurrent DEF Quit, Crash
<1>9. CASE Start \/ Started \/ \E e \in Execs : SettleOrphan(e) \/ RefOrphan(e)
  BY <1>9, StartupCurrent
<1>10. CASE ResumeQueue \/ UNCHANGED vars
  <2>1. UNCHANGED <<storeVars, run, loop, req, mgr, orphans, sched>>
    BY <1>10 DEF ResumeQueue, vars, runVars, managerVars
  <2>2. MovesOn
    BY <2>1, NoWriteMoves DEF storeVars
  <2> QED
    BY <2>1, <2>2, IdleRuns DEF AllCurrent, LoopCurrent, StartCurrent, Present, storeVars
<1> QED
  BY <1>1, <1>2, <1>3, <1>4, <1>5, <1>6, <1>7, <1>8, <1>9, <1>10 DEF Next

-----------------------------------------------------------------------------
(* Every object a dispatcher, the loop or start will still write by is as  *)
(* current as its write needs it to be.                                    *)
THEOREM ViewsStayCurrent == Spec => []ViewsCurrent
<1>1. TypeOK /\ TypeOK' /\ ViewsCurrent /\ [Next]_vars => ViewsCurrent'
  BY NextCurrent DEF AllCurrent, RunsStayCurrent, MovesOn, ViewsCurrent
<1> QED
  BY <1>1, TypeCorrect, InitCurrent, PTL DEF Spec

(* A queue reference never outlives the state of its execution: nothing    *)
(* that has finished can be claimed again.                                 *)
THEOREM RefsMatchRows == Spec => []RefMatchesRow
<1>1. ViewsCurrent => RefMatchesRow
  BY DEF ViewsCurrent
<1> QED
  BY <1>1, ViewsStayCurrent, PTL

(* A finished execution stays finished, through late results, stale        *)
(* snapshots, recovery, crashes and restarts.                              *)
THEOREM FinishedStaysFinished == Spec => FinalStatus
<1> DEFINE Stays == \A e \in Execs :
             /\ row[e].status \in {"completed", "cancelled"} =>
                  row'[e].status \in {row[e].status, "deleted"}
             /\ row[e].status = "failed" => row'[e].status \in {"failed", "queued", "deleted"}
<1>1. TypeOK /\ TypeOK' /\ ViewsCurrent /\ [Next]_vars => [Stays]_vars
  <2>1. MovesOn => Stays
    BY DEF MovesOn, RowStep
  <2> QED
    BY <2>1, NextCurrent DEF AllCurrent, RunsStayCurrent
<1> QED
  BY <1>1, TypeCorrect, ViewsStayCurrent, PTL DEF Spec, FinalStatus

-----------------------------------------------------------------------------
(* The fences.                                                             *)

(* What a write of a whole row leaves in the store.                        *)
LEMMA WriteFields ==
  ASSUME StoreTypeOK, NEW e \in Execs, NEW o \in RowType, WriteRow(e, o)
  PROVE  /\ \A x \in Execs \ {e} : row'[x] = row[x]
         /\ row'[e].status = o.status /\ row'[e].started = o.started /\ row'[e].sess = o.sess
         /\ row'[e].due = o.due /\ row'[e].held = o.held /\ row'[e].ver = row[e].ver + 1
BY DEF StoreTypeOK, WriteRow, RowType

(* What queueing an object again leaves in the store.                      *)
LEMMA RequeueFields ==
  ASSUME StoreTypeOK, NEW e \in Execs, NEW o \in RowType, RequeueRow(e, o)
  PROVE  /\ \A x \in Execs \ {e} : row'[x] = row[x]
         /\ row'[e].status = o.status /\ row'[e].started = o.started /\ row'[e].sess = o.sess
         /\ row'[e].due = o.due /\ row'[e].held = o.held /\ row'[e].ver = row[e].ver + 1
BY DEF StoreTypeOK, RequeueRow, RowType

(* What recovery and a retry queue again: without a start time, marks and  *)
(* count as they were.                                                     *)
LEMMA RequeuedFields ==
  ASSUME NEW o \in RowType, NEW k \in BOOLEAN
  PROVE  /\ Requeued(o, k) \in RowType /\ Requeued(o, k).status = "queued" /\ Requeued(o, k).started = 0
         /\ Requeued(o, k).due = o.due /\ Requeued(o, k).held = o.held /\ Requeued(o, k).count = o.count
BY DEF Requeued, RowType, Status, Active, Terminal

(* What a person queues again: with a retry counted, or with its session.  *)
SentAgain(o, op) ==
  IF op = "resume"
  THEN [Requeued(o, TRUE) EXCEPT !.held = FALSE, !.due = FALSE]
  ELSE [Requeued(o, FALSE) EXCEPT !.held = FALSE, !.due = FALSE, !.count = @ + 1]

(* What a person queues again: without a start time and without marks.     *)
LEMMA SentAgainFields ==
  ASSUME NEW o \in RowType, NEW op
  PROVE  /\ SentAgain(o, op) \in RowType
         /\ SentAgain(o, op).status = "queued" /\ SentAgain(o, op).started = 0
         /\ ~SentAgain(o, op).due /\ ~SentAgain(o, op).held
<1>1. ASSUME NEW p \in RowType, p.status = "queued", p.started = 0,
             NEW n, n \in {[p EXCEPT !.held = FALSE, !.due = FALSE],
                           [p EXCEPT !.held = FALSE, !.due = FALSE, !.count = @ + 1]}
      PROVE  n \in RowType /\ n.status = "queued" /\ n.started = 0 /\ ~n.due /\ ~n.held
  <2>1. p.count + 1 \in Nat
    BY DEF RowType
  <2> QED
    BY <1>1, <2>1 DEF RowType
<1> QED
  BY <1>1, RequeuedFields DEF SentAgain

(* What recording the session leaves in the store: a start time is only    *)
(* set where there was none.                                               *)
LEMMA StartFields ==
  ASSUME StoreTypeOK, NEW e \in Execs, NEW s \in Nat, NEW t \in Nat, StartRow(e, s, t)
  PROVE  /\ \A x \in Execs \ {e} : row'[x] = row[x]
         /\ row'[e].status = "running" /\ row'[e].sess = s
         /\ row'[e].started = (IF row[e].started = 0 THEN t ELSE row[e].started)
         /\ row'[e].due = row[e].due /\ row'[e].held = row[e].held
BY DEF StoreTypeOK, StartRow, RowType

(* What a claim leaves in the store.                                       *)
LEMMA ClaimFields ==
  ASSUME StoreTypeOK, NEW e \in Execs, NEW t \in Nat, ClaimRow(e, t)
  PROVE  /\ \A x \in Execs \ {e} : row'[x] = row[x]
         /\ row'[e].status = "running" /\ row'[e].sess = row[e].sess
         /\ row'[e].started = (IF row[e].started = 0 THEN t ELSE row[e].started)
         /\ row'[e].due = row[e].due /\ row'[e].held = row[e].held
BY DEF StoreTypeOK, ClaimRow, RowType

(* What cancelling and expiring a row leave in the store.                  *)
LEMMA CancelFields ==
  ASSUME StoreTypeOK, NEW e \in Execs, CancelRow(e) \/ ExpireRow(e)
  PROVE  /\ \A x \in Execs \ {e} : row'[x] = row[x]
         /\ row'[e].status = "cancelled" /\ row'[e].sess = row[e].sess
         /\ row'[e].started = row[e].started
BY DEF StoreTypeOK, CancelRow, ExpireRow, RowType

(* Marking a row as viewed changes nothing but its version.                *)
LEMMA ViewFields ==
  ASSUME StoreTypeOK, NEW e \in Execs, ViewRow(e)
  PROVE  /\ \A x \in Execs \ {e} : row'[x] = row[x]
         /\ row'[e].status = row[e].status /\ row'[e].started = row[e].started
         /\ row'[e].sess = row[e].sess /\ row'[e].due = row[e].due /\ row'[e].held = row[e].held
         /\ row'[e].ver = row[e].ver + 1
BY DEF StoreTypeOK, ViewRow, RowType

(* What creating an execution leaves in the store.                         *)
LEMMA CreateFields ==
  ASSUME StoreTypeOK, NEW e \in Execs, CreateRow(e)
  PROVE  /\ \A x \in Execs \ {e} : row'[x] = row[x]
         /\ row[e].status = "new" /\ row'[e].status = "queued" /\ row'[e].started = 0
         /\ ~row'[e].due /\ ~row'[e].held
BY DEF StoreTypeOK, CreateRow, NoRow

(* What deleting rows leaves in the store.                                 *)
LEMMA DeleteFields ==
  ASSUME StoreTypeOK, NEW S, DeleteRows(S)
  PROVE  \A x \in Execs : IF x \in S THEN row'[x] = NoRow("deleted") ELSE row'[x] = row[x]
BY DEF DeleteRows

-----------------------------------------------------------------------------
(* A run of which a step only asks the work to stop stays fenced.          *)
LEMMA FenceIdle ==
  ASSUME TypeOK, MovesOn, NEW x \in Runs, Fenced(x), claims' \in Nat, claims' >= claims,
         mgr' \in {"down", "starting"} => mgr \in {"down", "starting"},
         run'[x].exec = run[x].exec, run'[x].pc = run[x].pc, run'[x].obj = run[x].obj,
         run'[x].sess = run[x].sess, run'[x].work = run[x].work, run'[x].eff = run[x].eff,
         run[x].stop => run'[x].stop
  PROVE  Fenced(x)'
<1>1. x \in Nat /\ claims \in Nat /\ run[x].exec \in Execs
  BY MaxClaimsAssumption, ViewTypes DEF TypeOK, RunsTypeOK, Runs
<1>2. row[run[x].exec].status # "new" => row'[run[x].exec].status # "new"
  BY <1>1 DEF MovesOn, RowStep, Active, Terminal
<1> QED
  BY <1>1, <1>2 DEF Fenced, Live

(* The runs a step does not take, but perhaps tells to stop.               *)
Idle(x) == /\ run'[x].exec = run[x].exec /\ run'[x].pc = run[x].pc /\ run'[x].obj = run[x].obj
           /\ run'[x].exit = run[x].exit /\ run'[x].sess = run[x].sess
           /\ run'[x].work = run[x].work /\ run'[x].eff = run[x].eff
           /\ run[x].stop => run'[x].stop
(* No run but r is moved.                                                  *)
Alone(r) == \A x \in Runs \ {r} : Idle(x)

(* Asking the work to stop leaves the rest of a run alone.                 *)
LEMMA SignalledIdle ==
  ASSUME RunsTypeOK, NEW S, NEW x \in Runs, run'[x] = Signalled(S)[x]
  PROVE  Idle(x)
BY DEF Idle, Signalled, RunsTypeOK, RunType

(* A whole-row write is of an object that is not queued, or not started.   *)
LEMMA WriteUnstarted ==
  ASSUME StoreTypeOK, QueuedUnstarted, NEW e \in Execs, NEW o \in RowType, o.status # "queued" \/ o.started = 0,
         WriteRow(e, o) \/ RequeueRow(e, o)
  PROVE  QueuedUnstarted'
BY WriteFields, RequeueFields DEF QueuedUnstarted

(* Ending the work of a run keeps it fenced.                               *)
LEMMA EndWorkFenced ==
  ASSUME TypeOK, MovesOn, NEW r \in Runs, Fenced(r), UNCHANGED <<mgr, claims>>,
         run[r].pc \in {"check", "open", "work"}, NEW s, EndWork(r, s)
  PROVE  Alone(r) /\ Fenced(r)'
<1>1. run[r] \in RunType /\ run \in [Runs -> RunType] /\ run[r].exec \in Execs
  BY ViewTypes DEF TypeOK, RunsTypeOK
<1>2. row[run[r].exec].status # "new" => row'[run[r].exec].status # "new"
  BY <1>1 DEF MovesOn, RowStep, Active, Terminal
<1>3. Alone(r)
  BY <1>1 DEF EndWork, Alone, Idle
<1>4. /\ run'[r].exec = run[r].exec /\ run'[r].pc = "save" /\ run'[r].work = "ended" 
      /\ run'[r].obj = [run[r].obj EXCEPT !.status = s] /\ run'[r].sess = run[r].sess
      /\ run'[r].exit = run[r].exit
  BY <1>1 DEF EndWork, RunType
<1> QED
  BY <1>1, <1>2, <1>3, <1>4 DEF Fenced, Live, RunType, RowType, FirstObject, InDispatch

(* So does an interrupt of its dispatcher.                                 *)
LEMMA InterruptedFenced ==
  ASSUME TypeOK, MovesOn, NEW r \in Runs, Fenced(r), UNCHANGED <<mgr, claims>>,
         run[r].pc \in {"check", "open", "work"}, Interrupted(r)
  PROVE  Alone(r) /\ Fenced(r)'
<1>1. run[r] \in RunType /\ run \in [Runs -> RunType] /\ run[r].exec \in Execs
  BY ViewTypes DEF TypeOK, RunsTypeOK
<1>2. row[run[r].exec].status # "new" => row'[run[r].exec].status # "new"
  BY <1>1 DEF MovesOn, RowStep, Active, Terminal
<1>3. Alone(r)
  BY <1>1 DEF Interrupted, Alone, Idle
<1>4. /\ run'[r].exec = run[r].exec /\ run'[r].pc = "intread" /\ run'[r].work = "ended"
      /\ run'[r].obj = run[r].obj
  BY <1>1 DEF Interrupted, RunType
<1> QED
  BY <1>1, <1>2, <1>3, <1>4 DEF Fenced, Live, RunType, FirstObject, InDispatch

(* So does every step of its dispatcher, which moves no other run.         *)
LEMMA RunStepFenced ==
  ASSUME TypeOK, ViewsCurrent, FencesHold, MovesOn, NEW r \in Runs,
         UNCHANGED <<mgr, claims>>, RunStep(r)
  PROVE  Alone(r) /\ Fenced(r)'
<1> DEFINE e == run[r].exec
           o == run[r].obj
<1>0. /\ run[r] \in RunType /\ run \in [Runs -> RunType] /\ Fenced(r) /\ e \in Execs /\ o \in RowType
      /\ r \in Nat /\ r # 0 /\ RunCurrent(r)
  BY ViewTypes DEF TypeOK, RunsTypeOK, FencesHold, Runs, ViewsCurrent
<1>1. row[e].status # "new" => row'[e].status # "new"
  BY <1>0 DEF MovesOn, RowStep, Active, Terminal
<1> USE DEF Fenced, Live, RunType, FirstObject, InDispatch, Alone, Idle
<1>2. CASE ReadScheduler(r)
  <2>1. CASE sched
    <3>1. run' = [run EXCEPT ![r].pc = "start",
                 ![r].obj = [o EXCEPT !.sess = IF e \in Workflow THEN 0 ELSE IF @ = 0 THEN r ELSE @]]
          /\ run[r].pc = "scheduler"
      BY <1>2, <2>1 DEF ReadScheduler
    <3> QED
      BY <1>0, <1>1, <3>1 DEF RowType
  <2>2. CASE ~sched
    <3>1. run' = [run EXCEPT ![r].pc = "over", ![r].obj = [o EXCEPT !.status = "failed"]]
          /\ run[r].pc = "scheduler"
      BY <1>2, <2>2 DEF ReadScheduler
    <3> QED
      BY <1>0, <1>1, <3>1 DEF RowType
  <2> QED
    BY <2>1, <2>2
<1>3. CASE DispatchFails(r) \/ Register(r) \/ StartEffect(r) \/ GuardTimeout(r)
  <2>1. CASE DispatchFails(r)
    BY <1>0, <1>1, <2>1 DEF DispatchFails
  <2>2. CASE Register(r)
    BY <1>0, <1>1, <2>2 DEF Register
  <2>3. CASE StartEffect(r)
    BY <1>0, <1>1, <2>3 DEF StartEffect
  <2>4. CASE GuardTimeout(r)
    BY <1>0, <1>1, <2>4 DEF GuardTimeout
  <2> QED
    BY <1>3, <2>1, <2>2, <2>3, <2>4
<1>4. CASE StartSession(r)
  <2>1. \E p \in {"register", "reread"} : run' = [run EXCEPT ![r].pc = p] /\ run[r].pc = "start"
    BY <1>4 DEF StartSession
  <2> QED
    BY <1>0, <1>1, <2>1
<1>5. CASE Check(r)
  BY <1>0, <1>1, <1>5, EndWorkFenced DEF Check
<1>6. CASE Open(r)
  BY <1>0, <1>1, <1>6, EndWorkFenced, InterruptedFenced DEF Open
<1>7. CASE WorkEnds(r)
  BY <1>0, <1>1, <1>7, EndWorkFenced, InterruptedFenced DEF WorkEnds
<1>8. CASE AbsoluteTimeout(r)
  BY <1>0, <1>1, <1>8 DEF AbsoluteTimeout, RowType
<1>9. CASE LateWorkEnds(r)
  BY <1>0, <1>1, <1>9 DEF LateWorkEnds
<1>10. CASE GuardCancel(r)
  <2> DEFINE s == Signalled(Reached(e, o.sess))
  <2>1. s \in [Runs -> RunType]
    BY SignalledType DEF TypeOK
  <2>2. \A x \in Runs : /\ s[x].exec = run[x].exec /\ s[x].pc = run[x].pc /\ s[x].obj = run[x].obj
                        /\ s[x].exit = run[x].exit /\ s[x].sess = run[x].sess
                        /\ s[x].work = run[x].work /\ s[x].eff = run[x].eff
                        /\ run[x].stop => s[x].stop
    BY <1>0 DEF Signalled
  <2>3. run' = [s EXCEPT ![r].pc = "fail"] /\ run[r].pc = "guard"
    BY <1>10 DEF GuardCancel
  <2> HIDE DEF s
  <2> QED
    BY <1>0, <1>1, <2>1, <2>2, <2>3
<1>11. CASE Save(r) \/ FailWrite(r)
  <2>1. /\ \/ run' = [run EXCEPT ![r].pc = "release", ![r].obj = row'[e]]
           \/ \E p \in {"reread", "failreread"} : run' = [run EXCEPT ![r].pc = p]
        /\ run[r].pc \in {"save", "failwrite"}
    BY <1>11 DEF Save, FailWrite
  <2> QED
    BY <1>0, <1>1, <2>1
<1>12. CASE Reread(r) \/ InterruptRead(r)
  <2>1. /\ \E p \in {"release", "intjudge"} : run' = [run EXCEPT ![r].pc = p, ![r].obj = Current(e, o)]
        /\ run[r].pc \in {"reread", "failreread", "intread"}
    BY <1>0, <1>12 DEF Reread, InterruptRead
  <2> QED
    BY <1>0, <1>1, <2>1
<1>13. CASE Fail(r)
  <2>1. /\ \E p \in {"release", "failwrite"}, n \in RowType : run' = [run EXCEPT ![r].pc = p, ![r].obj = n]
        /\ run[r].pc = "fail"
    <3> DEFINE c == Current(e, o)
               f == [c EXCEPT !.status = "failed"]
    <3>1. c \in RowType
      BY <1>0, ViewTypes DEF TypeOK
    <3>2. f \in RowType /\ Held(f) \in RowType
      BY <3>1 DEF RowType, Held, Status, Terminal
    <3> QED
      BY <1>13, <3>1, <3>2 DEF Fail
  <2> QED
    BY <1>0, <1>1, <2>1
<1>14. CASE InterruptJudge(r) \/ Release(r) \/ FinishRef(r) \/ Judge(r)
  <2>1. /\ \E p \in {"intrequeue", "fail", "finishref", "judge", "over", "hold", "later"} :
              run' = [run EXCEPT ![r].pc = p]
        /\ run[r].pc \in {"intjudge", "release", "finishref", "judge"}
    BY <1>14 DEF InterruptJudge, Release, FinishRef, Judge, Done
  <2> QED
    BY <1>0, <1>1, <2>1
<1>15. CASE InterruptRequeue(r)
  <2> DEFINE c == Current(e, Requeued(o, FALSE))
             y == IF c.status = "queued" THEN "requeued" ELSE run[r].exit
             z == row'[e]
  <2>1. run[r].pc = "intrequeue"
    BY <1>15 DEF InterruptRequeue
  <2>2. \/ run' = [run EXCEPT ![r].pc = "release", ![r].exit = "requeued", ![r].obj = z]
        \/ run' = [run EXCEPT ![r].pc = "release", ![r].obj = c, ![r].exit = y]
    BY <1>15 DEF InterruptRequeue
  <2> HIDE DEF c, y, z
  <2> QED
    BY <1>0, <1>1, <2>1, <2>2
<1>16. CASE Settle(r)
  BY <1>0, <1>1, <1>16 DEF Settle
<1> QED
  BY <1>2, <1>3, <1>4, <1>5, <1>6, <1>7, <1>8, <1>9, <1>10, <1>11, <1>12, <1>13, <1>14, <1>15, <1>16
  DEF RunStep

(* A dispatcher queues nothing with a start time.                          *)
LEMMA RunStepUnstarted ==
  ASSUME TypeOK, ViewsCurrent, QueuedUnstarted, NEW r \in Runs, RunStep(r) \/ \E a \in BOOLEAN : SaveFails(r, a)
  PROVE  QueuedUnstarted'
<1> DEFINE e == run[r].exec
           o == run[r].obj
<1> USE DEF storeVars
<1>0. /\ run[r] \in RunType /\ e \in Execs /\ o \in RowType /\ RunCurrent(r) /\ row \in [Execs -> RowType]
      /\ StoreTypeOK /\ r \in Nat
  BY ViewTypes DEF TypeOK, RunsTypeOK, ViewsCurrent, StoreTypeOK
<1>1. ASSUME NEW n \in RowType, n.status # "queued" \/ n.started = 0, WriteRow(e, n) \/ RequeueRow(e, n)
      PROVE  QueuedUnstarted'
  BY <1>0, <1>1, WriteFields, RequeueFields DEF QueuedUnstarted
<1>2. CASE ReadScheduler(r)
  <2>1. ~sched => ~Present(e)
    BY <1>0 DEF ViewsCurrent, StartCurrent
  <2> QED
    BY <1>2, <2>1 DEF ReadScheduler, QueuedUnstarted
<1>3. CASE StartSession(r)
  BY <1>0, <1>3, StartFields DEF StartSession, QueuedUnstarted, RowType
<1>4. CASE Save(r) \/ FailWrite(r) \/ \E a \in BOOLEAN : SaveFails(r, a)
  <2>1. o.status # "queued"
    BY <1>0, <1>4 DEF Save, FailWrite, SaveFails, RunCurrent, Terminal
  <2>2. UNCHANGED row \/ WriteRow(e, o)
    BY <1>4 DEF Save, FailWrite, SaveFails
  <2> QED
    BY <1>0, <1>1, <2>1, <2>2 DEF QueuedUnstarted
<1>5. CASE InterruptRequeue(r)
  <2>1. UNCHANGED row \/ RequeueRow(e, Requeued(o, FALSE))
    BY <1>5 DEF InterruptRequeue
  <2> QED
    BY <1>0, <1>1, <2>1, RequeuedFields DEF QueuedUnstarted
<1>6. CASE Settle(r)
  <2> DEFINE n == IF run[r].pc = "hold" THEN Held(o) ELSE [o EXCEPT !.count = @ + 1, !.due = TRUE]
  <2>1. n \in RowType /\ n.status # "queued"
    <3>1. o.status = "failed" /\ o.count + 1 \in Nat
      BY <1>0, <1>6 DEF Settle, RunCurrent, RowType
    <3> QED
      BY <1>0, <3>1 DEF Held, RowType
  <2>2. UNCHANGED row \/ WriteRow(e, n)
    BY <1>6 DEF Settle
  <2> QED
    BY <1>1, <2>1, <2>2 DEF QueuedUnstarted
<1>7. CASE UNCHANGED row
  BY <1>7 DEF QueuedUnstarted
<1> QED
  BY <1>2, <1>3, <1>4, <1>5, <1>6, <1>7
  DEF RunStep, DispatchFails, Register, Check, Open,
      StartEffect, WorkEnds, EndWork, Interrupted, AbsoluteTimeout, GuardTimeout, GuardCancel,
      LateWorkEnds, Reread, Fail, InterruptRead, InterruptJudge, Release, FinishRef, FinishRefRow, Judge
-----------------------------------------------------------------------------
(* Runs that are at most told to stop are idle.                            *)
LEMMA RunsIdle ==
  ASSUME RunsTypeOK, run' = run \/ \E S : run' = Signalled(S)
  PROVE  \A x \in Runs : Idle(x)
BY SignalledIdle DEF Idle, RunsTypeOK

(* A step that leaves the runs of S idle keeps them fenced.                *)
LEMMA FencesIdle ==
  ASSUME TypeOK, MovesOn, FencesHold, claims' = claims,
         mgr' \in {"down", "starting"} => mgr \in {"down", "starting"},
         NEW S, S \subseteq Runs, \A x \in S : Idle(x)
  PROVE  \A x \in S : Fenced(x)'
<1>1. claims' \in Nat /\ claims' >= claims
  BY MaxClaimsAssumption DEF TypeOK, RunsTypeOK
<1> QED
  BY <1>1, FenceIdle DEF Idle, FencesHold

(* A claim makes a fenced run, and its start time is its number.           *)
LEMMA ClaimFenced ==
  ASSUME TypeOK, TypeOK', FencesHold, MovesOn, NEW e \in Execs, claims < MaxClaims, Claimable(e),
         ClaimRow(e, claims + 1), NEW pc \in {"scheduler", "over"}, claims' = claims + 1,
         run' = [run EXCEPT ![claims + 1] = NewRun(e, row'[e], pc)], mgr' = "up"
  PROVE  FencesHold'
<1>1. PICK r \in Runs : r = claims + 1
  BY MaxClaimsAssumption DEF TypeOK, RunsTypeOK, Runs
<1>2. claims \in Nat /\ r \in Nat /\ r > 0 /\ StoreTypeOK
  BY <1>1, MaxClaimsAssumption DEF TypeOK, RunsTypeOK
<1>3. /\ row'[e].status = "running" /\ row'[e].started = r
      /\ \A x \in Execs \ {e} : row'[x] = row[x]
  BY <1>1, <1>2, ClaimFields DEF FencesHold, QueuedUnstarted, Claimable
<1>4. QueuedUnstarted'
  BY <1>3 DEF FencesHold, QueuedUnstarted
<1>5. \A x \in Runs \ {r} : run'[x] = run[x]
  BY <1>1 DEF TypeOK, RunsTypeOK
<1>6. \A x \in Runs \ {r} : Fenced(x)'
  BY <1>2, <1>5, FenceIdle, MaxClaimsAssumption DEF FencesHold, TypeOK, RunsTypeOK
<1>7. run'[r] = NewRun(e, row'[e], pc)
  BY <1>1 DEF TypeOK, RunsTypeOK
<1>8. Fenced(r)'
  BY <1>1, <1>2, <1>3, <1>7 DEF Fenced, NewRun, InDispatch
<1> QED
  BY <1>4, <1>6, <1>8 DEF FencesHold

(* Saving a result that was kept keeps the fences.                         *)
LEMMA FlushFenced ==
  ASSUME TypeOK, TypeOK', ViewsCurrent, FencesHold, MovesOn, NEW r \in Runs, FlushWrite(r)
  PROVE  FencesHold'
<1> DEFINE e == run[r].exec
           o == run[r].obj
<1>0. /\ run[r] \in RunType /\ run \in [Runs -> RunType] /\ e \in Execs /\ o \in RowType
      /\ StoreTypeOK /\ RunCurrent(r) /\ Fenced(r)
  BY ViewTypes DEF TypeOK, RunsTypeOK, ViewsCurrent, FencesHold
<1>1. o.status # "queued"
  BY <1>0 DEF FlushWrite, RunCurrent, Terminal
<1>2. QueuedUnstarted'
  <2>1. WriteRow(e, o) \/ row' = row
    BY DEF FlushWrite, storeVars
  <2> QED
    BY <1>0, <1>1, <2>1, WriteUnstarted DEF FencesHold, QueuedUnstarted
<1>3. CASE StillActive(e, o)
  <2>1. /\ run' = [run EXCEPT ![r].pc = IF o.status = "failed" THEN "judge" ELSE "over",
                              ![r].obj = row'[e]]
        /\ UNCHANGED <<claims, mgr>> /\ mgr = "up"
    BY <1>3 DEF FlushWrite, LoopFree
  <2>2. Alone(r)
    BY <1>0, <2>1 DEF Alone, Idle
  <2>3. Fenced(r)'
    <3>1. row[e].status # "new" => row'[e].status # "new"
      BY <1>0 DEF MovesOn, RowStep, Active, Terminal
    <3>2. run[r].pc = "pending"
      BY DEF FlushWrite
    <3> QED
      BY <1>0, <2>1, <3>1, <3>2 DEF Fenced, Live, RunType, FirstObject, InDispatch
  <2> QED
    BY <1>2, <2>1, <2>2, <2>3, FencesIdle DEF Alone, FencesHold
<1>4. CASE ~StillActive(e, o)
  <2>1. UNCHANGED <<run, claims, mgr>> /\ mgr = "up"
    BY <1>4 DEF FlushWrite, LoopFree
  <2> QED
    BY <1>2, <2>1, RunsIdle, FencesIdle DEF FencesHold, TypeOK
<1> QED
  BY <1>3, <1>4

(* So does giving such a result up.                                        *)
LEMMA NoLongerFenced ==
  ASSUME TypeOK, MovesOn, NEW x \in Runs, Fenced(x), UNCHANGED <<claims, mgr>>, mgr \in {"up", "stopping"},
         NEW e, run'[x] = NoLongerPending(x, e)
  PROVE  Fenced(x)'
<1>1. run[x] \in RunType /\ run[x].exec \in Execs
  BY ViewTypes DEF TypeOK
<1>2. row[run[x].exec].status # "new" => row'[run[x].exec].status # "new"
  BY <1>1 DEF MovesOn, RowStep, Active, Terminal
<1> QED
  BY <1>1, <1>2 DEF NoLongerPending, Fenced, Live, RunType, FirstObject, InDispatch

(* The execution loop keeps the fences.                                    *)
LEMMA LoopStepFenced ==
  ASSUME TypeOK, TypeOK', ViewsCurrent, FencesHold, MovesOn, LoopStep
  PROVE  FencesHold'
<1> USE DEF storeVars, LoopFree
<1>0. StoreTypeOK /\ loop.exec \in Execs /\ loop.obj \in RowType
  BY LoopViewTypes DEF TypeOK
<1>1. ASSUME NEW e \in Execs, Dequeue(e)
      PROVE  FencesHold'
  BY <1>1, ClaimFenced DEF Dequeue, MayDequeue, managerVars
<1>2. ASSUME NEW r \in Runs, FlushWrite(r)
      PROVE  FencesHold'
  BY <1>2, FlushFenced
<1>3. CASE FlushRead
  <2>1. /\ row' = row /\ UNCHANGED <<claims, mgr>> /\ mgr = "up"
        /\ \A x \in Runs : run'[x] = NoLongerPending(x, loop.exec)
    BY <1>3 DEF FlushRead
  <2> QED
    BY <2>1, NoLongerFenced DEF FencesHold, QueuedUnstarted
<1>4. ASSUME QueuedUnstarted', UNCHANGED <<claims, mgr>>, run' = run \/ \E S : run' = Signalled(S)
      PROVE  FencesHold'
  <2>1. \A x \in Runs : Idle(x)
    BY <1>4, RunsIdle DEF TypeOK
  <2> QED
    BY <1>4, <2>1, FencesIdle DEF FencesHold
<1>5. CASE LoopRequeue
  <2> DEFINE q == Requeued(loop.obj, FALSE)
             n == IF loop.pc = "retry" THEN [q EXCEPT !.due = FALSE] ELSE q
  <2>1. n \in RowType /\ n.started = 0
    BY <1>0, RequeuedFields DEF RowType
  <2>2. row' = row \/ RequeueRow(loop.exec, n)
    BY <1>5 DEF LoopRequeue
  <2> HIDE DEF n
  <2>3. QueuedUnstarted'
    BY <1>0, <2>1, <2>2, WriteUnstarted DEF FencesHold, QueuedUnstarted
  <2> QED
    BY <1>4, <1>5, <2>3 DEF LoopRequeue, runVars
<1>6. CASE StaleWrite
  <2>1. loop.obj.status = "failed"
    BY <1>6 DEF StaleWrite, ViewsCurrent, LoopCurrent
  <2>2. QueuedUnstarted'
    BY <1>0, <1>6, <2>1, WriteUnstarted DEF StaleWrite, FencesHold, QueuedUnstarted
  <2> QED
    BY <1>4, <1>6, <2>2 DEF StaleWrite, runVars
<1>7. CASE \/ \E e \in Execs : TakeRow(e) \/ TakeStale(e)
           \/ StaleJudge \/ StaleFail \/ StaleFree \/ StaleFinishRef \/ FlushHandled
  <2>1. row' = row /\ UNCHANGED <<claims, mgr>>
    BY <1>7 DEF TakeRow, TakeStale, StaleJudge, StaleFail, StaleFree, StaleFinishRef, FinishRefRow,
                FlushHandled, runVars
  <2>2. run' = run \/ \E S : run' = Signalled(S)
    BY <1>7 DEF TakeRow, TakeStale, StaleJudge, StaleFail, StaleFree, StaleFinishRef, FlushHandled, runVars
  <2> QED
    BY <1>4, <2>1, <2>2 DEF FencesHold, QueuedUnstarted
<1> QED
  BY <1>1, <1>2, <1>3, <1>5, <1>6, <1>7 DEF LoopStep

(* So do the requests of people.                                           *)
LEMMA RequestFenced ==
  ASSUME TypeOK, TypeOK', ViewsCurrent, FencesHold, MovesOn, NEW q \in Reqs, AskStep(q) \/ RequestStep(q)
  PROVE  FencesHold'
<1> DEFINE e == req[q].exec
           o == req[q].obj
<1> USE DEF storeVars
<1>0. StoreTypeOK /\ e \in Execs /\ o \in RowType
  BY ReqViewTypes DEF TypeOK
<1>1. /\ run' = run \/ \E S : run' = Signalled(S)
      /\ UNCHANGED <<claims, mgr>>
  <2>1. CASE AskStep(q)
    BY <2>1 DEF AskStep, AskCancel, AskDelete, AskRetry, AskResume, AskDrop, PauseQueue, View, Ask, runVars
  <2>2. CASE RequestStep(q)
    BY <2>2 DEF RequestStep, CancelWrite, CancelStop, CancelFree, DeleteExecution, DropNext,
                DropScheduler, PersonRequeue, runVars
  <2> QED
    BY <2>1, <2>2
<1>2. QueuedUnstarted'
  <2> USE DEF FencesHold, QueuedUnstarted
  <2>1. ASSUME NEW x \in Execs, ViewRow(x)
        PROVE  QueuedUnstarted'
    BY <1>0, <2>1, ViewFields
  <2>2. CASE CancelWrite(q)
    BY <1>0, <2>2, CancelFields DEF CancelWrite
  <2>3. ASSUME NEW S, DeleteRows(S)
        PROVE  QueuedUnstarted'
    BY <1>0, <2>3, DeleteFields DEF NoRow
  <2>4. CASE PersonRequeue(q)
    <3>1. row' = row \/ RequeueRow(e, SentAgain(o, req[q].op))
      BY <2>4 DEF PersonRequeue, SentAgain
    <3> QED
      BY <1>0, <3>1, SentAgainFields, WriteUnstarted
  <2>5. CASE row' = row
    BY <2>5
  <2> QED
    BY <2>1, <2>2, <2>3, <2>4, <2>5
    DEF AskStep, AskCancel, AskDelete, AskRetry, AskResume, AskDrop, PauseQueue, View, Ask,
        RequestStep, CancelStop, CancelFree, FinishRefRow, DeleteExecution, DropNext, DropScheduler
<1>3. \A x \in Runs : Idle(x)
  BY <1>1, RunsIdle DEF TypeOK
<1> QED
  BY <1>1, <1>2, <1>3, FencesIdle DEF FencesHold

(* A stop ends the runs whose dispatcher it cancels.                       *)
LEMMA StopFenced ==
  ASSUME TypeOK, FencesHold, MovesOn, Stop
  PROVE  FencesHold'
<1>1. UNCHANGED <<row, claims>> /\ mgr' = "stopping" /\ mgr = "up"
  BY DEF Stop, storeVars
<1>2. ASSUME NEW x \in Runs
      PROVE  Fenced(x)'
  <2>1. run[x] \in RunType /\ run'[x] = Interruption(run[x]) /\ Fenced(x) /\ run[x].exec \in Execs
    BY ViewTypes DEF Stop, TypeOK, RunsTypeOK, FencesHold
  <2>2. CASE run[x].pc \in InDispatch \cup {"reread"}
    <3> DEFINE s == run[x].stop \/ run[x].work = "going"
               w == IF run[x].work = "held" \/ (run[x].work = "going" /\ run[x].exec \notin Workflow)
                    THEN "ended" ELSE run[x].work
    <3>1. run'[x] = [run[x] EXCEPT !.pc = "intread", !.exit = "raise", !.stop = s, !.work = w]
      BY <2>1, <2>2 DEF Interruption
    <3>2. w = "going" => s
      OBVIOUS
    <3> HIDE DEF s, w
    <3> QED
      BY <1>1, <2>1, <2>2, <3>1, <3>2 DEF Fenced, Live, RunType, FirstObject, InDispatch
  <2>3. CASE run[x].pc \in Unwinding
    <3>1. /\ run'[x].pc = "release" /\ run'[x].exec = run[x].exec /\ run'[x].work = run[x].work
          /\ run'[x].stop = run[x].stop
      BY <2>1, <2>3 DEF Interruption, Unwinding, RunType, InDispatch
    <3> QED
      BY <1>1, <2>1, <2>3, <3>1 DEF Fenced, Live, RunType, FirstObject, InDispatch, Unwinding
  <2>4. CASE run[x].pc \notin InDispatch \cup {"reread"} \cup Unwinding
    BY <1>1, <2>1, <2>4 DEF Interruption, Fenced, Live, RunType, FirstObject, InDispatch
  <2> QED
    BY <2>2, <2>3, <2>4
<1> QED
  BY <1>1, <1>2 DEF FencesHold, QueuedUnstarted

(* Once the process is gone no run is live.                                *)
LEMMA GoneFenced ==
  ASSUME TypeOK, FencesHold, Gone
  PROVE  FencesHold'
<1>1. UNCHANGED <<row, claims>> /\ mgr' = "down"
  BY DEF Gone, storeVars
<1>2. ASSUME NEW x \in Runs
      PROVE  Fenced(x)'
  <2> DEFINE w == IF run[x].work = "none" THEN run[x].work ELSE "ended"
  <2>1. run[x] \in RunType /\ Fenced(x)
    BY DEF TypeOK, RunsTypeOK, FencesHold
  <2>2. run'[x] = IF run[x].pc = "unused" THEN run[x] ELSE [run[x] EXCEPT !.pc = "over", !.work = w]
    BY DEF Gone
  <2>3. w # "going"
    OBVIOUS
  <2> HIDE DEF w
  <2> QED
    BY <1>1, <2>1, <2>2, <2>3 DEF Fenced, Live, RunType, FirstObject, InDispatch
<1> QED
  BY <1>1, <1>2 DEF FencesHold, QueuedUnstarted

(* A write of a result that fails keeps the fences.                        *)
LEMMA FailSaveFenced ==
  ASSUME TypeOK, ViewsCurrent, FencesHold, MovesOn, NEW r \in Runs, NEW a \in BOOLEAN, SaveFails(r, a),
         UNCHANGED mgr, mgr \in {"up", "stopping"}
  PROVE  FencesHold'
<1>1. QueuedUnstarted'
  BY RunStepUnstarted DEF FencesHold
<1>2. UNCHANGED <<claims>> /\ run[r].pc = "save"
  BY DEF SaveFails
<1>3. ASSUME NEW x \in Runs \ {r}
      PROVE  Fenced(x)'
  BY <1>2, NoLongerFenced DEF SaveFails, FencesHold
<1>4. Fenced(r)'
  <2>1. run'[r] = [run[r] EXCEPT !.pc = "pending"] /\ run[r] \in RunType /\ run[r].exec \in Execs /\ Fenced(r)
    BY ViewTypes DEF SaveFails, TypeOK, FencesHold
  <2>2. row[run[r].exec].status # "new" => row'[run[r].exec].status # "new"
    BY <2>1 DEF MovesOn, RowStep, Active, Terminal
  <2> QED
    BY <1>2, <2>1, <2>2 DEF Fenced, Live, RunType, FirstObject, InDispatch
<1> QED
  BY <1>1, <1>3, <1>4 DEF FencesHold

(* Every step of the task center keeps the fences.                         *)
LEMMA NextFenced ==
  ASSUME TypeOK, TypeOK', ViewsCurrent, FencesHold, [Next]_vars
  PROVE  FencesHold'
<1> USE DEF storeVars
<1>0. MovesOn /\ StoreTypeOK
  BY NextCurrent DEF AllCurrent, RunsStayCurrent, TypeOK
<1>1. ASSUME QueuedUnstarted', UNCHANGED <<run, claims>>,
             mgr' \in {"down", "starting"} => mgr \in {"down", "starting"}
      PROVE  FencesHold'
  <2>1. \A x \in Runs : Idle(x)
    BY <1>1, RunsIdle DEF TypeOK
  <2> QED
    BY <1>0, <1>1, <2>1, FencesIdle DEF FencesHold
<1>2. ASSUME NEW e \in Execs, Create(e) \/ Expire(e) \/ RefOrphan(e)
      PROVE  FencesHold'
  <2>1. QueuedUnstarted'
    <3>1. Requeued(row[e], FALSE) \in RowType /\ Requeued(row[e], FALSE).started = 0
      BY <1>0, RequeuedFields DEF StoreTypeOK
    <3> QED
      BY <1>0, <1>2, <3>1, CreateFields, CancelFields, WriteUnstarted
      DEF Create, Expire, RefOrphan, FencesHold, QueuedUnstarted
  <2> QED
    BY <1>1, <1>2, <2>1 DEF Create, Expire, RefOrphan, runVars, managerVars
<1>3. ASSUME NEW e \in Execs, SettleOrphan(e)
      PROVE  FencesHold'
  <2> DEFINE f == [row[e] EXCEPT !.status = "failed"]
             q == Requeued(row[e], FALSE)
  <2>1. /\ q \in RowType /\ q.started = 0
        /\ Held(f) \in RowType /\ Held(f).status = "failed"
    <3>1. row[e] \in RowType
      BY <1>0 DEF StoreTypeOK
    <3>2. f \in RowType /\ f.status = "failed"
      BY <3>1 DEF RowType, Status, Terminal
    <3> QED
      BY <3>1, <3>2, RequeuedFields DEF RowType, Held
  <2>2. RequeueRow(e, q) \/ WriteRow(e, Held(f))
    BY <1>3 DEF SettleOrphan
  <2>3. QueuedUnstarted'
    BY <1>0, <2>1, <2>2, WriteUnstarted DEF FencesHold
  <2> QED
    BY <1>1, <1>3, <2>3 DEF SettleOrphan, runVars
<1>4. ASSUME NEW e \in Execs, LoseClaim(e)
      PROVE  FencesHold'
  BY <1>0, <1>4, ClaimFenced DEF LoseClaim, MayDequeue, LoopFree
<1>5. ASSUME NEW r \in Runs, RunProgress(r)
      PROVE  FencesHold'
  <2>1. UNCHANGED <<mgr, claims>> /\ RunStep(r)
    BY <1>5 DEF RunProgress, managerVars, RunStep, ReadScheduler, DispatchFails, StartSession, Register, Check,
                  Open, StartEffect, WorkEnds, EndWork, Interrupted, AbsoluteTimeout, GuardTimeout, GuardCancel,
                  LateWorkEnds, Save, Reread, Fail, FailWrite, InterruptRead, InterruptJudge,
                  InterruptRequeue, Release, FinishRef, Judge, Settle
  <2>2. Alone(r) /\ Fenced(r)'
    BY <1>0, <2>1, RunStepFenced
  <2>3. \A x \in Runs \ {r} : Fenced(x)'
    BY <1>0, <2>1, <2>2, FencesIdle DEF Alone
  <2>4. QueuedUnstarted'
    BY <2>1, RunStepUnstarted DEF FencesHold
  <2> QED
    BY <2>2, <2>3, <2>4 DEF FencesHold
<1>6. ASSUME NEW r \in Runs, FailSave(r)
      PROVE  FencesHold'
  BY <1>0, <1>6, FailSaveFenced DEF FailSave, Running
<1>7. CASE LoopStep
  BY <1>0, <1>7, LoopStepFenced
<1>8. ASSUME NEW q \in Reqs, AskStep(q) \/ RequestStep(q)
      PROVE  FencesHold'
  BY <1>0, <1>8, RequestFenced
<1>9. CASE Stop
  BY <1>0, <1>9, StopFenced
<1>10. CASE Quit \/ Crash
  BY <1>10, GoneFenced DEF Quit, Crash
<1>11. CASE Start \/ Started \/ ResumeQueue \/ UNCHANGED vars
  <2>1. UNCHANGED <<row, run, claims>> /\ (mgr' \in {"down", "starting"} => mgr \in {"down", "starting"})
    BY <1>11 DEF Start, Started, ResumeQueue, RequeueRunningRefs, vars, runVars, managerVars
  <2> QED
    BY <1>1, <2>1 DEF FencesHold, QueuedUnstarted
<1> QED
  BY <1>2, <1>3, <1>4, <1>5, <1>6, <1>7, <1>8, <1>9, <1>10, <1>11 DEF Next

(* They hold at the start, when no run was claimed.                        *)
LEMMA InitFenced == Init => FencesHold
BY DEF Init, StoreInit, RunsInit, NoRow, NewRun, FencesHold, QueuedUnstarted, Fenced, FirstObject, InDispatch

(* Whatever fails, the fences hold: a queued execution has no start time,  *)
(* so the number of its next claim becomes the token its dispatcher checks *)
(* (_start_execution and claim_execution of the task store).               *)
THEOREM FencesStay == Spec => []FencesHold
<1>1. TypeOK /\ TypeOK' /\ ViewsCurrent /\ FencesHold /\ [Next]_vars => FencesHold'
  BY NextFenced
<1> QED
  BY <1>1, TypeCorrect, ViewsStayCurrent, InitFenced, PTL DEF Spec
-----------------------------------------------------------------------------
(* Who completes execution e: a run whose claim its row carries.           *)
CompletedBy(e, r) == /\ run[r].exec = e /\ r = row[e].started
                     /\ run[r].work = "ended" /\ run[r].obj.status = "completed"
(* A step completes e.                                                     *)
Completes(e) == row[e].status # "completed" /\ row'[e].status = "completed"

(* Types, views and fences together hold in every reachable state.         *)
THEOREM StaysConsistent == Spec => []Consistent
<1>1. TypeOK /\ ViewsCurrent /\ FencesHold => Consistent
  BY DEF Consistent
<1> QED
  BY <1>1, TypeCorrect, ViewsStayCurrent, FencesStay, PTL

(* A result that is written, at once or later, is the result of its run.   *)
LEMMA ResultWritten ==
  ASSUME TypeOK, FencesHold, NEW r \in Runs, run[r].pc \in {"save", "pending"},
         StillActive(run[r].exec, run[r].obj), WriteRow(run[r].exec, run[r].obj),
         NEW e \in Execs, Completes(e)
  PROVE  CompletedBy(e, r)
<1>1. /\ run[r].exec \in Execs /\ run[r].obj \in RowType /\ StoreTypeOK /\ Fenced(r)
      /\ r \in Nat /\ r # 0
  BY ViewTypes DEF TypeOK, FencesHold, Runs
<1>2. e = run[r].exec /\ run[r].obj.status = "completed"
  BY <1>1, WriteFields DEF Completes
<1> QED
  BY <1>1, <1>2 DEF Fenced, CompletedBy, StillActive, FirstObject, InDispatch

(* No other write completes anything.                                      *)
LEMMA RunResult ==
  ASSUME TypeOK, ViewsCurrent, FencesHold, NEW r \in Runs,
         RunStep(r) \/ (\E a \in BOOLEAN : SaveFails(r, a)) \/ FlushWrite(r),
         NEW e \in Execs, Completes(e)
  PROVE  CompletedBy(e, r)
<1> DEFINE o == run[r].obj
           x == run[r].exec
<1> USE DEF storeVars
<1>0. /\ run[r] \in RunType /\ x \in Execs /\ o \in RowType /\ RunCurrent(r)
      /\ StoreTypeOK /\ r \in Nat
  BY ViewTypes DEF TypeOK, RunsTypeOK, ViewsCurrent
<1>1. ASSUME NEW n \in RowType, n.status # "completed", WriteRow(x, n) \/ RequeueRow(x, n)
      PROVE  FALSE
  BY <1>0, <1>1, WriteFields, RequeueFields DEF Completes
<1>2. row' # row
  BY DEF Completes
<1>3. CASE ReadScheduler(r)
  <2>1. ~sched => ~Present(x)
    BY <1>0 DEF ViewsCurrent, StartCurrent
  <2> QED
    BY <1>2, <1>3, <2>1 DEF ReadScheduler
<1>4. CASE StartSession(r)
  BY <1>0, <1>2, <1>4, StartFields DEF StartSession, Completes, RowType
<1>5. CASE FailWrite(r)
  BY <1>0, <1>1, <1>2, <1>5 DEF FailWrite, RunCurrent
<1>6. CASE Save(r) \/ (\E a \in BOOLEAN : SaveFails(r, a)) \/ FlushWrite(r)
  <2>1. run[r].pc \in {"save", "pending"} /\ StillActive(x, o) /\ WriteRow(x, o)
    BY <1>2, <1>6 DEF Save, SaveFails, FlushWrite
  <2> QED
    BY <2>1, ResultWritten
<1>7. CASE InterruptRequeue(r)
  <2>1. RequeueRow(x, Requeued(o, FALSE))
    BY <1>2, <1>7 DEF InterruptRequeue
  <2> QED
    BY <1>0, <1>1, <2>1, RequeuedFields
<1>8. CASE Settle(r)
  <2> DEFINE n == IF run[r].pc = "hold" THEN Held(o) ELSE [o EXCEPT !.count = @ + 1, !.due = TRUE]
  <2>1. n \in RowType /\ n.status # "completed"
    <3>1. o.status = "failed" /\ o.count + 1 \in Nat
      BY <1>0, <1>8 DEF Settle, RunCurrent, RowType
    <3> QED
      BY <1>0, <3>1 DEF Held, RowType
  <2>2. WriteRow(x, n)
    BY <1>2, <1>8 DEF Settle
  <2> QED
    BY <1>1, <2>1, <2>2
<1> QED
  BY <1>2, <1>3, <1>4, <1>5, <1>6, <1>7, <1>8
  DEF RunStep, DispatchFails, Register, Check, Open,
      StartEffect, WorkEnds, EndWork, Interrupted, AbsoluteTimeout, GuardTimeout, GuardCancel,
      LateWorkEnds, Reread, Fail, InterruptRead, InterruptJudge, Release, FinishRef, FinishRefRow, Judge

(* The execution loop completes nothing but results that were kept.        *)
LEMMA LoopCompletesNothing ==
  ASSUME TypeOK, ViewsCurrent, LoopStep, \A r \in Runs : ~FlushWrite(r), NEW e \in Execs
  PROVE  ~Completes(e)
<1> USE DEF storeVars, Completes
<1>0. StoreTypeOK /\ loop.exec \in Execs /\ loop.obj \in RowType
  BY LoopViewTypes DEF TypeOK
<1>1. ASSUME NEW x \in Execs, Dequeue(x)
      PROVE  ~Completes(e)
  <2>1. claims + 1 \in Nat
    BY MaxClaimsAssumption DEF TypeOK, RunsTypeOK
  <2> QED
    BY <1>0, <1>1, <2>1, ClaimFields DEF Dequeue
<1>2. CASE LoopRequeue
  <2> DEFINE q == Requeued(loop.obj, FALSE)
             n == IF loop.pc = "retry" THEN [q EXCEPT !.due = FALSE] ELSE q
  <2>1. n \in RowType /\ n.status = "queued"
    BY <1>0, RequeuedFields DEF RowType
  <2>2. row' = row \/ RequeueRow(loop.exec, n)
    BY <1>2 DEF LoopRequeue
  <2> HIDE DEF n
  <2> QED
    BY <1>0, <2>1, <2>2, RequeueFields
<1>3. CASE StaleWrite
  <2>1. loop.obj.status = "failed"
    BY <1>3 DEF StaleWrite, ViewsCurrent, LoopCurrent
  <2> QED
    BY <1>0, <1>3, <2>1, WriteFields DEF StaleWrite
<1> QED
  BY <1>1, <1>2, <1>3
  DEF LoopStep, TakeRow, TakeStale, StaleJudge, StaleFail, StaleFree, StaleFinishRef, FinishRefRow,
      FlushRead, FlushHandled

(* No request of a person completes an execution.                          *)
LEMMA RequestCompletesNothing ==
  ASSUME TypeOK, NEW q \in Reqs, AskStep(q) \/ RequestStep(q), NEW e \in Execs
  PROVE  ~Completes(e)
<1> USE DEF storeVars, Completes
<1>0. StoreTypeOK /\ req[q].exec \in Execs /\ req[q].obj \in RowType
  BY ReqViewTypes DEF TypeOK
<1>1. ASSUME NEW x \in Execs, ViewRow(x)
      PROVE  ~Completes(e)
  BY <1>0, <1>1, ViewFields
<1>2. CASE CancelWrite(q)
  BY <1>0, <1>2, CancelFields DEF CancelWrite
<1>3. ASSUME NEW S, DeleteRows(S)
      PROVE  ~Completes(e)
  BY <1>0, <1>3, DeleteFields DEF NoRow
<1>4. CASE PersonRequeue(q)
  <2>1. row' = row \/ RequeueRow(req[q].exec, SentAgain(req[q].obj, req[q].op))
    BY <1>4 DEF PersonRequeue, SentAgain
  <2> QED
    BY <1>0, <2>1, SentAgainFields, RequeueFields
<1>5. CASE row' = row
  BY <1>5
<1> QED
  BY <1>1, <1>2, <1>3, <1>4, <1>5
  DEF AskStep, AskCancel, AskDelete, AskRetry, AskResume, AskDrop, PauseQueue, View, Ask,
      RequestStep, CancelStop, CancelFree, FinishRefRow, DeleteExecution, DropNext, DropScheduler

(* Every completion is of the run whose claim the row carries.             *)
LEMMA NextResult ==
  ASSUME TypeOK, ViewsCurrent, FencesHold, [Next]_vars, NEW e \in Execs, Completes(e)
  PROVE  \E r \in Runs : CompletedBy(e, r)
<1> USE DEF storeVars
<1>0. StoreTypeOK /\ row' # row
  BY DEF TypeOK, Completes
<1>1. ASSUME NEW x \in Execs, Create(x) \/ Expire(x) \/ RefOrphan(x) \/ SettleOrphan(x) \/ LoseClaim(x)
      PROVE  FALSE
  <2> DEFINE f == [row[x] EXCEPT !.status = "failed"]
  <2>1. row[x] \in RowType /\ claims + 1 \in Nat
    BY <1>0, MaxClaimsAssumption DEF StoreTypeOK, TypeOK, RunsTypeOK
  <2>2. Requeued(row[x], FALSE) \in RowType /\ Requeued(row[x], FALSE).status = "queued"
    BY <2>1, RequeuedFields
  <2>3. Held(f) \in RowType /\ Held(f).status = "failed"
    <3>1. f \in RowType /\ f.status = "failed"
      BY <2>1 DEF RowType, Status, Terminal
    <3> QED
      BY <3>1 DEF Held, RowType
  <2>4. \/ CreateRow(x) \/ CancelRow(x) \/ ExpireRow(x) \/ ClaimRow(x, claims + 1)
        \/ RequeueRow(x, Requeued(row[x], FALSE)) \/ WriteRow(x, Held(f))
    BY <1>1 DEF Create, Expire, RefOrphan, SettleOrphan, LoseClaim
  <2> HIDE DEF f
  <2>5. CASE CreateRow(x) \/ CancelRow(x) \/ ExpireRow(x)
    BY <1>0, <2>5, CreateFields, CancelFields DEF Completes
  <2>6. CASE ClaimRow(x, claims + 1)
    BY <1>0, <2>1, <2>6, ClaimFields DEF Completes
  <2>7. CASE RequeueRow(x, Requeued(row[x], FALSE)) \/ WriteRow(x, Held(f))
    BY <1>0, <2>2, <2>3, <2>7, RequeueFields, WriteFields DEF Completes
  <2> QED
    BY <2>4, <2>5, <2>6, <2>7
<1>2. ASSUME NEW r \in Runs, RunProgress(r) \/ FailSave(r) \/ FlushWrite(r)
      PROVE  CompletedBy(e, r)
  BY <1>2, RunResult DEF RunProgress, FailSave
<1> QED
  BY <1>0, <1>1, <1>2, LoopCompletesNothing, RequestCompletesNothing
  DEF Next, Stop, Quit, Crash, Gone, Start, RequeueRunningRefs, Started, ResumeQueue, vars

(* A result is only written by the run whose claim the row still carries,  *)
(* whatever fails and however long anything takes.                         *)
THEOREM ResultsAreOfTheirRuns == Spec => ResultOfItsRun
<1> DEFINE Fits == \A e \in Execs : row[e].status # "completed" /\ row'[e].status = "completed" =>
                     \E r \in Runs : /\ run[r].exec = e /\ r = row[e].started
                                     /\ run[r].work = "ended" /\ run[r].obj.status = "completed"
<1>1. TypeOK /\ ViewsCurrent /\ FencesHold /\ [Next]_vars => [Fits]_vars
  BY NextResult DEF Completes, CompletedBy
<1> QED
  BY <1>1, TypeCorrect, ViewsStayCurrent, FencesStay, PTL DEF Spec, ResultOfItsRun
=============================================================================
