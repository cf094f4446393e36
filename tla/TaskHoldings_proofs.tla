------------------------ MODULE TaskHoldings_proofs ------------------------
(***************************************************************************)
(* What belongs to a run goes with it: HoldingsInStep.  References follow  *)
(* the rows unless the machine sleeps.  Slots are given back unless, also, *)
(* a write that seemed to fail did not (the run it belongs to may then be  *)
(* retried beside its waiting result) or a scheduler is deleted (a run     *)
(* that finds it gone leaves before the block that frees its slot).  The   *)
(* limit is kept unless, besides all these, an execution is deleted (a     *)
(* request that decided not to cancel, by a row it had read before,        *)
(* deletes one that runs).                                                 *)
(***************************************************************************)
EXTENDS TaskCenter_proofs, FiniteSetTheorems

(* Sessions belong to executions.  Claims keep their execution.            *)
ExecsStay == claims <= claims' /\ \A x \in Runs : x <= claims => run'[x].exec = run[x].exec

BelongsThen(e, s) == s # 0 => s \in Runs /\ s <= claims' /\ run'[s].exec = e

(* So what belongs to an execution still does.                             *)
LEMMA BelongsStays ==
  ASSUME TypeOK, TypeOK', ExecsStay, NEW e, NEW s, Belongs(e, s)
  PROVE  BelongsThen(e, s)
BY DEF TypeOK, RunsTypeOK, ExecsStay, Belongs, BelongsThen, Runs

(* What a dispatcher does to sessions and events: it hands its own on.     *)
SessionsHandedOn(r) ==
  LET e == run[r].exec
      o == run[r].obj
  IN /\ \A x \in Execs \ {e} : row'[x].sess = row[x].sess /\ wfEvent'[x] = wfEvent[x]
     /\ row'[e].sess \in {row[e].sess, o.sess, 0}
     /\ wfEvent'[e] \in {wfEvent[e], r, 0}
     /\ run'[r].exec = e
     /\ run'[r].sess \in {run[r].sess, o.sess}
     /\ run'[r].obj.sess \in {row[e].sess, o.sess, r, 0}

(* The session columns a step of a dispatcher leaves in the rows.          *)
LEMMA RunRowSessions ==
  ASSUME TypeOK, NEW r \in Runs, RunStep(r) \/ \E a \in BOOLEAN : SaveFails(r, a)
  PROVE  /\ \A x \in Execs \ {run[r].exec} : row'[x].sess = row[x].sess
         /\ row'[run[r].exec].sess \in {row[run[r].exec].sess, run[r].obj.sess, 0}
<1> DEFINE e == run[r].exec
           o == run[r].obj
<1> USE DEF storeVars
<1>0. StoreTypeOK /\ e \in Execs /\ o \in RowType /\ o.sess \in Nat /\ o.started \in Nat /\ o.count + 1 \in Nat
  BY ViewTypes DEF TypeOK, RowType
<1>1. ASSUME NEW n \in RowType, n.sess \in {o.sess, 0}, WriteRow(e, n) \/ RequeueRow(e, n)
      PROVE  /\ \A x \in Execs \ {e} : row'[x].sess = row[x].sess
             /\ row'[e].sess \in {o.sess, 0}
  BY <1>0, <1>1, WriteFields, RequeueFields
<1>2. ASSUME NEW n, n \in {[o EXCEPT !.status = "failed"], Held(o), [o EXCEPT !.count = @ + 1, !.due = TRUE]}
      PROVE  n \in RowType /\ n.sess = o.sess
  BY <1>0, <1>2 DEF RowType, Held, Status, Terminal
<1>3. CASE ReadScheduler(r)
  BY <1>1, <1>2, <1>3 DEF ReadScheduler
<1>4. CASE StartSession(r)
  BY <1>0, <1>4, StartFields DEF StartSession
<1>5. CASE Save(r) \/ FailWrite(r) \/ \E a \in BOOLEAN : SaveFails(r, a)
  BY <1>0, <1>1, <1>5 DEF Save, FailWrite, SaveFails
<1>6. CASE InterruptRequeue(r)
  <2>1. Requeued(o, FALSE) \in RowType
    BY <1>0, RequeuedFields
  <2>2. Requeued(o, FALSE).sess = 0
    BY <1>0 DEF Requeued, RowType
  <2> QED
    BY <1>1, <1>6, <2>1, <2>2 DEF InterruptRequeue
<1>7. CASE Settle(r)
  <2> DEFINE n == IF run[r].pc = "hold" THEN Held(o) ELSE [o EXCEPT !.count = @ + 1, !.due = TRUE]
  <2>1. UNCHANGED row \/ WriteRow(e, n)
    BY <1>7 DEF Settle
  <2>2. n \in RowType /\ n.sess = o.sess
    BY <1>2
  <2> HIDE DEF n
  <2> QED
    BY <1>1, <2>1, <2>2
<1> QED
  BY <1>3, <1>4, <1>5, <1>6, <1>7
  DEF RunStep, DispatchFails, Register, Check, Open,
      StartEffect, WorkEnds, EndWork, Interrupted, AbsoluteTimeout, GuardTimeout, GuardCancel,
      LateWorkEnds, Reread, Fail, InterruptRead, InterruptJudge, Release, FinishRef, FinishRefRow, Judge

(* A dispatcher hands on its own sessions and events only.                 *)
LEMMA RunSessions ==
  ASSUME TypeOK, FencesHold, NEW r \in Runs, RunStep(r)
  PROVE  SessionsHandedOn(r)
<1> DEFINE e == run[r].exec
           o == run[r].obj
           w == row[e]
<1>0. /\ run[r] \in RunType /\ run \in [Runs -> RunType] /\ e \in Execs /\ o \in RowType
      /\ wfEvent \in [Execs -> {0} \cup Runs]
  BY ViewTypes DEF TypeOK, RunsTypeOK
<1>1. /\ \A x \in Execs \ {e} : row'[x].sess = row[x].sess
      /\ row'[e].sess \in {w.sess, o.sess, 0}
  BY RunRowSessions
<1>2. wfEvent' \in {wfEvent, [wfEvent EXCEPT ![e] = r], [wfEvent EXCEPT ![e] = 0]}
  BY DEF RunStep, ReadScheduler, DispatchFails, StartSession, Register, Check, Open, StartEffect, WorkEnds,
         EndWork, Interrupted, AbsoluteTimeout, GuardTimeout, GuardCancel, LateWorkEnds, Save, Reread,
         Fail, FailWrite, InterruptRead, InterruptJudge, InterruptRequeue, Release, FinishRef, Judge,
         Settle, Released
<1>3. run'[r].exec = e
  BY RunOwnsLess
<1>4. ASSUME run'[r].sess \in {run[r].sess, o.sess}, run'[r].obj.sess \in {w.sess, o.sess, r, 0}
      PROVE  SessionsHandedOn(r)
  BY <1>0, <1>1, <1>2, <1>3, <1>4 DEF SessionsHandedOn
<1>5. Current(e, o).sess \in {w.sess, o.sess} /\ Current(e, o) \in RowType
  BY ViewTypes DEF Current, TypeOK
<1> HIDE DEF e, w, o
<1> USE DEF RunType
<1>6. CASE ReadScheduler(r)
  <2> DEFINE y == IF e \in Workflow THEN 0 ELSE IF o.sess = 0 THEN r ELSE o.sess
  <2>1. \/ run' = [run EXCEPT ![r].pc = "start", ![r].obj = [o EXCEPT !.sess = y]]
        \/ run' = [run EXCEPT ![r].pc = "over", ![r].obj = [o EXCEPT !.status = "failed"]]
    BY <1>6 DEF ReadScheduler, e, o
  <2>2. y \in {0, r, o.sess}
    OBVIOUS
  <2> HIDE DEF y
  <2> QED
    BY <1>0, <1>4, <2>1, <2>2 DEF RowType
<1>7. CASE \/ DispatchFails(r) \/ StartSession(r) \/ StartEffect(r) \/ GuardTimeout(r) \/ LateWorkEnds(r)
           \/ InterruptJudge(r) \/ Release(r) \/ FinishRef(r) \/ Judge(r) \/ Settle(r)
  <2>1. run'[r].sess = run[r].sess /\ run'[r].obj = run[r].obj
    BY <1>0, <1>7 DEF DispatchFails, StartSession, StartEffect, GuardTimeout, LateWorkEnds, InterruptJudge,
                      Release, FinishRef, Judge, Settle
  <2> QED
    BY <1>4, <2>1 DEF o
<1>8. CASE Register(r)
  BY <1>0, <1>4, <1>8 DEF Register, o
<1>9. CASE Check(r) \/ Open(r) \/ WorkEnds(r) \/ AbsoluteTimeout(r)
  <2>1. ASSUME NEW s, EndWork(r, s)
        PROVE  run'[r].sess = run[r].sess /\ run'[r].obj.sess = o.sess
    BY <1>0, <2>1 DEF EndWork, RowType, o
  <2>2. Interrupted(r) => run'[r].sess = run[r].sess /\ run'[r].obj.sess = o.sess
    BY <1>0 DEF Interrupted, o
  <2>3. AbsoluteTimeout(r) => run'[r].sess = run[r].sess /\ run'[r].obj.sess = o.sess
    BY <1>0 DEF AbsoluteTimeout, RowType, o
  <2>4. Check(r) => run'[r].sess = run[r].sess /\ run'[r].obj.sess = o.sess
    BY <1>0, <2>1 DEF Check, o
  <2>5. Open(r) => run'[r].sess = run[r].sess /\ run'[r].obj.sess = o.sess
    BY <1>0, <2>1, <2>2 DEF Open, o
  <2>6. WorkEnds(r) => run'[r].sess = run[r].sess /\ run'[r].obj.sess = o.sess
    BY <1>0, <2>1, <2>2 DEF WorkEnds, o
  <2> QED
    BY <1>4, <1>9, <2>3, <2>4, <2>5, <2>6
<1>10. CASE GuardCancel(r)
  <2> DEFINE g == Signalled(Reached(e, o.sess))
  <2>1. g \in [Runs -> RunType] /\ g[r].sess = run[r].sess /\ g[r].obj = run[r].obj
    BY <1>0, SignalledType DEF TypeOK, Signalled
  <2>2. run' = [g EXCEPT ![r].pc = "fail"]
    BY <1>10 DEF GuardCancel, e, o
  <2> HIDE DEF g
  <2> QED
    BY <1>4, <2>1, <2>2 DEF o
<1>11. CASE Save(r) \/ FailWrite(r)
  <2>1. \/ run' = [run EXCEPT ![r].pc = "release", ![r].obj = row'[e]]
        \/ \E p \in {"reread", "failreread"} : run' = [run EXCEPT ![r].pc = p]
    BY <1>11 DEF Save, FailWrite, e
  <2> QED
    BY <1>0, <1>1, <1>4, <2>1 DEF o
<1>12. CASE Reread(r) \/ InterruptRead(r)
  <2>1. \E p \in {"release", "intjudge"} : run' = [run EXCEPT ![r].pc = p, ![r].obj = Current(e, o)]
    BY <1>0, <1>12 DEF Reread, InterruptRead, e, o
  <2> QED
    BY <1>0, <1>4, <1>5, <2>1
<1>13. CASE Fail(r)
  <2> DEFINE c == Current(e, o)
             f == [c EXCEPT !.status = "failed"]
  <2>1. /\ c \in RowType /\ c.sess \in {w.sess, o.sess}
        /\ f \in RowType /\ f.sess = c.sess /\ Held(f).sess = c.sess
    BY <1>5 DEF RowType, Held, Status, Terminal
  <2>2. \E n \in {c, f, Held(f)}, p \in PC : run' = [run EXCEPT ![r].pc = p, ![r].obj = n]
    BY <1>13 DEF Fail, e, o, PC
  <2> HIDE DEF c, f
  <2> QED
    BY <1>0, <1>4, <2>1, <2>2
<1>14. CASE InterruptRequeue(r)
  <2> DEFINE q == Requeued(o, FALSE)
             c == Current(e, q)
             y == IF c.status = "queued" THEN "requeued" ELSE run[r].exit
             z == row'[e]
  <2>1. q.sess = 0
    BY <1>0 DEF Requeued, RowType
  <2>2. c.sess \in {w.sess, 0}
    BY <2>1 DEF Current, w
  <2>3. \/ run' = [run EXCEPT ![r].pc = "release", ![r].exit = "requeued", ![r].obj = z]
        \/ run' = [run EXCEPT ![r].pc = "release", ![r].obj = c, ![r].exit = y]
    BY <1>14 DEF InterruptRequeue, e, o
  <2>4. z.sess \in {w.sess, o.sess, 0}
    BY <1>1
  <2> HIDE DEF q, c, y, z
  <2> QED
    BY <1>0, <1>4, <2>2, <2>3, <2>4
<1> QED
  BY <1>6, <1>7, <1>8, <1>9, <1>10, <1>11, <1>12, <1>13, <1>14 DEF RunStep

(* It is enough that every session and event there is belonged before.     *)
LEMMA SessionsMove ==
  ASSUME TypeOK, TypeOK', SessionsBelong, ExecsStay,
         \A e \in Execs : BelongsThen(e, row'[e].sess) /\ BelongsThen(e, wfEvent'[e]),
         \A x \in Runs : BelongsThen(run'[x].exec, run'[x].sess) /\ BelongsThen(run'[x].exec, run'[x].obj.sess),
         \/ loop' = loop \/ BelongsThen(loop'.exec, loop'.obj.sess),
         \A q \in Reqs : req'[q] = req[q] \/ BelongsThen(req'[q].exec, req'[q].obj.sess)
  PROVE  SessionsBelong'
<1>1. \A e \in Execs : Belongs(e, row[e].sess)' /\ Belongs(e, wfEvent[e])'
  BY DEF Belongs, BelongsThen
<1>2. \A x \in Runs : Belongs(run[x].exec, run[x].sess)' /\ Belongs(run[x].exec, run[x].obj.sess)'
  BY DEF Belongs, BelongsThen
<1>3. Belongs(loop.exec, loop.obj.sess)'
  <2>1. CASE loop' = loop
    <3>1. BelongsThen(loop.exec, loop.obj.sess)
      BY BelongsStays DEF SessionsBelong
    <3> QED
      BY <2>1, <3>1 DEF Belongs, BelongsThen
  <2> QED
    BY <2>1 DEF Belongs, BelongsThen
<1>4. ASSUME NEW q \in Reqs
      PROVE  Belongs(req[q].exec, req[q].obj.sess)'
  <2>1. CASE req'[q] = req[q]
    <3>1. BelongsThen(req[q].exec, req[q].obj.sess)
      BY BelongsStays DEF SessionsBelong
    <3> QED
      BY <2>1, <3>1 DEF Belongs, BelongsThen
  <2> QED
    BY <2>1 DEF Belongs, BelongsThen
<1> QED
  BY <1>1, <1>2, <1>3, <1>4 DEF SessionsBelong

(* Who acts was claimed.                                                   *)
LEMMA ActorClaimed ==
  ASSUME TypeOK, FencesHold, NEW r \in Runs, RunStep(r) \/ (\E a \in BOOLEAN : SaveFails(r, a)) \/ FlushWrite(r)
  PROVE  r <= claims /\ run[r].pc \notin {"unused"}
<1>1. run[r].pc # "unused"
  BY DEF RunStep, ReadScheduler, DispatchFails, StartSession, Register, Check, Open, StartEffect, WorkEnds,
         AbsoluteTimeout, GuardTimeout, GuardCancel, LateWorkEnds, Save, Reread,
         Fail, FailWrite, InterruptRead, InterruptJudge, InterruptRequeue, Release, FinishRef, Judge,
         Settle, SaveFails, FlushWrite, FencesHold, Fenced
<1> QED
  BY <1>1 DEF FencesHold, Fenced, TypeOK, RunsTypeOK, Runs

(* A dispatcher's steps leave sessions where they belong.                  *)
LEMMA RunSessionsBelong ==
  ASSUME TypeOK, TypeOK', FencesHold, SessionsBelong, NEW r \in Runs, Alone(r), UNCHANGED <<claims, loop, req>>,
         RunStep(r)
  PROVE  SessionsBelong'
<1> DEFINE e == run[r].exec
<1>0. SessionsHandedOn(r) /\ r <= claims /\ e \in Execs /\ claims \in Nat /\ r \in Nat
  BY RunSessions, ActorClaimed, ViewTypes DEF TypeOK, RunsTypeOK
<1>1. ExecsStay /\ \A x \in Runs : run'[x].exec = run[x].exec
  BY <1>0 DEF ExecsStay, Alone, Idle, SessionsHandedOn
<1>2. \A x \in Execs : \A s : Belongs(x, s) => BelongsThen(x, s)
  BY <1>1, BelongsStays
<1>3. BelongsThen(e, r) /\ BelongsThen(e, 0) /\ BelongsThen(e, run[r].obj.sess) /\ BelongsThen(e, row[e].sess)
      /\ BelongsThen(e, run[r].sess) /\ BelongsThen(e, wfEvent[e])
  <2>1. BelongsThen(e, r) /\ BelongsThen(e, 0)
    BY <1>0, <1>1 DEF BelongsThen
  <2> QED
    BY <1>0, <1>2, <2>1 DEF SessionsBelong
<1>4. ASSUME NEW x \in Execs
      PROVE  BelongsThen(x, row'[x].sess) /\ BelongsThen(x, wfEvent'[x])
  <2>1. BelongsThen(x, row[x].sess) /\ BelongsThen(x, wfEvent[x])
    BY <1>2 DEF SessionsBelong
  <2>2. CASE x = e
    <3>1. row'[e].sess \in {row[e].sess, run[r].obj.sess, 0} /\ wfEvent'[e] \in {wfEvent[e], r, 0}
      BY <1>0 DEF SessionsHandedOn
    <3> QED
      BY <1>3, <2>2, <3>1
  <2>3. CASE x # e
    BY <1>0, <2>1, <2>3 DEF SessionsHandedOn
  <2> QED
    BY <2>2, <2>3
<1>5. ASSUME NEW x \in Runs
      PROVE  BelongsThen(run'[x].exec, run'[x].sess) /\ BelongsThen(run'[x].exec, run'[x].obj.sess)
  <2>1. run[x].exec \in Execs
    BY ViewTypes DEF TypeOK
  <2>2. BelongsThen(run[x].exec, run[x].sess) /\ BelongsThen(run[x].exec, run[x].obj.sess)
    BY <1>2, <2>1 DEF SessionsBelong
  <2>3. CASE x = r
    BY <1>0, <1>1, <1>3, <2>3 DEF SessionsHandedOn
  <2>4. CASE x # r
    BY <1>1, <2>2, <2>4 DEF Alone, Idle
  <2> QED
    BY <2>3, <2>4
<1> QED
  BY <1>1, <1>4, <1>5, SessionsMove

(* The other steps make no new session: they copy one of the execution.    *)
LEMMA IdleSessions ==
  ASSUME TypeOK, TypeOK', SessionsBelong, claims' = claims,
         \A x \in Runs : /\ run'[x].exec = run[x].exec /\ run'[x].sess = run[x].sess
                         /\ run'[x].obj.sess = run[x].obj.sess,
         \A e \in Execs : /\ row'[e].sess \in {row[e].sess, 0} \/ Belongs(e, row'[e].sess)
                          /\ wfEvent'[e] \in {wfEvent[e], 0},
         loop' = loop \/ loop'.obj.sess = 0 \/ Belongs(loop'.exec, loop'.obj.sess),
         \A q \in Reqs : req'[q] = req[q] \/ req'[q].obj.sess = 0 \/ Belongs(req'[q].exec, req'[q].obj.sess)
  PROVE  SessionsBelong'
<1>1. ExecsStay
  BY DEF ExecsStay, TypeOK, RunsTypeOK
<1>2. \A e, s : Belongs(e, s) \/ s = 0 => BelongsThen(e, s)
  BY <1>1, BelongsStays DEF BelongsThen
<1>3. \A x \in Runs : run[x].exec \in Execs
  BY ViewTypes DEF TypeOK
<1>4. \A e \in Execs : BelongsThen(e, row'[e].sess) /\ BelongsThen(e, wfEvent'[e])
  BY <1>2 DEF SessionsBelong
<1>5. \A x \in Runs : BelongsThen(run'[x].exec, run'[x].sess) /\ BelongsThen(run'[x].exec, run'[x].obj.sess)
  BY <1>2, <1>3 DEF SessionsBelong
<1>6. \/ loop' = loop \/ BelongsThen(loop'.exec, loop'.obj.sess)
  BY <1>2
<1>7. \A q \in Reqs : req'[q] = req[q] \/ BelongsThen(req'[q].exec, req'[q].obj.sess)
  BY <1>2
<1> QED
  BY <1>1, <1>4, <1>5, <1>6, <1>7, SessionsMove

(* A claim gives the new run the session of its row.                       *)
LEMMA ClaimSessions ==
  ASSUME TypeOK, TypeOK', FencesHold, SessionsBelong, NEW e \in Execs, claims < MaxClaims,
         ClaimRow(e, claims + 1), NEW pc, claims' = claims + 1,
         run' = [run EXCEPT ![claims + 1] = NewRun(e, row'[e], pc)],
         UNCHANGED <<wfEvent, loop, req>>
  PROVE  SessionsBelong'
<1>0. /\ run \in [Runs -> RunType] /\ claims \in Nat /\ claims + 1 \in Runs /\ StoreTypeOK
      /\ \A x \in Runs : x \in Nat /\ run[x].exec \in Execs
  BY ViewTypes DEF TypeOK, RunsTypeOK, Runs, MaxClaimsAssumption
<1>1. \A x \in Execs : row'[x].sess = row[x].sess
  BY <1>0, ClaimFields
<1>2. \A x \in Runs : x <= claims => run'[x] = run[x]
  BY <1>0
<1>3. ExecsStay
  BY <1>0, <1>2 DEF ExecsStay
<1>4. \A x \in Execs : \A s : Belongs(x, s) => BelongsThen(x, s)
  BY <1>3, BelongsStays
<1>5. \A x \in Execs : BelongsThen(x, row'[x].sess) /\ BelongsThen(x, wfEvent'[x])
  BY <1>1, <1>4 DEF SessionsBelong
<1>6. ASSUME NEW x \in Runs
      PROVE  BelongsThen(run'[x].exec, run'[x].sess) /\ BelongsThen(run'[x].exec, run'[x].obj.sess)
  <2>1. CASE x = claims + 1
    <3>1. run'[x] = NewRun(e, row'[e], pc)
      BY <1>0, <2>1
    <3>2. run'[x].exec = e /\ run'[x].sess = 0 /\ run'[x].obj = row'[e]
      BY <3>1 DEF NewRun
    <3> QED
      BY <1>5, <3>2 DEF BelongsThen
  <2>2. CASE x # claims + 1
    <3>1. run'[x] = run[x]
      BY <1>0, <2>2
    <3> QED
      BY <1>0, <1>4, <3>1 DEF SessionsBelong
  <2> QED
    BY <2>1, <2>2
<1> QED
  BY <1>3, <1>5, <1>6, SessionsMove

(* The execution loop moves sessions along with rows.                      *)
LEMMA LoopSessions ==
  ASSUME TypeOK, TypeOK', FencesHold, SessionsBelong, LoopStep
  PROVE  SessionsBelong'
<1> USE DEF storeVars, queueVars, runVars
<1>0. /\ StoreTypeOK /\ loop \in LoopType /\ loop.exec \in Execs /\ loop.obj \in RowType
      /\ Requeued(loop.obj, FALSE) \in RowType /\ LoopIdle \in LoopType
      /\ run \in [Runs -> RunType] /\ row \in [Execs -> RowType] /\ Current(loop.exec, loop.obj) \in RowType
      /\ Belongs(loop.exec, loop.obj.sess) /\ LoopIdle.obj.sess = 0
      /\ \A x \in Execs : Belongs(x, row[x].sess)
  BY LoopViewTypes, LoopIdleType DEF TypeOK, ManagerTypeOK, RunsTypeOK, StoreTypeOK, LoopIdle, NoRow, SessionsBelong
<1>1. ASSUME NEW e \in Execs, Dequeue(e)
      PROVE  SessionsBelong'
  BY <1>1, ClaimSessions DEF Dequeue, managerVars
<1>2. ASSUME NEW e \in Execs, TakeRow(e) \/ TakeStale(e)
      PROVE  SessionsBelong'
  <2>1. loop'.exec = e /\ loop'.obj = row[e]
    BY <1>0, <1>2 DEF TakeRow, TakeStale, LoopType
  <2>2. run' = run \/ \E S : run' = Signalled(S)
    BY <1>2 DEF TakeRow, TakeStale
  <2>3. \A x \in Runs : Idle(x)
    BY <2>2, RunsIdle DEF TypeOK
  <2>4. UNCHANGED <<row, wfEvent, claims, req>>
    BY <1>2 DEF TakeRow, TakeStale
  <2> QED
    BY <1>0, <2>1, <2>3, <2>4, IdleSessions DEF Idle
<1>3. CASE LoopRequeue
  <2> DEFINE q == Requeued(loop.obj, FALSE)
             n == IF loop.pc = "retry" THEN [q EXCEPT !.due = FALSE] ELSE q
  <2>1. n \in RowType /\ n.sess = 0
    BY <1>0 DEF Requeued, RowType
  <2>2. (RequeueRow(loop.exec, n) \/ row' = row) /\ UNCHANGED <<run, wfEvent, claims, req>> /\ loop' = LoopIdle
    BY <1>3 DEF LoopRequeue
  <2> HIDE DEF n
  <2>3. \A x \in Execs : row'[x].sess \in {row[x].sess, 0}
    BY <1>0, <2>1, <2>2, RequeueFields
  <2> QED
    BY <1>0, <2>2, <2>3, IdleSessions
<1>4. CASE StaleJudge \/ StaleFail \/ StaleFree \/ StaleFinishRef \/ FlushHandled
  <2>1. /\ UNCHANGED <<row, run, wfEvent, claims, req>>
        /\ loop' = LoopIdle \/ (loop'.exec = loop.exec /\ loop'.obj.sess \in {loop.obj.sess, row[loop.exec].sess})
    <3>1. CASE StaleFail
      <4> DEFINE c == Current(loop.exec, loop.obj)
                 f == [c EXCEPT !.status = "failed"]
                 n == IF loop.hold THEN Held(f) ELSE f
      <4>1. n.sess \in {loop.obj.sess, row[loop.exec].sess}
        BY <1>0 DEF Current, Held, RowType
      <4>2. loop' \in {[loop EXCEPT !.pc = "stalefree"], [loop EXCEPT !.pc = "stalewrite", !.obj = n]}
            /\ UNCHANGED <<row, run, wfEvent, claims, req>>
        BY <3>1 DEF StaleFail
      <4> HIDE DEF n
      <4> QED
        BY <1>0, <4>1, <4>2 DEF LoopType
    <3>2. CASE ~StaleFail
      BY <1>0, <1>4, <3>2 DEF StaleJudge, StaleFree, StaleFinishRef, FlushHandled, FinishRefRow, LoopType
    <3> QED
      BY <3>1, <3>2
  <2> QED
    BY <1>0, <2>1, IdleSessions
<1>5. CASE StaleWrite
  <2>1. /\ WriteRow(loop.exec, loop.obj) \/ row' = row
        /\ UNCHANGED <<run, wfEvent, claims, req>> /\ loop'.exec = loop.exec /\ loop'.obj = loop.obj
    BY <1>0, <1>5 DEF StaleWrite, LoopType
  <2>2. \A x \in Execs : row'[x].sess = row[x].sess \/ Belongs(x, row'[x].sess)
    BY <1>0, <2>1, WriteFields
  <2> QED
    BY <1>0, <2>1, <2>2, IdleSessions
<1>6. ASSUME NEW r \in Runs, FlushWrite(r)
      PROVE  SessionsBelong'
  <2> DEFINE e == run[r].exec
             o == run[r].obj
  <2>0. e \in Execs /\ o \in RowType /\ Belongs(e, o.sess)
    BY ViewTypes DEF TypeOK, SessionsBelong
  <2>1. /\ UNCHANGED <<wfEvent, claims, req>>
        /\ loop' = loop \/ loop'.obj.sess = 0
    BY <1>0, <1>6 DEF FlushWrite, LoopType, LoopIdle
  <2>2. \/ row' = row /\ run' = run
        \/ WriteRow(e, o) /\ \E p \in PC : run' = [run EXCEPT ![r].pc = p, ![r].obj = row'[e]]
    BY <1>6 DEF FlushWrite, PC
  <2>3. \A x \in Execs : row'[x].sess = row[x].sess \/ Belongs(x, row'[x].sess)
    BY <1>0, <2>0, <2>2, WriteFields
  <2>4. WriteRow(e, o) => row'[e].sess = o.sess
    BY <1>0, <2>0, WriteFields
  <2>5. \A x \in Runs : /\ run'[x].exec = run[x].exec /\ run'[x].sess = run[x].sess
                        /\ run'[x].obj.sess = run[x].obj.sess
    <3>1. CASE run' = run
      BY <3>1
    <3>2. ASSUME WriteRow(e, o), NEW p \in PC, run' = [run EXCEPT ![r].pc = p, ![r].obj = row'[e]]
          PROVE  \A x \in Runs : /\ run'[x].exec = run[x].exec /\ run'[x].sess = run[x].sess
                                 /\ run'[x].obj.sess = run[x].obj.sess
      <4>1. \A x \in Runs \ {r} : run'[x] = run[x]
        BY <1>0, <3>2
      <4>2. run'[r].exec = run[r].exec /\ run'[r].sess = run[r].sess /\ run'[r].obj = row'[e]
        BY <1>0, <3>2 DEF RunType
      <4> QED
        BY <2>4, <3>2, <4>1, <4>2
    <3> QED
      BY <2>2, <3>1, <3>2
  <2> QED
    BY <2>1, <2>3, <2>5, IdleSessions
<1>7. CASE FlushRead
  <2>1. \A x \in Runs : /\ run'[x].exec = run[x].exec /\ run'[x].sess = run[x].sess
                        /\ run'[x].obj.sess = run[x].obj.sess
    BY <1>0, <1>7 DEF FlushRead, NoLongerPending, RunType
  <2> QED
    BY <1>0, <1>7, <2>1, IdleSessions DEF FlushRead
<1> QED
  BY <1>1, <1>2, <1>3, <1>4, <1>5, <1>6, <1>7 DEF LoopStep

(* A request keeps the row it read.                                        *)
LEMMA RequestSessions ==
  ASSUME TypeOK, TypeOK', SessionsBelong, NEW q \in Reqs, AskStep(q) \/ RequestStep(q)
  PROVE  SessionsBelong'
<1> DEFINE e == req[q].exec
           o == req[q].obj
<1> USE DEF storeVars, queueVars, runVars
<1>0. /\ req \in [Reqs -> ReqType] /\ req[q] \in ReqType /\ e \in Execs /\ StoreTypeOK /\ o \in RowType
      /\ ReqIdle \in ReqType /\ ReqIdle.obj.sess = 0 /\ row \in [Execs -> RowType]
      /\ Belongs(e, o.sess) /\ \A x \in Execs : Belongs(x, row[x].sess)
  BY ReqViewTypes, LoopIdleType DEF TypeOK, ManagerTypeOK, StoreTypeOK, SessionsBelong, ReqIdle, NoRow
<1>1. /\ \A x \in Runs : run'[x].exec = run[x].exec /\ run'[x].sess = run[x].sess /\ run'[x].obj = run[x].obj
      /\ UNCHANGED <<wfEvent, claims, loop>>
  <2>1. run' = run \/ \E S : run' = Signalled(S)
    BY DEF AskStep, AskCancel, AskDelete, AskRetry, AskResume, AskDrop, PauseQueue, View, Ask,
           RequestStep, CancelWrite, CancelStop, CancelFree, DeleteExecution, DropNext, DropScheduler,
           PersonRequeue
  <2>2. UNCHANGED <<wfEvent, claims, loop>>
    BY DEF AskStep, AskCancel, AskDelete, AskRetry, AskResume, AskDrop, PauseQueue, View, Ask,
           RequestStep, CancelWrite, CancelStop, CancelFree, DeleteExecution, DropNext, DropScheduler,
           PersonRequeue
  <2> QED
    BY <2>1, <2>2, RunsIdle DEF Idle, TypeOK
<1>2. \A p \in Reqs \ {q} : req'[p] = req[p]
  BY <1>0 DEF AskStep, AskCancel, AskDelete, AskRetry, AskResume, AskDrop, PauseQueue, View, Ask,
              RequestStep, CancelWrite, CancelStop, CancelFree, DeleteExecution, DropNext, DropScheduler,
              PersonRequeue, AfterCancel
<1>3. ASSUME req'[q] = req[q] \/ req'[q].obj.sess = 0 \/ Belongs(req'[q].exec, req'[q].obj.sess),
             \A x \in Execs : row'[x].sess \in {row[x].sess, 0} \/ Belongs(x, row'[x].sess)
      PROVE  SessionsBelong'
  BY <1>1, <1>2, <1>3, IdleSessions
<1>4. ASSUME NEW op, NEW x \in Execs, NEW pc, Ask(q, op, x, pc)
      PROVE  SessionsBelong'
  <2>1. req'[q].exec = x /\ req'[q].obj = row[x] /\ row' = row
    BY <1>0, <1>4 DEF Ask
  <2> QED
    BY <1>0, <1>3, <2>1
<1>5. CASE AskStep(q)
  <2>1. CASE AskDrop(q)
    <3>1. req'[q].obj.sess = 0 /\ row' = row
      BY <1>0, <2>1 DEF AskDrop, ReqIdle, NoRow
    <3> QED
      BY <1>3, <3>1
  <2>2. CASE PauseQueue(q)
    BY <1>3, <2>2 DEF PauseQueue
  <2>3. ASSUME NEW x \in Execs, View(q, x)
        PROVE  SessionsBelong'
    <3>1. \A y \in Execs : row'[y].sess = row[y].sess
      BY <1>0, <2>3, ViewFields DEF View
    <3> QED
      BY <1>3, <2>3, <3>1 DEF View
  <2> QED
    BY <1>4, <1>5, <2>1, <2>2, <2>3 DEF AskStep, AskCancel, AskDelete, AskRetry, AskResume
<1>6. req' = AfterCancel(q) => req'[q].obj.sess = 0 \/ (req'[q].exec = e /\ req'[q].obj = o)
  BY <1>0 DEF AfterCancel, ReqType
<1>7. CASE CancelWrite(q)
  <2>1. /\ CancelRow(e) \/ row' = row
        /\ req' = AfterCancel(q) \/ req' = [req EXCEPT ![q].pc = "stop"]
    BY <1>7 DEF CancelWrite
  <2>2. req'[q].obj.sess = 0 \/ (req'[q].exec = e /\ req'[q].obj = o)
    BY <1>0, <1>6, <2>1 DEF ReqType
  <2>3. \A x \in Execs : row'[x].sess = row[x].sess
    BY <1>0, <2>1, CancelFields
  <2> QED
    BY <1>0, <1>3, <2>2, <2>3
<1>8. CASE CancelStop(q) \/ CancelFree(q)
  <2>1. row' = row /\ (req' = AfterCancel(q) \/ req' = [req EXCEPT ![q].pc = "free"])
    BY <1>8 DEF CancelStop, CancelFree, FinishRefRow
  <2>2. req'[q].obj.sess = 0 \/ (req'[q].exec = e /\ req'[q].obj = o)
    BY <1>0, <1>6, <2>1 DEF ReqType
  <2> QED
    BY <1>0, <1>3, <2>1, <2>2
<1>9. CASE DeleteExecution(q) \/ DropScheduler(q)
  <2>1. req'[q] = ReqIdle /\ \E S : DeleteRows(S)
    BY <1>0, <1>9 DEF DeleteExecution, DropScheduler
  <2>2. \A x \in Execs : row'[x].sess \in {row[x].sess, 0}
    BY <1>0, <2>1, DeleteFields DEF NoRow
  <2> QED
    BY <1>0, <1>3, <2>1, <2>2
<1>10. CASE DropNext(q)
  <2>1. PICK x \in req[q].todo :
          req' = IF IsActive(x) THEN [req EXCEPT ![q].pc = "write", ![q].exec = x, ![q].obj = row[x]]
                 ELSE [req EXCEPT ![q].todo = @ \ {x}]
    BY <1>10 DEF DropNext
  <2>2. x \in Execs /\ row' = row
    BY <1>0, <1>10 DEF DropNext, ReqType
  <2>3. \/ req'[q].exec = x /\ req'[q].obj = row[x]
        \/ req'[q].exec = e /\ req'[q].obj = o
    BY <1>0, <2>1 DEF ReqType
  <2> QED
    BY <1>0, <1>3, <2>2, <2>3
<1>11. CASE PersonRequeue(q)
  <2>1. (RequeueRow(e, SentAgain(o, req[q].op)) \/ row' = row) /\ req'[q] = ReqIdle
    BY <1>0, <1>11 DEF PersonRequeue, SentAgain
  <2>2. SentAgain(o, req[q].op) \in RowType
    BY <1>0, SentAgainFields
  <2>3. SentAgain(o, req[q].op).sess \in {o.sess, 0}
    BY <1>0 DEF SentAgain, Requeued, RowType
  <2>4. \A x \in Execs : row'[x].sess \in {row[x].sess, 0} \/ Belongs(x, row'[x].sess)
    BY <1>0, <2>1, <2>2, <2>3, RequeueFields
  <2> QED
    BY <1>0, <1>3, <2>1, <2>4
<1> QED
  BY <1>5, <1>7, <1>8, <1>9, <1>10, <1>11 DEF RequestStep

(* Every step keeps each session with the execution that made it.          *)
LEMMA NextSessions ==
  ASSUME TypeOK, TypeOK', ViewsCurrent, FencesHold, SessionsBelong, [Next]_vars
  PROVE  SessionsBelong'
<1> USE DEF storeVars, queueVars, runVars
<1>0. /\ MovesOn /\ StoreTypeOK /\ row \in [Execs -> RowType] /\ run \in [Runs -> RunType]
      /\ wfEvent \in [Execs -> {0} \cup Runs]
  BY NextCurrent DEF AllCurrent, RunsStayCurrent, TypeOK, StoreTypeOK, RunsTypeOK
<1>1. ASSUME NEW e \in Execs, Create(e) \/ Expire(e) \/ RefOrphan(e) \/ SettleOrphan(e)
      PROVE  SessionsBelong'
  <2> DEFINE q == Requeued(row[e], FALSE)
             f == Held([row[e] EXCEPT !.status = "failed"])
  <2>1. q \in RowType /\ q.sess = 0 /\ f \in RowType /\ f.sess = row[e].sess
    <3>1. q \in RowType
      BY <1>0, RequeuedFields
    <3>2. q.sess = 0 /\ f \in RowType /\ f.sess = row[e].sess
      BY <1>0 DEF Requeued, Held, RowType, Status, Terminal
    <3> QED
      BY <3>1, <3>2
  <2>2. \A x \in Execs : row'[x].sess \in {row[x].sess, 0}
    <3>1. CASE Create(e)
      BY <1>0, <3>1 DEF Create, CreateRow, NoRow, RowType
    <3>2. CASE Expire(e)
      BY <1>0, <3>2, CancelFields DEF Expire
    <3>3. CASE RefOrphan(e) \/ SettleOrphan(e)
      <4>1. RequeueRow(e, q) \/ WriteRow(e, f)
        BY <3>3 DEF RefOrphan, SettleOrphan
      <4> HIDE DEF q, f
      <4> QED
        BY <1>0, <2>1, <4>1, WriteFields, RequeueFields
    <3> QED
      BY <1>1, <3>1, <3>2, <3>3
  <2>3. UNCHANGED <<run, claims, wfEvent, loop, req>>
    BY <1>1 DEF Create, Expire, RefOrphan, SettleOrphan, managerVars
  <2> QED
    BY <2>2, <2>3, IdleSessions
<1>2. ASSUME NEW e \in Execs, LoseClaim(e)
      PROVE  SessionsBelong'
  BY <1>2, ClaimSessions DEF LoseClaim
<1>3. ASSUME NEW r \in Runs, RunProgress(r)
      PROVE  SessionsBelong'
  <2>1. UNCHANGED <<mgr, loop, req, claims>> /\ RunStep(r)
    BY <1>3 DEF RunProgress, managerVars, RunStep, ReadScheduler, DispatchFails, StartSession, Register, Check,
                  Open, StartEffect, WorkEnds, EndWork, Interrupted, AbsoluteTimeout, GuardTimeout, GuardCancel,
                  LateWorkEnds, Save, Reread, Fail, FailWrite, InterruptRead, InterruptJudge,
                  InterruptRequeue, Release, FinishRef, Judge, Settle
  <2>2. Alone(r)
    BY <1>0, <2>1, RunStepFenced
  <2> QED
    BY <2>1, <2>2, RunSessionsBelong
<1>4. ASSUME NEW r \in Runs, FailSave(r)
      PROVE  SessionsBelong'
  <2> DEFINE e == run[r].exec
             o == run[r].obj
  <2>0. e \in Execs /\ o \in RowType /\ Belongs(e, o.sess)
    BY ViewTypes DEF TypeOK, SessionsBelong
  <2>1. /\ \E a \in BOOLEAN : SaveFails(r, a)
        /\ UNCHANGED <<loop, req>>
    BY <1>4 DEF FailSave
  <2>2. /\ WriteRow(e, o) \/ row' = row
        /\ UNCHANGED <<claims, wfEvent>>
        /\ run' = [x \in Runs |-> IF x = r THEN [run[x] EXCEPT !.pc = "pending"] ELSE NoLongerPending(x, e)]
    BY <2>1 DEF SaveFails
  <2>3. \A x \in Runs : /\ run'[x].exec = run[x].exec /\ run'[x].sess = run[x].sess
                        /\ run'[x].obj.sess = run[x].obj.sess
    BY <1>0, <2>2 DEF NoLongerPending, RunType
  <2>4. \A x \in Execs : row'[x].sess = row[x].sess \/ Belongs(x, row'[x].sess)
    BY <1>0, <2>0, <2>2, WriteFields
  <2> QED
    BY <2>1, <2>2, <2>3, <2>4, IdleSessions
<1>5. CASE Stop \/ Quit \/ Crash
  <2>1. UNCHANGED <<row, claims>> /\ loop' = LoopIdle /\ (req' = req \/ \A q \in Reqs : req'[q] = ReqIdle)
    BY <1>5 DEF Stop, Quit, Crash, Gone
  <2>2. \A x \in Runs : /\ run'[x].exec = run[x].exec /\ run'[x].sess = run[x].sess
                        /\ run'[x].obj.sess = run[x].obj.sess
    <3> SUFFICES ASSUME NEW x \in Runs
                 PROVE  run'[x].exec = run[x].exec /\ run'[x].sess = run[x].sess /\ run'[x].obj = run[x].obj
      OBVIOUS
    <3>1. run[x] \in RunType
      BY <1>0
    <3>2. CASE Stop
      <4>1. run'[x] = Interruption(run[x])
        BY <3>2 DEF Stop
      <4> QED
        BY <3>1, <4>1 DEF Interruption, RunType
    <3>3. CASE Gone
      <4> DEFINE w == IF run[x].work = "none" THEN run[x].work ELSE "ended"
      <4>1. run'[x] = IF run[x].pc = "unused" THEN run[x] ELSE [run[x] EXCEPT !.pc = "over", !.work = w]
        BY <3>3 DEF Gone
      <4> HIDE DEF w
      <4> QED
        BY <3>1, <4>1 DEF RunType
    <3> QED
      BY <1>5, <3>2, <3>3 DEF Quit, Crash
  <2>3. \A e \in Execs : wfEvent'[e] \in {wfEvent[e], 0}
    BY <1>5 DEF Stop, Quit, Crash, Gone
  <2>4. loop'.obj.sess = 0 /\ \A q \in Reqs : req'[q] = req[q] \/ req'[q].obj.sess = 0
    BY <2>1 DEF LoopIdle, ReqIdle, NoRow
  <2> QED
    BY <2>1, <2>2, <2>3, <2>4, IdleSessions
<1>6. CASE Start \/ Started \/ ResumeQueue \/ UNCHANGED vars
  <2>1. UNCHANGED <<row, run, claims, wfEvent, loop, req>>
    BY <1>6 DEF Start, RequeueRunningRefs, Started, ResumeQueue, vars, managerVars
  <2> QED
    BY <2>1, IdleSessions
<1>7. CASE LoopStep
  BY <1>7, LoopSessions
<1>8. ASSUME NEW q \in Reqs, AskStep(q) \/ RequestStep(q)
      PROVE  SessionsBelong'
  BY <1>8, RequestSessions
<1> QED
  BY <1>1, <1>2, <1>3, <1>4, <1>5, <1>6, <1>7, <1>8 DEF Next

(* At first there is none.                                                 *)
LEMMA InitSessions == Init => SessionsBelong
BY DEF Init, StoreInit, RunsInit, NoRow, NewRun, LoopIdle, ReqIdle, SessionsBelong, Belongs

-----------------------------------------------------------------------------
(* What people did not ask for has not happened.                           *)
LEMMA RequestsAsAsked ==
  ASSUME TypeOK, AsAsked, NEW q \in Reqs, AskStep(q) \/ RequestStep(q)
  PROVE  AsAsked'
<1> DEFINE e == req[q].exec
           Good(y) == y.pc # "idle" => y.op \in Ops /\ (y.pc \in {"delete", "drop"} => y.op = y.pc)
           Gone0 == \E x \in Execs : row[x].status = "deleted"
           Gone1 == \E x \in Execs : row'[x].status = "deleted"
<1> USE DEF storeVars, queueVars, runVars
<1>0. /\ req \in [Reqs -> ReqType] /\ req[q] \in ReqType /\ e \in Execs /\ StoreTypeOK
      /\ req[q].obj \in RowType /\ \A p \in Reqs : Good(req[p])
  BY ReqViewTypes DEF TypeOK, ManagerTypeOK, AsAsked
<1>1. ASSUME Good(req'[q]), \A p \in Reqs \ {q} : req'[p] = req[p],
             sched' = sched \/ "drop" \in Ops, (Gone1 => Gone0) \/ Ops \cap {"delete", "drop"} # {}
      PROVE  AsAsked'
  BY <1>0, <1>1 DEF AsAsked
<1>2. ASSUME NEW op, NEW x \in Execs, NEW pc, Ask(q, op, x, pc), pc # "drop", pc = "delete" => op = "delete"
      PROVE  AsAsked'
  <2>1. req'[q].pc = pc /\ req'[q].op = op /\ op \in Ops /\ UNCHANGED <<row, sched>>
        /\ \A p \in Reqs \ {q} : req'[p] = req[p]
    BY <1>0, <1>2 DEF Ask, Asked
  <2> QED
    BY <1>1, <1>2, <2>1
<1>3. ASSUME NEW x \in Execs, AskCancel(q, x) \/ AskDelete(q, x) \/ AskRetry(q, x) \/ AskResume(q, x)
      PROVE  AsAsked'
  BY <1>2, <1>3 DEF AskCancel, AskDelete, AskRetry, AskResume
<1>4. CASE AskDrop(q)
  <2>1. req'[q].pc = "drop" /\ req'[q].op = "drop" /\ "drop" \in Ops /\ UNCHANGED <<row, sched>>
        /\ \A p \in Reqs \ {q} : req'[p] = req[p]
    BY <1>0, <1>4 DEF AskDrop, Asked, ReqIdle
  <2> QED
    BY <1>1, <2>1
<1>5. CASE PauseQueue(q) \/ \E x \in Execs : View(q, x)
  <2>1. req' = req /\ sched' = sched
    BY <1>5 DEF PauseQueue, View
  <2>2. Gone1 => Gone0
    BY <1>0, <1>5, ViewFields DEF PauseQueue, View
  <2> QED
    BY <1>0, <1>1, <2>1, <2>2
<1>6. req' = AfterCancel(q) /\ req[q].pc # "idle" => Good(req'[q]) /\ \A p \in Reqs \ {q} : req'[p] = req[p]
  <2>1. CASE req[q].op = "delete"
    BY <1>0, <2>1 DEF AfterCancel, ReqType
  <2>2. CASE req[q].op = "drop"
    BY <1>0, <2>2 DEF AfterCancel, ReqType
  <2>3. CASE req[q].op \notin {"delete", "drop"}
    BY <1>0, <2>3 DEF AfterCancel, ReqIdle
  <2> QED
    BY <2>1, <2>2, <2>3
<1>7. ASSUME NEW p \in {"stop", "free"}, req' = [req EXCEPT ![q].pc = p], req[q].pc # "idle"
      PROVE  Good(req'[q]) /\ \A y \in Reqs \ {q} : req'[y] = req[y]
  BY <1>0, <1>7 DEF ReqType
<1>8. CASE CancelWrite(q)
  <2>1. /\ req[q].pc # "idle" /\ sched' = sched /\ (CancelRow(e) \/ row' = row)
        /\ req' = AfterCancel(q) \/ req' = [req EXCEPT ![q].pc = "stop"]
    BY <1>8 DEF CancelWrite
  <2>2. Gone1 => Gone0
    BY <1>0, <2>1, CancelFields
  <2> QED
    BY <1>1, <1>6, <1>7, <2>1, <2>2
<1>9. CASE CancelStop(q) \/ CancelFree(q)
  <2>1. /\ req[q].pc # "idle" /\ sched' = sched /\ row' = row
        /\ req' = AfterCancel(q) \/ req' = [req EXCEPT ![q].pc = "free"]
    BY <1>9 DEF CancelStop, CancelFree, FinishRefRow
  <2> QED
    BY <1>1, <1>6, <1>7, <2>1
<1>10. CASE DeleteExecution(q) \/ DropScheduler(q)
  <2>1. /\ req[q].pc \in {"delete", "drop"} /\ req[q].op = req[q].pc /\ req[q].op \in Ops
        /\ sched' = sched \/ req[q].pc = "drop"
        /\ req'[q].pc = "idle" /\ \A y \in Reqs \ {q} : req'[y] = req[y]
    BY <1>0, <1>10 DEF DeleteExecution, DropScheduler, ReqIdle
  <2> QED
    BY <1>1, <2>1
<1>11. CASE DropNext(q)
  <2>1. PICK x \in req[q].todo :
          req' = IF IsActive(x) THEN [req EXCEPT ![q].pc = "write", ![q].exec = x, ![q].obj = row[x]]
                 ELSE [req EXCEPT ![q].todo = @ \ {x}]
    BY <1>11 DEF DropNext
  <2>2. /\ req[q].pc = "drop" /\ UNCHANGED <<row, sched>>
        /\ req'[q].op = req[q].op /\ req'[q].pc \in {"drop", "write"} /\ \A y \in Reqs \ {q} : req'[y] = req[y]
    BY <1>0, <1>11, <2>1 DEF DropNext, ReqType
  <2> QED
    BY <1>0, <1>1, <2>2
<1>12. CASE PersonRequeue(q)
  <2>1. /\ RequeueRow(e, SentAgain(req[q].obj, req[q].op)) \/ row' = row
        /\ sched' = sched /\ req'[q].pc = "idle" /\ \A y \in Reqs \ {q} : req'[y] = req[y]
    BY <1>0, <1>12 DEF PersonRequeue, SentAgain, ReqIdle
  <2>2. Gone1 => Gone0
    BY <1>0, <2>1, SentAgainFields, RequeueFields
  <2> QED
    BY <1>1, <2>1, <2>2
<1> QED
  BY <1>3, <1>4, <1>5, <1>8, <1>9, <1>10, <1>11, <1>12 DEF AskStep, RequestStep

(* Every step does only what was asked for.                                *)
LEMMA NextAsked ==
  ASSUME TypeOK, TypeOK', ViewsCurrent, FencesHold, WorkInOrder, AsAsked, [Next]_vars
  PROVE  AsAsked'
<1> USE DEF storeVars, queueVars, runVars
<1>0. /\ StoreTypeOK /\ row \in [Execs -> RowType] /\ run \in [Runs -> RunType] /\ OwnersInStep /\ DoubtIsKnown
  BY DEF TypeOK, StoreTypeOK, RunsTypeOK, WorkInOrder
<1>1. ASSUME req' = req \/ (\A q \in Reqs : req'[q] = ReqIdle), sched' = sched,
             \A e \in Execs : row'[e].status = "deleted" => row[e].status = "deleted"
      PROVE  AsAsked'
  BY <1>1 DEF AsAsked, ReqIdle
<1>2. ASSUME NEW e \in Execs, Create(e) \/ Expire(e) \/ RefOrphan(e) \/ SettleOrphan(e)
      PROVE  AsAsked'
  <2> DEFINE q == Requeued(row[e], FALSE)
             f == Held([row[e] EXCEPT !.status = "failed"])
  <2>1. q \in RowType /\ q.status = "queued" /\ f \in RowType /\ f.status = "failed"
    <3>1. q \in RowType /\ q.status = "queued"
      BY <1>0, RequeuedFields
    <3>2. f \in RowType /\ f.status = "failed"
      BY <1>0 DEF Held, RowType, Status, Terminal
    <3> QED
      BY <3>1, <3>2
  <2>2. \A x \in Execs : row'[x].status = "deleted" => row[x].status = "deleted"
    <3>1. CASE Create(e) \/ Expire(e)
      BY <1>0, <3>1, CreateFields, CancelFields DEF Create, Expire
    <3>2. CASE RefOrphan(e) \/ SettleOrphan(e)
      <4>1. RequeueRow(e, q) \/ WriteRow(e, f)
        BY <3>2 DEF RefOrphan, SettleOrphan
      <4> HIDE DEF q, f
      <4> QED
        BY <1>0, <2>1, <4>1, WriteFields, RequeueFields
    <3> QED
      BY <1>2, <3>1, <3>2
  <2>3. req' = req /\ sched' = sched
    BY <1>2 DEF Create, Expire, RefOrphan, SettleOrphan, managerVars
  <2> QED
    BY <1>1, <2>2, <2>3
<1>3. ASSUME NEW e \in Execs, NEW r \in Nat, ClaimRow(e, r), req' = req, sched' = sched
      PROVE  AsAsked'
  BY <1>0, <1>1, <1>3, ClaimFields
<1>4. ASSUME NEW e \in Execs, LoseClaim(e) \/ Dequeue(e)
      PROVE  AsAsked'
  <2>1. claims + 1 \in Nat
    BY DEF TypeOK, RunsTypeOK
  <2> QED
    BY <1>3, <1>4, <2>1 DEF LoseClaim, Dequeue, managerVars
<1>5. ASSUME NEW r \in Runs, RunProgress(r) \/ FailSave(r)
      PROVE  AsAsked'
  <2>1. RunStep(r) \/ \E a \in BOOLEAN : SaveFails(r, a)
    BY <1>5 DEF RunProgress, FailSave
  <2>2. OneStatusStep
    BY <1>0, <2>1, RunStatus
  <2>3. \A e \in Execs : row'[e].status = "deleted" => row[e].status = "deleted"
    BY <2>2 DEF OneStatusStep, StatusStep
  <2>4. req' = req
    BY <1>5 DEF RunProgress, FailSave, managerVars
  <2>5. sched' = sched
    BY <2>1 DEF RunStep, ReadScheduler, DispatchFails, StartSession, Register, Check,
                  Open, StartEffect, WorkEnds, EndWork, Interrupted, AbsoluteTimeout, GuardTimeout, GuardCancel,
                  LateWorkEnds, Save, Reread, Fail, FailWrite, InterruptRead, InterruptJudge,
                  InterruptRequeue, Release, FinishRef, Judge, Settle, SaveFails
  <2> QED
    BY <1>1, <2>3, <2>4, <2>5
<1>6. CASE Stop \/ Quit \/ Crash \/ Start \/ Started \/ ResumeQueue \/ UNCHANGED vars
  <2>1. UNCHANGED <<row, sched>> /\ (req' = req \/ \A q \in Reqs : req'[q] = ReqIdle)
    BY <1>6 DEF Stop, Quit, Crash, Gone, Start, RequeueRunningRefs, Started, ResumeQueue, vars, managerVars
  <2> QED
    BY <1>1, <2>1
<1>7. CASE LoopStep
  <2>1. req' = req /\ sched' = sched
    BY <1>7 DEF LoopStep, Dequeue, TakeRow, TakeStale, FlushWrite, LoopRequeue, StaleJudge, StaleFail, StaleWrite,
                StaleFree, StaleFinishRef, FlushRead, FlushHandled, managerVars
  <2>2. CASE \E e \in Execs : Dequeue(e)
    BY <1>4, <2>2
  <2>3. CASE \/ \E e \in Execs : TakeRow(e) \/ TakeStale(e)
             \/ StaleJudge \/ StaleFail \/ StaleFree \/ StaleFinishRef \/ FlushRead \/ FlushHandled
    BY <1>1, <2>1, <2>3 DEF TakeRow, TakeStale, StaleJudge, StaleFail, StaleFree, StaleFinishRef, FlushRead,
                            FlushHandled, FinishRefRow
  <2>4. CASE LoopRequeue
    <3> DEFINE q == Requeued(loop.obj, FALSE)
               n == IF loop.pc = "retry" THEN [q EXCEPT !.due = FALSE] ELSE q
    <3>1. n \in RowType /\ n.status = "queued" /\ loop.exec \in Execs
      <4>1. q \in RowType /\ q.status = "queued" /\ loop.exec \in Execs
        BY LoopViewTypes, RequeuedFields DEF TypeOK
      <4> HIDE DEF q
      <4> QED
        BY <4>1 DEF RowType
    <3>2. RequeueRow(loop.exec, n) \/ row' = row
      BY <2>4 DEF LoopRequeue
    <3> HIDE DEF n
    <3> QED
      BY <1>0, <1>1, <2>1, <3>1, <3>2, RequeueFields
  <2>5. CASE StaleWrite
    <3>1. loop.obj.status = "failed" /\ loop.obj \in RowType /\ loop.exec \in Execs
      BY <2>5, LoopViewTypes DEF TypeOK, StaleWrite, ViewsCurrent, LoopCurrent
    <3> QED
      BY <1>0, <1>1, <2>1, <2>5, <3>1, WriteFields DEF StaleWrite
  <2>6. ASSUME NEW r \in Runs, FlushWrite(r)
        PROVE  AsAsked'
    <3>1. run[r].obj.status \in Terminal /\ run[r].obj \in RowType /\ run[r].exec \in Execs
      BY <2>6, ViewTypes DEF TypeOK, FlushWrite, ViewsCurrent, RunCurrent
    <3>2. WriteRow(run[r].exec, run[r].obj) \/ row' = row
      BY <2>6 DEF FlushWrite
    <3> QED
      BY <1>0, <1>1, <2>1, <3>1, <3>2, WriteFields DEF Terminal
  <2> QED
    BY <1>7, <2>2, <2>3, <2>4, <2>5, <2>6 DEF LoopStep
<1>8. ASSUME NEW q \in Reqs, AskStep(q) \/ RequestStep(q)
      PROVE  AsAsked'
  BY <1>8, RequestsAsAsked
<1> QED
  BY <1>2, <1>4, <1>5, <1>6, <1>7, <1>8 DEF Next

(* At first nothing has been.                                              *)
LEMMA InitAsked == Init => AsAsked
BY DEF Init, StoreInit, RunsInit, NoRow, ReqIdle, AsAsked

-----------------------------------------------------------------------------
(* References.  A dispatcher makes no row running, and starts none anew:   *)
(* only a claim does.                                                      *)
LEMMA RunKeepsRunning ==
  ASSUME TypeOK, ViewsCurrent, FencesHold, OwnersInStep, NEW r \in Runs,
         RunStep(r) \/ \E a \in BOOLEAN : SaveFails(r, a)
  PROVE  \A x \in Execs : row'[x].status = "running" =>
           row[x].status = "running" /\ row'[x].started = row[x].started
<1> DEFINE e == run[r].exec
           o == run[r].obj
           Same == \A x \in Execs : row'[x].status = "running" =>
                     row[x].status = "running" /\ row'[x].started = row[x].started
<1> USE DEF storeVars
<1>0. /\ run[r] \in RunType /\ e \in Execs /\ o \in RowType /\ RunCurrent(r) /\ row \in [Execs -> RowType]
      /\ StoreTypeOK /\ r \in Nat /\ r # 0 /\ OwnerHasRow(r) /\ o.count + 1 \in Nat
  BY ViewTypes DEF TypeOK, ViewsCurrent, StoreTypeOK, Runs, OwnersInStep, RowType
<1>1. ASSUME NEW n \in RowType, n.status # "running", WriteRow(e, n) \/ RequeueRow(e, n)
      PROVE  Same
  BY <1>0, <1>1, WriteFields, RequeueFields
<1>2. CASE UNCHANGED row
  BY <1>2
<1>3. CASE ReadScheduler(r)
  <2>1. ~sched => ~Present(e)
    BY <1>0 DEF ViewsCurrent, StartCurrent
  <2> QED
    BY <1>2, <1>3, <2>1 DEF ReadScheduler
<1>4. CASE StartSession(r)
  <2>1. UNCHANGED row \/ (IsActive(e) /\ StartRow(e, o.sess, o.started))
    BY <1>4 DEF StartSession
  <2>2. Owns(r)
    BY <1>4 DEF StartSession, Owns, OwnPC, PC
  <2>3. CASE IsActive(e) /\ StartRow(e, o.sess, o.started)
    <3>1. o.sess \in Nat /\ o.started \in Nat
      BY <1>0 DEF RowType
    <3>2. row[e].status = "running" /\ row[e].started = r
      BY <1>0, <2>2, <2>3 DEF OwnerHasRow, CalledOff, IsActive, Active
    <3> QED
      BY <1>0, <2>3, <3>1, <3>2, StartFields
  <2> QED
    BY <1>2, <2>1, <2>3
<1>5. CASE Save(r) \/ FailWrite(r) \/ \E a \in BOOLEAN : SaveFails(r, a)
  <2>1. UNCHANGED row \/ WriteRow(e, o)
    BY <1>5 DEF Save, FailWrite, SaveFails
  <2>2. o.status # "running"
    BY <1>0, <1>5 DEF Save, FailWrite, SaveFails, RunCurrent, Terminal
  <2> QED
    BY <1>0, <1>1, <1>2, <2>1, <2>2
<1>6. CASE InterruptRequeue(r)
  <2>1. UNCHANGED row \/ RequeueRow(e, Requeued(o, FALSE))
    BY <1>6 DEF InterruptRequeue
  <2> QED
    BY <1>0, <1>1, <1>2, <2>1, RequeuedFields
<1>7. CASE Settle(r)
  <2> DEFINE n == IF run[r].pc = "hold" THEN Held(o) ELSE [o EXCEPT !.count = @ + 1, !.due = TRUE]
  <2>1. UNCHANGED row \/ WriteRow(e, n)
    BY <1>7 DEF Settle
  <2>2. n \in RowType /\ n.status = "failed"
    BY <1>0, <1>7 DEF Settle, RunCurrent, Held, RowType
  <2> HIDE DEF n
  <2> QED
    BY <1>1, <1>2, <2>1, <2>2
<1> QED
  BY <1>2, <1>3, <1>4, <1>5, <1>6, <1>7
  DEF RunStep, DispatchFails, Register, Check, Open,
      StartEffect, WorkEnds, EndWork, Interrupted, AbsoluteTimeout, GuardTimeout, GuardCancel,
      LateWorkEnds, Reread, Fail, InterruptRead, InterruptJudge, Release, FinishRef, FinishRefRow, Judge

(* A row and its reference fit, once start is through.                     *)
RefFits(e) == /\ row[e].status = "running" <=> ref[e] = "running"
              /\ ref[e] = "queued" => row[e].status = "queued"

(* A write that ends or requeues an execution takes its reference along.   *)
LEMMA WritesFit ==
  ASSUME StoreTypeOK, \A x \in Execs : RefFits(x), NEW e \in Execs, NEW o \in RowType,
         \/ WriteRow(e, o) /\ o.status \in Terminal
         \/ RequeueRow(e, o) /\ o.status = "queued"
  PROVE  \A x \in Execs : RefFits(x)'
<1>1. /\ \A x \in Execs \ {e} : row'[x] = row[x]
      /\ row'[e].status = o.status
  BY WriteFields, RequeueFields
<1>2. CASE WriteRow(e, o) /\ o.status \in Terminal
  BY <1>1, <1>2 DEF WriteRow, RefFits, StoreTypeOK, Terminal
<1>3. CASE RequeueRow(e, o) /\ o.status = "queued"
  BY <1>1, <1>3 DEF RequeueRow, RefFits, StoreTypeOK
<1> QED
  BY <1>2, <1>3

(* A dispatcher's writes keep references with their rows: the last one,    *)
(* finish_queue_ref, finds a reference only where the row is another's.    *)
LEMMA RunRefs ==
  ASSUME TypeOK, ViewsCurrent, FencesHold, OwnersInStep, NEW r \in Runs, CalledOffFirst(r),
         \A x \in Execs : RefFits(x),
         RunStep(r) \/ \E a \in BOOLEAN : SaveFails(r, a)
  PROVE  \A x \in Execs : RefFits(x)'
<1> DEFINE e == run[r].exec
           o == run[r].obj
<1> USE DEF storeVars
<1>0. /\ run[r] \in RunType /\ e \in Execs /\ o \in RowType /\ RunCurrent(r) /\ row \in [Execs -> RowType]
      /\ StoreTypeOK /\ r \in Nat /\ r # 0 /\ OwnerHasRow(r) /\ o.count + 1 \in Nat
  BY ViewTypes DEF TypeOK, ViewsCurrent, StoreTypeOK, Runs, OwnersInStep, RowType
<1>2. CASE UNCHANGED <<row, ref>>
  BY <1>2 DEF RefFits
<1>3. CASE ReadScheduler(r)
  <2>1. ~sched => ~Present(e)
    BY <1>0 DEF ViewsCurrent, StartCurrent
  <2> QED
    BY <1>2, <1>3, <2>1 DEF ReadScheduler
<1>4. CASE StartSession(r)
  <2>1. UNCHANGED <<row, ref>> \/ (IsActive(e) /\ StartRow(e, o.sess, o.started))
    BY <1>4 DEF StartSession
  <2>2. Owns(r)
    BY <1>4 DEF StartSession, Owns, OwnPC, PC
  <2>3. CASE IsActive(e) /\ StartRow(e, o.sess, o.started)
    <3>1. o.sess \in Nat /\ o.started \in Nat
      BY <1>0 DEF RowType
    <3>2. row[e].status = "running"
      BY <1>0, <2>2, <2>3 DEF OwnerHasRow, CalledOff, IsActive, Active
    <3>3. \A x \in Execs : row'[x].status = row[x].status
      BY <1>0, <2>3, <3>1, <3>2, StartFields
    <3> QED
      BY <2>3, <3>3 DEF StartRow, RefFits
  <2> QED
    BY <1>2, <2>1, <2>3
<1>5. CASE Save(r) \/ FailWrite(r) \/ \E a \in BOOLEAN : SaveFails(r, a)
  <2>1. UNCHANGED <<row, ref>> \/ WriteRow(e, o)
    BY <1>5 DEF Save, FailWrite, SaveFails
  <2>2. o.status \in Terminal
    BY <1>0, <1>5 DEF Save, FailWrite, SaveFails, RunCurrent, Terminal
  <2> QED
    BY <1>0, <1>2, <2>1, <2>2, WritesFit
<1>6. CASE InterruptRequeue(r)
  <2>1. UNCHANGED <<row, ref>> \/ RequeueRow(e, Requeued(o, FALSE))
    BY <1>6 DEF InterruptRequeue
  <2> QED
    BY <1>0, <1>2, <2>1, RequeuedFields, WritesFit
<1>7. CASE Settle(r)
  <2> DEFINE n == IF run[r].pc = "hold" THEN Held(o) ELSE [o EXCEPT !.count = @ + 1, !.due = TRUE]
  <2>1. UNCHANGED <<row, ref>> \/ WriteRow(e, n)
    BY <1>7 DEF Settle
  <2>2. n \in RowType /\ n.status = "failed"
    BY <1>0, <1>7 DEF Settle, RunCurrent, Held, RowType
  <2> HIDE DEF n
  <2> QED
    BY <1>0, <1>2, <2>1, <2>2, WritesFit DEF Terminal
<1>8. CASE FinishRef(r)
  <2>1. row[e].status = "running" => row[e].started # r
    BY <1>8 DEF FinishRef, CalledOffFirst
  <2>2. row[e].status = "queued" => row[e].started # r
    BY <1>0 DEF FencesHold, QueuedUnstarted
  <2>3. row[e].started = r => ref[e] = "none"
    BY <1>0, <2>1, <2>2 DEF RefFits, StoreTypeOK, RefType
  <2> QED
    BY <1>0, <1>2, <1>8, <2>3 DEF FinishRef, FinishRefRow, RefFits, StoreTypeOK
<1> QED
  BY <1>2, <1>3, <1>4, <1>5, <1>6, <1>7, <1>8
  DEF RunStep, DispatchFails, Register, Check, Open,
      StartEffect, WorkEnds, EndWork, Interrupted, AbsoluteTimeout, GuardTimeout, GuardCancel,
      LateWorkEnds, Reread, Fail, InterruptRead, InterruptJudge, Release, Judge

(* The run that takes a step is only stopped where it was called off, and  *)
(* lets go of no row that is still its own.                                *)
LEMMA ActorCalledOff ==
  ASSUME TypeOK, ViewsCurrent, FencesHold, OwnersInStep, MovesOn, NEW r \in Runs, CalledOffFirst(r), RunStep(r)
  PROVE  CalledOffFirst(r)'
<1> DEFINE e == run[r].exec
           o == run[r].obj
           Early == {"scheduler", "start", "register", "check", "open", "work"}
           Late  == {"intread", "intjudge", "intrequeue", "reread", "failreread"}
           Last  == {"release", "finishref"}
<1>0. /\ run[r] \in RunType /\ run \in [Runs -> RunType] /\ e \in Execs /\ o \in RowType /\ RunCurrent(r)
      /\ row \in [Execs -> RowType] /\ StoreTypeOK /\ Fenced(r) /\ OwnerHasRow(r) /\ ObjectAgrees(r)
      /\ CalledOff(e) => CalledOff(e)'
      /\ row'[e].status = "running" => row[e].status = "running" /\ row'[e].started = row[e].started
      /\ run'[r].exec = e
  BY ViewTypes, CalledOffStays, RunKeepsRunning, RunOwnsLess
  DEF TypeOK, RunsTypeOK, ViewsCurrent, StoreTypeOK, OwnersInStep, FencesHold
<1>1. ASSUME run'[r].pc \in Early /\ run'[r].stop => CalledOff(e), run'[r].pc \in Late => CalledOff(e),
             run'[r].pc \in Last => row'[e].status # "running" \/ row'[e].started # r
      PROVE  CalledOffFirst(r)'
  <2>1. (run'[r].pc \in Early /\ run'[r].stop) \/ run'[r].pc \in Late => CalledOff(run[r].exec)'
    BY <1>0, <1>1 DEF CalledOff
  <2> QED
    BY <1>0, <1>1, <2>1 DEF CalledOffFirst
<1>2. CalledOff(e) => row'[e].status # "running"
  BY <1>0 DEF CalledOff
<1> USE DEF RunType
<1>3. CASE ReadScheduler(r)
  <2>1. run[r].pc = "scheduler" /\ run'[r].pc \in {"start", "over"} /\ run'[r].stop = run[r].stop
    BY <1>0, <1>3 DEF ReadScheduler
  <2> QED
    BY <1>1, <2>1 DEF CalledOffFirst
<1>4. CASE DispatchFails(r) \/ AbsoluteTimeout(r) \/ GuardTimeout(r) \/ FinishRef(r) \/ Judge(r) \/ Settle(r)
  <2>1. run'[r].pc \in {"fail", "save", "guard", "judge", "hold", "later", "over"}
    BY <1>0, <1>4 DEF DispatchFails, AbsoluteTimeout, GuardTimeout, FinishRef, Judge, Settle, Done
  <2> QED
    BY <1>1, <2>1
<1>5. CASE StartSession(r)
  <2>1. /\ run[r].pc = "start" /\ run'[r].pc \in {"register", "reread"} /\ run'[r].stop = run[r].stop
        /\ run'[r].pc = "reread" => ~IsActive(e)
    BY <1>0, <1>5 DEF StartSession
  <2>2. ~IsActive(e) => CalledOff(e)
    BY <1>0, <2>1 DEF OwnerHasRow, Owns, OwnPC, PC, IsActive, Active
  <2> QED
    BY <1>1, <2>1, <2>2 DEF CalledOffFirst
<1>6. CASE Register(r)
  <2>1. run[r].pc = "register" /\ run'[r].pc = "check" /\ run'[r].stop = run[r].stop
    BY <1>0, <1>6 DEF Register
  <2> QED
    BY <1>1, <2>1 DEF CalledOffFirst
<1>7. CASE StartEffect(r) \/ LateWorkEnds(r)
  <2>1. run'[r].pc = run[r].pc /\ run'[r].stop = run[r].stop
    BY <1>0, <1>7 DEF StartEffect, LateWorkEnds
  <2> QED
    BY <1>0, <1>1, <2>1 DEF CalledOffFirst
<1>8. ASSUME NEW s, EndWork(r, s)
      PROVE  CalledOffFirst(r)'
  <2>1. run'[r].pc = "save"
    BY <1>0, <1>8 DEF EndWork
  <2> QED
    BY <1>1, <2>1
<1>9. ASSUME Interrupted(r), run[r].stop, run[r].pc \in Early
      PROVE  CalledOffFirst(r)'
  <2>1. run'[r].pc = "intread"
    BY <1>0, <1>9 DEF Interrupted
  <2> QED
    BY <1>1, <1>9, <2>1 DEF CalledOffFirst
<1>10. CASE Check(r)
  <2>1. ASSUME run' = [run EXCEPT ![r].pc = "open"], run[r].pc = "check"
        PROVE  CalledOffFirst(r)'
    BY <1>0, <1>1, <2>1 DEF CalledOffFirst
  <2> QED
    BY <1>8, <1>10, <2>1 DEF Check
<1>11. CASE Open(r)
  <2>1. ASSUME run' = [run EXCEPT ![r].pc = "work", ![r].work = "going"], ~run[r].stop
        PROVE  CalledOffFirst(r)'
    <3>1. run'[r].pc = "work" /\ ~run'[r].stop
      BY <1>0, <2>1
    <3> QED
      BY <1>1, <3>1
  <2> QED
    BY <1>8, <1>9, <1>11, <2>1 DEF Open
<1>12. CASE WorkEnds(r)
  BY <1>8, <1>9, <1>12 DEF WorkEnds
<1>13. CASE GuardCancel(r)
  <2> DEFINE g == Signalled(Reached(e, o.sess))
  <2>1. g \in [Runs -> RunType]
    BY SignalledType DEF TypeOK
  <2>2. run' = [g EXCEPT ![r].pc = "fail"]
    BY <1>13 DEF GuardCancel
  <2> HIDE DEF g
  <2>3. run'[r].pc = "fail"
    BY <2>1, <2>2
  <2> QED
    BY <1>1, <2>3
<1>14. CASE Save(r)
  <2>1. run[r].pc = "save" /\ o.status \in Terminal /\ o.started = r /\ Owns(r)
    BY <1>0, <1>14 DEF Save, RunCurrent, Fenced, FirstObject, InDispatch, Owns, OwnPC, PC
  <2>2. CASE StillActive(e, o)
    <3>1. run' = [run EXCEPT ![r].pc = "release", ![r].obj = row'[e]] /\ WriteRow(e, o)
      BY <1>14, <2>2 DEF Save
    <3>2. run'[r].pc = "release" /\ row'[e].status \in Terminal
      BY <1>0, <2>1, <3>1, WriteFields
    <3> QED
      BY <1>1, <3>2 DEF Terminal
  <2>3. CASE ~StillActive(e, o)
    <3>1. CalledOff(e)
      BY <1>0, <2>1, <2>3 DEF OwnerHasRow, StillActive, IsActive, Active
    <3> QED
      BY <1>1, <1>2, <3>1
  <2> QED
    BY <2>2, <2>3
<1>15. CASE FailWrite(r)
  <2>1. run[r].pc = "failwrite" /\ o.status = "failed" /\ Owns(r)
    BY <1>0, <1>15 DEF FailWrite, RunCurrent, Owns, OwnPC, PC
  <2>2. CASE StillActive(e, o)
    <3>1. run' = [run EXCEPT ![r].pc = "release", ![r].obj = row'[e]] /\ WriteRow(e, o)
      BY <1>15, <2>2 DEF FailWrite
    <3>2. run'[r].pc = "release" /\ row'[e].status = "failed"
      BY <1>0, <2>1, <3>1, WriteFields
    <3> QED
      BY <1>1, <3>2
  <2>3. CASE ~StillActive(e, o)
    <3>1. CalledOff(e)
      BY <1>0, <2>1, <2>3 DEF OwnerHasRow, StillActive, IsActive, Active, ObjectAgrees
    <3> QED
      BY <1>1, <1>2, <3>1
  <2> QED
    BY <2>2, <2>3
<1>16. CASE Reread(r) \/ InterruptRead(r) \/ InterruptRequeue(r)
  <2>1. run[r].pc \in Late
    BY <1>16 DEF Reread, InterruptRead, InterruptRequeue
  <2> QED
    BY <1>1, <1>2, <2>1 DEF CalledOffFirst
<1>17. CASE InterruptJudge(r)
  <2>1. run[r].pc \in Late
    BY <1>17 DEF InterruptJudge
  <2> QED
    BY <1>1, <1>2, <2>1 DEF CalledOffFirst
<1>18. CASE Fail(r)
  <2> DEFINE c == Current(e, o)
             f == [c EXCEPT !.status = "failed"]
             n == IF run[r].exit = "raise" THEN Held(f) ELSE f
  <2>1. \/ run' = [run EXCEPT ![r].pc = "release", ![r].obj = c] /\ Present(e) /\ c.status \in Terminal
        \/ run' = [run EXCEPT ![r].pc = "failwrite", ![r].obj = n]
    BY <1>18 DEF Fail
  <2>2. Present(e) /\ c.status \in Terminal => row[e].status # "running"
    BY DEF Current, Terminal
  <2> HIDE DEF c, n
  <2>3. (run'[r].pc = "release" /\ row[e].status # "running") \/ run'[r].pc = "failwrite"
    BY <1>0, <2>1, <2>2
  <2> QED
    BY <1>0, <1>1, <2>3
<1>19. CASE Release(r)
  <2>1. /\ run[r].pc = "release" /\ run'[r].pc \in {"finishref", "judge", "over"}
    BY <1>0, <1>19 DEF Release, Done
  <2> QED
    BY <1>0, <1>1, <2>1 DEF CalledOffFirst
<1> QED
  BY <1>3, <1>4, <1>5, <1>6, <1>7, <1>10, <1>11, <1>12, <1>13, <1>14, <1>15, <1>16, <1>17, <1>18, <1>19 DEF RunStep

(* A signal only reaches runs of the execution it is for.                  *)
LEMMA ReachedBelongs ==
  ASSUME TypeOK, SessionsBelong, NEW e \in Execs, NEW s, Belongs(e, s), NEW x \in Reached(e, s)
  PROVE  x \in Runs /\ run[x].exec = e
<1>1. CASE e \in Workflow
  BY <1>1 DEF Reached, SessionsBelong, Belongs, Runs
<1>2. CASE e \notin Workflow
  <2>1. x \in Runs /\ s # 0 /\ run[x].sess = s
    BY <1>2 DEF Reached
  <2>2. Belongs(run[x].exec, s)
    BY <2>1 DEF SessionsBelong
  <2> QED
    BY <2>1, <2>2 DEF Belongs
<1> QED
  BY <1>1, <1>2

(* Only one step of a dispatcher signals others.                           *)
LEMMA OnlyGuardSignals ==
  ASSUME TypeOK, NEW r \in Runs, RunStep(r), NEW x \in Runs \ {r}, run'[x].stop # run[x].stop
  PROVE  run[r].pc = "guard" /\ x \in Reached(run[r].exec, run[r].obj.sess)
<1> DEFINE g == Signalled(Reached(run[r].exec, run[r].obj.sess))
<1>0. run \in [Runs -> RunType]
  BY DEF TypeOK, RunsTypeOK
<1>1. ~GuardCancel(r) => run'[x] = run[x]
  BY <1>0
  DEF RunStep, ReadScheduler, DispatchFails, StartSession, Register, Check, Open, StartEffect, WorkEnds,
      EndWork, Interrupted, AbsoluteTimeout, GuardTimeout, LateWorkEnds, Save, Reread,
      Fail, FailWrite, InterruptRead, InterruptJudge, InterruptRequeue, Release, FinishRef, Judge, Settle
<1>2. run[r].pc = "guard" /\ run' = [g EXCEPT ![r].pc = "fail"]
  BY <1>1 DEF GuardCancel
<1>3. g \in [Runs -> RunType]
  BY SignalledType DEF TypeOK
<1>4. run'[x] = g[x]
  BY <1>2, <1>3
<1> QED
  BY <1>2, <1>4 DEF Signalled

(* Who does nothing is only stopped where it was called off.               *)
LEMMA IdleCalledOff ==
  ASSUME TypeOK, MovesOn, NEW x \in Runs, CalledOffFirst(x), Idle(x),
         run[x].pc \in {"scheduler", "start", "register", "check", "open", "work"} /\ run'[x].stop =>
           run[x].stop \/ CalledOff(run[x].exec),
         row'[run[x].exec].status = "running" /\ row'[run[x].exec].started = x =>
           row[run[x].exec].status = "running" /\ row[run[x].exec].started = x
  PROVE  CalledOffFirst(x)'
<1>1. CalledOff(run[x].exec) => CalledOff(run[x].exec)'
  BY CalledOffStays, ViewTypes DEF TypeOK, Idle, CalledOff
<1> QED
  BY <1>1 DEF CalledOffFirst, Idle, CalledOff

(* While nobody becomes an owner and no row starts to run, what the        *)
(* execution loop is in the middle of stays as it was.                     *)
LEMMA LoopHoldsStill ==
  ASSUME TypeOK, LoopHoldings, loop' = loop, NoNewOwner,
         \A x \in Execs : row'[x].status = "running" => row[x].status = "running",
         loop.pc = "flushread" => run'[loop.r].pc = "pending" /\ run'[loop.r].exec = run[loop.r].exec
  PROVE  LoopHoldings'
<1>1. loop.exec \in Execs
  BY LoopViewTypes DEF TypeOK
<1>2. Recovering' = Recovering
  BY DEF Recovering
<1>3. Recovering' => \A r \in Runs : run'[r].exec = loop.exec => ~Keeps(r)'
  BY <1>2 DEF LoopHoldings, NoNewOwner
<1> QED
  BY <1>1, <1>2, <1>3 DEF LoopHoldings

(* A dispatcher that waits with a result stays until the loop has seen to  *)
(* it.                                                                     *)
LEMMA PendingWaits ==
  ASSUME TypeOK, NEW r \in Runs, RunStep(r), run[r].pc = "pending"
  PROVE  run'[r].pc = "pending" /\ run'[r].exec = run[r].exec
<1>1. run \in [Runs -> RunType]
  BY DEF TypeOK, RunsTypeOK
<1> QED
  BY <1>1
  DEF RunType, RunStep, ReadScheduler, DispatchFails, StartSession, Register, Check, Open, StartEffect, WorkEnds,
      EndWork, Interrupted, AbsoluteTimeout, GuardTimeout, GuardCancel, LateWorkEnds, Save, Reread,
      Fail, FailWrite, InterruptRead, InterruptJudge, InterruptRequeue, Release, FinishRef, Judge, Settle

(* A dispatcher's steps keep references in step.                           *)
LEMMA RunRefsInStep ==
  ASSUME InOrder, MovesOn, SessionsBelong, RefsInStep, NEW r \in Runs, RunStep(r), Alone(r),
         UNCHANGED <<mgr, orphans, loop>>, mgr \in {"up", "stopping"}
  PROVE  RefsInStep'
<1>0. TypeOK /\ ViewsCurrent /\ FencesHold /\ OwnersInStep /\ OneOwner /\ LoopAgrees
  BY DEF InOrder, WorkInOrder, OwnersInStep
<1>1. CASE mgr = "stopping"
  <2>1. loop.pc = "idle" /\ loop' = loop /\ mgr' = "stopping"
    BY <1>0, <1>1 DEF LoopAgrees
  <2> QED
    BY <2>1 DEF RefsInStep, RunningHoldsItsRef, LoopHoldings, Recovering
<1>2. CASE mgr = "up"
  <2>0. /\ \A x \in Execs : RefFits(x)
        /\ \A x \in Runs : CalledOffFirst(x)
        /\ LoopHoldings /\ mgr' = "up" /\ loop' = loop
    BY <1>2 DEF RefsInStep, RunningHoldsItsRef, RefFits
  <2>1. \A x \in Execs : RefFits(x)'
    BY <1>0, <2>0, RunRefs
  <2>2. \A x \in Execs : row'[x].status = "running" =>
           row[x].status = "running" /\ row'[x].started = row[x].started
    BY <1>0, RunKeepsRunning
  <2>3. ASSUME NEW x \in Runs
        PROVE  CalledOffFirst(x)'
    <3>1. CASE x = r
      BY <1>0, <2>0, <3>1, ActorCalledOff
    <3>2. CASE x # r
      <4>1. ASSUME run[x].pc \in {"scheduler", "start", "register", "check", "open", "work"}
            PROVE  run'[x].stop = run[x].stop
        <5>1. SUFFICES ASSUME run'[x].stop # run[x].stop
                       PROVE  FALSE
          OBVIOUS
        <5>2. run[r].pc = "guard" /\ x \in Reached(run[r].exec, run[r].obj.sess)
          BY <1>0, <3>2, <5>1, OnlyGuardSignals
        <5>3. run[x].exec = run[r].exec
          BY <1>0, <5>2, ReachedBelongs, ViewTypes DEF SessionsBelong, TypeOK
        <5> QED
          BY <1>0, <3>2, <4>1, <5>2, <5>3 DEF OneOwner, Owns, Keeps, OwnPC, PC
      <4>2. run[x].exec \in Execs
        BY <1>0, ViewTypes DEF TypeOK
      <4> QED
        BY <1>0, <2>0, <2>2, <3>2, <4>1, <4>2, IdleCalledOff DEF Alone
    <3> QED
      BY <3>1, <3>2
  <2>4. LoopHoldings'
    <3>1. NoNewOwner
      BY <1>0, RunOwnsLess, IdleOwner DEF NoNewOwner, Alone
    <3>2. loop.pc = "flushread" => run'[loop.r].pc = "pending" /\ run'[loop.r].exec = run[loop.r].exec
      BY <1>0, <2>0, PendingWaits DEF LoopHoldings, Alone, Idle
    <3> QED
      BY <1>0, <2>0, <2>2, <3>1, <3>2, LoopHoldsStill
  <2> QED
    BY <2>0, <2>1, <2>3, <2>4 DEF RefsInStep, RunningHoldsItsRef, RefFits
<1> QED
  BY <1>1, <1>2

(* Nor does any other write part a reference from its row.                 *)
LEMMA OthersFit ==
  ASSUME StoreTypeOK, \A x \in Execs : RefFits(x), NEW e \in Execs,
         \/ CreateRow(e) \/ ExpireRow(e) \/ ViewRow(e) \/ CancelRow(e) \/ (\E t \in Nat : ClaimRow(e, t))
         \/ FinishRefRow(e, 0) /\ row[e].status # "running"
         \/ \E S : DeleteRows(S)
         \/ UNCHANGED storeVars
  PROVE  \A x \in Execs : RefFits(x)'
<1> SUFFICES ASSUME NEW x \in Execs
             PROVE  RefFits(x)'
  OBVIOUS
<1>0. RefFits(x) /\ RefFits(e) /\ row \in [Execs -> RowType] /\ ref \in [Execs -> RefType]
  BY DEF StoreTypeOK
<1>1. CASE CreateRow(e)
  BY <1>0, <1>1, CreateFields DEF CreateRow, RefFits
<1>2. CASE ExpireRow(e) \/ CancelRow(e)
  <2>1. /\ x # e => row'[x] = row[x] /\ ref'[x] = ref[x]
        /\ row'[e].status = "cancelled"
    BY <1>0, <1>2, CancelFields DEF ExpireRow, CancelRow
  <2>2. ref'[e] = "none"
    BY <1>0, <1>2 DEF ExpireRow, CancelRow, RefFits, RefType
  <2> QED
    BY <1>0, <2>1, <2>2 DEF RefFits
<1>3. CASE ViewRow(e)
  BY <1>0, <1>3, ViewFields DEF ViewRow, RefFits
<1>4. ASSUME NEW t \in Nat, ClaimRow(e, t)
      PROVE  RefFits(x)'
  <2>1. /\ x # e => row'[x] = row[x] /\ ref'[x] = ref[x]
        /\ row'[e].status = "running" /\ ref'[e] = "running"
    BY <1>0, <1>4, ClaimFields DEF ClaimRow
  <2> QED
    BY <1>0, <2>1 DEF RefFits
<1>5. CASE FinishRefRow(e, 0) /\ row[e].status # "running"
  BY <1>0, <1>5 DEF FinishRefRow, RefFits
<1>6. ASSUME NEW S, DeleteRows(S)
      PROVE  RefFits(x)'
  BY <1>0, <1>6 DEF DeleteRows, RefFits, NoRow
<1>7. CASE UNCHANGED storeVars
  BY <1>0, <1>7 DEF storeVars, RefFits
<1> QED
  BY <1>1, <1>2, <1>3, <1>4, <1>5, <1>6, <1>7

(* No row starts to run, and none that runs starts anew.                   *)
NoNewRunning == \A x \in Execs : row'[x].status = "running" =>
                  row[x].status = "running" /\ row'[x].started = row[x].started

(* Where no dispatcher moves, but some may be told to stop.                *)
LEMMA IdleRefsInStep ==
  ASSUME TypeOK, MovesOn, RefsInStep, mgr = "up", mgr' = "up", NoNewRunning,
         \A x \in Runs : /\ Idle(x)
                         /\ run'[x].stop => run[x].stop \/ CalledOff(run[x].exec) \/ ~Owns(x),
         \A x \in Execs : RefFits(x)',
         LoopHoldings'
  PROVE  RefsInStep'
<1>1. ASSUME NEW x \in Runs
      PROVE  CalledOffFirst(x)'
  <2>1. CalledOffFirst(x) /\ run[x].exec \in Execs
    BY ViewTypes DEF RefsInStep, TypeOK
  <2>2. run[x].pc \in {"scheduler", "start", "register", "check", "open", "work"} => Owns(x)
    BY DEF Owns, OwnPC, PC
  <2> QED
    BY <2>1, <2>2, IdleCalledOff DEF NoNewRunning
<1> QED
  BY <1>1 DEF RefsInStep, RunningHoldsItsRef, RefFits

(* The write that raises.                                                  *)
LEMMA FailSaveRefs ==
  ASSUME InOrder, MovesOn, RefsInStep, NEW r \in Runs, NEW a \in BOOLEAN, SaveFails(r, a),
         UNCHANGED <<mgr, orphans, loop>>, mgr \in {"up", "stopping"}
  PROVE  RefsInStep'
<1> DEFINE e == run[r].exec
<1>0. TypeOK /\ ViewsCurrent /\ FencesHold /\ OwnersInStep /\ OneOwner /\ LoopAgrees /\ run \in [Runs -> RunType]
  BY DEF InOrder, WorkInOrder, OwnersInStep, TypeOK, RunsTypeOK
<1>1. CASE mgr = "stopping"
  <2>1. loop.pc = "idle" /\ loop' = loop /\ mgr' = "stopping"
    BY <1>0, <1>1 DEF LoopAgrees
  <2> QED
    BY <2>1 DEF RefsInStep, RunningHoldsItsRef, LoopHoldings, Recovering
<1>2. CASE mgr = "up"
  <2>0. /\ \A x \in Execs : RefFits(x)
        /\ \A x \in Runs : CalledOffFirst(x)
        /\ LoopHoldings /\ mgr' = "up" /\ loop' = loop
    BY <1>2 DEF RefsInStep, RunningHoldsItsRef, RefFits
  <2>1. \A x \in Execs : RefFits(x)'
    BY <1>0, <2>0, RunRefs
  <2>2. NoNewRunning
    BY <1>0, RunKeepsRunning DEF NoNewRunning
  <2>3. /\ run[r].pc = "save" /\ Owns(r)
        /\ run' = [x \in Runs |-> IF x = r THEN [run[x] EXCEPT !.pc = "pending"] ELSE NoLongerPending(x, e)]
    BY DEF SaveFails, Owns, OwnPC, PC
  <2>4. ASSUME NEW x \in Runs \ {r}
        PROVE  run'[x] = run[x]
    <3>1. run[x].exec = e => run[x].pc # "pending"
      BY <1>0, <2>3 DEF OneOwner, Keeps
    <3> QED
      BY <2>3, <3>1 DEF NoLongerPending
  <2>5. run'[r].pc = "pending" /\ run'[r].exec = e
    BY <1>0, <2>3 DEF RunType
  <2>6. ASSUME NEW x \in Runs
        PROVE  CalledOffFirst(x)'
    <3>1. CASE x = r
      BY <2>5, <3>1 DEF CalledOffFirst
    <3>2. CASE x # r
      <4>1. Idle(x) /\ run'[x].stop = run[x].stop /\ run[x].exec \in Execs
        BY <1>0, <2>4, <3>2, ViewTypes DEF Idle, TypeOK
      <4> QED
        BY <1>0, <2>0, <2>2, <4>1, IdleCalledOff DEF NoNewRunning
    <3> QED
      BY <3>1, <3>2
  <2>7. LoopHoldings'
    <3>1. NoNewOwner
      BY <2>3, <2>4, <2>5 DEF NoNewOwner, Owns, Keeps, OwnPC, PC
    <3>2. loop.pc = "flushread" => run'[loop.r].pc = "pending" /\ run'[loop.r].exec = run[loop.r].exec
      BY <2>0, <2>3, <2>4 DEF LoopHoldings
    <3> QED
      BY <1>0, <2>0, <2>2, <3>1, <3>2, LoopHoldsStill DEF NoNewRunning
  <2> QED
    BY <2>0, <2>1, <2>6, <2>7 DEF RefsInStep, RunningHoldsItsRef, RefFits
<1> QED
  BY <1>1, <1>2

(* A claim: the new run is the one the row names.                          *)
LEMMA ClaimRefs ==
  ASSUME InOrder, MovesOn, RefsInStep, NEW e \in Execs,
         claims < MaxClaims, LoopFree, MayDequeue(e), ClaimRow(e, claims + 1),
         NEW pc \in {"scheduler", "over"}, run' = [run EXCEPT ![claims + 1] = NewRun(e, row'[e], pc)],
         UNCHANGED <<mgr, loop>>
  PROVE  RefsInStep'
<1>0. /\ TypeOK /\ FencesHold /\ StoreTypeOK /\ run \in [Runs -> RunType] /\ claims \in Nat /\ claims + 1 \in Runs
      /\ row[e].status = "queued" /\ row[e].started = 0 /\ mgr = "up" /\ loop.pc = "idle"
  BY MaxClaimsAssumption
  DEF InOrder, TypeOK, RunsTypeOK, Runs, FencesHold, QueuedUnstarted, MayDequeue, Claimable, LoopFree
<1>1. /\ \A x \in Execs : RefFits(x)
      /\ \A x \in Runs : CalledOffFirst(x)
  BY <1>0 DEF RefsInStep, RunningHoldsItsRef, RefFits
<1>2. \A x \in Execs : RefFits(x)'
  BY <1>0, <1>1, OthersFit
<1>3. \A x \in Execs \ {e} : row'[x] = row[x] /\ row'[e].started = claims + 1
  BY <1>0, ClaimFields
<1>4. ASSUME NEW x \in Runs
      PROVE  CalledOffFirst(x)'
  <2>1. CASE x = claims + 1
    <3>1. run'[x] = NewRun(e, row'[e], pc)
      BY <1>0, <2>1
    <3> QED
      BY <3>1 DEF NewRun, CalledOffFirst
  <2>2. CASE x # claims + 1
    <3>1. run'[x] = run[x] /\ run[x].exec \in Execs
      BY <1>0, <2>2, ViewTypes DEF TypeOK
    <3>2. row'[e].started # x
      BY <1>0, <2>2, ClaimFields
    <3> QED
      BY <1>0, <1>1, <1>3, <3>1, <3>2, IdleCalledOff DEF Idle
  <2> QED
    BY <2>1, <2>2
<1> QED
  BY <1>0, <1>2, <1>4 DEF RefsInStep, RunningHoldsItsRef, RefFits, LoopHoldings, Recovering

(* The execution loop's recovery of one row.                               *)
LEMMA RecoveryRefs ==
  ASSUME InOrder, MovesOn, RefsInStep,
         StaleJudge \/ StaleFail \/ StaleWrite \/ StaleFree \/ StaleFinishRef
  PROVE  RefsInStep'
<1> DEFINE e == loop.exec
<1> USE DEF storeVars, runVars
<1>0. /\ TypeOK /\ StoreTypeOK /\ loop \in LoopType /\ e \in Execs /\ loop.obj \in RowType
      /\ LoopAgrees /\ LoopHoldings /\ Recovering /\ mgr = "up" /\ mgr' = "up" /\ run' = run
  BY LoopViewTypes
  DEF InOrder, WorkInOrder, TypeOK, ManagerTypeOK, OwnersInStep, RefsInStep, Recovering,
      StaleJudge, StaleFail, StaleWrite, StaleFree, StaleFinishRef
<1>1. \A x \in Execs : RefFits(x)
  BY <1>0 DEF RefsInStep, RunningHoldsItsRef, RefFits
<1>2. \A x \in Runs : Idle(x) /\ run'[x].stop = run[x].stop
  BY <1>0 DEF Idle
<1>3. ASSUME NoNewRunning, \A x \in Execs : RefFits(x)',
             loop' = LoopIdle \/ (loop'.exec = e /\ loop'.pc # "flushread"
                                    /\ (loop'.pc \in {"stalefree", "staleref"} => row'[e].status # "running"))
      PROVE  RefsInStep'
  <2>1. LoopHoldings'
    <3>1. CASE loop' = LoopIdle
      BY <3>1 DEF LoopHoldings, Recovering, LoopIdle
    <3>2. CASE loop'.exec = e
      <4>1. \A x \in Runs : run'[x].exec = e => ~Keeps(x)'
        BY <1>0, <1>2, IdleOwner DEF LoopHoldings
      <4> QED
        BY <1>3, <3>2, <4>1 DEF LoopHoldings, Recovering, LoopIdle
    <3> QED
      BY <1>3, <3>1, <3>2
  <2> QED
    BY <1>0, <1>2, <1>3, <2>1, IdleRefsInStep
<1>4. CASE StaleJudge
  <2>1. UNCHANGED <<row, ref>> /\ loop'.exec = e /\ loop'.pc = "stalefail"
    BY <1>0, <1>4 DEF StaleJudge, LoopType
  <2> QED
    BY <1>1, <1>3, <2>1 DEF RefFits, NoNewRunning
<1>5. CASE StaleFail
  <2> DEFINE c == Current(e, loop.obj)
             f == [c EXCEPT !.status = "failed"]
             n == IF loop.hold THEN Held(f) ELSE f
  <2>1. /\ UNCHANGED <<row, ref>>
        /\ \/ loop' = [loop EXCEPT !.pc = "stalefree"] /\ Present(e) /\ c.status \in Terminal
           \/ loop' = [loop EXCEPT !.pc = "stalewrite", !.obj = n]
    BY <1>5 DEF StaleFail
  <2>2. Present(e) /\ c.status \in Terminal => row[e].status # "running"
    BY DEF Current, Terminal
  <2> HIDE DEF c, n
  <2>3. loop'.exec = e /\ loop'.pc \in {"stalefree", "stalewrite"}
        /\ (loop'.pc = "stalefree" => row[e].status # "running")
    BY <1>0, <2>1, <2>2 DEF LoopType
  <2> QED
    BY <1>1, <1>3, <2>1, <2>3 DEF RefFits, NoNewRunning
<1>6. CASE StaleWrite
  <2>1. loop.pc = "stalewrite" /\ loop'.exec = e /\ loop'.pc = "stalefree" /\ loop.obj.status = "failed"
    BY <1>0, <1>6 DEF StaleWrite, LoopType, InOrder, ViewsCurrent, LoopCurrent
  <2>2. CASE StillActive(e, loop.obj)
    <3>1. WriteRow(e, loop.obj)
      BY <1>6, <2>2 DEF StaleWrite
    <3>2. NoNewRunning /\ row'[e].status # "running"
      BY <1>0, <2>1, <3>1, WriteFields DEF NoNewRunning
    <3>3. \A x \in Execs : RefFits(x)'
      BY <1>0, <1>1, <2>1, <3>1, WritesFit DEF Terminal
    <3> QED
      BY <1>3, <2>1, <3>2, <3>3
  <2>3. CASE ~StillActive(e, loop.obj)
    <3>1. UNCHANGED <<row, ref>>
      BY <1>6, <2>3 DEF StaleWrite
    <3>2. row[e].status # "running"
      BY <1>0, <2>1, <2>3 DEF LoopAgrees, StillActive, IsActive, Active
    <3> QED
      BY <1>1, <1>3, <2>1, <3>1, <3>2 DEF RefFits, NoNewRunning
  <2> QED
    BY <2>2, <2>3
<1>7. CASE StaleFree
  <2>1. UNCHANGED <<row, ref>> /\ loop'.exec = e /\ loop'.pc = "staleref" /\ row[e].status # "running"
    BY <1>0, <1>7 DEF StaleFree, LoopType, LoopHoldings
  <2> QED
    BY <1>1, <1>3, <2>1 DEF RefFits, NoNewRunning
<1>8. CASE StaleFinishRef
  <2>1. FinishRefRow(e, 0) /\ row' = row /\ loop' = LoopIdle /\ row[e].status # "running"
    BY <1>0, <1>8 DEF StaleFinishRef, FinishRefRow, LoopHoldings
  <2>2. \A x \in Execs : RefFits(x)'
    BY <1>0, <1>1, <2>1, OthersFit
  <2> QED
    BY <1>3, <2>1, <2>2 DEF NoNewRunning
<1> QED
  BY <1>4, <1>5, <1>6, <1>7, <1>8

(* A flush writes for a run that no longer has its row.                    *)
LEMMA FlushRefs ==
  ASSUME InOrder, MovesOn, RefsInStep, (\E r \in Runs : FlushWrite(r)) \/ FlushRead
  PROVE  RefsInStep'
<1>0. /\ TypeOK /\ StoreTypeOK /\ ViewsCurrent /\ mgr = "up" /\ mgr' = "up" /\ run \in [Runs -> RunType]
      /\ loop \in LoopType
  BY DEF InOrder, TypeOK, RunsTypeOK, ManagerTypeOK, FlushWrite, FlushRead, LoopFree
<1>1. /\ \A x \in Execs : RefFits(x)
      /\ \A x \in Runs : CalledOffFirst(x)
      /\ LoopHoldings
  BY <1>0 DEF RefsInStep, RunningHoldsItsRef, RefFits
<1>2. ASSUME NoNewRunning, \A x \in Execs : RefFits(x)',
             \A x \in Runs : run'[x] = run[x] \/ run'[x].pc \in {"judge", "over"},
             LoopHoldings'
      PROVE  RefsInStep'
  <2>1. ASSUME NEW x \in Runs
        PROVE  CalledOffFirst(x)'
    <3>1. CASE run'[x] = run[x]
      <4>1. Idle(x) /\ run[x].exec \in Execs
        BY <1>0, <3>1, ViewTypes DEF Idle, TypeOK
      <4> QED
        BY <1>0, <1>1, <1>2, <3>1, <4>1, IdleCalledOff DEF NoNewRunning
    <3>2. CASE run'[x].pc \in {"judge", "over"}
      BY <3>2 DEF CalledOffFirst
    <3> QED
      BY <1>2, <3>1, <3>2
  <2> QED
    BY <1>0, <1>2, <2>1 DEF RefsInStep, RunningHoldsItsRef, RefFits
<1>3. ASSUME NEW r \in Runs, FlushWrite(r)
      PROVE  RefsInStep'
  <2> DEFINE e == run[r].exec
             o == run[r].obj
  <2>0. /\ e \in Execs /\ o \in RowType /\ run[r].pc = "pending" /\ o.status \in Terminal /\ loop.pc = "idle"
    BY <1>0, <1>3, ViewTypes DEF TypeOK, FlushWrite, LoopFree, ViewsCurrent, RunCurrent
  <2>1. CASE StillActive(e, o)
    <3>1. /\ WriteRow(e, o) /\ loop'.pc \in {"idle", "flushjudge"}
          /\ \E p \in {"judge", "over"} : run' = [run EXCEPT ![r].pc = p, ![r].obj = row'[e]]
      BY <1>3, <2>0, <2>1 DEF FlushWrite, LoopIdle
    <3>2. NoNewRunning
      BY <1>0, <2>0, <3>1, WriteFields DEF NoNewRunning, Terminal
    <3>3. \A x \in Execs : RefFits(x)'
      BY <1>0, <1>1, <2>0, <3>1, WritesFit
    <3>4. \A x \in Runs : run'[x] = run[x] \/ run'[x].pc \in {"judge", "over"}
      BY <1>0, <3>1 DEF RunType
    <3> QED
      BY <1>2, <3>1, <3>2, <3>3, <3>4 DEF LoopHoldings, Recovering
  <2>2. CASE ~StillActive(e, o)
    <3>1. UNCHANGED <<row, ref, run>> /\ loop' = [LoopIdle EXCEPT !.pc = "flushread", !.exec = e, !.r = r]
      BY <1>3, <2>2 DEF FlushWrite, storeVars
    <3>2. loop'.pc = "flushread" /\ loop'.exec = e /\ loop'.r = r
      BY <3>1 DEF LoopIdle
    <3> QED
      BY <1>1, <1>2, <2>0, <3>1, <3>2 DEF RefFits, NoNewRunning, LoopHoldings, Recovering
  <2> QED
    BY <2>1, <2>2
<1>4. CASE FlushRead
  <2>1. UNCHANGED <<row, ref>> /\ loop'.pc = "idle" /\ run' = [x \in Runs |-> NoLongerPending(x, loop.exec)]
    BY <1>4 DEF FlushRead, storeVars, LoopIdle
  <2>2. \A x \in Runs : run'[x] = run[x] \/ run'[x].pc \in {"judge", "over"}
    BY <1>0, <2>1 DEF NoLongerPending, RunType
  <2> QED
    BY <1>1, <1>2, <2>1, <2>2 DEF RefFits, NoNewRunning, LoopHoldings, Recovering
<1> QED
  BY <1>3, <1>4

(* The steps of the execution loop keep references in step.                *)
LEMMA LoopRefs ==
  ASSUME InOrder, MovesOn, SessionsBelong, RefsInStep, "suspend" \notin Faults, LoopStep
  PROVE  RefsInStep'
<1> USE DEF storeVars, queueVars, runVars
<1>0. TypeOK /\ StoreTypeOK /\ OwnersInStep /\ loop \in LoopType /\ Requeued(loop.obj, FALSE) \in RowType
      /\ loop.exec \in Execs
  BY LoopViewTypes DEF InOrder, WorkInOrder, TypeOK, ManagerTypeOK
<1>1. mgr = "up" => \A x \in Execs : RefFits(x)
  BY DEF RefsInStep, RunningHoldsItsRef, RefFits
<1>2. ASSUME NEW e \in Execs, Dequeue(e)
      PROVE  RefsInStep'
  BY <1>2, ClaimRefs DEF Dequeue, managerVars
<1>3. ASSUME NEW e \in Execs, TakeRow(e) \/ TakeStale(e)
      PROVE  RefsInStep'
  <2>0. mgr = "up" /\ mgr' = "up" /\ UNCHANGED <<row, ref>> /\ (run' = run \/ run' = Signalled(Reached(e, row[e].sess)))
        /\ (TakeRow(e) => run' = run)
    BY <1>3 DEF TakeRow, TakeStale, LoopFree
  <2>1. \A x \in Runs : Idle(x)
    BY <1>0, <2>0, RunsIdle DEF TypeOK
  <2>2. TakeStale(e) => \A x \in Runs : run[x].exec = e => ~Keeps(x)
    BY <1>0, StaleHasNoOwner
  <2>3. ASSUME NEW x \in Runs
        PROVE  run'[x].stop => run[x].stop \/ ~Owns(x)
    <3>1. CASE run' = run
      BY <3>1
    <3>2. CASE run' = Signalled(Reached(e, row[e].sess)) /\ TakeStale(e)
      <4>1. x \in Reached(e, row[e].sess) => run[x].exec = e
        BY <1>0, ReachedBelongs DEF SessionsBelong
      <4>2. x \in Reached(e, row[e].sess) => ~Owns(x)
        BY <2>2, <3>2, <4>1 DEF Keeps
      <4> QED
        BY <3>2, <4>2 DEF Signalled
    <3> QED
      BY <1>3, <2>0, <3>1, <3>2
  <2>4. LoopHoldings'
    <3>1. CASE TakeRow(e)
      <4>1. loop'.pc \in {"retry", "orphan"}
        BY <3>1 DEF TakeRow, LoopIdle
      <4> QED
        BY <4>1 DEF LoopHoldings, Recovering
    <3>2. CASE TakeStale(e)
      <4>1. loop'.pc = "stalejudge" /\ loop'.exec = e
        BY <3>2 DEF TakeStale, LoopIdle
      <4>2. \A x \in Runs : run'[x].exec = e => ~Keeps(x)'
        BY <2>1, <2>2, <3>2, IdleOwner
      <4> QED
        BY <4>1, <4>2 DEF LoopHoldings, Recovering
    <3> QED
      BY <1>3, <3>1, <3>2
  <2>5. NoNewRunning /\ \A x \in Execs : RefFits(x)'
    BY <1>1, <2>0 DEF NoNewRunning, RefFits
  <2> QED
    BY <1>0, <2>0, <2>1, <2>3, <2>4, <2>5, IdleRefsInStep
<1>4. CASE LoopRequeue
  <2> DEFINE q == Requeued(loop.obj, FALSE)
             n == IF loop.pc = "retry" THEN [q EXCEPT !.due = FALSE] ELSE q
  <2>1. n \in RowType /\ n.status = "queued"
    <3>1. q.status = "queued"
      BY <1>0, LoopViewTypes, RequeuedFields DEF TypeOK
    <3> QED
      BY <1>0, <3>1 DEF RowType
  <2>2. (RequeueRow(loop.exec, n) \/ UNCHANGED <<row, ref>>) /\ run' = run /\ loop' = LoopIdle /\ mgr = "up" /\ mgr' = "up"
    BY <1>4 DEF LoopRequeue
  <2> HIDE DEF n
  <2>3. NoNewRunning
    BY <1>0, <2>1, <2>2, RequeueFields DEF NoNewRunning
  <2>4. \A x \in Execs : RefFits(x)'
    <3>1. CASE RequeueRow(loop.exec, n)
      BY <1>0, <1>1, <2>1, <2>2, <3>1, WritesFit
    <3>2. CASE UNCHANGED <<row, ref>>
      BY <1>1, <2>2, <3>2 DEF RefFits
    <3> QED
      BY <2>2, <3>1, <3>2
  <2>5. LoopHoldings' /\ \A x \in Runs : Idle(x) /\ run'[x].stop = run[x].stop
    BY <2>2 DEF LoopHoldings, Recovering, LoopIdle, Idle
  <2> QED
    BY <1>0, <2>2, <2>3, <2>4, <2>5, IdleRefsInStep
<1>5. CASE FlushHandled
  <2>1. UNCHANGED <<row, ref, run>> /\ loop' = LoopIdle /\ mgr = "up" /\ mgr' = "up"
    BY <1>5 DEF FlushHandled
  <2>2. LoopHoldings' /\ NoNewRunning /\ \A x \in Runs : Idle(x) /\ run'[x].stop = run[x].stop
    BY <2>1 DEF LoopHoldings, Recovering, LoopIdle, Idle, NoNewRunning
  <2>3. \A x \in Execs : RefFits(x)'
    BY <1>1, <2>1 DEF RefFits
  <2> QED
    BY <1>0, <2>1, <2>2, <2>3, IdleRefsInStep
<1> QED
  BY <1>2, <1>3, <1>4, <1>5, RecoveryRefs, FlushRefs DEF LoopStep

(* A request only moves while the process is up, and not the loop.         *)
LEMMA RequestsWhileUp ==
  ASSUME InOrder, NEW q \in Reqs, AskStep(q) \/ RequestStep(q)
  PROVE  mgr = "up" /\ mgr' = "up" /\ loop' = loop
<1>1. AskStep(q) \/ req[q].pc # "idle"
  BY DEF RequestStep, CancelWrite, CancelStop, CancelFree, DeleteExecution, DropNext, DropScheduler, PersonRequeue
<1>2. mgr = "up"
  BY <1>1 DEF AskStep, AskCancel, AskDelete, AskRetry, AskResume, AskDrop, PauseQueue, View, Ask, Asked,
              InOrder, ViewsCurrent, StartCurrent
<1> QED
  BY <1>2 DEF AskStep, AskCancel, AskDelete, AskRetry, AskResume, AskDrop, PauseQueue, View, Ask,
              RequestStep, CancelWrite, CancelStop, CancelFree, DeleteExecution, DropNext, DropScheduler,
              PersonRequeue

(* Requests keep references in step: they take them from rows they ended.  *)
LEMMA RequestRefs ==
  ASSUME InOrder, MovesOn, SessionsBelong, RefsInStep, NEW q \in Reqs, AskStep(q) \/ RequestStep(q)
  PROVE  RefsInStep'
<1> DEFINE e == req[q].exec
           o == req[q].obj
<1> USE DEF storeVars, queueVars, runVars
<1>0. /\ TypeOK /\ StoreTypeOK /\ req[q] \in ReqType /\ e \in Execs /\ o \in RowType
      /\ (req[q].pc \in {"stop", "free"} => CalledOff(e))
  BY ReqViewTypes DEF InOrder, WorkInOrder, OwnersInStep, TypeOK, ManagerTypeOK, RequestInStep
<1>1. mgr = "up" /\ mgr' = "up" /\ loop' = loop
  BY RequestsWhileUp
<1>2. /\ \A x \in Execs : RefFits(x)
      /\ LoopHoldings
  BY <1>1 DEF RefsInStep, RunningHoldsItsRef, RefFits
<1>3. \A x \in Runs : Idle(x) /\ (run'[x].stop => run[x].stop \/ CalledOff(run[x].exec))
  <2>1. run' = run \/ (CancelStop(q) /\ run' = Signalled(Reached(e, Current(e, o).sess)))
    BY DEF AskStep, AskCancel, AskDelete, AskRetry, AskResume, AskDrop, PauseQueue, View, Ask,
           RequestStep, CancelWrite, CancelStop, CancelFree, DeleteExecution, DropNext, DropScheduler,
           PersonRequeue
  <2>2. Belongs(e, Current(e, o).sess)
    BY <1>0 DEF SessionsBelong, Current
  <2>3. \A x \in Reached(e, Current(e, o).sess) : run[x].exec = e
    BY <1>0, <2>2, ReachedBelongs
  <2>4. CancelStop(q) => CalledOff(e)
    BY <1>0 DEF CancelStop
  <2>5. \A x \in Runs : run'[x].stop => run[x].stop \/ CalledOff(run[x].exec)
    BY <2>1, <2>3, <2>4 DEF Signalled
  <2> QED
    BY <1>0, <2>1, <2>5, RunsIdle DEF TypeOK
<1>4. ASSUME NoNewRunning, \A x \in Execs : RefFits(x)'
      PROVE  RefsInStep'
  <2>1. NoNewOwner
    BY <1>3, IdleOwner DEF NoNewOwner
  <2>2. LoopHoldings'
    <3>1. loop.pc = "flushread" => run'[loop.r].pc = "pending" /\ run'[loop.r].exec = run[loop.r].exec
      BY <1>2, <1>3 DEF LoopHoldings, Idle
    <3> QED
      BY <1>0, <1>1, <1>2, <1>4, <2>1, <3>1, LoopHoldsStill DEF NoNewRunning
  <2> QED
    BY <1>0, <1>1, <1>3, <1>4, <2>2, IdleRefsInStep
<1>5. CASE UNCHANGED <<row, ref>>
  BY <1>2, <1>4, <1>5 DEF NoNewRunning, RefFits
<1>6. ASSUME NEW x \in Execs, View(q, x)
      PROVE  RefsInStep'
  <2>1. ViewRow(x)
    BY <1>6 DEF View
  <2>2. NoNewRunning
    BY <1>0, <2>1, ViewFields DEF NoNewRunning
  <2> QED
    BY <1>0, <1>2, <1>4, <2>1, <2>2, OthersFit
<1>7. CASE CancelWrite(q)
  <2>1. CancelRow(e) \/ UNCHANGED <<row, ref>>
    BY <1>7 DEF CancelWrite
  <2>2. CASE CancelRow(e)
    <3>1. NoNewRunning
      BY <1>0, <2>2, CancelFields DEF NoNewRunning
    <3> QED
      BY <1>0, <1>2, <1>4, <2>2, <3>1, OthersFit
  <2> QED
    BY <1>5, <2>1, <2>2
<1>8. CASE CancelFree(q)
  <2>1. FinishRefRow(e, 0) /\ row[e].status # "running" /\ NoNewRunning
    BY <1>0, <1>8 DEF CancelFree, FinishRefRow, CalledOff, NoNewRunning
  <2> QED
    BY <1>0, <1>2, <1>4, <2>1, OthersFit
<1>9. CASE DeleteExecution(q) \/ DropScheduler(q)
  <2>1. PICK S : DeleteRows(S)
    BY <1>9 DEF DeleteExecution, DropScheduler
  <2>2. NoNewRunning
    BY <1>0, <2>1, DeleteFields DEF NoNewRunning, NoRow
  <2> QED
    BY <1>0, <1>2, <1>4, <2>1, <2>2, OthersFit
<1>10. CASE PersonRequeue(q)
  <2> DEFINE n == SentAgain(o, req[q].op)
  <2>1. RequeueRow(e, n) \/ UNCHANGED <<row, ref>>
    BY <1>10 DEF PersonRequeue, SentAgain
  <2>2. n \in RowType /\ n.status = "queued"
    BY <1>0, SentAgainFields
  <2> HIDE DEF n
  <2>3. CASE RequeueRow(e, n)
    <3>1. NoNewRunning
      BY <1>0, <2>2, <2>3, RequeueFields DEF NoNewRunning
    <3> QED
      BY <1>0, <1>2, <1>4, <2>2, <2>3, <3>1, WritesFit
  <2> QED
    BY <1>5, <2>1, <2>3
<1> QED
  BY <1>5, <1>6, <1>7, <1>8, <1>9, <1>10
  DEF AskStep, AskCancel, AskDelete, AskRetry, AskResume, AskDrop, PauseQueue, Ask,
      RequestStep, CancelStop, DropNext

(* Start settles every row that was running before it lets anybody claim.  *)
LEMMA StartupRefs ==
  ASSUME InOrder, MovesOn, RefsInStep,
         Start \/ Started \/ \E e \in Execs : SettleOrphan(e) \/ RefOrphan(e)
  PROVE  RefsInStep'
<1> USE DEF storeVars, queueVars, runVars, managerVars
<1>0. /\ TypeOK /\ StoreTypeOK /\ row \in [Execs -> RowType] /\ loop.pc = "idle" /\ loop'.pc = "idle"
  BY DEF InOrder, WorkInOrder, OwnersInStep, LoopAgrees, TypeOK, StoreTypeOK, Start, Started, SettleOrphan, RefOrphan
<1>1. LoopHoldings'
  BY <1>0 DEF LoopHoldings, Recovering
<1>2. CASE Start
  BY <1>1, <1>2 DEF Start, RequeueRunningRefs, RefsInStep, RunningHoldsItsRef
<1>3. CASE Started
  <2>1. /\ \A e \in Execs : row[e].status # "running"
        /\ \A r \in Runs : ~Live(r)
        /\ UNCHANGED <<row, ref, run>> /\ mgr' = "up" /\ RefMatchesRow
    BY <1>3 DEF Started, RefsInStep, InOrder, FencesHold, Fenced, ViewsCurrent
  <2>2. RunningHoldsItsRef'
    BY <2>1 DEF RunningHoldsItsRef, RefMatchesRow
  <2>3. \A r \in Runs : CalledOffFirst(r)'
    BY <2>1 DEF CalledOffFirst, Live
  <2> QED
    BY <1>1, <2>1, <2>2, <2>3 DEF RefsInStep
<1>4. ASSUME NEW e \in Execs, SettleOrphan(e) \/ RefOrphan(e)
      PROVE  RefsInStep'
  <2> DEFINE q == Requeued(row[e], FALSE)
             f == Held([row[e] EXCEPT !.status = "failed"])
  <2>1. q \in RowType /\ q.status = "queued"
    BY <1>0, RequeuedFields
  <2>2. f \in RowType /\ f.status = "failed"
    BY <1>0 DEF Held, RowType, Status, Terminal
  <2>3. /\ RequeueRow(e, q) \/ WriteRow(e, f)
        /\ mgr = "starting" /\ mgr' = "starting" /\ orphans \ {e} \subseteq orphans'
    BY <1>4 DEF SettleOrphan, RefOrphan
  <2> HIDE DEF q, f
  <2>4. \A x \in Execs : row'[x].status = "running" => x # e /\ row[x].status = "running"
    BY <1>0, <2>1, <2>2, <2>3, WriteFields, RequeueFields
  <2> QED
    BY <1>1, <2>3, <2>4 DEF RefsInStep, RunningHoldsItsRef
<1> QED
  BY <1>2, <1>3, <1>4

(* Unless the machine sleeps, every step does.                             *)
LEMMA NextRefs ==
  ASSUME InOrder, TypeOK', SessionsBelong, RefsInStep, "suspend" \notin Faults, [Next]_vars
  PROVE  RefsInStep'
<1> USE DEF storeVars, queueVars, runVars, managerVars
<1>0. /\ TypeOK /\ StoreTypeOK /\ ViewsCurrent /\ FencesHold /\ OwnersInStep /\ MovesOn
  BY NextCurrent DEF AllCurrent, RunsStayCurrent, InOrder, WorkInOrder, TypeOK
<1>1. ASSUME NEW e \in Execs, Create(e) \/ Expire(e)
      PROVE  RefsInStep'
  <2>1. UNCHANGED <<run, loop, mgr>> /\ mgr = "up" /\ (CreateRow(e) \/ ExpireRow(e))
    BY <1>1 DEF Create, Expire
  <2>2. /\ \A x \in Execs : RefFits(x)
        /\ LoopHoldings
    BY <2>1 DEF RefsInStep, RunningHoldsItsRef, RefFits
  <2>3. NoNewRunning
    BY <1>0, <2>1, CreateFields, CancelFields DEF NoNewRunning
  <2>4. \A x \in Execs : RefFits(x)'
    BY <1>0, <2>1, <2>2, OthersFit
  <2>5. \A x \in Runs : Idle(x) /\ run'[x].stop = run[x].stop
    BY <2>1 DEF Idle
  <2>6. LoopHoldings'
    <3>1. NoNewOwner
      BY <2>5, IdleOwner DEF NoNewOwner
    <3>2. loop.pc = "flushread" => run'[loop.r].pc = "pending" /\ run'[loop.r].exec = run[loop.r].exec
      BY <2>1, <2>2 DEF LoopHoldings
    <3> QED
      BY <1>0, <2>1, <2>2, <2>3, <3>1, <3>2, LoopHoldsStill DEF NoNewRunning
  <2> QED
    BY <1>0, <2>1, <2>3, <2>4, <2>5, <2>6, IdleRefsInStep
<1>2. ASSUME NEW e \in Execs, LoseClaim(e)
      PROVE  RefsInStep'
  BY <1>0, <1>2, ClaimRefs DEF LoseClaim
<1>3. ASSUME NEW r \in Runs, RunProgress(r)
      PROVE  RefsInStep'
  <2>1. UNCHANGED <<mgr, orphans, loop, claims>> /\ RunStep(r) /\ mgr \in {"up", "stopping"}
    BY <1>3 DEF RunProgress, Running, RunStep, ReadScheduler, DispatchFails, StartSession, Register, Check,
                  Open, StartEffect, WorkEnds, EndWork, Interrupted, AbsoluteTimeout, GuardTimeout, GuardCancel,
                  LateWorkEnds, Save, Reread, Fail, FailWrite, InterruptRead, InterruptJudge,
                  InterruptRequeue, Release, FinishRef, Judge, Settle
  <2>2. Alone(r)
    BY <1>0, <2>1, RunStepFenced
  <2> QED
    BY <1>0, <2>1, <2>2, RunRefsInStep
<1>4. ASSUME NEW r \in Runs, FailSave(r)
      PROVE  RefsInStep'
  BY <1>0, <1>4, FailSaveRefs DEF FailSave, Running
<1>5. CASE LoopStep
  BY <1>0, <1>5, LoopRefs
<1>6. ASSUME NEW q \in Reqs, AskStep(q) \/ RequestStep(q)
      PROVE  RefsInStep'
  BY <1>0, <1>6, RequestRefs
<1>7. CASE Stop \/ Quit \/ Crash
  <2>1. loop' = LoopIdle /\ mgr' \in {"stopping", "down"}
    BY <1>7 DEF Stop, Quit, Crash, Gone
  <2> QED
    BY <2>1 DEF RefsInStep, RunningHoldsItsRef, LoopHoldings, Recovering, LoopIdle
<1>8. CASE ResumeQueue \/ UNCHANGED vars
  <2>1. UNCHANGED <<row, ref, run, loop, mgr, orphans>>
    BY <1>8 DEF ResumeQueue, vars
  <2>2. (\A x \in Runs : CalledOffFirst(x)' = CalledOffFirst(x)) /\ LoopHoldings' = LoopHoldings
        /\ RunningHoldsItsRef' = RunningHoldsItsRef
    BY <2>1 DEF CalledOffFirst, CalledOff, LoopHoldings, Recovering, Keeps, Owns, RunningHoldsItsRef
  <2> QED
    BY <2>1, <2>2 DEF RefsInStep
<1> QED
  BY <1>0, <1>1, <1>2, <1>3, <1>4, <1>5, <1>6, <1>7, <1>8, StartupRefs DEF Next

(* At first nothing runs.                                                  *)
LEMMA InitRefs == Init => RefsInStep
BY DEF Init, StoreInit, RunsInit, NoRow, NewRun, LoopIdle, RefsInStep, RunningHoldsItsRef, CalledOffFirst,
       LoopHoldings, Recovering

-----------------------------------------------------------------------------
(* Slots.  Only a claim takes one.                                         *)
SlotsLess == \A x \in Execs : slot'[x] \in {slot[x], 0}

(* A row that runs goes on, or is called off.                              *)
RunsOn(e) == row[e].status = "running" =>
  CalledOff(e)' \/ (row'[e].status = "running" /\ row'[e].started = row[e].started)

OwnSlots == \A r \in Runs : Keeps(r) => slot[run[r].exec] \in {0, r}
PendingHasRow(r) ==
  LET w == row[run[r].exec]
  IN run[r].pc = "pending" => CalledOff(run[r].exec) \/ (w.status = "running" /\ w.started = r)

(* With no new owner and no new slot, each owner keeps its own.            *)
LEMMA OwnSlotsStay ==
  ASSUME TypeOK, OwnSlots, SlotsLess, NoNewOwner
  PROVE  OwnSlots'
BY ViewTypes DEF TypeOK, OwnSlots, SlotsLess, NoNewOwner

(* A result that waits keeps the row it is for while that row runs on.     *)
LEMMA IdlePending ==
  ASSUME TypeOK, MovesOn, NEW x \in Runs, PendingHasRow(x), Idle(x), run[x].pc = "pending" => RunsOn(run[x].exec)
  PROVE  PendingHasRow(x)'
<1>1. CalledOff(run[x].exec) => CalledOff(run[x].exec)'
  BY CalledOffStays, ViewTypes DEF TypeOK, Idle, CalledOff
<1> QED
  BY <1>1 DEF PendingHasRow, RunsOn, Idle, CalledOff

(* Where no dispatcher moves.                                              *)
LEMMA IdleSlots ==
  ASSUME TypeOK, MovesOn, SlotsInStep, mgr' = mgr, SlotsLess,
         \A x \in Runs : Idle(x) /\ (run[x].pc = "pending" => RunsOn(run[x].exec)),
         loop'.pc = "flushread" => loop' = loop
  PROVE  SlotsInStep'
<1>1. OwnSlots' /\ \A x \in Runs : PendingHasRow(x)'
  <2>1. NoNewOwner
    BY IdleOwner DEF NoNewOwner
  <2>2. OwnSlots /\ \A x \in Runs : PendingHasRow(x)
    BY DEF SlotsInStep, OwnSlots, PendingHasRow
  <2> QED
    BY <2>1, <2>2, OwnSlotsStay, IdlePending
<1>2. mgr = "up" => \A e \in Execs : SlotGivenBack(e)'
  BY DEF SlotsInStep, SlotGivenBack, SlotsLess, Idle
<1>3. mgr \in {"down", "starting"} => \A e \in Execs : slot'[e] = 0
  BY DEF SlotsInStep, SlotsLess
<1>4. loop'.pc = "flushread" => CalledOff(loop.exec)' /\ loop'.exec = loop.exec
  BY CalledOffStays, LoopViewTypes DEF SlotsInStep, TypeOK, CalledOff
<1> QED
  BY <1>1, <1>2, <1>3, <1>4 DEF SlotsInStep, OwnSlots, PendingHasRow

(* Where the writes and reads after the work lead.                         *)
LEMMA LeavesDispatch ==
  ASSUME TypeOK, NEW r \in Runs, Save(r) \/ FailWrite(r) \/ Reread(r) \/ InterruptRead(r) \/ InterruptRequeue(r)
  PROVE  run'[r].pc \in {"release", "reread", "failreread", "intjudge"}
<1>1. \E p \in {"release", "reread", "failreread", "intjudge"} : \E n, x :
        \/ run' = [run EXCEPT ![r].pc = p]
        \/ run' = [run EXCEPT ![r].pc = p, ![r].obj = n]
        \/ run' = [run EXCEPT ![r].obj = n, ![r].pc = p]
        \/ run' = [run EXCEPT ![r].pc = p, ![r].exit = x, ![r].obj = n]
        \/ run' = [run EXCEPT ![r].pc = p, ![r].obj = n, ![r].exit = x]
  BY Zenon DEF Save, FailWrite, Reread, InterruptRead, InterruptRequeue
<1> QED
  BY <1>1 DEF TypeOK, RunsTypeOK, RunType

(* A dispatcher leaves dispatch by the block that frees its slot, unless   *)
(* its scheduler is gone when it starts.                                   *)
LEMMA OwnerReleases ==
  ASSUME TypeOK, sched, NEW r \in Runs, RunStep(r), run[r].pc \in OwnPC
  PROVE  run'[r].pc \in OwnPC \cup {"release"}
<1>0. run \in [Runs -> RunType] /\ run[r] \in RunType
  BY DEF TypeOK, RunsTypeOK
<1> USE DEF RunType
<1>10. {"start", "register", "check", "open", "work", "save", "guard", "fail", "failwrite", "reread", "failreread",
       "intread", "intjudge", "intrequeue"} \subseteq OwnPC
  BY DEF OwnPC, PC
<1>1. CASE ReadScheduler(r) \/ DispatchFails(r) \/ StartSession(r) \/ Register(r)
  <2>1. ReadScheduler(r) => run'[r].pc = "start"
    BY <1>0 DEF ReadScheduler
  <2>2. StartSession(r) => run'[r].pc \in {"register", "reread"}
    BY <1>0 DEF StartSession
  <2>3. DispatchFails(r) => run'[r].pc = "fail"
    BY <1>0 DEF DispatchFails
  <2>4. Register(r) => run'[r].pc = "check"
    BY <1>0 DEF Register
  <2> QED
    BY <1>1, <1>10, <2>1, <2>2, <2>3, <2>4
<1>2. ASSUME NEW s, EndWork(r, s)
      PROVE  run'[r].pc = "save"
  BY <1>0, <1>2 DEF EndWork
<1>3. Interrupted(r) => run'[r].pc = "intread"
  BY <1>0 DEF Interrupted
<1>4. CASE Check(r) \/ Open(r) \/ WorkEnds(r)
  <2>1. Check(r) => run'[r].pc \in {"open", "save"}
    BY <1>0, <1>2 DEF Check
  <2>2. Open(r) => run'[r].pc \in {"work", "save", "intread"}
    BY <1>0, <1>2, <1>3 DEF Open
  <2>3. WorkEnds(r) => run'[r].pc \in {"save", "intread"}
    BY <1>2, <1>3 DEF WorkEnds
  <2> QED
    BY <1>10, <1>4, <2>1, <2>2, <2>3
<1>5. CASE StartEffect(r) \/ AbsoluteTimeout(r) \/ GuardTimeout(r) \/ LateWorkEnds(r)
  <2>1. StartEffect(r) \/ LateWorkEnds(r) => run'[r].pc = run[r].pc
    BY <1>0 DEF StartEffect, LateWorkEnds
  <2>2. AbsoluteTimeout(r) => run'[r].pc = "save"
    BY <1>0 DEF AbsoluteTimeout
  <2>3. GuardTimeout(r) => run'[r].pc = "guard"
    BY <1>0 DEF GuardTimeout
  <2> QED
    BY <1>5, <1>10, <2>1, <2>2, <2>3
<1>6. CASE GuardCancel(r)
  <2> DEFINE g == Signalled(Reached(run[r].exec, run[r].obj.sess))
  <2>1. g \in [Runs -> RunType] /\ run' = [g EXCEPT ![r].pc = "fail"]
    BY <1>6, SignalledType DEF TypeOK, GuardCancel
  <2> HIDE DEF g
  <2> QED
    BY <1>10, <2>1
<1>7. CASE Save(r) \/ FailWrite(r) \/ Reread(r) \/ InterruptRead(r) \/ InterruptRequeue(r)
  BY <1>10, <1>7, LeavesDispatch
<1>8. CASE Fail(r) \/ InterruptJudge(r)
  <2>1. \E p \in {"release", "failwrite", "intrequeue", "fail"} : \E n :
          \/ run' = [run EXCEPT ![r].pc = p]
          \/ run' = [run EXCEPT ![r].pc = p, ![r].obj = n]
    BY <1>8, Zenon DEF Fail, InterruptJudge
  <2> QED
    BY <1>0, <1>10, <2>1
<1>9. CASE Release(r) \/ FinishRef(r) \/ Judge(r) \/ Settle(r)
  BY <1>9 DEF Release, FinishRef, Judge, Settle, OwnPC
<1> QED
  BY <1>1, <1>4, <1>5, <1>6, <1>7, <1>8, <1>9 DEF RunStep

(* A run that is to give back its slot stays there until it does.          *)
LEMMA ReleaseIsNext ==
  ASSUME TypeOK, NEW r \in Runs, RunStep(r), run[r].pc = "release", ~Release(r)
  PROVE  run'[r].pc = "release"
<1>0. run \in [Runs -> RunType] /\ run[r] \in RunType
  BY DEF TypeOK, RunsTypeOK
<1>1. StartEffect(r) \/ LateWorkEnds(r)
  BY DEF RunStep, ReadScheduler, DispatchFails, StartSession, Register, Check, Open, WorkEnds,
         AbsoluteTimeout, GuardTimeout, GuardCancel, Save, Reread, Fail, FailWrite, InterruptRead,
         InterruptJudge, InterruptRequeue, FinishRef, Judge, Settle
<1> QED
  BY <1>0, <1>1 DEF StartEffect, LateWorkEnds, RunType

(* A waiting result keeps its row: nobody else writes it.                  *)
LEMMA PendingRowKept ==
  ASSUME TypeOK, OneOwner, NEW r \in Runs, RowsOf(r), NEW x \in Runs, PendingHasRow(x), run[x].pc = "pending"
  PROVE  row'[run[x].exec] = row[run[x].exec]
<1>1. ~Owns(x) /\ Keeps(x) /\ row[run[x].exec].status # "failed"
  BY DEF Owns, OwnPC, Keeps, PendingHasRow, CalledOff
<1>2. run[x].exec \in Execs
  BY ViewTypes DEF TypeOK
<1> QED
  BY <1>1, <1>2 DEF RowsOf, OneOwner

(* A dispatcher's steps give its slot back, and nobody else's.             *)
LEMMA RunSlots ==
  ASSUME InOrder, MovesOn, SlotsInStep, sched, NEW r \in Runs, RunStep(r), Alone(r),
         UNCHANGED <<mgr, loop>>, mgr \in {"up", "stopping"}
  PROVE  SlotsInStep'
<1>0. /\ TypeOK /\ OwnersInStep /\ OneOwner /\ RowsOf(r) /\ run[r].exec \in Execs /\ r # 0 /\ slot \in [Execs -> Nat]
      /\ OwnSlots /\ \A x \in Runs : PendingHasRow(x)
  BY RunRows, ViewTypes
  DEF InOrder, WorkInOrder, OwnersInStep, TypeOK, QueueTypeOK, Runs, SlotsInStep, OwnSlots, PendingHasRow
<1>1. slot' = slot \/ (Release(r) /\ MarkFinished(run[r].exec, r) /\ ~ResultPending(run[r].exec))
  BY DEF RunStep, ReadScheduler, DispatchFails, StartSession, Register, Check, Open, StartEffect, WorkEnds,
         EndWork, Interrupted, AbsoluteTimeout, GuardTimeout, GuardCancel, LateWorkEnds, Save, Reread,
         Fail, FailWrite, InterruptRead, InterruptJudge, InterruptRequeue, Release, FinishRef, Judge, Settle,
         queueVars
<1>2. SlotsLess
  BY <1>0, <1>1 DEF MarkFinished, SlotsLess
<1>3. NoNewOwner
  BY <1>0, RunOwnsLess, IdleOwner DEF NoNewOwner, Alone
<1>4. ASSUME NEW e \in Execs, slot'[e] # 0, mgr = "up"
      PROVE  SlotGivenBack(e)'
  <2> DEFINE s == slot[e]
  <2>1. s # 0 /\ slot'[e] = s /\ s \in Runs /\ run[s].exec = e /\ run[s].pc \in OwnPC \cup {"release", "pending"}
    BY <1>2, <1>4 DEF SlotsLess, SlotsInStep, SlotGivenBack
  <2>2. CASE s # r
    <3>1. run'[s].exec = e /\ run'[s].pc = run[s].pc
      BY <2>1, <2>2 DEF Alone, Idle
    <3> QED
      BY <2>1, <3>1 DEF SlotGivenBack
  <2>3. CASE s = r
    <3>1. run'[r].exec = e
      BY <1>0, <2>1, <2>3, RunOwnsLess
    <3>2. run'[r].pc \in OwnPC \cup {"release", "pending"}
      <4>1. CASE run[r].pc \in OwnPC
        BY <1>0, <4>1, OwnerReleases
      <4>2. CASE run[r].pc = "pending"
        BY <1>0, <4>2, PendingWaits
      <4>3. CASE run[r].pc = "release"
        <5>1. ~Release(r)
          <6>1. SUFFICES ASSUME Release(r)
                         PROVE  FALSE
            OBVIOUS
          <6>2. ~ResultPending(e)
            BY <1>0, <2>1, <2>3, <4>3 DEF ResultPending, OwnSlots, Keeps
          <6>3. MarkFinished(e, r)
            BY <2>1, <2>3, <6>1, <6>2 DEF Release
          <6> QED
            BY <1>0, <1>4, <2>3, <6>3 DEF MarkFinished
        <5> QED
          BY <1>0, <4>3, <5>1, ReleaseIsNext
      <4> QED
        BY <2>1, <2>3, <4>1, <4>2, <4>3
    <3> QED
      BY <2>1, <2>3, <3>1, <3>2 DEF SlotGivenBack
  <2> QED
    BY <2>2, <2>3
<1>5. ASSUME NEW x \in Runs
      PROVE  PendingHasRow(x)'
  <2>1. SUFFICES ASSUME run'[x].pc = "pending"
                 PROVE  PendingHasRow(x)'
    BY DEF PendingHasRow
  <2>2. run[x].pc = "pending" /\ run'[x].exec = run[x].exec
    <3>1. CASE x = r
      <4>1. Keeps(r) /\ run'[r].exec = run[r].exec /\ run'[r].pc \notin OwnPC \cup {"release"}
        BY <1>0, <2>1, <3>1, RunOwnsLess DEF Keeps, OwnPC
      <4>2. run[r].pc \notin OwnPC
        BY <1>0, <4>1, OwnerReleases
      <4> QED
        BY <3>1, <4>1, <4>2 DEF Keeps, Owns
    <3>2. CASE x # r
      BY <2>1, <3>2 DEF Alone, Idle
    <3> QED
      BY <3>1, <3>2
  <2>3. row'[run[x].exec] = row[run[x].exec]
    BY <1>0, <2>2, PendingRowKept
  <2> QED
    BY <1>0, <2>2, <2>3 DEF PendingHasRow, CalledOff
<1>6. loop.pc = "flushread" => CalledOff(loop.exec)' /\ loop'.exec = loop.exec
  BY <1>0, CalledOffStays, LoopViewTypes DEF SlotsInStep, TypeOK, CalledOff
<1>7. OwnSlots'
  BY <1>0, <1>2, <1>3, OwnSlotsStay
<1>8. mgr = "up" => \A e \in Execs : SlotGivenBack(e)'
  BY <1>4 DEF SlotGivenBack
<1> QED
  BY <1>5, <1>6, <1>7, <1>8 DEF SlotsInStep, OwnSlots, PendingHasRow

(* A write that raises leaves the slot with the waiting result.            *)
LEMMA FailSaveSlots ==
  ASSUME InOrder, MovesOn, SlotsInStep, NEW r \in Runs, SaveFails(r, FALSE),
         UNCHANGED <<mgr, loop>>, mgr \in {"up", "stopping"}
  PROVE  SlotsInStep'
<1> DEFINE e == run[r].exec
<1>0. /\ TypeOK /\ OneOwner /\ OwnerHasRow(r) /\ run \in [Runs -> RunType] /\ e \in Execs
      /\ OwnSlots /\ \A x \in Runs : PendingHasRow(x)
  BY ViewTypes
  DEF InOrder, WorkInOrder, OwnersInStep, TypeOK, RunsTypeOK, SlotsInStep, OwnSlots, PendingHasRow
<1>1. /\ run[r].pc = "save" /\ Owns(r) /\ UNCHANGED <<row, slot>>
      /\ run' = [x \in Runs |-> IF x = r THEN [run[x] EXCEPT !.pc = "pending"] ELSE NoLongerPending(x, e)]
  BY DEF SaveFails, Owns, OwnPC, PC, storeVars, queueVars
<1>2. ASSUME NEW x \in Runs \ {r}
      PROVE  run'[x] = run[x]
  <2>1. run[x].exec = e => run[x].pc # "pending"
    BY <1>0, <1>1 DEF OneOwner, Keeps
  <2> QED
    BY <1>1, <2>1 DEF NoLongerPending
<1>3. run'[r].pc = "pending" /\ run'[r].exec = e
  BY <1>0, <1>1 DEF RunType
<1>4. NoNewOwner /\ SlotsLess
  BY <1>1, <1>2, <1>3 DEF NoNewOwner, SlotsLess, Owns, Keeps, OwnPC
<1>5. ASSUME NEW x \in Runs
      PROVE  PendingHasRow(x)'
  BY <1>0, <1>1, <1>2, <1>3 DEF PendingHasRow, OwnerHasRow, CalledOff
<1>6. mgr = "up" => \A y \in Execs : SlotGivenBack(y)'
  BY <1>1, <1>2, <1>3 DEF SlotsInStep, SlotGivenBack
<1>7. OwnSlots'
  BY <1>0, <1>4, OwnSlotsStay
<1> QED
  BY <1>1, <1>5, <1>6, <1>7 DEF SlotsInStep, OwnSlots, PendingHasRow, CalledOff

(* A claim takes a slot that nobody is to give back any more.              *)
LEMMA ClaimSlots ==
  ASSUME InOrder, MovesOn, SlotsInStep, NEW e \in Execs, claims < MaxClaims, LoopFree, MayDequeue(e),
         ClaimRow(e, claims + 1), NEW pc, run' = [run EXCEPT ![claims + 1] = NewRun(e, row'[e], pc)],
         \/ slot' = [slot EXCEPT ![e] = claims + 1] /\ pc = "scheduler"
         \/ slot' = slot /\ pc = "over",
         UNCHANGED <<mgr, loop>>
  PROVE  SlotsInStep'
<1> DEFINE n == claims + 1
<1>0. /\ TypeOK /\ StoreTypeOK /\ run \in [Runs -> RunType] /\ n \in Runs /\ slot \in [Execs -> Nat] /\ slot[e] = 0
      /\ row[e].status = "queued" /\ run[n].pc = "unused" /\ mgr = "up" /\ loop.pc = "idle" /\ n # 0 /\ n \in Nat
      /\ OwnSlots /\ \A x \in Runs : PendingHasRow(x) /\ OwnerHasRow(x) /\ run[x].exec \in Execs
  <2>1. /\ TypeOK /\ StoreTypeOK /\ RunsTypeOK /\ run \in [Runs -> RunType] /\ slot \in [Execs -> Nat]
        /\ claims \in 0..MaxClaims /\ FencesHold
    BY DEF InOrder, TypeOK, RunsTypeOK, QueueTypeOK
  <2>2. n \in Runs /\ n # 0 /\ n \in Nat /\ n > claims
    BY <2>1, MaxClaimsAssumption DEF Runs
  <2>3. run[n].pc = "unused"
    BY <2>1, <2>2 DEF FencesHold, Fenced
  <2>4. slot[e] = 0 /\ row[e].status = "queued" /\ mgr = "up" /\ loop.pc = "idle"
    BY DEF MayDequeue, Claimable, LoopFree
  <2>5. OwnSlots /\ \A x \in Runs : PendingHasRow(x)
    BY DEF SlotsInStep, OwnSlots, PendingHasRow
  <2>6. \A x \in Runs : OwnerHasRow(x) /\ run[x].exec \in Execs
    BY <2>1, ViewTypes DEF InOrder, WorkInOrder, OwnersInStep
  <2> QED
    BY <2>1, <2>2, <2>3, <2>4, <2>5, <2>6
<1>1. \A x \in Runs : Keeps(x) => run[x].exec # e
  BY <1>0 DEF OwnerHasRow, PendingHasRow, Keeps, CalledOff
<1>2. run'[n] = NewRun(e, row'[e], pc) /\ \A x \in Runs \ {n} : run'[x] = run[x]
  BY <1>0
<1>3. run'[n].exec = e /\ run'[n].pc = pc
  BY <1>2 DEF NewRun
<1>4. \A x \in Execs \ {e} : row'[x] = row[x] /\ slot'[x] = slot[x]
  <2>1. \A x \in Execs \ {e} : row'[x] = row[x]
    BY <1>0, ClaimFields
  <2>2. \A x \in Execs \ {e} : slot'[x] = slot[x]
    BY <1>0
  <2> QED
    BY <2>1, <2>2
<1>5. ASSUME NEW y \in Execs
      PROVE  SlotGivenBack(y)'
  <2>1. SlotGivenBack(y)
    BY <1>0 DEF SlotsInStep
  <2>2. CASE slot'[y] = slot[y]
    <3>1. slot[y] # n
      BY <1>0, <2>1 DEF SlotGivenBack, OwnPC
    <3> QED
      BY <1>2, <2>1, <2>2, <3>1 DEF SlotGivenBack
  <2>3. CASE slot'[y] # slot[y]
    <3>1. y = e /\ slot'[y] = n /\ pc = "scheduler"
      BY <1>0, <1>4, <2>3
    <3> QED
      BY <1>0, <1>3, <3>1 DEF SlotGivenBack, OwnPC, PC
  <2> QED
    BY <2>2, <2>3
<1>6. ASSUME NEW x \in Runs
      PROVE  (Keeps(x)' => slot'[run'[x].exec] \in {0, x}) /\ PendingHasRow(x)'
  <2>1. CASE x = n
    BY <1>0, <1>3, <2>1 DEF Keeps, Owns, OwnPC, PendingHasRow
  <2>2. CASE x # n
    <3>1. run'[x] = run[x] /\ (Keeps(x)' <=> Keeps(x))
      BY <1>2, <2>2 DEF Keeps, Owns
    <3>2. Keeps(x) => slot'[run[x].exec] = slot[run[x].exec] /\ row'[run[x].exec] = row[run[x].exec]
      BY <1>0, <1>1, <1>4
    <3>3. PendingHasRow(x)'
      BY <1>0, <3>1, <3>2 DEF PendingHasRow, Keeps, CalledOff
    <3> QED
      BY <1>0, <3>1, <3>2, <3>3 DEF OwnSlots
  <2> QED
    BY <2>1, <2>2
<1> QED
  BY <1>0, <1>5, <1>6 DEF SlotsInStep, OwnSlots, PendingHasRow

(* A flush gives back the slot of the result it has seen to.               *)
LEMMA FlushSlots ==
  ASSUME InOrder, MovesOn, RefsInStep, SlotsInStep, (\E r \in Runs : FlushWrite(r)) \/ FlushRead
  PROVE  SlotsInStep'
<1>0. /\ TypeOK /\ StoreTypeOK /\ run \in [Runs -> RunType] /\ slot \in [Execs -> Nat]
      /\ mgr = "up" /\ mgr' = "up" /\ OwnSlots
      /\ \A x \in Runs : PendingHasRow(x) /\ run[x].exec \in Execs /\ run[x].obj \in RowType /\ x # 0
      /\ \A x \in Runs : run[x].pc = "pending" => run[x].obj.started = x
  <2>1. /\ TypeOK /\ StoreTypeOK /\ RunsTypeOK /\ run \in [Runs -> RunType] /\ slot \in [Execs -> Nat]
        /\ FencesHold
    BY DEF InOrder, TypeOK, RunsTypeOK, QueueTypeOK
  <2>2. mgr = "up" /\ mgr' = "up"
    BY DEF FlushWrite, FlushRead, LoopFree
  <2>3. OwnSlots /\ \A x \in Runs : PendingHasRow(x)
    BY DEF SlotsInStep, OwnSlots, PendingHasRow
  <2>4. \A x \in Runs : run[x].exec \in Execs /\ run[x].obj \in RowType /\ x # 0
    BY <2>1, ViewTypes, MaxClaimsAssumption DEF Runs
  <2>5. \A x \in Runs : run[x].pc = "pending" => run[x].obj.started = x
    BY <2>1 DEF FencesHold, Fenced, FirstObject
  <2> QED
    BY <2>1, <2>2, <2>3, <2>4, <2>5
<1>1. ASSUME NEW r \in Runs, run[r].pc = "pending", MarkFinished(run[r].exec, run[r].obj.started)
      PROVE  slot'[run[r].exec] = 0 /\ SlotsLess
  <2>1. slot[run[r].exec] \in {0, r}
    BY <1>0, <1>1 DEF OwnSlots, Keeps
  <2> QED
    BY <1>0, <1>1, <2>1 DEF MarkFinished, SlotsLess
<1>2. ASSUME NEW e \in Execs, slot'[e] = 0, SlotsLess,
             \A x \in Runs : run'[x] = run[x] \/ (run[x].exec = e /\ run'[x].exec = e /\ run'[x].pc \in {"judge", "over"}),
             \A x \in Runs : run'[x].pc = "pending" => row'[run[x].exec] = row[run[x].exec],
             loop'.pc # "flushread"
      PROVE  SlotsInStep'
  <2>1. NoNewOwner
    BY <1>2 DEF NoNewOwner, Owns, Keeps, OwnPC
  <2>2. OwnSlots'
    BY <1>0, <1>2, <2>1, OwnSlotsStay
  <2>3. \A x \in Runs : PendingHasRow(x)'
    BY <1>0, <1>2 DEF PendingHasRow, CalledOff
  <2>4. ASSUME NEW y \in Execs, slot'[y] # 0
        PROVE  SlotGivenBack(y)'
    <3>1. y # e /\ slot'[y] = slot[y] /\ SlotGivenBack(y)
      BY <1>0, <1>2, <2>4 DEF SlotsLess, SlotsInStep
    <3> QED
      BY <1>2, <2>4, <3>1 DEF SlotGivenBack
  <2>5. \A y \in Execs : SlotGivenBack(y)'
    BY <2>4 DEF SlotGivenBack
  <2> QED
    BY <1>0, <1>2, <2>2, <2>3, <2>5 DEF SlotsInStep, OwnSlots, PendingHasRow
<1>3. ASSUME NEW r \in Runs, FlushWrite(r)
      PROVE  SlotsInStep'
  <2> DEFINE e == run[r].exec
             o == run[r].obj
  <2>0. run[r].pc = "pending" /\ loop.pc = "idle" /\ o.started = r
    BY <1>0, <1>3 DEF FlushWrite, LoopFree
  <2>1. CASE StillActive(e, o)
    <3>1. /\ WriteRow(e, o) /\ MarkFinished(e, o.started) /\ loop'.pc \in {"idle", "flushjudge"}
          /\ \E p \in {"judge", "over"} : run' = [run EXCEPT ![r].pc = p, ![r].obj = row'[e]]
      BY <1>3, <2>0, <2>1 DEF FlushWrite, LoopIdle
    <3>2. \A x \in Runs : run'[x] = run[x] \/ (x = r /\ run'[x].exec = e /\ run'[x].pc \in {"judge", "over"})
      BY <1>0, <3>1 DEF RunType
    <3>3. ASSUME NEW x \in Runs, run'[x].pc = "pending"
          PROVE  row'[run[x].exec] = row[run[x].exec]
      <4>1. x # r /\ run[x].pc = "pending" /\ PendingHasRow(x)
        BY <1>0, <3>1, <3>2, <3>3 DEF RunType
      <4>2. run[x].exec # e
        BY <1>0, <2>0, <2>1, <4>1 DEF PendingHasRow, StillActive, IsActive, Active, CalledOff
      <4> QED
        BY <1>0, <3>1, <4>2, WriteFields
    <3> QED
      BY <1>0, <1>1, <1>2, <2>0, <3>1, <3>2, <3>3
  <2>2. CASE ~StillActive(e, o)
    <3>1. UNCHANGED <<row, slot, run>> /\ loop' = [LoopIdle EXCEPT !.pc = "flushread", !.exec = e, !.r = r]
      BY <1>3, <2>2 DEF FlushWrite, storeVars
    <3>2. loop'.exec = e
      BY <3>1 DEF LoopIdle
    <3>3. CalledOff(e)
      BY <1>0, <2>0, <2>2 DEF PendingHasRow, StillActive, IsActive, Active
    <3> QED
      BY <1>0, <3>1, <3>2, <3>3 DEF SlotsInStep, SlotGivenBack, Keeps, Owns, CalledOff
  <2> QED
    BY <2>1, <2>2
<1>4. CASE FlushRead
  <2> DEFINE e == loop.exec
             r == loop.r
  <2>1. /\ r \in Runs /\ run[r].pc = "pending" /\ run[r].exec = e /\ CalledOff(e) /\ e \in Execs
    BY <1>4, <1>0, LoopViewTypes DEF FlushRead, RefsInStep, LoopHoldings, SlotsInStep, TypeOK
  <2>2. ~IsActive(e)
    BY <2>1 DEF CalledOff, IsActive, Active
  <2>3. /\ MarkFinished(run[r].exec, run[r].obj.started) /\ loop'.pc = "idle" /\ row' = row
        /\ run' = [x \in Runs |-> NoLongerPending(x, e)]
    BY <1>4, <2>1, <2>2 DEF FlushRead, LoopIdle, storeVars
  <2>4. \A x \in Runs : run'[x] = run[x] \/ (run[x].exec = e /\ run'[x].exec = e /\ run'[x].pc \in {"judge", "over"})
    BY <1>0, <2>3 DEF NoLongerPending, RunType
  <2> QED
    BY <1>1, <1>2, <2>1, <2>3, <2>4
<1> QED
  BY <1>3, <1>4

(* The execution loop gives slots back where nobody will.                  *)
LEMMA LoopSlots ==
  ASSUME InOrder, MovesOn, RefsInStep, SlotsInStep, LoopStep
  PROVE  SlotsInStep'
<1> USE DEF storeVars, queueVars, runVars, managerVars
<1>0. /\ TypeOK /\ StoreTypeOK /\ loop \in LoopType /\ loop.exec \in Execs /\ loop.obj \in RowType
      /\ Requeued(loop.obj, FALSE) \in RowType /\ slot \in [Execs -> Nat] /\ LoopHoldings /\ LoopCurrent
      /\ \A x \in Runs : run[x].exec \in Execs
  BY LoopViewTypes, ViewTypes DEF InOrder, ViewsCurrent, TypeOK, ManagerTypeOK, QueueTypeOK, RefsInStep
<1>1. ASSUME NEW e \in Execs, Dequeue(e)
      PROVE  SlotsInStep'
  BY <1>1, ClaimSlots DEF Dequeue
<1>2. ASSUME run' = run \/ \E S : run' = Signalled(S), mgr' = mgr, SlotsLess, loop'.pc # "flushread",
             \A x \in Runs : run[x].pc = "pending" => RunsOn(run[x].exec)
      PROVE  SlotsInStep'
  <2>1. \A x \in Runs : Idle(x)
    BY <1>0, <1>2, RunsIdle DEF TypeOK
  <2> QED
    BY <1>0, <1>2, <2>1, IdleSlots
<1>3. ASSUME NEW e \in Execs, TakeRow(e) \/ TakeStale(e)
      PROVE  SlotsInStep'
  <2>1. /\ UNCHANGED <<row, slot, mgr>> /\ (run' = run \/ \E S : run' = Signalled(S))
        /\ loop'.pc \in {"retry", "orphan", "stalejudge"}
    BY <1>3 DEF TakeRow, TakeStale, LoopIdle
  <2> QED
    BY <1>2, <2>1 DEF SlotsLess, RunsOn
<1>4. CASE LoopRequeue
  <2> DEFINE q == Requeued(loop.obj, FALSE)
             n == IF loop.pc = "retry" THEN [q EXCEPT !.due = FALSE] ELSE q
  <2>1. n \in RowType
    BY <1>0 DEF RowType
  <2>2. /\ UNCHANGED <<slot, run, mgr>> /\ loop'.pc = "idle"
        /\ row' = row \/ (RequeueRow(loop.exec, n) /\ row[loop.exec].status # "running")
    BY <1>0, <1>4 DEF LoopRequeue, LoopIdle, Requeueable, LoopCurrent
  <2> HIDE DEF n
  <2>3. \A x \in Execs : RunsOn(x)
    BY <1>0, <2>1, <2>2, RequeueFields DEF RunsOn
  <2> QED
    BY <1>0, <1>2, <2>2, <2>3 DEF SlotsLess
<1>5. CASE StaleJudge \/ StaleFail \/ StaleFree \/ StaleFinishRef \/ FlushHandled
  <2>1. UNCHANGED <<row, run, mgr>>
    BY <1>5 DEF StaleJudge, StaleFail, StaleFree, StaleFinishRef, FlushHandled, FinishRefRow
  <2>2. SlotsLess
    BY <1>0, <1>5 DEF StaleJudge, StaleFail, StaleFree, StaleFinishRef, FlushHandled, MarkFinished, SlotsLess
  <2>3. loop'.pc # "flushread"
    <3>1. CASE StaleFinishRef \/ FlushHandled \/ StaleFree
      BY <1>0, <3>1 DEF StaleFree, StaleFinishRef, FlushHandled, LoopIdle, LoopType
    <3>2. CASE StaleJudge
      <4>1. PICK h : loop' = [loop EXCEPT !.pc = "stalefail", !.hold = h]
        BY <3>2 DEF StaleJudge
      <4> QED
        BY <1>0, <4>1 DEF LoopType
    <3>3. CASE StaleFail
      <4>1. PICK n : \/ loop' = [loop EXCEPT !.pc = "stalefree"]
                     \/ loop' = [loop EXCEPT !.pc = "stalewrite", !.obj = n]
        BY <3>3, Zenon DEF StaleFail
      <4> QED
        BY <1>0, <4>1 DEF LoopType
    <3> QED
      BY <1>5, <3>1, <3>2, <3>3
  <2> QED
    BY <1>2, <2>1, <2>2, <2>3 DEF RunsOn
<1>6. CASE StaleWrite
  <2>1. /\ UNCHANGED <<slot, run, mgr>> /\ loop'.pc = "stalefree" /\ Recovering
        /\ row' = row \/ WriteRow(loop.exec, loop.obj)
    BY <1>0, <1>6 DEF StaleWrite, LoopType, Recovering
  <2>2. ASSUME NEW x \in Runs, run[x].pc = "pending"
        PROVE  row'[run[x].exec] = row[run[x].exec]
    <3>1. run[x].exec # loop.exec
      BY <1>0, <2>1, <2>2 DEF LoopHoldings, Keeps
    <3> QED
      BY <1>0, <2>1, <3>1, WriteFields
  <2> QED
    BY <1>2, <2>1, <2>2 DEF RunsOn, SlotsLess
<1> QED
  BY <1>1, <1>3, <1>4, <1>5, <1>6, FlushSlots DEF LoopStep

(* A request gives back the slot of what it cancelled, and a row it writes *)
(* is called off or does not run.                                          *)
LEMMA RequestSlots ==
  ASSUME InOrder, MovesOn, SlotsInStep, NEW q \in Reqs, AskStep(q) \/ RequestStep(q)
  PROVE  SlotsInStep'
<1> DEFINE e == req[q].exec
           o == req[q].obj
<1> USE DEF storeVars, queueVars, runVars
<1>0. TypeOK /\ StoreTypeOK /\ slot \in [Execs -> Nat] /\ e \in Execs /\ o \in RowType
  BY ReqViewTypes DEF InOrder, TypeOK, QueueTypeOK
<1>1. mgr = "up" /\ mgr' = "up" /\ loop' = loop
  BY RequestsWhileUp
<1>2. \A x \in Runs : Idle(x)
  <2>1. run' = run \/ \E S : run' = Signalled(S)
    BY DEF AskStep, AskCancel, AskDelete, AskRetry, AskResume, AskDrop, PauseQueue, View, Ask,
           RequestStep, CancelWrite, CancelStop, CancelFree, DeleteExecution, DropNext, DropScheduler,
           PersonRequeue
  <2> QED
    BY <1>0, <2>1, RunsIdle DEF TypeOK
<1>3. ASSUME \A x \in Execs : RunsOn(x), SlotsLess
      PROVE  SlotsInStep'
  <2>1. \A x \in Runs : run[x].exec \in Execs
    BY <1>0, ViewTypes DEF TypeOK
  <2> QED
    BY <1>0, <1>1, <1>2, <1>3, <2>1, IdleSlots
<1>4. CASE UNCHANGED <<row, slot>>
  BY <1>3, <1>4 DEF RunsOn, SlotsLess
<1>5. ASSUME NEW x \in Execs, View(q, x)
      PROVE  SlotsInStep'
  <2>1. ViewRow(x) /\ slot' = slot
    BY <1>5 DEF View
  <2>2. \A y \in Execs : RunsOn(y)
    BY <1>0, <2>1, ViewFields DEF RunsOn
  <2> QED
    BY <1>3, <2>1, <2>2 DEF SlotsLess
<1>6. CASE CancelWrite(q)
  <2>1. (CancelRow(e) \/ UNCHANGED row) /\ slot' = slot
    BY <1>6 DEF CancelWrite
  <2>2. CASE CancelRow(e)
    <3>1. \A y \in Execs : RunsOn(y)
      BY <1>0, <2>2, CancelFields DEF RunsOn, CalledOff
    <3> QED
      BY <1>3, <2>1, <3>1 DEF SlotsLess
  <2> QED
    BY <1>4, <2>1, <2>2
<1>7. CASE CancelFree(q)
  <2>1. UNCHANGED row /\ MarkFinished(e, 0)
    BY <1>7 DEF CancelFree, FinishRefRow
  <2> QED
    BY <1>0, <1>3, <2>1 DEF RunsOn, SlotsLess, MarkFinished
<1>8. CASE DeleteExecution(q) \/ DropScheduler(q)
  <2>1. PICK S : DeleteRows(S) /\ slot' = slot
    BY <1>8 DEF DeleteExecution, DropScheduler
  <2>2. \A y \in Execs : RunsOn(y)
    BY <1>0, <2>1, DeleteFields DEF RunsOn, CalledOff, NoRow
  <2> QED
    BY <1>3, <2>1, <2>2 DEF SlotsLess
<1>9. CASE PersonRequeue(q)
  <2> DEFINE n == SentAgain(o, req[q].op)
  <2>1. UNCHANGED slot /\ (UNCHANGED row \/ (RequeueRow(e, n) /\ row[e].status = "failed"))
    BY <1>9 DEF PersonRequeue, SentAgain, Requeueable
  <2>2. n \in RowType
    BY <1>0, SentAgainFields
  <2> HIDE DEF n
  <2>3. \A y \in Execs : RunsOn(y)
    BY <1>0, <2>1, <2>2, RequeueFields DEF RunsOn
  <2> QED
    BY <1>3, <2>1, <2>3 DEF SlotsLess
<1> QED
  BY <1>4, <1>5, <1>6, <1>7, <1>8, <1>9
  DEF AskStep, AskCancel, AskDelete, AskRetry, AskResume, AskDrop, PauseQueue, Ask,
      RequestStep, CancelStop, DropNext

(* A process that starts has no slots taken and no runs to give one back;  *)
(* one that stops keeps those of the runs it still waits for.              *)
LEMMA RestartSlots ==
  ASSUME InOrder, SlotsInStep,
         \/ Start \/ Started \/ \E e \in Execs : SettleOrphan(e) \/ RefOrphan(e)
         \/ Stop \/ Gone
  PROVE  SlotsInStep'
<1> USE DEF storeVars, queueVars, runVars, managerVars
<1>0. /\ TypeOK /\ run \in [Runs -> RunType] /\ slot \in [Execs -> Nat] /\ FencesHold /\ LoopAgrees
      /\ OwnSlots /\ \A x \in Runs : PendingHasRow(x) /\ run[x].exec \in Execs
  <2>1. TypeOK /\ RunsTypeOK /\ StoreTypeOK /\ run \in [Runs -> RunType] /\ slot \in [Execs -> Nat]
        /\ FencesHold /\ LoopAgrees
    BY DEF InOrder, WorkInOrder, OwnersInStep, TypeOK, RunsTypeOK, QueueTypeOK
  <2>2. OwnSlots /\ \A x \in Runs : PendingHasRow(x)
    BY DEF SlotsInStep, OwnSlots, PendingHasRow
  <2> QED
    BY <2>1, <2>2, ViewTypes
<1>1. CASE Start \/ Started \/ \E e \in Execs : SettleOrphan(e) \/ RefOrphan(e)
  <2>1. mgr \in {"down", "starting"} /\ UNCHANGED <<slot, run, loop>>
    BY <1>1 DEF Start, Started, SettleOrphan, RefOrphan
  <2>2. /\ \A x \in Execs : slot[x] = 0
        /\ loop.pc = "idle"
    BY <1>0, <2>1 DEF SlotsInStep, LoopAgrees
  <2>3. \A x \in Runs : ~Keeps(x)
    BY <1>0, <2>1 DEF FencesHold, Fenced, Live, Keeps, Owns, OwnPC
  <2> QED
    BY <2>1, <2>2, <2>3 DEF SlotsInStep, SlotGivenBack, Keeps, Owns
<1>2. CASE Gone
  <2>1. /\ \A x \in Execs : slot'[x] = 0
        /\ loop'.pc = "idle" /\ mgr' = "down"
    BY <1>2 DEF Gone, LoopIdle
  <2>2. ASSUME NEW x \in Runs
        PROVE  run'[x].pc \in {"unused", "over"}
    <3>1. run[x] \in RunType /\ run[x].pc = "unused" => run'[x] = run[x]
      BY <1>0, <1>2 DEF Gone
    <3>2. run[x].pc # "unused" => \E w : run'[x] = [run[x] EXCEPT !.pc = "over", !.work = w]
      BY <1>2 DEF Gone
    <3>3. run[x] \in RunType
      BY <1>0
    <3> QED
      BY <3>1, <3>2, <3>3 DEF RunType
  <2> QED
    BY <1>0, <2>1, <2>2 DEF SlotsInStep, Keeps, Owns, OwnPC
<1>3. CASE Stop
  <2>1. loop'.pc = "idle" /\ mgr' = "stopping" /\ UNCHANGED <<row, slot>>
    BY <1>3 DEF Stop, LoopIdle
  <2>2. ASSUME NEW x \in Runs
        PROVE  run'[x].exec = run[x].exec /\ run'[x].pc # "pending" /\ (Keeps(x)' => Keeps(x))
    <3>1. run'[x] = Interruption(run[x]) /\ run[x] \in RunType
      BY <1>0, <1>3 DEF Stop
    <3>2. CASE run[x].pc \in InDispatch \cup {"reread"}
      <4>1. Keeps(x)
        BY <3>2 DEF Keeps, Owns, OwnPC, PC, InDispatch
      <4> QED
        BY <3>1, <3>2, <4>1 DEF Interruption, RunType
    <3>3. CASE run[x].pc \notin InDispatch \cup {"reread"}
      <4>1. /\ run'[x].exec = run[x].exec
            /\ run'[x].pc = "release" \/ run'[x].pc = "over" \/ (run[x].pc = "unused" /\ run'[x] = run[x])
        BY <3>1, <3>3 DEF Interruption, RunType
      <4> QED
        BY <4>1 DEF Keeps, Owns, OwnPC
    <3> QED
      BY <3>2, <3>3
  <2> QED
    BY <1>0, <2>1, <2>2 DEF SlotsInStep, OwnSlots
<1> QED
  BY <1>1, <1>2, <1>3

(* Unless one of the exceptions happens, every step keeps slots in step.   *)
LEMMA NextSlots ==
  ASSUME InOrder, TypeOK', AsAsked, RefsInStep, SlotsInStep, "lostsave" \notin Faults, "drop" \notin Ops,
         [Next]_vars
  PROVE  SlotsInStep'
<1> USE DEF storeVars, queueVars, runVars, managerVars
<1>0. /\ TypeOK /\ StoreTypeOK /\ ViewsCurrent /\ FencesHold /\ MovesOn /\ sched
      /\ \A x \in Runs : run[x].exec \in Execs
  <2>1. TypeOK /\ StoreTypeOK /\ RunsTypeOK /\ ViewsCurrent /\ FencesHold /\ MovesOn
    BY NextCurrent DEF AllCurrent, RunsStayCurrent, InOrder, TypeOK
  <2>2. sched
    BY DEF AsAsked
  <2> QED
    BY <2>1, <2>2, ViewTypes
<1>1. ASSUME UNCHANGED <<run, loop, mgr, slot>>, \A x \in Execs : RunsOn(x)
      PROVE  SlotsInStep'
  BY <1>0, <1>1, IdleSlots DEF Idle, SlotsLess
<1>2. ASSUME NEW e \in Execs, Create(e) \/ Expire(e)
      PROVE  SlotsInStep'
  <2>1. UNCHANGED <<run, loop, mgr, slot>> /\ (CreateRow(e) \/ ExpireRow(e))
    BY <1>2 DEF Create, Expire
  <2>2. \A x \in Execs : RunsOn(x)
    BY <1>0, <2>1, CreateFields, CancelFields DEF RunsOn, CalledOff
  <2> QED
    BY <1>1, <2>1, <2>2
<1>3. ASSUME NEW e \in Execs, LoseClaim(e)
      PROVE  SlotsInStep'
  BY <1>0, <1>3, ClaimSlots DEF LoseClaim
<1>4. ASSUME NEW r \in Runs, RunProgress(r)
      PROVE  SlotsInStep'
  <2>1. UNCHANGED <<mgr, loop>> /\ RunStep(r) /\ mgr \in {"up", "stopping"}
    BY <1>4 DEF RunProgress, Running
  <2>2. UNCHANGED claims
    BY <2>1 DEF RunStep, ReadScheduler, DispatchFails, StartSession, Register, Check,
                  Open, StartEffect, WorkEnds, EndWork, Interrupted, AbsoluteTimeout, GuardTimeout, GuardCancel,
                  LateWorkEnds, Save, Reread, Fail, FailWrite, InterruptRead, InterruptJudge,
                  InterruptRequeue, Release, FinishRef, Judge, Settle
  <2>3. Alone(r)
    BY <1>0, <2>1, <2>2, RunStepFenced
  <2> QED
    BY <1>0, <2>1, <2>3, RunSlots
<1>5. ASSUME NEW r \in Runs, FailSave(r)
      PROVE  SlotsInStep'
  BY <1>0, <1>5, FailSaveSlots DEF FailSave, Running, Fault
<1>6. CASE LoopStep
  BY <1>0, <1>6, LoopSlots
<1>7. ASSUME NEW q \in Reqs, AskStep(q) \/ RequestStep(q)
      PROVE  SlotsInStep'
  BY <1>0, <1>7, RequestSlots
<1>8. CASE ResumeQueue \/ UNCHANGED vars
  <2>1. UNCHANGED <<row, run, loop, mgr, slot>>
    BY <1>8 DEF ResumeQueue, vars
  <2> QED
    BY <1>1, <2>1 DEF RunsOn
<1>9. CASE Quit \/ Crash
  BY <1>9, RestartSlots DEF Quit, Crash
<1> QED
  BY <1>2, <1>3, <1>4, <1>5, <1>6, <1>7, <1>8, <1>9, RestartSlots DEF Next

(* At first no slot is taken.                                              *)
LEMMA InitSlots == Init => SlotsInStep
BY DEF Init, QueueInit, RunsInit, NewRun, LoopIdle, SlotsInStep, SlotGivenBack, Keeps, Owns, OwnPC

-----------------------------------------------------------------------------
(* The limit.                                                              *)
OccupiedFits == IsFiniteSet(Occupied) /\ Cardinality(Occupied) <= MaxConcurrent
NobodyDispatches == mgr = "stopping" => \A r \in Runs : run[r].pc \notin InDispatch \cup {"scheduler"}
CancelledOnce ==
  \A p, q \in Reqs : req[p].pc \in {"stop", "free"} /\ req[q].pc \in {"stop", "free"}
                     /\ req[p].exec = req[q].exec => p = q
SlotKept(r) ==
  LET e == run[r].exec IN
  Owns(r) /\ mgr = "up" => slot[e] = r \/ (row[e].status = "cancelled" /\ ~Cancelling(e))

(* The parts are the invariant.                                            *)
LEMMA CapParts ==
  /\ CapInStep => OccupiedFits /\ NobodyDispatches /\ CancelledOnce /\ \A r \in Runs : SlotKept(r)
  /\ OccupiedFits' /\ NobodyDispatches' /\ CancelledOnce' /\ (\A r \in Runs : SlotKept(r)') => CapInStep'
BY DEF CapInStep, OccupiedFits, NobodyDispatches, CancelledOnce, SlotKept

(* Fewer slots are taken.                                                  *)
LEMMA LessOccupied ==
  ASSUME OccupiedFits, SlotsLess
  PROVE  OccupiedFits'
<1>1. Occupied' \in SUBSET Occupied
  BY DEF Occupied, SlotsLess
<1>2. IsFiniteSet(Occupied') /\ Cardinality(Occupied') <= Cardinality(Occupied)
  BY <1>1, FS_Subset DEF OccupiedFits
<1>3. Cardinality(Occupied) \in Nat /\ Cardinality(Occupied') \in Nat
  BY <1>2, FS_CardinalityType DEF OccupiedFits
<1> QED
  BY <1>2, <1>3, MaxConcurrentAssumption DEF OccupiedFits

(* One more, as long as there is room.                                     *)
LEMMA OneMoreOccupied ==
  ASSUME OccupiedFits, slot \in [Execs -> Nat], NEW e \in Execs, NEW n,
         Cardinality(Occupied) < MaxConcurrent, slot' = [slot EXCEPT ![e] = n]
  PROVE  OccupiedFits'
<1>1. Occupied' \in SUBSET (Occupied \cup {e})
  BY DEF Occupied
<1>2. /\ IsFiniteSet(Occupied \cup {e})
      /\ Cardinality(Occupied \cup {e}) \in {Cardinality(Occupied), Cardinality(Occupied) + 1}
  BY FS_AddElement DEF OccupiedFits
<1>3. IsFiniteSet(Occupied') /\ Cardinality(Occupied') <= Cardinality(Occupied \cup {e})
  BY <1>1, <1>2, FS_Subset
<1>4. Cardinality(Occupied) \in Nat /\ Cardinality(Occupied') \in Nat
  BY <1>3, FS_CardinalityType DEF OccupiedFits
<1> QED
  BY <1>2, <1>3, <1>4, MaxConcurrentAssumption DEF OccupiedFits

(* The slot of a run stays, or is given back once it was told to stop.     *)
SlotStays(x) ==
  \A e \in Execs : run[x].exec = e /\ Owns(x)' /\ slot[e] = x =>
    slot'[e] = x \/ (row'[e].status = "cancelled" /\ ~Cancelling(e)')

(* So a run whose slot stays keeps it.                                     *)
LEMMA SlotKeptStill ==
  ASSUME TypeOK, MovesOn, NEW x \in Runs, SlotKept(x), SlotStays(x), mgr' = mgr,
         Owns(x)' => Owns(x) /\ run'[x].exec = run[x].exec,
         \A e \in Execs : /\ row'[e].status # "deleted"
                          /\ row[e].status = "cancelled" /\ ~Cancelling(e) => ~Cancelling(e)'
  PROVE  SlotKept(x)'
<1>1. PICK e \in Execs : e = run[x].exec
  BY ViewTypes DEF TypeOK
<1>2. row[e].status = "cancelled" => row'[e].status = "cancelled"
  BY <1>1, CalledOffStays DEF MovesOn, RowStep
<1>3. Owns(x)' => run'[x].exec = e
  BY <1>1
<1> QED
  BY <1>1, <1>2, <1>3 DEF SlotKept, SlotStays

(* Where no request moves.                                                 *)
LEMMA CapStays ==
  ASSUME TypeOK, MovesOn, CapInStep, SlotsLess, NoNewOwner, mgr' = mgr, req' = req, NobodyDispatches',
         \A e \in Execs : row'[e].status # "deleted",
         mgr = "up" => \A x \in Runs : Owns(x)' /\ slot[run[x].exec] = x => slot'[run[x].exec] = x
  PROVE  CapInStep'
<1>1. OccupiedFits'
  BY LessOccupied DEF CapInStep, OccupiedFits
<1>2. CancelledOnce'
  BY DEF CapInStep, CancelledOnce
<1>3. \A e \in Execs : Cancelling(e)' = Cancelling(e)
  BY DEF Cancelling
<1>4. ASSUME NEW x \in Runs, mgr = "up"
      PROVE  SlotKept(x)'
  <2>1. run[x].exec \in Execs
    BY ViewTypes DEF TypeOK
  <2>2. Owns(x)' => Owns(x) /\ run'[x].exec = run[x].exec
    BY DEF NoNewOwner, Keeps
  <2>3. SlotKept(x) /\ SlotStays(x)
    BY <1>4, CapParts DEF SlotStays
  <2> QED
    BY <1>3, <2>2, <2>3, SlotKeptStill
<1>5. \A x \in Runs : SlotKept(x)'
  BY <1>4 DEF SlotKept
<1> QED
  BY <1>1, <1>2, <1>5, CapParts

(* Once out of dispatch, a run is not dispatched again.                    *)
LEMMA NeverBack ==
  ASSUME TypeOK, NEW r \in Runs, RunStep(r), run[r].pc \notin InDispatch \cup {"scheduler"}
  PROVE  run'[r].pc \notin InDispatch \cup {"scheduler"}
<1>0. run \in [Runs -> RunType] /\ run[r] \in RunType
  BY DEF TypeOK, RunsTypeOK
<1> USE DEF RunType, InDispatch
<1>1. CASE StartEffect(r) \/ LateWorkEnds(r)
  BY <1>0, <1>1 DEF StartEffect, LateWorkEnds
<1>2. CASE GuardCancel(r)
  <2> DEFINE g == Signalled(Reached(run[r].exec, run[r].obj.sess))
  <2>1. g \in [Runs -> RunType] /\ run' = [g EXCEPT ![r].pc = "fail"]
    BY <1>2, SignalledType DEF TypeOK, GuardCancel
  <2> HIDE DEF g
  <2> QED
    BY <2>1
<1>3. CASE FailWrite(r) \/ Reread(r) \/ InterruptRead(r) \/ InterruptRequeue(r)
  BY <1>3, LeavesDispatch
<1>5. CASE Fail(r) \/ InterruptJudge(r)
  <2>1. \E p \in {"release", "failwrite", "intrequeue", "fail"} : \E n :
          \/ run' = [run EXCEPT ![r].pc = p]
          \/ run' = [run EXCEPT ![r].pc = p, ![r].obj = n]
    BY <1>5, Zenon DEF Fail, InterruptJudge
  <2> QED
    BY <1>0, <2>1
<1>4. CASE Release(r) \/ FinishRef(r) \/ Judge(r) \/ Settle(r)
  <2>1. \E p \in {"finishref", "judge", "over", "hold", "later"} : run' = [run EXCEPT ![r].pc = p]
    BY <1>4, Zenon DEF Release, FinishRef, Judge, Settle, Done
  <2> QED
    BY <1>0, <2>1
<1> QED
  BY <1>1, <1>2, <1>3, <1>4, <1>5
  DEF RunStep, ReadScheduler, DispatchFails, StartSession, Register, Check, Open, WorkEnds, AbsoluteTimeout,
      GuardTimeout, Save

(* A dispatcher gives its slot back, and takes none.                       *)
LEMMA RunCap ==
  ASSUME TypeOK, MovesOn, CapInStep, NEW r \in Runs, RunStep(r), Alone(r), UNCHANGED <<mgr, req>>,
         \A e \in Execs : row'[e].status # "deleted"
  PROVE  CapInStep'
<1>0. run[r].exec \in Execs /\ slot \in [Execs -> Nat]
  BY ViewTypes DEF TypeOK, QueueTypeOK
<1>1. slot' = slot \/ (Release(r) /\ MarkFinished(run[r].exec, r))
  BY DEF RunStep, ReadScheduler, DispatchFails, StartSession, Register, Check, Open, StartEffect, WorkEnds,
         EndWork, Interrupted, AbsoluteTimeout, GuardTimeout, GuardCancel, LateWorkEnds, Save, Reread,
         Fail, FailWrite, InterruptRead, InterruptJudge, InterruptRequeue, Release, FinishRef, Judge, Settle,
         queueVars
<1>2. SlotsLess
  BY <1>0, <1>1 DEF MarkFinished, SlotsLess
<1>3. NoNewOwner
  BY RunOwnsLess, IdleOwner DEF NoNewOwner, Alone
<1>4. NobodyDispatches'
  BY NeverBack DEF CapInStep, NobodyDispatches, Alone, Idle
<1>5. ASSUME NEW x \in Runs, Owns(x)', slot[run[x].exec] = x
      PROVE  slot'[run[x].exec] = x
  <2>1. CASE x # r
    BY <1>5, <2>1, RunHoldings DEF LeavesHoldings
  <2>2. CASE x = r
    <3>1. Owns(r)
      BY <1>5, <2>2, RunOwnsLess
    <3>2. slot' = slot
      BY <1>1, <3>1 DEF Release, Owns, OwnPC
    <3> QED
      BY <1>5, <3>2
  <2> QED
    BY <2>1, <2>2
<1> QED
  BY <1>2, <1>3, <1>4, <1>5, CapStays

(* A write that failed leaves the slot with the result that waits.         *)
LEMMA FailSaveCap ==
  ASSUME TypeOK, MovesOn, CapInStep, NEW r \in Runs, NEW a \in BOOLEAN, SaveFails(r, a),
         UNCHANGED <<mgr, req>>, \A e \in Execs : row'[e].status # "deleted"
  PROVE  CapInStep'
<1>0. run \in [Runs -> RunType]
  BY DEF TypeOK, RunsTypeOK
<1>1. /\ run[r].pc = "save" /\ slot' = slot
      /\ run' = [x \in Runs |-> IF x = r THEN [run[x] EXCEPT !.pc = "pending"]
                                         ELSE NoLongerPending(x, run[r].exec)]
  BY DEF SaveFails, queueVars
<1>2. ASSUME NEW x \in Runs
      PROVE  run'[x] = run[x] \/ (x = r /\ run'[x].pc = "pending" /\ run'[x].exec = run[x].exec)
               \/ run'[x].pc = "over"
  BY <1>0, <1>1 DEF NoLongerPending, RunType
<1>3. NoNewOwner
  <2> SUFFICES ASSUME NEW x \in Runs, Keeps(x)'
               PROVE  Keeps(x) /\ run'[x].exec = run[x].exec /\ (Owns(x)' => Owns(x))
    BY DEF NoNewOwner
  <2>1. CASE run'[x] = run[x]
    BY <2>1 DEF Keeps, Owns
  <2>2. CASE x = r /\ run'[x].pc = "pending" /\ run'[x].exec = run[x].exec
    BY <1>1, <2>2 DEF Keeps, Owns, OwnPC, PC
  <2>3. CASE run'[x].pc = "over"
    BY <2>3 DEF Keeps, Owns, OwnPC, PC
  <2> QED
    BY <1>2, <2>1, <2>2, <2>3
<1>4. NobodyDispatches'
  BY <1>2 DEF CapInStep, NobodyDispatches, InDispatch
<1> QED
  BY <1>1, <1>3, <1>4, CapStays DEF SlotsLess

(* A claim is given a free slot, and its execution nobody else owns.       *)
LEMMA ClaimCap ==
  ASSUME InOrder, MovesOn, CapInStep, NEW e \in Execs, claims < MaxClaims, LoopFree, MayDequeue(e),
         ClaimRow(e, claims + 1), NEW pc, run' = [run EXCEPT ![claims + 1] = NewRun(e, row'[e], pc)],
         \/ slot' = [slot EXCEPT ![e] = claims + 1] /\ pc = "scheduler"
         \/ slot' = slot /\ pc = "over",
         UNCHANGED <<mgr, req>>, \A x \in Execs : row'[x].status # "deleted"
  PROVE  CapInStep'
<1> DEFINE n == claims + 1
<1>0. /\ TypeOK /\ RunsTypeOK /\ StoreTypeOK /\ run \in [Runs -> RunType] /\ slot \in [Execs -> Nat] /\ n \in Runs
      /\ mgr = "up" /\ slot[e] = 0 /\ Cardinality(Occupied) < MaxConcurrent /\ n # 0
  BY MaxClaimsAssumption DEF InOrder, TypeOK, RunsTypeOK, QueueTypeOK, Runs, MayDequeue, LoopFree
<1>1. OccupiedFits'
  BY <1>0, LessOccupied, OneMoreOccupied DEF CapInStep, OccupiedFits, SlotsLess
<1>2. CancelledOnce' /\ NobodyDispatches'
  BY <1>0 DEF CapInStep, CancelledOnce, NobodyDispatches
<1>3. run'[n] = NewRun(e, row'[e], pc) /\ \A x \in Runs \ {n} : run'[x] = run[x]
  BY <1>0
<1>4. run'[n].exec = e /\ run'[n].pc = pc
  BY <1>3 DEF NewRun
<1>5. \A y \in Execs : Cancelling(y)' = Cancelling(y)
  BY DEF Cancelling
<1>6. ASSUME NEW x \in Runs
      PROVE  SlotKept(x)'
  <2>1. CASE x = n /\ pc = "over"
    BY <1>4, <2>1 DEF SlotKept, Owns, OwnPC
  <2>2. CASE x = n /\ slot' = [slot EXCEPT ![e] = n]
    BY <1>0, <1>4, <2>2 DEF SlotKept
  <2>3. CASE x # n
    <3>1. run'[x] = run[x] /\ x # 0 /\ run[x].exec \in Execs
      BY <1>0, <1>3, <2>3, ViewTypes, MaxClaimsAssumption DEF Runs
    <3>2. SlotStays(x)
      BY <1>0, <3>1 DEF SlotStays
    <3>3. SlotKept(x)
      BY CapParts
    <3>4. Owns(x)' => Owns(x) /\ run'[x].exec = run[x].exec
      BY <3>1 DEF Owns
    <3> QED
      BY <1>0, <1>5, <3>2, <3>3, <3>4, SlotKeptStill
  <2> QED
    BY <2>1, <2>2, <2>3
<1> QED
  BY <1>1, <1>2, <1>6, CapParts

(* The execution loop takes a slot only where one is free.                 *)
LEMMA LoopCap ==
  ASSUME InOrder, MovesOn, RefsInStep, SlotsInStep, CapInStep, LoopStep, \A x \in Execs : row'[x].status # "deleted"
  PROVE  CapInStep'
<1> USE DEF storeVars, queueVars, runVars, managerVars
<1>0. /\ TypeOK /\ StoreTypeOK /\ RunsTypeOK /\ run \in [Runs -> RunType] /\ slot \in [Execs -> Nat] /\ OneOwner
      /\ mgr = "up" /\ mgr' = "up" /\ req' = req /\ OwnSlots /\ LoopHoldings /\ loop.exec \in Execs
      /\ \A x \in Runs : run[x].exec \in Execs /\ x # 0 /\ (run[x].pc = "pending" => run[x].obj.started = x)
  <2>1. /\ TypeOK /\ StoreTypeOK /\ RunsTypeOK /\ run \in [Runs -> RunType] /\ slot \in [Execs -> Nat]
        /\ ManagerTypeOK /\ OneOwner /\ OwnSlots /\ LoopHoldings /\ FencesHold
    BY DEF InOrder, WorkInOrder, OwnersInStep, TypeOK, RunsTypeOK, QueueTypeOK, RefsInStep, SlotsInStep, OwnSlots
  <2>2. mgr = "up" /\ mgr' = "up" /\ req' = req
    BY DEF LoopStep, Dequeue, TakeRow, TakeStale, FlushWrite, LoopRequeue, StaleJudge, StaleFail, StaleWrite,
           StaleFree, StaleFinishRef, FlushRead, FlushHandled, LoopFree
  <2>3. \A x \in Runs : run[x].exec \in Execs /\ x # 0
    BY <2>1, ViewTypes, MaxClaimsAssumption DEF Runs
  <2>4. \A x \in Runs : run[x].pc = "pending" => run[x].obj.started = x
    BY <2>1 DEF FencesHold, Fenced, FirstObject
  <2> QED
    BY <2>1, <2>2, <2>3, <2>4, LoopViewTypes
<1>1. ASSUME NEW e \in Execs, Dequeue(e)
      PROVE  CapInStep'
  BY <1>0, <1>1, ClaimCap DEF Dequeue
<1>2. ASSUME SlotsLess, NoNewOwner, \A x \in Runs : Owns(x)' /\ slot[run[x].exec] = x => slot'[run[x].exec] = x
      PROVE  CapInStep'
  BY <1>0, <1>2, CapStays DEF NobodyDispatches
<1>3. ASSUME run' = run \/ \E S : run' = Signalled(S)
      PROVE  NoNewOwner /\ \A x \in Runs : Owns(x)' = Owns(x)
  <2>1. \A x \in Runs : Idle(x)
    BY <1>0, <1>3, RunsIdle
  <2> QED
    BY <2>1, IdleOwner DEF NoNewOwner
<1>5. CASE StaleFree
  <2>1. run' = run /\ MarkFinished(loop.exec, 0) /\ \A x \in Runs : run[x].exec = loop.exec => ~Owns(x)
    BY <1>0, <1>5 DEF StaleFree, LoopHoldings, Recovering, Keeps
  <2> QED
    BY <1>0, <1>2, <1>3, <2>1 DEF MarkFinished, SlotsLess
<1>6. ASSUME slot' = slot, run' = run \/ \E S : run' = Signalled(S)
      PROVE  CapInStep'
  BY <1>2, <1>3, <1>6 DEF SlotsLess
<1>4. CASE (\E r \in Runs : FlushWrite(r)) \/ FlushRead
  <2>1. slot' = slot \/ \E r \in Runs : run[r].pc = "pending" /\ MarkFinished(run[r].exec, r)
    <3>1. ASSUME NEW r \in Runs, FlushWrite(r)
          PROVE  slot' = slot \/ (run[r].pc = "pending" /\ MarkFinished(run[r].exec, r))
      BY <1>0, <3>1 DEF FlushWrite
    <3>2. FlushRead => slot' = slot \/ (loop.r \in Runs /\ run[loop.r].pc = "pending"
                                         /\ MarkFinished(run[loop.r].exec, loop.r))
      BY <1>0 DEF FlushRead, LoopHoldings
    <3> QED
      BY <1>4, <3>1, <3>2
  <2>2. SlotsLess
    BY <1>0, <2>1 DEF MarkFinished, SlotsLess
  <2>3. NoNewOwner
    <3>1. ASSUME NEW x \in Runs
          PROVE  run'[x] = run[x] \/ run'[x].pc \in {"judge", "over"}
      <4>1. ASSUME NEW r \in Runs, FlushWrite(r)
            PROVE  run' = run \/ \E p \in {"judge", "over"} : \E n : run' = [run EXCEPT ![r].pc = p, ![r].obj = n]
        BY <4>1, Zenon DEF FlushWrite
      <4>2. FlushRead => run' = [y \in Runs |-> NoLongerPending(y, loop.exec)]
        BY DEF FlushRead
      <4>3. CASE FlushRead
        BY <1>0, <4>2, <4>3 DEF NoLongerPending, RunType
      <4>4. ASSUME NEW r \in Runs, FlushWrite(r)
            PROVE  run'[x] = run[x] \/ run'[x].pc \in {"judge", "over"}
        <5>1. CASE run' = run
          BY <5>1
        <5>2. ASSUME NEW p \in {"judge", "over"}, NEW n, run' = [run EXCEPT ![r].pc = p, ![r].obj = n]
              PROVE  run'[x] = run[x] \/ run'[x].pc \in {"judge", "over"}
          BY <1>0, <5>2 DEF RunType
        <5> QED
          BY <4>1, <4>4, <5>1, <5>2
      <4> QED
        BY <1>4, <4>3, <4>4
    <3> QED
      BY <3>1 DEF NoNewOwner, Owns, Keeps, OwnPC
  <2>4. ASSUME NEW x \in Runs, Owns(x)', slot[run[x].exec] = x
        PROVE  slot'[run[x].exec] = x
    <3>1. Owns(x)
      BY <2>3, <2>4 DEF NoNewOwner, Keeps
    <3> QED
      BY <1>0, <2>1, <2>4, <3>1 DEF MarkFinished, Owns, OwnPC
  <2> QED
    BY <1>2, <2>2, <2>3, <2>4
<1> QED
  BY <1>1, <1>4, <1>5, <1>6
  DEF LoopStep, TakeRow, TakeStale, LoopRequeue, StaleJudge, StaleFail, StaleWrite, StaleFinishRef, FlushHandled

(* A request frees the slot of an execution once its work was told to      *)
(* stop, and nobody else is about to tell it.                              *)
LEMMA RequestCap ==
  ASSUME InOrder, MovesOn, CapInStep, NEW q \in Reqs, AskStep(q) \/ RequestStep(q),
         \A x \in Execs : row'[x].status # "deleted"
  PROVE  CapInStep'
<1> DEFINE e == req[q].exec
<1> USE DEF storeVars, queueVars, runVars
<1>0. /\ TypeOK /\ StoreTypeOK /\ slot \in [Execs -> Nat] /\ req \in [Reqs -> ReqType] /\ e \in Execs
      /\ \A p \in Reqs : req[p] \in ReqType /\ (req[p].pc \in {"stop", "free"} => CalledOff(req[p].exec))
      /\ \A x \in Runs : run[x].exec \in Execs
  <2>1. TypeOK /\ StoreTypeOK /\ RunsTypeOK /\ ManagerTypeOK /\ slot \in [Execs -> Nat] /\ req \in [Reqs -> ReqType]
    BY DEF InOrder, TypeOK, QueueTypeOK, ManagerTypeOK
  <2>2. \A p \in Reqs : req[p].pc \in {"stop", "free"} => CalledOff(req[p].exec)
    BY DEF InOrder, WorkInOrder, OwnersInStep, RequestInStep
  <2> QED
    BY <2>1, <2>2, ReqViewTypes, ViewTypes
<1>1. mgr = "up" /\ mgr' = "up"
  BY RequestsWhileUp
<1>2. \A x \in Runs : Owns(x)' = Owns(x) /\ run'[x].exec = run[x].exec
  <2>1. run' = run \/ \E S : run' = Signalled(S)
    BY DEF AskStep, AskCancel, AskDelete, AskRetry, AskResume, AskDrop, PauseQueue, View, Ask,
           RequestStep, CancelWrite, CancelStop, CancelFree, DeleteExecution, DropNext, DropScheduler,
           PersonRequeue
  <2> QED
    BY <1>0, <2>1, RunsIdle, IdleOwner DEF TypeOK
<1>3. \A p \in Reqs \ {q} : req'[p] = req[p]
  BY <1>0, RequestInOrder DEF InOrder, WorkInOrder
<1>4. ASSUME CancelWrite(q), IsActive(e)
      PROVE  /\ CancelledOnce' /\ slot' = slot
             /\ \A x \in Execs : Cancelling(x)' => Cancelling(x) \/ x = e
  <2>1. req' = [req EXCEPT ![q].pc = "stop"] /\ slot' = slot
    BY <1>4 DEF CancelWrite
  <2>2. req'[q].exec = e
    BY <1>0, <2>1 DEF ReqType
  <2>3. \A p \in Reqs \ {q} : req[p].pc \in {"stop", "free"} => req[p].exec # e
    BY <1>0, <1>4 DEF CalledOff, IsActive, Active
  <2>4. CancelledOnce'
    BY <1>3, <2>2, <2>3 DEF CapInStep, CancelledOnce
  <2> QED
    BY <1>3, <2>1, <2>2, <2>4 DEF Cancelling
<1>5. ASSUME ~(CancelWrite(q) /\ IsActive(e))
      PROVE  /\ req'[q].pc \in {"stop", "free"} =>
                  req[q].pc \in {"stop", "free"} /\ req'[q].exec = e /\ (req'[q].pc = "stop" => req[q].pc = "stop")
             /\ slot' = slot \/ (CancelFree(q) /\ req'[q].pc \notin {"stop", "free"})
  <2>1. req' = AfterCancel(q) => req'[q].pc \in {"delete", "drop", "idle"}
    <3>1. req' = AfterCancel(q) => \/ req' = [req EXCEPT ![q].pc = "delete"]
                                   \/ req' = [req EXCEPT ![q] = ReqIdle]
                                   \/ req' = [req EXCEPT ![q].pc = "drop", ![q].todo = @ \ {e}]
      BY Zenon DEF AfterCancel
    <3> QED
      BY <1>0, <3>1 DEF ReqType, ReqIdle
  <2>2. CASE CancelStop(q)
    <3>1. req' = [req EXCEPT ![q].pc = "free"] /\ req[q].pc = "stop" /\ slot' = slot
      BY <2>2 DEF CancelStop
    <3> QED
      BY <1>0, <3>1 DEF ReqType
  <2>3. CASE CancelFree(q) \/ CancelWrite(q)
    BY <1>5, <2>1, <2>3 DEF CancelFree, CancelWrite
  <2>4. CASE DropNext(q)
    <3>1. req[q].pc = "drop" /\ slot' = slot
      BY <2>4 DEF DropNext
    <3>2. \E x, o, t : \/ req' = [req EXCEPT ![q].pc = "write", ![q].exec = x, ![q].obj = o]
                       \/ req' = [req EXCEPT ![q].todo = t]
      BY <2>4, Zenon DEF DropNext
    <3>3. req'[q].pc \in {"write", "drop"}
      BY <1>0, <3>1, <3>2 DEF ReqType
    <3> QED
      BY <3>1, <3>3
  <2>5. CASE DeleteExecution(q) \/ DropScheduler(q) \/ PersonRequeue(q)
    <3>1. req' = [req EXCEPT ![q] = ReqIdle] /\ slot' = slot
      BY <2>5 DEF DeleteExecution, DropScheduler, PersonRequeue
    <3> QED
      BY <1>0, <3>1 DEF ReqIdle
  <2>6. ASSUME NEW x \in Execs, AskCancel(q, x) \/ AskDelete(q, x) \/ AskRetry(q, x) \/ AskResume(q, x)
        PROVE  req'[q].pc \in {"write", "delete", "requeue"} /\ slot' = slot
    <3>1. \E op : \E pc \in {"write", "delete", "requeue"} : Ask(q, op, x, pc)
      BY <2>6 DEF AskCancel, AskDelete, AskRetry, AskResume
    <3> QED
      BY <1>0, <3>1 DEF Ask
  <2>7. CASE AskDrop(q)
    BY <1>0, <2>7 DEF AskDrop, ReqIdle
  <2>8. PauseQueue(q) \/ (\E x \in Execs : View(q, x)) => req' = req /\ slot' = slot
    BY DEF PauseQueue, View
  <2> QED
    BY <2>2, <2>3, <2>4, <2>5, <2>6, <2>7, <2>8 DEF AskStep, RequestStep
<1>6. ASSUME CancelledOnce', SlotsLess, \A x \in Runs : SlotStays(x),
             \A x \in Execs : row[x].status = "cancelled" /\ ~Cancelling(x) => ~Cancelling(x)'
      PROVE  CapInStep'
  <2>1. \A x \in Runs : SlotKept(x)'
    BY <1>0, <1>1, <1>2, <1>6, SlotKeptStill, CapParts
  <2>2. OccupiedFits'
    BY <1>6, CapParts, LessOccupied
  <2>3. NobodyDispatches'
    BY <1>1 DEF NobodyDispatches
  <2> QED
    BY <1>6, <2>1, <2>2, <2>3, CapParts
<1>7. CASE CancelWrite(q) /\ IsActive(e)
  <2>1. SlotsLess /\ \A x \in Runs : SlotStays(x)
    BY <1>4, <1>7 DEF SlotsLess, SlotStays
  <2>2. row[e].status # "cancelled"
    BY <1>7 DEF IsActive, Active
  <2> QED
    BY <1>4, <1>6, <1>7, <2>1, <2>2
<1>8. CASE ~(CancelWrite(q) /\ IsActive(e))
  <2>1. CancelledOnce'
    BY <1>3, <1>5, <1>8 DEF CapInStep, CancelledOnce
  <2>2. \A x \in Execs : Cancelling(x)' => Cancelling(x)
    BY <1>3, <1>5, <1>8 DEF Cancelling
  <2>3. SlotsLess /\ \A x \in Runs : SlotStays(x)
    <3>1. CASE slot' = slot
      BY <3>1 DEF SlotsLess, SlotStays
    <3>2. CASE CancelFree(q) /\ req'[q].pc \notin {"stop", "free"}
      <4>1. slot' = [slot EXCEPT ![e] = 0] /\ row' = row /\ req[q].pc = "free"
        BY <3>2 DEF CancelFree, MarkFinished, FinishRefRow
      <4>2. row'[e].status = "cancelled"
        BY <1>0, <4>1 DEF CalledOff
      <4>3. ASSUME NEW y \in Execs, y = e
            PROVE  ~Cancelling(y)'
        <5>1. SUFFICES ASSUME NEW p \in Reqs, req'[p].exec = e, req'[p].pc = "stop"
                       PROVE  FALSE
          BY <4>3 DEF Cancelling
        <5>2. p # q /\ req[p] = req'[p]
          BY <1>3, <3>2, <5>1
        <5> QED
          BY <4>1, <5>1, <5>2 DEF CapInStep
      <4> QED
        BY <1>0, <4>1, <4>2, <4>3 DEF SlotsLess, SlotStays
    <3> QED
      BY <1>5, <1>8, <3>1, <3>2
  <2> QED
    BY <1>6, <2>1, <2>2, <2>3
<1> QED
  BY <1>7, <1>8

(* A restart gives back every slot.                                        *)
LEMMA RestartCap ==
  ASSUME InOrder, CapInStep,
         \/ Start \/ Started \/ \E e \in Execs : SettleOrphan(e) \/ RefOrphan(e)
         \/ Stop \/ Gone
  PROVE  CapInStep'
<1> USE DEF storeVars, queueVars, runVars, managerVars
<1>0. TypeOK /\ FencesHold /\ run \in [Runs -> RunType]
  BY DEF InOrder, TypeOK, RunsTypeOK
<1>1. CASE Start \/ Started \/ \E e \in Execs : SettleOrphan(e) \/ RefOrphan(e)
  <2>1. mgr \in {"down", "starting"} /\ UNCHANGED <<slot, run, req>> /\ mgr' # "stopping"
    BY <1>1 DEF Start, Started, SettleOrphan, RefOrphan
  <2>2. \A x \in Runs : ~Owns(x)'
    BY <1>0, <2>1 DEF FencesHold, Fenced, Live, Owns, OwnPC
  <2>3. OccupiedFits'
    BY <2>1, CapParts, LessOccupied DEF SlotsLess
  <2>4. CancelledOnce' /\ NobodyDispatches'
    BY <2>1 DEF CapInStep, CancelledOnce, NobodyDispatches
  <2> QED
    BY <2>2, <2>3, <2>4, CapParts DEF SlotKept
<1>2. CASE Gone
  <2>1. SlotsLess /\ mgr' = "down" /\ \A q \in Reqs : req'[q].pc = "idle"
    BY <1>2 DEF Gone, SlotsLess, ReqIdle
  <2>2. OccupiedFits'
    BY <2>1, CapParts, LessOccupied
  <2> QED
    BY <2>1, <2>2, CapParts DEF CancelledOnce, NobodyDispatches, SlotKept
<1>3. CASE Stop
  <2>1. mgr' = "stopping" /\ UNCHANGED <<slot, req>>
    BY <1>3 DEF Stop
  <2>2. ASSUME NEW x \in Runs
        PROVE  run'[x].pc \notin InDispatch \cup {"scheduler"}
    <3>1. run'[x] = Interruption(run[x]) /\ run[x] \in RunType
      BY <1>0, <1>3 DEF Stop
    <3>2. CASE run[x].pc \in InDispatch \cup {"reread"}
      BY <3>1, <3>2 DEF Interruption, RunType, InDispatch
    <3>3. CASE run[x].pc \notin InDispatch \cup {"reread"}
      <4>1. run'[x].pc \in {"release", "over", "unused"}
        BY <3>1, <3>3 DEF Interruption, RunType
      <4> QED
        BY <4>1 DEF InDispatch
    <3> QED
      BY <3>2, <3>3
  <2>3. OccupiedFits'
    BY <2>1, CapParts, LessOccupied DEF SlotsLess
  <2> QED
    BY <2>1, <2>2, <2>3, CapParts DEF CancelledOnce, NobodyDispatches, SlotKept, CapInStep
<1> QED
  BY <1>1, <1>2, <1>3

(* Unless something is deleted, every step keeps to the limit.             *)
LEMMA NextCap ==
  ASSUME InOrder, TypeOK', AsAsked', RefsInStep, SlotsInStep, CapInStep, Ops \cap {"delete", "drop"} = {},
         [Next]_vars
  PROVE  CapInStep'
<1> USE DEF storeVars, queueVars, runVars, managerVars
<1>0. /\ TypeOK /\ StoreTypeOK /\ ViewsCurrent /\ FencesHold /\ MovesOn
      /\ \A x \in Execs : row'[x].status # "deleted"
  <2>1. TypeOK /\ StoreTypeOK /\ ViewsCurrent /\ FencesHold /\ MovesOn
    BY NextCurrent DEF AllCurrent, RunsStayCurrent, InOrder, TypeOK
  <2>2. \A x \in Execs : row'[x].status # "deleted"
    BY DEF AsAsked
  <2> QED
    BY <2>1, <2>2
<1>1. ASSUME UNCHANGED <<run, req, mgr, slot>>
      PROVE  CapInStep'
  BY <1>0, <1>1, CapStays DEF SlotsLess, NoNewOwner, Keeps, Owns, CapInStep, NobodyDispatches
<1>2. ASSUME NEW e \in Execs, Create(e) \/ Expire(e)
      PROVE  CapInStep'
  BY <1>1, <1>2 DEF Create, Expire
<1>3. ASSUME NEW e \in Execs, LoseClaim(e)
      PROVE  CapInStep'
  BY <1>0, <1>3, ClaimCap DEF LoseClaim
<1>4. ASSUME NEW r \in Runs, RunProgress(r)
      PROVE  CapInStep'
  <2>1. UNCHANGED <<mgr, req>> /\ RunStep(r)
    BY <1>4 DEF RunProgress
  <2>2. UNCHANGED claims
    BY <2>1 DEF RunStep, ReadScheduler, DispatchFails, StartSession, Register, Check,
                  Open, StartEffect, WorkEnds, EndWork, Interrupted, AbsoluteTimeout, GuardTimeout, GuardCancel,
                  LateWorkEnds, Save, Reread, Fail, FailWrite, InterruptRead, InterruptJudge,
                  InterruptRequeue, Release, FinishRef, Judge, Settle
  <2>3. Alone(r)
    BY <1>0, <2>1, <2>2, RunStepFenced
  <2> QED
    BY <1>0, <2>1, <2>3, RunCap
<1>5. ASSUME NEW r \in Runs, FailSave(r)
      PROVE  CapInStep'
  BY <1>0, <1>5, FailSaveCap DEF FailSave
<1>6. CASE LoopStep
  BY <1>0, <1>6, LoopCap
<1>7. ASSUME NEW q \in Reqs, AskStep(q) \/ RequestStep(q)
      PROVE  CapInStep'
  BY <1>0, <1>7, RequestCap
<1>8. CASE ResumeQueue \/ UNCHANGED vars
  BY <1>1, <1>8 DEF ResumeQueue, vars
<1>9. CASE Quit \/ Crash
  BY <1>9, RestartCap DEF Quit, Crash
<1> QED
  BY <1>2, <1>3, <1>4, <1>5, <1>6, <1>7, <1>8, <1>9, RestartCap DEF Next

(* At first no slot is taken and nobody cancels.                           *)
LEMMA InitCap == Init => CapInStep
<1>1. Init => Occupied = {} /\ \A r \in Runs : ~Owns(r)
  BY DEF Init, QueueInit, RunsInit, Occupied, NewRun, Owns, OwnPC
<1> QED
  BY <1>1, FS_EmptySet, MaxConcurrentAssumption DEF CapInStep, Init, ReqIdle

-----------------------------------------------------------------------------
(* What follows.  Work that goes on has its slot.                          *)
LEMMA GoingHasSlot ==
  ASSUME InOrder, CapInStep, NEW r \in Runs, Going(r)
  PROVE  run[r].exec \in Execs /\ slot[run[r].exec] = r
<1>1. TypeOK /\ RunsTypeOK /\ StoreTypeOK /\ FencesHold /\ WorkReached(r) /\ SlotKept(r) /\ mgr \in {"starting", "up", "stopping", "down"}
  BY CapParts DEF InOrder, TypeOK, WorkInOrder, OwnersInStep, ManagerTypeOK
<1>2. run[r].pc = "work" /\ Owns(r) /\ run[r].work = "going" /\ ~run[r].stop
  BY <1>1, GoingOwns DEF Going
<1>3. mgr = "up"
  BY <1>1, <1>2 DEF FencesHold, Fenced, CapInStep, InDispatch
<1>4. run[r].exec \in Execs
  BY <1>1, ViewTypes
<1> QED
  BY <1>1, <1>2, <1>3, <1>4 DEF SlotKept, WorkReached

(* So there is no more of it than slots that are taken.                    *)
LEMMA CapHolds ==
  ASSUME InOrder, CapInStep
  PROVE  CapRespected
<1> DEFINE G == {r \in Runs : Going(r)}
           f == [r \in G |-> run[r].exec]
<1>1. f \in Injection(G, Occupied)
  <2>1. \A r \in G : run[r].exec \in Execs /\ slot[run[r].exec] = r /\ r # 0
    BY GoingHasSlot, MaxClaimsAssumption DEF Runs
  <2>2. f \in [G -> Occupied]
    BY <2>1 DEF Occupied
  <2>3. \A r, s \in G : f[r] = f[s] => r = s
    BY <2>1
  <2> QED
    BY <2>2, <2>3 DEF Injection, IsInjective
<1>2. IsFiniteSet(G) /\ Cardinality(G) <= Cardinality(Occupied)
  BY <1>1, FS_Injection DEF CapInStep
<1>3. Cardinality(G) \in Nat /\ Cardinality(Occupied) \in Nat
  BY <1>2, FS_CardinalityType DEF CapInStep
<1> QED
  BY <1>2, <1>3, MaxConcurrentAssumption DEF CapInStep, CapRespected

(* A running execution holds the reference it was claimed with, and only a *)
(* queued one has a reference that can be claimed, unless the machine      *)
(* sleeps: every write of a row takes its reference along, and a run lets  *)
(* go of no reference before its row has ended or is queued again.         *)
LEMMA RefsStay ==
  ASSUME "suspend" \notin Faults
  PROVE  Spec => []SessionsBelong /\ []RefsInStep
<1>1. TypeOK /\ TypeOK' /\ ViewsCurrent /\ FencesHold /\ SessionsBelong /\ [Next]_vars => SessionsBelong'
  BY NextSessions
<1>2. InOrder /\ TypeOK' /\ SessionsBelong /\ RefsInStep /\ [Next]_vars => RefsInStep'
  BY NextRefs
<1>3. InOrder => TypeOK /\ ViewsCurrent /\ FencesHold
  BY DEF InOrder
<1> QED
  BY <1>1, <1>2, <1>3, StaysInOrder, InitSessions, InitRefs, PTL DEF Spec

(* What the invariant is for: a running execution holds the reference it   *)
(* was claimed with, until its row has ended or is queued again.           *)
THEOREM RefsStayInStep ==
  ASSUME "suspend" \notin Faults
  PROVE  Spec => []RunningHoldsItsRef
<1>1. RefsInStep => RunningHoldsItsRef
  BY DEF RefsInStep
<1> QED
  BY <1>1, RefsStay, PTL

(* No run ends and leaves its slot taken, unless the machine sleeps, a     *)
(* write that seemed to fail was applied, or a scheduler is deleted before *)
(* the run that was claimed for it has begun.                              *)
LEMMA SlotsStay ==
  ASSUME "suspend" \notin Faults, "lostsave" \notin Faults, "drop" \notin Ops
  PROVE  Spec => []AsAsked /\ []SlotsInStep
<1>1. TypeOK /\ TypeOK' /\ ViewsCurrent /\ FencesHold /\ WorkInOrder /\ AsAsked /\ [Next]_vars => AsAsked'
  BY NextAsked
<1>2. InOrder /\ TypeOK' /\ AsAsked /\ RefsInStep /\ SlotsInStep /\ [Next]_vars => SlotsInStep'
  BY NextSlots
<1>3. InOrder => TypeOK /\ ViewsCurrent /\ FencesHold /\ WorkInOrder
  BY DEF InOrder
<1> QED
  BY <1>1, <1>2, <1>3, StaysInOrder, RefsStay, InitAsked, InitSlots, PTL DEF Spec

(* What the invariant is for: a slot is taken only by a run that goes on   *)
(* or whose result still waits to be written.                              *)
THEOREM SlotsStayInStep ==
  ASSUME "suspend" \notin Faults, "lostsave" \notin Faults, "drop" \notin Ops
  PROVE  Spec => []NoSlotLeak
<1>1. SlotsInStep => NoSlotLeak
  BY DEF SlotsInStep, SlotGivenBack, NoSlotLeak, Live, OwnPC
<1> QED
  BY <1>1, SlotsStay, PTL

(* At no time is more work going that was not told to stop than            *)
(* max_concurrent: unless, besides the exceptions for slots, an execution  *)
(* may be deleted, and one deleted before it was told to stop goes on      *)
(* without a slot.                                                         *)
THEOREM CapIsRespected ==
  ASSUME "suspend" \notin Faults, "lostsave" \notin Faults, Ops \cap {"delete", "drop"} = {}
  PROVE  Spec => []CapInStep /\ []CapRespected
<1>1. InOrder /\ TypeOK' /\ AsAsked' /\ RefsInStep /\ SlotsInStep /\ CapInStep /\ [Next]_vars => CapInStep'
  BY NextCap
<1>2. InOrder => TypeOK
  BY DEF InOrder
<1>3. InOrder /\ CapInStep => CapRespected
  BY CapHolds
<1>4. "drop" \notin Ops
  OBVIOUS
<1> QED
  BY <1>1, <1>2, <1>3, <1>4, StaysInOrder, RefsStay, SlotsStay, InitCap, PTL DEF Spec

(* So what belongs to a running execution belongs to it exactly while it   *)
(* runs: its slot, its reference, its row's marks; and no more work goes   *)
(* on than there are slots.                                                *)
THEOREM HoldingsStayInStep ==
  ASSUME "suspend" \notin Faults, "lostsave" \notin Faults, Ops \cap {"delete", "drop"} = {}
  PROVE  Spec => []HoldingsInStep
<1>1. HoldingsInStep <=> CapRespected /\ NoSlotLeak /\ RunningHoldsItsRef /\ QueuedStartsClean
  BY DEF HoldingsInStep
<1>2. "drop" \notin Ops
  OBVIOUS
<1> QED
  BY <1>1, <1>2, CapIsRespected, SlotsStayInStep, RefsStayInStep, QueuedIsClean, PTL

(* All of the invariant together, as the run MixedRequests checks it.      *)
THEOREM CenterStaysInOrder ==
  ASSUME "suspend" \notin Faults, "lostsave" \notin Faults, Ops \cap {"delete", "drop"} = {}
  PROVE  Spec => []CenterInOrder
<1>1. CenterInOrder <=> /\ WorkInOrder /\ OnlyLastActs /\ RetriesInStep /\ AsAsked /\ SessionsBelong
                        /\ RefsInStep /\ SlotsInStep /\ CapInStep
  BY DEF CenterInOrder, HoldingsOwned
<1>2. "drop" \notin Ops
  OBVIOUS
<1> QED
  BY <1>1, <1>2, WorkStaysInOrder, LastActsStays, RetriesStayInStep, RefsStay, SlotsStay, CapIsRespected, PTL

-----------------------------------------------------------------------------
(* Failures are handled, where no write that seems to fail goes through,   *)
(* nobody views rows, and the process runs: then whoever fails a row is    *)
(* busy with it until it is settled.                                       *)

(* What a step of run r leaves of a failure of its execution e.            *)
SettledOrHandled(r, e) ==
  row'[e].status = "failed" =>
    \/ row'[e].due \/ row'[e].held \/ row'[e].count >= MaxRetries
    \/ Handling(r)'
    \/ row'[e] = row[e] /\ ~Handling(r)

(* A dispatcher that fails its row goes on to handle that, and lets go of  *)
(* a failure it handles when it is settled.                                *)
LEMMA RunSettles ==
  ASSUME TypeOK, ViewsCurrent, FencesHold, OwnersInStep, NEW r \in Runs, RunAccounted(r), FailsToSettle(r),
         RunStep(r)
  PROVE  SettledOrHandled(r, run[r].exec)
<1> DEFINE e == run[r].exec
           o == run[r].obj
<1> USE DEF storeVars, queueVars
<1>0. /\ run[r] \in RunType /\ run \in [Runs -> RunType] /\ e \in Execs /\ o \in RowType /\ RunCurrent(r)
      /\ row[e] \in RowType /\ StoreTypeOK /\ r \in Nat /\ ObjectAgrees(r) /\ MaxRetries \in Nat
  BY ViewTypes, MaxRetriesAssumption DEF TypeOK, RunsTypeOK, ViewsCurrent, OwnersInStep
<1>1. ASSUME ~Settling(run[r]), row'[e] = row[e] \/ row'[e].status # "failed"
      PROVE  SettledOrHandled(r, e)
  BY <1>1 DEF SettledOrHandled, Handling
<1>2. CASE run[r].pc \notin {"release", "finishref", "judge", "hold", "later"} /\ row' = row
  BY <1>1, <1>2 DEF Settling
<1>3. CASE ReadScheduler(r)
  <2>1. ~sched => ~Present(e)
    BY <1>0 DEF ViewsCurrent, StartCurrent
  <2> QED
    BY <1>2, <1>3, <2>1 DEF ReadScheduler
<1>4. CASE StartSession(r)
  <2>1. row'[e] = row[e] \/ StartRow(e, o.sess, o.started)
    BY <1>4 DEF StartSession
  <2>2. o.sess \in Nat /\ o.started \in Nat
    BY <1>0 DEF RowType
  <2>3. row'[e] = row[e] \/ row'[e].status = "running"
    BY <1>0, <2>1, <2>2, StartFields
  <2> QED
    BY <1>1, <1>4, <2>3 DEF StartSession, Settling
<1>5. CASE StartEffect(r) \/ LateWorkEnds(r)
  <2>1. row' = row /\ run'[r] \in {[run[r] EXCEPT !.eff = TRUE], [run[r] EXCEPT !.work = "ended"]}
    BY <1>0, <1>5 DEF StartEffect, LateWorkEnds
  <2>2. /\ run'[r].exec = e /\ run'[r].pc = run[r].pc /\ run'[r].obj = o /\ run'[r].exit = run[r].exit
    BY <1>0, <2>1 DEF RunType
  <2> QED
    BY <2>1, <2>2 DEF SettledOrHandled, Handling, Settling
<1>6. CASE Save(r) \/ FailWrite(r)
  <2>1. run[r].pc \in {"save", "failwrite"} /\ ~Settling(run[r])
    BY <1>6 DEF Save, FailWrite, Settling
  <2>2. CASE StillActive(e, o)
    <3> DEFINE z == row'[e]
    <3>1. WriteRow(e, o) /\ run' = [run EXCEPT ![r].pc = "release", ![r].obj = z]
      BY <1>6, <2>2 DEF Save, FailWrite
    <3> HIDE DEF z
    <3>2. run'[r].pc = "release" /\ run'[r].exec = e /\ run'[r].obj = z /\ run'[r].exit = run[r].exit
      BY <1>0, <3>1 DEF RunType
    <3>3. row'[e].held = o.held
      BY <1>0, <3>1, WriteFields
    <3>4. run[r].exit = "settle" \/ o.held
      BY <2>1 DEF RunAccounted, InDispatch, FailsToSettle
    <3> QED
      BY <3>2, <3>3, <3>4 DEF SettledOrHandled, Handling, Settling, z
  <2>3. CASE ~StillActive(e, o)
    <3>1. row' = row
      BY <1>6, <2>3 DEF Save, FailWrite
    <3> QED
      BY <1>1, <2>1, <3>1
  <2> QED
    BY <2>2, <2>3
<1>7. CASE InterruptRequeue(r)
  <2>1. row' = row \/ RequeueRow(e, Requeued(o, FALSE))
    BY <1>7 DEF InterruptRequeue
  <2>2. row'[e] = row[e] \/ row'[e].status = "queued"
    <3>1. Requeued(o, FALSE) \in RowType /\ Requeued(o, FALSE).status = "queued"
      BY <1>0, RequeuedFields DEF Requeued, RowType
    <3>2. CASE RequeueRow(e, Requeued(o, FALSE))
      BY <1>0, <3>1, <3>2, RequeueFields
    <3> QED
      BY <2>1, <3>2
  <2> QED
    BY <1>1, <1>7, <2>2 DEF InterruptRequeue, Settling
<1>8. CASE Release(r) \/ FinishRef(r)
  <2>1. /\ row' = row /\ run'[r].exec = e /\ run'[r].obj = o /\ run'[r].exit = run[r].exit
        /\ run[r].pc \in {"release", "finishref"} /\ run'[r].pc \in {"finishref", Done(r)}
    BY <1>0, <1>8 DEF Release, FinishRef, FinishRefRow, RunType
  <2>2. run[r].exit = "settle" /\ o.status = "failed" => Done(r) = "judge"
    BY DEF Done
  <2>3. Handling(r) => Handling(r)'
    BY <2>1, <2>2 DEF Handling, Settling
  <2> QED
    BY <2>1, <2>3 DEF SettledOrHandled
<1>9. CASE Judge(r)
  <2>1. /\ row' = row /\ run'[r].exec = e /\ run'[r].obj = o /\ run[r].pc = "judge"
        /\ \/ run'[r].pc \in {"hold", "later"}
           \/ run'[r].pc = "over" /\ ~(o.count < MaxRetries)
    BY <1>0, <1>9 DEF Judge, RunType
  <2>2. CASE run'[r].pc \in {"hold", "later"}
    <3>1. Handling(r) => Handling(r)'
      BY <2>1, <2>2 DEF Handling, Settling
    <3> QED
      BY <2>1, <3>1 DEF SettledOrHandled
  <2>3. CASE run'[r].pc = "over" /\ ~(o.count < MaxRetries)
    <3>1. Handling(r) => o = row[e]
      BY <1>0, <2>1 DEF Handling, ObjectAgrees, Present
    <3>2. o.count >= MaxRetries
      BY <1>0, <2>3 DEF RowType
    <3> QED
      BY <2>1, <3>1, <3>2 DEF SettledOrHandled
  <2> QED
    BY <2>1, <2>2, <2>3
<1>10. CASE Settle(r)
  <2> DEFINE n == IF run[r].pc = "hold" THEN Held(o) ELSE [o EXCEPT !.count = @ + 1, !.due = TRUE]
  <2>1. IF Unchanged(e, o.ver) THEN WriteRow(e, n) ELSE row' = row
    BY <1>10 DEF Settle
  <2>2. n \in RowType /\ (n.held \/ n.due)
    <3>1. Held(o) \in RowType /\ Held(o).held = TRUE
      BY <1>0 DEF Held, RowType
    <3>2. o.count + 1 \in Nat
      BY <1>0 DEF RowType
    <3>3. [o EXCEPT !.count = @ + 1, !.due = TRUE] \in RowType
      BY <1>0, <3>2 DEF RowType
    <3>4. [o EXCEPT !.count = @ + 1, !.due = TRUE].due = TRUE
      BY <1>0 DEF RowType
    <3>5. CASE run[r].pc = "hold"
      BY <3>1, <3>5
    <3>6. CASE run[r].pc # "hold"
      BY <3>3, <3>4, <3>6
    <3> QED
      BY <3>5, <3>6
  <2> HIDE DEF n
  <2>3. CASE Unchanged(e, o.ver)
    <3>1. row'[e].held = n.held /\ row'[e].due = n.due
      BY <1>0, <2>1, <2>2, <2>3, WriteFields
    <3> QED
      BY <2>2, <3>1 DEF SettledOrHandled
  <2>4. CASE ~Unchanged(e, o.ver)
    BY <2>1, <2>4 DEF SettledOrHandled, Handling, Unchanged, Present
  <2> QED
    BY <2>3, <2>4
<1>11. CASE DispatchFails(r) \/ Register(r) \/ Check(r) \/ Open(r) \/ WorkEnds(r)
  BY <1>2, <1>11 DEF DispatchFails, Register, Check, Open, WorkEnds, EndWork, Interrupted
<1>12. CASE AbsoluteTimeout(r) \/ GuardTimeout(r) \/ GuardCancel(r)
  BY <1>2, <1>12 DEF AbsoluteTimeout, GuardTimeout, GuardCancel
<1>13. CASE Reread(r) \/ Fail(r) \/ InterruptRead(r) \/ InterruptJudge(r)
  BY <1>2, <1>13 DEF Reread, Fail, InterruptRead, InterruptJudge
<1> QED
  BY <1>3, <1>4, <1>5, <1>6, <1>7, <1>8, <1>9, <1>10, <1>11, <1>12, <1>13 DEF RunStep

(* How a dispatcher leaves is decided as its exit says: only the           *)
(* CancelledError branch fails a row without handling it, and that one     *)
(* holds it.                                                               *)
ExitFits(r) ==
  /\ run[r].exit = "requeued" => run[r].pc \in {"release", "over"}
  /\ run[r].pc = "failwrite" => run[r].exit = "settle" \/ run[r].obj.held

LEMMA ExitsFit ==
  ASSUME TypeOK, NEW r \in Runs, ExitFits(r), RunStep(r)
  PROVE  ExitFits(r)'
<1> DEFINE e == run[r].exec
           o == run[r].obj
<1>0. /\ run[r] \in RunType /\ run \in [Runs -> RunType] /\ o \in RowType /\ Current(e, o) \in RowType
  BY ViewTypes DEF TypeOK, RunsTypeOK
<1>1. ASSUME run[r].pc \notin {"release", "over"}, run'[r].exit \in {run[r].exit, "raise"}, run'[r].pc # "failwrite"
      PROVE  ExitFits(r)'
  BY <1>1 DEF ExitFits
<1>2. CASE StartEffect(r) \/ LateWorkEnds(r)
  <2>1. run'[r] \in {[run[r] EXCEPT !.eff = TRUE], [run[r] EXCEPT !.work = "ended"]}
    BY <1>0, <1>2 DEF StartEffect, LateWorkEnds
  <2>2. run'[r].pc = run[r].pc /\ run'[r].obj = o /\ run'[r].exit = run[r].exit
    BY <1>0, <2>1 DEF RunType
  <2> QED
    BY <2>2 DEF ExitFits
<1>3. CASE ReadScheduler(r) \/ DispatchFails(r) \/ StartSession(r) \/ Register(r)
  <2>1. run'[r].exit = run[r].exit
    BY <1>0, <1>3 DEF ReadScheduler, DispatchFails, StartSession, Register, RunType
  <2>2. run'[r].pc \in {"start", "over", "fail", "register", "reread", "check"}
    BY <1>0, <1>3 DEF ReadScheduler, DispatchFails, StartSession, Register, RunType
  <2> QED
    BY <1>1, <1>3, <2>1, <2>2 DEF ReadScheduler, DispatchFails, StartSession, Register
<1>4. ASSUME NEW s, EndWork(r, s)
      PROVE  run'[r].pc = "save" /\ run'[r].exit = run[r].exit
  BY <1>0, <1>4 DEF EndWork, RunType
<1>5. Interrupted(r) => run'[r].pc = "intread" /\ run'[r].exit = "raise"
  BY <1>0 DEF Interrupted, RunType
<1>6. CASE Check(r) \/ Open(r) \/ WorkEnds(r)
  <2>1. Check(r) => run'[r].pc \in {"open", "save"} /\ run'[r].exit = run[r].exit
    BY <1>0, <1>4 DEF Check, RunType
  <2>2. Open(r) => run'[r].pc \in {"work", "save", "intread"} /\ run'[r].exit \in {run[r].exit, "raise"}
    BY <1>0, <1>4, <1>5 DEF Open, RunType
  <2>3. WorkEnds(r) => run'[r].pc \in {"save", "intread"} /\ run'[r].exit \in {run[r].exit, "raise"}
    BY <1>4, <1>5 DEF WorkEnds
  <2>4. run[r].pc \in {"check", "open", "work"}
    BY <1>6 DEF Check, Open, WorkEnds
  <2> QED
    BY <1>1, <1>6, <2>1, <2>2, <2>3, <2>4
<1>7. CASE AbsoluteTimeout(r) \/ GuardTimeout(r)
  <2>1. run'[r].pc \in {"save", "guard"} /\ run'[r].exit = run[r].exit /\ run[r].pc = "work"
    BY <1>0, <1>7 DEF AbsoluteTimeout, GuardTimeout, RunType
  <2> QED
    BY <1>1, <2>1
<1>8. CASE GuardCancel(r)
  <2> DEFINE S == Reached(e, o.sess)
  <2>1. run' = [Signalled(S) EXCEPT ![r].pc = "fail"] /\ run[r].pc = "guard"
    BY <1>8 DEF GuardCancel
  <2> HIDE DEF S
  <2>2. run'[r] = [Signalled(S)[r] EXCEPT !.pc = "fail"]
    BY <2>1 DEF Signalled
  <2>3. Signalled(S)[r] \in RunType
    BY <1>0 DEF Signalled, RunType
  <2>4. run'[r].exit = run[r].exit /\ run'[r].pc = "fail"
    BY <1>0, <2>2, <2>3, SignalledKeeps DEF RunType, TypeOK
  <2> QED
    BY <1>1, <2>1, <2>4
<1>9. CASE Save(r) \/ FailWrite(r)
  <2>1. \E p \in {"release", "reread", "failreread"} : \E n :
          \/ run' = [run EXCEPT ![r].pc = p]
          \/ run' = [run EXCEPT ![r].pc = p, ![r].obj = n]
    BY <1>9, Zenon DEF Save, FailWrite
  <2>2. run'[r].pc \in {"release", "reread", "failreread"} /\ run'[r].exit = run[r].exit
    BY <1>0, <2>1 DEF RunType
  <2> QED
    BY <1>1, <1>9, <2>2 DEF Save, FailWrite
<1>10. CASE Reread(r) \/ InterruptRead(r)
  <2>1. run'[r].pc \in {"release", "intjudge"} /\ run'[r].exit = run[r].exit
    BY <1>0, <1>10 DEF Reread, InterruptRead, RunType
  <2> QED
    BY <1>1, <1>10, <2>1 DEF Reread, InterruptRead
<1>11. CASE InterruptJudge(r)
  <2>1. \E p \in {"intrequeue", "fail"} : run' = [run EXCEPT ![r].pc = p]
    BY <1>11 DEF InterruptJudge
  <2>2. run'[r].pc \in {"intrequeue", "fail"} /\ run'[r].exit = run[r].exit
    BY <1>0, <2>1 DEF RunType
  <2> QED
    BY <1>1, <1>11, <2>2 DEF InterruptJudge
<1>12. CASE InterruptRequeue(r)
  <2>1. \E x, n : \/ run' = [run EXCEPT ![r].pc = "release", ![r].exit = x, ![r].obj = n]
                  \/ run' = [run EXCEPT ![r].pc = "release", ![r].obj = n, ![r].exit = x]
    <3>1. CASE Requeueable(e, o.status, o.ver)
      BY <1>12, <3>1 DEF InterruptRequeue
    <3>2. CASE ~Requeueable(e, o.status, o.ver)
      BY <1>12, <3>2 DEF InterruptRequeue
    <3> QED
      BY <3>1, <3>2
  <2>2. run'[r].pc = "release"
    BY <1>0, <2>1 DEF RunType
  <2> QED
    BY <2>2 DEF ExitFits
<1>13. CASE Fail(r)
  <2> DEFINE c == Current(e, o)
             f == [c EXCEPT !.status = "failed"]
  <2>1. run[r].pc = "fail" /\ run[r].exit # "requeued"
    BY <1>13 DEF Fail, ExitFits
  <2>2. CASE Present(e) /\ c.status \in Terminal
    <3>1. run'[r].pc = "release" /\ run'[r].exit = run[r].exit
      BY <1>0, <1>13, <2>2 DEF Fail, RunType
    <3> QED
      BY <1>1, <2>1, <3>1
  <2>3. CASE ~(Present(e) /\ c.status \in Terminal)
    <3>1. /\ run'[r].exit = run[r].exit
          /\ run'[r].obj = IF run[r].exit = "raise" THEN Held(f) ELSE f
      BY <1>0, <1>13, <2>3 DEF Fail, RunType
    <3>2. f \in RowType
      BY <1>0 DEF RowType, Status, Terminal
    <3>3. Held(f).held
      BY <3>2 DEF Held, RowType
    <3>4. run[r].exit \in {"settle", "raise"}
      BY <1>0, <2>1 DEF RunType, Exit
    <3> QED
      BY <2>1, <3>1, <3>3, <3>4 DEF ExitFits
  <2> QED
    BY <2>2, <2>3
<1>14. CASE Release(r) \/ FinishRef(r)
  <2>1. /\ run'[r].exit = run[r].exit /\ run[r].pc \in {"release", "finishref"}
        /\ run'[r].pc \in {"finishref", Done(r)}
        /\ run[r].exit = "requeued" /\ run[r].pc = "release" => run'[r].pc = Done(r)
    BY <1>0, <1>14 DEF Release, FinishRef, RunType
  <2>2. Done(r) \in {"judge", "over"} /\ (run[r].exit # "settle" => Done(r) = "over")
    BY DEF Done
  <2> QED
    BY <2>1, <2>2 DEF ExitFits
<1>15. CASE Judge(r) \/ Settle(r)
  <2>1. \E p \in {"hold", "later", "over"} : run' = [run EXCEPT ![r].pc = p]
    BY <1>15 DEF Judge, Settle
  <2>2. run'[r].pc \in {"hold", "later", "over"} /\ run'[r].exit = run[r].exit
    BY <1>0, <2>1 DEF RunType
  <2> QED
    BY <1>1, <1>15, <2>2 DEF Judge, Settle
<1> QED
  BY <1>2, <1>3, <1>6, <1>7, <1>8, <1>9, <1>10, <1>11, <1>12, <1>13, <1>14, <1>15 DEF RunStep

(* The parts of the invariant.                                             *)
LEMMA FailureParts ==
  /\ \A x \in Runs : FailsToSettle(x) <=> ExitFits(x) /\ PendingHasRow(x)
  /\ \A x \in Runs : FailsToSettle(x)' <=> ExitFits(x)' /\ PendingHasRow(x)'
BY DEF FailsToSettle, ExitFits, PendingHasRow, CalledOff

(* What the execution loop is at when nothing runs that nobody keeps.      *)
LoopFlushes == ~Recovering /\ (loop.pc = "flushread" => CalledOff(loop.exec))

LEMMA LoopFlushesStill ==
  ASSUME TypeOK, MovesOn, LoopFlushes, loop' = loop
  PROVE  LoopFlushes'
BY CalledOffStays, LoopViewTypes DEF TypeOK, LoopFlushes, Recovering, CalledOff

(* Whoever does not move keeps what it keeps and handles what it handles,  *)
(* unless its row is called off or was not running and is queued.          *)
LEMMA IdleFailures ==
  ASSUME TypeOK, MovesOn, FailuresInStep, mgr' = mgr, LoopFlushes',
         \A x \in Runs : Idle(x),
         \A e \in Execs : \/ row'[e] = row[e]
                          \/ CalledOff(e)'
                          \/ row[e].status # "running" /\ row'[e].status = "queued"
  PROVE  FailuresInStep'
<1>1. ASSUME NEW x \in Runs
      PROVE  FailsToSettle(x)'
  <2>1. FailsToSettle(x) /\ Idle(x) /\ run[x].exec \in Execs
    BY ViewTypes DEF TypeOK, FailuresInStep
  <2>2. ExitFits(x)'
    BY <2>1 DEF FailsToSettle, ExitFits, Idle
  <2>3. run[x].pc = "pending" => RunsOn(run[x].exec)
    BY <2>1 DEF RunsOn, Idle, CalledOff
  <2>4. PendingHasRow(x)
    BY <2>1, FailureParts
  <2>5. PendingHasRow(x)'
    BY <2>1, <2>3, <2>4, IdlePending
  <2> QED
    BY <2>2, <2>5, FailureParts
<1>2. ASSUME NEW e \in Execs
      PROVE  RunningIsKept(e)' /\ Settled(e)'
  <2>1. RunningIsKept(e) /\ Settled(e)
    BY DEF FailuresInStep
  <2>2. row'[e].status \in {"running", "failed"} => row'[e] = row[e]
    BY DEF CalledOff
  <2>3. RunningIsKept(e)'
    BY <2>1, <2>2, IdleOwner DEF RunningIsKept
  <2>4. Settled(e)'
    BY <2>1, <2>2 DEF Settled, Handling, Settling, Idle
  <2> QED
    BY <2>3, <2>4
<1> QED
  BY <1>1, <1>2 DEF FailuresInStep, LoopFlushes

(* What one run does to its execution.                                     *)
LEMMA ActorFailures ==
  ASSUME TypeOK, MovesOn, FailuresInStep, mgr' = mgr, LoopFlushes',
         NEW r \in Runs, Alone(r), run'[r].exec = run[r].exec, FailsToSettle(r)',
         SettledOrHandled(r, run[r].exec),
         \A f \in Execs \ {run[r].exec} : row'[f] = row[f],
         \A x \in Runs \ {r} : run[x].pc = "pending" => row'[run[x].exec] = row[run[x].exec],
         row'[run[r].exec].status = "running" =>
           /\ row[run[r].exec].status = "running" /\ row'[run[r].exec].started = row[run[r].exec].started
           /\ row[run[r].exec].started = r => Keeps(r)'
  PROVE  FailuresInStep'
<1> DEFINE e == run[r].exec
<1>0. e \in Execs /\ \A x \in Runs \ {r} : Idle(x)
  BY ViewTypes DEF TypeOK, Alone
<1>1. ASSUME NEW x \in Runs \ {r}
      PROVE  FailsToSettle(x)'
  <2>1. FailsToSettle(x) /\ Idle(x)
    BY <1>0 DEF FailuresInStep
  <2>2. ExitFits(x)'
    BY <2>1 DEF FailsToSettle, ExitFits, Idle
  <2>3. PendingHasRow(x)
    BY <2>1, FailureParts
  <2>4. PendingHasRow(x)'
    BY <2>1, <2>3 DEF PendingHasRow, CalledOff, Idle
  <2> QED
    BY <2>2, <2>4, FailureParts
<1>2. ASSUME NEW f \in Execs
      PROVE  RunningIsKept(f)'
  <2>1. SUFFICES ASSUME row'[f].status = "running"
                 PROVE  \E s \in Runs : s = row'[f].started /\ run'[s].exec = f /\ Keeps(s)'
    BY DEF RunningIsKept
  <2>2. row[f].status = "running" /\ row'[f].started = row[f].started
    BY <1>0, <2>1
  <2>3. PICK s \in Runs : s = row[f].started /\ run[s].exec = f /\ Keeps(s)
    BY <2>2 DEF FailuresInStep, RunningIsKept
  <2>4. CASE s = r
    BY <2>1, <2>2, <2>3, <2>4
  <2>5. CASE s # r
    BY <1>0, <2>2, <2>3, <2>5, IdleOwner
  <2> QED
    BY <2>4, <2>5
<1>3. ASSUME NEW f \in Execs, row'[f] = row[f], NEW x \in Runs \ {r}, run[x].exec = f, Handling(x)
      PROVE  run'[x].exec = f /\ Handling(x)'
  BY <1>0, <1>3 DEF Handling, Settling, Idle
<1>4. ASSUME NEW f \in Execs
      PROVE  Settled(f)'
  <2>1. Settled(f)
    BY DEF FailuresInStep
  <2>2. CASE f # e
    <3>1. row'[f] = row[f]
      BY <2>2
    <3>2. \A x \in Runs : run[x].exec = f => x # r
      BY <2>2
    <3> QED
      BY <1>3, <2>1, <3>1, <3>2 DEF Settled
  <2>3. CASE f = e /\ row'[e] = row[e] /\ ~Handling(r)
    BY <1>3, <2>1, <2>3 DEF Settled
  <2>4. CASE f = e /\ ~(row'[e] = row[e] /\ ~Handling(r))
    BY <2>4 DEF Settled, SettledOrHandled
  <2> QED
    BY <2>2, <2>3, <2>4
<1> QED
  BY <1>1, <1>2, <1>4 DEF FailuresInStep, LoopFlushes

(* A dispatcher lets go of no running row, and settles what it fails.      *)
LEMMA RunFailures ==
  ASSUME InOrder, MovesOn, RefsInStep', RetriesInStep, FailuresInStep, NEW r \in Runs, RunStep(r), Alone(r),
         UNCHANGED <<mgr, loop>>
  PROVE  FailuresInStep'
<1> DEFINE e == run[r].exec
<1>0. /\ TypeOK /\ ViewsCurrent /\ FencesHold /\ OwnersInStep /\ OneOwner /\ RowsOf(r) /\ e \in Execs
      /\ RunAccounted(r) /\ FailsToSettle(r) /\ run'[r].exec = e /\ mgr = "up"
  BY RunRows, ViewTypes, RunOwnsLess
  DEF InOrder, WorkInOrder, OwnersInStep, TypeOK, RetriesInStep, FailuresInStep
<1>1. LoopFlushes'
  BY <1>0, LoopFlushesStill DEF FailuresInStep, LoopFlushes
<1>2. SettledOrHandled(r, e)
  BY <1>0, RunSettles
<1>3. ExitFits(r)'
  BY <1>0, ExitsFit, FailureParts
<1>4. row'[e].status = "running" => row[e].status = "running" /\ row'[e].started = row[e].started
  BY <1>0, RunKeepsRunning
<1>5. ASSUME row'[e].status = "running", row[e].started = r
      PROVE  Keeps(r)'
  <2>1. Keeps(r)
    BY <1>0, <1>4, <1>5 DEF FailuresInStep, RunningIsKept
  <2>2. CASE run[r].pc = "pending"
    BY <1>0, <2>2, PendingWaits DEF Keeps
  <2>3. CASE run[r].pc \in OwnPC
    <3>1. sched
      BY <1>0, <1>4, <1>5 DEF ViewsCurrent, StartCurrent, Present
    <3>2. run'[r].pc \in OwnPC \cup {"release"}
      BY <1>0, <2>3, <3>1, OwnerReleases
    <3>3. CalledOffFirst(r)'
      BY <1>0 DEF RefsInStep
    <3>4. run'[r].pc # "release"
      BY <1>0, <1>4, <1>5, <3>3 DEF CalledOffFirst
    <3> QED
      BY <3>2, <3>4 DEF Keeps, Owns
  <2> QED
    BY <2>1, <2>2, <2>3 DEF Keeps, Owns
<1>6. \A x \in Runs : PendingHasRow(x)
  BY FailureParts DEF FailuresInStep
<1>7. \A x \in Runs : run[x].pc = "pending" => row'[run[x].exec] = row[run[x].exec]
  BY <1>0, <1>6, PendingRowKept
<1>8. PendingHasRow(r)'
  <2>1. SUFFICES ASSUME run'[r].pc = "pending"
                 PROVE  PendingHasRow(r)'
    BY DEF PendingHasRow
  <2>2. CASE run[r].pc = "pending"
    BY <1>0, <1>6, <1>7, <2>2 DEF PendingHasRow, CalledOff
  <2>3. CASE run[r].pc # "pending"
    <3>1. run[r].pc \in OwnPC /\ run'[r].pc \notin OwnPC \cup {"release"}
      BY <1>0, <2>1, <2>3, RunOwnsLess DEF Keeps, Owns, OwnPC
    <3>2. ~Present(e)
      BY <1>0, <3>1, OwnerReleases DEF ViewsCurrent, StartCurrent
    <3>3. CalledOff(e)
      BY <1>0, <3>1, <3>2 DEF OwnersInStep, OwnerHasRow, Owns, Present
    <3>4. CalledOff(e)'
      BY <1>0, <3>3, CalledOffStays
    <3> QED
      BY <1>0, <3>4 DEF PendingHasRow, CalledOff
  <2> QED
    BY <2>2, <2>3
<1>9. \A f \in Execs \ {e} : row'[f] = row[f]
  BY <1>0 DEF RowsOf
<1> QED
  BY <1>0, <1>1, <1>2, <1>3, <1>4, <1>5, <1>7, <1>8, <1>9, ActorFailures, FailureParts

(* A write that fails leaves its result pending.                           *)
LEMMA FailSaveFailures ==
  ASSUME InOrder, MovesOn, RetriesInStep, FailuresInStep, NEW r \in Runs, SaveFails(r, FALSE),
         UNCHANGED <<mgr, loop>>
  PROVE  FailuresInStep'
<1> DEFINE e == run[r].exec
<1>0. /\ TypeOK /\ OneOwner /\ OwnerHasRow(r) /\ run \in [Runs -> RunType] /\ e \in Execs
      /\ FailsToSettle(r) /\ RunAccounted(r) /\ mgr = "up"
  BY ViewTypes DEF InOrder, WorkInOrder, OwnersInStep, TypeOK, RunsTypeOK, RetriesInStep, FailuresInStep
<1>1. /\ run[r].pc = "save" /\ Owns(r) /\ row' = row
      /\ run' = [x \in Runs |-> IF x = r THEN [run[x] EXCEPT !.pc = "pending"] ELSE NoLongerPending(x, e)]
  BY DEF SaveFails, Owns, OwnPC, PC, storeVars
<1>2. ASSUME NEW x \in Runs \ {r}
      PROVE  run'[x] = run[x]
  <2>1. run[x].exec = e => run[x].pc # "pending"
    BY <1>0, <1>1 DEF OneOwner, Keeps
  <2> QED
    BY <1>1, <2>1 DEF NoLongerPending
<1>3. run'[r].pc = "pending" /\ run'[r].exec = e /\ run'[r].exit = run[r].exit
  BY <1>0, <1>1 DEF RunType
<1>4. Alone(r)
  BY <1>2 DEF Alone, Idle
<1>5. LoopFlushes'
  BY <1>0, LoopFlushesStill DEF FailuresInStep, LoopFlushes
<1>6. FailsToSettle(r)'
  BY <1>0, <1>1, <1>3 DEF FailsToSettle, RunAccounted, InDispatch, OwnerHasRow, CalledOff
<1>7. SettledOrHandled(r, e)
  BY <1>1 DEF SettledOrHandled, Handling, Settling
<1>8. Keeps(r)'
  BY <1>3 DEF Keeps
<1> QED
  BY <1>0, <1>1, <1>3, <1>4, <1>5, <1>6, <1>7, <1>8, ActorFailures

(* A claim starts the run that keeps its row.                              *)
LEMMA ClaimFailures ==
  ASSUME InOrder, MovesOn, FailuresInStep, NEW e \in Execs, Dequeue(e)
  PROVE  FailuresInStep'
<1> DEFINE n == claims + 1
<1>0. /\ TypeOK /\ StoreTypeOK /\ run \in [Runs -> RunType] /\ n \in Runs /\ n \in Nat /\ n # 0
      /\ row[e].status = "queued" /\ row[e].started = 0 /\ run[n].pc = "unused" /\ mgr = "up" /\ loop' = loop
      /\ mgr' = mgr /\ ClaimRow(e, n) /\ run' = [run EXCEPT ![n] = NewRun(e, row'[e], "scheduler")]
      /\ \A x \in Runs : run[x].exec \in Execs
  <2>1. /\ TypeOK /\ StoreTypeOK /\ RunsTypeOK /\ run \in [Runs -> RunType]
        /\ claims \in 0..MaxClaims /\ FencesHold
    BY DEF InOrder, TypeOK, RunsTypeOK
  <2>2. claims < MaxClaims /\ ClaimRow(e, n) /\ run' = [run EXCEPT ![n] = NewRun(e, row'[e], "scheduler")]
    BY DEF Dequeue
  <2>3. n \in Runs /\ n # 0 /\ n \in Nat /\ n > claims
    BY <2>1, <2>2, MaxClaimsAssumption DEF Runs
  <2>4. run[n].pc = "unused"
    BY <2>1, <2>3 DEF FencesHold, Fenced
  <2>5. row[e].status = "queued" /\ mgr = "up" /\ loop' = loop /\ mgr' = mgr
    BY DEF Dequeue, MayDequeue, Claimable, LoopFree, managerVars
  <2>6. row[e].started = 0
    BY <2>1, <2>5 DEF FencesHold, QueuedUnstarted
  <2>7. \A x \in Runs : run[x].exec \in Execs
    BY <2>1, ViewTypes
  <2> QED
    BY <2>1, <2>2, <2>3, <2>4, <2>5, <2>6, <2>7
<1>1. /\ \A x \in Execs \ {e} : row'[x] = row[x]
      /\ row'[e].status = "running" /\ row'[e].started = n
  BY <1>0, ClaimFields
<1>2. run'[n] = NewRun(e, row'[e], "scheduler") /\ \A x \in Runs \ {n} : run'[x] = run[x]
  BY <1>0
<1>3. run'[n].exec = e /\ run'[n].pc = "scheduler" /\ run'[n].exit = "settle"
  BY <1>2 DEF NewRun
<1>4. LoopFlushes'
  BY <1>0, LoopFlushesStill DEF FailuresInStep, LoopFlushes
<1>5. ASSUME NEW x \in Runs
      PROVE  FailsToSettle(x)'
  <2>1. CASE x = n
    BY <1>3, <2>1 DEF FailsToSettle
  <2>2. CASE x # n
    <3>1. FailsToSettle(x) /\ run'[x] = run[x] /\ run[x].exec \in Execs
      BY <1>0, <1>2, <2>2 DEF FailuresInStep
    <3>2. run[x].pc = "pending" => run[x].exec # e
      BY <1>0, <3>1 DEF FailsToSettle, CalledOff
    <3> QED
      BY <1>1, <3>1, <3>2 DEF FailsToSettle, CalledOff
  <2> QED
    BY <2>1, <2>2
<1>6. ASSUME NEW f \in Execs
      PROVE  RunningIsKept(f)'
  <2>1. CASE f = e
    BY <1>0, <1>1, <1>3, <2>1 DEF RunningIsKept, Keeps, Owns, OwnPC, PC
  <2>2. CASE f # e
    <3>1. RunningIsKept(f) /\ row'[f] = row[f]
      BY <1>1, <2>2 DEF FailuresInStep
    <3>2. \A x \in Runs : Keeps(x) => x # n
      BY <1>0 DEF Keeps, Owns, OwnPC
    <3> QED
      BY <1>2, <3>1, <3>2 DEF RunningIsKept, Keeps, Owns
  <2> QED
    BY <2>1, <2>2
<1>7. ASSUME NEW f \in Execs
      PROVE  Settled(f)'
  <2>1. CASE f = e
    BY <1>1, <2>1 DEF Settled
  <2>2. CASE f # e
    <3>1. Settled(f) /\ row'[f] = row[f]
      BY <1>1, <2>2 DEF FailuresInStep
    <3>2. \A x \in Runs : Handling(x) => x # n
      BY <1>0 DEF Handling, Settling
    <3>3. \A x \in Runs : run[x].exec = f /\ Handling(x) => run'[x].exec = f /\ Handling(x)'
      BY <1>2, <3>1, <3>2 DEF Handling, Settling
    <3> QED
      BY <3>1, <3>3 DEF Settled
  <2> QED
    BY <2>1, <2>2
<1> QED
  BY <1>0, <1>4, <1>5, <1>6, <1>7 DEF FailuresInStep, LoopFlushes

(* A result that is written late is settled by the run it is of; one that  *)
(* finds no row was called off.                                            *)
LEMMA FlushFailures ==
  ASSUME InOrder, MovesOn, RefsInStep, FailuresInStep, (\E r \in Runs : FlushWrite(r)) \/ FlushRead
  PROVE  FailuresInStep'
<1>0. /\ TypeOK /\ StoreTypeOK /\ run \in [Runs -> RunType] /\ mgr' = mgr
      /\ \A x \in Runs : /\ PendingHasRow(x) /\ run[x].exec \in Execs /\ run[x].obj \in RowType
                         /\ RunCurrent(x) /\ FailsToSettle(x)
                         /\ run[x].pc = "pending" => run[x].obj.started = x
  <2>1. TypeOK /\ StoreTypeOK /\ RunsTypeOK /\ run \in [Runs -> RunType] /\ FencesHold /\ ViewsCurrent
    BY DEF InOrder, TypeOK, RunsTypeOK
  <2>2. mgr' = mgr
    BY DEF FlushWrite, FlushRead
  <2>3. \A x \in Runs : PendingHasRow(x) /\ FailsToSettle(x)
    BY FailureParts DEF FailuresInStep
  <2>4. \A x \in Runs : run[x].exec \in Execs /\ run[x].obj \in RowType /\ RunCurrent(x)
    BY <2>1, ViewTypes DEF ViewsCurrent
  <2>5. \A x \in Runs : run[x].pc = "pending" => run[x].obj.started = x
    BY <2>1 DEF FencesHold, Fenced, FirstObject
  <2> QED
    BY <2>1, <2>2, <2>3, <2>4, <2>5
<1>1. ASSUME NEW r \in Runs, FlushWrite(r)
      PROVE  FailuresInStep'
  <2> DEFINE e == run[r].exec
             o == run[r].obj
  <2>0. /\ run[r].pc = "pending" /\ o.started = r /\ o.status \in Terminal /\ run[r].exit # "requeued"
        /\ e \in Execs /\ o \in RowType
    BY <1>0, <1>1 DEF FlushWrite, RunCurrent, FailsToSettle
  <2>1. CASE StillActive(e, o)
    <3> DEFINE p == IF o.status = "failed" THEN "judge" ELSE "over"
               z == row'[e]
    <3>1. /\ WriteRow(e, o) /\ run' = [run EXCEPT ![r].pc = p, ![r].obj = z]
          /\ loop' = IF o.status = "failed"
                     THEN [LoopIdle EXCEPT !.pc = "flushjudge", !.exec = e, !.r = r] ELSE loop
          /\ loop.pc = "idle"
      BY <1>1, <2>1 DEF FlushWrite, LoopFree
    <3> HIDE DEF z
    <3>2. run'[r].pc = p /\ run'[r].exec = e /\ run'[r].obj = z /\ run'[r].exit = run[r].exit
      BY <1>0, <3>1 DEF RunType
    <3>3. Alone(r)
      BY <1>0, <3>1 DEF Alone, Idle
    <3>4. \A f \in Execs \ {e} : row'[f] = row[f]
      BY <1>0, <2>0, <3>1, WriteFields
    <3>5. row'[e].status = o.status
      BY <1>0, <2>0, <3>1, WriteFields
    <3>6. loop'.pc \in {"idle", "flushjudge"}
      BY <3>1 DEF LoopIdle
    <3>7. LoopFlushes'
      BY <3>6 DEF LoopFlushes, Recovering
    <3>8. SettledOrHandled(r, e)
      BY <3>2, <3>5 DEF SettledOrHandled, Handling, Settling, z
    <3>9. FailsToSettle(r)'
      BY <2>0, <3>2 DEF FailsToSettle
    <3>10. ASSUME NEW x \in Runs \ {r}, run[x].pc = "pending"
           PROVE  row'[run[x].exec] = row[run[x].exec]
      <4>1. run[x].exec # e
        BY <1>0, <2>0, <2>1, <3>10 DEF PendingHasRow, StillActive, IsActive, Active, CalledOff
      <4> QED
        BY <1>0, <3>4, <4>1
    <3> QED
      BY <1>0, <2>0, <3>2, <3>3, <3>4, <3>5, <3>7, <3>8, <3>9, <3>10, ActorFailures DEF Terminal
  <2>2. CASE ~StillActive(e, o)
    <3>1. UNCHANGED <<row, run>> /\ loop' = [LoopIdle EXCEPT !.pc = "flushread", !.exec = e, !.r = r]
      BY <1>1, <2>2 DEF FlushWrite, storeVars
    <3>2. loop'.exec = e /\ loop'.pc = "flushread"
      BY <3>1 DEF LoopIdle
    <3>3. CalledOff(e)
      BY <1>0, <2>0, <2>2 DEF PendingHasRow, StillActive, IsActive, Active
    <3>4. LoopFlushes'
      BY <3>1, <3>2, <3>3 DEF LoopFlushes, Recovering, CalledOff
    <3> QED
      BY <1>0, <3>1, <3>4, IdleFailures DEF Idle
  <2> QED
    BY <2>1, <2>2
<1>2. CASE FlushRead
  <2> DEFINE e == loop.exec
             r == loop.r
  <2>1. /\ loop.pc = "flushread" /\ row' = row /\ loop'.pc = "idle"
        /\ run' = [x \in Runs |-> NoLongerPending(x, e)]
    BY <1>2 DEF FlushRead, LoopIdle, storeVars
  <2>2. r \in Runs /\ run[r].pc = "pending" /\ run[r].exec = e /\ CalledOff(e)
    BY <2>1 DEF RefsInStep, LoopHoldings, FailuresInStep
  <2>3. LoopFlushes'
    BY <2>1 DEF LoopFlushes, Recovering
  <2>4. ASSUME NEW x \in Runs
        PROVE  \/ run'[x] = run[x]
               \/ run[x].exec = e /\ run[x].pc = "pending" /\ run'[x] = [run[x] EXCEPT !.pc = "over"]
    BY <2>1 DEF NoLongerPending
  <2>5. ASSUME NEW x \in Runs
        PROVE  FailsToSettle(x)'
    <3>1. FailsToSettle(x) /\ run[x] \in RunType
      BY <1>0
    <3>2. CASE run'[x] = run[x]
      BY <2>1, <3>1, <3>2 DEF FailsToSettle, CalledOff
    <3>3. CASE run'[x] = [run[x] EXCEPT !.pc = "over"]
      BY <3>1, <3>3 DEF FailsToSettle, RunType
    <3> QED
      BY <2>4, <3>2, <3>3
  <2>6. ASSUME NEW f \in Execs
        PROVE  RunningIsKept(f)' /\ Settled(f)'
    <3>1. RunningIsKept(f) /\ Settled(f) /\ row'[f] = row[f]
      BY <2>1 DEF FailuresInStep
    <3>2. f = e => row[f].status \notin {"running", "failed"}
      BY <2>2 DEF CalledOff
    <3>3. \A x \in Runs : run[x].exec = f /\ f # e => run'[x] = run[x]
      BY <2>4
    <3>4. \A x \in Runs : run'[x].exec = run[x].exec
      <4> SUFFICES ASSUME NEW x \in Runs PROVE run'[x].exec = run[x].exec
        OBVIOUS
      <4>1. run[x] \in RunType
        BY <1>0
      <4>2. CASE run'[x] = [run[x] EXCEPT !.pc = "over"]
        BY <4>1, <4>2 DEF RunType
      <4> QED
        BY <2>4, <4>2
    <3>5. RunningIsKept(f)'
      BY <3>1, <3>2, <3>3 DEF RunningIsKept, Keeps, Owns
    <3>6. \A x \in Runs : run[x].exec = f /\ f # e /\ Handling(x) => run'[x].exec = f /\ Handling(x)'
      BY <3>1, <3>3 DEF Handling, Settling
    <3>7. Settled(f)'
      BY <3>1, <3>2, <3>6 DEF Settled
    <3> QED
      BY <3>5, <3>7
  <2> QED
    BY <1>0, <2>3, <2>5, <2>6 DEF FailuresInStep, LoopFlushes
<1> QED
  BY <1>1, <1>2

(* The loop finds nothing to recover that runs, as it is kept.             *)
LEMMA LoopFailures ==
  ASSUME InOrder, MovesOn, RefsInStep, FailuresInStep, "suspend" \notin Faults, LoopStep
  PROVE  FailuresInStep'
<1> USE DEF storeVars, queueVars, runVars, managerVars
<1>0. /\ TypeOK /\ StoreTypeOK /\ loop \in LoopType /\ loop.exec \in Execs /\ loop.obj \in RowType
      /\ Requeued(loop.obj, FALSE) \in RowType /\ LoopCurrent /\ ~Recovering
  BY LoopViewTypes DEF InOrder, ViewsCurrent, TypeOK, ManagerTypeOK, FailuresInStep
<1>1. ASSUME NEW e \in Execs, TakeStale(e)
      PROVE  FALSE
  <2>1. row[e].status = "running" /\ ~ResultPending(e) /\ ~Dispatched(e)
    BY <1>1 DEF TakeStale, Abandoned, Fault
  <2>2. PICK s \in Runs : s = row[e].started /\ run[s].exec = e /\ Keeps(s)
    BY <2>1 DEF FailuresInStep, RunningIsKept
  <2>3. run[s].pc \in OwnPC
    BY <2>1, <2>2 DEF ResultPending, Keeps, Owns
  <2>4. Live(s) /\ run[s].pc # "pending"
    BY <2>3 DEF OwnPC, Live
  <2> QED
    BY <2>1, <2>2, <2>4 DEF Dispatched
<1>2. CASE StaleJudge \/ StaleFail \/ StaleWrite \/ StaleFree \/ StaleFinishRef
  BY <1>0, <1>2 DEF StaleJudge, StaleFail, StaleWrite, StaleFree, StaleFinishRef, Recovering
<1>3. ASSUME UNCHANGED <<run, mgr>>, loop'.pc \in {"retry", "orphan", "idle"},
             \A e \in Execs : row'[e] = row[e] \/ (row[e].status # "running" /\ row'[e].status = "queued")
      PROVE  FailuresInStep'
  <2>1. LoopFlushes'
    BY <1>3 DEF LoopFlushes, Recovering
  <2> QED
    BY <1>0, <1>3, <2>1, IdleFailures DEF Idle
<1>4. CASE (\E e \in Execs : TakeRow(e)) \/ FlushHandled
  <2>1. loop'.pc \in {"retry", "orphan", "idle"}
    <3>1. LoopIdle.pc = "idle" /\ \A p, e, o : [LoopIdle EXCEPT !.pc = p, !.exec = e, !.obj = o].pc = p
      BY DEF LoopIdle
    <3>2. ASSUME NEW e \in Execs, TakeRow(e)
          PROVE  \E p \in {"retry", "orphan"} : loop' = [LoopIdle EXCEPT !.pc = p, !.exec = e, !.obj = row[e]]
      BY <3>2, Zenon DEF TakeRow
    <3>3. CASE \E e \in Execs : TakeRow(e)
      <4>1. PICK e \in Execs, p \in {"retry", "orphan"} :
              loop' = [LoopIdle EXCEPT !.pc = p, !.exec = e, !.obj = row[e]]
        BY <3>2, <3>3
      <4>2. loop'.pc = p
        BY <3>1, <4>1
      <4> QED
        BY <4>2
    <3>4. CASE FlushHandled
      BY <3>1, <3>4 DEF FlushHandled
    <3> QED
      BY <1>4, <3>3, <3>4
  <2>2. UNCHANGED <<run, mgr>> /\ row' = row
    BY <1>4 DEF TakeRow, FlushHandled
  <2> QED
    BY <1>3, <2>1, <2>2
<1>5. CASE LoopRequeue
  <2> DEFINE q == Requeued(loop.obj, FALSE)
             n == IF loop.pc = "retry" THEN [q EXCEPT !.due = FALSE] ELSE q
  <2>1. n \in RowType /\ n.status = "queued"
    BY <1>0, RequeuedFields DEF RowType
  <2>2. /\ UNCHANGED <<run, mgr>> /\ loop'.pc = "idle"
        /\ row' = row \/ (RequeueRow(loop.exec, n) /\ row[loop.exec].status # "running")
    BY <1>0, <1>5 DEF LoopRequeue, LoopIdle, Requeueable, LoopCurrent
  <2> HIDE DEF n
  <2>3. \A e \in Execs : row'[e] = row[e] \/ (row[e].status # "running" /\ row'[e].status = "queued")
    BY <1>0, <2>1, <2>2, RequeueFields
  <2> QED
    BY <1>3, <2>2, <2>3
<1> QED
  BY <1>1, <1>2, <1>4, <1>5, ClaimFailures, FlushFailures DEF LoopStep

(* Requests call executions off, or queue what has failed again.           *)
LEMMA RequestFailures ==
  ASSUME InOrder, MovesOn, FailuresInStep, "view" \notin Ops, NEW q \in Reqs, AskStep(q) \/ RequestStep(q)
  PROVE  FailuresInStep'
<1> DEFINE e == req[q].exec
           o == req[q].obj
<1> USE DEF storeVars, queueVars, runVars
<1>0. TypeOK /\ StoreTypeOK /\ e \in Execs /\ o \in RowType
  BY ReqViewTypes DEF InOrder, TypeOK
<1>1. mgr' = mgr /\ loop' = loop
  BY RequestsWhileUp
<1>2. LoopFlushes'
  BY <1>0, <1>1, LoopFlushesStill DEF FailuresInStep, LoopFlushes
<1>3. \A x \in Runs : Idle(x)
  <2>1. run' = run \/ \E S : run' = Signalled(S)
    BY DEF AskStep, AskCancel, AskDelete, AskRetry, AskResume, AskDrop, PauseQueue, View, Ask,
           RequestStep, CancelWrite, CancelStop, CancelFree, DeleteExecution, DropNext, DropScheduler,
           PersonRequeue
  <2> QED
    BY <1>0, <2>1, RunsIdle DEF TypeOK
<1>4. ASSUME \A x \in Execs : \/ row'[x] = row[x]
                              \/ CalledOff(x)'
                              \/ row[x].status # "running" /\ row'[x].status = "queued"
      PROVE  FailuresInStep'
  BY <1>0, <1>1, <1>2, <1>3, <1>4, IdleFailures
<1>5. CASE row' = row
  BY <1>4, <1>5
<1>6. ASSUME NEW x \in Execs, View(q, x)
      PROVE  FALSE
  BY <1>6 DEF View, Asked
<1>7. CASE CancelWrite(q)
  <2>1. CancelRow(e) \/ row' = row
    BY <1>7 DEF CancelWrite
  <2>2. CASE CancelRow(e)
    BY <1>0, <1>4, <2>2, CancelFields DEF CalledOff
  <2> QED
    BY <1>5, <2>1, <2>2
<1>8. CASE DeleteExecution(q) \/ DropScheduler(q)
  <2>1. PICK S : DeleteRows(S)
    BY <1>8 DEF DeleteExecution, DropScheduler
  <2> QED
    BY <1>0, <1>4, <2>1, DeleteFields DEF CalledOff, NoRow
<1>9. CASE PersonRequeue(q)
  <2> DEFINE n == SentAgain(o, req[q].op)
  <2>1. row' = row \/ (RequeueRow(e, n) /\ row[e].status = "failed")
    BY <1>9 DEF PersonRequeue, SentAgain, Requeueable
  <2>2. n \in RowType /\ n.status = "queued"
    BY <1>0, SentAgainFields
  <2> HIDE DEF n
  <2>3. \A x \in Execs : row'[x] = row[x] \/ (row[x].status # "running" /\ row'[x].status = "queued")
    BY <1>0, <2>1, <2>2, RequeueFields
  <2> QED
    BY <1>4, <2>3
<1> QED
  BY <1>5, <1>6, <1>7, <1>8, <1>9
  DEF AskStep, AskCancel, AskDelete, AskRetry, AskResume, AskDrop, PauseQueue, Ask,
      RequestStep, CancelStop, CancelFree, FinishRefRow, DropNext

(* Every step keeps failures in step.                                      *)
LEMMA NextFailures ==
  ASSUME InOrder, TypeOK', RefsInStep, RefsInStep', RetriesInStep, FailuresInStep, Faults \subseteq {"save"},
         "view" \notin Ops, [Next]_vars
  PROVE  FailuresInStep'
<1> USE DEF storeVars, queueVars, runVars
<1>0. /\ TypeOK /\ ViewsCurrent /\ FencesHold /\ OwnersInStep /\ MovesOn /\ StoreTypeOK /\ mgr = "up"
      /\ row \in [Execs -> RowType]
  BY NextCurrent DEF InOrder, WorkInOrder, AllCurrent, RunsStayCurrent, TypeOK, StoreTypeOK, FailuresInStep
<1>1. ASSUME UNCHANGED <<run, mgr, loop>>,
             \A e \in Execs : \/ row'[e] = row[e]
                              \/ CalledOff(e)'
                              \/ row[e].status # "running" /\ row'[e].status = "queued"
      PROVE  FailuresInStep'
  <2>1. LoopFlushes'
    BY <1>0, <1>1, LoopFlushesStill DEF FailuresInStep, LoopFlushes
  <2> QED
    BY <1>0, <1>1, <2>1, IdleFailures DEF Idle
<1>2. ASSUME NEW e \in Execs, Create(e)
      PROVE  FailuresInStep'
  <2>1. /\ row[e].status = "new" /\ row'[e].status = "queued"
        /\ \A x \in Execs \ {e} : row'[x] = row[x]
    BY <1>0, <1>2, CreateFields DEF Create
  <2>2. UNCHANGED <<run, mgr, loop>>
    BY <1>2 DEF Create, managerVars
  <2> QED
    BY <1>1, <2>1, <2>2
<1>3. ASSUME NEW e \in Execs, Expire(e)
      PROVE  FailuresInStep'
  <2>1. row'[e].status = "cancelled" /\ \A x \in Execs \ {e} : row'[x] = row[x]
    BY <1>0, <1>3, CancelFields DEF Expire
  <2>2. UNCHANGED <<run, mgr, loop>>
    BY <1>3 DEF Expire, managerVars
  <2> QED
    BY <1>1, <2>1, <2>2 DEF CalledOff
<1>4. ASSUME NEW r \in Runs, RunProgress(r)
      PROVE  FailuresInStep'
  <2>1. UNCHANGED <<mgr, loop, claims>> /\ RunStep(r)
    BY <1>4 DEF RunProgress, RunStep, ReadScheduler, DispatchFails, StartSession, Register, Check,
                  Open, StartEffect, WorkEnds, EndWork, Interrupted, AbsoluteTimeout, GuardTimeout, GuardCancel,
                  LateWorkEnds, Save, Reread, Fail, FailWrite, InterruptRead, InterruptJudge,
                  InterruptRequeue, Release, FinishRef, Judge, Settle, managerVars
  <2>2. Alone(r)
    BY <1>0, <2>1, RunStepFenced
  <2> QED
    BY <1>0, <2>1, <2>2, RunFailures
<1>5. ASSUME NEW r \in Runs, FailSave(r)
      PROVE  FailuresInStep'
  <2>1. SaveFails(r, FALSE) /\ UNCHANGED <<mgr, loop>>
    BY <1>5 DEF FailSave, Fault
  <2> QED
    BY <1>0, <2>1, FailSaveFailures
<1>6. CASE LoopStep
  BY <1>0, <1>6, LoopFailures
<1>7. ASSUME NEW q \in Reqs, AskStep(q) \/ RequestStep(q)
      PROVE  FailuresInStep'
  BY <1>0, <1>7, RequestFailures
<1>8. CASE ResumeQueue \/ UNCHANGED vars
  BY <1>1, <1>8 DEF ResumeQueue, vars, managerVars
<1>9. /\ ~Stop /\ ~Crash /\ ~Quit /\ ~Start /\ ~Started
      /\ \A e \in Execs : ~LoseClaim(e) /\ ~SettleOrphan(e) /\ ~RefOrphan(e)
  BY <1>0 DEF Stop, Crash, Quit, Start, Started, LoseClaim, SettleOrphan, RefOrphan, Fault
<1> QED
  BY <1>2, <1>3, <1>4, <1>5, <1>6, <1>7, <1>8, <1>9 DEF Next

(* At the start nothing has failed.                                        *)
LEMMA InitFailures == Init => FailuresInStep
BY DEF Init, StoreInit, RunsInit, NoRow, NewRun, LoopIdle, FailuresInStep, Recovering, FailsToSettle,
       RunningIsKept, Settled

(* Every failure is handled, whatever people ask for but looking, and      *)
(* whichever results wait to be saved: a failed execution nobody is busy   *)
(* with has a retry coming, is held for a person, or has used its retries  *)
(* up.                                                                     *)
THEOREM FailuresAreHandled ==
  ASSUME Faults \subseteq {"save"}, "view" \notin Ops
  PROVE  Spec => []FailuresInStep /\ []FailureHandled
<1>1. InOrder /\ TypeOK' /\ RefsInStep /\ RefsInStep' /\ RetriesInStep /\ FailuresInStep /\ [Next]_vars
        => FailuresInStep'
  BY NextFailures
<1>2. InOrder => TypeOK
  BY DEF InOrder
<1>3. "suspend" \notin Faults
  OBVIOUS
<1>4. ASSUME FailuresInStep, NEW e \in Execs, row[e].status = "failed", ~Busy(e)
      PROVE  row[e].due \/ row[e].held \/ row[e].count >= MaxRetries
  <2>1. \A r \in Runs : Handling(r) => Live(r)
    BY DEF Handling, Settling, Live
  <2> QED
    BY <1>4, <2>1 DEF FailuresInStep, Settled, Busy
<1>5. FailuresInStep => FailureHandled
  BY <1>4 DEF FailureHandled
<1> QED
  BY <1>1, <1>2, <1>3, <1>5, StaysInOrder, RefsStay, RetriesStayInStep, InitFailures, PTL DEF Spec
=============================================================================
