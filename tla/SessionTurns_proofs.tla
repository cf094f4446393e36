------------------------- MODULE SessionTurns_proofs -------------------------
(***************************************************************************)
(* Proofs about the turns of a session, for any turns, wakes, crashes and  *)
(* prompts that cannot be dispatched: one execution at a time, receipts    *)
(* that say what became of their turn, a queue somebody drains.            *)
(***************************************************************************)
EXTENDS SessionTurns, SequenceTheorems, TLAPS

-----------------------------------------------------------------------------
(* Sequences without repetition: what taking out, appending and putting in *)
(* front do to them.                                                       *)
LEMMA RemoveAtIs ==
  ASSUME NEW S, NEW s \in Seq(S), NEW i \in 1..Len(s)
  PROVE  /\ RemoveAt(s, i) \in Seq(S)
         /\ Len(RemoveAt(s, i)) = Len(s) - 1
         /\ \A j \in 1..Len(s) - 1 : RemoveAt(s, i)[j] = IF j < i THEN s[j] ELSE s[j + 1]
<1> DEFINE a == SubSeq(s, 1, i - 1)
           b == SubSeq(s, i + 1, Len(s))
<1>0. Len(s) \in Nat /\ \A j \in 1..Len(s) : s[j] \in S
  BY LenProperties
<1>1. a \in Seq(S) /\ Len(a) = i - 1 /\ \A j \in 1..i - 1 : a[j] = s[j]
  <2>1. \A j \in 1..i - 1 : s[j] \in S
    BY <1>0
  <2> QED
    BY <1>0, <2>1, SubSeqProperties
<1>2. b \in Seq(S) /\ Len(b) = Len(s) - i /\ \A j \in 1..Len(s) - i : b[j] = s[i + j]
  <2>1. \A j \in i + 1..Len(s) : s[j] \in S
    BY <1>0
  <2>2. /\ b \in Seq(S)
        /\ Len(b) = IF i + 1 <= Len(s) THEN Len(s) - (i + 1) + 1 ELSE 0
        /\ \A j \in 1..Len(s) - (i + 1) + 1 : b[j] = s[(i + 1) + j - 1]
    BY <1>0, <2>1, SubSeqProperties
  <2> QED
    BY <1>0, <2>2
<1> HIDE DEF a, b
<1>3. a \o b \in Seq(S) /\ Len(a \o b) = Len(a) + Len(b)
      /\ \A j \in 1..Len(a) + Len(b) : (a \o b)[j] = IF j <= Len(a) THEN a[j] ELSE b[j - Len(a)]
  BY <1>1, <1>2, ConcatProperties
<1>4. RemoveAt(s, i) = a \o b
  BY DEF RemoveAt, a, b
<1>5. Len(a) + Len(b) = Len(s) - 1
  BY <1>0, <1>1, <1>2
<1>6. ASSUME NEW j \in 1..Len(s) - 1 PROVE (a \o b)[j] = IF j < i THEN s[j] ELSE s[j + 1]
  <2>1. (a \o b)[j] = IF j <= i - 1 THEN a[j] ELSE b[j - (i - 1)]
    BY <1>1, <1>3, <1>5
  <2>2. CASE j < i
    BY <1>0, <1>1, <2>1, <2>2
  <2>3. CASE ~(j < i)
    <3>1. j - (i - 1) \in 1..Len(s) - i /\ i + (j - (i - 1)) = j + 1
      BY <1>0, <2>3
    <3> QED
      BY <1>0, <1>2, <2>1, <2>3, <3>1
  <2> QED
    BY <2>2, <2>3
<1> QED
  BY <1>3, <1>4, <1>5, <1>6

LEMMA RemoveAtOnce ==
  ASSUME NEW S, NEW s \in Seq(S), NEW i \in 1..Len(s), IsInjective(s)
  PROVE  IsInjective(RemoveAt(s, i)) /\ Range(RemoveAt(s, i)) = Range(s) \ {s[i]}
<1> DEFINE t == RemoveAt(s, i)
<1>1. /\ t \in Seq(S) /\ Len(t) = Len(s) - 1 /\ Len(s) \in Nat
      /\ \A j \in 1..Len(s) - 1 : t[j] = IF j < i THEN s[j] ELSE s[j + 1]
      /\ DOMAIN t = 1..Len(s) - 1 /\ DOMAIN s = 1..Len(s)
  BY RemoveAtIs, LenProperties
<1> HIDE DEF t
<1>2. \A j, k \in 1..Len(s) : s[j] = s[k] => j = k
  BY <1>1 DEF IsInjective
<1>3. IsInjective(t)
  BY <1>1, <1>2 DEF IsInjective
<1>4. ASSUME NEW x \in Range(t) PROVE x \in Range(s) \ {s[i]}
  BY <1>1, <1>2, <1>4 DEF Range
<1>5. ASSUME NEW x \in Range(s) \ {s[i]} PROVE x \in Range(t)
  <2>1. PICK j \in 1..Len(s) : x = s[j] /\ j # i
    BY <1>1 DEF Range
  <2>2. CASE j < i
    BY <1>1, <2>1, <2>2 DEF Range
  <2>3. CASE j > i
    <3>1. j - 1 \in 1..Len(s) - 1 /\ ~(j - 1 < i) /\ (j - 1) + 1 = j
      BY <1>1, <2>1, <2>3
    <3> QED
      BY <1>1, <2>1, <3>1 DEF Range
  <2> QED
    BY <1>1, <2>1, <2>2, <2>3
<1> QED
  BY <1>3, <1>4, <1>5 DEF t

LEMMA ToFrontOnce ==
  ASSUME NEW S, NEW s \in Seq(S), NEW i \in 1..Len(s), IsInjective(s)
  PROVE  LET t == <<s[i]>> \o RemoveAt(s, i)
         IN t \in Seq(S) /\ Len(t) = Len(s) /\ IsInjective(t) /\ Range(t) = Range(s)
<1> DEFINE u == RemoveAt(s, i)
           t == <<s[i]>> \o u
<1>1. /\ u \in Seq(S) /\ Len(u) = Len(s) - 1 /\ Len(s) \in Nat /\ s[i] \in S /\ s[i] \in Range(s)
      /\ IsInjective(u) /\ Range(u) = Range(s) \ {s[i]} /\ DOMAIN u = 1..Len(u)
  BY RemoveAtIs, RemoveAtOnce, LenProperties DEF Range
<1> HIDE DEF u
<1>2. <<s[i]>> \in Seq(S) /\ Len(<<s[i]>>) = 1 /\ <<s[i]>>[1] = s[i]
  BY <1>1
<1>3. /\ t \in Seq(S) /\ Len(t) = Len(s) /\ DOMAIN t = 1..Len(s)
      /\ \A j \in 1..Len(s) : t[j] = IF j <= 1 THEN <<s[i]>>[j] ELSE u[j - 1]
  BY <1>1, <1>2, ConcatProperties, LenProperties
<1>4. Range(t) = Range(<<s[i]>>) \cup Range(u)
  BY <1>1, <1>2, RangeConcatenation
<1>5. Range(<<s[i]>>) = {s[i]}
  BY <1>2 DEF Range
<1> HIDE DEF t
<1>6. t[1] = s[i] /\ \A j \in 2..Len(s) : t[j] = u[j - 1] /\ j - 1 \in DOMAIN u
  <2>1. 1 \in 1..Len(s) /\ 1 <= 1
    BY <1>1
  <2>2. t[1] = s[i]
    BY <1>2, <1>3, <2>1
  <2>3. SUFFICES ASSUME NEW j \in 2..Len(s) PROVE t[j] = u[j - 1] /\ j - 1 \in DOMAIN u
    BY <2>2
  <2>4. j \in 1..Len(s) /\ ~(j <= 1) /\ j - 1 \in 1..Len(u)
    BY <1>1
  <2>5. t[j] = u[j - 1]
    BY <1>3, <2>4
  <2> QED
    BY <1>1, <2>4, <2>5
<1>7. \A j \in 2..Len(s) : t[j] # s[i]
  BY <1>1, <1>6 DEF Range
<1>8. IsInjective(t)
  <2>0. \A j \in 1..Len(s) : j = 1 \/ j \in 2..Len(s)
    BY <1>1
  <2>1. SUFFICES ASSUME NEW j \in 1..Len(s), NEW k \in 1..Len(s), t[j] = t[k] PROVE j = k
    BY <1>3 DEF IsInjective
  <2>2. CASE j = 1 \/ k = 1
    BY <1>6, <1>7, <2>0, <2>1, <2>2
  <2>3. CASE j # 1 /\ k # 1
    <3>1. j \in 2..Len(s) /\ k \in 2..Len(s)
      BY <2>0, <2>3
    <3>2. u[j - 1] = u[k - 1] /\ j - 1 \in DOMAIN u /\ k - 1 \in DOMAIN u
      BY <1>6, <2>1, <3>1
    <3>3. j - 1 = k - 1
      BY <1>1, <3>2 DEF IsInjective
    <3> QED
      BY <1>1, <3>3
  <2> QED
    BY <2>2, <2>3
<1> QED
  BY <1>1, <1>3, <1>4, <1>5, <1>8 DEF t, u

LEMMA AppendOnce ==
  ASSUME NEW S, NEW s \in Seq(S), NEW x \in S
  PROVE  /\ Range(Append(s, x)) = Range(s) \cup {x}
         /\ IsInjective(s) /\ x \notin Range(s) => IsInjective(Append(s, x))
<1> DEFINE t == Append(s, x)
<1>1. /\ t \in Seq(S) /\ Len(t) = Len(s) + 1 /\ Len(s) \in Nat
      /\ \A j \in 1..Len(s) : t[j] = s[j]
      /\ t[Len(s) + 1] = x
      /\ DOMAIN t = 1..Len(s) + 1 /\ DOMAIN s = 1..Len(s)
  BY AppendProperties, LenProperties
<1> HIDE DEF t
<1>2. Range(t) = Range(s) \cup {x}
  BY <1>1 DEF Range
<1>3. IsInjective(s) /\ x \notin Range(s) => IsInjective(t)
  BY <1>1 DEF IsInjective, Range
<1> QED
  BY <1>2, <1>3 DEF t

LEMMA TailOnce ==
  ASSUME NEW S, NEW s \in Seq(S), s # <<>>, IsInjective(s)
  PROVE  /\ Head(s) \in S /\ Head(s) \in Range(s) /\ Tail(s) \in Seq(S) /\ Len(Tail(s)) = Len(s) - 1
         /\ IsInjective(Tail(s)) /\ Range(Tail(s)) = Range(s) \ {Head(s)}
<1> DEFINE t == Tail(s)
<1>1. /\ t \in Seq(S) /\ Len(t) = Len(s) - 1 /\ Len(s) \in Nat \ {0}
      /\ \A j \in 1..Len(s) - 1 : t[j] = s[j + 1]
      /\ DOMAIN t = 1..Len(s) - 1 /\ DOMAIN s = 1..Len(s) /\ Head(s) = s[1] /\ s[1] \in S
  BY HeadTailProperties, LenProperties, EmptySeq
<1> HIDE DEF t
<1>2. IsInjective(t)
  <2>1. \A j \in DOMAIN t : j \in Nat /\ j + 1 \in DOMAIN s /\ t[j] = s[j + 1]
    BY <1>1
  <2>2. SUFFICES ASSUME NEW j \in DOMAIN t, NEW k \in DOMAIN t, t[j] = t[k] PROVE j = k
    BY DEF IsInjective
  <2>3. j + 1 = k + 1
    BY <2>1, <2>2 DEF IsInjective
  <2> QED
    BY <2>1, <2>3
<1>3. ASSUME NEW x \in Range(s) \ {s[1]} PROVE x \in Range(t)
  <2>1. PICK j \in 2..Len(s) : x = s[j]
    BY <1>1 DEF Range
  <2>2. j - 1 \in 1..Len(s) - 1 /\ (j - 1) + 1 = j
    BY <1>1
  <2> QED
    BY <1>1, <2>1, <2>2 DEF Range
<1>4. ASSUME NEW x \in Range(t) PROVE x \in Range(s) \ {s[1]}
  <2>1. PICK j \in 1..Len(s) - 1 : x = t[j]
    BY <1>1 DEF Range
  <2>2. j + 1 \in 1..Len(s) /\ j + 1 # 1 /\ x = s[j + 1] /\ 1 \in 1..Len(s)
    BY <1>1, <2>1
  <2> QED
    BY <1>1, <2>2 DEF Range, IsInjective
<1>5. s[1] \in Range(s)
  BY <1>1 DEF Range
<1> QED
  BY <1>1, <1>2, <1>3, <1>4, <1>5 DEF t

-----------------------------------------------------------------------------
(* Who executes the session: as in AgentInbox_proofs, a call past the lease *)
(* holds it, and past its registration it is the one that is registered.   *)
(* The prompt's call is one of the holder of the prompt lock.              *)
Holding == {"preparing", "running", "closing", "popped"}
Calls ==
  /\ \A r \in Runners : /\ phase[r] \in Holding <=> lease = r
                        /\ phase[r] \in {"running", "closing"} <=> active = r
  /\ phase["prompt"] # "off" => stage = "run"

(* Where the turns are.  The line at the prompt lock holds each turn once; *)
(* a turn is in one place only, and where it could still be run it neither *)
(* has an end nor, before it is asked, a message in the history.           *)
Unsent      == {"new", "queueing", "starting", "enqueueing"}
InLine(t)   == \E i \in DOMAIN line : line[i] = t
LineWaits(t) == \E i \in DOMAIN line : line[i] = t /\ (stage = "idle" \/ i > 1)
LineOnce    == \A i, j \in DOMAIN line : line[i] = line[j] /\ line[i] # Drainer => i = j

Placed(t) ==
  /\ req[t] \in Unsent =>
       /\ ~InLine(t) /\ cur # t /\ t \notin Range(queue) \cup removing \cup asked
       /\ rec[t] = IF req[t] = "enqueueing" THEN "queued" ELSE "none"
  /\ t \in Range(queue) => ~InLine(t) /\ cur # t /\ t \notin removing \cup asked
  /\ InLine(t) => t \notin removing
  /\ LineWaits(t) => cur # t /\ t \notin asked
  /\ t \in removing => cur # t /\ t \notin asked
  /\ cur = t /\ stage \in {"got", "dispatch"} => t \notin asked
  /\ t \in Range(queue) \/ cur = t \/ LineWaits(t) => rec[t] \notin Ended
  /\ rec[t] = "removed" => t \notin asked

(* A receipt of a turn in the queue is kept fresh, by the keeper or because *)
(* its request has not started one yet.                                    *)
Kept(t) ==
  /\ t \in Range(queue) \/ (cur = t /\ stage # "got") => t \notin stale
  /\ t \in Range(queue) => keeper \/ req[t] = "enqueued"
  /\ req[t] \in Unsent => t \notin stale

Places  == LineOnce /\ \A t \in Turns : Placed(t)
TurnsInv == TypeOK /\ Calls /\ Places /\ (\A t \in Turns : Kept(t)) /\ SomebodyDrains

-----------------------------------------------------------------------------
(* At first no turn was sent.                                              *)
LEMMA InitTurns == Init => TurnsInv
<1> SUFFICES ASSUME Init PROVE TurnsInv
  OBVIOUS
<1> USE DEF Init, LoopInit
<1>1. LoopTypeOK
  BY DEF LoopTypeOK, Phases, Results, Runners, NoRunner
<1>2. TypeOK
  <2>1. <<>> \in Seq(Turns) /\ <<>> \in Seq(Turns \cup {Drainer}) /\ Len(<<>>) = 0 /\ IsInjective(<<>>)
    BY EmptySeq DEF IsInjective
  <2>2. MaxQueue \in Nat
    BY TurnsAssumption
  <2>3. Len(queue) <= MaxQueue /\ queue \in Seq(Turns) /\ IsInjective(queue)
    BY <2>1, <2>2
  <2>4. /\ req \in [Turns -> {"new", "queueing", "starting", "enqueueing", "enqueued", "over"}]
        /\ rec \in [Turns -> {"none", "accepted", "queued", "running"} \cup Ended]
    OBVIOUS
  <2>5. /\ stale \subseteq Turns /\ removing \subseteq Turns
        /\ keeper \in BOOLEAN /\ chain \in BOOLEAN /\ stepping \in BOOLEAN
        /\ line \in Seq(Turns \cup {Drainer})
        /\ stage \in {"idle", "drain", "got", "dispatch", "run", "handed"}
    BY <2>1
  <2>6. /\ cur \in Turns \cup {NoTurn} /\ (cur = NoTurn <=> stage \in {"idle", "drain"})
        /\ (stage # "idle" => line # <<>>)
        /\ asked \subseteq Turns /\ answered \subseteq asked /\ taken \subseteq asked
        /\ runNow \in {"none", "promoted", "aborted"}
        /\ felled \in BOOLEAN
    OBVIOUS
  <2>7. {wakes, crashes, runNows, broken} \subseteq Nat
    OBVIOUS
  <2> QED
    BY <1>1, <2>3, <2>4, <2>5, <2>6, <2>7 DEF TypeOK
<1>3. Calls
  BY DEF Calls, Holding, Runners, NoRunner
<1>4. Places /\ \A t \in Turns : Kept(t)
  <2>1. Range(queue) = {} /\ DOMAIN line = {}
    BY DEF Range
  <2>2. \A t \in Turns : t # NoTurn
    BY NamesAssumption
  <2> QED
    BY <2>1, <2>2 DEF Places, LineOnce, Placed, Kept, InLine, LineWaits, Unsent, Ended
<1> QED
  BY <1>2, <1>3, <1>4 DEF TurnsInv, SomebodyDrains

(* What a step does to the calls: it goes on with one of them.             *)
LEMMA CallKeepsCalls ==
  ASSUME TypeOK, Calls, NEW r \in Runners, CallStep(r)
  PROVE  Calls' /\ LoopTypeOK'
<1> USE DEF Goto, Holding, Phases, Results
<1>0. /\ NoRunner \notin Runners /\ Runners = {"prompt", "wake", "job"} /\ LoopTypeOK
      /\ phase \in [Runners -> Phases]
  BY DEF NoRunner, Runners, TypeOK, LoopTypeOK
<1>1. CASE Begin(r)
  <2>1. stage' = stage
    BY <1>1 DEF Begin, turnVars, lockVars
  <2>2. CASE Enter(r)
    BY <1>0, <2>1, <2>2 DEF Enter, MayEnter, Calls, LoopTypeOK
  <2>3. CASE Refuse(r)
    BY <1>0, <2>1, <2>3 DEF Refuse, Returns, Calls, LoopTypeOK
  <2>4. CASE Register(r)
    <3>1. CASE IsRunning
      BY <1>0, <2>1, <2>4, <3>1 DEF Register, Returns, Calls, LoopTypeOK
    <3>2. CASE ~IsRunning
      <4>1. /\ phase[r] = "preparing" /\ active = NoRunner /\ active' = r /\ aborting' = FALSE
            /\ phase' = [phase EXCEPT ![r] = "running"] /\ UNCHANGED <<lease, doomed, result>>
        BY <2>4, <3>2 DEF Register, IsRunning
      <4>2. LoopTypeOK'
        BY <1>0, <4>1 DEF LoopTypeOK
      <4> QED
        BY <1>0, <2>1, <4>1, <4>2 DEF Calls
    <3> QED
      BY <3>1, <3>2
  <2> QED
    BY <1>1, <2>2, <2>3, <2>4 DEF Begin
<1>2. CASE HandOff(r)
  BY <1>0, <1>2 DEF HandOff, execVars, Calls, LoopTypeOK
<1>3. CASE ExecutionEnds(r)
  <2>1. /\ phase[r] = "closing" /\ phase' = [phase EXCEPT ![r] = "popped"]
        /\ active' = NoRunner /\ aborting' = FALSE /\ lease' = lease /\ doomed' = doomed
        /\ result' = result /\ stage' = stage
    BY <1>3 DEF ExecutionEnds, Unregister
  <2>2. LoopTypeOK'
    BY <1>0, <2>1 DEF LoopTypeOK
  <2>3. phase'[r] = "popped" /\ \A x \in Runners \ {r} : phase'[x] = phase[x]
    BY <1>0, <2>1 DEF LoopTypeOK
  <2>4. active = r
    BY <2>1 DEF Calls
  <2> QED
    BY <1>0, <2>1, <2>2, <2>3, <2>4 DEF Calls
<1>4. CASE Release(r)
  BY <1>0, <1>4 DEF Release, turnVars, lockVars, Calls, LoopTypeOK
<1> QED
  BY <1>1, <1>2, <1>3, <1>4 DEF CallStep

(* Everything else begins calls that were not going on, ends a run, or     *)
(* ends them all.                                                          *)
LEMMA OthersKeepCalls ==
  ASSUME TypeOK, Calls,
         \/ \E t \in Turns : Submit(t) \/ RefuseTurn(t) \/ RequestStep(t) \/ MarkRemoved(t) \/ Age(t)
         \/ \E i \in DOMAIN queue : TakeOut(i) \/ Promote(i)
         \/ TakeAllOut \/ RunStep \/ WorkerStep \/ DispatchFails \/ RunNowStep \/ StartWake
         \/ KeeperEnds \/ Crash
  PROVE  Calls' /\ LoopTypeOK'
<1> USE DEF Goto, Holding, Phases, Results
<1>0. /\ NoRunner \notin Runners /\ Runners = {"prompt", "wake", "job"} /\ LoopTypeOK
      /\ phase \in [Runners -> Phases]
  BY DEF NoRunner, Runners, TypeOK, LoopTypeOK
<1>1. ASSUME UNCHANGED <<loopVars, stage>> PROVE Calls' /\ LoopTypeOK'
  BY <1>0, <1>1 DEF loopVars, Calls, LoopTypeOK
<1>2. CASE \E t \in Turns : Submit(t) \/ RefuseTurn(t) \/ RequestStep(t) \/ MarkRemoved(t) \/ Age(t)
  BY <1>1, <1>2 DEF Submit, RefuseTurn, RequestStep, MarkRemoved, Age, lockVars, WriteQueued, WriteAccepted,
                    Enqueue, QueueKept
<1>3. CASE (\E i \in DOMAIN queue : TakeOut(i) \/ Promote(i)) \/ TakeAllOut \/ DrainForPromoted \/ KeeperEnds
  BY <1>1, <1>3 DEF TakeOut, Promote, TakeAllOut, DrainForPromoted, KeeperEnds, lockVars
<1>4. CASE AbortForPromoted
  BY <1>0, <1>4 DEF AbortForPromoted, lockVars, IsRunning, Calls, LoopTypeOK
<1>5. CASE StartWake
  BY <1>0, <1>5 DEF StartWake, execVars, lockVars, Calls, LoopTypeOK
<1>6. CASE RunStep
  <2>1. /\ UNCHANGED <<lease, active, aborting, doomed, result, stage>>
        /\ phase' = phase \/ (active \in Runners /\ phase[active] = "running"
                               /\ phase' = [phase EXCEPT ![active] = "closing"])
    BY <1>0, <1>6 DEF RunStep, StepBegins, StepEnds, execVars, lockVars, IsRunning, LoopTypeOK
  <2> QED
    BY <1>0, <2>1 DEF Calls, LoopTypeOK
<1>7. CASE Crash
  BY <1>0, <1>7 DEF Crash, Calls, LoopTypeOK
<1>8. CASE WorkerStep \/ DispatchFails
  <2>1. phase["prompt"] = "off" \/ stage = "run"
    BY DEF Calls
  <2>2. CASE Acquire \/ LeaveRest \/ PopNext \/ RunTurn \/ DispatchFails \/ WasAnswered \/ WasDropped
    BY <1>0, <2>1, <2>2 DEF Acquire, LeaveRest, PopNext, RunTurn, DispatchFails, WasAnswered, WasDropped,
       TurnEnds, WorkerEnds, loopVars, Calls, LoopTypeOK
  <2>3. CASE Ask
    BY <1>0, <2>1, <2>3 DEF Ask, execVars, Calls, LoopTypeOK
  <2>4. CASE RanHere
    BY <1>0, <2>4 DEF RanHere, TurnEnds, loopVars, Calls, LoopTypeOK
  <2> QED
    BY <1>8, <2>2, <2>3, <2>4 DEF WorkerStep
<1> QED
  BY <1>2, <1>3, <1>4, <1>5, <1>6, <1>7, <1>8 DEF RunNowStep

-----------------------------------------------------------------------------
(* The line.  A worker that comes is the last of it.                       *)
LEMMA LineGrows ==
  ASSUME TypeOK, NEW x \in Turns \cup {Drainer}, line' = Append(line, x), stage' = stage
  PROVE  /\ line' \in Seq(Turns \cup {Drainer}) /\ line' # <<>>
         /\ \A t \in Turns : /\ InLine(t)' <=> InLine(t) \/ t = x
                             /\ LineWaits(t)' => LineWaits(t) \/ t = x
         /\ LineOnce /\ (x = Drainer \/ ~InLine(x)) => LineOnce'
<1>1. /\ line \in Seq(Turns \cup {Drainer}) /\ line' \in Seq(Turns \cup {Drainer}) /\ line' # <<>>
      /\ Len(line') = Len(line) + 1 /\ Len(line) \in Nat /\ line'[Len(line) + 1] = x
      /\ \A i \in 1..Len(line) : line'[i] = line[i]
      /\ DOMAIN line = 1..Len(line) /\ DOMAIN line' = 1..Len(line) + 1
  BY AppendProperties, LenProperties DEF TypeOK
<1>2. \A i \in DOMAIN line' : (i \in DOMAIN line /\ line'[i] = line[i]) \/ (i = Len(line) + 1 /\ line'[i] = x)
  BY <1>1
<1>3. \A i \in DOMAIN line : i \in DOMAIN line' /\ line'[i] = line[i]
  BY <1>1
<1>4. Len(line) + 1 \in DOMAIN line'
  BY <1>1
<1>5. ASSUME NEW t \in Turns PROVE InLine(t)' <=> InLine(t) \/ t = x
  BY <1>1, <1>2, <1>3, <1>4 DEF InLine
<1>6. ASSUME NEW t \in Turns PROVE LineWaits(t)' => LineWaits(t) \/ t = x
  BY <1>1, <1>2 DEF LineWaits
<1>7. ASSUME LineOnce, x = Drainer \/ ~InLine(x) PROVE LineOnce'
  BY <1>1, <1>2, <1>7 DEF LineOnce, InLine
<1> QED
  BY <1>1, <1>5, <1>6, <1>7

(* The worker that ends was its first.                                     *)
LEMMA LineEnds ==
  ASSUME TypeOK, stage # "idle", line' = Tail(line), stage' = "idle"
  PROVE  /\ line' \in Seq(Turns \cup {Drainer})
         /\ \A t \in Turns : (InLine(t)' => LineWaits(t)) /\ (LineWaits(t)' => LineWaits(t))
         /\ LineOnce => LineOnce'
<1>1. /\ line \in Seq(Turns \cup {Drainer}) /\ line # <<>> /\ line' \in Seq(Turns \cup {Drainer})
      /\ Len(line') = Len(line) - 1 /\ Len(line) \in Nat \ {0}
      /\ \A i \in 1..Len(line') : line'[i] = line[i + 1]
      /\ DOMAIN line = 1..Len(line) /\ DOMAIN line' = 1..Len(line')
  BY HeadTailProperties, LenProperties, EmptySeq DEF TypeOK
<1>2. \A i \in DOMAIN line' : i \in Nat /\ i + 1 \in DOMAIN line /\ i + 1 > 1 /\ line'[i] = line[i + 1]
  BY <1>1
<1>3. ASSUME NEW t \in Turns PROVE (InLine(t)' => LineWaits(t)) /\ (LineWaits(t)' => LineWaits(t))
  BY <1>2 DEF InLine, LineWaits
<1>4. ASSUME LineOnce PROVE LineOnce'
  <2>1. SUFFICES ASSUME NEW i \in DOMAIN line', NEW j \in DOMAIN line', line'[i] = line'[j], line'[i] # Drainer
                 PROVE  i = j
    BY DEF LineOnce
  <2>2. i + 1 = j + 1
    BY <1>2, <1>4, <2>1 DEF LineOnce
  <2> QED
    BY <1>2, <2>1, <2>2
<1> QED
  BY <1>1, <1>3, <1>4

(* The first of it takes the lock.                                         *)
LEMMA LineTaken ==
  ASSUME TypeOK, stage = "idle", line # <<>>, line' = line, stage' # "idle"
  PROVE  /\ Holder \in Turns \cup {Drainer}
         /\ \A t \in Turns : /\ LineWaits(t)' => LineWaits(t)
                             /\ Holder = t => LineWaits(t)
                             /\ LineOnce /\ Holder = t => ~LineWaits(t)'
<1>1. /\ line \in Seq(Turns \cup {Drainer}) /\ Len(line) \in Nat \ {0}
      /\ DOMAIN line = 1..Len(line) /\ Head(line) = line[1] /\ 1 \in 1..Len(line)
      /\ line[1] \in Turns \cup {Drainer}
  BY EmptySeq, LenProperties DEF TypeOK
<1>2. ASSUME NEW t \in Turns, LineOnce, line[1] = t PROVE ~LineWaits(t)'
  BY <1>1, <1>2, NamesAssumption DEF LineOnce, LineWaits
<1> QED
  BY <1>1, <1>2 DEF Holder, LineWaits

-----------------------------------------------------------------------------
Rest == TypeOK /\ Places /\ (\A t \in Turns : Kept(t)) /\ SomebodyDrains

(* Turns that do not move.                                                 *)
LEMMA Unmoved ==
  ASSUME TurnsInv, LoopTypeOK', UNCHANGED <<req, rec, queue, keeper, removing, line, cur, asked>>,
         stage' = stage \/ (stage = "run" /\ stage' = "handed"),
         chain' \in BOOLEAN, stepping' \in BOOLEAN, felled' \in BOOLEAN, felled => felled',
         {wakes', crashes', runNows', broken'} \subseteq Nat,
         answered' \subseteq asked, taken' \subseteq asked,
         runNow' \in {"none", "promoted", "aborted"}, runNow # "none" => runNow' # "none",
         IsRunning => active' # NoRunner,
         stale' \subseteq Turns, \A t \in stale' : Kept(t) /\ t \notin stale =>
           t \notin Range(queue) /\ cur # t /\ req[t] \notin Unsent
  PROVE  Rest'
<1>1. TypeOK'
  BY DEF TurnsInv, TypeOK
<1>2. Places'
  <2>1. \A t \in Turns : Placed(t)
    BY DEF TurnsInv, Places
  <2>2. \A t \in Turns : (InLine(t)' <=> InLine(t)) /\ (LineWaits(t)' <=> LineWaits(t))
    BY DEF InLine, LineWaits
  <2>3. LineOnce'
    BY DEF TurnsInv, Places, LineOnce
  <2>4. \A t \in Turns : Placed(t)'
    BY <2>1, <2>2 DEF Placed
  <2> QED
    BY <2>3, <2>4 DEF Places
<1>3. ASSUME NEW t \in Turns PROVE Kept(t)'
  <2>1. Kept(t)
    BY DEF TurnsInv
  <2>2. cur = t => stage # "idle"
    BY NamesAssumption DEF TurnsInv, TypeOK
  <2> QED
    BY <2>1, <2>2 DEF Kept
<1>4. SomebodyDrains'
  BY DEF TurnsInv, SomebodyDrains, IsRunning
<1> QED
  BY <1>1, <1>2, <1>3, <1>4 DEF Rest

(* A call takes the lease, is refused, registers, hands its turn over or    *)
(* gives the lease back: no turn moves.                                    *)
LEMMA CallKeepsRest ==
  ASSUME TurnsInv, Calls', LoopTypeOK', NEW r \in Runners, Begin(r) \/ HandOff(r) \/ Release(r)
  PROVE  Rest'
<1>0. TypeOK /\ Calls /\ phase \in [Runners -> Phases]
  BY DEF TurnsInv, TypeOK, LoopTypeOK
<1>1. CASE Begin(r)
  <2>1. UNCHANGED turnVars /\ (IsRunning => active' # NoRunner)
    BY <1>1, <1>0 DEF Begin, Enter, Refuse, Register, IsRunning, Runners, NoRunner
  <2> QED
    BY <1>0, <2>1, Unmoved DEF turnVars, receiptVars, queueVars, lockVars, runVars, boundVars, TypeOK
<1>2. CASE HandOff(r)
  <2>1. stage' = stage \/ (stage = "run" /\ stage' = "handed")
    BY <1>0, <1>2 DEF HandOff, Calls
  <2>2. UNCHANGED <<execVars, req, receiptVars, queueVars, line, chain, cur, runVars, runNow, boundVars>>
    BY <1>2 DEF HandOff
  <2> QED
    BY <1>0, <2>1, <2>2, Unmoved DEF execVars, receiptVars, queueVars, lockVars, runVars, boundVars, TypeOK, IsRunning
<1>3. CASE Release(r)
  <2>1. UNCHANGED turnVars /\ active' = active
    BY <1>3 DEF Release
  <2> QED
    BY <1>0, <2>1, Unmoved DEF turnVars, receiptVars, queueVars, lockVars, runVars, boundVars, TypeOK, IsRunning
<1> QED
  BY <1>1, <1>2, <1>3

(* Nor does one when a wake starts, the model steps, or a receipt ages,    *)
(* which it only does if nothing holds its turn.                           *)
LEMMA StandingKeepsRest ==
  ASSUME TurnsInv, LoopTypeOK', StartWake \/ RunStep \/ AbortForPromoted \/ \E t \in Turns : Age(t)
  PROVE  Rest'
<1>0. TypeOK /\ LoopTypeOK
  BY DEF TurnsInv, TypeOK
<1>1. CASE StartWake
  BY <1>0, <1>1, Unmoved DEF StartWake, execVars, receiptVars, queueVars, lockVars, runVars, TypeOK, IsRunning
<1>2. CASE RunStep
  <2>1. /\ UNCHANGED <<execVars, req, receiptVars, queueVars, lockVars, asked, runNow, boundVars>>
        /\ stepping' \in BOOLEAN /\ answered' \subseteq asked /\ taken' \subseteq asked
    BY <1>0, <1>2 DEF RunStep, StepBegins, StepEnds, TypeOK
  <2> QED
    BY <1>0, <2>1, Unmoved DEF execVars, receiptVars, queueVars, lockVars, boundVars, TypeOK, IsRunning
<1>3. CASE AbortForPromoted
  BY <1>0, <1>3, Unmoved DEF AbortForPromoted, receiptVars, queueVars, lockVars, runVars, boundVars, TypeOK, IsRunning
<1>4. ASSUME NEW t \in Turns, Age(t) PROVE Rest'
  <2>1. /\ UNCHANGED <<loopVars, req, rec, queueVars, lockVars, runVars, runNow, boundVars>>
        /\ stale' = stale \cup {t} /\ ~KeptFresh(t) /\ ~Brief(t) /\ rec[t] # "none"
    BY <1>4 DEF Age
  <2>2. /\ cur # t
        /\ Kept(t) => t \notin Range(queue)
    BY <2>1 DEF Brief, KeptFresh, Kept
  <2>3. req[t] \in Unsent => rec[t] = "none" \/ req[t] = "enqueueing"
    BY DEF TurnsInv, Places, Placed
  <2>4. req[t] \notin Unsent
    BY <2>1, <2>3 DEF Brief
  <2> QED
    BY <1>0, <2>1, <2>2, <2>4, Unmoved DEF loopVars, queueVars, lockVars, runVars, boundVars, TypeOK, IsRunning
<1> QED
  BY <1>1, <1>2, <1>3, <1>4

(* What requests do with their turn.                                       *)
LEMMA RequestKeepsRest ==
  ASSUME TurnsInv, LoopTypeOK', NEW t \in Turns, Submit(t) \/ RefuseTurn(t) \/ RequestStep(t)
  PROVE  Rest'
<1>0. /\ TypeOK /\ LineOnce /\ \A x \in Turns : Placed(x) /\ Kept(x)
      /\ SomebodyDrains
      /\ t # Drainer /\ t # NoTurn
      /\ req \in [Turns -> {"new", "queueing", "starting", "enqueueing", "enqueued", "over"}]
      /\ rec \in [Turns -> {"none", "accepted", "queued", "running"} \cup Ended]
  BY NamesAssumption DEF TurnsInv, Places, TypeOK
<1> USE DEF receiptVars, queueVars, lockVars, runVars, boundVars, loopVars
<1>1. ASSUME UNCHANGED <<loopVars, queue, removing, stage, cur, asked, answered, taken, stepping>>,
             line' = line, chain' = chain, keeper' = keeper, runNow' = runNow, felled' = felled,
             {wakes', crashes', runNows', broken'} \subseteq Nat, stale' \subseteq stale,
             NEW s \in {"queueing", "starting", "enqueueing", "over"}, req' = [req EXCEPT ![t] = s], req[t] \in Unsent,
             \/ rec' = rec /\ (s = "over" \/ (s # "enqueueing" /\ req[t] # "enqueueing"))
             \/ s = "enqueueing" /\ rec' = [rec EXCEPT ![t] = "queued"]
             \/ s = "over" /\ rec' = [rec EXCEPT ![t] = "failed"]
      PROVE  Rest'
  <2>1. TypeOK'
    BY <1>0, <1>1 DEF TypeOK, Ended
  <2>2. \A x \in Turns : (InLine(x)' <=> InLine(x)) /\ (LineWaits(x)' <=> LineWaits(x))
    BY <1>1 DEF InLine, LineWaits
  <2>3. LineWaits(t) => InLine(t)
    BY DEF LineWaits, InLine
  <2>4. ASSUME NEW x \in Turns PROVE Placed(x)' /\ Kept(x)'
    <3>1. CASE x = t
      BY <1>0, <1>1, <2>2, <2>3, <3>1 DEF Placed, Kept, Unsent, Ended
    <3>2. CASE x # t
      <4>1. req'[x] = req[x] /\ rec'[x] = rec[x]
        BY <1>0, <1>1, <3>2
      <4> QED
        BY <1>0, <1>1, <2>2, <4>1 DEF Placed, Kept
    <3> QED
      BY <3>1, <3>2
  <2>5. LineOnce'
    BY <1>0, <1>1 DEF LineOnce
  <2>6. SomebodyDrains'
    <3>1. \A x \in Turns : req[x] = "enqueued" => req'[x] = "enqueued"
      BY <1>0, <1>1 DEF Unsent
    <3> QED
      BY <1>0, <1>1, <3>1 DEF SomebodyDrains, IsRunning
  <2> QED
    BY <2>1, <2>4, <2>5, <2>6 DEF Rest, Places
<1>2. CASE Submit(t) \/ RefuseTurn(t) \/ WriteQueued(t)
  BY <1>0, <1>1, <1>2 DEF Submit, RefuseTurn, WriteQueued, Unsent, TypeOK
<1>3. CASE WriteAccepted(t)
  <2>1. /\ req[t] = "starting" /\ req' = [req EXCEPT ![t] = "over"] /\ rec' = [rec EXCEPT ![t] = "accepted"]
        /\ line' = Append(line, t) /\ chain' = TRUE
        /\ UNCHANGED <<loopVars, stale, queueVars, stage, cur, runVars, runNow, boundVars>>
    BY <1>3 DEF WriteAccepted
  <2>2. /\ line' \in Seq(Turns \cup {Drainer}) /\ line' # <<>>
        /\ \A x \in Turns : /\ InLine(x)' <=> InLine(x) \/ x = t
                            /\ LineWaits(x)' => LineWaits(x) \/ x = t
        /\ LineOnce /\ (t = Drainer \/ ~InLine(t)) => LineOnce'
    BY <1>0, <2>1, LineGrows
  <2>3. TypeOK'
    BY <1>0, <2>1, <2>2 DEF TypeOK
  <2>4. ASSUME NEW x \in Turns PROVE Placed(x)' /\ Kept(x)'
    <3>1. CASE x = t
      BY <1>0, <2>1, <2>2, <3>1 DEF Placed, Kept, Unsent, Ended
    <3>2. CASE x # t
      <4>1. req'[x] = req[x] /\ rec'[x] = rec[x]
        BY <1>0, <2>1, <3>2
      <4> QED
        BY <1>0, <2>1, <2>2, <3>2, <4>1 DEF Placed, Kept
    <3> QED
      BY <3>1, <3>2
  <2>5. LineOnce'
    BY <1>0, <2>1, <2>2 DEF Placed, Unsent
  <2>6. SomebodyDrains'
    BY <2>2 DEF SomebodyDrains
  <2> QED
    BY <2>3, <2>4, <2>5, <2>6 DEF Rest, Places
<1>4. CASE Enqueue(t) /\ Len(queue) >= MaxQueue
  <2>1. rec[t] = "queued"
    BY <1>0, <1>4 DEF Enqueue, Placed, Unsent
  <2>2. rec' = [rec EXCEPT ![t] = "failed"] /\ stale' = stale \ {t}
    BY <1>4, <2>1 DEF Enqueue, Advance, Ended
  <2> QED
    BY <1>0, <1>1, <1>4, <2>2 DEF Enqueue, Unsent, TypeOK
<1>5. CASE Enqueue(t) /\ ~(Len(queue) >= MaxQueue)
  <2>1. /\ req[t] = "enqueueing" /\ req' = [req EXCEPT ![t] = "enqueued"] /\ queue' = Append(queue, t)
        /\ UNCHANGED <<loopVars, rec, stale, keeper, removing, lockVars, runVars, runNow, boundVars>>
    BY <1>5 DEF Enqueue
  <2>2. t \notin Range(queue) /\ rec[t] = "queued"
    BY <1>0, <2>1 DEF Placed, Unsent
  <2>3. /\ queue' \in Seq(Turns) /\ Len(queue') <= MaxQueue
        /\ IsInjective(queue') /\ Range(queue') = Range(queue) \cup {t}
    <3>1. queue \in Seq(Turns) /\ IsInjective(queue) /\ Len(queue) \in Nat /\ MaxQueue \in Nat
      BY <1>0, LenProperties, TurnsAssumption DEF TypeOK
    <3> QED
      BY <1>5, <2>1, <2>2, <3>1, AppendOnce, AppendProperties
  <2>4. TypeOK'
    BY <1>0, <2>1, <2>3 DEF TypeOK
  <2>5. \A x \in Turns : (InLine(x)' <=> InLine(x)) /\ (LineWaits(x)' <=> LineWaits(x))
    BY <2>1 DEF InLine, LineWaits
  <2>6. LineWaits(t) => InLine(t)
    BY DEF LineWaits, InLine
  <2>7. ASSUME NEW x \in Turns PROVE Placed(x)' /\ Kept(x)'
    <3>1. CASE x = t
      BY <1>0, <2>1, <2>2, <2>3, <2>5, <2>6, <3>1 DEF Placed, Kept, Unsent, Ended
    <3>2. CASE x # t
      <4>1. req'[x] = req[x] /\ rec'[x] = rec[x] /\ (x \in Range(queue') <=> x \in Range(queue))
        BY <1>0, <2>1, <2>3, <3>2
      <4> QED
        BY <1>0, <2>1, <2>5, <4>1 DEF Placed, Kept
    <3> QED
      BY <3>1, <3>2
  <2>8. LineOnce'
    BY <1>0, <2>1 DEF LineOnce
  <2>9. SomebodyDrains'
    <3>1. req'[t] = "enqueued"
      BY <1>0, <2>1
    <3> QED
      BY <3>1 DEF SomebodyDrains
  <2> QED
    BY <2>4, <2>7, <2>8, <2>9 DEF Rest, Places
<1>6. CASE QueueKept(t)
  <2>1. /\ req[t] = "enqueued" /\ req' = [req EXCEPT ![t] = "over"] /\ keeper' = TRUE
        /\ UNCHANGED <<loopVars, receiptVars, queue, removing, stage, cur, runVars, runNow, boundVars>>
        /\ IF IsRunning THEN UNCHANGED <<line, chain>> ELSE line' = Append(line, Drainer) /\ chain' = TRUE
    BY <1>6 DEF QueueKept, ScheduleDrain
  <2>2. /\ line' \in Seq(Turns \cup {Drainer}) /\ (IsRunning \/ line' # <<>>) /\ LineOnce'
        /\ (stage # "idle" => line' # <<>>) /\ chain' \in BOOLEAN
        /\ \A x \in Turns : (InLine(x)' <=> InLine(x)) /\ (LineWaits(x)' => LineWaits(x))
    <3>1. CASE IsRunning
      BY <1>0, <2>1, <3>1 DEF TypeOK, LineOnce, InLine, LineWaits
    <3>2. CASE ~IsRunning
      <4>1. \A x \in Turns : x # Drainer
        BY NamesAssumption
      <4> QED
        BY <1>0, <2>1, <3>2, <4>1, LineGrows
    <3> QED
      BY <3>1, <3>2
  <2>3. TypeOK'
    BY <1>0, <2>1, <2>2 DEF TypeOK
  <2>4. ASSUME NEW x \in Turns PROVE Placed(x)' /\ Kept(x)'
    <3>1. req'[x] = req[x] \/ (req[x] \notin Unsent /\ req'[x] \notin Unsent)
      BY <1>0, <2>1 DEF Unsent
    <3> QED
      BY <1>0, <2>1, <2>2, <3>1 DEF Placed, Kept
  <2>5. SomebodyDrains'
    BY <2>1, <2>2 DEF SomebodyDrains, IsRunning
  <2> QED
    BY <2>2, <2>3, <2>4, <2>5 DEF Rest, Places
<1> QED
  BY <1>2, <1>3, <1>4, <1>5, <1>6 DEF RequestStep

(* What people do with the queue: what leaves it waits to be marked.       *)
LEMMA QueueKeepsRest ==
  ASSUME TurnsInv, LoopTypeOK',
         \/ \E i \in DOMAIN queue : TakeOut(i) \/ Promote(i)
         \/ TakeAllOut \/ KeeperEnds \/ DrainForPromoted \/ \E t \in Turns : MarkRemoved(t)
  PROVE  Rest'
<1>0. /\ TypeOK /\ LineOnce /\ \A x \in Turns : Placed(x) /\ Kept(x)
      /\ SomebodyDrains
      /\ queue \in Seq(Turns) /\ IsInjective(queue) /\ Len(queue) \in Nat /\ Len(queue) <= MaxQueue /\ MaxQueue \in Nat
      /\ DOMAIN queue = 1..Len(queue) /\ Range(queue) \subseteq Turns
      /\ rec \in [Turns -> {"none", "accepted", "queued", "running"} \cup Ended]
  BY TurnsAssumption, LenProperties, RangeOfSeq DEF TurnsInv, Places, TypeOK
<1>a. \A x \in Turns : x # Drainer /\ x # NoTurn
  BY NamesAssumption
<1> USE DEF receiptVars, queueVars, lockVars, runVars, boundVars, loopVars
<1>1. ASSUME UNCHANGED <<loopVars, req, receiptVars, lockVars, runVars, broken, crashes, wakes, felled>>,
             queue' \in Seq(Turns), IsInjective(queue'), Len(queue') <= MaxQueue,
             Range(queue') \subseteq Range(queue),
             removing' \subseteq removing \cup (Range(queue) \ Range(queue')),
             keeper' \in BOOLEAN, keeper => keeper' \/ Range(queue') = {},
             queue' # <<>> => queue # <<>>,
             runNow' \in {"none", "promoted", "aborted"}, runNow # "none" => runNow' # "none", runNows' \in Nat
      PROVE  Rest'
  <2>1. TypeOK'
    BY <1>0, <1>1 DEF TypeOK
  <2>2. \A x \in Turns : (InLine(x)' <=> InLine(x)) /\ (LineWaits(x)' <=> LineWaits(x)) /\ (LineWaits(x) => InLine(x))
    BY <1>1 DEF InLine, LineWaits
  <2>3. ASSUME NEW x \in Turns PROVE Placed(x)' /\ Kept(x)'
    BY <1>0, <1>1, <2>2 DEF Placed, Kept
  <2>4. LineOnce'
    BY <1>0, <1>1 DEF LineOnce
  <2>5. SomebodyDrains'
    BY <1>0, <1>1 DEF SomebodyDrains, IsRunning
  <2> QED
    BY <2>1, <2>3, <2>4, <2>5 DEF Rest, Places
<1>2. ASSUME NEW i \in DOMAIN queue, TakeOut(i) PROVE Rest'
  <2>1. /\ queue' = RemoveAt(queue, i) /\ removing' = removing \cup {queue[i]}
        /\ UNCHANGED <<loopVars, req, receiptVars, keeper, lockVars, runVars, runNow, boundVars>>
    BY <1>2 DEF TakeOut
  <2>2. /\ queue' \in Seq(Turns) /\ Len(queue') = Len(queue) - 1
        /\ IsInjective(queue') /\ Range(queue') = Range(queue) \ {queue[i]} /\ queue[i] \in Range(queue)
    BY <1>0, <2>1, RemoveAtIs, RemoveAtOnce DEF Range
  <2>3. queue # <<>>
    BY <1>0, <2>2, EmptySeq
  <2> QED
    BY <1>0, <1>1, <2>1, <2>2, <2>3 DEF TypeOK
<1>3. ASSUME NEW i \in DOMAIN queue, Promote(i) PROVE Rest'
  <2>1. /\ queue' = <<queue[i]>> \o RemoveAt(queue, i) /\ runNow = "none" /\ runNow' = "promoted" /\ runNows' = runNows + 1
        /\ UNCHANGED <<loopVars, req, receiptVars, keeper, removing, lockVars, runVars, wakes, crashes, broken, felled>>
    BY <1>3 DEF Promote
  <2>a. i \in 1..Len(queue)
    BY <1>0
  <2>b. /\ queue' \in Seq(Turns) /\ Len(queue') = Len(queue) /\ IsInjective(queue') /\ Range(queue') = Range(queue)
    BY <1>0, <2>1, <2>a, ToFrontOnce
  <2>2. /\ queue' \in Seq(Turns) /\ Len(queue') = Len(queue) /\ IsInjective(queue') /\ Range(queue') = Range(queue)
        /\ queue[i] \in Range(queue)
    BY <2>b, <1>3 DEF Range
  <2>3. queue # <<>> /\ runNows \in Nat
    BY <1>0, <2>2, EmptySeq DEF TypeOK, Range
  <2> QED
    BY <1>0, <1>1, <2>1, <2>2, <2>3 DEF TypeOK
<1>4. CASE TakeAllOut
  <2>1. /\ queue' = <<>> /\ removing' = removing \cup Range(queue)
        /\ UNCHANGED <<loopVars, req, receiptVars, keeper, lockVars, runVars, runNow, boundVars>>
    BY <1>4 DEF TakeAllOut
  <2>2. queue' \in Seq(Turns) /\ Len(queue') = 0 /\ IsInjective(queue') /\ Range(queue') = {}
    BY <2>1, EmptySeq DEF IsInjective, Range
  <2> QED
    BY <1>0, <1>1, <2>1, <2>2 DEF TypeOK
<1>5. CASE KeeperEnds
  <2>1. /\ queue = <<>> /\ keeper' = FALSE
        /\ UNCHANGED <<loopVars, req, receiptVars, queue, removing, lockVars, runVars, runNow, boundVars>>
    BY <1>5 DEF KeeperEnds
  <2>2. Range(queue) = {}
    BY <2>1 DEF Range
  <2> QED
    BY <1>0, <1>1, <2>1, <2>2 DEF TypeOK
<1>6. CASE DrainForPromoted
  <2>1. /\ runNow' = "none" /\ line' = Append(line, Drainer) /\ chain' = TRUE
        /\ UNCHANGED <<loopVars, req, receiptVars, queueVars, stage, cur, runVars, boundVars>>
    BY <1>6 DEF DrainForPromoted, ScheduleDrain
  <2>2. /\ line' \in Seq(Turns \cup {Drainer}) /\ line' # <<>> /\ LineOnce'
        /\ \A x \in Turns : (InLine(x)' <=> InLine(x)) /\ (LineWaits(x)' => LineWaits(x))
    BY <1>0, <1>a, <2>1, LineGrows
  <2>3. TypeOK'
    BY <1>0, <2>1, <2>2 DEF TypeOK
  <2>4. \A x \in Turns : Placed(x)' /\ Kept(x)'
    BY <1>0, <2>1, <2>2 DEF Placed, Kept
  <2> QED
    BY <2>2, <2>3, <2>4 DEF Rest, Places, SomebodyDrains
<1>7. ASSUME NEW t \in Turns, MarkRemoved(t) PROVE Rest'
  <2>1. /\ t \in removing /\ removing' = removing \ {t}
        /\ UNCHANGED <<loopVars, req, queue, keeper, lockVars, runVars, runNow, boundVars>>
        /\ \/ rec[t] \in Ended /\ UNCHANGED <<rec, stale>>
           \/ rec' = [rec EXCEPT ![t] = "removed"] /\ stale' = stale \ {t}
    BY <1>7 DEF MarkRemoved, Advance
  <2>2. TypeOK'
    BY <1>0, <2>1 DEF TypeOK, Ended
  <2>3. \A x \in Turns : (InLine(x)' <=> InLine(x)) /\ (LineWaits(x)' <=> LineWaits(x)) /\ (LineWaits(x) => InLine(x))
    BY <2>1 DEF InLine, LineWaits
  <2>4. ASSUME NEW x \in Turns PROVE Placed(x)' /\ Kept(x)'
    <3>1. CASE x = t
      BY <1>0, <2>1, <2>3, <3>1 DEF Placed, Kept, Ended
    <3>2. CASE x # t
      <4>1. rec'[x] = rec[x] /\ (x \in removing' <=> x \in removing) /\ (x \in stale' <=> x \in stale)
        BY <1>0, <2>1, <3>2
      <4> QED
        BY <1>0, <2>1, <2>3, <4>1 DEF Placed, Kept
    <3> QED
      BY <3>1, <3>2
  <2>5. LineOnce' /\ SomebodyDrains'
    BY <1>0, <2>1 DEF LineOnce, SomebodyDrains, IsRunning
  <2> QED
    BY <2>2, <2>4, <2>5 DEF Rest, Places
<1> QED
  BY <1>2, <1>3, <1>4, <1>5, <1>6, <1>7

(* The worker at the prompt lock, step by step.                            *)
LEMMA WorkerKeepsRest ==
  ASSUME TurnsInv, LoopTypeOK', WorkerStep \/ DispatchFails
  PROVE  Rest'
<1>0. /\ TypeOK /\ LineOnce /\ \A x \in Turns : Placed(x) /\ Kept(x)
      /\ SomebodyDrains
      /\ queue \in Seq(Turns) /\ IsInjective(queue) /\ Len(queue) \in Nat /\ Len(queue) <= MaxQueue /\ MaxQueue \in Nat
      /\ rec \in [Turns -> {"none", "accepted", "queued", "running"} \cup Ended]
      /\ cur \in Turns \cup {NoTurn} /\ (cur = NoTurn <=> stage \in {"idle", "drain"})
  BY TurnsAssumption, LenProperties DEF TurnsInv, Places, TypeOK
<1>a. \A x \in Turns : x # Drainer /\ x # NoTurn
  BY NamesAssumption
<1> USE DEF receiptVars, queueVars, lockVars, runVars, boundVars, loopVars
<1>b. \A x \in Turns : LineWaits(x) => InLine(x)
  BY DEF LineWaits, InLine
<1>1. CASE Acquire
  <2>1. /\ stage = "idle" /\ line # <<>> /\ line' = line /\ cur = NoTurn
        /\ \/ Holder = Drainer /\ stage' = "drain" /\ cur' = cur
           \/ Holder # Drainer /\ stage' = "got" /\ cur' = Holder
        /\ UNCHANGED <<loopVars, req, receiptVars, queueVars, chain, runVars, runNow, boundVars>>
    BY <1>0, <1>1 DEF Acquire
  <2>2. /\ Holder \in Turns \cup {Drainer}
        /\ \A t \in Turns : /\ LineWaits(t)' => LineWaits(t)
                            /\ Holder = t => LineWaits(t) /\ ~LineWaits(t)'
    BY <1>0, <2>1, LineTaken
  <2>3. TypeOK'
    BY <1>0, <1>a, <2>1, <2>2 DEF TypeOK
  <2>4. \A t \in Turns : InLine(t)' <=> InLine(t)
    BY <2>1 DEF InLine
  <2>5. ASSUME NEW x \in Turns PROVE Placed(x)' /\ Kept(x)'
    BY <1>0, <1>a, <1>b, <2>1, <2>2, <2>4 DEF Placed, Kept
  <2>6. LineOnce' /\ SomebodyDrains'
    BY <1>0, <2>1 DEF LineOnce, SomebodyDrains, IsRunning
  <2> QED
    BY <2>3, <2>5, <2>6 DEF Rest, Places
(* The turn at hand goes on or ends, and the lock is kept.                 *)
<1>2. ASSUME UNCHANGED <<req, queueVars, line, chain, answered, taken, stepping, runNow, wakes, crashes, runNows, felled, active>>,
             cur \in Turns, broken' \in Nat, stage # "idle",
             \/ /\ cur' = cur
                /\ \/ stage' = "dispatch" /\ stage = "got" /\ UNCHANGED asked
                      /\ rec' = [rec EXCEPT ![cur] = "running"] /\ stale' = stale \ {cur}
                   \/ stage' = "run" /\ stage = "dispatch" /\ asked' = asked \cup {cur} /\ UNCHANGED <<rec, stale>>
             \/ /\ cur' = NoTurn /\ stage' = "drain" /\ UNCHANGED asked
                /\ \E s \in {"done", "failed"} : rec' = [rec EXCEPT ![cur] = s]
                /\ stale' = stale \ {cur}
      PROVE  Rest'
  <2>1. TypeOK'
    BY <1>0, <1>a, <1>2 DEF TypeOK, Ended
  <2>2. \A x \in Turns : (InLine(x)' <=> InLine(x)) /\ (LineWaits(x)' <=> LineWaits(x))
    BY <1>2 DEF InLine, LineWaits
  <2>3. ASSUME NEW x \in Turns PROVE Placed(x)' /\ Kept(x)'
    <3>1. CASE x = cur
      BY <1>0, <1>a, <1>2, <2>2, <3>1 DEF Placed, Kept, Ended
    <3>2. CASE x # cur
      <4>1. /\ rec'[x] = rec[x] /\ cur' # x /\ (x \in stale' <=> x \in stale) /\ (x \in asked' <=> x \in asked)
        BY <1>0, <1>a, <1>2, <3>2
      <4> QED
        BY <1>0, <1>2, <2>2, <3>2, <4>1 DEF Placed, Kept
    <3> QED
      BY <3>1, <3>2
  <2>4. LineOnce' /\ SomebodyDrains'
    BY <1>0, <1>2 DEF LineOnce, SomebodyDrains, IsRunning
  <2> QED
    BY <2>1, <2>3, <2>4 DEF Rest, Places
<1>c. ASSUME cur \in Turns PROVE rec[cur] \notin Ended
  BY <1>0, <1>c DEF Placed
<1>3. CASE RunTurn \/ Ask
  <2>1. cur \in Turns /\ broken \in Nat
    BY <1>0, <1>3 DEF RunTurn, Ask, TypeOK
  <2> QED
    BY <1>c, <1>2, <1>3, <2>1 DEF RunTurn, Ask, Advance, execVars
<1>4. CASE RanHere \/ WasAnswered \/ WasDropped
  <2>1. cur \in Turns /\ broken \in Nat
    BY <1>0, <1>4 DEF RanHere, WasAnswered, WasDropped, TypeOK
  <2>2. PICK s \in {"done", "failed"} : TurnEnds(s) /\ UNCHANGED loopVars /\ stage # "idle"
    BY <1>4 DEF RanHere, WasAnswered, WasDropped
  <2> QED
    BY <1>c, <1>2, <2>1, <2>2 DEF TurnEnds, Advance
(* The worker ends, with or without the turn it had taken from the queue.  *)
<1>5. ASSUME UNCHANGED <<req, queueVars, runVars, runNow, wakes, crashes, runNows, active>>,
             stage # "idle", WorkerEnds, cur' = NoTurn, broken' \in Nat, felled' \in BOOLEAN, felled => felled',
             queue = <<>> \/ IsRunning \/ felled',
             cur = NoTurn => UNCHANGED receiptVars,
             cur \in Turns => rec' = [rec EXCEPT ![cur] = "failed"] /\ stale' = stale \ {cur} /\ ~LineWaits(cur)
      PROVE  Rest'
  <2>1. /\ line' \in Seq(Turns \cup {Drainer})
        /\ \A t \in Turns : (InLine(t)' => LineWaits(t)) /\ (LineWaits(t)' => LineWaits(t))
        /\ LineOnce' /\ stage' = "idle" /\ chain' = FALSE
    BY <1>0, <1>5, LineEnds DEF WorkerEnds
  <2>2. TypeOK'
    BY <1>0, <1>a, <1>5, <2>1 DEF TypeOK, Ended
  <2>3. ASSUME NEW x \in Turns PROVE Placed(x)' /\ Kept(x)'
    <3>1. CASE x = cur
      BY <1>0, <1>a, <1>b, <1>5, <2>1, <3>1 DEF Placed, Kept, Ended
    <3>2. CASE x # cur
      <4>1. rec'[x] = rec[x] /\ (x \in stale' <=> x \in stale)
        BY <1>0, <1>5, <3>2
      <4> QED
        BY <1>0, <1>a, <1>b, <1>5, <2>1, <3>2, <4>1 DEF Placed, Kept
    <3> QED
      BY <3>1, <3>2
  <2>4. SomebodyDrains'
    BY <1>0, <1>5 DEF SomebodyDrains, IsRunning
  <2> QED
    BY <2>1, <2>2, <2>3, <2>4 DEF Rest, Places
<1>6. CASE LeaveRest
  <2>1. stage = "drain" /\ (IsRunning \/ queue = <<>>) /\ WorkerEnds /\ cur = NoTurn
        /\ UNCHANGED <<loopVars, req, receiptVars, queueVars, cur, runVars, runNow, boundVars>>
    BY <1>0, <1>6 DEF LeaveRest
  <2>2. broken \in Nat /\ felled \in BOOLEAN
    BY <1>0 DEF TypeOK
  <2> QED
    BY <1>a, <1>5, <2>1, <2>2
<1>7. CASE DispatchFails
  <2>1. /\ stage = "dispatch" /\ cur \in Turns /\ broken' \in Nat
    BY <1>0, <1>7 DEF DispatchFails, TypeOK
  <2>2. /\ rec' = [rec EXCEPT ![cur] = "failed"] /\ stale' = stale \ {cur} /\ cur' = NoTurn
        /\ UNCHANGED <<loopVars, req, queueVars, runVars, runNow, wakes, crashes, runNows>>
    BY <1>c, <1>7, <2>1 DEF DispatchFails, Advance
  <2>3. CASE Holder = cur
    BY <1>2, <1>7, <2>1, <2>2, <2>3 DEF DispatchFails
  <2>4. CASE Holder # cur
    <3>1. WorkerEnds /\ felled' = TRUE
      BY <1>7, <2>4 DEF DispatchFails
    <3>2. ~LineWaits(cur)
      BY <1>0, <2>1 DEF Placed
    <3> QED
      BY <1>a, <1>5, <2>1, <2>2, <3>1, <3>2
  <2> QED
    BY <2>3, <2>4
<1>8. CASE PopNext
  <2>1. /\ stage = "drain" /\ cur = NoTurn /\ queue # <<>> /\ cur' = Head(queue) /\ queue' = Tail(queue) /\ stage' = "got"
        /\ UNCHANGED <<loopVars, req, receiptVars, keeper, removing, line, chain, runVars, runNow, boundVars>>
    BY <1>0, <1>8 DEF PopNext
  <2>2. /\ cur' \in Turns /\ cur' \in Range(queue) /\ queue' \in Seq(Turns) /\ Len(queue') = Len(queue) - 1
        /\ IsInjective(queue') /\ Range(queue') = Range(queue) \ {cur'}
    BY <1>0, <2>1, TailOnce
  <2>3. TypeOK'
    BY <1>0, <1>a, <2>1, <2>2 DEF TypeOK
  <2>4. \A x \in Turns : (InLine(x)' <=> InLine(x)) /\ (LineWaits(x)' <=> LineWaits(x))
    BY <2>1 DEF InLine, LineWaits
  <2>5. ASSUME NEW x \in Turns PROVE Placed(x)' /\ Kept(x)'
    BY <1>0, <1>a, <1>b, <2>1, <2>2, <2>4 DEF Placed, Kept
  <2>6. LineOnce' /\ SomebodyDrains'
    BY <1>0, <2>1 DEF LineOnce, SomebodyDrains, IsRunning
  <2> QED
    BY <2>3, <2>5, <2>6 DEF Rest, Places
<1> QED
  BY <1>1, <1>3, <1>4, <1>6, <1>7, <1>8 DEF WorkerStep

(* An execution that ends gives the queue a worker if something waits in it. *)
LEMMA EndKeepsRest ==
  ASSUME TurnsInv, LoopTypeOK', NEW r \in Runners, ExecutionEnds(r)
  PROVE  Rest'
<1>0. /\ TypeOK /\ LineOnce /\ \A x \in Turns : Placed(x) /\ Kept(x)
  BY DEF TurnsInv, Places
<1>a. \A x \in Turns : x # Drainer
  BY NamesAssumption
<1>1. /\ UNCHANGED <<req, receiptVars, queueVars, stage, cur, runVars, runNow, boundVars>>
      /\ IF queue = <<>> THEN UNCHANGED <<line, chain>> ELSE line' = Append(line, Drainer) /\ chain' = TRUE
  BY DEF ExecutionEnds, ScheduleDrain
<1> USE DEF receiptVars, queueVars, runVars, boundVars
<1>2. CASE queue = <<>>
  <2>1. TypeOK'
    BY <1>0, <1>1, <1>2 DEF TypeOK
  <2>2. \A x \in Turns : (InLine(x)' <=> InLine(x)) /\ (LineWaits(x)' <=> LineWaits(x))
    BY <1>1, <1>2 DEF InLine, LineWaits
  <2>3. \A x \in Turns : Placed(x)' /\ Kept(x)'
    BY <1>0, <1>1, <2>2 DEF Placed, Kept
  <2>4. LineOnce' /\ SomebodyDrains'
    BY <1>0, <1>1, <1>2 DEF LineOnce, SomebodyDrains
  <2> QED
    BY <2>1, <2>3, <2>4 DEF Rest, Places
<1>3. CASE queue # <<>>
  <2>1. /\ line' \in Seq(Turns \cup {Drainer}) /\ line' # <<>> /\ LineOnce'
        /\ \A x \in Turns : (InLine(x)' <=> InLine(x)) /\ (LineWaits(x)' => LineWaits(x))
    BY <1>0, <1>a, <1>1, <1>3, LineGrows
  <2>2. TypeOK'
    BY <1>0, <1>1, <1>3, <2>1 DEF TypeOK
  <2>3. \A x \in Turns : Placed(x)' /\ Kept(x)'
    BY <1>0, <1>1, <2>1 DEF Placed, Kept
  <2>4. SomebodyDrains'
    BY <2>1 DEF SomebodyDrains
  <2> QED
    BY <2>1, <2>2, <2>3, <2>4 DEF Rest, Places
<1> QED
  BY <1>2, <1>3

(* A crash leaves no turn anywhere.                                        *)
LEMMA CrashKeepsRest ==
  ASSUME TurnsInv, LoopTypeOK', Crash
  PROVE  Rest'
<1>0. /\ TypeOK /\ \A x \in Turns : Placed(x) /\ Kept(x)
  BY DEF TurnsInv, Places
<1>a. \A x \in Turns : x # NoTurn
  BY NamesAssumption
<1>1. /\ crashes' = crashes + 1
      /\ req' = [t \in Turns |-> IF req[t] = "new" THEN "new" ELSE "over"]
      /\ queue' = <<>> /\ keeper' = FALSE /\ removing' = {} /\ line' = <<>> /\ chain' = FALSE
      /\ stage' = "idle" /\ cur' = NoTurn /\ taken' = {} /\ stepping' = FALSE /\ runNow' = "none"
      /\ UNCHANGED <<rec, stale, asked, answered, wakes, runNows, broken, felled>>
  BY DEF Crash, receiptVars
<1>2. /\ <<>> \in Seq(Turns) /\ <<>> \in Seq(Turns \cup {Drainer}) /\ Len(<<>>) = 0 /\ IsInjective(<<>>)
      /\ Range(queue') = {} /\ DOMAIN line' = {} /\ MaxQueue \in Nat
  BY <1>1, EmptySeq, TurnsAssumption DEF IsInjective, Range
<1>3. TypeOK'
  <2>1. req' \in [Turns -> {"new", "queueing", "starting", "enqueueing", "enqueued", "over"}]
    BY <1>1
  <2>2. /\ rec' \in [Turns -> {"none", "accepted", "queued", "running"} \cup Ended]
        /\ stale' \subseteq Turns /\ removing' \subseteq Turns /\ felled' \in BOOLEAN
        /\ {wakes', crashes', runNows', broken'} \subseteq Nat
        /\ asked' \subseteq Turns /\ answered' \subseteq asked' /\ taken' \subseteq asked'
    BY <1>0, <1>1 DEF TypeOK
  <2>3. /\ queue' \in Seq(Turns) /\ IsInjective(queue') /\ Len(queue') <= MaxQueue
        /\ line' \in Seq(Turns \cup {Drainer}) /\ (stage' # "idle" => line' # <<>>)
    BY <1>1, <1>2
  <2>4. /\ stage' \in {"idle", "drain", "got", "dispatch", "run", "handed"}
        /\ cur' \in Turns \cup {NoTurn} /\ (cur' = NoTurn <=> stage' \in {"idle", "drain"})
        /\ keeper' \in BOOLEAN /\ chain' \in BOOLEAN /\ stepping' \in BOOLEAN
        /\ runNow' \in {"none", "promoted", "aborted"}
    BY <1>1
  <2> QED
    BY <2>1, <2>2, <2>3, <2>4 DEF TypeOK
<1>4. ASSUME NEW x \in Turns PROVE Placed(x)' /\ Kept(x)'
  <2>1. ~InLine(x)' /\ ~LineWaits(x)'
    BY <1>2 DEF InLine, LineWaits
  <2>2. req'[x] \in Unsent => req[x] = "new"
    BY <1>1 DEF Unsent
  <2>3. rec[x] = "removed" => x \notin asked
    BY <1>0 DEF Placed
  <2>4. req[x] = "new" => rec[x] = "none" /\ x \notin asked /\ x \notin stale
    BY <1>0 DEF Placed, Kept, Unsent
  <2>5. req'[x] \in {"new", "over"}
    BY <1>1
  <2> QED
    BY <1>a, <1>1, <1>2, <2>1, <2>2, <2>3, <2>4, <2>5 DEF Placed, Kept
<1>5. LineOnce' /\ SomebodyDrains'
  BY <1>1, <1>2 DEF LineOnce, SomebodyDrains
<1> QED
  BY <1>3, <1>4, <1>5 DEF Rest, Places

-----------------------------------------------------------------------------
(* The invariant is inductive.                                             *)
LEMMA NextKeepsTurns == TurnsInv /\ [Next]_vars => TurnsInv'
<1> SUFFICES ASSUME TurnsInv, [Next]_vars PROVE TurnsInv'
  OBVIOUS
<1>0. TypeOK /\ Calls /\ LoopTypeOK
  BY DEF TurnsInv, TypeOK
<1>1. CASE \E r \in {"prompt", "wake"} : CallStep(r)
  <2>1. PICK r \in Runners : CallStep(r)
    BY <1>1 DEF Runners
  <2>2. Calls' /\ LoopTypeOK'
    BY <1>0, <2>1, CallKeepsCalls
  <2>3. Rest'
    BY <2>1, <2>2, CallKeepsRest, EndKeepsRest DEF CallStep
  <2> QED
    BY <2>2, <2>3 DEF TurnsInv, Rest
<1>2. CASE \/ \E t \in Turns : Submit(t) \/ RefuseTurn(t) \/ RequestStep(t) \/ MarkRemoved(t) \/ Age(t)
           \/ \E i \in DOMAIN queue : TakeOut(i) \/ Promote(i)
           \/ TakeAllOut \/ RunStep \/ WorkerStep \/ DispatchFails \/ RunNowStep \/ StartWake
           \/ KeeperEnds \/ Crash
  <2>1. Calls' /\ LoopTypeOK'
    BY <1>0, <1>2, OthersKeepCalls
  <2>2. Rest'
    BY <1>2, <2>1, RequestKeepsRest, QueueKeepsRest, StandingKeepsRest, WorkerKeepsRest, CrashKeepsRest
       DEF RunNowStep
  <2> QED
    BY <2>1, <2>2 DEF TurnsInv, Rest
<1>3. CASE UNCHANGED vars
  <2>1. Rest'
    <3>1. UNCHANGED turnVars /\ UNCHANGED loopVars
      BY <1>3 DEF vars
    <3> QED
      BY <1>0, <3>1, Unmoved DEF turnVars, loopVars, receiptVars, queueVars, lockVars, runVars, boundVars, TypeOK, LoopTypeOK, IsRunning
  <2>2. Calls'
    BY <1>0, <1>3 DEF vars, turnVars, lockVars, loopVars, Calls
  <2> QED
    BY <2>1, <2>2 DEF TurnsInv, Rest
<1> QED
  BY <1>1, <1>2, <1>3 DEF Next

(* What follows: always, for any turns, wakes, crashes, run_now requests   *)
(* and prompts that cannot be dispatched, the calls, the line, the queue   *)
(* and the receipts are as TurnsInv says.                                  *)
THEOREM TurnsStaySound == Spec => []TurnsInv
<1>1. Init => TurnsInv
  BY InitTurns
<1>2. TurnsInv /\ [Next]_vars => TurnsInv'
  BY NextKeepsTurns
<1> QED
  BY <1>1, <1>2, PTL DEF Spec

(* The session never has two runners, whatever requests, wakes and workers *)
(* race for it: the lease is what tells, and the registered execution is   *)
(* the one that holds it (SessionLoop.run, ownership.py).                  *)
THEOREM OneRunnerAtATime == Spec => []Consistent
<1>1. TurnsInv => Consistent
  <2> SUFFICES ASSUME TurnsInv PROVE Consistent
    OBVIOUS
  <2>1. TypeOK /\ Calls /\ phase \in [Runners -> Phases] /\ active \in Runners \cup {NoRunner}
    BY DEF TurnsInv, TypeOK, LoopTypeOK
  <2>2. \A r, q \in Runners :
          {phase[r], phase[q]} \subseteq {"preparing", "running", "closing", "popped"} => r = q
    BY <2>1 DEF Calls, Holding
  <2>3. IsRunning => lease = active
    BY <2>1 DEF Calls, Holding, IsRunning
  <2> QED
    BY <2>1, <2>2, <2>3 DEF Consistent, OneRunner
<1> QED
  BY <1>1, TurnsStaySound, PTL

(* A turn whose receipt says it ended is nowhere any more that could still *)
(* run it, and one taken out of the queue never reached the history: the   *)
(* queue, the line and the holder of the lock never share a turn.          *)
THEOREM EndedTurnsAreOver == Spec => []EndedIsOver
<1>1. TurnsInv => EndedIsOver
  BY DEF TurnsInv, Places, Placed, LineWaits, EndedIsOver, Waits
<1> QED
  BY <1>1, TurnsStaySound, PTL

(* What waits in the queue has somebody to run it, unless a prompt that    *)
(* could not be dispatched took its worker down.                           *)
THEOREM QueueHasADrainer == Spec => []SomebodyDrains
<1>1. TurnsInv => SomebodyDrains
  BY DEF TurnsInv
<1> QED
  BY <1>1, TurnsStaySound, PTL

(* A turn that waits in the queue or runs never reads as lost: whoever     *)
(* holds it, the keeper or the worker, keeps its receipt fresh.            *)
THEOREM HeldTurnsStayFresh == Spec => []HeldIsFresh
<1>1. TurnsInv => HeldIsFresh
  BY DEF TurnsInv, Kept, HeldIsFresh
<1> QED
  BY <1>1, TurnsStaySound, PTL
=============================================================================
