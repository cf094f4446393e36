-------------------------- MODULE AgentInbox_proofs --------------------------
(***************************************************************************)
(* Proofs about the inbox of a session, for any messages, retries, stops   *)
(* and cancels: one execution at a time, nothing sent before a stop waits  *)
(* after it, and a drain takes exactly what it put in the history.         *)
(***************************************************************************)
EXTENDS AgentInbox, SequenceTheorems, TLAPS

(* A call past the lease holds it; past its registration it is the one     *)
(* that is registered; a wake that has begun is the registered task.       *)
Holding == {"preparing", "running", "closing", "popped"}
LoopInv ==
  /\ phase \in [Runners -> Phases] /\ active \in Runners \cup {NoRunner}
  /\ \A r \in Runners : /\ phase[r] \in Holding <=> lease = r
                        /\ phase[r] \in {"running", "closing"} <=> active = r
  /\ phase["wake"] # "off" => wake.state = "task"

-----------------------------------------------------------------------------
(* Nobody has called yet.                                                  *)
LEMMA InitLoop == Init => LoopInv
BY DEF Init, LoopInit, LoopInv, Runners, NoRunner, Phases, Holding, NoWake

(* What a wake does to the calls: its own one begins, if it had ended.     *)
LEMMA WakePhases ==
  ASSUME NEW i, NEW w, NEW j, NEW n, NEW ph, Wake(i, w, j, n, ph)
  PROVE  \/ phase' = ph /\ wake' = w
         \/ /\ phase' = [ph EXCEPT !["wake"] = "check"]
            /\ w.state = "none" /\ wake'.state = "task"
BY DEF Wake

(* What everything but the calls themselves and the run does.              *)
CallsKept ==
  /\ UNCHANGED <<lease, active>>
  /\ \/ UNCHANGED phase /\ (wake'.state = wake.state \/ phase["wake"] = "off")
     \/ phase' = [phase EXCEPT !["wake"] = "check"] /\ wake'.state = "task" /\ phase["wake"] = "off"

LEMMA CallsKeptKeeps == ASSUME LoopInv, CallsKept PROVE LoopInv'
BY DEF LoopInv, CallsKept, Phases, Holding, Runners, NoRunner

LEMMA WakeKeepsCalls ==
  ASSUME LoopInv, UNCHANGED <<lease, active>>, NEW i, NEW j, NEW n, NEW w,
         w = wake \/ (wake.state # "task" /\ w = NoWake), Wake(i, w, j, n, phase)
  PROVE  CallsKept
BY WakePhases DEF CallsKept, LoopInv, NoWake

LEMMA PostKeepsCalls ==
  ASSUME LoopInv, UNCHANGED <<lease, active>>, NEW m, NEW i, NEW g, Post(m, i, g)
  PROVE  CallsKept
<1>1. CASE Accepts(i, g) BY <1>1, WakeKeepsCalls DEF Post
<1>2. CASE ~Accepts(i, g) BY <1>2 DEF Post, CallsKept
<1>3. QED BY <1>1, <1>2

(* Messages and people.                                                    *)
LEMMA OthersKeepCalls ==
  ASSUME LoopInv,
         \/ \E m \in Messages : Send(m) \/ Delegate(m) \/ Report(m) \/ Arrive(m)
         \/ Stop \/ \E r \in Runners : Cancel(r)
  PROVE  CallsKept
<1>1. CASE \E m \in Messages : Send(m) \/ Delegate(m) \/ Report(m) \/ Arrive(m)
  <2>1. PICK m \in Messages : Send(m) \/ Delegate(m) \/ Report(m) \/ Arrive(m) BY <1>1
  <2>2. UNCHANGED <<lease, active>>
    BY <2>1 DEF Send, Delegate, Report, Arrive, loopVars
  <2>3. (\E i, g : Post(m, i, g)) \/ UNCHANGED <<wake, phase>>
    BY <2>1 DEF Send, Delegate, Report, Arrive, loopVars
  <2>4. QED BY <2>2, <2>3, PostKeepsCalls DEF CallsKept
<1>2. CASE Stop \/ \E r \in Runners : Cancel(r)
  BY <1>2 DEF Stop, Cancel, CallsKept
<1>3. QED BY <1>1, <1>2

LEMMA DeliveryKeepsCalls ==
  ASSUME LoopInv, WakeDelivered \/ JobDelivered \/ \E n \in 1..RetryLimit : RetryDue(n)
  PROVE  CallsKept
<1>1. CASE WakeDelivered
  <2>1. CASE Outcome = "stop" BY <1>1, <2>1, WakeKeepsCalls DEF WakeDelivered
  <2>2. CASE Outcome # "stop" BY <1>1, <2>2 DEF WakeDelivered, CallsKept, LoopInv
  <2>3. QED BY <2>1, <2>2
<1>2. CASE JobDelivered BY <1>2, WakeKeepsCalls DEF JobDelivered
<1>3. CASE \E n \in 1..RetryLimit : RetryDue(n)
  BY <1>3, WakeKeepsCalls DEF RetryDue
<1>4. QED BY <1>1, <1>2, <1>3

-----------------------------------------------------------------------------
(* The calls: the lease is taken when it is free, and given back only once *)
(* nothing is registered.                                                  *)
LEMMA CallKeepsLoop == ASSUME LoopInv, NEW r \in Runners, CallStep(r) PROVE LoopInv'
<1> USE DEF LoopInv, Phases, Holding, Goto
<1>r. /\ NoRunner \notin Runners /\ Runners = {"prompt", "wake", "job"}
  BY DEF NoRunner, Runners
<1>1. CASE ReturnEarly(r)
  <2>1. phase' = [phase EXCEPT ![r] = "off"] /\ UNCHANGED <<lease, active>>
    BY <1>1 DEF ReturnEarly
  <2>2. phase[r] \in {"check", "entering"} BY <1>1 DEF ReturnEarly
  <2>3. r = "wake" \/ wake' = wake BY <1>1 DEF ReturnEarly, Over
  <2>4. QED BY <2>1, <2>2, <2>3, <1>r
<1>2. CASE Enter(r) /\ UNCHANGED inboxVars
  <2>1. /\ phase' = [phase EXCEPT ![r] = "preparing"] /\ lease' = r /\ UNCHANGED <<active, wake>>
        /\ phase[r] = "entering" /\ lease = NoRunner
    BY <1>2 DEF Enter, MayEnter, inboxVars
  <2>2. QED BY <2>1, <1>r
<1>3. CASE Refuse(r) /\ UNCHANGED inboxVars
  <2>1. /\ phase' = [phase EXCEPT ![r] = "popped"] /\ UNCHANGED <<lease, active, wake>>
        /\ phase[r] = "preparing"
    BY <1>3 DEF Refuse, inboxVars
  <2>2. QED BY <2>1, <1>r
<1>4. CASE Unregister(r) /\ UNCHANGED inboxVars
  <2>1. /\ phase' = [phase EXCEPT ![r] = "popped"] /\ active' = NoRunner /\ UNCHANGED <<lease, wake>>
        /\ phase[r] = "closing"
    BY <1>4 DEF Unregister, inboxVars
  <2>2. QED BY <2>1, <1>r
<1>5. CASE Bind(r)
  <2>1. /\ phase[r] = "preparing" /\ UNCHANGED <<lease, wake>>
        /\ IF IsRunning THEN phase' = [phase EXCEPT ![r] = "popped"] /\ active' = active
                        ELSE phase' = [phase EXCEPT ![r] = "running"] /\ active' = r
    BY <1>5 DEF Bind, Register
  <2>2. QED BY <2>1, <1>r DEF IsRunning
<1>6. CASE Release(r)
  <2>1. phase[r] = "popped" /\ lease' = NoRunner /\ UNCHANGED active BY <1>6 DEF Release
  <2>2. CASE r = "prompt" /\ inbox.gen > 0
    <3>1. Wake(inbox, wake, job, 0, [phase EXCEPT ![r] = "off"]) BY <1>6, <2>2 DEF Release
    <3>2. CASE phase' = [phase EXCEPT ![r] = "off"] /\ wake' = wake BY <2>1, <2>2, <3>2, <1>r
    <3>3. CASE /\ phase' = [[phase EXCEPT ![r] = "off"] EXCEPT !["wake"] = "check"]
               /\ wake.state = "none" /\ wake'.state = "task"
      BY <2>1, <2>2, <3>3, <1>r
    <3>4. QED BY <3>1, <3>2, <3>3, WakePhases
  <2>3. CASE ~(r = "prompt" /\ inbox.gen > 0)
    <3>1. phase' = [phase EXCEPT ![r] = "off"] /\ (r = "wake" \/ wake' = wake)
      BY <1>6, <2>3 DEF Release, Over
    <3>2. QED BY <2>1, <3>1, <1>r
  <2>4. QED BY <2>2, <2>3
<1>7. CASE Cancelled(r)
  <2>1. /\ UNCHANGED <<lease, active, wake>>
        /\ \/ phase[r] = "preparing" /\ phase' = [phase EXCEPT ![r] = "popped"]
           \/ phase[r] = "running" /\ phase' = [phase EXCEPT ![r] = "closing"]
    BY <1>7 DEF Cancelled
  <2>2. QED BY <2>1, <1>r
<1>8. QED BY <1>1, <1>2, <1>3, <1>4, <1>5, <1>6, <1>7 DEF CallStep, Proceed

(* The run registers and unregisters nothing; it only ends.                *)
LEMMA RunKeepsLoop == ASSUME LoopInv, RunStep PROVE LoopInv'
<1>1. UNCHANGED <<lease, active, wake>>
  BY DEF RunStep, Top, DrainOver, DrainCreate, DrainPop, Prepare, StepEnds, Settle, loopVars
<1>2. \/ UNCHANGED phase
      \/ Runs("settle") /\ phase' = [phase EXCEPT ![active] = "closing"]
  BY DEF RunStep, Top, DrainOver, DrainCreate, DrainPop, Prepare, StepEnds, Settle, Goto, loopVars
<1>3. QED BY <1>1, <1>2 DEF LoopInv, Runs, IsRunning, Phases, Holding, Runners, NoRunner

LEMMA NextKeepsLoop == LoopInv /\ [Next]_vars => LoopInv'
<1> SUFFICES ASSUME LoopInv, [Next]_vars PROVE LoopInv' OBVIOUS
<1>1. CASE \/ \E m \in Messages : Send(m) \/ Delegate(m) \/ Report(m) \/ Arrive(m)
           \/ Stop \/ \E r \in Runners : Cancel(r)
  BY <1>1, OthersKeepCalls, CallsKeptKeeps
<1>2. CASE WakeDelivered \/ JobDelivered \/ \E n \in 1..RetryLimit : RetryDue(n)
  BY <1>2, DeliveryKeepsCalls, CallsKeptKeeps
<1>3. CASE \E r \in Runners : CallStep(r) BY <1>3, CallKeepsLoop
<1>4. CASE RunStep BY <1>4, RunKeepsLoop
<1>5. CASE WakeChecked
  <2>1. /\ phase["wake"] = "check" /\ phase' = [phase EXCEPT !["wake"] = "entering"]
        /\ UNCHANGED <<lease, active, wake>>
    BY <1>5 DEF WakeChecked, Goto, inboxVars
  <2>2. QED BY <2>1 DEF LoopInv, Phases, Holding, Runners, NoRunner
<1>6. CASE StartPrompt
  <2>1. /\ phase["prompt"] = "off" /\ phase' = [phase EXCEPT !["prompt"] = "entering"]
        /\ UNCHANGED <<lease, active, wake>>
    BY <1>6 DEF StartPrompt, Goto
  <2>2. QED BY <2>1 DEF LoopInv, Phases, Holding, Runners, NoRunner
<1>7. CASE StartJob
  <2>1. /\ phase["job"] = "off" /\ phase' = [phase EXCEPT !["job"] = "entering"]
        /\ UNCHANGED <<lease, active, wake>>
    BY <1>7 DEF StartJob, Goto
  <2>2. QED BY <2>1 DEF LoopInv, Phases, Holding, Runners, NoRunner
<1>8. CASE UNCHANGED vars BY <1>8 DEF vars, loopVars, inboxVars, LoopInv
<1>9. QED BY <1>1, <1>2, <1>3, <1>4, <1>5, <1>6, <1>7, <1>8 DEF Next, Delivery

(* One live runner per session, however prompts, wakes, the parent's run   *)
(* and their cancels interleave (SessionLoop.run, its lease).              *)
THEOREM OneRunnerPerSession == Spec => []OneRunner
<1>1. Init => LoopInv BY InitLoop
<1>2. LoopInv /\ [Next]_vars => LoopInv' BY NextKeepsLoop
<1>3. LoopInv => OneRunner BY DEF LoopInv, OneRunner, Holding, IsRunning, Runners, NoRunner
<1>4. QED BY <1>1, <1>2, <1>3, PTL DEF Spec

-----------------------------------------------------------------------------
(* What an inbox holds, once each, was sent since the last stop, and a     *)
(* closed one holds nothing.  What is on its way to the inbox in force was *)
(* sent since then too; nothing is bound to one yet to come.               *)
Inbox == [gen : Nat, box : Seq(Messages), stopped : BOOLEAN]
BoxTypes ==
  /\ inbox \in Inbox
  /\ st \in [Messages -> {"new", "working", "flight", "box", "read", "dropped"}]
  /\ target \in [Messages -> Nat] /\ born \in [Messages -> Nat] /\ stops \in Nat

OnItsWay(m) == st[m] \in {"working", "flight"}

BoxInv ==
  /\ BoxTypes
  /\ inbox.gen = 0 \/ inbox.stopped => inbox.box = <<>>
  /\ \A i \in 1..Len(inbox.box) : st[inbox.box[i]] = "box"
  /\ \A i, j \in 1..Len(inbox.box) : inbox.box[i] = inbox.box[j] => i = j
  /\ \A m \in Messages :
       /\ st[m] = "box" => Contains(inbox.box, m) /\ born[m] = stops
       /\ OnItsWay(m) => inbox.gen # 0 /\ target[m] <= inbox.gen
       /\ OnItsWay(m) /\ Accepts(inbox, target[m]) => born[m] = stops

-----------------------------------------------------------------------------
LEMMA InitBox == Init => BoxInv
<1> SUFFICES ASSUME Init PROVE BoxInv OBVIOUS
<1>1. BoxTypes BY DEF Init, BoxTypes, Inbox
<1>2. QED BY <1>1 DEF Init, BoxInv, OnItsWay

(* get changes nothing but replaces an inbox that is closed, or not there. *)
Looked == inbox' \in {inbox, Get(inbox)} /\ UNCHANGED <<st, target, born, stops>>

LEMMA GetFacts ==
  ASSUME BoxInv, NEW i, i = Get(inbox)
  PROVE  /\ i \in Inbox /\ i.gen # 0 /\ i.box = inbox.box /\ i.stopped = FALSE
         /\ (i.gen = inbox.gen /\ ~inbox.stopped) \/ i.gen = inbox.gen + 1
<1> USE DEF Inbox
<1>1. inbox \in Inbox BY DEF BoxInv, BoxTypes
<1>2. CASE inbox.gen = 0 \/ inbox.stopped
  <2>1. i = [gen |-> inbox.gen + 1, box |-> <<>>, stopped |-> FALSE] BY <1>2 DEF Get
  <2>2. inbox.gen + 1 \in Nat \ {0} /\ inbox.box = <<>> BY <1>1, <1>2 DEF BoxInv
  <2>3. QED BY <2>1, <2>2
<1>3. CASE ~(inbox.gen = 0 \/ inbox.stopped)
  BY <1>1, <1>3 DEF Get
<1>4. QED BY <1>2, <1>3

LEMMA LookedKeeps == ASSUME BoxInv, Looked PROVE BoxInv'
<1>1. CASE inbox' = inbox
  BY <1>1 DEF Looked, BoxInv, BoxTypes, OnItsWay, Accepts
<1>2. CASE inbox' = Get(inbox)
  <2>1. /\ inbox' \in Inbox /\ inbox'.gen # 0 /\ inbox'.box = inbox.box /\ inbox'.stopped = FALSE
        /\ (inbox'.gen = inbox.gen /\ ~inbox.stopped) \/ inbox'.gen = inbox.gen + 1
    BY <1>2, GetFacts
  <2>2. inbox.gen \in Nat /\ \A m \in Messages : target[m] \in Nat
    BY DEF BoxInv, BoxTypes, Inbox
  <2>3. UNCHANGED <<st, target, born, stops>> BY DEF Looked
  <2>4. ASSUME NEW m \in Messages, OnItsWay(m)
        PROVE  /\ target[m] <= inbox'.gen
               /\ inbox'.gen = target[m] => Accepts(inbox, target[m])
    BY <2>1, <2>2, <2>4 DEF BoxInv, Accepts
  <2>5. BoxTypes' BY <2>1, <2>3 DEF BoxInv, BoxTypes
  <2>6. QED BY <2>1, <2>3, <2>4, <2>5 DEF BoxInv, OnItsWay, Accepts, Contains
<1>3. QED BY <1>1, <1>2 DEF Looked

(* A message is put last.                                                  *)
LEMMA PutKeeps ==
  ASSUME BoxInv, NEW m \in Messages, st[m] \in {"new", "working", "flight"},
         NEW i, i = Get(inbox) \/ (i = inbox /\ inbox.gen # 0), ~i.stopped,
         inbox' = [i EXCEPT !.box = Append(@, m)], st' = [st EXCEPT ![m] = "box"],
         \A x \in Messages : x # m => target'[x] = target[x] /\ born'[x] = born[x],
         target' \in [Messages -> Nat], born' \in [Messages -> Nat],
         born'[m] = stops, stops' = stops
  PROVE  BoxInv'
<1>1. /\ i \in Inbox /\ i.gen # 0 /\ i.box = inbox.box
      /\ (i.gen = inbox.gen /\ ~inbox.stopped) \/ i.gen = inbox.gen + 1
  BY GetFacts DEF BoxInv, BoxTypes
<1>2. Append(inbox.box, m) \in Seq(Messages) BY <1>1 DEF Inbox
<1>3. /\ inbox' \in Inbox /\ inbox'.gen = i.gen /\ inbox'.stopped = i.stopped
      /\ inbox'.box = Append(inbox.box, m)
  BY <1>1, <1>2 DEF Inbox
<1> DEFINE old == inbox.box
           now == inbox'.box
<1>4. old \in Seq(Messages) /\ now = Append(old, m) BY <1>1, <1>3 DEF Inbox
<1>5. \A k \in 1..Len(old) : st[old[k]] = "box" BY DEF BoxInv
<1>6. \A k, l \in 1..Len(old) : old[k] = old[l] => k = l BY DEF BoxInv
<1>7. st \in [Messages -> {"new", "working", "flight", "box", "read", "dropped"}]
  BY DEF BoxInv, BoxTypes
<1>8. BoxTypes' BY <1>3, <1>7 DEF BoxInv, BoxTypes
<1> HIDE DEF old, now
<1>9. /\ Len(now) = Len(old) + 1 /\ Len(old) \in Nat /\ now[Len(old) + 1] = m
      /\ \A k \in 1..Len(old) : now[k] = old[k] /\ old[k] \in Messages
  BY <1>4
<1>10. \A k \in 1..Len(old) : old[k] # m BY <1>5
<1>11. \A k \in 1..Len(now) : st'[now[k]] = "box"
  <2> SUFFICES ASSUME NEW k \in 1..Len(now) PROVE st'[now[k]] = "box" OBVIOUS
  <2>1. CASE k = Len(old) + 1 BY <2>1, <1>7, <1>9
  <2>2. CASE k \in 1..Len(old)
    <3>1. now[k] = old[k] /\ old[k] \in Messages BY <2>2, <1>9
    <3>2. st[old[k]] = "box" /\ old[k] # m BY <2>2, <1>5, <1>10
    <3>3. QED BY <3>1, <3>2, <1>7
  <2>3. QED BY <2>1, <2>2, <1>9
<1>12. \A k, l \in 1..Len(now) : now[k] = now[l] => k = l
  <2> SUFFICES ASSUME NEW k \in 1..Len(now), NEW l \in 1..Len(now), now[k] = now[l] PROVE k = l
    OBVIOUS
  <2>1. CASE k \in 1..Len(old) /\ l \in 1..Len(old) BY <2>1, <1>6, <1>9
  <2>2. CASE k \notin 1..Len(old) \/ l \notin 1..Len(old) BY <2>2, <1>9, <1>10
  <2>3. QED BY <2>1, <2>2
<1>13. \A x \in Messages : Contains(old, x) \/ x = m => Contains(now, x)
  <2> SUFFICES ASSUME NEW x \in Messages, Contains(old, x) \/ x = m PROVE Contains(now, x) OBVIOUS
  <2>1. \E k \in 1..Len(now) : now[k] = x
    <3>1. CASE x = m
      <4>1. Len(old) + 1 \in 1..Len(now) BY <1>9
      <4>2. QED BY <3>1, <4>1, <1>9
    <3>2. CASE Contains(old, x) BY <3>2, <1>9 DEF Contains
    <3>3. QED BY <3>1, <3>2
  <2>2. QED BY <2>1 DEF Contains
<1>14. ASSUME NEW x \in Messages
       PROVE  /\ st'[x] = "box" => Contains(now, x) /\ born'[x] = stops'
              /\ OnItsWay(x)' => inbox'.gen # 0 /\ target'[x] <= inbox'.gen
              /\ OnItsWay(x)' /\ Accepts(inbox', target'[x]) => born'[x] = stops'
  <2>1. CASE x = m BY <2>1, <1>7, <1>13 DEF OnItsWay
  <2>2. CASE x # m
    <3>1. st'[x] = st[x] /\ target'[x] = target[x] /\ born'[x] = born[x] BY <2>2, <1>7
    <3>2. inbox.gen \in Nat /\ target[x] \in Nat BY DEF BoxInv, BoxTypes, Inbox
    <3>3. OnItsWay(x) => target[x] <= inbox.gen BY DEF BoxInv
    <3>4. OnItsWay(x) => target[x] <= i.gen /\ (i.gen = target[x] => Accepts(inbox, target[x]))
      BY <1>1, <3>2, <3>3 DEF Accepts
    <3>5. st[x] = "box" => Contains(now, x) /\ born[x] = stops BY <1>13 DEF old, BoxInv
    <3>6. OnItsWay(x) /\ Accepts(inbox, target[x]) => born[x] = stops BY DEF BoxInv
    <3>7. QED BY <1>1, <1>3, <3>1, <3>4, <3>5, <3>6 DEF OnItsWay, Accepts
  <2>3. QED BY <2>1, <2>2
<1>15. ~(inbox'.gen = 0 \/ inbox'.stopped) BY <1>1, <1>3
<1>16. QED BY <1>8, <1>11, <1>12, <1>14, <1>15 DEF BoxInv, now

(* A message starts on its way, goes on, or is dropped.                    *)
LEMMA MoveKeeps ==
  ASSUME BoxInv, NEW m \in Messages, st[m] \in {"new", "working", "flight"},
         NEW how \in {"working", "flight", "dropped"}, st' = [st EXCEPT ![m] = how],
         inbox' \in {inbox, Get(inbox)}, stops' = stops,
         target' \in [Messages -> Nat], born' \in [Messages -> Nat],
         \A x \in Messages : x # m => target'[x] = target[x] /\ born'[x] = born[x],
         how # "dropped" => /\ inbox'.gen # 0 /\ target'[m] <= inbox'.gen
                            /\ Accepts(inbox', target'[m]) => born'[m] = stops
  PROVE  BoxInv'
<1>1. /\ inbox' \in Inbox /\ inbox'.box = inbox.box /\ (inbox.gen # 0 => inbox'.gen # 0)
      /\ (inbox'.gen = inbox.gen /\ inbox'.stopped = inbox.stopped) \/ inbox'.gen = inbox.gen + 1
  <2>1. CASE inbox' = inbox BY <2>1 DEF BoxInv, BoxTypes
  <2>2. CASE inbox' = Get(inbox)
    <3>1. inbox \in Inbox BY DEF BoxInv, BoxTypes
    <3>2. inbox.gen \in Nat /\ inbox.stopped \in BOOLEAN BY <3>1 DEF Inbox
    <3>3. /\ inbox' \in Inbox /\ inbox'.gen # 0 /\ inbox'.box = inbox.box /\ inbox'.stopped = FALSE
          /\ (inbox'.gen = inbox.gen /\ ~inbox.stopped) \/ inbox'.gen = inbox.gen + 1
      BY <2>2, GetFacts
    <3>4. QED BY <3>2, <3>3
  <2>3. QED BY <2>1, <2>2
<1>2. st \in [Messages -> {"new", "working", "flight", "box", "read", "dropped"}]
  BY DEF BoxInv, BoxTypes
<1>3. BoxTypes' BY <1>1, <1>2 DEF BoxInv, BoxTypes
<1>4. \A k \in 1..Len(inbox.box) : inbox.box[k] # m BY DEF BoxInv
<1>5. inbox.box \in Seq(Messages) BY DEF BoxInv, BoxTypes, Inbox
<1>6. \A k \in 1..Len(inbox.box) : st'[inbox.box[k]] = "box"
  <2> SUFFICES ASSUME NEW k \in 1..Len(inbox.box) PROVE st'[inbox.box[k]] = "box" OBVIOUS
  <2>1. inbox.box[k] \in Messages BY <1>5
  <2>2. st[inbox.box[k]] = "box" BY DEF BoxInv
  <2>3. QED BY <1>2, <1>4, <2>1, <2>2
<1>7. inbox'.gen = 0 \/ inbox'.stopped => inbox.box = <<>>
  <2>1. inbox.gen = 0 \/ inbox.stopped => inbox.box = <<>> BY DEF BoxInv
  <2>2. inbox' = inbox \/ (inbox'.gen # 0 /\ inbox'.stopped = FALSE) BY GetFacts
  <2>3. QED BY <2>1, <2>2
<1>8. ASSUME NEW x \in Messages
      PROVE  /\ st'[x] = "box" => Contains(inbox.box, x) /\ born'[x] = stops'
             /\ OnItsWay(x)' => inbox'.gen # 0 /\ target'[x] <= inbox'.gen
             /\ OnItsWay(x)' /\ Accepts(inbox', target'[x]) => born'[x] = stops'
  <2>1. CASE x = m BY <2>1, <1>2 DEF OnItsWay
  <2>2. CASE x # m
    <3>1. st'[x] = st[x] /\ target'[x] = target[x] /\ born'[x] = born[x] BY <2>2, <1>2
    <3>2. inbox.gen \in Nat /\ target[x] \in Nat BY DEF BoxInv, BoxTypes, Inbox
    <3>3. OnItsWay(x) => target[x] <= inbox.gen BY DEF BoxInv
    <3>4. OnItsWay(x) => target[x] <= inbox'.gen /\ (Accepts(inbox', target[x]) => Accepts(inbox, target[x]))
      BY <1>1, <3>2, <3>3 DEF Accepts
    <3>5. st[x] = "box" => Contains(inbox.box, x) /\ born[x] = stops BY DEF BoxInv
    <3>6. /\ OnItsWay(x) /\ Accepts(inbox, target[x]) => born[x] = stops
          /\ OnItsWay(x) => inbox.gen # 0
      BY DEF BoxInv
    <3>7. QED BY <1>1, <3>1, <3>4, <3>5, <3>6 DEF OnItsWay
  <2>3. QED BY <2>1, <2>2
<1>9. \A k, l \in 1..Len(inbox.box) : inbox.box[k] = inbox.box[l] => k = l BY DEF BoxInv
<1>10. QED BY <1>1, <1>3, <1>6, <1>7, <1>8, <1>9 DEF BoxInv

(* The inbox is closed, and what it held is dropped.                       *)
LEMMA CloseKeeps ==
  ASSUME BoxInv, inbox' = Close(inbox), st' = Dropped(inbox), stops' \in Nat,
         UNCHANGED <<target, born>>
  PROVE  BoxInv'
<1>1. inbox' \in Inbox /\ inbox'.box = <<>> /\ inbox'.stopped = TRUE /\ inbox'.gen = inbox.gen
  <2>1. inbox \in Inbox BY DEF BoxInv, BoxTypes
  <2>2. inbox' = [gen |-> inbox.gen, box |-> <<>>, stopped |-> TRUE]
    BY <2>1 DEF Inbox, Close
  <2>3. <<>> \in Seq(Messages) OBVIOUS
  <2>4. QED BY <2>1, <2>2, <2>3 DEF Inbox
<1>2. st \in [Messages -> {"new", "working", "flight", "box", "read", "dropped"}]
  BY DEF BoxInv, BoxTypes
<1>3. st' \in [Messages -> {"new", "working", "flight", "box", "read", "dropped"}]
  BY <1>2 DEF Dropped
<1>4. ASSUME NEW x \in Messages
      PROVE  st'[x] # "box" /\ (OnItsWay(x)' => OnItsWay(x)) /\ ~Accepts(inbox', target'[x])
  <2>1. st[x] = "box" => Contains(inbox.box, x) BY DEF BoxInv
  <2>2. st'[x] = IF Contains(inbox.box, x) THEN "dropped" ELSE st[x] BY DEF Dropped
  <2>3. QED BY <1>1, <2>1, <2>2 DEF OnItsWay, Accepts
<1>5. BoxTypes' BY <1>1, <1>3 DEF BoxInv, BoxTypes
<1>6. QED BY <1>1, <1>4, <1>5 DEF BoxInv

(* The first message is taken out.                                         *)
LEMMA PopKeeps ==
  ASSUME BoxInv, inbox.box # <<>>, inbox' = [inbox EXCEPT !.box = Tail(@)],
         st' = [st EXCEPT ![Head(inbox.box)] = "read"], UNCHANGED <<target, born, stops>>
  PROVE  BoxInv'
<1> DEFINE old == inbox.box
           now == inbox'.box
<1>1. inbox \in Inbox /\ old \in Seq(Messages) BY DEF BoxInv, BoxTypes, Inbox
<1>2. /\ inbox' \in Inbox /\ now = Tail(old)
      /\ inbox'.gen = inbox.gen /\ inbox'.stopped = inbox.stopped
  <2>1. Tail(old) \in Seq(Messages) BY <1>1, HeadTailProperties
  <2>2. QED BY <1>1, <2>1 DEF Inbox
<1>3. st \in [Messages -> {"new", "working", "flight", "box", "read", "dropped"}]
  BY DEF BoxInv, BoxTypes
<1>4. /\ \A k \in 1..Len(old) : st[old[k]] = "box"
      /\ \A k, l \in 1..Len(old) : old[k] = old[l] => k = l
      /\ \A x \in Messages : st[x] = "box" => Contains(old, x)
      /\ inbox.gen = 0 \/ inbox.stopped => old = <<>>
  BY DEF BoxInv
<1>5. BoxTypes' BY <1>2, <1>3 DEF BoxInv, BoxTypes
<1> HIDE DEF old, now
<1>6. /\ Len(old) \in Nat \ {0} /\ Len(now) = Len(old) - 1 /\ Head(old) = old[1]
      /\ \A k \in 1..Len(now) : now[k] = old[k + 1]
      /\ \A k \in 1..Len(old) : old[k] \in Messages
  BY <1>1, <1>2 DEF old
<1>7. \A k \in 1..Len(now) : st'[now[k]] = "box" /\ now[k] # Head(old)
  <2> SUFFICES ASSUME NEW k \in 1..Len(now) PROVE st'[now[k]] = "box" /\ now[k] # Head(old) OBVIOUS
  <2>1. k + 1 \in 1..Len(old) /\ 1 \in 1..Len(old) /\ k + 1 # 1 BY <1>6
  <2>2. now[k] # Head(old) BY <1>4, <1>6, <2>1
  <2>3. st[now[k]] = "box" /\ now[k] \in Messages BY <1>4, <1>6, <2>1
  <2>4. QED BY <1>3, <2>2, <2>3 DEF old
<1>8. \A k, l \in 1..Len(now) : now[k] = now[l] => k = l
  <2> SUFFICES ASSUME NEW k \in 1..Len(now), NEW l \in 1..Len(now), now[k] = now[l] PROVE k = l
    OBVIOUS
  <2>1. k + 1 \in 1..Len(old) /\ l + 1 \in 1..Len(old) BY <1>6
  <2>2. k + 1 = l + 1 BY <1>4, <1>6, <2>1
  <2>3. QED BY <2>2
<1>9. ASSUME NEW x \in Messages
      PROVE  /\ st'[x] = "box" => Contains(now, x) /\ st[x] = "box"
             /\ OnItsWay(x)' => OnItsWay(x)
  <2>1. CASE x = Head(old) BY <2>1, <1>3 DEF OnItsWay, old
  <2>2. CASE x # Head(old)
    <3>1. st'[x] = st[x] BY <2>2, <1>3 DEF old
    <3>2. ASSUME st[x] = "box" PROVE \E k \in 1..Len(now) : now[k] = x
      <4>1. PICK k \in 1..Len(old) : old[k] = x BY <1>4, <3>2 DEF Contains
      <4>2. k # 1 BY <1>6, <2>2, <4>1
      <4>3. k - 1 \in 1..Len(now) /\ (k - 1) + 1 = k BY <1>6, <4>2
      <4>4. now[k - 1] = x BY <1>6, <4>1, <4>3
      <4>5. QED BY <4>3, <4>4
    <3>3. QED BY <3>1, <3>2 DEF Contains, OnItsWay
  <2>3. QED BY <2>1, <2>2
<1>10. inbox'.gen = 0 \/ inbox'.stopped => now = <<>> BY <1>2, <1>4 DEF old
<1>11. QED BY <1>2, <1>5, <1>7, <1>8, <1>9, <1>10 DEF BoxInv, OnItsWay, Accepts, now

-----------------------------------------------------------------------------
(* What a message that arrives does to the inbox.                          *)
LEMMA PostKeepsBox ==
  ASSUME BoxInv, NEW m \in Messages, st[m] \in {"new", "working", "flight"},
         NEW i, i = inbox \/ i = Get(inbox), NEW g, Post(m, i, g), stops' = stops,
         target' \in [Messages -> Nat], born' \in [Messages -> Nat],
         \A x \in Messages : x # m => target'[x] = target[x] /\ born'[x] = born[x],
         Accepts(i, g) => i.gen # 0 /\ born'[m] = stops
  PROVE  BoxInv'
<1>1. CASE Accepts(i, g)
  <2> DEFINE more == [i EXCEPT !.box = Append(@, m)]
  <2>1. i \in Inbox BY GetFacts DEF BoxInv, BoxTypes
  <2>2. Append(i.box, m) \in Seq(Messages) BY <2>1 DEF Inbox
  <2>3. more.gen = i.gen /\ more.stopped = i.stopped BY <2>1 DEF Inbox
  <2>4. i.gen # 0 /\ ~i.stopped BY <1>1 DEF Accepts
  <2>5. Get(more) = more BY <2>3, <2>4 DEF Get
  <2>6. inbox' = more /\ st' = [st EXCEPT ![m] = "box"] BY <1>1, <2>5 DEF Post, Wake
  <2>7. i = Get(inbox) \/ (i = inbox /\ inbox.gen # 0) BY <2>4
  <2>8. QED BY <1>1, <2>4, <2>6, <2>7, PutKeeps
<1>2. CASE ~Accepts(i, g)
  <2>1. inbox' = i /\ st' = [st EXCEPT ![m] = "dropped"] BY <1>2 DEF Post
  <2>2. QED BY <2>1, MoveKeeps
<1>3. QED BY <1>1, <1>2

LEMMA MessagesKeepBox ==
  ASSUME BoxInv, NEW m \in Messages, Send(m) \/ Delegate(m) \/ Report(m) \/ Arrive(m)
  PROVE  BoxInv'
<1>1. /\ target \in [Messages -> Nat] /\ born \in [Messages -> Nat] /\ stops \in Nat
      /\ inbox \in Inbox
  BY DEF BoxInv, BoxTypes
<1>2. CASE Send(m)
  <2> DEFINE i == Get(inbox)
  <2>1. i \in Inbox /\ i.gen \in Nat \ {0} BY GetFacts DEF Inbox
  <2>2. /\ st[m] = "new" /\ stops' = stops
        /\ target' = [target EXCEPT ![m] = i.gen] /\ born' = [born EXCEPT ![m] = stops]
        /\ Post(m, i, i.gen) \/ (inbox' = i /\ st' = [st EXCEPT ![m] = "flight"])
    BY <1>2 DEF Send
  <2> HIDE DEF i
  <2>3. /\ target' \in [Messages -> Nat] /\ born' \in [Messages -> Nat]
        /\ target'[m] = i.gen /\ born'[m] = stops
        /\ \A x \in Messages : x # m => target'[x] = target[x] /\ born'[x] = born[x]
    BY <1>1, <2>1, <2>2
  <2>4. CASE Post(m, i, i.gen) BY <2>1, <2>2, <2>3, <2>4, PostKeepsBox DEF i
  <2>5. CASE inbox' = i /\ st' = [st EXCEPT ![m] = "flight"]
    <3>1. inbox' \in {inbox, Get(inbox)} BY <2>5 DEF i
    <3>2. inbox'.gen # 0 /\ target'[m] <= inbox'.gen BY <2>1, <2>3, <2>5
    <3>3. st[m] \in {"new", "working", "flight"} BY <2>2
    <3>4. QED BY <2>2, <2>3, <2>5, <3>1, <3>2, <3>3, MoveKeeps
  <2>6. QED BY <2>2, <2>4, <2>5
<1>3. CASE Delegate(m)
  <2>1. inbox' = Get(inbox) /\ inbox'.gen \in Nat \ {0}
    BY <1>3, GetFacts DEF Delegate, Inbox
  <2>2. /\ st[m] = "new" /\ stops' = stops /\ st' = [st EXCEPT ![m] = "working"]
        /\ target' = [target EXCEPT ![m] = inbox'.gen] /\ born' = [born EXCEPT ![m] = stops]
    BY <1>3 DEF Delegate
  <2>3. /\ target' \in [Messages -> Nat] /\ born' \in [Messages -> Nat]
        /\ target'[m] = inbox'.gen /\ born'[m] = stops
        /\ \A x \in Messages : x # m => target'[x] = target[x] /\ born'[x] = born[x]
    BY <1>1, <2>1, <2>2
  <2>4. inbox' \in {inbox, Get(inbox)} /\ st[m] \in {"new", "working", "flight"} BY <2>1, <2>2
  <2>5. inbox'.gen # 0 /\ target'[m] <= inbox'.gen BY <2>1, <2>3
  <2>6. QED BY <2>2, <2>3, <2>4, <2>5, MoveKeeps
<1>4. CASE Report(m) \/ Arrive(m)
  <2>1. /\ OnItsWay(m) /\ UNCHANGED <<target, born, stops>>
        /\ \/ Post(m, inbox, target[m])
           \/ Accepts(inbox, target[m]) /\ st' = [st EXCEPT ![m] = "flight"] /\ inbox' = inbox
    BY <1>4 DEF Report, Arrive, OnItsWay
  <2>2. /\ inbox.gen # 0 /\ target[m] <= inbox.gen
        /\ Accepts(inbox, target[m]) => born[m] = stops
    BY <2>1 DEF BoxInv
  <2>3. st[m] \in {"new", "working", "flight"} BY <2>1 DEF OnItsWay
  <2>4. CASE Post(m, inbox, target[m]) BY <1>1, <2>1, <2>2, <2>3, <2>4, PostKeepsBox
  <2>5. CASE st' = [st EXCEPT ![m] = "flight"] /\ inbox' = inbox
    BY <1>1, <2>1, <2>2, <2>3, <2>5, MoveKeeps
  <2>6. QED BY <2>1, <2>4, <2>5
<1>5. QED BY <1>2, <1>3, <1>4

-----------------------------------------------------------------------------
(* A drain works on what it took from the inbox: as long as that is open,  *)
(* it is what the inbox still begins with.  A message is in the history    *)
(* once it was taken out, and while it is being put there.                 *)
Bounds   == [run : Nat, drain : Nat]
Draining == active # NoRunner /\ phase[active] = "running" /\ stage = "drain"
DrainInv ==
  /\ todo \in Seq(Messages) /\ mid \in BOOLEAN /\ history \in SUBSET Messages
  /\ bound \in Bounds /\ bound.drain <= inbox.gen
  /\ mid => todo # <<>>
  /\ todo # <<>> => Draining
  /\ \A i \in 1..Len(todo) : st[todo[i]] \in {"box", "dropped"}
  /\ \A i, j \in 1..Len(todo) : todo[i] = todo[j] => i = j
  /\ stage = "drain" /\ Accepts(inbox, bound.drain) =>
       /\ Len(todo) <= Len(inbox.box)
       /\ \A i \in 1..Len(todo) : todo[i] = inbox.box[i]
  /\ \A m \in Messages : m \in history <=> st[m] = "read" \/ (mid /\ m = todo[1])

LEMMA InitDrain == Init => DrainInv
<1> SUFFICES ASSUME Init PROVE DrainInv OBVIOUS
<1>1. /\ todo = <<>> /\ mid = FALSE /\ history = {} /\ stage = "top"
      /\ bound = [run |-> 0, drain |-> 0] /\ inbox = [gen |-> 0, box |-> <<>>, stopped |-> FALSE]
      /\ st = [m \in Messages |-> "new"]
  BY DEF Init
<1>2. bound.drain = 0 /\ inbox.gen = 0 /\ \A m \in Messages : st[m] = "new" BY <1>1
<1>3. <<>> \in Seq(Messages) /\ Len(<<>>) = 0 OBVIOUS
<1>4. todo \in Seq(Messages) /\ mid \in BOOLEAN /\ history \in SUBSET Messages /\ bound \in Bounds
  BY <1>1, <1>3 DEF Bounds
<1>5. \A m \in Messages : m \in history <=> st[m] = "read" \/ (mid /\ m = todo[1])
  BY <1>1, <1>2
<1>6. \A i \in 1..Len(todo) : FALSE BY <1>1, <1>3
<1>7. todo = <<>> /\ ~mid /\ stage # "drain" BY <1>1
<1>8. QED BY <1>2, <1>4, <1>5, <1>6, <1>7 DEF DrainInv

-----------------------------------------------------------------------------
(* What happens around a drain: messages arrive, are dropped, or the inbox *)
(* is closed or replaced; what the inbox holds only ever gets longer.      *)
Moved(m) ==
  \/ st'[m] = st[m]
  \/ st[m] \in {"new", "working", "flight"} /\ st'[m] # "read"
  \/ st[m] = "box" /\ st'[m] = "dropped"

Longer == /\ Len(inbox.box) <= Len(inbox'.box)
          /\ \A i \in 1..Len(inbox.box) : inbox'.box[i] = inbox.box[i]

Around ==
  /\ UNCHANGED <<history, todo, mid, stage, bound>> /\ (Draining => Draining')
  /\ inbox'.gen \in Nat /\ inbox'.gen >= inbox.gen
  /\ Accepts(inbox', bound.drain) => Accepts(inbox, bound.drain) /\ Longer
  /\ \A m \in Messages : Moved(m)

LEMMA AroundKeeps == ASSUME BoxInv, DrainInv, Around PROVE DrainInv'
<1>1. inbox.gen \in Nat /\ inbox.box \in Seq(Messages) BY DEF BoxInv, BoxTypes, Inbox
<1>2. todo' = todo /\ mid' = mid /\ history' = history /\ stage' = stage /\ bound' = bound
  BY DEF Around
<1>3. todo \in Seq(Messages) /\ \A i \in 1..Len(todo) : todo[i] \in Messages BY DEF DrainInv
<1>4. \A i \in 1..Len(todo) : st'[todo[i]] \in {"box", "dropped"}
  BY <1>3 DEF DrainInv, Around, Moved
<1>5. bound.drain <= inbox'.gen BY <1>1 DEF DrainInv, Around, Bounds
<1>6. ASSUME stage = "drain", Accepts(inbox', bound.drain)
      PROVE  Len(todo) <= Len(inbox'.box) /\ \A i \in 1..Len(todo) : todo[i] = inbox'.box[i]
  <2>1. /\ Len(todo) <= Len(inbox.box) /\ \A i \in 1..Len(todo) : todo[i] = inbox.box[i]
        /\ Longer
    BY <1>6 DEF Around, DrainInv
  <2>2. Len(todo) \in Nat /\ Len(inbox.box) \in Nat BY <1>1, <1>3
  <2>3. QED BY <2>1, <2>2 DEF Longer
<1>7. ASSUME NEW m \in Messages
      PROVE  m \in history <=> st'[m] = "read" \/ (mid /\ m = todo[1])
  <2>1. m \in history <=> st[m] = "read" \/ (mid /\ m = todo[1]) BY DEF DrainInv
  <2>2. st'[m] = "read" <=> st[m] = "read" BY DEF Around, Moved
  <2>3. QED BY <2>1, <2>2
<1>8. QED BY <1>2, <1>4, <1>5, <1>6, <1>7 DEF DrainInv, Around

(* The run of an execution that is neither started nor ended goes on.      *)
LEMMA CallsKeptDrains ==
  ASSUME LoopInv, CallsKept, UNCHANGED stage
  PROVE  Draining => Draining'
<1>1. active \in Runners /\ phase[active] = "running" => phase'[active] = "running"
  BY DEF CallsKept, LoopInv, Runners
<1>2. QED BY <1>1 DEF CallsKept, Draining, LoopInv, NoRunner

(* Looking at the inbox, and waking, leaves it or opens the next one.      *)
LEMMA GetIsAround ==
  ASSUME BoxInv, DrainInv, inbox' \in {inbox, Get(inbox)}
  PROVE  /\ inbox'.gen \in Nat /\ inbox'.gen >= inbox.gen
         /\ Accepts(inbox', bound.drain) => Accepts(inbox, bound.drain) /\ Longer
         /\ inbox'.box = inbox.box
<1>1. inbox \in Inbox BY DEF BoxInv, BoxTypes
<1>2. inbox.gen \in Nat /\ inbox.box \in Seq(Messages) /\ inbox.stopped \in BOOLEAN
  BY <1>1 DEF Inbox
<1>3. bound.drain \in Nat /\ bound.drain <= inbox.gen BY DEF DrainInv, Bounds
<1>4. CASE inbox' = inbox BY <1>2, <1>4 DEF Longer
<1>5. CASE inbox' = Get(inbox)
  <2>1. /\ inbox' \in Inbox /\ inbox'.box = inbox.box /\ inbox'.stopped = FALSE
        /\ (inbox'.gen = inbox.gen /\ ~inbox.stopped) \/ inbox'.gen = inbox.gen + 1
    BY <1>5, GetFacts
  <2>2. inbox'.gen \in Nat BY <2>1 DEF Inbox
  <2>3. Longer BY <1>2, <2>1 DEF Longer
  <2>4. QED BY <1>2, <1>3, <2>1, <2>2, <2>3 DEF Accepts
<1>6. QED BY <1>4, <1>5

LEMMA WakeLooks ==
  ASSUME NEW w, NEW j, NEW n, NEW ph, Wake(inbox, w, j, n, ph)
  PROVE  inbox' \in {inbox, Get(inbox)}
BY DEF Wake

LEMMA LookedIsAround ==
  ASSUME BoxInv, DrainInv, Looked, UNCHANGED <<history, todo, mid, stage, bound>>,
         Draining => Draining'
  PROVE  Around
<1>1. inbox' \in {inbox, Get(inbox)} /\ \A m \in Messages : st'[m] = st[m] BY DEF Looked
<1>2. QED BY <1>1, GetIsAround DEF Around, Moved

(* A message that arrives is put last or dropped.                          *)
LEMMA PostIsAround ==
  ASSUME BoxInv, DrainInv, NEW m \in Messages, st[m] \in {"new", "working", "flight"},
         NEW i, i = inbox \/ i = Get(inbox), NEW g, Post(m, i, g), Accepts(i, g) => i.gen # 0,
         UNCHANGED <<history, todo, mid, stage, bound>>, Draining => Draining'
  PROVE  Around
<1>1. st \in [Messages -> {"new", "working", "flight", "box", "read", "dropped"}]
      /\ inbox \in Inbox
  BY DEF BoxInv, BoxTypes
<1>2. i \in Inbox BY <1>1, GetFacts
<1>3. inbox.box \in Seq(Messages) /\ inbox.gen \in Nat BY <1>1 DEF Inbox
<1>4. CASE Accepts(i, g)
  <2> DEFINE more == [i EXCEPT !.box = Append(@, m)]
  <2>1. more.gen = i.gen /\ more.stopped = i.stopped /\ more.box = Append(i.box, m)
    BY <1>2 DEF Inbox
  <2>2. i.gen # 0 /\ ~i.stopped BY <1>4 DEF Accepts
  <2>3. Get(more) = more BY <2>1, <2>2 DEF Get
  <2>4. inbox' = more /\ st' = [st EXCEPT ![m] = "box"] BY <1>4, <2>3 DEF Post, Wake
  <2>5. /\ inbox'.box = Append(inbox.box, m) /\ inbox'.gen = i.gen /\ inbox'.stopped = i.stopped
        /\ i = inbox \/ (i.gen = inbox.gen /\ ~inbox.stopped) \/ i.gen = inbox.gen + 1
    BY <2>1, <2>4, GetFacts
  <2>6. Longer BY <1>3, <2>5 DEF Longer
  <2>7. i.gen \in Nat /\ bound.drain \in Nat /\ bound.drain <= inbox.gen
    BY <1>2 DEF Inbox, DrainInv, Bounds
  <2>8. inbox'.gen \in Nat /\ inbox'.gen >= inbox.gen BY <1>3, <2>5, <2>7
  <2>9. Accepts(inbox', bound.drain) => Accepts(inbox, bound.drain)
    <3>1. CASE i = inbox BY <2>5, <3>1 DEF Accepts
    <3>2. CASE i.gen = inbox.gen /\ ~inbox.stopped BY <2>5, <3>2 DEF Accepts
    <3>3. CASE i.gen = inbox.gen + 1 BY <1>3, <2>5, <2>7, <3>3 DEF Accepts
    <3>4. QED BY <2>5, <3>1, <3>2, <3>3
  <2>10. \A x \in Messages : Moved(x) BY <1>1, <2>4 DEF Moved
  <2>11. QED BY <2>6, <2>8, <2>9, <2>10 DEF Around
<1>5. CASE ~Accepts(i, g)
  <2>1. inbox' \in {inbox, Get(inbox)} /\ st' = [st EXCEPT ![m] = "dropped"] BY <1>5 DEF Post
  <2>2. \A x \in Messages : Moved(x) BY <1>1, <2>1 DEF Moved
  <2>3. QED BY <2>1, <2>2, GetIsAround DEF Around
<1>6. QED BY <1>4, <1>5

-----------------------------------------------------------------------------
InboxInv == LoopInv /\ BoxInv /\ DrainInv

(* What a drain is doing is left alone.                                    *)
Aside == UNCHANGED <<history, todo, mid, stage, bound>>

LEMMA MessagesKeep ==
  ASSUME InboxInv, NEW m \in Messages, Send(m) \/ Delegate(m) \/ Report(m) \/ Arrive(m)
  PROVE  BoxInv' /\ DrainInv'
<1> USE DEF InboxInv
<1>1. BoxInv' BY MessagesKeepBox
<1>2. Aside /\ UNCHANGED stage BY DEF Aside, Send, Delegate, Report, Arrive
<1>3. CallsKept BY OthersKeepCalls
<1>4. Draining => Draining' BY <1>2, <1>3, CallsKeptDrains
<1>5. st \in [Messages -> {"new", "working", "flight", "box", "read", "dropped"}]
  BY DEF BoxInv, BoxTypes
<1>6. ASSUME NEW i, i = inbox \/ i = Get(inbox), NEW g, Post(m, i, g), Accepts(i, g) => i.gen # 0,
             st[m] \in {"new", "working", "flight"}
      PROVE  BoxInv' /\ DrainInv'
  <2>1. UNCHANGED <<history, todo, mid, stage, bound>> BY <1>2 DEF Aside
  <2>2. Around BY <1>4, <1>6, <2>1, PostIsAround
  <2>3. QED BY <1>1, <2>2, AroundKeeps
<1>7. CASE /\ inbox' \in {inbox, Get(inbox)} /\ st[m] \in {"new", "working", "flight"}
           /\ \E how \in {"working", "flight"} : st' = [st EXCEPT ![m] = how]
  <2>1. \A x \in Messages : Moved(x) BY <1>5, <1>7 DEF Moved
  <2>2. Around BY <1>2, <1>4, <1>7, <2>1, GetIsAround DEF Around, Aside
  <2>3. QED BY <1>1, <2>2, AroundKeeps
<1>8. CASE Send(m)
  <2>1. /\ st[m] = "new"
        /\ \/ Post(m, Get(inbox), Get(inbox).gen)
           \/ inbox' = Get(inbox) /\ st' = [st EXCEPT ![m] = "flight"]
    BY <1>8 DEF Send
  <2>2. Get(inbox).gen # 0 BY GetFacts
  <2>3. QED BY <1>6, <1>7, <2>1, <2>2
<1>9. CASE Delegate(m) BY <1>7, <1>9 DEF Delegate
<1>10. CASE Report(m) \/ Arrive(m)
  <2>1. OnItsWay(m) BY <1>10 DEF Report, Arrive, OnItsWay
  <2>2. inbox.gen # 0 BY <2>1 DEF BoxInv
  <2>3. \/ Post(m, inbox, target[m])
        \/ inbox' = inbox /\ st' = [st EXCEPT ![m] = "flight"]
    BY <1>10 DEF Report, Arrive
  <2>4. QED BY <1>6, <1>7, <2>1, <2>2, <2>3 DEF OnItsWay
<1>11. QED BY <1>8, <1>9, <1>10

(* Steps that only look at the inbox.                                      *)
LEMMA LooksKeep ==
  ASSUME InboxInv, Looked, Aside, Draining => Draining'
  PROVE  BoxInv' /\ DrainInv'
BY LookedKeeps, LookedIsAround, AroundKeeps DEF InboxInv, Aside

LEMMA DeliveriesKeep ==
  ASSUME InboxInv, WakeDelivered \/ JobDelivered \/ \E n \in 1..RetryLimit : RetryDue(n)
  PROVE  BoxInv' /\ DrainInv'
<1>1. Looked
  <2>1. UNCHANGED <<st, target, born, stops>> BY DEF WakeDelivered, JobDelivered, RetryDue
  <2>2. inbox' \in {inbox, Get(inbox)}
    BY WakeLooks DEF WakeDelivered, JobDelivered, RetryDue
  <2>3. QED BY <2>1, <2>2 DEF Looked
<1>2. Aside BY DEF WakeDelivered, JobDelivered, RetryDue, Aside
<1>3. Draining => Draining' BY <1>2, DeliveryKeepsCalls, CallsKeptDrains DEF InboxInv, Aside
<1>4. QED BY <1>1, <1>2, <1>3, LooksKeep

(* Calls begin, go on and end, but not their runs.                         *)
LEMMA CallsKeep ==
  ASSUME InboxInv,
         \/ StartPrompt \/ StartJob \/ WakeChecked
         \/ \E r \in Runners : ReturnEarly(r) \/ Proceed(r) \/ Release(r) \/ Cancel(r)
  PROVE  BoxInv' /\ DrainInv'
<1>1. Looked
  <2>1. UNCHANGED <<st, target, born, stops>>
    BY DEF StartPrompt, StartJob, WakeChecked, ReturnEarly, Proceed, Release, Cancel, inboxVars
  <2>2. inbox' \in {inbox, Get(inbox)}
    <3>1. CASE StartPrompt \/ StartJob \/ WakeChecked
      BY <3>1 DEF StartPrompt, StartJob, WakeChecked, inboxVars
    <3>2. CASE \E r \in Runners : ReturnEarly(r) \/ Proceed(r) \/ Cancel(r)
      BY <3>2 DEF ReturnEarly, Proceed, Cancel, inboxVars
    <3>3. CASE \E r \in Runners : Release(r) BY <3>3, WakeLooks DEF Release
    <3>4. QED BY <3>1, <3>2, <3>3
  <2>3. QED BY <2>1, <2>2 DEF Looked
<1>2. Aside
  BY DEF StartPrompt, StartJob, WakeChecked, ReturnEarly, Proceed, Release, Cancel, inboxVars, Aside
<1>3. ASSUME Draining PROVE Draining'
  <2>1. active \in Runners /\ phase[active] = "running" /\ phase \in [Runners -> Phases]
    BY <1>3 DEF InboxInv, LoopInv, Draining
  <2>2. active' = active /\ phase'[active] = "running"
    <3>1. CASE StartPrompt \/ StartJob \/ WakeChecked
      BY <2>1, <3>1 DEF StartPrompt, StartJob, WakeChecked, Goto, inboxVars
    <3>2. CASE \E r \in Runners : ReturnEarly(r)
      BY <2>1, <3>2 DEF ReturnEarly, Goto
    <3>3. CASE \E r \in Runners : Proceed(r)
      <4>1. PICK r \in Runners : Proceed(r) BY <3>3
      <4>2. CASE Enter(r) \/ Refuse(r) BY <2>1, <4>2 DEF Enter, Refuse, Goto
      <4>3. CASE Unregister(r)
        BY <2>1, <4>3 DEF Unregister, InboxInv, LoopInv
      <4>4. QED BY <4>1, <4>2, <4>3 DEF Proceed
    <3>4. CASE \E r \in Runners : Cancel(r) BY <2>1, <3>4 DEF Cancel
    <3>5. CASE \E r \in Runners : Release(r)
      <4>1. PICK r \in Runners : Release(r) BY <3>5
      <4>2. phase[r] = "popped" /\ active' = active BY <4>1 DEF Release
      <4>3. phase["wake"] # "off" => wake.state # "none" BY DEF InboxInv, LoopInv
      <4>4. CASE Wake(inbox, wake, job, 0, [phase EXCEPT ![r] = "off"])
        <5>1. CASE phase' = [phase EXCEPT ![r] = "off"] BY <2>1, <4>2, <5>1
        <5>2. CASE /\ phase' = [[phase EXCEPT ![r] = "off"] EXCEPT !["wake"] = "check"]
                   /\ wake.state = "none"
          <6>1. active # "wake" BY <2>1, <4>3, <5>2
          <6>2. QED BY <2>1, <4>2, <5>2, <6>1
        <5>3. QED BY <4>4, <5>1, <5>2, WakePhases
      <4>5. CASE phase' = [phase EXCEPT ![r] = "off"] BY <2>1, <4>2, <4>5
      <4>6. QED BY <4>1, <4>4, <4>5 DEF Release, Goto
    <3>6. QED BY <3>1, <3>2, <3>3, <3>4, <3>5
  <2>3. QED BY <1>2, <1>3, <2>2 DEF Draining, Aside
<1>4. QED BY <1>1, <1>2, <1>3, LooksKeep

-----------------------------------------------------------------------------
(* What is waiting is what the inbox holds.                                *)
LEMMA DroppedFacts ==
  ASSUME BoxInv, NEW m \in Messages
  PROVE  Dropped(inbox)[m] = IF st[m] = "box" THEN "dropped" ELSE st[m]
<1>1. Contains(inbox.box, m) <=> st[m] = "box" BY DEF BoxInv, Contains
<1>2. Dropped(inbox)[m] = IF Contains(inbox.box, m) THEN "dropped" ELSE st[m] BY DEF Dropped
<1>3. QED BY <1>1, <1>2

(* A stop: what waits is dropped, or there was nothing to stop.            *)
LEMMA StopKeeps == ASSUME InboxInv, Stop PROVE BoxInv' /\ DrainInv'
<1> USE DEF InboxInv
<1>1. stops \in Nat /\ inbox \in Inbox BY DEF BoxInv, BoxTypes
<1>2. stops' = stops + 1 /\ UNCHANGED <<target, born>> /\ Aside BY DEF Stop, Aside
<1>3. Draining => Draining' BY DEF Stop, Draining
<1>4. CASE inbox.gen = 0
  <2>1. inbox' = inbox /\ st' = st BY <1>4 DEF Stop
  <2>2. \A m \in Messages : ~OnItsWay(m) /\ st[m] # "box"
    BY <1>4 DEF BoxInv, Contains
  <2>3. BoxTypes' BY <1>1, <1>2, <2>1 DEF BoxInv, BoxTypes
  <2>4. BoxInv' BY <1>2, <2>1, <2>2, <2>3 DEF BoxInv, OnItsWay
  <2>5. Around BY <1>2, <1>3, <2>1, GetIsAround DEF Around, Moved, Aside
  <2>6. QED BY <2>4, <2>5, AroundKeeps
<1>5. CASE inbox.gen # 0
  <2>1. inbox' = Close(inbox) /\ st' = Dropped(inbox) BY <1>5 DEF Stop
  <2>2. BoxInv' BY <1>1, <1>2, <2>1, CloseKeeps
  <2>3. inbox'.gen = inbox.gen /\ inbox'.stopped = TRUE /\ inbox.gen \in Nat
    BY <1>1, <2>1 DEF Close, Inbox
  <2>4. \A m \in Messages : Moved(m) BY <2>1, DroppedFacts DEF Moved
  <2>5. Around BY <1>2, <1>3, <2>3, <2>4 DEF Around, Aside, Accepts
  <2>6. QED BY <2>2, <2>5, AroundKeeps
<1>6. QED BY <1>4, <1>5

-----------------------------------------------------------------------------
(* A drain that ends early takes the message back that it was putting in   *)
(* the history.                                                            *)
LEMMA DrainEnds ==
  ASSUME InboxInv, todo' = <<>>, mid' = FALSE, stage' # "drain", bound' = bound,
         history' = IF mid THEN history \ {Head(todo)} ELSE history,
         inbox'.gen = inbox.gen, \A m \in Messages : Moved(m)
  PROVE  DrainInv'
<1>1. <<>> \in Seq(Messages) /\ Len(<<>>) = 0 OBVIOUS
<1>2. todo \in Seq(Messages) /\ mid \in BOOLEAN /\ history \in SUBSET Messages
      /\ bound \in Bounds /\ bound.drain <= inbox.gen
  BY DEF InboxInv, DrainInv
<1>3. ASSUME NEW m \in Messages PROVE m \in history' <=> st'[m] = "read"
  <2>1. m \in history <=> st[m] = "read" \/ (mid /\ m = todo[1]) BY DEF InboxInv, DrainInv
  <2>2. st'[m] = "read" <=> st[m] = "read" BY DEF Moved
  <2>3. CASE mid
    <3>1. todo # <<>> BY <2>3 DEF InboxInv, DrainInv
    <3>2. Head(todo) = todo[1] /\ 1 \in 1..Len(todo) BY <1>2, <3>1
    <3>3. st[todo[1]] \in {"box", "dropped"} BY <3>2 DEF InboxInv, DrainInv
    <3>4. QED BY <2>1, <2>2, <2>3, <3>2, <3>3
  <2>4. CASE ~mid BY <2>1, <2>2, <2>4
  <2>5. QED BY <2>3, <2>4
<1>4. \A i \in 1..Len(todo') : FALSE BY <1>1
<1>5. bound' \in Bounds /\ bound'.drain <= inbox'.gen /\ history' \in SUBSET Messages BY <1>2
<1>6. QED BY <1>1, <1>3, <1>4, <1>5 DEF DrainInv

(* Between two drains nothing is taken.                                    *)
LEMMA IdleKeeps ==
  ASSUME InboxInv, todo = <<>>, Looked, UNCHANGED <<history, todo, mid>>,
         bound' \in Bounds, bound'.drain = bound.drain, stage' # "drain"
  PROVE  BoxInv' /\ DrainInv'
<1> USE DEF InboxInv
<1>1. BoxInv' BY LookedKeeps
<1>2. mid = FALSE /\ todo' = <<>> /\ mid' = FALSE /\ <<>> \in Seq(Messages) /\ Len(<<>>) = 0
  BY DEF DrainInv
<1>3. \A m \in Messages : m \in history <=> st[m] = "read" BY <1>2 DEF DrainInv
<1>4. inbox' \in {inbox, Get(inbox)} /\ st' = st BY DEF Looked
<1>5. inbox'.gen \in Nat /\ inbox'.gen >= inbox.gen BY <1>4, GetIsAround
<1>6. inbox.gen \in Nat BY DEF BoxInv, BoxTypes, Inbox
<1>7. bound' \in Bounds /\ bound'.drain <= inbox'.gen BY <1>5, <1>6 DEF DrainInv, Bounds
<1>8. \A i \in 1..Len(todo') : FALSE BY <1>2
<1>9. history' \in SUBSET Messages BY DEF DrainInv
<1>10. \A m \in Messages : m \in history' <=> st'[m] = "read" BY <1>3, <1>4
<1>11. DrainInv' BY <1>2, <1>7, <1>8, <1>9, <1>10 DEF DrainInv
<1>12. QED BY <1>1, <1>11

LEMMA BindKeeps == ASSUME InboxInv, NEW r \in Runners, Bind(r) PROVE BoxInv' /\ DrainInv'
<1> USE DEF InboxInv
<1>1. UNCHANGED <<st, target, born, stops, history, todo, mid>> BY DEF Bind
<1>3. CASE IsRunning
  <2>1. inbox' = inbox /\ bound' = bound /\ stage' = stage /\ active' = active
    BY <1>3 DEF Bind, Register
  <2>2. phase[r] = "preparing" /\ phase' = [phase EXCEPT ![r] = "popped"]
    BY <1>3 DEF Bind, Register, Goto
  <2>3. Draining => Draining' BY <2>1, <2>2 DEF Draining, LoopInv
  <2>4. QED BY <1>1, <2>1, <2>3, LooksKeep DEF Looked, Aside
<1>4. CASE ~IsRunning
  <2>1. inbox' = Get(inbox) /\ stage' = "top" /\ bound' = [bound EXCEPT !.run = inbox'.gen]
    BY <1>4 DEF Bind
  <2>2. todo = <<>> BY <1>4 DEF DrainInv, Draining, IsRunning
  <2>3. inbox'.gen \in Nat BY <2>1, GetFacts DEF Inbox
  <2>4. bound' \in Bounds /\ bound'.drain = bound.drain BY <2>1, <2>3 DEF DrainInv, Bounds
  <2>5. QED BY <1>1, <2>1, <2>2, <2>4, IdleKeeps DEF Looked
<1>5. QED BY <1>3, <1>4

LEMMA CancelledKeeps ==
  ASSUME InboxInv, NEW r \in Runners, Cancelled(r) PROVE BoxInv' /\ DrainInv'
<1> USE DEF InboxInv
<1>1. UNCHANGED <<target, born, stops, bound, active>> /\ stops \in Nat
  BY DEF Cancelled, BoxInv, BoxTypes
<1>2. CASE phase[r] = "preparing"
  <2>1. UNCHANGED <<inbox, st, history, stage, todo, mid>> /\ phase' = [phase EXCEPT ![r] = "popped"]
    BY <1>2 DEF Cancelled, Goto
  <2>2. Draining => Draining' BY <1>1, <1>2, <2>1 DEF Draining, LoopInv
  <2>3. QED BY <1>1, <2>1, <2>2, LooksKeep DEF Looked, Aside
<1>3. CASE phase[r] = "running"
  <2>1. /\ stage' = "top" /\ todo' = <<>> /\ mid' = FALSE
        /\ history' = IF mid THEN history \ {Head(todo)} ELSE history
        /\ \/ inbox' = inbox /\ st' = st
           \/ inbox' = Close(inbox) /\ st' = Dropped(inbox)
    BY <1>3 DEF Cancelled
  <2>2. CASE inbox' = inbox /\ st' = st
    <3>1. BoxInv' BY <1>1, <2>2, LookedKeeps DEF Looked
    <3>2. \A m \in Messages : Moved(m) BY <2>2 DEF Moved
    <3>3. QED BY <1>1, <2>1, <2>2, <3>1, <3>2, DrainEnds
  <2>3. CASE inbox' = Close(inbox) /\ st' = Dropped(inbox)
    <3>1. BoxInv' BY <1>1, <2>3, CloseKeeps
    <3>2. \A m \in Messages : Moved(m) BY <2>3, DroppedFacts DEF Moved
    <3>3. inbox \in Inbox BY DEF BoxInv, BoxTypes
    <3>4. inbox'.gen = inbox.gen BY <2>3, <3>3 DEF Close, Inbox
    <3>5. QED BY <1>1, <2>1, <3>1, <3>2, <3>4, DrainEnds
  <2>4. QED BY <2>1, <2>2, <2>3
<1>4. QED BY <1>2, <1>3 DEF Cancelled

-----------------------------------------------------------------------------
(* The steps of the run that are not part of a drain.                      *)
LEMMA StagesKeep ==
  ASSUME InboxInv, Prepare \/ StepEnds \/ Settle PROVE BoxInv' /\ DrainInv'
<1>1. stage \in {"prepare", "step", "settle"} /\ stage' # "drain"
  BY DEF Prepare, StepEnds, Settle, Runs
<1>2. todo = <<>> BY <1>1 DEF InboxInv, DrainInv, Draining
<1>3. UNCHANGED <<st, target, born, stops, history, todo, mid, bound>>
  BY DEF Prepare, StepEnds, Settle
<1>4. inbox' \in {inbox, Get(inbox)} BY DEF Prepare, StepEnds, Settle
<1>5. bound' \in Bounds BY <1>3 DEF InboxInv, DrainInv
<1>6. QED BY <1>1, <1>2, <1>3, <1>4, <1>5, IdleKeeps DEF Looked

(* A drain takes on what the inbox holds.                                  *)
LEMMA TopKeeps == ASSUME InboxInv, Top PROVE BoxInv' /\ DrainInv'
<1> USE DEF InboxInv
<1>1. stage = "top" /\ active # NoRunner /\ phase[active] = "running"
  BY DEF Top, Runs, IsRunning
<1>2. todo = <<>> /\ mid = FALSE BY <1>1 DEF DrainInv, Draining
<1>3. UNCHANGED <<st, target, born, stops, history, mid, active, phase>> BY DEF Top
<1>4. CASE aborting
  <2>1. stage' = "settle" /\ UNCHANGED <<inbox, bound, todo>> BY <1>4 DEF Top
  <2>2. bound' \in Bounds BY <2>1 DEF DrainInv
  <2>3. QED BY <1>2, <1>3, <2>1, <2>2, IdleKeeps DEF Looked
<1>5. CASE ~aborting
  <2>1. /\ inbox' = Get(inbox) /\ bound' = [bound EXCEPT !.drain = inbox'.gen]
        /\ todo' = inbox'.box /\ stage' = IF todo' = <<>> THEN "prepare" ELSE "drain"
    BY <1>5 DEF Top
  <2>2. Looked BY <1>3, <2>1 DEF Looked
  <2>3. BoxInv' BY <2>2, LookedKeeps
  <2>4. inbox' \in Inbox /\ inbox'.gen \in Nat /\ todo' \in Seq(Messages)
    BY <2>1, GetFacts DEF Inbox
  <2>5. bound' \in Bounds /\ bound'.drain <= inbox'.gen
    BY <2>1, <2>4 DEF DrainInv, Bounds
  <2>6. /\ \A i \in 1..Len(todo') : st'[todo'[i]] \in {"box", "dropped"}
        /\ \A i, j \in 1..Len(todo') : todo'[i] = todo'[j] => i = j
    BY <2>1, <2>3 DEF BoxInv
  <2>7. todo' # <<>> => Draining' BY <1>1, <1>3, <2>1 DEF Draining
  <2>8. \A m \in Messages : m \in history' <=> st'[m] = "read" BY <1>2, <1>3 DEF DrainInv
  <2>9. /\ Len(todo') <= Len(inbox'.box)
        /\ \A i \in 1..Len(todo') : todo'[i] = inbox'.box[i]
    BY <2>1, <2>4
  <2>10. mid' = FALSE /\ mid' \in BOOLEAN /\ history' \in SUBSET Messages
    BY <1>2, <1>3 DEF DrainInv
  <2>11. DrainInv' BY <2>4, <2>5, <2>6, <2>7, <2>8, <2>9, <2>10 DEF DrainInv
  <2>12. QED BY <2>3, <2>11
<1>6. QED BY <1>4, <1>5

(* The drain is over, all of it is done or the inbox was stopped.          *)
LEMMA DrainOverKeeps == ASSUME InboxInv, DrainOver PROVE BoxInv' /\ DrainInv'
<1>1. UNCHANGED <<inbox, st, target, born, stops, bound>> BY DEF DrainOver
<1>2. BoxInv' BY <1>1, LookedKeeps DEF Looked, InboxInv
<1>3. \A m \in Messages : Moved(m) BY <1>1 DEF Moved
<1>4. QED BY <1>1, <1>2, <1>3, DrainEnds DEF DrainOver

(* The first message is put in the history, then taken out.                *)
LEMMA DrainCreateKeeps == ASSUME InboxInv, DrainCreate PROVE BoxInv' /\ DrainInv'
<1> USE DEF InboxInv
<1>1. /\ UNCHANGED <<inbox, st, target, born, stops, bound, todo, stage, active, phase>>
      /\ mid = FALSE /\ mid' = TRUE /\ todo # <<>> /\ history' = history \cup {Head(todo)}
  BY DEF DrainCreate, loopVars, DrainInv
<1>2. BoxInv' BY <1>1, LookedKeeps DEF Looked
<1>3. todo \in Seq(Messages) /\ Head(todo) = todo[1] /\ todo[1] \in Messages
  BY <1>1 DEF DrainInv
<1>4. \A m \in Messages : m \in history' <=> st'[m] = "read" \/ m = todo'[1]
  BY <1>1, <1>3 DEF DrainInv
<1>5. history' \in SUBSET Messages BY <1>1, <1>3 DEF DrainInv
<1>6. DrainInv' BY <1>1, <1>4, <1>5 DEF DrainInv, Draining, Accepts
<1>7. QED BY <1>2, <1>6

LEMMA DrainPopKeeps == ASSUME InboxInv, DrainPop PROVE BoxInv' /\ DrainInv'
<1> USE DEF InboxInv
<1>1. /\ UNCHANGED <<target, born, stops, bound, stage, active, phase, history>>
      /\ mid /\ mid' = FALSE /\ stage = "drain" /\ Accepts(inbox, bound.drain)
      /\ inbox' = [inbox EXCEPT !.box = Tail(@)] /\ todo' = Tail(todo)
      /\ st' = [st EXCEPT ![Head(inbox.box)] = "read"]
  BY DEF DrainPop, loopVars, Runs, Stopped
<1>2. /\ todo \in Seq(Messages) /\ todo # <<>> /\ Draining
      /\ inbox \in Inbox /\ inbox.box \in Seq(Messages)
      /\ Len(todo) <= Len(inbox.box) /\ \A i \in 1..Len(todo) : todo[i] = inbox.box[i]
      /\ st \in [Messages -> {"new", "working", "flight", "box", "read", "dropped"}]
  BY <1>1 DEF DrainInv, BoxInv, BoxTypes, Inbox
<1>3. /\ Len(todo) \in Nat \ {0} /\ inbox.box # <<>> /\ Head(inbox.box) = todo[1]
      /\ todo[1] \in Messages
  BY <1>2
<1>4. BoxInv' BY <1>1, <1>3, PopKeeps
<1>5. Tail(todo) \in Seq(Messages) /\ Tail(inbox.box) \in Seq(Messages)
  BY <1>2, <1>3, HeadTailProperties
<1>6. inbox'.box = Tail(inbox.box) /\ inbox'.gen = inbox.gen /\ inbox'.stopped = inbox.stopped
  BY <1>1, <1>2 DEF Inbox
<1>7. /\ Len(todo') = Len(todo) - 1 /\ \A i \in 1..Len(todo') : todo'[i] = todo[i + 1]
      /\ Len(inbox'.box) = Len(inbox.box) - 1
      /\ \A i \in 1..Len(inbox'.box) : inbox'.box[i] = inbox.box[i + 1]
  BY <1>1, <1>2, <1>3, <1>6
<1>8. \A i, j \in 1..Len(todo) : todo[i] = todo[j] => i = j BY DEF DrainInv
<1>9. ASSUME NEW i \in 1..Len(todo')
      PROVE  st'[todo'[i]] \in {"box", "dropped"} /\ todo'[i] = inbox'.box[i]
  <2>1. i + 1 \in 1..Len(todo) /\ 1 \in 1..Len(todo) /\ i + 1 # 1 BY <1>3, <1>7
  <2>2. todo[i + 1] # todo[1] BY <1>8, <2>1
  <2>3. st[todo[i + 1]] \in {"box", "dropped"} /\ todo[i + 1] \in Messages
    BY <1>2, <2>1 DEF DrainInv
  <2>4. st'[todo'[i]] \in {"box", "dropped"} BY <1>1, <1>2, <1>3, <1>7, <2>2, <2>3
  <2>5. i \in 1..Len(inbox'.box) BY <1>2, <1>3, <1>7
  <2>6. QED BY <1>2, <1>7, <2>1, <2>4, <2>5
<1>10. \A i, j \in 1..Len(todo') : todo'[i] = todo'[j] => i = j
  <2> SUFFICES ASSUME NEW i \in 1..Len(todo'), NEW j \in 1..Len(todo'), todo'[i] = todo'[j]
               PROVE  i = j
    OBVIOUS
  <2>1. i + 1 \in 1..Len(todo) /\ j + 1 \in 1..Len(todo) BY <1>3, <1>7
  <2>2. i + 1 = j + 1 BY <1>7, <1>8, <2>1
  <2>3. QED BY <2>2
<1>11. \A m \in Messages : m \in history' <=> st'[m] = "read"
  <2>1. \A m \in Messages : m \in history <=> st[m] = "read" \/ m = todo[1]
    BY <1>1 DEF DrainInv
  <2>2. QED BY <1>1, <1>2, <1>3, <2>1
<1>12. Len(todo') <= Len(inbox'.box) BY <1>2, <1>3, <1>7
<1>13. Draining' BY <1>1, <1>2 DEF Draining
<1>14. todo' \in Seq(Messages) /\ bound' \in Bounds /\ bound'.drain <= inbox'.gen
       /\ history' \in SUBSET Messages
  BY <1>1, <1>5, <1>6 DEF DrainInv
<1>15. DrainInv' BY <1>1, <1>9, <1>10, <1>11, <1>12, <1>13, <1>14 DEF DrainInv
<1>16. QED BY <1>4, <1>15

-----------------------------------------------------------------------------
LEMMA NextKeepsInbox == InboxInv /\ [Next]_vars => InboxInv'
<1> SUFFICES ASSUME InboxInv, [Next]_vars PROVE BoxInv' /\ DrainInv'
  BY NextKeepsLoop DEF InboxInv
<1>1. CASE \E m \in Messages : Send(m) \/ Delegate(m) \/ Report(m) \/ Arrive(m)
  BY <1>1, MessagesKeep
<1>2. CASE WakeDelivered \/ JobDelivered \/ \E n \in 1..RetryLimit : RetryDue(n)
  BY <1>2, DeliveriesKeep
<1>3. CASE \/ StartPrompt \/ StartJob \/ WakeChecked
           \/ \E r \in Runners : ReturnEarly(r) \/ Proceed(r) \/ Release(r) \/ Cancel(r)
  BY <1>3, CallsKeep
<1>4. CASE \E r \in Runners : Bind(r) \/ Cancelled(r) BY <1>4, BindKeeps, CancelledKeeps
<1>5. CASE RunStep
  BY <1>5, TopKeeps, DrainOverKeeps, DrainCreateKeeps, DrainPopKeeps, StagesKeep DEF RunStep
<1>6. CASE Stop BY <1>6, StopKeeps
<1>7. CASE UNCHANGED vars
  BY <1>7, LooksKeep DEF vars, inboxVars, loopVars, Looked, Aside, Draining
<1>8. QED BY <1>1, <1>2, <1>3, <1>4, <1>5, <1>6, <1>7 DEF Next, CallStep, Delivery

(* The inductive invariant: what the inbox holds, what is on its way to    *)
(* it, and what the drain took from it belong together.                    *)
THEOREM InboxStaysSound == Spec => []InboxInv
<1>1. Init => InboxInv BY InitLoop, InitBox, InitDrain DEF InboxInv
<1>2. InboxInv /\ [Next]_vars => InboxInv' BY NextKeepsInbox
<1>3. QED BY <1>1, <1>2, PTL DEF Spec

(* A late result, or a message that was on its way when the user stopped   *)
(* the session, never waits in an inbox afterwards, so it starts nothing   *)
(* (post, _post_from_owner, close and the generations they compare).       *)
THEOREM StoppedStaysStopped == Spec => []NotRevived
<1>1. InboxInv => NotRevived BY DEF InboxInv, BoxInv, NotRevived
<1>2. QED BY <1>1, InboxStaysSound, PTL

(* A message is in the history exactly if it was drained: no stop, cancel  *)
(* or replacement of the inbox leaves one half drained (drain, _drain).    *)
THEOREM NothingIsHalfRead == Spec => []HistoryIsRead
<1>1. InboxInv => HistoryIsRead
  <2> SUFFICES ASSUME InboxInv PROVE HistoryIsRead OBVIOUS
  <2>1. mid => Head(todo) = todo[1] BY DEF InboxInv, DrainInv
  <2>2. QED BY <2>1 DEF InboxInv, DrainInv, HistoryIsRead
<1>2. QED BY <1>1, InboxStaysSound, PTL

(* What a drain takes out is what it put in the history (drain's popleft). *)
THEOREM DrainsTakeTheirHead == Spec => []DrainsItsHead
<1>1. InboxInv => DrainsItsHead
  <2> SUFFICES ASSUME InboxInv, stage = "drain", ~Stopped(bound.drain)
               PROVE  IsPrefix(todo, inbox.box)
    BY DEF DrainsItsHead
  <2>1. /\ todo \in Seq(Messages) /\ inbox.box \in Seq(Messages) /\ Len(todo) <= Len(inbox.box)
        /\ \A i \in 1..Len(todo) : todo[i] = inbox.box[i]
    BY DEF InboxInv, DrainInv, BoxInv, BoxTypes, Inbox, Stopped
  <2> DEFINE one == SubSeq(todo, 1, Len(todo))
             two == SubSeq(inbox.box, 1, Len(todo))
  <2>2. one = two
    <3>1. Len(todo) \in Nat /\ Len(inbox.box) \in Nat BY <2>1
    <3>2. \A i \in 1..Len(todo) : todo[i] \in Messages /\ inbox.box[i] \in Messages
      BY <2>1, <3>1
    <3>3. one \in Seq(Messages) /\ Len(one) = Len(todo) /\ \A i \in 1..Len(todo) : one[i] = todo[i]
      BY <3>1, <3>2, SubSeqProperties
    <3>4. /\ two \in Seq(Messages) /\ Len(two) = Len(todo)
          /\ \A i \in 1..Len(todo) : two[i] = inbox.box[i]
      BY <3>1, <3>2, SubSeqProperties
    <3> HIDE DEF one, two
    <3>5. QED BY <2>1, <3>3, <3>4, SeqEqual
  <2>3. QED BY <2>1, <2>2 DEF IsPrefix
<1>2. QED BY <1>1, InboxStaysSound, PTL

-----------------------------------------------------------------------------
(* The variables the invariant says nothing of.                            *)
Wakes == [state : {"none", "task", "finalizer"}, gen : Nat, attempt : Nat]
Jobs  == {"none", "task", "finalizer", "over"}
RestTypes ==
  /\ result \in [Runners -> Results] /\ lease \in Runners \cup {NoRunner}
  /\ aborting \in BOOLEAN /\ doomed \in SUBSET Runners
  /\ stage \in {"top", "drain", "prepare", "step", "settle"}
  /\ wake \in Wakes /\ job \in Jobs /\ timers \in SUBSET (1..RetryLimit)
  /\ cancels \in Nat /\ prompts \in Nat

LEMMA WakeTypes ==
  ASSUME NEW i \in Inbox, NEW w \in Wakes, NEW j, NEW n \in Nat, NEW ph, Wake(i, w, j, n, ph)
  PROVE  wake' \in Wakes
BY DEF Wake, Get, Inbox, Wakes

LEMMA PostTypes ==
  ASSUME RestTypes, NEW m \in Messages, NEW i \in Inbox, NEW g, Post(m, i, g)
  PROVE  wake' \in Wakes
<1>1. CASE Accepts(i, g)
  <2>1. [i EXCEPT !.box = Append(@, m)] \in Inbox BY DEF Inbox
  <2>2. QED BY <1>1, <2>1, WakeTypes DEF Post, RestTypes
<1>2. CASE ~Accepts(i, g) BY <1>2 DEF Post, RestTypes
<1>3. QED BY <1>1, <1>2

LEMMA OverTypes ==
  ASSUME RestTypes, NEW r \in Runners, NEW how \in Results, Over(r, how)
  PROVE  /\ result' \in [Runners -> Results] /\ wake' \in Wakes /\ job' \in Jobs
         /\ doomed' \in SUBSET Runners
BY DEF RestTypes, Over, Returns, Wakes, Jobs, Results

LEMMA MessagesKeepTypes ==
  ASSUME InboxInv, RestTypes, NEW m \in Messages, Send(m) \/ Delegate(m) \/ Report(m) \/ Arrive(m)
  PROVE  RestTypes'
<1>1. inbox \in Inbox /\ Get(inbox) \in Inbox
  BY GetFacts DEF InboxInv, BoxInv, BoxTypes
<1>2. wake' \in Wakes
  BY <1>1, PostTypes DEF RestTypes, Send, Delegate, Report, Arrive
<1>3. UNCHANGED <<result, lease, aborting, doomed, stage, job, timers, cancels, prompts>>
  BY DEF Send, Delegate, Report, Arrive, loopVars
<1>4. QED BY <1>2, <1>3 DEF RestTypes

LEMMA DeliveriesKeepTypes ==
  ASSUME InboxInv, RestTypes, WakeDelivered \/ JobDelivered \/ \E n \in 1..RetryLimit : RetryDue(n)
  PROVE  RestTypes'
<1>1. inbox \in Inbox /\ NoWake \in Wakes
  BY DEF InboxInv, BoxInv, BoxTypes, NoWake, Wakes
<1>2. wake' \in Wakes
  BY <1>1, WakeTypes DEF RestTypes, WakeDelivered, JobDelivered, RetryDue
<1>3. timers' \in SUBSET (1..RetryLimit)
  <2>1. CASE WakeDelivered
    <3>1. Retries => wake.attempt + 1 \in 1..RetryLimit
      BY InboxAssumption DEF RestTypes, Wakes, Retries
    <3>2. QED BY <2>1, <3>1 DEF WakeDelivered, RestTypes
  <2>2. CASE JobDelivered BY <2>2 DEF JobDelivered, RestTypes
  <2>3. CASE \E n \in 1..RetryLimit : RetryDue(n) BY <2>3 DEF RetryDue, RestTypes
  <2>4. QED BY <2>1, <2>2, <2>3
<1>4. /\ job' \in Jobs
      /\ UNCHANGED <<result, lease, aborting, doomed, stage, cancels, prompts>>
  BY DEF RestTypes, Jobs, WakeDelivered, JobDelivered, RetryDue
<1>5. QED BY <1>2, <1>3, <1>4 DEF RestTypes

LEMMA CallsKeepTypes == ASSUME InboxInv, RestTypes, NEW r \in Runners, CallStep(r) PROVE RestTypes'
<1> USE DEF RestTypes
<1>1. CASE ReturnEarly(r)
  <2>1. \E how \in Results : Over(r, how) BY <1>1 DEF ReturnEarly, Results
  <2>2. UNCHANGED <<lease, aborting, stage, timers, cancels, prompts>> BY <1>1 DEF ReturnEarly
  <2>3. QED BY <2>1, <2>2, OverTypes
<1>2. CASE Proceed(r)
  BY <1>2 DEF Proceed, Enter, Refuse, Unregister, Returns, Results, inboxVars
<1>3. CASE Bind(r) BY <1>3 DEF Bind, Register, Returns, Results
<1>4. CASE Release(r)
  <2>1. lease' = NoRunner /\ UNCHANGED <<aborting, stage, timers, cancels, prompts>>
    BY <1>4 DEF Release
  <2>2. CASE r = "prompt" /\ inbox.gen > 0
    <3>1. inbox \in Inbox BY DEF InboxInv, BoxInv, BoxTypes
    <3>2. wake' \in Wakes BY <1>4, <2>2, <3>1, WakeTypes DEF Release
    <3>3. QED BY <1>4, <2>1, <2>2, <3>2 DEF Release, Returns, Results
  <2>3. CASE ~(r = "prompt" /\ inbox.gen > 0)
    <3>1. Over(r, result[r]) BY <1>4, <2>3 DEF Release
    <3>2. QED BY <2>1, <3>1, OverTypes
  <2>4. QED BY <2>2, <2>3
<1>5. CASE Cancelled(r) BY <1>5 DEF Cancelled, Returns, Results
<1>6. QED BY <1>1, <1>2, <1>3, <1>4, <1>5 DEF CallStep

LEMMA NextKeepsTypes == InboxInv /\ RestTypes /\ [Next]_vars => RestTypes'
<1> SUFFICES ASSUME InboxInv, RestTypes, [Next]_vars PROVE RestTypes' OBVIOUS
<1>1. CASE \E m \in Messages : Send(m) \/ Delegate(m) \/ Report(m) \/ Arrive(m)
  BY <1>1, MessagesKeepTypes
<1>2. CASE WakeDelivered \/ JobDelivered \/ \E n \in 1..RetryLimit : RetryDue(n)
  BY <1>2, DeliveriesKeepTypes
<1>3. CASE \E r \in Runners : CallStep(r) BY <1>3, CallsKeepTypes
<1>4. CASE RunStep
  <2>1. UNCHANGED <<lease, aborting, doomed, wake, job, timers, cancels, prompts>>
    BY <1>4 DEF RunStep, Top, DrainOver, DrainCreate, DrainPop, Prepare, StepEnds, Settle, loopVars
  <2>2. stage' \in {"top", "drain", "prepare", "step", "settle"}
    BY <1>4 DEF RestTypes, RunStep, Top, DrainOver, DrainCreate, DrainPop, Prepare, StepEnds, Settle
  <2>3. result' \in [Runners -> Results]
    BY <1>4 DEF RestTypes, Results, RunStep, Top, DrainOver, DrainCreate, DrainPop, Prepare, StepEnds,
                Settle, loopVars
  <2>4. QED BY <2>1, <2>2, <2>3 DEF RestTypes
<1>5. CASE WakeChecked \/ StartPrompt \/ StartJob \/ Stop \/ UNCHANGED vars
  <2>1. CASE WakeChecked \/ UNCHANGED vars
    BY <2>1 DEF RestTypes, WakeChecked, inboxVars, loopVars, vars
  <2>2. CASE StartPrompt BY <2>2 DEF RestTypes, StartPrompt
  <2>3. CASE StartJob BY <2>3 DEF RestTypes, Jobs, StartJob
  <2>4. CASE Stop
    <3>1. doomed' \in SUBSET Runners /\ aborting' \in BOOLEAN
      BY <2>4 DEF RestTypes, Stop, IsRunning, Runners
    <3>2. QED BY <2>4, <3>1 DEF RestTypes, Stop
  <2>5. QED BY <1>5, <2>1, <2>2, <2>3, <2>4
<1>6. CASE \E r \in Runners : Cancel(r) BY <1>6 DEF RestTypes, Cancel
<1>7. QED BY <1>1, <1>2, <1>3, <1>4, <1>5, <1>6 DEF Next, Delivery

(* Types, and a drain that stores what it takes out, in every reachable    *)
(* state (agent_inbox.py, drain; session_loop.py, run).                    *)
THEOREM StaysConsistent == Spec => []Consistent
<1>1. Init => RestTypes
  <2> SUFFICES ASSUME Init PROVE RestTypes OBVIOUS
  <2>1. result \in [Runners -> Results] /\ wake \in Wakes
    BY DEF Init, LoopInit, Results, NoWake, Wakes
  <2>2. QED BY <2>1 DEF Init, LoopInit, RestTypes, Jobs
<1>2. InboxInv /\ RestTypes /\ [Next]_vars => RestTypes' BY NextKeepsTypes
<1>3. InboxInv /\ RestTypes => TypeOK
  <2> SUFFICES ASSUME InboxInv, RestTypes PROVE TypeOK OBVIOUS
  <2>1. LoopTypeOK BY DEF InboxInv, LoopInv, RestTypes, LoopTypeOK
  <2>2. ASSUME NEW m \in Messages PROVE st[m] = "box" <=> Contains(inbox.box, m)
    BY DEF InboxInv, BoxInv, BoxTypes, Inbox, Contains
  <2>3. QED
    BY SMTT(20), <2>1, <2>2 DEF TypeOK, InboxInv, BoxInv, BoxTypes, Inbox, DrainInv, Bounds, RestTypes, Wakes, Jobs
<1>4. QED
  BY <1>1, <1>2, <1>3, InboxStaysSound, DrainsTakeTheirHead, NothingIsHalfRead, PTL DEF Spec, Consistent
=============================================================================
