---------------------------- MODULE SessionTurns ----------------------------
(***************************************************************************)
(* The turns users send to one session: the request that accepts or queues *)
(* a prompt (flocks/server/routes/session.py), its receipt                 *)
(* (flocks/session/turn_receipt.py), the prompt queue                      *)
(* (flocks/session/interaction_queue.py), the workers that run prompts one *)
(* after the other under the session's prompt lock, and the executions     *)
(* (SessionLoop) they start or hand their message to.  A wake of the agent *)
(* inbox executes the session too, without that lock.  One process; what   *)
(* it holds in memory is lost when it crashes, receipts and history stay.  *)
(***************************************************************************)
EXTENDS SessionLoop

CONSTANTS Turns,     \* turns with a receipt; each is sent at most once
          MaxQueue,  \* MAX_QUEUE_SIZE
          MaxWakes, MaxCrashes, MaxRunNow, MaxBroken  \* bounds of what may happen

ASSUME TurnsAssumption ==
  /\ IsFiniteSet(Turns)
  /\ {MaxQueue, MaxWakes, MaxCrashes, MaxRunNow, MaxBroken} \subseteq Nat

Drainer == "drainer"  \* a worker that only drains the queue
NoTurn  == "no turn"

ASSUME NamesAssumption == Turns \cap {Drainer, NoTurn} = {}

VARIABLES req,       \* how far the request that sent each turn is
          rec,       \* the state of its receipt
          stale,     \* turns whose receipt was not refreshed for STALE_S
          queue,     \* InteractionQueue
          keeper,    \* the task that keeps receipts of queued turns fresh is alive
          removing,  \* turns out of the queue whose receipt does not say so yet
          line,      \* workers at the prompt lock, its holder first: a turn is
                     \* the worker that was started to run it
          chain,     \* _prompt_queue_active_sessions
          stage,     \* where the holder is
          cur,       \* and the turn it runs
          asked,     \* turns whose message is in the history
          answered,  \* those with a final reply
          taken,     \* those the model step going on read
          stepping,  \* a model step is going on
          runNow,    \* how far a run_now request is
          felled,    \* history: a prompt that could not be dispatched ended its worker
          wakes, crashes, runNows, broken

(* Groups of them that actions leave alone.                                *)
execVars    == <<lease, active, aborting, doomed, result>>  \* not phase
receiptVars == <<rec, stale>>
queueVars == <<queue, keeper, removing>>
lockVars  == <<line, chain, stage, cur>>
runVars   == <<asked, answered, taken, stepping>>
boundVars == <<wakes, crashes, runNows, broken, felled>>
turnVars  == <<req, receiptVars, queueVars, lockVars, runVars, runNow, boundVars>>
vars == <<loopVars, turnVars>>

Ended == {"done", "failed", "removed"}

Init ==
  /\ LoopInit
  /\ req = [t \in Turns |-> "new"] /\ rec = [t \in Turns |-> "none"] /\ stale = {}
  /\ queue = <<>> /\ keeper = FALSE /\ removing = {} /\ line = <<>> /\ chain = FALSE
  /\ stage = "idle" /\ cur = NoTurn
  /\ asked = {} /\ answered = {} /\ taken = {} /\ stepping = FALSE
  /\ runNow = "none" /\ felled = FALSE
  /\ wakes = 0 /\ crashes = 0 /\ runNows = 0 /\ broken = 0

(* advance: what ended stays as it ended; any change refreshes.            *)
Advance(t, state) ==
  IF rec[t] \in Ended THEN UNCHANGED receiptVars
                      ELSE rec' = [rec EXCEPT ![t] = state] /\ stale' = stale \ {t}

ScheduleDrain == line' = Append(line, Drainer) /\ chain' = TRUE

-----------------------------------------------------------------------------
(* prompt_async: the turn waits behind what runs, waits or is starting, or *)
(* starts a worker of its own.                                             *)
Busy == IsRunning \/ queue # <<>> \/ chain

Submit(t) ==
  /\ req[t] = "new" /\ req' = [req EXCEPT ![t] = IF Busy THEN "queueing" ELSE "starting"]
  /\ UNCHANGED <<loopVars, receiptVars, queueVars, lockVars, runVars, runNow,
                 boundVars>>

(* The receipt is written first.                                           *)
WriteQueued(t) ==
  /\ req[t] = "queueing" /\ req' = [req EXCEPT ![t] = "enqueueing"]
  /\ rec' = [rec EXCEPT ![t] = "queued"]
  /\ UNCHANGED <<loopVars, stale, queueVars, lockVars, runVars, runNow,
                 boundVars>>

WriteAccepted(t) ==
  /\ req[t] = "starting" /\ req' = [req EXCEPT ![t] = "over"]
  /\ rec' = [rec EXCEPT ![t] = "accepted"]
  /\ line' = Append(line, t) /\ chain' = TRUE
  /\ UNCHANGED <<loopVars, stale, queueVars, stage, cur, runVars, runNow,
                 boundVars>>

(* Or it cannot be written: the request is refused.                        *)
RefuseTurn(t) ==
  /\ req[t] \in {"queueing", "starting"} /\ req' = [req EXCEPT ![t] = "over"]
  /\ broken < MaxBroken /\ broken' = broken + 1
  /\ UNCHANGED <<loopVars, receiptVars, queueVars, lockVars, runVars, runNow,
                 wakes, crashes, runNows, felled>>

Enqueue(t) ==
  /\ req[t] = "enqueueing"
  /\ IF Len(queue) >= MaxQueue
       THEN Advance(t, "failed") /\ req' = [req EXCEPT ![t] = "over"] /\ UNCHANGED queue
       ELSE queue' = Append(queue, t) /\ req' = [req EXCEPT ![t] = "enqueued"]
            /\ UNCHANGED receiptVars
  /\ UNCHANGED <<loopVars, keeper, removing, lockVars, runVars, runNow,
                 boundVars>>

QueueKeptVariant(t) ==
  /\ req[t] = "enqueued" /\ req' = [req EXCEPT ![t] = "over"] /\ keeper' = TRUE
  /\ UNCHANGED <<lockVars, loopVars, receiptVars, queue, removing, runVars,
                 runNow, boundVars>>

(* The keeper is started; nothing runs any more that would take the item.  *)
QueueKept(t) ==
  /\ req[t] = "enqueued" /\ req' = [req EXCEPT ![t] = "over"] /\ keeper' = TRUE
  /\ IF IsRunning THEN UNCHANGED <<line, chain>> ELSE ScheduleDrain
  /\ UNCHANGED <<loopVars, receiptVars, queue, removing, stage, cur, runVars,
                 runNow, boundVars>>

(* The keeper ends when it finds nothing to keep.                          *)
KeeperEndsVariant ==
  /\ keeper /\ cur = NoTurn /\ keeper' = FALSE
  /\ UNCHANGED <<loopVars, req, receiptVars, queue, removing, lockVars, runVars,
                 runNow, boundVars>>

KeeperEnds ==
  /\ keeper /\ queue = <<>> /\ keeper' = FALSE
  /\ UNCHANGED <<loopVars, req, receiptVars, queue, removing, lockVars, runVars,
                 runNow, boundVars>>

TakeOutVariant(i) ==
  /\ i \in DOMAIN queue /\ removing' = removing \cup {queue[i]}
  /\ UNCHANGED <<loopVars, req, receiptVars, queue, keeper, lockVars, runVars,
                 runNow, boundVars>>

(* Users take prompts out of the queue, one or all; then the receipts are  *)
(* marked.                                                                 *)
TakeOut(i) ==
  /\ i \in DOMAIN queue
  /\ queue' = RemoveAt(queue, i) /\ removing' = removing \cup {queue[i]}
  /\ UNCHANGED <<loopVars, req, receiptVars, keeper, lockVars, runVars, runNow,
                 boundVars>>

TakeAllOut ==
  /\ queue # <<>> /\ queue' = <<>> /\ removing' = removing \cup Range(queue)
  /\ UNCHANGED <<loopVars, req, receiptVars, keeper, lockVars, runVars, runNow,
                 boundVars>>

MarkRemoved(t) ==
  /\ t \in removing /\ removing' = removing \ {t} /\ Advance(t, "removed")
  /\ UNCHANGED <<loopVars, req, queue, keeper, lockVars, runVars, runNow,
                 boundVars>>

(* run_now: the prompt goes first; the execution going on is aborted; once *)
(* it is over, or 5 s later, the queue is drained.                         *)
Promote(i) ==
  /\ runNow = "none" /\ runNows < MaxRunNow /\ i \in DOMAIN queue
  /\ queue' = <<queue[i]>> \o RemoveAt(queue, i)
  /\ runNow' = "promoted" /\ runNows' = runNows + 1
  /\ UNCHANGED <<loopVars, req, receiptVars, keeper, removing, lockVars,
                 runVars, wakes, crashes, broken, felled>>

AbortForPromoted ==
  /\ runNow = "promoted" /\ runNow' = "aborted" /\ aborting' = IsRunning
  /\ UNCHANGED <<phase, lease, active, doomed, result, req, receiptVars,
                 queueVars, lockVars, runVars, boundVars>>

DrainForPromoted ==
  /\ runNow = "aborted" /\ runNow' = "none" /\ ScheduleDrain
  /\ UNCHANGED <<loopVars, req, receiptVars, queueVars, stage, cur, runVars,
                 boundVars>>

-----------------------------------------------------------------------------
(* The prompt lock.  _run_prompt_event_chain runs its own turn and then    *)
(* drains; the worker of _schedule_prompt_queue_drain only drains.         *)
Holder == Head(line)

Acquire ==
  /\ stage = "idle" /\ line # <<>>
  /\ IF Holder = Drainer THEN stage' = "drain" /\ UNCHANGED cur
                         ELSE stage' = "got" /\ cur' = Holder
  /\ UNCHANGED <<loopVars, req, receiptVars, queueVars, line, chain, runVars,
                 runNow, boundVars>>

(* The worker is over: the mark of the chain goes, whoever set it.         *)
WorkerEnds == stage' = "idle" /\ line' = Tail(line) /\ chain' = FALSE

(* An execution goes on: a chain leaves the rest to its end; a drainer     *)
(* comes back every 0.25 s, 80 times.                                      *)
LeaveRest ==
  /\ stage = "drain" /\ (IsRunning \/ queue = <<>>) /\ WorkerEnds
  /\ UNCHANGED <<loopVars, req, receiptVars, queueVars, cur, runVars, runNow,
                 boundVars>>

PopNext ==
  /\ stage = "drain" /\ ~IsRunning /\ queue # <<>>
  /\ cur' = Head(queue) /\ queue' = Tail(queue) /\ stage' = "got"
  /\ UNCHANGED <<loopVars, req, receiptVars, keeper, removing, line, chain,
                 runVars, runNow, boundVars>>

(* turn_receipt.running: the turn runs under its receipt, kept fresh.      *)
RunTurn ==
  /\ stage = "got" /\ stage' = "dispatch" /\ Advance(cur, "running")
  /\ UNCHANGED <<loopVars, req, queueVars, line, chain, cur, runVars, runNow,
                 boundVars>>

(* The turn cannot be dispatched: its agent is gone, say.  A chain drains  *)
(* all the same; an exception out of the drain ends the worker.            *)
DispatchFails ==
  /\ stage = "dispatch" /\ broken < MaxBroken /\ broken' = broken + 1
  /\ Advance(cur, "failed") /\ cur' = NoTurn
  /\ IF Holder = cur THEN stage' = "drain" /\ UNCHANGED <<line, chain, felled>>
                     ELSE WorkerEnds /\ felled' = TRUE
  /\ UNCHANGED <<loopVars, req, queueVars, runVars, runNow, wakes, crashes,
                 runNows>>

(* The message is in the history; the session is to be executed.           *)
Ask ==
  /\ stage = "dispatch" /\ stage' = "run" /\ asked' = asked \cup {cur}
  /\ Goto("prompt", "entering")
  /\ UNCHANGED <<execVars, req, receiptVars, queueVars, line, chain, cur,
                 answered, taken, stepping, runNow, boundVars>>

TurnEnds(state) == /\ Advance(cur, state) /\ cur' = NoTurn /\ stage' = "drain"
                   /\ UNCHANGED <<req, queueVars, line, chain, runVars, runNow,
                                  boundVars>>

(* It ran here; a refused execution ends the turn too.                     *)
RanHere ==
  /\ stage = "run" /\ phase["prompt"] = "off"
  /\ TurnEnds("done") /\ UNCHANGED loopVars

(* It was handed to the execution going on, which answers it, or ends      *)
(* without: the session is found idle for HANDOFF_IDLE_S.                  *)
WasAnswered ==
  /\ stage = "handed" /\ cur \in answered /\ TurnEnds("done") /\ UNCHANGED loopVars

WasDropped ==
  /\ stage = "handed" /\ cur \notin answered /\ ~IsRunning /\ lease = NoRunner
  /\ TurnEnds("failed") /\ UNCHANGED loopVars

-----------------------------------------------------------------------------
(* The executions.                                                         *)
StartWake ==
  /\ phase["wake"] = "off" /\ wakes < MaxWakes /\ wakes' = wakes + 1
  /\ Goto("wake", "entering")
  /\ UNCHANGED <<execVars, req, receiptVars, queueVars, lockVars, runVars,
                 runNow, crashes, runNows, broken, felled>>

(* The lease is held: the turn is left to the execution going on.          *)
HandOff(r) ==
  /\ phase[r] = "entering" /\ ~MayEnter /\ Goto(r, "off")
  /\ stage' = IF r = "prompt" THEN "handed" ELSE stage
  /\ UNCHANGED <<execVars, req, receiptVars, queueVars, line, chain, cur,
                 runVars, runNow, boundVars>>

Begin(r) == (Enter(r) \/ Refuse(r) \/ Register(r)) /\ UNCHANGED turnVars

(* A step of the model takes every message that waits.  A prompt's         *)
(* execution with nothing to answer ends.                                  *)
StepBegins ==
  /\ IsRunning /\ phase[active] = "running" /\ ~stepping
  /\ IF aborting \/ (active = "prompt" /\ asked \subseteq answered)
       THEN Goto(active, "closing") /\ UNCHANGED <<taken, stepping>>
       ELSE stepping' = TRUE /\ taken' = asked \ answered /\ UNCHANGED phase
  /\ UNCHANGED <<execVars, req, receiptVars, queueVars, lockVars, asked,
                 answered, runNow, boundVars>>

(* It ends in tool calls; or answers, and the execution goes on if there   *)
(* is a newer message; or was aborted or failed, with a last reply or not. *)
StepEnds ==
  /\ IsRunning /\ phase[active] = "running" /\ stepping
  /\ stepping' = FALSE /\ taken' = {}
  /\ \/ ~aborting /\ UNCHANGED <<answered, phase>>
     \/ /\ ~aborting /\ answered' = answered \cup taken
        /\ IF asked \subseteq answered' THEN Goto(active, "closing") ELSE UNCHANGED phase
     \/ answered' \in {answered, answered \cup taken} /\ Goto(active, "closing")
  /\ UNCHANGED <<execVars, req, receiptVars, queueVars, lockVars, asked, runNow,
                 boundVars>>

ExecutionEndsVariant(r) ==
  /\ Unregister(r)
  /\ UNCHANGED <<lockVars, req, receiptVars, queueVars, runVars, runNow,
                 boundVars>>

(* What waits in the queue is drained after any execution.                 *)
ExecutionEnds(r) ==
  /\ Unregister(r)
  /\ IF queue = <<>> THEN UNCHANGED <<line, chain>> ELSE ScheduleDrain
  /\ UNCHANGED <<req, receiptVars, queueVars, stage, cur, runVars, runNow,
                 boundVars>>

Release(r) ==
  /\ phase[r] = "popped" /\ lease' = NoRunner /\ Goto(r, "off")
  /\ UNCHANGED <<active, aborting, doomed, result, turnVars>>

-----------------------------------------------------------------------------
(* Who refreshes a receipt: whoever runs the turn, and the keeper.         *)
KeptFresh(t) == (cur = t /\ stage # "got") \/ (keeper /\ t \in Range(queue))

(* A request moves on, a popped turn is run, and the lock of a holder that *)
(* executes nothing is free, within a moment.                              *)
Brief(t) == \/ req[t] \in {"enqueueing", "enqueued"} \/ cur = t \/ t \in removing
            \/ t \in Range(line) /\ stage \notin {"run", "handed"}

Age(t) ==
  /\ rec[t] \notin Ended \cup {"none"} /\ t \notin stale /\ ~KeptFresh(t) /\ ~Brief(t)
  /\ stale' = stale \cup {t}
  /\ UNCHANGED <<loopVars, req, rec, queueVars, lockVars, runVars, runNow,
                 boundVars>>

Crash ==
  /\ crashes < MaxCrashes /\ crashes' = crashes + 1
  /\ phase' = [r \in Runners |-> "off"] /\ result' = [r \in Runners |-> "none"]
  /\ lease' = NoRunner /\ active' = NoRunner /\ aborting' = FALSE
  /\ req' = [t \in Turns |-> IF req[t] = "new" THEN "new" ELSE "over"]
  /\ queue' = <<>> /\ keeper' = FALSE /\ removing' = {} /\ line' = <<>> /\ chain' = FALSE
  /\ stage' = "idle" /\ cur' = NoTurn /\ taken' = {} /\ stepping' = FALSE /\ runNow' = "none"
  /\ UNCHANGED <<doomed, receiptVars, asked, answered, wakes, runNows, broken,
                 felled>>

-----------------------------------------------------------------------------
RequestStep(t) == WriteQueued(t) \/ WriteAccepted(t) \/ Enqueue(t) \/ QueueKept(t)
WorkerStep == \/ Acquire \/ LeaveRest \/ PopNext \/ RunTurn \/ Ask
              \/ RanHere \/ WasAnswered \/ WasDropped
CallStep(r) == Begin(r) \/ HandOff(r) \/ ExecutionEnds(r) \/ Release(r)
RunStep == StepBegins \/ StepEnds
RunNowStep == AbortForPromoted \/ DrainForPromoted

Next == \/ \E t \in Turns : \/ Submit(t) \/ RefuseTurn(t) \/ RequestStep(t)
                            \/ MarkRemoved(t) \/ Age(t)
        \/ \E i \in DOMAIN queue : TakeOut(i) \/ Promote(i)
        \/ TakeAllOut
        \/ \E r \in {"prompt", "wake"} : CallStep(r)
        \/ RunStep \/ WorkerStep \/ DispatchFails \/ RunNowStep \/ StartWake
        \/ KeeperEnds \/ Crash

Spec == Init /\ [][Next]_vars

(* The event loop runs what is ready, steps of the model end - not every   *)
(* one in tool calls -, and time passes.                                   *)
Fairness ==
  /\ \A t \in Turns : WF_vars(RequestStep(t)) /\ WF_vars(MarkRemoved(t)) /\ WF_vars(Age(t))
  /\ WF_vars(WorkerStep) /\ WF_vars(RunNowStep)
  /\ \A r \in {"prompt", "wake"} : WF_vars(CallStep(r))
  /\ WF_vars(RunStep) /\ SF_vars(StepEnds /\ phase' # phase)

FairSpec == Spec /\ Fairness

-----------------------------------------------------------------------------
(* Every variable keeps its type, and the lock's holder runs a turn exactly *)
(* between taking it up and its end.                                       *)
TypeOK ==
  /\ LoopTypeOK
  /\ req \in [Turns -> {"new", "queueing", "starting", "enqueueing", "enqueued", "over"}]
  /\ rec \in [Turns -> {"none", "accepted", "queued", "running"} \cup Ended]
  /\ stale \subseteq Turns /\ removing \subseteq Turns
  /\ queue \in Seq(Turns) /\ IsInjective(queue) /\ Len(queue) <= MaxQueue
  /\ keeper \in BOOLEAN /\ chain \in BOOLEAN /\ stepping \in BOOLEAN
  /\ line \in Seq(Turns \cup {Drainer})
  /\ stage \in {"idle", "drain", "got", "dispatch", "run", "handed"}
  /\ cur \in Turns \cup {NoTurn} /\ (cur = NoTurn <=> stage \in {"idle", "drain"})
  /\ (stage # "idle" => line # <<>>)
  /\ asked \subseteq Turns /\ answered \subseteq asked /\ taken \subseteq asked
  /\ runNow \in {"none", "promoted", "aborted"}
  /\ felled \in BOOLEAN /\ {wakes, crashes, runNows, broken} \subseteq Nat

(* The state is well formed, and the session never has two runners.        *)
Consistent == TypeOK /\ OneRunner

Waits(t) == \/ t \in Range(queue) \/ cur = t
            \/ \E i \in DOMAIN line : line[i] = t /\ (stage = "idle" \/ i > 1)

(* A turn whose receipt says it ended is nowhere any more that could still *)
(* run it, and one taken out of the queue never reached the history.       *)
EndedIsOver ==
  \A t \in Turns : /\ (rec[t] \in Ended => ~Waits(t))
                    /\ (rec[t] = "removed" => t \notin asked)

(* What waits in the queue has somebody to run it: an execution that       *)
(* drains it at its end, a worker at the lock, or a request about to start *)
(* one - unless a prompt that could not be dispatched took its worker down.*)
SomebodyDrains ==
  queue # <<>> => \/ IsRunning \/ line # <<>> \/ runNow # "none"
                  \/ \E t \in Turns : req[t] = "enqueued"
                  \/ felled

(* A turn that waits in the queue or runs does not read as lost.           *)
HeldIsFresh ==
  \A t \in Turns : t \in Range(queue) \/ (cur = t /\ stage # "got") => t \notin stale

(* A turn with a receipt ends; only a crash leaves it to be read as lost,  *)
(* and only one that could not be dispatched may leave others waiting.     *)
EveryTurnEnds ==
  \A t \in Turns : rec[t] \in {"accepted", "queued", "running"}
                      ~> rec[t] \in Ended \/ (t \in stale /\ crashes > 0) \/ felled

(* "The service accepts a prompt or a slash command and runs it later"     *)
(* (turn_receipt.py): a queued prompt leaves the queue.                    *)
QueuedPromptLeaves == \A t \in Turns : t \in Range(queue) ~> t \notin Range(queue)
=============================================================================
