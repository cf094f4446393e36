----------------------------- MODULE AgentInbox -----------------------------
(***************************************************************************)
(* The inbox of one session (flocks/session/agent_inbox.py): messages of   *)
(* other agents and results of delegated children (delegated_execution.py),*)
(* drained into the history between two steps of an execution, and the     *)
(* wakes that start an execution for them.  A stop closes the inbox; the   *)
(* next use of it opens a new generation.                                  *)
(*                                                                         *)
(* A step is what happens between two awaits of one event loop.  A message *)
(* from another event loop is posted there by a call that is on its way    *)
(* for a while (st "flight"), bound to the generation its sender saw.      *)
(***************************************************************************)
EXTENDS SessionLoop

CONSTANTS Messages,    \* what is sent to the session, each once
          Delegated,   \* those that are results of children the session delegates to
          RetryLimit,  \* retries of a wake that finds the lease held
          MaxStops, MaxCancels, MaxPrompts  \* bounds of what users do

ASSUME InboxAssumption ==
  /\ IsFiniteSet(Messages) /\ Delegated \subseteq Messages
  /\ {RetryLimit, MaxStops, MaxCancels, MaxPrompts} \subseteq Nat

VARIABLES inbox,    \* the registered inbox: its generation (0: none), messages, stopped
          st,       \* where each message is
          target,   \* the generation it is bound to
          born,     \* history: how many stops preceded its sending
          history,  \* messages in the session's history
          stage,    \* where the registered execution is
          bound,    \* the generation it was registered with, and the one it drains
          todo,     \* the messages its drain took on
          mid,      \* the first of them has been put in the history
          wake,     \* the registered wake task, or its finalizer
          job,      \* the same of the session's own execution as a child
          timers,   \* delayed retries, by attempt
          stops, cancels, prompts

inboxVars == <<inbox, st, target, born, history, stage, bound, todo, mid,
               wake, job, timers, stops, cancels, prompts>>
vars == <<loopVars, inboxVars>>

NoWake == [state |-> "none", gen |-> 0, attempt |-> 0]

Init ==
  /\ LoopInit
  /\ inbox = [gen |-> 0, box |-> <<>>, stopped |-> FALSE]
  /\ st = [m \in Messages |-> "new"]
  /\ target = [m \in Messages |-> 0] /\ born = [m \in Messages |-> 0]
  /\ history = {} /\ stage = "top" /\ bound = [run |-> 0, drain |-> 0]
  /\ todo = <<>> /\ mid = FALSE /\ wake = NoWake /\ job = "none" /\ timers = {}
  /\ stops = 0 /\ cancels = 0 /\ prompts = 0

(* get: a stopped inbox is replaced by a new generation.                   *)
Get(i) == IF i.gen = 0 \/ i.stopped
            THEN [gen |-> i.gen + 1, box |-> <<>>, stopped |-> FALSE] ELSE i

AcceptsVariant(i, g) == ~i.stopped
Accepts(i, g) == i.gen = g /\ ~i.stopped
Stopped(g) == ~Accepts(inbox, g)

(* close: what it holds is dropped, and so is what still arrives.          *)
Close(i) == [i EXCEPT !.box = <<>>, !.stopped = TRUE]
Dropped(i) == [m \in Messages |-> IF Contains(i.box, m) THEN "dropped" ELSE st[m]]

(* _wake with inbox i, wake w and own job j: an execution is started for   *)
(* what waits, unless one is going on or registered to.  ph is the phases  *)
(* so far.                                                                 *)
Wake(i, w, j, n, ph) ==
  /\ inbox' = Get(i)
  /\ IF IsRunning \/ w.state # "none" \/ j \in {"task", "finalizer"} \/ Get(i).box = <<>>
       THEN wake' = w /\ phase' = ph
       ELSE /\ wake' = [state |-> "task", gen |-> Get(i).gen, attempt |-> n]
            /\ phase' = [ph EXCEPT !["wake"] = "check"]

(* post on the inbox's own loop, bound to generation g.                    *)
Post(m, i, g) ==
  IF Accepts(i, g)
    THEN /\ Wake([i EXCEPT !.box = Append(@, m)], wake, job, 0, phase)
         /\ st' = [st EXCEPT ![m] = "box"]
    ELSE inbox' = i /\ st' = [st EXCEPT ![m] = "dropped"] /\ UNCHANGED <<wake, phase>>

-----------------------------------------------------------------------------
(* Another agent sends a message (send_to_session), or a run delegates to  *)
(* a child, whose result is bound to the inbox of that moment.             *)
Send(m) ==
  /\ m \in Messages \ Delegated /\ st[m] = "new"
  /\ LET i == Get(inbox) IN
       /\ target' = [target EXCEPT ![m] = i.gen]
       /\ \/ Post(m, i, i.gen)
          \/ inbox' = i /\ st' = [st EXCEPT ![m] = "flight"] /\ UNCHANGED <<wake, phase>>
  /\ born' = [born EXCEPT ![m] = stops]
  /\ UNCHANGED <<lease, active, aborting, doomed, result, history, stage, bound, todo, mid,
                 job, timers, stops, cancels, prompts>>

Delegate(m) ==
  /\ m \in Delegated /\ st[m] = "new" /\ IsRunning /\ stage = "step" /\ ~aborting
  /\ inbox' = Get(inbox)
  /\ target' = [target EXCEPT ![m] = inbox'.gen] /\ born' = [born EXCEPT ![m] = stops]
  /\ st' = [st EXCEPT ![m] = "working"]
  /\ UNCHANGED <<loopVars, history, stage, bound, todo, mid, wake, job, timers,
                 stops, cancels, prompts>>

(* The child's result is posted, here or from another loop.                *)
Report(m) ==
  /\ st[m] = "working"
  /\ \/ Post(m, inbox, target[m])
     \/ /\ Accepts(inbox, target[m]) /\ st' = [st EXCEPT ![m] = "flight"]
        /\ UNCHANGED <<inbox, wake, phase>>
  /\ UNCHANGED <<lease, active, aborting, doomed, result, target, born, history, stage, bound,
                 todo, mid, job, timers, stops, cancels, prompts>>

Arrive(m) ==
  /\ st[m] = "flight" /\ Post(m, inbox, target[m])
  /\ UNCHANGED <<lease, active, aborting, doomed, result, target, born, history, stage, bound,
                 todo, mid, job, timers, stops, cancels, prompts>>

-----------------------------------------------------------------------------
(* Calls of SessionLoop.run: by a prompt, and once as a delegated child.   *)
StartPrompt ==
  /\ phase["prompt"] = "off" /\ prompts < MaxPrompts
  /\ prompts' = prompts + 1 /\ Goto("prompt", "entering") /\ doomed' = doomed \ {"prompt"}
  /\ UNCHANGED <<lease, active, aborting, result, inbox, st, target, born, history, stage, bound,
                 todo, mid, wake, job, timers, stops, cancels>>

StartJob ==
  /\ job = "none" /\ phase["job"] = "off"
  /\ job' = "task" /\ Goto("job", "entering") /\ inbox' = Get(inbox)
  /\ UNCHANGED <<lease, active, aborting, doomed, result, st, target, born, history, stage, bound,
                 todo, mid, wake, timers, stops, cancels, prompts>>

(* The task of a call that is over, with result how, goes on as its        *)
(* finalizer; a prompt's caller is told.                                   *)
Over(r, how) ==
  /\ Returns(r, IF r = "wake" THEN how ELSE "none")
  /\ wake' = IF r = "wake" THEN [wake EXCEPT !.state = "finalizer"] ELSE wake
  /\ job' = IF r = "job" THEN "finalizer" ELSE job
  /\ doomed' = doomed \ {r}

(* The call returns at once: the lease is held, the wake's inbox was       *)
(* stopped meanwhile, or its task was cancelled.                           *)
ReturnEarly(r) ==
  /\ \/ phase[r] \in {"check", "entering"} /\ r \in doomed /\ Over(r, "cancelled")
     \/ phase[r] = "check" /\ r \notin doomed /\ Stopped(wake.gen) /\ Over(r, "skipped")
     \/ phase[r] = "entering" /\ r \notin doomed /\ ~MayEnter /\ Over(r, "queued")
  /\ Goto(r, "off")
  /\ UNCHANGED <<lease, active, aborting, inbox, st, target, born, history, stage, bound,
                 todo, mid, timers, stops, cancels, prompts>>

WakeChecked ==
  /\ phase["wake"] = "check" /\ "wake" \notin doomed /\ ~Stopped(wake.gen)
  /\ Goto("wake", "entering")
  /\ UNCHANGED <<lease, active, aborting, doomed, result, inboxVars>>

Proceed(r) == (Enter(r) \/ Refuse(r) \/ Unregister(r)) /\ UNCHANGED inboxVars

(* The registered execution is bound to the inbox.                         *)
Bind(r) ==
  /\ Register(r)
  /\ IF IsRunning
       THEN UNCHANGED <<inbox, bound, stage>>
       ELSE inbox' = Get(inbox) /\ stage' = "top" /\ bound' = [bound EXCEPT !.run = inbox'.gen]
  /\ UNCHANGED <<st, target, born, history, todo, mid, wake, job, timers, stops, cancels, prompts>>

(* The lease goes back, then what the execution left in the inbox wakes    *)
(* the next one.                                                           *)
Release(r) ==
  /\ phase[r] = "popped" /\ lease' = NoRunner
  /\ IF r = "prompt" /\ inbox.gen > 0
       THEN /\ Wake(inbox, wake, job, 0, [phase EXCEPT ![r] = "off"])
            /\ job' = job /\ doomed' = doomed \ {r} /\ Returns(r, "none")
       ELSE /\ Over(r, result[r]) /\ Goto(r, "off")
            /\ inbox' = IF inbox.gen > 0 THEN Get(inbox) ELSE inbox
  /\ UNCHANGED <<active, aborting, st, target, born, history, stage, bound, todo, mid,
                 timers, stops, cancels, prompts>>

-----------------------------------------------------------------------------
(* The registered execution: between two steps of the model it drains the  *)
(* inbox it binds then, message by message, until the stop is noticed.     *)
Runs(s) == /\ IsRunning /\ phase[active] = "running" /\ active \notin doomed /\ stage = s

Top ==
  /\ Runs("top")
  /\ IF aborting
       THEN stage' = "settle" /\ UNCHANGED <<inbox, bound, todo>>
       ELSE /\ inbox' = Get(inbox) /\ bound' = [bound EXCEPT !.drain = inbox'.gen]
            /\ todo' = inbox'.box
            /\ stage' = IF todo' = <<>> THEN "prepare" ELSE "drain"
  /\ result' = [result EXCEPT ![active] = "stop"]
  /\ UNCHANGED <<phase, lease, active, aborting, doomed, st, target, born, history, mid, wake,
                 job, timers, stops, cancels, prompts>>

DrainOverVariant ==
  /\ Runs("drain") /\ (todo = <<>> \/ Stopped(bound.drain))
  /\ stage' = "prepare" /\ todo' = <<>> /\ mid' = FALSE /\ UNCHANGED history
  /\ UNCHANGED <<loopVars, inbox, st, target, born, bound, wake, job, timers, stops, cancels,
                 prompts>>

DrainOver ==
  /\ Runs("drain") /\ (todo = <<>> \/ Stopped(bound.drain))
  /\ stage' = "prepare" /\ todo' = <<>> /\ mid' = FALSE
  /\ history' = IF mid THEN history \ {Head(todo)} ELSE history
  /\ UNCHANGED <<loopVars, inbox, st, target, born, bound, wake, job, timers, stops, cancels,
                 prompts>>

DrainCreate ==
  /\ Runs("drain") /\ ~mid /\ todo # <<>> /\ ~Stopped(bound.drain)
  /\ mid' = TRUE
  /\ history' = history \cup {Head(todo)}
  /\ UNCHANGED <<loopVars, inbox, st, target, born, stage, bound, todo, wake, job, timers,
                 stops, cancels, prompts>>

DrainPop ==
  /\ Runs("drain") /\ mid /\ ~Stopped(bound.drain)
  /\ inbox' = [inbox EXCEPT !.box = Tail(@)] /\ todo' = Tail(todo) /\ mid' = FALSE
  /\ st' = [st EXCEPT ![Head(inbox.box)] = "read"]
  /\ UNCHANGED <<loopVars, target, born, history, stage, bound, wake, job, timers, stops, cancels,
                 prompts>>

(* The context is prepared; what arrived meanwhile is drained first.       *)
Prepare ==
  /\ Runs("prepare")
  /\ IF aborting
       THEN stage' = "settle" /\ UNCHANGED inbox
       ELSE inbox' = Get(inbox) /\ stage' = IF inbox'.box = <<>> THEN "step" ELSE "top"
  /\ UNCHANGED <<loopVars, st, target, born, history, bound, todo, mid, wake, job, timers,
                 stops, cancels, prompts>>

(* The step of the model goes on with tool calls, is the last one, fails,  *)
(* or was stopped.                                                         *)
StepEnds ==
  /\ Runs("step")
  /\ \/ ~aborting /\ stage' = "top" /\ UNCHANGED result
     \/ stage' = "settle" /\ UNCHANGED result
     \/ ~aborting /\ stage' = "settle" /\ result' = [result EXCEPT ![active] = "error"]
  /\ UNCHANGED <<phase, lease, active, aborting, doomed, inbox, st, target, born, history, bound,
                 todo, mid, wake, job, timers, stops, cancels, prompts>>

(* The execution goes on for what the inbox holds, unless it was stopped   *)
(* or failed.                                                              *)
Settle ==
  /\ Runs("settle")
  /\ IF aborting \/ result[active] = "error" \/ Stopped(bound.run)
       THEN Goto(active, "closing") /\ UNCHANGED inbox
       ELSE /\ inbox' = Get(inbox)
            /\ IF inbox'.box = <<>> THEN Goto(active, "closing") ELSE UNCHANGED phase
  /\ stage' = "top"
  /\ UNCHANGED <<lease, active, aborting, doomed, result, st, target, born, history, bound, todo,
                 mid, wake, job, timers, stops, cancels, prompts>>

(* The task of a call is cancelled: a message half drained goes, and if    *)
(* nobody stopped the session before, its inbox is closed.                 *)
Cancelled(r) ==
  /\ r \in doomed /\ phase[r] \in {"preparing", "running"}
  /\ Returns(r, "cancelled")
  /\ IF phase[r] = "preparing"
       THEN Goto(r, "popped") /\ UNCHANGED <<inbox, st, history, stage, todo, mid>>
       ELSE /\ Goto(r, "closing") /\ stage' = "top"
            /\ history' = IF mid THEN history \ {Head(todo)} ELSE history
            /\ todo' = <<>> /\ mid' = FALSE
            /\ IF aborting \/ Stopped(bound.run)
                 THEN UNCHANGED <<inbox, st>>
                 ELSE inbox' = Close(inbox) /\ st' = Dropped(inbox)
  /\ UNCHANGED <<lease, active, aborting, doomed, target, born, bound, wake, job, timers,
                 stops, cancels, prompts>>

-----------------------------------------------------------------------------
(* The result of a wake is delivered.  A stop in between makes it a        *)
(* stopped one, which wakes again for the new generation; a held lease     *)
(* makes it try later; a failure starts nothing.                           *)
Outcome == IF result["wake"] # "skipped" /\ (Stopped(wake.gen) \/ result["wake"] = "cancelled")
             THEN "stop" ELSE result["wake"]
RetriesVariant == Outcome = "queued" /\ wake.attempt < RetryLimit /\ IsRunning
Retries == Outcome = "queued" /\ wake.attempt < RetryLimit

WakeDelivered ==
  /\ wake.state = "finalizer"
  /\ IF Outcome = "stop" THEN Wake(inbox, NoWake, job, 0, phase)
                         ELSE wake' = NoWake /\ UNCHANGED <<inbox, phase>>
  /\ timers' = IF Retries THEN timers \cup {wake.attempt + 1} ELSE timers
  /\ UNCHANGED <<lease, active, aborting, doomed, result, st, target, born, history, stage, bound,
                 todo, mid, job, stops, cancels, prompts>>

(* A call prepares, and gives the lease back, within a moment: the delays  *)
(* are longer, so that a retry meets the lease free or its holder running. *)
RetryDue(n) ==
  /\ lease = NoRunner \/ IsRunning
  /\ n \in timers /\ timers' = timers \ {n}
  /\ Wake(inbox, wake, job, n, phase)
  /\ UNCHANGED <<lease, active, aborting, doomed, result, st, target, born, history, stage, bound,
                 todo, mid, job, stops, cancels, prompts>>

(* Until the result of the session's own execution has been delivered to   *)
(* its parent, nothing wakes the session; then what waits does.            *)
JobDelivered ==
  /\ job = "finalizer" /\ job' = "over"
  /\ Wake(inbox, wake, "over", 0, phase)
  /\ UNCHANGED <<lease, active, aborting, doomed, result, st, target, born, history, stage, bound,
                 todo, mid, timers, stops, cancels, prompts>>

(* The user stops the session: its inbox is closed, its registered tasks   *)
(* are cancelled unless they deliver already, its execution is aborted.    *)
Stop ==
  /\ stops < MaxStops /\ stops' = stops + 1
  /\ IF inbox.gen = 0 THEN UNCHANGED <<inbox, st>> ELSE inbox' = Close(inbox) /\ st' = Dropped(inbox)
  /\ doomed' = doomed \cup {r \in {"wake"} : wake.state = "task"} \cup {r \in {"job"} : job = "task"}
  /\ aborting' = IsRunning
  /\ UNCHANGED <<phase, lease, active, result, target, born, history, stage, bound, todo, mid,
                 wake, job, timers, cancels, prompts>>

(* Whoever awaits the execution cancels it: a workflow node that timed     *)
(* out, a background run's watchdog.                                       *)
Cancel(r) ==
  /\ r # "wake" /\ phase[r] \in {"preparing", "running"} /\ r \notin doomed
  /\ cancels < MaxCancels /\ cancels' = cancels + 1
  /\ doomed' = doomed \cup {r}
  /\ UNCHANGED <<phase, lease, active, aborting, result, inbox, st, target, born, history, stage,
                 bound, todo, mid, wake, job, timers, stops, prompts>>

-----------------------------------------------------------------------------
CallStep(r) == ReturnEarly(r) \/ Proceed(r) \/ Bind(r) \/ Release(r) \/ Cancelled(r)
RunStep == Top \/ DrainOver \/ DrainCreate \/ DrainPop \/ Prepare \/ StepEnds \/ Settle
Delivery == WakeChecked \/ WakeDelivered \/ JobDelivered

Next == \/ \E m \in Messages : Send(m) \/ Delegate(m) \/ Report(m) \/ Arrive(m)
        \/ \E r \in Runners : CallStep(r) \/ Cancel(r)
        \/ \E n \in 1..RetryLimit : RetryDue(n)
        \/ RunStep \/ Delivery \/ StartPrompt \/ StartJob \/ Stop

Spec == Init /\ [][Next]_vars

(* The event loop runs whatever is ready, timers fire, a step of the model *)
(* ends, a call from another loop arrives.  What users and other agents do *)
(* may never happen.                                                       *)
Fairness ==
  /\ \A r \in Runners : WF_vars(CallStep(r))
  /\ WF_vars(RunStep) /\ WF_vars(WakeChecked) /\ WF_vars(WakeDelivered) /\ WF_vars(JobDelivered)
  /\ \A n \in 1..RetryLimit : WF_vars(RetryDue(n))
  /\ \A m \in Messages : WF_vars(Arrive(m))

FairSpec == Spec /\ Fairness

-----------------------------------------------------------------------------
(* Every variable keeps its type, and the messages of the inbox are those  *)
(* recorded as waiting.                                                    *)
TypeOK ==
  /\ LoopTypeOK
  /\ inbox \in [gen : Nat, box : Seq(Messages), stopped : BOOLEAN]
  /\ st \in [Messages -> {"new", "working", "flight", "box", "read", "dropped"}]
  /\ \A m \in Messages : st[m] = "box" <=> Contains(inbox.box, m)
  /\ target \in [Messages -> Nat] /\ born \in [Messages -> Nat]
  /\ history \subseteq Messages /\ todo \in Seq(Messages)
  /\ stage \in {"top", "drain", "prepare", "step", "settle"}
  /\ bound \in [run : Nat, drain : Nat] /\ mid \in BOOLEAN
  /\ wake \in [state : {"none", "task", "finalizer"}, gen : Nat, attempt : Nat]
  /\ job \in {"none", "task", "finalizer", "over"} /\ timers \subseteq 1..RetryLimit
  /\ {stops, cancels, prompts} \subseteq Nat

(* A late result cannot revive a stopped conversation: what waits in the   *)
(* inbox, and so may start an execution, was sent after the last stop.     *)
NotRevived == \A m \in Messages : st[m] = "box" => born[m] = stops

(* popleft removes the message that was put in the history, whatever was   *)
(* posted, closed or replaced since the drain took its snapshot.           *)
DrainsItsHead ==
  IsRunning /\ stage = "drain" /\ ~Stopped(bound.drain) => IsPrefix(todo, inbox.box)

(* A message is in the history exactly if it was drained, also when a stop *)
(* or a cancel hits the drain between the two: none is left half drained.  *)
HistoryIsRead ==
  \A m \in Messages :
    m \in history <=> st[m] = "read" \/ (mid /\ m = Head(todo))

(* Types, and both of these: what a drain takes out is what it stored.     *)
Consistent == TypeOK /\ DrainsItsHead /\ HistoryIsRead

(* A message that waits is drained or dropped, whatever execution, wake,   *)
(* finalizer or retry goes on when it arrives; only a wake that failed, or *)
(* found its inbox stopped, may leave it for the next message or prompt.   *)
WakeFailed == wake.state = "none" /\ result["wake"] \in {"error", "skipped"}
MessagesAreTaken ==
  \A m \in Messages : st[m] = "box" ~> st[m] # "box" \/ WakeFailed
=============================================================================
