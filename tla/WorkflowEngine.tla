--------------------------- MODULE WorkflowEngine ---------------------------
(***************************************************************************)
(* One run of a workflow graph (flocks/workflow/engine.py, run).  The      *)
(* engine's thread drains its queue into a batch, has worker threads       *)
(* execute the batch, and enqueues what comes next.  A thread that exceeds *)
(* its time limit cannot be killed: the engine goes on without it.         *)
(*                                                                         *)
(* Executions are numbered as the code numbers its steps; a payload is     *)
(* only whether it equals the node's last one.                             *)
(***************************************************************************)
EXTENDS Naturals, Sequences, FiniteSets

CONSTANTS Nodes, StartNode,
          Edges,       \* adjacency: the successors of each node, in order
          Joins,       \* nodes with join = true
          Choosers,    \* branch and loop nodes, which select one edge at most
          Isolatable,  \* nodes that may be process_isolated in a behaviour
          Fatalable,   \* nodes that may be timeout_fatal in a behaviour
          Workers,     \* max_parallel_workers
          MaxSteps     \* max_steps

ASSUME EngineAssumption ==
  /\ IsFiniteSet(Nodes) /\ "__start__" \notin Nodes
  /\ StartNode \in Nodes /\ Edges \in [Nodes -> Seq(Nodes)]
  /\ {Joins, Choosers, Isolatable, Fatalable} \subseteq SUBSET Nodes
  /\ Workers \in Nat \ {0} /\ MaxSteps \in Nat \ {0}

VARIABLES isolated, fatal, \* the nodes that are
          stage,       \* where the engine's thread is
          queue,       \* q: what is to be delivered, from whom
          heard,       \* join_seen_sources; join_inputs has a buffer for the same nodes
          known,       \* nodes in _dedup_hashes
          steps,       \* state.steps
          nodeOf,      \* the node of each execution; those after steps are the batch
          thread,      \* the thread of each execution
          ending,      \* its _ExecOutcome, until its batch has been recorded
          shared,      \* executions that use the runtime of the engine itself
          marked,      \* executions whose _NodeRun is timed_out
          event,       \* timeout_cancel_event
          checker,     \* which cancel checker the runtime has
          overdue,     \* the run's own time limit is over
          wantStop,    \* the caller's cancel() says so
          scope,       \* runtime.globals: whose outputs it binds, who wrote into them
          final        \* the status run_workflow reports

engineVars == <<isolated, fatal, stage, queue, heard, known, steps, nodeOf,
                thread, ending, shared, marked, event, checker, overdue, wantStop, scope,
                final>>
settings   == <<isolated, fatal>>
graphState == <<queue, heard, known, steps, nodeOf, shared>>

Caller    == "__start__"
NoScope   == [owner |-> 0, writers |-> {}]
Executing == {"runs", "wrote"}
Batch     == {x \in DOMAIN nodeOf : x > steps}
Outs      == {"none", "ok", "part", "error", "timeout", "cancelled", "past"}

EngineTypeOK ==
  /\ isolated \subseteq Isolatable /\ fatal \subseteq Fatalable
  /\ {event, overdue, wantStop} \subseteq BOOLEAN
  /\ stage \in {"head", "drain", "serial", "kills", "parallel", "record", "over"}
  /\ queue \in Seq([to : Nodes, from : Nodes \cup {Caller}])
  /\ heard \in [Nodes -> SUBSET (Nodes \cup {Caller})] /\ known \subseteq Nodes
  /\ steps \in Nat
  /\ nodeOf \in Seq(Nodes) /\ {shared, marked} \subseteq SUBSET DOMAIN nodeOf
  /\ thread \in [DOMAIN nodeOf -> {"waits", "over"} \cup Executing]
  /\ ending \in [DOMAIN nodeOf -> Outs]
  /\ checker \in {"run", "residual", "previous"}
  /\ scope.owner \in Nat /\ scope.writers \subseteq DOMAIN nodeOf
  /\ final \in {"none", "SUCCEEDED", "FAILED", "CANCELLED", "TIMED_OUT"}

EngineInit ==
  /\ isolated \in SUBSET Isolatable /\ fatal \in SUBSET Fatalable
  /\ stage = "head" /\ queue = <<[to |-> StartNode, from |-> Caller]>>
  /\ heard = [n \in Nodes |-> {}] /\ known = {} /\ steps = 0
  /\ nodeOf = <<>> /\ thread = <<>> /\ ending = <<>> /\ shared = {}
  /\ marked = {} /\ event = FALSE /\ checker = "run"
  /\ overdue = FALSE /\ wantStop = FALSE /\ scope = NoScope
  /\ final = "none"

-----------------------------------------------------------------------------
(* What the cancel checker says to the thread of x: _runtime_cancel_       *)
(* requested while the run lasts.  Only the engine's own runtime gets      *)
(* another when the run is over; a copy keeps the one it was made with.    *)
PollsVariant(x) ==
  IF x \in shared /\ checker /= "run" THEN checker = "residual" /\ x \in marked
  ELSE overdue \/ x \in marked \/ wantStop
Polls(x) ==
  IF x \in shared /\ checker /= "run" THEN checker = "residual" /\ x \in marked
  ELSE event \/ overdue \/ x \in marked \/ wantStop

(* The finally of run: a timed-out node that still unwinds keeps being     *)
(* told so.                                                                *)
CheckerAfterVariant == "previous"
CheckerAfter == IF \E x \in marked : thread[x] \in Executing THEN "residual" ELSE "previous"

Finish(status) == stage' = "over" /\ final' = status /\ checker' = CheckerAfter

(* A caller that cancels before the engine is done is told so, even when   *)
(* the last node was over (run_workflow).                                  *)
Succeeds == Finish(IF wantStop THEN "CANCELLED" ELSE "SUCCEEDED")

-----------------------------------------------------------------------------
(* Phase 1.  A join waits until every incoming edge has been heard of,     *)
(* each source once; a node whose inputs are those it last had is skipped. *)
Sources(n)  == {m \in Nodes : \E i \in DOMAIN Edges[m] : Edges[m][i] = n}
InDegree(n) == Cardinality(UNION {{<<m, i>> : i \in {k \in DOMAIN Edges[m] : Edges[m][k] = n}} : m \in Nodes})
Gathers(n)  == n \in Joins /\ InDegree(n) > 0
Full(n, by) == Cardinality(by \cap Sources(n)) >= InDegree(n)

HeardVariant(h, t) ==
  IF Gathers(t.to) THEN [h EXCEPT ![t.to] = @ \cup {t.from}] ELSE h
Heard(h, t) ==
  LET by == h[t.to] \cup {t.from}
  IN IF Gathers(t.to) THEN [h EXCEPT ![t.to] = IF Full(t.to, by) THEN {} ELSE by] ELSE h

JoinFires(h, t) == Gathers(t.to) /\ Full(t.to, h[t.to] \cup {t.from})

(* At the head of the loop the engine looks whether it may go on; within   *)
(* the drain it does not.                                                  *)
MayDeliver ==
  /\ queue /= <<>>
  /\ \/ stage = "head" /\ ~wantStop /\ ~overdue /\ steps < MaxSteps
     \/ stage = "drain"

(* One delivery; what is to run joins the batch.  same: its inputs are the *)
(* last ones of its node.                                                  *)
Delivers ==
  /\ MayDeliver /\ stage' = "drain" /\ queue' = Tail(queue)
  /\ LET t == Head(queue)
     IN \E same \in BOOLEAN :
          /\ heard' = Heard(heard, t)
          /\ IF (Gathers(t.to) => JoinFires(heard, t)) /\ ~(same /\ t.to \in known)
               THEN /\ known' = known \cup {t.to} /\ nodeOf' = Append(nodeOf, t.to)
                    /\ thread' = Append(thread, "waits") /\ ending' = Append(ending, "none")
               ELSE UNCHANGED <<known, nodeOf, thread, ending>>
  /\ UNCHANGED <<settings, steps, shared, marked, event, checker, overdue, wantStop, scope, final>>

(* Phase 2 runs a batch in parallel unless one of its nodes has a process  *)
(* of its own.                                                             *)
InParallel == Workers > 1 /\ Len(nodeOf) > steps + 1 /\ \A x \in Batch : nodeOf[x] \notin isolated

Drained ==
  /\ stage = "drain" /\ queue = <<>>
  /\ stage' = IF Batch = {} THEN "head" ELSE IF InParallel THEN "parallel" ELSE "serial"
  /\ shared' = IF InParallel THEN shared ELSE shared \cup {x \in Batch : nodeOf[x] \notin isolated}
  /\ UNCHANGED <<settings, queue, heard, known, steps, nodeOf, thread, ending, marked, event, checker,
                 overdue, wantStop, scope, final>>

(* Two sources of a join gave one key different values, and it forbids it. *)
JoinConflicts ==
  /\ MayDeliver /\ JoinFires(heard, Head(queue)) /\ Finish("FAILED")
  /\ UNCHANGED <<settings, graphState, thread, ending, marked, event, overdue, wantStop, scope>>

(* The head of the loop, and its end: a join that heard some of its        *)
(* sources only fails the run.                                             *)
HeadEnds ==
  /\ stage = "head"
  /\ \/ queue /= <<>> /\ wantStop /\ Finish("CANCELLED")
     \/ queue /= <<>> /\ ~wantStop /\ overdue /\ Finish("TIMED_OUT")
     \/ queue /= <<>> /\ ~wantStop /\ ~overdue /\ steps >= MaxSteps /\ Finish("FAILED")
     \/ queue = <<>> /\ (\E n \in Nodes : heard[n] /= {}) /\ Finish("FAILED")
     \/ queue = <<>> /\ (\A n \in Nodes : heard[n] = {}) /\ Succeeds
  /\ UNCHANGED <<settings, graphState, thread, ending, marked, event, overdue, wantStop, scope>>

-----------------------------------------------------------------------------
(* Phase 2.  Serially, each execution is handed to a worker of its own     *)
(* that is idle; it binds fresh inputs and outputs in the runtime's        *)
(* globals.                                                                *)
FatalLate == \E x \in Batch : ending[x] = "timeout" /\ nodeOf[x] \in fatal
Undecided == {x \in Batch : ending[x] = "none"}
Current(x) ==
  /\ stage = "serial" /\ x \in Undecided /\ \A y \in Undecided : x <= y
  /\ ~FatalLate /\ \A y \in Batch : ending[y] /= "cancelled"

SerialStarts(x) ==
  /\ Current(x) /\ thread[x] = "waits" /\ thread' = [thread EXCEPT ![x] = "runs"]
  /\ scope' = IF x \in shared THEN [owner |-> x, writers |-> {}] ELSE scope
  /\ UNCHANGED <<settings, graphState, stage, ending, marked, event, checker, overdue, wantStop, final>>

(* In parallel, the pool's threads take the batch in order; each has a     *)
(* copy of the globals.                                                    *)
ParallelStarts(x) ==
  /\ stage = "parallel" /\ x \in Batch /\ thread[x] = "waits"
  /\ \A y \in Batch : y < x => thread[y] /= "waits"
  /\ Cardinality({y \in Batch : thread[y] \in Executing}) < Workers
  /\ thread' = [thread EXCEPT ![x] = "runs"]
  /\ UNCHANGED <<settings, graphState, stage, ending, marked, event, checker, overdue, wantStop, scope, final>>

(* A node writes into whatever is bound as outputs, and fails if nothing   *)
(* is.                                                                     *)
NodeWrites(x) ==
  /\ x \in shared /\ thread[x] = "runs"
  /\ IF scope.owner = 0
       THEN /\ thread' = [thread EXCEPT ![x] = "over"] /\ marked' = marked \ {x} /\ UNCHANGED scope
            /\ ending' = [ending EXCEPT ![x] = IF @ = "none" THEN "error" ELSE IF x \in Batch THEN @ ELSE "past"]
       ELSE /\ thread' = [thread EXCEPT ![x] = "wrote"] /\ UNCHANGED <<ending, marked>>
            /\ scope' = [scope EXCEPT !.writers = @ \cup {x}]
  /\ UNCHANGED <<settings, graphState, stage, event, checker, overdue, wantStop, final>>

(* It ends: with its outputs, with an error, with a TimeoutError of its    *)
(* own, which reads as its time limit, or because it noticed the checker,  *)
(* when it may also return the part it has.  The globals are cleaned up.   *)
Ways(x, noticed) ==
  {"error"} \cup (IF x \in shared THEN {"timeout"} ELSE {})
  \cup (IF noticed THEN {"part", "cancelled"} ELSE IF x \in shared /\ thread[x] = "runs" THEN {} ELSE {"ok"})

ThreadEnds(x, noticed) ==
  /\ thread[x] \in Executing /\ (noticed => Polls(x) /\ ending[x] = "none")
  /\ thread' = [thread EXCEPT ![x] = "over"] /\ marked' = marked \ {x}
  /\ \/ ending[x] = "none" /\ \E way \in Ways(x, noticed) : ending' = [ending EXCEPT ![x] = way]
     \/ ending[x] /= "none" /\ ending' = [ending EXCEPT ![x] = IF x \in Batch THEN @ ELSE "past"]
  /\ scope' = IF x \in shared THEN NoScope ELSE scope
  /\ UNCHANGED <<settings, graphState, stage, event, checker, overdue, wantStop, final>>

(* result(timeout=...) gives up on a thread; a process of its own is told  *)
(* to end and waited for.                                                  *)
SerialTimesOut(x) ==
  /\ Current(x) /\ thread[x] \in Executing /\ ending' = [ending EXCEPT ![x] = "timeout"]
  /\ IF nodeOf[x] \in isolated
       THEN stage' = "kills" /\ event' = TRUE /\ UNCHANGED marked
       ELSE UNCHANGED <<stage, event>> /\ marked' = marked \cup {x}
  /\ UNCHANGED <<settings, graphState, thread, checker, overdue, wantStop, scope, final>>

Killed ==
  /\ stage = "kills" /\ (\A x \in Batch : ending[x] = "timeout" => thread[x] = "over" \/ x \in marked)
  /\ stage' = "serial" /\ event' = FatalLate
  /\ UNCHANGED <<settings, graphState, thread, ending, marked, checker, overdue, wantStop, scope, final>>

(* Serially, a cancelled node ends the run at once; whose cancel it was is *)
(* told apart.                                                             *)
SerialCancelled ==
  /\ \E x \in Batch : ending[x] = "cancelled"
  /\ stage = "serial" /\ Finish(IF overdue /\ ~wantStop THEN "TIMED_OUT" ELSE "CANCELLED")
  /\ UNCHANGED <<settings, graphState, thread, ending, marked, event, overdue, wantStop, scope>>

(* as_completed(timeout=...) gives up on all it has not yielded yet: what  *)
(* runs, what ends at that moment, and what waits for a thread.  A thread  *)
(* that still takes a future between the flags and the pool's shutdown     *)
(* leaves what it leaves when it takes it just before the flags: flagged,  *)
(* and running or over.                                                    *)
BatchTimesOut ==
  /\ stage = "parallel" /\ Undecided /= {}
  /\ \E missed \in SUBSET (Batch \ Undecided) :
       LET late == Undecided \cup missed
       IN /\ \A x \in missed : ending[x] /= "timeout"
          /\ ending' = [x \in DOMAIN ending |-> IF x \in late THEN "timeout" ELSE ending[x]]
          /\ marked' = marked \cup {x \in late : thread[x] \in Executing}
          /\ thread' = [x \in DOMAIN thread |-> IF x \in late /\ thread[x] = "waits" THEN "over" ELSE thread[x]]
  /\ UNCHANGED <<settings, graphState, stage, event, checker, overdue, wantStop, scope, final>>

-----------------------------------------------------------------------------
(* Phase 3, once the batch is decided: a cancelled node ends the run, then *)
(* a fatal timeout or an error does (run_workflow leaves stop_on_error at  *)
(* True); else each node, also a timed-out one, hands on to what it        *)
(* selects.  A node interrupted by the run's deadline may have returned    *)
(* something, so the flags are looked at again.                            *)
Failing(x) == ending[x] = "error" \/ (ending[x] = "timeout" /\ nodeOf[x] \in fatal)

Selections(n) ==
  IF n \in Choosers THEN {<<>>} \cup {<<Edges[n][i]>> : i \in DOMAIN Edges[n]} ELSE {Edges[n]}

AfterBatchVariant == IF wantStop THEN Finish("CANCELLED") ELSE stage' = "head" /\ UNCHANGED <<final, checker>>
AfterBatch ==
  IF wantStop THEN Finish("CANCELLED")
  ELSE IF overdue THEN Finish("TIMED_OUT")
  ELSE stage' = "head" /\ UNCHANGED <<final, checker>>

Decided ==
  \/ stage \in {"serial", "parallel"} /\ Undecided = {}
  \/ stage = "serial" /\ FatalLate

BatchFails ==
  /\ Decided
  /\ \/ /\ stage = "parallel" /\ (\E x \in Batch : ending[x] = "cancelled") /\ Finish("CANCELLED")
     \/ /\ (\A x \in Batch : ending[x] /= "cancelled") /\ (\E x \in Batch : Failing(x)) /\ Finish("FAILED")
  /\ UNCHANGED <<settings, graphState, thread, ending, marked, event, overdue, wantStop, scope>>

HandsOn(x) ==
  /\ x = steps + 1 /\ steps' = x
  /\ \/ Decided /\ \A y \in Batch : ending[y] /= "cancelled" /\ ~Failing(y)
     \/ stage = "record"
  /\ \E pick \in Selections(nodeOf[x]) :
       queue' = queue \o [e \in DOMAIN pick |-> [to |-> pick[e], from |-> nodeOf[x]]]
  /\ ending' = [ending EXCEPT ![x] = IF @ = "part" \/ thread[x] \in Executing THEN @ ELSE "past"]
  /\ IF x = Len(nodeOf) THEN AfterBatch ELSE stage' = "record" /\ UNCHANGED <<final, checker>>
  /\ UNCHANGED <<settings, heard, known, nodeOf, shared, thread, marked, event, overdue, wantStop, scope>>

(* The caller, and the run's own clock.                                    *)
CallerCancels ==
  /\ stage /= "over" /\ ~wantStop /\ wantStop' = TRUE
  /\ UNCHANGED <<settings, graphState, stage, thread, ending, marked, event, checker, overdue, scope, final>>

DeadlinePasses ==
  /\ stage /= "over" /\ ~overdue /\ overdue' = TRUE
  /\ UNCHANGED <<settings, graphState, stage, thread, ending, marked, event, checker, wantStop, scope, final>>

EngineStep ==
  \/ Delivers \/ Drained \/ JoinConflicts \/ HeadEnds \/ Killed \/ SerialCancelled \/ BatchFails
  \/ \E x \in Batch : SerialStarts(x) \/ SerialTimesOut(x) \/ HandsOn(x)
  \/ BatchTimesOut

(* The child process of an isolated node dies when it is told to.          *)
ChildDies == stage = "kills" /\ \E x \in Batch : nodeOf[x] \in isolated /\ Polls(x) /\ ThreadEnds(x, FALSE)

EngineNext ==
  \/ EngineStep \/ CallerCancels \/ DeadlinePasses
  \/ \E x \in Batch : ParallelStarts(x)
  \/ \E x \in DOMAIN nodeOf : NodeWrites(x) \/ \E noticed \in BOOLEAN : ThreadEnds(x, noticed)

EngineSpec == EngineInit /\ [][EngineNext]_engineVars

-----------------------------------------------------------------------------
(* A join never runs more often than each of its sources has run and       *)
(* delivered (the buffers and seen sources of phase 1).                    *)
JoinsAreFed ==
  \A j \in Nodes : \A s \in Sources(j) :
    Gathers(j) => Cardinality({x \in DOMAIN nodeOf : nodeOf[x] = j})
                    <= Cardinality({x \in 1..steps : nodeOf[x] = s})

(* What run_workflow reports as SUCCEEDED was not cut short: no node was   *)
(* interrupted by the run's deadline or a cancel and returned part of its  *)
(* work, nothing that ends a run happened, no join was left waiting.       *)
SuccessIsWhole ==
  final = "SUCCEEDED" =>
    /\ \A x \in DOMAIN nodeOf : ending[x] /= "part" /\ ~Failing(x)
    /\ \A n \in Nodes : heard[n] = {}

(* A stop reaches the threads it is meant for, and no other: the time      *)
(* limit of one node never interrupts another, and a thread that was given *)
(* up on is told so as long as it runs, also when the run is over          *)
(* (_NodeRunTracker, the finally of run).                                  *)
StopsReachTheirNode ==
  \A x \in DOMAIN nodeOf : thread[x] \in Executing =>
    /\ ending[x] = "timeout" => Polls(x)
    /\ Polls(x) => overdue \/ wantStop \/ ending[x] = "timeout"

(* A run that has begun comes to an end, whatever its nodes do.            *)
WorkflowEnds == (nodeOf /= <<>>) ~> (stage = "over")

(* The outputs of a node are its own (the comment of _get_isolated_        *)
(* runtime: globals are not safe for two threads, and copied so that       *)
(* inputs and outputs do not collide).                                     *)
OutputsAreOwn ==
  [][\A x \in shared : (ending[x] = "none" /\ ending'[x] = "ok")
        => (scope.owner = x /\ scope.writers = {x})]_engineVars
=============================================================================
