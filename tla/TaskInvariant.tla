---------------------------- MODULE TaskInvariant ----------------------------
(***************************************************************************)
(* The inductive invariants behind TaskProperties.  What dispatchers, the  *)
(* execution loop and the requests may believe of a row (views), and what  *)
(* tells a run from the runs before it (fences), hold whatever fails.  Who *)
(* owns a running row, which work is in doubt, and how often it failed     *)
(* (retries) hold unless the machine sleeps (the fault "suspend"), which   *)
(* makes the loop recover a row under the dispatcher that still owns it.   *)
(* That slots, references and sessions go with their runs (holdings) needs *)
(* more, as said there.                                                    *)
(***************************************************************************)
EXTENDS TaskProperties

(* Views, behind FinalStatus and RefMatchesRow.  A dispatcher decides on   *)
(* an object it read or wrote some steps ago, so both rest on what such an *)
(* object still tells about its row: its version is not ahead of the       *)
(* row's, and where the object is used to settle a failure, the same       *)
(* version means the same status.                                          *)
Settling(x) == \/ x.pc \in {"judge", "hold", "later"}
               \/ x.pc \in {"release", "finishref"} /\ x.exit = "settle"

RunCurrent(r) ==
  LET x == run[r]
      w == row[x.exec]
  IN x.pc \notin {"unused", "over"} =>
       /\ w.status # "new"
       /\ x.pc \in {"save", "pending"} => x.obj.status \in Terminal
       /\ x.pc \in {"failwrite", "judge", "hold", "later"} => x.obj.status = "failed"
       /\ x.pc \in {"intjudge", "intrequeue"} => x.obj.status \notin Terminal
       /\ w.status # "deleted" => x.obj.ver <= w.ver
       /\ w.status # "deleted" /\ Settling(x) /\ x.obj.ver = w.ver => x.obj.status = w.status

(* What the execution loop, start, the requests and the scheduler row add. *)
LoopCurrent == /\ loop.pc \in {"retry", "stalewrite"} => loop.obj.status = "failed"
               /\ loop.pc = "orphan" => loop.obj.status = "queued"
StartCurrent == /\ \A e \in orphans : row[e].status = "running"
                /\ orphans # {} => mgr = "starting"
                /\ mgr # "up" => \A q \in Reqs : req[q].pc = "idle"
                /\ ~sched => \A e \in Execs : ~Present(e)

(* Nothing the task center will write rests on a stale view of its row:    *)
(* every object a dispatcher, the loop or start holds agrees with the      *)
(* record as far as the write it is for will check.                        *)
ViewsCurrent ==
  /\ RefMatchesRow
  /\ \A r \in Runs : RunCurrent(r)
  /\ LoopCurrent /\ StartCurrent

-----------------------------------------------------------------------------
(* Where the object is still the one the claim returned.                   *)
FirstObject == InDispatch \cup {"scheduler", "pending"}

Clean(o) == ~o.due /\ ~o.held

(* What every fault leaves alone, behind ResultOfItsRun.  A run that was   *)
(* not claimed has nothing; a process that is down has no runs; the object *)
(* of a claim carries its start time up to the last write; and work that   *)
(* was not told to stop is waited for by its dispatcher.                   *)
Fenced(r) ==
  LET x == run[r] IN
  /\ r > claims => x.pc = "unused"
  /\ x.pc \in {"unused", "scheduler", "start", "register"} => x.work = "none" /\ ~x.eff
  /\ x.pc # "unused" => row[x.exec].status # "new"
  /\ mgr \in {"down", "starting"} => ~Live(r) /\ x.work # "going"
  /\ x.pc \in FirstObject => x.obj.started = r
  /\ x.work = "going" /\ ~x.stop => x.pc = "work"
  /\ x.pc = "work" => x.work = "going"
  /\ x.pc \in {"check", "open"} => x.work = "held"
  /\ x.pc \in {"save", "pending"} /\ x.obj.status = "completed" => x.work = "ended"
  /\ x.pc \in InDispatch /\ x.exec \notin Workflow => x.obj.sess # 0
  /\ x.pc \in {"check", "open", "work", "save"} => x.sess = x.obj.sess

(* A queued row has no start time: the next claim sets its own.            *)
QueuedUnstarted == \A e \in Execs : row[e].status = "queued" => row[e].started = 0

FencesHold == QueuedUnstarted /\ \A r \in Runs : Fenced(r)

(* What holds whatever fails: types, views and fences.                     *)
Consistent == TypeOK /\ ViewsCurrent /\ FencesHold

-----------------------------------------------------------------------------
(* The rest holds unless the machine sleeps.  A row nothing brings back:   *)
(* every claim on it ends without a write.                                 *)
CalledOff(e) == row[e].status \in {"cancelled", "deleted"}

(* A run that owns its execution: claimed, and the result not recorded.    *)
OwnPC == PC \ {"unused", "release", "finishref", "judge", "hold", "later", "pending", "over"}
Owns(r) == run[r].pc \in OwnPC
Keeps(r) == Owns(r) \/ run[r].pc = "pending"

(* The running row of an execution carries the claim of the one run that   *)
(* owns it, whose slot is taken until its result is recorded.              *)
OwnerHasRow(r) ==
  LET e == run[r].exec IN
  /\ Owns(r) => CalledOff(e) \/ (row[e].status = "running" /\ row[e].started = r)
  /\ Keeps(r) => CalledOff(e) \/ slot[e] = r

OneOwner == \A r, s \in Runs : Owns(r) /\ Keeps(s) /\ run[r].exec = run[s].exec => r = s

(* The work of a run can be reached, until it was told to stop.            *)
WorkReached(r) ==
  LET e == run[r].exec IN
  /\ run[r].pc \in {"check", "open", "work"} /\ e \in Workflow => wfEvent[e] = r
  /\ run[r].pc \in {"open", "work"} /\ row[e].status = "cancelled" /\ ~Cancelling(e) => run[r].stop

(* The object of a run against its row, where a write will rest on it.     *)
ObjectAgrees(r) ==
  LET x == run[r]
      w == row[x.exec]
  IN /\ x.pc \in FirstObject => Clean(x.obj)
     /\ x.pc \in {"register", "check", "open", "work", "save"} /\ Present(x.exec) => w.sess = x.obj.sess
     /\ x.pc = "pending" /\ w.status = "running" /\ w.started = r => w.sess = x.obj.sess
     /\ x.pc = "failwrite" /\ w.status = "running" =>
          /\ x.obj.started = w.started /\ x.obj.sess = w.sess /\ ~x.obj.due
          /\ x.exit = "settle" => ~x.obj.held
     /\ (x.pc \in {"intjudge", "intrequeue"} \/ Settling(x)) /\ Present(x.exec) /\ x.obj.ver = w.ver
          => x.obj = w
     /\ Settling(x) /\ Present(x.exec) /\ x.obj.status = "failed" => ~x.obj.held

(* The marks of a row go with its status.                                  *)
MarksInStep(e) ==
  /\ row[e].status \in Active => Clean(row[e])
  /\ row[e].status = "failed" /\ row[e].due => ~row[e].held

(* A request past its write found, or made, its execution called off.      *)
RequestInStep(q) ==
  /\ req[q].pc \in {"stop", "free"} => CalledOff(req[q].exec)
  /\ req[q].pc \in {"write", "delete"} => row[req[q].exec].status # "new"

(* The execution loop: what it recovers has no owner, and what it queues   *)
(* again is as it was read.                                                *)
Recovering == loop.pc \in {"stalejudge", "stalefail", "stalewrite", "stalefree", "staleref"}

LoopAgrees ==
  LET e == loop.exec
      o == loop.obj
      w == row[e]
  IN /\ mgr # "up" => loop.pc = "idle"
     /\ Recovering => CalledOff(e) \/ \A r \in Runs : run[r].exec = e => ~Keeps(r)
     /\ loop.pc \in {"stalejudge", "stalefail", "stalewrite"} => w.status = "running" \/ CalledOff(e)
     /\ loop.pc = "stalewrite" /\ w.status = "running" =>
          o.started = w.started /\ o.sess = w.sess /\ ~o.due
     /\ loop.pc = "retry" => o.due
     /\ loop.pc \in {"retry", "orphan"} => w.status # "new"
     /\ loop.pc \in {"retry", "orphan"} /\ Present(e) => o.ver <= w.ver /\ (o.ver = w.ver => o = w)

-----------------------------------------------------------------------------
(* An execution that has such a run since a person last sent it off.       *)
Unsafe(e) == \E r \in Runs : run[r].exec = e /\ Exposed(r) /\ r > acks[e]

(* An execution that is queued, or on its way there, is not unsafe.        *)
SafeInQueue(e) == row[e].status = "queued" \/ (row[e].status = "failed" /\ row[e].due) => ~Unsafe(e)

SafeToQueue(r) ==
  LET e == run[r].exec IN
  /\ run[r].pc = "later" /\ Present(e) /\ run[r].obj.ver = row[e].ver => ~Unsafe(e)
  /\ run[r].pc = "intrequeue" /\ row[e].status = "running" /\ run[r].obj.ver = row[e].ver => ~Unsafe(e)

(* While it is unsafe, its row and the process tell (SafeToRetry): the run *)
(* in doubt is the one the row names.                                      *)
EvidenceKept(r) ==
  LET e == run[r].exec IN
  row[e].status \in {"running", "failed"} /\ Exposed(r) /\ r > acks[e] =>
    /\ row[e].started = r
    /\ e \in Workflow => wfStarted[e] # "no"
    /\ e \notin Workflow => run[r].sess # 0 /\ row[e].sess = run[r].sess

(* The two parts of the invariant: the record has one owner who knows it,  *)
(* and work in doubt is known to be.                                       *)
OwnersInStep ==
  /\ OneOwner /\ LoopAgrees
  /\ \A r \in Runs : OwnerHasRow(r) /\ WorkReached(r) /\ ObjectAgrees(r)
  /\ \A e \in Execs : MarksInStep(e)
  /\ \A q \in Reqs : RequestInStep(q)

DoubtIsKnown ==
  /\ \A e \in Execs : SafeInQueue(e)
  /\ \A r \in Runs : SafeToQueue(r) /\ EvidenceKept(r)

WorkInOrder == OwnersInStep /\ DoubtIsKnown

(* Behind OneRunner: a run that another of its execution came after has    *)
(* nothing to write any more, and nothing in doubt that no person knew of. *)
Superseded(r) ==
  \E s \in Runs : run[s].exec = run[r].exec /\ r < s /\ s <= claims

OnlyLastActs ==
  \A r \in Runs : Superseded(r) => ~Owns(r) /\ (Exposed(r) => r <= acks[run[r].exec])

-----------------------------------------------------------------------------
(* Holdings, behind HoldingsInStep.  What people did not ask for has not   *)
(* happened.                                                               *)
AsAsked ==
  /\ \A q \in Reqs : req[q].pc # "idle" =>
       /\ req[q].op \in Ops
       /\ req[q].pc \in {"delete", "drop"} => req[q].op = req[q].pc
  /\ ~sched => "drop" \in Ops
  /\ (\E e \in Execs : row[e].status = "deleted") => Ops \cap {"delete", "drop"} # {}

(* A session, and the cancel event of a workflow, belong to the execution  *)
(* of the run that made them.                                              *)
Belongs(e, s) == s # 0 => s \in Runs /\ s <= claims /\ run[s].exec = e

SessionsBelong ==
  /\ \A e \in Execs : Belongs(e, row[e].sess) /\ Belongs(e, wfEvent[e])
  /\ \A r \in Runs : Belongs(run[r].exec, run[r].sess) /\ Belongs(run[r].exec, run[r].obj.sess)
  /\ \A q \in Reqs : Belongs(req[q].exec, req[q].obj.sess)
  /\ Belongs(loop.exec, loop.obj.sess)

(* A dispatcher is only stopped, or finds its row gone, where its          *)
(* execution was called off; and it lets go of no row that still runs.     *)
CalledOffFirst(r) ==
  LET x == run[r] IN
  /\ x.pc \in {"scheduler", "start", "register", "check", "open", "work"} /\ x.stop => CalledOff(x.exec)
  /\ x.pc \in {"intread", "intjudge", "intrequeue", "reread", "failreread"} => CalledOff(x.exec)
  /\ x.pc \in {"release", "finishref"} /\ row[x.exec].status = "running" => row[x.exec].started # r

(* What the execution loop recovers nobody keeps, and it lets go of no row *)
(* that still runs; the result it flushes still waits.                     *)
LoopHoldings ==
  LET e == loop.exec IN
  /\ Recovering => \A r \in Runs : run[r].exec = e => ~Keeps(r)
  /\ loop.pc \in {"stalefree", "staleref"} => row[e].status # "running"
  /\ loop.pc = "flushread" => loop.r \in Runs /\ run[loop.r].pc = "pending" /\ run[loop.r].exec = e

(* References: unless the machine sleeps.                                  *)
RefsInStep ==
  /\ RunningHoldsItsRef
  /\ mgr = "starting" => \A e \in Execs : row[e].status = "running" => e \in orphans
  /\ mgr = "up" => \A r \in Runs : CalledOffFirst(r)
  /\ LoopHoldings

(* Slots: unless the machine sleeps, a write that seemed to fail did not,  *)
(* or a scheduler is deleted.  A slot that is taken is of a run that will  *)
(* give it back.                                                           *)
SlotGivenBack(e) ==
  LET r == slot[e] IN
  r # 0 => r \in Runs /\ run[r].exec = e /\ run[r].pc \in OwnPC \cup {"release", "pending"}

SlotsInStep ==
  /\ mgr \in {"down", "starting"} => \A e \in Execs : slot[e] = 0
  /\ mgr = "up" => \A e \in Execs : SlotGivenBack(e)
  /\ \A r \in Runs : Keeps(r) => slot[run[r].exec] \in {0, r}
  /\ \A r \in Runs : run[r].pc = "pending" =>
        LET w == row[run[r].exec] IN CalledOff(run[r].exec) \/ (w.status = "running" /\ w.started = r)
  /\ loop.pc = "flushread" => CalledOff(loop.exec)

(* The limit: unless the machine sleeps or something is deleted.  Only one *)
(* request cancels an execution, and the slot of work that was not told to *)
(* stop is kept until it is.                                               *)
CapInStep ==
  /\ IsFiniteSet(Occupied) /\ Cardinality(Occupied) <= MaxConcurrent
  /\ mgr = "stopping" => \A r \in Runs : run[r].pc \notin InDispatch \cup {"scheduler"}
  /\ \A p, q \in Reqs : req[p].pc \in {"stop", "free"} /\ req[q].pc \in {"stop", "free"}
                         /\ req[p].exec = req[q].exec => p = q
  /\ \A r \in Runs : LET e == run[r].exec IN
        Owns(r) /\ mgr = "up" => slot[e] = r \/ (row[e].status = "cancelled" /\ ~Cancelling(e))

(* All that is held has an owner who will give it back.                   *)
HoldingsOwned == AsAsked /\ SessionsBelong /\ RefsInStep /\ SlotsInStep /\ CapInStep

-----------------------------------------------------------------------------
(* Retries, behind RetriesBounded: unless the machine sleeps.  A run that  *)
(* handles the failure its row still shows; an execution that is run, or   *)
(* will be without a person; and a run that does no more about its own     *)
(* failure.                                                                *)
Handling(r) ==
  LET x == run[r]
      w == row[x.exec]
  IN Settling(x) /\ x.obj.status = "failed" /\ w.status = "failed" /\ x.obj.ver = w.ver

BackAgain(e) ==
  \/ IsActive(e)
  \/ row[e].status = "failed" /\ (row[e].due \/ \E r \in Runs : run[r].exec = e /\ Handling(r))

Failing(r) == run[r].pc # "unused" /\ run[r].obj.status = "failed" /\ r > acks[run[r].exec]
GivenUp(r) == \/ run[r].pc \in {"pending", "over"}
              \/ run[r].pc \in {"release", "finishref"} /\ run[r].exit # "settle"
Counted(e) == {r \in Runs : run[r].exec = e /\ Failing(r) /\ GivenUp(r)}

(* A run writes the retry_count it was claimed with; and of an execution   *)
(* that is run again, no failure is neither counted nor still handled.     *)
RunAccounted(r) ==
  LET x == run[r]
      w == row[x.exec]
  IN /\ x.pc \in InDispatch \cup {"scheduler"} => x.exit = "settle"
     /\ x.pc = "later" => x.obj.count < MaxRetries
     /\ Keeps(r) /\ w.status = "running" /\ w.started = r => x.obj.count = w.count
     /\ Handling(r) => w.started = r /\ r > acks[x.exec] /\ ~w.due
     /\ BackAgain(x.exec) /\ Failing(r) /\ ~GivenUp(r) =>
          (w.status = "running" /\ Owns(r) /\ w.started = r) \/ Handling(r)

CountKept(e) ==
  /\ acks[e] <= claims
  /\ row[e].status \in {"running", "failed"} => claims > 0
  /\ row[e].status = "running" => row[e].started > acks[e]
  /\ BackAgain(e) => /\ Cardinality(Counted(e)) <= row[e].count + faults
                     /\ acks[e] = 0 => row[e].count <= MaxRetries

RetriesInStep == (\A r \in Runs : RunAccounted(r)) /\ \A e \in Execs : CountKept(e)

(* Failures, behind FailureHandled, while the process runs, no write that  *)
(* seems to fail goes through, and no view moves the version of a row on   *)
(* under the run that settles it.  A running row has the run that will     *)
(* settle it; and whoever fails a row is busy with it, unless it holds it. *)
RunningIsKept(e) ==
  row[e].status = "running" =>
    LET r == row[e].started IN r \in Runs /\ run[r].exec = e /\ Keeps(r)

FailsToSettle(r) ==
  LET x == run[r]
      w == row[x.exec]
  IN /\ x.exit = "requeued" => x.pc \in {"release", "over"}
     /\ x.pc = "failwrite" => x.exit = "settle" \/ x.obj.held
     /\ x.pc = "pending" => CalledOff(x.exec) \/ (w.status = "running" /\ w.started = r)

Settled(e) ==
  row[e].status = "failed" =>
    \/ row[e].due \/ row[e].held \/ row[e].count >= MaxRetries
    \/ \E r \in Runs : run[r].exec = e /\ Handling(r)

FailuresInStep ==
  /\ mgr = "up" /\ ~Recovering
  /\ loop.pc = "flushread" => CalledOff(loop.exec)
  /\ \A r \in Runs : FailsToSettle(r)
  /\ \A e \in Execs : RunningIsKept(e) /\ Settled(e)

(* Everything that is in order in a process that neither slept nor met one *)
(* of the exceptions for holdings.                                         *)
CenterInOrder == WorkInOrder /\ OnlyLastActs /\ RetriesInStep /\ HoldingsOwned
=============================================================================
