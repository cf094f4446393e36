# Flocks: specifications and proofs

Flocks runs AI agents and workflows for people, on request and on schedules. This directory
models the parts of it whose correctness depends on order: who writes a record last, who frees
a slot, who may run a session, what a late answer may still change, what survives a crash. The
specifications are TLA+; TLC checks them on small instances, and TLAPS proves some of their
theorems for every value of the constants.

All paths below are relative to the repository's root, where the code is `flocks/...`;
`PROJECT.json` gives for every definition the lines it models.

## 1. The system

One Python process with one main event loop (`flocks/server/app.py`) serves a web interface,
a terminal interface and chat channels. People, chat messages and schedules start
*executions*; an execution runs an agent session (a loop of model calls and tool calls) or a
workflow (a graph run by threads). State is kept in SQLite and, for sessions, in files.

| Component | State | Operations | Hard behaviour |
|---|---|---|---|
| task store `flocks/task/store.py` | tables of schedulers, executions, queue references; one connection for all writers | conditional updates, each one transaction behind a writer gate | which writes are conditional on what; a caller cancelled inside a transaction |
| task queue `flocks/task/queue.py` | ids and claim times of occupied slots, paused | `dequeue`, `mark_finished`, pause | slots are freed by five different parties, in any order |
| task manager `flocks/task/manager.py` | unsaved results, running dispatch tasks, loops | start, stop, claim, retry, recoveries, cancel, delete, view, cleanup, edits of schedulers | recovery from crashes, late writers, every request at every point of a run |
| task executor `flocks/task/executor.py` | cancel events, started flags | `dispatch` of an agent or a workflow, timeouts, final write | cancel before registration, work that outlives its dispatcher |
| task outcome `flocks/task/outcome.py` | none | may an unfinished run be started over | a wrong yes repeats something with an effect |
| task scheduler `flocks/task/scheduler.py` | due times | tick, fire | a tick acts on what it read before people edited it |
| background runs `flocks/task/background.py` | tasks by id and by session, start gates | register, run, cancel, watchdog | inactivity timeout against completion and cancel |
| model request limiter `flocks/provider/concurrency.py`, `llm_budget.py` | active count, waiters, limit, cooldown, per provider; the workflow budget | acquire, deliver, release, change of limit | hand-over between event loops, a waiter that times out |
| agent inbox `flocks/session/agent_inbox.py` | messages by session, wakes | post, wake, drain, stop | a message posted as the waker stops; leases |
| turn receipts `flocks/session/turn_receipt.py`, `flocks/server/routes/session.py` | receipt files, the prompt queue, the prompt lock | accept, queue, drain, run, finish, hand off, expire | several workers move one receipt on |
| permission requests `flocks/permission/next.py` | pending requests, replies, durable rules | ask, reply, remember | a reply while the request is being saved, in another process, or after a restart |
| session loop `flocks/session/session_loop.py`, `runner.py` | lease, registered execution, history | run, abort, hand over | two callers for one session |
| workflow engine `flocks/workflow/engine.py` | queue of deliveries, join buffers, node runs, the runtime's globals | drain, execute a batch, hand on, time out, cancel | a thread that exceeded its limit cannot be killed |
| tools, providers, channels, MCP, hub, memory, updater, interfaces and others | their own | see `components` in PROJECT.json | mostly I/O; listed there with the reason each is left out |

How the parts interact. A request, a tick of the scheduler or a rerun makes an execution: one
row, one queue reference. The manager's *execution loop* cycles through: flush unsaved
results, requeue due retries, recover overdue rows, recover queued rows without a reference,
claim what fits in the slots. Each claim starts a *dispatcher*, an asyncio task that registers
the work so that it can be stopped, reads the record again, opens the gate and waits. Agent
work is a *background run*, which runs a *session* under the session's lease; users' prompts
and messages of other agents run the same session through the *prompt queue* and the *inbox*.
A session's turn takes a slot of the *limiter* for each model request, and may ask a user for
a *permission*. Workflow work is a run of the *engine* in a thread. Every write of the task
center goes through the store's *writer gate*.

What makes it correct:

- a finished execution stays finished, and only its own run completes it;
- cancelling reaches the work, at whatever point of its dispatch it was;
- what may have had an effect is never started over without a person;
- nothing runs beside an earlier run of it that was not told to stop, and no more is at work than
  the limit, of executions and of model requests; slots, references and waiting results neither leak nor get lost;
- a schedule does what people last said of it, and a due run starts once;
- no writer works in another's transaction, and what it was told is stored is stored;
- one caller at a time runs a session; what was sent is taken or was stopped, and what was
  stopped does not come back; a prompt that was accepted ends, and its receipt says so;
- an answer is heard, and what nobody waits for is not offered;
- a run that was stopped is not reported as completed, and a workflow that was cut short is
  not reported as succeeded.

`PROJECT.json` lists under `hazards` the lines where each of these could go wrong.

## 2. The modules

| Module | Models |
|---|---|
| `TaskStore` | the execution tables and the write methods of the store, one atomic operator each |
| `TaskQueue` | the slots of the in-memory queue |
| `TaskRuns` | a dispatcher, from its claim to the end of its failure handling, and the work it started |
| `TaskManager` | the execution loop, requests, cleanup, start, stop and crash around any number of runs: the composition |
| `ExecutionLifecycle` | abstract: what a person is promised about an execution |
| `TaskProperties` | what is claimed of `TaskManager`, and the fairness |
| `TaskInvariant` | the inductive invariants of `TaskManager` behind those claims |
| `TaskWriteGate` | the gate, the connection's thread and the transactions below `TaskStore`'s writes |
| `TaskScheduling` | schedulers, the tick and `fire_scheduler`, against people's edits |
| `BackgroundRuns` | one background run, its executor, its session loop, its watchdog and its cancels |
| `SlotPool` | abstract: what a limit on concurrent requests promises |
| `LlmLimiter` | the limiter, as seen by callers on several event loops |
| `LlmCalls` | what callers do with their slots: the workflow budget around them, tools that call the model again |
| `SessionLoop` | who runs a session: lease, registration, abort, hand-over |
| `AgentInbox` | `SessionLoop` with the inbox of the session, its wakes and delegated results |
| `SessionTurns` | `SessionLoop` with the prompts users send, their receipts, the prompt queue and its workers |
| `PermissionRequests` | one permission, asked in one process and answered in two |
| `WorkflowEngine` | one run of a workflow graph |
| `MC*` | what TLC needs besides: constants, symmetry; `MCServices` also puts five parts that share no state into one run |
| `*_proofs` | the proofs; `Services_proofs` holds those of the five parts in `MCServices`; those of `TaskManager` are in `TaskFinality_proofs`, `TaskOwners_proofs`, `TaskCenter_proofs` and `TaskHoldings_proofs`, each built on the one before |

`TaskRuns` EXTENDS `TaskQueue` EXTENDS `TaskStore`, and `TaskManager` EXTENDS `TaskRuns`;
`LlmCalls` EXTENDS `LlmLimiter`; `AgentInbox` and `SessionTurns` both EXTEND `SessionLoop`.
Definitions whose name ends in `Variant` are mistakes somebody could make in the code next to
them. Nothing in the specifications uses them: each is a mutant that shows that a property
notices the mistake.

In every module a step is what the code does up to the next point where others may act: an
`await` on one event loop (`TaskManager`, `TaskScheduling`, `AgentInbox`, `SessionTurns`,
`PermissionRequests`, `BackgroundRuns`), a taking of a thread lock (`LlmLimiter`), an operation
sent to the connection's thread (`TaskWriteGate`), or any step of another thread
(`WorkflowEngine`).

### The task center: state and code

| Variable | In the code |
|---|---|
| `row[e]` | the row of `task_executions`; `started` is `started_at`, `ver` is `updated_at`, `sess` is `session_id`, `count`, `due`, `held` are `retry_count`, `retry_after`, `blocked_reason` of the retry column |
| `ref[e]` | the row of `task_execution_queue_refs` |
| `slot[e]`, `paused` | `_running_ids` with `_running_started_at`, `_paused` |
| `run[r]` | the r-th claim: where its coroutine is (`pc`), the `TaskExecution` object it holds (`obj`), how it leaves (`exit`), its work (`work`), whether it was told to stop and started an effect |
| `wfEvent`, `wfStarted` | the cancel event registered for a workflow; the executor's flag that the workflow began |
| `sched` | the scheduler row the executions belong to |
| `mgr`, `orphans` | the process, and what `start` still has to settle |
| `loop`, `req[q]` | what the execution loop, and each request in progress, read and have still to write |
| `acks[e]` | history: claims made before a person last sent e off again |

A run is numbered by its claim, and that number stands for the start time the claim wrote, and
for the session the run creates: both are unique to the claim in the code too (a time with
microseconds; a fresh session id). `ver` is moved on by every write of the row, as `updated_at`
is.

What is abstracted:

- Which claimable execution is next (priorities and FIFO) is left open; every property but
  liveness then holds for any order. The liveness run has one execution.
- The status `pending` exists in the enum, but no caller here stores it.
- Execution ids share one scheduler row. Deleting it deletes the executions' rows with it
  (`ON DELETE CASCADE`; `PRAGMA foreign_keys=ON`).
- The execution loop is one coroutine: while it recovers or flushes it claims nothing. The
  lists it reads are processed one row per read: a row that is no longer as it was read is not
  written (`update ... WHERE`), except by the stale recovery, whose object is kept from the list.
- Work is reduced to what `outcome.py` asks: whether something was started whose effect is
  not confirmed. Calls are recorded before they are made, so what the record shows covers
  what happened. An agent run told to stop starts no new call (its task is cancelled at its next
  await); a workflow's thread may.
- Reading the outcome may give *in doubt* for any agent run with a session (its messages cannot
  be read); a run without a session, or a workflow that never started, is safe.
- Requests whose parts cannot be told apart by anybody are one step: `CancelFree` (the
  reference and the slot), `CancelStop` (two reads of the row), `TakeStale` (the list and the signal
  to the runtime), `SettleOrphan` (the update and the reference, while nothing else runs).
- `rerun_execution` is a cancel and a `Create`; batch requests are sequences of single ones.
- Two kinds of failing writes are modelled: the final write of a result, and the claim; both
  also in the form that the commit went through. Errors of other writes are not.
- The dispatch guard fires for workflows only: an agent run meets its own two hour limit
  (`AbsoluteTimeout`) first. A guard that fires while the session is created is not modelled.
- A machine that sleeps: the wall clock runs on while asyncio's timeouts do not, so a row can
  be overdue with its dispatcher alive. It is the only way, and is the fault `suspend`.
- Nothing concurrent happens while the server starts (`app.py:427`) and requests end with
  `stop` (`app.py:660`).

That a write of `TaskStore` is one step, although its caller can be cancelled inside it, is
what `TaskWriteGate` is about: a transaction belongs to one caller, and what it did not commit
it rolled back before the next one begins.

### The other modules: state, code, abstractions

**`TaskWriteGate`** (`store.py:294-383`). `held`, `gate` are the lock objects `_write_lock` has
been; `close` and a new `init` replace it, so callers can hold or wait for different ones.
`ops` is the queue of the connection's thread: an operation sent by a caller that was then
cancelled, or ran out of time, is carried out all the same. `txn`, `dirty`, `stored` are the
transaction open on the connection and what it holds and has committed. Each caller makes one
mutation of two statements; each statement, commit, rollback and opening can fail or find the
database busy. Left out: nested calls of the owner, readers, a forked process, a second event
loop, recovery of a corrupt file, and one interleaving of `init`: it says that the store is
initialized (`store.py:216`) before it awaits the normalization of old paused executions (219);
if that fails it closes the connections (225-231), perhaps under a writer that took the new lock in
between. `InitEnds` is one step, so `OwnTransaction` does not cover this writer. One edge stays visible: a rollback that fails after a cancel
during the commit reports an error although the commit went through, which is why
`ReportedIsStored` excepts it.

**`TaskScheduling`** (`scheduler.py`, `store.py:1378-1430`). `tick` is the list of schedulers a
tick read and the place it has got to; `request` is a person's request with the row it read;
`wish` is the row as a person last wrote it (history). People write whole rows; the loop
starts a run and moves the row on in one conditional transaction. A cron expression is the
next point in time. Visible in the model and not excluded by a property: an edit that read a
one-shot schedule before it fired arms it again, and an edit overlapping another's disable
undoes it, because edits write back the whole row they read (`manager.py:290`). Also,
`create_scheduler` inserts the scheduler and its immediate execution in two transactions. Deleting
a schedule reads it, then lists its active runs, then cancels them one by one; one shipped with
flocks is archived, another is removed. Left out: expressions that cannot be evaluated, plugin
sync, health counters.

**`BackgroundRuns`** (`background.py`). `cancelling`, `mustCancel` are asyncio's own
counters of a task's cancel requests; `loop` is what the session loop does, also waiting for an
answer or a slot, and hanging, and how it ended (`failed` is the action "error" it returns, `error`
an exception it raised); `watchdog`, `fired` say where the inactivity watchdog is and what
it stopped. `cancel()` that arrives while the run waits for the watchdog it has just cancelled is
swallowed with the watchdog's own `CancelledError` (`background.py:678-683`): the run completes
although `cancel()` counted it. `CancelIsKept` states that this does not happen; TLC finds
it violated, and it is not among the checked properties, because neither the code nor its docs
promise it. Left out: launch, resume and the parent's injection.

**`LlmLimiter`, `LlmCalls`** (`concurrency.py`, `llm_budget.py`, `runner.py`). `waiters`
is the priority list; a waiter taken out of it has its slot on its way (`popped`) until its own
loop completes its future, and may time out or be cancelled in between; `forced` are those that
went ahead when their wait timed out, as the code does. A 429 starts a cooldown. A slot that
cannot be delivered because the waiter's loop is closed is handled as one whose waiter is gone
(`Undeliverable`). Left out: change of the budget's size, the cooldown's duration.

**`SessionLoop`** (`session_loop.py`, `ownership.py`). `phase` is how far each caller of
`run` is, `lease` who holds the session, `active` and `aborting` the registered execution and
its abort event. There are three kinds of callers: a user's prompt, a wake of the inbox, and the
parent that runs the session as its delegated child. Left out: leases of other processes, the
model calls and tool batches of a step.

**`AgentInbox`** (`agent_inbox.py`, `delegated_execution.py`). `inbox` is the registered inbox
with its generation; a stop closes it and the next use opens a new one. `st[m]`, `target[m]` are
where a message is and the generation its sender saw; `todo`, `mid`, `history` are the drain,
which appends a message to the history and only then takes it from the inbox; `wake`, `job`
the registered tasks with their finalizers; `timers` the retries of a wake that found the lease
held. It is assumed that the retries, together about 45 seconds, outlast the moments in which a
call holds the lease without being registered. Left out: the sleep tool, binding to another
event loop, archiving.

**`SessionTurns`** (`routes/session.py`, `interaction_queue.py`, `turn_receipt.py`). `rec`, `stale`
are the receipt's state and that nobody refreshed it; `queue`, `keeper` the prompt queue and the
task that keeps its receipts fresh; `line` the workers at the prompt lock, `cur`, `stage` what its
holder does; `asked`, `answered` what is in the history. Receipts and history survive a crash,
everything else is lost. Visible and not excluded by a property: `run_now` aborts whatever runs
when it gets there, which can be the prompt it promoted; a turn that waits at the lock behind
a very long one reads as lost. Left out: slash command turns, direct commands, pause, uploads,
receipt writes that fail.

**`PermissionRequests`** (`next.py`). `pending`, `future` live in the asker's process, `row`,
`answerRow`, `rule` in the store; `cache`, `loaded` are each process's copy of the durable rules;
`crossed` is history: two writes of the rule were on their way at once. Visible and not
excluded: an answer that comes after the deadline, while the asker looks at the store a last
time, is not taken; the second of two answers still stores its rule; after a crash
the stored request stays on offer, as it may when a second stop or the store cuts the withdrawal
short (`OverIsNotOffered` excepts these two); two first readers of the durable rules can overwrite each
other's cache (`next.py:85-114`); two writes of the rule, each with a connection of its own, can
reach the store in the other order than the cache. `DurableRuleIsShown` excepts the last two. Left out: matching of patterns,
`clear_session_runtime`.

**`WorkflowEngine`** (`engine.py`, `runner.py`, `repl_runtime.py`). Executions of nodes
are numbered as the engine numbers its steps; `nodeOf` gives each its node, and those after
`steps` are the batch. A step of the engine's thread is one delivery of phase 1, or one recorded
execution of phase 3. `thread` is where the thread is that executes it, `ending` how the
engine has recorded it, `marked` and `checker` are `_NodeRunTracker` and the runtime's cancel
checker, `scope` whose `outputs` the shared globals bind and who has written into them. A
payload is only whether it equals the node's last one (repeats are skipped); branch and loop
nodes select at most one edge. `isolated` and `fatal` are chosen at the start. A thread that
exceeded its limit may go on for ever. A pool thread that takes a future between the flags of a
batch that timed out (`engine.py:632`) and the pool's shutdown (646) has no step of its own: it leaves
the state of one that took it just before the flags. Observed and followed as they are: a parallel batch cut
short by the run's own deadline is reported as cancelled, a serial one as timed out; the time
limit of a batch also reports nodes that never got a thread; a serial batch goes on with the
siblings of a node that failed; a batch can exceed `max_steps`; a join with two edges from one
source never fires. A node called `__start__` would be taken for the caller by a join
(`engine.py:464-472`); no node is called that. Left out: what nodes do, `run_node`, several runs of one engine, child
processes beyond their being told to end and ending.

## 3. Runs

`CHECK_DEADLOCK` is off in all of them because each system may stop: everything finished, or
the bounds used up. States are distinct states.

| Run | Module | Question | States |
|---|---|---|---|
| `AgentRequests` | `MCTaskManager` | two people cancel, delete, retry and resume an agent execution at every point of its dispatch | 1.7 million |
| `MixedRequests` | | an agent and a workflow, whose thread outlives its dispatcher, share one slot; cancels, retries, resumptions; who may work beside whom; the inductive invariant of owners, doubts and holdings | 1.3 million |
| `Faults` | | two faults among crash, shutdown, unsaved results and lost claims, at every step; refinement of `ExecutionLifecycle` | 1.5 million |
| `Everything` | | every request and every fault, also the stale recovery meeting a live dispatcher; types, the inductive invariant of views and fences, whose result counts | 1.2 million |
| `Progress` | | liveness of the task center, with views and cancels, and with results and claims that are lost or only seem to be | 69 thousand |
| `Slots` | `MCLlmCalls` | four requests of two priorities, limits 1 and 2, a budget of one, a tool that calls the model; refinement of `SlotPool`; liveness | 140 thousand |
| `Inbox` | `MCAgentInbox` | a message and a child's result reach a session that is prompted, woken, delegated, stopped and cancelled; liveness | 370 thousand |
| `Turns` | `MCSessionTurns` | two turns, a wake, a crash, a `run_now` and a prompt that cannot be dispatched; liveness | 410 thousand |
| `Services` | `MCServices` | five parts that share no state: permission, background run, scheduling, writer gate, workflow; liveness of each | 200 thousand |
| `LastRetry` | `MCTaskManager` | violation | 55 |
| `StrandedPrompt` | `MCSessionTurns` | violation | 20 thousand |
| `LateWrites` | `MCServices` | violation | 28 thousand |

What the properties say is at their definitions. In short:

- Task center: a cancelled execution's work is told to stop (`CancelledIsStopped`); every failure
  ends in a retry, a hold or its last retry (`FailureHandled`); a run works beside an earlier one of
  its execution only if that was told to stop and a person knew of what it may do (`OneRunner`);
  finished stays finished (`FinalStatus`) and by its own run (`ResultOfItsRun`); slots, references
  and marks belong to what runs, and no more work that was not told to stop than the cap
  (`HoldingsInStep`); reruns are safe, after the result was saved, and bounded (`RerunsAreSafe`); the inductive invariants
  (`Consistent`, `CenterInOrder`); `QueuedIsClaimed`, `NothingIsLeftBehind` are its liveness.
- Limiter: the count is exact (`Consistent`), nobody waits beside a free slot
  (`NobodyStranded`), order of service (`ServedInOrder`), `ImplementsPool`, everyone ends
  (`RequestsEnd`), also a request made by a tool of one that held the last slot.
- Inbox: a drain stores what it takes and takes what it stores (`Consistent`), nothing sent
  before a stop waits after it (`NotRevived`), `MessagesAreTaken`.
- Turns: one runner, and it holds the lease (`Consistent`); a receipt says ended only of a turn
  nobody will run (`EndedIsOver`); a queued prompt has somebody to run it (`SomebodyDrains`);
  what waits does not read as lost (`HeldIsFresh`); `EveryTurnEnds`.
- Services: `OverIsNotOffered`, `DurableRuleIsShown`, `AnswerIsHeard` (permissions);
  `StopIsReported`, `StartedRunEnds` (background); `WishStands`, `DueRunsAlone`, `DueIsStarted`
  (scheduling); `OwnTransaction`, `ReportedIsStored`, `WritersReturn` (writer gate); `SuccessIsWhole`,
  `StopsReachTheirNode`, `WorkflowEnds` and the joins' accounts in `Consistent` (workflow).

The three violations, each of one property the repository states of itself:

| Run | What happens |
|---|---|
| `LastRetry` (`DueIsRetried`) | the failure handling counts the retry before it is stored and the retry queue compares the stored count: the last retry is announced and never taken |
| `StrandedPrompt` (`QueuedPromptLeaves`) | a prompt that cannot be dispatched takes the worker down that drains the queue, and the prompt behind it waits for ever |
| `LateWrites` (`OutputsAreOwn`) | a node that exceeded its limit goes on in its thread beside the node after it; both bind and write the `outputs` of one runtime |

`EveryTurnEnds` and `SomebodyDrains` except a worker that was taken down (`felled`), which is
what `StrandedPrompt` shows; `MessagesAreTaken` excepts a wake that failed or found its inbox
stopped, which leaves a message for the next event.

Five more behaviours of the task center are in the model and no run is spent on them; each
shows at once when its request or fault is added to a passing run. Viewing a failed execution
moves `updated_at` on, so the failure handling then working out its outcome writes nothing
(`FailureHandled` with `view`). A run that finds its scheduler deleted returns before the block
that frees its slot (`manager.py:786`; `HoldingsInStep` with `drop`). Delete decides by an old
read whether there is something to cancel (`manager.py:586`; `CancelledIsStopped` is about rows
that exist). A result whose write seemed to fail was committed; retried before the next flush,
the execution waits behind its own slot (`QueuedIsClaimed` with `lostsave`). After a sleep the
stale recovery writes back a row without the session its live dispatcher has just recorded
(`manager.py:991`; `RerunsAreSafe` with `suspend`).

### Bounds

| Run | Bounds, and why they are enough |
|---|---|
| `AgentRequests` | one agent execution, two requests at once, three claims, two requests in all. Two claims let a run be failed and overtaken by the next one, three let that one be retried too; executions share only the slots and the scheduler. The requests are interchangeable (symmetry; safety only) |
| `MixedRequests` | two executions and one slot, two claims, two requests one after the other: both kinds of work compete for the slot, or one of them is run again, also beside what its first run left behind. What it checks is also proved, for any bounds |
| `Faults` | one execution, three claims, one request, two faults: a crash while a result is unsaved |
| `Everything` | two claims, one request, one fault, of all kinds |
| `Progress` | one execution, two claims, two requests one after the other (views move a row's version on under the failure handling, the retry queue and the recoveries; cancels take rows from them), two faults (a result not saved, or saved although it seemed not to be, then a lost claim, or the reverse). `lostsave` with a person's retry is left out because of the flaw named above. With a sleep and no requests both properties hold too; with requests as well TLC would need more than its five minutes, so no run has it |
| `Slots` | four requests: one using the slot, one on its way to it, one waiting of each priority; the limit goes up and down; one is cancelled; three wait without a limit of time, one with; two inside a budget of one, one of them made by a tool of the other |
| `Inbox` | two messages, one of them a delegated result: the drain has a next one, and one arrives while the other is taken; three retries, one stop, one cancel, one prompt |
| `Turns` | two turns and a queue of one, so that it is full; one each of wake, crash, `run_now`, dispatch failure |
| `StrandedPrompt` | a queue of two, no crash, no `run_now` |
| `Services` | permission: two users, either of them in either process, one crash. Background: two cancels, which can meet any await of the run and of its handling of the first. Scheduling: two schedules, one of them shipped with flocks, so that a delete archives one and removes the other, two people with two requests, two points in time, one error. Gate: two callers, two attempts, two faults, one cancellation, one close. Workflow: s to a and b, both to the join j, which may go back to a; b may be isolated, j fatal; two workers, six steps, so that the loop is gone through and a join can be left waiting |

### Fairness

Fairness follows what schedules each part; nothing is assumed of people, of faults, of crashes
or of anybody starting the process.

- Task center (`TaskProperties`): weak fairness of each coroutine that can take its next step,
  and of the end of an agent task that was cancelled. That work ends at all rests on the time
  limits the code sets (`AbsoluteTimeout`, `GuardTimeout`). Strong fairness of `Dequeue`, `TakeRow`,
  `TakeStale` of an abandoned row and `FlushWrite`: the loop goes through all of them in every
  cycle, so a row that is ready again and again is met in some cycle. The liveness is relative:
  the process stays up, the queue is not paused, the model has claims left (`Halted`).
- Limiter: event loops run what is ready, a delivery arrives, streams end (there is a timeout
  per chunk), a cooldown ends. Time limits of waits are not relied upon. Strong fairness of
  taking the budget, because `asyncio.Semaphore` is first come, first served.
- Inbox, turns: the event loop runs what is ready, timers fire, deliveries from other loops
  arrive; a step of an execution ends, strongly in the turns because wakes can take its
  place.
- Services: who asks for a permission polls; a session loop that was told to stop ends, and
  what it waits for comes; the tick goes on, requests are handled and scheduled executions end;
  the connection's thread and its callers go on; the engine's thread goes on, its timers fire
  and a child process told to end does. Of the nodes of a workflow nothing is assumed.

## 4. Proofs

Assumed: the named assumptions on the constants (sets are finite where the code's are, limits
are numbers, names differ), nothing about sizes. Every theorem holds for any number of
executions, runs, requests, faults.

| Module | Theorem | Statement |
|---|---|---|
| `TaskFinality_proofs` | `TypeCorrect` | `Spec => []TypeOK` |
| | `ViewsStayCurrent`, `FencesStay`, `StaysConsistent` | `[]ViewsCurrent`, `[]FencesHold`, with the types `[]Consistent` |
| | `RefsMatchRows`, `FinishedStaysFinished`, `ResultsAreOfTheirRuns` | `[]RefMatchesRow`, `FinalStatus`, `ResultOfItsRun` |
| `TaskOwners_proofs` | `OwnersStay` (no sleep) | `[]OwnersInStep` |
| `TaskCenter_proofs` | `WorkStaysInOrder` (no sleep) | `[]WorkInOrder` |
| | `OneRunnerAtATime`, `CancellingStops` (no sleep) | `[]OneRunner`: nobody works beside an earlier run that was not told to stop, or that can do what no person knew of; `[]CancelledIsStopped` |
| | `NoRerunIsBlind`, `PendingIsNotRerun`, `QueuedIsClean` (no sleep) | `[]NoBlindRerun`, `[]PendingBlocksRerun`, `[]QueuedStartsClean` |
| | `RetriesStayInStep`, `RetriesAreBounded`, `RerunsStaySafe` (no sleep) | `[]RetriesInStep`, `[]RetriesBounded`, `[]RerunsAreSafe` |
| | `LifecycleImplemented` (no sleep) | `Spec => ImplementsLifecycle` |
| `TaskHoldings_proofs` | `RefsStayInStep` (no sleep) | `[]RunningHoldsItsRef` |
| | `SlotsStayInStep` (no sleep, no false failure, no drop) | `[]NoSlotLeak` |
| | `CapIsRespected` (also no delete) | `[]CapInStep`, `[]CapRespected` |
| | `HoldingsStayInStep`, `CenterStaysInOrder` (also no delete) | `[]HoldingsInStep`, the whole invariant `[]CenterInOrder` |
| | `FailuresAreHandled` (no view, no fault but an unsaved result) | `[]FailuresInStep`, `[]FailureHandled` |
| `Services_proofs` | `GateStaysSound`, `TransactionsAreOwn` | the invariant of `TaskWriteGate`, `[]OwnTransaction` |
| | `SchedulingStaysSound`, `WishesStand`, `DueRunsStartAlone` | the invariant of `TaskScheduling`, `[]WishStands`, `[]DueRunsAlone` |
| | `StoredStaysSound`, `ReportsAreTrue` | what is stored at each point of a transaction, `[]ReportedIsStored` |
| | `StopsAreReported` | `[]StopIsReported` of `BackgroundRuns` |
| | `OverIsWithdrawn`, `RulesStaySound`, `RulesAreShown` | `[]OverIsNotOffered`, the invariant of the rules and `[]DurableRuleIsShown` of `PermissionRequests` |
| | `RunsStaySound`, `SuccessesAreWhole`, `StopsReachOne` | the invariant of `WorkflowEngine`, `[]SuccessIsWhole`, `[]StopsReachTheirNode` |
| | `AccountsAddUp`, `JoinsStayFed` | the accounts of the joins, `[]JoinsAreFed` |
| | `PartsStayConsistent` | `[]Consistent` of `MCServices`: types and joins, in the composition that is checked |
| `LlmCalls_proofs` | `SlotsAreAccounted`, `NobodyIsStranded` | `[]Consistent`, `[]NobodyStranded` |
| | `RequestsAreServedInOrder` | `ServedInOrder` |
| | `LimiterImplementsPool` | `Spec => ImplementsPool` |
| `AgentInbox_proofs` | `OneRunnerPerSession`, `InboxStaysSound` | `[]OneRunner`, its invariant |
| | `StoppedStaysStopped`, `NothingIsHalfRead`, `DrainsTakeTheirHead`, `StaysConsistent` | `[]NotRevived`, `[]HistoryIsRead`, `[]DrainsItsHead`, `[]Consistent` |
| `SessionTurns_proofs` | `TurnsStaySound` | its invariant, `[]TurnsInv` |
| | `OneRunnerAtATime`, `EndedTurnsAreOver` | `[]Consistent`, `[]EndedIsOver` |
| | `QueueHasADrainer`, `HeldTurnsStayFresh` | `[]SomebodyDrains`, `[]HeldIsFresh` |

*No sleep* is the hypothesis `"suspend" \notin Faults`, which the theorems marked with it
name. It is needed, not convenient: when the machine sleeps, the wall clock passes the time
limit of a row whose dispatcher is alive, the stale recovery of the execution loop
(`manager.py:991`) fails that row and gives its slot away, and the next claim runs beside the
first. All other faults are allowed: crashes, shutdowns, results and claims whose write fails
or only seems to fail. What does hold in a process that slept is in `TaskFinality_proofs`.

**A finished execution stays finished.** This is not a consequence of the WHERE clauses alone:
`_handle_failure` writes a whole row under "version unchanged", whatever its status, and the
retry queue relies on what it read. So the proof needs to know what a held object still tells
about its row. `RowStep` says where one write may take a row; `MovesOn` that all rows take such
steps and no reference is left behind; one lemma for each write of the store shows that it is
a `MovesOn`, given what its caller must know. `ViewsCurrent` is what the callers know: a
dispatcher's object is never ahead of its row; where it settles a failure, equal versions
mean equal statuses; what is about to be saved is terminal; what start settles is still running.
It is inductive together with `TypeOK`. `RowsAge`, `IdleRun` and `GoesOn` show that rows that
only move on leave the views of all other runs as current as they were, because a version never
comes back, so each action's case looks only at the run that acts (`OneRun`).

**Only its own run completes an execution.** The start time a claim writes is the fencing
token: `Fenced` says that the object of a claim carries it up to the last write of its result,
and `QueuedUnstarted` that no queued row has one, so a claim never finds that of an earlier run.
A write of a result that goes through therefore finds its own number in the row, whatever
became of the row in between; this needs no assumption on faults.

**Owners.** `OwnersInStep` is what makes the record exclusive. A run *owns* its execution from
the claim to the recording of its result (`Owns`, with an unsaved result `Keeps`). Unless it was
called off, the row of an owned execution is running, with the owner's start time and with its
number on the slot (`OwnerHasRow`), and no second run has a claim on it (`OneOwner`): a claim
needs a queued row and a free slot, and only the owner takes a row out of running, or a recovery
of the loop, which starts from a row without an owner (`LoopAgrees`). The proof of that last
step is where a sleep would break it: an overdue row has no live dispatcher, because the
dispatcher's own limit is shorter. `ObjectAgrees` relates a dispatcher's object to the row where
a write rests on it; `WorkReached` says that between the registration and the end a cancel finds
the work. `CancelledIsStopped` follows: work not told to stop is awaited by its
dispatcher (`Fenced`), which owns its execution.

**Who works beside whom.** Two works of one execution can go on: an agent's task is cancelled at its
two hour limit and not waited for (`executor.py:256`), and a workflow's thread cannot be stopped
(`manager.py:827`). `OneRunner` says what keeps this harmless: while a run works, every earlier run
of its execution is over or was told to stop, and if it has started something nobody confirmed, or
as a workflow's thread still can, a person sent the execution off since. Its invariant is
`OnlyLastActs`: a run after which another of its execution came owns nothing any more, and what it
may have done was known (`acks`). It is kept because a claim needs a queued row: such a row
has no owner, and it is clean (`SafeInQueue`), that is, no run since the last word of a person
is exposed.

**Doubts.** `DoubtIsKnown` is the invariant behind `NoBlindRerun`. An execution is *unsafe* while
some run since the last word of a person has started an effect, or is a workflow thread that
still may. It is neither queued nor due then (`SafeInQueue`), nor on its way there in the hands
of its dispatcher (`SafeToQueue`), because its row and the process show it (`EvidenceKept`): the
row still names the run in doubt and its session, and the process still has the flag that a
workflow began. The proof goes through every write that could lose this evidence.

**Retries.** The failure handling counts a failed run by the write that gives its execution a
retry. `RunAccounted` says that of an execution that is run again, or will be without a person, no
failed run is left out: those that gave up are in `retry_count` or paid for by a fault
(`CountKept`), and the only other one is the owner of the running row, or the one that still
handles the failure the row shows, because the next run starts only after that. A person's retry
moves `acks` past all of them. With this bound, `NoBlindRerun` and `PendingBlocksRerun`,
`RerunsAreSafe` holds as a whole.

**Holdings.** What belongs to a run goes with it, in three layers, each with the exceptions it
needs. *References*: `RefsInStep` says that a dispatcher is only stopped where its execution was
called off, that whoever lets go of a reference has seen the row end or queued it again, and that
what the execution loop recovers has no owner. No exception but the sleep. *Slots*: a slot that is
taken is of a run that will give it back (`SlotGivenBack`), and an owner's slot is not of another
run. This needs *no drop*, `"drop" \notin Ops`: a run that finds its scheduler deleted returns
before the `try` whose `finally` frees the slot (`manager.py:788`). It also needs *no false failure*,
`"lostsave" \notin Faults`: where a write of a result seemed to fail and was applied, the failed
row can be retried beside the result still waiting, and the flush of that result frees the slot
of the new run. *The limit*: work that was not told to stop keeps its slot, so an injection of that
work into the taken slots (`FS_Injection`) bounds it. This needs *no delete*: deletion decides by
a status it read before whether to cancel (`manager.py:586`); and a cancelled run whose row is
deleted before the signal to stop has found its session goes on without a slot. Each of these
three is a behaviour TLC shows as soon as the request or fault is added to a passing run; cancels,
retries, resumptions, edits, crashes, shutdowns and lost claims are all allowed.

**Failures.** A failed row is handled because whoever writes it is known and goes on. `RunningIsKept`:
a running row has the run that started it, which still moves or whose result waits; so the stale
recovery finds nothing to take, and the one result the loop may find already written is that of a
cancelled execution. `FailsToSettle`: a run that writes a failure leaves through the failure
handling, except on the branch that marks the row as held with the same write. `Settled`: what
is failed is settled, held, out of retries, or handled by a run; and the handling reads the row
it fails (`RunSettles`), so its second write applies. The theorem lets any results wait to be
saved, and people cancel, delete, drop, retry, resume and pause. It cannot do without *no view* (a
view between the two writes makes the second one a late one), nor without *no other fault*: what
start makes of a run that a crash or a shutdown cut off, what the stale recovery makes of a lost
claim or of a sleep, and a result that was stored although its write seemed to fail are failures
that nobody hands to the failure handling. TLC shows each of them when the fault is added to
`AgentRequests`.

**The lifecycle.** `LifecycleImplemented` maps each step to a step of one execution or to none.
A step changes the status of at most one row, except where start settles what a crash left and
where a scheduler is deleted with its executions; doubts arise only in running executions and go
only with a person's word; and `NoBlindRerun` gives the abstract guard of being queued again.

**Transactions are own.** The lock is replaced while callers wait for the old one, so holding
*a* lock proves nothing. `LockInv`: whoever is between taking and giving back the lock holds the
lock in force, because `close` and `init` replace it only while nobody does; the number of the
lock counts the inits, each of which something had to end first. `ConnSound`: what the holder sent
to the connection ends with the operation it waits for, and outside of a holder's operations the
connection has no open transaction.

**What was reported stored is stored.** `StoredOf` says what is stored of a mutation at each point
its caller can be at, `Written` what the connection has still to do for the holder and what it has
done (`Before`, `After`): a statement is only sent when the one before was answered, so the open
transaction has come exactly as far as its holder. Only a commit that a cancel abandoned may be
carried out after its caller was told that it failed.

**Wishes stand, due runs start alone.** What a tick read is the row, or a write behind it,
and then its conditional write does nothing, because versions never come back (`AsRead`). What
fires was found unchanged inside the transaction that starts the run.

**What was stopped is not completed.** `OutcomeInv`: a result comes only from a session loop that
ended well with nothing fired, and neither changes afterwards.

**The limiter.** `WaitInv` relates the list, the futures and the slots on their way to where each
request is; then the counter equals the number of holders, each step of the limiter gives a slot
away, takes one back or hands one over, and these are the steps of `SlotPool`. Nobody is stranded
because whoever frees a slot gives it to the first waiter still waiting, and only a raised limit
takes more than one hand-over. `QueueInOrder`: the list is sorted by priority, then arrival, and
the next arrival number is above all in it. Whatever takes waiters out of the list leaves the
others as they stood (`SubQueue`), so whoever is taken out to be served stood before all that stay;
and only two kinds of step give a slot to one that held none, without force (`NewHolders`).

**The inbox.** `LoopInv`: a call past the lease holds it, the registered execution is its holder,
a wake that has begun is the registered task. (So the branch of `run` that finds another
execution registered is never taken under the lease.) `BoxInv`: what the inbox holds was sent
since the last stop, each message once; a closed inbox is empty; what is on its way to the
generation in force was sent since the last stop. `DrainInv`: what a drain took on is a prefix of
the open inbox, and the history is what was drained and the message in hand. `Around` is what
all other steps may do to a drain.

**The turns.** `TurnsInv` has three parts. `Calls`: as in the inbox, the lease tells who executes,
and the prompt's call is one of the holder of the prompt lock. `Placed`: a turn is in one place
only, with its request, in the queue, at the lock, in the hands of the lock's holder, or out of the
queue and still to be marked; wherever it could still be run its receipt has no end and, until
it is asked, its message is not in the history. This is what makes several workers safe that all
move one receipt on without a lock of its own. `Kept`: whoever holds a turn keeps its receipt
fresh, and the keeper is started by the request that filled the queue before that request is
over. The queue and the line are sequences without repetition, and the lemmas about taking out,
putting in front and appending keep them so (`RemoveAtOnce`, `ToFrontOnce`, `AppendOnce`).

**Permissions.** `OfferInv`: on every way out the asker takes its request out of `_pending`, then
out of the store, then removes what was answered meanwhile, and nobody puts it back. `RuleInv`: whoever is the single reader of a process reads the stored
rule before anybody in that process can change it; from then on the cache is ahead of the
store by the one write that is on its way, and it is that write's.

**Workflow runs.** `RunSound`: at each stage of the engine, a thread that runs is the one the
engine waits for, one of the pool, or one that was given up on and is marked or being killed; what
was recorded of an execution could not fail the run; a run that is over succeeded only from an
empty queue. `SuccessIsWhole` and `StopsReachTheirNode` follow. For a join, `Fed` adds up what
it has run for each source, what it has heard and not yet run for, and what is on its way: a
recorded execution adds one delivery for each edge, a delivery moves one on, a full join takes one
of each. Where two edges lead from one node to a join, the join counts one source for both
(`InDegree` counts edges), is never full, and never runs (`JoinSound`).

**The five services together.** `PartsAreParts`: a behaviour of the composition is one of each
part, because a step is of one part and leaves the variables of the others; so what is proved of a
part holds in `MCServices`, and `PartsStayConsistent` puts their types together. Those of a
background run and of the scheduler's bounds have proofs of their own there.

Only model-checked: everything about liveness, which is out of the prover's reach: it cannot
reason about `ENABLED`, nor by induction over data with an operator as a parameter. No module here declares a `RECURSIVE` operator.

## 5. Not modelled

The repository has half a million lines, most of it interfaces, adapters, tools and content; the
specifications cover its concurrent core. `PROJECT.json` lists every component with the reason
it is left out, and for each modelled part what of it is not.

What would come next, in this order:

1. the step loop of a session (`runner.py`, `session_loop.py`): tool batches, interruption inside
   a batch, compaction against a running step; it would replace the abstract step of `AgentInbox`
   and `SessionTurns`;
2. channels: deduplication of incoming messages and the order of replies in a conversation;
3. the task center over `TaskWriteGate` and `BackgroundRuns` instead of their abstractions,
   shown as refinements.
