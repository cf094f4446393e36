--------------------------- MODULE TaskScheduling ---------------------------
(***************************************************************************)
(* Schedulers and the loop that starts their due runs                      *)
(* (flocks/task/scheduler.py, fire_scheduler of store.py), while people    *)
(* edit, enable, disable, delete and rerun them (manager.py).  A request   *)
(* reads the row, changes its copy and later writes the whole row back;    *)
(* the loop starts a run and moves the row on in one conditional           *)
(* transaction.  Executions are here only what schedulers see of them:     *)
(* active, or over (TaskManager has the rest).                             *)
(***************************************************************************)
EXTENDS Naturals, Sequences, FiniteSets, SequencesExt

CONSTANTS Schedulers,
          Builtin,     \* those shipped with flocks: deleting archives them
          People,      \* those who send requests, one at a time each
          MaxTime,     \* the clock stops here
          MaxRequests, \* requests, together
          MaxErrors    \* transactions of the loop that fail, and restarts of it

ASSUME SchedulingAssumption ==
  /\ IsFiniteSet(Schedulers) /\ Builtin \subseteq Schedulers
  /\ {MaxTime, MaxRequests, MaxErrors} \subseteq Nat /\ MaxTime > 0

VARIABLES sched,    \* task_schedulers
          runs,     \* pending, queued or running executions, by scheduler
          started,  \* how many executions there have been
          now,      \* the clock; 0 stands for no time
          tick,     \* the tick under way
          request,  \* what each person's request is doing
          requests, \* how many were sent
          errors,   \* how often a transaction failed or the loop was restarted
          wish      \* the row as a person last wrote it

rowVars   == <<sched, runs, started>>
countVars == <<requests, errors>>
schedVars == <<rowVars, now, tick, request, countVars, wish>>

Modes    == {"once", "cron"}
Statuses == {"active", "disabled", "archived"}
Rows == [status: Statuses, mode: Modes, runAt: Nat, next: Nat, ver: Nat]

(* Of a row: when it runs (run_at, next_run) and updated_at (ver).         *)
NoRow == [status |-> "absent", mode |-> "once", runAt |-> 0, next |-> 0, ver |-> 0]
Gone  == [NoRow EXCEPT !.status = "deleted"]
Stored(s) == sched[s] \notin {NoRow, Gone}

Asleep == [at |-> "sleep", todo |-> <<>>, now |-> 0]
NoRequest == [at |-> "idle"]

SchedTypeOK ==
  /\ sched \in [Schedulers -> Rows \cup {NoRow, Gone}]
  /\ runs \in [Schedulers -> SUBSET [id: 1..started, by: {"tick", "person"}]]
  /\ now \in 1..MaxTime /\ errors \in 0..MaxErrors
  /\ tick.at \in {"sleep", "each", "fire"} /\ (tick.at = "fire" => tick.todo /= <<>>)
  /\ \A i \in DOMAIN tick.todo : tick.todo[i].row.status = "active"

SchedInit ==
  /\ sched = [s \in Schedulers |-> NoRow] /\ runs = [s \in Schedulers |-> {}] /\ started = 0
  /\ now = 1 /\ tick = Asleep /\ request = [p \in People |-> NoRequest]
  /\ requests = 0 /\ errors = 0 /\ wish = [s \in Schedulers |-> NoRow]

(* compute_next_run: the next time of the cron expression.                 *)
NextTime(t) == t + 1

(* _parse_next_run, and whether that time has come.                        *)
RunTimeVariant(r) == r.next
RunTime(r) == IF r.runAt > 0 /\ r.next = 0 THEN r.runAt ELSE r.next
IsDue(r, t) == RunTime(r) \in 1..t

NewRun(s, by) == /\ started' = started + 1
                 /\ runs' = [runs EXCEPT ![s] = @ \cup {[id |-> started + 1, by |-> by]}]

-----------------------------------------------------------------------------
(* The loop.  A tick reads the active schedulers once, in the order they   *)
(* were created, and goes through them.                                    *)
TickReads ==
  /\ tick.at = "sleep"
  /\ \E order \in SetToSeqs({s \in Schedulers : sched[s].status = "active"}) :
       tick' = [at |-> "each", now |-> now,
                todo |-> [i \in DOMAIN order |-> [sched |-> order[i], row |-> sched[order[i]]]]]
  /\ UNCHANGED <<rowVars, now, request, countVars, wish>>

Following == [tick EXCEPT !.at = "each", !.todo = Tail(@)]
Due == Head(tick.todo)

(* get_active_execution_for_scheduler, after the due time.                 *)
TickLooks ==
  /\ tick.at = "each" /\ tick.todo /= <<>>
  /\ tick' = IF IsDue(Due.row, tick.now) /\ runs[Due.sched] = {}
               THEN [tick EXCEPT !.at = "fire"] ELSE Following
  /\ UNCHANGED <<rowVars, now, request, countVars, wish>>

TickEnds ==
  /\ tick.at = "each" /\ tick.todo = <<>> /\ tick' = Asleep
  /\ UNCHANGED <<rowVars, now, request, countVars, wish>>

(* Where the row moves on to when its run starts.                          *)
MovedOn(r, t) == IF r.mode = "cron" THEN [r EXCEPT !.next = NextTime(t)]
                                    ELSE [r EXCEPT !.next = 0, !.status = "disabled"]

(* fire_scheduler: only while the row is as it was read, and alone.        *)
SameRowVariant(s, r) == sched[s].status = "active"
SameRow(s, r) == sched[s].status = "active" /\ sched[s].ver = r.ver
MayFireVariant(s, r) == SameRow(s, r)
MayFire(s, r) == SameRow(s, r) /\ runs[s] = {}

Fires(s, r) ==
  /\ MayFire(s, r) /\ NewRun(s, "tick")
  /\ LET moved == MovedOn(r, tick.now) IN
     sched' = [sched EXCEPT ![s].runAt = moved.runAt, ![s].next = moved.next,
                            ![s].status = moved.status, ![s].ver = @ + 1]

TickFires ==
  /\ tick.at = "fire" /\ tick' = Following
  /\ Fires(Due.sched, Due.row) \/ (~MayFire(Due.sched, Due.row) /\ UNCHANGED rowVars)
  /\ UNCHANGED <<now, request, countVars, wish>>

(* A failed transaction is logged and the tick goes on with the next       *)
(* scheduler; one that ran out of time may have been committed.            *)
TickFails ==
  /\ tick.at = "fire" /\ errors < MaxErrors /\ errors' = errors + 1 /\ tick' = Following
  /\ UNCHANGED rowVars \/ Fires(Due.sched, Due.row)
  /\ UNCHANGED <<now, request, requests, wish>>

(* stop, or a crash, and start: requests under way are lost with it.       *)
LoopRestarts ==
  /\ errors < MaxErrors /\ errors' = errors + 1 /\ tick' = Asleep
  /\ request' = [p \in People |-> NoRequest]
  /\ UNCHANGED <<rowVars, now, requests, wish>>

-----------------------------------------------------------------------------
(* Requests.  A request that reads the row prepares what it will write.    *)
Sends(p) == request[p].at = "idle" /\ requests < MaxRequests /\ requests' = requests + 1

Arm(r, t) == [r EXCEPT !.mode = "once", !.runAt = t, !.next = t]
Recur(r)  == [r EXCEPT !.mode = "cron", !.runAt = 0, !.next = NextTime(now)]

(* update_scheduler (a title, say) and update_scheduler_with_trigger,      *)
(* enable_scheduler, disable_scheduler.                                    *)
EditedRows(r) == {r, Arm(r, now), Arm(r, now + 1), Recur(r)}

EnabledRow(r) ==
  [r EXCEPT !.status = "active", !.next = IF r.mode = "cron" THEN NextTime(now) ELSE r.runAt]

DisabledRow(r) == [r EXCEPT !.status = "disabled"]

Prepares(p, s) ==
  /\ Sends(p) /\ Stored(s)
  /\ \E new \in EditedRows(sched[s]) \cup {EnabledRow(sched[s]), DisabledRow(sched[s])} :
       request' = [request EXCEPT ![p] = [at |-> "write", sched |-> s, row |-> new]]
  /\ UNCHANGED <<rowVars, now, tick, errors, wish>>

(* TaskStore.update_scheduler: the whole row, if it is still there.        *)
Store(s, r) ==
  IF Stored(s)
    THEN /\ sched' = [sched EXCEPT ![s] = [r EXCEPT !.ver = sched[s].ver + 1]]
         /\ wish' = [wish EXCEPT ![s] = sched'[s]]
    ELSE UNCHANGED <<sched, wish>>

Writes(p) ==
  /\ request[p].at = "write" /\ Store(request[p].sched, request[p].row)
  /\ request' = [request EXCEPT ![p] = NoRequest]
  /\ UNCHANGED <<runs, started, now, tick, countVars>>

(* create_scheduler, and its run when it is to run immediately.            *)
Creates(p, s) ==
  /\ Sends(p) /\ sched[s] = NoRow
  /\ LET blank == [NoRow EXCEPT !.status = "active", !.ver = 1] IN
     \E r \in {blank, [blank EXCEPT !.runAt = now + 1], Recur(blank)} :
       /\ sched' = [sched EXCEPT ![s] = r] /\ wish' = [wish EXCEPT ![s] = r]
       /\ request' = [request EXCEPT ![p] =
                        IF r = blank THEN [at |-> "run", sched |-> s] ELSE NoRequest]
  /\ UNCHANGED <<runs, started, now, tick, errors>>

(* rerun_scheduler reads the row; the run is refused once it is deleted.   *)
Reruns(p, s) ==
  /\ Sends(p) /\ Stored(s)
  /\ request' = [request EXCEPT ![p] = [at |-> "run", sched |-> s]]
  /\ UNCHANGED <<rowVars, now, tick, errors, wish>>

Runs(p) ==
  /\ request[p].at = "run"
  /\ IF Stored(request[p].sched) THEN NewRun(request[p].sched, "person")
                                 ELSE UNCHANGED <<runs, started>>
  /\ request' = [request EXCEPT ![p] = NoRequest]
  /\ UNCHANGED <<sched, now, tick, countVars, wish>>

(* delete_scheduler: read the row, list the active runs, cancel them one   *)
(* by one, then remove the row, and with it what runs, or archive it.      *)
Deletes(p, s) ==
  /\ Sends(p) /\ Stored(s)
  /\ request' = [request EXCEPT ![p] = [at |-> "list", sched |-> s, row |-> sched[s]]]
  /\ UNCHANGED <<rowVars, now, tick, errors, wish>>

Lists(p) ==
  LET s == request[p].sched IN
  /\ request[p].at = "list"
  /\ request' = [request EXCEPT ![p] = [at |-> "cancel", sched |-> s, row |-> @.row, ids |-> runs[s]]]
  /\ UNCHANGED <<rowVars, now, tick, countVars, wish>>

Cancels(p) ==
  LET s == request[p].sched IN
  /\ request[p].at = "cancel"
  /\ \/ \E run \in request[p].ids :
          /\ runs' = [runs EXCEPT ![s] = @ \ {run}]
          /\ request' = [request EXCEPT ![p].ids = @ \ {run}]
     \/ /\ request[p].ids = {} /\ request' = [request EXCEPT ![p].at = "drop"]
        /\ UNCHANGED runs
  /\ UNCHANGED <<sched, started, now, tick, countVars, wish>>

Drops(p) ==
  LET s == request[p].sched IN
  /\ request[p].at = "drop" /\ request' = [request EXCEPT ![p] = NoRequest]
  /\ IF s \in Builtin
       THEN /\ Store(s, [request[p].row EXCEPT !.status = "archived"])
            /\ UNCHANGED runs
       ELSE /\ sched' = [sched EXCEPT ![s] = Gone] /\ wish' = [wish EXCEPT ![s] = Gone]
            /\ runs' = [runs EXCEPT ![s] = {}]
  /\ UNCHANGED <<started, now, tick, countVars>>

-----------------------------------------------------------------------------
RunEnds(s) ==
  /\ \E run \in runs[s] : runs' = [runs EXCEPT ![s] = @ \ {run}]
  /\ UNCHANGED <<sched, started, now, tick, request, countVars, wish>>

ClockAdvances ==
  /\ now < MaxTime /\ now' = now + 1
  /\ UNCHANGED <<rowVars, tick, request, countVars, wish>>

TickNext == TickReads \/ TickLooks \/ TickFires \/ TickEnds
Handles(p) == Writes(p) \/ Runs(p) \/ Lists(p) \/ Cancels(p) \/ Drops(p)

SchedNext ==
  \/ TickNext \/ TickFails \/ LoopRestarts \/ ClockAdvances
  \/ \E s \in Schedulers : RunEnds(s) \/ (\E p \in People :
       Prepares(p, s) \/ Creates(p, s) \/ Reruns(p, s) \/ Deletes(p, s))
  \/ \E p \in People : Handles(p)

SchedSpec == SchedInit /\ [][SchedNext]_schedVars
-----------------------------------------------------------------------------
(* What a person last wrote stands: a tick that read the row before that   *)
(* starts nothing the person stopped or put off, and changes no more of it *)
(* than a run that is due does (the comment in _tick_scheduler).           *)
WishStands ==
  \A s \in Schedulers :
    /\ sched[s].mode = wish[s].mode /\ sched[s].runAt = wish[s].runAt
    /\ (wish[s].status /= "active") => (sched[s].status = wish[s].status)
    /\ (RunTime(wish[s]) > now) => (sched[s].status = wish[s].status /\ sched[s].next = wish[s].next)

(* A due run starts only when nothing else of its scheduler is under way,  *)
(* also when a person reruns it between the look for active executions     *)
(* and the transaction that starts the due one (_tick_scheduler).          *)
DueRunsAlone ==
  \A s \in Schedulers : \A run \in runs[s] :
    (run.by = "tick") => (\A other \in runs[s] : other.id >= run.id)

(* A due scheduler does not stay due with nothing of it running: failed    *)
(* transactions, restarts and fires refused for an edit are made up for by *)
(* a later tick (_tick goes on after an error).                            *)
Overdue(s) ==
  sched[s].status = "active" /\ (IF sched[s].mode = "cron" THEN sched[s].next ELSE sched[s].runAt) \in 1..now
DueIsStarted == \A s \in Schedulers : Overdue(s) ~> (runs[s] /= {} \/ ~Overdue(s))
=============================================================================
