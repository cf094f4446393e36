--------------------------- MODULE BackgroundRuns ---------------------------
(***************************************************************************)
(* One run of an agent session in the background manager                   *)
(* (flocks/task/background.py) as the task executor uses it: registered    *)
(* behind a gate, supervised by a watchdog, waited for, and cancelled by   *)
(* anybody at any await.  A step is what happens up to the next await.     *)
(***************************************************************************)
EXTENDS Naturals

CONSTANT MaxCancels  \* cancels from outside: people, deadlines, shutdown

ASSUME BackgroundAssumption == MaxCancels \in Nat

VARIABLES record,    \* the execution is still running, as its record says
          executor,  \* where _run_agent_session is
          mayAsk,    \* allow_user_questions
          at,        \* where _run_existing_session is
          cancelling,\* cancel requests its asyncio task has had
          mustCancel,\* one of them is delivered when it next runs
          outcome,   \* what the session loop came to, until it is reported
          status,    \* BackgroundTask.status
          raised,    \* the task of the run ended with CancelledError
          loop,      \* what SessionLoop.run is doing, or how it ended
          loopCancel,\* it was told to stop
          quiet,     \* no activity for longer than the limit
          watchdog,  \* where the watchdog is
          fired,     \* what it stopped the loop for
          kept       \* cancel() reported to have cancelled the run

bgVars == <<record, executor, mayAsk, at, cancelling, mustCancel, outcome, status,
            raised, loop, loopCancel, quiet, watchdog, fired, kept>>
runState  == <<at, cancelling, mustCancel, outcome, status, raised, kept>>
loopState == <<loop, loopCancel, quiet>>
dogState  == <<watchdog, fired>>

Ended   == {"ok", "failed", "error", "aborted", "cancelled"}  \* failed: it returned action "error"
Waiting == {"asking", "slot"}
Going   == {"going", "stuck"} \cup Waiting
Told    == {"completed", "error", "cancelled", "interrupted", "late"}

BgTypeOK ==
  /\ {record, mayAsk, mustCancel, raised, loopCancel, quiet, kept} \subseteq BOOLEAN
  /\ executor \in {"checks", "waits", "stopped"} \cup Told
  /\ at \in {"held", "loop", "dog", "text", "done"} /\ cancelling \in Nat
  /\ outcome \in {"none", "result", "error", "cancelled"}
  /\ status \in {"pending", "running", "completed", "error", "cancelled"}
  /\ loop \in {"none"} \cup Going \cup Ended
  /\ watchdog \in {"none", "sleeps", "rejects", "over"} /\ fired \in SUBSET {"quiet", "question"}

BgInit ==
  /\ record = TRUE /\ executor = "checks" /\ mayAsk \in BOOLEAN
  /\ at = "held" /\ cancelling = 0 /\ mustCancel = FALSE /\ outcome = "none"
  /\ status = "pending" /\ raised = FALSE /\ kept = FALSE
  /\ loop = "none" /\ loopCancel = FALSE /\ quiet = FALSE
  /\ watchdog = "none" /\ fired = {}

-----------------------------------------------------------------------------
(* handle.cancel(): it reaches the session loop or the watchdog if the run *)
(* is waiting for that, and else the run itself when it next runs.  While  *)
(* the run waits for its watchdog to end, the CancelledError that comes    *)
(* back is dropped (the finally of _run_session_with_watchdog).            *)
HandleCancel ==
  /\ cancelling' = cancelling + 1
  /\ loopCancel' = (loopCancel \/ (at = "loop" /\ loop \in Going))
  /\ mustCancel' = (mustCancel \/ ~(at = "dog" \/ (at = "loop" /\ loop \in Going)))

(* cancel(): a run that is over keeps its outcome.                         *)
Cancellable == at /= "done"
ManagerCancel ==
  IF Cancellable
    THEN HandleCancel /\ status' = "cancelled" /\ kept' = TRUE
    ELSE UNCHANGED <<cancelling, loopCancel, mustCancel, status, kept>>

(* The gate: _run_agent_session registers the run, then reads the record.  *)
GateOpen == executor = "waits"

ExecutorChecks ==
  /\ executor = "checks"
  /\ \/ /\ record /\ executor' = IF at = "done" THEN status ELSE "waits"
        /\ UNCHANGED <<runState, loopState>>
     \/ (* not running any more, or the read failed or was cancelled       *)
        executor' = "stopped" /\ ManagerCancel /\ UNCHANGED <<at, outcome, raised, loop, quiet>>
  /\ UNCHANGED <<record, mayAsk, dogState>>

(* wait_for: the outcome; CancelledError if that is how the run ended.     *)
ExecutorLearns ==
  /\ executor = "waits" /\ at = "done" /\ executor' = IF raised THEN "interrupted" ELSE status
  /\ UNCHANGED <<record, mayAsk, runState, loopState, dogState>>

(* Its absolute limit is over, or its own caller cancels it.               *)
ExecutorGivesUp ==
  /\ executor = "waits" /\ at /= "done" /\ cancelling < MaxCancels
  /\ \/ executor' = "late" /\ ManagerCancel
     \/ executor' = "interrupted" /\ HandleCancel /\ UNCHANGED <<status, kept>>
  /\ UNCHANGED <<record, mayAsk, at, outcome, raised, loop, quiet, dogState>>

(* cancel_execution: the record first, then the runs of the session; and a *)
(* person who cancels the run by its own id.                               *)
RecordCancelled ==
  /\ record /\ record' = FALSE
  /\ UNCHANGED <<executor, mayAsk, runState, loopState, dogState>>

SessionCancelled ==
  /\ ~record /\ cancelling < MaxCancels /\ status \in {"pending", "running"} /\ ManagerCancel
  /\ UNCHANGED <<record, executor, mayAsk, at, outcome, raised, loop, quiet, dogState>>

RunCancelled ==
  /\ cancelling < MaxCancels /\ ManagerCancel
  /\ UNCHANGED <<record, executor, mayAsk, at, outcome, raised, loop, quiet, dogState>>

-----------------------------------------------------------------------------
(* _run_existing_session.  Cancelled at the gate, it never starts.         *)
Ends(result) == at' = "done" /\ status' = result /\ outcome' = "none" /\ mustCancel' = FALSE

RunStarts ==
  /\ at = "held" /\ GateOpen /\ ~mustCancel
  /\ at' = "loop" /\ status' = "running" /\ loop' = "going" /\ watchdog' = "sleeps"
  /\ UNCHANGED <<record, executor, mayAsk, cancelling, mustCancel, outcome, raised, kept,
                 loopCancel, quiet, fired>>

RunNeverStarts ==
  /\ at = "held" /\ mustCancel /\ Ends("cancelled") /\ raised' = TRUE
  /\ UNCHANGED <<record, executor, mayAsk, cancelling, kept, loopState, dogState>>

(* What the run makes of the end of the session loop: a loop that swallows *)
(* a cancel and returns, with a result or a failure, was stopped all the   *)
(* same; one that raises has failed.                                       *)
Stopped == mustCancel \/ loop = "cancelled" \/ (loop /= "error" /\ cancelling > 0)
CameToVariant ==
  IF loop = "error" /\ ~mustCancel THEN "error"
  ELSE IF ~Stopped /\ loop /= "aborted" THEN IF loop = "failed" THEN "error" ELSE "result"
  ELSE IF fired /= {} THEN "error" ELSE "cancelled"
CameTo ==
  IF (loop = "error" /\ ~mustCancel) \/ fired /= {} THEN "error"
  ELSE IF Stopped \/ loop = "aborted" THEN "cancelled"
  ELSE IF loop = "failed" THEN "error" ELSE "result"

RunResumes ==
  /\ at = "loop" /\ loop \in Ended /\ outcome' = CameTo /\ mustCancel' = FALSE
  /\ at' = "dog"
  /\ UNCHANGED <<record, executor, mayAsk, cancelling, status, raised, kept, loopState, dogState>>

(* The finally: the watchdog is cancelled and waited for, then the outcome *)
(* is reported, a result once its text has been read.                      *)
DogIsOver ==
  /\ at = "dog" /\ watchdog' = "over"
  /\ IF outcome = "result" THEN at' = "text" /\ UNCHANGED <<outcome, status, mustCancel, raised>>
     ELSE /\ Ends(outcome) /\ raised' = (outcome = "cancelled" /\ cancelling > 0)
  /\ UNCHANGED <<record, executor, mayAsk, cancelling, kept, loopState, fired>>

TextIsRead ==
  /\ at = "text"
  /\ IF mustCancel THEN Ends("cancelled") /\ raised' = TRUE
     ELSE UNCHANGED raised /\ (Ends("completed") \/ Ends("error"))
  /\ UNCHANGED <<record, executor, mayAsk, cancelling, kept, loopState, dogState>>

-----------------------------------------------------------------------------
(* The session loop: it works, asks a person, waits for a slot, hangs.     *)
LoopActs ==
  /\ loop \in {"going"} \cup Waiting /\ quiet' = FALSE
  /\ loop' \in (IF loop = "going" THEN Waiting \cup {"stuck"} ELSE {"going"})
  /\ UNCHANGED <<record, executor, mayAsk, runState, loopCancel, dogState>>

LoopEnds ==
  /\ loop = "going" \/ (loopCancel /\ loop \in Going)
  /\ loop' \in (IF loopCancel THEN {"cancelled", "ok", "failed", "error"}
                            ELSE {"ok", "failed", "error", "aborted"})
  /\ UNCHANGED <<record, executor, mayAsk, runState, loopCancel, quiet, dogState>>

GoesQuiet ==
  /\ loop \in Going /\ ~quiet /\ quiet' = TRUE
  /\ UNCHANGED <<record, executor, mayAsk, runState, loop, loopCancel, dogState>>

(* The watchdog looks: waiting for a person or a slot is not inactivity.   *)
IsActiveVariant == quiet' = FALSE /\ watchdog' = "over" /\ UNCHANGED <<fired, loopCancel>>
IsActive == quiet' = FALSE /\ watchdog' = "sleeps" /\ UNCHANGED <<fired, loopCancel>>
MustNotAsk == loop = "asking" /\ ~mayAsk

StopsLoop == loopCancel' = (loopCancel \/ loop \in Going)
Inactive  == quiet /\ loop /= "slot"
TimesOut ==
  fired' = fired \cup {"quiet"} /\ watchdog' = "over" /\ StopsLoop /\ UNCHANGED quiet

Looks ==
  \/ /\ MustNotAsk /\ fired' = fired \cup {"question"} /\ watchdog' = "rejects"
     /\ UNCHANGED <<quiet, loopCancel>>
  \/ loop \in Waiting /\ ~MustNotAsk /\ IsActive
  \/ loop \notin Waiting /\ Inactive /\ TimesOut

WatchdogLooks ==
  /\ watchdog = "sleeps" /\ at = "loop" /\ loop \in Going /\ Looks
  /\ UNCHANGED <<record, executor, mayAsk, runState, loop>>

(* reject_session_questions; if it fails the watchdog goes on to look at   *)
(* the slot and the activity.                                              *)
QuestionRejected ==
  /\ watchdog = "rejects" /\ at = "loop"
  /\ \/ watchdog' = "over" /\ StopsLoop /\ UNCHANGED <<quiet, fired>>
        /\ loop' = IF loop = "asking" THEN "going" ELSE loop
     \/ UNCHANGED loop /\ IF Inactive THEN TimesOut ELSE IsActive
  /\ UNCHANGED <<record, executor, mayAsk, runState>>

RunNext == RunStarts \/ RunNeverStarts \/ RunResumes \/ DogIsOver \/ TextIsRead

BgNext ==
  \/ ExecutorChecks \/ ExecutorLearns \/ ExecutorGivesUp \/ RecordCancelled \/ SessionCancelled
  \/ RunCancelled
  \/ RunNext \/ LoopActs \/ LoopEnds \/ GoesQuiet \/ WatchdogLooks \/ QuestionRejected

BgSpec == BgInit /\ [][BgNext]_bgVars
-----------------------------------------------------------------------------
(* What the watchdog stopped is never reported as completed, however the   *)
(* session loop took it, and the one who waits for the run is told the     *)
(* outcome it has (_run_session_with_watchdog, wait_for).                  *)
StopIsReported ==
  (executor = "completed" \/ status = "completed") => (loop = "ok" /\ fired = {})

(* A run that has started comes to an end, though its session hang: the    *)
(* watchdog sees to it.                                                    *)
StartedRunEnds == (at = "loop") ~> (at = "done")

(* A run that cancel() reported cancelled is not completed after all (the  *)
(* comment in _run_session_with_watchdog: the caller's intent is kept).    *)
CancelIsKept == (kept /\ at = "done") => (status /= "completed")
=============================================================================
