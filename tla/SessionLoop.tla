---------------------------- MODULE SessionLoop ----------------------------
(***************************************************************************)
(* Who executes a session (flocks/session/session_loop.py run and          *)
(* _run_owned, with the in-process lease of flocks/session/ownership.py).  *)
(* A call of run takes the session's lease, prepares (many awaits),        *)
(* registers itself in _active_loops, runs, unregisters at the end of a    *)
(* clean-up that awaits too, and only then gives the lease back.           *)
(***************************************************************************)
EXTENDS SequencesExt, FiniteSets, Integers

(* Who calls it: a prompt of the user, a wake of the agent inbox, or the   *)
(* session's parent, which runs it as a delegated child.                   *)
Runners  == {"prompt", "wake", "job"}
NoRunner == "none"

VARIABLES phase,     \* how far the call of each runner is
          lease,     \* the runner holding the session's lease
          active,    \* the runner registered in _active_loops
          aborting,  \* the abort event of the registered execution
          doomed,    \* runners whose task was told to cancel
          result     \* what the call of each runner returns; of a wake, its last

loopVars == <<phase, lease, active, aborting, doomed, result>>

Phases  == {"off", "check", "entering", "preparing", "running", "closing", "popped"}
Results == {"none", "skipped", "stop", "error", "queued", "cancelled"}

LoopTypeOK ==
  /\ phase \in [Runners -> Phases] /\ result \in [Runners -> Results]
  /\ lease \in Runners \cup {NoRunner} /\ active \in Runners \cup {NoRunner}
  /\ aborting \in BOOLEAN /\ doomed \subseteq Runners

LoopInit ==
  /\ phase = [r \in Runners |-> "off"] /\ result = [r \in Runners |-> "none"]
  /\ lease = NoRunner /\ active = NoRunner /\ aborting = FALSE /\ doomed = {}

Goto(r, where) == phase' = [phase EXCEPT ![r] = where]
Returns(r, how) == result' = [result EXCEPT ![r] = how]

IsRunning == active # NoRunner

-----------------------------------------------------------------------------
(* The lease is free and nothing is registered: the call takes it.  Else   *)
(* it is queued: the message it came for is in the history already, and    *)
(* the execution going on takes it up.                                     *)
MayEnterVariant == ~IsRunning
MayEnter == ~IsRunning /\ lease = NoRunner

Enter(r) ==
  /\ phase[r] = "entering" /\ r \notin doomed /\ MayEnter
  /\ lease' = r /\ Goto(r, "preparing")
  /\ UNCHANGED <<active, aborting, doomed, result>>

(* The session is missing or inactive, or its agent may not run it.        *)
Refuse(r) ==
  /\ phase[r] = "preparing" /\ r \notin doomed
  /\ Returns(r, "error") /\ Goto(r, "popped")
  /\ UNCHANGED <<lease, active, aborting, doomed>>

Register(r) ==
  /\ phase[r] = "preparing" /\ r \notin doomed
  /\ IF IsRunning
       THEN Returns(r, "queued") /\ Goto(r, "popped") /\ UNCHANGED <<active, aborting>>
       ELSE active' = r /\ aborting' = FALSE /\ Goto(r, "running") /\ UNCHANGED result
  /\ UNCHANGED <<lease, doomed>>

(* The clean-up is over: the execution is no longer registered.            *)
Unregister(r) ==
  /\ phase[r] = "closing" /\ Goto(r, "popped")
  /\ active' = NoRunner /\ aborting' = FALSE
  /\ UNCHANGED <<lease, doomed, result>>

-----------------------------------------------------------------------------
(* One live runner per session: two calls are never past the lease at the  *)
(* same time, and the registered execution is the one that holds it.       *)
OneRunner ==
  /\ \A r, q \in Runners :
       {phase[r], phase[q]} \subseteq {"preparing", "running", "closing", "popped"} => r = q
  /\ IsRunning => lease = active
=============================================================================
