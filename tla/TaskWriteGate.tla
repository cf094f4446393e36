--------------------------- MODULE TaskWriteGate ---------------------------
(***************************************************************************)
(* How the task store writes (flocks/task/store.py): one connection, one   *)
(* transaction at a time behind a lock that close and init replace.  The   *)
(* connection carries out what it is sent in order, in a thread of its     *)
(* own; a caller cancelled, or out of time, while it waits abandons what   *)
(* it sent, and that is carried out all the same.  Each caller makes one   *)
(* mutation, of two statements.                                            *)
(***************************************************************************)
EXTENDS Naturals, Sequences

CONSTANTS Callers,
          Attempts,   \* _write_retry_attempts
          MaxFaults,  \* statements, commits, rollbacks, openings that fail
          MaxStops,   \* cancellations and timeouts
          MaxCloses   \* calls of close

ASSUME WriteGateAssumption ==
  /\ Attempts \in Nat \ {0} /\ {MaxFaults, MaxStops, MaxCloses} \subseteq Nat
  /\ {"none", "close"} \cap Callers = {}

VARIABLES pc,          \* where each caller is
          lock,        \* the lock object it waits for or holds
          tries,       \* its attempt
          why,         \* what it will raise once it has rolled back
          reply,       \* what the connection answered it
          held,        \* who holds each lock object
          gate,        \* _write_lock: the number of the last one made
          initialized, \* _initialized
          life,        \* who holds _lifecycle_lock
          writer,      \* _write_conn is set
          txn,         \* whose transaction is open on the connection
          dirty,       \* the statements in it
          ops,         \* what the connection was sent and has not done
          stored,      \* the statements committed, by caller
          result,      \* what each caller got
          closing,     \* where close is
          faults, stops, closes

callerVars == <<pc, lock, tries, why, reply, result>>
gateVars   == <<held, gate, initialized, life>>
connVars   == <<writer, txn, dirty, ops, stored>>
boundVars  == <<faults, stops, closes>>
writeVars  == <<callerVars, gateVars, connVars, closing, boundVars>>

None   == "none"
Closer == "close"
Phases == {"begin", "first", "second", "commit", "rollback", "discard"}
Gates  == 1..(MaxCloses + MaxStops + MaxFaults + 1)  \* one per init

CallersTypeOK ==
  /\ pc \in [Callers -> {"enter", "init", "opening", "wait", "writer", "reopen", "backoff", "done"} \cup Phases]
  /\ lock \in [Callers -> {0} \cup Gates]
  /\ tries \in [Callers -> 1..Attempts] /\ why \in [Callers -> {None, "error", "cancelled"}]
  /\ reply \in [Callers -> {None, "ok", "busy", "error"}]
  /\ result \in [Callers -> {None, "ok", "error", "cancelled"}]

LocksTypeOK ==
  /\ held \in [Gates -> Callers \cup {None, Closer}] /\ life \in Callers \cup {None, Closer}
  /\ gate \in {0} \cup Gates /\ initialized \in BOOLEAN
  /\ closing \in {"idle", "lock", "conn"}
  /\ faults \in 0..MaxFaults /\ stops \in 0..MaxStops /\ closes \in 0..MaxCloses

ConnTypeOK ==
  /\ writer \in BOOLEAN /\ txn \in Callers \cup {None}
  /\ dirty \in SUBSET {"first", "second"} /\ stored \in [Callers -> SUBSET {"first", "second"}]
  /\ ops \in Seq([by: Callers, op: Phases])

GateTypeOK == CallersTypeOK /\ LocksTypeOK /\ ConnTypeOK

GateInit ==
  /\ pc = [c \in Callers |-> "enter"] /\ lock = [c \in Callers |-> 0]
  /\ tries = [c \in Callers |-> 1] /\ why = [c \in Callers |-> None]
  /\ reply = [c \in Callers |-> None] /\ result = [c \in Callers |-> None]
  /\ held = [g \in Gates |-> None] /\ gate = 0 /\ initialized = FALSE /\ life = None
  /\ writer = FALSE /\ txn = None /\ dirty = {} /\ ops = <<>> /\ stored = [c \in Callers |-> {}]
  /\ closing = "idle" /\ faults = 0 /\ stops = 0 /\ closes = 0

Goes(c, to) == pc' = [pc EXCEPT ![c] = to]

(* A statement is sent to the connection, and waited for.                  *)
Asks(c, op) ==
  /\ Goes(c, op) /\ ops' = Append(ops, [by |-> c, op |-> op])
  /\ reply' = [reply EXCEPT ![c] = None]

Fault == faults < MaxFaults /\ faults' = faults + 1
Fails == Fault /\ UNCHANGED <<stops, closes>>

Unlocks(c) == held' = [held EXCEPT ![lock[c]] = None]
Leaves(c, r) == Goes(c, "done") /\ result' = [result EXCEPT ![c] = r]

Fresh == writer' = TRUE /\ txn' = None /\ dirty' = {} /\ ops' = <<>>

-----------------------------------------------------------------------------
(* _write_gate: init if need be, then the lock; one that was replaced      *)
(* while it was waited for is given back.                                  *)
Enters(c) ==
  /\ pc[c] = "enter"
  /\ IF initialized THEN Goes(c, "wait") /\ lock' = [lock EXCEPT ![c] = gate]
                    ELSE Goes(c, "init") /\ UNCHANGED lock
  /\ UNCHANGED <<tries, why, reply, result, gateVars, connVars, closing, boundVars>>

StillTheLock(c) == initialized /\ lock[c] = gate

Acquires(c) ==
  /\ pc[c] = "wait" /\ held[lock[c]] = None
  /\ IF StillTheLock(c) THEN Goes(c, "writer") /\ held' = [held EXCEPT ![lock[c]] = c]
                        ELSE Goes(c, "enter") /\ UNCHANGED held
  /\ UNCHANGED <<lock, tries, why, reply, result, gate, initialized, life, connVars, closing, boundVars>>

(* _init_unlocked, under the lifecycle lock: a new lock, new connections.  *)
InitStarts(c) ==
  /\ pc[c] = "init" /\ life = None
  /\ IF initialized THEN Goes(c, "enter") /\ UNCHANGED <<life, gate>>
                    ELSE Goes(c, "opening") /\ life' = c /\ gate' = gate + 1
  /\ UNCHANGED <<lock, tries, why, reply, result, held, initialized, connVars, closing, boundVars>>

InitEnds(c) ==
  /\ pc[c] = "opening" /\ life' = None
  /\ \/ Goes(c, "enter") /\ initialized' = TRUE /\ Fresh /\ UNCHANGED <<result, boundVars>>
     \/ Leaves(c, "error") /\ Fails /\ UNCHANGED <<initialized, writer, txn, dirty, ops>>
  /\ UNCHANGED <<lock, tries, why, reply, held, gate, stored, closing>>

(* _writer_db: a connection that was discarded is opened again.            *)
TakesWriter(c) ==
  /\ pc[c] = "writer"
  /\ IF writer THEN Asks(c, "begin") ELSE Goes(c, "reopen") /\ UNCHANGED <<ops, reply>>
  /\ UNCHANGED <<lock, tries, why, result, gateVars, writer, txn, dirty, stored, closing, boundVars>>

Reopens(c) ==
  /\ pc[c] = "reopen"
  /\ \/ Goes(c, "writer") /\ Fresh /\ UNCHANGED <<held, result, boundVars>>
     \/ Leaves(c, "error") /\ Unlocks(c) /\ Fails /\ UNCHANGED <<writer, txn, dirty, ops>>
  /\ UNCHANGED <<lock, tries, why, reply, gate, initialized, life, stored, closing>>

-----------------------------------------------------------------------------
(* The thread of the connection: the next thing it was sent.  A statement  *)
(* outside a transaction is committed at once.                             *)
Replies(op, r) == reply' = [reply EXCEPT ![op.by] = IF pc[op.by] = op.op THEN r ELSE @]

Commits(by, statements) == stored' = [stored EXCEPT ![by] = @ \cup statements]

Does(op) ==
  \/ /\ op.op = "begin" /\ txn = None /\ txn' = op.by /\ dirty' = {} /\ UNCHANGED stored
  \/ /\ op.op \in {"first", "second"} /\ UNCHANGED txn
     /\ IF txn = None THEN Commits(op.by, {op.op}) /\ UNCHANGED dirty
                      ELSE dirty' = dirty \cup {op.op} /\ UNCHANGED stored
  \/ /\ op.op = "commit" /\ txn' = None /\ dirty' = {}
     /\ IF txn = None THEN UNCHANGED stored ELSE Commits(txn, dirty)
  \/ /\ op.op \in {"rollback", "discard"} /\ txn' = None /\ dirty' = {} /\ UNCHANGED stored

ThreadDoes ==
  /\ ops /= <<>> /\ ops' = Tail(ops)
  /\ \/ Does(Head(ops)) /\ Replies(Head(ops), "ok") /\ UNCHANGED boundVars
     \/ /\ Head(ops).op = "begin" /\ txn /= None /\ Replies(Head(ops), "error")
        /\ UNCHANGED <<txn, dirty, stored, boundVars>>
     \/ /\ Head(ops).op /= "discard" /\ Fails
        /\ \E r \in {"error"} \cup (IF Head(ops).op \in {"begin", "commit"} THEN {"busy"} ELSE {}) :
             Replies(Head(ops), r)
        /\ UNCHANGED <<txn, dirty, stored>>
  /\ UNCHANGED <<pc, lock, tries, why, result, gateVars, writer, closing>>

-----------------------------------------------------------------------------
(* _run_write_transaction.                                                 *)
After == [begin |-> "first", first |-> "second", second |-> "commit"]

Continues(c) ==
  /\ reply[c] = "ok"
  /\ \/ pc[c] \in DOMAIN After /\ Asks(c, After[pc[c]]) /\ UNCHANGED <<result, held>>
     \/ pc[c] = "commit" /\ Leaves(c, "ok") /\ Unlocks(c) /\ UNCHANGED <<ops, reply>>
  /\ UNCHANGED <<lock, tries, why, gate, initialized, life, writer, txn, dirty, stored, closing, boundVars>>

RollsBack(c, reason) == Asks(c, "rollback") /\ why' = [why EXCEPT ![c] = reason]

Fumbles(c) ==
  /\ reply[c] \in {"busy", "error"} /\ pc[c] \in {"begin", "first", "second", "commit"}
  /\ RollsBack(c, IF reply[c] = "busy" /\ tries[c] < Attempts THEN None ELSE "error")
  /\ UNCHANGED <<lock, tries, result, gateVars, writer, txn, dirty, stored, closing, boundVars>>

(* After a rollback: raise, or try again after a while.                    *)
RetriedFromVariant == "first"
RetriedFrom == "begin"

RolledBack(c) ==
  /\ pc[c] = "rollback" /\ reply[c] = "ok"
  /\ IF why[c] = None THEN Goes(c, "backoff") /\ UNCHANGED <<result, held>>
                      ELSE Leaves(c, why[c]) /\ Unlocks(c)
  /\ UNCHANGED <<lock, tries, why, reply, gate, initialized, life, connVars, closing, boundVars>>

Retries(c) ==
  /\ pc[c] = "backoff" /\ tries' = [tries EXCEPT ![c] = @ + 1] /\ Asks(c, RetriedFrom)
  /\ UNCHANGED <<lock, why, result, gateVars, writer, txn, dirty, stored, closing, boundVars>>

(* A connection that cannot roll back is discarded.                        *)
Discards(c) ==
  /\ pc[c] = "rollback" /\ reply[c] = "error" /\ writer' = FALSE /\ Asks(c, "discard")
  /\ UNCHANGED <<lock, tries, why, result, gateVars, txn, dirty, stored, closing, boundVars>>

Discarded(c) ==
  /\ pc[c] = "discard" /\ reply[c] = "ok" /\ Leaves(c, "error") /\ Unlocks(c)
  /\ UNCHANGED <<lock, tries, why, reply, gate, initialized, life, connVars, closing, boundVars>>

(* Cancelled, or out of time.  Rolling back and discarding are shielded.   *)
WhileInTransaction(c) ==
  /\ pc[c] \in {"begin", "first", "second", "commit"} /\ RollsBack(c, "cancelled")
  /\ UNCHANGED <<result, held, initialized, life>>

WhileRollingBackVariant(c) ==
  /\ pc[c] = "rollback" /\ Leaves(c, "cancelled") /\ Unlocks(c)
  /\ UNCHANGED <<ops, reply, why, initialized, life>>
WhileRollingBack(c) ==
  /\ pc[c] = "rollback" /\ why' = [why EXCEPT ![c] = "cancelled"]
  /\ UNCHANGED <<pc, ops, reply, result, held, initialized, life>>

WhileOpeningVariant(c) ==
  /\ pc[c] \in {"reopen", "backoff", "opening", "init", "wait"} /\ Leaves(c, "cancelled")
  /\ life' = IF pc[c] = "opening" THEN None ELSE life
  /\ UNCHANGED <<held, ops, reply, why, initialized>>
WhileOpening(c) ==
  /\ pc[c] \in {"reopen", "backoff", "opening", "init", "wait"} /\ Leaves(c, "cancelled")
  /\ IF pc[c] \in {"reopen", "backoff"} THEN Unlocks(c) ELSE UNCHANGED held
  /\ life' = IF pc[c] = "opening" THEN None ELSE life
  /\ UNCHANGED <<ops, reply, why, initialized>>

Cancelled(c) ==
  /\ stops < MaxStops /\ stops' = stops + 1 /\ UNCHANGED <<faults, closes>>
  /\ WhileInTransaction(c) \/ WhileRollingBack(c) \/ WhileOpening(c)
  /\ UNCHANGED <<lock, tries, gate, writer, txn, dirty, stored, closing>>

-----------------------------------------------------------------------------
(* close: under the lifecycle lock and the write lock.                     *)
CloseStarts ==
  /\ closing = "idle" /\ closes < MaxCloses /\ closes' = closes + 1 /\ life = None
  /\ life' = Closer /\ closing' = "lock"
  /\ UNCHANGED <<callerVars, held, gate, initialized, connVars, faults, stops>>

CloseLocks ==
  /\ closing = "lock"
  /\ IF gate = 0 \/ ~initialized THEN UNCHANGED held
                 ELSE held[gate] = None /\ held' = [held EXCEPT ![gate] = Closer]
  /\ closing' = "conn"
  /\ UNCHANGED <<callerVars, gate, initialized, life, connVars, boundVars>>

CloseEnds ==
  /\ closing = "conn" /\ closing' = "idle" /\ life' = None /\ initialized' = FALSE
  /\ held' = [g \in Gates |-> IF held[g] = Closer THEN None ELSE held[g]]
  /\ writer' = FALSE /\ txn' = None /\ dirty' = {} /\ ops' = <<>>
  /\ UNCHANGED <<callerVars, gate, stored, boundVars>>

-----------------------------------------------------------------------------
GoesOn(c) ==
  \/ Enters(c) \/ InitStarts(c) \/ InitEnds(c) \/ Acquires(c) \/ TakesWriter(c) \/ Reopens(c)
  \/ Continues(c) \/ Fumbles(c) \/ RolledBack(c) \/ Retries(c) \/ Discards(c) \/ Discarded(c)
Closes == CloseStarts \/ CloseLocks \/ CloseEnds

GateNext == ThreadDoes \/ Closes \/ \E c \in Callers : GoesOn(c) \/ Cancelled(c)

GateSpec == GateInit /\ [][GateNext]_writeVars
-----------------------------------------------------------------------------
(* No transaction outlives its caller's hold of the lock in force, so no   *)
(* caller's statement is carried out in another's transaction: also when   *)
(* callers are cancelled or out of time, rollbacks fail, and close or init *)
(* replace lock and connection (_finish_cleanup, _write_gate).             *)
OwnTransaction ==
  /\ (txn /= None) => (held[gate] = txn)
  /\ \A i \in DOMAIN ops : held[gate] = ops[i].by

(* A mutation is stored whole or not at all; one reported done is stored,  *)
(* and one that failed without being cancelled is not.                     *)
ReportedIsStored ==
  \A c \in Callers :
    /\ (pc[c] = "done") => (stored[c] \in {{}, {"first", "second"}})
    /\ (result[c] = "ok") => (stored[c] /= {})
    /\ (result[c] = "error" /\ why[c] /= "cancelled") => (stored[c] = {})

(* Whatever fails, every caller gets an answer, and the lock comes back.   *)
WritersReturn ==
  \A c \in Callers : (pc[c] /= "enter") ~> (pc[c] = "done" /\ \A g \in Gates : held[g] /= c)
=============================================================================
