----------------------------- MODULE LlmLimiter -----------------------------
(***************************************************************************)
(* The limit on model requests in flight (flocks/provider/concurrency.py): *)
(* a counting semaphore ordered by priority, shared by callers on several  *)
(* event loops, with a pause after a provider's 429.                       *)
(*                                                                         *)
(* Callers run on different threads: a step is what one of them does       *)
(* between two takings of the limiter's lock, or between two awaits.  A    *)
(* slot goes to a waiter in two steps, the one that takes it out of the    *)
(* list (popped) and the one in which its own loop completes its future:   *)
(* its wait can time out or be cancelled in between.                       *)
(***************************************************************************)
EXTENDS SequencesExt, FiniteSets, Integers

CONSTANTS Callers,     \* the requests; each is made once
          Background,  \* those of background priority, the others being interactive
          Patient,     \* those that wait without a time limit
          Limits       \* the limits the configuration may name, 0 for none

ASSUME CallersAssumption ==
  IsFiniteSet(Callers) /\ Background \subseteq Callers /\ Patient \subseteq Callers
ASSUME LimitsAssumption == Limits \subseteq Nat /\ Limits # {}

VARIABLES limit, active,
          waiters,   \* the queue, in the order it is served
          fut,       \* the future of each waiter
          popped,    \* waiters whose slot is on its way to their loop
          cooling,   \* a cooldown is on
          pc,        \* where each request is
          stop,      \* requests whose task was told to cancel
          seq,       \* waiters so far
          ticket,    \* the arrival number of each
          forced     \* history: those that went ahead when their wait timed out

limiterVars == <<limit, active, waiters, fut, popped, cooling, seq, ticket, forced>>

PC == {"new", "budget", "config", "resize", "enter", "waiting", "cooldown",
       "using", "failing", "tool", "over"}

LimiterTypeOK ==
  /\ limit \in Limits /\ active \in Nat /\ cooling \in BOOLEAN
  /\ waiters \in Seq(Callers)
  /\ fut \in [Callers -> {"none", "pending", "set", "cancelled"}]
  /\ popped \subseteq Callers /\ stop \subseteq Callers /\ forced \subseteq Callers
  /\ pc \in [Callers -> PC] /\ seq \in Nat /\ ticket \in [Callers -> Nat]

LimiterInit ==
  /\ limit \in Limits /\ active = 0 /\ waiters = <<>> /\ popped = {} /\ cooling = FALSE
  /\ fut = [c \in Callers |-> "none"] /\ seq = 0 /\ ticket = [c \in Callers |-> 0]
  /\ pc = [c \in Callers |-> "new"] /\ stop = {} /\ forced = {}

Priority(c) == IF c \in Background THEN 1 ELSE 0

Done(c) == fut[c] \in {"set", "cancelled"}

(* The newcomer's arrival number is the highest: it goes before the first  *)
(* waiter of lower priority.                                               *)
InsertWaiterVariant(c) == waiters' = Append(waiters, c)
InsertWaiter(c) ==
  \E i \in 1..Len(waiters) + 1 :
    /\ \A j \in 1..i - 1 : Priority(waiters[j]) <= Priority(c)
    /\ i <= Len(waiters) => Priority(waiters[i]) > Priority(c)
    /\ waiters' = InsertAt(waiters, i, c)

RemoveWaiter(c) ==
  \E i \in DOMAIN waiters : waiters[i] = c /\ waiters' = RemoveAt(waiters, i)

Queued(c) == \E i \in DOMAIN waiters : waiters[i] = c

NoneWaits == \A i \in DOMAIN waiters : Done(waiters[i])

(* The first waiter still waiting leaves the queue, and with it those      *)
(* before it that no longer do; those in gone are on their way no more.    *)
PopWaiter(gone) ==
  \E i \in DOMAIN waiters :
    /\ ~Done(waiters[i]) /\ \A j \in 1..i - 1 : Done(waiters[j])
    /\ waiters' = SubSeq(waiters, i + 1, Len(waiters))
    /\ popped' = (popped \ gone) \cup {waiters[i]}

PopNone(gone) == NoneWaits /\ waiters' = <<>> /\ popped' = popped \ gone

(* A slot that is given back is retired while there are too many, else     *)
(* passed on to the next waiter, else free.                                *)
TooManyVariant == limit # 0 /\ active > limit + 1
TooMany == limit # 0 /\ active > limit

Retire(gone) == TooMany /\ active' = active - 1 /\ popped' = popped \ gone /\ UNCHANGED waiters
PassOn(gone) == ~TooMany /\ PopWaiter(gone) /\ UNCHANGED active
Free(gone)   == ~TooMany /\ PopNone(gone) /\ active' = IF active = 0 THEN 0 ELSE active - 1

Release(gone) == Retire(gone) \/ PassOn(gone) \/ Free(gone)
ReleaseSlot   == Release({}) /\ UNCHANGED <<limit, fut, seq, ticket, forced>>

To(c, where) == pc' = [pc EXCEPT ![c] = where]

-----------------------------------------------------------------------------
(* set_limit, called by every request with the limit it read from the      *)
(* configuration: the new limit first, then slot after slot what it lets   *)
(* in.                                                                     *)
SetLimitVariant(c) ==
  /\ pc[c] = "config" /\ c \notin stop
  /\ limit' \in Limits /\ To(c, "enter")
  /\ UNCHANGED <<active, waiters, fut, popped, cooling, stop, seq, ticket, forced>>

SetLimit(c) ==
  /\ pc[c] = "config" /\ c \notin stop
  /\ \E n \in Limits : limit' = n /\ To(c, IF n = limit THEN "enter" ELSE "resize")
  /\ UNCHANGED <<active, waiters, fut, popped, cooling, stop, seq, ticket, forced>>

Full == limit # 0 /\ active >= limit

GrantNext(c) ==
  /\ pc[c] = "resize" /\ ~Full
  /\ PopWaiter({}) /\ active' = active + 1
  /\ UNCHANGED <<limit, fut, cooling, pc, stop, seq, ticket, forced>>

Granted(c) ==
  /\ pc[c] = "resize" /\ To(c, "enter")
  /\ \/ Full /\ UNCHANGED waiters
     \/ ~Full /\ NoneWaits /\ waiters' = <<>>
  /\ UNCHANGED <<limit, active, fut, popped, cooling, stop, seq, ticket, forced>>

(* acquire: a slot at once, or a place in the queue.                       *)
EnterFree(c) ==
  /\ pc[c] = "enter" /\ To(c, "cooldown")
  /\ limit = 0 \/ (active < limit /\ waiters = <<>>)
  /\ active' = active + 1
  /\ UNCHANGED <<limit, waiters, fut, popped, cooling, stop, seq, ticket, forced>>

EnterQueue(c) ==
  /\ pc[c] = "enter" /\ To(c, "waiting")
  /\ limit # 0 /\ (active >= limit \/ waiters # <<>>)
  /\ InsertWaiter(c)
  /\ fut' = [fut EXCEPT ![c] = "pending"]
  /\ ticket' = [ticket EXCEPT ![c] = seq] /\ seq' = seq + 1
  /\ UNCHANGED <<limit, active, popped, cooling, stop, forced>>

(* The callback on the waiter's loop: its future is completed, or the slot *)
(* of one cancelled meanwhile given back.                                  *)
Deliver(c) ==
  /\ c \in popped /\ fut[c] = "pending"
  /\ popped' = popped \ {c} /\ fut' = [fut EXCEPT ![c] = "set"]
  /\ UNCHANGED <<limit, active, waiters, cooling, pc, stop, seq, ticket, forced>>

UndeliverableVariant(c) ==
  /\ c \in popped /\ fut[c] = "cancelled" /\ popped' = popped \ {c}
  /\ UNCHANGED <<limit, active, waiters, fut, cooling, pc, stop, seq, ticket, forced>>

Undeliverable(c) ==
  /\ c \in popped /\ fut[c] = "cancelled"
  /\ Release({c})
  /\ UNCHANGED <<limit, fut, cooling, pc, stop, seq, ticket, forced>>

Resume(c) ==
  /\ pc[c] = "waiting" /\ fut[c] = "set" /\ c \notin stop
  /\ To(c, "cooldown")
  /\ UNCHANGED <<stop, limiterVars>>

(* The wait timed out.  Still in the queue it goes ahead over the limit;   *)
(* otherwise the slot on its way is already its own.                       *)
Timeout(c) ==
  /\ pc[c] = "waiting" /\ c \notin Patient /\ c \notin stop /\ fut[c] = "pending"
  /\ To(c, "cooldown")
  /\ \/ /\ Queued(c) /\ RemoveWaiter(c)
        /\ active' = active + 1 /\ forced' = forced \cup {c}
     \/ ~Queued(c) /\ UNCHANGED <<waiters, active, forced>>
  /\ UNCHANGED <<limit, fut, popped, cooling, stop, seq, ticket>>

(* A cancelled wait leaves the queue; a slot it was given meanwhile goes   *)
(* back, one on its way when it arrives.                                   *)
CancelledWait(c) ==
  \/ /\ Queued(c) /\ RemoveWaiter(c)
     /\ UNCHANGED <<limit, active, fut, popped, seq, ticket, forced>>
  \/ ~Queued(c) /\ fut[c] = "set" /\ ReleaseSlot
  \/ /\ ~Queued(c) /\ fut[c] # "set" /\ fut' = [fut EXCEPT ![c] = "cancelled"]
     /\ UNCHANGED <<limit, active, waiters, popped, seq, ticket, forced>>

(* The cooldown is waited out with the slot in hand.                       *)
Start(c) == /\ pc[c] = "cooldown" /\ ~cooling /\ c \notin stop
            /\ To(c, "using")
            /\ UNCHANGED <<stop, limiterVars>>

CooldownEnds == cooling /\ cooling' = FALSE
                /\ UNCHANGED <<limit, active, waiters, fut, popped, pc, stop, seq, ticket, forced>>

(* Who has a slot: a request that goes on with it; a waiter it was given   *)
(* to and that has not noticed yet; one cancelled while it was on its way. *)
Holds(c) == \/ pc[c] \in {"cooldown", "using", "failing"}
            \/ pc[c] = "waiting" /\ (c \in popped \/ fut[c] = "set")
            \/ pc[c] = "over" /\ c \in popped /\ fut[c] = "cancelled"
Holders == {c \in Callers : Holds(c)}
=============================================================================
