------------------------------ MODULE LlmCalls ------------------------------
(***************************************************************************)
(* What the callers of the model do with their slots: the budget of the    *)
(* workflow calls (flocks/provider/llm_budget.py) taken first, the slot of *)
(* the limiter after it, and both given back before a tool is run that may *)
(* call the model itself (flocks/session/runner.py).                       *)
(***************************************************************************)
EXTENDS LlmLimiter

CONSTANTS Budgeted,    \* requests made inside the workflow budget
          Budget,      \* its size
          InlineOf,    \* inner request -> the request whose tool makes it
          MaxCancels   \* bound: requests cancelled in one behaviour

ASSUME BudgetAssumption == Budgeted \subseteq Callers /\ Budget \in Nat \ {0}
ASSUME CancelsAssumption == MaxCancels \in Nat
ASSUME InlineAssumption ==
  /\ DOMAIN InlineOf \subseteq Callers
  /\ \A c \in DOMAIN InlineOf : InlineOf[c] \in Callers \ DOMAIN InlineOf

VARIABLE budget    \* requests that hold a slot of the budget

vars == <<limiterVars, pc, stop, budget>>

Inner(c) == {d \in DOMAIN InlineOf : InlineOf[d] = c}

Init == LimiterInit /\ budget = {}

(* A request begins; an inner one while the tool that makes it runs.       *)
Begin(c) ==
  /\ pc[c] = "new" /\ (c \in DOMAIN InlineOf => pc[InlineOf[c]] = "tool")
  /\ To(c, IF c \in Budgeted THEN "budget" ELSE "config")
  /\ UNCHANGED <<stop, budget, limiterVars>>

TakeBudget(c) ==
  /\ pc[c] = "budget" /\ c \notin stop /\ Cardinality(budget) < Budget
  /\ budget' = budget \cup {c} /\ To(c, "config")
  /\ UNCHANGED <<stop, limiterVars>>

GiveBudget(c) == budget' = budget \ {c}

(* A tool that runs inside the stream and calls the model itself: both     *)
(* slots go back before it runs, once (release is idempotent), and the     *)
(* rest of the response is streamed without.                               *)
InlineToolVariant(c) ==
  /\ pc[c] = "using" /\ c \notin stop /\ Inner(c) # {}
  /\ ReleaseSlot /\ To(c, "tool")
  /\ UNCHANGED <<cooling, stop, budget>>

InlineTool(c) ==
  /\ pc[c] = "using" /\ c \notin stop /\ Inner(c) # {}
  /\ ReleaseSlot /\ GiveBudget(c) /\ To(c, "tool")
  /\ UNCHANGED <<cooling, stop>>

ToolEnds(c) ==
  /\ pc[c] = "tool" /\ c \notin stop /\ \A d \in Inner(c) : pc[d] \in {"new", "over"}
  /\ To(c, "over")
  /\ UNCHANGED <<stop, budget, limiterVars>>

(* The stream ends.                                                        *)
Ends(c) ==
  /\ pc[c] \in {"using", "failing"} /\ c \notin stop
  /\ ReleaseSlot /\ GiveBudget(c) /\ To(c, "over")
  /\ UNCHANGED <<cooling, stop>>

(* The provider answers 429: the cooldown starts before the slot goes back.*)
RateLimited(c) ==
  /\ pc[c] = "using" /\ c \notin stop
  /\ cooling' = TRUE
  /\ GiveBudget(c) /\ To(c, "failing")
  /\ UNCHANGED <<limit, active, waiters, fut, popped, stop, seq, ticket, forced>>

(* The request's task is told to cancel while it awaits something: a wait  *)
(* for a slot without time limit is a wait on the future itself.           *)
Cancel(c) ==
  /\ pc[c] \notin {"new", "resize", "enter", "over"} /\ c \notin stop
  /\ Cardinality(stop) < MaxCancels
  /\ stop' = stop \cup {c}
  /\ fut' = IF c \in Patient /\ fut[c] = "pending" THEN [fut EXCEPT ![c] = "cancelled"] ELSE fut
  /\ UNCHANGED <<limit, active, waiters, popped, cooling, pc, seq, ticket, forced, budget>>

Cancelled(c) ==
  /\ c \in stop /\ pc[c] \notin {"resize", "enter", "over"}
  /\ \/ pc[c] = "waiting" /\ CancelledWait(c)
     \/ pc[c] \in {"cooldown", "using", "failing"} /\ ReleaseSlot
     \/ /\ pc[c] \in {"budget", "config", "tool"}
        /\ UNCHANGED <<limit, active, waiters, fut, popped, seq, ticket, forced>>
  /\ GiveBudget(c) /\ To(c, "over")
  /\ UNCHANGED <<cooling, stop>>

LimiterStep(c) ==
  /\ \/ SetLimit(c) \/ GrantNext(c) \/ Granted(c) \/ EnterFree(c) \/ EnterQueue(c)
     \/ Resume(c) \/ Start(c)
  /\ UNCHANGED budget

Arrives(c) == (Deliver(c) \/ Undeliverable(c)) /\ UNCHANGED budget
WaitEnds(c) == Timeout(c) /\ UNCHANGED budget
Warm == CooldownEnds /\ UNCHANGED budget

Next == \/ \E c \in Callers :
             \/ Begin(c) \/ TakeBudget(c) \/ InlineTool(c) \/ ToolEnds(c) \/ Ends(c)
             \/ RateLimited(c) \/ Cancel(c) \/ Cancelled(c)
             \/ LimiterStep(c) \/ Arrives(c) \/ WaitEnds(c)
        \/ Warm

Spec == Init /\ [][Next]_vars

(* Time passes, every loop runs what is ready, and a stream ends (it has a *)
(* timeout per chunk).  Whoever waits may be left waiting: the time limit  *)
(* of the wait is not relied upon.  asyncio.Semaphore is first come, first *)
(* served, so a budget that is given back again and again reaches everyone.*)
Goes(c) == LimiterStep(c) \/ ToolEnds(c) \/ Ends(c) \/ Cancelled(c)

Fairness ==
  /\ \A c \in Callers : WF_vars(Goes(c)) /\ WF_vars(Arrives(c))
  /\ \A c \in Budgeted : SF_vars(TakeBudget(c))
  /\ WF_vars(Warm)

FairSpec == Spec /\ Fairness

-----------------------------------------------------------------------------
(* Every variable keeps its type.                                          *)
TypeOK == LimiterTypeOK /\ budget \subseteq Callers

(* The counter is exact: as many slots are counted as have a holder, also  *)
(* those on their way to a waiter that timed out or was cancelled          *)
(* meanwhile.  None is lost (the limiter would let fewer and fewer in) and *)
(* none is given out twice.                                                *)
SlotsAccounted == active = Cardinality(Holders)
Consistent == TypeOK /\ SlotsAccounted

(* Nobody waits while a slot is free, except until the one that raised the *)
(* limit has given the new slots out.                                      *)
NobodyStranded ==
  ~NoneWaits => Full \/ \E c \in Callers : pc[c] = "resize"

(* Waiters are served by priority, then arrival: whoever gets a slot other *)
(* than by its timeout had waited in front of everyone still waiting, and  *)
(* nobody who did not have to wait overtakes (a limit of 0 lets all in).   *)
Before(c, d) == \/ Priority(c) < Priority(d)
                \/ Priority(c) = Priority(d) /\ ticket[c] < ticket[d]
StillWaits(c) == Queued(c) /\ ~Done(c)
ServedInOrder ==
  [][\A c, d \in Callers :
       /\ ~Holds(c) /\ Holds(c)' /\ c \notin forced'
       /\ StillWaits(d) /\ StillWaits(d)' /\ limit # 0
       => pc[c] = "waiting" /\ Before(c, d)]_vars

(* The limiter keeps the promise of a slot pool.                           *)
Pool == INSTANCE SlotPool WITH held <- Holders
ImplementsPool == Pool!Spec

(* Whatever times out, is cancelled or is resized around it, a request     *)
(* gets its slot and ends, also one whose tool makes further requests,     *)
(* and also when no wait ever times out.                                   *)
RequestsEnd == \A c \in Callers : pc[c] # "new" ~> pc[c] = "over"
=============================================================================
