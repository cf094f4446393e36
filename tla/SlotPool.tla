------------------------------ MODULE SlotPool ------------------------------
(***************************************************************************)
(* What a limit on concurrent requests promises: a set of callers each     *)
(* hold one slot; a slot is only given out while fewer than limit are      *)
(* held, or handed over by a caller that gives its own up while no more    *)
(* than limit are.  A caller that waited too long may force its way in,    *)
(* and is known to have done so.  A limit of 0 is none.                    *)
(***************************************************************************)
EXTENDS FiniteSets, Integers

CONSTANTS Callers, Limits

VARIABLES limit, held, forced

vars == <<limit, held, forced>>

PoolInit == limit \in Limits /\ held = {} /\ forced = {}

Room(n) == limit = 0 \/ Cardinality(held) < n

Take(c) == /\ c \notin held /\ Room(limit)
           /\ held' = held \cup {c}
           /\ UNCHANGED <<limit, forced>>

Force(c) == /\ c \notin held
            /\ held' = held \cup {c} /\ forced' = forced \cup {c}
            /\ UNCHANGED limit

Give(c) == /\ c \in held
           /\ held' = held \ {c}
           /\ UNCHANGED <<limit, forced>>

Hand(c, d) == /\ c \in held /\ d \notin held /\ Room(limit + 1)
              /\ held' = (held \ {c}) \cup {d}
              /\ UNCHANGED <<limit, forced>>

Resize(n) == limit' = n /\ UNCHANGED <<held, forced>>

Next == \/ \E c \in Callers : Take(c) \/ Force(c) \/ Give(c)
        \/ \E c, d \in Callers : Hand(c, d)
        \/ \E n \in Limits : Resize(n)

Spec == PoolInit /\ [][Next]_vars
=============================================================================
