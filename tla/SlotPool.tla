------------------------------ MODULE SlotPool ------------------------------
(***************************************************************************)
(* What the governors of internal/resourceguard are used for: a pool of    *)
(* slots that is never overdrawn and from which nobody returns a slot that *)
(* they do not hold.                                                       *)
(***************************************************************************)
EXTENDS Integers, FiniteSets

CONSTANTS Callers, Slots

VARIABLE holders    \* the callers that hold a slot

Init == holders = {}

Acquire(c) ==
    /\ c \notin holders
    /\ Cardinality(holders) < Slots
    /\ holders' = holders \cup {c}

Release(c) ==
    /\ c \in holders
    /\ holders' = holders \ {c}

Next == \E c \in Callers : Acquire(c) \/ Release(c)

Spec == Init /\ [][Next]_holders
=============================================================================
