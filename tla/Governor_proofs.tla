-------------------------- MODULE Governor_proofs ---------------------------
(***************************************************************************)
(* The governor counts its holders exactly and implements SlotPool, for    *)
(* any callers, watermarks and readings.  That stale samples do no harm    *)
(* rests on one fact: no sample, however old, has a capacity above         *)
(* MaxConcurrent, and the comparison with it is made under the lock.       *)
(***************************************************************************)
EXTENDS Governor, FiniteSetTheorems, TLAPS

Places == {"none", "try", "lock", "wait", "holding", "released", "denied"}

GovernorInv ==
    /\ pc \in [Callers -> Places]
    /\ IsFiniteSet(Holding)
    /\ active \in Nat
    /\ ActiveIsExact

\* No sample has a capacity above the configured maximum.
LEMMA CapacityIsBounded ==
    ASSUME NEW s PROVE capacity(s) \in Nat /\ capacity(s) <= MaxConcurrent
<1> DEFINE half == (MaxConcurrent + 1) \div 2
<1>1. MaxConcurrent \in Nat /\ MaxConcurrent >= 1
    BY ConcurrencyAssumption
<1>2. half \in Nat /\ half <= MaxConcurrent
    BY <1>1
<1>3. \E x \in {1, half} : \A y \in {1, half} : x >= y
    BY <1>2
<1>4. Max({1, half}) \in {1, half}
    BY <1>3 DEF Max
<1>5. capacity(s) \in {MaxConcurrent, 0, Max({1, half})}
    BY DEF capacity
<1> QED
    BY <1>1, <1>2, <1>4, <1>5

\* A caller that moves between two places where it holds nothing changes no holder.
LEMMA MoveKeepsHolders ==
    ASSUME GovernorInv, NEW c \in Callers, pc[c] # "holding",
           NEW to \in Places \ {"holding"}, GoTo(c, to), UNCHANGED active
    PROVE  GovernorInv' /\ UNCHANGED Holding
<1>1. pc' = [pc EXCEPT ![c] = to] /\ pc' \in [Callers -> Places]
    BY DEF GovernorInv, GoTo
<1>2. UNCHANGED Holding
    BY <1>1 DEF GovernorInv, Holding
<1> QED
    BY <1>1, <1>2 DEF GovernorInv, ActiveIsExact

\* Admit takes one slot of the pool.
LEMMA AdmitIsAcquire ==
    ASSUME GovernorInv, NEW c \in Callers, Admit(c)
    PROVE  GovernorInv' /\ Pool!Acquire(c)
<1>1. pc' = [pc EXCEPT ![c] = "holding"] /\ pc[c] = "lock" /\ active' = active + 1
    BY DEF Admit, GoTo
<1>2. c \notin Holding /\ Holding' = Holding \cup {c} /\ pc' \in [Callers -> Places]
    BY <1>1 DEF GovernorInv, Holding, Places
<1>3. IsFiniteSet(Holding') /\ Cardinality(Holding') = Cardinality(Holding) + 1
    BY <1>2, FS_AddElement DEF GovernorInv
<1>4. Cardinality(Holding) < MaxConcurrent
    <2>1. capacity(sample[c]) \in Nat /\ capacity(sample[c]) <= MaxConcurrent
        BY CapacityIsBounded
    <2>2. active < capacity(sample[c]) /\ active \in Nat /\ active = Cardinality(Holding)
        BY DEF Admit, GovernorInv, ActiveIsExact
    <2> QED
        BY <2>1, <2>2, ConcurrencyAssumption
<1>5. GovernorInv'
    BY <1>1, <1>2, <1>3 DEF GovernorInv, ActiveIsExact
<1>6. Pool!Acquire(c)
    BY <1>2, <1>4 DEF Pool!Acquire, Pool!Cardinality, Pool!IsFiniteSet, Cardinality, IsFiniteSet
<1> QED
    BY <1>5, <1>6

\* The first call of a release function returns the slot, every later one nothing.
LEMMA ReleaseIsRelease ==
    ASSUME GovernorInv, NEW c \in Callers, Release(c)
    PROVE  GovernorInv' /\ (Pool!Release(c) \/ UNCHANGED Holding)
<1>1. CASE pc[c] # "holding"
    <2>1. GoTo(c, "released") /\ UNCHANGED active
        BY <1>1 DEF Release
    <2> QED
        BY <1>1, <2>1, MoveKeepsHolders DEF Places
<1>2. CASE pc[c] = "holding"
    <2>1. pc' = [pc EXCEPT ![c] = "released"]
          /\ active' = IF active > 0 THEN active - 1 ELSE active
        BY <1>2 DEF Release, GoTo
    <2>2. c \in Holding /\ Holding' = Holding \ {c} /\ pc' \in [Callers -> Places]
        BY <1>2, <2>1 DEF GovernorInv, Holding, Places
    <2>3. IsFiniteSet(Holding') /\ Cardinality(Holding') = Cardinality(Holding) - 1
          /\ Cardinality(Holding) \in Nat
        BY <2>2, FS_RemoveElement, FS_CardinalityType DEF GovernorInv
    <2>4. Cardinality(Holding') \in Nat
        BY <2>3, FS_CardinalityType
    <2>5. active > 0 /\ active' = Cardinality(Holding')
        BY <2>1, <2>3, <2>4 DEF GovernorInv, ActiveIsExact
    <2> QED
        BY <2>2, <2>3, <2>4, <2>5 DEF GovernorInv, ActiveIsExact, Pool!Release
<1> QED
    BY <1>1, <1>2

\* Every step keeps the invariant and is a step of the pool or none.
LEMMA StepIsPoolStep ==
    ASSUME GovernorInv, [Next]_vars
    PROVE  GovernorInv' /\ [Pool!Next]_Holding
<1>1. CASE UNCHANGED vars \/ Pressure
    BY <1>1 DEF vars, Pressure, GovernorInv, ActiveIsExact, Holding
<1>2. ASSUME NEW c \in Callers, Admit(c) PROVE GovernorInv' /\ [Pool!Next]_Holding
    BY <1>2, AdmitIsAcquire DEF Pool!Next
<1>3. ASSUME NEW c \in Callers, Release(c) PROVE GovernorInv' /\ [Pool!Next]_Holding
    BY <1>3, ReleaseIsRelease DEF Pool!Next
<1>4. ASSUME NEW c \in Callers,
             \/ Start(c) \/ TakeSample(c) \/ Deny(c) \/ RetryTimer(c) \/ ContextDone(c)
      PROVE  GovernorInv' /\ UNCHANGED Holding
    <2>1. pc[c] # "holding" /\ UNCHANGED active
          /\ \E to \in Places \ {"holding"} : GoTo(c, to)
        BY <1>4 DEF Start, TakeSample, Deny, RetryTimer, ContextDone, Places
    <2> QED
        BY <2>1, MoveKeepsHolders
<1> QED
    BY <1>1, <1>2, <1>3, <1>4 DEF Next

\* Nobody holds a slot at first.
LEMMA InitIsPoolInit == Init => GovernorInv /\ Pool!Init
<1> SUFFICES ASSUME Init PROVE GovernorInv /\ Pool!Init
    OBVIOUS
<1>1. Holding = {} /\ pc \in [Callers -> Places] /\ active = 0
    BY DEF Init, Holding, Places
<1> QED
    BY <1>1, FS_EmptySet DEF GovernorInv, ActiveIsExact, Pool!Init

\* Governor.active is the number of callers that hold a slot, however often release
\* functions are called and however stale the samples of TryAcquire are.
THEOREM GovernorCountsExactly == Spec => []ActiveIsExact
<1>1. GovernorInv => ActiveIsExact
    BY DEF GovernorInv
<1> QED
    BY <1>1, InitIsPoolInit, StepIsPoolStep, PTL DEF Spec

\* The governor implements a pool of MaxConcurrent slots: TryAcquire never overdraws
\* it and a release function returns no slot twice.
THEOREM GovernorIsSlotPool == Spec => ImplementsSlotPool
    BY InitIsPoolInit, StepIsPoolStep, PTL DEF Spec, ImplementsSlotPool, Pool!Spec
=============================================================================
