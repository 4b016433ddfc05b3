------------------------------ MODULE Governor ------------------------------
(***************************************************************************)
(* The resource governor of internal/resourceguard: a limit on concurrent  *)
(* work that follows the memory and load of the machine.                   *)
(*                                                                         *)
(* TryAcquire samples the machine before it takes the lock, so the limit   *)
(* that a caller is measured against may be older than the pressure, and   *)
(* older than the limit that admitted somebody before it.  Acquire is      *)
(* TryAcquire every retryInterval until it succeeds or the context ends.   *)
(* A release function may be called more than once.                        *)
(*                                                                         *)
(* Ratios are per mille, NoRatio stands for the nil pointer and for the    *)
(* values safeRatio turns into it.                                         *)
(***************************************************************************)
EXTENDS Integers, FiniteSets, FiniteSetsExt

CONSTANTS
    Callers,
    MaxConcurrent,
    Enabled,
    HighWatermark, CriticalWatermark,
    Readings            \* what the sampler may report for memory and for load

NoRatio == -1

ASSUME ConcurrencyAssumption == MaxConcurrent \in Nat \ {0}
ASSUME WatermarkAssumption ==
    /\ HighWatermark \in 1..999
    /\ CriticalWatermark \in HighWatermark + 1..1000
ASSUME ReadingsAssumption == Readings \subseteq Int
ASSUME EnabledAssumption == Enabled \in BOOLEAN

VARIABLES
    machine,    \* the memory and load ratios of the machine
    active,     \* Governor.active
    pc,         \* pc[c]: where caller c is
    patient,    \* the callers of Acquire, the others call TryAcquire
    sample,     \* sample[c]: what c sampled and has yet to use
    left        \* left[c]: the calls of its release function c has yet to make

vars == <<machine, active, pc, patient, sample, left>>

Samples == [memory : Readings, load : Readings]
NoSample == [memory |-> NoRatio, load |-> NoRatio]

Init ==
    /\ machine \in Samples
    /\ active = 0
    /\ pc = [c \in Callers |-> "none"]
    /\ patient \in SUBSET Callers
    /\ sample = [c \in Callers |-> NoSample]
    /\ left = [c \in Callers |-> 2]

-----------------------------------------------------------------------------
safeRatio(value) == IF value < 0 THEN NoRatio ELSE value

\* The larger of the ratios that are known; NoRatio if neither is.
maximumRatio(one, other) == Max({one, other})

capacityIgnoresLoad(s) ==
    IF ~Enabled \/ safeRatio(s.memory) < HighWatermark THEN MaxConcurrent
    ELSE IF safeRatio(s.memory) >= CriticalWatermark THEN 0
    ELSE Max({1, (MaxConcurrent + 1) \div 2})

capacityOneMore(s) ==
    LET ratio == maximumRatio(safeRatio(s.memory), safeRatio(s.load))
    IN  IF ~Enabled \/ ratio < HighWatermark THEN MaxConcurrent + 1
        ELSE IF ratio >= CriticalWatermark THEN 0
        ELSE Max({1, (MaxConcurrent + 1) \div 2})

capacity(s) ==
    LET ratio == maximumRatio(safeRatio(s.memory), safeRatio(s.load))
    IN  IF ~Enabled \/ ratio < HighWatermark THEN MaxConcurrent
        ELSE IF ratio >= CriticalWatermark THEN 0
        ELSE Max({1, (MaxConcurrent + 1) \div 2})

-----------------------------------------------------------------------------
\* The machine gets more or less busy.
Pressure ==
    /\ machine' \in Samples
    /\ UNCHANGED <<active, pc, patient, sample, left>>

GoTo(c, to) == pc' = [pc EXCEPT ![c] = to]

Start(c) ==
    /\ pc[c] = "none"
    /\ GoTo(c, "try")
    /\ UNCHANGED <<machine, active, patient, sample, left>>

TakeSample(c) ==
    /\ pc[c] = "try"
    /\ sample' = [sample EXCEPT ![c] = machine]
    /\ GoTo(c, "lock")
    /\ UNCHANGED <<machine, active, patient, left>>

Admit(c) ==
    /\ pc[c] = "lock"
    /\ active < capacity(sample[c])
    /\ active' = active + 1
    /\ sample' = [sample EXCEPT ![c] = NoSample]
    /\ GoTo(c, "holding")
    /\ UNCHANGED <<machine, patient, left>>

\* Acquire waits for the next attempt, TryAcquire answers that there is no slot.
Deny(c) ==
    /\ pc[c] = "lock"
    /\ active >= capacity(sample[c])
    /\ sample' = [sample EXCEPT ![c] = NoSample]
    /\ GoTo(c, IF c \in patient THEN "wait" ELSE "denied")
    /\ UNCHANGED <<machine, active, patient, left>>

RetryTimer(c) ==
    /\ pc[c] = "wait"
    /\ GoTo(c, "try")
    /\ UNCHANGED <<machine, active, patient, sample, left>>

ContextDone(c) ==
    /\ pc[c] = "wait"
    /\ GoTo(c, "denied")
    /\ UNCHANGED <<machine, active, patient, sample, left>>


Release(c) ==
    /\ pc[c] \in {"holding", "released"}
    /\ left[c] > 0
    /\ left' = [left EXCEPT ![c] = @ - 1]
    /\ active' = IF pc[c] = "holding" /\ active > 0 THEN active - 1 ELSE active
    /\ GoTo(c, "released")
    /\ UNCHANGED <<machine, patient, sample>>

Next ==
    \/ Pressure
    \/ \E c \in Callers :
          \/ Start(c) \/ TakeSample(c) \/ Admit(c) \/ Deny(c)
          \/ RetryTimer(c) \/ ContextDone(c) \/ Release(c)

Spec == Init /\ [][Next]_vars

\* Callers keep running, timers fire, and who holds a slot gives it back.
Fairness == \A c \in Callers :
    /\ WF_vars(TakeSample(c))
    /\ WF_vars(Admit(c) \/ Deny(c))
    /\ WF_vars(RetryTimer(c))
    /\ WF_vars(pc[c] = "holding" /\ Release(c))

LiveSpec == Spec /\ Fairness

-----------------------------------------------------------------------------
\* Properties.

Holding == {c \in Callers : pc[c] = "holding"}

\* Governor.active counts exactly the callers between TryAcquire and the first call
\* of their release function, however often that is called.
ActiveIsExact == active = Cardinality(Holding)

\* A slot is granted only within the limit of the sample that TryAcquire took, for
\* memory and for load: nothing is admitted on a critical sample, and at most half
\* of the slots (rounded up) are in use after an admission on a constrained one.
AdmittedWithinSample ==
    [][\A c \in Callers : pc[c] # "holding" /\ pc'[c] = "holding" =>
          \A reading \in {sample[c].memory, sample[c].load} :
              /\ Enabled => reading < CriticalWatermark
              /\ Enabled /\ reading >= HighWatermark => 2 * active' <= MaxConcurrent + 1]_vars

Pool == INSTANCE SlotPool WITH Slots <- MaxConcurrent, holders <- Holding

\* The governor implements a pool of MaxConcurrent slots.
ImplementsSlotPool == Pool!Spec

Calm == capacity(machine) > 0

=============================================================================
