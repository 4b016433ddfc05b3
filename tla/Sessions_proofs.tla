-------------------------- MODULE Sessions_proofs ---------------------------
(***************************************************************************)
(* The bound on failed logins, for any number of attempts and clients and  *)
(* any limits.  The limiter alone does not give it: the request slots do,  *)
(* so the invariant also bounds the attempts that are in flight.           *)
(***************************************************************************)
EXTENDS Sessions, FiniteSetTheorems, TLAPS

SessionsInv ==
    /\ clock \in Nat
    /\ entries \in [Clients -> [count : Nat, resetAt : Nat]]
    /\ phase \in [Attempts -> Phases]
    /\ client \in [Attempts -> Clients]
    /\ Cardinality(InFlight) <= MaxConcurrentRequests
    /\ FailuresAreBounded

\* Every set of attempts is finite and a part of another has no more elements.
LEMMA AttemptSets ==
    ASSUME NEW S \in SUBSET Attempts, NEW T \in SUBSET S
    PROVE  /\ IsFiniteSet(S) /\ Cardinality(S) \in Nat
           /\ IsFiniteSet(T) /\ Cardinality(T) \in Nat
           /\ Cardinality(T) <= Cardinality(S)
<1>1. IsFiniteSet(S)
    BY FS_Subset, SessionsAssumption DEF SessionsAssumption
<1> QED
    BY <1>1, FS_Subset, FS_CardinalityType

\* The attempts that verify are in flight.
LEMMA VerifyingCounts ==
    ASSUME NEW k
    PROVE  /\ Cardinality(InFlight) \in Nat /\ Cardinality(Verifying(k)) \in Nat
           /\ Cardinality(Verifying(k)) <= Cardinality(InFlight)
<1>1. InFlight \in SUBSET Attempts /\ Verifying(k) \in SUBSET InFlight
    BY DEF InFlight, Verifying
<1> QED
    BY <1>1, AttemptSets

\* An attempt that goes on without being admitted adds to no set.
LEMMA LaterPhases ==
    ASSUME SessionsInv, NEW a \in Attempts, NEW p \in Phases, Set(a, p), UNCHANGED client,
           phase[a] \notin {"none", "done"}, phase[a] \notin {"verify", "failed"} => p \notin {"verify", "failed"}
    PROVE  /\ phase' \in [Attempts -> Phases]
           /\ Cardinality(InFlight') <= MaxConcurrentRequests
           /\ \A k : Cardinality(Verifying(k)') <= Cardinality(Verifying(k))
           /\ \A k : Cardinality(Verifying(k)') \in Nat
<1>1. phase' = [phase EXCEPT ![a] = p] /\ phase' \in [Attempts -> Phases]
    BY DEF SessionsInv, Set
<1>2. InFlight' \in SUBSET InFlight /\ InFlight \in SUBSET Attempts
    BY <1>1 DEF SessionsInv, InFlight
<1>3. \A k : Verifying(k)' \in SUBSET Verifying(k) /\ Verifying(k) \in SUBSET Attempts
    BY <1>1 DEF SessionsInv, Verifying
<1>4. Cardinality(InFlight') <= MaxConcurrentRequests
    <2>1. /\ Cardinality(InFlight) \in Nat /\ Cardinality(InFlight') \in Nat
          /\ Cardinality(InFlight') <= Cardinality(InFlight)
        BY <1>2, AttemptSets
    <2>2. Cardinality(InFlight) <= MaxConcurrentRequests /\ MaxConcurrentRequests \in Nat
        BY SessionsAssumption DEF SessionsInv, SessionsAssumption
    <2> QED
        BY <2>1, <2>2
<1> QED
    BY <1>1, <1>3, <1>4, AttemptSets

\* blocked lets an attempt pass only while there are fewer than MaxFailure failures.
LEMMA BlockedKeepsInv ==
    ASSUME SessionsInv, NEW a \in Attempts, blocked(a)
    PROVE  SessionsInv'
<1> DEFINE k == client[a]
<1>1. k \in Clients /\ UNCHANGED <<clock, client>>
      /\ entries' = [entries EXCEPT ![k] = IF Running(k) THEN @ ELSE NoEntry]
    BY DEF blocked, SessionsInv
<1>2. entries' \in [Clients -> [count : Nat, resetAt : Nat]]
    BY <1>1 DEF SessionsInv, NoEntry
<1>3. PICK p \in {"verify", "done"} : /\ Set(a, p)
                                      /\ p = "verify" => ~(Running(k) /\ entries[k].count >= MaxFailure)
    BY DEF blocked
<1>4. phase' = [phase EXCEPT ![a] = p] /\ phase' \in [Attempts -> Phases]
      /\ phase[a] = "none" /\ Cardinality(InFlight) < MaxConcurrentRequests
    BY <1>3 DEF SessionsInv, Set, Phases, blocked
<1>5. Cardinality(InFlight') <= MaxConcurrentRequests
    <2>1. InFlight' \subseteq InFlight \cup {a} /\ InFlight \in SUBSET Attempts /\ a \notin InFlight
        BY <1>4 DEF SessionsInv, InFlight
    <2>2. IsFiniteSet(InFlight) /\ Cardinality(InFlight) \in Nat
        BY <2>1, AttemptSets
    <2>3. Cardinality(InFlight \cup {a}) = Cardinality(InFlight) + 1
        BY <2>1, <2>2, FS_AddElement
    <2>4. (InFlight \cup {a}) \in SUBSET Attempts /\ InFlight' \in SUBSET (InFlight \cup {a})
        BY <2>1
    <2>5. Cardinality(InFlight') <= Cardinality(InFlight \cup {a}) /\ Cardinality(InFlight') \in Nat
        BY <2>4, AttemptSets
    <2> QED
        BY <1>4, <2>2, <2>3, <2>5, SessionsAssumption DEF SessionsAssumption
<1>6. ASSUME NEW j \in Entries' PROVE (entries[j].count + Cardinality(Verifying(j)) < MaxFailure + MaxConcurrentRequests)'
    <2>1. j \in Clients /\ entries'[j] = entries[j] /\ j \in Entries /\ (j = k => Running(k))
          /\ entries[j].count \in Nat
        BY <1>1, <1>6 DEF Entries, SessionsInv
    <2>2. CASE j = k /\ p = "verify"
        <3>1. entries[j].count < MaxFailure
            BY <1>3, <2>1, <2>2, SessionsAssumption DEF SessionsAssumption
        <3>2. (Cardinality(Verifying(j)) <= Cardinality(InFlight))'
              /\ Cardinality(InFlight)' \in Nat /\ Cardinality(Verifying(j))' \in Nat
            <4>1. InFlight' \in SUBSET Attempts /\ Verifying(j)' \in SUBSET InFlight'
                BY DEF InFlight, Verifying
            <4> QED
                BY <4>1, AttemptSets
        <3> QED
            BY <1>5, <2>1, <3>1, <3>2, SessionsAssumption DEF SessionsAssumption
    <2>3. CASE ~(j = k /\ p = "verify")
        <3>1. Verifying(j)' = Verifying(j)
            BY <1>1, <1>3, <1>4, <2>3 DEF Verifying, SessionsInv
        <3> QED
            BY <2>1, <3>1 DEF SessionsInv, FailuresAreBounded
    <2> QED
        BY <2>2, <2>3
<1> QED
    BY <1>1, <1>2, <1>4, <1>5, <1>6 DEF SessionsInv, FailuresAreBounded

\* A failure that is counted is one of those that were being verified.
LEMMA FailedKeepsInv ==
    ASSUME SessionsInv, NEW a \in Attempts, failed(a)
    PROVE  SessionsInv'
<1>0. PICK k \in Clients : k = client[a]
    BY DEF SessionsInv
<1>1. UNCHANGED <<clock, client>> /\ phase[a] = "failed" /\ Set(a, "done")
    BY DEF failed, SessionsInv
<1>2. PICK gone : entries' = [c \in Clients |->
                CASE c = k /\ Running(k) -> [entries[k] EXCEPT !.count = @ + 1]
                  [] c = k /\ ~Running(k) -> [count |-> 1, resetAt |-> clock + Window]
                  [] c # k -> IF c \in gone THEN NoEntry ELSE entries[c]]
    BY <1>0 DEF failed
<1>3. entries' \in [Clients -> [count : Nat, resetAt : Nat]]
    <2> SUFFICES ASSUME NEW c \in Clients PROVE entries'[c] \in [count : Nat, resetAt : Nat]
        BY <1>2
    <2>1. entries[c] \in [count : Nat, resetAt : Nat] /\ NoEntry \in [count : Nat, resetAt : Nat]
          /\ clock + Window \in Nat
        BY SessionsAssumption DEF SessionsInv, NoEntry, SessionsAssumption
    <2>2. CASE c = k
        BY <1>2, <2>1, <2>2
    <2>3. CASE c # k
        BY <1>2, <2>1, <2>3
    <2> QED
        BY <2>2, <2>3
<1>4. /\ phase' \in [Attempts -> Phases]
      /\ Cardinality(InFlight') <= MaxConcurrentRequests
      /\ \A j : Cardinality(Verifying(j)') <= Cardinality(Verifying(j))
      /\ \A j : Cardinality(Verifying(j)') \in Nat
    BY <1>1, LaterPhases DEF Phases
<1>5. Cardinality(Verifying(k)') = Cardinality(Verifying(k)) - 1
      /\ Cardinality(Verifying(k)) <= MaxConcurrentRequests /\ Cardinality(Verifying(k)) \in Nat
    <2>1. Verifying(k)' = Verifying(k) \ {a} /\ a \in Verifying(k) /\ Verifying(k) \in SUBSET Attempts
        BY <1>0, <1>1 DEF Verifying, Set, SessionsInv
    <2>2. IsFiniteSet(Verifying(k))
        BY <2>1, AttemptSets
    <2>3. Cardinality(Verifying(k)') = Cardinality(Verifying(k)) - 1
        BY <2>1, <2>2, FS_RemoveElement
    <2> QED
        BY <2>3, VerifyingCounts, SessionsAssumption DEF SessionsInv, SessionsAssumption
<1>6. ASSUME NEW j \in Entries'
      PROVE  (entries[j].count + Cardinality(Verifying(j)) < MaxFailure + MaxConcurrentRequests)'
    <2>0. j \in Clients /\ entries'[j] # NoEntry
        BY <1>6 DEF Entries
    <2>1. entries[j].count \in Nat /\ Cardinality(Verifying(j)) \in Nat
        BY <2>0, VerifyingCounts DEF SessionsInv
    <2>2. CASE j = k /\ Running(k)
        <3>1. entries'[j].count = entries[j].count + 1
            BY <1>2, <2>0, <2>2 DEF SessionsInv
        <3>2. entries[j].count + Cardinality(Verifying(j)) < MaxFailure + MaxConcurrentRequests
            BY <2>2 DEF Running, SessionsInv, FailuresAreBounded
        <3> QED
            BY <1>5, <2>1, <2>2, <3>1, <3>2, SessionsAssumption DEF SessionsAssumption
    <2>3. CASE j = k /\ ~Running(k)
        <3>1. entries'[j].count = 1
            BY <1>2, <2>0, <2>3
        <3> QED
            BY <1>5, <2>3, <3>1, SessionsAssumption DEF SessionsAssumption
    <2>4. CASE j # k
        <3>1. entries'[j] = entries[j] /\ j \in Entries
            BY <1>2, <2>0, <2>4 DEF Entries
        <3>2. entries[j].count + Cardinality(Verifying(j)) < MaxFailure + MaxConcurrentRequests
            BY <3>1 DEF SessionsInv, FailuresAreBounded
        <3> QED
            BY <1>4, <2>1, <3>1, <3>2, SessionsAssumption DEF SessionsAssumption
    <2> QED
        BY <2>2, <2>3, <2>4
<1> QED
    BY <1>1, <1>3, <1>4, <1>6 DEF SessionsInv, FailuresAreBounded

\* A step that adds no attempt and no failure keeps the bound.
LEMMA QuietKeepsInv ==
    ASSUME SessionsInv, clock' \in Nat, UNCHANGED client,
           entries' \in [Clients -> [count : Nat, resetAt : Nat]],
           \A k \in Entries' : k \in Entries /\ entries'[k] = entries[k],
           phase' \in [Attempts -> Phases],
           Cardinality(InFlight') <= MaxConcurrentRequests,
           \A k : Cardinality(Verifying(k)') <= Cardinality(Verifying(k)),
           \A k : Cardinality(Verifying(k)') \in Nat
    PROVE  SessionsInv'
<1>1. client' \in [Attempts -> Clients]
    BY DEF SessionsInv
<1>2. FailuresAreBounded'
    <2> SUFFICES ASSUME NEW k \in Entries'
                 PROVE  entries'[k].count + Cardinality(Verifying(k)') < MaxFailure + MaxConcurrentRequests
        BY DEF FailuresAreBounded
    <2>1. k \in Clients /\ entries[k].count \in Nat /\ Cardinality(Verifying(k)) \in Nat
        BY VerifyingCounts DEF Entries, SessionsInv
    <2>2. entries[k].count + Cardinality(Verifying(k)) < MaxFailure + MaxConcurrentRequests
        BY DEF SessionsInv, FailuresAreBounded
    <2> QED
        BY <2>1, <2>2, SessionsAssumption DEF SessionsAssumption
<1> QED
    BY <1>1, <1>2 DEF SessionsInv

\* Every step keeps the invariant.
LEMMA SessionsNextKeepsInv == SessionsInv /\ [SessionsNext]_sessionVars => SessionsInv'
<1> SUFFICES ASSUME SessionsInv, [SessionsNext]_sessionVars PROVE SessionsInv'
    OBVIOUS
<1>1. CASE UNCHANGED <<clock, entries, phase, client>>
    BY <1>1 DEF SessionsInv, InFlight, FailuresAreBounded, Entries, Verifying
<1>2. CASE Tick
    <2>1. UNCHANGED <<entries, phase, client>> /\ clock' \in Nat
        BY <1>2 DEF Tick, SessionsInv
    <2> QED
        BY <2>1 DEF SessionsInv, InFlight, FailuresAreBounded, Entries, Verifying
<1>3. ASSUME NEW a \in Attempts, Verify(a) \/ Issue(a) PROVE SessionsInv'
    <2>1. /\ UNCHANGED <<clock, entries, client>>
          /\ phase[a] \notin {"none", "done"}
          /\ \E p \in Phases : /\ Set(a, p)
                               /\ phase[a] \notin {"verify", "failed"} => p \notin {"verify", "failed"}
        BY <1>3 DEF Verify, Issue, Phases
    <2> QED
        BY <2>1, LaterPhases, QuietKeepsInv DEF SessionsInv, Entries
<1>4. ASSUME NEW a \in Attempts, reset(a) PROVE SessionsInv'
    <2>1. /\ UNCHANGED <<clock, client>> /\ Set(a, "done")
          /\ phase[a] = "reset"
          /\ entries' = [entries EXCEPT ![client[a]] = NoEntry]
        BY <1>4 DEF reset
    <2>2. entries' \in [Clients -> [count : Nat, resetAt : Nat]]
          /\ \A k \in Entries' : k \in Entries /\ entries'[k] = entries[k]
        BY <2>1 DEF SessionsInv, Entries, NoEntry
    <2>3. clock' \in Nat
        BY <2>1 DEF SessionsInv
    <2> QED
        BY <2>1, <2>2, <2>3, LaterPhases, QuietKeepsInv DEF Phases
<1>5. ASSUME NEW a \in Attempts, Authenticate(a) \/ Logout(a) PROVE SessionsInv'
    BY <1>1, <1>5 DEF Authenticate, Logout
<1> QED
    BY <1>1, <1>2, <1>3, <1>4, <1>5, BlockedKeepsInv, FailedKeepsInv DEF SessionsNext, sessionVars

\* At first nobody has failed and nothing is in flight.
LEMMA SessionsInitInv == SessionsInit => SessionsInv
<1> SUFFICES ASSUME SessionsInit PROVE SessionsInv
    OBVIOUS
<1>1. InFlight = {} /\ Entries = {}
    BY DEF SessionsInit, InFlight, Entries
<1>2. Cardinality(InFlight) <= MaxConcurrentRequests
    BY <1>1, FS_EmptySet, SessionsAssumption DEF SessionsAssumption
<1> QED
    BY <1>1, <1>2 DEF SessionsInit, SessionsInv, FailuresAreBounded, NoEntry, Phases

\* Attempts that overlap between blocked and failed add less than MaxConcurrentRequests
\* failures to those that failureLimiter allows, for any limits and any number of
\* attempts and clients.
THEOREM SessionsFailuresAreBounded == SessionsSpec => []FailuresAreBounded
<1>1. SessionsInv => FailuresAreBounded
    BY DEF SessionsInv
<1> QED
    BY <1>1, SessionsInitInv, SessionsNextKeepsInv, PTL DEF SessionsSpec
=============================================================================
