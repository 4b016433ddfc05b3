---------------------------- MODULE GatewayCache ----------------------------
(***************************************************************************)
(* The cache of Kubernetes clients of internal/platform/gateway_cache.go:  *)
(* one client per cluster, built once for all the callers that wait for it *)
(* (single flight), replaced when the connection material changes, dropped *)
(* when idle, least recently used or invalidated, and closed with the      *)
(* service.                                                                *)
(*                                                                         *)
(* A caller of Get is identified with the client its call would build, so  *)
(* entries, builds and got hold callers: "the client built by g".  Each of *)
(* the actions is one critical section of gatewayCache.mu; closing the     *)
(* idle connections of what the section retired follows the unlock and     *)
(* touches nothing that is shared, so it is counted in the same step.      *)
(***************************************************************************)
EXTENDS Integers, FiniteSets

CONSTANTS
    Gets,           \* the calls of Get in a behaviour
    NoGet,          \* nobody
    Clusters,       \* cluster IDs, ordered as the Go strings are
    Fingerprints,   \* digests of a cluster's connection material
    Maximum,        \* gatewayCache.maximum
    TTL,            \* gatewayCache.ttl
    MaxTime,        \* bound: how far the clock runs
    MaxGeneration   \* bound: how often a cluster is invalidated

ASSUME ClustersAssumption == Clusters \subseteq Int
ASSUME MaximumAssumption == Maximum \in Nat \ {0}
ASSUME TTLAssumption == TTL \in Nat \ {0}
ASSUME NoGetAssumption == NoGet \notin Gets
ASSUME BoundsAssumption == MaxTime \in Nat /\ MaxGeneration \in Nat

VARIABLES
    pc,             \* pc[g]: where call g is
    want,           \* want[g]: the cluster and fingerprint asked for
    clock,          \* clock[g]: the time g read before it took the lock
    leader,         \* leader[g]: whose build g waits for
    generation,     \* generation[g]: the generation g started to build under
    outcome,        \* outcome[g]: done and err of the gatewayCacheBuild of g
    got,            \* got[g]: the client returned, NoGet on error
    entries,        \* entries[k]: the client cached for cluster k
    lastUsed,       \* lastUsed[k]: when it was last handed out
    builds,         \* builds[k]: who is building for cluster k
    generations,    \* generations[k]: the invalidations of cluster k
    capacity, closed, now,
    made,           \* history: the clients that have been built
    retired         \* history: how often each of them was retired

callVars == <<pc, want, clock, leader, generation, outcome, got>>
cacheVars == <<entries, lastUsed, builds, generations, capacity, closed, now, made, retired>>
vars == <<callVars, cacheVars>>

Wants == [cluster : Clusters, fingerprint : Fingerprints]
NoWant == [cluster |-> 0, fingerprint |-> NoGet]

Init ==
    /\ pc = [g \in Gets |-> "none"]
    /\ want = [g \in Gets |-> NoWant]
    /\ clock = [g \in Gets |-> 0]
    /\ leader = [g \in Gets |-> NoGet]
    /\ generation = [g \in Gets |-> 0]
    /\ outcome = [g \in Gets |-> "none"]
    /\ got = [g \in Gets |-> NoGet]
    /\ entries = [k \in Clusters |-> NoGet]
    /\ lastUsed = [k \in Clusters |-> 0]
    /\ builds = [k \in Clusters |-> NoGet]
    /\ generations = [k \in Clusters |-> 0]
    /\ capacity = Maximum
    /\ closed = FALSE
    /\ now = 0
    /\ made = {}
    /\ retired = [g \in Gets |-> 0]

-----------------------------------------------------------------------------
\* Leaving the cache.  expireLocked drops what has not been used for the TTL,
\* evictLocked the least recently used entries beyond the capacity, the smaller
\* cluster ID first among equals.

Cached(e) == {k \in Clusters : e[k] # NoGet}

Without(e, ks) == [k \in Clusters |-> IF k \in ks THEN NoGet ELSE e[k]]

Expired(e, at) == {k \in Cached(e) : lastUsed[k] + TTL <= at}

Older(used, j, k) == used[j] < used[k] \/ (used[j] = used[k] /\ j < k)

Evicted(e, used, limit) ==
    {k \in Cached(e) : Cardinality({j \in Cached(e) : Older(used, j, k)})
                            < Cardinality(Cached(e)) - limit}

Retire(gs) == retired' = [g \in Gets |-> IF g \in gs THEN retired[g] + 1 ELSE retired[g]]

-----------------------------------------------------------------------------
\* Get.  The clock is read before the lock is taken, so the time an iteration uses
\* may lie behind the times that others have recorded.  The first critical section of an iteration finds the cache closed, a
\* usable entry, somebody building, or nothing; an entry built from other
\* connection material is dropped on the way.

StartGet(g, w) ==
    /\ pc[g] = "none"
    /\ want' = [want EXCEPT ![g] = w]
    /\ clock' = [clock EXCEPT ![g] = now]
    /\ pc' = [pc EXCEPT ![g] = "lookup"]
    /\ UNCHANGED <<leader, generation, outcome, got, cacheVars>>

GetClosed(g) ==
    /\ pc[g] = "lookup"
    /\ closed
    /\ pc' = [pc EXCEPT ![g] = "done"]
    /\ UNCHANGED <<want, clock, leader, generation, outcome, got, cacheVars>>

UsableForAnyone(g, k) == k \in Cached(entries) \ Expired(entries, clock[g])

UsableAfterExpiry(g, k) == /\ k \in Cached(entries)
                           /\ want[entries[k]].fingerprint = want[g].fingerprint

Usable(g, k) == /\ k \in Cached(entries) \ Expired(entries, clock[g])
                /\ want[entries[k]].fingerprint = want[g].fingerprint

GetHit(g) ==
    LET k == want[g].cluster
        old == Expired(entries, clock[g])
    IN  /\ pc[g] = "lookup" /\ ~closed
        /\ Usable(g, k)
        /\ got' = [got EXCEPT ![g] = entries[k]]
        /\ pc' = [pc EXCEPT ![g] = "done"]
        /\ entries' = Without(entries, old)
        /\ lastUsed' = [lastUsed EXCEPT ![k] = clock[g]]
        /\ Retire({entries[j] : j \in old})
        /\ UNCHANGED <<want, clock, leader, generation, outcome, builds, generations,
                       capacity, closed, now, made>>

GetMiss(g) ==
    LET k == want[g].cluster
        old == Expired(entries, clock[g]) \cup ({k} \cap Cached(entries))
    IN  /\ pc[g] = "lookup" /\ ~closed
        /\ ~Usable(g, k)
        /\ entries' = Without(entries, old)
        /\ Retire({entries[j] : j \in old})
        /\ IF builds[k] # NoGet
           THEN /\ pc' = [pc EXCEPT ![g] = "waiting"]
                /\ leader' = [leader EXCEPT ![g] = builds[k]]
                /\ UNCHANGED <<generation, builds>>
           ELSE /\ pc' = [pc EXCEPT ![g] = "building"]
                /\ generation' = [generation EXCEPT ![g] = generations[k]]
                /\ builds' = [builds EXCEPT ![k] = g]
                /\ UNCHANGED leader
        /\ UNCHANGED <<want, clock, outcome, got, lastUsed, generations, capacity, closed, now, made>>

\* A waiter shares the error of a build for the same fingerprint and otherwise
\* looks again.
WakeUp(g) ==
    LET b == leader[g]
    IN  /\ pc[g] = "waiting"
        /\ outcome[b] # "none"
        /\ pc' = [pc EXCEPT ![g] =
                IF outcome[b] = "failed" /\ want[b].fingerprint = want[g].fingerprint
                THEN "done" ELSE "lookup"]
        /\ clock' = [clock EXCEPT ![g] = now]
        /\ leader' = [leader EXCEPT ![g] = NoGet]
        /\ UNCHANGED <<want, generation, outcome, got, cacheVars>>

\* The caller's context is done.
GiveUp(g) ==
    /\ pc[g] = "waiting"
    /\ pc' = [pc EXCEPT ![g] = "done"]
    /\ leader' = [leader EXCEPT ![g] = NoGet]
    /\ UNCHANGED <<want, clock, generation, outcome, got, cacheVars>>

\* The second critical section: build returned an error, with or without a
\* client, or no client.
BuildFailsQuietly(g) ==
    /\ pc[g] = "building"
    /\ outcome' = [outcome EXCEPT ![g] = "failed"]
    /\ pc' = [pc EXCEPT ![g] = "done"]
    /\ \E gs \in {{}, {g}} : made' = made \cup gs /\ Retire(gs)
    /\ UNCHANGED <<want, clock, leader, generation, got, entries, lastUsed, builds, generations,
                   capacity, closed, now>>

BuildFails(g) ==
    /\ pc[g] = "building"
    /\ builds' = [builds EXCEPT ![want[g].cluster] = NoGet]
    /\ outcome' = [outcome EXCEPT ![g] = "failed"]
    /\ pc' = [pc EXCEPT ![g] = "done"]
    /\ \E gs \in {{}, {g}} : made' = made \cup gs /\ Retire(gs)
    /\ UNCHANGED <<want, clock, leader, generation, got, entries, lastUsed, generations,
                   capacity, closed, now>>

OutdatedIgnoringGeneration(g) == closed

Outdated(g) == closed \/ generations[want[g].cluster] # generation[g]

BuildOutdatedLeaks(g) ==
    /\ pc[g] = "building"
    /\ Outdated(g)
    /\ builds' = [builds EXCEPT ![want[g].cluster] = NoGet]
    /\ outcome' = [outcome EXCEPT ![g] = "failed"]
    /\ pc' = [pc EXCEPT ![g] = "done"]
    /\ made' = made \cup {g}
    /\ UNCHANGED <<want, clock, leader, generation, got, entries, lastUsed, generations,
                   capacity, closed, now, retired>>

\* The client arrives after an invalidation or the end: it is not used.
BuildOutdated(g) ==
    /\ pc[g] = "building"
    /\ Outdated(g)
    /\ builds' = [builds EXCEPT ![want[g].cluster] = NoGet]
    /\ outcome' = [outcome EXCEPT ![g] = "failed"]
    /\ pc' = [pc EXCEPT ![g] = "done"]
    /\ made' = made \cup {g}
    /\ Retire({g})
    /\ UNCHANGED <<want, clock, leader, generation, got, entries, lastUsed, generations,
                   capacity, closed, now>>

BuildSucceeds(g) ==
    LET k == want[g].cluster
        used == [lastUsed EXCEPT ![k] = now]
        with == [entries EXCEPT ![k] = g]
        old == Evicted(with, used, capacity)
    IN  /\ pc[g] = "building"
        /\ ~Outdated(g)
        /\ builds' = [builds EXCEPT ![k] = NoGet]
        /\ outcome' = [outcome EXCEPT ![g] = "ok"]
        /\ pc' = [pc EXCEPT ![g] = "done"]
        /\ got' = [got EXCEPT ![g] = g]
        /\ made' = made \cup {g}
        /\ entries' = Without(with, old)
        /\ lastUsed' = used
        /\ Retire(({entries[k]} \ {NoGet}) \cup {with[j] : j \in old})
        /\ UNCHANGED <<want, clock, leader, generation, generations, capacity, closed, now>>

Proceed(g) == \/ GetClosed(g) \/ GetHit(g) \/ GetMiss(g) \/ WakeUp(g)
              \/ BuildFails(g) \/ BuildOutdated(g) \/ BuildSucceeds(g)

Get(g) == Proceed(g) \/ GiveUp(g)

-----------------------------------------------------------------------------
\* What the service does to the cache besides Get.

Invalidate(k) ==
    /\ generations' = [generations EXCEPT ![k] = @ + 1]
    /\ entries' = Without(entries, {k})
    /\ Retire({entries[k]})
    /\ UNCHANGED <<callVars, lastUsed, builds, capacity, closed, now, made>>

\* The capacity under the pressure of a governor snapshot.
adaptiveGatewayCacheCapacity(pressure) ==
    CASE pressure = "critical" -> 1
      [] pressure = "constrained" -> IF (Maximum + 1) \div 2 > 1 THEN (Maximum + 1) \div 2 ELSE 1
      [] OTHER -> Maximum

Reconcile(pressure) ==
    LET limit == adaptiveGatewayCacheCapacity(pressure)
        dead == Expired(entries, now)
        old == dead \cup Evicted(Without(entries, dead), lastUsed, limit)
    IN  \/ closed /\ UNCHANGED vars
        \/ /\ ~closed
           /\ capacity' = limit
           /\ entries' = Without(entries, old)
           /\ Retire({entries[k] : k \in old})
           /\ UNCHANGED <<callVars, lastUsed, builds, generations, closed, now, made>>

Close ==
    /\ ~closed
    /\ closed' = TRUE
    /\ entries' = Without(entries, Clusters)
    /\ Retire({entries[k] : k \in Clusters})
    /\ UNCHANGED <<callVars, lastUsed, builds, generations, capacity, now, made>>

Tick ==
    /\ now < MaxTime
    /\ now' = now + 1
    /\ UNCHANGED <<callVars, entries, lastUsed, builds, generations, capacity, closed, made, retired>>

Pressures == {"normal", "constrained", "critical", "unknown"}

Next == \/ \E g \in Gets, w \in Wants : StartGet(g, w)
        \/ \E g \in Gets : Get(g)
        \/ \E k \in Clusters : generations[k] < MaxGeneration /\ Invalidate(k)
        \/ \E pressure \in Pressures : Reconcile(pressure)
        \/ Close \/ Tick

Spec == Init /\ [][Next]_vars

-----------------------------------------------------------------------------
\* Safety.

\* No client is lost: whatever way it leaves the cache (expiry, eviction, new
\* material, invalidation, close) or fails to enter it, a client that was built
\* is either cached or has been retired, exactly once; and no more are cached
\* than the pressure seen last allows.
NoClientLeaks ==
    /\ \A g \in Gets :
          LET cached == \E k \in Clusters : entries[k] = g
          IN  /\ cached => g \in made
              /\ retired[g] = IF g \in made /\ ~cached THEN 1 ELSE 0
    /\ Cardinality(Cached(entries)) <= capacity

\* Invalidate is effective against builds in flight: what is cached for a
\* cluster was started after the cluster's last invalidation; and after Close nothing
\* is cached again, not even by a build that ends later.
CachedIsCurrent ==
    /\ \A k \in Cached(entries) :
          want[entries[k]].cluster = k /\ generation[entries[k]] = generations[k]
    /\ closed => Cached(entries) = {}

\* Nobody is given a client for another cluster or built from other connection
\* material than the caller read from the store.
MaterialMatches ==
    \A g \in Gets : got[g] # NoGet => want[got[g]] = want[g]

\* A cache hit hands out a client that stays cached; it is not one that the same
\* critical section has just retired.
HitsAreLive ==
    [][\A g \in Gets : got'[g] \notin {got[g], g} => retired'[got'[g]] = 0]_vars

-----------------------------------------------------------------------------
\* Liveness.  Callers keep running, and building a client ends: it is bounded by
\* the dial and request timeouts of the client factory.  Nobody's context need
\* ever be done, so GiveUp is left out.
LiveSpec == Spec /\ \A g \in Gets : WF_vars(Proceed(g))

\* Every call of Get returns, also when the build it waits for fails, is
\* outdated, or was for other connection material.
GetReturns == \A g \in Gets : pc[g] = "lookup" ~> pc[g] = "done"
=============================================================================
