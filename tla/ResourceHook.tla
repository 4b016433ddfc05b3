---------------------------- MODULE ResourceHook ----------------------------
(***************************************************************************)
(* useResource of web/src/hooks.ts: the hook with which every page loads   *)
(* its data.  A load is started by a refresh of the user and by every      *)
(* change of the dependencies (the cluster, the namespace).  Its answer    *)
(* may come late, after other loads were started or answered.              *)
(*                                                                         *)
(* Loads are numbered by requestSequence; a cleanup also takes a number.   *)
(* React renders new dependencies first and runs the effects afterwards.   *)
(***************************************************************************)
EXTENDS Integers

CONSTANTS MaxSequence   \* bound on the numbers

VARIABLES
    wanted,     \* the number of the dependencies last rendered
    effects,    \* the effects of that render have yet to run
    sequence,   \* requestSequence.current
    loads,      \* loads[n]: the dependencies of load n while it is pending, 0 if it is not
    aborted,    \* the loads whose signal was aborted
    data,       \* the load whose answer is shown and the dependencies it is for
    loading,
    failure     \* the load whose error is shown, 0 if none is

hookVars == <<wanted, effects, sequence, loads, aborted, data, loading, failure>>

NoData == [of |-> 0, for |-> 0]

HookInit ==
    /\ wanted = 1
    /\ effects = TRUE
    /\ sequence = 0
    /\ loads = [n \in 1..MaxSequence |-> 0]
    /\ aborted = {}
    /\ data = NoData
    /\ loading = TRUE
    /\ failure = 0

Pending == {n \in 1..MaxSequence : loads[n] # 0}

\* refresh, up to the await, as number n.
refresh(n) ==
    /\ n <= MaxSequence
    /\ sequence' = n
    /\ aborted' = (aborted \cup Pending) \ {n}
    /\ loads' = [loads EXCEPT ![n] = wanted]
    /\ loading' = TRUE
    /\ failure' = 0

Refresh ==
    /\ ~effects
    /\ refresh(sequence + 1)
    /\ UNCHANGED <<wanted, effects, data>>

\* A render with other dependencies.
Render ==
    /\ wanted < MaxSequence /\ sequence + 2 <= MaxSequence
    /\ wanted' = wanted + 1
    /\ effects' = TRUE
    /\ UNCHANGED <<sequence, loads, aborted, data, loading, failure>>

\* The cleanup of the previous effect, unless this is the first one, and the effect.
Effect ==
    /\ effects
    /\ refresh(IF sequence = 0 THEN 1 ELSE sequence + 2)
    /\ effects' = FALSE
    /\ UNCHANGED <<wanted, data>>

\* The loader of load n settles and the rest of refresh runs.  The loader rejects an
\* aborted load with an AbortError unless its answer was already there.
SettleAny(n) ==
    /\ loads[n] # 0
    /\ loads' = [loads EXCEPT ![n] = 0]
    /\ aborted' = aborted \ {n}
    /\ \/ data' = [of |-> n, for |-> loads[n]] /\ UNCHANGED failure
       \/ failure' = (IF n \in aborted THEN failure ELSE n) /\ UNCHANGED data
    /\ loading' = IF n = sequence THEN FALSE ELSE loading
    /\ UNCHANGED <<wanted, effects, sequence>>

Settle(n) ==
    /\ loads[n] # 0
    /\ loads' = [loads EXCEPT ![n] = 0]
    /\ aborted' = aborted \ {n}
    /\ \/ data' = (IF n = sequence THEN [of |-> n, for |-> loads[n]] ELSE data) /\ UNCHANGED failure
       \/ failure' = (IF n = sequence /\ n \notin aborted THEN n ELSE failure) /\ UNCHANGED data
    /\ loading' = IF n = sequence THEN FALSE ELSE loading
    /\ UNCHANGED <<wanted, effects, sequence>>

HookNext == Refresh \/ Render \/ Effect \/ \E n \in 1..MaxSequence : Settle(n)

HookSpec == HookInit /\ [][HookNext]_hookVars

-----------------------------------------------------------------------------
\* Properties.

\* Once a page is neither loading nor about to, it shows the data of the
\* dependencies it was rendered with, or the error of loading exactly these; answers
\* that come late or after an abort change nothing.
ShownIsWanted ==
    ~loading /\ ~effects =>
        \/ data.for = wanted /\ data.of = sequence /\ failure = 0
        \/ failure = sequence

=============================================================================
