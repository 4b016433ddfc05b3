---------------------------- MODULE DurableStore ----------------------------
(***************************************************************************)
(* What internal/store promises its callers, whatever the steps in which   *)
(* it writes the file: every change is applied entirely or not at all, a   *)
(* change that was acknowledged survives every restart, and what a restart *)
(* may bring back beyond it is only a change that was attempted since.     *)
(***************************************************************************)
VARIABLES
    up,         \* the process runs
    state,      \* what it serves
    found       \* what a restart may find

vars == <<up, state, found>>

Init ==
    /\ up = TRUE
    /\ found = {state}

\* A change is on its way: from now on a restart may bring it back.
Attempt ==
    /\ up = TRUE
    /\ \E next \in found' : found' = found \cup {next}
    /\ UNCHANGED <<up, state>>

\* The change is acknowledged: nothing older is ever seen again.
Acknowledge ==
    /\ up = TRUE
    /\ state' \in found
    /\ found' = {state'}
    /\ UNCHANGED up

\* The process stops.  A power loss settles what the disk holds, the end of the
\* process alone does not.
Stop ==
    /\ up = TRUE
    /\ up' = FALSE
    /\ found' = found \/ \E s \in found : found' = {s}
    /\ UNCHANGED state

Restart ==
    /\ up = FALSE
    /\ up' = TRUE
    /\ state' \in found
    /\ UNCHANGED found

Next == Attempt \/ Acknowledge \/ Stop \/ Restart

Spec == Init /\ [][Next]_vars
=============================================================================
