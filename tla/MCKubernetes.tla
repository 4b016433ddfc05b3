---------------------------- MODULE MCKubernetes ----------------------------
(***************************************************************************)
(* Small instances of the Kubernetes client: one call of a list function,  *)
(* calls that change a Deployment while others do, and the functions that  *)
(* project what was read.  A behaviour is about one of them and leaves the *)
(* others as they start.                                                   *)
(***************************************************************************)
EXTENDS PagedList, WorkloadChange, Projections

VARIABLE part

allVars == <<part, listVars, changeVars, answer>>

Nothing == [about |-> "nothing", value |-> <<>>]

MCInit ==
    /\ part \in {"list", "change", "projection"}
    /\ ListInit /\ ChangeInit
    /\ part # "list" => list = listRaw
    /\ IF part = "projection" THEN ProjectionsInit ELSE answer = Nothing

MCList == part = "list" /\ ListNext /\ UNCHANGED <<part, changeVars, answer>>
MCChange == part = "change" /\ ChangeNext /\ UNCHANGED <<part, listVars, answer>>

MCSpec == MCInit /\ [][MCList \/ MCChange]_allVars
=============================================================================
