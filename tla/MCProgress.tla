----------------------------- MODULE MCProgress -----------------------------
(***************************************************************************)
(* What must happen in the end, on small instances: operations settle,     *)
(* callers of the governor get a slot or give up, and a page that polls    *)
(* without end gets its answers.  A behaviour is about one of these; the   *)
(* others stay in their first state.                                       *)
(***************************************************************************)
EXTENDS MCOperations

CONSTANTS Callers, Enabled, HighWatermark, CriticalWatermark, Readings

VARIABLES part, machine, active, pc, patient, sample, left,
          current, turn, old, has, erred, inFlight, canceling, seen

guardVars == <<machine, active, pc, patient, sample, left>>
pollVars == <<current, turn, old, has, erred, inFlight, canceling, seen>>
allVars == <<part, vars, guardVars, pollVars>>

Guard == INSTANCE Governor
Poll == INSTANCE OperationsPage

\* The polling page when it is not there.
NoPoll ==
    /\ current = [h \in Poll!Resources |-> "none"] /\ turn = [h \in Poll!Resources |-> 0]
    /\ old = [h \in Poll!Resources |-> {}]
    /\ has = {} /\ erred = {} /\ inFlight = FALSE /\ canceling = "no" /\ seen = {}

MCInit ==
    /\ part \in {"operations", "governor", "poll"}
    /\ Init /\ Guard!Init
    /\ IF part = "poll" THEN Poll!PollInit ELSE NoPoll
    /\ part = "governor" \/ (machine = [memory |-> 0, load |-> 0] /\ patient = {})

OperationsNext == part = "operations" /\ Next /\ UNCHANGED <<part, guardVars, pollVars>>
GuardNext == part = "governor" /\ Guard!Next /\ UNCHANGED <<part, vars, pollVars>>
PollNext == part = "poll" /\ Poll!PollNext /\ UNCHANGED <<part, vars, guardVars>>

MCSpec ==
    /\ MCInit
    /\ [][OperationsNext \/ GuardNext \/ PollNext]_allVars
    /\ RequestFairness /\ WorkerFairness
    /\ Guard!Fairness
    /\ Poll!PollFairness

-----------------------------------------------------------------------------

\* However slow the server is, polling starves no load, no poll and no cancellation.
PollingStarvesNothing == Poll!PollingStarvesNothing
=============================================================================
