----------------------------- MODULE MCRequests -----------------------------
(***************************************************************************)
(* Small instances of what stands between a user and the service: the      *)
(* requests of the HTTP API, the sessions and the limiter of logins, the   *)
(* governor, and the hook with which a page loads its data.  A behaviour   *)
(* is about one of them and leaves the others as they start.               *)
(***************************************************************************)
EXTENDS Governor, Sessions, TLC

CONSTANTS r1, r2, r3, NoRequest, ReadSlots, MaxSequence

VARIABLES part, at, job, slots, readers, scanner, result, recorded, reply,
          wanted, effects, sequence, loads, aborted, data, loading, failure

apiVars == <<at, job, slots, readers, scanner, result, recorded, reply>>
pageVars == <<wanted, effects, sequence, loads, aborted, data, loading, failure>>
allVars == <<part, vars, sessionVars, apiVars, pageVars>>

MCReadings == {NoRatio, 800, 950}

Page == INSTANCE ResourceHook

MCRoutes == INSTANCE Routes

\* One request for anything from anybody, one for a scan, and one that only takes
\* the last request slot.
MCDemand ==
    r1 :> [names |-> DOMAIN MCRoutes!Handlers, from |-> {"anonymous", "foreign", "user"}]
    @@ r2 :> [names |-> {"clusterCapabilities"}, from |-> {"user"}]
    @@ r3 :> [names |-> {"listClusters"}, from |-> {"anonymous"}]

Api == INSTANCE HttpApi WITH Requests <- {r1, r2, r3}, Demand <- MCDemand

\* Clients are numbered in the order in which attempts use them.
Numbered == \A a \in Attempts : client[a] <= 1 + Cardinality({client[b] : b \in 1..(a - 1)})

MCInit ==
    /\ part \in {"api", "sessions", "governor", "page"}
    /\ Init /\ SessionsInit /\ Api!HttpInit /\ Page!HookInit
    /\ part = "governor" \/ (machine = NoSample /\ patient = {})
    /\ IF part = "sessions" THEN Numbered ELSE \A a \in Attempts : client[a] = 1

ApiNext == part = "api" /\ Api!HttpNext /\ UNCHANGED <<part, vars, sessionVars, pageVars>>
SessionNext == part = "sessions" /\ SessionsNext /\ UNCHANGED <<part, vars, apiVars, pageVars>>
GovernorNext == part = "governor" /\ Next /\ UNCHANGED <<part, sessionVars, apiVars, pageVars>>
PageNext == part = "page" /\ Page!HookNext /\ UNCHANGED <<part, vars, sessionVars, apiVars>>

MCSpec == MCInit /\ [][ApiNext \/ SessionNext \/ GovernorNext \/ PageNext]_allVars

-----------------------------------------------------------------------------

\* An audited read answers with data only if its audit event was written.
AuditedReadsAreRecorded == Api!AuditedReadsAreRecorded

\* No input that its validator refuses reaches a cluster; requests without a session,
\* and changes asked for by another origin, are refused.
RequestsAreChecked == Api!RequestsAreChecked

\* An idle page shows what it was rendered for, or the error of loading that.
ShownIsWanted == Page!ShownIsWanted
=============================================================================
