--------------------------- MODULE WorkloadChange ---------------------------
(***************************************************************************)
(* The calls with which the Kubernetes client changes a Deployment: scale, *)
(* restart, and the update of an image with its dry run.  Each call starts *)
(* from what its user was shown some time before, while other writers      *)
(* change, delete and create the same Deployment.  The API server and its  *)
(* admission are external.                                                 *)
(***************************************************************************)
EXTENDS Naturals

CONSTANTS Calls, MaxVersion

VARIABLES deployment,   \* the object on the API server
          latest,       \* the last resource version it gave out
          shown,        \* what the user of each call was shown
          change,       \* what each call is asked to do
          step,         \* "idle", "get", "patch" or "done"
          result,       \* how the call ended
          applied       \* calls whose patch the server has stored

changeVars == <<deployment, latest, shown, change, step, result, applied>>

Images == {"old", "new", "other"}
NoContainer == "none"
Absent == [version |-> 0, image |-> NoContainer, replicas |-> 0, restarts |-> 0]
NoChange == [kind |-> "none", dryRun |-> FALSE, version |-> 0, currentImage |-> "old",
             image |-> "new", replicas |-> 0]

ChangeInit ==
    /\ deployment = [Absent EXCEPT !.version = 1, !.image = "old", !.replicas = 1]
    /\ latest = 1
    /\ shown = [c \in Calls |-> Absent]
    /\ change = [c \in Calls |-> NoChange]
    /\ step = [c \in Calls |-> "idle"]
    /\ result = [c \in Calls |-> ""]
    /\ applied = {}

-----------------------------------------------------------------------------
(* The API server and the other writers. *)

\* Storing an object gives it a new resource version, unless nothing changes.
Store(d) ==
    IF d = deployment THEN UNCHANGED <<deployment, latest>>
    ELSE /\ latest < MaxVersion
         /\ latest' = latest + 1
         /\ deployment' = [d EXCEPT !.version = latest + 1]

\* Somebody else changes the Deployment, its status, or creates it anew.
Write ==
    /\ latest < MaxVersion
    /\ latest' = latest + 1
    /\ \E i \in {"old", "other", NoContainer}, n \in 1..2 :
          deployment' = [deployment EXCEPT !.version = latest + 1, !.image = i, !.replicas = n]
    /\ UNCHANGED <<shown, change, step, result, applied>>

Delete ==
    /\ deployment # Absent
    /\ deployment' = Absent
    /\ UNCHANGED <<latest, shown, change, step, result, applied>>

-----------------------------------------------------------------------------
(* A call. *)

\* The user opens the workload.
WorkloadDetail(c) ==
    /\ step[c] = "idle" /\ deployment # Absent
    /\ shown' = [shown EXCEPT ![c] = deployment]
    /\ UNCHANGED <<deployment, latest, change, step, result, applied>>

Finish(c, how) ==
    /\ step' = [step EXCEPT ![c] = "done"]
    /\ result' = [result EXCEPT ![c] = how]
    /\ UNCHANGED <<shown, change>>

\* The call carries the resource version the user was shown, and for an image the
\* image it replaces.
Ask(c, next, request) ==
    /\ step[c] = "idle" /\ shown[c] # Absent
    /\ change' = [change EXCEPT ![c] = request]
    /\ step' = [step EXCEPT ![c] = next]
    /\ UNCHANGED <<deployment, latest, shown, result, applied>>

ScaleWorkload(c) ==
    \E n \in 0..2 : Ask(c, "patch", [NoChange EXCEPT !.kind = "scale",
                                       !.version = shown[c].version, !.replicas = n])

RestartWorkload(c) ==
    Ask(c, "patch", [NoChange EXCEPT !.kind = "restart", !.version = shown[c].version])

AskImage(c, dryRun) ==
    \E i \in Images : Ask(c, "get", [NoChange EXCEPT !.kind = "image", !.dryRun = dryRun,
                                       !.version = shown[c].version, !.currentImage = i])

PreviewWorkloadImage(c) == AskImage(c, TRUE)
UpdateWorkloadImage(c) == AskImage(c, FALSE)

\* ValidateWorkloadImageChange refuses the image that is already there, before any
\* request.
ValidateWorkloadImageChange(c) ==
    /\ step[c] = "get" /\ change[c].currentImage = change[c].image
    /\ Finish(c, "invalid")
    /\ UNCHANGED <<deployment, latest, applied>>

\* The first request of patchDeploymentImage.
patchDeploymentImage(c) ==
    /\ step[c] = "get" /\ change[c].currentImage # change[c].image
    /\ \/ Finish(c, "unknown")
       \/ deployment = Absent /\ Finish(c, "not found")
       \/ /\ deployment # Absent
          /\ \/ deployment.version # change[c].version
             \/ deployment.image # change[c].currentImage
          /\ Finish(c, "conflict")
       \/ /\ deployment.version = change[c].version
          /\ deployment.image = change[c].currentImage
          /\ step' = [step EXCEPT ![c] = "patch"]
          /\ UNCHANGED <<shown, change, result>>
    /\ UNCHANGED <<deployment, latest, applied>>

\* What the server makes of a patch; its admission may put another image in.
Patched(c, admitted) ==
    CASE change[c].kind = "scale" -> [deployment EXCEPT !.replicas = change[c].replicas]
      [] change[c].kind = "restart" -> [deployment EXCEPT !.restarts = @ + 1]
      [] OTHER -> [deployment EXCEPT !.image = admitted]

\* The patch carries no resource version.
MatchesAny(c) == TRUE

\* The server compares the resource version that every patch carries.
Matches(c) == deployment.version = change[c].version

Reject(c) ==
    /\ \/ deployment = Absent /\ Finish(c, "not found")
       \/ deployment # Absent /\ ~Matches(c) /\ Finish(c, "conflict")
    /\ UNCHANGED <<deployment, latest, applied>>

\* The dry run is not asked for.
AcceptForReal(c, admitted) ==
    /\ deployment # Absent /\ Matches(c)
    /\ Store(Patched(c, admitted)) /\ applied' = applied \cup {c}

Accept(c, admitted) ==
    /\ deployment # Absent /\ Matches(c)
    /\ IF change[c].dryRun
          THEN UNCHANGED <<deployment, latest, applied>>
          ELSE Store(Patched(c, admitted)) /\ applied' = applied \cup {c}

\* The image in the answer is compared with the image that was asked for.
ImageIsWanted(c, admitted) == change[c].kind # "image" \/ admitted = change[c].image

\* The request with the patch: refused, lost on the way there or back, or answered.
patchDeployment(c) ==
    /\ step[c] = "patch"
    /\ \/ Reject(c)
       \/ Finish(c, "unknown") /\ UNCHANGED <<deployment, latest, applied>>
       \/ \E admitted \in {change[c].image, "other"} :
             /\ Accept(c, admitted)
             /\ \/ Finish(c, "unknown")
                \/ Finish(c, IF ImageIsWanted(c, admitted) THEN "succeeded" ELSE "upstream")

CallStep(c) ==
    \/ WorkloadDetail(c) \/ ScaleWorkload(c) \/ RestartWorkload(c) \/ PreviewWorkloadImage(c)
    \/ UpdateWorkloadImage(c) \/ ValidateWorkloadImageChange(c) \/ patchDeploymentImage(c)
    \/ patchDeployment(c)

ChangeNext == Write \/ Delete \/ \E c \in Calls : CallStep(c)
ChangeSpec == ChangeInit /\ [][ChangeNext]_changeVars

-----------------------------------------------------------------------------
(* Properties *)

\* A change is stored only on top of exactly what its user was shown: nothing another
\* writer did in between, not even between the two requests of an image update, is
\* overwritten.
UpdatesAreNotLost ==
    [][\A c \in applied' \ applied : deployment = shown[c]]_changeVars

\* An answer tells what happened: a success was stored once and is what was asked for,
\* a conflict or a missing object means nothing was stored, and a dry run stores
\* nothing however it ends.
ResultsAreTrue ==
    /\ \A c \in applied : ~change[c].dryRun /\ result[c] \in {"succeeded", "upstream", "unknown"}
    /\ \A c \in Calls : result[c] = "succeeded" /\ ~change[c].dryRun => c \in applied

\* A successful image update leaves the Deployment with that image and with everything
\* else the user was shown.
SuccessIsTheChange ==
    [][\A c \in Calls : result'[c] # result[c] /\ result'[c] = "succeeded"
                        /\ change[c].kind = "image" /\ ~change[c].dryRun
          => deployment' = [shown[c] EXCEPT !.version = latest', !.image = change[c].image]]_changeVars
=============================================================================
