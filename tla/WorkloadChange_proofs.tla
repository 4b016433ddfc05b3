----------------------- MODULE WorkloadChange_proofs ------------------------
(***************************************************************************)
(* What WorkloadChange promises, for any number of calls and versions.     *)
(* The argument: a resource version is given out once, so two objects of   *)
(* the same version are the same object; a call keeps the version its user *)
(* was shown; and the server compares that version when it stores a patch. *)
(***************************************************************************)
EXTENDS WorkloadChange, TLAPS

AnyImage == {"old", "new", "other", "none"}
Deployments == [version : Nat, image : AnyImage, replicas : Nat, restarts : Nat]
Changes == [kind : {"none", "scale", "restart", "image"}, dryRun : BOOLEAN, version : Nat,
            currentImage : Images, image : Images, replicas : Nat]
Steps == {"idle", "get", "patch", "done"}
Results == {"", "succeeded", "upstream", "unknown", "conflict", "not found", "invalid"}

\* The types of the variables.
ChangeTypeOK ==
    /\ deployment \in Deployments
    /\ latest \in Nat
    /\ shown \in [Calls -> Deployments]
    /\ change \in [Calls -> Changes]
    /\ step \in [Calls -> Steps]
    /\ result \in [Calls -> Results]
    /\ applied \subseteq Calls

\* A version is given out once and stands for one object.
VersionsAreObjects ==
    /\ deployment.version <= latest
    /\ \A c \in Calls : shown[c].version <= latest
    /\ \A c \in Calls :
          /\ shown[c] # Absent
          /\ deployment # Absent
          /\ shown[c].version = deployment.version
          => deployment = shown[c]

\* A call that is under way carries the version that its user was shown; the patch of
\* an image is sent only when that differs from the image shown.
CallsKeepVersions ==
    /\ \A c \in Calls : step[c] \in {"get", "patch"} =>
          shown[c] # Absent /\ change[c].version = shown[c].version
    /\ \A c \in Calls : step[c] = "patch" /\ change[c].kind = "image" =>
          shown[c].image # change[c].image

\* Only a call that has ended has a result or a stored patch.
ResultsComeLast ==
    \A c \in Calls : step[c] # "done" => result[c] = "" /\ c \notin applied

ChangeInv ==
    ChangeTypeOK /\ VersionsAreObjects /\ CallsKeepVersions /\ ResultsComeLast /\ ResultsAreTrue

-----------------------------------------------------------------------------
\* The initial states satisfy the invariant.
LEMMA InitChangeInv == ChangeInit => ChangeInv
<1> SUFFICES ASSUME ChangeInit PROVE ChangeInv
    OBVIOUS
<1>1. ChangeTypeOK
    BY DEF ChangeInit, ChangeTypeOK, Absent, NoChange, NoContainer, Deployments, Changes,
           Images, AnyImage, Steps, Results
<1>2. \A c \in Calls : shown[c] = Absent /\ shown[c].version = 0
    BY DEF ChangeInit, Absent
<1>3. deployment.version = 1 /\ latest = 1
    BY DEF ChangeInit, Absent
<1>4. VersionsAreObjects
    BY <1>2, <1>3 DEF VersionsAreObjects
<1>5. CallsKeepVersions /\ ResultsComeLast /\ ResultsAreTrue
    BY DEF ChangeInit, CallsKeepVersions, ResultsComeLast, ResultsAreTrue
<1> QED
    BY <1>1, <1>4, <1>5 DEF ChangeInv

\* Storing an object keeps it typed and its version new, and loses no version.
LEMMA StoreKeepsVersions ==
    ASSUME ChangeTypeOK, VersionsAreObjects, UNCHANGED shown,
           NEW d \in Deployments, d.version = deployment.version, Store(d)
    PROVE  deployment' \in Deployments /\ latest' \in Nat /\ VersionsAreObjects'
<1>1. CASE d = deployment
    BY <1>1 DEF Store, ChangeTypeOK, VersionsAreObjects, Absent
<1>2. CASE d # deployment
    <2>1. latest' = latest + 1 /\ deployment' = [d EXCEPT !.version = latest + 1]
        BY <1>2 DEF Store
    <2>2. deployment' \in Deployments /\ latest' \in Nat /\ deployment'.version = latest + 1
        BY <2>1 DEF ChangeTypeOK, Deployments
    <2>3. \A c \in Calls : shown[c].version \in Nat /\ shown[c].version <= latest
        BY DEF ChangeTypeOK, VersionsAreObjects, Deployments
    <2>4. \A c \in Calls : shown'[c].version <= latest' /\ shown'[c].version # deployment'.version
        BY <2>1, <2>2, <2>3 DEF ChangeTypeOK
    <2> QED
        BY <2>1, <2>2, <2>4 DEF VersionsAreObjects, ChangeTypeOK
<1> QED
    BY <1>1, <1>2

\* Other writers keep the invariant.
LEMMA WritersKeepInv ==
    ASSUME ChangeInv, Write \/ Delete
    PROVE  ChangeInv'
<1> USE DEF ChangeInv
<1>1. CASE Write
    <2>1. PICK i \in {"old", "other", NoContainer}, n \in 1..2 :
             deployment' = [deployment EXCEPT !.version = latest + 1, !.image = i, !.replicas = n]
        BY <1>1 DEF Write
    <2>2. i \in AnyImage /\ n \in Nat
        BY DEF NoContainer, AnyImage
    <2>3. latest \in Nat /\ latest' = latest + 1 /\ latest' \in Nat
        BY <1>1 DEF Write, ChangeTypeOK
    <2>4. deployment \in Deployments
        BY DEF ChangeTypeOK
    <2>5. deployment' \in Deployments /\ deployment'.version = latest'
        BY <2>1, <2>2, <2>3, <2>4 DEF Deployments
    <2>6. UNCHANGED <<shown, change, step, result, applied>>
        BY <1>1 DEF Write
    <2>7. ChangeTypeOK'
        BY <2>3, <2>5, <2>6 DEF ChangeTypeOK
    <2>8. \A c \in Calls : shown[c].version \in Nat /\ shown[c].version <= latest
        BY DEF ChangeTypeOK, VersionsAreObjects, Deployments
    <2>9. \A c \in Calls : shown'[c].version <= latest' /\ shown'[c].version # deployment'.version
        BY <2>3, <2>5, <2>6, <2>8 DEF ChangeTypeOK
    <2>10. VersionsAreObjects'
        BY <2>3, <2>5, <2>9 DEF VersionsAreObjects
    <2> QED
        BY <2>6, <2>7, <2>10 DEF CallsKeepVersions, ResultsComeLast, ResultsAreTrue
<1>2. CASE Delete
    <2>1. deployment' = Absent /\ UNCHANGED <<latest, shown, change, step, result, applied>>
        BY <1>2 DEF Delete
    <2>2. ChangeTypeOK' /\ VersionsAreObjects'
        BY <2>1 DEF ChangeTypeOK, VersionsAreObjects, Absent, NoContainer, Deployments, AnyImage
    <2> QED
        BY <2>1, <2>2 DEF CallsKeepVersions, ResultsComeLast, ResultsAreTrue
<1> QED
    BY <1>1, <1>2

\* Opening a workload keeps the invariant: what is shown is the object itself.
LEMMA DetailKeepsInv ==
    ASSUME ChangeInv, NEW c \in Calls, WorkloadDetail(c)
    PROVE  ChangeInv'
<1> USE DEF ChangeInv, WorkloadDetail
<1>1. ChangeTypeOK'
    BY DEF ChangeTypeOK
<1>2. VersionsAreObjects'
    BY DEF ChangeTypeOK, VersionsAreObjects
<1>3. CallsKeepVersions'
    BY DEF ChangeTypeOK, CallsKeepVersions
<1> QED
    BY <1>1, <1>2, <1>3 DEF ResultsComeLast, ResultsAreTrue

\* Asking keeps the invariant as long as the request carries the version shown.
LEMMA AskKeepsInv ==
    ASSUME ChangeInv, NEW c \in Calls, NEW next \in {"get", "patch"}, NEW request \in Changes,
           request.version = shown[c].version, next = "patch" => request.kind # "image",
           Ask(c, next, request)
    PROVE  ChangeInv'
<1> USE DEF ChangeInv, Ask
<1>1. ChangeTypeOK'
    BY DEF ChangeTypeOK, Steps
<1>2. VersionsAreObjects'
    BY DEF VersionsAreObjects
<1>3. CallsKeepVersions'
    BY DEF ChangeTypeOK, CallsKeepVersions
<1>4. ResultsComeLast' /\ result[c] = "" /\ c \notin applied
    BY DEF ChangeTypeOK, ResultsComeLast
<1>5. ResultsAreTrue'
    BY <1>4 DEF ChangeTypeOK, ResultsAreTrue
<1> QED
    BY <1>1, <1>2, <1>3, <1>4, <1>5

\* Ending a call without a stored patch keeps the invariant.
LEMMA FinishKeepsInv ==
    ASSUME ChangeInv, NEW c \in Calls, step[c] # "done",
           NEW how \in Results \ {"succeeded"}, Finish(c, how),
           UNCHANGED <<deployment, latest, applied>>
    PROVE  ChangeInv'
<1> USE DEF ChangeInv, Finish
<1>1. ChangeTypeOK'
    BY DEF ChangeTypeOK, Steps
<1>2. VersionsAreObjects'
    BY DEF VersionsAreObjects
<1>3. CallsKeepVersions' /\ ResultsComeLast'
    BY DEF ChangeTypeOK, CallsKeepVersions, ResultsComeLast
<1>4. c \notin applied
    BY DEF ResultsComeLast
<1>5. ResultsAreTrue'
    BY <1>4 DEF ChangeTypeOK, ResultsAreTrue
<1> QED
    BY <1>1, <1>2, <1>3, <1>5

\* A patch that the server accepts is of the object the user was shown.
LEMMA AcceptedIsShown ==
    ASSUME ChangeInv, NEW c \in Calls, NEW admitted, step[c] = "patch", Accept(c, admitted)
    PROVE  deployment = shown[c]
<1>1. deployment # Absent /\ deployment.version = change[c].version
    BY DEF Accept, Matches
<1>2. shown[c] # Absent /\ change[c].version = shown[c].version
    BY DEF ChangeInv, CallsKeepVersions
<1> QED
    BY <1>1, <1>2 DEF ChangeInv, VersionsAreObjects

\* What the server makes of a patch is a Deployment of the same version.
LEMMA PatchedType ==
    ASSUME ChangeTypeOK, NEW c \in Calls, NEW admitted \in AnyImage
    PROVE  Patched(c, admitted) \in Deployments /\ Patched(c, admitted).version = deployment.version
<1>1. deployment \in Deployments /\ change[c].replicas \in Nat
    BY DEF ChangeTypeOK, Changes
<1> QED
    BY <1>1 DEF Patched, Deployments

\* Ending a call whose patch the server has accepted keeps the invariant.
LEMMA AcceptKeepsInv ==
    ASSUME ChangeInv, NEW c \in Calls, NEW admitted \in AnyImage, step[c] = "patch",
           Accept(c, admitted), NEW how \in {"succeeded", "upstream", "unknown"}, Finish(c, how)
    PROVE  ChangeInv'
<1>1. CASE change[c].dryRun
    <2>1. UNCHANGED <<deployment, latest, applied, shown, change>> /\ c \notin applied
        BY <1>1 DEF Accept, Finish, ChangeInv, ResultsComeLast
    <2>2. ChangeTypeOK' /\ VersionsAreObjects'
        BY <2>1 DEF ChangeInv, ChangeTypeOK, Finish, Steps, Results, VersionsAreObjects
    <2>3. CallsKeepVersions' /\ ResultsComeLast'
        BY <2>1 DEF ChangeInv, ChangeTypeOK, Finish, CallsKeepVersions, ResultsComeLast
    <2>4. ResultsAreTrue'
        BY <1>1, <2>1 DEF ChangeInv, ChangeTypeOK, Finish, ResultsAreTrue
    <2> QED
        BY <2>2, <2>3, <2>4 DEF ChangeInv
<1>2. CASE ~change[c].dryRun
    <2>1. Store(Patched(c, admitted)) /\ applied' = applied \cup {c} /\ UNCHANGED <<shown, change>>
        BY <1>2 DEF Accept, Finish
    <2>2. deployment' \in Deployments /\ latest' \in Nat /\ VersionsAreObjects'
        BY <2>1, PatchedType, StoreKeepsVersions DEF ChangeInv
    <2>3. ChangeTypeOK'
        BY <2>1, <2>2 DEF ChangeInv, ChangeTypeOK, Finish, Steps, Results
    <2>4. CallsKeepVersions' /\ ResultsComeLast'
        BY <2>1 DEF ChangeInv, ChangeTypeOK, Finish, CallsKeepVersions, ResultsComeLast
    <2>5. ResultsAreTrue'
        BY <1>2, <2>1 DEF ChangeInv, ChangeTypeOK, Finish, ResultsAreTrue
    <2> QED
        BY <2>2, <2>3, <2>4, <2>5 DEF ChangeInv
<1> QED
    BY <1>1, <1>2

\* The first request of an image update keeps the invariant.
LEMMA GetKeepsInv ==
    ASSUME ChangeInv, NEW c \in Calls, patchDeploymentImage(c)
    PROVE  ChangeInv'
<1>1. step[c] = "get" /\ change[c].currentImage # change[c].image
      /\ UNCHANGED <<deployment, latest, applied>>
    BY DEF patchDeploymentImage
<1>2. CASE \E how \in {"unknown", "not found", "conflict"} : Finish(c, how)
    BY <1>1, <1>2, FinishKeepsInv DEF Results
<1>3. CASE /\ deployment.version = change[c].version
           /\ deployment.image = change[c].currentImage
           /\ step' = [step EXCEPT ![c] = "patch"]
           /\ UNCHANGED <<shown, change, result>>
    <2>1. deployment # Absent
        BY <1>3 DEF ChangeInv, ChangeTypeOK, Changes, Images, Absent, NoContainer
    <2>2. deployment = shown[c]
        BY <1>1, <1>3, <2>1 DEF ChangeInv, CallsKeepVersions, VersionsAreObjects
    <2>3. ChangeTypeOK' /\ VersionsAreObjects'
        BY <1>1, <1>3 DEF ChangeInv, ChangeTypeOK, Steps, VersionsAreObjects
    <2>4. CallsKeepVersions'
        BY <1>1, <1>3, <2>2 DEF ChangeInv, ChangeTypeOK, CallsKeepVersions
    <2>5. ResultsComeLast' /\ ResultsAreTrue'
        BY <1>1, <1>3 DEF ChangeInv, ChangeTypeOK, ResultsComeLast, ResultsAreTrue
    <2> QED
        BY <2>3, <2>4, <2>5 DEF ChangeInv
<1> QED
    BY <1>2, <1>3 DEF patchDeploymentImage

\* The request with the patch keeps the invariant.
LEMMA PatchKeepsInv ==
    ASSUME ChangeInv, NEW c \in Calls, patchDeployment(c)
    PROVE  ChangeInv'
<1>1. step[c] = "patch"
    BY DEF patchDeployment
<1>2. CASE Reject(c)
    BY <1>1, <1>2, FinishKeepsInv DEF Reject, Results
<1>3. CASE Finish(c, "unknown") /\ UNCHANGED <<deployment, latest, applied>>
    BY <1>1, <1>3, FinishKeepsInv DEF Results
<1>4. ASSUME NEW admitted \in {change[c].image, "other"}, Accept(c, admitted),
             \E how \in {"succeeded", "upstream", "unknown"} : Finish(c, how)
      PROVE  ChangeInv'
    <2>1. admitted \in AnyImage
        BY <1>4 DEF ChangeInv, ChangeTypeOK, Changes, Images, AnyImage
    <2> QED
        BY <1>1, <1>4, <2>1, AcceptKeepsInv
<1> QED
    BY <1>2, <1>3, <1>4 DEF patchDeployment

\* Every request is typed and carries the version shown, so asking keeps the invariant.
LEMMA RequestsKeepInv ==
    ASSUME ChangeInv, NEW c \in Calls,
           \/ ScaleWorkload(c) \/ RestartWorkload(c)
           \/ PreviewWorkloadImage(c) \/ UpdateWorkloadImage(c)
    PROVE  ChangeInv'
<1>1. shown[c].version \in Nat
    BY DEF ChangeInv, ChangeTypeOK, Deployments
<1>2. CASE ScaleWorkload(c)
    <2>1. PICK n \in 0..2 : Ask(c, "patch", [NoChange EXCEPT !.kind = "scale",
                                   !.version = shown[c].version, !.replicas = n])
        BY <1>2 DEF ScaleWorkload
    <2> DEFINE r == [NoChange EXCEPT !.kind = "scale", !.version = shown[c].version,
                                     !.replicas = n]
    <2>2. NoChange \in Changes /\ n \in Nat
        BY DEF NoChange, Changes, Images
    <2>3. r \in Changes
        BY <1>1, <2>2 DEF Changes
    <2>4. r.version = shown[c].version /\ r.kind # "image"
        BY DEF NoChange
    <2> QED
        BY <2>1, <2>3, <2>4, AskKeepsInv
<1>3. CASE RestartWorkload(c)
    <2> DEFINE r == [NoChange EXCEPT !.kind = "restart", !.version = shown[c].version]
    <2>1. r \in Changes /\ r.version = shown[c].version /\ r.kind # "image"
        BY <1>1 DEF NoChange, Changes, Images
    <2>2. Ask(c, "patch", r)
        BY <1>3 DEF RestartWorkload
    <2> QED
        BY <2>1, <2>2, AskKeepsInv
<1>4. ASSUME NEW dryRun \in BOOLEAN, AskImage(c, dryRun) PROVE ChangeInv'
    <2>1. PICK i \in Images : Ask(c, "get", [NoChange EXCEPT !.kind = "image", !.dryRun = dryRun,
                                   !.version = shown[c].version, !.currentImage = i])
        BY <1>4 DEF AskImage
    <2> DEFINE r == [NoChange EXCEPT !.kind = "image", !.dryRun = dryRun,
                                     !.version = shown[c].version, !.currentImage = i]
    <2>2. NoChange \in Changes
        BY DEF NoChange, Changes, Images
    <2>3. r \in Changes
        BY <1>1, <1>4, <2>2 DEF Changes
    <2>4. r.version = shown[c].version
        BY DEF NoChange
    <2> QED
        BY <2>1, <2>3, <2>4, AskKeepsInv
<1> QED
    BY <1>2, <1>3, <1>4 DEF PreviewWorkloadImage, UpdateWorkloadImage

\* Every step keeps the invariant.
LEMMA NextKeepsInv == ChangeInv /\ [ChangeNext]_changeVars => ChangeInv'
<1> SUFFICES ASSUME ChangeInv, [ChangeNext]_changeVars PROVE ChangeInv'
    OBVIOUS
<1>1. CASE UNCHANGED changeVars
    BY <1>1 DEF changeVars, ChangeInv, ChangeTypeOK, VersionsAreObjects, CallsKeepVersions,
                ResultsComeLast, ResultsAreTrue
<1>2. ASSUME NEW c \in Calls, ValidateWorkloadImageChange(c) PROVE ChangeInv'
    BY <1>2, FinishKeepsInv DEF ValidateWorkloadImageChange, Results
<1>3. ASSUME NEW c \in Calls, CallStep(c) PROVE ChangeInv'
    BY <1>2, <1>3, DetailKeepsInv, RequestsKeepInv, GetKeepsInv, PatchKeepsInv DEF CallStep
<1> QED
    BY <1>1, <1>3, WritersKeepInv DEF ChangeNext

\* The invariant holds throughout.
LEMMA ChangeInvariant == ChangeSpec => []ChangeInv
    BY InitChangeInv, NextKeepsInv, PTL DEF ChangeSpec

\* What scale, restart and the image calls answer is what happened, however many calls
\* and writers there are and whichever answers are lost.
THEOREM ChangeResultsAreTrue == ChangeSpec => []ResultsAreTrue
<1>1. ChangeInv => ResultsAreTrue
    BY DEF ChangeInv
<1> QED
    BY <1>1, ChangeInvariant, PTL

\* A call whose patch is newly stored is the one whose patch request was accepted.
LEMMA StoredByAccept ==
    ASSUME ChangeInv, ChangeNext, NEW c \in Calls, c \in applied' \ applied
    PROVE  step[c] = "patch" /\ \E admitted \in {change[c].image, "other"} : Accept(c, admitted)
<1>1. PICK k \in Calls : patchDeployment(k) /\ applied' # applied
    BY DEF ChangeNext, Write, Delete, CallStep, WorkloadDetail, ScaleWorkload, RestartWorkload,
           PreviewWorkloadImage, UpdateWorkloadImage, AskImage, Ask,
           ValidateWorkloadImageChange, patchDeploymentImage
<1>2. PICK admitted \in {change[k].image, "other"} : Accept(k, admitted)
    BY <1>1 DEF patchDeployment, Reject
<1>3. applied' = applied \cup {k}
    BY <1>1, <1>2 DEF Accept
<1>4. k = c
    BY <1>3
<1> QED
    BY <1>1, <1>2, <1>4 DEF patchDeployment

\* No update of another writer is overwritten: a change of patchDeployment or
\* patchDeploymentImage is stored only on the very object its user was shown.
THEOREM ChangeUpdatesAreNotLost == ChangeSpec => UpdatesAreNotLost
<1>1. ASSUME ChangeInv, [ChangeNext]_changeVars
      PROVE  [\A c \in applied' \ applied : deployment = shown[c]]_changeVars
    <2>1. CASE UNCHANGED changeVars
        BY <2>1
    <2>2. CASE ChangeNext
        <3> SUFFICES ASSUME NEW c \in applied' \ applied PROVE deployment = shown[c]
            OBVIOUS
        <3>1. c \in Calls
            BY <1>1, NextKeepsInv DEF ChangeInv, ChangeTypeOK
        <3> QED
            BY <1>1, <2>2, <3>1, StoredByAccept, AcceptedIsShown
    <2> QED
        BY <1>1, <2>1, <2>2
<1> QED
    BY <1>1, ChangeInvariant, PTL DEF ChangeSpec, UpdatesAreNotLost

\* A call that newly succeeds is one whose patch was accepted and whose answer had the
\* image asked for.
LEMMA SucceededByAccept ==
    ASSUME ChangeInv, ChangeNext, NEW c \in Calls,
           result'[c] # result[c], result'[c] = "succeeded"
    PROVE  step[c] = "patch" /\ \E admitted \in {change[c].image, "other"} :
               Accept(c, admitted) /\ ImageIsWanted(c, admitted)
<1>1. PICK k \in Calls : CallStep(k) /\ result' # result
    BY DEF ChangeNext, Write, Delete
<1>2. PICK how : Finish(k, how)
    BY <1>1 DEF CallStep, WorkloadDetail, ScaleWorkload, RestartWorkload,
           PreviewWorkloadImage, UpdateWorkloadImage, AskImage, Ask,
           ValidateWorkloadImageChange, patchDeploymentImage, patchDeployment, Reject
<1>3. k = c
    BY <1>2 DEF Finish, ChangeInv, ChangeTypeOK
<1>4. \A how2 : Finish(c, how2) => how2 = "succeeded"
    BY DEF Finish, ChangeInv, ChangeTypeOK
<1>5. patchDeployment(c)
    BY <1>1, <1>3, <1>4 DEF CallStep, WorkloadDetail, ScaleWorkload, RestartWorkload,
           PreviewWorkloadImage, UpdateWorkloadImage, AskImage, Ask,
           ValidateWorkloadImageChange, patchDeploymentImage
<1> QED
    BY <1>4, <1>5 DEF patchDeployment, Reject

\* A successful UpdateWorkloadImage leaves the object shown, with the image asked for.
THEOREM ChangeSuccessIsTheChange == ChangeSpec => SuccessIsTheChange
<1> DEFINE Good == \A c \in Calls :
               result'[c] # result[c] /\ result'[c] = "succeeded"
               /\ change[c].kind = "image" /\ ~change[c].dryRun
               => deployment' = [shown[c] EXCEPT !.version = latest', !.image = change[c].image]
<1>1. ASSUME ChangeInv, [ChangeNext]_changeVars PROVE [Good]_changeVars
    <2> SUFFICES ASSUME ChangeNext, NEW c \in Calls,
                        result'[c] # result[c], result'[c] = "succeeded",
                        change[c].kind = "image", ~change[c].dryRun
                 PROVE  deployment' = [shown[c] EXCEPT !.version = latest', !.image = change[c].image]
        BY <1>1
    <2>1. step[c] = "patch" /\ \E a \in {change[c].image, "other"} :
               Accept(c, a) /\ ImageIsWanted(c, a)
        BY <1>1, SucceededByAccept
    <2>2. Accept(c, change[c].image)
        BY <2>1 DEF ImageIsWanted
    <2>3. deployment = shown[c] /\ deployment.image # change[c].image
        BY <1>1, <2>1, <2>2, AcceptedIsShown DEF ChangeInv, CallsKeepVersions
    <2> DEFINE d == [deployment EXCEPT !.image = change[c].image]
    <2>4. Store(d)
        BY <2>2 DEF Accept, Patched
    <2>5. deployment \in Deployments /\ latest \in Nat
        BY <1>1 DEF ChangeInv, ChangeTypeOK
    <2>6. d.image = change[c].image
        BY <2>5 DEF Deployments
    <2>7. latest' = latest + 1 /\ deployment' = [d EXCEPT !.version = latest + 1]
        BY <2>3, <2>4, <2>6 DEF Store
    <2> QED
        BY <2>3, <2>5, <2>7 DEF Deployments
<1> QED
    BY <1>1, ChangeInvariant, PTL DEF ChangeSpec, SuccessIsTheChange
=============================================================================
