---------------------------- MODULE Projections -----------------------------
(***************************************************************************)
(* What the Kubernetes client makes of the objects it has read: the pure   *)
(* functions that cut nested lists down to limits, refuse objects beyond   *)
(* them, shorten messages and derive a status.  The variable answer is     *)
(* what a server answered with; the invariants compare the functions with  *)
(* what they are meant to compute.                                         *)
(***************************************************************************)
EXTENDS Integers, SequencesExt

CONSTANTS PerObject,     \* entries of one object that are shown
          Shared,        \* entries of all the objects of a list that are shown
          MaxObjects,    \* bound: objects in a list
          MaxValues,     \* bound: entries, characters or lines of an object
          MaxBytes,      \* bytes of a message that are shown
          Window         \* a certificate is critical from one and expiring from two

ASSUME ProjectionsAssumption ==
    PerObject \in Nat /\ Shared \in Nat /\ MaxObjects \in Nat /\ MaxValues \in Nat
    /\ MaxBytes \in Nat /\ Window \in Nat \ {0}

VARIABLE answer

Sent(about, values) == [about : {about}, value : values]

\* An object with two nested lists, as the sizes of both.
Objects == (0..(PerObject + 1)) \X (0..(PerObject + 1))

Sum(sizes) == FoldLeft(LAMBDA a, b : a + b, 0, sizes)

-----------------------------------------------------------------------------
(* Nested lists that are cut.  A list hands what is left of the limit they *)
(* share from one object to the next.                                      *)

\* What is left for the list is not looked at.
cutByObject(count, remaining) == Min({count, PerObject})

cut(count, remaining) == Min({count, PerObject, Max({0, remaining})})
Projected(count, limit) == [count |-> count, shown |-> limit, truncated |-> count > limit]

\* The keys of a quota are those of its spec and of its status together.
projectQuotaResources(object, remaining) ==
    LET keys == (1..object[1]) \cup ((PerObject + 2 - object[2])..(PerObject + 1))
    IN  Projected(Cardinality(keys), cut(Cardinality(keys), remaining))

projectQuotaScopes(object, remaining) == Projected(object[1], cut(object[1], remaining))

projectAvailabilityConditions(object, remaining) == Projected(object[1], cut(object[1], remaining))

\* The constraints of a limit range are those of its limits, one after the other.
decodeLimitRange(object, remaining) ==
    LET objectRemaining == Min({PerObject, Max({0, remaining})})
        project(shown, keys) == shown + Min({keys, objectRemaining - shown})
    IN  Projected(Sum(object), FoldLeft(project, 0, object))

Untouched == [remaining |-> Shared, results |-> <<>>]

decodeItem(done, result) ==
    [remaining |-> done.remaining - result.shown, results |-> Append(done.results, result)]

ResourceQuotas(items) ==
    FoldLeft(LAMBDA done, item : decodeItem(done, projectQuotaResources(item, done.remaining)), Untouched, items).results
QuotaScopes(items) ==
    FoldLeft(LAMBDA done, item : decodeItem(done, projectQuotaScopes(item, done.remaining)), Untouched, items).results
LimitRanges(items) ==
    FoldLeft(LAMBDA done, item : decodeItem(done, decodeLimitRange(item, done.remaining)), Untouched, items).results
HorizontalPodAutoscalers(items) ==
    FoldLeft(LAMBDA done, item : decodeItem(done, projectAvailabilityConditions(item, done.remaining)), Untouched, items).results
listPodDisruptionBudgets(items) ==
    FoldLeft(LAMBDA done, item : decodeItem(done, projectAvailabilityConditions(item, done.remaining)), Untouched, items).results

-----------------------------------------------------------------------------
(* Nested lists that are refused.                                          *)

Oversized == -1

\* Two rules, each with its peers.
decodeNetworkPolicy(object) ==
    IF object[1] > PerObject \/ object[2] > PerObject THEN Oversized ELSE 2 + object[1] + object[2]

\* Endpoints and ports.
decodeEndpointSlice(object) ==
    IF object[1] > PerObject \/ object[2] > PerObject THEN Oversized ELSE object[1] + object[2]

\* Conditions.
decodeAPIService(object) == IF object[1] > PerObject THEN Oversized ELSE object[1]

\* An object that needs more than is left fails the list.
spend(nested, remaining) ==
    IF nested = Oversized \/ nested > remaining THEN Oversized ELSE remaining - nested

Fits(sizes) ==
    FoldLeft(LAMBDA remaining, nested :
                 IF remaining = Oversized THEN Oversized ELSE spend(nested, remaining),
             Shared, sizes) # Oversized

NetworkPolicies(items) == Fits([i \in DOMAIN items |-> decodeNetworkPolicy(items[i])])
EndpointSlices(items) == Fits([i \in DOMAIN items |-> decodeEndpointSlice(items[i])])
APIServiceConditions(items) == Fits([i \in DOMAIN items |-> decodeAPIService(items[i])])

-----------------------------------------------------------------------------
(* Addresses and hosts of services and ingresses.                          *)

appendBoundedNetworkValue(shown, value) ==
    IF value = "" \/ value \in ToSet(shown.values) THEN shown
    ELSE [count |-> shown.count + 1,
          values |-> IF Len(shown.values) < PerObject THEN Append(shown.values, value)
                                                      ELSE shown.values]

NetworkValues(values) ==
    FoldLeft(appendBoundedNetworkValue, [count |-> 0, values |-> <<>>], values)

-----------------------------------------------------------------------------
(* The message of an event, a sequence of characters: a blank, "a" of one  *)
(* byte and "e" of two.                                                    *)

runeLen(c) == IF c = "e" THEN 2 ELSE 1
bytesOf(text) == Sum([i \in DOMAIN text |-> runeLen(text[i])])

writeRune(done, c) ==
    [done EXCEPT !.text = @ \o (IF done.blank THEN <<" ", c>> ELSE <<c>>), !.blank = FALSE]

addRune(done, c) ==
    LET required == runeLen(c) + (IF done.blank THEN 1 ELSE 0)
    IN  IF done.truncated THEN done
        ELSE IF c = " " THEN [done EXCEPT !.blank = done.text # <<>>]
        ELSE IF bytesOf(done.text) + required > MaxBytes THEN [done EXCEPT !.truncated = TRUE]
        ELSE writeRune(done, c)

boundedEventMessage(value) ==
    FoldLeft(addRune, [text |-> <<>>, blank |-> FALSE, truncated |-> FALSE], value)

-----------------------------------------------------------------------------
(* The verbose answer of /readyz, line by line: checks with their outcome, *)
(* one summary, and the HTTP status.                                       *)

Lines == {"passed", "failed", "+a", "-a", "+b", "-b", "other"}
NameOf(line) == IF line \in {"+a", "-a"} THEN "a" ELSE "b"

parseLine(done, line) ==
    IF ~done.valid THEN done
    ELSE IF line \in {"passed", "failed"} THEN
        [done EXCEPT !.valid = done.summary = "", !.summary = line]
    ELSE IF line = "other" \/ NameOf(line) \in done.seen THEN [done EXCEPT !.valid = FALSE]
    ELSE [done EXCEPT !.seen = @ \cup {NameOf(line)},
                      !.failures = IF line \in {"-a", "-b"} THEN @ + 1 ELSE @]

Parsed(lines) ==
    FoldLeft(parseLine, [valid |-> TRUE, seen |-> {}, failures |-> 0, summary |-> ""], lines)

parseAPIServerReadiness(lines, ok) ==
    LET p == Parsed(lines)
    IN  IF \/ ~p.valid \/ p.seen = {} \/ p.summary = ""
           \/ (p.summary = "passed") # ok
           \/ ok /\ p.failures # 0
           \/ ~ok /\ p.failures = 0
        THEN "error" ELSE IF ok THEN "ready" ELSE "not ready"

-----------------------------------------------------------------------------
(* Statuses.                                                               *)

\* Kubelets before 1.25 may be two minor versions behind, later ones three.
maximumMinorSkew(kubelet) ==
    IF kubelet.major < 1 \/ (kubelet.major = 1 /\ kubelet.minor < 25) THEN 2 ELSE 3

skewStatus(skew, maximum) ==
    CASE skew < 0 -> "newer than server"
      [] skew = 0 -> "same minor"
      [] skew \in 1..(maximum - 1) -> "within policy"
      [] skew = maximum -> "upgrade blocking"
      [] skew > maximum -> "outside policy"

classifyNodeVersionByServer(server, kubelet) ==
    IF server.major # kubelet.major THEN "major mismatch"
    ELSE skewStatus(server.minor - kubelet.minor, maximumMinorSkew(server))

classifyNodeVersion(server, kubelet) ==
    IF server.major # kubelet.major THEN "major mismatch"
    ELSE skewStatus(server.minor - kubelet.minor, maximumMinorSkew(kubelet))

\* Time is in half seconds.  Seconds are rounded up while time remains, and division
\* rounds towards zero.
statusFor(remaining) ==
    CASE remaining > 4 * Window -> "valid"
      [] remaining > 2 * Window /\ remaining <= 4 * Window -> "expiring"
      [] remaining > 0 /\ remaining <= 2 * Window -> "critical"
      [] OTHER -> "expired"

projectEndpointCertificate(remaining) ==
    [seconds |-> IF remaining > 0 THEN (remaining + 1) \div 2 ELSE -((-remaining) \div 2),
     status |-> statusFor(remaining)]

\* The conditions of a signing request and whether it has a certificate.
conditionsAreValid(conditions) ==
    /\ \A i, j \in DOMAIN conditions : conditions[i].type = conditions[j].type => i = j
    /\ \A i \in DOMAIN conditions : conditions[i].type = "Other" \/ conditions[i].status = "True"

decodeCertificateSigningRequest(conditions, issued) ==
    LET has(type) == \E i \in DOMAIN conditions : conditions[i].type = type
    IN  IF \/ ~conditionsAreValid(conditions)
           \/ has("Approved") /\ has("Denied")
           \/ issued /\ (~has("Approved") \/ has("Denied") \/ has("Failed"))
        THEN "error"
        ELSE IF has("Denied") THEN "denied"
        ELSE IF has("Failed") THEN "failed"
        ELSE IF issued THEN "issued"
        ELSE IF has("Approved") THEN "approved"
        ELSE "pending"

-----------------------------------------------------------------------------
(* What a server may answer with. *)

Versions == [major : {1, 2}, minor : 21..29]
Conditions == [type : {"Approved", "Denied", "Failed", "Other"}, status : {"True", "False"}]

ProjectionsInit ==
    \/ answer \in Sent("objects", BoundedSeq(Objects, MaxObjects))
    \/ answer \in Sent("addresses", BoundedSeq({"", "a", "b", "c", "d"}, MaxValues))
    \/ answer \in Sent("message", BoundedSeq({" ", "a", "e"}, MaxValues + 1))
    \/ answer \in Sent("readyz", BoundedSeq(Lines, 4) \X BOOLEAN)
    \/ answer \in Sent("versions", Versions \X Versions)
    \/ answer \in Sent("certificate", (-3)..(5 * Window))
    \/ answer \in Sent("request", BoundedSeq(Conditions, 3) \X BOOLEAN)

About(about) == answer.about = about

-----------------------------------------------------------------------------
(* Properties *)

Shows(results) ==
    /\ Sum([i \in DOMAIN results |-> results[i].shown])
          = Min({Shared, Sum([i \in DOMAIN results |-> Min({results[i].count, PerObject})])})
    /\ \A i \in DOMAIN results : results[i].truncated <=> results[i].shown < results[i].count

\* However a list spreads its nested entries over its objects, it shows as many as its
\* limits allow and no more, and an object says so exactly when some of its own are
\* missing (quotas and their scopes, limit ranges, autoscalers, disruption budgets).
LimitsAreShared ==
    About("objects") =>
        /\ Shows(ResourceQuotas(answer.value)) /\ Shows(QuotaScopes(answer.value))
        /\ Shows(LimitRanges(answer.value)) /\ Shows(HorizontalPodAutoscalers(answer.value))
        /\ Shows(listPodDisruptionBudgets(answer.value))

Within(decode(_), items) ==
    /\ \A i \in DOMAIN items : decode(items[i]) # Oversized
    /\ Sum([i \in DOMAIN items |-> decode(items[i])]) <= Shared

\* A list of network policies, endpoint slices or API services is refused exactly when
\* an object is beyond its own limit or all of them together are beyond theirs.
RefusalsAreExact ==
    About("objects") =>
        /\ NetworkPolicies(answer.value) <=> Within(decodeNetworkPolicy, answer.value)
        /\ EndpointSlices(answer.value) <=> Within(decodeEndpointSlice, answer.value)
        /\ APIServiceConditions(answer.value) <=> Within(decodeAPIService, answer.value)

First(values) ==
    {i \in DOMAIN values : values[i] # "" /\ \A j \in 1..(i - 1) : values[j] # values[i]}

\* The addresses shown are the first distinct ones, and the count tells whether any is
\* missing; it is the number of distinct addresses as long as none is.
AddressesAreDistinct ==
    About("addresses") =>
        LET shown == NetworkValues(answer.value)
            distinct == First(answer.value)
            kept == {i \in distinct : Cardinality({j \in distinct : j <= i}) <= PerObject}
        IN  /\ ToSet(shown.values) = {answer.value[i] : i \in kept}
            /\ Len(shown.values) = Cardinality(kept)
            /\ shown.count > PerObject <=> Cardinality(distinct) > PerObject
            /\ Cardinality(distinct) <= PerObject => shown.count = Cardinality(distinct)

Normal(text) ==
    FlattenSeq([i \in DOMAIN text |->
        IF text[i] = " " THEN <<>>
        ELSE IF i > 1 /\ text[i - 1] = " " /\ \E j \in 1..(i - 1) : text[j] # " "
        THEN <<" ", text[i]>> ELSE <<text[i]>>])

\* The message shown is the longest beginning, of the message with its blanks run
\* together, that fits; it counts as cut exactly when something is missing.
MessagesAreBounded ==
    About("message") =>
        LET shown == boundedEventMessage(answer.value)
            whole == Normal(answer.value)
            n == Len(shown.text)
        IN  /\ IsPrefix(shown.text, whole)
            /\ bytesOf(shown.text) <= MaxBytes
            /\ shown.truncated <=> shown.text # whole
            /\ shown.truncated =>
                   bytesOf(SubSeq(whole, 1, IF whole[n + 1] = " " THEN n + 2 ELSE n + 1)) > MaxBytes

\* A readiness answer is believed exactly when its lines are well formed and its checks,
\* its one summary and its HTTP status agree.
ReadinessIsConsistent ==
    About("readyz") =>
        LET lines == answer.value[1]
            ok == answer.value[2]
            checks == {i \in DOMAIN lines : lines[i] \notin {"passed", "failed", "other"}}
            failing == \E i \in checks : lines[i] \in {"-a", "-b"}
            believed == /\ "other" \notin ToSet(lines) /\ checks # {}
                        /\ Cardinality({NameOf(lines[i]) : i \in checks}) = Cardinality(checks)
                        /\ Cardinality(checks) = Len(lines) - 1
                        /\ (IF ok THEN "passed" ELSE "failed") \in ToSet(lines)
                        /\ ok <=> ~failing
        IN  parseAPIServerReadiness(lines, ok)
               = IF ~believed THEN "error" ELSE IF ok THEN "ready" ELSE "not ready"

\* A node is said to block the upgrade of the API server exactly when the next minor
\* version of the server would put the node, still inside the policy, outside of it.
UpgradeBlockingIsExact ==
    About("versions") =>
        LET server == answer.value[1]
            kubelet == answer.value[2]
            next == [server EXCEPT !.minor = @ + 1]
        IN  classifyNodeVersion(server, kubelet) = "upgrade blocking"
               <=> /\ classifyNodeVersion(next, kubelet) = "outside policy"
                   /\ classifyNodeVersion(server, kubelet) # "outside policy"

\* The status of a certificate agrees with the remaining seconds shown beside it.
CertificateMatchesSeconds ==
    About("certificate") =>
        LET shown == projectEndpointCertificate(answer.value)
        IN  shown.status = statusFor(2 * shown.seconds)

\* The state of a signing request contradicts none of its conditions, and a certificate
\* is never shown beside a request that was not approved.
RequestStateIsConsistent ==
    About("request") =>
        LET types == {answer.value[1][i].type : i \in DOMAIN answer.value[1]}
            state == decodeCertificateSigningRequest(answer.value[1], answer.value[2])
        IN  state # "error" =>
               /\ answer.value[2] <=> state = "issued"
               /\ "Denied" \in types <=> state = "denied"
               /\ state \in {"issued", "approved"} => "Approved" \in types /\ "Failed" \notin types
               /\ state = "pending" => types \subseteq {"Other"}

\* What a list or a message leaves out is what its limit says, no less and no more, and
\* the answer tells that something is missing exactly when something is.
CutsAreExact == LimitsAreShared /\ RefusalsAreExact /\ AddressesAreDistinct /\ MessagesAreBounded

\* A status that is computed from several parts of an answer contradicts none of them:
\* the readiness of the API server, the version skew of a node, the validity of a
\* certificate and the state of a signing request.
StatusesAgree ==
    /\ ReadinessIsConsistent /\ UpgradeBlockingIsExact
    /\ CertificateMatchesSeconds /\ RequestStateIsConsistent
=============================================================================
