----------------------------- MODULE PagedList ------------------------------
(***************************************************************************)
(* How the Kubernetes client reads a list: page after page, each page      *)
(* naming the token of the next, within limits on the pages, the objects   *)
(* and the bytes of the whole list.  Every list function of the client     *)
(* repeats this loop with limits and checks of its own, so a list function *)
(* is a record of them, and one call of one function is one behaviour.     *)
(* Bytes are counted in KiB.                                               *)
(***************************************************************************)
EXTENDS Integers, FiniteSetsExt

VARIABLES list,      \* the limits and checks of the function that is called
          kinds,     \* collections still to be read by the call
          pages,     \* pages asked for
          items,     \* objects counted against the limit
          bytes,     \* bytes counted against the limit
          phase,     \* "reading", "done" or "failed"
          served,    \* objects the server sent, kept or not
          sent,      \* bytes the server sent
          more,      \* the server has not sent everything yet
          flaws      \* what the server has done wrong

listVars == <<list, kinds, pages, items, bytes, phase, served, sent, more, flaws>>

-----------------------------------------------------------------------------
(* The list functions.  "bytes left" is checked before a page is asked     *)
(* for, "full" refuses to go on from a full list, "token" and "token again"*)
(* refuse malformed and repeated continuation tokens, "duplicate" and      *)
(* "foreign" refuse an object (or its revision) that came before, or that  *)
(* is not in the namespace asked for.  "objects only" counts the bytes of  *)
(* the objects and not those of the page around them.                      *)

List(maxPages, maxItems, maxBytes, pageBytes, checks) ==
    [maxPages |-> maxPages, maxItems |-> maxItems, maxBytes |-> maxBytes,
     pageBytes |-> pageBytes, checks |-> checks, kinds |-> 1]

Unique == {"bytes left", "token", "duplicate"}
Strict == Unique \cup {"token again"}

listRaw == List(20, 5000, 32768, 8192, {"objects only"})
Namespaces == listRaw
Nodes == listRaw
Services == listRaw
Ingresses == listRaw
\* Every kind, with limits in common; a call for one kind is one listRaw.
Workloads == [listRaw EXCEPT !.kinds = 6]
listStorageTable == List(20, 5000, 32768, 8192, {"foreign"})
listConfigurationTable == List(20, 5000, 32768, 8192, {"foreign"})
AccessResources == List(8, 2000, 16384, 8192, {"token", "foreign"})
listEventRaw == List(8, 2000, 16384, 8192, {"token"})
CustomResourceDefinitions == List(8, 2000, 16384, 8192, {"token"})
Events == [listEventRaw EXCEPT !.checks = @ \cup {"foreign"}]
listGovernanceRaw == List(4, 1000, 4096, 2048, {"token"})
governanceInNamespace == [listGovernanceRaw EXCEPT !.checks = @ \cup {"foreign"}]
listAdmissionPolicyResources == List(4, 1000, 4096, 4096, Unique)
AdmissionWebhookConfigurations == List(4, 1000, 4096, 4096, Unique)
APIServices == List(4, 1000, 4096, 4096, Unique)
CertificateSigningRequests == List(4, 1000, 4096, 4096, Strict)
CSIDrivers == List(4, 1000, 4096, 4096, Strict)
RuntimeClasses == List(4, 1000, 4096, 4096, Strict)
PriorityClasses == List(4, 1000, 4096, 4096, Strict)
CSINodes == List(4, 1000, 4096, 2048, Strict)
CSIStorageCapacities == List(4, 1000, 4096, 2048, Strict \cup {"foreign"})
VolumeAttachments == List(4, 1000, 4096, 2048, Strict)
VolumeAttributesClasses == List(4, 1000, 4096, 2048, Strict)
DeploymentRevisionHistory == List(4, 1000, 4096, 2048, Strict \cup {"foreign"})
HelmReleaseHistory == List(4, 200, 2048, 2048, Strict \cup {"foreign"})
PodSecurityAdmissionNamespaces == List(4, 1000, 4096, 2048, Strict \cup {"full"})
listNodeVersionSkewTable == List(4, 1000, 2048, 1024, Strict \cup {"full"})

Lists ==
    {Namespaces, Nodes, Services, Ingresses, Workloads, listStorageTable,
     listConfigurationTable, AccessResources, Events, CustomResourceDefinitions,
     listGovernanceRaw, governanceInNamespace,
     listAdmissionPolicyResources, AdmissionWebhookConfigurations, APIServices,
     CertificateSigningRequests, CSIDrivers, RuntimeClasses, PriorityClasses, CSINodes,
     CSIStorageCapacities, VolumeAttachments, VolumeAttributesClasses,
     DeploymentRevisionHistory, HelmReleaseHistory, PodSecurityAdmissionNamespaces,
     listNodeVersionSkewTable}

-----------------------------------------------------------------------------
\* What a server may answer with.  Sizes are quarters and halves of the limits, so
\* that a list can end below, at and above each of them.
Answers(l) ==
    [items : {0, l.maxItems \div 4, l.maxItems \div 2},
     bytes : {1, l.maxBytes \div 4, l.pageBytes, l.pageBytes + 1},
     token : {"", "next", "token", "token again"},
     object : {"", "duplicate", "foreign"}]

Checks(name) == name \in list.checks

\* The largest body that requestPayload accepts for the next page.
bodyLimit == IF Checks("bytes left") THEN Min({list.pageBytes, list.maxBytes - bytes})
                                     ELSE list.pageBytes

counted(page) == IF Checks("objects only") /\ page.items = 0 THEN 0 ELSE page.bytes

tooManyItems(page) == page.items > list.maxItems - items
tooManyBytes(page) == page.bytes > bodyLimit \/ counted(page) > list.maxBytes - bytes

\* A page is compared only with itself.
RefusedAtOnce(page) ==
    \/ tooManyItems(page)
    \/ tooManyBytes(page)
    \/ Checks(page.object) /\ pages = 0
    \/ Checks(page.token)

Refused(page) ==
    \/ tooManyItems(page)
    \/ tooManyBytes(page)
    \/ Checks(page.object)
    \/ Checks(page.token)
    \/ page.token # "" /\ Checks("full") /\ items + page.items >= list.maxItems

ListInit ==
    /\ list \in Lists
    /\ kinds = list.kinds
    /\ pages = 0 /\ items = 0 /\ bytes = 0 /\ served = 0 /\ sent = 0
    /\ phase = "reading"
    /\ more = TRUE
    /\ flaws = {}

AtPageLimit == pages >= list.maxPages
AtByteLimit == Checks("bytes left") /\ bytes >= list.maxBytes

\* Every collection starts with limits of its own.
KeepByKind(page) ==
    /\ items' = IF page.token = "" /\ kinds > 1 THEN 0 ELSE items + page.items
    /\ bytes' = IF page.token = "" /\ kinds > 1 THEN 0 ELSE bytes + counted(page)
    /\ kinds' = IF page.token = "" THEN kinds - 1 ELSE kinds
    /\ phase' = IF kinds' = 0 THEN "done" ELSE "reading"

\* A page that passes its checks is counted and kept; the one without a token ends
\* its collection, and the last collection the call.
Keep(page) ==
    /\ items' = items + page.items
    /\ bytes' = bytes + counted(page)
    /\ kinds' = IF page.token = "" THEN kinds - 1 ELSE kinds
    /\ phase' = IF kinds' = 0 THEN "done" ELSE "reading"

\* One page is asked for, arrives and is looked at.
Page(page) ==
    /\ phase = "reading" /\ ~AtPageLimit /\ ~AtByteLimit
    /\ page.object # "" => page.items > 0
    /\ page.object = "duplicate" => served + page.items > 1
    /\ page.token = "token again" => pages > 0
    /\ pages' = pages + 1
    /\ served' = served + page.items
    /\ sent' = sent + counted(page)
    /\ more' = (page.token # "" \/ kinds > 1)
    /\ flaws' = flaws \cup ({page.object, page.token} \ {"", "next"})
                      \cup (IF page.bytes > list.pageBytes THEN {"page"} ELSE {})
    /\ IF Refused(page) THEN phase' = "failed" /\ UNCHANGED <<kinds, items, bytes>>
                        ELSE Keep(page)
    /\ UNCHANGED list

\* The loop ends at the limit of pages, or with no bytes left for another.
Stop ==
    /\ phase = "reading" /\ (AtPageLimit \/ AtByteLimit)
    /\ phase' = "failed"
    /\ UNCHANGED <<list, kinds, pages, items, bytes, served, sent, more, flaws>>

\* The request fails, or its body is not the list that was asked for.
Fail ==
    /\ phase = "reading" /\ ~AtPageLimit /\ ~AtByteLimit
    /\ phase' = "failed"
    /\ pages' = pages + 1
    /\ flaws' = flaws \cup {"answer"}
    /\ UNCHANGED <<list, kinds, items, bytes, served, sent, more>>

ListNext == (\E page \in Answers(list) : Page(page)) \/ Stop \/ Fail
ListSpec == ListInit /\ [][ListNext]_listVars

-----------------------------------------------------------------------------
(* Properties *)

\* A list that is returned is the whole list: no function returns the pages it has
\* when it meets a limit or an error.  And a function that checks for objects that came
\* twice or are out of scope, or for tokens that are malformed or repeated, returns no
\* list with such a flaw in any of its pages.
ListsAreWhole == phase = "done" => ~more /\ items = served /\ flaws \cap list.checks = {}

Unseen == IF more THEN 1 ELSE 0

\* What a call asks for, and what it has accepted until it fails, stays within the
\* limits of its function over all the pages and all the collections it reads; and a
\* server that does nothing wrong and whose list fits the limits is never refused,
\* not even at the limits.
LimitsAreExact ==
    /\ pages <= list.maxPages
    /\ phase # "failed" => served <= list.maxItems /\ sent <= list.maxBytes
    /\ phase = "failed" =>
        \/ flaws # {}
        \/ served + (IF list.kinds = 1 THEN Unseen ELSE 0) > list.maxItems
        \/ sent + Unseen > list.maxBytes
        \/ pages + Unseen > list.maxPages
=============================================================================
