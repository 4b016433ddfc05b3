------------------------------- MODULE Routes -------------------------------
(***************************************************************************)
(* The routes of internal/httpapi and the reads of internal/platform, as   *)
(* tables.                                                                 *)
(*                                                                         *)
(* A handler may decode a JSON body, may parse some inputs itself, passes  *)
(* inputs on to one call of the service, and answers with a status.  A     *)
(* read of the service validates inputs, may take the target lock of a     *)
(* scan, and may audit: "always", "called" (once it has a gateway),        *)
(* "released" (always, after giving its read slot back) or "never".  It    *)
(* looks the cluster up before or after it takes the read slot, and goes   *)
(* through the panel's own gateway or through Helm.  An input is the       *)
(* parameter or the part of the body of that name; the ID of the cluster   *)
(* is not validated but looked up.                                         *)
(***************************************************************************)
EXTENDS TLC

Handler(call, passed) == [call |-> call, body |-> FALSE, parsed |-> {}, passed |-> passed, status |-> 200]
Parsing(parsed, row) == [row EXCEPT !.parsed = parsed]
Decoding(row) == [row EXCEPT !.body = TRUE]
Answering(status, row) == [row EXCEPT !.status = status]

Read(checked) == [checked |-> checked, lock |-> FALSE, audit |-> "never", lookup |-> "after", via |-> "gateway"]
Auditing(when, row) == [row EXCEPT !.audit = when]
LookingUpFirst(row) == [row EXCEPT !.lookup = "before"]

-----------------------------------------------------------------------------
\* routes: the handlers registered for POST, PATCH and DELETE; protected wraps all
\* handlers of the tables below.
Mutations ==
    { "logout", "createCluster", "patchCluster", "deleteCluster", "testCluster",
      "rotateClusterCredentials", "reviewServiceAccountAccess", "scaleWorkload", "restartWorkload",
      "previewWorkloadImage", "updateWorkloadImage", "createRepository", "patchRepository",
      "deleteRepository", "testRepository", "installHelmRelease", "upgradeHelmRelease",
      "rollbackHelmRelease", "uninstallHelmRelease", "cancelOperation" }

clusterHandlers ==
    [ currentSession           |-> Handler("principal", {}),
      logout                   |-> Answering(204, Handler("Logout", {})),
      listClusters             |-> Handler("ListClusters", {}),
      createCluster            |-> Answering(201, Decoding(Handler("CreateCluster", {"cluster"}))),
      getCluster               |-> Handler("GetCluster", {}),
      patchCluster             |-> Parsing({"enabled"}, Decoding(Handler("SetClusterEnabled", {"enabled"}))),
      deleteCluster            |-> Answering(204, Decoding(Handler("DeleteCluster", {"confirmation"}))),
      testCluster              |-> Handler("TestClusterConnection", {}),
      rotateClusterCredentials |-> Decoding(Handler("RotateClusterCredentials", {"credentials"})),
      clusterSummary           |-> Handler("Summary", {}),
      clusterCapabilities      |-> Handler("ClusterCapabilities", {"namespace"}) ]

nodeHandlers ==
    [ listNamespaces                     |-> Handler("Namespaces", {}),
      listPodSecurityAdmissionNamespaces |-> Handler("PodSecurityAdmissionNamespaces", {}),
      nodeVersionSkew                    |-> Handler("NodeVersionSkew", {}),
      listDeprecatedAPIRequests          |-> Handler("DeprecatedAPIRequests", {}),
      endpointCertificate                |-> Handler("EndpointCertificate", {}),
      apiServerReadiness                 |-> Handler("APIServerReadiness", {}),
      listDisruptionBudgetEvidence       |-> Handler("DisruptionBudgets", {}),
      listNodes                          |-> Handler("Nodes", {}),
      getNodeDetail                      |-> Handler("NodeDetail", {"name"}),
      listNodeEvents                     |-> Parsing({"limit"}, Handler("NodeEvents", {"name", "limit"})),
      listCustomResourceDefinitions      |-> Handler("CustomResourceDefinitions", {}),
      getCustomResourceDefinition        |-> Handler("CustomResourceDefinition", {"name"}),
      listCertificateSigningRequests     |-> Handler("CertificateSigningRequests", {}),
      getCertificateSigningRequest       |-> Handler("CertificateSigningRequest", {"name"}) ]

admissionHandlers ==
    [ listPriorityClasses                   |-> Handler("PriorityClasses", {}),
      getPriorityClass                      |-> Handler("PriorityClass", {"name"}),
      listRuntimeClasses                    |-> Handler("RuntimeClasses", {}),
      getRuntimeClass                       |-> Handler("RuntimeClass", {"name"}),
      listAPIServices                       |-> Handler("APIServices", {}),
      listAdmissionWebhookConfigurations    |-> Handler("AdmissionWebhookConfigurations", {"kind"}),
      getAdmissionWebhookConfiguration      |-> Handler("AdmissionWebhookConfiguration", {"kind", "name"}),
      listValidatingAdmissionPolicies       |-> Handler("ValidatingAdmissionPolicies", {}),
      getValidatingAdmissionPolicy          |-> Handler("ValidatingAdmissionPolicy", {"name"}),
      listValidatingAdmissionPolicyBindings |-> Handler("ValidatingAdmissionPolicyBindings", {}),
      getValidatingAdmissionPolicyBinding   |-> Handler("ValidatingAdmissionPolicyBinding", {"name"}),
      listEvents |-> Parsing({"limit"}, Handler("Events", {"namespace", "kind", "limit"})) ]

namespaceHandlers ==
    [ listWorkloads               |-> Handler("Workloads", {"namespace", "kind"}),
      listServices                |-> Handler("Services", {"namespace"}),
      listIngresses               |-> Handler("Ingresses", {"namespace"}),
      listEndpointSlices          |-> Handler("EndpointSlices", {"namespace"}),
      listNetworkPolicies         |-> Handler("NetworkPolicies", {"namespace"}),
      listConfigMaps              |-> Handler("ConfigMaps", {"namespace"}),
      listSecrets                 |-> Handler("Secrets", {"namespace"}),
      listPersistentVolumeClaims  |-> Handler("PersistentVolumeClaims", {"namespace"}),
      listPersistentVolumes       |-> Handler("PersistentVolumes", {}),
      listStorageClasses          |-> Handler("StorageClasses", {}),
      listVolumeAttachments       |-> Handler("VolumeAttachments", {}),
      listCSIStorageCapacities    |-> Handler("CSIStorageCapacities", {"namespace"}),
      listVolumeAttributesClasses |-> Handler("VolumeAttributesClasses", {}),
      listCSIDrivers              |-> Handler("CSIDrivers", {}),
      getCSIDriver                |-> Handler("CSIDriver", {"name"}),
      listCSINodes                |-> Handler("CSINodes", {}) ]

accessHandlers ==
    [ getCSINode                   |-> Handler("CSINode", {"name"}),
      listResourceQuotas           |-> Handler("ResourceQuotas", {"namespace"}),
      listLimitRanges              |-> Handler("LimitRanges", {"namespace"}),
      listHorizontalPodAutoscalers |-> Handler("HorizontalPodAutoscalers", {"namespace"}),
      listPodDisruptionBudgets     |-> Handler("PodDisruptionBudgets", {"namespace"}),
      listAccessResources          |-> Handler("AccessResources", {"kind", "namespace"}),
      getAccessResourceDetail      |-> Handler("AccessResourceDetail", {"kind", "namespace", "name"}),
      reviewServiceAccountAccess   |-> Decoding(Handler("ReviewServiceAccountAccess", {"review"})),
      getWorkloadDetail            |-> Handler("WorkloadDetail", {"kind", "namespace", "name"}),
      getDeploymentRevisionHistory |-> Handler("DeploymentRevisionHistory", {"kind", "namespace", "name"}) ]

workloadHandlers ==
    [ listWorkloadEvents   |-> Parsing({"limit"}, Handler("WorkloadEvents", {"kind", "namespace", "name", "limit"})),
      getPodLogs           |-> Parsing({"limit", "previous", "timestamps"},
                                       Handler("PodLogs", {"namespace", "name", "container", "limit"})),
      scaleWorkload        |-> Answering(202, Decoding(Handler("SubmitWorkloadOperation", {"change"}))),
      restartWorkload      |-> Answering(202, Decoding(Handler("SubmitWorkloadOperation", {"change"}))),
      previewWorkloadImage |-> Decoding(Handler("PreviewWorkloadImage", {"change"})),
      updateWorkloadImage  |-> Answering(202, Decoding(Handler("SubmitWorkloadImageUpdate", {"change"}))) ]

repositoryHandlers ==
    [ listRepositories      |-> Handler("ListRepositories", {}),
      createRepository      |-> Answering(201, Decoding(Handler("CreateRepository", {"repository"}))),
      patchRepository       |-> Parsing({"enabled"}, Decoding(Handler("SetRepositoryEnabled", {"enabled"}))),
      deleteRepository      |-> Answering(204, Handler("DeleteRepository", {})),
      testRepository        |-> Handler("TestRepository", {}),
      listHelmReleases      |-> Parsing({"cluster"}, Handler("ListHelmReleases", {"cluster", "namespace"})),
      getHelmReleaseHistory |-> Parsing({"cluster"}, Handler("HelmReleaseHistory", {"cluster", "namespace", "name"})) ]

operationHandlers ==
    [ installHelmRelease   |-> Answering(202, Decoding(Handler("SubmitHelmOperation", {"release"}))),
      upgradeHelmRelease   |-> Answering(202, Decoding(Handler("SubmitHelmOperation", {"release"}))),
      rollbackHelmRelease  |-> Answering(202, Decoding(Handler("SubmitHelmOperation", {"release"}))),
      uninstallHelmRelease |-> Answering(202, Decoding(Handler("SubmitHelmOperation", {"release"}))),
      listOperations       |-> Parsing({"limit"}, Handler("ListOperations", {"limit"})),
      getOperation         |-> Handler("GetOperation", {}),
      cancelOperation      |-> Decoding(Handler("CancelOperation", {"operation"})),
      listAuditEvents      |-> Parsing({"limit"}, Handler("ListAuditEvents", {"limit"})),
      systemResources      |-> Handler("OperationCapacity", {}) ]

Handlers ==
    clusterHandlers @@ nodeHandlers @@ admissionHandlers @@ namespaceHandlers
        @@ accessHandlers @@ workloadHandlers @@ repositoryHandlers @@ operationHandlers
-----------------------------------------------------------------------------
\* The reads of the service.
clusterReads ==
    [ Summary                   |-> Read({}),
      ClusterCapabilities       |-> [Read({"namespace"}) EXCEPT !.lock = TRUE],
      Namespaces                |-> Read({}),
      Nodes                     |-> Read({}),
      NodeDetail                |-> Read({"name"}),
      NodeEvents                |-> Read({"name", "limit"}),
      CustomResourceDefinitions |-> Read({}),
      CustomResourceDefinition  |-> Read({"name"}) ]

classReads ==
    [ CertificateSigningRequests |-> Read({}),
      CertificateSigningRequest  |-> Read({"name"}),
      PriorityClasses            |-> Read({}),
      PriorityClass              |-> Read({"name"}),
      RuntimeClasses             |-> Read({}),
      RuntimeClass               |-> Read({"name"}),
      APIServices                |-> Read({}) ]

admissionReads ==
    [ AdmissionWebhookConfigurations    |-> Read({"kind"}),
      AdmissionWebhookConfiguration     |-> Read({"kind", "name"}),
      ValidatingAdmissionPolicies       |-> Read({}),
      ValidatingAdmissionPolicy         |-> Read({"name"}),
      ValidatingAdmissionPolicyBindings |-> Read({}),
      ValidatingAdmissionPolicyBinding  |-> Read({"name"}),
      Events                            |-> Read({"namespace", "kind", "limit"}),
      Workloads                         |-> Read({"namespace", "kind"}) ]

\* An empty namespace stands for all of them, except for Secrets.
namespaceReads ==
    [ Services               |-> Read({"namespace"}),
      Ingresses              |-> Read({"namespace"}),
      EndpointSlices         |-> Read({"namespace"}),
      NetworkPolicies        |-> Read({"namespace"}),
      ConfigMaps             |-> Read({"namespace"}),
      Secrets                |-> Auditing("always", Read({"namespace"})),
      PersistentVolumeClaims |-> Read({"namespace"}) ]

storageReads ==
    [ PersistentVolumes       |-> Read({}),
      StorageClasses          |-> Read({}),
      VolumeAttachments       |-> Read({}),
      CSIStorageCapacities    |-> Read({"namespace"}),
      VolumeAttributesClasses |-> Read({}),
      CSIDrivers              |-> Read({}),
      CSIDriver               |-> Read({"name"}),
      CSINodes                |-> Read({}),
      CSINode                 |-> Read({"name"}) ]

governanceReads ==
    [ ResourceQuotas                 |-> Read({"namespace"}),
      PodSecurityAdmissionNamespaces |-> Read({}),
      NodeVersionSkew                |-> Read({}),
      DeprecatedAPIRequests          |-> Read({}),
      EndpointCertificate            |-> Read({}),
      APIServerReadiness             |-> Read({}),
      DisruptionBudgets              |-> Read({}),
      LimitRanges                    |-> Read({"namespace"}) ]

accessReads ==
    [ HorizontalPodAutoscalers   |-> Read({"namespace"}),
      PodDisruptionBudgets       |-> Read({"namespace"}),
      AccessResources            |-> Read({"kind", "namespace"}),
      AccessResourceDetail       |-> Read({"kind", "namespace", "name"}),
      ReviewServiceAccountAccess |-> Auditing("released", Read({"review"})) ]

workloadReadsUnchecked ==
    [ WorkloadDetail            |-> Read({"kind", "namespace", "name"}),
      DeploymentRevisionHistory |-> Read({"kind", "namespace"}),
      WorkloadEvents            |-> Read({"kind", "namespace", "name", "limit"}),
      PodLogs                   |-> Auditing("called", Read({"namespace", "name", "container", "limit"})) ]

workloadReads ==
    [ WorkloadDetail            |-> Read({"kind", "namespace", "name"}),
      DeploymentRevisionHistory |-> Read({"kind", "namespace", "name"}),
      WorkloadEvents            |-> Read({"kind", "namespace", "name", "limit"}),
      PodLogs                   |-> Auditing("called", Read({"namespace", "name", "container", "limit"})) ]

imagePreview == [ PreviewWorkloadImage |-> LookingUpFirst(Auditing("called", Read({"change"}))) ]

\* ListHelmReleases is the only read that hands an input on as it is: to Helm.
helmReads ==
    [ ListHelmReleases   |-> LookingUpFirst([Read({}) EXCEPT !.via = "helm"]),
      HelmReleaseHistory |-> LookingUpFirst(Read({"cluster", "namespace", "name"})) ]

Reads ==
    clusterReads @@ classReads @@ admissionReads @@ namespaceReads @@ storageReads
        @@ governanceReads @@ accessReads @@ workloadReads @@ imagePreview @@ helmReads
=============================================================================
