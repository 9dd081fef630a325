--------------------------- MODULE ClusterDeletion ---------------------------
(***************************************************************************)
(* Deletion of one Cluster: the kubernetes controller's deletion pass     *)
(* (Reconcile -> reconcile -> clusterdeletion.CleanupCluster) running     *)
(* concurrently with the cloud controller's Azure CleanUpCloudProvider    *)
(* (module AzureCleanup) and with the asynchronous controllers that       *)
(* really remove load balancers, volumes and machines.                    *)
(*                                                                         *)
(* The Cluster carries a deletion timestamp from the start; it is removed *)
(* by the API server once fin is empty.  Every remote call is a step of   *)
(* its own; an error or a restart ends the pass (KubeFail, CloudFail),    *)
(* the work queue requeues the cluster after 10 seconds.                  *)
(***************************************************************************)
EXTENDS AzureCleanup

CONSTANTS
  OwnedChoices  \* the sets of Azure resources the provider may have created

ASSUME OwnedChoices \subseteq SUBSET {"SecurityGroup", "RouteTable", "Subnet",
                                      "VNet", "AvailabilitySet", "ResourceGroup"}

VARIABLES
  lbs,      \* LoadBalancer services of the user cluster: exists/deleting/gone
  pvs,      \* PersistentVolumes of the user cluster: exists/deleting/gone
  backups,  \* TRUE while EtcdBackupConfigs of the cluster exist
  kpc,      \* step of the kubernetes controller's current pass
  snap      \* the kubernetes controller's in-memory copy of the finalizers

kubeVars == <<kpc, snap>>
vars == <<fin, cloud, secret, nodes, cpc, cdel, csnap, faults,
          lbs, pvs, backups, kpc, snap>>

InClusterLBCleanupFinalizer         == "InClusterLBCleanup"
InClusterPVCleanupFinalizer         == "InClusterPVCleanup"
EtcdBackupConfigCleanupFinalizer    == "EtcdBackupConfigCleanup"
ClusterRoleBindingsCleanupFinalizer == "ClusterRoleBindingsCleanup"
CredentialsSecretsCleanupFinalizer  == "CredentialsSecretsCleanup"

InClusterFinalizers ==
  {InClusterLBCleanupFinalizer, InClusterPVCleanupFinalizer}

\* Finalizers the cluster controller puts on every cluster it provisions.
ControllerFinalizers ==
  InClusterFinalizers \cup
  {EtcdBackupConfigCleanupFinalizer, NodeDeletionFinalizer,
   ClusterRoleBindingsCleanupFinalizer, CredentialsSecretsCleanupFinalizer}

AllFinalizers == ControllerFinalizers \cup CloudResources

Lifecycle == {"exists", "deleting", "gone"}

KubeSteps == {"idle", "constraints", "inCluster", "etcd", "nodes",
              "crb", "creds"}

HasAnyFinalizer(s, F) == s \cap F /= {}
HasOnlyFinalizer(s, f) == s = {f}

(***************************************************************************)
(* Initial states: a provisioned cluster whose deletion just began.  One  *)
(* of OwnedChoices was created by the provider, each resource with        *)
(* its finalizer; the user cluster may or may not have load balancers,    *)
(* volumes, machines and backups.                                         *)
(***************************************************************************)
Init ==
  /\ \E owned \in OwnedChoices :
       /\ cloud = owned
       /\ fin = ControllerFinalizers \cup owned
  /\ secret = TRUE
  /\ nodes \in {"exists", "gone"}
  /\ lbs \in {"exists", "gone"}
  /\ pvs \in {"exists", "gone"}
  /\ backups \in BOOLEAN
  /\ cpc = 0 /\ cdel = FALSE /\ csnap = {}
  /\ kpc = "idle" /\ snap = {}
  /\ faults = 0

envVars == <<lbs, pvs, nodes, backups>>

(***************************************************************************)
(* Kubernetes controller.  KubeStart is Reconcile up to CleanupCluster:   *)
(* Get of the cluster (from the cache), reconcileClusterStatus, the       *)
(* ClusterReconcileWrapper and syncHealth; their errors are KubeFail.     *)
(***************************************************************************)
KubeStart ==
  /\ kpc = "idle"
  /\ fin /= {}
  /\ snap' = fin
  /\ kpc' = "constraints"
  /\ UNCHANGED <<fin, cloud, secret, cloudVars, faults, envVars>>

\* cleanupConstraints: deletes the OPA constraints in the cluster namespace.
KubeConstraints ==
  /\ kpc = "constraints"
  /\ kpc' = "inCluster"
  /\ UNCHANGED <<snap, fin, cloud, secret, cloudVars, faults, envVars>>

\* cleanupLBs issues a DELETE for LoadBalancer services not yet deleted,
\* cleanupVolumes for every volume still listed.
DeletesLBs(s) == InClusterLBCleanupFinalizer \in s /\ lbs = "exists"
DeletesPVs(s) == InClusterPVCleanupFinalizer \in s /\ pvs /= "gone"

\* Plausible bug: the finalizers are removed in the same pass that issued
\* the deletes, without waiting for the resources to disappear.
InClusterNoWait(s) ==
  /\ lbs' = IF DeletesLBs(s) THEN "deleting" ELSE lbs
  /\ pvs' = IF DeletesPVs(s) THEN "deleting" ELSE pvs
  /\ fin' = fin \ InClusterFinalizers
  /\ snap' = fin'

\* cleanupInClusterResources followed by the HasAnyFinalizer check of
\* CleanupCluster: a pass that deleted something, or finds load balancers
\* still present, returns and leaves both finalizers; otherwise both are
\* removed with TryRemoveFinalizer, which refreshes the copy.
InClusterCleanup(s) ==
  IF ~HasAnyFinalizer(s, InClusterFinalizers)
    THEN UNCHANGED <<lbs, pvs, fin, snap>>
  ELSE IF DeletesLBs(s) \/ DeletesPVs(s)
    THEN /\ lbs' = IF DeletesLBs(s) THEN "deleting" ELSE lbs
         /\ pvs' = IF DeletesPVs(s) THEN "deleting" ELSE pvs
         /\ UNCHANGED <<fin, snap>>
  ELSE IF lbs /= "gone"
    THEN UNCHANGED <<lbs, pvs, fin, snap>>
  ELSE /\ fin' = fin \ InClusterFinalizers
       /\ snap' = fin'
       /\ UNCHANGED <<lbs, pvs>>

\* Plausible bug: CleanupCluster goes on to the nodes without checking
\* that the in-cluster cleanup has finished.
InClusterHaltDropped(s) == TRUE

\* The HasAnyFinalizer halt of CleanupCluster after the in-cluster stage.
InClusterFinished(s) == ~HasAnyFinalizer(s, InClusterFinalizers)

KubeInCluster ==
  /\ kpc = "inCluster"
  /\ InClusterCleanup(snap)
  /\ kpc' = IF InClusterFinished(snap') THEN "etcd" ELSE "idle"
  /\ UNCHANGED <<cloud, secret, cloudVars, faults, nodes, backups>>

\* cleanupEtcdBackupConfigs: delete the backup configs, then drop the
\* finalizer.
KubeEtcd ==
  /\ kpc = "etcd"
  /\ IF EtcdBackupConfigCleanupFinalizer \in snap
       THEN /\ backups' = FALSE
            /\ fin' = fin \ {EtcdBackupConfigCleanupFinalizer}
            /\ snap' = fin'
       ELSE UNCHANGED <<backups, fin, snap>>
  /\ kpc' = "nodes"
  /\ UNCHANGED <<cloud, secret, cloudVars, faults, lbs, pvs, nodes>>

\* cleanupNodes: delete the machines; the finalizer goes only once none is
\* left.
KubeNodes ==
  /\ kpc = "nodes"
  /\ IF NodeDeletionFinalizer \in snap
       THEN CASE nodes = "exists" ->
                   nodes' = "deleting" /\ UNCHANGED <<fin, snap>>
              [] nodes = "deleting" -> UNCHANGED <<nodes, fin, snap>>
              [] nodes = "gone" ->
                   /\ fin' = fin \ {NodeDeletionFinalizer}
                   /\ snap' = fin'
                   /\ UNCHANGED nodes
       ELSE UNCHANGED <<nodes, fin, snap>>
  /\ kpc' = "crb"
  /\ UNCHANGED <<cloud, secret, cloudVars, faults, lbs, pvs, backups>>

\* cleanupClusterRoleBindings (always a TryRemoveFinalizer), then the
\* HasFinalizer(NodeDeletionFinalizer) check of CleanupCluster.
KubeClusterRoleBindings ==
  /\ kpc = "crb"
  /\ fin' = fin \ {ClusterRoleBindingsCleanupFinalizer}
  /\ snap' = fin'
  /\ kpc' = IF NodeDeletionFinalizer \in snap' THEN "idle" ELSE "creds"
  /\ UNCHANGED <<cloud, secret, cloudVars, faults, envVars>>

\* Plausible bug: the credentials are cleaned up as soon as the node
\* finalizer is gone, without waiting for the cloud finalizers.
CredentialsFirst(s) == CredentialsSecretsCleanupFinalizer \in s

\* HasOnlyFinalizer(cluster, CredentialsSecretsCleanupFinalizer).
CredentialsCleanupAllowed(s) ==
  HasOnlyFinalizer(s, CredentialsSecretsCleanupFinalizer)

\* The HasOnlyFinalizer check on the copy, then cleanUpCredentialsSecrets: delete the Secret, drop the
\* finalizer.  The pass ends; Reconcile requeues after 10 seconds.
KubeCredentials ==
  /\ kpc = "creds"
  /\ IF CredentialsCleanupAllowed(snap)
       THEN /\ secret' = FALSE
            /\ fin' = fin \ {CredentialsSecretsCleanupFinalizer}
            /\ snap' = fin'
       ELSE UNCHANGED <<secret, fin, snap>>
  /\ kpc' = "idle"
  /\ UNCHANGED <<cloud, cloudVars, faults, envVars>>

\* Any error return of the pass, or a restart of the controller.
KubeFail ==
  /\ kpc /= "idle"
  /\ faults < MaxFaults
  /\ kpc' = "idle"
  /\ faults' = faults + 1
  /\ UNCHANGED <<snap, fin, cloud, secret, cloudVars, envVars>>

KubeNext ==
  \/ KubeStart \/ KubeConstraints \/ KubeInCluster \/ KubeEtcd
  \/ KubeNodes \/ KubeClusterRoleBindings \/ KubeCredentials \/ KubeFail

(***************************************************************************)
(* Environment: the cloud-controller-manager, the volume controller and   *)
(* the machine-controller finish deletions asynchronously; an operator    *)
(* may delete an Azure resource out of band.                              *)
(***************************************************************************)
LBsRemoved ==
  /\ lbs = "deleting" /\ lbs' = "gone"
  /\ UNCHANGED <<fin, cloud, secret, nodes, cloudVars, faults, pvs,
                 backups, kubeVars>>

PVsRemoved ==
  /\ pvs = "deleting" /\ pvs' = "gone"
  /\ UNCHANGED <<fin, cloud, secret, nodes, cloudVars, faults, lbs,
                 backups, kubeVars>>

MachinesRemoved ==
  /\ nodes = "deleting" /\ nodes' = "gone"
  /\ UNCHANGED <<fin, cloud, secret, cloudVars, faults, lbs, pvs,
                 backups, kubeVars>>

DeletedOutOfBand ==
  /\ \E r \in cloud : cloud' = cloud \ {r}
  /\ UNCHANGED <<fin, secret, nodes, cloudVars, faults, lbs, pvs,
                 backups, kubeVars>>

EnvNext == LBsRemoved \/ PVsRemoved \/ MachinesRemoved \/ DeletedOutOfBand

\* The API server has removed the object; nothing is left to do.
Removed == fin = {} /\ UNCHANGED vars

\* A step of the cloud controller leaves the user cluster and the
\* kubernetes controller alone.
CloudStep(A) == A /\ UNCHANGED <<lbs, pvs, backups, kubeVars>>

Next ==
  KubeNext \/ CloudStep(CloudNext) \/ EnvNext \/ Removed

(***************************************************************************)
(* Fairness.  Reconcile always returns RequeueAfter 10s while the cluster *)
(* is deleting, and the cloud controller is requeued on error, so both    *)
(* passes are retried for ever: weak fairness on each step.  The          *)
(* asynchronous controllers eventually finish a deletion they started.    *)
(* Errors and restarts get no fairness; they are bounded by MaxFaults.    *)
(***************************************************************************)
Fairness ==
  /\ WF_vars(KubeStart) /\ WF_vars(KubeConstraints) /\ WF_vars(KubeInCluster)
  /\ WF_vars(KubeEtcd) /\ WF_vars(KubeNodes)
  /\ WF_vars(KubeClusterRoleBindings) /\ WF_vars(KubeCredentials)
  /\ WF_vars(CloudStep(CloudStart)) /\ WF_vars(CloudStep(CloudDelete))
  /\ WF_vars(CloudStep(CloudRemoveFinalizer))
  /\ WF_vars(LBsRemoved) /\ WF_vars(PVsRemoved) /\ WF_vars(MachinesRemoved)

Spec == Init /\ [][Next]_vars /\ Fairness

(***************************************************************************)
(* Properties                                                              *)
(***************************************************************************)
TypeOK ==
  /\ fin \subseteq AllFinalizers
  /\ cloud \subseteq CloudResources
  /\ secret \in BOOLEAN
  /\ nodes \in Lifecycle /\ lbs \in Lifecycle /\ pvs \in Lifecycle
  /\ backups \in BOOLEAN
  /\ cpc \in 0..Len(CleanupOrder) /\ cdel \in BOOLEAN
  /\ csnap \subseteq AllFinalizers /\ snap \subseteq AllFinalizers
  /\ kpc \in KubeSteps
  /\ faults \in 0..MaxFaults

\* No orphaned resource: a finalizer is gone only once what it guards is
\* gone, whichever order the two controllers' passes, their crashes and
\* the out-of-band deletes take (CleanupCluster, CleanUpCloudProvider).
NoOrphanedResources ==
  /\ InClusterLBCleanupFinalizer \notin fin => lbs = "gone"
  /\ InClusterPVCleanupFinalizer \notin fin => pvs = "gone"
  /\ EtcdBackupConfigCleanupFinalizer \notin fin => ~backups
  /\ NodeDeletionFinalizer \notin fin => nodes = "gone"
  /\ \A r \in CloudResources : r \notin fin => r \notin cloud

\* The credentials Secret outlives every cloud finalizer: the provider
\* needs it to authenticate its deletes (CleanupCluster's
\* HasOnlyFinalizer check racing the cloud controller's passes).
CredentialsOutliveCloudCleanup ==
  ~secret => fin \cap CloudResources = {}

\* Machines are torn down only once the user cluster's load balancers and
\* volumes are really gone, so the controllers cleaning them up inside the
\* user cluster never lose their nodes (the HasAnyFinalizer halt of
\* CleanupCluster, evaluated on a copy that may be stale).
NodesAfterInClusterCleanup ==
  nodes = "deleting" => lbs = "gone" /\ pvs = "gone"

(***************************************************************************)
(* Refinement: the two controllers together implement DeletionOrder.  The *)
(* stages of CleanupCluster give the dependencies: everything after the   *)
(* in-cluster halt waits for the in-cluster finalizers, the cloud         *)
(* cleanup waits for the node finalizer, the credentials wait for all.    *)
(***************************************************************************)
DeletionPrereq ==
  [f \in AllFinalizers |->
     CASE f \in InClusterFinalizers -> {}
       [] f \in {EtcdBackupConfigCleanupFinalizer, NodeDeletionFinalizer,
                 ClusterRoleBindingsCleanupFinalizer} -> InClusterFinalizers
       [] f \in CloudResources -> {NodeDeletionFinalizer}
       [] f = CredentialsSecretsCleanupFinalizer ->
              AllFinalizers \ {CredentialsSecretsCleanupFinalizer}]

Order == INSTANCE DeletionOrder
           WITH Finalizers <- AllFinalizers, Prereq <- DeletionPrereq

\* Every interleaving of the kubernetes controller's passes, the cloud
\* controller's passes, errors, restarts and out-of-band deletes removes
\* finalizers only in stage order, and the cluster is eventually removed.
ImplementsDeletionOrder == Order!Spec

=============================================================================
