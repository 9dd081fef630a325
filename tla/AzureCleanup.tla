---------------------------- MODULE AzureCleanup ----------------------------
(***************************************************************************)
(* The Azure provider's CleanUpCloudProvider (pkg/provider/cloud/azure/   *)
(* provider.go), run by the seed's cloud controller once a Cluster is     *)
(* being deleted.  For each cloud finalizer, in a fixed order, it deletes *)
(* the remote resource (a 404 counts as success) and then removes exactly *)
(* that finalizer through the ClusterUpdater, which does a fresh          *)
(* read-modify-write of the Cluster and returns the updated object.       *)
(*                                                                         *)
(* A pass is split at every remote call so that crashes, errors and the   *)
(* other controllers' steps interleave between the delete and the         *)
(* finalizer update.                                                       *)
(***************************************************************************)
EXTENDS Naturals, Sequences, FiniteSets

CONSTANTS
  MaxFaults   \* bound on transient errors and controller restarts

ASSUME MaxFaults \in Nat

VARIABLES
  fin,     \* finalizers of the Cluster object in the seed API server
  cloud,   \* Azure resources of the cluster that still exist remotely
  secret,  \* TRUE while the credentials Secret of the cluster exists
  nodes,   \* worker machines: "exists", "deleting" or "gone"
  cpc,     \* cloud controller: 0 when idle, else index into CleanupOrder
  cdel,    \* TRUE when the remote delete of CleanupOrder[cpc] returned
  csnap,   \* the cloud controller's in-memory copy of the finalizers
  faults   \* transient errors and restarts so far

cloudVars == <<cpc, cdel, csnap>>

\* The finalizers name the resources they guard; each Azure finalizer is
\* identified with its resource (FinalizerSecurityGroup, ...).
SecurityGroup   == "SecurityGroup"
RouteTable      == "RouteTable"
Subnet          == "Subnet"
VNet            == "VNet"
AvailabilitySet == "AvailabilitySet"
ResourceGroup   == "ResourceGroup"

\* The order of the if-blocks of CleanUpCloudProvider.
CleanupOrder ==
  <<SecurityGroup, RouteTable, Subnet, VNet, AvailabilitySet, ResourceGroup>>

CloudResources == {CleanupOrder[i] : i \in 1..Len(CleanupOrder)}

NodeDeletionFinalizer == "NodeDeletion"

\* Index of the block that follows block i, 0 once the pass is over.
NextBlock(i) == IF i = Len(CleanupOrder) THEN 0 ELSE i + 1

(***************************************************************************)
(* The cloud controller only calls CleanUpCloudProvider for a cluster     *)
(* that is being deleted and no longer carries the node-deletion          *)
(* finalizer.  The provider first resolves the credentials, which fails   *)
(* once the credentials Secret is gone.                                    *)
(***************************************************************************)
\* Plausible bug: the cloud controller does not wait for the machines.
CloudCleanupIgnoringNodes(f) == TRUE

\* The cloud controller's gate: no cloud cleanup while nodes may exist.
CloudCleanupAllowed(f) == NodeDeletionFinalizer \notin f

CloudStart ==
  /\ cpc = 0
  /\ fin /= {}
  /\ CloudCleanupAllowed(fin)
  /\ secret
  /\ cpc' = 1
  /\ csnap' = fin
  /\ UNCHANGED <<cdel, fin, cloud, secret, nodes, faults>>

\* HasFinalizer on the copy; the delete of an absent resource returns 404,
\* which is tolerated; a block whose finalizer is absent is skipped.
CloudDelete ==
  /\ cpc /= 0
  /\ ~cdel
  /\ LET r == CleanupOrder[cpc] IN
       IF r \in csnap
         THEN /\ cloud' = cloud \ {r}
              /\ cdel' = TRUE
              /\ UNCHANGED cpc
         ELSE /\ cpc' = NextBlock(cpc)
              /\ UNCHANGED <<cdel, cloud>>
  /\ UNCHANGED <<csnap, fin, secret, nodes, faults>>

\* Plausible bug: the pass advances past the last block instead of ending.
CloudRemoveFinalizerPastEnd ==
  /\ cpc /= 0
  /\ cdel
  /\ fin' = fin \ {CleanupOrder[cpc]}
  /\ csnap' = fin'
  /\ cdel' = FALSE
  /\ cpc' = cpc + 1
  /\ UNCHANGED <<cloud, secret, nodes, faults>>

\* update(ctx, cluster.Name, RemoveFinalizer(...)): the finalizer is removed
\* from the fresh object and the returned object replaces the copy.
CloudRemoveFinalizer ==
  /\ cpc /= 0
  /\ cdel
  /\ fin' = fin \ {CleanupOrder[cpc]}
  /\ csnap' = fin'
  /\ cdel' = FALSE
  /\ cpc' = NextBlock(cpc)
  /\ UNCHANGED <<cloud, secret, nodes, faults>>

\* A non-404 error of a delete, an error of the update, or a restart of the
\* controller: the pass ends and the remaining finalizers stay.
CloudFail ==
  /\ cpc /= 0
  /\ faults < MaxFaults
  /\ cpc' = 0
  /\ cdel' = FALSE
  /\ faults' = faults + 1
  /\ UNCHANGED <<csnap, fin, cloud, secret, nodes>>

CloudNext == CloudStart \/ CloudDelete \/ CloudRemoveFinalizer \/ CloudFail

=============================================================================
