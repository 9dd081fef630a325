--------------------------- MODULE AzureProvision ---------------------------
(***************************************************************************)
(* The seed's cloud controller for one Azure cluster: while the Cluster   *)
(* lives, it calls InitializeCloudProvider (force = FALSE) or             *)
(* ReconcileCluster (force = TRUE), i.e. reconcileCluster (provider.go);  *)
(* once the Cluster is deleted it calls CleanUpCloudProvider, taken from  *)
(* AzureCleanup.  Both run for the same key, so never at the same time.   *)
(*                                                                         *)
(* A block of reconcileCluster calls a reconcile* helper that is not in   *)
(* this repository; it is modelled from spec 4.2: the remote resource is  *)
(* created (or an existing one the cluster does not own is adopted), and  *)
(* then, through the ClusterUpdater, its name is persisted together with  *)
(* its cleanup finalizer.  Every update of the Cluster passes the         *)
(* admission webhook's ValidateCloudSpecUpdate, and users edit the cloud  *)
(* spec through it as well.                                                *)
(*                                                                         *)
(* Between two passes the controller also calls AddICMPRulesIfRequired    *)
(* (module AzureICMPRules) on the security group the cloud spec names;    *)
(* the group carries the cluster's tag when the cluster created it, i.e.  *)
(* when its name is the generated one.  The seed's resource reconciler    *)
(* renders the cloud-config from the same Cluster (configmap.go).         *)
(***************************************************************************)
EXTENDS Naturals, Sequences, FiniteSets

CONSTANTS
  Fields,     \* the resources whose name the cluster may leave empty
  MaxFaults,  \* bound on failed calls and controller restarts
  MaxEdits,   \* bound on edits by others: the cloud spec, the group's rules
  ForeignRules  \* rules the cloud controller manager adds to the group

VARIABLES
  spec,      \* the cloud spec's name of each resource: "", Gen or User
  fin,       \* the Cluster's cloud cleanup finalizers
  cloud,     \* resources the cluster owns that exist in Azure
  deleting,  \* the Cluster has a deletion timestamp
  assignAS,  \* AssignAvailabilitySet is nil or true
  pc,        \* reconcileCluster: "idle", "block" or "persist"
  i,         \* index of the current block in ReconcileOrder
  snap,      \* the spec of the Cluster object the pass holds
  force,     \* the force argument of the current pass
  cpc, cdel, csnap,  \* CleanUpCloudProvider, see AzureCleanup
  faults,    \* failures so far
  edits,     \* edits by users so far
  secret,    \* the credentials Secret exists (removed only after the
             \* cloud cleanup, see ClusterDeletion)
  nodes,     \* the machines are gone before the cloud cleanup starts
  ccfg,      \* the names in the cloud-config ConfigMap, or NoConfig
  rules,     \* the rules of the cluster's own security group in Azure
  ipc,       \* step of AddICMPRulesIfRequired: "idle", "get" or "write"
  ird        \* the rules its Get returned

AC == INSTANCE AzureCleanup

Gen == "generated"   \* the name the helper derives from the cluster name
User == "user"       \* a pre-provisioned resource the user names

\* The name is set, and the group is the cluster's own, tagged.
IC == INSTANCE AzureICMPRules
        WITH sgName <- spec[AC!SecurityGroup] /= "",
             owned <- spec[AC!SecurityGroup] = Gen,
             pc <- ipc, rd <- ird

provVars == <<spec, assignAS, pc, i, snap, force>>
icmpVars == <<rules, ipc, ird>>
vars == <<provVars, fin, cloud, deleting, cpc, cdel, csnap, faults, edits,
         secret, nodes, ccfg, icmpVars>>

Names == {"", Gen, User}
NoConfig == <<>>     \* the ConfigMap was not rendered yet

\* The blocks of reconcileCluster, in their order.
ReconcileOrder ==
  <<AC!ResourceGroup, AC!VNet, AC!Subnet, AC!RouteTable, AC!SecurityGroup,
    AC!AvailabilitySet>>

Resources == AC!CloudResources

ASSUME Fields \subseteq Resources /\ MaxFaults \in Nat /\ MaxEdits \in Nat

(***************************************************************************)
(* A new cluster: names outside Fields are given by the user, those in    *)
(* Fields may be given or left empty for the provider to fill in.         *)
(***************************************************************************)
Init ==
  /\ spec \in {s \in [Resources -> {"", User}] :
                 \A r \in Resources \ Fields : s[r] = User}
  /\ fin = {} /\ cloud = {} /\ deleting = FALSE
  /\ assignAS \in BOOLEAN
  /\ pc = "idle" /\ i = 1 /\ snap = spec /\ force = FALSE
  /\ cpc = 0 /\ cdel = FALSE /\ csnap = {}
  /\ faults = 0 /\ edits = 0
  /\ secret = TRUE /\ nodes = "gone"
  /\ ccfg = NoConfig
  \* the rules reconcileSecurityGroup will create the group with: the
  \* baseline, or an older version's without the ICMP rule
  /\ rules \in {IC!Baseline, IC!Baseline \ {IC!AllowAllICMP}}
  /\ ipc = "idle" /\ ird = {}

(***************************************************************************)
(* The admission checks.                                                   *)
(***************************************************************************)
\* ValidateCloudSpecUpdate: a name that was set may not change.
ValidateCloudSpecUpdate(old, new) ==
  \A r \in Resources : old[r] /= "" => new[r] = old[r]

\* ValidateCloudSpec: a Get of every resource the spec names, the
\* availability set excepted; pre-provisioned ones exist, the cluster's own
\* may have been deleted in Azure.
ValidateCloudSpec(s) ==
  \A r \in Resources \ {AC!AvailabilitySet} : s[r] = Gen => r \in cloud

(***************************************************************************)
(* reconcileCluster                                                        *)
(***************************************************************************)
\* Plausible bug: force is ignored, so a block runs only for an empty name
\* and a resource whose name is persisted is never re-created.
BlockRunsUnforced(f) == snap[f] = "" /\ (f /= AC!AvailabilitySet \/ assignAS)

\* force || name == "", and for the availability set AssignAvailabilitySet.
BlockRuns(f) ==
  /\ force \/ snap[f] = ""
  /\ f /= AC!AvailabilitySet \/ assignAS

Advance ==
  IF i = Len(ReconcileOrder)
    THEN pc' = "idle" /\ i' = 1
    ELSE pc' = "block" /\ i' = i + 1

\* The cloud controller calls InitializeCloudProvider or ReconcileCluster
\* for a Cluster that is not being deleted.
ProvStart(b) ==
  /\ pc = "idle" /\ ipc = "idle" /\ cpc = 0 /\ ~deleting
  /\ pc' = "block" /\ i' = 1 /\ snap' = spec /\ force' = b
  /\ UNCHANGED <<spec, assignAS, fin, cloud, deleting, cpc, cdel, csnap,
                 faults, edits, secret, nodes, ccfg, icmpVars>>

\* One block: skipped, adopting a resource the user named, or creating
\* the resource under the name the helper derives.
Block ==
  /\ pc = "block"
  /\ LET f == ReconcileOrder[i] IN
       IF BlockRuns(f) /\ snap[f] /= User
         THEN cloud' = cloud \cup {f} /\ pc' = "persist" /\ UNCHANGED i
         ELSE Advance /\ UNCHANGED cloud
  /\ UNCHANGED <<spec, assignAS, snap, force, fin, deleting, cpc, cdel,
                 csnap, faults, edits, secret, nodes, ccfg, icmpVars>>

\* update(ctx, cluster.Name, set the name, AddFinalizer): the webhook
\* refuses a changed name, and the API server a new finalizer on a
\* Cluster that is being deleted; the pass then ends with the error.
Persist ==
  /\ pc = "persist"
  /\ LET f == ReconcileOrder[i]
         new == [spec EXCEPT ![f] = Gen]
     IN IF ValidateCloudSpecUpdate(spec, new) /\ (deleting => f \in fin)
          THEN /\ spec' = new /\ snap' = new
               /\ fin' = fin \cup {f}
               /\ Advance
          ELSE /\ pc' = "idle" /\ i' = 1
               /\ UNCHANGED <<spec, snap, fin>>
  /\ UNCHANGED <<assignAS, force, cloud, deleting, cpc, cdel, csnap,
                 faults, edits, secret, nodes, ccfg, icmpVars>>

\* An error of the credentials, of a remote call, or a restart.
ProvFail ==
  /\ pc /= "idle" /\ faults < MaxFaults
  /\ pc' = "idle" /\ i' = 1 /\ faults' = faults + 1
  /\ UNCHANGED <<spec, assignAS, snap, force, fin, cloud, deleting, cpc,
                 cdel, csnap, edits, secret, nodes, ccfg, icmpVars>>

\* A CleanUpCloudProvider step, once the Cluster is being deleted.
Cleanup(A) ==
  /\ deleting /\ pc = "idle" /\ ipc = "idle" /\ A
  /\ UNCHANGED <<provVars, deleting, edits, ccfg, icmpVars>>

\* A step of AddICMPRulesIfRequired; a call starts between two passes for
\* a Cluster that is not being deleted.
Icmp(A) ==
  /\ ipc = "idle" => pc = "idle" /\ ~deleting
  /\ UNCHANGED <<provVars, fin, cloud, deleting, cpc, cdel, csnap, secret,
                 nodes, ccfg>>
  /\ A

(***************************************************************************)
(* Environment                                                             *)
(***************************************************************************)
\* A user deletes the Cluster.
Delete ==
  /\ ~deleting
  /\ deleting' = TRUE
  /\ UNCHANGED <<provVars, fin, cloud, cpc, cdel, csnap, faults, edits,
                 secret, nodes, ccfg, icmpVars>>

\* A resource the cluster created is deleted in Azure by someone else; a
\* delete of the security group would also take its rules, which the
\* ICMP part follows only for a live group, so it is left out.
CloudLost(f) ==
  /\ f \in cloud /\ f /= AC!SecurityGroup /\ edits < MaxEdits
  /\ cloud' = cloud \ {f} /\ edits' = edits + 1
  /\ UNCHANGED <<provVars, fin, deleting, cpc, cdel, csnap, faults, secret,
                 nodes, ccfg, icmpVars>>

\* A user names a pre-provisioned resource in the cloud spec; the webhook
\* runs both checks.
UserEdit(f) ==
  /\ ~deleting /\ edits < MaxEdits
  /\ LET new == [spec EXCEPT ![f] = User] IN
       /\ new /= spec
       /\ ValidateCloudSpecUpdate(spec, new) /\ ValidateCloudSpec(new)
       /\ spec' = new
  /\ edits' = edits + 1
  /\ UNCHANGED <<assignAS, pc, i, snap, force, fin, cloud, deleting, cpc,
                 cdel, csnap, faults, secret, nodes, ccfg, icmpVars>>

\* The cloud controller manager or an administrator writes the rules of the
\* cluster's security group while it exists.
GroupEdit(A) ==
  /\ AC!SecurityGroup \in cloud
  /\ UNCHANGED <<provVars, fin, cloud, deleting, cpc, cdel, csnap, faults,
                 secret, nodes, ccfg, ipc, ird>>
  /\ A

(***************************************************************************)
(* The cloud-config (cloudconfig/configmap.go), rendered by the seed's    *)
(* resource reconciler from the Cluster it was triggered for.             *)
(***************************************************************************)
\* CloudConfig's Azure branch: each name of the cloud spec goes to its field
\* (ResourceGroup, VNetName, SubnetName, RouteTableName,
\* SecurityGroupName, PrimaryAvailabilitySetName), empty ones included.
CloudConfig(s) == [r \in Resources |-> s[r]]

\* ConfigMapCreator: GetCredentials (the Secret exists while the Cluster
\* lives), then CloudConfig, written to the ConfigMap.
RenderCloudConfig ==
  /\ ~deleting /\ secret
  /\ ccfg' = CloudConfig(spec)
  /\ UNCHANGED <<provVars, fin, cloud, deleting, cpc, cdel, csnap, faults,
                 edits, secret, nodes, icmpVars>>

Provision == Block \/ Persist

Next ==
  \/ \E b \in BOOLEAN : ProvStart(b)
  \/ Provision \/ ProvFail
  \/ Cleanup(AC!CloudStart) \/ Cleanup(AC!CloudDelete)
  \/ Cleanup(AC!CloudRemoveFinalizer) \/ Cleanup(AC!CloudFail)
  \/ Delete \/ \E f \in Fields : UserEdit(f)
  \/ \E f \in Resources : CloudLost(f)
  \/ RenderCloudConfig
  \/ Icmp(IC!ICMPStart) \/ Icmp(IC!ICMPGet) \/ Icmp(IC!ICMPWrite)
  \/ Icmp(IC!ICMPFail)
  \/ \E r \in ForeignRules : GroupEdit(IC!AddForeign(r))
  \/ \E r \in ForeignRules \cup IC!Baseline : GroupEdit(IC!RemoveRule(r))

(***************************************************************************)
(* The cloud controller requeues the Cluster after every error and        *)
(* resyncs it periodically, so it keeps calling the provider; the seed's *)
(* resource reconciler watches the Cluster and re-renders on a change.    *)
(* Every reconcile of a live Cluster makes both calls, the ICMP rules and *)
(* the provider pass, one after the other; split into steps here, each   *)
(* start is disabled while the other call runs, so it is strongly fair:  *)
(* neither call can be skipped forever.  The fair pass is the forced one: *)
(* InitializeCloudProvider runs for a new cluster, ReconcileCluster is    *)
(* the steady-state convergence the periodic resync keeps calling.        *)
(***************************************************************************)
Fairness ==
  /\ SF_vars(ProvStart(TRUE)) /\ WF_vars(Provision)
  /\ WF_vars(Cleanup(AC!CloudStart)) /\ WF_vars(Cleanup(AC!CloudDelete))
  /\ WF_vars(Cleanup(AC!CloudRemoveFinalizer))
  /\ WF_vars(RenderCloudConfig)
  /\ SF_vars(Icmp(IC!ICMPStart)) /\ WF_vars(Icmp(IC!ICMPGet))
  /\ WF_vars(Icmp(IC!ICMPWrite))

Spec == Init /\ [][Next]_vars /\ Fairness

(***************************************************************************)
(* Properties                                                              *)
(***************************************************************************)
\* The resources the cluster's blocks are responsible for.
Managed == {f \in Resources : f /= AC!AvailabilitySet \/ assignAS}

\* A live cluster ends up with every managed resource named, and every
\* resource named with the generated name existing in Azure, whatever
\* crashes fell between a create and its update and although someone
\* deleted one of them in Azure after its name was persisted: the name is
\* then set, so only a forced pass (reconcileCluster's force || name == ""
\* guards) re-creates it.  A resource created and then named by a user is
\* not covered (see the README).
Provisioned ==
  <>[](~deleting =>
         \A f \in Managed : spec[f] /= "" /\ (spec[f] = Gen => f \in cloud))

\* The security group a live cluster created ends up with all three
\* baseline rules for good, although it may have been created without the
\* ICMP rule by an older version and others delete and add rules: the
\* AddICMPRulesIfRequired calls between the passes re-add what is missing
\* once reconcileCluster has persisted the group's name.
BaselineKept ==
  <>[](~deleting /\ spec[AC!SecurityGroup] = Gen => IC!Baseline \subseteq rules)

=============================================================================
