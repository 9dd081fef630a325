------------------------------ MODULE VCDVApp ------------------------------
(***************************************************************************)
(* The VMware Cloud Director provider's vApp reconciliation               *)
(* (reconcileVApp, then reconcileNetwork, in storage.go), run on every    *)
(* reconcile of a cluster.  Each call to VCD or to the seed API server is *)
(* a step of its own, so a controller crash can fall between creating the *)
(* vApp and persisting its name in the cluster spec.                      *)
(***************************************************************************)
EXTENDS Naturals

CONSTANTS
  DefaultName,  \* fmt.Sprintf(resourceNamePattern, cluster.Name)
  CustomName,   \* a vApp name the user put into the cloud spec
  NoName,       \* the empty string of an unset VApp field
  MaxCrashes    \* bound on controller crashes

ASSUME NoName \notin {DefaultName, CustomName} /\ MaxCrashes \in Nat

VARIABLES
  specVApp,  \* cluster.Spec.Cloud.VMwareCloudDirector.VApp in the seed
  fin,       \* TRUE once the vApp finalizer is on the cluster
  vapps,     \* names of the vApps that exist in the VDC
  attached,  \* TRUE once the OVDC network is attached to the cluster's vApp
  pc,        \* step of the current reconcile pass
  crashes    \* crashes so far

vars == <<specVApp, fin, vapps, attached, pc, crashes>>

Steps == {"idle", "get", "create", "persist", "network"}

\* The vApp name the pass works with: the spec's, or the default if unset.
VAppName == IF specVApp = NoName THEN DefaultName ELSE specVApp

(***************************************************************************)
(* A new cluster: either nothing set and no vApp yet, or the user named a *)
(* vApp that exists in the VDC.                                           *)
(***************************************************************************)
Init ==
  /\ \/ specVApp = NoName /\ vapps = {}
     \/ specVApp = CustomName /\ vapps = {CustomName}
  /\ fin = FALSE
  /\ attached = FALSE
  /\ pc = "idle"
  /\ crashes = 0

\* Ensure that the finalizer exists (an update of the seed object).
EnsureFinalizer ==
  /\ pc = "idle"
  /\ fin' = TRUE
  /\ pc' = "get"
  /\ UNCHANGED <<specVApp, vapps, attached, crashes>>

\* GetVAppByNameOrId: a vApp that exists ends reconcileVApp and the
\* cluster is returned unchanged; ErrorEntityNotFound leads to creation.
GetVApp ==
  /\ pc = "get"
  /\ pc' = IF VAppName \in vapps THEN "network" ELSE "create"
  /\ UNCHANGED <<specVApp, fin, vapps, attached, crashes>>

\* CreateRawVApp.
CreateVApp ==
  /\ pc = "create"
  /\ vapps' = vapps \cup {VAppName}
  /\ pc' = "persist"
  /\ UNCHANGED <<specVApp, fin, attached, crashes>>

\* update(...): persist the vApp name into the cluster spec.
PersistVApp ==
  /\ pc = "persist"
  /\ specVApp' = VAppName
  /\ pc' = "network"
  /\ UNCHANGED <<fin, vapps, attached, crashes>>

\* reconcileNetwork: GetVAppByNameOrId of the name in the spec, an error
\* when there is no such vApp; otherwise attach the network if needed.
ReconcileNetwork ==
  /\ pc = "network"
  /\ attached' = (attached \/ specVApp \in vapps)
  /\ pc' = "idle"
  /\ UNCHANGED <<specVApp, fin, vapps, crashes>>

\* The controller crashes or is restarted in the middle of a pass.
Crash ==
  /\ pc /= "idle"
  /\ crashes < MaxCrashes
  /\ pc' = "idle"
  /\ crashes' = crashes + 1
  /\ UNCHANGED <<specVApp, fin, vapps, attached>>

Next ==
  \/ EnsureFinalizer \/ GetVApp \/ CreateVApp \/ PersistVApp
  \/ ReconcileNetwork \/ Crash

\* The cluster is requeued after every pass and every error.
Fairness ==
  /\ WF_vars(EnsureFinalizer) /\ WF_vars(GetVApp) /\ WF_vars(CreateVApp)
  /\ WF_vars(PersistVApp) /\ WF_vars(ReconcileNetwork)

Spec == Init /\ [][Next]_vars /\ Fairness

\* Spec 4.2: identifiers are persisted right after the resource is
\* confirmed to exist, so after any crash reconciliation resumes and the
\* cluster's vApp eventually gets its network (reconcileVApp's found
\* branch followed by reconcileNetwork).
NetworkEventuallyAttached == <>attached

=============================================================================
