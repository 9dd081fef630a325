-------------------------- MODULE AddonReconciler --------------------------
(***************************************************************************)
(* The seed's addon controller (Reconcile and reconcile, part_008) for one *)
(* Addon of one user cluster.  A pass reads the Addon and the Cluster, then *)
(* either cleans up (kubectl delete, then the finalizer goes) or installs  *)
(* (kubectl apply, then TryAddFinalizer, then the ResourcesCreated        *)
(* condition).  Each kubectl run and each write of the Addon is a step, so *)
(* a deletion of the Addon or a crash can fall between them.              *)
(***************************************************************************)
EXTENDS Naturals

CONSTANTS
  MaxFaults,        \* bound on failed commands, failed writes and crashes
  MaxEdits,         \* bound on deletions of the addon's resources by users
  MaxTypeRemovals,  \* bound on required resource types ceasing to be served
  TypesReturn       \* a required type that was removed is served again

ASSUME MaxFaults \in Nat /\ MaxEdits \in Nat /\ MaxTypeRemovals \in Nat
       /\ TypesReturn \in BOOLEAN

VARIABLES
  exists,      \* the Addon object exists
  deleting,    \* the Addon has a deletion timestamp
  fin,         \* the Addon carries cleanupFinalizerName
  created,     \* the ResourcesCreated condition is True
  ensure,      \* the Addon has the ensure-resources label
  requires,    \* the Addon lists RequiredResourceTypes
  served,      \* the user cluster serves the required resource types
  applied,     \* the addon's manifests exist in the user cluster
  cluster,     \* the Cluster object exists
  apiUp,       \* the user cluster's API server is healthy
  pc,          \* step of the current pass
  faults,      \* failures so far
  edits,       \* deletions of the resources by users so far
  removals     \* required types that stopped being served so far

addonVars == <<exists, deleting, fin, created, ensure, requires>>
envVars == <<served, applied, cluster, apiUp, edits>>
vars == <<addonVars, envVars, pc, faults, removals>>

(***************************************************************************)
(* A new Addon of a running cluster, one whose version status is set, so *)
(* Reconcile's skip for a missing ControlPlane version never applies;     *)
(* whether it is enforced and whether it needs resource types (served    *)
(* already, or not propagated yet) vary.                                  *)
(***************************************************************************)
Init ==
  /\ exists = TRUE /\ deleting = FALSE /\ fin = FALSE /\ created = FALSE
  /\ ensure \in BOOLEAN /\ requires \in BOOLEAN
  /\ served \in BOOLEAN /\ applied = FALSE
  /\ cluster = TRUE /\ apiUp \in BOOLEAN
  /\ pc = "idle" /\ faults = 0 /\ edits = 0 /\ removals = 0

\* ensureRequiredResourceTypesExist: a type that is not served requeues.
RequiredTypesServed == ~requires \/ served

\* Plausible bug: the skip ignores the ensure label, so resources of an
\* enforced addon that were deleted are not re-applied.
SkipIgnoringLabel == created

\* addonResourcesCreated && !hasEnsureResourcesLabel.
SkipInstalled == created /\ ~ensure

\* Plausible bug: the skip of installed addons is tested before the
\* deletion timestamp, so a deleted, created, unlabelled addon is skipped.
BranchSkipFirst ==
  CASE ~apiUp \/ ~RequiredTypesServed -> "idle"
    [] SkipInstalled -> "idle"
    [] deleting -> "cleanup"
    [] OTHER -> "apply"

\* The branch reconcile takes in a cluster that exists: requeue, cleanup,
\* skip or install, tested in this order.
Branch ==
  CASE ~apiUp \/ ~RequiredTypesServed -> "idle"
    [] deleting -> "cleanup"
    [] SkipInstalled -> "idle"
    [] OTHER -> "apply"

\* TryRemoveFinalizer; the API server removes a deleting Addon that has no
\* finalizer left.
RemoveFinalizer ==
  /\ fin' = FALSE
  /\ exists' = ~deleting
  /\ UNCHANGED <<deleting, created, ensure, requires>>

(***************************************************************************)
(* Reconcile and the head of reconcile, up to the branch taken.  A gone   *)
(* Cluster removes the finalizer; a cluster without a healthy API server  *)
(* or without the required types is requeued after 10 s.                  *)
(***************************************************************************)
Start ==
  /\ pc = "idle"
  /\ exists
  /\ IF ~cluster
       THEN RemoveFinalizer /\ UNCHANGED pc
       ELSE pc' = Branch /\ UNCHANGED addonVars
  /\ UNCHANGED <<envVars, faults, removals>>

\* ensureIsInstalled: kubectl apply of the rendered manifests.
Apply ==
  /\ pc = "apply"
  /\ applied' = cluster
  /\ pc' = "fin"
  /\ UNCHANGED <<addonVars, served, cluster, apiUp, edits, faults, removals>>

\* ensureFinalizerIsSet: TryAddFinalizer fails with NotFound on an Addon
\* that is gone, and is refused on one that is being deleted.
AddFinalizer ==
  /\ pc = "fin"
  /\ IF exists /\ ~deleting
       THEN fin' = TRUE /\ pc' = "cond"
       ELSE pc' = "idle" /\ UNCHANGED fin
  /\ UNCHANGED <<exists, deleting, created, ensure, requires, envVars,
                 faults, removals>>

\* ensureResourcesCreatedConditionIsSet: a status patch.
SetCondition ==
  /\ pc = "cond"
  /\ created' = (created \/ exists)
  /\ pc' = "idle"
  /\ UNCHANGED <<exists, deleting, fin, ensure, requires, envVars,
                 faults, removals>>

\* cleanupManifests: kubectl delete --ignore-not-found.
Cleanup ==
  /\ pc = "cleanup"
  /\ applied' = FALSE
  /\ pc' = "unfin"
  /\ UNCHANGED <<addonVars, served, cluster, apiUp, edits, faults, removals>>

\* removeCleanupFinalizer after the cleanup.
Unfinalize ==
  /\ pc = "unfin"
  /\ RemoveFinalizer
  /\ pc' = "idle"
  /\ UNCHANGED <<envVars, faults, removals>>

\* A kubectl run or a write fails, or the controller restarts.
Fail ==
  /\ pc /= "idle"
  /\ faults < MaxFaults
  /\ pc' = "idle"
  /\ faults' = faults + 1
  /\ UNCHANGED <<addonVars, envVars, removals>>

(***************************************************************************)
(* Environment                                                             *)
(***************************************************************************)
\* The Addon is deleted (the addon installer or a user); without a
\* finalizer the API server removes it at once.
DeleteAddon ==
  /\ exists /\ ~deleting
  /\ deleting' = TRUE
  /\ exists' = fin
  /\ UNCHANGED <<fin, created, ensure, requires, envVars, pc, faults,
                 removals>>

\* A user deletes the addon's resources in the user cluster.
DeleteResources ==
  /\ applied /\ edits < MaxEdits
  /\ applied' = FALSE
  /\ edits' = edits + 1
  /\ UNCHANGED <<addonVars, served, cluster, apiUp, pc, faults, removals>>

\* The required types come to be served (the CRD propagated), or stop
\* being served (the CRD was removed, e.g. with the addon providing it).
TypesServed ==
  /\ ~served /\ (removals = 0 \/ TypesReturn)
  /\ served' = TRUE
  /\ UNCHANGED <<addonVars, applied, cluster, apiUp, edits, pc, faults,
                 removals>>

TypesRemoved ==
  /\ served /\ removals < MaxTypeRemovals
  /\ served' = FALSE
  /\ removals' = removals + 1
  /\ UNCHANGED <<addonVars, applied, cluster, apiUp, edits, pc, faults>>

\* The user cluster's API server becomes healthy.
ApiServerUp ==
  /\ ~apiUp
  /\ apiUp' = TRUE
  /\ UNCHANGED <<addonVars, served, applied, cluster, edits, pc, faults,
                 removals>>

\* The user cluster is deleted, and its resources with it.
DeleteCluster ==
  /\ cluster
  /\ cluster' = FALSE
  /\ applied' = FALSE
  /\ UNCHANGED <<addonVars, served, apiUp, edits, pc, faults, removals>>

Controller ==
  Start \/ Apply \/ AddFinalizer \/ SetCondition \/ Cleanup \/ Unfinalize

Next ==
  \/ Controller \/ Fail
  \/ DeleteAddon \/ DeleteResources \/ TypesServed \/ TypesRemoved
  \/ ApiServerUp \/ DeleteCluster

(***************************************************************************)
(* The addon is requeued after every error and every 10 s wait, and with  *)
(* the enforce interval after success; the API server and the required   *)
(* types come up eventually once they are coming up.                      *)
(***************************************************************************)
Fairness ==
  /\ WF_vars(Controller)
  /\ WF_vars(TypesServed) /\ WF_vars(ApiServerUp)

Spec == Init /\ [][Next]_vars /\ Fairness

(***************************************************************************)
(* Properties                                                              *)
(***************************************************************************)
\* An Addon that stays is eventually installed for good: it carries the
\* cleanup finalizer and the ResourcesCreated condition, and an enforced
\* addon has its resources in the cluster whatever a user deleted
\* (reconcile's skip of created, unlabelled addons).
Installed ==
  <>[](exists /\ ~deleting /\ cluster =>
         fin /\ created /\ (ensure => applied))

\* A deleted Addon is eventually removed (cleanupManifests, then
\* removeCleanupFinalizer; spec: a deleted addon eventually loses its
\* finalizer).
AddonEventuallyRemoved == deleting ~> ~exists

\* Spec (addon reconciler): applied manifests are removed when the addon
\* is deleted; so an Addon that is gone leaves none of its resources in a
\* cluster that still exists.
NoOrphanedManifests == ~exists /\ cluster => ~applied

=============================================================================
