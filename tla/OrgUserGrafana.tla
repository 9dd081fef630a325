--------------------------- MODULE OrgUserGrafana ---------------------------
(***************************************************************************)
(* The MLA org-user controller (orgUserGrafanaReconciler, mla package):   *)
(* for a UserProjectBinding it makes the user a member of the Grafana     *)
(* organisation of the binding's project, guarded by the mla finalizer,  *)
(* and on the binding's deletion removes the membership (handleDeletion) *)
(* before it removes the finalizer.                                       *)
(*                                                                         *)
(* One binding, one reconcile at a time (controller-runtime never runs    *)
(* two reconciles of one key together), one step per API or Grafana call.*)
(* getOrgByProject, ensureOrgUser and the finalizer helpers are not in    *)
(* this repository; they are modelled by their results: the organisation *)
(* of an existing project or an error, a membership added, the finalizer *)
(* set or dropped.  The Grafana client is configured (not nil).          *)
(***************************************************************************)
EXTENDS Naturals

CONSTANT MaxFaults  \* bound on failed calls

ASSUME MaxFaults \in Nat

VARIABLES
  upb,      \* the binding: "live", "deleting" (deletion timestamp) or "gone"
  fin,      \* the binding carries the mla finalizer
  project,  \* the binding's Project exists
  member,   \* the user is a member of the project's Grafana organisation
  pc,       \* the reconcile's next call, or "idle"
  faults    \* failed calls so far

vars == <<upb, fin, project, member, pc, faults>>

\* The calls a reconcile makes, in order; the first three are Reconcile's,
\* the others handleDeletion's.
Calls == {"addfin", "project", "ensure", "hproject", "org", "lookup",
          "delete", "remove"}

\* A binding just created for a member of an existing project.
Init ==
  /\ upb = "live" /\ fin = FALSE /\ project = TRUE /\ member = FALSE
  /\ pc = "idle" /\ faults = 0

(***************************************************************************)
(* Reconcile                                                               *)
(***************************************************************************)
\* Get the binding (a NotFound ends the reconcile: nothing to do), get the
\* Grafana client, and branch on the deletion timestamp of the copy read.
Reconcile ==
  /\ pc = "idle" /\ upb /= "gone"
  /\ pc' = IF upb = "deleting" THEN "hproject" ELSE "addfin"
  /\ UNCHANGED <<upb, fin, project, member, faults>>

\* TryAddFinalizer: a binding deleted since the Get is gone, since it had
\* no finalizer, and the update fails with NotFound.
AddFinalizer ==
  /\ pc = "addfin"
  /\ IF upb = "gone"
       THEN pc' = "idle" /\ UNCHANGED fin
       ELSE pc' = "project" /\ fin' = TRUE
  /\ UNCHANGED <<upb, project, member, faults>>

\* Get the binding's project; an error ends the reconcile.
GetProject ==
  /\ pc = "project"
  /\ pc' = IF project THEN "ensure" ELSE "idle"
  /\ UNCHANGED <<upb, fin, project, member, faults>>

\* ensureOrgUser makes the user a member of the project's organisation.
EnsureOrgUser ==
  /\ pc = "ensure"
  /\ member' = TRUE /\ pc' = "idle"
  /\ UNCHANGED <<upb, fin, project, faults>>

(***************************************************************************)
(* handleDeletion                                                          *)
(***************************************************************************)
\* Get the project; a NotFound is ignored and leaves an empty Project.
HGetProject ==
  /\ pc = "hproject" /\ pc' = "org"
  /\ UNCHANGED <<upb, fin, project, member, faults>>

\* getOrgByProject finds the organisation of an existing project; for
\* the empty Project of a deleted one it returns an error.  Either error
\* skips the membership and goes on to TryRemoveFinalizer.
GetOrg ==
  /\ pc = "org"
  /\ pc' = IF project THEN "lookup" ELSE "remove"
  /\ UNCHANGED <<upb, fin, project, member, faults>>

\* getOrgByProject fails for an existing project (Grafana unreachable, an
\* error response); the error is not returned either.
GetOrgFail ==
  /\ pc = "org" /\ faults < MaxFaults
  /\ pc' = "remove" /\ faults' = faults + 1
  /\ UNCHANGED <<upb, fin, project, member>>

\* LookupUser by e-mail: a member has a Grafana user; a user that is not
\* a member may have one (of another organisation) or not (NotFound,
\* ignored).
LookupUser ==
  /\ pc = "lookup"
  /\ pc' \in IF member THEN {"delete"} ELSE {"delete", "remove"}
  /\ UNCHANGED <<upb, fin, project, member, faults>>

\* DeleteOrgUser removes the user from the organisation.
DeleteOrgUser ==
  /\ pc = "delete"
  /\ member' = FALSE /\ pc' = "remove"
  /\ UNCHANGED <<upb, fin, project, faults>>

\* TryRemoveFinalizer; the API server then removes the deleting binding.
RemoveFinalizer ==
  /\ pc = "remove"
  /\ fin' = FALSE
  /\ upb' = IF upb = "deleting" THEN "gone" ELSE upb
  /\ pc' = "idle"
  /\ UNCHANGED <<project, member, faults>>

\* An error returned by a call (the Grafana client provider, a Get, an
\* update, ensureOrgUser, LookupUser, DeleteOrgUser) ends the reconcile,
\* which is requeued.
Fail ==
  /\ pc \in Calls \ {"org"} /\ faults < MaxFaults
  /\ pc' = "idle" /\ faults' = faults + 1
  /\ UNCHANGED <<upb, fin, project, member>>

(***************************************************************************)
(* Environment                                                             *)
(***************************************************************************)
\* The user is removed from the project: the binding is deleted, and
\* removed at once when it carries no finalizer.
DeleteBinding ==
  /\ upb = "live"
  /\ upb' = IF fin THEN "deleting" ELSE "gone"
  /\ UNCHANGED <<fin, project, member, pc, faults>>

\* The project is deleted.
DeleteProject ==
  /\ project /\ project' = FALSE
  /\ UNCHANGED <<upb, fin, member, pc, faults>>

Next ==
  \/ Reconcile \/ AddFinalizer \/ GetProject \/ EnsureOrgUser
  \/ HGetProject \/ GetOrg \/ GetOrgFail \/ LookupUser \/ DeleteOrgUser
  \/ RemoveFinalizer \/ Fail
  \/ DeleteBinding \/ DeleteProject

Spec == Init /\ [][Next]_vars

(***************************************************************************)
(* Properties                                                              *)
(***************************************************************************)
TypeOK ==
  /\ upb \in {"live", "deleting", "gone"} /\ fin \in BOOLEAN
  /\ project \in BOOLEAN /\ member \in BOOLEAN
  /\ pc \in Calls \cup {"idle"} /\ faults \in 0..MaxFaults

\* A user whose binding to a still existing project is gone is no longer a
\* member of the project's Grafana organisation: the mla finalizer keeps
\* the binding until handleDeletion has removed the membership.
NoOrphanedOrgUser == upb = "gone" /\ project => ~member

=============================================================================
