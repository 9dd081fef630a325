----------------------------- MODULE ProjectRBAC -----------------------------
(***************************************************************************)
(* The master controller manager's RBAC project sync (sync_project.go):  *)
(* one worker per Project key runs sync, the workers of different         *)
(* projects run concurrently, and all of them add and remove their        *)
(* project's group subject on the same shared bindings.                   *)
(*                                                                         *)
(* Every API call is a step.  A binding is read with Get and written      *)
(* with Create or Update; Update carries the resourceVersion of the Get,  *)
(* so the API server refuses it with a Conflict when the binding was      *)
(* written in between, Create fails with AlreadyExists, and any error     *)
(* ends the pass (the work queue requeues the key).                       *)
(***************************************************************************)
EXTENDS Naturals, Sequences

CONSTANTS
  Projects,      \* the Project objects
  Missing,       \* what a Get of an absent binding returns
  MaxFaults,     \* bound on worker crashes and transient API errors
  MaxOutOfBand   \* bound on bindings deleted by an administrator

ASSUME MaxFaults \in Nat /\ MaxOutOfBand \in Nat

VARIABLES
  phase,     \* Project.Status.Phase
  fin,       \* the project carries CleanupFinalizerName
  deleting,  \* the project has a deletion timestamp
  gone,      \* the project has been removed by the API server
  exists,    \* the shared binding exists
  role,      \* each shared role: "absent", "stale" (older rules) or "current"
  subj,      \* the projects whose group is a subject of the binding
  pc,        \* step of the project's worker
  cur,       \* index of the binding the worker is at
  rd,        \* the subjects the worker's last Get returned, or Missing
  rrd,       \* the role state the worker's last Get of a role returned
  dirty,     \* the binding was written since the worker's Get
  faults,    \* crashes and transient errors so far
  oob        \* out-of-band binding deletions so far

projVars == <<phase, fin, deleting, gone>>
workVars == <<pc, cur, rd, rrd, dirty>>
vars == <<projVars, exists, subj, role, workVars, faults, oob, role, rrd>>

\* The shared ClusterRoleBinding of the project resources
\* (ensureClusterRBACRoleBindingForResources), then the shared RoleBinding
\* (ensureRBACRoleBindingForResources); the groups and resources
\* shouldSkip*RoleBindingFor skips have no binding and are left out.
BindingOrder == <<"ClusterRoleBinding", "RoleBinding">>
Bindings == {BindingOrder[i] : i \in 1..Len(BindingOrder)}

\* The shared ClusterRole of the project resources
\* (ensureClusterRBACRoleForResources), ensured before the first binding,
\* and the shared Role (ensureRBACRoleForResources), before the second.
RoleOrder == <<"ClusterRole", "Role">>
Roles == {RoleOrder[i] : i \in 1..Len(RoleOrder)}
RoleStates == {"absent", "stale", "current"}

NoPhase == ""
Phases == {NoPhase, "Inactive", "Active", "Terminating"}
WorkerSteps == {"idle", "fin", "rget", "rwrite", "get", "write", "active",
                "cget", "cwrite", "unfin"}

Binding(p) == BindingOrder[cur[p]]
Role(p) == RoleOrder[cur[p]]

\* Plausible bug: the loop runs one binding past the end of the list.
NextBindingPastEnd(i) == i + 1

\* Index of the binding after binding i, 0 once both loops are done.
NextBinding(i) == IF i = Len(BindingOrder) THEN 0 ELSE i + 1

\* A write of binding or role b: every other worker holding a Get of b is
\* stale.
Touch(b) ==
  [q \in Projects |->
     \/ dirty[q]
     \/ pc[q] \in {"write", "cwrite"} /\ Binding(q) = b
     \/ pc[q] = "rwrite" /\ Role(q) = b]

(***************************************************************************)
(* New projects on an installation where the shared bindings may already *)
(* exist (left over with no subjects) or not; the shared roles are       *)
(* missing (a new installation) or all left with the rules of an older    *)
(* version (an upgrade).                                                   *)
(***************************************************************************)
Init ==
  /\ phase = [p \in Projects |-> NoPhase]
  /\ fin = [p \in Projects |-> FALSE]
  /\ deleting = [p \in Projects |-> FALSE]
  /\ gone = [p \in Projects |-> FALSE]
  /\ exists \in [Bindings -> BOOLEAN]
  /\ subj = [b \in Bindings |-> {}]
  /\ role \in {[r \in Roles |-> st] : st \in {"absent", "stale"}}
  /\ pc = [p \in Projects |-> "idle"]
  /\ cur = [p \in Projects |-> 1]
  /\ rd = [p \in Projects |-> Missing]
  /\ rrd = [p \in Projects |-> "absent"]
  /\ dirty = [p \in Projects |-> FALSE]
  /\ faults = 0 /\ oob = 0

\* sync: Get of the project (NotFound ends quietly), then either the
\* cleanup branch with the Terminating phase, or the initial Inactive phase.
SyncStart(p) ==
  /\ pc[p] = "idle"
  /\ ~gone[p]
  /\ IF deleting[p]
       THEN /\ phase' = [phase EXCEPT ![p] = "Terminating"]
            /\ pc' = [pc EXCEPT ![p] = "cget"]
       ELSE /\ phase' = [phase EXCEPT ![p] =
                           IF @ = NoPhase THEN "Inactive" ELSE @]
            /\ pc' = [pc EXCEPT ![p] = "fin"]
  /\ cur' = [cur EXCEPT ![p] = 1]
  /\ UNCHANGED <<fin, deleting, gone, exists, subj, rd, dirty, faults, oob,
                 role, rrd>>

\* ensureCleanupFinalizerExists; the API server forbids new finalizers on
\* an object that is being deleted, and the pass ends with that error.
AddFinalizer(p) ==
  /\ pc[p] = "fin"
  /\ IF deleting[p]
       THEN /\ pc' = [pc EXCEPT ![p] = "idle"]
            /\ UNCHANGED fin
       ELSE /\ fin' = [fin EXCEPT ![p] = TRUE]
            /\ pc' = [pc EXCEPT ![p] = "rget"]
  /\ UNCHANGED <<phase, deleting, gone, exists, subj, cur, rd, dirty,
                 faults, oob, role, rrd>>

\* The Get of the shared binding, in ensure*RoleBindingForResource and in
\* cleanUp*RoleBindingFor.
ReadBinding(p) ==
  /\ rd' = [rd EXCEPT ![p] = IF exists[Binding(p)] THEN subj[Binding(p)]
                                                   ELSE Missing]
  /\ dirty' = [dirty EXCEPT ![p] = FALSE]

\* ensure*RBACRoleForResource: the Get of the shared role.
RoleGet(p) ==
  /\ pc[p] = "rget"
  /\ rrd' = [rrd EXCEPT ![p] = role[Role(p)]]
  /\ dirty' = [dirty EXCEPT ![p] = FALSE]
  /\ pc' = [pc EXCEPT ![p] = "rwrite"]
  /\ UNCHANGED <<projVars, exists, subj, role, cur, rd, faults, oob>>

\* Plausible bug: an existing role is taken as done without comparing its
\* rules with the generated ones.
RoleUpToDateIgnoringRules(p) == rrd[p] /= "absent"

\* equality.Semantic.DeepEqual of the existing and the generated rules.
RoleUpToDate(p) == rrd[p] = "current"

\* After the Get: Create on NotFound (AlreadyExists if another worker
\* created it meanwhile), nothing if the rules are equal, otherwise an
\* Update with the generated rules (Conflict if the role was written since
\* the Get, NotFound if it was deleted).  An error ends the pass.
RoleWrite(p) ==
  /\ pc[p] = "rwrite"
  /\ LET r == Role(p)
         ok == IF rrd[p] = "absent" THEN role[r] = "absent"
               ELSE RoleUpToDate(p) \/ (~dirty[p] /\ role[r] /= "absent")
         write == ok /\ ~RoleUpToDate(p)
     IN /\ role' = IF write THEN [role EXCEPT ![r] = "current"] ELSE role
        /\ dirty' = IF write THEN Touch(r) ELSE dirty
        /\ pc' = [pc EXCEPT ![p] = IF ok THEN "get" ELSE "idle"]
  /\ rrd' = [rrd EXCEPT ![p] = "absent"]   \* the Get's result goes out of scope
  /\ UNCHANGED <<projVars, exists, subj, cur, rd, faults, oob>>

BindingGet(p) ==
  /\ pc[p] = "get"
  /\ ReadBinding(p)
  /\ pc' = [pc EXCEPT ![p] = "write"]
  /\ UNCHANGED <<projVars, exists, subj, cur, faults, oob, role, rrd>>

\* Move on to the next binding of the loop, or to the step after it.
Advance(p, after, again) ==
  IF NextBinding(cur[p]) = 0
    THEN /\ pc' = [pc EXCEPT ![p] = after]
         /\ UNCHANGED cur
    ELSE /\ pc' = [pc EXCEPT ![p] = again]
         /\ cur' = [cur EXCEPT ![p] = NextBinding(@)]

\* Plausible bug: the Update does not carry the resourceVersion of the Get
\* (a blind overwrite), so only a deleted binding makes it fail.
UpdateBindingBlind(p, s, after, again) ==
  LET b == Binding(p) IN
  IF ~exists[b]
    THEN /\ pc' = [pc EXCEPT ![p] = "idle"]
         /\ UNCHANGED <<subj, dirty, cur>>
    ELSE /\ subj' = [subj EXCEPT ![b] = s]
         /\ dirty' = Touch(b)
         /\ Advance(p, after, again)

\* The Update of a binding, writing subjects s: refused with a
\* Conflict if the binding was written since the Get, NotFound if it was
\* deleted; either error ends the pass.
UpdateBinding(p, s, after, again) ==
  LET b == Binding(p) IN
  IF dirty[p] \/ ~exists[b]
    THEN /\ pc' = [pc EXCEPT ![p] = "idle"]
         /\ UNCHANGED <<subj, dirty, cur>>
    ELSE /\ subj' = [subj EXCEPT ![b] = s]
         /\ dirty' = Touch(b)
         /\ Advance(p, after, again)

\* ensure*RoleBindingForResource after its Get: Create the binding with the
\* project's subject if it was absent, nothing if the subject is there,
\* otherwise Update with the subject appended.
\* Plausible bug: a binding that already exists is taken as done, without
\* looking for the project's subject.
SubjectPresentAlways(p) == TRUE

\* The project's subject is among those the Get returned.
SubjectPresent(p) == p \in rd[p]

BindingWrite(p) ==
  /\ pc[p] = "write"
  /\ LET b == Binding(p) IN
       IF rd[p] = Missing
         THEN IF exists[b]
                THEN /\ pc' = [pc EXCEPT ![p] = "idle"]
                     /\ UNCHANGED <<exists, subj, dirty, cur>>
                ELSE /\ exists' = [exists EXCEPT ![b] = TRUE]
                     /\ subj' = [subj EXCEPT ![b] = {p}]
                     /\ dirty' = Touch(b)
                     /\ Advance(p, "active", "rget")
       ELSE IF SubjectPresent(p)
         THEN /\ Advance(p, "active", "rget")
              /\ UNCHANGED <<exists, subj, dirty>>
       ELSE /\ UpdateBinding(p, rd[p] \cup {p}, "active", "rget")
            /\ UNCHANGED exists
  /\ UNCHANGED <<projVars, rd, faults, oob, role, rrd>>

\* ensureProjectPhase(Active): a status patch, which fails once the project
\* is gone.
SetActive(p) ==
  /\ pc[p] = "active"
  /\ pc' = [pc EXCEPT ![p] = "idle"]
  /\ phase' = IF gone[p] THEN phase ELSE [phase EXCEPT ![p] = "Active"]
  /\ UNCHANGED <<fin, deleting, gone, exists, subj, cur, rd, dirty,
                 faults, oob, role, rrd>>

\* cleanUp*RoleBindingFor: the Get returns its error, NotFound included.
CleanupGet(p) ==
  /\ pc[p] = "cget"
  /\ IF exists[Binding(p)]
       THEN /\ ReadBinding(p)
            /\ pc' = [pc EXCEPT ![p] = "cwrite"]
       ELSE /\ pc' = [pc EXCEPT ![p] = "idle"]
            /\ UNCHANGED <<rd, dirty>>
  /\ UNCHANGED <<projVars, exists, subj, cur, faults, oob, role, rrd>>

\* Plausible bug: an error of the cleanup Update is logged and the loop
\* goes on to the next binding.
CleanupWriteIgnoringErrors(p) ==
  /\ pc[p] = "cwrite"
  /\ IF dirty[p] \/ ~exists[Binding(p)]
       THEN /\ Advance(p, "unfin", "cget")
            /\ UNCHANGED <<subj, dirty>>
       ELSE UpdateBinding(p, rd[p] \ {p}, "unfin", "cget")
  /\ UNCHANGED <<projVars, exists, rd, faults, oob, role, rrd>>

\* The Update with the project's subjects filtered out, always issued.
CleanupWrite(p) ==
  /\ pc[p] = "cwrite"
  /\ UpdateBinding(p, rd[p] \ {p}, "unfin", "cget")
  /\ UNCHANGED <<projVars, exists, rd, faults, oob, role, rrd>>

\* TryRemoveFinalizer: the last finalizer of a deleting project is gone, so
\* the API server removes it.
RemoveFinalizer(p) ==
  /\ pc[p] = "unfin"
  /\ fin' = [fin EXCEPT ![p] = FALSE]
  /\ gone' = [gone EXCEPT ![p] = TRUE]
  /\ pc' = [pc EXCEPT ![p] = "idle"]
  /\ UNCHANGED <<phase, deleting, exists, subj, cur, rd, dirty, faults, oob,
                 role, rrd>>

\* A crash of the worker or a transient API error ends the pass.
WorkerFail(p) ==
  /\ pc[p] /= "idle"
  /\ faults < MaxFaults
  /\ pc' = [pc EXCEPT ![p] = "idle"]
  /\ faults' = faults + 1
  /\ rrd' = [rrd EXCEPT ![p] = "absent"]
  /\ UNCHANGED <<projVars, exists, subj, cur, rd, dirty, oob, role>>

(***************************************************************************)
(* Environment: a user deletes a project (removed at once if it has no   *)
(* finalizer yet); an administrator deletes a shared binding.             *)
(***************************************************************************)
DeleteProject(p) ==
  /\ ~deleting[p] /\ ~gone[p]
  /\ deleting' = [deleting EXCEPT ![p] = TRUE]
  /\ gone' = [gone EXCEPT ![p] = ~fin[p]]
  /\ UNCHANGED <<phase, fin, exists, subj, role, workVars, faults, oob>>

\* An administrator edits a shared role's rules, or a new version of the
\* controller generates different ones.
EditRoleOutOfBand(r) ==
  /\ role[r] = "current"
  /\ oob < MaxOutOfBand
  /\ role' = [role EXCEPT ![r] = "stale"]
  /\ dirty' = Touch(r)
  /\ oob' = oob + 1
  /\ UNCHANGED <<projVars, exists, subj, pc, cur, rd, rrd, faults>>

DeleteBindingOutOfBand(b) ==
  /\ exists[b]
  /\ oob < MaxOutOfBand
  /\ exists' = [exists EXCEPT ![b] = FALSE]
  /\ subj' = [subj EXCEPT ![b] = {}]
  /\ dirty' = Touch(b)
  /\ oob' = oob + 1
  /\ UNCHANGED <<projVars, role, pc, cur, rd, rrd, faults>>

\* Every project has been removed; nothing is left to do.
AllRemoved == (\A p \in Projects : gone[p]) /\ UNCHANGED vars

WorkerStep(p) ==
  \/ SyncStart(p) \/ AddFinalizer(p) \/ RoleGet(p) \/ RoleWrite(p)
  \/ BindingGet(p) \/ BindingWrite(p)
  \/ SetActive(p) \/ CleanupGet(p) \/ CleanupWrite(p) \/ RemoveFinalizer(p)

Next ==
  \/ \E p \in Projects : WorkerStep(p) \/ WorkerFail(p) \/ DeleteProject(p)
  \/ \E b \in Bindings : DeleteBindingOutOfBand(b)
  \/ \E r \in Roles : EditRoleOutOfBand(r)
  \/ AllRemoved

\* The work queue requeues a key after every error and resyncs it
\* periodically: weak fairness on every worker step.
Fairness == \A p \in Projects : WF_vars(WorkerStep(p))

Spec == Init /\ [][Next]_vars /\ Fairness

(***************************************************************************)
(* Properties                                                              *)
(***************************************************************************)
TypeOK ==
  /\ phase \in [Projects -> Phases]
  /\ fin \in [Projects -> BOOLEAN]
  /\ deleting \in [Projects -> BOOLEAN] /\ gone \in [Projects -> BOOLEAN]
  /\ exists \in [Bindings -> BOOLEAN]
  /\ subj \in [Bindings -> SUBSET Projects]
  /\ role \in [Roles -> RoleStates] /\ rrd \in [Projects -> RoleStates]
  /\ pc \in [Projects -> WorkerSteps]
  /\ cur \in [Projects -> 1..Len(BindingOrder)]
  /\ rd \in [Projects -> SUBSET Projects \cup {Missing}]
  /\ dirty \in [Projects -> BOOLEAN]
  /\ faults \in 0..MaxFaults /\ oob \in 0..MaxOutOfBand

\* A project's subject leaves a shared binding only through that project's
\* own cleanup Update or the deletion of the binding: the concurrent
\* read-modify-write of the syncs of other projects never loses it.
NoLostSubject ==
  [][\A b \in Bindings, q \in Projects :
       (q \in subj[b] /\ q \notin subj'[b]) =>
          \/ exists[b] /\ ~exists'[b]
          \/ pc[q] = "cwrite" /\ Binding(q) = b]_vars

Bound(p) == \A b \in Bindings : exists[b] /\ p \in subj[b]
RolesCurrent == \A r \in Roles : role[r] = "current"

\* A project the API server has removed keeps no subject in any shared
\* binding: ensureProjectCleanup removes the finalizer only after the
\* Updates of every binding succeeded, although other projects' syncs
\* rewrite the same bindings concurrently.
NoGrantAfterRemoval ==
  \A p \in Projects, b \in Bindings : gone[p] => p \notin subj[b]

\* Every deleted project has been removed.
CleanupsDone == \A q \in Projects : deleting[q] => gone[q]

\* A project that is not deleted is, again and again, Active with its
\* subject in every shared binding and every shared role carrying the
\* generated rules, whatever conflicts, AlreadyExists races, crashes,
\* stale roles and out-of-band deletions happened (sync's ensure loops).  It is
\* stated for the behaviours in which every cleanup eventually finishes: a
\* cleanup stuck on a NotFound (ProjectEventuallyRemoved) re-issues its
\* Update of the first binding on every requeue, and each of those can
\* refuse another project's Update of that binding with a Conflict.
BindingsConverge ==
  <>[]CleanupsDone =>
     \A p \in Projects :
        []<>(deleting[p] \/ (phase[p] = "Active" /\ Bound(p) /\ RolesCurrent))

\* Spec: cleanup treats an already absent object as success, so a deleted
\* project is eventually removed (ensureProjectCleanup).
ProjectEventuallyRemoved == \A p \in Projects : deleting[p] ~> gone[p]

=============================================================================
