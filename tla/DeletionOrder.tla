---------------------------- MODULE DeletionOrder ----------------------------
(***************************************************************************)
(* What the finalizer-driven deletion of a Cluster promises, stated over  *)
(* the finalizer set alone: finalizers disappear, possibly several at     *)
(* once, each only after every finalizer it depends on is gone, until     *)
(* none is left and the API server removes the object.                    *)
(***************************************************************************)
CONSTANTS
  Finalizers,  \* every finalizer the deletion knows
  Prereq       \* Prereq[f]: finalizers that must be gone before f

ASSUME Prereq \in [Finalizers -> SUBSET Finalizers]

VARIABLE fin

\* f may be removed once nothing it depends on is left.
Ready(f) == Prereq[f] \cap fin = {}

Init == fin \subseteq Finalizers

Remove ==
  \E done \in SUBSET fin :
    /\ done /= {}
    /\ \A f \in done : Ready(f)
    /\ fin' = fin \ done

Spec == Init /\ [][Remove]_fin /\ WF_fin(Remove)

=============================================================================
