--------------------------- MODULE MCProjectRBAC ---------------------------
(***************************************************************************)
(* Model-checking instance of ProjectRBAC: two projects whose syncs share *)
(* both bindings, so their Gets and Updates interleave and conflict.      *)
(***************************************************************************)
EXTENDS ProjectRBAC

CONSTANTS p1, p2

MCProjects == {p1, p2}

=============================================================================
