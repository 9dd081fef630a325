------------------------- MODULE MCReconcileHelper -------------------------
EXTENDS ReconcileHelper

CONSTANTS o1, o2  \* two named creators, e.g. the CSI Role and RoleBinding

MCObjects == <<o1, o2>>
=============================================================================
