------------------------- MODULE MCClusterDeletion -------------------------
(***************************************************************************)
(* Model-checking instance of ClusterDeletion.  Two faults let an error   *)
(* or restart hit both controllers, or one controller twice, anywhere in  *)
(* a pass.  The provider either created every Azure resource (the usual   *)
(* case: nothing pre-provisioned), nothing, or only some of them (a       *)
(* pre-provisioned VNet and security group, say).                         *)
(***************************************************************************)
EXTENDS ClusterDeletion

MCMaxFaults == 2

MCOwnedChoices ==
  { CloudResources, {},
    {RouteTable, Subnet, AvailabilitySet, ResourceGroup} }

=============================================================================
