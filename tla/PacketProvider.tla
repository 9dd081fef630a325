--------------------------- MODULE PacketProvider ---------------------------
(***************************************************************************)
(* The Packet provider (pkg/provider/cloud/packet/provider.go).  Its only *)
(* state change is InitializeCloudProvider: when the cluster object it is *)
(* given has no BillingCycle, it calls the ClusterUpdater, which reads    *)
(* the cluster afresh, applies the closure and writes it back; the        *)
(* closure sets the default unconditionally.  A user may set the billing  *)
(* cycle through the API between the controller's read and that update.   *)
(*                                                                         *)
(* GetCredentialsForCluster, which every call of the provider starts      *)
(* with, is a pure function of the cloud spec and the secret lookups.    *)
(***************************************************************************)
EXTENDS Naturals

CONSTANTS
  Default,   \* defaultBillingCycle
  UserCycle, \* a billing cycle a user chooses
  Unset,     \* the empty string
  MaxCalls   \* bound on calls of InitializeCloudProvider

ASSUME Default /= UserCycle /\ Unset \notin {Default, UserCycle}
       /\ MaxCalls \in Nat

(***************************************************************************)
(* GetCredentialsForCluster over every combination of inline values, a    *)
(* credentials reference and the secret lookups.  A spec is a record of   *)
(* the inline apiKey and projectID, whether CredentialsReference is set,  *)
(* and what the secretKeySelector returns for each key (a value or Err).  *)
(***************************************************************************)
Err == "error"
Failed == <<>>   \* the error return of GetCredentialsForCluster
Val == {"", "v"}
CloudSpecs ==
  [apiKey : Val, projectID : Val, ref : BOOLEAN,
   apiKeySecret : {"s", Err}, projectIDSecret : {"s", Err}]

\* One credential: the inline value, else the secret's, else an error.
Resolve(inline, ref, secret) ==
  IF inline /= "" THEN inline
  ELSE IF ~ref THEN Err
  ELSE secret

\* The code: apiKey first, then projectID, each returning its error.
GetCredentialsForCluster(s) ==
  LET a == Resolve(s.apiKey, s.ref, s.apiKeySecret)
      p == Resolve(s.projectID, s.ref, s.projectIDSecret)
  IN IF a = Err \/ p = Err THEN Failed ELSE <<a, p>>

VARIABLES
  billing,   \* cluster.Spec.Cloud.Packet.BillingCycle in the API server
  userSet,   \* the user has set the billing cycle
  snap,      \* BillingCycle of the cluster object the caller passed in
  pc,        \* "idle" or "update"
  calls,     \* calls so far
  cloud,     \* the cluster's cloud spec, as far as credentials go
  creds      \* what the last GetCredentialsForCluster returned

NoCall == <<"none">>

vars == <<billing, userSet, snap, pc, calls, cloud, creds>>

Init ==
  /\ billing \in {Unset, UserCycle}
  /\ userSet = (billing = UserCycle)
  /\ snap = Unset /\ pc = "idle" /\ calls = 0
  /\ cloud \in CloudSpecs /\ creds = NoCall

\* The caller hands over its (cached) copy of the cluster; an empty billing
\* cycle leads to the update, otherwise the cluster is returned unchanged.
InitializeStart ==
  /\ pc = "idle"
  /\ calls < MaxCalls
  /\ snap' = billing
  /\ pc' = IF billing = Unset THEN "update" ELSE "idle"
  /\ calls' = calls + 1
  /\ UNCHANGED <<billing, userSet, cloud, creds>>

\* update(ctx, cluster.Name, func(cluster) {BillingCycle = default}).
InitializeUpdate ==
  /\ pc = "update"
  /\ billing' = Default
  /\ snap' = billing'
  /\ pc' = "idle"
  /\ UNCHANGED <<userSet, calls, cloud, creds>>

\* A user sets the billing cycle of the cluster through the API; the
\* webhook's ValidateCloudSpecUpdate admits every change of a Packet spec.
UserSetsCycle ==
  /\ ~userSet
  /\ billing' = UserCycle
  /\ userSet' = TRUE
  /\ UNCHANGED <<snap, pc, calls, cloud, creds>>

\* ValidateCloudSpec: GetCredentialsForCluster and its error.
ValidateCloudSpec ==
  /\ creds' = GetCredentialsForCluster(cloud)
  /\ UNCHANGED <<billing, userSet, snap, pc, calls, cloud>>

Next ==
  InitializeStart \/ InitializeUpdate \/ UserSetsCycle \/ ValidateCloudSpec

Spec == Init /\ [][Next]_vars

\* InitializeCloudProvider's doc comment: it updates BillingCycle to the
\* default "if it is not set", so a billing cycle a user chose is never
\* replaced.  The check is made on the copy the caller passed in, and the
\* closure overwrites whatever the freshly read object holds.
UserCycleKept == userSet => billing = UserCycle

=============================================================================
