# TLA+ models of Kubermatic cluster deletion and cloud cleanup

This directory holds TLA+ models of the Kubermatic Kubernetes Platform
controllers in `src/`. The models are checked with TLC. `PROJECT.json` has the
machine-readable inventory:
- components, runs and mutants;
- the map from each definition to the source lines it models;
- the hazards.

## 1. Inventory

### Components and how they interact

Every controller is a level-triggered reconcile loop over one object key.
Controllers share state only through API objects, mostly the `Cluster` and its
**finalizers**. An object with a deletion timestamp is removed by the API
server once its finalizer list is empty. Each finalizer guards one resource
that must be cleaned up first.

| Component | Source | State | Operations |
|---|---|---|---|
| Kubernetes cluster controller | `src/unnamed/part_009` | Cluster status, error fields | `Reconcile`, `reconcile`. While the cluster is deleting, each pass calls `CleanupCluster` and requeues after 10 s. |
| Cluster deletion pipeline | `src/pkg/clusterdeletion/deletion.go` | finalizers; in-cluster LBs and PVs; machines; etcd backup configs; credentials Secret | `CleanupCluster`, `cleanupInClusterResources`, `cleanupClusterRoleBindings` |
| Azure provider | `src/pkg/provider/cloud/azure/provider.go` | remote SG, RT, subnet, VNet, availability set and resource group, plus their finalizers | `CleanUpCloudProvider`, `reconcileCluster` (create and persist), `AddICMPRulesIfRequired`, validation |
| Addon reconciler | `src/unnamed/part_008` | Addon finalizer, ResourcesCreated condition, applied manifests | `Reconcile`, `reconcile`, `ensureIsInstalled`, `cleanupManifests` |
| RBAC project sync | `src/pkg/controller/master-controller-manager/rbac/sync_project.go` | Project phase and finalizer; shared (Cluster)Roles and Bindings | `sync`, `ensure*`, `ensureProjectCleanup` |
| VCD provider | `src/pkg/provider/cloud/kubevirt/storage.go` | vApp and network, plus the names persisted in the spec | `reconcileVApp`, `reconcileNetwork` |
| MLA Grafana org users | `src/unnamed/part_007` | UserProjectBinding finalizer, Grafana org user | `Reconcile`, `handleDeletion` |
| Resource reconciler helper | `src/codegen/reconcile/main.go` (the template of `Reconcile<Kind>s`); `EnsureNamedObject` is not in `src/` | the named child objects of one kind | `Reconcile<Kind>s`, `EnsureNamedObject` (spec §4.1) |
| Cloud-config rendering | `src/pkg/resources/cloudconfig/configmap.go` | the cloud-config ConfigMap | `ConfigMapCreator`, `CloudConfig` (Azure branch) |
| Packet provider | `src/pkg/provider/cloud/packet/provider.go` | `BillingCycle` in the cluster spec | `InitializeCloudProvider`, `ValidateCloudSpec`, `GetCredentialsForCluster` |
| Rendering, validation, generated clients, tests, scripts | see `PROJECT.json` | none worth a model | – |

The cloud cleanup is not part of the deletion pipeline in the code.
- Spec §4.4 lists "cloud provider infrastructure cleanup" as stage 8 of the
  pipeline.
- `CleanupCluster` never calls `CleanUpCloudProvider`.
- A separate seed cloud controller calls it. That controller is not in
  `src/`. It runs concurrently with the cluster controller on the same
  `Cluster`.

The two controllers are ordered only through the finalizer list:
- `deletion.go:84`: the pipeline stops while the node finalizer remains.
- `deletion.go:92`: the credentials are deleted only when their finalizer is
  the *only* finalizer left.

### Hard behaviours

- **Two controllers interleaving on the same finalizer list.** Each works from
  its own in-memory copy. The copy is refreshed only by its own updates.
- **Errors and restarts between a remote delete and the finalizer update.**
  The next pass must repeat the delete. The delete then gets a 404, which must
  count as success.
- **Asynchronous removal.** LBs, PVs and machines are removed by other
  controllers. The pipeline polls and requeues after 10 s.
- **Out-of-band deletion of cloud resources** (spec §7 scenario "404-tolerant
  cleanup").
- **Create-then-persist sequences** that a crash can split:
  - VCD vApp;
  - addon apply before its finalizer.
- **Shared objects updated by read-modify-write** (RBAC bindings).

### Properties each component needs

- **Deletion pipeline and cloud cleanup.** Checked now:
  - no finalizer is removed before its resource is gone;
  - the credentials outlive every cloud finalizer;
  - machines are deleted only after LBs and PVs are gone;
  - finalizers are removed in stage order;
  - the cluster is eventually removed.
- **Addon reconciler.** Applied manifests always carry a finalizer, or are
  removed when the addon is deleted. A deleted addon eventually loses its
  finalizer.
- **VCD.** After any crash, `reconcileNetwork` eventually finds the vApp.
- **RBAC project sync.** A terminating project is eventually removed. No
  project's subject is lost from a shared binding.
- **MLA.** The finalizer is removed only after the org user is gone.

## 2. Modules

| Module | Models | State / actions |
|---|---|---|
| `DeletionOrder` | the abstract promise of §4.4 | `fin`. `Remove` drops a nonempty set of finalizers whose prerequisites are all gone. Weak fairness. |
| `AzureCleanup` | `CleanUpCloudProvider` (provider.go 111–225) | See the breakdown below. |
| `ClusterDeletion` | `CleanupCluster` and its caller, composed with `AzureCleanup` and the environment | See the breakdown below. |
| `MCClusterDeletion` | TLC instance | `MaxFaults = 2`. Three choices of owned Azure resources. |
| `VCDVApp` | `reconcileVApp` and `reconcileNetwork` (storage.go 205–272) | See the breakdown below. |
| `ProjectRBAC` | `sync`, `ensureProjectCleanup` and the binding helpers (sync_project.go) | See the breakdown below. |
| `MCProjectRBAC` | TLC instance | Two projects `p1`, `p2` as model values. |
| `AzureICMPRules` | `AddICMPRulesIfRequired` (provider.go 385–451) | See the breakdown below. |
| `MCAzureICMPRules` | TLC instance | One cloud-controller-manager rule `lb1`; used by the violation run. |
| `ReconcileHelper` | `Reconcile<Kind>s` (main.go 347–377) with `EnsureNamedObject` from spec §4.1 | See the breakdown below. |
| `MCReconcileHelper` | TLC instance | Two named creators `o1`, `o2`. |
| `PacketProvider` | `InitializeCloudProvider`, `ValidateCloudSpec`, `GetCredentialsForCluster` (packet/provider.go) | See the breakdown below. |
| `AddonReconciler` | `Reconcile`, `reconcile` and their helpers (part_008 175–284, 485–622) | See the breakdown below. |
| `AzureProvision` | `InitializeCloudProvider`, `ReconcileCluster`, `reconcileCluster`, `ValidateCloudSpec`, `ValidateCloudSpecUpdate` (provider.go 227–302, 316–383, 454–492), composed with `AzureCleanup`, with `AzureICMPRules` and with `ConfigMapCreator`/`CloudConfig` (cloudconfig/configmap.go) | See the breakdown below. |
| `MCAzureProvision` | TLC instance | The route table, the security group and the availability set may be left empty; the other names are given. One cloud-controller-manager rule `lb1`. |
| `OrgUserGrafana` | `Reconcile` and `handleDeletion` of the MLA org-user controller (part_007 96–191) | See the breakdown below. |

**AzureCleanup**
- Variables:
  - `cpc`: the current if-block;
  - `cdel`: the delete of that block returned;
  - `csnap`: the controller's copy of the finalizers.
- Actions:
  - `CloudStart`: the credentials lookup, which fails once the Secret is gone;
  - `CloudDelete`: the delete, with a 404 tolerated;
  - `CloudRemoveFinalizer`: the `update`, which refreshes the copy;
  - `CloudFail`: any error return or restart.

**ClusterDeletion**
- Variables:
  - `kpc`: the pipeline stage;
  - `snap`: the controller's copy of the finalizers;
  - `lbs`, `pvs`, `nodes`: each `exists`, `deleting` or `gone`;
  - `backups`, `secret`, `cloud`.
- One action per remote call of `CleanupCluster`:
  - `KubeConstraints`;
  - `KubeInCluster`: the whole of `cleanupInClusterResources` plus the halt at line 64;
  - `KubeEtcd`;
  - `KubeNodes`;
  - `KubeClusterRoleBindings`: together with the halt at line 84;
  - `KubeCredentials`.
- `KubeStart` is `Reconcile` up to the call.
- `KubeFail` is any error return.
- Environment actions: `LBsRemoved`, `PVsRemoved`, `MachinesRemoved`,
  `DeletedOutOfBand`.

**VCDVApp**
- Variables:
  - `specVApp`: the persisted name;
  - `vapps`: the vApps in the VDC;
  - `fin`: the vApp finalizer;
  - `attached`: whether the OVDC network is attached;
  - `pc`: the step of the current pass.
- One action per VCD or seed call:
  - `EnsureFinalizer`;
  - `GetVApp`;
  - `CreateVApp`;
  - `PersistVApp`;
  - `ReconcileNetwork`.
- `Crash` is a controller crash between any two of them, bounded by
  `MaxCrashes`.

**`ProjectRBAC`** (with `MCProjectRBAC`) models the master controller
manager's project sync in `sync_project.go`. One worker per Project key runs
`sync`. Workers of different projects run concurrently and share the bindings.
- State:
  - per project: `phase`, `fin` (the cleanup finalizer), `deleting`, `gone`;
  - per binding: `exists` and `subj`, the projects whose group is a subject.
    There is one shared ClusterRoleBinding and one shared RoleBinding
    (`BindingOrder`), standing for the two loops of `sync`;
  - per shared role: `role`, which is absent, stale (an older version's
    rules) or current. The ClusterRole of `ensureClusterRBACRoleForResources`
    comes before the first binding and the Role of
    `ensureRBACRoleForResources` before the second (`RoleOrder`), as in
    `sync`;
  - per worker: `pc`, `cur` (the binding it is at), `rd` (what its last Get
    returned), `rrd` (what its last Get of a role returned) and `dirty`.
- `dirty` replaces the resourceVersion. Every write of a binding (`Touch`)
  marks the workers holding a Get of it stale, and their `UpdateBinding` then
  fails with a Conflict. Create fails with AlreadyExists; an Update of a deleted
  binding fails with NotFound. Every error ends the pass.
- Worker actions, one per API call:
  - `SyncStart`: the Get of the project, with the Terminating branch or the
    initial Inactive phase;
  - `AddFinalizer`;
  - `RoleGet` and `RoleWrite`: `ensure*RBACRoleForResource`. It creates a
    missing role, which fails with AlreadyExists if another worker created it
    first. It leaves a role with equal rules alone (`RoleUpToDate`), and
    otherwise updates the rules, which may fail with a Conflict;
  - `BindingGet` and `BindingWrite`: `ensure*RoleBindingForResource`, which
    creates, leaves alone, or appends the subject;
  - `SetActive`;
  - `CleanupGet` and `CleanupWrite`: `cleanUp*RoleBindingFor`;
  - `RemoveFinalizer`.
- Environment actions:
  - `WorkerFail`, bounded by `MaxFaults`;
  - `DeleteProject`: a project without a finalizer is removed at once;
  - `DeleteBindingOutOfBand` and `EditRoleOutOfBand`, bounded together by
    `MaxOutOfBand`.
- Left out: the owner bindings of the project itself; the fan-out over seeds and group
  prefixes, which only adds bindings of the same kind.

**`AzureICMPRules`** models `AddICMPRulesIfRequired`, which the controller
calls on every reconcile.
- State:
  - `rules`: the rule names of the security group in Azure;
  - `owned`: the ownership tag;
  - `sgName`: whether the group's name is persisted;
  - `rd`: what the call's Get returned.
- Actions:
  - `ICMPStart`: the empty-name early return;
  - `ICMPGet`: the Get, the ownership check and the scan for the three
    baseline rules (`HasRules`, `MissingRules`);
  - `ICMPWrite`: `CreateOrUpdate` with the rules of the Get plus the missing
    ones. It carries no ETag condition;
  - `ICMPFail`.
- Environment: the cloud controller manager adds and removes its rule for a
  LoadBalancer service (`AddForeign`, `RemoveRule`). An administrator may
  delete any rule (`RemoveRule`). Both are bounded by `MaxEdits`.
- Composition: `AzureProvision` instantiates the module with
  `sgName <- spec[SecurityGroup] /= ""` and
  `owned <- spec[SecurityGroup] = Gen`. The group carries the cluster's tag
  exactly when the cluster created it under the generated name. The fault and
  edit budgets are shared with the provider's. A call starts only between two
  provider passes of a live Cluster (`Icmp`), and a pass or a cleanup step
  only between two calls. Others edit the rules only while the group exists
  (`GroupEdit`). The group is created with the baseline, or with an older
  version's two deny rules.

**`OrgUserGrafana`** models the MLA org-user controller for one
UserProjectBinding.
- State:
  - `upb`: `live`, `deleting` or `gone`;
  - `fin`: the mla finalizer;
  - `project`: the Project exists;
  - `member`: the user is a member of the project's Grafana organisation;
  - `pc`: the next call.
- `Reconcile` reads the binding and branches on its deletion timestamp.
- The live branch is `AddFinalizer`, `GetProject` and `EnsureOrgUser`.
- The deletion branch is `HGetProject` (NotFound ignored), then `GetOrg`
  or `GetOrgFail`, `LookupUser`, `DeleteOrgUser` and `RemoveFinalizer`.
  Both results of `getOrgByProject` go on to `RemoveFinalizer`, as the code
  does.
- `Fail` is every error the code returns.
- `getOrgByProject`, `ensureOrgUser` and the finalizer helpers are not in
  `src/`. They are modelled by their results.
- Environment: the binding and the project are deleted at any time.

**`ReconcileHelper`** models the `Reconcile<Kind>s` function that the
template in `codegen/reconcile/main.go` generates for every kind.
- The loop goes over the named creators in order (`Advance`). The first
  error returns at once (`Abort`).
- `EnsureNamedObject` is not in `src/` and is modelled from spec §4.1:
  - `Get`;
  - `Create` from the zero object (the generated `<Kind>ObjectWrapper`),
    refused with AlreadyExists if the object appeared;
  - no write if the creator leaves the object unchanged;
  - `Update` with the Get's resourceVersion, refused on Conflict or
    NotFound;
  - for a kind generated with `RequiresRecreate` (PodDisruptionBudget),
    Delete then `Recreate`.
- `recreate` is chosen in Init, so one run covers both kinds of generated
  function.
- An object is `Absent`, `Desired` (the creator's fixpoint) or `Drifted`.
  Others change, delete and create objects (`Edit`, bounded by `MaxEdits`).
  Crashes and errors (`Fail`) are bounded by `MaxFaults`.

**`PacketProvider`** models the Packet provider's one state change.
- `InitializeStart` looks at `BillingCycle` on the caller's copy (`snap`).
  `InitializeUpdate` is the ClusterUpdater call, whose closure sets the
  default on the freshly read object.
- `UserSetsCycle` is a user's update through the API.
- `GetCredentialsForCluster` is an operator. `ValidateCloudSpec` applies it
  to the cluster's cloud spec, chosen in Init among all 32 combinations of
  inline apiKey and projectID, credentials reference and secret lookups
  that fail or not. No property is stated about it: the only rule to check
  it against is the spec's, which says what the code does, line by line.

**`AddonReconciler`** models one Addon of one user cluster.
- `Start` is `Reconcile` up to the branch `reconcile` takes (`Branch`):
  - a gone Cluster removes the finalizer;
  - an unhealthy API server or a required type that is not served requeues;
  - a deleting Addon goes to `Cleanup`, then `Unfinalize`;
  - a created Addon without the ensure label is skipped;
  - otherwise `Apply`, `AddFinalizer` and `SetCondition` follow, one step each.
- `Fail` is an error of any step or a restart of the controller.
- The environment deletes the Addon (`DeleteAddon`), which without a finalizer
  removes it at once. It also deletes the resources (`DeleteResources`),
  serves or removes the required types, brings the API server up and deletes
  the cluster.
- Not modelled: rendering and labelling the manifests, the prune of resources
  dropped from a template, and the temporary files.

Modelling decisions:
- **TryRemoveFinalizer and the ClusterUpdater are atomic.** Both are modelled
  as one read-modify-write of the stored object that also refreshes the
  caller's copy, as the code does. Lost updates between the controllers are
  therefore not modelled. The spec (§5) requires these helpers to patch
  against the original, and they are not under `src/`.
- **Stale copies only over-approximate.** During deletion, finalizers are only
  removed. A copy is therefore always a superset of the stored list. A stale
  copy can only delay a stage, which the model exercises.
- **No new LBs or PVs.** No LB or PV is created after deletion began (see the
  hazard at `deletion.go:152`).
- **Abstracted helpers.** The helpers not in `src/` (`cleanupNodes`,
  `cleanupLBs`, …) are modelled by their effect. Each one issues deletes and
  removes its finalizer only once the resource is gone.
- **The cloud controller's gate.** It starts a pass only when the node
  finalizer is absent (`CloudCleanupAllowed`). That gate is modelled from the
  spec (§4.4 stage 7).

**AzureProvision**

The cloud controller of one Azure cluster. While the Cluster lives it calls
`InitializeCloudProvider` (`force = false`) or `ReconcileCluster`
(`force = true`); both run `reconcileCluster`. Once the Cluster is deleted it
calls `CleanUpCloudProvider`, taken from `AzureCleanup` through `INSTANCE`.
- State:
  - `spec` is each resource's name in the cloud spec: empty, the generated
    name, or a name the user gave.
  - `fin` holds the cloud finalizers, and `cloud` the resources the cluster
    owns in Azure.
  - `pc`, `i`, `snap` and `force` are the pass: its step, its block, the
    Cluster copy it holds, and its argument.
- `ProvStart(b)` starts a pass. `Block` is one block of `reconcileCluster`,
  in `ReconcileOrder`. It runs when `force || name == ""`
  (`BlockRuns`), and for the availability set also when
  `AssignAvailabilitySet` is nil or true. A block either adopts a user's
  resource or creates the generated one.
- `Persist` is the helper's `ClusterUpdater` call. It sets the name and the
  finalizer in one update. The webhook's `ValidateCloudSpecUpdate` refuses a
  changed name, and the API server refuses a new finalizer on a deleting
  Cluster. Either refusal ends the pass with an error. The helpers are not
  in `src/`, so `Persist` is modelled from spec §4.2.
- `ProvFail` is an error or a restart. `UserEdit(f)` is a user naming a
  pre-provisioned resource; the webhook runs both checks on it.
  `ValidateCloudSpec` Gets every named resource but the availability set,
  so it refuses an edit while one of the cluster's own resources is missing.
- `CloudLost(f)` is someone deleting a resource the cluster created in Azure,
  after or before its name was persisted. The security group is left out:
  its loss would take its rules, which the ICMP part follows only while the
  group lives. `Delete`
  deletes the Cluster. `Cleanup(A)` is a step `A` of `CleanUpCloudProvider`.
- `RenderCloudConfig` is `ConfigMapCreator` run by the seed's resource
  reconciler: `CloudConfig`'s Azure branch copies each name of the cloud spec
  to its field of the cloud-config (`ccfg`). It renders from the Cluster as
  it is, so it may run before, between or after the provider's updates.
  No property is checked about it: a render is one read of the live Cluster,
  rerun after every change, so any convergence property would follow from
  the shape of the action alone.
- Not modelled: `DefaultCloudSpec`, the credentials lookup (an error is
  `ProvFail`), and the names' contents.

## 3. Runs

| Run | Cfg | Result | Checks |
|---|---|---|---|
| `cluster_deletion` | `ClusterDeletion.cfg` on `MCClusterDeletion` | pass: 73,545 distinct states, depth 34, about 50 s | `TypeOK`, `NoOrphanedResources`, `CredentialsOutliveCloudCleanup`, `NodesAfterInClusterCleanup`, `ImplementsDeletionOrder` |

What each property shows, over every interleaving of the two controllers,
their errors and restarts, the asynchronous removals and the out-of-band
deletes:
- **`NoOrphanedResources`:** a finalizer is never gone while its resource
  exists.
- **`CredentialsOutliveCloudCleanup`:** the credentials Secret is never deleted
  while a cloud finalizer remains. The `HasOnlyFinalizer` check at line 92 is
  what makes this hold. Weakening it to `HasFinalizer` breaks it.
- **`NodesAfterInClusterCleanup`:** machines are torn down only after LBs and
  PVs are gone.
- **`ImplementsDeletionOrder`:** `DeletionOrder!Spec` under the refinement
  mapping `Finalizers <- AllFinalizers, Prereq <- DeletionPrereq`. It has two
  parts:
  - every step removes only finalizers whose stage may run;
  - the cluster is eventually removed.

Every property has a mutant in `PROJECT.json`, a plausible bug in the mapped
code that TLC catches:
- the in-cluster finalizers are dropped without waiting;
- the halt at line 64 is dropped;
- the credentials check is weakened;
- the cloud controller ignores the node finalizer;
- the block loop runs past the last block.

| `vcd_vapp_crash` | `VCDVApp.cfg` | violation, as expected: 33 states | `NetworkEventuallyAttached` |

**Finding (`vcd_vapp_crash`): a crash during vApp creation is never
recovered.** This is a divergence from spec §4.2.
- TLC's counterexample has five steps:
  1. `EnsureFinalizer`;
  2. `GetVApp`, which finds no vApp;
  3. `CreateVApp`;
  4. `Crash`, before the name is persisted;
  5. a new pass whose `GetVApp` now finds the default-named vApp.
- `reconcileVApp` then returns without persisting the name
  (`storage.go:238`).
- `reconcileNetwork` looks up the empty name, fails, and does so on every pass
  for ever.
- The fix is to persist `vAppName` in the found branch whenever the spec field
  is empty.
- `MaxCrashes = 1` is enough, because one crash at the one bad point shows the
  problem.

| Run | Cfg | Result | Checks |
|---|---|---|---|
| `rbac_sync` | `ProjectRBAC.cfg` on `MCProjectRBAC` | pass: 1,312,992 distinct states, about 1 min | `TypeOK`, `NoGrantAfterRemoval`, `NoLostSubject`, `BindingsConverge` |
| `rbac_cleanup_notfound` | `ProjectRBACCleanup.cfg` on `MCProjectRBAC` | violation, as expected | `ProjectEventuallyRemoved` |

What `rbac_sync` shows, for two projects synced and deleted concurrently, with
conflicts, a crash and an administrator deleting a binding:
- **`NoLostSubject`** (an action property): a subject leaves a binding only
  through its own project's cleanup Update or the deletion of the binding.
  The concurrent read-modify-writes of other projects never drop it, because
  Update carries the Get's resourceVersion. Its mutant is a blind Update.
- **`NoGrantAfterRemoval`:** a removed project's group is a subject of no
  binding. The finalizer goes only after every cleanup Update succeeded. Its
  mutant ignores the cleanup Update's error.
- **`BindingsConverge`:** a project that is not deleted is, again and again,
  Active with its subject in both bindings, and both shared roles carry the
  generated rules. This holds despite AlreadyExists and Conflict races on
  the roles, for the behaviours in
  which every cleanup finishes. A cleanup stuck on the finding below
  re-issues its Update of the first binding on every pass. Each of those
  Updates can refuse another project's Update with a Conflict, and TLC finds
  that starvation when the condition is dropped. Its mutants take an existing
  binding as done without looking for the subject, and an existing role as
  up to date without comparing its rules.

**Finding (`rbac_cleanup_notfound`): a project deleted before its bindings
exist is never removed.** This is a divergence from the spec's error
taxonomy ("not-found is treated as success during cleanup").
- In TLC's counterexample both bindings start absent. The project's sync
  sets its finalizer, and then the worker fails once, before the sync has
  created any binding. The project is then deleted.
- The cleanup's Get of the first binding returns NotFound, and
  `cleanUpClusterRBACRoleBindingFor` returns that error
  (`sync_project.go:495`, likewise `:523`).
- `ensureProjectCleanup` never reaches `TryRemoveFinalizer`, on any pass.
- An administrator deleting a shared binding has the same effect.
- The fix is to return nil on `IsNotFound` in both cleanup helpers.
- The run uses `MaxOutOfBand = 0`, to show that no out-of-band deletion is
  needed.

| Run | Cfg | Result | Checks |
|---|---|---|---|
| `azure_icmp_race` | `AzureICMPRulesRace.cfg` on `MCAzureICMPRules` | violation, as expected | `ForeignRulesPreserved` |
| `reconcile_helper` | `ReconcileHelper.cfg` on `MCReconcileHelper` | pass: 1,798 distinct states | `Converges` |
| `packet_billing_race` | `PacketProviderRace.cfg` | violation, as expected | `UserCycleKept` |
| `addon_reconcile` | `AddonReconciler.cfg` | pass: 2,655 distinct states | `Installed`, `AddonEventuallyRemoved` |
| `addon_orphan` | `AddonReconcilerOrphan.cfg` | violation, as expected | `NoOrphanedManifests` |
| `azure_provision` | `AzureProvision.cfg` on `MCAzureProvision` | pass: 313,556 distinct states, about 20 s | `Provisioned`, `BaselineKept` |
| `addon_type_removed` | `AddonReconcilerTypeRemoved.cfg` | violation, as expected: 396 states | `AddonEventuallyRemoved` |
| `org_user_orphan` | `OrgUserGrafana.cfg` | violation, as expected: 112 states | `NoOrphanedOrgUser` |

- **`BaselineKept`:** a security group a live cluster created ends up with
  all three baseline rules for good. It may have been created without the
  ICMP rule, others may delete and add rules, and the call returns early
  while the name is empty. The calls between the provider passes still
  restore the rules once the name is persisted. Its mutant is a copy-paste
  slip in the rule-name switch, which never re-adds a lost ICMP rule.
- **`Converges`:** both objects end up, and stay, as their creators want
  them. This holds from any start, for both kinds of generated function,
  despite conflicts, aborted loops and a crash between the Delete and the
  Create of a recreate. Its mutant is a comparison that takes a drifted
  object as unchanged.
- **`Installed`:** an Addon that stays ends up with its finalizer and the
  ResourcesCreated condition. An enforced one also has its resources back
  after a user deleted them. Its mutant skips created addons whatever their
  label.
- **`AddonEventuallyRemoved`:** a deleted Addon is eventually removed, here
  with a required type that is removed and served again. Its mutant tests
  the skip before the deletion timestamp.
- **`Provisioned`:** a live cluster ends up with every managed resource
  named, and every resource named with the generated name exists in Azure.
  This holds whatever failed between a create and its update, and although
  someone deleted a created resource in Azure after its name was persisted.
  `InitializeCloudProvider` fills in only empty names, so only the forced
  `ReconcileCluster` pass re-creates such a resource. Its mutant ignores
  `force`.
  - It says nothing of finalizers: `Persist` writes a name and its finalizer
    in one update, so that part would hold by construction.
  - It does not cover a resource the pass created while a user named
    another one for the same field. That resource is left without a
    finalizer (see "Observed in the models" below).
- Two earlier properties were removed because they restated the model:
  - that names never change: only `Persist` and `UserEdit` write the spec,
    and both are guarded by `ValidateCloudSpecUpdate`;
  - that the cloud-config converges: see `RenderCloudConfig` above.

**Finding (`azure_icmp_race`): a concurrent rule is deleted.**
- `AddICMPRulesIfRequired` writes back the rule list of its Get, plus the
  missing baseline rules, with `CreateOrUpdate` and no If-Match condition
  (`provider.go:444`).
- TLC's counterexample has four steps: `ICMPStart`, `ICMPGet`, then the
  cloud controller manager adds `lb1`, then `ICMPWrite`. That write removes
  `lb1`.
- The spec batches the rules into one update only to narrow this window.

**Finding (`org_user_orphan`): a removed user keeps Grafana access.**
- `handleDeletion` acts on the membership only when `getOrgByProject`
  returns no error (`part_007:175-176`).
- On any error it falls through to `TryRemoveFinalizer` (`:190`).
- TLC's counterexample has ten steps:
  - a reconcile sets the finalizer and makes the user a member;
  - the binding is deleted;
  - the deletion's `getOrgByProject` fails once, for a project that still
    exists;
  - the finalizer is removed and the binding is gone, while the user is
    still a member of the organisation.
- With `MaxFaults = 0` the invariant holds. That includes a binding deleted
  between the finalizer and `ensureOrgUser`, so the finalizer does its job;
  only the dropped error defeats it.
- For a deleted project the dropped error may be intended, since the
  organisation goes with the project. For a transient error it should be
  returned, so that the reconcile is retried.

**Finding (`packet_billing_race`): a user's billing cycle is overwritten.**
- `InitializeCloudProvider` tests `BillingCycle` on the object it was given
  (`packet/provider.go:62`).
- Its closure sets the default on the freshly read object without testing
  it (`:65`).
- TLC's counterexample: the start sees an empty cycle, a user sets one, and
  the update replaces it.
- The doc comment says the default is applied only "if it is not set". The
  closure should test the fresh object.

**Finding (`addon_orphan`): applied resources outlive their Addon.**
- `reconcile` applies the manifests (`part_008:270`) before it sets the
  cleanup finalizer (`:273`).
- TLC's counterexample has three steps, with no failure: `Start`, `Apply`,
  then the Addon is deleted. It has no finalizer, so the API server removes
  it; `TryAddFinalizer` fails and nothing deletes the resources.
- A restart between the two steps, followed by a deletion, does the same.
  Setting the finalizer before the apply closes the window.

**Finding (`addon_type_removed`): a deleted Addon waits for ever.**
- `ensureRequiredResourceTypesExist` and its 10 s requeue run before the
  deletion branch (`part_008:245` vs `:253`).
- TLC's counterexample has no failure. The Addon is applied and its required
  type stops being served for good (`TypesReturn = FALSE`). The Addon is then
  deleted. Every later reconcile requeues it, so the cleanup never runs and
  the finalizer is never removed.
- The spec (spec.md:85) places the check "before applying", on the apply
  path only. Testing the deletion timestamp first would let the cleanup
  run. The cleanup applies the same manifests in reverse, so it may then
  need the type as well.

**Observed in the models, without a run of their own.**
- *A resource created during a deletion is orphaned.* In `AzureProvision`, a
  Cluster deleted between a block's create and its `Persist` leaves the
  resource in Azure with no finalizer. The API server refuses a new
  finalizer on a deleting object, and `CleanUpCloudProvider` deletes only
  what a finalizer names. The same happens when a user names the resource in
  that window, since the webhook then refuses the update. Both rest on how the
  helpers, which are not in `src/`, order the create and the finalizer.

### Bounds

- **`MaxFaults = 2`.** Errors and restarts can hit both controllers, or one
  controller twice, at any step. The important case is a restart between a
  delete and its finalizer update: it needs one fault.
- **Owned Azure resources.** There are three choices:
  - all six, the usual case;
  - none, everything pre-provisioned;
  - route table, subnet, availability set and resource group. In this choice
    some blocks are skipped and others run.
- **The in-cluster resources.** LBs, PVs, machines and backups each start
  present or absent.
- **ProjectRBAC: two projects, `MaxFaults = 1`, `MaxOutOfBand = 1`.** Two
  projects are the least that share a binding. Two bindings are the least
  where a loop can stop part-way. Each binding starts present or absent. The
  roles start all missing (a new installation) or all stale (an upgrade);
  current roles arise in every run.
- **AzureICMPRules (violation run): one foreign rule, `MaxEdits = 2`,
  `MaxFaults = 1`.** Two edits are enough to delete a baseline rule and add
  the foreign rule inside one call.
- **ReconcileHelper: two objects, `MaxEdits = 2`, `MaxFaults = 1`.** Two
  objects are the least where an abort skips a later object. Every start
  state is enumerated.
- **PacketProvider: `MaxCalls = 2`.** Two calls show that a later call
  does not repair the overwrite, because the cycle is then set.
- **AddonReconciler: `MaxFaults = 1`, `MaxEdits = 1`, `MaxTypeRemovals = 1`.**
  One failure can fall between any two steps. One user deletion shows that an
  enforced addon is re-applied. One type removal, which comes back, is what a
  deletion must survive. The violation run needs no failure at all.
- **AzureProvision: `MaxFaults = 1`, `MaxEdits = 1`, three names that may
  be empty, one foreign rule.** One failure falls between any create and its
  update, or inside an ICMP call. The one edit by others either names a
  resource, racing a pass, deletes a created resource in Azure, which only a
  forced pass restores, or deletes or adds a rule of the group. The route
  table, the security group and the availability set may be empty, so one
  block is gated by `AssignAvailabilitySet` and the others are not. The
  security group's name is the one the ICMP call needs. A group created
  without the ICMP rule needs no edit to make `BaselineKept` work.
- **AddonReconciler, `addon_type_removed`: no failures or edits, one type
  removal that does not come back.** Nothing else is needed to reach the
  permanent requeue.
- **OrgUserGrafana: `MaxFaults = 1`.** One failure is what the counterexample
  needs.
- **Finalizers are a finite set.** The model has no counters other than
  `faults`.

### Fairness

- **Both controllers, every step.** `reconcile` returns
  `RequeueAfter: 10s` on every deletion pass (`part_009:298-299`). The cloud
  controller is requeued on error. Both passes are therefore retried for ever,
  which justifies weak fairness on each controller step.
- **The external controllers** finish any removal they started.
- **Errors, restarts and out-of-band deletes** have no fairness. `MaxFaults`
  bounds errors and restarts.
- **ProjectRBAC: weak fairness on each worker's steps.** The work queue
  requeues a key after every error and resyncs periodically. Conflicts get no
  fairness: the code does not retry them and nothing makes them stop.
- **ReconcileHelper: weak fairness on the controller's steps.** The cluster
  is resynced periodically. Edits by others and
  failures get no fairness and are bounded.
- **PacketProvider:** only safety is checked, so it has no fairness.
- **AddonReconciler: weak fairness on the controller's steps, on the required
  types being served and on the API server coming up.** Errors requeue the
  Addon, and success requeues it after the enforce interval. The spec
  describes a type that is not served as one not propagated yet. A type
  removed for good is the `TypesReturn = FALSE` case. The run has
  `CHECK_DEADLOCK FALSE` because nothing is left to do once the Addon is gone.
- **AzureProvision: weak fairness on a pass's steps, on the cleanup steps
  and on `RenderCloudConfig`; strong fairness on starting a forced pass and
  on starting an ICMP call.** Only the forced pass is fair: spec §4.2 calls
  `ReconcileCluster` the steady-state convergence, and §5 makes the periodic
  resync requeue the cluster. Each reconcile of a live Cluster
  makes both calls, one after the other. Split into steps, each start is
  disabled while the other call runs, and under weak fairness alone an
  endless run of ICMP calls could starve the passes. The seed's resource
  reconciler watches the Cluster and renders again after each update. The
  cloud controller requeues the cluster after every
  error and resyncs it periodically. Failures, edits and the deletion get no
  fairness. The run has `CHECK_DEADLOCK FALSE`: a deleted, cleaned-up
  Cluster has nothing left to do.
- **Not modelled:** the concurrency limit at `part_009:250`. Fairness assumes
  that it eventually admits the cluster. This is listed as a hazard.

## 4. Plan

The next modules, in order:
1. Done: **`VCDVApp`** (see the finding above). Next, a passing run of the
   fixed variant as a regression model.
2. Done: **`AddonReconciler`** (see the findings above). Next, the
   cleanup's "no such file" shortcut (`part_008:539`) and several addons
   that depend on one another's CRDs.
3. Done: **`ProjectRBAC`** (see the finding above). Next, the owner
   bindings of `ensureClusterRBACRoleBindingForNamedResource` and the fan-out
   over several seeds.
4. Also done this round: **`AzureICMPRules`**, **`ReconcileHelper`** and
   **`PacketProvider`**. Later done: **`AzureProvision`**, `reconcileCluster`
   with `force`, its helpers modelled from the spec.
5. Done: the shared ClusterRole and Role in **`ProjectRBAC`**, and the
   cloud-config rendering composed with **`AzureProvision`**. Next, tenant
   workloads creating a LoadBalancer between `checkIfAllLoadbalancersAreGone`
   and `TryRemoveFinalizer` (`deletion.go:152`), which breaks
   `NoOrphanedResources` and needs a run of its own.
7. Done: `AzureICMPRules` composed into **`AzureProvision`**, and the MLA
   org-user controller (**`OrgUserGrafana`**, see the finding above). Next,
   `CleanUp`, which runs `handleDeletion` over every binding when MLA is
   disabled, racing `Reconcile`.
6. **Multi-cluster `ClusterDeletion`**, with the concurrency limit of
   `ClusterAvailableForReconciling` and tenant workloads creating LBs.

## 5. Not modelled

- **MLA `CleanUp` and the nil Grafana client.** The caller that disables
  MLA is not in `src/`, so it is unknown when the client provider returns
  nil and whether `Reconcile` still runs during `CleanUp`.
- **The GCP branch of `CloudConfig`.** It mutates the Cluster through the
  shared `GCP` pointer (`configmap.go:273`), but it is a single field
  rewrite with no protocol around it. It is listed as a hazard.

- **Rendering code, generated clients, validation, tests, scripts and YAML.**
  None of these has control state.
- **The code generator itself** (`main`, `namedReconcileFunc`, the list of
  kinds). It only produces code. The generated function is modelled
  (`ReconcileHelper`).
- **Azure helpers `reconcileResourceGroup`, … .** They are not in `src/`.
  `AzureProvision` models them from spec §4.2. Note that the code passes
  `force = false` from `InitializeCloudProvider` and `force = true` from
  `ReconcileCluster`. The spec describes the first as forcing creation and
  the second as comparing the spec fields.
