# Formal models of vcluster-openshift

TLA+ models of the programs of this repository, checked with TLC on small
instances and, for the properties marked below, proved with TLAPS for every
value of the constants. Line numbers refer to `src/`; `syncers/`, `hooks/` and
`pkg/` are short for the directories under `plugins/resource-syncer/`.

## The system

The repository runs OpenShift APIs inside a vCluster. The program with logic of
its own is the `resource-syncer` plugin in each vCluster's syncer pod; around it
are shell scripts that deploy and remove the whole, and a small proxy. Several
vClusters, each with its plugin, share one host cluster.

| Component | State it keeps | Operations | What makes it correct |
|---|---|---|---|
| SCC RBAC bridge, `syncers/sccrbac.go` | none of its own: a work queue; virtual RBAC and SCC objects (read), host ClusterRoles and ClusterRoleBindings (written) | mapping functions of four watches, reconcile of a ClusterRoleBinding or RoleBinding, `ensureHostRBAC`, `cleanupHostRBAC` | every virtual grant ends up on the host, every revoked one goes; a binding never without its role; a tenant's reconcile never touches another's objects |
| SCC syncer and ceiling, `syncers/scc.go`, `scc_ceiling.go` | the configured ceiling; vCluster's object cache | `SyncToHost`, `Sync`, `SyncToVirtual`, `ValidateSCCAgainstCeiling` | no host copy exceeds the ceiling; a copy exactly of the SCCs that may have one; tenants keep their SCCs |
| SCC pod hook, `hooks/scc.go` | none | `MutateCreatePhysical`, `MutateUpdatePhysical` = `selectSCC` | the SCC required of a pod was granted to its service account, and was the best one |
| Generic syncer, `pkg/syncer.go`, `unstructured.go` | vCluster's object cache, mappings | the three handlers, `Migrate` | host follows virtual, status flows back, no tenant's object is deleted unasked |
| Route syncer, `syncers/route.go` | service CA, read once per process | field copying, name translation, CA injection | backends are translated once; Routes carry one service CA, and it is not missed |
| OAuthClient syncer, `syncers/oauthclient.go` | none | field copying | as the generic syncer |
| Plugin start, `main.go`, `pkg/config.go` | none | registration, retry of `plugin.Start`, migration before each controller | comes up with every configured kind whose API is served |
| `hack/deploy.sh` | the host, the vCluster, the current kubectl context | commands under `set -e`, retries, waits, context switch | no step meant for the vCluster reaches the host; "Deploy complete" means done |
| `Makefile` teardown | - | deletes by label | nothing of the vCluster is left |
| Compatibility proxy, `config/*.js`, `*.nginx.conf` | none | forwards requests | - |

How they interact: a tenant's edit of RBAC objects reaches the bridge as a
notification and the hook as the next read; a tenant's edit of an SCC reaches
the syncer as a notification, the hook and the bridge's wildcard grants as the
next read. The bridge's host roles name the syncer's host copies
(`vc-<vcluster>-<scc>`), and so do the hook's annotations; the three agree on
the name and otherwise run without coordination. The bridges of several
vClusters meet on the host's cluster-scoped objects. The deployment script
restarts the plugin's pod, makes the APIs of the synced kinds served one after
the other, and writes the service CA that the Route syncer reads: the order of
its commands is what the once-read CA rests on.

What is hard here: reads at several instants acted on later, notifications that
are dropped, lost in a restart or never sent, a series of host writes of which
one fails, handlers of one key against edits of it, several controllers that
write one host, a script whose current cluster changes under it. The complete list, line by line, is under `hazards` in
`PROJECT.json`.

## Modules

| Module | Models | State and actions |
|---|---|---|
| `SCCRules` | rules that grant the use of SCCs | operators `extractSCCRules`, `resolveSCCMatches`, shared by bridge and hook |
| `VirtualRBAC` | keys and contents of virtual RBAC objects | constants and their assumptions |
| `SCCRBACBridge` | the bridge, any number of vClusters | below |
| `HostGrantPair` | what the bridge promises about one pair of host objects: none - role - bound - role - none | abstract specification |
| `SCCRBACBridge_proofs`, `SCCRBACBridge_settled` | theorems about the bridge: types and the order of writes; what a settled bridge has done, and which names cannot collide | |
| `SCCCeiling` | `ValidateSCCAgainstCeiling` | operators, one per check |
| `SCCSyncer` | generic handlers and interceptor for one SCC | below |
| `SCCSyncer_proofs` | theorems about the syncer | |
| `SCCHook` | one call of the hook | below |
| `SCCHook_proofs` | theorems about the hook | |
| `SCCAdmission` | syncer, bridge and hook together (INSTANCE of the three), and the host's admission of a pod | below |
| `SCCAdmission_proofs` | theorems about the three together | |
| `DeployScript` | `hack/deploy.sh`, run after run | below |
| `PluginStart` | `main` and `Migrate` | below |
| `ResourceSyncer` | generic handlers for Routes, OAuthClients and unstructured objects; the service CA | below |
| `Deployment` | script, plugin and syncers together (EXTENDS the three) | below |
| `DeployScript_proofs`, `ResourceSyncer_proofs`, `Deployment_proofs` | theorems about `Deployment`, each module on those before it: the script's part, the syncers', and what needs all three | |
| `MCBridge`, `MCSyncer`, `MCHook`, `MCAdmission`, `MCDeployment` | instances for TLC | sets of names, bindings, rules, SCCs, pods, kinds |

**SCCRBACBridge.** `bindings`, `roles`, `sccs` are the virtual objects, `hostCR`
and `hostCRB` the host objects by name, and per vCluster `up`, `events` (not yet
delivered), `queue` (controller-runtime's set of keys) and `worker` (the
reconcile under way, with what it has read). Each API call of a reconcile is an
action: `Reconcile` reads the binding, `GetRole` the role, `ListSCCs` the SCCs,
`EnsureClusterRole` and `EnsureClusterRoleBinding` write one SCC's pair in any
order of SCCs, `ListHostBindings` ... `DeleteHostRole` clean up. Host calls fail
with or without effect (`HostCallFails`, the second disjunct of the writes), and
virtual reads fail in the four ways the code tells apart: `GetBindingFails`
queues the key again, `ResolveFails` is taken for "grants nothing",
`MappingFails` drops the event; a role that is absent is such an error too.
`Crash` and `Restart` lose queue and worker and list what exists. Names are
sequences of hyphen-free words, so that two host names are equal exactly when
the code's strings are; `LabelMax` is the 63 characters of `safeName` in words.
Names of API objects hold no `/`, so that its replacement never applies.

**SCCSyncer.** `virtual` and `host` are the SCC and its copy with the uid they
belong to, `remembered` what vCluster's object cache holds, `pending` the queue
(one key), `event` the handler's argument as it was read. `Read` starts a
handler, `SyncToHost`, `Sync`, `SyncToVirtual` and `ReplaceStaleCopy` end it, and
tenant and administrator act in between. `Sync`'s patch writes the fields that
differ from the copy as it was read, over the copy as it is. An SCC is a function
from fields to values, and `Absent` is a field it does not have.

**SCCHook.** `call` holds what the call has read so far; each read is an action
and may fail. `seen` is history: for every instant of the call, the best SCC, the
granted and the existing ones, the roles bound and what they grant.

**SCCAdmission.** One virtual state with a process of each part: the actions of
`SCCSyncer`, `SCCRBACBridge` and `SCCHook` act on the same `bindings`, `roles`
and `scc`, and only the bridge's host objects and the syncer's `copy` meet again,
in `Admits`, which stands for the host's admission: a pod that requires an SCC is
admitted under it when the SCC exists on the host and the host's RBAC grants it
to the pod's translated service account. `Admission` repeats the hook's call for
a rejected pod, as vCluster does. A `Crash` stops all three parts. `BoundTo` and
`Granting` say what Kubernetes' RBAC means, in terms of neither hook nor bridge.

**DeployScript.** The script is the sequence `Steps`; a step has the cluster it is
meant for, the context it names, and `how` a failure is treated (the comment
above `Steps` lists the ways). `at` is its place, `attempt` and `spent` the state
of `retry`, `context` the kubeconfig's current context, `connecting` the
background `vcluster connect`, which outlives the script. `Succeed` puts a
step's effect in the cluster it reaches: `done` when it is the right one,
`overwrote` or `missed` when it is not. The run may be repeated (`Deploy`) with
all effects and the background process of earlier runs still there.

**PluginStart.** `process` follows `main`, `attempts` and `migrated` the `Migrate`
of each kind; `MaxAttempts` stands for its five minutes.
`runningControllers` are the kinds that are handled.

**ResourceSyncer.** As `SCCSyncer`, for several objects, with a worker each, and
with what the three kinds copy. `syncFields` and `syncStatus` are the kinds'
`SyncFields`; `patchHost` and `patchVirtual` write what differs from the object
as it was read over the object as it is. `serviceCA` is the process's cache,
`bundle` the virtual `signing-cabundle`; `ReadServiceCA` runs once in a process,
and workers that need the CA wait for it. `Forget` is the start of a process, in
the same pod (`NewContainer`) or in a new one (`NewPod`). A new pod has lost the
tenants' Routes: the openshift-apiserver stores them in an etcd sidecar on an
`emptyDir` (`config/patch.yaml.tpl:97`, and the repository's README, "Etcd data
is ephemeral"), so that the new process finds copies without Routes and deletes
them, while tenants may create the Routes again. OAuthClients and the objects of
the other kind are custom resources, SCCs too, and live with RBAC and ConfigMaps
in the vCluster's own store, which persists.

**Deployment.** `served` follows the script's effects: the kinds of the CRDs come
with `vcluster create`, Routes once the sidecars, their Service, the in-cluster
manifests and the APIServices are there. Creating the vCluster and patching its
workload start a new pod (`RestartPod`), except when they are repeated and change
nothing; l.434 publishes the CA the host has at that run. A `Crash` is of the
plugin's container or of its pod.

Taken from outside the repository (marked `external` in the map), as the code
uses it: a mapping function is called with the old and the new object of an
update; a key is worked on by one worker at a time and is queued again when it
changes meanwhile or its reconcile fails; vCluster's clients read their own
writes, so that a host read and the write that follows are one step; a binding's
`roleRef` is immutable, a ClusterRoleBinding refers to ClusterRoles and its
service accounts have namespaces; vCluster's name translation is injective;
`DeleteHostObject` and `DeleteVirtualObject` forget the cached objects,
`HostMetadata` copies the whole object, a host object created by the plugin may
be deleted by it, and a copy made for an earlier virtual object of the same name
is replaced. A status the copied object brings may or may not survive the
creation. For the script and the plugin: `HOST_CONTEXT` names the host (with the
Makefile's default, that the operator is on the host when `make` runs);
`vcluster connect` changes the context once and nothing but an operator who
starts the script again changes it back; the migrations of the kinds do not wait
for each other; a pod keeps its API calls to the host whatever the script does;
the plugin's image is given. For admission: the host judges a pod by its
translated service account and the SCC it requires, `restricted-v2` is granted
to everyone, and group subjects (`system:serviceaccounts`), which bridge and hook
both pass over, are not used. Left out: the ten-hour resync of informers, the delays of retries,
events that are queued twice before they are delivered (a set), a second
reading of the SCC list for a second wildcard rule of one role, labels,
annotations and status.

## Runs

| Run | Bounds | Shows |
|---|---|---|
| `bridge_core` | a ClusterRoleBinding and a RoleBinding to one ClusterRole, 2 SCCs, named, wildcard and unrelated rules, 1 edit of RBAC, 1 of SCCs, 1 failing host call, 1 failing virtual read | `TypeOK`, `ReconcileTouchesOwn`, `PairsFollowTheirLife` |
| `bridge_convergence` | both bindings, each to a role of its scope, 1 SCC, 2 edits, 1 failing host call, 1 restart | `NoDanglingBinding`, `GrantsInPlace`, `RevokedGrantsGone` |
| `bridge_live` | a RoleBinding, a Role, 2 SCCs, three sets of subjects, 2 edits, 2 failing host calls, with fairness | `GrantsConverge`, `RevocationsConverge` |
| `syncer_core` | 5 fields, 4 SCCs, 2 ceilings, 3 edits, 1 administrator's deletion, 1 failure, 1 restart, with fairness | `TypeOK`, `HostWithinCeiling`, `NoCopyWithoutLicence`, `CopyOfWhatIsAllowed`, `TenantKeepsSCC`, `CopyConverges` |
| `hook_core` | 3 bindings, 2 roles, 2 SCCs in every initial state, 3 pods, 2 edits, 1 failing read | `TypeOK`, `SelectionIsBestOfAnInstant`, `SelectionWasGranted`, `SelectionHasAGrant` |
| `admission_core` | a binding and a role in each of 2 namespaces, 1 SCC in 2 versions (one above the ceiling), 1 pod; four starts with an allowance of 1 or 2 among edits, failures and crashes; with fairness | `TypeOK`, `HookAndBridgeAgree`, `UsableIsAdmitted`, `AdmittedHadAGrant`, `PodStarts` |
| `deployment_core` | five scenarios of kinds and configurations; 2 Routes or 1 other object, 2 tenants' edits, 1 attempt of `Migrate`; 2 mishaps among 2 runs of the script, a failing command, start, call, or CA reading, a crash, a change on the host; with fairness | `TypeOK`, `NothingInClusterOnHost`, `CompleteMeansDone`, `SettledInPlace`, `SettledStatusReported`, `RoutesShareCA`, `ServiceCAInPlace`, `TenantKeepsObject`, `PluginComesUp`, `ObjectsConverge` |

Each property's comment in its module says what it means and for which lines.
Why the bounds are enough: every initial state has all combinations of present
and absent bindings, roles and SCCs, so that an edit starts from anywhere; two
edits put one before and one after any step of a reconcile or a call; a failure
and a restart may fall between any two steps; two SCCs are the least for a
partial write, two bindings the least for a reconcile that could touch another's
objects. The syncer's three edits allow deletion and creation under one name
around a third edit. Its fields are one of each kind the ceiling tells apart,
the one that is judged and not copied, and one that is copied and not judged.
In `deployment_core` the first run of the script is itself a mishap, so that each
behaviour has one more: a second run, or one failure, crash or change anywhere in
the first, which is what each of the script's and the handlers' error paths needs.
Two Routes are the least that could disagree about the CA; the two runs of the
script find different host CAs; the tenants may use an API from the step on that
makes it served. The starts of `admission_core` are: granted by a wildcard rule,
granted in the wrong namespace only, granted by a role nobody is bound to (two
edits bind and revoke), and nothing at all with a pod that needs nothing.
Deadlock is not checked: when the tenants are done and the queue is empty, the
system rightly rests.

Preconditions in the properties: `ServiceCAInPlace` excludes a failing read of the
CA, which is remembered as no CA, and asks for a CA that was published, not for
the current one: a second run of the script restarts the pod, if at all, before
it copies a rotated CA. `TenantKeepsObject` is about the plugin's handlers: that a
new pod loses the Routes is documented and no deletion by the plugin, but a Route
created again afterwards, under the name of a copy that is still there or just
deleted, must not be deleted on its account. `CompleteMeansDone` is stated for the
first run: a `vcluster connect` left by an aborted run may switch the context
during the next one, whose host commands without a `--context` then reach the vCluster. `Usable` leaves out
wildcard grants, which are bridged for the SCCs that exist at the reconcile
(`sccrbac.go:169`), and SCCs above the ceiling, which the hook selects and the
host does not have, so that the pod stays rejected. "Settled" is a controller with nothing queued,
undelivered or under way. `RevokedGrantsGone` excludes bindings deleted around a
restart, `HostWithinCeiling` a change of the ceiling, and `GrantsInPlace` is
checked without failing virtual reads and edits of SCCs; the code does not keep
these promises there, see below and `hazards`. `SelectionIsBestOfAnInstant` and
`SelectionWasGranted` allow one edit during the call: with two, bindings and
roles of different instants may combine, and `SelectionHasAGrant` says what
holds then.

Fairness: `WF` of the bridge's `Deliver` and `Work` and of the syncer's `Read`
and `Handle`, because informers and workers are goroutines of controller-runtime
that run whenever they can; of `Restart`, because the pod belongs to a
StatefulSet; of the plugin's start and migrations (`PluginStep`), loops that sleep
and go on; of each object's worker (`Work`); and of the hook's calls and the
repeated `Admission`, because vCluster synchronises a rejected pod again. The
script has none: it may be stopped or left standing. Weak fairness is enough: no step of another actor disables these
for good. Tenants, administrators and failures have none; failures are bounded,
as retries would otherwise be in vain.

### Where code and documentation disagree

Five runs expect a violation; `findings` quotes the lines.

- `bridge_role_through_rolebinding`: a ClusterRole that comes to grant an SCC
  wakes its ClusterRoleBindings, not its RoleBindings (`sccrbac.go:371`).
- `bridge_two_tenants`: the cleanup's label selector (`sccrbac.go:336`) has no
  vCluster in it and deletes another tenant's objects.
- `bridge_narrowed_role`: a role narrowed from two SCCs to one leaves the pair
  of the other (`sccrbac.go:259`).
- `bridge_deleted_while_down`: no start looks for host objects whose binding was
  deleted meanwhile (`sccrbac.go:86`).
- `syncer_removed_field`: a field removed from an SCC stays in its copy
  (`scc.go:63`).

## Proofs

All for every set of constants that satisfies the named assumptions, every
number of vClusters, objects, names and edits, and every bound. The assumptions
a reader should know of:

- `NoneAssumption`, `AbsentAssumption`, `None # 0`: the value that stands for "no
  object" is none of the objects.
- `ConstantsAssumption` of `SCCHook`: the SCC names are finitely many, as a name has
  at most 253 characters; so the best of a non-empty set of SCCs exists.
- `ContentsAssumption` of `ResourceSyncer`: the objects of one kind have one set of
  fields, and a Route's backends are Services, which is what OpenShift's API
  server lets through.
- `NamesAssumption` of `VirtualRBAC`: vClusters and SCCs have names, sequences of
  words as those of bindings are; so two SCCs of one binding have two host names.
- `PartsAssumption` of `SCCAdmission`: what the assumptions of its three parts come to
  for the constants they are given there, and that the pod's namespace is known
  (`account.ns`), without which the hook keeps its default (`hooks/scc.go:75`).
- `NoCollision`, `PlainNames`, `Watched`, `WildcardsStay` and `ReadsSucceed`,
  hypotheses of the theorems that name them and no assumptions: see below.

| Module | Theorem | Statement |
|---|---|---|
| `SCCRBACBridge_proofs` | `BridgeTypeCorrect` | `Spec => []TypeOK` |
| | `BridgeBindsExistingRoles` | `NoCollision => (Spec => []NoDanglingBinding)` |
| | `BridgeTouchesOwn` | `NoCollision => (Spec => ReconcileTouchesOwn)` |
| | `BridgeImplementsPair` | `NoCollision => (Spec => PairsFollowTheirLife)`, the refinement of `HostGrantPair` |
| `SCCRBACBridge_settled` | `BridgeGrantsByName` | `Watched => (Spec /\ [][ReadsSucceed]_vars => []GrantsByNameInPlace)` |
| | `BridgeGrantsInPlace` | `Watched /\ WildcardsStay => (Spec /\ [][ReadsSucceed]_vars => []GrantsInPlace)` |
| | `BridgeRevokes` | `Watched /\ WildcardsStay => (Spec /\ [][ReadsSucceed]_vars => []RevokedGrantsGone)` |
| | `PlainNamesDoNotCollide` | `PlainNames => NoCollision` |
| | `PlainTenantKeepsPromises` | `PlainNames => (Spec => []NoDanglingBinding /\ ReconcileTouchesOwn /\ PairsFollowTheirLife)` |
| `SCCSyncer_proofs` | `SyncerTypeCorrect` | `Spec => []TypeOK` |
| | `SyncerCeilingHolds` | `Spec => []HostWithinCeiling` |
| | `SyncerRevokesCopies` | `Spec => []NoCopyWithoutLicence` |
| | `SyncerMakesCopies` | `Spec => []CopyOfWhatIsAllowed` |
| | `SyncerKeepsSCC` | `Spec => TenantKeepsSCC` |
| `SCCHook_proofs` | `HookType` | `Spec => []TypeOK` |
| | `SelectionsHaveAGrant` | `Spec => []SelectionHasAGrant` |
| | `SelectionsWereGranted` | `Spec => []SelectionWasGranted` |
| | `SelectionsAreTheBest` | `Spec => []SelectionIsBestOfAnInstant` |
| `SCCAdmission_proofs` | `HookAgreesWithBridge` | `Spec => []HookAndBridgeAgree` |
| | `AdmissionsHaveAGrant` | `Spec => []AdmittedHadAGrant` |
| | `AdmissionTypeCorrect` | `Spec => []TypeOK` |
| | `SettledPartsAdmit` | `Watched => (Spec => []UsableIsAdmitted)` |
| `DeployScript_proofs` | `ScriptSparesHost` | `Spec => []NothingInClusterOnHost` |
| | `FirstCompletionIsDone` | `Spec => []CompleteMeansDone` |
| `ResourceSyncer_proofs` | `ObjectsSettleInPlace` | `Spec => []SettledInPlace` |
| | `StatusesSettle` | `Spec => []SettledStatusReported` |
| | `RoutesAgree` | `Spec => []RoutesShareCA` |
| | `SyncerKeepsObjects` | `Spec => TenantKeepsObject` |
| `Deployment_proofs` | `DeploymentTypeCorrect` | `Spec => []TypeOK` |
| | `ServiceCAIsThere` | `Spec => []ServiceCAInPlace` |

`Spec` is that of the module's system: the bridge, the syncer, the hook, the
three together (`SCCAdmission`), and for the last three modules the whole of
`Deployment`. None of the proofs uses the fairness in it.

**Bridge.** `NoCollision` says that different bindings have different labels and
host names. The code does not ensure it, neither between vClusters (labels) nor
within one (hyphens, cut keys); the run `bridge_two_tenants` shows what happens
without. The order of role and binding is not inductive on its own: that a role
may be deleted depends on what the reconcile has listed, and on no other worker
adding a binding under its labels. `IInv` adds `KeysOwn` (a vCluster's queue and
worker hold its own keys), `LabelsMatch` (a host object has the labels of the
binding its name was made from) and `WorkersInFlight` (the role about to be
bound exists; what is left of a cleanup's bindings is among those it deletes; no
binding is left when it deletes roles). With `NoCollision` two workers never
share a key (`KeysDiffer`), so a write under one's own name leaves the other's
part of `IInv` alone (`OthersInFlight`). `OneWrite` then gives the action property
and the refinement: a step changes one of two objects under one name, and both
ends are legal stages.

**The settled bridge.** `GrantsInPlace` and `RevokedGrantsGone` speak of a
controller at rest; `Reconciled` says of every binding, at every instant, that its
host objects are right (`Right`), or its key or an event that wakes it is waiting
(`ToReconcile`), or the reconcile under way has read what there is, has written
what it should and will do the rest (`OnTrack`), or its controller is stopped.
An edit that changes a grant wakes its binding (`RoleEditWakes`,
`TenantsReconciled`), which wins over whatever the reconcile under way does with
what it read before; any other step either leaves a binding's grants, host objects
and worker alone (`Undisturbed`) or is a step of its own reconcile (`ReadsOnTrack`,
`EnsureOnTrack`, `CleanupOnTrack`). `NamesOfOne`, that host names of one binding
differ for different SCCs, keeps the second write from undoing the first.
`ConvergenceInv` joins this with `IInv`. It needs what the code does not ensure:
besides `NoCollision`, that RoleBindings refer to Roles (`RolesWake`: see
`bridge_role_through_rolebinding`), together `Watched`; and that no read fails whose
error the code takes for an answer (`ReadsSucceed`, the actions `MappingFails` and
`ResolveFails`). Failing host calls, failing reads of the binding and restarts are
allowed, any number of them.

SCCs are not watched, so that what a wildcard grants changes without waking
anyone. `Lasting` are the SCCs that a binding grants whatever SCCs come and go, those
granted by name, and `Revoked` says that it grants nothing whatever comes and goes;
the invariant speaks of these two, and edits of SCCs keep it
(`SCCsKeepConvergence`). That is `BridgeGrantsByName`. When wildcard grants stay
(`WildcardsStay`: there are none, or no SCC is edited), the two are all that a
binding grants, and that it grants nothing, which gives the two theorems about the
properties of the runs. `bridge_convergence` satisfies all their hypotheses.

**Names.** `PlainNames` is a condition on names alone that gives `NoCollision`: one
vCluster, keys of at most 63 characters, no two hyphens in a row in a namespace or
in the name of a ClusterRoleBinding, and no SCC name that ends in a hyphen and
another. The first two hyphens in a row of a key then are those that
`bindingKey` put there (`JoinSplits`), so a key tells its binding
(`KeysTellBindings`), and the SCC at the end of a host name tells where the key
ends (`EndsTellNames`). The runs `bridge_core`, `bridge_convergence` and
`bridge_live` satisfy it. OpenShift's own SCCs do not: as `hostmount-anyuid` ends
in `anyuid`, the bindings `team` and `team-hostmount` may meet.

**SCC syncer.** The ceiling is a condition on each field (`WithinByField`); a patch
takes each field from an SCC that was checked, or from a copy that was within the
ceiling when it was read or is now (`PatchedWithin`). `ReadWithinCeiling` adds the
read copy to the invariant. What holds once the queue is empty needs what holds
while a handler runs: `Fresh` says that as long as the key is not queued again,
the handler works on the SCC and the copy there are (`SettledInv`). That no
tenant's SCC is deleted for a copy the plugin took away itself rests on
`RememberedCopyExists`: a copy that is remembered, now or in the handler's event,
is there, unless the administrator deleted it (`MemoryInv`).

**Hook.** What a call has granted itself so far must be related to `seen`, the
history. `GrantInv` does it part by part: a granted SCC, the matches of the role
being resolved and the candidates each have their instant. For
`SelectionWasGranted` the parts belong to one instant as long as at most one edit
has been made: before it the history is the present, and after it the role is read
before or after (`GrantedInv`). The best of an instant must be foreseen:
`Coverage` says that before the first edit and failure each role listed is either
still to be resolved or found with all it grants, and nothing else is found;
`Foreseen` that until the second edit the call, carried on from where it is,
selects the best SCC of an instant that it has seen. That the choice depends only
on the set and the order in it (`BestIsUnique`) ties the two together.

**Hook and bridge.** `HookAndBridgeAgree` needs only that the tenants' objects are
typed (`RBACType`); the proof is that three evaluations of the same RBAC, the hook's,
the bridge's and `Granting`, come to the same. `AdmittedInv` follows what a call has found back to
the composition's history: the present is part of the history, and a call that
has found anything has found a role the account was bound to and a grant.

**Admission.** `UsableIsAdmitted` follows a grant through syncer, bridge and hook. The
proofs of the parts are reused: `BP` and `SP` are instances of the bridge's and the
syncer's proof modules with the composition's variables, each step of the
composition is a step of a part or leaves its state alone (`BridgeStep`,
`SyncerStep`), and so the theorems of the parts keep `AdmissionInv`. To the
bridge the tenant's SCC comes and goes unseen; this is where `Lasting` is needed
(`BP` allows edits of SCCs). When both are settled, the bridge's host binding names
the account and its role the SCC's host name (`NamedLasts`), the syncer has made the
copy of that name, and the hook, which reads both as they are, selects it
(`HookSelects`). `Watched` of this module adds that the tenant's SCC is not called
`restricted-v2`: the hook takes that name for the host's own SCC
(`hooks/scc.go:85`). `TypeOK` needs the same instances, and for the hook that what it
found are roles and bindings of the tenants (`TypeInv`). In `SCCAdmission` the bridge's
reads of virtual objects do not fail, so that `ReadsSucceed` is no hypothesis there;
the hook's reads, the syncer's handlers and the host calls may.

**Script.** `PastGuard` says that from the step after the guard of l.331 on, the
context is the vCluster's; nothing in a run changes it back, whatever background
`connect` is left. `FirstRun` adds that in the first run nothing moves the context
before the connect is started and no mandatory command was missed (one that is not
polled for, optional or guarded by a read). Both rest on a
few facts about the table `Steps`, which are proved from it once.

**Generic syncers.** As for the SCC syncer: `FreshAt` for each object, and `CachedCA`:
a settled copy that relies on the service CA has the one the process has cached. A
restart empties the cache and queues everything that a tenant or the host still
has, so both hold through rotations and through the loss of the Routes with a
pod. For a patch the objects' types matter: the copy a patch starts from may hold
fields of several versions (`Wanted`), and a backend that is translated must not
be translated again. `SyncerKeepsObjects` rests on
`RememberedCopyExists`: while nothing was changed on the host, a remembered copy
is there, and was when the worker's event was read.

**Deployment.** `ServiceCAInPlace` is about the order of the script's commands. The
proof has `BundleInPlace` (past the step that copies the CA, and once the
APIServices are there, which Routes need to be served, there is a CA to read) and
`CachedFromBundle` (an empty cache means that a read failed), together with
`SettledInv`.

Only model-checked: liveness (`GrantsConverge`, `RevocationsConverge`,
`CopyConverges`, `PodStarts`, `PluginComesUp`, `ObjectsConverge`), which is out of the
prover's reach, as is `ENABLED`. The safety and action properties of the passing
runs are all proved. The runs that expect a violation refute their properties and
have nothing to prove.

The hypotheses show what the code could be asked for: `RolesWake` would go with a
watch that wakes the RoleBindings of a ClusterRole (`sccrbac.go:371`),
`WildcardsStay` with a watch of SCCs, `ReadsSucceed` with errors that are returned
(`sccrbac.go:94`, `372`), `NoCollision` with labels and names that tell vCluster,
namespace and SCC apart.

### Not modelled

- Teardown (`Makefile:17-34`): deletions in a row, each ignoring errors. Read
  beside the bridge it shows a gap that no interleaving changes, the label of
  l.24, which is under `hazards`.
- The proxy: requests are forwarded one by one and share no state.
- Chart, manifests, templates, examples and `generate-cert.sh`: data and
  sequences of commands.
- The content of what the script copies; so `retry`'s messages in captured output
  (`deploy.sh:199`, `404`, `416`) appear only as commands that end the script.
- Labels, annotations and finalizers of synced objects, and virtual read errors,
  SCC edits and colliding names in the convergence runs of the bridge, where the
  code keeps no promise (see `hazards`).
