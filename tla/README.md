# Verification of karpenter-provider-vsphere

This directory holds a TLA+ model of the Karpenter cloud provider for vSphere: its modules, the TLC
configurations that check them on small instances, and TLAPS proofs of the properties that matter
most for every instance. `PROJECT.json` lists components, runs, mutants, the correspondence of every
definition with source lines, findings, hazards and theorems.

## The system

A single process (leader-elected) runs these parts; paths are under `src/pkg`.

| Part | State it keeps | Operations | Talks to |
|---|---|---|---|
| Cloud provider adapter (`cloudprovider`) | none; reads NodeClass, NodePool, NodeClaim from the informer cache | `Create`, `Delete`, `Get`, `List`, `GetInstanceTypes`, `IsDrifted` | called by Karpenter core and by the collector; calls the instance provider |
| Instance provider (`providers/instance`) | none of its own; everything is in vCenter | `Create`: clone, tag, power on, report. `Delete`: power off, destroy. `List`, `Get` | finder, vCenter tasks |
| Finder (`providers/finder`) | none | list by name prefix, look up by UUID, create and attach tags, resolve selectors | vCenter |
| vCenter (external) | machines: power state, name, tags, creation date | asynchronous tasks | |
| Garbage collection controller (`controllers/nodeclaim/garbagecollection`) | snapshots of one pass | list machines, list claims, list Nodes, compare and delete in up to 100 workers | adapter, API server |
| Node class status controller (`controllers/nodeclass/status`) | the class's finalizer, Kubernetes version, condition | add finalizer, discover version, patch status | API server |
| Node class hash controller (`controllers/nodeclass/hash`) | hash annotations of class and claims | migrate claims, annotate class | API server |
| Node class termination controller (`controllers/nodeclass/termination`) | the class's finalizer | wait for claims, remove finalizer | API server |
| User data, device specification (`providers/userdata`, `instance_devices.go`) | none | pure construction | called by `Create` |
| Operator, options | clients, flags | start-up | |

What is hard here: the calls of one claim and the collector's pass interleave over the same machines
with no lock between them; each call is a sequence of vCenter tasks, any of which may fail, or
succeed with a lost answer; the process may die between any two of them; the collector works from
snapshots taken at different times, one of them from an informer cache; the three node class
controllers patch one object from stale copies, with and without optimistic locking. The properties
that make the parts correct are:

* instance provider and adapter: a launched claim's machine runs until the claim is deleted, a
  finalized claim leaves no machine, deletion and launch end;
* collector: it never deletes a machine in use or of another cluster, removes Nodes only after their
  machines, and does collect every orphan;
* finder and launch preparation: a clone is placed on what its class selects, is large enough for its
  claim, its devices and user data are those of the class, and concurrent launches do not keep each
  other from tagging;
* node class controllers and drift: a class outlives its launches, its version never falls, a hash
  migration is never half announced and evicts no claim, a deleted class drains and goes away, and the
  controllers converge.

## Modules

| Module | Models | Extends |
|---|---|---|
| `Vsphere` | the vCenter inventory: power, names, tags, age of machines (external, as used by the code) | |
| `InstanceProvider` | `Create` and `Delete`, one action per vSphere task, with failures | `Vsphere` |
| `CloudProvider` | the decisions of `CloudProvider.Create` and of instance type resolution; class, types, pools | `InstanceProvider` |
| `GarbageCollection` | one pass of the collector, step by step | `CloudProvider` |
| `NodeLifecycle` | composition with Karpenter core, caches, time, users and crashes; the properties and the inductive invariant | `GarbageCollection` |
| `AbstractProvider` | the contract of a cloud provider that core relies on | |
| `NodeLifecycleProofs` | proofs: types, machines in use, foreign machines | `NodeLifecycle`, `TLAPS` |
| `LifecycleTraceProofs` | proofs: what is left of claims, Nodes and machines, whatever the clock does | `NodeLifecycleProofs` |
| `ContractProofs` | the proof that `NodeLifecycle` implements `AbstractProvider` | `LifecycleTraceProofs` |
| `TagInventory` | look-up, creation and attachment of tags by concurrent launches, one vCenter call per step | |
| `TagInventoryProofs` | theorems about `TagInventory` | `TagInventory`, `TLAPS` |
| `UserData` | generation and merge of user data, as operators on abstract documents | |
| `InstanceTypes` | parsing and choice of an instance type, size of the machine, as operators | |
| `LaunchPreparation` | what `Create` assembles before the clone: options, instance type, user data, selectors, devices | `UserData`, `InstanceTypes` |
| `LaunchPreparationProofs` | theorems about `LaunchPreparation` | `LaunchPreparation`, `TLAPS` |
| `UserDataProofs` | the proof about its user data | `LaunchPreparationProofs` |
| `Drift` | `IsDrifted` as operators on the annotations of claim and class | |
| `NodeClassControllers` | the three node class controllers, their caches and queues, launches and drift of the claims | `Drift` |
| `NodeClassProofs` | theorems about `NodeClassControllers` | `NodeClassControllers`, `TLAPS` |
| `MCNodeLifecycle`, `MCTagInventory`, `MCLaunchPreparation`, `MCNodeClass` | constants for TLC | |

### Machines and claims

`power[u]`, `vmName[u]`, `vmTags[u]` and `old[u]` describe the machine with BIOS UUID `u`; `old` says
that its `config.createDate` lies more than five minutes back, the only thing the collector asks of
time. `claim[c]`, `providerID[c]` are a NodeClaim in the API server, `cachedID[c]` its providerID in
the informer cache. `pc[c]`, `cur[c]`, `curType[c]` are the running call of the claim: Karpenter core
reconciles one claim at a time, so there is at most one. `gcPc`, `gcw`, `gcKnown`, `gcNodes` are the
pass of the collector: `gcw[u]` is where the loop of `List` or a worker stands with machine `u`. Claims
and Nodes are two calls: the claims are read from the cache as `cachedID`, and of the Nodes a stale cache
may miss any.

Each step of a call may fail (`Fault`): the failure leaves no trace, or leaves the task done (the
answer was lost), or, for tags, leaves any subset attached. A panic (for example the nil task after a
failed `PowerOn`, `instance.go:196`) is recovered by the controller runtime and so is a failure too.
`Crash` ends all calls and the pass and gives a fresh cache. `MaxFaults` bounds failures and crashes.

Names are pairs of cluster and claim: `GenerateVMName` is injective in the claim for a fixed cluster.
The prefix match of `ListVMs` is the constant `MatchingClusters`, the cluster names that start with
this one's. Tags are pairs of category and value; `ListedTagKey` is spelled as in `List`.

Karpenter core is external. It is modelled from the calls it makes: it launches a claim without
providerID, stores the result (keeping it in memory until the patch succeeds), deletes the claim on
`InsufficientCapacityError` and `NodeClassNotReadyError`, and finalizes a deleting claim by `Delete`
until `NodeClaimNotFound`. `DeleteClaim` stands for all its reasons to delete a claim.

Machines are stopped and destroyed only by this provider. An operator who stops a machine by hand
is not modelled.

### Contract

`AbstractProvider` has one machine per claim and no caches, tasks or crashes. `machineOf` maps a
claim to the state of the machine its providerID names; `ImplementsContract` says that every step of
the lifecycle is a step or a stutter of the contract.

### Tags

`NodeLifecycle` has tags only as attributes of machines. `TagInventory` refines the one step `Tag`
into the calls it makes: every launch visits its pairs in any order (a Go map), looks up and, on any
error, creates the category, then the tag, then attaches the collected tags. `categories` and `tags`
are shared by all launches; initially any of them may exist. A creation that fails may have happened.
Losing a race is one of the failures that `Tag` may take in the lifecycle.

### Preparation of a launch

`LaunchPreparation` follows one launch from the options to the clone task. A selector is a set of tags
and a name or pattern. A lookup by tags lists the objects of one tag per step and counts, as
`getObjectByType` does; `Retag` is a user who changes tags between any two steps, and `ever` remembers
what was attached at some time of the launch, not whether it was all there at once. Names are abstracted to the set of patterns that match
them. `image` and `deviceImage` are the two lookups of the image. `machine` is what the clone task
makes of its specification; vSphere refuses to remove devices that do not exist and to shrink a disk.
In `LaunchPreparation` the retry after a failure is left out: it starts again from the beginning.
Class and claim are inputs: `Create` reads them once and works on its copies, so an edit during a
launch changes nothing. They are chosen independently, because the claim was computed from the class
as it was when core scheduled its pods. Core's own types (`scheduling.Requirements`,
`resources.Fits`, `resource.Quantity`) are external.

`InstanceTypes` keeps the text of a quantity as number and unit, so that parsing, the failure of
`MustParse` and the two names of `16` and `16Gi` are what they are in the code. CPU and pods are
counted in thousandths; memory and storage in units of 64 bytes, of which both a decimal megabyte
(15625) and a MiB (16384) are multiples, since TLC's integers have 32 bits. `SizeUnits` has Ki, Mi, Gi, M
and G; the other suffixes, decimals and exponents of `resource.Quantity` are left out. Quantities without
unit are rounded up to that unit; the requests that the runs use are multiples of it.

`UserData` keeps paths, commands, systemd units and the rest of a document. Cloud-config appends the
additional files and commands; Ignition merges files by path and units by name, puts the commands of the
distribution into a script and adds the unit that runs it, unless the additional document has a unit of
that name. The translation of the join data itself (`ignition.go:27`, whose error is ignored) is taken to
succeed: its document comes from the constant template. The result goes under the guestinfo key that the
first-boot agent of the format reads.

### Node class

`NodeClassControllers` has one VsphereNodeClass in the API server (`api`, with its resourceVersion),
its copy in the cache and a copy per running reconcile. `gen` stands for the spec and hence for its
hash. Locked patches compare resourceVersions; plain patches send what differs from the copy, a list
counting as one value. `queue` holds the controllers with a pending request. An initial state is
either no class, or a class and claims that an earlier hash version has annotated.

A claim has its own hash annotations and the reason of its condition `Drifted`. `HashList` and
`HashStamp` are two steps of `updateNodeClaimHash`: the list decides, from the cache, which claims
count as drifted, and the patch comes later. `CheckDrift` is core's disruption controller, which asks
`IsDrifted` and stores the answer with a lock; it compares the claim with its NodePool first. `poolUp`
and `outdated` are that pool: whether it exists, and the claims made before its last edit.
`RefuseLaunch` is a launch that `Create` refuses because the class is missing or terminating.
`ReplaceClaim` is core's answer to a claim that is drifted or has lost its pool; it is one of the reasons
for `RemoveClaim`, the one that fairness speaks of. `AddClaim` is a new claim; it counts against
`MaxEdits`, as the edits of class and pool do.
Nothing in this release puts a hash on a new claim: one is stamped only if it exists while a class is
migrated, with the hash of whatever copy the migration has.

## Runs

All runs end within four minutes on two workers.

| Run | Instance | Question |
|---|---|---|
| `lifecycle` | 1 claim, 2 own machines and 1 foreign, 2 faults, `GraceCoversLaunch = FALSE` | safety of one claim's life, also when the five minutes are too short: a second machine suffices for a relaunch after a lost one, two faults for a failure during the recovery from another |
| `two_claims` | 2 claims, 2 machines, 1 fault, `GraceCoversLaunch = TRUE` | machines in use survive, their Nodes stay, claims do not interfere, workers run in parallel, the contract |
| `liveness` | 1 claim, 2 machines, 1 fault | deletions, launches and collections end |
| `unlisted` (violation) | class without tags of its own | `List` recognises own machines |
| `no_cluster_name` (violation) | `ClusterName = ""` | foreign machines survive |
| `class_safety` | a claim of an earlier release and a new one, 2 versions (a stale copy without a version suffices for a lost update), 1 edit or new claim, 1 fault; 7.6 million states | a class outlives its launches, versions never fall, the migration is complete when announced, drift has a cause |
| `class_liveness` | a launched claim of an earlier release and one that may be added, 1 version, 1 edit of class or pool or new claim; 0.7 million states | a deleted class drains and goes away, a living one converges |
| `foreign_finalizer` (violation) | 1 edit | finalizers of others are kept |
| `tags` | 3 launches, 2 with the same pool, both zone keys, 1 fault; three launches so that two can lose to one | races on tags |
| `preparation` | 9 objects, 24 classes that vary one part at a time; 7 claims, from one that fits exactly to one that fits nothing, with 4 lists of types and 3 disk sizes; 3 distributions, 2 retags (one tag moves), 1 fault | the clone matches the class and holds the claim |
| `malformed_userdata` (violation) | additional data that no parser accepts | user data is merged |
| `template_swap` (violation) | 2 retags | no card of the template remains |

`lifecycle` and `liveness` allow the class, its types and the pool to change at any time. Claims and own
machines are symmetric. The passing runs of the lifecycle give the class a tag under the misspelled
key (`OwnTags`): without it `List` is always empty and the collector never acts, which `unlisted`
shows; with it every step of the collector is exercised. The runs of the node class, of tags and of
the preparation switch deadlock checking off: once a class is gone, or a launch has ended, nothing is
left to do.

`GraceCoversLaunch` is the assumption behind the collector's constant of five minutes: a machine does
not become old while its launch runs, while its providerID is not yet in the cache, or between its
listing and its worker's look at the clock. The code does not enforce it: `createDate` is set before
the clone starts and a clone may take longer. `lifecycle` drops it, which allows more behaviours;
`LaunchedClaimRuns` and `ImplementsContract` are then false, and `two_claims` checks them with it.
`NodeRemovalSafe` has a part that needs the assumption (the Node of a live claim or of a running launch
stays) and one that does not (a Node goes only with its machine or its claim): `lifecycle` checks the
second, `two_claims` both.

`LeakIsPermanent` and `StuckNameBlocksLaunch` state limits of the code rather than its virtues: a
machine left stopped by a failure between two tasks is never removed by this provider, and the claim
it is named for can never launch. The liveness properties therefore carry the exception `Stuck`.
`PlacementMatchesSpec` says what the counting of `getObjectByType` gives: each tag was on the object at
some time of the launch, and with one change of tags at most, all were on it at once. With two changes an
object may be counted for one tag, lose it, gain another and be counted for that, and be selected although
it never had both; TLC shows this when the bound of one change is dropped from the property.

`DriftHasCause` says that no claim is evicted for a class that is there and unchanged. It does not say
that drift is reported: for a change of the static fields it never is (Findings). It does not rest on
that defect either: TLC finds it to hold on the instance of `class_safety` also with an
`IsNodeClassDrifted` that returns the reason.

### Fairness

Weak fairness of each claim's reconcile, of the cache, of the collector and of each controller: work
queues, the singleton ticker and watches keep going. Weak fairness of `RefuseLaunch`,
`CheckDrift` and `ReplaceClaim`: core retries launches, asks for drift periodically, replaces drifted
claims and removes the claims of a deleted pool. `DeletedClassDrains` rests on the last of these, which is
core's part. Strong fairness of `Age`: under
`GraceCoversLaunch` a machine's clock stands still whenever a pass holds it, and passes recur. No
fairness of users, kubelets, failures or crashes. `FinalizeEmptyID` is not fair: vCenter may reject
an empty UUID forever.

### Mutants

Every property of a passing run has a mutant: a variant of one modelled function, defined beside it
as `Mutant...`, with which the property fails.

## Proofs

Every safety property that a passing run checks is also proved, for all values of the constants that
satisfy the named assumptions: sets of any size, any number of failures, restarts and edits. TLC
evaluates the assumptions in every run, and it has checked each inductive invariant below on a run
before its proof.

`NodeLifecycleProofs` (`FaultBound`, `ClassBound`, `LifecycleConstants`):

* `TypeCorrect`: `Spec => []TypeOK`.
* `LaunchedClaimsKeepRunning`: under `GraceCoversLaunch`, `Spec => []LaunchedClaimRuns`. The property
  is not inductive. `IndInv` adds: `CallShape`, what each step of a call knows about its claim;
  `NamesMatch`, a machine that a claim records or a call uses carries the claim's name, so that two
  claims never meet in one machine; `LaunchProgress`, the machine of a launch is young and in the
  power state the launch has brought it to; and `CollectorSafe`, the heart of the argument: an old
  machine in use is in the cache, hence in the snapshot of claims taken after it was listed, and a
  machine that a worker deletes is in use by nobody. The proof has one lemma per group of actions.
* `ForeignMachinesSurvive`: if the foreign tags do not carry this cluster's name under the listed key
  (`ForeignNotTagged`), `Spec => []ForeignUntouched`. The invariant `ForeignInv` adds that no worker,
  call or claim ever refers to a foreign machine. The hypothesis is what an empty cluster name breaks.

`LifecycleTraceProofs` assumes nothing about time. `TraceInv` (`LifecycleTraces`) says what machines,
calls, claims and the collector's workers tell about one another: a worker that deletes a Node has
destroyed its machine (`WorkersTrace`); a claim that is gone has recorded no machine that is still
there (`GoneTrace`); while no call has failed, a machine is known to the claim it is named for
(`FaultTrace`); a launch that has its machine is the only one of its name (`NameTrace`). From it:

* `FinalizationIsComplete`: `Spec => []FinalizedClaimLeavesNoVM`.
* `NodesRemovedSafely`: `Spec => NodeRemovalSafe`, an action property. The part under `GraceCoversLaunch`
  takes from `IndInv` that a worker's machine is in use by nobody, and from `NamesMatch` that no other claim
  has the machine of a deleting one.
* `LeaksArePermanent`: `Spec => LeakIsPermanent`. The calls and workers that could touch a stopped
  machine again would have to attend to it now, and `TraceInv` says that none does.
* `StuckNamesBlock`: `Spec => StuckNameBlocksLaunch`, of the form "from some state on, forever": `Blocked`
  (a stopped machine holds the name, and no call of the claim has one) implies itself in the next
  state, because every further attempt fails at `Clone`.
* `RunningVMsAreListed`: if the class gives its machines this cluster's name under the key that `List`
  reads (`ClassTagsListed`), `Spec => []OwnRunningVMsListed`. `ListedInv` follows the tags from `Tag` to
  `PowerOn`: a machine that runs, or is about to, has all of them. The run `unlisted` is what happens
  without the hypothesis.

`ContractProofs`: `ContractImplemented`, under `GraceCoversLaunch`, `Spec => ImplementsContract`. The
refinement mapping is `machineOf`; with `IndInv` and `TraceInv` each action of the lifecycle is shown to
be a step of `AbstractProvider` or a stutter. The delicate steps are those in which a machine vanishes:
they must be the contract's deletion for one claim and invisible to all others, which `NamesMatch` gives.

`TagInventoryProofs`, for any number of launches and any wanted tags (`TagConstants`):

* `TagTypesCorrect`: `Spec => []TypeOK`.
* `RacingLaunchesSurvive`: `Spec => []SomeLaunchSurvives`. That some launch has not failed is not
  inductive: the last one left could be about to create what exists by now. `SomeoneAhead` says that
  some launch is `Ahead`: not failed, and what it is about to create is still missing. A launch that
  creates something is ahead itself afterwards, since its next step is a lookup; a step that creates
  nothing leaves the others as they were, and a launch that is ahead does not fail.
* `WarmLaunchesAreSafe`: `Spec => WarmLaunchesSucceed`. `WarmInv`: once all tags and categories
  exist they stay, and while no call has failed every launch is at a lookup or an attachment, or done:
  none is about to create anything, so none can lose a race to create it.
* `TagsAreReadBack`: if the tags of a launch are a map and its two zone keys agree (`OneValuePerCategory`),
  `Spec => []TagsReadBack`. `CollectInv` says that what was visited was collected.

`NodeClassProofs`, for any claims and versions and any number of edits and faults (`ClassConstants`):

* `ClassTypesCorrect`: `Spec => []TypeOK`.
* `VersionsNeverFall`: `Spec => VersionNeverDowngraded`. What the status controller compares with is
  its copy; `VersionInv` says that a copy with the stored `resourceVersion` is the stored object, so a
  patch that passes the lock has compared with the stored version.
* `NoFalseDrift`: `Spec => []DriftHasCause`. `DriftInv` adds that the cache lags behind the
  object, that a deletion is final, and that a claim is launched only once the class has been seen: a
  class missing from the cache is then one that is gone, not one that has not arrived. It contains
  `DriftOnlyByDeletion`, which leaves the edit out of the causes; that is stronger, true because of
  `drift.go:19`, and no more than a step of the proof.
* `MigrationComplete`: `Spec => []MigrationBeforeAnnouncement`. `MigrationInv` adds that the cache
  cannot miss a claim of the earlier release that is not stamped, so the migration's list is complete,
  and that without an error what is not stamped is still in the list.
* `ClassesOutliveLaunches`: `Spec => []ClassOutlivesLaunches`. `OutliveInv`, on top of `VersionInv` and
  `DriftInv`, follows the finalizer: a class in use has it; the first version is set while it is there
  (again by the lock); a class with a version loses it only when its deletion is in the cache, where
  every later launch reads it; and at that patch nobody uses the class, because `finalize` reads the
  claims from the cache that the launches read.

`LaunchPreparationProofs`, for any finite inventory and tags, any classes and claims, and any number of
edits of tags and failed calls (`PreparationBounds`, `InventoryConstants`; `LaunchConstants`: numbers are
numbers, and the parts of additional documents are lists; `NoObjectIsNoMachine`). `PrepInv`
(`PreparationInvariant`) has four parts. `ListingInv` is the counting argument of `getObjectByType`: an
object was counted at most once for each listed tag that it has ever had, so one whose count equals the
number of tags has had them all. `PlacedInv`: finished lookups hold objects that may be their result.
`InputInv`: instance type and user data come from the class and fit the claim. `DevicesInv`, `MachineInv`:
what is computed from the lookups. From it:

* `TypeCorrect`: `Spec => []TypeOK`.
* `PlacementIsAsSpecified`: `Spec => []PlacementMatchesSpec`, with any number of edits between calls: each
  tag was there at some time, and with one edit at most all were there together.
* `DevicesAreOfTheImage`: `Spec => []DevicesFitImage`; without edits, what was found is a candidate still,
  and there is one.
* `MachinesHoldRequests`: `Spec => []MachineHoldsRequests`; the lemmas `RoundedUp` and `DiskHoldsStorage` are
  the arithmetic of its units.
* `LaunchableClassesLaunch`: `Spec => []LaunchableIsLaunched`, and `AmbiguityIsRefused`:
  `Spec => []AmbiguousNetworkRefused`. `QuietInv` is the other half of the counting argument: while nobody
  edits tags, a candidate is counted for every listed tag. `NetworkInv`: each kind of network that was
  searched and has candidates has left one among those found.

`UserDataProofs`: `UserDataIsComplete`, `Spec => []UserDataComplete`, for additional documents of any
length.

Only model-checked are the liveness properties (`DeletedClaimsTerminate`, `OrphansCollected`,
`LaunchSettles`, `DeletedClassDrains`, `ClassConverges`): fairness is out of the prover's reach. The
violations that the other runs show are counterexamples, which need no proof.

## Findings

* `List` filters by `karpneter.sh/clustername`, `Create` tags with `karpenter.sh/clustername`: the
  collector sees no machine (run `unlisted`).
* An empty cluster name passes `Validate` although documented as required; the collector then
  destroys machines of other clusters in the folder (run `no_cluster_name`).
* The status controller's unlocked patch of the finalizer list can remove another component's
  finalizer (run `foreign_finalizer`).
* The error of `Render` is overlooked, and a machine is cloned without user data (run
  `malformed_userdata`).
* The image is resolved twice, and device changes of one template may be applied to another (run
  `template_swap`).

Also met while modelling, and without a run of their own: an image selected by a pattern need not be a
template (`name.go:36`; `LookupByName` models it); the documented value `*` of a selector's tag is
taken literally (`tags.go:113`); `rke2` is rejected at start, since `Validate` requires a version that
no flag sets (`options.go:92`; `Validate` models it). A drift of the static fields never reaches core,
since the reason is returned together with an error (`drift.go:19`, `cloudprovider.go:272`;
`IsNodeClassDrifted` models it), and so it has no effect either that the migration may stamp a hash that
does not belong to the spec a claim was made from (`hash/controller.go:81`). A type without `maxPods`, which the README calls "not implemented",
makes `MustParse` panic and with it every launch and listing of the class, other types included
(`cloudprovider.go:297`; `Panics`). `memory: "16"`, which the README's "amount of memory in gigabytes"
suggests, is 16 bytes, under the name of a type with 16 GB (`cloudprovider.go:296`; `Bytes64`,
`ToCPITypeFormat`). A class with a negative `diskSize` launches nothing, because a negative capacity
fits no claim (`cloudprovider.go:321`; `Fits`).

## Not modelled

Generated code and mocks, start-up wiring, Helm charts, logging and events. Wording and layout of user
data. `RepairPolicies` is a constant list. The labels of the NodeClaim that `Create` returns (zone,
capacity type, the memory tag) are copied from the class's tags or computed and never read back by this
code. The fields `region`, `arch` and `dcSelector` of a class have no effect. An ended vCenter session
is not told from other failures. Class and pool are abstract in the lifecycle (`CloudProvider`): what
makes a class ready or terminating is the subject of `NodeClassControllers`, and composing the two in
full is beyond TLC on one machine.

## Plan

Done: lifecycle of machines and claims with collector, contract, first proofs; node class controllers
with launches and drift, and proofs of their safety; tags with proofs; preparation of launches with instance types and guestinfo.
Proofs of every safety property, of the action properties and of the refinement.

What is left are proofs that would say more than the runs ask: that the pair of steps by which
`TagInventory` tags a machine implements the one step `Tag` of the lifecycle, and that
`NodeClassControllers` implements the class that the lifecycle assumes (`CloudProvider`).
