# TLA+ verification of capi-janitor-openstack

Models of the janitor controller, the properties it has to keep, and proofs of
the ones that matter most. Paths such as `internal/controller/...` are relative
to the repository root; `PROJECT.json` maps every definition to its lines.

Run a check with `tlc -config <Run>.cfg <Module>.tla` and a proof with
`tlapm <Module>.tla`.

## 1. The system

When a Cluster API cluster on OpenStack is deleted, CAPO (the OpenStack
provider) removes what it created and leaves what the cluster itself created:
load balancers, floating IPs and security groups of OCCM, volumes and snapshots
of Cinder CSI. The janitor holds a finalizer on the `OpenStackCluster`, removes
those leftovers, destroys the application credential and its Secret when their
owner has asked for that, and only then lets the object go.

| Component | State it keeps | Operations | Talks to |
|---|---|---|---|
| Controller (`internal/controller/openstackcluster_controller.go`, `credential_cleanup.go`) | nothing in memory; the finalizer and the checkpoint annotation on the `OpenStackCluster` | `Reconcile`, `addFinalizer`, `reconcileDelete`, `resumeCredentialCleanup`, `checkCleanupInputs`, `saveCredentialCheckpoint`, `finishCleanup` | API server, a cleanup session |
| Pause and watches (`lifecycle.go`) | two field indexes over a cache | `isPaused` (past the cache), the predicate on owners, `requestsForCluster`, `requestsForSecret` | API server, informers, work queue |
| Cleanup session, credential binding (`internal/openstack/purge.go`, `client/`) | token, catalog, binding | `NewCleanupSession`, `Cleanup`, `Binding`, `DeleteApplicationCredential`; `DescribeCredential` and `ValidateCredentialBinding` without a session | Keystone |
| Cleanup runner (`internal/cleanup/runner.go`) | nothing between passes | `Run`: inventories, selection, one phase of DELETEs | the resource services |
| Inventories (`internal/openstack/{loadbalancer,network,volume,pageutil}`) | nothing | `List...` over validated pages, project checks | Octavia, Neutron, Cinder |
| DELETE and its classification (`apierrors/`, `identity/`) | nothing | `ClassifyDelete`, `ClassifyApplicationCredentialDelete` | any service, Keystone |
| Entry point (`cmd/main.go`) | flags | the manager's start, leadership and end | all of the above |
| Metrics and events | counters | write-only | none |
| Chart, kustomize, end-to-end tests | none | deployment | none |

**What is hard.** Reconciliation is level-triggered and stateless: whatever it
knows, it read some calls ago, and users, CAPO, other controllers, the cloud
and a second replica act between any two calls. A checkpoint has to carry, over
restarts, the fact that the resources are gone, because after the credential is
destroyed nobody can look again. Deletions in the cloud are asynchronous, may
be refused, may fail after they were accepted, and their answers get lost.
A reconciliation reads past the cache while what wakes it up comes through it,
so the two disagree about what has happened.
Inventories come in pages, while other clients delete. `PROJECT.json` lists
every such hazard at its line.

**What makes each component correct.**

- Controller: a resource the cluster owns never outlives the finalizer or the
  credential; a credential is destroyed only under a checkpoint that names it;
  a Secret only once its credential is dead; neither while another cluster
  refers to it; nothing is written to a paused or replaced object; a deletion
  always finishes unless a documented reason holds it.
- Runner: only what is the cluster's own is deleted, each kind only when the
  kinds before it are gone, and completion is reported only when nothing is
  left; repeated passes end.
- Inventory: complete or an error, and never an item of another project.
- DELETE: "done" means done, "wait" and "forbidden" are the service's words.
- Watches: no change is overlooked, although a paused reconciliation asks for no
  other one; a cluster for which nothing is under way has nothing left to do.
- Session: the credential that is destroyed is the one, in the place, that was
  verified, and a configuration that means the same is not taken for another.

## 2. Modules

| Module | Models | State and actions |
|---|---|---|
| `CredentialCleanup` | The controller: every API call of a reconciliation is an action; a second process, users, CAPO, Keystone and the cloud interleave | `cluster`, `rv` (objects and resourceVersions), `ownerPaused`, `secret`, `alive` (credentials Keystone knows), `cloud` (resources), `defaultPolicy` (flag of each process), `job` (local variables of each worker's reconciliation; `pc` is the call it makes next) |
| `CredentialRetirement` | What it promises, without reads, retries and replicas: a ledger with two entries per cluster | `guarded`, `ledger`, `existing`, `valid` |
| `CredentialCleanupProofs`, `HandoverProofs`, `RetirementProofs` | Theorems about it, each module on the one before | |
| `MCCredentialCleanup` | Instances for TLC | |
| `WatchQueue` | What wakes a reconciliation up: API, informers, cached indexes, predicate, handlers, queue, delays, start and crash of the process | `object`, `owner` (API); `objectNews`, `ownerNews`, `secretNews` (on their way); `objectCache`, `ownerCache`; `up`, `queue`, `delayed`, `worker`; `unseen`, `missed` are history variables |
| `CleanupSession` | From `clouds.yaml` to a session, its recorded binding, and the sessions of later reconciliations | `clouds`, `selection` with their versions; `live`, `remaining` (Keystone, cloud); `ckpt`; `pc`, `goal`, `seen`, `session` (the reconciliation) |
| `WatchQueueProofs`, `SessionProofs` | Theorems about these two | |
| `MCWatchQueue`, `MCCleanupSession` | Instances for TLC | |
| `CleanupContract` | What the controller assumes of a pass | `remaining`, `verdict` |
| `CleanupRunner` | `Run`, pass after pass, over an asynchronous cloud | `status`, `tags`, `kept`, `hidden` are the cloud's; `pc`, `listed`, `todo`, `outcome` the runner's; `vetoed` is a history variable |
| `Ownership` | Names and tags: which load balancers are the cluster's | operators |
| `RunnerProofs`, `MCCleanupRunner` | Theorems and instances | |
| `Inventory` | One `List` method over pages | `report`, `present` are the cloud's; `marker`, `listed`, `outcome` the walk's |
| `InventoryProofs`, `MCInventory` | Theorems and an instance | |
| `DeleteRequest` | One DELETE through Gophercloud's reauthentication and `apierrors` | `target`, `code`, `reauth`, `wrapper`, `stage`, `verdict` |
| `DeleteRequestProofs` | Theorems about it | |

`CredentialCleanup` refines `CredentialRetirement` (property
`ImplementsRetirement`): a cluster is guarded while it has the finalizer, its
ledger entry is the stored checkpoint, and of the calls of a reconciliation only
the patches, the purge and the DELETE of the credential are steps; all others, of
any number of workers, stutter. Condemn may happen only when the scope that is
written down is empty, Destroy only under the entry that names the credential,
Confirm only when it is dead, Release only before the first or after the second
entry.

`WatchQueue` and `CredentialCleanup` meet in the work queue: `WatchQueue` has the
cleanup as one step that succeeds in the end (`CleanupDone`), which
`CredentialCleanup` shows, and shows in turn that a key is served again, which
`CredentialCleanup` assumes of `Get`. `CleanupSession` opens up the one value
that a credential is in `CredentialCleanup`.

`CleanupRunner` EXTENDS `Ownership` and refines `CleanupContract` (property
`ImplementsContract`). `CredentialCleanup` uses exactly that contract:
`CleanupWaiting` removes some resources and reports nothing of use,
`CleanupComplete` is possible only when the scope is empty. `CleanupRunner`
assumes of an inventory what `InventoryIsComplete` and `InventoryIsOwn` prove,
and of a DELETE what `DoneMeansDone` says.

**Correspondence in `CredentialCleanup`.** `Get`, `IsPaused` and `Add...` are
`Reconcile` and `addFinalizer`. `FindSecret` is the first Secret read of
`reconcileDelete` and the dispatch of `resumeCredentialCleanup`, with the early
returns of both.
`CheckSecret`, `CheckCluster`, `CheckOwner` are the three reads of
`checkCleanupInputs`, which runs before each write with a `goal`: to save a
checkpoint, to finish, to delete the credential or the Secret. `DeleteCredential`
and `ConfirmDeletion` split the DELETE at Keystone into the moment it is carried
out and the moment its answer arrives. `LockedPatch` is a merge patch with an
optimistic lock. `Fail` stands for every error return, for a lost answer and for
a process that stops: reconciliation keeps nothing in memory, so all of them
leave the worker idle. A step without a call is folded into the call before it.

**Correspondence in `WatchQueue`.** A write to the API appends the new version to
the news of its kind; `Deliver...` moves it into the cache and adds the requests
of its handler: for an owner, the clusters that the index has under the old or
the new UID, if the predicate lets the update pass. `Take` is the request and
the first `Get` of `Reconcile`, `Dispatch` its `isPaused` and the early returns,
`Check`, `CheckPaused` and `Patch` are `addFinalizer`, or `finishCleanup` with
`checkCleanupInputs`. `Finish("over")` returns an empty result, `Finish("again")`
an error or `RequeueAfter`. Two clusters never interact here except through a
common owner or Secret, whose handler treats them one by one.

**Correspondence in `CleanupSession`.** `Read` is the start of `reconcileDelete`
with `checkCheckpointBinding` of a resumption, `NewClient` authentication and
token, `CleanupWaits` and `CleanupCompletes` a pass of the runner in one project
and region, `Check` and `Save` are `checkCleanupInputs` and
`saveCredentialCheckpoint`, `Delete` is `DeleteApplicationCredential`. A URL is
the record of the parts `NormalizeAuthority` tells apart (scheme, host, case,
port, path, trailing slashes, forbidden extras). `Recorded` says, independently
of the code's comparison, when a configuration means the recorded credential.
Two spellings are outside that record. A port that is written but empty
(`https://host:/v3`) is kept as it is by `NormalizeAuthority`, so another spelling
of it counts as a change, and the deletion waits. And surrounding space, which
`ValidateCredentialBinding` refuses in every field, occurs in the model in the
cloud name only, which stands for the others: the check is the same.

**Abstractions.** In `CredentialCleanup` a credential value stands for the whole recorded binding
(authority, project, user, region, interface, cloud name and ID). A cluster name
is a value; its derivation from label and object name is not modelled. A parse
error, a malformed checkpoint or a missing field ends a reconciliation without
a write and is covered by `Fail`. In `Ownership` a name is the sequence of its
parts between underscores, the only structure the prefix and tag rules see.

**Idle reconciliations.** `Get` is not enabled for objects `Reconcile` leaves
alone (absent, paused, finalized already, deleted without the finalizer); they
have no effect, and leaving them out keeps the fairness assumption honest.

## 3. Runs

States are distinct states; every bound is a constant in the `.cfg`.

| Run | Config | Instance | States | Shows |
|---|---|---|---|---|
| `handover` | `Handover.cfg` | 1 cluster, 2 workers, 1 Secret, 2 credentials, 2 edits (pause, secret, replace, create), 1 fault | 947,516 | No late write of an old leader takes a checkpoint back, reaches a paused or replaced object, or destroys a credential without a checkpoint that names it; every call is a step of `CredentialRetirement` |
| `edited` | `Edited.cfg` | 1 cluster, 1 worker, 2 credentials, 2 names, 3 resources, 3 edits of any kind but rebind, 1 fault | 1,419,082 | Whatever users do between two calls, a checkpoint never vouches for resources that exist, the finalizer goes only from a clean cluster, and the deleted Secret holds a dead credential |
| `shared` | `Shared.cfg` | 2 clusters, 2 workers, 2 Secrets, 2 credentials, 1 edit (rebind, create) | 4,641,748 | A shared credential or Secret survives as long as another cluster refers to it |
| `live` | `Live.cfg` | 2 clusters on 1 Secret, 1 worker, 2 credentials, 2 edits (pause, secret, replace), 1 fault | 268,346 | A deletion stands still only for a documented reason; left alone, both complete and do not wait for one another |
| `owner_pause` | `OwnerPause.cfg` | 1 cluster, 1 worker, 1 edit | violation | Finding 1 |
| `runner` | `Runner.cfg` | 2 load balancers (own, shared), their floating IPs, a security group, a snapshot, 2 volumes; either policy; 1 edit, 2 faults | 29,094 | Only what is owned goes, in phase order; completion means nothing is left; repeated passes end unless something protected is in the way |
| `runner_foreign_name` | `RunnerForeignName.cfg` | 1 load balancer of another name, 1 floating IP | violation | Finding 2 |
| `watch` | `Watch.cfg` | 1 cluster with an owner and a Secret, 4 edits of any kind, 1 fault of any kind (call, List, watch, crash) | 657,085 | A change is never overlooked, a cluster for which nothing is under way has nothing left to do, and every cluster settles |
| `unpause_lost` | `UnpauseLost.cfg` | the same, 2 edits, the watch may start over | violation | Finding 3 |
| `session` | `Session.cfg` | 2 cloud names, 13 entries (spellings of one, and others that differ from it in one part), 2 Keystones, 2 edits, 1 fault | 459,324 | What is destroyed is what was recorded, where it was verified; what is stored can be read; a resumption is let through exactly when the configuration still means the recorded credential; a deletion that has begun is confirmed unless an edit or a fault comes between |
| `inventory` | `Inventory.cfg` | 3 items, 10 kinds of report, 5 collections | 399,704 | An inventory that ends without an error is complete and has nothing of others |
| `delete_request` | `DeleteRequest.cfg` | 10 codes and no answer, 2 attempts | 236 | Success is reported only for what was carried out; refusals are the service's |

**Why the bounds are enough.** Two workers are the old and the new leader; a
third adds no new pair of calls that race. Clusters meet only in a Secret,
and two of them on one are enough for that. Two credentials tell "recorded"
from "rotated in", two names "recorded" from "relabelled". Three edits let a
user undo an edit and make another one (rotate, delete, recreate). One fault in
the controller suffices to put a crash or a lost answer at each call, and
repeated ones differ only in how often the same reconciliation starts over. The
runner's two faults allow a failed deletion and a failed call in one history.
In `watch` four edits let an owner be
paused, resumed, deleted and recreated, or a cluster be paused, resumed, adopted
and deleted, with one fault at any point; an owner has as many versions on their
way as there are edits. In `session` two edits change the Secret and undo it, or
change the Secret and the selection; its entries differ from one another in one
part each. `live` has one worker: with two of them and two clusters the graph is
too large for TLC's liveness check, and what a deposed leader can still do is
covered by the safety properties of `handover`.
Three items, each with any of ten reports (both projects in full, in one field,
in none, in contradiction; a fact missing) in each of the five collections, allow
an empty, a sparse and a last page in each order. `handover` and `edited` share the kinds of edits between them
because their product is too large. `shared` starts with both clusters on one
Secret and has one edit: a cluster is recreated with a reference to the Secret
while the other is deleted, or moves away from it while the deletion of either
runs. Its resources are one load balancer, since nothing there depends on more. `DeleteRequest` has a code of every class that any function of
`apierrors` tells apart.

Deadlock is not checked where the system may really stop: `CredentialCleanup`
stops when every cluster is gone and the bounds are used up, `Inventory` and
`DeleteRequest` end, `CleanupSession` rests on a configuration that is no longer
the recorded one. `CleanupRunner` and `WatchQueue` never stop and are checked.

**Assumptions of the environment** (each is visible as a guard or constant).

- After a checkpoint names a Secret no new reference to it appears
  (`LateReferences = FALSE`; `docs/design/python-compatibility-policy.md:160`
  asks users for it). `NoSharedDestruction` needs it: the list of
  references and the DELETE are two calls, and nothing locks the others.
- Two clusters that share a credential and are deleted at once may both keep
  it; line 162 of that document says so, and there is no "no orphan" property.
- Nothing is created in the cloud once a deletion has begun, since the machines
  that ran OCCM and Cinder CSI are gone first.
- Leader election is on in the chart and off by default in `cmd/main.go:71`. Two
  workers model the overlap in which a deposed leader's call is under way.
- Each cluster is reconciled by at most one worker of a process.
- A server answers 204 to a list request only when nothing is left. The code
  cannot tell, see the hazard at `collection_page.go:35`.

**Fairness.** `CredentialCleanup!Fairness`: a reconciliation that runs makes its
next call (calls have time-outs and reconciliations no waits). `Get` is strongly
fair per worker and cluster, since it is disabled while the worker serves another
key: `ClustersSettle` of `WatchQueue` is the ground for that. A `CleanupWaiting`
that keeps recurring eventually removes something (`CleanupEnds` is what the
runner shows of this). CAPO and the holder of a Secret finish their own work.
Users are not fair: nothing makes them undo an edit. In `CleanupRunner` the
controller repeats a pass, and the cloud carries out what it accepted; its
failures are bounded by `MaxFaults`. In `WatchQueue` informers deliver, delays
end, the single worker makes its next call, and the queue, first in first out,
leaves no key out for ever (`SF` of `Take`, disabled while another reconciliation
runs); the process is started again (a Deployment); `CleanupDone` is strongly
fair, which `DeletionFinishes` stands for; and the cache is resynced
(controller-runtime's default of ten hours, which `cmd/main.go` leaves alone).
`ClustersSettle` needs the last one only for what a fault has lost. Since the
resync wakes up every cluster, this property cannot tell whether a watch handler
loses wake-ups; the safety properties `ChangesTriggerReconciliation` and
`QuietMeansSettled`, which hold without the resync, do. In `CleanupSession` a deletion is
retried and a cleanup that is repeated comes to its end.

**Stalled.** `DeletionFinishes` lists the only states a deletion may rest in:
paused; no Secret, or a dead credential, before `secretDeleteStarted`; a Secret,
name, reference or policy other than the recorded one; another reference. The
second includes the lost answer to the credential's DELETE: the controller then
neither authenticates nor advances and waits for an operator, as the policy
document describes. No other state is a dead end. A mutual wait of two clusters
is a case of "another reference"; that there is none is what `DeletionCompletes`
shows.

**Confirmation.** `BegunDeletionGoesOn` follows one deletion through its DELETE to
`secretDeleteStarted`. It makes four exceptions: a fault, an edit of Secret or
cluster while a reconciliation works with what it read before (`Outdated`), a
configuration that is no longer the recorded one, and a credential that no longer
exists when the claim is made. An edit or fault before the DELETE leaves the
credential, for which the claim starts anew; one between the DELETE and the
write is final. README.md:166 names the lost answer and the lost write; an
edit in that window has the same effect, because `saveCredentialCheckpoint`
compares the Secret's resourceVersion once more after the DELETE
(`credential_cleanup.go:256`), and is listed as a hazard.

### Findings

Three runs show the code doing other than a document says. Their counterexamples
have a handful of steps.

1. `owner_pause`: README.md:120 says that finalizer changes are skipped while the
   owning CAPI `Cluster` is paused. The owner is read before the patch, which is
   locked to the `OpenStackCluster` only, so a pause in between is missed.
2. `runner_foreign_name`: `resource-ownership-matrix.md:60` excludes the floating
   IP on the VIP of a shared load balancer. The code protects only load
   balancers whose *name* is this cluster's; `runner_test.go` asserts that.
3. `unpause_lost`: README.md:122 says that removing the pause triggers a
   reconciliation. A reconciliation reads the pause past the cache and ends
   without a requeue; the predicate compares what the watch has delivered. When
   that watch has to start over, a pause that came and went in between is one
   update without a change, and only the periodic resync wakes the cluster up.

A load balancer that another cluster begins to share after the inventory is
deleted all the same: the DELETE carries no condition. `OnlyOwnedIsDeleted`
judges by what was shared when the pass began, and no property claims more. Nor
does one question the selection by name: the matrix keeps the prefix, and
`NamesAssumption` (section 4) says which names OCCM gives.

## 4. Proofs

TLC shows a property on one small instance; the theorems show it for any finite
or infinite set of clusters, workers, Secrets, credentials, resources, items,
codes and configurations, and for any bounds. Every invariant and action
property that a run checks is a theorem, and so are both refinements. Each proof
is an inductive invariant (`Inv`, or `FullInv`), which holds initially and which
every action preserves, and from it the property.

| Run property | Theorem |
|---|---|
| `TypeOK` of the six modules with state | `TypeCorrect`, `RunnerTypes`, `InventoryTypes`, `DeleteTypes`, `WatchTypes`, `SessionTypes` |
| `CheckpointInv`, `CheckpointVerified`, `ConfirmedPhaseMeansDead` | `TestimonyHolds`, `VerifiedBeforeCheckpoint`, `ConfirmationIsSound` |
| `ReleasedClean`, `CredentialDestroyedUnderCheckpoint`, `SecretDestroyedDead`, `PatchesRespectPauseAndIdentity` | `ReleaseIsClean`, `DestructionIsRecorded`, `DeletedSecretIsDead`, `PatchesAreCurrent` |
| `CheckpointOnlyAdvances`, `NoSharedDestruction`, `ImplementsRetirement` | `CheckpointsAdvance`, `DestructionIsAlone`, `ControllerImplementsRetirement` |
| `OnlyOwnedIsDeleted`, `PhaseOrder`, `ImplementsContract` | `OwnedIsDeleted`, `PhasesAreOrdered`, `RunnerImplementsContract` |
| `CompleteListsAll`, `OnlyOwnProject` | `InventoryIsComplete`, `InventoryIsOwn` |
| `DoneMeansDone`, `RefusalIsTheServices` | `DoneIsDone`, `RefusalsAreTheServices` |
| `ChangesTriggerReconciliation`, `QuietMeansSettled` | `ChangesTrigger`, `QuietIsSettled` |
| `StoredCheckpointIsReadable`, `ResumesExactlyTheRecorded`, `DestroyedWhereVerified` | `CheckpointsAreReadable`, `ResumptionIsExact`, `DestructionIsVerified` |

### Assumptions

Besides the types of the constants, which each module states by name:

- `NamesAssumption` (`CleanupRunner`): a load balancer whose name starts with the
  cluster's reserved prefix is named for exactly this cluster. OCCM joins
  Kubernetes names, which have no underscore. Without it the selection by name
  takes more than the ownership matrix grants.
- `KindsAssumption`, `PartsAssumption` (`CleanupRunner`): kinds of resources are
  disjoint, and a cluster has a name.
- `DeleteAssumption` (`DeleteRequest`): codes are HTTP status codes, and no answer
  is not one of them.
- `InventoryAssumption`, `EntriesAssumption` say what an API report and an entry
  of `clouds.yaml` can be.
- `DestructionIsAlone` has the hypothesis `~LateReferences`, the rule users are
  asked to keep (section 3). No other theorem has one.

### The controller

`CredentialCleanupProofs`. `TypeOK` alone is not inductive: the goal
of a check selects the next call (`AfterCheck`), so `TypeInv` adds that a worker that
checks its inputs has a goal. `CheckpointVerified` and `ConfirmedPhaseMeansDead`
speak of stored checkpoints and are not inductive either: a checkpoint is written
from a worker's local plan, which was computed some calls after the inventory.
`WorkerInv` says what a worker knows at each call: the checkpoint it has read is
still true, a plan it is about to save is true, before the list of references its
scope is empty, after the DELETE its credential is dead. Testimony lasts, because
resources and credentials only disappear (`Monotone`, `TestimonyLasts`). A step
concerns one worker (`StepKeepsWorkerInv`, one step per action); the others keep
theirs (`BystanderInv`); patches write a plan or leave the checkpoint alone
(`PatchKeepsTestimony`).

`HandoverProofs` is about what a read is worth later, when other workers and
users have acted. `ReadsInv` says of each worker:

- `ClusterRead`: the version it has seen is not in the future, and if it is still
  the stored one, what it has checked of the object still holds. A checkpoint it
  has read is still stored, or `Outdated`: its credential is dead, or its Secret is
  gone. That second half is what makes a late worker harmless: what it still wants
  to do has been done.
- `SecretRead`: the same of its Secret, by resourceVersion.
- `Purpose`: what each goal and call presupposes (`FirstPass`, `Saving`,
  `Finishing`, `Resuming`): a finalizer is about to go only from an empty scope
  before the first or after the last checkpoint, a credential only under a
  checkpoint that names it and the Secret it came from.

`NextEvolves` and `NextKeeps` say what a step of anybody does to the
API server (a write takes a new version, a UID is new or the old one, a
checkpoint stays until outdated), and the rest follows from these two for all
bystanders at once. A patch under an optimistic lock then writes to the object
that was read (`PatchesAreCurrent`), and the four action properties are read off
`Purpose`.

`RetirementProofs` classifies the writers of an `OpenStackCluster` (`Writers`: a
creation, somebody else's write that keeps the record, and the three patches
`Guards`, `Records`, `Releases`). `CheckpointsAdvance` looks at each of them, and
the refinement maps them: others stutter (`OtherWriteMaps`, `CreateMaps`), the
patches are Guard, Condemn or Confirm, and Release. The mapping needs one more
invariant, `AbsentUnguarded`: an absent object has no finalizer to lose.
`DestructionIsAlone` adds `Alone` for each worker before a DELETE: its checkpoint
is outdated, or nobody else refers to its Secret. It lasts because a checkpoint
stays until it is outdated and, under `~LateReferences`, bars new references
(`NoNewReference`).

### The runner

`RunnerProofs`. `OnlyOwnedIsDeleted` and `ImplementsContract` both fail to be
inductive at one point: the selection protects a floating IP by the port and tags
of an inventory, and tags, ports and load balancers change after it. `VIPsKept`
carries the argument through: a load balancer is deleted, or planned, only when no
floating IP of the cluster is left on its VIP, except under the protection of
another one that is shared and that nobody is about to delete (`Safe`). So a VIP
that `ProtectedPorts` does not know about has no floating IP that matters.
`FactsHold` says what a fact of the inventory still says later (tags are only
added), `Preflight` what the load balancers' inventory guarantees to that of the floating
IPs, `PhasesDone` what is cleared at each call, `VetoLasts` that nothing
protected when the pass began is planned or becomes the cluster's.
`RemainingShrinks` gives the contract's steps, `CompletionIsTrue` its last one.
`ValidTagNames` relates the code's left-to-right reading of a tag to the matrix's,
which reads it from the right; `TagsNameOneCluster` follows: no tag is valid for
two clusters, so that what one cluster owns exclusively no other does.

### Inventories and DELETE

`InventoryProofs`, for any number of items, any reports the API may make and any
paging. The invariant: every item of the project up to the marker that still
exists is listed, and the API is honest. `AnswerShows` is the key lemma: an
acceptable answer shows all that exists between the marker and the next one, and
an answer that ends the walk shows all that is left.

`DeleteRequestProofs`, for a service that may answer any codes in any order. An
answer, once true, stays true (`AnswerIsTrue`), because a target does not come back;
only a first 401 interrupts the exchange (`Protocol`); and the verdict rests on
the last answer of the service itself, not on Keystone's to the
reauthentication in between (`VerdictIsTheServices`).

### Watches

`WatchQueueProofs`. The invariant relates cache and API by what is still on its
way:

- `InformersFollow`: the last version on its way, or else the cached one, is the
  API's.
- `UnseenIsCovered`: a change that no reconciliation has seen is in the queue, or
  on its way as an object, as a Secret, or as an owner's change that the predicate
  will let pass (`WillWake`), unless a fault has lost it. The predicate compares
  neighbours, so `WakesNow`, `WakesLater` and `WakesDelivered` show that a change
  that wakes a cluster stays among them until it is delivered.
- `ViewIsCurrent`: a reconciliation after whose start nothing has changed works on
  the object as it is.
- `SeenIsSettled`: a cluster that has been seen and that is neither queued nor
  delayed nor reconciled has nothing left to do.

### Sessions

`SessionProofs`. `NormalForm` and `OneNormalForm` are about
`NormalizeAuthority`: it is idempotent, keeps a URL valid, and two valid URLs
have one normal form exactly if HTTP takes them for the same service. From them,
`MatchesTheRecorded`: the code's comparison of bindings decides exactly what
`Recorded` defines without it. The invariant: a reconciliation works with
the binding of what it has read (`SessionsAreRead`), records only what it has
verified and only if nothing is recorded yet (`FirstRecord`), and a stored
checkpoint holds a valid binding whose place has been verified
(`CheckpointHolds`).

### Only model-checked

Liveness under fairness: `DeletionCompletes`, `DeletionFinishes`, `CleanupEnds`,
`ClustersSettle` and `BegunDeletionGoesOn`. TLAPS does not reason about ENABLED,
which fairness is defined with. The three findings are counterexamples that TLC
finds; there is nothing to prove about them. Two abstractions connect modules by
argument only, described in section 2: that `CleanupDone` of `WatchQueue` stands
for a whole deletion, and that a credential of `CredentialCleanup` stands for a
binding of `CleanupSession`.

## 5. Not modelled

- The text of `clouds.yaml`, TLS and CA certificates, the service catalog and the
  creation of service clients (their failure is `Fail`), redaction of error
  messages: sequential data handling with unit tests and no part in a decision.
- Validation of malformed objects: ends without effect.
- Lengths of delays. `maxRetryDelay` multiplies the configured seconds without a
  bound (hazard at `openstackcluster_controller.go:260`); the models let a delay
  end at any time, so nothing they show rests on its length.
- Flags, scheme, probes, metrics and webhook servers of the entry point.
- Metrics, events, logging, chart, configuration, test tooling: no decision
  depends on them.

## 6. Plan

The system is modelled as far as its decisions go, and no safety property is
left without a theorem. What remains:

1. State the safety half of `CleanupEnds` as a theorem: a pass either shrinks what
   remains, or waits for something the cloud is deleting or refuses to delete.
2. State the safety half of `DeletionFinishes`: a worker that comes to rest with
   an error or a wait does so in one of the listed stalled states.
3. `ReadsInv` gives more than the four properties it serves; a reader may want
   `SecretRead` as a property of its own.
