# TLA+ models of operator-controller

operator-controller installs and upgrades Kubernetes extensions.  A user writes a
`ClusterExtension`; the controller resolves it to a bundle from a catalog, renders
the bundle's manifests, and hands them to an applier.  The boxcutter applier stores
the manifests as numbered `ClusterObjectSet` revisions (COS), and the COS controller
rolls each revision out object by object, takes the objects over from the previous
revision, archives that one, and tears it down.  The Helm applier installs a Helm
release instead.  The catalogs come from catalogd, a second process that unpacks
catalog images and serves their content.

Nothing in this pipeline is transactional.  Every controller reads from informer
caches that lag, writes with optimistic concurrency or without any, may crash
between two writes, and is woken up by events that predicates may drop.  The models
are about that: what still holds, whatever the interleaving.  The parts that compute
rather than coordinate (resolution, rendering, packing, authorization) are operators,
compared with a definition of what they should return.

## Parts of the system

Paths are below `src/internal/operator-controller` unless they say otherwise.

| Part | Code | Modules | Checked by |
| --- | --- | --- | --- |
| ClusterObjectSet controller | `controllers/clusterobjectset_controller.go` | `ClusterObjectSet`, `ClusterObjectSetProofs` | `COS*` runs, proofs |
| What others may rely on of revisions | the same, and its readers | `RevisionLifecycle` | implemented by `ClusterObjectSet` (`KeepsLifecycle`), proof |
| Boxcutter applier | `applier/boxcutter.go`, `applier/secretpacker.go`, `applier/phase.go` | `BoxcutterApplier`, `RevisionPacking`, `BoxcutterApplierProofs` | `Applier*`, `Services`, proofs |
| ClusterExtension controller | `controllers/clusterextension_*.go`, `boxcutter_reconcile_steps.go`, `common_controller.go` | `ClusterExtension`, `DeprecationStatus`, `ClusterExtensionProofs` | `Ext*` runs, `Services`, proofs |
| Helm applier, storage migration | `applier/helm.go`, `applier/boxcutter.go` (`Migrate`), `controllers/clusterextension_reconcile_steps.go` | `HelmApplier`, `ServiceProofs` | `Services`, `HelmMaintains`, proofs |
| catalogd: controller, storage, collector | `src/internal/catalogd` | `Catalogd`, `CatalogContent`, `CatalogdProofs`, `OperationProofs` | `Catalogd`, `Services`, proofs |
| Image puller and cache | `src/internal/shared/util/image` | `ImageCache` | `Catalogd` |
| What clients may rely on of catalogd | the same, and its clients | `CatalogService`, `CatalogServices` | implemented by `Catalogd` (`KeepsService`), proof |
| Content of revisions | `applier/boxcutter.go` (generators), `controllers/clusterobjectset_controller.go` (`buildBoxcutterPhases`), `src/internal/shared/util/cache` | `RevisionContent` | `Services`, one proof (`ProbesAwait`) |
| Helm charts | `applier/helm.go` (`buildHelmChart`), `applier/provider.go`, `src/internal/shared/util/image/helm.go` | `Charts` | `Services` |
| Catalog cache and client | `catalogmetadata`, `controllers/clustercatalog_controller.go` | `CatalogCache`, `CacheProofs` | `Services`, proofs |
| Bundle resolution | `resolve`, `catalogmetadata/compare`, `catalogmetadata/filter`, `bundle` | `Resolution`, `OperationProofs` | `Services`, one proof (`VersionsOrdered`) |
| Bundle configuration | `config`, `applier/provider.go` | `BundleConfig`, `SystemProofs` | `Services`, proof |
| registry+v1 loading and rendering | `rukpak` | `BundleManifests`, `DeploymentRendering`, `OperationProofs` | `Services`, proofs in part |
| RBAC pre-authorization | `authorization` | `PreAuthorization`, `OperationProofs` | `Services`, proof |
| Content manager, dynamic sources | `contentmanager` | `ContentManager`, `CacheProofs` | `Services`, proofs |
| Tokens | `authentication` | `TokenGetter`, `ServiceProofs` | `Services`, proofs |
| Certificate pools | `src/internal/shared/util/http` | `CertPool`, `ServiceProofs` | `Services`, type proof |
| Pull secrets | `src/internal/shared/controllers`, `src/internal/shared/util/pullsecretcache` | `PullSecrets`, `OperationProofs` | `Services`, type proof |

How they meet.  The applier creates revision n+1 and deletes archived revisions beyond
its retention limit; the COS controller archives revisions and lets deleted ones go.
Each module has the other side as environment actions (`CreateRevision`,
`DeleteRevision` in `ClusterObjectSet`; `Archive`, `FinalizeRevision` in
`BoxcutterApplier`).

The ClusterExtension controller sees revisions from further away, so its environment
is a specification of its own.  `RevisionLifecycle` says what a reader of revisions
may rely on: numbers in order, archived only for a newer revision that was rolled
out, success reported only after a rollout.  `ClusterExtension` extends it and takes
its actions as steps of the environment, of which archival need not happen
(`RevisionArchived` has no fairness, see `COSArchival`).  That the detailed COS
controller implements it (`KeepsLifecycle`) is checked by `COSSafety` and proved in
`ClusterObjectSetProofs`.

catalogd and operator-controller meet the same way.  `CatalogService` is the client's
view of a catalog: it appears and disappears, new content is stored, and only then
does the status name it.  `CatalogCache` takes its actions as the environment.
`CatalogServices` is one such view per catalog, and `Catalogd` maps its state to it
(`KeepsService`, checked by the run and proved in `CatalogdProofs`).  Between them the
directory swaps, finalizers and restarts of the server are hidden.

The migration from Helm also writes a Succeeded condition, on a revision that no rollout
made; that write is in `HelmApplier` (`SucceededWasDeployed`), not in
`RevisionLifecycle`.

`Operations` calls each computing operation once on every input of a set, and
`MCServices` puts it beside the six services that controllers call.  These share no
state, so a behaviour of `MCServices` is one of a single service, chosen in the
initial state, while the others stay as they start.

## ClusterObjectSet

State.  `cos` is what the API server stores; `cache` is the manager's informer cache
and `synced` the revisions whose cached copy is current (its resourceVersion is the
stored one); `tcache` is the tracking cache, a second, independent view that
`listPreviousRevisions` and `siblingRevisionNames` read.  `objs` are the cluster
objects with controller and owners.  `queue` is the work queue, `watching` the
revisions with informers in the tracking cache, and `rec` the reconcile in progress:
the step it is at, whether its copy is current, and the conditions it read (`orig`)
and will write (`local`).  `rolledOut` is a history variable.

Actions.  A reconcile is one action per call that writes: `ReconcileNotFound`,
`ReconcileDelete`, `ReconcileRevision` (the reads, up to the branch), then
`EnsureFinalizer`, `EngineReconcile`/`EngineFails`, `ArchivePrevious`, or
`TeardownComplete`/`TeardownIncomplete`/`TeardownFails`/`FreeFails` and
`RemoveFinalizer`, and in every case `UpdateStatus`, which contains the progress
deadline and the requeue decision.  `CacheSync` applies the watch predicates
(`EventPasses`): an update passes with a new resourceVersion only, so the periodic resync
never does, and the model has none.  Reconciles are serial because the controller runs one worker.

Boxcutter is external.  `ObjectAction`, `Applied`, `ObjectPasses`, `Reached` and
`TornDown` say what the controller relies on: phases in order, take-over from the
previous owners it was told of, "progressed" for an object of a newer revision,
"collision" otherwise, and teardown that deletes what the revision controls and
drops its ownership elsewhere.  What the controller's code does not determine
(whether a progressed object counts as complete, whether a foreign controller has a
higher number, whether the result is in transition) is nondeterministic.

A condition is abstracted to its reason, which determines its status; messages are
left out.

`HandoverKeepsObjects` speaks of the newest revision that was rolled out.  Of an older
one it would be false: a revision that was rolled out and then replaced may list an
object that its successor does not, and the teardown deletes it, as it should.
It is limited to behaviours without interference (`drift`), since a third party may
delete what it likes.

## BoxcutterApplier

State.  `revs` and `secrets` are the stored COS and Secrets, `revCache` and
`secCache` the two informer caches, `ap` the Apply in progress, `pending` a queued
request.  A Secret's name is its revision's name and a content hash, so it is a pair
(revision, piece of content).  `uid` distinguishes incarnations of a revision name.

Actions.  `Begin` lists the revisions and decides; `CompareWithLatest` is the
server-side apply used as comparison; `CollectOldRevision`, `PackSecrets`,
`CreateSecret`, `CreateRevision`, `GetRevisionUid`, `PatchOwner` are the calls of
createExternalizedRevision in order.  Each can fail; `Crash` can happen between any
two.  The garbage collector, the COS controller and the user are the environment.

## ClusterExtension

State.  `ext` is the stored extension with its status, `extCache` and `revCache` are
the cached copies, `catalog` is the one catalog of the model (serving, failing or
gone, with its bundles), `rec` the reconcile in progress with the copy's currency, the
conditions it read and will write, the revision states and the resolved bundle.  A
bundle is a number, larger is newer; `Successors` are the upgrade edges.

Actions.  `AddFinalizer` and `RemoveFinalizer` are reconciles that end in
HandleFinalizers; `FailEarly` one that ends in validation, migration or the list of
revisions.  `Reconcile` runs the steps that only read, up to the pull
(`GetRevisionStates`, `ResolveBundle`, `handleResolutionError`, `UnpackBundle`).
`Apply`, `ApplyNothing` and `ApplyInvalid` are the outcomes of
ApplyBundleWithBoxcutter, which lists the revisions again, and `UpdateStatus` the end
of every reconcile.  `Apply` is one step here, without Secrets: the calls inside it
are the subject of `BoxcutterApplier`.

Abstractions.  Two bundles that render to the same manifests count as one.  One flag
stands for the extension's finalizers.  The conditions on package and channel
deprecation are computed in `DeprecationStatus`, which has no state;
`activeRevisions`, messages, and finalizers of other controllers are left out.
Archived revisions are not removed one by one; they go with the extension.

## Catalogd and ImageCache

State.  `api` and `cached` are the ClusterCatalogs and the informer's copy, `registry`
the digest a tag names.  On disk, `unpacked` is the image cache, `content` the
directory the HTTP server reads, with data file and index, and `temp` the directory a
Store prepares.  `stored` is the controller's in-memory map `storedCatalogs`, lost at a
restart.  `work` is the reconcile in progress and `gc` the sweep of the garbage
collector, which takes no lock and goes over both directories, the images and the
content, with a list of catalogs for each.

Actions.  `Nothing`, `Withdraw`, `WithdrawFails`, `AddFinalizer`, `UpToDate`,
`StartUnpack` are what a reconcile does at first; then `Pull`, `Unpack`,
`WriteCatalog`, `WriteIndex`, `RemoveOld`, `RenameTemp` (`RootDir/<catalog>` is removed
before the new directory is renamed into its place, under the storage's lock), and
`UpdateStatus` and `PatchFinalizer` at the end.  The sweep is `ListCatalogs`,
`ReadImages`, `RemoveImages`, then `ListCatalogs` again, `ReadDir`, `RemoveEntry` and
`UnlinkNext`.  `ImageCache` has the operators on one owner's image directory: an image is
unpacked in place and made read-only when it is whole, so a torn one is recognised.  An
image from which the sweep takes files while it is unpacked is not: it ends read-only
without them (`"lossy"`), is fetched like any other from then on, and what is made from it
is served (`Lossy`).  `ContentIsIntact` and `KeepsService` admit this outcome by name and
no other.  The index, the queries and the HTTP
preconditions are operators in `CatalogContent`.

## The services

`CatalogCache`: `seen` lags behind `service`; `entry` is the map by catalog name,
`dir` the directory, `populate` the download in progress, `reader` a resolution that
reads a package (`WalkPackage`, then `LoadPackage`).  The lock covers Put, Remove and
Get, not the reading of the files that Get hands out.

`ContentManager`: Watch holds the lock of the cache while it waits for new sources
(`BeginWatch` to `FinishWatch`); every source has a reflector with the watch error
handler (`WatchError`, `CheckSynced`, `OnPostSyncError`, `CancelInformer`) and a poller
that announces the sync on an unbuffered channel (`Synced`, `Send`).  A select
statement that waits takes the first case that becomes ready, one that finds several
ready takes any.

`HelmApplier`: `history` is Helm's release history, `cluster` the CRD and the workload
that are there.  `ApplyContent` decides between install, upgrade and reconcile and runs
the preflight; `RecordRelease`, `ApplyObjects` (CRD, then workload),
`SupersedeRelease`, `DeployRelease` are Helm's writes, between any two of which the
process may stop.  A restart may change the runtime; then `Migrate`,
`EnsureRevisionStatus` and `RetrieveRevisionStates` turn the release into revision 1.

`TokenGetter`: one cached token for an account that may be deleted and created again,
and clients that run `GetToken`, `CreateToken`, `StoreToken` and `RoundTrip` with its
second attempt.  `CertPool`: `StartPool`, `AddWatch`, the loop `SelectEvent`,
`DrainEvent`, `DrainTimeout`, `ReadPool`, `StorePool`, and the exit when the system's
certificates change.  `PullSecrets`: two controllers with a worker each run the same
reconcile (`GetServiceAccount`, `GetPullSecret`, `UpdateList`, `WriteSecretToFile`) over
one list and one file.

## The operations

`Resolution` (candidates by channel, range and edge, the choice among catalogs,
versions with releases), `BundleConfig` (schema of the install modes, validation,
target namespaces), `BundleManifests` (loading, validators, generators of RBAC,
webhooks, services, certificates and CRDs), `DeploymentRendering` (the deployment with
certificates and deploymentConfig), `PreAuthorization`, `RevisionPacking` (phases and
Secrets), `RevisionContent` (a revision generated, externalized, and read back by the
COS controller, with its probes), `Charts` (what the Helm applier installs),
`DeprecationStatus` and `CatalogContent` have no state.  `Operations` has an action per entry
point that calls it on an input; its properties compare the result with a declarative
definition, or with the result on another order of the same input.  Names, versions,
sizes and rules are small values; lists, their order and their duplicates are kept,
since that is where these functions could go wrong.

## Runs

| Run | Question | Properties | Result |
| --- | --- | --- | --- |
| `COSSafety` | Do guard, release order, collision check, archive order and handover survive a failure, a crash, a third-party change or a deadline at any point, and does the controller implement `RevisionLifecycle`? | `OwnersAreGuarded`, `ArchivedBeforeRelease`, `NoRolloutOverForeign`, `ArchivedOnlyAfterRollout`, `HandoverKeepsObjects`, `KeepsLifecycle` | pass |
| `COSLiveness` | Are archived revisions released, and does a rollout converge? | `ArchivedIsReleased`, `RolloutConverges` | pass |
| `COSArchival` | Are the predecessors archived in the end, whatever the caches show meanwhile? | `PredecessorsAreArchived` | violated |
| `COSDeadline` | The same release property with a progress deadline | `ArchivedIsReleased` | violated |
| `Applier` | Do references resolve, numbers increase by one, does retention keep its promise, and is the desired content reached? | `RefsResolve`, `NumberedFromLatest`, `RetentionKeepsRecent`, `DesiredIsReached` | pass |
| `ApplierRecreate` | Does a re-created revision get its Secrets? | `RefsEventuallyResolve` | violated |
| `Extension` | Does the status name and judge only bundles that were rolled out; is Apply guarded by the finalizer; does the extension end up with the best bundle, shown as installed; are errors that are not retried reported; do deletions complete? | `InstalledWasRolledOut`, `DeprecationOfInstalled`, `ApplyIsGuarded`, `Converges`, `TerminalIsReported`, `DeletionCompletes` | pass |
| `ExtUpgradeEdges` | Is every upgrade along an edge of the catalog, as documented? | `UpgradesFollowEdges` | violated |
| `Catalogd` | Is what is served whole, finalized, and in the end what the spec asks for; and does catalogd implement `CatalogService`? | `ContentIsIntact`, `ContentIsFinalized`, `AvailabilityIsFollowed`, `KeepsService` | pass |
| `ResolveDeprecation` | Is the deprecation returned with a bundle that of its package in its catalog? | `DeprecationIsOfResolved` | violated |
| `Services` | Do the operations return what their callers rely on, and do the services keep and reach what they are for? | below | pass |
| `HelmMaintains` | Is the installed state maintained when no content can be had? | `MaintainsInstalled` | violated |

`RolloutConverges` has two parts: the newest revision ends up rolled out; and if no
revision is complete before the tracking cache shows its predecessors, all others end up
archived.  Without the second condition that is what `COSArchival` refutes.

`Services` checks, of the operations: the best candidate whatever the order of the
catalogs (`ResolutionIsCorrect`, which compares bundle and catalog), agreement of schema and
renderer (`SchemaAgreesWithRenderer`), that nothing is lost or granted in excess and that
webhooks, certificates and configuration fit together, and that charts render to what
they are made of (`RenderingIsFaithful`), that what pre-authorization lets through
applies and, unless roles could not be read, what it asks for suffices
(`PreAuthorizationIsExact`), that packed objects
are found, order does not matter, the objects rolled out are the objects rendered
whether the revision was generated or migrated, and no probe passes too early
(`PackingIsFaithful`), and the answers to queries and conditional requests
(`AnswersAreExact`).  Of the services: `EntryMatchesDir` and `CacheFollowsCatalog`;
`WatchesAreAccountedFor` and `WatchesRecover`; `ReportsAreTrue`, `CRDUpgradesAreSafe`
and `HelmConverges`; `TokenOutlivesRequest` and `RequestsRecover`; `EventsReachPool`;
`AuthFileFollows`.

Where a property has an exception, it is in the definition and its comment:

- `WatchesAreAccountedFor`: not of an owner whose Watch error was only logged (`muted`),
  nor of a source that failed in the moment it synced (`DeadOnArrival`) or timed out;
- `WatchesRecover`: drift is undone while new sources can still be started (`Exhausted`);
- `CacheFollowsCatalog`: the cache ends up with something under the reference the status
  settles on, and with the content of that reference unless other content was downloaded
  under it;
- `HelmConverges`: not when a Helm release was left pending;
- `EventsReachPool`: not for a change of certificates before the watch is established, nor
  after the watcher reported an error (`SelectError`), on which the program exits;
- `AnswersAreExact`: an unreadable `If-Modified-Since` is answered with an error.

### Findings

The six violated runs are disagreements between code and documentation or comments;
`PROJECT.json` quotes the sentence each one contradicts.

- `COSArchival`: predecessors are archived in the reconcile that finds a rollout
  complete, from a list of the tracking cache.  If that cache does not show a predecessor
  yet, nothing reconciles the complete revision again, and the predecessor stays active
  until something else changes.
- `COSDeadline`: the update predicate drops the event that archives a revision whose
  progress deadline has passed, so it is never torn down.
- `ApplierRecreate`: the server-side apply used as comparison re-creates a revision
  that was deleted meanwhile, without its Secrets.
- `ExtUpgradeEdges`: revisions are listed before resolution and again in Apply; when
  the second list is newer, a bundle is installed that is no successor.  In the trace the
  spec is pinned to 2 and then to 1, and 1 is created over a 2 that has succeeded meanwhile.
- `ResolveDeprecation`: `Resolve` returns the deprecation of the last catalog that was
  kept in the walk, also when another catalog wins by priority.
- `HelmMaintains`: after a failed upgrade the latest release, not the deployed one, is
  what maintenance applies.

Two more disagreements are exceptions of a property and have no run of their own.
`src/internal/catalogd/storage/http_preconditions_check.go` says that it follows RFC 7232,
which ignores an `If-Modified-Since` that is no date; `checkIfModifiedSince` makes it an
error.  And the garbage collector is meant for catalogs that no longer exist
(`garbage_collector.go:20-25`), but with a list older than a catalog it takes files from
the image being unpacked for it.

### Bounds

Revisions (`COS*`).  Two revisions are the smallest number with a handover, and an
extension never has more than a chain of them, each interacting with its predecessors
the same way.  Two objects: one shared and probed, one in an earlier phase that the
second revision drops; so there is something to take over, something to delete, and a
phase order.  `COSSafety` has one disturbance in a behaviour, at any point: a fault, a
third-party change, or the deadline of the first revision (`MaxFaults`, `MaxDrift`,
`Deadlines`, `OneDisturbanceNext`); the liveness runs have none, because the liveness
check of the larger graph is slow.

Applier.  Two contents that share a Secret, up to two changes, one fault and one
deletion by others (`MaxChanges`, `MaxFaults`, `MaxDeletes`), retention of one.

Extension.  Three bundles of which the first is deprecated, three revision numbers (`N`),
one fault (`MaxFaults`).  `Extension` allows one change in all, of the spec or of the
catalog (`MaxChanges`, `MaxCatalog`, `OneChangeNext`), and a revision reports that it
retries only before anything else has changed or failed.  In the code numbers do not run
out.  `Converges` therefore says nothing of behaviours that reach `N`: with `N = 3` it
covers one upgrade.

catalogd.  One catalog, because catalogs share only the lock and the collector's
listing; three digests, two of them of catalogs that replace one another and one of an
image that is no catalog; three events in all (`MaxEvents`) of which one is a fault or a
loss of files to the collector (`MaxFaults`): enough for a change of content, a failure in
the middle of it, and a deletion.  The tag names the first digest at the start; the two
catalogs are interchangeable, and the image that is no catalog comes in by a push or by
its digest.

Services.  The catalog may change five times (`MaxSwaps`) with one failure; two
objects of two kinds, three sources, two changes, one watch failure; three bundles,
four releases, three changes and two faults for Helm; two clients, a clock of four and
one re-creation for tokens; three file events and two restarts; one account secret,
one credential and one change.  `ContentManager` with one more change and `PullSecrets`
with two credentials and two changes pass as well (0.9 and 2.2 million states).  With
three sources for two kinds (`MaxSources`), the part of `WatchesRecover` about drift
covers the first source only, since after the second the bound may keep Watch from
starting; with four sources the run passes too, in twice the time (2 million states).  The
inputs of the operations are in `MCOperations`, chosen so that every branch of every
operation is taken.

Deadlock is checked for catalogd.  Elsewhere the system rests when nothing is queued.

### Fairness

The work queue is first-in first-out and has a worker, so a queued request is served
(`SF` on the three entry actions of the COS controller, `WF` on the steps).  Informers
catch up.  Terminating objects go away in the end (`SF` on `TeardownComplete`), the
garbage collector works, and workloads become ready.  Goroutines that can run do run.
In `MCServices` each service has its own fairness while it is the active one.  Nothing
is assumed of users, nor that faults occur or stop other than by their bound.

Informers also resync: the process sets no `SyncPeriod` for its cache
(`cmd/operator-controller/main.go`), so the default of controller-runtime applies and
every cached object comes by again after some hours, as an update without a change.
Whether it reaches a controller is up to the predicates.  The COS controller drops it:
both of its watches have `ResourceVersionChangedPredicate`, so `ClusterObjectSet` has no
resync, and what that controller misses it misses for good (`COSArchival`,
`COSDeadline`).  The ClusterExtension controller, catalogd, the ClusterCatalog controller of
operator-controller and the pull secret controllers let it through; there it is a fair
action (`Resync` and its namesakes).  This is the library's behaviour, and an assumption
here.  It matters: a request that is not queued again, for instance after a terminal error
whose status update failed, is late by at most that period and not lost.  The liveness
properties say "in the end", not "soon"; a property that needs `Resync` can hold with a
delay of hours.

## Proofs

All proofs are for every value of the constants that meets the named assumptions in the
modules (`NAssumption`, `PhasesAssumption`, `BundlesAssumption`, ...): any number of
revisions, objects, catalogs, bundles, clients, changes, faults and restarts.  The
assumptions say what the constants are, not how the system behaves: bounds are naturals,
sets that the code lists are finite, markers such as "none" are no names
(`MarkersAssumption`), bundles are ordered and every set of them has a newest one
(`BundlesAssumption`), a CRD that stays as it is breaks nothing.  Every run evaluates
those of its modules.

A safety property is proved from an inductive invariant: it holds at the start, every
action keeps it (one lemma per action or per group of like actions), and it implies the
property.

### The ClusterObjectSet controller (`ClusterObjectSetProofs`)

| Theorem | States |
| --- | --- |
| `TypeCorrect` | `TypeOK` |
| `GuardCorrect` | the inductive invariant `GuardInvariant` |
| `OwnersGuarded` | `OwnersAreGuarded`: what a revision owns or watches is guarded by its finalizer |
| `ReleaseIsLast` | `ArchivedBeforeRelease`: released only when shown as Archived and owning nothing |
| `ArchivedAfterRollout` | `ArchivedOnlyAfterRollout`: archived only after a newer revision was rolled out |
| `RolloutOwnsAll` | `NoRolloutOverForeign`: no rollout over another extension's object |
| `SuccessIsFinal` | Succeeded is final and is not overruled by the deadline |
| `ImplementsLifecycle` | `KeepsLifecycle`: the controller implements `RevisionLifecycle` |
| `HandoverUninterrupted` | `HandoverKeepsObjects`: no handover deletes an object of the newest rolled out revision |

`OwnersAreGuarded` is not inductive: a reconcile may start from any stale copy.  The
strengthening says how stale a copy can be (`CacheLagsSafely`: archival, deletion and
the absence of the finalizer never go back), what each step of a reconcile may rely
on (`ReconcileKnows`), that a revision owns only objects it lists, so a teardown
reaches them all (`OwnsOnlyListed`), and that numbers not yet reached are untouched
(`NumbersInOrder`).

The refinement to `RevisionLifecycle` needs to know which branch a reconcile is in when
its write will be accepted.  `LifecycleInvariant` says that a reconcile whose copy is
current is in the branch the stored revision asks for, and that what it is about to
store is backed: Archived only over an archived revision, a new Succeeded only after a
complete rollout (`Backed`, `KnowsCurrent`).  A reconcile with a stale copy may believe
anything, and its write is refused.

For the handover, `HandoverInvariant` follows an object of the newest rolled out revision
n: it is controlled by n or by a revision that is newer still (`RolloutTakesAll`, then
every take-over raises the number).  Teardown and garbage collection delete only what the
revision they run for controls or what nobody owns, and a revision is torn down only when
a newer one was rolled out (`Superseded`); so neither reaches the object.

### The applier (`BoxcutterApplierProofs`)

`ApplierTypeCorrect`; `RefsAlwaysResolve` (`RefsResolve`), `NumbersFollow`
(`NumberedFromLatest`) and `RetentionIsSafe` (`RetentionKeepsRecent`), as long as nobody
else deletes revisions.  The inductive invariant `ApplierInvariant` needs four more facts:
numbers are handed out without gaps and only revisions older than the newest cached
one are gone (`Ordered`), so that a number computed from a stale list is either right
or taken; Secrets are owned by revisions that were made, so the garbage collector
spares those of one still to come (`Owned`); existing revisions have their Secrets
(`Resolved`); and what an Apply between two calls may rely on (`Working`).

Retention counts revisions in a list that may be stale, and deletes one at a time while
the list shrinks.  `RetentionInvariant` therefore adds `Retained`: above every revision
that is gone or listed for collection there are at least `RetentionLimit` that are not on
their way out, and what is listed or cached as archived is archived or was collected.
A revision that the list shows and that is gone meanwhile had enough above it when it
went, so the count that the stale list gives is safe although it is wrong.

### The ClusterExtension controller (`ClusterExtensionProofs`)

`ExtTypeCorrect`, `InstallIsTruthful` (`InstalledWasRolledOut`), `DeprecationIsTruthful`
(`DeprecationOfInstalled`) and `NothingAppliedUnguarded` (`ApplyIsGuarded`).  The
properties are about the stored status; the invariant `ExtInvariant` says the same of
every place a status comes from: the cached copy, the conditions a reconcile read and
will write, and its revision states (`Truthful`).  It holds because what was rolled out
stays so and a succeeded revision keeps its bundle (`KnownRevisions`).  The guard holds
because a finalizer seen on a copy that is not terminating is still there
(`FinalizerStays`).  The environment of these proofs is `RevisionLifecycle`, which
`ImplementsLifecycle` discharges.

### catalogd (`CatalogdProofs`)

`CatalogdInvariant` (`CatalogdInv`, which contains `TypeOK`), `ContentIntact`
(`ContentIsIntact`), `ContentFinalized` (`ContentIsFinalized`) and
`CatalogdImplementsService` (`KeepsService`).  The invariant relates the four places a
catalog lives in.  `WorkOK`: a reconcile works on what the informer had or is followed by
another, unpacks only under the finalizer and gives it up only when the disk is clean or
it will try again.  `DiskOK`: only the image being unpacked is there in part, what is
served was made from an image unpacked to the end, whole or lossy, and is what is
remembered.  `HeldOK`: what is on disk is finalized, or a reconcile will
see that it is not.  `ApiOK` and `CollectorOK` are about the API server and the sweep,
which takes no lock; `ShrinkingStep` shows that a sweep of the content only ever makes a
directory smaller, and `LosingStep` that a sweep of the images takes files only from one
being unpacked, which leaves what is served sound up to the files lost.  The refinement has one lemma per visible
write (`StepIsVisible`); all other steps are stutters of the service.

### The services (`ServiceProofs`, `CacheProofs`, `OperationProofs`)

- Helm: `HelmTypeCorrect`, `HelmReportsTruly` (`ReportsAreTrue`), `CRDUpgradesSafe`
  (`CRDUpgradesAreSafe`).  The invariant `HelmInv`: at most one release is deployed; the
  one being installed is the latest and pending, with its objects applied in order
  (`StepOK`); the CRD on the cluster can become that of the latest release whatever its
  status, because that is what maintenance applies (`CrdOK`); revision 1 is made from the
  installed release if there is one (`RevOK`).
- Content manager: `ContentTypeCorrect`, `WatchesAccounted` (`WatchesAreAccountedFor`).
  `ContentInv` follows a source through its life: attached under its kind and stopped by
  nobody but its handler (`AttachedOK`), failed for a reason that its handler acts on
  (`HandlersOK`), started by the Watch that holds the lock (`StartingOK`), which gives each
  kind a source or fails (`WatchOK`); and a kind without a source has a reconcile or a
  handler that will ask for one (`Noticed`).
- Catalog cache: `CacheTypeCorrect`, `EntriesMatchDirs` (`EntryMatchesDir`), with the fact
  that work in progress has a name (`WorkIsNamed`).
- Tokens: `TokenTypeCorrect`, `TokensOutliveRequests` (`TokenOutlivesRequest`), from the
  freshness of a token at the moment it was read (`TokensAreFresh`).
- Certificates: `CertTypeCorrect`; the counters are bounded because every generation of
  the pool and every waiting event is an event of its own (`EventsCounted`).
- Pull secrets: `SecretsTypeCorrect`.

### The operations (`OperationProofs`, `SystemProofs`)

`SystemProofs` is about the composition that the `Services` run checks.
`ServicesCompose`: a behaviour of the composition is one of every service, so what is
proved of a service alone holds of them together (`ServicesTypeCorrect` for the types).
An operation that returned has returned what it computes of its arguments
(`OpInvariant`); the lemmas of `OperationProofs` say what that is, for all inputs:

- `PreAuthorizationExact` (`PreAuthorizationIsExact`) and `SchemaAgrees`
  (`SchemaAgreesWithRenderer`), whole run properties; the first for any roles and
  bindings on the cluster, those that cannot be read included;
- of `RenderingIsFaithful`: `PermissionsExact` (accounts are granted what the bundle asks
  for in the namespaces it is installed for, and nothing else), `WebhooksServed` (every
  webhook is called at a service that is rendered, with its port and its CA), and
  `TargetsNamed` (the targets are annotated, whatever the configuration);
- of `ResolutionIsCorrect`: `VersionsOrdered`; of `AnswersAreExact`:
  `PreconditionsFollow`, for headers that parse or not, with the exception named above;
  of `PackingIsFaithful`: `ProbesAwait`.

`CallsAssumption` says what arguments look like: versions with a release as the program
makes them, a namespace to install in, permissions as records of account and rules,
webhooks of one of the three types, target namespaces listed once each, a pod with
annotations, bindings that refer to roles, and headers that are absent, unreadable or
read.  The run evaluates it on its inputs; the theorems hold for any others.

`MinExists`, `MinIn`, `MaxIn` and their like say what the least and greatest element of a
set of numbers are.

### Only model-checked

- The liveness properties: `ENABLED` and fairness are out of the prover's reach.
- `ResolutionIsCorrect`, `RenderingIsFaithful`, `PackingIsFaithful` and `AnswersAreExact`
  as wholes.  Their parts not named above (the best candidate, a
  bundle loaded from its files, the deployment configuration and the certificate mounts,
  charts, sorting and packing, revisions read back, the answers to queries) fold over
  lists, and what a fold computes needs induction over data, which the installed provers
  cannot do.

## Not modelled

- API types, deep copies, client and scheme registration, conditions' messages, labels:
  declarations and generated code.  The validation rules that matter are guards.
- Flag parsing, wiring, TLS profiles, metrics, logging, profiling servers and feature
  gates: no state that outlives a call.  What a start removes or rebuilds on disk is in
  the restart actions of `CatalogCache`, `Catalogd` and `CertPool`.
- Of the ClusterExtension controller, the Helm variants of its steps (the applier
  behind them is `HelmApplier`) and `activeRevisions`: values copied from one place to
  another.
- Parsing of YAML, JSON, file-based catalogs and semantic versions, JSON schema
  validation, the comparison of CRD schemas, the Kubernetes RBAC resolver, Helm, boxcutter,
  client-go and the container libraries: libraries, modelled by what the code relies on.
- Applier and COS controller are not composed into one model: each has the other as
  environment, and the product of the two, with four caches, is beyond the model
  checker at the bounds that make either interesting.

Known limits of the properties.  Secrets of a revision that is never created are found
by no later reconcile, and no code removes them, so there is nothing to check.  A
package that is read while the cache directory is swapped may be made of two images;
the model has that outcome (`"mixed"`), and no property excludes it, because the code
does not promise otherwise and the next reconcile reads again.  An object that
compresses into a Secret but expands beyond what `resolveObjectRef` reads is packed and
never read back (`RevisionKeepsObjects` has the exception); an object of that size is
beyond what the API server stores.

The directory of the catalog cache is known by a reference, not by its content: what was
downloaded before or after the status named the reference stays under it
(`CacheFollowsStatus`).  Pre-authorization asks for more than the API server does where
`escalate` is granted in a namespace or for single roles.  A bundle whose webhooks have container
port 0 is outside `WebhooksAreServed`, by its precondition.  The second attempt of the token round
tripper sends the request again; that its body may have been read by the first is not
modelled.
