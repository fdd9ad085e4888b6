-------------------------- MODULE ClusterExtension --------------------------
(***************************************************************************)
(* The reconcile pipeline of the ClusterExtension controller with the       *)
(* boxcutter runtime: finalizers, validation, storage migration, revision   *)
(* states, resolution, unpacking, Apply, status.  The revisions behave as   *)
(* RevisionLifecycle says, which is what the ClusterObjectSet controller    *)
(* implements; Apply is BoxcutterApplier's, seen from outside: the Secrets  *)
(* are left out and the call is one step.                                   *)
(***************************************************************************)
EXTENDS RevisionLifecycle, FiniteSetsExt

CONSTANTS
    Bundles,     \* the package's bundles, numbered by version
    Successors,  \* Successors[b]: the bundles with an upgrade edge from b
    Deprecated,  \* the bundles the catalog marks as deprecated
    Reports,     \* Progressing reasons the COS controller reports on its way
    Specs,       \* [want, valid]: the specs users write
    Catalogs,    \* [state, bundles]: the states the catalog goes through
    MaxChanges,  \* bound: spec changes
    MaxCatalog,  \* bound: catalog changes
    MaxFaults    \* bound: failed calls and crashes

ASSUME BundlesAssumption ==
    /\ Bundles \subseteq Nat \ {0}
    /\ \A S \in SUBSET Bundles : S # {} => \E m \in S : \A b \in S : b <= m
    /\ \A c \in Catalogs : c.bundles \subseteq Bundles
ASSUME SpecsAssumption == \A s \in Specs : s.valid \in BOOLEAN
ASSUME ReportsAssumption == Reports \subseteq Progress
ASSUME BoundsAssumption == {N, MaxChanges, MaxCatalog, MaxFaults} \subseteq Nat

VARIABLES
    bundleOf,    \* the bundle annotations of each revision
    ext,         \* the ClusterExtension in the API server
    extCache,    \* its copy in the informer cache
    extSynced,   \* that copy has the stored resourceVersion
    revCache,    \* the revisions in the informer cache
    catalog,     \* the ClusterCatalog and its content, as the controller sees them
    pending,     \* a request for the extension is queued
    rec,         \* the reconcile in progress
    changes, catalogChanges, faults

stored == <<revs, latest, rolledOut, extDeleted, bundleOf, ext>>
bounds == <<changes, catalogChanges, faults>>
vars == <<stored, extCache, extSynced, revCache, catalog, pending, rec, bounds>>

None == 0
Optional == Bundles \cup {None}
Status == [install: Optional,
           inst: {"none", "Succeeded", "Failed", "Absent", "Unknown"},
           prog: Progress \cup {"InvalidConfiguration"},
           dep: {"none", "Unknown", "Absent", "True", "False"}]
NoStatus == [install |-> None, inst |-> "none", prog |-> "none", dep |-> "none"]
Extension == [exists: BOOLEAN, deleting: BOOLEAN, fin: BOOLEAN, spec: Specs, status: Status]

\* RevisionStates: the installed bundle, the first of those rolling out, and the
\* Progressing reasons of the installed and of the last one rolling out.
States == [installed: Optional, installedProg: Progress,
           first: Optional, lastProg: Progress \cup {"empty"}]
NoStates == [installed |-> None, installedProg |-> "none", first |-> None, lastProg |-> "empty"]

Rec == [pc: {"idle", "apply", "status"}, cur: BOOLEAN, valid: BOOLEAN, orig: Status,
        local: Status, states: States, resolved: Optional, fs: BOOLEAN,
        result: {"ok", "error", "terminal"}]
Idle == [pc |-> "idle", cur |-> FALSE, valid |-> FALSE, orig |-> NoStatus,
         local |-> NoStatus, states |-> NoStates, resolved |-> None, fs |-> FALSE,
         result |-> "ok"]

Fault == faults < MaxFaults /\ faults' = faults + 1

Init ==
    /\ LifecycleInit
    /\ bundleOf = [r \in Numbers |-> None]
    /\ \E s \in Specs : ext = [exists |-> TRUE, deleting |-> FALSE, fin |-> FALSE,
                               spec |-> s, status |-> NoStatus]
    /\ extCache = ext /\ extSynced = TRUE
    /\ revCache = [rev |-> revs, bundle |-> bundleOf]
    /\ catalog \in Catalogs
    /\ pending = TRUE /\ rec = Idle
    /\ changes = 0 /\ catalogChanges = 0 /\ faults = 0

-----------------------------------------------------------------------------
(* Revision states and conditions                                           *)

Listed == {r \in Numbers : revCache.rev[r].exists}
Active == {r \in Listed : ~revCache.rev[r].archived}

\* Mutant: every active revision counts as installed.
ActiveRevisionStates ==
    [NoStates EXCEPT !.installed = IF Active = {} THEN None ELSE revCache.bundle[Max(Active)]]

GetRevisionStates ==
    LET succeeded == {r \in Active : revCache.rev[r].succ}
        rolling == Active \ succeeded
    IN [installed |-> IF succeeded = {} THEN None ELSE revCache.bundle[Max(succeeded)],
        installedProg |-> IF succeeded = {} THEN "none" ELSE revCache.rev[Max(succeeded)].prog,
        first |-> IF rolling = {} THEN None ELSE revCache.bundle[Min(rolling)],
        lastProg |-> IF rolling = {} THEN "empty" ELSE revCache.rev[Max(rolling)].prog]

determineFailureReason(s) ==
    IF s.lastProg \in {"empty", "Retrying"} THEN "Failed" ELSE "Absent"

setInstalledStatusFromRevisionStates(st, s) ==
    [st EXCEPT !.install = s.installed,
               !.inst = IF s.installed = None THEN determineFailureReason(s) ELSE "Succeeded"]

\* BundleDeprecated; the package and channel conditions are left out.
SetDeprecationStatus(st, b, hasCatalogData) ==
    [st EXCEPT !.dep = IF b = None THEN "Absent"
                       ELSE IF ~hasCatalogData THEN "Unknown"
                       ELSE IF b \in Deprecated THEN "True" ELSE "False"]

\* The conditions of a retryable error once the revision states are known.
Retry(st, s) ==
    setInstalledStatusFromRevisionStates([st EXCEPT !.prog = "Retrying"], s)

\* Mutant: the installed status is not refreshed after Apply.
MirroredOnly(st, s) ==
    [st EXCEPT !.prog = IF s.lastProg \notin {"empty", "none"} THEN s.lastProg
                        ELSE IF s.installedProg # "none" THEN s.installedProg ELSE @]

\* Conditions after a successful Apply: Progressing is the last rolling out
\* revision's, if it has one, else the installed one's.
Mirrored(st, s) ==
    setInstalledStatusFromRevisionStates(
        [st EXCEPT !.prog = IF s.lastProg \notin {"empty", "none"} THEN s.lastProg
                            ELSE IF s.installedProg # "none" THEN s.installedProg ELSE @], s)

\* CatalogResolver.Resolve on one catalog: in the version range, the installed
\* bundle or a successor; not deprecated before deprecated, then highest version.
Candidates(installed, want) ==
    {b \in catalog.bundles :
       /\ want \in {None, b}
       /\ installed = None \/ b = installed \/ b \in Successors[installed]}
Best(C) == Max(IF C \subseteq Deprecated THEN C ELSE C \ Deprecated)
Resolves(installed, want) ==
    catalog.state = "serving" /\ Candidates(installed, want) # {}

-----------------------------------------------------------------------------
(* Reconcile                                                                *)

Dequeue == rec.pc = "idle" /\ pending /\ pending' = FALSE

ReconcileNotFound ==
    /\ Dequeue /\ ~extCache.exists
    /\ UNCHANGED <<stored, extCache, extSynced, revCache, catalog, rec, bounds>>

\* A write to the extension: the cached copy falls behind.
Write(e) ==
    /\ ext' = e
    /\ extSynced' = (extSynced /\ e = ext)

\* Mutant: the finalizers to keep are taken from the object the API server returned.
ReleasedNothing(e) == e
\* The last finalizer of a terminating extension is removed: it is gone.
Released(e) == [e EXCEPT !.exists = FALSE, !.fin = FALSE]

\* HandleFinalizers on a copy without the finalizer: a patch adds it, and nothing
\* else happens.  A terminating extension takes no new finalizers.
AddFinalizer ==
    /\ rec.pc = "idle" /\ pending
    /\ extCache.exists /\ ~extCache.deleting /\ ~extCache.fin
    /\ \/ /\ ext.exists /\ ~ext.deleting
          /\ Write([ext EXCEPT !.fin = TRUE])
          /\ pending' = FALSE
          /\ UNCHANGED faults
       \/ /\ ((~ext.exists \/ ext.deleting) /\ UNCHANGED faults) \/ Fault
          /\ UNCHANGED <<ext, extSynced, pending>>
    /\ UNCHANGED <<lifecycleVars, bundleOf, extCache, revCache, catalog, rec, changes,
                   catalogChanges>>

\* HandleFinalizers on a terminating copy: the unpack cache is deleted and the
\* finalizers are removed; or the cleanup fails and is reported, or the patch fails.
RemoveFinalizer ==
    /\ rec.pc = "idle" /\ pending
    /\ extCache.exists /\ extCache.deleting /\ extCache.fin
    /\ \/ /\ Write(Released(ext)) /\ extDeleted' = TRUE
          /\ pending' = FALSE
          /\ UNCHANGED <<rec, faults>>
       \/ /\ Fault
          /\ pending' = FALSE
          /\ rec' = [Idle EXCEPT !.pc = "status", !.cur = extSynced,
                                 !.orig = extCache.status, !.result = "error",
                                 !.local = [extCache.status EXCEPT !.prog = "Retrying"]]
          /\ UNCHANGED <<ext, extSynced, extDeleted>>
       \/ /\ Fault
          /\ UNCHANGED <<rec, pending, ext, extSynced, extDeleted>>
    /\ UNCHANGED <<revs, latest, rolledOut, bundleOf, extCache, revCache, catalog, changes,
                   catalogChanges>>

\* The copy a reconcile works on, past HandleFinalizers.
Copy == [Idle EXCEPT !.cur = extSynced, !.valid = extCache.spec.valid,
                     !.orig = extCache.status]

\* Returning from the pipeline with conditions st.
Ended(r, st, result) ==
    [Idle EXCEPT !.pc = "status", !.cur = r.cur, !.orig = r.orig, !.local = st,
                 !.result = result]

Guarded == extCache.exists /\ extCache.fin /\ ~extCache.deleting

\* Validation, migration or the list of revisions fails.
FailEarly ==
    /\ Dequeue /\ Guarded /\ Fault
    /\ LET st == extCache.status IN
         \E failed \in {[st EXCEPT !.inst = "Unknown", !.prog = "Retrying"],
                        st,
                        [st EXCEPT !.install = None, !.inst = "Unknown", !.prog = "Retrying"]} :
           rec' = Ended(Copy, failed, "error")
    /\ UNCHANGED <<stored, extCache, extSynced, revCache, catalog, changes, catalogChanges>>

\* UnpackBundle of b: a failed pull is an error unless b is what is installed.
UnpackBundle(st, s, b) ==
    LET apply(fs) == [Copy EXCEPT !.pc = "apply", !.local = st, !.states = s,
                                  !.resolved = b, !.fs = fs]
    IN \/ rec' = apply(TRUE) /\ UNCHANGED faults
       \/ /\ Fault
          /\ rec' = IF b = s.installed THEN apply(FALSE) ELSE Ended(Copy, Retry(st, s), "error")

\* handleResolutionError: keep the installed bundle when the catalog is gone and
\* no other version is asked for.
KeepsInstalled(s, want) ==
    s.installed # None /\ want \in {None, s.installed} /\ catalog.state = "gone"
handleResolutionError(st, s, want) ==
    \/ /\ KeepsInstalled(s, want)
       /\ UnpackBundle(setInstalledStatusFromRevisionStates(st, s), s, s.installed)
    \/ /\ (~KeepsInstalled(s, want) /\ UNCHANGED faults) \/ Fault
       /\ rec' = Ended(Copy, Retry(st, s), "error")

\* Mutant: the deprecation of the bundle about to be installed is reported.
ResolveBundleDeprecation(st, s, want) ==
    \/ /\ s.first # None
       /\ UnpackBundle(SetDeprecationStatus(st, s.installed, FALSE), s, s.first)
    \/ /\ s.first = None /\ Resolves(s.installed, want)
       /\ LET b == Best(Candidates(s.installed, want))
          IN UnpackBundle(SetDeprecationStatus(st, b, TRUE), s, b)
    \/ /\ s.first = None /\ ~Resolves(s.installed, want)
       /\ handleResolutionError(SetDeprecationStatus(st, s.installed, FALSE), s, want)

\* ResolveBundle: the oldest revision rolling out, if any, else the catalog's answer.
ResolveBundle(st, s, want) ==
    \/ /\ s.first # None
       /\ UnpackBundle(SetDeprecationStatus(st, s.installed, FALSE), s, s.first)
    \/ /\ s.first = None /\ Resolves(s.installed, want)
       /\ UnpackBundle(SetDeprecationStatus(st, s.installed, TRUE), s,
                       Best(Candidates(s.installed, want)))
    \/ /\ s.first = None /\ ~Resolves(s.installed, want)
       /\ handleResolutionError(SetDeprecationStatus(st, s.installed, FALSE), s, want)

\* Mutant: the pipeline goes on without waiting for the finalizer.
ReconcileUnguarded ==
    /\ Dequeue /\ extCache.exists /\ ~extCache.deleting
    /\ ResolveBundle(extCache.status, GetRevisionStates, extCache.spec.want)
    /\ UNCHANGED <<stored, extCache, extSynced, revCache, catalog, changes, catalogChanges>>

\* The pipeline up to Apply.
Reconcile ==
    /\ Dequeue /\ Guarded
    /\ ResolveBundle(extCache.status, GetRevisionStates, extCache.spec.want)
    /\ UNCHANGED <<stored, extCache, extSynced, revCache, catalog, changes, catalogChanges>>

-----------------------------------------------------------------------------
(* ApplyBundleWithBoxcutter                                                 *)

\* Apply returned without an error, or with one that is retried.
Applied == rec' = Ended(rec, Mirrored(rec.local, rec.states), "ok")
NotApplied == rec' = Ended(rec, Retry(rec.local, rec.states), "error")

\* Server-side apply of the resolved bundle leaves revision r as it is.
Matches(r) == revs[r].exists /\ ~revs[r].archived /\ bundleOf[r] = rec.resolved

\* Without content the revisions are left alone.
ApplyNothing ==
    /\ rec.pc = "apply" /\ ~rec.fs
    /\ IF Listed = {} THEN NotApplied ELSE Applied
    /\ UNCHANGED <<stored, extCache, extSynced, revCache, catalog, pending, bounds>>

\* Mutant: a terminal error leaves the conditions as they were.
ApplyInvalidSilently ==
    /\ rec.pc = "apply" /\ rec.fs /\ ~rec.valid
    /\ rec' = Ended(rec, rec.local, "terminal")
    /\ UNCHANGED <<stored, extCache, extSynced, revCache, catalog, pending, bounds>>

\* The bundle cannot be rendered with this configuration.  The error is terminal:
\* Progressing says so, Installed and install stay as they were.
ApplyInvalid ==
    /\ rec.pc = "apply" /\ rec.fs /\ ~rec.valid
    /\ rec' = Ended(rec, [rec.local EXCEPT !.prog = "InvalidConfiguration"], "terminal")
    /\ UNCHANGED <<stored, extCache, extSynced, revCache, catalog, pending, bounds>>

\* The newest revision listed has the bundle, or the next number is created,
\* unless it is taken by a revision the list did not show yet.
Apply ==
    LET newest == IF Listed = {} THEN 0 ELSE Max(Listed)
    IN /\ rec.pc = "apply" /\ rec.fs /\ rec.valid
       /\ \/ /\ newest # 0 /\ Matches(newest)
             /\ Applied
             /\ UNCHANGED <<lifecycleVars, bundleOf, faults>>
          \/ /\ newest # 0 => ~Matches(newest)
             /\ newest < N
             /\ \/ /\ Create(newest + 1)
                   /\ bundleOf' = [bundleOf EXCEPT ![newest + 1] = rec.resolved]
                   /\ Applied
                \/ /\ Matches(newest + 1) /\ Applied
                   /\ UNCHANGED <<lifecycleVars, bundleOf>>
                \/ /\ revs[newest + 1].exists /\ ~Matches(newest + 1) /\ NotApplied
                   /\ UNCHANGED <<lifecycleVars, bundleOf>>
             /\ UNCHANGED faults
          \/ /\ Fault /\ NotApplied
             /\ UNCHANGED <<lifecycleVars, bundleOf>>
       /\ UNCHANGED <<ext, extCache, extSynced, revCache, catalog, pending, changes,
                      catalogChanges>>

\* The end of Reconcile: the status is updated if it changed, under optimistic
\* concurrency; errors are joined, so with a terminal one among them the request is
\* not queued again.
UpdateStatus ==
    LET End(failed) ==
            /\ rec' = Idle
            /\ pending' = (pending \/ rec.result = "error" \/ (failed /\ rec.result = "ok"))
    IN /\ rec.pc = "status"
       /\ \/ /\ rec.local = rec.orig
             /\ End(FALSE)
             /\ UNCHANGED <<ext, extSynced, faults>>
          \/ /\ rec.local # rec.orig /\ rec.cur
             /\ Write([ext EXCEPT !.status = rec.local])
             /\ End(FALSE)
             /\ UNCHANGED faults
          \/ /\ rec.local # rec.orig
             /\ (~rec.cur /\ UNCHANGED faults) \/ Fault
             /\ End(TRUE)
             /\ UNCHANGED <<ext, extSynced>>
       /\ UNCHANGED <<lifecycleVars, bundleOf, extCache, revCache, catalog, changes,
                      catalogChanges>>

Step == ApplyNothing \/ ApplyInvalid \/ Apply \/ UpdateStatus
Controller ==
    \/ ReconcileNotFound \/ AddFinalizer \/ RemoveFinalizer \/ FailEarly \/ Reconcile
    \/ Step

-----------------------------------------------------------------------------
(* Environment                                                              *)

\* The informers catch up, and every event of the extension or of a revision it
\* owns queues the extension.
ExtSync ==
    /\ ~extSynced
    /\ extCache' = ext /\ extSynced' = TRUE /\ pending' = TRUE
    /\ UNCHANGED <<stored, revCache, catalog, rec, bounds>>
RevSync ==
    /\ revCache # [rev |-> revs, bundle |-> bundleOf]
    /\ revCache' = [rev |-> revs, bundle |-> bundleOf] /\ pending' = TRUE
    /\ UNCHANGED <<stored, extCache, extSynced, catalog, rec, bounds>>

\* The informers resync now and then: an update event without a change.
Resync ==
    /\ ~pending /\ extCache.exists
    /\ pending' = TRUE
    /\ UNCHANGED <<stored, extCache, extSynced, revCache, catalog, rec, bounds>>

Crash ==
    /\ Fault
    /\ rec' = Idle /\ pending' = TRUE
    /\ extCache' = ext /\ extSynced' = TRUE
    /\ revCache' = [rev |-> revs, bundle |-> bundleOf]
    /\ UNCHANGED <<stored, catalog, changes, catalogChanges>>

\* The catalog watch's predicate: creations, deletions, and updates of the
\* resolved image reference, which identifies the content.
CatalogEventPasses(old, new) ==
    (old.state = "gone") # (new.state = "gone") \/ old.bundles # new.bundles

CatalogChange(c) ==
    /\ c # catalog /\ catalogChanges < MaxCatalog
    /\ catalog' = c /\ catalogChanges' = catalogChanges + 1
    /\ pending' = (pending \/ CatalogEventPasses(catalog, c))
    /\ UNCHANGED <<stored, extCache, extSynced, revCache, rec, changes, faults>>

\* A user's write overtakes the copy of the reconcile in progress.
UserWrite(e) ==
    /\ ext.exists /\ ~ext.deleting /\ changes < MaxChanges
    /\ Write(e) /\ changes' = changes + 1
    /\ rec' = [rec EXCEPT !.cur = FALSE]
    /\ UNCHANGED <<revs, latest, rolledOut, bundleOf, extCache, revCache, catalog, pending,
                   catalogChanges, faults>>
ChangeSpec(s) ==
    /\ s # ext.spec
    /\ UserWrite([ext EXCEPT !.spec = s])
    /\ UNCHANGED extDeleted
DeleteExtension ==
    /\ UserWrite(IF ext.fin THEN [ext EXCEPT !.deleting = TRUE] ELSE Released(ext))
    /\ extDeleted' = ~ext.fin

\* The revisions go through their life cycle.  Removal of a single archived one is
\* BoxcutterApplier's subject; here they go with the extension.
RevisionStep(r) ==
    /\ \/ r \notin rolledOut /\ RollOut(r)
       \/ ~revs[r].succ /\ Succeed(r)
       \/ extDeleted /\ Remove(r)
    /\ UNCHANGED <<bundleOf, ext, extCache, extSynced, revCache, catalog, pending, rec, bounds>>
RevisionArchived(r) ==
    /\ ~revs[r].archived /\ Archive(r)
    /\ UNCHANGED <<bundleOf, ext, extCache, extSynced, revCache, catalog, pending, rec, bounds>>
RevisionReport(r) ==
    /\ ~revs[r].succ /\ ~revs[r].archived
    /\ \E p \in Reports \ {revs[r].prog} : Report(r, p)
    /\ UNCHANGED <<bundleOf, ext, extCache, extSynced, revCache, catalog, pending, rec, bounds>>

Environment ==
    \/ ExtSync \/ RevSync \/ Resync \/ Crash \/ DeleteExtension
    \/ \E c \in Catalogs : CatalogChange(c)
    \/ \E s \in Specs : ChangeSpec(s)
    \/ \E r \in Numbers : RevisionStep(r) \/ RevisionArchived(r) \/ RevisionReport(r)

Next == Controller \/ Environment
Spec == Init /\ [][Next]_vars

\* A queued request is served and a reconcile goes on, informers catch up and
\* resync, and the newest revision is rolled out and its success reported; nothing
\* is assumed of older ones, which may stay as they are and need not be archived.
Fairness ==
    /\ WF_vars(Controller) /\ WF_vars(ExtSync) /\ WF_vars(RevSync) /\ WF_vars(Resync)
    /\ \A r \in Numbers : WF_vars((r = latest \/ extDeleted) /\ RevisionStep(r))
FairSpec == Spec /\ Fairness

-----------------------------------------------------------------------------
(* Properties                                                               *)

TypeOK ==
    /\ revs \in [Numbers -> Revision] /\ latest \in 0..N /\ rolledOut \subseteq Numbers
    /\ extDeleted \in BOOLEAN
    /\ bundleOf \in [Numbers -> Optional]
    /\ ext \in Extension /\ extCache \in Extension /\ extSynced \in BOOLEAN
    /\ revCache.rev \in [Numbers -> Revision] /\ revCache.bundle \in [Numbers -> Optional]
    /\ catalog \in Catalogs /\ pending \in BOOLEAN /\ rec \in Rec
    /\ changes \in 0..MaxChanges /\ catalogChanges \in 0..MaxCatalog /\ faults \in 0..MaxFaults

\* status.install never names a bundle that was not rolled out, whatever is being
\* resolved, retried or read from a stale cache meanwhile (GetRevisionStates).
InstalledWasRolledOut ==
    ext.status.install # None => \E r \in rolledOut : bundleOf[r] = ext.status.install

\* BundleDeprecated "should reflect what's currently running, not what we're trying
\* to install": its value is that of a bundle that was rolled out (ResolveBundle).
DeprecationOfInstalled ==
    ext.status.dep \in {"True", "False"} =>
      \E r \in rolledOut : (ext.status.dep = "True") = (bundleOf[r] \in Deprecated)

\* Nothing is applied for an extension that is gone or could go without cleanup,
\* although the finalizer was seen in a cached copy only (HandleFinalizers).
ApplyIsGuarded == rec.pc = "apply" => ext.exists /\ ext.fin

\* The bundle that is installed: that of the newest active, succeeded revision.
Current ==
    LET S == {r \in Numbers : revs[r].exists /\ revs[r].succ /\ ~revs[r].archived}
    IN IF S = {} THEN None ELSE bundleOf[Max(S)]

\* An extension whose spec and catalog permit it ends up with the best bundle
\* installed and shown as such: no event that matters is filtered or lost (the
\* watches of SetupWithManager, the retries of Reconcile).  The last number is the
\* model's bound, not the code's: nothing is said of behaviours that use it up.
Settled ==
    /\ ext.exists /\ ~ext.deleting /\ ext.spec.valid /\ latest < N
    /\ Resolves(Current, ext.spec.want)
UpToDate ==
    /\ ext.status.install # None /\ ext.status.inst = "Succeeded"
    /\ Resolves(ext.status.install, ext.spec.want)
    /\ ext.status.install = Best(Candidates(ext.status.install, ext.spec.want))
Converges == (<>[]Settled) => <>[]UpToDate

\* A terminating extension goes away, failing cleanups included (HandleFinalizers).
DeletionCompletes == []<>(ext.deleting => ~ext.exists)

\* A revision is created only for the installed bundle or for a successor of it
\* (the CatalogProvided upgrade constraint policy in Resolve).
UpgradesFollowEdges ==
    [][latest' # latest /\ Current # None =>
         bundleOf'[latest'] \in {Current} \cup Successors[Current]]_vars

\* A configuration that stays invalid is reported as such and goes on being reported,
\* although Apply's terminal error is not retried (setStatusProgressing and the
\* status update in Reconcile).
TerminalIsReported ==
    <>[](ext.exists /\ ~ext.deleting /\ ~ext.spec.valid)
      => <>[](ext.status.prog = "InvalidConfiguration")
=============================================================================
