---------------------------- MODULE HelmApplier ----------------------------
(***************************************************************************)
(* The Helm applier of an extension, and the migration of its release to a *)
(* ClusterObjectSet when the operator restarts with the Boxcutter runtime.  *)
(* A bundle's manifest has a custom resource definition (CRD) and a         *)
(* workload, applied in this order.  Helm keeps the history of releases;    *)
(* the controller may stop between any two of its writes.  Rendering,       *)
(* authorization and the watches are in other modules.                      *)
(***************************************************************************)
EXTENDS Naturals, Sequences, FiniteSetsExt

CONSTANTS
    Bundles, CrdOf,    \* the bundles of the package, and the CRD each has
    Breaks,            \* the pairs of CRDs an upgrade between which loses data
    MaxReleases,       \* bound: releases in the history
    MaxHelmChanges,    \* bound: changes of what is wanted and of what can be pulled
    MaxHelmFaults      \* bound: failed calls and stops of the controller

ASSUME HelmBoundsAssumption ==
    MaxReleases \in Nat /\ MaxHelmChanges \in Nat /\ MaxHelmFaults \in Nat

None == "none"
\* There is nothing to compare for a CRD that is not on the cluster, and no difference
\* when it stays as it is.
ASSUME BundlesAssumption ==
    /\ None \notin Bundles
    /\ \A crd \in {CrdOf[b] : b \in Bundles} \cup {None} :
         <<None, crd>> \notin Breaks /\ <<crd, crd>> \notin Breaks

VARIABLES
    runtime,    \* "helm" or "boxcutter"
    wanted,     \* the bundle that resolution finds
    pullable,   \* whether bundle images can be pulled
    enforced,   \* crdUpgradeSafety.enforcement is Strict
    history,    \* the releases, oldest first
    cluster,    \* the CRD and the workload on the cluster
    step,       \* where the reconcile is: [pc, bundle]
    installed,  \* status.install, the reported bundle
    applied,    \* how the last Apply ended: "no", "content" or "maintained"
    rev, seenRev,  \* revision 1 on the server, and as the client's cache has it
    helmChanges, helmFaults

helmVars == <<runtime, wanted, pullable, enforced, history, cluster, step, installed, applied,
              rev, seenRev, helmChanges, helmFaults>>
NothingApplied == [crd |-> None, workload |-> None]
ManifestOf(b) == [crd |-> CrdOf[b], workload |-> b]
AtRest == [pc |-> "idle", bundle |-> None]
NoRev == [bundle |-> None, migrated |-> FALSE, succeeded |-> FALSE, rolledOut |-> FALSE]

HelmInit ==
    /\ runtime = "helm" /\ wanted \in Bundles /\ pullable \in BOOLEAN /\ enforced \in BOOLEAN
    /\ history = <<>> /\ cluster = NothingApplied
    /\ step = AtRest /\ installed = None /\ applied = "no"
    /\ rev = NoRev /\ seenRev = NoRev
    /\ helmChanges = 0 /\ helmFaults = 0

HelmFault == helmFaults < MaxHelmFaults /\ helmFaults' = helmFaults + 1
HelmChange == helmChanges < MaxHelmChanges /\ helmChanges' = helmChanges + 1
-----------------------------------------------------------------------------
(* Helm's history                                                           *)

Latest == history[Len(history)]
DeployedAt == {i \in DOMAIN history : history[i].status = "deployed"}
\* GetRevisionStates: the most recent deployed release.
InstalledBundle == IF DeployedAt = {} THEN None ELSE history[Max(DeployedAt)].bundle
SetLatest(status) == history' = [history EXCEPT ![Len(history)].status = status]

\* getReleaseState: Helm refuses even to try an upgrade of a pending release.
ReleaseState(b) ==
    CASE history = <<>> -> "NeedsInstall"
      [] history # <<>> /\ Latest.status = "pending" -> "Error"
      [] /\ history # <<>> /\ Latest.status # "pending"
         /\ \/ ManifestOf(b) # ManifestOf(Latest.bundle)
            \/ Latest.status \in {"failed", "superseded"}
           -> "NeedsUpgrade"
      [] OTHER -> "Unchanged"
\* The check is skipped when the extension sets its enforcement to None.
ShouldSkipPreflight == ~enforced
\* mutant: an upgrade is not checked
PreflightOnInstall(b) ==
    /\ ReleaseState(b) = "NeedsInstall" /\ ~ShouldSkipPreflight
    /\ <<cluster.crd, CrdOf[b]>> \in Breaks
\* runPreflight: a change of the CRD on the cluster that breaks.
PreflightFails(b) ==
    /\ ReleaseState(b) \in {"NeedsInstall", "NeedsUpgrade"}
    /\ ~ShouldSkipPreflight /\ cluster.crd # None
    /\ <<cluster.crd, CrdOf[b]>> \in Breaks

-----------------------------------------------------------------------------
(* A reconcile with the Helm runtime                                        *)

UnchangedByHelm == UNCHANGED <<runtime, wanted, pullable, enforced, rev, seenRev, helmChanges>>
\* An error: reported as not applied, the installed bundle is what was read before.
ApplyFailed ==
    /\ step' = AtRest /\ applied' = "no" /\ installed' = InstalledBundle

\* Apply with content, up to the first write.
ApplyContent ==
    /\ runtime = "helm" /\ step = AtRest /\ pullable
    /\ CASE ReleaseState(wanted) = "Error" \/ PreflightFails(wanted) ->
              ApplyFailed /\ UNCHANGED cluster
         [] ReleaseState(wanted) = "Unchanged" ->
              /\ cluster' = ManifestOf(Latest.bundle)
              /\ step' = AtRest /\ applied' = "content" /\ installed' = wanted
         [] OTHER ->
              /\ Len(history) < MaxReleases
              /\ step' = [pc |-> "record", bundle |-> wanted]
              /\ UNCHANGED <<cluster, installed, applied>>
    /\ UNCHANGED <<history, helmFaults>> /\ UnchangedByHelm
\* UnpackBundle: what cannot be pulled is passed over if it is the installed bundle.
MaintainedWithoutContent(resolved) == resolved = InstalledBundle /\ resolved # None
\* reconcileExistingRelease; resolution finds the installed bundle when the catalogs are
\* gone, too.
ApplyWithoutContent ==
    /\ runtime = "helm" /\ step = AtRest /\ ~pullable
    /\ \E resolved \in {wanted, InstalledBundle} :
         IF MaintainedWithoutContent(resolved)
         THEN /\ cluster' = ManifestOf(Latest.bundle)
              /\ step' = AtRest /\ applied' = "maintained" /\ installed' = resolved
         ELSE ApplyFailed /\ UNCHANGED cluster
    /\ UNCHANGED <<history, helmFaults>> /\ UnchangedByHelm

\* Install and Upgrade write a pending release,
RecordRelease ==
    /\ step.pc = "record"
    /\ history' = Append(history, [bundle |-> step.bundle, status |-> "pending"])
    /\ step' = [step EXCEPT !.pc = "crd"]
    /\ UNCHANGED <<cluster, installed, applied, helmFaults>> /\ UnchangedByHelm
\* apply the objects, or record that one of them failed,
ApplyObjects ==
    /\ \/ /\ step.pc = "crd"
          /\ cluster' = [cluster EXCEPT !.crd = CrdOf[step.bundle]]
          /\ step' = [step EXCEPT !.pc = "workload"]
       \/ /\ step.pc = "workload"
          /\ cluster' = [cluster EXCEPT !.workload = step.bundle]
          /\ step' = [step EXCEPT !.pc = "supersede"]
    /\ UNCHANGED <<history, installed, applied, helmFaults>> /\ UnchangedByHelm
ReleaseFails ==
    /\ step.pc \in {"crd", "workload"} /\ HelmFault
    /\ SetLatest("failed")
    /\ ApplyFailed
    /\ UNCHANGED cluster /\ UnchangedByHelm
\* mutant: the previous release stays as it is
SupersedeReleaseLater ==
    /\ step.pc = "supersede" /\ step' = [step EXCEPT !.pc = "deploy"]
    /\ UNCHANGED <<history, cluster, installed, applied, helmFaults>> /\ UnchangedByHelm
\* mark the previous release, and then the new one.
SupersedeRelease ==
    /\ step.pc = "supersede"
    /\ history' = [i \in DOMAIN history |->
                     IF history[i].status = "deployed" THEN [history[i] EXCEPT !.status = "superseded"]
                     ELSE history[i]]
    /\ step' = [step EXCEPT !.pc = "deploy"]
    /\ UNCHANGED <<cluster, installed, applied, helmFaults>> /\ UnchangedByHelm
DeployRelease ==
    /\ step.pc = "deploy"
    /\ SetLatest("deployed")
    /\ step' = AtRest /\ applied' = "content" /\ installed' = step.bundle
    /\ UNCHANGED <<cluster, helmFaults>> /\ UnchangedByHelm
HelmStep == ApplyContent \/ ApplyWithoutContent \/ RecordRelease \/ ApplyObjects
            \/ SupersedeRelease \/ DeployRelease

-----------------------------------------------------------------------------
(* The migration, at the start of every reconcile with the Boxcutter runtime *)

\* mutant: the latest release, deployed or not
MigrationSourceLatest == IF history = <<>> THEN None ELSE Latest.bundle
\* The latest release if it is deployed, or else the latest that is.
MigrationSource ==
    CASE history = <<>> -> None
      [] history # <<>> /\ Latest.status = "deployed" -> Latest.bundle
      [] OTHER -> InstalledBundle
UnchangedByMigration == UNCHANGED <<runtime, wanted, pullable, enforced, history, cluster,
                                    applied, seenRev, helmChanges>>
\* mutant: a revision that exists is left as it is
MigrateOnce ==
    /\ runtime = "boxcutter" /\ step.pc = "idle"
    /\ IF seenRev # NoRev \/ MigrationSource = None
       THEN step' = [AtRest EXCEPT !.pc = "states"] /\ UNCHANGED rev
       ELSE /\ step' = [AtRest EXCEPT !.pc = "status"]
            /\ rev' = IF rev = NoRev THEN [NoRev EXCEPT !.bundle = MigrationSource, !.migrated = TRUE]
                      ELSE [rev EXCEPT !.migrated = TRUE]
    /\ UNCHANGED <<installed, helmFaults>> /\ UnchangedByMigration
\* Migrate: no revisions in the cache and a deployed release give revision 1.
Migrate ==
    /\ runtime = "boxcutter" /\ step.pc = "idle"
    /\ CASE seenRev # NoRev /\ seenRev.succeeded ->
              step' = [AtRest EXCEPT !.pc = "states"] /\ UNCHANGED rev
         [] seenRev # NoRev /\ ~seenRev.succeeded ->
              step' = [AtRest EXCEPT !.pc = "status"] /\ UNCHANGED rev
         [] seenRev = NoRev /\ MigrationSource = None ->
              step' = [AtRest EXCEPT !.pc = "states"] /\ UNCHANGED rev
         [] OTHER ->
              /\ step' = [AtRest EXCEPT !.pc = "status"]
              /\ rev' = IF rev = NoRev
                        THEN [NoRev EXCEPT !.bundle = MigrationSource, !.migrated = TRUE]
                        ELSE [rev EXCEPT !.migrated = TRUE]
    /\ UNCHANGED <<installed, helmFaults>> /\ UnchangedByMigration
\* ensureRevisionStatus: reads the cache; an update of an old copy is refused.
EnsureRevisionStatus ==
    /\ step.pc = "status"
    /\ CASE seenRev = NoRev -> step' = AtRest /\ UNCHANGED rev
         [] seenRev # NoRev /\ (~seenRev.migrated \/ seenRev.succeeded) ->
              step' = [step EXCEPT !.pc = "states"] /\ UNCHANGED rev
         [] OTHER -> \/ /\ seenRev = rev
                        /\ rev' = [rev EXCEPT !.succeeded = TRUE]
                        /\ step' = [step EXCEPT !.pc = "states"]
                     \/ /\ seenRev # rev
                        /\ step' = AtRest /\ UNCHANGED rev
    /\ UNCHANGED <<installed, helmFaults>> /\ UnchangedByMigration
\* The rest of the reconcile: the installed bundle is read from the cache, and
\* the applier creates a first revision if there is none.
RetrieveRevisionStates ==
    /\ step.pc = "states"
    /\ installed' = IF seenRev.succeeded THEN seenRev.bundle ELSE None
    /\ rev' = IF seenRev = NoRev /\ rev = NoRev /\ pullable THEN [NoRev EXCEPT !.bundle = wanted]
              ELSE rev
    /\ step' = AtRest
    /\ UNCHANGED helmFaults /\ UnchangedByMigration
MigrationStep == Migrate \/ EnsureRevisionStatus \/ RetrieveRevisionStates

-----------------------------------------------------------------------------
(* The environment                                                          *)

UserWants ==
    /\ HelmChange
    /\ \E b \in Bundles \ {wanted} : wanted' = b
    /\ applied' = "no"
    /\ UNCHANGED <<runtime, pullable, enforced, history, cluster, step, installed, rev, seenRev,
                   helmFaults>>
RegistryChanges ==
    /\ HelmChange
    /\ pullable' = ~pullable
    /\ UNCHANGED <<runtime, wanted, enforced, history, cluster, step, installed, applied, rev,
                   seenRev, helmFaults>>
\* The process stops; it may come back with the other runtime.
RestartHelm ==
    /\ HelmFault
    /\ step' = AtRest /\ applied' = "no"
    /\ runtime' \in {runtime, "boxcutter"}
    /\ seenRev' = rev
    /\ UNCHANGED <<wanted, pullable, enforced, history, cluster, installed, rev, helmChanges>>
\* The ClusterObjectSet controller rolls revision 1 out.
RolledOut ==
    /\ rev # NoRev /\ ~rev.rolledOut
    /\ rev' = [rev EXCEPT !.rolledOut = TRUE, !.succeeded = TRUE]
    /\ cluster' = ManifestOf(rev.bundle)
    /\ UNCHANGED <<runtime, wanted, pullable, enforced, history, step, installed, applied, seenRev,
                   helmChanges, helmFaults>>
SyncRevisions ==
    /\ seenRev # rev
    /\ seenRev' = rev
    /\ UNCHANGED <<runtime, wanted, pullable, enforced, history, cluster, step, installed, applied,
                   rev, helmChanges, helmFaults>>

HelmNext ==
    \/ HelmStep \/ ReleaseFails \/ MigrationStep
    \/ UserWants \/ RegistryChanges \/ RestartHelm \/ RolledOut \/ SyncRevisions
HelmSpec == HelmInit /\ [][HelmNext]_helmVars
FairHelm ==
    /\ WF_helmVars(HelmStep) /\ WF_helmVars(MigrationStep) /\ WF_helmVars(SyncRevisions)
FairHelmSpec == HelmSpec /\ FairHelm

-----------------------------------------------------------------------------
\* Every variable has its type, and Helm has at most one deployed release.
HelmTypeOK ==
    /\ runtime \in {"helm", "boxcutter"} /\ wanted \in Bundles
    /\ pullable \in BOOLEAN /\ enforced \in BOOLEAN
    /\ \A i \in DOMAIN history :
         /\ history[i].bundle \in Bundles
         /\ history[i].status \in {"pending", "failed", "deployed", "superseded"}
    /\ \A i, j \in DeployedAt : i = j
    /\ installed \in Bundles \cup {None} /\ applied \in {"no", "content", "maintained"}
    /\ rev.bundle \in Bundles \cup {None} /\ seenRev.bundle \in Bundles \cup {None}
    /\ Len(history) <= MaxReleases
    /\ helmChanges \in 0..MaxHelmChanges /\ helmFaults \in 0..MaxHelmFaults

\* When Apply succeeds with content, the reported bundle is the one on the cluster
\* and the deployed release: also after earlier attempts that failed half way.
AppliedIsDeployed ==
    (runtime = "helm" /\ applied = "content" /\ step = AtRest) =>
      /\ cluster = ManifestOf(installed)
      /\ InstalledBundle = installed

\* Without content the current state is maintained: "If contentFS is nil, we're
\* maintaining the current state without catalog access." (Apply)
MaintainsInstalled ==
    (runtime = "helm" /\ applied = "maintained" /\ step = AtRest) => cluster = ManifestOf(installed)

\* With the check enforced, no step of the Helm runtime changes the CRD on the cluster
\* in a way that breaks, whichever of install, upgrade, retry and maintenance makes it.
CRDUpgradesAreSafe ==
    [][(runtime = "helm" /\ enforced) => <<cluster.crd, cluster'.crd>> \notin Breaks]_helmVars

\* What is wanted and can be pulled gets deployed, unless the process stopped while Helm
\* had a release pending, or the preflight check refuses it.
WantedIsDeployed ==
    \A b \in Bundles :
      <>[](runtime = "helm" /\ wanted = b /\ pullable)
        => <>[](\/ InstalledBundle = b /\ installed = b
                \/ history # <<>> /\ Latest.status = "pending"
                \/ PreflightFails(b) \/ Len(history) = MaxReleases)

\* A revision is marked as succeeded because it was rolled out, or because it was made
\* from the release that the Helm runtime reports as installed.
SucceededWasDeployed ==
    rev.succeeded => \/ rev.rolledOut
                     \/ rev.migrated /\ rev.bundle = InstalledBundle

\* A deployed release is migrated, and the revision is marked without waiting for its
\* rollout, although the process may stop between the two writes.
MigrationCompletes ==
    []<>((runtime = "boxcutter" /\ InstalledBundle # None /\ (rev = NoRev \/ rev.migrated))
           => rev.succeeded)

\* What is reported as installed or succeeded was deployed or rolled out (Apply,
\* GetRevisionStates, Migrate).
ReportsAreTrue == AppliedIsDeployed /\ SucceededWasDeployed

\* The Helm runtime gets to what is wanted, and the migration away from it ends.
HelmConverges == WantedIsDeployed /\ MigrationCompletes
=============================================================================
