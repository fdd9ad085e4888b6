--------------------------- MODULE ServiceProofs ----------------------------
(***************************************************************************)
(* Proofs about the Helm applier and about the services that keep tokens   *)
(* and certificates.                                                       *)
(***************************************************************************)
EXTENDS HelmApplier, TokenGetter, CertPool, WellFoundedInduction, FiniteSetTheorems,
        TLAPS

\* A set of naturals that is not empty has a least element.
LEMMA MinExists ==
    ASSUME NEW S \in SUBSET Nat, S # {}
    PROVE  \E x \in S : \A y \in S : x =< y
<1>1. \E x \in S : \A y \in S : ~ (<<y, x>> \in OpToRel(<, Nat))
  BY NatLessThanWellFounded, WFMin, Zenon
<1>2. PICK x \in S : \A y \in S : ~ (<<y, x>> \in OpToRel(<, Nat)) BY <1>1, Zenon
<1>3. ASSUME NEW y \in S PROVE x =< y
  <2>1. x \in Nat /\ y \in Nat OBVIOUS
  <2>2. ~ (y < x) BY <1>2, <2>1, Zenon DEF OpToRel
  <2> QED BY <2>1, <2>2
<1> QED BY <1>3

\* Max chooses the greatest element of a bounded set.
LEMMA MaxIn ==
    ASSUME NEW n \in Nat, NEW S \in SUBSET (1..n), S # {}
    PROVE  Max(S) \in S /\ \A y \in S : y <= Max(S)
<1>a. \A i, j, k \in Int : i - j =< i - k => j >= k OBVIOUS
<1>b. n \in Int /\ \A x \in S : x \in Int OBVIOUS
<1> DEFINE T == {n - x : x \in S}
<1>1. T \in SUBSET Nat
  <2>1. \A x \in S : n - x \in Nat OBVIOUS
  <2> QED BY <2>1, Zenon
<1>2. T # {} BY Zenon
<1>3. PICK t \in T : \A u \in T : t =< u BY <1>1, <1>2, MinExists, Zenon
<1>4. PICK m \in S : t = n - m OBVIOUS
<1>5. ASSUME NEW y \in S PROVE m >= y
  <2>1. n - m =< n - y BY <1>3, <1>4
  <2>2. n \in Int /\ m \in Int /\ y \in Int BY <1>b, Zenon
  <2> QED BY <1>a, <2>1, <2>2, Zenon
<1>6. \E x \in S : \A y \in S : x >= y BY <1>5
<1>7. Max(S) \in S /\ \A y \in S : Max(S) >= y BY <1>6, Zenon DEF Max
<1> QED BY <1>7

(***************************************************************************)
(* The Helm applier and the migration of its releases, for any bundles, any*)
(* history and any number of changes and stops                             *)
(***************************************************************************)

InstallPcs == {"record", "crd", "workload", "supersede", "deploy"}
ReleaseStatuses == {"pending", "failed", "deployed", "superseded"}
Releases == [bundle: Bundles, status: ReleaseStatuses]
Revisions == [bundle: Bundles \cup {None}, migrated: BOOLEAN, succeeded: BOOLEAN, rolledOut: BOOLEAN]
Manifests == [crd: {CrdOf[b] : b \in Bundles} \cup {None}, workload: Bundles \cup {None}]
Steps == [pc: InstallPcs \cup {"idle", "status", "states"}, bundle: Bundles \cup {None}]

HelmTyped ==
    /\ runtime \in {"helm", "boxcutter"} /\ wanted \in Bundles
    /\ pullable \in BOOLEAN /\ enforced \in BOOLEAN
    /\ history \in Seq(Releases) /\ Len(history) <= MaxReleases
    /\ cluster \in Manifests /\ step \in Steps
    /\ installed \in Bundles \cup {None} /\ applied \in {"no", "content", "maintained"}
    /\ rev \in Revisions /\ seenRev \in Revisions
    /\ helmChanges \in 0..MaxHelmChanges /\ helmFaults \in 0..MaxHelmFaults
OneDeployed == \A i, j \in DeployedAt : i = j
\* While a release is installed it is the latest one and pending, its objects are applied
\* in order, and no other is deployed when it becomes so.
StepOK ==
    /\ step.pc \in InstallPcs => runtime = "helm" /\ step.bundle \in Bundles
    /\ step.pc = "idle" => step = AtRest
    /\ step.pc \in {"status", "states"} => runtime = "boxcutter"
    /\ step.pc = "record" => Len(history) < MaxReleases
    /\ step.pc \in InstallPcs \ {"record"} =>
         history # <<>> /\ Latest = [bundle |-> step.bundle, status |-> "pending"]
    /\ step.pc = "workload" => cluster.crd = CrdOf[step.bundle]
    /\ step.pc \in {"supersede", "deploy"} => cluster = ManifestOf(step.bundle)
    /\ step.pc = "deploy" => DeployedAt = {}
\* The CRD on the cluster can become that of the latest release, and that of the one
\* about to be recorded: maintenance applies the former whatever its status is.
CrdOK ==
    (runtime = "helm" /\ enforced) =>
      /\ step.pc = "record" => <<cluster.crd, CrdOf[step.bundle]>> \notin Breaks
      /\ history # <<>> => <<cluster.crd, CrdOf[Latest.bundle]>> \notin Breaks
\* Revision 1 is made from the installed release if there is one; it is made of something
\* else only when the migration has found none.
RevOK ==
    /\ runtime = "helm" => rev = NoRev
    /\ rev = NoRev \/ rev.bundle \in Bundles
    /\ rev = NoRev => seenRev = NoRev
    /\ (rev # NoRev /\ InstalledBundle # None) => rev.bundle = InstalledBundle
    /\ rev.migrated => rev.bundle = InstalledBundle
    /\ rev.succeeded => rev.rolledOut \/ rev.migrated
    /\ (step.pc = "states" /\ rev = NoRev) => InstalledBundle = None
HelmInv == HelmTyped /\ OneDeployed /\ StepOK /\ CrdOK /\ RevOK /\ AppliedIsDeployed

-----------------------------------------------------------------------------
(* The history                                                              *)

LEMMA HelmConstructors ==
    /\ AtRest \in Steps /\ NoRev \in Revisions /\ NothingApplied \in Manifests
    /\ \A b \in Bundles : ManifestOf(b) \in Manifests
BY DEF AtRest, Steps, NoRev, Revisions, NothingApplied, Manifests, ManifestOf

LEMMA LatestFacts ==
    ASSUME history \in Seq(Releases), history # <<>>
    PROVE  /\ Len(history) \in DOMAIN history /\ Len(history) \in Nat \ {0}
           /\ Latest \in Releases /\ Latest.bundle \in Bundles /\ Latest.status \in ReleaseStatuses
<1>1. Len(history) \in Nat /\ Len(history) # 0 /\ DOMAIN history = 1..Len(history) OBVIOUS
<1>2. Len(history) \in DOMAIN history BY <1>1
<1>3. history[Len(history)] \in Releases BY <1>2
<1> QED BY <1>1, <1>2, <1>3 DEF Latest, Releases

\* The installed bundle is that of the one deployed release.
LEMMA InstalledFacts ==
    ASSUME history \in Seq(Releases), OneDeployed
    PROVE  /\ InstalledBundle \in Bundles \cup {None}
           /\ \A i \in DeployedAt : InstalledBundle = history[i].bundle
           /\ DeployedAt = {} => InstalledBundle = None
           /\ InstalledBundle # None => history # <<>>
<1>1. /\ DeployedAt \in SUBSET (1..Len(history)) /\ DeployedAt \subseteq DOMAIN history
      /\ Len(history) \in Nat
  BY DEF DeployedAt
<1>2. CASE DeployedAt = {}
  BY <1>2 DEF InstalledBundle
<1>3. CASE DeployedAt # {}
  <2>1. Max(DeployedAt) \in DeployedAt BY <1>1, <1>3, MaxIn, Zenon
  <2>2. \A i \in DeployedAt : i = Max(DeployedAt) BY <2>1 DEF OneDeployed
  <2>3. InstalledBundle = history[Max(DeployedAt)].bundle BY <1>3 DEF InstalledBundle
  <2>4. history[Max(DeployedAt)] \in Releases BY <1>1, <2>1
  <2>5. history # <<>> BY <1>1, <2>1
  <2>6. InstalledBundle \in Bundles BY <2>3, <2>4 DEF Releases
  <2> QED BY <1>3, <2>2, <2>3, <2>5, <2>6
<1> QED BY <1>2, <1>3

\* The migration finds what GetRevisionStates finds.
LEMMA MigrationSourceFacts ==
    ASSUME history \in Seq(Releases), OneDeployed PROVE MigrationSource = InstalledBundle
<1>1. CASE history = <<>>
  <2>1. DeployedAt = {} BY <1>1 DEF DeployedAt
  <2> QED BY <1>1, <2>1 DEF MigrationSource, InstalledBundle
<1>2. CASE history # <<>> /\ Latest.status = "deployed"
  <2>1. Len(history) \in DeployedAt BY <1>2, LatestFacts DEF DeployedAt, Latest
  <2>2. InstalledBundle = Latest.bundle BY <2>1, InstalledFacts DEF Latest
  <2> QED BY <1>2, <2>2 DEF MigrationSource
<1>3. CASE history # <<>> /\ Latest.status # "deployed"
  BY <1>3 DEF MigrationSource
<1> QED BY <1>1, <1>2, <1>3

LEMMA SetLatestFacts ==
    ASSUME history \in Seq(Releases), history # <<>>, NEW st \in ReleaseStatuses, SetLatest(st)
    PROVE  /\ history' \in Seq(Releases) /\ Len(history') = Len(history) /\ history' # <<>>
           /\ Latest'.bundle = Latest.bundle /\ Latest'.status = st
           /\ \A i \in DOMAIN history \ {Len(history)} : history'[i] = history[i]
           /\ DeployedAt' = (DeployedAt \ {Len(history)})
                              \cup (IF st = "deployed" THEN {Len(history)} ELSE {})
<1> DEFINE n == Len(history)
           r == [history[n] EXCEPT !.status = st]
<1>1. n \in DOMAIN history /\ n \in Nat \ {0} /\ history[n] \in Releases BY LatestFacts DEF Latest
<1>2. r \in Releases /\ r.bundle = history[n].bundle /\ r.status = st BY <1>1 DEF Releases
<1>3. history' = [history EXCEPT ![n] = r] BY DEF SetLatest
<1> HIDE DEF r
<1>4. history' \in Seq(Releases) /\ Len(history') = n /\ history'[n] = r
      /\ \A i \in DOMAIN history \ {n} : history'[i] = history[i]
  BY <1>1, <1>2, <1>3
<1>5. history' # <<>> /\ DOMAIN history' = DOMAIN history BY <1>1, <1>4
<1>6. Latest' = r BY <1>4 DEF Latest
<1>7. ASSUME NEW i PROVE i \in DeployedAt' <=> i \in (DeployedAt \ {n}) \cup (IF st = "deployed" THEN {n} ELSE {})
  <2>1. CASE i = n BY <1>1, <1>2, <1>4, <1>5, <2>1 DEF DeployedAt
  <2>2. CASE i # n BY <1>4, <1>5, <2>2 DEF DeployedAt
  <2> QED BY <2>1, <2>2
<1> QED BY <1>2, <1>4, <1>5, <1>6, <1>7 DEF Latest

-----------------------------------------------------------------------------
(* The Helm runtime                                                         *)

LEMMA HelmInitHolds == HelmInit => HelmInv
<1> SUFFICES ASSUME HelmInit PROVE HelmInv OBVIOUS
<1>1. DeployedAt = {} BY DEF HelmInit, DeployedAt
<1>2. HelmTyped BY HelmConstructors, HelmBoundsAssumption DEF HelmInit, HelmTyped
<1>3. OneDeployed BY <1>1 DEF OneDeployed
<1>4. StepOK BY DEF HelmInit, StepOK, AtRest, InstallPcs
<1>5. CrdOK BY DEF HelmInit, CrdOK, AtRest
<1>6. RevOK BY DEF HelmInit, RevOK, NoRev, AtRest
<1>7. AppliedIsDeployed BY DEF HelmInit, AppliedIsDeployed
<1> QED BY <1>2, <1>3, <1>4, <1>5, <1>6, <1>7 DEF HelmInv

\* With the Helm runtime there is no revision to speak of.
LEMMA HelmFrame ==
    ASSUME HelmInv, runtime = "helm", UnchangedByHelm, step'.pc # "states"
    PROVE  /\ RevOK' /\ rev' \in Revisions /\ seenRev' \in Revisions
           /\ runtime' = "helm" /\ wanted' \in Bundles /\ enforced' = enforced /\ pullable' \in BOOLEAN
           /\ enforced' \in BOOLEAN /\ helmChanges' \in 0..MaxHelmChanges
<1>1. rev' = NoRev /\ seenRev' = NoRev BY DEF UnchangedByHelm, HelmInv, RevOK
<1>2. RevOK' BY <1>1 DEF RevOK, NoRev
<1> QED BY <1>2 DEF UnchangedByHelm, HelmInv, HelmTyped

\* The reconcile is over, the history stays and the objects stay or become the latest
\* release's.
LEMMA RestStep ==
    ASSUME HelmInv, runtime = "helm", UnchangedByHelm, step' = AtRest, history' = history,
           installed' \in Bundles \cup {None}, applied' \in {"no", "content", "maintained"},
           helmFaults' \in 0..MaxHelmFaults,
           \/ cluster' = cluster
           \/ history # <<>> /\ cluster' = ManifestOf(Latest.bundle),
           AppliedIsDeployed'
    PROVE  HelmInv'
<1>1. /\ RevOK' /\ rev' \in Revisions /\ seenRev' \in Revisions
      /\ runtime' = "helm" /\ wanted' \in Bundles /\ enforced' = enforced /\ pullable' \in BOOLEAN
      /\ enforced' \in BOOLEAN /\ helmChanges' \in 0..MaxHelmChanges
  BY HelmFrame DEF AtRest
<1>2. history \in Seq(Releases) /\ DeployedAt' = DeployedAt /\ Latest' = Latest
  BY DEF HelmInv, HelmTyped, DeployedAt, Latest
<1>3. HelmTyped'
  <2>1. cluster' \in Manifests BY <1>2, LatestFacts, HelmConstructors DEF HelmInv, HelmTyped
  <2> QED BY <1>1, <2>1, HelmConstructors DEF HelmInv, HelmTyped
<1>4. OneDeployed' BY <1>2 DEF HelmInv, OneDeployed
<1>5. StepOK' BY DEF StepOK, AtRest, InstallPcs
<1>6. CrdOK'
  <2> SUFFICES ASSUME enforced, history # <<>>
               PROVE  <<cluster'.crd, CrdOf[Latest.bundle]>> \notin Breaks
    BY <1>1, <1>2 DEF CrdOK, AtRest
  <2>1. CASE cluster' = cluster BY <2>1 DEF HelmInv, CrdOK
  <2>2. CASE cluster' = ManifestOf(Latest.bundle)
    <3>1. Latest.bundle \in Bundles BY <1>2, LatestFacts
    <3>2. cluster'.crd = CrdOf[Latest.bundle] BY <2>2 DEF ManifestOf
    <3> QED BY <3>1, <3>2, BundlesAssumption, Zenon
  <2> QED BY <2>1, <2>2
<1> QED BY <1>1, <1>3, <1>4, <1>5, <1>6 DEF HelmInv

\* What getReleaseState and the preflight check leave for an install or an upgrade, and
\* for a release that is what is wanted.
LEMMA ReleaseStates ==
    ASSUME HelmInv, NEW b \in Bundles
    PROVE  /\ ReleaseState(b) = "Unchanged" =>
                 history # <<>> /\ Latest.bundle = b /\ InstalledBundle = b
           /\ (ReleaseState(b) \notin {"Error", "Unchanged"} /\ ~PreflightFails(b) /\ enforced)
                => <<cluster.crd, CrdOf[b]>> \notin Breaks
<1>1. history \in Seq(Releases) /\ OneDeployed /\ cluster \in Manifests BY DEF HelmInv, HelmTyped
<1>2. CASE history = <<>>
  <2>1. ReleaseState(b) = "NeedsInstall" BY <1>2 DEF ReleaseState
  <2> QED BY <2>1, BundlesAssumption, Zenon DEF PreflightFails, ShouldSkipPreflight
<1>3. CASE history # <<>> /\ Latest.status = "pending"
  <2>1. ReleaseState(b) = "Error" BY <1>3 DEF ReleaseState
  <2> QED BY <2>1
<1> DEFINE differs == \/ ManifestOf(b) # ManifestOf(Latest.bundle)
                      \/ Latest.status \in {"failed", "superseded"}
<1>4. CASE history # <<>> /\ Latest.status # "pending" /\ differs
  <2>1. ReleaseState(b) = "NeedsUpgrade" BY <1>4 DEF ReleaseState
  <2> QED BY <2>1, BundlesAssumption, Zenon DEF PreflightFails, ShouldSkipPreflight
<1>5. CASE history # <<>> /\ Latest.status # "pending" /\ ~differs
  <2>1. ReleaseState(b) = "Unchanged" BY <1>5 DEF ReleaseState
  <2>2. Latest.status = "deployed" /\ Len(history) \in DOMAIN history
    BY <1>1, <1>5, LatestFacts DEF ReleaseStatuses
  <2>3. Latest.bundle = b BY <1>5 DEF ManifestOf
  <2>4. Len(history) \in DeployedAt BY <2>2 DEF DeployedAt, Latest
  <2>5. InstalledBundle = b BY <1>1, <2>3, <2>4, InstalledFacts DEF Latest
  <2> QED BY <1>5, <2>1, <2>3, <2>5
<1> QED BY <1>2, <1>3, <1>4, <1>5

LEMMA ApplyContentStep == ASSUME HelmInv, ApplyContent PROVE HelmInv'
<1>1. /\ runtime = "helm" /\ step = AtRest /\ history' = history /\ helmFaults' = helmFaults
      /\ UnchangedByHelm
  BY DEF ApplyContent
<1>2. /\ history \in Seq(Releases) /\ OneDeployed /\ wanted \in Bundles
      /\ helmFaults' \in 0..MaxHelmFaults
  BY <1>1 DEF HelmInv, HelmTyped
<1>3. InstalledBundle \in Bundles \cup {None} BY <1>2, InstalledFacts
<1>4. CASE ReleaseState(wanted) = "Error" \/ PreflightFails(wanted)
  <2>0. ReleaseState(wanted) # "Unchanged" BY <1>4 DEF PreflightFails
  <2>1. ApplyFailed /\ cluster' = cluster BY <1>4, <2>0 DEF ApplyContent
  <2>2. AppliedIsDeployed' BY <2>1 DEF ApplyFailed, AppliedIsDeployed
  <2> QED BY <1>1, <1>2, <1>3, <2>1, <2>2, RestStep DEF ApplyFailed
<1>5. CASE ReleaseState(wanted) = "Unchanged"
  <2>1. ~PreflightFails(wanted) BY <1>5 DEF PreflightFails
  <2>2. /\ cluster' = ManifestOf(Latest.bundle) /\ step' = AtRest /\ applied' = "content"
        /\ installed' = wanted
    BY <1>5, <2>1 DEF ApplyContent
  <2>3. history # <<>> /\ Latest.bundle = wanted /\ InstalledBundle = wanted
    BY <1>2, <1>5, ReleaseStates, Zenon
  <2>4. InstalledBundle' = InstalledBundle BY <1>1 DEF InstalledBundle, DeployedAt
  <2>5. AppliedIsDeployed' BY <2>2, <2>3, <2>4 DEF AppliedIsDeployed, ManifestOf
  <2> QED BY <1>1, <1>2, <2>2, <2>3, <2>5, RestStep
<1>6. CASE ReleaseState(wanted) \notin {"Error", "Unchanged"} /\ ~PreflightFails(wanted)
  <2>1. /\ Len(history) < MaxReleases /\ step' = [pc |-> "record", bundle |-> wanted]
        /\ UNCHANGED <<cluster, installed, applied>>
    BY <1>6 DEF ApplyContent
  <2>2. /\ RevOK' /\ rev' \in Revisions /\ seenRev' \in Revisions
        /\ runtime' = "helm" /\ wanted' \in Bundles /\ enforced' = enforced /\ pullable' \in BOOLEAN
        /\ enforced' \in BOOLEAN /\ helmChanges' \in 0..MaxHelmChanges
    BY <1>1, <2>1, HelmFrame
  <2>3. step' \in Steps /\ step'.pc = "record" /\ step'.bundle = wanted
    BY <1>2, <2>1 DEF Steps, InstallPcs
  <2>4. DeployedAt' = DeployedAt /\ Latest' = Latest BY <1>1 DEF DeployedAt, Latest
  <2>5. HelmTyped' BY <1>1, <1>2, <2>1, <2>2, <2>3 DEF HelmInv, HelmTyped
  <2>6. OneDeployed' BY <2>4 DEF HelmInv, OneDeployed
  <2>7. StepOK' BY <1>1, <1>2, <2>1, <2>2, <2>3 DEF StepOK, InstallPcs
  <2>8. CrdOK'
    <3>1. enforced => <<cluster.crd, CrdOf[wanted]>> \notin Breaks BY <1>2, <1>6, ReleaseStates
    <3> QED BY <1>1, <2>1, <2>2, <2>3, <2>4, <3>1 DEF HelmInv, CrdOK
  <2>9. AppliedIsDeployed' BY <2>3 DEF AppliedIsDeployed, AtRest
  <2> QED BY <2>2, <2>5, <2>6, <2>7, <2>8, <2>9 DEF HelmInv
<1> QED BY <1>4, <1>5, <1>6

LEMMA ApplyWithoutContentStep == ASSUME HelmInv, ApplyWithoutContent PROVE HelmInv'
<1>1. /\ runtime = "helm" /\ step = AtRest /\ history' = history /\ helmFaults' = helmFaults
      /\ UnchangedByHelm
  BY DEF ApplyWithoutContent
<1>2. /\ history \in Seq(Releases) /\ OneDeployed /\ wanted \in Bundles
      /\ helmFaults' \in 0..MaxHelmFaults
  BY <1>1 DEF HelmInv, HelmTyped
<1>3. InstalledBundle \in Bundles \cup {None}
  BY <1>2, InstalledFacts
<1>4. PICK resolved \in {wanted, InstalledBundle} :
        IF MaintainedWithoutContent(resolved)
        THEN /\ cluster' = ManifestOf(Latest.bundle)
             /\ step' = AtRest /\ applied' = "maintained" /\ installed' = resolved
        ELSE ApplyFailed /\ UNCHANGED cluster
  BY DEF ApplyWithoutContent
<1>5. CASE MaintainedWithoutContent(resolved)
  <2>1. /\ cluster' = ManifestOf(Latest.bundle) /\ step' = AtRest /\ applied' = "maintained"
        /\ installed' = resolved
    BY <1>4, <1>5
  <2>2. history # <<>> BY <1>2, <1>5, InstalledFacts DEF MaintainedWithoutContent
  <2>3. AppliedIsDeployed' BY <2>1 DEF AppliedIsDeployed
  <2>4. installed' \in Bundles \cup {None} BY <1>2, <1>3, <2>1
  <2> QED BY <1>1, <1>2, <2>1, <2>2, <2>3, <2>4, RestStep
<1>6. CASE ~MaintainedWithoutContent(resolved)
  <2>1. ApplyFailed /\ cluster' = cluster BY <1>4, <1>6
  <2>2. AppliedIsDeployed' BY <2>1 DEF ApplyFailed, AppliedIsDeployed
  <2> QED BY <1>1, <1>2, <1>3, <2>1, <2>2, RestStep DEF ApplyFailed
<1> QED BY <1>5, <1>6

\* A release is being installed: what is the same at each of its steps.
LEMMA InstallingFacts ==
    ASSUME HelmInv, step.pc \in InstallPcs, UnchangedByHelm, step'.pc # "states"
    PROVE  /\ runtime = "helm" /\ step.bundle \in Bundles /\ step \in Steps
           /\ history \in Seq(Releases) /\ Len(history) \in Nat /\ cluster \in Manifests
           /\ RevOK' /\ rev' \in Revisions /\ seenRev' \in Revisions
           /\ runtime' = "helm" /\ wanted' \in Bundles /\ enforced' = enforced /\ pullable' \in BOOLEAN
           /\ enforced' \in BOOLEAN /\ helmChanges' \in 0..MaxHelmChanges
<1>1. runtime = "helm" /\ step.bundle \in Bundles BY DEF HelmInv, StepOK
<1>2. step \in Steps /\ history \in Seq(Releases) /\ cluster \in Manifests BY DEF HelmInv, HelmTyped
<1> QED BY <1>1, <1>2, HelmFrame

LEMMA RecordStep == ASSUME HelmInv, RecordRelease PROVE HelmInv'
<1> DEFINE r == [bundle |-> step.bundle, status |-> "pending"]
<1>1. /\ step.pc = "record" /\ history' = Append(history, r) /\ step' = [step EXCEPT !.pc = "crd"]
      /\ UNCHANGED <<cluster, installed, applied, helmFaults>> /\ UnchangedByHelm
  BY DEF RecordRelease
<1>0. step \in Steps BY DEF HelmInv, HelmTyped
<1>2. step' \in Steps /\ step'.pc = "crd" /\ step'.bundle = step.bundle
  BY <1>0, <1>1 DEF Steps, InstallPcs
<1>3. /\ runtime = "helm" /\ step.bundle \in Bundles
      /\ history \in Seq(Releases) /\ Len(history) \in Nat
      /\ RevOK' /\ rev' \in Revisions /\ seenRev' \in Revisions
      /\ runtime' = "helm" /\ wanted' \in Bundles /\ enforced' = enforced /\ pullable' \in BOOLEAN
      /\ enforced' \in BOOLEAN /\ helmChanges' \in 0..MaxHelmChanges
  BY <1>1, <1>2, InstallingFacts DEF InstallPcs
<1>4. r \in Releases BY <1>3 DEF Releases, ReleaseStatuses
<1>5. /\ history' \in Seq(Releases) /\ Len(history') = Len(history) + 1 /\ history' # <<>>
      /\ history'[Len(history')] = r
      /\ \A i \in DOMAIN history : history'[i] = history[i]
      /\ DOMAIN history' = DOMAIN history \cup {Len(history')}
  <2> HIDE DEF r
  <2> QED BY <1>1, <1>3, <1>4
<1>6. Latest' = r BY <1>5 DEF Latest
<1>7. DeployedAt' = DeployedAt BY <1>5 DEF DeployedAt
<1>8. HelmTyped'
  <2>1. Len(history') <= MaxReleases
    BY <1>1, <1>3, <1>5, HelmBoundsAssumption DEF HelmInv, StepOK
  <2> QED BY <1>1, <1>2, <1>3, <1>5, <2>1 DEF HelmInv, HelmTyped
<1>9. OneDeployed' BY <1>7 DEF HelmInv, OneDeployed
<1>10. StepOK' BY <1>2, <1>3, <1>5, <1>6 DEF StepOK, InstallPcs
<1>11. CrdOK' BY <1>1, <1>2, <1>3, <1>6 DEF HelmInv, CrdOK
<1>12. AppliedIsDeployed' BY <1>2 DEF AppliedIsDeployed, AtRest
<1> QED BY <1>3, <1>8, <1>9, <1>10, <1>11, <1>12 DEF HelmInv

LEMMA ApplyObjectsStep == ASSUME HelmInv, ApplyObjects PROVE HelmInv'
<1>1. /\ step.pc \in {"crd", "workload"} /\ step'.pc \in {"workload", "supersede"}
      /\ UNCHANGED <<history, installed, applied, helmFaults>> /\ UnchangedByHelm
      /\ step' \in Steps /\ step'.bundle = step.bundle
  <2>1. step \in Steps BY DEF HelmInv, HelmTyped
  <2> QED BY <2>1 DEF ApplyObjects, Steps, InstallPcs
<1>3. /\ runtime = "helm" /\ step.bundle \in Bundles /\ cluster \in Manifests
      /\ history \in Seq(Releases) /\ Len(history) \in Nat
      /\ RevOK' /\ rev' \in Revisions /\ seenRev' \in Revisions
      /\ runtime' = "helm" /\ wanted' \in Bundles /\ enforced' = enforced /\ pullable' \in BOOLEAN
      /\ enforced' \in BOOLEAN /\ helmChanges' \in 0..MaxHelmChanges
  BY <1>1, InstallingFacts DEF InstallPcs
<1>4. history # <<>> /\ Latest = [bundle |-> step.bundle, status |-> "pending"]
  BY <1>1 DEF HelmInv, StepOK, InstallPcs
<1>5. DeployedAt' = DeployedAt /\ Latest' = Latest BY <1>1 DEF DeployedAt, Latest
<1>6. /\ cluster' \in Manifests /\ cluster'.crd = CrdOf[step.bundle]
      /\ step'.pc = "supersede" => cluster' = ManifestOf(step.bundle)
  <2>1. CASE step.pc = "crd"
    <3>1. cluster' = [cluster EXCEPT !.crd = CrdOf[step.bundle]] /\ step'.pc # "supersede"
      BY <1>3, <2>1 DEF ApplyObjects, HelmInv, HelmTyped, Steps
    <3>2. cluster' \in Manifests BY <1>3, <3>1 DEF Manifests
    <3> QED BY <1>3, <3>1, <3>2 DEF Manifests
  <2>2. CASE step.pc = "workload"
    <3>1. cluster' = [cluster EXCEPT !.workload = step.bundle] /\ cluster.crd = CrdOf[step.bundle]
      BY <2>2 DEF ApplyObjects, HelmInv, StepOK
    <3>2. cluster' = [crd |-> CrdOf[step.bundle], workload |-> step.bundle]
      BY <1>3, <3>1 DEF Manifests
    <3> QED BY <1>3, <3>2, HelmConstructors DEF ManifestOf
  <2> QED BY <1>1, <2>1, <2>2
<1>7. HelmTyped' BY <1>1, <1>3, <1>6 DEF HelmInv, HelmTyped
<1>8. OneDeployed' BY <1>5 DEF HelmInv, OneDeployed
<1>9. StepOK' BY <1>1, <1>3, <1>4, <1>5, <1>6 DEF StepOK, InstallPcs
<1>10. CrdOK' BY <1>1, <1>3, <1>4, <1>5, <1>6, BundlesAssumption, Zenon DEF CrdOK
<1>11. AppliedIsDeployed' BY <1>1 DEF AppliedIsDeployed, AtRest
<1> QED BY <1>3, <1>7, <1>8, <1>9, <1>10, <1>11 DEF HelmInv

LEMMA ReleaseFailsStep == ASSUME HelmInv, ReleaseFails PROVE HelmInv'
<1>1. /\ step.pc \in {"crd", "workload"} /\ HelmFault /\ SetLatest("failed") /\ step' = AtRest
      /\ applied' = "no" /\ installed' = InstalledBundle /\ cluster' = cluster /\ UnchangedByHelm
  BY DEF ReleaseFails, ApplyFailed
<1>3. /\ runtime = "helm" /\ step.bundle \in Bundles /\ cluster \in Manifests
      /\ history \in Seq(Releases) /\ Len(history) \in Nat
      /\ RevOK' /\ rev' \in Revisions /\ seenRev' \in Revisions
      /\ runtime' = "helm" /\ wanted' \in Bundles /\ enforced' = enforced /\ pullable' \in BOOLEAN
      /\ enforced' \in BOOLEAN /\ helmChanges' \in 0..MaxHelmChanges
  BY <1>1, InstallingFacts DEF InstallPcs, AtRest
<1>4. history # <<>> BY <1>1 DEF HelmInv, StepOK, InstallPcs
<1>5. /\ history' \in Seq(Releases) /\ Len(history') = Len(history) /\ history' # <<>>
      /\ Latest'.bundle = Latest.bundle /\ DeployedAt' \subseteq DeployedAt
  BY <1>1, <1>3, <1>4, SetLatestFacts DEF ReleaseStatuses
<1>6. HelmTyped'
  <2>1. InstalledBundle \in Bundles \cup {None} BY <1>3, InstalledFacts DEF HelmInv
  <2>2. helmFaults' \in 0..MaxHelmFaults
    BY <1>1, HelmBoundsAssumption DEF HelmFault, HelmInv, HelmTyped
  <2> QED BY <1>1, <1>3, <1>5, <2>1, <2>2, HelmConstructors DEF HelmInv, HelmTyped
<1>7. OneDeployed' BY <1>5 DEF HelmInv, OneDeployed
<1>8. StepOK' BY <1>1 DEF StepOK, AtRest, InstallPcs
<1>9. CrdOK' BY <1>1, <1>3, <1>4, <1>5 DEF HelmInv, CrdOK, AtRest
<1>10. AppliedIsDeployed' BY <1>1 DEF AppliedIsDeployed
<1> QED BY <1>3, <1>6, <1>7, <1>8, <1>9, <1>10 DEF HelmInv

LEMMA SupersedeStep == ASSUME HelmInv, SupersedeRelease PROVE HelmInv'
<1> DEFINE marked(i) == IF history[i].status = "deployed" THEN [history[i] EXCEPT !.status = "superseded"]
                        ELSE history[i]
<1>1. /\ step.pc = "supersede" /\ history' = [i \in DOMAIN history |-> marked(i)]
      /\ step' = [step EXCEPT !.pc = "deploy"]
      /\ UNCHANGED <<cluster, installed, applied, helmFaults>> /\ UnchangedByHelm
  BY DEF SupersedeRelease
<1>0. step \in Steps BY DEF HelmInv, HelmTyped
<1>2. step' \in Steps /\ step'.pc = "deploy" /\ step'.bundle = step.bundle
  BY <1>0, <1>1 DEF Steps, InstallPcs
<1>3. /\ runtime = "helm" /\ step.bundle \in Bundles
      /\ history \in Seq(Releases) /\ Len(history) \in Nat
      /\ RevOK' /\ rev' \in Revisions /\ seenRev' \in Revisions
      /\ runtime' = "helm" /\ wanted' \in Bundles /\ enforced' = enforced /\ pullable' \in BOOLEAN
      /\ enforced' \in BOOLEAN /\ helmChanges' \in 0..MaxHelmChanges
  BY <1>1, <1>2, InstallingFacts DEF InstallPcs
<1>4. /\ history # <<>> /\ Latest = [bundle |-> step.bundle, status |-> "pending"]
      /\ cluster = ManifestOf(step.bundle)
  BY <1>1 DEF HelmInv, StepOK, InstallPcs
<1>5. \A i \in DOMAIN history : marked(i) \in Releases /\ marked(i).status # "deployed"
  <2> SUFFICES ASSUME NEW i \in DOMAIN history
               PROVE  marked(i) \in Releases /\ marked(i).status # "deployed"
    OBVIOUS
  <2>1. history[i] \in Releases BY <1>3
  <2> QED BY <2>1 DEF Releases, ReleaseStatuses
<1>6. marked(Len(history)) = Latest BY <1>4 DEF Latest
<1> HIDE DEF marked
<1>7. /\ history' \in Seq(Releases) /\ Len(history') = Len(history) /\ history' # <<>>
      /\ DOMAIN history' = DOMAIN history
  <2>1. DOMAIN history = 1..Len(history) /\ Len(history) # 0 BY <1>3, <1>4
  <2>2. history' \in [1..Len(history) -> Releases] BY <1>1, <1>5, <2>1
  <2> QED BY <1>3, <2>1, <2>2
<1>8. Latest' = Latest BY <1>1, <1>3, <1>4, <1>6, <1>7, LatestFacts DEF Latest
<1>9. DeployedAt' = {} BY <1>1, <1>5, <1>7 DEF DeployedAt
<1>10. HelmTyped' BY <1>1, <1>2, <1>3, <1>7 DEF HelmInv, HelmTyped
<1>11. OneDeployed' BY <1>9 DEF OneDeployed
<1>12. StepOK' BY <1>1, <1>2, <1>3, <1>4, <1>7, <1>8, <1>9 DEF StepOK, InstallPcs, ManifestOf
<1>13. CrdOK' BY <1>1, <1>2, <1>3, <1>4, <1>8 DEF HelmInv, CrdOK
<1>14. AppliedIsDeployed' BY <1>2 DEF AppliedIsDeployed, AtRest
<1> QED BY <1>3, <1>10, <1>11, <1>12, <1>13, <1>14 DEF HelmInv

LEMMA DeployStep == ASSUME HelmInv, DeployRelease PROVE HelmInv'
<1>1. /\ step.pc = "deploy" /\ SetLatest("deployed") /\ step' = AtRest /\ applied' = "content"
      /\ installed' = step.bundle /\ UNCHANGED <<cluster, helmFaults>> /\ UnchangedByHelm
  BY DEF DeployRelease
<1>3. /\ runtime = "helm" /\ step.bundle \in Bundles
      /\ history \in Seq(Releases) /\ Len(history) \in Nat
      /\ RevOK' /\ rev' \in Revisions /\ seenRev' \in Revisions
      /\ runtime' = "helm" /\ wanted' \in Bundles /\ enforced' = enforced /\ pullable' \in BOOLEAN
      /\ enforced' \in BOOLEAN /\ helmChanges' \in 0..MaxHelmChanges
  BY <1>1, InstallingFacts DEF InstallPcs, AtRest
<1>4. /\ history # <<>> /\ Latest = [bundle |-> step.bundle, status |-> "pending"]
      /\ cluster = ManifestOf(step.bundle) /\ DeployedAt = {}
  BY <1>1 DEF HelmInv, StepOK, InstallPcs
<1>5. /\ history' \in Seq(Releases) /\ Len(history') = Len(history) /\ history' # <<>>
      /\ Latest'.bundle = step.bundle /\ DeployedAt' = {Len(history')}
  BY <1>1, <1>3, <1>4, SetLatestFacts DEF ReleaseStatuses
<1>6. OneDeployed' BY <1>5 DEF OneDeployed
<1>7. InstalledBundle' = step.bundle
  <2>0. Len(history') \in Nat \ {0} BY <1>3, <1>4, <1>5, LatestFacts
  <2>1. Max({Len(history')}) \in {Len(history')}
    <3> DEFINE n == Len(history')
    <3>1. {n} \in SUBSET (1..n) BY <2>0
    <3> HIDE DEF n
    <3> QED BY <2>0, <3>1, MaxIn, Zenon DEF n
  <2> QED BY <1>5, <2>1 DEF InstalledBundle, Latest
<1>8. HelmTyped' BY <1>1, <1>3, <1>5, HelmConstructors DEF HelmInv, HelmTyped
<1>9. StepOK' BY <1>1 DEF StepOK, AtRest, InstallPcs
<1>10. CrdOK' BY <1>1, <1>3, <1>4, <1>5 DEF HelmInv, CrdOK, AtRest
<1>11. AppliedIsDeployed' BY <1>1, <1>4, <1>7 DEF AppliedIsDeployed, ManifestOf
<1> QED BY <1>3, <1>6, <1>8, <1>9, <1>10, <1>11 DEF HelmInv

-----------------------------------------------------------------------------
(* The migration and the environment                                        *)

\* Nothing that a release or the reported state depends on changes.
LEMMA HistoryStays ==
    ASSUME HelmInv, history' = history
    PROVE  /\ DeployedAt' = DeployedAt /\ Latest' = Latest /\ InstalledBundle' = InstalledBundle
           /\ OneDeployed' /\ history \in Seq(Releases) /\ OneDeployed
           /\ InstalledBundle \in Bundles \cup {None} /\ MigrationSource = InstalledBundle
<1>1. history \in Seq(Releases) /\ OneDeployed BY DEF HelmInv, HelmTyped
<1>2. DeployedAt' = DeployedAt /\ Latest' = Latest BY DEF DeployedAt, Latest
<1>3. InstalledBundle' = InstalledBundle BY <1>2 DEF InstalledBundle
<1> QED BY <1>1, <1>2, <1>3, InstalledFacts, MigrationSourceFacts DEF OneDeployed

\* A step of a reconcile with the Boxcutter runtime.
LEMMA BoxcutterFrame ==
    ASSUME HelmInv, runtime = "boxcutter", UnchangedByMigration, helmFaults' = helmFaults,
           step' \in Steps, step' = AtRest \/ step'.pc \in {"states", "status"},
           installed' \in Bundles \cup {None}, rev' \in Revisions, RevOK'
    PROVE  HelmInv'
<1>1. /\ UNCHANGED <<runtime, wanted, pullable, enforced, history, cluster, applied, seenRev, helmChanges>>
  BY DEF UnchangedByMigration
<1>2. DeployedAt' = DeployedAt /\ OneDeployed' BY <1>1, HistoryStays
<1>3. /\ step' \in Steps /\ step'.pc \in {"idle", "states", "status"}
      /\ step'.pc = "idle" => step' = AtRest
  BY DEF AtRest
<1>4. HelmTyped' BY <1>1, <1>3 DEF HelmInv, HelmTyped
<1>5. StepOK' BY <1>1, <1>3 DEF StepOK, InstallPcs
<1>6. CrdOK' BY <1>1 DEF CrdOK
<1>7. AppliedIsDeployed' BY <1>1 DEF AppliedIsDeployed
<1> QED BY <1>2, <1>4, <1>5, <1>6, <1>7 DEF HelmInv

LEMMA MigrationHolds == ASSUME HelmInv, MigrationStep PROVE HelmInv'
<1>1. /\ runtime = "boxcutter" /\ UnchangedByMigration /\ helmFaults' = helmFaults
      /\ history' = history /\ runtime' = runtime /\ seenRev' = seenRev
  BY DEF MigrationStep, Migrate, EnsureRevisionStatus, RetrieveRevisionStates, UnchangedByMigration,
         HelmInv, StepOK
<1>2. /\ InstalledBundle' = InstalledBundle /\ InstalledBundle \in Bundles \cup {None}
      /\ MigrationSource = InstalledBundle
  BY <1>1, HistoryStays
<1>3. /\ rev \in Revisions /\ seenRev \in Revisions /\ installed \in Bundles \cup {None}
      /\ wanted \in Bundles /\ step \in Steps
  BY DEF HelmInv, HelmTyped
<1>4. /\ rev = NoRev \/ rev.bundle \in Bundles
      /\ rev = NoRev => seenRev = NoRev
      /\ (rev # NoRev /\ InstalledBundle # None) => rev.bundle = InstalledBundle
      /\ rev.migrated => rev.bundle = InstalledBundle
      /\ rev.succeeded => rev.rolledOut \/ rev.migrated
      /\ (step.pc = "states" /\ rev = NoRev) => InstalledBundle = None
  BY DEF HelmInv, RevOK
<1>5. ASSUME Migrate PROVE HelmInv'
  <2>1. installed' = installed BY <1>5 DEF Migrate
  <2>2. CASE rev' = rev
    <3>1. /\ step' \in {[AtRest EXCEPT !.pc = "states"], [AtRest EXCEPT !.pc = "status"]}
          /\ seenRev # NoRev \/ MigrationSource = None \/ rev # NoRev
      <4>1. CASE seenRev # NoRev BY <1>5, <4>1 DEF Migrate
      <4>2. CASE seenRev = NoRev /\ MigrationSource = None BY <1>5, <4>2 DEF Migrate
      <4>3. CASE seenRev = NoRev /\ MigrationSource # None
        <5>1. /\ step' = [AtRest EXCEPT !.pc = "status"]
              /\ rev' = IF rev = NoRev
                        THEN [NoRev EXCEPT !.bundle = MigrationSource, !.migrated = TRUE]
                        ELSE [rev EXCEPT !.migrated = TRUE]
          BY <1>5, <4>3 DEF Migrate
        <5>2. [NoRev EXCEPT !.bundle = MigrationSource, !.migrated = TRUE].bundle # NoRev.bundle
          BY <4>3 DEF NoRev
        <5> QED BY <2>2, <5>1, <5>2, Zenon
      <4> QED BY <4>1, <4>2, <4>3
    <3>2. RevOK' BY <1>1, <1>2, <1>4, <2>2, <3>1 DEF RevOK
    <3>3. step' \in Steps /\ step'.pc \in {"states", "status"} BY <3>1 DEF AtRest, Steps
    <3> QED BY <1>1, <1>3, <2>1, <2>2, <3>2, <3>3, BoxcutterFrame
  <2>3. CASE rev' # rev
    <3>1. /\ seenRev = NoRev /\ MigrationSource # None /\ step' = [AtRest EXCEPT !.pc = "status"]
          /\ rev' = IF rev = NoRev
                    THEN [NoRev EXCEPT !.bundle = MigrationSource, !.migrated = TRUE]
                    ELSE [rev EXCEPT !.migrated = TRUE]
      <4>1. CASE seenRev # NoRev BY <1>5, <2>3, <4>1 DEF Migrate
      <4>2. CASE seenRev = NoRev /\ MigrationSource = None BY <1>5, <2>3, <4>2 DEF Migrate
      <4>3. CASE seenRev = NoRev /\ MigrationSource # None BY <1>5, <4>3 DEF Migrate
      <4> QED BY <4>1, <4>2, <4>3
    <3>2. MigrationSource \in Bundles BY <1>2, <3>1
    <3>3. /\ rev' \in Revisions /\ rev'.bundle = InstalledBundle /\ rev'.migrated
      <4>1. CASE rev = NoRev BY <1>2, <3>1, <3>2, <4>1, Zenon DEF NoRev, Revisions
      <4>2. CASE rev # NoRev
        <5>1. rev.bundle = InstalledBundle BY <1>2, <1>4, <3>1, <4>2
        <5> QED BY <1>3, <3>1, <4>2, <5>1, ZenonT(30) DEF Revisions
      <4> QED BY <4>1, <4>2
    <3>4. rev' # NoRev BY <1>2, <3>2, <3>3, BundlesAssumption DEF NoRev
    <3>5. step' \in Steps /\ step'.pc = "status" BY <3>1 DEF AtRest, Steps
    <3>6. RevOK' BY <1>1, <1>2, <3>2, <3>3, <3>4, <3>5 DEF RevOK
    <3> QED BY <1>1, <1>3, <2>1, <3>3, <3>5, <3>6, BoxcutterFrame
  <2> QED BY <2>2, <2>3
<1>6. ASSUME EnsureRevisionStatus PROVE HelmInv'
  <2>1. installed' = installed /\ step.pc = "status" BY <1>6 DEF EnsureRevisionStatus
  <2>2. CASE rev' = rev
    <3>1. step' = AtRest \/ (step' = [step EXCEPT !.pc = "states"] /\ seenRev # NoRev)
      <4>1. CASE seenRev = NoRev BY <1>6, <4>1 DEF EnsureRevisionStatus
      <4>2. CASE seenRev # NoRev /\ (~seenRev.migrated \/ seenRev.succeeded)
        BY <1>6, <4>2 DEF EnsureRevisionStatus
      <4>3. CASE seenRev # NoRev /\ ~(~seenRev.migrated \/ seenRev.succeeded)
        BY <1>6, <4>3 DEF EnsureRevisionStatus
      <4> QED BY <4>1, <4>2, <4>3
    <3>2. /\ step' \in Steps
          /\ step' = AtRest \/ step'.pc = "states"
          /\ step'.pc = "states" => rev # NoRev
      BY <1>3, <1>4, <3>1, HelmConstructors DEF Steps, AtRest
    <3>3. RevOK' BY <1>1, <1>2, <1>4, <2>2, <3>2 DEF RevOK
    <3> QED BY <1>1, <1>3, <2>1, <2>2, <3>2, <3>3, BoxcutterFrame
  <2>3. CASE rev' # rev
    <3>1. /\ seenRev # NoRev /\ seenRev.migrated /\ seenRev = rev
          /\ rev' = [rev EXCEPT !.succeeded = TRUE] /\ step' = [step EXCEPT !.pc = "states"]
      <4>1. CASE seenRev = NoRev BY <1>6, <2>3, <4>1 DEF EnsureRevisionStatus
      <4>2. CASE seenRev # NoRev /\ (~seenRev.migrated \/ seenRev.succeeded)
        BY <1>6, <2>3, <4>2 DEF EnsureRevisionStatus
      <4>3. CASE seenRev # NoRev /\ ~(~seenRev.migrated \/ seenRev.succeeded)
        BY <1>6, <2>3, <4>3 DEF EnsureRevisionStatus
      <4> QED BY <4>1, <4>2, <4>3
    <3>2. step' \in Steps /\ step'.pc = "states" BY <1>3, <3>1 DEF Steps
    <3>3. /\ rev' \in Revisions /\ rev'.bundle = rev.bundle /\ rev'.migrated
          /\ rev.bundle \in Bundles /\ rev.bundle = InstalledBundle
      BY <1>3, <1>4, <3>1, ZenonT(30) DEF Revisions
    <3>4. rev' # NoRev BY <3>3, BundlesAssumption DEF NoRev
    <3>5. RevOK' BY <1>1, <1>2, <3>3, <3>4 DEF RevOK
    <3> QED BY <1>1, <1>3, <2>1, <3>2, <3>3, <3>5, BoxcutterFrame
  <2> QED BY <2>2, <2>3
<1>7. ASSUME RetrieveRevisionStates PROVE HelmInv'
  <2>1. /\ step.pc = "states" /\ step' = AtRest
        /\ installed' = IF seenRev.succeeded THEN seenRev.bundle ELSE None
        /\ rev' = IF seenRev = NoRev /\ rev = NoRev /\ pullable THEN [NoRev EXCEPT !.bundle = wanted]
                  ELSE rev
    BY <1>7 DEF RetrieveRevisionStates
  <2>2. installed' \in Bundles \cup {None} BY <1>3, <2>1 DEF Revisions
  <2>3. step' \in Steps /\ step'.pc # "states" BY <2>1, HelmConstructors DEF AtRest
  <2>4. CASE rev' = rev
    <3>1. RevOK' BY <1>1, <1>2, <1>4, <2>3, <2>4 DEF RevOK
    <3> QED BY <1>1, <1>3, <2>1, <2>2, <2>3, <2>4, <3>1, BoxcutterFrame
  <2>5. CASE rev' # rev
    <3>1. rev = NoRev /\ rev' = [NoRev EXCEPT !.bundle = wanted] BY <2>1, <2>5
    <3>2. InstalledBundle = None /\ seenRev = NoRev BY <1>4, <2>1, <3>1
    <3>3. /\ rev' \in Revisions /\ rev'.bundle = wanted
          /\ ~rev'.migrated /\ ~rev'.succeeded
      BY <1>3, <3>1, Zenon DEF Revisions, NoRev
    <3>4. RevOK' BY <1>1, <1>2, <1>3, <2>3, <3>2, <3>3 DEF RevOK
    <3> QED BY <1>1, <2>1, <2>2, <2>3, <3>3, <3>4, BoxcutterFrame
  <2> QED BY <2>4, <2>5
<1> QED BY <1>5, <1>6, <1>7 DEF MigrationStep

LEMMA HelmEnvironment ==
    ASSUME HelmInv, UserWants \/ RegistryChanges \/ RestartHelm \/ RolledOut \/ SyncRevisions
    PROVE  HelmInv'
<1>1. history' = history /\ enforced' = enforced /\ installed' = installed
  BY DEF UserWants, RegistryChanges, RestartHelm, RolledOut, SyncRevisions
<1>2. /\ DeployedAt' = DeployedAt /\ Latest' = Latest /\ InstalledBundle' = InstalledBundle
      /\ OneDeployed'
  BY <1>1, HistoryStays
<1>3. HelmTyped BY DEF HelmInv
<1>4. ASSUME UserWants \/ RegistryChanges PROVE HelmInv'
  <2>1. /\ UNCHANGED <<runtime, cluster, step, rev, seenRev, helmFaults>> /\ applied' \in {applied, "no"}
        /\ wanted' \in Bundles /\ pullable' \in BOOLEAN /\ helmChanges' \in 0..MaxHelmChanges
    <3>1. CASE UserWants BY <1>3, <3>1, HelmBoundsAssumption DEF UserWants, HelmChange, HelmTyped
    <3>2. CASE RegistryChanges
      <4>1. pullable' \in BOOLEAN BY <3>2 DEF RegistryChanges
      <4> QED BY <1>3, <3>2, <4>1, HelmBoundsAssumption DEF RegistryChanges, HelmChange, HelmTyped
    <3> QED BY <1>4, <3>1, <3>2
  <2>2. HelmTyped' BY <1>1, <1>3, <2>1 DEF HelmTyped
  <2>3. StepOK' BY <1>1, <1>2, <2>1 DEF HelmInv, StepOK, ManifestOf
  <2>4. CrdOK' BY <1>1, <1>2, <2>1 DEF HelmInv, CrdOK
  <2>5. RevOK' BY <1>2, <2>1 DEF HelmInv, RevOK
  <2>6. AppliedIsDeployed' BY <1>1, <1>2, <2>1 DEF HelmInv, AppliedIsDeployed, ManifestOf
  <2> QED BY <1>2, <2>2, <2>3, <2>4, <2>5, <2>6 DEF HelmInv
<1>5. ASSUME RestartHelm PROVE HelmInv'
  <2>1. /\ UNCHANGED <<wanted, pullable, cluster, rev, helmChanges>> /\ applied' = "no"
        /\ step' = AtRest /\ runtime' \in {runtime, "boxcutter"} /\ seenRev' = rev
        /\ helmFaults' \in 0..MaxHelmFaults
    BY <1>3, <1>5, HelmBoundsAssumption DEF RestartHelm, HelmFault, HelmTyped
  <2>2. HelmTyped' BY <1>1, <1>3, <2>1, HelmConstructors DEF HelmTyped
  <2>3. StepOK' BY <2>1 DEF StepOK, AtRest, InstallPcs
  <2>4. CrdOK' BY <1>1, <1>2, <2>1 DEF HelmInv, CrdOK, AtRest
  <2>5. RevOK' BY <1>2, <2>1 DEF HelmInv, RevOK, AtRest
  <2>6. AppliedIsDeployed' BY <2>1 DEF AppliedIsDeployed
  <2> QED BY <1>2, <2>2, <2>3, <2>4, <2>5, <2>6 DEF HelmInv
<1>6. ASSUME RolledOut PROVE HelmInv'
  <2>1. /\ UNCHANGED <<runtime, wanted, pullable, step, applied, seenRev, helmChanges, helmFaults>>
        /\ rev # NoRev /\ rev' = [rev EXCEPT !.rolledOut = TRUE, !.succeeded = TRUE]
        /\ cluster' = ManifestOf(rev.bundle)
    BY <1>6 DEF RolledOut
  <2>2. runtime = "boxcutter" /\ rev.bundle \in Bundles /\ rev \in Revisions
    BY <1>3, <2>1 DEF HelmInv, RevOK, HelmTyped
  <2>3. /\ rev' \in Revisions /\ rev'.bundle = rev.bundle /\ rev'.migrated = rev.migrated
        /\ rev'.rolledOut
    BY <2>1, <2>2, ZenonT(30) DEF Revisions
  <2>4. rev' # NoRev BY <2>2, <2>3, BundlesAssumption DEF NoRev
  <2>5. HelmTyped' BY <1>1, <1>3, <2>1, <2>2, <2>3, HelmConstructors DEF HelmTyped
  <2>6. step.pc \notin InstallPcs BY <2>2 DEF HelmInv, StepOK
  <2>7. StepOK' BY <1>1, <1>2, <2>1, <2>6 DEF HelmInv, StepOK, InstallPcs
  <2>8. CrdOK' BY <2>1, <2>2 DEF CrdOK
  <2>9. RevOK' BY <1>2, <2>1, <2>2, <2>3, <2>4 DEF HelmInv, RevOK
  <2>10. AppliedIsDeployed' BY <2>1, <2>2 DEF AppliedIsDeployed
  <2> QED BY <1>2, <2>5, <2>7, <2>8, <2>9, <2>10 DEF HelmInv
<1>7. ASSUME SyncRevisions PROVE HelmInv'
  <2>1. /\ UNCHANGED <<runtime, wanted, pullable, cluster, step, applied, rev, helmChanges, helmFaults>>
        /\ seenRev' = rev
    BY <1>7 DEF SyncRevisions
  <2>2. HelmTyped' BY <1>1, <1>3, <2>1 DEF HelmTyped
  <2>3. StepOK' BY <1>1, <1>2, <2>1 DEF HelmInv, StepOK, ManifestOf
  <2>4. CrdOK' BY <1>1, <1>2, <2>1 DEF HelmInv, CrdOK
  <2>5. RevOK' BY <1>2, <2>1 DEF HelmInv, RevOK
  <2>6. AppliedIsDeployed' BY <1>1, <1>2, <2>1 DEF HelmInv, AppliedIsDeployed, ManifestOf
  <2> QED BY <1>2, <2>2, <2>3, <2>4, <2>5, <2>6 DEF HelmInv
<1> QED BY <1>4, <1>5, <1>6, <1>7

-----------------------------------------------------------------------------
(* The theorems on the Helm applier                                         *)

LEMMA HelmStepHolds == ASSUME HelmInv, [HelmNext]_helmVars PROVE HelmInv'
<1>1. CASE HelmStep
  BY <1>1, ApplyContentStep, ApplyWithoutContentStep, RecordStep, ApplyObjectsStep, SupersedeStep,
     DeployStep DEF HelmStep
<1>2. CASE UNCHANGED helmVars
  <2>1. history' = history BY <1>2 DEF helmVars
  <2>2. /\ DeployedAt' = DeployedAt /\ Latest' = Latest /\ InstalledBundle' = InstalledBundle
        /\ OneDeployed'
    BY <2>1, HistoryStays
  <2>3. HelmTyped' BY <1>2 DEF helmVars, HelmInv, HelmTyped
  <2>4. StepOK' BY <1>2, <2>2 DEF helmVars, HelmInv, StepOK
  <2>5. CrdOK' BY <1>2, <2>2 DEF helmVars, HelmInv, CrdOK
  <2>6. RevOK' BY <1>2, <2>2 DEF helmVars, HelmInv, RevOK
  <2>7. AppliedIsDeployed' BY <1>2, <2>2 DEF helmVars, HelmInv, AppliedIsDeployed
  <2> QED BY <2>2, <2>3, <2>4, <2>5, <2>6, <2>7 DEF HelmInv
<1> QED BY <1>1, <1>2, ReleaseFailsStep, MigrationHolds, HelmEnvironment DEF HelmNext

\* The inductive invariant of the applier and of the migration: what the step that the
\* process may stop at owes to the history, the cluster and revision 1.
THEOREM HelmInvariant == HelmSpec => []HelmInv
<1>1. HelmInit => HelmInv BY HelmInitHolds
<1>2. HelmInv /\ [HelmNext]_helmVars => HelmInv' BY HelmStepHolds
<1> QED BY <1>1, <1>2, PTL DEF HelmSpec

\* The variables keep their types, and Helm never has two deployed releases, wherever
\* the process stops (Install and Upgrade of the action client).
THEOREM HelmTypeCorrect == HelmSpec => []HelmTypeOK
<1>1. HelmInv => HelmTypeOK
  <2> SUFFICES ASSUME HelmInv PROVE HelmTypeOK OBVIOUS
  <2>1. \A i \in DOMAIN history :
          history[i].bundle \in Bundles /\ history[i].status \in ReleaseStatuses
    <3> TAKE i \in DOMAIN history
    <3>1. history \in Seq(Releases) BY DEF HelmInv, HelmTyped
    <3>2. history[i] \in Releases BY <3>1
    <3> QED BY <3>2 DEF Releases
  <2>2. rev.bundle \in Bundles \cup {None} /\ seenRev.bundle \in Bundles \cup {None}
    BY DEF HelmInv, HelmTyped, Revisions
  <2> QED BY <2>1, <2>2, Zenon DEF HelmInv, HelmTyped, OneDeployed, HelmTypeOK, ReleaseStatuses
<1> QED BY <1>1, HelmInvariant, PTL

\* What Apply reports as installed is deployed and on the cluster, and a revision is
\* marked as succeeded because it was rolled out or was made from the deployed release,
\* for any sequence of releases, failures and restarts (Apply, Migrate,
\* ensureRevisionStatus).
THEOREM HelmReportsTruly == HelmSpec => []ReportsAreTrue
<1>1. HelmInv => ReportsAreTrue
  BY DEF HelmInv, RevOK, ReportsAreTrue, SucceededWasDeployed
<1> QED BY <1>1, HelmInvariant, PTL

\* A step of the applier with the check enforced leaves the CRD as it is or changes it in
\* a way the preflight check has allowed.
LEMMA CrdChange ==
    ASSUME HelmInv, HelmNext, runtime = "helm", enforced
    PROVE  <<cluster.crd, cluster'.crd>> \notin Breaks
<1>1. cluster \in Manifests /\ history \in Seq(Releases) BY DEF HelmInv, HelmTyped
<1>2. cluster.crd \in {CrdOf[b] : b \in Bundles} \cup {None} BY <1>1 DEF Manifests
<1>3. CASE cluster'.crd = cluster.crd BY <1>2, <1>3, BundlesAssumption, Zenon
<1>4. CASE cluster'.crd # cluster.crd
  <2>1. \/ ApplyContent \/ ApplyWithoutContent \/ ApplyObjects
    <3>1. ~(ReleaseFails \/ RecordRelease \/ SupersedeRelease \/ DeployRelease)
      BY <1>4 DEF ReleaseFails, RecordRelease, SupersedeRelease, DeployRelease
    <3>2. ~MigrationStep
      BY <1>4, Zenon DEF MigrationStep, Migrate, EnsureRevisionStatus, RetrieveRevisionStates, UnchangedByMigration
    <3>3. ~(UserWants \/ RegistryChanges \/ RestartHelm \/ SyncRevisions)
      BY <1>4, ZenonT(30) DEF UserWants, RegistryChanges, RestartHelm, SyncRevisions
    <3>4. ~RolledOut BY DEF RolledOut, HelmInv, RevOK
    <3> QED BY <3>1, <3>2, <3>3, <3>4 DEF HelmNext, HelmStep
  <2>2. history # <<>> /\ cluster'.crd = CrdOf[Latest.bundle]
    <3>1. CASE ApplyContent
      <4>1. CASE ReleaseState(wanted) = "Unchanged"
        <5>1. ~PreflightFails(wanted) BY <4>1 DEF PreflightFails
        <5>2. cluster' = ManifestOf(Latest.bundle) BY <3>1, <4>1, <5>1 DEF ApplyContent
        <5>3. history # <<>> BY <4>1, ReleaseStates, Zenon DEF HelmInv, HelmTyped
        <5> QED BY <5>2, <5>3 DEF ManifestOf
      <4>2. CASE ReleaseState(wanted) # "Unchanged"
        <5>1. cluster' = cluster BY <3>1, <4>2 DEF ApplyContent
        <5> QED BY <1>4, <5>1
      <4> QED BY <4>1, <4>2
    <3>2. CASE ApplyWithoutContent
      <4>1. cluster' = ManifestOf(Latest.bundle) /\ InstalledBundle # None
        BY <1>4, <3>2 DEF ApplyWithoutContent, MaintainedWithoutContent
      <4>2. history # <<>> BY <1>1, <4>1, InstalledFacts DEF HelmInv
      <4> QED BY <4>1, <4>2 DEF ManifestOf
    <3>3. CASE ApplyObjects
      <4>1. step.pc = "crd" /\ cluster' = [cluster EXCEPT !.crd = CrdOf[step.bundle]]
        BY <1>1, <1>4, <3>3 DEF ApplyObjects, Manifests
      <4>2. cluster'.crd = CrdOf[step.bundle] BY <1>1, <4>1 DEF Manifests
      <4>3. history # <<>> /\ Latest = [bundle |-> step.bundle, status |-> "pending"]
        BY <4>1 DEF HelmInv, StepOK, InstallPcs
      <4> QED BY <4>2, <4>3
    <3> QED BY <2>1, <3>1, <3>2, <3>3
  <2> QED BY <2>2 DEF HelmInv, CrdOK
<1> QED BY <1>3, <1>4

\* No step of the Helm runtime changes the CRD on the cluster in a way that the enforced
\* check forbids, also when a reconcile without content applies a release that failed
\* (runPreflight before Install and Upgrade, reconcileExistingRelease after them).
THEOREM CRDUpgradesSafe == HelmSpec => CRDUpgradesAreSafe
<1>1. HelmInv /\ [HelmNext]_helmVars
        => [(runtime = "helm" /\ enforced) => <<cluster.crd, cluster'.crd>> \notin Breaks]_helmVars
  BY CrdChange
<1> QED BY <1>1, HelmInvariant, PTL DEF HelmSpec, CRDUpgradesAreSafe

(***************************************************************************)
(* The token cache, for any number of clients and any lifetime, threshold  *)
(* and number of accounts                                                  *)
(***************************************************************************)

Tokens == [of: 0..numbers, expires: 0..(MaxTime + Lifetime)]
Requests == [pc: {"idle", "get", "create", "store", "send"}, try: 0..2, token: Tokens,
             readAt: 0..MaxTime, result: {"none", "ok", "notfound", "unauthorized"}]

\* An account is only deleted while there may be another one.
AccountsLeft == account = 0 => numbers <= MaxRecreations
TokenTypeInvariant == TokenTypeOK /\ AccountsLeft

\* A token that a request goes on with was good for the threshold when it was read.
TokensAreFresh ==
    \A c \in Clients : client[c].pc \in {"store", "send"} =>
      client[c].token.expires >= client[c].readAt + Threshold

LEMMA TokenTypes ==
    TokenTypeOK <=> /\ now \in 0..MaxTime /\ numbers \in 0..(MaxRecreations + 1)
                    /\ account \in {0, numbers} /\ token \in Tokens
                    /\ client \in [Clients -> Requests]
BY DEF TokenTypeOK, Tokens, Requests

LEMMA NoTokenType ==
    ASSUME numbers \in Nat
    PROVE  NoToken \in Tokens /\ NoRequest \in Requests
<1>1. NoToken \in Tokens BY TokenAssumption DEF NoToken, Tokens
<1> QED BY <1>1, TokenAssumption DEF NoRequest, Requests

\* A step of one request keeps the types.
LEMMA RequestTypes ==
    ASSUME TokenTypeOK, NEW c \in Clients, RequestStep(c)
    PROVE  /\ UNCHANGED <<now, account, numbers>>
           /\ token' \in Tokens /\ client' \in [Clients -> Requests]
<1>1. /\ now \in 0..MaxTime /\ numbers \in Nat /\ account \in 0..numbers
      /\ token \in Tokens /\ client \in [Clients -> Requests] /\ client[c] \in Requests
  BY TokenTypes, TokenAssumption
<1>2. client[c].token \in Tokens BY <1>1 DEF Requests
<1>3. NoToken \in Tokens /\ NoRequest \in Requests BY <1>1, NoTokenType
<1>0. 1 \in 0..2 /\ 2 \in 0..2 OBVIOUS
<1>4. CASE StartRequest(c)
  <2>1. [NoRequest EXCEPT !.pc = "get", !.try = 1] \in Requests
    BY <1>0, <1>3, Zenon DEF Requests
  <2> QED BY <1>1, <1>4, <2>1 DEF StartRequest, UnchangedEnv
<1>5. CASE GetToken(c)
  <2>1. /\ [client[c] EXCEPT !.pc = "create"] \in Requests
        /\ [client[c] EXCEPT !.pc = "send", !.token = token, !.readAt = now] \in Requests
    BY <1>1, Zenon DEF Requests
  <2> QED BY <1>1, <1>5, <2>1 DEF GetToken, UnchangedEnv
<1>6. CASE CreateToken(c)
  <2>1. [of |-> account, expires |-> now + Lifetime] \in Tokens
    BY <1>1, TokenAssumption DEF Tokens
  <2>2. /\ [client[c] EXCEPT !.pc = "idle", !.result = "notfound"] \in Requests
        /\ [client[c] EXCEPT !.pc = "store", !.readAt = now,
                  !.token = [of |-> account, expires |-> now + Lifetime]] \in Requests
    BY <1>1, <2>1, Zenon DEF Requests
  <2> QED BY <1>1, <1>6, <2>2 DEF CreateToken, UnchangedEnv
<1>7. CASE StoreToken(c)
  <2>1. [client[c] EXCEPT !.pc = "send"] \in Requests BY <1>1 DEF Requests
  <2> QED BY <1>1, <1>2, <1>3, <1>7, <2>1 DEF StoreToken, UnchangedEnv
<1>8. CASE RoundTrip(c)
  <2>1. /\ [client[c] EXCEPT !.pc = "idle", !.result = "ok"] \in Requests
        /\ [client[c] EXCEPT !.pc = "get", !.try = 2] \in Requests
        /\ [client[c] EXCEPT !.pc = "idle", !.result = "unauthorized"] \in Requests
    BY <1>0, <1>1, Zenon DEF Requests
  <2> QED BY <1>1, <1>3, <1>8, <2>1 DEF RoundTrip, UnchangedEnv
<1> QED BY <1>4, <1>5, <1>6, <1>7, <1>8 DEF RequestStep

LEMMA TokenTypeInit == TokenInit => TokenTypeInvariant
<1> SUFFICES ASSUME TokenInit PROVE TokenTypeInvariant OBVIOUS
<1>1. account \in {0, 1} /\ numbers = account /\ now = 0 BY DEF TokenInit
<1>2. token \in Tokens /\ client \in [Clients -> Requests]
  BY <1>1, NoTokenType DEF TokenInit
<1> QED BY <1>1, <1>2, TokenTypes, TokenAssumption DEF TokenTypeInvariant, AccountsLeft

LEMMA TokenTypeStep == TokenTypeInvariant /\ [TokenNext]_tokenVars => TokenTypeInvariant'
<1> SUFFICES ASSUME TokenTypeInvariant, [TokenNext]_tokenVars PROVE TokenTypeInvariant' OBVIOUS
<1> USE DEF TokenTypeInvariant, AccountsLeft
<1>1. CASE \E c \in Clients : RequestStep(c)
  <2>1. PICK c \in Clients : RequestStep(c) BY <1>1
  <2>2. Tokens' = Tokens /\ Requests' = Requests
    BY <2>1, RequestTypes, Zenon DEF Tokens, Requests
  <2> QED BY <2>1, <2>2, RequestTypes, TokenTypes DEF TokenTypeOK, Tokens, Requests
<1>2. CASE Tick
  BY <1>2, TokenAssumption DEF Tick, TokenTypeOK
<1>3. CASE RecreateAccount
  <2>1. numbers \in Nat /\ numbers' \in Nat /\ numbers <= numbers'
        /\ numbers' \in 0..(MaxRecreations + 1) /\ account' \in {0, numbers'}
        /\ (account' = 0 => numbers' <= MaxRecreations)
    BY <1>3, TokenAssumption DEF RecreateAccount, TokenTypeOK
  <2>2. Tokens \subseteq Tokens' BY <2>1 DEF Tokens
  <2>3. Requests \subseteq Requests' BY <2>2 DEF Requests
  <2>4. token' \in Tokens' /\ client' \in [Clients -> Requests']
    BY <1>3, <2>2, <2>3, TokenTypes DEF RecreateAccount
  <2> QED BY <1>3, <2>1, <2>4 DEF RecreateAccount, TokenTypeOK, Tokens, Requests
<1>4. CASE UNCHANGED tokenVars
  BY <1>4 DEF tokenVars, TokenTypeOK
<1> QED BY <1>1, <1>2, <1>3, <1>4 DEF TokenNext

\* The variables keep their types: a request is made at most twice, and a token is
\* that of an account there has been.
THEOREM TokenTypeCorrect == TokenSpec => []TokenTypeOK
<1>1. TokenTypeInvariant => TokenTypeOK BY DEF TokenTypeInvariant
<1> QED BY <1>1, TokenTypeInit, TokenTypeStep, PTL DEF TokenSpec

LEMMA FreshStep ==
    TokenTypeOK /\ TokenTypeOK' /\ TokensAreFresh /\ [TokenNext]_tokenVars => TokensAreFresh'
<1> SUFFICES ASSUME TokenTypeOK, TokenTypeOK', TokensAreFresh, [TokenNext]_tokenVars,
                    NEW d \in Clients, client'[d].pc \in {"store", "send"}
             PROVE  client'[d].token.expires >= client'[d].readAt + Threshold
  BY DEF TokensAreFresh
<1>1. /\ client \in [Clients -> Requests] /\ client[d] \in Requests /\ now \in Nat
      /\ token \in Tokens
  BY TokenTypes
<1>2. CASE UNCHANGED client BY <1>2 DEF TokensAreFresh
<1>3. CASE \E c \in Clients : RequestStep(c)
  <2>1. PICK c \in Clients : RequestStep(c) BY <1>3
  <2>2. CASE c # d
    <3>1. client'[d] = client[d]
      BY <1>1, <2>1, <2>2
         DEF RequestStep, StartRequest, GetToken, CreateToken, StoreToken, RoundTrip
    <3> QED BY <3>1 DEF TokensAreFresh
  <2>3. CASE c = d
    <3>1. CASE StartRequest(d) BY <1>1, <3>1 DEF StartRequest, NoRequest
    <3>2. CASE GetToken(d)
      <4>1. client'[d] = IF Expiring(token) THEN [client[d] EXCEPT !.pc = "create"]
               ELSE [client[d] EXCEPT !.pc = "send", !.token = token, !.readAt = now]
        BY <1>1, <3>2 DEF GetToken
      <4>2. ~Expiring(token) BY <1>1, <4>1 DEF Requests
      <4>3. client'[d].token = token /\ client'[d].readAt = now
        BY <1>1, <4>1, <4>2 DEF Requests
      <4>4. token.expires \in Nat BY <1>1, TokenAssumption DEF Tokens
      <4> QED BY <1>1, <4>2, <4>3, <4>4, TokenAssumption DEF Expiring
    <3>3. CASE CreateToken(d)
      <4>1. client'[d] = IF account = 0 THEN [client[d] EXCEPT !.pc = "idle", !.result = "notfound"]
               ELSE [client[d] EXCEPT !.pc = "store", !.readAt = now,
                            !.token = [of |-> account, expires |-> now + Lifetime]]
        BY <1>1, <3>3 DEF CreateToken
      <4>2. account # 0 BY <1>1, <4>1 DEF Requests
      <4>3. client'[d].token.expires = now + Lifetime /\ client'[d].readAt = now
        BY <1>1, <4>1, <4>2 DEF Requests
      <4> QED BY <1>1, <4>3, TokenAssumption
    <3>4. CASE StoreToken(d)
      <4>1. client'[d].token = client[d].token /\ client'[d].readAt = client[d].readAt
        BY <1>1, <3>4 DEF StoreToken, Requests
      <4> QED BY <3>4, <4>1 DEF StoreToken, At, TokensAreFresh
    <3>5. CASE RoundTrip(d)
      <4>1. client'[d].pc \in {"idle", "get"}
        BY <1>1, <3>5, ZenonT(30) DEF RoundTrip, Requests
      <4> QED BY <4>1
    <3> QED BY <2>1, <2>3, <3>1, <3>2, <3>3, <3>4, <3>5 DEF RequestStep
  <2> QED BY <2>2, <2>3
<1> QED BY <1>2, <1>3 DEF TokenNext, Tick, RecreateAccount, tokenVars

\* For any threshold up to the lifetime: a request that is sent within the threshold
\* of the moment its token was read or made carries a token that has not expired
\* (Get's comparison with the rotation threshold).
THEOREM TokensOutliveRequests == TokenSpec => []TokenOutlivesRequest
<1>1. TokenInit => TokensAreFresh
  BY DEF TokenInit, TokensAreFresh, NoRequest
<1>2. TokenTypeOK /\ TokensAreFresh => TokenOutlivesRequest
  <2> SUFFICES ASSUME TokenTypeOK, TokensAreFresh, NEW c \in Clients, At(c, "send"),
                      now <= client[c].readAt + Threshold
               PROVE  now <= client[c].token.expires
    BY DEF TokenOutlivesRequest
  <2>1. client[c].token.expires >= client[c].readAt + Threshold BY DEF TokensAreFresh, At
  <2>2. client[c] \in Requests /\ now \in Nat BY TokenTypes
  <2>3. client[c].readAt \in Nat /\ client[c].token.expires \in Nat
    BY <2>2, TokenAssumption DEF Requests, Tokens
  <2> QED BY <2>1, <2>2, <2>3, TokenAssumption
<1> QED BY <1>1, <1>2, FreshStep, TokenTypeCorrect, PTL DEF TokenSpec

(***************************************************************************)
(* The pool of certificates, for any number of file events and restarts    *)
(***************************************************************************)

\* The watcher has taken an event that it has not read the directory for yet.
Updating == IF certPc \in {"drain", "update", "store"} THEN 1 ELSE 0
\* Every generation of the pool but the first, every event that is waiting and the one
\* that is handled are events of their own: the counters never outgrow the events.
EventsCounted == pool.generation + pending.own + pending.system + Updating <= files
CertInvariant ==
    /\ files \in 1..(MaxFileEvents + 1) /\ readable \in BOOLEAN
    /\ pending \in [{"own", "system"} -> Nat]
    /\ certPc \in {"start", "watch", "select", "drain", "update", "store", "sending", "exit"}
    /\ pool \in [of: Nat, generation: Nat \ {0}] /\ pool.of <= files
    /\ fresh \in Nat /\ fresh <= files
    /\ stopping \in BOOLEAN /\ certRestarts \in 0..MaxCertRestarts
    /\ EventsCounted

LEMMA CertInitInvariant == CertInit => CertInvariant
  <1> SUFFICES ASSUME CertInit PROVE CertInvariant OBVIOUS
  <1>1. pool = [of |-> 0, generation |-> 1] /\ pending = [own |-> 0, system |-> 0]
    BY DEF CertInit, NoEvents, NoPool
  <1>2. pending \in [{"own", "system"} -> Nat] BY <1>1
  <1>3. EventsCounted BY <1>1 DEF CertInit, EventsCounted, Updating
  <1>4. pool \in [of: Nat, generation: Nat \ {0}] /\ pool.of <= 1 BY <1>1
  <1>5. /\ files = 1 /\ fresh = 0 /\ certPc = "start" /\ certRestarts = 0
        /\ readable \in BOOLEAN /\ stopping \in BOOLEAN
    BY Zenon DEF CertInit
  <1> QED BY <1>2, <1>3, <1>4, <1>5, CertAssumption DEF CertInvariant

LEMMA CertNextInvariant == CertInvariant /\ [CertNext]_certVars => CertInvariant'
  <1> SUFFICES ASSUME CertInvariant, [CertNext]_certVars PROVE CertInvariant' OBVIOUS
  <1> USE CertAssumption DEF CertInvariant, EventsCounted, Updating
  <1>1. CASE UNCHANGED certVars BY <1>1 DEF certVars
  <1>2. CASE StartPool BY <1>2 DEF StartPool
  <1>3. CASE AddWatch BY <1>3 DEF AddWatch
  <1>4. CASE DrainTimeout BY <1>4 DEF DrainTimeout
  <1>5. CASE ReadPool BY <1>5 DEF ReadPool
  <1>6. CASE StorePool BY <1>6 DEF StorePool
  <1>7. CASE SelectDone BY <1>7 DEF SelectDone
  <1>8. CASE Exits BY <1>8 DEF Exits, ExitProcess, NewProcess, NoEvents, NoPool
  <1>9. ASSUME NEW kind \in {"own", "system"}, SelectEvent(kind) \/ DrainEvent(kind)
        PROVE  CertInvariant'
    <2>1. CASE kind = "own" BY <1>9, <2>1 DEF SelectEvent, DrainEvent, Receive, AfterEvent
    <2>2. CASE kind = "system" BY <1>9, <2>2 DEF SelectEvent, DrainEvent, Receive, AfterEvent
    <2> QED BY <2>1, <2>2
  <1>10. ASSUME NEW kind \in {"own", "system"}, NEW ok \in BOOLEAN, FileEvent(kind, ok)
         PROVE  CertInvariant'
    <2>1. CASE kind = "own" BY <1>10, <2>1 DEF FileEvent
    <2>2. CASE kind = "system" BY <1>10, <2>2 DEF FileEvent
    <2> QED BY <2>1, <2>2
  <1>11. CASE StopProcess BY <1>11 DEF StopProcess
  <1>12. CASE SelectError BY <1>12 DEF SelectError
  <1> QED
    BY <1>1, <1>2, <1>3, <1>4, <1>5, <1>6, <1>7, <1>8, <1>9, <1>10, <1>11, <1>12, Zenon
    DEF CertNext, WatcherStep

\* The pool of certificates is well typed, its generation and the events that wait for
\* the watcher bounded by the events there were (CertPoolWatcher.Start, update).
THEOREM CertTypeCorrect == CertSpec => []CertTypeOK
  <1>1. CertInvariant => CertTypeOK
    <2> SUFFICES ASSUME CertInvariant PROVE CertTypeOK OBVIOUS
    <2>1. files \in Nat /\ files <= MaxFileEvents + 1 /\ pool.generation \in Nat \ {0}
          /\ pending.own \in Nat /\ pending.system \in Nat
      BY CertAssumption DEF CertInvariant
    <2>2. pool.generation <= files /\ pending.own <= MaxFileEvents /\ pending.system <= MaxFileEvents
      BY <2>1, CertAssumption DEF CertInvariant, EventsCounted, Updating
    <2>3. pending \in [{"own", "system"} -> 0..MaxFileEvents] BY <2>1, <2>2, CertAssumption DEF CertInvariant
    <2>4. pool \in [of: 0..files, generation: 1..(MaxFileEvents + 1)]
      BY <2>1, <2>2, CertAssumption DEF CertInvariant
    <2> QED BY <2>1, <2>3, <2>4 DEF CertInvariant, CertTypeOK
  <1> QED BY <1>1, CertInitInvariant, CertNextInvariant, PTL DEF CertSpec
=============================================================================
