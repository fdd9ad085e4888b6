----------------------- MODULE ClusterExtensionProofs -----------------------
(***************************************************************************)
(* Proofs about the ClusterExtension controller, for any bundles, upgrade   *)
(* edges, catalogs and specs and any number of revisions, changes and       *)
(* faults: what the status says about the installed bundle is true of a     *)
(* revision that was rolled out, and nothing is applied for an extension    *)
(* that is gone.                                                            *)
(***************************************************************************)
EXTENDS ClusterExtension, WellFoundedInduction, TLAPS

\* A set of naturals that is not empty has a least element.
LEMMA MinExists ==
    ASSUME NEW S \in SUBSET Nat, S # {}
    PROVE  \E x \in S : \A y \in S : x =< y
<1>1. \E x \in S : \A y \in S : ~ (<<y, x>> \in OpToRel(<, Nat))
  BY NatLessThanWellFounded, WFMin, Zenon
<1>2. PICK x \in S : \A y \in S : ~ (<<y, x>> \in OpToRel(<, Nat)) BY <1>1, Zenon
<1>3. ASSUME NEW y \in S PROVE x =< y
  <2>1. x \in Nat /\ y \in Nat OBVIOUS
  <2>2. ~ (y < x) BY <1>2, <2>1, Zenon DEF OpToRel
  <2> QED BY <2>1, <2>2
<1> QED BY <1>3

\* Min chooses an element of the set.
LEMMA MinIn == ASSUME NEW S \in SUBSET Nat, S # {} PROVE Min(S) \in S
BY MinExists, Zenon DEF Min

\* Max chooses the greatest element of a bounded set.
LEMMA MaxIn ==
    ASSUME NEW n \in Nat, NEW S \in SUBSET (1..n), S # {}
    PROVE  Max(S) \in S /\ \A y \in S : y <= Max(S)
<1>a. \A i, j, k \in Int : i - j =< i - k => j >= k OBVIOUS
<1>b. n \in Int /\ \A x \in S : x \in Int OBVIOUS
<1> DEFINE T == {n - x : x \in S}
<1>1. T \in SUBSET Nat
  <2>1. \A x \in S : n - x \in Nat OBVIOUS
  <2> QED BY <2>1, Zenon
<1>2. T # {} BY Zenon
<1>3. PICK t \in T : \A u \in T : t =< u BY <1>1, <1>2, MinExists, Zenon
<1>4. PICK m \in S : t = n - m OBVIOUS
<1>5. ASSUME NEW y \in S PROVE m >= y
  <2>1. n - m =< n - y BY <1>3, <1>4
  <2>2. n \in Int /\ m \in Int /\ y \in Int BY <1>b, Zenon
  <2> QED BY <1>a, <2>1, <2>2, Zenon
<1>6. \E x \in S : \A y \in S : x >= y BY <1>5
<1>7. Max(S) \in S /\ \A y \in S : Max(S) >= y BY <1>6, Zenon DEF Max
<1> QED BY <1>7

(***************************************************************************)
(* The invariants                                                          *)
(***************************************************************************)

\* With the revisions R rolled out and the bundles B: b is none or was rolled out, d
\* is not a verdict or is that on a bundle that was, and st says nothing else.
WasRolledOut(b, R, B) == b # None => \E r \in R : B[r] = b
IsVerdict(d, R, B) ==
    d \in {"True", "False"} => \E r \in R : (d = "True") = (B[r] \in Deprecated)
Justified(st, R, B) == WasRolledOut(st.install, R, B) /\ IsVerdict(st.dep, R, B)

\* What the extension e, its cached copy c and the reconcile m say is true.
Truthful(e, c, m, R, B) ==
    /\ e \in Extension /\ c \in Extension /\ m \in Rec
    /\ Justified(e.status, R, B) /\ Justified(c.status, R, B)
    /\ Justified(m.orig, R, B) /\ Justified(m.local, R, B)
    /\ WasRolledOut(m.states.installed, R, B)

\* The types of what is not in Truthful.
StoreTypes ==
    /\ revs \in [Numbers -> Revision] /\ latest \in 0..N /\ rolledOut \subseteq Numbers
    /\ extDeleted \in BOOLEAN /\ bundleOf \in [Numbers -> Optional] /\ extSynced \in BOOLEAN
    /\ revCache.rev \in [Numbers -> Revision] /\ revCache.bundle \in [Numbers -> Optional]
    /\ catalog \in Catalogs /\ pending \in BOOLEAN
    /\ changes \in 0..MaxChanges /\ catalogChanges \in 0..MaxCatalog /\ faults \in 0..MaxFaults

\* Only revisions that were created exist and are rolled out, only those that were
\* rolled out have succeeded, and of these the cached copy is not out of date.
KnownRevisions ==
    /\ \A r \in Numbers : revs[r].exists => r <= latest
    /\ \A r \in Numbers : revs[r].succ => r \in rolledOut
    /\ \A r \in rolledOut : r <= latest
    /\ \A r \in Numbers : revCache.rev[r].succ =>
         r \in rolledOut /\ revCache.bundle[r] = bundleOf[r]

\* The finalizer seen in a copy that is not terminating is still there.
FinalizerStays == (Guarded => ext.exists /\ ext.fin) /\ ApplyIsGuarded

\* The inductive invariant.
ExtInvariant ==
    /\ StoreTypes /\ KnownRevisions /\ FinalizerStays
    /\ Truthful(ext, extCache, rec, rolledOut, bundleOf)

(***************************************************************************)
(* What the helpers return                                                 *)
(***************************************************************************)

LEMMA ExtConstructors ==
    /\ NoStatus \in Status /\ NoStates \in States /\ Idle \in Rec /\ NoRevision \in Revision
    /\ None \in Optional
    /\ \A R, B : Justified(NoStatus, R, B) /\ WasRolledOut(None, R, B)
<1>1. NoStatus \in Status /\ NoStates \in States /\ NoRevision \in Revision /\ None \in Optional
  BY DEF NoStatus, Status, NoStates, States, NoRevision, Revision, Optional, Progress
<1>2. Idle \in Rec BY <1>1 DEF Idle, Rec
<1>3. \A R, B : Justified(NoStatus, R, B) /\ WasRolledOut(None, R, B)
  BY DEF Justified, WasRolledOut, IsVerdict, NoStatus
<1> QED BY <1>1, <1>2, <1>3

\* What was rolled out stays so.
LEMMA TruthStays ==
    ASSUME NEW R, NEW Q, NEW B, NEW C, R \subseteq Q, \A r \in R : C[r] = B[r],
           NEW e, NEW c, NEW m, Truthful(e, c, m, R, B)
    PROVE  Truthful(e, c, m, Q, C)
<1>1. ASSUME NEW b, WasRolledOut(b, R, B) PROVE WasRolledOut(b, Q, C)
  BY <1>1 DEF WasRolledOut
<1>2. ASSUME NEW d, IsVerdict(d, R, B) PROVE IsVerdict(d, Q, C)
  BY <1>2 DEF IsVerdict
<1> QED BY <1>1, <1>2, Zenon DEF Truthful, Justified

\* The conditions the steps write say of the installed bundle what the revision
\* states s do.
LEMMA TrueConditions ==
    ASSUME NEW st \in Status, NEW s \in States, NEW R, NEW B,
           Justified(st, R, B), WasRolledOut(s.installed, R, B)
    PROVE  /\ setInstalledStatusFromRevisionStates(st, s) \in Status
           /\ Justified(setInstalledStatusFromRevisionStates(st, s), R, B)
           /\ Retry(st, s) \in Status /\ Justified(Retry(st, s), R, B)
           /\ Mirrored(st, s) \in Status /\ Justified(Mirrored(st, s), R, B)
           /\ \A h \in BOOLEAN : /\ SetDeprecationStatus(st, s.installed, h) \in Status
                               /\ Justified(SetDeprecationStatus(st, s.installed, h), R, B)
<1>1. ASSUME NEW t \in Status, Justified(t, R, B)
      PROVE  /\ setInstalledStatusFromRevisionStates(t, s) \in Status
             /\ Justified(setInstalledStatusFromRevisionStates(t, s), R, B)
  <2> DEFINE u == setInstalledStatusFromRevisionStates(t, s)
  <2>1. u \in Status
    BY Zenon DEF setInstalledStatusFromRevisionStates, determineFailureReason, Status, States
  <2>2. u.install = s.installed /\ u.dep = t.dep
    BY DEF setInstalledStatusFromRevisionStates, Status
  <2> QED BY <1>1, <2>1, <2>2 DEF Justified
<1>2. ASSUME NEW p \in Progress
      PROVE  [st EXCEPT !.prog = p] \in Status /\ Justified([st EXCEPT !.prog = p], R, B)
  BY DEF Status, Justified
<1>3. Retry(st, s) \in Status /\ Justified(Retry(st, s), R, B)
  <2>1. "Retrying" \in Progress BY DEF Progress
  <2> QED BY <1>1, <1>2, <2>1 DEF Retry
<1>4. Mirrored(st, s) \in Status /\ Justified(Mirrored(st, s), R, B)
  <2> DEFINE p == IF s.lastProg \notin {"empty", "none"} THEN s.lastProg
                  ELSE IF s.installedProg # "none" THEN s.installedProg ELSE st.prog
             u == [st EXCEPT !.prog = p]
  <2>1. u \in Status /\ u.install = st.install /\ u.dep = st.dep BY DEF Status, States
  <2>2. Justified(u, R, B) BY <2>1 DEF Justified
  <2>3. Mirrored(st, s) = setInstalledStatusFromRevisionStates(u, s) BY DEF Mirrored
  <2> HIDE DEF u
  <2> QED BY <1>1, <2>1, <2>2, <2>3
<1>5. ASSUME NEW h \in BOOLEAN
      PROVE  /\ SetDeprecationStatus(st, s.installed, h) \in Status
             /\ Justified(SetDeprecationStatus(st, s.installed, h), R, B)
  <2> DEFINE b == s.installed
             d == IF b = None THEN "Absent" ELSE IF ~h THEN "Unknown"
                  ELSE IF b \in Deprecated THEN "True" ELSE "False"
             u == SetDeprecationStatus(st, b, h)
  <2>1. u \in Status /\ u.install = st.install /\ u.dep = d
    BY DEF SetDeprecationStatus, Status
  <2>2. IsVerdict(d, R, B) BY DEF IsVerdict, WasRolledOut
  <2> QED BY <2>1, <2>2 DEF Justified
<1> QED BY <1>1, <1>3, <1>4, <1>5

\* GetRevisionStates takes the installed bundle from a revision that was rolled out,
\* although it reads a copy that lags behind.
LEMMA StatesAreTrue ==
    ASSUME StoreTypes, KnownRevisions
    PROVE  /\ GetRevisionStates \in States
           /\ WasRolledOut(GetRevisionStates.installed, rolledOut, bundleOf)
<1> DEFINE S == {r \in Active : revCache.rev[r].succ}
           T == Active \ S
           s == GetRevisionStates
<1>1. N \in Nat BY BoundsAssumption
<1>2. S \in SUBSET (1..N) /\ T \in SUBSET (1..N) /\ T \in SUBSET Nat
  BY <1>1 DEF Active, Listed, Numbers
<1>3. S # {} => Max(S) \in S BY <1>1, <1>2, MaxIn, Zenon
<1>4. T # {} => Max(T) \in T /\ Min(T) \in T BY <1>1, <1>2, MaxIn, MinIn, Zenon
<1>5. \A r \in 1..N : revCache.rev[r].prog \in Progress /\ revCache.bundle[r] \in Optional
  BY Zenon DEF StoreTypes, Numbers, Revision
<1>6. s = [installed |-> IF S = {} THEN None ELSE revCache.bundle[Max(S)],
           installedProg |-> IF S = {} THEN "none" ELSE revCache.rev[Max(S)].prog,
           first |-> IF T = {} THEN None ELSE revCache.bundle[Min(T)],
           lastProg |-> IF T = {} THEN "empty" ELSE revCache.rev[Max(T)].prog]
  BY DEF GetRevisionStates
<1>7. s \in States
  <2>1. (IF S = {} THEN None ELSE revCache.bundle[Max(S)]) \in Optional
    BY <1>2, <1>3, <1>5, ExtConstructors
  <2>2. (IF S = {} THEN "none" ELSE revCache.rev[Max(S)].prog) \in Progress
    BY <1>2, <1>3, <1>5, Zenon DEF Progress
  <2>3. (IF T = {} THEN None ELSE revCache.bundle[Min(T)]) \in Optional
    BY <1>2, <1>4, <1>5, ExtConstructors
  <2>4. (IF T = {} THEN "empty" ELSE revCache.rev[Max(T)].prog) \in Progress \cup {"empty"}
    BY <1>2, <1>4, <1>5, Zenon
  <2> HIDE DEF S, T, s
  <2> QED BY <1>6, <2>1, <2>2, <2>3, <2>4 DEF States
<1>8. CASE S = {}
  <2>1. s.installed = None BY <1>6, <1>8
  <2> QED BY <1>7, <2>1, ExtConstructors
<1>9. CASE S # {}
  <2>1. s.installed = revCache.bundle[Max(S)] BY <1>6, <1>9
  <2>2. Max(S) \in rolledOut /\ revCache.bundle[Max(S)] = bundleOf[Max(S)]
    BY <1>2, <1>3, <1>9, Zenon DEF KnownRevisions, Numbers
  <2>3. WasRolledOut(s.installed, rolledOut, bundleOf) BY <2>1, <2>2, Zenon DEF WasRolledOut
  <2> QED BY <1>7, <2>3
<1> QED BY <1>8, <1>9

\* A reconcile that is truthful.
TrueRec(m) ==
    /\ m \in Rec
    /\ Justified(m.orig, rolledOut, bundleOf) /\ Justified(m.local, rolledOut, bundleOf)
    /\ WasRolledOut(m.states.installed, rolledOut, bundleOf)

LEMMA IdleIsTrue ==
    /\ TrueRec(Idle) /\ Idle.states = NoStates /\ NoStates.installed = None
    /\ Idle.local = NoStatus /\ Idle.pc = "idle"
<1>1. /\ Idle.states = NoStates /\ Idle.local = NoStatus /\ Idle.orig = NoStatus
      /\ Idle.pc = "idle"
  BY Zenon DEF Idle
<1>2. NoStates.installed = None BY DEF NoStates
<1> QED BY <1>1, <1>2, ExtConstructors DEF TrueRec

LEMMA ExtensionParts ==
    ASSUME NEW e \in Extension
    PROVE  /\ e.status \in Status /\ e.spec \in Specs /\ e.spec.valid \in BOOLEAN
           /\ e.exists \in BOOLEAN /\ e.deleting \in BOOLEAN /\ e.fin \in BOOLEAN
BY SpecsAssumption DEF Extension

\* The copy a reconcile starts from.
LEMMA CopyIsTrue ==
    ASSUME ExtInvariant
    PROVE  /\ Copy \in Rec /\ Copy.states = NoStates
           /\ Copy.orig = extCache.status /\ Justified(Copy.orig, rolledOut, bundleOf)
<1>1. extCache \in Extension /\ extSynced \in BOOLEAN
      /\ Justified(extCache.status, rolledOut, bundleOf)
  BY DEF ExtInvariant, Truthful, StoreTypes
<1>2. extCache.status \in Status /\ extCache.spec.valid \in BOOLEAN BY <1>1, ExtensionParts
<1>3. Idle \in Rec BY ExtConstructors
<1>4. Copy \in Rec BY <1>1, <1>2, <1>3, Zenon DEF Copy, Rec
<1>5. Copy.states = NoStates /\ Copy.orig = extCache.status
  BY <1>3, IdleIsTrue DEF Copy, Rec
<1> QED BY <1>1, <1>4, <1>5

\* The end of a reconcile with conditions st.
LEMMA EndedIsTrue ==
    ASSUME NEW m \in Rec, Justified(m.orig, rolledOut, bundleOf),
           NEW st \in Status, Justified(st, rolledOut, bundleOf),
           NEW result \in {"ok", "error", "terminal"}
    PROVE  TrueRec(Ended(m, st, result)) /\ Ended(m, st, result).pc = "status"
<1>1. m.cur \in BOOLEAN /\ m.orig \in Status /\ Idle \in Rec BY ExtConstructors DEF Rec
<1>2. Ended(m, st, result) \in Rec BY <1>1, Zenon DEF Ended, Rec
<1>3. /\ Ended(m, st, result).orig = m.orig /\ Ended(m, st, result).local = st
      /\ Ended(m, st, result).states = NoStates /\ Ended(m, st, result).pc = "status"
  BY <1>1, IdleIsTrue DEF Ended, Rec
<1> QED BY <1>2, <1>3, IdleIsTrue, ExtConstructors DEF TrueRec

(***************************************************************************)
(* The pipeline                                                            *)
(***************************************************************************)

\* A failed call stays within its bound.
LEMMA FaultsAreBounded ==
    ASSUME StoreTypes, Fault \/ UNCHANGED faults PROVE faults' \in 0..MaxFaults
BY BoundsAssumption DEF StoreTypes, Fault

\* The catalog's answer is one of its bundles.
LEMMA BestIsBundle ==
    ASSUME StoreTypes, NEW installed, NEW want, Resolves(installed, want)
    PROVE  Best(Candidates(installed, want)) \in Optional
<1> DEFINE C == Candidates(installed, want)
           D == IF C \subseteq Deprecated THEN C ELSE C \ Deprecated
<1>1. C # {} /\ C \subseteq Bundles
  BY BundlesAssumption DEF StoreTypes, Resolves, Candidates
<1>2. D # {} /\ D \subseteq Bundles BY <1>1
<1> HIDE DEF D
<1>3. D \in SUBSET Bundles /\ D \subseteq Nat BY <1>2, BundlesAssumption, Zenon
<1>4. PICK m \in D : \A b \in D : b <= m BY <1>2, <1>3, BundlesAssumption
<1>5. Max(D) \in D
  <2>1. \A b \in D : m >= b BY <1>3, <1>4
  <2> QED BY <2>1 DEF Max
<1>6. Best(C) = Max(D) BY DEF Best, D
<1> QED BY <1>2, <1>5, <1>6 DEF Optional

LEMMA UnpackIsTrue ==
    ASSUME ExtInvariant, NEW st \in Status, Justified(st, rolledOut, bundleOf),
           NEW s \in States, WasRolledOut(s.installed, rolledOut, bundleOf),
           NEW b \in Optional, UnpackBundle(st, s, b)
    PROVE  TrueRec(rec') /\ faults' \in 0..MaxFaults
<1>1. Copy \in Rec /\ Justified(Copy.orig, rolledOut, bundleOf) BY CopyIsTrue
<1>2. ASSUME NEW fs \in BOOLEAN
      PROVE  TrueRec([Copy EXCEPT !.pc = "apply", !.local = st, !.states = s,
                                  !.resolved = b, !.fs = fs])
  <2> DEFINE m == [Copy EXCEPT !.pc = "apply", !.local = st, !.states = s,
                               !.resolved = b, !.fs = fs]
  <2>1. m \in Rec /\ m.orig = Copy.orig /\ m.local = st /\ m.states = s
    BY <1>1, Zenon DEF Rec
  <2> QED BY <1>1, <2>1 DEF TrueRec
<1>3. TrueRec(Ended(Copy, Retry(st, s), "error"))
  BY <1>1, TrueConditions, EndedIsTrue
<1>4. faults' \in 0..MaxFaults BY FaultsAreBounded DEF UnpackBundle, ExtInvariant
<1>5. TrueRec(rec') BY <1>2, <1>3, Zenon DEF UnpackBundle
<1> QED BY <1>4, <1>5

LEMMA ResolutionErrorIsTrue ==
    ASSUME ExtInvariant, NEW st \in Status, Justified(st, rolledOut, bundleOf),
           NEW s \in States, WasRolledOut(s.installed, rolledOut, bundleOf),
           NEW want, handleResolutionError(st, s, want)
    PROVE  TrueRec(rec') /\ faults' \in 0..MaxFaults
<1>1. CASE UnpackBundle(setInstalledStatusFromRevisionStates(st, s), s, s.installed)
  <2>1. s.installed \in Optional BY DEF States
  <2> QED BY <1>1, <2>1, TrueConditions, UnpackIsTrue
<1>2. CASE /\ (~KeepsInstalled(s, want) /\ UNCHANGED faults) \/ Fault
           /\ rec' = Ended(Copy, Retry(st, s), "error")
  <2>1. faults' \in 0..MaxFaults BY <1>2, FaultsAreBounded DEF ExtInvariant
  <2>2. TrueRec(rec') BY <1>2, CopyIsTrue, TrueConditions, EndedIsTrue
  <2> QED BY <2>1, <2>2
<1> QED BY <1>1, <1>2 DEF handleResolutionError

\* Whatever is resolved or fails to be, the conditions are those of the installed
\* bundle.
LEMMA ReconcileIsTrue ==
    ASSUME ExtInvariant, FailEarly \/ Reconcile
    PROVE  TrueRec(rec') /\ faults' \in 0..MaxFaults
<1> DEFINE st == extCache.status
           s == GetRevisionStates
<1>1. st \in Status /\ Justified(st, rolledOut, bundleOf)
  BY ExtensionParts DEF ExtInvariant, Truthful
<1>2. s \in States /\ WasRolledOut(s.installed, rolledOut, bundleOf)
  BY StatesAreTrue DEF ExtInvariant
<1>3. CASE FailEarly
  <2>1. ASSUME NEW failed \in {[st EXCEPT !.inst = "Unknown", !.prog = "Retrying"], st,
                   [st EXCEPT !.install = None, !.inst = "Unknown", !.prog = "Retrying"]}
        PROVE  failed \in Status /\ Justified(failed, rolledOut, bundleOf)
    <3>1. failed \in Status BY <1>1, ExtConstructors, Zenon DEF Status, Progress
    <3>2. failed.dep = st.dep /\ failed.install \in {st.install, None}
      BY <1>1, Zenon DEF Status
    <3> QED BY <1>1, <3>1, <3>2 DEF Justified, WasRolledOut
  <2>2. TrueRec(rec') BY <1>3, <2>1, CopyIsTrue, EndedIsTrue DEF FailEarly
  <2>3. faults' \in 0..MaxFaults BY <1>3, FaultsAreBounded DEF FailEarly, ExtInvariant
  <2> QED BY <2>2, <2>3
<1>4. CASE Reconcile
  <2> DEFINE want == extCache.spec.want
             dep(h) == SetDeprecationStatus(st, s.installed, h)
  <2>1. ResolveBundle(st, s, want) BY <1>4 DEF Reconcile
  <2>2. \A h \in BOOLEAN : dep(h) \in Status /\ Justified(dep(h), rolledOut, bundleOf)
    BY <1>1, <1>2, TrueConditions
  <2>3. s.first \in Optional BY <1>2 DEF States
  <2>4. Resolves(s.installed, want) => Best(Candidates(s.installed, want)) \in Optional
    BY BestIsBundle DEF ExtInvariant
  <2> HIDE DEF s, st, want
  <2>5. CASE UnpackBundle(dep(FALSE), s, s.first)
    BY <1>2, <2>2, <2>3, <2>5, UnpackIsTrue, Zenon
  <2>6. CASE /\ Resolves(s.installed, want)
             /\ UnpackBundle(dep(TRUE), s, Best(Candidates(s.installed, want)))
    BY <1>2, <2>2, <2>4, <2>6, UnpackIsTrue, Zenon
  <2>7. CASE handleResolutionError(dep(FALSE), s, want)
    BY <1>2, <2>2, <2>7, ResolutionErrorIsTrue, Zenon
  <2> QED BY <2>1, <2>5, <2>6, <2>7, Zenon DEF ResolveBundle
<1> QED BY <1>3, <1>4

LEMMA ApplyIsTrue ==
    ASSUME ExtInvariant, ApplyNothing \/ ApplyInvalid \/ Apply
    PROVE  TrueRec(rec') /\ rec'.pc = "status"
<1>1. /\ rec \in Rec /\ Justified(rec.orig, rolledOut, bundleOf)
      /\ Justified(rec.local, rolledOut, bundleOf)
      /\ WasRolledOut(rec.states.installed, rolledOut, bundleOf)
  BY DEF ExtInvariant, Truthful
<1>2. rec.local \in Status /\ rec.states \in States BY <1>1 DEF Rec
<1>3. Applied \/ NotApplied => TrueRec(rec') /\ rec'.pc = "status"
  BY <1>1, <1>2, TrueConditions, EndedIsTrue DEF Applied, NotApplied
<1>4. CASE ApplyInvalid
  <2> DEFINE st == [rec.local EXCEPT !.prog = "InvalidConfiguration"]
  <2>1. st \in Status /\ Justified(st, rolledOut, bundleOf)
    BY <1>1, <1>2 DEF Status, Justified
  <2> QED BY <1>1, <1>4, <2>1, EndedIsTrue DEF ApplyInvalid
<1> QED BY <1>3, <1>4 DEF ApplyNothing, Apply

(***************************************************************************)
(* The steps                                                               *)
(***************************************************************************)

\* Writes to the extension keep its type and, but for UpdateStatus, its status.
LEMMA Writes ==
    ASSUME NEW e \in Extension
    PROVE  /\ [e EXCEPT !.fin = TRUE] \in Extension /\ [e EXCEPT !.fin = TRUE].status = e.status
           /\ Released(e) \in Extension /\ Released(e).status = e.status
           /\ [e EXCEPT !.deleting = TRUE] \in Extension
           /\ [e EXCEPT !.deleting = TRUE].status = e.status
           /\ \A s \in Specs : /\ [e EXCEPT !.spec = s] \in Extension
                               /\ [e EXCEPT !.spec = s].status = e.status
           /\ \A st \in Status : /\ [e EXCEPT !.status = st] \in Extension
                                 /\ [e EXCEPT !.status = st].status = st
BY Zenon DEF Extension, Released

\* What a step says is true of the revisions rolled out before it.
LEMMA StepIsTrue ==
    ASSUME ExtInvariant, [Next]_vars
    PROVE  Truthful(ext', extCache', rec', rolledOut, bundleOf)
<1>1. /\ ext \in Extension /\ extCache \in Extension /\ rec \in Rec
      /\ Justified(ext.status, rolledOut, bundleOf)
      /\ Justified(extCache.status, rolledOut, bundleOf) /\ TrueRec(rec)
  BY DEF ExtInvariant, Truthful, TrueRec
<1>2. ASSUME NEW e \in Extension, NEW c \in Extension, NEW m, TrueRec(m),
             Justified(e.status, rolledOut, bundleOf), Justified(c.status, rolledOut, bundleOf)
      PROVE  Truthful(e, c, m, rolledOut, bundleOf)
  BY <1>2 DEF Truthful, TrueRec
<1>3. CASE UNCHANGED <<ext, extCache, rec>> BY <1>1, <1>2, <1>3
<1>4. CASE AddFinalizer
  <2>1. /\ ext' \in {ext, [ext EXCEPT !.fin = TRUE]} /\ UNCHANGED <<extCache, rec>>
    BY <1>4, Zenon DEF AddFinalizer, Write
  <2> QED BY <1>1, <1>2, <2>1, Writes, Zenon
<1>5. CASE RemoveFinalizer
  <2> DEFINE st == [extCache.status EXCEPT !.prog = "Retrying"]
             m == [Idle EXCEPT !.pc = "status", !.cur = extSynced, !.orig = extCache.status,
                               !.result = "error", !.local = st]
  <2>1. extCache.status \in Status /\ extSynced \in BOOLEAN
    BY <1>1, ExtensionParts DEF ExtInvariant, StoreTypes
  <2>2. st \in Status /\ Justified(st, rolledOut, bundleOf)
    BY <1>1, <2>1 DEF Status, Progress, Justified
  <2>3. m \in Rec /\ m.orig = extCache.status /\ m.local = st /\ m.states = NoStates
    BY <2>1, <2>2, IdleIsTrue, Zenon DEF Rec, TrueRec
  <2>4. TrueRec(m) BY <1>1, <2>2, <2>3, IdleIsTrue, ExtConstructors DEF TrueRec
  <2>5. ext' \in {ext, Released(ext)} /\ rec' \in {rec, m} /\ extCache' = extCache
    BY <1>5, Zenon DEF RemoveFinalizer, Write
  <2> QED BY <1>1, <1>2, <2>4, <2>5, Writes, ZenonT(30)
<1>6. CASE FailEarly \/ Reconcile
  <2>1. UNCHANGED <<ext, extCache>> BY <1>6 DEF FailEarly, Reconcile, stored
  <2> QED BY <1>1, <1>2, <1>6, <2>1, ReconcileIsTrue
<1>7. CASE ApplyNothing \/ ApplyInvalid \/ Apply
  <2>1. UNCHANGED <<ext, extCache>> BY <1>7 DEF ApplyNothing, ApplyInvalid, Apply, stored
  <2> QED BY <1>1, <1>2, <1>7, <2>1, ApplyIsTrue
<1>8. CASE UpdateStatus
  <2>1. /\ ext' \in {ext, [ext EXCEPT !.status = rec.local]} /\ rec' = Idle
        /\ extCache' = extCache
    BY <1>8 DEF UpdateStatus, Write
  <2>2. rec.local \in Status /\ Justified(rec.local, rolledOut, bundleOf)
    BY <1>1 DEF Rec, TrueRec
  <2>3. ext' \in Extension /\ Justified(ext'.status, rolledOut, bundleOf)
    BY <1>1, <2>1, <2>2, Writes, ZenonT(30)
  <2> QED BY <1>1, <1>2, <2>1, <2>3, IdleIsTrue
<1>9. CASE ExtSync \/ Crash
  <2>1. ext' = ext /\ extCache' = ext /\ rec' \in {rec, Idle}
    BY <1>9 DEF ExtSync, Crash, stored
  <2> QED BY <1>1, <1>2, <2>1, IdleIsTrue
<1>10. CASE DeleteExtension \/ \E s \in Specs : ChangeSpec(s)
  <2>1. /\ extCache' = extCache /\ rec' = [rec EXCEPT !.cur = FALSE]
        /\ \/ ext' \in {[ext EXCEPT !.deleting = TRUE], Released(ext)}
           \/ \E s \in Specs : ext' = [ext EXCEPT !.spec = s]
    BY <1>10 DEF DeleteExtension, ChangeSpec, UserWrite, Write
  <2>2. TrueRec(rec') BY <1>1, <2>1, Zenon DEF TrueRec, Rec
  <2>3. ext' \in Extension /\ ext'.status = ext.status BY <1>1, <2>1, Writes, ZenonT(30)
  <2> QED BY <1>1, <1>2, <2>1, <2>2, <2>3
<1>11. CASE RevSync \/ Resync \/ ReconcileNotFound \/ \E c \in Catalogs : CatalogChange(c)
  BY <1>3, <1>11 DEF RevSync, Resync, ReconcileNotFound, CatalogChange, stored
<1>12. CASE \E r \in Numbers : RevisionStep(r) \/ RevisionArchived(r) \/ RevisionReport(r)
  BY <1>3, <1>12 DEF RevisionStep, RevisionArchived, RevisionReport
<1>13. CASE UNCHANGED vars BY <1>3, <1>13 DEF vars, stored
<1> QED BY <1>4, <1>5, <1>6, <1>7, <1>8, <1>9, <1>10, <1>11, <1>12, <1>13
        DEF Next, Controller, Step, Environment

\* A finalizer that is seen on a copy that is not terminating stays: it is removed
\* only from a copy that is, while no reconcile goes on.
LEMMA FinalizerStep ==
    ASSUME ExtInvariant, [Next]_vars PROVE FinalizerStays'
<1>1. /\ ext \in Extension /\ extCache \in Extension /\ rec \in Rec
      /\ Guarded => ext.exists /\ ext.fin
      /\ rec.pc = "apply" => ext.exists /\ ext.fin
  BY DEF ExtInvariant, Truthful, FinalizerStays, ApplyIsGuarded
<1>2. ASSUME UNCHANGED extCache, rec'.pc = "apply" => rec.pc = "apply",
             ext.exists /\ ext.fin => ext'.exists /\ ext'.fin
      PROVE  FinalizerStays'
  BY <1>1, <1>2 DEF FinalizerStays, ApplyIsGuarded, Guarded
<1>3. CASE AddFinalizer
  <2>1. /\ ext' \in {ext, [ext EXCEPT !.fin = TRUE]} /\ UNCHANGED <<extCache, rec>>
    BY <1>3, Zenon DEF AddFinalizer, Write
  <2> QED BY <1>1, <1>2, <2>1 DEF Extension
<1>4. CASE RemoveFinalizer
  <2>1. extCache' = extCache /\ extCache.deleting /\ rec.pc = "idle" BY <1>4 DEF RemoveFinalizer
  <2>2. rec'.pc # "apply"
    BY <1>4, <2>1, IdleIsTrue, Zenon DEF RemoveFinalizer, TrueRec, Rec
  <2> QED BY <2>1, <2>2 DEF FinalizerStays, ApplyIsGuarded, Guarded
<1>5. CASE FailEarly \/ Reconcile
  <2>1. UNCHANGED <<ext, extCache>> /\ Guarded BY <1>5 DEF FailEarly, Reconcile, stored
  <2> QED BY <1>1, <2>1 DEF FinalizerStays, ApplyIsGuarded, Guarded
<1>6. CASE ApplyNothing \/ ApplyInvalid \/ Apply
  <2>1. UNCHANGED <<ext, extCache>> BY <1>6 DEF ApplyNothing, ApplyInvalid, Apply, stored
  <2> QED BY <1>2, <1>6, <2>1, ApplyIsTrue
<1>7. CASE UpdateStatus
  <2>1. /\ ext' \in {ext, [ext EXCEPT !.status = rec.local]} /\ rec' = Idle
        /\ extCache' = extCache
    BY <1>7 DEF UpdateStatus, Write
  <2> QED BY <1>1, <1>2, <2>1, IdleIsTrue DEF Extension
<1>8. CASE ExtSync \/ Crash
  <2>1. ext' = ext /\ extCache' = ext /\ rec' \in {rec, Idle}
    BY <1>8 DEF ExtSync, Crash, stored
  <2> QED BY <1>1, <2>1, IdleIsTrue DEF FinalizerStays, ApplyIsGuarded, Guarded
<1>9. CASE DeleteExtension \/ \E s \in Specs : ChangeSpec(s)
  <2>1. /\ extCache' = extCache /\ rec' = [rec EXCEPT !.cur = FALSE]
        /\ \/ ext.fin /\ ext' = [ext EXCEPT !.deleting = TRUE]
           \/ ~ext.fin /\ ext' = Released(ext)
           \/ \E s \in Specs : ext' = [ext EXCEPT !.spec = s]
    BY <1>9 DEF DeleteExtension, ChangeSpec, UserWrite, Write
  <2>2. rec'.pc = rec.pc BY <1>1, <2>1 DEF Rec
  <2>3. ext.exists /\ ext.fin => ext'.exists /\ ext'.fin BY <1>1, <2>1 DEF Extension
  <2> QED BY <1>2, <2>1, <2>2, <2>3
<1>10. CASE UNCHANGED <<ext, extCache, rec>> BY <1>2, <1>10
<1>11. CASE RevSync \/ Resync \/ ReconcileNotFound \/ \E c \in Catalogs : CatalogChange(c)
  BY <1>10, <1>11 DEF RevSync, Resync, ReconcileNotFound, CatalogChange, stored
<1>12. CASE \E r \in Numbers : RevisionStep(r) \/ RevisionArchived(r) \/ RevisionReport(r)
  BY <1>10, <1>12 DEF RevisionStep, RevisionArchived, RevisionReport
<1>13. CASE UNCHANGED vars BY <1>10, <1>13 DEF vars, stored
<1> QED BY <1>3, <1>4, <1>5, <1>6, <1>7, <1>8, <1>9, <1>11, <1>12, <1>13
        DEF Next, Controller, Step, Environment

\* Every write to the revisions keeps what is known of them, and of those rolled out
\* nothing is forgotten.
KeepsRevisions ==
    /\ revs' \in [Numbers -> Revision] /\ latest' \in 0..N /\ rolledOut' \subseteq Numbers
    /\ bundleOf' \in [Numbers -> Optional]
    /\ rolledOut \subseteq rolledOut' /\ \A r \in rolledOut : bundleOf'[r] = bundleOf[r]
    /\ \A r \in Numbers : revs'[r].exists => r <= latest'
    /\ \A r \in Numbers : revs'[r].succ => r \in rolledOut'
    /\ \A r \in rolledOut' : r <= latest'

LEMMA RevisionsUnchanged ==
    ASSUME ExtInvariant, UNCHANGED <<revs, latest, rolledOut, bundleOf>>
    PROVE  KeepsRevisions
BY DEF ExtInvariant, StoreTypes, KnownRevisions, KeepsRevisions

LEMMA CreateKeeps ==
    ASSUME ExtInvariant, NEW r \in Numbers, Create(r), NEW b \in Optional,
           bundleOf' = [bundleOf EXCEPT ![r] = b]
    PROVE  KeepsRevisions
<1> DEFINE new == [NoRevision EXCEPT !.exists = TRUE]
<1>0. N \in Nat BY BoundsAssumption
<1>1. new \in Revision /\ new.succ = FALSE
  BY Zenon DEF NoRevision, Revision, Progress
<1>2. /\ revs' = [revs EXCEPT ![r] = new] /\ latest' = r /\ r = latest + 1
      /\ rolledOut' = rolledOut
  BY DEF Create
<1> HIDE DEF new
<1>3. /\ revs \in [Numbers -> Revision] /\ latest \in 0..N /\ rolledOut \subseteq Numbers
      /\ bundleOf \in [Numbers -> Optional]
      /\ \A s \in Numbers : revs[s].exists => s <= latest
      /\ \A s \in Numbers : revs[s].succ => s \in rolledOut
      /\ \A s \in rolledOut : s <= latest
  BY DEF ExtInvariant, StoreTypes, KnownRevisions
<1>4. revs' \in [Numbers -> Revision] /\ bundleOf' \in [Numbers -> Optional]
  BY <1>1, <1>2, <1>3
<1>5. latest' \in 0..N /\ \A s \in rolledOut : s # r /\ s <= r
  BY <1>0, <1>2, <1>3 DEF Numbers
<1>6. \A s \in rolledOut : bundleOf'[s] = bundleOf[s] BY <1>3, <1>5
<1>7. \A s \in Numbers : revs'[s].exists => s <= r
  BY <1>0, <1>2, <1>3 DEF Numbers
<1>8. \A s \in Numbers : revs'[s].succ => s \in rolledOut
  BY <1>1, <1>2, <1>3
<1> QED BY <1>2, <1>3, <1>4, <1>5, <1>6, <1>7, <1>8 DEF KeepsRevisions

LEMMA RevisionStepKeeps ==
    ASSUME ExtInvariant, NEW r \in Numbers, RevisionStep(r) \/ RevisionArchived(r) \/ RevisionReport(r)
    PROVE  KeepsRevisions
<1>0. N \in Nat BY BoundsAssumption
<1>1. /\ revs \in [Numbers -> Revision] /\ latest \in 0..N /\ rolledOut \subseteq Numbers
      /\ bundleOf \in [Numbers -> Optional]
      /\ \A s \in Numbers : revs[s].exists => s <= latest
      /\ \A s \in Numbers : revs[s].succ => s \in rolledOut
      /\ \A s \in rolledOut : s <= latest
  BY DEF ExtInvariant, StoreTypes, KnownRevisions
<1>2. bundleOf' = bundleOf BY DEF RevisionStep, RevisionArchived, RevisionReport
<1>3. CASE RollOut(r)
  BY <1>1, <1>2, <1>3 DEF RollOut, KeepsRevisions
<1>4. ASSUME NEW v \in Revision, revs' = [revs EXCEPT ![r] = v], v.exists => revs[r].exists,
             v.succ => r \in rolledOut, UNCHANGED <<latest, rolledOut>>
      PROVE  KeepsRevisions
  <2>1. \A s \in Numbers : revs'[s].exists => s <= latest BY <1>1, <1>4
  <2>2. \A s \in Numbers : revs'[s].succ => s \in rolledOut BY <1>1, <1>4
  <2> QED BY <1>1, <1>2, <1>4, <2>1, <2>2 DEF KeepsRevisions
<1>5. revs[r] \in Revision BY <1>1
<1>6. CASE Archive(r)
  <2> DEFINE v == [revs[r] EXCEPT !.archived = TRUE]
  <2>1. v \in Revision /\ v.exists = revs[r].exists /\ v.succ = revs[r].succ
    BY <1>5, Zenon DEF Revision
  <2>2. revs' = [revs EXCEPT ![r] = v] /\ UNCHANGED <<latest, rolledOut>>
    BY <1>1, <1>6 DEF Archive
  <2> QED BY <1>1, <1>4, <2>1, <2>2, Zenon
<1>7. CASE Succeed(r)
  <2> DEFINE v == [revs[r] EXCEPT !.prog = "Succeeded", !.succ = TRUE]
  <2>1. v \in Revision /\ v.exists = revs[r].exists
    BY <1>5, Zenon DEF Revision, Progress
  <2>2. revs' = [revs EXCEPT ![r] = v] /\ UNCHANGED <<latest, rolledOut>> /\ r \in rolledOut
    BY <1>1, <1>7, Zenon DEF Succeed
  <2> QED BY <1>4, <2>1, <2>2, Zenon
<1>8. CASE Remove(r)
  <2>1. NoRevision \in Revision /\ ~NoRevision.exists /\ ~NoRevision.succ
    BY DEF NoRevision, Revision, Progress
  <2>2. revs' = [revs EXCEPT ![r] = NoRevision] /\ UNCHANGED <<latest, rolledOut>>
    BY <1>8 DEF Remove
  <2> QED BY <1>4, <2>1, <2>2, Zenon
<1>9. ASSUME NEW p \in Progress, Report(r, p) PROVE KeepsRevisions
  <2> DEFINE v == [revs[r] EXCEPT !.prog = p]
  <2>1. v \in Revision /\ v.exists = revs[r].exists /\ v.succ = revs[r].succ
    BY <1>5 DEF Revision
  <2>2. revs' = [revs EXCEPT ![r] = v] /\ UNCHANGED <<latest, rolledOut>>
    BY <1>1, <1>9 DEF Report
  <2> QED BY <1>1, <1>4, <2>1, <2>2, Zenon
<1> QED BY <1>3, <1>6, <1>7, <1>8, <1>9, ReportsAssumption DEF RevisionStep, RevisionArchived, RevisionReport

LEMMA StepKeepsRevisions ==
    ASSUME ExtInvariant, [Next]_vars PROVE KeepsRevisions
<1>1. CASE UNCHANGED <<revs, latest, rolledOut, bundleOf>> BY <1>1, RevisionsUnchanged
<1>2. CASE Apply
  <2> DEFINE newest == IF Listed = {} THEN 0 ELSE Max(Listed)
  <2>1. newest < N => newest + 1 \in Numbers
    <3>1. N \in Nat BY BoundsAssumption
    <3>2. Listed \in SUBSET (1..N) BY DEF Listed, Numbers
    <3>3. Listed # {} => Max(Listed) \in 1..N BY <3>1, <3>2, MaxIn, Zenon
    <3> QED BY <3>1, <3>3 DEF Numbers
  <2>2. rec.resolved \in Optional BY DEF ExtInvariant, Truthful, Rec
  <2>3. \/ UNCHANGED <<revs, latest, rolledOut, bundleOf>>
        \/ /\ newest < N /\ Create(newest + 1)
           /\ bundleOf' = [bundleOf EXCEPT ![newest + 1] = rec.resolved]
    BY <1>2 DEF Apply, lifecycleVars
  <2> HIDE DEF newest
  <2> QED BY <1>1, <2>1, <2>2, <2>3, CreateKeeps
<1>3. CASE \E r \in Numbers : RevisionStep(r) \/ RevisionArchived(r) \/ RevisionReport(r)
  BY <1>3, RevisionStepKeeps
<1>4. CASE ReconcileNotFound \/ FailEarly \/ Reconcile \/ ApplyNothing \/ ApplyInvalid
  BY <1>1, <1>4 DEF ReconcileNotFound, FailEarly, Reconcile, ApplyNothing, ApplyInvalid, stored
<1>5. CASE AddFinalizer \/ RemoveFinalizer \/ UpdateStatus
  BY <1>1, <1>5 DEF AddFinalizer, RemoveFinalizer, UpdateStatus, lifecycleVars
<1>6. CASE ExtSync \/ RevSync \/ Resync \/ Crash \/ \E c \in Catalogs : CatalogChange(c)
  BY <1>1, <1>6 DEF ExtSync, RevSync, Resync, Crash, CatalogChange, stored
<1>7. CASE DeleteExtension \/ \E s \in Specs : ChangeSpec(s)
  BY <1>1, <1>7, Zenon DEF DeleteExtension, ChangeSpec, UserWrite
<1>8. CASE UNCHANGED vars BY <1>1, <1>8 DEF vars, stored
<1> QED BY <1>2, <1>3, <1>4, <1>5, <1>6, <1>7, <1>8 DEF Next, Controller, Step, Environment

\* The cached revisions are as they were or as they are stored.
LEMMA CachedRevisions ==
    ASSUME [Next]_vars
    PROVE  \/ revCache' = revCache
           \/ UNCHANGED <<revs, rolledOut, bundleOf>> /\ revCache' = [rev |-> revs, bundle |-> bundleOf]
<1>1. CASE ReconcileNotFound \/ FailEarly \/ Reconcile \/ ApplyNothing \/ ApplyInvalid \/ Apply
  BY <1>1 DEF ReconcileNotFound, FailEarly, Reconcile, ApplyNothing, ApplyInvalid, Apply
<1>2. CASE AddFinalizer \/ RemoveFinalizer \/ UpdateStatus
  BY <1>2 DEF AddFinalizer, RemoveFinalizer, UpdateStatus
<1>3. CASE ExtSync \/ RevSync \/ Resync \/ Crash \/ \E c \in Catalogs : CatalogChange(c)
  BY <1>3 DEF ExtSync, RevSync, Resync, Crash, CatalogChange, stored
<1>4. CASE DeleteExtension \/ \E s \in Specs : ChangeSpec(s)
  BY <1>4, Zenon DEF DeleteExtension, ChangeSpec, UserWrite
<1>5. CASE \E r \in Numbers : RevisionStep(r) \/ RevisionArchived(r) \/ RevisionReport(r)
  BY <1>5 DEF RevisionStep, RevisionArchived, RevisionReport
<1>6. CASE UNCHANGED vars BY <1>6 DEF vars
<1> QED BY <1>1, <1>2, <1>3, <1>4, <1>5, <1>6 DEF Next, Controller, Step, Environment

\* The flags and counters keep their types.
LEMMA CounterTypes ==
    ASSUME ExtInvariant, [Next]_vars
    PROVE  /\ extDeleted' \in BOOLEAN /\ extSynced' \in BOOLEAN /\ catalog' \in Catalogs
           /\ pending' \in BOOLEAN /\ changes' \in 0..MaxChanges
           /\ catalogChanges' \in 0..MaxCatalog /\ faults' \in 0..MaxFaults
<1>0. /\ extDeleted \in BOOLEAN /\ extSynced \in BOOLEAN /\ catalog \in Catalogs
      /\ pending \in BOOLEAN /\ changes \in 0..MaxChanges
      /\ catalogChanges \in 0..MaxCatalog /\ faults \in 0..MaxFaults
  BY DEF ExtInvariant, StoreTypes
<1>f. Fault => faults' \in 0..MaxFaults BY FaultsAreBounded DEF ExtInvariant
<1>1. CASE UNCHANGED <<extDeleted, extSynced, catalog, pending, bounds>>
  BY <1>0, <1>1 DEF bounds
<1>2. CASE ReconcileNotFound
  BY <1>0, <1>2, Zenon DEF ReconcileNotFound, Dequeue, stored, bounds
<1>3. CASE AddFinalizer
  <2>1. extSynced' \in BOOLEAN /\ pending' \in BOOLEAN
    BY <1>0, <1>3, Zenon DEF AddFinalizer, Write
  <2>2. faults' \in 0..MaxFaults BY <1>0, <1>f, <1>3, Zenon DEF AddFinalizer
  <2> QED BY <1>0, <1>3, <2>1, <2>2 DEF AddFinalizer, lifecycleVars
<1>4. CASE RemoveFinalizer
  <2>1. extSynced' \in BOOLEAN /\ pending' \in BOOLEAN /\ extDeleted' \in BOOLEAN
    BY <1>0, <1>4, Zenon DEF RemoveFinalizer, Write
  <2>2. faults' \in 0..MaxFaults BY <1>0, <1>f, <1>4, Zenon DEF RemoveFinalizer
  <2> QED BY <1>0, <1>4, <2>1, <2>2 DEF RemoveFinalizer
<1>5. CASE FailEarly \/ Reconcile
  <2>1. faults' \in 0..MaxFaults BY <1>5, ReconcileIsTrue
  <2>2. pending' = FALSE BY <1>5 DEF FailEarly, Reconcile, Dequeue
  <2> QED BY <1>0, <1>5, <2>1, <2>2, Zenon DEF FailEarly, Reconcile, stored
<1>6. CASE ApplyNothing \/ ApplyInvalid
  BY <1>0, <1>6 DEF ApplyNothing, ApplyInvalid, stored, bounds
<1>7. CASE Apply
  <2>1. faults' \in 0..MaxFaults BY <1>0, <1>f, <1>7 DEF Apply
  <2>2. extDeleted' = extDeleted BY <1>7 DEF Apply, Create, lifecycleVars
  <2> QED BY <1>0, <1>7, <2>1, <2>2 DEF Apply
<1>8. CASE UpdateStatus
  <2>1. faults' \in 0..MaxFaults BY <1>0, <1>f, <1>8 DEF UpdateStatus
  <2>2. extSynced' \in BOOLEAN /\ pending' \in BOOLEAN
    BY <1>0, <1>8, Zenon DEF UpdateStatus, Write
  <2> QED BY <1>0, <1>8, <2>1, <2>2 DEF UpdateStatus, lifecycleVars
<1>9. CASE ExtSync \/ RevSync \/ Resync
  BY <1>0, <1>9, Zenon DEF ExtSync, RevSync, Resync, stored, bounds
<1>10. CASE Crash BY <1>0, <1>f, <1>10 DEF Crash, stored
<1>11. ASSUME NEW c \in Catalogs, CatalogChange(c)
       PROVE  /\ extDeleted' = extDeleted /\ extSynced' = extSynced /\ catalog' \in Catalogs
              /\ pending' \in BOOLEAN /\ UNCHANGED <<changes, faults>>
              /\ catalogChanges' \in 0..MaxCatalog
  <2>1. catalogChanges' \in 0..MaxCatalog BY <1>0, <1>11, BoundsAssumption DEF CatalogChange
  <2>2. pending' \in BOOLEAN BY <1>0, <1>11 DEF CatalogChange, CatalogEventPasses
  <2> QED BY <1>0, <1>11, <2>1, <2>2 DEF CatalogChange, stored
<1>12. ASSUME DeleteExtension \/ \E s \in Specs : ChangeSpec(s)
       PROVE  /\ extDeleted' \in BOOLEAN /\ extSynced' \in BOOLEAN /\ changes' \in 0..MaxChanges
              /\ UNCHANGED <<catalog, pending, catalogChanges, faults>>
  <2>1. changes < MaxChanges /\ changes' = changes + 1
    BY <1>12, Zenon DEF DeleteExtension, ChangeSpec, UserWrite
  <2>2. changes' \in 0..MaxChanges BY <1>0, <2>1, BoundsAssumption
  <2>3. extDeleted' \in BOOLEAN /\ extSynced' \in BOOLEAN
    BY <1>0, <1>12, Zenon DEF DeleteExtension, ChangeSpec, UserWrite, Write
  <2> QED BY <1>12, <2>2, <2>3, Zenon DEF DeleteExtension, ChangeSpec, UserWrite
<1>13. CASE \E r \in Numbers : RevisionStep(r) \/ RevisionArchived(r) \/ RevisionReport(r)
  BY <1>1, <1>13 DEF RevisionStep, RevisionArchived, RevisionReport, RollOut, Archive, Succeed, Remove, Report
<1>14. CASE UNCHANGED vars BY <1>1, <1>14 DEF vars, stored
<1> QED BY <1>0, <1>2, <1>3, <1>4, <1>5, <1>6, <1>7, <1>8, <1>9, <1>10, <1>11, <1>12, <1>13, <1>14
        DEF Next, Controller, Step, Environment

(***************************************************************************)
(* The theorems                                                            *)
(***************************************************************************)

LEMMA InitInvariant == Init => ExtInvariant
<1> SUFFICES ASSUME Init PROVE ExtInvariant OBVIOUS
<1>0. N \in Nat /\ MaxChanges \in Nat /\ MaxCatalog \in Nat /\ MaxFaults \in Nat
  BY BoundsAssumption
<1>1. /\ NoRevision \in Revision /\ NoRevision.exists = FALSE /\ NoRevision.succ = FALSE
      /\ None \in Optional /\ NoStatus \in Status
  BY ExtConstructors DEF NoRevision
<1>2. /\ revs = [r \in Numbers |-> NoRevision] /\ bundleOf = [r \in Numbers |-> None]
      /\ latest = 0 /\ rolledOut = {} /\ extDeleted = FALSE
      /\ revCache.rev = revs /\ revCache.bundle = bundleOf
  BY DEF Init, LifecycleInit
<1>3. StoreTypes
  <2>1. revs \in [Numbers -> Revision] /\ bundleOf \in [Numbers -> Optional] BY <1>1, <1>2
  <2>2. latest \in 0..N /\ rolledOut \subseteq Numbers BY <1>0, <1>2
  <2>3. /\ changes \in 0..MaxChanges /\ catalogChanges \in 0..MaxCatalog
        /\ faults \in 0..MaxFaults
    BY <1>0 DEF Init
  <2>4. catalog \in Catalogs /\ pending \in BOOLEAN /\ extSynced \in BOOLEAN BY DEF Init
  <2> QED BY <1>2, <2>1, <2>2, <2>3, <2>4, Zenon DEF StoreTypes
<1>4. KnownRevisions BY <1>1, <1>2 DEF KnownRevisions
<1>5. PICK s \in Specs : ext = [exists |-> TRUE, deleting |-> FALSE, fin |-> FALSE,
                                spec |-> s, status |-> NoStatus]
  BY Zenon DEF Init
<1>6. /\ ext \in Extension /\ ext.status = NoStatus /\ ext.fin = FALSE /\ extCache = ext
      /\ rec = Idle
  BY <1>1, <1>5 DEF Init, Extension
<1>7. FinalizerStays BY <1>6, IdleIsTrue DEF FinalizerStays, ApplyIsGuarded, Guarded
<1>8. Truthful(ext, extCache, rec, rolledOut, bundleOf)
  BY <1>6, IdleIsTrue, ExtConstructors DEF Truthful, TrueRec
<1> QED BY <1>3, <1>4, <1>7, <1>8 DEF ExtInvariant

LEMMA StepInvariant == ExtInvariant /\ [Next]_vars => ExtInvariant'
<1> SUFFICES ASSUME ExtInvariant, [Next]_vars PROVE ExtInvariant' OBVIOUS
<1>1. KeepsRevisions BY StepKeepsRevisions
<1>2. \/ revCache' = revCache
      \/ /\ revs' = revs /\ rolledOut' = rolledOut /\ bundleOf' = bundleOf
         /\ revCache'.rev = revs /\ revCache'.bundle = bundleOf
  BY CachedRevisions
<1>3. StoreTypes'
  <2>1. revCache'.rev \in [Numbers -> Revision] /\ revCache'.bundle \in [Numbers -> Optional]
    BY <1>2 DEF ExtInvariant, StoreTypes
  <2> QED BY <1>1, <2>1, CounterTypes DEF StoreTypes, KeepsRevisions
<1>4. KnownRevisions'
  <2>1. \A r \in Numbers : revCache'.rev[r].succ =>
          r \in rolledOut' /\ revCache'.bundle[r] = bundleOf'[r]
    BY <1>1, <1>2 DEF ExtInvariant, KnownRevisions, KeepsRevisions
  <2> QED BY <1>1, <2>1 DEF KnownRevisions, KeepsRevisions
<1>5. Truthful(ext', extCache', rec', rolledOut', bundleOf')
  BY <1>1, StepIsTrue, TruthStays DEF KeepsRevisions
<1> QED BY <1>3, <1>4, <1>5, FinalizerStep DEF ExtInvariant

\* The inductive invariant holds throughout.
THEOREM ExtensionInvariant == Spec => []ExtInvariant
BY InitInvariant, StepInvariant, PTL DEF Spec

\* Type correctness of the ClusterExtension controller's state.
THEOREM ExtTypeCorrect == Spec => []TypeOK
<1>1. ExtInvariant => TypeOK BY DEF ExtInvariant, StoreTypes, Truthful, TypeOK
<1> QED BY <1>1, ExtensionInvariant, PTL

\* status.install names only bundles that were rolled out (GetRevisionStates): stale
\* caches, retries and crashes do not matter, since what was rolled out stays so.
THEOREM InstallIsTruthful == Spec => []InstalledWasRolledOut
<1>1. ExtInvariant => InstalledWasRolledOut
  BY Zenon DEF ExtInvariant, Truthful, Justified, WasRolledOut, InstalledWasRolledOut
<1> QED BY <1>1, ExtensionInvariant, PTL

\* BundleDeprecated is the verdict on a bundle that was rolled out (ResolveBundle).
THEOREM DeprecationIsTruthful == Spec => []DeprecationOfInstalled
<1>1. ExtInvariant => DeprecationOfInstalled
  BY Zenon DEF ExtInvariant, Truthful, Justified, IsVerdict, DeprecationOfInstalled
<1> QED BY <1>1, ExtensionInvariant, PTL

\* While a bundle is being applied the extension exists and has its finalizer
\* (HandleFinalizers), however old the copy is that the reconcile works on.
THEOREM NothingAppliedUnguarded == Spec => []ApplyIsGuarded
<1>1. ExtInvariant => ApplyIsGuarded BY DEF ExtInvariant, FinalizerStays
<1> QED BY <1>1, ExtensionInvariant, PTL
=============================================================================
