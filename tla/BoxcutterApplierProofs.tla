----------------------- MODULE BoxcutterApplierProofs -----------------------
(***************************************************************************)
(* Proofs about the boxcutter applier, for any contents and their packing,  *)
(* any retention limit and any number of changes and faults: as long as     *)
(* nobody else deletes a revision, the Secrets of every revision exist, a   *)
(* new revision is numbered one above the newest, and retention deletes     *)
(* only archived revisions and leaves enough newer ones.                    *)
(***************************************************************************)
EXTENDS BoxcutterApplier, WellFoundedInduction, TLAPS, FiniteSetTheorems

\* A set of naturals that is not empty has a least element.
LEMMA MinExists ==
    ASSUME NEW S \in SUBSET Nat, S # {}
    PROVE  \E x \in S : \A y \in S : x =< y
<1>1. \E x \in S : \A y \in S : ~ (<<y, x>> \in OpToRel(<, Nat))
  BY NatLessThanWellFounded, WFMin, Zenon
<1>2. PICK x \in S : \A y \in S : ~ (<<y, x>> \in OpToRel(<, Nat)) BY <1>1, Zenon
<1>3. ASSUME NEW y \in S PROVE x =< y
  <2>1. x \in Nat /\ y \in Nat OBVIOUS
  <2>2. ~ (y < x) BY <1>2, <2>1, Zenon DEF OpToRel
  <2> QED BY <2>1, <2>2
<1> QED BY <1>3

\* Min chooses an element of the set.
LEMMA MinIn == ASSUME NEW S \in SUBSET Nat, S # {} PROVE Min(S) \in S
BY MinExists, Zenon DEF Min

\* Max chooses the greatest element of a bounded set.
LEMMA MaxIn ==
    ASSUME NEW n \in Nat, NEW S \in SUBSET (1..n), S # {}
    PROVE  Max(S) \in S /\ \A y \in S : y <= Max(S)
<1>a. \A i, j, k \in Int : i - j =< i - k => j >= k OBVIOUS
<1>b. n \in Int /\ \A x \in S : x \in Int OBVIOUS
<1> DEFINE T == {n - x : x \in S}
<1>1. T \in SUBSET Nat
  <2>1. \A x \in S : n - x \in Nat OBVIOUS
  <2> QED BY <2>1, Zenon
<1>2. T # {} BY Zenon
<1>3. PICK t \in T : \A u \in T : t =< u BY <1>1, <1>2, MinExists, Zenon
<1>4. PICK m \in S : t = n - m OBVIOUS
<1>5. ASSUME NEW y \in S PROVE m >= y
  <2>1. n - m =< n - y BY <1>3, <1>4
  <2>2. n \in Int /\ m \in Int /\ y \in Int BY <1>b, Zenon
  <2> QED BY <1>a, <2>1, <2>2, Zenon
<1>6. \E x \in S : \A y \in S : x >= y BY <1>5
<1>7. Max(S) \in S /\ \A y \in S : Max(S) >= y BY <1>6, Zenon DEF Max
<1> QED BY <1>7

(***************************************************************************)
(* Types                                                                   *)
(***************************************************************************)

LEMMA Constructors ==
    /\ SomeContent \in Contents /\ NoRev \in Rev /\ Idle \in Ap /\ NoSecret \in Secret
    /\ MaxChanges + 1 \in Nat /\ MaxDeletes + 1 \in Nat
    /\ \A c \in Contents : Pieces[c] \subseteq AllPieces
<1>1. MaxChanges + 1 \in Nat /\ MaxDeletes + 1 \in Nat BY BoundsAssumption
<1>2. SomeContent \in Contents BY ContentsAssumption DEF SomeContent
<1>3. NoRev \in Rev BY <1>1, <1>2 DEF NoRev, Rev
<1>4. Idle \in Ap BY <1>1, <1>2 DEF Idle, Ap, PCs
<1>5. NoSecret \in Secret BY DEF NoSecret, Secret
<1>6. \A c \in Contents : Pieces[c] \subseteq AllPieces BY DEF AllPieces
<1> QED BY <1>1, <1>2, <1>3, <1>4, <1>5, <1>6

\* Latest is the greatest number in use.
LEMMA LatestIs ==
    ASSUME NEW rs
    PROVE  /\ Latest(rs) \in 0..(MaxChanges + 1)
           /\ \A r \in Revs : Exists(rs, r) => r <= Latest(rs)
           /\ Latest(rs) = 0 <=> Existing(rs) = {}
           /\ Latest(rs) # 0 => Latest(rs) \in Revs /\ Exists(rs, Latest(rs))
<1>1. MaxChanges + 1 \in Nat BY Constructors
<1>2. Existing(rs) \in SUBSET (1..(MaxChanges + 1)) BY DEF Existing, Revs
<1>3. Existing(rs) # {} => /\ Max(Existing(rs)) \in Existing(rs)
                           /\ \A r \in Existing(rs) : r <= Max(Existing(rs))
  BY <1>1, <1>2, MaxIn, Zenon
<1>4. Existing(rs) = {} => Latest(rs) = 0 BY DEF Latest
<1>5. Existing(rs) # {} => Latest(rs) = Max(Existing(rs)) BY DEF Latest
<1>6. CASE Existing(rs) = {} BY <1>1, <1>4, <1>6 DEF Existing
<1>7. CASE Existing(rs) # {}
  <2>1. Latest(rs) \in Existing(rs) BY <1>3, <1>5, <1>7
  <2> QED BY <1>1, <1>3, <1>5, <1>7, <2>1 DEF Existing, Revs
<1> QED BY <1>6, <1>7

\* The writes the steps make keep the types.
LEMMA RevisionWrites ==
    ASSUME revs \in [Revs -> Rev], NEW r \in Revs
    PROVE  /\ \A d \in BOOLEAN : [revs EXCEPT ![r].deleting = d] \in [Revs -> Rev]
           /\ [revs EXCEPT ![r].archived = TRUE] \in [Revs -> Rev]
           /\ [revs EXCEPT ![r] = NoRev] \in [Revs -> Rev]
<1>1. revs[r] \in Rev OBVIOUS
<1>2. \A d \in BOOLEAN : [revs[r] EXCEPT !.deleting = d] \in Rev BY <1>1 DEF Rev
<1>3. [revs[r] EXCEPT !.archived = TRUE] \in Rev BY <1>1, Zenon DEF Rev
<1> QED BY <1>2, <1>3, Constructors

LEMMA CreatedType ==
    ASSUME TypeOK, NEW r \in Revs, Created(r)
    PROVE  revs' \in [Revs -> Rev] /\ made' \in [Revs -> 0..(MaxDeletes + 1)]
<1> DEFINE new == [NoRev EXCEPT !.uid = made[r] + 1, !.content = ap.want]
<1>1. made[r] \in 0..(MaxDeletes + 1) /\ made[r] < MaxDeletes + 1 BY DEF TypeOK, Created
<1>2. made[r] + 1 \in 0..(MaxDeletes + 1) BY <1>1, Constructors
<1>3. ap.want \in Contents BY DEF TypeOK, Ap
<1>4. new \in Rev BY <1>2, <1>3, Constructors, Zenon DEF Rev
<1>5. revs' = [revs EXCEPT ![r] = new] /\ made' = [made EXCEPT ![r] = made[r] + 1]
  BY DEF Created, TypeOK
<1> HIDE DEF new
<1> QED BY <1>2, <1>4, <1>5 DEF TypeOK

\* A step that works on a revision has its number, and one that compares or sets owners
\* has a uid.
Named(a) ==
    /\ a.pc \in {"ssa", "secrets", "cos", "uid", "owners"} => a.rev \in Revs
    /\ a.pc \in {"ssa", "owners"} => a.uid \in Uids
TypeInvariant == TypeOK /\ Named(ap)

LEMMA IdleIsNamed == Idle \in Ap /\ Idle.pc = "idle" /\ Named(Idle)
BY Constructors DEF Idle, Named

LEMMA PatchNextType ==
    ASSUME TypeInvariant, ap.rev \in Revs, NEW uid \in Uids, NEW patch \in SUBSET Patches,
           PatchNext(uid, patch)
    PROVE  ap' \in Ap /\ Named(ap') /\ pending' \in BOOLEAN
<1>1. CASE patch = {} BY <1>1, IdleIsNamed DEF PatchNext, Done, TypeInvariant, TypeOK
<1>2. CASE patch # {}
  <2> DEFINE a == [ap EXCEPT !.pc = "owners", !.uid = uid, !.patch = patch]
  <2>1. uid \in 0..(MaxDeletes + 1) BY Constructors DEF Uids
  <2>2. a \in Ap BY <2>1, Zenon DEF TypeInvariant, TypeOK, Ap, PCs
  <2>3. a.rev = ap.rev /\ a.uid = uid BY DEF TypeInvariant, TypeOK, Ap
  <2>4. Named(a) BY <2>3 DEF Named
  <2> QED BY <1>2, <2>2, <2>4 DEF PatchNext, TypeInvariant, TypeOK
<1> QED BY <1>1, <1>2

LEMMA FailType ==
    ASSUME Fail PROVE ap' \in Ap /\ Named(ap') /\ pending' \in BOOLEAN
BY IdleIsNamed DEF Fail

LEMMA FaultType ==
    ASSUME TypeOK, Fault PROVE faults' \in 0..MaxFaults
BY BoundsAssumption DEF TypeOK, Fault

LEMMA ApplyTypes ==
    ASSUME TypeInvariant, Apply PROVE TypeInvariant'
<1>0. /\ desired \in Contents /\ revs \in [Revs -> Rev] /\ revCache \in [Revs -> Rev]
      /\ made \in [Revs -> 0..(MaxDeletes + 1)] /\ secrets \in [Secrets -> Secret]
      /\ secCache \in [Secrets -> Secret] /\ pending \in BOOLEAN /\ ap \in Ap /\ Named(ap)
      /\ changes \in 0..MaxChanges /\ faults \in 0..MaxFaults /\ deletes \in 0..MaxDeletes
  BY DEF TypeInvariant, TypeOK
<1>1. CASE Begin
  <2> DEFINE some == Existing(revCache) # {}
             n == Latest(revCache)
             u == IF ~some THEN 0 ELSE revCache[n].uid
             a == [Idle EXCEPT !.pc = IF ~some THEN "gc" ELSE "ssa", !.want = desired,
                               !.rev = n, !.uid = u, !.gc = Collectable(revCache)]
  <2>1. n \in 0..(MaxChanges + 1) /\ (some => n \in Revs /\ revCache[n].uid # 0)
    BY LatestIs DEF Exists
  <2>2. u \in 0..(MaxDeletes + 1) /\ (some => u \in Uids)
    <3>1. \A m \in 0..(MaxDeletes + 1) : m # 0 => m \in 1..(MaxDeletes + 1) BY Constructors
    <3>2. some => revCache[n].uid \in 0..(MaxDeletes + 1) BY <1>0, <2>1 DEF Rev
    <3>3. 0 \in 0..(MaxDeletes + 1) BY Constructors
    <3> QED BY <2>1, <3>1, <3>2, <3>3 DEF Uids
  <2>3. Collectable(revCache) \in SUBSET Revs BY DEF Collectable, Existing
  <2> HIDE DEF n, u, some
  <2>4. a \in Ap BY <1>0, <2>1, <2>2, <2>3, IdleIsNamed, Zenon DEF Ap, PCs
  <2>5. a.pc = (IF ~some THEN "gc" ELSE "ssa") /\ a.rev = n /\ a.uid = u
    BY IdleIsNamed DEF Ap
  <2> HIDE DEF a
  <2>6. Named(a) BY <2>1, <2>2, <2>5 DEF Named
  <2>7. ap' = a BY <1>1, Zenon DEF Begin, a, n, u, some
  <2> QED BY <1>0, <1>1, <2>4, <2>6, <2>7, Zenon DEF Begin, bounds, TypeInvariant, TypeOK
<1>2. CASE BeginWithoutContent
  BY <1>0, <1>2, FaultType DEF BeginWithoutContent, TypeInvariant, TypeOK
<1>3. CASE CompareWithLatest
  <2>1. ap.rev \in Revs /\ ap.uid \in Uids BY <1>0, <1>3 DEF CompareWithLatest, Named
  <2>2. Unowned(ap.rev, ap.uid) \in SUBSET Patches
    <3>1. \A q \in AllPieces : <<ap.rev, q>> \in Secrets BY <2>1 DEF Secrets
    <3>2. \A q \in AllPieces : secCache[<<ap.rev, q>>].owners \in SUBSET Uids
      BY <1>0, <3>1 DEF Secret
    <3>3. \A q \in AllPieces : [piece |-> q, owners |-> secCache[<<ap.rev, q>>].owners] \in Patches
      BY <3>2 DEF Patches
    <3> QED BY <3>3, Zenon DEF Unowned
  <2>3. revs' \in [Revs -> Rev] /\ made' \in [Revs -> 0..(MaxDeletes + 1)]
    BY <1>0, <1>3, <2>1, CreatedType DEF CompareWithLatest, TypeInvariant
  <2>4. ap' \in Ap /\ Named(ap') /\ pending' \in BOOLEAN
    <3>1. [ap EXCEPT !.pc = "gc"] \in Ap /\ Named([ap EXCEPT !.pc = "gc"])
      BY <1>0 DEF Ap, PCs, Named
    <3> QED BY <1>0, <1>3, <2>1, <2>2, <3>1, PatchNextType, FailType DEF CompareWithLatest
  <2>5. faults' \in 0..MaxFaults BY <1>0, <1>3, FaultType DEF CompareWithLatest, TypeInvariant
  <2> QED BY <1>0, <1>3, <2>3, <2>4, <2>5 DEF CompareWithLatest, TypeInvariant, TypeOK
<1>4. CASE CollectOldRevision
  <2> DEFINE r == Min(ap.gc)
             a == [ap EXCEPT !.gc = ap.gc \ {r}]
  <2>1. r \in Revs
    <3>1. ap.gc \in SUBSET Revs /\ ap.gc # {} BY <1>0, <1>4 DEF Ap, CollectOldRevision
    <3>2. ap.gc \in SUBSET Nat BY <3>1, Constructors DEF Revs
    <3> QED BY <3>1, <3>2, MinIn
  <2>2. a \in Ap /\ Named(a) BY <1>0 DEF Ap, Named
  <2>3. [revs EXCEPT ![r].deleting = Exists(revs, r)] \in [Revs -> Rev]
    BY <1>0, <2>1, RevisionWrites, Zenon DEF Exists
  <2>4. revs' \in [Revs -> Rev] /\ ap' \in Ap /\ Named(ap') /\ pending' \in BOOLEAN
    BY <1>0, <1>4, <2>2, <2>3, FailType, Zenon DEF CollectOldRevision
  <2>5. faults' \in 0..MaxFaults BY <1>0, <1>4, FaultType DEF CollectOldRevision, TypeInvariant
  <2> QED BY <1>0, <1>4, <2>4, <2>5 DEF CollectOldRevision, TypeInvariant, TypeOK
<1>5. CASE PackSecrets
  <2> DEFINE a == [ap EXCEPT !.pc = "secrets", !.rev = ap.rev + 1, !.uid = 0,
                             !.create = Pieces[ap.want]]
  <2>1. ap.rev + 1 \in Revs => a \in Ap /\ Named(a)
    <3>1. Pieces[ap.want] \in SUBSET AllPieces BY <1>0, Constructors DEF Ap
    <3>2. ap.rev + 1 \in Revs => ap.rev + 1 \in 0..(MaxChanges + 1) BY Constructors DEF Revs
    <3>3. 0 \in 0..(MaxDeletes + 1) BY Constructors
    <3>4. ap.rev + 1 \in Revs => a \in Ap BY <1>0, <3>1, <3>2, <3>3, Zenon DEF Ap, PCs
    <3>5. a.pc = "secrets" /\ a.rev = ap.rev + 1 BY <1>0 DEF Ap
    <3> QED BY <3>4, <3>5 DEF Named
  <2>2. ap' \in Ap /\ Named(ap') /\ pending' \in BOOLEAN
    BY <1>0, <1>5, <2>1, FailType DEF PackSecrets
  <2>3. faults' \in 0..MaxFaults BY <1>0, <1>5, FaultType DEF PackSecrets, TypeInvariant
  <2> QED BY <1>0, <1>5, <2>2, <2>3 DEF PackSecrets, TypeInvariant, TypeOK
<1>6. ASSUME NEW q \in AllPieces, CreateSecret(q) PROVE TypeInvariant'
  <2> DEFINE a == [ap EXCEPT !.create = ap.create \ {q},
                             !.pc = IF ap.create = {q} THEN "cos" ELSE ap.pc]
             s == <<ap.rev, q>>
  <2>1. s \in Secrets BY <1>0, <1>6 DEF CreateSecret, Named, Secrets
  <2>2. a \in Ap /\ Named(a) BY <1>0, <1>6, Zenon DEF Ap, PCs, Named, CreateSecret
  <2>3. [secrets EXCEPT ![s].exists = TRUE] \in [Secrets -> Secret] BY <1>0, <2>1, Zenon DEF Secret
  <2>4. secrets' \in [Secrets -> Secret] /\ ap' \in Ap /\ Named(ap') /\ pending' \in BOOLEAN
    BY <1>0, <1>6, <2>2, <2>3, FailType DEF CreateSecret
  <2>5. faults' \in 0..MaxFaults BY <1>0, <1>6, FaultType DEF CreateSecret, TypeInvariant
  <2> QED BY <1>0, <1>6, <2>4, <2>5 DEF CreateSecret, TypeInvariant, TypeOK
<1>7. CASE CreateRevision
  <2>1. ap.rev \in Revs BY <1>0, <1>7 DEF CreateRevision, Named
  <2>2. [ap EXCEPT !.pc = "uid"] \in Ap /\ Named([ap EXCEPT !.pc = "uid"])
    BY <1>0, <2>1 DEF Ap, PCs, Named
  <2>3. revs' \in [Revs -> Rev] /\ made' \in [Revs -> 0..(MaxDeletes + 1)]
    BY <1>0, <1>7, <2>1, CreatedType DEF CreateRevision, TypeInvariant
  <2>4. ap' \in Ap /\ Named(ap') /\ pending' \in BOOLEAN
    BY <1>0, <1>7, <2>2, FailType DEF CreateRevision
  <2>5. faults' \in 0..MaxFaults BY <1>0, <1>7, FaultType DEF CreateRevision, TypeInvariant
  <2> QED BY <1>0, <1>7, <2>3, <2>4, <2>5 DEF CreateRevision, TypeInvariant, TypeOK
<1>8. CASE GetRevisionUid
  <2> DEFINE P == {[piece |-> q, owners |-> {}] : q \in Pieces[ap.want]}
  <2>1. ap.rev \in Revs BY <1>0, <1>8 DEF GetRevisionUid, Named
  <2>2. P \in SUBSET Patches
    <3>1. Pieces[ap.want] \subseteq AllPieces BY <1>0, Constructors DEF Ap
    <3> QED BY <3>1 DEF Patches
  <2>3. Exists(revCache, ap.rev) => revCache[ap.rev].uid \in Uids
    <3>1. \A m \in 0..(MaxDeletes + 1) : m # 0 => m \in 1..(MaxDeletes + 1) BY Constructors
    <3>2. revCache[ap.rev].uid \in 0..(MaxDeletes + 1) BY <1>0, <2>1 DEF Rev
    <3> QED BY <3>1, <3>2 DEF Exists, Uids
  <2> HIDE DEF P
  <2>4. ap' \in Ap /\ Named(ap') /\ pending' \in BOOLEAN
    BY <1>8, <2>1, <2>2, <2>3, PatchNextType, FailType DEF GetRevisionUid, P
  <2> QED BY <1>0, <1>8, <2>4 DEF GetRevisionUid, bounds, TypeInvariant, TypeOK
<1>9. ASSUME NEW t \in ap.patch, PatchOwner(t) PROVE TypeInvariant'
  <2> DEFINE s == <<ap.rev, t.piece>>
  <2>1. ap.rev \in Revs /\ ap.uid \in Uids BY <1>0, <1>9 DEF PatchOwner, Named
  <2>2. t.piece \in AllPieces /\ t.owners \in SUBSET Uids /\ ap.patch \ {t} \in SUBSET Patches
    BY <1>0 DEF Ap, Patches
  <2>3. s \in Secrets BY <2>1, <2>2 DEF Secrets
  <2>4. [secrets EXCEPT ![s].owners = t.owners \cup {ap.uid}] \in [Secrets -> Secret]
    BY <1>0, <2>1, <2>2, <2>3 DEF Secret
  <2>5. secrets' \in [Secrets -> Secret] BY <1>0, <1>9, <2>4 DEF PatchOwner
  <2>6. ap' \in Ap /\ Named(ap') /\ pending' \in BOOLEAN
    BY <1>9, <2>1, <2>2, PatchNextType, FailType DEF PatchOwner
  <2>7. faults' \in 0..MaxFaults BY <1>0, <1>9, FaultType DEF PatchOwner, TypeInvariant
  <2> QED BY <1>0, <1>9, <2>5, <2>6, <2>7 DEF PatchOwner, TypeInvariant, TypeOK
<1> QED BY <1>1, <1>2, <1>3, <1>4, <1>5, <1>6, <1>7, <1>8, <1>9 DEF Apply

LEMMA EnvironmentTypes ==
    ASSUME TypeInvariant, Environment \/ UNCHANGED vars PROVE TypeInvariant'
<1>0. /\ desired \in Contents /\ revs \in [Revs -> Rev] /\ revCache \in [Revs -> Rev]
      /\ made \in [Revs -> 0..(MaxDeletes + 1)] /\ secrets \in [Secrets -> Secret]
      /\ secCache \in [Secrets -> Secret] /\ pending \in BOOLEAN /\ ap \in Ap /\ Named(ap)
      /\ changes \in 0..MaxChanges /\ faults \in 0..MaxFaults /\ deletes \in 0..MaxDeletes
  BY DEF TypeInvariant, TypeOK
<1>1. CASE RevSync \/ SecSync \/ Resync
  BY <1>0, <1>1, Zenon DEF RevSync, SecSync, Resync, bounds, TypeInvariant, TypeOK
<1>2. CASE Crash
  BY <1>0, <1>2, FaultType, IdleIsNamed DEF Crash, TypeInvariant, TypeOK
<1>3. ASSUME NEW c \in Contents, ChangeDesired(c) PROVE TypeInvariant'
  <2>1. changes' \in 0..MaxChanges
    BY <1>0, <1>3, BoundsAssumption DEF ChangeDesired, Intervene
  <2> QED BY <1>0, <1>3, <2>1 DEF ChangeDesired, TypeInvariant, TypeOK
<1>4. ASSUME NEW r \in Revs, Archive(r) \/ FinalizeRevision(r) PROVE TypeInvariant'
  <2>1. revs' \in [Revs -> Rev] BY <1>0, <1>4, RevisionWrites, Zenon DEF Archive, FinalizeRevision
  <2> QED BY <1>0, <1>4, <2>1 DEF Archive, FinalizeRevision, bounds, TypeInvariant, TypeOK
<1>5. ASSUME NEW r \in Revs, DeleteRevision(r) PROVE TypeInvariant'
  <2>1. revs' \in [Revs -> Rev] BY <1>0, <1>5, RevisionWrites, Zenon DEF DeleteRevision
  <2>2. deletes' \in 0..MaxDeletes BY <1>0, <1>5, BoundsAssumption DEF DeleteRevision
  <2> QED BY <1>0, <1>5, <2>1, <2>2 DEF DeleteRevision, TypeInvariant, TypeOK
<1>6. ASSUME NEW s \in Secrets, CollectSecret(s) PROVE TypeInvariant'
  <2> DEFINE live == secrets[s].owners \cap {revs[s[1]].uid}
             v == IF live = {} THEN NoSecret ELSE [secrets[s] EXCEPT !.owners = live]
  <2>1. secrets[s] \in Secret BY <1>0
  <2>2. live \in SUBSET Uids BY <2>1 DEF Secret
  <2>3. v \in Secret BY <2>1, <2>2, Constructors DEF Secret
  <2>4. secrets' = [secrets EXCEPT ![s] = v] BY <1>6 DEF CollectSecret
  <2>5. secrets' \in [Secrets -> Secret] BY <1>0, <2>3, <2>4
  <2> QED BY <1>0, <1>6, <2>5 DEF CollectSecret, bounds, TypeInvariant, TypeOK
<1>7. CASE UNCHANGED vars BY <1>0, <1>7 DEF vars, TypeInvariant, TypeOK
<1> QED BY <1>1, <1>2, <1>3, <1>4, <1>5, <1>6, <1>7 DEF Environment

LEMMA InitTypes == Init => TypeInvariant
<1> SUFFICES ASSUME Init PROVE TypeInvariant OBVIOUS
<1>1. 0 \in 0..(MaxDeletes + 1) BY Constructors
<1>2. /\ revs \in [Revs -> Rev] /\ made \in [Revs -> 0..(MaxDeletes + 1)]
      /\ secrets \in [Secrets -> Secret]
  BY <1>1, Constructors DEF Init
<1>3. changes \in 0..MaxChanges /\ faults \in 0..MaxFaults /\ deletes \in 0..MaxDeletes
  BY BoundsAssumption DEF Init
<1> QED BY <1>2, <1>3, IdleIsNamed DEF Init, TypeInvariant, TypeOK

LEMMA TypesStay == TypeInvariant /\ [Next]_vars => TypeInvariant'
BY ApplyTypes, EnvironmentTypes DEF Next

\* Type correctness of the applier's state.
THEOREM ApplierTypeCorrect == Spec => []TypeOK
<1>1. Spec => []TypeInvariant BY InitTypes, TypesStay, PTL DEF Spec
<1>2. TypeInvariant => TypeOK BY DEF TypeInvariant
<1> QED BY <1>1, <1>2, PTL

(***************************************************************************)
(* Revisions and their Secrets                                             *)
(***************************************************************************)

\* With the revisions R, of which M were made, cached as C: revision r was made and is
\* gone or on its way.
Gone(r, R, M) == M[r] # 0 /\ (~Exists(R, r) \/ R[r].deleting)

\* No number was used twice and none is left out; only revisions older than the newest
\* one cached are gone.
Ordered(R, M, C) ==
    /\ \A r \in Revs : /\ M[r] \in {0, 1}
                       /\ Exists(R, r) => M[r] = 1 /\ R[r].uid = 1
                       /\ Exists(C, r) => M[r] = 1 /\ C[r].uid = 1
                       /\ Gone(r, R, M) => r < Latest(C)
    /\ \A r, q \in Revs : M[r] = 1 /\ q < r => M[q] = 1

\* The Secrets S, cached as K, are owned by revisions that were made.
Owned(S, K, M) ==
    \A s \in Secrets : /\ S[s].owners \subseteq {1} /\ K[s].owners \subseteq {1}
                       /\ S[s].owners # {} => M[s[1]] = 1

Resolved(R, S) ==
    \A r \in Revs : Exists(R, r) => \A p \in Pieces[R[r].content] : S[<<r, p>>].exists

\* The newest revision in the list from which Apply a works.
Base(a) == IF a.pc \in {"ssa", "gc"} THEN a.rev ELSE a.rev - 1
Listing(a) == a.pc \in {"ssa", "gc", "secrets", "cos"}
\* What Apply a knows: the newest revision of its list, and all revisions made since,
\* are there; the Secrets it went past exist; and it sets an owner that is known.
Working(a, R, M, C, S) ==
    /\ Listing(a) =>
         /\ Base(a) # 0 => Base(a) \in Revs /\ M[Base(a)] = 1
         /\ Base(a) <= Latest(C)
         /\ \A r \in Revs : Gone(r, R, M) => r < Base(a)
    /\ a.pc \in {"ssa", "gc"} => \A r \in a.gc : r < a.rev
    /\ a.pc \in {"ssa", "owners"} => a.uid = 1
    /\ a.pc \in {"secrets", "cos"} =>
         \A p \in Pieces[a.want] : (a.pc = "secrets" /\ p \in a.create) \/ S[<<a.rev, p>>].exists
    /\ a.pc \in {"uid", "owners"} => M[a.rev] = 1
    /\ a.pc = "owners" => \A t \in a.patch : t.owners \subseteq {1}

Undisturbed ==
    /\ Ordered(revs, made, revCache) /\ Owned(secrets, secCache, made)
    /\ Resolved(revs, secrets) /\ Working(ap, revs, made, revCache, secrets)

\* The inductive invariant.
ApplierInvariant == TypeInvariant /\ (deletes = 0 => Undisturbed)

\* The newest cached revision is there.
LEMMA LatestStays ==
    ASSUME NEW R, NEW M, NEW C, Ordered(R, M, C)
    PROVE  Latest(C) <= Latest(R)
<1>1. Latest(C) \in 0..(MaxChanges + 1) /\ Latest(R) \in 0..(MaxChanges + 1) BY LatestIs
<1>2. CASE Latest(C) = 0 BY <1>1, <1>2
<1>3. CASE Latest(C) # 0
  <2>1. Latest(C) \in Revs /\ M[Latest(C)] = 1 BY <1>3, LatestIs DEF Ordered
  <2>2. ~(Latest(C) < Latest(C)) BY <1>1
  <2>3. Exists(R, Latest(C)) BY <2>1, <2>2 DEF Ordered, Gone
  <2> QED BY <2>1, <2>3, LatestIs
<1> QED BY <1>2, <1>3

\* The cache catches up.
LEMMA SyncKeeps ==
    ASSUME NEW R, NEW M, NEW C, NEW S, NEW a, Ordered(R, M, C), Working(a, R, M, C, S),
           a \in Ap
    PROVE  Ordered(R, M, R) /\ Working(a, R, M, R, S)
<1>1. /\ Latest(C) <= Latest(R) /\ Latest(C) \in 0..(MaxChanges + 1)
      /\ Latest(R) \in 0..(MaxChanges + 1)
  BY LatestStays, LatestIs
<1>2. \A r \in Revs : Gone(r, R, M) => r < Latest(R)
  <2>1. \A r \in Revs : r < Latest(C) => r < Latest(R) BY <1>1 DEF Revs
  <2> QED BY <2>1 DEF Ordered
<1>3. Listing(a) => Base(a) <= Latest(R)
  <2>1. Base(a) \in Int BY DEF Base, Ap
  <2>2. Base(a) <= Latest(C) => Base(a) <= Latest(R) BY <1>1, <2>1
  <2> QED BY <2>2 DEF Working
<1>4. Ordered(R, M, R) BY <1>2 DEF Ordered
<1>5. Working(a, R, M, R, S) BY <1>3 DEF Working
<1> QED BY <1>4, <1>5

\* Revisions are archived, deleted or gone, but none that is newest in a list.
LEMMA LossKeeps ==
    ASSUME NEW R, NEW Q, NEW M, NEW C, NEW S, NEW a, Ordered(R, M, C), Resolved(R, S),
           Working(a, R, M, C, S),
           \A r \in Revs : Exists(Q, r) => /\ Exists(R, r) /\ Q[r].uid = R[r].uid
                                           /\ Q[r].content = R[r].content,
           \A r \in Revs : Gone(r, Q, M) =>
             Gone(r, R, M) \/ (r < Latest(C) /\ (Listing(a) => r < Base(a)))
    PROVE  Ordered(Q, M, C) /\ Resolved(Q, S) /\ Working(a, Q, M, C, S)
<1>1. Ordered(Q, M, C) BY DEF Ordered
<1>2. Resolved(Q, S) BY DEF Resolved
<1>3. Working(a, Q, M, C, S)
  <2>1. Listing(a) => \A r \in Revs : Gone(r, Q, M) => r < Base(a) BY DEF Working
  <2> QED BY <2>1 DEF Working
<1> QED BY <1>1, <1>2, <1>3

\* An Apply that is over knows nothing.
LEMMA IdleWorks == \A R, M, C, S : Working(Idle, R, M, C, S)
BY IdleIsNamed DEF Working, Listing

LEMMA PatchNextWorks ==
    ASSUME TypeInvariant, NEW M, M[ap.rev] = 1, NEW patch,
           \A t \in patch : t.owners \subseteq {1}, PatchNext(1, patch)
    PROVE  \A R, C, S : Working(ap', R, M, C, S)
<1>1. CASE patch = {} BY <1>1, IdleWorks DEF PatchNext, Done
<1>2. CASE patch # {}
  <2>1. ap' = [ap EXCEPT !.pc = "owners", !.uid = 1, !.patch = patch] BY <1>2 DEF PatchNext
  <2>2. ap'.pc = "owners" /\ ap'.uid = 1 /\ ap'.patch = patch /\ ap'.rev = ap.rev
    BY <2>1 DEF TypeInvariant, TypeOK, Ap
  <2> QED BY <2>2 DEF Working, Listing
<1> QED BY <1>1, <1>2

\* Secrets come to exist.
LEMMA SecretsGrow ==
    ASSUME NEW R, NEW M, NEW C, NEW S, NEW T, NEW a,
           Resolved(R, S), Working(a, R, M, C, S), a.rev \in Revs \/ a.pc \notin {"secrets", "cos"},
           \A r \in Revs : \A p : S[<<r, p>>].exists => T[<<r, p>>].exists
    PROVE  Resolved(R, T) /\ Working(a, R, M, C, T)
<1>1. Resolved(R, T) BY DEF Resolved
<1>2. a.pc \in {"secrets", "cos"} =>
        \A p \in Pieces[a.want] : (a.pc = "secrets" /\ p \in a.create) \/ T[<<a.rev, p>>].exists
  BY DEF Working
<1>3. Working(a, R, M, C, T) BY <1>2 DEF Working
<1> QED BY <1>1, <1>3

LEMMA EnvironmentKeeps ==
    ASSUME TypeInvariant, Undisturbed, Environment \/ UNCHANGED vars, deletes' = 0
    PROVE  Undisturbed'
<1>0. /\ Ordered(revs, made, revCache) /\ Owned(secrets, secCache, made)
      /\ Resolved(revs, secrets) /\ Working(ap, revs, made, revCache, secrets)
      /\ ap \in Ap /\ revs \in [Revs -> Rev] /\ secrets \in [Secrets -> Secret] /\ Named(ap)
      /\ deletes \in 0..MaxDeletes
  BY DEF Undisturbed, TypeInvariant, TypeOK
<1>1. Owned(secrets, secrets, made) BY <1>0 DEF Owned
<1>2. CASE RevSync BY <1>0, <1>2, SyncKeeps DEF RevSync, Undisturbed
<1>3. CASE SecSync BY <1>0, <1>1, <1>3 DEF SecSync, Undisturbed
<1>4. CASE Resync \/ UNCHANGED vars BY <1>0, <1>4 DEF Resync, vars, Undisturbed
<1>5. CASE Crash BY <1>0, <1>1, <1>5, SyncKeeps, IdleWorks DEF Crash, Undisturbed
<1>6. ASSUME NEW c \in Contents, ChangeDesired(c) PROVE Undisturbed'
  BY <1>0, <1>6 DEF ChangeDesired, Undisturbed
<1>7. ASSUME NEW r \in Revs, Archive(r) \/ FinalizeRevision(r) PROVE Undisturbed'
  <2>1. revs[r] \in Rev BY <1>0
  <2>2. \A q \in Revs : q # r => revs'[q] = revs[q]
    BY <1>0, <1>7 DEF Archive, FinalizeRevision
  <2>3. CASE Archive(r)
    <3>1. revs'[r] = [revs[r] EXCEPT !.archived = TRUE] BY <1>0, <2>3 DEF Archive
    <3>2. /\ revs'[r].uid = revs[r].uid /\ revs'[r].content = revs[r].content
          /\ revs'[r].deleting = revs[r].deleting
      BY <2>1, <3>1 DEF Rev
    <3>3. \A q \in Revs : Exists(revs', q) => /\ Exists(revs, q) /\ revs'[q].uid = revs[q].uid
                                              /\ revs'[q].content = revs[q].content
      BY <2>2, <3>2 DEF Exists
    <3>4. \A q \in Revs : Gone(q, revs', made) => Gone(q, revs, made)
      BY <2>2, <3>2 DEF Gone, Exists
    <3>5. /\ Ordered(revs', made, revCache) /\ Resolved(revs', secrets)
          /\ Working(ap, revs', made, revCache, secrets)
      BY <1>0, <3>3, <3>4, LossKeeps
    <3> QED BY <1>0, <2>3, <3>5 DEF Archive, Undisturbed
  <2>4. CASE FinalizeRevision(r)
    <3>1. revs'[r] = NoRev /\ revs[r].deleting BY <1>0, <2>4 DEF FinalizeRevision
    <3>2. ~Exists(revs', r) BY <3>1 DEF Exists, NoRev
    <3>3. \A q \in Revs : Exists(revs', q) => /\ Exists(revs, q) /\ revs'[q].uid = revs[q].uid
                                              /\ revs'[q].content = revs[q].content
      BY <2>2, <3>2 DEF Exists
    <3>4. \A q \in Revs : Gone(q, revs', made) => Gone(q, revs, made)
      BY <2>2, <3>1 DEF Gone, Exists
    <3>5. /\ Ordered(revs', made, revCache) /\ Resolved(revs', secrets)
          /\ Working(ap, revs', made, revCache, secrets)
      BY <1>0, <3>3, <3>4, LossKeeps
    <3> QED BY <1>0, <2>4, <3>5 DEF FinalizeRevision, Undisturbed
  <2> QED BY <1>7, <2>3, <2>4
<1>8. ASSUME NEW r \in Revs, DeleteRevision(r) PROVE FALSE
  <2>1. deletes' = deletes + 1 BY <1>8 DEF DeleteRevision
  <2> QED BY <1>0, <2>1, BoundsAssumption
<1>9. ASSUME NEW s \in Secrets, CollectSecret(s) PROVE Undisturbed'
  <2> DEFINE live == secrets[s].owners \cap {revs[s[1]].uid}
  <2>1. PICK r \in Revs, p \in AllPieces : s = <<r, p>> BY DEF Secrets
  <2>2. secrets[s].owners # live /\ secrets[s].owners \subseteq {1}
    BY <1>0, <1>9 DEF CollectSecret, Owned
  <2>3. secrets[s].owners = {1} /\ revs[r].uid # 1 /\ live = {} BY <2>1, <2>2
  <2>4. made[r] = 1 BY <1>0, <2>1, <2>3 DEF Owned
  <2>5. ~Exists(revs, r) /\ Gone(r, revs, made) BY <1>0, <2>3, <2>4 DEF Ordered, Gone
  <2>6. secrets' = [secrets EXCEPT ![s] = NoSecret] BY <1>9, <2>3 DEF CollectSecret
  <2>7. Owned(secrets', secCache, made)
    <3>1. NoSecret.owners = {} BY DEF NoSecret
    <3>2. \A u \in Secrets : secrets'[u].owners \in {{}, secrets[u].owners} BY <1>0, <2>6, <3>1
    <3> QED BY <1>0, <3>2 DEF Owned
  <2>8. \A q, x : q # r /\ <<q, x>> \in Secrets => secrets'[<<q, x>>] = secrets[<<q, x>>]
    BY <1>0, <2>1, <2>6
  <2>9. Resolved(revs, secrets')
    <3>1. ASSUME NEW q \in Revs, Exists(revs, q), NEW x \in Pieces[revs[q].content]
          PROVE  secrets'[<<q, x>>].exists
      <4>1. q # r BY <2>5, <3>1
      <4>2. x \in AllPieces BY <1>0, Constructors DEF Rev
      <4>3. <<q, x>> \in Secrets BY <4>2 DEF Secrets
      <4> QED BY <1>0, <2>8, <3>1, <4>1, <4>3 DEF Resolved
    <3> QED BY <3>1 DEF Resolved
  <2>10. Working(ap, revs, made, revCache, secrets')
    <3>1. ASSUME ap.pc \in {"secrets", "cos"}, NEW x \in Pieces[ap.want]
          PROVE  secrets'[<<ap.rev, x>>] = secrets[<<ap.rev, x>>]
      <4>1. ap.rev \in Revs /\ ap.rev \in Nat BY <1>0, <3>1 DEF Named, Ap
      <4>2. r < ap.rev - 1 BY <1>0, <2>5, <3>1 DEF Working, Listing, Base
      <4>3. r # ap.rev BY <4>1, <4>2
      <4>4. x \in AllPieces BY <1>0, Constructors DEF Ap
      <4>5. <<ap.rev, x>> \in Secrets BY <4>1, <4>4 DEF Secrets
      <4> QED BY <2>8, <4>3, <4>5
    <3> QED BY <1>0, <3>1 DEF Working
  <2> QED BY <1>0, <1>9, <2>7, <2>9, <2>10 DEF CollectSecret, Undisturbed
<1> QED BY <1>2, <1>3, <1>4, <1>5, <1>6, <1>7, <1>8, <1>9 DEF Environment

\* Retention takes only revisions that are older than the newest in the list.
LEMMA CollectableIsOld ==
    ASSUME NEW C, NEW r \in Collectable(C) PROVE r < Latest(C)
<1> DEFINE newer == {q \in Existing(C) : q > r}
<1>1. r \in Revs /\ Cardinality(newer) >= RetentionLimit BY DEF Collectable, Existing
<1>2. newer # {}
  <2>1. newer = {} => Cardinality(newer) = 0 BY FS_EmptySet
  <2>2. ~(0 >= RetentionLimit) BY LimitAssumption
  <2> QED BY <1>1, <2>1, <2>2
<1>3. PICK q \in Existing(C) : q > r BY <1>2
<1>4. q \in Revs /\ q <= Latest(C) /\ Latest(C) \in 0..(MaxChanges + 1)
  BY <1>3, LatestIs DEF Existing
<1> QED BY <1>1, <1>3, <1>4, Constructors DEF Revs

\* The next revision is made: it has a new number, the one after the newest.
LEMMA CreationKeeps ==
    ASSUME TypeInvariant, Undisturbed, ap.pc = "cos", ~Exists(revs, ap.rev), Created(ap.rev)
    PROVE  /\ ap.rev = Latest(revs) + 1
           /\ Ordered(revs', made', revCache) /\ Owned(secrets, secCache, made')
           /\ Resolved(revs', secrets) /\ made'[ap.rev] = 1
<1> DEFINE n == ap.rev
           new == [NoRev EXCEPT !.uid = made[n] + 1, !.content = ap.want]
<1>0. /\ Ordered(revs, made, revCache) /\ Owned(secrets, secCache, made)
      /\ Resolved(revs, secrets) /\ Working(ap, revs, made, revCache, secrets)
      /\ ap \in Ap /\ revs \in [Revs -> Rev] /\ made \in [Revs -> 0..(MaxDeletes + 1)]
      /\ Named(ap)
  BY DEF Undisturbed, TypeInvariant, TypeOK
<1>1. n \in Revs /\ n \in Nat /\ ap.want \in Contents BY <1>0 DEF Named, Ap
<1>2. /\ n - 1 # 0 => n - 1 \in Revs /\ made[n - 1] = 1
      /\ \A r \in Revs : Gone(r, revs, made) => r < n - 1
      /\ \A p \in Pieces[ap.want] : secrets[<<n, p>>].exists
  BY <1>0 DEF Working, Listing, Base
<1>3. made[n] = 0
  <2>1. ~(n < n - 1) BY <1>1
  <2> QED BY <1>0, <1>1, <1>2, <2>1 DEF Ordered, Gone
<1>4. new.uid = 1 /\ new.content = ap.want /\ new.deleting = FALSE BY <1>3 DEF NoRev
<1>5. revs' = [revs EXCEPT ![n] = new] /\ made' = [made EXCEPT ![n] = 1]
  BY <1>0, <1>1, <1>3 DEF Created
<1> HIDE DEF new
<1>6. /\ revs'[n] = new /\ made'[n] = 1
      /\ \A r \in Revs : r # n => revs'[r] = revs[r] /\ made'[r] = made[r]
  BY <1>0, <1>1, <1>5
<1>7. Exists(revs', n) /\ ~Gone(n, revs', made') BY <1>4, <1>6 DEF Exists, Gone
<1>8. \A r \in Revs : r # n => /\ Exists(revs', r) <=> Exists(revs, r)
                               /\ Gone(r, revs', made') <=> Gone(r, revs, made)
  BY <1>6 DEF Exists, Gone
<1>9. ASSUME NEW r \in Revs, made[r] = 1 PROVE r < n
  <2>1. ~(n < r) BY <1>0, <1>1, <1>3, <1>9 DEF Ordered
  <2> QED BY <1>1, <1>3, <1>9, <2>1, Constructors DEF Revs
<1>10. ASSUME NEW q \in Revs, q < n PROVE made[q] = 1
  <2>1. q \in Nat /\ q >= 1 BY Constructors DEF Revs
  <2>2. n - 1 # 0 /\ (q = n - 1 \/ q < n - 1) BY <1>1, <1>10, <2>1
  <2> QED BY <1>0, <1>2, <2>2 DEF Ordered
<1>11. Ordered(revs', made', revCache)
  <2>1. ASSUME NEW r \in Revs
        PROVE  /\ made'[r] \in {0, 1}
               /\ Exists(revs', r) => made'[r] = 1 /\ revs'[r].uid = 1
               /\ Exists(revCache, r) => made'[r] = 1 /\ revCache[r].uid = 1
               /\ Gone(r, revs', made') => r < Latest(revCache)
    <3>1. CASE r = n BY <1>0, <1>3, <1>4, <1>6, <1>7, <3>1 DEF Ordered
    <3>2. CASE r # n BY <1>0, <1>6, <1>8, <3>2 DEF Ordered
    <3> QED BY <3>1, <3>2
  <2>2. ASSUME NEW r \in Revs, NEW q \in Revs, made'[r] = 1, q < r PROVE made'[q] = 1
    <3>1. CASE q = n BY <1>6, <3>1
    <3>2. CASE q # n /\ r = n BY <1>6, <1>10, <2>2, <3>2
    <3>3. CASE q # n /\ r # n BY <1>0, <1>6, <2>2, <3>3 DEF Ordered
    <3> QED BY <3>1, <3>2, <3>3
  <2> QED BY <2>1, <2>2 DEF Ordered
<1>12. Owned(secrets, secCache, made')
  <2>1. \A s \in Secrets : s[1] \in Revs BY DEF Secrets
  <2>2. \A s \in Secrets : made[s[1]] = 1 => made'[s[1]] = 1 BY <1>6, <2>1
  <2> QED BY <1>0, <2>2 DEF Owned
<1>13. Resolved(revs', secrets)
  <2>1. ASSUME NEW r \in Revs, Exists(revs', r), NEW p \in Pieces[revs'[r].content]
        PROVE  secrets[<<r, p>>].exists
    <3>1. CASE r = n BY <1>2, <1>4, <1>6, <2>1, <3>1
    <3>2. CASE r # n BY <1>0, <1>6, <1>8, <2>1, <3>2 DEF Resolved
    <3> QED BY <3>1, <3>2
  <2> QED BY <2>1 DEF Resolved
<1>14. n = Latest(revs) + 1
  <2>1. Latest(revs) \in 0..(MaxChanges + 1) BY LatestIs
  <2>2. Latest(revs) < n
    <3>1. CASE Latest(revs) = 0 BY <1>1, <3>1, Constructors DEF Revs
    <3>2. CASE Latest(revs) # 0
      <4>1. Latest(revs) \in Revs /\ made[Latest(revs)] = 1 BY <1>0, <3>2, LatestIs DEF Ordered
      <4> QED BY <1>9, <4>1
    <3> QED BY <3>1, <3>2
  <2>3. n - 1 # 0 => n - 1 <= Latest(revs)
    <3>1. ~(n - 1 < n - 1) BY <1>1
    <3>2. n - 1 # 0 => Exists(revs, n - 1) BY <1>2, <3>1 DEF Gone
    <3> QED BY <1>2, <3>2, LatestIs
  <2> QED BY <1>1, <2>1, <2>2, <2>3
<1> QED BY <1>6, <1>11, <1>12, <1>13, <1>14

\* The newest revision of the list is not made again.
LEMMA ComparesWithExisting ==
    ASSUME TypeInvariant, Undisturbed, CompareWithLatest
    PROVE  ap.rev \in Revs /\ Exists(revs, ap.rev) /\ made[ap.rev] = 1 /\ UNCHANGED <<revs, made>>
<1>1. ap.pc = "ssa" /\ ap.rev \in Revs BY DEF CompareWithLatest, TypeInvariant, Named
<1>2. ap.rev \in Nat /\ ap.rev # 0 BY <1>1, Constructors DEF Revs
<1>3. /\ made[ap.rev] = 1
      /\ \A r \in Revs : Gone(r, revs, made) => r < ap.rev
  BY <1>1, <1>2 DEF Undisturbed, Working, Listing, Base
<1>4. ~(ap.rev < ap.rev) BY <1>2
<1>5. Exists(revs, ap.rev) BY <1>1, <1>3, <1>4 DEF Gone
<1> QED BY <1>1, <1>3, <1>5 DEF CompareWithLatest

LEMMA ApplyKeeps ==
    ASSUME TypeInvariant, Undisturbed, Apply PROVE Undisturbed'
<1>0. /\ Ordered(revs, made, revCache) /\ Owned(secrets, secCache, made)
      /\ Resolved(revs, secrets) /\ Working(ap, revs, made, revCache, secrets)
      /\ ap \in Ap /\ revs \in [Revs -> Rev] /\ secrets \in [Secrets -> Secret] /\ Named(ap)
  BY DEF Undisturbed, TypeInvariant, TypeOK
<1>f. Fail => \A R, M, C, S : Working(ap', R, M, C, S) BY IdleWorks DEF Fail
<1>1. CASE Begin
  <2> DEFINE some == Existing(revCache) # {}
             n == Latest(revCache)
             u == IF ~some THEN 0 ELSE revCache[n].uid
             a == [Idle EXCEPT !.pc = IF ~some THEN "gc" ELSE "ssa", !.want = desired,
                               !.rev = n, !.uid = u, !.gc = Collectable(revCache)]
  <2>1. n \in 0..(MaxChanges + 1) /\ (n # 0 <=> some) /\ (n # 0 => n \in Revs /\ Exists(revCache, n))
    BY LatestIs
  <2>2. n # 0 => made[n] = 1 /\ revCache[n].uid = 1 BY <1>0, <2>1 DEF Ordered
  <2>3. \A r \in Revs : Gone(r, revs, made) => r < n BY <1>0 DEF Ordered
  <2>4. \A r \in Collectable(revCache) : r < n BY CollectableIsOld
  <2>5. some => u = 1 BY <2>1, <2>2
  <2>6. n <= n BY <2>1
  <2> HIDE DEF n, u, some
  <2>7. /\ a.pc = (IF ~some THEN "gc" ELSE "ssa") /\ a.rev = n /\ a.uid = u
        /\ a.gc = Collectable(revCache)
    BY IdleIsNamed DEF Ap
  <2>8. ap' = a BY <1>1, Zenon DEF Begin, n, u, some
  <2> HIDE DEF a
  <2>9. Base(a) = n /\ a.pc \in {"ssa", "gc"} BY <2>7 DEF Base
  <2>10. n <= Latest(revCache) BY <2>6 DEF n
  <2>11. Working(a, revs, made, revCache, secrets)
    BY <2>1, <2>2, <2>3, <2>4, <2>5, <2>7, <2>9, <2>10 DEF Working
  <2> QED BY <1>0, <1>1, <2>8, <2>11 DEF Begin, Undisturbed
<1>2. CASE BeginWithoutContent BY <1>0, <1>2 DEF BeginWithoutContent, Undisturbed
<1>3. CASE CompareWithLatest
  <2>1. ap.rev \in Revs /\ made[ap.rev] = 1 /\ UNCHANGED <<revs, made>>
    BY <1>3, ComparesWithExisting
  <2>2. ap.pc = "ssa" /\ ap.uid = 1 BY <1>0, <1>3 DEF CompareWithLatest, Working
  <2>3. \A t \in Unowned(ap.rev, ap.uid) : t.owners \subseteq {1}
    <3>1. \A x \in AllPieces : secCache[<<ap.rev, x>>].owners \subseteq {1}
      BY <1>0, <2>1 DEF Owned, Secrets
    <3>2. \A x \in AllPieces :
            [piece |-> x, owners |-> secCache[<<ap.rev, x>>].owners].owners \subseteq {1}
      BY <3>1
    <3> QED BY <3>2, Zenon DEF Unowned
  <2>4. CASE PatchNext(ap.uid, Unowned(ap.rev, ap.uid))
    <3>1. Working(ap', revs, made, revCache, secrets) BY <2>1, <2>2, <2>3, <2>4, PatchNextWorks
    <3> QED BY <1>0, <1>3, <2>1, <3>1 DEF CompareWithLatest, Undisturbed
  <2>5. CASE ap' = [ap EXCEPT !.pc = "gc"]
    <3>1. /\ ap'.pc = "gc" /\ ap'.rev = ap.rev /\ ap'.gc = ap.gc
      BY <1>0, <2>5 DEF Ap
    <3>2. Working(ap', revs, made, revCache, secrets)
      BY <1>0, <2>2, <3>1 DEF Working, Listing, Base
    <3> QED BY <1>0, <1>3, <2>1, <3>2 DEF CompareWithLatest, Undisturbed
  <2>6. CASE Fail BY <1>0, <1>f, <1>3, <2>1, <2>6 DEF CompareWithLatest, Undisturbed
  <2> QED BY <1>3, <2>4, <2>5, <2>6 DEF CompareWithLatest
<1>4. CASE CollectOldRevision
  <2> DEFINE r == Min(ap.gc)
  <2>1. ap.pc = "gc" /\ UNCHANGED <<made, secrets, revCache, secCache>>
    BY <1>4 DEF CollectOldRevision
  <2>2. r \in ap.gc /\ r \in Revs
    <3>1. ap.gc \in SUBSET Revs /\ ap.gc # {} BY <1>0, <1>4 DEF Ap, CollectOldRevision
    <3>2. ap.gc \in SUBSET Nat BY <3>1, Constructors DEF Revs
    <3> QED BY <3>1, <3>2, MinIn
  <2>3. r < ap.rev /\ ap.rev <= Latest(revCache) /\ Base(ap) = ap.rev
    BY <1>0, <2>1, <2>2 DEF Working, Listing, Base
  <2>4. r < Latest(revCache)
    <3>1. r \in Nat /\ ap.rev \in Nat /\ Latest(revCache) \in Nat
      BY <1>0, <2>2, LatestIs, Constructors DEF Revs, Ap
    <3> QED BY <2>3, <3>1
  <2>5. CASE Fail /\ UNCHANGED revs BY <1>0, <1>f, <2>1, <2>5 DEF Undisturbed
  <2>6. CASE /\ revs' = [revs EXCEPT ![r].deleting = Exists(revs, r)]
             /\ ap' = [ap EXCEPT !.gc = ap.gc \ {r}]
    <3>1. revs[r] \in Rev BY <1>0, <2>2
    <3>2. /\ \A q \in Revs : q # r => revs'[q] = revs[q]
          /\ revs'[r] = [revs[r] EXCEPT !.deleting = Exists(revs, r)]
      BY <1>0, <2>2, <2>6
    <3> HIDE DEF r
    <3>3. revs'[r].uid = revs[r].uid /\ revs'[r].content = revs[r].content
      BY <3>1, <3>2 DEF Rev
    <3>4. \A q \in Revs : Exists(revs', q) => /\ Exists(revs, q) /\ revs'[q].uid = revs[q].uid
                                              /\ revs'[q].content = revs[q].content
      BY <3>2, <3>3, Zenon DEF Exists
    <3>5. \A q \in Revs : Gone(q, revs', made) =>
            Gone(q, revs, made) \/ (q < Latest(revCache) /\ (Listing(ap) => q < Base(ap)))
      BY <2>3, <2>4, <3>2 DEF Gone, Exists
    <3>6. /\ Ordered(revs', made, revCache) /\ Resolved(revs', secrets)
          /\ Working(ap, revs', made, revCache, secrets)
      BY <1>0, <3>4, <3>5, LossKeeps
    <3>7. ap'.pc = "gc" /\ ap'.rev = ap.rev /\ ap'.gc = ap.gc \ {r} BY <1>0, <2>1, <2>6 DEF Ap
    <3>8. Working(ap', revs', made, revCache, secrets)
      BY <2>1, <3>6, <3>7 DEF Working, Listing, Base
    <3> QED BY <1>0, <2>1, <3>6, <3>8 DEF Undisturbed
  <2> QED BY <1>4, <2>5, <2>6 DEF CollectOldRevision
<1>5. CASE PackSecrets
  <2>1. CASE Fail BY <1>0, <1>f, <1>5, <2>1 DEF PackSecrets, Undisturbed
  <2>2. CASE ap' = [ap EXCEPT !.pc = "secrets", !.rev = ap.rev + 1, !.uid = 0,
                              !.create = Pieces[ap.want]]
    <3>1. /\ ap'.pc = "secrets" /\ ap'.rev = ap.rev + 1 /\ ap'.create = Pieces[ap.want]
          /\ ap'.want = ap.want
      BY <1>0, <2>2 DEF Ap
    <3>2. ap.pc = "gc" /\ ap.rev \in Nat BY <1>0, <1>5 DEF PackSecrets, Ap
    <3>3. Base(ap') = ap.rev /\ Base(ap) = ap.rev BY <3>1, <3>2 DEF Base
    <3>4. Working(ap', revs, made, revCache, secrets)
      BY <1>0, <3>1, <3>2, <3>3 DEF Working, Listing
    <3> QED BY <1>0, <1>5, <3>4 DEF PackSecrets, Undisturbed
  <2> QED BY <1>5, <2>1, <2>2 DEF PackSecrets
<1>6. ASSUME NEW x \in AllPieces, CreateSecret(x) PROVE Undisturbed'
  <2> DEFINE s == <<ap.rev, x>>
  <2>1. ap.pc = "secrets" /\ ap.rev \in Revs /\ s \in Secrets
    BY <1>0, <1>6 DEF CreateSecret, Named, Secrets
  <2>2. CASE Fail /\ UNCHANGED secrets BY <1>0, <1>f, <1>6, <2>2 DEF CreateSecret, Undisturbed
  <2>3. CASE /\ secrets' = [secrets EXCEPT ![s].exists = TRUE]
             /\ ap' = [ap EXCEPT !.create = ap.create \ {x},
                                 !.pc = IF ap.create = {x} THEN "cos" ELSE ap.pc]
    <3>1. secrets'[s] = [secrets[s] EXCEPT !.exists = TRUE] BY <1>0, <2>1, <2>3
    <3>2. secrets'[s].exists = TRUE /\ secrets'[s].owners = secrets[s].owners
      BY <1>0, <2>1, <3>1 DEF Secret
    <3>3. \A u : u # s => secrets'[u] = secrets[u]
      <4>1. \A u \in Secrets : u # s => secrets'[u] = secrets[u] BY <1>0, <2>3
      <4>2. DOMAIN secrets = Secrets /\ DOMAIN secrets' = Secrets BY <1>0, <2>3
      <4> QED BY <2>3, <4>1, <4>2
    <3>4. Owned(secrets', secCache, made) BY <1>0, <3>2, <3>3 DEF Owned
    <3>5. \A r \in Revs : \A y : secrets[<<r, y>>].exists => secrets'[<<r, y>>].exists
      BY <3>2, <3>3
    <3>6. Resolved(revs, secrets') /\ Working(ap, revs, made, revCache, secrets')
      BY <1>0, <2>1, <3>5, SecretsGrow
    <3>7. /\ ap'.pc = (IF ap.create = {x} THEN "cos" ELSE "secrets") /\ ap'.rev = ap.rev
          /\ ap'.create = ap.create \ {x} /\ ap'.want = ap.want
      BY <1>0, <2>1, <2>3 DEF Ap
    <3>8. \A y \in Pieces[ap.want] :
            (ap'.pc = "secrets" /\ y \in ap'.create) \/ secrets'[<<ap.rev, y>>].exists
      BY <2>1, <3>2, <3>6, <3>7 DEF Working
    <3>9. Listing(ap) /\ Listing(ap') /\ Base(ap') = Base(ap) BY <2>1, <3>7 DEF Listing, Base
    <3>10. ap'.pc \in {"secrets", "cos"} BY <3>7
    <3>11. Working(ap', revs, made, revCache, secrets')
      BY <3>6, <3>7, <3>8, <3>9, <3>10 DEF Working
    <3> QED BY <1>0, <1>6, <3>4, <3>6, <3>11 DEF CreateSecret, Undisturbed
  <2> QED BY <1>6, <2>1, <2>2, <2>3 DEF CreateSecret
<1>7. CASE CreateRevision
  <2>1. ap.pc = "cos" /\ ap.rev \in Revs BY <1>0, <1>7 DEF CreateRevision, Named
  <2>2. CASE Fail /\ UNCHANGED <<revs, made>>
    BY <1>0, <1>f, <1>7, <2>2 DEF CreateRevision, Undisturbed
  <2>3. ASSUME made'[ap.rev] = 1, ap' = [ap EXCEPT !.pc = "uid"]
        PROVE  Working(ap', revs', made', revCache, secrets)
    <3>1. ap'.pc = "uid" /\ ap'.rev = ap.rev BY <1>0, <2>3 DEF Ap
    <3> QED BY <2>3, <3>1 DEF Working, Listing
  <2>4. CASE Matches(ap.rev) /\ UNCHANGED <<revs, made>> /\ ap' = [ap EXCEPT !.pc = "uid"]
    <3>1. made[ap.rev] = 1 BY <1>0, <2>1, <2>4 DEF Matches, Ordered
    <3> QED BY <1>0, <1>7, <2>3, <2>4, <3>1 DEF CreateRevision, Undisturbed
  <2>5. CASE ~Exists(revs, ap.rev) /\ Created(ap.rev) /\ ap' = [ap EXCEPT !.pc = "uid"]
    <3>1. /\ Ordered(revs', made', revCache) /\ Owned(secrets, secCache, made')
          /\ Resolved(revs', secrets) /\ made'[ap.rev] = 1
      BY <2>1, <2>5, CreationKeeps
    <3> QED BY <1>7, <2>3, <2>5, <3>1 DEF CreateRevision, Undisturbed
  <2> QED BY <1>7, <2>2, <2>4, <2>5 DEF CreateRevision
<1>8. CASE GetRevisionUid
  <2> DEFINE P == {[piece |-> x, owners |-> {}] : x \in Pieces[ap.want]}
  <2>1. ap.rev \in Revs /\ made[ap.rev] = 1 BY <1>0, <1>8 DEF GetRevisionUid, Named, Working
  <2>2. \A t \in P : t.owners \subseteq {1} OBVIOUS
  <2> HIDE DEF P
  <2>3. CASE Fail BY <1>0, <1>f, <1>8, <2>3 DEF GetRevisionUid, Undisturbed
  <2>4. CASE Exists(revCache, ap.rev) /\ PatchNext(revCache[ap.rev].uid, P)
    <3>1. revCache[ap.rev].uid = 1 BY <1>0, <2>1, <2>4 DEF Ordered
    <3>2. Working(ap', revs, made, revCache, secrets) BY <2>1, <2>2, <2>4, <3>1, PatchNextWorks
    <3> QED BY <1>0, <1>8, <3>2 DEF GetRevisionUid, Undisturbed
  <2> QED BY <1>8, <2>3, <2>4 DEF GetRevisionUid, P
<1>9. ASSUME NEW t \in ap.patch, PatchOwner(t) PROVE Undisturbed'
  <2> DEFINE s == <<ap.rev, t.piece>>
  <2>1. /\ ap.pc = "owners" /\ ap.rev \in Revs /\ made[ap.rev] = 1 /\ ap.uid = 1
        /\ \A w \in ap.patch : w.owners \subseteq {1}
    BY <1>0, <1>9 DEF PatchOwner, Named, Working
  <2>2. t.piece \in AllPieces BY <1>0 DEF Ap, Patches
  <2>3. s \in Secrets /\ s[1] = ap.rev BY <2>1, <2>2 DEF Secrets
  <2>4. CASE Fail /\ UNCHANGED secrets BY <1>0, <1>f, <1>9, <2>4 DEF PatchOwner, Undisturbed
  <2>5. CASE /\ secrets' = [secrets EXCEPT ![s].owners = t.owners \cup {ap.uid}]
             /\ PatchNext(ap.uid, ap.patch \ {t})
    <3>1. secrets'[s] = [secrets[s] EXCEPT !.owners = t.owners \cup {ap.uid}] BY <1>0, <2>3, <2>5
    <3>2. secrets'[s].exists = secrets[s].exists /\ secrets'[s].owners = t.owners \cup {1}
      BY <1>0, <2>1, <2>3, <3>1 DEF Secret
    <3>3. \A u : u # s => secrets'[u] = secrets[u]
      <4>1. \A u \in Secrets : u # s => secrets'[u] = secrets[u] BY <1>0, <2>5
      <4>2. DOMAIN secrets = Secrets /\ DOMAIN secrets' = Secrets BY <1>0, <2>5
      <4> QED BY <2>5, <4>1, <4>2
    <3>4. Owned(secrets', secCache, made)
      BY <1>0, <2>1, <2>3, <3>2, <3>3 DEF Owned
    <3>5. \A r \in Revs : \A y : secrets[<<r, y>>].exists => secrets'[<<r, y>>].exists
      BY <3>2, <3>3
    <3>6. Resolved(revs, secrets') BY <1>0, <3>5 DEF Resolved
    <3>7. Working(ap', revs, made, revCache, secrets') BY <2>1, <2>5, PatchNextWorks
    <3> QED BY <1>0, <1>9, <3>4, <3>6, <3>7 DEF PatchOwner, Undisturbed
  <2> QED BY <1>9, <2>4, <2>5 DEF PatchOwner
<1> QED BY <1>1, <1>2, <1>3, <1>4, <1>5, <1>6, <1>7, <1>8, <1>9 DEF Apply

(***************************************************************************)
(* The theorems                                                            *)
(***************************************************************************)

LEMMA InitApplier == Init => ApplierInvariant
<1> SUFFICES ASSUME Init PROVE ApplierInvariant OBVIOUS
<1>1. /\ revs = [r \in Revs |-> NoRev] /\ made = [r \in Revs |-> 0]
      /\ secrets = [s \in Secrets |-> NoSecret] /\ revCache = revs /\ secCache = secrets
      /\ ap = Idle
  BY DEF Init
<1>2. NoRev.uid = 0 /\ NoSecret.owners = {} BY DEF NoRev, NoSecret
<1>3. \A r \in Revs : ~Exists(revs, r) /\ ~Gone(r, revs, made) /\ made[r] = 0
  BY <1>1, <1>2 DEF Exists, Gone
<1>4. Ordered(revs, made, revCache) BY <1>1, <1>3 DEF Ordered
<1>5. Owned(secrets, secCache, made) BY <1>1, <1>2 DEF Owned
<1>6. Resolved(revs, secrets) BY <1>3 DEF Resolved
<1> QED BY <1>1, <1>4, <1>5, <1>6, InitTypes, IdleWorks DEF ApplierInvariant, Undisturbed

\* What somebody else deleted stays counted.
LEMMA DeletesStay == TypeInvariant /\ [Next]_vars /\ deletes' = 0 => deletes = 0
<1> SUFFICES ASSUME TypeInvariant, [Next]_vars, deletes' = 0 PROVE deletes = 0 OBVIOUS
<1>1. deletes \in Nat BY BoundsAssumption DEF TypeInvariant, TypeOK
<1>2. CASE \E r \in Revs : DeleteRevision(r)
  <2>1. deletes' = deletes + 1 BY <1>2 DEF DeleteRevision
  <2> QED BY <1>1, <2>1
<1>3. CASE Apply
  BY <1>3, Zenon DEF Apply, Begin, BeginWithoutContent, CompareWithLatest, CollectOldRevision, PackSecrets,
              CreateSecret, CreateRevision, GetRevisionUid, PatchOwner, bounds
<1>4. CASE Environment /\ ~\E r \in Revs : DeleteRevision(r)
  BY <1>4 DEF Environment, RevSync, SecSync, Resync, Crash, ChangeDesired, Archive,
              FinalizeRevision, CollectSecret, bounds
<1>5. CASE UNCHANGED vars BY <1>5 DEF vars
<1> QED BY <1>2, <1>3, <1>4, <1>5 DEF Next

LEMMA StepApplier == ApplierInvariant /\ [Next]_vars => ApplierInvariant'
<1> SUFFICES ASSUME ApplierInvariant, [Next]_vars PROVE ApplierInvariant' OBVIOUS
<1>1. TypeInvariant /\ TypeInvariant' BY TypesStay DEF ApplierInvariant
<1>2. ASSUME deletes' = 0 PROVE Undisturbed'
  <2>1. Undisturbed BY <1>1, <1>2, DeletesStay DEF ApplierInvariant
  <2> QED BY <1>1, <1>2, <2>1, ApplyKeeps, EnvironmentKeeps DEF Next
<1> QED BY <1>1, <1>2 DEF ApplierInvariant

\* The inductive invariant holds throughout.
THEOREM ApplierCorrect == Spec => []ApplierInvariant
BY InitApplier, StepApplier, PTL DEF Spec

\* Every Secret a revision refers to exists as long as the revision does, unless
\* somebody else deletes revisions (createExternalizedRevision).
THEOREM RefsAlwaysResolve == Spec => []RefsResolve
<1>1. ApplierInvariant => RefsResolve
  BY Zenon DEF ApplierInvariant, Undisturbed, Resolved, RefsResolve, Existing
<1> QED BY <1>1, ApplierCorrect, PTL

\* A new revision is numbered one above the newest existing one, however stale the
\* list is its number was computed from (latestRevisionNumber + 1).
THEOREM NumbersFollow == Spec => NumberedFromLatest
<1> DEFINE A == \A r \in Revs : deletes = 0 /\ ~Exists(revs, r) /\ Exists(revs', r)
                                  => r = Latest(revs) + 1
<1>1. ApplierInvariant /\ [Next]_vars => [A]_vars
  <2> SUFFICES ASSUME ApplierInvariant, [Next]_vars, NEW r \in Revs, deletes = 0,
                      ~Exists(revs, r), Exists(revs', r)
               PROVE  r = Latest(revs) + 1
    OBVIOUS
  <2>1. /\ TypeInvariant /\ Undisturbed /\ revs \in [Revs -> Rev]
    BY DEF ApplierInvariant, TypeInvariant, TypeOK
  <2>2. revs' # revs BY DEF Exists
  <2>3. CASE CreateRevision
    <3>1. ap.pc = "cos" /\ ~Exists(revs, ap.rev) /\ Created(ap.rev)
      BY <2>2, <2>3 DEF CreateRevision
    <3>2. ap.rev \in Revs BY <2>1, <3>1 DEF TypeInvariant, Named
    <3>3. r = ap.rev BY <2>1, <3>1, <3>2 DEF Created, Exists
    <3> QED BY <2>1, <3>1, <3>3, CreationKeeps
  <2>4. CASE CompareWithLatest BY <2>1, <2>2, <2>4, ComparesWithExisting
  <2>5. CASE CollectOldRevision
    <3>1. PICK q, d : revs' = [revs EXCEPT ![q].deleting = d] BY <2>2, <2>5, Zenon DEF CollectOldRevision
    <3>2. revs'[r].uid = revs[r].uid BY <2>1, <3>1 DEF Rev
    <3> QED BY <3>2 DEF Exists
  <2>6. ASSUME NEW q \in Revs, Archive(q) \/ DeleteRevision(q) PROVE FALSE
    <3>1. revs'[r].uid = revs[r].uid BY <2>1, <2>6 DEF Archive, DeleteRevision, Rev
    <3> QED BY <3>1 DEF Exists
  <2>7. ASSUME NEW q \in Revs, FinalizeRevision(q) PROVE FALSE
    <3>1. revs'[r].uid \in {revs[r].uid, 0}
      BY <2>1, <2>7 DEF FinalizeRevision, NoRev
    <3> QED BY <3>1 DEF Exists
  <2>8. CASE Begin \/ BeginWithoutContent \/ PackSecrets \/ GetRevisionUid
    BY <2>2, <2>8 DEF Begin, BeginWithoutContent, PackSecrets, GetRevisionUid
  <2>9. CASE (\E x \in AllPieces : CreateSecret(x)) \/ (\E t \in ap.patch : PatchOwner(t))
    BY <2>2, <2>9, Zenon DEF CreateSecret, PatchOwner
  <2>10. CASE RevSync \/ SecSync \/ Resync \/ Crash \/ \E c \in Contents : ChangeDesired(c)
    BY <2>2, <2>10 DEF RevSync, SecSync, Resync, Crash, ChangeDesired
  <2>11. CASE \E s \in Secrets : CollectSecret(s) BY <2>2, <2>11 DEF CollectSecret
  <2>12. CASE UNCHANGED vars BY <2>2, <2>12 DEF vars
  <2> QED BY <2>3, <2>4, <2>5, <2>6, <2>7, <2>8, <2>9, <2>10, <2>11, <2>12
          DEF Next, Apply, Environment
<1> QED BY <1>1, ApplierCorrect, PTL DEF Spec, NumberedFromLatest

(***************************************************************************)
(* Retention                                                               *)
(***************************************************************************)

\* The revisions above r that are not on their way out, and whether they are enough.
Live(R, r) == {q \in Existing(R) : q > r /\ ~R[q].deleting}
Enough(R, r) == Cardinality(Live(R, r)) >= RetentionLimit
\* Revision r is archived, or was collected already.
Retired(r, R, M) == Gone(r, R, M) \/ (Exists(R, r) /\ R[r].archived)

\* Above every revision that is gone, or listed in G to be collected, there are enough;
\* what is listed or cached as archived is retired.
Retained(R, M, C, G) ==
    \A r \in Revs : /\ Gone(r, R, M) \/ r \in G => Enough(R, r)
                    /\ r \in G \/ (Exists(C, r) /\ C[r].archived) => Retired(r, R, M)

LEMMA EnoughMore ==
    ASSUME NEW R, NEW Q, NEW r, NEW q, Live(R, r) \subseteq Live(Q, q), Enough(R, r)
    PROVE  Enough(Q, q)
<1>1. IsFiniteSet(Revs) BY Constructors, FS_Interval DEF Revs
<1>2. Live(Q, q) \subseteq Revs /\ Live(R, r) \subseteq Revs BY DEF Live, Existing
<1>3. IsFiniteSet(Live(Q, q)) /\ IsFiniteSet(Live(R, r)) BY <1>1, <1>2, FS_Subset
<1>4. /\ Cardinality(Live(R, r)) <= Cardinality(Live(Q, q))
      /\ Cardinality(Live(R, r)) \in Nat /\ Cardinality(Live(Q, q)) \in Nat
  BY <1>3, FS_Subset, FS_CardinalityType
<1>5. \A i, j, k \in Nat : i >= k /\ i <= j => j >= k OBVIOUS
<1> QED BY <1>4, <1>5, LimitAssumption DEF Enough

\* Older revisions have at least what a newer one has above it.
LEMMA EnoughBelow ==
    ASSUME NEW R, NEW r \in Revs, NEW q \in Revs, r < q, Enough(R, q) PROVE Enough(R, r)
<1>1. Live(R, q) \subseteq Live(R, r) BY Constructors DEF Live, Existing, Revs
<1> QED BY <1>1, EnoughMore

\* What the stale list shows to be collectable is: the newer revisions it counted are
\* there, or enough newer ones came after one of them went.
LEMMA CollectableRetained ==
    ASSUME NEW R, NEW M, NEW C, NEW G, Ordered(R, M, C), Retained(R, M, C, G)
    PROVE  Retained(R, M, C, Collectable(C))
<1> SUFFICES ASSUME NEW r \in Revs, r \in Collectable(C)
             PROVE  Enough(R, r) /\ Retired(r, R, M)
  BY DEF Retained
<1> DEFINE W == {q \in Existing(C) : q > r}
<1>1. Exists(C, r) /\ C[r].archived /\ Cardinality(W) >= RetentionLimit
  BY DEF Collectable, Existing
<1>2. Retired(r, R, M) BY <1>1 DEF Retained
<1>3. CASE \E q \in W : Gone(q, R, M)
  <2>1. PICK q \in W : Gone(q, R, M) BY <1>3
  <2>2. q \in Revs /\ r < q BY Constructors DEF Existing, Revs
  <2>3. Enough(R, q) BY <2>1, <2>2 DEF Retained
  <2> QED BY <1>2, <2>2, <2>3, EnoughBelow
<1>4. CASE \A q \in W : ~Gone(q, R, M)
  <2>1. W \subseteq Live(R, r) BY <1>4 DEF Live, Existing, Ordered, Gone
  <2>2. IsFiniteSet(Live(R, r))
    <3>1. IsFiniteSet(Revs) BY Constructors, FS_Interval DEF Revs
    <3>2. Live(R, r) \subseteq Revs BY DEF Live, Existing
    <3> QED BY <3>1, <3>2, FS_Subset
  <2> HIDE DEF W
  <2>3. /\ Cardinality(W) <= Cardinality(Live(R, r))
        /\ Cardinality(W) \in Nat /\ Cardinality(Live(R, r)) \in Nat
    BY <2>1, <2>2, FS_Subset, FS_CardinalityType
  <2>4. \A i, j, k \in Nat : i >= k /\ i <= j => j >= k OBVIOUS
  <2> QED BY <1>1, <1>2, <2>3, <2>4, LimitAssumption DEF Enough
<1> QED BY <1>3, <1>4

\* A revision from the list is marked for deletion.
LEMMA CollectionRetained ==
    ASSUME NEW R \in [Revs -> Rev], NEW Q, NEW M, NEW C, NEW G, NEW g \in G, g \in Revs,
           Retained(R, M, C, G), Q = [R EXCEPT ![g].deleting = Exists(R, g)]
    PROVE  Retained(Q, M, C, G)
<1>1. /\ Q[g].uid = R[g].uid /\ Q[g].archived = R[g].archived
      /\ \A r \in Revs : r # g => Q[r] = R[r]
  BY DEF Rev
<1>6. Exists(R, g) => Q[g].deleting
  <2>1. Exists(R, g) \in BOOLEAN BY DEF Exists
  <2>2. Q[g].deleting = Exists(R, g) BY DEF Rev
  <2> QED BY <2>2
<1>2. \A r \in Revs : Exists(Q, r) <=> Exists(R, r) BY <1>1 DEF Exists
<1>3. ASSUME NEW r \in Revs, Enough(R, r) PROVE Enough(Q, r)
  <2>1. CASE r < g
    <3>1. Enough(R, g) BY DEF Retained
    <3>2. ASSUME NEW q \in Live(R, g) PROVE q \in Live(Q, r)
      <4>1. q \in Revs /\ Exists(R, q) /\ q > g /\ ~R[q].deleting BY DEF Live, Existing
      <4>2. q # g /\ q > r BY <2>1, <4>1, Constructors DEF Revs
      <4>3. Q[q] = R[q] BY <1>1, <4>1, <4>2
      <4> QED BY <1>2, <4>1, <4>2, <4>3 DEF Live, Existing
    <3> QED BY <3>1, <3>2, EnoughMore
  <2>2. CASE ~(r < g)
    <3>1. Live(R, r) \subseteq Live(Q, r)
      BY <1>1, <1>2, <2>2, Constructors DEF Live, Existing, Revs
    <3> QED BY <1>3, <3>1, EnoughMore
  <2> QED BY <2>1, <2>2
<1>4. ASSUME NEW r \in Revs, Gone(r, Q, M) PROVE Gone(r, R, M) \/ r \in G
  BY <1>1, <1>2, <1>4 DEF Gone
<1>5. ASSUME NEW r \in Revs, Retired(r, R, M) PROVE Retired(r, Q, M)
  <2>1. CASE r # g BY <1>1, <1>2, <1>5, <2>1 DEF Retired, Gone
  <2>2. CASE r = g
    <3>1. CASE Exists(R, g) BY <1>1, <1>2, <1>5, <1>6, <2>2, <3>1, Zenon DEF Retired, Gone
    <3>2. CASE ~Exists(R, g) BY <1>2, <1>5, <2>2, <3>2 DEF Retired, Gone
    <3> QED BY <3>1, <3>2
  <2> QED BY <2>1, <2>2
<1> QED BY <1>3, <1>4, <1>5 DEF Retained

\* A revision is archived; or one on its way out goes.
LEMMA LossRetained ==
    ASSUME NEW R, NEW Q, NEW M, NEW C, NEW G, Retained(R, M, C, G),
           \A r \in Revs : Exists(R, r) => M[r] # 0,
           \A r \in Revs : Gone(r, Q, M) <=> Gone(r, R, M),
           \A r \in Revs : Exists(R, r) /\ ~R[r].deleting =>
             Exists(Q, r) /\ ~Q[r].deleting /\ (R[r].archived => Q[r].archived)
    PROVE  Retained(Q, M, C, G)
<1>1. ASSUME NEW r \in Revs, Enough(R, r) PROVE Enough(Q, r)
  <2>1. Live(R, r) \subseteq Live(Q, r) BY DEF Live, Existing
  <2> QED BY <1>1, <2>1, EnoughMore
<1>2. ASSUME NEW r \in Revs, Retired(r, R, M) PROVE Retired(r, Q, M)
  BY <1>2, Zenon DEF Retired, Gone
<1> QED BY <1>1, <1>2 DEF Retained

\* A revision is made under a number that was never used.
LEMMA CreationRetained ==
    ASSUME NEW R, NEW Q, NEW M, NEW L, NEW C, NEW G, NEW n \in Revs, Retained(R, M, C, G),
           ~Exists(R, n), M[n] = 0, ~Exists(C, n), Exists(Q, n), ~Q[n].deleting,
           \A r \in Revs : r # n => Q[r] = R[r] /\ L[r] = M[r]
    PROVE  Retained(Q, L, C, G)
<1>1. ASSUME NEW r \in Revs, r # n
      PROVE  /\ Exists(Q, r) <=> Exists(R, r)
             /\ Gone(r, Q, L) <=> Gone(r, R, M)
             /\ Retired(r, Q, L) <=> Retired(r, R, M)
  BY <1>1 DEF Exists, Gone, Retired
<1>2. ~Gone(n, Q, L) /\ ~Retired(n, R, M) BY DEF Gone, Retired
<1>3. ASSUME NEW r \in Revs, Enough(R, r) PROVE Enough(Q, r)
  <2>1. Live(R, r) \subseteq Live(Q, r) BY <1>1 DEF Live, Existing
  <2> QED BY <1>3, <2>1, EnoughMore
<1>4. n \notin G BY <1>2 DEF Retained
<1>5. ASSUME NEW r \in Revs
      PROVE  /\ Gone(r, Q, L) \/ r \in G => Enough(Q, r)
             /\ r \in G \/ (Exists(C, r) /\ C[r].archived) => Retired(r, Q, L)
  <2>1. CASE r = n BY <1>2, <1>4, <2>1
  <2>2. CASE r # n BY <1>1, <1>3, <2>2 DEF Retained
  <2> QED BY <2>1, <2>2
<1> QED BY <1>5 DEF Retained

\* With fewer to collect, or none, and with a cache that caught up.
LEMMA FewerRetained ==
    ASSUME NEW R, NEW M, NEW C, NEW G, Retained(R, M, C, G)
    PROVE  /\ \A H : H \subseteq G => Retained(R, M, C, H) /\ Retained(R, M, R, H)
           /\ Retained(R, M, C, Idle.gc) /\ Retained(R, M, R, Idle.gc)
<1>1. \A H : H \subseteq G => Retained(R, M, C, H) /\ Retained(R, M, R, H)
  BY DEF Retained, Retired
<1>2. Idle.gc = {} BY DEF Idle
<1> QED BY <1>1, <1>2

\* The inductive invariant.
RetentionInvariant == deletes = 0 => Retained(revs, made, revCache, ap.gc)

\* A step of Apply that writes no revision works on a list no longer than before.
LEMMA ListShrinks ==
    ASSUME TypeInvariant, Apply, ~Begin
    PROVE  ap'.gc = Idle.gc \/ ap'.gc \subseteq ap.gc
<1>1. ap \in Ap BY DEF TypeInvariant, TypeOK
<1>2. CASE Done \/ Fail BY <1>2 DEF Done, Fail
<1>3. ASSUME NEW uid, NEW patch, PatchNext(uid, patch) PROVE ap'.gc = Idle.gc \/ ap'.gc \subseteq ap.gc
  <2>1. ASSUME ap' = [ap EXCEPT !.pc = "owners", !.uid = uid, !.patch = patch]
        PROVE  ap'.gc = ap.gc
    BY <1>1, <2>1 DEF Ap
  <2> QED BY <1>2, <1>3, <2>1, Zenon DEF PatchNext
<1>4. CASE BeginWithoutContent BY <1>4 DEF BeginWithoutContent
<1>5. CASE CompareWithLatest
  <2>1. ASSUME ap' = [ap EXCEPT !.pc = "gc"] PROVE ap'.gc = ap.gc BY <1>1, <2>1 DEF Ap
  <2> QED BY <1>2, <1>3, <1>5, <2>1, Zenon DEF CompareWithLatest
<1>6. CASE CollectOldRevision
  <2>1. ASSUME NEW r, ap' = [ap EXCEPT !.gc = @ \ {r}] PROVE ap'.gc \subseteq ap.gc
    BY <1>1, <2>1 DEF Ap
  <2> QED BY <1>2, <1>6, <2>1, Zenon DEF CollectOldRevision
<1>7. CASE PackSecrets
  <2>1. ASSUME ap' = [ap EXCEPT !.pc = "secrets", !.rev = @ + 1, !.uid = 0,
                                !.create = Pieces[ap.want]]
        PROVE  ap'.gc = ap.gc
    BY <1>1, <2>1 DEF Ap
  <2> QED BY <1>2, <1>7, <2>1, Zenon DEF PackSecrets
<1>8. ASSUME NEW p \in AllPieces, CreateSecret(p)
      PROVE  ap'.gc = Idle.gc \/ ap'.gc \subseteq ap.gc
  <2>1. ASSUME ap' = [ap EXCEPT !.create = @ \ {p},
                                !.pc = IF ap.create = {p} THEN "cos" ELSE @]
        PROVE  ap'.gc = ap.gc
    BY <1>1, <2>1 DEF Ap
  <2> QED BY <1>2, <1>8, <2>1, Zenon DEF CreateSecret
<1>9. CASE CreateRevision
  <2>1. ASSUME ap' = [ap EXCEPT !.pc = "uid"] PROVE ap'.gc = ap.gc BY <1>1, <2>1 DEF Ap
  <2> QED BY <1>2, <1>9, <2>1, Zenon DEF CreateRevision
<1>10. CASE GetRevisionUid BY <1>2, <1>3, <1>10, Zenon DEF GetRevisionUid
<1>11. ASSUME NEW t \in ap.patch, PatchOwner(t)
       PROVE  ap'.gc = Idle.gc \/ ap'.gc \subseteq ap.gc
  BY <1>2, <1>3, <1>11, Zenon DEF PatchOwner
<1> QED BY <1>4, <1>5, <1>6, <1>7, <1>8, <1>9, <1>10, <1>11, Zenon DEF Apply

LEMMA RetentionNext ==
    ASSUME ApplierInvariant, RetentionInvariant, [Next]_vars PROVE RetentionInvariant'
<1> SUFFICES ASSUME deletes' = 0 PROVE Retained(revs', made', revCache', ap'.gc)
  BY DEF RetentionInvariant
<1>1. /\ TypeInvariant /\ Undisturbed /\ deletes = 0 /\ Retained(revs, made, revCache, ap.gc)
      /\ revs \in [Revs -> Rev] /\ made \in [Revs -> 0..(MaxDeletes + 1)] /\ ap \in Ap
      /\ Ordered(revs, made, revCache) /\ Named(ap)
  BY DeletesStay DEF ApplierInvariant, RetentionInvariant, TypeInvariant, TypeOK, Undisturbed
<1>2. CASE UNCHANGED <<revs, made, revCache>> /\ (ap'.gc = Idle.gc \/ ap'.gc \subseteq ap.gc)
  BY <1>1, <1>2, FewerRetained
<1>3. CASE Apply
  <2>1. CASE Begin
    <3>1. ap'.gc = Collectable(revCache) BY <2>1 DEF Begin, Idle
    <3>2. Retained(revs, made, revCache, Collectable(revCache)) BY <1>1, CollectableRetained
    <3> QED BY <2>1, <3>1, <3>2, Zenon DEF Begin
  <2>2. ap'.gc = Idle.gc \/ ap'.gc \subseteq ap.gc \/ Begin BY <1>1, <1>3, ListShrinks
  <2>3. CASE CollectOldRevision /\ revs' # revs
    <3> DEFINE g == Min(ap.gc)
    <3>1. /\ ap.gc # {} /\ revs' = [revs EXCEPT ![g].deleting = Exists(revs, g)]
          /\ made' = made /\ revCache' = revCache
      BY <2>3, Zenon DEF CollectOldRevision
    <3>2. ap.gc \in SUBSET Nat /\ ap.gc \subseteq Revs BY <1>1, Constructors DEF Ap, Revs
    <3>3. g \in ap.gc /\ g \in Revs BY <3>1, <3>2, MinIn
    <3> HIDE DEF g
    <3>4. Retained(revs', made, revCache, ap.gc) BY <1>1, <3>1, <3>3, CollectionRetained
    <3>5. ~Begin BY <2>3 DEF Begin
    <3> QED BY <2>2, <3>1, <3>4, <3>5, FewerRetained
  <2>4. CASE CreateRevision /\ revs' # revs
    <3> DEFINE n == ap.rev
               new == [NoRev EXCEPT !.uid = made[n] + 1, !.content = ap.want]
    <3>1. ap.pc = "cos" /\ ~Exists(revs, n) /\ Created(n) /\ revCache' = revCache
      BY <2>4, Zenon DEF CreateRevision
    <3>2. n \in Revs /\ n \in Nat BY <1>1, <3>1, Constructors DEF Named, Revs
    <3>3. made[n] = 0
      <4>1. Gone(n, revs, made) => n < n - 1
        BY <1>1, <3>1, <3>2 DEF Undisturbed, Working, Listing, Base
      <4>2. ~(n < n - 1) BY <3>2
      <4> QED BY <3>1, <4>1, <4>2 DEF Gone
    <3>4. ~Exists(revCache, n) BY <1>1, <3>2, <3>3 DEF Ordered
    <3>5. new.uid = 1 /\ new.deleting = FALSE BY <3>3 DEF NoRev
    <3>6. revs' = [revs EXCEPT ![n] = new] /\ made' = [made EXCEPT ![n] = made[n] + 1]
      BY <1>1, <3>1 DEF Created
    <3> HIDE DEF new
    <3>7. /\ revs'[n] = new
          /\ \A r \in Revs : r # n => revs'[r] = revs[r] /\ made'[r] = made[r]
      BY <1>1, <3>2, <3>6
    <3>8. Exists(revs', n) /\ ~revs'[n].deleting BY <3>5, <3>7 DEF Exists
    <3> HIDE DEF n
    <3>9. Retained(revs', made', revCache, ap.gc)
      BY <1>1, <3>1, <3>2, <3>3, <3>4, <3>7, <3>8, CreationRetained
    <3>10. ~Begin BY <3>1 DEF Begin
    <3> QED BY <2>2, <3>1, <3>9, <3>10, FewerRetained
  <2>5. UNCHANGED <<revs, made, revCache>> \/ (CollectOldRevision /\ revs' # revs)
          \/ (CreateRevision /\ revs' # revs)
    <3>1. CASE CompareWithLatest
      BY <1>1, <3>1, ComparesWithExisting DEF CompareWithLatest
    <3>2. CASE CollectOldRevision BY <3>2, Zenon DEF CollectOldRevision
    <3>3. CASE CreateRevision
      <4>1. ASSUME Created(ap.rev), ~Exists(revs, ap.rev) PROVE revs' # revs
        <5>1. ap.rev \in Revs BY <1>1, <3>3 DEF CreateRevision, Named
        <5>2. made[ap.rev] + 1 # 0 BY <1>1, <5>1, Constructors
        <5>3. revs'[ap.rev] = [NoRev EXCEPT !.uid = made[ap.rev] + 1, !.content = ap.want]
          BY <1>1, <4>1, <5>1 DEF Created
        <5>4. revs'[ap.rev].uid = made[ap.rev] + 1 BY <5>3 DEF NoRev
        <5> QED BY <4>1, <5>2, <5>4 DEF Exists
      <4> QED BY <3>3, <4>1, Zenon DEF CreateRevision
    <3> QED BY <1>3, <3>1, <3>2, <3>3, Zenon DEF Apply, Begin, BeginWithoutContent, PackSecrets,
         CreateSecret, GetRevisionUid, PatchOwner
  <2> QED BY <1>2, <2>1, <2>2, <2>3, <2>4, <2>5
<1>4. CASE Environment
  <2>1. CASE RevSync \/ Crash
    BY <1>1, <2>1, FewerRetained DEF RevSync, Crash
  <2>2. CASE SecSync \/ Resync \/ \E c \in Contents : ChangeDesired(c)
    BY <1>2, <2>2 DEF SecSync, Resync, ChangeDesired
  <2>3. ASSUME NEW s \in Secrets, CollectSecret(s)
        PROVE  Retained(revs', made', revCache', ap'.gc)
    BY <1>2, <2>3 DEF CollectSecret
  <2>4. ASSUME NEW r \in Revs, Archive(r) \/ FinalizeRevision(r)
        PROVE  Retained(revs', made', revCache', ap'.gc)
    <3>1. revs[r] \in Rev /\ \A q \in Revs : Exists(revs, q) => made[q] # 0
      BY <1>1 DEF Ordered
    <3>2. \A q \in Revs : q # r => revs'[q] = revs[q]
      BY <1>1, <2>4 DEF Archive, FinalizeRevision
    <3>3. made' = made /\ revCache' = revCache /\ ap' = ap
      BY <2>4 DEF Archive, FinalizeRevision
    <3>4. /\ Gone(r, revs', made) <=> Gone(r, revs, made)
          /\ Exists(revs, r) /\ ~revs[r].deleting =>
               Exists(revs', r) /\ ~revs'[r].deleting /\ (revs[r].archived => revs'[r].archived)
      <4>1. CASE Archive(r)
        <5>1. revs'[r] = [revs[r] EXCEPT !.archived = TRUE] BY <1>1, <4>1 DEF Archive
        <5>2. revs'[r].uid = revs[r].uid /\ revs'[r].archived /\ revs'[r].deleting = revs[r].deleting
          BY <3>1, <5>1 DEF Rev
        <5> QED BY <5>2 DEF Gone, Exists
      <4>2. CASE FinalizeRevision(r)
        <5>1. revs'[r] = NoRev /\ revs[r].deleting BY <1>1, <4>2 DEF FinalizeRevision
        <5>2. ~Exists(revs', r) BY <5>1 DEF Exists, NoRev
        <5> QED BY <5>1, <5>2 DEF Gone
      <4> QED BY <2>4, <4>1, <4>2
    <3>5. \A q \in Revs : q # r => /\ Gone(q, revs', made) <=> Gone(q, revs, made)
                                   /\ Exists(revs', q) <=> Exists(revs, q)
      BY <3>2 DEF Gone, Exists
    <3>6. Retained(revs', made, revCache, ap.gc)
      BY <1>1, <3>1, <3>2, <3>4, <3>5, LossRetained
    <3> QED BY <3>3, <3>6
  <2>5. ASSUME NEW r \in Revs, DeleteRevision(r) PROVE FALSE
    BY <1>1, <2>5 DEF DeleteRevision
  <2> QED BY <1>4, <2>1, <2>2, <2>3, <2>4, <2>5, Zenon DEF Environment
<1>5. CASE UNCHANGED vars BY <1>1, <1>5 DEF vars
<1> QED BY <1>3, <1>4, <1>5 DEF Next

LEMMA RetentionInit == Init => RetentionInvariant
<1> SUFFICES ASSUME Init PROVE Retained(revs, made, revCache, ap.gc) BY DEF RetentionInvariant
<1>1. /\ revs = [r \in Revs |-> NoRev] /\ made = [r \in Revs |-> 0]
      /\ revCache = revs /\ ap = Idle
  BY DEF Init
<1>2. NoRev.uid = 0 /\ Idle.gc = {} BY DEF NoRev, Idle
<1>3. \A r \in Revs : ~Exists(revs, r) /\ ~Gone(r, revs, made) BY <1>1, <1>2 DEF Exists, Gone
<1> QED BY <1>1, <1>2, <1>3 DEF Retained

\* Unless somebody else deletes revisions, retention deletes only archived ones, each
\* with RetentionLimit newer ones left above it, however stale the list it counted
\* in (garbageCollectOldRevisions).
THEOREM RetentionIsSafe == Spec => RetentionKeepsRecent
<1> DEFINE A == \A r \in Revs : deletes' = 0 /\ ~revs[r].deleting /\ revs'[r].deleting
                  => /\ revs[r].archived
                     /\ Cardinality({q \in Existing(revs) : q > r /\ ~revs[q].deleting})
                          >= RetentionLimit
<1>1. ApplierInvariant /\ RetentionInvariant /\ [Next]_vars => [A]_vars
  <2> SUFFICES ASSUME ApplierInvariant, RetentionInvariant, Next, NEW r \in Revs,
                      deletes' = 0, ~revs[r].deleting, revs'[r].deleting
               PROVE  revs[r].archived /\ Enough(revs, r)
    BY DEF Enough, Live, vars
  <2>1. /\ TypeInvariant /\ Undisturbed /\ deletes = 0
        /\ Retained(revs, made, revCache, ap.gc) /\ revs \in [Revs -> Rev] /\ ap \in Ap
    BY DeletesStay DEF ApplierInvariant, RetentionInvariant, TypeInvariant, TypeOK
  <2>2. revs' # revs OBVIOUS
  <2>3. CASE CollectOldRevision
    <3> DEFINE g == Min(ap.gc)
    <3>1. ap.gc # {} /\ revs' = [revs EXCEPT ![g].deleting = Exists(revs, g)]
      BY <2>2, <2>3, Zenon DEF CollectOldRevision
    <3>2. ap.gc \in SUBSET Nat BY <2>1, Constructors DEF Ap, Revs
    <3>3. g \in ap.gc BY <3>1, <3>2, MinIn
    <3> HIDE DEF g
    <3>4. g = r BY <2>1, <3>1
    <3>5. Exists(revs, r) BY <2>1, <3>1, <3>4 DEF Rev, Exists
    <3> QED BY <2>1, <3>3, <3>4, <3>5 DEF Retained, Retired, Gone
  <2>4. ASSUME CreateRevision PROVE FALSE
    <3>1. Created(ap.rev) BY <2>2, <2>4, Zenon DEF CreateRevision
    <3>2. ~[NoRev EXCEPT !.uid = made[ap.rev] + 1, !.content = ap.want].deleting BY DEF NoRev
    <3> QED BY <2>1, <3>1, <3>2, Zenon DEF Created
  <2>5. ASSUME CompareWithLatest PROVE FALSE BY <2>1, <2>2, <2>5, ComparesWithExisting
  <2>6. ASSUME NEW q \in Revs, Archive(q) PROVE FALSE
    <3>1. revs'[r].deleting = revs[r].deleting BY <2>1, <2>6 DEF Archive, Rev
    <3> QED BY <3>1
  <2>7. ASSUME NEW q \in Revs, FinalizeRevision(q) PROVE FALSE
    <3>1. NoRev.deleting = FALSE BY DEF NoRev
    <3> QED BY <2>1, <2>7, <3>1 DEF FinalizeRevision
  <2>8. ASSUME NEW q \in Revs, DeleteRevision(q) PROVE FALSE
    BY <2>1, <2>8 DEF DeleteRevision
  <2>9. CASE Apply
    BY <2>2, <2>3, <2>4, <2>5, <2>9, Zenon DEF Apply, Begin, BeginWithoutContent, PackSecrets,
       CreateSecret, GetRevisionUid, PatchOwner
  <2>10. CASE Environment
    BY <2>2, <2>6, <2>7, <2>8, <2>10, Zenon DEF Environment, RevSync, SecSync, Resync, Crash,
       ChangeDesired, CollectSecret
  <2> QED BY <2>9, <2>10 DEF Next
<1>2. Init => ApplierInvariant /\ RetentionInvariant BY InitApplier, RetentionInit
<1>3. ApplierInvariant /\ RetentionInvariant /\ [Next]_vars
        => ApplierInvariant' /\ RetentionInvariant'
  BY StepApplier, RetentionNext
<1> QED BY <1>1, <1>2, <1>3, PTL DEF Spec, RetentionKeepsRecent
=============================================================================
