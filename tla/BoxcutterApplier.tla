-------------------------- MODULE BoxcutterApplier --------------------------
(***************************************************************************)
(* The boxcutter applier of the ClusterExtension controller: Apply compares *)
(* the desired content with the newest ClusterObjectSet (COS) it finds in   *)
(* its cache, and when they differ creates the next revision in the order   *)
(* Secrets, COS, owner references.  The revision lists and the Secret lists *)
(* come from informers that lag; calls fail and the process crashes between *)
(* any two of them; the Kubernetes garbage collector removes Secrets whose  *)
(* owners are gone.                                                         *)
(***************************************************************************)
EXTENDS Naturals, FiniteSets, FiniteSetsExt

CONSTANTS
    Contents,        \* rendered bundle contents the extension may ask for
    Pieces,          \* Pieces[c]: the content-addressed Secrets c is packed into
    RetentionLimit,  \* ClusterObjectSetRetentionLimit
    MaxChanges,      \* bound: changes of the desired content and deletions, together
    MaxFaults,       \* bound: failed calls, unavailable catalogs and crashes
    MaxDeletes       \* bound: revisions deleted by somebody else

ASSUME ContentsAssumption == Contents # {} /\ IsFiniteSet(Contents)
ASSUME PiecesAssumption == \A c \in Contents : Pieces[c] # {}
ASSUME LimitAssumption == RetentionLimit \in Nat \ {0}
ASSUME BoundsAssumption == MaxChanges \in Nat /\ MaxFaults \in Nat /\ MaxDeletes \in Nat

Revs == 1..(MaxChanges + 1)
Uids == 1..(MaxDeletes + 1)      \* incarnations of one revision name
AllPieces == UNION {Pieces[c] : c \in Contents}
Secrets == Revs \X AllPieces     \* a Secret's name: revision name and content hash

VARIABLES
    desired,   \* the content the extension resolves to
    revs,      \* the COS objects; uid 0: no object of that name
    made,      \* how often a COS of that name was created
    secrets,   \* the ref Secrets: existence and the uids in ownerReferences
    revCache,  \* the informer cache of revs
    secCache,  \* the informer cache of secrets
    pending,   \* a reconcile request is queued
    ap,        \* the Apply in progress
    changes, faults, deletes

vars == <<desired, revs, made, secrets, revCache, secCache, pending, ap, changes,
          faults, deletes>>
bounds == <<changes, faults, deletes>>

-----------------------------------------------------------------------------
Rev == [uid: 0..(MaxDeletes + 1), content: Contents, archived: BOOLEAN, deleting: BOOLEAN]
Secret == [exists: BOOLEAN, owners: SUBSET Uids]
NoSecret == [exists |-> FALSE, owners |-> {}]
SomeContent == CHOOSE c \in Contents : TRUE
NoRev == [uid |-> 0, content |-> SomeContent, archived |-> FALSE, deleting |-> FALSE]

\* A Secret left to patch: its piece and the owners of the copy in hand.
Patches == [piece: AllPieces, owners: SUBSET Uids]
PCs == {"idle", "ssa", "gc", "secrets", "cos", "uid", "owners"}
Idle == [pc |-> "idle", want |-> SomeContent, rev |-> 0, uid |-> 0, gc |-> {},
         create |-> {}, patch |-> {}]
Ap == [pc: PCs, want: Contents, rev: 0..(MaxChanges + 1), uid: 0..(MaxDeletes + 1),
       gc: SUBSET Revs, create: SUBSET AllPieces, patch: SUBSET Patches]

Exists(rs, r) == rs[r].uid # 0
Existing(rs) == {r \in Revs : Exists(rs, r)}
Latest(rs) == IF Existing(rs) = {} THEN 0 ELSE Max(Existing(rs))

Fault == faults < MaxFaults /\ faults' = faults + 1

\* Apply returns: without an error, or with one and the request is queued again.
Done == ap' = Idle /\ UNCHANGED pending
Fail == ap' = Idle /\ pending' = TRUE

Init ==
    /\ desired \in Contents
    /\ revs = [r \in Revs |-> NoRev] /\ made = [r \in Revs |-> 0]
    /\ secrets = [s \in Secrets |-> NoSecret]
    /\ revCache = revs /\ secCache = secrets
    /\ pending = TRUE /\ ap = Idle
    /\ changes = 0 /\ faults = 0 /\ deletes = 0

-----------------------------------------------------------------------------
(* Apply                                                                    *)

\* mutant: active revisions are collected as well
CollectableAny(list) ==
    {r \in Existing(list) : Cardinality({q \in Existing(list) : q > r}) >= RetentionLimit}
\* Archived revisions with at least RetentionLimit newer ones in the list.
Collectable(list) ==
    {r \in Existing(list) :
       /\ list[r].archived
       /\ Cardinality({q \in Existing(list) : q > r}) >= RetentionLimit}

\* getExistingRevisions, then compare with the newest or go on to install.
Begin ==
    /\ ap.pc = "idle" /\ pending
    /\ pending' = FALSE
    /\ ap' = [Idle EXCEPT !.pc = IF Existing(revCache) = {} THEN "gc" ELSE "ssa",
                          !.want = desired,
                          !.rev = Latest(revCache),
                          !.uid = IF Existing(revCache) = {} THEN 0
                                  ELSE revCache[Latest(revCache)].uid,
                          !.gc = Collectable(revCache)]
    /\ UNCHANGED <<desired, revs, made, secrets, revCache, secCache, bounds>>

\* contentFS is nil, the catalog being unavailable: an error if there is no
\* revision, else what is there is kept.  The request comes back with the retry
\* or with the event of the catalog's return.
BeginWithoutContent ==
    /\ ap.pc = "idle" /\ pending
    /\ Fault
    /\ UNCHANGED <<desired, revs, made, secrets, revCache, secCache, pending, ap, changes,
                   deletes>>

\* Server-side apply of want under the name of revision r: creates an absent
\* object, leaves an equal one, and is Invalid when the phases differ (they are
\* immutable) or the revision is archived (it cannot be un-archived).
Created(r) ==
    /\ made[r] < MaxDeletes + 1
    /\ revs' = [revs EXCEPT ![r] = [NoRev EXCEPT !.uid = made[r] + 1, !.content = ap.want]]
    /\ made' = [made EXCEPT ![r] = @ + 1]
\* mutant: a difference in the immutable phases is not noticed
MatchesAny(r) == Exists(revs, r)
Matches(r) == Exists(revs, r) /\ revs[r].content = ap.want /\ ~revs[r].archived
Invalid(r) == Exists(revs, r) /\ ~Matches(r)

\* ensureSecretOwnerReferences: the cached Secrets of the revision without its uid.
Unowned(r, uid) ==
    {[piece |-> p, owners |-> secCache[<<r, p>>].owners] :
       p \in {x \in AllPieces : secCache[<<r, x>>].exists /\ uid \notin secCache[<<r, x>>].owners}}

PatchNext(uid, patch) ==
    IF patch = {} THEN Done
    ELSE /\ ap' = [ap EXCEPT !.pc = "owners", !.uid = uid, !.patch = patch]
         /\ UNCHANGED pending

CompareWithLatest ==
    /\ ap.pc = "ssa"
    /\ \/ /\ \/ Matches(ap.rev) /\ UNCHANGED <<revs, made>>
             \/ ~Exists(revs, ap.rev) /\ Created(ap.rev)
          /\ PatchNext(ap.uid, Unowned(ap.rev, ap.uid))
          /\ UNCHANGED faults
       \/ /\ Invalid(ap.rev)
          /\ ap' = [ap EXCEPT !.pc = "gc"]
          /\ UNCHANGED <<revs, made, pending, faults>>
       \/ /\ Fault /\ Fail
          /\ UNCHANGED <<revs, made>>
    /\ UNCHANGED <<desired, secrets, revCache, secCache, changes, deletes>>

\* createExternalizedRevision up to packing: the next number, retention,
\* pre-authorization, one Secret to create per piece.
CollectOldRevision ==
    /\ ap.pc = "gc" /\ ap.gc # {}
    /\ LET r == Min(ap.gc) IN
         \/ /\ revs' = [revs EXCEPT ![r].deleting = Exists(revs, r)]
            /\ ap' = [ap EXCEPT !.gc = @ \ {r}]
            /\ UNCHANGED <<pending, faults>>
         \/ Fault /\ Fail /\ UNCHANGED revs
    /\ UNCHANGED <<desired, made, secrets, revCache, secCache, changes, deletes>>

\* mutant: numbers for which an earlier attempt left Secrets are skipped
PackSecretsSkipping ==
    LET used == {ap.rev} \cup {r \in Revs : \E p \in AllPieces : secCache[<<r, p>>].exists}
    IN  /\ ap.pc = "gc" /\ ap.gc = {}
        /\ Max(used) + 1 \in Revs
        /\ ap' = [ap EXCEPT !.pc = "secrets", !.rev = Max(used) + 1, !.uid = 0,
                            !.create = Pieces[ap.want]]
        /\ UNCHANGED <<desired, revs, made, secrets, revCache, secCache, pending, bounds>>
PackSecrets ==
    /\ ap.pc = "gc" /\ ap.gc = {}
    /\ \/ /\ ap.rev + 1 \in Revs
          /\ ap' = [ap EXCEPT !.pc = "secrets", !.rev = @ + 1, !.uid = 0,
                              !.create = Pieces[ap.want]]
          /\ UNCHANGED <<pending, faults>>
       \/ Fault /\ Fail
    /\ UNCHANGED <<desired, revs, made, secrets, revCache, secCache, changes, deletes>>

\* mutant: goes on to the COS after the first Secret
CreateFirstSecret(p) ==
    /\ ap.pc = "secrets" /\ p \in ap.create
    /\ secrets' = [secrets EXCEPT ![<<ap.rev, p>>].exists = TRUE]
    /\ ap' = [ap EXCEPT !.create = {}, !.pc = "cos"]
    /\ UNCHANGED <<desired, revs, made, revCache, secCache, pending, bounds>>
\* Step 1: create the Secrets, AlreadyExists is skipped.
CreateSecret(p) ==
    /\ ap.pc = "secrets" /\ p \in ap.create
    /\ \/ /\ secrets' = [secrets EXCEPT ![<<ap.rev, p>>].exists = TRUE]
          /\ ap' = [ap EXCEPT !.create = @ \ {p},
                              !.pc = IF ap.create = {p} THEN "cos" ELSE @]
          /\ UNCHANGED <<pending, faults>>
       \/ Fault /\ Fail /\ UNCHANGED secrets
    /\ UNCHANGED <<desired, revs, made, revCache, secCache, changes, deletes>>

\* Step 2: create the COS.
CreateRevision ==
    /\ ap.pc = "cos"
    /\ \/ /\ \/ Matches(ap.rev) /\ UNCHANGED <<revs, made>>
             \/ ~Exists(revs, ap.rev) /\ Created(ap.rev)
          /\ ap' = [ap EXCEPT !.pc = "uid"]
          /\ UNCHANGED <<pending, faults>>
       \/ /\ (Invalid(ap.rev) /\ UNCHANGED faults) \/ Fault
          /\ Fail
          /\ UNCHANGED <<revs, made>>
    /\ UNCHANGED <<desired, secrets, revCache, secCache, changes, deletes>>

\* Step 3 begins with a cached Get of the COS for its uid.
GetRevisionUid ==
    /\ ap.pc = "uid"
    /\ IF Exists(revCache, ap.rev)
       THEN PatchNext(revCache[ap.rev].uid,
                      {[piece |-> p, owners |-> {}] : p \in Pieces[ap.want]})
       ELSE Fail
    /\ UNCHANGED <<desired, revs, made, secrets, revCache, secCache, bounds>>

\* patchOwnerRefsOnSecrets: a merge patch, so the list becomes the owners of the
\* copy in hand and the uid.
PatchOwner(t) ==
    /\ ap.pc = "owners" /\ t \in ap.patch
    /\ LET s == <<ap.rev, t.piece>> IN
         \/ /\ secrets[s].exists
            /\ secrets' = [secrets EXCEPT ![s].owners = t.owners \cup {ap.uid}]
            /\ PatchNext(ap.uid, ap.patch \ {t})
            /\ UNCHANGED faults
         \/ /\ (~secrets[s].exists /\ UNCHANGED faults) \/ Fault
            /\ Fail
            /\ UNCHANGED secrets
    /\ UNCHANGED <<desired, revs, made, revCache, secCache, changes, deletes>>

Apply ==
    \/ Begin \/ BeginWithoutContent \/ CompareWithLatest
    \/ CollectOldRevision \/ PackSecrets
    \/ \E p \in AllPieces : CreateSecret(p)
    \/ CreateRevision \/ GetRevisionUid
    \/ \E t \in ap.patch : PatchOwner(t)

-----------------------------------------------------------------------------
(* Environment                                                              *)

\* The informers catch up; a change of an owned COS queues the extension.
RevSync ==
    /\ revCache # revs
    /\ revCache' = revs /\ pending' = TRUE
    /\ UNCHANGED <<desired, revs, made, secrets, secCache, ap, bounds>>
SecSync ==
    /\ secCache # secrets
    /\ secCache' = secrets
    /\ UNCHANGED <<desired, revs, made, secrets, revCache, pending, ap, bounds>>

\* The informers resync now and then: an update event without a change.
Resync ==
    /\ ~pending
    /\ pending' = TRUE
    /\ UNCHANGED <<desired, revs, made, secrets, revCache, secCache, ap, bounds>>

Crash ==
    /\ Fault
    /\ ap' = Idle /\ pending' = TRUE
    /\ revCache' = revs /\ secCache' = secrets
    /\ UNCHANGED <<desired, revs, made, secrets, changes, deletes>>

\* The bound on what users do, changes and deletions together.
Intervene == changes + deletes < MaxChanges
ChangeDesired(c) ==
    /\ c # desired /\ Intervene
    /\ desired' = c /\ changes' = changes + 1 /\ pending' = TRUE
    /\ UNCHANGED <<revs, made, secrets, revCache, secCache, ap, faults, deletes>>

\* The COS controller archives a revision once a newer one is rolled out.
Archive(r) ==
    /\ Exists(revs, r) /\ ~revs[r].archived /\ r < Latest(revs)
    /\ revs' = [revs EXCEPT ![r].archived = TRUE]
    /\ UNCHANGED <<desired, made, secrets, revCache, secCache, pending, ap, bounds>>

\* Somebody deletes a revision; and the COS controller lets a deleted one go.
DeleteRevision(r) ==
    /\ Exists(revs, r) /\ ~revs[r].deleting /\ Intervene /\ deletes < MaxDeletes
    /\ revs' = [revs EXCEPT ![r].deleting = TRUE]
    /\ deletes' = deletes + 1
    /\ UNCHANGED <<desired, made, secrets, revCache, secCache, pending, ap, changes, faults>>
FinalizeRevision(r) ==
    /\ revs[r].deleting
    /\ revs' = [revs EXCEPT ![r] = NoRev]
    /\ UNCHANGED <<desired, made, secrets, revCache, secCache, pending, ap, bounds>>

\* The Kubernetes garbage collector.
CollectSecret(s) ==
    LET live == secrets[s].owners \cap {revs[s[1]].uid}
    IN /\ secrets[s].owners # live
       /\ secrets' = [secrets EXCEPT ![s] = IF live = {} THEN NoSecret
                                            ELSE [@ EXCEPT !.owners = live]]
       /\ UNCHANGED <<desired, revs, made, revCache, secCache, pending, ap, bounds>>

Environment ==
    \/ RevSync \/ SecSync \/ Resync \/ Crash
    \/ \E c \in Contents : ChangeDesired(c)
    \/ \E r \in Revs : Archive(r) \/ DeleteRevision(r) \/ FinalizeRevision(r)
    \/ \E s \in Secrets : CollectSecret(s)

Next == Apply \/ Environment
Spec == Init /\ [][Next]_vars

\* A queued request is served, an Apply begun goes on, the informers catch up and
\* resync, and the garbage collector works.
Fairness ==
    /\ WF_vars(Apply) /\ WF_vars(RevSync) /\ WF_vars(SecSync) /\ WF_vars(Resync)
    /\ \A s \in Secrets : WF_vars(CollectSecret(s))
    /\ \A r \in Revs : WF_vars(FinalizeRevision(r))
FairSpec == Spec /\ Fairness

-----------------------------------------------------------------------------
(* Properties                                                               *)

TypeOK ==
    /\ desired \in Contents
    /\ revs \in [Revs -> Rev] /\ revCache \in [Revs -> Rev]
    /\ made \in [Revs -> 0..(MaxDeletes + 1)]
    /\ secrets \in [Secrets -> Secret] /\ secCache \in [Secrets -> Secret]
    /\ pending \in BOOLEAN /\ ap \in Ap
    /\ changes \in 0..MaxChanges /\ faults \in 0..MaxFaults /\ deletes \in 0..MaxDeletes

\* Every Secret a revision refers to exists as long as the revision does, through
\* crashes, retries and reuse of Secrets left behind (Secrets are created before
\* the COS, and owned by nothing that dies before it).
RefsResolve ==
    deletes = 0 =>
      \A r \in Existing(revs) : \A p \in Pieces[revs[r].content] : secrets[<<r, p>>].exists

\* A new revision is numbered one above the newest existing one, whatever stale
\* list its number was computed from (latestRevisionNumber + 1, and server-side
\* apply refuses to change an existing revision's phases).
NumberedFromLatest ==
    [][\A r \in Revs : deletes = 0 /\ ~Exists(revs, r) /\ Exists(revs', r)
         => r = Latest(revs) + 1]_vars

\* Retention only ever deletes archived revisions, and leaves RetentionLimit
\* newer ones, although it works from a list that may be stale.
RetentionKeepsRecent ==
    [][\A r \in Revs : deletes' = 0 /\ ~revs[r].deleting /\ revs'[r].deleting
         => /\ revs[r].archived
            /\ Cardinality({q \in Existing(revs) : q > r /\ ~revs[q].deleting})
                 >= RetentionLimit]_vars

\* The newest revision ends up active with the desired content, also when a
\* revision was deleted by somebody else.
DesiredIsReached ==
    <>[](LET n == Latest(revs) IN n # 0 /\ revs[n].content = desired /\ ~revs[n].archived)

\* And all of its Secrets exist in the end.
RefsEventuallyResolve ==
    <>[](\A r \in Existing(revs) : \A p \in Pieces[revs[r].content] : secrets[<<r, p>>].exists)
=============================================================================
