----------------------- MODULE ClusterObjectSetProofs -----------------------
(***************************************************************************)
(* Proofs about the ClusterObjectSet controller for any number of          *)
(* revisions, any objects and phases and any number of faults: its types,  *)
(* the teardown finalizer as a guard of everything a revision holds, what  *)
(* a rollout promises, the contract of RevisionLifecycle, and that a       *)
(* handover interrupts no object of the newest rolled out revision.        *)
(***************************************************************************)
EXTENDS ClusterObjectSet, TLAPS

(***************************************************************************)
(* Type correctness                                                        *)
(***************************************************************************)

\* The records the controller builds have the right shape.
LEMMA Constructors ==
    /\ NoStatus \in Status /\ Absent \in COS /\ NoObject \in Object /\ Idle \in Rec
    /\ \A c : Seen(c) \in {"absent", "inactive", "active"}
BY NAssumption DEF NoStatus, Status, ProgReasons, AvailReasons, Absent, COS, NoObject, Object,
   NoCtrl, Idle, Rec, PCs, Revs, Seen

\* The condition helpers (setRetryingConditions, markAs...) return conditions.
LEMMA Conditions ==
    ASSUME NEW st \in Status
    PROVE  /\ setRetryingConditions(st) \in Status
           /\ markAsArchived(st) \in Status
           /\ markAsSucceeded(st) \in Status
           /\ \A a \in AvailReasons : [st EXCEPT !.avail = a] \in Status
           /\ \A p \in ProgReasons : [st EXCEPT !.prog = p] \in Status
           /\ \A p \in ProgReasons, a \in AvailReasons :
                [st EXCEPT !.prog = p, !.avail = a] \in Status
BY Zenon DEF Status, ProgReasons, AvailReasons, setRetryingConditions, markAsArchived, markAsSucceeded

\* A reconcile starts from a well-formed copy and returns a well-formed record.
LEMMA Copies ==
    ASSUME TypeOK, NEW r \in Revs
    PROVE  /\ Copy(r) \in Rec
           /\ Copy(r).rev = r /\ Copy(r).local = cache[r].status
<1>1. cache[r] \in COS /\ Idle \in Rec BY Constructors DEF TypeOK
<1>2. cache[r].fin \in BOOLEAN /\ cache[r].status \in Status BY <1>1 DEF COS
<1>3. (r \in synced) \in BOOLEAN OBVIOUS
<1> QED BY <1>1, <1>2, <1>3, Zenon DEF Copy, Idle, Rec, PCs

LEMMA Returns ==
    ASSUME NEW m \in Rec, NEW st \in Status, NEW again \in BOOLEAN
    PROVE  Returned(m, st, again) \in Rec
BY Zenon DEF Returned, Rec, PCs

\* Requests the object informers enqueue are for revisions.
LEMMA Notifications ==
    ASSUME TypeOK, NEW new \in [Objects -> Object], NEW W
    PROVE  Notified(new, W) \subseteq Revs /\ Replayed(W) \subseteq Revs
<1>1. \A o \in Objects : objs[o].owners \subseteq Revs /\ new[o].owners \subseteq Revs
  BY DEF TypeOK, Object
<1> QED BY <1>1 DEF Notified, Replayed

\* A fault or an interference stays within its bound.
LEMMA Counters ==
    ASSUME TypeOK
    PROVE  /\ Fault => faults' \in 0..MaxFaults
           /\ Drift => drift' \in 0..MaxDrift
BY BoundsAssumption DEF TypeOK, Fault, Drift

\* What the engine and the teardown make of an object is an object.
LEMMA ObjectSteps ==
    ASSUME TypeOK, NEW o \in Objects
    PROVE  Applied(o) \in Object /\ \A r \in Revs : TornDown(r, o) \in Object
<1>1. objs[o] \in Object /\ rec.rev \in Revs BY DEF TypeOK, Rec
<1>2. rec.rev \in 0..(N + 1) BY <1>1, NAssumption DEF Revs
<1>3. Applied(o) \in Object BY <1>1, <1>2, Zenon DEF Applied, Object
<1>4. ASSUME NEW r \in Revs PROVE TornDown(r, o) \in Object
  BY <1>1, Constructors DEF TornDown, Object
<1> QED BY <1>3, <1>4

\* Storing a revision keeps the types.
LEMMA StoredType ==
    ASSUME TypeOK, NEW r \in Revs, NEW c \in COS, Stored(r, c)
    PROVE  cos' \in [Revs -> COS] /\ synced' \subseteq Revs
BY DEF TypeOK, Stored

LEMMA TypeInit == Init => TypeOK
<1> SUFFICES ASSUME Init PROVE TypeOK OBVIOUS
<1>1. /\ cos \in [Revs -> COS] /\ cache \in [Revs -> COS]
      /\ tcache \in [Revs -> {"absent", "inactive", "active"}]
      /\ objs \in [Objects -> Object] /\ rec \in Rec
  BY Constructors DEF Init
<1>2. latest \in 0..N /\ faults \in 0..MaxFaults /\ drift \in 0..MaxDrift
  BY BoundsAssumption, NAssumption DEF Init
<1> QED BY <1>1, <1>2, Zenon DEF Init, TypeOK

LEMMA TypeInformers == TypeOK /\ (CacheSync \/ TrackingSync) => TypeOK'
<1> SUFFICES ASSUME TypeOK, CacheSync \/ TrackingSync PROVE TypeOK' OBVIOUS
<1>1. CASE CacheSync BY <1>1 DEF CacheSync, TypeOK, envVars
<1>2. CASE TrackingSync
  <2>1. tcache' \in [Revs -> {"absent", "inactive", "active"}]
    BY <1>2, Constructors DEF TrackingSync
  <2> QED BY <1>2, <2>1 DEF TrackingSync, TypeOK, envVars
<1> QED BY <1>1, <1>2

LEMMA TypeDequeue ==
    ASSUME TypeOK, NEW r \in Revs,
           ReconcileNotFound(r) \/ ReconcileDelete(r) \/ ReconcileRevision(r)
    PROVE  TypeOK'
<1>1. cache[r] \in COS /\ cache[r].status \in Status BY DEF TypeOK, COS
<1>2. Copy(r) \in Rec BY Copies
<1>3. "Reconciling" \in AvailReasons BY DEF AvailReasons
<1>4. CASE ReconcileNotFound(r)
  BY <1>4 DEF ReconcileNotFound, Dequeue, TypeOK, apiVars, envVars
<1>5. CASE ReconcileDelete(r)
  <2>1. [Copy(r) EXCEPT !.pc = "removeFinalizer"] \in Rec BY <1>2 DEF Rec, PCs
  <2>2. Returned(Copy(r), [cache[r].status EXCEPT !.avail = "Reconciling"], TRUE) \in Rec
    BY <1>1, <1>2, <1>3, Conditions, Returns, Zenon
  <2> QED BY <1>5, <2>1, <2>2, Counters, Zenon DEF ReconcileDelete, Dequeue, TypeOK, apiVars, envVars
<1>6. CASE ReconcileRevision(r)
  <2>1. PreviousRevisions(r) \subseteq Revs /\ SiblingRevisions \subseteq Revs
    BY DEF PreviousRevisions, SiblingRevisions
  <2>2. ASSUME NEW pc \in PCs
        PROVE  [Copy(r) EXCEPT !.pc = pc, !.prev = PreviousRevisions(r),
                               !.sibs = SiblingRevisions] \in Rec
    BY <1>2, <2>1, ZenonT(30) DEF Rec
  <2>3. (IF cache[r].archived THEN "teardown"
         ELSE IF cache[r].fin THEN "engine" ELSE "finalizer") \in PCs BY DEF PCs
  <2>4. Returned(Copy(r), setRetryingConditions(cache[r].status), TRUE) \in Rec
    BY <1>1, <1>2, Conditions, Returns, Zenon
  <2>5. rec' \in Rec BY <1>6, <2>2, <2>3, <2>4, Zenon DEF ReconcileRevision
  <2>6. faults' \in 0..MaxFaults BY <1>6, Counters, Zenon DEF ReconcileRevision, TypeOK
  <2> QED BY <1>6, <2>5, <2>6 DEF ReconcileRevision, Dequeue, TypeOK, apiVars, envVars
<1> QED BY <1>4, <1>5, <1>6

LEMMA TypeTeardown ==
    ASSUME TypeOK, TeardownComplete \/ TeardownIncomplete \/ TeardownFails \/ FreeFails
    PROVE  TypeOK'
<1>1. rec \in Rec /\ rec.local \in Status /\ rec.rev \in Revs BY DEF TypeOK, Rec
<1>2. ASSUME NEW done, TeardownObjects(done)
      PROVE  /\ objs' \in [Objects -> Object] /\ queue' \subseteq Revs
             /\ watching' \subseteq Revs
             /\ UNCHANGED <<cos, synced, cache, tcache, rolledOut, latest, expired,
                            extDeleted, drift>>
  <2>1. objs' = [o \in Objects |-> IF o \in done THEN TornDown(rec.rev, o) ELSE objs[o]]
    BY <1>2 DEF TeardownObjects, AfterTeardown
  <2>2. \A o \in Objects : TornDown(rec.rev, o) \in Object BY <1>1, ObjectSteps
  <2>3. objs' \in [Objects -> Object] BY <2>1, <2>2 DEF TypeOK
  <2>4. watching' \subseteq Revs BY <1>2 DEF TeardownObjects, TypeOK
  <2>5. queue' \subseteq Revs BY <1>2, <2>3, Notifications DEF TeardownObjects, TypeOK
  <2> QED BY <1>2, <2>3, <2>4, <2>5 DEF TeardownObjects, apiVars, envVars
<1>3. CASE TeardownComplete
  <2>1. Returned(rec, markAsArchived(rec.local), FALSE) \in Rec BY <1>1, Conditions, Returns, Zenon
  <2>2. [rec EXCEPT !.pc = "removeFinalizer"] \in Rec BY <1>1 DEF Rec, PCs
  <2>3. rec' \in Rec BY <1>3, <2>1, <2>2, Zenon DEF TeardownComplete, Return
  <2>4. TeardownObjects(Objs(rec.rev)) /\ faults' = faults BY <1>3 DEF TeardownComplete
  <2> QED BY <1>2, <2>3, <2>4 DEF TypeOK
<1>4. CASE TeardownIncomplete
  <2>1. Returned(rec, setRetryingConditions(rec.local), TRUE) \in Rec
    BY <1>1, Conditions, Returns, Zenon
  <2>2. PICK done : TeardownObjects(done) BY <1>4 DEF TeardownIncomplete
  <2>3. rec' \in Rec /\ faults' = faults BY <1>4, <2>1, Zenon DEF TeardownIncomplete, Return
  <2> QED BY <1>2, <2>2, <2>3 DEF TypeOK
<1>5. CASE TeardownFails
  <2>1. Returned(rec, setRetryingConditions(rec.local), TRUE) \in Rec
    BY <1>1, Conditions, Returns, ZenonT(30)
  <2>2. PICK done : TeardownObjects(done) BY <1>5 DEF TeardownFails
  <2>3. rec' \in Rec /\ faults' \in 0..MaxFaults
    BY <1>5, <2>1, Counters, Zenon DEF TeardownFails, Return
  <2> QED BY <1>2, <2>2, <2>3 DEF TypeOK
<1>6. CASE FreeFails
  <2>1. Returned(rec, [rec.local EXCEPT !.avail = "Reconciling"], TRUE) \in Rec
    BY <1>1, Conditions, Returns, Zenon DEF AvailReasons
  <2>2. rec' \in Rec /\ faults' \in 0..MaxFaults
    BY <1>6, <2>1, Counters, Zenon DEF FreeFails, Return
  <2> QED BY <1>6, <2>2 DEF FreeFails, TypeOK, apiVars, envVars
<1> QED BY <1>3, <1>4, <1>5, <1>6

LEMMA TypeFinalizers ==
    ASSUME TypeOK, RemoveFinalizer \/ EnsureFinalizer
    PROVE  TypeOK'
<1>1. rec \in Rec /\ rec.local \in Status /\ rec.rev \in Revs BY DEF TypeOK, Rec
<1>2. cos[rec.rev] \in COS BY <1>1 DEF TypeOK
<1>3. \A again \in BOOLEAN : Returned(rec, rec.local, again) \in Rec BY <1>1, Returns
<1>4. CASE RemoveFinalizer
  <2>1. [cos[rec.rev] EXCEPT !.fin = FALSE] \in COS BY <1>2, Zenon DEF COS
  <2>2. [rec EXCEPT !.pc = "status", !.fin = FALSE, !.cur = ~cos[rec.rev].deleting] \in Rec
    <3>1. (~cos[rec.rev].deleting) \in BOOLEAN BY <1>2 DEF COS
    <3> QED BY <1>1, <3>1, Zenon DEF Rec, PCs
  <2>3. cos' \in [Revs -> COS] /\ synced' \subseteq Revs
    <3>1. (IF cos[rec.rev].deleting THEN Absent
           ELSE [cos[rec.rev] EXCEPT !.fin = FALSE]) \in COS BY <2>1, Constructors
    <3>2. \/ UNCHANGED <<cos, synced>>
          \/ Stored(rec.rev, IF cos[rec.rev].deleting THEN Absent
                             ELSE [cos[rec.rev] EXCEPT !.fin = FALSE])
      BY <1>4, Zenon DEF RemoveFinalizer, apiVars
    <3> QED BY <1>1, <3>1, <3>2, StoredType DEF TypeOK
  <2>4. rec' \in Rec BY <1>3, <1>4, <2>2, Zenon DEF RemoveFinalizer, Return
  <2>5. faults' \in 0..MaxFaults BY <1>4, Counters, Zenon DEF RemoveFinalizer, TypeOK
  <2> QED BY <1>4, <2>3, <2>4, <2>5 DEF RemoveFinalizer, TypeOK, envVars
<1>5. CASE EnsureFinalizer
  <2>1. [cos[rec.rev] EXCEPT !.fin = TRUE] \in COS BY <1>2, Zenon DEF COS
  <2>2. [rec EXCEPT !.pc = "engine", !.fin = TRUE] \in Rec BY <1>1, Zenon DEF Rec, PCs
  <2>3. cos' \in [Revs -> COS] /\ synced' \subseteq Revs
    BY <1>1, <1>5, <2>1, StoredType, Zenon DEF EnsureFinalizer, apiVars, TypeOK
  <2>4. rec' \in Rec BY <1>3, <1>5, <2>2, Zenon DEF EnsureFinalizer, Return
  <2>5. faults' \in 0..MaxFaults BY <1>5, Counters, Zenon DEF EnsureFinalizer, TypeOK
  <2> QED BY <1>5, <2>3, <2>4, <2>5 DEF EnsureFinalizer, TypeOK, envVars
<1> QED BY <1>4, <1>5

\* The steps after the engine: leave, or archive the revisions in todo.
LEMMA TypeArchiveNext ==
    ASSUME TypeOK, NEW todo \in SUBSET Revs, NEW st \in Status, ArchiveNext(todo, st)
    PROVE  rec' \in Rec
<1>1. rec \in Rec BY DEF TypeOK
<1>2. Returned(rec, markAsSucceeded(st), FALSE) \in Rec BY <1>1, Conditions, Returns, Zenon
<1>3. [rec EXCEPT !.pc = "archivePrevious", !.local = st, !.todo = todo, !.prev = {},
                  !.sibs = {}] \in Rec
  BY <1>1, Zenon DEF Rec, PCs
<1> QED BY <1>2, <1>3, Zenon DEF ArchiveNext, Return

LEMMA TypeEngine ==
    ASSUME TypeOK, EngineReconcile \/ EngineFails
    PROVE  TypeOK'
<1>1. rec \in Rec /\ rec.local \in Status /\ rec.rev \in Revs BY DEF TypeOK, Rec
<1>2. \A o \in Objects : Applied(o) \in Object /\ objs[o] \in Object
  BY ObjectSteps DEF TypeOK
<1>3. Returned(rec, setRetryingConditions(rec.local), TRUE) \in Rec BY <1>1, Conditions, Returns, Zenon
<1>4. ASSUME NEW b PROVE Transition(b) \in Status
  BY <1>1 DEF Transition, Status, ProgReasons
<1>5. CASE EngineReconcile
  <2>1. PICK mayProgress, countProgressed, inTransition \in BOOLEAN :
          LET reached == UNION {Phases[rec.rev][i] : i \in Reached(mayProgress, countProgressed)}
              complete == \A o \in Objs(rec.rev) :
                             ObjectPasses(o, mayProgress, countProgressed)
          IN /\ objs' = [o \in Objects |-> IF o \in reached THEN Applied(o) ELSE objs[o]]
             /\ \/ /\ Return(setRetryingConditions(rec.local), TRUE)
                   /\ UNCHANGED <<rolledOut, faults>>
                \/ /\ rolledOut' = rolledOut \cup {rec.rev}
                   /\ RolloutComplete(Transition(inTransition))
                \/ /\ Return([Transition(inTransition) EXCEPT
                               !.prog = IF @ = "none" THEN "RollingOut" ELSE @,
                               !.avail = "Unavailable"], FALSE)
                   /\ UNCHANGED <<rolledOut, faults>>
    BY <1>5, ZenonT(30) DEF EngineReconcile
  <2>2. objs' \in [Objects -> Object] BY <1>2, <2>1
  <2>3. watching' \subseteq Revs BY <1>1, <1>5, ZenonT(30) DEF EngineReconcile, TypeOK
  <2>4. queue' \subseteq Revs
    BY <1>5, <2>2, Notifications, ZenonT(30) DEF EngineReconcile, TypeOK
  <2>5. [Transition(inTransition) EXCEPT !.prog = IF @ = "none" THEN "RollingOut" ELSE @,
                                         !.avail = "Unavailable"] \in Status
    BY <1>4, Zenon DEF Status, ProgReasons, AvailReasons
  <2>6. PreviousRevisions(rec.rev) \in SUBSET Revs BY DEF PreviousRevisions
  <2>7. RolloutComplete(Transition(inTransition)) => rec' \in Rec /\ faults' \in 0..MaxFaults
    BY <1>1, <1>4, <2>6, TypeArchiveNext, Counters, Returns, Zenon DEF RolloutComplete, Return, TypeOK
  <2>8. rec' \in Rec /\ faults' \in 0..MaxFaults /\ rolledOut' \subseteq Revs
    BY <1>1, <1>3, <2>1, <2>5, <2>7, Returns, Zenon DEF Return, TypeOK
  <2> QED BY <1>5, <2>2, <2>3, <2>4, <2>8, ZenonT(30) DEF EngineReconcile, TypeOK, apiVars, envVars
<1>6. CASE EngineFails
  <2>1. objs' \in [Objects -> Object] BY <1>2, <1>6, Zenon DEF EngineFails, TypeOK
  <2>2. watching' \subseteq Revs BY <1>1, <1>6, Zenon DEF EngineFails, TypeOK
  <2>3. queue' \subseteq Revs BY <1>6, <2>1, Notifications, Zenon DEF EngineFails, TypeOK
  <2>4. rec' \in Rec BY <1>3, <1>6, Zenon DEF EngineFails, Return
  <2>5. faults' \in 0..MaxFaults BY <1>6, Counters DEF EngineFails
  <2> QED BY <1>6, <2>1, <2>2, <2>3, <2>4, <2>5 DEF EngineFails, TypeOK, apiVars, envVars
<1> QED BY <1>5, <1>6

LEMMA TypeArchivePrevious ==
    ASSUME TypeOK, NEW q \in Revs, ArchivePrevious(q)
    PROVE  TypeOK'
<1>1. rec \in Rec /\ rec.local \in Status /\ rec.todo \subseteq Revs BY DEF TypeOK, Rec
<1>2. [cos[q] EXCEPT !.archived = TRUE] \in COS BY ZenonT(30) DEF TypeOK, COS
<1>3. Returned(rec, rec.local, TRUE) \in Rec BY <1>1, Returns, Zenon
<1>4. cos' \in [Revs -> COS] /\ synced' \subseteq Revs
  BY <1>2, StoredType, Zenon DEF ArchivePrevious, apiVars, TypeOK
<1>5. rec' \in Rec BY <1>1, <1>3, TypeArchiveNext, Zenon DEF ArchivePrevious, Return
<1>6. faults' \in 0..MaxFaults BY Counters, Zenon DEF ArchivePrevious, TypeOK
<1> QED BY <1>4, <1>5, <1>6 DEF ArchivePrevious, TypeOK, envVars

LEMMA TypeUpdateStatus ==
    ASSUME TypeOK, UpdateStatus
    PROVE  TypeOK'
<1> DEFINE st == IF GivenUp THEN [rec.local EXCEPT !.prog = "ProgressDeadlineExceeded"]
                 ELSE rec.local
<1>1. rec \in Rec /\ rec.local \in Status /\ rec.rev \in Revs BY DEF TypeOK, Rec
<1>2. st \in Status BY <1>1 DEF Status, ProgReasons
<1>3. [cos[rec.rev] EXCEPT !.status = st] \in COS BY <1>1, <1>2 DEF TypeOK, COS
<1>4. \/ UNCHANGED <<cos, synced>>
      \/ Stored(rec.rev, [cos[rec.rev] EXCEPT !.status = st])
  BY DEF UpdateStatus, apiVars
<1>5. cos' \in [Revs -> COS] /\ synced' \subseteq Revs
  BY <1>1, <1>3, <1>4, StoredType DEF TypeOK
<1>6. rec' = Idle /\ queue' \subseteq Revs BY <1>1 DEF UpdateStatus, TypeOK
<1>7. faults' \in 0..MaxFaults BY Counters DEF UpdateStatus, TypeOK
<1> QED BY <1>5, <1>6, <1>7, Constructors DEF UpdateStatus, TypeOK, envVars

LEMMA TypeCrash ==
    ASSUME TypeOK, Crash
    PROVE  TypeOK'
<1>1. tcache' \in [Revs -> {"absent", "inactive", "active"}] BY Constructors DEF Crash
<1> QED BY <1>1, Constructors, Counters DEF Crash, TypeOK, envVars

LEMMA TypeRevisionEvents ==
    ASSUME TypeOK,
           \/ DeleteExtension
           \/ \E r \in Revs : CreateRevision(r) \/ DeleteRevision(r) \/ PassDeadline(r)
    PROVE  TypeOK'
<1>1. CASE DeleteExtension BY <1>1, Counters DEF DeleteExtension, TypeOK, apiVars
<1>2. ASSUME NEW r \in Revs, CreateRevision(r) PROVE TypeOK'
  <2>1. [Absent EXCEPT !.exists = TRUE] \in COS BY Constructors, Zenon DEF COS
  <2>2. cos' \in [Revs -> COS] /\ synced' \subseteq Revs
    BY <1>2, <2>1, StoredType DEF CreateRevision
  <2>3. latest' \in 0..N BY <1>2, NAssumption DEF CreateRevision, Revs
  <2> QED BY <1>2, <2>2, <2>3 DEF CreateRevision, TypeOK
<1>3. ASSUME NEW r \in Revs, DeleteRevision(r) PROVE TypeOK'
  <2>1. [cos[r] EXCEPT !.deleting = TRUE] \in COS BY ZenonT(30) DEF TypeOK, COS
  <2>2. (IF cos[r].fin THEN [cos[r] EXCEPT !.deleting = TRUE] ELSE Absent) \in COS
    BY <2>1, Constructors
  <2>3. cos' \in [Revs -> COS] /\ synced' \subseteq Revs
    BY <1>3, <2>2, StoredType DEF DeleteRevision
  <2>4. rec' \in Rec BY <1>3, Zenon DEF DeleteRevision, Overtaken, TypeOK, Rec
  <2> QED BY <1>3, <2>3, <2>4 DEF DeleteRevision, TypeOK, envVars
<1>4. ASSUME NEW r \in Revs, PassDeadline(r) PROVE TypeOK'
  BY <1>4 DEF PassDeadline, TypeOK, apiVars
<1> QED BY <1>1, <1>2, <1>3, <1>4

\* A change of one object keeps the types.
LEMMA TypeObjectEvent ==
    ASSUME TypeOK, NEW o \in Objects, NEW v \in Object, ObjectEvent(o, v),
           drift' \in 0..MaxDrift
    PROVE  TypeOK'
<1>1. objs' \in [Objects -> Object] BY DEF ObjectEvent, TypeOK
<1>2. queue' \subseteq Revs BY <1>1, Notifications, Zenon DEF ObjectEvent, TypeOK
<1> QED BY <1>1, <1>2, Zenon DEF ObjectEvent, TypeOK, apiVars

LEMMA TypeObjectEvents ==
    ASSUME TypeOK, NEW o \in Objects,
           \/ ObjectReady(o) \/ ObjectUnready(o) \/ ObjectDeleted(o)
           \/ ForeignCreates(o) \/ GarbageCollect(o)
    PROVE  TypeOK'
<1>1. objs[o] \in Object BY DEF TypeOK
<1>2. drift' = drift => drift' \in 0..MaxDrift BY DEF TypeOK
<1>3. CASE ObjectReady(o)
  <2>1. [objs[o] EXCEPT !.ready = TRUE] \in Object BY <1>1, Zenon DEF Object
  <2> QED BY <1>2, <1>3, <2>1, TypeObjectEvent DEF ObjectReady
<1>4. CASE ObjectUnready(o)
  <2>1. [objs[o] EXCEPT !.ready = FALSE] \in Object BY <1>1, Zenon DEF Object
  <2> QED BY <1>4, <2>1, Counters, TypeObjectEvent DEF ObjectUnready
<1>5. CASE ObjectDeleted(o)
  BY <1>5, Constructors, Counters, TypeObjectEvent DEF ObjectDeleted
<1>6. CASE ForeignCreates(o)
  <2>1. [NoObject EXCEPT !.exists = TRUE, !.ctrl = Foreign] \in Object
    <3>1. N + 1 \in 0..(N + 1) BY NAssumption
    <3> QED BY <3>1, Constructors, Zenon DEF Object, Foreign
  <2> QED BY <1>6, <2>1, Counters, TypeObjectEvent DEF ForeignCreates
<1>7. CASE GarbageCollect(o)
  <2> DEFINE live == {q \in objs[o].owners : cos[q].exists}
  <2>1. [objs[o] EXCEPT !.owners = live, !.ctrl = IF @ \in live THEN @ ELSE NoCtrl] \in Object
    <3>1. 0 \in 0..(N + 1) BY NAssumption
    <3>2. live \subseteq Revs BY <1>1 DEF Object
    <3> QED BY <1>1, <3>1, <3>2, Zenon DEF Object, NoCtrl
  <2>2. (IF live = {} THEN NoObject
         ELSE [objs[o] EXCEPT !.owners = live,
                              !.ctrl = IF @ \in live THEN @ ELSE NoCtrl]) \in Object
    BY <2>1, Constructors
  <2> HIDE DEF live
  <2>3. ObjectEvent(o, IF live = {} THEN NoObject
                       ELSE [objs[o] EXCEPT !.owners = live,
                                            !.ctrl = IF @ \in live THEN @ ELSE NoCtrl])
        /\ drift' = drift
    BY <1>7 DEF GarbageCollect, live
  <2> QED BY <1>2, <2>2, <2>3, TypeObjectEvent
<1> QED BY <1>3, <1>4, <1>5, <1>6, <1>7

LEMMA TypeNext == TypeOK /\ [Next]_vars => TypeOK'
<1> SUFFICES ASSUME TypeOK, [Next]_vars PROVE TypeOK' OBVIOUS
<1>1. CASE CacheSync \/ TrackingSync BY <1>1, TypeInformers
<1>2. CASE Reconcile
  BY <1>2, TypeDequeue, TypeFinalizers, TypeEngine, TypeArchivePrevious, TypeTeardown,
     TypeUpdateStatus DEF Reconcile
<1>3. CASE Crash BY <1>3, TypeCrash
<1>4. CASE Environment BY <1>4, TypeRevisionEvents, TypeObjectEvents DEF Environment
<1>5. CASE UNCHANGED vars BY <1>5 DEF vars, TypeOK
<1> QED BY <1>1, <1>2, <1>3, <1>4, <1>5 DEF Next

\* Every reachable state of the controller and its environment is well typed.
THEOREM TypeCorrect == Spec => []TypeOK
BY TypeInit, TypeNext, PTL DEF Spec

(***************************************************************************)
(* The teardown finalizer guards everything a revision holds: the          *)
(* inductive invariant GuardInvariant, and what follows from it.           *)
(***************************************************************************)

\* Storing revision r changes that revision only.
LEMMA StoredFacts ==
    ASSUME TypeOK, NEW r \in Revs, NEW c, Stored(r, c)
    PROVE  /\ cos'[r] = c
           /\ \A q \in Revs : q # r => cos'[q] = cos[q]
           /\ synced' \subseteq synced
           /\ r \in synced' => c = cos[r]
BY DEF TypeOK, Stored

\* The fields of a record that leaves for the status update.
LEMMA ReturnedFacts ==
    ASSUME NEW m \in Rec, NEW st, NEW again
    PROVE  LET m2 == Returned(m, st, again)
           IN /\ m2.pc = "status" /\ m2.rev = m.rev /\ m2.cur = m.cur
              /\ m2.orig = m.orig /\ m2.local = st /\ m2.fin = m.fin
BY DEF Returned, Rec

\* The fields of a record that goes on archiving the revisions in todo, or leaves.
LEMMA ArchiveNextFacts ==
    ASSUME rec \in Rec, NEW todo, NEW st, ArchiveNext(todo, st)
    PROVE  /\ rec'.pc \in {"status", "archivePrevious"} /\ rec'.rev = rec.rev
           /\ rec'.cur = rec.cur /\ rec'.orig = rec.orig
           /\ rec'.pc = "archivePrevious" => rec'.todo = todo
<1>1. CASE todo = {}
  <2>1. rec' = Returned(rec, markAsSucceeded(st), FALSE)
    BY <1>1 DEF ArchiveNext, Return
  <2> QED BY <2>1 DEF Returned, Rec
<1>2. CASE todo # {}
  <2>1. rec' = [rec EXCEPT !.pc = "archivePrevious", !.local = st, !.todo = todo,
                           !.prev = {}, !.sibs = {}]
    BY <1>2, Zenon DEF ArchiveNext
  <2> QED BY <2>1 DEF Rec
<1> QED BY <1>1, <1>2

LEMMA CopyFacts ==
    ASSUME TypeOK, NEW r \in Revs
    PROVE  /\ Copy(r).rev = r /\ (Copy(r).cur <=> r \in synced)
           /\ Copy(r).orig = cache[r].status /\ Copy(r).local = cache[r].status
BY Zenon DEF Copy, Idle

\* Absent is a revision without anything.
LEMMA AbsentFacts == ~Absent.exists /\ ~Absent.archived /\ ~Absent.deleting /\ ~Absent.fin
BY DEF Absent

\* The cache stays safely behind when a stored revision moves forward, and loses
\* its finalizer only if the cache shows it archived, deleted or gone.
LEMMA StoredKeepsCache ==
    ASSUME TypeOK, CacheLagsSafely, NEW r \in Revs, NEW c \in COS, Stored(r, c),
           cache' = cache, cache[r].archived \/ cache[r].deleting => Gone(c),
           cos[r].fin => c.fin \/ Gone(cache[r])
    PROVE  CacheLagsSafely'
BY StoredFacts DEF CacheLagsSafely, Gone, TypeOK

\* The finalizer keeps guarding when a stored revision neither loses it nor comes
\* back from absence or deletion.
LEMMA StoredKeepsGuard ==
    ASSUME TypeOK, OwnersAreGuarded, NEW r \in Revs, NEW c \in COS, Stored(r, c),
           objs' = objs, watching' = watching, cos[r].fin => c.fin,
           c.exists /\ ~c.deleting => cos[r].exists /\ ~cos[r].deleting
    PROVE  OwnersAreGuarded'
<1>1. \A o \in Objects : objs[o].owners \subseteq Revs BY DEF TypeOK, Object
<1> QED BY <1>1, StoredFacts DEF OwnersAreGuarded, TypeOK

\* Storing a revision the extension has reached touches none beyond.
LEMMA StoredKeepsNumbers ==
    ASSUME TypeOK, NumbersInOrder, NEW r \in Revs, r <= latest, NEW c, Stored(r, c),
           UNCHANGED <<cache, objs, watching, latest>>,
           rec'.pc # "idle" => rec'.rev <= latest
    PROVE  NumbersInOrder'
<1>1. latest \in Nat /\ \A q \in Revs : q \in Nat BY NAssumption DEF TypeOK, Revs
<1>2. \A q \in Revs : q > latest => q # r BY <1>1
<1> QED BY <1>2, StoredFacts DEF NumbersInOrder

LEMMA GuardInit == Init => GuardInvariant
<1> SUFFICES ASSUME Init PROVE GuardInvariant OBVIOUS
<1>1. \A o \in Objects : objs[o].owners = {} BY DEF Init, NoObject
<1>2. \A r \in Revs : cos[r] = Absent /\ cache[r] = Absent BY DEF Init
<1>3. rec.pc = "idle" BY DEF Init, Idle
<1>4. NumbersInOrder BY <1>1, <1>2, <1>3 DEF NumbersInOrder, Init
<1>5. CacheLagsSafely BY <1>2, AbsentFacts DEF CacheLagsSafely, Gone, Init
<1>6. OwnsOnlyListed /\ OwnersAreGuarded BY <1>1 DEF OwnsOnlyListed, OwnersAreGuarded, Init
<1>7. ReconcileKnows BY <1>3 DEF ReconcileKnows
<1> QED BY <1>4, <1>5, <1>6, <1>7 DEF GuardInvariant

LEMMA GuardInformers ==
    ASSUME TypeOK, GuardInvariant, CacheSync \/ TrackingSync
    PROVE  GuardInvariant'
<1>1. CASE CacheSync
  <2>1. /\ cache' = cos /\ synced' = Revs
        /\ UNCHANGED <<cos, objs, watching, rec, latest>>
    BY <1>1 DEF CacheSync, envVars
  <2>2. NumbersInOrder' BY <2>1 DEF GuardInvariant, NumbersInOrder
  <2>3. CacheLagsSafely' BY <2>1 DEF CacheLagsSafely, Gone
  <2>4. OwnsOnlyListed' /\ OwnersAreGuarded'
    BY <2>1 DEF GuardInvariant, OwnsOnlyListed, OwnersAreGuarded
  <2>5. ReconcileKnows' BY <2>1 DEF GuardInvariant, ReconcileKnows, Gone
  <2> QED BY <2>2, <2>3, <2>4, <2>5 DEF GuardInvariant
<1>2. CASE TrackingSync
  BY <1>2 DEF TrackingSync, envVars, GuardInvariant, NumbersInOrder, CacheLagsSafely,
     OwnsOnlyListed, OwnersAreGuarded, ReconcileKnows, Gone
<1> QED BY <1>1, <1>2

\* A step that only moves the reconcile on, or stops informers, has only the
\* facts about the reconcile to establish.
LEMMA GuardReconcileOnly ==
    ASSUME TypeOK, GuardInvariant, UNCHANGED <<cos, cache, synced, objs, latest>>,
           watching' \subseteq watching, ReconcileKnows', rec'.pc # "idle" => rec'.rev <= latest
    PROVE  GuardInvariant'
<1>1. NumbersInOrder' BY DEF GuardInvariant, NumbersInOrder
<1>2. CacheLagsSafely' BY DEF GuardInvariant, CacheLagsSafely, Gone
<1>3. OwnsOnlyListed' /\ OwnersAreGuarded'
  BY DEF GuardInvariant, OwnsOnlyListed, OwnersAreGuarded
<1> QED BY <1>1, <1>2, <1>3 DEF GuardInvariant

\* Leaving for the status update needs no more than the record it started with.
LEMMA GuardReturn ==
    ASSUME TypeOK, GuardInvariant, NEW st, NEW again, Return(st, again), rec.pc # "idle",
           cos' = cos, latest' = latest
    PROVE  ReconcileKnows' /\ rec'.rev <= latest
BY ReturnedFacts DEF Return, TypeOK, GuardInvariant, ReconcileKnows, NumbersInOrder

LEMMA GuardDequeue ==
    ASSUME TypeOK, GuardInvariant, NEW r \in Revs,
           ReconcileNotFound(r) \/ ReconcileDelete(r) \/ ReconcileRevision(r)
    PROVE  GuardInvariant'
<1> DEFINE m == Copy(r)
<1>1. UNCHANGED <<cos, cache, synced, objs, latest>> /\ watching' \subseteq watching
  BY Zenon DEF ReconcileNotFound, ReconcileDelete, ReconcileRevision, Dequeue, apiVars, envVars
<1>2. cache[r].exists => r <= latest
  BY AbsentFacts DEF GuardInvariant, NumbersInOrder, TypeOK, Revs
<1>3. m \in Rec /\ m.rev = r /\ m.orig = cache[r].status /\ m.local = cache[r].status
  BY Copies, CopyFacts
<1>4. m.cur => cos[r] = cache[r] BY CopyFacts DEF GuardInvariant, CacheLagsSafely
<1> HIDE DEF m
<1>5. ASSUME NEW st, NEW again, rec' = Returned(m, st, again), cache[r].exists
      PROVE  GuardInvariant'
  <2>1. rec'.pc = "status" /\ rec'.rev = r /\ rec'.cur = m.cur /\ rec'.orig = m.orig
    BY <1>3, <1>5, ReturnedFacts
  <2>2. ReconcileKnows' BY <1>1, <1>3, <1>4, <2>1 DEF ReconcileKnows
  <2> QED BY <1>1, <1>2, <1>5, <2>1, <2>2, GuardReconcileOnly
<1>6. CASE ReconcileNotFound(r)
  <2>1. rec' = rec /\ watching' = watching BY <1>6 DEF ReconcileNotFound
  <2>2. ReconcileKnows' /\ (rec'.pc # "idle" => rec'.rev <= latest)
    BY <1>1, <2>1 DEF GuardInvariant, ReconcileKnows, NumbersInOrder, Gone
  <2> QED BY <1>1, <2>2, GuardReconcileOnly
<1>7. CASE ReconcileDelete(r)
  <2>1. cache[r].exists /\ cache[r].deleting BY <1>7 DEF ReconcileDelete
  <2>2. CASE rec' = [m EXCEPT !.pc = "removeFinalizer"] /\ watching' = watching \ {r}
    <3>1. rec'.pc = "removeFinalizer" /\ rec'.rev = r /\ rec'.cur = m.cur /\ rec'.orig = m.orig
      BY <1>3, <2>2 DEF Rec
    <3>2. Gone(cos[r]) /\ Gone(cache[r])
      BY <2>1 DEF GuardInvariant, CacheLagsSafely, Gone
    <3>3. ReconcileKnows' BY <1>1, <1>3, <1>4, <2>1, <2>2, <3>1, <3>2 DEF ReconcileKnows, Gone
    <3> QED BY <1>1, <1>2, <2>1, <3>1, <3>3, GuardReconcileOnly
  <2> QED BY <1>5, <1>7, <2>1, <2>2, Zenon DEF ReconcileDelete, m
<1>8. CASE ReconcileRevision(r)
  <2>1. cache[r].exists /\ ~cache[r].deleting /\ watching' = watching
    BY <1>8 DEF ReconcileRevision
  <2>2. CASE rec' = [m EXCEPT !.pc = IF cache[r].archived THEN "teardown"
                                     ELSE IF cache[r].fin THEN "engine" ELSE "finalizer",
                              !.prev = PreviousRevisions(r), !.sibs = SiblingRevisions]
    <3>1. /\ rec'.pc = IF cache[r].archived THEN "teardown"
                       ELSE IF cache[r].fin THEN "engine" ELSE "finalizer"
          /\ rec'.rev = r /\ rec'.cur = m.cur /\ rec'.orig = m.orig /\ rec'.local = m.local
      BY <1>3, <2>2 DEF Rec
    <3>2. cache[r].archived => Gone(cos[r]) /\ Gone(cache[r])
      BY DEF GuardInvariant, CacheLagsSafely, Gone
    <3>3. ~cache[r].archived /\ cache[r].fin => cos[r].fin
      BY <2>1 DEF GuardInvariant, CacheLagsSafely, Gone
    <3>4. ReconcileKnows'
      BY <1>1, <1>3, <1>4, <3>1, <3>2, <3>3 DEF ReconcileKnows, Gone
    <3> QED BY <1>1, <1>2, <2>1, <3>1, <3>4, GuardReconcileOnly
  <2> QED BY <1>5, <1>8, <2>1, <2>2, Zenon DEF ReconcileRevision, m
<1> QED BY <1>6, <1>7, <1>8

\* A teardown only takes the revision off objects; a complete one off all of its own.
LEMMA TornDownFacts ==
    ASSUME TypeOK, NEW done, TeardownObjects(done)
    PROVE  /\ \A o \in Objects : objs'[o].owners \subseteq objs[o].owners
           /\ \A o \in Objects \cap done : rec.rev \notin objs'[o].owners
           /\ watching' = watching \ {rec.rev}
           /\ UNCHANGED <<cos, synced, cache, latest>>
<1>1. objs' = [o \in Objects |-> IF o \in done THEN TornDown(rec.rev, o) ELSE objs[o]]
  BY DEF TeardownObjects, AfterTeardown
<1>2. ASSUME NEW o \in Objects
      PROVE  /\ TornDown(rec.rev, o).owners \subseteq objs[o].owners
             /\ rec.rev \notin TornDown(rec.rev, o).owners
  BY DEF TypeOK, Object, TornDown, NoObject
<1> QED BY <1>1, <1>2 DEF TeardownObjects, apiVars, envVars

\* A teardown keeps the invariant once the reconcile is known to go on properly.
LEMMA GuardTornDown ==
    ASSUME TypeOK, GuardInvariant, NEW done, TeardownObjects(done), ReconcileKnows',
           rec'.rev <= latest
    PROVE  GuardInvariant'
<1>1. NumbersInOrder' BY TornDownFacts DEF GuardInvariant, NumbersInOrder
<1>2. CacheLagsSafely' BY TornDownFacts DEF GuardInvariant, CacheLagsSafely, Gone
<1>3. OwnsOnlyListed' BY TornDownFacts DEF GuardInvariant, OwnsOnlyListed
<1>4. OwnersAreGuarded' BY TornDownFacts DEF GuardInvariant, OwnersAreGuarded
<1> QED BY <1>1, <1>2, <1>3, <1>4 DEF GuardInvariant

LEMMA GuardTeardown ==
    ASSUME TypeOK, GuardInvariant,
           TeardownComplete \/ TeardownIncomplete \/ TeardownFails \/ FreeFails
    PROVE  GuardInvariant'
<1>1. rec.pc = "teardown" /\ rec \in Rec
  BY Zenon DEF TeardownComplete, TeardownIncomplete, TeardownFails, FreeFails, TeardownObjects, TypeOK
<1>2. ASSUME NEW done, TeardownObjects(done), NEW st, NEW again, Return(st, again)
      PROVE  GuardInvariant'
  BY <1>1, <1>2, TornDownFacts, GuardReturn, GuardTornDown
<1>3. CASE TeardownComplete
  <2>1. TeardownObjects(Objs(rec.rev)) BY <1>3 DEF TeardownComplete
  <2>2. CASE markAsArchived(rec.local) = rec.local /\ rec' = [rec EXCEPT !.pc = "removeFinalizer"]
    <3>1. /\ rec'.pc = "removeFinalizer" /\ rec'.rev = rec.rev /\ rec'.cur = rec.cur
          /\ rec'.orig = rec.orig
      BY <1>1, <2>2 DEF Rec
    <3>2. rec.local.prog = "Archived"
      <4>1. rec.local \in Status BY <1>1 DEF Rec
      <4> QED BY <2>2, <4>1, Zenon DEF markAsArchived, Status
    <3>3. rec.cur => cos[rec.rev].status.prog = "Archived"
      BY <1>1, <3>2 DEF GuardInvariant, ReconcileKnows
    <3>4. \A o \in Objects : rec.rev \notin objs'[o].owners
      BY <2>1, TornDownFacts DEF GuardInvariant, OwnsOnlyListed
    <3>5. UNCHANGED <<cos, cache>> /\ rec.rev \notin watching' BY <2>1, TornDownFacts
    <3>6. ReconcileKnows'
      BY <1>1, <3>1, <3>3, <3>4, <3>5 DEF GuardInvariant, ReconcileKnows, Gone
    <3>7. rec'.rev <= latest BY <1>1, <3>1 DEF GuardInvariant, NumbersInOrder
    <3> QED BY <2>1, <3>6, <3>7, GuardTornDown
  <2> QED BY <1>2, <1>3, <2>1, <2>2, Zenon DEF TeardownComplete
<1>4. CASE TeardownIncomplete BY <1>2, <1>4, Zenon DEF TeardownIncomplete
<1>5. CASE TeardownFails BY <1>2, <1>5, Zenon DEF TeardownFails
<1>6. CASE FreeFails
  <2>1. UNCHANGED <<cos, cache, synced, objs, latest, watching>>
    BY <1>6 DEF FreeFails, apiVars, envVars
  <2>2. ReconcileKnows' /\ rec'.rev <= latest BY <1>1, <1>6, <2>1, GuardReturn, Zenon DEF FreeFails
  <2> QED BY <2>1, <2>2, GuardReconcileOnly
<1> QED BY <1>3, <1>4, <1>5, <1>6

LEMMA GuardRemoveFinalizer ==
    ASSUME TypeOK, GuardInvariant, RemoveFinalizer
    PROVE  GuardInvariant'
<1> DEFINE r == rec.rev
           c == IF cos[r].deleting THEN Absent ELSE [cos[r] EXCEPT !.fin = FALSE]
<1>1. rec.pc = "removeFinalizer" /\ rec \in Rec /\ r \in Revs /\ cos[r] \in COS
  BY DEF RemoveFinalizer, TypeOK, Rec
<1>2. UNCHANGED <<cache, objs, watching, latest>> BY DEF RemoveFinalizer, envVars
<1>3. Gone(cos[r]) /\ Gone(cache[r]) /\ r \notin watching /\ r <= latest
  BY <1>1 DEF GuardInvariant, ReconcileKnows, NumbersInOrder
<1>4. CASE UNCHANGED <<cos, synced>> /\ \E again \in BOOLEAN : Return(rec.local, again)
  <2>1. ReconcileKnows' /\ rec'.rev <= latest BY <1>1, <1>2, <1>4, GuardReturn
  <2> QED BY <1>2, <1>4, <2>1, GuardReconcileOnly
<1>5. CASE /\ rec.fin /\ rec.cur /\ Stored(r, c)
           /\ rec' = [rec EXCEPT !.pc = "status", !.fin = FALSE, !.cur = ~cos[r].deleting]
  <2>1. /\ rec'.pc = "status" /\ rec'.rev = r /\ rec'.orig = rec.orig
        /\ rec'.cur <=> ~cos[r].deleting
    BY <1>1, <1>5, Zenon DEF Rec
  <2>2. /\ c \in COS /\ ~c.fin /\ ~c.deleting
        /\ c.exists => /\ ~cos[r].deleting /\ c.archived = cos[r].archived
                       /\ c.exists = cos[r].exists
        /\ ~cos[r].deleting => c.status = cos[r].status
    BY <1>1, AbsentFacts, Constructors, Zenon DEF COS
  <2>3. cos'[r] = c /\ \A q \in Revs : q # r => cos'[q] = cos[q] BY <1>1, <1>5, StoredFacts
  <2>4. Gone(c) BY <1>3, <2>2 DEF Gone
  <2> HIDE DEF c
  <2>5. NumbersInOrder'
    BY <1>1, <1>2, <1>3, <1>5, <2>1, StoredKeepsNumbers DEF GuardInvariant
  <2>6. CacheLagsSafely'
    BY <1>1, <1>2, <1>3, <1>5, <2>2, <2>4, StoredKeepsCache DEF GuardInvariant
  <2>7. OwnsOnlyListed' BY <1>2 DEF GuardInvariant, OwnsOnlyListed
  <2>8. ReconcileKnows'
    BY <1>1, <1>5, <2>1, <2>2, <2>3 DEF GuardInvariant, ReconcileKnows
  <2>9. OwnersAreGuarded'
    <3>1. ASSUME NEW o \in Objects, NEW q \in objs[o].owners, cos'[q].exists, ~cos'[q].deleting
          PROVE  cos'[q].fin
      <4>1. q \in Revs BY DEF TypeOK, Object
      <4>2. q # r
        BY <1>1, <1>5, <2>2, <2>3, <3>1 DEF GuardInvariant, ReconcileKnows
      <4> QED BY <2>3, <3>1, <4>1, <4>2 DEF GuardInvariant, OwnersAreGuarded
    <3>2. \A q \in watching : cos'[q].fin
      BY <1>3, <2>3 DEF GuardInvariant, OwnersAreGuarded, TypeOK
    <3> QED BY <1>2, <3>1, <3>2 DEF OwnersAreGuarded
  <2> QED BY <2>5, <2>6, <2>7, <2>8, <2>9 DEF GuardInvariant
<1> QED BY <1>4, <1>5, Zenon DEF RemoveFinalizer, apiVars

LEMMA GuardEnsureFinalizer ==
    ASSUME TypeOK, GuardInvariant, EnsureFinalizer
    PROVE  GuardInvariant'
<1> DEFINE r == rec.rev
           c == [cos[r] EXCEPT !.fin = TRUE]
<1>1. rec.pc = "finalizer" /\ rec \in Rec /\ r \in Revs /\ cos[r] \in COS
  BY DEF EnsureFinalizer, TypeOK, Rec
<1>2. UNCHANGED <<cache, objs, watching, latest>> BY DEF EnsureFinalizer, envVars
<1>3. r <= latest BY <1>1 DEF GuardInvariant, NumbersInOrder
<1>4. CASE UNCHANGED <<cos, synced>> /\ Return(rec.local, TRUE)
  <2>1. ReconcileKnows' /\ rec'.rev <= latest BY <1>1, <1>2, <1>4, GuardReturn, Zenon
  <2> QED BY <1>2, <1>4, <2>1, GuardReconcileOnly
<1>5. CASE rec.cur /\ Stored(r, c) /\ rec' = [rec EXCEPT !.pc = "engine", !.fin = TRUE]
  <2>1. rec'.pc = "engine" /\ rec'.rev = r /\ rec'.orig = rec.orig /\ rec'.cur = rec.cur
    BY <1>1, <1>5, Zenon DEF Rec
  <2>2. /\ c \in COS /\ c.fin /\ c.deleting = cos[r].deleting /\ c.archived = cos[r].archived
        /\ c.exists = cos[r].exists /\ c.status = cos[r].status
    BY <1>1, Zenon DEF COS
  <2>3. cos'[r] = c /\ \A q \in Revs : q # r => cos'[q] = cos[q] BY <1>1, <1>5, StoredFacts
  <2>4. cache[r].archived \/ cache[r].deleting => Gone(c)
    BY <1>1, <2>2 DEF GuardInvariant, CacheLagsSafely, Gone
  <2> HIDE DEF c
  <2>5. NumbersInOrder'
    BY <1>1, <1>2, <1>3, <1>5, <2>1, StoredKeepsNumbers DEF GuardInvariant
  <2>6. CacheLagsSafely'
    BY <1>1, <1>2, <1>5, <2>2, <2>4, StoredKeepsCache DEF GuardInvariant
  <2>7. OwnsOnlyListed' BY <1>2 DEF GuardInvariant, OwnsOnlyListed
  <2>8. ReconcileKnows'
    BY <1>1, <1>5, <2>1, <2>2, <2>3 DEF GuardInvariant, ReconcileKnows
  <2>9. OwnersAreGuarded' BY <1>1, <1>2, <1>5, <2>2, StoredKeepsGuard DEF GuardInvariant
  <2> QED BY <2>5, <2>6, <2>7, <2>8, <2>9 DEF GuardInvariant
<1> QED BY <1>4, <1>5, Zenon DEF EnsureFinalizer, apiVars

\* Applying an object adds the revision as owner of an object of its phases.
LEMMA EngineApplies ==
    ASSUME TypeOK, GuardInvariant, EngineReconcile \/ EngineFails
    PROVE  /\ rec.pc = "engine" /\ rec \in Rec /\ rec.rev \in Revs /\ rec.rev <= latest
           /\ UNCHANGED <<cos, synced, cache, latest>>
           /\ watching' \subseteq watching \cup {rec.rev}
           /\ \A o \in Objects :
                \/ objs'[o].owners = objs[o].owners
                \/ o \in Objs(rec.rev) /\ objs'[o].owners = objs[o].owners \cup {rec.rev}
<1>1. rec.pc = "engine" /\ rec \in Rec /\ rec.rev \in Revs
  BY Zenon DEF EngineReconcile, EngineFails, TypeOK, Rec
<1>2. rec.rev <= latest BY <1>1 DEF GuardInvariant, NumbersInOrder
<1>3. UNCHANGED <<cos, synced, cache, latest>> /\ watching' \subseteq watching \cup {rec.rev}
  BY Zenon DEF EngineReconcile, EngineFails, apiVars, envVars
<1>4. \E S \in SUBSET Objs(rec.rev) :
         objs' = [o \in Objects |-> IF o \in S THEN Applied(o) ELSE objs[o]]
  <2>1. ASSUME NEW p, NEW k
        PROVE  UNION {Phases[rec.rev][i] : i \in Reached(p, k)} \subseteq Objs(rec.rev)
    BY DEF Reached, Objs
  <2>2. CASE EngineReconcile
    <3>1. PICK p, k \in BOOLEAN :
            objs' = [o \in Objects |->
                       IF o \in UNION {Phases[rec.rev][i] : i \in Reached(p, k)}
                       THEN Applied(o) ELSE objs[o]]
      BY <2>2, Zenon DEF EngineReconcile
    <3> QED BY <2>1, <3>1, Zenon
  <2>3. CASE EngineFails /\ objs' = objs
    <3> WITNESS {} \in SUBSET Objs(rec.rev)
    <3> QED BY <2>3 DEF TypeOK
  <2>4. CASE EngineFails /\ objs' # objs
    <3>1. PICK p \in BOOLEAN :
            \E S \in SUBSET UNION {Phases[rec.rev][i] : i \in Reached(p, TRUE)} :
              objs' = [o \in Objects |-> IF o \in S THEN Applied(o) ELSE objs[o]]
      BY <2>4, Zenon DEF EngineFails
    <3> QED BY <2>1, <3>1, Zenon
  <2> QED BY <2>2, <2>3, <2>4
<1>5. ASSUME NEW o \in Objects
      PROVE  \/ Applied(o).owners = objs[o].owners
             \/ Applied(o).owners = objs[o].owners \cup {rec.rev}
  BY ZenonT(30) DEF Applied
<1> QED BY <1>1, <1>2, <1>3, <1>4, <1>5

LEMMA GuardEngine ==
    ASSUME TypeOK, GuardInvariant, EngineReconcile \/ EngineFails
    PROVE  GuardInvariant'
<1>1. /\ rec.pc = "engine" /\ rec \in Rec /\ rec.rev \in Revs /\ rec.rev <= latest
      /\ UNCHANGED <<cos, synced, cache, latest>>
      /\ watching' \subseteq watching \cup {rec.rev}
      /\ \A o \in Objects :
           \/ objs'[o].owners = objs[o].owners
           \/ o \in Objs(rec.rev) /\ objs'[o].owners = objs[o].owners \cup {rec.rev}
  BY EngineApplies
<1>2. /\ rec'.pc \in {"status", "archivePrevious"} /\ rec'.rev = rec.rev
      /\ rec'.cur = rec.cur /\ rec'.orig = rec.orig
  <2>1. (\E st, again : Return(st, again)) \/ \E todo, st : ArchiveNext(todo, st)
    BY Zenon DEF EngineReconcile, EngineFails, RolloutComplete
  <2> QED BY <1>1, <2>1, ArchiveNextFacts, ReturnedFacts DEF Return
<1>3. NumbersInOrder'
  <2>1. latest \in Nat /\ \A q \in Revs : q \in Nat BY NAssumption DEF TypeOK, Revs
  <2>2. \A q \in Revs : q > latest => q # rec.rev BY <1>1, <2>1
  <2> QED BY <1>1, <1>2, <2>2 DEF GuardInvariant, NumbersInOrder
<1>4. CacheLagsSafely' BY <1>1 DEF GuardInvariant, CacheLagsSafely, Gone
<1>5. OwnsOnlyListed' BY <1>1 DEF GuardInvariant, OwnsOnlyListed
<1>6. ReconcileKnows' BY <1>1, <1>2 DEF GuardInvariant, ReconcileKnows
<1>7. OwnersAreGuarded'
  <2>1. cos[rec.rev].fin BY <1>1 DEF GuardInvariant, ReconcileKnows
  <2> QED BY <1>1, <2>1 DEF GuardInvariant, OwnersAreGuarded
<1> QED BY <1>3, <1>4, <1>5, <1>6, <1>7 DEF GuardInvariant

LEMMA GuardArchivePrevious ==
    ASSUME TypeOK, GuardInvariant, NEW q \in Revs, ArchivePrevious(q)
    PROVE  GuardInvariant'
<1> DEFINE c == [cos[q] EXCEPT !.archived = TRUE]
<1>1. rec.pc = "archivePrevious" /\ rec \in Rec /\ rec.rev \in Revs /\ cos[q] \in COS
  BY DEF ArchivePrevious, TypeOK, Rec
<1>2. UNCHANGED <<cache, objs, watching, latest>> BY DEF ArchivePrevious, envVars
<1>3. CASE UNCHANGED <<cos, synced>> /\ Return(rec.local, TRUE)
  <2>1. ReconcileKnows' /\ rec'.rev <= latest BY <1>1, <1>2, <1>3, GuardReturn, Zenon
  <2> QED BY <1>2, <1>3, <2>1, GuardReconcileOnly
<1>4. CASE cos[q].exists /\ Stored(q, c) /\ ArchiveNext(rec.todo \ {q}, rec.local)
  <2>1. /\ rec'.pc \in {"status", "archivePrevious"} /\ rec'.rev = rec.rev
        /\ rec'.cur = rec.cur /\ rec'.orig = rec.orig
    BY <1>1, <1>4, ArchiveNextFacts
  <2>2. /\ c \in COS /\ c.fin = cos[q].fin /\ c.deleting = cos[q].deleting /\ c.archived
        /\ c.exists = cos[q].exists /\ c.status = cos[q].status
    BY <1>1, Zenon DEF COS
  <2>3. cos'[q] = c /\ \A x \in Revs : x # q => cos'[x] = cos[x] BY <1>4, StoredFacts
  <2>4. q <= latest
    <3>1. ~(q > latest) BY <1>4, AbsentFacts DEF GuardInvariant, NumbersInOrder
    <3> QED BY <3>1, NAssumption DEF TypeOK, Revs
  <2>5. rec'.rev <= latest BY <1>1, <2>1 DEF GuardInvariant, NumbersInOrder
  <2>6. Gone(c) BY <2>2 DEF Gone
  <2> HIDE DEF c
  <2>7. NumbersInOrder' BY <1>2, <1>4, <2>4, <2>5, StoredKeepsNumbers DEF GuardInvariant
  <2>8. CacheLagsSafely' BY <1>2, <1>4, <2>2, <2>6, StoredKeepsCache DEF GuardInvariant
  <2>9. OwnsOnlyListed' BY <1>2 DEF GuardInvariant, OwnsOnlyListed
  <2>10. ReconcileKnows' BY <1>1, <2>1, <2>2, <2>3 DEF GuardInvariant, ReconcileKnows
  <2>11. OwnersAreGuarded' BY <1>2, <1>4, <2>2, StoredKeepsGuard DEF GuardInvariant
  <2> QED BY <2>7, <2>8, <2>9, <2>10, <2>11 DEF GuardInvariant
<1> QED BY <1>3, <1>4, Zenon DEF ArchivePrevious, apiVars

LEMMA GuardUpdateStatus ==
    ASSUME TypeOK, GuardInvariant, UpdateStatus
    PROVE  GuardInvariant'
<1> DEFINE r == rec.rev
           st == IF GivenUp THEN [rec.local EXCEPT !.prog = "ProgressDeadlineExceeded"]
                 ELSE rec.local
           c == [cos[r] EXCEPT !.status = st]
<1>1. rec.pc = "status" /\ rec \in Rec /\ r \in Revs /\ cos[r] \in COS /\ r <= latest
  BY DEF UpdateStatus, TypeOK, Rec, GuardInvariant, NumbersInOrder
<1>2. UNCHANGED <<cache, objs, watching, latest>> BY DEF UpdateStatus, envVars
<1>3. rec'.pc = "idle" BY DEF UpdateStatus, Idle
<1>4. ReconcileKnows' BY <1>3 DEF ReconcileKnows
<1>5. CASE UNCHANGED <<cos, synced>> BY <1>2, <1>3, <1>4, <1>5, GuardReconcileOnly
<1>6. CASE Stored(r, c)
  <2>1. rec.local \in Status BY <1>1 DEF Rec
  <2>2. st \in Status BY <2>1 DEF Status, ProgReasons
  <2> HIDE DEF st
  <2>3. /\ c \in COS /\ c.fin = cos[r].fin /\ c.deleting = cos[r].deleting
        /\ c.archived = cos[r].archived /\ c.exists = cos[r].exists
    BY <1>1, <2>2 DEF COS
  <2>4. cache[r].archived \/ cache[r].deleting => Gone(c)
    BY <1>1, <2>3 DEF GuardInvariant, CacheLagsSafely, Gone
  <2> HIDE DEF c
  <2>5. NumbersInOrder' BY <1>1, <1>2, <1>3, <1>6, StoredKeepsNumbers DEF GuardInvariant
  <2>6. CacheLagsSafely'
    BY <1>1, <1>2, <1>6, <2>3, <2>4, StoredKeepsCache DEF GuardInvariant
  <2>7. OwnsOnlyListed' BY <1>2 DEF GuardInvariant, OwnsOnlyListed
  <2>8. OwnersAreGuarded' BY <1>1, <1>2, <1>6, <2>3, StoredKeepsGuard DEF GuardInvariant
  <2> QED BY <1>4, <2>5, <2>6, <2>7, <2>8 DEF GuardInvariant
<1> QED BY <1>5, <1>6 DEF UpdateStatus, apiVars

LEMMA GuardCrash ==
    ASSUME TypeOK, GuardInvariant, Crash
    PROVE  GuardInvariant'
<1>1. /\ rec'.pc = "idle" /\ watching' = {} /\ cache' = cos /\ synced' = Revs
      /\ UNCHANGED <<cos, objs, latest>>
  BY DEF Crash, Idle, envVars
<1>2. NumbersInOrder' BY <1>1 DEF GuardInvariant, NumbersInOrder
<1>3. CacheLagsSafely' BY <1>1 DEF CacheLagsSafely, Gone
<1>4. OwnsOnlyListed' /\ OwnersAreGuarded'
  BY <1>1 DEF GuardInvariant, OwnsOnlyListed, OwnersAreGuarded
<1>5. ReconcileKnows' BY <1>1 DEF ReconcileKnows
<1> QED BY <1>2, <1>3, <1>4, <1>5 DEF GuardInvariant

LEMMA GuardCreateRevision ==
    ASSUME TypeOK, GuardInvariant, NEW r \in Revs, CreateRevision(r)
    PROVE  GuardInvariant'
<1> DEFINE c == [Absent EXCEPT !.exists = TRUE]
<1>1. /\ Stored(r, c) /\ r = latest + 1 /\ latest' = r
      /\ UNCHANGED <<cache, objs, watching, rec>>
  BY DEF CreateRevision
<1>2. latest \in Nat /\ \A q \in Revs : q \in Nat BY NAssumption DEF TypeOK, Revs
<1>3. /\ cos[r] = Absent /\ cache[r] = Absent /\ r \notin watching
      /\ \A o \in Objects : r \notin objs[o].owners
  BY <1>1, <1>2 DEF GuardInvariant, NumbersInOrder
<1>4. c \in COS BY Constructors, Zenon DEF COS
<1>5. cos'[r] = c /\ \A q \in Revs : q # r => cos'[q] = cos[q] BY <1>1, StoredFacts
<1>6. rec \in Rec /\ rec.rev \in Revs BY DEF TypeOK, Rec
<1>7. rec.pc # "idle" => rec.rev # r /\ rec.rev <= latest /\ rec.rev <= r
  BY <1>1, <1>2, <1>6 DEF GuardInvariant, NumbersInOrder
<1> HIDE DEF c
<1>8. NumbersInOrder'
  <2>1. \A q \in Revs : q > latest' => q > latest /\ q # r BY <1>1, <1>2
  <2> QED BY <1>1, <1>5, <1>7, <2>1 DEF GuardInvariant, NumbersInOrder
<1>9. CacheLagsSafely'
  BY <1>1, <1>3, <1>4, AbsentFacts, StoredKeepsCache DEF GuardInvariant
<1>10. OwnsOnlyListed' BY <1>1 DEF GuardInvariant, OwnsOnlyListed
<1>11. OwnersAreGuarded'
  <2>1. \A o \in Objects : objs[o].owners \subseteq Revs BY DEF TypeOK, Object
  <2> QED BY <1>1, <1>3, <1>5, <2>1, Zenon DEF GuardInvariant, OwnersAreGuarded, TypeOK
<1>12. ReconcileKnows' BY <1>1, <1>5, <1>6, <1>7, Zenon DEF GuardInvariant, ReconcileKnows, Gone
<1> QED BY <1>8, <1>9, <1>10, <1>11, <1>12 DEF GuardInvariant

LEMMA GuardDeleteRevision ==
    ASSUME TypeOK, GuardInvariant, NEW r \in Revs, DeleteRevision(r)
    PROVE  GuardInvariant'
<1> DEFINE c == IF cos[r].fin THEN [cos[r] EXCEPT !.deleting = TRUE] ELSE Absent
<1>1. /\ Stored(r, c) /\ cos[r].exists /\ Overtaken(r)
      /\ UNCHANGED <<cache, objs, watching, latest>>
  BY DEF DeleteRevision, envVars
<1>2. cos[r] \in COS /\ rec \in Rec /\ rec.rev \in Revs BY DEF TypeOK, Rec
<1>3. /\ c \in COS /\ Gone(c) /\ (c.exists => c.deleting)
      /\ cos[r].fin => c.fin
  BY <1>2, Constructors, AbsentFacts, Zenon DEF COS, Gone
<1>4. cos'[r] = c /\ \A q \in Revs : q # r => cos'[q] = cos[q] BY <1>1, StoredFacts
<1>5. r <= latest
  <2>1. ~(r > latest) BY <1>1, AbsentFacts DEF GuardInvariant, NumbersInOrder
  <2> QED BY <2>1, NAssumption DEF TypeOK, Revs
<1>6. /\ rec'.pc = rec.pc /\ rec'.rev = rec.rev /\ rec'.orig = rec.orig
      /\ rec'.local = rec.local /\ (rec'.cur => rec.cur /\ rec.rev # r)
  BY <1>1, <1>2 DEF Overtaken, Rec
<1> HIDE DEF c
<1>7. NumbersInOrder'
  BY <1>1, <1>5, <1>6, StoredKeepsNumbers DEF GuardInvariant, NumbersInOrder
<1>8. CacheLagsSafely' BY <1>1, <1>3, StoredKeepsCache DEF GuardInvariant
<1>9. OwnsOnlyListed' BY <1>1 DEF GuardInvariant, OwnsOnlyListed
<1>10. OwnersAreGuarded' BY <1>1, <1>3, StoredKeepsGuard DEF GuardInvariant
<1>11. ReconcileKnows'
  <2>1. Gone(cos[rec.rev]) => Gone(cos'[rec.rev]) BY <1>2, <1>3, <1>4
  <2>2. cos[rec.rev].fin => cos'[rec.rev].fin BY <1>2, <1>3, <1>4
  <2> QED BY <1>1, <1>2, <1>4, <1>6, <2>1, <2>2 DEF GuardInvariant, ReconcileKnows, Gone
<1> QED BY <1>7, <1>8, <1>9, <1>10, <1>11 DEF GuardInvariant

\* Events of the cluster never add a revision as owner.
LEMMA ObjectEventFacts ==
    ASSUME TypeOK, NEW o \in Objects,
           \/ ObjectReady(o) \/ ObjectUnready(o) \/ ObjectDeleted(o)
           \/ ForeignCreates(o) \/ GarbageCollect(o)
    PROVE  /\ \A x \in Objects : objs'[x].owners \subseteq objs[x].owners
           /\ UNCHANGED <<cos, synced, cache, watching, rec, latest>>
<1>1. PICK v : ObjectEvent(o, v) /\ v.owners \subseteq objs[o].owners
  <2>1. objs[o] \in Object BY DEF TypeOK
  <2>2. NoObject.owners = {} /\ [NoObject EXCEPT !.exists = TRUE, !.ctrl = Foreign].owners = {}
    BY DEF NoObject
  <2>3. /\ [objs[o] EXCEPT !.ready = TRUE].owners = objs[o].owners
        /\ [objs[o] EXCEPT !.ready = FALSE].owners = objs[o].owners
    BY <2>1 DEF Object
  <2>4. ASSUME GarbageCollect(o)
        PROVE  \E v : ObjectEvent(o, v) /\ v.owners \subseteq objs[o].owners
    <3> DEFINE live == {q \in objs[o].owners : cos[q].exists}
               kept == [objs[o] EXCEPT !.owners = live, !.ctrl = IF @ \in live THEN @ ELSE NoCtrl]
    <3>1. kept.owners \subseteq objs[o].owners BY <2>1 DEF Object
    <3>2. ObjectEvent(o, IF live = {} THEN NoObject ELSE kept) BY <2>4 DEF GarbageCollect
    <3> HIDE DEF live, kept
    <3> QED BY <2>2, <3>1, <3>2
  <2> QED BY <2>2, <2>3, <2>4, Zenon DEF ObjectReady, ObjectUnready, ObjectDeleted, ForeignCreates
<1> QED BY <1>1 DEF ObjectEvent, TypeOK, apiVars

LEMMA GuardEnvironment ==
    ASSUME TypeOK, GuardInvariant, Environment
    PROVE  GuardInvariant'
<1>1. ASSUME DeleteExtension \/ \E r \in Revs : PassDeadline(r) PROVE GuardInvariant'
  BY <1>1 DEF DeleteExtension, PassDeadline, apiVars, GuardInvariant, NumbersInOrder,
     CacheLagsSafely, OwnsOnlyListed, ReconcileKnows, OwnersAreGuarded, Gone
<1>2. ASSUME NEW o \in Objects,
             \/ ObjectReady(o) \/ ObjectUnready(o) \/ ObjectDeleted(o)
             \/ ForeignCreates(o) \/ GarbageCollect(o)
      PROVE  GuardInvariant'
  <2>1. /\ \A x \in Objects : objs'[x].owners \subseteq objs[x].owners
        /\ UNCHANGED <<cos, synced, cache, watching, rec, latest>>
    BY <1>2, ObjectEventFacts
  <2>2. NumbersInOrder' BY <2>1 DEF GuardInvariant, NumbersInOrder
  <2>3. CacheLagsSafely' BY <2>1 DEF GuardInvariant, CacheLagsSafely, Gone
  <2>4. OwnsOnlyListed' /\ OwnersAreGuarded'
    BY <2>1 DEF GuardInvariant, OwnsOnlyListed, OwnersAreGuarded
  <2>5. ReconcileKnows' BY <2>1 DEF GuardInvariant, ReconcileKnows, Gone
  <2> QED BY <2>2, <2>3, <2>4, <2>5 DEF GuardInvariant
<1> QED BY <1>1, <1>2, GuardCreateRevision, GuardDeleteRevision DEF Environment

LEMMA GuardNext == TypeOK /\ GuardInvariant /\ [Next]_vars => GuardInvariant'
<1> SUFFICES ASSUME TypeOK, GuardInvariant, [Next]_vars PROVE GuardInvariant' OBVIOUS
<1>1. CASE CacheSync \/ TrackingSync BY <1>1, GuardInformers
<1>2. CASE Reconcile
  BY <1>2, GuardDequeue, GuardTeardown, GuardRemoveFinalizer, GuardEnsureFinalizer,
     GuardEngine, GuardArchivePrevious, GuardUpdateStatus DEF Reconcile
<1>3. CASE Crash BY <1>3, GuardCrash
<1>4. CASE Environment BY <1>4, GuardEnvironment
<1>5. CASE UNCHANGED vars
  BY <1>5 DEF vars, GuardInvariant, NumbersInOrder, CacheLagsSafely, OwnsOnlyListed,
     ReconcileKnows, OwnersAreGuarded, Gone
<1> QED BY <1>1, <1>2, <1>3, <1>4, <1>5 DEF Next

\* The inductive invariant holds throughout.
THEOREM GuardCorrect == Spec => [](TypeOK /\ GuardInvariant)
<1>1. Init => TypeOK /\ GuardInvariant BY TypeInit, GuardInit
<1>2. TypeOK /\ GuardInvariant /\ [Next]_vars => TypeOK' /\ GuardInvariant'
  BY TypeNext, GuardNext
<1> QED BY <1>1, <1>2, PTL DEF Spec

\* A revision that owns an object or has informers in the tracking cache carries
\* the teardown finalizer or is going through deletion (ensureFinalizer before
\* Watch and the engine, Free and Teardown before removeFinalizer).
THEOREM OwnersGuarded == Spec => []OwnersAreGuarded
<1>1. GuardInvariant => OwnersAreGuarded BY DEF GuardInvariant
<1> QED BY <1>1, GuardCorrect, PTL

\* An archived revision gives its finalizer up only with the Archived conditions
\* stored and nothing left that it owns (archive, removeFinalizer).
THEOREM ReleaseIsLast == Spec => ArchivedBeforeRelease
<1> DEFINE Released == \A r \in Revs :
         cos[r].archived /\ ~cos[r].deleting /\ cos[r].fin /\ ~cos'[r].fin
           => /\ cos[r].status.prog = "Archived"
              /\ \A o \in Objects : r \notin objs[o].owners
<1>1. TypeOK /\ GuardInvariant /\ [Next]_vars => [Released]_vars
  <2> SUFFICES ASSUME TypeOK, GuardInvariant, Next, NEW r \in Revs,
                      cos[r].archived, ~cos[r].deleting, cos[r].fin, ~cos'[r].fin
               PROVE  /\ cos[r].status.prog = "Archived"
                      /\ \A o \in Objects : r \notin objs[o].owners
    OBVIOUS
  <2>1. ASSUME NEW q \in Revs, NEW c, Stored(q, c), q # r \/ (cos[r].fin => c.fin)
        PROVE  FALSE
    BY <2>1, StoredFacts
  <2>2. cos' # cos OBVIOUS
  <2>3. rec.rev \in Revs /\ \A q \in Revs : cos[q] \in COS BY DEF TypeOK, Rec
  <2>4. CASE RemoveFinalizer
    <3>1. rec.pc = "removeFinalizer" /\ rec.cur /\ r = rec.rev
      BY <2>1, <2>2, <2>3, <2>4, Zenon DEF RemoveFinalizer, apiVars
    <3> QED BY <3>1 DEF GuardInvariant, ReconcileKnows
  <2>5. ASSUME NEW q \in Revs, CreateRevision(q) PROVE FALSE
    <3>1. cos[q] = Absent
      BY <2>5, NAssumption DEF CreateRevision, GuardInvariant, NumbersInOrder, TypeOK, Revs
    <3> QED BY <2>1, <2>5, <3>1, AbsentFacts DEF CreateRevision
  <2>6. ASSUME NEW q \in Revs, DeleteRevision(q) PROVE FALSE
    <3>1. [cos[q] EXCEPT !.deleting = TRUE].fin = cos[q].fin BY <2>3 DEF COS
    <3> QED BY <2>1, <2>6, <3>1, Zenon DEF DeleteRevision
  <2>7. ASSUME NEW q \in Revs, ArchivePrevious(q) PROVE FALSE
    <3>1. [cos[q] EXCEPT !.archived = TRUE].fin = cos[q].fin BY <2>3 DEF COS
    <3> QED BY <2>1, <2>2, <2>7, <3>1, Zenon DEF ArchivePrevious, apiVars
  <2>8. CASE EnsureFinalizer
    <3>1. [cos[rec.rev] EXCEPT !.fin = TRUE].fin BY <2>3 DEF COS
    <3> QED BY <2>1, <2>2, <2>3, <2>8, <3>1, Zenon DEF EnsureFinalizer, apiVars
  <2>9. CASE UpdateStatus
    <3>1. \A st : [cos[rec.rev] EXCEPT !.status = st].fin = cos[rec.rev].fin BY <2>3 DEF COS
    <3>2. PICK st : Stored(rec.rev, [cos[rec.rev] EXCEPT !.status = st])
      BY <2>2, <2>9, Zenon DEF UpdateStatus, apiVars
    <3> QED BY <2>1, <2>3, <3>1, <3>2, Zenon
  <2>10. CASE UNCHANGED cos BY <2>2, <2>10
  <2> QED BY <2>4, <2>5, <2>6, <2>7, <2>8, <2>9, <2>10, ZenonT(30) DEF Next, Reconcile, Environment,
       CacheSync, TrackingSync, Crash, ReconcileNotFound, ReconcileDelete, ReconcileRevision,
       Dequeue, TeardownComplete, TeardownIncomplete, TeardownFails, FreeFails,
       TeardownObjects, EngineReconcile, EngineFails, DeleteExtension, PassDeadline,
       ObjectReady, ObjectUnready, ObjectDeleted, ForeignCreates, GarbageCollect,
       ObjectEvent, apiVars
<1> QED BY <1>1, GuardCorrect, PTL DEF Spec, ArchivedBeforeRelease

(***************************************************************************)
(* What a rollout promises: nothing is archived before a newer revision is *)
(* complete, Succeeded is final, and no rollout completes over an object   *)
(* of another extension.                                                   *)
(***************************************************************************)

\* The steps that write a revision.
Writes ==
    \/ RemoveFinalizer \/ EnsureFinalizer \/ UpdateStatus
    \/ \E q \in Revs : ArchivePrevious(q) \/ CreateRevision(q) \/ DeleteRevision(q)

LEMMA OnlyWritesStore == Next => Writes \/ UNCHANGED cos
BY ZenonT(30) DEF Writes, Next, Reconcile, Environment, CacheSync, TrackingSync, Crash,
   ReconcileNotFound, ReconcileDelete, ReconcileRevision, Dequeue, TeardownComplete,
   TeardownIncomplete, TeardownFails, FreeFails, TeardownObjects, EngineReconcile,
   EngineFails, DeleteExtension, PassDeadline, ObjectReady, ObjectUnready, ObjectDeleted,
   ForeignCreates, GarbageCollect, ObjectEvent, apiVars

\* Only the engine's complete report adds to the revisions rolled out.
LEMMA RolledOutGrows ==
    Next => \/ EngineReconcile /\ (rolledOut' = rolledOut \/ rolledOut' = rolledOut \cup {rec.rev})
            \/ rolledOut' = rolledOut
BY Zenon DEF Next, Reconcile, Environment, CacheSync, TrackingSync, Crash, ReconcileNotFound,
   ReconcileDelete, ReconcileRevision, Dequeue, RemoveFinalizer, EnsureFinalizer,
   UpdateStatus, ArchivePrevious, CreateRevision, DeleteRevision, TeardownComplete,
   TeardownIncomplete, TeardownFails, FreeFails, TeardownObjects, EngineReconcile,
   EngineFails, DeleteExtension, PassDeadline, ObjectReady, ObjectUnready, ObjectDeleted,
   ForeignCreates, GarbageCollect, ObjectEvent

\* How a reconcile gets to archive, or go on archiving, previous revisions.
LEMMA ReachesArchiving ==
    ASSUME TypeOK, Next, rec'.pc = "archivePrevious"
    PROVE  /\ rec'.rev = rec.rev
           /\ \/ rec.pc = "archivePrevious" /\ rec'.todo \subseteq rec.todo
              \/ /\ EngineReconcile /\ rolledOut' = rolledOut \cup {rec.rev}
                 /\ rec'.todo = PreviousRevisions(rec.rev)
<1>1. rec \in Rec BY DEF TypeOK
<1>2. ASSUME NEW m \in Rec, NEW st, NEW again, rec' = Returned(m, st, again) PROVE FALSE
  BY <1>2, ReturnedFacts
<1>3. ASSUME NEW st, NEW again, Return(st, again) PROVE FALSE
  BY <1>1, <1>2, <1>3 DEF Return
<1>4. rec' # Idle BY DEF Idle
<1>5. CASE rec' = rec /\ UNCHANGED rolledOut BY <1>5
<1>6. ASSUME NEW r \in Revs,
             ReconcileNotFound(r) \/ ReconcileDelete(r) \/ ReconcileRevision(r)
      PROVE  rec' = rec
  <2>1. Copy(r) \in Rec BY Copies
  <2>2. ASSUME NEW pc, rec' = [Copy(r) EXCEPT !.pc = pc] PROVE pc = "archivePrevious"
    BY <2>1, <2>2 DEF Rec
  <2>3. ASSUME NEW pc, NEW p, NEW s,
               rec' = [Copy(r) EXCEPT !.pc = pc, !.prev = p, !.sibs = s]
        PROVE  pc = "archivePrevious"
    BY <2>1, <2>3 DEF Rec
  <2>4. CASE ReconcileNotFound(r) BY <2>4 DEF ReconcileNotFound
  <2>5. CASE ReconcileDelete(r) BY <1>2, <2>1, <2>2, <2>5, Zenon DEF ReconcileDelete
  <2>6. CASE ReconcileRevision(r)
    <3> DEFINE pc == IF cache[r].archived THEN "teardown"
                     ELSE IF cache[r].fin THEN "engine" ELSE "finalizer"
    <3>1. pc # "archivePrevious" OBVIOUS
    <3>2. \/ rec' = [Copy(r) EXCEPT !.pc = pc, !.prev = PreviousRevisions(r),
                                     !.sibs = SiblingRevisions]
          \/ rec' = Returned(Copy(r), setRetryingConditions(cache[r].status), TRUE)
      BY <2>6, Zenon DEF ReconcileRevision
    <3> HIDE DEF pc
    <3> QED BY <1>2, <2>1, <2>3, <3>1, <3>2, Zenon
  <2> QED BY <1>6, <2>4, <2>5, <2>6
<1>7. ~TeardownComplete
  <2>1. ASSUME rec' = [rec EXCEPT !.pc = "removeFinalizer"] PROVE FALSE
    BY <1>1, <2>1 DEF Rec
  <2> QED BY <1>3, <2>1, Zenon DEF TeardownComplete
<1>8. ~TeardownIncomplete /\ ~TeardownFails /\ ~FreeFails /\ ~EngineFails
  BY <1>3, Zenon DEF TeardownIncomplete, TeardownFails, FreeFails, EngineFails
<1>9. ~RemoveFinalizer /\ ~EnsureFinalizer
  <2>1. ASSUME NEW f, NEW u, rec' = [rec EXCEPT !.pc = "status", !.fin = f, !.cur = u] PROVE FALSE
    BY <1>1, <2>1 DEF Rec
  <2>2. ASSUME NEW f, rec' = [rec EXCEPT !.pc = "engine", !.fin = f] PROVE FALSE
    BY <1>1, <2>2 DEF Rec
  <2> QED BY <1>3, <2>1, <2>2, Zenon DEF RemoveFinalizer, EnsureFinalizer
<1>10. ~UpdateStatus /\ ~Crash BY <1>4 DEF UpdateStatus, Crash
<1>11. ASSUME NEW q \in Revs, ArchivePrevious(q)
       PROVE  /\ rec'.rev = rec.rev /\ rec.pc = "archivePrevious"
              /\ rec'.todo \subseteq rec.todo
  <2>1. rec.pc = "archivePrevious" /\ ArchiveNext(rec.todo \ {q}, rec.local)
    BY <1>3, <1>11, Zenon DEF ArchivePrevious
  <2> QED BY <1>1, <2>1, ArchiveNextFacts
<1>12. ASSUME EngineReconcile
       PROVE  /\ rec'.rev = rec.rev /\ rolledOut' = rolledOut \cup {rec.rev}
              /\ rec'.todo = PreviousRevisions(rec.rev)
  <2>1. /\ rolledOut' = rolledOut \cup {rec.rev}
        /\ \E st : ArchiveNext(PreviousRevisions(rec.rev), st)
    BY <1>3, <1>12, ZenonT(30) DEF EngineReconcile, RolloutComplete
  <2> QED BY <1>1, <2>1, ArchiveNextFacts
<1>13. ASSUME NEW q \in Revs, DeleteRevision(q)
       PROVE  rec'.rev = rec.rev /\ rec'.pc = rec.pc /\ rec'.todo = rec.todo
  BY <1>1, <1>13 DEF DeleteRevision, Overtaken, Rec
<1>14. CASE UNCHANGED rec BY <1>14
<1>15. CASE Reconcile
  BY <1>6, <1>7, <1>8, <1>9, <1>10, <1>11, <1>12, <1>15 DEF Reconcile
<1>16. CASE CacheSync \/ TrackingSync \/ Environment
  BY <1>13, <1>14, <1>16, Zenon DEF CacheSync, TrackingSync, Environment, DeleteExtension,
     CreateRevision, PassDeadline, ObjectReady, ObjectUnready, ObjectDeleted, ForeignCreates,
     GarbageCollect, ObjectEvent
<1> QED BY <1>10, <1>15, <1>16 DEF Next

LEMMA RolloutInit == Init => RolloutInvariant
<1> SUFFICES ASSUME Init PROVE RolloutInvariant OBVIOUS
<1>1. \A r \in Revs : ~cos[r].archived BY AbsentFacts DEF Init
<1>2. rec.pc = "idle" BY DEF Init, Idle
<1> QED BY <1>1, <1>2 DEF RolloutInvariant, ArchivedOnlyAfterRollout

\* Only ArchivePrevious archives, and it archives what is left to do.
LEMMA OnlyArchivePreviousArchives ==
    ASSUME TypeOK, Next, NEW r \in Revs, ~cos[r].archived, cos'[r].archived
    PROVE  rec.pc = "archivePrevious" /\ r \in rec.todo
<1>1. rec.rev \in Revs /\ \A q \in Revs : cos[q] \in COS BY DEF TypeOK, Rec
<1>2. ASSUME NEW q \in Revs, NEW c, Stored(q, c), c.archived => cos[q].archived PROVE FALSE
  BY <1>2, StoredFacts
<1>3. cos' # cos OBVIOUS
<1>4. ~RemoveFinalizer
  <2>1. [cos[rec.rev] EXCEPT !.fin = FALSE].archived = cos[rec.rev].archived BY <1>1 DEF COS
  <2> QED BY <1>1, <1>2, <1>3, <2>1, AbsentFacts, Zenon DEF RemoveFinalizer, apiVars
<1>5. ~EnsureFinalizer
  <2>1. [cos[rec.rev] EXCEPT !.fin = TRUE].archived = cos[rec.rev].archived BY <1>1 DEF COS
  <2> QED BY <1>1, <1>2, <1>3, <2>1, Zenon DEF EnsureFinalizer, apiVars
<1>6. ~UpdateStatus
  <2>1. \A st : [cos[rec.rev] EXCEPT !.status = st].archived = cos[rec.rev].archived
    BY <1>1 DEF COS
  <2>2. ASSUME UpdateStatus
        PROVE  \E st : Stored(rec.rev, [cos[rec.rev] EXCEPT !.status = st])
    BY <1>3, <2>2, Zenon DEF UpdateStatus, apiVars
  <2> QED BY <1>1, <1>2, <2>1, <2>2, Zenon
<1>7. ASSUME NEW q \in Revs, CreateRevision(q) PROVE FALSE
  <2>1. ~[Absent EXCEPT !.exists = TRUE].archived BY DEF Absent
  <2> QED BY <1>2, <1>7, <2>1, Zenon DEF CreateRevision
<1>8. ASSUME NEW q \in Revs, DeleteRevision(q) PROVE FALSE
  <2>1. [cos[q] EXCEPT !.deleting = TRUE].archived = cos[q].archived BY <1>1 DEF COS
  <2> QED BY <1>2, <1>8, <2>1, AbsentFacts, Zenon DEF DeleteRevision
<1>9. ASSUME NEW q \in Revs, ArchivePrevious(q)
      PROVE  rec.pc = "archivePrevious" /\ r \in rec.todo
  <2>1. q \in rec.todo /\ rec.pc = "archivePrevious"
        /\ Stored(q, [cos[q] EXCEPT !.archived = TRUE])
    BY <1>3, <1>9, Zenon DEF ArchivePrevious, apiVars
  <2>2. q = r BY <2>1, StoredFacts
  <2> QED BY <2>1, <2>2
<1> QED BY <1>3, <1>4, <1>5, <1>6, <1>7, <1>8, <1>9, OnlyWritesStore DEF Writes

LEMMA RolloutNext == TypeOK /\ RolloutInvariant /\ [Next]_vars => RolloutInvariant'
<1> SUFFICES ASSUME TypeOK, RolloutInvariant, [Next]_vars PROVE RolloutInvariant' OBVIOUS
<1>1. CASE UNCHANGED vars BY <1>1 DEF vars, RolloutInvariant, ArchivedOnlyAfterRollout
<1>2. CASE Next
  <2>1. rolledOut \subseteq rolledOut' BY <1>2, RolledOutGrows
  <2>2. rec.rev \in Revs /\ \A q \in Revs : q \in Nat BY NAssumption DEF TypeOK, Rec, Revs
  <2>3. ArchivedOnlyAfterRollout'
    <3> SUFFICES ASSUME NEW r \in Revs, cos'[r].archived
                 PROVE  \E n \in rolledOut' : n > r
      BY DEF ArchivedOnlyAfterRollout
    <3>1. CASE cos[r].archived
      BY <2>1, <3>1 DEF RolloutInvariant, ArchivedOnlyAfterRollout
    <3>2. CASE ~cos[r].archived
      <4>1. rec.pc = "archivePrevious" /\ r \in rec.todo
        BY <1>2, <3>2, OnlyArchivePreviousArchives
      <4>2. rec.rev \in rolledOut /\ rec.rev > r BY <2>2, <4>1 DEF RolloutInvariant
      <4> QED BY <2>1, <4>2
    <3> QED BY <3>1, <3>2
  <2>4. ASSUME rec'.pc = "archivePrevious"
        PROVE  rec'.rev \in rolledOut' /\ \A q \in rec'.todo : q < rec'.rev
    <3>1. CASE rec.pc = "archivePrevious" /\ rec'.todo \subseteq rec.todo
      BY <1>2, <2>1, <2>4, <3>1, ReachesArchiving DEF RolloutInvariant
    <3>2. CASE /\ rolledOut' = rolledOut \cup {rec.rev}
               /\ rec'.todo = PreviousRevisions(rec.rev)
      BY <1>2, <2>4, <3>2, ReachesArchiving DEF PreviousRevisions
    <3> QED BY <1>2, <2>4, <3>1, <3>2, ReachesArchiving
  <2> QED BY <2>3, <2>4 DEF RolloutInvariant
<1> QED BY <1>1, <1>2

\* A revision is archived only after a newer one was completely rolled out.
THEOREM ArchivedAfterRollout == Spec => []ArchivedOnlyAfterRollout
<1>1. Init => TypeOK /\ RolloutInvariant BY TypeInit, RolloutInit
<1>2. TypeOK /\ RolloutInvariant /\ [Next]_vars => TypeOK' /\ RolloutInvariant'
  BY TypeNext, RolloutNext
<1>3. RolloutInvariant => ArchivedOnlyAfterRollout BY DEF RolloutInvariant
<1> QED BY <1>1, <1>2, <1>3, PTL DEF Spec

\* A revision found completely rolled out controls each of its objects, or a newer
\* one does (the engine's report is complete only then, and the controller's own
\* test of the siblings leaves no other extension's revision).
LEMMA RolloutTakesAll ==
    ASSUME TypeOK, Next, NEW r \in rolledOut' \ rolledOut, NEW o \in Objs(r)
    PROVE  EngineReconcile /\ r = rec.rev /\ objs'[o].ctrl \in r..N
<1>1. EngineReconcile /\ r = rec.rev BY RolledOutGrows
<1>2. /\ rec.rev \in Revs /\ rec.sibs \subseteq Revs /\ rec.prev \subseteq Revs
      /\ Foreign \notin Revs /\ N \in Nat
  BY NAssumption DEF TypeOK, Rec, Revs, Foreign
<1>3. Objs(rec.rev) \subseteq Objects BY <1>2, PhasesAssumption DEF Objs
<1>4. PICK p, k \in BOOLEAN :
        LET reached == UNION {Phases[rec.rev][i] : i \in Reached(p, k)}
        IN /\ objs' = [x \in Objects |-> IF x \in reached THEN Applied(x) ELSE objs[x]]
           /\ \A x \in reached : ~Colliding(x, p)
           /\ \A x \in Objs(rec.rev) : ObjectPasses(x, p, k)
  BY <1>1, ZenonT(30) DEF EngineReconcile
<1>5. Reached(p, k) = DOMAIN Phases[rec.rev]
  <2>1. \A i \in DOMAIN Phases[rec.rev] : \A j \in 1..(i - 1) : j \in DOMAIN Phases[rec.rev]
    <3>1. Phases[rec.rev] \in Seq(SUBSET Objects) BY <1>2, PhasesAssumption
    <3> QED BY <3>1
  <2> QED BY <1>4, <2>1 DEF Reached, Objs
<1>6. objs'[o] = Applied(o) /\ ~Colliding(o, p) /\ ObjectPasses(o, p, k)
  BY <1>1, <1>3, <1>4, <1>5 DEF Objs
<1>7. CASE ObjectAction(o, p) = "applied"
  <2>1. ObjectAction(o, FALSE) = "applied" BY <1>7 DEF ObjectAction
  <2>2. objs'[o].ctrl = rec.rev BY <1>6, <2>1 DEF Applied
  <2> QED BY <1>1, <1>2, <2>2 DEF Revs
<1>8. CASE ObjectAction(o, p) = "progressed"
  <2>1. ObjectAction(o, FALSE) # "applied" BY <1>8 DEF ObjectAction
  <2>2. objs[o].ctrl \in rec.sibs BY <1>6, <1>8 DEF Colliding
  <2>3. objs[o].ctrl \in (rec.rev + 1)..N BY <1>2, <1>8, <2>2 DEF ObjectAction
  <2>4. objs'[o].ctrl = objs[o].ctrl BY <1>6, <2>1 DEF Applied
  <2> QED BY <1>1, <1>2, <2>3, <2>4 DEF Revs
<1> QED BY <1>1, <1>6, <1>7, <1>8 DEF ObjectPasses

\* No revision is reported rolled out while another extension's revision controls
\* one of its objects (foreignRevisionController and the collision checks).
THEOREM RolloutOwnsAll == Spec => NoRolloutOverForeign
<1> DEFINE Clean == \A r \in rolledOut' \ rolledOut : \A o \in Objs(r) : objs'[o].ctrl # Foreign
<1>1. TypeOK /\ [Next]_vars => [Clean]_vars
  <2> SUFFICES ASSUME TypeOK, Next, NEW r \in rolledOut' \ rolledOut, NEW o \in Objs(r)
               PROVE  objs'[o].ctrl # Foreign
    OBVIOUS
  <2>1. rec.rev \in Revs /\ N \in Nat BY NAssumption DEF TypeOK, Rec
  <2>2. r = rec.rev /\ objs'[o].ctrl \in r..N BY RolloutTakesAll
  <2> QED BY <2>1, <2>2 DEF Revs, Foreign
<1> QED BY <1>1, TypeCorrect, PTL DEF Spec, NoRolloutOverForeign

(***************************************************************************)
(* Succeeded is final                                                      *)
(***************************************************************************)

\* Conditions st2 computed from st forget no success and give no success up.
Keeps(st, st2) == NotGivenUp(st2) /\ (st.succ => st2.succ)

\* The helpers that change conditions keep a success.
LEMMA ConditionsKeep ==
    ASSUME NEW st \in Status, NotGivenUp(st)
    PROVE  /\ Keeps(st, st)
           /\ Keeps(st, setRetryingConditions(st))
           /\ Keeps(st, markAsArchived(st))
           /\ Keeps(st, markAsSucceeded(st))
           /\ Keeps(st, [st EXCEPT !.avail = "Reconciling"])
           /\ Keeps(st, [st EXCEPT !.prog = "RollingOut"])
           /\ Keeps(st, [st EXCEPT !.prog = IF @ = "none" THEN "RollingOut" ELSE @,
                                   !.avail = "Unavailable"])
BY DEF Keeps, NotGivenUp, Status, setRetryingConditions, markAsArchived, markAsSucceeded

\* What SuccessInvariant asks of a reconcile record.
Sound(m) == NotGivenUp(m.local) /\ (m.orig.succ => m.local.succ)

LEMMA SuccessReconcile ==
    ASSUME TypeOK, SuccessInvariant, Next
    PROVE  Sound(rec')
<1>1. rec \in Rec /\ rec.local \in Status BY DEF TypeOK, Rec
<1>2. Sound(rec) /\ NotGivenUp(rec.local) BY DEF Sound, SuccessInvariant
<1>3. ASSUME NEW st, NEW again, Return(st, again), Keeps(rec.local, st) PROVE Sound(rec')
  <2>1. rec'.local = st /\ rec'.orig = rec.orig BY <1>1, <1>3, ReturnedFacts DEF Return
  <2> QED BY <1>2, <1>3, <2>1 DEF Sound, Keeps
<1>4. CASE rec'.local = rec.local /\ rec'.orig = rec.orig BY <1>2, <1>4 DEF Sound
<1>5. rec' = Idle => Sound(rec') BY DEF Sound, NotGivenUp, Idle, NoStatus
<1>6. ASSUME NEW r \in Revs,
             ReconcileNotFound(r) \/ ReconcileDelete(r) \/ ReconcileRevision(r)
      PROVE  Sound(rec')
  <2>1. /\ Copy(r) \in Rec /\ Copy(r).local = cache[r].status /\ Copy(r).orig = cache[r].status
        /\ cache[r].status \in Status /\ NotGivenUp(cache[r].status)
    BY Copies, CopyFacts DEF SuccessInvariant, TypeOK, COS
  <2>2. ASSUME NEW st, rec' = Returned(Copy(r), st, TRUE), Keeps(cache[r].status, st)
        PROVE  Sound(rec')
    <3>1. rec'.local = st /\ rec'.orig = cache[r].status
      BY <2>1, <2>2 DEF Returned, Rec
    <3> QED BY <2>2, <3>1, Zenon DEF Sound, Keeps
  <2>3. ASSUME rec'.local = Copy(r).local, rec'.orig = Copy(r).orig PROVE Sound(rec')
    BY <2>1, <2>3 DEF Sound
  <2>4. CASE ReconcileNotFound(r) BY <1>4, <2>4 DEF ReconcileNotFound
  <2>5. CASE ReconcileDelete(r)
    <3>1. CASE rec' = [Copy(r) EXCEPT !.pc = "removeFinalizer"]
      <4>1. rec'.local = Copy(r).local /\ rec'.orig = Copy(r).orig BY <2>1, <3>1 DEF Rec
      <4> QED BY <2>3, <4>1
    <3>2. CASE rec' = Returned(Copy(r), [cache[r].status EXCEPT !.avail = "Reconciling"], TRUE)
      BY <2>1, <2>2, <3>2, ConditionsKeep, Zenon
    <3> QED BY <2>5, <3>1, <3>2, ZenonT(30) DEF ReconcileDelete
  <2>6. CASE ReconcileRevision(r)
    <3>1. ASSUME NEW pc, NEW p, NEW q,
                 rec' = [Copy(r) EXCEPT !.pc = pc, !.prev = p, !.sibs = q]
          PROVE  Sound(rec')
      <4>1. rec'.local = Copy(r).local /\ rec'.orig = Copy(r).orig BY <2>1, <3>1 DEF Rec
      <4> QED BY <2>3, <4>1
    <3>2. CASE rec' = Returned(Copy(r), setRetryingConditions(cache[r].status), TRUE)
      BY <2>1, <2>2, <3>2, ConditionsKeep, ZenonT(30)
    <3>3. \/ \E pc, p, q : rec' = [Copy(r) EXCEPT !.pc = pc, !.prev = p, !.sibs = q]
          \/ rec' = Returned(Copy(r), setRetryingConditions(cache[r].status), TRUE)
      BY <2>6, ZenonT(30) DEF ReconcileRevision
    <3> QED BY <3>1, <3>2, <3>3, Zenon
  <2> QED BY <1>6, <2>4, <2>5, <2>6
<1>7. CASE TeardownComplete
  <2>1. CASE rec' = [rec EXCEPT !.pc = "removeFinalizer"] BY <1>1, <1>4, <2>1 DEF Rec
  <2> QED BY <1>1, <1>2, <1>3, <1>7, <2>1, ConditionsKeep, Zenon DEF TeardownComplete
<1>8. CASE TeardownIncomplete \/ TeardownFails \/ FreeFails \/ EngineFails
  BY <1>1, <1>2, <1>3, <1>8, ConditionsKeep, ZenonT(30)
     DEF TeardownIncomplete, TeardownFails, FreeFails, EngineFails
<1>9. CASE RemoveFinalizer \/ EnsureFinalizer
  <2>1. ASSUME NEW f, NEW u, rec' = [rec EXCEPT !.pc = "status", !.fin = f, !.cur = u]
        PROVE  Sound(rec')
    <3>1. rec'.local = rec.local /\ rec'.orig = rec.orig BY <1>1, <2>1 DEF Rec
    <3> QED BY <1>4, <3>1
  <2>2. ASSUME rec' = [rec EXCEPT !.pc = "engine", !.fin = TRUE] PROVE Sound(rec')
    <3>1. rec'.local = rec.local /\ rec'.orig = rec.orig BY <1>1, <2>2 DEF Rec
    <3> QED BY <1>4, <3>1
  <2>3. Keeps(rec.local, rec.local) BY <1>1, <1>2, ConditionsKeep, Zenon
  <2> QED BY <1>3, <1>9, <2>1, <2>2, <2>3, Zenon DEF RemoveFinalizer, EnsureFinalizer
<1>10. ASSUME NEW todo, NEW st \in Status, Keeps(rec.local, st), ArchiveNext(todo, st)
       PROVE  Sound(rec')
  <2>1. CASE todo = {}
    <3>1. Keeps(rec.local, markAsSucceeded(st)) BY <1>10, ConditionsKeep, Zenon DEF Keeps
    <3> QED BY <1>3, <1>10, <2>1, <3>1, Zenon DEF ArchiveNext
  <2>2. CASE todo # {}
    <3>1. rec'.local = st /\ rec'.orig = rec.orig BY <1>1, <1>10, <2>2, Zenon DEF ArchiveNext, Rec
    <3> QED BY <1>2, <1>10, <3>1 DEF Sound, Keeps
  <2> QED BY <2>1, <2>2
<1>11. Keeps(rec.local, rec.local) BY <1>1, <1>2, ConditionsKeep, ZenonT(30)
<1>12. ASSUME NEW q \in Revs, ArchivePrevious(q) PROVE Sound(rec')
  BY <1>1, <1>3, <1>10, <1>11, <1>12, ZenonT(30) DEF ArchivePrevious
<1>13. CASE EngineReconcile
  <2>1. PICK b \in BOOLEAN :
          \/ Return(setRetryingConditions(rec.local), TRUE)
          \/ RolloutComplete(Transition(b))
          \/ Return([Transition(b) EXCEPT !.prog = IF @ = "none" THEN "RollingOut" ELSE @,
                                          !.avail = "Unavailable"], FALSE)
    BY <1>13, ZenonT(30) DEF EngineReconcile
  <2>2. Transition(b) \in Status /\ Keeps(rec.local, Transition(b))
    BY <1>1, <1>2, ConditionsKeep, Zenon DEF Transition, Status, ProgReasons
  <2>3. RolloutComplete(Transition(b)) => Sound(rec')
    BY <1>3, <1>10, <2>2, Zenon DEF RolloutComplete
  <2>4. Keeps(rec.local, [Transition(b) EXCEPT !.prog = IF @ = "none" THEN "RollingOut" ELSE @,
                                               !.avail = "Unavailable"])
    BY <2>2, ConditionsKeep, Zenon DEF Keeps
  <2> QED BY <1>1, <1>2, <1>3, <2>1, <2>3, <2>4, ConditionsKeep, Zenon
<1>14. CASE UpdateStatus \/ Crash BY <1>5, <1>14 DEF UpdateStatus, Crash
<1>15. CASE CacheSync \/ TrackingSync \/ Environment
  <2>1. ASSUME NEW r \in Revs, DeleteRevision(r) PROVE Sound(rec')
    <3>1. rec'.local = rec.local /\ rec'.orig = rec.orig
      BY <1>1, <2>1 DEF DeleteRevision, Overtaken, Rec
    <3> QED BY <1>4, <3>1
  <2> QED BY <1>4, <1>15, <2>1, Zenon DEF CacheSync, TrackingSync, Environment, DeleteExtension,
       CreateRevision, PassDeadline, ObjectReady, ObjectUnready, ObjectDeleted,
       ForeignCreates, GarbageCollect, ObjectEvent
<1> QED BY <1>6, <1>7, <1>8, <1>9, <1>12, <1>13, <1>14, <1>15 DEF Next, Reconcile

\* What a status update writes never gives a success up.
LEMMA StatusWritten ==
    ASSUME TypeOK, SuccessInvariant, UpdateStatus, cos' # cos
    PROVE  \E st : /\ Stored(rec.rev, [cos[rec.rev] EXCEPT !.status = st])
                   /\ NotGivenUp(st) /\ rec.cur /\ rec.pc = "status"
                   /\ rec.orig.succ => st.succ
<1> DEFINE st == IF GivenUp THEN [rec.local EXCEPT !.prog = "ProgressDeadlineExceeded"]
                 ELSE rec.local
<1>1. rec.local \in Status BY DEF TypeOK, Rec
<1>2. GivenUp => ~rec.local.succ BY DEF GivenUp, StillProgressing
<1>3. NotGivenUp(st) /\ (rec.orig.succ => st.succ)
  BY <1>1, <1>2 DEF SuccessInvariant, NotGivenUp, Status
<1>4. Stored(rec.rev, [cos[rec.rev] EXCEPT !.status = st]) /\ rec.cur /\ rec.pc = "status"
  BY DEF UpdateStatus, apiVars
<1> QED BY <1>3, <1>4, Zenon

\* Every write other than a status update keeps the conditions, or starts or ends
\* the revision.
LEMMA ConditionsKept ==
    ASSUME TypeOK, GuardInvariant, Next, ~UpdateStatus, NEW r \in Revs
    PROVE  \/ cos'[r].status = cos[r].status
           \/ cos'[r] = Absent
           \/ cos[r] = Absent /\ cos'[r].status = NoStatus
<1>1. rec.rev \in Revs /\ \A q \in Revs : cos[q] \in COS BY DEF TypeOK, Rec
<1>2. ASSUME NEW q \in Revs, NEW c, Stored(q, c), c.status = cos[q].status \/ c = Absent
      PROVE  cos'[r].status = cos[r].status \/ cos'[r] = Absent
  BY <1>2, StoredFacts
<1>3. CASE UNCHANGED cos BY <1>3
<1>4. CASE RemoveFinalizer
  <2>1. [cos[rec.rev] EXCEPT !.fin = FALSE].status = cos[rec.rev].status BY <1>1 DEF COS
  <2> QED BY <1>1, <1>2, <1>3, <1>4, <2>1, Zenon DEF RemoveFinalizer, apiVars
<1>5. CASE EnsureFinalizer
  <2>1. [cos[rec.rev] EXCEPT !.fin = TRUE].status = cos[rec.rev].status BY <1>1 DEF COS
  <2> QED BY <1>1, <1>2, <1>3, <1>5, <2>1, Zenon DEF EnsureFinalizer, apiVars
<1>6. ASSUME NEW q \in Revs, ArchivePrevious(q)
      PROVE  cos'[r].status = cos[r].status \/ cos'[r] = Absent
  <2>1. [cos[q] EXCEPT !.archived = TRUE].status = cos[q].status BY <1>1 DEF COS
  <2> QED BY <1>2, <1>3, <1>6, <2>1, Zenon DEF ArchivePrevious, apiVars
<1>7. ASSUME NEW q \in Revs, DeleteRevision(q)
      PROVE  cos'[r].status = cos[r].status \/ cos'[r] = Absent
  <2>1. [cos[q] EXCEPT !.deleting = TRUE].status = cos[q].status BY <1>1 DEF COS
  <2> QED BY <1>2, <1>7, <2>1, Zenon DEF DeleteRevision
<1>8. ASSUME NEW q \in Revs, CreateRevision(q)
      PROVE  \/ cos'[r].status = cos[r].status
             \/ cos[r] = Absent /\ cos'[r].status = NoStatus
  <2>1. cos[q] = Absent
    BY <1>8, NAssumption DEF CreateRevision, GuardInvariant, NumbersInOrder, TypeOK, Revs
  <2>2. [Absent EXCEPT !.exists = TRUE].status = NoStatus BY DEF Absent
  <2> QED BY <1>8, <2>1, <2>2, StoredFacts, Zenon DEF CreateRevision
<1> QED BY <1>3, <1>4, <1>5, <1>6, <1>7, <1>8, OnlyWritesStore DEF Writes

LEMMA SuccessInit == Init => SuccessInvariant
<1> SUFFICES ASSUME Init PROVE SuccessInvariant OBVIOUS
<1>1. ~NoStatus.succ /\ Absent.status = NoStatus BY DEF NoStatus, Absent
<1>2. rec.local = NoStatus /\ rec.orig = NoStatus BY DEF Init, Idle
<1> QED BY <1>1, <1>2 DEF Init, SuccessInvariant, NotGivenUp

LEMMA SuccessNext ==
    TypeOK /\ GuardInvariant /\ SuccessInvariant /\ [Next]_vars => SuccessInvariant'
<1> SUFFICES ASSUME TypeOK, GuardInvariant, SuccessInvariant, [Next]_vars
             PROVE  SuccessInvariant'
  OBVIOUS
<1>1. CASE UNCHANGED vars BY <1>1 DEF vars, SuccessInvariant, NotGivenUp
<1>2. CASE Next
  <2>1. NotGivenUp(rec'.local) /\ (rec'.orig.succ => rec'.local.succ)
    BY <1>2, SuccessReconcile DEF Sound
  <2>2. NotGivenUp(NoStatus) /\ Absent.status = NoStatus BY DEF NotGivenUp, NoStatus, Absent
  <2>3. ASSUME NEW r \in Revs PROVE NotGivenUp(cos'[r].status)
    <3>1. CASE UpdateStatus /\ cos' # cos
      <4>1. PICK st : Stored(rec.rev, [cos[rec.rev] EXCEPT !.status = st]) /\ NotGivenUp(st)
        BY <3>1, StatusWritten
      <4>2. rec.rev \in Revs /\ [cos[rec.rev] EXCEPT !.status = st].status = st
        BY DEF TypeOK, Rec, COS
      <4>3. /\ cos'[rec.rev] = [cos[rec.rev] EXCEPT !.status = st]
            /\ r # rec.rev => cos'[r] = cos[r]
        BY <4>1, <4>2, StoredFacts
      <4> QED BY <4>1, <4>2, <4>3, Zenon DEF SuccessInvariant
    <3>2. CASE cos' = cos BY <3>2 DEF SuccessInvariant
    <3>3. CASE ~UpdateStatus BY <1>2, <2>2, <3>3, ConditionsKept DEF SuccessInvariant
    <3> QED BY <3>1, <3>2, <3>3
  <2>4. cache' = cache \/ cache' = cos
    BY <1>2, Zenon DEF Next, Reconcile, Environment, CacheSync, TrackingSync, Crash,
       ReconcileNotFound, ReconcileDelete, ReconcileRevision, Dequeue, RemoveFinalizer,
       EnsureFinalizer, UpdateStatus, ArchivePrevious, CreateRevision, DeleteRevision,
       TeardownComplete, TeardownIncomplete, TeardownFails, FreeFails, TeardownObjects,
       EngineReconcile, EngineFails, DeleteExtension, PassDeadline, ObjectReady,
       ObjectUnready, ObjectDeleted, ForeignCreates, GarbageCollect, ObjectEvent
  <2>5. \A r \in Revs : NotGivenUp(cache'[r].status) BY <2>4 DEF SuccessInvariant
  <2> QED BY <2>1, <2>3, <2>5 DEF SuccessInvariant, NotGivenUp
<1> QED BY <1>1, <1>2

\* Succeeded is never taken back, and a revision that succeeded is never given up
\* for its deadline, however stale the copy its reconcile works on.
THEOREM SuccessIsFinal == Spec => SucceededIsFinal
<1> DEFINE Final == \A r \in Revs : cos[r].status.succ /\ cos'[r].exists
                      => /\ cos'[r].status.succ
                         /\ cos'[r].status.prog # "ProgressDeadlineExceeded"
<1>1. TypeOK /\ GuardInvariant /\ SuccessInvariant /\ [Next]_vars => [Final]_vars
  <2> SUFFICES ASSUME TypeOK, GuardInvariant, SuccessInvariant, Next, NEW r \in Revs,
                      cos[r].status.succ, cos'[r].exists
               PROVE  cos'[r].status.succ /\ cos'[r].status.prog # "ProgressDeadlineExceeded"
    OBVIOUS
  <2>1. NotGivenUp(cos'[r].status) BY SuccessNext DEF SuccessInvariant
  <2>2. cos'[r].status.succ
    <3>1. ~Absent.status.succ BY DEF Absent, NoStatus
    <3>2. CASE UpdateStatus /\ cos' # cos
      <4>1. PICK st : /\ Stored(rec.rev, [cos[rec.rev] EXCEPT !.status = st])
                      /\ rec.cur /\ rec.pc = "status" /\ (rec.orig.succ => st.succ)
        BY <3>2, StatusWritten, Zenon
      <4>2. rec.rev \in Revs /\ [cos[rec.rev] EXCEPT !.status = st].status = st
        BY DEF TypeOK, Rec, COS
      <4>3. cos[rec.rev].status = rec.orig BY <4>1 DEF GuardInvariant, ReconcileKnows
      <4>4. /\ cos'[rec.rev] = [cos[rec.rev] EXCEPT !.status = st]
            /\ r # rec.rev => cos'[r] = cos[r]
        BY <4>1, <4>2, StoredFacts
      <4> QED BY <4>1, <4>2, <4>3, <4>4, Zenon
    <3>3. CASE ~UpdateStatus BY <3>1, <3>3, AbsentFacts, ConditionsKept
    <3> QED BY <3>2, <3>3
  <2> QED BY <2>1, <2>2 DEF NotGivenUp
<1>2. Init => TypeOK /\ GuardInvariant /\ SuccessInvariant
  BY TypeInit, GuardInit, SuccessInit
<1>3. TypeOK /\ GuardInvariant /\ SuccessInvariant /\ [Next]_vars
        => TypeOK' /\ GuardInvariant' /\ SuccessInvariant'
  BY TypeNext, GuardNext, SuccessNext
<1> QED BY <1>1, <1>2, <1>3, PTL DEF Spec, SucceededIsFinal

(***************************************************************************)
(* The controller keeps the contract of RevisionLifecycle                  *)
(***************************************************************************)

\* Conditions st2 computed from st claim nothing new.
Tame(st, st2) == st2.succ = st.succ /\ (st2.prog = "Archived" => st.prog = "Archived")

LEMMA ConditionsTame ==
    ASSUME NEW st \in Status
    PROVE  /\ Tame(st, st)
           /\ Tame(st, setRetryingConditions(st))
           /\ Tame(st, [st EXCEPT !.avail = "Reconciling"])
           /\ Tame(st, [st EXCEPT !.prog = "RollingOut"])
           /\ Tame(st, [st EXCEPT !.prog = IF @ = "none" THEN "RollingOut" ELSE @,
                                  !.avail = "Unavailable"])
BY DEF Tame, Status, setRetryingConditions

\* A reconcile that leaves for the status update with true conditions.
LEMMA LeavesBacked ==
    ASSUME NEW m \in Rec, NEW st, NEW again, NEW c, NEW out, m.cur => Backed(st, m, c, out)
    PROVE  KnowsCurrent(Returned(m, st, again), c, out)
<1> DEFINE m2 == Returned(m, st, again)
<1>1. m2.pc = "status" /\ m2.rev = m.rev /\ m2.cur = m.cur /\ m2.orig = m.orig /\ m2.local = st
  BY ReturnedFacts
<1> SUFFICES KnowsCurrent(m2, c, out) OBVIOUS
<1> HIDE DEF m2
<1>2. Backed(st, m, c, out) => Backed(st, m2, c, out) BY <1>1, Zenon DEF Backed
<1> QED BY <1>1, <1>2 DEF KnowsCurrent

\* What a reconcile that has not come to its end yet may store.
LEMMA TameIsBacked ==
    ASSUME NEW m, NEW c, NEW out, KnowsCurrent(m, c, out), NEW st, Tame(m.local, st),
           m.pc \notin {"idle", "status"}, m.cur
    PROVE  Backed(st, m, c, out)
BY Zenon DEF KnowsCurrent, Backed, Tame

\* Archiving goes on, or ends in success.
LEMMA ArchivesBacked ==
    ASSUME rec \in Rec, NEW todo, NEW st \in Status, ArchiveNext(todo, st), NEW c, NEW out,
           KnowsCurrent(rec, c, rolledOut), rolledOut \subseteq out, Tame(rec.local, st),
           rec.pc \in {"engine", "archivePrevious"}, rec.rev \in out
    PROVE  KnowsCurrent(rec', c, out)
<1>1. rec.cur => /\ Backed(st, rec, c, out) /\ c.exists /\ ~c.archived
                 /\ (st.succ => rec.orig.succ)
  BY Zenon DEF KnowsCurrent, Tame, Backed
<1>2. CASE todo = {}
  <2>1. markAsSucceeded(st).prog = "Succeeded" BY DEF markAsSucceeded, Status
  <2>2. rec.cur => Backed(markAsSucceeded(st), rec, c, out) BY <1>1, <2>1 DEF Backed
  <2>3. rec' = Returned(rec, markAsSucceeded(st), FALSE) BY <1>2 DEF ArchiveNext, Return
  <2> QED BY <2>2, <2>3, LeavesBacked, Zenon
<1>3. CASE todo # {}
  <2>1. /\ rec'.pc = "archivePrevious" /\ rec'.rev = rec.rev /\ rec'.cur = rec.cur
        /\ rec'.orig = rec.orig /\ rec'.local = st
    BY <1>3, Zenon DEF ArchiveNext, Rec
  <2>2. Backed(st, rec, c, out) => Backed(st, rec', c, out) BY <2>1, Zenon DEF Backed
  <2> QED BY <1>1, <2>1, <2>2 DEF KnowsCurrent
<1> QED BY <1>2, <1>3

LEMMA LifecycleDequeue ==
    ASSUME TypeOK, GuardInvariant, LifecycleInvariant, NEW r \in Revs,
           ReconcileNotFound(r) \/ ReconcileDelete(r) \/ ReconcileRevision(r)
    PROVE  KnowsCurrent(rec', cos[rec'.rev], rolledOut)
<1>1. /\ Copy(r) \in Rec /\ Copy(r).local = cache[r].status /\ Copy(r).orig = cache[r].status
      /\ Copy(r).rev = r /\ cache[r].status \in Status
  BY Copies, CopyFacts DEF TypeOK, COS
<1>2. Copy(r).cur => cache[r] = cos[r] BY CopyFacts DEF GuardInvariant, CacheLagsSafely
<1>3. ASSUME cache[r].exists, NEW st, Tame(cache[r].status, st), Copy(r).cur
      PROVE  Backed(st, Copy(r), cos[r], rolledOut)
  BY <1>1, <1>2, <1>3, Zenon DEF LifecycleInvariant, Recorded, Tame, Backed
<1>4. ASSUME cache[r].exists, NEW st, Tame(cache[r].status, st), rec' = Returned(Copy(r), st, TRUE)
      PROVE  KnowsCurrent(rec', cos[rec'.rev], rolledOut)
  <2>1. Returned(Copy(r), st, TRUE).rev = r BY <1>1 DEF Returned, Rec
  <2>2. rec'.rev = r BY <1>4, <2>1, Zenon
  <2> QED BY <1>1, <1>3, <1>4, <2>2, LeavesBacked, Zenon
<1>5. Tame(cache[r].status, cache[r].status) BY <1>1, ConditionsTame, Zenon
<1>6. ASSUME cache[r].exists, rec'.rev = r, rec'.cur = Copy(r).cur,
             rec'.orig = cache[r].status, rec'.local = cache[r].status,
             rec'.pc = "removeFinalizer"
               \/ rec'.pc = IF cache[r].archived THEN "teardown"
                            ELSE IF cache[r].fin THEN "engine" ELSE "finalizer"
      PROVE  KnowsCurrent(rec', cos[rec'.rev], rolledOut)
  <2>1. rec'.cur => Backed(rec'.local, Copy(r), cos[r], rolledOut) BY <1>3, <1>5, <1>6, Zenon
  <2>2. Backed(rec'.local, Copy(r), cos[r], rolledOut) => Backed(rec'.local, rec', cos[r], rolledOut)
    BY <1>1, <1>6, Zenon DEF Backed
  <2> QED BY <1>2, <1>6, <2>1, <2>2 DEF KnowsCurrent
<1>7. CASE ReconcileNotFound(r) BY <1>7 DEF ReconcileNotFound, LifecycleInvariant
<1>8. CASE ReconcileDelete(r)
  <2>1. CASE rec' = [Copy(r) EXCEPT !.pc = "removeFinalizer"]
    <3>1. /\ rec'.pc = "removeFinalizer" /\ rec'.rev = r /\ rec'.cur = Copy(r).cur
          /\ rec'.orig = cache[r].status /\ rec'.local = cache[r].status
      BY <1>1, <2>1 DEF Rec
    <3> QED BY <1>6, <1>8, <3>1, Zenon DEF ReconcileDelete
  <2>2. CASE rec' = Returned(Copy(r), [cache[r].status EXCEPT !.avail = "Reconciling"], TRUE)
    BY <1>1, <1>4, <1>8, <2>2, ConditionsTame, Zenon DEF ReconcileDelete
  <2> QED BY <1>8, <2>1, <2>2, ZenonT(30) DEF ReconcileDelete
<1>9. CASE ReconcileRevision(r)
  <2> DEFINE pc == IF cache[r].archived THEN "teardown"
                   ELSE IF cache[r].fin THEN "engine" ELSE "finalizer"
  <2>1. \/ rec' = [Copy(r) EXCEPT !.pc = pc, !.prev = PreviousRevisions(r),
                                  !.sibs = SiblingRevisions]
        \/ rec' = Returned(Copy(r), setRetryingConditions(cache[r].status), TRUE)
    BY <1>9, Zenon DEF ReconcileRevision
  <2>2. CASE rec' = [Copy(r) EXCEPT !.pc = pc, !.prev = PreviousRevisions(r),
                                    !.sibs = SiblingRevisions]
    <3>1. /\ rec'.pc = pc /\ rec'.rev = r /\ rec'.cur = Copy(r).cur
          /\ rec'.orig = cache[r].status /\ rec'.local = cache[r].status
      <4> HIDE DEF pc
      <4> QED BY <1>1, <2>2 DEF Rec
    <3> QED BY <1>6, <1>9, <3>1, Zenon DEF ReconcileRevision
  <2>3. CASE rec' = Returned(Copy(r), setRetryingConditions(cache[r].status), TRUE)
    BY <1>1, <1>4, <1>9, <2>3, ConditionsTame, Zenon DEF ReconcileRevision
  <2> HIDE DEF pc
  <2> QED BY <2>1, <2>2, <2>3, Zenon
<1> QED BY <1>7, <1>8, <1>9

\* The facts a reconcile relies on about its own revision.
Informed == KnowsCurrent(rec, cos[rec.rev], rolledOut)

LEMMA LifecycleReconcile ==
    ASSUME TypeOK, GuardInvariant, RolloutInvariant, LifecycleInvariant, Next
    PROVE  Informed'
<1>1. /\ rec \in Rec /\ rec.local \in Status /\ rec.rev \in Revs
      /\ KnowsCurrent(rec, cos[rec.rev], rolledOut) /\ \A q \in Revs : cos[q] \in COS
  BY DEF TypeOK, Rec, LifecycleInvariant
<1>2. ASSUME NEW st, NEW again, Return(st, again), cos'[rec.rev] = cos[rec.rev],
             rec.cur => Backed(st, rec, cos[rec.rev], rolledOut')
      PROVE  Informed'
  <2>1. rec' = Returned(rec, st, again) BY <1>2 DEF Return
  <2>2. rec'.rev = rec.rev BY <1>1, <2>1 DEF Returned, Rec
  <2>3. KnowsCurrent(rec', cos[rec.rev], rolledOut') BY <1>1, <1>2, <2>1, LeavesBacked, Zenon
  <2> QED BY <1>2, <2>2, <2>3, Zenon DEF Informed
<1>3. rolledOut \subseteq rolledOut' BY RolledOutGrows
<1>4. ASSUME NEW st, NEW again, Return(st, again), cos'[rec.rev] = cos[rec.rev],
             Tame(rec.local, st), rec.pc \notin {"idle", "status"}
      PROVE  Informed'
  <2>1. rec.cur => Backed(st, rec, cos[rec.rev], rolledOut) BY <1>1, <1>4, TameIsBacked, Zenon
  <2>2. rec.cur => Backed(st, rec, cos[rec.rev], rolledOut') BY <1>3, <2>1 DEF Backed
  <2> QED BY <1>2, <1>4, <2>2, Zenon
<1>5. Tame(rec.local, rec.local) BY <1>1, ConditionsTame, Zenon
<1>6. ASSUME NEW r \in Revs,
             ReconcileNotFound(r) \/ ReconcileDelete(r) \/ ReconcileRevision(r)
      PROVE  Informed'
  <2>1. KnowsCurrent(rec', cos[rec'.rev], rolledOut) BY <1>6, LifecycleDequeue, Zenon
  <2>2. UNCHANGED <<cos, rolledOut>>
    BY <1>6, Zenon DEF ReconcileNotFound, ReconcileDelete, ReconcileRevision, Dequeue, apiVars
  <2> QED BY <2>1, <2>2, Zenon DEF Informed
<1>7. ASSUME rec'.rev = rec.rev, rec'.orig = rec.orig, rec'.local = rec.local,
             rec'.cur => /\ rec.cur /\ cos'[rec.rev].exists = cos[rec.rev].exists
                         /\ cos'[rec.rev].archived = cos[rec.rev].archived,
             \/ rec'.pc = rec.pc
             \/ rec.pc = "finalizer" /\ rec'.pc = "engine"
             \/ rec.pc = "teardown" /\ rec'.pc = "removeFinalizer"
             \/ rec.pc = "removeFinalizer" /\ rec'.pc = "status"
      PROVE  Informed'
  BY <1>1, <1>3, <1>7 DEF Informed, KnowsCurrent, Backed
<1>8. CASE TeardownComplete
  <2>1. UNCHANGED <<cos, rolledOut>> /\ rec.pc = "teardown"
    BY <1>8 DEF TeardownComplete, TeardownObjects, apiVars
  <2>2. CASE Return(markAsArchived(rec.local), FALSE)
    <3>1. markAsArchived(rec.local).succ = rec.local.succ BY <1>1 DEF markAsArchived, Status
    <3>2. rec.cur => Backed(markAsArchived(rec.local), rec, cos[rec.rev], rolledOut)
      BY <1>1, <2>1, <3>1 DEF KnowsCurrent, Backed
    <3> QED BY <1>2, <2>1, <2>2, <3>2, Zenon
  <2>3. CASE rec' = [rec EXCEPT !.pc = "removeFinalizer"]
    <3>1. /\ rec'.rev = rec.rev /\ rec'.orig = rec.orig /\ rec'.local = rec.local
          /\ rec'.cur = rec.cur /\ rec'.pc = "removeFinalizer"
      BY <1>1, <2>3 DEF Rec
    <3> QED BY <1>7, <2>1, <3>1, Zenon
  <2> QED BY <1>8, <2>2, <2>3, Zenon DEF TeardownComplete
<1>9. CASE TeardownIncomplete \/ TeardownFails \/ FreeFails \/ EngineFails
  <2>1. UNCHANGED cos /\ (rec.pc = "teardown" \/ rec.pc = "engine")
    BY <1>9, Zenon DEF TeardownIncomplete, TeardownFails, FreeFails, EngineFails, TeardownObjects,
       apiVars
  <2>2. rec.pc \notin {"idle", "status"} BY <2>1
  <2>3. \/ Return(setRetryingConditions(rec.local), TRUE)
        \/ Return([rec.local EXCEPT !.avail = "Reconciling"], TRUE)
    BY <1>9, Zenon DEF TeardownIncomplete, TeardownFails, FreeFails, EngineFails
  <2>4. cos'[rec.rev] = cos[rec.rev] BY <2>1
  <2> QED BY <1>1, <1>4, <2>2, <2>3, <2>4, ConditionsTame, Zenon
<1>10. ASSUME rec.pc \in {"removeFinalizer", "finalizer", "archivePrevious"}, UNCHANGED cos,
              NEW again, Return(rec.local, again)
       PROVE  Informed'
  <2>1. rec.pc \notin {"idle", "status"} /\ cos'[rec.rev] = cos[rec.rev] BY <1>10
  <2> QED BY <1>4, <1>5, <1>10, <2>1, Zenon
<1>11. CASE RemoveFinalizer
  <2> DEFINE c == [cos[rec.rev] EXCEPT !.fin = FALSE]
  <2>1. rec.pc = "removeFinalizer" BY <1>11 DEF RemoveFinalizer
  <2>2. CASE /\ Stored(rec.rev, IF cos[rec.rev].deleting THEN Absent ELSE c)
             /\ rec' = [rec EXCEPT !.pc = "status", !.fin = FALSE,
                                   !.cur = ~cos[rec.rev].deleting]
             /\ rec.cur
    <3>1. /\ rec'.rev = rec.rev /\ rec'.orig = rec.orig /\ rec'.local = rec.local
          /\ rec'.cur = ~cos[rec.rev].deleting /\ rec'.pc = "status"
      BY <1>1, <2>2 DEF Rec
    <3>2. c.exists = cos[rec.rev].exists /\ c.archived = cos[rec.rev].archived BY <1>1 DEF COS
    <3>3. ~cos[rec.rev].deleting => cos'[rec.rev] = c BY <1>1, <2>2, StoredFacts
    <3> HIDE DEF c
    <3> QED BY <1>7, <2>1, <2>2, <3>1, <3>2, <3>3, Zenon
  <2> HIDE DEF c
  <2> QED BY <1>10, <1>11, <2>1, <2>2, Zenon DEF RemoveFinalizer, apiVars, c
<1>12. CASE EnsureFinalizer
  <2> DEFINE c == [cos[rec.rev] EXCEPT !.fin = TRUE]
  <2>1. rec.pc = "finalizer" BY <1>12 DEF EnsureFinalizer
  <2>2. CASE Stored(rec.rev, c) /\ rec' = [rec EXCEPT !.pc = "engine", !.fin = TRUE]
    <3>1. /\ rec'.rev = rec.rev /\ rec'.orig = rec.orig /\ rec'.local = rec.local
          /\ rec'.cur = rec.cur /\ rec'.pc = "engine"
      BY <1>1, <2>2 DEF Rec
    <3>2. c.exists = cos[rec.rev].exists /\ c.archived = cos[rec.rev].archived BY <1>1 DEF COS
    <3>3. cos'[rec.rev] = c BY <1>1, <2>2, StoredFacts
    <3> HIDE DEF c
    <3> QED BY <1>7, <2>1, <3>1, <3>2, <3>3
  <2> HIDE DEF c
  <2> QED BY <1>10, <1>12, <2>1, <2>2, Zenon DEF EnsureFinalizer, apiVars, c
<1>13. ASSUME NEW todo, NEW st \in Status, ArchiveNext(todo, st), Tame(rec.local, st),
              rec.pc \in {"engine", "archivePrevious"}, rec.rev \in rolledOut',
              cos'[rec.rev] = cos[rec.rev]
       PROVE  Informed'
  <2>1. KnowsCurrent(rec', cos[rec.rev], rolledOut') BY <1>1, <1>3, <1>13, ArchivesBacked, Zenon
  <2>2. rec'.rev = rec.rev BY <1>1, <1>13, ArchiveNextFacts, Zenon
  <2> QED BY <1>13, <2>1, <2>2, Zenon DEF Informed
<1>14. ASSUME NEW q \in Revs, ArchivePrevious(q) PROVE Informed'
  <2>1. rec.pc = "archivePrevious" /\ q \in rec.todo /\ rolledOut' = rolledOut
    BY <1>14 DEF ArchivePrevious
  <2>2. rec.rev \in rolledOut /\ q # rec.rev
    BY <1>1, <2>1, NAssumption DEF RolloutInvariant, Revs
  <2>3. CASE /\ Stored(q, [cos[q] EXCEPT !.archived = TRUE])
             /\ ArchiveNext(rec.todo \ {q}, rec.local)
    <3>1. cos'[rec.rev] = cos[rec.rev] BY <1>1, <2>2, <2>3, StoredFacts
    <3> QED BY <1>1, <1>5, <1>13, <2>1, <2>2, <2>3, <3>1, Zenon
  <2> QED BY <1>10, <1>14, <2>1, <2>3, Zenon DEF ArchivePrevious, apiVars
<1>15. CASE EngineReconcile
  <2>1. UNCHANGED cos /\ rec.pc = "engine" BY <1>15, Zenon DEF EngineReconcile, apiVars
  <2>2. rec.pc \notin {"idle", "status"} /\ cos'[rec.rev] = cos[rec.rev] BY <2>1
  <2>3. PICK b \in BOOLEAN :
          \/ Return(setRetryingConditions(rec.local), TRUE)
          \/ RolloutComplete(Transition(b)) /\ rolledOut' = rolledOut \cup {rec.rev}
          \/ Return([Transition(b) EXCEPT !.prog = IF @ = "none" THEN "RollingOut" ELSE @,
                                          !.avail = "Unavailable"], FALSE)
    BY <1>15, ZenonT(30) DEF EngineReconcile
  <2>4. Transition(b) \in Status /\ Tame(rec.local, Transition(b))
    BY <1>1, ConditionsTame, Zenon DEF Transition, Status, ProgReasons
  <2>5. CASE RolloutComplete(Transition(b)) /\ rolledOut' = rolledOut \cup {rec.rev}
    <3>1. rec.rev \in rolledOut' BY <2>5
    <3> QED BY <1>4, <1>13, <2>1, <2>2, <2>4, <2>5, <3>1, Zenon DEF RolloutComplete
  <2>6. Tame(rec.local, [Transition(b) EXCEPT !.prog = IF @ = "none" THEN "RollingOut" ELSE @,
                                              !.avail = "Unavailable"])
    BY <2>4, ConditionsTame, Zenon DEF Tame
  <2> QED BY <1>1, <1>4, <2>2, <2>3, <2>5, <2>6, ConditionsTame, Zenon
<1>16. CASE UpdateStatus \/ Crash
  <2>1. rec'.pc = "idle" BY <1>16 DEF UpdateStatus, Crash, Idle
  <2> QED BY <2>1 DEF Informed, KnowsCurrent
<1>17. ASSUME NEW r \in Revs, DeleteRevision(r) PROVE Informed'
  <2>1. PICK c : Stored(r, c) /\ Overtaken(r) BY <1>17, Zenon DEF DeleteRevision
  <2>2. /\ rec'.pc = rec.pc /\ rec'.rev = rec.rev /\ rec'.orig = rec.orig
        /\ rec'.local = rec.local /\ (rec'.cur => rec.cur /\ rec.rev # r)
    BY <1>1, <2>1 DEF Overtaken, Rec
  <2>3. rec'.cur => cos'[rec.rev] = cos[rec.rev] BY <1>1, <2>1, <2>2, StoredFacts
  <2> QED BY <1>7, <2>2, <2>3
<1>18. ASSUME NEW r \in Revs, CreateRevision(r) PROVE Informed'
  <2>1. rec' = rec /\ r = latest + 1 /\ Stored(r, [Absent EXCEPT !.exists = TRUE])
    BY <1>18 DEF CreateRevision
  <2>2. rec.pc # "idle" => rec.rev # r
    BY <1>1, <2>1, NAssumption DEF GuardInvariant, NumbersInOrder, TypeOK, Revs
  <2>3. rec.pc # "idle" => cos'[rec.rev] = cos[rec.rev] BY <1>1, <2>1, <2>2, StoredFacts
  <2>4. CASE rec.pc = "idle" BY <2>1, <2>4 DEF Informed, KnowsCurrent
  <2>5. CASE rec.pc # "idle" BY <1>7, <2>1, <2>3, <2>5
  <2> QED BY <2>4, <2>5
<1>19. CASE UNCHANGED <<rec, cos>> BY <1>7, <1>19
<1>20. CASE CacheSync \/ TrackingSync \/ Environment
  BY <1>17, <1>18, <1>19, <1>20, Zenon DEF CacheSync, TrackingSync, Environment,
     DeleteExtension, PassDeadline, ObjectReady, ObjectUnready, ObjectDeleted,
     ForeignCreates, GarbageCollect, ObjectEvent, apiVars
<1> QED BY <1>6, <1>8, <1>9, <1>11, <1>12, <1>14, <1>15, <1>16, <1>20 DEF Next, Reconcile

\* What Recorded asks of a stored revision.
Settled(c, gone) ==
    /\ c.exists \/ c = Absent
    /\ c.status.prog = "Archived" => c.archived
    /\ c.deleting => c.archived \/ gone

LEMMA LifecycleRecorded ==
    ASSUME TypeOK, GuardInvariant, LifecycleInvariant, Next
    PROVE  Recorded'
<1>1. /\ rec \in Rec /\ rec.rev \in Revs /\ rec.local \in Status
      /\ \A q \in Revs : cos[q] \in COS /\ Settled(cos[q], extDeleted)
  BY DEF TypeOK, Rec, LifecycleInvariant, Recorded, Settled
<1>2. extDeleted => extDeleted'
  BY Zenon DEF Next, Reconcile, Environment, CacheSync, TrackingSync, Crash, ReconcileNotFound,
     ReconcileDelete, ReconcileRevision, Dequeue, RemoveFinalizer, EnsureFinalizer,
     UpdateStatus, ArchivePrevious, CreateRevision, DeleteRevision, TeardownComplete,
     TeardownIncomplete, TeardownFails, FreeFails, TeardownObjects, EngineReconcile,
     EngineFails, DeleteExtension, PassDeadline, ObjectReady, ObjectUnready, ObjectDeleted,
     ForeignCreates, GarbageCollect, ObjectEvent, envVars
<1> SUFFICES ASSUME NEW r \in Revs PROVE Settled(cos'[r], extDeleted)
  BY <1>2 DEF Settled, Recorded
<1>3. ASSUME NEW q \in Revs, NEW c, Stored(q, c), Settled(c, extDeleted)
      PROVE  Settled(cos'[r], extDeleted)
  BY <1>1, <1>3, StoredFacts
<1>4. Settled(Absent, extDeleted) BY AbsentFacts DEF Settled, Absent, NoStatus
<1>5. rec.pc # "idle" /\ rec.cur => Backed(rec.local, rec, cos[rec.rev], rolledOut)
  BY DEF LifecycleInvariant, KnowsCurrent
<1>6. CASE UNCHANGED cos BY <1>1, <1>6
<1>7. CASE RemoveFinalizer
  <2>1. rec.cur => Settled([cos[rec.rev] EXCEPT !.fin = FALSE], extDeleted)
    BY <1>1, <1>5, <1>7 DEF RemoveFinalizer, Settled, COS, Backed
  <2> QED BY <1>1, <1>3, <1>4, <1>6, <1>7, <2>1, Zenon DEF RemoveFinalizer, apiVars
<1>8. CASE EnsureFinalizer
  <2>1. rec.cur => Settled([cos[rec.rev] EXCEPT !.fin = TRUE], extDeleted)
    BY <1>1, <1>5, <1>8 DEF EnsureFinalizer, Settled, COS, Backed
  <2> QED BY <1>1, <1>3, <1>6, <1>8, <2>1, Zenon DEF EnsureFinalizer, apiVars
<1>9. CASE UpdateStatus
  <2> DEFINE st == IF GivenUp THEN [rec.local EXCEPT !.prog = "ProgressDeadlineExceeded"]
                   ELSE rec.local
  <2>1. ASSUME cos' # cos
        PROVE  Stored(rec.rev, [cos[rec.rev] EXCEPT !.status = st]) /\ rec.cur
    BY <1>9, <2>1 DEF UpdateStatus, apiVars
  <2>2. st.prog = "Archived" => rec.local.prog = "Archived" BY <1>1 DEF Status
  <2>3. rec.pc = "status" BY <1>9 DEF UpdateStatus
  <2> HIDE DEF st
  <2>4. rec.cur => Settled([cos[rec.rev] EXCEPT !.status = st], extDeleted)
    BY <1>1, <1>5, <2>2, <2>3 DEF Settled, COS, Backed
  <2> QED BY <1>1, <1>3, <1>6, <2>1, <2>4
<1>10. ASSUME NEW q \in Revs, ArchivePrevious(q) PROVE Settled(cos'[r], extDeleted)
  <2>1. cos[q].exists => Settled([cos[q] EXCEPT !.archived = TRUE], extDeleted)
    BY <1>1 DEF Settled, COS
  <2> QED BY <1>3, <1>6, <1>10, <2>1, Zenon DEF ArchivePrevious, apiVars
<1>11. ASSUME NEW q \in Revs, CreateRevision(q) PROVE Settled(cos'[r], extDeleted)
  <2>1. Settled([Absent EXCEPT !.exists = TRUE], extDeleted) BY DEF Settled, Absent, NoStatus
  <2> QED BY <1>3, <1>11, <2>1, Zenon DEF CreateRevision
<1>12. ASSUME NEW q \in Revs, DeleteRevision(q) PROVE Settled(cos'[r], extDeleted)
  <2>1. Settled([cos[q] EXCEPT !.deleting = TRUE], extDeleted)
    BY <1>1, <1>12 DEF Settled, COS, DeleteRevision
  <2> QED BY <1>3, <1>4, <1>12, <2>1, Zenon DEF DeleteRevision
<1> QED BY <1>6, <1>7, <1>8, <1>9, <1>10, <1>11, <1>12, OnlyWritesStore DEF Writes

LEMMA LifecycleStarts == Init => LifecycleInvariant
<1> SUFFICES ASSUME Init PROVE LifecycleInvariant OBVIOUS
<1>1. Absent.status.prog = "none" BY DEF Absent, NoStatus
<1>2. Recorded BY <1>1, AbsentFacts DEF Init, Recorded
<1>3. rec.pc = "idle" BY DEF Init, Idle
<1> QED BY <1>2, <1>3 DEF LifecycleInvariant, KnowsCurrent

LEMMA LifecycleKept ==
    TypeOK /\ GuardInvariant /\ RolloutInvariant /\ LifecycleInvariant /\ [Next]_vars
      => LifecycleInvariant'
<1> SUFFICES ASSUME TypeOK, GuardInvariant, RolloutInvariant, LifecycleInvariant, [Next]_vars
             PROVE  LifecycleInvariant'
  OBVIOUS
<1>1. CASE UNCHANGED vars
  BY <1>1 DEF vars, LifecycleInvariant, Recorded, KnowsCurrent, Backed
<1>2. CASE Next BY <1>2, LifecycleReconcile, LifecycleRecorded DEF LifecycleInvariant, Informed
<1> QED BY <1>1, <1>2

\* The revisions as the contract has them, and after a write.
Revisions == [r \in Revs |-> Reported(cos[r])]

LEMMA ReportsStored ==
    ASSUME TypeOK, NEW r \in Revs, NEW c, Stored(r, c)
    PROVE  /\ Revisions' = [Revisions EXCEPT ![r] = Reported(c)]
           /\ Reported(c) = Reported(cos[r]) => Revisions' = Revisions
<1>1. \A q \in Revs : cos'[q] = IF q = r THEN c ELSE cos[q] BY StoredFacts
<1> QED BY <1>1, Zenon DEF Revisions

LEMMA ReportsType ==
    ASSUME TypeOK
    PROVE  /\ \A c \in COS : Reported(c) \in Lifecycle!Revision
           /\ Revisions \in [Revs -> Lifecycle!Revision]
<1>1. \A c \in COS : Reported(c) \in Lifecycle!Revision
  BY DEF Reported, COS, Status, ProgReasons, Lifecycle!Revision, Lifecycle!Progress
<1> QED BY <1>1 DEF Revisions, TypeOK

\* A report that differs in its conditions, or in being archived, only.
Progressed(f, r, p) == [f EXCEPT ![r].prog = p]

LEMMA ReportsProgress ==
    ASSUME NEW f \in [Revs -> Lifecycle!Revision], NEW r \in Revs, NEW z \in Lifecycle!Revision,
           z.exists = f[r].exists, z.archived = f[r].archived, z.succ = f[r].succ,
           NEW g, g = [f EXCEPT ![r] = z]
    PROVE  g = Progressed(f, r, z.prog)
BY Zenon DEF Progressed, Lifecycle!Revision

LEMMA ReportsSuccess ==
    ASSUME NEW f \in [Revs -> Lifecycle!Revision], NEW r \in Revs, NEW z \in Lifecycle!Revision,
           z.exists = f[r].exists, z.archived = f[r].archived, z.prog = "Succeeded", z.succ
    PROVE  [f EXCEPT ![r] = z] = [f EXCEPT ![r].prog = "Succeeded", ![r].succ = TRUE]
BY Zenon DEF Lifecycle!Revision

LEMMA ReportsArchival ==
    ASSUME NEW f \in [Revs -> Lifecycle!Revision], NEW r \in Revs, NEW z \in Lifecycle!Revision,
           z.exists = f[r].exists, z.archived, z.prog = f[r].prog, z.succ = f[r].succ
    PROVE  [f EXCEPT ![r] = z] = [f EXCEPT ![r].archived = TRUE]
BY ZenonT(30) DEF Lifecycle!Revision

\* The contract's steps, over the revisions as they are reported.
LEMMA LifecycleNextFacts ==
    ASSUME NEW r \in Revs
    PROVE  /\ Lifecycle!Create(r) => Lifecycle!LifecycleNext
           /\ Lifecycle!RollOut(r) => Lifecycle!LifecycleNext
           /\ Lifecycle!Archive(r) => Lifecycle!LifecycleNext
           /\ Lifecycle!Succeed(r) => Lifecycle!LifecycleNext
           /\ Lifecycle!Remove(r) => Lifecycle!LifecycleNext
           /\ \A p \in ProgReasons : Lifecycle!Report(r, p) => Lifecycle!LifecycleNext
BY Zenon DEF Lifecycle!LifecycleNext, Lifecycle!Numbers, Revs, Lifecycle!Progress, ProgReasons

\* A revision that is reported with conditions that are true of it.
LEMMA StatusSimulated ==
    ASSUME TypeOK, GuardInvariant, SuccessInvariant, LifecycleInvariant, UpdateStatus,
           cos' # cos
    PROVE  Lifecycle!LifecycleNext
<1> DEFINE r == rec.rev
           st == IF GivenUp THEN [rec.local EXCEPT !.prog = "ProgressDeadlineExceeded"]
                 ELSE rec.local
           c == [cos[r] EXCEPT !.status = st]
<1>1. /\ r \in Revs /\ rec.local \in Status /\ rec.pc = "status" /\ cos[r] \in COS
      /\ UNCHANGED <<latest, rolledOut, extDeleted>>
  BY DEF TypeOK, Rec, UpdateStatus, envVars
<1>2. Stored(r, c) /\ rec.cur BY DEF UpdateStatus, apiVars
<1>3. cos[r].status = rec.orig /\ Backed(rec.local, rec, cos[r], rolledOut)
  BY <1>1, <1>2 DEF GuardInvariant, ReconcileKnows, LifecycleInvariant, KnowsCurrent
<1>4. /\ st \in Status /\ st.succ = rec.local.succ
      /\ st = rec.local \/ (st.prog = "ProgressDeadlineExceeded" /\ ~st.succ)
  <2>1. GivenUp => ~rec.local.succ BY DEF GivenUp, StillProgressing
  <2>2. CASE GivenUp
    <3>1. st = [rec.local EXCEPT !.prog = "ProgressDeadlineExceeded"] BY <2>2
    <3> HIDE DEF st
    <3> QED BY <1>1, <2>1, <2>2, <3>1 DEF Status, ProgReasons
  <2>3. CASE ~GivenUp
    <3>1. st = rec.local BY <2>3
    <3> HIDE DEF st
    <3> QED BY <1>1, <3>1, Zenon
  <2> QED BY <2>2, <2>3
<1>5. /\ cos[r].exists /\ (st.prog = "Archived" => cos[r].archived)
      /\ (st.prog = "ProgressDeadlineExceeded" => ~cos[r].status.succ)
      /\ (cos[r].status.succ => st.succ)
      /\ (st.succ /\ ~cos[r].status.succ =>
            st.prog = "Succeeded" /\ r \in rolledOut /\ ~cos[r].archived)
  BY <1>3, <1>4, ZenonT(30) DEF Backed, SuccessInvariant, NotGivenUp
<1> HIDE DEF st
<1>6. /\ c \in COS /\ c.exists = cos[r].exists /\ c.archived = cos[r].archived /\ c.status = st
  BY <1>1, <1>4 DEF COS
<1>7. st.prog \in ProgReasons /\ st.succ \in BOOLEAN /\ cos[r].status.succ \in BOOLEAN
  BY <1>1, <1>4 DEF Status, COS
<1> HIDE DEF c, r
<1> DEFINE z == Reported(c)
<1>8. Revisions' = [Revisions EXCEPT ![r] = z] BY <1>1, <1>2, ReportsStored
<1>9. /\ Revisions \in [Revs -> Lifecycle!Revision] /\ z \in Lifecycle!Revision
      /\ z.exists = Revisions[r].exists /\ z.archived = Revisions[r].archived
      /\ z.prog = st.prog /\ z.succ = st.succ /\ Revisions[r].succ = cos[r].status.succ
  BY <1>1, <1>6, ReportsType DEF Reported, Revisions
<1> HIDE DEF z
<1>10. CASE st.succ = cos[r].status.succ
  <2>1. Revisions' = [Revisions EXCEPT ![r].prog = st.prog]
    <3>1. z.succ = Revisions[r].succ BY <1>9, <1>10
    <3>2. Revisions' = Progressed(Revisions, r, z.prog)
      BY <1>1, <1>8, <1>9, <3>1, ReportsProgress, Zenon
    <3> QED BY <1>9, <3>2, Zenon DEF Progressed
  <2>2. Lifecycle!Report(r, st.prog)
    BY <1>1, <1>5, <2>1 DEF Lifecycle!Report, Revisions, Reported
  <2> QED BY <1>1, <1>7, <2>2, LifecycleNextFacts
<1>11. CASE st.succ /\ ~cos[r].status.succ
  <2>1. Revisions' = [Revisions EXCEPT ![r].prog = "Succeeded", ![r].succ = TRUE]
    <3>1. z.prog = "Succeeded" /\ z.succ BY <1>5, <1>9, <1>11
    <3> QED BY <1>1, <1>8, <1>9, <3>1, ReportsSuccess, Zenon
  <2>2. Lifecycle!Succeed(r)
    BY <1>1, <1>5, <1>11, <2>1 DEF Lifecycle!Succeed, Revisions, Reported
  <2> QED BY <1>1, <2>2, LifecycleNextFacts
<1> QED BY <1>5, <1>7, <1>10, <1>11

\* A revision that goes away was archived, or its extension is gone.
LEMMA RemovalSimulated ==
    ASSUME TypeOK, NEW r \in Revs, Stored(r, Absent), cos[r].exists,
           cos[r].archived \/ extDeleted, UNCHANGED <<latest, rolledOut, extDeleted>>
    PROVE  Lifecycle!LifecycleNext
<1>1. Reported(Absent) = Lifecycle!NoRevision
  BY Zenon DEF Reported, Absent, NoStatus, Lifecycle!NoRevision
<1>2. Revisions' = [Revisions EXCEPT ![r] = Lifecycle!NoRevision] BY <1>1, ReportsStored
<1>3. Lifecycle!Remove(r) BY <1>2 DEF Lifecycle!Remove, Revisions, Reported
<1> QED BY <1>3, LifecycleNextFacts

\* The steps the readers of the revisions do not see.
Unseen == Revisions' = Revisions /\ UNCHANGED <<latest, rolledOut, extDeleted>>

LEMMA StepSimulated ==
    ASSUME TypeOK, GuardInvariant, RolloutInvariant, SuccessInvariant, LifecycleInvariant, Next
    PROVE  Lifecycle!LifecycleNext \/ Unseen
<1>1. /\ rec \in Rec /\ rec.rev \in Revs
      /\ \A q \in Revs : cos[q] \in COS /\ Settled(cos[q], extDeleted)
  BY DEF TypeOK, Rec, LifecycleInvariant, Recorded, Settled
<1>2. ASSUME NEW r \in Revs, NEW c, Stored(r, c), Reported(c) = Reported(cos[r]),
             UNCHANGED <<latest, rolledOut, extDeleted>>
      PROVE  Unseen
  BY <1>2, ReportsStored DEF Unseen
<1>3. CASE UNCHANGED <<cos, latest, rolledOut, extDeleted>> BY <1>3 DEF Unseen, Revisions
<1>4. rec.pc # "idle" /\ rec.cur => cos[rec.rev].exists
  BY DEF LifecycleInvariant, KnowsCurrent, Backed
<1>5. CASE RemoveFinalizer
  <2>1. UNCHANGED <<latest, rolledOut, extDeleted>> /\ rec.pc = "removeFinalizer"
    BY <1>5 DEF RemoveFinalizer, envVars
  <2>2. CASE Stored(rec.rev, [cos[rec.rev] EXCEPT !.fin = FALSE])
    <3>1. Reported([cos[rec.rev] EXCEPT !.fin = FALSE]) = Reported(cos[rec.rev])
      BY <1>1 DEF COS, Reported
    <3> QED BY <1>1, <1>2, <2>1, <2>2, <3>1, Zenon
  <2>3. CASE Stored(rec.rev, Absent) /\ rec.cur /\ cos[rec.rev].deleting
    <3>1. cos[rec.rev].exists /\ (cos[rec.rev].archived \/ extDeleted)
      BY <1>1, <1>4, <2>1, <2>3 DEF Settled
    <3> QED BY <1>1, <2>1, <2>3, <3>1, RemovalSimulated
  <2> QED BY <1>3, <1>5, <2>1, <2>2, <2>3, Zenon DEF RemoveFinalizer, apiVars
<1>6. CASE EnsureFinalizer
  <2>1. UNCHANGED <<latest, rolledOut, extDeleted>> BY <1>6 DEF EnsureFinalizer, envVars
  <2>2. Reported([cos[rec.rev] EXCEPT !.fin = TRUE]) = Reported(cos[rec.rev])
    BY <1>1 DEF COS, Reported
  <2> QED BY <1>1, <1>2, <1>3, <1>6, <2>1, <2>2, Zenon DEF EnsureFinalizer, apiVars
<1>7. CASE UpdateStatus
  <2>1. UNCHANGED <<latest, rolledOut, extDeleted>> BY <1>7 DEF UpdateStatus, envVars
  <2> QED BY <1>3, <1>7, <2>1, StatusSimulated
<1>8. ASSUME NEW q \in Revs, ArchivePrevious(q) PROVE Lifecycle!LifecycleNext \/ Unseen
  <2> DEFINE c == [cos[q] EXCEPT !.archived = TRUE]
  <2>1. /\ UNCHANGED <<latest, rolledOut, extDeleted>> /\ rec.pc = "archivePrevious"
        /\ q \in rec.todo
    BY <1>8 DEF ArchivePrevious, envVars
  <2>2. CASE Stored(q, c) /\ cos[q].exists
    <3>1. /\ c \in COS /\ c.exists = cos[q].exists /\ c.archived /\ c.status = cos[q].status
      BY <1>1, Zenon DEF COS
    <3> HIDE DEF c
    <3> DEFINE z == Reported(c)
    <3>2. /\ Revisions \in [Revs -> Lifecycle!Revision] /\ z \in Lifecycle!Revision
          /\ z.exists = Revisions[q].exists /\ z.archived
          /\ z.prog = Revisions[q].prog /\ z.succ = Revisions[q].succ
      BY <3>1, ReportsType, Zenon DEF Reported, Revisions
    <3>3. Revisions' = [Revisions EXCEPT ![q].archived = TRUE]
      <4>1. Revisions' = [Revisions EXCEPT ![q] = z] BY <2>2, ReportsStored
      <4> HIDE DEF z
      <4> QED BY <3>2, <4>1, ReportsArchival, Zenon
    <3>4. rec.rev \in rolledOut /\ rec.rev > q
      BY <1>1, <2>1, NAssumption DEF RolloutInvariant, Revs
    <3>5. Lifecycle!Archive(q)
      BY <2>1, <2>2, <3>3, <3>4 DEF Lifecycle!Archive, Revisions, Reported
    <3> QED BY <3>5, LifecycleNextFacts
  <2> HIDE DEF c
  <2> QED BY <1>3, <1>8, <2>1, <2>2, Zenon DEF ArchivePrevious, apiVars, c
<1>9. ASSUME NEW q \in Revs, CreateRevision(q) PROVE Lifecycle!LifecycleNext
  <2>1. /\ ~extDeleted /\ q = latest + 1 /\ latest' = q /\ UNCHANGED <<rolledOut, extDeleted>>
        /\ Stored(q, [Absent EXCEPT !.exists = TRUE])
    BY <1>9 DEF CreateRevision
  <2>2. Reported([Absent EXCEPT !.exists = TRUE]) = [Lifecycle!NoRevision EXCEPT !.exists = TRUE]
    <3> DEFINE c == [Absent EXCEPT !.exists = TRUE]
               n == [Lifecycle!NoRevision EXCEPT !.exists = TRUE]
    <3>1. c.exists = TRUE /\ c.archived = FALSE /\ c.status.prog = "none" /\ c.status.succ = FALSE
      BY DEF Absent, NoStatus
    <3>2. /\ n \in Lifecycle!Revision
          /\ n.exists = TRUE /\ n.archived = FALSE /\ n.prog = "none" /\ n.succ = FALSE
      BY Zenon DEF Lifecycle!NoRevision, Lifecycle!Revision, Lifecycle!Progress
    <3> HIDE DEF c, n
    <3>3. n = [exists |-> TRUE, archived |-> FALSE, prog |-> "none", succ |-> FALSE]
      BY <3>2 DEF Lifecycle!Revision
    <3>4. Reported(c) = [exists |-> TRUE, archived |-> FALSE, prog |-> "none", succ |-> FALSE]
      BY <3>1, Zenon DEF Reported
    <3> QED BY <3>3, <3>4 DEF c, n
  <2>3. Revisions' = [Revisions EXCEPT ![q] = [Lifecycle!NoRevision EXCEPT !.exists = TRUE]]
    BY <2>1, <2>2, ReportsStored
  <2>4. Lifecycle!Create(q) BY <2>1, <2>3 DEF Lifecycle!Create, Revisions
  <2> QED BY <2>4, LifecycleNextFacts
<1>10. ASSUME NEW q \in Revs, DeleteRevision(q) PROVE Lifecycle!LifecycleNext \/ Unseen
  <2>1. /\ UNCHANGED <<latest, rolledOut, extDeleted>> /\ cos[q].exists
        /\ cos[q].archived \/ extDeleted
    BY <1>10 DEF DeleteRevision, envVars
  <2>2. CASE Stored(q, Absent) BY <2>1, <2>2, RemovalSimulated
  <2>3. CASE Stored(q, [cos[q] EXCEPT !.deleting = TRUE])
    <3>1. Reported([cos[q] EXCEPT !.deleting = TRUE]) = Reported(cos[q]) BY <1>1 DEF COS, Reported
    <3> QED BY <1>2, <2>1, <2>3, <3>1, Zenon
  <2> QED BY <1>10, <2>2, <2>3, Zenon DEF DeleteRevision
<1>11. CASE EngineReconcile
  <2>1. /\ UNCHANGED <<cos, latest, extDeleted>> /\ rec.pc = "engine"
        /\ rolledOut' = rolledOut \/ rolledOut' = rolledOut \cup {rec.rev}
    BY <1>11, Zenon DEF EngineReconcile, apiVars, envVars
  <2>2. CASE rolledOut' = rolledOut BY <1>3, <2>1, <2>2
  <2>3. CASE rolledOut' = rolledOut \cup {rec.rev}
    <3>1. cos[rec.rev].exists
      BY <1>1, <2>1, AbsentFacts DEF GuardInvariant, ReconcileKnows, Settled
    <3>2. Lifecycle!RollOut(rec.rev)
      BY <1>1, <2>1, <2>3, <3>1 DEF Lifecycle!RollOut, Reported
    <3> QED BY <1>1, <3>2, LifecycleNextFacts
  <2> QED BY <2>1, <2>2, <2>3
<1>12. CASE DeleteExtension
  <2>1. Lifecycle!ExtensionGone
    BY <1>12 DEF DeleteExtension, apiVars, Lifecycle!ExtensionGone
  <2> QED BY <2>1 DEF Lifecycle!LifecycleNext
<1> QED
  BY <1>3, <1>5, <1>6, <1>7, <1>8, <1>9, <1>10, <1>11, <1>12, ZenonT(30) DEF Next, Reconcile,
     Environment, CacheSync, TrackingSync, Crash, ReconcileNotFound, ReconcileDelete,
     ReconcileRevision, Dequeue, TeardownComplete, TeardownIncomplete, TeardownFails, FreeFails,
     TeardownObjects, EngineFails, PassDeadline, ObjectReady, ObjectUnready, ObjectDeleted,
     ForeignCreates, GarbageCollect, ObjectEvent, apiVars, envVars

\* The controller implements the contract the readers of its revisions rely on: every
\* step creates, rolls out, archives, reports or removes a revision as RevisionLifecycle
\* allows, or shows nothing of itself, however stale the copies it works from.
THEOREM ImplementsLifecycle == Spec => KeepsLifecycle
<1> DEFINE Inv == /\ TypeOK /\ GuardInvariant /\ RolloutInvariant
                  /\ SuccessInvariant /\ LifecycleInvariant
<1>1. Init => Inv BY TypeInit, GuardInit, RolloutInit, SuccessInit, LifecycleStarts
<1>2. Inv /\ [Next]_vars => Inv'
  BY TypeNext, GuardNext, RolloutNext, SuccessNext, LifecycleKept
<1>3. Init => Lifecycle!LifecycleInit
  <2> SUFFICES ASSUME Init PROVE Lifecycle!LifecycleInit OBVIOUS
  <2>1. Reported(Absent) = Lifecycle!NoRevision
    BY Zenon DEF Reported, Absent, NoStatus, Lifecycle!NoRevision
  <2> QED BY <2>1 DEF Init, Lifecycle!LifecycleInit, Lifecycle!Numbers, Revs
<1>4. Inv /\ [Next]_vars => [Lifecycle!LifecycleNext]_(Lifecycle!lifecycleVars)
  <2>1. Unseen => UNCHANGED Lifecycle!lifecycleVars
    BY DEF Unseen, Revisions, Lifecycle!lifecycleVars
  <2>2. UNCHANGED vars => UNCHANGED Lifecycle!lifecycleVars
    BY DEF vars, Lifecycle!lifecycleVars
  <2> QED BY <2>1, <2>2, StepSimulated
<1> QED BY <1>1, <1>2, <1>3, <1>4, PTL DEF Spec, KeepsLifecycle, Lifecycle!LifecycleSpec

(***************************************************************************)
(* A handover interrupts no object                                         *)
(***************************************************************************)

\* A step that leaves no interference behind is none.
LEMMA Undisturbed ==
    ASSUME TypeOK, Next, drift' = 0
    PROVE  /\ drift = 0 /\ extDeleted' = extDeleted
           /\ \A o \in Objects : ~ObjectUnready(o) /\ ~ObjectDeleted(o) /\ ~ForeignCreates(o)
<1>1. ~Drift BY BoundsAssumption DEF Drift, TypeOK
<1>2. drift' = drift /\ extDeleted' = extDeleted
  BY <1>1, ZenonT(30) DEF Next, Reconcile, Environment, CacheSync, TrackingSync, Crash,
     ReconcileNotFound, ReconcileDelete, ReconcileRevision, Dequeue, RemoveFinalizer,
     EnsureFinalizer, UpdateStatus, ArchivePrevious, CreateRevision, DeleteRevision,
     TeardownComplete, TeardownIncomplete, TeardownFails, FreeFails, TeardownObjects,
     EngineReconcile, EngineFails, DeleteExtension, PassDeadline, ObjectReady, ObjectUnready,
     ObjectDeleted, ForeignCreates, GarbageCollect, ObjectEvent, envVars
<1> QED BY <1>1, <1>2, Zenon DEF ObjectUnready, ObjectDeleted, ForeignCreates

\* What one step does to an object: nothing that matters here, ...
Unmoved(o) ==
    /\ objs'[o].exists = objs[o].exists /\ objs'[o].ctrl = objs[o].ctrl
    /\ objs'[o].owners = objs[o].owners
\* ... the engine takes it for the revision in hand, ...
Taken(o) ==
    /\ rec.pc = "engine" /\ ObjectAction(o, FALSE) = "applied"
    /\ objs'[o].exists /\ objs'[o].ctrl = rec.rev
    /\ objs'[o].owners = objs[o].owners \cup {rec.rev}
\* ... a teardown gives it up, or the garbage collector drops owners.
GivenBack(o) == rec.pc = "teardown" /\ objs'[o] = TornDown(rec.rev, o)
Collected(o) ==
    /\ objs'[o].owners = {q \in objs[o].owners : cos[q].exists}
    /\ \/ objs'[o].ctrl = NoCtrl
       \/ /\ objs'[o].ctrl = objs[o].ctrl /\ objs'[o].exists = objs[o].exists
          /\ objs[o].ctrl \in objs'[o].owners
    /\ objs[o].ctrl \in objs'[o].owners => objs'[o].ctrl = objs[o].ctrl

LEMMA CollectedFacts ==
    ASSUME TypeOK, NEW o \in Objects, GarbageCollect(o)
    PROVE  Collected(o) /\ \A x \in Objects : x # o => Unmoved(x)
<1> DEFINE live == {q \in objs[o].owners : cos[q].exists}
           kept == [objs[o] EXCEPT !.owners = live, !.ctrl = IF @ \in live THEN @ ELSE NoCtrl]
<1>1. objs[o] \in Object BY DEF TypeOK
<1>2. /\ kept.owners = live /\ kept.exists = objs[o].exists
      /\ kept.ctrl = IF objs[o].ctrl \in live THEN objs[o].ctrl ELSE NoCtrl
  BY <1>1 DEF Object
<1>3. NoObject.owners = {} /\ NoObject.ctrl = NoCtrl BY DEF NoObject
<1>4. ObjectEvent(o, IF live = {} THEN NoObject ELSE kept) BY DEF GarbageCollect
<1> HIDE DEF live, kept
<1>5. /\ objs'[o] = IF live = {} THEN NoObject ELSE kept
      /\ \A x \in Objects : x # o => objs'[x] = objs[x]
  BY <1>4 DEF ObjectEvent, TypeOK
<1>6. Collected(o) BY <1>2, <1>3, <1>5 DEF Collected, live
<1> QED BY <1>5, <1>6 DEF Unmoved

LEMMA ObjectMoves ==
    ASSUME TypeOK, GuardInvariant, Next, drift' = 0, NEW o \in Objects
    PROVE  Unmoved(o) \/ Taken(o) \/ GivenBack(o) \/ Collected(o)
<1>1. CASE objs' = objs BY <1>1 DEF Unmoved
<1>2. ASSUME NEW S, rec.pc = "engine",
             objs' = [x \in Objects |-> IF x \in S THEN Applied(x) ELSE objs[x]]
      PROVE  Unmoved(o) \/ Taken(o)
  <2>1. objs'[o] = Applied(o) \/ objs'[o] = objs[o] BY <1>2
  <2>2. CASE ObjectAction(o, FALSE) # "applied" BY <2>1, <2>2 DEF Applied, Unmoved
  <2>3. CASE ObjectAction(o, FALSE) = "applied"
    <3>1. Applied(o) = [exists |-> TRUE, ctrl |-> rec.rev, owners |-> objs[o].owners \cup {rec.rev},
                        ready |-> objs[o].ready]
      BY <2>3 DEF Applied
    <3>2. /\ Applied(o).exists /\ Applied(o).ctrl = rec.rev
          /\ Applied(o).owners = objs[o].owners \cup {rec.rev}
      BY <3>1
    <3>3. objs'[o] = Applied(o) => Taken(o) BY <1>2, <2>3, <3>2, Zenon DEF Taken
    <3> QED BY <2>1, <3>3 DEF Unmoved
  <2> QED BY <2>2, <2>3, Zenon
<1>3. CASE EngineReconcile
  <2>1. rec.pc = "engine" /\ \E S : objs' = [x \in Objects |-> IF x \in S THEN Applied(x) ELSE objs[x]]
    BY <1>3, ZenonT(30) DEF EngineReconcile
  <2> QED BY <1>2, <2>1
<1>4. CASE EngineFails
  <2>1. \/ objs' = objs
        \/ rec.pc = "engine" /\ \E S : objs' = [x \in Objects |-> IF x \in S THEN Applied(x) ELSE objs[x]]
    BY <1>4, ZenonT(30) DEF EngineFails
  <2> QED BY <1>1, <1>2, <2>1
<1>5. ASSUME NEW done, TeardownObjects(done) PROVE Unmoved(o) \/ GivenBack(o)
  <2>1. objs' = [x \in Objects |-> IF x \in done THEN TornDown(rec.rev, x) ELSE objs[x]]
    BY <1>5 DEF TeardownObjects, AfterTeardown
  <2>2. objs'[o] = TornDown(rec.rev, o) \/ objs'[o] = objs[o] BY <2>1
  <2> QED BY <1>5, <2>2 DEF Unmoved, GivenBack, TeardownObjects
<1>6. CASE TeardownComplete \/ TeardownIncomplete \/ TeardownFails
  <2>1. \E done : TeardownObjects(done)
    BY <1>6, Zenon DEF TeardownComplete, TeardownIncomplete, TeardownFails
  <2> QED BY <1>5, <2>1
<1>7. ASSUME NEW x \in Objects, GarbageCollect(x) PROVE Unmoved(o) \/ Collected(o)
  BY <1>7, CollectedFacts
<1>8. ASSUME NEW x \in Objects, ObjectReady(x) PROVE Unmoved(o)
  <2>1. objs[x] \in Object /\ objs' = [objs EXCEPT ![x] = [objs[x] EXCEPT !.ready = TRUE]]
    BY <1>8 DEF TypeOK, ObjectReady, ObjectEvent
  <2> QED BY <2>1 DEF Unmoved, Object, TypeOK
<1>9. CASE Environment
  BY <1>1, <1>7, <1>8, <1>9, Undisturbed, Zenon DEF Environment, DeleteExtension, CreateRevision,
     DeleteRevision, PassDeadline
<1>10. CASE Reconcile
  BY <1>1, <1>3, <1>4, <1>6, <1>10, Zenon DEF Reconcile, ReconcileNotFound, ReconcileDelete,
     ReconcileRevision, Dequeue, EnsureFinalizer, ArchivePrevious, FreeFails, RemoveFinalizer,
     UpdateStatus
<1> QED BY <1>1, <1>9, <1>10, Zenon DEF Next, CacheSync, TrackingSync, Crash

\* The previous revisions a reconcile was told of are older than its own.
LEMMA PreviousIsOlder ==
    ASSUME TypeOK, \A q \in rec.prev : q < rec.rev, Next
    PROVE  \A q \in rec'.prev : q < rec'.rev
<1>1. rec \in Rec BY DEF TypeOK
<1>2. ASSUME rec'.prev = {} PROVE \A q \in rec'.prev : q < rec'.rev BY <1>2
<1>3. ASSUME NEW m \in Rec, NEW st, NEW again, rec' = Returned(m, st, again)
      PROVE  \A q \in rec'.prev : q < rec'.rev
  <2>1. rec'.prev = {} BY <1>3 DEF Returned, Rec
  <2> QED BY <2>1
<1>4. ASSUME NEW st, NEW again, Return(st, again) PROVE \A q \in rec'.prev : q < rec'.rev
  BY <1>1, <1>3, <1>4 DEF Return
<1>5. CASE rec'.prev = rec.prev /\ rec'.rev = rec.rev BY <1>5
<1>6. ASSUME NEW todo, NEW st, ArchiveNext(todo, st) PROVE \A q \in rec'.prev : q < rec'.rev
  <2>1. CASE todo = {} BY <1>4, <1>6, <2>1, Zenon DEF ArchiveNext
  <2>2. CASE todo # {}
    <3>1. rec'.prev = {} BY <1>1, <1>6, <2>2, Zenon DEF ArchiveNext, Rec
    <3> QED BY <3>1
  <2> QED BY <2>1, <2>2
<1>7. ASSUME NEW r \in Revs,
             ReconcileNotFound(r) \/ ReconcileDelete(r) \/ ReconcileRevision(r)
      PROVE  \A q \in rec'.prev : q < rec'.rev
  <2>1. Copy(r) \in Rec /\ Copy(r).rev = r BY Copies, CopyFacts
  <2>2. Copy(r).prev = {} BY Zenon DEF Copy, Idle
  <2>3. CASE ReconcileNotFound(r) BY <1>5, <2>3 DEF ReconcileNotFound
  <2>4. CASE ReconcileDelete(r)
    <3>1. CASE rec' = [Copy(r) EXCEPT !.pc = "removeFinalizer"]
      <4>1. rec'.prev = {} BY <2>1, <2>2, <3>1 DEF Rec
      <4> QED BY <4>1
    <3> QED BY <1>3, <2>1, <2>4, <3>1, Zenon DEF ReconcileDelete
  <2>5. CASE ReconcileRevision(r)
    <3>1. ASSUME NEW pc, NEW p, NEW s, rec' = [Copy(r) EXCEPT !.pc = pc, !.prev = p, !.sibs = s]
          PROVE  rec'.prev = p /\ rec'.rev = r
      BY <2>1, <3>1 DEF Rec
    <3>2. \/ \E pc, s : rec' = [Copy(r) EXCEPT !.pc = pc, !.prev = PreviousRevisions(r), !.sibs = s]
          \/ rec' = Returned(Copy(r), setRetryingConditions(cache[r].status), TRUE)
      BY <2>5, ZenonT(30) DEF ReconcileRevision
    <3>3. CASE rec' = Returned(Copy(r), setRetryingConditions(cache[r].status), TRUE)
      BY <1>3, <2>1, <3>3, Zenon
    <3>4. CASE rec'.prev = PreviousRevisions(r) /\ rec'.rev = r
      BY <3>4 DEF PreviousRevisions
    <3> QED BY <3>1, <3>2, <3>3, <3>4, Zenon
  <2> QED BY <1>7, <2>3, <2>4, <2>5
<1>8. CASE TeardownComplete
  <2>1. CASE rec' = [rec EXCEPT !.pc = "removeFinalizer"] BY <1>1, <1>5, <2>1 DEF Rec
  <2> QED BY <1>4, <1>8, <2>1, Zenon DEF TeardownComplete
<1>9. CASE TeardownIncomplete \/ TeardownFails \/ FreeFails \/ EngineFails
  BY <1>4, <1>9, Zenon DEF TeardownIncomplete, TeardownFails, FreeFails, EngineFails
<1>10. CASE RemoveFinalizer \/ EnsureFinalizer
  <2>1. ASSUME NEW f, NEW u, rec' = [rec EXCEPT !.pc = "status", !.fin = f, !.cur = u]
        PROVE  rec'.prev = rec.prev /\ rec'.rev = rec.rev
    BY <1>1, <2>1 DEF Rec
  <2>2. ASSUME rec' = [rec EXCEPT !.pc = "engine", !.fin = TRUE]
        PROVE  rec'.prev = rec.prev /\ rec'.rev = rec.rev
    BY <1>1, <2>2 DEF Rec
  <2> QED BY <1>4, <1>5, <1>10, <2>1, <2>2, Zenon DEF RemoveFinalizer, EnsureFinalizer
<1>11. ASSUME NEW q \in Revs, ArchivePrevious(q) PROVE \A x \in rec'.prev : x < rec'.rev
  BY <1>4, <1>6, <1>11, Zenon DEF ArchivePrevious
<1>12. CASE EngineReconcile
  <2>1. (\E st, again : Return(st, again)) \/ \E todo, st : ArchiveNext(todo, st)
    BY <1>12, Zenon DEF EngineReconcile, RolloutComplete
  <2> QED BY <1>4, <1>6, <2>1, Zenon
<1>13. CASE UpdateStatus \/ Crash
  <2>1. rec'.prev = {} BY <1>13 DEF UpdateStatus, Crash, Idle
  <2> QED BY <2>1
<1>14. CASE CacheSync \/ TrackingSync \/ Environment
  <2>1. ASSUME NEW r \in Revs, DeleteRevision(r) PROVE rec'.prev = rec.prev /\ rec'.rev = rec.rev
    BY <1>1, <2>1 DEF DeleteRevision, Overtaken, Rec
  <2> QED BY <1>5, <1>14, <2>1, Zenon DEF CacheSync, TrackingSync, Environment,
       DeleteExtension, CreateRevision, PassDeadline, ObjectReady, ObjectUnready, ObjectDeleted,
       ForeignCreates, GarbageCollect, ObjectEvent
<1> QED BY <1>7, <1>8, <1>9, <1>10, <1>11, <1>12, <1>13, <1>14 DEF Next, Reconcile

\* The part of the invariant that holds without interference.
Orderly ==
    /\ Controlled
    /\ ~extDeleted /\ \A o \in Objects : objs[o].ctrl # Foreign
    /\ \A r \in 1..latest : Gone(cos[r]) => Superseded(r)
    /\ \A n \in rolledOut :
         n <= latest /\ (Superseded(n) \/ \A o \in Objs(n) : objs[o].ctrl \in n..N)

\* Whoever controls an object exists as one of its owners, and is no stranger.
LEMMA StaysControlled ==
    ASSUME TypeOK, GuardInvariant, Orderly, Next, drift' = 0
    PROVE  Controlled' /\ \A o \in Objects : objs'[o].ctrl # Foreign
<1> SUFFICES ASSUME NEW o \in Objects
             PROVE  /\ objs'[o].ctrl \in Revs => objs'[o].exists /\ objs'[o].ctrl \in objs'[o].owners
                    /\ objs'[o].ctrl # Foreign
  BY DEF Controlled
<1>1. /\ objs[o].ctrl \in Revs => objs[o].exists /\ objs[o].ctrl \in objs[o].owners
      /\ objs[o].ctrl # Foreign /\ objs[o] \in Object
  BY DEF Orderly, Controlled, TypeOK
<1>2. rec.rev \in Revs /\ NoCtrl \notin Revs /\ Foreign \notin Revs /\ NoCtrl # Foreign
  BY NAssumption DEF TypeOK, Rec, Revs, NoCtrl, Foreign
<1>3. CASE Unmoved(o) BY <1>1, <1>3 DEF Unmoved
<1>4. CASE Taken(o) BY <1>2, <1>4 DEF Taken
<1>5. CASE GivenBack(o)
  <2>1. CASE objs[o].ctrl = rec.rev
    <3>1. objs'[o].ctrl = NoCtrl BY <1>5, <2>1 DEF GivenBack, TornDown, NoObject
    <3> QED BY <1>2, <3>1
  <2>2. CASE objs[o].ctrl # rec.rev
    <3>1. objs'[o] = [objs[o] EXCEPT !.owners = objs[o].owners \ {rec.rev}]
      BY <1>5, <2>2 DEF GivenBack, TornDown
    <3> QED BY <1>1, <2>2, <3>1 DEF Object
  <2> QED BY <2>1, <2>2
<1>6. CASE Collected(o) BY <1>1, <1>2, <1>6 DEF Collected
<1> QED BY <1>3, <1>4, <1>5, <1>6, ObjectMoves

\* Nothing takes an object from the newest rolled out revision but a newer one.
LEMMA StaysWithNewest ==
    ASSUME TypeOK, GuardInvariant, HandoverInvariant, Orderly, Next, drift' = 0,
           NEW n \in rolledOut, ~Superseded(n), NEW o \in Objs(n)
    PROVE  objs'[o].ctrl \in n..N
<1>1. /\ n \in Revs /\ rec.rev \in Revs /\ \A q \in Revs : q \in Nat
      /\ N \in Nat /\ latest \in Nat
  BY NAssumption DEF TypeOK, Rec, Revs
<1>2. o \in Objects BY <1>1, PhasesAssumption DEF Objs
<1>3. /\ objs[o].ctrl \in n..N /\ objs[o].ctrl \in Revs
      /\ objs[o].exists /\ objs[o].ctrl \in objs[o].owners
  <2>1. objs[o].ctrl \in n..N BY DEF Orderly
  <2>2. objs[o].ctrl \in Revs BY <1>1, <2>1 DEF Revs
  <2> QED BY <1>2, <2>1, <2>2 DEF Orderly, Controlled
<1>4. CASE Unmoved(o) BY <1>3, <1>4 DEF Unmoved
<1>5. CASE Taken(o)
  <2>1. objs[o].ctrl \in {rec.rev} \cup rec.prev BY <1>3, <1>5 DEF Taken, ObjectAction
  <2>2. objs[o].ctrl <= rec.rev BY <1>1, <1>3, <2>1 DEF HandoverInvariant
  <2> QED BY <1>1, <1>3, <1>5, <2>2 DEF Taken, Revs
<1>6. CASE GivenBack(o)
  <2>1. Gone(cos[rec.rev]) /\ rec.rev <= latest
    BY <1>6 DEF GivenBack, GuardInvariant, ReconcileKnows, NumbersInOrder
  <2>2. rec.rev \in 1..latest BY <1>1, <2>1 DEF Revs
  <2>3. PICK m \in rolledOut : m > rec.rev BY <2>1, <2>2 DEF Orderly, Superseded
  <2>4. m \in Revs /\ ~(m > n) BY <2>3 DEF Superseded, TypeOK
  <2>5. objs[o].ctrl # rec.rev BY <1>1, <1>3, <2>3, <2>4
  <2>6. objs'[o].ctrl = objs[o].ctrl
    BY <1>2, <1>6, <2>5 DEF GivenBack, TornDown, TypeOK, Object
  <2> QED BY <1>3, <2>6
<1>7. CASE Collected(o)
  <2> DEFINE c == objs[o].ctrl
  <2>1. CASE cos[c].exists BY <1>3, <1>7, <2>1 DEF Collected
  <2>2. CASE ~cos[c].exists
    <3>1. c <= latest BY <1>1, <1>2, <1>3 DEF GuardInvariant, NumbersInOrder
    <3>2. c \in 1..latest BY <1>1, <1>3, <3>1 DEF Revs
    <3>3. PICK m \in rolledOut : m > c BY <2>2, <3>2 DEF Orderly, Superseded, Gone
    <3>4. m \in Revs BY <3>3 DEF TypeOK
    <3>5. m > n BY <1>1, <1>3, <3>3, <3>4
    <3> QED BY <3>3, <3>5 DEF Superseded
  <2> QED BY <2>1, <2>2
<1> QED BY <1>2, <1>4, <1>5, <1>6, <1>7, ObjectMoves

\* A revision in use is not deleted while its extension is there.
LEMMA InUseStays ==
    ASSUME TypeOK, Next, NEW r \in Revs, ~Gone(cos[r]), ~extDeleted
    PROVE  cos'[r].exists /\ ~cos'[r].deleting
<1> SUFFICES ASSUME ~(cos'[r].exists /\ ~cos'[r].deleting) PROVE FALSE OBVIOUS
<1>1. rec.rev \in Revs /\ \A q \in Revs : cos[q] \in COS BY DEF TypeOK, Rec
<1>2. ASSUME NEW q \in Revs, NEW c, Stored(q, c),
             q = r => c.exists /\ ~c.deleting
      PROVE FALSE
  BY <1>2, StoredFacts DEF Gone
<1>3. cos' # cos BY DEF Gone
<1>4. cos[r].exists /\ ~cos[r].deleting /\ ~cos[r].archived BY DEF Gone
<1>5. ~RemoveFinalizer
  <2>1. /\ [cos[rec.rev] EXCEPT !.fin = FALSE].exists = cos[rec.rev].exists
        /\ [cos[rec.rev] EXCEPT !.fin = FALSE].deleting = cos[rec.rev].deleting
    BY <1>1 DEF COS
  <2>2. ASSUME RemoveFinalizer
        PROVE  Stored(rec.rev, IF cos[rec.rev].deleting THEN Absent
                               ELSE [cos[rec.rev] EXCEPT !.fin = FALSE])
    BY <1>3, <2>2, Zenon DEF RemoveFinalizer, apiVars
  <2> QED BY <1>1, <1>2, <1>4, <2>1, <2>2, Zenon
<1>6. ~EnsureFinalizer
  <2>1. /\ [cos[rec.rev] EXCEPT !.fin = TRUE].exists = cos[rec.rev].exists
        /\ [cos[rec.rev] EXCEPT !.fin = TRUE].deleting = cos[rec.rev].deleting
    BY <1>1 DEF COS
  <2>2. ASSUME EnsureFinalizer PROVE Stored(rec.rev, [cos[rec.rev] EXCEPT !.fin = TRUE])
    BY <1>3, <2>2, Zenon DEF EnsureFinalizer, apiVars
  <2> QED BY <1>1, <1>2, <1>4, <2>1, <2>2, Zenon
<1>7. ~UpdateStatus
  <2>1. \A st : /\ [cos[rec.rev] EXCEPT !.status = st].exists = cos[rec.rev].exists
                /\ [cos[rec.rev] EXCEPT !.status = st].deleting = cos[rec.rev].deleting
    BY <1>1 DEF COS
  <2>2. ASSUME UpdateStatus
        PROVE  \E st : Stored(rec.rev, [cos[rec.rev] EXCEPT !.status = st])
    BY <1>3, <2>2, Zenon DEF UpdateStatus, apiVars
  <2> QED BY <1>1, <1>2, <1>4, <2>1, <2>2, Zenon
<1>8. ASSUME NEW q \in Revs, CreateRevision(q) PROVE FALSE
  <2>1. [Absent EXCEPT !.exists = TRUE].exists /\ ~[Absent EXCEPT !.exists = TRUE].deleting
    BY DEF Absent
  <2> QED BY <1>2, <1>8, <2>1, Zenon DEF CreateRevision
<1>9. ASSUME NEW q \in Revs, DeleteRevision(q) PROVE FALSE
  BY <1>2, <1>4, <1>9, Zenon DEF DeleteRevision
<1>10. ASSUME NEW q \in Revs, ArchivePrevious(q) PROVE FALSE
  <2>1. /\ [cos[q] EXCEPT !.archived = TRUE].exists = cos[q].exists
        /\ [cos[q] EXCEPT !.archived = TRUE].deleting = cos[q].deleting
    BY <1>1 DEF COS
  <2>2. Stored(q, [cos[q] EXCEPT !.archived = TRUE])
    BY <1>3, <1>10, Zenon DEF ArchivePrevious, apiVars
  <2> QED BY <1>2, <1>4, <2>1, <2>2, Zenon
<1> QED BY <1>3, <1>5, <1>6, <1>7, <1>8, <1>9, <1>10, OnlyWritesStore DEF Writes

\* The numbers given out only grow, and a new revision is in use.
LEMMA NumbersGrow ==
    ASSUME TypeOK, Next
    PROVE  \/ latest' = latest
           \/ latest' = latest + 1 /\ ~Gone(cos'[latest'])
<1>1. ASSUME NEW q \in Revs, CreateRevision(q) PROVE latest' = latest + 1 /\ ~Gone(cos'[latest'])
  <2>1. Stored(q, [Absent EXCEPT !.exists = TRUE]) /\ latest' = q /\ q = latest + 1
    BY <1>1 DEF CreateRevision
  <2>2. cos'[q] = [Absent EXCEPT !.exists = TRUE] BY <2>1, StoredFacts
  <2>3. /\ [Absent EXCEPT !.exists = TRUE].exists /\ ~[Absent EXCEPT !.exists = TRUE].deleting
        /\ ~[Absent EXCEPT !.exists = TRUE].archived
    BY DEF Absent
  <2> QED BY <2>1, <2>2, <2>3 DEF Gone
<1> QED
  BY <1>1, ZenonT(30) DEF Next, Reconcile, Environment, CacheSync, TrackingSync, Crash,
     ReconcileNotFound, ReconcileDelete, ReconcileRevision, Dequeue, RemoveFinalizer,
     EnsureFinalizer, UpdateStatus, ArchivePrevious, DeleteRevision,
     TeardownComplete, TeardownIncomplete, TeardownFails, FreeFails, TeardownObjects,
     EngineReconcile, EngineFails, DeleteExtension, PassDeadline, ObjectReady, ObjectUnready,
     ObjectDeleted, ForeignCreates, GarbageCollect, ObjectEvent, envVars

\* Without interference a revision is given up only for a newer, rolled out one.
LEMMA GoneBySuccession ==
    ASSUME TypeOK, RolloutInvariant, Orderly, Next,
           NEW r \in 1..latest', Gone(cos'[r])
    PROVE  Superseded(r)'
<1>1. rolledOut \subseteq rolledOut' BY RolledOutGrows
<1>2. /\ latest \in Nat /\ latest' \in Nat /\ latest' <= N /\ N \in Nat
      /\ r \in Revs
  <2>1. TypeOK' BY TypeNext
  <2> QED BY <2>1, NAssumption DEF TypeOK, Revs
<1>3. r \in 1..latest BY <1>2, NumbersGrow
<1>4. CASE Gone(cos[r]) BY <1>1, <1>3, <1>4 DEF Orderly, Superseded
<1>5. CASE ~Gone(cos[r])
  <2>1. cos'[r].archived BY <1>2, <1>5, InUseStays DEF Gone, Orderly
  <2>2. RolloutInvariant' BY RolloutNext
  <2> QED BY <1>2, <2>1, <2>2 DEF RolloutInvariant, ArchivedOnlyAfterRollout, Superseded
<1> QED BY <1>4, <1>5

LEMMA HandoverInit == Init => HandoverInvariant
<1> SUFFICES ASSUME Init PROVE HandoverInvariant OBVIOUS
<1>1. rec.prev = {} /\ rolledOut = {} /\ latest = 0 /\ ~extDeleted BY DEF Init, Idle
<1>2. \A o \in Objects : objs[o].ctrl = NoCtrl BY DEF Init, NoObject
<1>3. NoCtrl \notin Revs /\ NoCtrl # Foreign BY NAssumption DEF NoCtrl, Foreign, Revs
<1> QED BY <1>1, <1>2, <1>3 DEF HandoverInvariant, Controlled

LEMMA HandoverNext ==
    TypeOK /\ GuardInvariant /\ RolloutInvariant /\ HandoverInvariant /\ [Next]_vars
      => HandoverInvariant'
<1> SUFFICES ASSUME TypeOK, GuardInvariant, RolloutInvariant, HandoverInvariant, [Next]_vars
             PROVE  HandoverInvariant'
  OBVIOUS
<1>1. CASE UNCHANGED vars
  BY <1>1, Zenon DEF vars, apiVars, envVars, HandoverInvariant, Controlled, Superseded
<1>2. CASE Next
  <2>1. \A q \in rec'.prev : q < rec'.rev BY <1>2, PreviousIsOlder DEF HandoverInvariant
  <2>2. ASSUME drift' = 0 PROVE Orderly'
    <3>1. Orderly /\ extDeleted' = extDeleted
      BY <1>2, <2>2, Undisturbed DEF HandoverInvariant, Orderly
    <3>2. Controlled' /\ \A o \in Objects : objs'[o].ctrl # Foreign
      BY <1>2, <2>2, <3>1, StaysControlled
    <3>3. \A r \in 1..latest' : Gone(cos'[r]) => Superseded(r)'
      BY <1>2, <3>1, GoneBySuccession
    <3>4. ASSUME NEW n \in rolledOut'
          PROVE  n <= latest' /\ (Superseded(n)' \/ \A o \in Objs(n) : objs'[o].ctrl \in n..N)
      <4>1. latest \in Nat /\ n \in Revs /\ \A q \in Revs : q \in Nat
        <5>1. TypeOK' BY <1>2, TypeNext
        <5> QED BY <5>1, NAssumption DEF TypeOK, Revs
      <4>2. CASE n \in rolledOut
        <5>1. n <= latest' BY <1>2, <3>1, <4>1, <4>2, NumbersGrow DEF Orderly
        <5>2. CASE Superseded(n) BY <1>2, <5>1, <5>2, RolledOutGrows DEF Superseded
        <5>3. CASE ~Superseded(n) BY <1>2, <2>2, <3>1, <4>2, <5>1, <5>3, StaysWithNewest
        <5> QED BY <5>2, <5>3
      <4>3. CASE n \notin rolledOut
        <5>1. EngineReconcile /\ n = rec.rev BY <1>2, <4>3, RolledOutGrows
        <5>2. n <= latest' BY <5>1, EngineApplies
        <5> QED BY <1>2, <4>3, <5>2, RolloutTakesAll
      <4> QED BY <4>2, <4>3
    <3> QED BY <3>1, <3>2, <3>3, <3>4 DEF Orderly
  <2> QED BY <2>1, <2>2 DEF HandoverInvariant, Orderly
<1> QED BY <1>1, <1>2

\* As long as only the controller acts, no object is deleted that the newest rolled
\* out revision lists, whatever stale reconcile of an archived owner, teardown or
\* garbage collection is still to come.
THEOREM HandoverUninterrupted == Spec => HandoverKeepsObjects
<1> DEFINE Kept == \A o \in Objects : drift' = 0 /\ objs[o].exists /\ ~objs'[o].exists =>
                     \A n \in rolledOut : o \in Objs(n) => \E m \in rolledOut : m > n
<1>1. TypeOK /\ GuardInvariant /\ HandoverInvariant /\ [Next]_vars => [Kept]_vars
  <2> SUFFICES ASSUME TypeOK, GuardInvariant, HandoverInvariant, Next, NEW o \in Objects,
                      drift' = 0, ~objs'[o].exists, NEW n \in rolledOut, o \in Objs(n),
                      ~Superseded(n)
               PROVE  FALSE
    BY DEF Superseded
  <2>1. Orderly BY Undisturbed DEF HandoverInvariant, Orderly
  <2>2. objs'[o].ctrl \in n..N BY <2>1, StaysWithNewest
  <2>3. objs'[o].ctrl \in Revs
    <3>1. n \in Revs BY DEF TypeOK
    <3> QED BY <2>2, <3>1, NAssumption DEF Revs
  <2>4. Controlled' BY <2>1, StaysControlled
  <2> QED BY <2>3, <2>4 DEF Controlled
<1>2. Init => TypeOK /\ GuardInvariant /\ RolloutInvariant /\ HandoverInvariant
  BY TypeInit, GuardInit, RolloutInit, HandoverInit
<1>3. TypeOK /\ GuardInvariant /\ RolloutInvariant /\ HandoverInvariant /\ [Next]_vars
        => TypeOK' /\ GuardInvariant' /\ RolloutInvariant' /\ HandoverInvariant'
  BY TypeNext, GuardNext, RolloutNext, HandoverNext
<1> QED BY <1>1, <1>2, <1>3, PTL DEF Spec, HandoverKeepsObjects
=============================================================================
