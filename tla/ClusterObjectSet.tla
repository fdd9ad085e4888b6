-------------------------- MODULE ClusterObjectSet --------------------------
(***************************************************************************)
(* The ClusterObjectSet (COS) controller of operator-controller rolling    *)
(* out the revisions 1..N of one ClusterExtension: one worker that         *)
(* reconciles a revision at a time from a lagging informer cache, writes   *)
(* with optimistic concurrency, hands objects over from the previous       *)
(* revisions, archives them once the new one is complete, and tears        *)
(* archived revisions down.  The boxcutter engine, the API server, the     *)
(* Kubernetes garbage collector and the workload are its environment.      *)
(***************************************************************************)
EXTENDS Naturals, FiniteSets, Sequences

CONSTANTS
    N,           \* number of revisions the extension may reach
    Objects,     \* cluster objects named by the revisions
    Phases,      \* Phases[r]: the sequence of sets of objects revision r applies
    Kind,        \* Kind[o]: the GroupVersionKind of object o; informers are per kind
    Probed,      \* objects whose kind has a progression probe
    Deadlines,   \* revisions with spec.progressDeadlineMinutes > 0
    MaxFaults,   \* bound: failed calls and process crashes in one behaviour
    MaxDrift,    \* bound: deletions and takeovers by others, probe regressions
    MaxDisturbances \* bound: all of these and deadlines that pass, together

Revs == 1..N
NoCtrl == 0          \* the object has no controller
Foreign == N + 1     \* the controller is a COS of another extension

ASSUME NAssumption == N \in Nat \ {0}
ASSUME PhasesAssumption == Phases \in [Revs -> Seq(SUBSET Objects)]
ASSUME SetsAssumption == Probed \subseteq Objects /\ Deadlines \subseteq Revs
ASSUME BoundsAssumption == MaxFaults \in Nat /\ MaxDrift \in Nat /\ MaxDisturbances \in Nat

VARIABLES
    cos,         \* the revisions as the API server stores them
    cache,       \* the manager's informer cache of them
    synced,      \* revisions whose cached copy has the stored resourceVersion
    tcache,      \* the tracking cache's (separate) view of the revisions
    objs,        \* the cluster objects
    queue,       \* work queue: requests waiting, delayed requeues included
    watching,    \* revisions with informers established in the tracking cache
    rec,         \* the reconcile in progress
    expired,     \* revisions older than their progress deadline
    latest,      \* the last revision number the applier created
    extDeleted,  \* the owning ClusterExtension is gone
    rolledOut,   \* history: revisions the engine reported complete
    faults,      \* failed calls and crashes so far
    drift        \* third-party interference so far

apiVars == <<cos, synced>>
envVars == <<latest, expired, extDeleted, drift>>
vars == <<cos, cache, synced, tcache, objs, queue, watching, rec, latest, expired,
          extDeleted, rolledOut, faults, drift>>

-----------------------------------------------------------------------------
(* Data.  A condition is abstracted to its reason, which fixes its status.  *)

ProgReasons == {"none", "RollingOut", "Retrying", "Succeeded",
                "ProgressDeadlineExceeded", "Archived"}
AvailReasons == {"none", "ProbesSucceeded", "Unavailable", "Reconciling", "Archived"}
Status == [prog: ProgReasons, avail: AvailReasons, succ: BOOLEAN]
NoStatus == [prog |-> "none", avail |-> "none", succ |-> FALSE]

COS == [exists: BOOLEAN, archived: BOOLEAN, deleting: BOOLEAN, fin: BOOLEAN,
        status: Status]
Absent == [exists |-> FALSE, archived |-> FALSE, deleting |-> FALSE,
           fin |-> FALSE, status |-> NoStatus]
Object == [exists: BOOLEAN, ctrl: 0..(N + 1), owners: SUBSET Revs, ready: BOOLEAN]
NoObject == [exists |-> FALSE, ctrl |-> NoCtrl, owners |-> {}, ready |-> FALSE]

PCs == {"idle", "finalizer", "engine", "archivePrevious", "teardown",
        "removeFinalizer", "status"}
Idle == [pc |-> "idle", rev |-> 1, cur |-> FALSE, fin |-> FALSE, local |-> NoStatus,
         orig |-> NoStatus, prev |-> {}, sibs |-> {}, todo |-> {}, again |-> FALSE]
Rec == [pc: PCs, rev: Revs, cur: BOOLEAN, fin: BOOLEAN, local: Status, orig: Status,
        prev: SUBSET Revs, sibs: SUBSET Revs, todo: SUBSET Revs, again: BOOLEAN]

Objs(r) == UNION {Phases[r][i] : i \in DOMAIN Phases[r]}

\* What a list through the tracking cache tells of a revision.
Seen(c) == IF ~c.exists THEN "absent"
           ELSE IF c.archived \/ c.deleting THEN "inactive" ELSE "active"


setRetryingConditions(st) ==
    [st EXCEPT !.prog = "Retrying",
               !.avail = IF @ = "none" THEN @ ELSE "Reconciling"]
markAsArchived(st) == [st EXCEPT !.prog = "Archived", !.avail = "Archived"]
markAsSucceeded(st) ==
    [st EXCEPT !.prog = "Succeeded", !.avail = "ProbesSucceeded", !.succ = TRUE]

\* Kinds the tracking cache has informers for on behalf of the revisions W.
KindsOf(W) == UNION {{Kind[o] : o \in Objs(w)} : w \in W}

\* Requests the tracking cache's source enqueues when the objects change from
\* objs to new: the owners, old and new, of each changed object of a watched kind.
Notified(new, W) ==
    UNION {objs[o].owners \cup new[o].owners :
             o \in {x \in Objects : new[x] # objs[x] /\ Kind[x] \in KindsOf(W)}}

\* A write to revision r through the API server: the cached copy falls behind,
\* and so does the copy a reconcile of r holds unless the writer is that
\* reconcile, whose call returns the new resourceVersion.
Stored(r, c) ==
    /\ cos' = [cos EXCEPT ![r] = c]
    /\ synced' = IF c = cos[r] THEN synced ELSE synced \ {r}

Disturbable == faults + drift + Cardinality(expired) < MaxDisturbances
Fault == Disturbable /\ faults < MaxFaults /\ faults' = faults + 1
Drift == Disturbable /\ drift < MaxDrift /\ drift' = drift + 1

-----------------------------------------------------------------------------
Init ==
    /\ cos = [r \in Revs |-> Absent]
    /\ cache = cos
    /\ synced = Revs
    /\ tcache = [r \in Revs |-> "absent"]
    /\ objs = [o \in Objects |-> NoObject]
    /\ queue = {} /\ watching = {} /\ rec = Idle
    /\ latest = 0 /\ expired = {} /\ extDeleted = FALSE
    /\ rolledOut = {} /\ faults = 0 /\ drift = 0

-----------------------------------------------------------------------------
(* Informers                                                                *)

\* Mutant: archived revisions are not of interest any more.
EventPassesActive(old, new) ==
    \/ ~old.exists \/ ~new.exists
    \/ new.deleting
    \/ new.status.prog # "ProgressDeadlineExceeded" /\ ~new.archived

\* The For() predicates of SetupWithManager on the event that moves the cached
\* copy of r from old to new: creations and deletions pass, updates pass unless
\* the revision exceeded its progress deadline and is not being deleted.  An
\* update that leaves the resourceVersion, as the periodic resync is, never passes.
EventPasses(old, new) ==
    \/ ~old.exists \/ ~new.exists
    \/ new.deleting
    \/ new.status.prog # "ProgressDeadlineExceeded"

CacheSync ==
    /\ synced # Revs
    /\ cache' = cos
    /\ synced' = Revs
    /\ queue' = queue \cup {r \in Revs \ synced : EventPasses(cache[r], cos[r])}
    /\ UNCHANGED <<cos, tcache, objs, watching, rec, rolledOut, faults, envVars>>

TrackingSync ==
    /\ tcache # [r \in Revs |-> Seen(cos[r])]
    /\ tcache' = [r \in Revs |-> Seen(cos[r])]
    /\ UNCHANGED <<cos, cache, synced, objs, queue, watching, rec, rolledOut,
                   faults, envVars>>

-----------------------------------------------------------------------------
(* The reconcile.  A new step begins at every call that writes to the API   *)
(* server or to the cluster; reads of a cache are part of the step before   *)
(* it, which loses nothing because the caches lag arbitrarily anyway.       *)

\* The reconciler's copy of revision r, as the informer cache has it.  "cur"
\* says that its resourceVersion is the stored one.
Copy(r) == [Idle EXCEPT !.rev = r, !.cur = r \in synced, !.fin = cache[r].fin,
                        !.local = cache[r].status, !.orig = cache[r].status]

\* Mutant: revisions with a higher number are not filtered out.
OtherRevisions(r) == {q \in Revs : q # r /\ tcache[q] = "active"}

\* listPreviousRevisions: active revisions with a lower number.
PreviousRevisions(r) == {q \in Revs : q < r /\ tcache[q] = "active"}
\* siblingRevisionNames: all revisions of the extension.
SiblingRevisions == {q \in Revs : tcache[q] # "absent"}

\* Leave for the status update with conditions st; again: an error or RequeueAfter.
Returned(m, st, again) ==
    [m EXCEPT !.pc = "status", !.local = st, !.again = again,
              !.prev = {}, !.sibs = {}, !.todo = {}]
Return(st, again) == rec' = Returned(rec, st, again)

\* A worker takes request r from the queue.
Dequeue(r) ==
    /\ rec.pc = "idle" /\ r \in queue
    /\ queue' = queue \ {r}
    /\ UNCHANGED <<apiVars, cache, tcache, objs, rolledOut, envVars>>

ReconcileNotFound(r) ==
    /\ Dequeue(r)
    /\ ~cache[r].exists
    /\ UNCHANGED <<rec, watching, faults>>

\* delete: stop the informers, then drop the finalizer; nothing is torn down.
ReconcileDelete(r) ==
    /\ Dequeue(r)
    /\ cache[r].exists /\ cache[r].deleting
    /\ \/ /\ rec' = [Copy(r) EXCEPT !.pc = "removeFinalizer"]
          /\ watching' = watching \ {r}
          /\ UNCHANGED faults
       \/ /\ Fault
          /\ rec' = Returned(Copy(r), [cache[r].status EXCEPT !.avail = "Reconciling"], TRUE)
          /\ UNCHANGED watching

\* Mutant: the active branch does not ensure the finalizer.
ReconcileUnguarded(r) ==
    /\ Dequeue(r)
    /\ cache[r].exists /\ ~cache[r].deleting
    /\ rec' = [Copy(r) EXCEPT !.pc = IF cache[r].archived THEN "teardown" ELSE "engine",
                              !.prev = PreviousRevisions(r), !.sibs = SiblingRevisions]
    /\ UNCHANGED <<watching, faults>>

\* Mutant: the engine is not told of the previous owners.
ReconcileWithoutPrevious(r) ==
    /\ Dequeue(r)
    /\ cache[r].exists /\ ~cache[r].deleting
    /\ rec' = [Copy(r) EXCEPT !.pc = IF cache[r].archived THEN "teardown"
                                     ELSE IF cache[r].fin THEN "engine" ELSE "finalizer",
                              !.sibs = SiblingRevisions]
    /\ UNCHANGED <<watching, faults>>

\* Mutant: newer revisions count as previous owners, too.
ReconcileFromNewer(r) ==
    /\ Dequeue(r)
    /\ cache[r].exists /\ ~cache[r].deleting
    /\ rec' = [Copy(r) EXCEPT !.pc = IF cache[r].archived THEN "teardown"
                                     ELSE IF cache[r].fin THEN "engine" ELSE "finalizer",
                              !.prev = OtherRevisions(r), !.sibs = SiblingRevisions]
    /\ UNCHANGED <<watching, faults>>

\* buildBoxcutterPhases, siblingRevisionNames and CreateRevisionEngine, then on
\* to the archived or the active branch of reconcile.
ReconcileRevision(r) ==
    /\ Dequeue(r)
    /\ cache[r].exists /\ ~cache[r].deleting
    /\ \/ /\ rec' = [Copy(r) EXCEPT !.pc = IF cache[r].archived THEN "teardown"
                                          ELSE IF cache[r].fin THEN "engine" ELSE "finalizer",
                                    !.prev = PreviousRevisions(r), !.sibs = SiblingRevisions]
          /\ UNCHANGED faults
       \/ /\ Fault
          /\ rec' = Returned(Copy(r), setRetryingConditions(cache[r].status), TRUE)
    /\ UNCHANGED watching

\* Boxcutter's teardown of one object: an object the revision controls is
\* deleted, from any other the revision is removed as owner.
TornDown(r, o) ==
    IF objs[o].ctrl = r THEN NoObject
    ELSE [objs[o] EXCEPT !.owners = @ \ {r}]

AfterTeardown(r, done) ==
    [o \in Objects |-> IF o \in done THEN TornDown(r, o) ELSE objs[o]]

\* Free, then archive up to the end of the engine's Teardown, which processed
\* the objects in done.
TeardownObjects(done) ==
    /\ rec.pc = "teardown"
    /\ watching' = watching \ {rec.rev}
    /\ objs' = AfterTeardown(rec.rev, done)
    /\ queue' = queue \cup Notified(objs', watching')
    /\ UNCHANGED <<apiVars, cache, tcache, rolledOut, envVars>>

\* Mutant: the finalizer is dropped in the pass that sets the conditions.
TeardownAndRelease ==
    /\ TeardownObjects(Objs(rec.rev))
    /\ rec' = [rec EXCEPT !.pc = "removeFinalizer", !.local = markAsArchived(rec.local)]
    /\ UNCHANGED faults

\* Everything is gone or handed over: publish the Archived conditions, and only
\* in a later pass, when they are already there, drop the finalizer.
TeardownComplete ==
    /\ TeardownObjects(Objs(rec.rev))
    /\ IF markAsArchived(rec.local) # rec.local
       THEN Return(markAsArchived(rec.local), FALSE)
       ELSE rec' = [rec EXCEPT !.pc = "removeFinalizer"]
    /\ UNCHANGED faults

\* Some objects are still terminating: RequeueAfter 5s.
TeardownIncomplete ==
    /\ \E done \in SUBSET Objs(rec.rev) :
         /\ \E o \in Objs(rec.rev) \ done : rec.rev \in objs[o].owners
         /\ TeardownObjects(done)
    /\ Return(setRetryingConditions(rec.local), TRUE)
    /\ UNCHANGED faults

TeardownFails ==
    /\ \E done \in SUBSET Objs(rec.rev) : TeardownObjects(done)
    /\ Fault
    /\ Return(setRetryingConditions(rec.local), TRUE)

\* Free fails on an archived revision: only Available is touched.
FreeFails ==
    /\ rec.pc = "teardown"
    /\ Fault
    /\ Return([rec.local EXCEPT !.avail = "Reconciling"], TRUE)
    /\ UNCHANGED <<apiVars, cache, tcache, objs, queue, watching, rolledOut, envVars>>

\* removeFinalizer: nothing to do without it, else a patch that carries the
\* resourceVersion of the copy in hand.  A deleted revision without finalizer is gone.
RemoveFinalizer ==
    /\ rec.pc = "removeFinalizer"
    /\ \/ /\ ~rec.fin
          /\ Return(rec.local, FALSE)
          /\ UNCHANGED <<apiVars, faults>>
       \/ /\ rec.fin /\ rec.cur
          /\ Stored(rec.rev, IF cos[rec.rev].deleting THEN Absent
                             ELSE [cos[rec.rev] EXCEPT !.fin = FALSE])
          /\ rec' = [rec EXCEPT !.pc = "status", !.fin = FALSE,
                                !.cur = ~cos[rec.rev].deleting]
          /\ UNCHANGED faults
       \/ /\ rec.fin
          /\ (~rec.cur /\ UNCHANGED faults) \/ Fault
          /\ Return(rec.local, TRUE)
          /\ UNCHANGED apiVars
    /\ UNCHANGED <<cache, tcache, objs, queue, watching, rolledOut, envVars>>

\* ensureFinalizer, when the copy in hand lacks it: a patch that carries its
\* resourceVersion.  A failure leaves the conditions alone.
EnsureFinalizer ==
    /\ rec.pc = "finalizer"
    /\ \/ /\ rec.cur
          /\ Stored(rec.rev, [cos[rec.rev] EXCEPT !.fin = TRUE])
          /\ rec' = [rec EXCEPT !.pc = "engine", !.fin = TRUE]
          /\ UNCHANGED faults
       \/ /\ (~rec.cur /\ UNCHANGED faults) \/ Fault
          /\ Return(rec.local, TRUE)
          /\ UNCHANGED apiVars
    /\ UNCHANGED <<cache, tcache, objs, queue, watching, rolledOut, envVars>>

-----------------------------------------------------------------------------
(* The boxcutter engine's Reconcile, as the controller uses it.             *)

\* What the engine finds for object o of revision rec.rev; "mayProgress" says
\* whether a foreign controller carries a higher revision number.
ObjectAction(o, mayProgress) ==
    IF ~objs[o].exists \/ objs[o].ctrl \in {rec.rev} \cup rec.prev THEN "applied"
    ELSE IF \/ objs[o].ctrl \in (rec.rev + 1)..N
            \/ objs[o].ctrl = Foreign /\ mayProgress THEN "progressed"
    ELSE "collision"

\* An absent object is created, one of a previous revision is taken over (the
\* old owner stays as a plain owner), others are left alone.
Applied(o) ==
    IF ObjectAction(o, FALSE) # "applied" THEN objs[o]
    ELSE [exists |-> TRUE, ctrl |-> rec.rev, owners |-> objs[o].owners \cup {rec.rev},
          ready |-> objs[o].ready]

\* A progressed object may or may not count for completeness.
ObjectPasses(o, mayProgress, countProgressed) ==
    /\ \/ ObjectAction(o, mayProgress) = "applied"
       \/ ObjectAction(o, mayProgress) = "progressed" /\ countProgressed
    /\ o \in Probed => objs[o].ready

\* A phase is started only when every phase before it is complete.
Reached(mayProgress, countProgressed) ==
    {i \in DOMAIN Phases[rec.rev] :
       \A j \in 1..(i - 1) : \A o \in Phases[rec.rev][j] :
          ObjectPasses(o, mayProgress, countProgressed)}

\* Mutant: a progressed object is never checked against the siblings.
CollidingOnly(o, mayProgress) == ObjectAction(o, mayProgress) = "collision"

\* The controller's own test: a collision, or an object handed to a
\* ClusterObjectSet that is not among the siblings it listed.
Colliding(o, mayProgress) ==
    \/ ObjectAction(o, mayProgress) = "collision"
    \/ ObjectAction(o, mayProgress) = "progressed" /\ objs[o].ctrl \notin rec.sibs

\* establishWatch: new informers replay the existing objects of their kind.
Replayed(W) ==
    UNION {objs[o].owners : o \in {x \in Objects : Kind[x] \in KindsOf(W) \ KindsOf(watching)}}

\* The next step on the way to Succeeded from conditions st, with the revisions in
\* todo left to archive.
ArchiveNext(todo, st) ==
    IF todo = {} THEN Return(markAsSucceeded(st), FALSE)
    ELSE rec' = [rec EXCEPT !.pc = "archivePrevious", !.local = st, !.todo = todo,
                            !.prev = {}, !.sibs = {}]

\* The revision is complete: the previous revisions are listed again.
RolloutComplete(st) ==
    \/ ArchiveNext(PreviousRevisions(rec.rev), st) /\ UNCHANGED faults
    \/ Fault /\ Return(st, TRUE)

\* Mutant: a revision that is not in transition is taken for rolled out.
TransitionEnded(inTransition) ==
    IF inTransition THEN [rec.local EXCEPT !.prog = "RollingOut"] ELSE markAsSucceeded(rec.local)

\* Conditions after the engine's report: rolling out while it is in transition.
Transition(inTransition) ==
    IF inTransition THEN [rec.local EXCEPT !.prog = "RollingOut"] ELSE rec.local

EngineReconcile ==
    /\ rec.pc = "engine"
    /\ watching' = watching \cup {rec.rev}
    /\ \E mayProgress, countProgressed, inTransition \in BOOLEAN :
         LET reached == UNION {Phases[rec.rev][i] : i \in Reached(mayProgress, countProgressed)}
             complete == \A o \in Objs(rec.rev) : ObjectPasses(o, mayProgress, countProgressed)
         IN /\ objs' = [o \in Objects |-> IF o \in reached THEN Applied(o) ELSE objs[o]]
            /\ \/ /\ \E o \in reached : Colliding(o, mayProgress)
                  /\ Return(setRetryingConditions(rec.local), TRUE)
                  /\ UNCHANGED <<rolledOut, faults>>
               \/ /\ \A o \in reached : ~Colliding(o, mayProgress)
                  /\ complete
                  /\ rolledOut' = rolledOut \cup {rec.rev}
                  /\ RolloutComplete(Transition(inTransition))
               \/ /\ \A o \in reached : ~Colliding(o, mayProgress)
                  /\ ~complete
                  /\ Return([Transition(inTransition) EXCEPT
                               !.prog = IF @ = "none" THEN "RollingOut" ELSE @,
                               !.avail = "Unavailable"], FALSE)
                  /\ UNCHANGED <<rolledOut, faults>>
    /\ queue' = queue \cup Replayed(watching') \cup Notified(objs', watching')
    /\ UNCHANGED <<apiVars, cache, tcache, envVars>>

\* establishWatch fails, the engine fails after applying some of the objects it
\* reached, or a preflight validation fails (retried after 10s).
EngineFails ==
    /\ rec.pc = "engine"
    /\ Fault
    /\ \/ UNCHANGED <<objs, queue, watching>>
       \/ /\ watching' = watching \cup {rec.rev}
          /\ \E mayProgress \in BOOLEAN :
             \E S \in SUBSET UNION {Phases[rec.rev][i] : i \in Reached(mayProgress, TRUE)} :
               objs' = [o \in Objects |-> IF o \in S THEN Applied(o) ELSE objs[o]]
          /\ queue' = queue \cup Replayed(watching') \cup Notified(objs', watching')
    /\ Return(setRetryingConditions(rec.local), TRUE)
    /\ UNCHANGED <<apiVars, cache, tcache, rolledOut, envVars>>

\* Each of them is archived by a merge patch without resourceVersion.  The first
\* failure (the revision is gone, say) ends the reconcile, conditions untouched.
ArchivePrevious(q) ==
    /\ rec.pc = "archivePrevious" /\ q \in rec.todo
    /\ \/ /\ cos[q].exists
          /\ Stored(q, [cos[q] EXCEPT !.archived = TRUE])
          /\ ArchiveNext(rec.todo \ {q}, rec.local)
          /\ UNCHANGED faults
       \/ /\ (~cos[q].exists /\ UNCHANGED faults) \/ Fault
          /\ Return(rec.local, TRUE)
          /\ UNCHANGED apiVars
    /\ UNCHANGED <<cache, tcache, objs, queue, watching, rolledOut, envVars>>


\* The progress deadline in Reconcile, after reconcile returned: a revision that
\* is still progressing and past its deadline is given up, errors included.
StillProgressing ==
    /\ rec.rev \in Deadlines
    /\ rec.local.prog \in {"RollingOut", "Retrying"}
    /\ ~rec.local.succ
GivenUp == StillProgressing /\ rec.rev \in expired

\* The end of Reconcile: status update under optimistic concurrency when the
\* conditions changed, and the request goes back to the queue on an error or a
\* RequeueAfter.
UpdateStatus ==
    LET st == IF GivenUp THEN [rec.local EXCEPT !.prog = "ProgressDeadlineExceeded"]
              ELSE rec.local
        again == ~GivenUp /\ (rec.again \/ StillProgressing)
        End(failed) == /\ queue' = IF again \/ failed THEN queue \cup {rec.rev} ELSE queue
                       /\ rec' = Idle
    IN /\ rec.pc = "status"
       /\ \/ /\ st = rec.orig
             /\ End(FALSE)
             /\ UNCHANGED <<apiVars, faults>>
          \/ /\ st # rec.orig /\ rec.cur
             /\ Stored(rec.rev, [cos[rec.rev] EXCEPT !.status = st])
             /\ End(FALSE)
             /\ UNCHANGED faults
          \/ /\ st # rec.orig
             /\ (~rec.cur /\ UNCHANGED faults) \/ Fault
             /\ End(TRUE)
             /\ UNCHANGED apiVars
       /\ UNCHANGED <<cache, tcache, objs, watching, rolledOut, envVars>>

\* The process dies and its successor starts from a full list: every existing
\* revision is enqueued by its initial Create event.
Crash ==
    /\ Fault
    /\ rec' = Idle /\ watching' = {}
    /\ cache' = cos /\ synced' = Revs
    /\ tcache' = [r \in Revs |-> Seen(cos[r])]
    /\ queue' = {r \in Revs : cos[r].exists}
    /\ UNCHANGED <<cos, objs, rolledOut, envVars>>

-----------------------------------------------------------------------------
(* Environment                                                              *)

\* Another client wrote revision r: the copy a reconcile of r holds is stale.
Overtaken(r) == rec' = IF rec.rev = r THEN [rec EXCEPT !.cur = FALSE] ELSE rec

\* The boxcutter applier creates the next revision.
CreateRevision(r) ==
    /\ ~extDeleted /\ r = latest + 1
    /\ Stored(r, [Absent EXCEPT !.exists = TRUE])
    /\ latest' = r
    /\ UNCHANGED <<cache, tcache, objs, queue, watching, rec, rolledOut, expired,
                   extDeleted, faults, drift>>

\* Deletion of revision r: archived revisions by the applier's retention, any
\* revision once its ClusterExtension is gone.
DeleteRevision(r) ==
    /\ cos[r].exists /\ ~cos[r].deleting
    /\ cos[r].archived \/ extDeleted
    /\ Stored(r, IF cos[r].fin THEN [cos[r] EXCEPT !.deleting = TRUE] ELSE Absent)
    /\ Overtaken(r)
    /\ UNCHANGED <<cache, tcache, objs, queue, watching, rolledOut, faults, envVars>>

DeleteExtension ==
    /\ ~extDeleted /\ Drift
    /\ extDeleted' = TRUE
    /\ UNCHANGED <<apiVars, cache, tcache, objs, queue, watching, rec, rolledOut,
                   latest, expired, faults>>

PassDeadline(r) ==
    /\ r \in Deadlines \ expired /\ cos[r].exists /\ Disturbable
    /\ expired' = expired \cup {r}
    /\ UNCHANGED <<apiVars, cache, tcache, objs, queue, watching, rec, rolledOut,
                   latest, extDeleted, faults, drift>>

\* The cluster changes object o to v; the tracking cache notifies its owners.
ObjectEvent(o, v) ==
    /\ objs' = [objs EXCEPT ![o] = v]
    /\ queue' = queue \cup Notified(objs', watching)
    /\ UNCHANGED <<apiVars, cache, tcache, watching, rec, rolledOut, latest, expired,
                   extDeleted, faults>>

ObjectReady(o) ==
    /\ objs[o].exists /\ ~objs[o].ready /\ o \in Probed
    /\ ObjectEvent(o, [objs[o] EXCEPT !.ready = TRUE])
    /\ UNCHANGED drift

ObjectUnready(o) ==
    /\ objs[o].ready
    /\ ObjectEvent(o, [objs[o] EXCEPT !.ready = FALSE])
    /\ Drift

ObjectDeleted(o) ==
    /\ objs[o].exists
    /\ ObjectEvent(o, NoObject)
    /\ Drift

\* A revision of another extension creates an object of the same name.
ForeignCreates(o) ==
    /\ ~objs[o].exists
    /\ ObjectEvent(o, [NoObject EXCEPT !.exists = TRUE, !.ctrl = Foreign])
    /\ Drift

\* The Kubernetes garbage collector: owners that are gone are dropped, and an
\* object all of whose owners are gone is deleted.
GarbageCollect(o) ==
    LET live == {q \in objs[o].owners : cos[q].exists}
    IN /\ live # objs[o].owners
       /\ ObjectEvent(o, IF live = {} THEN NoObject
                         ELSE [objs[o] EXCEPT !.owners = live,
                                 !.ctrl = IF @ \in live THEN @ ELSE NoCtrl])
       /\ UNCHANGED drift

-----------------------------------------------------------------------------
Reconcile ==
    \/ \E r \in Revs : ReconcileNotFound(r) \/ ReconcileDelete(r) \/ ReconcileRevision(r)
    \/ EnsureFinalizer \/ EngineReconcile \/ EngineFails
    \/ \E q \in Revs : ArchivePrevious(q)
    \/ TeardownComplete \/ TeardownIncomplete \/ TeardownFails \/ FreeFails
    \/ RemoveFinalizer \/ UpdateStatus

Environment ==
    \/ DeleteExtension
    \/ \E r \in Revs : CreateRevision(r) \/ DeleteRevision(r) \/ PassDeadline(r)
    \/ \E o \in Objects : ObjectReady(o) \/ ObjectUnready(o) \/ ObjectDeleted(o)
                          \/ ForeignCreates(o) \/ GarbageCollect(o)

Next ==
    \/ CacheSync \/ TrackingSync
    \/ Reconcile
    \/ Crash
    \/ Environment

Spec == Init /\ [][Next]_vars

\* The work queue is first-in first-out, so no request waits forever behind the
\* others; a step begun goes on; the caches catch up; what is being deleted goes
\* away in the end; and workloads become ready.
Fairness ==
    /\ WF_vars(CacheSync) /\ WF_vars(TrackingSync) /\ WF_vars(Reconcile)
    /\ \A r \in Revs : SF_vars(ReconcileNotFound(r) \/ ReconcileDelete(r) \/ ReconcileRevision(r))
    /\ SF_vars(TeardownComplete)
    /\ \A o \in Objects : WF_vars(GarbageCollect(o)) /\ WF_vars(ObjectReady(o))

FairSpec == Spec /\ Fairness

-----------------------------------------------------------------------------
(* Properties                                                               *)

TypeOK ==
    /\ cos \in [Revs -> COS] /\ cache \in [Revs -> COS] /\ synced \subseteq Revs
    /\ tcache \in [Revs -> {"absent", "inactive", "active"}]
    /\ objs \in [Objects -> Object]
    /\ queue \subseteq Revs /\ watching \subseteq Revs /\ rec \in Rec
    /\ latest \in 0..N /\ expired \subseteq Revs /\ extDeleted \in BOOLEAN
    /\ rolledOut \subseteq Revs /\ faults \in 0..MaxFaults /\ drift \in 0..MaxDrift

\* A revision is archived only after some newer revision was completely rolled
\* out (reconcile archives listPreviousRevisions only under IsComplete).
ArchivedOnlyAfterRollout ==
    \A r \in Revs : cos[r].archived => \E n \in rolledOut : n > r

\* A revision that still owns an object, or still has informers in the tracking
\* cache, carries the teardown finalizer or is going through deletion: whatever
\* copy a reconcile started from, nothing is applied for a revision that was
\* already torn down and released (ensureFinalizer before Watch and Reconcile,
\* removeFinalizer after Free and Teardown).
OwnersAreGuarded ==
    /\ \A o \in Objects : \A r \in objs[o].owners :
          cos[r].exists /\ ~cos[r].deleting => cos[r].fin
    /\ \A r \in watching : cos[r].fin

\* The finalizer of an archived revision is given up only with the Archived
\* conditions already stored and all of its objects deleted or handed over
\* (archive returns after markAsArchived changed something).
ArchivedBeforeRelease ==
    [][\A r \in Revs :
         cos[r].archived /\ ~cos[r].deleting /\ cos[r].fin /\ ~cos'[r].fin
           => /\ cos[r].status.prog = "Archived"
              /\ \A o \in Objects : r \notin objs[o].owners]_vars

\* Succeeded is never taken back, and a revision that succeeded is never given
\* up for its deadline, however stale the copy a reconcile works on.
SucceededIsFinal ==
    [][\A r \in Revs : cos[r].status.succ /\ cos'[r].exists
         => /\ cos'[r].status.succ
            /\ cos'[r].status.prog # "ProgressDeadlineExceeded"]_vars

\* As long as only the controller acts, handing over to a newer revision never
\* interrupts an object: none is deleted that the newest rolled out revision lists,
\* even when a stale reconcile of an archived owner is still to come.
HandoverKeepsObjects ==
    [][\A o \in Objects : drift' = 0 /\ objs[o].exists /\ ~objs'[o].exists =>
         \A n \in rolledOut : o \in Objs(n) => \E m \in rolledOut : m > n]_vars

\* No revision is reported rolled out while another extension's revision
\* controls one of its objects (foreignRevisionController).
NoRolloutOverForeign ==
    [][\A r \in rolledOut' \ rolledOut :
         \A o \in Objs(r) : objs'[o].ctrl # Foreign]_vars

\* The revisions as their readers see them.
Reported(c) == [exists |-> c.exists, archived |-> c.archived,
                prog |-> c.status.prog, succ |-> c.status.succ]
Lifecycle == INSTANCE RevisionLifecycle WITH revs <- [r \in Revs |-> Reported(cos[r])]

\* The controller keeps the contract its readers rely on: conditions, archival and
\* removal of a revision change only as RevisionLifecycle allows.
KeepsLifecycle == Lifecycle!LifecycleSpec

\* Every archived revision is torn down and released: its finalizer goes, or it
\* is deleted altogether.
ArchivedIsReleased ==
    \A r \in Revs : cos[r].archived ~> ~cos[r].fin

RolledOut(n) ==
    /\ cos[n].status.succ
    /\ \A o \in Objs(n) : objs[o].ctrl = n
OthersArchived(n) == \A q \in Revs : q < n /\ cos[q].exists => cos[q].archived
\* Nothing more is asked: there is no revision, the extension was deleted, or an
\* object belongs to somebody else.
Excused == latest = 0 \/ extDeleted \/ \E o \in Objects : objs[o].ctrl = Foreign

\* Revisions that were rolled out found all of their predecessors in the tracking
\* cache, and have done so ever since.
PredecessorsInView ==
    \A n \in rolledOut : \A q \in Revs : q < n /\ cos[q].exists => tcache[q] # "absent"

\* Once nobody interferes any more, the newest revision ends up rolled out and in
\* control of all its objects; and every revision before it ends up archived, if no
\* revision was complete before the tracking cache showed its predecessors
\* (listPreviousRevisions; nothing reconciles a complete revision again).
RolloutConverges ==
    /\ <>[](Excused \/ RolledOut(latest))
    /\ []PredecessorsInView => <>[](Excused \/ OthersArchived(latest))

\* "Once the latest revision has rolled out successfully, previous active revisions
\* are archived": in the end, whatever the tracking cache showed meanwhile.
PredecessorsAreArchived == <>[](Excused \/ OthersArchived(latest))

-----------------------------------------------------------------------------
(* The inductive invariant behind the safety properties.                    *)

Gone(c) == c.archived \/ c.deleting \/ ~c.exists

\* Revision numbers the extension has not reached are untouched everywhere.
NumbersInOrder ==
    /\ \A r \in Revs : r > latest =>
         /\ cos[r] = Absent /\ cache[r] = Absent /\ r \notin watching
         /\ \A o \in Objects : r \notin objs[o].owners
    /\ rec.pc # "idle" => rec.rev <= latest

\* How far a cached revision can be behind the stored one: archival and deletion
\* are never taken back, and the finalizer of a revision is only removed by a
\* reconcile that saw one of them in the cache.
CacheLagsSafely ==
    /\ \A r \in synced : cache[r] = cos[r]
    /\ \A r \in Revs : cache[r].archived \/ cache[r].deleting => Gone(cos[r])
    /\ \A r \in Revs : ~Gone(cache[r]) /\ cache[r].fin => cos[r].fin

\* A revision owns only objects its phases list, so a teardown reaches them all.
OwnsOnlyListed == \A o \in Objects : \A r \in objs[o].owners : o \in Objs(r)

\* What the steps of a reconcile may rely on.
ReconcileKnows ==
    /\ rec.pc # "idle" /\ rec.cur => cos[rec.rev].status = rec.orig
    /\ rec.pc = "engine" => cos[rec.rev].fin
    /\ rec.pc = "teardown" => rec.local = rec.orig
    /\ rec.pc \in {"teardown", "removeFinalizer"} => Gone(cos[rec.rev]) /\ Gone(cache[rec.rev])
    /\ rec.pc = "removeFinalizer" => rec.rev \notin watching
    /\ rec.pc = "removeFinalizer" /\ rec.cur /\ ~cos[rec.rev].deleting =>
         /\ cos[rec.rev].status.prog = "Archived"
         /\ \A o \in Objects : rec.rev \notin objs[o].owners

\* The finalizer guards what a revision holds, whatever stale copy of it the
\* next reconcile starts from: OwnersAreGuarded with the facts that keep it
\* true from one step to the next.
GuardInvariant ==
    /\ NumbersInOrder /\ CacheLagsSafely /\ OwnsOnlyListed /\ ReconcileKnows
    /\ OwnersAreGuarded

\* Archiving is the end of a complete rollout of a newer revision.
RolloutInvariant ==
    /\ ArchivedOnlyAfterRollout
    /\ rec.pc = "archivePrevious" => rec.rev \in rolledOut /\ \A q \in rec.todo : q < rec.rev

\* No copy of the conditions says both Succeeded and deadline exceeded, and a
\* reconcile never forgets a Succeeded it read.
NotGivenUp(st) == st.succ => st.prog # "ProgressDeadlineExceeded"
SuccessInvariant ==
    /\ \A r \in Revs : NotGivenUp(cos[r].status) /\ NotGivenUp(cache[r].status)
    /\ NotGivenUp(rec.local)
    /\ rec.orig.succ => rec.local.succ

\* What is stored of a revision is about one that exists, and nothing is being
\* deleted without a reason.
Recorded ==
    /\ \A r \in Revs : cos[r].exists \/ cos[r] = Absent
    /\ \A r \in Revs : cos[r].status.prog = "Archived" => cos[r].archived
    /\ \A r \in Revs : cos[r].deleting => cos[r].archived \/ extDeleted

\* Conditions st that a reconcile m would store over revision c are true of it.
Backed(st, m, c, out) ==
    /\ c.exists
    /\ st.prog = "Archived" => c.archived
    /\ st.succ /\ ~m.orig.succ => st.prog = "Succeeded" /\ m.rev \in out /\ ~c.archived

\* A reconcile whose copy is current is in the branch the stored revision c asks for.
KnowsCurrent(m, c, out) ==
    m.pc # "idle" /\ m.cur =>
      /\ Backed(m.local, m, c, out)
      /\ m.pc # "status" => (m.local.succ => m.orig.succ)
      /\ m.pc \in {"finalizer", "engine", "archivePrevious"} => ~c.archived
      /\ m.pc = "teardown" => c.archived
LifecycleInvariant == Recorded /\ KnowsCurrent(rec, cos[rec.rev], rolledOut)

\* Without interference, revisions go only for a newer one that was rolled out, and
\* the objects of the newest rolled out revision are controlled by it or by one that
\* is newer still, which no teardown and no garbage collection touches.
Superseded(r) == \E n \in rolledOut : n > r
Controlled ==
    \A o \in Objects : objs[o].ctrl \in Revs => objs[o].exists /\ objs[o].ctrl \in objs[o].owners
HandoverInvariant ==
    /\ \A q \in rec.prev : q < rec.rev
    /\ drift = 0 =>
         /\ Controlled
         /\ ~extDeleted /\ \A o \in Objects : objs[o].ctrl # Foreign
         /\ \A r \in 1..latest : Gone(cos[r]) => Superseded(r)
         /\ \A n \in rolledOut :
              n <= latest /\ (Superseded(n) \/ \A o \in Objs(n) : objs[o].ctrl \in n..N)
=============================================================================
