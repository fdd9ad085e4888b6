--------------------------- MODULE ContentManager ---------------------------
(***************************************************************************)
(* The content manager of the Helm applier: for every kind of object in an  *)
(* extension's release it keeps an informer (a source), so that a change of *)
(* a managed object requeues the extension.  The goroutines that matter are *)
(* the reconciler, which calls Watch and holds the cache's lock while it    *)
(* waits for new sources to sync; each source's reflector, which runs the   *)
(* watch error handler; and each source's poller, which announces the sync  *)
(* on an unbuffered channel.  Select statements are modelled as Go runs     *)
(* them: one that waits takes the first case that becomes ready, one that   *)
(* finds several ready takes any.                                           *)
(***************************************************************************)
EXTENDS Naturals, Sequences, FiniteSets, Functions

CONSTANTS
    Objects, KindOf,   \* the objects releases are made of, and their kinds
    MaxSources,        \* bound: sources created
    MaxContentChanges, \* bound: new releases, drifts and recreations
    MaxWatchFaults     \* bound: watch errors, timeouts and failed reconciles

ASSUME ContentBoundsAssumption ==
    MaxSources \in Nat /\ MaxContentChanges \in Nat /\ MaxWatchFaults \in Nat
ASSUME ObjectsAssumption == IsFiniteSet(Objects)

VARIABLES
    owner,      \* the ClusterExtension: "absent", "present" or "deleting"
    release,    \* the objects of its release
    drifted,    \* managed objects that someone else modified
    queue,      \* a queued reconcile request for the owner
    caches,     \* 0, or the number of the cache the manager holds for the owner
    created,    \* the caches created so far
    attached,   \* the sources of that cache: [kind -> source, 0 if none]
    src,        \* all the sources ever started
    watching,   \* Watch holds the lock: [on, failed, report]
    muted,      \* the errors of the last Get and Watch were only logged
    contentChanges, watchFaults

contentVars == <<owner, release, drifted, queue, caches, created, attached, src, watching,
                 muted, contentChanges, watchFaults>>
Kinds == {KindOf[o] : o \in Objects}
NotWatching == [on |-> FALSE, failed |-> FALSE, report |-> FALSE]
NoSources == [k \in Kinds |-> 0]
Sources == 1..Len(src)

ContentInit ==
    /\ owner = "absent" /\ release = {} /\ drifted = {} /\ queue = FALSE
    /\ caches = 0 /\ created = 0 /\ attached = NoSources
    /\ src = <<>> /\ watching = NotWatching /\ muted = FALSE
    /\ contentChanges = 0 /\ watchFaults = 0

WatchFault == watchFaults < MaxWatchFaults /\ watchFaults' = watchFaults + 1
ContentChange == contentChanges < MaxContentChanges /\ contentChanges' = contentChanges + 1
Locked == watching.on

-----------------------------------------------------------------------------
(* A source                                                                 *)

\* Start: the informer runs, nobody waits for it yet.
Started(kind) ==
    [kind |-> kind, cache |-> created', synced |-> FALSE, cancelled |-> FALSE,
     errored |-> FALSE, channel |-> "open", handler |-> "none", wait |-> "started",
     timedOut |-> FALSE]
\* A select that waits in WaitForSync takes the case that becomes ready.
Wake(s, result) == IF s.wait = "blocked" THEN [s EXCEPT !.wait = result] ELSE s
\* informerCancel, also by Close.
Cancel(s) == Wake([s EXCEPT !.cancelled = TRUE], "failed")

UnchangedButSources == UNCHANGED <<owner, release, drifted, queue, caches, created, attached,
                                   watching, muted, contentChanges>>

\* The informer's first list arrives: HasSynced.
Synced(i) ==
    /\ ~src[i].synced /\ ~src[i].cancelled /\ src[i].handler = "none"
    /\ src' = [src EXCEPT ![i].synced = TRUE]
    /\ UnchangedButSources /\ UNCHANGED watchFaults
\* The poller has seen HasSynced and sends on the unbuffered channel, by when the
\* informer may have been cancelled; a waiting WaitForSync receives, and the channel
\* is closed.
Send(i) ==
    /\ src[i].channel = "open" /\ src[i].synced
    /\ src' = [src EXCEPT ![i] = IF @.wait = "blocked"
                                 THEN [@ EXCEPT !.channel = "closed", !.wait = "synced"]
                                 ELSE [@ EXCEPT !.channel = "sending"]]
    /\ UnchangedButSources /\ UNCHANGED watchFaults

\* The cases of WaitForSync's select that are ready, besides the timeout.
WaitCases(s) ==
    (IF s.errored \/ s.cancelled THEN {"failed"} ELSE {})
      \cup (IF s.channel \in {"sending", "closed"} THEN {"synced"} ELSE {})
WaitForSync(i) ==
    /\ src[i].wait = "started"
    /\ \/ /\ WaitCases(src[i]) = {}
          /\ src' = [src EXCEPT ![i].wait = "blocked"]
       \/ \E r \in WaitCases(src[i]) :
            src' = [src EXCEPT ![i].wait = r,
                               ![i].channel = IF r = "synced" THEN "closed" ELSE @]
    /\ UnchangedButSources /\ UNCHANGED watchFaults
\* mutant: the select has no case for the context
SyncTimeoutIgnored(i) == src[i].wait = "expired" /\ UNCHANGED contentVars
\* The context of startNewSource expires; the source is neither kept nor closed.
SyncTimeout(i) ==
    /\ src[i].wait = "blocked"
    /\ src' = [src EXCEPT ![i].wait = "failed", ![i].timedOut = TRUE]
    /\ UnchangedButSources /\ UNCHANGED watchFaults

\* The watch error handler: the error is recorded,
WatchError(i) ==
    /\ src[i].handler = "none" /\ ~src[i].cancelled
    /\ WatchFault
    /\ src' = [src EXCEPT ![i] = Wake([@ EXCEPT !.errored = TRUE, !.handler = "check"], "failed")]
    /\ UnchangedButSources
\* hasSynced receives from the channel if it can, and so may take the token,
HasSynced(s) == s.channel \in {"sending", "closed"}
CheckSynced(i) ==
    /\ src[i].handler = "check"
    /\ src' = [src EXCEPT ![i] =
                 IF HasSynced(@) THEN [@ EXCEPT !.handler = "callback", !.channel = "closed"]
                 ELSE [@ EXCEPT !.handler = "cancel"]]
    /\ UnchangedButSources /\ UNCHANGED watchFaults
\* if it had synced, the callback takes the lock and removes the source of this
\* kind, whichever source that is by now,
OnPostSyncError(i) ==
    /\ src[i].handler = "callback" /\ ~Locked
    /\ LET mine == src[i].cache = caches
           removed == [j \in Sources |-> IF mine /\ j = attached[src[i].kind] THEN Cancel(src[j])
                                         ELSE src[j]]
       IN  /\ src' = [removed EXCEPT ![i].handler = "requeue"]
           /\ attached' = IF mine THEN [attached EXCEPT ![src[i].kind] = 0] ELSE attached
    /\ UNCHANGED <<owner, release, drifted, queue, caches, created, watching, muted,
                   contentChanges, watchFaults>>
\* mutant: the owner is not requeued
CancelInformerQuietly(i) ==
    /\ src[i].handler \in {"requeue", "cancel"}
    /\ src' = [src EXCEPT ![i] = [Cancel(@) EXCEPT !.handler = "done"]]
    /\ UNCHANGED <<owner, release, drifted, queue, caches, created, attached, watching,
                   muted, contentChanges, watchFaults>>
\* and the informer is cancelled; only a source that had synced requeues the owner.
CancelInformer(i) ==
    /\ src[i].handler \in {"requeue", "cancel"}
    /\ src' = [src EXCEPT ![i] = [Cancel(@) EXCEPT !.handler = "done"]]
    /\ queue' = (queue \/ src[i].handler = "requeue")
    /\ UNCHANGED <<owner, release, drifted, caches, created, attached, watching, muted,
                   contentChanges, watchFaults>>
\* The predicates and the handler: an update or deletion of a managed object, seen
\* by a source that runs, requeues its owner; so does the informer's periodic resync,
\* which is all that tells of a modification made before the first list.
Deliver(i) ==
    /\ src[i].synced /\ ~src[i].cancelled /\ src[i].handler = "none"
    /\ \E o \in drifted : KindOf[o] = src[i].kind
    /\ ~queue /\ queue' = TRUE
    /\ UNCHANGED <<owner, release, drifted, caches, created, attached, src, watching,
                   muted, contentChanges, watchFaults>>

SourceStep(i) ==
    \/ Send(i) \/ WaitForSync(i) \/ SyncTimeout(i)
    \/ CheckSynced(i) \/ OnPostSyncError(i) \/ CancelInformer(i) \/ Deliver(i)

-----------------------------------------------------------------------------
(* The reconciler                                                           *)

gvksForObjects(objs) == {KindOf[o] : o \in objs}
\* Get: the cache of this name, or a new one.
GetCache ==
    /\ created' = IF caches = 0 THEN created + 1 ELSE created
    /\ caches' = IF caches = 0 THEN created + 1 ELSE caches
\* Sources are numbered in some order, which means nothing.
Numbered(kinds) == CHOOSE new \in Injection(1..Cardinality(kinds), kinds) : TRUE
\* Watch: the sources of kinds the release has no more are removed, and one is
\* started for each new kind, unless the kind has no mapping; the lock is kept.
BeginWatch(report) ==
    LET wanted == gvksForObjects(release)
        have == {k \in Kinds : attached[k] # 0}
        stale == {attached[k] : k \in have \ wanted}
    IN  \E unmapped \in SUBSET (wanted \ have) :
          LET new == Numbered(wanted \ (have \cup unmapped))
          IN  /\ Len(src) + Len(new) <= MaxSources
              /\ IF unmapped = {} THEN UNCHANGED watchFaults ELSE WatchFault
              /\ attached' = [k \in Kinds |-> IF k \in wanted THEN attached[k] ELSE 0]
              /\ src' = [i \in Sources |-> IF i \in stale THEN Cancel(src[i]) ELSE src[i]]
                          \o [n \in DOMAIN new |-> Started(new[n])]
              /\ watching' = [on |-> TRUE, failed |-> unmapped # {}, report |-> report]
\* Apply: the release is applied, which undoes drift, and then watched.  Without
\* catalog content the errors of Get and Watch are only logged.
ReconcileOwner ==
    /\ queue /\ owner = "present" /\ ~Locked
    /\ \E content \in BOOLEAN :
         \/ /\ drifted' = {} /\ queue' = FALSE /\ muted' = FALSE
            /\ GetCache /\ BeginWatch(content)
         \/ /\ WatchFault
            /\ \/ UNCHANGED <<queue, drifted, muted>>  \* the release is not applied
               \/ /\ caches = 0  \* Get fails
                  /\ drifted' = {} /\ queue' = content /\ muted' = ~content
            /\ UNCHANGED <<caches, created, attached, src, watching>>
    /\ UNCHANGED <<owner, release, contentChanges>>

\* The rest of startNewSources: all the goroutines have answered, and the sources
\* that synced are added.
FinishWatch ==
    /\ Locked
    /\ LET mine == {i \in Sources : src[i].wait # "ended"}
           bad == {i \in mine : src[i].wait = "failed"}
       IN  /\ \A i \in mine : src[i].wait \in {"synced", "failed"}
           /\ attached' = [k \in Kinds |->
                IF \E i \in mine \ bad : src[i].kind = k
                THEN CHOOSE i \in mine \ bad : src[i].kind = k ELSE attached[k]]
           /\ src' = [i \in Sources |-> [src[i] EXCEPT !.wait = "ended"]]
           /\ queue' = (queue \/ (watching.report /\ (watching.failed \/ bad # {})))
           /\ muted' = (~watching.report /\ (watching.failed \/ bad # {}))
    /\ watching' = NotWatching
    /\ UNCHANGED <<owner, release, drifted, caches, created, contentChanges, watchFaults>>

\* The finalizer: Delete closes the cache's sources and drops the cache.
DeleteContent ==
    /\ queue /\ owner = "deleting" /\ ~Locked
    /\ caches' = 0 /\ attached' = NoSources
    /\ src' = [i \in Sources |-> IF \E k \in Kinds : attached[k] = i THEN Cancel(src[i]) ELSE src[i]]
    /\ owner' = "absent" /\ queue' = FALSE /\ release' = {} /\ drifted' = {}
    /\ UNCHANGED <<created, watching, muted, contentChanges, watchFaults>>

-----------------------------------------------------------------------------
(* The environment                                                          *)

UnchangedByUsers == UNCHANGED <<caches, created, attached, src, watching, muted, watchFaults>>
\* A user creates the extension, or a new version with other objects is resolved.
NewRelease ==
    /\ owner # "deleting" /\ ContentChange /\ ~Locked
    /\ \E objs \in (SUBSET Objects) \ {{}, release} : release' = objs
    /\ owner' = "present" /\ queue' = TRUE /\ drifted' = {}
    /\ UnchangedByUsers
DeleteOwner ==
    /\ owner = "present" /\ ContentChange
    /\ owner' = "deleting" /\ queue' = TRUE
    /\ UNCHANGED <<release, drifted>> /\ UnchangedByUsers
Drift ==
    /\ owner = "present" /\ ContentChange
    /\ \E o \in release \ drifted : drifted' = drifted \cup {o}
    /\ UNCHANGED <<owner, release, queue>> /\ UnchangedByUsers
\* A request for an owner that is gone does nothing.
ReconcileAbsent ==
    /\ queue /\ owner = "absent"
    /\ queue' = FALSE
    /\ UNCHANGED <<owner, release, drifted, contentChanges>> /\ UnchangedByUsers

ReconcileStep == ReconcileOwner \/ FinishWatch \/ DeleteContent \/ ReconcileAbsent
ContentNext ==
    \/ ReconcileStep
    \/ NewRelease \/ DeleteOwner \/ Drift
    \/ \E i \in Sources : SourceStep(i) \/ Synced(i) \/ WatchError(i)
ContentSpec == ContentInit /\ [][ContentNext]_contentVars
\* The goroutines of the process run; the API server need not answer.
FairContent ==
    /\ WF_contentVars(ReconcileStep)
    /\ \A i \in 1..MaxSources : WF_contentVars(i \in Sources /\ SourceStep(i))
FairContentSpec == ContentSpec /\ FairContent

-----------------------------------------------------------------------------
\* A source that runs and has not failed.
Live(i) == ~src[i].cancelled /\ src[i].handler = "none"
Attached(k) == attached[k] # 0 /\ Live(attached[k])
\* The bound on sources may keep Watch from starting.
Exhausted == Len(src) + Cardinality(Kinds) > MaxSources

\* Every variable has its type, and an attached source is one of its kind that was
\* started for the cache of the owner.
ContentTypeOK ==
    /\ owner \in {"absent", "present", "deleting"} /\ queue \in BOOLEAN
    /\ release \subseteq Objects /\ drifted \subseteq release
    /\ caches \in {0, created}
    /\ \A k \in Kinds : attached[k] # 0 =>
         /\ attached[k] \in Sources
         /\ src[attached[k]].kind = k /\ src[attached[k]].cache = caches
    /\ watching \in [on: BOOLEAN, failed: BOOLEAN, report: BOOLEAN]
    /\ Len(src) <= MaxSources
    /\ contentChanges \in 0..MaxContentChanges /\ watchFaults \in 0..MaxWatchFaults

\* What Delete, a new release or an error takes out of the cache is also stopped:
\* the informers that run outside the cache are the ones being started and the ones
\* whose sync timed out.
DetachedIsStopped ==
    \A i \in Sources : ~src[i].cancelled =>
      \/ \E k \in Kinds : attached[k] = i
      \/ src[i].wait # "ended" \/ src[i].timedOut
      \/ src[i].handler \in {"check", "callback", "requeue", "cancel"}

\* A kind of the release that is not watched will be looked at again: the owner is
\* queued, Watch is at work, or an error handler is about to requeue it.
\* The exceptions are a Watch whose errors were only logged, and a source that
\* failed in the moment it synced.
DeadOnArrival(i) == src[i].handler \in {"cancel", "done"}
LostWatchIsRequeued ==
    (owner = "present" /\ ~Locked /\ ~queue /\ ~muted) =>
      \A k \in gvksForObjects(release) :
        \/ Attached(k)
        \/ \E i \in Sources : src[i].kind = k /\ src[i].handler \in {"check", "callback", "requeue"}
        \/ attached[k] # 0 /\ DeadOnArrival(attached[k])

\* Watch always returns: the lock it holds while it waits for its sources is not
\* one that its sources need in order to answer.
WatchFinishes == []<>~Locked

\* A modification of an object whose kind stays watched is undone.
DriftIsUndone ==
    \A o \in Objects :
      []<>(o \notin drifted \/ ~Attached(KindOf[o]) \/ owner # "present" \/ Exhausted)

\* The sources and the cache agree: nothing runs that nobody will stop, and nothing
\* has stopped that nobody will start again (Watch, Delete, the error handlers).
WatchesAreAccountedFor == DetachedIsStopped /\ LostWatchIsRequeued

\* Watches come through: Watch returns, and what they are there for happens.
WatchesRecover == WatchFinishes /\ DriftIsUndone
=============================================================================
