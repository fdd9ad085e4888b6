---------------------------- MODULE CacheProofs -----------------------------
(***************************************************************************)
(* Proofs about the content manager and about operator-controller's copy of*)
(* a catalog.                                                              *)
(***************************************************************************)
EXTENDS ContentManager, CatalogCache, FiniteSetTheorems, TLAPS

(***************************************************************************)
(* The content manager, for any objects and kinds and any number of        *)
(* sources, new releases, drifts and watch errors                          *)
(***************************************************************************)

Failing == {"check", "callback", "requeue", "cancel"}
\* The sources that may exist once n caches were created.
SourceSet(n) ==
    [kind: Kinds, cache: 1..n, synced: BOOLEAN, cancelled: BOOLEAN, errored: BOOLEAN,
     channel: {"open", "sending", "closed"}, handler: Failing \cup {"none", "done"},
     wait: {"started", "blocked", "synced", "failed", "ended"}, timedOut: BOOLEAN]

ContentTyped ==
    /\ owner \in {"absent", "present", "deleting"} /\ queue \in BOOLEAN /\ muted \in BOOLEAN
    /\ release \subseteq Objects /\ drifted \subseteq release
    /\ created \in Nat /\ caches \in {0, created}
    /\ src \in Seq(SourceSet(created)) /\ Len(src) <= MaxSources
    /\ attached \in [Kinds -> 0..Len(src)]
    /\ watching \in [on: BOOLEAN, failed: BOOLEAN, report: BOOLEAN]
    /\ contentChanges \in 0..MaxContentChanges /\ watchFaults \in 0..MaxWatchFaults
\* An attached source is one of its kind and of the owner's cache, and only its own error
\* handler may have cancelled it.
AttachedOK ==
    \A k \in Kinds : attached[k] # 0 =>
      /\ src[attached[k]].kind = k /\ src[attached[k]].cache = caches
      /\ src[attached[k]].cancelled => src[attached[k]].handler = "done"
\* A source that failed to sync has a reason, an error starts the handler, and the handler
\* ends by cancelling.
HandlersOK ==
    \A i \in Sources :
      /\ src[i].wait = "failed" => src[i].cancelled \/ src[i].timedOut \/ src[i].errored
      /\ src[i].errored => src[i].handler # "none"
      /\ src[i].handler = "done" => src[i].cancelled
\* Watch starts one source of a kind that has none, for the cache it was called on, and no
\* one but the source's own handler stops it before Watch returns.
StartingOK ==
    \A i \in Sources : src[i].wait # "ended" =>
      /\ Locked /\ attached[src[i].kind] = 0 /\ src[i].cache = caches
      /\ src[i].cancelled => src[i].handler = "done"
      /\ \A j \in Sources : (src[j].wait # "ended" /\ src[j].kind = src[i].kind) => i = j
\* While Watch is at work, each kind of the release has a source, gets one, or failed.
WatchOK ==
    Locked => \A k \in gvksForObjects(release) :
      \/ attached[k] # 0 \/ watching.failed
      \/ \E i \in Sources : src[i].wait # "ended" /\ src[i].kind = k
\* When nothing is queued, each kind of the release has a source or a handler about to
\* queue the owner.
Noticed ==
    (owner = "present" /\ ~Locked /\ ~queue /\ ~muted) =>
      \A k \in gvksForObjects(release) :
        attached[k] # 0 \/ \E i \in Sources : src[i].kind = k /\ src[i].handler = "requeue"
\* The inductive invariant.
ContentInv ==
    /\ ContentTyped /\ AttachedOK /\ HandlersOK /\ StartingOK /\ WatchOK /\ Noticed
    /\ DetachedIsStopped

-----------------------------------------------------------------------------
(* The start, and a step of one source                                      *)

\* Each element of a finite set gets one number.
LEMMA NumberedFacts ==
    ASSUME NEW S, IsFiniteSet(S)
    PROVE  /\ Numbered(S) \in Seq(S)
           /\ \A m, n \in 1..Len(Numbered(S)) : Numbered(S)[m] = Numbered(S)[n] => m = n
           /\ \A x \in S : \E n \in 1..Len(Numbered(S)) : Numbered(S)[n] = x
<1> DEFINE c == Cardinality(S)
           f == Numbered(S)
<1>1. c \in Nat /\ ExistsBijection(1..c, S) BY FS_CardinalityType
<1>2. \E g : g \in Injection(1..c, S) BY <1>1 DEF ExistsBijection, Bijection
<1>3. f \in Injection(1..c, S) BY <1>2 DEF Numbered
<1> HIDE DEF f
<1>4. f \in [1..c -> S] /\ IsInjective(f) BY <1>3 DEF Injection
<1>5. Cardinality(1..c) = c
  <2>1. 1 \in Int /\ c \in Int BY <1>1
  <2> QED BY <1>1, <2>1, FS_Interval
<1>6. f \in Surjection(1..c, S) BY <1>3, <1>5, FS_Injection
<1> HIDE DEF c
<1>7. f \in Seq(S) /\ Len(f) = c BY <1>1, <1>4
<1>8. \A m, n \in 1..Len(f) : f[m] = f[n] => m = n BY <1>4, <1>7 DEF IsInjective
<1>9. \A x \in S : \E n \in 1..Len(f) : f[n] = x BY <1>6, <1>7 DEF Surjection
<1> QED BY <1>7, <1>8, <1>9 DEF f

LEMMA ContentStarts == ContentInit => ContentInv
<1> SUFFICES ASSUME ContentInit PROVE ContentInv OBVIOUS
<1>1. Len(src) = 0 /\ src \in Seq(SourceSet(created)) /\ Sources = {} BY DEF ContentInit, Sources
<1>2. watching.on = FALSE /\ watching \in [on: BOOLEAN, failed: BOOLEAN, report: BOOLEAN]
  BY DEF ContentInit, NotWatching
<1>3. attached \in [Kinds -> 0..Len(src)] /\ \A k \in Kinds : attached[k] = 0
  BY <1>1 DEF ContentInit, NoSources
<1>4. ContentTyped
  <2>1. contentChanges \in 0..MaxContentChanges /\ watchFaults \in 0..MaxWatchFaults
    BY ContentBoundsAssumption DEF ContentInit
  <2>2. Len(src) <= MaxSources BY <1>1, ContentBoundsAssumption
  <2>3. created \in Nat /\ caches \in {0, created} BY DEF ContentInit
  <2>4. queue \in BOOLEAN /\ muted \in BOOLEAN /\ owner \in {"absent", "present", "deleting"}
        /\ release \subseteq Objects /\ drifted \subseteq release
    BY Zenon DEF ContentInit
  <2> QED BY <1>1, <1>2, <1>3, <2>1, <2>2, <2>3, <2>4, Zenon DEF ContentTyped
<1>5. AttachedOK BY <1>3 DEF AttachedOK
<1>6. HandlersOK /\ StartingOK /\ DetachedIsStopped
  BY <1>1, Zenon DEF HandlersOK, StartingOK, DetachedIsStopped
<1>7. WatchOK BY <1>2, Zenon DEF WatchOK, Locked
<1>8. Noticed BY DEF Noticed, ContentInit
<1> QED BY <1>4, <1>5, <1>6, <1>7, <1>8 DEF ContentInv

\* What every step of a source keeps: s is the source before it, t the one after it.
Continues(s, t) ==
    /\ t.kind = s.kind /\ t.cache = s.cache
    /\ t.wait = "ended" <=> s.wait = "ended"
    /\ t.wait = "failed" => t.cancelled \/ t.timedOut \/ t.errored
    /\ t.errored => t.handler # "none"
    /\ t.handler = "done" => t.cancelled
    /\ (t.cancelled /\ t.handler # "done") => (s.cancelled /\ s.handler # "done")
    /\ ~t.cancelled => /\ ~s.cancelled
                       /\ s.timedOut => t.timedOut
                       /\ s.handler \in Failing => t.handler \in Failing

\* A step of one source that leaves the cache alone keeps the invariant, when a handler
\* that was about to queue the owner still is or has done so.
LEMMA OneSource ==
    ASSUME ContentInv, NEW i \in Sources, NEW t \in SourceSet(created), Continues(src[i], t),
           src[i].handler = "requeue" => t.handler = "requeue" \/ queue',
           src' = [src EXCEPT ![i] = t],
           UNCHANGED <<owner, release, drifted, caches, created, attached, watching, muted,
                       contentChanges>>,
           queue' \in BOOLEAN, queue => queue', watchFaults' \in 0..MaxWatchFaults
    PROVE  ContentInv'
<1>1. src \in Seq(SourceSet(created)) /\ attached \in [Kinds -> 0..Len(src)] BY DEF ContentInv, ContentTyped
<1>2. src' \in Seq(SourceSet(created)) /\ Len(src') = Len(src) BY <1>1 DEF Sources
<1>3. Sources' = Sources BY <1>2 DEF Sources
<1>4. src'[i] = t /\ \A j \in Sources : j # i => src'[j] = src[j] BY <1>1 DEF Sources
<1>5. Locked' = Locked BY DEF Locked
<1>6. \A k \in Kinds : attached[k] # 0 => attached[k] \in Sources BY <1>1 DEF Sources
<1>7. \A j \in Sources : src'[j].kind = src[j].kind /\ src'[j].cache = src[j].cache
        /\ (src'[j].wait = "ended" <=> src[j].wait = "ended")
  BY <1>4 DEF Continues
<1>8. ContentTyped'
  <2>1. src' \in Seq(SourceSet(created')) /\ Len(src') <= MaxSources /\ attached' \in [Kinds -> 0..Len(src')]
    BY <1>1, <1>2 DEF ContentInv, ContentTyped
  <2> QED BY <2>1, Zenon DEF ContentInv, ContentTyped
<1>9. AttachedOK'
  <2> SUFFICES ASSUME NEW k \in Kinds, attached[k] # 0
               PROVE  /\ src'[attached[k]].kind = k /\ src'[attached[k]].cache = caches
                      /\ src'[attached[k]].cancelled => src'[attached[k]].handler = "done"
    BY Zenon DEF AttachedOK
  <2>1. attached[k] \in Sources BY <1>6
  <2>2. src[attached[k]].kind = k /\ src[attached[k]].cache = caches
        /\ (src[attached[k]].cancelled => src[attached[k]].handler = "done")
    BY DEF ContentInv, AttachedOK
  <2> QED BY <1>4, <1>7, <2>1, <2>2 DEF Continues
<1>10. HandlersOK'
  BY <1>3, <1>4, Zenon DEF ContentInv, HandlersOK, Continues
<1>11. StartingOK'
  <2> SUFFICES ASSUME NEW j \in Sources, src'[j].wait # "ended"
               PROVE  /\ Locked /\ attached[src'[j].kind] = 0 /\ src'[j].cache = caches
                      /\ src'[j].cancelled => src'[j].handler = "done"
                      /\ \A m \in Sources : (src'[m].wait # "ended" /\ src'[m].kind = src'[j].kind) => j = m
    BY <1>3, <1>5, Zenon DEF StartingOK
  <2>1. /\ Locked /\ attached[src[j].kind] = 0 /\ src[j].cache = caches
        /\ src[j].cancelled => src[j].handler = "done"
        /\ \A m \in Sources : (src[m].wait # "ended" /\ src[m].kind = src[j].kind) => j = m
    BY <1>7 DEF ContentInv, StartingOK
  <2>2. src'[j].cancelled => src'[j].handler = "done" BY <1>4, <2>1 DEF Continues
  <2> QED BY <1>7, <2>1, <2>2
<1>12. WatchOK'
  <2> SUFFICES ASSUME Locked, NEW k \in gvksForObjects(release)
               PROVE  \/ attached[k] # 0 \/ watching.failed
                      \/ \E j \in Sources : src'[j].wait # "ended" /\ src'[j].kind = k
    BY <1>3, <1>5, Zenon DEF WatchOK
  <2>1. \/ attached[k] # 0 \/ watching.failed
        \/ \E j \in Sources : src[j].wait # "ended" /\ src[j].kind = k
    BY DEF ContentInv, WatchOK
  <2> QED BY <1>7, <2>1, Zenon
<1>13. Noticed'
  <2> SUFFICES ASSUME owner = "present", ~Locked, ~queue', ~muted, NEW k \in gvksForObjects(release)
               PROVE  attached[k] # 0 \/ \E j \in Sources : src'[j].kind = k /\ src'[j].handler = "requeue"
    BY <1>3, <1>5, Zenon DEF Noticed
  <2>1. attached[k] # 0 \/ \E j \in Sources : src[j].kind = k /\ src[j].handler = "requeue"
    BY DEF ContentInv, Noticed
  <2> QED BY <1>4, <1>7, <2>1
<1>14. DetachedIsStopped'
  <2> SUFFICES ASSUME NEW j \in Sources, ~src'[j].cancelled
               PROVE  \/ \E k \in Kinds : attached[k] = j
                      \/ src'[j].wait # "ended" \/ src'[j].timedOut
                      \/ src'[j].handler \in Failing
    BY <1>3, Zenon DEF DetachedIsStopped, Failing
  <2>1. ~src[j].cancelled BY <1>4 DEF Continues
  <2>2. \/ \E k \in Kinds : attached[k] = j
        \/ src[j].wait # "ended" \/ src[j].timedOut
        \/ src[j].handler \in Failing
    BY <2>1, Zenon DEF ContentInv, DetachedIsStopped, Failing
  <2> QED BY <1>4, <1>7, <2>2 DEF Continues
<1> QED BY <1>8, <1>9, <1>10, <1>11, <1>12, <1>13, <1>14 DEF ContentInv

\* The fields of a source in terms of its type.
LEMMA SourceFields ==
    ASSUME ContentInv, NEW i \in Sources
    PROVE  /\ src[i] \in SourceSet(created) /\ Continues(src[i], src[i])
           /\ src[i].wait = "ended" => src[i].wait # "blocked"
           /\ watchFaults \in 0..MaxWatchFaults /\ queue \in BOOLEAN
<1>1. src[i] \in SourceSet(created) BY DEF ContentInv, ContentTyped, Sources
<1>2. /\ src[i].wait = "failed" => src[i].cancelled \/ src[i].timedOut \/ src[i].errored
      /\ src[i].errored => src[i].handler # "none"
      /\ src[i].handler = "done" => src[i].cancelled
  BY DEF ContentInv, HandlersOK
<1>3. watchFaults \in 0..MaxWatchFaults /\ queue \in BOOLEAN BY DEF ContentInv, ContentTyped
<1> QED BY <1>1, <1>2, <1>3 DEF Continues

LEMMA WatchFaultBound ==
    ASSUME ContentInv, WatchFault \/ UNCHANGED watchFaults
    PROVE  watchFaults' \in 0..MaxWatchFaults
BY ContentBoundsAssumption DEF ContentInv, ContentTyped, WatchFault

\* The steps that only tell how far the sync of a source is.
LEMMA SyncSteps ==
    ASSUME ContentInv, NEW i \in Sources, NEW t, src' = [src EXCEPT ![i] = t],
           t \in SourceSet(created), Continues(src[i], t), t.handler = src[i].handler,
           UnchangedButSources, UNCHANGED watchFaults
    PROVE  ContentInv'
BY OneSource, SourceFields, Zenon DEF UnchangedButSources

LEMMA SyncedStep == ASSUME ContentInv, NEW i \in Sources, Synced(i) PROVE ContentInv'
<1> DEFINE t == [src[i] EXCEPT !.synced = TRUE]
<1>1. src[i] \in SourceSet(created) /\ Continues(src[i], src[i]) BY SourceFields
<1>2. t \in SourceSet(created) /\ Continues(src[i], t) /\ t.handler = src[i].handler
  BY <1>1, Zenon DEF SourceSet, Continues
<1>3. src' = [src EXCEPT ![i] = t] /\ UnchangedButSources /\ UNCHANGED watchFaults BY DEF Synced
<1> HIDE DEF t
<1> QED BY <1>2, <1>3, SyncSteps, Zenon

LEMMA SendStep == ASSUME ContentInv, NEW i \in Sources, Send(i) PROVE ContentInv'
<1> DEFINE received == [src[i] EXCEPT !.channel = "closed", !.wait = "synced"]
           offered == [src[i] EXCEPT !.channel = "sending"]
           t == IF src[i].wait = "blocked" THEN received ELSE offered
<1>1. src[i] \in SourceSet(created) /\ Continues(src[i], src[i]) BY SourceFields
<1>2. offered \in SourceSet(created) /\ Continues(src[i], offered) /\ offered.handler = src[i].handler
  BY <1>1 DEF SourceSet, Continues
<1>3. received \in SourceSet(created) /\ received.handler = src[i].handler
      /\ (src[i].wait = "blocked" => Continues(src[i], received))
  BY <1>1, Zenon DEF SourceSet, Continues
<1>4. src' = [src EXCEPT ![i] = t] /\ UnchangedButSources /\ UNCHANGED watchFaults BY DEF Send
<1>5. t \in SourceSet(created) /\ Continues(src[i], t) /\ t.handler = src[i].handler BY <1>2, <1>3
<1> HIDE DEF t
<1> QED BY <1>4, <1>5, SyncSteps, Zenon

LEMMA WaitForSyncStep == ASSUME ContentInv, NEW i \in Sources, WaitForSync(i) PROVE ContentInv'
<1>1. src[i] \in SourceSet(created) /\ Continues(src[i], src[i]) BY SourceFields
<1>2. src \in Seq(SourceSet(created)) BY DEF ContentInv, ContentTyped
<1>3. UnchangedButSources /\ (UNCHANGED watchFaults) /\ src[i].wait = "started" BY DEF WaitForSync
<1>4. CASE src' = [src EXCEPT ![i].wait = "blocked"]
  <2> DEFINE t == [src[i] EXCEPT !.wait = "blocked"]
  <2>1. t \in SourceSet(created) /\ Continues(src[i], t) /\ t.handler = src[i].handler
    BY <1>1, <1>3 DEF SourceSet, Continues
  <2>2. src' = [src EXCEPT ![i] = t] BY <1>4
  <2> HIDE DEF t
  <2> QED BY <1>3, <2>1, <2>2, SyncSteps, Zenon
<1>5. ASSUME NEW r \in WaitCases(src[i]),
             src' = [src EXCEPT ![i].wait = r, ![i].channel = IF r = "synced" THEN "closed" ELSE @]
      PROVE  ContentInv'
  <2> DEFINE t == [src[i] EXCEPT !.wait = r, !.channel = IF r = "synced" THEN "closed" ELSE @]
  <2>1. \/ r = "failed" /\ (src[i].errored \/ src[i].cancelled)
        \/ r = "synced"
    BY DEF WaitCases
  <2>2. t \in SourceSet(created) /\ Continues(src[i], t) /\ t.handler = src[i].handler
    BY <1>1, <1>3, <2>1, Zenon DEF SourceSet, Continues
  <2>3. src' = [src EXCEPT ![i] = t] BY <1>1, <1>2, <1>5, Zenon DEF Sources, SourceSet
  <2> HIDE DEF t
  <2> QED BY <1>3, <2>2, <2>3, SyncSteps, Zenon
<1> QED BY <1>4, <1>5, Zenon DEF WaitForSync

LEMMA SyncTimeoutStep == ASSUME ContentInv, NEW i \in Sources, SyncTimeout(i) PROVE ContentInv'
<1> DEFINE t == [src[i] EXCEPT !.wait = "failed", !.timedOut = TRUE]
<1>1. src[i] \in SourceSet(created) /\ Continues(src[i], src[i]) BY SourceFields
<1>2. src \in Seq(SourceSet(created)) BY DEF ContentInv, ContentTyped
<1>3. src[i].wait = "blocked" BY DEF SyncTimeout
<1>4. t \in SourceSet(created) /\ Continues(src[i], t) /\ t.handler = src[i].handler
  BY <1>1, <1>3, Zenon DEF SourceSet, Continues
<1>5. src' = [src EXCEPT ![i] = t] BY <1>1, <1>2, Zenon DEF Sources, SourceSet, SyncTimeout
<1>6. UnchangedButSources /\ UNCHANGED watchFaults BY DEF SyncTimeout
<1> HIDE DEF t
<1> QED BY <1>4, <1>5, <1>6, SyncSteps, Zenon

LEMMA DeliverStep == ASSUME ContentInv, NEW i \in Sources, Deliver(i) PROVE ContentInv'
<1>1. src[i] \in SourceSet(created) /\ Continues(src[i], src[i]) /\ watchFaults \in 0..MaxWatchFaults
  BY SourceFields
<1>2. src' = [src EXCEPT ![i] = src[i]] BY DEF Deliver, ContentInv, ContentTyped
<1>3. queue' = TRUE BY DEF Deliver
<1> QED BY <1>1, <1>2, <1>3, OneSource, Zenon DEF Deliver

\* The error handler: the error is recorded, and the source was synced or not.
LEMMA WatchErrorStep == ASSUME ContentInv, NEW i \in Sources, WatchError(i) PROVE ContentInv'
<1> DEFINE e == [src[i] EXCEPT !.errored = TRUE, !.handler = "check"]
           t == Wake(e, "failed")
<1>1. src[i] \in SourceSet(created) /\ Continues(src[i], src[i]) /\ queue \in BOOLEAN BY SourceFields
<1>2. src[i].handler = "none" /\ src' = [src EXCEPT ![i] = t] BY DEF WatchError
<1>3. e \in SourceSet(created) /\ Continues(src[i], [e EXCEPT !.wait = src[i].wait]) /\ e = [e EXCEPT !.wait = src[i].wait]
  BY <1>1, <1>2, Zenon DEF SourceSet, Continues, Failing
<1>4. src[i].wait = "blocked" => Continues(src[i], [e EXCEPT !.wait = "failed"])
  BY <1>1, <1>2 DEF SourceSet, Continues, Failing
<1>5. [e EXCEPT !.wait = "failed"] \in SourceSet(created) BY <1>3, Zenon DEF SourceSet
<1>6. e.wait = src[i].wait BY <1>1 DEF SourceSet
<1>7. t \in SourceSet(created) /\ Continues(src[i], t) BY <1>3, <1>4, <1>5, <1>6 DEF Wake
<1>8. watchFaults' \in 0..MaxWatchFaults BY WatchFaultBound DEF WatchError
<1> HIDE DEF t
<1> QED BY <1>1, <1>2, <1>7, <1>8, OneSource, Zenon DEF WatchError, UnchangedButSources

LEMMA CheckSyncedStep == ASSUME ContentInv, NEW i \in Sources, CheckSynced(i) PROVE ContentInv'
<1> DEFINE had == [src[i] EXCEPT !.handler = "callback", !.channel = "closed"]
           not == [src[i] EXCEPT !.handler = "cancel"]
           t == IF HasSynced(src[i]) THEN had ELSE not
<1>1. /\ src[i] \in SourceSet(created) /\ Continues(src[i], src[i])
      /\ queue \in BOOLEAN /\ watchFaults \in 0..MaxWatchFaults
  BY SourceFields
<1>2. src[i].handler = "check" /\ src' = [src EXCEPT ![i] = t] BY DEF CheckSynced
<1>3. had \in SourceSet(created) /\ Continues(src[i], had)
  BY <1>1, <1>2, Zenon DEF SourceSet, Continues, Failing
<1>4. not \in SourceSet(created) /\ Continues(src[i], not)
  BY <1>1, <1>2 DEF SourceSet, Continues, Failing
<1>5. t \in SourceSet(created) /\ Continues(src[i], t) BY <1>3, <1>4
<1> HIDE DEF t
<1> QED BY <1>1, <1>2, <1>5, OneSource, Zenon DEF CheckSynced, UnchangedButSources

LEMMA CancelInformerStep == ASSUME ContentInv, NEW i \in Sources, CancelInformer(i) PROVE ContentInv'
<1> DEFINE c == [src[i] EXCEPT !.cancelled = TRUE]
           t == [Cancel(src[i]) EXCEPT !.handler = "done"]
<1>1. /\ src[i] \in SourceSet(created) /\ Continues(src[i], src[i])
      /\ queue \in BOOLEAN /\ watchFaults \in 0..MaxWatchFaults
  BY SourceFields
<1>2. src' = [src EXCEPT ![i] = t] /\ queue' = (queue \/ src[i].handler = "requeue")
      /\ src[i].handler \in {"requeue", "cancel"}
  BY DEF CancelInformer
<1>3. c \in SourceSet(created) /\ c.wait = src[i].wait /\ c.cancelled = TRUE /\ c.kind = src[i].kind
      /\ c.cache = src[i].cache /\ c.errored = src[i].errored
  BY <1>1, Zenon DEF SourceSet
<1>4. Cancel(src[i]) = IF c.wait = "blocked" THEN [c EXCEPT !.wait = "failed"] ELSE c
  BY DEF Cancel, Wake
<1>5. t \in SourceSet(created) /\ Continues(src[i], t)
  <2>1. CASE src[i].wait = "blocked"
    <3>1. t = [[c EXCEPT !.wait = "failed"] EXCEPT !.handler = "done"] BY <1>3, <1>4, <2>1
    <3> HIDE DEF c, t
    <3> QED BY <1>1, <1>3, <2>1, <3>1, Zenon DEF SourceSet, Continues
  <2>2. CASE src[i].wait # "blocked"
    <3>1. t = [c EXCEPT !.handler = "done"] BY <1>3, <1>4, <2>2
    <3> HIDE DEF c, t
    <3> QED BY <1>1, <1>3, <2>2, <3>1 DEF SourceSet, Continues
  <2> QED BY <2>1, <2>2
<1>6. queue' \in BOOLEAN /\ (queue => queue') /\ (src[i].handler = "requeue" => queue') BY <1>2, Zenon
<1> HIDE DEF t
<1> QED BY <1>1, <1>2, <1>5, <1>6, OneSource, Zenon DEF CancelInformer

-----------------------------------------------------------------------------
(* Steps that change what is attached                                       *)

\* A cancelled source is otherwise the same, and one that nobody waits for stays so.
LEMMA CancelFacts ==
    ASSUME NEW n \in Nat, NEW s \in SourceSet(n)
    PROVE  /\ Cancel(s) \in SourceSet(n) /\ Cancel(s).cancelled
           /\ Cancel(s).kind = s.kind /\ Cancel(s).cache = s.cache /\ Cancel(s).handler = s.handler
           /\ Cancel(s).errored = s.errored
           /\ s.wait = "ended" => Cancel(s).wait = "ended"
<1> DEFINE c == [s EXCEPT !.cancelled = TRUE]
<1>1. /\ c \in SourceSet(n) /\ c.cancelled = TRUE /\ c.kind = s.kind /\ c.cache = s.cache
      /\ c.handler = s.handler /\ c.errored = s.errored /\ c.wait = s.wait
  BY Zenon DEF SourceSet
<1>2. Cancel(s) = IF c.wait = "blocked" THEN [c EXCEPT !.wait = "failed"] ELSE c BY DEF Cancel, Wake
<1> HIDE DEF c
<1>3. CASE c.wait = "blocked"
  <2>1. Cancel(s) = [c EXCEPT !.wait = "failed"] BY <1>2, <1>3
  <2> QED BY <1>1, <1>3, <2>1 DEF SourceSet
<1>4. CASE c.wait # "blocked" BY <1>1, <1>2, <1>4
<1> QED BY <1>3, <1>4

\* While Watch does not hold the lock, no source is being started.
LEMMA UnlockedFacts ==
    ASSUME ContentInv
    PROVE  /\ src \in Seq(SourceSet(created)) /\ attached \in [Kinds -> 0..Len(src)] /\ created \in Nat
           /\ \A i \in Sources : src[i] \in SourceSet(created)
           /\ ~Locked => \A i \in Sources : src[i].wait = "ended"
           /\ \A k \in Kinds : attached[k] # 0 => attached[k] \in Sources /\ src[attached[k]].kind = k
           /\ caches = 0 => \A k \in Kinds : attached[k] = 0
<1>1. src \in Seq(SourceSet(created)) /\ attached \in [Kinds -> 0..Len(src)] /\ created \in Nat
  BY DEF ContentInv, ContentTyped
<1>2. \A i \in Sources : src[i] \in SourceSet(created) BY <1>1 DEF Sources
<1>3. \A k \in Kinds : attached[k] # 0 => attached[k] \in Sources BY <1>1 DEF Sources
<1>4. \A k \in Kinds : attached[k] # 0 => src[attached[k]].kind = k /\ src[attached[k]].cache = caches
  BY DEF ContentInv, AttachedOK
<1>5. ~Locked => \A i \in Sources : src[i].wait = "ended" BY DEF ContentInv, StartingOK
<1>6. \A i \in Sources : src[i].cache # 0 BY <1>1, <1>2 DEF SourceSet
<1> QED BY <1>1, <1>2, <1>3, <1>4, <1>5, <1>6

\* Sources are detached, and only cancelled ones: what OnPostSyncError and Delete do while
\* nobody holds the lock.
LEMMA Detaching ==
    ASSUME ContentInv, ~Locked, Locked' = FALSE, created' = created, caches' \in {0, created},
           src' \in Seq(SourceSet(created)), Len(src') = Len(src),
           \A i \in Sources : /\ src'[i].kind = src[i].kind /\ src'[i].cache = src[i].cache
                              /\ src'[i].wait = "ended" /\ src'[i].errored = src[i].errored
                              /\ src[i].cancelled => src'[i].cancelled
                              /\ src'[i].handler = src[i].handler
                                 \/ (src[i].handler = "callback" /\ src'[i].handler = "requeue")
                              /\ ~src'[i].cancelled => src'[i].timedOut = src[i].timedOut,
           attached' \in [Kinds -> 0..Len(src)],
           \A k \in Kinds : attached'[k] # 0 =>
              /\ attached'[k] = attached[k] /\ caches' = caches
              /\ src'[attached[k]].cancelled => src[attached[k]].cancelled,
           \A k \in Kinds : (attached[k] # 0 /\ attached'[k] = 0) => src'[attached[k]].cancelled
    PROVE  AttachedOK' /\ HandlersOK' /\ StartingOK' /\ WatchOK' /\ DetachedIsStopped'
<1>1. Sources' = Sources BY DEF Sources
<1>2. AttachedOK'
  <2> SUFFICES ASSUME NEW k \in Kinds, attached'[k] # 0
               PROVE  /\ src'[attached'[k]].kind = k /\ src'[attached'[k]].cache = caches'
                      /\ src'[attached'[k]].cancelled => src'[attached'[k]].handler = "done"
    BY Zenon DEF AttachedOK
  <2>1. attached[k] = attached'[k] /\ attached[k] \in Sources BY UnlockedFacts
  <2>2. src[attached[k]].kind = k /\ src[attached[k]].cache = caches
        /\ (src[attached[k]].cancelled => src[attached[k]].handler = "done")
    BY <2>1 DEF ContentInv, AttachedOK
  <2> QED BY <2>1, <2>2
<1>3. HandlersOK'
  <2> SUFFICES ASSUME NEW i \in Sources
               PROVE  /\ src'[i].wait = "failed" => src'[i].cancelled \/ src'[i].timedOut \/ src'[i].errored
                      /\ src'[i].errored => src'[i].handler # "none"
                      /\ src'[i].handler = "done" => src'[i].cancelled
    BY <1>1, Zenon DEF HandlersOK
  <2>1. (src[i].errored => src[i].handler # "none") /\ (src[i].handler = "done" => src[i].cancelled)
    BY DEF ContentInv, HandlersOK
  <2> QED BY <2>1
<1>4. StartingOK' BY <1>1 DEF StartingOK
<1>5. WatchOK' BY Zenon DEF WatchOK
<1>6. DetachedIsStopped'
  <2> SUFFICES ASSUME NEW i \in Sources, ~src'[i].cancelled
               PROVE  \/ \E k \in Kinds : attached'[k] = i
                      \/ src'[i].wait # "ended" \/ src'[i].timedOut
                      \/ src'[i].handler \in Failing
    BY <1>1, Zenon DEF DetachedIsStopped, Failing
  <2>1. ~src[i].cancelled /\ src[i].wait = "ended" BY UnlockedFacts
  <2>2. \/ \E k \in Kinds : attached[k] = i
        \/ src[i].timedOut \/ src[i].handler \in Failing
    BY <2>1, Zenon DEF ContentInv, DetachedIsStopped, Failing
  <2>3. ASSUME NEW k \in Kinds, attached[k] = i PROVE attached'[k] = i
    BY <2>3 DEF Sources
  <2>4. src[i].handler \in Failing => src'[i].handler \in Failing BY DEF Failing
  <2> QED BY <2>2, <2>3, <2>4
<1> QED BY <1>2, <1>3, <1>4, <1>5, <1>6

LEMMA DeleteContentStep == ASSUME ContentInv, DeleteContent PROVE ContentInv'
<1> DEFINE gone(i) == \E k \in Kinds : attached[k] = i
<1>1. /\ ~Locked /\ caches' = 0 /\ attached' = NoSources /\ owner' = "absent" /\ queue' = FALSE
      /\ release' = {} /\ drifted' = {}
      /\ src' = [i \in Sources |-> IF gone(i) THEN Cancel(src[i]) ELSE src[i]]
      /\ UNCHANGED <<created, watching, muted, contentChanges, watchFaults>>
  BY DEF DeleteContent
<1>2. Locked' = FALSE BY <1>1 DEF Locked, ContentInv, ContentTyped
<1>3. \A i \in Sources : src'[i] = IF gone(i) THEN Cancel(src[i]) ELSE src[i] BY <1>1
<1>4. \A i \in Sources : src'[i] \in SourceSet(created) BY <1>3, UnlockedFacts, CancelFacts
<1>5. src' \in Seq(SourceSet(created)) /\ Len(src') = Len(src)
  BY <1>1, <1>4, UnlockedFacts DEF Sources
<1>6. attached' \in [Kinds -> 0..Len(src)] /\ \A k \in Kinds : attached'[k] = 0
  BY <1>1, UnlockedFacts DEF NoSources
<1>7. \A i \in Sources :
        /\ src'[i].kind = src[i].kind /\ src'[i].cache = src[i].cache
        /\ src'[i].wait = "ended" /\ src'[i].errored = src[i].errored
        /\ src[i].cancelled => src'[i].cancelled
        /\ src'[i].handler = src[i].handler
        /\ ~src'[i].cancelled => src'[i].timedOut = src[i].timedOut
  <2> TAKE i \in Sources
  <2>1. CASE gone(i) BY <1>1, <1>3, <2>1, UnlockedFacts, CancelFacts
  <2>2. CASE ~gone(i) BY <1>1, <1>3, <2>2, UnlockedFacts
  <2> QED BY <2>1, <2>2
<1>8. \A k \in Kinds : attached[k] # 0 => src'[attached[k]].cancelled
  <2> SUFFICES ASSUME NEW k \in Kinds, attached[k] # 0 PROVE src'[attached[k]].cancelled OBVIOUS
  <2>1. attached[k] \in Sources /\ gone(attached[k]) BY UnlockedFacts
  <2>2. src[attached[k]] \in SourceSet(created) /\ created \in Nat BY <2>1, UnlockedFacts
  <2> QED BY <1>3, <2>1, <2>2, CancelFacts
<1>9. AttachedOK' /\ HandlersOK' /\ StartingOK' /\ WatchOK' /\ DetachedIsStopped'
  <2> HIDE DEF gone
  <2> QED BY <1>1, <1>2, <1>5, <1>6, <1>7, <1>8, Detaching, ZenonT(30)
<1>10. Noticed' BY <1>1 DEF Noticed
<1>11. ContentTyped'
  <2>1. src' \in Seq(SourceSet(created')) /\ Len(src') <= MaxSources /\ attached' \in [Kinds -> 0..Len(src')]
    BY <1>1, <1>5, <1>6, Zenon DEF ContentInv, ContentTyped
  <2>2. queue' \in BOOLEAN /\ owner' \in {"absent", "present", "deleting"} /\ caches' \in {0, created'}
        /\ release' \subseteq Objects /\ drifted' \subseteq release'
    BY <1>1, ZenonT(30)
  <2> HIDE DEF gone
  <2> QED BY <1>1, <2>1, <2>2, Zenon DEF ContentInv, ContentTyped
<1> QED BY <1>9, <1>10, <1>11 DEF ContentInv

LEMMA OnPostSyncErrorStep == ASSUME ContentInv, NEW i \in Sources, OnPostSyncError(i) PROVE ContentInv'
<1> DEFINE mine == src[i].cache = caches
           gone(j) == mine /\ j = attached[src[i].kind]
           removed == [j \in Sources |-> IF gone(j) THEN Cancel(src[j]) ELSE src[j]]
<1>1. /\ ~Locked /\ src[i].handler = "callback"
      /\ src' = [removed EXCEPT ![i].handler = "requeue"]
      /\ attached' = IF mine THEN [attached EXCEPT ![src[i].kind] = 0] ELSE attached
      /\ UNCHANGED <<owner, release, drifted, queue, caches, created, watching, muted,
                     contentChanges, watchFaults>>
  BY DEF OnPostSyncError
<1>2. Locked' = FALSE BY <1>1 DEF Locked, ContentInv, ContentTyped
<1>3. \A j \in Sources : removed[j] \in SourceSet(created) BY UnlockedFacts, CancelFacts
<1>4. removed \in Seq(SourceSet(created)) /\ Len(removed) = Len(src) /\ Sources = 1..Len(src)
  BY <1>3, UnlockedFacts DEF Sources
<1>5. \A j \in Sources :
        /\ removed[j].kind = src[j].kind /\ removed[j].cache = src[j].cache
        /\ removed[j].wait = "ended" /\ removed[j].errored = src[j].errored
        /\ src[j].cancelled => removed[j].cancelled
        /\ removed[j].handler = src[j].handler
        /\ ~gone(j) => removed[j] = src[j]
        /\ gone(j) => removed[j].cancelled
        /\ ~removed[j].cancelled => removed[j].timedOut = src[j].timedOut
  <2> TAKE j \in Sources
  <2>1. CASE gone(j)
    <3>1. removed[j] = Cancel(src[j]) BY <2>1
    <3> HIDE DEF gone, removed
    <3> QED BY <1>1, <2>1, <3>1, UnlockedFacts, CancelFacts
  <2>2. CASE ~gone(j)
    <3>1. removed[j] = src[j] BY <2>2
    <3> HIDE DEF gone, removed
    <3> QED BY <1>1, <2>2, <3>1, UnlockedFacts
  <2> QED BY <2>1, <2>2
<1>6. src[i].kind \in Kinds BY UnlockedFacts DEF SourceSet
<1>7. attached' \in [Kinds -> 0..Len(src)]
      /\ \A k \in Kinds : attached'[k] = IF mine /\ k = src[i].kind THEN 0 ELSE attached[k]
  BY <1>1, <1>6, UnlockedFacts
<1> DEFINE r == removed[i]
           q == [r EXCEPT !.handler = "requeue"]
<1>8. q \in SourceSet(created) /\ q.kind = r.kind /\ q.cache = r.cache /\ q.wait = r.wait
      /\ q.errored = r.errored /\ q.cancelled = r.cancelled /\ q.timedOut = r.timedOut
      /\ q.handler = "requeue"
  <2>1. r \in SourceSet(created) BY <1>3
  <2> HIDE DEF r
  <2> QED BY <2>1 DEF SourceSet, Failing
<1>9. src' = [removed EXCEPT ![i] = q] BY <1>1
<1> HIDE DEF removed, q
<1>10. src' \in Seq(SourceSet(created)) /\ Len(src') = Len(src) BY <1>4, <1>8, <1>9
<1>11. src'[i] = q /\ \A j \in Sources : j # i => src'[j] = removed[j] BY <1>4, <1>9
<1>12. \A j \in Sources :
        /\ src'[j].kind = src[j].kind /\ src'[j].cache = src[j].cache
        /\ src'[j].wait = "ended" /\ src'[j].errored = src[j].errored
        /\ src[j].cancelled => src'[j].cancelled
        /\ src'[j].handler = src[j].handler
             \/ (src[j].handler = "callback" /\ src'[j].handler = "requeue")
        /\ ~src'[j].cancelled => src'[j].timedOut = src[j].timedOut
        /\ src'[j].cancelled = removed[j].cancelled
  BY <1>1, <1>5, <1>8, <1>11
<1>13. \A k \in Kinds : attached'[k] # 0 =>
         /\ attached'[k] = attached[k] /\ caches' = caches
         /\ src'[attached[k]].cancelled => src[attached[k]].cancelled
  <2> SUFFICES ASSUME NEW k \in Kinds, attached'[k] # 0
               PROVE  /\ attached'[k] = attached[k] /\ caches' = caches
                      /\ src'[attached[k]].cancelled => src[attached[k]].cancelled
    OBVIOUS
  <2>1. attached'[k] = attached[k] /\ ~(mine /\ k = src[i].kind) BY <1>7
  <2>2. attached[k] \in Sources /\ src[attached[k]].kind = k BY <2>1, UnlockedFacts
  <2>3. ~gone(attached[k]) BY <1>6, <2>1, <2>2, UnlockedFacts
  <2> QED BY <1>1, <1>5, <1>12, <2>1, <2>2, <2>3
<1>14. \A k \in Kinds : (attached[k] # 0 /\ attached'[k] = 0) => src'[attached[k]].cancelled
  <2> SUFFICES ASSUME NEW k \in Kinds, attached[k] # 0, attached'[k] = 0 PROVE src'[attached[k]].cancelled
    OBVIOUS
  <2>1. mine /\ k = src[i].kind BY <1>7
  <2>2. attached[k] \in Sources /\ gone(attached[k]) BY <2>1, UnlockedFacts
  <2> QED BY <1>5, <1>12, <2>2
<1>15. AttachedOK' /\ HandlersOK' /\ StartingOK' /\ WatchOK' /\ DetachedIsStopped'
  <2>1. caches' \in {0, created} /\ created' = created BY <1>1 DEF ContentInv, ContentTyped
  <2> HIDE DEF gone, mine
  <2> QED BY <1>1, <1>2, <1>7, <1>10, <1>12, <1>13, <1>14, <2>1, Detaching, Zenon
<1>16. Noticed'
  <2> SUFFICES ASSUME owner = "present", ~queue, ~muted, NEW k \in gvksForObjects(release)
               PROVE  attached'[k] # 0 \/ \E j \in Sources' : src'[j].kind = k /\ src'[j].handler = "requeue"
    BY <1>1, Zenon DEF Noticed
  <2>1. Sources' = Sources BY <1>10 DEF Sources
  <2>2. attached[k] # 0 \/ \E j \in Sources : src[j].kind = k /\ src[j].handler = "requeue"
    BY <1>1 DEF ContentInv, Noticed
  <2>3. k \in Kinds BY DEF ContentInv, ContentTyped, gvksForObjects, Kinds
  <2>4. CASE mine /\ k = src[i].kind
    <3>1. src'[i].kind = k /\ src'[i].handler = "requeue" BY <1>8, <1>11, <1>12, <2>4
    <3> QED BY <2>1, <3>1
  <2>5. CASE ~(mine /\ k = src[i].kind)
    <3>1. attached'[k] = attached[k] BY <1>7, <2>3, <2>5
    <3> QED BY <1>12, <2>1, <2>2, <3>1
  <2> QED BY <2>4, <2>5
<1>17. ContentTyped'
  <2>1. src' \in Seq(SourceSet(created')) /\ Len(src') <= MaxSources /\ attached' \in [Kinds -> 0..Len(src')]
    BY <1>1, <1>7, <1>10 DEF ContentInv, ContentTyped
  <2> HIDE DEF gone, mine
  <2> QED BY <1>1, <2>1, Zenon DEF ContentInv, ContentTyped
<1> QED BY <1>15, <1>16, <1>17 DEF ContentInv

-----------------------------------------------------------------------------
(* Watch                                                                    *)

\* A started source has its type and waits.
LEMMA StartedFacts ==
    ASSUME NEW k \in Kinds, created' \in Nat, created' >= 1
    PROVE  /\ Started(k) \in SourceSet(created') /\ Started(k).kind = k /\ Started(k).cache = created'
           /\ Started(k).wait = "started" /\ ~Started(k).cancelled /\ ~Started(k).errored
           /\ Started(k).handler = "none"
BY DEF Started, SourceSet, Failing

LEMMA Concatenation ==
    ASSUME NEW S, NEW a \in Seq(S), NEW b \in Seq(S)
    PROVE  /\ a \o b \in Seq(S) /\ Len(a \o b) = Len(a) + Len(b)
           /\ \A i \in 1..Len(a) : (a \o b)[i] = a[i]
           /\ \A n \in 1..Len(b) : (a \o b)[Len(a) + n] = b[n]
OBVIOUS

LEMMA KindsFinite == IsFiniteSet(Kinds)
<1>1. Kinds = {KindOf[o] : o \in Objects} BY DEF Kinds
<1>2. [o \in Objects |-> KindOf[o]] \in Surjection(Objects, Kinds) BY <1>1 DEF Surjection
<1> QED BY <1>2, ObjectsAssumption, FS_Surjection

\* Watch begins: the sources of stale kinds are cancelled, the new ones started.
LEMMA BeginWatchStep ==
    ASSUME ContentInv, ~Locked, GetCache, NEW report \in BOOLEAN, BeginWatch(report),
           queue' = FALSE, muted' = FALSE, drifted' = {},
           UNCHANGED <<owner, release, contentChanges>>
    PROVE  ContentInv'
<1> DEFINE want == gvksForObjects(release)
           have == {k \in Kinds : attached[k] # 0}
           stale == {attached[k] : k \in have \ want}
<1> PICK unmapped \in SUBSET (want \ have) :
      LET new == Numbered(want \ (have \cup unmapped))
      IN  /\ Len(src) + Len(new) <= MaxSources
          /\ IF unmapped = {} THEN UNCHANGED watchFaults ELSE WatchFault
          /\ attached' = [k \in Kinds |-> IF k \in want THEN attached[k] ELSE 0]
          /\ src' = [i \in Sources |-> IF i \in stale THEN Cancel(src[i]) ELSE src[i]]
                      \o [n \in DOMAIN new |-> Started(new[n])]
          /\ watching' = [on |-> TRUE, failed |-> unmapped # {}, report |-> report]
  BY Zenon DEF BeginWatch
<1> DEFINE fresh == want \ (have \cup unmapped)
           new == Numbered(fresh)
           old == [i \in Sources |-> IF i \in stale THEN Cancel(src[i]) ELSE src[i]]
           add == [n \in DOMAIN new |-> Started(new[n])]
           L == Len(src)
<1>1. /\ src \in Seq(SourceSet(created)) /\ attached \in [Kinds -> 0..L] /\ created \in Nat /\ L \in Nat
      /\ \A i \in Sources : src[i] \in SourceSet(created) /\ src[i].wait = "ended"
      /\ \A k \in Kinds : attached[k] # 0 => attached[k] \in Sources /\ src[attached[k]].kind = k
      /\ caches = 0 => \A k \in Kinds : attached[k] = 0
  BY UnlockedFacts
<1>2. want \subseteq Kinds BY DEF ContentInv, ContentTyped, gvksForObjects, Kinds
<1>3. /\ new \in Seq(fresh) /\ \A m, n \in 1..Len(new) : new[m] = new[n] => m = n
      /\ \A x \in fresh : \E n \in 1..Len(new) : new[n] = x
  <2>1. fresh \in SUBSET Kinds BY <1>2
  <2> HIDE DEF fresh
  <2>2. IsFiniteSet(fresh) BY <2>1, KindsFinite, FS_Subset
  <2> QED BY <2>2, NumberedFacts
<1>4. /\ created' \in Nat /\ created' >= 1 /\ created' >= created
      /\ caches' = created' /\ (caches # 0 => caches' = caches)
  BY <1>1 DEF GetCache, ContentInv, ContentTyped
<1>5. /\ L + Len(new) <= MaxSources
      /\ attached' = [k \in Kinds |-> IF k \in want THEN attached[k] ELSE 0]
      /\ src' = old \o add
      /\ watching' = [on |-> TRUE, failed |-> unmapped # {}, report |-> report]
  BY Zenon
<1>6. watchFaults' \in 0..MaxWatchFaults
  <2>1. WatchFault \/ UNCHANGED watchFaults BY Zenon
  <2> QED BY <2>1, WatchFaultBound
<1> HIDE DEF new
<1>7. \A n \in 1..Len(new) : new[n] \in fresh /\ new[n] \in Kinds /\ attached[new[n]] = 0
  <2> TAKE n \in 1..Len(new)
  <2>1. new[n] \in fresh BY <1>3
  <2> QED BY <1>2, <2>1
<1> HIDE DEF fresh
<1>8. SourceSet(created) \subseteq SourceSet(created') BY <1>1, <1>4 DEF SourceSet
<1>9. \A i \in Sources : /\ old[i] \in SourceSet(created') /\ old[i].wait = "ended"
                         /\ old[i].handler = src[i].handler /\ old[i].errored = src[i].errored
                         /\ old[i].kind = src[i].kind /\ old[i].cache = src[i].cache
                         /\ src[i].cancelled => old[i].cancelled
                         /\ i \in stale => old[i].cancelled
                         /\ i \notin stale => old[i] = src[i]
  <2> TAKE i \in Sources
  <2>1. CASE i \in stale
    <3>1. old[i] = Cancel(src[i]) BY <2>1
    <3>2. src[i] \in SourceSet(created) /\ src[i].wait = "ended" /\ created \in Nat BY <1>1
    <3>3. /\ Cancel(src[i]) \in SourceSet(created) /\ Cancel(src[i]).cancelled
          /\ Cancel(src[i]).kind = src[i].kind /\ Cancel(src[i]).cache = src[i].cache
          /\ Cancel(src[i]).handler = src[i].handler /\ Cancel(src[i]).errored = src[i].errored
          /\ Cancel(src[i]).wait = "ended"
      BY <3>2, CancelFacts
    <3> HIDE DEF old, stale
    <3> QED BY <1>8, <2>1, <3>1, <3>3
  <2>2. CASE i \notin stale
    <3>1. old[i] = src[i] BY <2>2
    <3> HIDE DEF old, stale
    <3> QED BY <1>1, <1>8, <2>2, <3>1
  <2> QED BY <2>1, <2>2, ZenonT(30)
<1>10. old \in Seq(SourceSet(created')) /\ Len(old) = L BY <1>1, <1>9 DEF Sources
<1>11. \A n \in 1..Len(new) : /\ add[n] = Started(new[n]) /\ add[n] \in SourceSet(created')
                              /\ add[n].kind = new[n] /\ add[n].cache = created'
                              /\ add[n].wait = "started" /\ ~add[n].cancelled /\ ~add[n].errored
                              /\ add[n].handler = "none"
  BY <1>3, <1>4, <1>7, StartedFacts
<1>12. add \in Seq(SourceSet(created')) /\ Len(add) = Len(new)
  <2>1. DOMAIN new = 1..Len(new) /\ Len(new) \in Nat BY <1>3
  <2>2. add = [n \in 1..Len(new) |-> add[n]] BY <2>1
  <2>3. \A n \in 1..Len(new) : add[n] \in SourceSet(created') BY <1>11, ZenonT(30)
  <2> DEFINE T == SourceSet(created')
  <2>4. add \in [1..Len(new) -> T]
    <3> HIDE DEF add, T
    <3> QED BY <2>2, <2>3 DEF T
  <2> HIDE DEF add, T
  <2>5. add \in Seq(T) /\ Len(add) = Len(new) BY <2>1, <2>4
  <2> QED BY <2>5 DEF T
<1> HIDE DEF old, add
<1>13. /\ src' \in Seq(SourceSet(created')) /\ Len(src') = L + Len(new) /\ Len(new) \in Nat
       /\ \A i \in Sources : src'[i] = old[i]
       /\ \A n \in 1..Len(new) : src'[L + n] = add[n]
  <2>1. Len(new) \in Nat /\ Sources = 1..Len(old) BY <1>3, <1>10 DEF Sources
  <2>2. /\ old \o add \in Seq(SourceSet(created')) /\ Len(old \o add) = Len(old) + Len(add)
        /\ \A i \in 1..Len(old) : (old \o add)[i] = old[i]
        /\ \A n \in 1..Len(add) : (old \o add)[Len(old) + n] = add[n]
    <3> DEFINE T == SourceSet(created')
    <3>1. old \in Seq(T) /\ add \in Seq(T) BY <1>10, <1>12
    <3> HIDE DEF T
    <3>2. /\ old \o add \in Seq(T) /\ Len(old \o add) = Len(old) + Len(add)
          /\ \A i \in 1..Len(old) : (old \o add)[i] = old[i]
          /\ \A n \in 1..Len(add) : (old \o add)[Len(old) + n] = add[n]
      BY <3>1, Concatenation
    <3> QED BY <3>2 DEF T
  <2>3. src' = old \o add /\ Len(old) = L /\ Len(add) = Len(new) BY <1>5, <1>10, <1>12, Zenon
  <2> HIDE DEF L
  <2> QED BY <2>1, <2>2, <2>3, Zenon
<1>14. /\ Sources \subseteq Sources' /\ \A n \in 1..Len(new) : L + n \in Sources'
       /\ \A i \in Sources' : i \in Sources \/ \E n \in 1..Len(new) : i = L + n
  <2>1. Sources = 1..L /\ Sources' = 1..(L + Len(new)) BY <1>13 DEF Sources
  <2>2. ASSUME NEW i \in 1..(L + Len(new)), i \notin 1..L PROVE i - L \in 1..Len(new) /\ i = L + (i - L)
    BY <1>1, <1>13, <2>2
  <2>3. 1..L \subseteq 1..(L + Len(new)) /\ \A n \in 1..Len(new) : L + n \in 1..(L + Len(new))
    BY <1>1, <1>13
  <2> QED BY <2>1, <2>2, <2>3, ZenonT(30)
<1> HIDE DEF L
<1>15. \A k \in Kinds : attached'[k] = IF k \in want THEN attached[k] ELSE 0 BY <1>5
<1>16. Locked' BY <1>5 DEF Locked
<1>17. ContentTyped'
  <2>1. attached' \in [Kinds -> 0..Len(src')] BY <1>1, <1>5, <1>13
  <2>2. watching' \in [on: BOOLEAN, failed: BOOLEAN, report: BOOLEAN] BY <1>5
  <2>3. Len(src') <= MaxSources /\ caches' \in {0, created'} BY <1>4, <1>5, <1>13
  <2>4. queue' \in BOOLEAN /\ muted' \in BOOLEAN /\ drifted' \subseteq release' BY Zenon
  <2> HIDE DEF want, have, stale
  <2> QED BY <1>4, <1>6, <1>13, <2>1, <2>2, <2>3, <2>4, Zenon DEF ContentInv, ContentTyped
<1>18. ASSUME NEW k \in Kinds, attached'[k] # 0
       PROVE  /\ k \in want /\ attached'[k] = attached[k] /\ attached[k] \in Sources /\ attached[k] \notin stale
              /\ src'[attached[k]] = src[attached[k]]
  <2>1. k \in want /\ attached'[k] = attached[k] /\ attached[k] \in Sources BY <1>1, <1>15, <1>18
  <2>2. attached[k] \notin stale
    <3> SUFFICES ASSUME NEW m \in have \ want, attached[m] = attached[k] PROVE FALSE BY DEF stale
    <3>1. src[attached[m]].kind = m /\ src[attached[k]].kind = k BY <1>1, <1>18, <2>1
    <3> QED BY <2>1, <3>1
  <2> QED BY <1>9, <1>13, <2>1, <2>2
<1>19. AttachedOK'
  <2> SUFFICES ASSUME NEW k \in Kinds, attached'[k] # 0
               PROVE  /\ src'[attached'[k]].kind = k /\ src'[attached'[k]].cache = caches'
                      /\ src'[attached'[k]].cancelled => src'[attached'[k]].handler = "done"
    BY Zenon DEF AttachedOK
  <2>1. attached'[k] = attached[k] /\ src'[attached[k]] = src[attached[k]] BY <1>18, ZenonT(30)
  <2>2. src[attached[k]].kind = k /\ src[attached[k]].cache = caches
        /\ (src[attached[k]].cancelled => src[attached[k]].handler = "done")
    BY <2>1 DEF ContentInv, AttachedOK
  <2>3. caches' = caches BY <1>1, <1>4, <2>1
  <2> QED BY <2>1, <2>2, <2>3, Zenon
<1>20. HandlersOK'
  <2> SUFFICES ASSUME NEW i \in Sources'
               PROVE  /\ src'[i].wait = "failed" => src'[i].cancelled \/ src'[i].timedOut \/ src'[i].errored
                      /\ src'[i].errored => src'[i].handler # "none"
                      /\ src'[i].handler = "done" => src'[i].cancelled
    BY Zenon DEF HandlersOK
  <2>1. CASE i \in Sources
    <3>1. (src[i].errored => src[i].handler # "none") /\ (src[i].handler = "done" => src[i].cancelled)
      BY <2>1 DEF ContentInv, HandlersOK
    <3>2. src'[i] = old[i] BY <1>13, <2>1, Zenon
    <3> QED BY <1>9, <2>1, <3>1, <3>2, ZenonT(30)
  <2>2. CASE \E n \in 1..Len(new) : i = L + n BY <1>11, <1>13, <2>2, ZenonT(30)
  <2> QED BY <1>14, <2>1, <2>2, Zenon
<1>21. ASSUME NEW i \in Sources', src'[i].wait # "ended"
       PROVE  \E n \in 1..Len(new) : i = L + n /\ src'[i] = add[n]
  <2>1. i \notin Sources BY <1>9, <1>13, <1>21, ZenonT(30)
  <2>2. PICK n \in 1..Len(new) : i = L + n BY <1>14, <2>1
  <2> QED BY <1>13, <2>2, Zenon
<1>22. StartingOK'
  <2> SUFFICES ASSUME NEW i \in Sources', src'[i].wait # "ended"
               PROVE  /\ Locked' /\ attached'[src'[i].kind] = 0 /\ src'[i].cache = caches'
                      /\ src'[i].cancelled => src'[i].handler = "done"
                      /\ \A j \in Sources' : (src'[j].wait # "ended" /\ src'[j].kind = src'[i].kind) => i = j
    BY Zenon DEF StartingOK
  <2>1. PICK n \in 1..Len(new) : i = L + n /\ src'[i] = add[n] BY <1>21, Zenon
  <2>2. src'[i].kind = new[n] /\ src'[i].cache = created' /\ ~src'[i].cancelled BY <1>11, <2>1, ZenonT(30)
  <2>3. attached'[new[n]] = 0 BY <1>7, <1>15
  <2>4. ASSUME NEW j \in Sources', src'[j].wait # "ended", src'[j].kind = src'[i].kind PROVE i = j
    <3>1. PICK m \in 1..Len(new) : j = L + m /\ src'[j] = add[m] BY <1>21, <2>4, ZenonT(30)
    <3>2. new[m] = new[n] BY <1>11, <2>2, <2>4, <3>1, ZenonT(30)
    <3> QED BY <1>3, <2>1, <3>1, <3>2
  <2> QED BY <1>4, <1>16, <2>2, <2>3, <2>4, Zenon
<1>23. WatchOK'
  <2> SUFFICES ASSUME NEW k \in want
               PROVE  \/ attached'[k] # 0 \/ watching'.failed
                      \/ \E i \in Sources' : src'[i].wait # "ended" /\ src'[i].kind = k
    BY Zenon DEF WatchOK
  <2>1. CASE k \in have BY <1>2, <1>15, <2>1
  <2>2. CASE k \in unmapped
    <3>1. unmapped # {} BY <2>2
    <3>2. watching'.failed = (unmapped # {}) BY <1>5
    <3> QED BY <3>1, <3>2, Zenon
  <2>3. CASE k \in fresh
    <3>1. PICK n \in 1..Len(new) : new[n] = k BY <1>3, <2>3, Zenon
    <3> QED BY <1>11, <1>13, <1>14, <3>1, ZenonT(30)
  <2> QED BY <2>1, <2>2, <2>3, Zenon DEF fresh
<1>24. Noticed' BY <1>16, Zenon DEF Noticed
<1>25. DetachedIsStopped'
  <2> SUFFICES ASSUME NEW i \in Sources', ~src'[i].cancelled, src'[i].wait = "ended"
               PROVE  \/ \E k \in Kinds : attached'[k] = i
                      \/ src'[i].timedOut \/ src'[i].handler \in Failing
    BY Zenon DEF DetachedIsStopped, Failing
  <2>1. i \in Sources
    <3>1. ASSUME NEW n \in 1..Len(new), i = L + n PROVE FALSE BY <1>11, <1>13, <3>1, Zenon
    <3> QED BY <1>14, <3>1
  <2>2. i \notin stale /\ src'[i] = src[i] BY <1>9, <1>13, <2>1, ZenonT(30)
  <2>3. \/ \E k \in Kinds : attached[k] = i
        \/ src[i].timedOut \/ src[i].handler \in Failing
    BY <1>1, <2>1, <2>2, Zenon DEF ContentInv, DetachedIsStopped, Failing
  <2>4. ASSUME NEW k \in Kinds, attached[k] = i PROVE attached'[k] = i
    <3>1. i # 0 BY <2>1 DEF Sources
    <3>2. k \in have BY <2>4, <3>1
    <3>3. k \in want BY <2>2, <2>4, <3>2
    <3> QED BY <1>15, <2>4, <3>3
  <2> QED BY <2>2, <2>3, <2>4, Zenon
<1> QED BY <1>17, <1>19, <1>20, <1>22, <1>23, <1>24, <1>25 DEF ContentInv

\* A step that leaves the sources, the cache and the lock alone, and keeps the release or
\* has the owner reconciled again.
LEMMA OwnerStep ==
    ASSUME ContentInv, UNCHANGED <<caches, created, attached, src, watching>>,
           owner' \in {"absent", "present", "deleting"}, queue' \in BOOLEAN, muted' \in BOOLEAN,
           release' \subseteq Objects, drifted' \subseteq release',
           contentChanges' \in 0..MaxContentChanges, watchFaults' \in 0..MaxWatchFaults,
           release' = release \/ ~Locked,
           \/ owner' # "present" \/ queue' \/ muted'
           \/ UNCHANGED <<owner, release, queue, muted>>
    PROVE  ContentInv'
<1>1. Sources' = Sources /\ Locked' = Locked BY DEF Sources, Locked
<1>2. ContentTyped' BY Zenon DEF ContentInv, ContentTyped
<1>3. AttachedOK' BY Zenon DEF ContentInv, AttachedOK
<1>4. HandlersOK' /\ StartingOK' BY <1>1, Zenon DEF ContentInv, HandlersOK, StartingOK
<1>5. WatchOK' BY <1>1, Zenon DEF ContentInv, WatchOK
<1>6. Noticed'
  <2>1. CASE owner' # "present" \/ queue' \/ muted' BY <2>1, Zenon DEF Noticed
  <2>2. CASE UNCHANGED <<owner, release, queue, muted>>
    <3>1. owner' = owner /\ release' = release /\ queue' = queue /\ muted' = muted BY <2>2
    <3> QED BY <1>1, <3>1, Zenon DEF ContentInv, Noticed
  <2> QED BY <2>1, <2>2
<1>7. DetachedIsStopped' BY <1>1, Zenon DEF ContentInv, DetachedIsStopped
<1> QED BY <1>2, <1>3, <1>4, <1>5, <1>6, <1>7 DEF ContentInv

LEMMA ReconcileOwnerStep == ASSUME ContentInv, ReconcileOwner PROVE ContentInv'
<1>1. /\ queue /\ owner = "present" /\ ~Locked /\ UNCHANGED <<owner, release, contentChanges>>
  BY DEF ReconcileOwner
<1> PICK content \in BOOLEAN :
       \/ /\ drifted' = {} /\ queue' = FALSE /\ muted' = FALSE
          /\ GetCache /\ BeginWatch(content)
       \/ /\ WatchFault
          /\ \/ UNCHANGED <<queue, drifted, muted>>
             \/ /\ caches = 0
                /\ drifted' = {} /\ queue' = content /\ muted' = ~content
          /\ UNCHANGED <<caches, created, attached, src, watching>>
  BY Zenon DEF ReconcileOwner
<1>2. CASE /\ drifted' = {} /\ queue' = FALSE /\ muted' = FALSE
           /\ GetCache /\ BeginWatch(content)
  BY <1>1, <1>2, BeginWatchStep, Zenon
<1>3. CASE /\ WatchFault
           /\ \/ UNCHANGED <<queue, drifted, muted>>
              \/ /\ caches = 0
                 /\ drifted' = {} /\ queue' = content /\ muted' = ~content
           /\ UNCHANGED <<caches, created, attached, src, watching>>
  <2>1. watchFaults' \in 0..MaxWatchFaults BY <1>3, WatchFaultBound
  <2>2. /\ owner' \in {"absent", "present", "deleting"} /\ release' \subseteq Objects /\ release' = release
        /\ contentChanges' \in 0..MaxContentChanges
    BY <1>1, Zenon DEF ContentInv, ContentTyped
  <2>3. drifted' \subseteq release' BY <1>1, <1>3, Zenon DEF ContentInv, ContentTyped
  <2>4. CASE UNCHANGED <<queue, drifted, muted>>
    <3>1. queue' = queue /\ muted' = muted BY <2>4
    <3>2. queue' \in BOOLEAN /\ muted' \in BOOLEAN BY <3>1, Zenon DEF ContentInv, ContentTyped
    <3> QED BY <1>1, <1>3, <2>1, <2>2, <2>3, <3>1, <3>2, OwnerStep
  <2>5. CASE queue' = content /\ muted' = ~content
    <3>1. queue' \in BOOLEAN /\ muted' \in BOOLEAN /\ (queue' \/ muted') BY <2>5, Zenon
    <3> QED BY <1>1, <1>3, <2>1, <2>2, <2>3, <3>1, OwnerStep, Zenon
  <2> QED BY <1>3, <2>4, <2>5, Zenon
<1> QED BY <1>2, <1>3, Zenon

\* Watch ends: the sources that synced are attached.
LEMMA FinishWatchStep == ASSUME ContentInv, FinishWatch PROVE ContentInv'
<1> DEFINE mine == {i \in Sources : src[i].wait # "ended"}
           bad == {i \in mine : src[i].wait = "failed"}
           good(k) == {i \in mine \ bad : src[i].kind = k}
<1>1. /\ Locked
      /\ attached' = [k \in Kinds |-> IF \E i \in mine \ bad : src[i].kind = k
                                      THEN CHOOSE i \in mine \ bad : src[i].kind = k ELSE attached[k]]
      /\ src' = [i \in Sources |-> [src[i] EXCEPT !.wait = "ended"]]
      /\ queue' = (queue \/ (watching.report /\ (watching.failed \/ bad # {})))
      /\ muted' = (~watching.report /\ (watching.failed \/ bad # {}))
      /\ watching' = NotWatching
      /\ UNCHANGED <<owner, release, drifted, caches, created, contentChanges, watchFaults>>
  BY DEF FinishWatch
<1>2. /\ src \in Seq(SourceSet(created)) /\ attached \in [Kinds -> 0..Len(src)] /\ created \in Nat
      /\ \A i \in Sources : src[i] \in SourceSet(created)
      /\ \A k \in Kinds : attached[k] # 0 => attached[k] \in Sources /\ src[attached[k]].kind = k
  BY UnlockedFacts
<1>3. Locked' = FALSE /\ watching' \in [on: BOOLEAN, failed: BOOLEAN, report: BOOLEAN]
  BY <1>1 DEF Locked, NotWatching
<1>4. \A i \in Sources : /\ src'[i] \in SourceSet(created) /\ src'[i].wait = "ended"
                         /\ src'[i].kind = src[i].kind /\ src'[i].cache = src[i].cache
                         /\ src'[i].cancelled = src[i].cancelled /\ src'[i].timedOut = src[i].timedOut
                         /\ src'[i].handler = src[i].handler /\ src'[i].errored = src[i].errored
  <2> TAKE i \in Sources
  <2>1. src'[i] = [src[i] EXCEPT !.wait = "ended"] /\ src[i] \in SourceSet(created) BY <1>1, <1>2
  <2> QED BY <2>1 DEF SourceSet
<1>5. src' \in Seq(SourceSet(created)) /\ Len(src') = Len(src) BY <1>1, <1>2, <1>4 DEF Sources
<1>6. Sources' = Sources BY <1>5 DEF Sources
<1>7. ASSUME NEW i \in mine
      PROVE  /\ i \in Sources /\ src[i].kind \in Kinds /\ attached[src[i].kind] = 0 /\ src[i].cache = caches
             /\ src[i].cancelled => src[i].handler = "done"
             /\ \A j \in mine : src[j].kind = src[i].kind => i = j
  BY <1>2, <1>7 DEF ContentInv, StartingOK, SourceSet
<1>8. ASSUME NEW k \in Kinds, NEW i \in mine \ bad, src[i].kind = k PROVE attached'[k] = i
  <2>1. attached'[k] = CHOOSE j \in mine \ bad : src[j].kind = k BY <1>1, <1>8
  <2>2. \A j \in mine \ bad : src[j].kind = k => i = j BY <1>7, <1>8
  <2> HIDE DEF bad, mine
  <2> QED BY <1>8, <2>1, <2>2
<1>9. ASSUME NEW k \in Kinds, ~\E i \in mine \ bad : src[i].kind = k PROVE attached'[k] = attached[k]
  BY <1>1, <1>9
<1>10. attached' \in [Kinds -> 0..Len(src)]
  <2>1. \A k \in Kinds : attached'[k] \in 0..Len(src)
    <3> TAKE k \in Kinds
    <3>1. ASSUME NEW i \in mine \ bad, src[i].kind = k PROVE attached'[k] \in 0..Len(src)
      BY <1>2, <1>8, <3>1 DEF Sources
    <3>2. CASE ~\E i \in mine \ bad : src[i].kind = k BY <1>2, <1>9, <3>2
    <3> QED BY <3>1, <3>2
  <2> QED BY <1>1, <2>1
<1> HIDE DEF bad
<1>11. ContentTyped'
  <2>1. queue' \in BOOLEAN /\ muted' \in BOOLEAN BY <1>1 DEF ContentInv, ContentTyped
  <2>2. src' \in Seq(SourceSet(created')) /\ Len(src') <= MaxSources /\ attached' \in [Kinds -> 0..Len(src')]
    BY <1>1, <1>5, <1>10, ZenonT(30) DEF ContentInv, ContentTyped
  <2> QED BY <1>1, <1>3, <2>1, <2>2, Zenon DEF ContentInv, ContentTyped
<1>12. AttachedOK'
  <2> SUFFICES ASSUME NEW k \in Kinds, attached'[k] # 0
               PROVE  /\ src'[attached'[k]].kind = k /\ src'[attached'[k]].cache = caches
                      /\ src'[attached'[k]].cancelled => src'[attached'[k]].handler = "done"
    BY <1>1, Zenon DEF AttachedOK
  <2>1. ASSUME NEW i \in mine \ bad, src[i].kind = k
        PROVE  /\ src'[attached'[k]].kind = k /\ src'[attached'[k]].cache = caches
               /\ src'[attached'[k]].cancelled => src'[attached'[k]].handler = "done"
    BY <1>4, <1>7, <1>8, <2>1
  <2>2. CASE ~\E i \in mine \ bad : src[i].kind = k
    <3>1. attached'[k] = attached[k] BY <1>9, <2>2
    <3>2. src[attached[k]].kind = k /\ src[attached[k]].cache = caches
          /\ (src[attached[k]].cancelled => src[attached[k]].handler = "done")
      BY <3>1 DEF ContentInv, AttachedOK
    <3>3. attached[k] \in Sources BY <1>2, <3>1
    <3> QED BY <1>4, <3>1, <3>2, <3>3
  <2> QED BY <2>1, <2>2
<1>13. HandlersOK'
  BY <1>4, <1>6 DEF ContentInv, HandlersOK
<1>14. StartingOK' BY <1>4, <1>6 DEF StartingOK
<1>15. WatchOK' BY <1>3, Zenon DEF WatchOK
<1>16. Noticed'
  <2> SUFFICES ASSUME ~queue', ~muted', NEW k \in gvksForObjects(release)
               PROVE  attached'[k] # 0
    BY <1>1, Zenon DEF Noticed
  <2>1. ~watching.failed /\ bad = {}
    <3>1. watching.report \in BOOLEAN BY DEF ContentInv, ContentTyped
    <3> QED BY <1>1, <3>1, ZenonT(30)
  <2>2. k \in Kinds BY DEF ContentInv, ContentTyped, gvksForObjects, Kinds
  <2>3. \/ attached[k] # 0
        \/ \E i \in mine \ bad : src[i].kind = k
    BY <1>1, <2>1 DEF ContentInv, WatchOK
  <2>4. ASSUME NEW i \in mine \ bad, src[i].kind = k PROVE attached'[k] # 0
    BY <1>8, <2>2, <2>4 DEF Sources
  <2> QED BY <1>9, <2>2, <2>3, <2>4
<1>17. DetachedIsStopped'
  <2> SUFFICES ASSUME NEW i \in Sources, ~src[i].cancelled
               PROVE  \/ \E k \in Kinds : attached'[k] = i
                      \/ src[i].timedOut \/ src[i].handler \in Failing
    BY <1>4, <1>6, Zenon DEF DetachedIsStopped, Failing
  <2>1. \/ \E k \in Kinds : attached[k] = i
        \/ src[i].wait # "ended" \/ src[i].timedOut \/ src[i].handler \in Failing
    BY Zenon DEF ContentInv, DetachedIsStopped, Failing
  <2>2. ASSUME NEW k \in Kinds, attached[k] = i PROVE attached'[k] = i
    <3>1. attached[k] # 0 BY <2>2 DEF Sources
    <3>2. ~\E j \in mine \ bad : src[j].kind = k BY <1>7, <3>1
    <3> QED BY <1>9, <2>2, <3>2
  <2>3. CASE i \in mine \ bad
    <3>1. src[i].kind \in Kinds BY <1>7, <2>3
    <3> QED BY <1>8, <2>3, <3>1
  <2>4. CASE i \in bad
    <3>1. src[i].timedOut \/ src[i].errored BY <2>4 DEF ContentInv, HandlersOK, bad
    <3>2. src[i].errored => src[i].handler \notin {"none", "done"} BY DEF ContentInv, HandlersOK
    <3>3. src[i].handler \in Failing \cup {"none", "done"} BY <1>2 DEF SourceSet
    <3> QED BY <3>1, <3>2, <3>3
  <2> QED BY <2>1, <2>2, <2>3, <2>4
<1> QED BY <1>11, <1>12, <1>13, <1>14, <1>15, <1>16, <1>17 DEF ContentInv

LEMMA UserSteps == ASSUME ContentInv, NewRelease \/ DeleteOwner \/ Drift \/ ReconcileAbsent PROVE ContentInv'
<1>1. /\ UNCHANGED <<caches, created, attached, src, watching>> /\ muted' = muted /\ watchFaults' = watchFaults
  BY DEF NewRelease, DeleteOwner, Drift, ReconcileAbsent, UnchangedByUsers
<1>2. contentChanges' \in 0..MaxContentChanges
  BY ContentBoundsAssumption
     DEF NewRelease, DeleteOwner, Drift, ReconcileAbsent, ContentChange, ContentInv, ContentTyped
<1>3. muted' \in BOOLEAN /\ watchFaults' \in 0..MaxWatchFaults BY <1>1, Zenon DEF ContentInv, ContentTyped
<1>4. owner' \in {"absent", "present", "deleting"} /\ release' \subseteq Objects /\ drifted' \subseteq release'
  BY DEF NewRelease, DeleteOwner, Drift, ReconcileAbsent, ContentInv, ContentTyped
<1>5. queue' \in BOOLEAN /\ (release' = release \/ ~Locked)
  <2>1. queue' = TRUE \/ queue' = FALSE \/ queue' = queue
    BY DEF NewRelease, DeleteOwner, Drift, ReconcileAbsent
  <2>2. queue' \in BOOLEAN BY <2>1, Zenon DEF ContentInv, ContentTyped
  <2> QED BY <2>2 DEF NewRelease, DeleteOwner, Drift, ReconcileAbsent
<1>6. \/ owner' # "present" \/ queue' \/ muted'
      \/ UNCHANGED <<owner, release, queue, muted>>
  BY <1>1 DEF NewRelease, DeleteOwner, Drift, ReconcileAbsent
<1> QED BY <1>1, <1>2, <1>3, <1>4, <1>5, <1>6, OwnerStep

LEMMA ContentStepHolds == ASSUME ContentInv, [ContentNext]_contentVars PROVE ContentInv'
<1>1. CASE ReconcileStep BY <1>1, ReconcileOwnerStep, FinishWatchStep, DeleteContentStep, UserSteps DEF ReconcileStep
<1>2. ASSUME NEW i \in Sources, SourceStep(i) \/ Synced(i) \/ WatchError(i) PROVE ContentInv'
  BY <1>2, SyncedStep, SendStep, WaitForSyncStep, SyncTimeoutStep, DeliverStep, WatchErrorStep,
     CheckSyncedStep, OnPostSyncErrorStep, CancelInformerStep DEF SourceStep
<1>3. CASE UNCHANGED contentVars
  <2>1. /\ UNCHANGED <<caches, created, attached, src, watching>>
        /\ UNCHANGED <<owner, release, queue, muted>>
        /\ drifted' = drifted /\ contentChanges' = contentChanges /\ watchFaults' = watchFaults
    BY <1>3 DEF contentVars
  <2>2. /\ owner' \in {"absent", "present", "deleting"} /\ queue' \in BOOLEAN /\ muted' \in BOOLEAN
        /\ release' \subseteq Objects /\ drifted' \subseteq release'
        /\ contentChanges' \in 0..MaxContentChanges /\ watchFaults' \in 0..MaxWatchFaults
    BY <2>1, Zenon DEF ContentInv, ContentTyped
  <2> QED BY <2>1, <2>2, OwnerStep
<1> QED BY <1>1, <1>2, <1>3, UserSteps DEF ContentNext

-----------------------------------------------------------------------------
(* The theorems on the content manager                                      *)

\* The inductive invariant of the content manager: what Watch, Delete and the error
\* handlers of the sources leave for one another.
THEOREM ContentInvariant == ContentSpec => []ContentInv
<1>1. ContentInit => ContentInv BY ContentStarts
<1>2. ContentInv /\ [ContentNext]_contentVars => ContentInv' BY ContentStepHolds
<1> QED BY <1>1, <1>2, PTL DEF ContentSpec

\* The variables keep their types, and a source in the cache is one of its kind, started
\* for this owner's cache and not for an earlier one (Watch, Delete, Get).
THEOREM ContentTypeCorrect == ContentSpec => []ContentTypeOK
<1>1. ContentInv => ContentTypeOK
  <2> SUFFICES ASSUME ContentInv PROVE ContentTypeOK OBVIOUS
  <2>1. \A k \in Kinds : attached[k] # 0 => /\ attached[k] \in Sources
                                            /\ src[attached[k]].kind = k /\ src[attached[k]].cache = caches
    BY UnlockedFacts DEF ContentInv, AttachedOK
  <2> QED BY <2>1, Zenon DEF ContentInv, ContentTyped, ContentTypeOK
<1> QED BY <1>1, ContentInvariant, PTL

\* Nothing runs that nobody will stop, and nothing has stopped that nobody will start
\* again: also when errors arrive while Watch waits, while Delete runs, or for a source
\* that was replaced (onPostSyncError, startNewSources, removeStaleSources, Close).
THEOREM WatchesAccounted == ContentSpec => []WatchesAreAccountedFor
<1>1. ContentInv => WatchesAreAccountedFor
  <2> SUFFICES ASSUME ContentInv PROVE WatchesAreAccountedFor OBVIOUS
  <2>1. ASSUME NEW k \in Kinds, attached[k] # 0
        PROVE  \/ Attached(k)
               \/ \E i \in Sources : src[i].kind = k /\ src[i].handler \in {"check", "callback", "requeue"}
               \/ attached[k] # 0 /\ DeadOnArrival(attached[k])
    <3>1. attached[k] \in Sources /\ src[attached[k]].kind = k BY <2>1, UnlockedFacts
    <3>2. src[attached[k]].handler \in Failing \cup {"none", "done"} BY <3>1, UnlockedFacts DEF SourceSet
    <3>3. src[attached[k]].cancelled => src[attached[k]].handler = "done" BY <2>1 DEF ContentInv, AttachedOK
    <3>4. CASE src[attached[k]].handler = "none"
      <4>1. ~src[attached[k]].cancelled BY <3>3, <3>4
      <4> QED BY <2>1, <3>4, <4>1 DEF Attached, Live
    <3>5. CASE src[attached[k]].handler \in {"cancel", "done"} BY <2>1, <3>5 DEF DeadOnArrival
    <3>6. CASE src[attached[k]].handler \in {"check", "callback", "requeue"} BY <3>1, <3>6
    <3> QED BY <3>2, <3>4, <3>5, <3>6 DEF Failing
  <2>2. gvksForObjects(release) \subseteq Kinds BY DEF ContentInv, ContentTyped, gvksForObjects, Kinds
  <2>3. LostWatchIsRequeued BY <2>1, <2>2 DEF ContentInv, Noticed, LostWatchIsRequeued
  <2> QED BY <2>3 DEF ContentInv, WatchesAreAccountedFor
<1> QED BY <1>1, ContentInvariant, PTL

(***************************************************************************)
(* operator-controller's copy of a catalog, for any images and any number  *)
(* of changes, failures and restarts                                       *)
(***************************************************************************)

Optional == Images \cup {NoImage}
Views == [exists: BOOLEAN, ref: Optional]
Entries == [ref: Optional, failed: BOOLEAN]
Populations == [pc: {"idle", "request", "write", "rename"}, ref: Optional, body: Optional]
Readers == [pc: {"idle", "walk", "load"}, first: Optional,
            result: Images \cup {"error", "absent", "mixed"}]

LEMMA CacheTypes ==
    CacheTypeOK <=> /\ service \in Services /\ seen \in Views /\ request \in BOOLEAN
                    /\ entry \in Entries /\ dir \in Optional /\ populate \in Populations
                    /\ populate.pc \in {"write", "rename"} => populate.body # NoImage
                    /\ reader \in Readers
                    /\ swaps \in 0..MaxSwaps /\ downloadFaults \in 0..MaxDownloadFaults
BY DEF CacheTypeOK, Views, Entries, Populations, Readers, Optional

\* A population has the reference it was started for, a reader what it read first.
WorkIsNamed ==
    /\ populate.pc # "idle" => populate.ref # NoImage
    /\ reader.pc = "load" => reader.first # NoImage

\* The inductive invariant.
CacheInvariant == CacheTypeOK /\ WorkIsNamed /\ EntryMatchesDir

LEMMA CacheConstructors ==
    /\ NoImage \in Optional /\ Unserved \in Services /\ NoEntry \in Entries
    /\ NotPopulating \in Populations /\ NotReading \in Readers
    /\ \A i \in Images : [NotReading EXCEPT !.result = i] \in Readers
    /\ [NotReading EXCEPT !.result = "absent"] \in Readers
    /\ [NotReading EXCEPT !.result = "mixed"] \in Readers
    /\ [NotReading EXCEPT !.pc = "walk"] \in Readers
BY DEF Optional, Unserved, Services, NoEntry, Entries, NotPopulating, Populations, NotReading, Readers

LEMMA SeenType == service \in Services => Seen \in Views
BY DEF Services, Seen, Views, Optional

LEMMA CacheStarts == CacheInit => CacheInvariant
<1> SUFFICES ASSUME CacheInit PROVE CacheInvariant OBVIOUS
<1>1. /\ service \in Services /\ seen \in Views /\ entry \in Entries /\ dir \in Optional
      /\ populate \in Populations /\ reader \in Readers
  BY CacheConstructors, SeenType DEF CacheInit
<1>2. populate.pc = "idle" /\ reader.pc = "idle" /\ entry = NoEntry /\ dir = NoImage
  BY DEF CacheInit, NotPopulating, NotReading
<1>3. /\ swaps \in 0..MaxSwaps /\ downloadFaults \in 0..MaxDownloadFaults
      /\ request \in BOOLEAN
  <2>1. swaps = 0 /\ downloadFaults = 0 /\ request = FALSE BY DEF CacheInit
  <2>2. 0 \in 0..MaxSwaps /\ 0 \in 0..MaxDownloadFaults BY CacheBoundsAssumption
  <2> QED BY <2>1, <2>2, Zenon
<1>4. CacheTypeOK BY <1>1, <1>2, <1>3, CacheTypes, Zenon
<1> QED BY <1>2, <1>4 DEF CacheInvariant, WorkIsNamed, EntryMatchesDir

\* A failure stays within its bound.
LEMMA DownloadFaults ==
    ASSUME CacheTypeOK, DownloadFault \/ UNCHANGED downloadFaults
    PROVE  downloadFaults' \in 0..MaxDownloadFaults
BY CacheTypes, CacheBoundsAssumption DEF DownloadFault

\* Put of an error is a proper entry, and ends the population.
LEMMA PutFailed ==
    ASSUME CacheTypeOK, Put(populate.ref, TRUE)
    PROVE  /\ entry' \in Entries /\ entry' # NoEntry /\ entry'.failed
           /\ populate' \in Populations /\ populate'.pc = "idle" /\ request' \in BOOLEAN
<1>1. populate.ref \in Optional /\ request \in BOOLEAN BY CacheTypes DEF Populations
<1>2. entry' \in Entries /\ entry' # NoEntry /\ entry'.failed
  BY <1>1 DEF Put, Entries, NoEntry
<1> QED BY <1>1, <1>2, CacheConstructors DEF Put, NotPopulating

LEMMA ReconcileCatalogStep ==
    ASSUME CacheInvariant, ReconcileCatalog PROVE CacheInvariant'
<1> USE DEF CacheInvariant
<1>1. /\ entry \in Entries /\ dir \in Optional /\ populate \in Populations /\ seen \in Views
      /\ populate.pc = "idle"
  BY CacheTypes DEF ReconcileCatalog
<1>2. CASE RemoveCache
  <2>1. /\ entry' \in Entries /\ dir' \in Optional /\ request' \in BOOLEAN /\ populate' = populate
        /\ EntryMatchesDir'
    BY <1>1, <1>2, CacheConstructors, Zenon DEF RemoveCache, EntryMatchesDir
  <2>2. downloadFaults' \in 0..MaxDownloadFaults BY <1>2, DownloadFaults DEF RemoveCache
  <2> QED BY <1>1, <2>1, <2>2, CacheTypes DEF ReconcileCatalog, CacheTypeOK, WorkIsNamed,
             Entries, Populations, Optional
<1>3. CASE SkipOrStart
  <2>1. \/ populate' = populate
        \/ /\ populate' = [NotPopulating EXCEPT !.pc = "request", !.ref = seen.ref]
           /\ seen.ref # NoImage
    BY <1>3 DEF SkipOrStart
  <2>2. /\ populate' \in Populations /\ populate'.pc \in {"idle", "request"}
        /\ populate'.pc # "idle" => populate'.ref # NoImage
    <3>1. seen.ref \in Optional /\ NoImage \in Optional BY <1>1, CacheConstructors DEF Views
    <3>2. CASE populate' = populate BY <1>1, <3>2
    <3>3. CASE populate' = [pc |-> "request", ref |-> seen.ref, body |-> NoImage]
               /\ seen.ref # NoImage
      BY <3>1, <3>3 DEF Populations
    <3> QED BY <2>1, <3>2, <3>3, Zenon DEF NotPopulating
  <2>3. EntryMatchesDir' BY <1>1, <1>3, <2>2 DEF SkipOrStart, EntryMatchesDir
  <2> QED BY <1>3, <2>2, <2>3, Zenon DEF SkipOrStart, ReconcileCatalog, CacheTypeOK, WorkIsNamed,
             Populations, Optional
<1> QED BY <1>2, <1>3 DEF ReconcileCatalog

LEMMA PopulateCacheStep ==
    ASSUME CacheInvariant, PopulateCache PROVE CacheInvariant'
<1> USE DEF CacheInvariant
<1>1. /\ entry \in Entries /\ dir \in Optional /\ populate \in Populations
      /\ service \in Services /\ service.served \in Optional
      /\ populate.pc = "request" /\ populate.ref # NoImage
  BY CacheTypes DEF PopulateCache, Services, Optional, WorkIsNamed
<1>2. downloadFaults' \in 0..MaxDownloadFaults BY DownloadFaults, Zenon DEF PopulateCache
<1>3. CASE Put(populate.ref, TRUE)
  <2>1. EntryMatchesDir' BY <1>3, PutFailed DEF PopulateCache, EntryMatchesDir
  <2> QED BY <1>2, <1>3, <2>1, PutFailed DEF PopulateCache, CacheTypeOK, WorkIsNamed,
             Entries, Populations, Optional
<1>4. CASE /\ service.served # NoImage
           /\ populate' = [populate EXCEPT !.pc = "write", !.body = service.served]
           /\ UNCHANGED <<entry, request>>
  <2>1. /\ populate' \in Populations /\ populate'.pc = "write" /\ populate'.body # NoImage
        /\ populate'.ref = populate.ref
    BY <1>1, <1>4, Zenon DEF Populations
  <2>2. EntryMatchesDir' BY <1>1, <1>4, <2>1 DEF PopulateCache, EntryMatchesDir
  <2> QED BY <1>1, <1>2, <1>4, <2>1, <2>2 DEF PopulateCache, CacheTypeOK, WorkIsNamed,
             Populations, Optional
<1> QED BY <1>3, <1>4, Zenon DEF PopulateCache

LEMMA RemoveOldCacheStep ==
    ASSUME CacheInvariant, RemoveOldCache PROVE CacheInvariant'
<1> USE DEF CacheInvariant
<1>1. /\ entry \in Entries /\ dir \in Optional /\ populate \in Populations
      /\ populate.pc = "write" /\ populate.ref # NoImage /\ populate.body # NoImage
  BY CacheTypes DEF RemoveOldCache, WorkIsNamed
<1>2. downloadFaults' \in 0..MaxDownloadFaults BY DownloadFaults, Zenon DEF RemoveOldCache
<1>3. CASE Put(populate.ref, TRUE) /\ UNCHANGED dir
  <2>1. EntryMatchesDir' BY <1>3, PutFailed DEF EntryMatchesDir
  <2> QED BY <1>2, <1>3, <2>1, PutFailed DEF RemoveOldCache, CacheTypeOK, WorkIsNamed,
             Entries, Populations, Optional
<1>4. CASE /\ dir' = NoImage /\ populate' = [populate EXCEPT !.pc = "rename"]
           /\ UNCHANGED <<entry, request>>
  <2>1. /\ populate' \in Populations /\ populate'.pc = "rename"
        /\ populate'.body = populate.body /\ populate'.ref = populate.ref
    BY <1>1, <1>4 DEF Populations
  <2>2. EntryMatchesDir' BY <1>4, <2>1 DEF EntryMatchesDir
  <2> QED BY <1>1, <1>2, <1>4, <2>1, <2>2 DEF RemoveOldCache, CacheTypeOK, WorkIsNamed,
             Populations, Optional
<1> QED BY <1>3, <1>4, Zenon DEF RemoveOldCache

LEMMA RenameCacheStep ==
    ASSUME CacheInvariant, RenameCache PROVE CacheInvariant'
<1> USE DEF CacheInvariant
<1>1. /\ entry \in Entries /\ dir \in Optional /\ populate \in Populations
      /\ populate.pc = "rename" /\ populate.ref # NoImage /\ populate.body # NoImage
  BY CacheTypes DEF RenameCache, WorkIsNamed
<1>2. downloadFaults' \in 0..MaxDownloadFaults BY DownloadFaults, Zenon DEF RenameCache
<1>3. CASE Put(populate.ref, TRUE) /\ UNCHANGED dir
  <2>1. EntryMatchesDir' BY <1>3, PutFailed DEF EntryMatchesDir
  <2> QED BY <1>2, <1>3, <2>1, PutFailed DEF RenameCache, CacheTypeOK, WorkIsNamed,
             Entries, Populations, Optional
<1>4. CASE dir' = populate.body /\ Put(populate.ref, FALSE)
  <2>1. dir' \in Optional /\ dir' # NoImage BY <1>1, <1>4 DEF Populations
  <2>2. entry' \in Entries /\ entry' # NoEntry
    BY <1>1, <1>4 DEF Put, Populations, Entries, NoEntry
  <2>3. populate' \in Populations /\ populate'.pc = "idle" /\ request' \in BOOLEAN
    BY <1>4, CacheConstructors, CacheTypes DEF Put, NotPopulating
  <2>4. EntryMatchesDir' BY <2>1, <2>2 DEF EntryMatchesDir
  <2> QED BY <1>2, <2>1, <2>2, <2>3, <2>4 DEF RenameCache, CacheTypeOK, WorkIsNamed,
             Entries, Populations, Optional
<1> QED BY <1>3, <1>4, Zenon DEF RenameCache

LEMMA ReadSteps ==
    ASSUME CacheInvariant, ReadStep PROVE CacheInvariant'
<1> USE DEF CacheInvariant
<1>1. /\ UNCHANGED <<service, seen, request, entry, dir, populate, swaps, downloadFaults>>
      /\ reader \in Readers /\ dir \in Optional
  BY CacheTypes DEF ReadStep, StartRead, WalkPackage, LoadPackage
<1>2. reader' \in Readers /\ (reader'.pc = "load" => reader'.first # NoImage)
  <2>1. CASE StartRead BY <2>1, CacheConstructors DEF StartRead, NotReading
  <2>2. CASE WalkPackage
    <3>1. CASE dir = NoImage
      BY <2>2, <3>1, CacheConstructors DEF WalkPackage, NotReading
    <3>2. CASE dir # NoImage
      BY <1>1, <2>2, <3>2, Zenon DEF WalkPackage, Readers
    <3> QED BY <3>1, <3>2
  <2>3. CASE LoadPackage
    <3>1. reader.first # NoImage BY <2>3 DEF LoadPackage, WorkIsNamed
    <3>2. CASE dir = NoImage
      <4>1. reader' = [NotReading EXCEPT !.result = "absent"]
        BY <2>3, <3>1, <3>2 DEF LoadPackage
      <4> QED BY <4>1, CacheConstructors DEF NotReading
    <3>3. CASE dir # NoImage /\ dir = reader.first
      <4>1. reader' = [NotReading EXCEPT !.result = dir] BY <2>3, <3>3 DEF LoadPackage
      <4>2. dir \in Images BY <1>1, <3>3 DEF Optional
      <4> QED BY <4>1, <4>2, CacheConstructors DEF NotReading
    <3>4. CASE dir # NoImage /\ dir # reader.first
      <4>1. reader' = [NotReading EXCEPT !.result = "mixed"] BY <2>3, <3>4 DEF LoadPackage
      <4> QED BY <4>1, CacheConstructors DEF NotReading
    <3> QED BY <3>2, <3>3, <3>4
  <2> QED BY <2>1, <2>2, <2>3 DEF ReadStep
<1> QED BY <1>1, <1>2 DEF CacheTypeOK, WorkIsNamed, EntryMatchesDir, Readers, Optional

LEMMA EnvironmentSteps ==
    ASSUME CacheInvariant, ServiceChanges \/ SyncCatalog \/ ResyncCatalog \/ RestartOperator
    PROVE  CacheInvariant'
<1> USE DEF CacheInvariant
<1>1. service \in Services BY CacheTypes
<1>2. CASE ServiceChanges
  <2>1. service' \in Services
    BY <1>1, <1>2, Zenon DEF ServiceChanges, ServiceStep, Store, Report, NotServing, Appear, Disappear,
                      Services
  <2>2. swaps' \in 0..MaxSwaps
    BY <1>2, CacheTypes, CacheBoundsAssumption DEF ServiceChanges
  <2> QED BY <1>2, <2>1, <2>2 DEF ServiceChanges, CacheTypeOK, WorkIsNamed, EntryMatchesDir
<1>3. CASE SyncCatalog
  BY <1>1, <1>3, SeenType DEF SyncCatalog, CacheTypeOK, WorkIsNamed, EntryMatchesDir, Views, Optional
<1>4. CASE ResyncCatalog
  BY <1>4 DEF ResyncCatalog, CacheTypeOK, WorkIsNamed, EntryMatchesDir
<1>5. CASE RestartOperator
  <2>1. /\ seen' \in Views /\ request' \in BOOLEAN /\ entry' \in Entries /\ dir' \in Optional
        /\ populate' \in Populations /\ reader' \in Readers
        /\ populate'.pc = "idle" /\ reader'.pc = "idle"
    BY <1>1, <1>5, SeenType, CacheConstructors
       DEF RestartOperator, Services, NotPopulating, NotReading
  <2>2. downloadFaults' \in 0..MaxDownloadFaults BY <1>5, DownloadFaults DEF RestartOperator
  <2>3. EntryMatchesDir' BY <1>5 DEF RestartOperator, EntryMatchesDir
  <2> QED BY <1>5, <2>1, <2>2, <2>3 DEF RestartOperator, CacheTypeOK, WorkIsNamed,
             Views, Entries, Populations, Readers, Optional
<1> QED BY <1>2, <1>3, <1>4, <1>5

LEMMA CacheInvariantStep == CacheInvariant /\ [CacheNext]_cacheVars => CacheInvariant'
<1> SUFFICES ASSUME CacheInvariant, [CacheNext]_cacheVars PROVE CacheInvariant' OBVIOUS
<1>1. CASE CacheStep
  BY <1>1, ReconcileCatalogStep, PopulateCacheStep, RemoveOldCacheStep, RenameCacheStep
     DEF CacheStep
<1>2. CASE ReadStep BY <1>2, ReadSteps
<1>3. CASE ServiceChanges \/ SyncCatalog \/ ResyncCatalog \/ RestartOperator
  BY <1>3, EnvironmentSteps
<1>4. CASE UNCHANGED cacheVars
  BY <1>4 DEF cacheVars, CacheInvariant, CacheTypeOK, WorkIsNamed, EntryMatchesDir
<1> QED BY <1>1, <1>2, <1>3, <1>4 DEF CacheNext

\* The variables keep their types; in particular nothing but content is written to
\* the directory, and a package is read from images.
THEOREM CacheTypeCorrect == CacheSpec => []CacheTypeOK
<1>1. CacheInvariant => CacheTypeOK BY DEF CacheInvariant
<1> QED BY <1>1, CacheStarts, CacheInvariantStep, PTL DEF CacheSpec

\* Whatever fails or restarts: what is on disk can be found by Remove, and an entry
\* without an error stands for a directory, except in the middle of a swap.
THEOREM EntriesMatchDirs == CacheSpec => []EntryMatchesDir
<1>1. CacheInvariant => EntryMatchesDir BY DEF CacheInvariant
<1> QED BY <1>1, CacheStarts, CacheInvariantStep, PTL DEF CacheSpec
=============================================================================
