---------------------------- MODULE CatalogCache ----------------------------
(***************************************************************************)
(* operator-controller's copy of a catalog: its ClusterCatalog controller   *)
(* downloads the content catalogd serves into a cache directory, under the  *)
(* reference the catalog's status names, and resolution reads the package   *)
(* from that directory.  The controller sees the catalog through an         *)
(* informer that lags; the cache's lock covers Put, Remove and Get, not the *)
(* reading of the files that Get hands out.                                 *)
(***************************************************************************)
EXTENDS Naturals, CatalogService

CONSTANTS
    MaxSwaps,    \* bound: changes of the catalog and of what is served
    MaxDownloadFaults  \* bound: failed downloads, writes and removals, and restarts

ASSUME CacheBoundsAssumption == MaxSwaps \in Nat /\ MaxDownloadFaults \in Nat

VARIABLES
    service,   \* the catalog, as its clients see it
    seen,      \* the informer's copy: whether the catalog exists, and its reference
    request,   \* a queued reconcile request
    entry,     \* cacheDataByCatalogName
    dir,       \* the image the cache directory was filled from
    populate,  \* the population in progress
    reader,    \* a resolution reading the package
    swaps, downloadFaults

cacheVars == <<service, seen, request, entry, dir, populate, reader, swaps, downloadFaults>>

Seen == [exists |-> service.exists, ref |-> service.ref]
NoEntry == [ref |-> NoImage, failed |-> FALSE]
NotPopulating == [pc |-> "idle", ref |-> NoImage, body |-> NoImage]
\* GetPackage: what its two reads found; it ends with an image, an error, no
\* such package ("absent"), or parts of two images ("mixed").
NotReading == [pc |-> "idle", first |-> NoImage, result |-> "error"]

CacheInit ==
    /\ service = Unserved
    /\ seen = Seen /\ request = FALSE
    /\ entry = NoEntry /\ dir = NoImage
    /\ populate = NotPopulating /\ reader = NotReading
    /\ swaps = 0 /\ downloadFaults = 0

DownloadFault == downloadFaults < MaxDownloadFaults /\ downloadFaults' = downloadFaults + 1
\* The write lock of the cache is held from the first byte written to the rename.
WriteLocked == populate.pc \in {"write", "rename"}
\* Get: the directory, a cached error, or nothing.
Get(ref) ==
    CASE entry = NoEntry \/ entry.ref # ref -> "missing"
      [] entry.ref = ref /\ entry.failed -> "error"
      [] OTHER -> "cached"

-----------------------------------------------------------------------------
(* The ClusterCatalog controller                                            *)

\* Put ends: the entry is replaced, whatever it was; an error is retried.
Put(ref, failed) ==
    /\ entry' = [ref |-> ref, failed |-> failed]
    /\ populate' = NotPopulating
    /\ request' = (failed \/ request)

\* mutant: the entry is dropped although the directory could not be removed
RemoveCacheInAnyCase ==
    /\ ~seen.exists
    /\ \/ dir' = NoImage /\ entry' = NoEntry /\ request' = FALSE /\ UNCHANGED downloadFaults
       \/ /\ entry # NoEntry /\ DownloadFault
          /\ entry' = NoEntry /\ request' = FALSE /\ UNCHANGED dir
    /\ UNCHANGED populate
\* The catalog is gone: so is what was cached for it.
RemoveCache ==
    /\ ~seen.exists
    /\ \/ /\ dir' = IF entry = NoEntry THEN dir ELSE NoImage
          /\ entry' = NoEntry /\ request' = FALSE /\ UNCHANGED downloadFaults
       \/ /\ entry # NoEntry /\ DownloadFault
          /\ request' = TRUE /\ UNCHANGED <<entry, dir>>
    /\ UNCHANGED populate
\* mutant: a cached error counts as cached
NeedsPopulationOnce == Get(seen.ref) = "missing"
\* Errors are populated again; what is cached is left alone.
NeedsPopulation == Get(seen.ref) # "cached"
SkipOrStart ==
    /\ seen.exists
    /\ request' = FALSE
    /\ populate' = IF seen.ref # NoImage /\ NeedsPopulation
                   THEN [NotPopulating EXCEPT !.pc = "request", !.ref = seen.ref] ELSE populate
    /\ UNCHANGED <<entry, dir, downloadFaults>>
ReconcileCatalog ==
    /\ request /\ populate.pc = "idle"
    /\ RemoveCache \/ SkipOrStart
    /\ UNCHANGED <<service, seen, reader, swaps>>

\* doRequest: the content served now, whatever the reference; anything but an
\* answer with content is cached as an error.
PopulateCache ==
    /\ populate.pc = "request"
    /\ \/ /\ service.served # NoImage
          /\ populate' = [populate EXCEPT !.pc = "write", !.body = service.served]
          /\ UNCHANGED <<entry, request, downloadFaults>>
       \/ /\ IF service.served = NoImage THEN UNCHANGED downloadFaults ELSE DownloadFault
          /\ Put(populate.ref, TRUE)
    /\ UNCHANGED <<service, seen, dir, reader, swaps>>

\* writeFS: the content goes to a temporary directory, the old directory is
\* removed and the new one renamed.
RemoveOldCache ==
    /\ populate.pc = "write"
    /\ \/ /\ dir' = NoImage
          /\ populate' = [populate EXCEPT !.pc = "rename"]
          /\ UNCHANGED <<entry, request, downloadFaults>>
       \/ /\ DownloadFault
          /\ Put(populate.ref, TRUE)
          /\ UNCHANGED dir
    /\ UNCHANGED <<service, seen, reader, swaps>>
RenameCache ==
    /\ populate.pc = "rename"
    /\ \/ /\ dir' = populate.body
          /\ Put(populate.ref, FALSE)
          /\ UNCHANGED downloadFaults
       \/ /\ DownloadFault
          /\ Put(populate.ref, TRUE)
          /\ UNCHANGED dir
    /\ UNCHANGED <<service, seen, reader, swaps>>

-----------------------------------------------------------------------------
(* Resolution                                                               *)

\* GetPackage: Get under the lock, then two reads of the directory without it.
StartRead ==
    /\ reader.pc = "idle" /\ ~WriteLocked
    /\ seen.exists /\ seen.ref # NoImage
    /\ reader' = IF Get(seen.ref) = "cached" THEN [NotReading EXCEPT !.pc = "walk"]
                 ELSE NotReading
    /\ UNCHANGED <<service, seen, request, entry, dir, populate, swaps, downloadFaults>>
\* A directory that is not there reads like a package that is not there.
WalkPackage ==
    /\ reader.pc = "walk"
    /\ reader' = IF dir = NoImage THEN [NotReading EXCEPT !.result = "absent"]
                 ELSE [reader EXCEPT !.pc = "load", !.first = dir]
    /\ UNCHANGED <<service, seen, request, entry, dir, populate, swaps, downloadFaults>>
LoadPackage ==
    /\ reader.pc = "load"
    /\ reader' = [NotReading EXCEPT !.result = CASE dir = NoImage -> "absent"
                                                 [] dir = reader.first -> dir
                                                 [] OTHER -> "mixed"]
    /\ UNCHANGED <<service, seen, request, entry, dir, populate, swaps, downloadFaults>>

-----------------------------------------------------------------------------
(* The environment                                                          *)

\* catalogd, and users who create and delete the catalog.
ServiceChanges ==
    /\ ServiceStep(service, service') /\ service' # service
    /\ swaps < MaxSwaps /\ swaps' = swaps + 1
    /\ UNCHANGED <<seen, request, entry, dir, populate, reader, downloadFaults>>
SyncCatalog ==
    /\ seen # Seen
    /\ seen' = Seen /\ request' = TRUE
    /\ UNCHANGED <<service, entry, dir, populate, reader, swaps, downloadFaults>>
ResyncCatalog ==
    /\ seen.exists /\ ~request
    /\ request' = TRUE
    /\ UNCHANGED <<service, seen, entry, dir, populate, reader, swaps, downloadFaults>>
\* main empties the cache directory; the map starts empty.
RestartOperator ==
    /\ DownloadFault
    /\ seen' = Seen /\ request' = service.exists
    /\ entry' = NoEntry /\ dir' = NoImage
    /\ populate' = NotPopulating /\ reader' = NotReading
    /\ UNCHANGED <<service, swaps>>

CacheStep == ReconcileCatalog \/ PopulateCache \/ RemoveOldCache \/ RenameCache
ReadStep == StartRead \/ WalkPackage \/ LoadPackage
CacheNext ==
    \/ CacheStep \/ ReadStep
    \/ ServiceChanges \/ SyncCatalog \/ ResyncCatalog \/ RestartOperator
CacheSpec == CacheInit /\ [][CacheNext]_cacheVars
FairCache ==
    /\ WF_cacheVars(CacheStep) /\ WF_cacheVars(SyncCatalog) /\ WF_cacheVars(ResyncCatalog)
FairCacheSpec == CacheSpec /\ FairCache

-----------------------------------------------------------------------------
\* Every variable has its type; what is being written is content, never an error page.
CacheTypeOK ==
    /\ service \in Services
    /\ seen \in [exists: BOOLEAN, ref: Images \cup {NoImage}] /\ request \in BOOLEAN
    /\ entry \in [ref: Images \cup {NoImage}, failed: BOOLEAN]
    /\ dir \in Images \cup {NoImage}
    /\ populate \in [pc: {"idle", "request", "write", "rename"}, ref: Images \cup {NoImage},
                     body: Images \cup {NoImage}]
    /\ populate.pc \in {"write", "rename"} => populate.body # NoImage
    /\ reader \in [pc: {"idle", "walk", "load"}, first: Images \cup {NoImage},
                   result: Images \cup {"error", "absent", "mixed"}]
    /\ swaps \in 0..MaxSwaps /\ downloadFaults \in 0..MaxDownloadFaults

\* Whatever is on disk has an entry in the map, by which alone Remove finds it, and
\* an entry without an error has a directory, except in the middle of a swap.
EntryMatchesDir ==
    /\ dir # NoImage => entry # NoEntry
    /\ (entry # NoEntry /\ ~entry.failed /\ populate.pc # "rename") => dir # NoImage

\* The cache comes to hold some content under the reference the status settles on, so
\* that resolution goes on: errors that were cached do not stay.  It is the content of
\* that reference if nothing else was ever downloaded under it; what was, served before
\* or after the status named the reference, stays there once it is cached, also when the
\* catalog comes back to the reference (PopulateCache, Get).
CacheFollowsStatus ==
    \A d \in Images :
      <>[](service = [exists |-> TRUE, ref |-> d, served |-> d])
        => /\ <>[](Get(d) = "cached" /\ dir # NoImage)
           /\ [](WriteLocked /\ populate.ref = d => populate.body = d) => <>[](dir = d)

\* What was cached of a catalog goes with the catalog.
RemovedWithCatalog == <>[]~service.exists => <>[](entry = NoEntry /\ dir = NoImage)

\* The cache follows the catalog: to the reference its status settles on, with content
\* under it that is the reference's own unless other content was downloaded under it,
\* and away with the catalog (the ClusterCatalog controller's Reconcile).
CacheFollowsCatalog == CacheFollowsStatus /\ RemovedWithCatalog
=============================================================================
