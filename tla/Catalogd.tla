------------------------------ MODULE Catalogd ------------------------------
(***************************************************************************)
(* catalogd: the ClusterCatalog controller unpacks a catalog's image, the   *)
(* LocalDirV1 storage swaps the content into the directory the HTTP server  *)
(* reads, the status says what is served, and the garbage collector sweeps  *)
(* the image cache and the content without taking a lock.  The controller   *)
(* reads ClusterCatalogs from an informer that lags; calls fail and the     *)
(* process restarts between any two steps.                                  *)
(***************************************************************************)
EXTENDS Naturals, FiniteSets, ImageCache

CONSTANTS
    Catalogs,    \* ClusterCatalog names
    MaxEvents,   \* bound: faults, and changes by users and of what the tag names
    MaxFaults    \* bound: failed calls, restarts, sweeps that meet an unpack or a Store

ASSUME CatalogsAssumption == IsFiniteSet(Catalogs)
ASSUME BoundsAssumption == MaxEvents \in Nat /\ MaxFaults \in Nat

None == "none"
Torn == "torn"   \* content made while its image was being unpacked
Lossy == "lossy" \* content made from an image that lost files while it was unpacked
NotFound == "404"
\* The markers are neither digests nor names of catalogs.
ASSUME MarkersAssumption ==
    None \notin Catalogs /\ Digests \cap {None, Torn, Lossy, NotFound} = {}

VARIABLES
    registry,  \* the digest the tag names
    api,       \* the ClusterCatalogs in the API server
    cached,    \* the informer's copy of them
    queue,     \* queued reconcile requests
    stored,    \* storedCatalogs, in memory
    due,       \* catalogs whose poll interval has elapsed
    unpacked,  \* the image cache: one directory per catalog
    content,   \* RootDir/<catalog>
    temp,      \* RootDir/.<catalog>-*
    work,      \* the reconcile in progress
    gc,        \* the collector's sweep in progress
    changes, faults

vars == <<registry, api, cached, queue, stored, due, unpacked, content, temp, work, gc,
          changes, faults>>
disk == <<unpacked, content, temp>>
bounds == <<changes, faults>>

-----------------------------------------------------------------------------
Gens == 1..(MaxEvents + 1)
Status == [progressing: {None, "Succeeded", "Retrying", "Blocked"}, pgen: Gens \cup {0},
           serving: {None, "Available", "Unavailable", "UserSpecifiedUnavailable"},
           sgen: Gens \cup {0}, ref: Digests \cup {None}]
NoStatus == [progressing |-> None, pgen |-> 0, serving |-> None, sgen |-> 0, ref |-> None]
Catalog == [exists: BOOLEAN, available: BOOLEAN, ref: Refs, poll: BOOLEAN, gen: Gens,
            deleting: BOOLEAN, finalizer: BOOLEAN, status: Status]
NoCatalog == [exists |-> FALSE, available |-> TRUE, ref |-> Tag, poll |-> FALSE, gen |-> 1,
              deleting |-> FALSE, finalizer |-> FALSE, status |-> NoStatus]
NotStored == [ref |-> None, gen |-> 0]
\* A content directory: the image its catalog.jsonl and its index.json were
\* made from, and whether that image was lossy.  It may exist without either file.
Files == Digests \cup {None, Torn}
Directory == [exists: BOOLEAN, data: Files, index: Files, lossy: BOOLEAN]
NoDirectory == [exists |-> FALSE, data |-> None, index |-> None, lossy |-> FALSE]

\* The reconcile: its catalog, the copy it read, the digest it works on, the
\* status and the finalizer it wants, and the error it ends with.
PCs == {"idle", "pull", "unpack", "write", "index", "swap", "rename", "update", "patch"}
Work == [pc: PCs, cat: Catalogs \cup {None}, seen: Catalog, digest: Digests \cup {None}, status: Status,
         finalizer: BOOLEAN, error: {None, "retry", "terminal"}]
Idle == [pc |-> "idle", cat |-> None, seen |-> NoCatalog, digest |-> None,
         status |-> NoStatus, finalizer |-> FALSE, error |-> None]
\* The sweep, of the image cache ("images", "purge") and then of the content: the
\* catalogs it expects, the entries it has yet to remove and the directory it is
\* removing.
Entry == Catalogs \X {"image", "temp", "content"}
Collector == [pc: {"idle", "images", "purge", "list", "sweep", "unlink"},
              expected: SUBSET Catalogs,
              entries: SUBSET Entry, cat: Catalogs \cup {None}, dir: {"temp", "content"}]
NoSweep == [pc |-> "idle", expected |-> {}, entries |-> {}, cat |-> None, dir |-> "temp"]
Swept == [gc EXCEPT !.pc = "sweep", !.cat = None, !.dir = "temp"]

Live(c) == api[c].exists
Change == changes + faults < MaxEvents /\ changes' = changes + 1 /\ UNCHANGED faults
Fault ==
    /\ changes + faults < MaxEvents /\ faults < MaxFaults
    /\ faults' = faults + 1 /\ UNCHANGED changes

\* The storage lock: Store holds it from its first step to its return.
Locked == work.pc \in {"write", "index", "swap", "rename"}
\* What the two handlers answer while no Store holds the lock.
ServeAll(c) ==
    CASE content[c].data = None -> NotFound
      [] content[c].data # None /\ content[c].lossy -> Lossy
      [] OTHER -> content[c].data
ServeMetas(c) ==
    IF None \in {content[c].data, content[c].index} THEN NotFound
    ELSE IF content[c].data = content[c].index THEN ServeAll(c)
    ELSE Torn
ContentExists(c) == content[c].data # None /\ content[c].index # None

Init ==
    /\ registry \in Digests
    /\ api = [c \in Catalogs |-> NoCatalog] /\ cached = api
    /\ queue = {} /\ stored = [c \in Catalogs |-> NotStored] /\ due = {}
    /\ unpacked = [c \in Catalogs |-> EmptyDir]
    /\ content = [c \in Catalogs |-> NoDirectory] /\ temp = content
    /\ work = Idle /\ gc = NoSweep
    /\ changes = 0 /\ faults = 0

-----------------------------------------------------------------------------
(* Status                                                                   *)

UpdateStatusProgressing(s, gen, error) ==
    [s EXCEPT !.pgen = gen,
              !.progressing = CASE error = "retry" -> "Retrying"
                                [] error = "terminal" -> "Blocked"
                                [] OTHER -> "Succeeded"]
\* mutant: the status names what the registry's tag stands for when it is written
UpdateStatusServingTag(s, d, gen) ==
    [s EXCEPT !.ref = registry, !.serving = "Available", !.sgen = gen]
UpdateStatusServing(s, d, gen) ==
    [s EXCEPT !.ref = d, !.serving = "Available", !.sgen = gen]
UpdateStatusNotServing(s, gen) ==
    [s EXCEPT !.ref = None, !.serving = "Unavailable", !.sgen = gen]
UpdateStatusUserSpecifiedUnavailable(s, gen) ==
    [s EXCEPT !.progressing = "Succeeded", !.pgen = gen,
              !.serving = "UserSpecifiedUnavailable", !.sgen = gen]

\* getCurrentState: what the status should say, going by what is stored.
ExpectedStatus(c, s) ==
    IF stored[c] # NotStored /\ ContentExists(c)
    THEN UpdateStatusProgressing(UpdateStatusServing(s, stored[c].ref, stored[c].gen),
                                 stored[c].gen, None)
    ELSE s

NeedsPoll(c, cat) == cat.poll /\ c \in due
\* mutant: the entry of storedCatalogs is trusted without a look at the disk
NeedsUnpackUnlessStored(c, cat) ==
    \/ stored[c] = NotStored
    \/ cat.status # ExpectedStatus(c, cat.status)
    \/ cat.gen # stored[c].gen
    \/ NeedsPoll(c, cat)
NeedsUnpack(c, cat) ==
    \/ stored[c] = NotStored
    \/ ~ContentExists(c)
    \/ cat.status # ExpectedStatus(c, cat.status)
    \/ cat.gen # stored[c].gen
    \/ NeedsPoll(c, cat)

-----------------------------------------------------------------------------
(* Reconcile                                                                *)

\* The reconcile of c goes on to write the status s and the finalizer f; an
\* error has removed the stored catalog's entry.
Finish(c, seen, s, f, error) ==
    work' = [Idle EXCEPT !.pc = "update", !.cat = c, !.seen = seen, !.status = s,
                         !.finalizer = f, !.error = error]
DeleteStored(c) == stored' = [stored EXCEPT ![c] = NotStored]

\* A reconcile that fails with the given kind of error while it unpacks.
UnpackFailed(error) ==
    /\ Finish(work.cat, work.seen,
              UpdateStatusProgressing(work.seen.status, work.seen.gen, error),
              work.seen.finalizer, error)
    /\ DeleteStored(work.cat)

\* The content has to go: the mode is Unavailable, or the catalog is being
\* deleted and has the finalizer.
Withdrawn(c) ==
    /\ cached[c].exists
    /\ ~cached[c].available \/ (cached[c].deleting /\ cached[c].finalizer)

Nothing(c) ==
    /\ cached[c].exists => cached[c].deleting /\ ~cached[c].finalizer
    /\ ~Withdrawn(c)
    /\ work' = Idle
    /\ UNCHANGED <<stored, disk, bounds>>

\* deleteCatalogCache.
Withdraw(c) ==
    LET cat == cached[c]
        gone == UpdateStatusNotServing(cat.status, cat.gen)
    IN
    /\ Withdrawn(c)
    /\ content' = [content EXCEPT ![c] = NoDirectory]
    /\ unpacked' = [unpacked EXCEPT ![c] = EmptyDir]
    /\ DeleteStored(c)
    /\ Finish(c, cat, IF cat.available THEN gone
                      ELSE UpdateStatusUserSpecifiedUnavailable(gone, cat.gen), FALSE, None)
    /\ UNCHANGED <<temp, bounds>>
\* It fails at Storage.Delete, or at ImageCache.Delete with the content gone.
WithdrawFails(c) ==
    LET cat == cached[c] IN
    /\ Withdrawn(c) /\ Fault
    /\ \E deleted \in BOOLEAN :
         /\ content' = IF deleted THEN [content EXCEPT ![c] = NoDirectory] ELSE content
         /\ Finish(c, cat,
                   UpdateStatusProgressing(IF deleted THEN UpdateStatusNotServing(cat.status, cat.gen)
                                           ELSE cat.status, cat.gen, "retry"),
                   cat.finalizer, "retry")
    /\ DeleteStored(c)
    /\ UNCHANGED <<unpacked, temp>>

\* mutant: the finalizer is added and the reconcile goes on to unpack
AddFinalizerAndGoOn(c) ==
    /\ cached[c].exists /\ cached[c].available /\ ~cached[c].deleting
    /\ ~cached[c].finalizer
    /\ work' = [Idle EXCEPT !.pc = "pull", !.cat = c, !.seen = [cached[c] EXCEPT !.finalizer = TRUE]]
    /\ UNCHANGED <<stored, disk, bounds>>
\* The finalizer is applied before anything else is done.
AddFinalizer(c) ==
    /\ cached[c].exists /\ cached[c].available /\ ~cached[c].deleting
    /\ ~cached[c].finalizer
    /\ Finish(c, cached[c], cached[c].status, TRUE, None)
    /\ UNCHANGED <<stored, disk, bounds>>

Ready(c) == /\ cached[c].exists /\ cached[c].available /\ ~cached[c].deleting
            /\ cached[c].finalizer
UpToDate(c) ==
    /\ Ready(c) /\ ~NeedsUnpack(c, cached[c])
    /\ work' = Idle
    /\ UNCHANGED <<stored, disk, bounds>>
StartUnpack(c) ==
    /\ Ready(c) /\ NeedsUnpack(c, cached[c])
    /\ work' = [Idle EXCEPT !.pc = "pull", !.cat = c, !.seen = cached[c]]
    /\ UNCHANGED <<stored, disk, bounds>>

Begin(c) ==
    /\ work.pc = "idle" /\ c \in queue
    /\ queue' = queue \ {c}
    /\ \/ Nothing(c) \/ Withdraw(c) \/ WithdrawFails(c) \/ AddFinalizer(c)
       \/ UpToDate(c) \/ StartUnpack(c)
    /\ UNCHANGED <<registry, api, cached, due, gc>>

\* Pull resolves the reference; an image the cache has is stored right away,
\* another one starts to be unpacked unless its label is missing.
Pull ==
    LET c == work.cat
        ref == work.seen.ref
        d == ResolveCanonicalRef(ref, registry)
    IN
    /\ work.pc = "pull"
    /\ \/ /\ Fetch(unpacked[c], d)
          /\ work' = [work EXCEPT !.pc = "write", !.digest = d]
          /\ UNCHANGED <<stored, unpacked>>
       \/ /\ ~Fetch(unpacked[c], d) /\ Filter(ref, d) = "ok"
          /\ unpacked' = [unpacked EXCEPT ![c] = StoreBegin(@, d)]
          /\ work' = [work EXCEPT !.pc = "unpack", !.digest = d]
          /\ UNCHANGED stored
       \/ /\ ~Fetch(unpacked[c], d) /\ Filter(ref, d) # "ok"
          /\ UnpackFailed(Filter(ref, d))
          /\ UNCHANGED unpacked
    /\ UNCHANGED <<registry, api, cached, queue, due, content, temp, gc, bounds>>
PullFails ==
    /\ work.pc = "pull" /\ Fault
    /\ UnpackFailed("retry")
    /\ UNCHANGED <<registry, api, cached, queue, due, disk, gc>>

\* The last layer is applied, the image made read-only and the images no longer needed are collected.
Unpack ==
    LET c == work.cat IN
    /\ work.pc = "unpack"
    /\ unpacked' = [unpacked EXCEPT ![c] = GarbageCollect(StoreEnd(@, work.digest), work.digest)]
    /\ work' = [work EXCEPT !.pc = "write"]
    /\ UNCHANGED <<registry, api, cached, queue, stored, due, content, temp, gc, bounds>>
\* A file or directory that was removed meanwhile can make it fail too.
UnpackFails ==
    /\ work.pc = "unpack"
    /\ IF unpacked[work.cat][work.digest] = "lossy" THEN UNCHANGED bounds ELSE Fault
    /\ unpacked' = [unpacked EXCEPT ![work.cat] = StoreFailed(@, work.digest)]
    /\ UnpackFailed("retry")
    /\ UNCHANGED <<registry, api, cached, queue, due, content, temp, gc>>

\* The walk over the unpacked image.
Metas(c) == IF unpacked[c][work.digest] \in {"whole", "lossy"} THEN work.digest ELSE Torn

\* Store: orphaned temporary directories go, a new one is made and the two
\* files are written into it from the unpacked image.  A file cannot be made
\* in a directory that was removed meanwhile.
WriteCatalog ==
    LET c == work.cat IN
    /\ work.pc = "write"
    /\ temp' = [temp EXCEPT ![c] = [exists |-> TRUE, data |-> Metas(c), index |-> None,
                                     lossy |-> unpacked[c][work.digest] = "lossy"]]
    /\ gc' = IF gc.cat = c /\ gc.dir = "temp" THEN Swept ELSE gc
    /\ work' = [work EXCEPT !.pc = "index"]
    /\ UNCHANGED <<registry, api, cached, queue, stored, due, unpacked, content, bounds>>
WriteIndex ==
    LET c == work.cat IN
    /\ work.pc = "index"
    /\ \/ /\ temp[c].exists
          /\ temp' = [temp EXCEPT ![c].index = Metas(c)]
          /\ work' = [work EXCEPT !.pc = "swap"]
          /\ UNCHANGED stored
       \/ /\ ~temp[c].exists
          /\ UnpackFailed("retry")
          /\ UNCHANGED temp
    /\ UNCHANGED <<registry, api, cached, queue, due, unpacked, content, gc, bounds>>
WriteFails ==
    /\ work.pc \in {"write", "index"} /\ Fault
    /\ temp' = [temp EXCEPT ![work.cat] = NoDirectory]
    /\ UnpackFailed("retry")
    /\ UNCHANGED <<registry, api, cached, queue, due, unpacked, content, gc>>
RemoveOld ==
    /\ work.pc = "swap"
    /\ content' = [content EXCEPT ![work.cat] = NoDirectory]
    /\ gc' = IF gc.cat = work.cat /\ gc.dir = "content" THEN Swept ELSE gc
    /\ work' = [work EXCEPT !.pc = "rename"]
    /\ UNCHANGED <<registry, api, cached, queue, stored, due, unpacked, temp, bounds>>

StoredData == [ref |-> work.digest, gen |-> work.seen.gen]

\* The new directory takes the catalog's name, with a collector that is in the
\* middle of it; then the status and the stored entry are made.
RenameTemp ==
    LET c == work.cat
        s == UpdateStatusServing(UpdateStatusProgressing(work.seen.status, work.seen.gen, None),
                                 work.digest, work.seen.gen)
    IN
    /\ work.pc = "rename"
    /\ temp' = [temp EXCEPT ![c] = NoDirectory]
    /\ \/ /\ temp[c].exists
          /\ content' = [content EXCEPT ![c] = temp[c]]
          /\ gc' = IF gc.cat = c /\ gc.dir = "temp" THEN [gc EXCEPT !.dir = "content"] ELSE gc
          /\ stored' = [stored EXCEPT ![c] = StoredData]
          /\ due' = due \ {c}
          /\ Finish(c, work.seen, s, work.seen.finalizer, None)
       \/ /\ ~temp[c].exists
          /\ UnpackFailed("retry")
          /\ UNCHANGED <<content, gc, due>>
    /\ UNCHANGED <<registry, api, cached, queue, unpacked, bounds>>

\* An error other than a terminal one queues the request again.
Requeue(error) == queue' = IF error = "retry" THEN queue \cup {work.cat} ELSE queue
\* errors.Join keeps a terminal error terminal.
Join(error) == IF error = None THEN "retry" ELSE error

UpdateStatus ==
    LET c == work.cat
        conflict == api[c] # work.seen
    IN
    /\ work.pc = "update"
    /\ \/ /\ work.status = work.seen.status
          /\ work' = [work EXCEPT !.pc = "patch"]
          /\ UNCHANGED <<api, bounds>>
       \/ /\ work.status # work.seen.status /\ ~conflict
          /\ api' = [api EXCEPT ![c].status = work.status]
          /\ work' = [work EXCEPT !.pc = "patch"]
          /\ UNCHANGED bounds
       \/ /\ work.status # work.seen.status
          /\ IF conflict THEN UNCHANGED bounds ELSE Fault
          /\ work' = [work EXCEPT !.pc = "patch", !.error = Join(@)]
          /\ UNCHANGED api
    /\ UNCHANGED <<registry, cached, queue, stored, due, disk, gc>>

\* CreateOrPatch reads the cached copy again and patches when it differs.  An
\* object that is being deleted accepts no new finalizer and goes with its last.
PatchFinalizer ==
    LET c == work.cat
        wanted == work.finalizer # work.seen.finalizer
        differs == cached[c].exists /\ cached[c].finalizer # work.finalizer
        refused == \/ ~cached[c].exists \/ ~api[c].exists
                   \/ work.finalizer /\ api[c].deleting
    IN
    /\ work.pc = "patch"
    /\ work' = Idle
    /\ \/ /\ wanted => cached[c].exists /\ ~differs
          /\ Requeue(work.error)
          /\ UNCHANGED <<api, bounds>>
       \/ /\ wanted /\ differs /\ ~refused
          /\ api' = [api EXCEPT ![c] = IF @.deleting /\ ~work.finalizer THEN NoCatalog
                                       ELSE [@ EXCEPT !.finalizer = work.finalizer]]
          /\ Requeue(work.error)
          /\ UNCHANGED bounds
       \/ /\ wanted
          /\ ~cached[c].exists \/ differs
          /\ IF refused THEN UNCHANGED bounds ELSE Fault
          /\ Requeue(Join(work.error))
          /\ UNCHANGED api
    /\ UNCHANGED <<registry, cached, stored, due, disk, gc>>

Reconcile ==
    \/ \E c \in Catalogs : Begin(c)
    \/ Pull \/ Unpack \/ WriteCatalog \/ WriteIndex \/ RemoveOld \/ RenameTemp
    \/ UpdateStatus \/ PatchFinalizer
ReconcileFails == PullFails \/ UnpackFails \/ WriteFails

-----------------------------------------------------------------------------
(* The garbage collector                                                    *)

\* Each of the two directories is swept with a list of the catalogs of its own.
ListCatalogs ==
    /\ \/ gc.pc = "idle" /\ gc' = [NoSweep EXCEPT !.pc = "images", !.expected = {c \in Catalogs : Live(c)}]
       \/ /\ gc.pc = "purge" /\ gc.entries = {}
          /\ gc' = [NoSweep EXCEPT !.pc = "list", !.expected = {c \in Catalogs : Live(c)}]
    /\ UNCHANGED <<registry, api, cached, queue, stored, due, disk, work, bounds>>

\* The image cache: the directories of catalogs that are not expected.
ReadImages ==
    /\ gc.pc = "images"
    /\ gc' = [NoSweep EXCEPT !.pc = "purge",
                             !.entries = {e \in Entry : /\ e[2] = "image" /\ unpacked[e[1]] # EmptyDir
                                                        /\ e[1] \notin gc.expected}]
    /\ UNCHANGED <<registry, api, cached, queue, stored, due, disk, work, bounds>>
\* RemoveAll by a process that is not root leaves read-only images alone, and the
\* error ends the sweep of the image cache; an image that is being unpacked when
\* RemoveAll comes by loses files.  How often that happens is bounded with the faults.
RemoveImages ==
    /\ gc.pc = "purge"
    /\ \E e \in gc.entries :
         \/ /\ Fault
            /\ \E d \in Digests : /\ unpacked[e[1]][d] = "partial"
                                   /\ unpacked' = [unpacked EXCEPT ![e[1]] = LoseFiles(@, d)]
            /\ UNCHANGED gc
         \/ /\ \/ /\ \A d \in Digests : unpacked[e[1]][d] # "whole"
                  /\ gc' = [gc EXCEPT !.entries = @ \ {e}]
               \/ /\ unpacked[e[1]] # EmptyDir
                  /\ gc' = [gc EXCEPT !.entries = {}]
            /\ UNCHANGED <<unpacked, bounds>>
    /\ UNCHANGED <<registry, api, cached, queue, stored, due, content, temp, work>>

\* The content: every entry that is not the directory of an expected catalog, the
\* temporary directories always.
Unexpected ==
    {e \in Entry : CASE e[2] = "temp" -> temp[e[1]].exists
                     [] e[2] = "content" -> content[e[1]].exists /\ e[1] \notin gc.expected
                     [] OTHER -> FALSE}
\* The storage lock is not taken.  Sweeps are hours apart: how often one meets a
\* Store is bounded with the faults.
ReadDir ==
    /\ gc.pc = "list"
    /\ gc' = [gc EXCEPT !.pc = "sweep", !.entries = Unexpected]
    /\ IF <<work.cat, "temp">> \in Unexpected THEN Fault ELSE UNCHANGED bounds
    /\ UNCHANGED <<registry, api, cached, queue, stored, due, disk, work>>
RemoveEntry ==
    /\ gc.pc = "sweep"
    /\ \/ \E e \in gc.entries :
            gc' = IF e \in Unexpected
                  THEN [gc EXCEPT !.pc = "unlink", !.entries = @ \ {e}, !.cat = e[1], !.dir = e[2]]
                  ELSE [gc EXCEPT !.entries = @ \ {e}]
       \/ gc.entries = {} /\ gc' = NoSweep
    /\ UNCHANGED <<registry, api, cached, queue, stored, due, disk, work, bounds>>

\* RemoveAll unlinks the files of the directory it opened, wherever it is now,
\* and then the directory.
Unlink(dir) ==
    IF dir.data # None /\ dir.index # None
    THEN {[dir EXCEPT !.data = None], [dir EXCEPT !.index = None]}
    ELSE IF dir.data # None \/ dir.index # None
    THEN {[dir EXCEPT !.data = None, !.index = None]}
    ELSE {NoDirectory}
UnlinkNext ==
    /\ gc.pc = "unlink"
    /\ \/ /\ gc.dir = "temp"
          /\ \E dir \in Unlink(temp[gc.cat]) :
               /\ temp' = [temp EXCEPT ![gc.cat] = dir]
               /\ gc' = IF dir.exists THEN gc ELSE Swept
          /\ UNCHANGED content
       \/ /\ gc.dir = "content"
          /\ \E dir \in Unlink(content[gc.cat]) :
               /\ content' = [content EXCEPT ![gc.cat] = dir]
               /\ gc' = IF dir.exists THEN gc ELSE Swept
          /\ UNCHANGED temp
    /\ UNCHANGED <<registry, api, cached, queue, stored, due, unpacked, work, bounds>>

Collect == ListCatalogs \/ ReadImages \/ RemoveImages \/ ReadDir \/ RemoveEntry \/ UnlinkNext

-----------------------------------------------------------------------------
(* The environment                                                          *)

\* The informer delivers the current object.
Sync(c) ==
    /\ cached[c] # api[c]
    /\ cached' = [cached EXCEPT ![c] = api[c]]
    /\ queue' = queue \cup {c}
    /\ UNCHANGED <<registry, api, stored, due, disk, work, gc, bounds>>
Resync(c) ==
    /\ cached[c].exists /\ c \notin queue
    /\ queue' = queue \cup {c}
    /\ UNCHANGED <<registry, api, cached, stored, due, disk, work, gc, bounds>>

\* The requeue of nextPollResult: the poll interval has passed by then.
PollElapses(c) ==
    /\ stored[c] # NotStored /\ cached[c].poll /\ c \notin due
    /\ due' = due \cup {c} /\ queue' = queue \cup {c}
    /\ UNCHANGED <<registry, api, cached, stored, disk, work, gc, bounds>>

\* mutant: the cache directory is kept over a restart
RestartOnOldDisk ==
    /\ Fault
    /\ stored' = [c \in Catalogs |-> NotStored] /\ due' = {}
    /\ temp' = [c \in Catalogs |-> NoDirectory]
    /\ cached' = api /\ queue' = {c \in Catalogs : Live(c)}
    /\ work' = Idle /\ gc' = NoSweep
    /\ UNCHANGED <<registry, api, unpacked, content>>
\* main empties the cache directory before the manager starts.
Restart ==
    /\ Fault
    /\ stored' = [c \in Catalogs |-> NotStored] /\ due' = {}
    /\ unpacked' = [c \in Catalogs |-> EmptyDir]
    /\ content' = [c \in Catalogs |-> NoDirectory]
    /\ temp' = [c \in Catalogs |-> NoDirectory]
    /\ cached' = api /\ queue' = {c \in Catalogs : Live(c)}
    /\ work' = Idle /\ gc' = NoSweep
    /\ UNCHANGED <<registry, api>>

\* Users create, change and delete catalogs; the API server refuses to poll a digest.
Create(c) ==
    /\ ~Live(c) /\ Change
    /\ \E ref \in Refs : \E poll \in BOOLEAN :
         /\ poll => ref = Tag
         /\ api' = [api EXCEPT ![c] = [NoCatalog EXCEPT !.exists = TRUE, !.ref = ref, !.poll = poll]]
    /\ UNCHANGED <<registry, cached, queue, stored, due, disk, work, gc>>
SetMode(c) ==
    /\ Live(c) /\ ~api[c].deleting /\ Change
    /\ api' = [api EXCEPT ![c].available = ~@, ![c].gen = @ + 1]
    /\ UNCHANGED <<registry, cached, queue, stored, due, disk, work, gc>>
SetRef(c) ==
    /\ Live(c) /\ ~api[c].deleting /\ Change
    /\ \E ref \in Refs \ {api[c].ref} :
         api' = [api EXCEPT ![c].ref = ref, ![c].poll = FALSE, ![c].gen = @ + 1]
    /\ UNCHANGED <<registry, cached, queue, stored, due, disk, work, gc>>
Delete(c) ==
    /\ Live(c) /\ ~api[c].deleting /\ Change
    /\ api' = [api EXCEPT ![c] = IF @.finalizer THEN [@ EXCEPT !.deleting = TRUE] ELSE NoCatalog]
    /\ UNCHANGED <<registry, cached, queue, stored, due, disk, work, gc>>
Push ==
    /\ Change
    /\ \E d \in Digests \ {registry} : registry' = d
    /\ UNCHANGED <<api, cached, queue, stored, due, disk, work, gc>>

User == Push \/ \E c \in Catalogs : Create(c) \/ SetMode(c) \/ SetRef(c) \/ Delete(c)
Informer == \E c \in Catalogs : Sync(c) \/ Resync(c) \/ PollElapses(c)
Next == Reconcile \/ ReconcileFails \/ Collect \/ Informer \/ Restart \/ User

Spec == Init /\ [][Next]_vars
Fairness ==
    /\ WF_vars(Reconcile) /\ WF_vars(Collect)
    /\ \A c \in Catalogs : /\ WF_vars(Sync(c)) /\ WF_vars(Resync(c))
                           /\ WF_vars(PollElapses(c)) /\ SF_vars(Begin(c))
FairSpec == Spec /\ Fairness

-----------------------------------------------------------------------------
\* Every variable has its type: in particular what is recorded as resolved is a
\* digest, never a tag, and generations stay in step with the changes.
TypeOK ==
    /\ registry \in Digests
    /\ api \in [Catalogs -> Catalog] /\ cached \in [Catalogs -> Catalog]
    /\ queue \subseteq Catalogs /\ due \subseteq Catalogs
    /\ stored \in [Catalogs -> [ref: Digests \cup {None}, gen: Gens \cup {0}]]
    /\ unpacked \in [Catalogs -> Dirs]
    /\ content \in [Catalogs -> Directory] /\ temp \in [Catalogs -> Directory]
    /\ work \in Work /\ gc \in Collector
    /\ changes \in 0..MaxEvents /\ faults \in 0..MaxFaults

\* Whatever a request can read while no Store holds the lock was made from one image
\* that had been unpacked to the end, the index from the same one as the data: with
\* restarts in the middle of an unpack or a Store, and sweeps without the lock.  The
\* one image that may be incomplete then is one that lost files to the collector while
\* it was unpacked, for a catalog created after the collector had listed them.
ServedIsWhole ==
    ~Locked => \A c \in Catalogs : /\ ServeAll(c) \in Digests \cup {NotFound, Lossy}
                                   /\ ServeMetas(c) \in {NotFound, ServeAll(c)}

\* The entry of storedCatalogs, from which the expected status is computed, names
\* the image the content on disk was made from, between any two reconciles.
StoredDescribesContent ==
    \A c \in Catalogs :
      (work.cat # c /\ stored[c] # NotStored) => content[c].data \in {None, stored[c].ref}

\* The content of a catalog that exists is under the protection of the finalizer,
\* or a reconcile that restores it is on its way: "make sure the finalizer is
\* applied before we do anything".
Pending(c) == c \in queue \/ work.cat = c \/ cached[c] # api[c]
ContentIsFinalized ==
    \A c \in Catalogs :
      (Live(c) /\ (content[c].exists \/ unpacked[c] # EmptyDir))
        => api[c].finalizer \/ Pending(c)

\* A catalog that stays available, with a reference that leads to a catalog image
\* and is polled if it can move, ends up served from that image, and its status
\* says so: whatever failed, restarted or was swept away before.  (From what was left
\* of the image, if it lost files while it was unpacked: nothing unpacks it again.)
Stable(c) == Live(c) /\ ~api[c].deleting /\ api[c].available
Reachable(c) ==
    /\ api[c].ref = Tag => api[c].poll
    /\ ResolveCanonicalRef(api[c].ref, registry) \notin Unlabelled
CatalogIsServed ==
    \A c \in Catalogs :
      <>[](Stable(c) /\ Reachable(c))
        => <>[](~Locked => /\ content[c].data = ResolveCanonicalRef(api[c].ref, registry)
                           /\ content[c].index = content[c].data
                           /\ api[c].status.ref = content[c].data)

\* What a deleted catalog served goes away for good; a catalog that stays
\* unavailable has nothing on disk and says that it is unavailable.
UnavailableIsWithdrawn ==
    \A c \in Catalogs :
      /\ <>[]~Live(c) => <>[]~content[c].exists
      /\ <>[](Live(c) /\ ~api[c].available)
           => <>[](/\ ~content[c].exists /\ unpacked[c] = EmptyDir
                   /\ api[c].status.serving = "UserSpecifiedUnavailable")

\* The catalogs as their clients see them: what is served is known by the image it was
\* made from, whole or lossy.
Seen(c) == [exists |-> api[c].exists, ref |-> api[c].status.ref, served |-> content[c].data]
Service == INSTANCE CatalogServices WITH
    Names <- Catalogs, Images <- Digests, services <- [c \in Catalogs |-> Seen(c)]

\* catalogd keeps what the clients of a catalog rely on: content is stored before the
\* status names it, so the status never announces an image other than the one the
\* content served was made from.
KeepsService == Service!ServiceSpec

\* Every variable has its type, and the content on disk is whole, but for an image that
\* lost files while it was unpacked, and is what the controller remembers having
\* stored (Store, the garbage collector, Restart).
ContentIsIntact == TypeOK /\ ServedIsWhole /\ StoredDescribesContent

\* What is served follows the availability the spec asks for (reconcile).
AvailabilityIsFollowed == CatalogIsServed /\ UnavailableIsWithdrawn
=============================================================================
