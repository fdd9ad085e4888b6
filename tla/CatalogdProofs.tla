--------------------------- MODULE CatalogdProofs ---------------------------
(***************************************************************************)
(* Proofs about catalogd, for any number of catalogs, images, changes and   *)
(* faults: what is served is whole, what is stored is what is remembered,   *)
(* content is under the protection of the finalizer, and clients see what   *)
(* CatalogService promises.                                                 *)
(***************************************************************************)
EXTENDS Catalogd, TLAPS

StoredEntry == [ref: Digests \cup {None}, gen: Gens \cup {0}]
Errors == {None, "retry", "terminal"}

\* An image that was unpacked to the end.
Ended == {"whole", "lossy"}
\* The data and the index of a directory come from one image, unpacked to the end.
Sound(dir) ==
    /\ dir.data # Torn /\ dir.index # Torn
    /\ dir.data = None \/ dir.index = None \/ dir.data = dir.index
\* Nothing of the catalog is on disk.
Gone(c) == content[c] = NoDirectory /\ unpacked[c] = EmptyDir

\* Generations count the changes; an object that is gone leaves nothing behind, and
\* one that is being deleted is only there for its finalizer.
ApiOK ==
    /\ changes + faults <= MaxEvents
    /\ \A c \in Catalogs :
         /\ api[c].gen <= changes + 1
         /\ ~api[c].exists => api[c] = NoCatalog
         /\ api[c].deleting => api[c].finalizer
         /\ cached[c].deleting => cached[c].finalizer

\* The reconcile: it works on what the informer had, or there is a newer request for
\* its catalog; it unpacks only under the finalizer, and gives the finalizer up only
\* when nothing is left on disk or it will try again; the status it is about to write
\* names what it was, nothing, or what is served.
WorkOK ==
    /\ work.pc = "idle" => work = Idle
    /\ work.pc # "idle" => /\ work.cat \in Catalogs /\ work.seen.exists
                           /\ work.cat \in queue \/ cached[work.cat] = work.seen
    /\ work.pc \in {"unpack", "write", "index", "swap", "rename"} => work.digest \in Digests
    /\ work.pc \in {"pull", "unpack", "write", "index", "swap", "rename"} => work.seen.finalizer
    /\ work.error = "terminal" => work.finalizer /\ work.seen.finalizer
    /\ (work.pc \in {"update", "patch"} /\ ~work.finalizer)
         => Gone(work.cat) \/ work.error = "retry"
    /\ work.pc = "update" => \/ work.status.ref \in {None, work.seen.status.ref}
                             \/ content[work.cat].data \in {None, work.status.ref}

\* Only the image being unpacked is there in part; the new directory is filled from one
\* that is unpacked; what is served is sound and is what is remembered.
DiskOK ==
    /\ \A c \in Catalogs, d \in Digests :
         unpacked[c][d] = "partial" => work.pc = "unpack" /\ work.cat = c /\ work.digest = d
    /\ work.pc \in {"write", "index"} => unpacked[work.cat][work.digest] \in Ended
    /\ work.pc = "index" => temp[work.cat].index = None
    /\ work.pc \in {"index", "swap", "rename"} =>
         temp[work.cat].data \in {None, work.digest} /\ temp[work.cat].index \in {None, work.digest}
    /\ \A c \in Catalogs : Sound(content[c])
    /\ \A c \in Catalogs : stored[c] # NotStored => content[c].data \in {None, stored[c].ref}

\* What is on disk is finalized, or a reconcile will see that it is not.
Held(c) ==
    Gone(c) \/ c \in queue \/ work.cat = c \/ cached[c].finalizer \/ ~cached[c].exists
            \/ api[c].finalizer
HeldOK == \A c \in Catalogs : Held(c)
CollectorOK == gc.pc = "unlink" => gc.cat \in Catalogs

CatalogdInv == TypeOK /\ ApiOK /\ WorkOK /\ DiskOK /\ HeldOK /\ CollectorOK

-----------------------------------------------------------------------------
(* Types of the values the actions write                                    *)

LEMMA GensFacts ==
    /\ 1 \in Gens /\ Gens \subseteq Nat
    /\ \A n \in Nat : n <= MaxEvents + 1 /\ n >= 1 => n \in Gens
BY BoundsAssumption DEF Gens

LEMMA CatalogdConstructors ==
    /\ NoStatus \in Status /\ NoCatalog \in Catalog /\ NotStored \in StoredEntry
    /\ NoDirectory \in Directory /\ EmptyDir \in Dirs /\ Idle \in Work /\ NoSweep \in Collector
<1>1. NoStatus \in Status BY DEF NoStatus, Status
<1>2. Tag \in Refs BY DEF Refs
<1>3. NoCatalog \in Catalog BY <1>1, <1>2, GensFacts DEF NoCatalog, Catalog
<1>4. NotStored \in StoredEntry BY DEF NotStored, StoredEntry
<1>5. NoDirectory \in Directory BY DEF NoDirectory, Directory, Files
<1>6. EmptyDir \in Dirs BY DEF EmptyDir, Dirs, Entries
<1>7. Idle \in Work BY <1>1, <1>3 DEF Idle, Work, PCs
<1>8. NoSweep \in Collector BY DEF NoSweep, Collector
<1> QED BY <1>1, <1>3, <1>4, <1>5, <1>6, <1>7, <1>8

\* The statuses a reconcile makes.
LEMMA StatusTypes ==
    ASSUME NEW s \in Status, NEW g \in Gens, NEW e \in Errors, NEW d \in Digests
    PROVE  /\ UpdateStatusProgressing(s, g, e) \in Status
           /\ UpdateStatusProgressing(s, g, e).ref = s.ref
           /\ UpdateStatusServing(s, d, g) \in Status
           /\ UpdateStatusServing(s, d, g).ref = d
           /\ UpdateStatusNotServing(s, g) \in Status
           /\ UpdateStatusNotServing(s, g).ref = None
           /\ UpdateStatusUserSpecifiedUnavailable(s, g) \in Status
           /\ UpdateStatusUserSpecifiedUnavailable(s, g).ref = s.ref
BY Zenon DEF UpdateStatusProgressing, UpdateStatusServing, UpdateStatusNotServing,
       UpdateStatusUserSpecifiedUnavailable, Status, Errors

\* The reconcile goes on to write its status.
LEMMA FinishFacts ==
    ASSUME NEW c \in Catalogs, NEW seen \in Catalog, NEW s \in Status, NEW f \in BOOLEAN,
           NEW e \in Errors, Finish(c, seen, s, f, e)
    PROVE  /\ work' \in Work /\ work'.pc = "update" /\ work'.cat = c /\ work'.seen = seen
           /\ work'.status = s /\ work'.finalizer = f /\ work'.error = e
BY CatalogdConstructors, Zenon DEF Finish, Idle, Work, PCs, Errors

-----------------------------------------------------------------------------
(* The environment                                                          *)

LEMMA InitHolds == Init => CatalogdInv
<1> SUFFICES ASSUME Init PROVE CatalogdInv OBVIOUS
<1> USE CatalogdConstructors
<1>1. TypeOK
  <2>1. /\ api \in [Catalogs -> Catalog] /\ cached \in [Catalogs -> Catalog]
        /\ stored \in [Catalogs -> StoredEntry] /\ unpacked \in [Catalogs -> Dirs]
        /\ content \in [Catalogs -> Directory] /\ temp \in [Catalogs -> Directory]
    BY Zenon DEF Init
  <2>2. changes \in 0..MaxEvents /\ faults \in 0..MaxFaults BY BoundsAssumption DEF Init
  <2> QED BY <2>1, <2>2 DEF Init, TypeOK, StoredEntry
<1>2. ApiOK BY BoundsAssumption DEF Init, ApiOK, NoCatalog
<1>3. WorkOK BY DEF Init, WorkOK, Idle, None
<1>4. DiskOK BY MarkersAssumption DEF Init, DiskOK, Idle, Sound, NoDirectory, EmptyDir, Torn, None
<1>5. HeldOK BY DEF Init, HeldOK, Held, Gone
<1>6. CollectorOK BY DEF Init, CollectorOK, NoSweep
<1> QED BY <1>1, <1>2, <1>3, <1>4, <1>5, <1>6 DEF CatalogdInv

LEMMA Counts ==
    ASSUME TypeOK, ApiOK, Change \/ Fault \/ UNCHANGED bounds
    PROVE  /\ changes' \in 0..MaxEvents /\ faults' \in 0..MaxFaults
           /\ changes' + faults' <= MaxEvents /\ changes <= changes'
           /\ Change => changes' = changes + 1 /\ changes < MaxEvents
BY BoundsAssumption DEF TypeOK, ApiOK, Change, Fault, bounds

\* A step that leaves the disk and the reconcile alone, queues a catalog whose copy it
\* changes and takes no finalizer away.
LEMMA OutsideStep ==
    ASSUME CatalogdInv, TypeOK', ApiOK', UNCHANGED <<stored, disk, work, gc>>,
           queue \subseteq queue',
           \A c \in Catalogs : cached'[c] = cached[c] \/ c \in queue',
           \A c \in Catalogs : api[c].finalizer => api'[c].finalizer
    PROVE  CatalogdInv'
<1> USE DEF CatalogdInv
<1>1. WorkOK' BY DEF WorkOK, disk, Gone
<1>2. DiskOK' BY DEF DiskOK, disk
<1>3. HeldOK' BY DEF HeldOK, Held, disk, Gone
<1>4. CollectorOK' BY DEF CollectorOK
<1> QED BY <1>1, <1>2, <1>3, <1>4

LEMMA InformerStep == ASSUME CatalogdInv, Informer PROVE CatalogdInv'
<1> USE DEF CatalogdInv
<1>1. PICK c \in Catalogs : Sync(c) \/ Resync(c) \/ PollElapses(c) BY DEF Informer
<1>2. /\ queue \subseteq queue' /\ UNCHANGED <<stored, disk, work, gc>> /\ UNCHANGED <<api, bounds, registry>>
      /\ queue' \subseteq Catalogs /\ due' \subseteq Catalogs
  BY <1>1 DEF Sync, Resync, PollElapses, TypeOK
<1>3. /\ cached' \in [Catalogs -> Catalog]
      /\ \A d \in Catalogs : cached'[d] = cached[d] \/ (d \in queue' /\ cached'[d] = api[d])
  BY <1>1 DEF Sync, Resync, PollElapses, TypeOK
<1>4. TypeOK' BY <1>2, <1>3 DEF TypeOK, disk, bounds
<1>5. ApiOK' BY <1>2, <1>3 DEF ApiOK, bounds
<1> QED BY <1>2, <1>3, <1>4, <1>5, OutsideStep

\* What users make of the objects.
LEMMA UserWrites ==
    ASSUME CatalogdInv, NEW c \in Catalogs, NEW o \in Catalog, Change,
           api' = [api EXCEPT ![c] = o], o.gen <= changes + 2,
           ~o.exists => o = NoCatalog, o.deleting => o.finalizer, api[c].finalizer => o.finalizer,
           UNCHANGED <<registry, cached, queue, stored, due, disk, work, gc>>
    PROVE  CatalogdInv'
<1> USE DEF CatalogdInv
<1>1. /\ changes' \in 0..MaxEvents /\ faults' \in 0..MaxFaults
      /\ changes' + faults' <= MaxEvents /\ changes' = changes + 1
  BY Counts
<1>2. TypeOK' BY <1>1 DEF TypeOK, disk
<1>3. ASSUME NEW d \in Catalogs
      PROVE  /\ api'[d].gen <= changes' + 1
             /\ ~api'[d].exists => api'[d] = NoCatalog
             /\ api'[d].deleting => api'[d].finalizer
             /\ cached'[d].deleting => cached'[d].finalizer
             /\ api[d].finalizer => api'[d].finalizer
  <2>1. api'[d] = IF d = c THEN o ELSE api[d] BY DEF TypeOK
  <2>2. api[d].gen \in Nat /\ changes \in Nat /\ o.gen \in Nat
    BY BoundsAssumption DEF TypeOK, Catalog, Gens
  <2> QED BY <1>1, <2>1, <2>2 DEF ApiOK
<1>4. ApiOK' BY <1>1, <1>3 DEF ApiOK
<1> QED BY <1>2, <1>3, <1>4, OutsideStep

LEMMA UserStep == ASSUME CatalogdInv, User PROVE CatalogdInv'
<1> USE DEF CatalogdInv
<1>1. CASE Push
  <2>1. registry' \in Digests /\ UNCHANGED <<api, cached, queue, stored, due, disk, work, gc>>
    BY <1>1 DEF Push
  <2>2. /\ changes' \in 0..MaxEvents /\ faults' \in 0..MaxFaults
        /\ changes' + faults' <= MaxEvents /\ changes <= changes'
    BY <1>1, Counts DEF Push
  <2>3. TypeOK' BY <2>1, <2>2 DEF TypeOK, disk
  <2>4. ApiOK'
    <3>1. \A c \in Catalogs : api[c].gen \in Nat BY GensFacts, Zenon DEF TypeOK, Catalog
    <3> QED BY <2>1, <2>2, <3>1 DEF ApiOK, TypeOK
  <2> QED BY <2>1, <2>3, <2>4, OutsideStep
<1>2. ASSUME NEW c \in Catalogs, Create(c) \/ SetMode(c) \/ SetRef(c) \/ Delete(c)
      PROVE  CatalogdInv'
  <2>1. /\ api[c] \in Catalog /\ api[c].gen \in Gens /\ changes \in Nat
        /\ api[c].gen <= changes + 1
    BY BoundsAssumption DEF TypeOK, Catalog, ApiOK
  <2>0. api[c].gen \in Nat BY <2>1, BoundsAssumption DEF Gens
  <2>2. Change /\ UNCHANGED <<registry, cached, queue, stored, due, disk, work, gc>>
    BY <1>2, Zenon DEF Create, SetMode, SetRef, Delete
  <2>3. changes < MaxEvents BY <2>2, Counts
  <2>4. api[c].gen + 1 \in Gens BY <2>0, <2>1, <2>3, BoundsAssumption DEF Gens
  <2>5. CASE Create(c)
    <3>1. PICK ref \in Refs, poll \in BOOLEAN :
            api' = [api EXCEPT ![c] = [NoCatalog EXCEPT !.exists = TRUE, !.ref = ref, !.poll = poll]]
      BY <2>5, Zenon DEF Create
    <3> DEFINE o == [NoCatalog EXCEPT !.exists = TRUE, !.ref = ref, !.poll = poll]
    <3>2. o \in Catalog BY CatalogdConstructors, Zenon DEF Catalog
    <3>3. o.gen = 1 /\ o.exists /\ ~o.deleting BY DEF NoCatalog
    <3>4. ~api[c].finalizer BY <2>5 DEF Create, Live, ApiOK, NoCatalog
    <3>5. o.gen <= changes + 2 BY <2>1, <3>3
    <3>6. api' = [api EXCEPT ![c] = o] BY <3>1
    <3> HIDE DEF o
    <3> QED BY <2>2, <3>2, <3>3, <3>4, <3>5, <3>6, UserWrites, Zenon
  <2>6. CASE SetMode(c)
    <3> DEFINE o == [api[c] EXCEPT !.available = ~@, !.gen = @ + 1]
    <3>1. api' = [api EXCEPT ![c] = o] /\ Live(c) /\ ~api[c].deleting
      BY <2>6, Zenon DEF SetMode, TypeOK
    <3>2. o \in Catalog /\ o.gen = api[c].gen + 1 /\ o.exists /\ ~o.deleting
          /\ o.finalizer = api[c].finalizer
      BY <2>1, <2>4, <3>1, Zenon DEF Catalog, Live
    <3> HIDE DEF o
    <3>3. o.gen <= changes + 2 BY <2>0, <2>1, <3>2
    <3> QED BY <2>2, <3>1, <3>2, <3>3, UserWrites, Zenon
  <2>7. CASE SetRef(c)
    <3>1. PICK ref \in Refs : api' = [api EXCEPT ![c].ref = ref, ![c].poll = FALSE, ![c].gen = @ + 1]
      BY <2>7, Zenon DEF SetRef
    <3> DEFINE o == [api[c] EXCEPT !.ref = ref, !.poll = FALSE, !.gen = @ + 1]
    <3>2. api' = [api EXCEPT ![c] = o] /\ Live(c) /\ ~api[c].deleting
      BY <2>7, <3>1, Zenon DEF SetRef, TypeOK
    <3>3. o \in Catalog /\ o.gen = api[c].gen + 1 /\ o.exists /\ ~o.deleting
          /\ o.finalizer = api[c].finalizer
      BY <2>1, <2>4, <3>2, Zenon DEF Catalog, Live
    <3> HIDE DEF o
    <3>4. o.gen <= changes + 2 BY <2>0, <2>1, <3>3
    <3> QED BY <2>2, <3>2, <3>3, <3>4, UserWrites, Zenon
  <2>8. CASE Delete(c)
    <3> DEFINE o == IF api[c].finalizer THEN [api[c] EXCEPT !.deleting = TRUE] ELSE NoCatalog
    <3>1. api' = [api EXCEPT ![c] = o] /\ Live(c) BY <2>8 DEF Delete, TypeOK
    <3>2. CASE api[c].finalizer
      <4>1. o \in Catalog /\ o.gen = api[c].gen /\ o.exists /\ o.finalizer
        BY <2>1, <3>1, <3>2, Zenon DEF Catalog, Live
      <4> HIDE DEF o
      <4>2. o.gen <= changes + 2 BY <2>0, <2>1, <4>1
      <4> QED BY <2>2, <3>1, <4>1, <4>2, UserWrites, Zenon
    <3>3. CASE ~api[c].finalizer
      <4>1. o = NoCatalog /\ o \in Catalog /\ o.gen = 1 /\ ~o.deleting
        BY <3>3, CatalogdConstructors DEF NoCatalog
      <4> HIDE DEF o
      <4>2. o.gen <= changes + 2 BY <2>1, <4>1
      <4> QED BY <2>2, <3>1, <3>3, <4>1, <4>2, UserWrites, Zenon
    <3> QED BY <3>2, <3>3
  <2> QED BY <1>2, <2>5, <2>6, <2>7, <2>8
<1> QED BY <1>1, <1>2 DEF User

-----------------------------------------------------------------------------
(* The collector and restarts                                               *)

\* A directory after files were unlinked from it.
Shrinks(dir, new) ==
    /\ new \in Directory /\ new.data \in {None, dir.data} /\ new.index \in {None, dir.index}
    /\ dir = NoDirectory => new = NoDirectory

LEMMA UnlinkFacts == ASSUME NEW dir \in Directory, NEW new \in Unlink(dir) PROVE Shrinks(dir, new)
<1>1. CASE dir.data # None /\ dir.index # None
  <2>1. dir # NoDirectory BY <1>1 DEF NoDirectory
  <2>2. new = [dir EXCEPT !.data = None] \/ new = [dir EXCEPT !.index = None]
    BY <1>1 DEF Unlink
  <2> QED BY <2>1, <2>2 DEF Shrinks, Directory, Files
<1>2. CASE ~(dir.data # None /\ dir.index # None) /\ (dir.data # None \/ dir.index # None)
  <2>1. dir # NoDirectory BY <1>2 DEF NoDirectory
  <2>2. new = [dir EXCEPT !.data = None, !.index = None] BY <1>2 DEF Unlink
  <2> QED BY <2>1, <2>2, Zenon DEF Shrinks, Directory, Files
<1>3. CASE dir.data = None /\ dir.index = None
  <2>1. new = NoDirectory BY <1>3 DEF Unlink
  <2> QED BY <2>1, CatalogdConstructors DEF Shrinks, NoDirectory
<1> QED BY <1>1, <1>2, <1>3

LEMMA ShrinksItself == ASSUME NEW dir \in Directory PROVE Shrinks(dir, dir)
BY DEF Shrinks

\* A step that only takes files away.
LEMMA ShrinkingStep ==
    ASSUME CatalogdInv, gc' \in Collector, CollectorOK', Fault \/ UNCHANGED bounds,
           content' \in [Catalogs -> Directory], temp' \in [Catalogs -> Directory],
           \A c \in Catalogs : Shrinks(content[c], content'[c]) /\ Shrinks(temp[c], temp'[c]),
           UNCHANGED <<registry, api, cached, queue, stored, due, unpacked, work>>
    PROVE  CatalogdInv'
<1> USE DEF CatalogdInv
<1>1. /\ changes' \in 0..MaxEvents /\ faults' \in 0..MaxFaults
      /\ changes' + faults' <= MaxEvents /\ changes' = changes
  BY Counts DEF Fault, bounds
<1>2. TypeOK' BY <1>1 DEF TypeOK
<1>3. ApiOK' BY <1>1 DEF ApiOK
<1>4. WorkOK'
  <2>1. ASSUME work.cat \in Catalogs
        PROVE  /\ Gone(work.cat) => Gone(work.cat)'
               /\ content'[work.cat].data \in {None, content[work.cat].data}
    BY <2>1 DEF Gone, Shrinks
  <2> QED BY <2>1 DEF WorkOK
<1>5. DiskOK'
  <2>1. \A c \in Catalogs : Sound(content'[c])
    BY MarkersAssumption DEF DiskOK, Sound, Shrinks, Torn, None
  <2>2. \A c \in Catalogs : stored'[c] # NotStored => content'[c].data \in {None, stored'[c].ref}
    BY DEF DiskOK, Shrinks
  <2>3. work.pc # "idle" => work.cat \in Catalogs BY DEF WorkOK
  <2>4. /\ work'.pc = "index" => temp'[work'.cat].index = None
        /\ work'.pc \in {"index", "swap", "rename"} =>
             /\ temp'[work'.cat].data \in {None, work'.digest}
             /\ temp'[work'.cat].index \in {None, work'.digest}
    BY <2>3 DEF DiskOK, Shrinks
  <2> QED BY <2>1, <2>2, <2>4 DEF DiskOK
<1>6. HeldOK'
  BY DEF HeldOK, Held, Gone, Shrinks
<1> QED BY <1>2, <1>3, <1>4, <1>5, <1>6

\* A step that takes files from an image that is being unpacked.
LEMMA LosingStep ==
    ASSUME CatalogdInv, NEW c \in Catalogs, NEW d \in Digests, Fault, unpacked[c][d] = "partial",
           unpacked' = [unpacked EXCEPT ![c] = LoseFiles(unpacked[c], d)],
           UNCHANGED <<registry, api, cached, queue, stored, due, content, temp, work, gc>>
    PROVE  CatalogdInv'
<1> USE DEF CatalogdInv
<1>1. /\ changes' \in 0..MaxEvents /\ faults' \in 0..MaxFaults
      /\ changes' + faults' <= MaxEvents /\ changes' = changes
  BY Counts DEF Fault
<1>2. unpacked \in [Catalogs -> Dirs] /\ unpacked[c] \in Dirs BY DEF TypeOK
<1>3. LoseFiles(unpacked[c], d) \in Dirs BY <1>2 DEF LoseFiles, Dirs, Entries
<1>4. /\ unpacked' \in [Catalogs -> Dirs] /\ unpacked'[c] = LoseFiles(unpacked[c], d)
      /\ \A x \in Catalogs \ {c} : unpacked'[x] = unpacked[x]
  BY <1>2, <1>3
<1>5. unpacked'[c][d] = "lossy" /\ \A y \in Digests \ {d} : unpacked'[c][y] = unpacked[c][y]
  BY <1>2, <1>4 DEF LoseFiles, Dirs
<1>6. unpacked[c] # EmptyDir BY DEF EmptyDir
<1>7. TypeOK' BY <1>1, <1>4 DEF TypeOK
<1>8. ApiOK' BY <1>1 DEF ApiOK
<1>9. \A x \in Catalogs : Gone(x) => Gone(x)' BY <1>4, <1>6 DEF Gone
<1>10. work.pc = "unpack" /\ work.cat = c /\ work.digest = d BY DEF DiskOK
<1>11. WorkOK' BY <1>9, <1>10 DEF WorkOK
<1>12. DiskOK'
  <2>1. \A x \in Catalogs, y \in Digests :
          unpacked'[x][y] = "partial" => work'.pc = "unpack" /\ work'.cat = x /\ work'.digest = y
    BY <1>4, <1>5 DEF DiskOK
  <2> QED BY <1>10, <2>1 DEF DiskOK
<1>13. HeldOK' BY <1>9 DEF HeldOK, Held
<1>14. CollectorOK' BY DEF CollectorOK
<1> QED BY <1>7, <1>8, <1>11, <1>12, <1>13, <1>14

LEMMA SweptFacts == ASSUME gc \in Collector PROVE Swept \in Collector /\ Swept.pc = "sweep"
BY Zenon DEF Swept, Collector

LEMMA CollectStep == ASSUME CatalogdInv, Collect PROVE CatalogdInv'
<1> USE DEF CatalogdInv
<1>0. /\ gc \in Collector /\ content \in [Catalogs -> Directory] /\ temp \in [Catalogs -> Directory]
      /\ \A c \in Catalogs : Shrinks(content[c], content[c]) /\ Shrinks(temp[c], temp[c])
  BY ShrinksItself DEF TypeOK
<1>1. CASE ListCatalogs
  <2>1. gc' \in Collector /\ gc'.pc \in {"images", "list"}
    BY <1>1, CatalogdConstructors, Zenon DEF ListCatalogs, Collector, NoSweep
  <2> QED BY <1>0, <1>1, <2>1, ShrinkingStep DEF ListCatalogs, CollectorOK, disk
<1>2. CASE ReadDir
  <2>1. gc' = [gc EXCEPT !.pc = "sweep", !.entries = Unexpected] BY <1>2 DEF ReadDir
  <2>2. Unexpected \in SUBSET Entry BY DEF Unexpected
  <2>3. gc' \in Collector /\ gc'.pc = "sweep" BY <1>0, <2>1, <2>2, Zenon DEF Collector
  <2> QED BY <1>0, <1>2, <2>3, ShrinkingStep DEF ReadDir, CollectorOK, disk
<1>3. CASE RemoveEntry
  <2>1. gc' \in Collector /\ CollectorOK'
    <3>1. CASE gc' = NoSweep BY <3>1, CatalogdConstructors DEF CollectorOK, NoSweep
    <3>2. CASE gc' # NoSweep
      <4>1. PICK e \in gc.entries :
              gc' = IF e \in Unexpected
                    THEN [gc EXCEPT !.pc = "unlink", !.entries = @ \ {e}, !.cat = e[1], !.dir = e[2]]
                    ELSE [gc EXCEPT !.entries = @ \ {e}]
        BY <1>3, <3>2, ZenonT(30) DEF RemoveEntry
      <4>2. gc.entries \in SUBSET Entry /\ gc.pc = "sweep" BY <1>0, <1>3, Zenon DEF Collector, RemoveEntry
      <4>3. /\ e[1] \in Catalogs /\ (gc.entries \ {e}) \in SUBSET Entry
            /\ e \in Unexpected => e[2] \in {"temp", "content"}
        BY <4>2 DEF Entry, Unexpected
      <4>4. CASE e \in Unexpected
        <5>1. gc' = [gc EXCEPT !.pc = "unlink", !.entries = gc.entries \ {e}, !.cat = e[1], !.dir = e[2]]
          BY <4>1, <4>4
        <5> QED BY <1>0, <4>3, <4>4, <5>1, Zenon DEF Collector, CollectorOK
      <4>5. CASE e \notin Unexpected
        <5>1. gc' = [gc EXCEPT !.entries = gc.entries \ {e}] BY <4>1, <4>5
        <5> QED BY <1>0, <4>2, <4>3, <5>1 DEF Collector, CollectorOK
      <4> QED BY <4>4, <4>5
    <3> QED BY <3>1, <3>2
  <2> QED BY <1>0, <1>3, <2>1, ShrinkingStep, Zenon DEF RemoveEntry, disk
<1>4. CASE UnlinkNext
  <2>1. gc.pc = "unlink" /\ gc.cat \in Catalogs BY <1>4 DEF UnlinkNext, CollectorOK
  <2>2. gc' \in {gc, Swept} BY <1>4 DEF UnlinkNext
  <2>3. gc' \in Collector /\ CollectorOK' BY <1>0, <2>1, <2>2, SweptFacts DEF CollectorOK
  <2>4. CASE gc.dir = "temp"
    <3>1. PICK dir \in Unlink(temp[gc.cat]) : temp' = [temp EXCEPT ![gc.cat] = dir]
      BY <1>4, <2>4 DEF UnlinkNext
    <3>2. content' = content BY <1>4, <2>4 DEF UnlinkNext
    <3>3. Shrinks(temp[gc.cat], dir) BY <1>0, <2>1, <3>1, UnlinkFacts
    <3>4. /\ temp' \in [Catalogs -> Directory]
          /\ \A c \in Catalogs : Shrinks(temp[c], temp'[c])
      BY <1>0, <2>1, <3>1, <3>3 DEF Shrinks
    <3> QED BY <1>0, <1>4, <2>3, <3>2, <3>4, ShrinkingStep DEF UnlinkNext
  <2>5. CASE gc.dir = "content"
    <3>1. PICK dir \in Unlink(content[gc.cat]) : content' = [content EXCEPT ![gc.cat] = dir]
      BY <1>4, <2>5 DEF UnlinkNext
    <3>2. temp' = temp BY <1>4, <2>5 DEF UnlinkNext
    <3>3. Shrinks(content[gc.cat], dir) BY <1>0, <2>1, <3>1, UnlinkFacts
    <3>4. /\ content' \in [Catalogs -> Directory]
          /\ \A c \in Catalogs : Shrinks(content[c], content'[c])
      BY <1>0, <2>1, <3>1, <3>3 DEF Shrinks
    <3> QED BY <1>0, <1>4, <2>3, <3>2, <3>4, ShrinkingStep DEF UnlinkNext
  <2> QED BY <1>4, <2>4, <2>5 DEF UnlinkNext
<1>5. CASE ReadImages
  <2> DEFINE images == {e \in Entry : /\ e[2] = "image" /\ unpacked[e[1]] # EmptyDir
                                      /\ e[1] \notin gc.expected}
  <2>1. gc' = [NoSweep EXCEPT !.pc = "purge", !.entries = images] BY <1>5 DEF ReadImages
  <2>2. images \in SUBSET Entry OBVIOUS
  <2> HIDE DEF images
  <2>3. gc' \in Collector /\ gc'.pc = "purge"
    BY <2>1, <2>2, CatalogdConstructors, Zenon DEF Collector
  <2> QED BY <1>0, <1>5, <2>3, ShrinkingStep DEF ReadImages, CollectorOK, disk
<1>6. CASE RemoveImages
  <2>1. PICK e \in gc.entries :
          \/ /\ Fault /\ gc' = gc
             /\ \E d \in Digests : /\ unpacked[e[1]][d] = "partial"
                                    /\ unpacked' = [unpacked EXCEPT ![e[1]] = LoseFiles(unpacked[e[1]], d)]
          \/ /\ gc' \in {[gc EXCEPT !.entries = gc.entries \ {e}], [gc EXCEPT !.entries = {}]}
             /\ UNCHANGED <<unpacked, bounds>>
    BY <1>6 DEF RemoveImages
  <2>2. gc.entries \in SUBSET Entry /\ gc.pc = "purge" BY <1>0, <1>6 DEF Collector, RemoveImages
  <2>3. e[1] \in Catalogs /\ (gc.entries \ {e}) \in SUBSET Entry BY <2>2 DEF Entry
  <2>4. CASE unpacked' = unpacked /\ gc' # gc
    <3>1. gc' \in Collector /\ gc'.pc = "purge" BY <1>0, <2>1, <2>2, <2>3, <2>4 DEF Collector
    <3>2. UNCHANGED bounds BY <2>1, <2>4
    <3> QED BY <1>0, <1>6, <2>4, <3>1, <3>2, ShrinkingStep DEF RemoveImages, CollectorOK
  <2>5. CASE unpacked' = unpacked /\ gc' = gc
    BY <1>0, <1>6, <2>1, <2>5, ShrinkingStep DEF RemoveImages, CollectorOK
  <2>6. CASE unpacked' # unpacked
    <3>1. Fault /\ gc' = gc /\ UNCHANGED <<registry, api, cached, queue, stored, due, content, temp, work>>
      BY <1>6, <2>1, <2>6 DEF RemoveImages
    <3>2. PICK d \in Digests :
            /\ unpacked[e[1]][d] = "partial"
            /\ unpacked' = [unpacked EXCEPT ![e[1]] = LoseFiles(unpacked[e[1]], d)]
      BY <2>1, <2>6
    <3> QED BY <2>3, <3>1, <3>2, LosingStep
  <2> QED BY <2>4, <2>5, <2>6
<1> QED BY <1>1, <1>2, <1>3, <1>4, <1>5, <1>6 DEF Collect

LEMMA RestartStep == ASSUME CatalogdInv, Restart PROVE CatalogdInv'
<1> USE DEF CatalogdInv
<1> USE CatalogdConstructors
<1>1. /\ changes' \in 0..MaxEvents /\ faults' \in 0..MaxFaults
      /\ changes' + faults' <= MaxEvents /\ changes' = changes
  BY Counts DEF Fault, Restart
<1>2. TypeOK'
  <2>1. /\ stored' \in [Catalogs -> StoredEntry] /\ unpacked' \in [Catalogs -> Dirs]
        /\ content' \in [Catalogs -> Directory] /\ temp' \in [Catalogs -> Directory]
        /\ queue' \subseteq Catalogs
    BY Zenon DEF Restart
  <2> QED BY <1>1, <2>1 DEF Restart, TypeOK, StoredEntry
<1>3. ApiOK' BY <1>1 DEF Restart, ApiOK
<1>4. WorkOK' BY DEF Restart, WorkOK, Idle, None
<1>5. DiskOK' BY MarkersAssumption DEF Restart, DiskOK, Idle, Sound, NoDirectory, EmptyDir, Torn, None
<1>6. HeldOK' BY DEF Restart, HeldOK, Held, Gone
<1>7. CollectorOK' BY DEF Restart, CollectorOK, NoSweep
<1> QED BY <1>2, <1>3, <1>4, <1>5, <1>6, <1>7

-----------------------------------------------------------------------------
(* The reconcile                                                            *)

NoPartials(dirs) == \A c \in Catalogs, d \in Digests : dirs[c][d] # "partial"
RightlyStored(st, con) ==
    \A c \in Catalogs : Sound(con[c]) /\ (st[c] # NotStored => con[c].data \in {None, st[c].ref})

\* What is on disk stays finalized for the catalogs that a step does not touch.
LEMMA OthersHeld ==
    ASSUME CatalogdInv, NEW c \in Catalogs, work.pc = "idle" \/ work.cat = c,
           queue \ {c} \subseteq queue', UNCHANGED <<cached, api>>,
           \A d \in Catalogs \ {c} : content'[d] = content[d] /\ unpacked'[d] = unpacked[d]
    PROVE  \A d \in Catalogs \ {c} : Held(d)'
<1> SUFFICES ASSUME NEW d \in Catalogs \ {c} PROVE Held(d)' OBVIOUS
<1>1. work.cat # d BY MarkersAssumption DEF CatalogdInv, WorkOK, Idle
<1>2. Held(d) BY DEF CatalogdInv, HeldOK
<1> QED BY <1>1, <1>2 DEF Held, Gone

\* The part of the invariant that a step of the reconcile on the disk leaves as it is.
LEMMA ReconcileFrame ==
    ASSUME CatalogdInv, UNCHANGED <<registry, api, cached>>, queue' \subseteq queue, due' \subseteq due,
           Fault \/ UNCHANGED bounds, gc' \in {gc, Swept, [gc EXCEPT !.dir = "content"]},
           stored' \in [Catalogs -> StoredEntry], unpacked' \in [Catalogs -> Dirs],
           content' \in [Catalogs -> Directory], temp' \in [Catalogs -> Directory], work' \in Work
    PROVE  TypeOK' /\ ApiOK' /\ CollectorOK'
<1> USE DEF CatalogdInv
<1>1. /\ changes' \in 0..MaxEvents /\ faults' \in 0..MaxFaults
      /\ changes' + faults' <= MaxEvents /\ changes' = changes
  BY Counts DEF Fault, bounds
<1>2. gc' \in Collector /\ CollectorOK'
  <2>1. gc \in Collector BY DEF TypeOK
  <2>2. CASE gc' \in {gc, Swept} BY <2>1, <2>2, SweptFacts DEF CollectorOK
  <2>3. CASE gc' = [gc EXCEPT !.dir = "content"]
    <3>1. gc' \in Collector /\ gc'.pc = gc.pc /\ gc'.cat = gc.cat BY <2>1, <2>3 DEF Collector
    <3> QED BY <3>1 DEF CollectorOK
  <2> QED BY <2>2, <2>3
<1>3. TypeOK' BY <1>1, <1>2 DEF TypeOK, StoredEntry
<1>4. ApiOK' BY <1>1 DEF ApiOK
<1> QED BY <1>2, <1>3, <1>4

\* A step after which the reconcile of c goes on to write its status.
LEMMA FinishStep ==
    ASSUME CatalogdInv, NEW c \in Catalogs, NEW seen \in Catalog, NEW s \in Status,
           NEW f \in BOOLEAN, NEW e \in Errors, Finish(c, seen, s, f, e),
           work.pc = "idle" \/ work.cat = c,
           seen.exists, c \in queue' \/ cached[c] = seen,
           UNCHANGED <<registry, api, cached>>, queue' \subseteq queue, queue \ {c} \subseteq queue',
           due' \subseteq due, Fault \/ UNCHANGED bounds,
           gc' \in {gc, Swept, [gc EXCEPT !.dir = "content"]},
           stored' \in [Catalogs -> StoredEntry], unpacked' \in [Catalogs -> Dirs],
           content' \in [Catalogs -> Directory], temp' \in [Catalogs -> Directory],
           \A d \in Catalogs \ {c} : content'[d] = content[d] /\ unpacked'[d] = unpacked[d],
           e = "terminal" => f /\ seen.finalizer,
           ~f => Gone(c)' \/ e = "retry",
           s.ref \in {None, seen.status.ref} \/ content'[c].data \in {None, s.ref},
           NoPartials(unpacked'), RightlyStored(stored', content')
    PROVE  CatalogdInv'
<1>1. /\ work' \in Work /\ work'.pc = "update" /\ work'.cat = c /\ work'.seen = seen
      /\ work'.status = s /\ work'.finalizer = f /\ work'.error = e
  BY FinishFacts
<1>2. TypeOK' /\ ApiOK' /\ CollectorOK' BY <1>1, ReconcileFrame
<1>3. WorkOK' BY <1>1 DEF WorkOK, Gone
<1>4. DiskOK' BY <1>1 DEF DiskOK, NoPartials, RightlyStored
<1>5. HeldOK'
  <2>1. Held(c)' BY <1>1 DEF Held
  <2>2. \A d \in Catalogs \ {c} : Held(d)' BY OthersHeld
  <2> QED BY <2>1, <2>2 DEF HeldOK
<1> QED BY <1>2, <1>3, <1>4, <1>5 DEF CatalogdInv

\* What the reconcile knows of its catalog while it unpacks and stores.
UnpackingPCs == {"pull", "unpack", "write", "index", "swap", "rename"}
LEMMA UnpackingFacts ==
    ASSUME CatalogdInv, work.pc \in UnpackingPCs
    PROVE  /\ work.cat \in Catalogs /\ work.seen \in Catalog /\ work.seen.exists
           /\ work.cat \in queue \/ cached[work.cat] = work.seen
           /\ work.seen.finalizer = TRUE /\ work.seen.gen \in Gens /\ work.seen.status \in Status
           /\ work.seen.ref \in Refs /\ work \in Work
           /\ work.pc # "pull" => work.digest \in Digests
           /\ work.error # "terminal" \/ work.finalizer
<1>1. work \in Work /\ work.pc # "idle" BY DEF CatalogdInv, TypeOK, UnpackingPCs
<1>2. work.seen \in Catalog BY <1>1 DEF Work
<1>3. /\ work.seen.finalizer \in BOOLEAN /\ work.seen.gen \in Gens /\ work.seen.status \in Status
      /\ work.seen.ref \in Refs
  BY <1>2 DEF Catalog
<1>4. /\ work.cat \in Catalogs /\ work.seen.exists
      /\ work.cat \in queue \/ cached[work.cat] = work.seen
      /\ work.seen.finalizer
      /\ work.pc # "pull" => work.digest \in Digests
      /\ work.error # "terminal" \/ work.finalizer
  BY <1>1 DEF CatalogdInv, WorkOK, UnpackingPCs
<1> QED BY <1>1, <1>2, <1>3, <1>4

\* A failure while the image is unpacked or stored.
LEMMA UnpackFailedStep ==
    ASSUME CatalogdInv, work.pc \in UnpackingPCs, NEW e \in {"retry", "terminal"}, UnpackFailed(e),
           UNCHANGED <<registry, api, cached, queue, due, content, gc>>,
           Fault \/ UNCHANGED bounds, unpacked' \in [Catalogs -> Dirs],
           temp' \in [Catalogs -> Directory],
           \A d \in Catalogs \ {work.cat} : unpacked'[d] = unpacked[d],
           NoPartials(unpacked')
    PROVE  CatalogdInv'
<1> DEFINE c == work.cat
           s == UpdateStatusProgressing(work.seen.status, work.seen.gen, e)
<1>1. /\ c \in Catalogs /\ work.seen \in Catalog /\ work.seen.exists
      /\ c \in queue \/ cached[c] = work.seen
      /\ work.seen.finalizer = TRUE /\ work.seen.gen \in Gens /\ work.seen.status \in Status
  BY UnpackingFacts, Zenon
<1>2. e \in Errors BY DEF Errors
<1>3. s \in Status /\ s.ref = work.seen.status.ref
  <2>1. \A d \in Digests : s \in Status /\ s.ref = work.seen.status.ref
    BY <1>1, <1>2, StatusTypes
  <2>2. registry \in Digests BY DEF CatalogdInv, TypeOK
  <2> QED BY <2>1, <2>2
<1>4. stored' = [stored EXCEPT ![c] = NotStored] BY DEF UnpackFailed, DeleteStored
<1>5. stored \in [Catalogs -> StoredEntry] /\ content \in [Catalogs -> Directory]
  BY DEF CatalogdInv, TypeOK, StoredEntry
<1>6. stored' \in [Catalogs -> StoredEntry] BY <1>4, <1>5, CatalogdConstructors, Zenon
<1>7. RightlyStored(stored', content')
  BY <1>1, <1>4, <1>5 DEF RightlyStored, CatalogdInv, DiskOK
<1>8. Finish(c, work.seen, s, TRUE, e) BY <1>1, Zenon DEF UnpackFailed
<1> HIDE DEF c, s
<1>9. work.cat = c BY DEF c
<1> QED BY <1>1, <1>2, <1>3, <1>5, <1>6, <1>7, <1>8, <1>9, FinishStep, Zenon

\* A step of the unpacking and storing to the next.
LEMMA AdvanceStep ==
    ASSUME CatalogdInv, work.pc \in UnpackingPCs, work'.pc \in UnpackingPCs \ {"pull"}, work' \in Work,
           work'.cat = work.cat, work'.seen = work.seen, work'.finalizer = work.finalizer,
           work'.error = work.error, work'.digest \in Digests,
           UNCHANGED <<registry, api, cached, queue, stored, due, bounds>>,
           gc' \in {gc, Swept, [gc EXCEPT !.dir = "content"]},
           unpacked' \in [Catalogs -> Dirs],
           content' \in [Catalogs -> Directory], temp' \in [Catalogs -> Directory],
           \A d \in Catalogs \ {work.cat} : content'[d] = content[d] /\ unpacked'[d] = unpacked[d],
           DiskOK'
    PROVE  CatalogdInv'
<1>0. stored \in [Catalogs -> StoredEntry] BY DEF CatalogdInv, TypeOK, StoredEntry
<1>1. TypeOK' /\ ApiOK' /\ CollectorOK' BY <1>0, ReconcileFrame
<1>2. WorkOK' BY DEF WorkOK, CatalogdInv, UnpackingPCs
<1>3. HeldOK'
  <2>1. work.cat \in Catalogs BY UnpackingFacts, Zenon
  <2>2. \A d \in Catalogs \ {work.cat} : Held(d)' BY <2>1, OthersHeld
  <2>3. Held(work.cat)'
    <3>1. PICK c \in Catalogs : c = work.cat BY <2>1
    <3>2. Held(c)' BY <3>1 DEF Held
    <3> QED BY <3>1, <3>2 DEF Held, Gone
  <2>4. ASSUME NEW d \in Catalogs PROVE Held(d)'
    BY <2>2 DEF Held
  <2> QED BY <2>4 DEF HeldOK
<1> QED BY <1>1, <1>2, <1>3 DEF CatalogdInv

LEMMA PullStep == ASSUME CatalogdInv, Pull \/ PullFails PROVE CatalogdInv'
<1>0. work.pc = "pull" /\ work.pc \in UnpackingPCs BY DEF Pull, PullFails, UnpackingPCs
<1> DEFINE c == work.cat
           d == ResolveCanonicalRef(work.seen.ref, registry)
<1>1. /\ c \in Catalogs /\ work.seen \in Catalog /\ work \in Work /\ work.seen.ref \in Refs
  BY <1>0, UnpackingFacts
<1>2. d \in Digests BY <1>1 DEF ResolveCanonicalRef, Refs, CatalogdInv, TypeOK
<1>3. /\ unpacked \in [Catalogs -> Dirs] /\ content \in [Catalogs -> Directory]
      /\ temp \in [Catalogs -> Directory] /\ unpacked[c] \in Dirs /\ unpacked[c][d] \in Entries
  BY <1>1, <1>2 DEF CatalogdInv, TypeOK, Dirs
<1>4. NoPartials(unpacked) BY <1>0 DEF CatalogdInv, DiskOK, NoPartials
<1>5. CASE PullFails
  BY <1>0, <1>3, <1>4, <1>5, UnpackFailedStep DEF PullFails, disk
<1>6. CASE Pull
  <2>0. UNCHANGED <<registry, api, cached, queue, due, content, temp, gc, bounds>>
    BY <1>6 DEF Pull
  <2>1. CASE Fetch(unpacked[c], d)
    <3>1. work' = [work EXCEPT !.pc = "write", !.digest = d] /\ UNCHANGED <<unpacked, stored>>
      BY <1>6, <2>1 DEF Pull
    <3>2. /\ work' \in Work /\ work'.pc = "write" /\ work'.digest = d /\ work'.cat = c
          /\ work'.seen = work.seen /\ work'.finalizer = work.finalizer /\ work'.error = work.error
      BY <1>1, <1>2, <3>1, Zenon DEF Work, PCs
    <3>3. unpacked[c][d] \in Ended
      BY <1>1, <1>2, <1>3, <1>4, <2>1 DEF Fetch, Entries, NoPartials, Ended
    <3> HIDE DEF c, d
    <3>4. DiskOK'
      BY <1>4, <2>0, <3>1, <3>2, <3>3 DEF DiskOK, CatalogdInv, NoPartials
    <3>5. work'.cat = work.cat BY <3>2 DEF c
    <3> QED BY <1>0, <1>2, <1>3, <2>0, <3>1, <3>2, <3>4, <3>5, AdvanceStep DEF UnpackingPCs
  <2>2. CASE ~Fetch(unpacked[c], d) /\ Filter(work.seen.ref, d) = "ok"
    <3>1. /\ work' = [work EXCEPT !.pc = "unpack", !.digest = d] /\ stored' = stored
          /\ unpacked' = [unpacked EXCEPT ![c] = StoreBegin(unpacked[c], d)]
      BY <1>6, <2>2 DEF Pull
    <3>2. /\ work' \in Work /\ work'.pc = "unpack" /\ work'.digest = d /\ work'.cat = c
          /\ work'.seen = work.seen /\ work'.finalizer = work.finalizer /\ work'.error = work.error
      BY <1>1, <1>2, <3>1, Zenon DEF Work, PCs
    <3>3. StoreBegin(unpacked[c], d) \in Dirs BY <1>2, <1>3 DEF StoreBegin, Dirs, Entries
    <3>4. /\ unpacked' \in [Catalogs -> Dirs]
          /\ \A x \in Catalogs \ {c} : unpacked'[x] = unpacked[x]
          /\ unpacked'[c] = StoreBegin(unpacked[c], d)
      BY <1>1, <1>3, <3>1, <3>3
    <3>5. \A x \in Catalogs, y \in Digests : unpacked'[x][y] = "partial" => x = c /\ y = d
      BY <1>1, <1>2, <1>3, <1>4, <3>4 DEF NoPartials, StoreBegin, Dirs
    <3> HIDE DEF d
    <3>6. DiskOK'
      BY <2>0, <3>1, <3>2, <3>5 DEF DiskOK, CatalogdInv
    <3> QED BY <1>0, <1>2, <1>3, <2>0, <3>1, <3>2, <3>4, <3>6, AdvanceStep DEF UnpackingPCs
  <2>3. CASE ~Fetch(unpacked[c], d) /\ Filter(work.seen.ref, d) # "ok"
    <3>1. UnpackFailed(Filter(work.seen.ref, d)) /\ unpacked' = unpacked
      BY <1>6, <2>3 DEF Pull
    <3>2. Filter(work.seen.ref, d) \in {"retry", "terminal"} BY <2>3 DEF Filter
    <3> QED BY <1>0, <1>3, <1>4, <1>6, <3>1, <3>2, UnpackFailedStep DEF Pull
  <2> QED BY <2>1, <2>2, <2>3
<1> QED BY <1>5, <1>6

LEMMA UnpackStep == ASSUME CatalogdInv, Unpack \/ UnpackFails PROVE CatalogdInv'
<1>0. work.pc = "unpack" /\ work.pc \in UnpackingPCs BY DEF Unpack, UnpackFails, UnpackingPCs
<1> DEFINE c == work.cat
           d == work.digest
<1>1. c \in Catalogs /\ work.seen \in Catalog /\ work \in Work /\ d \in Digests
  BY <1>0, UnpackingFacts
<1>3. /\ unpacked \in [Catalogs -> Dirs] /\ content \in [Catalogs -> Directory]
      /\ temp \in [Catalogs -> Directory] /\ unpacked[c] \in Dirs
  BY <1>1 DEF CatalogdInv, TypeOK
<1>4. \A x \in Catalogs, y \in Digests : unpacked[x][y] = "partial" => x = c /\ y = d
  BY <1>0 DEF CatalogdInv, DiskOK
<1>5. CASE UnpackFails
  <2>1. unpacked' = [unpacked EXCEPT ![c] = StoreFailed(unpacked[c], d)] /\ UnpackFailed("retry")
    BY <1>5 DEF UnpackFails
  <2>2. StoreFailed(unpacked[c], d) \in Dirs BY <1>1, <1>3 DEF StoreFailed, Dirs, Entries
  <2>3. /\ unpacked' \in [Catalogs -> Dirs]
        /\ \A x \in Catalogs \ {c} : unpacked'[x] = unpacked[x]
        /\ unpacked'[c] = StoreFailed(unpacked[c], d)
    BY <1>1, <1>3, <2>1, <2>2
  <2>4. NoPartials(unpacked') BY <1>1, <1>3, <1>4, <2>3 DEF NoPartials, StoreFailed, Dirs
  <2> QED BY <1>0, <1>3, <1>5, <2>1, <2>3, <2>4, UnpackFailedStep DEF UnpackFails
<1>6. CASE Unpack
  <2> DEFINE dir == GarbageCollect(StoreEnd(unpacked[c], d), d)
  <2>1. unpacked' = [unpacked EXCEPT ![c] = dir] /\ work' = [work EXCEPT !.pc = "write"]
    BY <1>6 DEF Unpack
  <2>2. /\ work' \in Work /\ work'.pc = "write" /\ work'.digest = d /\ work'.cat = c
        /\ work'.seen = work.seen /\ work'.finalizer = work.finalizer /\ work'.error = work.error
    BY <1>1, <2>1 DEF Work, PCs
  <2>3. StoreEnd(unpacked[c], d) \in Dirs /\ StoreEnd(unpacked[c], d)[d] \in Ended
    BY <1>1, <1>3 DEF StoreEnd, Dirs, Entries, Ended
  <2>4. dir \in Dirs /\ dir[d] \in Ended /\ \A y \in Digests : dir[y] # "partial"
    BY <1>1, <2>3 DEF GarbageCollect, Dirs, Entries, Ended
  <2>5. /\ unpacked' \in [Catalogs -> Dirs] /\ unpacked'[c] = dir
        /\ \A x \in Catalogs \ {c} : unpacked'[x] = unpacked[x]
    BY <1>1, <1>3, <2>1, <2>4
  <2>6. NoPartials(unpacked') BY <1>4, <2>4, <2>5 DEF NoPartials
  <2>7. DiskOK'
    BY <1>6, <2>2, <2>4, <2>5, <2>6 DEF Unpack, DiskOK, CatalogdInv, NoPartials
  <2> QED BY <1>0, <1>1, <1>3, <1>6, <2>2, <2>5, <2>7, AdvanceStep DEF Unpack, UnpackingPCs
<1> QED BY <1>5, <1>6

LEMMA StoringFacts ==
    ASSUME CatalogdInv, work.pc \in {"write", "index", "swap", "rename"}
    PROVE  /\ work.pc \in UnpackingPCs /\ work.cat \in Catalogs /\ work \in Work
           /\ work.digest \in Digests /\ NoPartials(unpacked)
           /\ unpacked \in [Catalogs -> Dirs] /\ content \in [Catalogs -> Directory]
           /\ temp \in [Catalogs -> Directory] /\ stored \in [Catalogs -> StoredEntry]
           /\ RightlyStored(stored, content)
           /\ work.pc \in {"write", "index"} => Metas(work.cat) = work.digest
<1>1. work.pc \in UnpackingPCs BY DEF UnpackingPCs
<1>2. NoPartials(unpacked) /\ RightlyStored(stored, content)
  BY DEF CatalogdInv, DiskOK, NoPartials, RightlyStored
<1>3. work.pc \in {"write", "index"} => Metas(work.cat) = work.digest
  BY DEF CatalogdInv, DiskOK, Metas, Ended
<1> QED BY <1>1, <1>2, <1>3, UnpackingFacts, Zenon DEF CatalogdInv, TypeOK, StoredEntry

LEMMA WriteStep == ASSUME CatalogdInv, WriteCatalog \/ WriteIndex \/ WriteFails PROVE CatalogdInv'
<1> DEFINE c == work.cat
           d == work.digest
<1>0. work.pc \in {"write", "index"} BY DEF WriteCatalog, WriteIndex, WriteFails
<1>1. /\ work.pc \in UnpackingPCs /\ c \in Catalogs /\ work \in Work
      /\ d \in Digests /\ NoPartials(unpacked)
      /\ unpacked \in [Catalogs -> Dirs] /\ content \in [Catalogs -> Directory]
      /\ temp \in [Catalogs -> Directory] /\ Metas(c) = d
      /\ unpacked[c][d] \in Ended /\ temp[c] \in Directory
  BY <1>0, StoringFacts DEF CatalogdInv, DiskOK
<1>2. d \in Files /\ None \in Files BY <1>1 DEF Files
<1>3. CASE WriteCatalog
  <2> DEFINE dir == [exists |-> TRUE, data |-> d, index |-> None, lossy |-> unpacked[c][d] = "lossy"]
  <2>1. /\ temp' = [temp EXCEPT ![c] = dir] /\ work' = [work EXCEPT !.pc = "index"]
        /\ gc' \in {gc, Swept}
        /\ UNCHANGED <<registry, api, cached, queue, stored, due, unpacked, content, bounds>>
    BY <1>1, <1>3 DEF WriteCatalog
  <2>2. /\ work' \in Work /\ work'.pc = "index" /\ work'.digest = d /\ work'.cat = c
        /\ work'.seen = work.seen /\ work'.finalizer = work.finalizer /\ work'.error = work.error
    BY <1>1, <2>1 DEF Work, PCs
  <2>3. dir \in Directory BY <1>2 DEF Directory
  <2>4. temp' \in [Catalogs -> Directory] /\ temp'[c] = dir BY <1>1, <2>1, <2>3
  <2>5. DiskOK' BY <1>1, <2>1, <2>2, <2>4 DEF DiskOK, CatalogdInv, NoPartials
  <2> QED BY <1>1, <2>1, <2>2, <2>4, <2>5, AdvanceStep DEF UnpackingPCs
<1>4. CASE WriteIndex /\ temp[c].exists
  <2>1. /\ temp' = [temp EXCEPT ![c].index = d] /\ work' = [work EXCEPT !.pc = "swap"]
        /\ UNCHANGED <<registry, api, cached, queue, stored, due, unpacked, content, gc, bounds>>
    BY <1>1, <1>4 DEF WriteIndex
  <2>2. /\ work' \in Work /\ work'.pc = "swap" /\ work'.digest = d /\ work'.cat = c
        /\ work'.seen = work.seen /\ work'.finalizer = work.finalizer /\ work'.error = work.error
    BY <1>1, <2>1 DEF Work, PCs
  <2>3. /\ temp' \in [Catalogs -> Directory]
        /\ temp'[c].index = d /\ temp'[c].data = temp[c].data
    BY <1>1, <1>2, <2>1 DEF Directory
  <2>4. temp[c].data \in {None, d} BY <1>4 DEF CatalogdInv, DiskOK, WriteIndex
  <2>5. DiskOK' BY <1>1, <2>1, <2>2, <2>3, <2>4 DEF DiskOK, CatalogdInv, NoPartials
  <2> QED BY <1>1, <2>1, <2>2, <2>3, <2>5, AdvanceStep DEF UnpackingPCs
<1>5. CASE WriteIndex /\ ~temp[c].exists
  BY <1>1, <1>5, UnpackFailedStep DEF WriteIndex
<1>6. CASE WriteFails
  <2>1. temp' \in [Catalogs -> Directory]
    BY <1>1, <1>6, CatalogdConstructors DEF WriteFails
  <2> QED BY <1>1, <1>6, <2>1, UnpackFailedStep DEF WriteFails
<1> QED BY <1>3, <1>4, <1>5, <1>6

LEMMA RemoveOldStep == ASSUME CatalogdInv, RemoveOld PROVE CatalogdInv'
<1> DEFINE c == work.cat
           d == work.digest
<1>0. /\ work.pc = "swap" /\ content' = [content EXCEPT ![c] = NoDirectory]
      /\ gc' \in {gc, Swept} /\ work' = [work EXCEPT !.pc = "rename"]
      /\ UNCHANGED <<registry, api, cached, queue, stored, due, unpacked, temp, bounds>>
  BY DEF RemoveOld
<1>1. /\ work.pc \in UnpackingPCs /\ c \in Catalogs /\ work \in Work
      /\ d \in Digests /\ NoPartials(unpacked)
      /\ unpacked \in [Catalogs -> Dirs] /\ content \in [Catalogs -> Directory]
      /\ temp \in [Catalogs -> Directory] /\ RightlyStored(stored, content)
  BY <1>0, StoringFacts
<1>2. /\ work' \in Work /\ work'.pc = "rename" /\ work'.digest = d /\ work'.cat = c
      /\ work'.seen = work.seen /\ work'.finalizer = work.finalizer /\ work'.error = work.error
  BY <1>0, <1>1 DEF Work, PCs
<1>3. content' \in [Catalogs -> Directory] /\ content'[c] = NoDirectory
      /\ \A x \in Catalogs \ {c} : content'[x] = content[x]
  BY <1>0, <1>1, CatalogdConstructors
<1>4. RightlyStored(stored', content')
  BY <1>0, <1>1, <1>3 DEF RightlyStored, Sound, NoDirectory, None, Torn
<1>5. DiskOK'
  BY <1>0, <1>1, <1>2, <1>4 DEF DiskOK, CatalogdInv, NoPartials, RightlyStored
<1> QED BY <1>0, <1>1, <1>2, <1>3, <1>5, AdvanceStep DEF UnpackingPCs

LEMMA RenameStep == ASSUME CatalogdInv, RenameTemp PROVE CatalogdInv'
<1> DEFINE c == work.cat
           d == work.digest
           t == UpdateStatusProgressing(work.seen.status, work.seen.gen, None)
           s == UpdateStatusServing(t, d, work.seen.gen)
<1>0. /\ work.pc = "rename" /\ temp' = [temp EXCEPT ![c] = NoDirectory]
      /\ UNCHANGED <<registry, api, cached, queue, unpacked, bounds>>
  BY DEF RenameTemp
<1>1. /\ work.pc \in UnpackingPCs /\ c \in Catalogs /\ work \in Work
      /\ d \in Digests /\ NoPartials(unpacked)
      /\ unpacked \in [Catalogs -> Dirs] /\ content \in [Catalogs -> Directory]
      /\ temp \in [Catalogs -> Directory] /\ stored \in [Catalogs -> StoredEntry]
      /\ RightlyStored(stored, content)
  BY <1>0, StoringFacts
<1>2. temp' \in [Catalogs -> Directory] BY <1>0, <1>1, CatalogdConstructors
<1>3. CASE ~temp[c].exists
  BY <1>0, <1>1, <1>2, <1>3, UnpackFailedStep DEF RenameTemp
<1>4. CASE temp[c].exists
  <2>1. /\ content' = [content EXCEPT ![c] = temp[c]]
        /\ gc' \in {gc, [gc EXCEPT !.dir = "content"]}
        /\ stored' = [stored EXCEPT ![c] = StoredData] /\ due' \subseteq due
        /\ Finish(c, work.seen, s, work.seen.finalizer, None)
    BY <1>4 DEF RenameTemp
  <2>2. /\ work.seen \in Catalog /\ work.seen.exists
        /\ c \in queue \/ cached[c] = work.seen
        /\ work.seen.finalizer = TRUE /\ work.seen.gen \in Gens /\ work.seen.status \in Status
    BY <1>1, UnpackingFacts, Zenon
  <2>3. None \in Errors BY DEF Errors
  <2>4. t \in Status BY <1>1, <2>2, <2>3, StatusTypes
  <2>5. s \in Status /\ s.ref = d BY <1>1, <2>2, <2>3, <2>4, StatusTypes
  <2>6. StoredData \in StoredEntry /\ StoredData.ref = d
    BY <1>1, <2>2 DEF StoredData, StoredEntry
  <2>7. /\ content' \in [Catalogs -> Directory] /\ content'[c] = temp[c]
        /\ \A x \in Catalogs \ {c} : content'[x] = content[x]
        /\ stored' \in [Catalogs -> StoredEntry] /\ stored'[c] = StoredData
        /\ \A x \in Catalogs \ {c} : stored'[x] = stored[x]
    BY <1>1, <2>1, <2>6
  <2>8. temp[c].data \in {None, d} /\ temp[c].index \in {None, d}
    BY <1>0 DEF CatalogdInv, DiskOK
  <2>9. d # Torn /\ None # Torn BY <1>1, MarkersAssumption DEF None, Torn
  <2>10. RightlyStored(stored', content')
    BY <1>1, <2>6, <2>7, <2>8, <2>9 DEF RightlyStored, Sound
  <2>11. None # "terminal" BY DEF None
  <2>12. work.cat = c OBVIOUS
  <2> HIDE DEF c, d, t, s
  <2> QED BY <1>0, <1>1, <1>2, <2>1, <2>2, <2>3, <2>5, <2>7, <2>8, <2>10, <2>11, <2>12, FinishStep, ZenonT(30)
<1> QED BY <1>3, <1>4

LEMMA WithdrawStep ==
    ASSUME CatalogdInv, NEW c \in Catalogs, work.pc = "idle", queue' = queue \ {c},
           UNCHANGED <<registry, api, cached, due, gc>>, Withdraw(c) \/ WithdrawFails(c)
    PROVE  CatalogdInv'
<1> DEFINE cat == cached[c]
           gone == UpdateStatusNotServing(cat.status, cat.gen)
<1>1. /\ cat \in Catalog /\ cat.gen \in Gens /\ cat.status \in Status /\ cat.finalizer \in BOOLEAN
      /\ unpacked \in [Catalogs -> Dirs] /\ content \in [Catalogs -> Directory]
      /\ temp \in [Catalogs -> Directory] /\ stored \in [Catalogs -> StoredEntry]
      /\ registry \in Digests
  BY DEF CatalogdInv, TypeOK, StoredEntry, Catalog
<1>2. NoPartials(unpacked) /\ RightlyStored(stored, content)
  BY DEF CatalogdInv, DiskOK, NoPartials, RightlyStored
<1>3. cat.exists BY Zenon DEF Withdraw, WithdrawFails, Withdrawn
<1>4. /\ stored' = [stored EXCEPT ![c] = NotStored] /\ temp' = temp
  BY Zenon DEF Withdraw, WithdrawFails, DeleteStored
<1>5. /\ stored' \in [Catalogs -> StoredEntry] /\ stored'[c] = NotStored
      /\ \A x \in Catalogs \ {c} : stored'[x] = stored[x]
  BY <1>1, <1>4, CatalogdConstructors
<1>6. /\ {None, "retry"} \subseteq Errors /\ None # "terminal" BY DEF Errors, None
<1>7. gone \in Status /\ gone.ref = None BY <1>1, <1>6, StatusTypes
<1>8. \A con \in {content, [content EXCEPT ![c] = NoDirectory]} :
        /\ con \in [Catalogs -> Directory] /\ RightlyStored(stored', con)
        /\ \A x \in Catalogs \ {c} : con[x] = content[x]
  <2>1. RightlyStored(stored', content) BY <1>2, <1>5 DEF RightlyStored
  <2> DEFINE con == [content EXCEPT ![c] = NoDirectory]
  <2>2. con \in [Catalogs -> Directory] /\ con[c] = NoDirectory
        /\ \A x \in Catalogs \ {c} : con[x] = content[x]
    BY <1>1, CatalogdConstructors
  <2> HIDE DEF con
  <2>3. RightlyStored(stored', con)
    BY <1>2, <1>5, <2>2 DEF RightlyStored, Sound, NoDirectory, None, Torn
  <2> QED BY <1>1, <2>1, <2>2, <2>3, Zenon DEF con
<1>9. CASE Withdraw(c)
  <2> DEFINE s == IF cat.available THEN gone
                  ELSE UpdateStatusUserSpecifiedUnavailable(gone, cat.gen)
  <2>1. /\ content' = [content EXCEPT ![c] = NoDirectory]
        /\ unpacked' = [unpacked EXCEPT ![c] = EmptyDir]
        /\ Finish(c, cat, s, FALSE, None) /\ UNCHANGED bounds
    BY <1>9, Zenon DEF Withdraw
  <2>2. s \in Status /\ s.ref = None BY <1>1, <1>6, <1>7, StatusTypes
  <2>3. /\ unpacked' \in [Catalogs -> Dirs] /\ unpacked'[c] = EmptyDir
        /\ \A x \in Catalogs \ {c} : unpacked'[x] = unpacked[x]
    BY <1>1, <2>1, CatalogdConstructors, ZenonT(30)
  <2>4. NoPartials(unpacked') BY <1>2, <2>3 DEF NoPartials, EmptyDir
  <2>5. content' \in [Catalogs -> Directory] /\ RightlyStored(stored', content')
        /\ \A x \in Catalogs \ {c} : content'[x] = content[x]
    BY <1>8, <2>1
  <2>6. Gone(c)' BY <1>1, <2>1, <2>3 DEF Gone
  <2> HIDE DEF s, cat
  <2>7. cached[c] = cat BY DEF cat
  <2> QED BY <1>1, <1>3, <1>4, <1>5, <1>6, <2>1, <2>2, <2>3, <2>4, <2>5, <2>6, <2>7, FinishStep, Zenon
<1>10. CASE WithdrawFails(c)
  <2>1. PICK deleted \in BOOLEAN :
          /\ content' = IF deleted THEN [content EXCEPT ![c] = NoDirectory] ELSE content
          /\ Finish(c, cat, UpdateStatusProgressing(IF deleted THEN gone ELSE cat.status, cat.gen, "retry"),
                    cat.finalizer, "retry")
    BY <1>10 DEF WithdrawFails
  <2> DEFINE s == UpdateStatusProgressing(IF deleted THEN gone ELSE cat.status, cat.gen, "retry")
  <2>2. s \in Status /\ s.ref \in {None, cat.status.ref} BY <1>1, <1>6, <1>7, StatusTypes
  <2>3. content' \in [Catalogs -> Directory] /\ RightlyStored(stored', content')
        /\ \A x \in Catalogs \ {c} : content'[x] = content[x]
    BY <1>8, <2>1
  <2>4. Fault /\ unpacked' = unpacked BY <1>10 DEF WithdrawFails
  <2>5. Finish(c, cat, s, cat.finalizer, "retry") BY <2>1
  <2>6. cached[c] = cat /\ (Finish(c, cat, s, TRUE, "retry") \/ Finish(c, cat, s, FALSE, "retry"))
    BY <1>1, <2>5, Zenon
  <2>7. /\ "retry" \in Errors /\ queue' \subseteq queue /\ queue \ {c} \subseteq queue'
        /\ NoPartials(unpacked')
    BY <1>2, <1>6, <2>4
  <2> HIDE DEF s, cat
  <2>8. CASE Finish(c, cat, s, TRUE, "retry")
    BY <1>1, <1>3, <1>4, <1>5, <2>2, <2>3, <2>4, <2>6, <2>7, <2>8, FinishStep, Zenon
  <2>9. CASE Finish(c, cat, s, FALSE, "retry")
    BY <1>1, <1>3, <1>4, <1>5, <2>2, <2>3, <2>4, <2>6, <2>7, <2>9, FinishStep, Zenon
  <2> QED BY <2>6, <2>8, <2>9, Zenon
<1> QED BY <1>9, <1>10

\* A reconcile that ends or starts without a change of the disk.
LEMMA BeginPlain ==
    ASSUME CatalogdInv, NEW c \in Catalogs, work.pc = "idle", queue' = queue \ {c},
           UNCHANGED <<registry, api, cached, due, gc>>, UNCHANGED <<stored, disk, bounds>>
    PROVE  /\ Nothing(c) \/ UpToDate(c) => CatalogdInv'
           /\ AddFinalizer(c) \/ StartUnpack(c) => CatalogdInv'
<1>1. /\ cached[c] \in Catalog /\ cached[c].status \in Status
      /\ unpacked \in [Catalogs -> Dirs] /\ content \in [Catalogs -> Directory]
      /\ temp \in [Catalogs -> Directory] /\ stored \in [Catalogs -> StoredEntry]
      /\ UNCHANGED <<unpacked, content, temp>>
  BY DEF CatalogdInv, TypeOK, StoredEntry, Catalog, disk
<1>2. NoPartials(unpacked) /\ RightlyStored(stored, content)
  BY DEF CatalogdInv, DiskOK, NoPartials, RightlyStored
<1>3. ASSUME Nothing(c) \/ UpToDate(c) PROVE CatalogdInv'
  <2>1. work' = Idle BY <1>3 DEF Nothing, UpToDate
  <2>2. TypeOK' /\ ApiOK' /\ CollectorOK'
    BY <1>1, <2>1, CatalogdConstructors, ReconcileFrame
  <2>3. WorkOK' BY <2>1 DEF WorkOK, Idle, None
  <2>4. DiskOK' BY <1>1, <1>2, <2>1 DEF DiskOK, Idle, NoPartials, RightlyStored
  <2>5. Held(c)'
    BY <1>3 DEF Held, Nothing, UpToDate, Ready, CatalogdInv, ApiOK
  <2>6. \A d \in Catalogs \ {c} : Held(d)' BY <1>1, OthersHeld
  <2> QED BY <2>2, <2>3, <2>4, <2>5, <2>6 DEF CatalogdInv, HeldOK
<1>4. ASSUME AddFinalizer(c) PROVE CatalogdInv'
  <2>1. cached[c].exists /\ Finish(c, cached[c], cached[c].status, TRUE, None)
    BY <1>4, Zenon DEF AddFinalizer
  <2>2. None \in Errors /\ None # "terminal" BY DEF Errors, None
  <2>3. PICK s \in Status : s = cached[c].status BY <1>1
  <2>4. PICK seen \in Catalog : seen = cached[c] BY <1>1
  <2> QED BY <1>1, <1>2, <2>1, <2>2, <2>3, <2>4, FinishStep, Zenon
<1>5. ASSUME StartUnpack(c) PROVE CatalogdInv'
  <2>1. /\ cached[c].exists /\ cached[c].finalizer
        /\ work' = [Idle EXCEPT !.pc = "pull", !.cat = c, !.seen = cached[c]]
    BY <1>5 DEF StartUnpack, Ready
  <2>2. /\ work' \in Work /\ work'.pc = "pull" /\ work'.cat = c /\ work'.seen = cached[c]
        /\ work'.error = None
    BY <1>1, <2>1, CatalogdConstructors, Zenon DEF Idle, Work, PCs
  <2>3. TypeOK' /\ ApiOK' /\ CollectorOK' BY <1>1, <2>2, ReconcileFrame
  <2>4. WorkOK' BY <2>1, <2>2 DEF WorkOK, None
  <2>5. DiskOK' BY <1>1, <1>2, <2>2 DEF DiskOK, NoPartials, RightlyStored
  <2>6. Held(c)' BY <2>2 DEF Held
  <2>7. \A d \in Catalogs \ {c} : Held(d)' BY <1>1, OthersHeld
  <2> QED BY <2>3, <2>4, <2>5, <2>6, <2>7 DEF CatalogdInv, HeldOK
<1> QED BY <1>3, <1>4, <1>5

LEMMA BeginStep == ASSUME CatalogdInv, NEW c \in Catalogs, Begin(c) PROVE CatalogdInv'
<1>1. /\ work.pc = "idle" /\ queue' = queue \ {c} /\ UNCHANGED <<registry, api, cached, due, gc>>
  BY DEF Begin
<1>2. CASE Withdraw(c) \/ WithdrawFails(c) BY <1>1, <1>2, WithdrawStep
<1>3. CASE Nothing(c) \/ UpToDate(c) \/ AddFinalizer(c) \/ StartUnpack(c)
  <2>1. UNCHANGED <<stored, disk, bounds>>
    BY <1>3, Zenon DEF Nothing, UpToDate, AddFinalizer, StartUnpack
  <2> QED BY <1>1, <1>3, <2>1, BeginPlain
<1> QED BY <1>2, <1>3 DEF Begin

LEMMA UpdateStatusStep == ASSUME CatalogdInv, UpdateStatus PROVE CatalogdInv'
<1> DEFINE c == work.cat
<1>1. /\ work.pc = "update" /\ UNCHANGED <<registry, cached, queue, stored, due, disk, gc>>
      /\ Fault \/ UNCHANGED bounds
  BY DEF UpdateStatus
<1>2. /\ c \in Catalogs /\ work.seen.exists /\ work \in Work /\ work.status \in Status
      /\ work.seen \in Catalog /\ work.error \in Errors /\ api \in [Catalogs -> Catalog]
      /\ c \in queue \/ cached[c] = work.seen
  BY <1>1 DEF CatalogdInv, WorkOK, TypeOK, Work, Errors
<1>3. /\ work' \in Work /\ work'.pc = "patch" /\ work'.cat = c /\ work'.seen = work.seen
      /\ work'.finalizer = work.finalizer /\ work'.error \in {work.error, Join(work.error)}
  <2>1. Join(work.error) \in Errors BY <1>2 DEF Join, Errors
  <2>2. \/ work' = [work EXCEPT !.pc = "patch"]
        \/ work' = [work EXCEPT !.pc = "patch", !.error = Join(work.error)]
    BY DEF UpdateStatus
  <2>3. CASE work' = [work EXCEPT !.pc = "patch"] BY <1>2, <2>3 DEF Work, PCs
  <2>4. CASE work' = [work EXCEPT !.pc = "patch", !.error = Join(work.error)]
    BY <1>2, <2>1, <2>4, Zenon DEF Work, PCs, Errors
  <2> QED BY <2>2, <2>3, <2>4
<1>4. /\ work'.error = "terminal" => work.error = "terminal"
      /\ work.error = "retry" => work'.error = "retry"
  BY <1>3 DEF Join, None
<1>5. /\ api' \in [Catalogs -> Catalog]
      /\ \A d \in Catalogs : /\ api'[d].finalizer = api[d].finalizer /\ api'[d].deleting = api[d].deleting
                             /\ api'[d].gen = api[d].gen
                             /\ ~api'[d].exists => api'[d] = api[d] /\ ~api[d].exists
  <2>1. CASE api' = api BY <1>2, <2>1
  <2>2. CASE api' = [api EXCEPT ![c].status = work.status] /\ api[c] = work.seen
    <3>1. [api[c] EXCEPT !.status = work.status] \in Catalog BY <1>2, <2>2 DEF Catalog
    <3>2. api' = [api EXCEPT ![c] = [api[c] EXCEPT !.status = work.status]] BY <1>2, <2>2
    <3>3. LET o == [api[c] EXCEPT !.status = work.status]
          IN  o.finalizer = api[c].finalizer /\ o.deleting = api[c].deleting /\ o.gen = api[c].gen
              /\ o.exists = TRUE
      BY <1>2, <2>2 DEF Catalog
    <3> QED BY <1>2, <3>1, <3>2, <3>3
  <2> QED BY <2>1, <2>2 DEF UpdateStatus
<1>6. /\ changes' \in 0..MaxEvents /\ faults' \in 0..MaxFaults
      /\ changes' + faults' <= MaxEvents /\ changes' = changes
  BY <1>1, Counts DEF Fault, bounds, CatalogdInv
<1>7. TypeOK' BY <1>1, <1>3, <1>5, <1>6 DEF CatalogdInv, TypeOK, disk
<1>8. ApiOK' BY <1>1, <1>5, <1>6 DEF CatalogdInv, ApiOK
<1>9. WorkOK' BY <1>1, <1>2, <1>3, <1>4 DEF CatalogdInv, WorkOK, Gone, disk
<1>10. DiskOK' BY <1>1, <1>3 DEF CatalogdInv, DiskOK, disk
<1>11. HeldOK' BY <1>1, <1>3, <1>5 DEF CatalogdInv, HeldOK, Held, Gone, disk
<1>12. CollectorOK' BY <1>1 DEF CatalogdInv, CollectorOK
<1> QED BY <1>7, <1>8, <1>9, <1>10, <1>11, <1>12 DEF CatalogdInv

LEMMA PatchStep == ASSUME CatalogdInv, PatchFinalizer PROVE CatalogdInv'
<1>0. PICK c \in Catalogs : c = work.cat BY DEF CatalogdInv, WorkOK, PatchFinalizer
<1> DEFINE differs == cached[c].exists /\ cached[c].finalizer # work.finalizer
           wanted == work.finalizer # work.seen.finalizer
<1>1. /\ work.pc = "patch" /\ work' = Idle
      /\ UNCHANGED <<registry, cached, stored, due, disk, gc>>
      /\ Fault \/ UNCHANGED bounds
  BY DEF PatchFinalizer
<1>2. /\ c = work.cat /\ c \in Catalogs /\ work.seen.exists /\ work \in Work /\ work.finalizer \in BOOLEAN
      /\ work.seen \in Catalog /\ work.error \in Errors /\ api \in [Catalogs -> Catalog]
      /\ cached \in [Catalogs -> Catalog] /\ work.seen.finalizer \in BOOLEAN
      /\ c \in queue \/ cached[c] = work.seen
      /\ work.error = "terminal" => work.finalizer /\ work.seen.finalizer
      /\ ~work.finalizer => Gone(c) \/ work.error = "retry"
  BY <1>0, <1>1 DEF CatalogdInv, WorkOK, TypeOK, Work, Errors, Catalog
<1>3. CASE api' = api
  <2>1. /\ queue \subseteq queue' /\ queue' \subseteq queue \cup {c}
        /\ work.error = "retry" => c \in queue'
    BY <1>2 DEF PatchFinalizer, Requeue, Join, None
  <2>2. Held(c)'
    <3>1. CASE c \in queue' \/ Gone(c) BY <1>1, <1>2, <3>1 DEF Held, Gone, disk
    <3>2. CASE c \notin queue' /\ ~Gone(c)
      <4>1. cached[c] = work.seen /\ work.finalizer BY <1>2, <2>1, <3>2
      <4>2. work.seen.finalizer \/ api[c].finalizer
        <5>1. CASE wanted => cached[c].exists /\ ~differs BY <1>2, <4>1, <5>1, Zenon
        <5>2. CASE ~(wanted => cached[c].exists /\ ~differs)
          <6>1. wanted BY <5>2
          <6>2. \/ Requeue(Join(work.error))
                \/ api' = [api EXCEPT ![c] = [api[c] EXCEPT !.finalizer = work.finalizer]]
            BY <1>2, <4>1, <5>2, <6>1, Zenon DEF PatchFinalizer
          <6>3. CASE Requeue(Join(work.error))
            <7>1. work.error = "terminal" BY <1>2, <3>2, <6>3 DEF Requeue, Join, Errors
            <7> QED BY <1>2, <7>1
          <6>4. CASE api' = [api EXCEPT ![c] = [api[c] EXCEPT !.finalizer = work.finalizer]]
            <7>1. api[c] = [api[c] EXCEPT !.finalizer = work.finalizer] BY <1>2, <1>3, <6>4
            <7>2. api[c].finalizer = work.finalizer BY <1>2, <7>1 DEF Catalog
            <7> QED BY <4>1, <7>2
          <6> QED BY <6>2, <6>3, <6>4
        <5> QED BY <5>1, <5>2
      <4> QED BY <1>1, <1>3, <4>1, <4>2 DEF Held
    <3> QED BY <3>1, <3>2
  <2>3. \A d \in Catalogs \ {c} : Held(d)'
    BY <1>1, <1>2, <1>3, <2>1, OthersHeld DEF disk
  <2>4. HeldOK' BY <2>2, <2>3 DEF HeldOK, Held
  <2>5. ApiOK' /\ TypeOK'
    <3>1. /\ changes' \in 0..MaxEvents /\ faults' \in 0..MaxFaults
          /\ changes' + faults' <= MaxEvents /\ changes' = changes
      BY <1>1, Counts DEF Fault, bounds, CatalogdInv
    <3>2. queue' \subseteq Catalogs BY <1>2, <2>1 DEF CatalogdInv, TypeOK
    <3> QED BY <1>1, <1>3, <3>1, <3>2, CatalogdConstructors DEF CatalogdInv, TypeOK, ApiOK, disk
  <2>6. WorkOK' BY <1>1 DEF WorkOK, Idle, None
  <2>7. DiskOK' BY <1>1 DEF CatalogdInv, DiskOK, Idle, disk
  <2>8. CollectorOK' BY <1>1 DEF CatalogdInv, CollectorOK
  <2> QED BY <2>4, <2>5, <2>6, <2>7, <2>8 DEF CatalogdInv
<1>4. CASE api' # api
  <2> DEFINE o == IF api[c].deleting /\ ~work.finalizer THEN NoCatalog
                  ELSE [api[c] EXCEPT !.finalizer = work.finalizer]
  <2>1. /\ api' = [api EXCEPT ![c] = o] /\ api[c].exists /\ ~(work.finalizer /\ api[c].deleting)
        /\ Requeue(work.error) /\ UNCHANGED bounds
    BY <1>2, <1>4 DEF PatchFinalizer
  <2>2. /\ queue \subseteq queue' /\ queue' \subseteq Catalogs
        /\ work.error = "retry" => c \in queue'
    BY <1>2, <2>1 DEF Requeue, CatalogdInv, TypeOK
  <2>3. api[c] \in Catalog /\ api[c].gen \in Nat /\ changes \in Nat /\ api[c].gen <= changes + 1
    <3>1. api[c] \in Catalog /\ changes \in 0..MaxEvents /\ api[c].gen <= changes + 1
      BY <1>2 DEF CatalogdInv, TypeOK, ApiOK
    <3>2. api[c].gen \in Gens BY <3>1 DEF Catalog
    <3>3. api[c].gen \in Nat BY <3>2, BoundsAssumption DEF Gens
    <3>4. changes \in Nat BY <3>1
    <3> QED BY <3>1, <3>3, <3>4, Zenon
  <2>4. /\ o \in Catalog
        /\ ~o.exists => o = NoCatalog
        /\ o.deleting => o.finalizer
        /\ work.finalizer => o.finalizer
        /\ o.gen <= changes + 1
    <3>1. CASE api[c].deleting /\ ~work.finalizer
      BY <2>3, <3>1, CatalogdConstructors DEF NoCatalog
    <3>2. CASE ~(api[c].deleting /\ ~work.finalizer)
      <4>1. o = [api[c] EXCEPT !.finalizer = work.finalizer] BY <3>2
      <4>2. o \in Catalog /\ o.exists /\ o.deleting = api[c].deleting /\ o.gen = api[c].gen
            /\ o.finalizer = work.finalizer
        BY <1>2, <2>1, <2>3, <4>1, Zenon DEF Catalog
      <4> HIDE DEF o
      <4> QED BY <2>1, <2>3, <3>2, <4>2
    <3> QED BY <3>1, <3>2
  <2> HIDE DEF o
  <2>5. /\ api' \in [Catalogs -> Catalog] /\ api'[c] = o
        /\ \A d \in Catalogs \ {c} : api'[d] = api[d]
    <3>1. o \in Catalog BY <2>4
    <3>2. api \in [Catalogs -> Catalog] /\ c \in Catalogs BY <1>2
    <3>3. api' = [api EXCEPT ![c] = o] BY <2>1
    <3> QED BY <3>1, <3>2, <3>3
  <2>6. TypeOK' BY <1>1, <2>1, <2>2, <2>5, CatalogdConstructors DEF CatalogdInv, TypeOK, disk, bounds
  <2>7. ApiOK' BY <1>1, <2>1, <2>4, <2>5 DEF CatalogdInv, ApiOK, bounds
  <2>8. WorkOK' BY <1>1 DEF WorkOK, Idle, None
  <2>9. DiskOK' BY <1>1 DEF CatalogdInv, DiskOK, Idle, disk
  <2>10. CollectorOK' BY <1>1 DEF CatalogdInv, CollectorOK
  <2>11. Held(c)' BY <1>1, <1>2, <2>2, <2>4, <2>5 DEF Held, Gone, disk
  <2>12. ASSUME NEW d \in Catalogs \ {c} PROVE Held(d)'
    <3>1. Held(d) /\ work.cat # d BY <1>2 DEF CatalogdInv, HeldOK
    <3> QED BY <1>1, <2>2, <2>5, <3>1 DEF Held, Gone, disk
  <2>13. HeldOK' BY <2>11, <2>12 DEF HeldOK, Held
  <2> QED BY <2>6, <2>7, <2>8, <2>9, <2>10, <2>13 DEF CatalogdInv
<1> QED BY <1>3, <1>4

-----------------------------------------------------------------------------
(* The theorems                                                             *)

LEMMA StepHolds == ASSUME CatalogdInv, [Next]_vars PROVE CatalogdInv'
<1>1. CASE Reconcile
  <2>1. CASE \E c \in Catalogs : Begin(c) BY <2>1, BeginStep
  <2> QED BY <1>1, <2>1, PullStep, UnpackStep, WriteStep, RemoveOldStep, RenameStep,
             UpdateStatusStep, PatchStep DEF Reconcile
<1>2. CASE ReconcileFails BY <1>2, PullStep, UnpackStep, WriteStep DEF ReconcileFails
<1>3. CASE UNCHANGED vars
  <2>1. /\ UNCHANGED <<registry, api, cached, queue, due, stored, unpacked, content, temp>>
        /\ UNCHANGED <<work, gc, changes, faults>>
    BY <1>3 DEF vars
  <2>2. TypeOK' BY <2>1, Zenon DEF CatalogdInv, TypeOK
  <2>3. ApiOK' /\ WorkOK' BY <2>1 DEF CatalogdInv, ApiOK, WorkOK, Gone
  <2>4. DiskOK' BY <2>1 DEF CatalogdInv, DiskOK
  <2>5. HeldOK' /\ CollectorOK' BY <2>1 DEF CatalogdInv, HeldOK, Held, Gone, CollectorOK
  <2> QED BY <2>2, <2>3, <2>4, <2>5 DEF CatalogdInv
<1> QED BY <1>1, <1>2, <1>3, CollectStep, InformerStep, RestartStep, UserStep DEF Next

\* The inductive invariant: what the reconcile, the disk, the finalizers and the
\* collector owe each other at every step of catalogd.
THEOREM CatalogdInvariant == Spec => []CatalogdInv
<1>1. Init => CatalogdInv BY InitHolds
<1>2. CatalogdInv /\ [Next]_vars => CatalogdInv' BY StepHolds
<1> QED BY <1>1, <1>2, PTL DEF Spec

\* Whatever fails, restarts or is swept away, the HTTP server never answers with a
\* catalog that was stored in part, with one made from an image before it was unpacked
\* to the end, or with an index of another one, and the controller remembers what it
\* stored (Store, deleteStoredCatalog, the garbage collector).  What the collector took
\* from the image while it was unpacked is missing in what is served.
THEOREM ContentIntact == Spec => []ContentIsIntact
<1>1. CatalogdInv => ContentIsIntact
  <2> SUFFICES ASSUME CatalogdInv PROVE ContentIsIntact OBVIOUS
  <2>1. StoredDescribesContent BY DEF CatalogdInv, DiskOK, StoredDescribesContent
  <2>2. ASSUME NEW c \in Catalogs
        PROVE  /\ ServeAll(c) \in Digests \cup {NotFound, Lossy}
               /\ ServeMetas(c) \in {NotFound, ServeAll(c)}
    <3>1. content[c].data \in Digests \cup {None} /\ content[c].index \in Digests \cup {None}
      BY DEF CatalogdInv, TypeOK, DiskOK, Sound, Directory, Files
    <3>2. \/ None \in {content[c].data, content[c].index}
          \/ content[c].data = content[c].index /\ content[c].data # None
      BY <3>1 DEF CatalogdInv, DiskOK, Sound
    <3>3. CASE None \in {content[c].data, content[c].index}
      <4>1. ServeMetas(c) = NotFound BY <3>1, <3>2, <3>3 DEF ServeMetas
      <4> QED BY <3>1, <4>1 DEF ServeAll
    <3>4. CASE None \notin {content[c].data, content[c].index}
      <4>1. content[c].data = content[c].index /\ content[c].data # None BY <3>2, <3>4
      <4>2. ServeMetas(c) = ServeAll(c) BY <3>4, <4>1 DEF ServeMetas
      <4> QED BY <3>1, <4>1, <4>2 DEF ServeAll
    <3> QED BY <3>3, <3>4
  <2> QED BY <2>1, <2>2 DEF ContentIsIntact, ServedIsWhole, CatalogdInv
<1> QED BY <1>1, CatalogdInvariant, PTL

\* What is on disk for a catalog that exists is under the protection of its finalizer,
\* or a reconcile that restores it is on its way (reconcile, deleteCatalogCache and the
\* order of the two writes at the end of Reconcile).
THEOREM ContentFinalized == Spec => []ContentIsFinalized
<1>1. CatalogdInv => ContentIsFinalized
  <2> SUFFICES ASSUME CatalogdInv, NEW c \in Catalogs, Live(c),
                      content[c].exists \/ unpacked[c] # EmptyDir
               PROVE  api[c].finalizer \/ Pending(c)
    BY DEF ContentIsFinalized
  <2>1. ~Gone(c) BY DEF Gone, NoDirectory
  <2>2. Held(c) BY DEF CatalogdInv, HeldOK
  <2>3. CASE cached[c] = api[c] BY <2>1, <2>2, <2>3 DEF Held, Pending, Live
  <2>4. CASE cached[c] # api[c] BY <2>4 DEF Pending
  <2> QED BY <2>3, <2>4
<1> QED BY <1>1, CatalogdInvariant, PTL

-----------------------------------------------------------------------------
(* catalogd implements CatalogService                                       *)

\* What a client may see of a step: the content changes and the object does not, or
\* the object changes as CatalogService says and the content does not.
Visible(c) ==
    \/ api'[c].exists = api[c].exists /\ api'[c].status.ref = api[c].status.ref
    \/ /\ content'[c] = content[c] /\ api[c].exists /\ api'[c].exists
       /\ api'[c].status.ref = None \/ content[c].data \in {None, api'[c].status.ref}
    \/ content'[c] = content[c] /\ ~api[c].exists /\ api'[c].exists /\ api'[c].status.ref = None
    \/ content'[c] = content[c] /\ api[c].exists /\ api'[c] = NoCatalog

LEMMA SeenTypes ==
    ASSUME CatalogdInv, NEW c \in Catalogs
    PROVE  /\ api[c].exists \in BOOLEAN /\ api[c].status.ref \in Digests \cup {None}
           /\ content[c].data \in Digests \cup {None}
           /\ ~api[c].exists => api[c].status.ref = None
<1>1. content[c].data \in Digests \cup {None}
  <2>1. content[c] \in Directory BY DEF CatalogdInv, TypeOK
  <2>2. content[c].data # Torn BY DEF CatalogdInv, DiskOK, Sound
  <2> QED BY <2>1, <2>2 DEF Directory, Files
<1>2. api[c].exists \in BOOLEAN /\ api[c].status \in Status BY DEF CatalogdInv, TypeOK, Catalog
<1>3. api[c].status.ref \in Digests \cup {None} BY <1>2 DEF Status
<1>4. ~api[c].exists => api[c].status.ref = None BY DEF CatalogdInv, ApiOK, NoCatalog, NoStatus
<1> QED BY <1>1, <1>2, <1>3, <1>4

LEMMA ServiceSimulated ==
    ASSUME CatalogdInv, CatalogdInv', \A c \in Catalogs : Visible(c)
    PROVE  Service!ServiceNext
<1> DEFINE service == [c \in Catalogs |-> Seen(c)]
<1>1. \A c \in Catalogs : Seen(c) \in Service!Services /\ Seen(c)' \in Service!Services
  <2> SUFFICES ASSUME NEW c \in Catalogs
               PROVE  Seen(c) \in Service!Services /\ Seen(c)' \in Service!Services
    OBVIOUS
  <2>1. /\ api[c].exists \in BOOLEAN /\ api[c].status.ref \in Digests \cup {None}
        /\ content[c].data \in Digests \cup {None}
    BY SeenTypes
  <2>2. /\ api'[c].exists \in BOOLEAN /\ api'[c].status.ref \in Digests \cup {None}
        /\ content'[c].data \in Digests \cup {None}
    <3>1. content'[c].data \in Digests \cup {None}
      <4>1. content'[c] \in Directory BY DEF CatalogdInv, TypeOK
      <4>2. content'[c].data # Torn BY DEF CatalogdInv, DiskOK, Sound
      <4> QED BY <4>1, <4>2 DEF Directory, Files
    <3>2. api'[c].exists \in BOOLEAN /\ api'[c].status \in Status
      BY DEF CatalogdInv, TypeOK, Catalog
    <3> QED BY <3>1, <3>2 DEF Status
  <2> QED BY <2>1, <2>2 DEF Seen, Service!Services, Service!NoImage, None
<1>2. service' \in [Catalogs -> Service!Services] BY <1>1
<1>3. ASSUME NEW c \in Catalogs
      PROVE  Service!ServiceStep(service[c], service'[c]) \/ service'[c] = service[c]
  <2>1. service[c] = Seen(c) /\ service'[c] = Seen(c)' OBVIOUS
  <2>2. /\ api[c].exists \in BOOLEAN /\ api[c].status.ref \in Digests \cup {None}
        /\ content[c].data \in Digests \cup {None}
        /\ ~api[c].exists => api[c].status.ref = None
    BY SeenTypes
  <2>3. /\ api'[c].exists \in BOOLEAN /\ api'[c].status.ref \in Digests \cup {None}
        /\ content'[c].data \in Digests \cup {None}
    BY <1>1 DEF Seen, Service!Services, Service!NoImage, None
  <2>4. CASE api'[c].exists = api[c].exists /\ api'[c].status.ref = api[c].status.ref
    <3>1. Seen(c)' = [Seen(c) EXCEPT !.served = content'[c].data] BY <2>4 DEF Seen
    <3>2. Service!Store(service[c], service'[c], content'[c].data) BY <2>1, <3>1 DEF Service!Store
    <3> QED BY <2>3, <3>2 DEF Service!ServiceStep, Service!NoImage, None
  <2>5. CASE /\ content'[c] = content[c] /\ api[c].exists /\ api'[c].exists
             /\ api'[c].status.ref = None \/ content[c].data \in {None, api'[c].status.ref}
    <3>0. api'[c].exists = api[c].exists /\ content'[c] = content[c] BY <2>2, <2>3, <2>5
    <3>1. Seen(c)' = [Seen(c) EXCEPT !.ref = api'[c].status.ref] BY <3>0 DEF Seen
    <3>2. CASE api'[c].status.ref = None
      BY <2>1, <3>1, <3>2 DEF Service!NotServing, Service!ServiceStep, Service!NoImage, None
    <3>3. CASE api'[c].status.ref # None
      <4>1. Seen(c).exists /\ Seen(c).served \in {api'[c].status.ref, None}
        BY <2>5, <3>3 DEF Seen
      <4>2. Service!Report(service[c], service'[c], api'[c].status.ref)
        BY <2>1, <3>1, <4>1 DEF Service!Report, Service!NoImage, None
      <4> QED BY <2>3, <3>3, <4>2 DEF Service!ServiceStep
    <3> QED BY <3>2, <3>3
  <2>6. CASE content'[c] = content[c] /\ ~api[c].exists /\ api'[c].exists /\ api'[c].status.ref = None
    <3>0. /\ api[c].exists = FALSE /\ api'[c].exists = TRUE /\ content'[c] = content[c]
          /\ api[c].status.ref = None /\ api'[c].status.ref = None
      BY <2>2, <2>3, <2>6
    <3>1. /\ Seen(c) = [exists |-> FALSE, ref |-> None, served |-> content[c].data]
          /\ Seen(c)' = [exists |-> TRUE, ref |-> None, served |-> content[c].data]
      BY <3>0, Zenon DEF Seen
    <3>2. Seen(c)' = [Seen(c) EXCEPT !.exists = TRUE]
      <4>1. ASSUME NEW e, NEW f, Seen(c) = [exists |-> e, ref |-> None, served |-> content[c].data]
            PROVE  [Seen(c) EXCEPT !.exists = f] = [exists |-> f, ref |-> None, served |-> content[c].data]
        BY <4>1
      <4> QED BY <3>1, <4>1, Zenon
    <3>3. ~Seen(c).exists BY <3>0 DEF Seen
    <3> QED BY <2>1, <3>2, <3>3 DEF Service!Appear, Service!ServiceStep
  <2>7. CASE content'[c] = content[c] /\ api[c].exists /\ api'[c] = NoCatalog
    <3>0. /\ api[c].exists = TRUE /\ api'[c].exists = FALSE /\ content'[c] = content[c]
          /\ api'[c].status.ref = None
      BY <2>2, <2>7 DEF NoCatalog, NoStatus
    <3>1. /\ Seen(c) = [exists |-> TRUE, ref |-> api[c].status.ref, served |-> content[c].data]
          /\ Seen(c)' = [exists |-> FALSE, ref |-> None, served |-> content[c].data]
      BY <3>0, Zenon DEF Seen
    <3>2. Seen(c)' = [Seen(c) EXCEPT !.exists = FALSE, !.ref = None]
      <4>1. ASSUME NEW e, NEW f,
                   Seen(c) = [exists |-> e, ref |-> api[c].status.ref, served |-> content[c].data]
            PROVE  [Seen(c) EXCEPT !.exists = f, !.ref = None]
                     = [exists |-> f, ref |-> None, served |-> content[c].data]
        <5>1. ASSUME NEW x, x = [Seen(c) EXCEPT !.exists = f]
              PROVE  [x EXCEPT !.ref = None] = [exists |-> f, ref |-> None, served |-> content[c].data]
          <6>1. x = [exists |-> f, ref |-> api[c].status.ref, served |-> content[c].data]
            BY <4>1, <5>1
          <6> QED BY <6>1
        <5> QED BY <5>1, Zenon
      <4> QED BY <3>1, <4>1, Zenon
    <3>3. Seen(c).exists BY <3>0 DEF Seen
    <3> QED BY <2>1, <3>2, <3>3 DEF Service!Disappear, Service!ServiceStep, Service!NoImage, None
  <2> QED BY <2>4, <2>5, <2>6, <2>7, Zenon DEF Visible
<1> QED BY <1>2, <1>3 DEF Service!ServiceNext

\* An object is written while the content stays.
LEMMA VisibleWrite ==
    ASSUME CatalogdInv, NEW c \in Catalogs, NEW o, api' = [api EXCEPT ![c] = o], content' = content,
           \/ o.exists = api[c].exists /\ o.status.ref = api[c].status.ref
           \/ /\ api[c].exists /\ o.exists
              /\ o.status.ref = None \/ content[c].data \in {None, o.status.ref}
           \/ ~api[c].exists /\ o.exists /\ o.status.ref = None
           \/ api[c].exists /\ o = NoCatalog
    PROVE  \A d \in Catalogs : Visible(d)
<1> SUFFICES ASSUME NEW d \in Catalogs PROVE Visible(d) OBVIOUS
<1>1. api \in [Catalogs -> Catalog] BY DEF CatalogdInv, TypeOK
<1>2. CASE d = c
  <2>1. api'[d] = o BY <1>1, <1>2
  <2> QED BY <1>2, <2>1 DEF Visible
<1>3. CASE d # c
  <2>1. api'[d] = api[d] BY <1>1, <1>3
  <2> QED BY <2>1 DEF Visible
<1> QED BY <1>2, <1>3

LEMMA UserIsVisible ==
    ASSUME CatalogdInv, NEW c \in Catalogs, Create(c) \/ SetMode(c) \/ SetRef(c) \/ Delete(c)
    PROVE  \A d \in Catalogs : Visible(d)
<1>1. content' = content BY Zenon DEF Create, SetMode, SetRef, Delete, disk
<1>2. api \in [Catalogs -> Catalog] /\ api[c] \in Catalog BY DEF CatalogdInv, TypeOK
<1>3. CASE Create(c)
  <2>1. PICK ref \in Refs, poll \in BOOLEAN :
          api' = [api EXCEPT ![c] = [NoCatalog EXCEPT !.exists = TRUE, !.ref = ref, !.poll = poll]]
    BY <1>3, Zenon DEF Create
  <2> DEFINE o == [NoCatalog EXCEPT !.exists = TRUE, !.ref = ref, !.poll = poll]
  <2>2. o.exists /\ o.status.ref = None BY DEF NoCatalog, NoStatus
  <2>3. ~api[c].exists BY <1>3, Zenon DEF Create, Live
  <2>4. api' = [api EXCEPT ![c] = o] BY <2>1
  <2> HIDE DEF o
  <2> QED BY <1>1, <2>2, <2>3, <2>4, VisibleWrite, Zenon
<1>4. CASE SetMode(c)
  <2> DEFINE o == [api[c] EXCEPT !.available = ~@, !.gen = @ + 1]
  <2>1. api' = [api EXCEPT ![c] = o] BY <1>2, <1>4, Zenon DEF SetMode
  <2>2. o.exists = api[c].exists /\ o.status = api[c].status BY <1>2 DEF Catalog
  <2> HIDE DEF o
  <2> QED BY <1>1, <2>1, <2>2, VisibleWrite, Zenon
<1>5. CASE SetRef(c)
  <2>1. PICK ref \in Refs : api' = [api EXCEPT ![c].ref = ref, ![c].poll = FALSE, ![c].gen = @ + 1]
    BY <1>5, Zenon DEF SetRef
  <2> DEFINE o == [api[c] EXCEPT !.ref = ref, !.poll = FALSE, !.gen = @ + 1]
  <2>2. api' = [api EXCEPT ![c] = o] BY <1>2, <2>1, Zenon
  <2>3. o.exists = api[c].exists /\ o.status = api[c].status BY <1>2 DEF Catalog
  <2> HIDE DEF o
  <2> QED BY <1>1, <2>2, <2>3, VisibleWrite, Zenon
<1>6. CASE Delete(c)
  <2> DEFINE o == IF api[c].finalizer THEN [api[c] EXCEPT !.deleting = TRUE] ELSE NoCatalog
  <2>1. api' = [api EXCEPT ![c] = o] /\ api[c].exists BY <1>2, <1>6 DEF Delete, Live
  <2>2. \/ o.exists = api[c].exists /\ o.status = api[c].status
        \/ o = NoCatalog
    BY <1>2 DEF Catalog
  <2> HIDE DEF o
  <2> QED BY <1>1, <2>1, <2>2, VisibleWrite, Zenon
<1> QED BY <1>3, <1>4, <1>5, <1>6

\* The status that is written names what it named before, nothing, or what is served.
LEMMA UpdateStatusIsVisible ==
    ASSUME CatalogdInv, UpdateStatus PROVE \A d \in Catalogs : Visible(d)
<1>1. content' = content BY DEF UpdateStatus, disk
<1>2. PICK c \in Catalogs : c = work.cat BY DEF CatalogdInv, WorkOK, UpdateStatus
<1>3. CASE api' = api BY <1>3 DEF Visible
<1>4. CASE api' # api
  <2> DEFINE o == [api[c] EXCEPT !.status = work.status]
  <2>0. api \in [Catalogs -> Catalog] /\ api[c] \in Catalog BY DEF CatalogdInv, TypeOK
  <2>1. api' = [api EXCEPT ![c] = o] /\ api[c] = work.seen BY <1>2, <1>4, <2>0 DEF UpdateStatus
  <2>2. o.exists = api[c].exists /\ o.status = work.status BY <2>0 DEF Catalog
  <2>3. /\ api[c].exists
        /\ \/ work.status.ref = None \/ work.status.ref = api[c].status.ref
           \/ content[c].data \in {None, work.status.ref}
    BY <1>2, <2>1 DEF CatalogdInv, WorkOK, UpdateStatus
  <2> HIDE DEF o
  <2> QED BY <1>1, <2>1, <2>2, <2>3, VisibleWrite, Zenon
<1> QED BY <1>3, <1>4

LEMMA PatchIsVisible ==
    ASSUME CatalogdInv, PatchFinalizer PROVE \A d \in Catalogs : Visible(d)
<1>1. content' = content BY DEF PatchFinalizer, disk
<1>2. PICK c \in Catalogs : c = work.cat BY DEF CatalogdInv, WorkOK, PatchFinalizer
<1>3. CASE api' = api BY <1>3 DEF Visible
<1>4. CASE api' # api
  <2> DEFINE o == IF api[c].deleting /\ ~work.finalizer THEN NoCatalog
                  ELSE [api[c] EXCEPT !.finalizer = work.finalizer]
  <2>0. api[c] \in Catalog BY DEF CatalogdInv, TypeOK
  <2>1. api' = [api EXCEPT ![c] = o] /\ api[c].exists BY <1>2, <1>4 DEF PatchFinalizer
  <2>2. \/ o.exists = api[c].exists /\ o.status = api[c].status
        \/ o = NoCatalog
    BY <2>0 DEF Catalog
  <2> HIDE DEF o
  <2> QED BY <1>1, <2>1, <2>2, VisibleWrite, Zenon
<1> QED BY <1>3, <1>4

LEMMA StepIsVisible == ASSUME CatalogdInv, [Next]_vars PROVE \A d \in Catalogs : Visible(d)
<1>1. CASE api' = api BY <1>1 DEF Visible
<1>2. CASE api' # api
  <2>1. ~Informer /\ ~Restart /\ ~Collect /\ ~ReconcileFails /\ ~UNCHANGED vars /\ ~Push
    <3>1. ~Informer BY <1>2 DEF Informer, Sync, Resync, PollElapses
    <3>2. ~Restart /\ ~Push /\ ~UNCHANGED vars BY <1>2 DEF Restart, Push, vars
    <3>3. ~Collect BY <1>2, Zenon DEF Collect, ListCatalogs, ReadImages, RemoveImages, ReadDir, RemoveEntry,
                                      UnlinkNext
    <3>4. ~ReconcileFails BY <1>2 DEF ReconcileFails, PullFails, UnpackFails, WriteFails
    <3> QED BY <3>1, <3>2, <3>3, <3>4
  <2>2. ASSUME Reconcile PROVE UpdateStatus \/ PatchFinalizer
    <3>1. ~Pull /\ ~Unpack /\ ~WriteCatalog /\ ~WriteIndex /\ ~RemoveOld /\ ~RenameTemp
      BY <1>2 DEF Pull, Unpack, WriteCatalog, WriteIndex, RemoveOld, RenameTemp
    <3>2. \A c \in Catalogs : ~Begin(c) BY <1>2 DEF Begin
    <3> QED BY <2>2, <3>1, <3>2 DEF Reconcile
  <2>3. CASE Reconcile BY <2>2, <2>3, UpdateStatusIsVisible, PatchIsVisible
  <2>4. CASE User BY <2>1, <2>4, UserIsVisible DEF User
  <2> QED BY <2>1, <2>3, <2>4 DEF Next
<1> QED BY <1>1, <1>2

\* catalogd implements what its clients rely on, for every catalog at once: each of its
\* steps stores content, reports what is stored, makes or removes an object, or shows
\* the clients nothing (Store before updateStatusServing, the finalizer before Delete).
THEOREM CatalogdImplementsService == Spec => KeepsService
<1>1. Init => Service!ServiceInit
  <2> SUFFICES ASSUME Init PROVE Service!ServiceInit OBVIOUS
  <2>1. \A c \in Catalogs : Seen(c) = Service!Unserved
    BY Zenon DEF Init, Seen, Service!Unserved, Service!NoImage, NoCatalog, NoStatus, NoDirectory, None
  <2> QED BY <2>1 DEF Service!ServiceInit
<1>2. CatalogdInv /\ CatalogdInv' /\ [Next]_vars => Service!ServiceNext
  BY StepIsVisible, ServiceSimulated
<1> QED BY <1>1, <1>2, CatalogdInvariant, PTL DEF Spec, KeepsService, Service!ServiceSpec
=============================================================================
