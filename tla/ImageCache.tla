----------------------------- MODULE ImageCache -----------------------------
(***************************************************************************)
(* The on-disk image cache and the puller that fills it.  One owner (a      *)
(* catalog or an extension) has a directory with one entry per image        *)
(* digest; an entry is unpacked in place, layer by layer, and made          *)
(* read-only when it is whole.  Until then its files can be removed.        *)
(***************************************************************************)
CONSTANTS
    Digests,    \* image digests
    Unlabelled  \* digests of images without the configs label of a catalog

ASSUME UnlabelledAssumption == Unlabelled \subseteq Digests

Tag == "tag"    \* a reference by tag; every other reference is a digest
ASSUME TagAssumption == Tag \notin Digests

Refs == Digests \cup {Tag}
\* A lossy entry lost files while it was unpacked, which goes on without them.
Entries == {"none", "partial", "whole", "lossy"}
Dirs == [Digests -> Entries]
EmptyDir == [d \in Digests |-> "none"]

\* The digest a reference stands for: itself, or what the registry's tag names now.
ResolveCanonicalRef(ref, registry) == IF ref = Tag THEN registry ELSE ref

\* Fetch: any directory under the digest's name counts as unpacked.
Fetch(dir, d) == dir[d] # "none"

\* filterForCatalogImage fails without the label; only a canonical reference
\* makes the error terminal, since a tag may move to a labelled image.
Filter(ref, d) ==
    CASE d \notin Unlabelled -> "ok"
      [] d \in Unlabelled /\ ref = Tag -> "retry"
      [] OTHER -> "terminal"

\* Store: an empty directory, the layers, then read-only; a failed one is deleted.
StoreBegin(dir, d) == [dir EXCEPT ![d] = "partial"]
StoreEnd(dir, d) == [dir EXCEPT ![d] = IF @ = "lossy" THEN "lossy" ELSE "whole"]
StoreFailed(dir, d) == [dir EXCEPT ![d] = "none"]

\* The collector removes files of an entry that is not yet read-only.
LoseFiles(dir, d) == [dir EXCEPT ![d] = "lossy"]

\* The digests of the owner other than keep are deleted.
GarbageCollect(dir, keep) == [d \in Digests |-> IF d = keep THEN dir[d] ELSE "none"]
=============================================================================
