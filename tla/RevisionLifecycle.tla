------------------------- MODULE RevisionLifecycle -------------------------
(***************************************************************************)
(* What the revisions of one ClusterExtension go through, as their other    *)
(* readers (the ClusterExtension controller, users) may rely on it: the     *)
(* contract of the ClusterObjectSet controller, without caches, reconciles  *)
(* or cluster objects.  ClusterObjectSet is checked to implement it, and    *)
(* ClusterExtension takes it as its environment.                            *)
(***************************************************************************)
EXTENDS Naturals

CONSTANT N   \* number of revisions the extension may reach

VARIABLES
    revs,        \* the revisions
    latest,      \* the last revision number created
    rolledOut,   \* revisions that were completely rolled out once
    extDeleted   \* the owning ClusterExtension is gone

lifecycleVars == <<revs, latest, rolledOut, extDeleted>>

Numbers == 1..N
Progress == {"none", "RollingOut", "Retrying", "Succeeded",
             "ProgressDeadlineExceeded", "Archived"}
Revision == [exists: BOOLEAN, archived: BOOLEAN, prog: Progress, succ: BOOLEAN]
NoRevision == [exists |-> FALSE, archived |-> FALSE, prog |-> "none", succ |-> FALSE]

LifecycleInit ==
    /\ revs = [r \in Numbers |-> NoRevision]
    /\ latest = 0 /\ rolledOut = {} /\ extDeleted = FALSE

\* The applier creates revisions in the order of their numbers.
Create(r) ==
    /\ r = latest + 1 /\ ~extDeleted
    /\ revs' = [revs EXCEPT ![r] = [NoRevision EXCEPT !.exists = TRUE]]
    /\ latest' = r
    /\ UNCHANGED <<rolledOut, extDeleted>>

\* All objects of r are applied and pass their probes.
RollOut(r) ==
    /\ revs[r].exists
    /\ rolledOut' = rolledOut \cup {r}
    /\ UNCHANGED <<revs, latest, extDeleted>>

\* A revision is archived for the sake of a newer, rolled out one.
Archive(r) ==
    /\ revs[r].exists /\ \E n \in rolledOut : n > r
    /\ revs' = [revs EXCEPT ![r].archived = TRUE]
    /\ UNCHANGED <<latest, rolledOut, extDeleted>>

\* The Progressing condition of r becomes p.
Report(r, p) ==
    /\ revs[r].exists
    /\ p = "Archived" => revs[r].archived
    /\ p = "ProgressDeadlineExceeded" => ~revs[r].succ
    /\ revs' = [revs EXCEPT ![r].prog = p]
    /\ UNCHANGED <<latest, rolledOut, extDeleted>>

Succeed(r) ==
    /\ revs[r].exists /\ ~revs[r].archived /\ r \in rolledOut
    /\ revs' = [revs EXCEPT ![r].prog = "Succeeded", ![r].succ = TRUE]
    /\ UNCHANGED <<latest, rolledOut, extDeleted>>

\* Archived revisions may be deleted, all of them once the extension is gone.
Remove(r) ==
    /\ revs[r].exists
    /\ revs[r].archived \/ extDeleted
    /\ revs' = [revs EXCEPT ![r] = NoRevision]
    /\ UNCHANGED <<latest, rolledOut, extDeleted>>

ExtensionGone ==
    /\ ~extDeleted /\ extDeleted' = TRUE
    /\ UNCHANGED <<revs, latest, rolledOut>>

LifecycleNext ==
    \/ ExtensionGone
    \/ \E r \in Numbers :
         \/ Create(r) \/ RollOut(r) \/ Archive(r) \/ Succeed(r) \/ Remove(r)
         \/ \E p \in Progress : Report(r, p)

LifecycleSpec == LifecycleInit /\ [][LifecycleNext]_lifecycleVars
=============================================================================
