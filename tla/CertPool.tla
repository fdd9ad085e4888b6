------------------------------ MODULE CertPool ------------------------------
(***************************************************************************)
(* The pool of certificates with which catalogs and registries are trusted, *)
(* read from a directory that is watched.  A change of the directory may    *)
(* come as several file events, so the watcher drains the events before it  *)
(* reads the directory again; a change of the system's certificates         *)
(* restarts the process instead.  The files change at any time, between     *)
(* any two steps of the watcher.                                            *)
(***************************************************************************)
EXTENDS Naturals

CONSTANTS
    MaxFileEvents,   \* bound: file events
    MaxCertRestarts  \* bound: restarts

ASSUME CertAssumption == MaxFileEvents \in Nat /\ MaxCertRestarts \in Nat

VARIABLES
    files,    \* how many events there were so far: the content of the directory
    readable, \* whether NewCertPool succeeds on it
    pending,  \* the events the watcher has not received: of the directory, and of the system's
    certPc,   \* where the watcher's goroutine is
    pool,     \* the content the pool was read from, and its generation
    fresh,    \* what update has read and not yet stored
    stopping, \* the context is done
    certRestarts

certVars == <<files, readable, pending, certPc, pool, fresh, stopping, certRestarts>>
NoEvents == [own |-> 0, system |-> 0]
NoPool == [of |-> 0, generation |-> 0]

\* A new process: no pool, generation 1.
NewProcess ==
    /\ pending' = NoEvents /\ certPc' = "start" /\ pool' = [NoPool EXCEPT !.generation = 1]
    /\ fresh' = 0 /\ UNCHANGED stopping
CertInit ==
    /\ files = 1 /\ readable = TRUE /\ pending = NoEvents /\ certPc = "start"
    /\ pool = [NoPool EXCEPT !.generation = 1] /\ fresh = 0 /\ stopping = FALSE /\ certRestarts = 0

\* The process ends, by os.Exit, by checkForRestart or by an error of Start, and
\* is started again.
ExitProcess ==
    /\ certRestarts < MaxCertRestarts /\ certRestarts' = certRestarts + 1
    /\ NewProcess /\ UNCHANGED <<files, readable>>
Exits == certPc = "exit" /\ ExitProcess

\* Start reads the pool,
StartPool ==
    /\ certPc = "start"
    /\ IF readable THEN pool' = [pool EXCEPT !.of = files] /\ certPc' = "watch"
       ELSE UNCHANGED pool /\ certPc' = "exit"
    /\ UNCHANGED <<files, readable, pending, fresh, stopping, certRestarts>>
\* and only then adds the watch: what changes in between goes unseen.
AddWatch ==
    /\ certPc = "watch" /\ certPc' = "select"
    /\ UNCHANGED <<files, readable, pending, pool, fresh, stopping, certRestarts>>

\* checkForRestart: an event below one of the system's paths.
Receive(kind) == pending' = [pending EXCEPT ![kind] = @ - 1]
AfterEvent(kind) == IF kind = "system" THEN "exit" ELSE "drain"
SelectEvent(kind) ==
    /\ certPc = "select" /\ pending[kind] > 0
    /\ Receive(kind) /\ certPc' = AfterEvent(kind)
    /\ UNCHANGED <<files, readable, pool, fresh, stopping, certRestarts>>
DrainEvent(kind) ==
    /\ certPc = "drain" /\ pending[kind] > 0
    /\ Receive(kind) /\ certPc' = AfterEvent(kind)
    /\ UNCHANGED <<files, readable, pool, fresh, stopping, certRestarts>>
\* The timer ends the draining when no event came for a while.
DrainTimeout ==
    /\ certPc = "drain" /\ pending = NoEvents /\ certPc' = "update"
    /\ UNCHANGED <<files, readable, pending, pool, fresh, stopping, certRestarts>>
\* mutant: the events that came during the update are dropped as well
StorePoolAndDrain ==
    /\ certPc = "store" /\ certPc' = "select" /\ pending' = NoEvents
    /\ pool' = [of |-> fresh, generation |-> pool.generation + 1]
    /\ UNCHANGED <<files, readable, fresh, stopping, certRestarts>>
\* update reads the directory without the lock,
ReadPool ==
    /\ certPc = "update"
    /\ IF readable THEN fresh' = files /\ certPc' = "store" ELSE UNCHANGED fresh /\ certPc' = "exit"
    /\ UNCHANGED <<files, readable, pending, pool, stopping, certRestarts>>
\* and stores the pool under it.
StorePool ==
    /\ certPc = "store" /\ certPc' = "select"
    /\ pool' = [of |-> fresh, generation |-> pool.generation + 1]
    /\ UNCHANGED <<files, readable, pending, fresh, stopping, certRestarts>>
\* The context is done: Done sends on the channel that only this goroutine receives from.
SelectDone ==
    /\ certPc = "select" /\ stopping /\ certPc' = "sending"
    /\ UNCHANGED <<files, readable, pending, pool, fresh, stopping, certRestarts>>
\* An error of the watcher exits the process; when one comes is not up to this program.
SelectError ==
    /\ certPc = "select" /\ certPc' = "exit"
    /\ UNCHANGED <<files, readable, pending, pool, fresh, stopping, certRestarts>>
WatcherStep ==
    \/ StartPool \/ AddWatch \/ DrainTimeout \/ ReadPool \/ StorePool \/ SelectDone \/ Exits
    \/ \E kind \in {"own", "system"} : SelectEvent(kind) \/ DrainEvent(kind)

Watched == certPc \notin {"start", "watch", "exit"}
FileEvent(kind, ok) ==
    /\ files <= MaxFileEvents /\ files' = files + 1 /\ readable' = ok
    /\ pending' = IF Watched THEN [pending EXCEPT ![kind] = @ + 1] ELSE pending
    /\ UNCHANGED <<certPc, pool, fresh, stopping, certRestarts>>
StopProcess ==
    /\ ~stopping /\ stopping' = TRUE
    /\ UNCHANGED <<files, readable, pending, certPc, pool, fresh, certRestarts>>
CertNext ==
    \/ WatcherStep \/ SelectError \/ StopProcess
    \/ \E kind \in {"own", "system"}, ok \in BOOLEAN : FileEvent(kind, ok)
CertSpec == CertInit /\ [][CertNext]_certVars
FairCert == WF_certVars(WatcherStep)
FairCertSpec == CertSpec /\ FairCert

-----------------------------------------------------------------------------
\* Every variable has its type.
CertTypeOK ==
    /\ files \in 1..(MaxFileEvents + 1) /\ readable \in BOOLEAN
    /\ pending \in [{"own", "system"} -> 0..MaxFileEvents]
    /\ certPc \in {"start", "watch", "select", "drain", "update", "store", "sending", "exit"}
    /\ pool \in [of: 0..files, generation: 1..(MaxFileEvents + 1)] /\ fresh \in 0..files
    /\ stopping \in BOOLEAN /\ certRestarts \in 0..MaxCertRestarts

\* Once the files stay as they are, the pool comes to be the one read from them: draining
\* swallows no event that a later read does not cover.  Nothing is said of a process that
\* is stopping, and of one that was not told of any event: a change between Start's read
\* and the watch goes unseen.
NotTold == certPc = "select" /\ pending = NoEvents /\ pool.generation = 1
EventsReachPool == []<>(pool.of = files \/ NotTold \/ ~Watched \/ certPc = "sending")
=============================================================================
