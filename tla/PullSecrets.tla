---------------------------- MODULE PullSecrets ----------------------------
(***************************************************************************)
(* The file with the credentials for pulling images, kept from a configured *)
(* secret and from the pull secrets of the pod's service account.  One      *)
(* reconciler serves two controllers, one for secrets and one for the       *)
(* service account, whose workers run at the same time and share the list   *)
(* of secrets whose events are let through.  The objects here are those of  *)
(* the informer's cache, which the reconciler reads.                        *)
(***************************************************************************)
EXTENDS Naturals, Sequences, FiniteSets, SequencesExt

CONSTANTS
    Configured,       \* SecretKey
    AccountSecrets,   \* the secrets a service account may name
    Credentials,      \* what a secret may hold for the registry
    MaxSecretChanges  \* bound: changes of secrets and of the account

ASSUME SecretsAssumption ==
    /\ Configured \notin AccountSecrets /\ MaxSecretChanges \in Nat
    /\ IsFiniteSet(AccountSecrets) /\ IsFiniteSet(Credentials)

Controllers == {"secret", "account"}
SecretNames == {Configured} \union AccountSecrets
Missing == "absent"     \* no such object
Unknown == "unknown"   \* a secret with neither of the two keys
Malformed == "bad"     \* a secret with a key whose data is not JSON
Contents == Credentials \union {Missing, Unknown, Malformed}

VARIABLES
    secrets,  \* the secrets
    pullers,  \* the service account's ImagePullSecrets, or none without an account
    known,    \* ServiceAccountPullSecrets
    events,   \* the objects whose events are not handled yet
    queued,   \* the controllers with a request in their queue
    worker,   \* the reconciles
    authFile, \* the content of AuthFilePath
    secretChanges

secretVars == <<secrets, pullers, known, events, queued, worker, authFile, secretChanges>>
Resting == [pc |-> "idle", todo |-> <<>>, found |-> <<>>, listed |-> {}]
NoAccount == <<Missing>>
Account == "account"

SecretsInit ==
    /\ secrets \in [SecretNames -> {Missing} \union Credentials]
    /\ pullers = SetToSeq(AccountSecrets)
    /\ known = {} /\ queued = {} /\ authFile = Missing /\ secretChanges = 0
    /\ events = {n \in SecretNames : secrets[n] # Missing} \union {Account}
    /\ worker = [c \in Controllers |-> Resting]

\* The credentials of a later secret replace those of an earlier one; an unknown
\* secret is ignored.
MergeAuths(found) ==
    LET holding == {i \in DOMAIN found : found[i] # Unknown}
    IN  IF holding = {} THEN "empty" ELSE found[Max(holding)]
\* mutant: without secrets the file is left alone
WriteAuthFileOnly(found) ==
    IF found = <<>> \/ Contains(found, Malformed) THEN authFile ELSE MergeAuths(found)
\* What the reconcile leaves in the file: none without secrets, the same as before when
\* a secret cannot be read.
WriteAuthFile(found) ==
    IF found = <<>> THEN Missing
    ELSE IF Contains(found, Malformed) THEN authFile ELSE MergeAuths(found)

Reading(c, pc) == worker[c].pc = pc
\* getSecret: a secret that is not there is passed over.
WithSecret(found, n) == IF secrets[n] = Missing THEN found ELSE Append(found, secrets[n])

StartReconcile(c) ==
    /\ Reading(c, "idle") /\ c \in queued
    /\ queued' = queued \ {c}
    /\ worker' = [worker EXCEPT ![c] = [Resting EXCEPT !.pc = "account", !.found = WithSecret(<<>>, Configured)]]
    /\ UNCHANGED <<secrets, pullers, known, events, authFile, secretChanges>>
GetServiceAccount(c) ==
    /\ Reading(c, "account")
    /\ worker' = [worker EXCEPT ![c] =
         IF pullers = NoAccount THEN [@ EXCEPT !.pc = "write"]
         ELSE [@ EXCEPT !.pc = "secrets", !.todo = pullers, !.listed = ToSet(pullers)]]
    /\ UNCHANGED <<secrets, pullers, known, events, queued, authFile, secretChanges>>
GetPullSecret(c) ==
    /\ Reading(c, "secrets") /\ worker[c].todo # <<>>
    /\ worker' = [worker EXCEPT ![c].todo = Tail(@),
                                ![c].found = WithSecret(@, Head(worker[c].todo))]
    /\ UNCHANGED <<secrets, pullers, known, events, queued, authFile, secretChanges>>
\* All the secrets of the account are listed, whether they exist or not, once all of
\* them were read.
UpdateList(c) ==
    /\ Reading(c, "secrets") /\ worker[c].todo = <<>>
    /\ known' = worker[c].listed
    /\ worker' = [worker EXCEPT ![c].pc = "write"]
    /\ UNCHANGED <<secrets, pullers, events, queued, authFile, secretChanges>>
\* The file is replaced as a whole; an error is retried.
WriteSecretToFile(c) ==
    /\ Reading(c, "write")
    /\ authFile' = WriteAuthFile(worker[c].found)
    /\ queued' = IF Contains(worker[c].found, Malformed) THEN queued \union {c} ELSE queued
    /\ worker' = [worker EXCEPT ![c] = Resting]
    /\ UNCHANGED <<secrets, pullers, known, events, secretChanges>>
SecretReconcileStep(c) ==
    \/ StartReconcile(c) \/ GetServiceAccount(c) \/ GetPullSecret(c)
    \/ UpdateList(c) \/ WriteSecretToFile(c)

\* newSecretPredicate; the list has no lock, so while it is assigned the outcome for a
\* secret of the account is either.
SecretPredicate(n) ==
    IF n = Configured THEN {TRUE}
    ELSE IF \E c \in Controllers : Reading(c, "secrets") /\ worker[c].todo = <<>> THEN BOOLEAN
    ELSE {n \in known}
HandleSecretEvent(n) ==
    /\ n \in events /\ events' = events \ {n}
    /\ \E passes \in SecretPredicate(n) : queued' = IF passes THEN queued \union {"secret"} ELSE queued
    /\ UNCHANGED <<secrets, pullers, known, worker, authFile, secretChanges>>
HandleAccountEvent ==
    /\ Account \in events /\ events' = events \ {Account} /\ queued' = queued \union {"account"}
    /\ UNCHANGED <<secrets, pullers, known, worker, authFile, secretChanges>>
HandleEvent == HandleAccountEvent \/ \E n \in SecretNames : HandleSecretEvent(n)

\* The periodic resync of the informers: an update event for every object there is.
ResyncSecrets ==
    /\ events' = events \union {n \in SecretNames : secrets[n] # Missing}
                        \union (IF pullers = NoAccount THEN {} ELSE {Account})
    /\ UNCHANGED <<secrets, pullers, known, queued, worker, authFile, secretChanges>>

SecretChange == secretChanges < MaxSecretChanges /\ secretChanges' = secretChanges + 1
ChangeSecret(n, content) ==
    /\ SecretChange /\ content # secrets[n]
    /\ secrets' = [secrets EXCEPT ![n] = content] /\ events' = events \union {n}
    /\ UNCHANGED <<pullers, known, queued, worker, authFile>>
ChangeAccount(names) ==
    /\ SecretChange /\ names # pullers
    /\ pullers' = names /\ events' = events \union {Account}
    /\ UNCHANGED <<secrets, known, queued, worker, authFile>>
UserChange ==
    \/ \E n \in SecretNames, content \in Contents : ChangeSecret(n, content)
    \/ \E s \in SUBSET AccountSecrets : ChangeAccount(SetToSeq(s))
    \/ ChangeAccount(NoAccount)

SecretsNext == HandleEvent \/ ResyncSecrets \/ UserChange \/ \E c \in Controllers : SecretReconcileStep(c)
SecretsSpec == SecretsInit /\ [][SecretsNext]_secretVars
FairSecrets ==
    /\ WF_secretVars(HandleAccountEvent) /\ WF_secretVars(ResyncSecrets)
    /\ \A n \in SecretNames : WF_secretVars(HandleSecretEvent(n))
    /\ \A c \in Controllers : WF_secretVars(SecretReconcileStep(c))
FairSecretsSpec == SecretsSpec /\ FairSecrets

-----------------------------------------------------------------------------
\* Every variable has its type.
SecretsTypeOK ==
    /\ secrets \in [SecretNames -> Contents]
    /\ pullers = NoAccount \/ pullers \in Seq(AccountSecrets)
    /\ known \subseteq AccountSecrets /\ events \subseteq SecretNames \union {Account}
    /\ queued \subseteq Controllers /\ secretChanges \in 0..MaxSecretChanges
    /\ authFile \in Credentials \union {Missing, "empty"}
    /\ worker \in [Controllers -> [pc: {"idle", "account", "secrets", "write"},
                                  todo: Seq(AccountSecrets), listed: SUBSET AccountSecrets,
                                  found: Seq(Contents \ {Missing})]]

\* What the file should hold, by the objects as they are.
Referenced == <<Configured>> \o (IF pullers = NoAccount THEN <<>> ELSE pullers)
Present == SelectSeq([i \in DOMAIN Referenced |-> secrets[Referenced[i]]], LAMBDA x : x # Missing)
Wanted ==
    IF Present = <<>> THEN Missing
    ELSE LET holding == SelectSeq(Present, LAMBDA x : x # Unknown)
         IN IF holding = <<>> THEN "empty" ELSE Last(holding)

\* Once the secrets and the service account, which is there, stay as they are and can be
\* read, the file comes to hold just their credentials and keeps them: a snapshot that
\* the other controller's worker read earlier and writes later, and an event that was
\* not let through because the list was not updated yet, are made good by the account's
\* resync.
AuthFileFollows ==
    <>[](/\ secretChanges = MaxSecretChanges /\ pullers # NoAccount
         /\ ~Contains(Present, Malformed)) => <>[](authFile = Wanted)
=============================================================================
