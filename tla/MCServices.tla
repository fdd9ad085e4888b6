----------------------------- MODULE MCServices -----------------------------
(***************************************************************************)
(* The services that the controllers use, for model checking.  They share   *)
(* no state, so a behaviour is one of a single service, the one chosen in   *)
(* the initial state, while the others stay as they start.                  *)
(***************************************************************************)
EXTENDS MCOperations, CatalogCache, ContentManager, MCHelmApplier, TokenGetter, CertPool, PullSecrets

CONSTANTS a1, b1
MCKindOf == (a1 :> "A") @@ (b1 :> "B")

VARIABLE active

idleOps == op = "none" /\ call = <<>> /\ outcome = <<>>
idleHelm == HelmInit /\ wanted = "v1" /\ pullable = FALSE /\ enforced = FALSE
idleTokens == TokenInit /\ account = 0
idleSecrets == SecretsInit /\ \A n \in SecretNames : secrets[n] = Missing

ServicesInit ==
    /\ active \in {"operations", "catalogs", "content", "helm", "tokens", "certificates", "secrets"}
    /\ IF active = "operations" THEN OpInit ELSE idleOps
    /\ CacheInit /\ ContentInit /\ CertInit
    /\ IF active = "helm" THEN HelmInit ELSE idleHelm
    /\ IF active = "tokens" THEN TokenInit ELSE idleTokens
    /\ IF active = "secrets" THEN SecretsInit ELSE idleSecrets

In(name, A) == active = name /\ A /\ UNCHANGED active
ServicesNext ==
    \/ /\ In("operations", OpNext)
       /\ UNCHANGED <<cacheVars, contentVars, helmVars, tokenVars, certVars, secretVars>>
    \/ /\ In("catalogs", CacheNext)
       /\ UNCHANGED <<opVars, contentVars, helmVars, tokenVars, certVars, secretVars>>
    \/ /\ In("content", ContentNext)
       /\ UNCHANGED <<opVars, cacheVars, helmVars, tokenVars, certVars, secretVars>>
    \/ /\ In("helm", HelmNext)
       /\ UNCHANGED <<opVars, cacheVars, contentVars, tokenVars, certVars, secretVars>>
    \/ /\ In("tokens", TokenNext)
       /\ UNCHANGED <<opVars, cacheVars, contentVars, helmVars, certVars, secretVars>>
    \/ /\ In("certificates", CertNext)
       /\ UNCHANGED <<opVars, cacheVars, contentVars, helmVars, tokenVars, secretVars>>
    \/ /\ In("secrets", SecretsNext)
       /\ UNCHANGED <<opVars, cacheVars, contentVars, helmVars, tokenVars, certVars>>
servicesVars ==
    <<active, opVars, cacheVars, contentVars, helmVars, tokenVars, certVars, secretVars>>

\* The fairness of each service, while it is the active one.
Fairness ==
    /\ WF_cacheVars(active = "catalogs" /\ CacheStep)
    /\ WF_cacheVars(active = "catalogs" /\ SyncCatalog)
    /\ WF_cacheVars(active = "catalogs" /\ ResyncCatalog)
    /\ WF_contentVars(active = "content" /\ ReconcileStep)
    /\ \A i \in 1..MaxSources : WF_contentVars(active = "content" /\ i \in Sources /\ SourceStep(i))
    /\ WF_helmVars(active = "helm" /\ HelmStep)
    /\ WF_helmVars(active = "helm" /\ MigrationStep)
    /\ WF_helmVars(active = "helm" /\ SyncRevisions)
    /\ \A c \in Clients : WF_tokenVars(active = "tokens" /\ RequestStep(c))
    /\ WF_certVars(active = "certificates" /\ WatcherStep)
    /\ WF_secretVars(active = "secrets" /\ HandleAccountEvent)
    /\ WF_secretVars(active = "secrets" /\ ResyncSecrets)
    /\ \A n \in SecretNames : WF_secretVars(active = "secrets" /\ HandleSecretEvent(n))
    /\ \A c \in Controllers : WF_secretVars(active = "secrets" /\ SecretReconcileStep(c))
ServicesSpec == ServicesInit /\ [][ServicesNext]_servicesVars /\ Fairness

\* The variables of every service have their types.
ServicesTypeOK ==
    CacheTypeOK /\ ContentTypeOK /\ HelmTypeOK /\ TokenTypeOK /\ CertTypeOK /\ SecretsTypeOK
=============================================================================
