---------------------------- MODULE SystemProofs ----------------------------
(***************************************************************************)
(* The services together: a behaviour of the composition is one of every    *)
(* service, so what is proved of a service alone holds of them together,    *)
(* and what an operation returned is what it computes from its inputs.      *)
(***************************************************************************)
EXTENDS MCServices, ServiceProofs, CacheProofs, OperationProofs

\* A step of the composition is a step of each service or leaves it alone.
LEMMA ServicesStep ==
    ASSUME [ServicesNext]_servicesVars
    PROVE  /\ [OpNext]_opVars
           /\ [CacheNext]_cacheVars
           /\ [ContentNext]_contentVars
           /\ [HelmNext]_helmVars
           /\ [TokenNext]_tokenVars
           /\ [CertNext]_certVars
           /\ [SecretsNext]_secretVars
BY Zenon DEF ServicesNext, servicesVars, In

\* The composition starts where each service may start.
LEMMA ServicesStart ==
    ASSUME ServicesInit
    PROVE  CacheInit /\ ContentInit /\ HelmInit /\ TokenInit /\ CertInit /\ SecretsInit
BY Zenon DEF ServicesInit, idleHelm, idleTokens, idleSecrets

\* The services share no state: whatever the other services do, each behaves as it does
\* alone.
THEOREM ServicesCompose ==
    ServicesSpec => CacheSpec /\ ContentSpec /\ HelmSpec /\ TokenSpec /\ CertSpec /\ SecretsSpec
BY ServicesStart, ServicesStep, PTL
   DEF ServicesSpec, CacheSpec, ContentSpec, HelmSpec, TokenSpec, CertSpec, SecretsSpec

\* The variables of every service keep their types, whichever service runs.
THEOREM ServicesTypeCorrect == ServicesSpec => []ServicesTypeOK
<1>1. (/\ CacheTypeOK /\ ContentTypeOK /\ HelmTypeOK
       /\ TokenTypeOK /\ CertTypeOK /\ SecretsTypeOK) => ServicesTypeOK
  BY Zenon DEF ServicesTypeOK
<1> QED BY <1>1, ServicesCompose, CacheTypeCorrect, ContentTypeCorrect, HelmTypeCorrect,
           TokenTypeCorrect, CertTypeCorrect, SecretsTypeCorrect, PTL

-----------------------------------------------------------------------------
(* The operations                                                           *)

\* An operation has not returned, or it returned what it computes of its arguments,
\* and those are arguments it is called with.
Computes(name, calls, value) ==
    op = name => call \in calls /\ (outcome = <<>> \/ outcome = <<value>>)
AuthorizeComputes ==
    Computes("authorize", AuthorizeCalls,
             PreAuthorize(call.grants, call.unresolved, call.manifest, call.cluster, call.verbs,
                          call.additional))
ConfigComputes ==
    Computes("config", ConfigCalls,
             ProvideTargets(call.modes, call.defines, call.cfg, call.given, call.install, call.gates))
CompareComputes == Computes("compare", CompareCalls, Compare(call.x, call.y))
ProbeComputes ==
    Computes("probe", ProbeCalls, BuildProgressionProbes(DefaultProgressionProbes, call))
MetasComputes == Computes("metas", MetasCalls, HandleV1Metas(call.request, call.file))
RenderComputes ==
    Computes("render", RenderCalls, Render(call.bundle, call.install, call.targets, call.provider))
DeploymentComputes ==
    Computes("deployment", DeploymentCalls,
             BundleCSVDeploymentGenerator(call.pod, call.csv, call.targets, call.secret, call.cfg))
OpInvariant ==
    /\ AuthorizeComputes /\ ConfigComputes /\ CompareComputes /\ ProbeComputes /\ MetasComputes
    /\ RenderComputes /\ DeploymentComputes

LEMMA OpStarts == ServicesInit => OpInvariant
<1> USE DEF OpInvariant, AuthorizeComputes, ConfigComputes, CompareComputes, ProbeComputes,
            MetasComputes, RenderComputes, DeploymentComputes, Computes
<1>1. ASSUME ServicesInit PROVE OpInit \/ idleOps BY <1>1, Zenon DEF ServicesInit
<1>2. CASE idleOps BY <1>2, SMT DEF idleOps
<1>3. CASE OpInit BY <1>3, SMTT(60) DEF OpInit
<1> QED BY <1>1, <1>2, <1>3

\* A call that is made keeps its arguments, and nothing is called twice.
LEMMA OpStep == OpInvariant /\ [OpNext]_opVars => OpInvariant'
<1> SUFFICES ASSUME OpInvariant, [OpNext]_opVars PROVE OpInvariant' OBVIOUS
<1> USE DEF OpInvariant, AuthorizeComputes, ConfigComputes, CompareComputes, ProbeComputes,
            MetasComputes, RenderComputes, DeploymentComputes, Computes, Calling, Return
<1>1. CASE CallAuthorize BY <1>1, SMT DEF CallAuthorize
<1>2. CASE CallConfig BY <1>2, SMT DEF CallConfig
<1>3. CASE CallCompare BY <1>3, SMT DEF CallCompare
<1>4. CASE CallProbe BY <1>4, SMT DEF CallProbe
<1>5. CASE CallMetas BY <1>5, SMT DEF CallMetas
<1>6. CASE /\ op \notin {"authorize", "config", "compare", "probe", "metas", "render", "deployment"}
           /\ UNCHANGED <<op, call>>
  BY <1>6, SMT
<1>7. CASE UNCHANGED opVars BY <1>7, SMT DEF opVars
<1>8. ASSUME \/ CallResolve \/ CallLoad \/ CallPack \/ CallRevision \/ CallChart
             \/ CallDeprecation
      PROVE  /\ op \in {"resolve", "load", "pack", "revision", "chart", "deprecation"}
             /\ UNCHANGED <<op, call>>
  BY <1>8, Zenon DEF CallResolve, CallLoad, CallPack, CallRevision, CallChart, CallDeprecation
<1>9. CASE CallRender BY <1>9, SMT DEF CallRender
<1>10. CASE CallDeployment BY <1>10, SMT DEF CallDeployment
<1> QED BY <1>1, <1>2, <1>3, <1>4, <1>5, <1>6, <1>7, <1>8, <1>9, <1>10, ZenonT(30) DEF OpNext

LEMMA OpInvariantHolds == ServicesSpec => []OpInvariant
<1>1. ServicesInit => OpInvariant BY OpStarts
<1>2. OpInvariant /\ [ServicesNext]_servicesVars => OpInvariant' BY ServicesStep, OpStep
<1> QED BY <1>1, <1>2, PTL DEF ServicesSpec

\* What was returned is the value that is computed.
LEMMA ReturnedValue ==
    ASSUME NEW value, NEW name, Returned(name), outcome = <<>> \/ outcome = <<value>>
    PROVE  result = value
BY SMT DEF Returned, result

\* What the pre-authorizer lets through the API server admits, object by object, and
\* the rules it reports as missing are enough unless it says more may be missing, for any
\* manifest, any RBAC and any roles and bindings on the cluster, read or not, and whatever
\* permissions are asked for besides (PreAuthorize, checkEscalation).
THEOREM PreAuthorizationExact == ServicesSpec => []PreAuthorizationIsExact
<1>1. AuthorizeComputes => PreAuthorizationIsExact
  <2> SUFFICES ASSUME AuthorizeComputes, Returned("authorize")
               PROVE  PreAuthorizationIsExact
    BY Zenon DEF PreAuthorizationIsExact, PreAuthorizedManifestApplies, MissingRulesSuffice
  <2> DEFINE answer == PreAuthorize(call.grants, call.unresolved, call.manifest, call.cluster, call.verbs,
                                    call.additional)
  <2>1. call \in AuthorizeCalls /\ result = answer
    BY ReturnedValue, Zenon DEF AuthorizeComputes, Computes, Returned
  <2>2. IsManifest(call.manifest, call.grants, call.additional) BY <2>1, CallsAssumption, Zenon
  <2>3. PreAuthorizedManifestApplies
    BY <2>1, <2>2, CoveredManifestApplies, Zenon DEF PreAuthorizedManifestApplies
  <2>4. ~answer.error =>
          PreAuthorize(Grant(call.grants, answer.missing), call.unresolved, call.manifest, call.cluster,
                       call.verbs, call.additional)
            = Covered
    BY <2>2, GrantSuffices, Zenon
  <2>5. MissingRulesSuffice BY <2>1, <2>4, Zenon DEF MissingRulesSuffice, Grant
  <2> QED BY <2>3, <2>5, Zenon DEF PreAuthorizationIsExact
<1> QED BY <1>1, OpInvariantHolds, PTL DEF OpInvariant

\* The schema of a bundle and the renderer agree on the namespaces to watch, for any
\* install modes, any configuration and any feature gates (GetConfigSchema,
\* GetWatchNamespace, validateTargetNamespaces).
THEOREM SchemaAgrees == ServicesSpec => []SchemaAgreesWithRenderer
<1>1. ConfigComputes => SchemaAgreesWithRenderer
  <2> SUFFICES ASSUME ConfigComputes, Returned("config"),
                      ~Unsupported(call.modes, call.defines, call.gates)
               PROVE  SchemaAgreesWithRenderer
    BY Zenon DEF SchemaAgreesWithRenderer
  <2>1. /\ call \in ConfigCalls
        /\ result = ProvideTargets(call.modes, call.defines, call.cfg, call.given, call.install,
                                   call.gates)
    BY ReturnedValue, Zenon DEF ConfigComputes, Computes, Returned
  <2>2. call.install # "" BY <2>1, CallsAssumption, Zenon
  <2>3. AgreedTargets(call.modes, call.cfg, call.given, call.install, result)
    BY <2>1, <2>2, ProvideTargetsAgrees, Zenon
  <2> QED BY <2>3, Zenon DEF SchemaAgreesWithRenderer, AgreedTargets
<1> QED BY <1>1, OpInvariantHolds, PTL DEF OpInvariant

\* The rules an account has in a namespace are those of the roles and of the cluster
\* roles that are bound to it.
LEMMA GrantedByBoth ==
    ASSUME NEW g, NEW h, NEW sa, NEW ns
    PROVE  Granted(<<g, h>>, sa, ns) = BoundRules(g, sa, ns) \cup BoundRules(h, sa, ns)
<1> DEFINE pair == <<g, h>>
<1>1. pair[1] = g /\ pair[2] = h /\ DOMAIN pair = {1, 2} BY SMT
<1>2. Granted(pair, sa, ns) = UNION {BoundRules(pair[i], sa, ns) : i \in DOMAIN pair}
  BY Zenon DEF Granted, BoundRules, Bound
<1> HIDE DEF pair
<1>3. {BoundRules(pair[i], sa, ns) : i \in DOMAIN pair} = {BoundRules(g, sa, ns), BoundRules(h, sa, ns)}
  BY <1>1, Zenon
<1> QED BY <1>2, <1>3, Zenon DEF pair

\* A rendered bundle's service accounts have exactly the rules of their permissions where
\* these apply, for any bundle and any target namespaces
\* (BundleCSVPermissionsGenerator, BundleCSVClusterPermissionsGenerator,
\* BundleCSVServiceAccountGenerator).
THEOREM PermissionsExact == ServicesSpec => []PermissionsAreExact
<1>1. RenderComputes => PermissionsAreExact
  <2> DEFINE b == call.bundle
             targets == call.targets
  <2> SUFFICES ASSUME RenderComputes, Returned("render"), result.valid
               PROVE  /\ AccountNames(b) \subseteq result.accounts \cup {"default"}
                      /\ \A sa \in AccountNames(b) : \A ns :
                           Granted(result.rbac, sa, ns) = Entitled(b, targets, sa, ns)
    BY Zenon DEF PermissionsAreExact, AccountNames, Entitled, RulesOf
  <2>1. call \in RenderCalls /\ result = Render(b, call.install, targets, call.provider)
    BY ReturnedValue, Zenon DEF RenderComputes, Computes, Returned
  <2>2. IsBundle(b) /\ AreTargets(targets) BY <2>1, CallsAssumption, Zenon
  <2> HIDE DEF b, targets
  <2>3. /\ AccountNames(b) \subseteq result.accounts \cup {"default"}
        /\ \E g, h : /\ result.rbac = <<g, h>>
                     /\ \A sa \in AccountNames(b) : \A ns :
                          BoundRules(g, sa, ns) \cup BoundRules(h, sa, ns)
                            = Entitled(b, targets, sa, ns)
    BY <2>1, <2>2, RenderedPermissions, SMT
  <2>4. PICK g, h : /\ result.rbac = <<g, h>>
                    /\ \A sa \in AccountNames(b) : \A ns :
                         BoundRules(g, sa, ns) \cup BoundRules(h, sa, ns)
                           = Entitled(b, targets, sa, ns)
    BY <2>3, Zenon
  <2>5. ASSUME NEW sa \in AccountNames(b), NEW ns
        PROVE  Granted(result.rbac, sa, ns) = Entitled(b, targets, sa, ns)
    <3>1. Granted(<<g, h>>, sa, ns) = BoundRules(g, sa, ns) \cup BoundRules(h, sa, ns)
      BY GrantedByBoth, SMT
    <3> QED BY <2>4, <3>1, Zenon
  <2> QED BY <2>3, <2>5, Zenon
<1> QED BY <1>1, OpInvariantHolds, PTL DEF OpInvariant

\* Every webhook of a rendered bundle is called at a service of its deployment, with the
\* CA of the certificate the deployment mounts and for the target namespaces only, for
\* any bundle, any targets and any certificate provider (BundleWebhookResourceGenerator,
\* BundleCRDGenerator, BundleDeploymentServiceResourceGenerator).
THEOREM WebhooksServed == ServicesSpec => []WebhooksAreServed
<1>1. RenderComputes => WebhooksAreServed
  <2> DEFINE b == call.bundle
             hooks == Elements(b.webhooks)
             targets == call.targets
             provider == call.provider
  <2> SUFFICES ASSUME RenderComputes, Returned("render"), result.valid,
                      \A w \in hooks : w.containerPort > 0
               PROVE  \A w \in hooks :
                        /\ w.type = "Conversion" \/ CallsOf(w, result) # {}
                        /\ \A h \in CallsOf(w, result) :
                             /\ Reaches(h, w, provider, result)
                             /\ w.type # "Conversion" => h.namespaces = Elements(targets)
    BY Zenon DEF WebhooksAreServed, CallsOf, Reaches
  <2>1. call \in RenderCalls /\ result = Render(b, call.install, targets, provider)
    BY ReturnedValue, Zenon DEF RenderComputes, Computes, Returned
  <2>2. IsBundle(b) /\ AreTargets(targets) BY <2>1, CallsAssumption, Zenon
  <2> HIDE DEF b, targets, provider
  <2> QED BY <2>1, <2>2, RenderedWebhooks, SMT
<1> QED BY <1>1, OpInvariantHolds, PTL DEF OpInvariant

\* The pod template of a rendered deployment names the target namespaces, whatever the
\* bundle and the deploymentConfig annotate, and no configured annotation replaces one of
\* the bundle's (BundleCSVDeploymentGenerator, ApplyCustomConfigToDeployment).
THEOREM TargetsNamed == ServicesSpec => []TargetsAreAnnotated
<1>1. DeploymentComputes => TargetsAreAnnotated
  <2> SUFFICES ASSUME DeploymentComputes, Returned("deployment") PROVE TargetsAreAnnotated
    BY Zenon DEF TargetsAreAnnotated
  <2>1. /\ call \in DeploymentCalls
        /\ result = BundleCSVDeploymentGenerator(call.pod, call.csv, call.targets, call.secret,
                                                 call.cfg)
    BY ReturnedValue, Zenon DEF DeploymentComputes, Computes, Returned
  <2>2. IsPod(call.pod) BY <2>1, CallsAssumption, Zenon
  <2> QED BY <2>1, <2>2, TargetsAnnotated, SMT DEF TargetsAreAnnotated
<1> QED BY <1>1, OpInvariantHolds, PTL DEF OpInvariant

\* VersionRelease.Compare is a total order of versions and releases, for any versions
\* and any releases, and a VersionRelease survives being written as a version string and
\* read back (Compare, AsLegacyRegistryV1Version, NewLegacyRegistryV1VersionRelease).
THEOREM VersionsOrdered == ServicesSpec => []VersionsAreOrdered
<1>1. CompareComputes => VersionsAreOrdered
  <2> SUFFICES ASSUME CompareComputes, Returned("compare") PROVE VersionsAreOrdered
    BY Zenon DEF VersionsAreOrdered
  <2>1. call \in CompareCalls /\ result = Compare(call.x, call.y)
    BY ReturnedValue, Zenon DEF CompareComputes, Computes, Returned
  <2>2. IsVersionRelease(call.x) /\ IsVersionRelease(call.y) /\ IsVersionRelease(call.z)
    BY <2>1, CallsAssumption, Zenon
  <2> QED BY <2>1, <2>2, CompareOrdered, LegacyRoundTrip, Zenon DEF VersionsAreOrdered
<1> QED BY <1>1, OpInvariantHolds, PTL DEF OpInvariant

\* The metas handler evaluates the conditions of a request in the order of RFC 7232, in
\* whole seconds, for any times and any headers, those that do not parse included, and
\* answers as the RFC says but for an unreadable If-Modified-Since, which is an error
\* (checkPreconditions, checkIfModifiedSince).
THEOREM PreconditionsFollow == ServicesSpec => []PreconditionsFollowRFC
<1>1. MetasComputes => PreconditionsFollowRFC
  <2> SUFFICES ASSUME MetasComputes, Returned("metas"), Served(call.request, call.file)
               PROVE  PreconditionsFollowRFC
    BY Zenon DEF PreconditionsFollowRFC, Served
  <2>1. call \in MetasCalls /\ result = HandleV1Metas(call.request, call.file)
    BY ReturnedValue, Zenon DEF MetasComputes, Computes, Returned
  <2>2. IsConditional(call.request, call.file) BY <2>1, CallsAssumption, Zenon
  <2>3. result.status = StatusByRFC(call.request, call.file)
    BY <2>1, <2>2, MetasFollowRFC, Zenon
  <2> QED BY <2>3, Zenon
      DEF PreconditionsFollowRFC, StatusByRFC, RequestFails, NotModified, Garbled
<1> QED BY <1>1, OpInvariantHolds, PTL DEF OpInvariant

\* A phase completes on nothing that is outdated or not usable yet by later phases, for
\* any state of any object (buildProgressionProbes and the default probes).
THEOREM ProbesAwait == ServicesSpec => []ProbesAwaitReadiness
<1>1. ProbeComputes => ProbesAwaitReadiness
  <2> SUFFICES ASSUME ProbeComputes, Returned("probe"), result PROVE ProbesAwaitReadiness
    BY Zenon DEF ProbesAwaitReadiness
  <2>1. BuildProgressionProbes(DefaultProgressionProbes, call)
    BY ReturnedValue, Zenon DEF ProbeComputes, Computes, Returned
  <2>2. ASSUME NEW p \in DefaultProgressionProbes
        PROVE  /\ call.observed # "outdated"
               /\ call.kind = p.kind => \A a \in p.assertions : AssertionHolds(a, call)
    BY <2>1, Zenon DEF BuildProgressionProbes
  <2>3. \A c : AssertionHolds(ConditionTrue(c), call) => c \in call.conditions
    BY SMT DEF AssertionHolds, ConditionTrue
  <2>4. \A f, v : AssertionHolds(FieldValue(f, v), call) => call.fields[f] = v
    BY SMT DEF AssertionHolds, FieldValue
  <2>5. AssertionHolds(ReplicasUpdated, call)
          => call.fields["updatedReplicas"] = call.fields["replicas"]
    BY SMT DEF AssertionHolds, ReplicasUpdated
  <2>6. call.kind = "CustomResourceDefinition" => AssertionHolds(ConditionTrue("Established"), call)
    BY <2>2, SMTT(30) DEF DefaultProgressionProbes
  <2>7. call.kind = "Namespace" => AssertionHolds(FieldValue("phase", "Active"), call)
    BY <2>2, SMTT(30) DEF DefaultProgressionProbes
  <2>8. call.kind = "Deployment" => /\ AssertionHolds(ReplicasUpdated, call)
                                    /\ AssertionHolds(ConditionTrue("Available"), call)
    BY <2>2, SMTT(30) DEF DefaultProgressionProbes
  <2>9. call.observed # "outdated" BY <2>2, SMT DEF DefaultProgressionProbes
  <2> QED BY <2>3, <2>4, <2>5, <2>6, <2>7, <2>8, <2>9, Zenon DEF ProbesAwaitReadiness
<1> QED BY <1>1, OpInvariantHolds, PTL DEF OpInvariant
=============================================================================
