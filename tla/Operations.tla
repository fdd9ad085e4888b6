----------------------------- MODULE Operations -----------------------------
(***************************************************************************)
(* The operations of the two managers that compute and do not wait, each    *)
(* called once on every input of a set: bundle resolution, configuration,   *)
(* rendering, deployment customization, RBAC pre-authorization, packing     *)
(* into phases and Secrets, the content of revisions and charts, the        *)
(* deprecation conditions, and catalogd's metas queries.  The properties    *)
(* compare what an operation returned with what its callers rely on.        *)
(***************************************************************************)
EXTENDS Resolution, BundleManifests, DeploymentRendering, PreAuthorization,
        RevisionContent, Charts, DeprecationStatus, CatalogContent

CONSTANTS ResolveCalls, CompareCalls, ConfigCalls, LoadCalls, RenderCalls, DeploymentCalls,
          AuthorizeCalls, PackCalls, RevisionCalls, ProbeCalls, ChartCalls, DeprecationCalls,
          MetasCalls

\* The inputs are values the program makes, and an extension has an install namespace.
ASSUME CallsAssumption ==
    /\ \A c \in CompareCalls : IsVersionRelease(c.x) /\ IsVersionRelease(c.y) /\ IsVersionRelease(c.z)
    /\ \A c \in ConfigCalls : c.install # ""
    /\ \A c \in RenderCalls : IsBundle(c.bundle) /\ AreTargets(c.targets)
    /\ \A c \in DeploymentCalls : IsPod(c.pod)
    /\ \A c \in AuthorizeCalls : IsManifest(c.manifest, c.grants, c.additional)
    /\ \A c \in MetasCalls : IsConditional(c.request, c.file)

VARIABLES op,        \* the operation that is called
          call,      \* its arguments
          outcome    \* <<>>, and then its result in a sequence

opVars == <<op, call, outcome>>

Calling(name) == op = name /\ outcome = <<>>
Return(value) == outcome' = <<value>> /\ UNCHANGED <<op, call>>
Returned(name) == op = name /\ outcome # <<>>
result == outcome[1]

OpInit ==
    /\ outcome = <<>>
    /\ \/ op = "resolve" /\ call \in ResolveCalls
       \/ op = "compare" /\ call \in CompareCalls
       \/ op = "config" /\ call \in ConfigCalls
       \/ op = "load" /\ call \in LoadCalls
       \/ op = "render" /\ call \in RenderCalls
       \/ op = "deployment" /\ call \in DeploymentCalls
       \/ op = "authorize" /\ call \in AuthorizeCalls
       \/ op = "pack" /\ call \in PackCalls
       \/ op = "revision" /\ call \in RevisionCalls
       \/ op = "probe" /\ call \in ProbeCalls
       \/ op = "chart" /\ call \in ChartCalls
       \/ op = "deprecation" /\ call \in DeprecationCalls
       \/ op = "metas" /\ call \in MetasCalls

CallResolve ==
    Calling("resolve") /\ Return(Resolve(call.catalogs, call.ext, call.installed))
CallCompare == Calling("compare") /\ Return(Compare(call.x, call.y))
CallConfig ==
    Calling("config")
    /\ Return(ProvideTargets(call.modes, call.defines, call.cfg, call.given, call.install, call.gates))
CallLoad == Calling("load") /\ Return(GetBundle(call))
CallRender ==
    Calling("render") /\ Return(Render(call.bundle, call.install, call.targets, call.provider))
CallDeployment ==
    /\ Calling("deployment")
    /\ Return(BundleCSVDeploymentGenerator(call.pod, call.csv, call.targets, call.secret, call.cfg))
CallAuthorize ==
    Calling("authorize")
    /\ Return(PreAuthorize(call.grants, call.unresolved, call.manifest, call.cluster, call.verbs,
                           call.additional))
CallPack == Calling("pack") /\ Return(Pack(PhaseSort(call.objects)))
\* A revision that Apply creates, compared with the latest one first if there is
\* one, as the ClusterObjectSet controller reads it; some Secrets may be gone.
CallRevision ==
    /\ Calling("revision")
    /\ LET generated == GenerateRevision(call.objects, call.bundleAnnotations, call.ext,
                                         call.labels, call.annotations)
           desired == IF call.existing THEN AfterComparison(generated) ELSE generated
           packed == Pack(ExtractPhasesForPacking(desired.phases))
           stored == ReplaceInlineWithRefs(desired, packed)
       IN  Return([packed |-> packed, checked |-> GetObjects(desired), stored |-> stored,
                   engine |-> BuildBoxcutterPhases(stored, {s \in packed.secrets : ~call.gone})])
CallProbe == Calling("probe") /\ Return(BuildProgressionProbes(DefaultProgressionProbes, call))
CallChart ==
    /\ Calling("chart")
    /\ Return(BuildHelmChart(ApplyImage(call.image, call.gate), call.gate, call.namespace))
CallDeprecation ==
    /\ Calling("deprecation")
    /\ Return(DeprecationConditions(call.channels, call.installed, call.entries, call.hasCatalogData))
CallMetas == Calling("metas") /\ Return(HandleV1Metas(call.request, call.file))

OpNext ==
    \/ CallResolve \/ CallCompare \/ CallConfig \/ CallLoad \/ CallRender
    \/ CallDeployment \/ CallAuthorize \/ CallPack \/ CallRevision \/ CallProbe
    \/ CallChart \/ CallDeprecation \/ CallMetas
OpSpec == OpInit /\ [][OpNext]_opVars

-----------------------------------------------------------------------------
(* Resolution                                                               *)

\* The order in which the client lists the catalogs does not decide which
\* bundle CatalogResolver.Resolve returns, or from which catalog.
ResolutionIgnoresOrder ==
    Returned("resolve") =>
        LET other == Resolve(Reverse(call.catalogs), call.ext, call.installed)
        IN  result.bundle = other.bundle /\ result.catalog = other.catalog

\* The bundles of a catalog an extension may move to: in its channels, in its
\* version range, and reached by an edge of those channels or the same version.
Offered(catalog) ==
    LET chosen == {ch \in catalog.package.channels :
                      call.ext.channels = {} \/ ch.name \in call.ext.channels}
        entries == UNION {ch.entries : ch \in chosen}
        from == call.installed
    IN  {b \in ToSet(catalog.package.bundles) :
            /\ call.ext.channels # {} => b.name \in {e.name : e \in entries}
            /\ call.ext.range # {} => b.version \in call.ext.range
            /\ \/ call.ext.selfCertified \/ from = NoBundle
               \/ \E e \in entries : /\ e.name = b.name
                                     /\ \/ e.replaces = from.name
                                        \/ from.name \in e.skips
                                        \/ from.version \in e.skipRange
               \/ /\ b.version # 0
                  /\ GetVersionAndRelease(b).version = GetVersionAndRelease(from).version
                  /\ GetVersionAndRelease(b).release = GetVersionAndRelease(from).release}
\* The bundle CatalogResolver.Resolve returns is the newest its catalog
\* offers, deprecated only if every catalog offers nothing but deprecated
\* bundles, of the catalog that alone has the highest priority; and when there
\* is such a bundle, readable and supported, it is returned.
ResolvedIsBest ==
    Returned("resolve") =>
        LET walked == {c \in ToSet(call.catalogs) :
                          c.available /\ (call.ext.selector = {} \/ c.label \in call.ext.selector)}
            sound(c) == {b \in Offered(c) : b.name \notin c.package.deprecation.bundles}
            pool(c) == IF \E d \in walked : sound(d) # {} THEN sound(c) ELSE Offered(c)
            serving == {c \in walked : pool(c) # {}}
            best == {c \in serving : \A d \in serving \ {c} : d.priority < c.priority}
            newest(c) == {b \in pool(c) : \A d \in pool(c) : ByVersionAndRelease(b, d) <= 0}
            usable(b) == b.version # 0 /\ b.name \notin call.ext.unsupported
        IN  IF (\E c \in walked : c.error) \/ best = {} THEN result = Unresolved
            ELSE \A c \in best :
                   \/ result.catalog = c.name /\ result.bundle \in newest(c) /\ usable(result.bundle)
                   \/ result = Unresolved /\ \E b \in newest(c) : ~usable(b)

\* The deprecation CatalogResolver.Resolve returns with a bundle is that of the
\* package of the bundle, in the catalog it was resolved from, as the comment where
\* it is kept says ("so that we can return it if we end up resolving a bundle from
\* this package").
DeprecationIsOfResolved ==
    (Returned("resolve") /\ result # Unresolved) =>
        \A c \in ToSet(call.catalogs) :
            c.name = result.catalog => result.deprecation = c.package.deprecation

\* VersionRelease.Compare is a total order in which only a version and release
\* equal themselves, and a VersionRelease survives being written into a status
\* and read back.
VersionsAreOrdered ==
    Returned("compare") =>
        /\ result = -Compare(call.y, call.x)
        /\ result = 0 => call.x.version = call.y.version /\ call.x.release = call.y.release
        /\ (result <= 0 /\ Compare(call.y, call.z) <= 0) => Compare(call.x, call.z) <= 0
        /\ LET legacy == AsLegacyRegistryV1Version(call.x)
           IN  NewLegacyRegistryV1VersionRelease(legacy.version, legacy.build) = call.x

-----------------------------------------------------------------------------
(* Configuration and rendering                                              *)

\* The schema a bundle publishes and the renderer agree: a configuration the
\* schema accepts is never refused by validateTargetNamespaces, a namespace
\* the renderer takes can be configured, and a bundle that supports all
\* namespaces needs no configuration.
SchemaAgreesWithRenderer ==
    (Returned("config") /\ ~Unsupported(call.modes, call.defines, call.gates)) =>
        LET ns == call.cfg.watchNamespace
            plain == ~call.cfg.unknownField /\ ~call.cfg.deploymentConfig
        IN  /\ result.status # "invalidTargets"
            /\ (/\ call.given /\ plain /\ ns \notin {"absent", "null", "", "_"}
                /\ ValidateTargetNamespaces(call.modes, call.install, <<ns>>))
                  => result = [status |-> "rendered", targets |-> <<ns>>]
            /\ (All \in call.modes /\ plain /\ (~call.given \/ ns = "absent"))
                  => result = [status |-> "rendered", targets |-> <<"">>]

\* A bundle image that is loaded has lost nothing, provided it has one CSV:
\* every object of its manifests is in the bundle once and in its order, and
\* the properties of the CSV are kept beside those of the properties file.
LoadedBundleIsWhole ==
    (Returned("load") /\ ~result.error) =>
        LET objects == FlattenSeq([i \in DOMAIN call.manifests |-> call.manifests[i].objects])
            of(kinds) == SelectSeq(objects, LAMBDA o : o.kind \in kinds)
            others == {o.kind : o \in ToSet(objects)}
                          \ {"ClusterServiceVersion", "CustomResourceDefinition"}
            csvs == of({"ClusterServiceVersion"})
        IN  Len(csvs) = 1 =>
              /\ result.csv = csvs
              /\ result.crds = of({"CustomResourceDefinition"}) /\ result.others = of(others)
              /\ ToSet(csvs[1].properties) \cup ToSet(call.properties) = ToSet(result.properties)

\* The rules a service account ends up with in a namespace.
Granted(rbac, sa, ns) ==
    UNION {UNION {r.rules : r \in {x \in rbac[i].roles : \E y \in rbac[i].bindings :
                                       /\ y.subject = SaNameOrDefault(sa) /\ y.role = x.name
                                       /\ y.ns = x.ns /\ y.ns \in {"", ns}}} : i \in DOMAIN rbac}
\* A rendered bundle's service account has, in a namespace, the rules of its
\* cluster permissions, and those of its permissions if the namespace is a
\* target, and nothing else but reading namespaces when all are targets; and
\* it is created, unless it is the default one.
PermissionsAreExact ==
    (Returned("render") /\ result.valid) =>
        LET b == call.bundle
            all == call.targets = <<"">>
            of(perms, sa) == UNION {p.rules : p \in {x \in perms : SaNameOrDefault(x.sa) = sa}}
            accounts == {SaNameOrDefault(p.sa) : p \in b.permissions \cup b.clusterPermissions}
        IN  /\ accounts \subseteq result.accounts \cup {"default"}
            /\ \A sa \in accounts, ns \in {call.install, "target", "elsewhere"} :
                 Granted(result.rbac, sa, ns) =
                    of(b.clusterPermissions, sa)
                    \cup (IF all \/ ns \in Elements(call.targets) THEN of(b.permissions, sa) ELSE {})
                    \cup (IF all /\ \E p \in b.permissions : SaNameOrDefault(p.sa) = sa
                          THEN {ViewNamespaces} ELSE {})

\* Every webhook of a rendered bundle, conversions included, is called at a
\* service that selects its deployment and has its port, with the CA of the
\* certificate that is issued for that service and that the deployment mounts,
\* and only for objects of the target namespaces.  The bundle sets container ports, gives a port one
\* target, and its deployments differ by more than dots.
WebhooksAreServed ==
    (Returned("render") /\ result.valid) =>
        LET b == call.bundle
            hooks == Elements(b.webhooks)
            called(w) == IF w.type = "Conversion"
                         THEN UNION {crd.calls : crd \in {c \in result.crds : c.name \in w.crds}}
                         ELSE {h \in result.webhooks : h.name = w.name /\ h.type = w.type}
        IN  (/\ \A w \in hooks : w.containerPort > 0
             /\ \A v, w \in hooks : (v.deployment = w.deployment /\ v.containerPort = w.containerPort)
                                        => v.targetPort = w.targetPort
             /\ \A d, e \in Elements(b.deployments) : d.stem = e.stem => d = e)
            => \A w \in hooks :
                 /\ w.type = "Conversion" \/ called(w) # {}
                 /\ \A h \in called(w) : \E s \in result.services :
                      /\ s.name = h.service /\ s.selects = w.deployment
                      /\ \E p \in s.ports : p.port = h.port
                      /\ \A d \in {x \in result.deployments : x.name = w.deployment} :
                            /\ call.provider = "cert-manager" =>
                                  h.ca = d.secret /\ [secret |-> d.secret, service |-> s.name] \in result.certificates
                            /\ call.provider = "service-ca" => s.secret = d.secret
                      /\ w.type # "Conversion" => h.namespaces = Elements(call.targets)

\* The value a container sees: of two entries of a name the later counts.
Effective(list, name) ==
    LET at == {i \in DOMAIN list : list[i].name = name}
    IN  list[CHOOSE i \in at : \A j \in at : j <= i]
\* In every container of a rendered deployment an environment variable of the
\* deploymentConfig has the configured value, and any other the bundle's.
ConfigTakesEffect ==
    Returned("deployment") =>
        \A i \in DOMAIN call.pod.containers :
            LET was == call.pod.containers[i].env
                is == result.containers[i].env
            IN  /\ Names(is) = Names(was) \cup Names(call.cfg.env)
                /\ \A n \in Names(is) :
                     Effective(is, n) = IF n \in Names(call.cfg.env) THEN Effective(call.cfg.env, n)
                                        ELSE Effective(was, n)

\* In every container of a rendered deployment with webhooks each certificate
\* path has one mount, of the certificate's secret, and every mount has its
\* volume, provided the bundle's and the configuration's mounts have theirs
\* and the configuration leaves the certificate volumes and paths alone.
CertificatesAreMounted ==
    (/\ Returned("deployment") /\ call.secret # Unset
     /\ Names(call.cfg.mounts) \subseteq Names(call.cfg.volumes) \ ToSet(CertVolumes)
     /\ \A i \in DOMAIN call.pod.containers :
            /\ Names(call.pod.containers[i].mounts) \subseteq Names(call.pod.volumes)
            /\ \A m \in ToSet(call.pod.containers[i].mounts) :
                  m.path \in ProtectedPaths => m.name \notin Names(call.cfg.volumes)
     /\ \A m \in ToSet(call.cfg.mounts) : m.path \notin ProtectedPaths)
    => \A i \in DOMAIN result.containers :
          LET mounts == result.containers[i].mounts
          IN  /\ Names(mounts) \subseteq Names(result.volumes)
              /\ \A path \in ProtectedPaths :
                    LET at == {j \in DOMAIN mounts : mounts[j].path = path}
                    IN  Cardinality(at) = 1 /\ \A j \in at :
                            Effective(result.volumes, mounts[j].name).source = call.secret

\* The pod template of a rendered deployment says which namespaces to watch,
\* whatever annotations the CSV, the template or the deploymentConfig have, and
\* an annotation of the bundle is never replaced by a configured one.
TargetsAreAnnotated ==
    Returned("deployment") =>
        /\ result.template["olm.targetNamespaces"] = call.targets
        /\ \A k \in DOMAIN call.pod.annotations : result.annotations[k] = call.pod.annotations[k]
        /\ \A k \in DOMAIN call.cfg.annotations \ {"olm.targetNamespaces"} :
              k \notin DOMAIN call.csv \cup DOMAIN call.pod.template
                  => result.template[k] = call.cfg.annotations[k]

-----------------------------------------------------------------------------
(* Pre-authorization                                                        *)

\* A manifest the pre-authorizer reports nothing about is one the API server
\* will take from that identity, object by object and with the owner it is given,
\* also when not all of the identity's bindings could be read.
PreAuthorizedManifestApplies ==
    (Returned("authorize") /\ result = Covered) =>
        ServerAdmits(call.grants, call.manifest, call.cluster, call.additional)

\* Granting the rules that were reported missing is enough, unless it was said that
\* more may be missing: asked again, the pre-authorizer reports nothing.
MissingRulesSuffice ==
    (Returned("authorize") /\ ~result.error) =>
        LET granted == [ns \in DOMAIN call.grants |->
                           call.grants[ns] \cup {m.rule : m \in {x \in result.missing : x.ns = ns}}]
        IN  PreAuthorize(granted, call.unresolved, call.manifest, call.cluster, call.verbs,
                         call.additional) = Covered

-----------------------------------------------------------------------------
(* Phases and Secrets                                                       *)

\* The same objects in another order make the same phases, the same Secrets
\* and the same references ("regardless of input order").
PackingIgnoresOrder ==
    Returned("pack") =>
        /\ PhaseSort(call.objects) = PhaseSort(Reverse(call.objects))
        /\ result = Pack(PhaseSort(Reverse(call.objects)))

\* Unless an object is refused as too large, every object is in some phase and
\* has a reference to a Secret that holds it, and no Secret exceeds the limit.
PackedObjectsResolve ==
    Returned("pack") =>
        LET phases == PhaseSort(call.objects)
        IN  /\ result.error <=> \E i \in DOMAIN call.objects :
                                    StoredSize(call.objects[i]) > MaxSecretDataSize
            /\ ~result.error =>
                 /\ ToSet(call.objects) = UNION {ToSet(phases[i].objects) : i \in DOMAIN phases}
                 /\ \A i \in DOMAIN phases : \A j \in DOMAIN phases[i].objects :
                      /\ <<i, j>> \in DOMAIN result.refs
                      /\ \E s \in result.secrets : /\ s.name = result.refs[<<i, j>>].secret
                                                   /\ result.refs[<<i, j>>].key \in s.data
                      /\ result.refs[<<i, j>>].key = phases[i].objects[j]
                 /\ \A s \in result.secrets :
                      MapThenSumSet(StoredSize, s.data) <= MaxSecretDataSize

\* An object as it should be applied to the cluster.
Intended(o) ==
    LET bundle == Restrict(call.annotations, {k \in DOMAIN call.annotations : call.annotations[k] # ""})
        own == Field(o.metadata, "annotations")
        annotations == bundle @@ Restrict(own, DOMAIN own \ {"last-applied-configuration"})
    IN  [o EXCEPT !.status = FALSE,
                  !.metadata = (IF annotations = <<>> THEN <<>> ELSE [annotations |-> annotations])
                      @@ [name |-> o.metadata.name,
                          labels |-> [owner |-> call.ext.name] @@ call.labels @@ Field(o.metadata, "labels")]]
\* What the ClusterObjectSet controller hands to boxcutter for a revision that
\* Apply created is what was rendered: every object once, in the phase of its
\* kind, with the labels and annotations it should have and what the cluster
\* owns left out, protected against collisions and applied as the extension's
\* service account.  If a Secret is gone or an object is too large to expand,
\* nothing is handed over rather than a part; and preflights saw the objects.
RevisionKeepsObjects ==
    (Returned("revision") /\ ~result.packed.error) =>
        LET objects == {Intended(o) : o \in ToSet(call.objects)}
            phases == result.engine.phases
            places == DOMAIN result.packed.refs
            at(p) == phases[p[1]].objects[p[2]]
        IN  /\ RevisionServiceAccount(result.stored) = <<call.ext.namespace, call.ext.serviceAccount>>
            /\ Len(result.checked) = Len(call.objects)
            /\ result.engine.error <=>
                  /\ call.objects # <<>>
                  /\ call.gone \/ \E o \in ToSet(call.objects) : o.size > MaxDecompressedSize
            /\ ~result.engine.error =>
                  /\ Cardinality(places) = Len(call.objects)
                  /\ {at(p).object : p \in places} = objects
                  /\ \A p \in places : /\ at(p).collisionProtection = "Prevent"
                                       /\ phases[p[1]].name = DeterminePhase(at(p).object.kind)

\* Migration does not change what is installed: the revision made of the Helm
\* release of a bundle, in whatever order Helm sorted it, hands over the same
\* objects in the same phases as one generated from the bundle, except that it
\* may take them over (CollisionProtection None).
MigrationKeepsObjects ==
    (Returned("revision") /\ ~result.packed.error /\ ~result.engine.error) =>
        LET release == [manifest |-> PostRenderer(Reverse(call.objects), call.labels),
                        labels |-> call.annotations]
            migrated == GenerateRevisionFromHelmRelease(release, call.ext, call.labels)
            taken(p) == [p EXCEPT !.objects = [j \in DOMAIN @ |->
                                                  [@[j] EXCEPT !.collisionProtection = "None"]]]
        IN  /\ BuildBoxcutterPhases(migrated, {}).phases
                   = [i \in DOMAIN result.engine.phases |-> taken(result.engine.phases[i])]
            /\ RevisionServiceAccount(migrated) = RevisionServiceAccount(result.stored)

\* A phase does not complete on a status of an earlier generation, whatever
\* the kind, nor on what is not usable yet by the objects of later phases.
ProbesAwaitReadiness ==
    (Returned("probe") /\ result) =>
        /\ call.observed # "outdated"
        /\ call.kind = "CustomResourceDefinition" => "Established" \in call.conditions
        /\ call.kind = "Deployment" => /\ "Available" \in call.conditions
                                       /\ call.fields["updatedReplicas"] = call.fields["replicas"]
        /\ call.kind = "Namespace" => call.fields["phase"] = "Active"

\* The release of a registry+v1 bundle holds its objects verbatim, Go templates
\* in them included; the release of a chart image holds what its templates
\* evaluate to in the install namespace, signed or not.
ChartsRenderContent ==
    Returned("chart") =>
        LET manifest == Evaluated(result, call.namespace)
            chart == call.image.layers[1]
        IN  IF call.image.config = "chart"
            THEN /\ result.error <=> ~call.gate \/ ~chart.readable \/ chart.templates = <<>>
                 /\ ~result.error =>
                      /\ Len(manifest) = Len(chart.templates)
                      /\ \A i \in DOMAIN manifest :
                           /\ manifest[i].id = chart.templates[i].id
                           /\ manifest[i].form \in {"plain", "evaluated"}
                           /\ manifest[i].namespace \in {"", call.namespace}
            ELSE manifest = call.image.objects

-----------------------------------------------------------------------------
(* Deprecation                                                              *)

\* With catalog data the overall condition is true exactly when one of the
\* three is, and it names every message about the package, a channel that may
\* be used or the installed bundle; without, nothing is claimed; and what is
\* installed does not change what is said of the package and the channels.
DeprecationIsReported ==
    Returned("deprecation") =>
        LET parts == {result.package, result.channel, result.bundle}
            about(e) == \/ e.schema = "olm.package"
                        \/ e.schema = "olm.channel" /\ (call.channels = {} \/ e.name \in call.channels)
                        \/ e.schema = "olm.bundle" /\ e.name = call.installed
            other == DeprecationConditions(call.channels, "", call.entries, call.hasCatalogData)
        IN  /\ call.hasCatalogData =>
                  /\ result.any.status = "True" <=> \E c \in parts : c.status = "True"
                  /\ ToSet(result.messages)
                        = {e.message : e \in {x \in ToSet(call.entries) : about(x) /\ x.message # ""}}
            /\ ~call.hasCatalogData => \A c \in parts \cup {result.any} : c.status = "Unknown"
            /\ call.installed = "" => result.bundle.reason = "Absent"
            /\ other.package = result.package /\ other.channel = result.channel

-----------------------------------------------------------------------------
(* catalogd's metas                                                         *)

\* A query returns the metas with the schema, package and name asked for, each
\* once and in the order of the catalog, provided every meta has a schema.
QueryAnswersMatches ==
    (/\ Returned("metas") /\ result.status = 200 /\ call.request.method = "GET"
     /\ \A i \in DOMAIN call.file.metas : call.file.metas[i].schema # "") =>
        LET metas == call.file.metas
            start[i \in 0..Len(metas)] == IF i <= 1 THEN 0 ELSE start[i - 1] + metas[i - 1].length
            matches == SelectSeq([i \in DOMAIN metas |-> i], LAMBDA i :
                           \A f \in DOMAIN call.request.query :
                               call.request.query[f] \in {"", metas[i][f]})
        IN  result.body = [k \in DOMAIN matches |->
                              [offset |-> start[matches[k]], length |-> metas[matches[k]].length]]

\* Conditions are evaluated in the order of RFC 7232: If-Match, else
\* If-Unmodified-Since, fail the request; If-None-Match, else
\* If-Modified-Since, answer that nothing changed; times in whole seconds.
\* One answer is not the RFC's, which ignores a time it cannot read: an
\* If-Modified-Since that does not parse is an internal error when it is looked at,
\* with the content served after it (checkIfModifiedSince).
PreconditionsFollowRFC ==
    (/\ Returned("metas") /\ call.request.method \in {"GET", "HEAD"}
     /\ ~call.request.otherParams /\ call.file.error = "") =>
        LET r == call.request
            known == call.file.modtime # 0
            after(t) == call.file.modtime \div 2 > t \div 2
            failed == \/ r.ifMatch = "tags"
                      \/ r.ifMatch = "" /\ r.ifUnmodifiedSince >= 0 /\ known /\ after(r.ifUnmodifiedSince)
            same == \/ r.ifNoneMatch = "*"
                    \/ r.ifNoneMatch = "" /\ r.ifModifiedSince >= 0 /\ known /\ ~after(r.ifModifiedSince)
            garbled == r.ifNoneMatch = "" /\ r.ifModifiedSince = Bad /\ known
        IN  result.status = IF failed THEN 412 ELSE IF same THEN 304 ELSE IF garbled THEN 500 ELSE 200
-----------------------------------------------------------------------------
(* What the callers of each part rely on                                    *)

\* Resolution: the best candidate of the catalogs, in whatever order they are
\* walked, by an order of versions and releases that is one (Resolve); which
\* deprecation comes with it is DeprecationIsOfResolved.  The deprecation that
\* SetDeprecationStatus is given is reported for the channels asked for and the
\* bundle installed.
ResolutionIsCorrect ==
    ResolvedIsBest /\ ResolutionIgnoresOrder /\ VersionsAreOrdered /\ DeprecationIsReported

\* Loading and rendering: nothing of the bundle is lost, permissions are those the
\* targets call for, webhooks and certificates fit the deployments they are for,
\* and the user's configuration takes effect without undoing them (Render); and a
\* chart renders to what it is made of (buildHelmChart).
RenderingIsFaithful ==
    /\ LoadedBundleIsWhole /\ PermissionsAreExact /\ WebhooksAreServed
    /\ ConfigTakesEffect /\ CertificatesAreMounted /\ TargetsAreAnnotated
    /\ ChartsRenderContent

\* Pre-authorization: what it lets through applies, and what it asks for is enough
\* (PreAuthorize).  It may ask for more than the API server does: escalate counts only
\* when granted cluster-wide and for every role (checkEscalation).
PreAuthorizationIsExact == PreAuthorizedManifestApplies /\ MissingRulesSuffice

\* Packing: every object can be found through its reference, and the same objects
\* make the same revision (PhaseSort, SecretPacker.Pack); what is rolled out of a
\* revision is what it was made of, generated or migrated, and no phase of it
\* completes early (GenerateRevision, buildBoxcutterPhases).
PackingIsFaithful ==
    /\ PackedObjectsResolve /\ PackingIgnoresOrder
    /\ RevisionKeepsObjects /\ MigrationKeepsObjects /\ ProbesAwaitReadiness

\* The metas handler: the sections asked for, unless a precondition says otherwise.
AnswersAreExact == QueryAnswersMatches /\ PreconditionsFollowRFC
=============================================================================
