--------------------------- MODULE BundleManifests ---------------------------
(***************************************************************************)
(* The validators and the resource generators of registry+v1 bundles: the   *)
(* RBAC objects, webhook configurations, services, certificates and CRDs a  *)
(* bundle becomes, once it is found valid.  A deployment is named by a stem *)
(* and whether it is spelled with dots, which service names do not keep.    *)
(***************************************************************************)
EXTENDS BundleConfig

Elements(f) == {f[i] : i \in DOMAIN f}
Unique(f) == \A i, j \in DOMAIN f : f[i] = f[j] => i = j
Conversions(b) == {i \in DOMAIN b.webhooks : b.webhooks[i].type = "Conversion"}

\* A bundle's permissions are accounts and rules, its webhooks of three types; the
\* namespaces it is rendered for are listed once each.
IsBundle(b) ==
    /\ \A p \in b.permissions : p = [sa |-> p.sa, rules |-> p.rules]
    /\ \A w \in Elements(b.webhooks) : w.type \in {"Conversion", "Validating", "Mutating"}
AreTargets(targets) == targets \in Seq(Elements(targets)) /\ Unique(targets)

-----------------------------------------------------------------------------
(* The bundle's files                                                       *)

NoLoad == [error |-> FALSE, csv |-> <<>>, crds |-> <<>>, others |-> <<>>, properties |-> <<>>]
LoadObject(reg, o) ==
    CASE o.kind = "unreadable" -> [reg EXCEPT !.error = TRUE]
      [] o.kind = "ClusterServiceVersion" -> [reg EXCEPT !.csv = <<o>>]
      [] o.kind = "CustomResourceDefinition" -> [reg EXCEPT !.crds = Append(@, o)]
      [] OTHER -> [reg EXCEPT !.others = Append(@, o)]
\* WalkDir over manifests/, which has no subdirectories, until an error.
LoadFile(reg, file) ==
    IF reg.error \/ file.directory THEN [reg EXCEPT !.error = TRUE]
    ELSE FoldLeft(LAMBDA r, o : IF r.error THEN r ELSE LoadObject(r, o), reg, file.objects)
\* The properties of metadata/properties.yaml after those of the CSV.
CopyMetadataPropertiesToCSV(reg, properties) ==
    [reg EXCEPT !.properties = reg.csv[1].properties \o properties]
GetBundle(image) ==
    LET reg == FoldLeft(LoadFile, NoLoad, image.manifests)
    IN  IF ~image.annotations \/ reg.error \/ reg.csv = <<>> THEN [reg EXCEPT !.error = TRUE]
        ELSE CopyMetadataPropertiesToCSV(reg, image.properties)

-----------------------------------------------------------------------------
(* BundleValidator                                                          *)

CheckDeploymentSpecUniqueness(b) == Unique(b.deployments)
CheckDeploymentNameIsDNS1123SubDomain(b) == \A d \in Elements(b.deployments) : d.stem # "_"
CheckOwnedCRDExistence(b) == b.owned \subseteq {crd.name : crd \in Elements(b.crds)}
CheckCRDResourceUniqueness(b) == Unique([i \in DOMAIN b.crds |-> b.crds[i].name])
CheckPackageNameNotEmpty(b) == b.package # ""
CheckConversionWebhookSupport(b) == Conversions(b) # {} => b.modes = {All}
CheckWebhookDeploymentReferentialIntegrity(b) ==
    \A w \in Elements(b.webhooks) : w.deployment \in Elements(b.deployments)
CheckWebhookNameUniqueness(b) ==
    Unique([i \in DOMAIN b.webhooks |-> <<b.webhooks[i].type, b.webhooks[i].name>>])
CheckConversionWebhooksReferenceOwnedCRDs(b) ==
    \A i \in Conversions(b) : b.webhooks[i].crds \subseteq b.owned
CheckConversionWebhookCRDReferenceUniqueness(b) ==
    \A i, j \in Conversions(b) : b.webhooks[i].crds \cap b.webhooks[j].crds # {} => i = j
CheckWebhookNameIsDNS1123SubDomain(b) == \A w \in Elements(b.webhooks) : w.name # "_"
ForbiddenRule(r) ==
    \/ r.group \in {"olm.operatorframework.io", "*"}
    \/ r.group = "admissionregistration.k8s.io" /\ r.resource \in {"*", "webhookconfigurations"}
CheckWebhookRules(b) ==
    \A w \in Elements(b.webhooks) : w.type # "Conversion" => ~ForbiddenRule(w.rule)
CheckObjectSupport(b) == \A o \in Elements(b.others) : o.kind \in {"ConfigMap", "PriorityClass"}
Validate(b) ==
    /\ CheckDeploymentSpecUniqueness(b) /\ CheckDeploymentNameIsDNS1123SubDomain(b)
    /\ CheckCRDResourceUniqueness(b) /\ CheckOwnedCRDExistence(b)
    /\ CheckPackageNameNotEmpty(b) /\ CheckConversionWebhookSupport(b)
    /\ CheckWebhookDeploymentReferentialIntegrity(b)
    /\ CheckWebhookNameUniqueness(b) /\ CheckWebhookNameIsDNS1123SubDomain(b)
    /\ CheckConversionWebhookCRDReferenceUniqueness(b)
    /\ CheckConversionWebhooksReferenceOwnedCRDs(b)
    /\ CheckWebhookRules(b) /\ CheckObjectSupport(b)

-----------------------------------------------------------------------------
(* RBAC                                                                     *)

\* A permission is a service account and rules; the name generated for it is
\* taken to be injective (a hash of the permission).
SaNameOrDefault(sa) == IF sa = "" THEN "default" ELSE sa
Role(ns, p) == [ns |-> ns, name |-> p, rules |-> p.rules]
Binding(ns, p) == [ns |-> ns, role |-> p, subject |-> SaNameOrDefault(p.sa)]
ViewNamespaces == "get,list,watch namespaces"
Promoted(p) == [p EXCEPT !.rules = @ \cup {ViewNamespaces}]
\* Roles and bindings in each target namespace, none when all are targeted.
BundleCSVPermissionsGenerator(b, targets) ==
    LET at == IF targets = <<"">> THEN {} ELSE Elements(targets) \X b.permissions
    IN  [roles |-> {Role(x[1], x[2]) : x \in at}, bindings |-> {Binding(x[1], x[2]) : x \in at}]
\* The namespace "" of a role stands for a ClusterRole, of a binding likewise.
BundleCSVClusterPermissionsGenerator(b, targets) ==
    LET all == b.clusterPermissions \cup
                   (IF targets = <<"">> THEN {Promoted(p) : p \in b.permissions} ELSE {})
    IN  [roles |-> {Role("", p) : p \in all}, bindings |-> {Binding("", p) : p \in all}]
BundleCSVServiceAccountGenerator(b) ==
    {SaNameOrDefault(p.sa) : p \in b.permissions \cup b.clusterPermissions} \ {"default"}

-----------------------------------------------------------------------------
(* Webhooks, their services and certificates                                *)


\* The service of a deployment is named by its name with dashes for dots, the
\* secret of its certificate by the service.
CertProvisionerFor(d) == [service |-> d.stem, cert |-> <<d.stem, "cert">>]
\* What the certificate provider does to an object: cert-manager names the
\* certificate to take the CA from, OpenShift's CA is cluster-wide.
InjectCABundle(provider, d) ==
    CASE provider = "cert-manager" -> CertProvisionerFor(d).cert
      [] provider = "service-ca" -> <<"cluster", "ca">>
      [] OTHER -> <<>>
WebhookServicePort(w) ==
    LET port == IF w.containerPort > 0 THEN w.containerPort ELSE 443
    IN  [port |-> port, target |-> IF w.targetPort # 0 THEN w.targetPort ELSE port]
\* One service per deployment with webhooks, with the ports they need.
\* OpenShift's CA fills the secret the service's annotation names.
BundleDeploymentServiceResourceGenerator(b, provider) ==
    {[name |-> CertProvisionerFor(d).service, selects |-> d,
      ports |-> {WebhookServicePort(w) : w \in {x \in Elements(b.webhooks) : x.deployment = d}},
      secret |-> IF provider = "service-ca" THEN CertProvisionerFor(d).cert ELSE <<>>] :
        d \in {x \in Elements(b.deployments) : \E w \in Elements(b.webhooks) : w.deployment = x}}
\* cert-manager needs an issuer and a certificate; the secret is issued for the
\* service's name.
AdditionalObjects(provider, d) ==
    IF provider # "cert-manager" THEN {}
    ELSE {[secret |-> CertProvisionerFor(d).cert, service |-> CertProvisionerFor(d).service]}
CertProviderResourceGenerator(b, provider) ==
    UNION {AdditionalObjects(provider, w.deployment) : w \in Elements(b.webhooks)}
\* The secret a deployment with webhooks mounts.
GetCertSecretInfo(b, provider, d) ==
    IF provider # "none" /\ \E w \in Elements(b.webhooks) : w.deployment = d
    THEN CertProvisionerFor(d).cert ELSE <<>>
GetWebhookNamespaceSelector(targets) ==
    IF targets # <<>> /\ "" \notin Elements(targets) THEN Elements(targets) ELSE {""}
\* Validating and mutating webhook configurations.
BundleWebhookResourceGenerator(b, type, targets, provider) ==
    {[name |-> w.name, type |-> type, service |-> CertProvisionerFor(w.deployment).service,
      port |-> w.containerPort, namespaces |-> GetWebhookNamespaceSelector(targets),
      ca |-> InjectCABundle(provider, w.deployment)] :
        w \in {x \in Elements(b.webhooks) : x.type = type}}
\* CRDs; one that a conversion webhook names calls it, unless it keeps unknown
\* fields, which is an error.
BundleCRDGenerator(b, provider) ==
    [error |-> \/ ~CheckConversionWebhookCRDReferenceUniqueness(b)
               \/ \E i \in Conversions(b) : \E crd \in Elements(b.crds) :
                      crd.name \in b.webhooks[i].crds /\ crd.preserveUnknownFields,
     crds |-> {[name |-> crd.name,
                calls |-> {[service |-> CertProvisionerFor(w.deployment).service,
                            port |-> w.containerPort, ca |-> InjectCABundle(provider, w.deployment)] :
                              w \in {b.webhooks[i] : i \in {j \in Conversions(b) :
                                                               crd.name \in b.webhooks[j].crds}}}] :
                  crd \in Elements(b.crds)}]
\* Other objects: namespaced ones go where the bundle is installed.
BundleAdditionalResourcesGenerator(b, install) ==
    {[o EXCEPT !.ns = IF o.kind = "ConfigMap" THEN install ELSE @] : o \in Elements(b.others)}

-----------------------------------------------------------------------------
\* Render: what is generated, unless the bundle, the targets or the CRDs are refused.
Render(b, install, targets, provider) ==
    IF ~Validate(b) \/ ~ValidateTargetNamespaces(b.modes, install, targets)
       \/ BundleCRDGenerator(b, provider).error
    THEN [valid |-> FALSE]
    ELSE [valid |-> TRUE,
          accounts |-> BundleCSVServiceAccountGenerator(b),
          rbac |-> <<BundleCSVPermissionsGenerator(b, targets),
                     BundleCSVClusterPermissionsGenerator(b, targets)>>,
          deployments |-> {[name |-> d, secret |-> GetCertSecretInfo(b, provider, d)] :
                              d \in Elements(b.deployments)},
          crds |-> BundleCRDGenerator(b, provider).crds,
          others |-> BundleAdditionalResourcesGenerator(b, install),
          webhooks |-> BundleWebhookResourceGenerator(b, "Validating", targets, provider)
                           \cup BundleWebhookResourceGenerator(b, "Mutating", targets, provider),
          services |-> BundleDeploymentServiceResourceGenerator(b, provider),
          certificates |-> CertProviderResourceGenerator(b, provider)]
=============================================================================
