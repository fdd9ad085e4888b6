---------------------------- MODULE MCOperations ----------------------------
(***************************************************************************)
(* Inputs for the operations, small and complete enough that every branch   *)
(* of every operation is taken.                                             *)
(***************************************************************************)
EXTENDS Operations

(* Resolution: two or three catalogs, bundles of two versions and a release.*)
B(name, version, build) == [name |-> name, version |-> version, build |-> build]
V1 == B("v1", 1, <<>>)
V2 == B("v2", 2, <<>>)
V2R == B("v2-r1", 2, << <<0, 1>> >>)
Unreadable == B("unreadable", 0, <<>>)
Entry(name, replaces, skips, skipRange) ==
    [name |-> name, replaces |-> replaces, skips |-> skips, skipRange |-> skipRange]
Chain == {[name |-> "stable", entries |-> {Entry("v1", "", {}, {}), Entry("v2", "v1", {}, {})}],
          [name |-> "fast", entries |-> {Entry("v2-r1", "", {"v2"}, {1}), Entry("v2", "", {}, {})}]}
Edgeless == {[name |-> "stable", entries |-> {Entry("v2", "", {}, {}), Entry("v2-r1", "", {}, {})}],
             [name |-> "fast", entries |-> {Entry("v2", "", {}, {1})}]}
Packages ==
    {[bundles |-> bs, channels |-> ch, deprecation |-> [present |-> d # {}, bundles |-> d]] :
        bs \in {<<V1, V2>>, <<V2, V2R>>, <<Unreadable, V1>>},
        ch \in {Chain, Edgeless}, d \in {{}, {"v2"}, {"v1", "v2", "unreadable"}}}
Catalog(name, package, priority, available, error) ==
    [name |-> name, label |-> name, available |-> available, priority |-> priority,
     error |-> error, package |-> package]
Catalogs ==
    {<<Catalog("a", p, i, TRUE, FALSE), Catalog("b", q, 0, x[1], x[2])>> :
        p \in Packages, q \in Packages, i \in {0, 1},
        x \in {<<TRUE, FALSE>>, <<FALSE, FALSE>>, <<TRUE, TRUE>>}}
    \cup {<<Catalog("a", p, 1, TRUE, FALSE), Catalog("b", q, 0, TRUE, FALSE),
            Catalog("c", q, i, TRUE, FALSE)>> :
            p \in Packages, q \in Packages, i \in {0, 2}}
Ext(channels, range, selfCertified, selector, unsupported) ==
    [channels |-> channels, range |-> range, selfCertified |-> selfCertified,
     selector |-> selector, unsupported |-> unsupported]
MCResolveCalls ==
    [catalogs : Catalogs, installed : {NoBundle, V1, V2},
     ext : {Ext({}, {}, FALSE, {}, {}), Ext({"stable"}, {}, FALSE, {}, {}),
            Ext({"fast"}, {2}, FALSE, {}, {"v2"}), Ext({}, {1}, TRUE, {"b"}, {})}]

(* Versions: build metadata of up to two identifiers.                       *)
Builds == BoundedSeq({<<0, 1>>, <<0, 2>>, <<1, 1>>, <<2, 1>>}, 2)
VersionReleases == {NewLegacyRegistryV1VersionRelease(v, b) : v \in {1, 2}, b \in Builds}
MCCompareCalls ==
    {[x |-> x, y |-> y, z |-> z] : x \in {v \in VersionReleases : v.version = 1},
                                   y \in VersionReleases, z \in {v \in VersionReleases : v.version = 1}}

(* Configuration: all install modes and settings.                           *)
MCConfigCalls ==
    [modes : SUBSET InstallModes, given : BOOLEAN, install : {"install"},
     cfg : [watchNamespace : {"absent", "null", "", "_", "target", "install"},
            deploymentConfig : BOOLEAN, unknownField : BOOLEAN],
     defines : {{}, {"webhooks"}, {"apiServices"}},
     gates : [singleOwnNamespace : BOOLEAN, deploymentConfig : BOOLEAN,
              webhookSupport : {TRUE}, certificateProvider : BOOLEAN]]

(* Bundle images: up to two files of up to two objects.                     *)
K(kind, properties) == [kind |-> kind, properties |-> properties]
LoadedKinds == {K("ClusterServiceVersion", <<"p1">>), K("ClusterServiceVersion", <<>>),
          K("CustomResourceDefinition", <<>>), K("ConfigMap", <<>>), K("unreadable", <<>>)}
MCLoadCalls ==
    [annotations : BOOLEAN, properties : {<<>>, <<"p2">>},
     manifests : BoundedSeq([directory : {FALSE}, objects : BoundedSeq(LoadedKinds, 2)]
                            \cup [directory : {TRUE}, objects : {<<>>}], 2)]

(* Rendering: up to two deployments and two webhooks.                       *)
D(stem, dotted) == [stem |-> stem, dotted |-> dotted]
Hook(type, name, d, port, target, crds) ==
    [type |-> type, name |-> name, deployment |-> d, containerPort |-> port,
     targetPort |-> target, crds |-> crds, rule |-> [group |-> "apps", resource |-> "deployments"]]
Hooks ==
    {<<>>, <<Hook("Validating", "h1", D("d", FALSE), 443, 0, {}),
             Hook("Mutating", "h1", D("e", FALSE), 8443, 9443, {})>>,
     <<Hook("Conversion", "h1", D("d", FALSE), 443, 0, {"crd1"})>>,
     <<Hook("Conversion", "h1", D("d", FALSE), 443, 0, {"crd1"}),
       Hook("Conversion", "h2", D("e", FALSE), 443, 0, {"crd2"})>>,
     <<Hook("Validating", "_", D("d", FALSE), 443, 0, {})>>,
     <<Hook("Validating", "h1", D("d", FALSE), 443, 0, {}), Hook("Validating", "h1", D("d", FALSE), 443, 0, {})>>,
     <<[Hook("Validating", "h1", D("d", FALSE), 443, 0, {}) EXCEPT !.rule.group = "*"]>>,
     <<Hook("Validating", "h1", D("d", FALSE), 0, 0, {})>>}
P(sa, rules) == [sa |-> sa, rules |-> rules]
MCRenderCalls ==
    {[bundle |-> [modes |-> modes, package |-> IF flaw = "package" THEN "" ELSE "pkg", deployments |-> ds, webhooks |-> hs,
                  crds |-> <<[name |-> "crd1", preserveUnknownFields |-> flaw = "unknownFields"],
                             [name |-> "crd2", preserveUnknownFields |-> FALSE]>>,
                  owned |-> IF flaw = "owned" THEN {"crd3"} ELSE {"crd1", "crd2"},
                  others |-> <<[kind |-> IF flaw = "kind" THEN "Pod" ELSE "ConfigMap", ns |-> ""]>>,
                  permissions |-> ps, clusterPermissions |-> cs],
      install |-> "install", targets |-> targets, provider |-> provider] :
        modes \in {{All}, {Own, Single}, InstallModes},
        flaw \in {"none", "unknownFields", "owned", "kind", "package"},
        ds \in {<<D("d", FALSE)>>, <<D("d", FALSE), D("e", FALSE)>>, <<D("d", TRUE), D("d", FALSE)>>},
        hs \in Hooks,
        ps \in {{P("sa", {"r1"}), P("", {"r2"})}, {P("sa", {"r1"}), P("sa", {"r2"})}},
        cs \in {{P("sa", {"r1"})}},
        targets \in {<<"">>, <<"target">>, <<"install">>, <<"install", "target">>},
        provider \in {"none", "cert-manager", "service-ca"}}

(* Deployments: repeated names, mounts at the certificate paths.            *)
NV(name, value) == [name |-> name, value |-> value]
Vol(name, source) == [name |-> name, source |-> source]
Mount(name, path) == [name |-> name, path |-> path]
Container(env, mounts) == [env |-> env, envFrom |-> <<"f1">>, mounts |-> mounts, resources |-> "r0"]
Envs == {<<>>, <<NV("A", "1"), NV("B", "1")>>, <<NV("A", "1"), NV("A", "2")>>}
Affinity(given, node, pod) ==
    [given |-> given, parts |-> [node |-> node, pod |-> pod, antiPod |-> Unset]]
MCDeploymentCalls ==
    {[pod |-> [volumes |-> <<Vol("data", "d"), Vol("own-cert", "o"), Vol("webhook-cert", "w")>>,
               containers |-> <<Container(e1, m1), Container(e2, <<Mount("data", "/data")>>)>>,
               tolerations |-> <<"t1">>, affinity |-> [NoAffinity EXCEPT !.node = "n0"],
               nodeSelector |-> "s0", annotations |-> "a1" :> "bundle", template |-> "a2" :> "bundle"],
      csv |-> csv, targets |-> "ns1,ns2", secret |-> secret,
      cfg |-> [env |-> env, envFrom |-> <<"f1", "f2">>, volumes |-> vs, mounts |-> ms,
               tolerations |-> <<"t1", "t2">>, resources |-> r, nodeSelector |-> r,
               affinity |-> a, annotations |-> ann]] :
        e1 \in Envs, e2 \in {<<NV("A", "1")>>}, env \in {<<NV("A", "9")>>, <<NV("C", "8"), NV("C", "9"), NV("B", "9")>>, <<>>},
        m1 \in {<<>>, <<Mount("own-cert", "/serving-certs"), Mount("data", "/data")>>,
                <<Mount("webhook-cert", "/elsewhere")>>},
        vs \in {<<>>, <<Vol("data", "x"), Vol("extra", "y")>>, <<Vol("own-cert", "x")>>},
        ms \in {<<>>, <<Mount("data", "/x")>>, <<Mount("extra", "/y")>>},
        secret \in {Unset, "secret"}, r \in {Unset, "r1"},
        a \in {Affinity(FALSE, Unset, Unset), Affinity(TRUE, Empty, "p1"), Affinity(TRUE, Empty, Unset),
               Affinity(TRUE, Unset, Unset)},
        csv \in {"olm.targetNamespaces" :> "csv"},
        ann \in {"a1" :> "cfg", "olm.targetNamespaces" :> "cfg", "a4" :> "cfg"}}

(* Pre-authorization: a role, a cluster role, bindings to them and to a role*)
(* of the cluster.                                                          *)
O(resource, ns, name) == [resource |-> resource, ns |-> ns, name |-> name]
Ref(resource, ns, name) == [resource |-> resource, ns |-> ns, name |-> name]
RoleObject(resource, ns, name, rules, aggregates) ==
    [rules |-> rules, aggregates |-> aggregates] @@ O(resource, ns, name)
BindingObject(resource, ns, name, ref) == [ref |-> ref] @@ O(resource, ns, name)
ReadSecrets == Rule("get", "secrets", "")
ReadPods == Rule("get", "pods", "")
AuthObjects == {O("configmaps", "ns", "cm"), RoleObject("roles", "ns", "role", {ReadSecrets}, FALSE),
            RoleObject("clusterroles", "", "crole", {ReadPods}, FALSE),
            RoleObject("clusterroles", "", "aggregate", {}, TRUE),
            BindingObject("rolebindings", "ns", "rb", Ref("roles", "ns", "role")),
            BindingObject("rolebindings", "ns", "rb2", Ref("clusterroles", "", "existing")),
            BindingObject("clusterrolebindings", "", "crb", Ref("clusterroles", "", "crole")),
            O("unmapped", "", "x")}
AllVerbs == {"get", "patch", "update", "delete", "create", "list", "watch"}
Manage == {Rule(v, r, "") : v \in AllVerbs, r \in {"configmaps"} \cup Roles \cup Bindings}
          \cup {Rule("update", "clusterobjectsets/finalizers", "rev"),
                Rule("update", "clusterextensions/finalizers", "ext")}
\* What the two appliers ask: boxcutter has no collection verbs, Helm lists and watches.
Asks == {[verbs |-> {}, additional |-> RevisionManagementPerms("rev")],
         [verbs |-> {"list", "watch"}, additional |-> ExtManagementPerms("ext")]}
MCAuthorizeCalls ==
    {[grants |-> [ns \in {"", "ns"} |-> IF ns = "" THEN UNION wide ELSE local],
      unresolved |-> unresolved, manifest |-> objects, cluster |-> cluster,
      verbs |-> ask.verbs, additional |-> ask.additional] :
        wide \in SUBSET {Manage, {ReadSecrets}, {Rule("escalate", "clusterroles", "")},
                         {Rule("bind", "clusterroles", "crole"), ReadPods}},
        local \in {{}, {ReadSecrets}, {Rule("escalate", "roles", ""), Rule("bind", "roles", "role")},
                   {Rule("*", "*", "")}},
        objects \in {s \in SUBSET AuthObjects : Cardinality(s) \in {1, 2}} \cup
                    {s \in SUBSET (AuthObjects \ {O("unmapped", "", "x")}) : Cardinality(s) = 3},
        ask \in Asks, unresolved \in {{}, {"ns"}},
        cluster \in {{}, {[ref |-> Ref("clusterroles", "", "existing"), rules |-> {ReadPods},
                           unreadable |-> FALSE]},
                     {[ref |-> Ref("clusterroles", "", "existing"), rules |-> {},
                       unreadable |-> TRUE]}}}

(* Packing: up to four objects of sizes around the limit of a Secret.       *)
Obj(kind, k, ns, name, size, zipped) ==
    [kind |-> kind, key |-> <<1, 1, k, ns, name>>, size |-> size, zipped |-> zipped]
MCPackCalls ==
    [objects : BoundedSeq({Obj("Namespace", 1, 0, 1, 1, 1), Obj("ConfigMap", 2, 1, 1, 2, 1),
                           Obj("ConfigMap", 2, 2, 1, 2, 1), Obj("Deployment", 3, 1, 1, 3, 2),
                           Obj("Widget", 4, 1, 1, 5, 2), Obj("Widget", 4, 1, 2, 6, 4)}, 4)]

(* Revisions: up to three objects, with what a manifest should not contain. *)
Manifest(o, status, metadata) == [status |-> status, metadata |-> metadata] @@ o
LastApplied == "last-applied-configuration" :> "{}"
RevisionManifests ==
    {Manifest(Obj("Namespace", 1, 0, 1, 1, 1), FALSE, [name |-> "ns"]),
     Manifest(Obj("ConfigMap", 2, 1, 1, 2, 1), FALSE,
              [name |-> "cm", uid |-> "u", annotations |-> LastApplied, labels |-> [app |-> "x"]]),
     Manifest(Obj("Deployment", 3, 1, 1, 3, 2), TRUE,
              [name |-> "d", labels |-> [owner |-> "other", kind |-> "y"],
               annotations |-> LastApplied @@ [note |-> "n"]]),
     Manifest(Obj("Widget", 4, 1, 1, 5, 2), FALSE,
              [name |-> "w", annotations |-> ("package-name" :> "other")]),
     Manifest(Obj("Widget", 4, 1, 2, 9, 3), FALSE, [name |-> "large"]),
     Manifest(Obj("Widget", 4, 1, 3, 9, 6), FALSE, [name |-> "refused"])}
MCRevisionCalls ==
    {[objects |-> objects, existing |-> existing, gone |-> gone,
      ext |-> [name |-> "ext", serviceAccount |-> "sa", namespace |-> "ns", deadline |-> deadline],
      labels |-> [kind |-> "ClusterExtension", owner |-> "ext"], annotations |-> annotations,
      bundleAnnotations |-> ("olm.properties" :> "p") @@ ("createdAt" :> "t")] :
        objects \in BoundedSeq(RevisionManifests, 3), existing \in BOOLEAN, gone \in BOOLEAN,
        deadline \in {0, 5},
        annotations \in {("bundle-version" :> "1") @@ ("package-name" :> "pkg"),
                         ("bundle-version" :> "") @@ ("package-name" :> "")}}
MCProbeCalls ==
    [kind : {p.kind : p \in DefaultProgressionProbes} \cup {"ConfigMap"},
     observed : {"none", "current", "outdated"},
     conditions : SUBSET {"Established", "Available", "Ready"},
     fields : {<<>>, [phase |-> "Active"], [phase |-> "Terminating"], [phase |-> "Bound"],
               [replicas |-> 2], [replicas |-> 2, updatedReplicas |-> 1],
               [replicas |-> 2, updatedReplicas |-> 2]}]

(* Charts: signed or not, and bundles whose objects look like templates.    *)
Text(id, form) == [id |-> id, form |-> form, namespace |-> ""]
Texts == {Text(1, "plain"), Text(2, "{{.Value}}"), Text(3, "{{.Release.Namespace}}"),
          Text(4, "{{ .Release.Namespace }}")}
Layer(media, name, readable, templates) ==
    [media |-> media, name |-> name, readable |-> readable, templates |-> templates]
ChartLayers == {Layer("chart", 1, r, t) : r \in BOOLEAN, t \in BoundedSeq(Texts, 2)}
MCChartCalls ==
    [gate : BOOLEAN, namespace : {"install"},
     image : [config : {"chart"}, layers : {<<l>> : l \in ChartLayers}
                  \cup {<<l, Layer("provenance", 0, FALSE, <<>>)>> : l \in ChartLayers}]
             \cup [config : {"image"}, layers : {<<>>}, objects : BoundedSeq(Texts, 3)]]

(* Deprecations: up to three entries about the package and its parts; there *)
(* are none without catalog data.                                           *)
MCDeprecationCalls ==
    [channels : SUBSET {"stable", "fast"}, installed : {"", "v1"}, hasCatalogData : {FALSE},
     entries : {<<>>}]
    \cup
    [channels : SUBSET {"stable", "fast"}, installed : {"", "v1"}, hasCatalogData : {TRUE},
     entries : BoundedSeq({[schema |-> "olm.package", name |-> "", message |-> "m1"],
                           [schema |-> "olm.channel", name |-> "stable", message |-> "m2"],
                           [schema |-> "olm.channel", name |-> "fast", message |-> ""],
                           [schema |-> "olm.bundle", name |-> "v1", message |-> "m3"],
                           [schema |-> "olm.bundle", name |-> "v2", message |-> "m4"]}, 3)]

(* Metas queries: every query over short catalogs, and every combination of *)
(* conditions over one.                                                     *)
Meta(schema, package, name, length) ==
    [schema |-> schema, package |-> package, name |-> name, length |-> length]
Request(method, query, im, ius, inm, ims) ==
    [method |-> method, query |-> query, otherParams |-> FALSE, ifMatch |-> im,
     ifUnmodifiedSince |-> ius, ifNoneMatch |-> inm, ifModifiedSince |-> ims]
File(metas, modtime) == [metas |-> metas, modtime |-> modtime, error |-> ""]
OneMeta == <<Meta("olm.package", "", "pkg", 1)>>
MCMetasCalls ==
    {[request |-> Request("GET", q, "", Absent, "", Absent), file |-> File(metas, 2)] :
        q \in [schema : {"", "olm.package", "olm.channel"}, package : {"", "pkg"}, name : {"", "pkg", "ch"}],
        metas \in BoundedSeq({Meta("olm.package", "", "pkg", 1), Meta("olm.channel", "pkg", "ch", 2),
                              Meta("olm.bundle", "pkg", "pkg", 2), Meta("olm.channel", "other", "ch", 1),
                              Meta("", "pkg", "ch", 1)}, 3)}
    \cup {[request |-> Request(m, q, im, ius, inm, ims), file |-> File(OneMeta, t)] :
        m \in {"GET", "HEAD", "POST"}, im \in {"", "*", "tags"}, inm \in {"", "*", "tags"},
        ius \in {Absent, Bad, 2, 4}, ims \in {Absent, Bad, 2, 4}, t \in {0, 2, 3, 5},
        q \in [schema : {"", "olm.package"}, package : {""}, name : {""}]}
    \cup {[request |-> [Request("GET", q, "", Absent, "", Absent) EXCEPT !.otherParams = other],
           file |-> [File(OneMeta, 2) EXCEPT !.error = e]] :
        q \in [schema : {""}, package : {""}, name : {""}], other \in BOOLEAN,
        e \in {"", "notExist", "permission", "io"}}
=============================================================================
