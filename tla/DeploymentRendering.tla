------------------------ MODULE DeploymentRendering ------------------------
(***************************************************************************)
(* What the generator makes of a deployment of a bundle's CSV: the volumes  *)
(* and mounts of the webhook certificate, then the ClusterExtension's       *)
(* deploymentConfig.  Lists are sequences, their items records with a name  *)
(* and a value; a pod has lists of volumes and tolerations, an affinity,    *)
(* annotations and containers with env, envFrom, mounts and resources.      *)
(***************************************************************************)
EXTENDS Naturals, SequencesExt

\* A pod has annotations, and its template some.
IsPod(pod) == {"annotations", "template"} \subseteq DOMAIN pod
Names(list) == {list[i].name : i \in DOMAIN list}

\* Override by name: the last item of that name that was there before any of
\* the configuration's is replaced, and an item of a new name is appended,
\* again if the configuration repeats it.
OverrideIn(list, original, item) ==
    LET same == {i \in DOMAIN original : original[i].name = item.name}
    IN  IF same = {} THEN Append(list, item)
        ELSE [list EXCEPT ![CHOOSE i \in same : \A j \in same : i >= j] = item]
Override(list, config) == FoldLeft(LAMBDA l, item : OverrideIn(l, list, item), list, config)
\* Append what is not there yet.
AppendNew(list, config) ==
    FoldLeft(LAMBDA l, item : IF item \in ToSet(l) THEN l ELSE Append(l, item), list, config)
\* Two maps as one; the first wins.
Over(f, g) == [k \in DOMAIN f \cup DOMAIN g |-> IF k \in DOMAIN f THEN f[k] ELSE g[k]]
InEveryContainer(pod, F(_)) ==
    [pod EXCEPT !.containers = [i \in DOMAIN @ |-> F(@[i])]]

-----------------------------------------------------------------------------
(* The webhook certificate                                                  *)

\* certVolumeConfigs: the protected volumes, and the path each is mounted at.
CertVolumes == <<"webhook-cert", "apiservice-cert">>
CertPath == [v \in ToSet(CertVolumes) |->
                IF v = "webhook-cert" THEN "/serving-certs" ELSE "/certificates"]
ProtectedPaths == {CertPath[v] : v \in ToSet(CertVolumes)}
\* mutant: only the volumes with a protected name are replaced
VolumesToRemoveByName(pod) == ToSet(CertVolumes)
\* Volumes with a protected name, and those a container mounts at a protected path.
VolumesToRemove(pod) ==
    ToSet(CertVolumes) \cup
    UNION {{m.name : m \in {x \in ToSet(pod.containers[i].mounts) : x.path \in ProtectedPaths}} :
              i \in DOMAIN pod.containers}
Without(list, names) == SelectSeq(list, LAMBDA x : x.name \notin names)
EnsureCorrectDeploymentCertVolumes(pod, secret) ==
    LET remove == VolumesToRemove(pod)
        volumes == [i \in DOMAIN CertVolumes |-> [name |-> CertVolumes[i], source |-> secret]]
        mounts == [i \in DOMAIN CertVolumes |->
                      [name |-> CertVolumes[i], path |-> CertPath[CertVolumes[i]]]]
    IN  InEveryContainer([pod EXCEPT !.volumes = Without(@, remove) \o volumes],
            LAMBDA c : [c EXCEPT !.mounts = Without(@, remove) \o mounts])

-----------------------------------------------------------------------------
(* deploymentConfig                                                         *)

Unset == "unset"   \* a field the configuration does not have
Empty == "empty"   \* a field it has, with nothing in it

ApplyEnvironmentConfig(pod, cfg) ==
    InEveryContainer(pod, LAMBDA c : [c EXCEPT !.env = Override(@, cfg.env)])
ApplyEnvironmentFromConfig(pod, cfg) ==
    InEveryContainer(pod, LAMBDA c : [c EXCEPT !.envFrom = AppendNew(@, cfg.envFrom)])
ApplyVolumeConfig(pod, cfg) == [pod EXCEPT !.volumes = Override(@, cfg.volumes)]
ApplyVolumeMountConfig(pod, cfg) ==
    InEveryContainer(pod, LAMBDA c : [c EXCEPT !.mounts = Override(@, cfg.mounts)])
ApplyTolerationsConfig(pod, cfg) == [pod EXCEPT !.tolerations = AppendNew(@, cfg.tolerations)]
ApplyResourcesConfig(pod, cfg) ==
    IF cfg.resources = Unset THEN pod
    ELSE InEveryContainer(pod, LAMBDA c : [c EXCEPT !.resources = cfg.resources])
ApplyNodeSelectorConfig(pod, cfg) ==
    IF cfg.nodeSelector = Unset THEN pod ELSE [pod EXCEPT !.nodeSelector = cfg.nodeSelector]

\* An affinity is absent, or has node, pod and anti-pod parts, each unset,
\* empty or set.
NoAffinity == [node |-> Unset, pod |-> Unset, antiPod |-> Unset]
IsAffinityEmpty(a) == \A part \in DOMAIN a : a[part] \in {Unset, Empty}
\* An empty part erases, a part that is set replaces, one that is unset leaves
\* alone; no part at all erases everything.
ApplyAffinityConfig(pod, cfg) ==
    LET a == [part \in DOMAIN NoAffinity |->
                CASE cfg.affinity.parts[part] = Unset -> pod.affinity[part]
                  [] cfg.affinity.parts[part] = Empty -> Unset
                  [] OTHER -> cfg.affinity.parts[part]]
    IN  IF ~cfg.affinity.given THEN pod
        ELSE IF cfg.affinity.parts = NoAffinity \/ IsAffinityEmpty(a)
        THEN [pod EXCEPT !.affinity = NoAffinity]
        ELSE [pod EXCEPT !.affinity = a]
\* The bundle's annotations win, on the deployment and on its pod template.
ApplyAnnotationsConfig(pod, cfg) ==
    [pod EXCEPT !.annotations = Over(@, cfg.annotations), !.template = Over(@, cfg.annotations)]

\* In this order; volumes before the mounts that name them.
ApplyCustomConfigToDeployment(pod, cfg) ==
    LET env == ApplyEnvironmentFromConfig(ApplyEnvironmentConfig(pod, cfg), cfg)
        mounted == ApplyVolumeMountConfig(ApplyVolumeConfig(env, cfg), cfg)
        placed == ApplyNodeSelectorConfig(
                      ApplyResourcesConfig(ApplyTolerationsConfig(mounted, cfg), cfg), cfg)
    IN  ApplyAnnotationsConfig(ApplyAffinityConfig(placed, cfg), cfg)

\* One deployment of BundleCSVDeploymentGenerator: the CSV's annotations under
\* the template's own, and the targets over both.
BundleCSVDeploymentGenerator(pod, csvAnnotations, targets, webhookSecret, cfg) ==
    LET annotated == [pod EXCEPT !.template =
                         Over([k \in {"olm.targetNamespaces"} |-> targets], Over(@, csvAnnotations))]
        secured == IF webhookSecret = Unset THEN annotated
                   ELSE EnsureCorrectDeploymentCertVolumes(annotated, webhookSecret)
    IN  ApplyCustomConfigToDeployment(secured, cfg)
=============================================================================
