--------------------------- MODULE RevisionPacking ---------------------------
(***************************************************************************)
(* From rendered objects to the phases and Secrets of a ClusterObjectSet:   *)
(* PhaseSort orders the objects, and the packer moves them into immutable   *)
(* Secrets and leaves references.  An object has a kind, a key (its group,  *)
(* version, kind, namespace and name, as numbers in their order), and the   *)
(* sizes it serializes and compresses to.                                   *)
(***************************************************************************)
EXTENDS Naturals, SequencesExt

-----------------------------------------------------------------------------
(* Phases                                                                   *)

DefaultPhaseOrder ==
    <<"namespaces", "policies", "identity", "configuration", "storage", "crds", "roles",
      "bindings", "infrastructure", "deploy", "scaling", "publish", "admission">>
PhaseGKMap ==
    [namespaces |-> {"Namespace"},
     policies |-> {"NetworkPolicy", "PodDisruptionBudget", "PriorityClass"},
     identity |-> {"ServiceAccount"}, configuration |-> {"Secret", "ConfigMap"},
     storage |-> {"PersistentVolume", "PersistentVolumeClaim", "StorageClass"},
     crds |-> {"CustomResourceDefinition"}, roles |-> {"ClusterRole", "Role"},
     bindings |-> {"ClusterRoleBinding", "RoleBinding"}, infrastructure |-> {"Service", "Issuer"},
     deploy |-> {"Certificate", "Deployment"}, scaling |-> {"VerticalPodAutoscaler"},
     publish |-> {"PrometheusRule", "ServiceMonitor", "PodMonitor", "Ingress", "Route",
                  "ConsoleYAMLSample", "ConsoleQuickStart", "ConsoleCLIDownload", "ConsoleLink",
                  "ConsolePlugin"},
     admission |-> {"ValidatingWebhookConfiguration", "MutatingWebhookConfiguration"}]
\* Kinds no phase lists are deployed with the deployments.
DeterminePhase(kind) ==
    IF \E p \in DOMAIN PhaseGKMap : kind \in PhaseGKMap[p]
    THEN CHOOSE p \in DOMAIN PhaseGKMap : kind \in PhaseGKMap[p]
    ELSE "deploy"

\* compareClusterObjectSetObjectApplyConfigurations: lexicographic.
CompareObjects(a, b) ==
    \E i \in DOMAIN a.key : a.key[i] < b.key[i] /\ \A j \in 1..(i - 1) : a.key[j] = b.key[j]
PhaseSort(objs) ==
    LET of(p) == SelectSeq(objs, LAMBDA o : DeterminePhase(o.kind) = p)
        phases == [i \in DOMAIN DefaultPhaseOrder |->
                      [name |-> DefaultPhaseOrder[i],
                       objects |-> SortSeq(of(DefaultPhaseOrder[i]), CompareObjects)]]
    IN  SelectSeq(phases, LAMBDA p : p.objects # <<>>)

-----------------------------------------------------------------------------
(* The Secrets                                                              *)

CONSTANT MaxSecretDataSize   \* the limit of one Secret, and the compression threshold

ASSUME MaxSecretDataSizeAssumption == MaxSecretDataSize \in Nat \ {0}

\* The bytes stored for an object; the content hash of them is taken to be the object.
StoredSize(o) == IF o.size > MaxSecretDataSize THEN o.zipped ELSE o.size
NothingPacked == [data |-> {}, size |-> 0, pending |-> <<>>, secrets |-> {}, refs |-> <<>>, error |-> FALSE]
\* The name of a Secret is a hash of its content.
SecretNameFromData(data) == <<"secret", data>>
FinalizeCurrent(p) ==
    IF p.data = {} THEN p
    ELSE [p EXCEPT !.secrets = @ \cup {[name |-> SecretNameFromData(p.data), data |-> p.data]},
                   !.refs = [x \in DOMAIN p.pending |-> [secret |-> SecretNameFromData(p.data),
                                                         key |-> p.pending[x]]] @@ @,
                   !.data = {}, !.size = 0, !.pending = <<>>]
\* mutant: the object is noted in the Secret that is being closed
PackEarlyPending(p, pos, o) ==
    LET noted == [p EXCEPT !.pending = (pos :> o) @@ @]
        room == IF noted.size + StoredSize(o) > MaxSecretDataSize /\ noted.data # {}
                THEN FinalizeCurrent(noted) ELSE noted
    IN  IF p.error \/ StoredSize(o) > MaxSecretDataSize THEN [p EXCEPT !.error = TRUE]
        ELSE IF o \in p.data THEN noted
        ELSE [room EXCEPT !.data = @ \cup {o}, !.size = @ + StoredSize(o)]
\* One object: the current Secret is closed when the object does not fit, and
\* content it already holds takes no room.
PackObject(p, pos, o) ==
    LET room == IF p.size + StoredSize(o) > MaxSecretDataSize /\ p.data # {}
                THEN FinalizeCurrent(p) ELSE p
    IN  IF p.error \/ StoredSize(o) > MaxSecretDataSize THEN [p EXCEPT !.error = TRUE]
        ELSE IF o \in p.data THEN [p EXCEPT !.pending = (pos :> o) @@ @]
        ELSE [room EXCEPT !.data = @ \cup {o}, !.size = @ + StoredSize(o), !.pending = (pos :> o) @@ @]
\* The objects of the phases in order, with the positions they have.
Positions(phases) ==
    FoldLeft(LAMBDA s, i : s \o [j \in DOMAIN phases[i].objects |->
                                     [pos |-> <<i, j>>, object |-> phases[i].objects[j]]],
             <<>>, [i \in DOMAIN phases |-> i])
Pack(phases) ==
    LET packed == FoldLeft(LAMBDA p, x : PackObject(p, x.pos, x.object),
                           NothingPacked, Positions(phases))
    IN  IF packed.error THEN packed ELSE FinalizeCurrent(packed)
=============================================================================
