--------------------------- MODULE RevisionContent ---------------------------
(***************************************************************************)
(* What a revision contains: how the boxcutter applier makes one of rendered*)
(* objects or of a Helm release, how its objects move into Secrets, and what*)
(* the ClusterObjectSet controller reads back and hands to boxcutter.  An   *)
(* object is a kind, a key to sort by, a size and its metadata fields; the  *)
(* label and annotation maps are functions.                                 *)
(***************************************************************************)
EXTENDS RevisionPacking

CONSTANT MaxDecompressedSize   \* what a compressed object may expand to

ASSUME MaxDecompressedSizeAssumption == MaxDecompressedSize \in Nat

-----------------------------------------------------------------------------
(* Objects                                                                  *)

\* A label or annotation map of an object's metadata; an absent one is empty.
Field(metadata, f) == IF f \in DOMAIN metadata THEN metadata[f] ELSE <<>>
WithField(metadata, f, map) ==
    IF map = <<>> THEN Restrict(metadata, DOMAIN metadata \ {f}) ELSE (f :> map) @@ metadata
MergeStringMaps(m1, m2) == m2 @@ m1
StripAnnotations(metadata) ==
    LET annotations == Field(metadata, "annotations")
    IN  WithField(metadata, "annotations",
                  Restrict(annotations, DOMAIN annotations \ {"last-applied-configuration"}))
SanitizedUnstructured(o) ==
    [o EXCEPT !.status = FALSE,
              !.metadata = Restrict(@, DOMAIN @ \cap {"annotations", "labels", "name", "namespace"})]
Labelled(o, objectLabels) ==
    [o EXCEPT !.metadata = WithField(@, "labels", MergeStringMaps(Field(@, "labels"), objectLabels))]
\* The loop body the two generators share.
RevisionObject(o, objectLabels, annotations) ==
    LET labelled == Labelled(o, objectLabels)
        clean == SanitizedUnstructured([labelled EXCEPT !.metadata = StripAnnotations(@)])
        bundle == Restrict(annotations, {k \in DOMAIN annotations \cap {"bundle-version", "package-name"} :
                                             annotations[k] # ""})
    IN  [clean EXCEPT !.metadata =
            WithField(@, "annotations", MergeStringMaps(Field(@, "annotations"), bundle))]

-----------------------------------------------------------------------------
(* Revisions                                                                *)

ConditionTrue(type) == [type |-> "ConditionEqual", condition |-> type]
FieldValue(path, value) == [type |-> "FieldValue", path |-> path, value |-> value]
ReplicasUpdated == [type |-> "FieldsEqual", a |-> "updatedReplicas", b |-> "replicas"]
DefaultProgressionProbes ==
    {[kind |-> "CustomResourceDefinition", assertions |-> {ConditionTrue("Established")}],
     [kind |-> "Certificate", assertions |-> {ConditionTrue("Ready")}],
     [kind |-> "Issuer", assertions |-> {ConditionTrue("Ready")}],
     [kind |-> "Namespace", assertions |-> {FieldValue("phase", "Active")}],
     [kind |-> "PersistentVolumeClaim", assertions |-> {FieldValue("phase", "Bound")}],
     [kind |-> "StatefulSet", assertions |-> {ReplicasUpdated, ConditionTrue("Available")}],
     [kind |-> "Deployment", assertions |-> {ReplicasUpdated, ConditionTrue("Available")}]}

\* An object of a revision is inline or a reference, as a sequence of at most one.
Inline(objs) ==
    [j \in DOMAIN objs |-> [object |-> <<objs[j]>>, ref |-> <<>>, collisionProtection |-> ""]]
BuildClusterObjectSet(objs, ext, annotations) ==
    LET phases == PhaseSort(objs)
    IN  [owner |-> ext.name, progressionProbes |-> DefaultProgressionProbes,
         annotations |-> [serviceAccount |-> ext.serviceAccount, namespace |-> ext.namespace] @@ annotations,
         phases |-> [i \in DOMAIN phases |-> [name |-> phases[i].name, collisionProtection |-> "",
                                              objects |-> Inline(phases[i].objects)]],
         deadline |-> IF ext.deadline > 0 THEN <<ext.deadline>> ELSE <<>>]
GenerateRevision(plain, bundleAnnotations, ext, objectLabels, revisionAnnotations) ==
    LET annotations == Restrict(bundleAnnotations, DOMAIN bundleAnnotations \cap {"olm.properties"})
                           @@ revisionAnnotations
        objs == [i \in DOMAIN plain |-> RevisionObject(plain[i], objectLabels, annotations)]
    IN  BuildClusterObjectSet(objs, ext, annotations) @@ [collisionProtection |-> "Prevent"]
\* The release's manifest has an object on every line (PostRenderer).
GenerateRevisionFromHelmRelease(release, ext, objectLabels) ==
    LET objs == [i \in DOMAIN release.manifest |->
                    RevisionObject(release.manifest[i], objectLabels, release.labels)]
        annotations == [k \in {"bundle-name", "package-name", "bundle-version", "bundle-reference"} |->
                           IF k \in DOMAIN release.labels THEN release.labels[k] ELSE ""]
    IN  BuildClusterObjectSet(objs, ext, annotations) @@ [collisionProtection |-> "None"]
PostRenderer(rendered, labels) == [i \in DOMAIN rendered |-> Labelled(rendered[i], labels)]

-----------------------------------------------------------------------------
(* Into Secrets                                                             *)

SaveInlineObjects(rev) ==
    [i \in DOMAIN rev.phases |-> [j \in DOMAIN rev.phases[i].objects |-> rev.phases[i].objects[j].object]]
RestoreInlineObjects(rev, saved) ==
    [rev EXCEPT !.phases = [i \in DOMAIN @ |->
        [@[i] EXCEPT !.objects = [j \in DOMAIN @ |->
            [@[j] EXCEPT !.object = saved[i][j], !.ref = <<>>]]]]]
GetObjects(rev) ==
    FlattenSeq([i \in DOMAIN rev.phases |->
        FlattenSeq([j \in DOMAIN rev.phases[i].objects |-> rev.phases[i].objects[j].object])])
\* Objects are inline whenever a revision is packed.
ExtractPhasesForPacking(phases) ==
    [i \in DOMAIN phases |->
        [name |-> phases[i].name,
         objects |-> [j \in DOMAIN phases[i].objects |-> phases[i].objects[j].object[1]]]]
ReplaceInlineWithRefs(rev, packed) ==
    [rev EXCEPT !.phases = [i \in DOMAIN @ |->
        [@[i] EXCEPT !.objects = [j \in DOMAIN @ |->
            IF <<i, j>> \in DOMAIN packed.refs
            THEN [@[j] EXCEPT !.object = <<>>, !.ref = <<packed.refs[<<i, j>>]>>]
            ELSE @[j]]]]]
\* The revision as Apply has it once the comparison with the latest one, which
\* takes references, has been made.
AfterComparison(rev) ==
    LET packed == Pack(ExtractPhasesForPacking(rev.phases))
    IN  RestoreInlineObjects(ReplaceInlineWithRefs(rev, packed), SaveInlineObjects(rev))

-----------------------------------------------------------------------------
(* Read back                                                                *)

\* Only objects over the threshold are compressed.
ResolveObjectRef(secrets, ref) ==
    IF /\ \E s \in secrets : s.name = ref.secret /\ ref.key \in s.data
       /\ ref.key.size > MaxSecretDataSize => ref.key.size <= MaxDecompressedSize
    THEN <<ref.key>> ELSE <<>>
EffectiveCollisionProtection(cps) ==
    FoldLeft(LAMBDA ecp, c : IF c # "" THEN c ELSE ecp, "Prevent", cps)
BuildBoxcutterPhases(rev, secrets) ==
    LET read(o) == IF o.object # <<>> THEN o.object
                   ELSE IF o.ref # <<>> THEN ResolveObjectRef(secrets, o.ref[1]) ELSE <<>>
        reconciled(phase, o) ==
            [object |-> Labelled(read(o)[1], [owner |-> rev.owner]),
             collisionProtection |-> EffectiveCollisionProtection(
                 <<rev.collisionProtection, phase.collisionProtection, o.collisionProtection>>)]
    IN  IF \E i \in DOMAIN rev.phases : \E o \in ToSet(rev.phases[i].objects) : read(o) = <<>>
        THEN [error |-> TRUE, phases |-> <<>>]
        ELSE [error |-> FALSE,
              phases |-> [i \in DOMAIN rev.phases |->
                  [name |-> rev.phases[i].name,
                   objects |-> [j \in DOMAIN rev.phases[i].objects |->
                                   reconciled(rev.phases[i], rev.phases[i].objects[j])]]]]
RevisionServiceAccount(rev) ==
    LET a == rev.annotations
    IN  IF a.serviceAccount = "" \/ a.namespace = "" THEN <<>> ELSE <<a.namespace, a.serviceAccount>>

\* The state of an object in the cluster: whether its status is of the current
\* generation ("none": it does not say), its true conditions, its status fields.
AssertionHolds(a, s) ==
    CASE a.type = "ConditionEqual" -> a.condition \in s.conditions
      [] a.type = "FieldValue" -> a.path \in DOMAIN s.fields /\ s.fields[a.path] = a.value
      [] a.type = "FieldsEqual" -> /\ {a.a, a.b} \subseteq DOMAIN s.fields
                                   /\ s.fields[a.a] = s.fields[a.b]
\* The probe of the observed generation is around the selector: it is asked of
\* every object, whatever kind the selector is for.
BuildProgressionProbes(probes, s) ==
    \A p \in probes :
        /\ s.observed # "outdated"
        /\ s.kind = p.kind => \A a \in p.assertions : AssertionHolds(a, s)
=============================================================================
