------------------------------- MODULE Charts -------------------------------
(***************************************************************************)
(* The chart the Helm applier installs: one pulled as a Helm chart image    *)
(* and kept as an archive, where the HelmChartSupport gate is on, or one    *)
(* made of the rendered objects of a registry+v1 bundle.  A text is a       *)
(* template or an object, told apart by what Helm's engine makes of it.     *)
(***************************************************************************)
EXTENDS Naturals, SequencesExt

-----------------------------------------------------------------------------
(* The image, unpacked                                                      *)

EmptyContent == [error |-> FALSE, archives |-> {}, objects |-> <<>>]
\* A chart is stored under its name and version, over one of that name.
StoreChartLayer(content, layer) ==
    IF content.error \/ ~layer.readable THEN [EmptyContent EXCEPT !.error = TRUE]
    ELSE [content EXCEPT !.archives = {a \in @ : a.name # layer.name}
                                          \cup {[name |-> layer.name, templates |-> layer.templates]}]
PullChart(image) ==
    FoldLeft(StoreChartLayer, EmptyContent,
             SelectSeq(image.layers, LAMBDA l : l.media # "provenance"))
\* With the gate off the layers are unpacked as those of any image; there are
\* no manifests of a bundle in those of a chart.
ApplyImage(image, helmChartSupport) ==
    IF image.config = "chart"
    THEN IF helmChartSupport THEN PullChart(image) ELSE EmptyContent
    ELSE [EmptyContent EXCEPT !.objects = image.objects]

-----------------------------------------------------------------------------
(* The chart                                                                *)

\* Files are listed in the order of their names.
FirstArchive(content) ==
    CHOOSE a \in content.archives : \A b \in content.archives : a.name <= b.name
IsBundleSourceChart(content) ==
    content.archives # {} /\ FirstArchive(content).templates # <<>>
\* Only a template with blanks around the name matches the regular expression.
WithInstallNamespace(templates, namespace) ==
    [i \in DOMAIN templates |->
        IF templates[i].form = "{{ .Release.Namespace }}"
        THEN [templates[i] EXCEPT !.form = "plain", !.namespace = namespace] ELSE templates[i]]
LoadChartFSWithOptions(content, name, namespace) ==
    LET archive == CHOOSE a \in content.archives : a.name = name
    IN  [error |-> FALSE, files |-> {}, templates |-> WithInstallNamespace(archive.templates, namespace)]
\* The name of a file is a hash of the object in it.
RegistryV1HelmChart(objects) ==
    [error |-> objects = <<>>, files |-> ToSet(objects),
     templates |-> [i \in DOMAIN objects |-> [form |-> "{{.Files.Get}}", name |-> objects[i]]]]
BuildHelmChart(content, helmChartSupport, namespace) ==
    IF helmChartSupport /\ IsBundleSourceChart(content)
    THEN LoadChartFSWithOptions(content, FirstArchive(content).name, namespace)
    ELSE RegistryV1HelmChart(content.objects)

\* Helm's engine, on the templates of a chart.
Evaluated(chart, namespace) ==
    [i \in DOMAIN chart.templates |->
        LET t == chart.templates[i]
        IN  CASE t.form = "{{.Files.Get}}" -> CHOOSE f \in chart.files : f = t.name
              [] t.form \in {"{{.Release.Namespace}}", "{{ .Release.Namespace }}"} ->
                     [t EXCEPT !.form = "plain", !.namespace = namespace]
              [] t.form = "{{.Value}}" -> [t EXCEPT !.form = "evaluated"]
              [] OTHER -> t]
=============================================================================
