---------------------------- MODULE BundleConfig ----------------------------
(***************************************************************************)
(* From a ClusterExtension's inline configuration to the namespaces a       *)
(* registry+v1 bundle is rendered for: the configuration schema a bundle    *)
(* publishes for its install modes, the validation against it, and the      *)
(* renderer's own check of the target namespaces.  A namespace is a string, *)
(* "" all of them; a setting is absent, null, or a value.                   *)
(***************************************************************************)
EXTENDS Naturals, SequencesExt

All == "AllNamespaces"
Own == "OwnNamespace"
Single == "SingleNamespace"
Multi == "MultiNamespace"
InstallModes == {All, Own, Single, Multi}

-----------------------------------------------------------------------------
(* The schema                                                               *)

IsWatchNamespaceConfigurable(modes) == Own \in modes \/ Single \in modes
IsWatchNamespaceConfigRequired(modes) ==
    All \notin modes /\ IsWatchNamespaceConfigurable(modes)
\* mutant: OwnNamespace support lets the install namespace only be watched
SelectNamespaceFormatOwn(modes) ==
    IF Own \in modes THEN "own" ELSE IF Single \in modes THEN "single" ELSE "any"
\* The install namespace only, any namespace but it, or any at all.
SelectNamespaceFormat(modes) ==
    CASE Own \in modes /\ Single \notin modes -> "own"
      [] Single \in modes /\ Own \notin modes -> "single"
      [] OTHER -> "any"
\* A required namespace may not be null; an optional one may.
BuildBundleConfigSchema(modes) ==
    [watchNamespace |-> IsWatchNamespaceConfigurable(modes),
     required |-> IsWatchNamespaceConfigRequired(modes),
     format |-> SelectNamespaceFormat(modes),
     deploymentConfig |-> TRUE]

\* minLength and pattern: "" and a name with other characters, "_", are none.
IsNamespaceName(ns) == ns \notin {"", "_"}
\* A format is checked only when the install namespace is known.
FormatMatches(format, ns, install) ==
    \/ install = ""
    \/ /\ format = "own" => ns = install
       /\ format = "single" => ns # install
ValidateConfigWithSchema(schema, cfg, install) ==
    /\ cfg.watchNamespace # "absent" => schema.watchNamespace
    /\ schema.required => cfg.watchNamespace \notin {"absent", "null"}
    /\ cfg.watchNamespace \notin {"absent", "null"}
         => /\ IsNamespaceName(cfg.watchNamespace)
            /\ FormatMatches(schema.format, cfg.watchNamespace, install)
    /\ cfg.deploymentConfig => schema.deploymentConfig
    /\ ~cfg.unknownField
\* A null or absent watchNamespace leaves the renderer's default in place.
GetWatchNamespace(cfg) ==
    IF cfg.watchNamespace \in {"absent", "null"} THEN <<>> ELSE <<cfg.watchNamespace>>

-----------------------------------------------------------------------------
(* The renderer's options                                                   *)

DefaultTargetNamespacesForBundle(modes) == IF All \in modes THEN <<"">> ELSE <<>>
WithTargetNamespaces(modes, namespaces) ==
    IF namespaces = <<>> THEN DefaultTargetNamespacesForBundle(modes) ELSE namespaces
ValidateTargetNamespaces(modes, install, targets) ==
    LET set == ToSet(targets)
    IN  CASE set = {} -> FALSE
          [] set = {""} -> All \in modes
          [] Cardinality(set) = 1 /\ set # {""} ->
                IF targets[1] = install THEN Own \in modes ELSE Single \in modes
          [] OTHER ->
                /\ install \in set => Own \in modes
                /\ Multi \in modes /\ "" \notin set

-----------------------------------------------------------------------------
(* RegistryV1ManifestProvider.Get, up to the generators                     *)

\* Bundles the provider does not take, whatever the configuration; defines says
\* whether the CSV owns API services and has webhooks.
Unsupported(modes, defines, gates) ==
    \/ "apiServices" \in defines
    \/ "webhooks" \in defines /\ ~(gates.webhookSupport /\ gates.certificateProvider)
    \/ ~gates.singleOwnNamespace /\ All \notin modes
    \/ modes \cap {All, Single, Own} = {}
\* With the deploymentConfig gate off, the schema does not know the field.
ExtractBundleConfigOptions(modes, cfg, install, gates) ==
    LET schema == [BuildBundleConfigSchema(modes) EXCEPT !.deploymentConfig = gates.deploymentConfig]
    IN  [valid |-> ValidateConfigWithSchema(schema, cfg, install),
         targets |-> GetWatchNamespace(cfg)]
NoConfig == [watchNamespace |-> "absent", deploymentConfig |-> FALSE, unknownField |-> FALSE]
\* The targets the bundle is rendered for, or the step that refused it.  The
\* configuration is read when there is one, or when the gate is on.
ProvideTargets(modes, defines, cfg, given, install, gates) ==
    LET read == gates.singleOwnNamespace \/ given
        options == ExtractBundleConfigOptions(modes, IF given THEN cfg ELSE NoConfig, install, gates)
        targets == WithTargetNamespaces(modes, IF read THEN options.targets ELSE <<>>)
    IN  CASE Unsupported(modes, defines, gates) -> [status |-> "unsupported", targets |-> <<>>]
          [] ~Unsupported(modes, defines, gates) /\ read /\ ~options.valid ->
                [status |-> "invalidConfiguration", targets |-> <<>>]
          [] OTHER -> [status |-> IF ValidateTargetNamespaces(modes, install, targets)
                                  THEN "rendered" ELSE "invalidTargets",
                       targets |-> targets]
=============================================================================
