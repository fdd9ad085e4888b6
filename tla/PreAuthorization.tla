-------------------------- MODULE PreAuthorization --------------------------
(***************************************************************************)
(* The RBAC pre-authorizer: which rules the identity that will apply a      *)
(* manifest is still missing, for the objects themselves and for the RBAC   *)
(* objects among them, which nobody may create without holding what they    *)
(* grant.  A rule is a verb, a resource and an object name, "" for any      *)
(* object; grants map a namespace to the rules held there, "" cluster-wide, *)
(* as far as they could be read: unresolved has the namespaces where a      *)
(* binding, or the role of one, could not be.                               *)
(***************************************************************************)
EXTENDS Naturals, FiniteSets, TLC

AnyName == ""       \* in a rule: every object
ClusterWide == ""   \* in grants: every namespace
Rule(verb, resource, name) == [verb |-> verb, resource |-> resource, name |-> name]
\* The Kubernetes authorizer: cluster-wide rules hold in every namespace.
Holds(grants, ns, r) ==
    \E g \in grants[ClusterWide] \cup grants[ns] :
        /\ g.verb \in {"*", r.verb} /\ g.resource \in {"*", r.resource}
        /\ g.name \in {AnyName, r.name}

ObjectVerbs == {"get", "patch", "update", "delete"}
NamespacedCollectionVerbs == {"create"}
Roles == {"roles", "clusterroles"}
Bindings == {"rolebindings", "clusterrolebindings"}

-----------------------------------------------------------------------------
(* The objects of the manifest                                              *)

\* An object is its resource, namespace and name; a role adds its rules and
\* whether it aggregates others, a binding the role it refers to.
DecodeManifest(manifest) ==
    [error |-> \E o \in manifest : o.resource = "unmapped",
     roles |-> {o \in manifest : o.resource \in Roles},
     bindings |-> {o \in manifest : o.resource \in Bindings}]
\* What the identity needs to do: act on each object, create in each
\* namespace, and list and watch each resource everywhere.
AsAuthorizationAttributesRecordsForUser(manifest, collectionVerbs) ==
    {[ns |-> o.ns, rule |-> Rule(v, o.resource, o.name)] : o \in manifest, v \in ObjectVerbs}
    \cup {[ns |-> o.ns, rule |-> Rule(v, o.resource, AnyName)] :
             o \in manifest, v \in NamespacedCollectionVerbs}
    \cup {[ns |-> ClusterWide, rule |-> Rule(v, o.resource, AnyName)] : o \in manifest, v \in collectionVerbs}
PolicyRuleFromAttributesRecord(record) == record
\* The RBAC authorizer answers no opinion, and no error, for what it could not read.
AuthorizeAttributesRecords(grants, records) ==
    {PolicyRuleFromAttributesRecord(r) : r \in {x \in records : ~Holds(grants, x.ns, x.rule)}}

\* What an applier adds: to update the finalizers of the owner of what it writes.
ExtManagementPerms(name) ==
    {[ns |-> ClusterWide, rule |-> Rule("update", "clusterextensions/finalizers", name)]}
RevisionManagementPerms(name) ==
    {[ns |-> ClusterWide, rule |-> Rule("update", "clusterobjectsets/finalizers", name)]}

-----------------------------------------------------------------------------
(* Escalation checks                                                        *)

Covered == [missing |-> {}, error |-> FALSE]
\* parseEscalationErrorForMissingRules: the message of a failed check lists the
\* rules not held; any other message is an error without rules.
Unparsed == [missing |-> {}, error |-> TRUE]
\* The rules not held, with an error when some that are held may not be known.
ConfirmNoEscalation(grants, unresolved, ns, rules) ==
    LET unheld == {r \in rules : ~Holds(grants, ns, r)}
    IN  [missing |-> {[ns |-> ns, rule |-> r] : r \in unheld},
         error |-> unheld # {} /\ unresolved \cap {ClusterWide, ns} # {}]
FullAuthority == {Rule("*", "*", AnyName)}
\* The request the check makes up has neither a namespace nor a name, so that only a
\* cluster-wide grant to escalate any role frees it of the rules.
EscalationAuthorized(grants, resource) ==
    Holds(grants, ClusterWide, Rule("escalate", resource, AnyName))
CheckRoleEscalation(grants, unresolved, role) ==
    CASE EscalationAuthorized(grants, role.resource) -> Covered
      [] ~EscalationAuthorized(grants, role.resource) /\ role.aggregates
         /\ ConfirmNoEscalation(grants, unresolved, role.ns, FullAuthority).missing # {} -> Unparsed
      [] OTHER -> ConfirmNoEscalation(grants, unresolved, role.ns, role.rules)
\* mutant: the manifest's own roles are not looked at
ExtraRulesNone(manifest, ref) == {}
\* The rules of a role: those it has in the cluster and those the manifest
\* will give it.  A role reference is a resource, a namespace and a name.
ExtraRules(manifest, ref) ==
    UNION {o.rules : o \in {x \in manifest : x.resource = ref.resource
                                          /\ x.ns = ref.ns /\ x.name = ref.name}}
CheckBindingEscalation(grants, unresolved, binding, roles, cluster) ==
    LET ref == binding.ref
        existing == {c \in cluster : c.ref = ref}
    IN  CASE Holds(grants, binding.ns, Rule("bind", ref.resource, ref.name)) -> Covered
          [] ~Holds(grants, binding.ns, Rule("bind", ref.resource, ref.name))
             /\ \E c \in existing : c.unreadable -> Unparsed
          [] OTHER -> ConfirmNoEscalation(grants, unresolved, binding.ns,
                          (UNION {c.rules : c \in existing}) \cup ExtraRules(roles, ref))
CheckEscalation(grants, unresolved, dm, cluster) ==
    {CheckRoleEscalation(grants, unresolved, o) : o \in dm.roles}
    \cup {CheckBindingEscalation(grants, unresolved, o, dm.roles, cluster) : o \in dm.bindings}

\* The missing rules, and whether more may be missing.
PreAuthorize(grants, unresolved, manifest, cluster, collectionVerbs, additional) ==
    LET dm == DecodeManifest(manifest)
        records == AsAuthorizationAttributesRecordsForUser(manifest, collectionVerbs) \cup additional
        checks == CheckEscalation(grants, unresolved, dm, cluster)
    IN  IF dm.error THEN Unparsed
        ELSE [missing |-> AuthorizeAttributesRecords(grants, records)
                              \cup UNION {c.missing : c \in checks},
              error |-> \E c \in checks : c.error]

-----------------------------------------------------------------------------
\* A manifest whose namespaces are those grants are known of, and whose bindings refer
\* to roles, as the API server requires; what is asked besides is cluster-wide.
IsManifest(manifest, grants, additional) ==
    /\ ClusterWide \in DOMAIN grants
    /\ \A o \in manifest :
         /\ o.ns \in DOMAIN grants
         /\ o.resource \in Bindings => o.ref.resource \in Roles
    /\ \A a \in additional : a.ns = ClusterWide
\* What the API server asks of the identity when it applies the manifest's objects,
\* roles before bindings, each in its namespace and by its name, with an owner whose
\* deletion they block.
ServerAdmits(grants, manifest, cluster, additional) ==
    LET written(ref) == {o \in manifest : /\ o.resource = ref.resource
                                          /\ o.ns = ref.ns /\ o.name = ref.name}
        bound(ref) == IF written(ref) # {} THEN UNION {o.rules : o \in written(ref)}
                      ELSE UNION {c.rules : c \in {x \in cluster : x.ref = ref}}
    IN  /\ \A a \in additional : Holds(grants, a.ns, a.rule)
        /\ \A o \in manifest :
             /\ Holds(grants, o.ns, Rule("create", o.resource, AnyName))
             /\ Holds(grants, o.ns, Rule("patch", o.resource, o.name))
             /\ o.resource \in Roles =>
                   \/ Holds(grants, o.ns, Rule("escalate", o.resource, o.name))
                   \/ \A r \in (IF o.aggregates THEN {Rule("*", "*", AnyName)} ELSE o.rules) :
                         Holds(grants, o.ns, r)
             /\ o.resource \in Bindings =>
                   \/ Holds(grants, o.ns, Rule("bind", o.ref.resource, o.ref.name))
                   \/ \A r \in bound(o.ref) : Holds(grants, o.ns, r)
=============================================================================
