-------------------------- MODULE OperationProofs ---------------------------
(***************************************************************************)
(* Proofs about the operations that compute and do not wait, for all inputs,*)
(* and about the file of pull secrets.                                     *)
(***************************************************************************)
EXTENDS PreAuthorization, BundleManifests, DeploymentRendering, Resolution, CatalogContent,
        PullSecrets, WellFoundedInduction, FiniteSetTheorems, SequenceTheorems, TLAPS

\* A set of naturals that is not empty has a least element.
LEMMA LeastExists ==
    ASSUME NEW S \in SUBSET Nat, S # {}
    PROVE  \E x \in S : \A y \in S : x =< y
<1>1. \E x \in S : \A y \in S : ~ (<<y, x>> \in OpToRel(<, Nat))
  BY NatLessThanWellFounded, WFMin, Zenon
<1>2. PICK x \in S : \A y \in S : ~ (<<y, x>> \in OpToRel(<, Nat)) BY <1>1, Zenon
<1>3. ASSUME NEW y \in S PROVE x =< y
  <2>1. x \in Nat /\ y \in Nat OBVIOUS
  <2>2. ~ (y < x) BY <1>2, <2>1, Zenon DEF OpToRel
  <2> QED BY <2>1, <2>2
<1> QED BY <1>3

\* Max chooses the greatest element of a bounded set.
LEMMA GreatestIn ==
    ASSUME NEW n \in Nat, NEW S \in SUBSET (1..n), S # {}
    PROVE  Max(S) \in S /\ \A y \in S : y <= Max(S)
<1>a. \A i, j, k \in Int : i - j =< i - k => j >= k OBVIOUS
<1>b. n \in Int /\ \A x \in S : x \in Int OBVIOUS
<1> DEFINE T == {n - x : x \in S}
<1>1. T \in SUBSET Nat
  <2>1. \A x \in S : n - x \in Nat OBVIOUS
  <2> QED BY <2>1, Zenon
<1>2. T # {} BY Zenon
<1>3. PICK t \in T : \A u \in T : t =< u BY <1>1, <1>2, LeastExists, Zenon
<1>4. PICK m \in S : t = n - m OBVIOUS
<1>5. ASSUME NEW y \in S PROVE m >= y
  <2>1. n - m =< n - y BY <1>3, <1>4
  <2>2. n \in Int /\ m \in Int /\ y \in Int BY <1>b, Zenon
  <2> QED BY <1>a, <2>1, <2>2, Zenon
<1>6. \E x \in S : \A y \in S : x >= y BY <1>5
<1>7. Max(S) \in S /\ \A y \in S : Max(S) >= y BY <1>6, Zenon DEF Max
<1> QED BY <1>7

(***************************************************************************)
(* Pre-authorization                                                       *)
(***************************************************************************)

\* A check that reports nothing and no error.
Clear(check) == check.missing = {} /\ ~check.error

\* What a pre-authorization without a report says of its parts (PreAuthorize).
LEMMA CoveredFacts ==
    ASSUME NEW grants, NEW unresolved, NEW manifest, NEW cluster, NEW verbs, NEW additional,
           PreAuthorize(grants, unresolved, manifest, cluster, verbs, additional) = Covered
    PROVE  /\ \A x \in AsAuthorizationAttributesRecordsForUser(manifest, verbs) \cup additional :
                 Holds(grants, x.ns, x.rule)
           /\ \A c \in CheckEscalation(grants, unresolved, DecodeManifest(manifest), cluster) : Clear(c)
  <1> DEFINE records == AsAuthorizationAttributesRecordsForUser(manifest, verbs) \cup additional
             checks == CheckEscalation(grants, unresolved, DecodeManifest(manifest), cluster)
             unheld == AuthorizeAttributesRecords(grants, records)
             report == [missing |-> unheld \cup UNION {c.missing : c \in checks},
                        error |-> \E c \in checks : c.error]
  <1>1. PreAuthorize(grants, unresolved, manifest, cluster, verbs, additional)
            = IF DecodeManifest(manifest).error THEN Unparsed ELSE report
    BY Zenon DEF PreAuthorize
  <1> HIDE DEF report
  <1>2. report = Covered
    <2>1. Unparsed.error = TRUE /\ Covered.error = FALSE BY DEF Unparsed, Covered
    <2> QED BY <1>1, <2>1
  <1>3. report.missing = {} /\ report.error = FALSE BY <1>2 DEF Covered
  <1>4. unheld \cup UNION {c.missing : c \in checks} = {} BY <1>3 DEF report
  <1>5. (\E c \in checks : c.error) = FALSE BY <1>3 DEF report
  <1>6. ASSUME NEW x \in records PROVE Holds(grants, x.ns, x.rule)
    BY <1>4, Zenon DEF AuthorizeAttributesRecords, PolicyRuleFromAttributesRecord
  <1>7. ASSUME NEW c \in checks PROVE Clear(c)
    <2>1. ~c.error BY <1>5
    <2>2. c.missing \subseteq UNION {k.missing : k \in checks} OBVIOUS
    <2> QED BY <1>4, <2>1, <2>2 DEF Clear
  <1> QED BY <1>6, <1>7

\* A rule that ConfirmNoEscalation does not report is held.
LEMMA ConfirmedHeld ==
    ASSUME NEW grants, NEW unresolved, NEW ns, NEW rules, Clear(ConfirmNoEscalation(grants, unresolved, ns, rules))
    PROVE  \A r \in rules : Holds(grants, ns, r)
  <1> DEFINE unheld == {x \in rules : ~Holds(grants, ns, x)}
  <1>1. {[ns |-> ns, rule |-> r] : r \in unheld} = {} BY DEF Clear, ConfirmNoEscalation
  <1> SUFFICES ASSUME NEW r \in rules, ~Holds(grants, ns, r) PROVE FALSE OBVIOUS
  <1>2. r \in unheld OBVIOUS
  <1> HIDE DEF unheld
  <1>3. [ns |-> ns, rule |-> r] \in {[ns |-> ns, rule |-> q] : q \in unheld} BY <1>2
  <1> QED BY <1>1, <1>3, Zenon

\* A check without missing rules is without an error.
LEMMA NothingMissing ==
    ASSUME NEW grants, NEW unresolved, NEW ns, NEW rules,
           ConfirmNoEscalation(grants, unresolved, ns, rules).missing = {}
    PROVE  ~ConfirmNoEscalation(grants, unresolved, ns, rules).error
  <1> DEFINE unheld == {x \in rules : ~Holds(grants, ns, x)}
  <1>1. {[ns |-> ns, rule |-> r] : r \in unheld} = {} BY DEF ConfirmNoEscalation
  <1>2. ConfirmNoEscalation(grants, unresolved, ns, rules).error
          = (unheld # {} /\ unresolved \cap {ClusterWide, ns} # {})
    BY DEF ConfirmNoEscalation
  <1> HIDE DEF unheld
  <1>3. unheld = {} BY <1>1, Zenon
  <1> QED BY <1>2, <1>3

\* A grant to escalate every role, cluster-wide, is one to escalate each where it is.
LEMMA EscalationHeld ==
    ASSUME NEW grants, NEW resource, NEW ns, NEW name, EscalationAuthorized(grants, resource)
    PROVE  Holds(grants, ns, Rule("escalate", resource, name))
  <1>1. PICK g \in grants[ClusterWide] :
          /\ g.verb \in {"*", "escalate"} /\ g.resource \in {"*", resource}
          /\ g.name = AnyName
    BY DEF EscalationAuthorized, Holds, Rule
  <1> QED BY <1>1 DEF Holds, Rule

\* A role whose escalation check is clear may be written.
LEMMA ClearRole ==
    ASSUME NEW grants, NEW unresolved, NEW o, Clear(CheckRoleEscalation(grants, unresolved, o))
    PROVE  \/ Holds(grants, o.ns, Rule("escalate", o.resource, o.name))
           \/ \A r \in (IF o.aggregates THEN {Rule("*", "*", AnyName)} ELSE o.rules) :
                 Holds(grants, o.ns, r)
  <1> DEFINE free == EscalationAuthorized(grants, o.resource)
             full == ConfirmNoEscalation(grants, unresolved, o.ns, FullAuthority)
             own == ConfirmNoEscalation(grants, unresolved, o.ns, o.rules)
  <1>1. CheckRoleEscalation(grants, unresolved, o) =
            CASE free -> Covered
              [] ~free /\ o.aggregates /\ full.missing # {} -> Unparsed
              [] OTHER -> own
    BY Zenon DEF CheckRoleEscalation
  <1>2. ~Clear(Unparsed) BY DEF Clear, Unparsed
  <1>3. full.missing = {} => ~full.error BY NothingMissing
  <1>a. free => Holds(grants, o.ns, Rule("escalate", o.resource, o.name)) BY EscalationHeld
  <1>4. Clear(own) => \A r \in o.rules : Holds(grants, o.ns, r) BY ConfirmedHeld
  <1>5. Clear(full) => \A r \in FullAuthority : Holds(grants, o.ns, r) BY ConfirmedHeld
  <1> SUFFICES ASSUME ~free
               PROVE  \A r \in (IF o.aggregates THEN {Rule("*", "*", AnyName)} ELSE o.rules) :
                         Holds(grants, o.ns, r)
    BY <1>a
  <1> HIDE DEF free, full, own
  <1>6. CASE o.aggregates
    <2>1. CASE full.missing # {}
      <3>1. CheckRoleEscalation(grants, unresolved, o) = Unparsed BY <1>1, <1>6, <2>1, Zenon
      <3> QED BY <1>2, <3>1
    <2>2. CASE full.missing = {}
      <3>1. Clear(full) BY <1>3, <2>2 DEF Clear
      <3> QED BY <1>5, <1>6, <3>1 DEF FullAuthority
    <2> QED BY <2>1, <2>2
  <1>7. CASE ~o.aggregates
    <2>1. CheckRoleEscalation(grants, unresolved, o) = own BY <1>1, <1>7, Zenon
    <2> QED BY <1>4, <1>7, <2>1
  <1> QED BY <1>6, <1>7

\* The rules the pre-authorizer looks at for a binding to a role.
RulesFor(roles, cluster, ref) ==
    (UNION {c.rules : c \in {x \in cluster : x.ref = ref}}) \cup ExtraRules(roles, ref)
\* A binding whose escalation check is clear may be written: the rules of the role, as the
\* manifest will have written it or as it is in the cluster, are held.
LEMMA ClearBinding ==
    ASSUME NEW grants, NEW unresolved, NEW o, NEW roles, NEW cluster,
           Clear(CheckBindingEscalation(grants, unresolved, o, roles, cluster))
    PROVE  \/ Holds(grants, o.ns, Rule("bind", o.ref.resource, o.ref.name))
           \/ \A r \in RulesFor(roles, cluster, o.ref) : Holds(grants, o.ns, r)
  <1> DEFINE free == Holds(grants, o.ns, Rule("bind", o.ref.resource, o.ref.name))
             existing == {c \in cluster : c.ref = o.ref}
             rules == RulesFor(roles, cluster, o.ref)
             checked == ConfirmNoEscalation(grants, unresolved, o.ns, rules)
             opaque == \E c \in existing : c.unreadable
  <1>1. CheckBindingEscalation(grants, unresolved, o, roles, cluster) =
            CASE free -> Covered
              [] ~free /\ opaque -> Unparsed
              [] OTHER -> checked
    BY Zenon DEF CheckBindingEscalation, RulesFor
  <1>2. ~Clear(Unparsed) BY DEF Clear, Unparsed
  <1>3. Clear(checked) => \A r \in rules : Holds(grants, o.ns, r) BY ConfirmedHeld
  <1>4. SUFFICES ASSUME ~free PROVE \A r \in rules : Holds(grants, o.ns, r) OBVIOUS
  <1> HIDE DEF free, checked, opaque
  <1>5. CASE opaque
    <2>1. CheckBindingEscalation(grants, unresolved, o, roles, cluster) = Unparsed BY <1>1, <1>4, <1>5, Zenon
    <2> QED BY <1>2, <2>1
  <1>6. CASE ~opaque
    <2>1. CheckBindingEscalation(grants, unresolved, o, roles, cluster) = checked BY <1>1, <1>4, <1>6, Zenon
    <2> QED BY <1>3, <2>1
  <1> QED BY <1>5, <1>6

\* A manifest the pre-authorizer reports nothing about is one the API server takes.
LEMMA CoveredManifestApplies ==
    ASSUME NEW grants, NEW unresolved, NEW manifest, NEW cluster, NEW verbs, NEW additional, IsManifest(manifest, grants, additional),
           PreAuthorize(grants, unresolved, manifest, cluster, verbs, additional) = Covered
    PROVE  ServerAdmits(grants, manifest, cluster, additional)
  <1> DEFINE records == AsAuthorizationAttributesRecordsForUser(manifest, verbs) \cup additional
             dm == DecodeManifest(manifest)
             written(ref) == {o \in manifest : /\ o.resource = ref.resource
                                               /\ o.ns = ref.ns /\ o.name = ref.name}
             existing(ref) == UNION {c.rules : c \in {x \in cluster : x.ref = ref}}
             bound(ref) == IF written(ref) # {} THEN UNION {o.rules : o \in written(ref)}
                           ELSE existing(ref)
  <1>1. /\ \A x \in records : Holds(grants, x.ns, x.rule)
        /\ \A c \in CheckEscalation(grants, unresolved, dm, cluster) : Clear(c)
    BY CoveredFacts
  <1>2. dm.roles = {o \in manifest : o.resource \in Roles} BY DEF DecodeManifest
  <1>3. dm.bindings = {o \in manifest : o.resource \in Bindings} BY DEF DecodeManifest
  <1> HIDE DEF dm
  <1>4. ASSUME NEW o \in manifest
        PROVE  /\ Holds(grants, o.ns, Rule("create", o.resource, AnyName))
               /\ Holds(grants, o.ns, Rule("patch", o.resource, o.name))
               /\ o.resource \in Roles =>
                    \/ Holds(grants, o.ns, Rule("escalate", o.resource, o.name))
                    \/ \A r \in (IF o.aggregates THEN {Rule("*", "*", AnyName)} ELSE o.rules) :
                          Holds(grants, o.ns, r)
               /\ o.resource \in Bindings =>
                    \/ Holds(grants, o.ns, Rule("bind", o.ref.resource, o.ref.name))
                    \/ \A r \in bound(o.ref) : Holds(grants, o.ns, r)
    <2>1. Holds(grants, o.ns, Rule("create", o.resource, AnyName))
      <3>1. PICK v \in NamespacedCollectionVerbs : v = "create" BY DEF NamespacedCollectionVerbs
      <3> DEFINE x == [ns |-> o.ns, rule |-> Rule(v, o.resource, AnyName)]
      <3>2. x \in {[ns |-> p.ns, rule |-> Rule(w, p.resource, AnyName)] : p \in manifest, w \in NamespacedCollectionVerbs}
        OBVIOUS
      <3>3. x.ns = o.ns /\ x.rule = Rule(v, o.resource, AnyName) OBVIOUS
      <3> HIDE DEF x
      <3>4. x \in records BY <3>2 DEF AsAuthorizationAttributesRecordsForUser
      <3> HIDE DEF records
      <3>5. Holds(grants, x.ns, x.rule) BY <1>1, <3>4
      <3> QED BY <3>1, <3>3, <3>5
    <2>2. Holds(grants, o.ns, Rule("patch", o.resource, o.name))
      <3>1. PICK v \in ObjectVerbs : v = "patch" BY DEF ObjectVerbs
      <3> DEFINE x == [ns |-> o.ns, rule |-> Rule(v, o.resource, o.name)]
      <3>2. x \in {[ns |-> p.ns, rule |-> Rule(w, p.resource, p.name)] : p \in manifest, w \in ObjectVerbs}
        OBVIOUS
      <3>3. x.ns = o.ns /\ x.rule = Rule(v, o.resource, o.name) OBVIOUS
      <3> HIDE DEF x
      <3>4. x \in records BY <3>2 DEF AsAuthorizationAttributesRecordsForUser
      <3> HIDE DEF records
      <3>5. Holds(grants, x.ns, x.rule) BY <1>1, <3>4
      <3> QED BY <3>1, <3>3, <3>5
    <2>3. ASSUME o.resource \in Roles
          PROVE  \/ Holds(grants, o.ns, Rule("escalate", o.resource, o.name))
                 \/ \A r \in (IF o.aggregates THEN {Rule("*", "*", AnyName)} ELSE o.rules) :
                       Holds(grants, o.ns, r)
      <3>1. o \in dm.roles BY <1>2, <2>3
      <3>2. CheckRoleEscalation(grants, unresolved, o) \in CheckEscalation(grants, unresolved, dm, cluster)
        BY <3>1, Zenon DEF CheckEscalation
      <3>3. Clear(CheckRoleEscalation(grants, unresolved, o)) BY <1>1, <3>2, Zenon
      <3> QED BY <3>3, ClearRole, Zenon
    <2>4. ASSUME o.resource \in Bindings, ~Holds(grants, o.ns, Rule("bind", o.ref.resource, o.ref.name)),
                 NEW r \in bound(o.ref)
          PROVE  Holds(grants, o.ns, r)
      <3>1. o \in dm.bindings BY <1>3, <2>4
      <3>2. CheckBindingEscalation(grants, unresolved, o, dm.roles, cluster) \in CheckEscalation(grants, unresolved, dm, cluster)
        BY <3>1, Zenon DEF CheckEscalation
      <3>3. Clear(CheckBindingEscalation(grants, unresolved, o, dm.roles, cluster)) BY <1>1, <3>2, Zenon
      <3>4. \/ Holds(grants, o.ns, Rule("bind", o.ref.resource, o.ref.name))
            \/ \A q \in RulesFor(dm.roles, cluster, o.ref) : Holds(grants, o.ns, q)
        BY <3>3, ClearBinding
      <3>5. o.ref.resource \in Roles BY <2>4 DEF IsManifest
      <3>6. written(o.ref) \subseteq {x \in dm.roles : /\ x.resource = o.ref.resource
                                                       /\ x.ns = o.ref.ns /\ x.name = o.ref.name}
        BY <1>2, <3>5
      <3>7. UNION {w.rules : w \in written(o.ref)} \subseteq ExtraRules(dm.roles, o.ref)
        BY <3>6 DEF ExtraRules
      <3>8. existing(o.ref) \cup ExtraRules(dm.roles, o.ref) = RulesFor(dm.roles, cluster, o.ref)
        BY Zenon DEF RulesFor
      <3> HIDE DEF written, existing
      <3>9. r \in UNION {w.rules : w \in written(o.ref)} \/ r \in existing(o.ref) BY <2>4, Zenon
      <3>10. r \in RulesFor(dm.roles, cluster, o.ref) BY <3>7, <3>8, <3>9
      <3> QED BY <2>4, <3>4, <3>10
    <2> QED BY <2>1, <2>2, <2>3, <2>4
  <1>5. \A a \in additional : Holds(grants, a.ns, a.rule) BY <1>1
  <1> QED BY <1>4, <1>5, Zenon DEF ServerAdmits

\* What granting the reported rules gives.
Grant(grants, missing) ==
    [ns \in DOMAIN grants |-> grants[ns] \cup {m.rule : m \in {x \in missing : x.ns = ns}}]
\* What was held is held, and what was reported is.
LEMMA GrantHolds ==
    ASSUME NEW grants, NEW missing, ClusterWide \in DOMAIN grants,
           NEW ns \in DOMAIN grants, NEW r,
           \/ Holds(grants, ns, r)
           \/ \E m \in missing : m.ns = ns /\ m.rule = r
    PROVE  Holds(Grant(grants, missing), ns, r)
  <1> DEFINE more == Grant(grants, missing)
  <1>1. /\ grants[ClusterWide] \subseteq more[ClusterWide]
        /\ grants[ns] \subseteq more[ns]
    BY DEF Grant
  <1>2. CASE Holds(grants, ns, r)
    <2> HIDE DEF more
    <2>1. grants[ClusterWide] \cup grants[ns] \subseteq more[ClusterWide] \cup more[ns] BY <1>1
    <2> QED BY <1>2, <2>1, Zenon DEF Holds, more
  <1>3. CASE \E m \in missing : m.ns = ns /\ m.rule = r
    <2>1. r \in more[ns] BY <1>3 DEF Grant
    <2> HIDE DEF more
    <2> QED BY <2>1, Zenon DEF Holds, more
  <1> QED BY <1>2, <1>3

\* A check of rules that are all held reports nothing.
LEMMA HeldConfirmed ==
    ASSUME NEW grants, NEW unresolved, NEW ns, NEW rules, \A r \in rules : Holds(grants, ns, r)
    PROVE  Clear(ConfirmNoEscalation(grants, unresolved, ns, rules))
  <1>1. {x \in rules : ~Holds(grants, ns, x)} = {} OBVIOUS
  <1>2. {[ns |-> ns, rule |-> r] : r \in {x \in rules : ~Holds(grants, ns, x)}} = {} BY <1>1
  <1>3. ConfirmNoEscalation(grants, unresolved, ns, rules).missing = {}
    BY <1>2 DEF ConfirmNoEscalation
  <1> QED BY <1>3, NothingMissing DEF Clear

\* A rule that was checked and not reported is held.
LEMMA CheckedOrReported ==
    ASSUME NEW grants, NEW unresolved, NEW missing, NEW ns \in DOMAIN grants, ClusterWide \in DOMAIN grants, NEW rules,
           ConfirmNoEscalation(grants, unresolved, ns, rules).missing \subseteq missing
    PROVE  \A r \in rules : Holds(Grant(grants, missing), ns, r)
  <1> SUFFICES ASSUME NEW r \in rules PROVE Holds(Grant(grants, missing), ns, r) OBVIOUS
  <1>1. CASE Holds(grants, ns, r) BY <1>1, GrantHolds
  <1>2. CASE ~Holds(grants, ns, r)
    <2> DEFINE m == [ns |-> ns, rule |-> r]
               unheld == {x \in rules : ~Holds(grants, ns, x)}
    <2>1. r \in unheld BY <1>2
    <2>2. ConfirmNoEscalation(grants, unresolved, ns, rules).missing = {[ns |-> ns, rule |-> q] : q \in unheld}
      BY DEF ConfirmNoEscalation
    <2> HIDE DEF unheld
    <2>3. m \in missing BY <2>1, <2>2
    <2>4. m.ns = ns /\ m.rule = r OBVIOUS
    <2> HIDE DEF m
    <2> QED BY <2>3, <2>4, GrantHolds
  <1> QED BY <1>1, <1>2

\* Once the rules a check of a role reported are granted, it is clear.
LEMMA GrantClearsRole ==
    ASSUME NEW grants, NEW unresolved, NEW missing, ClusterWide \in DOMAIN grants, NEW o, o.ns \in DOMAIN grants,
           ~CheckRoleEscalation(grants, unresolved, o).error,
           CheckRoleEscalation(grants, unresolved, o).missing \subseteq missing
    PROVE  Clear(CheckRoleEscalation(Grant(grants, missing), unresolved, o))
  <1> DEFINE more == Grant(grants, missing)
             free(g) == EscalationAuthorized(g, o.resource)
             full(g) == ConfirmNoEscalation(g, unresolved, o.ns, FullAuthority)
             own(g) == ConfirmNoEscalation(g, unresolved, o.ns, o.rules)
  <1>1. ASSUME NEW g
        PROVE  CheckRoleEscalation(g, unresolved, o) =
                 CASE free(g) -> Covered
                   [] ~free(g) /\ o.aggregates /\ full(g).missing # {} -> Unparsed
                   [] OTHER -> own(g)
    BY Zenon DEF CheckRoleEscalation
  <1>2. Unparsed.error = TRUE /\ Clear(Covered) BY DEF Clear, Unparsed, Covered
  <1>3. free(grants) => free(more) BY GrantHolds DEF EscalationAuthorized
  <1>4. full(grants).missing = {} => full(more).missing = {}
    <2> SUFFICES ASSUME full(grants).missing = {} PROVE Clear(full(more)) BY DEF Clear
    <2>1. \A r \in FullAuthority : Holds(more, o.ns, r) BY CheckedOrReported
    <2> QED BY <2>1, HeldConfirmed
  <1>5. own(grants).missing \subseteq missing => Clear(own(more))
    BY CheckedOrReported, HeldConfirmed
  <1> HIDE DEF free, full, own, more
  <1>6. CASE free(more)
    <2>1. CheckRoleEscalation(more, unresolved, o) = Covered BY <1>1, <1>6, Zenon
    <2> QED BY <1>2, <2>1 DEF more
  <1>7. CASE ~free(more)
    <2>1. ~free(grants) BY <1>3, <1>7
    <2>2. ~(o.aggregates /\ full(grants).missing # {})
      <3> SUFFICES ASSUME o.aggregates, full(grants).missing # {} PROVE FALSE OBVIOUS
      <3>1. CheckRoleEscalation(grants, unresolved, o) = Unparsed BY <1>1, <2>1, Zenon
      <3> QED BY <1>2, <3>1
    <2>3. CheckRoleEscalation(grants, unresolved, o) = own(grants) BY <1>1, <2>1, <2>2, Zenon
    <2>4. ~(o.aggregates /\ full(more).missing # {}) BY <1>4, <2>2
    <2>5. CheckRoleEscalation(more, unresolved, o) = own(more) BY <1>1, <1>7, <2>4, Zenon
    <2> QED BY <1>5, <2>3, <2>5 DEF more
  <1> QED BY <1>6, <1>7

\* The same for a binding.
LEMMA GrantClearsBinding ==
    ASSUME NEW grants, NEW unresolved, NEW missing, ClusterWide \in DOMAIN grants, NEW o, o.ns \in DOMAIN grants,
           NEW roles, NEW cluster,
           ~CheckBindingEscalation(grants, unresolved, o, roles, cluster).error,
           CheckBindingEscalation(grants, unresolved, o, roles, cluster).missing \subseteq missing
    PROVE  Clear(CheckBindingEscalation(Grant(grants, missing), unresolved, o, roles, cluster))
  <1> DEFINE more == Grant(grants, missing)
             free(g) == Holds(g, o.ns, Rule("bind", o.ref.resource, o.ref.name))
             checked(g) == ConfirmNoEscalation(g, unresolved, o.ns, RulesFor(roles, cluster, o.ref))
             opaque == \E c \in {x \in cluster : x.ref = o.ref} : c.unreadable
  <1>1. ASSUME NEW g
        PROVE  CheckBindingEscalation(g, unresolved, o, roles, cluster) =
                 CASE free(g) -> Covered
                   [] ~free(g) /\ opaque -> Unparsed
                   [] OTHER -> checked(g)
    BY Zenon DEF CheckBindingEscalation, RulesFor
  <1>2. Unparsed.error = TRUE /\ Clear(Covered) BY DEF Clear, Unparsed, Covered
  <1>3. free(grants) => free(more) BY GrantHolds
  <1>4. checked(grants).missing \subseteq missing => Clear(checked(more))
    BY CheckedOrReported, HeldConfirmed
  <1> HIDE DEF free, opaque, checked, more
  <1>5. CASE free(more)
    <2>1. CheckBindingEscalation(more, unresolved, o, roles, cluster) = Covered BY <1>1, <1>5, Zenon
    <2> QED BY <1>2, <2>1 DEF more
  <1>6. CASE ~free(more)
    <2>1. ~free(grants) BY <1>3, <1>6
    <2>2. ~opaque
      <3> SUFFICES ASSUME opaque PROVE FALSE OBVIOUS
      <3>1. CheckBindingEscalation(grants, unresolved, o, roles, cluster) = Unparsed BY <1>1, <2>1, Zenon
      <3> QED BY <1>2, <3>1
    <2>3. CheckBindingEscalation(grants, unresolved, o, roles, cluster) = checked(grants)
      BY <1>1, <2>1, <2>2, Zenon
    <2>4. CheckBindingEscalation(more, unresolved, o, roles, cluster) = checked(more)
      BY <1>1, <1>6, <2>2, Zenon
    <2> QED BY <1>4, <2>3, <2>4 DEF more
  <1> QED BY <1>5, <1>6

\* Granting the rules that were reported missing is enough.
LEMMA GrantSuffices ==
    ASSUME NEW grants, NEW unresolved, NEW manifest, NEW cluster, NEW verbs, NEW additional, IsManifest(manifest, grants, additional),
           ~PreAuthorize(grants, unresolved, manifest, cluster, verbs, additional).error
    PROVE  PreAuthorize(Grant(grants, PreAuthorize(grants, unresolved, manifest, cluster, verbs, additional).missing),
                        unresolved, manifest, cluster, verbs, additional) = Covered
  <1> DEFINE records == AsAuthorizationAttributesRecordsForUser(manifest, verbs) \cup additional
             dm == DecodeManifest(manifest)
             checks(g) == CheckEscalation(g, unresolved, dm, cluster)
             unheld(g) == AuthorizeAttributesRecords(g, records)
             report(g) == [missing |-> unheld(g) \cup UNION {c.missing : c \in checks(g)},
                           error |-> \E c \in checks(g) : c.error]
             missing == PreAuthorize(grants, unresolved, manifest, cluster, verbs, additional).missing
             more == Grant(grants, missing)
  <1>1. ASSUME NEW g
        PROVE  PreAuthorize(g, unresolved, manifest, cluster, verbs, additional) = IF dm.error THEN Unparsed ELSE report(g)
    BY Zenon DEF PreAuthorize
  <1>2. ~dm.error
    <2> HIDE DEF dm, report
    <2>1. Unparsed.error = TRUE BY DEF Unparsed
    <2> QED BY <1>1, <2>1
  <1>3. missing = report(grants).missing /\ ~report(grants).error
    <2> HIDE DEF dm, report
    <2> QED BY <1>1, <1>2
  <1>4. unheld(grants) \subseteq missing /\ \A c \in checks(grants) : c.missing \subseteq missing
    BY <1>3
  <1>5. \A c \in checks(grants) : ~c.error BY <1>3
  <1>6. ClusterWide \in DOMAIN grants BY DEF IsManifest
  <1>7. ASSUME NEW x \in records PROVE Holds(more, x.ns, x.rule)
    <2>1. x.ns \in DOMAIN grants
      BY <1>6 DEF IsManifest, AsAuthorizationAttributesRecordsForUser
    <2>2. CASE Holds(grants, x.ns, x.rule) BY <1>6, <2>1, <2>2, GrantHolds
    <2>3. CASE ~Holds(grants, x.ns, x.rule)
      <3>1. x \in unheld(grants)
        BY <2>3, Zenon DEF AuthorizeAttributesRecords, PolicyRuleFromAttributesRecord
      <3>2. x \in missing BY <1>4, <3>1
      <3> HIDE DEF missing
      <3> QED BY <1>6, <2>1, <3>2, GrantHolds
    <2> QED BY <2>2, <2>3
  <1>8. ASSUME NEW c \in checks(more) PROVE Clear(c)
    <2>1. dm.roles \subseteq manifest /\ dm.bindings \subseteq manifest BY DEF DecodeManifest
    <2> HIDE DEF dm, missing
    <2>2. CASE \E o \in dm.roles : c = CheckRoleEscalation(more, unresolved, o)
      <3>1. PICK o \in dm.roles : c = CheckRoleEscalation(more, unresolved, o) BY <2>2
      <3>2. CheckRoleEscalation(grants, unresolved, o) \in checks(grants) BY <3>1, Zenon DEF CheckEscalation
      <3>3. o.ns \in DOMAIN grants BY <2>1, <3>1 DEF IsManifest
      <3>4. /\ ~CheckRoleEscalation(grants, unresolved, o).error
            /\ CheckRoleEscalation(grants, unresolved, o).missing \subseteq missing
        BY <1>4, <1>5, <3>2
      <3> QED BY <1>6, <3>1, <3>3, <3>4, GrantClearsRole
    <2>3. CASE \E o \in dm.bindings : c = CheckBindingEscalation(more, unresolved, o, dm.roles, cluster)
      <3>1. PICK o \in dm.bindings : c = CheckBindingEscalation(more, unresolved, o, dm.roles, cluster) BY <2>3
      <3>2. CheckBindingEscalation(grants, unresolved, o, dm.roles, cluster) \in checks(grants)
        BY <3>1, Zenon DEF CheckEscalation
      <3>3. o.ns \in DOMAIN grants BY <2>1, <3>1 DEF IsManifest
      <3>4. /\ ~CheckBindingEscalation(grants, unresolved, o, dm.roles, cluster).error
            /\ CheckBindingEscalation(grants, unresolved, o, dm.roles, cluster).missing \subseteq missing
        BY <1>4, <1>5, <3>2
      <3> QED BY <1>6, <3>1, <3>3, <3>4, GrantClearsBinding
    <2> QED BY <2>2, <2>3 DEF CheckEscalation
  <1>9. unheld(more) = {}
    BY <1>7, Zenon DEF AuthorizeAttributesRecords, PolicyRuleFromAttributesRecord
  <1>10. UNION {c.missing : c \in checks(more)} = {}
    <2> HIDE DEF more, dm
    <2> QED BY <1>8, Zenon DEF Clear
  <1>11. (\E c \in checks(more) : c.error) = FALSE
    <2> HIDE DEF more, dm
    <2> QED BY <1>8, Zenon DEF Clear
  <1>12. report(more) = Covered
    <2> HIDE DEF more, dm, records, missing
    <2> QED BY <1>9, <1>10, <1>11, Zenon DEF Covered
  <1> HIDE DEF report, dm, missing
  <1> QED BY <1>1, <1>2, <1>12 DEF missing

(***************************************************************************)
(* Configuration                                                           *)
(***************************************************************************)

\* The renderer's check of no target, of all namespaces and of one namespace
\* (ValidateTargetNamespaces).
LEMMA OneTarget ==
    ASSUME NEW modes, NEW install, NEW ns
    PROVE  ValidateTargetNamespaces(modes, install, <<ns>>) =
             IF ns = "" THEN All \in modes
             ELSE IF ns = install THEN Own \in modes ELSE Single \in modes
  <1>1. ToSet(<<ns>>) = {ns} BY DEF ToSet
  <1>2. Cardinality({ns}) = 1 BY FS_Singleton
  <1>3. <<ns>>[1] = ns OBVIOUS
  <1> DEFINE set == ToSet(<<ns>>)
             first == <<ns>>[1]
             one == IF first = install THEN Own \in modes ELSE Single \in modes
             many == /\ install \in set => Own \in modes
                     /\ Multi \in modes /\ "" \notin set
  <1>4. ValidateTargetNamespaces(modes, install, <<ns>>) =
          CASE set = {} -> FALSE
            [] set = {""} -> All \in modes
            [] Cardinality(set) = 1 /\ set # {""} -> one
            [] OTHER -> many
    BY Zenon DEF ValidateTargetNamespaces
  <1>5. one = IF ns = install THEN Own \in modes ELSE Single \in modes BY <1>3
  <1> HIDE DEF set, one, many
  <1>6. CASE ns = ""
    <2>1. set = {""} /\ set # {} BY <1>1, <1>6, Zenon DEF set
    <2> QED BY <1>4, <1>6, <2>1, Zenon
  <1>7. CASE ns # ""
    <2>1. set # {""} /\ set # {} /\ Cardinality(set) = 1 BY <1>1, <1>2, <1>7, Zenon DEF set
    <2>2. ValidateTargetNamespaces(modes, install, <<ns>>) = one BY <1>4, <2>1, Zenon
    <2> QED BY <1>5, <1>7, <2>2, Zenon
  <1> QED BY <1>6, <1>7, Zenon

\* What a valid configuration is, and what it configures (ExtractBundleConfigOptions).
LEMMA OptionsFacts ==
    ASSUME NEW modes, NEW cfg, NEW install, NEW gates
    PROVE  LET options == ExtractBundleConfigOptions(modes, cfg, install, gates)
               ns == cfg.watchNamespace
           IN  /\ options.valid <=>
                    /\ ns # "absent" => IsWatchNamespaceConfigurable(modes)
                    /\ IsWatchNamespaceConfigRequired(modes) => ns \notin {"absent", "null"}
                    /\ ns \notin {"absent", "null"} =>
                          /\ IsNamespaceName(ns)
                          /\ FormatMatches(SelectNamespaceFormat(modes), ns, install)
                    /\ cfg.deploymentConfig => gates.deploymentConfig
                    /\ ~cfg.unknownField
               /\ options.targets = IF ns \in {"absent", "null"} THEN <<>> ELSE <<ns>>
  <1> DEFINE schema == [BuildBundleConfigSchema(modes) EXCEPT !.deploymentConfig = gates.deploymentConfig]
  <1>1. /\ schema.watchNamespace = IsWatchNamespaceConfigurable(modes)
        /\ schema.required = IsWatchNamespaceConfigRequired(modes)
        /\ schema.format = SelectNamespaceFormat(modes)
        /\ schema.deploymentConfig = gates.deploymentConfig
    BY DEF BuildBundleConfigSchema
  <1>2. ExtractBundleConfigOptions(modes, cfg, install, gates)
          = [valid |-> ValidateConfigWithSchema(schema, cfg, install), targets |-> GetWatchNamespace(cfg)]
    BY Zenon DEF ExtractBundleConfigOptions
  <1> HIDE DEF schema
  <1>3. ExtractBundleConfigOptions(modes, cfg, install, gates).valid
          = ValidateConfigWithSchema(schema, cfg, install)
    BY <1>2
  <1>4. ExtractBundleConfigOptions(modes, cfg, install, gates).targets = GetWatchNamespace(cfg)
    BY <1>2
  <1> QED BY <1>1, <1>3, <1>4 DEF ValidateConfigWithSchema, GetWatchNamespace
\* The format the schema gives the namespace and the renderer's check of it say the same
\* (selectNamespaceFormat), when the install namespace is known.
LEMMA FormatAgrees ==
    ASSUME NEW modes, NEW install, install # "", NEW ns, ns # "", IsWatchNamespaceConfigurable(modes)
    PROVE  ValidateTargetNamespaces(modes, install, <<ns>>)
              <=> FormatMatches(SelectNamespaceFormat(modes), ns, install)
  <1>1. ValidateTargetNamespaces(modes, install, <<ns>>)
          = IF ns = install THEN Own \in modes ELSE Single \in modes
    BY OneTarget, Zenon
  <1>2. SelectNamespaceFormat(modes) = IF Own \in modes /\ Single \notin modes THEN "own"
                                       ELSE IF Single \in modes /\ Own \notin modes THEN "single" ELSE "any"
    BY Zenon DEF SelectNamespaceFormat
  <1>3. Own \in modes \/ Single \in modes BY Zenon DEF IsWatchNamespaceConfigurable
  <1> QED BY <1>1, <1>2, <1>3, Zenon DEF FormatMatches

\* What a caller relies on: an accepted configuration can be rendered, a namespace that
\* can be rendered is accepted, and all namespaces need no configuration.
AgreedTargets(modes, cfg, given, install, answer) ==
    LET ns == cfg.watchNamespace
        plain == ~cfg.unknownField /\ ~cfg.deploymentConfig
    IN  /\ answer.status # "invalidTargets"
        /\ (/\ given /\ plain /\ ns \notin {"absent", "null", "", "_"}
            /\ ValidateTargetNamespaces(modes, install, <<ns>>))
              => answer = [status |-> "rendered", targets |-> <<ns>>]
        /\ (All \in modes /\ plain /\ (~given \/ ns = "absent"))
              => answer = [status |-> "rendered", targets |-> <<"">>]

\* The schema a bundle publishes and the renderer agree (ProvideTargets).
LEMMA ProvideTargetsAgrees ==
    ASSUME NEW modes, NEW defines, NEW cfg, NEW given, NEW install, install # "", NEW gates,
           ~Unsupported(modes, defines, gates)
    PROVE  AgreedTargets(modes, cfg, given, install,
                         ProvideTargets(modes, defines, cfg, given, install, gates))
  <1> DEFINE answer == ProvideTargets(modes, defines, cfg, given, install, gates)
             read == gates.singleOwnNamespace \/ given
             used == IF given THEN cfg ELSE NoConfig
             options == ExtractBundleConfigOptions(modes, used, install, gates)
             named == IF read THEN options.targets ELSE <<>>
             targets == WithTargetNamespaces(modes, named)
             fits == ValidateTargetNamespaces(modes, install, targets)
             ns == used.watchNamespace
  <1>1. answer = CASE Unsupported(modes, defines, gates) -> [status |-> "unsupported", targets |-> <<>>]
                   [] ~Unsupported(modes, defines, gates) /\ read /\ ~options.valid ->
                         [status |-> "invalidConfiguration", targets |-> <<>>]
                   [] OTHER -> [status |-> IF fits THEN "rendered" ELSE "invalidTargets",
                                targets |-> targets]
    BY Zenon DEF ProvideTargets
  <1>2. /\ options.valid <=>
             /\ ns # "absent" => IsWatchNamespaceConfigurable(modes)
             /\ IsWatchNamespaceConfigRequired(modes) => ns \notin {"absent", "null"}
             /\ ns \notin {"absent", "null"} =>
                   /\ IsNamespaceName(ns)
                   /\ FormatMatches(SelectNamespaceFormat(modes), ns, install)
             /\ used.deploymentConfig => gates.deploymentConfig
             /\ ~used.unknownField
        /\ options.targets = IF ns \in {"absent", "null"} THEN <<>> ELSE <<ns>>
    BY OptionsFacts, Zenon
  <1>3. /\ All \in modes \/ gates.singleOwnNamespace
        /\ All \in modes \/ Own \in modes \/ Single \in modes
    BY Zenon DEF Unsupported
  <1>4. ValidateTargetNamespaces(modes, install, <<"">>) = (All \in modes) BY OneTarget, Zenon
  <1>5. targets = IF named = <<>> THEN (IF All \in modes THEN <<"">> ELSE <<>>) ELSE named
    BY Zenon DEF WithTargetNamespaces, DefaultTargetNamespacesForBundle
  <1>6. /\ ~given => /\ used.watchNamespace = "absent" /\ ~used.deploymentConfig
                     /\ ~used.unknownField
        /\ given => used = cfg
    BY Zenon DEF NoConfig
  <1>7. <<ns>> # <<>> /\ <<"">> # <<>> BY Zenon
  <1>8. ns # "" /\ IsWatchNamespaceConfigurable(modes) =>
           (ValidateTargetNamespaces(modes, install, <<ns>>)
              <=> FormatMatches(SelectNamespaceFormat(modes), ns, install))
    BY FormatAgrees, Zenon
  <1>9. IsWatchNamespaceConfigRequired(modes) <=> All \notin modes /\ IsWatchNamespaceConfigurable(modes)
    BY Zenon DEF IsWatchNamespaceConfigRequired
  <1>10. IsWatchNamespaceConfigurable(modes) <=> Own \in modes \/ Single \in modes
    BY Zenon DEF IsWatchNamespaceConfigurable
  <1> HIDE DEF answer, options, targets, fits, used
  <1>11. read /\ ~options.valid =>
            answer = [status |-> "invalidConfiguration", targets |-> <<>>]
    BY <1>1, Zenon
  <1>12. ~(read /\ ~options.valid) =>
            answer = [status |-> IF fits THEN "rendered" ELSE "invalidTargets", targets |-> targets]
    BY <1>1, Zenon
  <1>13. ASSUME read, ~options.valid PROVE answer.status # "invalidTargets"
    <2>1. answer = [status |-> "invalidConfiguration", targets |-> <<>>] BY <1>11, <1>13, Zenon
    <2> QED BY <2>1, Zenon
  <1>14. ASSUME ~(read /\ ~options.valid), fits
         PROVE  /\ answer = [status |-> "rendered", targets |-> targets]
                /\ answer.status # "invalidTargets"
    <2>1. answer = [status |-> IF fits THEN "rendered" ELSE "invalidTargets", targets |-> targets]
      BY <1>12, <1>14, Zenon
    <2>2. answer = [status |-> "rendered", targets |-> targets] BY <1>14, <2>1, Zenon
    <2> QED BY <2>2, Zenon
  <1>15. CASE ns \in {"absent", "null"} \/ ~read
    <2>1. named = <<>> BY <1>2, <1>15, Zenon
    <2>2. All \in modes => targets = <<"">> BY <1>5, <2>1, Zenon
    <2>3. All \in modes => fits BY <1>4, <2>2, Zenon DEF fits
    <2>4. All \notin modes => read /\ ~options.valid BY <1>2, <1>3, <1>9, <1>10, <1>15, ZenonT(30)
    <2>5. answer.status # "invalidTargets" BY <1>13, <1>14, <2>3, <2>4, Zenon
    <2>6. ASSUME given, cfg.watchNamespace \notin {"absent", "null", "", "_"} PROVE FALSE
      BY <1>6, <1>15, <2>6, Zenon
    <2>7. ASSUME All \in modes, ~cfg.unknownField, ~cfg.deploymentConfig, ~given \/ cfg.watchNamespace = "absent"
          PROVE  answer = [status |-> "rendered", targets |-> <<"">>]
      <3>1. ns = "absent" /\ ~used.unknownField /\ ~used.deploymentConfig BY <1>6, <2>7, Zenon
      <3>2. options.valid BY <1>2, <1>9, <2>7, <3>1, ZenonT(30)
      <3> QED BY <1>12, <2>2, <2>3, <2>7, <3>2, ZenonT(30)
    <2> QED BY <2>5, <2>6, <2>7, Zenon DEF answer, AgreedTargets
  <1>16. CASE ns \notin {"absent", "null"} /\ read
    <2>1. named = <<ns>> BY <1>2, <1>16, Zenon
    <2>2. targets = <<ns>> BY <1>5, <1>7, <2>1, Zenon
    <2>3. options.valid => fits BY <1>2, <1>8, <1>16, <2>2, Zenon DEF fits, IsNamespaceName
    <2>4. answer.status # "invalidTargets" BY <1>13, <1>14, <1>16, <2>3, Zenon
    <2>5. ASSUME given, ~cfg.unknownField, ~cfg.deploymentConfig,
                 cfg.watchNamespace \notin {"absent", "null", "", "_"},
                 ValidateTargetNamespaces(modes, install, <<cfg.watchNamespace>>)
          PROVE  answer = [status |-> "rendered", targets |-> <<cfg.watchNamespace>>]
      <3>1. ns = cfg.watchNamespace /\ ~used.unknownField /\ ~used.deploymentConfig BY <1>6, <2>5, Zenon
      <3>2. IsWatchNamespaceConfigurable(modes)
        <4>1. ValidateTargetNamespaces(modes, install, <<cfg.watchNamespace>>)
                = IF cfg.watchNamespace = "" THEN All \in modes
                  ELSE IF cfg.watchNamespace = install THEN Own \in modes ELSE Single \in modes
          BY OneTarget, Zenon
        <4> QED BY <1>10, <2>5, <4>1, Zenon
      <3>3. options.valid BY <1>2, <1>8, <1>9, <2>5, <3>1, <3>2, ZenonT(30) DEF IsNamespaceName
      <3> QED BY <1>12, <2>2, <2>3, <3>1, <3>3, ZenonT(30)
    <2>6. ~(~given \/ cfg.watchNamespace = "absent") BY <1>6, <1>16, Zenon
    <2> QED BY <2>4, <2>5, <2>6, Zenon DEF answer, AgreedTargets
  <1> QED BY <1>15, <1>16, Zenon

(***************************************************************************)
(* The rendered bundle                                                     *)
(***************************************************************************)

\* The targets of a rendered bundle: all namespaces, or some that are named.
LEMMA RenderedTargets ==
    ASSUME NEW modes, NEW install, NEW targets, AreTargets(targets),
           ValidateTargetNamespaces(modes, install, targets)
    PROVE  targets = <<"">> \/ (Elements(targets) # {} /\ "" \notin Elements(targets))
  <1> targets \in Seq(Elements(targets)) /\ Unique(targets) BY Zenon DEF AreTargets
  <1> DEFINE set == ToSet(targets)
             one == IF targets[1] = install THEN Own \in modes ELSE Single \in modes
             many == /\ install \in set => Own \in modes
                     /\ Multi \in modes /\ "" \notin set
  <1>1. set = Elements(targets) BY Zenon DEF ToSet, Elements
  <1>2. TRUE = CASE set = {} -> FALSE
                 [] set = {""} -> All \in modes
                 [] Cardinality(set) = 1 /\ set # {""} -> one
                 [] OTHER -> many
    BY Zenon DEF ValidateTargetNamespaces
  <1>3. IsFiniteSet(set)
    <2>1. IsFiniteSet(DOMAIN targets) BY FS_Interval, SMT
    <2>2. targets \in Surjection(DOMAIN targets, Elements(targets))
      BY SMT DEF Surjection, Elements
    <2> QED BY <1>1, <2>1, <2>2, FS_Surjection, Zenon
  <1>4. ASSUME set = {""} PROVE targets = <<"">>
    <2>1. DOMAIN targets = 1..Len(targets) /\ Len(targets) \in Nat BY SMT
    <2>2. \A i \in 1..Len(targets) : targets[i] = ""
      BY <1>1, <1>4, <2>1, Zenon DEF Elements
    <2>3. PICK k \in 1..Len(targets) : TRUE BY <1>1, <1>4, <2>1, Zenon DEF Elements
    <2>4. Len(targets) = 1
      <3>1. \A i, j \in 1..Len(targets) : i = j BY <2>1, <2>2, Zenon DEF Unique
      <3>2. Len(targets) > 1 => 1 \in 1..Len(targets) /\ 2 \in 1..Len(targets) BY <2>1, SMT
      <3>3. ~(Len(targets) > 1) BY <3>1, <3>2, SMT
      <3> QED BY <2>1, <2>3, <3>3, SMT
    <2>5. /\ targets \in Seq({""}) /\ <<"">> \in Seq({""})
          /\ Len(<<"">>) = 1 /\ <<"">>[1] = ""
      <3>1. \A S : \A x \in S : <<x>> \in Seq(S) /\ Len(<<x>>) = 1 /\ <<x>>[1] = x BY SMT
      <3> QED BY <1>1, <1>4, <3>1, Zenon
    <2>6. \A i \in 1..Len(targets) : targets[i] = <<"">>[i]
      <3>1. \A i \in 1..Len(targets) : i = 1 BY <2>4, SMT
      <3> QED BY <2>2, <2>5, <3>1, Zenon
    <2> QED BY <2>4, <2>5, <2>6, SeqEqual, Zenon
  <1>5. ASSUME Cardinality(set) = 1, set # {""} PROVE set # {} /\ "" \notin set
    <2>1. PICK x : set = {x} BY <1>3, <1>5, FS_Singleton, Zenon
    <2> QED BY <1>5, <2>1, Zenon
  <1> HIDE DEF set, one
  <1>6. set = {""} \/ (Cardinality(set) = 1 /\ set # {""}) \/ (set # {} /\ "" \notin set)
    BY <1>2, Zenon
  <1> QED BY <1>1, <1>4, <1>5, <1>6, Zenon

\* The name of an account is its own (saNameOrDefault).
LEMMA SaNames ==
    ASSUME NEW sa
    PROVE  SaNameOrDefault(SaNameOrDefault(sa)) = SaNameOrDefault(sa)
  <1>1. "default" # "" BY SMT
  <1> QED BY <1>1, Zenon DEF SaNameOrDefault

\* The roles of a generator's output that are bound to an account in a namespace, their
\* rules, the permissions these should come from, and theirs.
Bound(g, sa, ns) ==
    {x \in g.roles : \E y \in g.bindings : /\ y.subject = SaNameOrDefault(sa) /\ y.role = x.name
                                           /\ y.ns = x.ns /\ y.ns \in {"", ns}}
BoundRules(g, sa, ns) == UNION {r.rules : r \in Bound(g, sa, ns)}
Meant(at, sa, ns) == {z \in at : SaNameOrDefault(z[2].sa) = SaNameOrDefault(sa) /\ z[1] \in {"", ns}}
MeantRules(at, sa, ns) == UNION {z[2].rules : z \in Meant(at, sa, ns)}

\* What one generator grants: a role is bound where it is, to the account of its
\* permission, because the name of a role tells its permission.
LEMMA GeneratorGrants ==
    ASSUME NEW at, NEW sa, NEW ns,
           NEW g, g = [roles |-> {Role(x[1], x[2]) : x \in at},
                       bindings |-> {Binding(x[1], x[2]) : x \in at}]
    PROVE  BoundRules(g, sa, ns) = MeantRules(at, sa, ns)
  <1>1. /\ g.roles = {Role(x[1], x[2]) : x \in at}
        /\ g.bindings = {Binding(x[1], x[2]) : x \in at}
    BY SMT
  <1>2. \A x : /\ Role(x[1], x[2]).ns = x[1] /\ Role(x[1], x[2]).name = x[2]
               /\ Role(x[1], x[2]).rules = x[2].rules
    BY SMT DEF Role
  <1>3. \A x : /\ Binding(x[1], x[2]).ns = x[1] /\ Binding(x[1], x[2]).role = x[2]
               /\ Binding(x[1], x[2]).subject = SaNameOrDefault(x[2].sa)
    BY SMT DEF Binding
  <1>4. ASSUME NEW r \in Bound(g, sa, ns) PROVE \E z \in Meant(at, sa, ns) : r.rules = z[2].rules
    <2>1. PICK x \in at : r = Role(x[1], x[2]) BY <1>1, Zenon DEF Bound
    <2>2. PICK y \in g.bindings : /\ y.subject = SaNameOrDefault(sa) /\ y.role = r.name
                                  /\ y.ns = r.ns /\ y.ns \in {"", ns}
      BY Zenon DEF Bound
    <2>3. PICK z \in at : y = Binding(z[1], z[2]) BY <1>1, Zenon
    <2>4. /\ SaNameOrDefault(z[2].sa) = SaNameOrDefault(sa)
          /\ z[2] = r.name /\ z[1] = r.ns /\ z[1] \in {"", ns}
      <3>1. /\ y.ns = z[1] /\ y.role = z[2] /\ y.subject = SaNameOrDefault(z[2].sa)
        BY <1>3, <2>3, Zenon
      <3> QED BY <2>2, <3>1, Zenon
    <2>5. r.name = x[2] /\ r.rules = x[2].rules BY <1>2, <2>1, Zenon
    <2>6. r.rules = z[2].rules BY <2>4, <2>5, Zenon
    <2>7. z \in Meant(at, sa, ns) BY <2>4, Zenon DEF Meant
    <2> QED BY <2>6, <2>7, Zenon
  <1>5. ASSUME NEW x \in Meant(at, sa, ns) PROVE \E r \in Bound(g, sa, ns) : r.rules = x[2].rules
    <2>1. x \in at /\ SaNameOrDefault(x[2].sa) = SaNameOrDefault(sa) /\ x[1] \in {"", ns}
      BY Zenon DEF Meant
    <2>2. Role(x[1], x[2]) \in g.roles /\ Binding(x[1], x[2]) \in g.bindings BY <1>1, <2>1, Zenon
    <2>3. PICK r \in g.roles : r = Role(x[1], x[2]) BY <2>2, Zenon
    <2>4. PICK y \in g.bindings : y = Binding(x[1], x[2]) BY <2>2, Zenon
    <2>5. r.ns = x[1] /\ r.name = x[2] /\ r.rules = x[2].rules BY <1>2, <2>3, Zenon
    <2>6. y.ns = x[1] /\ y.role = x[2] /\ y.subject = SaNameOrDefault(x[2].sa)
      BY <1>3, <2>4, Zenon
    <2>7. /\ y.subject = SaNameOrDefault(sa) /\ y.role = r.name
          /\ y.ns = r.ns /\ y.ns \in {"", ns}
      BY <2>1, <2>5, <2>6, Zenon
    <2>8. r \in Bound(g, sa, ns) BY <2>7, Zenon DEF Bound
    <2> QED BY <2>5, <2>8, Zenon
  <1>6. {r.rules : r \in Bound(g, sa, ns)} = {z[2].rules : z \in Meant(at, sa, ns)}
    <2>1. ASSUME NEW v \in {r.rules : r \in Bound(g, sa, ns)}
          PROVE  v \in {z[2].rules : z \in Meant(at, sa, ns)}
      BY <1>4, Zenon
    <2>2. ASSUME NEW v \in {z[2].rules : z \in Meant(at, sa, ns)}
          PROVE  v \in {r.rules : r \in Bound(g, sa, ns)}
      BY <1>5, Zenon
    <2> QED BY <2>1, <2>2, Zenon
  <1> QED BY <1>6, Zenon DEF BoundRules, MeantRules

\* The components of a pair.
LEMMA PairFields == \A s, t : <<s, t>>[1] = s /\ <<s, t>>[2] = t
BY SMT

\* A pair of a product is one of its elements.
LEMMA Projected ==
    ASSUME NEW S, NEW T, NEW x \in S \X T
    PROVE  x[1] \in S /\ x[2] \in T
BY SMT

\* Both generators together.
Local(b, targets) == IF targets = <<"">> THEN {} ELSE Elements(targets) \X b.permissions
Wide(b, targets) ==
    b.clusterPermissions \cup
    (IF targets = <<"">> THEN {Promoted(p) : p \in b.permissions} ELSE {})
\* What the roles and the cluster roles of a bundle grant (BundleCSVPermissionsGenerator,
\* BundleCSVClusterPermissionsGenerator).
LEMMA RbacGrants ==
    ASSUME NEW b, NEW targets, NEW sa, NEW ns
    PROVE  BoundRules(BundleCSVPermissionsGenerator(b, targets), sa, ns)
             \cup BoundRules(BundleCSVClusterPermissionsGenerator(b, targets), sa, ns)
           = MeantRules(Local(b, targets), sa, ns)
               \cup MeantRules({""} \X Wide(b, targets), sa, ns)
  <1> DEFINE g1 == BundleCSVPermissionsGenerator(b, targets)
             g2 == BundleCSVClusterPermissionsGenerator(b, targets)
  <1>1. g1 = [roles |-> {Role(x[1], x[2]) : x \in Local(b, targets)},
              bindings |-> {Binding(x[1], x[2]) : x \in Local(b, targets)}]
    BY Zenon DEF BundleCSVPermissionsGenerator, Local
  <1>2. g2 = [roles |-> {Role(x[1], x[2]) : x \in {""} \X Wide(b, targets)},
              bindings |-> {Binding(x[1], x[2]) : x \in {""} \X Wide(b, targets)}]
    <2> DEFINE wide == Wide(b, targets)
    <2>1. g2 = [roles |-> {Role("", p) : p \in wide}, bindings |-> {Binding("", p) : p \in wide}]
      BY Zenon DEF BundleCSVClusterPermissionsGenerator, Wide
    <2> HIDE DEF wide, g2
    <2>2. \A p \in wide : \E x \in {""} \X wide : x[1] = "" /\ x[2] = p
      <3>1. ASSUME NEW s \in {""}, NEW p \in wide
            PROVE  \E x \in {""} \X wide : x[1] = s /\ x[2] = p
        <4>1. <<s, p>> \in {""} \X wide BY Zenon
        <4> QED BY <4>1, PairFields, Zenon
      <3> QED BY <3>1, Zenon
    <2>3. \A x \in {""} \X wide : x[1] = "" /\ x[2] \in wide BY Projected, Zenon
    <2>4. {Role("", p) : p \in wide} = {Role(x[1], x[2]) : x \in {""} \X wide}
      <3>1. ASSUME NEW p \in wide PROVE Role("", p) \in {Role(x[1], x[2]) : x \in {""} \X wide}
        <4>1. PICK x \in {""} \X wide : x[1] = "" /\ x[2] = p BY <2>2, Zenon
        <4> QED BY <4>1, Zenon
      <3>2. ASSUME NEW x \in {""} \X wide PROVE Role(x[1], x[2]) \in {Role("", p) : p \in wide}
        BY <2>3, Zenon
      <3> QED BY <3>1, <3>2, Zenon
    <2>5. {Binding("", p) : p \in wide} = {Binding(x[1], x[2]) : x \in {""} \X wide}
      <3>1. ASSUME NEW p \in wide PROVE Binding("", p) \in {Binding(x[1], x[2]) : x \in {""} \X wide}
        <4>1. PICK x \in {""} \X wide : x[1] = "" /\ x[2] = p BY <2>2, Zenon
        <4> QED BY <4>1, Zenon
      <3>2. ASSUME NEW x \in {""} \X wide PROVE Binding(x[1], x[2]) \in {Binding("", p) : p \in wide}
        BY <2>3, Zenon
      <3> QED BY <3>1, <3>2, Zenon
    <2> QED BY <2>1, <2>4, <2>5, Zenon DEF wide
  <1> HIDE DEF g1, g2
  <1>3. BoundRules(g1, sa, ns) = MeantRules(Local(b, targets), sa, ns)
    BY <1>1, GeneratorGrants, Zenon
  <1>4. BoundRules(g2, sa, ns) = MeantRules({""} \X Wide(b, targets), sa, ns)
    BY <1>2, GeneratorGrants, Zenon
  <1> QED BY <1>3, <1>4, Zenon DEF g1, g2

\* The rules of an account's permissions.
RulesOf(perms, account) == UNION {p.rules : p \in {x \in perms : SaNameOrDefault(x.sa) = account}}

\* Permissions given in some namespaces count where one of these is.
LEMMA MeantAt ==
    ASSUME NEW M, NEW perms, NEW sa, NEW ns, SaNameOrDefault(sa) = sa
    PROVE  MeantRules(M \X perms, sa, ns)
             = IF M \cap {"", ns} # {} THEN RulesOf(perms, sa) ELSE {}
  <1>1. ASSUME NEW v \in MeantRules(M \X perms, sa, ns)
        PROVE  M \cap {"", ns} # {} /\ v \in RulesOf(perms, sa)
    <2>1. PICK z \in M \X perms : /\ SaNameOrDefault(z[2].sa) = sa /\ z[1] \in {"", ns}
                                  /\ v \in z[2].rules
      BY Zenon DEF MeantRules, Meant
    <2>2. z[1] \in M /\ z[2] \in perms BY Projected, Zenon
    <2> QED BY <2>1, <2>2, Zenon DEF RulesOf
  <1>2. ASSUME M \cap {"", ns} # {}, NEW v \in RulesOf(perms, sa)
        PROVE  v \in MeantRules(M \X perms, sa, ns)
    <2>1. PICK m \in M : m \in {"", ns} BY <1>2, Zenon
    <2>2. PICK p \in perms : SaNameOrDefault(p.sa) = sa /\ v \in p.rules BY Zenon DEF RulesOf
    <2>3. PICK z \in M \X perms : z[1] = m /\ z[2] = p
      <3>1. \E z \in M \X perms : z[1] = m /\ z[2] = p
        <4> WITNESS <<m, p>> \in M \X perms
        <4> QED BY SMT
      <3> QED BY <3>1
    <2>4. z \in Meant(M \X perms, sa, ns) BY <2>1, <2>2, <2>3, Zenon DEF Meant
    <2>5. v \in z[2].rules BY <2>2, <2>3, Zenon
    <2> QED BY <2>4, <2>5, Zenon DEF MeantRules
  <1> QED BY <1>1, <1>2, Zenon

\* A permission promoted to the cluster has its rules, and reads namespaces.
LEMMA PromotedRules ==
    ASSUME NEW perms, NEW sa, \A p \in perms : p = [sa |-> p.sa, rules |-> p.rules]
    PROVE  RulesOf({Promoted(p) : p \in perms}, sa)
             = RulesOf(perms, sa) \cup (IF \E p \in perms : SaNameOrDefault(p.sa) = sa
                                        THEN {ViewNamespaces} ELSE {})
  <1>1. ASSUME NEW p \in perms
        PROVE  Promoted(p).sa = p.sa /\ Promoted(p).rules = p.rules \cup {ViewNamespaces}
    <2>1. \A a, r, e : /\ [[sa |-> a, rules |-> r] EXCEPT !.rules = e].sa = a
                       /\ [[sa |-> a, rules |-> r] EXCEPT !.rules = e].rules = e
      BY SMT
    <2>2. PICK a, r : p = [sa |-> a, rules |-> r] BY Zenon
    <2>3. p.sa = a /\ p.rules = r BY <2>2, SMT
    <2>4. Promoted(p) = [[sa |-> a, rules |-> r] EXCEPT !.rules = r \cup {ViewNamespaces}]
      BY <2>2, SMT DEF Promoted
    <2> QED BY <2>1, <2>3, <2>4, Zenon
  <1>2. ASSUME NEW v \in RulesOf({Promoted(p) : p \in perms}, sa)
        PROVE  \E p \in perms : /\ SaNameOrDefault(p.sa) = sa
                                /\ v \in p.rules \/ v = ViewNamespaces
    <2>1. PICK p \in perms : SaNameOrDefault(Promoted(p).sa) = sa /\ v \in Promoted(p).rules
      BY Zenon DEF RulesOf
    <2> QED BY <1>1, <2>1, Zenon
  <1>3. ASSUME NEW p \in perms, SaNameOrDefault(p.sa) = sa, NEW v,
               v \in p.rules \/ v = ViewNamespaces
        PROVE  v \in RulesOf({Promoted(q) : q \in perms}, sa)
    <2>1. SaNameOrDefault(Promoted(p).sa) = sa /\ v \in Promoted(p).rules BY <1>1, <1>3, Zenon
    <2> QED BY <2>1, Zenon DEF RulesOf
  <1>4. ASSUME NEW v PROVE v \in RulesOf(perms, sa)
                              <=> \E p \in perms : SaNameOrDefault(p.sa) = sa /\ v \in p.rules
    BY Zenon DEF RulesOf
  <1> QED BY <1>2, <1>3, <1>4, Zenon

\* What an account should have in a namespace.
Entitled(b, targets, sa, ns) ==
    RulesOf(b.clusterPermissions, sa)
    \cup (IF targets = <<"">> \/ ns \in Elements(targets) THEN RulesOf(b.permissions, sa) ELSE {})
    \cup (IF targets = <<"">> /\ \E p \in b.permissions : SaNameOrDefault(p.sa) = sa
          THEN {ViewNamespaces} ELSE {})

\* Both generators grant an account what its permissions say, no more and no less.
LEMMA PermissionsGranted ==
    ASSUME NEW b, IsBundle(b), NEW targets, NEW sa, NEW ns, SaNameOrDefault(sa) = sa,
           targets = <<"">> \/ "" \notin Elements(targets)
    PROVE  BoundRules(BundleCSVPermissionsGenerator(b, targets), sa, ns)
             \cup BoundRules(BundleCSVClusterPermissionsGenerator(b, targets), sa, ns)
             = Entitled(b, targets, sa, ns)
  <1> DEFINE promoted == {Promoted(p) : p \in b.permissions}
             view == IF \E p \in b.permissions : SaNameOrDefault(p.sa) = sa
                     THEN {ViewNamespaces} ELSE {}
             granted == BoundRules(BundleCSVPermissionsGenerator(b, targets), sa, ns)
                          \cup BoundRules(BundleCSVClusterPermissionsGenerator(b, targets), sa, ns)
  <1>0. granted = MeantRules(Local(b, targets), sa, ns)
                    \cup MeantRules({""} \X Wide(b, targets), sa, ns)
    BY RbacGrants, Zenon
  <1>1. MeantRules({""} \X Wide(b, targets), sa, ns) = RulesOf(Wide(b, targets), sa)
    <2>1. {""} \cap {"", ns} # {} BY Zenon
    <2> QED BY <2>1, MeantAt, ZenonT(30)
  <1>2. \A P, Q : RulesOf(P \cup Q, sa) = RulesOf(P, sa) \cup RulesOf(Q, sa)
    BY Zenon DEF RulesOf
  <1>3. CASE targets = <<"">>
    <2>1. Local(b, targets) = {} /\ Wide(b, targets) = b.clusterPermissions \cup promoted
      BY <1>3, Zenon DEF Local, Wide
    <2>2. MeantRules({}, sa, ns) = {} BY Zenon DEF MeantRules, Meant
    <2>3. RulesOf(promoted, sa) = RulesOf(b.permissions, sa) \cup view
      <3>1. \A p \in b.permissions : p = [sa |-> p.sa, rules |-> p.rules] BY Zenon DEF IsBundle
      <3> QED BY <3>1, PromotedRules, Zenon
    <2> HIDE DEF promoted, view, granted
    <2>4. granted = RulesOf(b.clusterPermissions, sa) \cup RulesOf(b.permissions, sa) \cup view
      <3>1. RulesOf(Wide(b, targets), sa) = RulesOf(b.clusterPermissions, sa) \cup RulesOf(promoted, sa)
        BY <1>2, <2>1, Zenon
      <3>2. MeantRules(Local(b, targets), sa, ns) = {} BY <2>1, <2>2, Zenon
      <3>3. granted = {} \cup RulesOf(Wide(b, targets), sa)
        BY <1>0, <1>1, <3>2, Zenon
      <3> QED BY <2>3, <3>1, <3>3, Zenon
    <2> QED BY <1>3, <2>4, Zenon DEF view, granted, Entitled
  <1>4. CASE targets # <<"">>
    <2>1. /\ Local(b, targets) = Elements(targets) \X b.permissions
          /\ Wide(b, targets) = b.clusterPermissions
      BY <1>4, Zenon DEF Local, Wide
    <2>2. Elements(targets) \cap {"", ns} # {} <=> ns \in Elements(targets) BY <1>4, Zenon
    <2>3. MeantRules(Local(b, targets), sa, ns)
            = IF ns \in Elements(targets) THEN RulesOf(b.permissions, sa) ELSE {}
      <3>1. MeantRules(Elements(targets) \X b.permissions, sa, ns)
              = IF Elements(targets) \cap {"", ns} # {} THEN RulesOf(b.permissions, sa) ELSE {}
        BY MeantAt, Zenon
      <3> QED BY <2>1, <2>2, <3>1, Zenon
    <2>4. RulesOf(Wide(b, targets), sa) = RulesOf(b.clusterPermissions, sa) BY <2>1, Zenon
    <2> HIDE DEF granted
    <2>5. granted = (IF ns \in Elements(targets) THEN RulesOf(b.permissions, sa) ELSE {})
                \cup RulesOf(b.clusterPermissions, sa)
      BY <1>0, <1>1, <2>3, <2>4, Zenon
    <2> QED BY <1>4, <2>5, Zenon DEF granted, Entitled
  <1> QED BY <1>3, <1>4, Zenon

\* What is rendered of a bundle.
Admission(b, targets, provider) ==
    BundleWebhookResourceGenerator(b, "Validating", targets, provider)
    \cup BundleWebhookResourceGenerator(b, "Mutating", targets, provider)
Conversion(b, provider) == BundleCRDGenerator(b, provider).crds
RenderedAs(r, b, targets, provider) ==
    /\ r.accounts = BundleCSVServiceAccountGenerator(b)
    /\ r.rbac = <<BundleCSVPermissionsGenerator(b, targets),
                  BundleCSVClusterPermissionsGenerator(b, targets)>>
    /\ r.deployments = {[name |-> d, secret |-> GetCertSecretInfo(b, provider, d)] :
                           d \in Elements(b.deployments)}
    /\ r.crds = Conversion(b, provider)
    /\ r.webhooks = Admission(b, targets, provider)
    /\ r.services = BundleDeploymentServiceResourceGenerator(b, provider)
    /\ r.certificates = CertProviderResourceGenerator(b, provider)

\* What Render returns of a bundle it does not refuse.
LEMMA RenderFields ==
    ASSUME NEW b, NEW install, NEW targets, NEW provider, NEW r,
           r = Render(b, install, targets, provider), r.valid
    PROVE  /\ Validate(b)
           /\ ValidateTargetNamespaces(b.modes, install, targets)
           /\ RenderedAs(r, b, targets, provider)
  <1> DEFINE refused == \/ ~Validate(b) \/ ~ValidateTargetNamespaces(b.modes, install, targets)
                        \/ BundleCRDGenerator(b, provider).error
             deployments == {[name |-> d, secret |-> GetCertSecretInfo(b, provider, d)] :
                                d \in Elements(b.deployments)}
             made == [valid |-> TRUE,
                      accounts |-> BundleCSVServiceAccountGenerator(b),
                      rbac |-> <<BundleCSVPermissionsGenerator(b, targets),
                                 BundleCSVClusterPermissionsGenerator(b, targets)>>,
                      deployments |-> deployments,
                      crds |-> Conversion(b, provider),
                      others |-> BundleAdditionalResourcesGenerator(b, install),
                      webhooks |-> Admission(b, targets, provider),
                      services |-> BundleDeploymentServiceResourceGenerator(b, provider),
                      certificates |-> CertProviderResourceGenerator(b, provider)]
  <1>1. r = IF refused THEN [valid |-> FALSE] ELSE made BY Zenon DEF Render, Admission, Conversion
  <1>2. ~[valid |-> FALSE].valid BY SMT
  <1> HIDE DEF refused, made
  <1>3. ~refused /\ r = made BY <1>1, <1>2, Zenon
  <1>4. Validate(b) /\ ValidateTargetNamespaces(b.modes, install, targets) BY <1>3, Zenon DEF refused
  <1> HIDE DEF deployments
  <1>5. /\ made.accounts = BundleCSVServiceAccountGenerator(b)
        /\ made.rbac = <<BundleCSVPermissionsGenerator(b, targets),
                         BundleCSVClusterPermissionsGenerator(b, targets)>>
        /\ made.deployments = deployments
        /\ made.crds = Conversion(b, provider)
        /\ made.webhooks = Admission(b, targets, provider)
        /\ made.services = BundleDeploymentServiceResourceGenerator(b, provider)
        /\ made.certificates = CertProviderResourceGenerator(b, provider)
    BY SMT DEF made
  <1> QED BY <1>3, <1>4, <1>5, Zenon DEF RenderedAs, deployments

\* The service accounts a bundle names.
AccountNames(b) == {SaNameOrDefault(p.sa) : p \in b.permissions \cup b.clusterPermissions}

\* The accounts of a rendered bundle, and what its roles grant to each of them.
LEMMA RenderedPermissions ==
    ASSUME NEW b, NEW install, NEW targets, NEW provider, NEW r,
           r = Render(b, install, targets, provider), r.valid, IsBundle(b), AreTargets(targets)
    PROVE  /\ AccountNames(b) \subseteq r.accounts \cup {"default"}
           /\ \E g, h : /\ r.rbac = <<g, h>>
                        /\ \A sa \in AccountNames(b) : \A ns :
                             BoundRules(g, sa, ns) \cup BoundRules(h, sa, ns)
                               = Entitled(b, targets, sa, ns)
  <1>1. /\ ValidateTargetNamespaces(b.modes, install, targets)
        /\ r.accounts = BundleCSVServiceAccountGenerator(b)
        /\ r.rbac = <<BundleCSVPermissionsGenerator(b, targets),
                      BundleCSVClusterPermissionsGenerator(b, targets)>>
    BY RenderFields, Zenon DEF RenderedAs
  <1>2. targets = <<"">> \/ "" \notin Elements(targets) BY <1>1, RenderedTargets, Zenon
  <1>3. AccountNames(b) \subseteq r.accounts \cup {"default"}
    BY <1>1, Zenon DEF AccountNames, BundleCSVServiceAccountGenerator
  <1>5. ASSUME NEW sa \in AccountNames(b) PROVE SaNameOrDefault(sa) = sa
    BY SaNames, Zenon DEF AccountNames
  <1>6. ASSUME NEW sa \in AccountNames(b), NEW ns
        PROVE  BoundRules(BundleCSVPermissionsGenerator(b, targets), sa, ns)
               \cup BoundRules(BundleCSVClusterPermissionsGenerator(b, targets), sa, ns)
                 = Entitled(b, targets, sa, ns)
    BY <1>2, <1>5, PermissionsGranted, Zenon
  <1>7. \A sa \in AccountNames(b) : \A ns :
          BoundRules(BundleCSVPermissionsGenerator(b, targets), sa, ns)
          \cup BoundRules(BundleCSVClusterPermissionsGenerator(b, targets), sa, ns)
            = Entitled(b, targets, sa, ns)
    BY <1>6, Zenon
  <1> QED BY <1>1, <1>3, <1>7

\* Webhooks with the same type and name are one, and so are conversion webhooks that
\* name the same CRD.
LEMMA WebhooksTold ==
    ASSUME NEW b, Validate(b), NEW v \in Elements(b.webhooks), NEW w \in Elements(b.webhooks)
    PROVE  /\ v.type = w.type /\ v.name = w.name => v = w
           /\ v.type = "Conversion" /\ w.type = "Conversion" =>
                 \A crd : crd \in v.crds /\ crd \in w.crds => v = w
  <1>1. PICK i \in DOMAIN b.webhooks : v = b.webhooks[i] BY Zenon DEF Elements
  <1>2. PICK j \in DOMAIN b.webhooks : w = b.webhooks[j] BY Zenon DEF Elements
  <1>3. ASSUME v.type = w.type, v.name = w.name PROVE v = w
    <2> DEFINE names == [k \in DOMAIN b.webhooks |-> <<b.webhooks[k].type, b.webhooks[k].name>>]
    <2>1. Unique(names) BY Zenon DEF Validate, CheckWebhookNameUniqueness
    <2>2. DOMAIN names = DOMAIN b.webhooks BY Zenon
    <2>3. names[i] = <<v.type, v.name>> /\ names[j] = <<w.type, w.name>> BY <1>1, <1>2, Zenon
    <2> HIDE DEF names
    <2>4. i = j BY <1>3, <2>1, <2>2, <2>3, Zenon DEF Unique
    <2> QED BY <1>1, <1>2, <2>4, Zenon
  <1>4. ASSUME v.type = "Conversion", w.type = "Conversion", NEW crd, crd \in v.crds, crd \in w.crds
        PROVE  v = w
    <2>1. i \in Conversions(b) /\ j \in Conversions(b) BY <1>1, <1>2, <1>4, Zenon DEF Conversions
    <2>2. b.webhooks[i].crds \cap b.webhooks[j].crds # {} BY <1>1, <1>2, <1>4, Zenon
    <2>3. i = j BY <2>1, <2>2, Zenon DEF Validate, CheckConversionWebhookCRDReferenceUniqueness
    <2> QED BY <1>1, <1>2, <2>3, Zenon
  <1> QED BY <1>3, <1>4, Zenon

\* How a webhook is called.
CalledAt(h, w, provider) ==
    /\ h.service = CertProvisionerFor(w.deployment).service
    /\ h.port = w.containerPort
    /\ h.ca = InjectCABundle(provider, w.deployment)

\* A webhook configuration of a webhook's type and name is that webhook's.
LEMMA AdmissionCalls ==
    ASSUME NEW b, Validate(b), NEW targets, NEW provider, NEW w \in Elements(b.webhooks)
    PROVE  /\ w.type \in {"Validating", "Mutating"} =>
                 \E h \in Admission(b, targets, provider) : h.name = w.name /\ h.type = w.type
           /\ \A h \in Admission(b, targets, provider) : h.name = w.name /\ h.type = w.type =>
                 CalledAt(h, w, provider) /\ h.namespaces = GetWebhookNamespaceSelector(targets)
  <1> DEFINE hooks == Admission(b, targets, provider)
             config(x, type) ==
                [name |-> x.name, type |-> type, service |-> CertProvisionerFor(x.deployment).service,
                 port |-> x.containerPort, namespaces |-> GetWebhookNamespaceSelector(targets),
                 ca |-> InjectCABundle(provider, x.deployment)]
             generated(type) == BundleWebhookResourceGenerator(b, type, targets, provider)
  <1>1. ASSUME NEW type
        PROVE  generated(type) = {config(x, type) : x \in {y \in Elements(b.webhooks) : y.type = type}}
    BY Zenon DEF BundleWebhookResourceGenerator
  <1>2. ASSUME NEW x, NEW type
        PROVE  /\ config(x, type).name = x.name /\ config(x, type).type = type
               /\ config(x, type).namespaces = GetWebhookNamespaceSelector(targets)
               /\ CalledAt(config(x, type), x, provider)
    BY SMT DEF CalledAt
  <1> HIDE DEF config, generated
  <1>3. ASSUME NEW type, NEW h \in generated(type), h.name = w.name, h.type = w.type
        PROVE  CalledAt(h, w, provider) /\ h.namespaces = GetWebhookNamespaceSelector(targets)
    <2>1. PICK x \in Elements(b.webhooks) : x.type = type /\ h = config(x, type) BY <1>1, Zenon
    <2>2. h.name = x.name /\ h.type = type BY <1>2, <2>1, Zenon
    <2>3. x.type = w.type /\ x.name = w.name BY <1>3, <2>1, <2>2, Zenon
    <2>4. x = w BY <2>3, WebhooksTold, Zenon
    <2>5. /\ h.namespaces = GetWebhookNamespaceSelector(targets)
          /\ CalledAt(h, x, provider)
      BY <1>2, <2>1, Zenon
    <2> QED BY <2>4, <2>5, Zenon
  <1>4. ASSUME NEW type, w.type = type
        PROVE  \E h \in generated(type) : h.name = w.name /\ h.type = w.type
    <2>1. config(w, type) \in generated(type) BY <1>1, <1>4, Zenon
    <2>2. config(w, type).name = w.name /\ config(w, type).type = w.type BY <1>2, <1>4, Zenon
    <2> QED BY <2>1, <2>2, Zenon
  <1>5. hooks = generated("Validating") \cup generated("Mutating") BY Zenon DEF Admission, generated
  <1>6. w.type \in {"Validating", "Mutating"} => \E h \in hooks : h.name = w.name /\ h.type = w.type
    BY <1>4, <1>5, Zenon
  <1> QED BY <1>3, <1>5, <1>6, Zenon

\* A CRD calls the one conversion webhook that names it.
LEMMA ConversionCalls ==
    ASSUME NEW b, Validate(b), NEW provider, NEW w \in Elements(b.webhooks), w.type = "Conversion",
           NEW crd \in Conversion(b, provider), crd.name \in w.crds, NEW h \in crd.calls
    PROVE  CalledAt(h, w, provider)
  <1> DEFINE client(x) == [service |-> CertProvisionerFor(x.deployment).service,
                           port |-> x.containerPort, ca |-> InjectCABundle(provider, x.deployment)]
             calls(c) == {client(x) : x \in {b.webhooks[i] : i \in {j \in Conversions(b) :
                                                               c.name \in b.webhooks[j].crds}}}
             error == \/ ~CheckConversionWebhookCRDReferenceUniqueness(b)
                      \/ \E i \in Conversions(b) : \E c \in Elements(b.crds) :
                             c.name \in b.webhooks[i].crds /\ c.preserveUnknownFields
             crds == {[name |-> c.name, calls |-> calls(c)] : c \in Elements(b.crds)}
  <1>1. BundleCRDGenerator(b, provider) = [error |-> error, crds |-> crds]
    BY Zenon DEF BundleCRDGenerator
  <1>2. ASSUME NEW x PROVE CalledAt(client(x), x, provider) BY SMT DEF CalledAt
  <1> HIDE DEF error, client
  <1>3. Conversion(b, provider) = crds
    <2> HIDE DEF crds
    <2> QED BY <1>1, SMT DEF Conversion
  <1>4. PICK c \in Elements(b.crds) : crd = [name |-> c.name, calls |-> calls(c)] BY <1>3, Zenon
  <1>5. crd.name = c.name /\ crd.calls = calls(c)
    <2> HIDE DEF calls
    <2> QED BY <1>4, SMT
  <1>6. PICK i \in Conversions(b) : c.name \in b.webhooks[i].crds /\ h = client(b.webhooks[i])
    BY <1>5, Zenon
  <1>7. b.webhooks[i] \in Elements(b.webhooks) /\ b.webhooks[i].type = "Conversion"
    BY Zenon DEF Elements, Conversions
  <1>8. b.webhooks[i] = w BY <1>5, <1>6, <1>7, WebhooksTold, Zenon
  <1> QED BY <1>2, <1>6, <1>8, Zenon

\* The service of a webhook: it selects the deployment, has the webhook's port and, with
\* OpenShift's CA, names the secret of the certificate.
ServiceOf(s, w, provider) ==
    /\ s.name = CertProvisionerFor(w.deployment).service /\ s.selects = w.deployment
    /\ \E p \in s.ports : p.port = w.containerPort
    /\ provider = "service-ca" => s.secret = CertProvisionerFor(w.deployment).cert

\* Every webhook has a service (BundleDeploymentServiceResourceGenerator).
LEMMA WebhookHasService ==
    ASSUME NEW b, Validate(b), NEW provider, NEW w \in Elements(b.webhooks), w.containerPort > 0
    PROVE  \E s \in BundleDeploymentServiceResourceGenerator(b, provider) : ServiceOf(s, w, provider)
  <1> DEFINE ports(d) == {WebhookServicePort(x) : x \in {y \in Elements(b.webhooks) : y.deployment = d}}
             secret(d) == IF provider = "service-ca" THEN CertProvisionerFor(d).cert ELSE <<>>
             service(d) == [name |-> CertProvisionerFor(d).service, selects |-> d,
                            ports |-> ports(d), secret |-> secret(d)]
             d == w.deployment
  <1>1. BundleDeploymentServiceResourceGenerator(b, provider)
          = {service(e) : e \in {x \in Elements(b.deployments) :
                                    \E y \in Elements(b.webhooks) : y.deployment = x}}
    BY Zenon DEF BundleDeploymentServiceResourceGenerator
  <1>2. d \in Elements(b.deployments)
    BY Zenon DEF Validate, CheckWebhookDeploymentReferentialIntegrity
  <1>3. WebhookServicePort(w) \in ports(d) BY Zenon
  <1>4. WebhookServicePort(w).port = w.containerPort BY SMT DEF WebhookServicePort
  <1>5. provider = "service-ca" => secret(d) = CertProvisionerFor(d).cert BY Zenon
  <1> HIDE DEF ports, secret
  <1>6. /\ service(d).name = CertProvisionerFor(d).service /\ service(d).selects = d
        /\ service(d).ports = ports(d) /\ service(d).secret = secret(d)
    BY SMT
  <1> HIDE DEF service
  <1>7. service(d) \in BundleDeploymentServiceResourceGenerator(b, provider) BY <1>1, <1>2, Zenon
  <1>8. ServiceOf(service(d), w, provider) BY <1>3, <1>4, <1>5, <1>6, Zenon DEF ServiceOf
  <1> QED BY <1>7, <1>8, Zenon

\* A call of a webhook reaches its deployment at a service that has its port, with the CA
\* of the certificate that the deployment mounts.
Reaches(h, w, provider, r) ==
    \E s \in r.services :
        /\ s.name = h.service /\ s.selects = w.deployment
        /\ \E p \in s.ports : p.port = h.port
        /\ \A d \in {x \in r.deployments : x.name = w.deployment} :
              /\ provider = "cert-manager" =>
                    h.ca = d.secret /\ [secret |-> d.secret, service |-> s.name] \in r.certificates
              /\ provider = "service-ca" => s.secret = d.secret

\* Whatever calls a webhook as generated reaches it.
LEMMA CallReaches ==
    ASSUME NEW b, NEW install, NEW targets, NEW provider, NEW r,
           r = Render(b, install, targets, provider), r.valid,
           NEW w \in Elements(b.webhooks), w.containerPort > 0, NEW h, CalledAt(h, w, provider)
    PROVE  Reaches(h, w, provider, r)
  <1> DEFINE cert == CertProvisionerFor(w.deployment).cert
  <1>1. /\ Validate(b)
        /\ r.deployments = {[name |-> d, secret |-> GetCertSecretInfo(b, provider, d)] :
                               d \in Elements(b.deployments)}
        /\ r.services = BundleDeploymentServiceResourceGenerator(b, provider)
        /\ r.certificates = CertProviderResourceGenerator(b, provider)
    BY RenderFields DEF RenderedAs
  <1>2. PICK s \in r.services : ServiceOf(s, w, provider) BY <1>1, WebhookHasService, Zenon
  <1>3. ASSUME NEW d \in r.deployments, d.name = w.deployment, provider # "none"
        PROVE  d.secret = cert
    <2>1. PICK e \in Elements(b.deployments) :
                 d = [name |-> e, secret |-> GetCertSecretInfo(b, provider, e)]
      BY <1>1, Zenon
    <2>2. d.name = e /\ d.secret = GetCertSecretInfo(b, provider, e) BY <2>1, SMT
    <2> QED BY <1>3, <2>2, Zenon DEF GetCertSecretInfo
  <1>4. ASSUME provider = "cert-manager"
        PROVE  h.ca = cert /\ [secret |-> cert, service |-> s.name] \in r.certificates
    <2>1. h.ca = cert BY <1>4, Zenon DEF CalledAt, InjectCABundle
    <2>2. s.name = CertProvisionerFor(w.deployment).service BY <1>2, Zenon DEF ServiceOf
    <2>3. [secret |-> cert, service |-> s.name] \in AdditionalObjects(provider, w.deployment)
      BY <1>4, <2>2, Zenon DEF AdditionalObjects
    <2> QED BY <1>1, <2>1, <2>3, Zenon DEF CertProviderResourceGenerator
  <1>5. provider \in {"cert-manager", "service-ca"} => provider # "none" BY SMT
  <1> HIDE DEF cert
  <1>6. ASSUME NEW d \in {x \in r.deployments : x.name = w.deployment}
        PROVE  /\ provider = "cert-manager" =>
                    h.ca = d.secret /\ [secret |-> d.secret, service |-> s.name] \in r.certificates
               /\ provider = "service-ca" => s.secret = d.secret
    <2>1. provider = "service-ca" => s.secret = cert BY <1>2, Zenon DEF ServiceOf, cert
    <2>2. provider # "none" => d.secret = cert BY <1>3, Zenon
    <2> QED BY <1>4, <1>5, <2>1, <2>2, Zenon
  <1>7. /\ s.name = h.service /\ s.selects = w.deployment
        /\ \E p \in s.ports : p.port = h.port
    BY <1>2, Zenon DEF ServiceOf, CalledAt
  <1> QED BY <1>6, <1>7, Zenon DEF Reaches

\* The one element of a list of one.
LEMMA SingletonElements == ASSUME NEW x PROVE Elements(<<x>>) = {x}
BY DEF Elements

\* A list with an index is not empty.
LEMMA IndexedIsNotEmpty == ASSUME NEW S, NEW t \in Seq(S), NEW k \in DOMAIN t PROVE t # <<>>
OBVIOUS

\* A webhook configuration selects the target namespaces.
LEMMA SelectsTargets ==
    ASSUME NEW targets, AreTargets(targets),
           targets = <<"">> \/ (Elements(targets) # {} /\ "" \notin Elements(targets))
    PROVE  GetWebhookNamespaceSelector(targets) = Elements(targets)
  <1> targets \in Seq(Elements(targets)) BY Zenon DEF AreTargets
  <1>1. CASE targets = <<"">>
    <2>2. Elements(targets) = {""} BY <1>1, SingletonElements, Zenon
    <2> QED BY <2>2, Zenon DEF GetWebhookNamespaceSelector
  <1>2. CASE Elements(targets) # {} /\ "" \notin Elements(targets)
    <2>1. PICK i \in DOMAIN targets : TRUE BY <1>2, Zenon DEF Elements
    <2>2. targets # <<>> BY <2>1, IndexedIsNotEmpty, Zenon
    <2> QED BY <1>2, <2>2, Zenon DEF GetWebhookNamespaceSelector
  <1> QED BY <1>1, <1>2, Zenon

\* The calls that go to a webhook of a rendered bundle, and that each reaches it.
CallsOf(w, r) ==
    IF w.type = "Conversion"
    THEN UNION {crd.calls : crd \in {c \in r.crds : c.name \in w.crds}}
    ELSE {h \in r.webhooks : h.name = w.name /\ h.type = w.type}

LEMMA RenderedWebhooks ==
    ASSUME NEW b, NEW install, NEW targets, NEW provider, NEW r,
           r = Render(b, install, targets, provider), r.valid, IsBundle(b), AreTargets(targets),
           NEW w \in Elements(b.webhooks), w.containerPort > 0
    PROVE  /\ w.type = "Conversion" \/ CallsOf(w, r) # {}
           /\ \A h \in CallsOf(w, r) :
                /\ Reaches(h, w, provider, r)
                /\ w.type # "Conversion" => h.namespaces = Elements(targets)
  <1>1. Validate(b) /\ ValidateTargetNamespaces(b.modes, install, targets) BY RenderFields, Zenon
  <1>2. r.crds = Conversion(b, provider) BY RenderFields, Zenon DEF RenderedAs
  <1>3. r.webhooks = Admission(b, targets, provider) BY RenderFields, ZenonT(30) DEF RenderedAs
  <1>4. targets = <<"">> \/ (Elements(targets) # {} /\ "" \notin Elements(targets))
    BY <1>1, RenderedTargets, Zenon
  <1>5. GetWebhookNamespaceSelector(targets) = Elements(targets) BY <1>4, SelectsTargets, Zenon
  <1>6. ASSUME NEW h, CalledAt(h, w, provider) PROVE Reaches(h, w, provider, r)
    BY <1>6, CallReaches, Zenon
  <1>7. CASE w.type = "Conversion"
    <2>1. ASSUME NEW h \in CallsOf(w, r) PROVE CalledAt(h, w, provider)
      <3>1. PICK crd \in r.crds : crd.name \in w.crds /\ h \in crd.calls BY <1>7, Zenon DEF CallsOf
      <3>2. crd \in Conversion(b, provider) BY <1>2, Zenon
      <3> QED BY <1>1, <1>7, <3>1, <3>2, ConversionCalls, Zenon
    <2> QED BY <1>6, <1>7, <2>1, Zenon
  <1>8. CASE w.type # "Conversion"
    <2>1. w.type \in {"Validating", "Mutating"} BY <1>8, Zenon DEF IsBundle
    <2>2. CallsOf(w, r) = {h \in r.webhooks : h.name = w.name /\ h.type = w.type}
      BY <1>8, Zenon DEF CallsOf
    <2>3. \E h \in r.webhooks : h.name = w.name /\ h.type = w.type
      BY <1>1, <1>3, <2>1, AdmissionCalls
    <2>4. \A h \in r.webhooks : h.name = w.name /\ h.type = w.type =>
             CalledAt(h, w, provider) /\ h.namespaces = GetWebhookNamespaceSelector(targets)
      BY <1>1, <1>3, AdmissionCalls
    <2> QED BY <1>5, <1>6, <2>2, <2>3, <2>4, Zenon
  <1> QED BY <1>7, <1>8

(***************************************************************************)
(* The rendered deployment                                                 *)
(***************************************************************************)

\* Two pods with the same annotations.
SameAnnotations(q, pod) ==
    /\ DOMAIN q = DOMAIN pod
    /\ q.annotations = pod.annotations /\ q.template = pod.template

\* A pod that differs in another field.
Differs(q, pod) ==
    q = pod \/ \E f \in {"containers", "volumes", "tolerations", "nodeSelector", "affinity"} :
                  \E e : q = [pod EXCEPT ![f] = e]

\* Changing another field leaves the annotations alone.
LEMMA OtherField ==
    ASSUME NEW pod, IsPod(pod), NEW q, Differs(q, pod)
    PROVE  IsPod(q) /\ SameAnnotations(q, pod)
  <1>1. CASE q = pod BY <1>1, Zenon DEF SameAnnotations
  <1>2. CASE q # pod
    <2>1. PICK f \in {"containers", "volumes", "tolerations", "nodeSelector", "affinity"} :
             \E e : q = [pod EXCEPT ![f] = e]
      BY <1>2, Zenon DEF Differs
    <2>2. PICK e : q = [pod EXCEPT ![f] = e] BY <2>1, Zenon
    <2>3. f # "annotations" /\ f # "template" BY SMT
    <2>4. \A k \in DOMAIN pod : k # f => q[k] = pod[k] BY <2>2, Zenon
    <2>5. DOMAIN q = DOMAIN pod BY <2>2, Zenon
    <2>6. "annotations" \in DOMAIN pod /\ "template" \in DOMAIN pod BY Zenon DEF IsPod
    <2> QED BY <2>3, <2>4, <2>5, <2>6, Zenon DEF IsPod, SameAnnotations
  <1> QED BY <1>1, <1>2

\* Each part of the deploymentConfig but the annotations changes another field.
LEMMA EveryStep ==
    ASSUME NEW pod, NEW cfg
    PROVE  /\ Differs(ApplyEnvironmentConfig(pod, cfg), pod)
           /\ Differs(ApplyEnvironmentFromConfig(pod, cfg), pod)
           /\ Differs(ApplyVolumeConfig(pod, cfg), pod)
           /\ Differs(ApplyVolumeMountConfig(pod, cfg), pod)
           /\ Differs(ApplyTolerationsConfig(pod, cfg), pod)
           /\ Differs(ApplyResourcesConfig(pod, cfg), pod)
           /\ Differs(ApplyNodeSelectorConfig(pod, cfg), pod)
           /\ Differs(ApplyAffinityConfig(pod, cfg), pod)
  <1>1. ASSUME NEW e
        PROVE  /\ Differs([pod EXCEPT !.containers = e], pod) /\ Differs([pod EXCEPT !.volumes = e], pod)
               /\ Differs([pod EXCEPT !.tolerations = e], pod)
               /\ Differs([pod EXCEPT !.nodeSelector = e], pod)
               /\ Differs([pod EXCEPT !.affinity = e], pod)
    BY Zenon DEF Differs
  <1>2. Differs(pod, pod) BY Zenon DEF Differs
  <1>3. Differs(ApplyEnvironmentConfig(pod, cfg), pod) BY <1>1, Zenon DEF ApplyEnvironmentConfig, InEveryContainer
  <1>4. Differs(ApplyEnvironmentFromConfig(pod, cfg), pod) BY <1>1, Zenon DEF ApplyEnvironmentFromConfig, InEveryContainer
  <1>5. Differs(ApplyVolumeConfig(pod, cfg), pod) BY <1>1, Zenon DEF ApplyVolumeConfig
  <1>6. Differs(ApplyVolumeMountConfig(pod, cfg), pod) BY <1>1, Zenon DEF ApplyVolumeMountConfig, InEveryContainer
  <1>7. Differs(ApplyTolerationsConfig(pod, cfg), pod) BY <1>1, Zenon DEF ApplyTolerationsConfig
  <1>8. Differs(ApplyResourcesConfig(pod, cfg), pod) BY <1>1, <1>2, Zenon DEF ApplyResourcesConfig, InEveryContainer
  <1>9. Differs(ApplyNodeSelectorConfig(pod, cfg), pod) BY <1>1, <1>2, Zenon DEF ApplyNodeSelectorConfig
  <1>10. Differs(ApplyAffinityConfig(pod, cfg), pod) BY <1>1, <1>2, Zenon DEF ApplyAffinityConfig
  <1> QED BY <1>3, <1>4, <1>5, <1>6, <1>7, <1>8, <1>9, <1>10, Zenon

\* What a map over another has.
LEMMA OverFields ==
    ASSUME NEW f, NEW g
    PROVE  /\ \A k \in DOMAIN f : Over(f, g)[k] = f[k]
           /\ \A k \in DOMAIN g \ DOMAIN f : Over(f, g)[k] = g[k]
           /\ DOMAIN Over(f, g) = DOMAIN f \cup DOMAIN g
BY Zenon DEF Over

\* Mounting the certificates leaves the annotations alone.
LEMMA SecuredSame ==
    ASSUME NEW pod, IsPod(pod), NEW secret
    PROVE  LET q == EnsureCorrectDeploymentCertVolumes(pod, secret)
           IN  IsPod(q) /\ SameAnnotations(q, pod)
  <1> DEFINE remove == VolumesToRemove(pod)
             volumes == [i \in DOMAIN CertVolumes |-> [name |-> CertVolumes[i], source |-> secret]]
             mounts == [i \in DOMAIN CertVolumes |->
                           [name |-> CertVolumes[i], path |-> CertPath[CertVolumes[i]]]]
             p == [pod EXCEPT !.volumes = Without(@, remove) \o volumes]
             mounted(c) == [c EXCEPT !.mounts = Without(@, remove) \o mounts]
             q == EnsureCorrectDeploymentCertVolumes(pod, secret)
  <1>1. q = [p EXCEPT !.containers = [i \in DOMAIN p.containers |-> mounted(p.containers[i])]]
    BY Zenon DEF EnsureCorrectDeploymentCertVolumes, InEveryContainer
  <1>2. Differs(p, pod) BY Zenon DEF Differs
  <1>3. IsPod(p) /\ SameAnnotations(p, pod)
    <2> HIDE DEF p
    <2> QED BY <1>2, OtherField, Zenon
  <1> HIDE DEF p, mounted, q
  <1>4. Differs(q, p) BY <1>1, Zenon DEF Differs
  <1>5. IsPod(q) /\ SameAnnotations(q, p) BY <1>3, <1>4, OtherField, Zenon
  <1> QED BY <1>3, <1>5, Zenon DEF q, SameAnnotations

\* Everything ApplyCustomConfigToDeployment does before the annotations leaves them alone.
LEMMA ConfiguredAnnotations ==
    ASSUME NEW pod, IsPod(pod), NEW cfg
    PROVE  LET r == ApplyCustomConfigToDeployment(pod, cfg)
           IN  /\ r.annotations = Over(pod.annotations, cfg.annotations)
               /\ r.template = Over(pod.template, cfg.annotations)
  <1> DEFINE p1 == ApplyEnvironmentConfig(pod, cfg)
             p2 == ApplyEnvironmentFromConfig(p1, cfg)
             p3 == ApplyVolumeConfig(p2, cfg)
             p4 == ApplyVolumeMountConfig(p3, cfg)
             p5 == ApplyTolerationsConfig(p4, cfg)
             p6 == ApplyResourcesConfig(p5, cfg)
             p7 == ApplyNodeSelectorConfig(p6, cfg)
             p8 == ApplyAffinityConfig(p7, cfg)
             r == ApplyCustomConfigToDeployment(pod, cfg)
  <1>1. r = ApplyAnnotationsConfig(p8, cfg) BY Zenon DEF ApplyCustomConfigToDeployment
  <1>2. /\ Differs(p1, pod) /\ Differs(p2, p1) /\ Differs(p3, p2) /\ Differs(p4, p3)
        /\ Differs(p5, p4) /\ Differs(p6, p5) /\ Differs(p7, p6) /\ Differs(p8, p7)
    BY EveryStep, Zenon
  <1> HIDE DEF p1, p2, p3, p4, p5, p6, p7, p8, r
  <1>3. IsPod(p1) /\ SameAnnotations(p1, pod) BY <1>2, OtherField, Zenon
  <1>4. IsPod(p2) /\ SameAnnotations(p2, p1) BY <1>2, <1>3, OtherField, Zenon
  <1>5. IsPod(p3) /\ SameAnnotations(p3, p2) BY <1>2, <1>4, OtherField, Zenon
  <1>6. IsPod(p4) /\ SameAnnotations(p4, p3) BY <1>2, <1>5, OtherField, Zenon
  <1>7. IsPod(p5) /\ SameAnnotations(p5, p4) BY <1>2, <1>6, OtherField, Zenon
  <1>8. IsPod(p6) /\ SameAnnotations(p6, p5) BY <1>2, <1>7, OtherField, Zenon
  <1>9. IsPod(p7) /\ SameAnnotations(p7, p6) BY <1>2, <1>8, OtherField, Zenon
  <1>10. IsPod(p8) /\ SameAnnotations(p8, p7) BY <1>2, <1>9, OtherField, Zenon
  <1>11. p8.annotations = pod.annotations /\ p8.template = pod.template
    BY <1>3, <1>4, <1>5, <1>6, <1>7, <1>8, <1>9, <1>10, Zenon DEF SameAnnotations
  <1>12. /\ r.annotations = Over(p8.annotations, cfg.annotations)
         /\ r.template = Over(p8.template, cfg.annotations)
    <2>1. "annotations" \in DOMAIN p8 /\ "template" \in DOMAIN p8 BY <1>10, Zenon DEF IsPod
    <2>2. \A x, y : LET q == [p8 EXCEPT !.annotations = x, !.template = y]
                    IN  q.annotations = x /\ q.template = y
      BY <2>1, SMT
    <2> QED BY <1>1, <2>2, Zenon DEF ApplyAnnotationsConfig
  <1> QED BY <1>11, <1>12, Zenon DEF r

\* The annotations of a rendered deployment (BundleCSVDeploymentGenerator).
LEMMA TargetsAnnotated ==
    ASSUME NEW pod, IsPod(pod), NEW csv, NEW targets, NEW secret, NEW cfg, NEW r,
           r = BundleCSVDeploymentGenerator(pod, csv, targets, secret, cfg)
    PROVE  /\ r.template["olm.targetNamespaces"] = targets
           /\ \A k \in DOMAIN pod.annotations : r.annotations[k] = pod.annotations[k]
           /\ \A k \in DOMAIN cfg.annotations \ {"olm.targetNamespaces"} :
                 k \notin DOMAIN csv \cup DOMAIN pod.template => r.template[k] = cfg.annotations[k]
  <1> DEFINE watched == [k \in {"olm.targetNamespaces"} |-> targets]
             own == Over(pod.template, csv)
             template == Over(watched, own)
             annotated == [pod EXCEPT !.template = template]
             secured == IF secret = Unset THEN annotated
                        ELSE EnsureCorrectDeploymentCertVolumes(annotated, secret)
  <1>1. r = ApplyCustomConfigToDeployment(secured, cfg)
    BY Zenon DEF BundleCSVDeploymentGenerator
  <1>2. DOMAIN watched = {"olm.targetNamespaces"} /\ watched["olm.targetNamespaces"] = targets
    BY Zenon
  <1> HIDE DEF template
  <1>3. /\ IsPod(annotated)
        /\ annotated.annotations = pod.annotations /\ annotated.template = template
    <2>1. "annotations" \in DOMAIN pod /\ "template" \in DOMAIN pod BY Zenon DEF IsPod
    <2>2. DOMAIN annotated = DOMAIN pod BY Zenon
    <2>3. annotated.annotations = pod.annotations /\ annotated.template = template BY <2>1, SMT
    <2> QED BY <2>2, <2>3, Zenon DEF IsPod
  <1> HIDE DEF annotated, watched, own
  <1>4. /\ IsPod(secured)
        /\ secured.annotations = pod.annotations /\ secured.template = template
    BY <1>3, SecuredSame, Zenon DEF SameAnnotations
  <1> HIDE DEF secured
  <1>5. /\ r.annotations = Over(pod.annotations, cfg.annotations)
        /\ r.template = Over(template, cfg.annotations)
    BY <1>1, <1>4, ConfiguredAnnotations, Zenon
  <1>6. /\ DOMAIN template = DOMAIN watched \cup DOMAIN own
        /\ DOMAIN own = DOMAIN pod.template \cup DOMAIN csv
        /\ \A k \in DOMAIN watched : template[k] = watched[k]
    BY OverFields, Zenon DEF template, own
  <1> DEFINE conf == cfg.annotations
             own1 == pod.annotations
             made == r.template
             made1 == r.annotations
  <1>7. made1 = Over(own1, conf) /\ made = Over(template, conf) BY <1>5, Zenon
  <1> HIDE DEF conf, own1, made, made1
  <1>8. /\ \A k \in DOMAIN own1 : made1[k] = own1[k]
        /\ \A k \in DOMAIN template : made[k] = template[k]
        /\ \A k \in DOMAIN conf \ DOMAIN template : made[k] = conf[k]
    <2>1. \A k \in DOMAIN own1 : Over(own1, conf)[k] = own1[k] BY OverFields, Zenon
    <2>2. \A k \in DOMAIN template : Over(template, conf)[k] = template[k] BY OverFields, Zenon
    <2>3. \A k \in DOMAIN conf \ DOMAIN template : Over(template, conf)[k] = conf[k]
      BY OverFields, Zenon
    <2> QED BY <1>7, <2>1, <2>2, <2>3, Zenon
  <1>9. made["olm.targetNamespaces"] = targets BY <1>2, <1>6, <1>8, Zenon
  <1>10. \A k \in DOMAIN conf \ {"olm.targetNamespaces"} :
           k \notin DOMAIN csv \cup DOMAIN pod.template => made[k] = conf[k]
    BY <1>2, <1>6, <1>8, Zenon
  <1> QED BY <1>8, <1>9, <1>10, Zenon DEF conf, own1, made, made1

(***************************************************************************)
(* Versions and releases                                                   *)
(***************************************************************************)

Segments == Nat \X Nat
\* Two releases at a position, one of which may have no segment there.
CompareAt(r, s, i) ==
    IF i \in DOMAIN r /\ i \in DOMAIN s THEN CompareSegments(r[i], s[i])
    ELSE Sign(IF i \in DOMAIN r THEN 1 ELSE 0, IF i \in DOMAIN s THEN 1 ELSE 0)

\* The segments of a release are ordered (compareSegments).
LEMMA SegmentsOrdered ==
    ASSUME NEW s \in Segments, NEW t \in Segments, NEW u \in Segments
    PROVE  /\ CompareSegments(s, t) \in -1..1
           /\ CompareSegments(s, t) = -CompareSegments(t, s)
           /\ CompareSegments(s, t) = 0 <=> s = t
           /\ (CompareSegments(s, t) <= 0 /\ CompareSegments(t, u) <= 0)
                 => CompareSegments(s, u) <= 0
           /\ (CompareSegments(s, t) <= 0 /\ CompareSegments(t, u) <= 0 /\ (s # t \/ t # u))
                 => CompareSegments(s, u) < 0
  <1>1. s[1] \in Nat /\ s[2] \in Nat /\ t[1] \in Nat /\ t[2] \in Nat /\ u[1] \in Nat /\ u[2] \in Nat
    BY DEF Segments
  <1>2. s = <<s[1], s[2]>> /\ t = <<t[1], t[2]>> /\ u = <<u[1], u[2]>> BY DEF Segments
  <1>3. s = t <=> s[1] = t[1] /\ s[2] = t[2] BY <1>2
  <1>4. t = u <=> t[1] = u[1] /\ t[2] = u[2] BY <1>2
  <1> QED BY <1>1, <1>3, <1>4 DEF CompareSegments, Sign

\* So are two releases at any position.
LEMMA PositionsOrdered ==
    ASSUME NEW r \in Seq(Segments), NEW s \in Seq(Segments), NEW t \in Seq(Segments), NEW i
    PROVE  /\ CompareAt(r, s, i) \in -1..1
           /\ CompareAt(r, s, i) = -CompareAt(s, r, i)
           /\ CompareAt(r, r, i) = 0
           /\ (CompareAt(r, s, i) = 0 /\ CompareAt(s, t, i) = 0) => CompareAt(r, t, i) = 0
           /\ (CompareAt(r, s, i) <= 0 /\ CompareAt(s, t, i) <= 0
                  /\ (CompareAt(r, s, i) # 0 \/ CompareAt(s, t, i) # 0)) => CompareAt(r, t, i) < 0
  <1>1. /\ i \in DOMAIN r => r[i] \in Segments
        /\ i \in DOMAIN s => s[i] \in Segments
        /\ i \in DOMAIN t => t[i] \in Segments
    OBVIOUS
  <1>2. CompareAt(r, r, i) = 0 BY <1>1, SegmentsOrdered DEF CompareAt, Sign
  <1>3. CompareAt(r, s, i) \in -1..1 /\ CompareAt(r, s, i) = -CompareAt(s, r, i)
    BY <1>1, SegmentsOrdered DEF CompareAt, Sign
  <1> DEFINE in(q) == i \in DOMAIN q
             zero == (CompareAt(r, s, i) = 0 /\ CompareAt(s, t, i) = 0) => CompareAt(r, t, i) = 0
             less == (CompareAt(r, s, i) <= 0 /\ CompareAt(s, t, i) <= 0
                         /\ (CompareAt(r, s, i) # 0 \/ CompareAt(s, t, i) # 0)) => CompareAt(r, t, i) < 0
  <1>4. CASE in(r) /\ in(s) /\ in(t)
    <2>1. zero /\ less BY <1>1, <1>4, SegmentsOrdered DEF CompareAt
    <2> QED BY <1>2, <1>3, <2>1
  <1>5. CASE in(r) /\ ~in(s)
    <2>1. CompareAt(r, s, i) = 1 BY <1>5 DEF CompareAt, Sign
    <2> QED BY <1>2, <1>3, <2>1
  <1>6. CASE in(s) /\ ~in(t)
    <2>1. CompareAt(s, t, i) = 1 BY <1>6 DEF CompareAt, Sign
    <2> QED BY <1>2, <1>3, <2>1
  <1>7. CASE ~in(r) /\ in(t)
    <2>1. CompareAt(r, t, i) = -1 BY <1>7 DEF CompareAt, Sign
    <2>2. in(s) => CompareAt(r, s, i) = -1 BY <1>7 DEF CompareAt, Sign
    <2>3. ~in(s) => CompareAt(s, t, i) = -1 BY <1>7 DEF CompareAt, Sign
    <2> QED BY <1>2, <1>3, <2>1, <2>2, <2>3
  <1>8. CASE ~in(r) /\ ~in(s) /\ ~in(t)
    <2>1. CompareAt(r, s, i) = 0 /\ CompareAt(s, t, i) = 0 /\ CompareAt(r, t, i) = 0
      BY <1>8 DEF CompareAt, Sign
    <2> QED BY <1>2, <1>3, <2>1
  <1> QED BY <1>4, <1>5, <1>6, <1>7, <1>8

\* The first position where two releases differ.
FirstDifference(r, s, k) ==
    /\ k \in Nat \ {0} /\ CompareAt(r, s, k) # 0
    /\ \A j \in 1..(k - 1) : CompareAt(r, s, j) = 0

\* Release.Compare answers what the first position where they differ says.
LEMMA CompareReleasesFacts ==
    ASSUME NEW r \in Seq(Segments), NEW s \in Seq(Segments)
    PROVE  \/ r = s /\ CompareReleases(r, s) = 0
           \/ \E k : FirstDifference(r, s, k) /\ CompareReleases(r, s) = CompareAt(r, s, k)
  <1> DEFINE differ == {i \in DOMAIN r \cap DOMAIN s : CompareSegments(r[i], s[i]) # 0}
             first == CHOOSE i \in differ : \A j \in differ : i <= j
  <1>1. CompareReleases(r, s) =
          IF differ = {} THEN Sign(Len(r), Len(s)) ELSE CompareSegments(r[first], s[first])
    BY Zenon DEF CompareReleases
  <1>2. DOMAIN r = 1..Len(r) /\ DOMAIN s = 1..Len(s) /\ Len(r) \in Nat /\ Len(s) \in Nat OBVIOUS
  <1>3. CASE differ # {}
    <2>1. differ \in SUBSET Nat BY <1>2
    <2>2. \E i \in differ : \A j \in differ : i <= j BY <1>3, <2>1, LeastExists, Zenon
    <2>3. first \in differ /\ \A j \in differ : first <= j BY <2>2
    <2>4. CompareReleases(r, s) = CompareSegments(r[first], s[first]) BY <1>1, <1>3
    <2>5. first \in DOMAIN r /\ first \in DOMAIN s /\ CompareSegments(r[first], s[first]) # 0
      BY <2>3
    <2>6. ASSUME NEW j \in 1..(first - 1) PROVE CompareAt(r, s, j) = 0
      <3>1. j \in DOMAIN r /\ j \in DOMAIN s BY <1>2, <2>5
      <3>2. j \notin differ BY <1>2, <2>3, <2>5
      <3> QED BY <3>1, <3>2 DEF CompareAt
    <2> HIDE DEF first
    <2>7. CompareAt(r, s, first) = CompareSegments(r[first], s[first]) BY <2>5 DEF CompareAt
    <2>8. first \in Nat \ {0} BY <1>2, <2>5
    <2> QED BY <2>4, <2>5, <2>6, <2>7, <2>8 DEF FirstDifference
  <1>4. CASE differ = {}
    <2>1. CompareReleases(r, s) = Sign(Len(r), Len(s)) BY <1>1, <1>4
    <2>2. ASSUME NEW j \in DOMAIN r \cap DOMAIN s PROVE r[j] = s[j] /\ CompareAt(r, s, j) = 0
      <3>1. CompareSegments(r[j], s[j]) = 0 BY <1>4
      <3>2. r[j] \in Segments /\ s[j] \in Segments OBVIOUS
      <3> QED BY <3>1, <3>2, SegmentsOrdered DEF CompareAt
    <2>3. CASE Len(r) = Len(s)
      <3>1. r = s BY <1>2, <2>2, <2>3
      <3> QED BY <1>2, <2>1, <2>3, <3>1 DEF Sign
    <2>4. CASE Len(r) < Len(s)
      <3> DEFINE k == Len(r) + 1
      <3>1. CompareAt(r, s, k) = -1 BY <1>2, <2>4 DEF CompareAt, Sign
      <3>2. FirstDifference(r, s, k) BY <1>2, <2>2, <2>4, <3>1 DEF FirstDifference
      <3>3. CompareReleases(r, s) = -1 BY <1>2, <2>1, <2>4 DEF Sign
      <3> QED BY <3>1, <3>2, <3>3
    <2>5. CASE Len(r) > Len(s)
      <3> DEFINE k == Len(s) + 1
      <3>1. CompareAt(r, s, k) = 1 BY <1>2, <2>5 DEF CompareAt, Sign
      <3>2. FirstDifference(r, s, k) BY <1>2, <2>2, <2>5, <3>1 DEF FirstDifference
      <3>3. CompareReleases(r, s) = 1 BY <1>2, <2>1, <2>5 DEF Sign
      <3> QED BY <3>1, <3>2, <3>3
    <2>6. Len(r) = Len(s) \/ Len(r) < Len(s) \/ Len(r) > Len(s)
      <3>1. \A m, n \in Nat : m = n \/ m < n \/ m > n OBVIOUS
      <3> QED BY <1>2, <3>1, Zenon
    <2> QED BY <2>3, <2>4, <2>5, <2>6, Zenon
  <1> QED BY <1>3, <1>4

\* There is one first difference, and the answer is that of it.
LEMMA CompareReleasesAt ==
    ASSUME NEW r \in Seq(Segments), NEW s \in Seq(Segments), NEW k, FirstDifference(r, s, k)
    PROVE  CompareReleases(r, s) = CompareAt(r, s, k) /\ r # s
  <1>1. k \in Nat \ {0} /\ CompareAt(r, s, k) # 0 BY DEF FirstDifference
  <1>2. r # s BY <1>1, PositionsOrdered
  <1>3. PICK h : FirstDifference(r, s, h) /\ CompareReleases(r, s) = CompareAt(r, s, h)
    BY <1>2, CompareReleasesFacts
  <1>4. h = k
    <2>1. h \in Nat \ {0} /\ CompareAt(r, s, h) # 0 BY <1>3 DEF FirstDifference
    <2>2. ~(h < k)
      <3> SUFFICES ASSUME h < k PROVE FALSE OBVIOUS
      <3>1. h \in 1..(k - 1) BY <1>1, <2>1
      <3> QED BY <2>1, <3>1 DEF FirstDifference
    <2>3. ~(k < h)
      <3> SUFFICES ASSUME k < h PROVE FALSE OBVIOUS
      <3>1. k \in 1..(h - 1) BY <1>1, <2>1
      <3> QED BY <1>1, <1>3, <3>1 DEF FirstDifference
    <2> QED BY <1>1, <2>1, <2>2, <2>3
  <1> QED BY <1>2, <1>3, <1>4

\* Release.Compare is a total order.
LEMMA ReleasesOrdered ==
    ASSUME NEW r \in Seq(Segments), NEW s \in Seq(Segments), NEW t \in Seq(Segments)
    PROVE  /\ CompareReleases(r, s) \in -1..1
           /\ CompareReleases(r, s) = -CompareReleases(s, r)
           /\ CompareReleases(r, s) = 0 <=> r = s
           /\ (CompareReleases(r, s) <= 0 /\ CompareReleases(s, t) <= 0) => CompareReleases(r, t) <= 0
  <1>1. ASSUME NEW q \in Seq(Segments) PROVE CompareReleases(q, q) = 0
    BY CompareReleasesFacts, CompareReleasesAt
  <1>2. ASSUME NEW p \in Seq(Segments), NEW q \in Seq(Segments), p # q
        PROVE  \E k : /\ FirstDifference(p, q, k) /\ FirstDifference(q, p, k)
                      /\ CompareReleases(p, q) = CompareAt(p, q, k)
                      /\ CompareReleases(q, p) = CompareAt(q, p, k)
                      /\ CompareAt(p, q, k) = -CompareAt(q, p, k) /\ CompareAt(p, q, k) \in {-1, 1}
    <2>1. PICK k : FirstDifference(p, q, k) /\ CompareReleases(p, q) = CompareAt(p, q, k)
      BY <1>2, CompareReleasesFacts
    <2>2. \A j : CompareAt(p, q, j) = -CompareAt(q, p, j) /\ CompareAt(p, q, j) \in -1..1
                    /\ CompareAt(q, p, j) \in -1..1
      BY PositionsOrdered
    <2>3. FirstDifference(q, p, k)
      <3>1. k \in Nat \ {0} /\ CompareAt(p, q, k) # 0 /\ \A j \in 1..(k - 1) : CompareAt(p, q, j) = 0
        BY <2>1 DEF FirstDifference
      <3>2. CompareAt(q, p, k) # 0 BY <2>2, <3>1
      <3>3. ASSUME NEW j \in 1..(k - 1) PROVE CompareAt(q, p, j) = 0 BY <2>2, <3>1
      <3> QED BY <3>1, <3>2, <3>3 DEF FirstDifference
    <2>4. CompareReleases(q, p) = CompareAt(q, p, k) BY <2>3, CompareReleasesAt
    <2>5. CompareAt(p, q, k) \in {-1, 1} BY <2>1, <2>2 DEF FirstDifference
    <2> QED BY <2>1, <2>2, <2>3, <2>4, <2>5
  <1>3. CASE r = s \/ s = t BY <1>1, <1>2, <1>3
  <1>4. CASE r # s /\ s # t
    <2>1. PICK k : /\ FirstDifference(r, s, k) /\ CompareReleases(r, s) = CompareAt(r, s, k)
                   /\ CompareReleases(s, r) = CompareAt(s, r, k)
                   /\ CompareAt(r, s, k) = -CompareAt(s, r, k) /\ CompareAt(r, s, k) \in {-1, 1}
      BY <1>2, <1>4
    <2>2. PICK h : /\ FirstDifference(s, t, h) /\ CompareReleases(s, t) = CompareAt(s, t, h)
                   /\ CompareAt(s, t, h) \in {-1, 1}
      BY <1>2, <1>4
    <2>3. ASSUME CompareReleases(r, s) <= 0, CompareReleases(s, t) <= 0
          PROVE  CompareReleases(r, t) <= 0
      <3>1. k \in Nat \ {0} /\ h \in Nat \ {0} BY <2>1, <2>2 DEF FirstDifference
      <3>2. CompareAt(r, s, k) = -1 /\ CompareAt(s, t, h) = -1 BY <2>1, <2>2, <2>3
      <3>3. PICK m \in Nat \ {0} : m <= k /\ m <= h /\ (m = k \/ m = h) BY <3>1
      <3>4. ASSUME NEW j \in 1..(m - 1) PROVE CompareAt(r, t, j) = 0
        <4>1. j \in 1..(k - 1) /\ j \in 1..(h - 1) BY <3>1, <3>3
        <4>2. CompareAt(r, s, j) = 0 /\ CompareAt(s, t, j) = 0 BY <2>1, <2>2, <4>1 DEF FirstDifference
        <4> QED BY <4>2, PositionsOrdered
      <3>5. CompareAt(r, s, m) = IF m = k THEN -1 ELSE 0
        BY <2>1, <3>1, <3>2, <3>3 DEF FirstDifference
      <3>6. CompareAt(s, t, m) = IF m = h THEN -1 ELSE 0
        BY <2>2, <3>1, <3>2, <3>3 DEF FirstDifference
      <3>7. CompareAt(r, t, m) < 0 /\ CompareAt(r, t, m) \in -1..1
        BY <3>3, <3>5, <3>6, PositionsOrdered
      <3>8. FirstDifference(r, t, m) BY <3>4, <3>7 DEF FirstDifference
      <3> QED BY <3>7, <3>8, CompareReleasesAt
    <2> QED BY <1>4, <2>1, <2>3
  <1> QED BY <1>3, <1>4

\* VersionRelease.Compare is a total order of versions and releases.
LEMMA CompareOrdered ==
    ASSUME NEW x, NEW y, NEW z,
           IsVersionRelease(x), IsVersionRelease(y), IsVersionRelease(z)
    PROVE  /\ Compare(x, y) \in -1..1
           /\ Compare(x, y) = -Compare(y, x)
           /\ Compare(x, y) = 0 <=> x.version = y.version /\ x.release = y.release
           /\ (Compare(x, y) <= 0 /\ Compare(y, z) <= 0) => Compare(x, z) <= 0
  <1>1. /\ x.version \in Nat /\ y.version \in Nat /\ z.version \in Nat
        /\ x.release \in Seq(Segments) /\ y.release \in Seq(Segments) /\ z.release \in Seq(Segments)
    BY DEF IsVersionRelease, Segments
  <1>2. /\ CompareReleases(x.release, y.release) \in -1..1
        /\ CompareReleases(x.release, y.release) = -CompareReleases(y.release, x.release)
        /\ CompareReleases(x.release, y.release) = 0 <=> x.release = y.release
        /\ (CompareReleases(x.release, y.release) <= 0 /\ CompareReleases(y.release, z.release) <= 0)
              => CompareReleases(x.release, z.release) <= 0
    BY <1>1, ReleasesOrdered
  <1> QED BY <1>1, <1>2 DEF Compare, Sign

\* A VersionRelease written as a version string is read back as it was.
LEMMA LegacyRoundTrip ==
    ASSUME NEW x, IsVersionRelease(x)
    PROVE  LET legacy == AsLegacyRegistryV1Version(x)
           IN  NewLegacyRegistryV1VersionRelease(legacy.version, legacy.build) = x
  <1>1. /\ x = [version |-> x.version, build |-> x.build, release |-> x.release]
        /\ IsRelease(x.release) /\ IsRelease(<<>>)
        /\ x.build = <<>> \/ (x.release = <<>> /\ ~IsRelease(x.build))
    BY DEF IsVersionRelease, Segments, IsRelease
  <1>2. CASE x.release # <<>>
    <2>1. x.build = <<>> BY <1>1, <1>2
    <2> QED BY <1>1, <1>2, <2>1 DEF AsLegacyRegistryV1Version, NewLegacyRegistryV1VersionRelease
  <1>3. CASE x.release = <<>> /\ x.build = <<>>
    BY <1>1, <1>3 DEF AsLegacyRegistryV1Version, NewLegacyRegistryV1VersionRelease
  <1>4. CASE x.release = <<>> /\ ~IsRelease(x.build)
    BY <1>1, <1>4 DEF AsLegacyRegistryV1Version, NewLegacyRegistryV1VersionRelease
  <1> QED BY <1>1, <1>2, <1>3, <1>4

(***************************************************************************)
(* Conditional requests for catalogd's metas                               *)
(***************************************************************************)

\* Truncated to whole seconds, a time is at most another exactly if its second is.
LEMMA TruncateFacts ==
    ASSUME NEW m \in Nat, NEW t \in Nat
    PROVE  Truncate(m) <= t <=> ~(m \div 2 > t \div 2)
  BY DEF Truncate

\* A request that the handler serves from the file of a catalog.
Served(r, file) ==
    r.method \in {"GET", "HEAD"} /\ ~r.otherParams /\ file.error = ""
\* An If-Modified-Since that is looked at and does not parse.
Garbled(r, file) == r.ifNoneMatch = "" /\ r.ifModifiedSince = Bad /\ file.modtime # 0

\* The status the handler answers a well-formed request for an existing catalog with.
LEMMA MetasStatus ==
    ASSUME NEW r, NEW file, IsConditional(r, file), Served(r, file)
    PROVE  /\ CheckPreconditions(r, file.modtime) = 0
                => HandleV1Metas(r, file).status = IF Garbled(r, file) THEN 500 ELSE 200
           /\ CheckPreconditions(r, file.modtime) # 0
                => HandleV1Metas(r, file).status = CheckPreconditions(r, file.modtime)
  <1> DEFINE code == CheckPreconditions(r, file.modtime)
             body == IF r.query = [schema |-> "", package |-> "", name |-> ""] THEN WholeFile(file.metas)
                     ELSE IndexGet(NewIndex(file.metas), r.query)
             served == ServeJSONLines(r, file.modtime, body)
             bad == r.method \notin {"GET", "HEAD"}
             params == r.method \in {"GET", "HEAD"} /\ r.otherParams
             gone == r.method \in {"GET", "HEAD"} /\ ~r.otherParams /\ file.error # ""
             ended == r.method \in {"GET", "HEAD"} /\ ~r.otherParams /\ file.error = "" /\ code # 0
  <1>0. r.method \in {"GET", "HEAD"} /\ ~r.otherParams /\ file.error = ""
    BY Zenon DEF Served
  <1>1. HandleV1Metas(r, file) =
          CASE bad -> [status |-> 405, body |-> NoBody]
            [] params -> [status |-> HttpError("invalidParams"), body |-> NoBody]
            [] gone -> [status |-> HttpError(file.error), body |-> NoBody]
            [] ended -> [status |-> code, body |-> NoBody]
            [] OTHER -> served
    BY Zenon DEF HandleV1Metas
  <1>2. ~bad /\ ~params /\ ~gone /\ (ended <=> code # 0) BY <1>0, Zenon
  <1>3. served.status = IF Garbled(r, file) THEN 500 ELSE 200
    <2>1. (CheckIfNoneMatch(r) = "none" /\ CheckIfModifiedSince(r, file.modtime) = "error")
            <=> Garbled(r, file)
      <3>1. CheckIfNoneMatch(r) = "none" <=> r.ifNoneMatch = ""
        BY Zenon DEF CheckIfNoneMatch, IsConditional
      <3>2. CheckIfModifiedSince(r, file.modtime) = "error"
              <=> r.ifModifiedSince = Bad /\ file.modtime # 0
        <4>1. Bad # Absent BY DEF Bad, Absent
        <4> QED BY <4>1 DEF CheckIfModifiedSince
      <3> QED BY <3>1, <3>2, Zenon DEF Garbled
    <2>2. served.status = IF CheckIfNoneMatch(r) = "none" /\ CheckIfModifiedSince(r, file.modtime) = "error"
                          THEN 500 ELSE 200
      <3> HIDE DEF body
      <3> QED BY Zenon DEF ServeJSONLines
    <2> QED BY <2>1, <2>2, Zenon
  <1> HIDE DEF served, code, bad, params, gone, ended
  <1>4. CASE code = 0
    <2>1. HandleV1Metas(r, file) = served BY <1>1, <1>2, <1>4, Zenon
    <2>2. HandleV1Metas(r, file).status = IF Garbled(r, file) THEN 500 ELSE 200 BY <1>3, <2>1, Zenon
    <2>3. CheckPreconditions(r, file.modtime) = 0 BY <1>4, Zenon DEF code
    <2> QED BY <2>2, <2>3, Zenon
  <1>5. CASE code # 0
    <2>1. HandleV1Metas(r, file) = [status |-> code, body |-> NoBody] BY <1>1, <1>2, <1>5, Zenon
    <2> HIDE DEF body
    <2>a. [status |-> code, body |-> NoBody].status = code BY Zenon
    <2>2. HandleV1Metas(r, file).status = code BY <2>1, <2>a, Zenon
    <2>3. CheckPreconditions(r, file.modtime) = code BY Zenon DEF code
    <2> QED BY <1>5, <2>2, <2>3, Zenon
  <1> QED BY <1>4, <1>5, Zenon

\* What RFC 7232 lets fail a request, and what lets it be answered as not modified.
RequestFails(r, file) ==
    LET dated == file.modtime # 0
        after(t) == file.modtime \div 2 > t \div 2
    IN  \/ r.ifMatch = "tags"
        \/ r.ifMatch = "" /\ r.ifUnmodifiedSince >= 0 /\ dated /\ after(r.ifUnmodifiedSince)
NotModified(r, file) ==
    LET dated == file.modtime # 0
        after(t) == file.modtime \div 2 > t \div 2
    IN  \/ r.ifNoneMatch = "*"
        \/ r.ifNoneMatch = "" /\ r.ifModifiedSince >= 0 /\ dated /\ ~after(r.ifModifiedSince)
StatusByRFC(r, file) ==
    IF RequestFails(r, file) THEN 412 ELSE IF NotModified(r, file) THEN 304
    ELSE IF Garbled(r, file) THEN 500 ELSE 200

\* Conditions are evaluated in the order of RFC 7232 (checkPreconditions).
LEMMA PreconditionsOrder ==
    ASSUME NEW r, NEW file, IsConditional(r, file)
    PROVE  CheckPreconditions(r, file.modtime)
             = IF RequestFails(r, file) THEN 412 ELSE IF NotModified(r, file) THEN 304 ELSE 0
  <1> DEFINE modtime == file.modtime
             dated == modtime # 0
             after(t) == modtime \div 2 > t \div 2
             failed == \/ r.ifMatch = "tags"
                       \/ r.ifMatch = "" /\ r.ifUnmodifiedSince >= 0 /\ dated /\ after(r.ifUnmodifiedSince)
             same == \/ r.ifNoneMatch = "*"
                     \/ r.ifNoneMatch = "" /\ r.ifModifiedSince >= 0 /\ dated /\ ~after(r.ifModifiedSince)
             ch == IF CheckIfMatch(r) = "none" THEN CheckIfUnmodifiedSince(r, modtime) ELSE CheckIfMatch(r)
             unmodified == CheckIfModifiedSince(r, modtime) = "false"
  <1>1. modtime \in Nat BY Zenon DEF IsConditional
  <1>2. /\ CheckIfMatch(r) = "none" <=> r.ifMatch = ""
        /\ CheckIfMatch(r) = "false" <=> r.ifMatch = "tags"
    BY Zenon DEF CheckIfMatch, IsConditional
  <1>3. /\ CheckIfNoneMatch(r) = "none" <=> r.ifNoneMatch = ""
        /\ CheckIfNoneMatch(r) = "false" <=> r.ifNoneMatch = "*"
    BY Zenon DEF CheckIfNoneMatch, IsConditional
  <1>4. CheckIfUnmodifiedSince(r, modtime) = "false"
          <=> r.ifUnmodifiedSince >= 0 /\ dated /\ after(r.ifUnmodifiedSince)
    <2>1. CASE r.ifUnmodifiedSince \in {Absent, Bad}
      BY <2>1 DEF CheckIfUnmodifiedSince, Absent, Bad
    <2>2. CASE r.ifUnmodifiedSince \in Nat
      <3>1. r.ifUnmodifiedSince \notin {Absent, Bad} /\ r.ifUnmodifiedSince >= 0 BY <2>2 DEF Absent, Bad
      <3>2. Truncate(modtime) <= r.ifUnmodifiedSince <=> ~after(r.ifUnmodifiedSince)
        BY <1>1, <2>2, TruncateFacts
      <3> QED BY <3>1, <3>2 DEF CheckIfUnmodifiedSince
    <2> QED BY <2>1, <2>2, Zenon DEF IsConditional
  <1>5. unmodified <=> r.ifModifiedSince >= 0 /\ dated /\ ~after(r.ifModifiedSince)
    <2>1. CASE r.ifModifiedSince = Absent
      BY <2>1 DEF CheckIfModifiedSince, Absent
    <2>0. CASE r.ifModifiedSince = Bad
      <3>1. r.ifModifiedSince # Absent /\ ~(r.ifModifiedSince >= 0) BY <2>0 DEF Absent, Bad
      <3>2. CASE ~dated BY <3>2 DEF CheckIfModifiedSince
      <3>3. CASE dated
        <4>1. CheckIfModifiedSince(r, modtime) = "error"
          BY <2>0, <3>1, <3>3, Zenon DEF CheckIfModifiedSince
        <4> QED BY <3>1, <4>1
      <3> QED BY <3>1, <3>2, <3>3
    <2>2. CASE r.ifModifiedSince \in Nat
      <3>1. r.ifModifiedSince \notin {Absent, Bad} /\ r.ifModifiedSince >= 0 BY <2>2 DEF Absent, Bad
      <3>2. Truncate(modtime) <= r.ifModifiedSince <=> ~after(r.ifModifiedSince)
        BY <1>1, <2>2, TruncateFacts
      <3>3. CASE ~dated BY <3>3 DEF CheckIfModifiedSince
      <3>4. CASE dated
        <4>1. CheckIfModifiedSince(r, modtime)
                = IF Truncate(modtime) <= r.ifModifiedSince THEN "false" ELSE "true"
          BY <3>1, <3>4, Zenon DEF CheckIfModifiedSince
        <4> QED BY <3>1, <3>2, <3>4, <4>1
      <3> QED BY <3>3, <3>4
    <2> QED BY <2>0, <2>1, <2>2, Zenon DEF IsConditional
  <1>6. ch = "false" <=> failed BY <1>2, <1>4, Zenon
  <1>7. (CheckIfNoneMatch(r) = "false" \/ (CheckIfNoneMatch(r) = "none" /\ unmodified)) <=> same
    BY <1>3, <1>5, Zenon
  <1>8. CheckPreconditions(r, modtime) =
          CASE ch = "false" -> 412
            [] ch # "false" /\ CheckIfNoneMatch(r) = "false" -> 304
            [] ch # "false" /\ CheckIfNoneMatch(r) = "none" /\ unmodified -> 304
            [] OTHER -> 0
    BY Zenon DEF CheckPreconditions
  <1> HIDE DEF ch, unmodified, failed, same
  <1>9. CheckPreconditions(r, modtime) = IF failed THEN 412 ELSE IF same THEN 304 ELSE 0
    <2>1. CASE failed BY <1>6, <1>8, <2>1, Zenon
    <2>2. CASE ~failed /\ CheckIfNoneMatch(r) = "false" BY <1>6, <1>7, <1>8, <2>2
    <2>3. CASE ~failed /\ CheckIfNoneMatch(r) = "none" /\ unmodified BY <1>6, <1>7, <1>8, <2>3
    <2>4. CASE ~failed /\ ~same BY <1>6, <1>7, <1>8, <2>4, Zenon
    <2> QED BY <1>7, <2>1, <2>2, <2>3, <2>4
  <1>10. (failed <=> RequestFails(r, file)) /\ (same <=> NotModified(r, file))
    BY Zenon DEF failed, same, RequestFails, NotModified
  <1> QED BY <1>9, <1>10, Zenon

\* The handler answers a well-formed request for an existing catalog as RFC 7232 says, but
\* for an If-Modified-Since it cannot read.
LEMMA MetasFollowRFC ==
    ASSUME NEW r, NEW file, IsConditional(r, file), Served(r, file)
    PROVE  HandleV1Metas(r, file).status = StatusByRFC(r, file)
  <1>1. CheckPreconditions(r, file.modtime)
          = IF RequestFails(r, file) THEN 412 ELSE IF NotModified(r, file) THEN 304 ELSE 0
    BY PreconditionsOrder, SMT
  <1> QED BY <1>1, MetasStatus, SMT DEF StatusByRFC

(***************************************************************************)
(* The file of pull secrets, for any secrets and any number of changes     *)
(***************************************************************************)

\* Listing a finite set lists members of it.
LEMMA SetToSeqListed == ASSUME NEW S, IsFiniteSet(S) PROVE SetToSeq(S) \in Seq(S)
  <1> DEFINE n == Cardinality(S)
             f == SetToSeq(S)
  <1>1. n \in Nat /\ ExistsBijection(1..n, S) BY FS_CardinalityType
  <1>2. \E g \in [1..n -> S] : IsInjective(g) BY <1>1 DEF ExistsBijection, Bijection, Injection, IsInjective
  <1>3. f \in [1..n -> S] BY <1>2 DEF SetToSeq
  <1> HIDE DEF f, n
  <1> QED BY <1>1, <1>3 DEF f

Found == Seq(Contents \ {Missing})

\* What is left in the file is a secret's credentials, nothing, or as it was.
LEMMA WriteAuthFileType ==
    ASSUME NEW found \in Found, authFile \in Credentials \union {Missing, "empty"}
    PROVE  WriteAuthFile(found) \in Credentials \union {Missing, "empty"}
  <1> DEFINE holding == {i \in DOMAIN found : found[i] # Unknown}
  <1>1. CASE found = <<>> BY <1>1 DEF WriteAuthFile
  <1>2. CASE found # <<>> /\ Contains(found, Malformed) BY <1>2 DEF WriteAuthFile
  <1>3. CASE found # <<>> /\ ~Contains(found, Malformed) /\ holding = {}
    BY <1>3 DEF WriteAuthFile, MergeAuths
  <1>4. CASE found # <<>> /\ ~Contains(found, Malformed) /\ holding # {}
    <2>1. WriteAuthFile(found) = found[Max(holding)] BY <1>4 DEF WriteAuthFile, MergeAuths
    <2>2. Len(found) \in Nat /\ DOMAIN found = 1..Len(found) BY DEF Found
    <2>3. holding \in SUBSET (1..Len(found)) BY <2>2
    <2>4. Max(holding) \in holding BY <1>4, <2>2, <2>3, GreatestIn, Zenon
    <2>5. Max(holding) \in 1..Len(found) /\ found[Max(holding)] # Unknown BY <2>2, <2>4
    <2> HIDE DEF holding
    <2>6. found[Max(holding)] \in Contents \ {Missing} BY <2>2, <2>5 DEF Found
    <2>7. found[Max(holding)] # Malformed BY <1>4, <2>5 DEF Contains
    <2> QED BY <2>1, <2>5, <2>6, <2>7 DEF Contents
  <1> QED BY <1>1, <1>2, <1>3, <1>4

Workers == [pc: {"idle", "account", "secrets", "write"}, todo: Seq(AccountSecrets),
            listed: SUBSET AccountSecrets, found: Found]

LEMMA WithSecretType ==
    ASSUME SecretsTypeOK, NEW found \in Found, NEW n \in SecretNames
    PROVE  WithSecret(found, n) \in Found
  <1>1. secrets[n] \in Contents BY DEF SecretsTypeOK
  <1> QED BY <1>1 DEF WithSecret, Found

LEMMA SecretsTypeInit == SecretsInit => SecretsTypeOK
  <1> SUFFICES ASSUME SecretsInit PROVE SecretsTypeOK OBVIOUS
  <1>1. secrets \in [SecretNames -> Contents] BY DEF SecretsInit, Contents
  <1>2. pullers \in Seq(AccountSecrets) BY SecretsAssumption, SetToSeqListed DEF SecretsInit
  <1>3. worker \in [Controllers -> Workers] BY DEF SecretsInit, Resting, Workers, Found
  <1>4. secretChanges \in 0..MaxSecretChanges BY SecretsAssumption DEF SecretsInit
  <1>5. events \subseteq SecretNames \union {Account} BY DEF SecretsInit
  <1> QED BY <1>1, <1>2, <1>3, <1>4, <1>5 DEF SecretsInit, SecretsTypeOK, Workers, Found

LEMMA SecretsTypeNext == SecretsTypeOK /\ [SecretsNext]_secretVars => SecretsTypeOK'
  <1> SUFFICES ASSUME SecretsTypeOK, [SecretsNext]_secretVars PROVE SecretsTypeOK' OBVIOUS
  <1>1. worker \in [Controllers -> Workers] BY DEF SecretsTypeOK, Workers, Found
  <1>2. ASSUME worker' \in [Controllers -> Workers], known' \in SUBSET AccountSecrets,
               queued' \in SUBSET Controllers, authFile' \in Credentials \union {Missing, "empty"},
               UNCHANGED <<secrets, pullers, events, secretChanges>>
        PROVE  SecretsTypeOK'
    BY <1>2 DEF SecretsTypeOK, Workers, Found
  <1>3. ASSUME NEW c \in Controllers, SecretReconcileStep(c) PROVE SecretsTypeOK'
    <2>1. worker[c] \in Workers BY <1>1
    <2>2. CASE StartReconcile(c)
      <3>1. WithSecret(<<>>, Configured) \in Found
        <4>1. <<>> \in Found /\ Configured \in SecretNames BY DEF Found, SecretNames
        <4> QED BY <4>1, WithSecretType
      <3>2. [Resting EXCEPT !.pc = "account", !.found = WithSecret(<<>>, Configured)] \in Workers
        <4>1. ASSUME NEW f \in Found
              PROVE  [Resting EXCEPT !.pc = "account", !.found = f] \in Workers
          <5>1. Resting \in Workers BY DEF Resting, Workers, Found
          <5> QED BY <5>1, Zenon DEF Workers
        <4> QED BY <3>1, <4>1, Zenon
      <3>3. worker' \in [Controllers -> Workers] BY <1>1, <2>2, <3>2 DEF StartReconcile
      <3> QED BY <1>2, <2>2, <3>3 DEF StartReconcile, SecretsTypeOK
    <2>3. CASE GetServiceAccount(c)
      <3>1. ASSUME pullers # NoAccount PROVE pullers \in Seq(AccountSecrets) /\ ToSet(pullers) \in SUBSET AccountSecrets
        <4>1. pullers \in Seq(AccountSecrets) BY <3>1 DEF SecretsTypeOK
        <4> QED BY <4>1 DEF ToSet
      <3> DEFINE next == IF pullers = NoAccount THEN [worker[c] EXCEPT !.pc = "write"]
                         ELSE [worker[c] EXCEPT !.pc = "secrets", !.todo = pullers, !.listed = ToSet(pullers)]
      <3>2. next \in Workers BY <2>1, <3>1, Zenon DEF Workers
      <3>3. worker' = [worker EXCEPT ![c] = next] BY <2>3 DEF GetServiceAccount
      <3> HIDE DEF next
      <3>4. worker' \in [Controllers -> Workers] BY <1>1, <3>2, <3>3
      <3> QED BY <1>2, <2>3, <3>4 DEF GetServiceAccount, SecretsTypeOK
    <2>4. CASE GetPullSecret(c)
      <3> DEFINE next == [worker[c] EXCEPT !.todo = Tail(worker[c].todo),
                                           !.found = WithSecret(worker[c].found, Head(worker[c].todo))]
      <3>1. worker[c].todo \in Seq(AccountSecrets) /\ worker[c].todo # <<>> /\ worker[c].found \in Found
        BY <2>1, <2>4 DEF GetPullSecret, Workers
      <3>2. Head(worker[c].todo) \in SecretNames /\ Tail(worker[c].todo) \in Seq(AccountSecrets)
        BY <3>1 DEF SecretNames
      <3>3. WithSecret(worker[c].found, Head(worker[c].todo)) \in Found BY <3>1, <3>2, WithSecretType
      <3>4. next \in Workers BY <2>1, <3>2, <3>3, Zenon DEF Workers
      <3>5. worker' = [worker EXCEPT ![c] = next] BY <1>1, <2>1, <2>4, Zenon DEF GetPullSecret, Workers
      <3> HIDE DEF next
      <3>6. worker' \in [Controllers -> Workers] BY <1>1, <3>4, <3>5
      <3> QED BY <1>2, <2>4, <3>6 DEF GetPullSecret, SecretsTypeOK
    <2>5. CASE UpdateList(c)
      <3>1. worker' \in [Controllers -> Workers] BY <1>1, <2>1, <2>5 DEF UpdateList, Workers
      <3>2. known' \in SUBSET AccountSecrets BY <2>1, <2>5 DEF UpdateList, Workers
      <3> QED BY <1>2, <2>5, <3>1, <3>2 DEF UpdateList, SecretsTypeOK
    <2>6. CASE WriteSecretToFile(c)
      <3>1. worker[c].found \in Found BY <2>1 DEF Workers
      <3>2. authFile' \in Credentials \union {Missing, "empty"}
        BY <2>6, <3>1, WriteAuthFileType DEF WriteSecretToFile, SecretsTypeOK
      <3>3. Resting \in Workers BY DEF Resting, Workers, Found
      <3>4. worker' \in [Controllers -> Workers] BY <1>1, <2>6, <3>3 DEF WriteSecretToFile
      <3> QED BY <1>2, <2>6, <3>2, <3>4 DEF WriteSecretToFile, SecretsTypeOK
    <2> QED BY <1>3, <2>2, <2>3, <2>4, <2>5, <2>6 DEF SecretReconcileStep
  <1>4. CASE UNCHANGED secretVars BY <1>4 DEF secretVars, SecretsTypeOK
  <1>5. CASE HandleAccountEvent BY <1>5 DEF HandleAccountEvent, SecretsTypeOK, Controllers
  <1>6. ASSUME NEW n \in SecretNames, HandleSecretEvent(n) PROVE SecretsTypeOK'
    <2>1. queued' \subseteq Controllers
      BY <1>6 DEF HandleSecretEvent, SecretsTypeOK, Controllers
    <2> QED BY <1>6, <2>1 DEF HandleSecretEvent, SecretsTypeOK
  <1>7. CASE ResyncSecrets BY <1>7 DEF ResyncSecrets, SecretsTypeOK
  <1>8. ASSUME NEW n \in SecretNames, NEW content \in Contents, ChangeSecret(n, content)
        PROVE  SecretsTypeOK'
    BY <1>8, SecretsAssumption DEF ChangeSecret, SecretChange, SecretsTypeOK
  <1>9. ASSUME NEW names, names = NoAccount \/ names \in Seq(AccountSecrets), ChangeAccount(names)
        PROVE  SecretsTypeOK'
    BY <1>9, SecretsAssumption DEF ChangeAccount, SecretChange, SecretsTypeOK
  <1>10. ASSUME NEW s \in SUBSET AccountSecrets PROVE SetToSeq(s) \in Seq(AccountSecrets)
    <2>1. IsFiniteSet(s) BY SecretsAssumption, FS_Subset
    <2>2. SetToSeq(s) \in Seq(s) BY <2>1, SetToSeqListed
    <2>3. \A q : q \in Seq(s) => q \in Seq(AccountSecrets) OBVIOUS
    <2> QED BY <2>2, <2>3
  <1> QED BY <1>3, <1>4, <1>5, <1>6, <1>7, <1>8, <1>9, <1>10, Zenon DEF SecretsNext, HandleEvent, UserChange

\* The pull secrets' controllers are well typed: what is written to the auth file is the
\* content of a secret or empty, never a secret that is gone (writeSecretToFile).
THEOREM SecretsTypeCorrect == SecretsSpec => []SecretsTypeOK
  BY SecretsTypeInit, SecretsTypeNext, PTL DEF SecretsSpec
=============================================================================
