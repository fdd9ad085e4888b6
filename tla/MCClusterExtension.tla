------------------------- MODULE MCClusterExtension -------------------------
(* Instances of ClusterExtension for TLC. *)
EXTENDS ClusterExtension

\* Three bundles; 1 is deprecated and can be upgraded to 2 or 3, 2 to 3.
MCBundles == 1..3
MCSuccessors == <<{2, 3}, {3}, {}>>
MCDeprecated == {1}

AnyVersion == [want |-> None, valid |-> TRUE]
Version(b) == [want |-> b, valid |-> TRUE]
Misconfigured == [want |-> None, valid |-> FALSE]

Serving(B) == [state |-> "serving", bundles |-> B]
Failing(B) == [state |-> "failing", bundles |-> B]
Gone == [state |-> "gone", bundles |-> {}]

\* Any version, a pinned one, or a configuration that is invalid.
MCSpecs == {AnyVersion, Version(2), Misconfigured}
LatestVersion == {AnyVersion}
\* The catalog gains bundle 2, fails or is deleted.
MCCatalogs == {Serving({1}), Serving({1, 2}), Failing({1, 2}), Gone}
OneBundle == {Serving({1})}

\* A catalog with all bundles; users move between the pinned versions.
FullCatalog == {Serving(MCBundles)}
PinnedSpecs == {Version(b) : b \in MCBundles}

\* Either the catalog changes under a valid configuration, or users change the
\* configuration or delete the extension while the catalog stays as it is.  A
\* revision reports that it retries before anything else has changed or failed.
OneChangeInit == Init /\ (ext.spec \in LatestVersion \/ catalog \in OneBundle)
OneChangeNext ==
    \/ Controller
    \/ /\ Environment
       /\ changes' + catalogChanges' <= 1
       /\ ext'.spec \in LatestVersion \/ catalog' \in OneBundle
       /\ \/ faults + changes + catalogChanges = 0
          \/ \A r \in Numbers : revs'[r].prog = "Retrying" => revs'[r] = revs[r]
OneChangeSpec == OneChangeInit /\ [][OneChangeNext]_vars /\ Fairness
=============================================================================
