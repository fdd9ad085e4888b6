------------------------- MODULE MCClusterObjectSet -------------------------
(* Instances of ClusterObjectSet for TLC. *)
EXTENDS ClusterObjectSet

\* The probed deployment dep is in both revisions, the object old is in an
\* earlier phase of revision 1 and is dropped by revision 2.
CONSTANTS dep, old

MCObjects == {dep, old}
MCPhases == << <<{old}, {dep}>>, <<{dep}>> >>
MCKind == [o \in MCObjects |-> IF o = dep THEN "Deployment" ELSE "ConfigMap"]
MCProbed == {dep}
=============================================================================
