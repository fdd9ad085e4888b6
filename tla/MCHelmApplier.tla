--------------------------- MODULE MCHelmApplier ---------------------------
(* An instance of HelmApplier for TLC: three bundles, of which the last two  *)
(* have a CRD that cannot go back to the first one's.                        *)
EXTENDS HelmApplier, TLC

MCBundles == {"v1", "v2", "v3"}
MCCrdOf == ("v1" :> "c1") @@ ("v2" :> "c2") @@ ("v3" :> "c2")
MCBreaks == {<<"c2", "c1">>}
=============================================================================
