----------------------------- MODULE MCCatalogd -----------------------------
(* Instances of Catalogd for TLC. *)
EXTENDS Catalogd

CONSTANTS c1, d1, d2, d3
MCCatalogs == {c1}
\* Two catalog images, so that one replaces the other, and one that is not.
ThreeDigests == {d1, d2, d3}
MCUnlabelled == {d3}

\* Nothing tells d1 and d2 apart, so it does not matter which of them the tag names
\* first; it names d3 after a push.
MCInit == Init /\ registry = d1
MCFairSpec == MCInit /\ [][Next]_vars /\ Fairness
=============================================================================
