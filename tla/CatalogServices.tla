-------------------------- MODULE CatalogServices --------------------------
(* What catalogd promises its clients: every catalog behaves as             *)
(* CatalogService says.                                                     *)
EXTENDS CatalogService

CONSTANT Names     \* names of catalogs
VARIABLE services  \* the catalogs, as their clients see them

ServiceInit == services = [n \in Names |-> Unserved]
\* Each catalog takes a step or stays: a restart empties all of them at once.
ServiceNext ==
    /\ services' \in [Names -> Services]
    /\ \A n \in Names : ServiceStep(services[n], services'[n]) \/ services'[n] = services[n]
ServiceSpec == ServiceInit /\ [][ServiceNext]_services
=============================================================================
