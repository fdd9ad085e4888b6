-------------------------- MODULE DeprecationStatus --------------------------
(***************************************************************************)
(* The four deprecation conditions of a ClusterExtension, computed from the *)
(* deprecations of its package, the channels it asks for and the installed  *)
(* bundle.  A condition is its status and reason.                           *)
(***************************************************************************)
EXTENDS Naturals, SequencesExt

\* Without channels in the spec any channel may be the one that is used.
BuildDeprecationInfo(channels, installed, entries) ==
    LET of(schema) == SelectSeq(entries, LAMBDA e : e.schema = schema)
    IN  [package |-> of("olm.package"),
         channel |-> SelectSeq(of("olm.channel"), LAMBDA e : channels = {} \/ e.name \in channels),
         bundle |-> SelectSeq(of("olm.bundle"), LAMBDA e : installed # "" /\ e.name = installed)]
CollectDeprecationMessages(entries) ==
    SelectSeq([i \in DOMAIN entries |-> entries[i].message], LAMBDA message : message # "")

DeprecationCondition(status, reason) == [status |-> status, reason |-> reason]
Deprecated(messages) ==
    IF messages # <<>> THEN DeprecationCondition("True", "Deprecated")
    ELSE DeprecationCondition("False", "NotDeprecated")
StatusUnknown == DeprecationCondition("Unknown", "DeprecationStatusUnknown")
BundleAbsent == DeprecationCondition("Unknown", "Absent")
\* The message of the condition over all three lists those of the others.
DeprecationConditions(channels, installed, entries, hasCatalogData) ==
    LET info == BuildDeprecationInfo(channels, installed, entries)
        messages == [k \in DOMAIN info |-> CollectDeprecationMessages(info[k])]
        all == messages.package \o messages.channel \o messages.bundle
    IN  IF hasCatalogData
        THEN [any |-> Deprecated(all), messages |-> all, package |-> Deprecated(messages.package),
              channel |-> Deprecated(messages.channel),
              bundle |-> IF installed = "" THEN BundleAbsent ELSE Deprecated(messages.bundle)]
        ELSE [any |-> StatusUnknown, messages |-> <<>>, package |-> StatusUnknown,
              channel |-> StatusUnknown,
              bundle |-> IF installed = "" THEN BundleAbsent ELSE StatusUnknown]
=============================================================================
