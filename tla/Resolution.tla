------------------------------ MODULE Resolution ------------------------------
(***************************************************************************)
(* Which bundle a ClusterExtension resolves to: the candidates each catalog *)
(* offers, the best of each, and the one chosen among catalogs.  A bundle   *)
(* is its name, its version and its build metadata, a catalog a priority,   *)
(* an availability and a package: bundles in file order, channels with      *)
(* their upgrade edges, and the bundle names its deprecation lists.         *)
(***************************************************************************)
EXTENDS Integers, SequencesExt

NoBundle == [name |-> "", version |-> 0, build |-> <<>>]
NoDeprecation == [present |-> FALSE, bundles |-> {}]

-----------------------------------------------------------------------------
(* Versions and releases                                                    *)

\* An identifier of build metadata: <<0, n>> a number, <<1, n>> letters,
\* <<2, n>> a number with a leading zero, which no release may have.
IsRelease(build) == \A i \in DOMAIN build : build[i][1] # 2
\* The build metadata becomes the release when it parses as one, and stays in
\* the version, where comparison ignores it, when it does not.
NewLegacyRegistryV1VersionRelease(version, build) ==
    [version |-> version,
     build |-> IF IsRelease(build) THEN <<>> ELSE build,
     release |-> IF IsRelease(build) THEN build ELSE <<>>]
\* The build metadata of the version string a VersionRelease prints as.
AsLegacyRegistryV1Version(vr) ==
    [version |-> vr.version, build |-> IF vr.release # <<>> THEN vr.release ELSE vr.build]

\* A version and release as the program makes one: build metadata that reads as a
\* release is the release, and is not left in the version.
IsVersionRelease(v) ==
    /\ v \in [version: Nat, build: Seq(Nat \X Nat), release: Seq(Nat \X Nat)]
    /\ IsRelease(v.release)
    /\ v.build = <<>> \/ (v.release = <<>> /\ ~IsRelease(v.build))

Sign(a, b) == IF a < b THEN -1 ELSE IF a > b THEN 1 ELSE 0
\* Numbers come before letters; numbers by value, letters by spelling.
CompareSegments(s, t) == IF s[1] # t[1] THEN Sign(s[1], t[1]) ELSE Sign(s[2], t[2])
\* Release.Compare: segment by segment, a proper prefix first.
CompareReleases(r, s) ==
    LET differ == {i \in DOMAIN r \cap DOMAIN s : CompareSegments(r[i], s[i]) # 0}
        first == CHOOSE i \in differ : \A j \in differ : i <= j
    IN  IF differ = {} THEN Sign(Len(r), Len(s)) ELSE CompareSegments(r[first], s[first])
Compare(x, y) ==
    IF x.version # y.version THEN Sign(x.version, y.version)
    ELSE CompareReleases(x.release, y.release)

\* A bundle without a readable package property has version 0 here.
GetVersionAndRelease(b) == NewLegacyRegistryV1VersionRelease(b.version, b.build)
HasVersion(b) == b.version # 0
\* Unreadable versions sort below every readable one, so here last.
ByVersionAndRelease(b, c) ==
    IF HasVersion(b) /\ HasVersion(c)
    THEN Compare(GetVersionAndRelease(c), GetVersionAndRelease(b))
    ELSE Sign(IF HasVersion(b) THEN 0 ELSE 1, IF HasVersion(c) THEN 0 ELSE 1)

-----------------------------------------------------------------------------
(* The candidates of a catalog                                              *)

InAnyChannel(b, channels) == \E ch \in channels : \E e \in ch.entries : e.name = b.name
InSemverRange(b, range) == HasVersion(b) /\ b.version \in range
ExactVersionRelease(b, installed) ==
    HasVersion(b) /\ Compare(GetVersionAndRelease(installed), GetVersionAndRelease(b)) = 0
\* An entry succeeds the installed bundle that it replaces, skips by name, or
\* skips by a range of versions.
IsSuccessor(e, installed) ==
    e.replaces = installed.name \/ installed.name \in e.skips \/ installed.version \in e.skipRange
SuccessorsOf(b, installed, channels) ==
    \/ \E ch \in channels : \E e \in ch.entries : e.name = b.name /\ IsSuccessor(e, installed)
    \/ ExactVersionRelease(b, installed)

\* DeleteFunc filters the package's own channels in place: the upgrade edges
\* that follow are those of the channels that are left.
SelectedChannels(package, channels) ==
    IF channels = {} THEN package.channels ELSE {ch \in package.channels : ch.name \in channels}
\* mutant: the upgrade edges of every channel count
CandidatesByAnyEdge(package, ext, installed) ==
    LET channels == SelectedChannels(package, ext.channels)
    IN  SelectSeq(package.bundles, LAMBDA b :
            /\ ext.channels # {} => InAnyChannel(b, channels)
            /\ ext.range # {} => InSemverRange(b, ext.range)
            /\ (~ext.selfCertified /\ installed # NoBundle)
                   => SuccessorsOf(b, installed, package.channels))
Candidates(package, ext, installed) ==
    LET channels == SelectedChannels(package, ext.channels)
    IN  SelectSeq(package.bundles, LAMBDA b :
            /\ ext.channels # {} => InAnyChannel(b, channels)
            /\ ext.range # {} => InSemverRange(b, ext.range)
            /\ (~ext.selfCertified /\ installed # NoBundle) => SuccessorsOf(b, installed, channels))

IsDeprecated(b, deprecation) == b.name \in deprecation.bundles
\* The order the candidates of one catalog are sorted by.
Precedes(b, c, deprecation) ==
    IF IsDeprecated(b, deprecation) # IsDeprecated(c, deprecation)
    THEN IsDeprecated(c, deprecation)
    ELSE ByVersionAndRelease(b, c) < 0
\* The first bundle after the stable sort: the earliest that none precedes.
FirstSorted(bundles, deprecation) ==
    LET best == {i \in DOMAIN bundles :
                    \A j \in DOMAIN bundles : ~Precedes(bundles[j], bundles[i], deprecation)}
    IN  bundles[CHOOSE i \in best : \A j \in best : i <= j]

-----------------------------------------------------------------------------
(* The walk over the catalogs and the choice                                *)

NothingFound == [found |-> <<>>, deprecation |-> NoDeprecation, failed |-> FALSE]
\* One catalog: its best candidate joins those found so far when it shares
\* their deprecation, replaces them when only they are deprecated, and is
\* dropped when only it is.
WalkCatalog(walk, catalog, ext, installed) ==
    LET candidates == Candidates(catalog.package, ext, installed)
        deprecation == catalog.package.deprecation
        this == FirstSorted(candidates, deprecation)
        prior == walk.found # <<>> /\ IsDeprecated(Last(walk.found).bundle, walk.deprecation)
        current == IsDeprecated(this, deprecation)
        kept == IF prior /\ ~current THEN <<>> ELSE walk.found
    IN  IF walk.failed \/ catalog.error THEN [walk EXCEPT !.failed = TRUE]
        ELSE IF candidates = <<>> \/ (walk.found # <<>> /\ current /\ ~prior) THEN walk
        ELSE [walk EXCEPT
                !.found = Append(kept, [bundle |-> this, catalog |-> catalog.name,
                                        priority |-> catalog.priority]),
                !.deprecation = deprecation]
\* Disabled catalogs and those the selector does not match are left out.
CatalogWalker(catalogs, ext, installed) ==
    FoldLeft(LAMBDA walk, c : WalkCatalog(walk, c, ext, installed), NothingFound,
             SelectSeq(catalogs, LAMBDA c : c.available /\ (ext.selector = {} \/ c.label \in ext.selector)))

\* The highest priority wins if one catalog alone has it.
HighestPriority(found) ==
    {i \in DOMAIN found : \A j \in DOMAIN found : found[j].priority <= found[i].priority}
Unresolved == [bundle |-> NoBundle, catalog |-> "", deprecation |-> NoDeprecation]
Resolve(catalogs, ext, installed) ==
    LET walk == CatalogWalker(catalogs, ext, installed)
        top == HighestPriority(walk.found)
        chosen == walk.found[CHOOSE i \in top : TRUE]
    IN  IF walk.failed \/ Cardinality(top) # 1 \/ ~HasVersion(chosen.bundle)
           \/ chosen.bundle.name \in ext.unsupported
        THEN Unresolved
        ELSE [bundle |-> chosen.bundle, catalog |-> chosen.catalog,
              deprecation |-> walk.deprecation]
=============================================================================
