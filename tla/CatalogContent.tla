--------------------------- MODULE CatalogContent ---------------------------
(***************************************************************************)
(* catalogd's metas endpoint: the index of a stored catalog, the query over *)
(* it, and the conditional requests the handler answers.  A meta is its     *)
(* schema, package and name, "" where it has none, and the length of its    *)
(* blob in the catalog file; times are half seconds, 0 an unknown one.      *)
(***************************************************************************)
EXTENDS Integers, SequencesExt

-----------------------------------------------------------------------------
(* The index                                                                *)

Offset(metas, i) == FoldLeft(LAMBDA n, m : n + m.length, 0, SubSeq(metas, 1, i - 1))
SectionAt(metas, i) == [offset |-> Offset(metas, i), length |-> metas[i].length]
\* The sections with a value of a field; a field that is "" is not indexed.
NewIndex(metas) ==
    [field \in {"schema", "package", "name"} |->
        [value \in {metas[i][field] : i \in DOMAIN metas} \ {""} |->
            {SectionAt(metas, i) : i \in {j \in DOMAIN metas : metas[j][field] = value}}]]
Sections(idx, field, value) == IF value \in DOMAIN idx[field] THEN idx[field][value] ELSE {}
\* Without a schema all sections that have one; then by package and by name.
GetSectionSet(idx, query) ==
    (IF query.schema = "" THEN UNION {idx["schema"][v] : v \in DOMAIN idx["schema"]}
     ELSE Sections(idx, "schema", query.schema))
    \cap (IF query.package = "" THEN UNION {UNION {idx[f][v] : v \in DOMAIN idx[f]} : f \in DOMAIN idx}
          ELSE Sections(idx, "package", query.package))
    \cap (IF query.name = "" THEN UNION {UNION {idx[f][v] : v \in DOMAIN idx[f]} : f \in DOMAIN idx}
          ELSE Sections(idx, "name", query.name))
\* The sections in file order: what is read of the catalog file.
IndexGet(idx, query) == SetToSortSeq(GetSectionSet(idx, query), LAMBDA a, b : a.offset < b.offset)

-----------------------------------------------------------------------------
(* Conditional requests                                                     *)

\* A condition's header is absent, "*", entity tags ("tags"), a time, or a
\* time that does not parse ("bad"); the server has no entity tags.
Absent == -1
Bad == -2
Truncate(t) == (t \div 2) * 2
CheckIfMatch(r) ==
    CASE r.ifMatch = "" -> "none" [] r.ifMatch = "*" -> "true" [] OTHER -> "false"
CheckIfUnmodifiedSince(r, modtime) ==
    IF r.ifUnmodifiedSince \in {Absent, Bad} \/ modtime = 0 THEN "none"
    ELSE IF Truncate(modtime) <= r.ifUnmodifiedSince THEN "true" ELSE "false"
CheckIfNoneMatch(r) ==
    CASE r.ifNoneMatch = "" -> "none" [] r.ifNoneMatch = "*" -> "false" [] OTHER -> "true"
\* mutant: compared to the half second
CheckIfModifiedSinceExactly(r, modtime) ==
    CASE r.ifModifiedSince = Absent \/ modtime = 0 -> "true"
      [] r.ifModifiedSince = Bad /\ modtime # 0 -> "error"
      [] OTHER -> IF modtime <= r.ifModifiedSince THEN "false" ELSE "true"
\* A time that does not parse is answered with an error, and the handler goes on.
CheckIfModifiedSince(r, modtime) ==
    CASE r.ifModifiedSince = Absent \/ modtime = 0 -> "true"
      [] r.ifModifiedSince = Bad /\ modtime # 0 -> "error"
      [] OTHER -> IF Truncate(modtime) <= r.ifModifiedSince THEN "false" ELSE "true"
\* The status that ends the request, or 0 to go on.
CheckPreconditions(r, modtime) ==
    LET match == CheckIfMatch(r)
        ch == IF match = "none" THEN CheckIfUnmodifiedSince(r, modtime) ELSE match
        noneMatch == CheckIfNoneMatch(r)
    IN  CASE ch = "false" -> 412
          [] ch # "false" /\ noneMatch = "false" -> 304
          [] ch # "false" /\ noneMatch = "none" /\ CheckIfModifiedSince(r, modtime) = "false" -> 304
          [] OTHER -> 0

-----------------------------------------------------------------------------
(* The handler                                                              *)

NoBody == <<>>
HttpError(error) ==
    CASE error = "notExist" -> 404 [] error = "permission" -> 403
      [] error = "invalidParams" -> 400 [] OTHER -> 500
\* The error an unparsable If-Modified-Since is answered with stays the status
\* of whatever is served after it, and its text comes before that in the answer.
ServeJSONLines(r, modtime, body) ==
    [status |-> IF CheckIfNoneMatch(r) = "none" /\ CheckIfModifiedSince(r, modtime) = "error"
                THEN 500 ELSE 200,
     body |-> IF r.method = "HEAD" THEN NoBody ELSE body]
WholeFile(metas) == [i \in DOMAIN metas |-> SectionAt(metas, i)]
HandleV1Metas(r, file) ==
    LET status == CheckPreconditions(r, file.modtime)
        whole == r.query = [schema |-> "", package |-> "", name |-> ""]
    IN  CASE r.method \notin {"GET", "HEAD"} -> [status |-> 405, body |-> NoBody]
          [] r.method \in {"GET", "HEAD"} /\ r.otherParams ->
                [status |-> HttpError("invalidParams"), body |-> NoBody]
          [] r.method \in {"GET", "HEAD"} /\ ~r.otherParams /\ file.error # "" ->
                [status |-> HttpError(file.error), body |-> NoBody]
          [] r.method \in {"GET", "HEAD"} /\ ~r.otherParams /\ file.error = "" /\ status # 0 ->
                [status |-> status, body |-> NoBody]
          [] OTHER -> ServeJSONLines(r, file.modtime,
                          IF whole THEN WholeFile(file.metas)
                          ELSE IndexGet(NewIndex(file.metas), r.query))

\* The conditional headers of a request, absent, unreadable or read.
IsConditional(r, file) ==
    /\ r.ifMatch \in {"", "*", "tags"} /\ r.ifNoneMatch \in {"", "*", "tags"}
    /\ r.ifUnmodifiedSince \in Nat \cup {Absent, Bad}
    /\ r.ifModifiedSince \in Nat \cup {Absent, Bad}
    /\ file.modtime \in Nat
=============================================================================
