--------------------------- MODULE CatalogService ---------------------------
(***************************************************************************)
(* What the clients see of a catalog: whether the object is in the API      *)
(* server, the image its status names and the content the HTTP server       *)
(* answers with; s is what they see before a step and t after it.  Content  *)
(* is swapped first and reported afterwards; in between, and while catalogd *)
(* restarts, the two differ.                                                *)
(***************************************************************************)
CONSTANT Images  \* images a catalog can be made from

NoImage == "none"
Services == [exists: BOOLEAN, ref: Images \cup {NoImage}, served: Images \cup {NoImage}]
Unserved == [exists |-> FALSE, ref |-> NoImage, served |-> NoImage]

Store(s, t, d) == t = [s EXCEPT !.served = d]
\* The status names what is served, or what was until it was swept away.
Report(s, t, d) ==
    /\ s.exists /\ s.served \in {d, NoImage}
    /\ t = [s EXCEPT !.ref = d]
NotServing(s, t) == t = [s EXCEPT !.ref = NoImage]
Appear(s, t) == ~s.exists /\ t = [s EXCEPT !.exists = TRUE]
Disappear(s, t) == s.exists /\ t = [s EXCEPT !.exists = FALSE, !.ref = NoImage]

ServiceStep(s, t) ==
    \/ \E d \in Images \cup {NoImage} : Store(s, t, d)
    \/ \E d \in Images : Report(s, t, d)
    \/ NotServing(s, t) \/ Appear(s, t) \/ Disappear(s, t)
=============================================================================
