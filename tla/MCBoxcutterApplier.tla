------------------------- MODULE MCBoxcutterApplier -------------------------
(* Instances of BoxcutterApplier for TLC. *)
EXTENDS BoxcutterApplier

\* Content a is packed into two Secrets, content b shares one of them.
CONSTANTS a, b, p, q
MCContents == {a, b}
MCPieces == [c \in MCContents |-> IF c = a THEN {p, q} ELSE {q}]
=============================================================================
