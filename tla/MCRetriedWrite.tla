--------------------------- MODULE MCRetriedWrite ---------------------------
(* Two calls that write the same record. *)
EXTENDS RetriedWrite
CONSTANTS r1, r2
TwoCalls == {r1, r2}
=============================================================================
