--------------------------- MODULE MCReviewDispatch ---------------------------
(* Small instances of ReviewDispatch for TLC. *)
EXTENDS ReviewDispatch, TLC

CONSTANTS a1, a2

\* Every packet has the same reviewer, or the first one has its own.
Same  == [p \in Packets |-> a1]
Apart == [p \in Packets |-> IF p = 1 THEN a1 ELSE a2]
=============================================================================
