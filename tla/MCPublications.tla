---------------------------- MODULE MCPublications ----------------------------
(* Small instances of Publications for TLC. *)
EXTENDS Publications, TLC

CONSTANTS p1, p2, p3, k1, k2, b1, b2

\* The first two publications are of one packet, the third is of another one, and the
\* last two were given the same branch.
Packet == [p \in Pubs |-> IF p = p3 THEN k2 ELSE k1]
Branch == [p \in Pubs |-> IF p = p1 THEN b1 ELSE b2]
=============================================================================
