----------------------------- MODULE MCUserQueue -----------------------------
(* Small instances of UserQueue for TLC. *)
EXTENDS UserQueueRefinement, TLC

CONSTANTS a1, a2, i1, i2, i3, i4, i5, t1, t2

OneAgent    == {a1}
TwoAgents   == {a1, a2}
OneInput    == {i1}
TwoInputs   == {i1, i2}
FiveInputs  == {i1, i2, i3, i4, i5}

AllToOne    == [i \in Inputs |-> a1]
ThreeAndTwo == [i \in Inputs |-> IF i \in {i1, i2, i3} THEN a1 ELSE a2]

\* The attempts of one Agent can be exchanged for each other.
Interchangeable == Permutations({i1, i2, i3}) \cup Permutations({i4, i5})
=============================================================================
