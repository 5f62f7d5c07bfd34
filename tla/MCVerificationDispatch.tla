------------------------ MODULE MCVerificationDispatch ------------------------
(* Small instances of VerificationDispatch for TLC. *)
EXTENDS VerificationDispatch, TLC

CONSTANTS r1, r2, a1, a2, c1, c2

\* Both requests for one specialist, or each for its own in the same workspace.
Same  == [r \in Requests |-> a1]
Apart == [r \in Requests |-> IF r = r1 THEN a1 ELSE a2]

\* Every request in one posture, or one of each.
AllNative == [r \in Requests |-> "native"]
AllDocker == [r \in Requests |-> "docker"]
AllHost   == [r \in Requests |-> "host"]
Mixed     == [r \in Requests |-> IF r = r1 THEN "native" ELSE "docker"]

\* Every edge allowed, every one held for approval, or one that changes.
Allowed == [r \in Requests |-> {"allow"}]
Held    == [r \in Requests |-> {"approval_required"}]
OneHeld == [r \in Requests |-> IF r = r1 THEN {"allow", "approval_required"} ELSE {"allow"}]

\* One dispatcher of a request waits at a time, or two of the second request.
Alone   == [r \in Requests |-> 1]
TwoOfR2 == [r \in Requests |-> IF r = r2 THEN 2 ELSE 1]
=============================================================================
