---------------------------- MODULE MCInboxDelivery ----------------------------
(* Small instances of InboxDelivery for TLC. *)
EXTENDS InboxDelivery, TLC

CONSTANTS a1, a2, m1, m2, m3, m4

\* Messages in turn from a1 to a2 and back.
From == [m \in Msgs |-> IF m \in {m1, m3} THEN a1 ELSE a2]
To   == [m \in Msgs |-> IF m \in {m1, m3} THEN a2 ELSE a1]

\* Every message goes from a1 to a2.
FromOne == [m \in Msgs |-> a1]
ToOne   == [m \in Msgs |-> a2]

NoRetry     == [m \in {} |-> m]
SecondAgain == [m \in {m2} |-> m1]
=============================================================================
