-------------------------- MODULE MCTriggerDispatch --------------------------
(* Small instances of TriggerDispatch for TLC. *)
EXTENDS TriggerDispatch, TLC

CONSTANTS t1, t2, a1, a2, k1, k2

OneAgent  == {a1}
TwoAgents == {a1, a2}

\* Both triggers on one Agent, or each on its own.
Shared == [t \in Triggers |-> a1]
Apart  == [t \in Triggers |-> IF t = t1 THEN a1 ELSE a2]

\* t1 is a cron trigger of the even minutes, t2 fires with every unit of the clock.
Minutes  == [t \in Triggers |-> IF t = t1 THEN {0} ELSE {}]
EachUnit == [t \in Triggers |-> 1]
=============================================================================
