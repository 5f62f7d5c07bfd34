---------------------------- MODULE FollowUpQueue ----------------------------
(***************************************************************************)
(* What the follow-up queue promises the people who send input to Agents,  *)
(* without positions, revisions, tasks, leases, approvals or restarts.     *)
(* An accepted input waits in its Agent's line; an edit takes the place of *)
(* the input it replaces; only the first of the line is started, at most   *)
(* once, and never in a halted queue; an input whose outcome is unknown    *)
(* halts the queue until it is resolved.                                   *)
(***************************************************************************)
EXTENDS Integers

CONSTANTS Agents, Inputs, AgentOf

VARIABLES
    phase,    \* life of an input
    before,   \* <<i, j>>: both are unresolved in one line, i ahead of j
    halted    \* Agents whose queue starts nothing

qvars == <<phase, before, halted>>

Phases == {"absent", "waiting", "started", "doubtful", "closed"}

Unresolved == {i \in Inputs : phase[i] \in {"waiting", "started", "doubtful"}}

QueueInit ==
    /\ phase = [i \in Inputs |-> "absent"]
    /\ before = {}
    /\ halted = {}

\* A new input joins the end of the line.
Accept(i) ==
    /\ phase[i] = "absent"
    /\ phase' = [phase EXCEPT ![i] = "waiting"]
    /\ before' = before \cup {<<j, i>> : j \in {k \in Unresolved : AgentOf[k] = AgentOf[i]}}
    /\ UNCHANGED halted

\* An edit: the new input stands where the replaced one stood.
Replace(i, p) ==
    /\ phase[i] = "absent" /\ phase[p] = "waiting" /\ AgentOf[p] = AgentOf[i]
    /\ phase' = [phase EXCEPT ![i] = "waiting", ![p] = "closed"]
    /\ before' = {e \in before : e[1] # p /\ e[2] # p}
                 \cup {<<j, i>> : j \in {k \in Inputs : <<k, p>> \in before}}
                 \cup {<<i, j>> : j \in {k \in Inputs : <<p, k>> \in before}}
    /\ UNCHANGED halted

\* Execution begins, for the first of an open line only.
Start(i) ==
    /\ phase[i] = "waiting"
    /\ AgentOf[i] \notin halted
    /\ \A j \in Inputs : <<j, i>> \notin before
    /\ phase' = [phase EXCEPT ![i] = "started"]
    /\ UNCHANGED <<before, halted>>

\* Inputs leave the line with a known outcome (closed), or lose theirs (doubtful).
Resolve(closed, doubtful) ==
    /\ closed \subseteq Unresolved
    /\ doubtful \subseteq {i \in Unresolved : phase[i] # "doubtful"} \ closed
    /\ phase' = [i \in Inputs |-> IF i \in closed THEN "closed"
                                  ELSE IF i \in doubtful THEN "doubtful"
                                  ELSE phase[i]]
    /\ before' = {e \in before : e[1] \notin closed /\ e[2] \notin closed}
    /\ halted' = halted \cup {AgentOf[i] : i \in doubtful}

Halt(a) == halted' = halted \cup {a} /\ UNCHANGED <<phase, before>>

\* A halted queue opens again once nothing in it is in doubt.
Release(a) ==
    /\ \A i \in Inputs : AgentOf[i] = a => phase[i] # "doubtful"
    /\ halted' = halted \ {a}
    /\ UNCHANGED <<phase, before>>

QueueNext ==
    \/ \E i \in Inputs : Accept(i) \/ Start(i)
    \/ \E i, p \in Inputs : Replace(i, p)
    \/ \E closed, doubtful \in SUBSET Unresolved : Resolve(closed, doubtful)
    \/ \E a \in Agents : Halt(a) \/ Release(a)

QueueSpec == QueueInit /\ [][QueueNext]_qvars
=============================================================================
