------------------------- MODULE UserQueueRefinement -------------------------
(* The durable queue implements the promise of FollowUpQueue. *)
EXTENDS UserQueue

\* A claim is not a start: until the row is running the input still waits.
PhaseOf(s) ==
    CASE s = "absent"                         -> "absent"
      [] s \in {"pending", "claimed", "held"} -> "waiting"
      [] s = "running"                        -> "started"
      [] s = "uncertain"                      -> "doubtful"
      [] OTHER                                -> "closed"

Line == {e \in Inputs \X Inputs :
            /\ status[e[1]] \in Open /\ status[e[2]] \in Open
            /\ AgentOf[e[1]] = AgentOf[e[2]]
            /\ pos[e[1]] < pos[e[2]]}

Promise == INSTANCE FollowUpQueue WITH
    phase  <- [i \in Inputs |-> PhaseOf(status[i])],
    before <- Line,
    halted <- {a \in Agents : paused[a]}

\* Every step of the queue, its tasks, approvals, operators and restarts is a step of
\* the abstract queue or leaves it alone: an edit keeps the place of what it replaces, an
\* input is started once, at the head of an open line, and doubt halts the line until it
\* is acknowledged (accept, claim, transition, setPaused, recoverInterrupted).
KeepsPromise == Promise!QueueSpec
=============================================================================
