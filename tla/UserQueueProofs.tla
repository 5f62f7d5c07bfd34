--------------------------- MODULE UserQueueProofs ---------------------------
(***************************************************************************)
(* Theorems about UserQueue, for any sets of Agents, inputs and Teams and  *)
(* any limits.  Type correctness is inductive as stated.                   *)
(*                                                                         *)
(* Safe: the order, the single execution and the pause of a queue in doubt *)
(* need three facts beside them.  Positions handed out stay below the next *)
(* one, an input that was started never becomes dispatchable again, and an *)
(* interruption leaves every earlier view of the control behind.           *)
(*                                                                         *)
(* Tasked: what the tasks, approvals and turns of the daemon do to each    *)
(* other.  A row in flight has one owner; its approval follows it; the     *)
(* owner's turn is the registered one and its preparation holds the lease; *)
(* hence nobody moves the Agent, and what was captured still binds.        *)
(*                                                                         *)
(* The refinement of FollowUpQueue rests on Safe alone: a start is a start *)
(* of the head of the line because what is in flight is the oldest input.  *)
(***************************************************************************)
EXTENDS UserQueueRefinement, FiniteSetTheorems, TLAPS

Statuses == Open \cup Terminal \cup {"absent"}

\* The positions of accepted inputs are below the one the Agent's control gives out next.
PositionsBelowNext == \A i \in Inputs : status[i] # "absent" => pos[i] < nextPos[AgentOf[i]]

\* An input that was started is running, in doubt or ended.
StartedStaysStarted ==
    \A i \in Inputs : /\ runs[i] <= 1
                      /\ runs[i] = 1 => status[i] \in Terminal \cup {"running", "uncertain"}

\* An operator who has not seen an interruption holds an older revision.
ViewIsBehind ==
    \A a \in Agents : seenRev[a] <= ctlRev[a] /\ (a \in unseen => seenRev[a] < ctlRev[a])

\* The inductive invariant, beside the types.
Safe == /\ InFlightIsOldest /\ PositionsBelowNext
        /\ StartedStaysStarted
        /\ UncertainIsPaused /\ ViewIsBehind

-----------------------------------------------------------------------------
(* The domains of the program counters and of the recorded outcomes. *)

\* The places a drain task and a delivery can be at, spelled out.
LEMMA PcFacts ==
    /\ {"idle", "releasing", "notifying", "leasing", "preparing", "prepared", "running",
        "busy", "asked", "broken", "unbound", "completed", "failed", "cancelled", "unconfirmed"}
       = DrainPc
    /\ {"none", "waiting", "finish_ok", "finish_failed", "leasing", "preparing", "prepared", "running",
        "busy", "asked", "broken", "unbound", "completed", "failed", "cancelled", "unconfirmed"}
       = DlvPc
  BY DEF DrainPc, DlvPc, TurnPc, Outcome

\* Where a recorded outcome starts from and leads to.
LEMMA OutcomeFacts ==
    ASSUME NEW pc \in DOMAIN Outcome
    PROVE  /\ Outcome[pc][2] \in Statuses \ {"absent", "claimed", "running"}
           /\ Outcome[pc][1] = "claimed" => Outcome[pc][2] \in {"pending", "held", "failed"}
           /\ Outcome[pc][1] = "running" => Outcome[pc][2] \in Terminal \cup {"uncertain"}
           /\ Outcome[pc][1] \in {"claimed", "running"}
  BY DEF Outcome, Statuses, Open, Terminal

-----------------------------------------------------------------------------
(* Type correctness. *)

\* The empty home is well typed.
LEMMA InitTypeOK == Init => TypeOK
<1> SUFFICES ASSUME Init PROVE TypeOK
  OBVIOUS
<1>1. status \in [Inputs -> Open \cup Terminal \cup {"absent"}]
  BY DEF Init
<1>2. pos \in [Inputs -> Nat] /\ appr \in [Inputs -> ApprovalStates] /\ runs \in [Inputs -> Nat]
  BY DEF Init, ApprovalStates
<1>3. team \in [Agents -> Teams] /\ boundTeam \in [Inputs -> Teams]
  BY AgentAssumption DEF Init
<1>4. /\ paused \in [Agents -> BOOLEAN] /\ ctlRev \in [Agents -> Nat] /\ nextPos \in [Agents -> Nat]
      /\ seenRev \in [Agents -> Nat]
  BY DEF Init
<1>5. policy \in [Agents -> Decisions]
  BY ScopeAssumption DEF Init, Decisions
<1>6. /\ drainPc \in [Agents -> DrainPc] /\ drainItem \in [Agents -> Inputs \cup {NoInput}]
      /\ dlv \in [Inputs -> DlvPc]
  BY PcFacts DEF Init
<1>7. \A a \in Agents : drainPc[a] = "idle" /\ drainItem[a] = NoInput
  BY DEF Init
<1>8. QED
  BY <1>1, <1>2, <1>3, <1>4, <1>5, <1>6, <1>7 DEF Init, TypeOK

\* transition and the pause it may bring with it keep their types.
LEMMA TransitionType ==
    ASSUME TypeOK, NEW i \in Inputs, NEW from, NEW to \in Statuses, Transition(i, from, to)
    PROVE  /\ status' \in [Inputs -> Open \cup Terminal \cup {"absent"}]
           /\ paused' \in [Agents -> BOOLEAN]
           /\ ctlRev' \in [Agents -> Nat]
           /\ unseen' \subseteq Agents
<1>1. status' \in [Inputs -> Open \cup Terminal \cup {"absent"}]
  BY DEF TypeOK, Transition, Statuses
<1>2. CASE to = "uncertain"
  <2>1. Interrupt({AgentOf[i]}) /\ AgentOf[i] \in Agents
    BY <1>2, AgentAssumption DEF Transition
  <2>2. paused' \in [Agents -> BOOLEAN]
    BY <2>1 DEF Interrupt
  <2>3. ctlRev' \in [Agents -> Nat]
    BY <2>1 DEF TypeOK, Interrupt
  <2>4. QED
    BY <1>1, <2>1, <2>2, <2>3 DEF TypeOK, Interrupt
<1>3. CASE to # "uncertain"
  BY <1>1, <1>3 DEF TypeOK, Transition
<1>4. QED
  BY <1>2, <1>3

\* Every step keeps the types.
LEMMA TypeStep == TypeOK /\ [Next]_vars => TypeOK'
<1> SUFFICES ASSUME TypeOK, [Next]_vars PROVE TypeOK'
  OBVIOUS
<1>1. ASSUME NEW i \in Inputs, Enqueue(i) PROVE TypeOK'
  <2>1. AgentOf[i] \in Agents
    BY AgentAssumption
  <2>2. nextPos' \in [Agents -> Nat]
    BY <1>1, <2>1 DEF TypeOK, Enqueue
  <2>3. pos' \in [Inputs -> Nat] /\ boundTeam' \in [Inputs -> Teams]
    BY <1>1, <2>1 DEF TypeOK, Enqueue, Admit
  <2>4. QED
    BY <1>1, <2>2, <2>3 DEF TypeOK, Enqueue, Admit, Open, Terminal, ApprovalStates, agentVars, taskVars, turnVars, clientVars
<1>2. ASSUME NEW i \in Inputs, NEW p \in Inputs, Edit(i, p) PROVE TypeOK'
  BY <1>2, AgentAssumption DEF TypeOK, Edit, Admit, Open, Terminal, ApprovalStates, agentVars,
     taskVars, turnVars, clientVars
<1>3. ASSUME NEW a \in Agents, ReadControl(a) PROVE TypeOK'
  BY <1>3 DEF TypeOK, ReadControl, itemVars, apprVars, ctlVars, agentVars, taskVars, turnVars
<1>4. ASSUME NEW a \in Agents, Pause(a) PROVE TypeOK'
  BY <1>4 DEF TypeOK, Pause, SetPaused, itemVars, apprVars, agentVars, taskVars, turnVars,
     clientVars
<1>5. ASSUME NEW a \in Agents, Resume(a) PROVE TypeOK'
  BY <1>5 DEF TypeOK, Resume, SetPaused, itemVars, apprVars, agentVars, taskVars, turnVars,
     clientVars
<1>6. ASSUME NEW a \in Agents, Stop(a) PROVE TypeOK'
  BY <1>6 DEF TypeOK, Stop, SetPaused, itemVars, apprVars, agentVars, taskVars, clientVars
<1>7. ASSUME NEW i \in Inputs, Remove(i) \/ Acknowledge(i) PROVE TypeOK'
  BY <1>7, TransitionType DEF TypeOK, Remove, Acknowledge, Close, Statuses, Terminal, apprVars,
     agentVars, taskVars, turnVars
<1>8. ASSUME ReconcileHolds PROVE TypeOK'
  BY <1>8, AgentAssumption DEF TypeOK, ReconcileHolds, ReconcileApprovalHolds, Interrupt,
     EndedHolds, Open, Terminal, apprVars, agentVars, taskVars, turnVars
<1>9. ASSUME NEW i \in Inputs, PruneTerminalInput(i) PROVE TypeOK'
  BY <1>9 DEF TypeOK, PruneTerminalInput, apprVars, ctlVars, agentVars, taskVars, turnVars,
     clientVars
<1>10. ASSUME NEW a \in Agents, DrainClaim(a) PROVE TypeOK'
  BY <1>10, PcFacts, TransitionType DEF TypeOK, DrainClaim, Goto, OpenItems, Statuses, Open,
     apprVars, agentVars, turnVars
<1>11. ASSUME NEW a \in Agents, DrainBusy(a) PROVE TypeOK'
  BY <1>11, PcFacts DEF TypeOK, DrainBusy, Goto, DrainFrame, apprVars, agentVars
<1>12. ASSUME NEW a \in Agents, DrainUnbound(a) PROVE TypeOK'
  BY <1>12, PcFacts DEF TypeOK, DrainUnbound, Goto, DrainFrame, apprVars, agentVars
<1>13. ASSUME NEW a \in Agents, DrainAuthorize(a) PROVE TypeOK'
  BY <1>13, PcFacts DEF TypeOK, DrainAuthorize, Goto, DrainFrame, apprVars, agentVars
<1>14. ASSUME NEW a \in Agents, DrainAsk(a) PROVE TypeOK'
  BY <1>14, PcFacts DEF TypeOK, DrainAsk, Goto, DrainFrame, ApprovalStates, agentVars
<1>15. ASSUME NEW a \in Agents, DrainBreak(a) PROVE TypeOK'
  BY <1>15, PcFacts DEF TypeOK, DrainBreak, Goto, DrainFrame, Unregister, apprVars, agentVars
<1>16. ASSUME NEW a \in Agents, DrainPrepared(a) PROVE TypeOK'
  BY <1>16, PcFacts DEF TypeOK, DrainPrepared, Goto, DrainFrame, apprVars, agentVars
<1>17. ASSUME NEW a \in Agents, DrainYield(a) PROVE TypeOK'
  BY <1>17, PcFacts, TransitionType DEF TypeOK, DrainYield, Goto, DrainFrame, Statuses, Open,
     apprVars, agentVars
<1>18. ASSUME NEW a \in Agents, DrainReleased(a) PROVE TypeOK'
  BY <1>18, PcFacts DEF TypeOK, DrainReleased, Goto, DrainFrame, Unregister, apprVars, agentVars
<1>19. ASSUME NEW a \in Agents, DrainRebound(a) PROVE TypeOK'
  BY <1>19, PcFacts DEF TypeOK, DrainRebound, Goto, DrainFrame, Unregister, apprVars, agentVars
<1>20. ASSUME NEW a \in Agents, DrainStart(a) PROVE TypeOK'
  BY <1>20, PcFacts, TransitionType DEF TypeOK, DrainStart, Goto, DrainFrame, Statuses, Open,
     apprVars, agentVars
<1>21. ASSUME NEW a \in Agents, DrainTurnEnds(a) PROVE TypeOK'
  BY <1>21, PcFacts DEF TypeOK, DrainTurnEnds, Ends, Goto, DrainFrame, Unregister, apprVars,
     agentVars
<1>22. ASSUME NEW a \in Agents, DrainSettle(a) PROVE TypeOK'
  <2> DEFINE i == drainItem[a]
  <2>1. i \in Inputs
    BY <1>22 DEF TypeOK, DrainSettle, Outcome
  <2>2. Transition(i, Outcome[drainPc[a]][1], Outcome[drainPc[a]][2])
    BY <1>22 DEF DrainSettle
  <2>3. Outcome[drainPc[a]][2] \in Statuses
    BY <1>22, OutcomeFacts DEF DrainSettle
  <2> HIDE DEF i
  <2>4. /\ status' \in [Inputs -> Open \cup Terminal \cup {"absent"}]
             /\ paused' \in [Agents -> BOOLEAN]
             /\ ctlRev' \in [Agents -> Nat]
             /\ unseen' \subseteq Agents
    BY <2>1, <2>2, <2>3, TransitionType
  <2>5. linked' \subseteq Inputs
    BY <1>22, <2>1 DEF i, TypeOK, DrainSettle
  <2>6. drainPc' \in [Agents -> DrainPc]
    BY <1>22, PcFacts DEF TypeOK, DrainSettle, Goto
  <2>7. \A b \in Agents : IF drainPc'[b] = "idle" THEN drainItem'[b] = NoInput
                          ELSE drainItem'[b] \in Inputs /\ AgentOf[drainItem'[b]] = b
    BY <1>22, <2>1 DEF i, TypeOK, DrainSettle, Goto, DrainFrame, Outcome
  <2>8. QED
    BY <1>22, <2>4, <2>5, <2>6, <2>7 DEF TypeOK, DrainSettle, DrainFrame, agentVars, apprVars
<1>23. ASSUME NEW a \in Agents, DrainDone(a) PROVE TypeOK'
  BY <1>23, PcFacts DEF TypeOK, DrainDone, Goto, itemVars, apprVars, ctlVars, agentVars,
     turnVars, clientVars
<1>24. ASSUME NEW i \in Inputs, Deny(i) PROVE TypeOK'
  BY <1>24 DEF TypeOK, Deny, ApprovalStates, itemVars, ctlVars, agentVars, taskVars, turnVars,
     clientVars
<1>25. ASSUME NEW i \in Inputs, ApproveStale(i) PROVE TypeOK'
  BY <1>25 DEF TypeOK, ApproveStale, ApprovalStates, itemVars, ctlVars, agentVars, taskVars,
     turnVars, clientVars
<1>26. ASSUME NEW i \in Inputs, ApproveInvalid(i) PROVE TypeOK'
  BY <1>26 DEF TypeOK, ApproveInvalid, ApprovalStates, itemVars, ctlVars, agentVars, taskVars,
     turnVars, clientVars
<1>27. ASSUME NEW i \in Inputs, Approve(i) PROVE TypeOK'
  BY <1>27, PcFacts, TransitionType DEF TypeOK, Approve, ApprovalStates, ItemFrame, Statuses,
     Open, agentVars, turnVars
<1>28. ASSUME NEW i \in Inputs, DlvCheck(i) PROVE TypeOK'
  BY <1>28, PcFacts DEF TypeOK, DlvCheck, DlvGoto, DlvFrame, ItemFrame, agentVars
<1>29. ASSUME NEW i \in Inputs, DlvBusy(i) PROVE TypeOK'
  BY <1>29, PcFacts DEF TypeOK, DlvBusy, DlvGoto, DlvFrame, ItemFrame, agentVars
<1>30. ASSUME NEW i \in Inputs, DlvAuthorize(i) PROVE TypeOK'
  <2>1. AgentOf[i] \in Agents
    BY AgentAssumption
  <2>2. dlv' \in [Inputs -> DlvPc]
    BY <1>30, PcFacts DEF TypeOK, DlvAuthorize, DlvGoto
  <2>3. QED
    BY <1>30, <2>1, <2>2 DEF TypeOK, DlvAuthorize, DlvGoto, DlvFrame, ItemFrame, agentVars
<1>31. ASSUME NEW i \in Inputs, DlvBreak(i) PROVE TypeOK'
  BY <1>31, PcFacts DEF TypeOK, DlvBreak, Unregister, DlvGoto, DlvFrame, ItemFrame, agentVars
<1>32. ASSUME NEW i \in Inputs, DlvPrepared(i) PROVE TypeOK'
  BY <1>32, PcFacts DEF TypeOK, DlvPrepared, DlvGoto, DlvFrame, ItemFrame, agentVars
<1>33. ASSUME NEW i \in Inputs, DlvStart(i) PROVE TypeOK'
  BY <1>33, PcFacts, TransitionType DEF TypeOK, DlvStart, Statuses, Open, DlvGoto, DlvFrame,
     ItemFrame, agentVars
<1>34. ASSUME NEW i \in Inputs, DlvRefuse(i) PROVE TypeOK'
  BY <1>34, PcFacts DEF TypeOK, DlvRefuse, Unregister, DlvGoto, DlvFrame, ItemFrame, agentVars
<1>35. ASSUME NEW i \in Inputs, DlvTurnEnds(i) PROVE TypeOK'
  BY <1>35, PcFacts DEF TypeOK, DlvTurnEnds, Ends, Unregister, DlvGoto, DlvFrame, ItemFrame,
     agentVars
<1>36. ASSUME NEW i \in Inputs, DlvSettle(i) PROVE TypeOK'
  BY <1>36, PcFacts, TransitionType, OutcomeFacts DEF TypeOK, DlvSettle, Statuses, DlvGoto,
     DlvFrame, ItemFrame, agentVars
<1>37. ASSUME NEW i \in Inputs, DlvFinish(i) PROVE TypeOK'
  BY <1>37, PcFacts DEF TypeOK, DlvFinish, ApprovalStates, DlvGoto, DlvFrame, ItemFrame,
     agentVars
<1>38. ASSUME NEW a \in Agents, OtherTurnStarts(a) PROVE TypeOK'
  BY <1>38 DEF TypeOK, OtherTurnStarts, itemVars, apprVars, ctlVars, agentVars, taskVars,
     clientVars
<1>39. ASSUME NEW a \in Agents, OtherTurnEnds(a) PROVE TypeOK'
  BY <1>39 DEF TypeOK, OtherTurnEnds, Unregister, itemVars, apprVars, ctlVars, agentVars,
     taskVars, clientVars
<1>40. ASSUME NEW a \in Agents, MutationBegins(a) PROVE TypeOK'
  BY <1>40 DEF TypeOK, MutationBegins, itemVars, apprVars, ctlVars, agentVars, taskVars,
     clientVars
<1>41. ASSUME NEW a \in Agents, MutationEnds(a) PROVE TypeOK'
  BY <1>41 DEF TypeOK, MutationEnds, itemVars, ctlVars, taskVars, clientVars
<1>42. ASSUME NEW a \in Agents, PolicyChange(a) PROVE TypeOK'
  BY <1>42, ScopeAssumption DEF TypeOK, PolicyChange, Decisions, itemVars, ctlVars, taskVars,
     turnVars, clientVars
<1>43. ASSUME Shutdown PROVE TypeOK'
  BY <1>43 DEF TypeOK, Shutdown, itemVars, apprVars, ctlVars, agentVars, taskVars, clientVars
<1>44. ASSUME Terminate PROVE TypeOK'
  BY <1>44, PcFacts DEF TypeOK, Terminate, ProcessEnds, itemVars, apprVars, ctlVars, agentVars,
     clientVars
<1>45. ASSUME NEW i \in Inputs, TerminateInApprove(i) PROVE TypeOK'
  BY <1>45, PcFacts DEF TypeOK, TerminateInApprove, ProcessEnds, ApprovalStates, itemVars,
     ctlVars, agentVars, clientVars
<1>46. ASSUME RecoverInterrupted PROVE TypeOK'
  BY <1>46, AgentAssumption DEF TypeOK, RecoverInterrupted, Interrupt, Open, Terminal, apprVars,
     agentVars, taskVars, turnVars
<1>47. ASSUME Boot PROVE TypeOK'
  BY <1>47, AgentAssumption DEF TypeOK, Boot, ReconcileApprovalHolds, Interrupt, EndedHolds,
     Open, Terminal, apprVars, agentVars, taskVars, turnVars
<1>48. CASE UNCHANGED vars
  BY <1>48 DEF TypeOK, vars, itemVars, apprVars, ctlVars, agentVars, taskVars, turnVars, clientVars
<1> QED
  BY <1>1, <1>2, <1>3, <1>4, <1>5, <1>6, <1>7, <1>8, <1>9, <1>10, <1>11, <1>12, <1>13, <1>14,
     <1>15, <1>16, <1>17, <1>18, <1>19, <1>20, <1>21, <1>22, <1>23, <1>24, <1>25, <1>26, <1>27,
     <1>28, <1>29, <1>30, <1>31, <1>32, <1>33, <1>34, <1>35, <1>36, <1>37, <1>38, <1>39, <1>40,
     <1>41, <1>42, <1>43, <1>44, <1>45, <1>46, <1>47, <1>48 DEF Next, ClientStep, InputStep,
     DrainStep, DlvStep, AgentStep, ProcessStep

\* Every variable keeps its domain, and a task under way holds an input of its own Agent.
THEOREM TypeCorrect == Spec => []TypeOK
<1>1. Init => TypeOK
  BY InitTypeOK
<1>2. TypeOK /\ [Next]_vars => TypeOK'
  BY TypeStep
<1>3. QED
  BY <1>1, <1>2, PTL DEF Spec

-----------------------------------------------------------------------------
(* Order, single execution and the pause of a queue in doubt. *)

\* The empty queue is safe.
LEMMA InitSafe == Init => Safe
  BY AgentAssumption DEF Init, Safe, InFlightIsOldest, PositionsBelowNext, StartedStaysStarted, UncertainIsPaused, ViewIsBehind

\* A step that touches neither rows nor controls keeps the invariant.
LEMMA QuietSafe ==
    ASSUME Safe, UNCHANGED <<status, pos, nextPos, runs, paused, ctlRev, seenRev, unseen>>
    PROVE  Safe'
  BY DEF Safe, InFlightIsOldest, PositionsBelowNext, StartedStaysStarted, UncertainIsPaused, ViewIsBehind, Unsettled

\* An interruption leaves every view of the control behind.
LEMMA InterruptView ==
    ASSUME TypeOK, ViewIsBehind, NEW A \in SUBSET Agents, Interrupt(A), UNCHANGED seenRev
    PROVE  ViewIsBehind'
  BY DEF TypeOK, ViewIsBehind, Interrupt

\* A transition keeps the invariant if it dispatches only the head, starts only a claim
\* and ends, or puts in doubt, what was started.
LEMMA TransitionSafe ==
    ASSUME TypeOK, Safe,
           NEW i \in Inputs, NEW from \in Open, NEW to \in Statuses \ {"absent"},
           Transition(i, from, to),
           UNCHANGED <<pos, nextPos, seenRev>>,
           to \in {"claimed", "running"} => from \in {"claimed", "running"} \/ IsHead(i),
           from \in {"running", "uncertain"} => to \in Terminal \cup {"uncertain"},
           \/ to = "running" /\ from = "claimed" /\ runs' = [runs EXCEPT ![i] = @ + 1]
           \/ to # "running" /\ UNCHANGED runs
    PROVE  Safe'
<1>1. /\ status[i] = from /\ status' = [status EXCEPT ![i] = to]
      /\ status \in [Inputs -> Statuses] /\ runs \in [Inputs -> Nat]
      /\ AgentOf \in [Inputs -> Agents]
  BY AgentAssumption DEF Transition, TypeOK, Statuses
<1>2. InFlightIsOldest'
  BY <1>1 DEF Safe, InFlightIsOldest, Unsettled, IsHead, OpenItems, Open
<1>3. PositionsBelowNext'
  BY <1>1 DEF Safe, PositionsBelowNext, Open
<1>4. StartedStaysStarted'
  BY <1>1 DEF Safe, StartedStaysStarted, Open, Terminal
<1>5. UncertainIsPaused' /\ ViewIsBehind'
  <2>1. CASE to = "uncertain"
    <3>1. Interrupt({AgentOf[i]})
      BY <2>1 DEF Transition
    <3>2. ViewIsBehind'
      BY <1>1, <3>1, InterruptView DEF Safe
    <3>3. UncertainIsPaused'
      BY <1>1, <3>1 DEF Safe, UncertainIsPaused, Interrupt
    <3>4. QED
      BY <3>2, <3>3
  <2>2. CASE to # "uncertain"
    BY <1>1, <2>2 DEF Transition, Safe, UncertainIsPaused, ViewIsBehind
  <2>3. QED
    BY <2>1, <2>2
<1>6. QED
  BY <1>2, <1>3, <1>4, <1>5 DEF Safe

\* Closing and doubting any set of open rows, with the pause it brings, keeps it.
LEMMA SweepSafe ==
    ASSUME TypeOK, Safe,
           NEW closed \in SUBSET {i \in Inputs : status[i] \in Open},
           NEW lost \in SUBSET {i \in Inputs : status[i] \in Open},
           status' = [i \in Inputs |-> IF i \in closed THEN "cancelled"
                                       ELSE IF i \in lost THEN "uncertain" ELSE status[i]],
           Interrupt({AgentOf[i] : i \in lost}),
           UNCHANGED <<pos, nextPos, seenRev, runs>>
    PROVE  Safe'
<1>1. /\ status \in [Inputs -> Statuses] /\ runs \in [Inputs -> Nat]
      /\ AgentOf \in [Inputs -> Agents]
  BY AgentAssumption DEF TypeOK, Statuses
<1>2. InFlightIsOldest'
  BY <1>1 DEF Safe, InFlightIsOldest, Unsettled, Open
<1>3. PositionsBelowNext'
  BY <1>1 DEF Safe, PositionsBelowNext, Open
<1>4. StartedStaysStarted'
  BY <1>1 DEF Safe, StartedStaysStarted, Open, Terminal
<1>5. UncertainIsPaused'
  BY <1>1 DEF Safe, UncertainIsPaused, Interrupt
<1>6. ViewIsBehind'
  BY <1>1, InterruptView DEF Safe
<1>7. QED
  BY <1>2, <1>3, <1>4, <1>5, <1>6 DEF Safe

\* Admission keeps it if the new row stands behind everything in flight.
LEMMA AdmitSafe ==
    ASSUME TypeOK, Safe, NEW i \in Inputs, NEW position \in Nat, NEW replaced \in SUBSET Inputs,
           Admit(i, position, replaced),
           nextPos' \in [Agents -> Nat], \A a \in Agents : nextPos[a] <= nextPos'[a],
           position < nextPos'[AgentOf[i]],
           \A j \in Inputs : AgentOf[j] = AgentOf[i] /\ status[j] \in {"claimed", "running"} => pos[j] < position,
           \A j \in replaced : status[j] = "pending"
    PROVE  Safe'
<1>1. /\ status \in [Inputs -> Statuses] /\ runs \in [Inputs -> Nat] /\ pos \in [Inputs -> Nat]
      /\ AgentOf \in [Inputs -> Agents] /\ nextPos \in [Agents -> Nat]
  BY AgentAssumption DEF TypeOK, Statuses
<1> DEFINE s == status'[i]
<1>2. /\ s \in {"held", "pending"}
      /\ status[i] = "absent"
      /\ status' = [j \in Inputs |-> IF j = i THEN s ELSE IF j \in replaced THEN "superseded" ELSE status[j]]
      /\ pos' = [pos EXCEPT ![i] = position]
      /\ UNCHANGED <<runs, paused, ctlRev, seenRev, unseen>>
  BY <1>1 DEF Admit, clientVars
<1> HIDE DEF s
<1>3. InFlightIsOldest'
  BY <1>1, <1>2 DEF Safe, InFlightIsOldest, Unsettled
<1>4. PositionsBelowNext'
  <2> SUFFICES ASSUME NEW j \in Inputs, status'[j] # "absent" PROVE pos'[j] < nextPos'[AgentOf[j]]
    BY DEF PositionsBelowNext
  <2>1. CASE j = i
    BY <1>1, <1>2, <2>1
  <2>2. CASE j # i
    <3>1. pos'[j] = pos[j] /\ status[j] # "absent"
      BY <1>1, <1>2, <2>2
    <3>2. AgentOf[j] \in Agents /\ pos[j] < nextPos[AgentOf[j]]
      BY <1>1, <3>1 DEF Safe, PositionsBelowNext
    <3>3. QED
      BY <1>1, <3>1, <3>2
  <2>3. QED
    BY <2>1, <2>2
<1>5. StartedStaysStarted'
  BY <1>1, <1>2 DEF Safe, StartedStaysStarted, Terminal
<1>6. UncertainIsPaused' /\ ViewIsBehind'
  BY <1>1, <1>2 DEF Safe, UncertainIsPaused, ViewIsBehind
<1>7. QED
  BY <1>3, <1>4, <1>5, <1>6 DEF Safe

\* Every step keeps the order, the single execution and the pause of a queue in doubt.
LEMMA SafeStep == TypeOK /\ Safe /\ [Next]_vars => Safe'
<1> SUFFICES ASSUME TypeOK, Safe, [Next]_vars PROVE Safe'
  OBVIOUS
<1>1. ASSUME NEW i \in Inputs, Enqueue(i) PROVE Safe'
  <2>1. /\ AgentOf[i] \in Agents /\ nextPos \in [Agents -> Nat]
        /\ Admit(i, nextPos[AgentOf[i]], {})
        /\ nextPos' = [nextPos EXCEPT ![AgentOf[i]] = nextPos[AgentOf[i]] + 1]
    BY <1>1, AgentAssumption DEF TypeOK, Enqueue
  <2>2. nextPos' \in [Agents -> Nat] /\ \A a \in Agents : nextPos[a] <= nextPos'[a]
    BY <2>1
  <2>3. nextPos[AgentOf[i]] \in Nat /\ nextPos[AgentOf[i]] < nextPos'[AgentOf[i]]
    BY <2>1
  <2>4. \A j \in Inputs : AgentOf[j] = AgentOf[i] /\ status[j] \in {"claimed", "running"}
                            => pos[j] < nextPos[AgentOf[i]]
    BY DEF Safe, PositionsBelowNext
  <2>5. QED
    BY <2>1, <2>2, <2>3, <2>4, AdmitSafe
<1>2. ASSUME NEW i \in Inputs, NEW p \in Inputs, Edit(i, p) PROVE Safe'
  <2>1. /\ AgentOf[p] = AgentOf[i] /\ AgentOf[i] \in Agents /\ status[p] = "pending"
        /\ Admit(i, pos[p], {p}) /\ UNCHANGED nextPos
        /\ nextPos \in [Agents -> Nat] /\ pos[p] \in Nat
    BY <1>2, AgentAssumption DEF TypeOK, Edit
  <2>2. pos[p] < nextPos'[AgentOf[i]]
    BY <2>1 DEF Safe, PositionsBelowNext
  <2>3. \A j \in Inputs : AgentOf[j] = AgentOf[i] /\ status[j] \in {"claimed", "running"} => pos[j] < pos[p]
    BY <2>1 DEF Safe, InFlightIsOldest, Unsettled
  <2>4. QED
    BY <2>1, <2>2, <2>3, AdmitSafe
<1>3. ASSUME NEW a \in Agents, ReadControl(a) PROVE Safe'
  BY <1>3 DEF TypeOK, Safe, ReadControl, InFlightIsOldest, PositionsBelowNext, StartedStaysStarted,
      UncertainIsPaused, ViewIsBehind, Unsettled, itemVars, ctlVars
<1>4. ASSUME NEW a \in Agents, Pause(a) \/ Resume(a) \/ Stop(a) PROVE Safe'
  <2>1. PICK value \in BOOLEAN : SetPaused(a, value)
    BY <1>4 DEF Pause, Resume, Stop
  <2>2. UncertainIsPaused'
    BY <2>1, AgentAssumption DEF TypeOK, Safe, SetPaused, UncertainIsPaused, itemVars
  <2>3. ViewIsBehind'
    BY <2>1 DEF TypeOK, Safe, SetPaused, ViewIsBehind, clientVars
  <2>4. QED
    BY <2>1, <2>2, <2>3 DEF Safe, SetPaused, InFlightIsOldest, PositionsBelowNext,
        StartedStaysStarted, Unsettled, itemVars, clientVars
<1>5. ASSUME NEW i \in Inputs, Remove(i) \/ Acknowledge(i) PROVE Safe'
  <2>1. PICK from \in {"pending", "uncertain"} : Close(i, from)
    BY <1>5 DEF Remove, Acknowledge
  <2>2. QED
    BY <2>1, TransitionSafe DEF Close, Statuses, Open, Terminal
<1>6. ASSUME ReconcileHolds \/ Boot PROVE Safe'
  <2> DEFINE closed == EndedHolds({"refused"})
             lost   == EndedHolds({"delivered", "delivery_failed"})
  <2>1. ReconcileApprovalHolds /\ UNCHANGED <<pos, nextPos, seenRev, runs>>
    BY <1>6 DEF ReconcileHolds, Boot
  <2>2. /\ closed \in SUBSET {i \in Inputs : status[i] \in Open}
        /\ lost \in SUBSET {i \in Inputs : status[i] \in Open}
    BY DEF EndedHolds, Open
  <2>3. /\ status' = [i \in Inputs |-> IF i \in closed THEN "cancelled"
                                      ELSE IF i \in lost THEN "uncertain" ELSE status[i]]
        /\ Interrupt({AgentOf[i] : i \in lost})
    BY <2>1 DEF ReconcileApprovalHolds
  <2> HIDE DEF closed, lost
  <2>4. QED
    BY <2>1, <2>2, <2>3, SweepSafe
<1>7. ASSUME RecoverInterrupted PROVE Safe'
  <2> DEFINE lost == {i \in Inputs : Interrupted(i)}
  <2>1. /\ lost \in SUBSET {i \in Inputs : status[i] \in Open}
        /\ {} \in SUBSET {i \in Inputs : status[i] \in Open}
    BY DEF Interrupted, Open
  <2>2. /\ status' = [i \in Inputs |-> IF i \in {} THEN "cancelled"
                                      ELSE IF i \in lost THEN "uncertain" ELSE status[i]]
        /\ Interrupt({AgentOf[i] : i \in lost})
        /\ UNCHANGED <<pos, nextPos, seenRev, runs>>
    BY <1>7 DEF RecoverInterrupted
  <2> HIDE DEF lost
  <2>3. QED
    BY <2>1, <2>2, SweepSafe
<1>8. ASSUME NEW a \in Agents, DrainClaim(a) PROVE Safe'
  <2>1. PICK i \in OpenItems(a) : IsHead(i) /\ Transition(i, "pending", "claimed")
    BY <1>8 DEF DrainClaim
  <2>2. i \in Inputs /\ UNCHANGED <<pos, nextPos, seenRev, runs>>
    BY <1>8 DEF DrainClaim, OpenItems
  <2>3. QED
    BY <2>1, <2>2, TransitionSafe DEF Statuses, Open
<1>9. ASSUME NEW a \in Agents, DrainYield(a) PROVE Safe'
  BY <1>9, TransitionSafe DEF TypeOK, DrainYield, DrainFrame, Statuses, Open
<1>10. ASSUME NEW a \in Agents, DrainStart(a) PROVE Safe'
  BY <1>10, TransitionSafe DEF TypeOK, DrainStart, DrainFrame, Statuses, Open
<1>11. ASSUME NEW a \in Agents, DrainSettle(a) PROVE Safe'
  <2>1. /\ drainItem[a] \in Inputs
        /\ drainPc[a] \in DOMAIN Outcome
        /\ Transition(drainItem[a], Outcome[drainPc[a]][1], Outcome[drainPc[a]][2])
        /\ UNCHANGED <<pos, nextPos, seenRev, runs>>
    BY <1>11 DEF TypeOK, DrainSettle, DrainFrame, Outcome
  <2>2. QED
    BY <2>1, OutcomeFacts, TransitionSafe DEF Statuses, Open
<1>12. ASSUME NEW i \in Inputs, Approve(i) PROVE Safe'
  BY <1>12, TransitionSafe DEF Approve, ApprovalReady, ItemFrame, Statuses, Open
<1>13. ASSUME NEW i \in Inputs, DlvStart(i) PROVE Safe'
  BY <1>13, TransitionSafe DEF DlvStart, DlvFrame, ItemFrame, Statuses, Open
<1>14. ASSUME NEW i \in Inputs, DlvSettle(i) PROVE Safe'
  <2>1. /\ dlv[i] \in DOMAIN Outcome
        /\ Transition(i, Outcome[dlv[i]][1], Outcome[dlv[i]][2])
        /\ UNCHANGED <<pos, nextPos, seenRev, runs>>
    BY <1>14 DEF DlvSettle, DlvFrame, ItemFrame
  <2>2. QED
    BY <2>1, OutcomeFacts, TransitionSafe DEF Statuses, Open
<1>15. ASSUME NEW a \in Agents, DrainBusy(a) \/ DrainUnbound(a) \/ DrainAuthorize(a) \/ DrainAsk(a) \/ DrainBreak(a)
             \/ DrainPrepared(a) \/ DrainReleased(a) \/ DrainRebound(a) \/ DrainTurnEnds(a)
             \/ DrainDone(a)
      PROVE Safe'
  BY <1>15, QuietSafe DEF DrainBusy, DrainUnbound, DrainAuthorize, DrainAsk, DrainBreak,
     DrainPrepared, DrainReleased, DrainRebound, DrainTurnEnds, DrainDone, DrainFrame, itemVars,
     ctlVars, clientVars
<1>16. ASSUME NEW i \in Inputs, Deny(i) \/ ApproveStale(i) \/ ApproveInvalid(i) \/ PruneTerminalInput(i)
             \/ DlvCheck(i) \/ DlvBusy(i) \/ DlvAuthorize(i) \/ DlvBreak(i) \/ DlvPrepared(i)
             \/ DlvRefuse(i) \/ DlvTurnEnds(i) \/ DlvFinish(i) \/ TerminateInApprove(i)
      PROVE Safe'
  BY <1>16, QuietSafe DEF Deny, ApproveStale, ApproveInvalid, PruneTerminalInput, DlvCheck, DlvBusy,
     DlvAuthorize, DlvBreak, DlvPrepared, DlvRefuse, DlvTurnEnds, DlvFinish, TerminateInApprove,
     DlvFrame, ItemFrame, itemVars, ctlVars, clientVars
<1>17. ASSUME NEW a \in Agents, OtherTurnStarts(a) \/ OtherTurnEnds(a) \/ MutationBegins(a) \/ MutationEnds(a)
             \/ PolicyChange(a)
      PROVE Safe'
  BY <1>17, QuietSafe DEF OtherTurnStarts, OtherTurnEnds, MutationBegins, MutationEnds, PolicyChange,
      itemVars, ctlVars, clientVars
<1>18. ASSUME Shutdown \/ Terminate \/ UNCHANGED vars PROVE Safe'
  BY <1>18, QuietSafe DEF Shutdown, Terminate, vars, itemVars, ctlVars, clientVars
<1> QED
  BY <1>1, <1>2, <1>3, <1>4, <1>5, <1>6, <1>7, <1>8, <1>9, <1>10, <1>11, <1>12, <1>13, <1>14,
     <1>15, <1>16, <1>17, <1>18 DEF Next, ClientStep, InputStep, DrainStep, DlvStep, AgentStep,
     ProcessStep

\* No input is dispatched past an unresolved predecessor, whatever is edited, removed,
\* approved, paused or lost in between.
THEOREM OrderIsKept == Spec => []InFlightIsOldest
<1>1. TypeOK /\ Safe /\ [Next]_vars => TypeOK' /\ Safe'
  BY TypeStep, SafeStep
<1>2. Init => TypeOK /\ Safe
  BY InitTypeOK, InitSafe
<1>3. Safe => InFlightIsOldest
  BY DEF Safe
<1>4. QED
  BY <1>1, <1>2, <1>3, PTL DEF Spec

\* No input is executed twice, across retries, approvals, crashes and restarts.
THEOREM ExecutedOnce == Spec => []AtMostOnce
<1>1. TypeOK /\ Safe /\ [Next]_vars => TypeOK' /\ Safe'
  BY TypeStep, SafeStep
<1>2. Init => TypeOK /\ Safe
  BY InitTypeOK, InitSafe
<1>3. Safe => AtMostOnce
  BY DEF Safe, StartedStaysStarted, AtMostOnce
<1>4. QED
  BY <1>1, <1>2, <1>3, PTL DEF Spec

\* A queue with an input in doubt is paused.
THEOREM DoubtPauses == Spec => []UncertainIsPaused
<1>1. TypeOK /\ Safe /\ [Next]_vars => TypeOK' /\ Safe'
  BY TypeStep, SafeStep
<1>2. Init => TypeOK /\ Safe
  BY InitTypeOK, InitSafe
<1>3. Safe => UncertainIsPaused
  BY DEF Safe
<1>4. QED
  BY <1>1, <1>2, <1>3, PTL DEF Spec

-----------------------------------------------------------------------------
(* Resuming a queue. *)

\* An interruption never lifts a pause.
LEMMA InterruptKeepsPause ==
    ASSUME TypeOK, NEW A, Interrupt(A), NEW b \in Agents, paused[b] PROVE paused'[b]
  BY DEF TypeOK, Interrupt

\* Nor does a transition.
LEMMA TransitionKeepsPause ==
    ASSUME TypeOK, NEW i \in Inputs, NEW from, NEW to, Transition(i, from, to),
           NEW b \in Agents, paused[b]
    PROVE  paused'[b]
<1>1. CASE to = "uncertain"
  BY <1>1, InterruptKeepsPause DEF Transition
<1>2. CASE to # "uncertain"
  BY <1>2 DEF Transition
<1>3. QED
  BY <1>1, <1>2

\* A pause is lifted by Resume alone, and the operator's view is then the current one.
LEMMA ResumeStep ==
    ASSUME TypeOK, Safe, [Next]_vars, NEW b \in Agents, paused[b], ~paused'[b]
    PROVE  b \notin unseen
<1>1. ASSUME NEW a \in Agents, Resume(a) PROVE b \notin unseen
  <2>1. b = a
    BY <1>1 DEF TypeOK, Resume, SetPaused
  <2>2. seenRev[b] = ctlRev[b] /\ seenRev[b] \in Nat
    BY <1>1, <2>1 DEF TypeOK, Resume, SetPaused, ExpectedRevision
  <2>3. QED
    BY <2>2 DEF Safe, ViewIsBehind
<1>2. ASSUME NEW a \in Agents, Pause(a) \/ Stop(a) PROVE FALSE
  BY <1>2 DEF TypeOK, Pause, Stop, SetPaused
<1>3. ASSUME NEW a \in Agents, ReadControl(a) \/ AgentStep(a) PROVE FALSE
  BY <1>3 DEF ReadControl, AgentStep, OtherTurnStarts, OtherTurnEnds, MutationBegins, MutationEnds,
      PolicyChange, ctlVars
<1>4. ASSUME NEW i \in Inputs, InputStep(i) PROVE FALSE
  <2>1. CASE Enqueue(i) \/ \E p \in Inputs : Edit(i, p)
    BY <2>1 DEF Enqueue, Edit, Admit
  <2>2. CASE Remove(i) \/ Acknowledge(i)
    BY <2>2, TransitionKeepsPause DEF Remove, Acknowledge, Close
  <2>3. CASE Deny(i) \/ ApproveStale(i) \/ ApproveInvalid(i)
    BY <2>3 DEF Deny, ApproveStale, ApproveInvalid, ctlVars
  <2>4. CASE Approve(i)
    BY <2>4, TransitionKeepsPause DEF Approve
  <2>5. QED
    BY <1>4, <2>1, <2>2, <2>3, <2>4 DEF InputStep
<1>5. ASSUME NEW a \in Agents, DrainStep(a) PROVE FALSE
  <2>1. CASE DrainClaim(a)
    BY <2>1, TransitionKeepsPause DEF DrainClaim, OpenItems
  <2>2. CASE DrainYield(a) \/ DrainStart(a) \/ DrainSettle(a)
    <3>1. drainItem[a] \in Inputs
      BY <2>2 DEF TypeOK, DrainYield, DrainStart, DrainSettle, Outcome
    <3>2. QED
      BY <2>2, <3>1, TransitionKeepsPause DEF DrainYield, DrainStart, DrainSettle
  <2>3. CASE \/ DrainBusy(a) \/ DrainUnbound(a) \/ DrainAuthorize(a) \/ DrainAsk(a) \/ DrainBreak(a)
             \/ DrainPrepared(a) \/ DrainReleased(a) \/ DrainRebound(a) \/ DrainTurnEnds(a)
             \/ DrainDone(a)
    BY <2>3 DEF DrainBusy, DrainUnbound, DrainAuthorize, DrainAsk, DrainBreak, DrainPrepared,
        DrainReleased, DrainRebound, DrainTurnEnds, DrainDone, ctlVars
  <2>4. QED
    BY <1>5, <2>1, <2>2, <2>3 DEF DrainStep
<1>6. ASSUME NEW i \in Inputs, DlvStep(i) PROVE FALSE
  <2>1. CASE DlvStart(i) \/ DlvSettle(i)
    BY <2>1, TransitionKeepsPause DEF DlvStart, DlvSettle
  <2>2. CASE \/ DlvCheck(i) \/ DlvBusy(i) \/ DlvAuthorize(i) \/ DlvBreak(i) \/ DlvPrepared(i)
             \/ DlvRefuse(i) \/ DlvTurnEnds(i) \/ DlvFinish(i)
    BY <2>2 DEF DlvCheck, DlvBusy, DlvAuthorize, DlvBreak, DlvPrepared, DlvRefuse, DlvTurnEnds, DlvFinish
  <2>3. QED
    BY <1>6, <2>1, <2>2 DEF DlvStep
<1>7. CASE ReconcileHolds \/ RecoverInterrupted \/ Boot
  BY <1>7, InterruptKeepsPause DEF ReconcileHolds, RecoverInterrupted, Boot, ReconcileApprovalHolds
<1>8. CASE \/ Shutdown \/ Terminate \/ UNCHANGED vars
           \/ \E i \in Inputs : PruneTerminalInput(i) \/ TerminateInApprove(i)
  BY <1>8 DEF Shutdown, Terminate, PruneTerminalInput, TerminateInApprove, vars, ctlVars
<1> QED
  BY <1>1, <1>2, <1>3, <1>4, <1>5, <1>6, <1>7, <1>8 DEF Next, ClientStep, ProcessStep

\* A queue is resumed only on a view that includes every interruption so far.
THEOREM ResumedInformed == Spec => ResumeIsInformed
<1>1. TypeOK /\ Safe /\ [Next]_vars => TypeOK' /\ Safe'
  BY TypeStep, SafeStep
<1>2. Init => TypeOK /\ Safe
  BY InitTypeOK, InitSafe
<1>3. TypeOK /\ Safe /\ [Next]_vars
        => [\A a \in Agents : paused[a] /\ ~paused'[a] => a \notin unseen]_vars
  BY ResumeStep
<1>4. QED
  BY <1>1, <1>2, <1>3, PTL DEF Spec, ResumeIsInformed

-----------------------------------------------------------------------------
(* Ownership of the rows in flight. *)

\* No task outlives its process, and a daemon that boots has no row in flight.
NothingOutlives ==
    /\ ~Serving => (\A a \in Agents : drainPc[a] = "idle") /\ (\A i \in Inputs : dlv[i] = "none")
    /\ daemon = "booting" => \A i \in Inputs : status[i] \notin {"claimed", "running"}

\* Every row in flight has its one owner.
Ownership == OneOwner /\ NothingOutlives

\* The claims of a delivery include the wait for an idle Agent.
LEMMA DlvHoldsFacts ==
    ASSUME NEW i
    PROVE  /\ DlvHolds(i, ClaimPc) <=> dlv[i] \in ClaimPc \cup {"waiting"}
           /\ DlvHolds(i, RunPc) <=> dlv[i] \in RunPc
           /\ DlvHolds(i, ClaimPc \cup RunPc) <=> dlv[i] \in ClaimPc \cup RunPc \cup {"waiting"}
  BY DEF DlvHolds, ClaimPc, RunPc

\* The same in the next state.
LEMMA DlvHoldsNext ==
    ASSUME NEW i
    PROVE  /\ DlvHolds(i, ClaimPc)' <=> dlv'[i] \in ClaimPc \cup {"waiting"}
           /\ DlvHolds(i, RunPc)' <=> dlv'[i] \in RunPc
           /\ DlvHolds(i, ClaimPc \cup RunPc)' <=> dlv'[i] \in ClaimPc \cup RunPc \cup {"waiting"}
  BY DEF DlvHolds, ClaimPc, RunPc

\* The empty home has nothing in flight.
LEMMA InitOwned == Init => Ownership
  BY DlvHoldsFacts, AgentAssumption DEF Init, Ownership, OneOwner, NothingOutlives, Serving, DrainHolds, ClaimPc, RunPc

\* A step that moves no row and no task keeps it.
LEMMA IdleOwned ==
    ASSUME Ownership, UNCHANGED <<status, drainPc, drainItem, dlv>>,
           daemon' = daemon \/ (daemon = "up" /\ daemon' = "stopping")
    PROVE  Ownership'
<1>1. Serving' <=> Serving
  BY DEF Serving
<1>2. daemon' = "booting" <=> daemon = "booting"
  OBVIOUS
<1>3. QED
  BY <1>1, <1>2 DEF Ownership, OneOwner, NothingOutlives, DrainHolds, DlvHolds

\* So does one that moves rows only outside execution.
LEMMA RowsOwned ==
    ASSUME Ownership, Serving \/ daemon = "booting",
           daemon' = daemon \/ (daemon = "booting" /\ daemon' = "up"),
           UNCHANGED <<drainPc, drainItem, dlv>>,
           \A i \in Inputs : \/ status'[i] = status[i]
                             \/ status[i] \notin {"claimed", "running"} /\ status'[i] \notin {"claimed", "running"}
    PROVE  Ownership'
<1>1. \A i \in Inputs : /\ status'[i] = "claimed" <=> status[i] = "claimed"
                        /\ status'[i] = "running" <=> status[i] = "running"
  OBVIOUS
<1>2. CASE Serving
  <2>1. Serving' /\ daemon' # "booting"
    BY <1>2 DEF Serving
  <2>2. QED
    BY <1>1, <1>2, <2>1 DEF Ownership, OneOwner, NothingOutlives, DrainHolds, DlvHolds
<1>3. CASE daemon = "booting"
  <2>1. /\ \A a \in Agents : drainPc'[a] = "idle"
        /\ \A i \in Inputs : dlv'[i] = "none" /\ status'[i] \notin {"claimed", "running"}
    BY <1>1, <1>3 DEF Ownership, NothingOutlives, Serving
  <2>2. QED
    BY <2>1, DlvHoldsNext, AgentAssumption DEF Ownership, OneOwner, NothingOutlives, DrainHolds, ClaimPc, RunPc
<1>4. QED
  BY <1>2, <1>3

\* A drain task that goes on keeps it, if its row goes along.
LEMMA DrainOwned ==
    ASSUME TypeOK, Ownership, NEW a \in Agents, NEW pc, NEW s,
           drainPc[a] # "idle", drainPc' = [drainPc EXCEPT ![a] = pc], pc # "idle",
           UNCHANGED <<daemon, drainItem, dlv>>,
           status' = [status EXCEPT ![drainItem[a]] = s],
           \/ pc \in ClaimPc /\ drainPc[a] \in ClaimPc /\ s = "claimed"
           \/ pc \in RunPc /\ drainPc[a] \in ClaimPc \cup RunPc /\ s = "running"
           \/ pc \notin ClaimPc \cup RunPc /\ drainPc[a] \in ClaimPc \cup RunPc /\ s \notin {"claimed", "running"}
           \/ pc \notin ClaimPc \cup RunPc /\ drainPc[a] \notin ClaimPc \cup RunPc /\ s = status[drainItem[a]]
    PROVE  Ownership'
<1> DEFINE i == drainItem[a]
<1>1. Serving /\ Serving' /\ daemon' # "booting"
  BY DEF Ownership, NothingOutlives, Serving
<1>2. /\ i \in Inputs /\ AgentOf[i] = a
      /\ drainPc \in [Agents -> DrainPc] /\ status \in [Inputs -> Statuses]
      /\ ClaimPc \cap RunPc = {}
  BY DEF TypeOK, Statuses, ClaimPc, RunPc
<1> HIDE DEF i
<1>3. ASSUME NEW k \in Inputs
      PROVE  /\ ~(DrainHolds(k, ClaimPc \cup RunPc)' /\ DlvHolds(k, ClaimPc \cup RunPc)')
             /\ status'[k] = "claimed" <=> DrainHolds(k, ClaimPc)' \/ DlvHolds(k, ClaimPc)'
             /\ status'[k] = "running" <=> DrainHolds(k, RunPc)' \/ DlvHolds(k, RunPc)'
  <2>1. /\ ~(DrainHolds(k, ClaimPc \cup RunPc) /\ DlvHolds(k, ClaimPc \cup RunPc))
        /\ status[k] = "claimed" <=> DrainHolds(k, ClaimPc) \/ DlvHolds(k, ClaimPc)
        /\ status[k] = "running" <=> DrainHolds(k, RunPc) \/ DlvHolds(k, RunPc)
    BY <1>1 DEF Ownership, OneOwner
  <2>2. /\ DlvHolds(k, ClaimPc)' <=> DlvHolds(k, ClaimPc)
        /\ DlvHolds(k, RunPc)' <=> DlvHolds(k, RunPc)
        /\ DlvHolds(k, ClaimPc \cup RunPc)' <=> DlvHolds(k, ClaimPc \cup RunPc)
        /\ DlvHolds(k, ClaimPc) \/ DlvHolds(k, RunPc) <=> DlvHolds(k, ClaimPc \cup RunPc)
    BY DlvHoldsFacts, DlvHoldsNext
  <2>3. CASE k = i
    <3>1. /\ drainItem[AgentOf[k]] = k /\ drainItem'[AgentOf[k]] = k
          /\ drainPc'[AgentOf[k]] = pc /\ drainPc[AgentOf[k]] = drainPc[a] /\ status'[k] = s
      BY <1>2, <2>3 DEF i
    <3>2. s = status[k] \/ drainPc[a] \in ClaimPc \cup RunPc
      BY <2>3, <1>2 DEF i
    <3>3. QED
      BY <1>2, <2>1, <2>2, <2>3, <3>1, <3>2 DEF DrainHolds, i
  <2>4. CASE k # i
    <3>1. status'[k] = status[k]
      BY <1>2, <2>4 DEF i
    <3>2. /\ DrainHolds(k, ClaimPc)' <=> DrainHolds(k, ClaimPc)
          /\ DrainHolds(k, RunPc)' <=> DrainHolds(k, RunPc)
          /\ DrainHolds(k, ClaimPc \cup RunPc)' <=> DrainHolds(k, ClaimPc \cup RunPc)
      BY <1>2, <2>4, AgentAssumption DEF DrainHolds, i
    <3>3. QED
      BY <2>1, <2>2, <3>1, <3>2
  <2>5. QED
    BY <2>3, <2>4
<1>4. QED
  BY <1>1, <1>3 DEF Ownership, OneOwner, NothingOutlives

\* A delivery that goes on keeps it, if its row goes along.
LEMMA DlvOwned ==
    ASSUME TypeOK, Ownership, NEW i \in Inputs, NEW pc, NEW s,
           dlv[i] # "none", dlv' = [dlv EXCEPT ![i] = pc],
           UNCHANGED <<daemon, drainPc, drainItem>>,
           status' = [status EXCEPT ![i] = s],
           LET old == dlv[i]
               claims == ClaimPc \cup {"waiting"}
           IN  \/ pc \in claims /\ old \in claims /\ s = "claimed"
               \/ pc \in RunPc /\ old \in claims \cup RunPc /\ s = "running"
               \/ pc \notin claims \cup RunPc /\ old \in claims \cup RunPc /\ s \notin {"claimed", "running"}
               \/ pc \notin claims \cup RunPc /\ old \notin claims \cup RunPc /\ s = status[i]
    PROVE  Ownership'
<1> DEFINE claims == ClaimPc \cup {"waiting"}
<1>1. Serving /\ Serving' /\ daemon' # "booting"
  BY DEF Ownership, NothingOutlives, Serving
<1>2. /\ dlv \in [Inputs -> DlvPc] /\ status \in [Inputs -> Statuses]
      /\ claims \cap RunPc = {}
  BY DEF TypeOK, Statuses, ClaimPc, RunPc
<1>3. ASSUME NEW k \in Inputs
      PROVE  /\ ~(DrainHolds(k, ClaimPc \cup RunPc)' /\ DlvHolds(k, ClaimPc \cup RunPc)')
             /\ status'[k] = "claimed" <=> DrainHolds(k, ClaimPc)' \/ DlvHolds(k, ClaimPc)'
             /\ status'[k] = "running" <=> DrainHolds(k, RunPc)' \/ DlvHolds(k, RunPc)'
  <2>1. /\ ~(DrainHolds(k, ClaimPc \cup RunPc) /\ dlv[k] \in claims \cup RunPc)
        /\ status[k] = "claimed" <=> DrainHolds(k, ClaimPc) \/ dlv[k] \in claims
        /\ status[k] = "running" <=> DrainHolds(k, RunPc) \/ dlv[k] \in RunPc
    BY <1>1, DlvHoldsFacts DEF Ownership, OneOwner
  <2>2. /\ DrainHolds(k, ClaimPc)' <=> DrainHolds(k, ClaimPc)
        /\ DrainHolds(k, RunPc)' <=> DrainHolds(k, RunPc)
        /\ DrainHolds(k, ClaimPc \cup RunPc)' <=> DrainHolds(k, ClaimPc \cup RunPc)
        /\ DrainHolds(k, ClaimPc) \/ DrainHolds(k, RunPc) <=> DrainHolds(k, ClaimPc \cup RunPc)
    BY DEF DrainHolds
  <2>3. /\ ~(DrainHolds(k, ClaimPc \cup RunPc) /\ dlv'[k] \in claims \cup RunPc)
        /\ status'[k] = "claimed" <=> DrainHolds(k, ClaimPc) \/ dlv'[k] \in claims
        /\ status'[k] = "running" <=> DrainHolds(k, RunPc) \/ dlv'[k] \in RunPc
    <3>1. CASE k = i
      <4>1. dlv'[k] = pc /\ status'[k] = s /\ dlv[i] = dlv[k] /\ status[i] = status[k]
        BY <1>2, <3>1
      <4>2. QED
        BY <1>2, <2>1, <2>2, <3>1, <4>1
    <3>2. CASE k # i
      BY <1>2, <2>1, <3>2
    <3>3. QED
      BY <3>1, <3>2
  <2>4. QED
    BY <2>2, <2>3, DlvHoldsNext
<1>4. QED
  BY <1>1, <1>3 DEF Ownership, OneOwner, NothingOutlives

\* A drain task that goes on and leaves its row alone stays with its claim, its run or neither.
LEMMA DrainKept ==
    ASSUME TypeOK, Ownership, NEW a \in Agents, NEW pc,
           drainPc[a] # "idle", Goto(a, pc), pc # "idle",
           UNCHANGED <<status, daemon, drainItem, dlv>>,
           \/ pc \in ClaimPc /\ drainPc[a] \in ClaimPc
           \/ pc \in RunPc /\ drainPc[a] \in RunPc
           \/ pc \notin ClaimPc \cup RunPc /\ drainPc[a] \notin ClaimPc \cup RunPc
    PROVE  Ownership'
<1> DEFINE i == drainItem[a]
<1>1. i \in Inputs /\ AgentOf[i] = a /\ status' = [status EXCEPT ![i] = status[i]]
  BY DEF TypeOK
<1>2. Serving
  BY DEF Ownership, NothingOutlives
<1>3. /\ drainPc[a] \in ClaimPc => status[i] = "claimed"
      /\ drainPc[a] \in RunPc => status[i] = "running"
  BY <1>1, <1>2 DEF Ownership, OneOwner, DrainHolds
<1>4. QED
  BY <1>1, <1>3, DrainOwned DEF Goto

\* So does a delivery.
LEMMA DlvKept ==
    ASSUME TypeOK, Ownership, NEW i \in Inputs, NEW pc,
           dlv[i] # "none", DlvGoto(i, pc),
           UNCHANGED <<status, daemon, drainPc, drainItem>>,
           \/ pc \in ClaimPc \cup {"waiting"} /\ dlv[i] \in ClaimPc \cup {"waiting"}
           \/ pc \in RunPc /\ dlv[i] \in RunPc
           \/ pc \notin ClaimPc \cup RunPc \cup {"waiting"} /\ dlv[i] \notin ClaimPc \cup RunPc \cup {"waiting"}
    PROVE  Ownership'
<1>1. status' = [status EXCEPT ![i] = status[i]]
  BY DEF TypeOK
<1>2. Serving
  BY DEF Ownership, NothingOutlives
<1>3. /\ dlv[i] \in ClaimPc \cup {"waiting"} => status[i] = "claimed"
      /\ dlv[i] \in RunPc => status[i] = "running"
  BY <1>2, DlvHoldsFacts DEF Ownership, OneOwner
<1>4. QED
  BY <1>1, <1>3, DlvOwned DEF DlvGoto

\* What admission does to the rows.
LEMMA AdmitFacts ==
    ASSUME NEW i \in Inputs, NEW position, NEW replaced, Admit(i, position, replaced),
           \A p \in replaced : status[p] = "pending"
    PROVE  /\ Serving /\ UNCHANGED <<daemon, drainPc, drainItem, dlv>>
           /\ status[i] = "absent" /\ status'[i] \in {"held", "pending"}
           /\ \A j \in Inputs \ {i} : \/ status'[j] = status[j]
                                      \/ status[j] = "pending" /\ status'[j] = "superseded"
           /\ \A j \in Inputs : \/ status'[j] = status[j]
                                \/ status[j] \notin {"claimed", "running"} /\ status'[j] \notin {"claimed", "running"}
<1>1. /\ Serving /\ UNCHANGED <<daemon, drainPc, drainItem, dlv>>
      /\ status[i] = "absent" /\ status'[i] \in {"held", "pending"}
  BY DEF Admit, taskVars
<1>2. ASSUME NEW j \in Inputs, j # i
      PROVE  status'[j] = status[j] \/ (status[j] = "pending" /\ status'[j] = "superseded")
  BY <1>2 DEF Admit
<1>3. QED
  BY <1>1, <1>2

\* Every step keeps the rows in flight with their owners.
LEMMA OwnershipStep == TypeOK /\ Ownership /\ [Next]_vars => Ownership'
<1> SUFFICES ASSUME TypeOK, Ownership, [Next]_vars PROVE Ownership'
  OBVIOUS
<1>1. ASSUME NEW i \in Inputs, Enqueue(i) \/ \E p \in Inputs : Edit(i, p) PROVE Ownership'
  <2>1. PICK position, replaced : /\ Admit(i, position, replaced)
                                  /\ \A p \in replaced : status[p] = "pending"
    <3>1. CASE Enqueue(i)
      BY <3>1 DEF Enqueue
    <3>2. CASE \E p \in Inputs : Edit(i, p)
      BY <3>2 DEF Edit
    <3>3. QED
      BY <1>1, <3>1, <3>2
  <2>2. QED
    BY <2>1, AdmitFacts, RowsOwned
<1>2. ASSUME NEW i \in Inputs, Remove(i) \/ Acknowledge(i) PROVE Ownership'
  BY <1>2, RowsOwned DEF TypeOK, Remove, Acknowledge, Close, Transition, taskVars
<1>3. ASSUME ReconcileHolds \/ Boot PROVE Ownership'
  <2>1. /\ Serving \/ daemon = "booting"
        /\ daemon' = daemon \/ (daemon = "booting" /\ daemon' = "up")
        /\ ReconcileApprovalHolds /\ UNCHANGED <<drainPc, drainItem, dlv>>
    BY <1>3 DEF ReconcileHolds, Boot, taskVars
  <2>2. QED
    BY <2>1, RowsOwned DEF ReconcileApprovalHolds, EndedHolds
<1>4. ASSUME NEW a \in Agents,
             \/ ReadControl(a) \/ Pause(a) \/ Resume(a) \/ Stop(a)
             \/ OtherTurnStarts(a) \/ OtherTurnEnds(a) \/ MutationBegins(a) \/ MutationEnds(a)
             \/ PolicyChange(a)
      PROVE Ownership'
  BY <1>4, IdleOwned DEF ReadControl, Pause, Resume, Stop, SetPaused, OtherTurnStarts, OtherTurnEnds,
      MutationBegins, MutationEnds, PolicyChange, itemVars, taskVars
<1>5. ASSUME NEW i \in Inputs,
             Deny(i) \/ ApproveStale(i) \/ ApproveInvalid(i) \/ PruneTerminalInput(i)
      PROVE Ownership'
  BY <1>5, IdleOwned DEF Deny, ApproveStale, ApproveInvalid, PruneTerminalInput, itemVars, taskVars
<1>6. ASSUME Shutdown \/ UNCHANGED vars PROVE Ownership'
  BY <1>6, IdleOwned DEF Shutdown, vars, itemVars, taskVars
<1>7. ASSUME Terminate \/ \E i \in Inputs : TerminateInApprove(i) PROVE Ownership'
  BY <1>7 DEF Terminate, TerminateInApprove, ProcessEnds, Ownership, OneOwner, NothingOutlives, Serving
<1>8. ASSUME RecoverInterrupted PROVE Ownership'
  <2>1. /\ daemon' = "booting" /\ ~Serving
        /\ \A i \in Inputs : status'[i] \notin {"claimed", "running"}
        /\ UNCHANGED <<drainPc, dlv>>
    BY <1>8 DEF RecoverInterrupted, Interrupted, taskVars, Serving
  <2>2. QED
    BY <2>1 DEF Ownership, OneOwner, NothingOutlives, Serving
<1>9. ASSUME NEW a \in Agents, DrainClaim(a) PROVE Ownership'
  <2>1. PICK i \in Inputs : /\ AgentOf[i] = a /\ status[i] = "pending"
                            /\ status' = [status EXCEPT ![i] = "claimed"]
                            /\ drainItem' = [drainItem EXCEPT ![a] = i]
    BY <1>9 DEF DrainClaim, OpenItems, Transition
  <2>2. /\ daemon = "up" /\ drainPc[a] = "idle" /\ drainItem[a] = NoInput /\ UNCHANGED <<daemon, dlv>>
        /\ drainPc' = [drainPc EXCEPT ![a] = "leasing"]
        /\ drainPc \in [Agents -> DrainPc] /\ drainItem \in [Agents -> Inputs \cup {NoInput}]
        /\ status \in [Inputs -> Statuses] /\ AgentOf \in [Inputs -> Agents]
    BY <1>9, AgentAssumption DEF TypeOK, DrainClaim, Goto, Statuses
  <2>3. "leasing" \in ClaimPc /\ "leasing" \notin RunPc /\ "idle" \notin ClaimPc \cup RunPc
    BY DEF ClaimPc, RunPc
  <2>4. ASSUME NEW k \in Inputs
        PROVE  /\ ~(DrainHolds(k, ClaimPc \cup RunPc)' /\ DlvHolds(k, ClaimPc \cup RunPc)')
               /\ status'[k] = "claimed" <=> DrainHolds(k, ClaimPc)' \/ DlvHolds(k, ClaimPc)'
               /\ status'[k] = "running" <=> DrainHolds(k, RunPc)' \/ DlvHolds(k, RunPc)'
    <3>1. /\ ~(DrainHolds(k, ClaimPc \cup RunPc) /\ DlvHolds(k, ClaimPc \cup RunPc))
          /\ status[k] = "claimed" <=> DrainHolds(k, ClaimPc) \/ DlvHolds(k, ClaimPc)
          /\ status[k] = "running" <=> DrainHolds(k, RunPc) \/ DlvHolds(k, RunPc)
      BY <2>2 DEF Ownership, OneOwner, Serving
    <3>2. /\ DlvHolds(k, ClaimPc)' <=> DlvHolds(k, ClaimPc)
          /\ DlvHolds(k, RunPc)' <=> DlvHolds(k, RunPc)
          /\ DlvHolds(k, ClaimPc \cup RunPc)' <=> DlvHolds(k, ClaimPc \cup RunPc)
          /\ DlvHolds(k, ClaimPc) \/ DlvHolds(k, RunPc) <=> DlvHolds(k, ClaimPc \cup RunPc)
      BY <2>2, DlvHoldsFacts, DlvHoldsNext
    <3>3. CASE k = i
      <4>1. DrainHolds(k, ClaimPc)' /\ ~DrainHolds(k, RunPc)' /\ status'[k] = "claimed"
        BY <2>1, <2>2, <2>3, <3>3 DEF DrainHolds
      <4>2. QED
        BY <2>1, <3>1, <3>2, <3>3, <4>1
    <3>4. CASE k # i
      <4>1. /\ DrainHolds(k, ClaimPc)' <=> DrainHolds(k, ClaimPc)
            /\ DrainHolds(k, RunPc)' <=> DrainHolds(k, RunPc)
            /\ DrainHolds(k, ClaimPc \cup RunPc)' <=> DrainHolds(k, ClaimPc \cup RunPc)
        BY <2>1, <2>2, <2>3, <3>4, InputAssumption DEF DrainHolds
      <4>2. QED
        BY <2>1, <2>2, <3>1, <3>2, <3>4, <4>1
    <3>5. QED
      BY <3>3, <3>4
  <2>5. QED
    BY <2>2, <2>4 DEF Ownership, OneOwner, NothingOutlives, Serving
<1>10. ASSUME NEW a \in Agents,
             \/ DrainBusy(a) \/ DrainUnbound(a) \/ DrainAuthorize(a) \/ DrainAsk(a) \/ DrainBreak(a)
             \/ DrainPrepared(a) \/ DrainReleased(a) \/ DrainRebound(a)
      PROVE Ownership'
  <2>1. PICK pc \in ClaimPc \cup {"notifying"} :
            /\ Goto(a, pc) /\ UNCHANGED <<status, daemon, drainItem, dlv>>
            /\ \/ pc # "notifying" /\ drainPc[a] \in ClaimPc
               \/ pc = "notifying" /\ drainPc[a] = "releasing"
    BY <1>10 DEF DrainBusy, DrainUnbound, DrainAuthorize, DrainAsk, DrainBreak, DrainPrepared,
        DrainReleased, DrainRebound, DrainFrame, ClaimPc
  <2>2. QED
    BY <2>1, DrainKept DEF ClaimPc, RunPc
<1>11. ASSUME NEW a \in Agents, DrainTurnEnds(a) PROVE Ownership'
  <2>1. PICK pc \in RunPc : Goto(a, pc) /\ UNCHANGED <<status, daemon, drainItem, dlv>> /\ drainPc[a] \in RunPc
    BY <1>11 DEF DrainTurnEnds, DrainFrame, Ends, RunPc
  <2>2. QED
    BY <2>1, DrainKept DEF RunPc
<1>12. ASSUME NEW a \in Agents, DrainYield(a) PROVE Ownership'
  BY <1>12, DrainOwned DEF DrainYield, DrainFrame, Transition, Goto, ClaimPc, RunPc
<1>13. ASSUME NEW a \in Agents, DrainStart(a) PROVE Ownership'
  BY <1>13, DrainOwned DEF DrainStart, DrainFrame, Transition, Goto, ClaimPc, RunPc
<1>14. ASSUME NEW a \in Agents, DrainSettle(a) PROVE Ownership'
  <2>1. Outcome[drainPc[a]][2] \notin {"claimed", "running"}
    BY <1>14, OutcomeFacts DEF DrainSettle
  <2>2. drainPc[a] \in ClaimPc \cup RunPc /\ drainPc[a] # "idle"
    BY <1>14 DEF DrainSettle, Outcome, ClaimPc, RunPc
  <2>3. /\ status' = [status EXCEPT ![drainItem[a]] = Outcome[drainPc[a]][2]]
        /\ drainPc' = [drainPc EXCEPT ![a] = "notifying"]
        /\ UNCHANGED <<daemon, drainItem, dlv>>
    BY <1>14 DEF DrainSettle, DrainFrame, Transition, Goto
  <2>4. "notifying" \notin ClaimPc \cup RunPc
    BY DEF ClaimPc, RunPc
  <2>5. QED
    BY <2>1, <2>2, <2>3, <2>4, DrainOwned
<1>15. ASSUME NEW a \in Agents, DrainDone(a) PROVE Ownership'
  <2>1. /\ drainPc[a] = "notifying" /\ drainPc' = [drainPc EXCEPT ![a] = "idle"]
        /\ drainItem' = [drainItem EXCEPT ![a] = NoInput]
        /\ UNCHANGED <<status, daemon, dlv>>
        /\ drainPc \in [Agents -> DrainPc] /\ drainItem \in [Agents -> Inputs \cup {NoInput}]
    BY <1>15 DEF TypeOK, DrainDone, Goto, itemVars
  <2>2. \A k \in Inputs : /\ DrainHolds(k, ClaimPc)' <=> DrainHolds(k, ClaimPc)
                          /\ DrainHolds(k, RunPc)' <=> DrainHolds(k, RunPc)
                          /\ DrainHolds(k, ClaimPc \cup RunPc)' <=> DrainHolds(k, ClaimPc \cup RunPc)
    BY <2>1, AgentAssumption DEF DrainHolds, ClaimPc, RunPc
  <2>3. Serving /\ daemon # "booting" /\ daemon' # "booting" /\ Serving'
    BY <2>1 DEF Ownership, NothingOutlives, Serving
  <2>4. \A k \in Inputs : /\ DlvHolds(k, ClaimPc)' <=> DlvHolds(k, ClaimPc)
                          /\ DlvHolds(k, RunPc)' <=> DlvHolds(k, RunPc)
                          /\ DlvHolds(k, ClaimPc \cup RunPc)' <=> DlvHolds(k, ClaimPc \cup RunPc)
    BY <2>1, DlvHoldsFacts, DlvHoldsNext
  <2>5. QED
    BY <2>1, <2>2, <2>3, <2>4 DEF Ownership, OneOwner, NothingOutlives
<1>16. ASSUME NEW i \in Inputs, Approve(i) PROVE Ownership'
  <2>1. /\ Serving /\ Serving' /\ daemon' # "booting" /\ status[i] = "held"
        /\ status' = [status EXCEPT ![i] = "claimed"]
        /\ dlv' = [dlv EXCEPT ![i] = "waiting"]
        /\ UNCHANGED <<daemon, drainPc, drainItem>>
        /\ dlv \in [Inputs -> DlvPc] /\ status \in [Inputs -> Statuses]
    BY <1>16 DEF TypeOK, Statuses, Approve, Decidable, Transition, Serving
  <2>2. ASSUME NEW k \in Inputs
        PROVE  /\ ~(DrainHolds(k, ClaimPc \cup RunPc)' /\ DlvHolds(k, ClaimPc \cup RunPc)')
               /\ status'[k] = "claimed" <=> DrainHolds(k, ClaimPc)' \/ DlvHolds(k, ClaimPc)'
               /\ status'[k] = "running" <=> DrainHolds(k, RunPc)' \/ DlvHolds(k, RunPc)'
    <3>1. /\ ~(DrainHolds(k, ClaimPc \cup RunPc) /\ dlv[k] \in ClaimPc \cup RunPc \cup {"waiting"})
          /\ status[k] = "claimed" <=> DrainHolds(k, ClaimPc) \/ dlv[k] \in ClaimPc \cup {"waiting"}
          /\ status[k] = "running" <=> DrainHolds(k, RunPc) \/ dlv[k] \in RunPc
      BY <2>1, DlvHoldsFacts DEF Ownership, OneOwner
    <3>2. /\ DrainHolds(k, ClaimPc)' <=> DrainHolds(k, ClaimPc)
          /\ DrainHolds(k, RunPc)' <=> DrainHolds(k, RunPc)
          /\ DrainHolds(k, ClaimPc \cup RunPc)' <=> DrainHolds(k, ClaimPc \cup RunPc)
          /\ DrainHolds(k, ClaimPc) \/ DrainHolds(k, RunPc) <=> DrainHolds(k, ClaimPc \cup RunPc)
      BY <2>1 DEF DrainHolds
    <3>3. CASE k = i
      BY <2>1, <3>1, <3>2, <3>3, DlvHoldsNext DEF RunPc
    <3>4. CASE k # i
      BY <2>1, <3>1, <3>2, <3>4, DlvHoldsNext
    <3>5. QED
      BY <3>3, <3>4
  <2>3. QED
    BY <2>1, <2>2 DEF Ownership, OneOwner, NothingOutlives
<1>17. ASSUME NEW i \in Inputs,
             \/ DlvCheck(i) \/ DlvBusy(i) \/ DlvAuthorize(i) \/ DlvBreak(i) \/ DlvPrepared(i) \/ DlvRefuse(i)
      PROVE Ownership'
  <2>1. PICK pc \in ClaimPc \cup {"waiting"} :
            /\ DlvGoto(i, pc) /\ dlv[i] \in ClaimPc \cup {"waiting"}
            /\ UNCHANGED <<status, daemon, drainPc, drainItem>>
    BY <1>17 DEF DlvCheck, DlvBusy, DlvAuthorize, DlvBreak, DlvPrepared, DlvRefuse, DlvFrame, ClaimPc
  <2>2. QED
    BY <2>1, DlvKept DEF ClaimPc
<1>18. ASSUME NEW i \in Inputs, DlvTurnEnds(i) PROVE Ownership'
  <2>1. PICK pc \in RunPc : DlvGoto(i, pc) /\ UNCHANGED <<status, daemon, drainPc, drainItem>> /\ dlv[i] \in RunPc
    BY <1>18 DEF DlvTurnEnds, DlvFrame, Ends, RunPc
  <2>2. QED
    BY <2>1, DlvKept DEF RunPc
<1>19. ASSUME NEW i \in Inputs, DlvStart(i) PROVE Ownership'
  BY <1>19, DlvOwned DEF DlvStart, DlvFrame, Transition, DlvGoto, ClaimPc, RunPc
<1>20. ASSUME NEW i \in Inputs, DlvSettle(i) PROVE Ownership'
  <2>1. Outcome[dlv[i]][2] \notin {"claimed", "running"}
    BY <1>20, OutcomeFacts DEF DlvSettle
  <2>2. dlv[i] \in ClaimPc \cup RunPc /\ dlv[i] # "none"
    BY <1>20 DEF DlvSettle, Outcome, ClaimPc, RunPc
  <2>3. PICK pc \in {"finish_ok", "finish_failed"} :
            /\ status' = [status EXCEPT ![i] = Outcome[dlv[i]][2]]
            /\ dlv' = [dlv EXCEPT ![i] = pc]
            /\ UNCHANGED <<daemon, drainPc, drainItem>>
    BY <1>20 DEF DlvSettle, DlvFrame, Transition, DlvGoto
  <2>4. pc \notin ClaimPc \cup RunPc \cup {"waiting"}
    BY DEF ClaimPc, RunPc
  <2>5. QED
    BY <2>1, <2>2, <2>3, <2>4, DlvOwned
<1>21. ASSUME NEW i \in Inputs, DlvFinish(i) PROVE Ownership'
  <2>1. /\ dlv[i] \in {"finish_ok", "finish_failed"} /\ DlvGoto(i, "none")
        /\ UNCHANGED <<status, daemon, drainPc, drainItem>>
    BY <1>21 DEF DlvFinish, DlvFrame
  <2>2. "none" \notin ClaimPc \cup RunPc \cup {"waiting"} /\ dlv[i] \notin ClaimPc \cup RunPc \cup {"waiting"}
    BY <2>1 DEF ClaimPc, RunPc
  <2>3. QED
    BY <2>1, <2>2, DlvKept
<1> QED
  BY <1>1, <1>2, <1>3, <1>4, <1>5, <1>6, <1>7, <1>8, <1>9, <1>10, <1>11, <1>12, <1>13, <1>14, <1>15,
     <1>16, <1>17, <1>18, <1>19, <1>20, <1>21 DEF Next, ClientStep, InputStep, DrainStep, DlvStep,
     AgentStep, ProcessStep

-----------------------------------------------------------------------------
(* Approvals follow their rows. *)

\* Where a task has claimed a row and has not asked the operator about it.
Unasked == ClaimPc \ {"asked"}

\* A row that waits was never put to the operator, a held row refers to its approval, and
\* a delivery runs under the approval claimed for it.
ApprovalsFollow ==
    \A i \in Inputs :
        /\ status[i] \in {"absent", "pending"} => appr[i] = "none" /\ i \notin linked
        /\ status[i] = "held" => i \in linked
        /\ DrainHolds(i, Unasked) => appr[i] = "none" /\ i \notin linked
        /\ dlv[i] # "none" => /\ appr[i] = "delivering" /\ i \in linked
                              /\ dlv[i] \notin {"busy", "asked", "unbound"}

\* The empty home has no approvals.
LEMMA InitFollows == Init => ApprovalsFollow
  BY AgentAssumption DEF Init, ApprovalsFollow, DrainHolds, Unasked, ClaimPc

\* Rows that end, decisions on pending approvals and tasks that move on keep it.
LEMMA FollowsKept ==
    ASSUME ApprovalsFollow, UNCHANGED linked,
           \A i \in Inputs : status'[i] = status[i] \/ status'[i] \notin {"absent", "pending", "held"},
           \A i \in Inputs : DrainHolds(i, Unasked)' => DrainHolds(i, Unasked),
           \A i \in Inputs : \/ dlv'[i] = "none"
                             \/ dlv[i] # "none" /\ dlv'[i] \notin {"busy", "asked", "unbound"},
           \A i \in Inputs : \/ appr'[i] = appr[i]
                             \/ appr[i] = "pending"
                             \/ appr[i] = "delivering" /\ dlv'[i] = "none"
    PROVE  ApprovalsFollow'
  BY DEF ApprovalsFollow

\* The same when neither approvals nor deliveries move.
LEMMA FollowsDrain ==
    ASSUME TypeOK, ApprovalsFollow, NEW a \in Agents, NEW pc, Goto(a, pc),
           pc \in Unasked => drainPc[a] \in Unasked,
           UNCHANGED <<linked, appr, dlv, drainItem>>,
           \A i \in Inputs : status'[i] = status[i] \/ status'[i] \notin {"absent", "pending", "held"}
    PROVE  ApprovalsFollow'
<1>1. drainPc \in [Agents -> DrainPc]
  BY DEF TypeOK
<1>2. \A i \in Inputs : DrainHolds(i, Unasked)' => DrainHolds(i, Unasked)
  BY <1>1, AgentAssumption DEF DrainHolds, Goto
<1>3. QED
  BY <1>2 DEF ApprovalsFollow

\* A delivery that goes on.
LEMMA FollowsDlv ==
    ASSUME TypeOK, ApprovalsFollow, NEW i \in Inputs, NEW pc, pc \notin {"busy", "asked", "unbound"},
           DlvGoto(i, pc),
           dlv[i] # "none",
           UNCHANGED <<linked, drainPc, drainItem>>,
           UNCHANGED appr \/ (pc = "none" /\ \E s : appr' = [appr EXCEPT ![i] = s]),
           \A j \in Inputs : status'[j] = status[j] \/ status'[j] \notin {"absent", "pending", "held"}
    PROVE  ApprovalsFollow'
<1>1. dlv \in [Inputs -> DlvPc] /\ appr \in [Inputs -> ApprovalStates]
  BY DEF TypeOK
<1>2. \A j \in Inputs : DrainHolds(j, Unasked)' => DrainHolds(j, Unasked)
  BY DEF DrainHolds
<1>3. \A j \in Inputs : dlv'[j] = "none" \/ (dlv[j] # "none" /\ dlv'[j] \notin {"busy", "asked", "unbound"})
  <2> SUFFICES ASSUME NEW j \in Inputs
               PROVE  dlv'[j] = "none" \/ (dlv[j] # "none" /\ dlv'[j] \notin {"busy", "asked", "unbound"})
    OBVIOUS
  <2>1. CASE j = i
    BY <1>1, <2>1 DEF DlvGoto
  <2>2. CASE j # i
    BY <1>1, <2>2 DEF DlvGoto, ApprovalsFollow
  <2>3. QED
    BY <2>1, <2>2
<1>4. \A j \in Inputs : appr'[j] = appr[j] \/ (appr[j] = "delivering" /\ dlv'[j] = "none")
  BY <1>1 DEF DlvGoto, ApprovalsFollow
<1>5. QED
  BY <1>2, <1>3, <1>4, FollowsKept

\* Every step keeps approvals and rows together.
LEMMA FollowsStep == TypeOK /\ Ownership /\ ApprovalsFollow /\ [Next]_vars => ApprovalsFollow'
<1> SUFFICES ASSUME TypeOK, Ownership, ApprovalsFollow, [Next]_vars PROVE ApprovalsFollow'
  OBVIOUS
<1>0. /\ status \in [Inputs -> Statuses] /\ appr \in [Inputs -> ApprovalStates]
      /\ dlv \in [Inputs -> DlvPc] /\ drainPc \in [Agents -> DrainPc]
      /\ AgentOf \in [Inputs -> Agents] /\ linked \subseteq Inputs
  BY AgentAssumption DEF TypeOK, Statuses
<1>1. ASSUME NEW i \in Inputs, NEW position, NEW replaced, Admit(i, position, replaced),
             \A p \in replaced : status[p] = "pending"
      PROVE  ApprovalsFollow'
  <2>1. /\ UNCHANGED <<drainPc, drainItem, dlv>> /\ status[i] = "absent"
        /\ \A j \in Inputs \ {i} : status'[j] = status[j] \/ (status[j] = "pending" /\ status'[j] = "superseded")
    BY <1>1, AdmitFacts
  <2>2. \/ status'[i] = "held" /\ linked' = linked \cup {i} /\ appr' = [appr EXCEPT ![i] = "pending"]
        \/ status'[i] = "pending" /\ UNCHANGED <<linked, appr>>
    BY <1>0, <1>1 DEF Admit
  <2>3. appr[i] = "none" /\ i \notin linked /\ dlv[i] = "none"
    BY <2>1 DEF ApprovalsFollow
  <2>4. ~DrainHolds(i, Unasked)
    BY <1>1, <2>1 DEF Admit, Ownership, OneOwner, DrainHolds, Unasked
  <2>5. \A j \in Inputs : DrainHolds(j, Unasked)' <=> DrainHolds(j, Unasked)
    BY <2>1 DEF DrainHolds
  <2>6. \A j \in Inputs \ {i} : appr'[j] = appr[j] /\ (j \in linked' <=> j \in linked)
    BY <1>0, <2>2
  <2>7. ASSUME NEW j \in Inputs \ {i}
        PROVE  /\ status'[j] \in {"absent", "pending"} => appr'[j] = "none" /\ j \notin linked'
               /\ status'[j] = "held" => j \in linked'
               /\ DrainHolds(j, Unasked)' => appr'[j] = "none" /\ j \notin linked'
               /\ dlv'[j] # "none" => /\ appr'[j] = "delivering" /\ j \in linked'
                                      /\ dlv'[j] \notin {"busy", "asked", "unbound"}
    BY <2>1, <2>5, <2>6 DEF ApprovalsFollow
  <2>8. /\ status'[i] \in {"absent", "pending"} => appr'[i] = "none" /\ i \notin linked'
        /\ status'[i] = "held" => i \in linked'
        /\ ~DrainHolds(i, Unasked)' /\ dlv'[i] = "none"
    BY <2>1, <2>2, <2>3, <2>4, <2>5
  <2>9. QED
    BY <2>7, <2>8 DEF ApprovalsFollow
<1>2. ASSUME NEW i \in Inputs, Enqueue(i) \/ \E p \in Inputs : Edit(i, p) PROVE ApprovalsFollow'
  <2>1. CASE Enqueue(i)
    BY <1>1, <2>1 DEF Enqueue
  <2>2. CASE \E p \in Inputs : Edit(i, p)
    BY <1>1, <2>2 DEF Edit
  <2>3. QED
    BY <1>2, <2>1, <2>2
<1>3. ASSUME NEW i \in Inputs, Remove(i) \/ Acknowledge(i) PROVE ApprovalsFollow'
  BY <1>0, <1>3, FollowsKept DEF Remove, Acknowledge, Close, Transition, apprVars, taskVars, DrainHolds, ApprovalsFollow
<1>4. ASSUME ReconcileHolds \/ Boot PROVE ApprovalsFollow'
  BY <1>4, FollowsKept DEF ReconcileHolds, Boot, ReconcileApprovalHolds, EndedHolds, apprVars, taskVars, DrainHolds, ApprovalsFollow
<1>5. ASSUME NEW a \in Agents,
             \/ ReadControl(a) \/ Pause(a) \/ Resume(a) \/ Stop(a)
             \/ OtherTurnStarts(a) \/ OtherTurnEnds(a) \/ MutationBegins(a) \/ MutationEnds(a)
             \/ PolicyChange(a)
      PROVE ApprovalsFollow'
  BY <1>5 DEF ReadControl, Pause, Resume, Stop, SetPaused, OtherTurnStarts, OtherTurnEnds,
      MutationBegins, MutationEnds, PolicyChange, itemVars, apprVars, taskVars, ApprovalsFollow, DrainHolds
<1>6. ASSUME NEW i \in Inputs, Deny(i) \/ ApproveStale(i) \/ ApproveInvalid(i) \/ PruneTerminalInput(i)
      PROVE ApprovalsFollow'
  BY <1>0, <1>6 DEF Deny, ApproveStale, ApproveInvalid, PruneTerminalInput, Decidable, itemVars, apprVars, taskVars, ApprovalsFollow, DrainHolds
<1>7. ASSUME Shutdown \/ UNCHANGED vars PROVE ApprovalsFollow'
  BY <1>7 DEF Shutdown, vars, itemVars, apprVars, taskVars, ApprovalsFollow, DrainHolds
<1>8. ASSUME Terminate PROVE ApprovalsFollow'
  BY <1>8, AgentAssumption DEF Terminate, ProcessEnds, itemVars, apprVars, ApprovalsFollow, DrainHolds, Unasked, ClaimPc
<1>9. ASSUME NEW i \in Inputs, TerminateInApprove(i) PROVE ApprovalsFollow'
  BY <1>0, <1>9 DEF TerminateInApprove, ApprovalReady, ProcessEnds, itemVars, ApprovalsFollow, DrainHolds, Unasked, ClaimPc
<1>10. ASSUME RecoverInterrupted PROVE ApprovalsFollow'
  BY <1>10 DEF RecoverInterrupted, itemVars, apprVars, taskVars, ApprovalsFollow, DrainHolds
<1>11. ASSUME NEW a \in Agents, DrainClaim(a) PROVE ApprovalsFollow'
  <2>1. PICK i \in Inputs : /\ AgentOf[i] = a /\ status[i] = "pending"
                            /\ status' = [status EXCEPT ![i] = "claimed"]
                            /\ drainItem' = [drainItem EXCEPT ![a] = i]
    BY <1>11 DEF DrainClaim, OpenItems, Transition
  <2>2. /\ drainItem \in [Agents -> Inputs \cup {NoInput}] /\ drainPc' = [drainPc EXCEPT ![a] = "leasing"]
        /\ UNCHANGED <<linked, appr, dlv>>
    BY <1>11 DEF TypeOK, DrainClaim, Goto, apprVars
  <2>3. \A j \in Inputs : DrainHolds(j, Unasked)' => DrainHolds(j, Unasked) \/ j = i
    BY <1>0, <2>1, <2>2 DEF DrainHolds
  <2>4. \A j \in Inputs : j # i => status'[j] = status[j]
    BY <1>0, <2>1
  <2>5. status'[i] = "claimed"
    BY <1>0, <2>1
  <2>6. QED
    BY <2>1, <2>2, <2>3, <2>4, <2>5 DEF ApprovalsFollow
<1>12. ASSUME NEW a \in Agents,
             \/ DrainBusy(a) \/ DrainUnbound(a) \/ DrainAuthorize(a) \/ DrainBreak(a) \/ DrainPrepared(a)
             \/ DrainReleased(a) \/ DrainRebound(a) \/ DrainTurnEnds(a)
      PROVE ApprovalsFollow'
  <2>1. PICK pc : /\ Goto(a, pc) /\ UNCHANGED <<status, linked, appr, dlv, drainItem>>
                  /\ pc \in Unasked => drainPc[a] \in Unasked
    BY <1>12 DEF DrainBusy, DrainUnbound, DrainAuthorize, DrainBreak, DrainPrepared, DrainReleased,
        DrainRebound, DrainTurnEnds, Ends, DrainFrame, apprVars, Unasked, ClaimPc
  <2>2. QED
    BY <2>1, FollowsDrain
<1>13. ASSUME NEW a \in Agents, DrainStart(a) PROVE ApprovalsFollow'
  BY <1>0, <1>13, FollowsDrain DEF DrainStart, DrainFrame, Transition, apprVars, Unasked, ClaimPc
<1>14. ASSUME NEW a \in Agents, DrainDone(a) PROVE ApprovalsFollow'
  <2>1. \A j \in Inputs : DrainHolds(j, Unasked)' => DrainHolds(j, Unasked)
    BY <1>0, <1>14 DEF DrainDone, TypeOK, Goto, DrainHolds, Unasked, ClaimPc
  <2>2. UNCHANGED <<status, linked, appr, dlv>>
    BY <1>14 DEF DrainDone, itemVars, apprVars
  <2>3. QED
    BY <2>1, <2>2 DEF ApprovalsFollow
<1>15. ASSUME NEW a \in Agents, DrainAsk(a) PROVE ApprovalsFollow'
  <2> DEFINE i == drainItem[a]
  <2>1. /\ i \in Inputs /\ AgentOf[i] = a /\ drainPc[a] = "leasing"
        /\ drainPc' = [drainPc EXCEPT ![a] = "asked"] /\ UNCHANGED <<status, linked, dlv, drainItem>>
        /\ appr' = IF appr[i] = "none" THEN [appr EXCEPT ![i] = "pending"] ELSE appr
    BY <1>15 DEF TypeOK, DrainAsk, DrainFrame, Goto
  <2>2. status[i] = "claimed"
    BY <2>1 DEF Ownership, NothingOutlives, OneOwner, DrainHolds, ClaimPc
  <2>3. appr[i] = "none" /\ dlv[i] = "none"
    BY <2>1 DEF ApprovalsFollow, DrainHolds, Unasked, ClaimPc
  <2> HIDE DEF i
  <2>4. \A j \in Inputs : DrainHolds(j, Unasked)' => DrainHolds(j, Unasked) /\ j # i
    BY <1>0, <2>1 DEF DrainHolds, Unasked, i
  <2>5. \A j \in Inputs : j # i => appr'[j] = appr[j]
    BY <1>0, <2>1
  <2>6. QED
    BY <2>1, <2>2, <2>3, <2>4, <2>5 DEF ApprovalsFollow
<1>16. ASSUME NEW a \in Agents, DrainYield(a) PROVE ApprovalsFollow'
  <2> DEFINE i == drainItem[a]
  <2>1. /\ i \in Inputs /\ AgentOf[i] = a /\ drainPc[a] = "prepared"
        /\ drainPc' = [drainPc EXCEPT ![a] = "releasing"] /\ UNCHANGED <<linked, appr, dlv, drainItem>>
        /\ status' = [status EXCEPT ![i] = "pending"]
    BY <1>16 DEF TypeOK, DrainYield, DrainFrame, Transition, Goto, apprVars
  <2>2. appr[i] = "none" /\ i \notin linked
    BY <2>1 DEF ApprovalsFollow, DrainHolds, Unasked, ClaimPc
  <2> HIDE DEF i
  <2>3. \A j \in Inputs : DrainHolds(j, Unasked)' => DrainHolds(j, Unasked)
    BY <1>0, <2>1 DEF DrainHolds, Unasked, ClaimPc
  <2>4. \A j \in Inputs : status'[j] = IF j = i THEN "pending" ELSE status[j]
    BY <1>0, <2>1
  <2>5. QED
    BY <2>1, <2>2, <2>3, <2>4 DEF ApprovalsFollow
<1>17. ASSUME NEW a \in Agents, DrainSettle(a) PROVE ApprovalsFollow'
  <2> DEFINE i == drainItem[a]
             s == Outcome[drainPc[a]][2]
  <2>1. /\ i \in Inputs /\ AgentOf[i] = a /\ drainPc[a] \in DOMAIN Outcome
        /\ drainPc' = [drainPc EXCEPT ![a] = "notifying"] /\ UNCHANGED <<appr, dlv, drainItem>>
        /\ status[i] = Outcome[drainPc[a]][1]
        /\ status' = [status EXCEPT ![i] = s]
        /\ linked' = IF drainPc[a] = "asked" THEN linked \cup {i} ELSE linked
    BY <1>17 DEF TypeOK, DrainSettle, DrainFrame, Transition, Goto, apprVars, Outcome
  <2>2. /\ s \in {"pending", "held"} \cup Terminal \cup {"uncertain"}
        /\ s = "pending" => drainPc[a] = "busy"
        /\ s = "held" <=> drainPc[a] = "asked"
        /\ drainPc[a] \in Unasked \/ drainPc[a] = "asked" \/ s \in Terminal \cup {"uncertain"}
    BY <2>1 DEF Outcome, Terminal, Unasked, ClaimPc
  <2>3. drainPc[a] \in Unasked => appr[i] = "none" /\ i \notin linked
    BY <2>1 DEF ApprovalsFollow, DrainHolds
  <2>4. "busy" \in Unasked /\ "notifying" \notin Unasked
    BY DEF Unasked, ClaimPc
  <2> HIDE DEF i, s
  <2>5. \A j \in Inputs : DrainHolds(j, Unasked)' => DrainHolds(j, Unasked) /\ j # i
    BY <1>0, <2>1, <2>4 DEF DrainHolds
  <2>6. \A j \in Inputs : j # i => status'[j] = status[j] /\ (j \in linked' <=> j \in linked)
    BY <1>0, <2>1
  <2>7. status'[i] = s
    BY <1>0, <2>1
  <2>8. QED
    BY <2>1, <2>2, <2>3, <2>4, <2>5, <2>6, <2>7 DEF ApprovalsFollow, Terminal
<1>18. ASSUME NEW i \in Inputs, Approve(i) PROVE ApprovalsFollow'
  <2>1. /\ Serving /\ i \in linked /\ status[i] = "held"
        /\ appr' = [appr EXCEPT ![i] = "delivering"] /\ status' = [status EXCEPT ![i] = "claimed"]
        /\ dlv' = [dlv EXCEPT ![i] = "waiting"] /\ UNCHANGED <<linked, drainPc, drainItem>>
    BY <1>18 DEF Approve, Decidable, Transition, ItemFrame
  <2>2. ~DrainHolds(i, Unasked)
    BY <2>1 DEF Ownership, OneOwner, DrainHolds, Unasked
  <2>3. \A j \in Inputs : DrainHolds(j, Unasked)' <=> DrainHolds(j, Unasked)
    BY <2>1 DEF DrainHolds
  <2>4. \A j \in Inputs : j # i => status'[j] = status[j] /\ appr'[j] = appr[j] /\ dlv'[j] = dlv[j]
    BY <1>0, <2>1
  <2>5. status'[i] = "claimed" /\ appr'[i] = "delivering" /\ dlv'[i] = "waiting"
    BY <1>0, <2>1
  <2>6. QED
    BY <2>1, <2>2, <2>3, <2>4, <2>5 DEF ApprovalsFollow
<1>19. ASSUME NEW i \in Inputs,
             \/ DlvCheck(i) \/ DlvBusy(i) \/ DlvAuthorize(i) \/ DlvBreak(i) \/ DlvPrepared(i)
             \/ DlvRefuse(i) \/ DlvTurnEnds(i)
      PROVE ApprovalsFollow'
  <2>1. PICK pc \in DlvPc \ {"none", "busy", "asked", "unbound"} :
            /\ DlvGoto(i, pc) /\ dlv[i] # "none"
            /\ UNCHANGED <<status, linked, appr, drainPc, drainItem>>
    BY <1>19, PcFacts DEF DlvCheck, DlvBusy, DlvAuthorize, DlvBreak, DlvPrepared, DlvRefuse, DlvTurnEnds, Ends,
        DlvFrame, ItemFrame
  <2>2. QED
    BY <2>1, FollowsDlv
<1>20. ASSUME NEW i \in Inputs, DlvStart(i) PROVE ApprovalsFollow'
  BY <1>0, <1>20, FollowsDlv DEF DlvStart, DlvFrame, ItemFrame, Transition
<1>21. ASSUME NEW i \in Inputs, DlvSettle(i) PROVE ApprovalsFollow'
  <2>1. dlv[i] \in DOMAIN Outcome \ {"busy", "asked", "unbound"}
    BY <1>21 DEF DlvSettle, ApprovalsFollow, Outcome
  <2>2. Outcome[dlv[i]][2] \in Terminal \cup {"uncertain"} /\ dlv[i] # "none"
    BY <2>1 DEF Outcome, Terminal
  <2>3. PICK pc \in {"finish_ok", "finish_failed"} :
            DlvGoto(i, pc) /\ UNCHANGED <<linked, appr, drainPc, drainItem>>
    BY <1>21 DEF DlvSettle, DlvFrame, ItemFrame
  <2>4. \A j \in Inputs : status'[j] = status[j] \/ status'[j] \notin {"absent", "pending", "held"}
    BY <1>0, <1>21, <2>2 DEF DlvSettle, Transition, Terminal
  <2>5. QED
    BY <2>2, <2>3, <2>4, FollowsDlv
<1>22. ASSUME NEW i \in Inputs, DlvFinish(i) PROVE ApprovalsFollow'
  BY <1>22, FollowsDlv DEF DlvFinish, DlvFrame, ItemFrame
<1> QED
  BY <1>2, <1>3, <1>4, <1>5, <1>6, <1>7, <1>8, <1>9, <1>10, <1>11, <1>12, <1>13, <1>14, <1>15,
     <1>16, <1>17, <1>18, <1>19, <1>20, <1>21, <1>22 DEF Next, ClientStep, InputStep, DrainStep, DlvStep,
     AgentStep, ProcessStep

-----------------------------------------------------------------------------
(* The bytes of an input. *)

\* An approval that can still be decided or is being delivered.
LiveApproval(i) == i \in linked /\ appr[i] \in {"pending", "delivering"}

\* Bytes are kept by every step after which nothing needs them that did not need them before.
LEMMA PayloadKept ==
    ASSUME PayloadOutlivesUse,
           \A i \in Inputs : i \in retained => i \in retained' \/ (~Unsettled(i)' /\ ~LiveApproval(i)'),
           \A i \in Inputs : Unsettled(i)' \/ LiveApproval(i)' => Unsettled(i) \/ LiveApproval(i) \/ i \in retained'
    PROVE  PayloadOutlivesUse'
  BY DEF PayloadOutlivesUse, LiveApproval

\* The same, from what the step does to a row and its approval.
LEMMA PayloadRows ==
    ASSUME PayloadOutlivesUse, UNCHANGED retained,
           \A i \in Inputs : status'[i] = status[i] \/ status[i] \in Open,
           \A i \in Inputs : i \in linked' => i \in linked \/ status[i] \in Open,
           \A i \in Inputs : \/ appr'[i] = appr[i] \/ appr'[i] \notin {"pending", "delivering"}
                             \/ appr[i] \in {"pending", "delivering"} \/ status[i] \in Open
    PROVE  PayloadOutlivesUse'
<1>1. \A i \in Inputs : Unsettled(i)' \/ LiveApproval(i)' => Unsettled(i) \/ LiveApproval(i)
  BY DEF Unsettled, LiveApproval, Open
<1>2. QED
  BY <1>1, PayloadKept

\* Every step keeps the bytes somebody may still need.
LEMMA PayloadStep ==
    TypeOK /\ Ownership /\ ApprovalsFollow /\ PayloadOutlivesUse /\ [Next]_vars => PayloadOutlivesUse'
<1> SUFFICES ASSUME TypeOK, Ownership, ApprovalsFollow, PayloadOutlivesUse, [Next]_vars
             PROVE  PayloadOutlivesUse'
  OBVIOUS
<1>0. /\ status \in [Inputs -> Statuses] /\ appr \in [Inputs -> ApprovalStates]
      /\ AgentOf \in [Inputs -> Agents]
  BY AgentAssumption DEF TypeOK, Statuses
<1>1. ASSUME NEW i \in Inputs, NEW position, NEW replaced, Admit(i, position, replaced),
             \A p \in replaced : status[p] = "pending"
      PROVE  PayloadOutlivesUse'
  <2>1. retained' = retained \cup {i}
    BY <1>1 DEF Admit
  <2>2. ASSUME NEW j \in Inputs, j # i, Unsettled(j)' \/ LiveApproval(j)'
        PROVE  Unsettled(j) \/ LiveApproval(j)
    <3>1. status'[j] = status[j] \/ status'[j] = "superseded"
      BY <1>1, <2>2, AdmitFacts
    <3>2. appr'[j] = appr[j] /\ (j \in linked' => j \in linked)
      BY <1>0, <1>1, <2>2 DEF Admit
    <3>3. QED
      BY <2>2, <3>1, <3>2 DEF Unsettled, LiveApproval
  <2>3. QED
    BY <2>1, <2>2, PayloadKept
<1>2. ASSUME NEW i \in Inputs, Enqueue(i) \/ \E p \in Inputs : Edit(i, p) PROVE PayloadOutlivesUse'
  <2>1. CASE Enqueue(i)
    BY <1>1, <2>1 DEF Enqueue
  <2>2. CASE \E p \in Inputs : Edit(i, p)
    BY <1>1, <2>2 DEF Edit
  <2>3. QED
    BY <1>2, <2>1, <2>2
<1>3. ASSUME NEW i \in Inputs, Remove(i) \/ Acknowledge(i) PROVE PayloadOutlivesUse'
  BY <1>0, <1>3, PayloadRows DEF Remove, Acknowledge, Close, Transition, apprVars, Open
<1>4. ASSUME ReconcileHolds \/ Boot PROVE PayloadOutlivesUse'
  BY <1>4, PayloadRows DEF ReconcileHolds, Boot, ReconcileApprovalHolds, EndedHolds, apprVars, Open
<1>5. ASSUME NEW a \in Agents,
             \/ ReadControl(a) \/ Pause(a) \/ Resume(a) \/ Stop(a)
             \/ OtherTurnStarts(a) \/ OtherTurnEnds(a) \/ MutationBegins(a) \/ MutationEnds(a)
             \/ PolicyChange(a)
      PROVE PayloadOutlivesUse'
  BY <1>5, PayloadRows DEF ReadControl, Pause, Resume, Stop, SetPaused, OtherTurnStarts, OtherTurnEnds,
      MutationBegins, MutationEnds, PolicyChange, itemVars, apprVars
<1>6. ASSUME NEW i \in Inputs, Deny(i) \/ ApproveStale(i) \/ ApproveInvalid(i) PROVE PayloadOutlivesUse'
  BY <1>0, <1>6, PayloadRows DEF Deny, ApproveStale, ApproveInvalid, itemVars
<1>7. ASSUME NEW i \in Inputs, PruneTerminalInput(i) PROVE PayloadOutlivesUse'
  BY <1>7, PayloadKept DEF PruneTerminalInput, Prunable, apprVars, Unsettled, LiveApproval, Terminal
<1>8. ASSUME Shutdown \/ Terminate \/ UNCHANGED vars PROVE PayloadOutlivesUse'
  BY <1>8, PayloadRows DEF Shutdown, Terminate, vars, itemVars, apprVars
<1>9. ASSUME NEW i \in Inputs, TerminateInApprove(i) PROVE PayloadOutlivesUse'
  BY <1>0, <1>9, PayloadRows DEF TerminateInApprove, Decidable, itemVars
<1>10. ASSUME RecoverInterrupted PROVE PayloadOutlivesUse'
  BY <1>10, PayloadRows DEF RecoverInterrupted, Interrupted, apprVars, Open
<1>11. ASSUME NEW a \in Agents,
             \/ DrainClaim(a) \/ DrainBusy(a) \/ DrainUnbound(a) \/ DrainAuthorize(a) \/ DrainBreak(a)
             \/ DrainPrepared(a) \/ DrainYield(a) \/ DrainReleased(a) \/ DrainRebound(a) \/ DrainStart(a)
             \/ DrainTurnEnds(a) \/ DrainDone(a)
      PROVE PayloadOutlivesUse'
  <2>1. UNCHANGED <<retained, linked, appr>>
    BY <1>11 DEF DrainClaim, DrainBusy, DrainUnbound, DrainAuthorize, DrainBreak, DrainPrepared, DrainYield,
        DrainReleased, DrainRebound, DrainStart, DrainTurnEnds, DrainDone, DrainFrame, itemVars, apprVars
  <2>2. UNCHANGED status \/ \E i, from, to : from \in Open /\ Transition(i, from, to)
    BY <1>11 DEF DrainClaim, DrainBusy, DrainUnbound, DrainAuthorize, DrainBreak, DrainPrepared, DrainYield,
        DrainReleased, DrainRebound, DrainStart, DrainTurnEnds, DrainDone, itemVars, Open
  <2>3. QED
    BY <1>0, <2>1, <2>2, PayloadRows DEF Transition
<1>12. ASSUME NEW a \in Agents, DrainAsk(a) PROVE PayloadOutlivesUse'
  <2>1. /\ drainItem[a] \in Inputs /\ AgentOf[drainItem[a]] = a /\ drainPc[a] = "leasing"
        /\ UNCHANGED <<status, linked, retained>>
    BY <1>12 DEF TypeOK, DrainAsk, DrainFrame
  <2>2. status[drainItem[a]] = "claimed"
    BY <2>1 DEF Ownership, NothingOutlives, OneOwner, DrainHolds, ClaimPc
  <2>3. QED
    BY <1>0, <1>12, <2>1, <2>2, PayloadRows DEF DrainAsk, Open
<1>13. ASSUME NEW a \in Agents, DrainSettle(a) PROVE PayloadOutlivesUse'
  <2>1. Outcome[drainPc[a]][1] \in Open
    BY <1>13, OutcomeFacts DEF DrainSettle, Open
  <2>2. /\ UNCHANGED <<retained, appr>> /\ status[drainItem[a]] \in Open
        /\ status' = [status EXCEPT ![drainItem[a]] = Outcome[drainPc[a]][2]]
        /\ linked' \subseteq linked \cup {drainItem[a]}
    BY <1>13, <2>1 DEF DrainSettle, DrainFrame, Transition, apprVars
  <2>3. QED
    BY <1>0, <2>2, PayloadRows
<1>14. ASSUME NEW i \in Inputs, Approve(i) PROVE PayloadOutlivesUse'
  BY <1>0, <1>14, PayloadRows DEF Approve, Decidable, ItemFrame, Transition, Open
<1>15. ASSUME NEW i \in Inputs,
             \/ DlvCheck(i) \/ DlvBusy(i) \/ DlvAuthorize(i) \/ DlvBreak(i) \/ DlvPrepared(i) \/ DlvStart(i)
             \/ DlvRefuse(i) \/ DlvTurnEnds(i)
      PROVE PayloadOutlivesUse'
  <2>1. UNCHANGED <<retained, linked, appr>>
    BY <1>15 DEF DlvCheck, DlvBusy, DlvAuthorize, DlvBreak, DlvPrepared, DlvStart, DlvRefuse, DlvTurnEnds,
        DlvFrame, ItemFrame
  <2>2. UNCHANGED status \/ Transition(i, "claimed", "running")
    BY <1>15 DEF DlvCheck, DlvBusy, DlvAuthorize, DlvBreak, DlvPrepared, DlvStart, DlvRefuse, DlvTurnEnds
  <2>3. QED
    BY <1>0, <2>1, <2>2, PayloadRows DEF Transition, Open
<1>16. ASSUME NEW i \in Inputs, DlvSettle(i) PROVE PayloadOutlivesUse'
  <2>1. Outcome[dlv[i]][1] \in Open
    BY <1>16, OutcomeFacts DEF DlvSettle, Open
  <2>2. QED
    BY <1>0, <1>16, <2>1, PayloadRows DEF DlvSettle, DlvFrame, ItemFrame, Transition
<1>17. ASSUME NEW i \in Inputs, DlvFinish(i) PROVE PayloadOutlivesUse'
  BY <1>0, <1>17, PayloadRows DEF DlvFinish, DlvFrame, ItemFrame
<1> QED
  BY <1>2, <1>3, <1>4, <1>5, <1>6, <1>7, <1>8, <1>9, <1>10, <1>11, <1>12, <1>13, <1>14, <1>15,
     <1>16, <1>17 DEF Next, ClientStep, InputStep, DrainStep, DlvStep, AgentStep, ProcessStep

-----------------------------------------------------------------------------
(* One turn per Agent, and the lifecycle lease. *)

\* The task is between registerAgent and unregisterAgent.
DrainTurn(a) == drainPc[a] \in RegisteredPc
DlvTurn(i)   == dlv[i] \in RegisteredPc

\* An Agent's turns exclude each other, and its registration is there while one runs.
TurnsExclude(a) ==
    /\ a \in other => a \in active /\ ~DrainTurn(a)
    /\ DrainTurn(a) => a \in active
    /\ \A i \in Inputs : AgentOf[i] = a /\ DlvTurn(i) =>
            /\ a \in active /\ a \notin other /\ ~DrainTurn(a)
            /\ \A j \in Inputs : AgentOf[j] = a /\ DlvTurn(j) => j = i
    /\ a \in active => a \in other \/ DrainTurn(a) \/ \E i \in Inputs : AgentOf[i] = a /\ DlvTurn(i)

\* A preparation holds the lease; a mutation holds it while no turn is registered.
LeaseHeld(a) ==
    /\ a \in mutating => a \in leased /\ a \notin active
    /\ drainPc[a] = "preparing" => a \in leased
    /\ \A i \in Inputs : AgentOf[i] = a /\ dlv[i] = "preparing" => a \in leased

\* Both, for every Agent.
Registry == \A a \in Agents : TurnsExclude(a) /\ LeaseHeld(a)

\* The empty home has no turns.
LEMMA InitRegistry == Init => Registry
  BY AgentAssumption DEF Init, Registry, TurnsExclude, LeaseHeld, DrainTurn, DlvTurn, RegisteredPc

\* What happens at one Agent leaves the registrations of the others alone.
LEMMA Elsewhere ==
    ASSUME Registry, NEW b \in Agents,
           \A a \in Agents : a # b =>
              /\ a \in active' <=> a \in active
              /\ a \in other' <=> a \in other
              /\ a \in mutating' <=> a \in mutating
              /\ a \in leased' <=> a \in leased
              /\ drainPc'[a] = drainPc[a],
           \A i \in Inputs : AgentOf[i] # b => dlv'[i] = dlv[i],
           TurnsExclude(b)', LeaseHeld(b)'
    PROVE  Registry'
<1>1. ASSUME NEW a \in Agents, a # b PROVE TurnsExclude(a)' /\ LeaseHeld(a)'
  <2>1. TurnsExclude(a) /\ LeaseHeld(a)
    BY DEF Registry
  <2>2. /\ a \in active' <=> a \in active
        /\ a \in other' <=> a \in other
        /\ a \in mutating' <=> a \in mutating
        /\ a \in leased' <=> a \in leased
        /\ drainPc'[a] = drainPc[a]
    BY <1>1
  <2>3. \A i \in Inputs : AgentOf[i] = a => dlv'[i] = dlv[i]
    BY <1>1
  <2>4. TurnsExclude(a)'
    BY <2>1, <2>2, <2>3 DEF TurnsExclude, DrainTurn, DlvTurn
  <2>5. LeaseHeld(a)'
    BY <2>1, <2>2, <2>3 DEF LeaseHeld
  <2>6. QED
    BY <2>4, <2>5
<1>2. QED
  BY <1>1 DEF Registry

\* A step of a drain task that registers its turn, ends it or leaves it as it was.
LEMMA DrainRegistry ==
    ASSUME TypeOK, Registry, NEW a \in Agents, NEW pc, Goto(a, pc),
           UNCHANGED <<dlv, other, mutating>>,
           \/ /\ ~DrainTurn(a) /\ pc = "preparing" /\ a \notin active /\ a \notin leased
              /\ active' = active \cup {a} /\ leased' = leased \cup {a}
           \/ /\ DrainTurn(a) /\ pc \notin RegisteredPc
              /\ active' = active \ {a} /\ leased' \in {leased, leased \ {a}}
           \/ /\ DrainTurn(a) <=> pc \in RegisteredPc
              /\ pc # "preparing" /\ UNCHANGED active
              /\ leased' = leased \/ (leased' = leased \ {a} /\ drainPc[a] = "preparing")
    PROVE  Registry'
<1>0. drainPc \in [Agents -> DrainPc] /\ "preparing" \in RegisteredPc
  BY DEF TypeOK, RegisteredPc
<1>1. drainPc'[a] = pc /\ \A b \in Agents : b # a => drainPc'[b] = drainPc[b]
  BY <1>0 DEF Goto
<1>2. \A b \in Agents : b # a => (b \in active' <=> b \in active) /\ (b \in leased' <=> b \in leased)
  OBVIOUS
<1>3. TurnsExclude(a) /\ LeaseHeld(a)
  BY DEF Registry
<1>4. TurnsExclude(a)'
  <2>1. /\ DrainTurn(a)' <=> pc \in RegisteredPc
        /\ a \in other' <=> a \in other
        /\ \A i \in Inputs : DlvTurn(i)' <=> DlvTurn(i)
    BY <1>1 DEF DrainTurn, DlvTurn
  <2>2. CASE ~DrainTurn(a) /\ pc = "preparing" /\ a \notin active /\ active' = active \cup {a}
    BY <1>0, <1>3, <2>1, <2>2 DEF TurnsExclude
  <2>3. CASE DrainTurn(a) /\ pc \notin RegisteredPc /\ active' = active \ {a}
    BY <1>3, <2>1, <2>3 DEF TurnsExclude
  <2>4. CASE (DrainTurn(a) <=> pc \in RegisteredPc) /\ UNCHANGED active
    BY <1>3, <2>1, <2>4 DEF TurnsExclude
  <2>5. QED
    BY <2>2, <2>3, <2>4
<1>5. LeaseHeld(a)'
  <2>1. drainPc[a] = "preparing" => DrainTurn(a)
    BY <1>0 DEF DrainTurn
  <2>2. \A i \in Inputs : dlv[i] = "preparing" => DlvTurn(i)
    BY <1>0 DEF DlvTurn
  <2>3. a \in mutating' => a \in leased' /\ a \notin active'
    BY <1>3, <2>1 DEF TurnsExclude, LeaseHeld
  <2>4. drainPc'[a] = "preparing" => a \in leased'
    BY <1>0, <1>1
  <2>5. \A i \in Inputs : AgentOf[i] = a /\ dlv'[i] = "preparing" => a \in leased'
    BY <1>3, <2>1, <2>2 DEF TurnsExclude, LeaseHeld
  <2>6. QED
    BY <2>3, <2>4, <2>5 DEF LeaseHeld
<1>6. QED
  BY <1>1, <1>2, <1>4, <1>5, Elsewhere

\* The same of a delivery.
LEMMA DlvRegistry ==
    ASSUME TypeOK, Registry, NEW i \in Inputs, NEW pc, DlvGoto(i, pc),
           UNCHANGED <<drainPc, other, mutating>>,
           LET a == AgentOf[i] IN
           \/ /\ ~DlvTurn(i) /\ pc = "preparing" /\ a \notin active /\ a \notin leased
              /\ active' = active \cup {a} /\ leased' = leased \cup {a}
           \/ /\ DlvTurn(i) /\ pc \notin RegisteredPc
              /\ active' = active \ {a} /\ leased' \in {leased, leased \ {a}}
           \/ /\ DlvTurn(i) <=> pc \in RegisteredPc
              /\ pc # "preparing" /\ UNCHANGED active
              /\ leased' = leased \/ (leased' = leased \ {a} /\ dlv[i] = "preparing")
    PROVE  Registry'
<1> DEFINE a == AgentOf[i]
<1>0. dlv \in [Inputs -> DlvPc] /\ a \in Agents /\ "preparing" \in RegisteredPc
  BY AgentAssumption DEF TypeOK, RegisteredPc
<1>1. dlv'[i] = pc /\ \A j \in Inputs : j # i => dlv'[j] = dlv[j]
  BY <1>0 DEF DlvGoto
<1>2. \A b \in Agents : b # a => (b \in active' <=> b \in active) /\ (b \in leased' <=> b \in leased)
  OBVIOUS
<1>3. TurnsExclude(a) /\ LeaseHeld(a)
  BY <1>0 DEF Registry
<1>4. TurnsExclude(a)'
  <2>1. /\ DrainTurn(a)' <=> DrainTurn(a)
        /\ a \in other' <=> a \in other
        /\ DlvTurn(i)' <=> pc \in RegisteredPc
        /\ \A j \in Inputs : j # i => (DlvTurn(j)' <=> DlvTurn(j))
    BY <1>1 DEF DrainTurn, DlvTurn
  <2> HIDE DEF a
  <2>2. CASE ~DlvTurn(i) /\ pc = "preparing" /\ a \notin active /\ active' = active \cup {a}
    <3>1. /\ ~DrainTurn(a) /\ a \notin other
          /\ \A j \in Inputs : AgentOf[j] = a => ~DlvTurn(j)
      BY <1>3, <2>2 DEF TurnsExclude
    <3>2. \A j \in Inputs : AgentOf[j] = a /\ DlvTurn(j)' => j = i
      BY <2>1, <3>1
    <3>3. QED
      BY <1>0, <2>1, <2>2, <3>1, <3>2 DEF TurnsExclude, a
  <2>3. CASE DlvTurn(i) /\ pc \notin RegisteredPc /\ active' = active \ {a}
    <3>1. /\ ~DrainTurn(a) /\ a \notin other
          /\ \A j \in Inputs : AgentOf[j] = a /\ DlvTurn(j) => j = i
      BY <1>3, <2>3 DEF TurnsExclude, a
    <3>2. \A j \in Inputs : AgentOf[j] = a => ~DlvTurn(j)'
      BY <2>1, <2>3, <3>1
    <3>3. QED
      BY <2>1, <2>3, <3>1, <3>2 DEF TurnsExclude
  <2>4. CASE (DlvTurn(i) <=> pc \in RegisteredPc) /\ UNCHANGED active
    <3>1. \A j \in Inputs : DlvTurn(j)' <=> DlvTurn(j)
      BY <2>1, <2>4
    <3>2. QED
      BY <1>3, <2>1, <2>4, <3>1 DEF TurnsExclude
  <2>5. QED
    BY <2>2, <2>3, <2>4 DEF a
<1>5. LeaseHeld(a)'
  <2>1. drainPc[a] = "preparing" => DrainTurn(a)
    BY <1>0 DEF DrainTurn
  <2>2. \A j \in Inputs : dlv[j] = "preparing" => DlvTurn(j)
    BY <1>0 DEF DlvTurn
  <2>3. a \in mutating' => a \in leased' /\ a \notin active'
    BY <1>3, <2>2 DEF TurnsExclude, LeaseHeld
  <2>4. drainPc'[a] = "preparing" => a \in leased'
    BY <1>3, <2>1, <2>2 DEF TurnsExclude, LeaseHeld
  <2>5. \A j \in Inputs : AgentOf[j] = a /\ dlv'[j] = "preparing" => a \in leased'
    BY <1>0, <1>1, <1>3, <2>2 DEF TurnsExclude, LeaseHeld
  <2>6. QED
    BY <2>3, <2>4, <2>5 DEF LeaseHeld
<1>6. QED
  BY <1>0, <1>1, <1>2, <1>4, <1>5, Elsewhere

\* Steps that leave tasks and registrations alone.
LEMMA IdleRegistry ==
    ASSUME Registry, UNCHANGED <<drainPc, dlv, active, leased, mutating, other>>
    PROVE  Registry'
  BY DEF Registry, TurnsExclude, LeaseHeld, DrainTurn, DlvTurn

\* Every step keeps one turn per Agent and the lease with its holder.
LEMMA RegistryStep == TypeOK /\ ApprovalsFollow /\ Registry /\ [Next]_vars => Registry'
<1> SUFFICES ASSUME TypeOK, ApprovalsFollow, Registry, [Next]_vars PROVE Registry'
  OBVIOUS
<1>0. \A pc \in DrainPc \cup DlvPc : pc \in RegisteredPc <=> pc \in {"preparing", "prepared", "running", "releasing"}
  BY DEF RegisteredPc
<1>1. ASSUME NEW i \in Inputs,
             \/ Enqueue(i) \/ (\E p \in Inputs : Edit(i, p)) \/ Remove(i) \/ Acknowledge(i)
             \/ Deny(i) \/ ApproveStale(i) \/ ApproveInvalid(i) \/ PruneTerminalInput(i)
      PROVE Registry'
  BY <1>1, IdleRegistry DEF Enqueue, Edit, Admit, Remove, Acknowledge, Close, Deny, ApproveStale,
      ApproveInvalid, PruneTerminalInput, taskVars, turnVars
<1>2. ASSUME ReconcileHolds \/ RecoverInterrupted \/ Boot \/ Shutdown \/ UNCHANGED vars PROVE Registry'
  BY <1>2, IdleRegistry DEF ReconcileHolds, RecoverInterrupted, Boot, Shutdown, vars, taskVars, turnVars
<1>3. ASSUME Terminate \/ \E i \in Inputs : TerminateInApprove(i) PROVE Registry'
  BY <1>3, AgentAssumption DEF Terminate, TerminateInApprove, ProcessEnds, Registry, TurnsExclude, LeaseHeld,
      DrainTurn, DlvTurn, RegisteredPc
<1>4. ASSUME NEW a \in Agents, ReadControl(a) \/ Pause(a) \/ Resume(a) \/ Stop(a) \/ PolicyChange(a)
      PROVE Registry'
  BY <1>4, IdleRegistry DEF ReadControl, Pause, Resume, Stop, SetPaused, PolicyChange, taskVars, turnVars
<1>5. ASSUME NEW a \in Agents,
             OtherTurnStarts(a) \/ OtherTurnEnds(a) \/ MutationBegins(a) \/ MutationEnds(a)
      PROVE Registry'
  <2>1. UNCHANGED <<drainPc, dlv>>
    BY <1>5 DEF OtherTurnStarts, OtherTurnEnds, MutationBegins, MutationEnds, taskVars
  <2>2. \A b \in Agents : b # a =>
              /\ b \in active' <=> b \in active
              /\ b \in other' <=> b \in other
              /\ b \in mutating' <=> b \in mutating
              /\ b \in leased' <=> b \in leased
    BY <1>5 DEF OtherTurnStarts, OtherTurnEnds, MutationBegins, MutationEnds, Unregister
  <2>3. TurnsExclude(a) /\ LeaseHeld(a)
    BY DEF Registry
  <2>4. CASE OtherTurnStarts(a)
    <3>1. TurnsExclude(a)' /\ LeaseHeld(a)'
      BY <2>1, <2>3, <2>4 DEF OtherTurnStarts, TurnsExclude, LeaseHeld, DrainTurn, DlvTurn
    <3>2. QED
      BY <2>1, <2>2, <3>1, Elsewhere
  <2>5. CASE OtherTurnEnds(a)
    <3>1. TurnsExclude(a)' /\ LeaseHeld(a)'
      BY <2>1, <2>3, <2>5 DEF OtherTurnEnds, Unregister, TurnsExclude, LeaseHeld, DrainTurn, DlvTurn
    <3>2. QED
      BY <2>1, <2>2, <3>1, Elsewhere
  <2>6. CASE MutationBegins(a)
    <3>1. TurnsExclude(a)' /\ LeaseHeld(a)'
      BY <2>1, <2>3, <2>6 DEF MutationBegins, TurnsExclude, LeaseHeld, DrainTurn, DlvTurn
    <3>2. QED
      BY <2>1, <2>2, <3>1, Elsewhere
  <2>7. CASE MutationEnds(a)
    <3>1. TurnsExclude(a)' /\ LeaseHeld(a)'
      BY <2>1, <2>3, <2>7 DEF MutationEnds, TurnsExclude, LeaseHeld, DrainTurn, DlvTurn, RegisteredPc
    <3>2. QED
      BY <2>1, <2>2, <3>1, Elsewhere
  <2>8. QED
    BY <1>5, <2>4, <2>5, <2>6, <2>7
<1>6. ASSUME NEW a \in Agents, DrainAuthorize(a) PROVE Registry'
  BY <1>6, DrainRegistry DEF DrainAuthorize, DrainFrame, DrainTurn, RegisteredPc
<1>7. ASSUME NEW a \in Agents, DrainBreak(a) \/ DrainReleased(a) \/ DrainRebound(a) PROVE Registry'
  BY <1>7, DrainRegistry DEF DrainBreak, DrainReleased, DrainRebound, DrainFrame, Unregister, DrainTurn, RegisteredPc
<1>8. ASSUME NEW a \in Agents, DrainTurnEnds(a) PROVE Registry'
  <2>1. PICK pc \in {"completed", "failed", "unconfirmed", "cancelled"} : Goto(a, pc)
    BY <1>8 DEF DrainTurnEnds, Ends
  <2>2. QED
    BY <1>8, <2>1, DrainRegistry DEF DrainTurnEnds, DrainFrame, Unregister, DrainTurn, RegisteredPc
<1>9. ASSUME NEW a \in Agents,
             \/ DrainClaim(a) \/ DrainBusy(a) \/ DrainUnbound(a) \/ DrainAsk(a) \/ DrainPrepared(a)
             \/ DrainYield(a) \/ DrainStart(a) \/ DrainSettle(a) \/ DrainDone(a)
      PROVE Registry'
  <2>1. PICK pc \in {"leasing", "busy", "unbound", "asked", "prepared", "releasing", "running", "notifying", "idle"} :
            /\ Goto(a, pc) /\ UNCHANGED <<dlv, other, mutating, active>>
            /\ DrainTurn(a) <=> pc \in RegisteredPc
            /\ leased' = leased \/ (leased' = leased \ {a} /\ drainPc[a] = "preparing")
    BY <1>9 DEF DrainClaim, DrainBusy, DrainUnbound, DrainAsk, DrainPrepared, DrainYield, DrainStart,
        DrainSettle, DrainDone, DrainFrame, turnVars, DrainTurn, RegisteredPc, Outcome
  <2>2. QED
    BY <2>1, DrainRegistry
<1>10. ASSUME NEW i \in Inputs, Approve(i) PROVE Registry'
  <2>1. appr[i] = "pending" /\ DlvGoto(i, "waiting") /\ UNCHANGED <<drainPc, other, mutating, active, leased>>
    BY <1>10 DEF Approve, Decidable, DlvGoto, turnVars
  <2>2. dlv[i] = "none"
    BY <2>1 DEF ApprovalsFollow
  <2>3. QED
    BY <2>1, <2>2, DlvRegistry DEF DlvTurn, RegisteredPc
<1>11. ASSUME NEW i \in Inputs, DlvAuthorize(i) PROVE Registry'
  BY <1>11, DlvRegistry DEF DlvAuthorize, DlvFrame, DlvTurn, RegisteredPc
<1>12. ASSUME NEW i \in Inputs, DlvRefuse(i) PROVE Registry'
  BY <1>12, DlvRegistry DEF DlvRefuse, DlvFrame, Unregister, DlvTurn, RegisteredPc
<1>13. ASSUME NEW i \in Inputs, DlvBreak(i) PROVE Registry'
  BY <1>13, DlvRegistry DEF DlvBreak, DlvFrame, Unregister, DlvTurn, RegisteredPc
<1>14. ASSUME NEW i \in Inputs, DlvTurnEnds(i) PROVE Registry'
  <2>1. PICK pc \in {"completed", "failed", "unconfirmed", "cancelled"} : DlvGoto(i, pc)
    BY <1>14 DEF DlvTurnEnds, Ends
  <2>2. QED
    BY <1>14, <2>1, DlvRegistry DEF DlvTurnEnds, DlvFrame, Unregister, DlvTurn, RegisteredPc
<1>15. ASSUME NEW i \in Inputs,
             \/ DlvCheck(i) \/ DlvBusy(i) \/ DlvPrepared(i) \/ DlvStart(i) \/ DlvSettle(i) \/ DlvFinish(i)
      PROVE Registry'
  <2>1. PICK pc \in {"leasing", "broken", "waiting", "prepared", "running", "finish_ok", "finish_failed", "none"} :
            /\ DlvGoto(i, pc) /\ UNCHANGED <<drainPc, other, mutating, active>>
            /\ DlvTurn(i) <=> pc \in RegisteredPc
            /\ leased' = leased \/ (leased' = leased \ {AgentOf[i]} /\ dlv[i] = "preparing")
    BY <1>15 DEF DlvCheck, DlvBusy, DlvPrepared, DlvStart, DlvSettle, DlvFinish, DlvFrame, DlvTurn, RegisteredPc,
        Outcome
  <2>2. QED
    BY <2>1, DlvRegistry
<1> QED
  BY <1>1, <1>2, <1>3, <1>4, <1>5, <1>6, <1>7, <1>8, <1>9, <1>10, <1>11, <1>12, <1>13, <1>14, <1>15
     DEF Next, ClientStep, InputStep, DrainStep, DlvStep, AgentStep, ProcessStep

-----------------------------------------------------------------------------
(* What was captured with an input or an approval binds its start. *)

\* Captured references and claims past the authorization belong to the Agent's present Team.
BindingsHold ==
    /\ \A i \in refsOk : team[AgentOf[i]] = boundTeam[i]
    /\ \A a \in Agents : drainPc[a] \in {"preparing", "prepared"} => SameMembership(drainItem[a])

\* The empty home has nothing bound.
LEMMA InitBindings == Init => BindingsHold
  BY DEF Init, BindingsHold

\* Steps that change no membership and prepare no turn keep the bindings.
LEMMA BindingsKept ==
    ASSUME BindingsHold, UNCHANGED <<boundTeam, team, archived>>, refsOk' \subseteq refsOk,
           \A a \in Agents : drainPc'[a] \in {"preparing", "prepared"}
                => drainPc[a] \in {"preparing", "prepared"} /\ drainItem'[a] = drainItem[a]
    PROVE  BindingsHold'
  BY DEF BindingsHold, SameMembership

\* Every step keeps the bindings.
LEMMA BindingsStep == TypeOK /\ Registry /\ BindingsHold /\ [Next]_vars => BindingsHold'
<1> SUFFICES ASSUME TypeOK, Registry, BindingsHold, [Next]_vars PROVE BindingsHold'
  OBVIOUS
<1>0. /\ drainPc \in [Agents -> DrainPc] /\ boundTeam \in [Inputs -> Teams] /\ team \in [Agents -> Teams]
      /\ AgentOf \in [Inputs -> Agents] /\ refsOk \subseteq Inputs
      /\ \A a \in Agents : drainPc[a] # "idle" => drainItem[a] \in Inputs /\ AgentOf[drainItem[a]] = a
  BY AgentAssumption DEF TypeOK
<1>1. ASSUME NEW i \in Inputs, NEW position, NEW replaced, Admit(i, position, replaced)
      PROVE  BindingsHold'
  <2>1. /\ UNCHANGED <<drainPc, drainItem, team, archived>> /\ refsOk' \subseteq refsOk \cup {i}
        /\ boundTeam' = [boundTeam EXCEPT ![i] = team[AgentOf[i]]]
    BY <1>1 DEF Admit, agentVars, taskVars
  <2>2. \A j \in Inputs : boundTeam'[j] = boundTeam[j] \/ (j = i /\ boundTeam'[j] = team[AgentOf[j]])
    BY <1>0, <2>1
  <2>3. \A j \in refsOk' : team'[AgentOf[j]] = boundTeam'[j]
    BY <1>0, <2>1, <2>2 DEF BindingsHold
  <2>4. \A a \in Agents : drainPc'[a] \in {"preparing", "prepared"} => SameMembership(drainItem[a])'
    BY <1>0, <2>1, <2>2 DEF BindingsHold, SameMembership
  <2>5. QED
    BY <2>1, <2>3, <2>4 DEF BindingsHold
<1>2. ASSUME NEW i \in Inputs, Enqueue(i) \/ \E p \in Inputs : Edit(i, p) PROVE BindingsHold'
  BY <1>1, <1>2 DEF Enqueue, Edit
<1>3. ASSUME NEW a \in Agents, MutationEnds(a) PROVE BindingsHold'
  <2>1. /\ drainPc[a] \notin {"preparing", "prepared"}
        /\ UNCHANGED <<drainPc, drainItem, boundTeam>>
    BY <1>3 DEF MutationEnds, itemVars, taskVars, Registry, LeaseHeld, TurnsExclude, DrainTurn, RegisteredPc
  <2>2. /\ \A b \in Agents : b # a => team'[b] = team[b] /\ (b \in archived' <=> b \in archived)
        /\ team' = team \/ \A i \in refsOk' : AgentOf[i] # a
        /\ refsOk' \subseteq refsOk
    BY <1>0, <1>3 DEF MutationEnds
  <2>3. QED
    BY <1>0, <2>1, <2>2 DEF BindingsHold, SameMembership
<1>4. ASSUME NEW a \in Agents, DrainAuthorize(a) PROVE BindingsHold'
  <2>1. /\ drainPc' = [drainPc EXCEPT ![a] = "preparing"] /\ SameMembership(drainItem[a])
        /\ UNCHANGED <<refsOk, boundTeam, team, archived, drainItem>>
    BY <1>4 DEF DrainAuthorize, DrainBound, DrainFrame, Goto, apprVars, agentVars
  <2>2. QED
    BY <1>0, <2>1 DEF BindingsHold, SameMembership
<1>5. ASSUME NEW a \in Agents, DrainAsk(a) PROVE BindingsHold'
  <2>1. /\ drainPc' = [drainPc EXCEPT ![a] = "asked"] /\ drainPc[a] = "leasing" /\ SameMembership(drainItem[a])
        /\ UNCHANGED <<boundTeam, team, archived, drainItem>>
        /\ refsOk' \subseteq refsOk \cup {drainItem[a]}
    BY <1>5 DEF DrainAsk, DrainBound, DrainFrame, Goto, agentVars
  <2>2. QED
    BY <1>0, <2>1 DEF BindingsHold, SameMembership
<1>6. ASSUME NEW i \in Inputs,
             \/ Remove(i) \/ Acknowledge(i) \/ Deny(i) \/ ApproveStale(i) \/ ApproveInvalid(i)
             \/ Approve(i) \/ PruneTerminalInput(i)
      PROVE BindingsHold'
  BY <1>6, BindingsKept DEF Remove, Acknowledge, Close, Deny, ApproveStale, ApproveInvalid, Approve,
      PruneTerminalInput, ItemFrame, itemVars, apprVars, agentVars, taskVars
<1>7. ASSUME ReconcileHolds \/ RecoverInterrupted \/ Boot \/ Shutdown \/ UNCHANGED vars PROVE BindingsHold'
  BY <1>7, BindingsKept DEF ReconcileHolds, RecoverInterrupted, Boot, Shutdown, vars, itemVars, apprVars,
      agentVars, taskVars
<1>8. ASSUME Terminate \/ \E i \in Inputs : TerminateInApprove(i) PROVE BindingsHold'
  BY <1>8, BindingsKept DEF Terminate, TerminateInApprove, ProcessEnds, itemVars, apprVars, agentVars
<1>9. ASSUME NEW a \in Agents,
             \/ ReadControl(a) \/ Pause(a) \/ Resume(a) \/ Stop(a)
             \/ OtherTurnStarts(a) \/ OtherTurnEnds(a) \/ MutationBegins(a) \/ PolicyChange(a)
      PROVE BindingsHold'
  BY <1>9, BindingsKept DEF ReadControl, Pause, Resume, Stop, SetPaused, OtherTurnStarts, OtherTurnEnds,
      MutationBegins, PolicyChange, itemVars, apprVars, agentVars, taskVars
<1>10. ASSUME NEW a \in Agents, DrainClaim(a) \/ DrainDone(a) PROVE BindingsHold'
  <2>1. PICK pc \in {"leasing", "idle"} :
            /\ drainPc' = [drainPc EXCEPT ![a] = pc] /\ UNCHANGED <<boundTeam, team, archived, refsOk>>
            /\ \A b \in Agents : b # a => drainItem'[b] = drainItem[b]
    BY <1>10 DEF DrainClaim, DrainDone, Goto, TypeOK, itemVars, apprVars, agentVars
  <2>2. QED
    BY <1>0, <2>1, BindingsKept
<1>11. ASSUME NEW a \in Agents,
             \/ DrainBusy(a) \/ DrainUnbound(a) \/ DrainBreak(a) \/ DrainPrepared(a) \/ DrainYield(a)
             \/ DrainReleased(a) \/ DrainRebound(a) \/ DrainStart(a) \/ DrainTurnEnds(a) \/ DrainSettle(a)
      PROVE BindingsHold'
  <2>1. /\ UNCHANGED <<boundTeam, team, archived, refsOk, drainItem>>
        /\ \E pc : /\ drainPc' = [drainPc EXCEPT ![a] = pc]
                   /\ pc \in {"preparing", "prepared"} => drainPc[a] \in {"preparing", "prepared"}
    BY <1>11 DEF DrainBusy, DrainUnbound, DrainBreak, DrainPrepared, DrainYield, DrainReleased, DrainRebound,
        DrainStart, DrainTurnEnds, DrainSettle, Ends, DrainFrame, Goto, apprVars, agentVars
  <2>2. QED
    BY <1>0, <2>1, BindingsKept
<1>12. ASSUME NEW i \in Inputs, DlvStep(i) PROVE BindingsHold'
  <2>1. UNCHANGED <<boundTeam, team, archived, refsOk, drainPc, drainItem>>
    BY <1>12 DEF DlvStep, DlvCheck, DlvBusy, DlvAuthorize, DlvBreak, DlvPrepared, DlvStart, DlvRefuse,
        DlvTurnEnds, DlvSettle, DlvFinish, DlvFrame, ItemFrame, agentVars
  <2>2. QED
    BY <2>1, BindingsKept
<1> QED
  BY <1>2, <1>3, <1>4, <1>5, <1>6, <1>7, <1>8, <1>9, <1>10, <1>11, <1>12
     DEF Next, ClientStep, InputStep, DrainStep, AgentStep, ProcessStep

-----------------------------------------------------------------------------
(* The invariant of the tasks, the approvals and the turns. *)

\* The inductive invariant behind the theorems of this section.
Tasked == TypeOK /\ Ownership /\ ApprovalsFollow /\ PayloadOutlivesUse /\ Registry /\ BindingsHold

\* It holds of the empty home.
LEMMA InitTasked == Init => Tasked
<1>1. Init => PayloadOutlivesUse
  BY DEF Init, PayloadOutlivesUse, Unsettled
<1>2. QED
  BY <1>1, InitTypeOK, InitOwned, InitFollows, InitRegistry, InitBindings DEF Tasked

\* Every step keeps it.
LEMMA TaskedStep == Tasked /\ [Next]_vars => Tasked'
  BY TypeStep, OwnershipStep, FollowsStep, PayloadStep, RegistryStep, BindingsStep DEF Tasked

\* It holds throughout.
LEMMA AlwaysTasked == Spec => []Tasked
  BY InitTasked, TaskedStep, PTL DEF Spec

\* A claimed or running row has exactly one live task, which holds it in that state: no
\* conditional write of a task meets 'Queue lifecycle changed', no row is stranded.
THEOREM RowsAreOwned == Spec => []OneOwner
<1>1. Tasked => OneOwner
  BY DEF Tasked, Ownership
<1>2. QED
  BY <1>1, AlwaysTasked, PTL

\* The bytes of an input outlive its execution and its approval.
THEOREM BytesKept == Spec => []PayloadOutlivesUse
<1>1. Tasked => PayloadOutlivesUse
  BY DEF Tasked
<1>2. QED
  BY <1>1, AlwaysTasked, PTL

\* Turns that exclude each other are as many as the registry says.
LEMMA OneOrNone ==
    ASSUME TypeOK, Registry PROVE OneTurnPerAgent
<1> SUFFICES ASSUME NEW a \in Agents
             PROVE  LET turns == {<<"delivery", i>> : i \in {j \in Inputs : AgentOf[j] = a /\ dlv[j] \in RegisteredPc}}
                                 \cup (IF drainPc[a] \in RegisteredPc THEN {<<"drain", a>>} ELSE {})
                                 \cup (IF a \in other THEN {<<"other", a>>} ELSE {})
                    IN  Cardinality(turns) = IF a \in active THEN 1 ELSE 0
  BY DEF OneTurnPerAgent
<1> DEFINE deliveries == {<<"delivery", i>> : i \in {j \in Inputs : AgentOf[j] = a /\ dlv[j] \in RegisteredPc}}
           drains     == IF drainPc[a] \in RegisteredPc THEN {<<"drain", a>>} ELSE {}
           others     == IF a \in other THEN {<<"other", a>>} ELSE {}
           turns      == deliveries \cup drains \cup others
<1>1. TurnsExclude(a)
  BY DEF Registry
<1>2. CASE a \notin active
  <2>1. deliveries = {} /\ drains = {} /\ others = {}
    BY <1>1, <1>2 DEF TurnsExclude, DrainTurn, DlvTurn
  <2>2. turns = {}
    BY <2>1
  <2>3. QED
    BY <1>2, <2>2, FS_EmptySet
<1>3. CASE a \in active
  <2>1. \E x : turns = {x}
    <3>1. CASE a \in other
      <4>1. deliveries = {} /\ drains = {} /\ others = {<<"other", a>>}
        BY <1>1, <3>1 DEF TurnsExclude, DrainTurn, DlvTurn
      <4>2. QED
        BY <4>1
    <3>2. CASE DrainTurn(a)
      <4>1. deliveries = {} /\ drains = {<<"drain", a>>} /\ others = {}
        BY <1>1, <3>2 DEF TurnsExclude, DrainTurn, DlvTurn
      <4>2. QED
        BY <4>1
    <3>3. CASE \E i \in Inputs : AgentOf[i] = a /\ DlvTurn(i)
      <4>1. PICK i \in Inputs : AgentOf[i] = a /\ DlvTurn(i)
        BY <3>3
      <4>2. \A j \in Inputs : AgentOf[j] = a /\ dlv[j] \in RegisteredPc <=> j = i
        BY <1>1, <4>1 DEF TurnsExclude, DlvTurn
      <4>3. deliveries = {<<"delivery", i>>}
        BY <4>2
      <4>4. drains = {} /\ others = {}
        BY <1>1, <4>1 DEF TurnsExclude, DrainTurn, DlvTurn
      <4>5. QED
        BY <4>3, <4>4
    <3>4. QED
      BY <1>1, <1>3, <3>1, <3>2, <3>3 DEF TurnsExclude
  <2>2. Cardinality(turns) = 1
    BY <2>1, FS_Singleton
  <2>3. QED
    BY <1>3, <2>2
<1>4. QED
  BY <1>2, <1>3

\* An Agent never has two turns, of whatever source, and the registry knows the one it has.
THEOREM OneTurn == Spec => []OneTurnPerAgent
<1>1. Tasked => OneTurnPerAgent
  BY OneOrNone DEF Tasked
<1>2. QED
  BY <1>1, AlwaysTasked, PTL

\* Only the two starts run a worker.
LEMMA OnlyStartsRun ==
    ASSUME TypeOK, [Next]_vars, NEW i \in Inputs, Starts(i)
    PROVE  DlvStart(i) \/ \E a \in Agents : DrainStart(a) /\ drainItem[a] = i
<1>0. ~UNCHANGED runs
  BY DEF TypeOK, Starts
<1>1. ASSUME NEW a \in Agents, ClientStep(a) \/ AgentStep(a) PROVE FALSE
  BY <1>0, <1>1 DEF ClientStep, AgentStep, ReadControl, Pause, Resume, Stop, SetPaused, OtherTurnStarts,
      OtherTurnEnds, MutationBegins, MutationEnds, PolicyChange, clientVars
<1>2. ASSUME NEW j \in Inputs, InputStep(j) \/ PruneTerminalInput(j) PROVE FALSE
  <2>1. CASE Enqueue(j) \/ \E p \in Inputs : Edit(j, p)
    BY <1>0, <2>1 DEF Enqueue, Edit, Admit, clientVars
  <2>2. CASE \/ Remove(j) \/ Acknowledge(j) \/ Deny(j) \/ Approve(j) \/ ApproveStale(j) \/ ApproveInvalid(j)
             \/ PruneTerminalInput(j)
    BY <1>0, <2>2 DEF Remove, Acknowledge, Close, Deny, Approve, ApproveStale, ApproveInvalid,
        PruneTerminalInput, clientVars
  <2>3. QED
    BY <1>2, <2>1, <2>2 DEF InputStep
<1>3. ASSUME ReconcileHolds \/ ProcessStep \/ UNCHANGED vars PROVE FALSE
  BY <1>0, <1>3 DEF ReconcileHolds, ProcessStep, Shutdown, Terminate, RecoverInterrupted, Boot,
      TerminateInApprove, vars, clientVars
<1>4. ASSUME NEW a \in Agents, DrainStep(a) PROVE DrainStart(a) /\ drainItem[a] = i
  <2>1. CASE DrainStart(a)
    <3>1. /\ runs \in [Inputs -> Nat] /\ runs'[i] > runs[i] /\ drainItem[a] \in Inputs
          /\ runs' = [runs EXCEPT ![drainItem[a]] = runs[drainItem[a]] + 1]
      BY <2>1 DEF TypeOK, Starts, DrainStart
    <3>2. drainItem[a] = i
      BY <3>1
    <3>3. QED
      BY <2>1, <3>2
  <2>2. CASE \/ DrainClaim(a) \/ DrainBusy(a) \/ DrainUnbound(a) \/ DrainAuthorize(a) \/ DrainAsk(a)
             \/ DrainBreak(a) \/ DrainPrepared(a) \/ DrainYield(a) \/ DrainReleased(a) \/ DrainRebound(a)
             \/ DrainTurnEnds(a) \/ DrainSettle(a) \/ DrainDone(a)
    BY <1>0, <2>2 DEF DrainClaim, DrainBusy, DrainUnbound, DrainAuthorize, DrainAsk, DrainBreak,
        DrainPrepared, DrainYield, DrainReleased, DrainRebound, DrainTurnEnds, DrainSettle, DrainDone, clientVars
  <2>3. QED
    BY <1>4, <2>1, <2>2 DEF DrainStep
<1>5. ASSUME NEW j \in Inputs, DlvStep(j) PROVE DlvStart(i)
  <2>1. CASE DlvStart(j)
    <3>1. runs \in [Inputs -> Nat] /\ runs' = [runs EXCEPT ![j] = runs[j] + 1] /\ runs'[i] > runs[i]
      BY <2>1 DEF TypeOK, Starts, DlvStart
    <3>2. j = i
      BY <3>1
    <3>3. QED
      BY <2>1, <3>2
  <2>2. CASE \/ DlvCheck(j) \/ DlvBusy(j) \/ DlvAuthorize(j) \/ DlvBreak(j) \/ DlvPrepared(j)
             \/ DlvRefuse(j) \/ DlvTurnEnds(j) \/ DlvSettle(j) \/ DlvFinish(j)
    BY <1>0, <2>2 DEF DlvCheck, DlvBusy, DlvAuthorize, DlvBreak, DlvPrepared, DlvRefuse, DlvTurnEnds,
        DlvSettle, DlvFinish
  <2>3. QED
    BY <1>5, <2>1, <2>2 DEF DlvStep
<1> QED
  BY <1>1, <1>2, <1>3, <1>4, <1>5 DEF Next

\* At a start the Agent is where it was when the input was captured, its queue is open, and
\* the input was allowed outright or is being delivered under the approval of this policy.
LEMMA StartIsBound ==
    ASSUME Tasked, [Next]_vars, NEW i \in Inputs, Starts(i)
    PROVE  /\ SameMembership(i) /\ ~paused[AgentOf[i]]
           /\ \/ appr[i] = "none"
              \/ appr[i] = "delivering" /\ Revalidated(i)
<1>1. CASE DlvStart(i)
  <2>1. /\ ~paused[AgentOf[i]] /\ Revalidated(i) /\ dlv[i] = "prepared"
    BY <1>1 DEF DlvStart
  <2>2. SameMembership(i)
    BY <2>1 DEF Revalidated, Decision, Tasked, BindingsHold, SameMembership
  <2>3. appr[i] = "delivering"
    BY <2>1 DEF Tasked, ApprovalsFollow
  <2>4. QED
    BY <2>1, <2>2, <2>3
<1>2. ASSUME NEW a \in Agents, DrainStart(a), drainItem[a] = i
      PROVE  SameMembership(i) /\ ~paused[AgentOf[i]] /\ appr[i] = "none"
  <2>1. drainPc[a] = "prepared" /\ ~paused[a] /\ AgentOf[i] = a
    BY <1>2 DEF DrainStart, Tasked, TypeOK
  <2>2. SameMembership(i)
    BY <1>2, <2>1 DEF Tasked, BindingsHold
  <2>3. appr[i] = "none"
    BY <1>2, <2>1 DEF Tasked, ApprovalsFollow, DrainHolds, Unasked, ClaimPc
  <2>4. QED
    BY <2>1, <2>2, <2>3
<1>3. QED
  BY <1>1, <1>2, OnlyStartsRun DEF Tasked

\* A worker starts only for a member of the captured Team that is not archived.
THEOREM StartedAsMember == Spec => StartsAsMember
<1>1. Tasked /\ [Next]_vars
        => [\A i \in Inputs : Starts(i) => AgentOf[i] \notin archived /\ team[AgentOf[i]] = boundTeam[i]]_vars
  BY StartIsBound DEF SameMembership
<1>2. QED
  BY <1>1, AlwaysTasked, PTL DEF Spec, StartsAsMember

\* A worker starts only in an open queue, and under the approval the policy asks for.
THEOREM StartedAuthorized == Spec => StartsAuthorized
<1>1. Tasked /\ [Next]_vars
        => [\A i \in Inputs : Starts(i) =>
              /\ ~paused[AgentOf[i]]
              /\ \/ appr[i] = "none"
                 \/ appr[i] = "delivering" /\ Decision(AgentOf[i]) = "approval_required" /\ i \in refsOk]_vars
  BY StartIsBound DEF Revalidated
<1>2. QED
  BY <1>1, AlwaysTasked, PTL DEF Spec, StartsAuthorized

-----------------------------------------------------------------------------
(* Limits. *)

\* Admission opens one row and may close others; no other step opens a row.
LEMMA OnlyAdmissionOpens ==
    ASSUME TypeOK, [Next]_vars
    PROVE  \/ \E i \in Inputs, position \in Nat, replaced \in SUBSET Inputs :
                 /\ Admit(i, position, replaced)
                 /\ \A p \in replaced : status[p] = "pending"
           \/ \A i \in Inputs : /\ status'[i] \in Open => status[i] \in Open
                                /\ status'[i] # "absent" => status[i] # "absent"
<1> DEFINE Opened == \E i \in Inputs, position \in Nat, replaced \in SUBSET Inputs :
                         /\ Admit(i, position, replaced)
                         /\ \A p \in replaced : status[p] = "pending"
           Kept   == \A i \in Inputs : /\ status'[i] \in Open => status[i] \in Open
                                       /\ status'[i] # "absent" => status[i] # "absent"
<1>0. /\ status \in [Inputs -> Statuses] /\ AgentOf \in [Inputs -> Agents]
      /\ pos \in [Inputs -> Nat] /\ nextPos \in [Agents -> Nat]
  BY AgentAssumption DEF TypeOK, Statuses
<1>1. ASSUME NEW i \in Inputs, NEW from \in Open, NEW to, Transition(i, from, to) PROVE Kept
  BY <1>0, <1>1 DEF Transition, Open
<1>2. ASSUME NEW a \in Agents, ClientStep(a) \/ AgentStep(a) PROVE Kept
  <2>1. UNCHANGED status
    BY <1>2 DEF ClientStep, AgentStep, ReadControl, Pause, Resume, Stop, SetPaused, OtherTurnStarts,
        OtherTurnEnds, MutationBegins, MutationEnds, PolicyChange, itemVars
  <2>2. QED
    BY <2>1
<1>3. ASSUME NEW i \in Inputs, InputStep(i) \/ PruneTerminalInput(i) PROVE Opened \/ Kept
  <2>1. CASE Enqueue(i)
    <3>1. Admit(i, nextPos[AgentOf[i]], {}) /\ nextPos[AgentOf[i]] \in Nat
      BY <1>0, <2>1 DEF Enqueue
    <3>2. QED
      BY <3>1
  <2>2. CASE \E p \in Inputs : Edit(i, p)
    <3>1. PICK p \in Inputs : Admit(i, pos[p], {p}) /\ status[p] = "pending" /\ pos[p] \in Nat
      BY <1>0, <2>2 DEF Edit
    <3>2. QED
      BY <3>1
  <2>3. CASE Remove(i) \/ Acknowledge(i) \/ Approve(i)
    BY <1>1, <2>3 DEF Remove, Acknowledge, Close, Approve, Open
  <2>4. CASE Deny(i) \/ ApproveStale(i) \/ ApproveInvalid(i) \/ PruneTerminalInput(i)
    <3>1. UNCHANGED status
      BY <2>4 DEF Deny, ApproveStale, ApproveInvalid, PruneTerminalInput, itemVars
    <3>2. QED
      BY <3>1
  <2>5. QED
    BY <1>3, <2>1, <2>2, <2>3, <2>4 DEF InputStep
<1>4. ASSUME ReconcileHolds \/ ProcessStep \/ UNCHANGED vars PROVE Kept
  <2>1. CASE ReconcileHolds \/ Boot
    BY <2>1 DEF ReconcileHolds, Boot, ReconcileApprovalHolds, EndedHolds, Open
  <2>2. CASE RecoverInterrupted
    BY <2>2 DEF RecoverInterrupted, Interrupted, Open
  <2>3. CASE Shutdown \/ Terminate \/ (\E i \in Inputs : TerminateInApprove(i)) \/ UNCHANGED vars
    <3>1. UNCHANGED status
      BY <2>3 DEF Shutdown, Terminate, TerminateInApprove, vars, itemVars
    <3>2. QED
      BY <3>1
  <2>4. QED
    BY <1>4, <2>1, <2>2, <2>3 DEF ProcessStep
<1>5. ASSUME NEW a \in Agents, DrainStep(a) PROVE Kept
  <2>1. CASE DrainClaim(a)
    BY <1>1, <2>1 DEF DrainClaim, OpenItems, Open
  <2>2. CASE DrainYield(a) \/ DrainStart(a)
    <3>1. drainItem[a] \in Inputs
      BY <2>2 DEF TypeOK, DrainYield, DrainStart
    <3>2. QED
      BY <1>1, <2>2, <3>1 DEF DrainYield, DrainStart, Open
  <2>3. CASE DrainSettle(a)
    <3>1. /\ drainItem[a] \in Inputs /\ Outcome[drainPc[a]][1] \in Open
          /\ Transition(drainItem[a], Outcome[drainPc[a]][1], Outcome[drainPc[a]][2])
      BY <2>3, OutcomeFacts DEF TypeOK, DrainSettle, Open, Outcome
    <3>2. QED
      BY <1>1, <3>1
  <2>4. CASE \/ DrainBusy(a) \/ DrainUnbound(a) \/ DrainAuthorize(a) \/ DrainAsk(a) \/ DrainBreak(a)
             \/ DrainPrepared(a) \/ DrainReleased(a) \/ DrainRebound(a) \/ DrainTurnEnds(a) \/ DrainDone(a)
    <3>1. UNCHANGED status
      BY <2>4 DEF DrainBusy, DrainUnbound, DrainAuthorize, DrainAsk, DrainBreak, DrainPrepared,
          DrainReleased, DrainRebound, DrainTurnEnds, DrainDone, itemVars
    <3>2. QED
      BY <3>1
  <2>5. QED
    BY <1>5, <2>1, <2>2, <2>3, <2>4 DEF DrainStep
<1>6. ASSUME NEW i \in Inputs, DlvStep(i) PROVE Kept
  <2>1. CASE DlvStart(i)
    BY <1>1, <2>1 DEF DlvStart, Open
  <2>2. CASE DlvSettle(i)
    <3>1. Outcome[dlv[i]][1] \in Open /\ Transition(i, Outcome[dlv[i]][1], Outcome[dlv[i]][2])
      BY <2>2, OutcomeFacts DEF DlvSettle, Open
    <3>2. QED
      BY <1>1, <3>1
  <2>3. CASE \/ DlvCheck(i) \/ DlvBusy(i) \/ DlvAuthorize(i) \/ DlvBreak(i) \/ DlvPrepared(i)
             \/ DlvRefuse(i) \/ DlvTurnEnds(i) \/ DlvFinish(i)
    <3>1. UNCHANGED status
      BY <2>3 DEF DlvCheck, DlvBusy, DlvAuthorize, DlvBreak, DlvPrepared, DlvRefuse, DlvTurnEnds, DlvFinish
    <3>2. QED
      BY <3>1
  <2>4. QED
    BY <1>6, <2>1, <2>2, <2>3 DEF DlvStep
<1> HIDE DEF Opened, Kept
<1>7. Opened \/ Kept
  BY <1>2, <1>3, <1>4, <1>5, <1>6 DEF Next
<1>8. QED
  BY <1>7 DEF Opened, Kept

\* A set that grows by at most one element keeps a limit it was strictly below.
LEMMA OneMore ==
    ASSUME NEW S, IsFiniteSet(S), NEW x, NEW T, T \subseteq S \cup {x}, NEW limit \in Nat,
           Cardinality(S) < limit
    PROVE  Cardinality(T) <= limit
<1>0. Cardinality(S) \in Nat
  BY FS_CardinalityType
<1>1. IsFiniteSet(S \cup {x}) /\ Cardinality(S \cup {x}) <= Cardinality(S) + 1
  <2>1. CASE x \in S
    <3>1. S \cup {x} = S
      BY <2>1
    <3>2. QED
      BY <1>0, <3>1
  <2>2. CASE x \notin S
    <3>1. IsFiniteSet(S \cup {x}) /\ Cardinality(S \cup {x}) = Cardinality(S) + 1
      BY <2>2, FS_AddElement
    <3>2. QED
      BY <1>0, <3>1
  <2>3. QED
    BY <2>1, <2>2
<1>2. T \in SUBSET (S \cup {x})
  OBVIOUS
<1>3. /\ IsFiniteSet(T) /\ Cardinality(T) <= Cardinality(S \cup {x})
  BY <1>1, <1>2, FS_Subset
<1>4. Cardinality(T) \in Nat /\ Cardinality(S \cup {x}) \in Nat
  BY <1>1, <1>3, FS_CardinalityType
<1>5. QED
  BY <1>0, <1>1, <1>3, <1>4

\* A set that shrinks keeps any limit.
LEMMA NoMore ==
    ASSUME NEW S, IsFiniteSet(S), NEW T, T \subseteq S, NEW limit \in Nat, Cardinality(S) <= limit
    PROVE  Cardinality(T) <= limit
<1>1. T \in SUBSET S
  OBVIOUS
<1>2. IsFiniteSet(T) /\ Cardinality(T) <= Cardinality(S)
  BY <1>1, FS_Subset
<1>3. Cardinality(T) \in Nat /\ Cardinality(S) \in Nat
  BY <1>2, FS_CardinalityType
<1>4. QED
  BY <1>2, <1>3

\* The rows the three limits count.
Unresolved    == {i \in Inputs : Unsettled(i)}
UnresolvedOf(a) == {i \in Inputs : AgentOf[i] = a /\ Unsettled(i)}
Known         == {i \in Inputs : status[i] # "absent"}

\* Every step keeps the limits: an edit adds one row to what it leaves of the line.
LEMMA LimitsStep == TypeOK /\ WithinLimits /\ [Next]_vars => WithinLimits'
<1> SUFFICES ASSUME TypeOK, WithinLimits, [Next]_vars PROVE WithinLimits'
  OBVIOUS
<1>0. /\ \A a \in Agents : Cardinality(UnresolvedOf(a)) <= PerAgent
      /\ Cardinality(Unresolved) <= PerHome
      /\ Cardinality(Known) <= Receipts
  BY DEF WithinLimits, UnresolvedOf, Unresolved, Known
<1>1. /\ \A T \in SUBSET Inputs : IsFiniteSet(T)
      /\ PerAgent \in Nat /\ PerHome \in Nat /\ Receipts \in Nat
  BY InputAssumption, LimitAssumption, FS_Subset
<1>2. /\ \A a \in Agents : UnresolvedOf(a) \in SUBSET Inputs
      /\ Unresolved \in SUBSET Inputs /\ Known \in SUBSET Inputs
  BY DEF Unresolved, UnresolvedOf, Known
<1>3. SUFFICES /\ \A a \in Agents : Cardinality(UnresolvedOf(a)') <= PerAgent
               /\ Cardinality(Unresolved') <= PerHome
               /\ Cardinality(Known') <= Receipts
  BY DEF WithinLimits, UnresolvedOf, Unresolved, Known
<1>4. CASE \A i \in Inputs : /\ status'[i] \in Open => status[i] \in Open
                             /\ status'[i] # "absent" => status[i] # "absent"
  <2>1. /\ \A a \in Agents : UnresolvedOf(a)' \subseteq UnresolvedOf(a)
        /\ Unresolved' \subseteq Unresolved /\ Known' \subseteq Known
    BY <1>4 DEF UnresolvedOf, Unresolved, Known, Unsettled, Open
  <2>2. QED
    BY <1>0, <1>1, <1>2, <2>1, NoMore
<1>5. ASSUME NEW i \in Inputs, NEW position \in Nat, NEW replaced \in SUBSET Inputs,
             Admit(i, position, replaced), \A p \in replaced : status[p] = "pending"
      PROVE  /\ \A a \in Agents : Cardinality(UnresolvedOf(a)') <= PerAgent
             /\ Cardinality(Unresolved') <= PerHome
             /\ Cardinality(Known') <= Receipts
  <2>1. /\ \A j \in Inputs : j # i => status'[j] = IF j \in replaced THEN "superseded" ELSE status[j]
        /\ HasCapacity(AgentOf[i], replaced)
    BY <1>5 DEF Admit
  <2>2. /\ {j \in Inputs : status[j] \in Open} = Unresolved /\ OpenItems(AgentOf[i]) = UnresolvedOf(AgentOf[i])
    BY DEF Unresolved, UnresolvedOf, OpenItems, Unsettled, Open
  <2>3. /\ Cardinality(Known) < Receipts
        /\ Cardinality(Unresolved \ replaced) < PerHome
        /\ Cardinality(UnresolvedOf(AgentOf[i]) \ replaced) < PerAgent
    BY <2>1, <2>2 DEF HasCapacity, Known
  <2>4. Known' \subseteq Known \cup {i}
    BY <1>5, <2>1 DEF Known
  <2>5. Unresolved' \subseteq (Unresolved \ replaced) \cup {i}
    BY <2>1 DEF Unresolved, Unsettled
  <2>6. UnresolvedOf(AgentOf[i])' \subseteq (UnresolvedOf(AgentOf[i]) \ replaced) \cup {i}
    BY <2>1 DEF UnresolvedOf, Unsettled
  <2>7. \A a \in Agents : a # AgentOf[i] => UnresolvedOf(a)' \subseteq UnresolvedOf(a)
    BY <2>1 DEF UnresolvedOf, Unsettled
  <2>8. Cardinality(Known') <= Receipts
    BY <1>1, <1>2, <2>3, <2>4, OneMore
  <2>9. Cardinality(Unresolved') <= PerHome
    <3>1. Unresolved \ replaced \in SUBSET Inputs
      BY <1>2
    <3>2. QED
      BY <1>1, <2>3, <2>5, <3>1, OneMore
  <2>10. Cardinality(UnresolvedOf(AgentOf[i])') <= PerAgent
    <3>1. UnresolvedOf(AgentOf[i]) \ replaced \in SUBSET Inputs
      BY <1>2, AgentAssumption
    <3>2. QED
      BY <1>1, <2>3, <2>6, <3>1, OneMore
  <2>11. \A a \in Agents : a # AgentOf[i] => Cardinality(UnresolvedOf(a)') <= PerAgent
    BY <1>0, <1>1, <1>2, <2>7, NoMore
  <2>12. QED
    BY <2>8, <2>9, <2>10, <2>11
<1>6. QED
  BY <1>4, <1>5, OnlyAdmissionOpens

\* The retained queue respects its limits per Agent, per home and of receipts.
THEOREM LimitsKept == Spec => []WithinLimits
<1>1. Init => WithinLimits
  <2> SUFFICES ASSUME Init PROVE WithinLimits
    OBVIOUS
  <2>1. /\ \A a \in Agents : {i \in Inputs : AgentOf[i] = a /\ Unsettled(i)} = {}
        /\ {i \in Inputs : Unsettled(i)} = {} /\ {i \in Inputs : status[i] # "absent"} = {}
    BY DEF Init, Unsettled
  <2>2. QED
    BY <2>1, FS_EmptySet, LimitAssumption DEF WithinLimits
<1>2. TypeOK /\ WithinLimits /\ [Next]_vars => WithinLimits'
  BY LimitsStep
<1>3. QED
  BY <1>1, <1>2, TypeCorrect, PTL DEF Spec

-----------------------------------------------------------------------------
(* The queue keeps the promise of FollowUpQueue. *)

\* What the phase says of a status.
LEMMA PhaseFacts ==
    ASSUME NEW s \in Statuses
    PROVE  /\ PhaseOf(s) = "absent" <=> s = "absent"
           /\ PhaseOf(s) = "waiting" <=> s \in {"pending", "claimed", "held"}
           /\ PhaseOf(s) = "started" <=> s = "running"
           /\ PhaseOf(s) = "doubtful" <=> s = "uncertain"
           /\ PhaseOf(s) = "closed" <=> s \in Terminal
           /\ PhaseOf(s) \in {"waiting", "started", "doubtful"} <=> s \in Open
  BY DEF PhaseOf, Statuses, Open, Terminal

\* The inputs the promise calls unresolved are those whose rows are open.
LEMMA OpenIsUnresolved ==
    ASSUME TypeOK
    PROVE  Promise!Unresolved = {i \in Inputs : status[i] \in Open}
<1>1. status \in [Inputs -> Statuses]
  BY DEF TypeOK, Statuses
<1>2. \A i \in Inputs : PhaseOf(status[i]) \in {"waiting", "started", "doubtful"} <=> status[i] \in Open
  BY <1>1, PhaseFacts
<1>3. QED
  BY <1>2 DEF Promise!Unresolved

\* Rows that end leave the line, rows in doubt halt it, and the others keep their phase.
LEMMA SweepResolves ==
    ASSUME TypeOK, TypeOK', UNCHANGED pos,
           NEW closed \in SUBSET Inputs, NEW doubtful \in SUBSET Inputs,
           \A i \in closed : status[i] \in Open /\ status'[i] \in Terminal,
           \A i \in doubtful : /\ i \notin closed
                               /\ status[i] \in Open \ {"uncertain"} /\ status'[i] = "uncertain",
           \A i \in Inputs : i \notin closed /\ i \notin doubtful => PhaseOf(status'[i]) = PhaseOf(status[i]),
           \A a \in Agents : paused'[a] <=> paused[a] \/ a \in {AgentOf[i] : i \in doubtful}
    PROVE  Promise!QueueNext
<1>0. /\ status \in [Inputs -> Statuses] /\ status' \in [Inputs -> Statuses]
      /\ AgentOf \in [Inputs -> Agents]
  BY AgentAssumption DEF TypeOK, Statuses
<1>1. /\ closed \subseteq Promise!Unresolved
      /\ doubtful \subseteq {i \in Promise!Unresolved : [j \in Inputs |-> PhaseOf(status[j])][i] # "doubtful"} \ closed
  <2>1. \A i \in Inputs : PhaseOf(status[i]) = "doubtful" <=> status[i] = "uncertain"
    BY <1>0, PhaseFacts
  <2>2. QED
    BY <2>1, OpenIsUnresolved
<1>2. [i \in Inputs |-> PhaseOf(status'[i])] =
        [i \in Inputs |-> IF i \in closed THEN "closed" ELSE IF i \in doubtful THEN "doubtful"
                          ELSE [j \in Inputs |-> PhaseOf(status[j])][i]]
  <2>1. \A i \in Inputs : /\ i \in closed => PhaseOf(status'[i]) = "closed"
                          /\ i \in doubtful => PhaseOf(status'[i]) = "doubtful"
    BY <1>0, PhaseFacts
  <2>2. QED
    BY <2>1
<1>3. Line' = {e \in Line : e[1] \notin closed /\ e[2] \notin closed}
  <2>1. \A i \in Inputs : status'[i] \in Open <=> status[i] \in Open /\ i \notin closed
    <3> SUFFICES ASSUME NEW i \in Inputs PROVE status'[i] \in Open <=> status[i] \in Open /\ i \notin closed
      OBVIOUS
    <3>1. CASE i \in closed
      BY <3>1 DEF Open, Terminal
    <3>2. CASE i \in doubtful
      BY <3>2 DEF Open
    <3>3. CASE i \notin closed /\ i \notin doubtful
      BY <1>0, <3>3, PhaseFacts
    <3>4. QED
      BY <3>1, <3>2, <3>3
  <2>2. QED
    BY <2>1 DEF Line
<1>4. {a \in Agents : paused'[a]} = {a \in Agents : paused[a]} \cup {AgentOf[i] : i \in doubtful}
  BY <1>0
<1>5. Promise!Resolve(closed, doubtful)
  BY <1>1, <1>2, <1>3, <1>4 DEF Promise!Resolve
<1>6. QED
  BY <1>1, <1>5 DEF Promise!QueueNext

\* A step that changes no phase resolves nothing.
LEMMA QuietResolves ==
    ASSUME TypeOK, TypeOK', UNCHANGED <<pos, paused>>,
           \A i \in Inputs : PhaseOf(status'[i]) = PhaseOf(status[i])
    PROVE  Promise!QueueNext
<1>1. {} \in SUBSET Inputs /\ \A a \in Agents : paused'[a] <=> paused[a] \/ a \in {AgentOf[i] : i \in {}}
  OBVIOUS
<1>2. QED
  BY <1>1, SweepResolves

\* A transition that is not a start leaves the phase alone, ends the input or puts it in
\* doubt and its queue to a halt.
LEMMA TransitionResolves ==
    ASSUME TypeOK, TypeOK', UNCHANGED pos,
           NEW i \in Inputs, NEW from \in Open, NEW to \in Statuses, Transition(i, from, to),
           \/ to \in Terminal
           \/ to = "uncertain" /\ from # "uncertain"
           \/ from \in {"pending", "claimed", "held"} /\ to \in {"pending", "claimed", "held"}
    PROVE  Promise!QueueNext
<1>0. /\ status \in [Inputs -> Statuses] /\ AgentOf \in [Inputs -> Agents]
      /\ status[i] = from /\ status'[i] = to
      /\ \A j \in Inputs : j # i => status'[j] = status[j]
  BY AgentAssumption DEF TypeOK, Transition, Statuses
<1>1. CASE to \in Terminal
  <2>1. UNCHANGED paused
    BY <1>1 DEF Transition, Terminal
  <2>2. /\ {i} \in SUBSET Inputs /\ {} \in SUBSET Inputs
        /\ \A j \in {i} : status[j] \in Open /\ status'[j] \in Terminal
        /\ \A j \in Inputs : j \notin {i} => PhaseOf(status'[j]) = PhaseOf(status[j])
        /\ \A a \in Agents : paused'[a] <=> paused[a] \/ a \in {AgentOf[j] : j \in {}}
    BY <1>0, <1>1, <2>1
  <2>3. QED
    BY <2>2, SweepResolves
<1>2. CASE to = "uncertain" /\ from # "uncertain"
  <2>1. Interrupt({AgentOf[i]})
    BY <1>2 DEF Transition
  <2>2. /\ {i} \in SUBSET Inputs /\ {} \in SUBSET Inputs
        /\ \A j \in {} : status[j] \in Open /\ status'[j] \in Terminal
        /\ \A j \in {i} : j \notin {} /\ status[j] \in Open \ {"uncertain"} /\ status'[j] = "uncertain"
        /\ \A j \in Inputs : j \notin {} /\ j \notin {i} => PhaseOf(status'[j]) = PhaseOf(status[j])
        /\ \A a \in Agents : paused'[a] <=> paused[a] \/ a \in {AgentOf[j] : j \in {i}}
    BY <1>0, <1>2, <2>1 DEF Interrupt
  <2>3. QED
    BY <2>2, SweepResolves
<1>3. CASE from \in {"pending", "claimed", "held"} /\ to \in {"pending", "claimed", "held"}
  <2>1. UNCHANGED paused
    BY <1>3 DEF Transition
  <2>2. \A j \in Inputs : PhaseOf(status'[j]) = PhaseOf(status[j])
    BY <1>0, <1>3 DEF PhaseOf
  <2>3. QED
    BY <2>1, <2>2, QuietResolves
<1>4. QED
  BY <1>1, <1>2, <1>3

\* Execution begins at the head of an open line.
LEMMA TransitionStarts ==
    ASSUME TypeOK, InFlightIsOldest, UNCHANGED pos, NEW i \in Inputs,
           ~paused[AgentOf[i]], Transition(i, "claimed", "running")
    PROVE  Promise!QueueNext
<1>0. /\ status \in [Inputs -> Statuses] /\ AgentOf \in [Inputs -> Agents] /\ pos \in [Inputs -> Nat]
      /\ status[i] = "claimed" /\ status' = [status EXCEPT ![i] = "running"] /\ UNCHANGED paused
  BY AgentAssumption DEF TypeOK, Transition, Statuses
<1>1. [j \in Inputs |-> PhaseOf(status[j])][i] = "waiting"
  BY <1>0 DEF PhaseOf
<1>2. AgentOf[i] \notin {a \in Agents : paused[a]}
  OBVIOUS
<1>3. \A j \in Inputs : <<j, i>> \notin Line
  <2> SUFFICES ASSUME NEW j \in Inputs, <<j, i>> \in Line PROVE FALSE
    OBVIOUS
  <2>1. status[j] \in Open /\ AgentOf[j] = AgentOf[i] /\ pos[j] < pos[i]
    BY DEF Line
  <2>2. j # i /\ Unsettled(j)
    BY <1>0, <2>1 DEF Open, Unsettled
  <2>3. pos[i] < pos[j]
    BY <1>0, <2>1, <2>2 DEF InFlightIsOldest
  <2>4. QED
    BY <1>0, <2>1, <2>3
<1>4. [j \in Inputs |-> PhaseOf(status'[j])] =
        [[j \in Inputs |-> PhaseOf(status[j])] EXCEPT ![i] = "started"]
  BY <1>0 DEF PhaseOf
<1>5. Line' = Line
  <2>1. \A j \in Inputs : status'[j] \in Open <=> status[j] \in Open
    BY <1>0 DEF Open
  <2>2. QED
    BY <2>1 DEF Line
<1>6. Promise!Start(i)
  BY <1>0, <1>1, <1>2, <1>3, <1>4, <1>5 DEF Promise!Start
<1>7. QED
  BY <1>6 DEF Promise!QueueNext

\* A new input joins the end of its line: its position is above all those given out.
LEMMA EnqueueAccepts ==
    ASSUME TypeOK, PositionsBelowNext, NEW i \in Inputs, Enqueue(i)
    PROVE  Promise!QueueNext
<1>0. /\ status \in [Inputs -> Statuses] /\ AgentOf \in [Inputs -> Agents] /\ pos \in [Inputs -> Nat]
      /\ nextPos \in [Agents -> Nat]
  BY AgentAssumption DEF TypeOK, Statuses
<1>1. /\ status[i] = "absent" /\ status'[i] \in {"pending", "held"}
      /\ status' = [j \in Inputs |-> IF j = i THEN status'[i] ELSE status[j]]
      /\ pos' = [pos EXCEPT ![i] = nextPos[AgentOf[i]]]
      /\ UNCHANGED paused
  BY DEF Enqueue, Admit
<1>2. [j \in Inputs |-> PhaseOf(status[j])][i] = "absent"
  BY <1>1 DEF PhaseOf
<1>3. [j \in Inputs |-> PhaseOf(status'[j])] =
        [[j \in Inputs |-> PhaseOf(status[j])] EXCEPT ![i] = "waiting"]
  BY <1>1 DEF PhaseOf
<1>4. Line' = Line \cup {<<j, i>> : j \in {k \in Promise!Unresolved : AgentOf[k] = AgentOf[i]}}
  <2>1. \A j \in Inputs : status'[j] \in Open <=> status[j] \in Open \/ j = i
    BY <1>0, <1>1 DEF Open
  <2>2. \A j \in Inputs : status[j] \in Open => j # i /\ pos[j] < nextPos[AgentOf[j]] /\ pos'[j] = pos[j]
    BY <1>0, <1>1 DEF PositionsBelowNext, Open
  <2>3. pos'[i] = nextPos[AgentOf[i]] /\ nextPos[AgentOf[i]] \in Nat /\ ~(pos'[i] < pos'[i])
    BY <1>0, <1>1
  <2>4. ASSUME NEW j \in Inputs, NEW k \in Inputs
        PROVE  <<j, k>> \in Line' <=> <<j, k>> \in Line \/ (k = i /\ status[j] \in Open /\ AgentOf[j] = AgentOf[i])
    <3>1. <<j, k>> \in Line <=> /\ status[j] \in Open /\ status[k] \in Open
                                /\ AgentOf[j] = AgentOf[k] /\ pos[j] < pos[k]
      BY DEF Line
    <3>2. <<j, k>> \in Line' <=> /\ status'[j] \in Open /\ status'[k] \in Open
                                 /\ AgentOf[j] = AgentOf[k] /\ pos'[j] < pos'[k]
      BY DEF Line
    <3>3. CASE j # i /\ k # i
      BY <1>0, <1>1, <2>1, <3>1, <3>2, <3>3
    <3>4. CASE j = i
      <4>1. ~(status[j] \in Open)
        BY <1>1, <3>4 DEF Open
      <4>2. CASE k = i
        BY <2>3, <3>1, <3>2, <3>4, <4>1, <4>2
      <4>3. CASE k # i
        <5>1. ASSUME <<j, k>> \in Line' PROVE FALSE
          <6>1. status[k] \in Open /\ AgentOf[k] = AgentOf[i] /\ pos'[i] < pos'[k]
            BY <2>1, <3>2, <3>4, <4>3, <5>1
          <6>2. pos[k] < nextPos[AgentOf[i]] /\ pos'[k] = pos[k]
            BY <2>2, <6>1
          <6>3. QED
            BY <1>0, <2>3, <6>1, <6>2
        <5>2. QED
          BY <3>1, <4>1, <4>3, <5>1
      <4>4. QED
        BY <4>2, <4>3
    <3>5. CASE j # i /\ k = i
      <4>1. ~(status[k] \in Open) /\ status'[k] \in Open
        BY <1>1, <3>5 DEF Open
      <4>2. QED
        BY <2>1, <2>2, <2>3, <3>1, <3>2, <3>5, <4>1
    <3>6. QED
      BY <3>3, <3>4, <3>5
  <2>5. QED
    BY <2>4, OpenIsUnresolved DEF Line
<1>5. Promise!Accept(i)
  BY <1>1, <1>2, <1>3, <1>4 DEF Promise!Accept
<1>6. QED
  BY <1>5 DEF Promise!QueueNext

\* The replacement stands where the replaced input stood.
LEMMA EditReplaces ==
    ASSUME TypeOK, NEW i \in Inputs, NEW p \in Inputs, Edit(i, p)
    PROVE  Promise!QueueNext
<1>0. /\ status \in [Inputs -> Statuses] /\ AgentOf \in [Inputs -> Agents] /\ pos \in [Inputs -> Nat]
  BY AgentAssumption DEF TypeOK, Statuses
<1>1. /\ status[i] = "absent" /\ status'[i] \in {"pending", "held"}
      /\ status[p] = "pending" /\ AgentOf[p] = AgentOf[i]
      /\ status' = [j \in Inputs |-> IF j = i THEN status'[i]
                                     ELSE IF j = p THEN "superseded" ELSE status[j]]
      /\ pos' = [pos EXCEPT ![i] = pos[p]]
      /\ UNCHANGED paused
  BY DEF Edit, Admit
<1>2. i # p
  BY <1>1
<1>3. /\ [j \in Inputs |-> PhaseOf(status[j])][i] = "absent"
      /\ [j \in Inputs |-> PhaseOf(status[j])][p] = "waiting"
  BY <1>1 DEF PhaseOf
<1>4. [j \in Inputs |-> PhaseOf(status'[j])] =
        [[j \in Inputs |-> PhaseOf(status[j])] EXCEPT ![i] = "waiting", ![p] = "closed"]
  BY <1>1, <1>2 DEF PhaseOf
<1> DEFINE Moved == {e \in Line : e[1] # p /\ e[2] # p}
                    \cup {<<j, i>> : j \in {k \in Inputs : <<k, p>> \in Line}}
                    \cup {<<i, j>> : j \in {k \in Inputs : <<p, k>> \in Line}}
<1>5. Line' = Moved
  <2>1. \A j \in Inputs : status'[j] \in Open <=> (status[j] \in Open /\ j # p) \/ j = i
    BY <1>0, <1>1 DEF Open
  <2>2. ~(status[i] \in Open) /\ status[p] \in Open
    BY <1>1 DEF Open
  <2>3. /\ pos'[i] = pos[p] /\ ~(pos[p] < pos[p]) /\ \A j \in Inputs : j # i => pos'[j] = pos[j]
    BY <1>0, <1>1
  <2>4. ASSUME NEW j \in Inputs, NEW k \in Inputs
        PROVE  /\ <<j, k>> \in Line <=> /\ status[j] \in Open /\ status[k] \in Open
                                        /\ AgentOf[j] = AgentOf[k] /\ pos[j] < pos[k]
               /\ <<j, k>> \in Line' <=> /\ status'[j] \in Open /\ status'[k] \in Open
                                         /\ AgentOf[j] = AgentOf[k] /\ pos'[j] < pos'[k]
    BY DEF Line
  <2>5. ASSUME NEW j \in Inputs, NEW k \in Inputs
        PROVE  <<j, k>> \in Line' <=> \/ <<j, k>> \in Line /\ j # p /\ k # p
                                      \/ k = i /\ <<j, p>> \in Line
                                      \/ j = i /\ <<p, k>> \in Line
    <3>1. CASE j # i /\ k # i
      BY <2>1, <2>3, <2>4, <3>1
    <3>2. CASE j = i /\ k # i
      BY <1>1, <1>2, <2>1, <2>2, <2>3, <2>4, <3>2
    <3>3. CASE j # i /\ k = i
      BY <1>1, <1>2, <2>1, <2>2, <2>3, <2>4, <3>3
    <3>4. CASE j = i /\ k = i
      BY <1>1, <1>2, <2>1, <2>2, <2>3, <2>4, <3>4
    <3>5. QED
      BY <3>1, <3>2, <3>3, <3>4
  <2>6. Line' \subseteq Moved
    BY <2>5 DEF Line
  <2>7. Moved \subseteq Line'
    <3>1. ASSUME NEW e \in Line, e[1] # p, e[2] # p PROVE e \in Line'
      <4>1. PICK j \in Inputs, k \in Inputs : e = <<j, k>>
        BY DEF Line
      <4>2. j # p /\ k # p /\ <<j, k>> \in Line
        BY <3>1, <4>1
      <4>3. <<j, k>> \in Line'
        BY <2>5, <4>2
      <4>4. QED
        BY <4>1, <4>3
    <3>2. {<<j, i>> : j \in {k \in Inputs : <<k, p>> \in Line}} \subseteq Line'
      BY <2>5
    <3>3. {<<i, j>> : j \in {k \in Inputs : <<p, k>> \in Line}} \subseteq Line'
      BY <2>5
    <3>4. QED
      BY <3>1, <3>2, <3>3
  <2>8. QED
    BY <2>6, <2>7
<1> HIDE DEF Moved
<1>6. Promise!Replace(i, p)
  BY <1>1, <1>3, <1>4, <1>5 DEF Promise!Replace, Moved
<1>7. QED
  BY <1>6 DEF Promise!QueueNext

\* Pausing halts a line, and resuming one releases it when nothing in it is in doubt.
LEMMA PauseHalts ==
    ASSUME TypeOK, NEW a \in Agents, NEW value \in BOOLEAN, SetPaused(a, value)
    PROVE  Promise!QueueNext
<1>0. /\ status \in [Inputs -> Statuses] /\ paused \in [Agents -> BOOLEAN]
      /\ UNCHANGED <<status, pos>> /\ paused' = [paused EXCEPT ![a] = value]
  BY DEF TypeOK, SetPaused, itemVars, Statuses
<1>1. [i \in Inputs |-> PhaseOf(status'[i])] = [i \in Inputs |-> PhaseOf(status[i])] /\ Line' = Line
  BY <1>0 DEF Line
<1>2. CASE value = TRUE
  <2>1. {b \in Agents : paused'[b]} = {b \in Agents : paused[b]} \cup {a}
    BY <1>0, <1>2
  <2>2. Promise!Halt(a)
    BY <1>1, <2>1 DEF Promise!Halt
  <2>3. QED
    BY <2>2 DEF Promise!QueueNext
<1>3. CASE value = FALSE
  <2>1. {b \in Agents : paused'[b]} = {b \in Agents : paused[b]} \ {a}
    BY <1>0, <1>3
  <2>2. \A i \in Inputs : AgentOf[i] = a => [j \in Inputs |-> PhaseOf(status[j])][i] # "doubtful"
    BY <1>0, <1>3, PhaseFacts DEF SetPaused
  <2>3. Promise!Release(a)
    BY <1>1, <2>1, <2>2 DEF Promise!Release
  <2>4. QED
    BY <2>3 DEF Promise!QueueNext
<1>4. QED
  BY <1>2, <1>3

\* Every step is a step of the promised queue.
LEMMA PromiseStep == TypeOK /\ TypeOK' /\ Safe /\ [Next]_vars => Promise!QueueNext
<1> SUFFICES ASSUME TypeOK, TypeOK', Safe, [Next]_vars PROVE Promise!QueueNext
  OBVIOUS
<1>0. InFlightIsOldest /\ PositionsBelowNext
  BY DEF Safe
<1>1. ASSUME UNCHANGED <<status, pos, paused>> PROVE Promise!QueueNext
  BY <1>1, QuietResolves
<1>2. ASSUME NEW a \in Agents, ClientStep(a) \/ AgentStep(a) PROVE Promise!QueueNext
  <2>1. CASE Pause(a) \/ Resume(a) \/ Stop(a)
    BY <2>1, PauseHalts DEF Pause, Resume, Stop
  <2>2. CASE ReadControl(a) \/ AgentStep(a)
    BY <1>1, <2>2 DEF ReadControl, AgentStep, OtherTurnStarts, OtherTurnEnds, MutationBegins,
        MutationEnds, PolicyChange, itemVars, ctlVars
  <2>3. QED
    BY <1>2, <2>1, <2>2 DEF ClientStep
<1>3. ASSUME NEW i \in Inputs, InputStep(i) \/ PruneTerminalInput(i) PROVE Promise!QueueNext
  <2>1. CASE Enqueue(i) \/ \E p \in Inputs : Edit(i, p)
    BY <1>0, <2>1, EnqueueAccepts, EditReplaces
  <2>2. CASE Remove(i) \/ Acknowledge(i)
    BY <2>2, TransitionResolves DEF Remove, Acknowledge, Close, Statuses, Open, Terminal
  <2>3. CASE Approve(i)
    BY <2>3, TransitionResolves DEF Approve, ItemFrame, Statuses, Open
  <2>4. CASE Deny(i) \/ ApproveStale(i) \/ ApproveInvalid(i) \/ PruneTerminalInput(i)
    BY <1>1, <2>4 DEF Deny, ApproveStale, ApproveInvalid, PruneTerminalInput, itemVars, ctlVars
  <2>5. QED
    BY <1>3, <2>1, <2>2, <2>3, <2>4 DEF InputStep
<1>4. ASSUME NEW a \in Agents, DrainStep(a) PROVE Promise!QueueNext
  <2>1. CASE DrainClaim(a)
    <3>1. PICK i \in Inputs : Transition(i, "pending", "claimed")
      BY <2>1 DEF DrainClaim, OpenItems
    <3>2. QED
      BY <2>1, <3>1, TransitionResolves DEF DrainClaim, Statuses, Open
  <2>2. CASE DrainYield(a) \/ DrainStart(a) \/ DrainSettle(a)
    <3>1. drainItem[a] \in Inputs /\ AgentOf[drainItem[a]] = a /\ UNCHANGED pos
      BY <2>2 DEF TypeOK, DrainYield, DrainStart, DrainSettle, DrainFrame, Outcome
    <3>2. CASE DrainYield(a)
      BY <3>1, <3>2, TransitionResolves DEF DrainYield, Statuses, Open
    <3>3. CASE DrainStart(a)
      BY <1>0, <3>1, <3>3, TransitionStarts DEF DrainStart
    <3>4. CASE DrainSettle(a)
      BY <3>1, <3>4, OutcomeFacts, TransitionResolves DEF DrainSettle, Statuses, Open, Terminal
    <3>5. QED
      BY <2>2, <3>2, <3>3, <3>4
  <2>3. CASE \/ DrainBusy(a) \/ DrainUnbound(a) \/ DrainAuthorize(a) \/ DrainAsk(a) \/ DrainBreak(a)
             \/ DrainPrepared(a) \/ DrainReleased(a) \/ DrainRebound(a) \/ DrainTurnEnds(a)
             \/ DrainDone(a)
    BY <1>1, <2>3 DEF DrainBusy, DrainUnbound, DrainAuthorize, DrainAsk, DrainBreak, DrainPrepared,
        DrainReleased, DrainRebound, DrainTurnEnds, DrainDone, DrainFrame, itemVars, ctlVars
  <2>4. QED
    BY <1>4, <2>1, <2>2, <2>3 DEF DrainStep
<1>5. ASSUME NEW i \in Inputs, DlvStep(i) PROVE Promise!QueueNext
  <2>1. CASE DlvStart(i)
    BY <1>0, <2>1, TransitionStarts DEF DlvStart, DlvFrame, ItemFrame
  <2>2. CASE DlvSettle(i)
    BY <2>2, OutcomeFacts, TransitionResolves DEF DlvSettle, DlvFrame, ItemFrame, Statuses, Open, Terminal
  <2>3. CASE \/ DlvCheck(i) \/ DlvBusy(i) \/ DlvAuthorize(i) \/ DlvBreak(i) \/ DlvPrepared(i)
             \/ DlvRefuse(i) \/ DlvTurnEnds(i) \/ DlvFinish(i)
    BY <1>1, <2>3 DEF DlvCheck, DlvBusy, DlvAuthorize, DlvBreak, DlvPrepared, DlvRefuse,
        DlvTurnEnds, DlvFinish, DlvFrame, ItemFrame
  <2>4. QED
    BY <1>5, <2>1, <2>2, <2>3 DEF DlvStep
<1>6. CASE ReconcileHolds \/ Boot
  <2> DEFINE closed == EndedHolds({"refused"})
             lost   == EndedHolds({"delivered", "delivery_failed"})
  <2>1. ReconcileApprovalHolds /\ UNCHANGED pos
    BY <1>6 DEF ReconcileHolds, Boot
  <2>2. /\ closed \in SUBSET Inputs /\ lost \in SUBSET Inputs
        /\ \A i \in closed : status[i] \in Open /\ status'[i] \in Terminal
        /\ \A i \in lost : i \notin closed /\ status[i] \in Open \ {"uncertain"} /\ status'[i] = "uncertain"
        /\ \A i \in Inputs : i \notin closed /\ i \notin lost => status'[i] = status[i]
    BY <2>1 DEF ReconcileApprovalHolds, EndedHolds, Open, Terminal
  <2>3. \A a \in Agents : paused'[a] <=> paused[a] \/ a \in {AgentOf[i] : i \in lost}
    BY <2>1 DEF TypeOK, ReconcileApprovalHolds, Interrupt
  <2> HIDE DEF closed, lost
  <2>4. QED
    BY <2>1, <2>2, <2>3, SweepResolves
<1>7. CASE RecoverInterrupted
  <2> DEFINE lost == {i \in Inputs : Interrupted(i)}
  <2>1. /\ lost \in SUBSET Inputs /\ {} \in SUBSET Inputs /\ UNCHANGED pos
        /\ \A i \in lost : i \notin {} /\ status[i] \in Open \ {"uncertain"} /\ status'[i] = "uncertain"
        /\ \A i \in Inputs : i \notin lost => status'[i] = status[i]
    BY <1>7 DEF RecoverInterrupted, Interrupted, Open
  <2>2. \A a \in Agents : paused'[a] <=> paused[a] \/ a \in {AgentOf[i] : i \in lost}
    BY <1>7 DEF TypeOK, RecoverInterrupted, Interrupt
  <2> HIDE DEF lost
  <2>3. QED
    BY <2>1, <2>2, SweepResolves
<1>8. CASE Shutdown \/ Terminate \/ (\E i \in Inputs : TerminateInApprove(i)) \/ UNCHANGED vars
  BY <1>1, <1>8 DEF Shutdown, Terminate, TerminateInApprove, vars, itemVars, ctlVars
<1>9. QED
  BY <1>2, <1>3, <1>4, <1>5, <1>6, <1>7, <1>8 DEF Next, ProcessStep

\* The durable queue implements the abstract one, through edits, approvals, crashes and restarts.
THEOREM PromiseKept == Spec => KeepsPromise
<1>1. Init => Promise!QueueInit
  <2> SUFFICES ASSUME Init PROVE Promise!QueueInit
    OBVIOUS
  <2>1. [i \in Inputs |-> PhaseOf(status[i])] = [i \in Inputs |-> "absent"]
    BY DEF Init, PhaseOf
  <2>2. Line = {} /\ {a \in Agents : paused[a]} = {}
    BY DEF Init, Line, Open
  <2>3. QED
    BY <2>1, <2>2 DEF Promise!QueueInit
<1>2. Init => TypeOK /\ Safe
  BY InitTypeOK, InitSafe
<1>3. TypeOK /\ Safe /\ [Next]_vars => TypeOK' /\ Safe' /\ [Promise!QueueNext]_(Promise!qvars)
  BY TypeStep, SafeStep, PromiseStep
<1>4. QED
  BY <1>1, <1>2, <1>3, PTL DEF Spec, KeepsPromise, Promise!QueueSpec
=============================================================================
