------------------------ MODULE TriggerDispatchProofs ------------------------
(* Safety of the scheduled dispatches, for any triggers, Agents, ticks and bounds. *)
EXTENDS TriggerDispatch, TLAPS

\* The part of the type invariant that the arguments below rest on.
Core ==
    /\ trigger \in [Triggers -> {"absent", "on", "off", "deleted"}]
    /\ status \in [Dispatches -> OpenRow \cup Terminal \cup {"none"}]
    /\ attempts \in [Dispatches -> Nat]
    /\ lost \in [Dispatches -> Nat]
    /\ runner \in [Dispatches -> {"idle", "waiting"} \cup Held]
    /\ other \in [Agents -> {"none"} \cup Live]

\* An attempt can still be charged to every open row that no turn of this process holds.
Budget ==
    \A d \in Dispatches :
        /\ attempts[d] <= MaxAttempts + lost[d]
        /\ status[d] \notin Terminal /\ ~(status[d] = "running" /\ runner[d] \in Held)
             => attempts[d] + 1 <= MaxAttempts + lost[d]

-----------------------------------------------------------------------------
(* What the steps do to rows and attempts. *)

\* A tick may fire idle dispatches but touches no attempt under way.
Fired == \A d \in Dispatches : runner'[d] = runner[d] \/ (runner[d] = "idle" /\ runner'[d] = "waiting")

\* Whatever a tick has left to do, it changes attempts only by firing idle ones.
LEMMA ProceedFires ==
    ASSUME Core, NEW k, NEW rest, NEW line, Proceed(k, rest, line)
    PROVE  runner' \in [Dispatches -> {"idle", "waiting"} \cup Held] /\ Fired
<1>1. CASE rest = <<>>
  BY <1>1 DEF Proceed, FireTriggers, Core, Fired
<1>2. CASE rest # <<>>
  BY <1>2 DEF Proceed, Core, Fired
<1>3. QED
  BY <1>1, <1>2

\* A tick at work leaves all rows alone, or adds a pending one to a trigger without open work.
LEMMA TickEffect ==
    ASSUME Core, NEW k \in Ticks, TickStep(k)
    PROVE  /\ UNCHANGED <<trigger, attempts, lost, other, aborted, approval>>
           /\ runner' \in [Dispatches -> {"idle", "waiting"} \cup Held] /\ Fired
           /\ \/ UNCHANGED status
              \/ \E d : /\ status[d] = "none" /\ ~HasOpenForTrigger(d[1])
                        /\ trigger[d[1]] \in {"on", "off"}
                        /\ status' = [status EXCEPT ![d] = "pending"]
<1>1. CASE RunTick(k)
  <2>1. PICK order \in DueOrders :
          Proceed(k, [i \in DOMAIN order |-> <<order[i], ScheduledOccurrence(order[i])>>], lease)
    BY <1>1 DEF RunTick
  <2>2. QED
    BY <1>1, <2>1, ProceedFires DEF RunTick, triggerVars, approvalVars
<1>2. CASE TickMaterialize(k)
  <2>1. Proceed(k, Tail(todo[k]), Released(Target(Head(todo[k]))))
    BY <1>2 DEF TickMaterialize
  <2>2. QED
    BY <1>2, <2>1, ProceedFires DEF TickMaterialize, Materialize, approvalVars
<1>3. CASE TickSkip(k)
  <2>1. Proceed(k, Tail(todo[k]), Released(Target(Head(todo[k]))))
    BY <1>3 DEF TickSkip
  <2>2. QED
    BY <1>3, <2>1, ProceedFires DEF TickSkip, triggerVars, approvalVars
<1>4. CASE TickStops(k)
  BY <1>4 DEF TickStops, triggerVars, rowVars, approvalVars, Fired, Core
<1>5. QED
  BY <1>1, <1>2, <1>3, <1>4 DEF TickStep

\* The ways an attempt changes its own row and its own place; it changes nothing else here.
Missed(d) == runner[d] = "waiting" /\ runner'[d] = "idle" /\ UNCHANGED <<status, attempts>>
Parked(d) ==
    /\ runner[d] = "waiting" /\ runner'[d] = "idle" /\ status[d] \in OpenRow
    /\ \/ status' = [status EXCEPT ![d] = "pending"] /\ attempts' = attempts
       \/ status' = [status EXCEPT ![d] = "failed"] /\ attempts' = [attempts EXCEPT ![d] = @ + 1]
Started(d) ==
    /\ runner[d] = "waiting" /\ runner'[d] = "preparing" /\ status[d] \in OpenRow
    /\ status' = [status EXCEPT ![d] = "running"] /\ attempts' = [attempts EXCEPT ![d] = @ + 1]
    /\ ~Active(Target(d)) /\ approval[d] # "refused"
Proceeded(d) == runner[d] \in Live /\ runner'[d] \in Held /\ UNCHANGED <<status, attempts>>
Ended(d) ==
    /\ runner[d] \in Over /\ runner'[d] = "idle"
    /\ \/ status[d] # "running" /\ UNCHANGED <<status, attempts>>
       \/ /\ status[d] = "running"
          /\ \/ /\ status' = [status EXCEPT ![d] = "pending"]
                /\ attempts' = IF attempts[d] > 0 THEN [attempts EXCEPT ![d] = @ - 1] ELSE attempts
             \/ /\ status' = [status EXCEPT ![d] = "retrying"]
                /\ attempts[d] < MaxAttempts /\ attempts' = attempts
             \/ \E to \in Terminal : status' = [status EXCEPT ![d] = to] /\ attempts' = attempts

LEMMA AttemptEffect ==
    ASSUME Core, NEW d \in Dispatches, AttemptStep(d)
    PROVE  /\ UNCHANGED <<trigger, lost, other>>
           /\ runner' = [runner EXCEPT ![d] = runner'[d]]
           /\ Missed(d) \/ Parked(d) \/ Started(d) \/ Proceeded(d) \/ Ended(d)
<1>1. CASE ClaimMisses(d)
  BY <1>1 DEF Core, ClaimMisses, Missed, triggerVars, rowVars
<1>2. CASE ClaimDefers(d) \/ ClaimAsks(d) \/ ClaimFails(d)
  BY <1>2 DEF Core, ClaimDefers, ClaimAsks, ClaimFails, Claims, Claimable, Parked
<1>3. CASE ClaimStarts(d)
  <2>1. ~Active(Target(d)) /\ approval[d] # "refused"
    BY <1>3 DEF ClaimStarts, Verdict
  <2>2. QED
    BY <1>3, <2>1 DEF Core, ClaimStarts, Claims, Claimable, Started
<1>4. CASE Prepared(d)
  BY <1>4 DEF Core, Prepared, Proceeded, Live, Held, triggerVars, rowVars
<1>5. CASE WorkspaceBusy(d) \/ TurnBreaks(d) \/ TurnFinishes(d)
  BY <1>5 DEF Core, WorkspaceBusy, TurnBreaks, TurnFinishes, GivesUp, Proceeded, Live, Over, Held,
              triggerVars, rowVars
<1>6. CASE RecordFailure(d)
  <2>1. attempts \in [Dispatches -> Nat] /\ MaxAttempts \in Nat
    BY NumberAssumption DEF Core
  <2>2. QED
    BY <1>6, <2>1 DEF Core, RecordFailure, Fail, Exhausted, Close, Leave, Over, Ended, Terminal, triggerVars
<1>7. CASE RecordDeferral(d)
  BY <1>7 DEF Core, RecordDeferral, Defer, Close, Leave, Over, Ended, triggerVars
<1>8. CASE RecordCancel(d) \/ RecordSuccess(d)
  BY <1>8 DEF Core, RecordCancel, RecordSuccess, Close, Leave, Over, Ended, Terminal, triggerVars
<1>9. QED
  BY <1>1, <1>2, <1>3, <1>4, <1>5, <1>6, <1>7, <1>8 DEF AttemptStep

\* Deadlines, approvals, policies, aborts, requests for a lease, the clock, a shutdown that
\* begins and a start concern neither rows nor attempts.
Elsewhere == UNCHANGED <<trigger, status, attempts, lost, runner, other>>

LEMMA StepKinds ==
    ASSUME [Next]_vars
    PROVE  \/ \E k \in Ticks : TickStep(k)
           \/ \E d \in Dispatches : AttemptStep(d)
           \/ \E t \in Triggers : Insert(t) \/ Remove(t) \/ \E value \in {"on", "off"} : SetEnabled(t, value)
           \/ \E a \in Agents : OtherEnters(a) \/ OtherLeaves(a)
           \/ Crash \/ Exit
           \/ Elsewhere
<1>1. ASSUME NEW d \in Dispatches, Ripen(d) \/ Approve(d) \/ Refuse(d) PROVE Elsewhere
  BY <1>1 DEF Ripen, Approve, Refuse, Elsewhere, triggerVars, rowVars, processVars
<1>2. ASSUME NEW a \in Agents, Stop(a) \/ OtherAsks(a) \/ \E value \in Policies : PolicyChange(a, value)
      PROVE  Elsewhere
  BY <1>2 DEF Stop, OtherAsks, PolicyChange, Elsewhere, triggerVars, rowVars, processVars
<1>3. ASSUME Advance \/ Shutdown \/ Start \/ UNCHANGED vars PROVE Elsewhere
  BY <1>3 DEF Advance, Shutdown, Start, vars, Elsewhere, triggerVars, rowVars, processVars
<1>4. QED
  BY <1>1, <1>2, <1>3 DEF Next, OperatorStep, OtherStep, ProcessStep

-----------------------------------------------------------------------------
(* Types. *)

LEMMA InitCore == Init => Core
  BY DEF Init, Core, Dispatches, OpenRow, Terminal, Live, Over, Held

LEMMA CoreStep ==
    ASSUME Core, [Next]_vars
    PROVE  Core'
<1>1. ASSUME NEW k \in Ticks, TickStep(k) PROVE Core'
  BY <1>1, TickEffect DEF Core, OpenRow
<1>2. ASSUME NEW d \in Dispatches, AttemptStep(d) PROVE Core'
  <2>1. /\ UNCHANGED <<trigger, lost, other>>
        /\ runner' = [runner EXCEPT ![d] = runner'[d]]
        /\ Missed(d) \/ Parked(d) \/ Started(d) \/ Proceeded(d) \/ Ended(d)
    BY <1>2, AttemptEffect
  <2>2. runner'[d] \in {"idle", "waiting"} \cup Held
    BY <2>1 DEF Missed, Parked, Started, Proceeded, Ended, Live, Over, Held
  <2>3. status' \in [Dispatches -> OpenRow \cup Terminal \cup {"none"}]
    BY <2>1 DEF Core, Missed, Parked, Started, Proceeded, Ended, OpenRow, Terminal
  <2>4. attempts' \in [Dispatches -> Nat]
    BY <2>1 DEF Core, Missed, Parked, Started, Proceeded, Ended
  <2>5. QED
    BY <2>1, <2>2, <2>3, <2>4 DEF Core
<1>3. ASSUME NEW t \in Triggers, Insert(t) \/ Remove(t) \/ \E value \in {"on", "off"} : SetEnabled(t, value)
      PROVE  Core'
  <2>1. CASE Insert(t)
    BY <2>1 DEF Core, Insert, rowVars, processVars
  <2>2. CASE Remove(t)
    BY <2>2 DEF Core, Remove, processVars
  <2>3. CASE \E value \in {"on", "off"} : SetEnabled(t, value)
    BY <2>3 DEF Core, SetEnabled, processVars, Terminal
  <2>4. QED
    BY <1>3, <2>1, <2>2, <2>3
<1>4. ASSUME NEW a \in Agents, OtherEnters(a) \/ OtherLeaves(a) PROVE Core'
  BY <1>4 DEF Core, OtherEnters, OtherLeaves, triggerVars, rowVars, Live
<1>5. CASE Crash \/ Exit
  BY <1>5 DEF Core, Crash, Exit, Ends, triggerVars
<1>6. CASE Elsewhere
  BY <1>6 DEF Core, Elsewhere
<1>7. QED
  BY <1>1, <1>2, <1>3, <1>4, <1>5, <1>6, StepKinds

-----------------------------------------------------------------------------
(* Coalescing. *)

LEMMA OpenStep ==
    ASSUME Core, OneOpenPerTrigger, [Next]_vars
    PROVE  OneOpenPerTrigger'
<1>1. ASSUME NEW k \in Ticks, TickStep(k) PROVE OneOpenPerTrigger'
  <2>1. /\ UNCHANGED <<trigger, attempts, lost, other>> /\ Fired
        /\ \/ UNCHANGED status
           \/ \E d : /\ status[d] = "none" /\ ~HasOpenForTrigger(d[1])
                     /\ trigger[d[1]] \in {"on", "off"}
                     /\ status' = [status EXCEPT ![d] = "pending"]
    BY <1>1, TickEffect
  <2>2. CASE UNCHANGED status
    BY <2>2 DEF OneOpenPerTrigger
  <2>3. CASE ~UNCHANGED status
    <3>1. PICK d : /\ status[d] = "none" /\ ~HasOpenForTrigger(d[1])
                   /\ status' = [status EXCEPT ![d] = "pending"]
      BY <2>1, <2>3
    <3>2. ASSUME NEW t \in Triggers, NEW s \in Time, status'[<<t, s>>] \in OpenRow, d # <<t, s>>
          PROVE  status[<<t, s>>] \in OpenRow /\ t # d[1]
      BY <3>1, <3>2 DEF Core, Dispatches, HasOpenForTrigger
    <3>3. QED
      BY <3>2 DEF OneOpenPerTrigger
  <2>4. QED
    BY <2>2, <2>3
<1>2. ASSUME NEW d \in Dispatches, AttemptStep(d) PROVE OneOpenPerTrigger'
  <2>1. /\ UNCHANGED <<trigger, lost, other>>
        /\ runner' = [runner EXCEPT ![d] = runner'[d]]
        /\ Missed(d) \/ Parked(d) \/ Started(d) \/ Proceeded(d) \/ Ended(d)
    BY <1>2, AttemptEffect
  <2>2. \A e \in Dispatches : status'[e] \in OpenRow => status[e] \in OpenRow
    BY <2>1 DEF Core, Missed, Parked, Started, Proceeded, Ended, OpenRow, Terminal
  <2>3. QED
    BY <2>2 DEF OneOpenPerTrigger, Dispatches
<1>3. ASSUME NEW t \in Triggers, Insert(t) \/ Remove(t) \/ \E value \in {"on", "off"} : SetEnabled(t, value)
      PROVE  OneOpenPerTrigger'
  <2>1. \A e \in Dispatches : status'[e] \in OpenRow => status[e] \in OpenRow
    BY <1>3 DEF Core, Insert, Remove, SetEnabled, rowVars, OpenRow
  <2>2. QED
    BY <2>1 DEF OneOpenPerTrigger, Dispatches
<1>4. ASSUME NEW a \in Agents, OtherEnters(a) \/ OtherLeaves(a) PROVE OneOpenPerTrigger'
  BY <1>4 DEF OneOpenPerTrigger, OtherEnters, OtherLeaves, rowVars
<1>5. CASE Crash \/ Exit
  BY <1>5 DEF OneOpenPerTrigger, Crash, Exit, Ends
<1>6. CASE Elsewhere
  BY <1>6 DEF OneOpenPerTrigger, Elsewhere
<1>7. QED
  BY <1>1, <1>2, <1>3, <1>4, <1>5, <1>6, StepKinds

\* A trigger never has two occurrences open.
THEOREM Coalesces == Spec => []OneOpenPerTrigger
<1>1. Init => Core /\ OneOpenPerTrigger
  <2>1. Init => OneOpenPerTrigger
    BY DEF Init, OneOpenPerTrigger, Dispatches, OpenRow
  <2>2. QED
    BY <2>1, InitCore
<1>2. Core /\ OneOpenPerTrigger /\ [Next]_vars => Core' /\ OneOpenPerTrigger'
  BY CoreStep, OpenStep
<1>3. QED
  BY <1>1, <1>2, PTL DEF Spec

-----------------------------------------------------------------------------
(* A turn keeps its row. *)

LEMMA OwnStep ==
    ASSUME Core, TurnOwnsRow, [Next]_vars
    PROVE  TurnOwnsRow'
<1>1. ASSUME NEW k \in Ticks, TickStep(k) PROVE TurnOwnsRow'
  <2>1. /\ UNCHANGED <<trigger, attempts, lost, other>> /\ Fired
        /\ \/ UNCHANGED status
           \/ \E d : /\ status[d] = "none" /\ ~HasOpenForTrigger(d[1])
                     /\ trigger[d[1]] \in {"on", "off"}
                     /\ status' = [status EXCEPT ![d] = "pending"]
    BY <1>1, TickEffect
  <2>2. ASSUME NEW e \in Dispatches, runner'[e] \in Held PROVE runner[e] \in Held /\ status'[e] = status[e]
    BY <2>1, <2>2 DEF Core, Fired, TurnOwnsRow, Live, Over, Held
  <2>3. QED
    BY <2>1, <2>2 DEF TurnOwnsRow
<1>2. ASSUME NEW d \in Dispatches, AttemptStep(d) PROVE TurnOwnsRow'
  <2>1. /\ UNCHANGED <<trigger, lost, other>>
        /\ runner' = [runner EXCEPT ![d] = runner'[d]]
        /\ Missed(d) \/ Parked(d) \/ Started(d) \/ Proceeded(d) \/ Ended(d)
    BY <1>2, AttemptEffect
  <2>2. ASSUME NEW e \in Dispatches, e # d PROVE runner'[e] = runner[e] /\ status'[e] = status[e]
    BY <2>1, <2>2 DEF Core, Missed, Parked, Started, Proceeded, Ended
  <2>3. runner'[d] \in Held => status'[d] = "running" \/ (runner[d] \in Held /\ status'[d] = status[d])
    BY <2>1 DEF Core, Missed, Parked, Started, Proceeded, Ended, Live, Over, Held
  <2>4. QED
    BY <2>1, <2>2, <2>3 DEF TurnOwnsRow
<1>3. ASSUME NEW t \in Triggers, Insert(t) \/ Remove(t) \/ \E value \in {"on", "off"} : SetEnabled(t, value)
      PROVE  TurnOwnsRow'
  <2>1. CASE Insert(t)
    BY <2>1 DEF Core, Insert, rowVars, processVars, TurnOwnsRow, Dispatches
  <2>2. CASE Remove(t)
    BY <2>2 DEF Core, Remove, processVars, TurnOwnsRow, Dispatches
  <2>3. CASE \E value \in {"on", "off"} : SetEnabled(t, value)
    BY <2>3 DEF Core, SetEnabled, processVars, TurnOwnsRow, Dispatches
  <2>4. QED
    BY <1>3, <2>1, <2>2, <2>3
<1>4. ASSUME NEW a \in Agents, OtherEnters(a) \/ OtherLeaves(a) PROVE TurnOwnsRow'
  BY <1>4 DEF TurnOwnsRow, OtherEnters, OtherLeaves, rowVars, triggerVars
<1>5. CASE Crash \/ Exit
  BY <1>5 DEF TurnOwnsRow, Crash, Exit, Ends, Live, Over, Held
<1>6. CASE Elsewhere
  BY <1>6 DEF TurnOwnsRow, Elsewhere
<1>7. QED
  BY <1>1, <1>2, <1>3, <1>4, <1>5, <1>6, StepKinds

\* The row of a turn under way stays claimed for it until the turn ends or the trigger is deleted.
THEOREM RowOwned == Spec => []TurnOwnsRow
<1>1. Init => Core /\ TurnOwnsRow
  <2>1. Init => TurnOwnsRow
    BY DEF Init, TurnOwnsRow, Live, Over, Held
  <2>2. QED
    BY <2>1, InitCore
<1>2. Core /\ TurnOwnsRow /\ [Next]_vars => Core' /\ TurnOwnsRow'
  BY CoreStep, OwnStep
<1>3. QED
  BY <1>1, <1>2, PTL DEF Spec

-----------------------------------------------------------------------------
(* One turn per Agent. *)

LEMMA LiveStep ==
    ASSUME Core, OneLiveTurn, [Next]_vars
    PROVE  OneLiveTurn'
<1>1. ASSUME NEW k \in Ticks, TickStep(k) PROVE OneLiveTurn'
  <2>1. /\ UNCHANGED <<trigger, attempts, lost, other>> /\ Fired
        /\ \/ UNCHANGED status
           \/ \E d : /\ status[d] = "none" /\ ~HasOpenForTrigger(d[1])
                     /\ trigger[d[1]] \in {"on", "off"}
                     /\ status' = [status EXCEPT ![d] = "pending"]
    BY <1>1, TickEffect
  <2>2. QED
    BY <2>1 DEF Fired, OneLiveTurn, Target, Live
<1>2. ASSUME NEW d \in Dispatches, AttemptStep(d) PROVE OneLiveTurn'
  <2>1. /\ UNCHANGED <<trigger, lost, other>>
        /\ runner' = [runner EXCEPT ![d] = runner'[d]]
        /\ Missed(d) \/ Parked(d) \/ Started(d) \/ Proceeded(d) \/ Ended(d)
    BY <1>2, AttemptEffect
  <2>2. CASE Started(d)
    <3>1. /\ other[Target(d)] \notin Live
          /\ \A e \in Dispatches : Target(e) = Target(d) => runner[e] \notin Live
      BY <2>2 DEF Started, Active
    <3>2. Target(d) \in Agents
      BY TriggerAssumption DEF Target, Dispatches
    <3>3. other[Target(d)] = "none"
      BY <3>1, <3>2 DEF Core
    <3>4. QED
      BY <2>1, <3>1, <3>3 DEF Core, OneLiveTurn, Target
  <2>3. CASE ~Started(d)
    <3>1. \A e \in Dispatches : runner'[e] \in Live => runner[e] \in Live
      BY <2>1, <2>3 DEF Core, Missed, Parked, Proceeded, Ended, Live, Over, Held
    <3>2. QED
      BY <2>1, <3>1 DEF OneLiveTurn, Target
  <2>4. QED
    BY <2>2, <2>3
<1>3. ASSUME NEW t \in Triggers, Insert(t) \/ Remove(t) \/ \E value \in {"on", "off"} : SetEnabled(t, value)
      PROVE  OneLiveTurn'
  BY <1>3 DEF Insert, Remove, SetEnabled, processVars, OneLiveTurn, Target
<1>4. ASSUME NEW a \in Agents, OtherEnters(a) \/ OtherLeaves(a) PROVE OneLiveTurn'
  <2>1. CASE OtherEnters(a)
    <3>1. UNCHANGED other \/ (~Active(a) /\ other' = [other EXCEPT ![a] = "preparing"])
      BY <2>1 DEF OtherEnters
    <3>2. UNCHANGED runner
      BY <2>1 DEF OtherEnters
    <3>3. QED
      BY <3>1, <3>2 DEF Core, Active, OneLiveTurn, Target
  <2>2. CASE OtherLeaves(a)
    <3>1. other[a] \in Live /\ \E to : other' = [other EXCEPT ![a] = to]
      BY <2>2 DEF OtherLeaves
    <3>2. UNCHANGED runner
      BY <2>2 DEF OtherLeaves
    <3>3. QED
      BY <3>1, <3>2 DEF Core, OneLiveTurn, Target, Live
  <2>3. QED
    BY <1>4, <2>1, <2>2
<1>5. CASE Crash \/ Exit
  BY <1>5 DEF OneLiveTurn, Crash, Exit, Ends, Live
<1>6. CASE Elsewhere
  BY <1>6 DEF OneLiveTurn, Elsewhere, Target
<1>7. QED
  BY <1>1, <1>2, <1>3, <1>4, <1>5, <1>6, StepKinds

\* No Agent has two turns, whatever sources compete for it.
THEOREM TurnsExclusive == Spec => []OneLiveTurn
<1>1. Init => Core /\ OneLiveTurn
  <2>1. Init => OneLiveTurn
    BY DEF Init, OneLiveTurn, Live
  <2>2. QED
    BY <2>1, InitCore
<1>2. Core /\ OneLiveTurn /\ [Next]_vars => Core' /\ OneLiveTurn'
  BY CoreStep, LiveStep
<1>3. QED
  BY <1>1, <1>2, PTL DEF Spec

-----------------------------------------------------------------------------
(* Bounded retry.  RetriesBounded alone is not inductive: a claim charges an attempt to any
   open row, so such a row must have one left, which Budget says. *)

LEMMA BudgetStep ==
    ASSUME Core, Budget, [Next]_vars
    PROVE  Budget'
<1> USE NumberAssumption
<1>1. ASSUME NEW k \in Ticks, TickStep(k) PROVE Budget'
  <2>1. /\ UNCHANGED <<trigger, attempts, lost, other>> /\ Fired
        /\ \/ UNCHANGED status
           \/ \E d : /\ status[d] = "none" /\ ~HasOpenForTrigger(d[1])
                     /\ trigger[d[1]] \in {"on", "off"}
                     /\ status' = [status EXCEPT ![d] = "pending"]
    BY <1>1, TickEffect
  <2>2. ASSUME NEW e \in Dispatches
        PROVE  /\ runner'[e] \in Held <=> runner[e] \in Held
               /\ status'[e] = status[e] \/ (status[e] = "none" /\ status'[e] = "pending")
    BY <2>1 DEF Core, Fired, Live, Over, Held
  <2>3. QED
    BY <2>1, <2>2 DEF Core, Budget, Terminal
<1>2. ASSUME NEW d \in Dispatches, AttemptStep(d) PROVE Budget'
  <2>1. /\ UNCHANGED <<trigger, lost, other>>
        /\ runner' = [runner EXCEPT ![d] = runner'[d]]
        /\ Missed(d) \/ Parked(d) \/ Started(d) \/ Proceeded(d) \/ Ended(d)
    BY <1>2, AttemptEffect
  <2>2. ASSUME NEW e \in Dispatches, e # d
        PROVE  runner'[e] = runner[e] /\ status'[e] = status[e] /\ attempts'[e] = attempts[e]
    BY <2>1, <2>2 DEF Core, Missed, Parked, Started, Proceeded, Ended
  <2>3. CASE Missed(d) \/ Proceeded(d)
    BY <2>1, <2>2, <2>3 DEF Core, Budget, Missed, Proceeded, Live, Over, Held
  <2>4. CASE Parked(d) \/ Started(d)
    <3>1. attempts[d] + 1 <= MaxAttempts + lost[d]
      BY <2>4 DEF Budget, Parked, Started, OpenRow, Terminal, Live, Over, Held
    <3>2. QED
      BY <2>1, <2>2, <2>4, <3>1 DEF Core, Budget, Parked, Started, Terminal, Live, Over, Held
  <2>5. CASE Ended(d)
    <3>1. CASE status[d] # "running"
      BY <2>1, <2>2, <2>5, <3>1 DEF Core, Budget, Ended
    <3>2. CASE status[d] = "running" /\ status'[d] \in Terminal
      BY <2>1, <2>2, <2>5, <3>2 DEF Core, Budget, Ended, Terminal
    <3>3. CASE status[d] = "running" /\ status'[d] \notin Terminal
      <4>1. attempts'[d] + 1 <= MaxAttempts + lost[d]
        BY <2>5, <3>3 DEF Core, Budget, Ended
      <4>2. attempts'[d] \in Nat /\ lost[d] \in Nat
        BY CoreStep DEF Core
      <4>3. QED
        BY <2>1, <2>2, <4>1, <4>2 DEF Budget
    <3>4. QED
      BY <3>1, <3>2, <3>3
  <2>6. QED
    BY <2>1, <2>3, <2>4, <2>5
<1>3. ASSUME NEW t \in Triggers, Insert(t) \/ Remove(t) \/ \E value \in {"on", "off"} : SetEnabled(t, value)
      PROVE  Budget'
  <2>1. CASE Insert(t)
    BY <2>1 DEF Insert, rowVars, processVars, Budget
  <2>2. CASE Remove(t)
    BY <2>2 DEF Core, Remove, processVars, Budget
  <2>3. CASE \E value \in {"on", "off"} : SetEnabled(t, value)
    BY <2>3 DEF Core, SetEnabled, processVars, Budget, Terminal
  <2>4. QED
    BY <1>3, <2>1, <2>2, <2>3
<1>4. ASSUME NEW a \in Agents, OtherEnters(a) \/ OtherLeaves(a) PROVE Budget'
  BY <1>4 DEF Budget, OtherEnters, OtherLeaves, rowVars
<1>5. CASE Crash \/ Exit
  <2>1. CASE Crash
    BY <2>1 DEF Core, Budget, Crash, Ends, Live, Over, Held
  <2>2. CASE Exit
    BY <2>2 DEF Core, Budget, Exit, Ends, Live, Over, Held
  <2>3. QED
    BY <1>5, <2>1, <2>2
<1>6. CASE Elsewhere
  BY <1>6 DEF Budget, Elsewhere
<1>7. QED
  BY <1>1, <1>2, <1>3, <1>4, <1>5, <1>6, StepKinds

\* Apart from attempts that died with the process, MaxAttempts bounds the attempts of an occurrence.
THEOREM RetryBound == Spec => []RetriesBounded
<1>1. Init => Core /\ Budget
  <2>1. Init => Budget
    BY NumberAssumption DEF Init, Budget, Live, Over, Held
  <2>2. QED
    BY <2>1, InitCore
<1>2. Core /\ Budget /\ [Next]_vars => Core' /\ Budget'
  BY CoreStep, BudgetStep
<1>3. Budget => RetriesBounded
  BY DEF Budget, RetriesBounded
<1>4. QED
  BY <1>1, <1>2, <1>3, PTL DEF Spec

-----------------------------------------------------------------------------
(* Settled rows and refused occurrences. *)

LEMMA FinalStep ==
    ASSUME Core, [Next]_vars, NEW e \in Dispatches
    PROVE  /\ status[e] \in Terminal => status'[e] \in {status[e], "none"}
           /\ approval[e] = "refused" /\ runner[e] \notin Live => runner'[e] \notin Live
<1> DEFINE Goal == /\ status[e] \in Terminal => status'[e] \in {status[e], "none"}
                   /\ approval[e] = "refused" /\ runner[e] \notin Live => runner'[e] \notin Live
<1>1. ASSUME NEW k \in Ticks, TickStep(k) PROVE Goal
  <2>1. /\ UNCHANGED <<trigger, attempts, lost, other>> /\ Fired
        /\ \/ UNCHANGED status
           \/ \E d : /\ status[d] = "none" /\ ~HasOpenForTrigger(d[1])
                     /\ trigger[d[1]] \in {"on", "off"}
                     /\ status' = [status EXCEPT ![d] = "pending"]
    BY <1>1, TickEffect
  <2>2. QED
    BY <2>1 DEF Core, Fired, Terminal, Live
<1>2. ASSUME NEW d \in Dispatches, AttemptStep(d) PROVE Goal
  <2>1. /\ UNCHANGED <<trigger, lost, other>>
        /\ runner' = [runner EXCEPT ![d] = runner'[d]]
        /\ Missed(d) \/ Parked(d) \/ Started(d) \/ Proceeded(d) \/ Ended(d)
    BY <1>2, AttemptEffect
  <2>2. CASE e = d
    BY <2>1, <2>2 DEF Core, Missed, Parked, Started, Proceeded, Ended, Terminal, OpenRow, Live, Over, Held
  <2>3. CASE e # d
    BY <2>1, <2>3 DEF Core, Missed, Parked, Started, Proceeded, Ended
  <2>4. QED
    BY <2>2, <2>3
<1>3. ASSUME NEW t \in Triggers, Insert(t) \/ Remove(t) \/ \E value \in {"on", "off"} : SetEnabled(t, value)
      PROVE  Goal
  BY <1>3 DEF Core, Insert, Remove, SetEnabled, rowVars, processVars, Terminal
<1>4. ASSUME NEW a \in Agents, OtherEnters(a) \/ OtherLeaves(a) PROVE Goal
  BY <1>4 DEF OtherEnters, OtherLeaves, rowVars
<1>5. CASE Crash \/ Exit
  BY <1>5 DEF Crash, Exit, Ends, Live
<1>6. CASE Elsewhere
  BY <1>6 DEF Elsewhere
<1>7. QED
  BY <1>1, <1>2, <1>3, <1>4, <1>5, <1>6, StepKinds

\* A settled occurrence is never opened again.
THEOREM FinalOutcome == Spec => SettledIsFinal
<1>1. Core /\ [Next]_vars
        => [\A d \in Dispatches : status[d] \in Terminal => status'[d] \in {status[d], "none"}]_vars
  BY FinalStep
<1>2. Core /\ [Next]_vars => Core'
  BY CoreStep
<1>3. QED
  BY <1>1, <1>2, InitCore, PTL DEF Spec, SettledIsFinal

\* A refused occurrence never gets a turn.
THEOREM RefusalIsFinal == Spec => RefusalHolds
<1>1. Core /\ [Next]_vars
        => [\A d \in Dispatches :
              approval[d] = "refused" /\ runner[d] \notin Live => runner'[d] \notin Live]_vars
  BY FinalStep
<1>2. Core /\ [Next]_vars => Core'
  BY CoreStep
<1>3. QED
  BY <1>1, <1>2, InitCore, PTL DEF Spec, RefusalHolds
=============================================================================
