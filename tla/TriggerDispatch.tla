--------------------------- MODULE TriggerDispatch ---------------------------
(***************************************************************************)
(* Scheduled triggers: the agent_triggers and trigger_dispatches rows, the *)
(* scheduler's ticks, which may overlap while they wait for a lifecycle    *)
(* lease, the attempts they fire, the approval of an occurrence, and a     *)
(* daemon that may die or shut down between any two awaits.                *)
(*                                                                         *)
(* A dispatch is the pair of its trigger and its scheduled time, which     *)
(* trigger_dispatches holds UNIQUE.  Deadlines (retry, lease, approval     *)
(* expiry) pass at any time: `ripe' holds the rows whose next attempt or   *)
(* whose running lease is due.  Team Policy enforcement is on.             *)
(***************************************************************************)
EXTENDS Integers, Sequences, FiniteSets

CONSTANTS
    Triggers,    \* trigger ids
    Agents,      \* Agent ids
    AgentOf,     \* agent_triggers.agent_id
    Cron,        \* the triggers of kind cron; the others are intervals
    CronMinutes, \* the minutes a cron expression matches
    Every,       \* the period of an interval trigger
    Minute,      \* clock units in a minute
    MaxAttempts, \* the default maxAttempts of fail
    Ticks,       \* identities of scheduler ticks under way at the same time
    Other,       \* the lease holder that is neither a tick nor an attempt
    Policies,    \* bound: decisions operators configure for user input
    Horizon,     \* bound: the last value of the clock
    MaxDeaths,   \* bound: crashes and shutdowns
    MaxBusy      \* bound: turns of other sources and refusals of a busy workspace

Time       == 0..Horizon
Dispatches == Triggers \X Time

ASSUME TriggerAssumption ==
    /\ AgentOf \in [Triggers -> Agents]
    /\ Cron \subseteq Triggers /\ CronMinutes \in [Triggers -> SUBSET Nat]
    /\ Every \in [Triggers -> Nat]
ASSUME NumberAssumption ==
    /\ Minute \in Nat \ {0} /\ MaxAttempts \in Nat \ {0}
    /\ Horizon \in Nat /\ MaxDeaths \in Nat /\ MaxBusy \in Nat
ASSUME PolicyAssumption == Policies \subseteq {"allow", "deny", "approval_required"}

VARIABLES
    \* SQLite rows, kept over a restart
    trigger,     \* agent_triggers: absent, on, off or deleted
    created,     \* agent_triggers.created_at
    lastFired,   \* agent_triggers.last_fired_at
    status,      \* trigger_dispatches.status, "none" without a row
    attempts,    \* trigger_dispatches.attempt_count
    ripe,        \* rows whose next_attempt_at or lease_expires_at has passed
    approval,    \* status of the communication approval of the occurrence
    stale,       \* approvals whose captured policy references are outdated
    policy,      \* what Team Policy decides for user input to an Agent
    \* the daemon process, lost with it
    daemon,      \* life of the process
    todo,        \* what a tick has left to materialize; <<>> when it is not waiting
    runner,      \* where fireTrigger is for a dispatch; not idle: in `firing'
    aborted,     \* attempts whose AbortController fired
    other,       \* the turn of another source on an Agent
    lease,       \* per Agent the holder of the lifecycle lease and its waiters
    clock,       \* the wall clock
    \* history kept for properties and bounds
    lost,        \* attempts that died with the process
    deaths, busy

triggerVars  == <<trigger, created, lastFired>>
rowVars      == <<status, attempts, ripe, lost>>
approvalVars == <<approval, stale>>
processVars  == <<todo, runner, aborted, other, lease>>
boundVars    == <<deaths, busy>>
vars == <<triggerVars, rowVars, approvalVars, policy, daemon, processVars, clock, boundVars>>

-----------------------------------------------------------------------------
(* Domains. *)

Never    == -1
OpenRow  == {"pending", "running", "retrying"}
Terminal == {"succeeded", "failed", "cancelled"}
Live     == {"preparing", "turn"}
Over     == {"blocked", "broken", "finished"} \* how an attempt ended, before its row says so
Held     == Live \cup Over

Rows ==
    /\ trigger \in [Triggers -> {"absent", "on", "off", "deleted"}]
    /\ created \in [Triggers -> Time]
    /\ lastFired \in [Triggers -> Time \cup {Never}]
    /\ status \in [Dispatches -> OpenRow \cup Terminal \cup {"none"}]
    /\ attempts \in [Dispatches -> Nat]
    /\ lost \in [Dispatches -> Nat]
    /\ ripe \subseteq Dispatches
    /\ approval \in [Dispatches -> {"none", "pending", "delivered", "refused"}]
    /\ stale \subseteq Dispatches
    /\ policy \in [Agents -> {"allow", "deny", "approval_required"}]

Process ==
    /\ daemon \in {"up", "stopping", "down"}
    /\ todo \in [Ticks -> Seq(Dispatches)]
    /\ runner \in [Dispatches -> {"idle", "waiting"} \cup Held]
    /\ aborted \subseteq Dispatches
    /\ other \in [Agents -> {"none"} \cup Live]
    /\ lease \in [Agents -> Seq(Dispatches \cup Ticks \cup {Other})]
    /\ clock \in Time
    /\ deaths \in Nat /\ busy \in Nat

TypeOK == Rows /\ Process

Init ==
    /\ trigger = [t \in Triggers |-> "absent"]
    /\ created = [t \in Triggers |-> 0]
    /\ lastFired = [t \in Triggers |-> Never]
    /\ status = [d \in Dispatches |-> "none"]
    /\ attempts = [d \in Dispatches |-> 0]
    /\ lost = [d \in Dispatches |-> 0]
    /\ ripe = {}
    /\ approval = [d \in Dispatches |-> "none"]
    /\ stale = {}
    /\ policy \in [Agents -> Policies]
    /\ daemon = "up"
    /\ todo = [k \in Ticks |-> <<>>]
    /\ runner = [d \in Dispatches |-> "idle"]
    /\ aborted = {}
    /\ other = [a \in Agents |-> "none"]
    /\ lease = [a \in Agents |-> <<>>]
    /\ clock = 0
    /\ deaths = 0 /\ busy = 0

Target(d) == AgentOf[d[1]]

\* isActiveAgent: some turn is registered for the Agent.
Active(a) == other[a] \in Live \/ \E d \in Dispatches : Target(d) = a /\ runner[d] \in Live

\* acquireAgentLifecycleLease: the first in line holds the lease, releasing passes it on.
Holds(x, a)      == lease[a] # <<>> /\ Head(lease[a]) = x
Released(a)      == [lease EXCEPT ![a] = Tail(@)]
Queued(line, x, a) == [line EXCEPT ![a] = Append(@, x)]

\* A tick or an attempt that was handed its lease, or whose turn is over, resumes in a
\* microtask, before the event loop turns to a timer, a request, a signal or other I/O.
Quiet ==
    /\ \A d \in Dispatches : runner[d] \notin Over
    /\ \A a \in Agents : lease[a] # <<>> =>
        Head(lease[a]) = Other \/ (Head(lease[a]) \in Dispatches /\ runner[Head(lease[a])] = "preparing")

Running == daemon # "down" /\ Quiet

-----------------------------------------------------------------------------
(* Due occurrences. *)

FloorToMinute(time) == (time \div Minute) * Minute

Baseline(t) == IF lastFired[t] = Never THEN created[t] ELSE lastFired[t]

IsDue(t) ==
    /\ trigger[t] = "on"
    /\ IF t \in Cron
       THEN /\ lastFired[t] = Never \/ FloorToMinute(lastFired[t]) # FloorToMinute(clock)
            /\ FloorToMinute(clock) \in CronMinutes[t]
       ELSE Every[t] > 0 /\ clock - Baseline(t) >= Every[t]

ScheduledOccurrence(t) ==
    IF t \in Cron THEN FloorToMinute(clock)
    ELSE Baseline(t) + ((clock - Baseline(t)) \div Every[t]) * Every[t]

\* A set in the order of a SQL sort key; rows with equal keys come in any order.
Orders(S, Key(_)) ==
    {line \in [1..Cardinality(S) -> S] :
        \A i, j \in 1..Cardinality(S) : i < j => line[i] # line[j] /\ Key(line[i]) <= Key(line[j])}

-----------------------------------------------------------------------------
(* Rows. *)

\* Fault: an abandoned running row is left to its dead owner.
ClaimableUnlessRunning(d) == status[d] \in {"pending", "retrying"} /\ d \in ripe

\* The condition of listClaimable and claim.
Claimable(d) == status[d] \in OpenRow /\ d \in ripe

\* Fault: only a row that waits counts as open work.
HasWaitingForTrigger(t) == \E s \in Time : status[<<t, s>>] \in {"pending", "retrying"}

HasOpenForTrigger(t) == \E s \in Time : status[<<t, s>>] \in OpenRow

\* Fault: the insert replaces a row of the same occurrence.
MaterializeReplace(d) ==
    /\ status' = [status EXCEPT ![d] = "pending"]
    /\ ripe' = ripe \cup {d}

\* INSERT ... ON CONFLICT(trigger_id, scheduled_at) DO NOTHING
Materialize(d) ==
    IF status[d] = "none"
    THEN status' = [status EXCEPT ![d] = "pending"] /\ ripe' = ripe \cup {d}
    ELSE UNCHANGED <<status, ripe>>

\* A write to a row this process claimed: WHERE id = ? AND status = 'running'.
Close(d, to) ==
    IF status[d] = "running"
    THEN status' = [status EXCEPT ![d] = to] /\ ripe' = ripe \ {d}
    ELSE UNCHANGED <<status, ripe>>

\* Fault: one attempt too many.
ExhaustedLate(d) == attempts[d] > MaxAttempts

Exhausted(d) == attempts[d] >= MaxAttempts

Fail(d) ==
    /\ Close(d, IF Exhausted(d) THEN "failed" ELSE "retrying")
    /\ UNCHANGED attempts

\* defer takes the attempt back that claim counted.
Defer(d) ==
    /\ Close(d, "pending")
    /\ attempts' = IF status[d] = "running" /\ attempts[d] > 0
                   THEN [attempts EXCEPT ![d] = @ - 1] ELSE attempts

-----------------------------------------------------------------------------
(* The scheduler's tick. *)

\* Attempts ask for the leases of their Agents in the order of their scheduled time.
LineUp(due, line) ==
    \E order \in Orders(due, LAMBDA d : d[2]) :
        lease' = [a \in Agents |-> line[a] \o SelectSeq(order, LAMBDA d : Target(d) = a)]

\* The end of a tick: fireTrigger for every claimable dispatch that is not firing yet.
FireTriggers(line) ==
    LET due == {d \in Dispatches : Claimable(d)' /\ runner[d] = "idle"} IN
    /\ runner' = [d \in Dispatches |-> IF d \in due THEN "waiting" ELSE runner[d]]
    /\ LineUp(due, line)

\* A tick waits for the lease of the next due trigger, or fires what is claimable.
Proceed(k, rest, line) ==
    /\ todo' = [todo EXCEPT ![k] = rest]
    /\ IF rest = <<>> THEN FireTriggers(line)
       ELSE lease' = Queued(line, k, Target(Head(rest))) /\ UNCHANGED runner

\* The due triggers in the order of listEnabled.
DueOrders == Orders({t \in Triggers : IsDue(t)}, LAMBDA t : created[t])

\* A timer starts a tick: it reads the clock and the enabled triggers once.
RunTick(k) ==
    /\ Running /\ daemon = "up" /\ todo[k] = <<>>
    /\ UNCHANGED <<status, ripe>>
    /\ \E order \in DueOrders :
         Proceed(k, [i \in DOMAIN order |-> <<order[i], ScheduledOccurrence(order[i])>>], lease)
    /\ UNCHANGED <<triggerVars, attempts, lost, approvalVars, policy, daemon, aborted, other, clock,
                   boundVars>>

\* The tick holds the lease of its next trigger and materializes the occurrence it
\* computed when it started, or coalesces it with open work; both mark it fired.
TickMaterialize(k) ==
    /\ daemon = "up" /\ todo[k] # <<>>
    /\ LET d == Head(todo[k]) IN
       /\ Holds(k, Target(d))
       /\ IF trigger[d[1]] \in {"on", "off"}
          THEN /\ IF HasOpenForTrigger(d[1]) THEN UNCHANGED <<status, ripe>> ELSE Materialize(d)
               /\ lastFired' = [lastFired EXCEPT ![d[1]] = d[2]]
          ELSE UNCHANGED <<status, ripe, lastFired>>
       /\ Proceed(k, Tail(todo[k]), Released(Target(d)))
    /\ UNCHANGED <<trigger, created, attempts, lost, approvalVars, policy, daemon, aborted, other, clock,
                   boundVars>>

\* The conversation of the target cannot be resolved: the occurrence is left for a later tick.
TickSkip(k) ==
    /\ daemon = "up" /\ todo[k] # <<>>
    /\ Holds(k, Target(Head(todo[k])))
    /\ UNCHANGED <<status, ripe>>
    /\ Proceed(k, Tail(todo[k]), Released(Target(Head(todo[k]))))
    /\ UNCHANGED <<triggerVars, attempts, lost, approvalVars, policy, daemon, aborted, other, clock,
                   boundVars>>

\* A tick that gets its lease after stopScheduler returns without firing anything.
TickStops(k) ==
    /\ daemon = "stopping" /\ todo[k] # <<>>
    /\ Holds(k, Target(Head(todo[k])))
    /\ lease' = Released(Target(Head(todo[k])))
    /\ todo' = [todo EXCEPT ![k] = <<>>]
    /\ UNCHANGED <<triggerVars, rowVars, approvalVars, policy, daemon, runner, aborted, other, clock,
                   boundVars>>

-----------------------------------------------------------------------------
(* fireTrigger: one attempt. *)

\* Fault: a decided approval is only looked at while it is pending.
VerdictIgnoresRefusal(d) ==
    IF trigger[d[1]] # "on" THEN "fail"
    ELSE IF Active(Target(d)) \/ approval[d] = "pending" THEN "defer"
    ELSE CASE policy[Target(d)] = "deny" -> "fail"
           [] policy[Target(d)] = "allow" -> "start"
           [] OTHER -> IF approval[d] = "delivered" /\ d \notin stale THEN "start"
                       ELSE IF approval[d] = "none" THEN "ask" ELSE "fail"

\* What a claimed attempt does: the trigger, the registry, claimSchedulerTrigger.
Verdict(d) ==
    IF trigger[d[1]] # "on" THEN "fail"
    ELSE IF Active(Target(d)) \/ approval[d] = "pending" THEN "defer"
    ELSE IF approval[d] = "refused" \/ policy[Target(d)] = "deny" THEN "fail"
    ELSE IF approval[d] = "delivered"
    THEN IF policy[Target(d)] = "approval_required" /\ d \notin stale THEN "start" ELSE "fail"
    ELSE IF policy[Target(d)] = "approval_required" THEN "ask" ELSE "start"

\* The occurrence reached the transaction of claimSchedulerTrigger, which moves a watermark
\* that is behind up to it.
MarkClaimed(d) ==
    lastFired' =
        IF /\ trigger[d[1]] = "on" /\ ~Active(Target(d))
           /\ approval[d] \in {"none", "delivered"} /\ lastFired[d[1]] < d[2]
        THEN [lastFired EXCEPT ![d[1]] = d[2]] ELSE lastFired

\* The attempt holds the lease but may not claim its row any more.
ClaimMisses(d) ==
    /\ runner[d] = "waiting" /\ Holds(d, Target(d))
    /\ daemon = "stopping" \/ ~Claimable(d)
    /\ runner' = [runner EXCEPT ![d] = "idle"]
    /\ lease' = Released(Target(d))
    /\ UNCHANGED <<triggerVars, rowVars, approvalVars, policy, daemon, todo, aborted, other, clock,
                   boundVars>>

\* claim: the attempt leases the row and counts itself.
Claims(d) ==
    /\ daemon = "up" /\ runner[d] = "waiting" /\ Holds(d, Target(d)) /\ Claimable(d)
    /\ ripe' = ripe \ {d}
    /\ MarkClaimed(d)
    /\ UNCHANGED <<trigger, created, lost, stale, policy, daemon, todo, aborted, other, clock, boundVars>>

\* The Agent is busy or the approval undecided: claim and defer, the attempt does not count.
ClaimDefers(d) ==
    /\ Verdict(d) = "defer"
    /\ Claims(d)
    /\ status' = [status EXCEPT ![d] = "pending"]
    /\ runner' = [runner EXCEPT ![d] = "idle"]
    /\ lease' = Released(Target(d))
    /\ UNCHANGED <<attempts, approval>>

\* Team Policy asks for approval: the request is filed and the occurrence waits for it.
ClaimAsks(d) ==
    /\ Verdict(d) = "ask"
    /\ Claims(d)
    /\ status' = [status EXCEPT ![d] = "pending"]
    /\ approval' = [approval EXCEPT ![d] = "pending"]
    /\ runner' = [runner EXCEPT ![d] = "idle"]
    /\ lease' = Released(Target(d))
    /\ UNCHANGED attempts

\* A disabled trigger, a denial or a refused or outdated approval ends the occurrence.
ClaimFails(d) ==
    /\ Verdict(d) = "fail"
    /\ Claims(d)
    /\ status' = [status EXCEPT ![d] = "failed"]
    /\ attempts' = [attempts EXCEPT ![d] = @ + 1]
    /\ runner' = [runner EXCEPT ![d] = "idle"]
    /\ lease' = Released(Target(d))
    /\ UNCHANGED approval

\* The turn is registered in the same transaction; preparation keeps the lease.
ClaimStarts(d) ==
    /\ Verdict(d) = "start"
    /\ Claims(d)
    /\ status' = [status EXCEPT ![d] = "running"]
    /\ attempts' = [attempts EXCEPT ![d] = @ + 1]
    /\ runner' = [runner EXCEPT ![d] = "preparing"]
    /\ UNCHANGED <<approval, lease>>

Prepared(d) ==
    /\ Running /\ runner[d] = "preparing"
    /\ runner' = [runner EXCEPT ![d] = "turn"]
    /\ lease' = Released(Target(d))
    /\ UNCHANGED <<triggerVars, rowVars, approvalVars, policy, daemon, todo, aborted, other, clock,
                   boundVars>>

\* Registration and lease are given up first; whoever waits for the lease may resume before
\* fireTrigger records how the attempt ended.
GivesUp(d, how) ==
    /\ runner' = [runner EXCEPT ![d] = how]
    /\ lease' = IF runner[d] = "preparing" THEN Released(Target(d)) ELSE lease
    /\ UNCHANGED <<triggerVars, rowVars, approvalVars, policy, daemon, todo, aborted, other, clock, deaths>>

\* Preparation finds the Team's workspace taken.
WorkspaceBusy(d) ==
    /\ Running /\ runner[d] = "preparing" /\ busy < MaxBusy
    /\ GivesUp(d, "blocked")
    /\ busy' = busy + 1

\* Preparation or the turn ended with an error.
TurnBreaks(d) ==
    /\ Running /\ runner[d] \in Live
    /\ GivesUp(d, "broken")
    /\ UNCHANGED busy

TurnFinishes(d) ==
    /\ Running /\ runner[d] = "turn"
    /\ GivesUp(d, "finished")
    /\ UNCHANGED busy

\* The attempt leaves fireTrigger and the firing guard with it.
Leave(d) ==
    /\ runner' = [runner EXCEPT ![d] = "idle"]
    /\ aborted' = aborted \ {d}
    /\ UNCHANGED <<triggerVars, lost, approvalVars, policy, daemon, todo, other, lease, clock, boundVars>>

\* A busy workspace defers the occurrence, even when the attempt was aborted.
RecordDeferral(d) ==
    /\ daemon # "down" /\ runner[d] = "blocked"
    /\ Defer(d)
    /\ Leave(d)

\* However else an aborted attempt ended, it is recorded as cancelled.
RecordCancel(d) ==
    /\ daemon # "down" /\ runner[d] \in {"broken", "finished"} /\ d \in aborted
    /\ Close(d, "cancelled")
    /\ Leave(d)
    /\ UNCHANGED attempts

RecordFailure(d) ==
    /\ daemon # "down" /\ runner[d] = "broken" /\ d \notin aborted
    /\ Fail(d)
    /\ Leave(d)

RecordSuccess(d) ==
    /\ daemon # "down" /\ runner[d] = "finished" /\ d \notin aborted
    /\ Close(d, "succeeded")
    /\ Leave(d)
    /\ UNCHANGED attempts

-----------------------------------------------------------------------------
(* Operators. *)

Insert(t) ==
    /\ Running /\ trigger[t] = "absent"
    /\ \E enabled \in {"on", "off"} : trigger' = [trigger EXCEPT ![t] = enabled]
    /\ created' = [created EXCEPT ![t] = clock]
    /\ UNCHANGED <<lastFired, rowVars, approvalVars, policy, daemon, processVars, clock, boundVars>>

\* Fault: disabling also cancels the row of a turn that is under way.
SetEnabledAll(t, value) ==
    /\ Running /\ trigger[t] \in {"on", "off"}
    /\ trigger' = [trigger EXCEPT ![t] = value]
    /\ status' = [d \in Dispatches |->
                    IF value = "off" /\ d[1] = t /\ status[d] \in OpenRow THEN "cancelled" ELSE status[d]]
    /\ ripe' = {d \in ripe : status'[d] # "cancelled"}
    /\ UNCHANGED <<created, lastFired, attempts, lost, approvalVars, policy, daemon, processVars,
                   clock, boundVars>>

\* setEnabled: disabling cancels what has not started, in the same transaction.
SetEnabled(t, value) ==
    /\ Running /\ trigger[t] \in {"on", "off"}
    /\ trigger' = [trigger EXCEPT ![t] = value]
    /\ status' = [d \in Dispatches |->
                    IF value = "off" /\ d[1] = t /\ status[d] \in {"pending", "retrying"}
                    THEN "cancelled" ELSE status[d]]
    /\ ripe' = {d \in ripe : status'[d] # "cancelled"}
    /\ UNCHANGED <<created, lastFired, attempts, lost, approvalVars, policy, daemon, processVars,
                   clock, boundVars>>

\* remove: the dispatch rows go with the trigger; a started turn goes on.
Remove(t) ==
    /\ Running /\ trigger[t] \in {"on", "off"}
    /\ trigger' = [trigger EXCEPT ![t] = "deleted"]
    /\ status' = [d \in Dispatches |-> IF d[1] = t THEN "none" ELSE status[d]]
    /\ attempts' = [d \in Dispatches |-> IF d[1] = t THEN 0 ELSE attempts[d]]
    /\ lost' = [d \in Dispatches |-> IF d[1] = t THEN 0 ELSE lost[d]]
    /\ ripe' = {d \in ripe : d[1] # t}
    /\ UNCHANGED <<created, lastFired, approvalVars, policy, daemon, processVars, clock, boundVars>>

\* cancelAgent: the operator stops the Agent's registered turn.
Stop(a) ==
    /\ Running
    /\ aborted' = aborted \cup {d \in Dispatches : Target(d) = a /\ runner[d] \in Live}
    /\ UNCHANGED <<triggerVars, rowVars, approvalVars, policy, daemon, todo, runner, other, lease, clock,
                   boundVars>>

\* grantSchedulerTrigger: the grant is checked against the policy, the trigger and the row.
Approve(d) ==
    /\ Running /\ approval[d] = "pending"
    /\ approval' = [approval EXCEPT ![d] =
         IF /\ policy[Target(d)] = "approval_required" /\ d \notin stale
            /\ trigger[d[1]] = "on" /\ status[d] \in OpenRow
         THEN "delivered" ELSE "refused"]
    /\ UNCHANGED <<triggerVars, rowVars, stale, policy, daemon, processVars, clock, boundVars>>

\* decide or expirePending: denied, cancelled or expired.
Refuse(d) ==
    /\ Running /\ approval[d] = "pending"
    /\ approval' = [approval EXCEPT ![d] = "refused"]
    /\ UNCHANGED <<triggerVars, rowVars, stale, policy, daemon, processVars, clock, boundVars>>

\* A new policy revision: what earlier approvals captured no longer matches.
PolicyChange(a, value) ==
    /\ Running
    /\ policy' = [policy EXCEPT ![a] = value]
    /\ stale' = stale \cup {d \in Dispatches : Target(d) = a /\ approval[d] # "none"}
    /\ UNCHANGED <<triggerVars, rowVars, approval, daemon, processVars, clock, boundVars>>

-----------------------------------------------------------------------------
(* Turns of other sources, time, and the life of the process. *)

\* A user, an inbox wake or a lifecycle mutation asks for the Agent's lease.
OtherAsks(a) ==
    /\ Running /\ busy < MaxBusy
    /\ \A i \in 1..Len(lease[a]) : lease[a][i] # Other
    /\ lease' = Queued(lease, Other, a)
    /\ busy' = busy + 1
    /\ UNCHANGED <<triggerVars, rowVars, approvalVars, policy, daemon, todo, runner, aborted, other, clock,
                   deaths>>

\* It is refused when a turn is registered and registers its own otherwise.
OtherEnters(a) ==
    /\ Running /\ Holds(Other, a) /\ other[a] # "preparing"
    /\ IF Active(a) \/ daemon = "stopping"
       THEN lease' = Released(a) /\ UNCHANGED other
       ELSE other' = [other EXCEPT ![a] = "preparing"] /\ UNCHANGED lease
    /\ UNCHANGED <<triggerVars, rowVars, approvalVars, policy, daemon, todo, runner, aborted, clock,
                   boundVars>>

OtherLeaves(a) ==
    /\ Running /\ other[a] \in Live
    /\ \E to \in {"none"} \cup (IF other[a] = "preparing" THEN {"turn"} ELSE {}) :
         other' = [other EXCEPT ![a] = to]
    /\ lease' = IF other[a] = "preparing" THEN Released(a) ELSE lease
    /\ UNCHANGED <<triggerVars, rowVars, approvalVars, policy, daemon, todo, runner, aborted, clock,
                   boundVars>>

Advance ==
    /\ Quiet /\ clock < Horizon
    /\ clock' = clock + 1
    /\ UNCHANGED <<triggerVars, rowVars, approvalVars, policy, daemon, processVars, boundVars>>

\* A retry delay or a running lease of five minutes passes.
Ripen(d) ==
    /\ Quiet /\ status[d] \in OpenRow /\ d \notin ripe
    /\ ripe' = ripe \cup {d}
    /\ UNCHANGED <<triggerVars, status, attempts, lost, approvalVars, policy, daemon, processVars, clock,
                   boundVars>>

\* What a process leaves behind: rows only.
Ends ==
    /\ todo' = [k \in Ticks |-> <<>>]
    /\ runner' = [d \in Dispatches |-> "idle"]
    /\ aborted' = {}
    /\ other' = [a \in Agents |-> "none"]
    /\ lease' = [a \in Agents |-> <<>>]
    /\ UNCHANGED <<triggerVars, status, attempts, ripe, approvalVars, policy, clock, busy>>

\* The process dies, or gives up waiting for its turns 30 seconds into a shutdown.
Crash ==
    /\ daemon # "down" /\ deaths < MaxDeaths
    /\ daemon' = "down" /\ deaths' = deaths + 1
    /\ lost' = [d \in Dispatches |->
                  IF runner[d] \in Held /\ status[d] = "running" THEN lost[d] + 1 ELSE lost[d]]
    /\ Ends

\* stopScheduler fences the ticks, stopAgentTurns aborts the registered turns.
Shutdown ==
    /\ Running /\ daemon = "up" /\ deaths < MaxDeaths
    /\ daemon' = "stopping" /\ deaths' = deaths + 1
    /\ aborted' = aborted \cup {d \in Dispatches : runner[d] \in Live}
    /\ UNCHANGED <<triggerVars, rowVars, approvalVars, policy, todo, runner, other, lease, clock, busy>>

Exit ==
    /\ daemon = "stopping"
    /\ \A k \in Ticks : todo[k] = <<>>
    /\ \A d \in Dispatches : runner[d] = "idle"
    /\ \A a \in Agents : other[a] = "none"
    /\ daemon' = "down"
    /\ Ends
    /\ UNCHANGED <<lost, deaths>>

Start ==
    /\ daemon = "down"
    /\ daemon' = "up"
    /\ UNCHANGED <<triggerVars, rowVars, approvalVars, policy, processVars, clock, boundVars>>

-----------------------------------------------------------------------------
TickStep(k) == RunTick(k) \/ TickMaterialize(k) \/ TickSkip(k) \/ TickStops(k)

AttemptStep(d) ==
    \/ ClaimMisses(d) \/ ClaimDefers(d) \/ ClaimAsks(d) \/ ClaimFails(d) \/ ClaimStarts(d)
    \/ Prepared(d) \/ WorkspaceBusy(d) \/ TurnBreaks(d) \/ TurnFinishes(d)
    \/ RecordDeferral(d) \/ RecordCancel(d) \/ RecordFailure(d) \/ RecordSuccess(d)

OperatorStep ==
    \/ \E t \in Triggers : Insert(t) \/ Remove(t) \/ \E value \in {"on", "off"} : SetEnabled(t, value)
    \/ \E d \in Dispatches : Approve(d) \/ Refuse(d)
    \/ \E a \in Agents : Stop(a) \/ \E value \in Policies : PolicyChange(a, value)

OtherStep(a) == OtherAsks(a) \/ OtherEnters(a) \/ OtherLeaves(a)

ProcessStep == Crash \/ Shutdown \/ Exit \/ Start

Next ==
    \/ \E k \in Ticks : TickStep(k)
    \/ \E d \in Dispatches : AttemptStep(d) \/ Ripen(d)
    \/ OperatorStep
    \/ \E a \in Agents : OtherStep(a)
    \/ Advance
    \/ ProcessStep

Spec == Init /\ [][Next]_vars

\* The event loop serves every ready timer, request and promise: steps that only wait for
\* microtasks to drain are not passed over forever.  Deadlines pass, turns end, and a
\* supervisor starts the daemon again.  Nothing an operator does is assumed.
Fairness ==
    /\ SF_vars(\E k \in Ticks : RunTick(k))
    /\ \A k \in Ticks : WF_vars(TickMaterialize(k) \/ TickSkip(k) \/ TickStops(k))
    /\ \A d \in Dispatches :
         SF_vars(AttemptStep(d)) /\ SF_vars(Ripen(d)) /\ SF_vars(Refuse(d))
    /\ \A a \in Agents : SF_vars(OtherEnters(a) \/ OtherLeaves(a))
    /\ WF_vars(Exit \/ Start)

FairSpec == Spec /\ Fairness

-----------------------------------------------------------------------------
(* Properties. *)

\* Coalescing: a trigger never has two occurrences open, although ticks overlap and
\* occurrences are retried, deferred and abandoned (runTick, hasOpenForTrigger).
OneOpenPerTrigger ==
    \A t \in Triggers : \A s1, s2 \in Time :
        status[<<t, s1>>] \in OpenRow /\ status[<<t, s2>>] \in OpenRow => s1 = s2

\* From the start of its preparation until its outcome is recorded, the row of an attempt stays
\* running, even when the lease of the row expires under a long turn; only deleting the trigger
\* takes the row away (claim, the firing guard of fireTrigger, setEnabled).
TurnOwnsRow ==
    \A d \in Dispatches :
        runner[d] \in Held => status[d] = "running" \/ (status[d] = "none" /\ trigger[d[1]] = "deleted")

\* An Agent has at most one registered turn, scheduled or not (isActiveAgent, registerAgent).
OneLiveTurn ==
    \A a \in Agents :
        /\ \A d, e \in Dispatches :
             Target(d) = a /\ Target(e) = a /\ runner[d] \in Live /\ runner[e] \in Live => d = e
        /\ \A d \in Dispatches : Target(d) = a /\ runner[d] \in Live => other[a] = "none"

\* Bounded retry: apart from attempts that died with the process, an occurrence is attempted
\* at most MaxAttempts times; deferrals are not charged (claim, defer, fail).
RetriesBounded == \A d \in Dispatches : attempts[d] <= MaxAttempts + lost[d]

\* A settled occurrence is never opened again, by a late attempt, a stale tick that
\* materializes it once more or a restart; only deleting its trigger removes it.
SettledIsFinal ==
    [][\A d \in Dispatches : status[d] \in Terminal => status'[d] \in {status[d], "none"}]_vars

\* An occurrence whose approval was refused or expired never gets a turn, even when the
\* policy has been relaxed since (claimSchedulerTrigger, approval_terminal).
RefusalHolds ==
    [][\A d \in Dispatches :
         approval[d] = "refused" /\ runner[d] \notin Live => runner'[d] \notin Live]_vars

\* With finitely many deaths of the process and finitely many turns of other sources, every
\* materialized occurrence ends: deferrals, retries, approvals and abandoned leases resolve.
EverySettles == \A d \in Dispatches : status[d] \in OpenRow ~> status[d] \notin OpenRow

\* What the scheduler's header says of "due": an occurrence is materialized only when it is
\* later than the trigger's last_fired_at.
FiresForward ==
    [][\A d \in Dispatches :
         status[d] = "none" /\ status'[d] = "pending" => lastFired[d[1]] < d[2]]_vars
=============================================================================
