------------------------------ MODULE UserQueue ------------------------------
(***************************************************************************)
(* The durable follow-up queue of the daemon: the SQLite rows of           *)
(* core/repos/user-queue.ts, the admission service, the pump and its drain *)
(* tasks, the delivery of an approved input, the Agent registry and the    *)
(* lifecycle lease they share, and a daemon that may die at any await.     *)
(*                                                                         *)
(* An input is identified by its attempt identity, which user_queue_items  *)
(* holds UNIQUE; AgentOf is the Agent the request names.  The daemon is    *)
(* one JavaScript thread, so a step of the specification is the code       *)
(* between two awaits.  A conditional write that does not match its        *)
(* expected item revision is refused without effect and is not a step.     *)
(***************************************************************************)
EXTENDS Integers, FiniteSets

CONSTANTS
    Agents,      \* Agent ids
    Inputs,      \* attempt identities clients may submit
    AgentOf,     \* the Agent an attempt is addressed to
    Telegram,    \* the attempts that arrive through the Telegram transport
    Teams,       \* Teams an Agent can belong to
    NoInput,     \* a drain task without a claimed input
    PerAgent,    \* QUEUE_LIMITS.perAgent
    PerHome,     \* QUEUE_LIMITS.perHome
    Receipts,    \* QUEUE_LIMITS.receipts
    MaxRev,      \* bound: operators change a queue control only below this revision
    Driven,      \* bound: Agents whose queue is drained and controlled; another's only fills
    Policies,    \* bound: the decisions operators configure for user input
    Busy,        \* bound: Agents with turns of other sources and contended workspaces
    Movable      \* bound: Agents that operators archive, unarchive and move

ASSUME AgentAssumption == AgentOf \in [Inputs -> Agents]
ASSUME InputAssumption == IsFiniteSet(Inputs) /\ NoInput \notin Inputs /\ Telegram \subseteq Inputs
ASSUME TeamAssumption  == Teams # {}
ASSUME ScopeAssumption ==
    /\ Policies \subseteq {"allow", "deny", "approval_required"}
    /\ Driven \subseteq Agents /\ Busy \subseteq Agents /\ Movable \subseteq Agents
ASSUME LimitAssumption ==
    /\ PerAgent \in Nat \ {0} /\ PerHome \in Nat \ {0} /\ Receipts \in Nat /\ MaxRev \in Nat

VARIABLES
    \* SQLite rows, kept over a restart
    status,      \* user_queue_items.status, "absent" before acceptance
    pos,         \* user_queue_items.position
    boundTeam,   \* user_queue_items.team_id
    retained,    \* inputs whose payload_retained is 1
    linked,      \* inputs whose approval_id is set
    appr,        \* status of the communication approval of the attempt
    refsOk,      \* approvals whose captured policy references are still current
    paused,      \* user_queue_controls.paused
    ctlRev,      \* user_queue_controls.revision
    nextPos,     \* user_queue_controls.next_position
    policy,      \* what Team Policy decides for user input to an Agent
    team,        \* agents.team_id
    archived,    \* archived Agents
    \* the daemon process, lost with it
    daemon,      \* life of the process
    drainPc,     \* where the pump's task for an Agent is
    drainItem,   \* the input that task claimed
    dlv,         \* where the delivery of an approved input is
    active,      \* agent-cancel registry: Agents with a registered turn
    aborted,     \* registered turns whose AbortController fired
    leased,      \* held lifecycle leases
    mutating,    \* Agents whose lease an archive, unarchive or move holds
    other,       \* Agents whose registered turn comes from another source
    \* the operator's client, and history kept for the properties
    seenRev,     \* control revision the operator last read
    unseen,      \* queues interrupted since the operator last read them
    runs         \* how often a worker was started for an input

itemVars   == <<status, pos, boundTeam, retained, linked>>
apprVars   == <<appr, refsOk>>
ctlVars    == <<paused, ctlRev, nextPos>>
agentVars  == <<policy, team, archived>>
taskVars   == <<drainPc, drainItem, dlv>>
turnVars   == <<active, aborted, leased, mutating, other>>
clientVars == <<seenRev, unseen, runs>>
vars == <<itemVars, apprVars, ctlVars, agentVars, daemon, taskVars, turnVars, clientVars>>

-----------------------------------------------------------------------------
(* Domains. *)

Terminal  == {"completed", "failed", "cancelled", "superseded"}
Open      == {"pending", "claimed", "running", "held", "uncertain"}
Decisions == {"allow", "deny", "approval_required"}

\* denied, expired and cancelled approvals act alike on the queue: "refused".
ApprovalStates == {"none", "pending", "refused", "delivering", "delivered", "delivery_failed"}

\* The transition a task records next, once it left preparation or execution.
Outcome ==
    [ busy |-> <<"claimed", "pending">>, asked |-> <<"claimed", "held">>,
      broken |-> <<"claimed", "failed">>, unbound |-> <<"claimed", "failed">>,
      completed |-> <<"running", "completed">>, failed |-> <<"running", "failed">>,
      cancelled |-> <<"running", "cancelled">>, unconfirmed |-> <<"running", "uncertain">> ]

TurnPc  == {"leasing", "preparing", "prepared", "running"}
DrainPc == {"idle", "releasing", "notifying"} \cup TurnPc \cup DOMAIN Outcome
DlvPc   == {"none", "waiting", "finish_ok", "finish_failed"} \cup TurnPc \cup DOMAIN Outcome

TypeOK ==
    /\ status \in [Inputs -> Open \cup Terminal \cup {"absent"}]
    /\ pos \in [Inputs -> Nat]
    /\ boundTeam \in [Inputs -> Teams]
    /\ retained \subseteq Inputs
    /\ linked \subseteq Inputs
    /\ appr \in [Inputs -> ApprovalStates]
    /\ refsOk \subseteq Inputs
    /\ paused \in [Agents -> BOOLEAN]
    /\ ctlRev \in [Agents -> Nat]
    /\ nextPos \in [Agents -> Nat]
    /\ policy \in [Agents -> Decisions]
    /\ team \in [Agents -> Teams]
    /\ archived \subseteq Agents
    /\ daemon \in {"booting", "up", "stopping", "down"}
    /\ drainPc \in [Agents -> DrainPc]
    /\ drainItem \in [Agents -> Inputs \cup {NoInput}]
    /\ \A a \in Agents : IF drainPc[a] = "idle" THEN drainItem[a] = NoInput
                        ELSE drainItem[a] \in Inputs /\ AgentOf[drainItem[a]] = a
    /\ dlv \in [Inputs -> DlvPc]
    /\ active \subseteq Agents
    /\ aborted \subseteq Agents
    /\ leased \subseteq Agents
    /\ mutating \subseteq Agents
    /\ other \subseteq Agents
    /\ seenRev \in [Agents -> Nat]
    /\ unseen \subseteq Agents
    /\ runs \in [Inputs -> Nat]

Init ==
    /\ status = [i \in Inputs |-> "absent"]
    /\ pos = [i \in Inputs |-> 0]
    /\ team \in [Agents -> Teams]
    /\ boundTeam = [i \in Inputs |-> team[AgentOf[i]]]
    /\ retained = {} /\ linked = {}
    /\ appr = [i \in Inputs |-> "none"]
    /\ refsOk = {}
    /\ paused = [a \in Agents |-> FALSE]
    /\ ctlRev = [a \in Agents |-> 0]
    /\ nextPos = [a \in Agents |-> 1]
    /\ policy \in [Agents -> Policies]
    /\ archived = {}
    /\ daemon = "up"
    /\ drainPc = [a \in Agents |-> "idle"]
    /\ drainItem = [a \in Agents |-> NoInput]
    /\ dlv = [i \in Inputs |-> "none"]
    /\ active = {} /\ aborted = {} /\ leased = {} /\ mutating = {} /\ other = {}
    /\ seenRev = [a \in Agents |-> 0]
    /\ unseen = {}
    /\ runs = [i \in Inputs |-> 0]

-----------------------------------------------------------------------------
(* Reads of the repository and pieces of its transactions. *)

Serving == daemon \in {"up", "stopping"}

OpenItems(a) == {i \in Inputs : AgentOf[i] = a /\ status[i] \in Open}

\* Fault: the oldest pending row is the head, whatever is held or uncertain ahead of it.
IsHeadOfPending(i) ==
    /\ status[i] \in Open
    /\ \A j \in OpenItems(AgentOf[i]) \ {i} : status[j] = "pending" => pos[i] < pos[j]

\* ORDER BY position LIMIT 1 over the Agent's open items.
IsHead(i) ==
    /\ status[i] \in Open
    /\ \A j \in OpenItems(AgentOf[i]) \ {i} : pos[i] < pos[j]

\* authorizeInSnapshot: an archived endpoint is denied before any edge is read.
Decision(a) == IF a \in archived THEN "deny" ELSE policy[a]

\* The membership captured with the input is still the Agent's.
SameMembership(i) == AgentOf[i] \notin archived /\ team[AgentOf[i]] = boundTeam[i]

\* Fault: the limit of the home is compared one too late.
HasCapacityForOneMore(a, replaced) ==
    /\ Cardinality({i \in Inputs : status[i] # "absent"}) < Receipts
    /\ Cardinality({i \in Inputs : status[i] \in Open} \ replaced) <= PerHome
    /\ Cardinality(OpenItems(a) \ replaced) < PerAgent

\* The counters accept compares, without the item an edit replaces.
HasCapacity(a, replaced) ==
    /\ Cardinality({i \in Inputs : status[i] # "absent"}) < Receipts
    /\ Cardinality({i \in Inputs : status[i] \in Open} \ replaced) < PerHome
    /\ Cardinality(OpenItems(a) \ replaced) < PerAgent

\* Saving the pause that goes with an interruption of the Agents in A.
Interrupt(A) ==
    /\ paused' = [a \in Agents |-> paused[a] \/ a \in A]
    /\ ctlRev' = [a \in Agents |-> IF a \in A THEN ctlRev[a] + 1 ELSE ctlRev[a]]
    /\ unseen' = unseen \cup A

\* transition: the row moves on from the status its caller expects, and an uncertain
\* outcome pauses its queue.
Transition(i, from, to) ==
    /\ status[i] = from
    /\ status' = [status EXCEPT ![i] = to]
    /\ IF to = "uncertain" THEN Interrupt({AgentOf[i]})
                           ELSE UNCHANGED <<paused, ctlRev, unseen>>

Unregister(a) == active' = active \ {a} /\ aborted' = aborted \ {a}

-----------------------------------------------------------------------------
(* Admission (user-queue-admission.ts).  The lease is awaited first; the   *)
(* rest is one transaction.  A denied input rolls the transaction back, so *)
(* that neither the input nor the supersession of an edit is stored.       *)

\* Insert the row, and hold it for approval in the same transaction when asked.
Admit(i, position, replaced) ==
    LET a == AgentOf[i]
        held == Decision(a) = "approval_required"
    IN  /\ Serving /\ a \notin leased
        /\ status[i] = "absent"
        /\ a \notin archived
        /\ HasCapacity(a, replaced)
        /\ Decision(a) # "deny"
        /\ status' = [j \in Inputs |-> IF j = i THEN IF held THEN "held" ELSE "pending"
                                       ELSE IF j \in replaced THEN "superseded"
                                       ELSE status[j]]
        /\ pos' = [pos EXCEPT ![i] = position]
        /\ boundTeam' = [boundTeam EXCEPT ![i] = team[a]]
        /\ retained' = retained \cup {i}
        /\ linked' = IF held THEN linked \cup {i} ELSE linked
        /\ appr' = IF held THEN [appr EXCEPT ![i] = "pending"] ELSE appr
        /\ refsOk' = IF held THEN refsOk \cup {i} ELSE refsOk
        /\ UNCHANGED <<paused, ctlRev, agentVars, daemon, taskVars, turnVars, clientVars>>

Enqueue(i) ==
    /\ Admit(i, nextPos[AgentOf[i]], {})
    /\ nextPos' = [nextPos EXCEPT ![AgentOf[i]] = @ + 1]

\* Fault: an edit takes a fresh position, as a new input does.
EditAtTheBack(i, p) ==
    /\ i \notin Telegram /\ AgentOf[i] \in Driven
    /\ AgentOf[p] = AgentOf[i]
    /\ status[p] = "pending"
    /\ boundTeam[p] = team[AgentOf[i]]
    /\ Admit(i, nextPos[AgentOf[i]], {p})
    /\ nextPos' = [nextPos EXCEPT ![AgentOf[i]] = @ + 1]

\* PATCH: the replacement is an HTTP input and takes the place of a pending one.
Edit(i, p) ==
    /\ i \notin Telegram /\ AgentOf[i] \in Driven
    /\ AgentOf[p] = AgentOf[i]
    /\ status[p] = "pending"
    /\ boundTeam[p] = team[AgentOf[i]]
    /\ Admit(i, pos[p], {p})
    /\ UNCHANGED nextPos

-----------------------------------------------------------------------------
(* Operator controls (routes/user-queue.ts).  Each write is conditional on *)
(* the control revision the client read.                                   *)

ReadControl(a) ==
    /\ Serving
    /\ seenRev' = [seenRev EXCEPT ![a] = ctlRev[a]]
    /\ unseen' = unseen \ {a}
    /\ UNCHANGED <<itemVars, apprVars, ctlVars, agentVars, daemon, taskVars, turnVars, runs>>

\* Fault: the control is written whatever the client had read.
AnyRevision(a) == seenRev[a] <= ctlRev[a]

\* UPDATE user_queue_controls ... WHERE revision = expectedRevision
ExpectedRevision(a) == seenRev[a] = ctlRev[a]

\* Fault: a queue is resumed with an unacknowledged input in it.
SetPausedUnchecked(a, value) ==
    /\ Serving
    /\ a \in Driven /\ ctlRev[a] < MaxRev
    /\ ExpectedRevision(a)
    /\ paused' = [paused EXCEPT ![a] = value]
    /\ ctlRev' = [ctlRev EXCEPT ![a] = @ + 1]
    /\ UNCHANGED <<itemVars, apprVars, nextPos, agentVars, daemon, taskVars, clientVars>>

SetPaused(a, value) ==
    /\ Serving
    /\ a \in Driven /\ ctlRev[a] < MaxRev
    /\ ExpectedRevision(a)
    /\ ~value => \A i \in Inputs : AgentOf[i] = a => status[i] # "uncertain"
    /\ paused' = [paused EXCEPT ![a] = value]
    /\ ctlRev' = [ctlRev EXCEPT ![a] = @ + 1]
    /\ UNCHANGED <<itemVars, apprVars, nextPos, agentVars, daemon, taskVars, clientVars>>

Pause(a)  == SetPaused(a, TRUE)  /\ UNCHANGED turnVars
Resume(a) == SetPaused(a, FALSE) /\ UNCHANGED turnVars

\* The pause is saved before the registered turn of the Agent is aborted.
Stop(a) ==
    /\ SetPaused(a, TRUE)
    /\ aborted' = aborted \cup ({a} \cap active)
    /\ UNCHANGED <<active, leased, mutating, other>>

Close(i, from) ==
    /\ AgentOf[i] \in Driven /\ Serving
    /\ Transition(i, from, "cancelled")
    /\ UNCHANGED <<pos, boundTeam, retained, linked, apprVars, nextPos, agentVars, daemon,
                   taskVars, turnVars, seenRev, runs>>

Remove(i)      == Close(i, "pending")
Acknowledge(i) == Close(i, "uncertain")

-----------------------------------------------------------------------------
(* Maintenance: the pump's tick and the middleware of the queue and        *)
(* approval routes.  The routes await their body after the middleware, so  *)
(* reconciling the holds is a step of its own.                             *)

\* Fault: a refused approval never gives up its hold.
EndedHoldsDelivered(states) ==
    {i \in Inputs : status[i] = "held" /\ i \in linked /\ appr[i] \in states \ {"refused"}}

\* Held rows whose approval ended; a refused one is released unexecuted.
EndedHolds(states) == {i \in Inputs : status[i] = "held" /\ i \in linked /\ appr[i] \in states}

ReconcileApprovalHolds ==
    LET refused   == EndedHolds({"refused"})
        uncertain == EndedHolds({"delivered", "delivery_failed"})
    IN  /\ status' = [i \in Inputs |-> IF i \in refused THEN "cancelled"
                                       ELSE IF i \in uncertain THEN "uncertain"
                                       ELSE status[i]]
        /\ Interrupt({AgentOf[i] : i \in uncertain})

ReconcileHolds ==
    /\ Serving
    /\ EndedHolds({"refused", "delivered", "delivery_failed"}) # {}
    /\ ReconcileApprovalHolds
    /\ UNCHANGED <<pos, boundTeam, retained, linked, apprVars, nextPos, agentVars, daemon,
                   taskVars, turnVars, seenRev, runs>>

\* Fault: pruning looks at the queue alone.
PrunableItem(i) == status[i] \in Terminal

\* The bytes of an input that ended seven days ago, unless its approval is still live.
Prunable(i) ==
    /\ status[i] \in Terminal
    /\ ~(i \in linked /\ appr[i] \in {"pending", "delivering"})

PruneTerminalInput(i) ==
    /\ daemon = "up"
    /\ i \in retained /\ Prunable(i)
    /\ retained' = retained \ {i}
    /\ UNCHANGED <<status, pos, boundTeam, linked, apprVars, ctlVars, agentVars, daemon,
                   taskVars, turnVars, clientVars>>

-----------------------------------------------------------------------------
(* The pump's drain task of an Agent (user-queue-pump.ts,                  *)
(* user-queue-drain.ts).  The pump's map keeps one task per Agent.         *)

Goto(a, pc) == drainPc' = [drainPc EXCEPT ![a] = pc]

\* A tick claims the head in the same turn of the event loop as it starts the task.
DrainClaim(a) ==
    /\ a \in Driven /\ daemon = "up"
    /\ drainPc[a] = "idle"
    /\ a \notin active
    /\ ~paused[a]
    /\ \E i \in OpenItems(a) :
        /\ IsHead(i)
        /\ Transition(i, "pending", "claimed")
        /\ drainItem' = [drainItem EXCEPT ![a] = i]
    /\ Goto(a, "leasing")
    /\ UNCHANGED <<pos, boundTeam, retained, linked, apprVars, nextPos, agentVars, daemon, dlv,
                   turnVars, seenRev, runs>>

\* What every step of a task under way leaves alone.
DrainFrame == UNCHANGED <<pos, boundTeam, retained, nextPos, agentVars, daemon, drainItem, dlv,
                          mutating, other, seenRev>>

\* Preparation reached the lease: no other turn is registered, and the claim still binds.
DrainBound(a) ==
    /\ SameMembership(drainItem[a])
    /\ ~paused[a]

\* Another turn, or a writer of the workspace, came first.
DrainBusy(a) ==
    /\ drainPc[a] = "leasing" /\ a \notin leased
    /\ a \in active \/ a \in Busy
    /\ Goto(a, "busy")
    /\ DrainFrame /\ UNCHANGED <<status, linked, apprVars, paused, ctlRev, active, aborted, leased,
                                 unseen, runs>>

\* 'Queued turn binding changed'
DrainUnbound(a) ==
    /\ drainPc[a] = "leasing" /\ a \notin leased /\ a \notin active
    /\ ~DrainBound(a)
    /\ Goto(a, "unbound")
    /\ DrainFrame /\ UNCHANGED <<status, linked, apprVars, paused, ctlRev, active, aborted, leased,
                                 unseen, runs>>

\* Policy allows the input: the turn is registered in the authorization transaction.
DrainAuthorize(a) ==
    /\ daemon = "up"
    /\ drainPc[a] = "leasing" /\ a \notin leased /\ a \notin active
    /\ DrainBound(a)
    /\ Decision(a) = "allow"
    /\ active' = active \cup {a}
    /\ leased' = leased \cup {a}
    /\ Goto(a, "preparing")
    /\ DrainFrame /\ UNCHANGED <<status, linked, apprVars, paused, ctlRev, aborted, unseen, runs>>

\* Policy asks the operator: the approval is requested and the claim becomes its hold.
DrainAsk(a) ==
    LET i == drainItem[a] IN
    /\ drainPc[a] = "leasing" /\ a \notin leased /\ a \notin active
    /\ DrainBound(a)
    /\ Decision(a) = "approval_required"
    /\ appr' = IF appr[i] = "none" THEN [appr EXCEPT ![i] = "pending"] ELSE appr
    /\ refsOk' = IF appr[i] = "none" THEN refsOk \cup {i} ELSE refsOk
    /\ Goto(a, "asked")
    /\ DrainFrame /\ UNCHANGED <<status, linked, paused, ctlRev, active, aborted, leased, unseen, runs>>

\* Any other failure of the preparation: denial, unreadable payload, missing backend, shutdown.
DrainBreak(a) ==
    /\ \/ drainPc[a] = "leasing" /\ UNCHANGED <<active, aborted, leased>>
       \/ /\ drainPc[a] = "preparing"
          /\ Unregister(a)
          /\ leased' = leased \ {a}
    /\ Goto(a, "broken")
    /\ DrainFrame /\ UNCHANGED <<status, linked, apprVars, paused, ctlRev, unseen, runs>>

\* prepareAgentTurn returns; the lease is released, the registration stays.
DrainPrepared(a) ==
    /\ drainPc[a] = "preparing"
    /\ leased' = leased \ {a}
    /\ Goto(a, "prepared")
    /\ DrainFrame /\ UNCHANGED <<status, linked, apprVars, paused, ctlRev, active, aborted, unseen, runs>>

\* Paused meanwhile: the claim is returned, then the prepared turn is released.
DrainYield(a) ==
    /\ drainPc[a] = "prepared"
    /\ paused[a]
    /\ Transition(drainItem[a], "claimed", "pending")
    /\ Goto(a, "releasing")
    /\ DrainFrame /\ UNCHANGED <<linked, apprVars, active, aborted, leased, runs>>

DrainReleased(a) ==
    /\ drainPc[a] = "releasing"
    /\ Unregister(a)
    /\ Goto(a, "notifying")
    /\ DrainFrame /\ UNCHANGED <<status, linked, apprVars, paused, ctlRev, leased, unseen, runs>>

\* requireTelegramQueuedTurn: the owner, topic or credential was rebound.
DrainRebound(a) ==
    /\ drainPc[a] = "prepared"
    /\ ~paused[a]
    /\ drainItem[a] \in Telegram
    /\ Unregister(a)
    /\ Goto(a, "broken")
    /\ DrainFrame /\ UNCHANGED <<status, linked, apprVars, paused, ctlRev, leased, unseen, runs>>

DrainStart(a) ==
    LET i == drainItem[a] IN
    /\ drainPc[a] = "prepared"
    /\ ~paused[a]
    /\ Transition(i, "claimed", "running")
    /\ runs' = [runs EXCEPT ![i] = @ + 1]
    /\ Goto(a, "running")
    /\ DrainFrame /\ UNCHANGED <<linked, apprVars, active, aborted, leased>>

\* How a worker can end; only an aborted one reports a cancellation.
Ends(a) == {"completed", "failed", "unconfirmed"} \cup (IF a \in aborted THEN {"cancelled"} ELSE {})

\* runAgentTurn unwinds: the registration is gone before the outcome is recorded.
DrainTurnEnds(a) ==
    /\ drainPc[a] = "running"
    /\ \E end \in Ends(a) : Goto(a, end)
    /\ Unregister(a)
    /\ DrainFrame /\ UNCHANGED <<status, linked, apprVars, paused, ctlRev, leased, unseen, runs>>

\* The conditional transition out of the claim or the run.
DrainSettle(a) ==
    LET i == drainItem[a] IN
    /\ drainPc[a] \in DOMAIN Outcome
    /\ Transition(i, Outcome[drainPc[a]][1], Outcome[drainPc[a]][2])
    /\ linked' = IF drainPc[a] = "asked" THEN linked \cup {i} ELSE linked
    /\ Goto(a, "notifying")
    /\ DrainFrame /\ UNCHANGED <<apprVars, active, aborted, leased, runs>>

\* The Telegram notice was sent or given up; the task leaves the pump's map.
DrainDone(a) ==
    /\ drainPc[a] = "notifying"
    /\ Goto(a, "idle")
    /\ drainItem' = [drainItem EXCEPT ![a] = NoInput]
    /\ UNCHANGED <<itemVars, apprVars, ctlVars, agentVars, daemon, dlv, turnVars, clientVars>>

-----------------------------------------------------------------------------
(* Communication approvals of queued inputs (communicationApprovals.ts,    *)
(* routes/approvals.ts) and the delivery of an approved one                *)
(* (user-queue-approved.ts).                                               *)

ItemFrame == UNCHANGED <<pos, boundTeam, retained, linked>>

\* Between the request of an approval and the hold that refers to it there are only
\* microtasks: no route runs, the daemon can only die.
Decidable(i) ==
    /\ Serving
    /\ appr[i] = "pending"
    /\ i \notin linked => status[i] # "claimed"

\* The operator denies or cancels a pending approval.
Deny(i) ==
    /\ Decidable(i)
    /\ appr' = [appr EXCEPT ![i] = "refused"]
    /\ UNCHANGED <<itemVars, refsOk, ctlVars, agentVars, daemon, taskVars, turnVars, clientVars>>

\* Any read of the approvals expires the pending ones that are past their deadline.
Expire(i) == Deny(i)

\* assertQueuedApprovalReady
ApprovalReady(i) == ~paused[AgentOf[i]] /\ IsHead(i) /\ status[i] = "held"

\* Fault: the decision is read again, the references it was captured under are not.
SameDecision(i) == Decision(AgentOf[i]) = "approval_required"

\* Captured policy references and decision still hold.
Revalidated(i) == Decision(AgentOf[i]) = "approval_required" /\ i \in refsOk

\* Approval claim and queue claim are two transactions of one turn of the event loop.
Approve(i) ==
    /\ Decidable(i) /\ i \in linked
    /\ ApprovalReady(i)
    /\ Revalidated(i)
    /\ appr' = [appr EXCEPT ![i] = "delivering"]
    /\ Transition(i, "held", "claimed")
    /\ dlv' = [dlv EXCEPT ![i] = "waiting"]
    /\ ItemFrame /\ UNCHANGED <<refsOk, nextPos, agentVars, daemon, drainPc, drainItem, turnVars,
                                seenRev, runs>>

\* Policy or membership changed since the request: the approval is denied instead.
ApproveStale(i) ==
    /\ Decidable(i) /\ i \in linked
    /\ ApprovalReady(i)
    /\ ~Revalidated(i)
    /\ appr' = [appr EXCEPT ![i] = "refused"]
    /\ UNCHANGED <<itemVars, refsOk, ctlVars, agentVars, daemon, taskVars, turnVars, clientVars>>

\* An approval whose input does not refer to it is claimed and fails at once.
ApproveInvalid(i) ==
    /\ Decidable(i) /\ i \notin linked
    /\ appr' = [appr EXCEPT ![i] = IF Revalidated(i) THEN "delivery_failed" ELSE "refused"]
    /\ UNCHANGED <<itemVars, refsOk, ctlVars, agentVars, daemon, taskVars, turnVars, clientVars>>

\* What every step of a delivery under way leaves alone.
DlvFrame == ItemFrame /\ UNCHANGED <<refsOk, nextPos, agentVars, daemon, drainPc, drainItem,
                                    mutating, other, seenRev>>

DlvGoto(i, pc) == dlv' = [dlv EXCEPT ![i] = pc]

\* The Agent fell idle: check the queue and the membership, then ask for the lease.
DlvCheck(i) ==
    /\ dlv[i] = "waiting"
    /\ AgentOf[i] \notin active
    /\ DlvGoto(i, IF ~paused[AgentOf[i]] /\ SameMembership(i) THEN "leasing" ELSE "broken")
    /\ DlvFrame /\ UNCHANGED <<status, appr, paused, ctlRev, active, aborted, leased, unseen, runs>>

\* Another turn or writer came first: wait again.
DlvBusy(i) ==
    /\ dlv[i] = "leasing" /\ AgentOf[i] \notin leased
    /\ AgentOf[i] \in active \/ AgentOf[i] \in Busy
    /\ DlvGoto(i, "waiting")
    /\ DlvFrame /\ UNCHANGED <<status, appr, paused, ctlRev, active, aborted, leased, unseen, runs>>

\* Fault: the delivery registers its turn without asking whether one is registered.
DlvAuthorizeOver(i) ==
    LET a == AgentOf[i] IN
    /\ daemon = "up"
    /\ dlv[i] = "leasing" /\ a \notin leased
    /\ active' = active \cup {a}
    /\ leased' = leased \cup {a}
    /\ DlvGoto(i, "preparing")
    /\ DlvFrame /\ UNCHANGED <<status, appr, paused, ctlRev, aborted, unseen, runs>>

DlvAuthorize(i) ==
    LET a == AgentOf[i] IN
    /\ daemon = "up"
    /\ dlv[i] = "leasing" /\ a \notin leased /\ a \notin active
    /\ active' = active \cup {a}
    /\ leased' = leased \cup {a}
    /\ DlvGoto(i, "preparing")
    /\ DlvFrame /\ UNCHANGED <<status, appr, paused, ctlRev, aborted, unseen, runs>>

DlvBreak(i) ==
    LET a == AgentOf[i] IN
    /\ \/ dlv[i] \in {"waiting", "leasing"} /\ UNCHANGED <<active, aborted, leased>>
       \/ /\ dlv[i] = "preparing"
          /\ Unregister(a)
          /\ leased' = leased \ {a}
    /\ DlvGoto(i, "broken")
    /\ DlvFrame /\ UNCHANGED <<status, appr, paused, ctlRev, unseen, runs>>

DlvPrepared(i) ==
    /\ dlv[i] = "preparing"
    /\ leased' = leased \ {AgentOf[i]}
    /\ DlvGoto(i, "prepared")
    /\ DlvFrame /\ UNCHANGED <<status, appr, paused, ctlRev, active, aborted, unseen, runs>>

\* Queue and policy are read again after the last await of the preparation.
DlvStart(i) ==
    /\ dlv[i] = "prepared"
    /\ ~paused[AgentOf[i]]
    /\ Revalidated(i)
    /\ Transition(i, "claimed", "running")
    /\ runs' = [runs EXCEPT ![i] = @ + 1]
    /\ DlvGoto(i, "running")
    /\ DlvFrame /\ UNCHANGED <<appr, active, aborted, leased>>

DlvRefuse(i) ==
    /\ dlv[i] = "prepared"
    /\ paused[AgentOf[i]] \/ ~Revalidated(i) \/ i \in Telegram
    /\ Unregister(AgentOf[i])
    /\ DlvGoto(i, "broken")
    /\ DlvFrame /\ UNCHANGED <<status, appr, paused, ctlRev, leased, unseen, runs>>

DlvTurnEnds(i) ==
    /\ dlv[i] = "running"
    /\ \E end \in Ends(AgentOf[i]) : DlvGoto(i, end)
    /\ Unregister(AgentOf[i])
    /\ DlvFrame /\ UNCHANGED <<status, appr, paused, ctlRev, leased, unseen, runs>>

DlvSettle(i) ==
    /\ dlv[i] \in DOMAIN Outcome
    /\ Transition(i, Outcome[dlv[i]][1], Outcome[dlv[i]][2])
    /\ DlvGoto(i, IF dlv[i] = "completed" THEN "finish_ok" ELSE "finish_failed")
    /\ DlvFrame /\ UNCHANGED <<appr, active, aborted, leased, runs>>

\* finishDelivery
DlvFinish(i) ==
    /\ dlv[i] \in {"finish_ok", "finish_failed"}
    /\ appr' = [appr EXCEPT ![i] = IF dlv[i] = "finish_ok" THEN "delivered" ELSE "delivery_failed"]
    /\ DlvGoto(i, "none")
    /\ DlvFrame /\ UNCHANGED <<status, paused, ctlRev, active, aborted, leased, unseen, runs>>

-----------------------------------------------------------------------------
(* What else the daemon does to an Agent: turns from other sources, and    *)
(* archive, unarchive and move, which hold the lease over an await.        *)

OtherTurnStarts(a) ==
    /\ a \in Busy
    /\ daemon = "up" /\ a \notin leased /\ a \notin active
    /\ active' = active \cup {a} /\ other' = other \cup {a}
    /\ UNCHANGED <<itemVars, apprVars, ctlVars, agentVars, daemon, taskVars, aborted, leased,
                   mutating, clientVars>>

OtherTurnEnds(a) ==
    /\ a \in other
    /\ Unregister(a) /\ other' = other \ {a}
    /\ UNCHANGED <<itemVars, apprVars, ctlVars, agentVars, daemon, taskVars, leased, mutating,
                   clientVars>>

\* Fault: the lease alone admits a mutation.
MutationBeginsLeased(a) ==
    /\ a \in Movable
    /\ Serving /\ a \notin leased
    /\ leased' = leased \cup {a} /\ mutating' = mutating \cup {a}
    /\ UNCHANGED <<itemVars, apprVars, ctlVars, agentVars, daemon, taskVars, active, aborted, other,
                   clientVars>>

\* runAgentLifecycleMutation takes the lease and refuses while a turn is registered.
MutationBegins(a) ==
    /\ a \in Movable
    /\ Serving /\ a \notin leased /\ a \notin active
    /\ leased' = leased \cup {a} /\ mutating' = mutating \cup {a}
    /\ UNCHANGED <<itemVars, apprVars, ctlVars, agentVars, daemon, taskVars, active, aborted, other,
                   clientVars>>

\* Archive, unarchive, move to another Team, or failure without effect.
MutationEnds(a) ==
    /\ a \in mutating
    /\ \/ archived' = archived \cup {a} /\ UNCHANGED <<team, refsOk>>
       \/ archived' = archived \ {a} /\ UNCHANGED <<team, refsOk>>
       \/ /\ \E t \in Teams \ {team[a]} : team' = [team EXCEPT ![a] = t]
          /\ refsOk' = {i \in refsOk : AgentOf[i] # a}
          /\ UNCHANGED archived
    /\ leased' = leased \ {a} /\ mutating' = mutating \ {a}
    /\ UNCHANGED <<itemVars, appr, ctlVars, policy, daemon, taskVars, active, aborted, other,
                   clientVars>>

\* A new policy revision outdates the references captured by the Agent's approvals.
PolicyChange(a) ==
    /\ Serving
    /\ \E d \in Policies : policy' = [policy EXCEPT ![a] = d]
    /\ refsOk' = {i \in refsOk : AgentOf[i] # a}
    /\ UNCHANGED <<itemVars, appr, ctlVars, team, archived, daemon, taskVars, turnVars, clientVars>>

-----------------------------------------------------------------------------
(* The life of the process (main.ts, ctx.ts). *)

\* SIGTERM: the pump stops ticking, new registrations are refused, turns are aborted.
Shutdown ==
    /\ daemon = "up"
    /\ daemon' = "stopping"
    /\ aborted' = aborted \cup active
    /\ UNCHANGED <<itemVars, apprVars, ctlVars, agentVars, taskVars, active, leased, mutating, other,
                   clientVars>>

\* Everything that lives only in the process is lost.
ProcessEnds ==
    /\ daemon' = "down"
    /\ drainPc' = [a \in Agents |-> "idle"]
    /\ drainItem' = [a \in Agents |-> NoInput]
    /\ dlv' = [i \in Inputs |-> "none"]
    /\ active' = {} /\ aborted' = {} /\ leased' = {} /\ mutating' = {} /\ other' = {}

\* A crash, or the exit that ends a shutdown.
Terminate ==
    /\ daemon # "down"
    /\ ProcessEnds
    /\ UNCHANGED <<itemVars, apprVars, ctlVars, agentVars, clientVars>>

\* The process dies between the approval claim and the queue claim of Approve.
TerminateInApprove(i) ==
    /\ Decidable(i) /\ i \in linked
    /\ ApprovalReady(i)
    /\ Revalidated(i)
    /\ appr' = [appr EXCEPT ![i] = "delivering"]
    /\ ProcessEnds
    /\ UNCHANGED <<itemVars, refsOk, ctlVars, agentVars, clientVars>>

\* Fault: an input that was claimed and never ran is taken for one that still waits.
InterruptedRun(i) ==
    \/ status[i] = "running"
    \/ status[i] = "held" /\ i \in linked /\ appr[i] = "delivering"

\* Rows a dead process left in flight, its half-made approval claims included.
Interrupted(i) ==
    \/ status[i] \in {"claimed", "running"}
    \/ status[i] = "held" /\ i \in linked /\ appr[i] = "delivering"

\* Fault: a restart puts interrupted input back in line.
RecoverByReplay ==
    /\ daemon = "down"
    /\ daemon' = "booting"
    /\ status' = [i \in Inputs |-> IF Interrupted(i) THEN "pending" ELSE status[i]]
    /\ UNCHANGED <<pos, boundTeam, retained, linked, apprVars, ctlVars, agentVars, taskVars, turnVars,
                   clientVars>>

RecoverInterrupted ==
    LET lost == {i \in Inputs : Interrupted(i)} IN
    /\ daemon = "down"
    /\ daemon' = "booting"
    /\ status' = [i \in Inputs |-> IF i \in lost THEN "uncertain" ELSE status[i]]
    /\ Interrupt({AgentOf[i] : i \in lost})
    /\ UNCHANGED <<pos, boundTeam, retained, linked, apprVars, nextPos, agentVars, taskVars, turnVars,
                   seenRev, runs>>

Boot ==
    /\ daemon = "booting"
    /\ daemon' = "up"
    /\ ReconcileApprovalHolds
    /\ UNCHANGED <<pos, boundTeam, retained, linked, apprVars, nextPos, agentVars, taskVars, turnVars,
                   seenRev, runs>>

-----------------------------------------------------------------------------
ClientStep(a) == ReadControl(a) \/ Pause(a) \/ Resume(a) \/ Stop(a)

InputStep(i) ==
    \/ Enqueue(i)
    \/ \E p \in Inputs : Edit(i, p)
    \/ Remove(i) \/ Acknowledge(i)
    \/ Deny(i) \/ Approve(i) \/ ApproveStale(i) \/ ApproveInvalid(i)

DrainStep(a) ==
    \/ DrainClaim(a) \/ DrainBusy(a) \/ DrainUnbound(a) \/ DrainAuthorize(a) \/ DrainAsk(a)
    \/ DrainBreak(a) \/ DrainPrepared(a) \/ DrainYield(a) \/ DrainReleased(a) \/ DrainRebound(a)
    \/ DrainStart(a) \/ DrainTurnEnds(a) \/ DrainSettle(a) \/ DrainDone(a)

DlvStep(i) ==
    \/ DlvCheck(i) \/ DlvBusy(i) \/ DlvAuthorize(i) \/ DlvBreak(i) \/ DlvPrepared(i)
    \/ DlvStart(i) \/ DlvRefuse(i) \/ DlvTurnEnds(i) \/ DlvSettle(i) \/ DlvFinish(i)

AgentStep(a) ==
    \/ OtherTurnStarts(a) \/ OtherTurnEnds(a)
    \/ MutationBegins(a) \/ MutationEnds(a) \/ PolicyChange(a)

ProcessStep ==
    \/ Shutdown \/ Terminate \/ RecoverInterrupted \/ Boot
    \/ \E i \in Inputs : TerminateInApprove(i)

Next ==
    \/ \E a \in Agents : ClientStep(a) \/ DrainStep(a) \/ AgentStep(a)
    \/ \E i \in Inputs : InputStep(i) \/ DlvStep(i) \/ PruneTerminalInput(i)
    \/ ReconcileHolds
    \/ ProcessStep

Spec == Init /\ [][Next]_vars

(* Fairness.  The pump ticks every second; a task that awaits goes on when *)
(* its promise settles; the lease is handed to its waiters in FIFO order,  *)
(* hence the strong fairness of the steps that need it; the scheduler's    *)
(* tick expires approvals; a supervisor restarts a dead daemon.  Clients   *)
(* and operators owe nothing.                                              *)

DrainAdmission(a) == DrainBusy(a) \/ DrainUnbound(a) \/ DrainAuthorize(a) \/ DrainAsk(a) \/ DrainBreak(a)

DrainProgress(a) ==
    \/ DrainBreak(a) \/ DrainPrepared(a) \/ DrainYield(a) \/ DrainReleased(a) \/ DrainRebound(a)
    \/ DrainStart(a) \/ DrainTurnEnds(a) \/ DrainSettle(a) \/ DrainDone(a)

DlvAdmission(i) == DlvBusy(i) \/ DlvAuthorize(i) \/ DlvBreak(i)

DlvProgress(i) ==
    \/ DlvCheck(i) \/ DlvBreak(i) \/ DlvPrepared(i) \/ DlvStart(i) \/ DlvRefuse(i)
    \/ DlvTurnEnds(i) \/ DlvSettle(i) \/ DlvFinish(i)

Fairness ==
    /\ \A a \in Agents :
        /\ WF_vars(DrainClaim(a)) /\ SF_vars(DrainAdmission(a)) /\ WF_vars(DrainProgress(a))
        /\ WF_vars(OtherTurnEnds(a)) /\ WF_vars(MutationEnds(a))
    /\ \A i \in Inputs :
        SF_vars(DlvAdmission(i)) /\ WF_vars(DlvProgress(i)) /\ WF_vars(Expire(i))
    /\ WF_vars(ReconcileHolds) /\ WF_vars(RecoverInterrupted) /\ WF_vars(Boot)

FairSpec == Spec /\ Fairness

-----------------------------------------------------------------------------
(* Properties. *)

Unsettled(i) == status[i] \in {"pending", "claimed", "running", "held", "uncertain"}

\* An input in flight is the oldest unresolved input of its Agent: nothing passes a
\* pending, held or uncertain predecessor, whether the drain or an approval dispatches
\* it, whatever was edited, removed, paused or lost in between (claim and
\* assertQueuedApprovalReady).
InFlightIsOldest ==
    \A i, j \in Inputs :
        /\ status[i] \in {"claimed", "running"}
        /\ Unsettled(j) /\ AgentOf[j] = AgentOf[i] /\ j # i
        => pos[i] < pos[j]

\* No accepted input is executed twice: not by a retried submission, a second drain,
\* an approval delivery beside a drain, or a restart that finds it unfinished
\* (recoverInterrupted: "No uncertain item is automatically replayed").
AtMostOnce == \A i \in Inputs : runs[i] <= 1

\* While an outcome is unknown the queue of its Agent is paused, and stays paused until
\* every such input was acknowledged (setPaused, transition, recoverInterrupted).
UncertainIsPaused ==
    \A i \in Inputs : status[i] = "uncertain" => paused[AgentOf[i]]

ClaimPc == {"leasing", "preparing", "prepared", "busy", "asked", "broken", "unbound"}
RunPc   == {"running", "completed", "failed", "cancelled", "unconfirmed"}

DrainHolds(i, pcs) == drainItem[AgentOf[i]] = i /\ drainPc[AgentOf[i]] \in pcs
DlvHolds(i, pcs)   == dlv[i] \in pcs \cup (IF "leasing" \in pcs THEN {"waiting"} ELSE {})

\* Exactly one live task owns a claimed or running row, and a task never holds a row in
\* another state: the conditional writes of user-queue-drain.ts and
\* user-queue-approved.ts never meet 'Queue lifecycle changed', and no row is stranded
\* in flight while the daemon lives.
OneOwner ==
    Serving => \A i \in Inputs :
        /\ ~(DrainHolds(i, ClaimPc \cup RunPc) /\ DlvHolds(i, ClaimPc \cup RunPc))
        /\ status[i] = "claimed" <=> DrainHolds(i, ClaimPc) \/ DlvHolds(i, ClaimPc)
        /\ status[i] = "running" <=> DrainHolds(i, RunPc) \/ DlvHolds(i, RunPc)

RegisteredPc == {"preparing", "prepared", "running", "releasing"}

\* An Agent never has two turns: of its drain, its approved deliveries and the turns of
\* other sources at most one is between registerAgent and unregisterAgent, and the
\* registry knows it, so that no owner removes the registration of another.
OneTurnPerAgent ==
    \A a \in Agents :
        LET turns == {<<"delivery", i>> : i \in {j \in Inputs : AgentOf[j] = a /\ dlv[j] \in RegisteredPc}}
                     \cup (IF drainPc[a] \in RegisteredPc THEN {<<"drain", a>>} ELSE {})
                     \cup (IF a \in other THEN {<<"other", a>>} ELSE {})
        IN  Cardinality(turns) = IF a \in active THEN 1 ELSE 0

\* Bytes are kept as long as the input can still be executed or must be reconciled, or an
\* approval that refers to it is open (pruneTerminalInput).
PayloadOutlivesUse ==
    \A i \in Inputs :
        Unsettled(i) \/ (i \in linked /\ appr[i] \in {"pending", "delivering"}) => i \in retained

\* The retained queue respects its limits, per Agent and per home, although an edit
\* stores its replacement beside the item it supersedes (accept).
WithinLimits ==
    /\ \A a \in Agents : Cardinality({i \in Inputs : AgentOf[i] = a /\ Unsettled(i)}) <= PerAgent
    /\ Cardinality({i \in Inputs : Unsettled(i)}) <= PerHome
    /\ Cardinality({i \in Inputs : status[i] # "absent"}) <= Receipts

Starts(i) == runs'[i] > runs[i]

\* A worker starts only for a member: at the step that starts it the Agent is not
\* archived and still belongs to the Team captured with the input, although the check
\* is made before the last awaits of the preparation.
StartsAsMember ==
    [][\A i \in Inputs : Starts(i) => AgentOf[i] \notin archived /\ team[AgentOf[i]] = boundTeam[i]]_vars

\* A paused queue starts nothing, and an input that needed an approval starts only while
\* the approval is claimed for delivery under the policy it was requested under.
StartsAuthorized ==
    [][\A i \in Inputs : Starts(i) =>
          /\ ~paused[AgentOf[i]]
          /\ \/ appr[i] = "none"
             \/ appr[i] = "delivering" /\ Decision(AgentOf[i]) = "approval_required" /\ i \in refsOk]_vars

\* A queue is resumed only by an operator who has seen every interruption so far: a
\* resume decided on an older view is refused even after another operator has
\* acknowledged the interrupted input.
ResumeIsInformed ==
    [][\A a \in Agents : paused[a] /\ ~paused'[a] => a \notin unseen]_vars

\* Once the daemon stays up, an accepted input does not wait for ever in an unpaused
\* queue: it ends, or an interruption or an operator pauses the queue.  A hold whose
\* approval expired, a preparation that was refused and a claim that was returned all
\* make way for their successors (user-queue-pump.ts, reconcileApprovalHolds).
SettlesOrPauses ==
    <>[](daemon = "up") =>
        \A i \in Inputs : Unsettled(i) ~> (~Unsettled(i) \/ paused[AgentOf[i]])

\* "Pause queue stops future claims": of the reasons that make a preparation fail with
\* 'Queued turn binding changed', only a change of membership ends a claim made before.
PauseStopsFutureClaims ==
    [][\A a \in Agents : drainPc[a] = "leasing" /\ drainPc'[a] = "unbound"
          => ~SameMembership(drainItem[a])]_vars
=============================================================================
