# Bazilion: a verification project

TLA+ specifications of the daemon of Bazilion (`src/apps/daemon`), the TLC models that check
them on small instances, and proofs of their main safety properties for every instance that
TLAPS checks. `PROJECT.json` lists components, runs, mutants, the correspondence of every
definition with the source, findings, hazards and theorems.

## 1. The system

One daemon process owns `~/.bazilion`: an SQLite database, transcripts, and the worker
processes it spawns, one per Agent turn. It is one JavaScript thread; concurrency is the
interleaving of its asynchronous functions at their `await`s, of several timers (queue pump,
scheduler, notifications, Telegram polling) and of HTTP requests. SQLite transactions are
synchronous, so each of them is atomic. Processes die: whatever is not in SQLite is lost, and
what is in SQLite is found again at the next boot in the state the crash left it in.

Parts, with the state they keep, their operations and what makes them correct
(paths below `src/apps/daemon/src`):

| Part | State | Operations | Correct when |
|---|---|---|---|
| Follow-up queue: `core/repos/user-queue.ts`, `lib/user-queue-*.ts`, `routes/user-queue.ts` | items, controls, attachments | accept, edit, remove, pause, resume, stop, acknowledge, claim, transition, recover, prune | inputs run once, in order, for members, under the policy that allowed them; doubt pauses the queue; accepted input ends |
| Scheduled triggers: `lib/scheduler.ts`, `core/repos/trigger*.ts` | triggers, dispatches, the `firing` set | tick, materialize, claim, defer, fail, succeed, cancel, enable, delete | one open occurrence per trigger, bounded retry, final outcomes, every occurrence ends |
| Lifecycle lease and registry: `lib/agent-lifecycle-lease.ts`, `lib/agent-cancel.ts` | held leases with waiters, registered turns | acquire, release, register, unregister, cancel, stop all | one turn per Agent; no mutation of an Agent under a turn |
| Turn preparation: `lib/turn-preparation.ts`, `lib/agent-turn.ts` | prepared turns | prepare, run, release | every exit gives back lease, registration and workspace |
| Communication approvals: `core/repos/communicationApprovals.ts`, `routes/approvals.ts` | approvals, grants | request, decide, expire, claim delivery, grant, finish | decided once; nothing starts on an outdated or refused approval |
| Team Policy: `core/team-policy/authorization.ts`, `core/repos/teamPolicies.ts` | policies with revisions | authorize, change | the decision follows the edges; a change invalidates captured references |
| Inbox and loop guard: `core/repos/messages.ts`, `lib/agent-loop-guard.ts` | messages, causal chains | send, drain, wake | each message wakes once; autonomous chains are bounded |
| Questions: `core/repos/questions.ts`, `lib/question-*.ts`, `lib/telegram/question-transport.ts` | questions with their approvals, waiters | ask, deliver, answer, approve, recheck, consume, expire, recover | one answer wins and reaches the turn that asked; nothing is released past the policy; no question outlives its turn |
| Verification: `core/repos/verification-requests.ts`, `lib/verification/` | requests, attempts with leases, check outcomes | request, approve, dispatch, claim, run checks, settle, cancel, expire, recover | a completed request rests on checks that ran; a command keeps the workspace; an interrupted attempt is uncertain |
| Review: `core/repos/review-packets.ts`, `lib/review/` | packets, attempts with leases, conclusions | capture, approve, dispatch, conclude, settle, cancel, expire, recover | one attempt at a time; reviewed means concluded; the requester hears once |
| Publication: `core/repos/publications.ts`, `lib/publication/` | publications with leases; branches of the host | create, claim, build, push, settle, expire | published means on the host; no branch is replaced; claimed once, settled once |
| Notifications: `core/repos/notifications.ts` | receipts | defer, claim, settle, retry | sent at most once per acknowledged attempt |
| Workspace coordinator: `lib/coding-environment/workspace.ts` | writers | claim, attach, release, recover | one writer per overlapping root |
| Telegram bridge: `lib/telegram/` | update watermark, outbound queue, topics | poll, route, send | no update lost or handled twice, order per topic |
| Daemon liveness and restore: `lib/daemon-liveness.ts`, `apps/cli/src/backup-*` | ownership file | start, heartbeat, restore | one owner of the home |
| MCP and browser pools: `lib/mcp/pool.ts`, `lib/browser/pool.ts` | connections | acquire, evict, retire | nothing in use is evicted |
| Workers, sandboxes, Git, providers, tools, CLI, web | | | I/O; outside of the models |

How they interact: the pump, the scheduler, the routes and the Telegram bridge are *sources of
turns*. A source acquires the Agent's lifecycle lease (FIFO), checks the registry, claims the
Team's workspace, checks that what it is about to run is still bound as it was accepted, asks
Team Policy, registers, and hands over to a worker; it gives the lease back before the worker
runs and the registration after. Archiving and moving an Agent take the same lease. A decision
`approval_required` files an approval and parks the work; operators and expiry decide it, and
the queue and the scheduler pick it up by different protocols. At boot the daemon settles what
the previous process left in flight before the pump and the scheduler start.

What is hard about it: a step of one source between two awaits of another; the clock and rows
read before an await and used after it; a lease of a row that expires under its owner; two
transactions that belong together; a crash between a claim and its outcome; an operator who
acts on an old view; an approval that outlives the policy it was asked under; and whether
parked work ever moves again. `hazards` in `PROJECT.json` lists these at their lines.

## 2. Modules

| Module | What it is |
|---|---|
| `UserQueue` | the follow-up queue with its tasks, approvals, operators and restarts |
| `FollowUpQueue` | what the queue promises, without positions, tasks, leases or restarts |
| `UserQueueRefinement` | the mapping under which `UserQueue` implements `FollowUpQueue` |
| `TriggerDispatch` | scheduled triggers: ticks, occurrences, attempts, approvals, restarts |
| `VerificationDispatch` | verification requests: dispatch, admission, checks, settlement, restarts |
| `ReviewDispatch` | review packets: ticks, attempts, conclusions, delivery, restarts |
| `Publications` | publications: claim, git steps, the host and a lossy connection, restarts |
| `AttemptLog` | what the attempt tables of the last three promise |
| `InboxDelivery` | messages between Agents: sending, approvals, reading, wakes, the hop limit |
| `Questions` | questions of a turn to its operator: delivery, answers, approvals, expiry, restarts |
| `WorkspaceOwnership` | writers of a workspace, what they started, its cleanup and recovery |
| `*Proofs` | theorems about the module of that name |
| `MC*` | constants of the TLC models |

In all models a step is the code between two awaits. `Fault:` operators next to a definition
are the plausible bugs that the mutants of `PROJECT.json` put in its place; nothing else uses
them. The last comment block of a module states its properties with the code they are about.

### 2.1 UserQueue

Rows (`status`, `pos`, `boundTeam`, `retained`, `linked`, `appr`, `refsOk`, `paused`,
`ctlRev`, `nextPos`, `policy`, `team`, `archived`) survive `Terminate`; the process variables
(`drainPc`, `drainItem`, `dlv`, `active`, `aborted`, `leased`, `mutating`, `other`) do not.
`seenRev` is the operator's last view of a control, `unseen` and `runs` are history.

* Operators: `Enqueue`, `Edit`, `Remove`, `Acknowledge`, `Pause`, `Resume`, `Stop`,
  `ReadControl`, `Deny`, `Approve` and its failures, `PolicyChange`, `MutationBegins/Ends`.
* The pump: `DrainClaim` (`user-queue-pump.ts` tick with `claim`), then `DrainBound`,
  `DrainBusy` or `DrainUnbound` (lease, registry, workspace, binding check), `DrainAuthorize`,
  `DrainAsk`, `DrainPrepared`, `DrainYield`, `DrainStart`, `DrainTurnEnds`, `DrainSettle`.
* The delivery of an approved input: `Approve`, `DlvCheck` to `DlvFinish`
  (`user-queue-approved.ts`).
* `ReconcileHolds` (request middleware and pump), `PruneTerminalInput`, and
  `Shutdown`, `Terminate`, `RecoverInterrupted`, `Boot`.

Abstractions. Lease acquisition, the registry check, the workspace claim, the binding check
and the registration are one step: they run on one lease and their order is only visible to
their holder. Waiters of a lease take it in any order (an over-approximation of FIFO).
Approving claims the approval and the item in two transactions without an await between them:
`Approve` is one step, and `TerminateInApprove` is the crash between the two. Denied, expired
and cancelled approvals act alike on the queue and are all `refused`. A conditional write on a
wrong item revision changes nothing and is no step; a retried submission reads the stored
receipt. The workspace coordinator is a nondeterministic refusal for Agents in `Busy`. The
branch of `reconcileApprovalHolds` for a held item with a delivered approval is not reachable
and has no action. `Driven` is a bound: the pump and the operators work on the queues of these
Agents only, and the queue of any other only fills up.

### 2.2 TriggerDispatch

A dispatch is a pair of trigger and scheduled time, which the table holds `UNIQUE`. `todo[k]`
is what tick `k` has left to materialize: the due triggers with the occurrences it computed
*when it started*. `runner[d]` is where `fireTrigger` is for a dispatch (not `idle`: in the
`firing` set); `lease[a]` is the FIFO line of the Agent's lifecycle lease with ticks, attempts
and other turns in it. `ripe` replaces all deadlines: `next_attempt_at` and `lease_expires_at`
pass at any time (`Ripen`).

* `RunTick`, `TickMaterialize`, `TickSkip`, `TickStops`: `runTick`.
* `ClaimMisses/Defers/Asks/Fails/Starts`, `Prepared`, `WorkspaceBusy`, `TurnBreaks`,
  `TurnFinishes`, `RecordDeferral/Cancel/Failure/Success`: `fireTrigger`. `Verdict` is the
  decision of `claimSchedulerTrigger` after the checks of the trigger and the registry.
* `Insert`, `SetEnabled`, `Remove`, `Stop`, `Approve`, `Refuse`, `PolicyChange`: operators,
  and expiry (`Refuse`).
* `Other*`: any other turn of the Agent; `Advance`, `Crash`, `Shutdown`, `Exit`, `Start`.

A tick or an attempt that is handed its lease, and an attempt whose turn ended, go on in
microtasks, before any timer, request or I/O completion: `Quiet` says that no such continuation
is outstanding, and all other steps wait for it. The end of an attempt is two steps because
the next holder of the lease resumes *before* `fireTrigger` records the outcome and still
sees the row `running`.

Abstractions. Team Policy enforcement is on. The minutes a cron expression matches are a
constant. The branch for an unexpected error of `claimSchedulerTrigger` is not reachable: the
trigger was read in the same synchronous run. An Agent that is archived appears as a denial
of the policy. Rows of a deleted trigger are gone (`ON DELETE CASCADE`), its approvals stay.

### 2.3 VerificationDispatch

Rows: `request`, `attempt`, `check`, `approval`, `policy`, `archived`, `writer`; the commands
of checks (`commands`) outlive the daemon. `runner[r]` is the await at which the dispatcher of
a request is; `waiting[r]` counts dispatchers that wait for the lifecycle lease, since every
tick starts one for each pending request and another tick may come before it is served. A lease
is handed on in the order of arrival, at once: a dispatcher that waits behind the one that was
admitted meets its registration and gives up before that one has settled, so no step that takes
another await comes before it (`Served`).

* `createVerificationRequest`, `CancelWaiting`, `cancelVerificationDispatch`, `Expire`,
  `GrantDelivered`, `ApprovalRefused`, `pruneVerificationRequests`: routes and expiry.
* `dispatchPendingVerifications`, `Admission*`, `DispatchRefused`: tick to registration
  (`lib/verification/dispatch.ts`, `admission.ts`).
* `RecoverWriter`, `ClaimBusy`, `ClaimGivenUp`, `claimVerificationAttempt`, `Proven`,
  `Disproven`: the workspace claim, the claim of the attempt, the proof of the tree.
* `Prepared`, `RunCheck`, `CheckEnds`, `TurnEnds`, `TurnFails`, `Measured`, `Close`,
  `Released`: the turn (`runner.ts`), its settlement and its release.
* `Shutdown`, `Die`, `recoverInterruptedVerificationAttempts` in `Restart`.

The postures differ where the code does: a failed turn waits for its native commands
(`TurnFails`); native commands and containers are recorded resources, which the release or the
recovery of their writer reaps (`Reap`), also after a death; a host command is recorded nowhere.

### 2.4 ReviewDispatch

Packets are numbered by age, because a tick takes the `Limit` oldest open ones (5 in the code).
The dispatcher of a packet keeps the lifecycle lease of the reviewer for its whole turn
(`Dispatch`, `Turn`); `attempts[p]` is the history of a packet. Beside it act the operator
(conclusions, cancels, decisions), expiry, the leases of attempts, other turns, archives, death,
shutdown and the recovery at boot. `AttemptsOf` maps the rows to `AttemptLog` with repetition.
A completed review that an Agent asked for is delivered to it under the same lease
(`delivering`), after the attempt is settled; a policy that refuses then drops the result.

### 2.5 Publications

The request that executes a publication is `executor[p]`; `host[b]` is the publication that
created a branch, and `inflight` are pushes under way. A push leaves the machine, may arrive
late, and its answer may never come (`Lossy`), while the daemon gives up after a minute, dies, or
settles the row because its lease of two minutes is over. Git and the code host are external.
The packets of a publication are reviewed and stay so: `NeverUnreviewed` in
`ReviewDispatchProofs` proves the assumption.

### 2.6 AttemptLog

An abstract specification with one variable: the attempts of each item. An item has one open
attempt at a time; the owner settles it; an owner that is gone leaves an orphan, which nobody
may settle but as `uncertain`; what is settled is never revised. Verification requests and
publications implement it with `Again <- FALSE`: one attempt for good, whatever its outcome.
Review packets implement it with `Again <- TRUE`, since their ticks take them up again (section 5),
and with as many attempts remembered as the model has (`Depth <- MaxAttempts`), so that an attempt
is only ever added. A request that was pruned is `gone` for good (`Prunable`). One step may advance
many items: recovery is one transaction.

### 2.7 InboxDelivery

* `ToolSends`, `HttpSends`: a message is refused by policy or by the hop limit, held under an
  approval, or inserted, with `reply_to` or the wake of the sender as its causal parent.
* `read_inbox` and `markRead`: a turn reads, and marks in a second step, with what other readers
  did between them.
* `fireInboxWake`, `claimDeliverableInbox` and the other steps of `Wake`: readiness, the claim in
  one transaction (which marks messages read, registers the Agent and asks for what is held),
  the handover, the end of the turn.
* `Approvals`: decisions, claims of an approval and their ends; `Others`: turns of other sources,
  archives, changes of the policy, death, shutdown, restart.

A message has two approvals, of its sending and of its delivery. `origin` is the reader that
captured the delivery: the capture of the wake and the one of `read_inbox` have different
fingerprints, and meeting the other one is an error in the code. `opened` is history: messages
whose edge allowed them at some time.

### 2.8 WorkspaceOwnership

`row[w]` and the resources registered for it are SQLite rows; `old` marks rows of an earlier
daemon identity. `stage[w]` follows a claim: its blockers are recovered one after another
(`RecoverFor`), then `Acquire` inserts the row or gives up. A turn registers a resource before it
starts (`Register`, `Acknowledge`, `Start`, `SpawnNative`, `EngineCreates`), and `Release` begins
the cleanup: each `BeginCleanup` reads what it knows, and `CleanupEnds` acts on it after an
await, when the resource may have changed. `Cleaned` says what a cleanup may confirm: a worker
that exited, a container that is removed and was acknowledged, a native command whose owner
answers, host commands only after a normal exit or a reboot. `OperatorRecovers`
is the request of the recovery page. `Die` takes the daemon and with it the native commands it
owns; `HostDies` stops everything that runs, and a container that was only asked for may be lost.

### 2.9 Questions

The questions of one Agent; its turns follow one another. Rows: `outcome` (the status with the
answer or the reason), `continuation`, `turnOf`, `delivered`, `proposal`, the `approval` of each
delivery and of each answer, `policy`; `written` is what the worker appended to the conversation.
The rest is the process: the turn whose host is attached, the waiters, the prompts on their way
to Telegram (`sending`), and what a waiter was resolved with (`told`).

* `ask` inserts the row, waits, and delivers to a page at once, under an approval, or not at all;
  a prompt to Telegram is queued. `askAgain` is an ask of a turn that waits already.
* `Send`, `markDelivered`, `Refused`, `Interrupted`: the guard of a send, before it leaves the
  queue and once it returned, and how it fails (`question-transport.ts`, `#deliver`).
* `respond`, `Approve`, `decide`, `finishDelivery`: answers and decisions. `CloseUnready`,
  `reconcile` and `Expire` close a question for its route, its policy, its deadline.
* `Write` and `markConsumed`: the worker saves what it was told and confirms it, and the daemon
  compares the two. `Abort`, `EndTurn`, `Die`, `Boot` end what is open.

Abstractions. Deadlines pass at any time. `stale` holds the approvals captured under an earlier
revision of the policy, for which the code compares references. The ways in which an approval
fails (denied, cancelled, expired, failed in delivery) act alike on a question and are all `ended`.
A prompt of several messages is one. The steps between the end of a delivery and its record are
microtasks, so only a death comes between them.

## 3. Runs

No bound replaces a definition; all bounds are constants. Deadlock is checked, except in the
models of the inbox, of the workspace and of questions: an inbox whose messages are all read and
whose bounds are used up, a set of writers that all ended, and a turn that asked all its questions
and ended, have nothing left to do.

| Run | Instance | Shows |
|---|---|---|
| `queue_order` | 3 inputs of one Agent and 2 of another, 2 per Agent, 3 in the home, 4 receipts, edits, removals, 1 pause or resume, restarts | `AtMostOnce`; `WithinLimits`; `KeepsPromise`: `UserQueue` implements `FollowUpQueue` |
| `queue_membership` | 1 Telegram input, 2 Teams, all policies, archive and move, other turns, 2 pauses | `StartsAsMember`, `StartsAuthorized`, `UncertainIsPaused`, `ResumeIsInformed`, `OneTurnPerAgent` |
| `queue_liveness` | 2 inputs, approvals, fairness | `OneOwner`, `InFlightIsOldest`, `PayloadOutlivesUse`, `SettlesOrPauses` |
| `trigger_rows` | 1 interval trigger, 2 ticks at once, clock to 2, 3 attempts, approvals, 1 other turn, 1 crash or shutdown | `OneOpenPerTrigger`, `TurnOwnsRow`, `SettledIsFinal` |
| `trigger_liveness` | 1 cron trigger, 2 attempts, all policies, 1 other turn, 1 crash or shutdown, fairness | `RetriesBounded`, `RefusalHolds`, `EverySettles` |
| `verification_attempt` | 2 requests of 1 specialist in 1 workspace, 2 dispatchers of one waiting, native and container checks, a turn longer than its lease, an edge that changes, 1 death, 1 other turn or writer, fairness | `ResultsAreEarned`, `CommandsHoldTheWorkspace`, `RecipientStays`, `KeepsTheLog`, `EveryAttemptEnds` |
| `review_packet` | 1 packet, 3 attempts, 2 dispatchers waiting, all policies, a conclusion of the operator, 2 other turns or archives, 2 deaths, fairness | `OpenAttemptHoldsPacket`, `ReviewerStays`, `KeepsTheLog`, `EveryTurnEnds` |
| `publications_outcome` | 3 publications of 2 packets to 2 branches, one over a lossy connection, 1 death, fairness | `PublishedIsOnHost`, `BranchesKept`, `KeepsTheLog`, `EveryClaimSettles` |
| `inbox_delivery` | 2 messages of one Agent to another, all policies, 2 other turns, archives or changes, 1 wake that is not ready, 1 death, fairness | `HandedOnce`, `HeldUntilApproved`, `EveryMessageIsTakenUp` |
| `workspace_writers` | 2 turns of one root and a mutation, a worker with host commands, a container the engine may drop, a native command, 1 failed cleanup, 1 death of daemon or host | `NothingUnrecorded`, `OneWriter` |
| `question_held` | 2 questions of a turn, on a page or in Telegram, 2 rival responses, all policies, 1 change of the policy or of the route, any deaths, fairness | `OutcomeIsTold`, `NothingDangles`, `ReleasedByItsOwner`, `EveryAskReturns` |
| `review_replay` | 1 packet, 1 death | finding, section 5 |

Further configurations answer questions of their own and are not among these runs:
`InboxDelivery_chains.cfg` (4 messages in turn between two Agents, no `reply_to`: `ChainsEnd` and
`HopsWithinLimit` hold), `WorkspaceOwnership_liveness.cfg` (`EveryTurnIsAdmitted` holds: a turn gets its workspace
unless something nobody can prove gone, or a restored row, is in its way), and those of the
divergences in section 5.

Why the bounds are enough to meet the hazards.

* Queue. Passing a predecessor takes two inputs of one Agent; keeping a place under edits takes
  three (before, edited, after). Each limit is one below what the instance asks for: three
  inputs of an Agent that may hold two, two Agents with two each in a home of three, five
  attempts against four receipts. The second Agent is there to fill the home, so its queue is
  neither drained nor controlled (`Driven`). Comparing any one of the three limits one too late
  violates `WithinLimits`.
  Membership takes one input and two Teams. `MaxRev` bounds what operators do to a control;
  interruptions raise the revision beyond it, so a stale view is reached with 1. `queue_liveness`
  has neither moves nor a workspace in use: an Agent that is moved for ever or a workspace that is
  never free starves a queue, and rightly so.
* Triggers. Coalescing and stale ticks take two overlapping ticks and two occurrences of one
  trigger (clock to 2). The retry bound is met exactly with three attempts and exceeded by one
  with one crash, which is the case `RetriesBounded` accounts for.
* Verification. Two requests contend for one specialist and one workspace; one is of each posture
  that is contained; a lease that runs out and a crash hit either. Two dispatchers of the second
  request wait for the lease at a time, so that one is served while the other holds the registration, or
  after it; a request that were given back by the admission that claimed its attempt would be
  claimed again (`KeepsTheLog`).
* Reviews. Three attempts are two retries, two deaths hit an attempt and its successor, and two
  dispatchers of one packet wait at a time. The limit of a tick needs more packets than it allows:
  `ReviewDispatch_starved.cfg` has two packets against a limit of one.
* Publications. Two publications of one packet, and two of different packets for one branch, are
  the two ways they meet; three publications hold both.
* Inbox. Two messages to one reader are a wake that captures one and asks for another. Another
  turn may read while a wake waits; two turns or changes are a read between a denial and a grant.
* Workspace. One resource of each kind is in it; the container is run by the worker, so it outlives
  its client; the mutation overlaps one turn and not the other.
* Questions. A second question is one asked after the first or beside it; two responses are rivals,
  and one change of the policy is the one that comes while a prompt is paced, on the network, held,
  or answered. Every policy is an initial one, so a change goes from any to any.

The theorems remove the bounds for the properties they cover. Only `queue_order` uses symmetry,
of the inputs of an Agent among each other; its properties are all safety properties. Two clauses
are out of reach of their run and covered by their theorem: that a reviewer reviews no *other*
packet (`ReviewerStays`, one packet; `ReviewerKept`), and that a writer of a restored backup keeps a
workspace closed (`OneWriter`, none is restored; `WorkspaceToItself`).

Fairness. Timers fire and requests of the daemon to itself are served; a promise settles, a
worker ends, a mutation ends; the lifecycle lease is FIFO, so whoever waits for it is served
although it may be busy again and again (strong fairness of admission in `UserQueue`, of wakes in
`InboxDelivery`, and of the last step of a claim in `WorkspaceOwnership`, where a timer retries
a busy workspace). In `TriggerDispatch` macrotask steps wait for `Quiet` and are disabled again
and again, which is why they get strong fairness: an event loop does not skip a ready callback
for ever. Deadlines pass, `expirePending` runs in every tick, and a supervisor restarts a dead
daemon; a turn, a check and a cleanup end one way or another. Operators are never assumed to act,
nor is an approval ever assumed to be decided. The timer of an ask fires and a send to Telegram
returns or fails, both by deadlines of their own; the turn of a question is not assumed to end. Nothing is assumed of the code host: a publication
settles because its lease runs out. `SettlesOrPauses` speaks of a daemon that finally stays up
and of an Agent without turns of other sources: the pump gives way to an active Agent, so a
source that never lets go starves it. All liveness properties rest on finitely many deaths and
other turns, which the bounds give.

## 4. Proofs

All theorems hold for any sets of Agents, inputs, Teams, triggers, requests, packets, publications,
messages, writers, resources and questions, any limits and any number of deaths, under the named assumptions
of the modules, which TLC evaluates in every run.

`UserQueueProofs`: `TypeCorrect` is inductive as stated. `OrderIsKept` (`InFlightIsOldest`),
`ExecutedOnce` (`AtMostOnce`), `DoubtPauses` (`UncertainIsPaused`) and `ResumedInformed`
(`ResumeIsInformed`) follow from one inductive invariant `Safe`. It adds to the properties:
`PositionsBelowNext`, because a new input is behind all others only if no position was
given out beyond `next_position`; `StartedStaysStarted`, because an input is started once only
if a started one is never pending, claimed or held again, in particular not after a restart;
and `ViewIsBehind`, because a stale resume fails only if every interruption raised the
revision above every earlier view. Lemmas on the kinds of writes (a transition, an acceptance,
an interruption) carry the argument for most of the 47 actions.

A second invariant, `Tasked`, relates the rows to the promises that work on them. It is not
enough that a row in flight has an owner (`OneOwner`): its parts are

* `NothingOutlives`: no task outlives its process, and a daemon that boots finds no row in flight
  once recovery ran. Without it a new process could claim a row an old promise still writes.
* `ApprovalsFollow`: a waiting input was never put to the operator, a held one refers to its
  approval, and a delivery runs under its claimed approval, so what releases a payload
  (`PayloadOutlivesUse`) is always the last to need it.
* `Registry`: the turns of an Agent exclude each other and are registered; a preparation has the
  lease, a mutation has it only while no turn is registered. `OneTurnPerAgent` alone is not kept by
  a claim, which looks at the lease and the registry and never at the turns themselves.
* `BindingsHold`: the captured reference of a turn past its binding check, and the membership of a
  claim past its authorization, are those of the Agent's present Team. A move takes the lease
  between them or fails the check.

From it follow `RowsAreOwned` (`OneOwner`), `BytesKept` (`PayloadOutlivesUse`), `OneTurn`
(`OneTurnPerAgent`) and the action properties `StartedAsMember` (`StartsAsMember`) and
`StartedAuthorized` (`StartsAuthorized`): only one action starts an input (`OnlyStartsRun`), and
what it starts is bound (`StartIsBound`). `LimitsKept` (`WithinLimits`) needs no more than types and
cardinalities: only an admission opens a row (`OnlyAdmissionOpens`), it counts before it inserts, and
an edit adds one row to what it leaves. `PromiseKept` is the refinement of `FollowUpQueue`: each of
the 47 actions is `Accept`, `Replace`, `Start`, `Resolve`, `Halt` or `Release` of the abstract queue,
or changes nothing it sees; `Start` rests on `InFlightIsOldest`, `Accept` on `PositionsBelowNext`.

`TriggerDispatchProofs`: `TickEffect`, `AttemptEffect` and `StepKinds` reduce every step to
what it does to rows and attempts; then `Coalesces`, `RowOwned`, `TurnsExclusive`,
`RetryBound`, `FinalOutcome` and `RefusalIsFinal` each take one lemma. `RetriesBounded` is not
inductive: a claim charges an attempt to any open row, so an open row no turn of this process
holds must have one left, and that is `Budget`. A crash keeps `Budget` because it raises `lost`
for exactly the rows whose attempt it takes away.

`VerificationDispatchProofs`: the invariant adds to the properties that a dispatcher past its
admission has its recipient registered for its own request (`Registered`), that a claimed attempt
of a daemon that is up has a dispatcher in one of the stages between claim and settlement
(`ClaimsBelong`), and that the writer of a turn is active until it is measured
(`WriterIsActive`): without it a check could start in somebody else's workspace.
`CommandsContained` assumes `NoHost`, since a check in the host posture does outlive its writer
(section 5, `VerificationDispatch_host.cfg`).

`AttemptsLogged` is the refinement of `AttemptLog` with one attempt of a request for good. Its
invariant is `Once`. Nothing in a claim forbids a second attempt but the state of the request, and a
dispatcher reads that before it waits for the lease. `Attempted` says that a request with an
attempt has no dispatcher waiting and is not pending any more, so no admission finds it. It holds
because those that waited behind the admitted dispatcher were turned away by the registry before
the claim (`AloneIsServed`), also when they wait for a mutation to end, which holds its lease only
while no turn is registered (`LockedIsFree`). `Keeps` and `Onward` reduce each action to what it does
to the rows: only pruning takes a request away, and what ends never goes back to pending.

`ReviewDispatchProofs`: `Leased` says that a dispatcher has its reviewer's lease and registration
to itself, `Attempted` that its attempt is open and its packet reviewing, `Delivers` that nothing was
delivered of a packet that is not reviewed, or whose result is being delivered. `AttemptsLogged` needs `OnlyLastOpen` besides: of the
attempts of a packet only the last may be open, or an attempt deep in the history could change.

`PublicationsProofs`: `ExecutorKnows` relates the stage of the request to its row and, once its
push was answered, to the host. `BranchesKept` is an action property of the host alone; that a
row says `published` only of its own branch is `PublishedIsOnHost`.

`InboxDeliveryProofs`: `Approved` says that the approval of a sending holds its message back while
it may still deliver, and that only a delivered approval grants; `Handed` that what was in a prompt
is read for good, so that no later claim takes it up; `Shown` that a message whose edge never
allowed it was inserted by its approval, and shown to a reader only with a grant.

Its hop limit rests on `Rooted`: a parent is there before its message, so there is exactly one
function that counts the hops of all messages (`Countable`). That is an invariant, kept by each sending
(`HopOfNew`), and it takes the place of an induction over the chain: it says what the recursive `hop`
is, in every state. `HopsAreLimited` holds with and without replies, because a delivery counts again
before it inserts. That a chain of wakes ends (`ChainsEnd`) is not proved: it holds where nobody
names a message in `reply_to`, which `InboxDelivery_chains.cfg` checks, and fails where Agents reply
as the prompt of a wake asks them to (section 5, `InboxDelivery_loops.cfg`).

`WorkspaceOwnershipProofs`: the invariant is `TypeOK` with `Staged` (how far a claim is, against
its row and its lease, and that recoveries only see writers whose turn is over), `Hosted` (what a
resource can be, given what is known of it), `Exclusive` (no row of another writer
overlaps the one of a lease) and `NothingUnrecorded`. `OneWriter` follows from the last two: what
works has a row, and a row that overlaps keeps a claim from its lease.

`QuestionsProofs`: the invariant is `TypeOK` with `OutcomeIsTold`, `NothingDangles` and four
parts they need: who waits, waits for an open question (`Waited`), or a waiter could be told
nothing; with the daemon waiters and turn are gone (`Down`); what is open belongs to a turn
(`Owned`); and an answer is held only with its proposal, of a question whose own delivery is not held
any more (`Proposed`), or the answer would close the question over a pending approval. All closers
of a question share the lemma `CloseKeeps`. `OwnersRelease` is an action property of each step.

`TurnsExclusive` (one live turn per Agent), `ReviewsAreConcluded`, `NothingConsumed`,
`LeasesAreRows` and the theorems `TypeCorrect` prove properties that are no longer part of a run, since
the theorem covers more. The type invariants of `Publications`, `WorkspaceOwnership` and `Questions`
are part of the invariants above; those of `ReviewDispatch`, `VerificationDispatch` and
`InboxDelivery` are the part `Core` of them and a part of their own.

Not proved, and why:

* Liveness under fairness is out of this prover's reach: `SettlesOrPauses`, `EverySettles`,
  `EveryAttemptEnds`, `EveryTurnEnds`, `EveryClaimSettles`, `EveryMessageIsTakenUp`,
  `EveryTurnIsAdmitted`, `EveryAskReturns` are only model-checked.
* The type invariant of `TriggerDispatch`: the line at a lifecycle lease is made with `SelectSeq`, which
  takes an operator the provers cannot instantiate. TLC finds it to hold on the instance of
  `trigger_rows`; the proofs use its part `Core`. All safety properties of the passing runs are proved.

## 5. Findings

One divergence is a run of `PROJECT.json`, `review_replay`: `core/repos/review-packets.ts:570` says
that an interrupted review is "never replayed: only an explicit new attempt may review the packet
again". Recovery sets its packet to `open` (`:589`), and the next tick dispatches every open packet
that names a reviewer.

Further divergences met while modelling. Each configuration below violates the property it names;
run `tlc -config <file> MC<module>` to see the behaviour (`Questions` without `MC`). Paths are below `apps/daemon/src`.

| Configuration | Property | The code, and what a text says |
|---|---|---|
| `UserQueue_pause` | `PauseStopsFutureClaims` | a pause between the claim of an input and the binding check of its preparation (`lib/turn-preparation.ts:157`) ends that input as failed; a moment later it returns it to the queue (`lib/user-queue-drain.ts:63`). `docs/follow-up-queue.md:14`: Pause queue "stops future claims" |
| `TriggerDispatch_forward` | `FiresForward` | a tick that waits for a lease acts on the row and the clock it read before; an overlapping one may have fired a later occurrence, and the watermark `last_fired_at` moves backwards (`lib/scheduler.ts:537`, header `:11-14`, `:32`) |
| `VerificationDispatch_granted` | `GrantIsHonoured` | a grant moves the request to pending, and its admission authorizes the edge again, finds the delivered approval and parks it for good (`lib/verification/admission.ts:165`). `approval.ts:45`: "a granted approval always has its effect" |
| `VerificationDispatch_lease` | `ExpiredLeaseFinishesNothing` | `finishVerificationAttempt` never reads `lease_expires_at` (`core/repos/verification-requests.ts:585`); `:569`: a lease that expired "cannot be finished" |
| `VerificationDispatch_abandon` | `AbandonedChecksStayUnrun` | unreported checks become `unknown` (`lib/verification/runner.ts:315`); `:288`: they "are left `not_executed`" |
| `VerificationDispatch_skipped` | `SkippedNeverRan` | with containers, a check in flight when the worker fails may be settled as `skipped` (`runner.ts:246`); `:211`: skipped are those "the specialist never ran" |
| `VerificationDispatch_host` | `CommandsHoldTheWorkspace` | a host check in flight when the worker fails is neither awaited nor recorded, and the writer is released under it (`lib/verification/dispatch.ts:288`). `docs/backlog/done/BAZ-044-specialist-verification-handoff.md:189`: "one exclusive workspace lease" for the checks |
| `ReviewDispatch_divergences` | `CancelledAwaitsOperator` | a cancelled attempt reopens its packet, which the next tick dispatches (`core/repos/review-packets.ts:564`); `:562`: "open to an explicit operator decision" |
| `ReviewDispatch_divergences` | `BootSettlesAttempts` | recovery takes only attempts whose lease of ten minutes has expired, and runs once, at boot (`:578`). `lib/ctx.ts:124`: "an interrupted attempt becomes uncertain" |
| `ReviewDispatch_divergences` | `CompletedConcludes` | a conclusion of an earlier attempt makes a turn complete that concluded nothing (`lib/review/dispatch.ts:197`, comment `:195`) |
| `ReviewDispatch_divergences` | `ConcludedIsReviewed` | an operator's conclusion during a review is not seen when the attempt fails (`review-packets.ts:450`); `:443`: "A packet with a conclusion *is* reviewed" |
| `ReviewDispatch_divergences` | `OneConclusionPerReviewer` | the upsert conflicts on a column that is NULL for operators, so a second conclusion is a second row (`:420`); `:401`: it "replaces the reviewer's own" |
| `ReviewDispatch_granted` | `GrantIsHonoured` | as for verifications (`lib/communication.ts:129`, `lib/review/approval.ts:44`) |
| `ReviewDispatch_starved` | `OpenIsTakenUp` | a tick takes the oldest open packets; those whose turns fail at once stay the oldest and starve the younger (`lib/review/dispatch.ts:234`, `lib/scheduler.ts:573`). The limit is scaled from 5 to 1 |
| `Publications_timeout` | `RefusedIsNotOnHost` | a push that git did not live to see answered is recorded as `refused` and may have reached the host (`lib/publication/execute.ts:108`); `:107`: "Every git-side refusal happened before the push, so nothing reached the host" |
| `Publications_accepted` | `AcceptedIsPublished` | the lease of two minutes is not renewed, so a tick settles a running publication as uncertain and its success is lost (`core/repos/publications.ts:259`). `execute.ts:30`: an accepted push "is reported as published" |
| `Publications_twice` | `PublishedOnce` | a claim looks for published siblings only, so two publications of a packet may both be pushed (`publications.ts:206`). `docs/publication.md:33`: "refused rather than published twice" |
| `InboxDelivery_loops` | `ChainsEnd` | `reply_to` takes precedence over the wake as causal parent and restarts the count (`lib/agent-loop-guard.ts:67`). `docs/backlog/done/BAZ-025-agent-loop-circuit-breaker.md:22`: does not depend on `reply_to` |
| `InboxDelivery_lost` | `ClaimedIsHandedOver` | a held message that `read_inbox` captured makes the wake throw after it marked others read (`lib/communication.ts:733`). `lib/scheduler.ts:20`: a turn "whose prompt embeds the messages" |
| `InboxDelivery_archived` | `ArchivedIsBlocked` | native preparation refuses an archived Agent before its rows can be blocked (`native-execution/prepare.ts:87`). `core/repos/messages.ts:138`: "one terminal policy-blocked disposition" |
| `InboxDelivery_twice` | `OnePerAttempt` | the idempotency key is looked up only when the edge asks (`routes/agents.ts:1202`). `docs/backlog/done/BAZ-014-harness-communication-approvals.md:70`: "at most one delivery" |
| `InboxDelivery_interrupted` | `EveryApprovalEnds` | a death between claim and end of a delivery leaves the approval `delivering` (`core/repos/communicationApprovals.ts:563`). BAZ-014 `:31`: "deliver at most once or expire visibly" |

Of `Questions`, `PendingIsAwaited` is violated when it is added to `Questions_held.cfg`: a second
`ask_user` of a turn that waits inserts its row and then throws (`lib/question-waiters.ts:31`), and the
row stays pending, unawaited and beyond its deadline until the turn ends. `docs/questions.md` says
"Pending: the original turn is waiting".

The same conflict of captures as in `InboxDelivery_lost` is why `EveryMessageIsTakenUp` does not
promise each held message an approval of its own: `claimDeliverableInbox` throws at the first
message `read_inbox` captured, before it asks for later ones, in every wake. They wait until the
first one is decided.

## 6. Not modelled, and the plan

`components` in `PROJECT.json` gives the reason for each part. Providers, tools, the CLI and the
web application are I/O around the state above, and credential checks are out of scope. They are
most of the lines of the repository.

Within the modelled parts:

* Team Policy enforcement is on in all models; with it off, approvals do not exist.
* Review packets and publications are never pruned, because nothing calls `pruneReviewPackets` and
  `prunePublications`; nothing calls `failPublication` or the explicit rerun of a verification.
  Nothing calls `prune` of the questions either, so after `recordsPerHome` of them every ask fails;
  `docs/questions.md:57` says they are kept for seven days. Their limits are not modelled.
* Of the inbox, `read_inbox` reads unread messages (`unreadOnly`), and the end of an approved
  delivery is one step, its effect and the state of its approval together.
* A Linux worker that runs in the native sandbox (`owned-linux-native-child` in
  `coding-environment/resources.ts`) is not modelled: workers are processes of the daemon's host,
  with or without host commands, and native commands are their own kind of resource, recorded as
  workers like in the code (`RecordedAsWorker`).
* The cancel route of reviews reads the packet and aborts its turn in one step; in the code a
  microtask lies between them.
* A workspace is a relation of overlap: how a root is identified, the restore itself, owners on
  macOS, and rows another process substitutes are not modelled. What a worker leaves behind after
  a normal exit is assumed to end.
* The models of the sources of turns are not composed with one another: each has the turns of all
  others as `other`, which take lease and registration at any time, and the workspace as a refusal
  (queue, triggers) or as one writer (verification).

Next, in this order:

1. `Cron`: parsing and matching as operators against a reference definition, over bounded
   expressions; it replaces the constant `CronMinutes`.
2. `LifecycleLease`: the FIFO lease and the registry as a module of its own, with mutual
   exclusion as its abstract specification, implemented by what the models use.
3. `Approvals`: all kinds, decided once, delivered once, with a crash in the delivery.
4. `Notifications`, Telegram polling, `DaemonLiveness`, the MCP and browser pools.
5. Proofs: that the models of the sources of turns implement `LifecycleLease`.
