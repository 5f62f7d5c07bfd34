------------------------- MODULE VerificationDispatch -------------------------
(***************************************************************************)
(* Verification requests of one Team: the request, attempt and outcome     *)
(* rows, the dispatchers that ticks start, which wait for the lifecycle    *)
(* lease of the recipient, the admission that claims the workspace and     *)
(* proves it unchanged, the checks a specialist runs, the settlement, and  *)
(* a daemon that may die or shut down between any two awaits.              *)
(*                                                                         *)
(* The four states of a check that ran (succeeded, failed, timed_out,      *)
(* cancelled) are one, "executed".  The Team has one workspace, so one     *)
(* workspace_writers row at a time.  Team Policy enforcement is on.        *)
(***************************************************************************)
EXTENDS Integers, FiniteSets

CONSTANTS
    Requests,    \* verification request ids
    Agents,      \* Agent ids
    RecipientOf, \* verification_requests.recipient_agent_id
    Checks,      \* ordinals of the captured checks
    Posture,     \* environment.sandbox of a request: native, docker or host
    Slow,        \* requests whose turn may outlast the attempt's lease
    Policies,    \* bound: decisions the Team Policy takes for the edge of a request
    MaxWaiting,  \* bound: how many dispatchers of a request wait for the lifecycle lease
    MaxDeaths,   \* bound: crashes and shutdowns
    MaxOther     \* bound: turns, archives and writers of other sources

ASSUME VerificationAssumption ==
    /\ RecipientOf \in [Requests -> Agents]
    /\ Posture \in [Requests -> {"native", "docker", "host"}]
    /\ Slow \subseteq Requests
    /\ Policies \in [Requests -> SUBSET {"allow", "deny", "approval_required"}]
    /\ "other" \notin Requests /\ "nobody" \notin Requests /\ "none" \notin Requests
    /\ MaxWaiting \in [Requests -> Nat] /\ MaxDeaths \in Nat /\ MaxOther \in Nat

VARIABLES
    \* SQLite rows, kept over a restart
    request,  \* verification_requests.state; absent before, gone after the row
    expired,  \* requests past expires_at
    attempt,  \* state of the request's attempt, "none" without one
    check,    \* verification_check_outcomes.state per request and ordinal
    approval, \* communication approval of the request
    policy,   \* what Team Policy decides for the edge of a request
    archived, \* archived Agents
    writer,   \* workspace_writers: who, and whether it is active or in recovery
    commands, \* commands of checks that run; they survive the daemon
    \* the daemon process, lost with it
    daemon,
    waiting,  \* dispatchers of a request that wait for the lifecycle lease
    runner,   \* the await the registered dispatcher of a request is at
    aborted,  \* requests whose AbortController fired
    active,   \* active-agent registry
    locked,   \* Agents whose lifecycle lease someone else holds
    \* history kept for properties and bounds
    started,  \* checks whose command was started for a request
    overran,  \* requests whose dispatch outlived the lease_expires_at of its attempt
    deaths, others

rowVars     == <<request, attempt, check>>
grantVars   == <<approval, policy>>
processVars == <<daemon, waiting, runner, aborted, active, locked>>
boundVars   == <<deaths, others>>
vars == <<rowVars, expired, grantVars, archived, writer, commands, processVars,
          started, overran, boundVars>>

-----------------------------------------------------------------------------
(* Domains. *)

TerminalRequest == {"completed", "failed", "cancelled", "uncertain"}
RequestState == {"absent", "pending", "awaiting_approval", "running", "blocked", "gone"}
                    \cup TerminalRequest
AttemptOutcome == {"completed", "failed", "cancelled"}
CheckOutcome   == {"executed", "blocked", "unknown"}  \* what an executor reports
Stage == {"idle", "recovering", "claiming",         \* before the attempt exists
          "refused", "unselected",                  \* giving the workspace back unclaimed
          "proving", "disproved", "overdue",        \* the tree is compared with the capture
          "preparing", "turn", "measuring",         \* the specialist's turn
          "closing", "releasing"}                   \* the attempt is settled
Nobody == [by |-> "nobody", how |-> "recovery"]

TypeOK ==
    /\ request \in [Requests -> RequestState]
    /\ expired \subseteq Requests
    /\ attempt \in [Requests -> AttemptOutcome \cup {"none", "claimed", "uncertain"}]
    /\ check \in [Requests -> [Checks -> CheckOutcome \cup {"none", "not_executed", "skipped"}]]
    /\ approval \in [Requests -> {"none", "pending", "delivered", "refused"}]
    /\ \A r \in Requests : policy[r] \in Policies[r]
    /\ archived \subseteq Agents
    /\ writer \in [by : Requests \cup {"nobody", "other"}, how : {"active", "recovery"}]
    /\ commands \in [Requests -> SUBSET Checks]
    /\ daemon \in {"up", "stopping", "down"}
    /\ waiting \in [Requests -> Nat]
    /\ runner \in [Requests -> Stage]
    /\ aborted \subseteq Requests
    /\ active \in [Agents -> Requests \cup {"none", "other"}]
    /\ locked \subseteq Agents
    /\ started \in [Requests -> SUBSET Checks]
    /\ overran \subseteq Requests
    /\ deaths \in Nat /\ others \in Nat

Init ==
    /\ request = [r \in Requests |-> "absent"]
    /\ expired = {} /\ archived = {} /\ aborted = {} /\ locked = {} /\ overran = {}
    /\ attempt = [r \in Requests |-> "none"]
    /\ check = [r \in Requests |-> [c \in Checks |-> "none"]]
    /\ approval = [r \in Requests |-> "none"]
    /\ policy \in {f \in [Requests -> UNION {Policies[r] : r \in Requests}] :
                     \A r \in Requests : f[r] \in Policies[r]}
    /\ writer = Nobody
    /\ commands = [r \in Requests |-> {}]
    /\ daemon = "up"
    /\ waiting = [r \in Requests |-> 0]
    /\ runner = [r \in Requests |-> "idle"]
    /\ active = [a \in Agents |-> "none"]
    /\ started = [r \in Requests |-> {}]
    /\ deaths = 0 /\ others = 0

-----------------------------------------------------------------------------
(* Rows. *)

Known(r) == request[r] \notin {"absent", "gone"}

\* getVerificationRequest: a request past its window reads as absent.
Readable(r) == Known(r) /\ r \notin expired

\* setRequestState writes whatever the state was; without a row it writes nothing.
SetRequestState(r, s) ==
    request' = IF Known(r) THEN [request EXCEPT ![r] = s] ELSE request

\* What the checks that reported nothing become.
Unreported(r, s) ==
    [check EXCEPT ![r] = [c \in Checks |-> IF @[c] = "not_executed" THEN s ELSE @[c]]]

Reported(r) == {check[r][c] : c \in Checks}

\* finishVerificationAttempt: only an open attempt has an outcome left to record.
Finished(r, outcome, unreported) ==
    IF attempt[r] = "claimed"
    THEN /\ attempt' = [attempt EXCEPT ![r] = outcome]
         /\ check' = Unreported(r, unreported)
         /\ SetRequestState(r, outcome)
    ELSE UNCHANGED rowVars

\* Fault: a verification completes although none of its checks ran.
SettledWithoutEvidence(r) ==
    IF "unknown" \in Reported(r) THEN "uncertain" ELSE "completed"

SettledAs(r) ==
    IF "unknown" \in Reported(r) THEN "uncertain"
    ELSE IF "executed" \in Reported(r) THEN "completed" ELSE "failed"

settleVerificationAttempt(r) == Finished(r, SettledAs(r), "skipped")

abandonVerificationAttempt(r, outcome) == Finished(r, outcome, "unknown")

\* Fault: a refused proof of the tree leaves its claimed attempt open.
settleNothing(r) == UNCHANGED <<attempt, check>>

settleUnstarted(r) ==
    IF attempt[r] = "claimed"
    THEN /\ attempt' = [attempt EXCEPT ![r] = "failed"]
         /\ check' = Unreported(r, "blocked")
    ELSE UNCHANGED <<attempt, check>>

-----------------------------------------------------------------------------
(* The workspace. *)

\* Recovery of the writer of an owner: its recorded containers and native jobs are
\* removed and the row is deleted when that is confirmed; otherwise the row keeps
\* blocking the workspace.  A host command is no recorded resource.
Reap(owner) ==
    \/ /\ writer.by = owner
       /\ writer' = Nobody
       /\ commands' = [r \in Requests |->
                          IF r = owner /\ Posture[r] # "host" THEN {} ELSE commands[r]]
    \/ UNCHANGED <<writer, commands>>

\* Fault: the lease is given back with the row deleted before anything is torn down.
ReleasedAtOnce(r) == IF writer.by = r THEN Nobody ELSE writer

\* finish(false): the writer is abandoned to recovery and its row still blocks.
Abandoned(r) == IF writer.by = r THEN [writer EXCEPT !.how = "recovery"] ELSE writer

-----------------------------------------------------------------------------
(* Capture, cancellation, approval, and time. *)

createVerificationRequest(r) ==
    /\ daemon = "up" /\ request[r] = "absent"
    /\ RecipientOf[r] \notin archived
    /\ request' = [request EXCEPT ![r] = "pending"]
    /\ UNCHANGED <<attempt, check, expired, grantVars, archived, writer, commands, processVars,
                   started, overran, boundVars>>

CancelWaiting(r) ==
    /\ daemon = "up" /\ Readable(r) /\ request[r] \in {"pending", "awaiting_approval"}
    /\ SetRequestState(r, "cancelled")
    /\ UNCHANGED <<attempt, check, expired, grantVars, archived, writer, commands, processVars,
                   started, overran, boundVars>>

cancelVerificationDispatch(r) ==
    /\ daemon = "up" /\ Readable(r) /\ request[r] = "running" /\ runner[r] # "idle"
    /\ aborted' = aborted \cup {r}
    /\ UNCHANGED <<rowVars, expired, grantVars, archived, writer, commands, daemon, waiting,
                   runner, active, locked, started, overran, boundVars>>

\* grantVerificationRequest: revalidation or a request that is no longer held refuses.
GrantDelivered(r) ==
    /\ daemon = "up" /\ approval[r] = "pending"
    /\ policy[r] = "approval_required" /\ Readable(r) /\ request[r] = "awaiting_approval"
    /\ RecipientOf[r] \notin archived
    /\ approval' = [approval EXCEPT ![r] = "delivered"]
    /\ SetRequestState(r, "pending")
    /\ UNCHANGED <<attempt, check, expired, policy, archived, writer, commands, processVars,
                   started, overran, boundVars>>

\* Denied, expired, or approved when the grant no longer validates.
ApprovalRefused(r) ==
    /\ daemon = "up" /\ approval[r] = "pending"
    /\ approval' = [approval EXCEPT ![r] = "refused"]
    /\ UNCHANGED <<rowVars, expired, policy, archived, writer, commands, processVars,
                   started, overran, boundVars>>

Expire(r) ==
    /\ Known(r) /\ r \notin expired
    /\ expired' = expired \cup {r}
    /\ UNCHANGED <<rowVars, grantVars, archived, writer, commands, processVars,
                   started, overran, boundVars>>

LeaseExpires(r) ==
    /\ r \in Slow \ overran /\ attempt[r] = "claimed" /\ daemon # "down"
    /\ overran' = overran \cup {r}
    /\ UNCHANGED <<rowVars, expired, grantVars, archived, writer, commands, processVars,
                   started, boundVars>>

ChangePolicy(r, decision) ==
    /\ daemon = "up" /\ decision # policy[r] /\ others < MaxOther
    /\ policy' = [policy EXCEPT ![r] = decision]
    /\ others' = others + 1
    /\ UNCHANGED <<rowVars, expired, approval, archived, writer, commands, processVars,
                   started, overran, deaths>>

-----------------------------------------------------------------------------
(* dispatchVerificationRequest: from the tick to the workspace. *)

Recipient(r) == RecipientOf[r]

\* Nobody waits for a lifecycle lease that is free: it is handed on in the order of
\* arrival, at once, and a dispatcher that gets it consults the registry at once.
Served(a) == a \in locked \/ \A r \in Requests : Recipient(r) = a => waiting[r] = 0

\* The end of a dispatch: the controller and the registration are dropped.
Finish(r) ==
    /\ runner' = [runner EXCEPT ![r] = "idle"]
    /\ aborted' = aborted \ {r} /\ overran' = overran \ {r}
    /\ active' = [active EXCEPT ![Recipient(r)] = "none"]
    /\ UNCHANGED <<daemon, waiting, locked>>

GoTo(r, stage) ==
    /\ runner' = [runner EXCEPT ![r] = stage]
    /\ UNCHANGED <<daemon, waiting, aborted, active, locked>>

\* A tick or a capture starts a dispatcher; an active recipient turns it away at once.
dispatchPendingVerifications(r) ==
    /\ daemon = "up" /\ Readable(r) /\ request[r] = "pending"
    /\ active[Recipient(r)] = "none" /\ waiting[r] < MaxWaiting[r]
    /\ waiting' = [waiting EXCEPT ![r] = @ + 1]
    /\ UNCHANGED <<rowVars, expired, grantVars, archived, writer, commands, daemon, runner,
                   aborted, active, locked, started, overran, boundVars>>

pruneVerificationRequests(r) ==
    /\ daemon = "up" /\ Known(r) /\ r \in expired
    /\ request' = [request EXCEPT ![r] = "gone"]
    /\ attempt' = [attempt EXCEPT ![r] = "none"]
    /\ check' = [check EXCEPT ![r] = [c \in Checks |-> "none"]]
    /\ UNCHANGED <<expired, grantVars, archived, writer, commands, processVars,
                   started, overran, boundVars>>

\* The dispatcher is granted the lifecycle lease of the recipient.
Granted(r) ==
    /\ waiting[r] > 0 /\ Recipient(r) \notin locked
    /\ waiting' = [waiting EXCEPT ![r] = @ - 1]
    /\ UNCHANGED <<expired, policy, archived, writer, commands, daemon, aborted, locked,
                   started, overran, boundVars>>

\* Another turn started meanwhile, or the daemon no longer accepts a turn.
DispatchRefused(r) ==
    /\ Granted(r)
    /\ active[Recipient(r)] # "none" \/ daemon = "stopping"
    /\ UNCHANGED <<rowVars, approval, runner, active>>

Free(r) == Granted(r) /\ daemon = "up" /\ active[Recipient(r)] = "none"

Dispatchable(r) == Readable(r) /\ request[r] \notin TerminalRequest

\* Nothing to run: unknown, expired or settled.
AdmissionDeferred(r) ==
    /\ Free(r) /\ ~Dispatchable(r)
    /\ UNCHANGED <<rowVars, approval, runner, active>>

\* A recipient, an environment or evidence that is gone, or a policy that denies.
\* The environment and the evidence may be gone at any time.
AdmissionBlocked(r) ==
    /\ Free(r) /\ Dispatchable(r)
    /\ SetRequestState(r, "blocked")
    /\ UNCHANGED <<attempt, check, approval, runner, active>>

\* authorizeVerificationRequest creates the approval, or finds the one it created
\* earlier whatever became of it, and throws.
AdmissionHeld(r) ==
    /\ Free(r) /\ Dispatchable(r) /\ Recipient(r) \notin archived
    /\ policy[r] = "approval_required"
    /\ SetRequestState(r, "awaiting_approval")
    /\ approval' = [approval EXCEPT ![r] = IF @ = "none" THEN "pending" ELSE @]
    /\ UNCHANGED <<attempt, check, runner, active>>

\* Fault: the recipient is not entered in the active-agent registry.
AdmissionUnregistered(r) ==
    /\ Free(r) /\ Dispatchable(r) /\ Recipient(r) \notin archived
    /\ policy[r] = "allow"
    /\ runner' = [runner EXCEPT ![r] = "recovering"]
    /\ UNCHANGED <<rowVars, approval, active>>

AdmissionStarted(r) ==
    /\ Free(r) /\ Dispatchable(r) /\ Recipient(r) \notin archived
    /\ policy[r] = "allow"
    /\ active' = [active EXCEPT ![Recipient(r)] = r]
    /\ runner' = [runner EXCEPT ![r] = "recovering"]
    /\ UNCHANGED <<rowVars, approval>>

\* workspaceLifecycle.claim recovers an abandoned writer before it claims.  The
\* dispatchers that queued for the lease behind this one are turned away before.
RecoverWriter(r) ==
    /\ runner[r] = "recovering" /\ Served(Recipient(r))
    /\ IF writer.how = "recovery" THEN Reap(writer.by) ELSE UNCHANGED <<writer, commands>>
    /\ GoTo(r, "claiming")
    /\ UNCHANGED <<rowVars, expired, grantVars, archived, started, overran, boundVars>>

ClaimBusy(r) ==
    /\ runner[r] = "claiming" /\ writer # Nobody
    /\ Finish(r)
    /\ UNCHANGED <<rowVars, expired, grantVars, archived, writer, commands,
                   started, boundVars>>

\* The clock was read before the recovery: a window that closed meanwhile is not seen.
Claimable(r) == request[r] = "pending" /\ attempt[r] # "claimed"

\* The selected backend changed, or the request was taken away, during the recovery:
\* the workspace just claimed is given back.
ClaimGivenUp(r, why) ==
    /\ runner[r] = "claiming" /\ writer = Nobody
    /\ why = "refused" => ~Claimable(r)
    /\ writer' = [by |-> r, how |-> "recovery"]
    /\ GoTo(r, why)
    /\ UNCHANGED <<rowVars, expired, grantVars, archived, commands, started, overran, boundVars>>

claimVerificationAttempt(r) ==
    /\ runner[r] = "claiming" /\ writer = Nobody /\ Claimable(r)
    /\ writer' = [by |-> r, how |-> "active"]
    /\ attempt' = [attempt EXCEPT ![r] = "claimed"]
    /\ check' = [check EXCEPT ![r] = [c \in Checks |-> "not_executed"]]
    /\ request' = [request EXCEPT ![r] = "running"]
    /\ GoTo(r, "proving")
    /\ UNCHANGED <<expired, grantVars, archived, commands, started, overran, boundVars>>

GivenUp(r) ==
    /\ runner[r] \in {"refused", "unselected"}
    /\ Reap(r)
    /\ IF runner[r] = "unselected" THEN SetRequestState(r, "blocked") ELSE UNCHANGED request
    /\ Finish(r)
    /\ UNCHANGED <<attempt, check, expired, grantVars, archived, started, boundVars>>

-----------------------------------------------------------------------------
(* The proof of the tree, the turn and its checks. *)

\* readSnapshotApplicability found the captured tree and the request is still readable.
Proven(r) ==
    /\ runner[r] = "proving" /\ Readable(r)
    /\ GoTo(r, "preparing")
    /\ UNCHANGED <<rowVars, expired, grantVars, archived, writer, commands,
                   started, overran, boundVars>>

\* The tree changed or could not be compared, or the backend changed (disproved); or
\* the window of the request closed (overdue).  The release of the workspace begins.
Disproven(r, why) ==
    /\ runner[r] = "proving"
    /\ why = "overdue" => ~Readable(r)
    /\ writer' = Abandoned(r)
    /\ GoTo(r, why)
    /\ UNCHANGED <<rowVars, expired, grantVars, archived, commands, started, overran, boundVars>>

\* Fault: a request whose tree changed is queued for another attempt.
DisprovenRequeued(r) ==
    /\ runner[r] = "disproved"
    /\ Reap(r)
    /\ settleUnstarted(r)
    /\ SetRequestState(r, "pending")
    /\ Finish(r)
    /\ UNCHANGED <<expired, grantVars, archived, started, boundVars>>

DisprovenSettled(r) ==
    /\ runner[r] = "disproved"
    /\ Reap(r)
    /\ settleUnstarted(r)
    /\ SetRequestState(r, "blocked")
    /\ Finish(r)
    /\ UNCHANGED <<expired, grantVars, archived, started, boundVars>>

OverdueSettled(r) ==
    /\ runner[r] = "overdue"
    /\ Reap(r)
    /\ settleVerificationAttempt(r)
    /\ GoTo(r, "closing")
    /\ UNCHANGED <<expired, grantVars, archived, started, overran, boundVars>>

Prepared(r) ==
    /\ runner[r] = "preparing"
    /\ GoTo(r, "turn")
    /\ UNCHANGED <<rowVars, expired, grantVars, archived, writer, commands,
                   started, overran, boundVars>>

\* The specialist runs a check once; an abort closes the worker's channel first.
RunCheck(r, c) ==
    /\ runner[r] = "turn" /\ r \notin aborted
    /\ check[r][c] = "not_executed" /\ c \notin started[r]
    /\ commands' = [commands EXCEPT ![r] = @ \cup {c}]
    /\ started' = [started EXCEPT ![r] = @ \cup {c}]
    /\ UNCHANGED <<rowVars, expired, grantVars, archived, writer, processVars, overran, boundVars>>

recordVerificationCheckOutcome(r, c, outcome) ==
    check' = IF check[r][c] = "not_executed" THEN [check EXCEPT ![r][c] = outcome] ELSE check

\* A command ends; only the process that invoked it hears of it, and an attempt of an
\* earlier process was settled before this one took requests.
CheckEnds(r, c, outcome) ==
    /\ c \in commands[r]
    /\ commands' = [commands EXCEPT ![r] = @ \ {c}]
    /\ IF daemon = "down" THEN UNCHANGED check
       ELSE recordVerificationCheckOutcome(r, c, outcome)
    /\ UNCHANGED <<request, attempt, expired, grantVars, archived, writer, processVars,
                   started, overran, boundVars>>

\* The worker exits in order with every receipt in: a channel that closes during a
\* check is a failure.
TurnEnds(r) ==
    /\ runner[r] = "turn" /\ r \notin aborted /\ "unknown" \notin Reported(r)
    /\ commands[r] = {}
    /\ GoTo(r, "measuring")
    /\ UNCHANGED <<rowVars, expired, grantVars, archived, writer, commands,
                   started, overran, boundVars>>

\* The preparation throws, the worker fails, or the turn was aborted.  Only the native
\* executor is closed first, which waits for every receipt it issued.
TurnFails(r) ==
    /\ runner[r] \in {"preparing", "turn"}
    /\ Posture[r] = "native" => commands[r] = {}
    /\ IF "unknown" \in Reported(r) THEN settleVerificationAttempt(r)
       ELSE abandonVerificationAttempt(r, IF r \in aborted THEN "cancelled" ELSE "failed")
    /\ GoTo(r, "closing")
    /\ UNCHANGED <<expired, grantVars, archived, writer, commands, started, overran, boundVars>>

\* The tree was compared once more; the evidence and the outcome land together.
Measured(r) ==
    /\ runner[r] = "measuring"
    /\ settleVerificationAttempt(r)
    /\ GoTo(r, "closing")
    /\ UNCHANGED <<expired, grantVars, archived, writer, commands, started, overran, boundVars>>

\* After the result was handed back the workspace is released ...
Close(r) ==
    /\ runner[r] = "closing"
    /\ writer' = Abandoned(r)
    /\ GoTo(r, "releasing")
    /\ UNCHANGED <<rowVars, expired, grantVars, archived, commands, started, overran, boundVars>>

\* ... and the dispatch ends whether or not its teardown was confirmed.
Released(r) ==
    /\ runner[r] = "releasing"
    /\ Reap(r)
    /\ Finish(r)
    /\ UNCHANGED <<rowVars, expired, grantVars, archived, started, boundVars>>

-----------------------------------------------------------------------------
(* Other sources, crash, shutdown and restart. *)

Acquire(a) ==
    /\ daemon = "up" /\ a \notin locked /\ Served(a) /\ others < MaxOther
    /\ locked' = locked \cup {a}
    /\ others' = others + 1
    /\ UNCHANGED <<rowVars, expired, grantVars, archived, writer, commands, daemon, waiting,
                   runner, aborted, active, started, overran, deaths>>

\* Under the lease: archive an inactive Agent, start a turn of it, or give up.
Unlock(a) ==
    /\ a \in locked
    /\ locked' = locked \ {a}
    /\ \/ active[a] = "none" /\ archived' = archived \cup {a} /\ UNCHANGED active
       \/ /\ active[a] = "none" /\ daemon = "up" /\ a \notin archived
          /\ active' = [active EXCEPT ![a] = "other"]
          /\ UNCHANGED archived
       \/ UNCHANGED <<archived, active>>
    /\ UNCHANGED <<rowVars, expired, grantVars, writer, commands, daemon, waiting, runner,
                   aborted, started, overran, boundVars>>

OtherTurnEnds(a) ==
    /\ active[a] = "other"
    /\ active' = [active EXCEPT ![a] = "none"]
    /\ UNCHANGED <<rowVars, expired, grantVars, archived, writer, commands, daemon, waiting,
                   runner, aborted, locked, started, overran, boundVars>>

\* Another turn or a mutation of the Team claims the workspace.
OtherClaims ==
    /\ daemon = "up" /\ writer = Nobody /\ others < MaxOther
    /\ writer' = [by |-> "other", how |-> "active"]
    /\ others' = others + 1
    /\ UNCHANGED <<rowVars, expired, grantVars, archived, commands, processVars,
                   started, overran, deaths>>

OtherReleases ==
    /\ daemon # "down" /\ writer.by = "other"
    /\ \/ writer.how = "active" /\ writer' = [writer EXCEPT !.how = "recovery"]
       \/ writer.how = "recovery" /\ writer' = Nobody
    /\ UNCHANGED <<rowVars, expired, grantVars, archived, commands, processVars,
                   started, overran, boundVars>>

\* abortAllAgents; registerAgent refuses from here on.
Shutdown ==
    /\ daemon = "up" /\ deaths < MaxDeaths
    /\ daemon' = "stopping"
    /\ aborted' = {r \in Requests : runner[r] # "idle"}
    /\ UNCHANGED <<rowVars, expired, grantVars, archived, writer, commands, waiting, runner,
                   active, locked, started, overran, boundVars>>

\* The process ends between any two awaits; its writers belong to an old identity.
Die ==
    /\ daemon # "down" /\ deaths < MaxDeaths
    /\ daemon' = "down" /\ deaths' = deaths + 1
    /\ waiting' = [r \in Requests |-> 0]
    /\ runner' = [r \in Requests |-> "idle"]
    /\ active' = [a \in Agents |-> "none"]
    /\ aborted' = {} /\ locked' = {} /\ overran' = {}
    /\ writer' = [writer EXCEPT !.how = "recovery"]
    /\ UNCHANGED <<rowVars, expired, grantVars, archived, commands, started, others>>

recoverInterruptedVerificationAttempts ==
    /\ attempt' = [r \in Requests |-> IF attempt[r] = "claimed" THEN "uncertain" ELSE attempt[r]]
    /\ request' = [r \in Requests |-> IF attempt[r] = "claimed" THEN "uncertain" ELSE request[r]]
    /\ check' = [r \in Requests |->
                    IF attempt[r] = "claimed" THEN Unreported(r, "unknown")[r] ELSE check[r]]

Restart ==
    /\ daemon = "down"
    /\ daemon' = "up"
    /\ recoverInterruptedVerificationAttempts
    /\ UNCHANGED <<expired, grantVars, archived, writer, commands, waiting, runner, aborted,
                   active, locked, started, overran, boundVars>>

-----------------------------------------------------------------------------

Rows(r) ==
    \/ createVerificationRequest(r) \/ CancelWaiting(r) \/ cancelVerificationDispatch(r)
    \/ GrantDelivered(r) \/ ApprovalRefused(r) \/ Expire(r) \/ LeaseExpires(r)
    \/ dispatchPendingVerifications(r) \/ pruneVerificationRequests(r)
    \/ \E decision \in Policies[r] : ChangePolicy(r, decision)

Admission(r) ==
    \/ DispatchRefused(r) \/ AdmissionDeferred(r) \/ AdmissionBlocked(r)
    \/ AdmissionHeld(r) \/ AdmissionStarted(r)

Claiming(r) ==
    \/ RecoverWriter(r) \/ ClaimBusy(r) \/ claimVerificationAttempt(r) \/ GivenUp(r)
    \/ \E why \in {"refused", "unselected"} : ClaimGivenUp(r, why)

Turn(r) ==
    \/ Proven(r) \/ DisprovenSettled(r) \/ OverdueSettled(r)
    \/ \E why \in {"disproved", "overdue"} : Disproven(r, why)
    \/ Prepared(r) \/ TurnEnds(r) \/ TurnFails(r) \/ Measured(r) \/ Close(r) \/ Released(r)

ChecksOf(r) ==
    \E c \in Checks : RunCheck(r, c) \/ \E o \in CheckOutcome : CheckEnds(r, c, o)

Others ==
    \/ \E a \in Agents : Acquire(a) \/ Unlock(a) \/ OtherTurnEnds(a)
    \/ OtherClaims \/ OtherReleases \/ Shutdown \/ Die \/ Restart

\* Every request has gone its way and left with its row: nothing is left to happen.
AllGone ==
    /\ \A r \in Requests : request[r] \in {"absent", "gone"} /\ runner[r] = "idle"
    /\ UNCHANGED vars

Next ==
    \/ \E r \in Requests : Rows(r) \/ Admission(r) \/ Claiming(r) \/ Turn(r) \/ ChecksOf(r)
    \/ Others \/ AllGone

Spec == Init /\ [][Next]_vars

\* The event loop runs what it can, a check ends (it is killed at its timeout), so
\* does a turn, and a service manager restarts the daemon.
FairSpec ==
    /\ Spec
    /\ WF_vars(Restart)
    /\ \A r \in Requests :
         /\ WF_vars(Turn(r))
         /\ \A c \in Checks : WF_vars(\E o \in CheckOutcome : CheckEnds(r, c, o))

-----------------------------------------------------------------------------
(* Properties. *)

\* A completed verification is evidence: its attempt completed, at least one captured
\* check ran, and none is uncertain or left open (settleVerificationAttempt).
ResultsAreEarned ==
    \A r \in Requests : request[r] = "completed" =>
        /\ attempt[r] = "completed"
        /\ "executed" \in Reported(r)
        /\ Reported(r) \cap {"unknown", "not_executed"} = {}

\* "Checks the specialist never ran are `skipped`": a check whose command was started
\* is reported otherwise, however the turn ended (settleVerificationAttempt).
SkippedNeverRan ==
    \A r \in Requests : \A c \in started[r] : check[r][c] # "skipped"

\* A command of a check, also one that outlived the turn or the daemon that ran it,
\* keeps the workspace: nobody else's writer is admitted while it may still touch the
\* tree (release and recover in coding-environment).
CommandsHoldTheWorkspace ==
    \A r \in Requests : commands[r] # {} => writer.by = r

\* From its claim to its settlement an attempt of this process has its recipient in
\* the registry, so the Agent is neither archived nor in a second turn.
RecipientStays ==
    \A r \in Requests :
        (attempt[r] = "claimed" /\ daemon # "down") =>
            /\ runner[r] # "idle"
            /\ active[Recipient(r)] = r
            /\ Recipient(r) \notin archived

\* The attempt of a request, as the attempt log sees it.  A second one would overwrite
\* the state the first was settled with, and the log has no such step.
AttemptsOf(r) ==
    IF request[r] = "gone" THEN <<"gone">>
    ELSE IF attempt[r] = "none" THEN <<>>
    ELSE IF attempt[r] = "claimed" /\ runner[r] = "idle" THEN <<"orphan">>
    ELSE IF attempt[r] = "claimed" THEN <<"open">> ELSE <<attempt[r]>>

Log == INSTANCE AttemptLog WITH
    Items <- Requests, Outcomes <- AttemptOutcome,
    Again <- FALSE, Depth <- 1, Prunable <- TRUE,
    log <- [r \in Requests |-> AttemptsOf(r)]

\* The attempt rows of verifications implement the attempt log: one attempt of a request
\* ever, an outcome that is final, and an interrupted attempt settled as uncertain; a
\* request that is gone is not attempted any more (claimVerificationAttempt,
\* finishVerificationAttempt, recoverInterruptedVerificationAttempts).
KeepsTheLog == Log!Spec

\* An attempt, once claimed, is settled (or its request removed), whatever fails,
\* is cancelled, or crashes on the way.
EveryAttemptEnds ==
    \A r \in Requests : attempt[r] = "claimed" ~> attempt[r] # "claimed"

\* The promise of verification/approval.ts: "a granted approval always has its effect".
\* The effect is the dispatch of the request, so it is not held a second time.
GrantIsHonoured ==
    [][\A r \in Requests :
        approval[r] = "delivered" /\ request[r] = "pending" => request'[r] # "awaiting_approval"]_vars

\* The comment of finishVerificationAttempt: an attempt whose lease expired "cannot be
\* finished" by the caller that held it.
ExpiredLeaseFinishesNothing ==
    [][\A r \in overran :
        attempt[r] = "claimed" /\ daemon # "down" =>
            attempt'[r] \notin {"completed", "failed", "cancelled"}]_vars

\* The comment of abandonVerificationAttempt: the unreported checks of an abandoned
\* attempt "are left `not_executed`".
AbandonedChecksStayUnrun ==
    \A r \in Requests : attempt[r] = "cancelled" => "unknown" \notin Reported(r)
=============================================================================
