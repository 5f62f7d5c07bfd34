---------------------------- MODULE ReviewDispatch ----------------------------
(***************************************************************************)
(* Review packets of one Team: the packet, attempt and conclusion rows,    *)
(* the ticks that dispatch the oldest open packets, the dispatcher of a    *)
(* packet, which keeps the lifecycle lease of the reviewer for its whole   *)
(* turn, the operator beside it, and a daemon that may die or shut down    *)
(* between any two awaits.                                                 *)
(*                                                                         *)
(* Packets are numbered in the order of their capture.  Findings, exports  *)
(* and the content of a conclusion are left out.  Team Policy enforcement  *)
(* is on.                                                                  *)
(***************************************************************************)
EXTENDS Integers, Sequences, FiniteSets

CONSTANTS
    Packets,        \* review packet ids, in the order of created_at
    Agents,         \* Agent ids
    ReviewerOf,     \* review_packets.reviewer_agent_id
    ByAgent,        \* packets an Agent requested; the operator requested the others
    Policies,       \* bound: decisions the Team Policy takes for the edge
    Limit,          \* packets a tick dispatches
    MaxWaiting,     \* bound: dispatchers of a packet waiting for the lifecycle lease
    MaxAttempts,    \* bound: attempts of a packet that are remembered
    MaxConclusions, \* bound: conclusions an operator records for a packet
    MaxDeaths,      \* bound: crashes and shutdowns
    MaxOther        \* bound: turns, archives and policy changes of other sources

ASSUME ReviewAssumption ==
    /\ Packets \subseteq Nat
    /\ ReviewerOf \in [Packets -> Agents]
    /\ ByAgent \subseteq Packets
    /\ Policies \subseteq {"allow", "deny", "approval_required"}
    /\ Limit \in Nat \ {0} /\ MaxWaiting \in Nat /\ MaxAttempts \in Nat \ {0, 1}
    /\ MaxConclusions \in Nat /\ MaxDeaths \in Nat /\ MaxOther \in Nat

VARIABLES
    \* SQLite rows, kept over a restart
    packet,     \* review_packets.state, absent before the capture
    expired,    \* packets past expires_at
    attempts,   \* states of the attempts of a packet, oldest first
    leased,     \* packets whose open attempt has a lease that has not expired
    byReviewer, \* packets with a conclusion of the reviewer
    byOperator, \* how many conclusions of the operator a packet has
    approval,   \* communication approval of the packet
    policy,     \* what Team Policy decides for the edge of a packet
    archived,   \* archived Agents
    \* the daemon process, lost with it
    daemon,
    waiting,    \* dispatchers of a packet that wait for the lifecycle lease
    runner,     \* the await the dispatcher of a packet is at
    aborted,    \* packets whose AbortController fired
    active,     \* active-agent registry: which Agents are in a turn
    lease,      \* holder of the lifecycle lease of an Agent
    \* history kept for properties and bounds
    spoke,      \* packets whose open attempt recorded a conclusion itself
    delivered,  \* results handed to the requester of a packet
    deaths, others

attemptVars == <<attempts, leased, spoke>>
conclusions == <<byReviewer, byOperator>>
grantVars   == <<approval, policy>>
turnVars    == <<runner, aborted, active, lease>>
boundVars   == <<deaths, others>>
vars == <<packet, expired, attemptVars, conclusions, grantVars, archived, daemon, waiting,
          turnVars, delivered, boundVars>>

-----------------------------------------------------------------------------
(* Domains. *)

PacketState == {"absent", "open", "awaiting_approval", "blocked", "reviewing", "reviewed",
                "cancelled"}
Outcome      == {"completed", "failed", "cancelled"}
AttemptState == Outcome \cup {"claimed", "uncertain"}
Stage        == {"idle", "preparing", "turn", "delivering"}

TypeOK ==
    /\ packet \in [Packets -> PacketState]
    /\ expired \subseteq Packets /\ leased \subseteq Packets
    /\ attempts \in [Packets -> Seq(AttemptState)]
    /\ byReviewer \subseteq Packets
    /\ byOperator \in [Packets -> Nat]
    /\ approval \in [Packets -> {"none", "pending", "delivered", "refused"}]
    /\ policy \in [Packets -> Policies]
    /\ archived \subseteq Agents
    /\ daemon \in {"up", "stopping", "down"}
    /\ waiting \in [Packets -> Nat]
    /\ runner \in [Packets -> Stage]
    /\ aborted \subseteq Packets /\ spoke \subseteq Packets
    /\ active \subseteq Agents
    /\ lease \in [Agents -> {"free", "review", "other"}]
    /\ delivered \in [Packets -> Nat]
    /\ deaths \in Nat /\ others \in Nat

Init ==
    /\ packet = [p \in Packets |-> "absent"]
    /\ attempts = [p \in Packets |-> <<>>]
    /\ expired = {} /\ leased = {} /\ byReviewer = {} /\ archived = {} /\ aborted = {}
    /\ spoke = {} /\ active = {}
    /\ byOperator = [p \in Packets |-> 0] /\ delivered = [p \in Packets |-> 0]
    /\ approval = [p \in Packets |-> "none"]
    /\ policy \in [Packets -> Policies]
    /\ daemon = "up"
    /\ waiting = [p \in Packets |-> 0]
    /\ runner = [p \in Packets |-> "idle"]
    /\ lease = [a \in Agents |-> "free"]
    /\ deaths = 0 /\ others = 0

-----------------------------------------------------------------------------
(* Rows. *)

Reviewer(p) == ReviewerOf[p]

\* getReviewPacket: a packet past its window reads as absent.
Readable(p) == packet[p] # "absent" /\ p \notin expired

Open(p)    == Readable(p) /\ packet[p] = "open"
Claimed(p) == attempts[p] # <<>> /\ attempts[p][Len(attempts[p])] = "claimed"

\* The attempts of a packet with one more, or with the last in another state.
OneMore(p, s) ==
    Append(IF Len(attempts[p]) < MaxAttempts THEN attempts[p] ELSE Tail(attempts[p]), s)
LastNow(p, s) == [attempts[p] EXCEPT ![Len(attempts[p])] = s]

setReviewPacketState(p, s) == packet' = [packet EXCEPT ![p] = s]

setHeldPacketState(p, s) == IF Open(p) THEN setReviewPacketState(p, s) ELSE UNCHANGED packet

StateAfter(outcome) == IF outcome = "completed" THEN "reviewed" ELSE "open"

\* The dispatcher that finishes an attempt is the one that claimed it.
finishReviewAttempt(p, outcome) ==
    /\ attempts' = [attempts EXCEPT ![p] = LastNow(p, outcome)]
    /\ leased' = leased \ {p} /\ spoke' = spoke \ {p}
    /\ setReviewPacketState(p, StateAfter(outcome))

\* Fault: a conclusion settles its packet also under a running review.
ConcludedWhatever(p) == setReviewPacketState(p, "reviewed")

\* The packet of a recorded conclusion is reviewed if it was open.
Concluded(p) ==
    IF Open(p) THEN setReviewPacketState(p, "reviewed") ELSE UNCHANGED packet

-----------------------------------------------------------------------------
(* The operator, approvals, time. *)

captureReviewPacket(p) ==
    /\ daemon = "up" /\ packet[p] = "absent"
    /\ \A q \in Packets : q < p => packet[q] # "absent"
    /\ Reviewer(p) \notin archived
    /\ setReviewPacketState(p, "open")
    /\ UNCHANGED <<expired, attemptVars, conclusions, grantVars, archived, daemon, waiting,
                   turnVars, delivered, boundVars>>

\* POST conclusion.  The upsert conflicts on reviewer_agent_id, which an operator
\* has not, so every conclusion of the operator is a row of its own.
OperatorConcludes(p) ==
    /\ daemon = "up" /\ Readable(p) /\ byOperator[p] < MaxConclusions
    /\ byOperator' = [byOperator EXCEPT ![p] = @ + 1]
    /\ Concluded(p)
    /\ UNCHANGED <<expired, attemptVars, byReviewer, grantVars, archived, daemon, waiting,
                   turnVars, delivered, boundVars>>

\* POST cancel: a running attempt is aborted, any other packet is cancelled.
CancelReview(p) ==
    /\ daemon = "up" /\ Readable(p)
    /\ packet[p] \in {"open", "awaiting_approval", "reviewing"}
    /\ IF runner[p] # "idle" THEN aborted' = aborted \cup {p} /\ UNCHANGED packet
       ELSE setReviewPacketState(p, "cancelled") /\ UNCHANGED aborted
    /\ UNCHANGED <<expired, attemptVars, conclusions, grantVars, archived, daemon, waiting,
                   runner, active, lease, delivered, boundVars>>

\* grantReviewRequest: the packet must still be held and the reviewer live.
GrantDelivered(p) ==
    /\ daemon = "up" /\ approval[p] = "pending" /\ policy[p] = "approval_required"
    /\ Readable(p) /\ packet[p] = "awaiting_approval" /\ Reviewer(p) \notin archived
    /\ approval' = [approval EXCEPT ![p] = "delivered"]
    /\ setReviewPacketState(p, "open")
    /\ UNCHANGED <<expired, attemptVars, conclusions, policy, archived, daemon, waiting,
                   turnVars, delivered, boundVars>>

\* Denied, expired, or approved when the grant no longer validates.
ApprovalRefused(p) ==
    /\ daemon = "up" /\ approval[p] = "pending"
    /\ approval' = [approval EXCEPT ![p] = "refused"]
    /\ UNCHANGED <<packet, expired, attemptVars, conclusions, policy, archived, daemon, waiting,
                   turnVars, delivered, boundVars>>

Expire(p) ==
    /\ Readable(p)
    /\ expired' = expired \cup {p}
    /\ UNCHANGED <<packet, attemptVars, conclusions, grantVars, archived, daemon, waiting,
                   turnVars, delivered, boundVars>>

LeaseExpires(p) ==
    /\ p \in leased
    /\ leased' = leased \ {p}
    /\ UNCHANGED <<packet, expired, attempts, spoke, conclusions, grantVars, archived, daemon,
                   waiting, turnVars, delivered, boundVars>>

ChangePolicy(p, decision) ==
    /\ daemon = "up" /\ decision # policy[p] /\ others < MaxOther
    /\ policy' = [policy EXCEPT ![p] = decision]
    /\ others' = others + 1
    /\ UNCHANGED <<packet, expired, attemptVars, conclusions, approval, archived, daemon, waiting,
                   turnVars, delivered, deaths>>

-----------------------------------------------------------------------------
(* The dispatch of a packet. *)

\* listDispatchableReviewPackets: open packets, oldest first, up to the limit of a tick.
Older(p) == {q \in Packets : q < p /\ Open(q)}
Listed   == {p \in Packets : Open(p) /\ Cardinality(Older(p)) < Limit}

\* A tick starts a dispatcher for each listed packet whose reviewer is not active.
Tick ==
    /\ daemon = "up"
    /\ LET called == {p \in Listed : /\ Reviewer(p) \notin active /\ runner[p] = "idle"
                                     /\ waiting[p] < MaxWaiting}
       IN  /\ called # {}
           /\ waiting' = [p \in Packets |-> IF p \in called THEN waiting[p] + 1 ELSE waiting[p]]
    /\ UNCHANGED <<packet, expired, attemptVars, conclusions, grantVars, archived, daemon,
                   turnVars, delivered, boundVars>>

\* Team Policy denies every edge of an archived Agent.
Decision(p) == IF Reviewer(p) \in archived THEN "deny" ELSE policy[p]

\* The dispatcher is granted the lifecycle lease of the reviewer.
Granted(p) ==
    /\ waiting[p] > 0 /\ lease[Reviewer(p)] = "free"
    /\ waiting' = [waiting EXCEPT ![p] = @ - 1]
    /\ UNCHANGED <<expired, conclusions, policy, archived, daemon, aborted, delivered, boundVars>>

Free(p) == Granted(p) /\ Reviewer(p) \notin active

\* The reviewer is in a turn, or the packet is open no more.
DispatchDeferred(p) ==
    /\ Granted(p)
    /\ Reviewer(p) \in active \/ (Decision(p) = "allow" /\ ~Open(p))
    /\ UNCHANGED <<packet, attemptVars, approval, runner, active, lease>>

\* Denied, or held with no Agent to hold it for.
DispatchBlocked(p) ==
    /\ Free(p)
    /\ Decision(p) = "deny" \/ (Decision(p) = "approval_required" /\ p \notin ByAgent)
    /\ setHeldPacketState(p, "blocked")
    /\ UNCHANGED <<attemptVars, approval, runner, active, lease>>

\* authorizeReviewRequest creates the approval, or finds the one it created earlier
\* whatever became of it, and throws.
DispatchHeld(p) ==
    /\ Free(p)
    /\ Decision(p) = "approval_required" /\ p \in ByAgent
    /\ setHeldPacketState(p, "awaiting_approval")
    /\ approval' = [approval EXCEPT ![p] = IF @ = "none" THEN "pending" ELSE @]
    /\ UNCHANGED <<attemptVars, runner, active, lease>>

\* Fault: the reviewer is not entered in the active-agent registry.
ClaimUnregistered(p) ==
    /\ Free(p) /\ daemon = "up" /\ Decision(p) = "allow" /\ Open(p)
    /\ attempts' = [attempts EXCEPT ![p] = OneMore(p, "claimed")]
    /\ leased' = leased \cup {p} /\ spoke' = spoke \ {p}
    /\ setReviewPacketState(p, "reviewing")
    /\ runner' = [runner EXCEPT ![p] = "preparing"]
    /\ lease' = [lease EXCEPT ![Reviewer(p)] = "review"]
    /\ UNCHANGED <<approval, active>>

claimReviewAttempt(p) ==
    /\ Free(p) /\ daemon = "up" /\ Decision(p) = "allow" /\ Open(p)
    /\ attempts' = [attempts EXCEPT ![p] = OneMore(p, "claimed")]
    /\ leased' = leased \cup {p} /\ spoke' = spoke \ {p}
    /\ setReviewPacketState(p, "reviewing")
    /\ runner' = [runner EXCEPT ![p] = "preparing"]
    /\ active' = active \cup {Reviewer(p)}
    /\ lease' = [lease EXCEPT ![Reviewer(p)] = "review"]
    /\ UNCHANGED approval

\* The attempt is claimed, registerAgent throws, and the attempt fails at once.
ClaimedTooLate(p) ==
    /\ Free(p) /\ daemon = "stopping" /\ Decision(p) = "allow" /\ Open(p)
    /\ attempts' = [attempts EXCEPT ![p] = OneMore(p, "failed")]
    /\ UNCHANGED <<packet, leased, spoke, approval, runner, active, lease>>

-----------------------------------------------------------------------------
(* The turn of the reviewer. *)

GoTo(p, stage) ==
    /\ runner' = [runner EXCEPT ![p] = stage]
    /\ UNCHANGED <<aborted, active, lease>>

\* The controller, the registration and the lease are given back.
End(p) ==
    /\ runner' = [runner EXCEPT ![p] = "idle"]
    /\ aborted' = aborted \ {p}
    /\ active' = active \ {Reviewer(p)}
    /\ lease' = [lease EXCEPT ![Reviewer(p)] = "free"]

prepareChangeReviewTurn(p) ==
    /\ runner[p] = "preparing"
    /\ GoTo(p, "turn")
    /\ UNCHANGED <<packet, expired, attemptVars, conclusions, grantVars, archived, daemon, waiting,
                   delivered, boundVars>>

\* The reviewer calls conclude, as often as it likes while its turn is live.
ReviewerConcludes(p) ==
    /\ runner[p] = "turn" /\ p \notin aborted
    /\ byReviewer' = byReviewer \cup {p}
    /\ spoke' = spoke \cup {p}
    /\ Concluded(p)
    /\ UNCHANGED <<expired, attempts, leased, byOperator, grantVars, archived, daemon, waiting,
                   turnVars, delivered, boundVars>>

\* Fault: a turn that fails is tried again within its attempt.
FailsAndRetries(p) ==
    /\ runner[p] = "turn"
    /\ IF p \in aborted THEN finishReviewAttempt(p, "cancelled") /\ End(p)
       ELSE GoTo(p, "preparing") /\ UNCHANGED <<packet, attemptVars>>
    /\ UNCHANGED <<expired, conclusions, grantVars, archived, daemon, waiting, delivered, boundVars>>

\* The preparation throws, the worker fails, or the turn was aborted.
TurnFails(p) ==
    /\ runner[p] \in {"preparing", "turn"}
    /\ finishReviewAttempt(p, IF p \in aborted THEN "cancelled" ELSE "failed")
    /\ End(p)
    /\ UNCHANGED <<expired, conclusions, grantVars, archived, daemon, waiting, delivered, boundVars>>

\* A turn that ended in order completes if its reviewer has a conclusion of the packet;
\* the result then goes to an Agent that asked for it.
TurnEnds(p) ==
    /\ runner[p] = "turn" /\ p \notin aborted
    /\ finishReviewAttempt(p, IF p \in byReviewer THEN "completed" ELSE "failed")
    /\ IF p \in byReviewer \cap ByAgent THEN GoTo(p, "delivering") ELSE End(p)
    /\ UNCHANGED <<expired, conclusions, grantVars, archived, daemon, waiting, delivered, boundVars>>

\* A packet whose window closed meanwhile, or a policy that refuses, drops the result.
deliverReviewResult(p) ==
    /\ runner[p] = "delivering"
    /\ \/ delivered' = [delivered EXCEPT ![p] = @ + 1]
       \/ UNCHANGED delivered
    /\ End(p)
    /\ UNCHANGED <<packet, expired, attemptVars, conclusions, grantVars, archived, daemon, waiting,
                   boundVars>>

-----------------------------------------------------------------------------
(* Other sources, crash, shutdown and restart. *)

Acquire(a) ==
    /\ daemon = "up" /\ lease[a] = "free" /\ others < MaxOther
    /\ lease' = [lease EXCEPT ![a] = "other"]
    /\ others' = others + 1
    /\ UNCHANGED <<packet, expired, attemptVars, conclusions, grantVars, archived, daemon, waiting,
                   runner, aborted, active, delivered, deaths>>

\* Under the lease: archive an inactive Agent, start a turn of it, or give up.
Unlock(a) ==
    /\ lease[a] = "other"
    /\ lease' = [lease EXCEPT ![a] = "free"]
    /\ \/ a \notin active /\ archived' = archived \cup {a} /\ UNCHANGED active
       \/ /\ a \notin active \cup archived /\ daemon = "up"
          /\ active' = active \cup {a}
          /\ UNCHANGED archived
       \/ UNCHANGED <<archived, active>>
    /\ UNCHANGED <<packet, expired, attemptVars, conclusions, grantVars, daemon, waiting, runner,
                   aborted, delivered, boundVars>>

\* A turn of another source ends; the turn of a reviewer ends with its dispatcher.
OtherTurnEnds(a) ==
    /\ a \in active
    /\ \A p \in Packets : Reviewer(p) = a => runner[p] = "idle"
    /\ active' = active \ {a}
    /\ UNCHANGED <<packet, expired, attemptVars, conclusions, grantVars, archived, daemon, waiting,
                   runner, aborted, lease, delivered, boundVars>>

\* stopAgentTurns; registerAgent refuses from here on.
Shutdown ==
    /\ daemon = "up" /\ deaths < MaxDeaths
    /\ daemon' = "stopping"
    /\ aborted' = {p \in Packets : runner[p] # "idle"}
    /\ UNCHANGED <<packet, expired, attemptVars, conclusions, grantVars, archived, waiting, runner,
                   active, lease, delivered, boundVars>>

\* The process ends between any two awaits.
Die ==
    /\ daemon # "down" /\ deaths < MaxDeaths
    /\ daemon' = "down" /\ deaths' = deaths + 1
    /\ waiting' = [p \in Packets |-> 0]
    /\ runner' = [p \in Packets |-> "idle"]
    /\ aborted' = {} /\ active' = {}
    /\ lease' = [a \in Agents |-> "free"]
    /\ UNCHANGED <<packet, expired, attemptVars, conclusions, grantVars, archived, delivered, others>>

\* Fault: an interrupted attempt counts as failed.
RecoverAsFailed ==
    LET stale == {p \in Packets : Claimed(p) /\ p \notin leased}
    IN  /\ attempts' = [p \in Packets |-> IF p \in stale THEN LastNow(p, "failed") ELSE attempts[p]]
        /\ packet' = [p \in Packets |->
                         IF p \in stale /\ packet[p] = "reviewing" THEN "open" ELSE packet[p]]

\* Only an attempt whose lease has expired is taken for interrupted.
recoverInterruptedReviewAttempts ==
    LET stale == {p \in Packets : Claimed(p) /\ p \notin leased}
    IN  /\ attempts' = [p \in Packets |-> IF p \in stale THEN LastNow(p, "uncertain") ELSE attempts[p]]
        /\ packet' = [p \in Packets |->
                         IF p \in stale /\ packet[p] = "reviewing" THEN "open" ELSE packet[p]]

Restart ==
    /\ daemon = "down"
    /\ daemon' = "up"
    /\ recoverInterruptedReviewAttempts
    /\ UNCHANGED <<expired, leased, spoke, conclusions, grantVars, archived, waiting, turnVars,
                   delivered, boundVars>>

-----------------------------------------------------------------------------

Rows(p) ==
    \/ captureReviewPacket(p) \/ OperatorConcludes(p) \/ CancelReview(p)
    \/ GrantDelivered(p) \/ ApprovalRefused(p) \/ Expire(p) \/ LeaseExpires(p)
    \/ \E decision \in Policies : ChangePolicy(p, decision)

Dispatch(p) ==
    \/ DispatchDeferred(p) \/ DispatchBlocked(p) \/ DispatchHeld(p)
    \/ claimReviewAttempt(p) \/ ClaimedTooLate(p)

Turn(p) ==
    \/ prepareChangeReviewTurn(p) \/ TurnFails(p) \/ TurnEnds(p) \/ deliverReviewResult(p)

Others ==
    \/ \E a \in Agents : Acquire(a) \/ Unlock(a) \/ OtherTurnEnds(a)
    \/ Shutdown \/ Die \/ Restart

\* The window of every packet has closed: nothing is left to happen.
AllExpired ==
    /\ \A p \in Packets : ~Readable(p) /\ runner[p] = "idle"
    /\ UNCHANGED vars

Next ==
    \/ \E p \in Packets : Rows(p) \/ Dispatch(p) \/ Turn(p) \/ ReviewerConcludes(p)
    \/ Tick \/ Others \/ AllExpired

Spec == Init /\ [][Next]_vars

\* Ticks go on, what waits for a lease is served, a turn ends (its worker has
\* timeouts), leases run out, and a service manager restarts the daemon.
FairSpec ==
    /\ Spec
    /\ WF_vars(Tick) /\ WF_vars(Restart)
    /\ \A a \in Agents : WF_vars(Unlock(a)) /\ WF_vars(OtherTurnEnds(a))
    /\ \A p \in Packets : WF_vars(Dispatch(p)) /\ WF_vars(Turn(p)) /\ WF_vars(LeaseExpires(p))

-----------------------------------------------------------------------------
(* Properties. *)

\* While a dispatcher runs the turn of a packet, the packet is reviewing, its reviewer is
\* registered, and it is neither archived nor reviewing another packet.
ReviewerStays ==
    \A p \in Packets : runner[p] \in {"preparing", "turn"} =>
        /\ Claimed(p) /\ packet[p] = "reviewing"
        /\ Reviewer(p) \in active \ archived
        /\ \A q \in Packets \ {p} : Reviewer(q) = Reviewer(p) => runner[q] = "idle"

\* An attempt somebody may still be working on keeps its packet from another dispatch:
\* the packet is reviewing, or was cancelled after a crash left the attempt behind.
OpenAttemptHoldsPacket ==
    \A p \in Packets : Claimed(p) => packet[p] \in {"reviewing", "cancelled"}

\* A reviewed packet rests on a conclusion somebody recorded, and what a publication
\* reads as reviewed is never taken back: not by a late policy decision, a cancel, the
\* end of an attempt or a recovery.
ReviewedIsConcluded ==
    \A p \in Packets : packet[p] = "reviewed" => p \in byReviewer \/ byOperator[p] > 0

ReviewedStays == [][\A p \in Packets : packet[p] = "reviewed" => packet'[p] = "reviewed"]_vars

\* A requester hears of a review at most once, and only of one that was concluded.
ResultOnce == \A p \in Packets : delivered[p] > 0 => delivered[p] = 1 /\ packet[p] = "reviewed"

\* The attempts of a packet, as the attempt log sees them.
AttemptsOf(p) ==
    [i \in DOMAIN attempts[p] |->
        IF attempts[p][i] # "claimed" THEN attempts[p][i]
        ELSE IF runner[p] = "idle" THEN "orphan" ELSE "open"]

Log == INSTANCE AttemptLog WITH
    Items <- Packets, Outcomes <- Outcome,
    Again <- TRUE, Depth <- MaxAttempts, Prunable <- FALSE,
    log <- [p \in Packets |-> AttemptsOf(p)]

\* The attempt rows of reviews implement the attempt log: a packet is attempted again only
\* after an attempt that is settled, what an attempt was settled with stays, and one that
\* was interrupted is uncertain (claimReviewAttempt, recoverInterruptedReviewAttempts).
KeepsTheLog == Log!Spec

\* Every dispatched turn ends, whatever happens to the packet, and its reviewer is free.
EveryTurnEnds == \A p \in Packets : runner[p] # "idle" ~> runner[p] = "idle"

\* The comment of recoverInterruptedReviewAttempts: an interrupted claim is "never
\* replayed: only an explicit new attempt may review the packet again".
NeverReplayed ==
    [][\A p \in Packets :
        LET last == Len(attempts[p])
        IN  last > 0 /\ attempts[p][last] = "uncertain" => attempts'[p] = attempts[p]]_vars

\* The comment of finishReviewAttempt: a failed or interrupted attempt "leaves the packet
\* open to an explicit operator decision", so the next tick does not take it up.
CancelledAwaitsOperator ==
    [][\A p \in Packets :
        LET last == Len(attempts[p])
        IN  last > 0 /\ attempts[p][last] = "cancelled" => attempts'[p] = attempts[p]]_vars

\* The comment of initCtx: at boot "an interrupted attempt becomes uncertain ... and the
\* packet returns to `open`".
BootSettlesAttempts ==
    [][daemon = "down" /\ daemon' = "up" => \A p \in Packets : ~Claimed(p)']_vars

\* The comment of dispatchReviewPacket: "A turn that ends without one did not review
\* anything, so it settles as failed".
CompletedConcludes ==
    [][\A p \in Packets : TurnEnds(p) /\ p \notin spoke => packet'[p] # "reviewed"]_vars

\* The comment of recordReviewConclusion: "A packet with a conclusion *is* reviewed,
\* whoever recorded it".
ConcludedIsReviewed ==
    \A p \in Packets : byOperator[p] > 0 => packet[p] # "open"

\* The comment of recordReviewConclusion: "One conclusion per reviewer per packet".
OneConclusionPerReviewer == \A p \in Packets : byOperator[p] <= 1

\* The promise of review/approval.ts: "a granted approval always has its effect".  The
\* effect is the dispatch of the packet, so it is not held a second time.
GrantIsHonoured ==
    [][\A p \in Packets :
        approval[p] = "delivered" /\ packet[p] = "open" => packet'[p] # "awaiting_approval"]_vars

\* The comment of the tick: a packet that could not be dispatched is left "open for a
\* later tick", so it does not stay open for good while ticks go on.
OpenIsTakenUp ==
    \A p \in Packets : Open(p) ~> ~Open(p) \/ daemon # "up"
=============================================================================
