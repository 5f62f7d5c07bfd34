---------------------------- MODULE InboxDelivery ----------------------------
(***************************************************************************)
(* Messages between Agents: the message and approval rows, the causal hop  *)
(* guard, the wake of an Agent with unread messages (readiness, claim in   *)
(* one transaction, handover to a turn), turns of other sources that send  *)
(* and read, an operator who decides approvals and changes the policy, and *)
(* a daemon that may die or shut down between any two awaits.              *)
(*                                                                         *)
(* An Agent in a turn is in the registry; the lifecycle lease is held from *)
(* the start of a wake until its turn is prepared.  Payloads, conversations*)
(* and expiry times are left out.  Team Policy enforcement is on.          *)
(***************************************************************************)
EXTENDS Integers, FiniteSets, FiniteSetsExt

CONSTANTS
    Agents,      \* Agent ids
    Msgs,        \* message ids
    FromOf,      \* messages.from_agent_id
    ToOf,        \* messages.to_agent_id
    RetryOf,     \* messages a client sends again under the idempotency key of another one
    Postures,    \* bound: what the Team Policy says of an edge
    Replying,    \* whether a sender may name a message in reply_to
    Native,      \* whether protected execution is native
    MaxHops,     \* BAZILION_AGENT_LOOP_MAX_HOPS
    MaxOther,    \* bound: turns, archives and policy changes of other sources
    MaxFailures, \* bound: wakes that are not ready
    MaxDeaths    \* bound: crashes and shutdowns

ASSUME InboxAssumption ==
    /\ FromOf \in [Msgs -> Agents] /\ ToOf \in [Msgs -> Agents]
    /\ \A m \in Msgs : FromOf[m] # ToOf[m]
    /\ Postures \subseteq {"allow", "ask", "deny"}
    /\ Replying \in BOOLEAN /\ Native \in BOOLEAN
    /\ MaxHops \in Nat /\ MaxOther \in Nat /\ MaxFailures \in Nat /\ MaxDeaths \in Nat
    /\ "none" \notin Msgs

VARIABLES
    \* SQLite rows
    msg,       \* read_at and policy_disposition of a message, or why it was not inserted
    parent,    \* reply_to or the causal parent a message was sent with
    approval,  \* communication_approvals.status of the sending and of the delivery of a message
    origin,    \* which reader captured the delivery of a message for approval
    granted,   \* communication_approval_message_grants
    posture,   \* the edge a message takes: allowed, held for approval or absent
    stale,     \* approvals captured under an earlier revision of the policy
    archived,
    \* the daemon process
    daemon,
    wake,      \* the await the wake of an Agent is at
    prompt,    \* messages of the wake turn of an Agent
    other,     \* Agents in a turn of another source
    reading,   \* messages read_inbox returned and has not marked read yet
    approving, \* approvals a request has claimed and not finished
    \* history kept for properties and bounds
    handed,    \* how many wake turns a message was in the prompt of
    depth,     \* how many wakes lie behind a message
    opened,    \* messages whose edge allowed them at some time
    deaths, failures, others

mail      == <<msg, parent, depth>>
approvals == <<approval, origin, granted, stale, approving>>
policy    == <<posture, archived, opened>>
turns     == <<wake, prompt, other, reading>>
bounds    == <<deaths, failures, others>>
vars == <<mail, approvals, policy, daemon, turns, handed, bounds>>

-----------------------------------------------------------------------------
(* Domains. *)

Attempts == {"send", "inbox"} \X Msgs
Ended    == {"delivered", "failed", "denied"}

TypeOK ==
    /\ msg \in [Msgs -> {"absent", "refused", "held", "unread", "read", "blocked"}]
    /\ parent \in [Msgs -> Msgs \cup {"none"}]
    /\ approval \in [Attempts -> {"none", "pending", "delivering"} \cup Ended]
    /\ origin \in [Msgs -> {"none", "agent_inbox", "scheduler_inbox"}]
    /\ granted \subseteq Msgs /\ opened \subseteq Msgs
    /\ posture \in [Msgs -> Postures]
    /\ stale \subseteq Attempts /\ approving \subseteq Attempts
    /\ archived \subseteq Agents /\ other \subseteq Agents
    /\ daemon \in {"up", "stopping", "down"}
    /\ wake \in [Agents -> {"idle", "preparing", "handed", "running"}]
    /\ prompt \in [Agents -> SUBSET Msgs] /\ reading \in [Agents -> SUBSET Msgs]
    /\ handed \in [Msgs -> Nat] /\ depth \in [Msgs -> Nat]
    /\ deaths \in Nat /\ failures \in Nat /\ others \in Nat

Init ==
    /\ msg = [m \in Msgs |-> "absent"]
    /\ parent = [m \in Msgs |-> "none"]
    /\ approval = [k \in Attempts |-> "none"]
    /\ origin = [m \in Msgs |-> "none"]
    /\ granted = {} /\ stale = {} /\ approving = {} /\ archived = {} /\ other = {}
    /\ posture \in [Msgs -> Postures]
    /\ \A m, n \in Msgs : FromOf[m] = FromOf[n] /\ ToOf[m] = ToOf[n] => posture[m] = posture[n]
    /\ opened = {m \in Msgs : posture[m] = "allow"}
    /\ daemon = "up"
    /\ wake = [a \in Agents |-> "idle"]
    /\ prompt = [a \in Agents |-> {}] /\ reading = [a \in Agents |-> {}]
    /\ handed = [m \in Msgs |-> 0] /\ depth = [m \in Msgs |-> 0]
    /\ deaths = 0 /\ failures = 0 /\ others = 0

-----------------------------------------------------------------------------
(* Rows. *)

Inserted(m) == msg[m] \in {"unread", "read", "blocked"}
Unread(a)   == {m \in Msgs : ToOf[m] = a /\ msg[m] = "unread"}

\* The hop of a message: its parent chain, which never changes once inserted.
hop[m \in Msgs] == IF parent[m] = "none" THEN 0 ELSE hop[parent[m]] + 1
HopAfter(p) == IF p = "none" THEN 0 ELSE hop[p] + 1

\* authorizeInSnapshot: nothing passes from or to an archived Agent.
Decision(m) == IF FromOf[m] \in archived \/ ToOf[m] \in archived THEN "deny" ELSE posture[m]

\* The messages of a reader that pass, that an approval would release, and that do not pass.
Passing(a)  == {m \in Unread(a) : Decision(m) = "allow" \/ (Decision(m) = "ask" /\ m \in granted)}
Asking(a)   == {m \in Unread(a) : Decision(m) = "ask"} \ Passing(a)
Blocked(a)  == {m \in Unread(a) : Decision(m) = "deny"}

\* communicationApprovalRepo.request: an attempt another reader captured has another
\* fingerprint, and the request throws.
Conflicts(a, by) == {m \in Asking(a) : origin[m] \notin {"none", by}}

Requested(asked, by) ==
    /\ approval' = [k \in Attempts |->
           IF k[1] = "inbox" /\ k[2] \in asked /\ approval[k] = "none" THEN "pending"
           ELSE approval[k]]
    /\ origin' = [m \in Msgs |-> IF m \in asked THEN by ELSE origin[m]]

Active(a) == a \in other \/ wake[a] \in {"handed", "running"}
Leased(a) == wake[a] \in {"preparing", "handed"}
InTurn(a) == a \in other \/ wake[a] = "running"

-----------------------------------------------------------------------------
(* Sending. *)

\* A wake turn sends with the message of its prompt that came furthest.
selectCausalParent(a) ==
    IF prompt[a] = {} THEN {"none"}
    ELSE {m \in prompt[a] : \A n \in prompt[a] : hop[n] <= hop[m]}

\* Messages a sender may name in reply_to: any that is stored.
ReplyTargets == IF Replying THEN {m \in Msgs : Inserted(m)} ELSE {}

\* How many wakes lie behind what an Agent in a wake turn sends.
Behind(a) == IF wake[a] = "running" THEN 1 + Max({depth[n] : n \in prompt[a]}) ELSE 0

\* Beyond the hop limit or without an edge nothing is inserted; an approval under the same
\* attempt is answered with its status.
sendAgentMessage(m, p, known) ==
    /\ parent' = [parent EXCEPT ![m] = p]
    /\ msg' = [msg EXCEPT ![m] =
           IF HopAfter(p) > MaxHops \/ Decision(m) = "deny" THEN "refused"
           ELSE IF Decision(m) = "allow" THEN "unread" ELSE IF known THEN "refused" ELSE "held"]
    /\ approval' = IF msg'[m] = "held" THEN [approval EXCEPT ![<<"send", m>>] = "pending"]
                   ELSE approval

\* The send_message tool of an Agent in a turn.
ToolSends(m) ==
    LET a == FromOf[m] IN
    /\ msg[m] = "absent" /\ InTurn(a) /\ m \notin DOMAIN RetryOf
    /\ \E p \in ReplyTargets \cup (IF wake[a] = "running" THEN selectCausalParent(a) ELSE {"none"}) :
           sendAgentMessage(m, p, FALSE)
    /\ depth' = [depth EXCEPT ![m] = Behind(a)]
    /\ UNCHANGED <<origin, granted, stale, approving, policy, daemon, turns, handed, bounds>>

\* POST messages, by a client that may send again what it got no answer for.
HttpSends(m) ==
    /\ msg[m] = "absent" /\ daemon # "down"
    /\ m \in DOMAIN RetryOf => msg[RetryOf[m]] # "absent"
    /\ LET known == m \in DOMAIN RetryOf /\ approval[<<"send", RetryOf[m]>>] # "none"
       IN  \E p \in {"none"} \cup ReplyTargets : sendAgentMessage(m, p, known)
    /\ UNCHANGED <<depth, origin, granted, stale, approving, policy, daemon, turns, handed, bounds>>

-----------------------------------------------------------------------------
(* Reading in a turn. *)

\* deliverableInbox blocks what no longer passes and asks for what is held; a conflict
\* fails the tool after some of the requests were made.
read_inbox(a) ==
    /\ InTurn(a) /\ Unread(a) # {}
    /\ msg' = [m \in Msgs |-> IF m \in Blocked(a) THEN "blocked" ELSE msg[m]]
    /\ IF Conflicts(a, "agent_inbox") = {}
       THEN Requested(Asking(a), "agent_inbox") /\ reading' = [reading EXCEPT ![a] = Passing(a)]
       ELSE /\ \E made \in SUBSET (Asking(a) \ Conflicts(a, "agent_inbox")) :
                   Requested(made, "agent_inbox")
            /\ UNCHANGED reading
    /\ UNCHANGED <<parent, depth, granted, stale, approving, policy, daemon, wake, prompt, other,
                   handed, bounds>>

\* The tool marks what it was shown, one call after the other.
markRead(a, m) ==
    /\ m \in reading[a]
    /\ msg' = [msg EXCEPT ![m] = IF @ = "unread" THEN "read" ELSE @]
    /\ reading' = [reading EXCEPT ![a] = @ \ {m}]
    /\ UNCHANGED <<parent, depth, approvals, policy, daemon, wake, prompt, other, handed, bounds>>

-----------------------------------------------------------------------------
(* The wake of an Agent with unread messages. *)

\* Fault: archived recipients are left out.
WakeLive(a) ==
    /\ daemon = "up" /\ Unread(a) # {} /\ wake[a] = "idle" /\ ~Active(a) /\ a \notin archived
    /\ wake' = [wake EXCEPT ![a] = "preparing"]
    /\ UNCHANGED <<mail, approvals, policy, daemon, prompt, other, reading, handed, bounds>>

\* A tick finds the recipient idle, and its wake gets the lifecycle lease.
fireInboxWake(a) ==
    /\ daemon = "up" /\ Unread(a) # {} /\ wake[a] = "idle" /\ ~Active(a)
    /\ wake' = [wake EXCEPT ![a] = "preparing"]
    /\ UNCHANGED <<mail, approvals, policy, daemon, prompt, other, reading, handed, bounds>>

\* The workspace is busy or protected execution is not available; native execution refuses
\* an archived Agent.
NotReady(a) ==
    /\ wake[a] = "preparing"
    /\ IF daemon = "stopping" \/ (Native /\ a \in archived) THEN UNCHANGED failures
       ELSE failures < MaxFailures /\ failures' = failures + 1
    /\ wake' = [wake EXCEPT ![a] = "idle"]
    /\ UNCHANGED <<mail, approvals, policy, daemon, prompt, other, reading, handed, deaths, others>>

\* Fault: the messages stay unread until the turn is over.
ClaimUnmarked(a) ==
    /\ Passing(a) # {} => daemon = "up"
    /\ msg' = [m \in Msgs |-> IF m \in Blocked(a) THEN "blocked" ELSE msg[m]]
    /\ handed' = [m \in Msgs |-> IF m \in Passing(a) THEN handed[m] + 1 ELSE handed[m]]

\* Fault: a message on an edge that asks passes.
ClaimAsking(a) ==
    /\ Passing(a) # {} => daemon = "up"
    /\ msg' = [m \in Msgs |-> CASE m \in Blocked(a) -> "blocked"
                                [] m \in Passing(a) \cup Asking(a) -> "read"
                                [] OTHER -> msg[m]]
    /\ handed' = [m \in Msgs |-> IF m \in Passing(a) THEN handed[m] + 1 ELSE handed[m]]

\* One transaction blocks, marks read and registers; registerAgent throws while the daemon
\* is stopping, and rolls it back.
Claimed(a) ==
    /\ Passing(a) # {} => daemon = "up"
    /\ msg' = [m \in Msgs |-> CASE m \in Blocked(a) -> "blocked"
                                [] m \in Passing(a) -> "read"
                                [] OTHER -> msg[m]]
    /\ handed' = [m \in Msgs |-> IF m \in Passing(a) THEN handed[m] + 1 ELSE handed[m]]

\* After the transaction come the requests for approval, and a conflict ends the wake.
claimDeliverableInbox(a) ==
    /\ wake[a] = "preparing" /\ ~(Native /\ a \in archived)
    /\ Claimed(a)
    /\ IF Conflicts(a, "scheduler_inbox") = {}
       THEN /\ Requested(Asking(a), "scheduler_inbox")
            /\ wake' = [wake EXCEPT ![a] = IF Passing(a) = {} THEN "idle" ELSE "handed"]
            /\ prompt' = [prompt EXCEPT ![a] = Passing(a)]
       ELSE /\ \E made \in SUBSET (Asking(a) \ Conflicts(a, "scheduler_inbox")) :
                   Requested(made, "scheduler_inbox")
            /\ wake' = [wake EXCEPT ![a] = "idle"]
            /\ UNCHANGED prompt
    /\ UNCHANGED <<parent, depth, granted, stale, approving, policy, daemon, other, reading, bounds>>

TurnPrepared(a) ==
    /\ wake[a] = "handed"
    /\ wake' = [wake EXCEPT ![a] = "running"]
    /\ UNCHANGED <<mail, approvals, policy, daemon, prompt, other, reading, handed, bounds>>

\* The preparation fails, or the turn is over, whatever its end.
WakeEnds(a) ==
    /\ wake[a] \in {"handed", "running"}
    /\ wake' = [wake EXCEPT ![a] = "idle"]
    /\ prompt' = [prompt EXCEPT ![a] = {}] /\ reading' = [reading EXCEPT ![a] = {}]
    /\ UNCHANGED <<mail, approvals, policy, daemon, other, handed, bounds>>

-----------------------------------------------------------------------------
(* Approvals. *)

\* The operator approves: policy and membership must be as they were captured.
claimDelivery(k) ==
    /\ daemon # "down" /\ approval[k] = "pending"
    /\ IF k \notin stale /\ Decision(k[2]) = "ask"
       THEN approval' = [approval EXCEPT ![k] = "delivering"] /\ approving' = approving \cup {k}
       ELSE approval' = [approval EXCEPT ![k] = "denied"] /\ UNCHANGED approving
    /\ UNCHANGED <<mail, origin, granted, stale, policy, daemon, turns, handed, bounds>>

\* Denied, cancelled or expired.
decide(k) ==
    /\ daemon # "down" /\ approval[k] = "pending"
    /\ approval' = [approval EXCEPT ![k] = "denied"]
    /\ msg' = [msg EXCEPT ![k[2]] = IF @ = "held" THEN "refused" ELSE @]
    /\ UNCHANGED <<parent, depth, origin, granted, stale, approving, policy, daemon, turns, handed,
                   bounds>>

\* deliver and finishDelivery: the message is inserted if its hop is still within the limit,
\* or a grant lets a held message pass.
finishDelivery(k) ==
    LET m == k[2] IN
    /\ k \in approving
    /\ approving' = approving \ {k}
    /\ IF k[1] = "inbox"
       THEN /\ granted' = granted \cup {m}
            /\ approval' = [approval EXCEPT ![k] = "delivered"]
            /\ UNCHANGED msg
       ELSE /\ msg' = [msg EXCEPT ![m] = IF HopAfter(parent[m]) > MaxHops THEN "refused" ELSE "unread"]
            /\ approval' = [approval EXCEPT ![k] = IF msg'[m] = "unread" THEN "delivered" ELSE "failed"]
            /\ UNCHANGED granted
    /\ UNCHANGED <<parent, depth, origin, stale, policy, daemon, turns, handed, bounds>>

-----------------------------------------------------------------------------
(* Other sources, crash, shutdown and restart. *)

OtherStep == daemon # "down" /\ others < MaxOther /\ others' = others + 1

\* A new revision of the policy, with another posture for the edge of a message.
ChangePolicy(m, p) ==
    /\ OtherStep /\ posture[m] # p
    /\ posture' = [n \in Msgs |->
           IF FromOf[n] = FromOf[m] /\ ToOf[n] = ToOf[m] THEN p ELSE posture[n]]
    /\ opened' = opened \cup {n \in Msgs : posture'[n] = "allow"}
    /\ stale' = Attempts
    /\ UNCHANGED <<mail, approval, origin, granted, approving, archived, daemon, turns, handed,
                   deaths, failures>>

Archive(a) ==
    /\ OtherStep /\ ~Leased(a) /\ ~Active(a) /\ a \notin archived
    /\ archived' = archived \cup {a}
    /\ UNCHANGED <<mail, approvals, posture, opened, daemon, turns, handed, deaths, failures>>

OtherTurnStarts(a) ==
    /\ OtherStep /\ daemon = "up" /\ ~Leased(a) /\ ~Active(a) /\ a \notin archived
    /\ other' = other \cup {a}
    /\ UNCHANGED <<mail, approvals, policy, daemon, wake, prompt, reading, handed, deaths, failures>>

OtherTurnEnds(a) ==
    /\ a \in other
    /\ other' = other \ {a} /\ reading' = [reading EXCEPT ![a] = {}]
    /\ UNCHANGED <<mail, approvals, policy, daemon, wake, prompt, handed, bounds>>

\* stopScheduler and stopAgentTurns; registerAgent refuses from here on.
Shutdown ==
    /\ daemon = "up" /\ deaths < MaxDeaths
    /\ daemon' = "stopping"
    /\ UNCHANGED <<mail, approvals, policy, turns, handed, bounds>>

Die ==
    /\ daemon # "down" /\ deaths < MaxDeaths
    /\ daemon' = "down" /\ deaths' = deaths + 1
    /\ wake' = [a \in Agents |-> "idle"]
    /\ prompt' = [a \in Agents |-> {}] /\ reading' = [a \in Agents |-> {}]
    /\ other' = {} /\ approving' = {}
    /\ UNCHANGED <<mail, approval, origin, granted, stale, policy, handed, failures, others>>

Restart ==
    /\ daemon = "down"
    /\ daemon' = "up"
    /\ UNCHANGED <<mail, approvals, policy, turns, handed, bounds>>

-----------------------------------------------------------------------------

Wake(a) ==
    fireInboxWake(a) \/ NotReady(a) \/ claimDeliverableInbox(a) \/ TurnPrepared(a) \/ WakeEnds(a)

Approvals == \E k \in Attempts : claimDelivery(k) \/ decide(k) \/ finishDelivery(k)

Others ==
    \/ \E a \in Agents : Archive(a) \/ OtherTurnStarts(a) \/ OtherTurnEnds(a)
    \/ \E m \in Msgs, p \in Postures : ChangePolicy(m, p)
    \/ Shutdown \/ Die \/ Restart

Next ==
    \/ \E m \in Msgs : ToolSends(m) \/ HttpSends(m)
    \/ \E a \in Agents : Wake(a) \/ read_inbox(a) \/ \E m \in Msgs : markRead(a, m)
    \/ Approvals \/ Others

Spec == Init /\ [][Next]_vars

\* Ticks go on, preparations and turns end, readiness is not refused for ever, requests
\* run to their end, a shutdown ends the process and a service manager restarts it.
FairSpec ==
    /\ Spec
    /\ WF_vars(Restart) /\ WF_vars(daemon = "stopping" /\ Die)
    /\ \A a \in Agents :
           /\ SF_vars(fireInboxWake(a)) /\ SF_vars(claimDeliverableInbox(a))
           /\ WF_vars(Wake(a)) /\ WF_vars(OtherTurnEnds(a))
    /\ \A k \in Attempts : WF_vars(finishDelivery(k))

-----------------------------------------------------------------------------
(* Properties. *)

\* "two concurrent ticks can't double-dispatch" (the header of scheduler.ts): a message is in
\* the prompt of one wake turn at most, over deaths, turns and reads of every kind.
HandedOnce == \A m \in Msgs : handed[m] <= 1

\* Where the policy never allowed an edge, a message is inserted only if its sending was
\* approved, and read only if its delivery was approved too (claimDelivery).
HeldUntilApproved ==
    \A m \in Msgs \ opened :
        /\ Inserted(m) => approval[<<"send", m>>] \in {"delivering", "delivered"}
        /\ msg[m] = "read" =>
               m \in granted /\ approval[<<"inbox", m>>] \in {"delivering", "delivered"}

\* A daemon that is stopping hands no message to a turn, so it consumes none either
\* (registerAgent inside the transaction of the claim).
StoppingConsumesNothing ==
    [][daemon # "up" => handed' = handed]_vars

\* "the daemon rejects hops beyond BAZILION_AGENT_LOOP_MAX_HOPS" (docs/agent-engine.md): no
\* message has more wakes behind it than the limit, whichever messages a wake collects.
ChainsEnd == \A m \in Msgs : Inserted(m) => depth[m] <= MaxHops

\* sendAgentMessage and finishDelivery count the chain of a message when it is inserted: none is
\* longer than the limit, also when an approval comes after a change of the policy.
HopsWithinLimit == \A m \in Msgs : Inserted(m) => hop[m] <= MaxHops

\* A message is delivered, or read, or blocked, over busy turns, wakes that are not ready,
\* and deaths; it is kept waiting only while its edge asks for approval, and then somebody is
\* asked, for it or for another message of the same reader.
EveryMessageIsTakenUp ==
    \A m \in Msgs :
        msg[m] = "unread" ~>
            \/ msg[m] # "unread"
            \/ /\ Decision(m) = "ask"
               /\ \E n \in Msgs : ToOf[n] = ToOf[m] /\ approval[<<"inbox", n>>] # "none"

\* The header of scheduler.ts: a wake "drains all their unread messages in one transaction and
\* fires a turn whose prompt embeds the messages".
ClaimedIsHandedOver ==
    [][\A a \in Agents :
           claimDeliverableInbox(a) /\ handed' # handed => wake'[a] = "handed"]_vars

\* The comment of listRecipientsWithUnread: the unread rows of an archived recipient are
\* converted "into one terminal policy-blocked disposition instead of leaving an eternal retry
\* candidate".
ArchivedIsBlocked ==
    \A m \in Msgs : msg[m] = "unread" /\ ToOf[m] \in archived ~> msg[m] = "blocked"

\* BAZ-014: duplicate requests with one idempotency key "create one pending attempt and at
\* most one delivery".
OnePerAttempt ==
    \A m \in DOMAIN RetryOf : approval[<<"send", RetryOf[m]>>] = "delivered" => ~Inserted(m)

\* BAZ-014: "deliver at most once or expire visibly", so an approval that was claimed ends.
EveryApprovalEnds ==
    \A k \in Attempts : approval[k] = "delivering" ~> approval[k] \in Ended
=============================================================================
