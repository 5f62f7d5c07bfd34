------------------------------ MODULE Questions ------------------------------
(***************************************************************************)
(* Questions an Agent asks its operator during a turn: the question rows   *)
(* and their delivery and answer approvals, the waiter and deadline of an  *)
(* ask, delivery to a page or, paced, to Telegram, answers, operators who  *)
(* decide approvals and change the policy, the recheck of every second,    *)
(* the worker that records and confirms what it was told, the end of a     *)
(* turn, and a daemon that may die between any two steps.                  *)
(*                                                                         *)
(* The turns are those of one Agent, so one is live at a time.  A skip is  *)
(* one of the responses, a Telegram prompt is one message, and an approval *)
(* expires with its question.  Record limits, receipts, archives and moves *)
(* (which wait for the turn) are left out.  Enforcement is on.             *)
(***************************************************************************)
EXTENDS Naturals, FiniteSets

CONSTANTS
    Questions,  \* agent_questions.id
    Turns,      \* generated turn ids
    Telegram,   \* turns whose response route is a Telegram topic
    Responses,  \* a request id with its answer
    Postures,   \* bound: what the Team Policy says of an edge
    MaxTurns,   \* bound: turns that are started
    MaxChanges  \* bound: changes of the policy and of the Telegram route

ASSUME QuestionsAssumption ==
    /\ Telegram \subseteq Turns /\ "none" \notin Turns
    /\ Postures \subseteq {"allow", "ask", "deny"} /\ MaxTurns \in Nat /\ MaxChanges \in Nat
    /\ Responses \cap {"none", "absent", "pending", "expired", "cancelled", "worker_lost",
                       "daemon_restart", "policy_denied", "route_unavailable"} = {}

VARIABLES
    \* SQLite rows
    outcome,      \* status of a question, with its answer or why there is none
    continuation, \* agent_questions.continuation
    turnOf,       \* agent_questions.turn_id
    delivered,    \* delivered_at is set
    proposal,     \* proposal_json
    approval,     \* communication_approvals.status; captured means linked to the question, and
                  \* "ended" is denied, cancelled, expired or failed in delivery
    stale,        \* approvals of open questions captured under an earlier revision of the policy
    policy,       \* the edges to the operator and back
    written,      \* the tool result in the conversation
    \* the daemon process and its worker
    daemon,
    turn,         \* the turn whose question host is attached
    aborted,      \* its controller is aborted
    past,         \* turns that were started
    routable,     \* the Telegram binding and transport are valid
    waiting,      \* QuestionWaiters.#waiting
    sending,      \* Telegram prompts: behind the outbound queue, or on the network
    finishing,    \* the approval whose delivery returned and is not recorded
    told,         \* what the waiter of a question was resolved with
    \* a bound
    changes

rows    == <<outcome, continuation, turnOf, delivered, proposal>>
process == <<daemon, turn, aborted, past, routable, changes>>
vars == <<rows, approval, stale, policy, written, process, waiting, sending, finishing, told>>

-----------------------------------------------------------------------------
(* Domains. *)

Kinds     == {"delivery", "answer"}
Approvals == Kinds \X Questions
Closings  == {"expired", "cancelled", "worker_lost", "daemon_restart", "policy_denied",
              "route_unavailable"}

TypeOK ==
    /\ outcome \in [Questions -> {"absent", "pending"} \cup Responses \cup Closings]
    /\ continuation \in [Questions -> {"none", "waiting", "unconfirmed", "consumed", "interrupted"}]
    /\ turnOf \in [Questions -> Turns \cup {"none"}]
    /\ delivered \subseteq Questions
    /\ proposal \in [Questions -> Responses \cup {"none"}]
    /\ approval \in [Approvals -> {"none", "pending", "delivering", "delivered", "ended"}]
    /\ stale \subseteq Approvals /\ policy \in [Kinds -> Postures]
    /\ written \in [Questions -> {"none"} \cup Responses \cup Closings]
    /\ daemon \in {"up", "down"} /\ turn \in Turns \cup {"none"} /\ aborted \in BOOLEAN
    /\ past \subseteq Turns /\ routable \in BOOLEAN
    /\ waiting \subseteq Questions
    /\ sending \in [Questions -> {"no", "paced", "sent"}]
    /\ finishing \subseteq Approvals
    /\ told \in [Questions -> {"none"} \cup Responses \cup Closings]
    /\ changes \in Nat

Init ==
    /\ outcome = [q \in Questions |-> "absent"]
    /\ continuation = [q \in Questions |-> "none"]
    /\ turnOf = [q \in Questions |-> "none"]
    /\ proposal = [q \in Questions |-> "none"]
    /\ written = [q \in Questions |-> "none"]
    /\ told = [q \in Questions |-> "none"]
    /\ sending = [q \in Questions |-> "no"]
    /\ approval = [k \in Approvals |-> "none"]
    /\ policy \in [Kinds -> Postures]
    /\ delivered = {} /\ stale = {} /\ past = {} /\ waiting = {}
    /\ finishing = {}
    /\ daemon = "up" /\ turn = "none" /\ aborted = FALSE /\ routable = TRUE /\ changes = 0

-----------------------------------------------------------------------------
(* Rows and waiters. *)

Pending(q) == outcome[q] = "pending"

\* Fault: closing a question forgets its approvals.
RetiredLater(ap) == ap

\* retireClosedApprovals: the approvals of a question that is no longer pending expire with it
\* or are cancelled.
Retired(ap) ==
    [k \in Approvals |->
        IF ap[k] = "pending" /\ outcome'[k[2]] # "pending" THEN "ended" ELSE ap[k]]

\* Fault: only an answer wakes the waiter.
settledAnswers(Q) ==
    LET woken == {q \in waiting \cap Q : outcome'[q] \in Responses} IN
    /\ waiting' = waiting \ woken
    /\ told' = [q \in Questions |-> IF q \in woken THEN outcome'[q] ELSE told[q]]

\* A waiter wakes once its question is settled, with the outcome that is recorded.
settled(Q) ==
    LET woken == {q \in waiting \cap Q : outcome'[q] # "pending"} IN
    /\ waiting' = waiting \ woken
    /\ told' = [q \in Questions |-> IF q \in woken THEN outcome'[q] ELSE told[q]]

\* Fault: closing does not look whether the question is still pending.
closedAgain(q, why) ==
    /\ outcome' = [outcome EXCEPT ![q] = why]
    /\ continuation' =
           [continuation EXCEPT ![q] = IF why = "expired" THEN "unconfirmed" ELSE "interrupted"]

\* Closing finds pending questions only, and every close wakes the waiter.  ap holds the
\* approvals with those the same step captured.
closed(q, why) ==
    IF Pending(q)
    THEN /\ outcome' = [outcome EXCEPT ![q] = why]
         /\ continuation' =
                [continuation EXCEPT ![q] =
                     IF why = "expired" THEN "unconfirmed" ELSE "interrupted"]
    ELSE UNCHANGED <<outcome, continuation>>

close(q, why, ap) ==
    /\ closed(q, why)
    /\ approval' = Retired(ap)
    /\ settled({q})
    /\ UNCHANGED <<turnOf, delivered>>

\* A turn ends for the questions it waits for, and for outcomes nobody confirmed.
closeTurn(why) ==
    LET mine == {q \in Questions : turn # "none" /\ turnOf[q] = turn} IN
    /\ outcome' = [q \in Questions |-> IF q \in mine /\ Pending(q) THEN why ELSE outcome[q]]
    /\ continuation' = [q \in Questions |->
           IF q \in mine /\ (Pending(q) \/ continuation[q] = "unconfirmed") THEN "interrupted"
           ELSE continuation[q]]
    /\ approval' = Retired(approval)
    /\ settled(mine)
    /\ UNCHANGED <<turnOf, delivered, proposal>>

answer(q, r) ==
    /\ outcome' = [outcome EXCEPT ![q] = r]
    /\ continuation' = [continuation EXCEPT ![q] = "unconfirmed"]
    /\ settled({q})
    /\ UNCHANGED <<turnOf, delivered>>

-----------------------------------------------------------------------------
(* The route, the policy and the live turn. *)

Reachable == turn # "none" /\ ~aborted /\ (turn \in Telegram => routable)

\* ready: the question is pending and waited for, and its turn is valid.
Ready(q) == Pending(q) /\ q \in waiting /\ Reachable

\* An approval that was captured owns its boundary for good.
Captured(k) == approval[k] # "none"
Granted(k)  == approval[k] = "delivering" /\ policy[k[1]] = "ask" /\ k \notin stale
Allowed(k)  == ~Captured(k) /\ policy[k[1]] = "allow"

\* An approval captured now, and the ones there are.
With(k) == [approval EXCEPT ![k] = "pending"]

\* The send of an ask that no approval owns.
Direct(q) == sending[q] # "no" /\ ~Captured(<<"delivery", q>>)

Asking(q) == q \in waiting \/ Direct(q)

-----------------------------------------------------------------------------
(* Asking. *)

attach(t) ==
    /\ daemon = "up" /\ turn = "none" /\ t \notin past /\ Cardinality(past) < MaxTurns
    /\ t \in Telegram => routable
    /\ turn' = t /\ past' = past \cup {t} /\ aborted' = FALSE
    /\ UNCHANGED <<rows, approval, stale, policy, written, daemon, routable, changes,
                   waiting, sending, finishing, told>>

\* New ids are interchangeable: any one that is not taken.
randomUUID == CHOOSE q \in Questions : outcome[q] = "absent"

\* The row is inserted and waited for; then the delivery is refused, held, made (the page
\* reads the row), or queued behind the pacing of Telegram.
ask(q) ==
    LET k == <<"delivery", q>>
        why == IF policy["delivery"] = "deny" THEN "policy_denied" ELSE "pending" IN
    /\ daemon = "up" /\ Reachable /\ outcome[q] = "absent" /\ q = randomUUID /\ waiting = {}
    /\ turnOf' = [turnOf EXCEPT ![q] = turn]
    /\ outcome' = [outcome EXCEPT ![q] = why]
    /\ continuation' =
           [continuation EXCEPT ![q] = IF why = "pending" THEN "waiting" ELSE "interrupted"]
    /\ told' = IF why = "pending" THEN told ELSE [told EXCEPT ![q] = why]
    /\ waiting' = IF why = "pending" THEN {q} ELSE {}
    /\ approval' = IF policy["delivery"] = "ask" THEN With(k) ELSE approval
    /\ sending' = [sending EXCEPT ![q] = IF Allowed(k) /\ turn \in Telegram THEN "paced" ELSE "no"]
    /\ delivered' = IF Allowed(k) /\ turn \notin Telegram THEN delivered \cup {q} ELSE delivered
    /\ UNCHANGED <<proposal, stale, policy, written, process, finishing>>

\* While the turn waits already, the row is inserted and then the ask fails.
askAgain(q) ==
    /\ daemon = "up" /\ Reachable /\ outcome[q] = "absent" /\ q = randomUUID /\ waiting # {}
    /\ turnOf' = [turnOf EXCEPT ![q] = turn]
    /\ outcome' = [outcome EXCEPT ![q] = "pending"]
    /\ continuation' = [continuation EXCEPT ![q] = "waiting"]
    /\ UNCHANGED <<delivered, proposal, approval, stale, policy, written, process, waiting,
                   sending, finishing, told>>

-----------------------------------------------------------------------------
(* Telegram: every send is authorized after its pacing and again once it returned. *)

Authorized(q) ==
    LET k == <<"delivery", q>> IN Ready(q) /\ (Allowed(k) \/ Granted(k))

Send(q) ==
    /\ sending[q] = "paced" /\ Authorized(q)
    /\ sending' = [sending EXCEPT ![q] = "sent"]
    /\ UNCHANGED <<rows, approval, stale, policy, written, process, waiting, finishing, told>>

\* Fault: a send that returned is not authorized again.
markUnchecked(q) ==
    /\ sending[q] = "sent" /\ Ready(q)
    /\ sending' = [sending EXCEPT ![q] = "no"]
    /\ delivered' = delivered \cup {q}
    /\ finishing' = {k \in {<<"delivery", q>>} : Captured(k)}
    /\ UNCHANGED <<outcome, continuation, turnOf, proposal, approval, stale, policy, written,
                   process, waiting, told>>

markDelivered(q) ==
    /\ sending[q] = "sent" /\ Authorized(q)
    /\ sending' = [sending EXCEPT ![q] = "no"]
    /\ delivered' = delivered \cup {q}
    /\ finishing' = {k \in {<<"delivery", q>>} : Captured(k)}
    /\ UNCHANGED <<outcome, continuation, turnOf, proposal, approval, stale, policy, written,
                   process, waiting, told>>

\* A send that fails ends the ask with no answer, or fails the delivery of its approval.
SendFails(q, why, captured) ==
    LET k == <<"delivery", q>> IN
    /\ sending' = [sending EXCEPT ![q] = "no"]
    /\ IF Direct(q)
       THEN close(q, why, IF captured THEN With(k) ELSE approval)
       ELSE /\ approval' = [approval EXCEPT ![k] = "ended"]
            /\ UNCHANGED <<outcome, continuation, turnOf, delivered, waiting, told>>
    /\ UNCHANGED <<proposal, stale, policy, written, process, finishing>>

\* The guard of a send does not pass; it closes a question whose route became invalid, whoever
\* owns the delivery.
Refused(q) ==
    /\ sending[q] # "no" /\ ~Authorized(q)
    /\ IF Pending(q) /\ ~Reachable /\ ~Direct(q)
       THEN /\ sending' = [sending EXCEPT ![q] = "no"]
            /\ close(q, "route_unavailable",
                     [approval EXCEPT ![<<"delivery", q>>] = "ended"])
            /\ UNCHANGED <<proposal, stale, policy, written, process, finishing>>
       ELSE SendFails(q, IF Ready(q) /\ policy["delivery"] = "deny" THEN "policy_denied"
                         ELSE "route_unavailable",
                      Ready(q) /\ policy["delivery"] = "ask")

\* Whichever await a send is at, the network fails or is too slow, the timer of the send is the
\* first to see the deadline, or the turn is aborted.
Interrupted(q) ==
    /\ sending[q] # "no"
    /\ SendFails(q, "route_unavailable", FALSE)

-----------------------------------------------------------------------------
(* Answers. *)

\* questionVisible: to a page, only what its delivery is still entitled to.
questionVisible(q) ==
    LET k == <<"delivery", q>> IN
    /\ q \in delivered
    /\ \/ policy["delivery"] = "allow"
       \/ /\ policy["delivery"] = "ask" /\ k \notin stale
          /\ approval[k] \in {"delivering", "delivered"}

\* The first response is the proposal; another one conflicts.  The answer is then accepted,
\* held for approval, or refused, which closes the question.
respond(q, r) ==
    LET k == <<"answer", q>> IN
    /\ daemon = "up" /\ (questionVisible(q) \/ turn \in Telegram)
    /\ Ready(q) /\ q \in delivered /\ proposal[q] \in {"none", r} /\ ~Captured(k)
    /\ proposal' = [proposal EXCEPT ![q] = r]
    /\ \/ Allowed(k) /\ answer(q, r) /\ UNCHANGED approval
       \/ /\ policy["answer"] = "ask"
          /\ approval' = With(k)
          /\ UNCHANGED <<outcome, continuation, turnOf, delivered, waiting, told>>
       \/ policy["answer"] = "deny" /\ close(q, "policy_denied", approval)
    /\ UNCHANGED <<stale, policy, written, process, sending, finishing>>

\* A response, an approval or the recheck finds that the route of a waiting turn is invalid.
CloseUnready(q) ==
    /\ daemon = "up" /\ Pending(q) /\ q \in waiting /\ ~Reachable
    /\ close(q, "route_unavailable", approval)
    /\ UNCHANGED <<proposal, stale, policy, written, process, sending, finishing>>

-----------------------------------------------------------------------------
(* Approvals. *)

\* claimDelivery and releaseApproval: the policy must be the one the approval was captured
\* under; then the delivery is made or queued, or the proposal accepted.
Approve(k) ==
    LET q == k[2]
        telegram == k[1] = "delivery" /\ turn \in Telegram IN
    /\ daemon = "up" /\ approval[k] = "pending" /\ Ready(q)
    /\ IF policy[k[1]] # "ask" \/ k \in stale
       THEN /\ approval' = [approval EXCEPT ![k] = "ended"]
            /\ UNCHANGED <<rows, waiting, sending, finishing, told>>
       ELSE /\ approval' = [approval EXCEPT ![k] = "delivering"]
            /\ sending' = IF telegram THEN [sending EXCEPT ![q] = "paced"] ELSE sending
            /\ finishing' = IF telegram THEN {} ELSE {k}
            /\ IF k[1] = "answer" THEN answer(q, proposal[q])
               ELSE /\ delivered' = IF telegram THEN delivered ELSE delivered \cup {q}
                    /\ UNCHANGED <<outcome, continuation, turnOf, waiting, told>>
            /\ UNCHANGED proposal
    /\ UNCHANGED <<stale, policy, written, process>>

\* Nothing else runs between the end of a delivery and its record, but the daemon may die.
finishDelivery(k) ==
    /\ k \in finishing /\ approval[k] = "delivering"
    /\ approval' = [approval EXCEPT ![k] = "delivered"]
    /\ finishing' = {}
    /\ UNCHANGED <<rows, stale, policy, written, process, waiting, sending, told>>

\* An operator denies or cancels, or any read of the approvals finds it expired.
decide(k) ==
    /\ daemon = "up" /\ approval[k] = "pending"
    /\ approval' = [approval EXCEPT ![k] = "ended"]
    /\ UNCHANGED <<rows, stale, policy, written, process, waiting, sending, finishing, told>>

\* #reconcile, every second while the ask is open.
Invalid(q) ==
    \E d \in Kinds :
        LET k == <<d, q>> IN
        \/ policy[d] = "deny"
        \/ approval[k] = "ended"
        \/ Captured(k) /\ (policy[d] # "ask" \/ k \in stale)
        \/ d = "delivery" /\ ~Captured(k) /\ q \in delivered /\ policy[d] # "allow"

reconcile(q) ==
    /\ daemon = "up" /\ Ready(q) /\ Invalid(q)
    /\ close(q, "policy_denied", approval)
    /\ UNCHANGED <<proposal, stale, policy, written, process, sending, finishing>>

-----------------------------------------------------------------------------
(* The deadline, the worker and the turn. *)

\* The deadline passed: its timer, or ready or answer before it, closes the question.
Expire(q) ==
    /\ q \in waiting
    /\ close(q, "expired", approval)
    /\ UNCHANGED <<proposal, stale, policy, written, process, sending, finishing>>

\* The ask returned, and the worker appends the tool result to its conversation.
Write(q) ==
    /\ turn # "none" /\ turnOf[q] = turn
    /\ told[q] # "none" /\ ~Asking(q) /\ written[q] = "none"
    /\ written' = [written EXCEPT ![q] = told[q]]
    /\ UNCHANGED <<rows, approval, stale, policy, process, waiting, sending, finishing, told>>

\* verifyQuestionConsumption compares the conversation with the row.
markConsumed(q) ==
    /\ turn # "none" /\ ~aborted /\ turnOf[q] = turn
    /\ written[q] = outcome[q] /\ outcome[q] \in Responses \cup {"expired"}
    /\ continuation[q] = "unconfirmed"
    /\ continuation' = [continuation EXCEPT ![q] = "consumed"]
    /\ UNCHANGED <<outcome, turnOf, delivered, proposal, approval, stale, policy, written,
                   process, waiting, sending, finishing, told>>

Abort ==
    /\ turn # "none" /\ ~aborted
    /\ aborted' = TRUE
    /\ closeTurn("cancelled")
    /\ UNCHANGED <<stale, policy, written, daemon, turn, past, routable, changes, sending,
                   finishing>>

\* The finally of runAgentTurn; after an abort the host is closed already.
EndTurn ==
    /\ turn # "none"
    /\ turn' = "none" /\ aborted' = FALSE
    /\ IF aborted THEN UNCHANGED <<rows, approval, waiting, told>> ELSE closeTurn("worker_lost")
    /\ UNCHANGED <<stale, policy, written, daemon, past, routable, changes, sending, finishing>>

-----------------------------------------------------------------------------
(* Outside. *)

\* Operators change an edge or only the revision.
PolicyChanges ==
    /\ changes < MaxChanges /\ changes' = changes + 1
    /\ \E d \in Kinds, v \in Postures : policy' = [policy EXCEPT ![d] = v]
    /\ stale' = {k \in Approvals : Captured(k) /\ Pending(k[2])}
    /\ UNCHANGED <<rows, approval, written, daemon, turn, aborted, past, routable, waiting,
                   sending, finishing, told>>

RouteChanges ==
    /\ changes < MaxChanges /\ changes' = changes + 1
    /\ routable' = ~routable
    /\ UNCHANGED <<rows, approval, stale, policy, written, daemon, turn, aborted, past, waiting,
                   sending, finishing, told>>

Die ==
    /\ daemon = "up"
    /\ daemon' = "down" /\ turn' = "none" /\ aborted' = FALSE
    /\ waiting' = {} /\ finishing' = {}
    /\ sending' = [q \in Questions |-> "no"]
    /\ told' = [q \in Questions |-> "none"]
    /\ UNCHANGED <<rows, approval, stale, policy, written, past, routable, changes>>

\* recoverInterrupted.
Boot ==
    /\ daemon = "down" /\ daemon' = "up"
    /\ outcome' = [q \in Questions |-> IF Pending(q) THEN "daemon_restart" ELSE outcome[q]]
    /\ continuation' = [q \in Questions |->
           IF Pending(q) \/ continuation[q] = "unconfirmed" THEN "interrupted"
           ELSE continuation[q]]
    /\ approval' = Retired(approval)
    /\ UNCHANGED <<turnOf, delivered, proposal, stale, policy, written, turn, aborted, past,
                   routable, changes, waiting, sending, finishing, told>>

-----------------------------------------------------------------------------

Delivery(q) == Send(q) \/ markDelivered(q) \/ Refused(q) \/ Interrupted(q)

Step ==
    \/ \E t \in Turns : attach(t)
    \/ \E q \in Questions :
           \/ ask(q) \/ askAgain(q) \/ Delivery(q)
           \/ CloseUnready(q) \/ reconcile(q) \/ Expire(q)
           \/ Write(q) \/ markConsumed(q)
           \/ \E r \in Responses : respond(q, r)
    \/ \E k \in Approvals : Approve(k) \/ decide(k)
    \/ Abort \/ EndTurn \/ PolicyChanges \/ RouteChanges \/ Boot

Next == (finishing = {} /\ Step) \/ (\E k \in Approvals : finishDelivery(k)) \/ Die

Spec == Init /\ [][Next]_vars

\* Deadlines pass and their timers fire, a Telegram send is taken from its queue and returns
\* or fails within ten seconds, and a delivery that ended is recorded.
FairSpec ==
    /\ Spec
    /\ \A q \in Questions :
           /\ WF_vars(finishing = {} /\ Expire(q))
           /\ WF_vars(finishing = {} /\ Delivery(q))
    /\ WF_vars(\E k \in Approvals : finishDelivery(k))

-----------------------------------------------------------------------------
(* Properties. *)

\* "only the first accepted answer settles it" (docs/questions.md): what the waiter is told and
\* what the conversation keeps is the outcome that is recorded, then and ever after, and an
\* answer is the one that was proposed when it was authorized.
OutcomeIsTold ==
    \A q \in Questions :
        /\ told[q] \in {"none", outcome[q]} /\ written[q] \in {"none", outcome[q]}
        /\ outcome[q] \in Responses => proposal[q] = outcome[q]

\* "authorize again after outbound pacing" (the comment of send): when a question is marked
\* delivered or an answer accepted, the policy of that moment allows it and nobody was asked, or
\* the approval captured under that policy is being delivered.
ReleasedByItsOwner ==
    [][\A q \in Questions :
           /\ q \in delivered' \ delivered =>
                  Allowed(<<"delivery", q>>) \/ Granted(<<"delivery", q>>)'
           /\ outcome'[q] \in Responses /\ outcome[q] # outcome'[q] =>
                  Allowed(<<"answer", q>>) \/ Granted(<<"answer", q>>)']_vars

\* A question is open, and an outcome unconfirmed, only while its turn lives; a question that is
\* closed leaves no approval an operator could still decide.
NothingDangles ==
    \A q \in Questions :
        /\ Pending(q) \/ continuation[q] = "unconfirmed" =>
               daemon = "down" \/ (turnOf[q] = turn /\ ~aborted)
        /\ \A d \in Kinds : approval[<<d, q>>] = "pending" => Pending(q)

\* An Agent that asks gets an answer or a reason, over held approvals, policy changes and sends
\* that hang.
EveryAskReturns == \A q \in Questions : Asking(q) ~> ~Asking(q)

\* "Pending: the original turn is waiting" (docs/questions.md).
PendingIsAwaited == \A q \in Questions : Pending(q) /\ daemon = "up" => q \in waiting
==============================================================================
