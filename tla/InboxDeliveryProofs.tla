------------------------- MODULE InboxDeliveryProofs -------------------------
(***************************************************************************)
(* Proofs about InboxDelivery, for any Agents, messages, policies and      *)
(* bounds: a message is handed to a turn at most once, what the policy     *)
(* holds waits for its approvals, a stopping daemon consumes nothing, and  *)
(* no chain of messages grows beyond the hop limit.                        *)
(***************************************************************************)
EXTENDS InboxDelivery, WellFoundedInduction, TLAPS

-----------------------------------------------------------------------------
(* The inductive invariant. *)

\* The part of the type invariant that the arguments below rest on.
Core ==
    /\ msg \in [Msgs -> {"absent", "refused", "held", "unread", "read", "blocked"}]
    /\ approval \in [Attempts -> {"none", "pending", "delivering"} \cup Ended]
    /\ granted \subseteq Msgs /\ opened \subseteq Msgs
    /\ posture \in [Msgs -> Postures]
    /\ approving \subseteq Attempts
    /\ reading \in [Agents -> SUBSET Msgs]
    /\ handed \in [Msgs -> Nat]

\* An approval that may still deliver holds its message, one of a delivery has its message
\* inserted, and only a claimed one is being delivered.
Approved ==
    /\ \A m \in Msgs :
           /\ approval[<<"send", m>>] \in {"pending", "delivering"} => msg[m] = "held"
           /\ approval[<<"inbox", m>>] # "none" => Inserted(m)
           /\ m \in granted => approval[<<"inbox", m>>] = "delivered"
    /\ \A k \in approving : approval[k] = "delivering"

\* What was handed to a turn is read for good.
Handed == \A m \in Msgs : handed[m] <= 1 /\ (handed[m] = 1 => msg[m] = "read")

\* On an edge the policy never allowed, a message is inserted by its approval, and what is
\* shown to a reader or was read has a grant.
Shown ==
    /\ \A m \in Msgs \ opened :
           /\ posture[m] # "allow"
           /\ Inserted(m) => approval[<<"send", m>>] = "delivered"
           /\ msg[m] = "read" => m \in granted
    /\ \A a \in Agents : reading[a] \subseteq opened \cup granted

IInv == Core /\ Approved /\ Handed /\ Shown

-----------------------------------------------------------------------------
(* What the larger steps do. *)

\* A new message is refused, held under a new approval, or inserted because its edge allows it.
LEMMA SendEffect ==
    ASSUME Core, NEW m \in Msgs, ToolSends(m) \/ HttpSends(m)
    PROVE  /\ msg[m] = "absent"
           /\ \E v \in {"refused", "held", "unread"} :
                  /\ msg' = [msg EXCEPT ![m] = v]
                  /\ approval' = IF v = "held" THEN [approval EXCEPT ![<<"send", m>>] = "pending"]
                                 ELSE approval
                  /\ v = "unread" => posture[m] = "allow"
           /\ UNCHANGED <<granted, opened, posture, approving, reading, handed>>
<1>1. \E p, known : sendAgentMessage(m, p, known)
  BY DEF ToolSends, HttpSends
<1>2. PICK p, known : sendAgentMessage(m, p, known)
  BY <1>1
<1>3. \E v \in {"refused", "held", "unread"} :
          /\ msg' = [msg EXCEPT ![m] = v]
          /\ approval' = IF v = "held" THEN [approval EXCEPT ![<<"send", m>>] = "pending"]
                         ELSE approval
          /\ v = "unread" => posture[m] = "allow"
  <2> DEFINE v == IF HopAfter(p) > MaxHops \/ Decision(m) = "deny" THEN "refused"
                  ELSE IF Decision(m) = "allow" THEN "unread" ELSE IF known THEN "refused" ELSE "held"
  <2>1. msg' = [msg EXCEPT ![m] = v] /\ msg'[m] = v
    BY <1>2 DEF sendAgentMessage, Core
  <2>2. approval' = IF v = "held" THEN [approval EXCEPT ![<<"send", m>>] = "pending"] ELSE approval
    BY <1>2, <2>1 DEF sendAgentMessage
  <2>3. v \in {"refused", "held", "unread"} /\ (v = "unread" => posture[m] = "allow")
    BY DEF Decision
  <2>4. QED
    BY <2>1, <2>2, <2>3
<1>4. QED
  BY <1>3 DEF ToolSends, HttpSends, policy, turns

\* The same, message by message.
LEMMA SendPointwise ==
    ASSUME Core, NEW m \in Msgs, ToolSends(m) \/ HttpSends(m)
    PROVE  /\ msg[m] = "absent"
           /\ \/ msg'[m] = "refused" /\ approval' = approval
              \/ msg'[m] = "held" /\ approval'[<<"send", m>>] = "pending"
              \/ msg'[m] = "unread" /\ posture[m] = "allow" /\ approval' = approval
           /\ \A n \in Msgs : n # m =>
                  msg'[n] = msg[n] /\ approval'[<<"send", n>>] = approval[<<"send", n>>]
           /\ \A n \in Msgs : approval'[<<"inbox", n>>] = approval[<<"inbox", n>>]
           /\ \A k \in approving : k # <<"send", m>> => approval'[k] = approval[k]
           /\ UNCHANGED <<granted, opened, posture, approving, reading, handed>>
<1>1. PICK v \in {"refused", "held", "unread"} :
          /\ msg' = [msg EXCEPT ![m] = v]
          /\ approval' = IF v = "held" THEN [approval EXCEPT ![<<"send", m>>] = "pending"] ELSE approval
          /\ v = "unread" => posture[m] = "allow"
  BY SendEffect
<1>2. msg'[m] = v /\ \A n \in Msgs : n # m => msg'[n] = msg[n]
  BY <1>1 DEF Core
<1>3. <<"send", m>> \in Attempts /\ \A n \in Msgs : <<"inbox", n>> \in Attempts /\ <<"send", n>> \in Attempts
  BY DEF Attempts
<1>4. \A k \in Attempts : k # <<"send", m>> => approval'[k] = approval[k]
  BY <1>1, <1>3 DEF Core
<1>5. v = "held" => approval'[<<"send", m>>] = "pending"
  BY <1>1, <1>3 DEF Core
<1>6. QED
  BY <1>1, <1>2, <1>3, <1>4, <1>5, SendEffect DEF Core

\* Some of the messages that are asked for get a pending approval.
AsksFor(asked) ==
    /\ \A m \in asked : msg[m] = "unread"
    /\ approval' = [k \in Attempts |->
           IF k[1] = "inbox" /\ k[2] \in asked /\ approval[k] = "none" THEN "pending"
           ELSE approval[k]]

\* A reader is shown what passes; the rest is blocked or asked for.
LEMMA ReadEffect ==
    ASSUME Core, NEW a \in Agents, read_inbox(a)
    PROVE  /\ msg' = [m \in Msgs |-> IF m \in Blocked(a) THEN "blocked" ELSE msg[m]]
           /\ \A m \in Blocked(a) : msg[m] = "unread"
           /\ \E asked \in SUBSET Msgs : AsksFor(asked) /\ \A m \in asked : m \notin Blocked(a)
           /\ reading' = reading \/ reading' = [reading EXCEPT ![a] = Passing(a)]
           /\ \A m \in Passing(a) : m \in Msgs /\ (posture[m] = "allow" \/ m \in granted)
           /\ UNCHANGED <<granted, opened, posture, approving, handed>>
<1>1. /\ \A m \in Blocked(a) : msg[m] = "unread"
      /\ \A m \in Asking(a) : m \in Msgs /\ msg[m] = "unread" /\ m \notin Blocked(a)
      /\ \A m \in Passing(a) : m \in Msgs /\ (posture[m] = "allow" \/ m \in granted)
  BY DEF Blocked, Asking, Passing, Unread, Decision
<1>2. \E asked \in SUBSET Asking(a) : Requested(asked, "agent_inbox")
  BY DEF read_inbox
<1>3. QED
  BY <1>1, <1>2 DEF read_inbox, Requested, AsksFor, policy

\* A wake hands over what passes, which is unread and marked read at once.
LEMMA ClaimEffect ==
    ASSUME Core, NEW a \in Agents, claimDeliverableInbox(a)
    PROVE  /\ \A m \in Msgs :
                  \/ msg'[m] = msg[m] /\ handed'[m] = handed[m]
                  \/ msg[m] = "unread" /\ msg'[m] = "blocked" /\ handed'[m] = handed[m]
                  \/ /\ msg[m] = "unread" /\ msg'[m] = "read" /\ handed'[m] = handed[m] + 1
                     /\ posture[m] = "allow" \/ m \in granted
           /\ msg' \in [Msgs -> {"absent", "refused", "held", "unread", "read", "blocked"}]
           /\ handed' \in [Msgs -> Nat]
           /\ daemon # "up" => handed' = handed
           /\ \E asked \in SUBSET Msgs : AsksFor(asked)
           /\ UNCHANGED <<granted, opened, posture, approving, reading>>
<1>1. Claimed(a)
  BY DEF claimDeliverableInbox
<1>2. /\ \A m \in Passing(a) : m \in Msgs /\ msg[m] = "unread" /\ m \notin Blocked(a)
                               /\ (posture[m] = "allow" \/ m \in granted)
      /\ \A m \in Blocked(a) : m \in Msgs /\ msg[m] = "unread"
      /\ \A m \in Asking(a) : m \in Msgs /\ msg[m] = "unread"
  BY DEF Blocked, Asking, Passing, Unread, Decision
<1> DEFINE P == Passing(a)
           B == Blocked(a)
<1>3. /\ P # {} => daemon = "up"
      /\ msg' = [m \in Msgs |-> CASE m \in B -> "blocked" [] m \in P -> "read" [] OTHER -> msg[m]]
      /\ handed' = [m \in Msgs |-> IF m \in P THEN handed[m] + 1 ELSE handed[m]]
  BY <1>1 DEF Claimed
<1>4. \E asked \in SUBSET Asking(a) : Requested(asked, "scheduler_inbox")
  BY DEF claimDeliverableInbox
<1>5. \E asked \in SUBSET Msgs : AsksFor(asked)
  BY <1>2, <1>4 DEF Requested, AsksFor
<1>6. UNCHANGED <<granted, opened, posture, approving, reading>>
  BY DEF claimDeliverableInbox, policy
<1> HIDE DEF P, B
<1>7. \A m \in Msgs :
          \/ msg'[m] = msg[m] /\ handed'[m] = handed[m]
          \/ m \in B /\ m \notin P /\ msg'[m] = "blocked" /\ handed'[m] = handed[m]
          \/ m \in P /\ msg'[m] = "read" /\ handed'[m] = handed[m] + 1
  BY <1>2, <1>3 DEF P, B
<1>8. msg' \in [Msgs -> {"absent", "refused", "held", "unread", "read", "blocked"}]
  BY <1>3 DEF Core
<1>9. handed' \in [Msgs -> Nat]
  BY <1>3 DEF Core
<1>10. daemon # "up" => handed' = handed
  BY <1>3 DEF Core
<1>11. QED
  BY <1>2, <1>5, <1>6, <1>7, <1>8, <1>9, <1>10 DEF P, B

-----------------------------------------------------------------------------
(* The invariant is kept. *)

LEMMA SendCore ==
    ASSUME Core, NEW m \in Msgs, ToolSends(m) \/ HttpSends(m)
    PROVE  Core'
<1>1. PICK v \in {"refused", "held", "unread"} :
          /\ msg' = [msg EXCEPT ![m] = v]
          /\ approval' = IF v = "held" THEN [approval EXCEPT ![<<"send", m>>] = "pending"] ELSE approval
  BY SendEffect
<1>2. UNCHANGED <<granted, opened, posture, approving, reading, handed>>
  BY SendEffect
<1>3. QED
  BY <1>1, <1>2 DEF Core

LEMMA CorePreserved ==
    ASSUME Core, [Next]_vars
    PROVE  Core'
<1>1. ASSUME NEW m \in Msgs, ToolSends(m) PROVE Core'
  BY <1>1, SendCore
<1>2. ASSUME NEW m \in Msgs, HttpSends(m) PROVE Core'
  BY <1>2, SendCore
<1>3. ASSUME NEW a \in Agents, read_inbox(a) PROVE Core'
  BY <1>3, ReadEffect DEF Core, Attempts, Ended, AsksFor
<1>4. ASSUME NEW a \in Agents, NEW m \in Msgs, markRead(a, m) PROVE Core'
  BY <1>4, InboxAssumption DEF markRead, mail, approvals, policy, turns, Core, Attempts, Ended, AsksFor
<1>5. ASSUME NEW a \in Agents, fireInboxWake(a) PROVE Core'
  BY <1>5, InboxAssumption DEF fireInboxWake, mail, approvals, policy, turns, Core, Attempts, Ended, AsksFor
<1>6. ASSUME NEW a \in Agents, NotReady(a) PROVE Core'
  BY <1>6, InboxAssumption DEF NotReady, mail, approvals, policy, turns, Core, Attempts, Ended, AsksFor
<1>7. ASSUME NEW a \in Agents, claimDeliverableInbox(a) PROVE Core'
  BY <1>7, ClaimEffect DEF Core, Attempts, Ended, AsksFor
<1>8. ASSUME NEW a \in Agents, TurnPrepared(a) PROVE Core'
  BY <1>8, InboxAssumption DEF TurnPrepared, mail, approvals, policy, turns, Core, Attempts, Ended, AsksFor
<1>9. ASSUME NEW a \in Agents, WakeEnds(a) PROVE Core'
  BY <1>9, InboxAssumption DEF WakeEnds, mail, approvals, policy, turns, Core, Attempts, Ended, AsksFor
<1>10. ASSUME NEW k \in Attempts, claimDelivery(k) PROVE Core'
  BY <1>10, InboxAssumption DEF claimDelivery, mail, approvals, policy, turns, Core, Attempts, Ended, AsksFor
<1>11. ASSUME NEW k \in Attempts, decide(k) PROVE Core'
  BY <1>11, InboxAssumption DEF decide, mail, approvals, policy, turns, Core, Attempts, Ended, AsksFor
<1>12. ASSUME NEW k \in Attempts, finishDelivery(k) PROVE Core'
  BY <1>12, InboxAssumption DEF finishDelivery, mail, approvals, policy, turns, Core, Attempts, Ended, AsksFor
<1>13. ASSUME NEW a \in Agents, Archive(a) PROVE Core'
  BY <1>13, InboxAssumption DEF Archive, mail, approvals, policy, turns, Core, Attempts, Ended, AsksFor
<1>14. ASSUME NEW a \in Agents, OtherTurnStarts(a) PROVE Core'
  BY <1>14, InboxAssumption DEF OtherTurnStarts, mail, approvals, policy, turns, Core, Attempts, Ended, AsksFor
<1>15. ASSUME NEW a \in Agents, OtherTurnEnds(a) PROVE Core'
  BY <1>15, InboxAssumption DEF OtherTurnEnds, mail, approvals, policy, turns, Core, Attempts, Ended, AsksFor
<1>16. ASSUME NEW m \in Msgs, NEW p \in Postures, ChangePolicy(m, p) PROVE Core'
  BY <1>16, InboxAssumption DEF ChangePolicy, OtherStep, mail, approvals, policy, turns, Core, Attempts, Ended, AsksFor
<1>17. CASE Shutdown
  BY <1>17, InboxAssumption DEF Shutdown, mail, approvals, policy, turns, Core, Attempts, Ended, AsksFor
<1>18. CASE Die
  BY <1>18, InboxAssumption DEF Die, mail, approvals, policy, turns, Core, Attempts, Ended, AsksFor
<1>19. CASE Restart
  BY <1>19, InboxAssumption DEF Restart, mail, approvals, policy, turns, Core, Attempts, Ended, AsksFor
<1>20. CASE UNCHANGED vars
  BY <1>20 DEF vars, mail, approvals, policy, turns, Core, Attempts, Ended, AsksFor
<1>21. QED
  BY <1>1, <1>2, <1>3, <1>4, <1>5, <1>6, <1>7, <1>8, <1>9, <1>10, <1>11, <1>12, <1>13, <1>14, <1>15, <1>16, <1>17, <1>18, <1>19, <1>20 DEF Next, Wake, Approvals, Others

LEMMA SendApproved ==
    ASSUME Core, Approved, NEW m \in Msgs, ToolSends(m) \/ HttpSends(m)
    PROVE  Approved'
<1>1. msg[m] = "absent" /\ UNCHANGED <<granted, approving>>
  BY SendPointwise
<1>2. \A k \in approving : k # <<"send", m>>
  <2>1. approval[<<"send", m>>] # "delivering"
    BY <1>1 DEF Approved
  <2>2. QED
    BY <2>1, Zenon DEF Approved
<1>3. \A k \in approving' : approval'[k] = "delivering"
  BY <1>1, <1>2, SendPointwise DEF Approved
<1>4. /\ \/ msg'[m] = "held"
         \/ approval'[<<"send", m>>] = approval[<<"send", m>>]
      /\ \A n \in Msgs : n # m =>
             msg'[n] = msg[n] /\ approval'[<<"send", n>>] = approval[<<"send", n>>]
      /\ \A n \in Msgs : approval'[<<"inbox", n>>] = approval[<<"inbox", n>>]
  BY SendPointwise
<1>5. \A n \in Msgs : n = m => approval[<<"inbox", n>>] = "none" /\ n \notin granted
  BY <1>1 DEF Approved, Inserted
<1>6. \A n \in Msgs :
          /\ approval'[<<"send", n>>] \in {"pending", "delivering"} => msg'[n] = "held"
          /\ approval'[<<"inbox", n>>] # "none" => Inserted(n)'
          /\ n \in granted' => approval'[<<"inbox", n>>] = "delivered"
  <2> TAKE n \in Msgs
  <2>1. CASE n = m
    BY <1>1, <1>4, <1>5, <2>1 DEF Approved
  <2>2. CASE n # m
    BY <1>1, <1>4, <2>2 DEF Approved, Inserted
  <2>3. QED
    BY <2>1, <2>2
<1>7. QED
  BY <1>3, <1>6 DEF Approved

LEMMA ApprovedPreserved ==
    ASSUME Core, Approved, [Next]_vars
    PROVE  Approved'
<1>1. ASSUME NEW m \in Msgs, ToolSends(m) PROVE Approved'
  BY <1>1, SendApproved
<1>2. ASSUME NEW m \in Msgs, HttpSends(m) PROVE Approved'
  BY <1>2, SendApproved
<1>3. ASSUME NEW a \in Agents, read_inbox(a) PROVE Approved'
  BY <1>3, ReadEffect DEF Core, Approved, Attempts, Ended, Inserted, AsksFor
<1>4. ASSUME NEW a \in Agents, NEW m \in Msgs, markRead(a, m) PROVE Approved'
  BY <1>4, InboxAssumption DEF markRead, mail, approvals, policy, turns, Core, Approved, Attempts, Ended, Inserted, AsksFor
<1>5. ASSUME NEW a \in Agents, fireInboxWake(a) PROVE Approved'
  BY <1>5, InboxAssumption DEF fireInboxWake, mail, approvals, policy, turns, Core, Approved, Attempts, Ended, Inserted, AsksFor
<1>6. ASSUME NEW a \in Agents, NotReady(a) PROVE Approved'
  BY <1>6, InboxAssumption DEF NotReady, mail, approvals, policy, turns, Core, Approved, Attempts, Ended, Inserted, AsksFor
<1>7. ASSUME NEW a \in Agents, claimDeliverableInbox(a) PROVE Approved'
  BY <1>7, ClaimEffect DEF Core, Approved, Attempts, Ended, Inserted, AsksFor
<1>8. ASSUME NEW a \in Agents, TurnPrepared(a) PROVE Approved'
  BY <1>8, InboxAssumption DEF TurnPrepared, mail, approvals, policy, turns, Core, Approved, Attempts, Ended, Inserted, AsksFor
<1>9. ASSUME NEW a \in Agents, WakeEnds(a) PROVE Approved'
  BY <1>9, InboxAssumption DEF WakeEnds, mail, approvals, policy, turns, Core, Approved, Attempts, Ended, Inserted, AsksFor
<1>10. ASSUME NEW k \in Attempts, claimDelivery(k) PROVE Approved'
  <2>1. approval[k] = "pending" /\ k[2] \in Msgs /\ (k = <<"send", k[2]>> \/ k = <<"inbox", k[2]>>)
    BY <1>10 DEF claimDelivery, Attempts
  <2>2. \/ approval' = [approval EXCEPT ![k] = "delivering"] /\ approving' = approving \cup {k}
        \/ approval' = [approval EXCEPT ![k] = "denied"] /\ approving' = approving
    BY <1>10 DEF claimDelivery
  <2>3. UNCHANGED <<msg, granted>>
    BY <1>10 DEF claimDelivery, mail
  <2>4. \A l \in Attempts : l # k => approval'[l] = approval[l]
    BY <2>2 DEF Core
  <2>5. /\ approval'[k] \in {"delivering", "denied"}
        /\ k \in approving' => approval'[k] = "delivering"
    BY <2>1, <2>2 DEF Core, Approved
  <2>6. \A m \in Msgs : <<"send", m>> \in Attempts /\ <<"inbox", m>> \in Attempts
    BY DEF Attempts
  <2>7. \A m \in Msgs : approval'[<<"send", m>>] \in {"pending", "delivering"} => msg'[m] = "held"
    BY <2>1, <2>3, <2>4, <2>6 DEF Approved
  <2>8. \A m \in Msgs : approval'[<<"inbox", m>>] # "none" => Inserted(m)'
    BY <2>1, <2>3, <2>4, <2>6 DEF Approved, Inserted
  <2>9. \A m \in Msgs : m \in granted' => approval'[<<"inbox", m>>] = "delivered"
    BY <2>1, <2>3, <2>4, <2>6 DEF Approved
  <2>10. \A l \in approving' : approval'[l] = "delivering"
    BY <2>2, <2>4, <2>5 DEF Core, Approved
  <2>11. QED
    BY <2>7, <2>8, <2>9, <2>10 DEF Approved
<1>11. ASSUME NEW k \in Attempts, decide(k) PROVE Approved'
  BY <1>11, InboxAssumption DEF decide, mail, approvals, policy, turns, Core, Approved, Attempts, Ended, Inserted, AsksFor
<1>12. ASSUME NEW k \in Attempts, finishDelivery(k) PROVE Approved'
  <2>1. PICK m \in Msgs : k = <<"send", m>> \/ k = <<"inbox", m>>
    BY <1>12 DEF Attempts
  <2>2. approval[k] = "delivering" /\ k[2] = m /\ approving' = approving \ {k}
    BY <1>12, <2>1 DEF finishDelivery, Approved
  <2>3. \A n \in Msgs : <<"send", n>> \in Attempts /\ <<"inbox", n>> \in Attempts
    BY DEF Attempts
  <2>4. /\ \A l \in Attempts : l # k => approval'[l] = approval[l]
        /\ approval'[k] \in {"delivered", "failed"}
    BY <1>12 DEF finishDelivery, Core
  <2>5. \A l \in approving' : approval'[l] = "delivering"
    BY <2>2, <2>4 DEF Core, Approved
  <2>6. CASE k = <<"inbox", m>>
    <3>1. msg' = msg /\ granted' = granted \cup {m} /\ approval'[k] = "delivered"
      BY <1>12, <2>2, <2>6 DEF finishDelivery, Core
    <3>2. Inserted(m)
      BY <2>2, <2>6 DEF Approved
    <3>3. QED
      BY <2>3, <2>4, <2>5, <2>6, <3>1, <3>2 DEF Approved, Inserted
  <2>7. CASE k = <<"send", m>>
    <3>1. /\ granted' = granted /\ msg'[m] \in {"refused", "unread"}
          /\ \A n \in Msgs : n # m => msg'[n] = msg[n]
      BY <1>12, <2>2, <2>7 DEF finishDelivery, Core
    <3>2. msg[m] = "held"
      BY <2>2, <2>7 DEF Approved
    <3>3. QED
      BY <2>3, <2>4, <2>5, <2>7, <3>1, <3>2 DEF Approved, Inserted
  <2>8. QED
    BY <2>1, <2>6, <2>7
<1>13. ASSUME NEW a \in Agents, Archive(a) PROVE Approved'
  BY <1>13, InboxAssumption DEF Archive, mail, approvals, policy, turns, Core, Approved, Attempts, Ended, Inserted, AsksFor
<1>14. ASSUME NEW a \in Agents, OtherTurnStarts(a) PROVE Approved'
  BY <1>14, InboxAssumption DEF OtherTurnStarts, mail, approvals, policy, turns, Core, Approved, Attempts, Ended, Inserted, AsksFor
<1>15. ASSUME NEW a \in Agents, OtherTurnEnds(a) PROVE Approved'
  BY <1>15, InboxAssumption DEF OtherTurnEnds, mail, approvals, policy, turns, Core, Approved, Attempts, Ended, Inserted, AsksFor
<1>16. ASSUME NEW m \in Msgs, NEW p \in Postures, ChangePolicy(m, p) PROVE Approved'
  BY <1>16, InboxAssumption DEF ChangePolicy, OtherStep, mail, approvals, policy, turns, Core, Approved, Attempts, Ended, Inserted, AsksFor
<1>17. CASE Shutdown
  BY <1>17, InboxAssumption DEF Shutdown, mail, approvals, policy, turns, Core, Approved, Attempts, Ended, Inserted, AsksFor
<1>18. CASE Die
  BY <1>18, InboxAssumption DEF Die, mail, approvals, policy, turns, Core, Approved, Attempts, Ended, Inserted, AsksFor
<1>19. CASE Restart
  BY <1>19, InboxAssumption DEF Restart, mail, approvals, policy, turns, Core, Approved, Attempts, Ended, Inserted, AsksFor
<1>20. CASE UNCHANGED vars
  BY <1>20 DEF vars, mail, approvals, policy, turns, Core, Approved, Attempts, Ended, Inserted, AsksFor
<1>21. QED
  BY <1>1, <1>2, <1>3, <1>4, <1>5, <1>6, <1>7, <1>8, <1>9, <1>10, <1>11, <1>12, <1>13, <1>14, <1>15, <1>16, <1>17, <1>18, <1>19, <1>20 DEF Next, Wake, Approvals, Others

LEMMA HandedPreserved ==
    ASSUME Core, Approved, Handed, [Next]_vars
    PROVE  Handed'
<1>1. ASSUME NEW m \in Msgs, ToolSends(m) PROVE Handed'
  BY <1>1, SendPointwise DEF Handed
<1>2. ASSUME NEW m \in Msgs, HttpSends(m) PROVE Handed'
  BY <1>2, SendPointwise DEF Handed
<1>3. ASSUME NEW a \in Agents, read_inbox(a) PROVE Handed'
  BY <1>3, ReadEffect DEF Core, Approved, Handed, Attempts, AsksFor
<1>4. ASSUME NEW a \in Agents, NEW m \in Msgs, markRead(a, m) PROVE Handed'
  BY <1>4, InboxAssumption DEF markRead, mail, approvals, policy, turns, Core, Approved, Handed, Attempts, AsksFor
<1>5. ASSUME NEW a \in Agents, fireInboxWake(a) PROVE Handed'
  BY <1>5, InboxAssumption DEF fireInboxWake, mail, approvals, policy, turns, Core, Approved, Handed, Attempts, AsksFor
<1>6. ASSUME NEW a \in Agents, NotReady(a) PROVE Handed'
  BY <1>6, InboxAssumption DEF NotReady, mail, approvals, policy, turns, Core, Approved, Handed, Attempts, AsksFor
<1>7. ASSUME NEW a \in Agents, claimDeliverableInbox(a) PROVE Handed'
  BY <1>7, ClaimEffect DEF Core, Approved, Handed, Attempts, AsksFor
<1>8. ASSUME NEW a \in Agents, TurnPrepared(a) PROVE Handed'
  BY <1>8, InboxAssumption DEF TurnPrepared, mail, approvals, policy, turns, Core, Approved, Handed, Attempts, AsksFor
<1>9. ASSUME NEW a \in Agents, WakeEnds(a) PROVE Handed'
  BY <1>9, InboxAssumption DEF WakeEnds, mail, approvals, policy, turns, Core, Approved, Handed, Attempts, AsksFor
<1>10. ASSUME NEW k \in Attempts, claimDelivery(k) PROVE Handed'
  BY <1>10, InboxAssumption DEF claimDelivery, mail, approvals, policy, turns, Core, Approved, Handed, Attempts, AsksFor
<1>11. ASSUME NEW k \in Attempts, decide(k) PROVE Handed'
  BY <1>11, InboxAssumption DEF decide, mail, approvals, policy, turns, Core, Approved, Handed, Attempts, AsksFor
<1>12. ASSUME NEW k \in Attempts, finishDelivery(k) PROVE Handed'
  <2>1. PICK m \in Msgs : k = <<"send", m>> \/ k = <<"inbox", m>>
    BY <1>12 DEF Attempts
  <2>2. approval[k] = "delivering" /\ k[2] = m
    BY <1>12, <2>1 DEF finishDelivery, Approved
  <2>3. CASE k = <<"inbox", m>>
    BY <1>12, <2>1, <2>3 DEF finishDelivery, policy, turns, Core, Handed, Attempts
  <2>4. CASE k = <<"send", m>>
    <3>1. msg[m] = "held"
      BY <2>2, <2>4 DEF Approved
    <3>2. \E v \in {"refused", "unread"} :
              /\ msg' = [msg EXCEPT ![m] = v]
              /\ approval' = [approval EXCEPT ![k] = IF v = "unread" THEN "delivered" ELSE "failed"]
      <4> DEFINE v == IF HopAfter(parent[m]) > MaxHops THEN "refused" ELSE "unread"
      <4>1. msg' = [msg EXCEPT ![m] = v] /\ msg'[m] = v
        BY <1>12, <2>4 DEF finishDelivery, Core
      <4>2. approval' = [approval EXCEPT ![k] = IF v = "unread" THEN "delivered" ELSE "failed"]
        BY <1>12, <2>4, <4>1 DEF finishDelivery
      <4>3. v \in {"refused", "unread"}
        OBVIOUS
      <4>4. QED
        BY <4>1, <4>2, <4>3
    <3>3. UNCHANGED <<granted, opened, posture, reading, handed>>
      BY <1>12, <2>4 DEF finishDelivery, policy, turns
    <3>4. QED
      BY <2>4, <3>1, <3>2, <3>3 DEF policy, turns, Core, Handed, Attempts
  <2>5. QED
    BY <2>1, <2>3, <2>4
<1>13. ASSUME NEW a \in Agents, Archive(a) PROVE Handed'
  BY <1>13, InboxAssumption DEF Archive, mail, approvals, policy, turns, Core, Approved, Handed, Attempts, AsksFor
<1>14. ASSUME NEW a \in Agents, OtherTurnStarts(a) PROVE Handed'
  BY <1>14, InboxAssumption DEF OtherTurnStarts, mail, approvals, policy, turns, Core, Approved, Handed, Attempts, AsksFor
<1>15. ASSUME NEW a \in Agents, OtherTurnEnds(a) PROVE Handed'
  BY <1>15, InboxAssumption DEF OtherTurnEnds, mail, approvals, policy, turns, Core, Approved, Handed, Attempts, AsksFor
<1>16. ASSUME NEW m \in Msgs, NEW p \in Postures, ChangePolicy(m, p) PROVE Handed'
  BY <1>16, InboxAssumption DEF ChangePolicy, OtherStep, mail, approvals, policy, turns, Core, Approved, Handed, Attempts, AsksFor
<1>17. CASE Shutdown
  BY <1>17, InboxAssumption DEF Shutdown, mail, approvals, policy, turns, Core, Approved, Handed, Attempts, AsksFor
<1>18. CASE Die
  BY <1>18, InboxAssumption DEF Die, mail, approvals, policy, turns, Core, Approved, Handed, Attempts, AsksFor
<1>19. CASE Restart
  BY <1>19, InboxAssumption DEF Restart, mail, approvals, policy, turns, Core, Approved, Handed, Attempts, AsksFor
<1>20. CASE UNCHANGED vars
  BY <1>20 DEF vars, mail, approvals, policy, turns, Core, Approved, Handed, Attempts, AsksFor
<1>21. QED
  BY <1>1, <1>2, <1>3, <1>4, <1>5, <1>6, <1>7, <1>8, <1>9, <1>10, <1>11, <1>12, <1>13, <1>14, <1>15, <1>16, <1>17, <1>18, <1>19, <1>20 DEF Next, Wake, Approvals, Others

LEMMA SendShown ==
    ASSUME IInv, NEW m \in Msgs, ToolSends(m) \/ HttpSends(m)
    PROVE  Shown'
<1>1. PICK v \in {"refused", "held", "unread"} :
          /\ msg' = [msg EXCEPT ![m] = v]
          /\ approval' = IF v = "held" THEN [approval EXCEPT ![<<"send", m>>] = "pending"] ELSE approval
          /\ v = "unread" => posture[m] = "allow"
  BY SendEffect DEF IInv
<1>2. msg[m] = "absent" /\ UNCHANGED <<granted, opened, posture, reading>>
  BY SendEffect DEF IInv
<1>3. ASSUME NEW n \in Msgs \ opened
      PROVE  /\ Inserted(n)' => approval'[<<"send", n>>] = "delivered"
             /\ msg'[n] = "read" => n \in granted
  <2>1. CASE n = m
    BY <1>1, <1>2, <1>3, <2>1 DEF IInv, Core, Shown, Inserted
  <2>2. CASE n # m
    <3>1. msg'[n] = msg[n]
      BY <1>1, <2>2 DEF IInv, Core
    <3>2. approval'[<<"send", n>>] = approval[<<"send", n>>]
      BY <1>1, <2>2 DEF IInv, Core, Attempts
    <3>3. QED
      BY <1>3, <3>1, <3>2 DEF IInv, Shown, Inserted
  <2>3. QED
    BY <2>1, <2>2
<1>4. QED
  BY <1>2, <1>3 DEF IInv, Shown

LEMMA ShownPreserved ==
    ASSUME IInv, [Next]_vars
    PROVE  Shown'
<1>1. ASSUME NEW m \in Msgs, ToolSends(m) PROVE Shown'
  BY <1>1, SendShown
<1>2. ASSUME NEW m \in Msgs, HttpSends(m) PROVE Shown'
  BY <1>2, SendShown
<1>3. ASSUME NEW a \in Agents, read_inbox(a) PROVE Shown'
  <2>1. PICK asked \in SUBSET Msgs : AsksFor(asked)
    BY <1>3, ReadEffect DEF IInv
  <2>2. /\ msg' = [m \in Msgs |-> IF m \in Blocked(a) THEN "blocked" ELSE msg[m]]
        /\ \A m \in Blocked(a) : msg[m] = "unread"
        /\ reading' = reading \/ reading' = [reading EXCEPT ![a] = Passing(a)]
        /\ \A m \in Passing(a) : m \in Msgs /\ (posture[m] = "allow" \/ m \in granted)
        /\ UNCHANGED <<granted, opened, posture>>
    BY <1>3, ReadEffect DEF IInv
  <2>3. \A m \in Msgs : /\ approval'[<<"send", m>>] = approval[<<"send", m>>]
                        /\ Inserted(m)' => Inserted(m)
                        /\ msg'[m] = "read" => msg[m] = "read"
    BY <2>1, <2>2 DEF AsksFor, Attempts, Inserted, IInv, Core
  <2>4. Passing(a) \subseteq opened \cup granted
    BY <2>2 DEF IInv, Shown
  <2>5. \A b \in Agents : reading'[b] \subseteq opened \cup granted
    BY <2>2, <2>4 DEF IInv, Core, Shown
  <2>6. QED
    BY <2>2, <2>3, <2>5 DEF IInv, Shown
<1>4. ASSUME NEW a \in Agents, NEW m \in Msgs, markRead(a, m) PROVE Shown'
  BY <1>4, InboxAssumption DEF markRead, mail, approvals, policy, turns, IInv, Core, Approved, Shown, Attempts, Inserted, AsksFor
<1>5. ASSUME NEW a \in Agents, fireInboxWake(a) PROVE Shown'
  BY <1>5, InboxAssumption DEF fireInboxWake, mail, approvals, policy, turns, IInv, Core, Approved, Shown, Attempts, Inserted, AsksFor
<1>6. ASSUME NEW a \in Agents, NotReady(a) PROVE Shown'
  BY <1>6, InboxAssumption DEF NotReady, mail, approvals, policy, turns, IInv, Core, Approved, Shown, Attempts, Inserted, AsksFor
<1>7. ASSUME NEW a \in Agents, claimDeliverableInbox(a) PROVE Shown'
  BY <1>7, ClaimEffect DEF IInv, Core, Approved, Shown, Attempts, Inserted, AsksFor
<1>8. ASSUME NEW a \in Agents, TurnPrepared(a) PROVE Shown'
  BY <1>8, InboxAssumption DEF TurnPrepared, mail, approvals, policy, turns, IInv, Core, Approved, Shown, Attempts, Inserted, AsksFor
<1>9. ASSUME NEW a \in Agents, WakeEnds(a) PROVE Shown'
  BY <1>9, InboxAssumption DEF WakeEnds, mail, approvals, policy, turns, IInv, Core, Approved, Shown, Attempts, Inserted, AsksFor
<1>10. ASSUME NEW k \in Attempts, claimDelivery(k) PROVE Shown'
  BY <1>10, InboxAssumption DEF claimDelivery, mail, approvals, policy, turns, IInv, Core, Approved, Shown, Attempts, Inserted, AsksFor
<1>11. ASSUME NEW k \in Attempts, decide(k) PROVE Shown'
  BY <1>11, InboxAssumption DEF decide, mail, approvals, policy, turns, IInv, Core, Approved, Shown, Attempts, Inserted, AsksFor
<1>12. ASSUME NEW k \in Attempts, finishDelivery(k) PROVE Shown'
  <2>1. PICK m \in Msgs : k = <<"send", m>> \/ k = <<"inbox", m>>
    BY <1>12 DEF Attempts
  <2>2. approval[k] = "delivering" /\ k[2] = m
    BY <1>12, <2>1 DEF finishDelivery, IInv, Approved
  <2>3. CASE k = <<"inbox", m>>
    BY <1>12, <2>1, <2>3 DEF finishDelivery, policy, turns, IInv, Core, Shown, Attempts, Inserted
  <2>4. CASE k = <<"send", m>>
    <3>1. msg[m] = "held"
      BY <2>2, <2>4 DEF IInv, Approved
    <3>2. \E v \in {"refused", "unread"} :
              /\ msg' = [msg EXCEPT ![m] = v]
              /\ approval' = [approval EXCEPT ![k] = IF v = "unread" THEN "delivered" ELSE "failed"]
      <4> DEFINE v == IF HopAfter(parent[m]) > MaxHops THEN "refused" ELSE "unread"
      <4>1. msg' = [msg EXCEPT ![m] = v] /\ msg'[m] = v
        BY <1>12, <2>4 DEF finishDelivery, IInv, Core
      <4>2. approval' = [approval EXCEPT ![k] = IF v = "unread" THEN "delivered" ELSE "failed"]
        BY <1>12, <2>4, <4>1 DEF finishDelivery
      <4>3. v \in {"refused", "unread"}
        OBVIOUS
      <4>4. QED
        BY <4>1, <4>2, <4>3
    <3>3. UNCHANGED <<granted, opened, posture, reading, handed>>
      BY <1>12, <2>4 DEF finishDelivery, policy, turns
    <3>4. QED
      BY <2>4, <3>1, <3>2, <3>3 DEF policy, turns, IInv, Core, Shown, Attempts, Inserted
  <2>5. QED
    BY <2>1, <2>3, <2>4
<1>13. ASSUME NEW a \in Agents, Archive(a) PROVE Shown'
  BY <1>13, InboxAssumption DEF Archive, mail, approvals, policy, turns, IInv, Core, Approved, Shown, Attempts, Inserted, AsksFor
<1>14. ASSUME NEW a \in Agents, OtherTurnStarts(a) PROVE Shown'
  BY <1>14, InboxAssumption DEF OtherTurnStarts, mail, approvals, policy, turns, IInv, Core, Approved, Shown, Attempts, Inserted, AsksFor
<1>15. ASSUME NEW a \in Agents, OtherTurnEnds(a) PROVE Shown'
  BY <1>15, InboxAssumption DEF OtherTurnEnds, mail, approvals, policy, turns, IInv, Core, Approved, Shown, Attempts, Inserted, AsksFor
<1>16. ASSUME NEW m \in Msgs, NEW p \in Postures, ChangePolicy(m, p) PROVE Shown'
  BY <1>16, InboxAssumption DEF ChangePolicy, OtherStep, mail, approvals, policy, turns, IInv, Core, Approved, Shown, Attempts, Inserted, AsksFor
<1>17. CASE Shutdown
  BY <1>17, InboxAssumption DEF Shutdown, mail, approvals, policy, turns, IInv, Core, Approved, Shown, Attempts, Inserted, AsksFor
<1>18. CASE Die
  BY <1>18, InboxAssumption DEF Die, mail, approvals, policy, turns, IInv, Core, Approved, Shown, Attempts, Inserted, AsksFor
<1>19. CASE Restart
  BY <1>19, InboxAssumption DEF Restart, mail, approvals, policy, turns, IInv, Core, Approved, Shown, Attempts, Inserted, AsksFor
<1>20. CASE UNCHANGED vars
  BY <1>20 DEF vars, mail, approvals, policy, turns, IInv, Core, Approved, Shown, Attempts, Inserted, AsksFor
<1>21. QED
  BY <1>1, <1>2, <1>3, <1>4, <1>5, <1>6, <1>7, <1>8, <1>9, <1>10, <1>11, <1>12, <1>13, <1>14, <1>15, <1>16, <1>17, <1>18, <1>19, <1>20 DEF Next, Wake, Approvals, Others

LEMMA Invariance == Spec => []IInv
<1>1. Init => IInv
  BY InboxAssumption DEF Init, IInv, Core, Approved, Handed, Shown, Attempts, Ended, Inserted
<1>2. IInv /\ [Next]_vars => IInv'
  BY CorePreserved, ApprovedPreserved, HandedPreserved, ShownPreserved DEF IInv
<1>3. QED
  BY <1>1, <1>2, PTL DEF Spec

-----------------------------------------------------------------------------
(* Theorems. *)

\* A message is in the prompt of one wake turn at most.
THEOREM HandedAtMostOnce == Spec => []HandedOnce
<1>1. IInv => HandedOnce
  BY DEF IInv, Handed, HandedOnce
<1>2. QED
  BY Invariance, <1>1, PTL

\* What the policy never allowed waits for both of its approvals.
THEOREM ApprovedFirst == Spec => []HeldUntilApproved
<1>1. IInv => HeldUntilApproved
  BY DEF IInv, Approved, Shown, HeldUntilApproved
<1>2. QED
  BY Invariance, <1>1, PTL

\* A daemon that is stopping consumes no message.
THEOREM NothingConsumed == Spec => StoppingConsumesNothing
<1>1. ASSUME IInv, [Next]_vars, daemon # "up" PROVE handed' = handed
  <2>1. ASSUME NEW m \in Msgs, ToolSends(m) \/ HttpSends(m) PROVE handed' = handed
    BY <2>1 DEF ToolSends, HttpSends
  <2>2. ASSUME NEW a \in Agents, claimDeliverableInbox(a) PROVE handed' = handed
    BY <1>1, <2>2, ClaimEffect DEF IInv
  <2>3. ASSUME NEW a \in Agents,
               fireInboxWake(a) \/ NotReady(a) \/ TurnPrepared(a) \/ WakeEnds(a) \/ read_inbox(a)
        PROVE  handed' = handed
    BY <2>3 DEF fireInboxWake, NotReady, TurnPrepared, WakeEnds, read_inbox
  <2>4. ASSUME NEW a \in Agents, NEW m \in Msgs, markRead(a, m) PROVE handed' = handed
    BY <2>4 DEF markRead
  <2>5. CASE Approvals
    BY <2>5 DEF Approvals, claimDelivery, decide, finishDelivery
  <2>6. CASE Others
    BY <2>6 DEF Others, Archive, OtherTurnStarts, OtherTurnEnds, ChangePolicy, Shutdown, Die, Restart
  <2>7. CASE UNCHANGED vars
    BY <2>7 DEF vars
  <2>8. QED
    BY <1>1, <2>1, <2>2, <2>3, <2>4, <2>5, <2>6, <2>7 DEF Next, Wake
<1>2. IInv /\ [Next]_vars => [daemon # "up" => handed' = handed]_vars
  BY <1>1
<1>3. QED
  BY Invariance, <1>2, PTL DEF Spec, StoppingConsumesNothing

-----------------------------------------------------------------------------
(* Types. *)

\* Bounded naturals have a largest one.
LEMMA LargestOf ==
    ASSUME NEW S, S \subseteq Nat, S # {}, NEW b \in Nat, \A x \in S : x <= b
    PROVE  Max(S) \in S /\ \A x \in S : x <= Max(S)
<1> DEFINE Gaps == {n \in Nat : b - n \in S}
<1>1. PICK s \in S : s \in Nat /\ s <= b
  OBVIOUS
<1>2. b - s \in Gaps
  BY <1>1
<1>3. PICK g \in Gaps : \A h \in Gaps : <<h, g>> \notin OpToRel(<, Nat)
  <2>1. Gaps \subseteq Nat /\ Gaps # {}
    BY <1>2
  <2> HIDE DEF Gaps
  <2>2. QED
    BY <2>1, NatLessThanWellFounded, WFMin, Zenon
<1>4. \A h \in Gaps : ~(h < g)
  BY <1>3 DEF OpToRel
<1>5. ASSUME NEW x \in S PROVE b - g >= x
  <2>1. b - x \in Gaps /\ x \in Nat /\ g \in Nat
    BY <1>5
  <2>2. QED
    BY <1>4, <2>1
<1>6. b - g \in S
  OBVIOUS
<1>7. \E x \in S : \A y \in S : x >= y
  BY <1>5, <1>6
<1>8. Max(S) \in S /\ \A y \in S : Max(S) >= y
  BY <1>7 DEF Max
<1>9. QED
  BY <1>8

\* The part of the type invariant that the arguments above do without, and what it takes: the
\* prompt of a wake turn is never empty, and so many wakes as lie behind any message there are.
Rest ==
    /\ parent \in [Msgs -> Msgs \cup {"none"}]
    /\ origin \in [Msgs -> {"none", "agent_inbox", "scheduler_inbox"}]
    /\ stale \subseteq Attempts
    /\ archived \subseteq Agents /\ other \subseteq Agents
    /\ daemon \in {"up", "stopping", "down"}
    /\ wake \in [Agents -> {"idle", "preparing", "handed", "running"}]
    /\ prompt \in [Agents -> SUBSET Msgs]
    /\ depth \in [Msgs -> Nat]
    /\ deaths \in Nat /\ failures \in Nat /\ others \in Nat

Prompted == \A a \in Agents : wake[a] \in {"handed", "running"} => prompt[a] # {}
Bounded  == \E b \in Nat : \A m \in Msgs : depth[m] <= b

\* What a message of a wake turn has behind it is one more than the most its prompt has.
LEMMA BehindFacts ==
    ASSUME Rest, Prompted, Bounded, NEW a \in Agents
    PROVE  /\ Behind(a) \in Nat
           /\ wake[a] # "running" => Behind(a) = 0
           /\ wake[a] = "running" => \E n \in prompt[a] : Behind(a) = 1 + depth[n]
<1>1. CASE wake[a] # "running"
  BY <1>1 DEF Behind
<1>2. CASE wake[a] = "running"
  <2> DEFINE D == {depth[n] : n \in prompt[a]}
  <2>1. PICK b \in Nat : \A m \in Msgs : depth[m] <= b
    BY DEF Bounded
  <2>2. D \subseteq Nat /\ D # {} /\ \A x \in D : x <= b
    BY <1>2, <2>1 DEF Rest, Prompted
  <2>3. Behind(a) = 1 + Max(D)
    BY <1>2 DEF Behind
  <2> HIDE DEF D
  <2>4. Max(D) \in D
    BY <2>2, LargestOf
  <2>5. Max(D) \in Nat
    BY <2>2, <2>4
  <2>6. \E n \in prompt[a] : Max(D) = depth[n]
    BY <2>4 DEF D
  <2>7. QED
    BY <1>2, <2>3, <2>5, <2>6
<1>3. QED
  BY <1>1, <1>2

\* A message is sent with a parent its sender could know of, and no message changes its own.
Sent(m, p, d) ==
    /\ msg[m] = "absent"
    /\ parent' = [parent EXCEPT ![m] = p] /\ depth' = [depth EXCEPT ![m] = d]
    /\ UNCHANGED <<origin, stale, archived, other, daemon, wake, prompt, deaths, failures, others>>

\* What a sending writes, and which parent it names.
LEMMA SentFacts ==
    ASSUME Rest, Prompted, Bounded, NEW m \in Msgs, ToolSends(m) \/ HttpSends(m)
    PROVE  \E p \in Msgs \cup {"none"}, d \in Nat, known \in BOOLEAN :
               /\ sendAgentMessage(m, p, known) /\ Sent(m, p, d)
               /\ \/ p = "none" /\ (d = 0 \/ d = depth[m])
                  \/ p \in ReplyTargets
                  \/ /\ wake[FromOf[m]] = "running" /\ p \in selectCausalParent(FromOf[m])
                     /\ p \in prompt[FromOf[m]]
                     /\ \E n \in prompt[FromOf[m]] : d = 1 + depth[n]
<1> DEFINE a == FromOf[m]
<1>0. a \in Agents /\ ReplyTargets \subseteq Msgs
  BY InboxAssumption DEF ReplyTargets
<1>1. CASE ToolSends(m)
  <2>1. PICK p \in ReplyTargets \cup (IF wake[a] = "running" THEN selectCausalParent(a) ELSE {"none"}) :
            sendAgentMessage(m, p, FALSE)
    BY <1>1 DEF ToolSends
  <2>2. Sent(m, p, Behind(a))
    BY <1>1, <2>1 DEF ToolSends, sendAgentMessage, Sent, policy, turns, bounds
  <2>3. Behind(a) \in Nat
    BY <1>0, BehindFacts
  <2>4. CASE p \in ReplyTargets
    BY <1>0, <2>1, <2>2, <2>3, <2>4
  <2>5. CASE wake[a] # "running" /\ p = "none"
    <3>1. Behind(a) = 0
      BY <1>0, <2>5, BehindFacts
    <3>2. QED
      BY <2>1, <2>2, <2>3, <2>5, <3>1
  <2>6. CASE wake[a] = "running" /\ p \in selectCausalParent(a)
    <3>1. prompt[a] # {} /\ prompt[a] \subseteq Msgs
      BY <1>0, <2>6 DEF Prompted, Rest
    <3>2. p \in prompt[a]
      BY <2>6, <3>1 DEF selectCausalParent
    <3>3. \E n \in prompt[a] : Behind(a) = 1 + depth[n]
      BY <1>0, <2>6, BehindFacts
    <3>4. QED
      BY <2>1, <2>2, <2>3, <2>6, <3>1, <3>2, <3>3
  <2>7. QED
    BY <2>1, <2>4, <2>5, <2>6
<1>2. CASE HttpSends(m)
  <2>1. PICK p \in {"none"} \cup ReplyTargets, known \in BOOLEAN : sendAgentMessage(m, p, known)
    BY <1>2 DEF HttpSends
  <2>2. depth[m] \in Nat /\ depth = [depth EXCEPT ![m] = depth[m]]
    BY DEF Rest
  <2>3. Sent(m, p, depth[m])
    BY <1>2, <2>1, <2>2 DEF HttpSends, sendAgentMessage, Sent, policy, turns, bounds
  <2>4. QED
    BY <1>0, <2>1, <2>2, <2>3
<1>3. QED
  BY <1>1, <1>2

Typed == Rest /\ Prompted /\ Bounded

\* Every step keeps that part.
LEMMA TypedStep == ASSUME Core, Typed, [Next]_vars PROVE Typed'
<1> USE DEF Typed, mail, approvals, policy, turns, bounds
<1>1. ASSUME NEW m \in Msgs, ToolSends(m) \/ HttpSends(m) PROVE Typed'
  <2>1. PICK p \in Msgs \cup {"none"}, d \in Nat : Sent(m, p, d)
    BY <1>1, SentFacts
  <2>2. Rest' /\ Prompted'
    BY <2>1 DEF Sent, Rest, Prompted
  <2>3. PICK b \in Nat : \A n \in Msgs : depth[n] <= b
    BY DEF Bounded
  <2>4. \A n \in Msgs : depth'[n] <= b + d
    BY <2>1, <2>3 DEF Sent, Rest
  <2>5. Bounded'
    BY <2>3, <2>4 DEF Bounded
  <2>6. QED
    BY <2>2, <2>5
<1>2. ASSUME depth' = depth PROVE Bounded'
  BY <1>2 DEF Bounded
<1>3. ASSUME NEW a \in Agents, read_inbox(a) \/ (\E m \in Msgs : markRead(a, m)) PROVE Typed'
  <2>1. UNCHANGED <<parent, depth, stale, archived, other, daemon, wake, prompt, deaths, failures, others>>
    BY <1>3 DEF read_inbox, markRead
  <2>2. origin' = origin \/ \E asked : Requested(asked, "agent_inbox")
    BY <1>3 DEF read_inbox, markRead
  <2>3. origin' \in [Msgs -> {"none", "agent_inbox", "scheduler_inbox"}]
    BY <2>2 DEF Requested, Rest
  <2>4. QED
    BY <1>2, <2>1, <2>3 DEF Rest, Prompted
<1>4. ASSUME NEW a \in Agents, claimDeliverableInbox(a) PROVE Typed'
  <2>1. UNCHANGED <<parent, depth, stale, archived, other, daemon, deaths, failures, others>>
    BY <1>4 DEF claimDeliverableInbox
  <2>2. \E asked : Requested(asked, "scheduler_inbox")
    BY <1>4 DEF claimDeliverableInbox
  <2>3. origin' \in [Msgs -> {"none", "agent_inbox", "scheduler_inbox"}]
    BY <2>2 DEF Requested, Rest
  <2>4. Passing(a) \subseteq Msgs
    BY DEF Passing, Unread
  <2>5. \/ /\ wake' = [wake EXCEPT ![a] = IF Passing(a) = {} THEN "idle" ELSE "handed"]
           /\ prompt' = [prompt EXCEPT ![a] = Passing(a)]
        \/ wake' = [wake EXCEPT ![a] = "idle"] /\ prompt' = prompt
    BY <1>4 DEF claimDeliverableInbox
  <2>6. /\ wake' \in [Agents -> {"idle", "preparing", "handed", "running"}]
        /\ prompt' \in [Agents -> SUBSET Msgs]
        /\ Prompted'
    BY <2>4, <2>5 DEF Rest, Prompted
  <2>7. QED
    BY <1>2, <2>1, <2>3, <2>6 DEF Rest
<1>5. ASSUME NEW a \in Agents, fireInboxWake(a) \/ NotReady(a) \/ TurnPrepared(a) \/ WakeEnds(a) PROVE Typed'
  BY <1>2, <1>5 DEF fireInboxWake, NotReady, TurnPrepared, WakeEnds, Rest, Prompted
<1>6. ASSUME NEW k \in Attempts, claimDelivery(k) \/ decide(k) \/ finishDelivery(k) PROVE Typed'
  BY <1>2, <1>6 DEF claimDelivery, decide, finishDelivery, Rest, Prompted
<1>7. ASSUME NEW a \in Agents, Archive(a) \/ OtherTurnStarts(a) \/ OtherTurnEnds(a) PROVE Typed'
  BY <1>2, <1>7 DEF Archive, OtherTurnStarts, OtherTurnEnds, OtherStep, Rest, Prompted
<1>8. ASSUME NEW m \in Msgs, NEW p \in Postures, ChangePolicy(m, p) PROVE Typed'
  BY <1>2, <1>8 DEF ChangePolicy, OtherStep, Rest, Prompted
<1>9. CASE Shutdown \/ Die \/ Restart
  BY <1>2, <1>9 DEF Shutdown, Die, Restart, Rest, Prompted
<1>10. CASE UNCHANGED vars
  BY <1>2, <1>10 DEF vars, Rest, Prompted
<1>11. QED
  BY <1>1, <1>3, <1>4, <1>5, <1>6, <1>7, <1>8, <1>9, <1>10 DEF Next, Wake, Approvals, Others

LEMMA AlwaysTyped == Spec => []Typed
<1>1. Init => Typed
  <2>1. Init => \A m \in Msgs : depth[m] <= 0
    BY DEF Init
  <2>2. Init => Bounded
    BY <2>1 DEF Bounded
  <2>3. QED
    BY <2>2 DEF Init, Typed, Rest, Prompted
<1>2. IInv /\ Typed /\ [Next]_vars => Typed'
  BY TypedStep DEF IInv
<1>3. QED
  BY Invariance, <1>1, <1>2, PTL DEF Spec

\* Rows, wakes and prompts stay in their domains, and what lies behind a message is a number:
\* a turn never sends on an empty prompt.
THEOREM TypeCorrect == Spec => []TypeOK
<1>1. IInv /\ Typed => TypeOK
  BY DEF IInv, Core, Typed, Rest, TypeOK
<1>2. QED
  BY Invariance, AlwaysTyped, <1>1, PTL

-----------------------------------------------------------------------------
(* Chains of messages. *)

\* The numbers that count the parents of every message, given what each one's parent is.
Counts(f, up) == f = [m \in Msgs |-> IF up[m] = "none" THEN 0 ELSE f[up[m]] + 1]

\* There is one way to count them, because a parent is there before its message and is never
\* changed: `hop', a recursive function, is what its equation says.
Countable(up) ==
    /\ \E f \in [Msgs -> Nat] : Counts(f, up)
    /\ \A f, g : Counts(f, up) /\ Counts(g, up) => f = g

\* Nothing descends from a message that is not there, and nothing is shown of it.
Rooted ==
    /\ \A m \in Msgs : msg[m] = "absent" => parent[m] = "none" /\ \A n \in Msgs : parent[n] # m
    /\ \A a \in Agents : \A m \in prompt[a] : msg[m] # "absent"
    /\ Countable(parent)

\* The hops of all messages are the one way to count.
LEMMA HopCounts ==
    ASSUME Countable(parent)
    PROVE  /\ hop \in [Msgs -> Nat] /\ Counts(hop, parent)
           /\ \A f : Counts(f, parent) => f = hop
<1>1. PICK f \in [Msgs -> Nat] : Counts(f, parent)
  BY DEF Countable
<1>2. hop = CHOOSE g : Counts(g, parent)
  BY DEF hop, Counts
<1>3. Counts(hop, parent)
  BY <1>1, <1>2
<1>4. QED
  BY <1>1, <1>3 DEF Countable

\* A new message is counted after its parent, and no other count changes.
LEMMA HopOfNew ==
    ASSUME Rest, Rooted, NEW m \in Msgs, msg[m] = "absent",
           NEW p \in Msgs \cup {"none"}, p = "none" \/ msg[p] # "absent",
           parent' = [parent EXCEPT ![m] = p]
    PROVE  Countable(parent') /\ hop' = [hop EXCEPT ![m] = HopAfter(p)]
<1>0. /\ parent \in [Msgs -> Msgs \cup {"none"}] /\ parent[m] = "none" /\ p # m
      /\ \A n \in Msgs : parent[n] # m
      /\ "none" \notin Msgs
  BY InboxAssumption DEF Rest, Rooted
<1>1. /\ hop \in [Msgs -> Nat] /\ Counts(hop, parent)
      /\ \A f : Counts(f, parent) => f = hop
  BY HopCounts DEF Rooted
<1> DEFINE new == [hop EXCEPT ![m] = HopAfter(p)]
<1>2. HopAfter(p) \in Nat
  BY <1>1 DEF HopAfter
<1>3. /\ new \in [Msgs -> Nat] /\ new[m] = HopAfter(p)
      /\ \A n \in Msgs : n # m => new[n] = hop[n]
  BY <1>1, <1>2
<1>4. parent'[m] = p /\ \A n \in Msgs : n # m => parent'[n] = parent[n]
  BY <1>0
<1> HIDE DEF new
<1>5. \A n \in Msgs : hop[n] = IF parent[n] = "none" THEN 0 ELSE hop[parent[n]] + 1
  BY <1>1 DEF Counts
<1>6. Counts(new, parent')
  <2>1. ASSUME NEW n \in Msgs
        PROVE  new[n] = IF parent'[n] = "none" THEN 0 ELSE new[parent'[n]] + 1
    <3>1. CASE n = m
      BY <1>0, <1>3, <1>4, <3>1 DEF HopAfter
    <3>2. CASE n # m
      <4>1. parent'[n] = parent[n] /\ new[n] = hop[n] /\ parent[n] \in Msgs \cup {"none"} /\ parent[n] # m
        BY <1>0, <1>3, <1>4, <3>2
      <4>2. parent[n] # "none" => new[parent[n]] = hop[parent[n]]
        BY <1>3, <4>1
      <4>3. QED
        BY <1>5, <4>1, <4>2
    <3>3. QED
      BY <3>1, <3>2
  <2>2. new = [n \in Msgs |-> new[n]]
    BY <1>3
  <2>3. QED
    BY <2>1, <2>2 DEF Counts
<1>7. ASSUME NEW f, Counts(f, parent') PROVE f = new
  <2> DEFINE old == [f EXCEPT ![m] = 0]
  <2>1. /\ f = [n \in Msgs |-> f[n]]
        /\ \A n \in Msgs : f[n] = IF parent'[n] = "none" THEN 0 ELSE f[parent'[n]] + 1
    BY <1>7 DEF Counts
  <2>2. /\ old = [n \in Msgs |-> old[n]] /\ old[m] = 0
        /\ \A n \in Msgs : n # m => old[n] = f[n]
    BY <2>1
  <2> HIDE DEF old
  <2>3. ASSUME NEW n \in Msgs
        PROVE  old[n] = IF parent[n] = "none" THEN 0 ELSE old[parent[n]] + 1
    <3>1. CASE n = m
      BY <1>0, <2>2, <3>1
    <3>2. CASE n # m
      <4>1. parent'[n] = parent[n] /\ old[n] = f[n] /\ parent[n] \in Msgs \cup {"none"} /\ parent[n] # m
        BY <1>0, <1>4, <2>2, <3>2
      <4>2. parent[n] # "none" => old[parent[n]] = f[parent[n]]
        BY <2>2, <4>1
      <4>3. QED
        BY <2>1, <4>1, <4>2
    <3>3. QED
      BY <3>1, <3>2
  <2>4. old = hop
    BY <1>1, <2>2, <2>3 DEF Counts
  <2>5. \A n \in Msgs : n # m => f[n] = new[n]
    BY <1>3, <2>2, <2>4
  <2>6. f[m] = new[m]
    BY <1>0, <1>3, <1>4, <2>1, <2>5 DEF HopAfter
  <2>7. new = [n \in Msgs |-> new[n]]
    BY <1>3
  <2>8. QED
    BY <2>1, <2>5, <2>6, <2>7
<1>8. Countable(parent')
  BY <1>3, <1>6, <1>7 DEF Countable
<1>9. hop' = new
  <2>1. hop' = CHOOSE g : Counts(g, parent')
    BY DEF hop, Counts
  <2>2. QED
    BY <1>6, <1>7, <2>1
<1>10. QED
  BY <1>8, <1>9 DEF new

\* What keeps the chains as they are: no parent changes, no message comes or goes, and a
\* prompt has only messages that are there.
Kept ==
    /\ UNCHANGED <<parent, depth>>
    /\ \A m \in Msgs : msg'[m] = "absent" <=> msg[m] = "absent"
    /\ \A a \in Agents : \A m \in prompt'[a] : m \in prompt[a] \/ (m \in Msgs /\ msg[m] # "absent")

\* The steps that neither send nor deliver keep them.
LEMMA KeptOrSent ==
    ASSUME Core, Rest, [Next]_vars
    PROVE  \/ \E m \in Msgs : ToolSends(m) \/ HttpSends(m)
           \/ Kept /\ \A m \in Msgs : Inserted(m)' => Inserted(m)
           \/ \E k \in Attempts : finishDelivery(k)
<1> DEFINE Still == Kept /\ \A m \in Msgs : Inserted(m)' => Inserted(m)
<1> USE DEF mail, approvals, policy, turns, bounds
<1>1. ASSUME UNCHANGED <<parent, depth, msg>>, \A a \in Agents : prompt'[a] \subseteq prompt[a]
      PROVE  Still
  BY <1>1 DEF Kept, Inserted, Core
<1>2. ASSUME NEW a \in Agents, read_inbox(a) PROVE Still
  <2>1. /\ msg' = [m \in Msgs |-> IF m \in Blocked(a) THEN "blocked" ELSE msg[m]]
        /\ \A m \in Blocked(a) : msg[m] = "unread"
    BY <1>2, ReadEffect
  <2>2. \A m \in Msgs : msg'[m] = msg[m] \/ (msg[m] = "unread" /\ msg'[m] = "blocked")
    BY <2>1
  <2>3. UNCHANGED <<parent, depth, prompt>>
    BY <1>2 DEF read_inbox
  <2>4. QED
    BY <2>2, <2>3 DEF Kept, Inserted, Rest
<1>3. ASSUME NEW a \in Agents, claimDeliverableInbox(a) PROVE Still
  <2>1. \A m \in Msgs : msg'[m] = msg[m] \/ (msg[m] = "unread" /\ msg'[m] \in {"blocked", "read"})
    BY <1>3, ClaimEffect
  <2>2. Passing(a) \subseteq {m \in Msgs : msg[m] = "unread"}
    BY DEF Passing, Unread
  <2>3. UNCHANGED <<parent, depth>> /\ prompt' \in {prompt, [prompt EXCEPT ![a] = Passing(a)]}
    BY <1>3 DEF claimDeliverableInbox
  <2>4. \A b \in Agents : \A m \in prompt'[b] : m \in prompt[b] \/ m \in Passing(a)
    BY <2>3 DEF Rest
  <2>5. QED
    BY <2>1, <2>2, <2>3, <2>4 DEF Kept, Inserted
<1>4. ASSUME NEW a \in Agents, NEW m \in Msgs, markRead(a, m) PROVE Still
  BY <1>4 DEF markRead, Kept, Inserted, Core
<1>5. ASSUME NEW a \in Agents, fireInboxWake(a) \/ NotReady(a) \/ TurnPrepared(a) \/ WakeEnds(a) PROVE Still
  BY <1>1, <1>5 DEF fireInboxWake, NotReady, TurnPrepared, WakeEnds, Rest
<1>6. ASSUME NEW k \in Attempts, claimDelivery(k) \/ decide(k) PROVE Still
  <2>1. k[2] \in Msgs
    BY DEF Attempts
  <2>2. QED
    BY <1>6, <2>1 DEF claimDelivery, decide, Kept, Inserted, Core, Rest
<1>7. ASSUME NEW a \in Agents, Archive(a) \/ OtherTurnStarts(a) \/ OtherTurnEnds(a) PROVE Still
  BY <1>1, <1>7 DEF Archive, OtherTurnStarts, OtherTurnEnds, Rest
<1>8. ASSUME NEW m \in Msgs, NEW p \in Postures, ChangePolicy(m, p) PROVE Still
  BY <1>1, <1>8 DEF ChangePolicy
<1>9. CASE Shutdown \/ Die \/ Restart \/ UNCHANGED vars
  BY <1>1, <1>9 DEF Shutdown, Die, Restart, vars, Rest
<1>10. QED
  BY <1>2, <1>3, <1>4, <1>5, <1>6, <1>7, <1>8, <1>9 DEF Next, Wake, Approvals, Others

\* The hop of a message is that of its parent and one.
LEMMA HopOfParent ==
    ASSUME Countable(parent), NEW m \in Msgs
    PROVE  hop[m] = HopAfter(parent[m]) /\ hop[m] \in Nat
  BY HopCounts DEF Counts, HopAfter

\* Every step keeps the hops within the limit.
LEMMA WithinStep ==
    ASSUME Core, Approved, Typed, Rooted, HopsWithinLimit, [Next]_vars
    PROVE  Rooted' /\ HopsWithinLimit'
<1> USE DEF Typed
<1>0. MaxHops \in Nat
  BY InboxAssumption
<1>1. ASSUME NEW m \in Msgs, ToolSends(m) \/ HttpSends(m) PROVE Rooted' /\ HopsWithinLimit'
  <2>1. PICK p \in Msgs \cup {"none"}, d \in Nat, known \in BOOLEAN :
            /\ sendAgentMessage(m, p, known) /\ Sent(m, p, d)
            /\ p # "none" => \/ p \in ReplyTargets
                             \/ p \in prompt[FromOf[m]]
    BY <1>1, SentFacts
  <2>2. p = "none" \/ msg[p] # "absent"
    BY <2>1, InboxAssumption DEF ReplyTargets, Inserted, Rooted
  <2>3. Countable(parent') /\ hop' = [hop EXCEPT ![m] = HopAfter(p)]
    BY <2>1, <2>2, HopOfNew DEF Sent
  <2>4. hop \in [Msgs -> Nat] /\ HopAfter(p) \in Nat
    BY HopCounts DEF Rooted, HopAfter
  <2>5. /\ msg' = [msg EXCEPT ![m] = msg'[m]] /\ msg'[m] # "absent"
        /\ msg'[m] \in {"unread", "read", "blocked"} => HopAfter(p) <= MaxHops
    BY <1>0, <2>1, <2>4 DEF sendAgentMessage, Core
  <2>6. HopsWithinLimit'
    BY <2>3, <2>4, <2>5 DEF HopsWithinLimit, Inserted, Core
  <2>7. \A n \in Msgs : msg'[n] = "absent" => msg[n] = "absent" /\ n # m
    BY <2>5 DEF Core
  <2>8. \A n \in Msgs : msg'[n] = "absent" => parent'[n] = "none" /\ \A k \in Msgs : parent'[k] # n
    BY <2>1, <2>2, <2>7, InboxAssumption DEF Sent, Rest, Rooted
  <2>9. \A a \in Agents : \A n \in prompt'[a] : msg'[n] # "absent"
    <3>1. prompt' = prompt /\ \A a \in Agents : prompt[a] \subseteq Msgs
      BY <2>1 DEF Sent, Rest
    <3>2. QED
      BY <2>7, <3>1 DEF Rooted
  <2>10. QED
    BY <2>3, <2>6, <2>8, <2>9 DEF Rooted
<1>2. ASSUME Kept PROVE Rooted' /\ hop' = hop
  <2>1. hop' = hop
    BY <1>2 DEF Kept, hop
  <2>2. \A a \in Agents : prompt[a] \subseteq Msgs
    BY DEF Rest
  <2>3. \A a \in Agents : \A m \in prompt'[a] : msg'[m] # "absent"
    BY <1>2, <2>2 DEF Kept, Rooted
  <2>4. QED
    BY <1>2, <2>1, <2>3 DEF Kept, Rooted
<1>3. CASE Kept /\ \A m \in Msgs : Inserted(m)' => Inserted(m)
  BY <1>2, <1>3 DEF HopsWithinLimit
<1>4. ASSUME NEW k \in Attempts, finishDelivery(k) PROVE Rooted' /\ HopsWithinLimit'
  <2>1. k[2] \in Msgs
    BY DEF Attempts
  <2>2. /\ UNCHANGED <<parent, depth, prompt>>
        /\ \/ msg' = msg
           \/ /\ k[1] # "inbox" /\ msg' = [msg EXCEPT ![k[2]] = msg'[k[2]]]
              /\ \/ msg'[k[2]] = "refused"
                 \/ msg'[k[2]] = "unread" /\ ~(HopAfter(parent[k[2]]) > MaxHops)
    BY <1>4, <2>1 DEF finishDelivery, turns, Core
  <2>3. k[1] # "inbox" => msg[k[2]] = "held"
    <3>1. k \in approving /\ approval[k] = "delivering"
      BY <1>4 DEF finishDelivery, Approved
    <3>2. k[1] # "inbox" => k = <<"send", k[2]>>
      BY DEF Attempts
    <3>3. QED
      BY <2>1, <3>1, <3>2 DEF Approved
  <2>4. \A m \in Msgs : msg'[m] = "absent" <=> msg[m] = "absent"
    BY <2>1, <2>2, <2>3 DEF Core
  <2>5. Kept
    BY <2>2, <2>4 DEF Kept
  <2>6. hop[k[2]] = HopAfter(parent[k[2]]) /\ hop[k[2]] \in Nat
    BY <2>1, HopOfParent DEF Rooted
  <2>7. \A m \in Msgs : Inserted(m)' => Inserted(m) \/ hop[m] <= MaxHops
    BY <1>0, <2>1, <2>2, <2>6 DEF Inserted, Core
  <2>8. QED
    BY <1>2, <2>5, <2>7 DEF HopsWithinLimit
<1>5. QED
  BY <1>1, <1>3, <1>4, KeptOrSent

\* The empty home has no messages to count.
LEMMA InitRooted == Init => Rooted /\ HopsWithinLimit
<1> SUFFICES ASSUME Init PROVE Rooted /\ HopsWithinLimit
  OBVIOUS
<1> DEFINE f == [m \in Msgs |-> 0]
<1>1. parent = [m \in Msgs |-> "none"] /\ "none" \notin Msgs
  BY InboxAssumption DEF Init
<1>2. f \in [Msgs -> Nat] /\ Counts(f, parent) /\ \A g : Counts(g, parent) => g = f
  BY <1>1 DEF Counts
<1> HIDE DEF f
<1>3. Countable(parent)
  BY <1>2 DEF Countable
<1>4. QED
  BY <1>1, <1>3 DEF Init, Rooted, HopsWithinLimit, Inserted

LEMMA AlwaysRooted == Spec => [](Rooted /\ HopsWithinLimit)
<1>1. IInv /\ Typed /\ Rooted /\ HopsWithinLimit /\ [Next]_vars => (Rooted /\ HopsWithinLimit)'
  BY WithinStep DEF IInv
<1>2. QED
  BY Invariance, AlwaysTyped, InitRooted, <1>1, PTL DEF Spec

\* However messages are sent, read or delivered, late or at once, none is inserted whose chain
\* of parents is longer than the limit: a delivery counts again before it inserts.
THEOREM HopsAreLimited == Spec => []HopsWithinLimit
  BY AlwaysRooted, PTL
===============================================================================
