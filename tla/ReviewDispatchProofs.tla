------------------------- MODULE ReviewDispatchProofs -------------------------
(* Safety of reviews, for any packets, Agents, policies and bounds. *)
EXTENDS ReviewDispatch, SequenceTheorems, TLAPS

\* The part of the type invariant that the arguments below rest on.
Core ==
    /\ packet \in [Packets -> PacketState]
    /\ attempts \in [Packets -> Seq(AttemptState)]
    /\ byReviewer \subseteq Packets
    /\ byOperator \in [Packets -> Nat]
    /\ archived \subseteq Agents /\ active \subseteq Agents
    /\ runner \in [Packets -> Stage]
    /\ lease \in [Agents -> {"free", "review", "other"}]
    /\ delivered \in [Packets -> Nat]

\* A dispatcher has the lease of its reviewer to itself, for its whole turn and for the
\* delivery that follows, and there is none in a daemon that is down.
Leased ==
    \A p \in Packets : runner[p] # "idle" =>
        /\ daemon # "down"
        /\ lease[Reviewer(p)] = "review"
        /\ Reviewer(p) \in active \ archived
        /\ \A q \in Packets \ {p} : Reviewer(q) = Reviewer(p) => runner[q] = "idle"

\* The attempt of a turn is open, and its packet is reviewing.
Attempted ==
    \A p \in Packets : runner[p] \in {"preparing", "turn"} => Claimed(p) /\ packet[p] = "reviewing"

\* A result is delivered once its packet is reviewed, and before that there was none.
Delivers ==
    \A p \in Packets :
        /\ runner[p] = "delivering" => packet[p] = "reviewed" /\ delivered[p] = 0
        /\ packet[p] # "reviewed" => delivered[p] = 0

IInv ==
    /\ Core /\ Leased /\ Attempted /\ Delivers
    /\ OpenAttemptHoldsPacket /\ ReviewedIsConcluded /\ ResultOnce

-----------------------------------------------------------------------------
(* Attempts. *)

LEMMA OneMoreEndsIn ==
    ASSUME Core, NEW p \in Packets, NEW s \in AttemptState
    PROVE  /\ OneMore(p, s) \in Seq(AttemptState) /\ OneMore(p, s) # <<>>
           /\ OneMore(p, s)[Len(OneMore(p, s))] = s
<1>1. attempts[p] \in Seq(AttemptState) /\ MaxAttempts \in Nat \ {0}
  BY ReviewAssumption DEF Core
<1> DEFINE kept == IF Len(attempts[p]) < MaxAttempts THEN attempts[p] ELSE Tail(attempts[p])
<1>2. kept \in Seq(AttemptState)
  <2>1. CASE Len(attempts[p]) < MaxAttempts
    BY <1>1, <2>1
  <2>2. CASE ~(Len(attempts[p]) < MaxAttempts)
    <3>1. attempts[p] # <<>>
      BY <1>1, <2>2, EmptySeq
    <3>2. QED
      BY <1>1, <2>2, <3>1, HeadTailProperties
  <2>3. QED
    BY <2>1, <2>2
<1>3. OneMore(p, s) = Append(kept, s)
  BY DEF OneMore
<1> HIDE DEF kept
<1>4. QED
  BY <1>2, <1>3, AppendProperties

LEMMA LastNowEndsIn ==
    ASSUME Core, NEW p \in Packets, NEW s \in AttemptState, attempts[p] # <<>>
    PROVE  /\ LastNow(p, s) \in Seq(AttemptState) /\ LastNow(p, s) # <<>>
           /\ LastNow(p, s)[Len(LastNow(p, s))] = s
<1>1. attempts[p] \in Seq(AttemptState) /\ Len(attempts[p]) \in Nat \ {0}
  BY EmptySeq, LenProperties DEF Core
<1>2. Len(attempts[p]) \in 1 .. Len(attempts[p])
  BY <1>1
<1>3. QED
  BY <1>1, <1>2, ExceptSeq DEF LastNow

-----------------------------------------------------------------------------
(* What the steps do. *)

\* Rows change and no turn does: a packet moves on, or a conclusion is recorded.
RowStep ==
    /\ UNCHANGED <<attempts, runner, active, archived, lease, delivered, daemon>>
    /\ byReviewer \subseteq byReviewer' /\ byReviewer' \subseteq Packets
    /\ byOperator' \in [Packets -> Nat]
    /\ \A p \in Packets : byOperator[p] > 0 => byOperator'[p] > 0
    /\ packet' \in [Packets -> PacketState]
    /\ \A p \in Packets :
         \/ packet'[p] = packet[p]
         \/ packet[p] = "absent" /\ packet'[p] = "open" /\ ~Claimed(p)
         \/ packet[p] = "open" /\ packet'[p] \in {"cancelled", "blocked", "awaiting_approval"}
         \/ packet[p] = "open" /\ packet'[p] = "reviewed" /\ (p \in byReviewer' \/ byOperator'[p] > 0)
         \/ packet[p] = "awaiting_approval" /\ packet'[p] \in {"cancelled", "open"}
         \/ packet[p] = "reviewing" /\ packet'[p] = "cancelled" /\ runner[p] = "idle"

\* An open packet is claimed by a dispatcher that was granted the lease.
ClaimStep(p) ==
    /\ packet[p] = "open" /\ daemon = "up" /\ lease[Reviewer(p)] = "free"
    /\ Reviewer(p) \notin active \cup archived
    /\ attempts' = [attempts EXCEPT ![p] = OneMore(p, "claimed")]
    /\ packet' = [packet EXCEPT ![p] = "reviewing"]
    /\ runner' = [runner EXCEPT ![p] = "preparing"]
    /\ active' = active \cup {Reviewer(p)}
    /\ lease' = [lease EXCEPT ![Reviewer(p)] = "review"]
    /\ UNCHANGED <<byReviewer, byOperator, archived, delivered, daemon>>

LateStep(p) ==
    /\ packet[p] = "open"
    /\ attempts' = [attempts EXCEPT ![p] = OneMore(p, "failed")]
    /\ UNCHANGED <<packet, byReviewer, byOperator, archived, active, runner, lease, delivered, daemon>>

\* A turn goes on.
GoesOn(p) ==
    /\ runner[p] = "preparing" /\ runner' = [runner EXCEPT ![p] = "turn"]
    /\ UNCHANGED <<packet, attempts, byReviewer, byOperator, archived, active, lease, delivered, daemon>>

\* The attempt of a turn is settled; the dispatcher delivers, or ends.
SettleStep(p, outcome) ==
    /\ runner[p] \in {"preparing", "turn"}
    /\ attempts' = [attempts EXCEPT ![p] = LastNow(p, outcome)]
    /\ packet' = [packet EXCEPT ![p] = StateAfter(outcome)]
    /\ outcome = "completed" => p \in byReviewer
    /\ \/ /\ outcome = "completed"
          /\ runner' = [runner EXCEPT ![p] = "delivering"] /\ UNCHANGED <<active, lease>>
       \/ /\ runner' = [runner EXCEPT ![p] = "idle"]
          /\ active' = active \ {Reviewer(p)}
          /\ lease' = [lease EXCEPT ![Reviewer(p)] = "free"]
    /\ UNCHANGED <<byReviewer, byOperator, archived, delivered, daemon>>

DeliverStep(p) ==
    /\ runner[p] = "delivering"
    /\ delivered' = [delivered EXCEPT ![p] = @ + 1] \/ UNCHANGED delivered
    /\ runner' = [runner EXCEPT ![p] = "idle"]
    /\ active' = active \ {Reviewer(p)}
    /\ lease' = [lease EXCEPT ![Reviewer(p)] = "free"]
    /\ UNCHANGED <<packet, attempts, byReviewer, byOperator, archived, daemon>>

\* Other sources leave alone whoever is in the turn of a dispatcher.
AgentStep ==
    /\ UNCHANGED <<packet, attempts, byReviewer, byOperator, runner, delivered, daemon>>
    /\ lease' \in [Agents -> {"free", "review", "other"}]
    /\ active' \subseteq Agents /\ archived' \subseteq Agents
    /\ \A a \in Agents : lease[a] = "review" => lease'[a] = "review"
    /\ \A p \in Packets : runner[p] # "idle" /\ Reviewer(p) \in active => Reviewer(p) \in active'
    /\ \A a \in active : a \in archived' => a \in archived

LEMMA RowKinds ==
    ASSUME IInv, NEW p \in Packets,
           Rows(p) \/ ReviewerConcludes(p) \/ DispatchDeferred(p) \/ DispatchBlocked(p) \/ DispatchHeld(p)
    PROVE  RowStep
<1> USE DEF IInv, Core, RowStep, attemptVars, conclusions, grantVars, turnVars, boundVars,
            setReviewPacketState, PacketState, Readable
<1>1. CASE captureReviewPacket(p)
  <2>1. ~Claimed(p)
    BY <1>1 DEF captureReviewPacket, OpenAttemptHoldsPacket
  <2>2. QED
    BY <1>1, <2>1 DEF captureReviewPacket
<1>2. CASE OperatorConcludes(p) \/ ReviewerConcludes(p)
  <2>1. /\ packet' \in [Packets -> PacketState]
        /\ \A q \in Packets \ {p} : packet'[q] = packet[q]
        /\ packet'[p] = packet[p] \/ (packet[p] = "open" /\ packet'[p] = "reviewed")
    BY <1>2 DEF OperatorConcludes, ReviewerConcludes, Concluded, Open
  <2>2. /\ byReviewer \subseteq byReviewer' /\ byReviewer' \subseteq Packets
        /\ byOperator' \in [Packets -> Nat]
        /\ \A q \in Packets : byOperator[q] > 0 => byOperator'[q] > 0
        /\ p \in byReviewer' \/ byOperator'[p] > 0
    <3>1. CASE OperatorConcludes(p)
      BY <3>1 DEF OperatorConcludes
    <3>2. CASE ReviewerConcludes(p)
      BY <3>2 DEF ReviewerConcludes
    <3>3. QED
      BY <1>2, <3>1, <3>2
  <2>3. UNCHANGED <<attempts, runner, active, archived, lease, delivered, daemon>>
    BY <1>2 DEF OperatorConcludes, ReviewerConcludes
  <2>4. QED
    BY <2>1, <2>2, <2>3
<1>3. CASE CancelReview(p)
  BY <1>3 DEF CancelReview
<1>4. CASE GrantDelivered(p)
  BY <1>4 DEF GrantDelivered
<1>5. CASE ApprovalRefused(p) \/ Expire(p) \/ LeaseExpires(p) \/ \E decision \in Policies : ChangePolicy(p, decision)
  BY <1>5 DEF ApprovalRefused, Expire, LeaseExpires, ChangePolicy
<1>6. CASE DispatchDeferred(p) \/ DispatchBlocked(p) \/ DispatchHeld(p)
  BY <1>6 DEF DispatchDeferred, DispatchBlocked, DispatchHeld, Free, Granted, setHeldPacketState, Open
<1>7. QED
  BY <1>1, <1>2, <1>3, <1>4, <1>5, <1>6 DEF Rows

LEMMA TurnKinds ==
    ASSUME IInv, NEW p \in Packets,
           claimReviewAttempt(p) \/ ClaimedTooLate(p) \/ Turn(p)
    PROVE  \/ ClaimStep(p) \/ LateStep(p) \/ GoesOn(p) \/ DeliverStep(p)
           \/ \E outcome \in Outcome : SettleStep(p, outcome)
<1> USE DEF attemptVars, conclusions, grantVars, turnVars, boundVars, setReviewPacketState
<1>1. CASE claimReviewAttempt(p)
  <2>1. Reviewer(p) \notin archived
    BY <1>1 DEF claimReviewAttempt, Decision
  <2>2. QED
    BY <1>1, <2>1 DEF claimReviewAttempt, Free, Granted, Open, ClaimStep
<1>2. CASE ClaimedTooLate(p)
  BY <1>2 DEF ClaimedTooLate, Free, Granted, Open, LateStep
<1>3. CASE prepareChangeReviewTurn(p)
  BY <1>3 DEF prepareChangeReviewTurn, GoTo, GoesOn
<1>4. CASE TurnFails(p)
  <2>1. PICK outcome \in {"cancelled", "failed"} : finishReviewAttempt(p, outcome)
    BY <1>4 DEF TurnFails
  <2>2. SettleStep(p, outcome)
    BY <1>4, <2>1 DEF TurnFails, finishReviewAttempt, End, SettleStep
  <2>3. QED
    BY <2>2 DEF Outcome
<1>5. CASE TurnEnds(p)
  <2>1. CASE p \in byReviewer
    <3>1. SettleStep(p, "completed")
      BY <1>5, <2>1 DEF TurnEnds, finishReviewAttempt, GoTo, End, SettleStep
    <3>2. QED
      BY <3>1 DEF Outcome
  <2>2. CASE p \notin byReviewer
    <3>1. SettleStep(p, "failed")
      BY <1>5, <2>2 DEF TurnEnds, finishReviewAttempt, End, SettleStep
    <3>2. QED
      BY <3>1 DEF Outcome
  <2>3. QED
    BY <2>1, <2>2
<1>6. CASE deliverReviewResult(p)
  BY <1>6 DEF deliverReviewResult, End, DeliverStep
<1>7. QED
  BY <1>1, <1>2, <1>3, <1>4, <1>5, <1>6 DEF Turn

LEMMA AgentKinds ==
    ASSUME IInv, NEW a \in Agents, Acquire(a) \/ Unlock(a) \/ OtherTurnEnds(a)
    PROVE  AgentStep
<1> USE DEF IInv, Core, AgentStep, attemptVars, conclusions, grantVars, boundVars
<1>1. CASE Acquire(a)
  BY <1>1 DEF Acquire
<1>2. CASE Unlock(a)
  BY <1>2 DEF Unlock
<1>3. CASE OtherTurnEnds(a)
  BY <1>3 DEF OtherTurnEnds
<1>4. QED
  BY <1>1, <1>2, <1>3

\* Ticks, a shutdown that begins, and an Init-less stutter change nothing that matters here.
Elsewhere ==
    /\ UNCHANGED <<packet, attempts, byReviewer, byOperator, archived, active, runner, lease, delivered>>
    /\ daemon' = daemon \/ (daemon = "up" /\ daemon' = "stopping")

LEMMA StepKinds ==
    ASSUME IInv, [Next]_vars
    PROVE  \/ RowStep
           \/ \E p \in Packets : \/ ClaimStep(p) \/ LateStep(p) \/ GoesOn(p) \/ DeliverStep(p)
                                 \/ \E outcome \in Outcome : SettleStep(p, outcome)
           \/ AgentStep \/ Die \/ Restart \/ Elsewhere
<1>1. CASE Tick \/ Shutdown \/ AllExpired \/ UNCHANGED vars
  BY <1>1 DEF Tick, Shutdown, AllExpired, vars, attemptVars, conclusions, grantVars, turnVars,
              boundVars, Elsewhere
<1>2. QED
  BY <1>1, RowKinds, TurnKinds, AgentKinds DEF Next, Dispatch, Others

-----------------------------------------------------------------------------
(* The inductive invariant. *)

LEMMA InitIInv == Init => IInv
<1> SUFFICES ASSUME Init PROVE IInv
  OBVIOUS
<1>1. Core
  BY DEF Init, Core, PacketState, Stage
<1>2. Leased /\ Attempted /\ Delivers /\ ReviewedIsConcluded /\ ResultOnce
  BY DEF Init, Leased, Attempted, Delivers, ReviewedIsConcluded, ResultOnce
<1>3. OpenAttemptHoldsPacket
  BY DEF Init, OpenAttemptHoldsPacket, Claimed
<1>4. QED
  BY <1>1, <1>2, <1>3 DEF IInv

LEMMA RowPreserves == ASSUME IInv, RowStep PROVE IInv'
<1>1. Core'
  BY DEF IInv, Core, RowStep
<1>2. \A p \in Packets : Claimed(p)' <=> Claimed(p)
  BY DEF RowStep, Claimed
<1>3. Leased'
  BY DEF IInv, Leased, RowStep, Reviewer
<1>4. Attempted'
  BY <1>2 DEF IInv, Attempted, RowStep
<1>5. Delivers' /\ ResultOnce'
  BY DEF IInv, Delivers, ResultOnce, RowStep
<1>6. OpenAttemptHoldsPacket'
  BY <1>2 DEF IInv, OpenAttemptHoldsPacket, RowStep
<1>7. ReviewedIsConcluded'
  BY DEF IInv, ReviewedIsConcluded, RowStep
<1>8. QED
  BY <1>1, <1>3, <1>4, <1>5, <1>6, <1>7 DEF IInv

LEMMA ClaimPreserves == ASSUME IInv, NEW p \in Packets, ClaimStep(p) PROVE IInv'
<1> USE ReviewAssumption DEF IInv, Core, ClaimStep, Reviewer
<1>1. OneMore(p, "claimed") \in Seq(AttemptState) /\ Claimed(p)'
  BY OneMoreEndsIn DEF Claimed, AttemptState
<1>2. Core'
  <2>1. ReviewerOf[p] \in Agents
    OBVIOUS
  <2>5. active' \subseteq Agents /\ lease' \in [Agents -> {"free", "review", "other"}]
    BY <2>1
  <2>2. packet' \in [Packets -> PacketState] /\ runner' \in [Packets -> Stage]
    BY DEF PacketState, Stage
  <2>3. attempts' \in [Packets -> Seq(AttemptState)]
    BY <1>1
  <2>4. QED
    BY <2>2, <2>3, <2>5
<1>3. \A q \in Packets \ {p} : Claimed(q)' <=> Claimed(q)
  BY DEF Claimed
<1>4. \A q \in Packets : ReviewerOf[q] = ReviewerOf[p] => runner[q] = "idle"
  BY DEF Leased
<1>5. Leased'
  BY <1>4 DEF Leased
<1>6. Attempted'
  BY <1>1, <1>3 DEF Attempted
<1>7. Delivers' /\ ResultOnce' /\ ReviewedIsConcluded'
  BY DEF Delivers, ResultOnce, ReviewedIsConcluded
<1>8. OpenAttemptHoldsPacket'
  BY <1>3 DEF OpenAttemptHoldsPacket
<1>9. QED
  BY <1>2, <1>5, <1>6, <1>7, <1>8

LEMMA LatePreserves == ASSUME IInv, NEW p \in Packets, LateStep(p) PROVE IInv'
<1> USE DEF IInv, Core, LateStep, Reviewer
<1>1. OneMore(p, "failed") \in Seq(AttemptState) /\ ~Claimed(p)'
  BY OneMoreEndsIn DEF Claimed, AttemptState, Outcome
<1>2. Core'
  BY <1>1
<1>3. \A q \in Packets \ {p} : Claimed(q)' <=> Claimed(q)
  BY DEF Claimed
<1>4. Leased' /\ Delivers' /\ ResultOnce' /\ ReviewedIsConcluded'
  BY DEF Leased, Delivers, ResultOnce, ReviewedIsConcluded
<1>5. Attempted' /\ OpenAttemptHoldsPacket'
  BY <1>1, <1>3 DEF Attempted, OpenAttemptHoldsPacket
<1>6. QED
  BY <1>2, <1>4, <1>5

LEMMA SettlePreserves ==
    ASSUME IInv, NEW p \in Packets, NEW outcome \in Outcome, SettleStep(p, outcome)
    PROVE  IInv'
<1>1. LastNow(p, outcome) \in Seq(AttemptState) /\ ~Claimed(p)'
  <2>1. attempts[p] # <<>> /\ outcome \in AttemptState /\ outcome # "claimed"
    BY DEF IInv, SettleStep, Attempted, Claimed, AttemptState, Outcome
  <2>2. attempts'[p] = LastNow(p, outcome)
    BY DEF IInv, Core, SettleStep
  <2>3. QED
    BY <2>1, <2>2, LastNowEndsIn DEF Claimed, IInv
<1> USE ReviewAssumption DEF IInv, Core, SettleStep, Reviewer
<1>2. Core'
  BY <1>1 DEF PacketState, Stage, StateAfter
<1>3. \A q \in Packets \ {p} : Claimed(q)' <=> Claimed(q)
  BY DEF Claimed
<1>4. \A q \in Packets \ {p} : runner[q] # "idle" => ReviewerOf[q] # ReviewerOf[p]
  BY DEF Leased
<1>5. Leased'
  BY <1>4 DEF Leased
<1>6. Attempted' /\ OpenAttemptHoldsPacket'
  BY <1>1, <1>3 DEF Attempted, OpenAttemptHoldsPacket
<1>7. Delivers' /\ ResultOnce' /\ ReviewedIsConcluded'
  BY DEF Delivers, ResultOnce, ReviewedIsConcluded, Attempted, StateAfter
<1>8. QED
  BY <1>2, <1>5, <1>6, <1>7

LEMMA DeliverPreserves ==
    ASSUME IInv, NEW p \in Packets, GoesOn(p) \/ DeliverStep(p)
    PROVE  IInv'
<1> USE ReviewAssumption DEF IInv, Core, GoesOn, DeliverStep, Reviewer
<1>1. Core'
  <2>1. active' \subseteq Agents /\ lease' \in [Agents -> {"free", "review", "other"}]
    OBVIOUS
  <2>2. runner' \in [Packets -> Stage] /\ delivered' \in [Packets -> Nat]
    BY DEF Stage
  <2>3. QED
    BY <2>1, <2>2
<1>2. \A q \in Packets : Claimed(q)' <=> Claimed(q)
  BY DEF Claimed
<1>3. \A q \in Packets \ {p} : runner[q] # "idle" => ReviewerOf[q] # ReviewerOf[p]
  BY DEF Leased
<1>4. Leased'
  BY <1>3 DEF Leased
<1>5. Attempted' /\ OpenAttemptHoldsPacket'
  BY <1>2 DEF Attempted, OpenAttemptHoldsPacket
<1>6. Delivers' /\ ResultOnce' /\ ReviewedIsConcluded'
  BY DEF Delivers, ResultOnce, ReviewedIsConcluded
<1>7. QED
  BY <1>1, <1>4, <1>5, <1>6

LEMMA AgentPreserves == ASSUME IInv, AgentStep PROVE IInv'
<1>1. Core' /\ Delivers' /\ ResultOnce' /\ ReviewedIsConcluded'
  BY DEF IInv, Core, AgentStep, Delivers, ResultOnce, ReviewedIsConcluded
<1>2. Leased'
  BY ReviewAssumption DEF IInv, Core, AgentStep, Leased, Reviewer
<1>3. Attempted' /\ OpenAttemptHoldsPacket'
  BY DEF IInv, AgentStep, Attempted, OpenAttemptHoldsPacket, Claimed
<1>4. QED
  BY <1>1, <1>2, <1>3 DEF IInv

LEMMA DiePreserves == ASSUME IInv, Die PROVE IInv'
<1> USE DEF IInv, Die, attemptVars, conclusions, grantVars
<1>1. Core' /\ Leased'
  BY DEF Core, Leased, Stage
<1>2. Attempted' /\ OpenAttemptHoldsPacket' /\ Delivers' /\ ResultOnce' /\ ReviewedIsConcluded'
  BY DEF Core, Attempted, OpenAttemptHoldsPacket, Claimed, Delivers, ResultOnce, ReviewedIsConcluded
<1>3. QED
  BY <1>1, <1>2

LEMMA RestartPreserves == ASSUME IInv, Restart PROVE IInv'
<1> USE DEF IInv, Restart, attemptVars, conclusions, grantVars, turnVars, boundVars
<1>1. \A p \in Packets : runner[p] = "idle" /\ runner'[p] = "idle"
  BY DEF Leased
<1>2. ASSUME NEW p \in Packets
      PROVE  /\ attempts'[p] \in Seq(AttemptState)
             /\ Claimed(p)' => Claimed(p) /\ packet'[p] = packet[p]
             /\ packet'[p] = packet[p] \/ (packet[p] = "reviewing" /\ packet'[p] = "open")
  <2>1. CASE Claimed(p) /\ p \notin leased
    <3>1. attempts'[p] = LastNow(p, "uncertain")
      BY <2>1 DEF recoverInterruptedReviewAttempts
    <3>2. attempts'[p] \in Seq(AttemptState) /\ ~Claimed(p)'
      BY <2>1, <3>1, LastNowEndsIn DEF Claimed, AttemptState
    <3>3. QED
      BY <3>2 DEF recoverInterruptedReviewAttempts, Core
  <2>2. CASE ~(Claimed(p) /\ p \notin leased)
    BY <2>2 DEF recoverInterruptedReviewAttempts, Core, Claimed
  <2>3. QED
    BY <2>1, <2>2
<1>3. Core'
  BY <1>2 DEF Core, recoverInterruptedReviewAttempts, PacketState
<1>4. Leased' /\ Attempted'
  BY <1>1 DEF Leased, Attempted
<1>5. Delivers' /\ ResultOnce' /\ ReviewedIsConcluded'
  BY <1>1, <1>2 DEF Delivers, ResultOnce, ReviewedIsConcluded
<1>6. OpenAttemptHoldsPacket'
  BY <1>2 DEF OpenAttemptHoldsPacket
<1>7. QED
  BY <1>3, <1>4, <1>5, <1>6

LEMMA IInvStep == ASSUME IInv, [Next]_vars PROVE IInv'
<1>1. CASE Elsewhere
  <2>1. Core' /\ Leased'
    BY <1>1 DEF IInv, Core, Leased, Elsewhere, Reviewer
  <2>2. Attempted' /\ OpenAttemptHoldsPacket' /\ Delivers' /\ ResultOnce' /\ ReviewedIsConcluded'
    BY <1>1 DEF IInv, Elsewhere, Attempted, OpenAttemptHoldsPacket, Claimed, Delivers, ResultOnce,
                ReviewedIsConcluded
  <2>3. QED
    BY <2>1, <2>2 DEF IInv
<1>2. QED
  BY <1>1, StepKinds, RowPreserves, ClaimPreserves, LatePreserves, SettlePreserves,
     DeliverPreserves, AgentPreserves, DiePreserves, RestartPreserves

LEMMA Invariance == Spec => []IInv
<1>1. IInv /\ [Next]_vars => IInv'
  BY IInvStep
<1>2. QED
  BY InitIInv, <1>1, PTL DEF Spec

-----------------------------------------------------------------------------
(* Theorems. *)

\* A reviewer is neither archived nor put in a second turn while a dispatcher has it review.
THEOREM ReviewerKept == Spec => []ReviewerStays
<1>1. IInv => ReviewerStays
  BY DEF IInv, Leased, Attempted, ReviewerStays
<1>2. QED
  BY Invariance, <1>1, PTL

\* No packet is dispatched while somebody may still be working on an attempt of it.
THEOREM OneAttemptAtATime == Spec => []OpenAttemptHoldsPacket
<1>1. IInv => OpenAttemptHoldsPacket
  BY DEF IInv
<1>2. QED
  BY Invariance, <1>1, PTL

\* What a publication reads as reviewed rests on a recorded conclusion.
THEOREM ReviewsAreConcluded == Spec => []ReviewedIsConcluded
<1>1. IInv => ReviewedIsConcluded
  BY DEF IInv
<1>2. QED
  BY Invariance, <1>1, PTL

\* A requester hears of a review at most once, and only of a concluded one.
THEOREM HeardOnce == Spec => []ResultOnce
<1>1. IInv => ResultOnce
  BY DEF IInv
<1>2. QED
  BY Invariance, <1>1, PTL

\* A reviewed packet stays reviewed.
THEOREM NeverUnreviewed == Spec => ReviewedStays
<1>1. ASSUME IInv, [Next]_vars, NEW p \in Packets, packet[p] = "reviewed"
      PROVE  packet'[p] = "reviewed"
  <2>1. CASE RowStep
    BY <1>1, <2>1 DEF RowStep
  <2>2. ASSUME NEW q \in Packets, ClaimStep(q) \/ LateStep(q) \/ GoesOn(q) \/ DeliverStep(q)
        PROVE  packet'[p] = "reviewed"
    BY <1>1, <2>2 DEF IInv, Core, ClaimStep, LateStep, GoesOn, DeliverStep
  <2>3. ASSUME NEW q \in Packets, NEW outcome \in Outcome, SettleStep(q, outcome)
        PROVE  packet'[p] = "reviewed"
    BY <1>1, <2>3 DEF IInv, Core, Attempted, SettleStep
  <2>4. CASE Restart
    BY <1>1, <2>4 DEF IInv, Core, Restart, recoverInterruptedReviewAttempts
  <2>5. CASE AgentStep \/ Die \/ Elsewhere
    BY <1>1, <2>5 DEF AgentStep, Die, Elsewhere
  <2>6. QED
    BY <1>1, <2>1, <2>2, <2>3, <2>4, <2>5, StepKinds
<1>2. IInv /\ [Next]_vars => [\A p \in Packets : packet[p] = "reviewed" => packet'[p] = "reviewed"]_vars
  BY <1>1
<1>3. QED
  BY Invariance, <1>2, PTL DEF Spec, ReviewedStays

-----------------------------------------------------------------------------
(* The attempt log. *)

Settled(s)  == \A i \in 1..Len(s) : s[i] # "claimed"
LastOpen(s) == s # <<>> /\ s[Len(s)] = "claimed" /\ \A i \in 1..(Len(s) - 1) : s[i] # "claimed"

\* Only the last attempt of a packet is ever open.
OnlyLastOpen == \A p \in Packets : Settled(attempts[p]) \/ LastOpen(attempts[p])

\* What the log shows of the attempts of a packet with or without a dispatcher.
View(s, idle) ==
    [i \in DOMAIN s |-> IF s[i] # "claimed" THEN s[i] ELSE IF idle THEN "orphan" ELSE "open"]

LEMMA ViewOfSettled ==
    ASSUME NEW s \in Seq(AttemptState), Settled(s), NEW idle
    PROVE  View(s, idle) = s
<1>1. s \in [1..Len(s) -> AttemptState]
  BY LenProperties
<1>2. QED
  BY <1>1 DEF View, Settled

LEMMA BeforeLast == \A n \in Nat : \A i \in 1..n : i # n => i \in 1..(n - 1)
  OBVIOUS

LEMMA ViewOfOpen ==
    ASSUME NEW s \in Seq(AttemptState), LastOpen(s), NEW idle
    PROVE  View(s, idle) = [s EXCEPT ![Len(s)] = IF idle THEN "orphan" ELSE "open"]
<1>1. s \in [1..Len(s) -> AttemptState] /\ Len(s) \in Nat
  BY LenProperties
<1> DEFINE e == IF idle THEN "orphan" ELSE "open"
           t == [s EXCEPT ![Len(s)] = e]
<1>2. \A i \in 1..Len(s) : s[i] = "claimed" <=> i = Len(s)
  <2>1. \A i \in 1..Len(s) : i # Len(s) => i \in 1..(Len(s) - 1)
    BY <1>1, BeforeLast
  <2>2. QED
    BY <2>1 DEF LastOpen
<1>3. View(s, idle) = [i \in 1..Len(s) |-> IF s[i] # "claimed" THEN s[i] ELSE e]
  BY <1>1 DEF View
<1>4. t = [i \in 1..Len(s) |-> IF i = Len(s) THEN e ELSE s[i]]
  BY <1>1
<1> HIDE DEF e, t
<1>5. View(s, idle) = t
  BY <1>2, <1>3, <1>4
<1>6. QED
  BY <1>5 DEF t, e

\* The last entry of a sequence, replaced.
LEMMA LastReplaced ==
    ASSUME NEW S, NEW s \in Seq(S), s # <<>>, NEW a \in S
    PROVE  [s EXCEPT ![Len(s)] = a] \in Seq(S) /\ Len([s EXCEPT ![Len(s)] = a]) = Len(s)
<1>1. s \in [1..Len(s) -> S] /\ Len(s) \in Nat \ {0}
  BY LenProperties, EmptySeq
<1>2. Len(s) \in 1..Len(s)
  BY <1>1
<1>3. QED
  BY <1>2, ExceptSeq

\* An attempt that is open is settled, orphaned, or recovered after that.
LEMMA OpenAttemptLogs ==
    ASSUME NEW s \in Seq(AttemptState), LastOpen(s)
    PROVE  /\ \A o \in Outcome : Log!Settles(View(s, FALSE), [s EXCEPT ![Len(s)] = o])
           /\ Log!Orphaned(View(s, FALSE), View(s, TRUE))
           /\ Log!Recovers(View(s, TRUE), [s EXCEPT ![Len(s)] = "uncertain"])
<1> DEFINE S == AttemptState \cup {"open", "orphan"}
<1>1. s \in Seq(S) /\ s # <<>>
  BY SeqMonotonic DEF LastOpen
<1>2. /\ View(s, FALSE) = [s EXCEPT ![Len(s)] = "open"]
      /\ View(s, TRUE) = [s EXCEPT ![Len(s)] = "orphan"]
  BY ViewOfOpen
<1>3. ASSUME NEW a \in {"open", "orphan"}, NEW b \in Outcome \cup {"uncertain", "orphan"}
      PROVE  /\ Log!LastIn([s EXCEPT ![Len(s)] = a], {a})
             /\ Log!Last([s EXCEPT ![Len(s)] = a], b) = [s EXCEPT ![Len(s)] = b]
  <2> DEFINE l == [s EXCEPT ![Len(s)] = a]
  <2>1. a \in S /\ b \in S
    BY DEF AttemptState
  <2> HIDE DEF S
  <2>2. s \in [1..Len(s) -> S] /\ Len(s) \in Nat \ {0}
    BY <1>1, LenProperties, EmptySeq
  <2>3. Len(s) \in 1..Len(s)
    BY <2>2
  <2>4. l[Len(s)] = a /\ [l EXCEPT ![Len(s)] = b] = [s EXCEPT ![Len(s)] = b]
    BY <2>2, <2>3
  <2>5. l \in Seq(S) /\ Len(l) = Len(s)
    BY <1>1, <2>1, LastReplaced
  <2> HIDE DEF l
  <2>6. l # <<>>
    BY <2>2, <2>5, EmptySeq
  <2>7. QED
    BY <2>4, <2>5, <2>6, Zenon DEF Log!LastIn, Log!Last, l
<1>4. QED
  BY <1>2, <1>3 DEF Log!Settles, Log!Orphaned, Log!Recovers, Log!Uncertain

LEMMA LastNowSettles ==
    ASSUME NEW s \in Seq(AttemptState), LastOpen(s), NEW o \in AttemptState \ {"claimed"}
    PROVE  [s EXCEPT ![Len(s)] = o] \in Seq(AttemptState) /\ Settled([s EXCEPT ![Len(s)] = o])
<1>1. Len(s) \in Nat \ {0}
  BY LenProperties, EmptySeq DEF LastOpen
<1>2. Len(s) \in 1..Len(s)
  BY <1>1
<1>3. QED
  BY <1>1, <1>2, ExceptSeq DEF LastOpen, Settled

\* A new attempt, open or over, after settled ones.
LEMMA OneMoreLogs ==
    ASSUME Core, NEW p \in Packets, Settled(attempts[p]), NEW s \in Outcome \cup {"claimed"}
    PROVE  /\ IF s = "claimed" THEN LastOpen(OneMore(p, s)) ELSE Settled(OneMore(p, s))
           /\ Log!Begins(attempts[p], View(OneMore(p, s), FALSE))
<1> DEFINE kept == IF Len(attempts[p]) < MaxAttempts THEN attempts[p] ELSE Tail(attempts[p])
           S == AttemptState \cup {"open", "orphan"}
           n == Len(attempts[p])
<1>1. attempts[p] \in Seq(AttemptState) /\ n \in Nat /\ MaxAttempts \in Nat \ {0}
  BY ReviewAssumption, LenProperties DEF Core
<1>3. kept \in Seq(AttemptState) /\ Settled(kept)
  <2>1. CASE n < MaxAttempts
    BY <1>1, <2>1
  <2>2. CASE ~(n < MaxAttempts)
    <3>1. attempts[p] # <<>>
      BY <1>1, <2>2, EmptySeq
    <3>2. /\ Tail(attempts[p]) \in Seq(AttemptState) /\ Len(Tail(attempts[p])) = n - 1
          /\ \A i \in 1 .. (n - 1) : Tail(attempts[p])[i] = attempts[p][i + 1]
      BY <1>1, <3>1, HeadTailProperties
    <3>3. QED
      BY <1>1, <2>2, <3>2 DEF Settled
  <2>3. QED
    BY <2>1, <2>2
<1>4. OneMore(p, s) = Append(kept, s) /\ s \in AttemptState
  BY DEF OneMore, AttemptState
<1> HIDE DEF kept
<1>6. /\ Append(kept, s) \in Seq(AttemptState) /\ Append(kept, s) # <<>>
      /\ Len(Append(kept, s)) = Len(kept) + 1 /\ Len(kept) \in Nat
      /\ \A i \in 1..Len(kept) : Append(kept, s)[i] = kept[i]
      /\ Append(kept, s)[Len(kept) + 1] = s
  BY <1>3, <1>4, AppendProperties, LenProperties
<1>7. IF s = "claimed" THEN LastOpen(OneMore(p, s)) ELSE Settled(OneMore(p, s))
  <2>1. CASE s = "claimed"
    BY <1>3, <1>4, <1>6, <2>1 DEF Settled, LastOpen
  <2>2. CASE s # "claimed"
    BY <1>3, <1>4, <1>6, <2>2 DEF Settled
  <2>3. QED
    BY <2>1, <2>2
<1>8. \E entry \in Outcome \cup {"open"} : View(OneMore(p, s), FALSE) = Append(kept, entry)
  <2>1. CASE s = "claimed"
    <3>1. View(OneMore(p, s), FALSE) = [Append(kept, s) EXCEPT ![Len(kept) + 1] = "open"]
      BY <1>4, <1>6, <1>7, <2>1, ViewOfOpen
    <3>2. kept \in Seq(S) /\ s \in S /\ "open" \in S
      BY <1>3, <1>4, SeqMonotonic
    <3>3. /\ Append(kept, "open") \in Seq(S) /\ Append(kept, s) \in Seq(S)
          /\ Len(Append(kept, "open")) = Len(kept) + 1
          /\ \A i \in 1..Len(kept) : Append(kept, "open")[i] = kept[i]
          /\ Append(kept, "open")[Len(kept) + 1] = "open"
      BY <3>2, AppendProperties
    <3>4. Len(kept) + 1 \in 1..Len(Append(kept, s))
      BY <1>6
    <3> HIDE DEF S
    <3> DEFINE t == [Append(kept, s) EXCEPT ![Len(kept) + 1] = "open"]
    <3>5. /\ t \in Seq(S) /\ Len(t) = Len(kept) + 1
          /\ \A j \in 1..(Len(kept) + 1) : t[j] = IF j = Len(kept) + 1 THEN "open" ELSE Append(kept, s)[j]
      <4>1. Append(kept, s) \in [1..(Len(kept) + 1) -> S]
        BY <1>6, <3>3, LenProperties
      <4>2. t \in [1..(Len(kept) + 1) -> S]
        BY <3>2, <4>1
      <4>3. t \in Seq(S) /\ Len(t) = Len(kept) + 1
        <5>1. Len(kept) + 1 \in Nat
          BY <1>6
        <5> HIDE DEF t
        <5>2. QED
          BY <4>2, <5>1, SeqDef
      <4>4. QED
        BY <4>1, <4>3
    <3>6. \A j \in 1..(Len(kept) + 1) : t[j] = Append(kept, "open")[j]
      BY <1>6, <3>3, <3>5
    <3>7. t = Append(kept, "open")
      BY <3>3, <3>5, <3>6, SeqEqual
    <3>8. QED
      BY <3>1, <3>7
  <2>2. CASE s # "claimed"
    BY <1>4, <1>6, <1>7, <2>2, ViewOfSettled
  <2>3. QED
    BY <2>1, <2>2
<1>9. ~Log!LastIn(attempts[p], {"open", "orphan"} \cup {"gone"})
  <2>1. CASE attempts[p] = <<>>
    BY <2>1 DEF Log!LastIn
  <2>2. CASE attempts[p] # <<>>
    <3>1. n \in 1..n
      BY <1>1, <2>2, EmptySeq
    <3>2. attempts[p][n] \in AttemptState
      BY <1>1, <3>1, ElementOfSeq
    <3>3. QED
      BY <3>2 DEF Log!LastIn, AttemptState, Outcome
  <2>3. QED
    BY <2>1, <2>2
<1>10. Log!Begins(attempts[p], View(OneMore(p, s), FALSE))
  BY <1>8, <1>9 DEF Log!Begins, Log!Unsettled, kept
<1>11. QED
  BY <1>7, <1>10

LEMMA SettledIsUnclaimed ==
    ASSUME Core, OnlyLastOpen, NEW p \in Packets
    PROVE  Claimed(p) <=> LastOpen(attempts[p])
<1>1. attempts[p] \in Seq(AttemptState)
  BY DEF Core
<1>2. attempts[p] # <<>> => Len(attempts[p]) \in 1..Len(attempts[p])
  BY <1>1, EmptySeq, LenProperties
<1>3. QED
  BY <1>2 DEF OnlyLastOpen, Settled, LastOpen, Claimed

\* What a step does to the attempts of one packet, and what the log sees of it.
LEMMA Advance ==
    ASSUME IInv, OnlyLastOpen, [Next]_vars, NEW p \in Packets
    PROVE  /\ Settled(attempts'[p]) \/ LastOpen(attempts'[p])
           /\ Log!Advances(View(attempts[p], runner[p] = "idle"), View(attempts'[p], runner'[p] = "idle"))
<1> DEFINE Goal == /\ Settled(attempts'[p]) \/ LastOpen(attempts'[p])
                   /\ Log!Advances(View(attempts[p], runner[p] = "idle"),
                                   View(attempts'[p], runner'[p] = "idle"))
<1>0. attempts[p] \in Seq(AttemptState) /\ (Settled(attempts[p]) \/ LastOpen(attempts[p]))
  BY DEF IInv, Core, OnlyLastOpen
<1>1. ASSUME attempts'[p] = attempts[p], (runner'[p] = "idle") <=> (runner[p] = "idle") PROVE Goal
  BY <1>0, <1>1 DEF Log!Advances
<1>2. ASSUME attempts'[p] = attempts[p], Settled(attempts[p]) PROVE Goal
  BY <1>0, <1>2, ViewOfSettled DEF Log!Advances
<1>3. ASSUME NEW q \in Packets, ClaimStep(q) \/ LateStep(q) PROVE Goal
  <2>1. CASE q # p
    BY <1>1, <1>3, <2>1 DEF IInv, Core, ClaimStep, LateStep
  <2>2. CASE q = p
    <3>1. Settled(attempts[p])
      BY <1>0, <1>3, <2>2, SettledIsUnclaimed
         DEF IInv, ClaimStep, LateStep, OpenAttemptHoldsPacket
    <3>2. CASE ClaimStep(p)
      <4>1. attempts'[p] = OneMore(p, "claimed") /\ runner'[p] # "idle"
        BY <3>2 DEF IInv, Core, ClaimStep
      <4>2. LastOpen(attempts'[p]) /\ Log!Begins(attempts[p], View(attempts'[p], FALSE))
        BY <3>1, <4>1, OneMoreLogs DEF IInv
      <4>3. View(attempts[p], runner[p] = "idle") = attempts[p]
        BY <1>0, <3>1, ViewOfSettled
      <4>4. View(attempts'[p], runner'[p] = "idle") = View(attempts'[p], FALSE)
        BY <4>1
      <4>5. QED
        BY <4>2, <4>3, <4>4 DEF Log!Advances
    <3>3. CASE LateStep(p)
      <4>1. attempts'[p] = OneMore(p, "failed")
        BY <3>3 DEF IInv, Core, LateStep
      <4>2. Settled(attempts'[p]) /\ Log!Begins(attempts[p], View(attempts'[p], FALSE))
        BY <3>1, <4>1, OneMoreLogs DEF IInv, Outcome
      <4>3. attempts'[p] \in Seq(AttemptState)
        BY <4>1, OneMoreEndsIn DEF IInv, AttemptState, Outcome
      <4>4. /\ View(attempts[p], runner[p] = "idle") = attempts[p]
            /\ View(attempts'[p], runner'[p] = "idle") = View(attempts'[p], FALSE)
        BY <1>0, <3>1, <4>2, <4>3, ViewOfSettled
      <4>5. QED
        BY <4>2, <4>4 DEF Log!Advances
    <3>4. QED
      BY <1>3, <2>2, <3>2, <3>3
  <2>3. QED
    BY <2>1, <2>2
<1>4. ASSUME NEW q \in Packets, NEW outcome \in Outcome, SettleStep(q, outcome) PROVE Goal
  <2>1. CASE q # p
    BY <1>1, <1>4, <2>1 DEF IInv, Core, SettleStep
  <2>2. CASE q = p
    <3>1. LastOpen(attempts[p]) /\ runner[p] # "idle"
      BY <1>4, <2>2, SettledIsUnclaimed DEF IInv, SettleStep, Attempted
    <3>2. attempts'[p] = [attempts[p] EXCEPT ![Len(attempts[p])] = outcome]
      BY <1>4, <2>2 DEF IInv, Core, SettleStep, LastNow
    <3>3. attempts'[p] \in Seq(AttemptState) /\ Settled(attempts'[p])
      BY <1>0, <3>1, <3>2, LastNowSettles DEF AttemptState, Outcome
    <3>4. Log!Settles(View(attempts[p], FALSE), attempts'[p])
      BY <1>0, <3>1, <3>2, OpenAttemptLogs
    <3>5. QED
      BY <3>1, <3>3, <3>4, ViewOfSettled DEF Log!Advances
  <2>3. QED
    BY <2>1, <2>2
<1>5. ASSUME NEW q \in Packets, GoesOn(q) \/ DeliverStep(q) PROVE Goal
  <2>1. CASE q # p \/ GoesOn(q)
    BY <1>1, <1>5, <2>1 DEF IInv, Core, GoesOn, DeliverStep
  <2>2. CASE q = p /\ DeliverStep(q)
    <3>1. Settled(attempts[p])
      BY <1>0, <2>2, SettledIsUnclaimed DEF IInv, DeliverStep, Delivers, OpenAttemptHoldsPacket
    <3>2. QED
      BY <1>2, <2>2, <3>1 DEF DeliverStep
  <2>3. QED
    BY <1>5, <2>1, <2>2
<1>6. CASE Die
  <2>1. attempts'[p] = attempts[p] /\ runner'[p] = "idle"
    BY <1>6 DEF Die, attemptVars
  <2>2. CASE Settled(attempts[p])
    BY <1>2, <2>1, <2>2
  <2>3. CASE LastOpen(attempts[p])
    BY <1>0, <1>1, <2>1, <2>3, OpenAttemptLogs DEF Log!Advances
  <2>4. QED
    BY <1>0, <2>2, <2>3
<1>7. CASE Restart
  <2>1. runner[p] = "idle" /\ runner'[p] = "idle"
    BY <1>7 DEF IInv, Leased, Restart, turnVars
  <2>2. CASE Claimed(p) /\ p \notin leased
    <3>1. LastOpen(attempts[p])
      BY <2>2, SettledIsUnclaimed DEF IInv
    <3>2. attempts'[p] = [attempts[p] EXCEPT ![Len(attempts[p])] = "uncertain"]
      BY <1>7, <2>2 DEF Restart, recoverInterruptedReviewAttempts, LastNow
    <3>3. attempts'[p] \in Seq(AttemptState) /\ Settled(attempts'[p])
      BY <1>0, <3>1, <3>2, LastNowSettles DEF AttemptState
    <3>4. Log!Recovers(View(attempts[p], TRUE), attempts'[p])
      BY <1>0, <3>1, <3>2, OpenAttemptLogs
    <3>5. QED
      BY <2>1, <3>3, <3>4, ViewOfSettled DEF Log!Advances
  <2>3. CASE ~(Claimed(p) /\ p \notin leased)
    BY <1>1, <1>7, <2>1, <2>3 DEF Restart, recoverInterruptedReviewAttempts
  <2>4. QED
    BY <2>2, <2>3
<1>8. CASE RowStep \/ AgentStep \/ Elsewhere
  BY <1>1, <1>8 DEF RowStep, AgentStep, Elsewhere
<1>9. QED
  BY <1>3, <1>4, <1>5, <1>6, <1>7, <1>8, StepKinds

\* Attempts of reviews implement the attempt log: one at a time, outcomes that are final, and
\* an attempt without its dispatcher settled as uncertain.
THEOREM AttemptsLogged == Spec => KeepsTheLog
<1>1. Init => Log!Init /\ OnlyLastOpen
  BY DEF Init, Log!Init, AttemptsOf, OnlyLastOpen, Settled
<1>2. ASSUME IInv, OnlyLastOpen, [Next]_vars PROVE OnlyLastOpen' /\ Log!Next
  <2>1. OnlyLastOpen'
    BY <1>2, Advance DEF OnlyLastOpen
  <2>2. \A p \in Packets : Log!Advances(AttemptsOf(p), AttemptsOf(p)')
    BY <1>2, Advance DEF AttemptsOf, View
  <2>3. QED
    BY <2>1, <2>2 DEF Log!Next
<1>3. IInv /\ OnlyLastOpen /\ [Next]_vars => OnlyLastOpen' /\ [Log!Next]_[p \in Packets |-> AttemptsOf(p)]
  BY <1>2
<1>4. QED
  BY Invariance, <1>1, <1>3, PTL DEF Spec, KeepsTheLog, Log!Spec

-----------------------------------------------------------------------------
(* Types. *)

\* The part of the type invariant that no other argument needs.
Rest ==
    /\ expired \subseteq Packets /\ leased \subseteq Packets
    /\ aborted \subseteq Packets /\ spoke \subseteq Packets
    /\ approval \in [Packets -> {"none", "pending", "delivered", "refused"}]
    /\ policy \in [Packets -> Policies]
    /\ daemon \in {"up", "stopping", "down"}
    /\ waiting \in [Packets -> Nat]
    /\ deaths \in Nat /\ others \in Nat

\* Every step keeps that part.
LEMMA RestStep == ASSUME Rest, [Next]_vars PROVE Rest'
<1> USE DEF Rest, attemptVars, conclusions, grantVars, turnVars, boundVars
<1>1. ASSUME NEW p \in Packets, Rows(p) PROVE Rest'
  <2>1. CASE captureReviewPacket(p) \/ OperatorConcludes(p) \/ CancelReview(p) \/ GrantDelivered(p)
    BY <2>1 DEF captureReviewPacket, OperatorConcludes, CancelReview, GrantDelivered
  <2>2. CASE ApprovalRefused(p) \/ Expire(p) \/ LeaseExpires(p)
    BY <2>2 DEF ApprovalRefused, Expire, LeaseExpires
  <2>3. CASE \E decision \in Policies : ChangePolicy(p, decision)
    BY <2>3 DEF ChangePolicy
  <2>4. QED
    BY <1>1, <2>1, <2>2, <2>3 DEF Rows
<1>2. ASSUME NEW p \in Packets, Dispatch(p) PROVE Rest'
  <2>1. Granted(p)
    BY <1>2 DEF Dispatch, DispatchDeferred, DispatchBlocked, DispatchHeld, claimReviewAttempt,
                ClaimedTooLate, Free
  <2>2. waiting' \in [Packets -> Nat] /\ UNCHANGED <<expired, policy, daemon, aborted, deaths, others>>
    BY <2>1 DEF Granted
  <2>3. approval' \in [Packets -> {"none", "pending", "delivered", "refused"}]
    BY <1>2 DEF Dispatch, DispatchDeferred, DispatchBlocked, DispatchHeld, claimReviewAttempt,
                ClaimedTooLate
  <2>4. leased' \subseteq Packets /\ spoke' \subseteq Packets
    BY <1>2 DEF Dispatch, DispatchDeferred, DispatchBlocked, DispatchHeld, claimReviewAttempt,
                ClaimedTooLate
  <2>5. QED
    BY <2>2, <2>3, <2>4
<1>3. ASSUME NEW p \in Packets, Turn(p) \/ ReviewerConcludes(p) PROVE Rest'
  BY <1>3 DEF Turn, prepareChangeReviewTurn, TurnFails, TurnEnds, deliverReviewResult,
              ReviewerConcludes, GoTo, End, finishReviewAttempt
<1>4. CASE Tick
  BY <1>4 DEF Tick
<1>5. ASSUME NEW a \in Agents, Acquire(a) \/ Unlock(a) \/ OtherTurnEnds(a) PROVE Rest'
  BY <1>5 DEF Acquire, Unlock, OtherTurnEnds
<1>6. CASE Shutdown \/ Die \/ Restart
  BY <1>6 DEF Shutdown, Die, Restart
<1>7. CASE AllExpired \/ UNCHANGED vars
  BY <1>7 DEF AllExpired, vars
<1>8. QED
  BY <1>1, <1>2, <1>3, <1>4, <1>5, <1>6, <1>7 DEF Next, Others

\* The rows, the stages of the dispatchers and the leases stay in their domains; a lost or
\* repeated decrement of what waits, or an outcome no column holds, would leave them.
THEOREM TypeCorrect == Spec => []TypeOK
<1>1. Init => Rest
  BY DEF Init, Rest
<1>2. Rest /\ [Next]_vars => Rest'
  BY RestStep
<1>3. IInv /\ Rest => TypeOK
  BY DEF IInv, Core, Rest, TypeOK
<1>4. QED
  BY Invariance, <1>1, <1>2, <1>3, PTL DEF Spec
===============================================================================
