--------------------------- MODULE QuestionsProofs ---------------------------
(***************************************************************************)
(* Questions, for any questions, turns, responses and numbers of turns and *)
(* changes: what is told and written is what is recorded, a question and   *)
(* its approvals end with its turn, and nothing is released but by the     *)
(* policy of the moment.                                                   *)
(***************************************************************************)
EXTENDS Questions, TLAPS

Statuses == {"none", "pending", "delivering", "delivered", "ended"}

\* Who waits, waits for a question that is open.
Waited == \A q \in waiting : Pending(q)

\* With the daemon its waiters and its turn are gone.
Down == daemon = "down" => waiting = {} /\ turn = "none"

\* What is open or unconfirmed has a turn.
Owned == \A q \in Questions : Pending(q) \/ continuation[q] = "unconfirmed" => turnOf[q] \in Turns

\* An answer is held only of a question that was delivered, and with its proposal; what was
\* delivered is not held.
Proposed ==
    \A q \in Questions :
        /\ Captured(<<"answer", q>>) => q \in delivered /\ proposal[q] \in Responses
        /\ q \in delivered => outcome[q] # "absent" /\ approval[<<"delivery", q>>] # "pending"

Safe == TypeOK /\ OutcomeIsTold /\ NothingDangles /\ Waited /\ Down /\ Owned /\ Proposed

\* The rest of the state keeps its type and has no part in the invariant.
Apart ==
    /\ stale' \subseteq Approvals /\ policy' \in [Kinds -> Postures]
    /\ past' \subseteq Turns /\ routable' \in BOOLEAN /\ changes' \in Nat
    /\ sending' \in [Questions -> {"no", "paced", "sent"}]
    /\ finishing' \subseteq Approvals

SameTurn == UNCHANGED <<daemon, turn, aborted>>

LEMMA Keys == \A q \in Questions : <<"answer", q>> \in Approvals /\ <<"delivery", q>> \in Approvals
  BY DEF Approvals, Kinds

\* Closing a question for a reason, whatever became of its delivery approval and its proposal in
\* the same step, keeps the invariant.
LEMMA CloseKeeps ==
  ASSUME QuestionsAssumption, Safe, Apart, SameTurn,
         NEW q \in Questions, NEW why \in Closings, NEW ap \in [Approvals -> Statuses],
         \A k \in Approvals : ap[k] # approval[k] => k = <<"delivery", q>>,
         close(q, why, ap),
         proposal' \in [Questions -> Responses \cup {"none"}],
         \A x \in Questions : proposal'[x] # proposal[x] => Pending(x) /\ proposal'[x] \in Responses,
         written' = written
  PROVE  Safe'
<1> USE DEF Safe, Pending, Captured
<1>0. why # "pending" /\ why # "absent" /\ why \notin Responses /\ "pending" \notin Responses
  BY DEF QuestionsAssumption, Closings
<1>1. /\ outcome' = IF Pending(q) THEN [outcome EXCEPT ![q] = why] ELSE outcome
      /\ continuation' = IF Pending(q)
           THEN [continuation EXCEPT ![q] = IF why = "expired" THEN "unconfirmed" ELSE "interrupted"]
           ELSE continuation
      /\ approval' = [k \in Approvals |->
           IF ap[k] = "pending" /\ outcome'[k[2]] # "pending" THEN "ended" ELSE ap[k]]
      /\ turnOf' = turnOf /\ delivered' = delivered
  BY DEF close, closed, Retired
<1>2. /\ outcome'[q] # "pending"
      /\ \A x \in Questions : outcome'[x] # outcome[x] => x = q /\ Pending(q) /\ outcome'[x] = why
      /\ outcome' \in [Questions -> {"absent", "pending"} \cup Responses \cup Closings]
      /\ continuation' \in [Questions -> {"none", "waiting", "unconfirmed", "consumed", "interrupted"}]
      /\ \A x \in Questions : continuation'[x] # continuation[x] => x = q /\ Pending(q)
  BY <1>0, <1>1 DEF TypeOK
<1>3. /\ waiting' = {x \in waiting : ~(x = q /\ outcome'[x] # "pending")}
      /\ told' = [x \in Questions |-> IF x \in waiting /\ x = q THEN outcome'[x] ELSE told[x]]
  BY <1>2 DEF close, settled, TypeOK
<1>4. /\ approval' \in [Approvals -> Statuses]
      /\ \A x \in Questions :
           /\ Captured(<<"answer", x>>)' => Captured(<<"answer", x>>)
           /\ x # q => approval'[<<"delivery", x>>] \in {approval[<<"delivery", x>>], "ended"}
           /\ \A d \in Kinds : approval'[<<d, x>>] = "pending" => outcome'[x] = "pending"
           /\ approval'[<<"delivery", q>>] # "pending"
  <2>1. approval' \in [Approvals -> Statuses]
    BY <1>1 DEF Statuses
  <2>2. ASSUME NEW x \in Questions, NEW d \in Kinds
        PROVE  /\ <<d, x>> \in Approvals
               /\ approval'[<<d, x>>] = IF ap[<<d, x>>] = "pending" /\ outcome'[x] # "pending"
                                        THEN "ended" ELSE ap[<<d, x>>]
    BY <1>1 DEF Approvals
  <2>3. ASSUME NEW x \in Questions, NEW d \in Kinds, approval'[<<d, x>>] = "pending"
        PROVE  outcome'[x] = "pending"
    BY <2>2, <2>3
  <2>4. ASSUME NEW x \in Questions
        PROVE  Captured(<<"answer", x>>)' => Captured(<<"answer", x>>)
    <3>1. "answer" \in Kinds /\ <<"answer", x>> # <<"delivery", q>>
      BY DEF Kinds
    <3>2. ap[<<"answer", x>>] = approval[<<"answer", x>>]
      BY <2>2, <3>1
    <3> QED BY <2>2, <3>1, <3>2
  <2>5. ASSUME NEW x \in Questions, x # q
        PROVE  approval'[<<"delivery", x>>] \in {approval[<<"delivery", x>>], "ended"}
    <3>1. "delivery" \in Kinds /\ <<"delivery", x>> # <<"delivery", q>>
      BY <2>5 DEF Kinds
    <3> QED BY <2>2, <3>1
  <2>6. approval'[<<"delivery", q>>] # "pending"
    BY <2>3, <1>2 DEF Kinds
  <2> QED BY <2>1, <2>3, <2>4, <2>5, <2>6
<1>5. \A x \in waiting : Pending(x)
  BY DEF Waited
<1>6. TypeOK'
  <2>1. told' \in [Questions -> {"none"} \cup Responses \cup Closings]
    BY <1>0, <1>1, <1>2, <1>3, <1>5 DEF TypeOK
  <2> QED BY <1>1, <1>2, <1>3, <1>4, <2>1 DEF TypeOK, Apart, SameTurn, Statuses
<1>7. OutcomeIsTold'
  <2> SUFFICES ASSUME NEW x \in Questions
               PROVE  /\ told'[x] \in {"none", outcome'[x]} /\ written'[x] \in {"none", outcome'[x]}
                      /\ outcome'[x] \in Responses => proposal'[x] = outcome'[x]
    BY DEF OutcomeIsTold
  <2>1. told[x] \in {"none", outcome[x]} /\ written[x] \in {"none", outcome[x]}
    BY DEF OutcomeIsTold
  <2>2. outcome'[x] # outcome[x] => told[x] = "none" /\ written[x] = "none"
    BY <1>0, <1>2, <2>1 DEF TypeOK, Closings
  <2>3. told'[x] \in {"none", outcome'[x]} /\ written'[x] \in {"none", outcome'[x]}
    BY <1>3, <2>1, <2>2
  <2>4. outcome'[x] \in Responses => proposal'[x] = outcome'[x]
    BY <1>0, <1>2 DEF OutcomeIsTold
  <2> QED BY <2>3, <2>4
<1>8. NothingDangles'
  <2> SUFFICES ASSUME NEW x \in Questions
               PROVE  /\ Pending(x)' \/ continuation'[x] = "unconfirmed" =>
                              daemon = "down" \/ (turnOf[x] = turn /\ ~aborted)
                      /\ \A d \in Kinds : approval'[<<d, x>>] = "pending" => Pending(x)'
    BY <1>1 DEF NothingDangles, SameTurn
  <2>1. Pending(x)' \/ continuation'[x] = "unconfirmed" =>
            Pending(x) \/ continuation[x] = "unconfirmed"
    BY <1>2
  <2>2. Pending(x) \/ continuation[x] = "unconfirmed" =>
            daemon = "down" \/ (turnOf[x] = turn /\ ~aborted)
    BY DEF NothingDangles
  <2> QED BY <1>4, <2>1, <2>2
<1>9. Waited'
  BY <1>2, <1>3, <1>5 DEF Waited, TypeOK
<1>10. Down'
  BY <1>3 DEF Down, SameTurn
<1>11. Owned'
  BY <1>1, <1>2 DEF Owned
<1>12. Proposed'
  <2> SUFFICES ASSUME NEW x \in Questions
               PROVE  /\ Captured(<<"answer", x>>)' => x \in delivered /\ proposal'[x] \in Responses
                      /\ x \in delivered =>
                             outcome'[x] # "absent" /\ approval'[<<"delivery", x>>] # "pending"
    BY <1>1 DEF Proposed
  <2>1. Captured(<<"answer", x>>)' => x \in delivered /\ proposal[x] \in Responses
    BY <1>4 DEF Proposed
  <2>2. x \in delivered => outcome'[x] # "absent"
    BY <1>0, <1>2 DEF Proposed
  <2>3. x \in delivered => approval'[<<"delivery", x>>] # "pending"
    BY <1>4 DEF Proposed
  <2> QED BY <2>1, <2>2, <2>3
<1> QED BY <1>6, <1>7, <1>8, <1>9, <1>10, <1>11, <1>12

\* Accepting an answer of a delivered, open question, that its approval or nobody holds.
LEMMA AnswerKeeps ==
  ASSUME QuestionsAssumption, Safe, Apart, SameTurn,
         NEW q \in Questions, NEW r \in Responses,
         Pending(q), q \in delivered, answer(q, r),
         proposal' \in {proposal, [proposal EXCEPT ![q] = r]}, proposal'[q] = r,
         approval' \in {approval, [approval EXCEPT ![<<"answer", q>>] = "delivering"]},
         approval'[<<"answer", q>>] # "pending",
         Captured(<<"answer", q>>)' => Captured(<<"answer", q>>),
         written' = written
  PROVE  Safe'
<1> USE DEF Safe, Pending, Captured
<1>0. r # "pending" /\ r # "absent"
  BY DEF QuestionsAssumption
<1>1. /\ outcome' = [outcome EXCEPT ![q] = r]
      /\ continuation' = [continuation EXCEPT ![q] = "unconfirmed"]
      /\ turnOf' = turnOf /\ delivered' = delivered
  BY DEF answer
<1>2. /\ waiting' = waiting \ {q}
      /\ told' = [x \in Questions |-> IF x \in waiting /\ x = q THEN r ELSE told[x]]
  BY <1>0, <1>1 DEF answer, settled, TypeOK
<1>3. ASSUME NEW x \in Questions
      PROVE  /\ x # q => approval'[<<"answer", x>>] = approval[<<"answer", x>>]
             /\ approval'[<<"delivery", x>>] = approval[<<"delivery", x>>]
  <2>1. <<"delivery", x>> # <<"answer", q>> /\ (x # q => <<"answer", x>> # <<"answer", q>>)
    OBVIOUS
  <2> QED BY <2>1, Keys DEF TypeOK
<1>4. TypeOK'
  <2>1. approval' \in [Approvals -> {"none", "pending", "delivering", "delivered", "ended"}]
    BY DEF TypeOK
  <2> QED BY <1>1, <1>2, <2>1 DEF TypeOK, Apart, SameTurn
<1>5. OutcomeIsTold'
  <2> SUFFICES ASSUME NEW x \in Questions
               PROVE  /\ told'[x] \in {"none", outcome'[x]} /\ written'[x] \in {"none", outcome'[x]}
                      /\ outcome'[x] \in Responses => proposal'[x] = outcome'[x]
    BY DEF OutcomeIsTold
  <2>1. told[x] \in {"none", outcome[x]} /\ written[x] \in {"none", outcome[x]}
    BY DEF OutcomeIsTold
  <2>2. x = q => told[x] = "none" /\ written[x] = "none"
    BY <2>1 DEF TypeOK, Closings, QuestionsAssumption
  <2>3. x # q => proposal'[x] = proposal[x]
    BY DEF TypeOK
  <2> QED BY <1>1, <1>2, <2>1, <2>2, <2>3 DEF OutcomeIsTold, TypeOK
<1>6. NothingDangles'
  <2> SUFFICES ASSUME NEW x \in Questions
               PROVE  /\ Pending(x)' \/ continuation'[x] = "unconfirmed" =>
                              daemon = "down" \/ (turnOf[x] = turn /\ ~aborted)
                      /\ \A d \in Kinds : approval'[<<d, x>>] = "pending" => Pending(x)'
    BY <1>1 DEF NothingDangles, SameTurn
  <2>1. Pending(x)' \/ continuation'[x] = "unconfirmed" =>
            Pending(x) \/ continuation[x] = "unconfirmed"
    BY <1>1 DEF TypeOK
  <2>2. Pending(x) \/ continuation[x] = "unconfirmed" =>
            daemon = "down" \/ (turnOf[x] = turn /\ ~aborted)
    BY DEF NothingDangles
  <2>3. approval[<<"delivery", q>>] # "pending"
    BY DEF Proposed
  <2>4. ASSUME NEW d \in Kinds, approval'[<<d, x>>] = "pending" PROVE Pending(x)'
    <3>1. approval[<<d, x>>] = "pending" /\ x # q
      BY <1>3, <2>3, <2>4 DEF Kinds
    <3>2. Pending(x)
      BY <3>1 DEF NothingDangles
    <3> QED BY <1>1, <3>1, <3>2 DEF TypeOK
  <2> QED BY <2>1, <2>2, <2>4
<1>7. Waited'
  BY <1>1, <1>2 DEF Waited, TypeOK
<1>8. Down'
  BY <1>2 DEF Down, SameTurn
<1>9. Owned'
  BY <1>1 DEF Owned, TypeOK
<1>10. Proposed'
  <2> SUFFICES ASSUME NEW x \in Questions
               PROVE  /\ Captured(<<"answer", x>>)' => x \in delivered /\ proposal'[x] \in Responses
                      /\ x \in delivered =>
                             outcome'[x] # "absent" /\ approval'[<<"delivery", x>>] # "pending"
    BY <1>1 DEF Proposed
  <2>1. x # q => proposal'[x] = proposal[x]
    BY DEF TypeOK
  <2>2. Captured(<<"answer", x>>)' => Captured(<<"answer", x>>)
    BY <1>3
  <2>3. Captured(<<"answer", x>>) => x \in delivered /\ proposal'[x] \in Responses
    BY <2>1, proposal'[q] = r DEF Proposed
  <2>4. x \in delivered => outcome'[x] # "absent" /\ approval'[<<"delivery", x>>] # "pending"
    <3>1. x \in delivered => outcome[x] # "absent" /\ approval[<<"delivery", x>>] # "pending"
      BY DEF Proposed
    <3>2. outcome'[x] \in {outcome[x], r}
      BY <1>1 DEF TypeOK
    <3> QED BY <1>0, <1>3, <3>1, <3>2
  <2> QED BY <2>2, <2>3, <2>4
<1> QED BY <1>4, <1>5, <1>6, <1>7, <1>8, <1>9, <1>10

\* A step that settles nothing keeps the invariant if what it does to approvals does.
LEMMA StillKeeps ==
  ASSUME Safe, Apart, SameTurn,
         UNCHANGED <<outcome, continuation, turnOf, waiting, told>>,
         approval' \in [Approvals -> Statuses],
         delivered' \subseteq Questions,
         proposal' \in [Questions -> Responses \cup {"none"}],
         written' \in [Questions -> {"none"} \cup Responses \cup Closings],
         \A x \in Questions :
             /\ written'[x] \in {"none", outcome[x]}
             /\ proposal'[x] # proposal[x] => outcome[x] \notin Responses
             /\ \A d \in Kinds : approval'[<<d, x>>] = "pending" => Pending(x),
         Proposed'
  PROVE  Safe'
<1> USE DEF Safe, Pending
<1>1. TypeOK'
  BY DEF TypeOK, Apart, SameTurn, Statuses
<1>2. OutcomeIsTold'
  BY DEF OutcomeIsTold
<1>3. NothingDangles'
  BY DEF NothingDangles, SameTurn
<1>4. Waited' /\ Down' /\ Owned'
  BY DEF Waited, Down, Owned, SameTurn
<1> QED BY <1>1, <1>2, <1>3, <1>4

\* What settles every open question and confirms none, as the end of a turn and a start do.
LEMMA EndKeeps ==
  ASSUME QuestionsAssumption, Safe, Apart, NEW why \in Closings, NEW mine \in SUBSET Questions,
         \A x \in Questions : Pending(x) \/ continuation[x] = "unconfirmed" => x \in mine,
         outcome' = [x \in Questions |-> IF x \in mine /\ Pending(x) THEN why ELSE outcome[x]],
         continuation' = [x \in Questions |->
             IF x \in mine /\ (Pending(x) \/ continuation[x] = "unconfirmed") THEN "interrupted"
             ELSE continuation[x]],
         approval' = Retired(approval), settled(mine),
         UNCHANGED <<turnOf, delivered, proposal, written>>,
         daemon' = "up", turn' \in Turns \cup {"none"}, aborted' \in BOOLEAN
  PROVE  Safe'
<1> USE DEF Safe, Pending, Captured
<1>0. why # "pending" /\ why # "absent" /\ why \notin Responses /\ "pending" \notin Responses
  BY DEF QuestionsAssumption, Closings
<1>1. \A x \in Questions : /\ outcome'[x] # "pending" /\ continuation'[x] # "unconfirmed"
                           /\ outcome'[x] = outcome[x] \/ (outcome[x] = "pending" /\ outcome'[x] = why)
  BY <1>0 DEF TypeOK
<1>2. approval' = [k \in Approvals |-> IF approval[k] = "pending" THEN "ended" ELSE approval[k]]
  <2>1. \A k \in Approvals : k[2] \in Questions
    BY DEF Approvals
  <2> QED BY <1>1, <2>1 DEF Retired
<1>3. waiting \subseteq mine
  BY DEF Waited, TypeOK
<1>4. /\ waiting' = {}
      /\ told' = [x \in Questions |-> IF x \in waiting THEN outcome'[x] ELSE told[x]]
  BY <1>1, <1>3 DEF settled, TypeOK
<1>5. \A x \in waiting : outcome'[x] = why
  BY <1>0, <1>3 DEF Waited, TypeOK
<1>6. TypeOK'
  <2>1. told' \in [Questions -> {"none"} \cup Responses \cup Closings]
    BY <1>4, <1>5 DEF TypeOK
  <2>2. approval' \in [Approvals -> {"none", "pending", "delivering", "delivered", "ended"}]
    BY <1>2 DEF TypeOK
  <2>3. outcome' \in [Questions -> {"absent", "pending"} \cup Responses \cup Closings]
    BY DEF TypeOK
  <2>4. continuation' \in [Questions -> {"none", "waiting", "unconfirmed", "consumed", "interrupted"}]
    BY DEF TypeOK
  <2> QED BY <1>4, <2>1, <2>2, <2>3, <2>4 DEF TypeOK, Apart
<1>7. OutcomeIsTold'
  <2> SUFFICES ASSUME NEW x \in Questions
               PROVE  /\ told'[x] \in {"none", outcome'[x]} /\ written'[x] \in {"none", outcome'[x]}
                      /\ outcome'[x] \in Responses => proposal'[x] = outcome'[x]
    BY DEF OutcomeIsTold
  <2>1. told[x] \in {"none", outcome[x]} /\ written[x] \in {"none", outcome[x]}
    BY DEF OutcomeIsTold
  <2>2. Pending(x) => told[x] = "none" /\ written[x] = "none"
    BY <1>0, <2>1 DEF TypeOK, Closings
  <2> QED BY <1>0, <1>1, <1>4, <2>1, <2>2 DEF OutcomeIsTold
<1>8. NothingDangles'
  <2>1. \A x \in Questions, d \in Kinds : <<d, x>> \in Approvals
    BY DEF Approvals
  <2> QED BY <1>1, <1>2, <2>1 DEF NothingDangles
<1>9. Waited' /\ Down' /\ Owned'
  BY <1>1, <1>4 DEF Waited, Down, Owned
<1>10. Proposed'
  BY <1>0, <1>1, <1>2, Keys DEF Proposed
<1> QED BY <1>6, <1>7, <1>8, <1>9, <1>10

-----------------------------------------------------------------------------
(* The steps. *)

\* The steps of a send to Telegram: it leaves, it is marked delivered, it is refused, or it fails.
LEMMA SendKeeps ==
  ASSUME QuestionsAssumption, Safe, NEW q \in Questions, Delivery(q)
  PROVE  Safe'
<1> USE DEF Safe
<1> DEFINE k == <<"delivery", q>>
<1>0. k \in Approvals
  BY Keys
<1>1. CASE Send(q)
  <2>1. Apart /\ SameTurn
    BY <1>1 DEF Send, Apart, SameTurn, TypeOK, process
  <2>2. UNCHANGED <<outcome, continuation, turnOf, waiting, told, approval, delivered, proposal,
                    written>>
    BY <1>1 DEF Send, rows
  <2>3. Proposed'
    BY <2>2 DEF Proposed, Captured
  <2> QED BY <2>1, <2>2, <2>3, StillKeeps DEF TypeOK, OutcomeIsTold, NothingDangles, Statuses
<1>2. CASE markDelivered(q)
  <2>1. Apart /\ SameTurn
    BY <1>0, <1>2 DEF markDelivered, Apart, SameTurn, TypeOK, process
  <2>2. /\ UNCHANGED <<outcome, continuation, turnOf, waiting, told, approval, proposal, written>>
        /\ delivered' = delivered \cup {q}
    BY <1>2 DEF markDelivered, rows
  <2>3. outcome[q] = "pending" /\ approval[k] # "pending"
    BY <1>2 DEF markDelivered, Authorized, Ready, Pending, Allowed, Granted, Captured
  <2>4. Proposed'
    BY <2>2, <2>3 DEF Proposed, Captured
  <2> QED BY <2>1, <2>2, <2>4, StillKeeps DEF TypeOK, OutcomeIsTold, NothingDangles, Statuses
<1>3. ASSUME NEW why \in {"route_unavailable", "policy_denied"}, NEW captured \in BOOLEAN,
             sending[q] # "no", SendFails(q, why, captured)
      PROVE  Safe'
  <2>1. Apart /\ SameTurn
    BY <1>3 DEF SendFails, Apart, SameTurn, TypeOK, process
  <2>2. UNCHANGED <<proposal, written>>
    BY <1>3 DEF SendFails
  <2>3. CASE Direct(q)
    <3> DEFINE ap == IF captured THEN With(k) ELSE approval
    <3>1. close(q, why, ap)
      BY <1>3, <2>3 DEF SendFails
    <3>2. ap \in [Approvals -> Statuses] /\ \A j \in Approvals : ap[j] # approval[j] => j = k
      BY <1>0 DEF With, TypeOK, Statuses
    <3>3. why \in Closings
      BY DEF Closings
    <3> HIDE DEF ap
    <3> QED BY <2>1, <2>2, <3>1, <3>2, <3>3, CloseKeeps DEF TypeOK
  <2>4. CASE ~Direct(q)
    <3>1. /\ approval' = [approval EXCEPT ![k] = "ended"]
          /\ UNCHANGED <<outcome, continuation, turnOf, delivered, waiting, told>>
      BY <1>3, <2>4 DEF SendFails
    <3>2. ASSUME NEW x \in Questions, NEW d \in Kinds
          PROVE  approval'[<<d, x>>] \in {approval[<<d, x>>], "ended"}
      BY <3>1 DEF Approvals, TypeOK
    <3>3. \A x \in Questions : approval'[<<"answer", x>>] = approval[<<"answer", x>>]
      BY <3>1, Keys DEF TypeOK
    <3>4. Proposed'
      BY <2>2, <3>1, <3>2, <3>3 DEF Proposed, Captured, Kinds
    <3>5. approval' \in [Approvals -> Statuses]
      BY <3>1 DEF TypeOK, Statuses
    <3>6. \A x \in Questions, d \in Kinds : approval'[<<d, x>>] = "pending" => Pending(x)
      BY <3>2 DEF NothingDangles
    <3> QED BY <2>1, <2>2, <3>1, <3>4, <3>5, <3>6, StillKeeps DEF TypeOK, OutcomeIsTold
  <2> QED BY <2>3, <2>4
<1>4. CASE Refused(q) /\ Pending(q) /\ ~Reachable /\ ~Direct(q)
  <2> DEFINE ap == [approval EXCEPT ![k] = "ended"]
  <2>1. close(q, "route_unavailable", ap) /\ UNCHANGED <<proposal, written>>
    BY <1>4 DEF Refused
  <2>2. Apart /\ SameTurn
    BY <1>4 DEF Refused, Apart, SameTurn, TypeOK, process
  <2>3. ap \in [Approvals -> Statuses] /\ \A j \in Approvals : ap[j] # approval[j] => j = k
    BY <1>0 DEF TypeOK, Statuses
  <2>4. "route_unavailable" \in Closings
    BY DEF Closings
  <2> HIDE DEF ap
  <2> QED BY <2>1, <2>2, <2>3, <2>4, CloseKeeps DEF TypeOK
<1>5. CASE Refused(q) /\ ~(Pending(q) /\ ~Reachable /\ ~Direct(q))
  <2> DEFINE why == IF Ready(q) /\ policy["delivery"] = "deny" THEN "policy_denied"
                    ELSE "route_unavailable"
             captured == Ready(q) /\ policy["delivery"] = "ask"
  <2>1. SendFails(q, why, captured) /\ sending[q] # "no"
    BY <1>5 DEF Refused
  <2>2. why \in {"route_unavailable", "policy_denied"} /\ captured \in BOOLEAN
    BY DEF Ready, Pending, Reachable
  <2> HIDE DEF why, captured
  <2> QED BY <1>3, <2>1, <2>2
<1>6. CASE Interrupted(q)
  BY <1>3, <1>6 DEF Interrupted
<1> QED BY <1>1, <1>2, <1>4, <1>5, <1>6 DEF Delivery

\* Asking: the row, its waiter and what its delivery came to, or the row alone.
LEMMA AskKeeps ==
  ASSUME QuestionsAssumption, Safe, NEW q \in Questions, ask(q) \/ askAgain(q)
  PROVE  Safe'
<1> USE DEF Safe, Pending
<1> DEFINE k == <<"delivery", q>>
           why == IF policy["delivery"] = "deny" /\ ask(q) THEN "policy_denied" ELSE "pending"
<1>0. why \in {"pending", "policy_denied"} /\ why \notin Responses /\ k \in Approvals
  BY Keys DEF QuestionsAssumption
<1>1. /\ daemon = "up" /\ turn \in Turns /\ ~aborted /\ outcome[q] = "absent"
      /\ turnOf' = [turnOf EXCEPT ![q] = turn]
      /\ outcome' = [outcome EXCEPT ![q] = why]
      /\ continuation' =
             [continuation EXCEPT ![q] = IF why = "pending" THEN "waiting" ELSE "interrupted"]
      /\ UNCHANGED <<proposal, written>>
      /\ SameTurn
  <2>1. CASE ask(q)
    BY <2>1 DEF ask, Reachable, process, SameTurn, TypeOK
  <2>2. CASE ~ask(q)
    BY <2>2 DEF askAgain, Reachable, process, SameTurn, TypeOK
  <2> QED BY <2>1, <2>2
<1>2. Apart
  BY DEF ask, askAgain, process, TypeOK, Apart
<1>3. /\ waiting' \subseteq waiting \cup {q}
      /\ q \in waiting' => why = "pending" \/ q \in waiting
      /\ told' \in {told, [told EXCEPT ![q] = why]}
      /\ told'[q] = why => why = "policy_denied"
  BY <1>0 DEF ask, askAgain, TypeOK, Closings, QuestionsAssumption
<1>4. /\ approval' \in {approval, With(k)}
      /\ approval'[k] = "pending" => why = "pending" \/ approval[k] = "pending"
      /\ delivered' \subseteq delivered \cup {q}
      /\ q \in delivered' \ delivered => approval' = approval /\ approval[k] = "none"
  BY DEF ask, askAgain, With, Allowed, Captured, TypeOK
<1> HIDE DEF why
<1>5. told[q] = "none" /\ written[q] = "none" /\ q \notin waiting /\ q \notin delivered
  <2>1. told[q] \in {"none", "absent"} /\ written[q] \in {"none", "absent"}
    BY <1>1 DEF OutcomeIsTold
  <2>2. told[q] # "absent" /\ written[q] # "absent"
    BY DEF TypeOK, Closings, QuestionsAssumption
  <2> QED BY <1>1, <2>1, <2>2 DEF Waited, Proposed
<1>6. ASSUME NEW x \in Questions
      PROVE  /\ approval'[<<"answer", x>>] = approval[<<"answer", x>>]
             /\ x # q => approval'[<<"delivery", x>>] = approval[<<"delivery", x>>]
  <2>1. <<"answer", x>> # k /\ (x # q => <<"delivery", x>> # k)
    OBVIOUS
  <2>2. ASSUME NEW j \in Approvals, j # k PROVE approval'[j] = approval[j]
    BY <1>4, <2>2 DEF With, TypeOK
  <2> QED BY <2>1, <2>2, Keys
<1>7. TypeOK'
  <2>1. told' \in [Questions -> {"none"} \cup Responses \cup Closings]
    <3>1. CASE told' = told
      BY <3>1 DEF TypeOK
    <3>2. CASE told' = [told EXCEPT ![q] = why]
      <4>1. told'[q] = why
        BY <3>2 DEF TypeOK
      <4>2. why \in Closings
        BY <1>3, <4>1 DEF Closings
      <4> QED BY <3>2, <4>2 DEF TypeOK
    <3> QED BY <1>3, <3>1, <3>2
  <2>2. outcome' \in [Questions -> {"absent", "pending"} \cup Responses \cup Closings]
    BY <1>0, <1>1 DEF TypeOK, Closings
  <2>3. /\ continuation' \in [Questions ->
              {"none", "waiting", "unconfirmed", "consumed", "interrupted"}]
        /\ turnOf' \in [Questions -> Turns \cup {"none"}]
    BY <1>1 DEF TypeOK
  <2>4. approval' \in [Approvals -> {"none", "pending", "delivering", "delivered", "ended"}]
    BY <1>0, <1>4 DEF TypeOK, With
  <2>5. delivered' \subseteq Questions /\ waiting' \subseteq Questions
    BY <1>3, <1>4 DEF TypeOK
  <2> QED BY <1>1, <1>2, <2>1, <2>2, <2>3, <2>4, <2>5 DEF TypeOK, Apart, SameTurn
<1>8. OutcomeIsTold'
  <2> SUFFICES ASSUME NEW x \in Questions
               PROVE  /\ told'[x] \in {"none", outcome'[x]} /\ written'[x] \in {"none", outcome'[x]}
                      /\ outcome'[x] \in Responses => proposal'[x] = outcome'[x]
    BY DEF OutcomeIsTold
  <2>1. CASE x = q
    BY <1>0, <1>1, <1>3, <1>5, <2>1 DEF TypeOK
  <2>2. CASE x # q
    <3>1. told'[x] = told[x] /\ outcome'[x] = outcome[x]
      BY <1>1, <1>3, <2>2 DEF TypeOK
    <3> QED BY <1>1, <3>1 DEF OutcomeIsTold
  <2> QED BY <2>1, <2>2
<1>9. NothingDangles'
  <2> SUFFICES ASSUME NEW x \in Questions
               PROVE  /\ Pending(x)' \/ continuation'[x] = "unconfirmed" =>
                              turnOf'[x] = turn /\ ~aborted
                      /\ \A d \in Kinds : approval'[<<d, x>>] = "pending" => Pending(x)'
    BY <1>1 DEF NothingDangles, SameTurn
  <2>1. CASE x = q
    <3>1. approval[<<"answer", q>>] # "pending" /\ approval[k] # "pending"
      BY <1>1 DEF NothingDangles, Kinds
    <3> QED BY <1>1, <1>4, <1>6, <2>1, <3>1 DEF TypeOK, Kinds
  <2>2. CASE x # q
    <3>1. \A d \in Kinds : approval'[<<d, x>>] = approval[<<d, x>>]
      BY <1>6, <2>2 DEF Kinds
    <3>2. outcome'[x] = outcome[x] /\ continuation'[x] = continuation[x] /\ turnOf'[x] = turnOf[x]
      BY <1>1, <2>2 DEF TypeOK
    <3> QED BY <1>1, <3>1, <3>2 DEF NothingDangles
  <2> QED BY <2>1, <2>2
<1>10. Waited'
  BY <1>1, <1>3, <1>5 DEF Waited, TypeOK
<1>11. Down' /\ Owned'
  BY <1>1 DEF Down, SameTurn, Owned, TypeOK
<1>12. Proposed'
  <2> SUFFICES ASSUME NEW x \in Questions
               PROVE  /\ Captured(<<"answer", x>>)' => x \in delivered' /\ proposal'[x] \in Responses
                      /\ x \in delivered' =>
                             outcome'[x] # "absent" /\ approval'[<<"delivery", x>>] # "pending"
    BY DEF Proposed
  <2>1. delivered \subseteq delivered'
    BY DEF ask, askAgain
  <2>2. Captured(<<"answer", x>>)' => x \in delivered' /\ proposal'[x] \in Responses
    BY <1>1, <1>6, <2>1 DEF Proposed, Captured
  <2>3. x \in delivered' => outcome'[x] # "absent" /\ approval'[<<"delivery", x>>] # "pending"
    <3>1. CASE x = q
      BY <1>0, <1>1, <1>4, <1>5, <3>1 DEF TypeOK
    <3>2. CASE x # q
      <4>1. outcome'[x] = outcome[x] /\ approval'[<<"delivery", x>>] = approval[<<"delivery", x>>]
        BY <1>1, <1>6, <3>2 DEF TypeOK
      <4>2. x \in delivered' => x \in delivered
        BY <1>4, <3>2
      <4> QED BY <4>1, <4>2 DEF Proposed
    <3> QED BY <3>1, <3>2
  <2> QED BY <2>2, <2>3
<1> QED BY <1>7, <1>8, <1>9, <1>10, <1>11, <1>12

\* Answers and decisions.
LEMMA RespondKeeps ==
  ASSUME QuestionsAssumption, Safe, NEW q \in Questions, NEW r \in Responses, respond(q, r)
  PROVE  Safe'
<1> USE DEF Safe
<1> DEFINE k == <<"answer", q>>
<1>1. Apart /\ SameTurn /\ written' = written
  BY DEF respond, process, Apart, SameTurn, TypeOK
<1>2. /\ Pending(q) /\ q \in delivered /\ ~Captured(k) /\ k \in Approvals
      /\ proposal' = [proposal EXCEPT ![q] = r] /\ proposal'[q] = r
  BY Keys DEF respond, Ready, TypeOK
<1>3. CASE answer(q, r) /\ UNCHANGED approval
  BY <1>1, <1>2, <1>3, AnswerKeeps DEF Captured
<1>4. CASE /\ approval' = With(k)
           /\ UNCHANGED <<outcome, continuation, turnOf, delivered, waiting, told>>
  <2>1. approval' \in [Approvals -> Statuses]
    BY <1>2, <1>4 DEF With, TypeOK, Statuses
  <2>2. ASSUME NEW x \in Questions
        PROVE  /\ approval'[<<"delivery", x>>] = approval[<<"delivery", x>>]
               /\ x # q => approval'[<<"answer", x>>] = approval[<<"answer", x>>]
    <3>1. ASSUME NEW j \in Approvals, j # k PROVE approval'[j] = approval[j]
      BY <1>4, <3>1 DEF With, TypeOK
    <3>2. <<"delivery", x>> # k /\ (x # q => <<"answer", x>> # k)
      OBVIOUS
    <3> QED BY <3>1, <3>2, Keys
  <2>3. \A x \in Questions, d \in Kinds : approval'[<<d, x>>] = "pending" => Pending(x)
    BY <1>2, <2>2 DEF NothingDangles, Kinds
  <2>4. Proposed'
    <3> SUFFICES ASSUME NEW x \in Questions
                 PROVE  /\ Captured(<<"answer", x>>)' => x \in delivered /\ proposal'[x] \in Responses
                        /\ x \in delivered =>
                               outcome[x] # "absent" /\ approval'[<<"delivery", x>>] # "pending"
      BY <1>4 DEF Proposed
    <3>1. CASE x = q
      BY <1>2, <2>2, <3>1 DEF Proposed
    <3>2. CASE x # q
      BY <1>2, <2>2, <3>2 DEF Proposed, Captured, TypeOK
    <3> QED BY <3>1, <3>2
  <2>5. \A x \in Questions : proposal'[x] # proposal[x] => outcome[x] \notin Responses
    BY <1>2 DEF Pending, QuestionsAssumption, TypeOK
  <2>6. proposal' \in [Questions -> Responses \cup {"none"}]
    BY <1>2 DEF TypeOK
  <2> QED BY <1>1, <1>4, <2>1, <2>3, <2>4, <2>5, <2>6, StillKeeps DEF TypeOK, OutcomeIsTold
<1>5. CASE close(q, "policy_denied", approval)
  <2>1. "policy_denied" \in Closings
    BY DEF Closings
  <2>2. \A x \in Questions : proposal'[x] # proposal[x] => Pending(x) /\ proposal'[x] \in Responses
    BY <1>2 DEF TypeOK
  <2>3. proposal' \in [Questions -> Responses \cup {"none"}] /\ approval \in [Approvals -> Statuses]
    BY <1>2 DEF TypeOK, Statuses
  <2> QED BY <1>1, <1>5, <2>1, <2>2, <2>3, CloseKeeps
<1> QED BY <1>3, <1>4, <1>5 DEF respond

LEMMA ApproveKeeps ==
  ASSUME QuestionsAssumption, Safe, NEW k \in Approvals, Approve(k)
  PROVE  Safe'
<1> USE DEF Safe
<1> DEFINE q == k[2]
<1>1. SameTurn /\ written' = written
  BY DEF Approve, rows, process, SameTurn
<1>2. /\ q \in Questions /\ k[1] \in Kinds /\ k = <<k[1], q>>
      /\ Pending(q) /\ approval[k] = "pending"
  BY DEF Approve, Approvals, Ready
<1>3. Apart
  <2>1. finishing' \subseteq Approvals /\ sending' \in [Questions -> {"no", "paced", "sent"}]
    BY <1>2 DEF Approve, TypeOK
  <2> QED BY <2>1 DEF Approve, process, Apart, TypeOK
<1>4. ASSUME NEW v \in {"ended", "delivering"}, approval' = [approval EXCEPT ![k] = v],
             UNCHANGED <<outcome, continuation, turnOf, waiting, told, proposal>>,
             delivered' \in {delivered, delivered \cup {q}},
             delivered' # delivered => k[1] = "delivery"
      PROVE  Safe'
  <2>1. approval' \in [Approvals -> Statuses] /\ approval'[k] = v
    BY <1>4 DEF TypeOK, Statuses
  <2>2. ASSUME NEW j \in Approvals, j # k PROVE approval'[j] = approval[j]
    BY <1>4, <2>2 DEF TypeOK
  <2>3. ASSUME NEW x \in Questions, NEW d \in Kinds
        PROVE  /\ approval'[<<d, x>>] = "pending" => approval[<<d, x>>] = "pending"
               /\ Captured(<<d, x>>)' => Captured(<<d, x>>)
    <3>1. <<d, x>> \in Approvals
      BY DEF Approvals
    <3> QED BY <1>2, <2>1, <2>2, <3>1 DEF Captured
  <2>4. Proposed'
    <3> SUFFICES ASSUME NEW x \in Questions
                 PROVE  /\ Captured(<<"answer", x>>)' => x \in delivered' /\ proposal[x] \in Responses
                        /\ x \in delivered' =>
                               outcome[x] # "absent" /\ approval'[<<"delivery", x>>] # "pending"
      BY <1>4 DEF Proposed
    <3>1. Captured(<<"answer", x>>)' => x \in delivered' /\ proposal[x] \in Responses
      BY <1>4, <2>3 DEF Proposed, Kinds
    <3>2. x \in delivered => outcome[x] # "absent" /\ approval'[<<"delivery", x>>] # "pending"
      BY <2>3 DEF Proposed, Kinds
    <3>3. k[1] = "delivery" => outcome[q] # "absent" /\ approval'[<<"delivery", q>>] # "pending"
      BY <1>2, <2>1 DEF Pending
    <3> QED BY <1>4, <3>1, <3>2, <3>3
  <2>5. delivered' \subseteq Questions
    BY <1>2, <1>4 DEF TypeOK
  <2>6. \A x \in Questions, d \in Kinds : approval'[<<d, x>>] = "pending" => Pending(x)
    BY <2>3 DEF NothingDangles
  <2> QED BY <1>1, <1>3, <1>4, <2>1, <2>4, <2>5, <2>6, StillKeeps DEF TypeOK, OutcomeIsTold
<1>5. CASE policy[k[1]] # "ask" \/ k \in stale
  BY <1>4, <1>5 DEF Approve, rows
<1>6. CASE ~(policy[k[1]] # "ask" \/ k \in stale) /\ k[1] = "answer"
  <2>1. /\ approval' = [approval EXCEPT ![<<"answer", q>>] = "delivering"]
        /\ answer(q, proposal[q]) /\ UNCHANGED proposal
    BY <1>2, <1>6 DEF Approve
  <2>2. q \in delivered /\ proposal[q] \in Responses /\ Captured(<<"answer", q>>)
    BY <1>2, <1>6 DEF Proposed, Captured
  <2>3. approval'[<<"answer", q>>] # "pending"
    BY <1>2, <2>1, Keys DEF TypeOK
  <2> QED BY <1>1, <1>2, <1>3, <2>1, <2>2, <2>3, AnswerKeeps
<1>7. CASE ~(policy[k[1]] # "ask" \/ k \in stale) /\ k[1] = "delivery"
  <2>1. /\ approval' = [approval EXCEPT ![k] = "delivering"]
        /\ UNCHANGED <<outcome, continuation, turnOf, waiting, told, proposal>>
        /\ delivered' \in {delivered, delivered \cup {q}}
    BY <1>7 DEF Approve
  <2> QED BY <1>4, <1>7, <2>1
<1> QED BY <1>2, <1>5, <1>6, <1>7 DEF Kinds

\* The recheck, an invalid route and the deadline close a question.
LEMMA RecheckKeeps ==
  ASSUME QuestionsAssumption, Safe, NEW q \in Questions,
         CloseUnready(q) \/ reconcile(q) \/ Expire(q)
  PROVE  Safe'
<1>1. Apart /\ SameTurn /\ UNCHANGED <<proposal, written>>
  BY DEF CloseUnready, reconcile, Expire, process, Apart, SameTurn, Safe, TypeOK
<1>2. approval \in [Approvals -> Statuses] /\ proposal \in [Questions -> Responses \cup {"none"}]
  BY DEF Safe, TypeOK, Statuses
<1>3. PICK why \in Closings : close(q, why, approval)
  BY DEF CloseUnready, reconcile, Expire, Closings
<1> QED BY <1>1, <1>2, <1>3, CloseKeeps

\* An approval ends otherwise, the worker writes, and what operators change outside.
LEMMA OtherKeeps ==
  ASSUME QuestionsAssumption, Safe,
         \/ \E k \in Approvals : finishDelivery(k) \/ decide(k)
         \/ \E q \in Questions : Write(q)
         \/ PolicyChanges \/ RouteChanges
  PROVE  Safe'
<1> USE DEF Safe
<1>1. ASSUME NEW k \in Approvals, finishDelivery(k) \/ decide(k)
      PROVE  Safe'
  <2>1. Apart /\ SameTurn /\ UNCHANGED <<rows, waiting, told, written>>
    BY <1>1 DEF finishDelivery, decide, process, Apart, SameTurn, TypeOK
  <2>2. PICK v \in {"delivered", "ended"} : approval' = [approval EXCEPT ![k] = v]
    BY <1>1 DEF finishDelivery, decide
  <2>3. approval' \in [Approvals -> Statuses]
    BY <2>2 DEF TypeOK, Statuses
  <2>4. Captured(k)
    BY <1>1 DEF finishDelivery, decide, Captured
  <2>5. ASSUME NEW x \in Questions, NEW d \in Kinds
        PROVE  /\ approval'[<<d, x>>] = "pending" => approval[<<d, x>>] = "pending"
               /\ Captured(<<d, x>>)' => Captured(<<d, x>>)
    <3>1. <<d, x>> \in Approvals
      BY DEF Approvals
    <3> QED BY <2>2, <2>4, <3>1 DEF TypeOK, Captured
  <2>6. Proposed'
    BY <2>1, <2>5 DEF rows, Proposed, Kinds
  <2>7. \A x \in Questions, d \in Kinds : approval'[<<d, x>>] = "pending" => Pending(x)
    BY <2>5 DEF NothingDangles
  <2> QED BY <2>1, <2>3, <2>6, <2>7, StillKeeps DEF rows, TypeOK, OutcomeIsTold
<1>2. ASSUME NEW q \in Questions, Write(q)
      PROVE  Safe'
  <2>1. /\ Apart /\ SameTurn /\ UNCHANGED <<rows, approval, waiting, told>>
        /\ written' = [written EXCEPT ![q] = told[q]]
    BY <1>2 DEF Write, process, Apart, SameTurn, TypeOK
  <2>2. Proposed'
    BY <2>1 DEF rows, Proposed, Captured
  <2>3. /\ written' \in [Questions -> {"none"} \cup Responses \cup Closings]
        /\ \A x \in Questions : written'[x] \in {"none", outcome[x]}
    BY <2>1 DEF TypeOK, OutcomeIsTold
  <2> QED BY <2>1, <2>2, <2>3, StillKeeps DEF rows, TypeOK, NothingDangles, Statuses
<1>3. CASE PolicyChanges \/ RouteChanges
  <2>1. Apart
    <3>1. CASE PolicyChanges
      <4>1. policy' \in [Kinds -> Postures] /\ stale' \subseteq Approvals
        BY <3>1 DEF PolicyChanges, TypeOK
      <4> QED BY <3>1, <4>1 DEF PolicyChanges, Apart, TypeOK
    <3>2. CASE RouteChanges
      BY <3>2 DEF RouteChanges, Apart, TypeOK
    <3> QED BY <1>3, <3>1, <3>2
  <2>2. SameTurn /\ UNCHANGED <<rows, approval, waiting, told, written>>
    BY <1>3 DEF PolicyChanges, RouteChanges, SameTurn
  <2>3. Proposed'
    BY <2>2 DEF rows, Proposed, Captured
  <2> QED BY <2>1, <2>2, <2>3, StillKeeps DEF rows, TypeOK, OutcomeIsTold, NothingDangles, Statuses
<1> QED BY <1>1, <1>2, <1>3

\* The host of a turn is attached, its worker confirms, the turn is aborted or ends, and the
\* daemon dies and starts.
LEMMA TurnKeeps ==
  ASSUME QuestionsAssumption, Safe,
         \/ \E t \in Turns : attach(t)
         \/ \E q \in Questions : markConsumed(q)
         \/ Abort \/ EndTurn \/ Die \/ Boot
  PROVE  Safe'
<1> USE DEF Safe
<1>1. ASSUME NEW t \in Turns, attach(t)
      PROVE  Safe'
  <2>1. \A x \in Questions : ~Pending(x) /\ continuation[x] # "unconfirmed"
    BY <1>1 DEF attach, NothingDangles, Owned, QuestionsAssumption
  <2>2. TypeOK'
    BY <1>1 DEF attach, rows, TypeOK
  <2>3. NothingDangles'
    BY <1>1, <2>1 DEF attach, rows, NothingDangles, Pending
  <2>4. OutcomeIsTold' /\ Waited' /\ Owned' /\ Proposed'
    BY <1>1 DEF attach, rows, OutcomeIsTold, Waited, Owned, Proposed, Pending, Captured
  <2> QED BY <1>1, <2>2, <2>3, <2>4 DEF attach, Down
<1>2. ASSUME NEW q \in Questions, markConsumed(q)
      PROVE  Safe'
  <2>1. /\ continuation' = [continuation EXCEPT ![q] = "consumed"]
        /\ UNCHANGED <<outcome, turnOf, delivered, proposal, approval, stale, policy, written,
                       daemon, turn, aborted, past, routable, changes, waiting, sending,
                       finishing, told>>
    BY <1>2 DEF markConsumed, process
  <2>2. \A x \in Questions : continuation'[x] = "unconfirmed" => continuation[x] = "unconfirmed"
    BY <2>1 DEF TypeOK
  <2>3. TypeOK'
    BY <2>1 DEF TypeOK
  <2> QED
    BY <2>1, <2>2, <2>3 DEF OutcomeIsTold, NothingDangles, Waited, Down, Owned, Proposed, Pending,
                            Captured
<1>3. CASE Abort \/ (EndTurn /\ ~aborted)
  <2>0. turn \in Turns /\ daemon = "up" /\ daemon' = "up"
    BY <1>3 DEF Abort, EndTurn, Down, TypeOK
  <2>1. PICK why \in {"cancelled", "worker_lost"} : closeTurn(why)
    BY <1>3 DEF Abort, EndTurn
  <2>2. Apart /\ written' = written /\ turn' \in Turns \cup {"none"} /\ aborted' \in BOOLEAN
    BY <1>3 DEF Abort, EndTurn, Apart, TypeOK
  <2> DEFINE mine == {q \in Questions : turn # "none" /\ turnOf[q] = turn}
  <2>3. \A x \in Questions : Pending(x) \/ continuation[x] = "unconfirmed" => x \in mine
    BY <2>0 DEF NothingDangles, QuestionsAssumption
  <2>4. /\ outcome' = [x \in Questions |-> IF x \in mine /\ Pending(x) THEN why ELSE outcome[x]]
        /\ continuation' = [x \in Questions |->
               IF x \in mine /\ (Pending(x) \/ continuation[x] = "unconfirmed")
               THEN "interrupted" ELSE continuation[x]]
        /\ approval' = Retired(approval) /\ settled(mine)
        /\ UNCHANGED <<turnOf, delivered, proposal>>
    BY <2>1 DEF closeTurn
  <2>5. why \in Closings /\ mine \in SUBSET Questions
    BY DEF Closings
  <2> HIDE DEF mine
  <2> QED BY <2>0, <2>2, <2>3, <2>4, <2>5, EndKeeps
<1>4. CASE EndTurn /\ aborted
  <2>1. \A x \in Questions : ~Pending(x) /\ continuation[x] # "unconfirmed"
    BY <1>4 DEF EndTurn, NothingDangles, Down
  <2>2. TypeOK'
    BY <1>4 DEF EndTurn, rows, TypeOK
  <2>3. NothingDangles'
    BY <1>4, <2>1 DEF EndTurn, rows, NothingDangles, Pending
  <2>4. OutcomeIsTold' /\ Waited' /\ Owned' /\ Proposed'
    BY <1>4 DEF EndTurn, rows, OutcomeIsTold, Waited, Owned, Proposed, Pending, Captured
  <2> QED BY <1>4, <2>2, <2>3, <2>4 DEF EndTurn, Down
<1>5. CASE Die
  <2>1. TypeOK'
    BY <1>5 DEF Die, rows, TypeOK
  <2> QED
    BY <1>5, <2>1 DEF Die, rows, TypeOK, OutcomeIsTold, NothingDangles, Waited, Down, Owned,
                      Proposed, Pending, Captured
<1>6. CASE Boot
  <2>1. waiting = {} /\ waiting' = {} /\ told' = told
    BY <1>6 DEF Boot, Down
  <2>2. settled(Questions)
    BY <2>1 DEF settled, TypeOK
  <2>3. Apart /\ UNCHANGED <<turnOf, delivered, proposal, written, turn, aborted>> /\ daemon' = "up"
    BY <1>6 DEF Boot, Apart, TypeOK
  <2>4. /\ outcome' = [x \in Questions |->
               IF x \in Questions /\ Pending(x) THEN "daemon_restart" ELSE outcome[x]]
        /\ continuation' = [x \in Questions |->
               IF x \in Questions /\ (Pending(x) \/ continuation[x] = "unconfirmed")
               THEN "interrupted" ELSE continuation[x]]
        /\ approval' = Retired(approval)
    BY <1>6 DEF Boot
  <2>5. "daemon_restart" \in Closings /\ Questions \in SUBSET Questions
    BY DEF Closings
  <2>6. turn' \in Turns \cup {"none"} /\ aborted' \in BOOLEAN
    BY <2>3 DEF TypeOK
  <2> QED BY <2>2, <2>3, <2>4, <2>5, <2>6, EndKeeps
<1> QED BY <1>1, <1>2, <1>3, <1>4, <1>5, <1>6

-----------------------------------------------------------------------------
(* Theorems. *)

LEMMA Invariance == Spec => []Safe
<1> USE QuestionsAssumption
<1>1. Init => Safe
  <2> SUFFICES ASSUME Init PROVE Safe
    OBVIOUS
  <2>1. TypeOK
    BY DEF Init, TypeOK
  <2>2. \A x \in Questions, d \in Kinds : <<d, x>> \in Approvals
    BY DEF Approvals
  <2>3. NothingDangles
    BY <2>2 DEF Init, NothingDangles, Pending
  <2>4. OutcomeIsTold /\ Waited /\ Down /\ Owned
    BY DEF Init, OutcomeIsTold, Waited, Down, Owned, Pending, QuestionsAssumption
  <2>5. Proposed
    BY Keys DEF Init, Proposed, Captured
  <2> QED BY <2>1, <2>3, <2>4, <2>5 DEF Safe
<1>2. Safe /\ [Next]_vars => Safe'
  <2> SUFFICES ASSUME Safe, [Next]_vars PROVE Safe'
    OBVIOUS
  <2>1. CASE UNCHANGED vars
    BY <2>1 DEF vars, rows, process, Safe, TypeOK, OutcomeIsTold, NothingDangles, Waited, Down,
                Owned, Proposed, Pending, Captured
  <2>2. CASE Next
    BY <2>2, SendKeeps, AskKeeps, RespondKeeps, ApproveKeeps, RecheckKeeps, OtherKeeps, TurnKeeps
       DEF Next, Step
  <2> QED BY <2>1, <2>2
<1> QED BY <1>1, <1>2, PTL DEF Spec

\* What a worker is told and writes is the outcome that is recorded, and an answer the one that
\* was proposed.
THEOREM ToldAsRecorded == Spec => []OutcomeIsTold
<1>1. Safe => OutcomeIsTold
  BY DEF Safe
<1> QED BY <1>1, Invariance, PTL

\* A question is open only while its turn lives, and a closed one leaves no pending approval.
THEOREM EndsWithItsTurn == Spec => []NothingDangles
<1>1. Safe => NothingDangles
  BY DEF Safe
<1> QED BY <1>1, Invariance, PTL

\* What is released in a step: a delivery or an answer.
Delivers(q) == q \in delivered' \ delivered
Accepts(q)  == outcome'[q] \in Responses /\ outcome[q] # outcome'[q]

Released ==
    \A q \in Questions :
        /\ Delivers(q) => Allowed(<<"delivery", q>>) \/ Granted(<<"delivery", q>>)'
        /\ Accepts(q) => Allowed(<<"answer", q>>) \/ Granted(<<"answer", q>>)'

LEMMA ClosingReleasesNothing ==
  ASSUME QuestionsAssumption, TypeOK, NEW why \in Closings,
         \/ \E x \in Questions, ap \in [Approvals -> Statuses] : close(x, why, ap)
         \/ closeTurn(why)
  PROVE  \A q \in Questions : ~Delivers(q) /\ ~Accepts(q)
<1>1. why \notin Responses
  BY DEF QuestionsAssumption, Closings
<1>2. delivered' = delivered
  BY DEF close, closeTurn
<1>3. \A q \in Questions : outcome'[q] \in {outcome[q], why}
  <2>1. CASE closeTurn(why)
    BY <2>1 DEF closeTurn
  <2>2. ASSUME NEW x \in Questions, NEW ap \in [Approvals -> Statuses], close(x, why, ap)
        PROVE  \A q \in Questions : outcome'[q] \in {outcome[q], why}
    <3>1. outcome' \in {outcome, [outcome EXCEPT ![x] = why]}
      BY <2>2 DEF close, closed
    <3> QED BY <3>1 DEF TypeOK
  <2> QED BY <2>1, <2>2
<1> QED BY <1>1, <1>2, <1>3 DEF Delivers, Accepts

LEMMA StepReleases ==
  ASSUME QuestionsAssumption, Safe, Next
  PROVE  Released
<1> USE DEF Safe
<1>0. /\ "policy_denied" \in Closings /\ "route_unavailable" \in Closings /\ "expired" \in Closings
      /\ "cancelled" \in Closings /\ "worker_lost" \in Closings
      /\ approval \in [Approvals -> Statuses]
  BY DEF Closings, TypeOK, Statuses
<1>1. ASSUME UNCHANGED <<outcome, delivered>>
      PROVE  Released
  BY <1>1 DEF Released, Delivers, Accepts
<1>2. ASSUME NEW why \in Closings,
             \/ \E x \in Questions, ap \in [Approvals -> Statuses] : close(x, why, ap)
             \/ closeTurn(why)
      PROVE  Released
  BY <1>2, ClosingReleasesNothing DEF Released
<1>3. ASSUME NEW x \in Questions, ask(x)
      PROVE  Released
  <2>1. \A q \in Questions : Delivers(q) => Allowed(<<"delivery", q>>)
    BY <1>3 DEF ask, Delivers
  <2>2. \A q \in Questions : ~Accepts(q)
    BY <1>3 DEF ask, Accepts, TypeOK, QuestionsAssumption
  <2> QED BY <2>1, <2>2 DEF Released
<1>4. ASSUME NEW x \in Questions, askAgain(x)
      PROVE  Released
  <2>1. \A q \in Questions : ~Delivers(q) /\ ~Accepts(q)
    BY <1>4 DEF askAgain, Delivers, Accepts, TypeOK, QuestionsAssumption
  <2> QED BY <2>1 DEF Released
<1>5. ASSUME NEW x \in Questions, markDelivered(x)
      PROVE  Released
  <2>1. \A q \in Questions : ~Accepts(q) /\ (Delivers(q) => q = x)
    BY <1>5 DEF markDelivered, Accepts, Delivers
  <2>2. Allowed(<<"delivery", x>>) \/ Granted(<<"delivery", x>>)
    BY <1>5 DEF markDelivered, Authorized
  <2>3. Granted(<<"delivery", x>>) => Granted(<<"delivery", x>>)'
    BY <1>5 DEF markDelivered, Granted
  <2> QED BY <2>1, <2>2, <2>3 DEF Released
<1>6. ASSUME NEW x \in Questions, NEW why \in Closings, NEW c \in BOOLEAN, SendFails(x, why, c)
      PROVE  Released
  <2> DEFINE ap == IF c THEN With(<<"delivery", x>>) ELSE approval
  <2>1. CASE Direct(x)
    <3>1. close(x, why, ap)
      BY <1>6, <2>1 DEF SendFails
    <3>2. ap \in [Approvals -> Statuses]
      BY <1>0, Keys DEF With, Statuses
    <3> HIDE DEF ap
    <3> QED BY <1>2, <3>1, <3>2
  <2>2. CASE ~Direct(x)
    BY <1>1, <1>6, <2>2 DEF SendFails
  <2> QED BY <2>1, <2>2
<1>7. ASSUME NEW x \in Questions, Refused(x)
      PROVE  Released
  <2>1. CASE Pending(x) /\ ~Reachable /\ ~Direct(x)
    <3> DEFINE ap == [approval EXCEPT ![<<"delivery", x>>] = "ended"]
    <3>1. close(x, "route_unavailable", ap)
      BY <1>7, <2>1 DEF Refused
    <3>2. ap \in [Approvals -> Statuses]
      BY <1>0, Keys DEF Statuses
    <3> HIDE DEF ap
    <3> QED BY <1>0, <1>2, <3>1, <3>2
  <2>2. CASE ~(Pending(x) /\ ~Reachable /\ ~Direct(x))
    <3> DEFINE why == IF Ready(x) /\ policy["delivery"] = "deny" THEN "policy_denied"
                      ELSE "route_unavailable"
               c == Ready(x) /\ policy["delivery"] = "ask"
    <3>1. SendFails(x, why, c)
      BY <1>7, <2>2 DEF Refused
    <3>2. why \in Closings /\ c \in BOOLEAN
      BY <1>0 DEF Ready, Pending, Reachable
    <3> HIDE DEF why, c
    <3> QED BY <1>6, <3>1, <3>2
  <2> QED BY <2>1, <2>2
<1>8. ASSUME NEW x \in Questions, NEW r \in Responses, respond(x, r)
      PROVE  Released
  <2>1. CASE Allowed(<<"answer", x>>) /\ answer(x, r)
    <3>1. \A q \in Questions : ~Delivers(q) /\ (Accepts(q) => q = x)
      BY <2>1 DEF answer, Delivers, Accepts, TypeOK
    <3> QED BY <2>1, <3>1 DEF Released
  <2>2. CASE UNCHANGED <<outcome, delivered>>
    BY <1>1, <2>2
  <2>3. CASE close(x, "policy_denied", approval)
    BY <1>0, <1>2, <2>3
  <2> QED BY <1>8, <2>1, <2>2, <2>3 DEF respond
<1>9. ASSUME NEW k \in Approvals, Approve(k)
      PROVE  Released
  <2> DEFINE x == k[2]
  <2>1. x \in Questions /\ k[1] \in Kinds /\ k = <<k[1], x>>
    BY DEF Approvals
  <2>2. CASE policy[k[1]] # "ask" \/ k \in stale
    BY <1>1, <1>9, <2>2 DEF Approve, rows
  <2>3. CASE ~(policy[k[1]] # "ask" \/ k \in stale)
    <3>1. Granted(k)'
      BY <1>0, <1>9, <2>3 DEF Approve, Granted
    <3>2. CASE k[1] = "answer"
      <4>1. answer(x, proposal[x])
        BY <1>9, <2>3, <3>2 DEF Approve
      <4>2. \A q \in Questions : ~Delivers(q) /\ (Accepts(q) => q = x)
        BY <4>1 DEF answer, Delivers, Accepts, TypeOK
      <4>3. k = <<"answer", x>>
        BY <2>1, <3>2
      <4> QED BY <3>1, <4>2, <4>3 DEF Released
    <3>3. CASE k[1] = "delivery"
      <4>1. \A q \in Questions : ~Accepts(q) /\ (Delivers(q) => q = x)
        BY <1>9, <2>3, <3>3 DEF Approve, Delivers, Accepts
      <4>2. k = <<"delivery", x>>
        BY <2>1, <3>3
      <4> QED BY <3>1, <4>1, <4>2 DEF Released
    <3> QED BY <2>1, <3>2, <3>3 DEF Kinds
  <2> QED BY <2>2, <2>3
<1>10. ASSUME NEW x \in Questions, CloseUnready(x) \/ reconcile(x) \/ Expire(x)
       PROVE  Released
  <2>1. PICK why \in Closings : close(x, why, approval)
    BY <1>0, <1>10 DEF CloseUnready, reconcile, Expire
  <2> QED BY <1>0, <1>2, <2>1
<1>11. ASSUME Abort \/ (EndTurn /\ ~aborted)
       PROVE  Released
  <2>1. PICK why \in Closings : closeTurn(why)
    BY <1>0, <1>11 DEF Abort, EndTurn
  <2> QED BY <1>2, <2>1
<1>12. ASSUME Boot
       PROVE  Released
  <2>1. delivered' = delivered /\ \A q \in Questions : outcome'[q] \in {outcome[q], "daemon_restart"}
    BY <1>12 DEF Boot
  <2> QED BY <2>1 DEF Released, Delivers, Accepts, QuestionsAssumption
<1>13. ASSUME \/ \E t \in Turns : attach(t)
              \/ \E x \in Questions : Send(x) \/ Write(x) \/ markConsumed(x)
              \/ \E k \in Approvals : decide(k) \/ finishDelivery(k)
              \/ EndTurn /\ aborted
              \/ PolicyChanges \/ RouteChanges \/ Die
       PROVE  Released
  BY <1>1, <1>13 DEF attach, Send, Write, markConsumed, decide, finishDelivery, EndTurn,
                     PolicyChanges, RouteChanges, Die, rows
<1>14. ASSUME NEW x \in Questions, Interrupted(x)
       PROVE  Released
  BY <1>0, <1>6, <1>14 DEF Interrupted
<1> QED
  BY <1>3, <1>4, <1>5, <1>7, <1>8, <1>9, <1>10, <1>11, <1>12, <1>13, <1>14 DEF Next, Step, Delivery

\* A question is marked delivered and an answer accepted only as the policy of that moment allows,
\* or under the approval that owns it.
THEOREM OwnersRelease == Spec => ReleasedByItsOwner
<1>1. Safe /\ [Next]_vars => [Released]_vars
  BY QuestionsAssumption, StepReleases
<1>2. Released => \A q \in Questions :
           /\ q \in delivered' \ delivered =>
                  Allowed(<<"delivery", q>>) \/ Granted(<<"delivery", q>>)'
           /\ outcome'[q] \in Responses /\ outcome[q] # outcome'[q] =>
                  Allowed(<<"answer", q>>) \/ Granted(<<"answer", q>>)'
  BY DEF Released, Delivers, Accepts
<1> QED BY <1>1, <1>2, Invariance, PTL DEF Spec, ReleasedByItsOwner

=============================================================================
