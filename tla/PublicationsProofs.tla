-------------------------- MODULE PublicationsProofs --------------------------
(* Safety of publications, for any packets, branches and number of deaths. *)
EXTENDS Publications, TLAPS

\* What the executing request knows about its row and its branch.
ExecutorKnows ==
    \A p \in Pubs :
        /\ pub[p] = "absent" => executor[p] = "idle"
        /\ pub[p] = "pending" => executor[p] \in {"idle", "captured"}
        /\ executor[p] = "captured" => pub[p] = "pending"
        /\ executor[p] = "pushed" => host[BranchOf[p]] = p

IInv == TypeOK /\ ExecutorKnows /\ PublishedIsOnHost

-----------------------------------------------------------------------------
(* What the steps do. *)

\* A step of one publication changes at most its own row and its own executor.
Own(p) ==
    /\ pub' = [pub EXCEPT ![p] = pub'[p]]
    /\ executor' = [executor EXCEPT ![p] = executor'[p]]
    /\ leased' \subseteq leased \cup {p}
    /\ UNCHANGED <<daemon, host, deaths>>
    /\ inflight' \subseteq inflight \cup {p}

\* The ways it changes them.
Captured(p)  == pub[p] = "absent" /\ pub'[p] = "pending" /\ executor'[p] = "captured"
Claimed(p)   == pub[p] = "pending" /\ pub'[p] = "publishing" /\ executor'[p] = "building"
Refused(p)   == pub[p] = "pending" /\ pub'[p] = "refused" /\ executor'[p] = "idle"
Dropped(p)   == executor[p] = "captured" /\ pub'[p] = pub[p] /\ executor'[p] = "idle"
Proceeded(p) ==
    /\ executor[p] \in {"building", "checked", "pushing"} /\ pub'[p] = pub[p]
    /\ \/ executor'[p] \in {"checked", "pushing"}
       \/ executor'[p] = "pushed" /\ host[BranchOf[p]] = p
Concluded(p) ==
    /\ executor[p] \in {"building", "checked", "pushing", "pushed"} /\ executor'[p] = "idle"
    /\ \/ pub'[p] = pub[p]
       \/ pub[p] = "publishing" /\ pub'[p] = "refused"
       \/ pub[p] = "publishing" /\ pub'[p] = "published" /\ executor[p] = "pushed"

LEMMA RequestEffect ==
    ASSUME IInv, NEW p \in Pubs, createPublication(p) \/ Execute(p)
    PROVE  /\ Own(p)
           /\ Captured(p) \/ Claimed(p) \/ Refused(p) \/ Dropped(p) \/ Proceeded(p) \/ Concluded(p)
<1> USE DEF IInv, TypeOK, ExecutorKnows, Own, GoTo, rows, world
<1>1. CASE createPublication(p)
  BY <1>1 DEF createPublication, Captured
<1>2. CASE claimPublication(p)
  BY <1>2 DEF claimPublication, Claimed
<1>3. CASE ClaimRefused(p)
  BY <1>3 DEF ClaimRefused, Refused
<1>4. CASE NotClaimed(p)
  BY <1>4 DEF NotClaimed, Dropped
<1>5. CASE BuildFails(p)
  BY <1>5 DEF BuildFails, refusePublication, Settle, Concluded
<1>6. CASE remoteHeads(p)
  BY <1>6 DEF remoteHeads, refusePublication, Settle, Concluded, Proceeded
<1>7. CASE PushStarts(p)
  BY <1>7 DEF PushStarts, Proceeded
<1>8. CASE PushAccepted(p)
  BY <1>8 DEF PushAccepted, Proceeded
<1>9. CASE PushFails(p)
  BY <1>9 DEF PushFails, refusePublication, Settle, Concluded
<1>10. CASE PullRequestAnswered(p)
  BY <1>10 DEF PullRequestAnswered, settlePublicationPublished, Settle, Concluded
<1>11. QED
  BY <1>1, <1>2, <1>3, <1>4, <1>5, <1>6, <1>7, <1>8, <1>9, <1>10 DEF Execute

\* What happens to a publication without its request: its lease, a tick, a death, a restart.
Recovered ==
    /\ pub' = [p \in Pubs |-> IF pub[p] = "publishing" /\ p \notin leased THEN "uncertain" ELSE pub[p]]
    /\ UNCHANGED <<leased, executor, world>>
Vanished ==
    /\ executor' = [p \in Pubs |-> "idle"]
    /\ inflight' \subseteq inflight
    /\ UNCHANGED <<rows, host>>

LEMMA StepKinds ==
    ASSUME IInv, [Next]_vars
    PROVE  /\ daemon' \in {"up", "down"} /\ deaths' \in Nat
           /\ \/ \E p \in Pubs : createPublication(p) \/ Execute(p)
              \/ \E p \in Pubs : PushArrives(p)
              \/ Recovered \/ Vanished
              \/ leased' \subseteq leased /\ UNCHANGED <<pub, executor, world>>
<1>1. ASSUME NEW p \in Pubs, createPublication(p) \/ Execute(p)
      PROVE  UNCHANGED <<daemon, deaths>>
  BY <1>1, RequestEffect DEF Own
<1>2. CASE Die
  BY <1>2, PublicationAssumption DEF Die, Vanished, IInv, TypeOK
<1>3. CASE Tick \/ Restart
  BY <1>3 DEF Tick, Restart, recoverExpiredPublications, Recovered, IInv, TypeOK
<1>4. ASSUME NEW p \in Pubs, PushArrives(p) \/ LeaseExpires(p)
      PROVE  UNCHANGED <<daemon, deaths>>
  BY <1>4 DEF PushArrives, LeaseExpires
<1>5. ASSUME NEW p \in Pubs, LeaseExpires(p)
      PROVE  leased' \subseteq leased /\ UNCHANGED <<pub, executor, world>>
  BY <1>5 DEF LeaseExpires
<1>6. CASE UNCHANGED vars
  BY <1>6 DEF vars, rows, world, IInv, TypeOK
<1>7. QED
  BY <1>1, <1>2, <1>3, <1>4, <1>5, <1>6 DEF Next, IInv, TypeOK

-----------------------------------------------------------------------------
(* The inductive invariant. *)

LEMMA InitIInv == Init => IInv
<1> SUFFICES ASSUME Init PROVE IInv
  OBVIOUS
<1>1. host \in [Branches -> Pubs \cup {"nobody"}]
  BY DEF Init
<1>2. QED
  BY <1>1 DEF Init, IInv, TypeOK, ExecutorKnows, PublishedIsOnHost, Settled, Stage

LEMMA IInvStep ==
    ASSUME IInv, [Next]_vars
    PROVE  IInv'
<1>1. ASSUME NEW p \in Pubs, createPublication(p) \/ Execute(p) PROVE IInv'
  <2>1. /\ Own(p)
        /\ Captured(p) \/ Claimed(p) \/ Refused(p) \/ Dropped(p) \/ Proceeded(p) \/ Concluded(p)
    BY <1>1, RequestEffect
  <2>2. /\ pub'[p] \in Settled \cup {"absent", "pending", "publishing"}
        /\ executor'[p] \in Stage
    BY <2>1 DEF IInv, TypeOK, Captured, Claimed, Refused, Dropped, Proceeded, Concluded, Settled, Stage
  <2>3. TypeOK'
    BY <2>1, <2>2 DEF IInv, TypeOK, Own, Branches
  <2>4. ASSUME NEW q \in Pubs, q # p PROVE pub'[q] = pub[q] /\ executor'[q] = executor[q]
    BY <2>1, <2>4 DEF IInv, TypeOK, Own
  <2>5. ExecutorKnows'
    BY <2>1, <2>4 DEF IInv, ExecutorKnows, Own,
       Captured, Claimed, Refused, Dropped, Proceeded, Concluded
  <2>6. PublishedIsOnHost'
    BY <2>1, <2>4 DEF IInv, ExecutorKnows, PublishedIsOnHost, Own,
       Captured, Claimed, Refused, Dropped, Proceeded, Concluded
  <2>7. QED
    BY <2>3, <2>5, <2>6 DEF IInv
<1>2. ASSUME NEW p \in Pubs, PushArrives(p) PROVE IInv'
  <2>1. host' \in [Branches -> Pubs \cup {"nobody"}]
    BY <1>2 DEF PushArrives, IInv, TypeOK, Branches
  <2>2. \A q \in Pubs : host[BranchOf[q]] = q => host'[BranchOf[q]] = q
    BY <1>2, PublicationAssumption DEF PushArrives, IInv, TypeOK, Branches
  <2>3. QED
    BY <1>2, <2>1, <2>2 DEF PushArrives, IInv, TypeOK, ExecutorKnows, PublishedIsOnHost, rows, Branches
<1>3. CASE Recovered
  BY <1>3, StepKinds DEF Recovered, IInv, TypeOK, ExecutorKnows, PublishedIsOnHost, Settled, Stage, world, Branches
<1>4. CASE Vanished
  BY <1>4, StepKinds DEF Vanished, IInv, TypeOK, ExecutorKnows, PublishedIsOnHost, Stage, rows, Branches
<1>5. CASE leased' \subseteq leased /\ UNCHANGED <<pub, executor, world>>
  BY <1>5, StepKinds DEF IInv, TypeOK, ExecutorKnows, PublishedIsOnHost, world, Branches
<1>6. QED
  BY <1>1, <1>2, <1>3, <1>4, <1>5, StepKinds

LEMMA Invariance == Spec => []IInv
<1>1. IInv /\ [Next]_vars => IInv'
  BY IInvStep
<1>2. QED
  BY InitIInv, <1>1, PTL DEF Spec

-----------------------------------------------------------------------------
(* What reaches the host. *)

\* A row says published only of a branch that is on the host, with the commit of the row:
\* late pushes, racing publications of one branch, expired leases and deaths included.
THEOREM HostFirst == Spec => []PublishedIsOnHost
<1>1. IInv => PublishedIsOnHost
  BY DEF IInv
<1>2. QED
  BY Invariance, <1>1, PTL

\* A branch that exists on the host is never moved.
THEOREM NeverForced == Spec => BranchesKept
<1>1. ASSUME IInv, [Next]_vars, NEW b \in Branches, host[b] # "nobody" PROVE host'[b] = host[b]
  <2>1. ASSUME NEW p \in Pubs, createPublication(p) \/ Execute(p) PROVE UNCHANGED host
    BY <1>1, <2>1, RequestEffect DEF Own
  <2>2. ASSUME NEW p \in Pubs, PushArrives(p) PROVE host'[b] = host[b]
    BY <1>1, <2>2 DEF PushArrives, IInv, TypeOK
  <2>3. QED
    BY <1>1, <2>1, <2>2, StepKinds DEF Recovered, Vanished, world
<1>2. IInv /\ [Next]_vars => [\A b \in Branches : host[b] # "nobody" => host'[b] = host[b]]_vars
  BY <1>1
<1>3. QED
  BY Invariance, <1>2, PTL DEF Spec, BranchesKept

-----------------------------------------------------------------------------
(* The attempt log. *)

LEMMA SingleEntry ==
    ASSUME NEW e
    PROVE  /\ <<e>> # <<>> /\ Len(<<e>>) = 1 /\ <<e>>[1] = e
           /\ \A f : [<<e>> EXCEPT ![1] = f] = <<f>>
  OBVIOUS

LEMMA LogSteps ==
    /\ \A e \in {"published", "refused", "open"} : Log!Begins(<<>>, <<e>>)
    /\ \A o \in {"published", "refused", "uncertain"} : Log!Settles(<<"open">>, <<o>>)
    /\ Log!Orphaned(<<"open">>, <<"orphan">>)
    /\ Log!Recovers(<<"orphan">>, <<"uncertain">>)
<1>1. ASSUME NEW e \in {"published", "refused", "open"} PROVE Log!Begins(<<>>, <<e>>)
  <2>1. <<e>> = Append(IF Len(<<>>) < 1 THEN <<>> ELSE Tail(<<>>), e)
    OBVIOUS
  <2>2. QED
    BY <2>1 DEF Log!Begins, Log!LastIn
<1>2. ASSUME NEW o \in {"published", "refused", "uncertain"} PROVE Log!Settles(<<"open">>, <<o>>)
  BY SingleEntry, Zenon DEF Log!Settles, Log!LastIn, Log!Last, Log!Uncertain
<1>3. Log!Orphaned(<<"open">>, <<"orphan">>)
  BY SingleEntry, Zenon DEF Log!Orphaned, Log!LastIn, Log!Last
<1>4. Log!Recovers(<<"orphan">>, <<"uncertain">>)
  BY SingleEntry, Zenon DEF Log!Recovers, Log!LastIn, Log!Last, Log!Uncertain
<1>5. QED
  BY <1>1, <1>2, <1>3, <1>4

\* Every step advances the log of every publication by at most one entry.
LEMMA Advance ==
    ASSUME IInv, [Next]_vars, NEW p \in Pubs
    PROVE  Log!Advances(AttemptsOf(p), AttemptsOf(p)')
<1>1. ASSUME NEW q \in Pubs, createPublication(q) \/ Execute(q)
      PROVE  Log!Advances(AttemptsOf(p), AttemptsOf(p)')
  <2>1. /\ Own(q)
        /\ Captured(q) \/ Claimed(q) \/ Refused(q) \/ Dropped(q) \/ Proceeded(q) \/ Concluded(q)
    BY <1>1, RequestEffect
  <2>2. CASE p # q
    <3>1. pub'[p] = pub[p] /\ executor'[p] = executor[p]
      BY <2>1, <2>2 DEF IInv, TypeOK, Own
    <3>2. QED
      BY <3>1 DEF AttemptsOf, Log!Advances
  <2>3. CASE p = q /\ (Captured(q) \/ Dropped(q) \/ Proceeded(q))
    BY <2>3 DEF IInv, ExecutorKnows, Captured, Dropped, Proceeded, AttemptsOf, Log!Advances
  <2>4. CASE p = q /\ (Claimed(q) \/ Refused(q))
    BY <2>4, LogSteps DEF Claimed, Refused, AttemptsOf, Log!Advances
  <2>5. CASE p = q /\ Concluded(q)
    BY <2>5, LogSteps DEF Concluded, AttemptsOf, Log!Advances
  <2>6. QED
    BY <2>1, <2>2, <2>3, <2>4, <2>5
<1>2. CASE Recovered
  BY <1>2, LogSteps DEF Recovered, IInv, TypeOK, AttemptsOf, Log!Advances
<1>3. CASE Vanished
  BY <1>3, LogSteps DEF Vanished, AttemptsOf, rows, Log!Advances
<1>4. CASE UNCHANGED <<pub, executor>>
  BY <1>4 DEF AttemptsOf, Log!Advances
<1>5. ASSUME NEW q \in Pubs, PushArrives(q) PROVE UNCHANGED <<pub, executor>>
  BY <1>5 DEF PushArrives, rows
<1>6. QED
  BY <1>1, <1>2, <1>3, <1>4, <1>5, StepKinds DEF world

\* A publication is claimed once, settled once, and settled as uncertain once its owner is gone.
THEOREM AttemptsLogged == Spec => KeepsTheLog
<1>1. Init => Log!Init
  BY DEF Init, Log!Init, AttemptsOf
<1>2. ASSUME IInv, [Next]_vars PROVE Log!Next
  <2>1. \A p \in Pubs : Log!Advances(AttemptsOf(p), AttemptsOf(p)')
    BY <1>2, Advance
  <2>2. QED
    BY <2>1 DEF Log!Next
<1>3. IInv /\ [Next]_vars => [Log!Next]_[p \in Pubs |-> AttemptsOf(p)]
  BY <1>2
<1>4. QED
  BY Invariance, <1>1, <1>3, PTL DEF Spec, KeepsTheLog, Log!Spec
===============================================================================
