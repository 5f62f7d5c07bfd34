----------------------- MODULE WorkspaceOwnershipProofs -----------------------
(***************************************************************************)
(* Proofs about WorkspaceOwnership, for any number of writers, resources,  *)
(* failures and deaths: the leases in memory are the active rows, what     *)
(* works is recorded, and a turn has its workspace to itself.              *)
(***************************************************************************)
EXTENDS WorkspaceOwnership, TLAPS

-----------------------------------------------------------------------------
(* The inductive invariant. *)

Ended(w) == stage[w] = "ended"

\* A writer has its row from the claim on; a recovery only sees writers whose turn is over,
\* and all of the resources they registered.
Staged ==
    /\ leases = {w \in Writers : stage[w] = "held"}
    /\ \A w \in Writers :
           /\ stage[w] \in {"new", "claiming"} => row[w] = "none" /\ w \notin old
           /\ stage[w] = "held" <=> row[w] = "active" /\ w \notin old
           /\ \A x \in queue[w] : Ended(x)
    /\ \A x \in Restored : Ended(x) /\ row[x] = "recovery"
    /\ \A k \in recovering : Ended(k[2]) /\ k[2] \notin Restored /\ Of(k[2]) \subseteq todo[k]
    /\ \A k \in Recoveries : \A r \in todo[k] : WriterOf[r] = k[2]

\* What each kind of resource can be, and what is known of it.
Hosted ==
    /\ \A r \in Resources :
           /\ IsWorker(r) => proc[r] \in {"none", "running", "stopped"}
           /\ KindOf[r] = "native" => proc[r] # "asked"
    /\ \A r \in registered : stage[WriterOf[r]] \in {"held", "ended"}
    /\ \A r \in acked : proc[r] \notin {"none", "asked"}
    /\ \A r \in strays : KindOf[r] = "hostWorker" /\ proc[r] = "stopped"
    /\ \A r \in rebooted :
           IsWorker(r) /\ proc[r] # "running" /\ r \notin strays /\ Ended(WriterOf[r])
    /\ \A c \in cleaning :
           /\ c.res \in registered \/ Ended(WriterOf[c.res])
           /\ c.normal => IsWorker(c.res) /\ proc[c.res] # "running" /\ c.res \notin strays

\* No row of another writer overlaps the one of a lease.
Exclusive == \A w \in leases : \A x \in Writers : row[x] # "none" /\ <<x, w>> \in Overlap => x = w

IInv == TypeOK /\ Staged /\ Hosted /\ Exclusive /\ NothingUnrecorded

-----------------------------------------------------------------------------
(* Types. *)

LEMMA SettlesTypes ==
    ASSUME TypeOK, NEW k, Settles(k)
    PROVE  /\ recovering' \subseteq Recoveries /\ todo' \in [Recoveries -> SUBSET Resources]
           /\ queue' \in [Writers -> SUBSET Writers] /\ waits' \in [Writers -> Writers \cup {"none"}]
<1>1. recovering' \subseteq Recoveries /\ todo' \in [Recoveries -> SUBSET Resources]
  BY DEF Settles, TypeOK
<1>2. queue' \in [Writers -> SUBSET Writers]
  BY DEF Settles, TypeOK
<1>3. waits' \in [Writers -> Writers \cup {"none"}]
  BY DEF Settles, TypeOK
<1>4. QED
  BY <1>1, <1>2, <1>3

LEMMA BeginsTypes ==
    ASSUME TypeOK, NEW k \in Recoveries, Begins(k), registered' = registered
    PROVE  /\ row' \in [Writers -> {"none", "active", "recovery"}]
           /\ recovering' \subseteq Recoveries /\ todo' \in [Recoveries -> SUBSET Resources]
<1>1. Of(k[2]) \subseteq Resources
  BY DEF Of, TypeOK
<1>2. row' \in [Writers -> {"none", "active", "recovery"}] /\ recovering' \subseteq Recoveries
  BY DEF Begins, TypeOK
<1>3. todo' \in [Recoveries -> SUBSET Resources]
  BY <1>1 DEF Begins, TypeOK
<1>4. QED
  BY <1>2, <1>3

LEMMA DiesTypes ==
    ASSUME TypeOK, Dies
    PROVE  /\ stage' \in [Writers -> {"new", "claiming", "held", "ended"}]
           /\ old' \subseteq Writers /\ leases' = {} /\ up' = FALSE
           /\ queue' \in [Writers -> SUBSET Writers] /\ waits' \in [Writers -> Writers \cup {"none"}]
           /\ recovering' = {} /\ todo' \in [Recoveries -> SUBSET Resources] /\ cleaning' = {}
           /\ deaths' \in Nat
           /\ UNCHANGED <<row, registered, acked, confirmed, failures>>
<1>1. stage' \in [Writers -> {"new", "claiming", "held", "ended"}]
  BY DEF Dies, TypeOK
<1>2. queue' \in [Writers -> SUBSET Writers] /\ waits' \in [Writers -> Writers \cup {"none"}]
  BY DEF Dies
<1>3. todo' \in [Recoveries -> SUBSET Resources]
  BY DEF Dies
<1>4. deaths' \in Nat
  BY DEF Dies, TypeOK
<1>5. QED
  BY <1>1, <1>2, <1>3, <1>4 DEF Dies

LEMMA TypePreserved ==
    ASSUME TypeOK, [Next]_vars
    PROVE  TypeOK'
<1>1. ASSUME NEW w \in Writers, Claim(w) PROVE TypeOK'
  BY <1>1, OwnershipAssumption DEF Claim, TypeOK, rows, claims, clean, host, bounds, Recoveries, Recoverers, Cleanups, recoveryRequired
<1>2. ASSUME NEW w \in Writers, Acquire(w) PROVE TypeOK'
  BY <1>2, OwnershipAssumption DEF Acquire, TypeOK, rows, claims, clean, host, bounds, Recoveries, Recoverers, Cleanups
<1>3. ASSUME NEW w \in Writers, finishMutation(w) PROVE TypeOK'
  BY <1>3, OwnershipAssumption DEF finishMutation, TypeOK, rows, claims, clean, host, bounds, Recoveries, Recoverers, Cleanups
<1>4. ASSUME NEW w \in Writers, Release(w) PROVE TypeOK'
  BY <1>4, OwnershipAssumption DEF Release, Begins, TypeOK, rows, claims, clean, host, bounds, Recoveries, Recoverers, Cleanups, Of
<1>5. ASSUME NEW x \in Writers, OperatorRecovers(x) PROVE TypeOK'
  <2>1. CASE Begins(<<"operator", x>>)
    <3>1. <<"operator", x>> \in Recoveries
      BY <1>5 DEF Recoveries, Recoverers
    <3>2. QED
      BY <1>5, <2>1, <3>1, BeginsTypes DEF OperatorRecovers, TypeOK, claims, host, bounds
  <2>2. CASE ~Begins(<<"operator", x>>)
    BY <1>5, <2>2 DEF OperatorRecovers, TypeOK, claims, host, bounds
  <2>3. QED
    BY <2>1, <2>2
<1>6. ASSUME NEW w \in Writers, NEW x \in Writers, RecoverFor(w, x) PROVE TypeOK'
  <2>1. queue' \in [Writers -> SUBSET Writers] /\ waits' \in [Writers -> Writers \cup {"none"}]
    BY <1>6 DEF RecoverFor, TypeOK
  <2>2. /\ row' \in [Writers -> {"none", "active", "recovery"}]
        /\ recovering' \subseteq Recoveries /\ todo' \in [Recoveries -> SUBSET Resources]
    <3>1. <<"lifecycle", x>> \in Recoveries
      BY <1>6 DEF Recoveries, Recoverers
    <3>2. CASE Begins(<<"lifecycle", x>>)
      BY <1>6, <3>1, <3>2, BeginsTypes DEF RecoverFor
    <3>3. CASE ~Begins(<<"lifecycle", x>>)
      BY <1>6, <3>3 DEF RecoverFor, TypeOK
    <3>4. QED
      BY <3>2, <3>3
  <2>3. QED
    BY <1>6, <2>1, <2>2 DEF RecoverFor, TypeOK, host, bounds
<1>7. ASSUME NEW r \in Resources, Register(r) PROVE TypeOK'
  BY <1>7, OwnershipAssumption DEF Register, TypeOK, rows, claims, clean, host, bounds, Recoveries, Recoverers, Cleanups, IsWorker
<1>8. ASSUME NEW r \in Resources, EngineCreates(r) PROVE TypeOK'
  BY <1>8, OwnershipAssumption DEF EngineCreates, TypeOK, rows, claims, clean, host, bounds, Recoveries, Recoverers, Cleanups
<1>9. ASSUME NEW r \in Resources, EngineDrops(r) PROVE TypeOK'
  BY <1>9, OwnershipAssumption DEF EngineDrops, TypeOK, rows, claims, clean, host, bounds, Recoveries, Recoverers, Cleanups
<1>10. ASSUME NEW r \in Resources, SpawnNative(r) PROVE TypeOK'
  BY <1>10, OwnershipAssumption DEF SpawnNative, TypeOK, rows, claims, clean, host, bounds, Recoveries, Recoverers, Cleanups
<1>11. ASSUME NEW r \in Resources, CancelNative(r) PROVE TypeOK'
  BY <1>11, OwnershipAssumption DEF CancelNative, TypeOK, rows, claims, clean, host, bounds, Recoveries, Recoverers, Cleanups
<1>12. ASSUME NEW r \in Resources, Acknowledge(r) PROVE TypeOK'
  BY <1>12, OwnershipAssumption DEF Acknowledge, TypeOK, rows, claims, clean, host, bounds, Recoveries, Recoverers, Cleanups
<1>13. ASSUME NEW r \in Resources, Start(r) PROVE TypeOK'
  BY <1>13, OwnershipAssumption DEF Start, TypeOK, rows, claims, clean, host, bounds, Recoveries, Recoverers, Cleanups
<1>14. ASSUME NEW r \in Resources, StrayEnds(r) PROVE TypeOK'
  BY <1>14, OwnershipAssumption DEF StrayEnds, TypeOK, rows, claims, clean, host, bounds, Recoveries, Recoverers, Cleanups
<1>15. ASSUME NEW r \in Resources, CommandCleanup(r) PROVE TypeOK'
  <2>1. [by |-> "command", res |-> r, acked |-> r \in acked, normal |-> FALSE] \in Cleanups
    BY DEF Cleanups
  <2>2. cleaning' \subseteq Cleanups
    BY <1>15, <2>1 DEF CommandCleanup, TypeOK
  <2>3. QED
    BY <1>15, <2>2 DEF CommandCleanup, TypeOK, rows, claims, host, bounds
<1>16. ASSUME NEW r \in Resources, NEW normal \in BOOLEAN, Ends(r, normal) PROVE TypeOK'
  <2>1. cleaning' \subseteq Cleanups
    <3>1. [by |-> "command", res |-> r, acked |-> FALSE, normal |-> normal] \in Cleanups
      BY DEF Cleanups
    <3>2. QED
      BY <1>16, <3>1 DEF Ends, TypeOK
  <2>2. proc' \in [Resources -> {"none", "asked", "created", "running", "stopped", "gone"}]
    BY <1>16 DEF Ends, TypeOK
  <2>3. strays' \subseteq Resources
    BY <1>16 DEF Ends, TypeOK
  <2>4. QED
    BY <1>16, <2>1, <2>2, <2>3 DEF Ends, TypeOK, rows, claims, bounds
<1>17. ASSUME NEW c \in cleaning, CleanupEnds(c) PROVE TypeOK'
  <2>1. c \in Cleanups /\ cleaning' \subseteq Cleanups
    BY <1>17 DEF CleanupEnds, TypeOK
  <2>2. c.res \in Resources /\ (c.by # "command" => <<c.by, WriterOf[c.res]>> \in Recoveries)
    BY <2>1, OwnershipAssumption DEF Cleanups, Recoveries, Recoverers
  <2>3. /\ proc' \in [Resources -> {"none", "asked", "created", "running", "stopped", "gone"}]
        /\ strays' \subseteq Resources
    BY <1>17, <2>2 DEF CleanupEnds, Cleaned, TypeOK
  <2>4. acked' \cup confirmed' \subseteq registered'
    BY <1>17 DEF CleanupEnds, Confirms, TypeOK
  <2>5. /\ recovering' \subseteq Recoveries /\ todo' \in [Recoveries -> SUBSET Resources]
        /\ queue' \in [Writers -> SUBSET Writers] /\ waits' \in [Writers -> Writers \cup {"none"}]
    <3>1. CASE c.by = "command" \/ Confirms(c)
      BY <1>17, <3>1 DEF CleanupEnds, TypeOK
    <3>2. CASE ~(c.by = "command" \/ Confirms(c))
      <4>1. Settles(<<c.by, WriterOf[c.res]>>)
        BY <1>17, <3>2 DEF CleanupEnds
      <4>2. QED
        BY <4>1, SettlesTypes
    <3>3. QED
      BY <3>1, <3>2
  <2>6. QED
    BY <1>17, <2>1, <2>3, <2>4, <2>5 DEF CleanupEnds, TypeOK, bounds
<1>18. ASSUME NEW c \in cleaning, CleanupFails(c) PROVE TypeOK'
  <2>1. c \in Cleanups /\ cleaning' \subseteq Cleanups
    BY <1>18 DEF CleanupFails, TypeOK
  <2>2. /\ recovering' \subseteq Recoveries /\ todo' \in [Recoveries -> SUBSET Resources]
        /\ queue' \in [Writers -> SUBSET Writers] /\ waits' \in [Writers -> Writers \cup {"none"}]
    <3>1. CASE c.by = "command"
      BY <1>18, <3>1 DEF CleanupFails, TypeOK
    <3>2. CASE c.by # "command"
      <4>1. Settles(<<c.by, WriterOf[c.res]>>)
        BY <1>18, <3>2 DEF CleanupFails
      <4>2. QED
        BY <4>1, SettlesTypes
    <3>3. QED
      BY <3>1, <3>2
  <2>3. QED
    BY <1>18, <2>1, <2>2 DEF CleanupFails, TypeOK, rows, host
<1>19. ASSUME NEW k \in Recoveries, FinishRecovery(k) PROVE TypeOK'
  BY <1>19, OwnershipAssumption DEF FinishRecovery, Settles, TypeOK, rows, claims, clean, host, bounds, Recoveries, Recoverers, Cleanups, Of
<1>20. ASSUME NEW k \in Recoveries, NEW r \in Resources, BeginCleanup(k, r) PROVE TypeOK'
  <2>1. [by |-> k[1], res |-> r, acked |-> r \in acked, normal |-> FALSE] \in Cleanups
    BY <1>20 DEF Cleanups, Recoveries
  <2>2. cleaning' \subseteq Cleanups
    BY <1>20, <2>1 DEF BeginCleanup, TypeOK
  <2>3. QED
    BY <1>20, <2>2 DEF BeginCleanup, TypeOK, rows, claims, host, bounds
<1>21. ASSUME NEW x \in Writers, SelectionChanged(x) PROVE TypeOK'
  BY <1>21, OwnershipAssumption DEF SelectionChanged, Settles, TypeOK, rows, claims, clean, host, bounds, Recoveries, Recoverers, Cleanups
<1>22. CASE Die
  <2>1. proc' \in [Resources -> {"none", "asked", "created", "running", "stopped", "gone"}]
    BY <1>22 DEF Die, Orphaned, TypeOK
  <2>2. QED
    BY <1>22, <2>1, DiesTypes DEF Die, TypeOK
<1>23. CASE HostDies
  <2>1. proc' \in [Resources -> {"none", "asked", "created", "running", "stopped", "gone"}]
    <3>1. Orphaned \in [Resources -> {"none", "asked", "created", "running", "stopped", "gone"}]
      BY DEF Orphaned, TypeOK
    <3>2. QED
      BY <1>23, <3>1 DEF HostDies, TypeOK
  <2>2. strays' = {} /\ rebooted' \subseteq Resources
    BY <1>23 DEF HostDies, TypeOK
  <2>3. QED
    BY <1>23, <2>1, <2>2, DiesTypes DEF HostDies, TypeOK
<1>24. CASE Restart
  BY <1>24, OwnershipAssumption DEF Restart, TypeOK, rows, claims, clean, host, bounds, Recoveries, Recoverers, Cleanups
<1>25. CASE UNCHANGED vars
  BY <1>25 DEF vars, rows, claims, clean, host, bounds, TypeOK, Recoveries, Recoverers, Cleanups
<1>26. QED
  BY <1>1, <1>2, <1>3, <1>4, <1>5, <1>6, <1>7, <1>8, <1>9, <1>10, <1>11, <1>12, <1>13, <1>14, <1>15, <1>16, <1>17, <1>18, <1>19, <1>20, <1>21, <1>22, <1>23, <1>24, <1>25 DEF Next, Steps

-----------------------------------------------------------------------------
(* Writers and recoveries. *)

\* A recovery begins for a writer whose turn is over.
LEMMA BeginsStaged ==
    ASSUME TypeOK, Staged, NEW b \in Recoverers, NEW x \in Writers, Begins(<<b, x>>),
           Ended(x), x \notin Restored,
           registered' = registered, old' = old, leases' = leases, stage' = stage, queue' = queue
    PROVE  Staged'
<1>1. row' = [row EXCEPT ![x] = "recovery"]
  BY DEF Begins
<1>2. \A k \in recovering' : Ended(k[2])' /\ k[2] \notin Restored /\ Of(k[2])' \subseteq todo'[k]
  <2> SUFFICES ASSUME NEW k \in recovering'
               PROVE  Ended(k[2])' /\ k[2] \notin Restored /\ Of(k[2])' \subseteq todo'[k]
    OBVIOUS
  <2>1. CASE k = <<b, x>>
    BY <2>1 DEF Begins, Of, Ended, TypeOK, Recoveries
  <2>2. CASE k # <<b, x>>
    BY <2>2 DEF Begins, Of, Ended, TypeOK, Staged, Recoveries
  <2>3. QED
    BY <2>1, <2>2
<1>3. QED
  <2>1. \A k \in Recoveries : \A r \in todo'[k] : WriterOf[r] = k[2]
    BY DEF Begins, Of, Staged, TypeOK
  <2>2. QED
    BY <1>1, <1>2, <2>1, OwnershipAssumption DEF Staged, Ended, TypeOK

LEMMA SettlesStaged ==
    ASSUME TypeOK, Staged, NEW k, Settles(k), UNCHANGED <<row, old, registered, leases, stage>>
    PROVE  Staged'
<1>1. \A v \in Writers : queue'[v] \subseteq queue[v]
  BY DEF Settles, TypeOK
<1>2. \A l \in Recoveries : todo'[l] \subseteq todo[l]
  BY DEF Settles, TypeOK
<1>3. \A l \in recovering' : l \in recovering /\ l # k
  BY DEF Settles
<1>4. \A l \in recovering' : todo'[l] = todo[l]
  BY <1>3 DEF Settles, TypeOK
<1>5. QED
  BY <1>1, <1>2, <1>3, <1>4 DEF Staged, Ended, Of

LEMMA StagedPreserved ==
    ASSUME TypeOK, Staged, [Next]_vars
    PROVE  Staged'
<1>1. ASSUME NEW w \in Writers, Claim(w) PROVE Staged'
  BY <1>1, OwnershipAssumption DEF Claim, TypeOK, Staged, Ended, Of, rows, claims, clean, host, bounds, Recoveries, recoveryRequired
<1>2. ASSUME NEW w \in Writers, Acquire(w) PROVE Staged'
  <2>1. CASE Blocking(w) # {}
    <3>1. /\ stage' = [stage EXCEPT ![w] = "new"] /\ stage[w] = "claiming"
          /\ UNCHANGED <<row, leases, old, registered, queue, recovering, todo>>
      BY <1>2, <2>1 DEF Acquire, clean
    <3>2. QED
      BY <3>1, OwnershipAssumption DEF TypeOK, Staged, Ended, Of
  <2>2. CASE Blocking(w) = {}
    <3>1. w \notin Restored /\ \A x \in Writers : Ended(x) <=> Ended(x)'
      BY <1>2, <2>2 DEF Acquire, TypeOK, Staged, Ended
    <3>2. \A k \in recovering' : Ended(k[2])' /\ k[2] \notin Restored /\ Of(k[2])' \subseteq todo'[k]
      BY <1>2, <3>1 DEF Acquire, TypeOK, Staged, Recoveries, Of, clean
    <3>3. \A v \in Writers : \A x \in queue'[v] : Ended(x)'
      BY <1>2, <3>1 DEF Acquire, TypeOK, Staged
    <3>4. \A x \in Restored : Ended(x)' /\ row'[x] = "recovery"
      BY <1>2, <2>2, <3>1, OwnershipAssumption DEF Acquire, TypeOK, Staged
    <3>5. /\ leases' = {v \in Writers : stage'[v] = "held"}
          /\ \A v \in Writers :
                 /\ stage'[v] \in {"new", "claiming"} => row'[v] = "none" /\ v \notin old'
                 /\ stage'[v] = "held" <=> row'[v] = "active" /\ v \notin old'
      BY <1>2, <2>2 DEF Acquire, TypeOK, Staged
    <3>6. QED
      BY <1>2, <3>2, <3>3, <3>4, <3>5 DEF Staged, Acquire, clean
  <2>3. QED
    BY <2>1, <2>2
<1>3. ASSUME NEW w \in Writers, finishMutation(w) PROVE Staged'
  BY <1>3, OwnershipAssumption DEF finishMutation, TypeOK, Staged, Ended, Of, rows, claims, clean, host, bounds, Recoveries
<1>4. ASSUME NEW w \in Writers, Release(w) PROVE Staged'
  <2>1. row[w] = "active" /\ w \notin Restored /\ stage[w] = "held"
    BY <1>4, OwnershipAssumption DEF Release, TypeOK, Staged
  <2>2. \A x \in Writers : Ended(x) => Ended(x)'
    BY <1>4 DEF Release, TypeOK, Ended
  <2>3. Ended(w)' /\ row' = [row EXCEPT ![w] = "recovery"] /\ registered' = registered
    BY <1>4 DEF Release, Begins, TypeOK, Ended
  <2>4. \A k \in recovering' : Ended(k[2])' /\ k[2] \notin Restored /\ Of(k[2])' \subseteq todo'[k]
    <3> SUFFICES ASSUME NEW k \in recovering'
                 PROVE  Ended(k[2])' /\ k[2] \notin Restored /\ Of(k[2])' \subseteq todo'[k]
      OBVIOUS
    <3>1. CASE k = <<"lifecycle", w>>
      BY <1>4, <2>1, <2>3, <3>1 DEF Release, Begins, Of, TypeOK, Recoveries, Recoverers
    <3>2. CASE k # <<"lifecycle", w>>
      BY <1>4, <2>2, <2>3, <3>2 DEF Release, Begins, Of, TypeOK, Staged, Recoveries
    <3>3. QED
      BY <3>1, <3>2
  <2>5. \A v \in Writers : \A x \in queue'[v] : Ended(x)'
    BY <1>4, <2>2 DEF Release, TypeOK, Staged
  <2>6. \A x \in Restored : Ended(x)' /\ row'[x] = "recovery"
    BY <2>1, <2>2, <2>3, OwnershipAssumption DEF TypeOK, Staged
  <2>7. /\ leases' = {v \in Writers : stage'[v] = "held"}
        /\ \A v \in Writers :
               /\ stage'[v] \in {"new", "claiming"} => row'[v] = "none" /\ v \notin old'
               /\ stage'[v] = "held" <=> row'[v] = "active" /\ v \notin old'
    BY <1>4, <2>3 DEF Release, TypeOK, Staged
  <2>8. QED
    <3>1. \A k \in Recoveries : \A r \in todo'[k] : WriterOf[r] = k[2]
      BY <1>4, <2>3 DEF Release, Begins, Of, Staged, TypeOK
    <3>2. QED
      BY <2>4, <2>5, <2>6, <2>7, <3>1 DEF Staged
<1>5. ASSUME NEW x \in Writers, OperatorRecovers(x) PROVE Staged'
  <2>1. Ended(x) /\ x \notin Restored
    BY <1>5 DEF OperatorRecovers, recoveryRequired, TypeOK, Staged, Ended
  <2>2. CASE Begins(<<"operator", x>>)
    BY <1>5, <2>1, <2>2, BeginsStaged DEF OperatorRecovers, Recoverers, claims
  <2>3. CASE ~Begins(<<"operator", x>>)
    <3>1. row' = [row EXCEPT ![x] = "recovery"] /\ UNCHANGED <<recovering, todo>>
      BY <1>5, <2>3 DEF OperatorRecovers
    <3>2. QED
      BY <1>5, <2>1, <3>1, OwnershipAssumption DEF OperatorRecovers, claims, TypeOK, Staged, Ended, Of
  <2>4. QED
    BY <2>2, <2>3
<1>6. ASSUME NEW w \in Writers, NEW x \in Writers, RecoverFor(w, x) PROVE Staged'
  <2>1. CASE Begins(<<"lifecycle", x>>) /\ queue' = queue /\ x \notin Restored
    BY <1>6, <2>1, BeginsStaged DEF RecoverFor, Recoverers, Staged, Ended
  <2>2. CASE ~(Begins(<<"lifecycle", x>>) /\ queue' = queue /\ x \notin Restored)
    <3>1. UNCHANGED <<row, recovering, todo>> /\ (queue' = queue \/ queue' = [queue EXCEPT ![w] = @ \ {x}])
      BY <1>6, <2>2 DEF RecoverFor
    <3>2. QED
      BY <1>6, <3>1 DEF RecoverFor, TypeOK, Staged, Ended, Of
  <2>3. QED
    BY <2>1, <2>2
<1>7. ASSUME NEW r \in Resources, Register(r) PROVE Staged'
  BY <1>7, OwnershipAssumption DEF Register, TypeOK, Staged, Ended, Of, rows, claims, clean, host, bounds, Recoveries
<1>8. ASSUME NEW r \in Resources, EngineCreates(r) PROVE Staged'
  BY <1>8, OwnershipAssumption DEF EngineCreates, TypeOK, Staged, Ended, Of, rows, claims, clean, host, bounds, Recoveries
<1>9. ASSUME NEW r \in Resources, EngineDrops(r) PROVE Staged'
  BY <1>9, OwnershipAssumption DEF EngineDrops, TypeOK, Staged, Ended, Of, rows, claims, clean, host, bounds, Recoveries
<1>10. ASSUME NEW r \in Resources, SpawnNative(r) PROVE Staged'
  BY <1>10, OwnershipAssumption DEF SpawnNative, TypeOK, Staged, Ended, Of, rows, claims, clean, host, bounds, Recoveries
<1>11. ASSUME NEW r \in Resources, CancelNative(r) PROVE Staged'
  BY <1>11, OwnershipAssumption DEF CancelNative, TypeOK, Staged, Ended, Of, rows, claims, clean, host, bounds, Recoveries
<1>12. ASSUME NEW r \in Resources, Acknowledge(r) PROVE Staged'
  BY <1>12, OwnershipAssumption DEF Acknowledge, TypeOK, Staged, Ended, Of, rows, claims, clean, host, bounds, Recoveries
<1>13. ASSUME NEW r \in Resources, Start(r) PROVE Staged'
  BY <1>13, OwnershipAssumption DEF Start, TypeOK, Staged, Ended, Of, rows, claims, clean, host, bounds, Recoveries
<1>14. ASSUME NEW r \in Resources, StrayEnds(r) PROVE Staged'
  BY <1>14, OwnershipAssumption DEF StrayEnds, TypeOK, Staged, Ended, Of, rows, claims, clean, host, bounds, Recoveries
<1>15. ASSUME NEW r \in Resources, CommandCleanup(r) PROVE Staged'
  BY <1>15, OwnershipAssumption DEF CommandCleanup, TypeOK, Staged, Ended, Of, rows, claims, clean, host, bounds, Recoveries
<1>16. ASSUME NEW r \in Resources, NEW normal \in BOOLEAN, Ends(r, normal) PROVE Staged'
  BY <1>16, OwnershipAssumption DEF Ends, TypeOK, Staged, Ended, Of, rows, claims, clean, host, bounds, Recoveries
<1>17. ASSUME NEW c \in cleaning, CleanupEnds(c) PROVE Staged'
  <2>1. UNCHANGED <<row, old, registered, leases, stage>>
    BY <1>17 DEF CleanupEnds
  <2>2. CASE UNCHANGED <<recovering, todo, queue, waits>>
    BY <2>1, <2>2 DEF Staged, Ended, Of
  <2>3. CASE Settles(<<c.by, WriterOf[c.res]>>)
    BY <2>1, <2>3, SettlesStaged
  <2>4. QED
    BY <1>17, <2>2, <2>3 DEF CleanupEnds
<1>18. ASSUME NEW c \in cleaning, CleanupFails(c) PROVE Staged'
  <2>1. UNCHANGED <<row, old, registered, leases, stage>>
    BY <1>18 DEF CleanupFails, rows
  <2>2. CASE UNCHANGED <<recovering, todo, queue, waits>>
    BY <2>1, <2>2 DEF Staged, Ended, Of
  <2>3. CASE Settles(<<c.by, WriterOf[c.res]>>)
    BY <2>1, <2>3, SettlesStaged
  <2>4. QED
    BY <1>18, <2>2, <2>3 DEF CleanupFails
<1>19. ASSUME NEW k \in Recoveries, FinishRecovery(k) PROVE Staged'
  BY <1>19, OwnershipAssumption DEF FinishRecovery, Settles, TypeOK, Staged, Ended, Of, rows, claims, clean, host, bounds, Recoveries
<1>20. ASSUME NEW k \in Recoveries, NEW r \in Resources, BeginCleanup(k, r) PROVE Staged'
  BY <1>20, OwnershipAssumption DEF BeginCleanup, TypeOK, Staged, Ended, Of, rows, claims, clean, host, bounds, Recoveries
<1>21. ASSUME NEW x \in Writers, SelectionChanged(x) PROVE Staged'
  BY <1>21, OwnershipAssumption DEF SelectionChanged, Settles, TypeOK, Staged, Ended, Of, rows, claims, clean, host, bounds, Recoveries
<1>22. CASE Die
  BY <1>22, OwnershipAssumption DEF Die, Dies, TypeOK, Staged, Ended, Of
<1>23. CASE HostDies
  BY <1>23, OwnershipAssumption DEF HostDies, Dies, TypeOK, Staged, Ended, Of
<1>24. CASE Restart
  BY <1>24, OwnershipAssumption DEF Restart, TypeOK, Staged, Ended, Of, rows, claims, clean, host, bounds, Recoveries
<1>25. CASE UNCHANGED vars
  BY <1>25 DEF vars, rows, claims, clean, host, bounds, TypeOK, Staged, Ended, Of, Recoveries
<1>26. QED
  BY <1>1, <1>2, <1>3, <1>4, <1>5, <1>6, <1>7, <1>8, <1>9, <1>10, <1>11, <1>12, <1>13, <1>14, <1>15, <1>16, <1>17, <1>18, <1>19, <1>20, <1>21, <1>22, <1>23, <1>24, <1>25 DEF Next, Steps

-----------------------------------------------------------------------------
(* Resources. *)

LEMMA HostedPreserved ==
    ASSUME IInv, [Next]_vars
    PROVE  Hosted'
<1>1. ASSUME NEW w \in Writers, Claim(w) PROVE Hosted'
  BY <1>1, OwnershipAssumption DEF IInv, Claim, TypeOK, Staged, Hosted, Ended, IsWorker, Kinds, rows, claims, clean, host, bounds, Recoveries, Cleanups
<1>2. ASSUME NEW w \in Writers, Acquire(w) PROVE Hosted'
  BY <1>2, OwnershipAssumption DEF IInv, Acquire, TypeOK, Staged, Hosted, Ended, IsWorker, Kinds, rows, claims, clean, host, bounds, Recoveries, Cleanups
<1>3. ASSUME NEW w \in Writers, finishMutation(w) PROVE Hosted'
  BY <1>3, OwnershipAssumption DEF IInv, finishMutation, TypeOK, Staged, Hosted, Ended, IsWorker, Kinds, rows, claims, clean, host, bounds, Recoveries, Cleanups
<1>4. ASSUME NEW w \in Writers, Release(w) PROVE Hosted'
  BY <1>4, OwnershipAssumption DEF IInv, Release, Begins, TypeOK, Staged, Hosted, Ended, IsWorker, Kinds, rows, claims, clean, host, bounds, Recoveries, Cleanups
<1>5. ASSUME NEW x \in Writers, OperatorRecovers(x) PROVE Hosted'
  BY <1>5, OwnershipAssumption DEF IInv, OperatorRecovers, Begins, TypeOK, Staged, Hosted, Ended, IsWorker, Kinds, rows, claims, clean, host, bounds, Recoveries, Cleanups
<1>6. ASSUME NEW w \in Writers, NEW x \in Writers, RecoverFor(w, x) PROVE Hosted'
  BY <1>6, OwnershipAssumption DEF IInv, RecoverFor, Begins, TypeOK, Staged, Hosted, Ended, IsWorker, Kinds, rows, claims, clean, host, bounds, Recoveries, Cleanups
<1>7. ASSUME NEW r \in Resources, Register(r) PROVE Hosted'
  <2>1. stage[WriterOf[r]] = "held" /\ r \notin registered
    BY <1>7, OwnershipAssumption DEF IInv, Register, Staged
  <2>2. r \notin strays /\ r \notin rebooted /\ r \notin acked
    BY <1>7, <2>1, OwnershipAssumption DEF IInv, TypeOK, Hosted, Ended, NothingUnrecorded, Working
  <2>3. \A c \in cleaning : c.res # r
    BY <2>1 DEF IInv, Hosted, Ended
  <2>4. /\ \A s \in Resources : s # r => proc'[s] = proc[s]
        /\ proc'[r] = CASE IsWorker(r) -> "running" [] KindOf[r] = "container" -> "asked" [] OTHER -> "none"
    BY <1>7 DEF IInv, Register, TypeOK
  <2>5. QED
    <3>1. /\ registered' = registered \cup {r}
          /\ UNCHANGED <<acked, strays, rebooted, cleaning, stage>>
      BY <1>7 DEF Register, clean, claims
    <3>2. \A s \in Resources :
              /\ IsWorker(s) => proc'[s] \in {"none", "running", "stopped"}
              /\ KindOf[s] = "native" => proc'[s] # "asked"
      BY <2>4 DEF IInv, Hosted, IsWorker
    <3>3. /\ \A s \in registered' : stage'[WriterOf[s]] \in {"held", "ended"}
          /\ \A s \in acked' : proc'[s] \notin {"none", "asked"}
          /\ \A s \in strays' : KindOf[s] = "hostWorker" /\ proc'[s] = "stopped"
      BY <2>1, <2>2, <2>4, <3>1 DEF IInv, Hosted, TypeOK
    <3>4. \A s \in rebooted' :
              IsWorker(s) /\ proc'[s] # "running" /\ s \notin strays' /\ Ended(WriterOf[s])'
      BY <2>2, <2>4, <3>1 DEF IInv, Hosted, TypeOK, Ended
    <3>5. \A c \in cleaning' :
              /\ c.res \in registered' \/ Ended(WriterOf[c.res])'
              /\ c.normal => IsWorker(c.res) /\ proc'[c.res] # "running" /\ c.res \notin strays'
      <4>1. \A c \in cleaning : c.res \in Resources
        BY DEF IInv, TypeOK, Cleanups
      <4>2. QED
        BY <2>3, <2>4, <3>1, <4>1 DEF IInv, Hosted, Ended
    <3>6. QED
      BY <3>2, <3>3, <3>4, <3>5 DEF Hosted, IsWorker
<1>8. ASSUME NEW r \in Resources, EngineCreates(r) PROVE Hosted'
  BY <1>8, OwnershipAssumption DEF IInv, EngineCreates, TypeOK, Staged, Hosted, Ended, IsWorker, Kinds, rows, claims, clean, host, bounds, Recoveries, Cleanups
<1>9. ASSUME NEW r \in Resources, EngineDrops(r) PROVE Hosted'
  BY <1>9, OwnershipAssumption DEF IInv, EngineDrops, TypeOK, Staged, Hosted, Ended, IsWorker, Kinds, rows, claims, clean, host, bounds, Recoveries, Cleanups
<1>10. ASSUME NEW r \in Resources, SpawnNative(r) PROVE Hosted'
  BY <1>10, OwnershipAssumption DEF IInv, SpawnNative, TypeOK, Staged, Hosted, Ended, IsWorker, Kinds, rows, claims, clean, host, bounds, Recoveries, Cleanups
<1>11. ASSUME NEW r \in Resources, CancelNative(r) PROVE Hosted'
  BY <1>11, OwnershipAssumption DEF IInv, CancelNative, TypeOK, Staged, Hosted, Ended, IsWorker, Kinds, rows, claims, clean, host, bounds, Recoveries, Cleanups
<1>12. ASSUME NEW r \in Resources, Acknowledge(r) PROVE Hosted'
  BY <1>12, OwnershipAssumption DEF IInv, Acknowledge, TypeOK, Staged, Hosted, Ended, IsWorker, Kinds, rows, claims, clean, host, bounds, Recoveries, Cleanups
<1>13. ASSUME NEW r \in Resources, Start(r) PROVE Hosted'
  BY <1>13, OwnershipAssumption DEF IInv, Start, TypeOK, Staged, Hosted, Ended, IsWorker, Kinds, rows, claims, clean, host, bounds, Recoveries, Cleanups
<1>14. ASSUME NEW r \in Resources, StrayEnds(r) PROVE Hosted'
  BY <1>14, OwnershipAssumption DEF IInv, StrayEnds, TypeOK, Staged, Hosted, Ended, IsWorker, Kinds, rows, claims, clean, host, bounds, Recoveries, Cleanups
<1>15. ASSUME NEW r \in Resources, CommandCleanup(r) PROVE Hosted'
  BY <1>15, OwnershipAssumption DEF IInv, CommandCleanup, TypeOK, Staged, Hosted, Ended, IsWorker, Kinds, rows, claims, clean, host, bounds, Recoveries, Cleanups
<1>16. ASSUME NEW r \in Resources, NEW normal \in BOOLEAN, Ends(r, normal) PROVE Hosted'
  BY <1>16, OwnershipAssumption DEF IInv, Ends, TypeOK, Staged, Hosted, Ended, IsWorker, Kinds, rows, claims, clean, host, bounds, Recoveries, Cleanups
<1>17. ASSUME NEW c \in cleaning, CleanupEnds(c) PROVE Hosted'
  <2>1. c.res \in Resources
    BY DEF IInv, TypeOK, Cleanups
  <2>2. /\ \A s \in Resources : s # c.res => proc'[s] = proc[s]
        /\ IsWorker(c.res) => proc'[c.res] = IF proc[c.res] = "running" THEN "stopped" ELSE proc[c.res]
        /\ ~IsWorker(c.res) => proc'[c.res] = proc[c.res] \/ proc'[c.res] = "gone"
    BY <1>17, <2>1 DEF CleanupEnds, Cleaned, IInv, TypeOK
  <2>3. \A s \in strays' : s \in strays \/ (s = c.res /\ KindOf[s] = "hostWorker" /\ proc[s] = "running")
    BY <1>17 DEF CleanupEnds, Cleaned
  <2>4. /\ cleaning' \subseteq cleaning
        /\ UNCHANGED <<registered, acked, stage, rebooted>>
    BY <1>17 DEF CleanupEnds
  <2>5. /\ \A r \in Resources :
               /\ IsWorker(r) => proc'[r] \in {"none", "running", "stopped"}
               /\ KindOf[r] = "native" => proc'[r] # "asked"
        /\ \A r \in registered' : stage'[WriterOf[r]] \in {"held", "ended"}
        /\ \A r \in acked' : proc'[r] \notin {"none", "asked"}
    BY <2>1, <2>2, <2>4 DEF IInv, Hosted, TypeOK
  <2>6. \A r \in strays' : KindOf[r] = "hostWorker" /\ proc'[r] = "stopped"
    BY <2>1, <2>2, <2>3 DEF IInv, Hosted, TypeOK, IsWorker
  <2>7. \A r \in rebooted' :
            IsWorker(r) /\ proc'[r] # "running" /\ r \notin strays' /\ Ended(WriterOf[r])'
    BY <2>1, <2>2, <2>3, <2>4 DEF IInv, Hosted, TypeOK, Ended
  <2>8. \A d \in cleaning' :
            /\ d.res \in registered' \/ Ended(WriterOf[d.res])'
            /\ d.normal => IsWorker(d.res) /\ proc'[d.res] # "running" /\ d.res \notin strays'
    BY <2>1, <2>2, <2>3, <2>4 DEF IInv, Hosted, TypeOK, Cleanups, Ended
  <2>9. QED
    BY <2>5, <2>6, <2>7, <2>8 DEF Hosted, IsWorker
<1>18. ASSUME NEW c \in cleaning, CleanupFails(c) PROVE Hosted'
  BY <1>18, OwnershipAssumption DEF IInv, CleanupFails, Settles, TypeOK, Staged, Hosted, Ended, IsWorker, Kinds, rows, claims, clean, host, bounds, Recoveries, Cleanups
<1>19. ASSUME NEW k \in Recoveries, FinishRecovery(k) PROVE Hosted'
  BY <1>19, OwnershipAssumption DEF IInv, FinishRecovery, Settles, TypeOK, Staged, Hosted, Ended, IsWorker, Kinds, rows, claims, clean, host, bounds, Recoveries, Cleanups, Of
<1>20. ASSUME NEW k \in Recoveries, NEW r \in Resources, BeginCleanup(k, r) PROVE Hosted'
  <2>1. Ended(WriterOf[r])
    <3>1. r \in todo[k] /\ k \in recovering /\ cleaning' = cleaning \cup
             {[by |-> k[1], res |-> r, acked |-> r \in acked, normal |-> FALSE]}
      BY <1>20 DEF BeginCleanup
    <3>2. WriterOf[r] = k[2] /\ Ended(k[2])
      BY <1>20, <3>1 DEF IInv, Staged
    <3>3. QED
      BY <3>2
  <2>2. QED
    BY <1>20, <2>1 DEF BeginCleanup, IInv, Hosted, Ended, IsWorker, rows, claims, host
<1>21. ASSUME NEW x \in Writers, SelectionChanged(x) PROVE Hosted'
  BY <1>21, OwnershipAssumption DEF IInv, SelectionChanged, Settles, TypeOK, Staged, Hosted, Ended, IsWorker, Kinds, rows, claims, clean, host, bounds, Recoveries, Cleanups
<1>22. CASE Die
  BY <1>22, OwnershipAssumption DEF IInv, Die, Dies, TypeOK, Staged, Hosted, Ended, IsWorker, Kinds, rows, claims, clean, host, bounds, Recoveries, Cleanups, Orphaned
<1>23. CASE HostDies
  BY <1>23, OwnershipAssumption DEF IInv, HostDies, Dies, TypeOK, Staged, Hosted, Ended, IsWorker, Kinds, rows, claims, clean, host, bounds, Recoveries, Cleanups, Orphaned
<1>24. CASE Restart
  BY <1>24, OwnershipAssumption DEF IInv, Restart, TypeOK, Staged, Hosted, Ended, IsWorker, Kinds, rows, claims, clean, host, bounds, Recoveries, Cleanups
<1>25. CASE UNCHANGED vars
  BY <1>25 DEF IInv, vars, rows, claims, clean, host, bounds, TypeOK, Staged, Hosted, Ended, IsWorker, Kinds, Recoveries, Cleanups
<1>26. QED
  BY <1>1, <1>2, <1>3, <1>4, <1>5, <1>6, <1>7, <1>8, <1>9, <1>10, <1>11, <1>12, <1>13, <1>14, <1>15, <1>16, <1>17, <1>18, <1>19, <1>20, <1>21, <1>22, <1>23, <1>24, <1>25 DEF IInv, Next, Steps

-----------------------------------------------------------------------------
(* Rows and what they stand for. *)

LEMMA ExclusivePreserved ==
    ASSUME TypeOK, Staged, Exclusive, [Next]_vars
    PROVE  Exclusive'
<1>1. ASSUME NEW w \in Writers, Claim(w) PROVE Exclusive'
  BY <1>1, OwnershipAssumption DEF Claim, TypeOK, Staged, Exclusive, Ended, rows, claims, clean, host, bounds
<1>2. ASSUME NEW w \in Writers, Acquire(w) PROVE Exclusive'
  <2>1. CASE Blocking(w) # {}
    BY <1>2, <2>1 DEF Acquire, TypeOK, Exclusive
  <2>2. CASE Blocking(w) = {}
    <3>1. /\ leases' = leases \cup {w} /\ row' = [row EXCEPT ![w] = "active"]
          /\ leases \subseteq Writers
      BY <1>2, <2>2 DEF Acquire, TypeOK
    <3>2. \A x \in Writers : row[x] # "none" => <<x, w>> \notin Overlap
      BY <2>2 DEF Blocking
    <3>3. \A v \in leases : row[v] # "none"
      BY DEF Staged
    <3>4. ASSUME NEW v \in leases', NEW x \in Writers, row'[x] # "none", <<x, v>> \in Overlap PROVE x = v
      <4>1. CASE v = w
        BY <3>1, <3>2, <3>4, <4>1 DEF TypeOK
      <4>2. CASE v # w /\ x = w
        <5>1. v \in leases /\ <<v, w>> \in Overlap
          BY <3>1, <3>4, <4>2, OwnershipAssumption
        <5>2. QED
          BY <3>1, <3>2, <3>3, <5>1
      <4>3. CASE v # w /\ x # w
        BY <3>1, <3>4, <4>3 DEF Exclusive, TypeOK
      <4>4. QED
        BY <4>1, <4>2, <4>3
    <3>5. QED
      BY <3>4 DEF Exclusive
  <2>3. QED
    BY <2>1, <2>2
<1>3. ASSUME NEW w \in Writers, finishMutation(w) PROVE Exclusive'
  BY <1>3, OwnershipAssumption DEF finishMutation, TypeOK, Staged, Exclusive, Ended, rows, claims, clean, host, bounds
<1>4. ASSUME NEW w \in Writers, Release(w) PROVE Exclusive'
  BY <1>4, OwnershipAssumption DEF Release, Begins, TypeOK, Staged, Exclusive, Ended, rows, claims, clean, host, bounds
<1>5. ASSUME NEW x \in Writers, OperatorRecovers(x) PROVE Exclusive'
  BY <1>5, OwnershipAssumption DEF OperatorRecovers, Begins, TypeOK, Staged, Exclusive, Ended, rows, claims, clean, host, bounds, recoveryRequired
<1>6. ASSUME NEW w \in Writers, NEW x \in Writers, RecoverFor(w, x) PROVE Exclusive'
  BY <1>6, OwnershipAssumption DEF RecoverFor, Begins, TypeOK, Staged, Exclusive, Ended, rows, claims, clean, host, bounds
<1>7. ASSUME NEW r \in Resources, Register(r) PROVE Exclusive'
  BY <1>7, OwnershipAssumption DEF Register, TypeOK, Staged, Exclusive, Ended, rows, claims, clean, host, bounds
<1>8. ASSUME NEW r \in Resources, EngineCreates(r) PROVE Exclusive'
  BY <1>8, OwnershipAssumption DEF EngineCreates, TypeOK, Staged, Exclusive, Ended, rows, claims, clean, host, bounds
<1>9. ASSUME NEW r \in Resources, EngineDrops(r) PROVE Exclusive'
  BY <1>9, OwnershipAssumption DEF EngineDrops, TypeOK, Staged, Exclusive, Ended, rows, claims, clean, host, bounds
<1>10. ASSUME NEW r \in Resources, SpawnNative(r) PROVE Exclusive'
  BY <1>10, OwnershipAssumption DEF SpawnNative, TypeOK, Staged, Exclusive, Ended, rows, claims, clean, host, bounds
<1>11. ASSUME NEW r \in Resources, CancelNative(r) PROVE Exclusive'
  BY <1>11, OwnershipAssumption DEF CancelNative, TypeOK, Staged, Exclusive, Ended, rows, claims, clean, host, bounds
<1>12. ASSUME NEW r \in Resources, Acknowledge(r) PROVE Exclusive'
  BY <1>12, OwnershipAssumption DEF Acknowledge, TypeOK, Staged, Exclusive, Ended, rows, claims, clean, host, bounds
<1>13. ASSUME NEW r \in Resources, Start(r) PROVE Exclusive'
  BY <1>13, OwnershipAssumption DEF Start, TypeOK, Staged, Exclusive, Ended, rows, claims, clean, host, bounds
<1>14. ASSUME NEW r \in Resources, StrayEnds(r) PROVE Exclusive'
  BY <1>14, OwnershipAssumption DEF StrayEnds, TypeOK, Staged, Exclusive, Ended, rows, claims, clean, host, bounds
<1>15. ASSUME NEW r \in Resources, CommandCleanup(r) PROVE Exclusive'
  BY <1>15, OwnershipAssumption DEF CommandCleanup, TypeOK, Staged, Exclusive, Ended, rows, claims, clean, host, bounds
<1>16. ASSUME NEW r \in Resources, NEW normal \in BOOLEAN, Ends(r, normal) PROVE Exclusive'
  BY <1>16, OwnershipAssumption DEF Ends, TypeOK, Staged, Exclusive, Ended, rows, claims, clean, host, bounds
<1>17. ASSUME NEW c \in cleaning, CleanupEnds(c) PROVE Exclusive'
  BY <1>17, OwnershipAssumption DEF CleanupEnds, Settles, Cleaned, TypeOK, Staged, Exclusive, Ended, rows, claims, clean, host, bounds
<1>18. ASSUME NEW c \in cleaning, CleanupFails(c) PROVE Exclusive'
  BY <1>18, OwnershipAssumption DEF CleanupFails, Settles, TypeOK, Staged, Exclusive, Ended, rows, claims, clean, host, bounds
<1>19. ASSUME NEW k \in Recoveries, FinishRecovery(k) PROVE Exclusive'
  BY <1>19, OwnershipAssumption DEF FinishRecovery, Settles, TypeOK, Staged, Exclusive, Ended, rows, claims, clean, host, bounds
<1>20. ASSUME NEW k \in Recoveries, NEW r \in Resources, BeginCleanup(k, r) PROVE Exclusive'
  BY <1>20, OwnershipAssumption DEF BeginCleanup, TypeOK, Staged, Exclusive, Ended, rows, claims, clean, host, bounds
<1>21. ASSUME NEW x \in Writers, SelectionChanged(x) PROVE Exclusive'
  BY <1>21, OwnershipAssumption DEF SelectionChanged, Settles, TypeOK, Staged, Exclusive, Ended, rows, claims, clean, host, bounds
<1>22. CASE Die
  BY <1>22, OwnershipAssumption DEF Die, Dies, TypeOK, Staged, Exclusive, Ended, rows, claims, clean, host, bounds
<1>23. CASE HostDies
  BY <1>23, OwnershipAssumption DEF HostDies, Dies, TypeOK, Staged, Exclusive, Ended, rows, claims, clean, host, bounds
<1>24. CASE Restart
  BY <1>24, OwnershipAssumption DEF Restart, TypeOK, Staged, Exclusive, Ended, rows, claims, clean, host, bounds
<1>25. CASE UNCHANGED vars
  BY <1>25 DEF vars, rows, claims, clean, host, bounds, TypeOK, Staged, Exclusive, Ended
<1>26. QED
  BY <1>1, <1>2, <1>3, <1>4, <1>5, <1>6, <1>7, <1>8, <1>9, <1>10, <1>11, <1>12, <1>13, <1>14, <1>15, <1>16, <1>17, <1>18, <1>19, <1>20, <1>21, <1>22, <1>23, <1>24, <1>25 DEF Next, Steps

LEMMA RecordPreserved ==
    ASSUME IInv, [Next]_vars
    PROVE  NothingUnrecorded'
<1>1. ASSUME NEW w \in Writers, Claim(w) PROVE NothingUnrecorded'
  BY <1>1, OwnershipAssumption DEF Claim, IInv, TypeOK, Staged, Hosted, Ended, NothingUnrecorded, Working, IsWorker, Kinds, rows, claims, clean, host, bounds, Recoveries, Cleanups
<1>2. ASSUME NEW w \in Writers, Acquire(w) PROVE NothingUnrecorded'
  BY <1>2, OwnershipAssumption DEF Acquire, IInv, TypeOK, Staged, Hosted, Ended, NothingUnrecorded, Working, IsWorker, Kinds, rows, claims, clean, host, bounds, Recoveries, Cleanups
<1>3. ASSUME NEW w \in Writers, finishMutation(w) PROVE NothingUnrecorded'
  BY <1>3, OwnershipAssumption DEF finishMutation, IInv, TypeOK, Staged, Hosted, Ended, NothingUnrecorded, Working, IsWorker, Kinds, rows, claims, clean, host, bounds, Recoveries, Cleanups
<1>4. ASSUME NEW w \in Writers, Release(w) PROVE NothingUnrecorded'
  BY <1>4, OwnershipAssumption DEF Release, Begins, IInv, TypeOK, Staged, Hosted, Ended, NothingUnrecorded, Working, IsWorker, Kinds, rows, claims, clean, host, bounds, Recoveries, Cleanups
<1>5. ASSUME NEW x \in Writers, OperatorRecovers(x) PROVE NothingUnrecorded'
  BY <1>5, OwnershipAssumption DEF OperatorRecovers, Begins, IInv, TypeOK, Staged, Hosted, Ended, NothingUnrecorded, Working, IsWorker, Kinds, rows, claims, clean, host, bounds, Recoveries, Cleanups
<1>6. ASSUME NEW w \in Writers, NEW x \in Writers, RecoverFor(w, x) PROVE NothingUnrecorded'
  BY <1>6, OwnershipAssumption DEF RecoverFor, Begins, IInv, TypeOK, Staged, Hosted, Ended, NothingUnrecorded, Working, IsWorker, Kinds, rows, claims, clean, host, bounds, Recoveries, Cleanups
<1>7. ASSUME NEW r \in Resources, Register(r) PROVE NothingUnrecorded'
  BY <1>7, OwnershipAssumption DEF Register, IInv, TypeOK, Staged, Hosted, Ended, NothingUnrecorded, Working, IsWorker, Kinds, rows, claims, clean, host, bounds, Recoveries, Cleanups
<1>8. ASSUME NEW r \in Resources, EngineCreates(r) PROVE NothingUnrecorded'
  BY <1>8, OwnershipAssumption DEF EngineCreates, IInv, TypeOK, Staged, Hosted, Ended, NothingUnrecorded, Working, IsWorker, Kinds, rows, claims, clean, host, bounds, Recoveries, Cleanups
<1>9. ASSUME NEW r \in Resources, EngineDrops(r) PROVE NothingUnrecorded'
  BY <1>9, OwnershipAssumption DEF EngineDrops, IInv, TypeOK, Staged, Hosted, Ended, NothingUnrecorded, Working, IsWorker, Kinds, rows, claims, clean, host, bounds, Recoveries, Cleanups
<1>10. ASSUME NEW r \in Resources, SpawnNative(r) PROVE NothingUnrecorded'
  BY <1>10, OwnershipAssumption DEF SpawnNative, IInv, TypeOK, Staged, Hosted, Ended, NothingUnrecorded, Working, IsWorker, Kinds, rows, claims, clean, host, bounds, Recoveries, Cleanups
<1>11. ASSUME NEW r \in Resources, CancelNative(r) PROVE NothingUnrecorded'
  BY <1>11, OwnershipAssumption DEF CancelNative, IInv, TypeOK, Staged, Hosted, Ended, NothingUnrecorded, Working, IsWorker, Kinds, rows, claims, clean, host, bounds, Recoveries, Cleanups
<1>12. ASSUME NEW r \in Resources, Acknowledge(r) PROVE NothingUnrecorded'
  BY <1>12, OwnershipAssumption DEF Acknowledge, IInv, TypeOK, Staged, Hosted, Ended, NothingUnrecorded, Working, IsWorker, Kinds, rows, claims, clean, host, bounds, Recoveries, Cleanups
<1>13. ASSUME NEW r \in Resources, Start(r) PROVE NothingUnrecorded'
  BY <1>13, OwnershipAssumption DEF Start, IInv, TypeOK, Staged, Hosted, Ended, NothingUnrecorded, Working, IsWorker, Kinds, rows, claims, clean, host, bounds, Recoveries, Cleanups
<1>14. ASSUME NEW r \in Resources, StrayEnds(r) PROVE NothingUnrecorded'
  BY <1>14, OwnershipAssumption DEF StrayEnds, IInv, TypeOK, Staged, Hosted, Ended, NothingUnrecorded, Working, IsWorker, Kinds, rows, claims, clean, host, bounds, Recoveries, Cleanups
<1>15. ASSUME NEW r \in Resources, CommandCleanup(r) PROVE NothingUnrecorded'
  BY <1>15, OwnershipAssumption DEF CommandCleanup, IInv, TypeOK, Staged, Hosted, Ended, NothingUnrecorded, Working, IsWorker, Kinds, rows, claims, clean, host, bounds, Recoveries, Cleanups
<1>16. ASSUME NEW r \in Resources, NEW normal \in BOOLEAN, Ends(r, normal) PROVE NothingUnrecorded'
  BY <1>16, OwnershipAssumption DEF Ends, IInv, TypeOK, Staged, Hosted, Ended, NothingUnrecorded, Working, IsWorker, Kinds, rows, claims, clean, host, bounds, Recoveries, Cleanups
<1>17. ASSUME NEW c \in cleaning, CleanupEnds(c) PROVE NothingUnrecorded'
  BY <1>17, OwnershipAssumption DEF CleanupEnds, Settles, Cleaned, IInv, TypeOK, Staged, Hosted, Ended, NothingUnrecorded, Working, IsWorker, Kinds, rows, claims, clean, host, bounds, Recoveries, Cleanups, Confirms, Cleanable
<1>18. ASSUME NEW c \in cleaning, CleanupFails(c) PROVE NothingUnrecorded'
  BY <1>18, OwnershipAssumption DEF CleanupFails, Settles, IInv, TypeOK, Staged, Hosted, Ended, NothingUnrecorded, Working, IsWorker, Kinds, rows, claims, clean, host, bounds, Recoveries, Cleanups
<1>19. ASSUME NEW k \in Recoveries, FinishRecovery(k) PROVE NothingUnrecorded'
  BY <1>19, OwnershipAssumption DEF FinishRecovery, Settles, IInv, TypeOK, Staged, Hosted, Ended, NothingUnrecorded, Working, IsWorker, Kinds, rows, claims, clean, host, bounds, Recoveries, Cleanups, Of
<1>20. ASSUME NEW k \in Recoveries, NEW r \in Resources, BeginCleanup(k, r) PROVE NothingUnrecorded'
  BY <1>20, OwnershipAssumption DEF BeginCleanup, IInv, TypeOK, Staged, Hosted, Ended, NothingUnrecorded, Working, IsWorker, Kinds, rows, claims, clean, host, bounds, Recoveries, Cleanups
<1>21. ASSUME NEW x \in Writers, SelectionChanged(x) PROVE NothingUnrecorded'
  BY <1>21, OwnershipAssumption DEF SelectionChanged, Settles, IInv, TypeOK, Staged, Hosted, Ended, NothingUnrecorded, Working, IsWorker, Kinds, rows, claims, clean, host, bounds, Recoveries, Cleanups
<1>22. CASE Die
  BY <1>22, OwnershipAssumption DEF Die, Dies, IInv, TypeOK, Staged, Hosted, Ended, NothingUnrecorded, Working, IsWorker, Kinds, rows, claims, clean, host, bounds, Recoveries, Cleanups, Orphaned
<1>23. CASE HostDies
  BY <1>23, OwnershipAssumption DEF HostDies, Dies, IInv, TypeOK, Staged, Hosted, Ended, NothingUnrecorded, Working, IsWorker, Kinds, rows, claims, clean, host, bounds, Recoveries, Cleanups, Orphaned
<1>24. CASE Restart
  BY <1>24, OwnershipAssumption DEF Restart, IInv, TypeOK, Staged, Hosted, Ended, NothingUnrecorded, Working, IsWorker, Kinds, rows, claims, clean, host, bounds, Recoveries, Cleanups
<1>25. CASE UNCHANGED vars
  BY <1>25 DEF vars, rows, claims, clean, host, bounds, IInv, TypeOK, Staged, Hosted, Ended, NothingUnrecorded, Working, IsWorker, Kinds, Recoveries, Cleanups
<1>26. QED
  BY <1>1, <1>2, <1>3, <1>4, <1>5, <1>6, <1>7, <1>8, <1>9, <1>10, <1>11, <1>12, <1>13, <1>14, <1>15, <1>16, <1>17, <1>18, <1>19, <1>20, <1>21, <1>22, <1>23, <1>24, <1>25 DEF Next, Steps

LEMMA Invariance == Spec => []IInv
<1>1. Init => IInv
  BY OwnershipAssumption DEF Init, IInv, TypeOK, Staged, Hosted, Exclusive, NothingUnrecorded, Ended,
     Of, IsWorker, Working, Recoveries
<1>2. IInv /\ [Next]_vars => IInv'
  BY TypePreserved, StagedPreserved, HostedPreserved, ExclusivePreserved, RecordPreserved DEF IInv
<1>3. QED
  BY <1>1, <1>2, PTL DEF Spec

-----------------------------------------------------------------------------
(* Theorems. *)

\* The leases in memory are the active rows of this daemon.
THEOREM LeasesAreRows == Spec => []LeasesAreActive
<1>1. IInv => LeasesAreActive
  BY DEF IInv, TypeOK, Staged, LeasesAreActive
<1>2. QED
  BY Invariance, <1>1, PTL

\* Whatever works, or may come to work, has a row that says so.
THEOREM EverythingRecorded == Spec => []NothingUnrecorded
<1>1. IInv => NothingUnrecorded
  BY DEF IInv
<1>2. QED
  BY Invariance, <1>1, PTL

\* A turn has its workspace to itself: what works has a row, and no row of another writer
\* overlaps the one of a lease.
THEOREM WorkspaceToItself == Spec => []OneWriter
<1>1. IInv => OneWriter
  <2> SUFFICES ASSUME IInv, NEW w \in leases
               PROVE  /\ \A r \in Resources :
                             Working(r) /\ <<WriterOf[r], w>> \in Overlap => WriterOf[r] = w
                      /\ \A x \in Restored : <<x, w>> \notin Overlap
    BY DEF OneWriter
  <2>1. \A x \in Writers : row[x] # "none" /\ <<x, w>> \in Overlap => x = w
    BY DEF IInv, Exclusive
  <2>2. \A r \in Resources : Working(r) /\ <<WriterOf[r], w>> \in Overlap => WriterOf[r] = w
    BY <2>1, OwnershipAssumption DEF IInv, NothingUnrecorded
  <2>3. \A x \in Restored : x \in Writers /\ x # w /\ row[x] # "none"
    BY OwnershipAssumption DEF IInv, TypeOK, Staged, Ended
  <2>4. QED
    BY <2>1, <2>2, <2>3
<1>2. QED
  BY Invariance, <1>1, PTL
===============================================================================
