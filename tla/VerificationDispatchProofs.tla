----------------------- MODULE VerificationDispatchProofs -----------------------
(* Safety of verifications, for any requests, Agents, checks and bounds. *)
EXTENDS VerificationDispatch, Sequences, TLAPS

\* The part of the type invariant that the arguments below rest on.
Core ==
    /\ request \in [Requests -> RequestState]
    /\ attempt \in [Requests -> AttemptOutcome \cup {"none", "claimed", "uncertain"}]
    /\ check \in [Requests -> [Checks -> CheckOutcome \cup {"none", "not_executed", "skipped"}]]
    /\ writer \in [by : Requests \cup {"nobody", "other"}, how : {"active", "recovery"}]
    /\ commands \in [Requests -> SUBSET Checks]
    /\ runner \in [Requests -> Stage]
    /\ active \in [Agents -> Requests \cup {"none", "other"}]

\* A dispatch that is past its admission has its recipient to itself, and there is none in
\* a daemon that is down.
Registered ==
    \A r \in Requests : runner[r] # "idle" =>
        daemon # "down" /\ active[Recipient(r)] = r /\ Recipient(r) \notin archived

\* The stages between the claim of an attempt and its settlement.
Attempting == {"proving", "disproved", "overdue", "preparing", "turn", "measuring"}
ClaimsBelong ==
    \A r \in Requests : attempt[r] = "claimed" /\ daemon # "down" => runner[r] \in Attempting

\* While a turn is prepared, runs and is measured, its writer is the active one.
Working == {"proving", "preparing", "turn", "measuring"}
WriterIsActive ==
    \A r \in Requests : runner[r] \in Working => writer.by = r /\ writer.how = "active"

IInv == Core /\ Registered /\ ClaimsBelong /\ WriterIsActive /\ ResultsAreEarned

-----------------------------------------------------------------------------
(* What the steps do. *)

\* Only request rows change, and none to completed.
RequestsOnly ==
    /\ request' \in [Requests -> RequestState]
    /\ \A r \in Requests : request'[r] = request[r] \/ request'[r] # "completed"

QuietStep ==
    /\ RequestsOnly
    /\ UNCHANGED <<attempt, check, archived, writer, commands, daemon, runner, active>>

LEMMA SetsRequest ==
    ASSUME Core, NEW r \in Requests, NEW s \in RequestState \ {"completed"}, SetRequestState(r, s)
    PROVE  RequestsOnly
<1>1. CASE Known(r)
  BY <1>1 DEF Core, SetRequestState, RequestsOnly
<1>2. CASE ~Known(r)
  BY <1>2 DEF Core, SetRequestState, RequestsOnly
<1>3. QED
  BY <1>1, <1>2

Quiet(r) ==
    \/ createVerificationRequest(r) \/ CancelWaiting(r) \/ cancelVerificationDispatch(r)
    \/ GrantDelivered(r) \/ ApprovalRefused(r) \/ Expire(r) \/ LeaseExpires(r)
    \/ dispatchPendingVerifications(r) \/ \E decision \in Policies[r] : ChangePolicy(r, decision)
    \/ DispatchRefused(r) \/ AdmissionDeferred(r) \/ AdmissionBlocked(r) \/ AdmissionHeld(r)

LEMMA QuietEffect ==
    ASSUME Core, NEW r \in Requests, Quiet(r)
    PROVE  QuietStep
<1> USE DEF QuietStep, rowVars, grantVars, processVars, boundVars
<1>0. UNCHANGED request => RequestsOnly
  BY DEF Core, RequestsOnly
<1>1. CASE createVerificationRequest(r)
  BY <1>1 DEF createVerificationRequest, Core, RequestsOnly, RequestState
<1>2. CASE CancelWaiting(r)
  BY <1>2, SetsRequest DEF CancelWaiting, RequestState, TerminalRequest
<1>3. CASE GrantDelivered(r)
  BY <1>3, SetsRequest DEF GrantDelivered, RequestState
<1>4. CASE cancelVerificationDispatch(r) \/ ApprovalRefused(r) \/ Expire(r) \/ LeaseExpires(r)
  BY <1>0, <1>4 DEF cancelVerificationDispatch, ApprovalRefused, Expire, LeaseExpires
<1>5. CASE dispatchPendingVerifications(r) \/ \E decision \in Policies[r] : ChangePolicy(r, decision)
  BY <1>0, <1>5 DEF dispatchPendingVerifications, ChangePolicy
<1>6. CASE DispatchRefused(r) \/ AdmissionDeferred(r)
  BY <1>0, <1>6 DEF DispatchRefused, AdmissionDeferred, Free, Granted
<1>7. CASE AdmissionBlocked(r) \/ AdmissionHeld(r)
  BY <1>7, SetsRequest DEF AdmissionBlocked, AdmissionHeld, Free, Granted, RequestState
<1>8. QED
  BY <1>1, <1>2, <1>3, <1>4, <1>5, <1>6, <1>7 DEF Quiet

\* The attempt of a request is settled, if it is still open, and the results stay earned.
Settling(r) ==
    /\ request' \in [Requests -> RequestState]
    /\ check' \in [Requests -> [Checks -> CheckOutcome \cup {"none", "not_executed", "skipped"}]]
    /\ attempt' = [attempt EXCEPT ![r] = attempt'[r]]
    /\ IF attempt[r] = "claimed" THEN attempt'[r] \in AttemptOutcome \cup {"uncertain"}
       ELSE attempt'[r] = attempt[r]
    /\ ResultsAreEarned'

LEMMA FinishedSettles ==
    ASSUME Core, ResultsAreEarned, NEW r \in Requests,
           NEW outcome \in AttemptOutcome \cup {"uncertain"}, NEW unreported \in {"skipped", "unknown"},
           Finished(r, outcome, unreported),
           outcome = "completed" =>
               unreported = "skipped" /\ "executed" \in Reported(r) /\ "unknown" \notin Reported(r)
    PROVE  Settling(r)
<1>1. CASE attempt[r] = "claimed"
  <2>1. /\ attempt' = [attempt EXCEPT ![r] = outcome]
        /\ check' = Unreported(r, unreported)
        /\ SetRequestState(r, outcome)
    BY <1>1 DEF Finished
  <2>2. check' = [check EXCEPT ![r] =
                     [c \in Checks |-> IF check[r][c] = "not_executed" THEN unreported ELSE check[r][c]]]
    BY <2>1 DEF Unreported
  <2>3. \A q \in Requests \ {r} : check'[q] = check[q] /\ attempt'[q] = attempt[q]
    BY <2>1, <2>2 DEF Core
  <2>4. \A c \in Checks :
            check'[r][c] = IF check[r][c] = "not_executed" THEN unreported ELSE check[r][c]
    BY <2>2 DEF Core
  <2>5. /\ request' \in [Requests -> RequestState] /\ request'[r] \in {request[r], outcome}
        /\ \A q \in Requests \ {r} : request'[q] = request[q]
    BY <2>1 DEF Core, SetRequestState, RequestState, TerminalRequest, AttemptOutcome
  <2>6. request[r] # "completed"
    BY <1>1 DEF ResultsAreEarned
  <2>7. ASSUME NEW q \in Requests, request'[q] = "completed"
        PROVE  /\ attempt'[q] = "completed"
               /\ "executed" \in Reported(q)'
               /\ Reported(q)' \cap {"unknown", "not_executed"} = {}
    <3>1. CASE q = r
      <4>1. outcome = "completed" /\ attempt'[r] = "completed"
        BY <2>1, <2>5, <2>6, <2>7, <3>1 DEF Core
      <4>2. PICK c \in Checks : check[r][c] = "executed"
        BY <4>1 DEF Reported
      <4>3. check'[r][c] = "executed"
        BY <2>4, <4>2
      <4>4. \A d \in Checks : check'[r][d] # "unknown" /\ check'[r][d] # "not_executed"
        BY <2>4, <4>1 DEF Reported
      <4>5. QED
        BY <3>1, <4>1, <4>3, <4>4 DEF Reported
    <3>2. CASE q # r
      BY <2>3, <2>5, <2>7, <3>2 DEF ResultsAreEarned, Reported
    <3>3. QED
      BY <3>1, <3>2
  <2>8. check' \in [Requests -> [Checks -> CheckOutcome \cup {"none", "not_executed", "skipped"}]]
    BY <2>2 DEF Core, CheckOutcome
  <2>9. QED
    BY <1>1, <2>1, <2>5, <2>7, <2>8 DEF Settling, ResultsAreEarned, Core
<1>2. CASE attempt[r] # "claimed"
  <2>1. UNCHANGED <<request, attempt, check>>
    BY <1>2 DEF Finished, rowVars
  <2>2. ResultsAreEarned'
    BY <2>1 DEF ResultsAreEarned, Reported
  <2>3. QED
    BY <1>2, <2>1, <2>2 DEF Core, Settling
<1>3. QED
  BY <1>1, <1>2

LEMMA SettleSettles ==
    ASSUME Core, ResultsAreEarned, NEW r \in Requests, settleVerificationAttempt(r)
    PROVE  Settling(r)
  BY FinishedSettles DEF settleVerificationAttempt, SettledAs, AttemptOutcome

LEMMA AbandonSettles ==
    ASSUME Core, ResultsAreEarned, NEW r \in Requests, NEW outcome \in {"cancelled", "failed"},
           abandonVerificationAttempt(r, outcome)
    PROVE  Settling(r)
  BY FinishedSettles DEF abandonVerificationAttempt, AttemptOutcome

LEMMA UnstartedSettles ==
    ASSUME Core, ResultsAreEarned, NEW r \in Requests,
           settleUnstarted(r), SetRequestState(r, "blocked")
    PROVE  Settling(r)
<1>1. RequestsOnly
  BY SetsRequest DEF RequestState
<1>2. CASE attempt[r] = "claimed"
  <2>1. /\ attempt' = [attempt EXCEPT ![r] = "failed"]
        /\ check' = [check EXCEPT ![r] =
                        [c \in Checks |-> IF check[r][c] = "not_executed" THEN "blocked" ELSE check[r][c]]]
    BY <1>2 DEF settleUnstarted, Unreported
  <2>2. check' \in [Requests -> [Checks -> CheckOutcome \cup {"none", "not_executed", "skipped"}]]
    BY <2>1 DEF Core, CheckOutcome
  <2>3. \A q \in Requests \ {r} : check'[q] = check[q] /\ attempt'[q] = attempt[q]
    BY <2>1 DEF Core
  <2>4. request'[r] # "completed"
    BY <1>1, <1>2 DEF RequestsOnly, ResultsAreEarned
  <2>5. ResultsAreEarned'
    BY <1>1, <2>3, <2>4 DEF RequestsOnly, ResultsAreEarned, Reported
  <2>6. QED
    BY <1>1, <1>2, <2>1, <2>2, <2>5 DEF Core, Settling, RequestsOnly, AttemptOutcome
<1>3. CASE attempt[r] # "claimed"
  <2>1. UNCHANGED <<attempt, check>>
    BY <1>3 DEF settleUnstarted
  <2>2. ResultsAreEarned'
    BY <1>1, <2>1 DEF RequestsOnly, ResultsAreEarned, Reported
  <2>3. QED
    BY <1>1, <1>3, <2>1, <2>2 DEF Core, Settling, RequestsOnly
<1>4. QED
  BY <1>2, <1>3

-----------------------------------------------------------------------------
(* A dispatch, from its admission to its end: its place, its attempt, its workspace. *)

Moves(r) ==
    /\ runner[r] # "idle"
    /\ UNCHANGED <<daemon, archived>>
    /\ \/ runner' = [runner EXCEPT ![r] = runner'[r]] /\ runner'[r] \in Stage \ {"idle"}
          /\ UNCHANGED active
       \/ runner' = [runner EXCEPT ![r] = "idle"]
          /\ active' = [active EXCEPT ![Recipient(r)] = "none"]

Claims(r) ==
    /\ attempt[r] # "claimed" /\ request[r] = "pending" /\ runner'[r] = "proving"
    /\ attempt' = [attempt EXCEPT ![r] = "claimed"]
    /\ check' = [check EXCEPT ![r] = [c \in Checks |-> "not_executed"]]
    /\ request' = [request EXCEPT ![r] = "running"]
Carries(r) ==
    \/ Settling(r) /\ runner'[r] \notin Attempting
    \/ UNCHANGED <<attempt, check>> /\ RequestsOnly /\ (runner[r] \in Attempting => runner'[r] \in Attempting)
    \/ Claims(r)

Writes(r) ==
    \/ UNCHANGED <<writer, commands>> /\ (runner'[r] \in Working => runner[r] \in Working)
    \/ /\ writer = Nobody /\ UNCHANGED commands
       /\ \/ writer' = [by |-> r, how |-> "active"]
          \/ writer' = [by |-> r, how |-> "recovery"] /\ runner'[r] \notin Working
    \/ writer' = Abandoned(r) /\ UNCHANGED commands /\ runner'[r] \notin Working
    \/ Reap(r) /\ runner'[r] \notin Working
    \/ writer.how = "recovery" /\ Reap(writer.by) /\ runner'[r] \notin Working

LEMMA Unmoved == ASSUME Core, UNCHANGED request PROVE RequestsOnly
  BY DEF Core, RequestsOnly

LEMMA GoesTo ==
    ASSUME Core, NEW r \in Requests, NEW stage \in Stage \ {"idle"}, runner[r] # "idle",
           GoTo(r, stage), UNCHANGED archived
    PROVE  Moves(r) /\ runner'[r] = stage
  BY DEF Core, GoTo, Moves

LEMMA Finishes ==
    ASSUME Core, NEW r \in Requests, runner[r] # "idle", Finish(r), UNCHANGED archived
    PROVE  Moves(r) /\ runner'[r] = "idle"
  BY DEF Core, Finish, Moves

LEMMA ClaimingEffect ==
    ASSUME Core, NEW r \in Requests, Claiming(r)
    PROVE  Moves(r) /\ Carries(r) /\ Writes(r)
<1> USE DEF Stage, Attempting, Working
<1>1. CASE RecoverWriter(r)
  <2>1. Moves(r) /\ runner'[r] = "claiming"
    BY <1>1, GoesTo DEF RecoverWriter
  <2>2. QED
    BY <1>1, <2>1, Unmoved DEF RecoverWriter, Carries, Writes, rowVars
<1>2. CASE ClaimBusy(r)
  <2>1. Moves(r) /\ runner'[r] = "idle"
    BY <1>2, Finishes DEF ClaimBusy
  <2>2. QED
    BY <1>2, <2>1, Unmoved DEF ClaimBusy, Carries, Writes, rowVars
<1>3. CASE claimVerificationAttempt(r)
  <2>1. Moves(r) /\ runner'[r] = "proving"
    BY <1>3, GoesTo DEF claimVerificationAttempt
  <2>2. QED
    BY <1>3, <2>1 DEF claimVerificationAttempt, Claimable, Carries, Claims, Writes
<1>4. CASE GivenUp(r)
  <2>1. Moves(r) /\ runner'[r] = "idle"
    BY <1>4, Finishes DEF GivenUp
  <2>2. RequestsOnly
    BY <1>4, Unmoved, SetsRequest DEF GivenUp, RequestState
  <2>3. QED
    BY <1>4, <2>1, <2>2 DEF GivenUp, Carries, Writes
<1>5. ASSUME NEW why \in {"refused", "unselected"}, ClaimGivenUp(r, why)
      PROVE  Moves(r) /\ Carries(r) /\ Writes(r)
  <2>1. Moves(r) /\ runner'[r] = why
    BY <1>5, GoesTo DEF ClaimGivenUp
  <2>2. QED
    BY <1>5, <2>1, Unmoved DEF ClaimGivenUp, Carries, Writes, rowVars
<1>6. QED
  BY <1>1, <1>2, <1>3, <1>4, <1>5 DEF Claiming

LEMMA TurnEffect ==
    ASSUME Core, ResultsAreEarned, NEW r \in Requests, Turn(r)
    PROVE  Moves(r) /\ Carries(r) /\ Writes(r)
<1> USE DEF Stage, Attempting, Working
<1>1. CASE Proven(r) \/ Prepared(r) \/ TurnEnds(r)
  <2>1. Moves(r) /\ runner'[r] \in {"preparing", "turn", "measuring"} /\ runner[r] \in Working
    BY <1>1, GoesTo DEF Proven, Prepared, TurnEnds
  <2>2. QED
    BY <1>1, <2>1, Unmoved DEF Proven, Prepared, TurnEnds, Carries, Writes, rowVars
<1>2. ASSUME NEW why \in {"disproved", "overdue"}, Disproven(r, why)
      PROVE  Moves(r) /\ Carries(r) /\ Writes(r)
  <2>1. Moves(r) /\ runner'[r] = why
    BY <1>2, GoesTo DEF Disproven
  <2>2. QED
    BY <1>2, <2>1, Unmoved DEF Disproven, Carries, Writes, rowVars
<1>3. CASE DisprovenSettled(r)
  <2>1. Moves(r) /\ runner'[r] = "idle"
    BY <1>3, Finishes DEF DisprovenSettled
  <2>2. QED
    BY <1>3, <2>1, UnstartedSettles DEF DisprovenSettled, Carries, Writes
<1>4. CASE OverdueSettled(r)
  <2>1. Moves(r) /\ runner'[r] = "closing"
    BY <1>4, GoesTo DEF OverdueSettled
  <2>2. QED
    BY <1>4, <2>1, SettleSettles DEF OverdueSettled, Carries, Writes
<1>5. CASE TurnFails(r) \/ Measured(r)
  <2>1. Moves(r) /\ runner'[r] = "closing"
    BY <1>5, GoesTo DEF TurnFails, Measured
  <2>2. Settling(r)
    BY <1>5, SettleSettles, AbandonSettles DEF TurnFails, Measured
  <2>3. QED
    BY <1>5, <2>1, <2>2 DEF TurnFails, Measured, Carries, Writes
<1>6. CASE Close(r)
  <2>1. Moves(r) /\ runner'[r] = "releasing"
    BY <1>6, GoesTo DEF Close
  <2>2. QED
    BY <1>6, <2>1, Unmoved DEF Close, Carries, Writes, rowVars
<1>7. CASE Released(r)
  <2>1. Moves(r) /\ runner'[r] = "idle"
    BY <1>7, Finishes DEF Released
  <2>2. QED
    BY <1>7, <2>1, Unmoved DEF Released, Carries, Writes, rowVars
<1>8. QED
  BY <1>1, <1>2, <1>3, <1>4, <1>5, <1>6, <1>7 DEF Turn

-----------------------------------------------------------------------------
(* The other steps. *)

ChecksStep(r) ==
    /\ \/ UNCHANGED check
       \/ \E c \in Checks, outcome \in CheckOutcome : recordVerificationCheckOutcome(r, c, outcome)
    /\ commands' \in [Requests -> SUBSET Checks]
    /\ \A q \in Requests : commands'[q] # {} => commands[q] # {} \/ runner[q] = "turn"
    /\ UNCHANGED <<request, attempt, archived, writer, daemon, runner, active>>

\* Other sources take what is free and give it back.
OtherStep ==
    /\ UNCHANGED <<request, attempt, check, commands, runner, daemon>>
    /\ \/ UNCHANGED <<active, archived>>
       \/ \E a \in Agents :
            \/ active[a] = "none" /\ archived' = archived \cup {a} /\ UNCHANGED active
            \/ /\ active[a] \in {"none", "other"}
               /\ \E who \in {"none", "other"} : active' = [active EXCEPT ![a] = who]
               /\ UNCHANGED archived
    /\ \/ UNCHANGED writer
       \/ writer = Nobody /\ writer' = [by |-> "other", how |-> "active"]
       \/ writer.by = "other" /\ writer' \in {[by |-> "other", how |-> "recovery"], Nobody}

LEMMA ChecksEffect ==
    ASSUME Core, NEW r \in Requests, ChecksOf(r)
    PROVE  ChecksStep(r)
<1>1. ASSUME NEW c \in Checks, RunCheck(r, c) PROVE ChecksStep(r)
  BY <1>1 DEF Core, RunCheck, ChecksStep, rowVars, processVars
<1>2. ASSUME NEW c \in Checks, NEW outcome \in CheckOutcome, CheckEnds(r, c, outcome)
      PROVE  ChecksStep(r)
  <2>1. /\ commands' \in [Requests -> SUBSET Checks]
        /\ \A q \in Requests : commands'[q] # {} => commands[q] # {}
    BY <1>2 DEF Core, CheckEnds
  <2>2. QED
    BY <1>2, <2>1 DEF CheckEnds, ChecksStep, processVars
<1>3. QED
  BY <1>1, <1>2 DEF ChecksOf

LEMMA OtherEffect ==
    ASSUME Core, \/ \E a \in Agents : Acquire(a) \/ Unlock(a) \/ OtherTurnEnds(a)
                 \/ OtherClaims \/ OtherReleases
    PROVE  OtherStep
<1> USE DEF OtherStep, rowVars, processVars
<1>1. ASSUME NEW a \in Agents, Acquire(a) \/ Unlock(a) \/ OtherTurnEnds(a) PROVE OtherStep
  BY <1>1 DEF Acquire, Unlock, OtherTurnEnds
<1>2. CASE OtherClaims
  BY <1>2 DEF OtherClaims
<1>3. CASE OtherReleases
  <2>1. writer.how = "active" /\ writer' = [writer EXCEPT !.how = "recovery"]
            => writer' = [by |-> writer.by, how |-> "recovery"]
    BY DEF Core
  <2>2. QED
    BY <1>3, <2>1 DEF OtherReleases
<1>4. QED
  BY <1>1, <1>2, <1>3

\* A shutdown that begins, or a stutter.
Elsewhere ==
    /\ UNCHANGED <<request, attempt, check, archived, writer, commands, runner, active>>
    /\ daemon' = daemon \/ (daemon = "up" /\ daemon' = "stopping")

LEMMA StepKinds ==
    ASSUME Core, ResultsAreEarned, [Next]_vars
    PROVE  \/ QuietStep
           \/ \E r \in Requests : \/ pruneVerificationRequests(r) \/ AdmissionStarted(r)
                                  \/ Moves(r) /\ Carries(r) /\ Writes(r)
                                  \/ ChecksStep(r)
           \/ OtherStep \/ Die \/ Restart \/ Elsewhere
<1>1. CASE Shutdown \/ AllGone \/ UNCHANGED vars
  BY <1>1 DEF Shutdown, AllGone, vars, rowVars, grantVars, processVars, boundVars, Elsewhere
<1>2. ASSUME NEW r \in Requests, Rows(r) \/ Admission(r)
      PROVE  QuietStep \/ pruneVerificationRequests(r) \/ AdmissionStarted(r)
  BY <1>2, QuietEffect DEF Rows, Admission, Quiet
<1>3. QED
  BY <1>1, <1>2, ClaimingEffect, TurnEffect, ChecksEffect, OtherEffect DEF Next, Others

-----------------------------------------------------------------------------
(* The inductive invariant. *)

LEMMA InitIInv == Init => IInv
<1> SUFFICES ASSUME Init PROVE IInv
  OBVIOUS
<1>1. Core
  BY DEF Init, Core, RequestState, Stage, Nobody
<1>2. Registered /\ ClaimsBelong /\ WriterIsActive /\ ResultsAreEarned
  BY DEF Init, Registered, ClaimsBelong, WriterIsActive, ResultsAreEarned, Attempting, Working
<1>3. QED
  BY <1>1, <1>2 DEF IInv

LEMMA ReapTypes ==
    ASSUME Core, NEW owner, Reap(owner)
    PROVE  /\ writer' \in [by : Requests \cup {"nobody", "other"}, how : {"active", "recovery"}]
           /\ commands' \in [Requests -> SUBSET Checks]
           /\ writer' = writer \/ (writer.by = owner /\ writer' = Nobody)
<1>1. CASE UNCHANGED <<writer, commands>>
  BY <1>1 DEF Core
<1>2. CASE ~UNCHANGED <<writer, commands>>
  BY <1>2 DEF Core, Reap, Nobody
<1>3. QED
  BY <1>1, <1>2

LEMMA DispatchTypes ==
    ASSUME Core, NEW r \in Requests, Moves(r), Carries(r), Writes(r)
    PROVE  Core'
<1>1. runner' \in [Requests -> Stage]
  BY DEF Core, Moves, Stage
<1>2. active' \in [Agents -> Requests \cup {"none", "other"}]
  BY DEF Core, Moves
<1>3. /\ request' \in [Requests -> RequestState]
      /\ attempt' \in [Requests -> AttemptOutcome \cup {"none", "claimed", "uncertain"}]
      /\ check' \in [Requests -> [Checks -> CheckOutcome \cup {"none", "not_executed", "skipped"}]]
  <2>1. CASE Settling(r)
    <3>1. attempt'[r] \in AttemptOutcome \cup {"none", "claimed", "uncertain"}
      BY <2>1 DEF Core, Settling
    <3>2. attempt' \in [Requests -> AttemptOutcome \cup {"none", "claimed", "uncertain"}]
      BY <2>1, <3>1 DEF Core, Settling
    <3>3. QED
      BY <2>1, <3>2 DEF Settling
  <2>2. CASE UNCHANGED <<attempt, check>> /\ RequestsOnly
    BY <2>2 DEF Core, RequestsOnly
  <2>3. CASE Claims(r)
    BY <2>3 DEF Core, Claims, RequestState
  <2>4. QED
    BY <2>1, <2>2, <2>3 DEF Carries
<1>4. /\ writer' \in [by : Requests \cup {"nobody", "other"}, how : {"active", "recovery"}]
      /\ commands' \in [Requests -> SUBSET Checks]
  <2>1. CASE \E owner : Reap(owner)
    BY <2>1, ReapTypes
  <2>2. CASE writer' = Abandoned(r) /\ UNCHANGED commands
    BY <2>2 DEF Core, Abandoned
  <2>3. CASE UNCHANGED commands /\ writer' \in {writer, [by |-> r, how |-> "active"], [by |-> r, how |-> "recovery"]}
    BY <2>3 DEF Core
  <2>4. QED
    BY <2>1, <2>2, <2>3 DEF Writes
<1>5. QED
  BY <1>1, <1>2, <1>3, <1>4 DEF Core

LEMMA DispatchPreserves ==
    ASSUME IInv, NEW r \in Requests, Moves(r), Carries(r), Writes(r)
    PROVE  IInv'
<1> USE DEF IInv
<1>1. Core'
  BY DispatchTypes
<1>2. \A q \in Requests \ {r} : runner'[q] = runner[q] /\ (runner[q] # "idle" => Recipient(q) # Recipient(r))
  BY DEF Core, Moves, Registered
<1>3. Registered'
  <2>1. ASSUME NEW q \in Requests, runner'[q] # "idle"
        PROVE  daemon' # "down" /\ active'[Recipient(q)] = q /\ Recipient(q) \notin archived'
    <3>1. Recipient(q) \in Agents /\ Recipient(r) \in Agents
      BY VerificationAssumption DEF Recipient
    <3>2. CASE q = r
      BY <2>1, <3>1, <3>2 DEF Core, Moves, Registered
    <3>3. CASE q # r
      BY <1>2, <2>1, <3>1, <3>3 DEF Core, Moves, Registered
    <3>4. QED
      BY <3>2, <3>3
  <2>2. QED
    BY <2>1 DEF Registered, Recipient
<1>4. ClaimsBelong'
  <2>1. \A q \in Requests \ {r} : attempt'[q] = attempt[q]
    BY DEF Core, Carries, Settling, Claims
  <2>2. attempt'[r] = "claimed" => runner'[r] \in Attempting
    <3>1. CASE Settling(r) /\ runner'[r] \notin Attempting
      <4>1. daemon # "down" /\ runner[r] # "idle"
        BY DEF Moves, Registered
      <4>2. attempt'[r] # "claimed"
        BY <3>1 DEF Settling, AttemptOutcome
      <4>3. QED
        BY <4>2
    <3>2. CASE UNCHANGED <<attempt, check>> /\ (runner[r] \in Attempting => runner'[r] \in Attempting)
      BY <3>2 DEF ClaimsBelong, Moves, Registered
    <3>3. CASE Claims(r)
      BY <3>3 DEF Claims, Attempting
    <3>4. QED
      BY <3>1, <3>2, <3>3 DEF Carries
  <2>3. QED
    BY <1>2, <2>1, <2>2 DEF ClaimsBelong, Moves
<1>5. WriterIsActive'
  <2>1. ASSUME NEW q \in Requests \ {r}, runner[q] \in Working PROVE writer' = writer
    <3>1. writer.by = q /\ writer.how = "active" /\ q # "nobody"
      BY <2>1, VerificationAssumption DEF WriterIsActive
    <3>2. writer # Nobody /\ writer.by # r
      BY <2>1, <3>1 DEF Nobody
    <3>3. QED
      BY <3>1, <3>2, ReapTypes DEF Writes, Abandoned
  <2>2. runner'[r] \in Working => writer'.by = r /\ writer'.how = "active"
    BY DEF Writes, WriterIsActive
  <2>3. QED
    BY <1>2, <2>1, <2>2 DEF WriterIsActive
<1>6. ResultsAreEarned'
  <2>1. CASE Settling(r)
    BY <2>1 DEF Settling
  <2>2. CASE UNCHANGED <<attempt, check>> /\ RequestsOnly
    BY <2>2 DEF RequestsOnly, ResultsAreEarned, Reported
  <2>3. CASE Claims(r)
    <3>1. \A q \in Requests \ {r} : UNCHANGED <<request[q], attempt[q], check[q]>>
      BY <2>3 DEF Core, Claims
    <3>2. request'[r] # "completed"
      BY <2>3 DEF Core, Claims
    <3>3. QED
      BY <3>1, <3>2 DEF ResultsAreEarned, Reported
  <2>4. QED
    BY <2>1, <2>2, <2>3 DEF Carries
<1>7. QED
  BY <1>1, <1>3, <1>4, <1>5, <1>6

LEMMA ChecksPreserve == ASSUME IInv, NEW r \in Requests, ChecksStep(r) PROVE IInv'
<1> USE DEF IInv
<1>1. check' \in [Requests -> [Checks -> CheckOutcome \cup {"none", "not_executed", "skipped"}]]
  <2>1. CASE UNCHANGED check
    BY <2>1 DEF Core
  <2>2. ASSUME NEW c \in Checks, NEW outcome \in CheckOutcome, recordVerificationCheckOutcome(r, c, outcome)
        PROVE  check' \in [Requests -> [Checks -> CheckOutcome \cup {"none", "not_executed", "skipped"}]]
    BY <2>2 DEF Core, recordVerificationCheckOutcome
  <2>3. QED
    BY <2>1, <2>2 DEF ChecksStep
<1>2. Core' /\ Registered' /\ ClaimsBelong' /\ WriterIsActive'
  BY <1>1 DEF Core, ChecksStep, Registered, ClaimsBelong, WriterIsActive, Recipient
<1>3. ResultsAreEarned'
  <2>1. ASSUME NEW q \in Requests, request[q] = "completed" PROVE check'[q] = check[q]
    <3>1. \A c \in Checks : check[q][c] # "not_executed"
      BY <2>1 DEF ResultsAreEarned, Reported
    <3>2. QED
      BY <3>1 DEF Core, ChecksStep, recordVerificationCheckOutcome
  <2>2. QED
    BY <2>1 DEF ChecksStep, ResultsAreEarned, Reported
<1>4. QED
  BY <1>2, <1>3

LEMMA QuietPreserves == ASSUME IInv, QuietStep PROVE IInv'
<1> USE DEF IInv
<1>1. Core' /\ Registered' /\ ClaimsBelong' /\ WriterIsActive'
  BY DEF Core, QuietStep, RequestsOnly, Registered, ClaimsBelong, WriterIsActive, Recipient
<1>2. ResultsAreEarned'
  BY DEF QuietStep, RequestsOnly, ResultsAreEarned, Reported
<1>3. QED
  BY <1>1, <1>2

LEMMA OtherPreserves == ASSUME IInv, OtherStep PROVE IInv'
<1> USE DEF IInv
<1>1. active' \in [Agents -> Requests \cup {"none", "other"}]
  BY DEF Core, OtherStep
<1>2. writer' \in [by : Requests \cup {"nobody", "other"}, how : {"active", "recovery"}]
  BY DEF Core, OtherStep, Nobody
<1>3. Core'
  BY <1>1, <1>2 DEF Core, OtherStep
<1>4. Registered'
  <2>1. ASSUME NEW r \in Requests, runner[r] # "idle"
        PROVE  active'[Recipient(r)] = r /\ Recipient(r) \notin archived'
    <3>1. active[Recipient(r)] \notin {"none", "other"} /\ Recipient(r) \in Agents
      BY <2>1, VerificationAssumption DEF Registered, Recipient
    <3>2. QED
      BY <2>1, <3>1 DEF Core, OtherStep, Registered
  <2>2. QED
    BY <2>1 DEF OtherStep, Registered, Recipient
<1>5. ClaimsBelong'
  BY DEF OtherStep, ClaimsBelong
<1>6. WriterIsActive'
  BY VerificationAssumption DEF OtherStep, WriterIsActive, Nobody, Working
<1>7. ResultsAreEarned'
  BY DEF OtherStep, ResultsAreEarned, Reported
<1>8. QED
  BY <1>3, <1>4, <1>5, <1>6, <1>7

LEMMA PrunePreserves ==
    ASSUME IInv, NEW r \in Requests, pruneVerificationRequests(r)
    PROVE  IInv'
<1> USE DEF IInv, pruneVerificationRequests, processVars
<1>1. Core'
  BY DEF Core, RequestState
<1>2. Registered' /\ WriterIsActive'
  BY DEF Registered, WriterIsActive, Recipient
<1>3. ClaimsBelong'
  BY DEF Core, ClaimsBelong
<1>4. ResultsAreEarned'
  <2>1. request'[r] = "gone"
    BY DEF Core
  <2>2. \A q \in Requests \ {r} : UNCHANGED <<request[q], attempt[q], check[q]>>
    BY DEF Core
  <2>3. QED
    BY <2>1, <2>2 DEF ResultsAreEarned, Reported
<1>5. QED
  BY <1>1, <1>2, <1>3, <1>4

LEMMA AdmissionPreserves ==
    ASSUME IInv, NEW r \in Requests, AdmissionStarted(r)
    PROVE  IInv'
<1> USE DEF IInv, AdmissionStarted, Free, Granted, rowVars
<1>1. Core'
  BY DEF Core, Stage
<1>2. Registered'
  <2>1. \A q \in Requests : Recipient(q) \in Agents /\ q # "none"
    BY VerificationAssumption DEF Recipient
  <2>2. \A q \in Requests : runner[q] # "idle" => Recipient(q) # Recipient(r)
    BY <2>1 DEF Registered
  <2>3. ASSUME NEW q \in Requests, runner'[q] # "idle"
        PROVE  daemon' # "down" /\ active'[Recipient(q)] = q /\ Recipient(q) \notin archived'
    BY <2>1, <2>2, <2>3 DEF Core, Registered
  <2>4. QED
    BY <2>3 DEF Registered, Recipient
<1>3. runner[r] = "idle"
  BY VerificationAssumption DEF Registered, Recipient
<1>4. ClaimsBelong' /\ WriterIsActive'
  BY <1>3 DEF Core, ClaimsBelong, WriterIsActive, Attempting, Working
<1>5. ResultsAreEarned'
  BY DEF ResultsAreEarned, Reported
<1>6. QED
  BY <1>1, <1>2, <1>4, <1>5

LEMMA DiePreserves == ASSUME IInv, Die PROVE IInv'
<1> USE DEF IInv, Die, rowVars
<1>1. Core'
  BY DEF Core, Stage
<1>2. Registered' /\ ClaimsBelong' /\ WriterIsActive'
  BY DEF Core, Registered, ClaimsBelong, WriterIsActive, Working
<1>3. ResultsAreEarned'
  BY DEF ResultsAreEarned, Reported
<1>4. QED
  BY <1>1, <1>2, <1>3

LEMMA RestartPreserves == ASSUME IInv, Restart PROVE IInv'
<1> USE DEF IInv, Restart
<1>1. \A r \in Requests : runner'[r] = "idle"
  BY DEF Registered
<1>2. /\ request' \in [Requests -> RequestState]
      /\ attempt' \in [Requests -> AttemptOutcome \cup {"none", "claimed", "uncertain"}]
      /\ \A r \in Requests : attempt'[r] # "claimed"
  BY DEF Core, recoverInterruptedVerificationAttempts, RequestState, TerminalRequest
<1>3. \A r \in Requests : attempt[r] # "claimed" =>
          request'[r] = request[r] /\ attempt'[r] = attempt[r] /\ check'[r] = check[r]
  BY DEF Core, recoverInterruptedVerificationAttempts
<1>4. \A r \in Requests : attempt[r] = "claimed" => request'[r] = "uncertain"
  BY DEF Core, recoverInterruptedVerificationAttempts
<1>5. check' \in [Requests -> [Checks -> CheckOutcome \cup {"none", "not_executed", "skipped"}]]
  BY DEF Core, recoverInterruptedVerificationAttempts, Unreported, CheckOutcome
<1>6. Core' /\ Registered' /\ ClaimsBelong' /\ WriterIsActive'
  BY <1>1, <1>2, <1>5 DEF Core, Registered, ClaimsBelong, WriterIsActive, Working
<1>7. ResultsAreEarned'
  BY <1>3, <1>4 DEF ResultsAreEarned, Reported
<1>8. QED
  BY <1>6, <1>7

LEMMA IInvStep == ASSUME IInv, [Next]_vars PROVE IInv'
<1>1. CASE Elsewhere
  <2>1. Core'
    BY <1>1 DEF IInv, Core, Elsewhere
  <2>4. ResultsAreEarned'
    BY <1>1 DEF IInv, Elsewhere, ResultsAreEarned, Reported
  <2>2. Registered' /\ ClaimsBelong' /\ WriterIsActive'
    BY <1>1 DEF IInv, Elsewhere, Registered, ClaimsBelong, WriterIsActive, Recipient
  <2>3. QED
    BY <2>1, <2>2, <2>4 DEF IInv
<1>2. QED
  BY <1>1, StepKinds, QuietPreserves, PrunePreserves, AdmissionPreserves, DispatchPreserves,
     ChecksPreserve, OtherPreserves, DiePreserves, RestartPreserves DEF IInv

LEMMA Invariance == Spec => []IInv
<1>1. IInv /\ [Next]_vars => IInv'
  BY IInvStep
<1>2. QED
  BY InitIInv, <1>1, PTL DEF Spec

-----------------------------------------------------------------------------
(* Theorems. *)

\* From its claim to its settlement an attempt has its recipient to itself.
THEOREM RecipientKept == Spec => []RecipientStays
<1>1. IInv => RecipientStays
  BY DEF IInv, Registered, ClaimsBelong, RecipientStays, Attempting
<1>2. QED
  BY Invariance, <1>1, PTL

\* A verification completes only on evidence: a check that ran, and none that is uncertain.
THEOREM CompletedIsEarned == Spec => []ResultsAreEarned
<1>1. IInv => ResultsAreEarned
  BY DEF IInv
<1>2. QED
  BY Invariance, <1>1, PTL

-----------------------------------------------------------------------------
(* Commands and the workspace. *)

NoHost == \A r \in Requests : Posture[r] # "host"

LEMMA ReapKeepsCommands ==
    ASSUME NoHost, Core, CommandsHoldTheWorkspace, NEW owner, Reap(owner)
    PROVE  CommandsHoldTheWorkspace'
<1>1. CASE UNCHANGED <<writer, commands>>
  BY <1>1 DEF CommandsHoldTheWorkspace
<1>2. CASE ~UNCHANGED <<writer, commands>>
  <2>1. /\ writer.by = owner
        /\ commands' = [r \in Requests |->
                          IF r = owner /\ Posture[r] # "host" THEN {} ELSE commands[r]]
    BY <1>2 DEF Reap
  <2>2. \A r \in Requests : commands'[r] = {}
    BY <2>1 DEF NoHost, CommandsHoldTheWorkspace
  <2>3. QED
    BY <2>2 DEF CommandsHoldTheWorkspace
<1>3. QED
  BY <1>1, <1>2

LEMMA CommandsStep ==
    ASSUME NoHost, IInv, CommandsHoldTheWorkspace, [Next]_vars
    PROVE  CommandsHoldTheWorkspace'
<1>1. writer = Nobody => \A r \in Requests : commands[r] = {}
  BY VerificationAssumption DEF CommandsHoldTheWorkspace, Nobody
<1>2. ASSUME NEW r \in Requests, Moves(r), Writes(r) PROVE CommandsHoldTheWorkspace'
  <2>1. CASE \E owner : Reap(owner)
    BY <2>1, ReapKeepsCommands DEF IInv
  <2>2. CASE UNCHANGED <<writer, commands>>
    BY <2>2 DEF CommandsHoldTheWorkspace
  <2>3. CASE writer = Nobody /\ UNCHANGED commands
    BY <1>1, <2>3 DEF CommandsHoldTheWorkspace
  <2>4. CASE writer' = Abandoned(r) /\ UNCHANGED commands
    <3>1. writer'.by = writer.by
      BY <2>4 DEF IInv, Core, Abandoned
    <3>2. QED
      BY <2>4, <3>1 DEF CommandsHoldTheWorkspace
  <2>5. QED
    BY <1>2, <2>1, <2>2, <2>3, <2>4 DEF Writes
<1>3. ASSUME NEW r \in Requests, ChecksStep(r) PROVE CommandsHoldTheWorkspace'
  BY <1>3 DEF IInv, ChecksStep, CommandsHoldTheWorkspace, WriterIsActive, Working
<1>4. CASE OtherStep
  <2>1. writer' = writer \/ \A r \in Requests : commands[r] = {}
    BY <1>1, <1>4, VerificationAssumption DEF OtherStep, CommandsHoldTheWorkspace
  <2>2. QED
    BY <1>4, <2>1 DEF OtherStep, CommandsHoldTheWorkspace
<1>5. CASE Die
  BY <1>5 DEF IInv, Core, Die, CommandsHoldTheWorkspace
<1>6. CASE QuietStep \/ Restart \/ Elsewhere
  BY <1>6 DEF QuietStep, Restart, Elsewhere, CommandsHoldTheWorkspace
<1>7. ASSUME NEW r \in Requests, pruneVerificationRequests(r) \/ AdmissionStarted(r)
      PROVE  UNCHANGED <<writer, commands>>
  BY <1>7 DEF pruneVerificationRequests, AdmissionStarted, Free, Granted
<1>8. (UNCHANGED <<writer, commands>>) => CommandsHoldTheWorkspace'
  BY DEF CommandsHoldTheWorkspace
<1>9. QED
  BY <1>2, <1>3, <1>4, <1>5, <1>6, <1>7, <1>8, StepKinds DEF IInv

\* Without a request that runs its checks on the host, whatever command is left over keeps
\* the workspace of its request: nobody else writes while it may still touch the tree.
THEOREM CommandsContained ==
    ASSUME NoHost
    PROVE  Spec => []CommandsHoldTheWorkspace
<1>1. Init => CommandsHoldTheWorkspace
  BY DEF Init, CommandsHoldTheWorkspace
<1>2. IInv /\ CommandsHoldTheWorkspace /\ [Next]_vars => CommandsHoldTheWorkspace'
  BY CommandsStep
<1>3. QED
  BY Invariance, <1>1, <1>2, PTL DEF Spec

-----------------------------------------------------------------------------
(* Types. *)

\* The part of the type invariant that no other argument needs.
Rest ==
    /\ expired \subseteq Requests /\ aborted \subseteq Requests /\ overran \subseteq Requests
    /\ approval \in [Requests -> {"none", "pending", "delivered", "refused"}]
    /\ policy = [r \in Requests |-> policy[r]]
    /\ \A r \in Requests : policy[r] \in Policies[r]
    /\ archived \subseteq Agents /\ locked \subseteq Agents
    /\ daemon \in {"up", "stopping", "down"}
    /\ waiting \in [Requests -> Nat]
    /\ started \in [Requests -> SUBSET Checks]
    /\ deaths \in Nat /\ others \in Nat

\* Every step keeps that part.
LEMMA RestStep == ASSUME Rest, [Next]_vars PROVE Rest'
<1> USE DEF Rest, rowVars, grantVars, processVars, boundVars
<1>1. ASSUME NEW r \in Requests, Rows(r) PROVE Rest'
  <2>1. CASE createVerificationRequest(r) \/ CancelWaiting(r) \/ cancelVerificationDispatch(r)
    BY <2>1 DEF createVerificationRequest, CancelWaiting, cancelVerificationDispatch
  <2>2. CASE GrantDelivered(r) \/ ApprovalRefused(r) \/ Expire(r) \/ LeaseExpires(r)
    BY <2>2 DEF GrantDelivered, ApprovalRefused, Expire, LeaseExpires
  <2>3. CASE dispatchPendingVerifications(r) \/ pruneVerificationRequests(r)
    BY <2>3 DEF dispatchPendingVerifications, pruneVerificationRequests
  <2>4. CASE \E decision \in Policies[r] : ChangePolicy(r, decision)
    BY <2>4 DEF ChangePolicy
  <2>5. QED
    BY <1>1, <2>1, <2>2, <2>3, <2>4 DEF Rows
<1>2. ASSUME NEW r \in Requests, Admission(r) PROVE Rest'
  <2>1. Granted(r)
    BY <1>2 DEF Admission, DispatchRefused, AdmissionDeferred, AdmissionBlocked, AdmissionHeld,
                AdmissionStarted, Free
  <2>2. /\ waiting' \in [Requests -> Nat]
        /\ UNCHANGED <<expired, policy, archived, daemon, aborted, locked, started, overran, deaths, others>>
    BY <2>1 DEF Granted
  <2>3. approval' \in [Requests -> {"none", "pending", "delivered", "refused"}]
    BY <1>2 DEF Admission, DispatchRefused, AdmissionDeferred, AdmissionBlocked, AdmissionHeld,
                AdmissionStarted
  <2>4. QED
    BY <2>2, <2>3
<1>3. ASSUME NEW r \in Requests, Claiming(r) PROVE Rest'
  BY <1>3 DEF Claiming, RecoverWriter, ClaimBusy, claimVerificationAttempt, GivenUp, ClaimGivenUp,
              GoTo, Finish
<1>4. ASSUME NEW r \in Requests, Turn(r) PROVE Rest'
  <2>1. CASE Proven(r) \/ Prepared(r) \/ TurnEnds(r) \/ TurnFails(r) \/ Measured(r)
    BY <2>1 DEF Proven, Prepared, TurnEnds, TurnFails, Measured, GoTo
  <2>2. CASE DisprovenSettled(r) \/ OverdueSettled(r) \/ Close(r) \/ Released(r)
    BY <2>2 DEF DisprovenSettled, OverdueSettled, Close, Released, GoTo, Finish
  <2>3. CASE \E why \in {"disproved", "overdue"} : Disproven(r, why)
    BY <2>3 DEF Disproven, GoTo
  <2>4. QED
    BY <1>4, <2>1, <2>2, <2>3 DEF Turn
<1>5. ASSUME NEW r \in Requests, ChecksOf(r) PROVE Rest'
  BY <1>5 DEF ChecksOf, RunCheck, CheckEnds
<1>6. ASSUME NEW a \in Agents, Acquire(a) \/ Unlock(a) \/ OtherTurnEnds(a) PROVE Rest'
  BY <1>6 DEF Acquire, Unlock, OtherTurnEnds
<1>7. CASE OtherClaims \/ OtherReleases \/ Shutdown \/ Die \/ Restart
  BY <1>7 DEF OtherClaims, OtherReleases, Shutdown, Die, Restart
<1>8. CASE AllGone \/ UNCHANGED vars
  BY <1>8 DEF AllGone, vars
<1>9. QED
  BY <1>1, <1>2, <1>3, <1>4, <1>5, <1>6, <1>7, <1>8 DEF Next, Others

\* The rows, the stages of the dispatchers and the registry stay in their domains; a lost or
\* repeated decrement of what waits, or an outcome no column holds, would leave them.
THEOREM TypeCorrect == Spec => []TypeOK
<1>1. Init => Rest
  BY DEF Init, Rest
<1>2. Rest /\ [Next]_vars => Rest'
  BY RestStep
<1>3. IInv /\ Rest => TypeOK
  BY DEF IInv, Core, Rest, TypeOK
<1>4. QED
  BY Invariance, <1>1, <1>2, <1>3, PTL DEF Spec
-----------------------------------------------------------------------------
(* One attempt of a request. *)

\* A request whose attempt was claimed never waits for a dispatcher again, since those that
\* queued behind its own were turned away before; and nobody waits for the lease of an
\* Agent in a turn, but for one that is about to be turned away.
Attempted ==
    \A r \in Requests : attempt[r] # "none" =>
        waiting[r] = 0 /\ request[r] \notin {"absent", "gone", "pending", "awaiting_approval"}
LockedIsFree ==
    \A r \in Requests : waiting[r] > 0 /\ Recipient(r) \in locked => active[Recipient(r)] = "none"
Recovering == {"idle", "recovering"}
AloneIsServed == \A r \in Requests : runner[r] \notin Recovering => Served(Recipient(r))

Once == Attempted /\ LockedIsFree /\ AloneIsServed

\* Nothing but pruning takes a request away, and nothing brings it back.
Keeps == \A r \in Requests : request'[r] = "gone" <=> request[r] = "gone"

LEMMA SetsOne ==
    ASSUME Core, NEW r \in Requests, NEW s \in RequestState \ {"absent", "gone"}, SetRequestState(r, s)
    PROVE  /\ \A q \in Requests \ {r} : request'[q] = request[q]
           /\ request'[r] = IF Known(r) THEN s ELSE request[r]
           /\ Keeps
<1>1. CASE Known(r)
  BY <1>1 DEF Core, SetRequestState, Known, Keeps
<1>2. CASE ~Known(r)
  BY <1>2 DEF Core, SetRequestState, Keeps
<1>3. QED
  BY <1>1, <1>2

\* A dispatch that moves on, or ends.
Onward(r) ==
    /\ UNCHANGED <<waiting, locked>>
    /\ runner[r] # "idle" /\ (runner[r] = "recovering" => Served(Recipient(r)))
    /\ \A q \in Requests \ {r} :
           request'[q] = request[q] /\ attempt'[q] = attempt[q] /\ runner'[q] = runner[q]
    /\ \/ UNCHANGED active
       \/ active' = [active EXCEPT ![Recipient(r)] = "none"] /\ runner'[r] = "idle"
    /\ \/ /\ attempt'[r] = "none" <=> attempt[r] = "none"
          /\ \/ request'[r] = request[r]
             \/ request[r] # "gone" /\ request'[r] \in TerminalRequest \cup {"blocked"}
       \/ request[r] = "pending" /\ request'[r] = "running" /\ runner[r] \notin Recovering

LEMMA FinishedOnward ==
    ASSUME Core, NEW r \in Requests, NEW outcome \in TerminalRequest, NEW unreported,
           Finished(r, outcome, unreported)
    PROVE  /\ \A q \in Requests \ {r} : request'[q] = request[q] /\ attempt'[q] = attempt[q]
           /\ attempt'[r] = "none" <=> attempt[r] = "none"
           /\ request'[r] = request[r] \/ (request[r] # "gone" /\ request'[r] \in TerminalRequest)
<1>1. CASE attempt[r] = "claimed"
  <2>1. attempt' = [attempt EXCEPT ![r] = outcome] /\ SetRequestState(r, outcome)
    BY <1>1 DEF Finished
  <2>2. outcome \in RequestState \ {"absent", "gone"} /\ outcome # "none"
    BY DEF RequestState, TerminalRequest
  <2>3. /\ \A q \in Requests \ {r} : request'[q] = request[q]
        /\ request'[r] = IF Known(r) THEN outcome ELSE request[r]
    BY <2>1, <2>2, SetsOne
  <2>4. \A q \in Requests \ {r} : attempt'[q] = attempt[q]
    BY <2>1 DEF Core
  <2>5. attempt'[r] = outcome
    BY <2>1 DEF Core
  <2>6. QED
    BY <1>1, <2>2, <2>3, <2>4, <2>5 DEF Known
<1>2. CASE attempt[r] # "claimed"
  <2>1. UNCHANGED <<request, attempt>>
    BY <1>2 DEF Finished, rowVars
  <2>2. QED
    BY <2>1
<1>3. QED
  BY <1>1, <1>2

LEMMA UnstartedOnward ==
    ASSUME Core, NEW r \in Requests, settleUnstarted(r)
    PROVE  /\ \A q \in Requests \ {r} : attempt'[q] = attempt[q]
           /\ attempt'[r] = "none" <=> attempt[r] = "none"
  BY DEF Core, settleUnstarted

LEMMA BlocksOne ==
    ASSUME Core, NEW r \in Requests, SetRequestState(r, "blocked")
    PROVE  /\ \A q \in Requests \ {r} : request'[q] = request[q]
           /\ request'[r] = request[r] \/ (request[r] # "gone" /\ request'[r] = "blocked")
<1>1. "blocked" \in RequestState \ {"absent", "gone"}
  BY DEF RequestState
<1>2. QED
  BY <1>1, SetsOne DEF Known

LEMMA DispatchOnward ==
    ASSUME Core, NEW r \in Requests, Claiming(r) \/ Turn(r)
    PROVE  Onward(r)
<1> USE DEF Core, Onward, Recovering, rowVars
<1>1. CASE RecoverWriter(r)
  BY <1>1 DEF RecoverWriter, GoTo
<1>2. CASE ClaimBusy(r)
  BY <1>2 DEF ClaimBusy, Finish
<1>3. CASE claimVerificationAttempt(r)
  BY <1>3 DEF claimVerificationAttempt, Claimable, GoTo
<1>4. CASE GivenUp(r)
  BY <1>4, BlocksOne DEF GivenUp, Finish
<1>5. ASSUME NEW why \in {"refused", "unselected"}, ClaimGivenUp(r, why) PROVE Onward(r)
  BY <1>5 DEF ClaimGivenUp, GoTo
<1>6. CASE Proven(r) \/ Prepared(r) \/ TurnEnds(r) \/ Close(r)
  BY <1>6 DEF Proven, Prepared, TurnEnds, Close, GoTo
<1>7. ASSUME NEW why \in {"disproved", "overdue"}, Disproven(r, why) PROVE Onward(r)
  BY <1>7 DEF Disproven, GoTo
<1>8. CASE DisprovenSettled(r)
  BY <1>8, BlocksOne, UnstartedOnward DEF DisprovenSettled, Finish
<1>9. CASE Released(r)
  BY <1>9 DEF Released, Finish
<1>10. CASE OverdueSettled(r) \/ TurnFails(r) \/ Measured(r)
  <2>1. \E outcome \in TerminalRequest, unreported \in {"skipped", "unknown"} :
            Finished(r, outcome, unreported)
    BY <1>10 DEF OverdueSettled, TurnFails, Measured, settleVerificationAttempt,
                 abandonVerificationAttempt, SettledAs, TerminalRequest
  <2>2. GoTo(r, "closing") /\ runner[r] \notin Recovering
    BY <1>10 DEF OverdueSettled, TurnFails, Measured
  <2>3. QED
    BY <2>1, <2>2, FinishedOnward DEF GoTo
<1>11. QED
  BY <1>1, <1>2, <1>3, <1>4, <1>5, <1>6, <1>7, <1>8, <1>9, <1>10 DEF Claiming, Turn

LEMMA OnwardOnce ==
    ASSUME IInv, Rest, Once, NEW r \in Requests, Onward(r)
    PROVE  Once' /\ Keeps
<1> USE DEF IInv, Once, Onward
<1>1. Keeps
  BY DEF Keeps, TerminalRequest
<1>2. runner[r] \notin Recovering => waiting[r] = 0
  <2>1. ASSUME runner[r] \notin Recovering, waiting[r] > 0 PROVE FALSE
    <3>1. active[Recipient(r)] = r /\ r # "none"
      BY <2>1, VerificationAssumption DEF Registered, Recovering
    <3>2. Recipient(r) \notin locked
      BY <2>1, <3>1 DEF LockedIsFree
    <3>3. waiting[r] = 0
      BY <2>1, <3>2 DEF AloneIsServed, Served
    <3>4. QED
      BY <2>1, <3>3
  <2>2. QED
    BY <2>1 DEF Rest
<1>3. Attempted'
  BY <1>2 DEF Rest, Attempted, TerminalRequest, Recovering
<1>4. LockedIsFree'
  BY DEF Core, Rest, LockedIsFree, Recipient
<1>5. AloneIsServed'
  BY DEF AloneIsServed, Recovering, Served, Recipient
<1>6. QED
  BY <1>1, <1>3, <1>4, <1>5

\* A dispatcher that is granted the lease.
LEMMA GrantedOnce ==
    ASSUME IInv, Rest, Once, NEW r \in Requests, Admission(r)
    PROVE  Once' /\ Keeps
<1> USE DEF IInv, Once
<1>1. /\ Granted(r)
      /\ UNCHANGED <<attempt, locked>>
      /\ waiting[r] > 0 /\ waiting' = [waiting EXCEPT ![r] = @ - 1]
  BY DEF Admission, DispatchRefused, AdmissionDeferred, AdmissionBlocked, AdmissionHeld,
         AdmissionStarted, Free, Granted, rowVars
<1>2. attempt[r] = "none"
  BY <1>1 DEF Rest, Attempted
<1>3. \A q \in Requests : waiting'[q] \in Nat /\ waiting'[q] <= waiting[q]
  BY <1>1 DEF Rest
<1>4. (\A q \in Requests \ {r} : request'[q] = request[q]) /\ Keeps
  <2>1. CASE AdmissionBlocked(r)
    BY <2>1, SetsOne DEF AdmissionBlocked, RequestState
  <2>2. CASE AdmissionHeld(r)
    BY <2>2, SetsOne DEF AdmissionHeld, RequestState
  <2>3. CASE DispatchRefused(r) \/ AdmissionDeferred(r) \/ AdmissionStarted(r)
    BY <2>3 DEF DispatchRefused, AdmissionDeferred, AdmissionStarted, rowVars, Keeps
  <2>4. QED
    BY <2>1, <2>2, <2>3 DEF Admission
<1>5. \/ UNCHANGED <<runner, active>>
      \/ /\ active' = [active EXCEPT ![Recipient(r)] = r]
         /\ runner' = [runner EXCEPT ![r] = "recovering"]
  BY DEF Admission, DispatchRefused, AdmissionDeferred, AdmissionBlocked, AdmissionHeld,
         AdmissionStarted
<1>6. Attempted'
  BY <1>1, <1>2, <1>3, <1>4 DEF Rest, Attempted
<1>7. LockedIsFree'
  <2>1. Recipient(r) \notin locked
    BY <1>1 DEF Granted
  <2>2. QED
    BY <1>1, <1>3, <1>5, <2>1 DEF Core, Rest, LockedIsFree, Recipient
<1>8. AloneIsServed'
  BY <1>1, <1>3, <1>5 DEF Core, Rest, AloneIsServed, Recovering, Served, Recipient
<1>9. QED
  BY <1>4, <1>6, <1>7, <1>8

\* The rows: a capture, a decision, a tick.
LEMMA RowsOnce ==
    ASSUME IInv, Rest, Once, NEW r \in Requests, Rows(r)
    PROVE  Once' /\ (Keeps \/ pruneVerificationRequests(r))
<1> USE DEF IInv, Once, rowVars, grantVars, processVars, boundVars
<1>1. CASE createVerificationRequest(r) \/ CancelWaiting(r) \/ GrantDelivered(r)
  <2>1. /\ request[r] \in {"absent", "pending", "awaiting_approval"}
        /\ (\A q \in Requests \ {r} : request'[q] = request[q]) /\ Keeps
        /\ UNCHANGED <<attempt, waiting, runner, active, locked>>
    BY <1>1, SetsOne DEF createVerificationRequest, CancelWaiting, GrantDelivered, Core, Keeps,
                         RequestState, TerminalRequest
  <2>2. attempt[r] = "none"
    BY <2>1 DEF Attempted
  <2>3. QED
    BY <2>1, <2>2 DEF Attempted, LockedIsFree, AloneIsServed, Served, Recipient
<1>2. CASE \/ cancelVerificationDispatch(r) \/ ApprovalRefused(r) \/ Expire(r) \/ LeaseExpires(r)
           \/ \E decision \in Policies[r] : ChangePolicy(r, decision)
  <2>1. UNCHANGED <<request, attempt, waiting, runner, active, locked>>
    BY <1>2 DEF cancelVerificationDispatch, ApprovalRefused, Expire, LeaseExpires, ChangePolicy
  <2>2. QED
    BY <2>1 DEF Keeps, Attempted, LockedIsFree, AloneIsServed, Served, Recipient
<1>3. CASE dispatchPendingVerifications(r)
  <2>1. /\ request[r] = "pending" /\ active[Recipient(r)] = "none"
        /\ waiting' = [waiting EXCEPT ![r] = @ + 1]
        /\ UNCHANGED <<request, attempt, runner, active, locked>>
    BY <1>3 DEF dispatchPendingVerifications
  <2>2. \A q \in Requests : runner[q] # "idle" => Recipient(q) # Recipient(r)
    BY <2>1, VerificationAssumption DEF Registered, Recipient
  <2>3. Attempted' /\ Keeps
    BY <2>1 DEF Rest, Attempted, Keeps
  <2>4. LockedIsFree'
    BY <2>1 DEF Rest, LockedIsFree, Recipient
  <2>5. AloneIsServed'
    BY <2>1, <2>2 DEF Rest, AloneIsServed, Recovering, Served, Recipient
  <2>6. QED
    BY <2>3, <2>4, <2>5
<1>4. CASE pruneVerificationRequests(r)
  BY <1>4 DEF pruneVerificationRequests, Core, Attempted, LockedIsFree, AloneIsServed, Served,
              Recipient
<1>5. QED
  BY <1>1, <1>2, <1>3, <1>4 DEF Rows

\* Somebody else takes, gives back or loses a lifecycle lease or a workspace.
LEMMA OthersOnce ==
    ASSUME IInv, Rest, Once, Others
    PROVE  Once' /\ Keeps
<1> USE DEF IInv, Once, rowVars, processVars
<1>1. ASSUME NEW a \in Agents, Acquire(a) PROVE Once' /\ Keeps
  BY <1>1 DEF Acquire, Rest, Keeps, Attempted, LockedIsFree, AloneIsServed, Served, Recipient
<1>2. ASSUME NEW a \in Agents, Unlock(a) PROVE Once' /\ Keeps
  <2>1. /\ UNCHANGED <<request, attempt, waiting, runner>>
        /\ a \in locked /\ locked' = locked \ {a}
        /\ active' = active \/ active' = [active EXCEPT ![a] = "other"]
    BY <1>2 DEF Unlock
  <2>2. Attempted' /\ Keeps
    BY <2>1 DEF Keeps, Attempted
  <2>3. LockedIsFree'
    <3>1. ASSUME NEW q \in Requests, Recipient(q) # a PROVE active'[Recipient(q)] = active[Recipient(q)]
      BY <2>1, <3>1, VerificationAssumption DEF Core, Recipient
    <3>2. QED
      BY <2>1, <3>1 DEF LockedIsFree, Recipient
  <2>4. ASSUME NEW q \in Requests, runner[q] \notin Recovering, NEW r \in Requests,
               Recipient(r) = Recipient(q), Recipient(q) = a
        PROVE  waiting[r] = 0
    BY <2>1, <2>4, VerificationAssumption DEF Rest, Registered, LockedIsFree, Recovering
  <2>5. AloneIsServed'
    BY <2>1, <2>4 DEF AloneIsServed, Served, Recipient
  <2>6. QED
    BY <2>2, <2>3, <2>5
<1>3. ASSUME NEW a \in Agents, OtherTurnEnds(a) PROVE Once' /\ Keeps
  BY <1>3 DEF OtherTurnEnds, Core, Keeps, Attempted, LockedIsFree, AloneIsServed, Served, Recipient
<1>4. CASE OtherClaims \/ OtherReleases \/ Shutdown
  <2>1. UNCHANGED <<request, attempt, waiting, runner, active, locked>>
    BY <1>4 DEF OtherClaims, OtherReleases, Shutdown
  <2>2. QED
    BY <2>1 DEF Keeps, Attempted, LockedIsFree, AloneIsServed, Served, Recipient
<1>5. CASE Die
  BY <1>5 DEF Die, Keeps, Attempted, LockedIsFree, AloneIsServed, Recovering
<1>6. CASE Restart
  <2>1. UNCHANGED <<waiting, runner, active, locked>>
    BY <1>6 DEF Restart
  <2>2. \A r \in Requests :
            \/ attempt[r] # "claimed" /\ request'[r] = request[r] /\ attempt'[r] = attempt[r]
            \/ attempt[r] = "claimed" /\ request'[r] = "uncertain" /\ attempt'[r] = "uncertain"
    BY <1>6 DEF Restart, recoverInterruptedVerificationAttempts
  <2>3. QED
    BY <2>1, <2>2 DEF Keeps, Attempted, LockedIsFree, AloneIsServed, Served, Recipient
<1>7. QED
  BY <1>1, <1>2, <1>3, <1>4, <1>5, <1>6 DEF Others

LEMMA OnceStep ==
    ASSUME IInv, Rest, Once, [Next]_vars
    PROVE  Once' /\ (Keeps \/ \E r \in Requests : pruneVerificationRequests(r))
<1>1. ASSUME NEW r \in Requests, ChecksOf(r) PROVE Once' /\ Keeps
  <2>1. UNCHANGED <<request, attempt, waiting, runner, active, locked>>
    BY <1>1 DEF ChecksOf, RunCheck, CheckEnds, rowVars, processVars
  <2>2. QED
    BY <2>1 DEF Once, Keeps, Attempted, LockedIsFree, AloneIsServed, Served, Recipient
<1>2. CASE AllGone \/ UNCHANGED vars
  <2>1. UNCHANGED <<request, attempt, waiting, runner, active, locked>>
    BY <1>2 DEF AllGone, vars, rowVars, processVars
  <2>2. QED
    BY <2>1 DEF Once, Keeps, Attempted, LockedIsFree, AloneIsServed, Served, Recipient
<1>3. ASSUME NEW r \in Requests, Claiming(r) \/ Turn(r) PROVE Once' /\ Keeps
  BY <1>3, DispatchOnward, OnwardOnce DEF IInv
<1>4. QED
  BY <1>1, <1>2, <1>3, RowsOnce, GrantedOnce, OthersOnce DEF Next

LEMMA OnceInvariance == Spec => [](IInv /\ Rest /\ Once)
<1>1. Init => Rest /\ Once
  BY DEF Init, Rest, Once, Attempted, LockedIsFree, AloneIsServed, Recovering
<1>2. IInv /\ Rest /\ Once /\ [Next]_vars => Rest' /\ Once'
  BY RestStep, OnceStep
<1>3. QED
  BY Invariance, <1>1, <1>2, PTL DEF Spec

-----------------------------------------------------------------------------
(* The attempt log. *)

LEMMA SingleEntry ==
    ASSUME NEW e
    PROVE  /\ <<e>> # <<>> /\ Len(<<e>>) = 1 /\ <<e>>[1] = e
           /\ \A f : [<<e>> EXCEPT ![1] = f] = <<f>>
  OBVIOUS

LEMMA LogSteps ==
    /\ Log!Begins(<<>>, <<"open">>)
    /\ \A o \in AttemptOutcome \cup {"uncertain"} : Log!Settles(<<"open">>, <<o>>)
    /\ Log!Orphaned(<<"open">>, <<"orphan">>)
    /\ Log!Recovers(<<"orphan">>, <<"uncertain">>)
    /\ \A l : Log!Forgets(l, <<"gone">>)
<1>1. Log!Begins(<<>>, <<"open">>)
  <2>1. <<"open">> = Append(IF Len(<<>>) < 1 THEN <<>> ELSE Tail(<<>>), "open")
    OBVIOUS
  <2>2. QED
    BY <2>1 DEF Log!Begins, Log!LastIn
<1>2. ASSUME NEW o \in AttemptOutcome \cup {"uncertain"} PROVE Log!Settles(<<"open">>, <<o>>)
  BY SingleEntry, Zenon DEF Log!Settles, Log!LastIn, Log!Last, Log!Uncertain
<1>3. Log!Orphaned(<<"open">>, <<"orphan">>)
  BY SingleEntry, Zenon DEF Log!Orphaned, Log!LastIn, Log!Last
<1>4. Log!Recovers(<<"orphan">>, <<"uncertain">>)
  BY SingleEntry, Zenon DEF Log!Recovers, Log!LastIn, Log!Last, Log!Uncertain
<1>5. QED
  BY <1>1, <1>2, <1>3, <1>4 DEF Log!Forgets

\* The log of a request that is not gone.
Attempts(r) ==
    IF attempt[r] = "none" THEN <<>>
    ELSE IF attempt[r] = "claimed" /\ runner[r] = "idle" THEN <<"orphan">>
    ELSE IF attempt[r] = "claimed" THEN <<"open">> ELSE <<attempt[r]>>

\* Every step but that of a tick that prunes advances it by at most one entry.
LEMMA Advance ==
    ASSUME IInv, Once, [Next]_vars, NEW p \in Requests, ~pruneVerificationRequests(p)
    PROVE  Log!Advances(Attempts(p), Attempts(p)')
<1> USE DEF IInv
<1>1. ASSUME NEW r \in Requests, Moves(r), Carries(r) PROVE Log!Advances(Attempts(p), Attempts(p)')
  <2>1. CASE p # r
    <3>1. attempt'[p] = attempt[p] /\ runner'[p] = runner[p]
      BY <1>1, <2>1 DEF Core, Moves, Carries, Settling, Claims
    <3>2. QED
      BY <3>1 DEF Attempts, Log!Advances
  <2>2. CASE p = r /\ Settling(r)
    BY <1>1, <2>2, LogSteps DEF Moves, Settling, Attempts, Log!Advances, AttemptOutcome
  <2>3. CASE p = r /\ UNCHANGED attempt /\ (runner[r] \in Attempting => runner'[r] \in Attempting)
    BY <1>1, <2>3 DEF Moves, Registered, ClaimsBelong, Attempting, Attempts, Log!Advances
  <2>4. CASE p = r /\ Claims(r)
    <3>1. attempt[p] = "none"
      BY <2>4 DEF Claims, Once, Attempted
    <3>2. QED
      BY <2>4, <3>1, LogSteps DEF Core, Claims, Attempts, Log!Advances
  <2>5. QED
    BY <1>1, <2>1, <2>2, <2>3, <2>4 DEF Carries
<1>2. ASSUME NEW r \in Requests, pruneVerificationRequests(r) PROVE Log!Advances(Attempts(p), Attempts(p)')
  BY <1>2 DEF Core, pruneVerificationRequests, processVars, Attempts, Log!Advances
<1>3. ASSUME NEW r \in Requests, AdmissionStarted(r) PROVE Log!Advances(Attempts(p), Attempts(p)')
  <2>1. runner[r] = "idle" /\ attempt[r] # "claimed"
    BY <1>3, VerificationAssumption
       DEF AdmissionStarted, Free, Granted, Registered, ClaimsBelong, Attempting, Recipient
  <2>2. attempt' = attempt /\ \A q \in Requests \ {r} : runner'[q] = runner[q]
    BY <1>3 DEF Core, AdmissionStarted, rowVars
  <2>3. QED
    BY <2>1, <2>2 DEF Attempts, Log!Advances
<1>4. CASE Die
  <2>1. attempt'[p] = attempt[p] /\ runner'[p] = "idle"
    BY <1>4 DEF Die, rowVars
  <2>2. QED
    BY <2>1, LogSteps DEF Attempts, Log!Advances
<1>5. CASE Restart
  <2>1. runner[p] = "idle" /\ runner'[p] = "idle"
    BY <1>5 DEF Restart, Registered
  <2>2. attempt'[p] = IF attempt[p] = "claimed" THEN "uncertain" ELSE attempt[p]
    BY <1>5 DEF Restart, recoverInterruptedVerificationAttempts
  <2>3. QED
    BY <2>1, <2>2, LogSteps DEF Attempts, Log!Advances
<1>6. CASE UNCHANGED <<attempt, runner>>
  BY <1>6 DEF Attempts, Log!Advances
<1>7. ASSUME NEW r \in Requests, ChecksStep(r) PROVE UNCHANGED <<attempt, runner>>
  BY <1>7 DEF ChecksStep
<1>8. QED
  BY <1>1, <1>2, <1>3, <1>4, <1>5, <1>6, <1>7, StepKinds DEF QuietStep, OtherStep, Elsewhere

\* Attempts of verifications implement the attempt log: one attempt of a request ever, an
\* outcome that is final, an interrupted attempt settled as uncertain, and none of a request
\* that is gone.
THEOREM AttemptsLogged == Spec => KeepsTheLog
<1>1. Init => Log!Init
  BY DEF Init, Log!Init, AttemptsOf
<1>2. ASSUME IInv, Rest, Once, [Next]_vars PROVE Log!Next
  <2>1. ASSUME NEW p \in Requests PROVE Log!Advances(AttemptsOf(p), AttemptsOf(p)')
    <3>1. CASE pruneVerificationRequests(p)
      <4>1. request'[p] = "gone"
        BY <1>2, <3>1 DEF IInv, Core, pruneVerificationRequests
      <4>2. QED
        BY <4>1, LogSteps DEF AttemptsOf, Log!Advances
    <3>2. CASE ~pruneVerificationRequests(p)
      <4>1. request'[p] = "gone" <=> request[p] = "gone"
        <5>1. CASE Keeps
          BY <5>1 DEF Keeps
        <5>2. ASSUME NEW r \in Requests, pruneVerificationRequests(r)
              PROVE  request'[p] = "gone" <=> request[p] = "gone"
          BY <1>2, <3>2, <5>2 DEF IInv, Core, pruneVerificationRequests
        <5>3. QED
          BY <1>2, <5>1, <5>2, OnceStep
      <4>2. CASE request[p] = "gone"
        BY <4>1, <4>2 DEF AttemptsOf, Log!Advances
      <4>3. CASE request[p] # "gone"
        <5>1. AttemptsOf(p) = Attempts(p) /\ AttemptsOf(p)' = Attempts(p)'
          BY <4>1, <4>3 DEF AttemptsOf, Attempts
        <5>2. QED
          BY <1>2, <3>2, <5>1, Advance
      <4>4. QED
        BY <4>2, <4>3
    <3>3. QED
      BY <3>1, <3>2
  <2>2. QED
    BY <2>1 DEF Log!Next
<1>3. IInv /\ Rest /\ Once /\ [Next]_vars => [Log!Next]_[r \in Requests |-> AttemptsOf(r)]
  BY <1>2
<1>4. QED
  BY OnceInvariance, <1>1, <1>3, PTL DEF Spec, KeepsTheLog, Log!Spec

===============================================================================
