-------------------------- MODULE WorkspaceOwnership --------------------------
(***************************************************************************)
(* Who may write in a workspace: the rows of writers and of their          *)
(* resources, the leases a daemon holds, the processes and containers that *)
(* the rows stand for, their cleanup by the command that started them, by  *)
(* the lifecycle and by the operator, and daemons and hosts that die.      *)
(*                                                                         *)
(* A writer is one claim: its id is new.  Resources are attached under a   *)
(* lease before they may run.  The rows outlive the daemon; leases, owners *)
(* of native commands and everything that is awaited do not.  Linux only.  *)
(***************************************************************************)
EXTENDS Integers, FiniteSets

CONSTANTS
    Writers,     \* ids of workspace_writers, one per claim
    Resources,   \* ids of workspace_resources
    WriterOf,    \* workspace_resources.writer_id
    KindOf,      \* a worker, a worker with host commands, a container or a native command
    RunnerOf,    \* the worker that runs the client of a container, if not the daemon
    Overlap,     \* pairs of writers of one root, of nested roots, or of one restored Team
    Mutations,   \* writers of kind mutation
    Restored,    \* writers found in a restored backup
    Lossy,       \* containers whose creation the engine may drop
    MaxFailures, \* bound: cleanups that fail
    MaxDeaths    \* bound: deaths of the daemon and of its host

Kinds == {"worker", "hostWorker", "container", "native"}

ASSUME OwnershipAssumption ==
    /\ WriterOf \in [Resources -> Writers \ (Mutations \cup Restored)]
    /\ KindOf \in [Resources -> Kinds]
    /\ RunnerOf \in [Resources -> Resources \cup {"daemon"}]
    /\ Overlap \subseteq Writers \X Writers
    /\ \A w, x \in Writers : <<w, x>> \in Overlap => <<x, w>> \in Overlap
    /\ Mutations \subseteq Writers /\ Restored \subseteq Writers
    /\ Lossy \subseteq Resources
    /\ MaxFailures \in Nat /\ MaxDeaths \in Nat
    /\ "none" \notin Writers

VARIABLES
    \* SQLite rows
    row,         \* workspace_writers.state, or none
    old,         \* rows of another daemon_identity
    registered,  \* workspace_resources, which resources_json lists
    acked,       \* workspace_resources.creation_acknowledged
    confirmed,   \* workspace_resources.cleanup_confirmed
    \* the daemon process
    up,
    leases,      \* WorkspaceCoordinator.leases
    stage,       \* how far the claim and the turn of a writer are
    queue,       \* writers a claim has still to recover
    waits,       \* the writer whose recovery a claim awaits
    recovering,  \* pending recoveries of the lifecycle and of the operator
    todo,        \* resources a pending recovery has still to clean up
    cleaning,    \* cleanups under way: by whom, of what, what was read before
    \* the host
    proc,        \* what became of a resource
    strays,      \* workers that ended and left host commands behind
    rebooted,    \* workers of an earlier boot
    failures, deaths

rows   == <<row, old, registered, acked, confirmed>>
claims == <<leases, stage, queue, waits>>
clean  == <<recovering, todo, cleaning>>
host   == <<proc, strays, rebooted>>
bounds == <<failures, deaths>>
vars   == <<rows, up, claims, clean, host, bounds>>

-----------------------------------------------------------------------------
(* Domains. *)

Recoverers == {"lifecycle", "operator"}
Recoveries == Recoverers \X Writers
Cleanups   == [by : {"command"} \cup Recoverers, res : Resources, acked : BOOLEAN, normal : BOOLEAN]

TypeOK ==
    /\ row \in [Writers -> {"none", "active", "recovery"}]
    /\ old \subseteq Writers
    /\ registered \subseteq Resources /\ acked \cup confirmed \subseteq registered
    /\ up \in BOOLEAN
    /\ leases \subseteq Writers
    /\ stage \in [Writers -> {"new", "claiming", "held", "ended"}]
    /\ queue \in [Writers -> SUBSET Writers]
    /\ waits \in [Writers -> Writers \cup {"none"}]
    /\ recovering \subseteq Recoveries
    /\ todo \in [Recoveries -> SUBSET Resources]
    /\ cleaning \subseteq Cleanups
    /\ proc \in [Resources -> {"none", "asked", "created", "running", "stopped", "gone"}]
    /\ strays \subseteq Resources /\ rebooted \subseteq Resources
    /\ failures \in Nat /\ deaths \in Nat

Init ==
    /\ row = [w \in Writers |-> IF w \in Restored THEN "recovery" ELSE "none"]
    /\ old = Restored
    /\ registered = {} /\ acked = {} /\ confirmed = {}
    /\ up = TRUE
    /\ leases = {}
    /\ stage = [w \in Writers |-> IF w \in Restored THEN "ended" ELSE "new"]
    /\ queue = [w \in Writers |-> {}]
    /\ waits = [w \in Writers |-> "none"]
    /\ recovering = {} /\ todo = [k \in Recoveries |-> {}] /\ cleaning = {}
    /\ proc = [r \in Resources |-> "none"]
    /\ strays = {} /\ rebooted = {}
    /\ failures = 0 /\ deaths = 0

-----------------------------------------------------------------------------
(* Rows and processes. *)

IsWorker(r) == KindOf[r] \in {"worker", "hostWorker"}
Of(w)       == {r \in registered : WriterOf[r] = w}

\* workspace_resources.kind: a native command is recorded as a worker.
RecordedAsWorker(r) == KindOf[r] # "container"

\* A row that no lease of this daemon stands for.
recoveryRequired == {w \in Writers : row[w] = "recovery" \/ (row[w] = "active" /\ w \in old)}

Blocking(w) == {x \in Writers : row[x] # "none" /\ <<x, w>> \in Overlap}

\* The client of a container lives in its worker, or in the daemon.
RunnerUp(r) == IF RunnerOf[r] = "daemon" THEN up /\ WriterOf[r] \notin old
               ELSE proc[RunnerOf[r]] = "running"

\* The daemon that attached a resource still runs.
Connected(r) == up /\ WriterOf[r] \notin old

-----------------------------------------------------------------------------
(* Claims. *)

\* WorkspaceLifecycle.claim first awaits the recovery of every row that requires it.
Claim(w) ==
    /\ up /\ stage[w] = "new"
    /\ stage' = [stage EXCEPT ![w] = "claiming"]
    /\ queue' = [queue EXCEPT ![w] = recoveryRequired]
    /\ UNCHANGED <<rows, up, leases, waits, clean, host, bounds>>

\* WorkspaceCoordinator.claim, in one transaction; a turn that finds the workspace busy is
\* tried again by its source.
Acquire(w) ==
    /\ stage[w] = "claiming" /\ queue[w] = {}
    /\ IF Blocking(w) # {}
       THEN stage' = [stage EXCEPT ![w] = "new"] /\ UNCHANGED <<row, leases>>
       ELSE /\ stage' = [stage EXCEPT ![w] = "held"]
            /\ row' = [row EXCEPT ![w] = "active"]
            /\ leases' = leases \cup {w}
    /\ UNCHANGED <<old, registered, acked, confirmed, up, queue, waits, clean, host, bounds>>

\* mutateTeamWorkspace: nothing is awaited under the lease.
finishMutation(w) ==
    /\ w \in leases /\ w \in Mutations
    /\ stage' = [stage EXCEPT ![w] = "ended"]
    /\ leases' = leases \ {w}
    /\ row' = [row EXCEPT ![w] = "none"]
    /\ UNCHANGED <<old, registered, acked, confirmed, up, queue, waits, clean, host, bounds>>

-----------------------------------------------------------------------------
(* Resources: attached, created, acknowledged, started, ended. *)

\* attach: only under a lease, and only while the row is active.  A worker gets its input at
\* once, a container is requested from its engine, a native command waits for its launcher.
Register(r) ==
    LET w == WriterOf[r] IN
    /\ up /\ w \in leases /\ row[w] = "active" /\ r \notin registered
    /\ KindOf[r] = "container" => RunnerUp(r)
    /\ registered' = registered \cup {r}
    /\ proc' = [proc EXCEPT ![r] = CASE IsWorker(r) -> "running"
                                     [] KindOf[r] = "container" -> "asked"
                                     [] OTHER -> "none"]
    /\ UNCHANGED <<row, old, acked, confirmed, up, claims, clean, strays, rebooted, bounds>>

\* The engine creates a container, at any time after it was asked; its client may be gone.
EngineCreates(r) ==
    /\ KindOf[r] = "container" /\ proc[r] = "asked"
    /\ proc' = [proc EXCEPT ![r] = "created"]
    /\ UNCHANGED <<rows, up, claims, clean, strays, rebooted, bounds>>

EngineDrops(r) ==
    /\ r \in Lossy /\ proc[r] = "asked"
    /\ proc' = [proc EXCEPT ![r] = "gone"]
    /\ UNCHANGED <<rows, up, claims, clean, strays, rebooted, bounds>>

\* beginNativeSpawn and the launch of a command that waits at its gate.
SpawnNative(r) ==
    /\ KindOf[r] = "native" /\ r \in registered \ confirmed /\ Connected(r)
    /\ proc[r] = "none" /\ row[WriterOf[r]] = "active"
    /\ proc' = [proc EXCEPT ![r] = "created"]
    /\ UNCHANGED <<rows, up, claims, clean, strays, rebooted, bounds>>

\* cancelNativeBeforeSpawn
CancelNative(r) ==
    /\ KindOf[r] = "native" /\ r \in registered \ confirmed /\ Connected(r)
    /\ proc[r] = "none"
    /\ confirmed' = confirmed \cup {r}
    /\ UNCHANGED <<row, old, registered, acked, up, claims, clean, host, bounds>>

\* afterCreate: no row takes an acknowledgement after its cleanup was confirmed.
Acknowledge(r) ==
    /\ KindOf[r] \in {"container", "native"} /\ r \in registered \ (confirmed \cup acked)
    /\ Connected(r) /\ proc[r] = "created"
    /\ KindOf[r] = "container" => RunnerUp(r)
    /\ acked' = acked \cup {r}
    /\ UNCHANGED <<row, old, registered, confirmed, up, claims, clean, host, bounds>>

\* A created container is started by its client; a native command gets its input while its
\* writer is active.
Start(r) ==
    /\ r \in acked /\ proc[r] = "created"
    /\ IF KindOf[r] = "container" THEN RunnerUp(r)
       ELSE Connected(r) /\ row[WriterOf[r]] = "active"
    /\ proc' = [proc EXCEPT ![r] = "running"]
    /\ UNCHANGED <<rows, up, claims, clean, strays, rebooted, bounds>>

\* A process ends.  A worker that did not end normally may leave host commands behind.  The
\* daemon that spawned a worker sees how it ended and starts its cleanup.
Ends(r, normal) ==
    /\ proc[r] = "running"
    /\ proc' = [proc EXCEPT ![r] = "stopped"]
    /\ IF KindOf[r] = "hostWorker" /\ ~(normal /\ Connected(r))
       THEN strays' \in {strays, strays \cup {r}}
       ELSE UNCHANGED strays
    /\ cleaning' = IF IsWorker(r) /\ Connected(r) /\ r \in registered
                   THEN cleaning \cup {[by |-> "command", res |-> r, acked |-> FALSE, normal |-> normal]}
                   ELSE cleaning
    /\ UNCHANGED <<rows, up, claims, recovering, todo, rebooted, bounds>>

\* Host commands end when they like.
StrayEnds(r) ==
    /\ r \in strays
    /\ strays' = strays \ {r}
    /\ UNCHANGED <<rows, up, claims, clean, proc, rebooted, bounds>>

-----------------------------------------------------------------------------
(* Cleanup of one resource. *)

\* A recovery is over, and the claims that awaited it go on.
Settles(k) ==
    LET on == {w \in Writers : k[1] = "lifecycle" /\ waits[w] = k[2]} IN
    /\ recovering' = recovering \ {k}
    /\ todo' = [todo EXCEPT ![k] = {}]
    /\ waits' = [w \in Writers |-> IF w \in on THEN "none" ELSE waits[w]]
    /\ queue' = [w \in Writers |-> IF w \in on THEN queue[w] \ {k[2]} ELSE queue[w]]

\* The end of a container or native command, however it ends.
CommandCleanup(r) ==
    /\ ~IsWorker(r) /\ r \in registered \ confirmed /\ Connected(r)
    /\ proc[r] # "none"
    /\ \A c \in cleaning : ~(c.by = "command" /\ c.res = r)
    /\ cleaning' = cleaning \cup
           {[by |-> "command", res |-> r, acked |-> r \in acked, normal |-> FALSE]}
    /\ UNCHANGED <<rows, up, claims, recovering, todo, host, bounds>>

\* Fault: a container that is not there counts as removed before its creation was acknowledged.
CleanableUnseen(c) ==
    CASE KindOf[c.res] = "worker" -> TRUE
      [] KindOf[c.res] = "hostWorker" -> c.normal \/ c.res \in rebooted
      [] KindOf[c.res] = "container" -> TRUE
      [] OTHER -> c.acked /\ Connected(c.res)

\* What proves that a resource is gone: the group of a worker is empty, and if it ran host
\* commands, its normal exit was seen or its boot is over; a container was acknowledged, or
\* is there to be removed; the owner of a native command still lives.
Cleanable(c) ==
    CASE KindOf[c.res] = "worker" -> TRUE
      [] KindOf[c.res] = "hostWorker" -> c.normal \/ c.res \in rebooted
      [] KindOf[c.res] = "container" -> c.acked \/ proc[c.res] \in {"created", "running", "stopped"}
      [] OTHER -> c.acked /\ Connected(c.res)

\* What a cleanup does: it kills the group of a worker, and removes a container or ends a
\* native command that it can tell.
Cleaned(c) ==
    /\ proc' = [proc EXCEPT ![c.res] =
           IF IsWorker(c.res) THEN IF @ = "running" THEN "stopped" ELSE @
           ELSE IF Cleanable(c) /\ @ # "asked" THEN "gone" ELSE @]
    /\ IF KindOf[c.res] = "hostWorker" /\ proc[c.res] = "running"
       THEN strays' \in {strays, strays \cup {c.res}}
       ELSE UNCHANGED strays

\* The confirmation is taken by the row that was read, and by no other.
Confirms(c) ==
    Cleanable(c) /\ c.res \in registered /\ (c.acked <=> c.res \in acked)

\* cleanupKnownResource, and the end of the teardown it is part of if it proves nothing.
CleanupEnds(c) ==
    /\ up /\ c \in cleaning
    /\ Cleaned(c)
    /\ cleaning' = cleaning \ {c}
    /\ confirmed' = IF Confirms(c) THEN confirmed \cup {c.res} ELSE confirmed
    /\ IF c.by = "command" \/ Confirms(c) THEN UNCHANGED <<recovering, todo, queue, waits>>
       ELSE Settles(<<c.by, WriterOf[c.res]>>)
    /\ UNCHANGED <<row, old, registered, acked, up, leases, stage, rebooted, bounds>>

\* A signal, an inspection or a removal fails or takes too long.
CleanupFails(c) ==
    /\ up /\ c \in cleaning /\ failures < MaxFailures
    /\ failures' = failures + 1
    /\ cleaning' = cleaning \ {c}
    /\ IF c.by = "command" THEN UNCHANGED <<recovering, todo, queue, waits>>
       ELSE Settles(<<c.by, WriterOf[c.res]>>)
    /\ UNCHANGED <<rows, up, leases, stage, host, deaths>>

-----------------------------------------------------------------------------
(* Recovery of a writer. *)

\* WorkspaceCoordinator.recover up to its first await.
Begins(k) ==
    /\ row' = [row EXCEPT ![k[2]] = "recovery"]
    /\ recovering' = recovering \cup {k}
    /\ todo' = [todo EXCEPT ![k] = Of(k[2])]

\* lease.finish(false) and the recovery that follows, whatever the turn still has under way.
Release(w) ==
    /\ up /\ w \in leases /\ w \notin Mutations
    /\ stage' = [stage EXCEPT ![w] = "ended"]
    /\ leases' = leases \ {w}
    /\ Begins(<<"lifecycle", w>>)
    /\ UNCHANGED <<old, registered, acked, confirmed, up, queue, waits, cleaning, host, bounds>>

\* A claim awaits the next recovery, which may be under way for another claim.
RecoverFor(w, x) ==
    /\ up /\ stage[w] = "claiming" /\ waits[w] = "none" /\ x \in queue[w]
    /\ IF row[x] = "none" \/ x \in Restored
       THEN /\ queue' = [queue EXCEPT ![w] = @ \ {x}]
            /\ UNCHANGED <<row, recovering, todo, waits>>
       ELSE /\ waits' = [waits EXCEPT ![w] = x]
            /\ IF <<"lifecycle", x>> \in recovering THEN UNCHANGED <<row, recovering, todo>>
               ELSE Begins(<<"lifecycle", x>>)
            /\ UNCHANGED queue
    /\ UNCHANGED <<old, registered, acked, confirmed, up, leases, stage, cleaning, host, bounds>>

\* WorkspaceRecovery.attempt: no live lease, no restored row, and nothing recorded as a worker
\* whose cleanup is not confirmed yet; a writer without resources is not recovered this way.
OperatorRecovers(x) ==
    /\ up /\ x \in recoveryRequired \ Restored /\ <<"operator", x>> \notin recovering
    /\ IF Of(x) = {} \/ \E r \in Of(x) : RecordedAsWorker(r) /\ r \notin confirmed
       THEN row' = [row EXCEPT ![x] = "recovery"] /\ UNCHANGED <<recovering, todo>>
       ELSE Begins(<<"operator", x>>)
    /\ UNCHANGED <<old, registered, acked, confirmed, up, claims, cleaning, host, bounds>>

\* teardown takes one resource after the other, workers first.
BeginCleanup(k, r) ==
    /\ up /\ k \in recovering /\ r \in todo[k] \ confirmed
    /\ \A c \in cleaning : ~(c.by = k[1] /\ WriterOf[c.res] = k[2])
    /\ RecordedAsWorker(r) \/ \A s \in todo[k] \ confirmed : ~RecordedAsWorker(s)
    /\ cleaning' = cleaning \cup
           {[by |-> k[1], res |-> r, acked |-> r \in acked, normal |-> FALSE]}
    /\ UNCHANGED <<rows, up, claims, recovering, todo, host, bounds>>

\* Fault: a writer is let go as soon as nothing of it is being cleaned up.
FinishUnconfirmed(k) ==
    LET x == k[2] IN
    /\ up /\ k \in recovering
    /\ \A c \in cleaning : ~(c.by = k[1] /\ WriterOf[c.res] = x)
    /\ row' = [row EXCEPT ![x] = "none"]
    /\ registered' = registered \ Of(x) /\ acked' = acked \ Of(x) /\ confirmed' = confirmed \ Of(x)
    /\ Settles(k)
    /\ UNCHANGED <<old, up, leases, stage, cleaning, host, bounds>>

\* Everything is confirmed: the row goes, and its resources with it.
FinishRecovery(k) ==
    LET x == k[2] IN
    /\ up /\ k \in recovering /\ todo[k] \subseteq confirmed \cup (Resources \ registered)
    /\ \A c \in cleaning : ~(c.by = k[1] /\ WriterOf[c.res] = x)
    /\ row' = [row EXCEPT ![x] = "none"]
    /\ registered' = registered \ Of(x) /\ acked' = acked \ Of(x) /\ confirmed' = confirmed \ Of(x)
    /\ Settles(k)
    /\ UNCHANGED <<old, up, leases, stage, cleaning, host, bounds>>

\* Other changes of the database, or of the Team, end the attempt of an operator.
SelectionChanged(x) ==
    LET k == <<"operator", x>> IN
    /\ up /\ k \in recovering /\ failures < MaxFailures
    /\ \A c \in cleaning : ~(c.by = "operator" /\ WriterOf[c.res] = x)
    /\ failures' = failures + 1
    /\ Settles(k)
    /\ UNCHANGED <<rows, up, leases, stage, cleaning, host, deaths>>

-----------------------------------------------------------------------------
(* Death and restart. *)

\* What the death of a daemon leaves of a process: native commands die with their parent.
Orphaned == [r \in Resources |->
    IF KindOf[r] = "native" /\ proc[r] \in {"created", "running"} THEN "gone" ELSE proc[r]]

Dies ==
    /\ deaths < MaxDeaths
    /\ deaths' = deaths + 1
    /\ up' = FALSE
    /\ leases' = {}
    /\ stage' = [w \in Writers |-> CASE stage[w] = "claiming" -> "new"
                                     [] stage[w] = "held" -> "ended"
                                     [] OTHER -> stage[w]]
    /\ queue' = [w \in Writers |-> {}] /\ waits' = [w \in Writers |-> "none"]
    /\ recovering' = {} /\ todo' = [k \in Recoveries |-> {}] /\ cleaning' = {}
    /\ old' = {w \in Writers : row[w] # "none"}
    /\ UNCHANGED <<row, registered, acked, confirmed, failures>>

Die == up /\ Dies /\ proc' = Orphaned /\ UNCHANGED <<strays, rebooted>>

\* The host goes down: workers and native commands are over, containers stop, and what the
\* engine was asked for may be lost.
HostDies ==
    /\ Dies
    /\ \E lost \in SUBSET {r \in Lossy : proc[r] = "asked"} :
           proc' = [r \in Resources |-> CASE r \in lost -> "gone"
                                          [] proc[r] = "running" /\ KindOf[r] # "native" -> "stopped"
                                          [] OTHER -> Orphaned[r]]
    /\ strays' = {}
    /\ rebooted' = rebooted \cup {r \in registered : IsWorker(r)}

\* The next daemon has another identity.
Restart ==
    /\ ~up
    /\ up' = TRUE
    /\ UNCHANGED <<rows, claims, clean, host, bounds>>

-----------------------------------------------------------------------------

Steps(r) ==
    \/ Register(r) \/ EngineCreates(r) \/ EngineDrops(r) \/ SpawnNative(r) \/ CancelNative(r)
    \/ Acknowledge(r) \/ Start(r) \/ StrayEnds(r) \/ CommandCleanup(r)
    \/ \E normal \in BOOLEAN : Ends(r, normal)

Next ==
    \/ \E w \in Writers : Claim(w) \/ Acquire(w) \/ finishMutation(w) \/ Release(w) \/ OperatorRecovers(w)
    \/ \E w, x \in Writers : RecoverFor(w, x)
    \/ \E r \in Resources : Steps(r)
    \/ \E c \in cleaning : CleanupEnds(c) \/ CleanupFails(c)
    \/ \E k \in Recoveries : FinishRecovery(k) \/ \E r \in Resources : BeginCleanup(k, r)
    \/ \E w \in Writers : SelectionChanged(w)
    \/ Die \/ HostDies \/ Restart

Spec == Init /\ [][Next]_vars

\* Turns are tried again and end, what is awaited ends, the engine creates what it does not
\* drop, and a service manager restarts the daemon.
FairSpec ==
    /\ Spec
    /\ WF_vars(Restart)
    /\ \A w \in Writers :
           /\ WF_vars(Claim(w)) /\ SF_vars(Blocking(w) = {} /\ Acquire(w)) /\ WF_vars(Acquire(w))
           /\ WF_vars(finishMutation(w)) /\ WF_vars(Release(w))
           /\ \A x \in Writers : WF_vars(RecoverFor(w, x))
    /\ \A r \in Resources : WF_vars(EngineCreates(r))
    /\ \A r \in Resources : WF_vars(\E c \in cleaning : c.by = "command" /\ c.res = r /\ CleanupEnds(c))
    /\ \A k \in Recoveries :
           /\ WF_vars(FinishRecovery(k)) /\ WF_vars(\E r \in Resources : BeginCleanup(k, r))
           /\ WF_vars(\E c \in cleaning :
                          c.by = k[1] /\ WriterOf[c.res] = k[2] /\ CleanupEnds(c))

-----------------------------------------------------------------------------
(* Properties. *)

\* What runs, or may still come to run, without being cleaned up.
Working(r) == proc[r] \in {"asked", "created", "running"} \/ r \in strays

\* "Persist before allowing the resource to start" (WorkspaceLease.attach) and "an
\* unacknowledged create may still materialize" (docker.ts): what runs or may come to run has
\* a row without a confirmation, over deaths, late containers and stale cleanups.
NothingUnrecorded ==
    \A r \in Resources : Working(r) => r \in registered \ confirmed /\ row[WriterOf[r]] # "none"

\* "The block protects against overlapping writes" (docs/workspace-recovery.md): while a turn
\* holds a workspace, nothing that another turn started works in an overlapping one, and no
\* restored writer overlaps it.
OneWriter ==
    \A w \in leases :
        /\ \A r \in Resources :
               Working(r) /\ <<WriterOf[r], w>> \in Overlap => WriterOf[r] = w
        /\ \A x \in Restored : <<x, w>> \notin Overlap

\* The leases in memory are the active rows of this daemon: a recovery never takes a row from
\* under a turn, and no row is left active without a lease.
LeasesAreActive == leases = {w \in Writers : row[w] = "active" /\ w \notin old}

\* What no cleanup can tell to be gone: host commands of a worker that did not exit in order
\* under the boot that ran it, a container that never came, a command without its owner.
Unprovable(r) ==
    /\ r \in registered \ confirmed
    /\ CASE KindOf[r] = "hostWorker" -> proc[r] = "stopped" /\ r \notin rebooted
         [] KindOf[r] = "container"  -> proc[r] = "gone" /\ r \notin acked
         [] KindOf[r] = "native"     -> r \notin acked \/ ~Connected(r)
         [] OTHER -> FALSE

\* A turn gets its workspace, over other turns, cleanups that fail, and a death of the daemon:
\* only what nobody can prove gone, or a restored row, keeps it waiting.
EveryTurnIsAdmitted ==
    \A w \in Writers :
        stage[w] = "new" ~>
            \/ stage[w] = "held"
            \/ \E r \in Resources : <<WriterOf[r], w>> \in Overlap /\ Unprovable(r)
            \/ \E x \in Restored : <<x, w>> \in Overlap
=============================================================================
