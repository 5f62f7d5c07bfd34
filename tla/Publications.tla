----------------------------- MODULE Publications -----------------------------
(***************************************************************************)
(* Publications of reviewed packets: the publication rows with their two   *)
(* minute lease, the request that executes a publication (clone, read of   *)
(* the remote's heads, commit, push, pull request), the branches of the    *)
(* code host, ticks that settle what outlived its lease, and a daemon that *)
(* may die between any two awaits while its push is under way.             *)
(*                                                                         *)
(* The packets are reviewed and stay so (ReviewDispatch!ReviewedStays).    *)
(* Files, commits and pull requests are left out: a branch carries the     *)
(* commit of the publication that created it.                              *)
(***************************************************************************)
EXTENDS Naturals, Sequences

CONSTANTS
    Pubs,        \* publication ids
    PacketOf,    \* publications.packet_id
    BranchOf,    \* publications.head_branch
    Lossy,       \* publications whose push may be answered late or not at all
    MaxDeaths    \* bound: deaths of the daemon

ASSUME PublicationAssumption ==
    /\ Lossy \subseteq Pubs
    /\ "nobody" \notin Pubs
    /\ MaxDeaths \in Nat

VARIABLES
    \* SQLite rows
    pub,       \* publications.state, absent before
    leased,    \* publications whose lease has not expired
    \* the daemon process
    daemon,
    executor,  \* the await the request that executes a publication is at
    \* the code host
    host,      \* which publication created a branch
    inflight,  \* pushes that left the machine and have not reached the host
    deaths

rows == <<pub, leased>>
world == <<host, inflight>>
vars == <<rows, daemon, executor, world, deaths>>

-----------------------------------------------------------------------------
(* Domains. *)

Branches == {BranchOf[p] : p \in Pubs}
Settled  == {"published", "refused", "uncertain"}
Stage    == {"idle", "captured", "building", "checked", "pushing", "pushed"}

TypeOK ==
    /\ pub \in [Pubs -> Settled \cup {"absent", "pending", "publishing"}]
    /\ leased \subseteq Pubs
    /\ daemon \in {"up", "down"}
    /\ executor \in [Pubs -> Stage]
    /\ host \in [Branches -> Pubs \cup {"nobody"}]
    /\ inflight \subseteq Pubs
    /\ deaths \in Nat

Init ==
    /\ pub = [p \in Pubs |-> "absent"]
    /\ leased = {} /\ inflight = {}
    /\ daemon = "up"
    /\ executor = [p \in Pubs |-> "idle"]
    /\ host \in [Branches -> {"nobody"}]
    /\ deaths = 0

-----------------------------------------------------------------------------
(* Rows. *)

Siblings(p)  == {q \in Pubs \ {p} : PacketOf[q] = PacketOf[p]}
Published(p) == \E q \in Siblings(p) : pub[q] = "published"

GoTo(p, stage) == executor' = [executor EXCEPT ![p] = stage]

\* A row leaves `publishing' with its lease; a row that already left stays as it is,
\* and the settlement throws.
Settle(p, s) ==
    IF pub[p] = "publishing"
    THEN /\ pub' = [pub EXCEPT ![p] = s]
         /\ leased' = leased \ {p}
    ELSE UNCHANGED rows

refusePublication(p) == Settle(p, "refused")

\* Fault: an outcome is recorded whatever became of the row.
SettlePublishedAnyway(p) ==
    /\ pub' = [pub EXCEPT ![p] = "published"]
    /\ leased' = leased \ {p}

\* The unique index admits one published row of a packet: a second settlement throws.
settlePublicationPublished(p) ==
    IF Published(p) THEN UNCHANGED rows ELSE Settle(p, "published")

-----------------------------------------------------------------------------
(* The request that publishes. *)

\* POST publications captures the decision; another published row of the packet refuses.
createPublication(p) ==
    /\ daemon = "up" /\ pub[p] = "absent" /\ ~Published(p)
    /\ pub' = [pub EXCEPT ![p] = "pending"]
    /\ GoTo(p, "captured")
    /\ UNCHANGED <<leased, daemon, world, deaths>>

claimPublication(p) ==
    /\ executor[p] = "captured" /\ pub[p] = "pending" /\ ~Published(p)
    /\ pub' = [pub EXCEPT ![p] = "publishing"]
    /\ leased' = leased \cup {p}
    /\ GoTo(p, "building")
    /\ UNCHANGED <<daemon, world, deaths>>

\* Claimed, and refused before anything is awaited: packet, content, target or remote.
ClaimRefused(p) ==
    /\ executor[p] = "captured" /\ pub[p] = "pending" /\ ~Published(p)
    /\ pub' = [pub EXCEPT ![p] = "refused"]
    /\ GoTo(p, "idle")
    /\ UNCHANGED <<leased, daemon, world, deaths>>

\* A sibling was published since the capture: the request ends and its row is left.
NotClaimed(p) ==
    /\ executor[p] = "captured" /\ Published(p)
    /\ GoTo(p, "idle")
    /\ UNCHANGED <<rows, daemon, world, deaths>>

\* Clone, base, ls-remote, checkout or commit fail, or time out.
BuildFails(p) ==
    /\ executor[p] \in {"building", "checked"}
    /\ refusePublication(p)
    /\ GoTo(p, "idle")
    /\ UNCHANGED <<daemon, world, deaths>>

\* ls-remote answers: the head branch must not exist yet.
remoteHeads(p) ==
    /\ executor[p] = "building"
    /\ IF host[BranchOf[p]] = "nobody"
       THEN GoTo(p, "checked") /\ UNCHANGED rows
       ELSE refusePublication(p) /\ GoTo(p, "idle")
    /\ UNCHANGED <<daemon, world, deaths>>

PushStarts(p) ==
    /\ executor[p] = "checked"
    /\ inflight' = inflight \cup {p}
    /\ GoTo(p, "pushing")
    /\ UNCHANGED <<rows, daemon, host, deaths>>

\* Fault: the push is forced.
PushForced(p) ==
    /\ p \in inflight
    /\ inflight' = inflight \ {p}
    /\ host' = [host EXCEPT ![BranchOf[p]] = p]
    /\ UNCHANGED <<rows, daemon, executor, deaths>>

\* The host takes a push to a branch that does not exist, and no other: the commits of
\* two publications are no fast-forward of each other.
PushArrives(p) ==
    /\ p \in inflight
    /\ inflight' = inflight \ {p}
    /\ host' = [host EXCEPT ![BranchOf[p]] = IF @ = "nobody" THEN p ELSE @]
    /\ UNCHANGED <<rows, daemon, executor, deaths>>

\* Fault: git is not waited for.
PushAssumed(p) ==
    /\ executor[p] = "pushing"
    /\ GoTo(p, "pushed")
    /\ UNCHANGED <<rows, daemon, world, deaths>>

PushAccepted(p) ==
    /\ executor[p] = "pushing" /\ p \notin inflight /\ host[BranchOf[p]] = p
    /\ GoTo(p, "pushed")
    /\ UNCHANGED <<rows, daemon, world, deaths>>

\* Rejected by the host; or git is killed after its minute, or loses the connection,
\* before it hears what became of the push.
PushFails(p) ==
    /\ executor[p] = "pushing"
    /\ p \in Lossy \/ (p \notin inflight /\ host[BranchOf[p]] # p)
    /\ refusePublication(p)
    /\ GoTo(p, "idle")
    /\ UNCHANGED <<daemon, world, deaths>>

\* openPullRequest answered, with a pull request or without.
PullRequestAnswered(p) ==
    /\ executor[p] = "pushed"
    /\ settlePublicationPublished(p)
    /\ GoTo(p, "idle")
    /\ UNCHANGED <<daemon, world, deaths>>

-----------------------------------------------------------------------------
(* Leases, crash and restart. *)

LeaseExpires(p) ==
    /\ p \in leased
    /\ leased' = leased \ {p}
    /\ UNCHANGED <<pub, daemon, executor, world, deaths>>

\* Fault: only what a request of this process still publishes.
RecoverOwned ==
    pub' = [p \in Pubs |->
              IF pub[p] = "publishing" /\ p \notin leased /\ executor[p] # "idle"
              THEN "uncertain" ELSE pub[p]]

recoverExpiredPublications ==
    pub' = [p \in Pubs |-> IF pub[p] = "publishing" /\ p \notin leased THEN "uncertain" ELSE pub[p]]

Tick ==
    /\ daemon = "up"
    /\ recoverExpiredPublications
    /\ UNCHANGED <<leased, daemon, executor, world, deaths>>

\* The git child goes with the daemon; what it has sent may still arrive.
Die ==
    /\ daemon = "up" /\ deaths < MaxDeaths
    /\ daemon' = "down" /\ deaths' = deaths + 1
    /\ executor' = [p \in Pubs |-> "idle"]
    /\ \E lost \in SUBSET inflight : inflight' = inflight \ lost
    /\ UNCHANGED <<rows, host>>

Restart ==
    /\ daemon = "down"
    /\ daemon' = "up"
    /\ recoverExpiredPublications
    /\ UNCHANGED <<leased, executor, world, deaths>>

-----------------------------------------------------------------------------

Execute(p) ==
    \/ claimPublication(p) \/ ClaimRefused(p) \/ NotClaimed(p)
    \/ BuildFails(p) \/ remoteHeads(p) \/ PushStarts(p)
    \/ PushAccepted(p) \/ PushFails(p) \/ PullRequestAnswered(p)

Next ==
    \/ \E p \in Pubs : createPublication(p) \/ Execute(p) \/ PushArrives(p) \/ LeaseExpires(p)
    \/ Tick \/ Die \/ Restart

Spec == Init /\ [][Next]_vars

\* Leases run out, ticks go on, and a service manager restarts the daemon; nothing is
\* assumed of git and the host.
FairSpec ==
    /\ Spec
    /\ WF_vars(Tick) /\ WF_vars(Restart)
    /\ \A p \in Pubs : WF_vars(LeaseExpires(p))

-----------------------------------------------------------------------------
(* Properties. *)

\* "The outcome is recorded from the host": a published row has its branch on the host,
\* with its own commit (executePublication).
PublishedIsOnHost ==
    \A p \in Pubs : pub[p] = "published" => host[BranchOf[p]] = p

\* A branch that is on the host was never refused: `refused' "means nothing left the
\* machine" (the header of publications.ts).
RefusedIsNotOnHost ==
    \A p \in Pubs : pub[p] = "refused" => host[BranchOf[p]] # p

\* No publication changes a branch it did not create (docs/publication.md, "No force
\* push, ever"), also when another one creates the branch after ls-remote answered.
BranchesKept ==
    [][\A b \in Branches : host[b] # "nobody" => host'[b] = host[b]]_vars

\* The attempt of a publication, as the attempt log sees it.
AttemptsOf(p) ==
    IF pub[p] \in {"absent", "pending"} THEN <<>>
    ELSE IF pub[p] # "publishing" THEN <<pub[p]>>
    ELSE IF executor[p] = "idle" THEN <<"orphan">> ELSE <<"open">>

Log == INSTANCE AttemptLog WITH
    Items <- Pubs, Outcomes <- {"published", "refused"},
    Again <- FALSE, Depth <- 1, Prunable <- FALSE,
    log <- [p \in Pubs |-> AttemptsOf(p)]

\* "Publication is leased once": claimed once, settled once, and settled as uncertain
\* when its owner is gone.
KeepsTheLog == Log!Spec

\* A claimed publication is settled, also when git, the host or the daemon never answers.
EveryClaimSettles ==
    \A p \in Pubs : pub[p] = "publishing" ~> pub[p] # "publishing"

\* The header of execute.ts: a push the host accepted "is reported as published".
AcceptedIsPublished ==
    [][\A p \in Pubs : PullRequestAnswered(p) => pub'[p] = "published"]_vars

\* docs/publication.md: a packet "is refused rather than published twice".
PublishedOnce ==
    \A p \in Pubs : \A q \in Siblings(p) :
        host[BranchOf[p]] = p => host[BranchOf[q]] # q
=============================================================================
