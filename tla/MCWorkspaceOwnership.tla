------------------------ MODULE MCWorkspaceOwnership ------------------------
(* Small instances of WorkspaceOwnership for TLC. *)
EXTENDS WorkspaceOwnership, TLC

CONSTANTS w1, w2, w3, r1, r2, r3

\* The first two writers are of one root.
Same == {w1, w2} \X {w1, w2}
\* The third one is of a restored Team with the second.
SameAndRestored == Same \cup ({w2, w3} \X {w2, w3})

\* The first writer has a worker and a container that this worker runs.
Writer == [r \in Resources |-> IF r = r3 THEN w2 ELSE w1]
Docker == [r \in Resources |-> IF r = r2 THEN "container" ELSE "worker"]
Host   == [r \in Resources |-> IF r = r2 THEN "container" ELSE "hostWorker"]
Native == [r \in Resources |-> IF r = r2 THEN "native" ELSE "worker"]
\* One of each: a worker with host commands, a container it runs, a native command.
Mixed  == [r \in Resources |-> CASE r = r1 -> "hostWorker" [] r = r2 -> "container" [] OTHER -> "native"]
ByWorker == [r \in Resources |-> IF r = r2 THEN r1 ELSE "daemon"]
ByDaemon == [r \in Resources |-> "daemon"]
=============================================================================
