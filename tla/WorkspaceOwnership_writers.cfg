SPECIFICATION Spec
CHECK_DEADLOCK FALSE
CONSTANTS
    w1 = w1
    w2 = w2
    w3 = w3
    r1 = r1
    r2 = r2
    r3 = r3
    Writers = {w1, w2, w3}
    Resources = {r1, r2, r3}
    WriterOf <- Writer
    KindOf <- Mixed
    RunnerOf <- ByWorker
    Overlap <- SameAndRestored
    Mutations = {w3}
    Restored = {}
    Lossy = {r2}
    MaxFailures = 1
    MaxDeaths = 1
INVARIANTS
    NothingUnrecorded
    OneWriter
