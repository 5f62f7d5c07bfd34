SPECIFICATION FairSpec
CONSTANTS
    p1 = p1
    p2 = p2
    p3 = p3
    k1 = k1
    k2 = k2
    b1 = b1
    b2 = b2
    Pubs = {p1, p2, p3}
    PacketOf <- Packet
    BranchOf <- Branch
    Lossy = {p3}
    MaxDeaths = 1
INVARIANTS
    PublishedIsOnHost
PROPERTIES
    BranchesKept
    KeepsTheLog
    EveryClaimSettles
