SPECIFICATION Spec
CONSTANTS
    p1 = p1
    p2 = p2
    p3 = p3
    k1 = k1
    k2 = k2
    b1 = b1
    b2 = b2
    Pubs = {p1}
    PacketOf <- Packet
    BranchOf <- Branch
    Lossy = {}
    MaxDeaths = 0
PROPERTIES
    AcceptedIsPublished
