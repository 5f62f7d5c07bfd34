SPECIFICATION FairSpec
CONSTANTS
    a1 = a1
    a2 = a2
    Packets = {1}
    Agents = {a1}
    ReviewerOf <- Same
    ByAgent = {1}
    Policies = {"allow", "approval_required", "deny"}
    Limit = 5
    MaxWaiting = 2
    MaxAttempts = 3
    MaxConclusions = 1
    MaxDeaths = 2
    MaxOther = 2
INVARIANTS
    OpenAttemptHoldsPacket
    ReviewerStays
PROPERTIES
    KeepsTheLog
    EveryTurnEnds
