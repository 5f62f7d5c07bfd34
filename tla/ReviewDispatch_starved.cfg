SPECIFICATION FairSpec
CONSTANTS
    a1 = a1
    a2 = a2
    Packets = {1, 2}
    Agents = {a1, a2}
    ReviewerOf <- Apart
    ByAgent = {1}
    Policies = {"allow"}
    Limit = 1
    MaxWaiting = 1
    MaxAttempts = 2
    MaxConclusions = 0
    MaxDeaths = 0
    MaxOther = 0
PROPERTIES
    OpenIsTakenUp
