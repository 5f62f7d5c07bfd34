SPECIFICATION Spec
CONSTANTS
    a1 = a1
    a2 = a2
    Packets = {1}
    Agents = {a1}
    ReviewerOf <- Same
    ByAgent = {1}
    Policies = {"approval_required"}
    Limit = 5
    MaxWaiting = 1
    MaxAttempts = 2
    MaxConclusions = 1
    MaxDeaths = 0
    MaxOther = 0
PROPERTIES
    GrantIsHonoured
