\* Each of these properties is violated; "tlc -continue" reports all of them.
SPECIFICATION Spec
CONSTANTS
    a1 = a1
    a2 = a2
    Packets = {1}
    Agents = {a1}
    ReviewerOf <- Same
    ByAgent = {1}
    Policies = {"allow"}
    Limit = 5
    MaxWaiting = 1
    MaxAttempts = 2
    MaxConclusions = 2
    MaxDeaths = 1
    MaxOther = 0
INVARIANTS
    ConcludedIsReviewed
    OneConclusionPerReviewer
PROPERTIES
    BootSettlesAttempts
    CancelledAwaitsOperator
    CompletedConcludes
