SPECIFICATION FairSpec
CONSTANTS
    r1 = r1
    r2 = r2
    a1 = a1
    a2 = a2
    c1 = c1
    c2 = c2
    Requests = {r1, r2}
    Agents = {a1}
    RecipientOf <- Same
    Checks = {c1}
    Posture <- Mixed
    Slow = {r2}
    Policies <- OneHeld
    MaxWaiting <- TwoOfR2
    MaxDeaths = 1
    MaxOther = 1
INVARIANTS
    ResultsAreEarned
    CommandsHoldTheWorkspace
    RecipientStays
PROPERTIES
    KeepsTheLog
    EveryAttemptEnds
