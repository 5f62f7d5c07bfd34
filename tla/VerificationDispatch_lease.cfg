SPECIFICATION Spec
CONSTANTS
    r1 = r1
    r2 = r2
    a1 = a1
    a2 = a2
    c1 = c1
    c2 = c2
    Requests = {r1}
    Agents = {a1}
    RecipientOf <- Same
    Checks = {c1}
    Posture <- AllNative
    Slow = {r1}
    Policies <- Allowed
    MaxWaiting <- Alone
    MaxDeaths = 0
    MaxOther = 0
PROPERTIES
    ExpiredLeaseFinishesNothing
