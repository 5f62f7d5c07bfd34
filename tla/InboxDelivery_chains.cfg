SPECIFICATION Spec
CHECK_DEADLOCK FALSE
CONSTANTS
    a1 = a1
    a2 = a2
    m1 = m1
    m2 = m2
    m3 = m3
    m4 = m4
    Agents = {a1, a2}
    Msgs = {m1, m2, m3, m4}
    FromOf <- From
    ToOf <- To
    RetryOf <- NoRetry
    Postures = {"allow"}
    Replying = FALSE
    Native = FALSE
    MaxHops = 1
    MaxOther = 1
    MaxFailures = 0
    MaxDeaths = 0
INVARIANTS
    TypeOK
    ChainsEnd
    HopsWithinLimit
