SPECIFICATION Spec
CONSTANTS
    a1 = a1
    a2 = a2
    i1 = i1
    i2 = i2
    i3 = i3
    i4 = i4
    i5 = i5
    t1 = t1
    t2 = t2
    NoInput = NoInput
    Agents <- OneAgent
    Inputs <- OneInput
    AgentOf <- AllToOne
    Telegram = {}
    Teams = {t1}
    PerAgent = 1
    PerHome = 1
    Receipts = 1
    MaxRev = 1
    Driven <- OneAgent
    Policies = {"allow"}
    Busy = {}
    Movable = {}
PROPERTIES
    PauseStopsFutureClaims
