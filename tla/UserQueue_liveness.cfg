SPECIFICATION FairSpec
CONSTANTS
    a1 = a1
    a2 = a2
    i1 = i1
    i2 = i2
    i3 = i3
    i4 = i4
    i5 = i5
    t1 = t1
    t2 = t2
    NoInput = NoInput
    Agents <- OneAgent
    Inputs <- TwoInputs
    AgentOf <- AllToOne
    Telegram = {}
    Teams = {t1}
    PerAgent = 2
    PerHome = 2
    Receipts = 2
    MaxRev = 0
    Driven <- OneAgent
    Policies = {"allow", "approval_required"}
    Busy = {}
    Movable = {}
INVARIANTS
    OneOwner
    InFlightIsOldest
    PayloadOutlivesUse
PROPERTIES
    SettlesOrPauses
