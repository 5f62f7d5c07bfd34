SPECIFICATION Spec
CONSTANTS
    a1 = a1
    a2 = a2
    i1 = i1
    i2 = i2
    i3 = i3
    i4 = i4
    i5 = i5
    t1 = t1
    t2 = t2
    NoInput = NoInput
    Agents <- TwoAgents
    Inputs <- FiveInputs
    AgentOf <- ThreeAndTwo
    Telegram = {}
    Teams = {t1}
    PerAgent = 2
    PerHome = 3
    Receipts = 4
    MaxRev = 1
    Driven <- OneAgent
    Policies = {"allow"}
    Busy = {}
    Movable = {}
SYMMETRY Interchangeable
INVARIANTS
    AtMostOnce
    WithinLimits
PROPERTIES
    KeepsPromise
