SPECIFICATION Spec
CONSTANTS
    a1 = a1
    a2 = a2
    i1 = i1
    i2 = i2
    i3 = i3
    i4 = i4
    i5 = i5
    t1 = t1
    t2 = t2
    NoInput = NoInput
    Agents <- OneAgent
    Inputs <- OneInput
    AgentOf <- AllToOne
    Telegram = {i1}
    Teams = {t1, t2}
    PerAgent = 2
    PerHome = 2
    Receipts = 2
    MaxRev = 2
    Driven <- OneAgent
    Policies = {"allow", "approval_required", "deny"}
    Busy = {a1}
    Movable = {a1}
INVARIANTS
    UncertainIsPaused
    OneTurnPerAgent
PROPERTIES
    StartsAsMember
    StartsAuthorized
    ResumeIsInformed
