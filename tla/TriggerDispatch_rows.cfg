SPECIFICATION Spec
CONSTANTS
    t1 = t1
    t2 = t2
    a1 = a1
    a2 = a2
    k1 = k1
    k2 = k2
    Other = Other
    Triggers = {t2}
    Agents <- OneAgent
    AgentOf <- Shared
    Cron = {}
    CronMinutes <- Minutes
    Every <- EachUnit
    Minute = 1
    MaxAttempts = 3
    Ticks = {k1, k2}
    Policies = {"allow", "approval_required"}
    Horizon = 2
    MaxDeaths = 1
    MaxBusy = 1
INVARIANTS
    OneOpenPerTrigger
    TurnOwnsRow
PROPERTIES
    SettledIsFinal
