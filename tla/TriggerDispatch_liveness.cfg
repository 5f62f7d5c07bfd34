SPECIFICATION FairSpec
CONSTANTS
    t1 = t1
    t2 = t2
    a1 = a1
    a2 = a2
    k1 = k1
    k2 = k2
    Other = Other
    Triggers = {t1}
    Agents <- OneAgent
    AgentOf <- Shared
    Cron = {t1}
    CronMinutes <- Minutes
    Every <- EachUnit
    Minute = 1
    MaxAttempts = 2
    Ticks = {k1}
    Policies = {"allow", "approval_required", "deny"}
    Horizon = 1
    MaxDeaths = 1
    MaxBusy = 1
INVARIANTS
    RetriesBounded
PROPERTIES
    RefusalHolds
    EverySettles
