SPECIFICATION Spec
CONSTANTS
    t1 = t1
    t2 = t2
    a1 = a1
    a2 = a2
    k1 = k1
    k2 = k2
    Other = Other
    Triggers = {t1, t2}
    Agents <- TwoAgents
    AgentOf <- Apart
    Cron = {t1}
    CronMinutes <- Minutes
    Every <- EachUnit
    Minute = 2
    MaxAttempts = 1
    Ticks = {k1, k2}
    Policies = {"allow"}
    Horizon = 2
    MaxDeaths = 0
    MaxBusy = 1
PROPERTIES
    FiresForward
