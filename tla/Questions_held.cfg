SPECIFICATION FairSpec
CHECK_DEADLOCK FALSE
CONSTANTS
    Questions = {q1, q2}
    Turns = {t1, t2}
    Telegram = {t2}
    Responses = {r1, r2}
    Postures = {"allow", "ask", "deny"}
    MaxTurns = 1
    MaxChanges = 1
INVARIANTS
    OutcomeIsTold
    NothingDangles
PROPERTIES
    ReleasedByItsOwner
    EveryAskReturns
