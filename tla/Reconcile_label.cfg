SPECIFICATION Spec
CONSTANTS
    ticker = ticker
    handler = handler
    u1 = u1
    u2 = u2
    every2 = every2
    bad = bad
    None = None
    Ticker = ticker
    BadSchedule = bad
    CronNext <- Cron2
    Pollers = {ticker}
    Upgrades = {u1}
    Faults = {}
    LookBack = 2
    MaxTime = 3
    Schedules = {every2}
INVARIANTS
    LabelShowsStarted
