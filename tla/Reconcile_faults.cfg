SPECIFICATION Spec
CONSTANTS
    ticker = ticker
    handler = handler
    u1 = u1
    u2 = u2
    every2 = every2
    bad = bad
    None = None
    Ticker = ticker
    BadSchedule = bad
    CronNext <- Cron2
    Pollers = {ticker, handler}
    Upgrades = {u1}
    Faults = {"error", "kill", "edit"}
    LookBack = 1
    MaxTime = 2
    Schedules = {every2}
INVARIANTS
    TypeOK
    FreshCopiesAgree
PROPERTIES
    StartsDue
    LifecycleSpec
