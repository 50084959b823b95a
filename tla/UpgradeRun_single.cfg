SPECIFICATION FairSpec
CONSTANTS
    ticker = ticker
    handler = handler
    u1 = u1
    u2 = u2
    n1 = n1
    n2 = n2
    master = master
    None = None
    Ticker = ticker
    Pollers = {ticker}
    Upgrades = {u1, u2}
    Nodes = {n1, n2, master}
    Selected <- SelectOverlap
    ControlPlane = {master}
    MaxUnavailable <- Unbuffered
    Faults = {"error", "notFound", "kill"}
INVARIANTS
    WorkersHaveKeys
    ErrorsAccounted
    SuccessUncordons
    OwnContext
    ControlPlaneUntouched
PROPERTIES
    RunReturns
    StopHonoured
