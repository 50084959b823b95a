SPECIFICATION Spec
CONSTANTS
    ticker = ticker
    handler = handler
    u1 = u1
    u2 = u2
    n1 = n1
    n2 = n2
    master = master
    None = None
    Ticker = ticker
    Pollers = {ticker, handler}
    Upgrades = {u1}
    Nodes = {n1, n2}
    Selected <- SelectAll
    ControlPlane = {}
    MaxUnavailable <- Unbuffered
    Faults = {"kill"}
SYMMETRY PairSymmetry
INVARIANTS
    TypeOK
    QueueContract
    NodeExclusive
    DrainOnlyCordoned
PROPERTIES
    RolloutSpec
