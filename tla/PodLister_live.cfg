SPECIFICATION FairSpec
CHECK_DEADLOCK FALSE
CONSTANTS
    g1 = g1
    g2 = g2
    g3 = g3
    Lists = {g1, g2, g3}
INVARIANTS
    TypeOK
PROPERTIES
    ResultsReceived
    SignalEndsLists
