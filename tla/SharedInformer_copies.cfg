SPECIFICATION FairSpec
CHECK_DEADLOCK FALSE
CONSTANTS
    ticker = ticker
    handler = handler
    Nil = Nil
    Own = Own
    Ticker = ticker
    Handler = handler
    Clients = {"KubeletUpgrade", "Database", "StorageChangedBlock", "ChangedBlock"}
    MaxVersion = 3
    Lookups = 2
INVARIANTS
    TypeOK
    OneInformer
PROPERTIES
    LaggingSpec
    CatchesUp
