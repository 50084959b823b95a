SPECIFICATION FairSpec
CHECK_DEADLOCK FALSE
CONSTANTS
    Nil = Nil
    demo = demo
    pgsql = pgsql
    mariadb = mariadb
    mysql = mysql
    default = default
    NamespaceOf <- Namespaced
    Demo = demo
    Default = default
    Directories <- SomeDirectories
INVARIANTS
    TypeOK
    ListsOnlyWhenAllStored
    ListingIsTruthful
    LeakedContexts
    
PROPERTIES
    InterruptEnds
