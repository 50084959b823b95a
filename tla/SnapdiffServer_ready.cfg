SPECIFICATION FairSpec
CHECK_DEADLOCK FALSE
CONSTANTS
    u1 = u1
    u2 = u2
    reflector = reflector
    Users = {u1}
    Reflector = reflector
PROPERTIES
    PluginBecomesReady
