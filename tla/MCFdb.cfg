SPECIFICATION FairSpec
CONSTANTS
    gw = gw
    shared = shared
    own = own
    Macs <- MCMacs
    Ports = {0, 1}
    TableSize = 2
    Tids = {1, 2}
    TidOf <- MCTidOf
    AgeDynamic = 2
    TimeMod = 4
    GwMac = gw
    GwPort = 0
    Static1Port = 0
    Static2Mac = own
    Static2Port = 1
    HalApplies = {TRUE, FALSE}
    NoEntry = NoEntry
    NoRule = NoRule
INVARIANTS
    TypeOK
    OneEntryPerMac
    NoOrphanRule
    UnsharedInstalled
PROPERTIES
    DynamicForgotten
