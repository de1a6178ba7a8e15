SPECIFICATION FairSpec
CONSTANTS
    gw = gw
    server = server
    host1 = host1
    host2 = host2
    ip1 = ip1
    ip2 = ip2
    Macs <- MCMacs
    Ports = {0, 1}
    TableSize = 3
    Tids = {1, 2, 3}
    TidOf <- MCTidOf
    AgeDynamic = 2
    TimeMod = 4
    GwMac = gw
    GwPort = 0
    Static1Port = 0
    Static2Mac = server
    Static2Port = 0
    HalApplies = {TRUE}
    NoEntry = NoEntry
    NoRule = NoRule
    Ips <- MCIps
    GwIp = ip1
    ArpSize = 2
    Hash <- MCHash
    IntfPorts = {0}
    AgeMax = 2
    ProbeTtl = 1
    RetryMax = 1
    NoMac = NoMac
    FreeSlot = FreeSlot
INVARIANTS
    TypeOK
PROPERTIES
    FdbSpec
    QuietForgets
    AskedBeforeForgotten
    HeardIsFound
