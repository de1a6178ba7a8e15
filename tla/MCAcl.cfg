SPECIFICATION AclSpec
CONSTANTS
    PrefixPairs = {web}
    BootPair = web
    Dports = {1, 3}
    PortMod = 3
    BootDport = 1
    ACL_TABLE_SIZE = 3
    IdMod = 6
    AclDepth = 3
    TypedIds = {0, 1, 2, 3, 4, 5, 6}
    AclFates = {TRUE, FALSE}
    NoAcl = NoAcl
    NoRule = NoRule
INVARIANTS
    AclTypeOK
    NoOrphanRule
PROPERTIES
    OlderGoesFirst
