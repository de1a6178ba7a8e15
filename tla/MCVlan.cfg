SPECIFICATION VlanSpec
CONSTANTS
    Ports = {0, 1, 2}
    Vlans = {1, 2}
    DefaultVlan = 1
    VlanSpan = 3
    VlanDepth = 6
    VlanBootCalls <- MCBootCalls
    Commands <- MCCommands
    VlanMaxLost = 1
    Any = Any
    NoRule = NoRule
INVARIANTS
    VlanTypeOK
    MembershipAgrees
    
PROPERTIES
    OneVlanPerCall
