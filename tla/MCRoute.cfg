SPECIFICATION RouteSpec
CONSTANTS
    h1 = h1
    h2 = h2
    AddrBits = 4
    IndexBits = 2
    Prefixes <- MCPrefixes
    Hops = {h1, h2}
    ROUTE_TABLE_SIZE = 2
    BootRoutes <- MCBootRoutes
    RouteFates = {TRUE, FALSE}
    Drop = Drop
    NoRoute = NoRoute
    NoRule = NoRule
INVARIANTS
    RouteTypeOK
    NoOrphanRoute
    UnsharedInstalled
PROPERTIES
    WithdrawnIsGone
