SPECIFICATION RouteLiveSpec
CONSTANTS
    None = None
    m1 = m1
    m2 = m2
    Models = {m1, m2}
    RouteOf <- MCRouteOf
    Original <- MCOriginal
    NameOf <- MCNameOf
    Block = "aiops-blocked"
    Reroutes <- MCReroutes
    Fallback = m2
    Dear = {m1}
    MaxEdits = 3
CHECK_DEADLOCK FALSE
INVARIANTS
    SoleWriterRestores
    NeverReroutedToBlock

    
