CONSTANTS
    r1 = r1
    r2 = r2
    Req = {r1}
    Servers <- CrowdedServers
    WriteThreshold = 1
    LoadBackThreshold = 2
    Prefetches = TRUE
SPECIFICATION Spec
INVARIANT RegularEvictionOfLeaf
