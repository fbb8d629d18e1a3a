CONSTANTS
    r1 = r1
    r2 = r2
    Req = {r1, r2}
    Servers <- AllServers
    WriteThreshold = 1
    LoadBackThreshold = 2
    Prefetches = TRUE
SPECIFICATION Spec
SYMMETRY Requests
INVARIANTS DevicePagesConserved HostPagesConserved SizesExact LocksExact EvictedFromTheEnd TransfersKeepTheirPages StorageNodesStay AdmissionHonoured
