CONSTANTS
    k1 = k1
    k2 = k2
    k3 = k3
    p1 = p1
    p2 = p2
    Proc = {p1}
    Key = {k1, k2, k3}
    PageBytes <- MCPageBytes
    MaxDiskBytes = 2
    Batches <- MCBatches
    Calls = {"get"}
    Faults = {"crash"}
    MaxFaults = 2
    MaxClock = 4
SPECIFICATION FairSpec
INVARIANT EvictsColdestFirst
INVARIANT ExistsMeansWhole
INVARIANT SavedBetweenBatches
PROPERTY BatchSetReturns
PROPERTY ImplementsPageStore
