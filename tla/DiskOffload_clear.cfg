CONSTANTS
    k1 = k1
    k2 = k2
    k3 = k3
    p1 = p1
    p2 = p2
    Proc = {p1}
    Key = {k1, k2, k3}
    PageBytes <- MCPageBytes
    MaxDiskBytes = 2
    Batches <- MCBatches
    Calls = {"get", "clear"}
    Faults = {}
    MaxFaults = 0
    MaxClock = 4
SPECIFICATION Spec
INVARIANT NeverUndercounts
INVARIANT LockedSections
INVARIANT IndexedPagesWhole
INVARIANT DiskWithinBudget
PROPERTY ClearRemovesAllPages
PROPERTY SetTrueMeansStored
