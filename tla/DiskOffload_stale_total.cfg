CONSTANTS
    k1 = k1
    k2 = k2
    k3 = k3
    p1 = p1
    p2 = p2
    Proc = {p1}
    Key = {k1, k3}
    PageBytes <- MCPageBytes
    MaxDiskBytes = 2
    Batches <- MCBatchesFaults
    Calls = {"get", "clear"}
    Faults = {"crash"}
    MaxFaults = 1
    MaxClock = 2
SPECIFICATION Spec
PROPERTY CounterFitsBudget
