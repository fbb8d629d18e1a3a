--------------------------- MODULE MCDiskOffload ---------------------------
EXTENDS DiskOffloadStore, TLC

CONSTANTS k1, k2, k3, p1, p2

MCPageBytes == [k \in Key |-> IF k = k3 THEN 2 ELSE 1]
MCBatches == {<<k1>>, <<k2, k3>>, <<k3, k1>>}
MCBatchesFaults == {<<k1>>, <<k3, k1>>}
MCBatchesShared == {<<k1>>, <<k3>>}

Procs == Permutations(Proc)
=============================================================================
