SPECIFICATION Spec
CONSTANTS
  r1 = r1
  r2 = r2
  p1 = p1
  p2 = p2
  p3 = p3
  Req = {r1, r2}
  Prompt <- SharedPrompts
  Arrivals = {{r1, r2}, {r1}}
  Traffic <- OtherTraffic
  HostPage = {p1, p2, p3}
  Threshold = 1
  CapacityLimit = 3
  Policy = "timeout"
  TP = TRUE
  Retracts = FALSE
  MaxOps = 2
INVARIANT TypeOK
INVARIANT HostPagesConserved
INVARIANT HostPagesHoldTheirKey
PROPERTY TerminatedIsFinal
SYMMETRY Pages
INVARIANT OccupiedExact
INVARIANT StorageHoldsItsKey
