SPECIFICATION FairSpec
CONSTANTS
  r1 = r1
  r2 = r2
  p1 = p1
  p2 = p2
  p3 = p3
  Req = {r1, r2}
  Prompt <- SharedPrompts
  Arrivals = {{r1}}
  Traffic <- OtherTraffic
  HostPage = {p1, p2}
  Threshold = 1
  CapacityLimit = 3
  Policy = "wait_complete"
  TP = FALSE
  Retracts = FALSE
  MaxOps = 1
PROPERTY WaitingEnds
PROPERTY PagesComeBack
INVARIANT PrefetchNodeStays
