SPECIFICATION Spec
CONSTANTS
  r1 = r1
  r2 = r2
  p1 = p1
  p2 = p2
  p3 = p3
  Req = {r1, r2}
  Prompt <- SharedPrompts
  Arrivals = {{r1, r2}}
  Traffic <- SharedTraffic
  HostPage = {p1, p2}
  Threshold = 1
  CapacityLimit = 3
  Policy = "timeout"
  TP = FALSE
  Retracts = TRUE
  MaxOps = 2
SYMMETRY Pages
PROPERTY RevokeEndsItsOwn
