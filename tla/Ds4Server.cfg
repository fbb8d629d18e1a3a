SPECIFICATION ServerSpec
CONSTANTS
  Clients = {c1, c2}
  Prompts <- MCPrompts
  ToolPrompts = {}
  ToolTexts = {}
  Sampled <- MCSampled
  MaxTokens = 1
  CtxSize = 6
  MinTokens = 2
  ColdMaxTokens = 3
  TrimTokens = 1
  AlignTokens = 2
  IntervalTokens = 2
  PrefillCap = 2
  ResumeMin = 2
  FileOverhead = 1
  MaxToolMap = 0
  BudgetBytes = 8
  MaxJobs = 2
  MaxCrashes = 1
  MaxErrors = 0
INVARIANTS JobOutlivesWorker NoUseAfterClose ShutdownPersists
PROPERTIES RequestsEnd ShutdownEnds ImplementsJobs
CHECK_DEADLOCK FALSE
