SPECIFICATION Spec
CONSTANTS
  Prompts <- MCPrompts
  ToolPrompts <- MCToolPrompts
  ToolTexts <- MCToolTexts
  Sampled <- MCSampled
  MaxTokens = 2
  CtxSize = 5
  MinTokens = 1
  ColdMaxTokens = 3
  TrimTokens = 1
  AlignTokens = 2
  IntervalTokens = 2
  PrefillCap = 2
  ResumeMin = 2
  FileOverhead = 1
  MaxToolMap = 1
  BudgetBytes = 8
  MaxJobs = 3
  MaxCrashes = 1
  MaxErrors = 1
INVARIANTS DecodesItsPrompt CheckpointsAreExact WithinBudget
PROPERTY ReplacedSessionIsOnDisk
CHECK_DEADLOCK FALSE
