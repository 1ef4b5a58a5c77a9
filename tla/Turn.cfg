SPECIFICATION Spec
CONSTANTS
  MaxSteps = 3
  MaxToolCalls = 2
  Turns = {1}
  MemoryEnabled = TRUE
  Kinds = {"chat", "greeting", "recall", "describe", "value", "clock", "count", "remember"}
  Refusals = {"language", "greeting", "image"}
INVARIANTS TurnInv WithinBudgets StopSoon ToolsAfterNudge ShownIsStored
