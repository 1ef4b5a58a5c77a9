SPECIFICATION ConversationSpec
CONSTANTS
  MaxSteps = 1
  MaxToolCalls = 1
  Turns = {1}
  MemoryEnabled = FALSE
  Kinds = {"greeting", "recall"}
  Refusals = {"greeting"}
  MaxTurns = 3
  MaxFolds = 1
  RecentTurns = 1
  ReuseImages = FALSE
  Failures = {}
INVARIANT ConversationInv
