SPECIFICATION ConversationSpec
CONSTANTS
  MaxSteps = 2
  MaxToolCalls = 1
  Turns = {1}
  MemoryEnabled = TRUE
  Kinds = {"value"}
  Refusals = {"language"}
  MaxTurns = 2
  MaxFolds = 0
  RecentTurns = 0
  ReuseImages = FALSE
  Failures = {"mismatch", "splice"}
INVARIANTS KvHonest
