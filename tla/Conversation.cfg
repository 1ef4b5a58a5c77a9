SPECIFICATION ConversationSpec
CONSTANTS
  MaxSteps = 2
  MaxToolCalls = 2
  Turns = {1}
  MemoryEnabled = TRUE
  Kinds = {"describe", "value"}
  Refusals = {"image"}
  MaxTurns = 2
  MaxFolds = 1
  RecentTurns = 0
  ReuseImages = FALSE
  Failures = {"mismatch", "splice"}
INVARIANTS KvHonest Anchored
