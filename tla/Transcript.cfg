SPECIFICATION Spec
CONSTANTS
    RecentTurnsMin = 2
    CompactionMinTurns = 4
    MaxTurns = 5
    WriteFaults = TRUE
    ExplicitIds = TRUE
INVARIANTS ContextExact WindowVerbatim EndedTurnsKept TurnsNumbered UnharmedInv OrderKept
PROPERTIES SummaryOnlyGrows KeepsTurnLog
