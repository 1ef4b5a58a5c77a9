SPECIFICATION Spec
CONSTANTS
    Texts <- ToolTexts
    Kinds = {"fact"}
    MaxRecords = 1
    MaxNew = 2
    MaxCrashes = 2
    MaxPlanSteps = 2
    MaxCalls = 2
    TopK = 1
    Spare = 1
INVARIANTS ToolsInv SomeStepCurrent OneRecordPerSlot PinnedStay DeletedStayDeleted IdNamesOneRecord PinnedRecalled
CHECK_DEADLOCK FALSE
