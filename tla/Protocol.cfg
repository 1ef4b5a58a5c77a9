CONSTANTS
    MaxTurns = 1
    MaxFacts = 0
    MaxQueries = 1
    MaxStops = 2
    MaxKills = 1
    MaxSteps = 2
    Restarts = TRUE
    Throws = TRUE
    Calm = FALSE
SPECIFICATION Spec
INVARIANTS NoOldAnswer ProtocolInv
PROPERTIES NoStepAfterStop DispatchedOnce
