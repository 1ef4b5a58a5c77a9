CONSTANTS
    MaxTurns = 2
    MaxFacts = 1
    MaxQueries = 1
    MaxStops = 1
    MaxKills = 0
    MaxSteps = 2
    Restarts = FALSE
    Throws = FALSE
    Calm = TRUE
SPECIFICATION FairSpec
INVARIANTS StopsOnlyAsked StopStopsOneTurn
PROPERTY ButtonComesBack
