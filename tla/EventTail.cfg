SPECIFICATION FairSpec
CONSTANTS
    MaxLives = 3
    MaxEvents = 2
    MaxLaunches = 3
INVARIANTS TailInv TailExact
PROPERTY EveryLineArrives
CHECK_DEADLOCK FALSE
