SPECIFICATION Spec
CONSTANTS
    MaxLives = 2
    MaxEvents = 1
    MaxLaunches = 1
INVARIANT NoTurnTwice
CHECK_DEADLOCK FALSE
