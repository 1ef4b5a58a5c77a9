SPECIFICATION Spec
CONSTANTS
    MaxSessions = 2
    MaxId = 4
    MaxClock = 7
    MaxCrashes = 1
    Losses = TRUE
INVARIANTS SessionsInv NothingHidden DeletedNotListed NamesStick
PROPERTY FreshIsEmpty
CHECK_DEADLOCK FALSE
