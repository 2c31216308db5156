SPECIFICATION Spec
CONSTANTS
    MaxUpdates = 2
    MaxDesk = 2
    MaxFaults = 2
INVARIANTS PassedIsHandled LastWordHolds 
PROPERTY CommandsSettle
CHECK_DEADLOCK FALSE
