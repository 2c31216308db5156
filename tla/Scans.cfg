SPECIFICATION Spec
CONSTANTS
    Slots = {1, 4, 7}
    Close = 7
    Window = 3
    Minute = 2
    Tickers = {t1, t2}
    MaxTick = 7
    MaxJobs = 2
    MaxFaults = 1
INVARIANTS DoneWasSaved SlotNotRepeated SlotIsFired
PROPERTIES BooksMoveForward ReportsAreKept JobsEnd
CHECK_DEADLOCK FALSE
