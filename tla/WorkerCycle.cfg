SPECIFICATION CycleSpec
CONSTANTS
    Symbols = {a, b}
    First = a
    Nothing = nothing
    MaxBuys = 2
    Window = 2
    MaxFaults = 1
CONSTRAINT FirstBuy
INVARIANT KillStopsEntries
PROPERTY EntersOnce KillStopsBuying ExitsAreMade
