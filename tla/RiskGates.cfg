CONSTANTS
    Symbols = {s1, s2}
    Nothing = Nothing
    Desks = {d1, d2}
    Worker = w
    Values = {0, 97, 100}
    DeskLimit = 1
    WorkerLimit = 1
    LossPercent = 3
    DayLength = 1
    Window = 1
    MarketHours = {0, 1}
    MaxTime = 1
    MaxOrders = 2
SPECIFICATION RiskSpec
INVARIANTS OpenLimitUnlessBlind MarksLast
PROPERTY HaltUnlessMixed
VIEW RiskView
SYMMETRY Alike
CONSTRAINT Scenario
