SPECIFICATION QuietSpec
CONSTANTS
    Workers = {w1, w2}
    Tabs = {b1, b2}
    Exits = {"option_stop", "option_target_1", "option_target_2"}
    Times = {1, 2}
    MaxVersion = 2
    MaxGen = 2
SYMMETRY Symmetry
INVARIANTS AlertsOnce LiveIsWatched RulesAreOfActiveVersion
CHECK_DEADLOCK FALSE
