SPECIFICATION Spec
CONSTANTS
    Callers = {desk, chat}
    Strategies = {breakout, follow}
    MaxPid = 2
    MaxTries = 1
    MaxFaults = 1
INVARIANTS OneWorkerUnlessTangled StoppedIsStopped
PROPERTY CallsEnd
