SPECIFICATION Spec
CONSTANTS
    Keys = {k1, k2}
    Desk = {d}
    Workers = {w}
    Side = "sell"
    Answers = {"accepted", "unknown", "refused", "aborted"}
SYMMETRY Symmetry
VIEW OverlapView
INVARIANTS LandedIsRecorded NoInventedOutcome UnknownIsPinned
CHECK_DEADLOCK FALSE
