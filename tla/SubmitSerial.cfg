SPECIFICATION SerialSpec
CONSTANTS
    Keys = {k1, k2}
    Desk = {d}
    Workers = {w}
    Side = "buy"
    Answers = {"accepted", "filled", "unknown", "refused", "aborted"}
PROPERTIES PlacesOnce UnknownEndsAtVenue
CHECK_DEADLOCK FALSE
