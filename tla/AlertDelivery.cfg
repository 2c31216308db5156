SPECIFICATION Spec
CONSTANTS
    Workers = {w1, w2}
    MaxAttempts = 2
    MaxTime = 2
    MaxFaults = 1
INVARIANTS SentWasDelivered ToldOnceUnlessExcused
PROPERTY AlertsAgainAfterRearm EventsSettle
