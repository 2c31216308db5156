SPECIFICATION RunningSpec
CONSTANTS
    Ids = {i1, i2}
    Books = {buy, sell}
    Buys = {buy}
    Consumers = {c}
    MaxTime = 2
    MaxOrders = 1
INVARIANT ConsumedWasHandedOn
PROPERTY ExpiredEnds
CHECK_DEADLOCK FALSE
