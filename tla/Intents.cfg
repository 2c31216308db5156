SPECIFICATION Spec
CONSTANTS
    Ids = {i1, i2}
    Books = {buy, sell}
    Buys = {buy}
    Consumers = {c, d}
    MaxTime = 1
    MaxOrders = 2
VIEW IntentsView
INVARIANTS HandedOnce OneActivePerBook OrdersAreConsumed OrdersHoldSlots
PROPERTY KeepsIntentLife
CHECK_DEADLOCK FALSE
