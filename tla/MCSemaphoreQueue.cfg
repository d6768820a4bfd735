\* Capacity 1, and a consumer more than there are tokens in one wake-up.
CONSTANTS
    p1 = p1
    p2 = p2
    c1 = c1
    c2 = c2
    c3 = c3
    Producers <- MCProducers
    Consumers <- MCConsumers
    MaxSize = 1
    MaxPushes = 2
SPECIFICATION SessionSpec
INVARIANTS
    TypeOK
    TokensAccounted
    WithinCapacity
    EndOfStreamIsFinal
    NothingRefused
    SessionDelivers
PROPERTIES
    ImplementsBoundedQueue
    EveryoneReturns
