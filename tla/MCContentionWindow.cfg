\* Every worker may count two operations: one before stop, one in flight.
CONSTANTS
    NumThreads = 3
    Machines <- MCMachines
    Callables <- AllCallables
    MaxOps = 2
SPECIFICATION Spec
INVARIANTS
    LockExcludes
    OpsMatchCounter
    PinnedEvenly
PROPERTIES
    WindowEnds
