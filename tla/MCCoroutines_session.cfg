\* Four tasks, so that some are launched while others are resumed.
CONSTANTS
    NumTasks = 4
    Delays <- YieldAndDelay
SPECIFICATION TimerSpec
INVARIANTS
    HandlesSuspended
    NeverEarly
    NeverOverslept
PROPERTIES
    SessionEnds
