\* The last of three tasks is the one whose frame goes.
CONSTANTS
    NumTasks = 3
    Delays <- Yield
SPECIFICATION TimerSpec
INVARIANTS
    FramesLive
