SPECIFICATION Spec
CONSTANTS
    Cores = {c1, c2}
    MaxProcs = 4
    Quantum = 2
    Kinds <- PlainKinds
    ClientSteps = FALSE
    MaxRuns = 2
INVARIANTS Exclusive Ownership RunningIsHeld QueueExact NoSleepOnWork
           ShutdownPending StopOnlyWhenHalted SliceBound
PROPERTIES HaltedIsFinal ImplementsRoundRobin
\* The client may stop calling, and a run may hang or crash.
CHECK_DEADLOCK FALSE
