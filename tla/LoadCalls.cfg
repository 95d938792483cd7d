SPECIFICATION Spec
CONSTANTS
    Cores = {c1, c2}
    MaxProcs = 3
    Quantum = 1
    Kinds <- AllKinds
    ClientSteps = TRUE
    MaxRuns = 2
INVARIANTS TypeOK NoSleepOnWork ShutdownPending ReadyReachable RegionsAccounted
           NoNullProcess
PROPERTY RegionsKept
\* The client may stop calling, and a run may hang or crash.
CHECK_DEADLOCK FALSE
