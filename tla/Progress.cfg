SPECIFICATION StopSpec
CONSTANTS
    Cores = {c1, c2}
    MaxProcs = 2
    Quantum = 1
    Kinds <- PlainKinds
    ClientSteps = FALSE
    MaxRuns = 2
INVARIANT StopStrands
PROPERTIES StopFreezes ReadyGetsRunUnlessStopped ShutdownSeenByOne
\* The client may stop calling, and a run may hang.
CHECK_DEADLOCK FALSE
