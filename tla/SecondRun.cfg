SPECIFICATION FairSpec
CONSTANTS
    Cores = {c1}
    MaxProcs = 2
    Quantum = 1
    Kinds <- ShortKinds
    ClientSteps = FALSE
    MaxRuns = 2
PROPERTY ReadyGetsRun
\* The client may stop calling, and a run may hang or crash.
CHECK_DEADLOCK FALSE
