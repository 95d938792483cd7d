SPECIFICATION FairSpec
CONSTANTS
    Cores = {c1}
    MaxProcs = 1
    Quantum = 1
    Kinds <- ShortKinds
    ClientSteps = FALSE
    MaxRuns = 1
PROPERTY RunReturns
\* The client may stop calling, and a run may hang or crash.
CHECK_DEADLOCK FALSE
