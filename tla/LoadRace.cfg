SPECIFICATION Spec
CONSTANTS
    Cores = {c1, c2}
    MaxProcs = 3
    Quantum = 1
    Kinds <- LoadKinds
    ClientSteps = FALSE
    MaxRuns = 1
INVARIANT Exclusive
\* The client may stop calling, and a run may hang or crash.
CHECK_DEADLOCK FALSE
