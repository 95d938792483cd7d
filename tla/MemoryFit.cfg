SPECIFICATION Spec
CONSTANTS
    Procs = {p1, p2}
    Byte = {0, 1, 2}
    WordSize = 2
    MemSize = 18
    AddressModulus = 20
    RegionSize = 9
    StackSize = 4
    Programs <- FittingPrograms
    Values <- OneValue
    MaxOffset = 2
    MaxPath = 2
SYMMETRY ProcSymmetry
INVARIANTS Separated StackPointerInSegment CodeIntact
PROPERTIES NoInterference ImplementsPrivateMemory
\* Every process may have failed.
CHECK_DEADLOCK FALSE
