SPECIFICATION Spec
CONSTANTS
    Procs = {p1, p2}
    Byte = {0, 1, 2}
    WordSize = 2
    MemSize = 16
    AddressModulus = 20
    RegionSize = 8
    StackSize = 4
    Programs <- LongPrograms
    Values <- OneValue
    MaxOffset = 2
    MaxPath = 2
SYMMETRY ProcSymmetry
INVARIANTS TypeOK RegionsDisjoint StackPointerInSegment
\* Every process may have failed.
CHECK_DEADLOCK FALSE
