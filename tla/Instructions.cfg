SPECIFICATION Spec
CONSTANTS
    Bits = 3
    Half = 4
    ImmHalf = 2
    ArgModulus = 4
    NumRegs = 4
    Source <- PlainSource
INVARIANTS TypeOK FlagsTell
PROPERTIES JumpsCompare SourceFaithful
\* Programs end.
CHECK_DEADLOCK FALSE
