SPECIFICATION Spec
CONSTANTS
    ByteBase = 8
    NumRegs = 4
    Callers = {core1, core2}
    Sources <- TwoSources
    MaxParses = 1
INVARIANT AssemblesSource
\* The cores may stop loading.
CHECK_DEADLOCK FALSE
