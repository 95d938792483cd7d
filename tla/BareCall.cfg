SPECIFICATION Spec
CONSTANTS
    ByteBase = 8
    NumRegs = 4
    Callers = {owner}
    Sources <- YieldingSources
    MaxParses = 1
INVARIANT AssemblesSource
\* The client may stop loading.
CHECK_DEADLOCK FALSE
