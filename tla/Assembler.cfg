SPECIFICATION FairSpec
CONSTANTS
    ByteBase = 8
    NumRegs = 4
    Callers = {owner}
    Sources <- ManySources
    MaxParses = 2
INVARIANTS TypeOK AssemblesSource LexerExact
PROPERTIES PassesAgree ParseEnds
\* The client may stop loading.
CHECK_DEADLOCK FALSE
