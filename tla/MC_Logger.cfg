\* Two logf calls, each of any format of up to three characters over '%'
\* and 'a' with up to two integer arguments (model values v1, v2): every escape, hole, missing
\* and surplus argument case.
CONSTANTS
    Values = {v1, v2}
    MaxFmt = 3
    MaxArgs = 2
    MaxCalls = 2
SPECIFICATION FairSpec
\* The program ends when the logger is closed or logf exits the process.
CHECK_DEADLOCK FALSE
INVARIANTS
    TypeOK
    LogfMatchesReference
    ClosedFileComplete
PROPERTIES
    LoggerEventuallyClosed
