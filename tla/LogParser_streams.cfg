CONSTANTS
    Streams = {"stdout", "stderr"}
    Parsers = {"kube", "etcd"}
    Output <- BothOutputs
    Piece = 3
SPECIFICATION Spec
INVARIANTS
    NoLineWaits
    OrderKept
    LinesIntact
CHECK_DEADLOCK FALSE
