SPECIFICATION RpcSpec
CONSTANTS
    Starters = {a1}
    Stoppers = {z1}
    Callers = {s1, s2}
    NoHandler = NoHandler
    TlvTypes <- MCTwoTypes
    Messages <- MCMessages
    IncomingSize = 1
    MaxMessages = 3
INVARIANT HandlerNeverBlocks
CHECK_DEADLOCK FALSE
