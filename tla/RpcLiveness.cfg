SPECIFICATION FairRpcSpec
CONSTANTS
    Starters = {a1}
    Stoppers = {z1}
    Callers = {s1}
    NoHandler = NoHandler
    TlvTypes <- MCValidAndNot
    Messages <- MCOneMessage
    IncomingSize = 1
    MaxMessages = 3
PROPERTIES StopReturns ServerStopIsFinal StreamsEnd
CHECK_DEADLOCK FALSE
