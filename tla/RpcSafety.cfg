SPECIFICATION RpcSpec
CONSTANTS
    Starters = {a1}
    Stoppers = {z1}
    Callers = {s1, s2}
    NoHandler = NoHandler
    TlvTypes <- MCTwoTypes
    Messages <- MCMessages
    IncomingSize = 1
    MaxMessages = 2
SYMMETRY Symmetry
INVARIANTS RpcTypeOK Ownership NoOrphan InOrder NoLoss StopQuiesces
PROPERTY ImplementsBus
CHECK_DEADLOCK FALSE
