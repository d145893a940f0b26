SPECIFICATION FairSpec
CONSTANTS
    Starters = {a1}
    Stoppers = {z1}
    Callers = {c1, c2}
    NoHandler = NoHandler
    TlvTypes <- MCOneType
    Messages <- MCFewMessages
PROPERTIES StopTerminates CallersReturn StopIsFinal
