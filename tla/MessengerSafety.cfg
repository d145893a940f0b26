SPECIFICATION Spec
CONSTANTS
    Starters = {a1, a2}
    Stoppers = {z1, z2}
    Callers = {c1, c2}
    NoHandler = NoHandler
    TlvTypes <- MCTlvTypes
    Messages <- MCMessages
SYMMETRY Symmetry
INVARIANTS TypeOK WaitersServed StopJoins NoSilentDeath
PROPERTY NoReplace
