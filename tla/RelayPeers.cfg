SPECIFICATION Spec
CONSTANTS
    Peers = {p1, p2}
    FeatureBits <- MCFeatureBits
    MaxChannels = 2
    MaxDegree = 2
SYMMETRY Symmetry
INVARIANTS TypeOK IntroIsBest FailureExplained
CHECK_DEADLOCK FALSE
