SPECIFICATION FairSpec
CONSTANTS
    alice = alice
    bob = bob
    carol = carol
    dave = dave
    Nodes = {alice, bob, carol, dave}
    None = None
    NumMaxHops = 4
    CountBits = 2
    ReplyRoom = 3
    badKey = badKey
    asking = asking
    answering = answering
    Requests <- MCRequests
    Keys <- MCKeys
    Kinds <- MCKinds
    ReplyPayloads <- Body
    Channels <- MCChannels
    Routes <- MCRoutes
    LookupAttempts = 2
INVARIANTS TypeOK HopsAccept RightRecipient RepliesComeBack
           ArrivesIntact OnlyLastHopCarries
PROPERTIES SendReturns MessagesSettle ImplementsDelivery
