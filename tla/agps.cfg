SPECIFICATION FairSpec
CONSTANTS
    h1 = h1
    h2 = h2
    Handles <- MCPair
    FreedReads <- MCNone
    MaxInFlight = 4
    MaxRestarts = 1
INVARIANTS PendingAsked
PROPERTIES ReleaseWithLastLeaver ImplementsContract
