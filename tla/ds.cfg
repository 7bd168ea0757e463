SPECIFICATION FairSpec
CONSTANTS
    h1 = h1
    h2 = h2
    Handles <- MCPair
    Services <- MCServices
    MaxRetries = 1
    MaxInbox = 4
    MaxRestarts = 1
INVARIANTS CallInStep
PROPERTIES EveryRequestAnswered CallGivenBack
CHECK_DEADLOCK FALSE
