\* Two calls for one challenge and a malformed one, of a peer that may make one a minute;
\* an entry that is dropped, and a restart.
CONSTANTS
    c1 = c1  c2 = c2  g1 = g1  g2 = g2  m1 = m1  qwen = qwen
    GenerateChallenge = GenerateChallenge
    NoBucket = NoBucket
    Clients <- MCClients
    PeerOf <- MCPeerOf
    Methods <- MCMethods
    Budget <- MCBudget
    Minute = 2
    MaxSkew = 0
    MaxTime = 2
    MaxRestarts = 1
    Nothing = Nothing
    Calls <- MCCalls
    RequestOf <- MCRequestOf
    Malformed = {m1}
    Trivial = {}
    InBand <- MCCalls
    Models = {qwen}
    Attempts <- MCAttempts
    MaxFaults = 0
    MaxDrops = 1
    ClientOf <- MCClientOf
    MethodOf <- MCMethodOf
    MostAttempts = 3
SPECIFICATION GuardedFairSpec
INVARIANTS SpendWithinBudget
PROPERTIES EveryCallEnds
\* The calls are over and the clock stops.
CHECK_DEADLOCK FALSE
