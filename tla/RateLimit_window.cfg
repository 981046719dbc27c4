\* Every spread of calls over two minutes, with a restart.
CONSTANTS
    c1 = c1  c2 = c2  c3 = c3  review = review
    NoBucket = NoBucket
    Clients <- MCClients
    PeerOf <- MCPeerOf
    Methods <- MCMethods
    Budget <- MCBudget
    Minute = 3
    MaxSkew = 1
    MaxTime = 6
    MaxRestarts = 1
SPECIFICATION Spec
INVARIANTS TypeOK WindowBound CompliantNeverRefused
\* The clock stops at MaxTime.
CHECK_DEADLOCK FALSE
