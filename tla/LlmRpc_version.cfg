\* A cached verdict on a profile outlives the model that gave it.
CONSTANTS
    g1 = g1  g2 = g2  g3 = g3  a1 = a1  a2 = a2  p1 = p1  p2 = p2
    e1 = e1  sonnet = sonnet  qwen = qwen
    Nothing = Nothing
    Calls <- Profiles
    RequestOf <- MCRequestOf
    Malformed = {}
    Trivial = {}
    InBand = {}
    Models = {sonnet, qwen}
    Attempts <- MCAttempts
    MaxFaults = 2
    MaxDrops = 2
    MaxRestarts = 1
SPECIFICATION Spec
INVARIANTS VersionNamesTheModel
\* The calls are over at some time.
CHECK_DEADLOCK FALSE
