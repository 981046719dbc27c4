\* A cancelled call counts as a success.
CONSTANTS
    g1 = g1  g2 = g2  g3 = g3  a1 = a1  a2 = a2  p1 = p1  p2 = p2
    e1 = e1  sonnet = sonnet  qwen = qwen
    Nothing = Nothing
    Calls <- Shared
    RequestOf <- MCRequestOf
    Malformed = {}
    Trivial = {}
    InBand <- SharedInBand
    Models = {sonnet, qwen}
    Attempts <- MCAttempts
    MaxFaults = 2
    MaxDrops = 2
    MaxRestarts = 1
SPECIFICATION Spec
INVARIANTS OkMeansCompleted
\* The calls are over at some time.
CHECK_DEADLOCK FALSE
