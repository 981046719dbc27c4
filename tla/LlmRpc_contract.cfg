\* Two absurd challenges, two calls for one profile and an empty profile, with a
\* Redis error and a restart.
CONSTANTS
    g1 = g1  g2 = g2  g3 = g3  a1 = a1  a2 = a2  p1 = p1  p2 = p2
    e1 = e1  sonnet = sonnet  qwen = qwen
    Nothing = Nothing
    Calls <- Mixed
    RequestOf <- MCRequestOf
    Malformed = {}
    Trivial = {e1}
    InBand <- MixedInBand
    Models = {sonnet}
    Attempts <- MCAttempts
    MaxFaults = 1
    MaxDrops = 1
    MaxRestarts = 1
SPECIFICATION Spec
INVARIANTS MeasuredOnce
PROPERTIES ContractSpec
\* The calls are over at some time.
CHECK_DEADLOCK FALSE
