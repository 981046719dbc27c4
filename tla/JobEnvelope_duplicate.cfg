\* Two overlapping deliveries of one job id, no failure of any kind.
CONSTANTS
    d1 = d1  d2 = d2  d3 = d3  j1 = j1  j2 = j2
    NoResult = NoResult
    Deliveries <- MCDeliveries
    Jobs <- MCJobs
    JobOf <- MCJobOf
    Malformed = {}
    MaxJobs = 2
    MaxTries = 1
    MaxFaults = 0
    MaxRestarts = 0
    MaxExpiries = 0
SPECIFICATION Spec
INVARIANT IdempotentProcessing
\* The system is done when every delivery is over.
CHECK_DEADLOCK FALSE
