\* Two overlapping deliveries of one job and a malformed message; a Redis error,
\* restarts, expiry; fair scheduling, services that may hang.
CONSTANTS
    d1 = d1  d2 = d2  d3 = d3  j1 = j1  j2 = j2
    NoResult = NoResult
    Deliveries <- MCDeliveries
    Jobs <- MCJobs
    JobOf <- MCJobOf
    Malformed = {d3}
    MaxJobs = 2
    MaxTries = 2
    MaxFaults = 1
    MaxRestarts = 2
    MaxExpiries = 1
SPECIFICATION FairSpec
INVARIANTS TypeOK GaugeBalanced MetricsNeverOverReport SuccessMeansAnswered
PROPERTIES AnnouncedIsReadable EveryDeliveryEnds
\* The system is done when every delivery is over.
CHECK_DEADLOCK FALSE
