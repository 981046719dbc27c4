\* The worker is restarted, or a handler times out, between the result and its notification.
CONSTANTS
    d1 = d1  d2 = d2  d3 = d3  j1 = j1  j2 = j2
    NoResult = NoResult
    Deliveries <- MCDeliveries
    Jobs <- MCJobs
    JobOf <- MCJobOf
    Malformed = {d2, d3}
    MaxJobs = 2
    MaxTries = 2
    MaxFaults = 0
    MaxRestarts = 1
    MaxExpiries = 0
SPECIFICATION FairSpec
PROPERTY StoredIsAnnounced
\* The system is done when every delivery is over.
CHECK_DEADLOCK FALSE
