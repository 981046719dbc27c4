\* Handlers of one job id never overlap: the ledger is implemented, processing is idempotent.
CONSTANTS
    d1 = d1  d2 = d2  d3 = d3  j1 = j1  j2 = j2
    NoResult = NoResult
    Deliveries <- MCDeliveries
    Jobs <- MCJobs
    JobOf <- MCJobOf
    Malformed = {}
    MaxJobs = 2
    MaxTries = 2
    MaxFaults = 2
    MaxRestarts = 1
    MaxExpiries = 1
SPECIFICATION SerialSpec
INVARIANT IdempotentProcessing
PROPERTY LedgerSpec
\* The system is done when every delivery is over.
CHECK_DEADLOCK FALSE
