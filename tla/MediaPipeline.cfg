\* Two replays of a submission, one of them empty, and a clip of it; Redis and MinIO errors, timeouts, a restart, expiry.
CONSTANTS
    d1 = d1  d2 = d2  d3 = d3  r = r  e = e  c = c  replay = replay  clip = clip
    NoResult = NoResult
    NoJob = NoJob
    Deliveries <- MCDeliveries
    Jobs <- MCJobs
    JobOf <- MCJobOf
    Malformed = {}
    MaxJobs = 2
    MaxTries = 2
    MaxFaults = 1
    MaxRestarts = 1
    MaxExpiries = 1
    Replays = {r, e}
    Clips = {c}
    Empty = {e}
    Keys = {replay, clip}
    KeyOf <- MCKeyOf
    SourceOf <- MCSourceOf
SPECIFICATION MediaSpec
INVARIANTS MediaTypeOK CompletedHasItsVideo ObjectsAreWhole ClipsFollowTheirReplay OrphansAreTimeouts
PROPERTY EnvelopeSpec
\* The system is done when every delivery is over.
CHECK_DEADLOCK FALSE
