\* Starting an analysis while another request publishes the latest one.
CONSTANTS
    MaxRuns = 2
    Laws = {l1}
    Requests = {q1, q2}
    Workers = {w1}
    Events = {}
    AutoModes = {TRUE}
    Attempts = 1
    MaxStalled = 0
    MaxRevision = 5
    None = None
SPECIFICATION Spec
PROPERTY OnlyUnpublishedSuperseded
CHECK_DEADLOCK FALSE
