\* Two requests start, review and publish two analyses of one law against each other.
\* Two requests decide and publish an analysis of two laws, whose job may be delivered
\* again after a crash.  One request decides and publishes an analysis of one law on which
\* two slots work, because the first lost its lock.  Up to five claims after the start.
CONSTANTS
    MaxRuns = 2
    Laws = {l1, l2}
    Requests = {q1, q2}
    Workers = {w1, w2}
    Events = {}
    AutoModes = {TRUE, FALSE}
    Attempts = 1
    MaxStalled = 1
    MaxRevision = 6
    None = None
SPECIFICATION MCSpec
SYMMETRY Symmetry
INVARIANTS TypeOK OneRegister WatchStatusBacked RegisterAsDecided
PROPERTIES RegisterAppendOnly HumanDecisionKept
CHECK_DEADLOCK FALSE
