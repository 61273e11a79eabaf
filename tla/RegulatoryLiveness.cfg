\* One pass over two rows, delivered again after a failure, a crash or a lost lock.
\* Of the watch: an analysis of one law in two slots, with second attempts and lost locks;
\* and, beside a published one, the analysis that a request starts and that of an event of
\* the impact worker, which supersede each other.
CONSTANTS
    Rows = {1, 2}
    Jobs = {j1}
    Workers = {w1}
    Users = {u1}
    Calls = {c1, c2}
    Reserve = 1
    Budget = 1
    Attempts = 2
    MaxConsecutive = 1
    MaxStalled = 1
    MaxRevision = 2
    Carried = {"PARTIAL"}
    Chosen = {"PARTIAL", "NOT_ASSESSED"}
    MaxRuns = 3
    Laws = {l1}
    Requests = {q1}
    Events = {e1}
    AutoModes = {FALSE}
    WatchWorkers = {w1, w2}
    WatchAttempts = 2
    WatchMaxStalled = 1
    WatchMaxRevision = 3
    None = None
SPECIFICATION MCSpec
PROPERTIES NoRowStuck PassesEnd AnalysisEnds
CHECK_DEADLOCK FALSE
