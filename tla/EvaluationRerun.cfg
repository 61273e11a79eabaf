\* Two overlapping passes over the same rows.
CONSTANTS
    Rows = {1, 2}
    Jobs = {j1, j2}
    Workers = {w1, w2}
    Users = {u1}
    Calls = {c1, c2}
    Reserve = 1
    Budget = 2
    Attempts = 1
    MaxConsecutive = 1
    MaxStalled = 0
    MaxRevision = 2
    Carried = {"PARTIAL", "NOT_ASSESSED"}
    Chosen = {"PARTIAL", "NOT_ASSESSED"}
    None = None
SPECIFICATION Spec
PROPERTY CompletedProposalKept
CHECK_DEADLOCK FALSE
