\* One version, a stage of which failed in an earlier processing, is retried.
CONSTANTS
    Versions = {1}
    MaxGenerations = 2
    MaxWrites = 1
    FirstStages = {1}
    Requests = {q1}
    Slots = {w1}
    Attempts = 1
    MaxStalled = 0
    None = None
SPECIFICATION Spec
PROPERTY PublishedImmutable
CHECK_DEADLOCK FALSE
