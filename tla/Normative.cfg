\* One version in one slot from its third stage on, with second attempts and lost locks;
\* a retry, or two, and a forced start that work on one version in two slots; a job that
\* goes on beside its redelivery after its lock expired; two versions in one slot.  Two
\* starts, retries or decisions, from states that an earlier processing leaves.
CONSTANTS
    Versions = {1, 2}
    MaxGenerations = 3
    MaxWrites = 2
    FirstStages = {1, 3}
    Requests = {q1}
    Slots = {w1, w2}
    Attempts = 2
    MaxStalled = 1
    None = None
SPECIFICATION MCSpec
INVARIANTS TypeOK ChunksOfStructure PublicationValidated
PROPERTY FollowedEnds
CHECK_DEADLOCK FALSE
