\* One party and one item: a run whose job is delivered again after lost locks and, for
\* the party, errors, against the writes of people and changes of the evidence.
CONSTANTS
    Parties = {p1}
    Methods = {"both", "criticality"}
    Services = {a1, a2}
    MaxRuns = 1
    MaxWrites = 2
    MaxMaterial = 1
    Requests = {q1}
    Slots = {w1}
    Attempts = 2
    MaxStalled = 1
    Items = {i1}
    Sources = {s1}
    Levels = {high, low}
    MaxEvidence = 1
    RoSlots = {w1}
    RoAttempts = 1
    RoMaxWrites = 2
    None = None
SPECIFICATION MCSpec
INVARIANTS TypeOK EvaluationUpToDate ValidatedComplete RisksTreated
PROPERTIES AppliedToItsRegister HumanContentKept AppliedToTheItems RunEnds
CHECK_DEADLOCK FALSE
