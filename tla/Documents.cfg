\* Two slots on the run of a sheet, one on those of a planning document and of the
\* scope, whose jobs may be delivered again, against the writes of people and changes
\* of the sources.
CONSTANTS
    Sources = {s1, s2}
    ScopeDone = {s1}
    Texts = {t1}
    MaxRuns = 1
    MaxWrites = 3
    Requests = {q1}
    Slots = {w1}
    Attempts = 1
    MaxStalled = 1
    Facts = {f1, f2}
    Declarations = {empty, d1}
    Coherent = {d1}
    ScopeWrites = 4
    SheetSources = {s1, s2, s3}
    MapCurrent = {s1, s2}
    SheetWrites = 2
    SheetSlots = {w1, w2}
    None = None
SPECIFICATION MCSpec
INVARIANTS TypeOK VersionsFollowVerifications DecisionsOnSources SheetDecisionsOnSources PolicyLinkTrue
PROPERTIES AppliedToItsDocument ProposalKept DeliveryImplemented SheetRunEnds
CHECK_DEADLOCK FALSE
