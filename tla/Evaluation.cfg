\* Two people save one evaluation, also away from a result and back to it, while a
\* pass generates proposals for it that is delivered again to a second slot while the
\* first still works.  Two passes in two slots over two rows and one budget, while
\* decisions are saved; a failing entry ends a pass, and any slot may crash.
CONSTANTS
    Rows = {1, 2}
    Jobs = {j1, j2}
    Workers = {w1, w2}
    Users = {u1, u2}
    Calls = {c1, c2}
    Reserve = 1
    Budget = 1
    Attempts = 1
    MaxConsecutive = 1
    MaxStalled = 1
    MaxRevision = 3
    Carried = {"PARTIAL", "CONFORMING"}
    Chosen = {"PARTIAL", "NON_CONFORMING", "NOT_ASSESSED"}
    None = None
SPECIFICATION MCSpec
SYMMETRY Symmetry
INVARIANTS TypeOK BudgetRespected ProposalMatchesDecision FinishedPassLeavesNothing
PROPERTY NoLostDecision
CHECK_DEADLOCK FALSE
