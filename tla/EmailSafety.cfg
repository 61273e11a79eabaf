\* One invitation that two slots and two overlapping reconcile() calls compete for,
\* with a fault and a limit of two attempts.
CONSTANTS
    Deliveries = {d1}
    Invitations = {d1}
    Slots = {s1, s2}
    Reconcilers = {p1, p2}
    MaxAttempts = 2
    MaxMishaps = 1
    None = None
SPECIFICATION Spec
SYMMETRY Symmetry
INVARIANTS TypeOK ClaimExclusive RetriesCapped
PROPERTY OutcomeFinal
CHECK_DEADLOCK FALSE
