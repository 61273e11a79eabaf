\* One invitation, a slot and the timer, with two faults.
CONSTANTS
    Deliveries = {d1}
    Invitations = {d1}
    Slots = {s1}
    Reconcilers = {p1}
    MaxAttempts = 2
    MaxMishaps = 2
    None = None
SPECIFICATION FairSpec
PROPERTY DeliveryEnds
CHECK_DEADLOCK FALSE
