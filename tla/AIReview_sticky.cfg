SPECIFICATION Spec
CONSTANTS
    w1 = w1
    NoOne = NoOne
    Gone = Gone
    Admin = Admin
    Runners = {w1}
    Deliveries <- AllDeliveries
    MaxReviews = 1
    MaxAssigns = 1
    MaxResends = 0
    MaxCrashes = 0
    MaxTries = 1
INVARIANT StickyShowsReviewer
\* Every delivery is settled or abandoned in the end: the system may stop.
CHECK_DEADLOCK FALSE
