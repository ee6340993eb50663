SPECIFICATION Spec
CONSTANTS
    w1 = w1
    NoOne = NoOne
    Gone = Gone
    Admin = Admin
    Runners = {w1}
    Deliveries <- AllDeliveries
    MaxReviews = 1
    MaxAssigns = 0
    MaxResends = 0
    MaxCrashes = 1
    MaxTries = 1
INVARIANT SendingIsBeingSent
\* Every delivery is settled or abandoned in the end: the system may stop.
CHECK_DEADLOCK FALSE
