SPECIFICATION Spec
CONSTANTS
    w1 = w1
    w2 = w2
    NoOne = NoOne
    Gone = Gone
    Admin = Admin
    Runners = {w1, w2}
    Deliveries <- AllDeliveries
    MaxReviews = 2
    MaxAssigns = 1
    MaxResends = 1
    MaxCrashes = 1
    MaxTries = 2
SYMMETRY Symmetry
CONSTRAINT Within
INVARIANT OneComment
INVARIANT OneMessage
INVARIANT NoForgottenMessage
INVARIANT CompletedMeansShown
PROPERTY OnlyLatestIsWritten
\* Every delivery is settled or abandoned in the end: the system may stop.
CHECK_DEADLOCK FALSE
