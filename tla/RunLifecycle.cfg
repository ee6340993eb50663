SPECIFICATION Spec
CONSTANTS
    r1 = r1
    r2 = r2
    w1 = w1
    w2 = w2
    NoRunner = NoRunner
    NoJob = NoJob
    Runs = {r1, r2}
    Runners = {w1, w2}
    MaxAttempts = 2
    MaxActiveRuns = 1
    MaxCrashes = 1
SYMMETRY Symmetry
CONSTRAINT Within
INVARIANT TypeOK
INVARIANT LaunchDoneMeansLaunched
INVARIANT TerminateDoneMeansGone
INVARIANT TerminatingIsOwed
INVARIANT OpenRunKeepsMachine
INVARIANT CapacityRespected
PROPERTY EndedRunsStayEnded
PROPERTY QueueKeepsPromise
\* Every run ends and every job is settled or abandoned: the system may stop.
CHECK_DEADLOCK FALSE
