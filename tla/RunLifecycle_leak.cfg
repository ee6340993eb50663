SPECIFICATION Spec
CONSTANTS
    r1 = r1
    w1 = w1
    NoRunner = NoRunner
    NoJob = NoJob
    Runs = {r1}
    Runners = {w1}
    MaxAttempts = 2
    MaxActiveRuns = 1
    MaxCrashes = 0
INVARIANT TerminatedMeansGone
\* Every run ends and every job is settled or abandoned: the system may stop.
CHECK_DEADLOCK FALSE
