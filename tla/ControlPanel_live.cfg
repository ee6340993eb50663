SPECIFICATION LiveSpec
CONSTANTS
    r1 = r1
    w1 = w1
    x1 = x1
    x2 = x2
    NoRunner = NoRunner
    NoJob = NoJob
    NoOwner = NoOwner
    Departed = Departed
    Runs = {r1}
    Runners = {w1}
    MaxAttempts = 2
    MaxActiveRuns = 1
    MaxCrashes = 1
    MaxV2Runs = 2
    V2Runners = {x1, x2}
    MaxV2Crashes = 1
INVARIANT OneHarborPerRun
PROPERTY EveryRunEnds
PROPERTY LeasesAreReclaimed
PROPERTY TerminationResolves
PROPERTY V2RunsEnd
PROPERTY RunsMoveOn
\* Every run ends and every job is settled or abandoned: the system may stop.
CHECK_DEADLOCK FALSE
