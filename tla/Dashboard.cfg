SPECIFICATION Spec
CONSTANTS
    u1 = u1
    u2 = u2
    e1 = e1
    e2 = e2
    e3 = e3
    Views = {"proposals", "overview", "runs", "tasks"}
    MaxChanges = 1
    MaxReloads = 2
    Users = {u1, u2}
    Emails = {e1, e2, e3}
    MaxCredentials = 3
    MaxPreviews = 1
    MaxText = 2
    MaxComposers = 2
    MaxSends = 2
    MaxMoves = 1
    k1 = k1
    k2 = k2
    NoTask = NoTask
    TaskRevisions = {k1, k2}
    Machines <- AllowedMachines
    Configs <- AskedConfigs
    DefaultVolume = 2
    Declared <- DeclaredNeeds
    Needs <- PostedNeeds
    MaxLaunches = 2
    MaxUpserts = 1
    MaxApplicants = 2
    MaxDetails = 1
    MaxSaves = 1
    MaxFetches = 2
    MaxOthers = 1
SYMMETRY Symmetry
INVARIANT UrlLeadsToView
INVARIANT OwnChangesAreShown
INVARIANT OnlyNewestIsOpen
INVARIANT RetriesActOnce
INVARIANT RunsFitTheirTask
INVARIANT DecisionsAreForTheirApplicant
PROPERTY InvitesAreSpentFresh
\* Every page stops at the bounds of its inputs.
CHECK_DEADLOCK FALSE
