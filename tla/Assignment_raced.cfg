SPECIFICATION AssignmentSpec
CONSTANTS
    u1 = u1
    u2 = u2
    p1 = p1
    t1 = t1
    t2 = t2
    h1 = h1
    NoLogin = NoLogin
    NoProposal = NoProposal
    Accounts = {u1, u2}
    Proposals = {p1}
    Topics = {t1, t2}
    AppliedFor = {t1}
    Handlers = {h1}
    MaxApplications = 2
    MaxAsks = 1
SYMMETRY Symmetry
INVARIANT AssignmentsAreEligible
\* Nothing is left to do once every proposal is deleted.
CHECK_DEADLOCK FALSE
