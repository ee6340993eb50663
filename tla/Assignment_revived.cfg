SPECIFICATION AssignmentSpec
CONSTANTS
    u1 = u1
    u2 = u2
    p1 = p1
    t1 = t1
    h1 = h1
    NoLogin = NoLogin
    NoProposal = NoProposal
    Accounts = {u1, u2}
    Proposals = {p1}
    Topics = {t1}
    AppliedFor = {t1}
    Handlers = {h1}
    MaxApplications = 3
    MaxAsks = 0
INVARIANT OffersAreNewest
\* Nothing is left to do once every proposal is deleted.
CHECK_DEADLOCK FALSE
