SPECIFICATION Spec
CONSTANTS
    u1 = u1
    u2 = u2
    e1 = e1
    e2 = e2
    v1 = v1
    v2 = v2
    t1 = t1
    t2 = t2
    NoUser = NoUser
    NoEmail = NoEmail
    Nobody = Nobody
    Users = {u1, u2}
    Emails = {e1, e2}
    RequireOtp = TRUE
    MaxAttempts = 1
    MaxCodes = 2
    MaxFormCodes = 1
    MaxDialogs = 2
    MaxAsks = 2
    MaxApplications = 2
    MaxCalls = 2
    NoVisitor = NoUser
    Visitors = {u1, u2}
    MaxWindows = 1
    MaxSignOuts = 1
    MaxReloads = 1
    Reviewers = {v1, v2}
    MaxTexts = 1
    MaxDrawers = 2
    MaxReplies = 1
    MaxLoads = 1
    MaxVersions = 3
    MaxEdits = 2
    MaxRenders = 1
    Domains = {1, 2}
    MaxAnswers = 2
    MaxCreated = 2
    Typed = {"plain", "### Other", "**Scores**"}
    MaxParagraphs = 2
    Tasks = {t1, t2}
    BoardDomains = {"biology"}
    Logins = {"ada", "bob"}
    Arriving <- ArrivingReviews
    MaxReviews = 3
    NameParts = {"Ana"}
    Affiliations = {"x", "y"}
    MaxRows = 3
    Paths <- TaskPaths
    NewFolders = {"physics"}
    KebabSlugs = {"s"}
    MaxPushes = 1
    MaxChecks = 1
SYMMETRY Symmetry
INVARIANT EmailsAreProven
INVARIANT ProofIsForShownEmail
INVARIANT OwnReviewsStayListed
INVARIANT DraftsAreOwn
INVARIANT NothingUnseenIsLost
INVARIANT DraftKeepsAnswers
INVARIANT WrittenReadsBack
INVARIANT BoardTellsStatus
INVARIANT HeaderTellsSession
INVARIANT NewestReviewCounts
INVARIANT JudgedByWhatExisted
\* Every page stops at the bounds of its inputs.
CHECK_DEADLOCK FALSE
