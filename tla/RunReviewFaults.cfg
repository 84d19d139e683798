CONSTANTS
    p1 = p1
    p2 = p2
    q1 = q1
    q2 = q2
    alice = alice
    seed = seed
    post = post
    none = none
    N = 2
    Substantive <- Articles
    Obligated <- Articles
    Assessable <- Articles
    Executors = {p1}
    Runs = {seed}
    Seeded = {seed}
    NoRun = none
    MaxCrashes = 1
    MayFail = TRUE
    Requests = {q1}
    Reviewers = {alice}
    MayAbort = {"select", "write", "list", "load", "save", "mark"}
    MaxRevision = 3
    NoReview = none
SPECIFICATION RunReviewSpec
INVARIANTS
    HumanGate
    ReviewTrail
PROPERTY RowsAreKept
