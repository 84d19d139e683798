CONSTANTS
    q1 = q1
    q2 = q2
    q3 = q3
    alice = alice
    bob = bob
    run1 = run1
    none = none
    N = 1
    Substantive <- Articles
    Obligated <- Articles
    Assessable <- Articles
    Runs = {run1}
    MayFail = FALSE
    Requests = {q1, q2}
    Reviewers = {alice, bob}
    MayAbort = {}
    MaxRevision = 3
    NoReview = none
SPECIFICATION ReviewSpec
INVARIANT OneReviewPerRevision
CHECK_DEADLOCK FALSE
