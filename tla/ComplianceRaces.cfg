CONSTANTS
    q1 = q1
    q2 = q2
    m1 = m1
    k1 = k1
    d1 = d1
    d2 = d2
    r1 = r1
    r2 = r2
    c1 = c1
    c2 = c2
    ch1 = ch1
    Keys = {k1}
    Requests = {q1, q2}
    Matchers = {m1}
    Documents = {d1, d2}
    Regulations = {r1, r2}
    Clauses = {c1, c2}
    RegulationOf <- Shared
    Verdict <- Verdicts
    Exact <- Exactly
    Place <- Order
    Evidence <- Texts
    Ratios = {c1}
    Changes = {ch1}
    Citation <- Cited
    Heavy = {ch1}
    Shortlist = 1
    Decisions = {"non_compliant", "confirm"}
    HasCosts = TRUE
    MaxFeedback = 1
    MayFail = TRUE
SPECIFICATION ComplianceSpec
INVARIANTS
    ComplianceTypeOK
    ReviewAddsUp
    ReviewCoversVersion
    StatusIsGrounded
    MatchingsKeepEvidence
SYMMETRY Symmetry
CHECK_DEADLOCK FALSE
