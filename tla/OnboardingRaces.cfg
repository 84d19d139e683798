CONSTANTS
    q1 = q1
    q2 = q2
    staff = staff
    supply = supply
    scan = scan
    product = product
    export = export
    e1 = e1
    e2 = e2
    none = none
    Requests = {q1, q2}
    Documents = {staff, supply, scan}
    Readable = {staff, supply}
    Domains = {product, export}
    Evidenced <- Facts
    Implied <- Suggests
    Edits = {e1, e2}
    Kinds = {"other", "policy"}
    Uploads <- Ingested
    Statuses = {"confirmed", "proposed", "needs_confirmation", "removed"}
    Updates <- NothingOrDrop
    Roles = {"analyst", "admin"}
    NoEdit = none
    MaxVersion = 2
    MayFail = TRUE
SPECIFICATION OnboardingSpec
INVARIANTS
    OnboardingTypeOK
    CurrentIsBuilt
    ApprovedHasEvidence
PROPERTIES
    ProfileHistoryIsKept
    RemovalDrops
SYMMETRY Symmetry
CHECK_DEADLOCK FALSE
