CONSTANTS
    s1 = s1
    s2 = s2
    s3 = s3
    s4 = s4
    d1 = d1
    d2 = d2
    nca = nca
    saso = saso
    A = A
    B = B
    none = none
    Sources = {nca}
    SourceOf <- OneSource
    Listable <- FirstListsAll
    TextOf <- OwnText
    NoVersion = none
    Scans = {s1, s2}
    Documents = {d1, d2}
    Contents = {A, B}
    MaxUpdates = 1
    MaxCrashes = 1
    MayFail = TRUE
SPECIFICATION ScanSpec
INVARIANTS
    ScanTypeOK
    FinishedScansReportAll
    OutcomesAreGrounded
    ImpactIsGated
    ScansProceed
SYMMETRY Symmetry
CHECK_DEADLOCK FALSE
