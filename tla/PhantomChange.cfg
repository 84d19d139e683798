CONSTANTS
    s1 = s1
    s2 = s2
    s3 = s3
    s4 = s4
    d1 = d1
    d2 = d2
    nca = nca
    saso = saso
    A = A
    B = B
    none = none
    Sources = {nca}
    SourceOf <- OneSource
    Listable <- FirstListsAll
    TextOf <- OwnText
    NoVersion = none
    Scans = {s1, s2, s3, s4}
    Documents = {d1}
    Contents = {A, B}
    MaxUpdates = 2
    MaxCrashes = 0
    MayFail = FALSE
SPECIFICATION PatientSpec
INVARIANT ChangeReportedOnce
CHECK_DEADLOCK FALSE
