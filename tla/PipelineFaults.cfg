CONSTANTS
    p1 = p1
    p2 = p2
    seed = seed
    post = post
    none = none
    N = 3
    Substantive <- FromTwo
    Obligated <- FromTwo
    Assessable <- FromTwo
    Executors = {p1, p2}
    Runs = {seed}
    Seeded = {seed}
    NoRun = none
    MaxCrashes = 1
    MayFail = TRUE
SPECIFICATION PipelineSpec
INVARIANTS
    PipelineTypeOK
    ChainOfEvidence
    CheckpointIsCovered
PROPERTY RowsAreKept
SYMMETRY Symmetry
