CONSTANTS
    p1 = p1
    p2 = p2
    seed = seed
    post = post
    none = none
    N = 3
    Substantive <- FromTwo
    Obligated <- FromTwo
    Assessable <- FromTwo
    Executors = {p1}
    Runs = {seed, post}
    Seeded = {seed}
    NoRun = none
    MaxCrashes = 2
    MayFail = TRUE
SPECIFICATION FairPipelineSpec
INVARIANTS
    PhasesAgree
    CompletedWithoutTasks
PROPERTIES
    ImplementsLifecycle
    CheckpointedRunsResume
    RequestsEnd
