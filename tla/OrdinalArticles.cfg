CONSTANTS
    MaxEvidence = 2
    NoAnswer = NoAnswer
    Comparisons <- OrdinalComparisons
    Assessments = {}
    Requirements = {}
    HijriMonths = {}
    WrittenDates = {}
    Timelines = {}
    Files = {}
    TargetSlugs = {}
    MaxRetries = 1
    Indexes = {}
    Lists = {}
    Discoveries = {}
    Profiles = {}
SPECIFICATION CalculationSpec
INVARIANTS
    PairedClausesAreOneArticle
CHECK_DEADLOCK FALSE
