CONSTANTS
    MaxEvidence = 2
    NoAnswer = NoAnswer
    Comparisons <- SmallComparisons
    Assessments <- SmallAssessments
    Requirements <- SmallRequirements
    HijriMonths <- SmallHijriMonths
    WrittenDates <- SmallWrittenDates
    Timelines <- SmallTimelines
    Files <- SmallFiles
    TargetSlugs = {"ecc", "dcc"}
    MaxRetries = 1
    Indexes <- SmallIndexes
    Lists <- SmallLists
    Discoveries <- SmallDiscoveries
    Profiles <- SmallProfiles
SPECIFICATION CalculationSpec
INVARIANTS
    ComparisonIsExact
    TasksAreWarranted
    ComplianceIsShown
    HeadcountsMeetRatio
    CalendarIsRight
    ForceIsAnInterval
    ExtractionIsFaithful
    ListingsFollowPages
    FactsMustBeAffirmed
    ScopeIsCumulative
CHECK_DEADLOCK FALSE
