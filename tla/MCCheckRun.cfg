CONSTANTS
    f1 = f1
    f2 = f2
    f3 = f3
    f4 = f4
    File <- MCFile
    Value <- MCValue
    ConfigName <- MCConfigName
    LeadsTo <- MCLeadsTo
    Setups <- MCSetups
    Follows <- MCFollows
    MaxRuns = 2
    None = None
    Absent = Absent
SPECIFICATION Spec
INVARIANTS
    FlagsAnywhere
    PolicyDecides
    VerdictMeansWritten
    ComparisonHasItsReport
PROPERTIES
    BaselineUntouched
    SummariesAccumulate
