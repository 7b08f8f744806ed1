CONSTANTS
    u1 = u1
    u2 = u2
    Reports <- MCReports
    NoReport = NoReport
    Host <- MCHost
    Sources <- MCSources
    Id <- MCId
    Escape <- MCEscape
    NoFragment = "none"
SPECIFICATION Spec
INVARIANTS
    NewModeIsExact
    OptionsCountTheirIssues
    ErrNamesCause
    UIAgreesWithCheck
PROPERTIES
    NewOnce
