CONSTANTS
    u1 = u1
    u2 = u2
    s1 = s1
    t1 = t1
    t2 = t2
    Tab <- MCTab
    Origin = {"o"}
    Served <- MCServed
    Skipped <- MCSkipped
    Host <- MCHost
    Sources <- MCSources
    Term <- MCTerm
    TextMatches <- MCTextMatches
    Controls <- MCControls
    Clicked <- MCClicked
    Default <- MCDefault
    None = None
    NoReport = NoReport
    Id <- MCId
    Escape <- MCEscape
    NoFragment = "none"
    MaxDecisions = 2
SPECIFICATION Spec
INVARIANTS
    RowsAreCurrent
    OnlyAcknowledgedHidden
    DecisionsKept
