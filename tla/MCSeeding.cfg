CONSTANTS
    LowerHost <- MCLowerHost
    Begins <- MCBegins
    Malformed = Malformed
    MaxURLs = 2
    MaxChildren = 3
    IndexNames = {"index.html", "index.htm"}
    Sites <- MCSites
SPECIFICATION Spec
INVARIANTS
    TypeOK
    SitemapsFetchedOnce
    OutcomeDetermined
    PagesAccountedFor
    LocalSeedsMirrorBuild
PROPERTIES
    SeedingEnds
