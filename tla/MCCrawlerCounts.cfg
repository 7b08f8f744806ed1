CONSTANTS
    e = e
    a = a
    b = b
    c = c
    d = d
    x = x
    af = af
    w1 = w1
    w2 = w2
    Link <- MCLink
    FetchOf <- MCFetchOf
    Entry = e
    InScope <- MCInScope
    Worker <- MCWorker
    MaxPages = 4
    Worlds <- MCWorlds
    Sitemap = Sitemap
    LocalRoot = LocalRoot
    Idle = Idle
    Off = Off
SPECIFICATION Spec
SYMMETRY Workers
INVARIANT CountsOccurrencesOnPage
