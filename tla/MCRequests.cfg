CONSTANTS
    c1 = c1
    c2 = c2
    Call <- MCCall
    Settings <- MCSettings
    Horizon = 2
SPECIFICATION Spec
INVARIANTS
    RateKept
    ResultJustified
PROPERTIES
    EveryCallReturns
    CancelEndsCalls
