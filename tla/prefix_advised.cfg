SPECIFICATION Spec
CONSTANTS
    Models = {m1, m2}
    NoShape = NoShape
    Advisor = TRUE
    Onboarding = TRUE
    PersistFails = FALSE
    Overlap = FALSE
    MaxSeq = 3
    MaxHist = 3
    MaxTools = 1
    MaxEvents = 3
    MaxLives = 2
SYMMETRY ModelSymmetry
INVARIANT TypeOK
INVARIANT GuardMissesOnlyTakenNumbers
INVARIANT EveryRegionExplained
INVARIANT CarriedStateIsTrue
