SPECIFICATION Spec
CONSTANTS
    Models = {m1, m2}
    NoShape = NoShape
    Advisor = TRUE
    Onboarding = FALSE
    PersistFails = FALSE
    Overlap = FALSE
    MaxSeq = 3
    MaxHist = 2
    MaxTools = 1
    MaxEvents = 2
    MaxLives = 1
SYMMETRY ModelSymmetry
INVARIANT GuardFindsExplanation
