SPECIFICATION Spec
CONSTANTS
    Models = {m1, m2}
    NoShape = NoShape
    Advisor = FALSE
    Onboarding = FALSE
    PersistFails = FALSE
    Overlap = TRUE
    MaxSeq = 3
    MaxHist = 2
    MaxTools = 1
    MaxEvents = 2
    MaxLives = 1
SYMMETRY ModelSymmetry
INVARIANT NoCompactionDuringTask
