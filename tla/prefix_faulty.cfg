SPECIFICATION Spec
CONSTANTS
    Models = {m1, m2}
    NoShape = NoShape
    Advisor = TRUE
    Onboarding = TRUE
    PersistFails = TRUE
    Overlap = FALSE
    MaxSeq = 2
    MaxHist = 2
    MaxTools = 1
    MaxEvents = 1
    MaxLives = 2
SYMMETRY ModelSymmetry
INVARIANT PrefixChangeAttributed
INVARIANT EventsNeverAhead
