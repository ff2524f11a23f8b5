SPECIFICATION Spec
CONSTANTS
    CanShortWrite = FALSE
    CanFailSync = FALSE
    CanLosePower = TRUE
    MaxAppends = 4
    MaxLives = 3
INVARIANT ResumeNeverRefused
