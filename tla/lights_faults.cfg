SPECIFICATION Spec
CONSTANTS
    t1 = t1
    t2 = t2
    NoThread = NoThread
    Threads = {t1, t2}
    States <- PlainStates
    Names <- LedAndBacklight
    MaxDevs = 1
    FailuresOccur = TRUE
    CrashesOccur = TRUE
SYMMETRY ThreadSymmetry
INVARIANTS TypeOK LockHeldInside PanelFollowsTable LockNotReinitialised AckedBrightness
