SPECIFICATION Spec
CONSTANTS
    t1 = t1
    t2 = t2
    NoThread = NoThread
    Threads = {t1, t2}
    States <- FewStates
    Names <- OuterLeds
    MaxDevs = 1
    FailuresOccur = FALSE
    CrashesOccur = TRUE
INVARIANT PresentlyShowing
