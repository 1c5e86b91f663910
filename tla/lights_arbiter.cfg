SPECIFICATION FairSpec
CONSTANTS
    t1 = t1
    t2 = t2
    NoThread = NoThread
    Threads = {t1, t2}
    States <- ThreeStates
    Names <- LedNames
    MaxDevs = 1
    FailuresOccur = FALSE
    CrashesOccur = FALSE
INVARIANT CurIsHighestLit
PROPERTIES ImplementsArbiter OpenReturns
