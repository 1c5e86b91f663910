SPECIFICATION FairSpec
CONSTANTS
    c1 = c1
    c2 = c2
    Calls = {c1}
    NoResult = NoResult
    mInstanceId = 0
    RilEnable <- EnableValues
    E73Device = FALSE
    ModemCodes <- FewCodes
    MaxUnsol = 2
    MaxDrops = 1
INVARIANT GprsInOrder
PROPERTIES PendingAnswered IncomingCallHandled GprsSetUp
CHECK_DEADLOCK FALSE
