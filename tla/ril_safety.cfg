SPECIFICATION Spec
CONSTANTS
    c1 = c1
    c2 = c2
    Calls = {c1, c2}
    NoResult = NoResult
    mInstanceId = 0
    RilEnable <- EnableValues
    E73Device = FALSE
    ModemCodes <- EveryCode
    MaxUnsol = 1
    MaxDrops = 1
SYMMETRY CallSymmetry
INVARIANTS TypeOK AnsweredOnce NoLostCall
CHECK_DEADLOCK FALSE
