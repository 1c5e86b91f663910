SPECIFICATION Spec
CONSTANTS
    c1 = c1
    c2 = c2
    Calls = {c1, c2}
    NoResult = NoResult
    mInstanceId = 0
    RilEnable <- EnableValues
    E73Device = FALSE
    ModemCodes <- FewCodes
    MaxUnsol = 0
    MaxDrops = 0
PROPERTY ValidResponseDelivered
CHECK_DEADLOCK FALSE
