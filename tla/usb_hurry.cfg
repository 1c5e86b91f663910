SPECIFICATION Spec
CONSTANTS
    Configs <- HurriedConfigs
    Persistent <- HurriedDefault
    Others <- PortToUart
    Patient = FALSE
INVARIANT StateSettles
PROPERTY NoLiveReconfiguration
