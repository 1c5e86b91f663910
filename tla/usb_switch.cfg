SPECIFICATION FairSpec
CONSTANTS
    Configs <- EveryConfig
    Persistent <- FactoryDefault
    Others <- NoOthers
    Patient = TRUE
INVARIANTS TypeOK SwitchedCorrectly IdsTellFunctions
PROPERTY SwitchCompletes
CHECK_DEADLOCK FALSE
