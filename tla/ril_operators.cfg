SPECIFICATION Spec
CONSTANTS
    Scans <- SmallScans
    Answers <- SmallAnswers
    Texts <- SmallTexts
    Table <- SmallTable
    LacLengths = {3, 4, 8}
    Capabilities = {3, 4}
    MaxLacs = 2
INVARIANTS TypeOK ScanFaithful LacUsedOnce OperatorNamed
PROPERTY LacHarmless
