SPECIFICATION Spec
SYMMETRY Symmetry
CONSTANTS
    Features <- AllFeatures
    NoAp = NoAp
    Aps = {a1, a2}
    Stations = {s1}
    Countries = {"US"}
    Numbers <- EndNumbers
    StatisticsReplies <- SomeStatistics
    LinkReplies <- SomeLinks
    MaxEvents = 2
INVARIANTS TypeOK DriverAgrees AnnouncedState MessageTellsCommand StatisticsFaithful
    LinkDetectFaithful NoStrayConcurrency
PROPERTY NoKnownLinkDropped
