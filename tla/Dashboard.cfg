SPECIFICATION Spec
CONSTANTS
    MaxToken = 3
    MaxOutside = 1
    MaxCalls = 1
    MaxWrites = 2
    MaxRows = 3
    PageSizes = {1, 2}
    FirstSize = 1
    Ids = {"first", "second"}
    MaxUnderWay = 2
    Names <- FewNames
    Streets <- OneStreet
    Words = {"x"}
    Shares = {0, 3333, 7000, 10000, 10001}
    Horizon = 2
INVARIANT TypeOK
INVARIANT QuietTokenUnspent
INVARIANT RetriedAtMostOnce
INVARIANT NoLinkDenied
INVARIANT NoRefusedOffer
INVARIANT NoRefusedRead
INVARIANT OwnWriteSeen
INVARIANT PageTurnedHere
INVARIANT RangeTruthful
INVARIANT DrawerTruthful
INVARIANT SavedForWhomTyped
INVARIANT UneditedSaveKeeps
PROPERTY CallsEnd
PROPERTY GuardsSettle
PROPERTY PolledCatchesUp
CHECK_DEADLOCK FALSE
