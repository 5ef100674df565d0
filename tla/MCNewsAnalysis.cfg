SPECIFICATION FairSpec
CONSTANTS
    n1 = n1
    n2 = n2
    Item <- MCItem
    Published <- MCPublished
    BatchSize = 2
    MaxWait = 2
    Window = 2
    MaxEvents = 3
    MaxHalf = 3
    MaxFaults = 1
    MaxCrashes = 1
INVARIANTS
    TypeOK
    InBatchOwned
    OneReviewADay
PROPERTIES
    AnalysedOnce
    RetriesEnd
