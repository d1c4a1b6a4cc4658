SPECIFICATION FairSpec
CONSTANTS
    Keys = {ip1}
    Max = 2
    Window = 2
    MaxTime = 7
    NoBucket = NoBucket
INVARIANTS
    TypeOK
    TwiceMaxPerWindow
    DeniedOnlyWhenFull
PROPERTY OverBucketsRemoved
