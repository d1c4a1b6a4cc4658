SPECIFICATION FairSpec
CONSTANTS
    Keys = {k1}
    Procs = {p1, p2}
    TTLs = {0, 1}
    MaxTime = 3
    MaxVersion = 1
    NoItem = NoItem
    NoKey = NoKey
INVARIANTS
    TypeOK
    StaleExplained
PROPERTIES
    ExpiredPurged
    CleanerStops
    ForeverLostExplained
