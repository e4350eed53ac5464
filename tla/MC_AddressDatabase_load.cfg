SPECIFICATION FairSpec
CONSTANTS
    a = a
    b = b
    c = c
    Empty = Empty
    Addresses <- MCAddresses
    Lists <- MCLists
    MaxRuns = 3
INVARIANTS
    TypeOK
    NoLineLost
    ExitMeansLoaded
PROPERTY EachRunEnds
