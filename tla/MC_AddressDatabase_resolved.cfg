SPECIFICATION Spec
CONSTANTS
    a = a
    b = b
    c = c
    Empty = Empty
    Addresses <- MCAddresses
    Lists <- MCLists
    MaxRuns = 3
INVARIANT ResolvedMeansLoaded
