\* A series, two actions of the user or errors, both links in both directions.
SPECIFICATION FairSpec
CONSTANTS
    ByteSize = 2
    Undefined = Undefined
    NoField = NoField
    A = A
    B = B
    s = s
    sp = sp
    e1 = e1
    Movie = {}
    Series = {s}
    Releases <- MCReleases
    Special = {sp}
    AToB = TRUE
    BToA = TRUE
    ToTrakt = TRUE
    ToStremio = TRUE
    MaxEvent = 2
    MaxFault = 1
INVARIANTS
    TypeOK
    NothingInvented
    SyncedUpTo
PROPERTIES
    OnlyUnseenIsLost
    Converges
