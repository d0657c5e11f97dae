\* Three versions, three generations of files, two failures or crashes, a purge.
SPECIFICATION FairSpec
CONSTANTS
    Key = {1, 2, 3}
    Release <- MCRelease
    MaxVersion = 3
    BatchSize = 1
    None = None
    Lifetime = 1
    MaxHour = 3
    MaxFault = 2
    MaxPurge = 1
INVARIANTS
    TypeOK
    Covered
    LossNeedsFailure
PROPERTIES
    OnlyForward
    Settles
