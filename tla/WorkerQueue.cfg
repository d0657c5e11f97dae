\* Three keys in two groups, two items per key, two failures.
SPECIFICATION FairSpec
CONSTANTS
    g1 = g1
    g2 = g2
    Key = {k1, k2, k3}
    Shared = {k1, k2}
    Group = {g1, g2}
    GroupOf <- MCGroupOf
    MaxItem = 2
    MaxFailure = 2
INVARIANTS
    TypeOK
    NoItemLost
    NoItemRepeated
PROPERTY EventuallyHandled
\* Nothing is left to do once every item within the bound was dealt with.
CHECK_DEADLOCK FALSE
