\* Three clients, three tokens, two faults.
SPECIFICATION FairSpec
CONSTANTS
    Nobody = Nobody
    Client = {c1, c2, c3}
    MaxToken = 3
    MaxFault = 2
INVARIANTS
    TypeOK
    NoRefreshRejected
    RowIsCurrent
PROPERTY CallReturns
\* A valid token needs no step, and its expiry is bounded.
CHECK_DEADLOCK FALSE
