\* A chain of two, two requests an hour.
SPECIFICATION Spec
CONSTANTS
    N = 2
    Req = {r1, r2}
    CachedStale = 2
    UncachedStale = 1
INVARIANTS
    TypeOK
    CachedWasSo
    UncachedWasSo
