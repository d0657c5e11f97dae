\* What the SQLite lock does not do.
SPECIFICATION Spec
CONSTANTS
    NoObject = NoObject
    Caller = {c1, c2}
INVARIANT MutualExclusion
