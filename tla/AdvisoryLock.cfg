\* Two processes, nested acquisitions, failed statements, lost connections and
\* crashes.
SPECIFICATION FairSpec
CONSTANTS
    NoHandle = NoHandle
    Handle = {h1, h2, h3}
    Remote = {h3}
    Local1 = p1
    Remote1 = p2
    Process = {p1, p2}
    Home <- MCHome
    MaxCount = 2
    MaxFaults = 2
INVARIANTS
    TypeOK
    CountMatchesSession
    MutualExclusion
    NoStrandedLock
PROPERTIES
    ImplementsAbstractLock
    AcquireReturns
