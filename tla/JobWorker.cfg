\* Two processes with a periodic task each, one of which may crash.
SPECIFICATION FairSpec
CONSTANTS
    Nobody = Nobody
    Here = here
    There = there
    Process = {here, there}
    Task = {t1, t2}
    Local = {t1}
    Startup = {}
    Home <- MCHome
    Postgres = TRUE
    RunExclusive = TRUE
    MaySkip = FALSE
    MaxJob = 2
    MaxFault = 0
    MaxCrash = 1
INVARIANTS
    TypeOK
    CheckToSaveExclusive
    ExecutorExclusive
    ExecutingIsStarted
PROPERTY StartedIsResolved
CHECK_DEADLOCK FALSE
