\* A startup and a periodic task in one process: the running flag.
SPECIFICATION Spec
CONSTANTS
    Nobody = Nobody
    Here = here
    There = there
    Process = {here, there}
    Task = {t1, t2}
    Local = {t1, t2}
    Startup = {t2}
    Home <- MCHome
    Postgres = TRUE
    RunExclusive = TRUE
    MaySkip = FALSE
    MaxJob = 2
    MaxFault = 0
    MaxCrash = 0
INVARIANT BusyWhileExecuting
CHECK_DEADLOCK FALSE
