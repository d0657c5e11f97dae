\* A heartbeat that is still being written when the job ends.
SPECIFICATION Spec
CONSTANTS
    Nobody = Nobody
    Here = here
    There = there
    Process = {here, there}
    Task = {t1, t2}
    Local = {t1}
    Startup = {}
    Home <- MCHome
    Postgres = TRUE
    RunExclusive = TRUE
    MaySkip = FALSE
    MaxJob = 2
    MaxFault = 0
    MaxCrash = 0
PROPERTY TimeoutOnlyUnfinished
CHECK_DEADLOCK FALSE
