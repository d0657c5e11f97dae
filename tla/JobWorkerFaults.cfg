\* One process with a periodic and a startup task; statements and executors that
\* fail, and a session that breaks while it has the lock.
SPECIFICATION Spec
CONSTANTS
    Nobody = Nobody
    Here = here
    There = there
    Process = {here, there}
    Task = {t1, t2}
    Local = {t1, t2}
    Startup = {t2}
    Home <- MCHome
    Postgres = TRUE
    RunExclusive = TRUE
    MaySkip = TRUE
    MaxJob = 2
    MaxFault = 2
    MaxCrash = 0
INVARIANTS
    CheckToSaveExclusive
    ExecutorExclusive
    ExecutingIsStarted
    JobIdHasOwner
CHECK_DEADLOCK FALSE
