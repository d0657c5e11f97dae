\* The two workers that wait for sync-imdb: one has both tasks, as sync-imdb
\* itself, the other the periodic one and a shouldSkip.
SPECIFICATION FairSpec
CONSTANTS
    Enabled = {"crawl-store", "sync-imdb", "sync-animeapi"}
INVARIANTS
    TypeOK
    RunsApart
PROPERTY GateOpens
CHECK_DEADLOCK FALSE
