# A verification project for StremThru

StremThru is a companion service for Stremio: a proxy to debrid stores, a set of
Stremio addons and the background jobs that keep their data. Several instances
may share one PostgreSQL database; a single instance may use SQLite. This
directory holds TLA+ models of the parts of it in which something happens
concurrently and may go wrong, the TLC runs that check them on small instances
and proofs, checked by TLAPS, of what holds for every instance.

The models are translated from the source. Each module says at its head what it
stands for; `PROJECT.json` ("map") gives the lines of every definition.

## Running it

    tlc -config JobWorker.cfg MCJobWorker.tla       # one of the runs below
    tlapm JobWorkerProofs.tla                       # proofs of one component

## The system

| Component | State | Operations | Talks to |
|---|---|---|---|
| Advisory locks (`internal/db/advisory_lock.go`) | a transaction and a count per handle; the server's lock table; a flag and a map in memory on SQLite | `NewAdvisoryLock`, `Acquire`, `TryAcquire`, `Release`, `ReleaseAll` | used by workers, token source, migrations |
| Background workers (`internal/worker/worker.go`, `common.go`, `internal/job_log`) | `jobId` per worker and process, `running_worker` flags, rows of `job_log` | the task, its heartbeat, its error handler; the waiting hooks of `InitWorkers` | lock "worker", database, worker queues |
| Worker queues (`internal/worker/worker_queue`) | a `sync.Map` from key to item and due time | `Queue`, `IsEmpty`, `Process`, `ProcessGroup` | request handlers produce, workers consume |
| OAuth token source (`internal/oauth/token_source.go`) | the `oauth_token` row; token sources cached by `GetAPIClient` | `Token`, `save` | lock "oauth:token", provider, database |
| OAuth providers and login (`internal/oauth/*.go`) | the same row | code exchange, conversions | provider |
| Stremio-Stremio and Stremio-Trakt sync (`internal/sync`, `internal/worker/sync_stremio_*.go`, `stremio/watched_bitfield`) | link rows with sync state; the watched fields of library items | two-way merges of watched state, reset from the dashboard | worker, Stremio, Trakt and Cinemeta APIs; lists of videos are cached (`internal/stremio/cinemeta`) |
| Torznab indexer sync (`internal/torznab/indexer`) | `torznab_indexer_syncinfo` rows | queue, claim, mark synced | worker; switched off at this commit |
| Magnet cache, buddy, peer (`internal/magnet_cache`, `buddy`, `peer`) | a row per store and torrent; a halt time per peer | check, track, halt after errors | stores, other instances |
| Link generation and playback (`internal/stremio/torz`, `wrap`, `shared`) | link cache, single-flight groups | generate a link once | stores |
| Caches (`internal/cache`) | LRU or Redis entries | `CachedValue`, refresh in the background | everything |
| Linked userdata reloader (`internal/worker/linked_userdata_addon_reloader.go`) | userdata in the key-value table | reload changed addons | worker queue |
| Datasets (`internal/util/dataset.go`, `tsv_dataset.go`, `dataset_writer.go`) | files named by the hour, title tables | download, extract, diff, write in batches, purge | worker, third parties |
| List and catalogue syncs | list tables | fetch, upsert | worker, third parties |
| Stores, addons, endpoints, dashboard, utilities | none of their own, or plain rows | request handling and conversion | HTTP |

The hard behaviours are instances that act on the same rows at the same time,
locks held across statements and HTTP requests, goroutines that outlive the
function that started them, crashes with a row left "started" or a file half
written, requests that fail after they took effect, whole objects that are read,
changed and written back while others write them, and facts that are handed from
instance to instance. `PROJECT.json` ("hazards") lists each of them at its line.

What makes each correct:

* *Locks*: one owner at a time, for each session as many holds as the handle
  counts, nothing left held by a connection that went back to the pool.
* *Workers*: an exclusive worker's executor runs once at a time in the whole
  cluster, as long as the table shows what runs; a crash does not stop the worker
  for ever; a completed job is not repeated within its interval; flags and ids of
  one process are neither left behind nor taken down too early; workers that must
  not run together do not.
* *Queues*: an item is not lost, not repeated, and dealt with in the end.
* *Token source*: two instances never use the same refresh token, and the row is
  always good for going on after a restart.
* *Syncs*: a sync marks nothing that was not watched, takes away nothing that it
  has seen, does not call a state synced that is not, and all sides converge.
* *Datasets*: the database covers the last file that was applied, no row is
  missed for good but after a failure, none goes back, and runs get past
  whatever a failed one left on disk.
* *Magnet cache*: a torrent is not taken for cached, or for uncached, longer than
  the stale times account for.
* *Link generation* (not modelled): one link per stream and user at a time;
  *caches* (not modelled): no value older than its lifetime is served as fresh.

## Modules

| Module | Models | Used by |
|---|---|---|
| `AbstractLock` | what a lock promises: an owner, granted only when there is none and freed only by itself | refined by what the handles of `AdvisoryLock` count, the lock of `JobWorker` and `OAuthToken` |
| `AdvisoryLock`, `MCAdvisoryLock` | `postgresAdvisoryLock`: handles, their transactions, nested counts, sessions, lost connections, crashes | |
| `SqliteAdvisoryLock` | `sqliteAdvisoryLock`, down to the two reads of its flag and the unsynchronised `Load`/`Store` | |
| `JobWorker`, `MCJobWorker` | `NewWorker`: one worker, all its tasks in all processes, heartbeats, `ErrFunc`, the `job_log` rows, lost locks, crashes | |
| `WorkerGate` | `InitWorkers`: the flags and the hooks `ShouldWait`, `OnStart`, `OnEnd` of the workers of a process, with both tasks of each | |
| `WorkerQueue`, `MCWorkerQueue` | `WorkerQueue`: producers, debounce, both ways of processing | |
| `OAuthToken` | `dbTokenSource.Token` in several clients, a provider with rotating refresh tokens, failures at each step | |
| `WatchedBitField` | `BitField8`, `WatchedBitField` and `WatchedField`: bits over a list of videos, kept with an anchor | `LibrarySync` |
| `LibrarySync`, `MCLibrarySync` | both sync workers side by side, the users of the accounts, Trakt's history, Cinemeta's lists of videos and their cache | |
| `Dataset`, `MCDataset` | a TSV dataset: names of files, download, extraction, diff, batches, purge, failures and crashes at each step | |
| `MagnetCache` | `CheckMagnet`, `TrackMagnet`, `BulkTrackMagnet` and the row of a torrent along a chain of peers | |
| `AdvisoryLockProofs`, `JobWorkerProofs`, `WorkerGateProofs`, `WorkerQueueProofs`, `OAuthTokenProofs`, `LibrarySyncProofs`, `DatasetProofs`, `MagnetCacheProofs` | theorems and proofs | |

`JobWorker` and `OAuthToken` instantiate `AbstractLock` instead of the full lock:
`AdvisoryLock` is shown to refine it, so what holds with the abstract one holds
with the PostgreSQL one as far as ownership among live sessions goes; that a session
may break is `LoseLock` in both. The MC modules only give a
value to a constant that is a function (`Home`, `GroupOf`, `Releases`, `Release`).

### How state and actions correspond to the code

*AdvisoryLock.* `tx[h]` is the `Executor` field and the state of the transaction
behind it, `count[h]` the field, `held[h]` the lock table of the server, which the
code cannot see. A method is one action, or one per outcome; `Acquire` is two,
because it blocks in between. `StatementFails` is the error return of each.

*JobWorker.* `pc[t]` follows `TaskFunc` from statement to statement of the
database: `enter` (skip, wait and start hooks), `acquire`, `check` (the last job),
`mark` (a timed out one as failed), `claim` (a new id), `save`, `release`,
`execute`, `finish`, `unlock` (the deferred `Release`), `return` (the deferred
handler and `onEnd`). `seen` is `isAlreadyRunning`, read at the very beginning; the
scheduler may fire a task again while an `ErrFunc` (`errSave`, `errClear`) or a
heartbeat (`beats`) of its last invocation is still at work. `jobId` and `busy`
belong to a process, because the startup task is a clone that shares the closure.
A heartbeat reads `jobId` in one step and writes the row in another, at any time
later. Statements that fail may have been applied (`SetFails`). `LoseLock` breaks
the session of the lock wherever its invocation is: the next one gets the lock, the
first goes on, and its `Release` fails. Time is reduced to what is compared: `Lapse`
makes a "started" row stale, at any moment, since heartbeats may come late;
`Elapse` lets the interval pass. `Postgres`, `RunExclusive` and `MaySkip` describe
deployments. Three variables are history: `completed`; `unlocked`, the invocations
that lost the lock in the section from look to row, or came into it while such a
one was there; and `unseen`, the executing ones whose job the table does not show
as started and last any more (`Shadowed`, `Lapse`).

*WorkerGate.* The hooks of the workers that `InitWorkers` enables at this commit;
those under `if false` never set their flags. A task is a worker's periodic or its
startup task, which share the flag. The wait loop is `Check`, `onStart` and `onEnd`
are `Start` and `Return`, with the gap between the check and the flag. `hidden` are
the invocations whose flag the other task of their worker has lowered (what
`JobWorkerFlag` shows), `missed` the pairs of one that has looked and one that it
could not see.

*WorkerQueue.* `Range` visits keys one by one, and a producer may swap an item at
any moment, also while `f` works on the older one; items of a key are numbered.

*OAuthToken.* Tokens are numbered in the order in which the provider issues them.
`refresher` is the token inside the wrapped token source, which is not replaced
when the row is read again; `old` are the clients made before the last save. The
provider honours only the newest refresh token, once. That an access token lives
longer than a cached client (one hour) is `Expire`'s guard. `LoseLock` breaks the
session of the lock at any moment of a call: the server frees the lock, its holder
goes on, and `Release` finds nothing to free. `broken` remembers that until the
token expires again, because the two calls that overlap then may collide, and no
later ones may.

*WatchedBitField.* A bit field is the set of its bits that are 1 with the number of
its bytes. `ToField` picks the anchor as the code does; `FromField` shifts by the
distance that the anchor has moved. `NewBitField8` gives the length in bytes where
the rest of the code counts bits, and the model does the same: it makes the anchor
of a new field an earlier video than the last one watched, which reads the same.

*LibrarySync.* `lib[a]` is the library of an account, item by item, `plays` Trakt's
history; each is written as a whole by the update actions, from what the worker
fetched earlier (`ssLib`, `stLib`, `stPlays`). Each request is an action, except
that two fetches without a write in between are one: what others do between them
commutes with one or the other. Times are three eras: not after `LastSyncedAt`,
after it, and after the start of the sync that is running; that is all the code
compares. A movie is an item with one video. Cinemeta has one list of videos of an
item after another (`Release`), in any order; `FetchMeta` answers with any of them
from the oldest that a cache may still have (`cached`, `CacheExpires`) to the
newest, and each update reads fields by the lists it is given (`Listings`). What
the user sees, and what their client writes, goes by the newest list. `exposed`
collects the items to which something happens that the workers, by design, do not
repair: an update that takes away what was there, or with an old modification
time over a newer item; an update or a push by a list that reads the worker's
copies otherwise than the newest; a list that moves marks or lacks a video that was
played; a lookup that is passed over; a play entered with an earlier date, or of an
episode that Cinemeta does not list yet.

*Dataset.* A file is its header, its rows and whether it is complete; its name is
the hour. What a stop half way leaves is any member of `Partial`: nothing, or the
rows up to some key, the last of them perhaps `Cut`. (A row cut before its last
column is skipped by the reader.) `archived` is the gzip variant. `prev` and
`curr` follow from the names on disk in `Prepare`, as in the code: nothing else is
remembered of an earlier run. A dataset with `NoDiff` has no `prev`.

*MagnetCache.* `row[i]` is the row of one torrent at instance `i`, whose peer is
`i + 1`; a row that is missing is as good as a stale one. A request climbs the
chain (`Ask`) and comes back (`Return`); `tasks` are the goroutines that write a
row and tell the peer, in any order or not at all. The hour is the unit of time:
requests and goroutines end in the hour in which they began.

## Runs

| Run | Checks | Bounds |
|---|---|---|
| `AdvisoryLock` | `TypeOK`, `CountMatchesSession`, `MutualExclusion`, `NoStrandedLock`, refinement of `AbstractLock`, `AcquireReturns` | 3 handles, 2 processes, nesting 2, 2 faults |
| `JobWorker` | `TypeOK`, `CheckToSaveExclusive`, `ExecutorExclusive`, `ExecutingIsStarted`, `StartedIsResolved` | 2 processes with a task each, 2 jobs, 1 crash |
| `JobWorkerFaults` | `CheckToSaveExclusive`, `ExecutorExclusive`, `ExecutingIsStarted`, `JobIdHasOwner` | 1 process with a startup and a periodic task, 2 jobs, 2 faults, lost locks among them |
| `WorkerGate` | `TypeOK`, `RunsApart`, `GateOpens` | 3 workers, 5 tasks |
| `WorkerQueue` | `TypeOK`, `NoItemLost`, `NoItemRepeated`, `EventuallyHandled` | 3 keys, 2 groups, 2 items per key, 2 failures |
| `OAuthToken` | `TypeOK`, `NoRefreshRejected`, `RowIsCurrent`, `CallReturns` | 3 clients, 3 tokens, 2 faults, lost locks among them |
| `LibrarySync` | `TypeOK`, `NothingInvented`, `SyncedUpTo`, `OnlyUnseenIsLost`, `Converges` | a series with 2 lists of videos, 2 actions of users or errors, at most 1 error |
| `Dataset` | `TypeOK`, `Covered`, `LossNeedsFailure`, `OnlyForward`, `Settles` | 3 keys, 3 versions, 3 hours (a file is stale after one), batches of 1, 2 faults, 1 purge |
| `MagnetCache` | `TypeOK`, `CachedWasSo`, `UncachedWasSo` | 2 instances, 2 requests an hour, stale after 2 hours and 1 |
| `SqliteLockExclusion` | `MutualExclusion`, violated | 2 callers |
| `JobWorkerFlag` | `BusyWhileExecuting`, violated | 1 process with a startup and a periodic task, 2 jobs |
| `JobWorkerLateBeat` | `TimeoutOnlyUnfinished`, violated | 2 processes with a task each, 2 jobs |

Why the bounds are enough: a conflict in these protocols needs two actors, and a
third shows what happens to a bystander (handles, clients) or comes as the second
invocation of one of the two (jobs). Two jobs make one that runs and one that
should not, and a job's row may be written by its own invocation, a heartbeat, an
`ErrFunc` and the other's check; two faults let the handling of a fault fail as
well; one crash at any step leaves each kind of remains. Two processes with 2
faults and a crash were checked once besides (17.8 million states). Of the gate,
`sync-imdb` and the two workers that wait for it have both tasks or one, with and
without `ShouldSkip`; with `manami-anime-database`, the only worker that waits for
two, `RunsApart` was checked once (4.2 million states). Three tokens let a stale
client meet a second rotation. Two actions of users suffice for each conflict of
the two syncs: one is what a worker has fetched, the other what it overwrites; a
series whose list grows at the front exercises the anchor in both directions, with
bytes of two bits. A movie beside the series (3.8 million states), a special that
comes in the middle (2.1 million) and a list that is put in another order again
(2.1 million) were checked once with the same properties. Three hours make a base,
a current file and the next one; three versions one that changes a row, adds one
and drops one; batches of one row let a run stop between any two rows. With two
instances a fact is as old as one row when it is written into the next; a third
instance repeats the step (checked once with shorter stale times: 5.3 million
states). The proofs lift the safety properties to all bounds.

Runs that let the system stop (jobs, items or tokens used up) say
`CHECK_DEADLOCK FALSE`; `AdvisoryLock` and the SQLite lock never stop.

### Fairness

* `AdvisoryLock`: PostgreSQL queues the waiters of a lock (strong fairness of
  `AcquireReturn`); each user of the lock defers its `Release` and none nests
  without end (`ReleaseHeld`, `LastRelease`). Faults are never fair. A session whose
  unlock failed keeps the lock for as long as its process lives, and
  `AcquireReturns` says so.
* `JobWorker`: the scheduler fires a task once per interval, goroutines proceed,
  heartbeats among them, executors return, and the row of a job that no goroutine
  can renew any more gets stale. Failures and crashes are not fair, and neither
  are `Elapse` and the `Lapse` of a job whose heartbeat is only late.
* `WorkerGate`: a waiting worker looks once a minute, while the one it waits for
  runs once a day: it looks at a moment in which the flag is down (strong
  fairness of `Check`). `manami-anime-database` waits for two flags, of which one
  or the other might always be up; strong fairness of its look would then
  not suffice, and the run has workers that wait for one.
* `WorkerQueue`: the worker runs once per interval, `f` returns, debounce times
  pass; neither producers nor errors are fair.
* `OAuthToken`: statements and requests return, waiters are served in turn.
* `LibrarySync`: both workers run again and again and get on. It is stated as
  "each worker takes infinitely many steps": a worker can always take one, so this
  is weak fairness of its actions, and TLC evaluates it much faster. An entry
  of the cache expires. Users, Cinemeta and errors are not fair.
* `Dataset`: the worker calls `Process` again and again and each step of a run ends
  (`WF_vars(Process)`); time, versions, failures and purges are not fair.

## What the violated runs show

These are disagreements between the code and what its changelog says was achieved.

* `SqliteLockExclusion`: `lock()` sets the flag and then returns it. It never
  answers that somebody else has the lock.
* `JobWorkerFlag`: `onEnd` is deferred before `isAlreadyRunning` is looked at. An
  invocation that leaves because the worker is running lowers the worker's flag.
* `JobWorkerLateBeat`: closing `heartbeat_done` does not wait for the goroutine. A
  heartbeat in flight writes "started" over "done"; two heartbeats' time later the
  completed job counts as dead and runs again.

Two more schedules are steps of the passing runs, which except what follows from
them (`unseen`): of two tasks of a process that both looked at `jobId` before either
had a job, the one that the lock refuses clears the other's (worker.go:195), whose
heartbeat ends and whose last `Set` panics (`SavePanics`); and a "started" row that
could not be saved is inserted later, as failed, by `ErrFunc`, after a job that another
process has begun meanwhile.

## What is proved

Every theorem is for all values of the constants that satisfy the named
assumptions of the module (finite bounds of any size, any sets of processes).

* `AdvisoryLockProofs`: types, `CountMatchesSession`, `NoStrandedLock`,
  `MutualExclusion` and the refinement of `AbstractLock`. The invariant adds to
  those that at most one handle is held at the server. The owner that the
  refinement maps to is the handle that counts the lock, as the Go code does, and
  the proof goes from there to the server by `CountMatchesSession`: a handle begins
  to count only when no other one does, a release of an inner level is a stutter,
  the last one and the end of a session free the lock.
* `JobWorkerProofs`: `TypeCorrect` and `JobIdIsOwned` under all switches: whoever
  sets `jobId` is still on its way, or an `ErrFunc` is, and an invocation that has
  seen the id of another turns back. `CheckToSaveAlone`, given `Postgres`: an
  invocation between the look at the last job and the row of its own owns the lock
  or is in `unlocked` (`LockCovers`). Given `RunExclusive` too, `ExecutorIsShown` and
  `ExecutorRunsAlone`, for any number of processes and tasks, failures, lost locks,
  late heartbeats and crashes. Neither is inductive. Their invariant says that job
  ids in use have been taken (`IdsTaken`), that each belongs to one invocation
  (`OwnJob`), that a job found timed out has a row (`FoundRow`), that an invocation
  that has the lock finds its own id in `jobId` when it saves, or none (`SavesOwn`), that the job of an invocation that is not `unseen` is the last one
  and "started" from its row to its end (`Sight`), and that while one
  invocation has decided to start a job, no other one is shown as running
  (`Decision`): the look at the last job is still right when the row is saved.
* `WorkerGateProofs`: types and `RunsApart`, for any set of enabled workers with
  both tasks of each. The invariant extends `RunsApart` to the stretch between the
  check and the run, and says that the flag is up for as long as an
  invocation that is not `hidden` is between start and end (`FlagUp`).
* `WorkerQueueProofs`: types, `NoItemLost`, `NoItemRepeated`. The invariant relates
  the map, the worker's batch and the history of what was handled.
* `OAuthTokenProofs`: types, `NoRefreshRejected`, `RowIsCurrent`, for any number of
  faults. `RowIsCurrent` needs only that what is about to be saved is the newest
  token: the provider takes care that one of two overlapping calls fails. For
  `NoRefreshRejected` the invariant says in addition that the lock is held through
  the whole call unless it broke and, until a token goes unsaved, that every
  client made since the last save holds the current refresh token and that a
  refresh is only asked for when it is due.
* `LibrarySyncProofs`: types, `NothingInvented`, `OnlyUnseenIsLost`, `SyncedUpTo` and
  `FieldKeepsMarks`, for any items, lists of videos and numbers of actions and errors,
  and whichever lists the cache returns. `ReleasesAssumption`: a list names a video
  once, and two items share no video (its id begins with its item's).
  * The lemmas `WriteField`, `WriteExactly`, `ReadShifts` and `ReadField` say what
    writing a bit field over a list gives, and that reading it over another list of
    which the first is a stretch shifts its bits and shows the same videos, no more
    and no fewer. `FieldKeepsMarks` is their sum.
  * `NothingInvented`, for items whose list has grown at its ends: the invariant
    (`Honest`) says of every copy of such an item, also of those that a worker has
    fetched, that its bits and its anchor, moved by one distance, fall on videos
    watched and on the anchor in the newest list (`Truthful`). It holds by whichever list the copy
    is read, a cached one that lacks the anchor included.
  * `OnlyUnseenIsLost` is an action property: each of the two updates writes what the
    worker has fetched merged with what it adds, read by one list, so that by this
    list what is lost was not in the former (`KeptByAList`).
  * `SyncedUpTo` is not inductive. `SInv` says in each phase of a sync with Trakt, of
    each item that is not `exposed`, how far it has come (`Going`): an item that was
    left out of the fetch has nothing to send (`Skipped`); what was there when the
    sync began and is not on both sides is among what was fetched, and kinds that
    are done are in order (`Underway`); between syncs, what is not after
    `LastSyncedAt` is on both sides (`Since`); and the library still shows what the
    worker has fetched of it, so that its update takes nothing away (`Shared`).
* `DatasetProofs`: types, `Covered`, `LossNeedsFailure` and `OnlyForward`, for any keys,
  versions, lifetime and batch size and any number of failures, crashes and purges.
  `Covered` is claimed as long as no run has diffed against a file that was never
  applied (`sound`), which `LossNeedsFailure` says needs a failure.
  The invariant says which files there are in each phase of a run, that keys are
  unique in each, that the database has the rows that the last applied file and
  its base agree on, and which rows of the current file are written so far.
  `OnlyForward` assumes that a row's value does not come back to an older one
  (`VersionAssumption`) and needs an invariant of its own, `Forward`: rows in files,
  archives and the database come from published versions; an archive that a run may
  still open is newer than every file, and the last file is stale when that can
  happen, so that no older rows come after newer ones; and whatever the next run
  may write is ahead of the database. That the merge of two sorted files yields the
  set difference is the module's translation and not proved.
* `MagnetCacheProofs`: types, `CachedWasSo` and `UncachedWasSo`, for a chain of any
  length, any stale times and requests. A torrent that was listed with files but not
  cached counts for `CachedWasSo`, since its row says cached. The invariant ties each row, goroutine and
  answer to the moment in which what it says was so.

Every invariant and action property of the passing runs is stated by a theorem, and
the constants of each of these runs satisfy the theorem's assumptions.

Only model-checked: all liveness (`AcquireReturns`, `StartedIsResolved`, `GateOpens`,
`EventuallyHandled`, `CallReturns`, `Converges`, `Settles`), which needs fairness and
ENABLED, and with them is out of the proof system's reach. The three violated
properties are shown by TLC alone.

## What is not modelled

* In modelled components: hashing of lock names to key pairs (a collision makes
  two locks one, which only delays); the connection pool; expiry, deletion and
  purging of `job_log` rows; ids that collide within a second; `IdQueue`, which
  only workers that are switched off use; that waiting for a flag is not
  transitive, so that with an IMDB sync of more than half a minute
  `manami-anime-database` runs before `sync-animeapi` at startup; a new login, which
  writes the token's row outside the lock; a provider that revokes all tokens when
  a used one is presented.
* Exceptions in the properties. What the code does not guard against is a step of
  the model and an exception of a property, named by a history variable, so that the
  property says how far the harm goes: an invocation whose lock broke or whose row
  the table lost (`unlocked`, `unseen`), a flag lowered by another task (`hidden`,
  `missed`), an item queued again during its processing (`overtaken`), a token that
  went unsaved or a lock lost in the round (`wasted`, `broken`), an item that the
  syncs do not repair (`exposed`), a base that was never applied (`sound`), an
  unreadable file, a torrent only listed with files. `PROJECT.json` lists these
  hazards without a property. That access tokens live longer than a cached client is
  a guard (`OAuthToken!Expire`).
* Syncs: accounts and their tokens, `LastWatched` and `VideoId`, compression and text
  form of bit fields; Stremio clients with an older list of videos than Cinemeta's.
* Datasets: XML and JSON readers, which follow the same protocol; xz archives, which
  differ in what a failed extraction leaves; several instances, which have files of
  their own and write to one database.
* Magnet cache: at this commit `peer.go` calls `/v0/store/...` while the routes are
  registered under `/resolver/...` (`endpoint/store.go:427`), so that the next
  instance of a chain is one of another build; the files of torrents, the queue in which a peer's torrents wait
  when it is lazy, and buddy, whose server is not in this repository. A check may
  answer "cached" without files, since a row is touched before its files are
  written and files are read before or after the row; src/README.md:592 promises
  the list of files with the status.
* Other components: see `PROJECT.json`. Store clients, addons, endpoints, parsers,
  torrent and title tables and the dashboard are request handling, conversion and
  plain upserts, without a protocol between actors: most of the repository's lines
  are of this kind, and a model of them would only repeat them.

## Plan

Done: locks, workers, gates, queues, token source, both syncs with the bit field,
TSV datasets, the magnet cache with peers. Left, in this order:

1. `LinkGeneration`: playback, link cache, single flight, store failures; the
   callers that waited for a failed flight write the error video to the link cache
   one after the other, perhaps over a link that a later request has made.
2. `OAuthToken`: login beside a refresh.
3. `CachedValue`: a value refreshed in the background.
4. `UserdataReloader`: composed with `WorkerQueue`.
5. `TorznabSync`, list syncs.
6. Proofs: the state functions on which the liveness properties rest (what of a
   sync is left decreases, a worker that runs is never stuck) as invariants; the
   queue and the token source as refinements of specifications that say what their
   callers see.
