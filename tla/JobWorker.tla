------------------------------ MODULE JobWorker ------------------------------
(***************************************************************************)
(* One background worker of internal/worker/worker.go (NewWorker), run by  *)
(* every StremThru process that shares the database, and the rows that its *)
(* JobTracker keeps in the job_log table.                                  *)
(*                                                                         *)
(* A task is what the scheduler runs: the periodic task of a process, or   *)
(* the run-once clone that RunAtStartupAfter adds to it.  The scheduler    *)
(* runs one invocation of a task at a time, but the two tasks of a process *)
(* share the closure, and with it the variable jobId.  ErrFunc and the     *)
(* heartbeats are goroutines of their own, and may still be at work when   *)
(* the next invocation begins.                                             *)
(*                                                                         *)
(* Time is what the code compares: whether the last update of a "started"  *)
(* row is older than the heartbeat timeout ("stale"), and whether the      *)
(* interval has passed since the last job was created (elapsed).  Job ids  *)
(* are numbers in the order in which they are taken.                       *)
(***************************************************************************)
EXTENDS Integers

CONSTANTS
    Process,            \* the processes
    Task,               \* the scheduler's tasks for this worker
    Home,               \* the process of each task
    Startup,            \* the tasks that run once, at startup
    Nobody,             \* the owner of the free advisory lock
    Postgres,           \* TRUE: the lock excludes; FALSE: SQLite's never refuses
    RunExclusive,       \* WorkerConfig.RunExclusive
    MaySkip,            \* WorkerConfig.ShouldSkip may answer TRUE
    MaxJob,             \* bound on the jobs of a behaviour
    MaxFault,           \* bound on failed statements and executors, lost sessions
    MaxCrash            \* bound on crashes

ASSUME HomeAssumption == Home \in [Task -> Process]
ASSUME StartupAssumption == Startup \subseteq Task
ASSUME NobodyAssumption == Nobody \notin Task
ASSUME SwitchAssumption == {Postgres, RunExclusive, MaySkip} \subseteq BOOLEAN
ASSUME BoundAssumption == MaxJob \in Nat /\ MaxFault \in Nat /\ MaxCrash \in Nat

VARIABLES
    pc,         \* what each task's invocation does next
    seen,       \* isAlreadyRunning of the invocation
    err,        \* whether the invocation returns an error
    own,        \* the job id that the invocation took; 0 before that
    found,      \* the timed out job that the invocation is about to mark
    jobId,      \* the variable shared by a process's invocations; 0 is ""
    busy,       \* the worker's running_worker flag in each process
    errSave,    \* the ErrFunc goroutines of each process that are to save
    errClear,   \* those that have saved and are to clear jobId
    beats,      \* the heartbeat goroutines
    lockOwner,  \* owner of the advisory lock "worker", name
    row,        \* job_log: status of each job
    last,       \* job_log: the job inserted last; 0 is none
    elapsed,    \* the interval has passed since that insertion
    taken,      \* job ids taken so far
    completed,  \* jobs whose "done" was saved (history)
    unlocked,   \* invocations whose hold on the lock is not theirs alone (history)
    unseen,     \* executing invocations that the table lost sight of (history)
    faults, crashes

invocation == <<pc, seen, err, own, found>>
process == <<jobId, busy, errSave, errClear>>
table == <<row, last, elapsed>>
history == <<completed, unlocked, unseen>>
budget == <<faults, crashes>>
vars == <<pc, seen, err, own, found, jobId, busy, errSave, errClear, beats, lockOwner,
          row, last, elapsed, taken, completed, unlocked, unseen, faults, crashes>>

Lock == INSTANCE AbstractLock WITH Owner <- Task, owner <- lockOwner

Job == 1 .. MaxJob
\* "stale" is a "started" row whose heartbeat timed out.
Status == {"none", "started", "stale", "done", "failed"}

\* A heartbeat goroutine: its process, the job it was started for, and the job
\* it is writing; 0 while it waits for a tick.
Beat == [host : Process, of : 0 .. MaxJob, arg : 0 .. MaxJob]

\* GetLast: the row inserted last, if there is one.
LastStatus == IF last = 0 THEN "none" ELSE row[last]

Init ==
    /\ pc = [t \in Task |-> "idle"]
    /\ seen = [t \in Task |-> FALSE]
    /\ err = [t \in Task |-> FALSE]
    /\ own = [t \in Task |-> 0]
    /\ found = [t \in Task |-> 0]
    /\ jobId = [p \in Process |-> 0]
    /\ busy = [p \in Process |-> FALSE]
    /\ errSave = [p \in Process |-> 0]
    /\ errClear = [p \in Process |-> 0]
    /\ beats = {}
    /\ lockOwner = Nobody
    /\ row = [j \in Job |-> "none"]
    /\ last = 0
    /\ elapsed = FALSE
    /\ taken = 0
    /\ completed = {}
    /\ unlocked = {}
    /\ unseen = {}
    /\ faults = 0
    /\ crashes = 0

-----------------------------------------------------------------------------
(* Helpers.                                                                *)

MyJob(t) == jobId[Home[t]]
goto(t, l) == pc' = [pc EXCEPT ![t] = l]
fail(t, l) == goto(t, l) /\ err' = [err EXCEPT ![t] = TRUE]
Fault == faults < MaxFault /\ faults' = faults + 1 /\ UNCHANGED crashes

\* From the look at the last job to the row of the next one.
Section == {"check", "mark", "claim", "save"}
\* The advisory lock is taken.
Holding == Section \cup {"release", "unlock"}
Executing(t) == pc[t] \in {"execute", "finish"}
\* From the row of a job to its end, the table should show it as started.
Shown(t) == pc[t] \in {"release", "execute", "finish"}

\* JobTracker.Set: an upsert.  The interval counts from the insertion.
Set(j, s) ==
    /\ row' = [row EXCEPT ![j] = s]
    /\ IF row[j] = "none"
       THEN last' = j /\ elapsed' = FALSE
       ELSE UNCHANGED <<last, elapsed>>

\* A Set that returns an error may have been applied all the same.
SetFails(j, s) == Set(j, s) \/ UNCHANGED table

\* History.  The executions that the table loses sight of when somebody else
\* ends their job j, or inserts a row for j after theirs.
Shadowed(j) ==
    {t \in Task :
        \/ own[t] = j /\ Shown(t)
        \/ /\ row[j] = "none" /\ own[t] # j
           /\ Shown(t) \/ (pc[t] = "save" /\ row[own[t]] # "none")}

lose(S) == unseen' = unseen \cup S

-----------------------------------------------------------------------------
(* An invocation of TaskFunc, step by step.                                *)

\* The scheduler calls TaskFunc, which looks at the shared jobId.
Fire(t) ==
    /\ pc[t] = "idle"
    /\ seen' = [seen EXCEPT ![t] = MyJob(t) # 0]
    /\ goto(t, "enter")
    /\ UNCHANGED <<err, own, found, process, beats, lockOwner, table, taken, history, budget>>

Skip(t) ==
    /\ MaySkip
    /\ pc[t] = "enter"
    /\ goto(t, "return")
    /\ UNCHANGED <<seen, err, own, found, process, beats, lockOwner, table, taken, history, budget>>

\* shouldWait answers FALSE at last, then onStart.
Start(t) ==
    /\ pc[t] = "enter"
    /\ busy' = [busy EXCEPT ![Home[t]] = TRUE]
    /\ goto(t, IF seen[t] THEN "return" ELSE "acquire")
    /\ UNCHANGED <<seen, err, own, found, jobId, errSave, errClear, beats, lockOwner, table, taken,
                   history, budget>>

\* Who gets the lock because its owner's session broke shares the section.
acquired(t) ==
    /\ goto(t, IF RunExclusive THEN "check" ELSE "claim")
    /\ unlocked' = IF \E u \in unlocked : pc[u] \in Section
                   THEN unlocked \cup {t} ELSE unlocked
    /\ UNCHANGED <<seen, err, own, found, process, beats, table, taken, completed, unseen, budget>>

\* Mutant: the answer of TryAcquire is not looked at.
TryAcquireUnchecked(t) ==
    /\ pc[t] = "acquire"
    /\ IF lockOwner = Nobody THEN Lock!Grant(t) ELSE UNCHANGED lockOwner
    /\ acquired(t)

TryAcquire(t) ==
    /\ pc[t] = "acquire"
    /\ IF Postgres THEN Lock!Grant(t) ELSE UNCHANGED lockOwner
    /\ acquired(t)

\* "skipping, another instance is running"
TryAcquireRefused(t) ==
    /\ pc[t] = "acquire"
    /\ lockOwner # Nobody
    /\ goto(t, "return")
    /\ UNCHANGED <<seen, err, own, found, process, beats, lockOwner, table, taken, history, budget>>

\* No transaction for the lock, or its statement fails.
TryAcquireFails(t) ==
    /\ pc[t] = "acquire"
    /\ Fault
    /\ goto(t, "return")
    /\ UNCHANGED <<seen, err, own, found, process, beats, lockOwner, table, taken, history>>

\* The connection of the lock's owner breaks, and with it the session: the
\* lock is free, and the invocation that took it goes on.
LoseLock(t) ==
    /\ lockOwner = t
    /\ Fault
    /\ lockOwner' = Nobody
    /\ unlocked' = IF pc[t] \in Holding THEN unlocked \cup {t} ELSE unlocked
    /\ UNCHANGED <<invocation, process, beats, table, taken, completed, unseen>>

\* Mutant: a started job is running, however old its heartbeat.
CheckSkipsStale(t) ==
    /\ pc[t] = "check"
    /\ \/ LastStatus \in {"started", "stale"}
       \/ LastStatus = "done" /\ ~elapsed
    /\ goto(t, "unlock")
    /\ UNCHANGED <<seen, err, own, found, process, beats, lockOwner, table, taken, history, budget>>

\* The last job is running, or done less than an interval ago.
CheckSkips(t) ==
    /\ pc[t] = "check"
    /\ \/ LastStatus = "started"
       \/ LastStatus = "done" /\ ~elapsed
    /\ goto(t, "unlock")
    /\ UNCHANGED <<seen, err, own, found, process, beats, lockOwner, table, taken, history, budget>>

\* Mutant: the lock covers the check only.
CheckPassesUnlocks(t) ==
    /\ pc[t] = "check"
    /\ LastStatus \in {"none", "failed"} \/ (LastStatus = "done" /\ elapsed)
    /\ lockOwner' = Nobody
    /\ goto(t, "claim")
    /\ UNCHANGED <<seen, err, own, found, process, beats, table, taken, history, budget>>

CheckPasses(t) ==
    /\ pc[t] = "check"
    /\ LastStatus \in {"none", "failed"} \/ (LastStatus = "done" /\ elapsed)
    /\ goto(t, "claim")
    /\ UNCHANGED <<seen, err, own, found, process, beats, lockOwner, table, taken, history, budget>>

\* Mutant: a job that has run for longer than an interval has timed out.
CheckTimedOutByAge(t) ==
    /\ pc[t] = "check"
    /\ LastStatus = "stale" \/ (LastStatus = "started" /\ elapsed)
    /\ found' = [found EXCEPT ![t] = last]
    /\ goto(t, "mark")
    /\ UNCHANGED <<seen, err, own, process, beats, lockOwner, table, taken, history, budget>>

\* "last job heartbeat timed out, restarting"
CheckTimedOut(t) ==
    /\ pc[t] = "check"
    /\ LastStatus = "stale"
    /\ found' = [found EXCEPT ![t] = last]
    /\ goto(t, "mark")
    /\ UNCHANGED <<seen, err, own, process, beats, lockOwner, table, taken, history, budget>>

\* Mutant: a status of its own for timed out jobs, which the check ignores.
MarkUnknown(t) ==
    /\ pc[t] = "mark"
    /\ Set(found[t], "timed out")
    /\ found' = [found EXCEPT ![t] = 0]
    /\ goto(t, "claim")
    /\ UNCHANGED <<seen, err, own, process, beats, lockOwner, taken, history, budget>>

\* The row that was read is set to failed, whatever it says by now.
Mark(t) ==
    /\ pc[t] = "mark"
    /\ Set(found[t], "failed")
    /\ found' = [found EXCEPT ![t] = 0]
    /\ goto(t, "claim")
    /\ UNCHANGED <<seen, err, own, process, beats, lockOwner, taken, history, budget>>

\* Failing to mark it is only logged.
MarkFails(t) ==
    /\ pc[t] = "mark"
    /\ Fault
    /\ SetFails(found[t], "failed")
    /\ found' = [found EXCEPT ![t] = 0]
    /\ goto(t, "claim")
    /\ UNCHANGED <<seen, err, own, process, beats, lockOwner, taken, history>>

GetLastFails(t) ==
    /\ pc[t] = "check"
    /\ Fault
    /\ fail(t, "unlock")
    /\ UNCHANGED <<seen, own, found, process, beats, lockOwner, table, taken, history>>

Claim(t) ==
    /\ pc[t] = "claim"
    /\ taken < MaxJob
    /\ taken' = taken + 1
    /\ own' = [own EXCEPT ![t] = taken + 1]
    /\ jobId' = [jobId EXCEPT ![Home[t]] = taken + 1]
    /\ goto(t, "save")
    /\ UNCHANGED <<seen, err, found, busy, errSave, errClear, beats, lockOwner, table, history, budget>>

\* Saves the job that jobId names by now.  (History: whoever shared the section
\* may insert another one after it.)
SaveStarted(t) ==
    /\ pc[t] = "save"
    /\ MyJob(t) # 0
    /\ Set(MyJob(t), "started")
    /\ lose(unlocked \cap {t})
    /\ goto(t, "release")
    /\ UNCHANGED <<seen, err, own, found, process, beats, lockOwner, taken, completed, unlocked, budget>>

SaveStartedFails(t) ==
    /\ pc[t] = "save"
    /\ MyJob(t) # 0
    /\ Fault
    /\ SetFails(MyJob(t), "started")
    /\ fail(t, "unlock")
    /\ UNCHANGED <<seen, own, found, process, beats, lockOwner, taken, history>>

\* "job id cannot be empty": Set panics, the panic becomes the error.
SavePanics(t) ==
    /\ pc[t] \in {"save", "finish"}
    /\ MyJob(t) = 0
    /\ fail(t, IF pc[t] = "save" THEN "unlock" ELSE "return")
    /\ UNCHANGED <<seen, own, found, process, beats, lockOwner, table, taken, history, budget>>

\* The lock is given back and the heartbeat goroutine starts.
ReleaseLock(t) ==
    /\ pc[t] = "release"
    /\ IF Postgres THEN Lock!Free(t) ELSE UNCHANGED lockOwner
    /\ beats' = beats \cup {[host |-> Home[t], of |-> own[t], arg |-> 0]}
    /\ goto(t, "execute")
    /\ UNCHANGED <<seen, err, own, found, process, table, taken, history, budget>>

\* "failed to release advisory lock": also when the session is gone.
ReleaseLockFails(t) ==
    /\ pc[t] = "release"
    /\ Postgres
    /\ (lockOwner # t /\ UNCHANGED budget) \/ Fault
    /\ goto(t, "unlock")
    /\ UNCHANGED <<seen, err, own, found, process, beats, lockOwner, table, taken, history>>

Execute(t) ==
    /\ pc[t] = "execute"
    /\ goto(t, "finish")
    /\ UNCHANGED <<seen, err, own, found, process, beats, lockOwner, table, taken, history, budget>>

ExecuteFails(t) ==
    /\ pc[t] = "execute"
    /\ Fault
    /\ fail(t, "return")
    /\ UNCHANGED <<seen, own, found, process, beats, lockOwner, table, taken, history>>

SaveDone(t) ==
    /\ pc[t] = "finish"
    /\ MyJob(t) # 0
    /\ Set(MyJob(t), "done")
    /\ lose(Shadowed(MyJob(t)))
    /\ completed' = completed \cup {MyJob(t)}
    /\ goto(t, "return")
    /\ UNCHANGED <<seen, err, own, found, process, beats, lockOwner, taken, unlocked, budget>>

SaveDoneFails(t) ==
    /\ pc[t] = "finish"
    /\ MyJob(t) # 0
    /\ Fault
    /\ SetFails(MyJob(t), "done")
    /\ lose(Shadowed(MyJob(t)))
    /\ fail(t, "return")
    /\ UNCHANGED <<seen, own, found, process, beats, lockOwner, taken, completed, unlocked>>

\* The deferred Release of an invocation that leaves with the lock, or without
\* the session that had it.
DeferredRelease(t) ==
    /\ pc[t] = "unlock"
    /\ lockOwner' = IF lockOwner = t THEN Nobody ELSE lockOwner
    /\ goto(t, "return")
    /\ UNCHANGED <<seen, err, own, found, process, beats, table, taken, history, budget>>

\* When that fails too, the session keeps the lock until it ends.
DeferredReleaseFails(t) ==
    /\ pc[t] = "unlock"
    /\ Postgres
    /\ Fault
    /\ goto(t, "return")
    /\ UNCHANGED <<seen, err, own, found, process, beats, lockOwner, table, taken, history>>

\* The rest of the deferred handler, then onEnd.
returned(t) ==
    /\ busy' = [busy EXCEPT ![Home[t]] = FALSE]
    /\ goto(t, IF t \in Startup THEN "over" ELSE "idle")
    /\ seen' = [seen EXCEPT ![t] = FALSE]
    /\ err' = [err EXCEPT ![t] = FALSE]
    /\ own' = [own EXCEPT ![t] = 0]
    /\ unlocked' = unlocked \ {t}
    /\ unseen' = unseen \ {t}
    /\ UNCHANGED <<found, errClear, beats, lockOwner, table, taken, completed, budget>>

\* An error is passed to ErrFunc, in a goroutine of its own.
Return(t) ==
    /\ pc[t] = "return"
    /\ IF err[t]
       THEN /\ errSave' = [errSave EXCEPT ![Home[t]] = @ + 1]
            /\ UNCHANGED jobId
       ELSE /\ jobId' = IF seen[t] THEN jobId ELSE [jobId EXCEPT ![Home[t]] = 0]
            /\ UNCHANGED errSave
    /\ returned(t)

-----------------------------------------------------------------------------
(* ErrFunc; its panic on an empty id is recovered.                         *)

ErrFuncSave(p) ==
    /\ errSave[p] > 0
    /\ IF jobId[p] # 0
       THEN Set(jobId[p], "failed") /\ lose(Shadowed(jobId[p]))
       ELSE UNCHANGED <<table, unseen>>
    /\ errSave' = [errSave EXCEPT ![p] = @ - 1]
    /\ errClear' = [errClear EXCEPT ![p] = @ + 1]
    /\ UNCHANGED <<invocation, jobId, busy, beats, lockOwner, taken, completed, unlocked, budget>>

ErrFuncSaveFails(p) ==
    /\ errSave[p] > 0
    /\ jobId[p] # 0
    /\ Fault
    /\ SetFails(jobId[p], "failed")
    /\ lose(Shadowed(jobId[p]))
    /\ errSave' = [errSave EXCEPT ![p] = @ - 1]
    /\ errClear' = [errClear EXCEPT ![p] = @ + 1]
    /\ UNCHANGED <<invocation, jobId, busy, beats, lockOwner, taken, completed, unlocked>>

\* Mutant: jobId is left as it is.
ErrFuncKeeps(p) ==
    /\ errClear[p] > 0
    /\ errClear' = [errClear EXCEPT ![p] = @ - 1]
    /\ UNCHANGED <<invocation, jobId, busy, errSave, beats, lockOwner, table, taken, history, budget>>

ErrFuncClear(p) ==
    /\ errClear[p] > 0
    /\ jobId' = [jobId EXCEPT ![p] = 0]
    /\ errClear' = [errClear EXCEPT ![p] = @ - 1]
    /\ UNCHANGED <<invocation, busy, errSave, beats, lockOwner, table, taken, history, budget>>

-----------------------------------------------------------------------------
(* The heartbeat goroutine.  A tick reads jobId, whosever it is by now, and *)
(* the row is written later.  heartbeat_done is closed when the invocation *)
(* returns; a select with a tick pending may still take the tick.          *)

rest(b, arg) == beats' = (beats \ {b}) \cup {[b EXCEPT !.arg = arg]}

BeatTick(b) ==
    /\ b.arg = 0
    /\ jobId[b.host] # 0
    /\ rest(b, jobId[b.host])
    /\ UNCHANGED <<invocation, process, lockOwner, table, taken, history, budget>>

\* A heartbeat keeps its own job in sight; it hides those that are older than
\* a row which it inserts.
Hidden(j) == IF row[j] = "none" THEN Shadowed(j) ELSE {}

BeatWrite(b) ==
    /\ b.arg # 0
    /\ Set(b.arg, "started")
    /\ lose(Hidden(b.arg))
    /\ rest(b, 0)
    /\ UNCHANGED <<invocation, process, lockOwner, taken, completed, unlocked, budget>>

BeatWriteFails(b) ==
    /\ b.arg # 0
    /\ Fault
    /\ SetFails(b.arg, "started")
    /\ lose(Hidden(b.arg))
    /\ rest(b, 0)
    /\ UNCHANGED <<invocation, process, lockOwner, taken, completed, unlocked>>

\* heartbeat_done is closed, or a tick finds jobId empty.
BeatStop(b) ==
    /\ b.arg = 0
    /\ jobId[b.host] = 0 \/ ~\E t \in Task : Executing(t) /\ own[t] = b.of
    /\ beats' = beats \ {b}
    /\ UNCHANGED <<invocation, process, lockOwner, table, taken, history, budget>>

-----------------------------------------------------------------------------
(* The passing of time, and crashes.                                       *)

\* Twice the heartbeat interval passes without a write, because there is no
\* heartbeat, it fails, or it is late.
Lapse(j) ==
    /\ row[j] = "started"
    /\ row' = [row EXCEPT ![j] = "stale"]
    /\ lose({t \in Task : own[t] = j /\ Shown(t)})
    /\ UNCHANGED <<invocation, process, beats, lockOwner, last, elapsed, taken, completed, unlocked,
                   budget>>

Elapse ==
    /\ ~elapsed
    /\ last # 0
    /\ elapsed' = TRUE
    /\ UNCHANGED <<invocation, process, beats, lockOwner, row, last, taken, history, budget>>

\* A process dies and is started again: its sessions end, its memory is lost.
Crash(p) ==
    LET Gone == {t \in Task : Home[t] = p}
        Dead(f, v) == [t \in Task |-> IF t \in Gone THEN v ELSE f[t]]
    IN  /\ crashes < MaxCrash
        /\ crashes' = crashes + 1
        /\ pc' = Dead(pc, "idle")
        /\ seen' = Dead(seen, FALSE)
        /\ err' = Dead(err, FALSE)
        /\ own' = Dead(own, 0)
        /\ found' = Dead(found, 0)
        /\ jobId' = [jobId EXCEPT ![p] = 0]
        /\ busy' = [busy EXCEPT ![p] = FALSE]
        /\ errSave' = [errSave EXCEPT ![p] = 0]
        /\ errClear' = [errClear EXCEPT ![p] = 0]
        /\ beats' = {b \in beats : b.host # p}
        /\ lockOwner' = IF lockOwner \in Gone THEN Nobody ELSE lockOwner
        /\ unlocked' = unlocked \ Gone
        /\ unseen' = unseen \ Gone
        /\ UNCHANGED <<table, taken, completed, faults>>

-----------------------------------------------------------------------------
Invocation(t) ==
    \/ Fire(t) \/ Skip(t) \/ Start(t)
    \/ TryAcquire(t) \/ TryAcquireRefused(t)
    \/ CheckSkips(t) \/ CheckPasses(t) \/ CheckTimedOut(t) \/ Mark(t)
    \/ Claim(t) \/ SaveStarted(t) \/ SavePanics(t)
    \/ ReleaseLock(t) \/ ReleaseLockFails(t)
    \/ Execute(t) \/ SaveDone(t)
    \/ DeferredRelease(t) \/ Return(t)

InvocationFails(t) ==
    \/ TryAcquireFails(t) \/ LoseLock(t) \/ GetLastFails(t) \/ MarkFails(t)
    \/ SaveStartedFails(t) \/ DeferredReleaseFails(t)
    \/ ExecuteFails(t) \/ SaveDoneFails(t)

ErrFunc(p) == ErrFuncSave(p) \/ ErrFuncSaveFails(p) \/ ErrFuncClear(p)

Heartbeat(b) == BeatTick(b) \/ BeatWrite(b) \/ BeatWriteFails(b) \/ BeatStop(b)

Next ==
    \/ \E t \in Task : Invocation(t) \/ InvocationFails(t)
    \/ \E p \in Process : ErrFunc(p) \/ Crash(p)
    \/ \E b \in beats : Heartbeat(b)
    \/ \E j \in Job : Lapse(j)
    \/ Elapse

Spec == Init /\ [][Next]_vars

-----------------------------------------------------------------------------
Pc == {"idle", "enter", "acquire", "check", "mark", "claim", "save", "release",
       "execute", "finish", "unlock", "return", "over"}

TypeOK ==
    /\ pc \in [Task -> Pc]
    /\ seen \in [Task -> BOOLEAN]
    /\ err \in [Task -> BOOLEAN]
    /\ own \in [Task -> 0 .. MaxJob]
    /\ found \in [Task -> 0 .. MaxJob]
    /\ jobId \in [Process -> 0 .. MaxJob]
    /\ busy \in [Process -> BOOLEAN]
    /\ errSave \in [Process -> Nat]
    /\ errClear \in [Process -> Nat]
    /\ beats \subseteq Beat
    /\ lockOwner \in Task \cup {Nobody}
    /\ row \in [Job -> Status]
    /\ last \in 0 .. MaxJob
    /\ elapsed \in BOOLEAN
    /\ taken \in 0 .. MaxJob
    /\ completed \subseteq Job
    /\ unlocked \subseteq Task
    /\ unseen \subseteq Task
    /\ faults \in Nat
    /\ crashes \in Nat

\* From the look at the last job to the row of the next one no other
\* invocation is between the two, which is what the advisory lock is taken
\* for, unless a session broke while its invocation had the lock.
CheckToSaveExclusive ==
    \A t, u \in Task :
        (t # u /\ {pc[t], pc[u]} \subseteq Section) => {t, u} \subseteq unlocked

\* An exclusive worker's executor runs twice at the same time only when the
\* table has lost sight of one of the two: its heartbeats came too late, a lock
\* was lost before a start, or a goroutine of another invocation ended its row
\* or inserted one after it.  There is no other way, through any failures and
\* crashes (worker.go, RunExclusive).
ExecutorExclusive ==
    \A t, u \in Task :
        (t # u /\ Executing(t) /\ Executing(u)) => {t, u} \cap unseen # {}

\* With the same exceptions, the job that an executor is running is the one the
\* table shows last, as started: the next check will find it.
ExecutingIsStarted ==
    \A t \in Task :
        (Executing(t) /\ t \notin unseen) => (own[t] # 0 /\ last = own[t] /\ row[own[t]] = "started")

\* A job is declared timed out only if it was not completed: a job that saved
\* its "done" is not run again before the interval has passed.
TimeoutOnlyUnfinished ==
    [][\A t \in Task, j \in completed :
          pc[t] = "check" /\ pc'[t] = "mark" /\ j = last => elapsed]_vars

\* The worker's running flag, which other workers wait for, is up for as long
\* as its executor runs.
BusyWhileExecuting ==
    \A t \in Task : Executing(t) => busy[Home[t]]

\* jobId is never left behind: while it is set, an invocation of the process
\* is on its way or an ErrFunc is going to clear it.  A jobId left behind
\* would make every later invocation believe that the worker is running.
JobIdHasOwner ==
    \A p \in Process : jobId[p] # 0 =>
        \/ errSave[p] + errClear[p] > 0
        \/ \E t \in Task :
              /\ Home[t] = p
              /\ ~seen[t]
              /\ pc[t] \in {"save", "release", "execute", "finish", "unlock", "return"}

-----------------------------------------------------------------------------
(* Liveness.  The scheduler fires each task again and again, goroutines    *)
(* that can run do run, executors return, and the time of a row passes     *)
(* that no heartbeat can renew.                                            *)
KeptAlive(j) ==
    \/ \E t \in Task : pc[t] = "release" /\ MyJob(t) = j
    \/ \E b \in beats : b.arg = j \/ jobId[b.host] = j

HeartbeatOf(j) == \E b \in beats : b.of = j /\ Heartbeat(b)

FairSpec ==
    /\ Spec
    /\ \A t \in Task : WF_vars(Invocation(t))
    /\ \A p \in Process : WF_vars(ErrFunc(p))
    /\ \A j \in Job : WF_vars(HeartbeatOf(j)) /\ WF_vars(~KeptAlive(j) /\ Lapse(j))

\* The last job does not stay "started" for ever: its executor ends it or, when
\* its process died or could not write, another invocation finds the heartbeat
\* timed out.  Not so when a lock that could not be given back keeps everybody
\* out, or when the bounded model has no id for that other invocation.
StartedIsResolved ==
    \A j \in Job :
        (last = j /\ row[j] = "started") ~>
            \/ row[j] \in {"done", "failed"}
            \/ last # j
            \/ \E t \in Task : lockOwner = t /\ pc[t] = "idle"
            \/ taken = MaxJob /\ \E t \in Task : pc[t] = "claim"
=============================================================================
