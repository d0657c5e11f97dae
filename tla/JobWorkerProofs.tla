-------------------------- MODULE JobWorkerProofs --------------------------
(***************************************************************************)
(* Proofs about JobWorker, for any processes and tasks, any failures, lost *)
(* sessions and crashes: types, what becomes of jobId, how far the         *)
(* advisory lock reaches, and what RunExclusive comes to.                  *)
(***************************************************************************)
EXTENDS JobWorker, TLAPS

\* What JobTracker.Set does keeps the types of the table.
LEMMA SetType ==
    ASSUME TypeOK, NEW j \in 0 .. MaxJob, NEW s \in Status, SetFails(j, s)
    PROVE  row' \in [Job -> Status] /\ last' \in 0 .. MaxJob /\ elapsed' \in BOOLEAN
<1>1. CASE UNCHANGED table
  BY <1>1 DEF table, TypeOK
<1>2. CASE Set(j, s)
  <2>1. row' \in [Job -> Status]
    BY <1>2 DEF Set, TypeOK
  <2>2. (last' = j /\ elapsed' = FALSE) \/ (last' = last /\ elapsed' = elapsed)
    BY <1>2 DEF Set
  <2>3. last' \in 0 .. MaxJob /\ elapsed' \in BOOLEAN
    BY <2>2 DEF TypeOK
  <2>4. QED BY <2>1, <2>3
<1>3. QED BY <1>1, <1>2 DEF SetFails

\* A job id that is set is a job.
LEMMA MyJobType ==
    ASSUME TypeOK, NEW t \in Task
    PROVE  MyJob(t) \in 0 .. MaxJob /\ (MyJob(t) # 0 => MyJob(t) \in Job)
BY HomeAssumption, BoundAssumption DEF TypeOK, MyJob, Job

\* The statuses that the code writes.
LEMMA StatusType == {"started", "done", "failed", "stale"} \subseteq Status
BY DEF Status

\* Types: the steps of an invocation that go well.
LEMMA InvocationType ==
    ASSUME TypeOK, NEW t \in Task, Invocation(t)
    PROVE  TypeOK'
<1> USE HomeAssumption, BoundAssumption DEF goto, process, table, history, budget
<1>1. CASE Fire(t) \/ Skip(t) \/ Start(t)
  BY <1>1 DEF Fire, Skip, Start, TypeOK, Pc
<1>2. CASE TryAcquire(t) \/ TryAcquireRefused(t)
  BY <1>2 DEF TryAcquire, TryAcquireRefused, acquired, Lock!Grant, TypeOK, Pc
<1>3. CASE CheckSkips(t) \/ CheckPasses(t) \/ CheckTimedOut(t)
  BY <1>3 DEF CheckSkips, CheckPasses, CheckTimedOut, TypeOK, Pc
<1>4. CASE Mark(t)
  <2>1. found[t] \in 0 .. MaxJob /\ SetFails(found[t], "failed")
    BY <1>4 DEF Mark, TypeOK, SetFails
  <2>2. row' \in [Job -> Status] /\ last' \in 0 .. MaxJob /\ elapsed' \in BOOLEAN
    BY <2>1, SetType, StatusType
  <2>3. QED BY <1>4, <2>2 DEF Mark, TypeOK, Pc
<1>5. CASE Claim(t)
  <2>1. taken + 1 \in 0 .. MaxJob
    BY <1>5 DEF Claim, TypeOK
  <2>2. QED BY <1>5, <2>1 DEF Claim, TypeOK, Pc
<1>6. CASE SaveStarted(t)
  <2>1. MyJob(t) \in 0 .. MaxJob /\ SetFails(MyJob(t), "started")
    BY <1>6, MyJobType DEF SaveStarted, SetFails
  <2>2. row' \in [Job -> Status] /\ last' \in 0 .. MaxJob /\ elapsed' \in BOOLEAN
    BY <2>1, SetType, StatusType
  <2>3. QED BY <1>6, <2>2 DEF SaveStarted, lose, TypeOK, Pc
<1>7. CASE SavePanics(t)
  BY <1>7 DEF SavePanics, fail, TypeOK, Pc
<1>8. CASE ReleaseLock(t)
  <2>1. pc' \in [Task -> Pc]
    BY <1>8 DEF ReleaseLock, TypeOK, Pc
  <2>2. beats' \subseteq Beat
    <3>1. [host |-> Home[t], of |-> own[t], arg |-> 0] \in Beat
      BY DEF TypeOK, Beat
    <3>2. QED BY <1>8, <3>1 DEF ReleaseLock, TypeOK
  <2>3. lockOwner' \in Task \cup {Nobody}
    BY <1>8 DEF ReleaseLock, Lock!Free, TypeOK
  <2>4. UNCHANGED <<seen, err, own, found, jobId, busy, errSave, errClear, row, last, elapsed,
                    taken, completed, unlocked, unseen, faults, crashes>>
    BY <1>8 DEF ReleaseLock
  <2>5. QED BY <2>1, <2>2, <2>3, <2>4 DEF TypeOK
<1>9. CASE ReleaseLockFails(t) \/ DeferredRelease(t)
  BY <1>9 DEF ReleaseLockFails, DeferredRelease, Fault, TypeOK, Pc
<1>10. CASE Execute(t)
  BY <1>10 DEF Execute, TypeOK, Pc
<1>11. CASE SaveDone(t)
  <2>1. MyJob(t) \in Job /\ SetFails(MyJob(t), "done")
    BY <1>11, MyJobType DEF SaveDone, SetFails
  <2>2. row' \in [Job -> Status] /\ last' \in 0 .. MaxJob /\ elapsed' \in BOOLEAN
    BY <2>1, SetType, StatusType, MyJobType
  <2>3. Shadowed(MyJob(t)) \subseteq Task
    BY DEF Shadowed
  <2>4. QED BY <1>11, <2>1, <2>2, <2>3 DEF SaveDone, lose, TypeOK, Pc
<1>12. CASE Return(t)
  <2>1. Home[t] \in Process /\ errSave[Home[t]] + 1 \in Nat
    BY DEF TypeOK
  <2>2. errSave' \in [Process -> Nat] /\ jobId' \in [Process -> 0 .. MaxJob]
    BY <1>12, <2>1 DEF Return, TypeOK
  <2>3. pc' \in [Task -> Pc]
    BY <1>12 DEF Return, returned, TypeOK, Pc
  <2>4. /\ busy' \in [Process -> BOOLEAN] /\ seen' \in [Task -> BOOLEAN]
        /\ err' \in [Task -> BOOLEAN] /\ own' \in [Task -> 0 .. MaxJob]
        /\ unlocked' \subseteq Task /\ unseen' \subseteq Task
    BY <1>12 DEF Return, returned, TypeOK
  <2>5. UNCHANGED <<found, errClear, beats, lockOwner, row, last, elapsed, taken, completed,
                    faults, crashes>>
    BY <1>12 DEF Return, returned
  <2>6. QED BY <2>2, <2>3, <2>4, <2>5 DEF TypeOK
<1>13. QED
  BY <1>1, <1>2, <1>3, <1>4, <1>5, <1>6, <1>7, <1>8, <1>9, <1>10, <1>11, <1>12 DEF Invocation

\* Types: the steps that fail.
LEMMA InvocationFailsType ==
    ASSUME TypeOK, NEW t \in Task, InvocationFails(t)
    PROVE  TypeOK'
<1> USE HomeAssumption, BoundAssumption DEF goto, fail, Fault, process, table, history, budget
<1>1. CASE TryAcquireFails(t) \/ DeferredReleaseFails(t)
  BY <1>1 DEF TryAcquireFails, DeferredReleaseFails, TypeOK, Pc
<1>2. CASE LoseLock(t)
  BY <1>2 DEF LoseLock, invocation, TypeOK
<1>3. CASE GetLastFails(t)
  BY <1>3 DEF GetLastFails, TypeOK, Pc
<1>8. CASE ExecuteFails(t)
  BY <1>8 DEF ExecuteFails, TypeOK, Pc
<1>4. CASE MarkFails(t)
  <2>1. found[t] \in 0 .. MaxJob /\ SetFails(found[t], "failed")
    BY <1>4 DEF MarkFails, TypeOK
  <2>2. row' \in [Job -> Status] /\ last' \in 0 .. MaxJob /\ elapsed' \in BOOLEAN
    BY <2>1, SetType, StatusType
  <2>3. QED BY <1>4, <2>2 DEF MarkFails, TypeOK, Pc
<1>5. CASE SaveStartedFails(t)
  <2>1. row' \in [Job -> Status] /\ last' \in 0 .. MaxJob /\ elapsed' \in BOOLEAN
    BY <1>5, MyJobType, SetType, StatusType DEF SaveStartedFails
  <2>2. QED BY <1>5, <2>1 DEF SaveStartedFails, TypeOK, Pc
<1>6. CASE SaveDoneFails(t)
  <2>1. row' \in [Job -> Status] /\ last' \in 0 .. MaxJob /\ elapsed' \in BOOLEAN
    BY <1>6, MyJobType, SetType, StatusType DEF SaveDoneFails
  <2>2. Shadowed(MyJob(t)) \subseteq Task
    BY DEF Shadowed
  <2>3. QED BY <1>6, <2>1, <2>2 DEF SaveDoneFails, lose, TypeOK, Pc
<1>7. QED BY <1>1, <1>2, <1>3, <1>4, <1>5, <1>6, <1>8 DEF InvocationFails

\* Types: the error handler.
LEMMA ErrFuncType ==
    ASSUME TypeOK, NEW p \in Process, ErrFunc(p)
    PROVE  TypeOK'
<1> USE BoundAssumption DEF Fault, invocation, table, history, budget
<1>1. CASE ErrFuncSave(p) \/ ErrFuncSaveFails(p)
  <2>1. jobId[p] \in 0 .. MaxJob
    BY DEF TypeOK
  <2>2. \/ UNCHANGED <<table, unseen>>
        \/ SetFails(jobId[p], "failed") /\ lose(Shadowed(jobId[p]))
    BY <1>1 DEF ErrFuncSave, ErrFuncSaveFails, SetFails
  <2>3. row' \in [Job -> Status] /\ last' \in 0 .. MaxJob /\ elapsed' \in BOOLEAN
    BY <2>1, <2>2, SetType, StatusType DEF TypeOK
  <2>4. unseen' \subseteq Task
    BY <2>2 DEF lose, Shadowed, TypeOK
  <2>5. /\ errSave[p] \in Nat /\ errSave[p] > 0 /\ errClear[p] \in Nat
        /\ errSave' = [errSave EXCEPT ![p] = @ - 1]
        /\ errClear' = [errClear EXCEPT ![p] = @ + 1]
    BY <1>1 DEF ErrFuncSave, ErrFuncSaveFails, TypeOK
  <2>6. errSave' \in [Process -> Nat] /\ errClear' \in [Process -> Nat]
    BY <2>5 DEF TypeOK
  <2>7. /\ UNCHANGED <<pc, seen, err, own, found, jobId, busy, beats, lockOwner, taken, completed,
                       unlocked, crashes>>
        /\ faults' \in Nat
    BY <1>1 DEF ErrFuncSave, ErrFuncSaveFails, TypeOK
  <2>8. QED BY <2>3, <2>4, <2>6, <2>7 DEF TypeOK
<1>2. CASE ErrFuncClear(p)
  <2>1. errClear[p] \in Nat /\ errClear[p] > 0
    BY <1>2 DEF ErrFuncClear, TypeOK
  <2>2. QED BY <1>2, <2>1 DEF ErrFuncClear, TypeOK
<1>3. QED BY <1>1, <1>2 DEF ErrFunc

\* Types: the heartbeat goroutine.
LEMMA HeartbeatType ==
    ASSUME TypeOK, NEW b \in beats, Heartbeat(b)
    PROVE  TypeOK'
<1> USE BoundAssumption DEF Fault, invocation, process, table, history, budget
<1>1. b \in Beat
  BY DEF TypeOK
<1>2. ASSUME NEW a \in 0 .. MaxJob, rest(b, a) PROVE beats' \subseteq Beat
  <2>1. [b EXCEPT !.arg = a] \in Beat
    BY <1>1 DEF Beat
  <2>2. QED BY <1>2, <2>1 DEF rest, TypeOK
<1>3. CASE BeatTick(b)
  <2>1. jobId[b.host] \in 0 .. MaxJob
    BY <1>1 DEF TypeOK, Beat
  <2>2. beats' \subseteq Beat
    BY <1>2, <1>3, <2>1 DEF BeatTick
  <2>3. QED BY <1>3, <2>2 DEF BeatTick, TypeOK
<1>4. CASE BeatWrite(b) \/ BeatWriteFails(b)
  <2>1. b.arg \in 0 .. MaxJob /\ SetFails(b.arg, "started")
    BY <1>1, <1>4 DEF BeatWrite, BeatWriteFails, SetFails, Beat
  <2>2. row' \in [Job -> Status] /\ last' \in 0 .. MaxJob /\ elapsed' \in BOOLEAN
    BY <2>1, SetType, StatusType
  <2>3. beats' \subseteq Beat
    BY <1>2, <1>4 DEF BeatWrite, BeatWriteFails
  <2>4. unseen' \subseteq Task
    BY <1>4 DEF BeatWrite, BeatWriteFails, lose, Hidden, Shadowed, TypeOK
  <2>5. /\ UNCHANGED <<pc, seen, err, own, found, jobId, busy, errSave, errClear, lockOwner, taken,
                       completed, unlocked, crashes>>
        /\ faults' \in Nat
    BY <1>4 DEF BeatWrite, BeatWriteFails, TypeOK
  <2>6. QED BY <2>2, <2>3, <2>4, <2>5 DEF TypeOK
<1>5. CASE BeatStop(b)
  BY <1>5 DEF BeatStop, TypeOK
<1>6. QED BY <1>3, <1>4, <1>5 DEF Heartbeat

\* Types: every step.
LEMMA TypeNext == TypeOK /\ [Next]_vars => TypeOK'
<1> SUFFICES ASSUME TypeOK, [Next]_vars PROVE TypeOK'
  OBVIOUS
<1>1. ASSUME NEW t \in Task, Invocation(t) \/ InvocationFails(t)
      PROVE  TypeOK'
  BY <1>1, InvocationType, InvocationFailsType
<1>2. ASSUME NEW p \in Process, ErrFunc(p) PROVE TypeOK'
  BY <1>2, ErrFuncType
<1>3. ASSUME NEW b \in beats, Heartbeat(b) PROVE TypeOK'
  BY <1>3, HeartbeatType
<1>4. ASSUME NEW j \in Job, Lapse(j) PROVE TypeOK'
  BY <1>4, StatusType DEF Lapse, lose, TypeOK, invocation, process, budget
<1>5. CASE Elapse
  BY <1>5 DEF Elapse, TypeOK, invocation, process, history, budget
<1>6. ASSUME NEW p \in Process, Crash(p) PROVE TypeOK'
  <2>1. pc' \in [Task -> Pc]
    BY <1>6 DEF Crash, TypeOK, Pc
  <2>2. seen' \in [Task -> BOOLEAN] /\ err' \in [Task -> BOOLEAN]
    BY <1>6 DEF Crash, TypeOK
  <2>3. own' \in [Task -> 0 .. MaxJob] /\ found' \in [Task -> 0 .. MaxJob]
    BY <1>6, BoundAssumption DEF Crash, TypeOK
  <2>4. jobId' \in [Process -> 0 .. MaxJob] /\ busy' \in [Process -> BOOLEAN]
    BY <1>6, BoundAssumption DEF Crash, TypeOK
  <2>5. errSave' \in [Process -> Nat] /\ errClear' \in [Process -> Nat]
    BY <1>6 DEF Crash, TypeOK
  <2>6. /\ lockOwner' \in Task \cup {Nobody} /\ beats' \subseteq Beat
        /\ unlocked' \subseteq Task /\ unseen' \subseteq Task
    BY <1>6 DEF Crash, TypeOK
  <2>7. UNCHANGED <<row, last, elapsed, taken, completed, faults>> /\ crashes' \in Nat
    BY <1>6 DEF Crash, TypeOK, table
  <2>8. QED BY <2>1, <2>2, <2>3, <2>4, <2>5, <2>6, <2>7 DEF TypeOK
<1>7. CASE UNCHANGED vars
  BY <1>7 DEF vars, TypeOK
<1>8. QED BY <1>1, <1>2, <1>3, <1>4, <1>5, <1>6, <1>7 DEF Next

\* Types: the initial state.
LEMMA TypeInit == Init => TypeOK
<1> SUFFICES ASSUME Init PROVE TypeOK
  OBVIOUS
<1>1. pc \in [Task -> Pc]
  BY DEF Init, Pc
<1>2. /\ seen \in [Task -> BOOLEAN]
      /\ err \in [Task -> BOOLEAN]
      /\ busy \in [Process -> BOOLEAN]
  BY DEF Init
<1>3. /\ jobId \in [Process -> 0 .. MaxJob]
      /\ own \in [Task -> 0 .. MaxJob]
      /\ found \in [Task -> 0 .. MaxJob]
  BY BoundAssumption DEF Init
<1>4. errSave \in [Process -> Nat] /\ errClear \in [Process -> Nat]
  BY DEF Init
<1>5. row \in [Job -> Status]
  BY DEF Init, Status
<1>6. /\ lockOwner \in Task \cup {Nobody}
      /\ last \in 0 .. MaxJob
      /\ taken \in 0 .. MaxJob
      /\ faults \in Nat
      /\ crashes \in Nat
  BY BoundAssumption DEF Init
<1>7. elapsed \in BOOLEAN /\ beats \subseteq Beat /\ completed \subseteq Job
  BY DEF Init
<1>8. unlocked \subseteq Task /\ unseen \subseteq Task
  BY DEF Init
<1>9. QED BY <1>1, <1>2, <1>3, <1>4, <1>5, <1>6, <1>7, <1>8 DEF TypeOK

\* Every variable keeps its type, in every configuration of the workers.
THEOREM TypeCorrect == Spec => []TypeOK
BY TypeInit, TypeNext, PTL DEF Spec

-----------------------------------------------------------------------------
(* The steps that leave the table and everybody's jobs alone.              *)

\* The steps of an invocation that write no row, take no job and do not end it.
Move(t) ==
    \/ Fire(t) \/ Skip(t) \/ Start(t)
    \/ TryAcquire(t) \/ TryAcquireRefused(t) \/ TryAcquireFails(t)
    \/ CheckSkips(t) \/ CheckPasses(t) \/ CheckTimedOut(t) \/ GetLastFails(t)
    \/ SavePanics(t) \/ ReleaseLock(t) \/ ReleaseLockFails(t)
    \/ Execute(t) \/ ExecuteFails(t) \/ DeferredRelease(t) \/ DeferredReleaseFails(t)

\* The steps of an invocation that write a row.
Write(t) ==
    \/ Mark(t) \/ MarkFails(t) \/ SaveStarted(t) \/ SaveStartedFails(t)
    \/ SaveDone(t) \/ SaveDoneFails(t)

LEMMA Kinds ==
    ASSUME NEW t \in Task, Invocation(t) \/ InvocationFails(t)
    PROVE  Move(t) \/ Write(t) \/ Claim(t) \/ LoseLock(t) \/ Return(t)
BY DEF Invocation, InvocationFails, Move, Write

\* From where to where a move or a write leads.
Path(l, m) ==
    \/ l = "idle" /\ m = "enter"
    \/ l = "enter" /\ m \in {"acquire", "return"}
    \/ l = "acquire" /\ m \in {"check", "claim", "return"}
    \/ l = "check" /\ m \in {"unlock", "claim", "mark"}
    \/ l = "mark" /\ m = "claim"
    \/ l = "save" /\ m \in {"unlock", "release"}
    \/ l = "release" /\ m \in {"execute", "unlock"}
    \/ l = "execute" /\ m \in {"finish", "return"}
    \/ l \in {"finish", "unlock"} /\ m = "return"

\* What a move leaves alone.
LEMMA MoveKeeps ==
    ASSUME TypeOK, NEW t \in Task, Move(t)
    PROVE  /\ UNCHANGED <<own, jobId, errSave, errClear, row, last, taken, unseen>>
           /\ \E l \in Pc : pc' = [pc EXCEPT ![t] = l] /\ Path(pc[t], l)
           /\ \A u \in Task : u # t => seen'[u] = seen[u] /\ found'[u] = found[u]
<1> USE DEF goto, fail, Pc, Path, process, table, history, TypeOK
<1>1. CASE Fire(t) \/ Skip(t) \/ Start(t)
  BY <1>1 DEF Fire, Skip, Start
<1>2. CASE TryAcquire(t) \/ TryAcquireRefused(t) \/ TryAcquireFails(t)
  BY <1>2 DEF TryAcquire, TryAcquireRefused, TryAcquireFails, acquired
<1>3. CASE CheckSkips(t) \/ CheckPasses(t) \/ CheckTimedOut(t) \/ GetLastFails(t)
  BY <1>3 DEF CheckSkips, CheckPasses, CheckTimedOut, GetLastFails
<1>4. CASE SavePanics(t)
  BY <1>4 DEF SavePanics
<1>5. CASE ReleaseLock(t) \/ ReleaseLockFails(t) \/ Execute(t) \/ ExecuteFails(t)
  BY <1>5 DEF ReleaseLock, ReleaseLockFails, Execute, ExecuteFails
<1>6. CASE DeferredRelease(t) \/ DeferredReleaseFails(t)
  BY <1>6 DEF DeferredRelease, DeferredReleaseFails
<1>7. QED BY <1>1, <1>2, <1>3, <1>4, <1>5, <1>6 DEF Move

\* What a write leaves alone.
LEMMA WriteKeeps ==
    ASSUME TypeOK, NEW t \in Task, Write(t)
    PROVE  /\ UNCHANGED <<seen, own, jobId, errSave, errClear, lockOwner, beats, taken, unlocked>>
           /\ \E l \in Pc : pc' = [pc EXCEPT ![t] = l] /\ Path(pc[t], l)
           /\ \A u \in Task : u # t => found'[u] = found[u]
           /\ unseen \subseteq unseen'
<1> USE DEF goto, fail, lose, Pc, Path, process, table, history, TypeOK
<1>1. CASE Mark(t) \/ MarkFails(t)
  BY <1>1 DEF Mark, MarkFails
<1>2. CASE SaveStarted(t) \/ SaveStartedFails(t)
  BY <1>2 DEF SaveStarted, SaveStartedFails
<1>3. CASE SaveDone(t) \/ SaveDoneFails(t)
  BY <1>3 DEF SaveDone, SaveDoneFails
<1>4. QED BY <1>1, <1>2, <1>3 DEF Write

-----------------------------------------------------------------------------
(* What the advisory lock does, whatever the tasks and the faults.         *)

\* The lock is held from TryAcquire to Release, unless its session broke.
LockCovers == \A t \in Task : (pc[t] \in Holding /\ t \notin unlocked) => lockOwner = t

\* Getting the lock keeps the section exclusive: whoever is in it has lost it.
LEMMA AcquireAlone ==
    ASSUME Postgres, TypeOK, LockCovers, CheckToSaveExclusive, NEW t \in Task, TryAcquire(t)
    PROVE  LockCovers' /\ CheckToSaveExclusive'
<1> USE NobodyAssumption DEF TypeOK, goto
<1>1. /\ lockOwner = Nobody /\ lockOwner' = t /\ pc[t] = "acquire"
      /\ \E l \in {"check", "claim"} : pc' = [pc EXCEPT ![t] = l]
      /\ unlocked \subseteq unlocked'
      /\ (\E u \in unlocked : pc[u] \in Section) => t \in unlocked'
  BY DEF TryAcquire, acquired, Lock!Grant
<1>2. \A u \in Task : pc[u] \in Holding => u \in unlocked
  BY <1>1 DEF LockCovers
<1>3. LockCovers'
  BY <1>1, <1>2 DEF LockCovers
<1>4. \A u \in Task : (u # t /\ pc'[u] \in Section) => {t, u} \subseteq unlocked'
  BY <1>1, <1>2 DEF Holding
<1>5. QED BY <1>1, <1>3, <1>4 DEF CheckToSaveExclusive

\* So does giving it back, or losing it.
LEMMA ReleaseAlone ==
    ASSUME Postgres, TypeOK, LockCovers, CheckToSaveExclusive, NEW t \in Task,
           ReleaseLock(t) \/ DeferredRelease(t) \/ LoseLock(t)
    PROVE  LockCovers' /\ CheckToSaveExclusive'
<1> USE NobodyAssumption DEF TypeOK, goto
<1>1. CASE ReleaseLock(t)
  BY <1>1 DEF ReleaseLock, Lock!Free, LockCovers, CheckToSaveExclusive, Holding, Section, history
<1>2. CASE DeferredRelease(t)
  BY <1>2 DEF DeferredRelease, LockCovers, CheckToSaveExclusive, Holding, Section, history
<1>3. CASE LoseLock(t)
  <2>1. /\ pc' = pc /\ lockOwner = t /\ lockOwner' = Nobody
        /\ unlocked \subseteq unlocked' /\ (pc[t] \in Holding => t \in unlocked')
    BY <1>3 DEF LoseLock, invocation
  <2>2. QED BY <2>1 DEF LockCovers, CheckToSaveExclusive
<1>4. QED BY <1>1, <1>2, <1>3

\* Every step keeps both: only TryAcquire enters the section.
LEMMA AloneNext ==
    ASSUME Postgres
    PROVE  TypeOK /\ LockCovers /\ CheckToSaveExclusive /\ [Next]_vars
               => LockCovers' /\ CheckToSaveExclusive'
<1> SUFFICES ASSUME TypeOK, LockCovers, CheckToSaveExclusive, [Next]_vars
             PROVE  LockCovers' /\ CheckToSaveExclusive'
  OBVIOUS
<1> USE NobodyAssumption
<1>1. ASSUME NEW t \in Task, Move(t), ~TryAcquire(t), ~ReleaseLock(t), ~DeferredRelease(t)
      PROVE  LockCovers' /\ CheckToSaveExclusive'
  <2>1. pc[t] # "acquire" \/ pc'[t] = "return"
    BY <1>1 DEF Move, Fire, Skip, Start, TryAcquireRefused, TryAcquireFails, CheckSkips, CheckPasses,
        CheckTimedOut, GetLastFails, SavePanics, ReleaseLockFails, Execute, ExecuteFails,
        DeferredReleaseFails, history, goto, fail, TypeOK
  <2>2. UNCHANGED <<lockOwner, unlocked>>
    BY <1>1 DEF Move, Fire, Skip, Start, TryAcquireRefused, TryAcquireFails, CheckSkips, CheckPasses,
        CheckTimedOut, GetLastFails, SavePanics, ReleaseLockFails, Execute, ExecuteFails,
        DeferredReleaseFails, history
  <2>3. PICK l \in Pc : pc' = [pc EXCEPT ![t] = l] /\ Path(pc[t], l)
    BY <1>1, MoveKeeps
  <2>4. /\ l \in Section => pc[t] \in Section
        /\ l \in Holding => pc[t] \in Holding
    BY <2>1, <2>3 DEF Path, Section, Holding, TypeOK
  <2>5. QED BY <2>2, <2>3, <2>4 DEF LockCovers, CheckToSaveExclusive, TypeOK
<1>2. ASSUME NEW t \in Task, Write(t) PROVE LockCovers' /\ CheckToSaveExclusive'
  <2>1. UNCHANGED <<lockOwner, unlocked>>
    BY <1>2, WriteKeeps
  <2>2. PICK l \in Pc : pc' = [pc EXCEPT ![t] = l] /\ Path(pc[t], l)
    BY <1>2, WriteKeeps
  <2>3. pc[t] \in {"mark", "save", "finish"}
    BY <1>2 DEF Write, Mark, MarkFails, SaveStarted, SaveStartedFails, SaveDone, SaveDoneFails
  <2>4. QED BY <2>1, <2>2, <2>3 DEF Path, Section, Holding, LockCovers, CheckToSaveExclusive, TypeOK
<1>3. ASSUME NEW t \in Task, Claim(t) PROVE LockCovers' /\ CheckToSaveExclusive'
  BY <1>3 DEF Claim, goto, history, Section, Holding, LockCovers, CheckToSaveExclusive, TypeOK
<1>4. ASSUME NEW t \in Task, Return(t) PROVE LockCovers' /\ CheckToSaveExclusive'
  <2>1. /\ pc[t] = "return" /\ pc'[t] \in {"idle", "over"} /\ lockOwner' = lockOwner
        /\ unlocked' = unlocked \ {t} /\ \A u \in Task : u # t => pc'[u] = pc[u]
    BY <1>4 DEF Return, returned, goto, TypeOK
  <2>2. QED BY <2>1 DEF Section, Holding, LockCovers, CheckToSaveExclusive
<1>5. ASSUME NEW p \in Process, Crash(p) PROVE LockCovers' /\ CheckToSaveExclusive'
  <2>1. /\ \A t \in Task : IF Home[t] = p THEN pc'[t] = "idle" /\ t \notin unlocked'
                           ELSE pc'[t] = pc[t] /\ (t \in unlocked' <=> t \in unlocked)
        /\ lockOwner' = lockOwner \/ \E t \in Task : Home[t] = p /\ lockOwner = t
    BY <1>5 DEF Crash, TypeOK
  <2>2. QED BY <2>1 DEF Section, Holding, LockCovers, CheckToSaveExclusive
<1>6. CASE \/ \E p \in Process : ErrFunc(p)
           \/ \E b \in beats : Heartbeat(b)
           \/ \E j \in Job : Lapse(j)
           \/ Elapse \/ UNCHANGED vars
  <2>1. UNCHANGED <<pc, lockOwner, unlocked>>
    BY <1>6 DEF ErrFunc, ErrFuncSave, ErrFuncSaveFails, ErrFuncClear, Heartbeat, BeatTick, BeatWrite,
        BeatWriteFails, BeatStop, Lapse, Elapse, vars, invocation, history
  <2>2. QED BY <2>1 DEF LockCovers, CheckToSaveExclusive
<1>7. QED
  BY <1>1, <1>2, <1>3, <1>4, <1>5, <1>6, Kinds, AcquireAlone, ReleaseAlone DEF Next

\* From the look at the last job to the row of the next one an invocation is
\* alone, with any number of tasks in a process and whatever fails, unless it
\* lost its lock or got it from one that did.
THEOREM CheckToSaveAlone ==
    ASSUME Postgres
    PROVE  Spec => []CheckToSaveExclusive
<1>1. Init => LockCovers /\ CheckToSaveExclusive
  BY DEF Init, LockCovers, CheckToSaveExclusive, Holding, Section
<1>2. QED BY <1>1, AloneNext, TypeCorrect, PTL DEF Spec

-----------------------------------------------------------------------------
(* The shared jobId.                                                       *)

\* An invocation that goes on has found no other one of its process running.
SeenTurnsBack ==
    \A t \in Task : pc[t] \in {"acquire", "check", "mark", "claim"} => ~seen[t]

\* An invocation that is going to clear jobId, or to have it cleared.
Owns(t) ==
    /\ ~seen[t]
    /\ pc[t] \in {"save", "release", "execute", "finish", "unlock", "return"}

\* A step of an invocation keeps both: the one that takes a job becomes an
\* owner, and an owner that stops being one clears jobId or starts an ErrFunc.
LEMMA InvocationOwner ==
    ASSUME TypeOK, SeenTurnsBack, JobIdHasOwner, NEW t \in Task,
           Invocation(t) \/ InvocationFails(t)
    PROVE  SeenTurnsBack' /\ JobIdHasOwner'
<1> USE HomeAssumption
<1>1. CASE Fire(t)
  <2>1. SeenTurnsBack'
    BY <1>1 DEF Fire, goto, TypeOK, SeenTurnsBack
  <2>2. ~Owns(t) /\ \A u \in Task \ {t} : Owns(u)' = Owns(u)
    BY <1>1 DEF Fire, goto, TypeOK, Owns
  <2>3. UNCHANGED <<jobId, errSave, errClear>>
    BY <1>1 DEF Fire, process
  <2>4. QED BY <2>1, <2>2, <2>3 DEF JobIdHasOwner, Owns
<1>2. CASE (Move(t) /\ ~Fire(t)) \/ Write(t) \/ LoseLock(t)
  <2>1. UNCHANGED <<seen, jobId, errSave, errClear>>
    BY <1>2, WriteKeeps DEF Move, LoseLock, invocation, process, Skip, Start, TryAcquire,
       TryAcquireRefused, TryAcquireFails, acquired, CheckSkips, CheckPasses, CheckTimedOut,
       GetLastFails, SavePanics, ReleaseLock, ReleaseLockFails, Execute, ExecuteFails,
       DeferredRelease, DeferredReleaseFails
  <2>2. \/ pc' = pc
        \/ \E l \in Pc : pc' = [pc EXCEPT ![t] = l] /\ Path(pc[t], l)
    BY <1>2, MoveKeeps, WriteKeeps DEF LoseLock, invocation
  <2>3. pc[t] = "enter" => pc'[t] \in {"enter", "return"} \/ ~seen[t]
    BY <1>2, <2>2 DEF Move, Write, Skip, Start, TryAcquire, TryAcquireRefused, TryAcquireFails,
       LoseLock, invocation, CheckSkips, CheckPasses, CheckTimedOut, GetLastFails, SavePanics,
       ReleaseLock, ReleaseLockFails, Execute, ExecuteFails, DeferredRelease, DeferredReleaseFails,
       Mark, MarkFails, SaveStarted, SaveStartedFails, SaveDone, SaveDoneFails, goto, TypeOK
  <2>4. SeenTurnsBack'
    BY <2>1, <2>2, <2>3 DEF Path, SeenTurnsBack, TypeOK
  <2>5. \A u \in Task : Owns(u) => Owns(u)'
    BY <2>1, <2>2 DEF Path, Owns, TypeOK
  <2>6. QED BY <2>1, <2>4, <2>5 DEF JobIdHasOwner, Owns
<1>3. CASE Claim(t)
  <2>1. SeenTurnsBack'
    BY <1>3 DEF Claim, goto, TypeOK, SeenTurnsBack
  <2>2. Owns(t)'
    BY <1>3 DEF Claim, goto, TypeOK, SeenTurnsBack, Owns
  <2>3. \A u \in Task : Owns(u) => Owns(u)'
    BY <1>3, <2>2 DEF Claim, goto, TypeOK, Owns
  <2>4. /\ \A p \in Process \ {Home[t]} : jobId'[p] = jobId[p]
        /\ UNCHANGED <<errSave, errClear>>
    BY <1>3 DEF Claim, TypeOK
  <2>5. QED BY <2>1, <2>2, <2>3, <2>4 DEF JobIdHasOwner, Owns
<1>4. CASE Return(t)
  <2>1. SeenTurnsBack' /\ \A u \in Task \ {t} : Owns(u)' = Owns(u)
    BY <1>4 DEF Return, returned, goto, TypeOK, SeenTurnsBack, Owns
  <2>2. errClear' = errClear /\ Home[t] \in Process
    BY <1>4 DEF Return, returned
  <2>3. CASE err[t]
    <3>1. jobId' = jobId /\ errSave' = [errSave EXCEPT ![Home[t]] = @ + 1]
      BY <1>4, <2>3 DEF Return
    <3>2. \A p \in Process : p # Home[t] => errSave'[p] + errClear'[p] = errSave[p] + errClear[p]
      BY <2>2, <3>1 DEF TypeOK
    <3>3. errSave'[Home[t]] + errClear'[Home[t]] > 0
      BY <2>2, <3>1 DEF TypeOK
    <3>4. QED BY <2>1, <3>1, <3>2, <3>3 DEF JobIdHasOwner, Owns
  <2>4. CASE ~err[t] /\ seen[t]
    <3>1. ~Owns(t) /\ jobId' = jobId /\ errSave' = errSave
      BY <1>4, <2>4 DEF Return, Owns
    <3>2. QED BY <2>1, <2>2, <3>1 DEF JobIdHasOwner, Owns
  <2>5. CASE ~err[t] /\ ~seen[t]
    <3>1. jobId' = [jobId EXCEPT ![Home[t]] = 0] /\ errSave' = errSave
      BY <1>4, <2>5 DEF Return
    <3>2. QED BY <2>1, <2>2, <3>1 DEF TypeOK, JobIdHasOwner, Owns
  <2>6. QED BY <2>3, <2>4, <2>5
<1>5. QED BY <1>1, <1>2, <1>3, <1>4, Kinds

\* So does every other step.
LEMMA OwnerNext ==
    TypeOK /\ SeenTurnsBack /\ JobIdHasOwner /\ [Next]_vars
        => SeenTurnsBack' /\ JobIdHasOwner'
<1> SUFFICES ASSUME TypeOK, SeenTurnsBack, JobIdHasOwner, [Next]_vars
             PROVE  SeenTurnsBack' /\ JobIdHasOwner'
  OBVIOUS
<1>1. ASSUME NEW p \in Process, ErrFuncSave(p) \/ ErrFuncSaveFails(p)
      PROVE  SeenTurnsBack' /\ JobIdHasOwner'
  <2>1. /\ UNCHANGED <<pc, seen, jobId>> /\ errSave[p] \in Nat /\ errClear[p] \in Nat
        /\ errSave' = [errSave EXCEPT ![p] = @ - 1]
        /\ errClear' = [errClear EXCEPT ![p] = @ + 1]
    BY <1>1 DEF ErrFuncSave, ErrFuncSaveFails, invocation, TypeOK
  <2>2. errSave'[p] + errClear'[p] = errSave[p] + errClear[p]
    BY <2>1 DEF TypeOK
  <2>3. \A q \in Process : errSave'[q] + errClear'[q] = errSave[q] + errClear[q]
    BY <2>1, <2>2 DEF TypeOK
  <2>4. QED BY <2>1, <2>3 DEF SeenTurnsBack, JobIdHasOwner
<1>2. ASSUME NEW p \in Process, ErrFuncClear(p)
      PROVE  SeenTurnsBack' /\ JobIdHasOwner'
  <2>1. /\ UNCHANGED <<pc, seen, errSave>> /\ jobId'[p] = 0
        /\ \A q \in Process \ {p} : jobId'[q] = jobId[q] /\ errClear'[q] = errClear[q]
    BY <1>2 DEF ErrFuncClear, invocation, TypeOK
  <2>2. QED BY <2>1 DEF SeenTurnsBack, JobIdHasOwner
<1>3. ASSUME NEW p \in Process, Crash(p)
      PROVE  SeenTurnsBack' /\ JobIdHasOwner'
  <2>1. SeenTurnsBack'
    BY <1>3 DEF Crash, TypeOK, SeenTurnsBack
  <2>2. \A t \in Task : Home[t] # p => Owns(t)' = Owns(t)
    BY <1>3 DEF Crash, TypeOK, Owns
  <2>3. /\ jobId'[p] = 0
        /\ \A q \in Process \ {p} : /\ jobId'[q] = jobId[q]
                                    /\ errSave'[q] = errSave[q] /\ errClear'[q] = errClear[q]
    BY <1>3 DEF Crash, TypeOK
  <2>4. QED BY <2>1, <2>2, <2>3 DEF JobIdHasOwner, Owns
<1>4. CASE \/ UNCHANGED vars \/ Elapse \/ \E j \in Job : Lapse(j)
           \/ \E b \in beats : Heartbeat(b)
  <2>1. UNCHANGED <<pc, seen, jobId, errSave, errClear>>
    BY <1>4 DEF vars, Elapse, Lapse, Heartbeat, BeatTick, BeatWrite, BeatWriteFails, BeatStop,
        invocation, process
  <2>2. QED BY <2>1 DEF SeenTurnsBack, JobIdHasOwner
<1>5. QED BY <1>1, <1>2, <1>3, <1>4, InvocationOwner DEF Next, ErrFunc

\* jobId is never left behind, with any number of tasks in a process, whatever
\* is skipped, fails, panics or crashes, and whether or not the lock excludes.
THEOREM JobIdIsOwned == Spec => []JobIdHasOwner
<1>1. Init => SeenTurnsBack /\ JobIdHasOwner
  BY DEF Init, SeenTurnsBack, JobIdHasOwner
<1>2. QED BY <1>1, OwnerNext, TypeCorrect, PTL DEF Spec
-----------------------------------------------------------------------------
(* RunExclusive.                                                           *)

\* Ids are taken before they are used.
IdsTaken ==
    /\ last <= taken
    /\ \A t \in Task : own[t] <= taken /\ found[t] <= taken
    /\ \A p \in Process : jobId[p] <= taken
    /\ \A b \in beats : b.arg <= taken
    /\ \A j \in Job : row[j] # "none" => j <= taken

\* An invocation that has taken a job has one that no other invocation has.
OwnJob ==
    /\ \A t \in Task : pc[t] \in {"save", "release", "execute", "finish"} => own[t] # 0
    /\ \A t, u \in Task : (t # u /\ own[t] # 0) => own[t] # own[u]

\* A job is found timed out in a row of the table.
FoundRow == \A t \in Task : pc[t] = "mark" => (found[t] # 0 /\ row[found[t]] # "none")

\* Who has the lock saves the job that it took, or none.
SavesOwn ==
    \A t \in Task : (pc[t] = "save" /\ t \notin unlocked) => MyJob(t) \in {0, own[t]}

\* A task that is not unseen finds its job last in the table.
Sees(t) ==
    t \notin unseen =>
        /\ Shown(t) => (last = own[t] /\ row[own[t]] = "started")
        /\ (pc[t] = "save" /\ t \notin unlocked /\ row[own[t]] # "none") => last = own[t]

Sight == \A t \in Task : Sees(t)

\* Who has decided to start a job has seen no other one shown.
Decision ==
    \A t, u \in Task : (pc[t] \in {"mark", "claim", "save"} /\ Shown(u)) => u \in unseen

\* What a Set does to the table.
LEMMA SetKeeps ==
    ASSUME TypeOK, NEW j \in Job, NEW s \in Status, s # "none", SetFails(j, s)
    PROVE  /\ \A i \in Job : i # j => row'[i] = row[i]
           /\ row'[j] \in {row[j], s}
           /\ row[j] # "none" => (row'[j] # "none" /\ last' = last)
           /\ (row'[j] = "none" \/ row[j] # "none") => last' = last
           /\ (row[j] = "none" /\ row'[j] # "none") => last' = j
           /\ last' \in {last, j}
<1>1. CASE UNCHANGED table
  BY <1>1 DEF table, TypeOK
<1>2. CASE Set(j, s)
  BY <1>2 DEF Set, TypeOK
<1>3. QED BY <1>1, <1>2 DEF SetFails

\* Ids stay taken when the row of a taken one is written.
LEMMA SetIds ==
    ASSUME TypeOK, IdsTaken, NEW j \in Job, j <= taken, NEW s \in Status, s # "none",
           SetFails(j, s)
    PROVE  last' <= taken /\ \A i \in Job : row'[i] # "none" => i <= taken
BY SetKeeps DEF IdsTaken

\* The rows that an invocation writes are of jobs that were taken.
LEMMA WriteSets ==
    ASSUME TypeOK, IdsTaken, FoundRow, NEW t \in Task, Write(t)
    PROVE  \E j \in Job, s \in Status : s # "none" /\ j <= taken /\ SetFails(j, s)
<1>1. CASE Mark(t) \/ MarkFails(t)
  <2>1. found[t] \in Job /\ found[t] <= taken /\ SetFails(found[t], "failed")
    BY <1>1, BoundAssumption DEF Mark, MarkFails, SetFails, FoundRow, IdsTaken, TypeOK, Job
  <2>2. QED BY <2>1, StatusType
<1>2. CASE SaveStarted(t) \/ SaveStartedFails(t) \/ SaveDone(t) \/ SaveDoneFails(t)
  <2>1. MyJob(t) \in Job /\ MyJob(t) <= taken
    BY <1>2, MyJobType, HomeAssumption
       DEF SaveStarted, SaveStartedFails, SaveDone, SaveDoneFails, MyJob, IdsTaken
  <2>2. SetFails(MyJob(t), "started") \/ SetFails(MyJob(t), "done")
    BY <1>2 DEF SaveStarted, SaveStartedFails, SaveDone, SaveDoneFails, SetFails
  <2>3. QED BY <2>1, <2>2, StatusType
<1>3. QED BY <1>1, <1>2 DEF Write

\* So is the row that an ErrFunc writes, if it writes one.
LEMMA ErrFuncSets ==
    ASSUME TypeOK, IdsTaken, NEW p \in Process, ErrFuncSave(p) \/ ErrFuncSaveFails(p)
    PROVE  \/ UNCHANGED <<table, unseen>>
           \/ /\ jobId[p] \in Job /\ jobId[p] <= taken
              /\ SetFails(jobId[p], "failed") /\ lose(Shadowed(jobId[p]))
<1>1. jobId[p] # 0 => jobId[p] \in Job
  BY BoundAssumption DEF TypeOK, Job
<1>2. QED BY <1>1 DEF ErrFuncSave, ErrFuncSaveFails, SetFails, IdsTaken

\* And the row that a heartbeat writes.
LEMMA BeatSets ==
    ASSUME TypeOK, IdsTaken, NEW b \in beats, BeatWrite(b) \/ BeatWriteFails(b)
    PROVE  /\ b.arg \in Job /\ b.arg <= taken
           /\ SetFails(b.arg, "started") /\ lose(Hidden(b.arg))
BY BoundAssumption DEF BeatWrite, BeatWriteFails, SetFails, IdsTaken, TypeOK, Beat, Job

LEMMA IdsNext ==
    TypeOK /\ IdsTaken /\ FoundRow /\ [Next]_vars => IdsTaken'
<1> SUFFICES ASSUME TypeOK, IdsTaken, FoundRow, [Next]_vars PROVE IdsTaken'
  OBVIOUS
<1> USE BoundAssumption, HomeAssumption
<1>1. ASSUME NEW t \in Task, Move(t) PROVE IdsTaken'
  <2>1. UNCHANGED <<own, jobId, row, last, taken>>
    BY <1>1, MoveKeeps
  <2>2. \A u \in Task : found'[u] <= taken
    <3>1. found' = found \/ (found' = [found EXCEPT ![t] = last])
      BY <1>1 DEF Move, Fire, Skip, Start, TryAcquire, TryAcquireRefused, TryAcquireFails, acquired,
         CheckSkips, CheckPasses, CheckTimedOut, GetLastFails, SavePanics, ReleaseLock,
         ReleaseLockFails, Execute, ExecuteFails, DeferredRelease, DeferredReleaseFails
    <3>2. QED BY <3>1 DEF IdsTaken, TypeOK
  <2>3. beats' \subseteq beats \cup {[host |-> Home[t], of |-> own[t], arg |-> 0]}
    BY <1>1 DEF Move, Fire, Skip, Start, TryAcquire, TryAcquireRefused, TryAcquireFails, acquired,
       CheckSkips, CheckPasses, CheckTimedOut, GetLastFails, SavePanics, ReleaseLock,
       ReleaseLockFails, Execute, ExecuteFails, DeferredRelease, DeferredReleaseFails
  <2>4. \A b \in beats' : b.arg <= taken
    BY <2>3 DEF IdsTaken, TypeOK
  <2>5. QED BY <2>1, <2>2, <2>4 DEF IdsTaken
<1>2. ASSUME NEW t \in Task, Write(t) PROVE IdsTaken'
  <2>1. UNCHANGED <<own, jobId, beats, taken>>
    BY <1>2, WriteKeeps
  <2>2. last' <= taken /\ \A i \in Job : row'[i] # "none" => i <= taken
    BY <1>2, WriteSets, SetIds
  <2>3. \A u \in Task : found'[u] <= taken
    <3>1. found' = found \/ found' = [found EXCEPT ![t] = 0]
      BY <1>2 DEF Write, Mark, MarkFails, SaveStarted, SaveStartedFails, SaveDone, SaveDoneFails
    <3>2. QED BY <3>1 DEF IdsTaken, TypeOK
  <2>4. QED BY <2>1, <2>2, <2>3 DEF IdsTaken
<1>3. ASSUME NEW t \in Task, Claim(t) PROVE IdsTaken'
  BY <1>3 DEF Claim, IdsTaken, TypeOK, table, Job, Beat
<1>4. ASSUME NEW t \in Task, LoseLock(t) PROVE IdsTaken'
  BY <1>4 DEF LoseLock, IdsTaken, invocation, process, table
<1>5. ASSUME NEW t \in Task, Return(t) PROVE IdsTaken'
  <2>1. /\ UNCHANGED <<found, beats, row, last, taken>> /\ own' = [own EXCEPT ![t] = 0]
        /\ jobId' = jobId \/ jobId' = [jobId EXCEPT ![Home[t]] = 0]
    BY <1>5 DEF Return, returned, table
  <2>2. QED BY <2>1 DEF IdsTaken, TypeOK
<1>6. ASSUME NEW p \in Process, ErrFunc(p) PROVE IdsTaken'
  <2>1. CASE ErrFuncSave(p) \/ ErrFuncSaveFails(p)
    <3>1. UNCHANGED <<own, found, jobId, beats, taken>>
      BY <2>1 DEF ErrFuncSave, ErrFuncSaveFails, invocation
    <3>2. last' <= taken /\ \A i \in Job : row'[i] # "none" => i <= taken
      BY <2>1, ErrFuncSets, SetIds, StatusType DEF table, IdsTaken
    <3>3. QED BY <3>1, <3>2 DEF IdsTaken
  <2>2. CASE ErrFuncClear(p)
    BY <2>2 DEF ErrFuncClear, invocation, table, IdsTaken, TypeOK
  <2>3. QED BY <1>6, <2>1, <2>2 DEF ErrFunc
<1>7. ASSUME NEW b \in beats, Heartbeat(b) PROVE IdsTaken'
  <2>1. UNCHANGED <<own, found, jobId, taken>>
    BY <1>7 DEF Heartbeat, BeatTick, BeatWrite, BeatWriteFails, BeatStop, invocation, process
  <2>2. last' <= taken /\ \A i \in Job : row'[i] # "none" => i <= taken
    <3>1. CASE BeatWrite(b) \/ BeatWriteFails(b)
      BY <3>1, BeatSets, SetIds, StatusType
    <3>2. CASE BeatTick(b) \/ BeatStop(b)
      BY <3>2 DEF BeatTick, BeatStop, table, IdsTaken
    <3>3. QED BY <1>7, <3>1, <3>2 DEF Heartbeat
  <2>3. b \in Beat /\ b.host \in Process
    BY DEF TypeOK, Beat
  <2>4. \E a \in {0, jobId[b.host]} : beats' \subseteq beats \cup {[b EXCEPT !.arg = a]}
    BY <1>7 DEF Heartbeat, BeatTick, BeatWrite, BeatWriteFails, BeatStop, rest
  <2>5. \A a \in {0, jobId[b.host]} : a <= taken /\ [b EXCEPT !.arg = a].arg = a
    BY <2>3 DEF IdsTaken, TypeOK, Beat
  <2>6. \A c \in beats' : c.arg <= taken
    BY <2>4, <2>5 DEF IdsTaken
  <2>7. QED BY <2>1, <2>2, <2>6 DEF IdsTaken
<1>8. ASSUME NEW j \in Job, Lapse(j) PROVE IdsTaken'
  BY <1>8 DEF Lapse, invocation, process, IdsTaken, TypeOK
<1>9. ASSUME NEW p \in Process, Crash(p) PROVE IdsTaken'
  <2>1. UNCHANGED <<row, last, taken>> /\ beats' \subseteq beats
    BY <1>9 DEF Crash, table
  <2>2. \A t \in Task : own'[t] \in {0, own[t]} /\ found'[t] \in {0, found[t]}
    BY <1>9 DEF Crash
  <2>3. \A q \in Process : jobId'[q] \in {0, jobId[q]}
    BY <1>9 DEF Crash, TypeOK
  <2>4. QED BY <2>1, <2>2, <2>3 DEF IdsTaken, TypeOK
<1>10. CASE UNCHANGED vars \/ Elapse
  BY <1>10 DEF vars, Elapse, invocation, process, IdsTaken
<1>11. QED
  BY <1>1, <1>2, <1>3, <1>4, <1>5, <1>6, <1>7, <1>8, <1>9, <1>10, Kinds DEF Next

\* Where an invocation is when it has a job, and after a step of another kind.
LEMMA OwnNext ==
    TypeOK /\ IdsTaken /\ OwnJob /\ [Next]_vars => OwnJob'
<1> SUFFICES ASSUME TypeOK, IdsTaken, OwnJob, [Next]_vars PROVE OwnJob'
  OBVIOUS
<1>1. ASSUME NEW t \in Task, Move(t) \/ Write(t) PROVE OwnJob'
  <2>1. own' = own /\ \E l \in Pc : pc' = [pc EXCEPT ![t] = l] /\ Path(pc[t], l)
    BY <1>1, MoveKeeps, WriteKeeps
  <2>2. QED BY <2>1 DEF Path, OwnJob, TypeOK
<1>2. ASSUME NEW t \in Task, Claim(t) PROVE OwnJob'
  <2>1. /\ pc' = [pc EXCEPT ![t] = "save"] /\ own' = [own EXCEPT ![t] = taken + 1]
        /\ taken \in Nat /\ \A u \in Task : own[u] <= taken /\ own[u] \in Nat
    BY <1>2, BoundAssumption DEF Claim, goto, IdsTaken, TypeOK
  <2>2. QED BY <2>1 DEF OwnJob, TypeOK
<1>3. ASSUME NEW t \in Task, Return(t) PROVE OwnJob'
  <2>1. /\ pc'[t] \in {"idle", "over"} /\ own' = [own EXCEPT ![t] = 0]
        /\ \A u \in Task : u # t => pc'[u] = pc[u]
    BY <1>3 DEF Return, returned, goto, TypeOK
  <2>2. QED BY <2>1 DEF OwnJob, TypeOK
<1>4. ASSUME NEW p \in Process, Crash(p) PROVE OwnJob'
  <2>1. \A t \in Task : \/ pc'[t] = "idle" /\ own'[t] = 0
                        \/ pc'[t] = pc[t] /\ own'[t] = own[t]
    BY <1>4 DEF Crash
  <2>2. QED BY <2>1 DEF OwnJob
<1>5. CASE \/ \E p \in Process : ErrFunc(p)
           \/ \E b \in beats : Heartbeat(b)
           \/ \E j \in Job : Lapse(j)
           \/ \E t \in Task : LoseLock(t)
           \/ Elapse \/ UNCHANGED vars
  <2>1. UNCHANGED <<pc, own>>
    BY <1>5 DEF ErrFunc, ErrFuncSave, ErrFuncSaveFails, ErrFuncClear, Heartbeat, BeatTick, BeatWrite,
        BeatWriteFails, BeatStop, Lapse, Elapse, LoseLock, vars, invocation
  <2>2. QED BY <2>1 DEF OwnJob
<1>6. QED BY <1>1, <1>2, <1>3, <1>4, <1>5, Kinds DEF Next

\* A row, once there, stays.
LEMMA RowStays ==
    ASSUME TypeOK, IdsTaken, FoundRow, [Next]_vars, NEW j \in Job, row[j] # "none"
    PROVE  row'[j] # "none"
<1>1. ASSUME NEW t \in Task, Write(t) PROVE row'[j] # "none"
  BY <1>1, WriteSets, SetKeeps
<1>2. ASSUME NEW t \in Task, Move(t) PROVE row'[j] # "none"
  BY <1>2, MoveKeeps
<1>3. ASSUME NEW t \in Task, Claim(t) \/ LoseLock(t) \/ Return(t) PROVE row'[j] # "none"
  BY <1>3 DEF Claim, LoseLock, Return, returned, table
<1>4. ASSUME NEW p \in Process, ErrFunc(p) PROVE row'[j] # "none"
  <2>1. CASE ErrFuncSave(p) \/ ErrFuncSaveFails(p)
    BY <2>1, ErrFuncSets, SetKeeps, StatusType DEF table
  <2>2. QED BY <1>4, <2>1 DEF ErrFunc, ErrFuncClear, table
<1>5. ASSUME NEW b \in beats, Heartbeat(b) PROVE row'[j] # "none"
  <2>1. CASE BeatWrite(b) \/ BeatWriteFails(b)
    BY <2>1, BeatSets, SetKeeps, StatusType
  <2>2. QED BY <1>5, <2>1 DEF Heartbeat, BeatTick, BeatStop, table
<1>6. CASE (\E i \in Job : Lapse(i)) \/ (\E p \in Process : Crash(p)) \/ Elapse \/ UNCHANGED vars
  BY <1>6 DEF Lapse, Crash, Elapse, vars, table, TypeOK
<1>7. QED BY <1>1, <1>2, <1>3, <1>4, <1>5, <1>6, Kinds DEF Next

LEMMA FoundNext ==
    TypeOK /\ IdsTaken /\ FoundRow /\ [Next]_vars => FoundRow'
<1> SUFFICES ASSUME TypeOK, IdsTaken, FoundRow, [Next]_vars, NEW t \in Task, pc'[t] = "mark"
             PROVE  found'[t] # 0 /\ row'[found'[t]] # "none"
  BY DEF FoundRow
<1>1. \/ pc[t] = "mark" /\ found'[t] = found[t]
      \/ CheckTimedOut(t)
  <2>1. ASSUME NEW u \in Task, Move(u)
        PROVE  \/ pc[t] = "mark" /\ found'[t] = found[t]
               \/ CheckTimedOut(t)
    <3>1. PICK l \in Pc : pc' = [pc EXCEPT ![u] = l] /\ Path(pc[u], l)
      BY <2>1, MoveKeeps
    <3>2. CASE u # t
      BY <2>1, <3>1, <3>2, MoveKeeps DEF TypeOK
    <3>3. CASE u = t
      <4>1. pc[t] = "check" /\ pc'[t] = "mark"
        BY <3>1, <3>3 DEF Path, TypeOK
      <4>2. QED
        BY <2>1, <3>3, <4>1 DEF Move, Fire, Skip, Start, TryAcquire, TryAcquireRefused, acquired,
           TryAcquireFails, CheckSkips, CheckPasses, GetLastFails, SavePanics, ReleaseLock, goto, fail,
           ReleaseLockFails, Execute, ExecuteFails, DeferredRelease, DeferredReleaseFails, TypeOK
    <3>4. QED BY <3>2, <3>3
  <2>2. ASSUME NEW u \in Task, Write(u) PROVE pc[t] = "mark" /\ found'[t] = found[t]
    <3>1. PICK l \in Pc : pc' = [pc EXCEPT ![u] = l] /\ Path(pc[u], l)
      BY <2>2, WriteKeeps
    <3>2. pc[u] # "check"
      BY <2>2 DEF Write, Mark, MarkFails, SaveStarted, SaveStartedFails, SaveDone, SaveDoneFails
    <3>3. u # t
      BY <3>1, <3>2 DEF Path, TypeOK
    <3>4. QED BY <2>2, <3>1, <3>3, WriteKeeps DEF TypeOK
  <2>3. ASSUME NEW u \in Task, Claim(u) \/ LoseLock(u) \/ Return(u)
        PROVE  pc[t] = "mark" /\ found'[t] = found[t]
    BY <2>3 DEF Claim, LoseLock, Return, returned, goto, invocation, TypeOK
  <2>4. ASSUME NEW p \in Process, Crash(p) PROVE pc[t] = "mark" /\ found'[t] = found[t]
    BY <2>4 DEF Crash
  <2>5. CASE \/ \E p \in Process : ErrFunc(p)
             \/ \E b \in beats : Heartbeat(b)
             \/ \E j \in Job : Lapse(j)
             \/ Elapse \/ UNCHANGED vars
    BY <2>5 DEF ErrFunc, ErrFuncSave, ErrFuncSaveFails, ErrFuncClear, Heartbeat, BeatTick, BeatWrite,
        BeatWriteFails, BeatStop, Lapse, Elapse, vars, invocation
  <2>6. QED BY <2>1, <2>2, <2>3, <2>4, <2>5, Kinds DEF Next
<1>2. CASE pc[t] = "mark" /\ found'[t] = found[t]
  <2>1. found[t] \in Job /\ row[found[t]] # "none"
    BY <1>2, BoundAssumption DEF FoundRow, TypeOK, Job
  <2>2. QED BY <1>2, <2>1, RowStays DEF Job
<1>3. CASE CheckTimedOut(t)
  <2>1. last # 0 /\ row[last] = "stale" /\ found'[t] = last /\ row' = row
    BY <1>3 DEF CheckTimedOut, LastStatus, table, TypeOK
  <2>2. QED BY <2>1
<1>4. QED BY <1>1, <1>2, <1>3

LEMMA SavesOwnNext ==
    TypeOK /\ CheckToSaveExclusive /\ SavesOwn /\ [Next]_vars => SavesOwn'
<1> SUFFICES ASSUME TypeOK, CheckToSaveExclusive, SavesOwn, [Next]_vars,
                    NEW t \in Task, pc'[t] = "save", t \notin unlocked'
             PROVE  MyJob(t)' \in {0, own'[t]}
  BY DEF SavesOwn
<1> USE HomeAssumption DEF MyJob
<1>1. CASE Claim(t)
  BY <1>1 DEF Claim, TypeOK
<1>2. ASSUME NEW u \in Task, u # t, Claim(u) PROVE MyJob(t)' \in {0, own'[t]}
  <2>1. pc[u] = "claim" /\ pc'[t] = pc[t] /\ unlocked' = unlocked
    BY <1>2 DEF Claim, goto, history, TypeOK
  <2>2. QED BY <1>2, <2>1 DEF CheckToSaveExclusive, Section
<1>3. ASSUME NEW u \in Task, Move(u) \/ Write(u) PROVE MyJob(t)' \in {0, own'[t]}
  <2>1. UNCHANGED <<own, jobId>> /\ \E l \in Pc : pc' = [pc EXCEPT ![u] = l] /\ Path(pc[u], l)
    BY <1>3, MoveKeeps, WriteKeeps
  <2>2. pc[t] = "save"
    BY <2>1 DEF Path, TypeOK
  <2>3. unlocked \subseteq unlocked'
    BY <1>3, WriteKeeps DEF Move, Fire, Skip, Start, TryAcquire, TryAcquireRefused, TryAcquireFails,
       acquired, CheckSkips, CheckPasses, CheckTimedOut, GetLastFails, SavePanics, ReleaseLock,
       ReleaseLockFails, Execute, ExecuteFails, DeferredRelease, DeferredReleaseFails, history
  <2>4. QED BY <2>1, <2>2, <2>3 DEF SavesOwn
<1>4. ASSUME NEW u \in Task, Return(u) PROVE MyJob(t)' \in {0, own'[t]}
  <2>1. /\ pc'[u] \in {"idle", "over"} /\ unlocked' = unlocked \ {u}
        /\ jobId' = jobId \/ jobId' = [jobId EXCEPT ![Home[u]] = 0]
        /\ \A v \in Task : v # u => pc'[v] = pc[v] /\ own'[v] = own[v]
    BY <1>4 DEF Return, returned, goto, TypeOK
  <2>2. QED BY <2>1 DEF SavesOwn, TypeOK
<1>5. ASSUME NEW p \in Process, ErrFunc(p) PROVE MyJob(t)' \in {0, own'[t]}
  <2>1. /\ UNCHANGED <<pc, own, unlocked>>
        /\ jobId' = jobId \/ jobId' = [jobId EXCEPT ![p] = 0]
    BY <1>5 DEF ErrFunc, ErrFuncSave, ErrFuncSaveFails, ErrFuncClear, invocation, history
  <2>2. QED BY <2>1 DEF SavesOwn, TypeOK
<1>6. ASSUME NEW p \in Process, Crash(p) PROVE MyJob(t)' \in {0, own'[t]}
  <2>1. /\ Home[t] # p /\ pc'[t] = pc[t] /\ own'[t] = own[t]
        /\ t \notin unlocked /\ jobId'[Home[t]] = jobId[Home[t]]
    BY <1>6 DEF Crash, TypeOK
  <2>2. QED BY <2>1 DEF SavesOwn
<1>7. CASE \/ \E b \in beats : Heartbeat(b)
           \/ \E j \in Job : Lapse(j)
           \/ \E u \in Task : LoseLock(u)
           \/ Elapse \/ UNCHANGED vars
  <2>1. UNCHANGED <<pc, own, jobId>> /\ unlocked \subseteq unlocked'
    BY <1>7 DEF Heartbeat, BeatTick, BeatWrite, BeatWriteFails, BeatStop, Lapse, Elapse, LoseLock, vars,
       invocation, process, history
  <2>2. QED BY <2>1 DEF SavesOwn
<1>8. QED BY <1>1, <1>2, <1>3, <1>4, <1>5, <1>6, <1>7, Kinds DEF Next

\* A write of a row leaves in sight whom it does not shadow, or only renews.
LEMMA SetSees ==
    ASSUME TypeOK, OwnJob, NEW t \in Task, Sees(t), NEW j \in Job, NEW s \in Status, s # "none",
           SetFails(j, s), pc'[t] = pc[t], own'[t] = own[t], unlocked' = unlocked,
           unseen \subseteq unseen',
           t \in unseen' \/ t \notin Shadowed(j) \/ (s = "started" /\ row[j] # "none")
    PROVE  Sees(t)'
<1> SUFFICES ASSUME t \notin unseen' PROVE Sees(t)'
  BY DEF Sees
<1>1. Shown(t)' = Shown(t)
  BY DEF Shown
<1>2. ASSUME Shown(t) PROVE last' = own[t] /\ row'[own[t]] = "started"
  <2>1. own[t] \in Job /\ last = own[t] /\ row[own[t]] = "started"
    BY <1>2, BoundAssumption DEF Shown, OwnJob, Sees, TypeOK, Job
  <2>2. CASE own[t] = j
    BY <1>2, <2>1, <2>2, SetKeeps DEF Shadowed
  <2>3. CASE own[t] # j
    <3>1. row[j] # "none"
      BY <1>2, <2>3 DEF Shadowed
    <3>2. QED BY <2>1, <2>3, <3>1, SetKeeps
  <2>4. QED BY <2>2, <2>3
<1>3. ASSUME pc[t] = "save", t \notin unlocked, row'[own[t]] # "none" PROVE last' = own[t]
  <2>1. own[t] \in Job
    BY <1>3, BoundAssumption DEF OwnJob, TypeOK, Job
  <2>2. CASE row[j] # "none"
    <3>1. row[own[t]] # "none" /\ last' = last
      BY <1>3, <2>1, <2>2, SetKeeps
    <3>2. QED BY <1>3, <3>1 DEF Sees
  <2>3. CASE row[j] = "none" /\ own[t] = j
    BY <1>3, <2>3, SetKeeps
  <2>4. CASE row[j] = "none" /\ own[t] # j
    <3>1. row[own[t]] # "none"
      BY <1>3, <2>1, <2>4, SetKeeps
    <3>2. QED BY <1>3, <2>4, <3>1 DEF Shadowed
  <2>5. QED BY <2>2, <2>3, <2>4
<1>4. QED BY <1>1, <1>2, <1>3 DEF Sees

\* A step that writes no row leaves in sight whoever does not move, too.
LEMMA QuietSees ==
    ASSUME NEW t \in Task, Sees(t), UNCHANGED <<row, last>>, pc'[t] = pc[t], own'[t] = own[t],
           t \in unlocked => t \in unlocked', t \in unseen => t \in unseen'
    PROVE  Sees(t)'
BY DEF Sees, Shown

\* Starting: the decision holds for whoever gets so far, and keeps holding.
LEMMA SectionStep ==
    ASSUME Postgres, RunExclusive, TypeOK, CheckToSaveExclusive, OwnJob, SavesOwn, Sight, Decision,
           FoundRow, NEW t \in Task,
           Mark(t) \/ MarkFails(t) \/ SaveStarted(t) \/ SaveStartedFails(t)
    PROVE  Sight' /\ Decision'
<1>1. PICK l \in Pc : pc' = [pc EXCEPT ![t] = l] /\ Path(pc[t], l)
  BY WriteKeeps DEF Write
<1>2. /\ pc[t] \in {"mark", "save"} /\ UNCHANGED <<own, unlocked>> /\ unseen \subseteq unseen'
      /\ l \in {"claim", "release", "unlock"} /\ (l = "release" => SaveStarted(t))
      /\ (SaveStarted(t) => l = "release" /\ unseen' = unseen \cup (unlocked \cap {t}))
  BY <1>1, WriteKeeps DEF Write, Mark, MarkFails, SaveStarted, SaveStartedFails, lose, goto, fail, TypeOK
<1>3. \A u \in Task : u # t => Sees(u)'
  <2>1. SUFFICES ASSUME NEW u \in Task, u # t PROVE Sees(u)'
    OBVIOUS
  <2>2. pc'[u] = pc[u]
    BY <1>1, <2>1 DEF TypeOK
  <2>3. Shown(u) => u \in unseen
    BY <1>2 DEF Decision
  <2>4. pc[u] = "save" => u \in unlocked
    BY <1>2, <2>1 DEF CheckToSaveExclusive, Section
  <2>5. QED BY <1>2, <2>2, <2>3, <2>4 DEF Sees, Shown
<1>4. Sees(t)'
  <2>1. CASE l # "release"
    BY <1>1, <1>2, <2>1 DEF Sees, Shown, TypeOK
  <2>2. CASE l = "release"
    <3>1. /\ SaveStarted(t) /\ pc[t] = "save" /\ pc'[t] = "release"
          /\ (t \notin unseen' => t \notin unlocked /\ t \notin unseen)
      BY <1>1, <1>2, <2>2 DEF SaveStarted, TypeOK
    <3>2. SUFFICES ASSUME t \notin unlocked, t \notin unseen
                   PROVE  last' = own[t] /\ row'[own[t]] = "started"
      BY <1>2, <3>1 DEF Sees, Shown
    <3>3. MyJob(t) = own[t] /\ own[t] \in Job
      BY <3>1, <3>2, MyJobType DEF SavesOwn, SaveStarted
    <3>4. Set(own[t], "started")
      BY <3>1, <3>3 DEF SaveStarted
    <3>5. row'[own[t]] = "started"
      BY <3>3, <3>4 DEF Set, TypeOK
    <3>6. row[own[t]] # "none" => last' = last /\ last = own[t]
      BY <3>1, <3>2, <3>4 DEF Set, Sight, Sees
    <3>7. row[own[t]] = "none" => last' = own[t]
      BY <3>4 DEF Set
    <3>8. QED BY <3>5, <3>6, <3>7
  <2>3. QED BY <2>1, <2>2
<1>5. Decision'
  <2>1. SUFFICES ASSUME NEW u \in Task, NEW v \in Task, pc'[u] \in {"mark", "claim", "save"}, Shown(v)'
                 PROVE  v \in unseen'
    BY DEF Decision
  <2>2. CASE v # t
    <3>1. Shown(v) /\ (pc[u] \in {"mark", "claim", "save"} \/ u = t)
      BY <1>1, <2>1, <2>2 DEF Shown, TypeOK
    <3>2. QED BY <1>2, <2>1, <3>1 DEF Decision
  <2>3. CASE v = t
    <3>1. SaveStarted(t) /\ u # t /\ pc[u] \in {"mark", "claim", "save"}
      BY <1>1, <1>2, <2>1, <2>3 DEF Shown, TypeOK
    <3>2. t \in unlocked
      BY <1>2, <3>1 DEF CheckToSaveExclusive, Section
    <3>3. QED BY <1>2, <2>3, <3>1, <3>2
  <2>4. QED BY <2>2, <2>3
<1>6. QED BY <1>3, <1>4, <1>5 DEF Sight

\* Moves: who has looked at the last job knows whom the table shows.
LEMMA MoveStep ==
    ASSUME RunExclusive, TypeOK, OwnJob, Sight, Decision, NEW t \in Task, Move(t)
    PROVE  Sight' /\ Decision'
<1>1. UNCHANGED <<own, row, last, unseen>>
  BY MoveKeeps
<1>2. PICK l \in Pc : pc' = [pc EXCEPT ![t] = l] /\ Path(pc[t], l)
  BY MoveKeeps
<1>3. unlocked \subseteq unlocked'
  BY DEF Move, Fire, Skip, Start, TryAcquire, TryAcquireRefused, TryAcquireFails, acquired, CheckSkips,
     CheckPasses, CheckTimedOut, GetLastFails, SavePanics, ReleaseLock, ReleaseLockFails, Execute,
     ExecuteFails, DeferredRelease, DeferredReleaseFails, history
<1>4. l \in {"claim", "mark"} => pc[t] = "check" /\ LastStatus # "started"
  BY <1>2 DEF Move, Fire, Skip, Start, TryAcquire, TryAcquireRefused, TryAcquireFails, acquired, CheckSkips,
     CheckPasses, CheckTimedOut, GetLastFails, SavePanics, ReleaseLock, ReleaseLockFails, Execute,
     ExecuteFails, DeferredRelease, DeferredReleaseFails, goto, fail, TypeOK
<1>5. l # "save" /\ (l = "release" => FALSE) /\ (l \in {"execute", "finish"} => Shown(t))
  <2>1. l # "release"
    BY <1>2 DEF Move, Fire, Skip, Start, TryAcquire, TryAcquireRefused, TryAcquireFails, acquired,
       CheckSkips, CheckPasses, CheckTimedOut, GetLastFails, SavePanics, ReleaseLock, ReleaseLockFails,
       Execute, ExecuteFails, DeferredRelease, DeferredReleaseFails, goto, fail, TypeOK
  <2>2. QED BY <1>2, <2>1 DEF Path, Shown, TypeOK
<1>6. Sight'
  <2>1. ASSUME NEW u \in Task, u # t PROVE Sees(u)'
    BY <1>1, <1>2, <1>3, <2>1 DEF Sight, Sees, Shown, TypeOK
  <2>2. Sees(t)'
    BY <1>1, <1>2, <1>5 DEF Sight, Sees, Shown, TypeOK
  <2>3. QED BY <2>1, <2>2 DEF Sight
<1>7. \A v \in Task : Shown(v)' => Shown(v)
  BY <1>2, <1>5 DEF Shown, TypeOK
<1>8. Decision'
  <2>1. SUFFICES ASSUME NEW u \in Task, NEW v \in Task, pc'[u] \in {"mark", "claim", "save"}, Shown(v)'
                 PROVE  v \in unseen
    BY <1>1 DEF Decision
  <2>2. CASE pc[u] \in {"mark", "claim", "save"}
    BY <1>7, <2>1, <2>2 DEF Decision
  <2>3. CASE pc[u] \notin {"mark", "claim", "save"}
    <3>1. u = t /\ l \in {"claim", "mark"}
      BY <1>2, <1>5, <2>1, <2>3 DEF TypeOK
    <3>2. LastStatus # "started" /\ Shown(v)
      BY <1>4, <1>7, <2>1, <3>1
    <3>3. own[v] # 0
      BY <3>2 DEF Shown, OwnJob
    <3>4. QED BY <3>2, <3>3 DEF Sight, Sees, LastStatus
  <2>4. QED BY <2>2, <2>3
<1>9. QED BY <1>6, <1>8

\* The steps that are not part of an invocation's way to its executor.
LEMMA OtherWrite ==
    ASSUME TypeOK, OwnJob, Sight, Decision, NEW j \in Job, NEW s \in Status, s # "none",
           SetFails(j, s), UNCHANGED <<pc, own, unlocked>>, unseen \subseteq unseen',
           \/ Shadowed(j) \subseteq unseen'
           \/ s = "started" /\ row[j] # "none"
    PROVE  Sight' /\ Decision'
<1>1. Sight'
  BY SetSees DEF Sight
<1>2. Decision'
  BY DEF Decision, Shown
<1>3. QED BY <1>1, <1>2

LEMMA SightNext ==
    ASSUME Postgres, RunExclusive
    PROVE  (/\ TypeOK /\ CheckToSaveExclusive /\ IdsTaken /\ OwnJob /\ FoundRow /\ SavesOwn
            /\ Sight /\ Decision /\ [Next]_vars)
                => Sight' /\ Decision'
<1> SUFFICES ASSUME TypeOK, CheckToSaveExclusive, IdsTaken, OwnJob, FoundRow, SavesOwn,
                    Sight, Decision, [Next]_vars
             PROVE  Sight' /\ Decision'
  OBVIOUS
<1>1. ASSUME NEW t \in Task, Move(t) PROVE Sight' /\ Decision'
  BY <1>1, MoveStep
<1>2. ASSUME NEW t \in Task, Mark(t) \/ MarkFails(t) \/ SaveStarted(t) \/ SaveStartedFails(t)
      PROVE  Sight' /\ Decision'
  BY <1>2, SectionStep
<1>3. ASSUME NEW t \in Task, SaveDone(t) \/ SaveDoneFails(t) PROVE Sight' /\ Decision'
  <2>1. /\ MyJob(t) \in Job /\ SetFails(MyJob(t), "done")
        /\ unseen' = unseen \cup Shadowed(MyJob(t))
    BY <1>3, MyJobType DEF SaveDone, SaveDoneFails, SetFails, lose
  <2>2. /\ UNCHANGED <<own, unlocked>> /\ pc' = [pc EXCEPT ![t] = "return"]
    BY <1>3 DEF SaveDone, SaveDoneFails, goto, fail, history
  <2>3. ASSUME NEW u \in Task, u # t PROVE Sees(u)'
    <3>1. pc'[u] = pc[u] /\ own'[u] = own[u]
      BY <2>2, <2>3 DEF TypeOK
    <3>2. Sees(u) /\ unseen \subseteq unseen' /\ (u \in unseen' \/ u \notin Shadowed(MyJob(t)))
      BY <2>1 DEF Sight
    <3>3. QED BY <2>1, <2>2, <3>1, <3>2, SetSees, StatusType
  <2>4. Sees(t)'
    BY <2>2 DEF Sees, Shown, TypeOK
  <2>5. Decision'
    <3>1. \A u \in Task : /\ Shown(u)' => Shown(u)
                          /\ pc'[u] \in {"mark", "claim", "save"} => pc[u] \in {"mark", "claim", "save"}
      BY <2>2 DEF Shown, TypeOK
    <3>2. unseen \subseteq unseen'
      BY <2>1
    <3>3. QED BY <3>1, <3>2 DEF Decision
  <2>6. QED BY <2>3, <2>4, <2>5 DEF Sight
<1>4. ASSUME NEW t \in Task, Claim(t) PROVE Sight' /\ Decision'
  <2>1. /\ UNCHANGED <<row, last, unlocked, unseen>> /\ pc[t] = "claim"
        /\ pc' = [pc EXCEPT ![t] = "save"] /\ own' = [own EXCEPT ![t] = taken + 1]
        /\ taken \in Nat /\ taken + 1 \in Job
    BY <1>4, BoundAssumption DEF Claim, goto, table, history, TypeOK, Job
  <2>2. row[taken + 1] = "none"
    BY <2>1 DEF IdsTaken
  <2>3. \A u \in Task : u # t => Sees(u)'
    BY <2>1 DEF Sight, Sees, Shown, TypeOK
  <2>4. Sees(t)'
    BY <2>1, <2>2 DEF Sees, Shown, TypeOK
  <2>5. Decision'
    BY <2>1 DEF Decision, Shown, TypeOK
  <2>6. QED BY <2>3, <2>4, <2>5 DEF Sight
<1>5. ASSUME NEW t \in Task, LoseLock(t) PROVE Sight' /\ Decision'
  <2>1. UNCHANGED <<pc, own, row, last, unseen>> /\ unlocked \subseteq unlocked'
    BY <1>5 DEF LoseLock, invocation, table
  <2>2. QED BY <2>1 DEF Sight, Sees, Decision, Shown
<1>6. ASSUME NEW t \in Task, Return(t) PROVE Sight' /\ Decision'
  <2>1. /\ UNCHANGED <<row, last>> /\ pc'[t] \in {"idle", "over"}
        /\ unlocked' = unlocked \ {t} /\ unseen' = unseen \ {t}
        /\ \A u \in Task : u # t => pc'[u] = pc[u] /\ own'[u] = own[u]
    BY <1>6 DEF Return, returned, goto, table, TypeOK
  <2>2. \A u \in Task : u # t => Sees(u)'
    BY <2>1 DEF Sight, Sees, Shown
  <2>3. Sees(t)'
    BY <2>1 DEF Sees, Shown
  <2>4. Decision'
    BY <2>1 DEF Decision, Shown
  <2>5. QED BY <2>2, <2>3, <2>4 DEF Sight
<1>7. ASSUME NEW p \in Process, ErrFunc(p) PROVE Sight' /\ Decision'
  <2>1. UNCHANGED <<pc, own, unlocked>>
    BY <1>7 DEF ErrFunc, ErrFuncSave, ErrFuncSaveFails, ErrFuncClear, invocation, history
  <2>2. \/ UNCHANGED <<row, last, unseen>>
        \/ /\ jobId[p] \in Job /\ SetFails(jobId[p], "failed")
           /\ unseen' = unseen \cup Shadowed(jobId[p])
    BY <1>7, ErrFuncSets DEF ErrFunc, ErrFuncClear, table, history, lose
  <2>3. CASE UNCHANGED <<row, last, unseen>>
    BY <2>1, <2>3 DEF Sight, Sees, Decision, Shown
  <2>4. QED BY <2>1, <2>2, <2>3, OtherWrite, StatusType
<1>8. ASSUME NEW b \in beats, Heartbeat(b) PROVE Sight' /\ Decision'
  <2>1. UNCHANGED <<pc, own, unlocked>>
    BY <1>8 DEF Heartbeat, BeatTick, BeatWrite, BeatWriteFails, BeatStop, invocation, history
  <2>2. CASE BeatTick(b) \/ BeatStop(b)
    BY <2>1, <2>2 DEF BeatTick, BeatStop, table, history, Sight, Sees, Decision, Shown
  <2>3. CASE BeatWrite(b) \/ BeatWriteFails(b)
    <3>1. b.arg \in Job /\ SetFails(b.arg, "started") /\ unseen' = unseen \cup Hidden(b.arg)
      BY <2>3, BeatSets DEF lose
    <3>2. Shadowed(b.arg) \subseteq unseen' \/ row[b.arg] # "none"
      BY <3>1 DEF Hidden
    <3>3. QED BY <2>1, <3>1, <3>2, OtherWrite, StatusType
  <2>4. QED BY <1>8, <2>2, <2>3 DEF Heartbeat
<1>9. ASSUME NEW j \in Job, Lapse(j) PROVE Sight' /\ Decision'
  <2>1. /\ UNCHANGED <<pc, own, unlocked, last>> /\ row[j] = "started"
        /\ row' = [row EXCEPT ![j] = "stale"]
        /\ unseen' = unseen \cup {t \in Task : own[t] = j /\ Shown(t)}
    BY <1>9 DEF Lapse, invocation, lose
  <2>2. ASSUME NEW t \in Task PROVE Sees(t)'
    <3>1. (pc[t] = "save" \/ Shown(t)) => own[t] \in Job
      BY BoundAssumption DEF OwnJob, Shown, TypeOK, Job
    <3>2. QED BY <2>1, <3>1 DEF Sight, Sees, Shown, TypeOK
  <2>3. QED BY <2>1, <2>2 DEF Sight, Decision, Shown
<1>10. ASSUME NEW p \in Process, Crash(p) PROVE Sight' /\ Decision'
  <2>1. /\ UNCHANGED <<row, last>>
        /\ \A t \in Task : \/ pc'[t] = "idle"
                           \/ /\ pc'[t] = pc[t] /\ own'[t] = own[t]
                              /\ (t \in unlocked' <=> t \in unlocked)
                              /\ (t \in unseen' <=> t \in unseen)
    BY <1>10 DEF Crash, table
  <2>2. QED BY <2>1 DEF Sight, Sees, Decision, Shown
<1>11. CASE Elapse \/ UNCHANGED vars
  BY <1>11 DEF Elapse, vars, invocation, history, Sight, Sees, Decision, Shown
<1>12. QED
  BY <1>1, <1>2, <1>3, <1>4, <1>5, <1>6, <1>7, <1>8, <1>9, <1>10, <1>11, Kinds DEF Next, Write

\* A worker that runs exclusively, with any number of processes and of tasks in
\* them, through any failures, late heartbeats, lost locks and crashes: the
\* table shows the job of an executor as long as it was not lost sight of.
THEOREM ExecutorIsShown ==
    ASSUME Postgres, RunExclusive
    PROVE  Spec => []ExecutingIsStarted
<1>1. Init => /\ LockCovers /\ CheckToSaveExclusive /\ IdsTaken /\ OwnJob /\ FoundRow /\ SavesOwn
              /\ Sight /\ Decision
  BY BoundAssumption DEF Init, LockCovers, CheckToSaveExclusive, IdsTaken, OwnJob, FoundRow, SavesOwn,
     Sight, Sees, Decision, Shown, Holding, Section
<1>2. OwnJob /\ Sight => ExecutingIsStarted
  BY DEF OwnJob, Sight, Sees, Shown, Executing, ExecutingIsStarted
<1>3. QED
  BY <1>1, <1>2, TypeCorrect, AloneNext, IdsNext, OwnNext, FoundNext, SavesOwnNext, SightNext, PTL
     DEF Spec

\* It runs twice at a time only if the table has lost sight of one of the two.
THEOREM ExecutorRunsAlone ==
    ASSUME Postgres, RunExclusive
    PROVE  Spec => []ExecutorExclusive
<1>1. Init => OwnJob
  BY DEF Init, OwnJob
<1>2. Init => IdsTaken /\ FoundRow
  BY BoundAssumption DEF Init, IdsTaken, FoundRow
<1>3. OwnJob /\ ExecutingIsStarted => ExecutorExclusive
  BY DEF OwnJob, ExecutingIsStarted, ExecutorExclusive
<1>4. QED
  BY <1>1, <1>2, <1>3, TypeCorrect, IdsNext, FoundNext, OwnNext, ExecutorIsShown, PTL DEF Spec
=============================================================================
