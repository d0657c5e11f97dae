---------------------------- MODULE AdvisoryLock ----------------------------
(***************************************************************************)
(* The PostgreSQL advisory lock of internal/db/advisory_lock.go, for one   *)
(* lock name.  Every NewAdvisoryLock opens a transaction, and with it a    *)
(* pooled connection, of its own; the lock belongs to that connection's    *)
(* server session and not to the transaction.                              *)
(*                                                                         *)
(* A handle is a *postgresAdvisoryLock value.  tx stands for its Executor: *)
(*   none     there is no handle, or Executor is nil after a commit        *)
(*   open     the transaction accepts statements                           *)
(*   aborted  a statement failed: the server rejects every later one, the  *)
(*            session is alive                                             *)
(*   lost     the connection is gone and the server ended its session      *)
(*   done     Commit returned an error: database/sql has given the         *)
(*            connection back, Executor still points at the dead Tx        *)
(***************************************************************************)
EXTENDS Integers

CONSTANTS
    Handle,      \* the lock handles
    Process,     \* the StremThru processes that share the database
    Home,        \* the process each handle lives in
    NoHandle,    \* the owner of a free lock
    MaxCount,    \* bound on nested acquisitions of one handle
    MaxFaults    \* bound on failed statements and lost connections

ASSUME HomeAssumption == Home \in [Handle -> Process]
ASSUME MaxCountAssumption == MaxCount \in Nat \ {0}
ASSUME MaxFaultsAssumption == MaxFaults \in Nat
ASSUME NoHandleAssumption == NoHandle \notin Handle

VARIABLES
    tx,          \* state of each handle's transaction
    count,       \* postgresAdvisoryLock.count
    waiting,     \* handles blocked inside pg_advisory_lock
    held,        \* times the server session of a handle holds the lock
    faults       \* faults so far

vars == <<tx, count, waiting, held, faults>>

TxState == {"none", "open", "aborted", "lost", "done"}

\* The transactions that keep a pooled connection, and so a server session.
Connected(h) == tx[h] \in {"open", "aborted"}

\* The server's side of the lock: no session but h's own holds it.
FreeFor(h) == \A g \in Handle \ {h} : held[g] = 0

Init ==
    /\ tx = [h \in Handle |-> "none"]
    /\ count = [h \in Handle |-> 0]
    /\ waiting = {}
    /\ held = [h \in Handle |-> 0]
    /\ faults = 0

-----------------------------------------------------------------------------
(* One action per method; Fault* are their error returns.                  *)

\* A transaction that is not open cannot be committed; either way the
\* connection goes back to the pool.
commit(h) ==
    tx' = [tx EXCEPT ![h] =
             IF tx[h] \in {"none", "open"} THEN "none" ELSE "done"]

\* A caller that needs the lock makes a new handle; what it kept of an older
\* one whose connection is gone is garbage.
NewAdvisoryLock(h) ==
    /\ tx[h] \in {"none", "lost", "done"}
    /\ tx' = [tx EXCEPT ![h] = "open"]
    /\ count' = [count EXCEPT ![h] = 0]
    /\ UNCHANGED <<waiting, held, faults>>

\* Acquire sends pg_advisory_lock and blocks ...
AcquireCall(h) ==
    /\ tx[h] = "open"
    /\ h \notin waiting
    /\ count[h] < MaxCount
    /\ waiting' = waiting \cup {h}
    /\ UNCHANGED <<tx, count, held, faults>>

\* ... until the server grants the lock to the session.
AcquireReturn(h) ==
    /\ h \in waiting
    /\ FreeFor(h)
    /\ held' = [held EXCEPT ![h] = @ + 1]
    /\ count' = [count EXCEPT ![h] = @ + 1]
    /\ waiting' = waiting \ {h}
    /\ UNCHANGED <<tx, faults>>

\* Mutant: the acquired column is scanned but not looked at.
TryAcquireBlind(h) ==
    /\ tx[h] = "open"
    /\ h \notin waiting
    /\ count[h] < MaxCount
    /\ held' = [held EXCEPT ![h] = IF FreeFor(h) THEN @ + 1 ELSE @]
    /\ count' = [count EXCEPT ![h] = @ + 1]
    /\ UNCHANGED <<tx, waiting, faults>>

\* TryAcquire that returns true; one that returns false changes nothing.
TryAcquire(h) ==
    /\ tx[h] = "open"
    /\ h \notin waiting
    /\ count[h] < MaxCount
    /\ FreeFor(h)
    /\ held' = [held EXCEPT ![h] = @ + 1]
    /\ count' = [count EXCEPT ![h] = @ + 1]
    /\ UNCHANGED <<tx, waiting, faults>>

\* Release with nothing acquired only ends the transaction.
ReleaseIdle(h) ==
    /\ count[h] = 0
    /\ tx[h] # "none"
    /\ h \notin waiting
    /\ commit(h)
    /\ UNCHANGED <<count, waiting, held, faults>>

\* Mutant: the transaction ends with every level.
ReleaseHeldCommitsAlways(h) ==
    /\ count[h] > 0
    /\ tx[h] = "open"
    /\ h \notin waiting
    /\ held[h] > 0
    /\ held' = [held EXCEPT ![h] = @ - 1]
    /\ count' = [count EXCEPT ![h] = @ - 1]
    /\ commit(h)
    /\ UNCHANGED <<waiting, faults>>

\* Mutant: the last level is never unlocked.
ReleaseHeldButLast(h) ==
    /\ count[h] > 1
    /\ tx[h] = "open"
    /\ h \notin waiting
    /\ held' = [held EXCEPT ![h] = @ - 1]
    /\ count' = [count EXCEPT ![h] = @ - 1]
    /\ UNCHANGED <<tx, waiting, faults>>

\* Release of one level; the last level also ends the transaction.
ReleaseHeld(h) ==
    /\ count[h] > 0
    /\ tx[h] = "open"
    /\ h \notin waiting
    /\ held[h] > 0
    /\ held' = [held EXCEPT ![h] = @ - 1]
    /\ count' = [count EXCEPT ![h] = @ - 1]
    /\ IF count[h] = 1 THEN commit(h) ELSE UNCHANGED tx
    /\ UNCHANGED <<waiting, faults>>

\* Mutant: the level is counted down before the unlock answers.
ReleaseRejectedCountsDown(h) ==
    /\ count[h] > 0
    /\ tx[h] = "aborted"
    /\ count' = [count EXCEPT ![h] = @ - 1]
    /\ UNCHANGED <<tx, waiting, held, faults>>

\* Mutant: the count is not looked at.
ReleaseRejectedUnguarded(h) ==
    /\ tx[h] \in {"lost", "done"}
    /\ count[h] > 0 - 1
    /\ count' = [count EXCEPT ![h] = @ - 1]
    /\ UNCHANGED <<tx, waiting, held, faults>>

\* Release whose unlock statement is rejected gives nothing back.
ReleaseRejected(h) ==
    /\ count[h] > 0
    /\ tx[h] \in {"aborted", "lost", "done"}
    /\ UNCHANGED vars

Release(h) == ReleaseIdle(h) \/ ReleaseHeld(h) \/ ReleaseRejected(h)

\* ReleaseAll runs Release count times and stops at the first that fails.
\* Nobody can be granted the lock before the last unlock, so its round trips
\* are one step.
ReleaseAll(h) ==
    /\ count[h] > 0
    /\ tx[h] = "open"
    /\ h \notin waiting
    /\ held[h] >= count[h]
    /\ held' = [held EXCEPT ![h] = @ - count[h]]
    /\ count' = [count EXCEPT ![h] = 0]
    /\ commit(h)
    /\ UNCHANGED <<waiting, faults>>

\* ReleaseAll whose unlock fails with left levels still to go.
ReleaseAllFails(h) ==
    /\ count[h] > 1
    /\ tx[h] = "open"
    /\ h \notin waiting
    /\ held[h] >= count[h]
    /\ faults < MaxFaults
    /\ \E left \in 1 .. (count[h] - 1) :
          /\ held' = [held EXCEPT ![h] = @ - (count[h] - left)]
          /\ count' = [count EXCEPT ![h] = left]
    /\ tx' = [tx EXCEPT ![h] = "aborted"]
    /\ faults' = faults + 1
    /\ UNCHANGED waiting

\* A lock or unlock statement fails on the server: the method returns false
\* and changes neither count nor Executor, the transaction is aborted and
\* what the session holds stays held.
StatementFails(h) ==
    /\ tx[h] = "open"
    /\ faults < MaxFaults
    /\ tx' = [tx EXCEPT ![h] = "aborted"]
    /\ waiting' = waiting \ {h}
    /\ faults' = faults + 1
    /\ UNCHANGED <<count, held>>

\* The connection breaks: the server ends the session and frees what it held.
ConnectionLost(h) ==
    /\ Connected(h)
    /\ faults < MaxFaults
    /\ tx' = [tx EXCEPT ![h] = "lost"]
    /\ held' = [held EXCEPT ![h] = 0]
    /\ waiting' = waiting \ {h}
    /\ faults' = faults + 1
    /\ UNCHANGED count

\* A process dies with all its handles, and the server ends their sessions.
Crash(p) ==
    /\ faults < MaxFaults
    /\ tx' = [h \in Handle |-> IF Home[h] = p THEN "none" ELSE tx[h]]
    /\ count' = [h \in Handle |-> IF Home[h] = p THEN 0 ELSE count[h]]
    /\ held' = [h \in Handle |-> IF Home[h] = p THEN 0 ELSE held[h]]
    /\ waiting' = {h \in waiting : Home[h] # p}
    /\ faults' = faults + 1

Step(h) ==
    \/ NewAdvisoryLock(h)
    \/ AcquireCall(h)
    \/ AcquireReturn(h)
    \/ TryAcquire(h)
    \/ Release(h)
    \/ ReleaseAll(h)
    \/ ReleaseAllFails(h)
    \/ StatementFails(h)
    \/ ConnectionLost(h)

Next ==
    \/ \E h \in Handle : Step(h)
    \/ \E p \in Process : Crash(p)

Spec == Init /\ [][Next]_vars

-----------------------------------------------------------------------------
TypeOK ==
    /\ tx \in [Handle -> TxState]
    /\ count \in [Handle -> Nat]
    /\ waiting \in SUBSET Handle
    /\ held \in [Handle -> Nat]
    /\ faults \in Nat

\* What a handle counts is what its server session holds, for as long as
\* there is a session: no path through Acquire, TryAcquire, Release or
\* ReleaseAll, failing ones included, lets the two drift apart.
CountMatchesSession ==
    \A h \in Handle : Connected(h) => count[h] = held[h]

\* What the code goes by: a handle that counts an acquisition has the lock.
Believes(h) == Connected(h) /\ count[h] > 0

\* At most one handle with a live session believes that it owns the lock.
MutualExclusion == \A g, h \in Handle : (Believes(g) /\ Believes(h)) => g = h

\* A connection never goes back to the pool while its session still holds the
\* lock: nobody could ever free it again.
NoStrandedLock ==
    \A h \in Handle : held[h] > 0 => Connected(h)

\* The owner of the lock as AbstractLock sees it, which is who believes to be.
owner ==
    IF \E h \in Handle : Believes(h)
    THEN CHOOSE h \in Handle : Believes(h)
    ELSE NoHandle

Abstract == INSTANCE AbstractLock WITH Owner <- Handle, Nobody <- NoHandle

\* The handles implement the abstract lock by what they count, not by what the
\* server knows: one begins to believe that it owns the lock only when no other
\* does, and no acquire, release or failure passes that belief on.
ImplementsAbstractLock == Abstract!Spec

-----------------------------------------------------------------------------
(* Liveness: PostgreSQL serves the waiters of a lock in order, so a waiter *)
(* for whom the lock is free again and again is served (strong fairness).  *)
(* Every caller releases what it acquired, by a deferred Release, and goes *)
(* up and down between nested levels only so often.                        *)
LastRelease(h) == count[h] = 1 /\ ReleaseHeld(h)

FairSpec ==
    /\ Spec
    /\ \A h \in Handle :
          /\ SF_vars(AcquireReturn(h))
          /\ WF_vars(ReleaseHeld(h))
          /\ SF_vars(LastRelease(h))

\* A blocked Acquire does not wait for ever, unless for a session whose unlock
\* failed: that one keeps the lock for as long as its process lives.
AcquireReturns ==
    \A h \in Handle :
        h \in waiting ~>
            \/ h \notin waiting
            \/ \E g \in Handle \ {h} : held[g] > 0 /\ tx[g] = "aborted"
=============================================================================
