------------------------- MODULE SqliteAdvisoryLock -------------------------
(***************************************************************************)
(* The SQLite advisory lock of internal/db/advisory_lock.go, for one name: *)
(* an object in the memory of the one process, found by name in a sync.Map *)
(* and shared by all the goroutines that ask for it.  Its flag locked is   *)
(* guarded by a mutex, but lock() answers whether the flag is set AFTER it *)
(* has set it, and Acquire reads it once more without the mutex.           *)
(***************************************************************************)
CONSTANTS
    Caller,     \* the goroutines
    NoObject    \* no lock object

VARIABLES
    byName,     \* sqliteAdvisoryLockByName for this name
    object,     \* the lock object each caller works with
    locked,     \* sqliteAdvisoryLock.locked of each object
    pc          \* where each caller is

vars == <<byName, object, locked, pc>>

\* Lock objects carry the name of the caller that made them.
Object == Caller

Init ==
    /\ byName = NoObject
    /\ object = [c \in Caller |-> NoObject]
    /\ locked = [o \in Object |-> FALSE]
    /\ pc = [c \in Caller |-> "idle"]

goto(c, l) == pc' = [pc EXCEPT ![c] = l]

-----------------------------------------------------------------------------
(* sqliteNewAdvisoryLock: Load, and on a miss a Store of a new object.     *)
Load(c) ==
    /\ pc[c] = "idle"
    /\ IF byName = NoObject
       THEN goto(c, "store") /\ UNCHANGED object
       ELSE goto(c, "ready") /\ object' = [object EXCEPT ![c] = byName]
    /\ UNCHANGED <<byName, locked>>

Store(c) ==
    /\ pc[c] = "store"
    /\ object' = [object EXCEPT ![c] = c]
    /\ byName' = c
    /\ locked' = [locked EXCEPT ![c] = FALSE]
    /\ goto(c, "ready")

(* lock() sets the flag and returns it, hence TRUE whoever had set it.     *)
lock(c) == locked' = [locked EXCEPT ![object[c]] = TRUE]

TryAcquire(c) ==
    /\ pc[c] = "ready"
    /\ lock(c)
    /\ goto(c, "owner")
    /\ UNCHANGED <<byName, object>>

\* Acquire: the loop ends with the first lock() ...
AcquireLock(c) ==
    /\ pc[c] = "ready"
    /\ lock(c)
    /\ goto(c, "reading")
    /\ UNCHANGED <<byName, object>>

\* ... and the flag it returns is read again, outside the mutex.
AcquireRead(c) ==
    /\ pc[c] = "reading"
    /\ goto(c, IF locked[object[c]] THEN "owner" ELSE "refused")
    /\ UNCHANGED <<byName, object, locked>>

\* Release clears the flag, whoever had set it.
Release(c) ==
    /\ pc[c] = "owner"
    /\ locked' = [locked EXCEPT ![object[c]] = FALSE]
    /\ goto(c, "idle")
    /\ UNCHANGED <<byName, object>>

\* A refused caller gives up.
GiveUp(c) ==
    /\ pc[c] = "refused"
    /\ goto(c, "idle")
    /\ UNCHANGED <<byName, object, locked>>

Next ==
    \E c \in Caller :
        \/ Load(c) \/ Store(c)
        \/ TryAcquire(c) \/ AcquireLock(c) \/ AcquireRead(c)
        \/ Release(c) \/ GiveUp(c)

Spec == Init /\ [][Next]_vars

-----------------------------------------------------------------------------
\* Two callers are never owners at once: what the lock is for, and what this
\* lock does not do.
MutualExclusion ==
    \A c, d \in Caller : (pc[c] = "owner" /\ pc[d] = "owner") => c = d
=============================================================================
