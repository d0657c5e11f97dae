---------------------------- MODULE AbstractLock ----------------------------
(***************************************************************************)
(* What internal/db promises of an advisory lock: a named lock with at     *)
(* most one owner, which only that owner gives back.  An owner changes     *)
(* only through a moment in which nobody owns the lock.                    *)
(***************************************************************************)
CONSTANTS
    Owner,      \* whoever may own the lock
    Nobody      \* the value of owner while the lock is free

VARIABLE owner

Init == owner = Nobody

Grant(h) ==
    /\ owner = Nobody
    /\ owner' = h

Free(h) ==
    /\ owner = h
    /\ owner' = Nobody

Next == \E h \in Owner : Grant(h) \/ Free(h)

Spec == Init /\ [][Next]_owner
=============================================================================
