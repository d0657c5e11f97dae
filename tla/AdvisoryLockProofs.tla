------------------------- MODULE AdvisoryLockProofs -------------------------
(***************************************************************************)
(* Proofs about AdvisoryLock, for any handles, processes and bounds.       *)
(***************************************************************************)
EXTENDS AdvisoryLock, TLAPS

\* The server grants the lock to one session at a time.
OneSession ==
    \A g, h \in Handle : (held[g] > 0 /\ held[h] > 0) => g = h

\* A handle waits inside a statement of an open transaction.
WaitsInTx == \A h \in waiting : tx[h] = "open"

\* The inductive invariant.  MutualExclusion alone is not inductive: a handle's
\* count says something about the lock only because it follows what the
\* session holds, and that only because no connection leaves with the lock.
Inv ==
    /\ TypeOK
    /\ CountMatchesSession
    /\ NoStrandedLock
    /\ OneSession
    /\ WaitsInTx

\* The initial state satisfies it.
LEMMA InitInv == Init => Inv
BY HomeAssumption DEF Init, Inv, TypeOK, TxState, CountMatchesSession, NoStrandedLock,
    OneSession, WaitsInTx

\* One lemma for each method and each fault.
LEMMA NewAdvisoryLockInv ==
    ASSUME NEW h \in Handle, Inv, NewAdvisoryLock(h)
    PROVE  Inv'
BY DEF NewAdvisoryLock, Inv, TypeOK, TxState, CountMatchesSession, NoStrandedLock,
    OneSession, WaitsInTx, Connected

\* Acquire sends its statement.
LEMMA AcquireCallInv ==
    ASSUME NEW h \in Handle, Inv, AcquireCall(h)
    PROVE  Inv'
BY DEF AcquireCall, Inv, TypeOK, TxState, CountMatchesSession, NoStrandedLock,
    OneSession, WaitsInTx, Connected

\* Acquire and TryAcquire: the server looks at the other sessions.
LEMMA AcquireReturnInv ==
    ASSUME NEW h \in Handle, Inv, AcquireReturn(h)
    PROVE  Inv'
BY DEF AcquireReturn, FreeFor, Inv, TypeOK, TxState, CountMatchesSession,
    NoStrandedLock, OneSession, WaitsInTx, Connected

\* TryAcquire gets the lock.
LEMMA TryAcquireInv ==
    ASSUME NEW h \in Handle, Inv, TryAcquire(h)
    PROVE  Inv'
BY DEF TryAcquire, FreeFor, Inv, TypeOK, TxState, CountMatchesSession,
    NoStrandedLock, OneSession, WaitsInTx, Connected

\* Release, in each of its three ways.
LEMMA ReleaseInv ==
    ASSUME NEW h \in Handle, Inv, Release(h)
    PROVE  Inv'
<1>1. CASE ReleaseIdle(h)
  BY <1>1 DEF ReleaseIdle, commit, Inv, TypeOK, TxState, CountMatchesSession,
      NoStrandedLock, OneSession, WaitsInTx, Connected
<1>2. CASE ReleaseHeld(h)
  BY <1>2 DEF ReleaseHeld, commit, Inv, TypeOK, TxState, CountMatchesSession,
      NoStrandedLock, OneSession, WaitsInTx, Connected
<1>3. CASE ReleaseRejected(h)
  BY <1>3 DEF ReleaseRejected, vars, Inv, TypeOK, TxState, CountMatchesSession,
      NoStrandedLock, OneSession, WaitsInTx, Connected
<1>4. QED BY <1>1, <1>2, <1>3 DEF Release

\* ReleaseAll gives back every level.
LEMMA ReleaseAllInv ==
    ASSUME NEW h \in Handle, Inv, ReleaseAll(h)
    PROVE  Inv'
BY DEF ReleaseAll, commit, Inv, TypeOK, TxState, CountMatchesSession,
    NoStrandedLock, OneSession, WaitsInTx, Connected

\* ReleaseAll stops in the middle: what is left is counted and held alike.
LEMMA ReleaseAllFailsInv ==
    ASSUME NEW h \in Handle, Inv, ReleaseAllFails(h)
    PROVE  Inv'
BY MaxFaultsAssumption DEF ReleaseAllFails, Inv, TypeOK, TxState, CountMatchesSession,
    NoStrandedLock, OneSession, WaitsInTx, Connected

\* A statement fails: nothing is given back.
LEMMA StatementFailsInv ==
    ASSUME NEW h \in Handle, Inv, StatementFails(h)
    PROVE  Inv'
BY DEF StatementFails, Inv, TypeOK, TxState, CountMatchesSession, NoStrandedLock,
    OneSession, WaitsInTx, Connected

\* The session ends with its connection, and frees the lock.
LEMMA ConnectionLostInv ==
    ASSUME NEW h \in Handle, Inv, ConnectionLost(h)
    PROVE  Inv'
BY DEF ConnectionLost, Inv, TypeOK, TxState, CountMatchesSession, NoStrandedLock,
    OneSession, WaitsInTx, Connected

\* A process dies with its handles.
LEMMA CrashInv ==
    ASSUME NEW p \in Process, Inv, Crash(p)
    PROVE  Inv'
BY DEF Crash, Inv, TypeOK, TxState, CountMatchesSession, NoStrandedLock,
    OneSession, WaitsInTx, Connected

\* Every step keeps it.
LEMMA NextInv == Inv /\ [Next]_vars => Inv'
<1> SUFFICES ASSUME Inv, [Next]_vars PROVE Inv'
  OBVIOUS
<1>1. ASSUME NEW h \in Handle, Step(h) PROVE Inv'
  BY <1>1, NewAdvisoryLockInv, AcquireCallInv, AcquireReturnInv, TryAcquireInv,
     ReleaseInv, ReleaseAllInv, ReleaseAllFailsInv, StatementFailsInv,
     ConnectionLostInv DEF Step
<1>2. ASSUME NEW p \in Process, Crash(p) PROVE Inv'
  BY <1>2, CrashInv
<1>3. CASE UNCHANGED vars
  BY <1>3 DEF vars, Inv, TypeOK, CountMatchesSession, NoStrandedLock, OneSession,
     WaitsInTx, Connected
<1>4. QED BY <1>1, <1>2, <1>3 DEF Next

\* The inductive invariant holds, whatever statements fail, connections break
\* and processes die.
THEOREM Invariant == Spec => []Inv
BY InitInv, NextInv, PTL DEF Spec

\* The state of every handle keeps its type.
THEOREM TypeCorrect == Spec => []TypeOK
<1>1. Inv => TypeOK BY DEF Inv
<1>2. QED BY <1>1, Invariant, PTL

\* The count of a handle is what its session holds: postgresAdvisoryLock.count
\* never drifts from the server's count on any path.
THEOREM CountFollowsSession == Spec => []CountMatchesSession
<1>1. Inv => CountMatchesSession BY DEF Inv
<1>2. QED BY <1>1, Invariant, PTL

\* No connection is given back to the pool with the lock.
THEOREM NothingStranded == Spec => []NoStrandedLock
<1>1. Inv => NoStrandedLock BY DEF Inv
<1>2. QED BY <1>1, Invariant, PTL

\* Two handles with live sessions never both believe that they own the lock,
\* however many handles and processes there are.
THEOREM Exclusion == Spec => []MutualExclusion
<1>1. Inv => MutualExclusion
  BY DEF Inv, TypeOK, CountMatchesSession, OneSession, MutualExclusion, Believes
<1>2. QED BY <1>1, Invariant, PTL

-----------------------------------------------------------------------------
(* The refinement of AbstractLock.                                         *)

\* Who counts an acquisition is whose session holds the lock.
LEMMA BeliefIsRight ==
    ASSUME Inv, NEW h \in Handle
    PROVE  Believes(h) <=> held[h] > 0
BY DEF Inv, TypeOK, CountMatchesSession, NoStrandedLock, Believes

\* The same in the next state.
LEMMA BeliefIsRightNext ==
    ASSUME Inv', NEW h \in Handle
    PROVE  Believes(h)' <=> held'[h] > 0
BY DEF Inv, TypeOK, CountMatchesSession, NoStrandedLock, Believes, Connected

\* A handle whose session holds the lock is the owner ...
LEMMA OwnerHolds ==
    ASSUME NEW h \in Handle, Inv, held[h] > 0
    PROVE  owner = h
<1>1. Believes(h)
  BY BeliefIsRight
<1>2. PICK g \in Handle : owner = g /\ Believes(g)
  BY <1>1 DEF owner
<1>3. QED BY <1>2, BeliefIsRight DEF Inv, OneSession

\* ... and there is none while no session does.
LEMMA NobodyHolds ==
    ASSUME Inv, \A h \in Handle : ~(held[h] > 0)
    PROVE  owner = NoHandle
BY BeliefIsRight DEF owner

\* The two lemmas above, in the next state.
LEMMA OwnerHoldsNext ==
    ASSUME NEW h \in Handle, Inv', held'[h] > 0
    PROVE  owner' = h
<1>1. Believes(h)'
  BY BeliefIsRightNext
<1>2. PICK g \in Handle : owner' = g /\ Believes(g)'
  BY <1>1 DEF owner
<1>3. QED BY <1>2, BeliefIsRightNext DEF Inv, OneSession

\* The same for a free lock.
LEMMA NobodyHoldsNext ==
    ASSUME Inv', \A h \in Handle : ~(held'[h] > 0)
    PROVE  owner' = NoHandle
BY BeliefIsRightNext DEF owner

\* A step after which a handle's session holds the lock, and before which no
\* other's did, grants it or leaves it where it is.
LEMMA Grants ==
    ASSUME NEW h \in Handle, Inv, Inv', held'[h] > 0,
           \A g \in Handle \ {h} : ~(held[g] > 0)
    PROVE  [Abstract!Next]_owner
<1>1. owner' = h
  BY OwnerHoldsNext
<1>2. CASE held[h] > 0
  BY <1>1, <1>2, OwnerHolds
<1>3. CASE ~(held[h] > 0)
  <2>1. owner = NoHandle
    BY <1>3, NobodyHolds
  <2>2. Abstract!Grant(h)
    BY <1>1, <2>1 DEF Abstract!Grant
  <2>3. QED BY <2>2 DEF Abstract!Next
<1>4. QED BY <1>2, <1>3

\* A step that takes the lock from sessions and gives it to none frees it or
\* leaves it where it is.
LEMMA Frees ==
    ASSUME Inv, Inv',
           \A g \in Handle : held'[g] > 0 => held[g] > 0
    PROVE  [Abstract!Next]_owner
<1>1. CASE \E h \in Handle : held'[h] > 0
  <2>1. PICK h \in Handle : held'[h] > 0
    BY <1>1
  <2>2. owner' = h /\ owner = h
    BY <2>1, OwnerHolds, OwnerHoldsNext
  <2>3. QED BY <2>2
<1>2. CASE ~ \E h \in Handle : held'[h] > 0
  <2>1. owner' = NoHandle
    BY <1>2, NobodyHoldsNext
  <2>2. CASE \E h \in Handle : held[h] > 0
    <3>1. PICK h \in Handle : held[h] > 0
      BY <2>2
    <3>2. Abstract!Free(h)
      BY <2>1, <3>1, OwnerHolds DEF Abstract!Free
    <3>3. QED BY <3>2 DEF Abstract!Next
  <2>3. CASE ~ \E h \in Handle : held[h] > 0
    BY <2>1, <2>3, NobodyHolds
  <2>4. QED BY <2>2, <2>3
<1>3. QED BY <1>1, <1>2

\* The steps of a handle: those that grant, those that leave the lock alone,
\* and those that give it back.
LEMMA StepRefines ==
    ASSUME NEW h \in Handle, Inv, Inv', Step(h)
    PROVE  [Abstract!Next]_owner
<1>1. CASE AcquireReturn(h) \/ TryAcquire(h)
  <2>1. held'[h] > 0 /\ \A g \in Handle \ {h} : ~(held[g] > 0)
    BY <1>1 DEF AcquireReturn, TryAcquire, FreeFor, Inv, TypeOK
  <2>2. QED BY <2>1, Grants
<1>2. CASE NewAdvisoryLock(h) \/ AcquireCall(h) \/ ReleaseIdle(h)
           \/ ReleaseRejected(h) \/ StatementFails(h)
  <2>1. \A g \in Handle : held'[g] > 0 => held[g] > 0
    BY <1>2 DEF NewAdvisoryLock, AcquireCall, ReleaseIdle, ReleaseRejected,
        StatementFails, vars
  <2>2. QED BY <2>1, Frees
<1>3. CASE ReleaseHeld(h) \/ ReleaseAll(h) \/ ReleaseAllFails(h) \/ ConnectionLost(h)
  <2>1. \A g \in Handle : held'[g] > 0 => held[g] > 0
    BY <1>3 DEF ReleaseHeld, ReleaseAll, ReleaseAllFails, ConnectionLost, Inv, TypeOK
  <2>2. QED BY <2>1, Frees
<1>4. QED BY <1>1, <1>2, <1>3 DEF Step, Release

\* A process that dies gives back what its sessions hold.
LEMMA CrashRefines ==
    ASSUME NEW p \in Process, Inv, Inv', Crash(p)
    PROVE  [Abstract!Next]_owner
<1>1. \A g \in Handle : held'[g] > 0 => held[g] > 0
  BY DEF Crash, Inv, TypeOK
<1>2. QED BY <1>1, Frees

\* Every step maps to a step of AbstractLock, or to none.
LEMMA NextRefines == Inv /\ Inv' /\ [Next]_vars => [Abstract!Next]_owner
<1> SUFFICES ASSUME Inv, Inv', [Next]_vars PROVE [Abstract!Next]_owner
  OBVIOUS
<1>1. CASE UNCHANGED vars
  <2>1. \A g \in Handle : held'[g] > 0 => held[g] > 0
    BY <1>1 DEF vars
  <2>2. QED BY <2>1, Frees
<1>2. ASSUME NEW h \in Handle, Step(h) PROVE [Abstract!Next]_owner
  BY <1>2, StepRefines
<1>3. ASSUME NEW p \in Process, Crash(p) PROVE [Abstract!Next]_owner
  BY <1>3, CrashRefines
<1>4. QED BY <1>1, <1>2, <1>3 DEF Next

\* In the initial state nobody owns the lock.
LEMMA InitRefines == Init => Abstract!Init
BY InitInv, NobodyHolds DEF Init, Abstract!Init

\* The handles of all processes together implement AbstractLock by what they
\* count: a handle begins to count only when no other one does.
THEOREM Refinement == Spec => ImplementsAbstractLock
BY InitRefines, NextRefines, Invariant, PTL DEF Spec, ImplementsAbstractLock, Abstract!Spec
=============================================================================
