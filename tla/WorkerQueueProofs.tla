-------------------------- MODULE WorkerQueueProofs --------------------------
(***************************************************************************)
(* Proofs about WorkerQueue, for any keys, groups and bounds.              *)
(***************************************************************************)
EXTENDS WorkerQueue, TLAPS

\* The map holds the last item of a key or none, and not one f has dealt with.
QueuedIsLatest ==
    \A k \in Key :
        /\ queued[k] \in {0, latest[k]}
        /\ queued[k] # 0 => handled[k] < queued[k]
        /\ handled[k] <= latest[k]

\* An item that the worker has is still the one in the map, unless it was
\* overtaken; in any case the map holds the last item of its key.
BatchIsQueued ==
    \A k \in Key :
        /\ k \in current => batch[k] # 0
        /\ batch[k] # 0 => queued[k] = latest[k]
        /\ batch[k] <= latest[k]
        /\ batch[k] \notin {0, latest[k]} => k \in overtaken

\* The inductive invariant.  NoItemLost alone is not inductive: that deleting
\* a key loses nothing depends on what the worker holds for the key, and that
\* keeping it after an error does, on nobody else deleting it.
Inv ==
    /\ TypeOK
    /\ QueuedIsLatest
    /\ BatchIsQueued
    /\ NoItemLost
    /\ NoItemRepeated

\* The initial state satisfies it.
LEMMA InitInv == Init => Inv
BY BoundAssumption DEF Init, Nothing, Inv, TypeOK, QueuedIsLatest, BatchIsQueued,
    NoItemLost, NoItemRepeated

\* Producers.
LEMMA QueueInv ==
    ASSUME NEW k \in Key, Inv, Queue(k) \/ Debounced(k)
    PROVE  Inv'
<1>1. CASE Queue(k)
  <2>1. TypeOK'
    BY <1>1, BoundAssumption DEF Queue, Inv, TypeOK
  <2>2. QueuedIsLatest'
    BY <1>1, BoundAssumption DEF Queue, Inv, TypeOK, QueuedIsLatest
  <2>3. BatchIsQueued'
    BY <1>1, BoundAssumption DEF Queue, Inv, TypeOK, BatchIsQueued
  <2>4. NoItemLost' /\ NoItemRepeated'
    BY <1>1, BoundAssumption DEF Queue, Inv, TypeOK, NoItemLost, NoItemRepeated
  <2>5. QED BY <2>1, <2>2, <2>3, <2>4 DEF Inv
<1>2. CASE Debounced(k)
  BY <1>2 DEF Debounced, Inv, TypeOK, QueuedIsLatest, BatchIsQueued, NoItemLost, NoItemRepeated
<1>3. QED BY <1>1, <1>2

\* The worker begins, ranges over the map, and ends.
LEMMA RangeInv ==
    ASSUME Inv,
           Process \/ ProcessGroup \/ End \/ (\E k \in Key : Visit(k)) \/ (\E g \in Group : TakeGroup(g))
    PROVE  Inv'
<1>1. CASE Process \/ ProcessGroup \/ End
  BY <1>1 DEF Process, ProcessGroup, Begin, End, Inv, TypeOK, QueuedIsLatest, BatchIsQueued,
      NoItemLost, NoItemRepeated
<1>2. ASSUME NEW k \in Key, Visit(k) PROVE Inv'
  <2>1. TypeOK'
    BY <1>2 DEF Visit, Inv, TypeOK
  <2>2. QueuedIsLatest'
    BY <1>2 DEF Visit, Inv, QueuedIsLatest
  <2>3. BatchIsQueued'
    BY <1>2 DEF Visit, Inv, TypeOK, QueuedIsLatest, BatchIsQueued
  <2>4. NoItemLost' /\ NoItemRepeated'
    BY <1>2 DEF Visit, Inv, TypeOK, QueuedIsLatest, NoItemLost, NoItemRepeated
  <2>5. QED BY <2>1, <2>2, <2>3, <2>4 DEF Inv
<1>3. ASSUME NEW g \in Group, TakeGroup(g) PROVE Inv'
  BY <1>3 DEF TakeGroup, Inv, TypeOK, QueuedIsLatest, BatchIsQueued, NoItemLost, NoItemRepeated
<1>4. QED BY <1>1, <1>2, <1>3

\* f returns nil.
LEMMA SucceedInv ==
    ASSUME Inv, Succeed
    PROVE  Inv'
<1> USE DEF Succeed, delete, Forget
<1>1. TypeOK'
  BY BoundAssumption DEF Inv, TypeOK
<1>2. QueuedIsLatest'
  BY DEF Inv, TypeOK, QueuedIsLatest, BatchIsQueued
<1>3. BatchIsQueued'
  BY DEF Inv, TypeOK, BatchIsQueued
<1>4. NoItemLost' /\ NoItemRepeated'
  BY DEF Inv, TypeOK, BatchIsQueued, NoItemLost, NoItemRepeated
<1>5. QED BY <1>1, <1>2, <1>3, <1>4 DEF Inv

\* f returns an error.
LEMMA FailInv ==
    ASSUME Inv, Fail
    PROVE  Inv'
<1> USE DEF Fail, Forget
<1>1. TypeOK'
  BY BoundAssumption DEF Inv, TypeOK
<1>2. QueuedIsLatest'
  BY DEF Inv, QueuedIsLatest
<1>3. BatchIsQueued'
  BY DEF Inv, TypeOK, BatchIsQueued
<1>4. NoItemLost' /\ NoItemRepeated'
  BY DEF Inv, TypeOK, BatchIsQueued, NoItemLost, NoItemRepeated
<1>5. QED BY <1>1, <1>2, <1>3, <1>4 DEF Inv

\* Every step keeps it.
LEMMA NextInv == Inv /\ [Next]_vars => Inv'
<1> SUFFICES ASSUME Inv, [Next]_vars PROVE Inv'
  OBVIOUS
<1>1. ASSUME NEW k \in Key, Queue(k) \/ Debounced(k) PROVE Inv'
  BY <1>1, QueueInv
<1>2. CASE Worker
  BY <1>2, RangeInv, SucceedInv DEF Worker
<1>3. CASE Fail
  BY <1>3, FailInv
<1>4. CASE UNCHANGED vars
  BY <1>4 DEF vars, Inv, TypeOK, QueuedIsLatest, BatchIsQueued, NoItemLost, NoItemRepeated
<1>5. QED BY <1>1, <1>2, <1>3, <1>4 DEF Next

\* The inductive invariant holds in every reachable state.
THEOREM Invariant == Spec => []Inv
BY InitInv, NextInv, PTL DEF Spec

\* Every variable of the queue keeps its type.
THEOREM TypeCorrect == Spec => []TypeOK
<1>1. Inv => TypeOK BY DEF Inv
<1>2. QED BY <1>1, Invariant, PTL

\* Errors, delays and concurrent Queue calls lose no item, but for one that
\* was queued while f worked on an older item of its key.
THEOREM NothingLost == Spec => []NoItemLost
<1>1. Inv => NoItemLost BY DEF Inv
<1>2. QED BY <1>1, Invariant, PTL

\* f never sees an item again that it has dealt with, nor an older one.
THEOREM NothingRepeated == Spec => []NoItemRepeated
<1>1. Inv => NoItemRepeated BY DEF Inv
<1>2. QED BY <1>1, Invariant, PTL
=============================================================================
