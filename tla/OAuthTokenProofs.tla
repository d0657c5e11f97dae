-------------------------- MODULE OAuthTokenProofs --------------------------
(***************************************************************************)
(* Proofs about OAuthToken, for any number of clients, tokens and faults.  *)
(***************************************************************************)
EXTENDS OAuthToken, TLAPS

Numbers ==
    /\ issued \in 1 .. MaxToken
    /\ saved \in 1 .. MaxToken
    /\ tok \in [Client -> 0 .. MaxToken]
    /\ refresher \in [Client -> 0 .. MaxToken]
    /\ faults \in Nat

Places ==
    /\ expired \in BOOLEAN
    /\ pc \in [Client -> Pc]
    /\ old \in SUBSET Client
    /\ lockOwner \in Client \cup {Nobody}
    /\ broken \in BOOLEAN
    /\ rejected \in BOOLEAN
    /\ wasted \in BOOLEAN

\* An access token that has expired can still be replaced within the bound.
CanRefresh == expired => issued < MaxToken

\* Only a client that exists makes calls, and it has both its tokens.
Present ==
    \A c \in Client :
        /\ tok[c] = 0 <=> refresher[c] = 0
        /\ pc[c] # "idle" => tok[c] # 0

Typed == Numbers /\ Places /\ CanRefresh /\ Present

\* Types, in the initial state.
LEMMA TypedInit == Init => Typed
<1> SUFFICES ASSUME Init PROVE Typed
  OBVIOUS
<1>1. Numbers
  BY BoundAssumption DEF Init, Numbers
<1>2. Places
  BY Zenon DEF Init, Places, Pc
<1>3. CanRefresh
  BY BoundAssumption DEF Init, CanRefresh
<1>4. Present
  BY DEF Init, Present
<1>5. QED
  BY <1>1, <1>2, <1>3, <1>4 DEF Typed

\* The numbers keep their types, and the bound leaves room for a refresh.
LEMMA NumbersNext == Typed /\ [Next]_vars => Numbers' /\ CanRefresh'
<1> SUFFICES ASSUME Numbers, CanRefresh, Present, pc \in [Client -> Pc], [Next]_vars
             PROVE Numbers' /\ CanRefresh'
  BY DEF Typed, Places
<1> USE BoundAssumption DEF Numbers, CanRefresh
<1>1. ASSUME NEW c \in Client, NewClient(c) \/ Drop(c) PROVE Numbers' /\ CanRefresh'
  BY <1>1 DEF NewClient, Drop
<1>2. ASSUME NEW c \in Client, Call(c) \/ Acquire(c) \/ Release(c) \/ Reuse(c) \/ RefreshRejected(c)
      PROVE Numbers' /\ CanRefresh'
  BY <1>2 DEF Call, Acquire, Release, Reuse, RefreshRejected
<1>3. ASSUME NEW c \in Client, Read(c) PROVE Numbers' /\ CanRefresh'
  BY <1>3 DEF Read
<1>4. ASSUME NEW c \in Client, Refresh(c) PROVE Numbers' /\ CanRefresh'
  BY <1>4 DEF Refresh
<1>5. ASSUME NEW c \in Client, Save(c) \/ SaveFails(c) PROVE Numbers' /\ CanRefresh'
  <2>1. refresher[c] \in 1 .. MaxToken
    BY <1>5 DEF Save, SaveFails, Present
  <2>2. QED
    BY <1>5, <2>1 DEF Save, SaveFails, Fault
<1>6. ASSUME NEW c \in Client, RefreshLost(c) \/ Fails(c) \/ LoseLock(c) PROVE Numbers' /\ CanRefresh'
  BY <1>6 DEF RefreshLost, Fails, LoseLock, Fault
<1>7. CASE Expire
  BY <1>7 DEF Expire
<1>8. CASE UNCHANGED vars
  BY <1>8 DEF vars
<1>9. QED
  BY <1>1, <1>2, <1>3, <1>4, <1>5, <1>6, <1>7, <1>8 DEF Next, TokenCall, TokenCallFails

\* All else keeps its type.
LEMMA PlacesNext == Typed /\ [Next]_vars => Places'
<1> SUFFICES ASSUME Places, [Next]_vars PROVE Places'
  BY DEF Typed
<1> USE DEF Places, goto, Pc
<1>1. ASSUME NEW c \in Client, NewClient(c) \/ Drop(c) PROVE Places'
  BY <1>1 DEF NewClient, Drop
<1>2. ASSUME NEW c \in Client, Call(c) \/ Acquire(c) \/ Release(c) PROVE Places'
  BY <1>2 DEF Call, Acquire, Release, Lock!Grant, Lock!Free
<1>3. ASSUME NEW c \in Client, Read(c) \/ Reuse(c) PROVE Places'
  BY <1>3 DEF Read, Reuse
<1>4. ASSUME NEW c \in Client, Refresh(c) \/ RefreshRejected(c) PROVE Places'
  BY <1>4 DEF Refresh, RefreshRejected
<1>5. ASSUME NEW c \in Client, Save(c) \/ SaveFails(c) PROVE Places'
  BY <1>5 DEF Save, SaveFails
<1>6. ASSUME NEW c \in Client, RefreshLost(c) \/ Fails(c) \/ LoseLock(c) PROVE Places'
  BY <1>6 DEF RefreshLost, Fails, LoseLock, Lock!Free
<1>7. CASE Expire
  BY <1>7 DEF Expire
<1>8. CASE UNCHANGED vars
  BY <1>8 DEF vars
<1>9. QED
  BY <1>1, <1>2, <1>3, <1>4, <1>5, <1>6, <1>7, <1>8 DEF Next, TokenCall, TokenCallFails

\* A client in a call keeps its tokens.
LEMMA PresentNext == Typed /\ [Next]_vars => Present'
<1> SUFFICES ASSUME Numbers, pc \in [Client -> Pc], Present, [Next]_vars PROVE Present'
  BY DEF Typed, Places
<1> USE BoundAssumption DEF Numbers, Present, goto
<1>1. ASSUME NEW c \in Client, NewClient(c) \/ Drop(c) PROVE Present'
  BY <1>1 DEF NewClient, Drop, Exists
<1>2. ASSUME NEW c \in Client, Call(c) \/ Acquire(c) \/ Release(c) PROVE Present'
  BY <1>2 DEF Call, Acquire, Release, Exists
<1>3. ASSUME NEW c \in Client, Read(c) \/ Reuse(c) PROVE Present'
  BY <1>3 DEF Read, Reuse
<1>4. ASSUME NEW c \in Client, Refresh(c) \/ RefreshRejected(c) PROVE Present'
  BY <1>4 DEF Refresh, RefreshRejected
<1>5. ASSUME NEW c \in Client, Save(c) \/ SaveFails(c) PROVE Present'
  BY <1>5 DEF Save, SaveFails
<1>6. ASSUME NEW c \in Client, RefreshLost(c) \/ Fails(c) \/ LoseLock(c) PROVE Present'
  BY <1>6 DEF RefreshLost, Fails, LoseLock
<1>7. CASE Expire \/ UNCHANGED vars
  BY <1>7 DEF Expire, vars
<1>8. QED
  BY <1>1, <1>2, <1>3, <1>4, <1>5, <1>6, <1>7 DEF Next, TokenCall, TokenCallFails

\* Every variable keeps its type, whatever fails.
THEOREM TypeCorrect == Spec => []TypeOK
<1>1. Typed /\ [Next]_vars => Typed'
  BY NumbersNext, PlacesNext, PresentNext DEF Typed
<1>2. Typed => TypeOK
  BY DEF Typed, Numbers, Places, TypeOK
<1>3. QED
  BY TypedInit, <1>1, <1>2, PTL DEF Spec

-----------------------------------------------------------------------------
(* What the lock and the second look at the row are for.                   *)

Inside == {"read", "refresh", "save", "release"}

\* The part of Token() that the lock is taken for is entered with it, and left
\* with it unless it is lost.
Locked == broken \/ \A c \in Client : pc[c] \in Inside => lockOwner = c

\* A client made since the last save refreshes with the token in the row.
Fresh ==
    \A c \in Client :
        (Exists(c) /\ c \notin old /\ pc[c] # "save") => refresher[c] = saved

\* When the token expires, the clients made before it are gone.
Renewed == expired => old = {}

\* A refresh is asked for only when the token issued last has expired, unless
\* calls overlap.
Needed == broken \/ \A c \in Client : pc[c] = "refresh" => expired

\* What is about to be saved is the token issued last, and it is valid.
Saving == \A c \in Client : pc[c] = "save" => refresher[c] = issued /\ ~expired

\* The row has the token issued last unless somebody is about to save it.
Current == (\A c \in Client : pc[c] # "save") => saved = issued

\* As long as every token that was issued got saved.
Orderly == Fresh /\ Renewed /\ Needed /\ Saving /\ Current /\ ~rejected

\* The inductive invariant.
Inv == Typed /\ Locked /\ (wasted \/ Orderly)

\* The lock keeps its word through every step, failing ones included, until it
\* is lost; when the token expires, all calls are over.
LEMMA LockedNext == Typed /\ Locked /\ [Next]_vars => Locked'
<1> SUFFICES ASSUME pc \in [Client -> Pc], Locked, [Next]_vars PROVE Locked'
  BY DEF Typed, Places
<1> USE NobodyAssumption DEF Locked, Inside, goto
<1>1. ASSUME NEW c \in Client, NewClient(c) \/ Drop(c) \/ Call(c) PROVE Locked'
  BY <1>1 DEF NewClient, Drop, Call
<1>2. ASSUME NEW c \in Client, Acquire(c) \/ Release(c) PROVE Locked'
  BY <1>2 DEF Acquire, Release, Lock!Grant, Lock!Free
<1>3. ASSUME NEW c \in Client, Read(c) \/ Reuse(c) PROVE Locked'
  BY <1>3 DEF Read, Reuse
<1>4. ASSUME NEW c \in Client, Refresh(c) \/ RefreshRejected(c) PROVE Locked'
  BY <1>4 DEF Refresh, RefreshRejected
<1>5. ASSUME NEW c \in Client, Save(c) \/ TokenCallFails(c) PROVE Locked'
  BY <1>5 DEF Save, TokenCallFails, SaveFails, RefreshLost, Fails, LoseLock
<1>6. CASE Expire \/ UNCHANGED vars
  BY <1>6 DEF Expire, vars
<1>7. QED
  BY <1>1, <1>2, <1>3, <1>4, <1>5, <1>6 DEF Next, TokenCall

\* While calls are apart, a client that asks for a refresh has the token issued
\* last, which has expired: the provider turns no refresh down.
LEMMA RefreshIsRight ==
    ASSUME Typed, Orderly, ~broken, NEW c \in Client, pc[c] = "refresh"
    PROVE  refresher[c] = issued
<1>1. expired /\ old = {}
  BY DEF Orderly, Needed, Renewed
<1>2. \A d \in Client : pc[d] # "save"
  BY <1>1 DEF Orderly, Saving
<1>3. saved = issued
  BY <1>2 DEF Orderly, Current
<1>4. Exists(c)
  BY DEF Typed, Present, Exists
<1>5. QED
  BY <1>1, <1>3, <1>4 DEF Orderly, Fresh

\* A step that wastes no token keeps things in order, even when calls overlap:
\* only one of them can get a new token before all of them are over.
LEMMA OrderlyNext ==
    ASSUME Typed, Locked, Orderly, [Next]_vars
    PROVE  wasted' \/ Orderly'
<1>a. /\ pc \in [Client -> Pc] /\ tok \in [Client -> 0 .. MaxToken]
      /\ refresher \in [Client -> 0 .. MaxToken]
      /\ saved \in 1 .. MaxToken /\ issued \in 1 .. MaxToken
      /\ old \subseteq Client
  BY DEF Typed, Numbers, Places
<1> USE <1>a, NobodyAssumption, BoundAssumption
        DEF Orderly, Fresh, Renewed, Needed, Saving, Current, Exists, goto
<1>1. ASSUME NEW c \in Client, NewClient(c) PROVE Orderly'
  BY <1>1 DEF NewClient
<1>2. ASSUME NEW c \in Client, Drop(c) PROVE Orderly'
  BY <1>2 DEF Drop
<1>3. ASSUME NEW c \in Client, Call(c) \/ Fails(c) \/ LoseLock(c) PROVE Orderly'
  BY <1>3 DEF Call, Fails, LoseLock
<1>4. ASSUME NEW c \in Client, Acquire(c) \/ Release(c) PROVE Orderly'
  BY <1>4 DEF Acquire, Release
<1>5. ASSUME NEW c \in Client, Read(c) PROVE Orderly'
  <2>1. ~broken => \A d \in Client : pc[d] # "save"
    BY <1>5 DEF Read, Locked, Inside
  <2>2. ~broken /\ ~Valid(saved) => expired
    BY <2>1 DEF Valid
  <2>3. tok[c] # 0 /\ pc[c] = "read"
    BY <1>5 DEF Read, Typed, Present
  <2>4. QED
    BY <1>5, <2>2, <2>3 DEF Read
<1>6. ASSUME NEW c \in Client, Reuse(c) PROVE Orderly'
  BY <1>6 DEF Reuse, Valid
<1>7. ASSUME NEW c \in Client, Refresh(c) PROVE Orderly'
  <2>1. broken \/ \A d \in Client : d # c => pc[d] \notin Inside
    BY <1>7 DEF Refresh, Locked, Inside
  <2>2. expired /\ \A d \in Client : pc[d] # "save"
    BY <1>7 DEF Refresh
  <2>3. QED
    BY <1>7, <2>1, <2>2 DEF Refresh, Inside
<1>8. ASSUME NEW c \in Client, RefreshRejected(c) PROVE Orderly'
  <2>1. broken
    BY <1>8, RefreshIsRight DEF RefreshRejected
  <2>2. QED
    BY <1>8, <2>1 DEF RefreshRejected
<1>9. ASSUME NEW c \in Client, Save(c) PROVE Orderly'
  <2>1. refresher[c] = issued /\ ~expired
    BY <1>9 DEF Save
  <2>2. QED
    BY <1>9, <2>1 DEF Save
<1>10. ASSUME NEW c \in Client, SaveFails(c) \/ RefreshLost(c) PROVE wasted'
  BY <1>10 DEF SaveFails, RefreshLost
<1>11. CASE Expire
  BY <1>11 DEF Expire
<1>12. CASE UNCHANGED vars
  BY <1>12 DEF vars
<1>13. QED
  BY <1>1, <1>2, <1>3, <1>4, <1>5, <1>6, <1>7, <1>8, <1>9, <1>10, <1>11, <1>12
     DEF Next, TokenCall, TokenCallFails

\* A token that went unsaved stays on the record.
LEMMA WastedNext == wasted /\ [Next]_vars => wasted'
<1> SUFFICES ASSUME wasted, [Next]_vars PROVE wasted'
  OBVIOUS
<1>1. ASSUME NEW c \in Client, NewClient(c) \/ Drop(c) \/ TokenCall(c) PROVE wasted'
  BY <1>1 DEF NewClient, Drop, TokenCall, Call, Acquire, Read, Reuse, Refresh,
              RefreshRejected, Save, Release
<1>2. ASSUME NEW c \in Client, TokenCallFails(c) PROVE wasted'
  BY <1>2 DEF TokenCallFails, SaveFails, RefreshLost, Fails, LoseLock
<1>3. CASE Expire \/ UNCHANGED vars
  BY <1>3 DEF Expire, vars
<1>4. QED
  BY <1>1, <1>2, <1>3 DEF Next

\* The invariant holds in every state.
THEOREM Invariant == Spec => []Inv
<1>1. Init => Inv
  <2> SUFFICES ASSUME Init PROVE Inv
    OBVIOUS
  <2>1. Typed
    BY TypedInit
  <2>2. Locked
    BY DEF Init, Locked, Inside
  <2>3. Orderly
    BY DEF Init, Orderly, Fresh, Renewed, Needed, Saving, Current, Exists
  <2>4. QED
    BY <2>1, <2>2, <2>3 DEF Inv
<1>2. Inv /\ [Next]_vars => Inv'
  <2> SUFFICES ASSUME Inv, [Next]_vars PROVE Inv'
    OBVIOUS
  <2>1. Typed'
    BY NumbersNext, PlacesNext, PresentNext DEF Inv, Typed
  <2>2. Locked'
    BY LockedNext DEF Inv
  <2>3. wasted' \/ Orderly'
    BY WastedNext, OrderlyNext DEF Inv
  <2>4. QED
    BY <2>1, <2>2, <2>3 DEF Inv
<1>3. QED
  BY <1>1, <1>2, PTL DEF Spec

\* No process presents a refresh token that another has already used, however
\* many clients there are and whatever fails, unless a token that the provider
\* issued went unsaved before, or a lock was lost since the token expired.
THEOREM RefreshesDoNotCollide == Spec => []NoRefreshRejected
<1>1. Inv => NoRefreshRejected
  BY DEF Inv, Orderly, NoRefreshRejected
<1>2. QED
  BY Invariant, <1>1, PTL

\* Until a token goes unsaved, the row holds the one issued last whenever no
\* call is about to save it, also when locks are lost and calls overlap.
THEOREM RowStaysCurrent == Spec => []RowIsCurrent
<1>1. Inv => RowIsCurrent
  BY DEF Inv, Orderly, Current, RowIsCurrent
<1>2. QED
  BY Invariant, <1>1, PTL
=============================================================================
