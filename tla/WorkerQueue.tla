----------------------------- MODULE WorkerQueue -----------------------------
(***************************************************************************)
(* The in-memory queues of internal/worker/worker_queue (queue.go), which  *)
(* carry work from request handlers to a background worker: a map from the *)
(* key of an item to the item and the time until which it is debounced.    *)
(* Request handlers call Queue at any time; the worker calls Process or    *)
(* ProcessGroup once per interval.                                         *)
(*                                                                         *)
(* The items queued for one key are numbered in the order of the calls.    *)
(***************************************************************************)
EXTENDS Integers

CONSTANTS
    Key,        \* keys of items
    Group,      \* group keys
    GroupOf,    \* getGroupKey: the group of each key
    MaxItem,    \* bound on the items queued for one key
    MaxFailure  \* bound on the errors of the processing function

ASSUME GroupOfAssumption == GroupOf \in [Key -> Group]
ASSUME BoundAssumption == MaxItem \in Nat \ {0} /\ MaxFailure \in Nat

VARIABLES
    queued,     \* the item queued for each key; 0 is none
    due,        \* keys whose debounce time has passed
    latest,     \* the last item queued for each key so far
    pc,         \* the worker: idle, ranging over the map, or processing
    unseen,     \* keys that Range has not visited yet
    batch,      \* the item of each key handed, or to be handed, to f
    current,    \* the keys whose items f is working on
    handled,    \* the last item of each key for which f returned nil (history)
    overtaken,  \* keys queued again while f had an older item (history)
    failures

vars == <<queued, due, latest, pc, unseen, batch, current, handled, overtaken, failures>>

Nothing == [k \in Key |-> 0]

Init ==
    /\ queued = Nothing
    /\ due = {}
    /\ latest = Nothing
    /\ pc = "idle"
    /\ unseen = {}
    /\ batch = Nothing
    /\ current = {}
    /\ handled = Nothing
    /\ overtaken = {}
    /\ failures = 0

-----------------------------------------------------------------------------
(* The producers.                                                          *)

\* An item replaces the one of its key, and the debounce time starts anew.
Queue(k) ==
    /\ latest[k] < MaxItem
    /\ latest' = [latest EXCEPT ![k] = @ + 1]
    /\ queued' = [queued EXCEPT ![k] = latest[k] + 1]
    /\ due' = due \ {k}
    /\ overtaken' = IF batch[k] # 0 THEN overtaken \cup {k} ELSE overtaken \ {k}
    /\ UNCHANGED <<pc, unseen, batch, current, handled, failures>>

Debounced(k) ==
    /\ queued[k] # 0
    /\ k \notin due
    /\ due' = due \cup {k}
    /\ UNCHANGED <<queued, latest, pc, unseen, batch, current, handled, overtaken, failures>>

-----------------------------------------------------------------------------
(* The worker.                                                             *)

IsEmpty == queued = Nothing

\* The worker is skipped while the queue is empty.
Begin(mode) ==
    /\ pc = "idle"
    /\ ~IsEmpty
    /\ pc' = mode
    /\ unseen' = Key
    /\ UNCHANGED <<queued, due, latest, batch, current, handled, overtaken, failures>>

\* Range visits a key: Process hands a due item to f at once, ProcessGroup
\* only collects it.
Visit(k) ==
    /\ pc \in {"process", "collect"}
    /\ current = {}
    /\ k \in unseen
    /\ unseen' = unseen \ {k}
    /\ IF queued[k] # 0 /\ k \in due
       THEN /\ batch' = [batch EXCEPT ![k] = queued[k]]
            /\ current' = IF pc = "process" THEN {k} ELSE {}
       ELSE UNCHANGED <<batch, current>>
    /\ UNCHANGED <<queued, due, latest, pc, handled, overtaken, failures>>

\* Mutant: what is deleted afterwards is the group's key, not its items'.
TakeGroupKey(g) ==
    /\ pc = "collect"
    /\ unseen = {}
    /\ current = {}
    /\ \E k \in Key : GroupOf[k] = g /\ batch[k] # 0
    /\ current' = {g}
    /\ UNCHANGED <<queued, due, latest, pc, unseen, batch, handled, overtaken, failures>>

\* ProcessGroup hands each group it collected to f.
TakeGroup(g) ==
    /\ pc = "collect"
    /\ unseen = {}
    /\ current = {}
    /\ current' = {k \in Key : GroupOf[k] = g /\ batch[k] # 0}
    /\ current' # {}
    /\ UNCHANGED <<queued, due, latest, pc, unseen, batch, handled, overtaken, failures>>

\* What the worker knows of the items f has dealt with.
Forget(ks) == batch' = [k \in Key |-> IF k \in ks THEN 0 ELSE batch[k]]

\* delete: by key, whatever the map holds for it by now.
delete(ks) ==
    /\ queued' = [k \in Key |-> IF k \in ks THEN 0 ELSE queued[k]]
    /\ due' = due \ ks

\* Mutant: the item stays in the queue.
SucceedKeeps ==
    /\ current # {}
    /\ handled' = [k \in Key |-> IF k \in current THEN batch[k] ELSE handled[k]]
    /\ Forget(current)
    /\ current' = {}
    /\ UNCHANGED <<queued, due, latest, pc, unseen, overtaken, failures>>

\* f returns nil: its items are deleted.
Succeed ==
    /\ current # {}
    /\ delete(current)
    /\ handled' = [k \in Key |-> IF k \in current THEN batch[k] ELSE handled[k]]
    /\ Forget(current)
    /\ current' = {}
    /\ UNCHANGED <<latest, pc, unseen, overtaken, failures>>

\* Mutant: the item is deleted whatever f returns.
FailDeletes ==
    /\ current # {}
    /\ failures < MaxFailure
    /\ failures' = failures + 1
    /\ delete(current)
    /\ Forget(current)
    /\ overtaken' = overtaken \ current
    /\ current' = {}
    /\ UNCHANGED <<latest, pc, unseen, handled>>

\* f returns an error, ErrWorkerQueueItemDelayed or another: its items stay.
Fail ==
    /\ current # {}
    /\ failures < MaxFailure
    /\ failures' = failures + 1
    /\ Forget(current)
    /\ overtaken' = overtaken \ current
    /\ current' = {}
    /\ UNCHANGED <<queued, due, latest, pc, unseen, handled>>

End ==
    /\ pc # "idle"
    /\ unseen = {}
    /\ current = {}
    /\ batch = Nothing
    /\ pc' = "idle"
    /\ UNCHANGED <<queued, due, latest, unseen, batch, current, handled, overtaken, failures>>

Process == Begin("process")
ProcessGroup == Begin("collect")

Worker ==
    \/ Process \/ ProcessGroup
    \/ \E k \in Key : Visit(k)
    \/ \E g \in Group : TakeGroup(g)
    \/ Succeed
    \/ End

Next ==
    \/ \E k \in Key : Queue(k) \/ Debounced(k)
    \/ Worker
    \/ Fail

Spec == Init /\ [][Next]_vars

-----------------------------------------------------------------------------
TypeOK ==
    /\ queued \in [Key -> 0 .. MaxItem]
    /\ due \in SUBSET Key
    /\ latest \in [Key -> 0 .. MaxItem]
    /\ pc \in {"idle", "process", "collect"}
    /\ unseen \in SUBSET Key
    /\ batch \in [Key -> 0 .. MaxItem]
    /\ current \in SUBSET Key
    /\ handled \in [Key -> 0 .. MaxItem]
    /\ overtaken \in SUBSET Key
    /\ failures \in Nat

\* The last item queued for a key is in the queue until f has dealt with it:
\* errors and delays keep it there.  Only an item that was queued while f
\* worked on an older one of its key can vanish without having been seen.
NoItemLost ==
    \A k \in Key :
        \/ queued[k] = latest[k]
        \/ handled[k] = latest[k]
        \/ k \in overtaken

\* What f gets is newer than whatever it has dealt with for that key: an item
\* comes again only after an error, never after success, and no older one after
\* it, although Queue replaces items and delete removes them by key alone.
NoItemRepeated ==
    \A k \in Key : batch[k] # 0 => handled[k] < batch[k]

-----------------------------------------------------------------------------
\* The worker runs once per interval, f returns, debounce times pass.
FairSpec ==
    /\ Spec
    /\ \A k \in Key : WF_vars(Debounced(k)) /\ WF_vars(Visit(k))
    /\ \A g \in Group : WF_vars(TakeGroup(g))
    /\ WF_vars(Process \/ ProcessGroup)
    /\ WF_vars(Succeed)
    /\ WF_vars(End)

\* An item is dealt with in the end, after however many errors and delays,
\* unless a later one replaces it or it overtook an older one.
EventuallyHandled ==
    \A k \in Key : \A i \in 1 .. MaxItem :
        (queued[k] = i /\ k \notin overtaken) ~> (handled[k] >= i \/ latest[k] > i)
=============================================================================
