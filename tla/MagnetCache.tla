------------------------------ MODULE MagnetCache ------------------------------
(***************************************************************************)
(* buddy/store.go and magnet_cache/db.go: whether a store has a torrent at *)
(* hand.  An instance remembers what it learned of it in a row, believes   *)
(* the row until it is stale, and then asks its peer, another instance,    *)
(* which may ask its own; the last word is the store's.  What is learned   *)
(* is written by goroutines that nobody waits for, and posted to the peer. *)
(*                                                                         *)
(* One torrent of one store; instances 1 .. N, the peer of i is i + 1.     *)
(* Time is in hours: requests and goroutines end in the hour they began.   *)
(***************************************************************************)
EXTENDS Integers

CONSTANTS
    N,              \* length of the chain of instances
    Req,            \* requests of an hour
    CachedStale,    \* hours until a row that says cached is stale
    UncachedStale   \* the same of one that does not

ASSUME ChainAssumption == N \in Nat \ {0}
ASSUME StaleAssumption == CachedStale \in Nat \ {0} /\ UncachedStale \in Nat \ {0}

Instance == 1 .. N

\* Hours that what instance i believes can be old: each instance of the chain
\* believes its peer for as long as it would believe the store.
Bound(i) == (N + 1 - i) * CachedStale

\* Ages are not counted beyond these.
Old == CachedStale + UncachedStale
Far == Bound(1) + UncachedStale + 1

\* What may be so of the store: it has the torrent, it has not, or it has not
\* but lists its files.
Fact == {"cached", "uncached", "listed"}
Answer == {"cached", "unknown", "none"}
\* A row to write; "spread" if the peer is to be told.
Task == [at : Instance, cached : BOOLEAN, spread : BOOLEAN]

VARIABLES
    truth,   \* the store has the torrent
    ago,     \* history: hours since a fact was so
    row,
    tasks,   \* goroutines under way
    pc, from,
    at,      \* the instance that looks the torrent up, or has answered
    ans

store == <<truth, ago>>
req == <<pc, from, at, ans>>
vars == <<store, row, tasks, req>>

\* A row that is not there is as good as a stale one.
Init ==
    /\ truth \in BOOLEAN
    /\ ago = [f \in Fact |-> IF f = (IF truth THEN "cached" ELSE "uncached") THEN 0 ELSE Far]
    /\ row = [i \in Instance |-> [cached |-> FALSE, age |-> Old]]
    /\ tasks = {}
    /\ pc = [r \in Req |-> "idle"]
    /\ from = [r \in Req |-> 1]
    /\ at = [r \in Req |-> 1]
    /\ ans = [r \in Req |-> "none"]

-----------------------------------------------------------------------------
(* The store and the clock.                                                *)

Change ==
    /\ truth' = ~truth
    /\ ago' = [ago EXCEPT ![IF truth THEN "uncached" ELSE "cached"] = 0]
    /\ UNCHANGED <<row, tasks, req>>

Aged(age, cap) == IF age < cap THEN age + 1 ELSE age
IsNow(f) == f = (IF truth THEN "cached" ELSE "uncached")

Tick ==
    /\ tasks = {}
    /\ \A r \in Req : pc[r] \in {"idle", "done"}
    /\ ago' = [f \in Fact |-> IF IsNow(f) THEN 0 ELSE Aged(ago[f], Far)]
    /\ row' = [i \in Instance |-> [row[i] EXCEPT !.age = Aged(row[i].age, Old)]]
    /\ pc' = [r \in Req |-> "idle"]
    /\ ans' = [r \in Req |-> "none"]
    /\ UNCHANGED <<truth, tasks, from, at>>

-----------------------------------------------------------------------------
(* Writing what was learned.                                               *)

\* TrackMagnet and BulkTrackMagnet, and BulkTouch if nothing is to spread.  The
\* peer is told of files only, and takes a torrent with files for cached.
Touch(t) ==
    /\ t \in tasks
    /\ row' = [row EXCEPT ![t.at] = [cached |-> t.cached, age |-> 0]]
    /\ tasks' = (tasks \ {t}) \cup
           {u \in Task : t.spread /\ u = [at |-> t.at + 1, cached |-> TRUE, spread |-> TRUE]}
    /\ UNCHANGED <<store, req>>

\* The statement or the call to the peer fails, or the process dies.
Lose(t) ==
    /\ t \in tasks
    /\ tasks' = tasks \ {t}
    /\ UNCHANGED <<store, row, req>>

\* A magnet is added, played or asked for at instance i: the store tells its
\* status and, perhaps, its files.
Observe(r, i, files) ==
    /\ pc[r] = "idle"
    /\ pc' = [pc EXCEPT ![r] = "done"]
    /\ tasks' = tasks \cup {[at |-> i, cached |-> truth, spread |-> files]}
    /\ ago' = IF files /\ ~truth THEN [ago EXCEPT !["listed"] = 0] ELSE ago
    /\ UNCHANGED <<truth, row, from, at, ans>>

-----------------------------------------------------------------------------
(* CheckMagnet.                                                            *)

\* Mutant: twice the time that is configured.
IsStaleLate(m) == m.age > 2 * (IF m.cached THEN CachedStale ELSE UncachedStale)

IsStale(m) == m.age > (IF m.cached THEN CachedStale ELSE UncachedStale)

Check(r, i) ==
    /\ pc[r] = "idle"
    /\ pc' = [pc EXCEPT ![r] = "look"]
    /\ from' = [from EXCEPT ![r] = i]
    /\ at' = [at EXCEPT ![r] = i]
    /\ UNCHANGED <<store, row, tasks, ans>>

Answers(r, a) ==
    /\ ans' = [ans EXCEPT ![r] = a]
    /\ pc' = [pc EXCEPT ![r] = "back"]

Hit(r) ==
    /\ pc[r] = "look"
    /\ ~IsStale(row[at[r]])
    /\ Answers(r, IF row[at[r]].cached THEN "cached" ELSE "unknown")
    /\ UNCHANGED <<store, row, tasks, from, at>>

\* A row that says cached is not seen by a request for a film or an episode
\* that none of its files is known for.
Missing(r) == IsStale(row[at[r]]) \/ row[at[r]].cached

\* Mutant: an instance without a peer asks one.
AskAnyway(r) ==
    /\ pc[r] = "look"
    /\ Missing(r)
    /\ at' = [at EXCEPT ![r] = at[r] + 1]
    /\ UNCHANGED <<store, row, tasks, pc, from, ans>>

Ask(r) ==
    /\ pc[r] = "look"
    /\ Missing(r)
    /\ at[r] < N
    /\ at' = [at EXCEPT ![r] = at[r] + 1]
    /\ UNCHANGED <<store, row, tasks, pc, from, ans>>

\* There is no peer, it was slow a moment ago, or the call fails.
Alone(r) ==
    /\ pc[r] = "look"
    /\ Missing(r)
    /\ Answers(r, "none")
    /\ UNCHANGED <<store, row, tasks, from, at>>

\* Mutant: a peer that does not have it is believed as one that does.
ReturnAll(r) ==
    /\ pc[r] = "back" /\ from[r] < at[r]
    /\ at' = [at EXCEPT ![r] = at[r] - 1]
    /\ tasks' = tasks \cup
           {u \in Task : ans[r] # "none" /\ u = [at |-> at[r] - 1, cached |-> ans[r] = "cached", spread |-> FALSE]}
    /\ UNCHANGED <<store, row, pc, from, ans>>

\* The peer's answer is written down if it says cached, and passed on.
Return(r) ==
    /\ pc[r] = "back" /\ from[r] < at[r]
    /\ at' = [at EXCEPT ![r] = at[r] - 1]
    /\ tasks' = tasks \cup
           {u \in Task : ans[r] = "cached" /\ u = [at |-> at[r] - 1, cached |-> TRUE, spread |-> FALSE]}
    /\ UNCHANGED <<store, row, pc, from, ans>>

\* The call to the peer fails, although it has answered.
ReturnFails(r) ==
    /\ pc[r] = "back" /\ from[r] < at[r]
    /\ at' = [at EXCEPT ![r] = at[r] - 1]
    /\ ans' = [ans EXCEPT ![r] = "none"]
    /\ UNCHANGED <<store, row, tasks, pc, from>>

Found(r) ==
    /\ pc[r] = "back" /\ from[r] = at[r]
    /\ ans[r] # "none"
    /\ pc' = [pc EXCEPT ![r] = "done"]
    /\ UNCHANGED <<store, row, tasks, from, at, ans>>

\* The store is asked what no instance knew; its files are tracked.
AskStore(r) ==
    /\ pc[r] = "back" /\ from[r] = at[r]
    /\ ans[r] = "none"
    /\ pc' = [pc EXCEPT ![r] = "done"]
    /\ ans' = [ans EXCEPT ![r] = IF truth THEN "cached" ELSE "unknown"]
    /\ tasks' = tasks \cup
           {u \in Task : truth /\ u = [at |-> at[r], cached |-> TRUE, spread |-> TRUE]}
    /\ UNCHANGED <<store, row, from, at>>

\* The store cannot be asked that, or does not answer.
Unknown(r) ==
    /\ pc[r] = "back" /\ from[r] = at[r]
    /\ ans[r] = "none"
    /\ pc' = [pc EXCEPT ![r] = "done"]
    /\ ans' = [ans EXCEPT ![r] = "unknown"]
    /\ UNCHANGED <<store, row, tasks, from, at>>

-----------------------------------------------------------------------------
Step(r) ==
    \/ Hit(r) \/ Ask(r) \/ Alone(r)
    \/ Return(r) \/ ReturnFails(r)
    \/ Found(r) \/ AskStore(r) \/ Unknown(r)

Goroutine == \E t \in tasks : Touch(t) \/ Lose(t)

Next ==
    \/ Change
    \/ Tick
    \/ \E r \in Req, i \in Instance : Check(r, i) \/ \E files \in BOOLEAN : Observe(r, i, files)
    \/ \E r \in Req : Step(r)
    \/ Goroutine

Spec == Init /\ [][Next]_vars

-----------------------------------------------------------------------------
(* Properties.                                                             *)

TypeOK ==
    /\ truth \in BOOLEAN
    /\ ago \in [Fact -> 0 .. Far]
    /\ row \in [Instance -> [cached : BOOLEAN, age : 0 .. Old]]
    /\ tasks \subseteq Task
    /\ pc \in [Req -> {"idle", "look", "back", "done"}]
    /\ from \in [Req -> Instance]
    /\ at \in [Req -> Instance]
    /\ ans \in [Req -> Answer]

\* The store had the torrent in the last so many hours, or listed its files.
CachedWithin(hours) == ago["cached"] <= hours \/ ago["listed"] <= hours

\* What is believed or answered to be cached was cached, or listed with files, not
\* too long ago, however instances tell one another of it and in whatever order
\* rows are written: a fact gets older by the time of one row with every instance
\* of the chain.
CachedWasSo ==
    /\ \A i \in Instance :
           row[i].cached /\ row[i].age <= CachedStale => CachedWithin(Bound(i))
    /\ \A r \in Req : ans[r] = "cached" => CachedWithin(Bound(at[r]))

\* That a torrent is not cached is learned from the store alone, so that it
\* is forgotten in the time of one row.
UncachedWasSo ==
    \A i \in Instance :
        ~row[i].cached /\ row[i].age <= UncachedStale => ago["uncached"] <= UncachedStale
=============================================================================
