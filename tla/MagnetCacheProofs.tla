-------------------------- MODULE MagnetCacheProofs ---------------------------
(***************************************************************************)
(* Theorems of MagnetCache, for a chain of any length and any stale times. *)
(***************************************************************************)
EXTENDS MagnetCache, TLAPS

\* The bound falls by the time of one row with each instance of the chain.
LEMMA BoundStep ==
    ASSUME NEW i \in Instance
    PROVE  /\ Bound(i) \in Nat /\ Bound(i + 1) \in Nat
           /\ Bound(i) = Bound(i + 1) + CachedStale
<1>1. N + 1 - (i + 1) \in Nat /\ N + 1 - i \in Nat /\ CachedStale \in Nat
      BY ChainAssumption, StaleAssumption DEF Instance
<1>2. \A a, b \in Nat : a * b \in Nat
      OBVIOUS
<1>3. (N + 1 - i) * CachedStale = (N + 1 - (i + 1)) * CachedStale + CachedStale
      BY <1>1, ChainAssumption DEF Instance
<1> QED  BY <1>1, <1>2, <1>3 DEF Bound

LEMMA FarIsNat == Far \in Nat \ {0} /\ Old \in Nat /\ CachedStale < Old /\ UncachedStale < Old
<1>1. 1 \in Instance
      BY ChainAssumption DEF Instance
<1> QED  BY <1>1, BoundStep, StaleAssumption DEF Far, Old

\* A fact that is so has no age.
Present == ago[IF truth THEN "cached" ELSE "uncached"] = 0

\* What a row says was so when the row was written, or, if that is the peer's
\* word, no longer before than the peer may have believed it.
RowsWereSo ==
    \A i \in Instance :
        /\ row[i].cached /\ row[i].age <= CachedStale => CachedWithin(Bound(i + 1) + row[i].age)
        /\ ~row[i].cached /\ row[i].age <= UncachedStale => ago["uncached"] <= row[i].age

\* The same of rows about to be written; what is spread comes from the store.
TasksWereSo ==
    \A t \in tasks :
        /\ t.cached => CachedWithin(Bound(t.at + 1))
        /\ ~t.cached => ago["uncached"] <= 0
        /\ t.spread => CachedWithin(0)

AnswersWereSo ==
    \A r \in Req :
        /\ ans[r] = "cached" => CachedWithin(Bound(at[r]))
        /\ pc[r] \in {"idle", "look"} => ans[r] = "none"

IInv == TypeOK /\ Present /\ RowsWereSo /\ TasksWereSo /\ AnswersWereSo

-----------------------------------------------------------------------------
THEOREM Start == Init => IInv
<1> SUFFICES ASSUME Init PROVE IInv
    OBVIOUS
<1> USE FarIsNat, ChainAssumption, StaleAssumption DEF Init
<1>1. TypeOK
      BY DEF TypeOK, Instance, Fact, Answer
<1>2. Present
      BY DEF Present, Fact
<1>3. RowsWereSo
      BY DEF RowsWereSo
<1>4. TasksWereSo /\ AnswersWereSo
      BY DEF TasksWereSo, AnswersWereSo
<1> QED  BY <1>1, <1>2, <1>3, <1>4 DEF IInv

\* Types are kept by every step.
LEMMA TypeNext == TypeOK /\ [Next]_vars => TypeOK'
<1> SUFFICES ASSUME TypeOK, [Next]_vars PROVE TypeOK'
    OBVIOUS
<1> USE FarIsNat, ChainAssumption, StaleAssumption DEF TypeOK
<1>1. CASE Change
      BY <1>1 DEF Change, Fact, req
<1>2. CASE Tick
  <2>1. \A f \in Fact : Aged(ago[f], Far) \in 0 .. Far
        BY DEF Aged
  <2>2. \A i \in Instance : Aged(row[i].age, Old) \in 0 .. Old
        BY DEF Aged
  <2>3. ago' \in [Fact -> 0 .. Far] /\ row' \in [Instance -> [cached : BOOLEAN, age : 0 .. Old]]
        BY <1>2, <2>1, <2>2 DEF Tick
  <2> QED  BY <1>2, <2>3 DEF Tick, Answer
<1>3. ASSUME NEW r \in Req, NEW i \in Instance, Check(r, i) PROVE TypeOK'
      BY <1>3 DEF Check, store
<1>4. ASSUME NEW r \in Req, NEW i \in Instance, NEW files \in BOOLEAN, Observe(r, i, files) PROVE TypeOK'
      BY <1>4 DEF Observe, Task, Fact
<1>5. ASSUME NEW r \in Req, Hit(r) \/ Alone(r) PROVE TypeOK'
      BY <1>5 DEF Hit, Alone, Answers, Answer, store
<1>6. ASSUME NEW r \in Req, Ask(r) PROVE TypeOK'
      BY <1>6 DEF Ask, Instance, store
<1>7. ASSUME NEW r \in Req, Return(r) \/ ReturnFails(r) PROVE TypeOK'
  <2>1. at[r] \in 1 .. N /\ from[r] \in 1 .. N
        BY DEF Instance
  <2>2. from[r] < at[r]
        BY <1>7 DEF Return, ReturnFails
  <2>3. at[r] - 1 \in 1 .. N
        BY <2>1, <2>2
  <2>4. at' \in [Req -> Instance]
        BY <1>7, <2>3 DEF Return, ReturnFails, Instance
  <2>5. ans' \in [Req -> Answer] /\ tasks' \subseteq Task
        BY <1>7 DEF Return, ReturnFails, Answer
  <2> QED  BY <1>7, <2>4, <2>5 DEF Return, ReturnFails, store
<1>8. ASSUME NEW r \in Req, Found(r) \/ AskStore(r) \/ Unknown(r) PROVE TypeOK'
      BY <1>8 DEF Found, AskStore, Unknown, Answer, store
<1>9. ASSUME NEW t \in tasks, Touch(t) \/ Lose(t) PROVE TypeOK'
      BY <1>9 DEF Touch, Lose, Task, store, req
<1>10. CASE UNCHANGED vars
      BY <1>10 DEF vars, store, req
<1> QED
    BY <1>1, <1>2, <1>3, <1>4, <1>5, <1>6, <1>7, <1>8, <1>9, <1>10 DEF Next, Step, Goroutine

\* Steps that leave the store, the rows and the goroutines as they are.
LEMMA QuietStep ==
    ASSUME IInv, TypeOK', UNCHANGED <<store, row, tasks>>
    PROVE  Present' /\ RowsWereSo' /\ TasksWereSo' /\ (AnswersWereSo' => IInv')
<1> QED  BY DEF IInv, Present, RowsWereSo, TasksWereSo, CachedWithin, store

\* Instances ask their peers, and the peers answer.
LEMMA LookStep ==
    ASSUME IInv, TypeOK', NEW r \in Req,
           Hit(r) \/ Ask(r) \/ Alone(r) \/ Found(r) \/ Unknown(r) \/ ReturnFails(r)
           \/ \E i \in Instance : Check(r, i)
    PROVE  IInv'
<1> USE FarIsNat, ChainAssumption, StaleAssumption DEF IInv, TypeOK
<1>1. UNCHANGED <<store, row, tasks>>
      BY DEF Hit, Ask, Alone, Found, Unknown, ReturnFails, Check
<1>2. \A q \in Req : q # r => pc'[q] = pc[q] /\ at'[q] = at[q] /\ ans'[q] = ans[q]
      BY DEF Hit, Ask, Alone, Found, Unknown, ReturnFails, Check, Answers
<1>3. CASE Hit(r)
  <2>1. ans'[r] = "cached" => row[at[r]].cached /\ row[at[r]].age <= CachedStale
        BY <1>3 DEF Hit, Answers, IsStale
  <2>2. ans'[r] = "cached" => CachedWithin(Bound(at[r] + 1) + row[at[r]].age)
        BY <2>1 DEF RowsWereSo
  <2>3. ans'[r] = "cached" => CachedWithin(Bound(at[r]))
        BY <2>1, <2>2, BoundStep, at[r] \in Instance DEF CachedWithin, Fact
  <2> QED  BY <1>1, <1>2, <1>3, <2>3, QuietStep DEF Hit, Answers, AnswersWereSo, CachedWithin, store
<1>4. CASE Ask(r) \/ Alone(r) \/ Unknown(r) \/ ReturnFails(r) \/ \E i \in Instance : Check(r, i)
  <2>1. ans'[r] # "cached"
        BY <1>4 DEF Ask, Alone, Unknown, ReturnFails, Check, Answers, AnswersWereSo
  <2>2. pc'[r] \in {"idle", "look"} => ans'[r] = "none"
        BY <1>4 DEF Ask, Alone, Unknown, ReturnFails, Check, Answers, AnswersWereSo
  <2> QED  BY <1>1, <1>2, <2>1, <2>2, QuietStep DEF AnswersWereSo, CachedWithin, store
<1>5. CASE Found(r)
      BY <1>1, <1>2, <1>5, QuietStep DEF Found, AnswersWereSo, CachedWithin, store
<1> QED  BY <1>3, <1>4, <1>5

\* The store makes up its mind anew.
LEMMA ChangeStep == ASSUME IInv, TypeOK', Change PROVE IInv'
<1> USE DEF IInv, TypeOK, Change, Fact
<1>1. Present'
      BY DEF Present
<1>2. \A h \in Nat : CachedWithin(h) => CachedWithin(h)'
      BY DEF CachedWithin
<1>3. RowsWereSo'
  <2>1. \A i \in Instance : Bound(i + 1) + row[i].age \in Nat
        BY BoundStep
  <2> QED  BY <1>2, <2>1, FarIsNat DEF RowsWereSo
<1>4. TasksWereSo'
      BY <1>2, BoundStep DEF TasksWereSo, Task
<1>5. AnswersWereSo'
      BY <1>2, BoundStep DEF AnswersWereSo, req
<1> QED  BY <1>1, <1>3, <1>4, <1>5

\* An hour passes; nothing is under way.
LEMMA TickStep == ASSUME IInv, TypeOK', Tick PROVE IInv'
<1> USE FarIsNat, StaleAssumption DEF IInv, TypeOK, Tick, Fact
<1>1. Present'
      BY DEF Present, IsNow
<1>2. \A f \in Fact : ago'[f] <= ago[f] + 1 /\ ago'[f] \in Nat
      BY DEF Aged
<1>3. \A h \in Nat : CachedWithin(h) => CachedWithin(h + 1)'
      BY <1>2 DEF CachedWithin
<1>4. ASSUME NEW i \in Instance PROVE
          /\ (row[i].cached /\ row[i].age <= CachedStale => CachedWithin(Bound(i + 1) + row[i].age))'
          /\ (~row[i].cached /\ row[i].age <= UncachedStale => ago["uncached"] <= row[i].age)'
  <2>1. row'[i].cached = row[i].cached /\ row'[i].age = Aged(row[i].age, Old)
        OBVIOUS
  <2>2. row[i].age < Old => row'[i].age = row[i].age + 1
        BY <2>1 DEF Aged
  <2>3. row[i].age >= Old => row'[i].age > CachedStale /\ row'[i].age > UncachedStale
        BY <2>1 DEF Aged
  <2>4. CASE row[i].age >= Old
        BY <2>3, <2>4
  <2>5. CASE row[i].age < Old
    <3>1. row'[i].age = row[i].age + 1 /\ row[i].age \in Nat
          BY <2>2, <2>5
    <3>2. Bound(i + 1) \in Nat /\ Bound(i + 1)' = Bound(i + 1)
          BY BoundStep DEF Bound
    <3>3. row[i].cached /\ row'[i].age <= CachedStale => CachedWithin(Bound(i + 1) + row[i].age)'
      <4>1. row[i].cached /\ row'[i].age <= CachedStale => CachedWithin(Bound(i + 1) + row[i].age)
            BY <3>1, StaleAssumption DEF RowsWereSo
      <4>2. Bound(i + 1) + row'[i].age = (Bound(i + 1) + row[i].age) + 1 /\ Bound(i + 1) + row[i].age \in Nat
            BY <3>1, <3>2
      <4>3. (Bound(i + 1) + row[i].age)' = (Bound(i + 1) + row[i].age) + 1
            BY <3>1, <3>2
      <4> QED  BY <4>1, <4>2, <4>3, <1>3, <3>2
    <3>4. ~row[i].cached /\ row'[i].age <= UncachedStale => ago'["uncached"] <= row'[i].age
          BY <1>2, <3>1, StaleAssumption DEF RowsWereSo
    <3> QED  BY <2>1, <3>3, <3>4
  <2> QED  BY <2>4, <2>5
<1>5. TasksWereSo' /\ AnswersWereSo'
      BY DEF TasksWereSo, AnswersWereSo
<1> QED  BY <1>1, <1>4, <1>5 DEF RowsWereSo

\* Rows are written, or not; the peer is told.
LEMMA GoroutineStep == ASSUME IInv, TypeOK', NEW t \in tasks, Touch(t) \/ Lose(t) PROVE IInv'
<1> USE DEF IInv, TypeOK
<1>1. Present' /\ AnswersWereSo'
      BY DEF Touch, Lose, Present, AnswersWereSo, CachedWithin, store, req
<1>2. CASE Lose(t)
      BY <1>1, <1>2 DEF Lose, RowsWereSo, TasksWereSo, CachedWithin, store
<1>3. CASE Touch(t)
  <2>1. RowsWereSo'
    <3>1. \A i \in Instance : i # t.at => row'[i] = row[i]
          BY <1>3 DEF Touch
    <3>2. t \in Task /\ row'[t.at] = [cached |-> t.cached, age |-> 0]
          BY <1>3 DEF Touch, Task
    <3>3. t.cached => CachedWithin(Bound(t.at + 1) + 0)
          BY <3>2, BoundStep DEF TasksWereSo, Task
    <3> QED  BY <1>3, <3>1, <3>2, <3>3 DEF RowsWereSo, TasksWereSo, Touch, CachedWithin, store, Task
  <2>2. \A u \in tasks' : u \in tasks \/ (u \in Task /\ t.spread /\ u = [at |-> t.at + 1, cached |-> TRUE, spread |-> TRUE])
        BY <1>3 DEF Touch
  <2>3. \A h \in Nat : CachedWithin(0) => CachedWithin(h)
        BY DEF CachedWithin, Fact
  <2>4. ASSUME NEW u \in tasks', u \notin tasks
        PROVE  (u.cached => CachedWithin(Bound(u.at + 1))) /\ u.cached /\ CachedWithin(0)
    <3>1. u \in Task /\ t.spread /\ u = [at |-> t.at + 1, cached |-> TRUE, spread |-> TRUE]
          BY <2>2, <2>4
    <3>2. u.cached /\ CachedWithin(0)
          BY <3>1 DEF TasksWereSo
    <3>3. Bound(u.at + 1) \in Nat
          BY <3>1, BoundStep, u.at \in Instance DEF Task
    <3> QED  BY <2>3, <3>2, <3>3
  <2>5. TasksWereSo'
        BY <1>3, <2>2, <2>4 DEF TasksWereSo, Touch, CachedWithin, store
  <2> QED  BY <1>1, <2>1, <2>5
<1> QED  BY <1>2, <1>3

\* A goroutine more does no harm if what it is to write was so.
LEMMA TaskAdded ==
    ASSUME IInv, NEW u \in Task, UNCHANGED <<truth, row>>, tasks' \subseteq tasks \cup {u},
           \A f \in Fact : ago'[f] <= ago[f] /\ ago'[f] \in 0 .. Far,
           (u.cached => CachedWithin(Bound(u.at + 1)))', (~u.cached => ago["uncached"] <= 0)',
           (u.spread => CachedWithin(0))'
    PROVE  Present' /\ RowsWereSo' /\ TasksWereSo'
<1> USE FarIsNat DEF IInv, TypeOK
<1>1. Present'
      BY DEF Present, Fact
<1>2. \A h \in Nat : CachedWithin(h) => CachedWithin(h)'
      BY DEF CachedWithin, Fact
<1>3. \A i \in Instance : Bound(i + 1) \in Nat /\ Bound(i + 1)' = Bound(i + 1)
      BY BoundStep DEF Bound
<1>4. RowsWereSo'
  <2>1. \A i \in Instance : Bound(i + 1) + row[i].age \in Nat
        BY <1>3
  <2> QED  BY <1>2, <1>3, <2>1 DEF RowsWereSo, Fact
<1>5. TasksWereSo'
  <2>1. ASSUME NEW t \in tasks
        PROVE  (t.cached => CachedWithin(Bound(t.at + 1)))' /\ (~t.cached => ago["uncached"] <= 0)'
               /\ (t.spread => CachedWithin(0))'
        BY <1>2, <1>3 DEF TasksWereSo, Task, Fact
  <2> QED  BY <2>1 DEF TasksWereSo
<1> QED  BY <1>1, <1>4, <1>5

\* The store tells its status, and perhaps files.
LEMMA ObserveStep ==
    ASSUME IInv, TypeOK', NEW r \in Req, NEW i \in Instance, NEW files \in BOOLEAN, Observe(r, i, files)
    PROVE  IInv'
<1> USE FarIsNat DEF IInv, TypeOK, Fact
<1>a. PICK u \in Task : u = [at |-> i, cached |-> truth, spread |-> files]
      BY DEF Task
<1>1. tasks' \subseteq tasks \cup {u} /\ UNCHANGED <<truth, row>>
      BY <1>a DEF Observe
<1>2. \A f \in Fact : ago'[f] <= ago[f] /\ ago'[f] \in 0 .. Far
      BY DEF Observe
<1>3. truth => ago'["cached"] = 0
      BY DEF Observe, Present
<1>4. ~truth => ago'["uncached"] <= 0 /\ (files => ago'["listed"] = 0)
      BY DEF Observe, Present
<1>5. (u.cached => CachedWithin(Bound(u.at + 1)))' /\ (~u.cached => ago["uncached"] <= 0)' /\ (u.spread => CachedWithin(0))'
  <2>1. Bound(i + 1) \in Nat /\ Bound(i + 1)' = Bound(i + 1)
        BY BoundStep DEF Bound
  <2> QED  BY <1>a, <1>1, <1>3, <1>4, <2>1 DEF CachedWithin
<1>6. Present' /\ RowsWereSo' /\ TasksWereSo'
      BY <1>1, <1>2, <1>5, TaskAdded
<1>7. AnswersWereSo'
  <2>1. \A q \in Req : Bound(at[q]) \in Nat /\ (CachedWithin(Bound(at[q])) => CachedWithin(Bound(at[q]))')
        BY <1>2, BoundStep DEF CachedWithin, Observe, Bound
  <2> QED  BY <2>1 DEF AnswersWereSo, Observe
<1> QED  BY <1>6, <1>7

\* An answer goes back to the instance that asked.
LEMMA ReturnStep == ASSUME IInv, TypeOK', NEW r \in Req, Return(r) PROVE IInv'
<1> USE FarIsNat DEF IInv, TypeOK
<1>1. at[r] \in Instance /\ from[r] \in Instance /\ from[r] < at[r] /\ UNCHANGED <<store, row, pc, ans>>
      BY DEF Return
<1>2. at[r] - 1 \in Instance /\ at'[r] = at[r] - 1 /\ (at[r] - 1) + 1 = at[r]
      BY <1>1 DEF Return, Instance
<1>3. Bound(at[r]) \in Nat /\ Bound(at[r] - 1) \in Nat /\ Bound(at[r] - 1) >= Bound(at[r])
      BY <1>1, <1>2, BoundStep, StaleAssumption
<1>4. Present' /\ RowsWereSo' /\ TasksWereSo'
  <2>1. CASE ans[r] = "cached"
    <3>a. PICK u \in Task : u = [at |-> at[r] - 1, cached |-> TRUE, spread |-> FALSE]
          BY <1>2 DEF Task
    <3>1. tasks' \subseteq tasks \cup {u}
          BY <3>a DEF Return
    <3>2. CachedWithin(Bound(u.at + 1))'
      <4>1. u.at + 1 = at[r]
            BY <3>a, <1>2
      <4>2. CachedWithin(Bound(at[r]))
            BY <2>1 DEF AnswersWereSo
      <4> QED  BY <1>1, <4>1, <4>2 DEF CachedWithin, Bound, store
    <3>3. \A f \in Fact : ago'[f] <= ago[f] /\ ago'[f] \in 0 .. Far
          BY <1>1 DEF store
    <3>4. u.cached /\ ~u.spread
          BY <3>a
    <3> QED  BY <1>1, <3>1, <3>2, <3>3, <3>4, TaskAdded DEF store
  <2>2. CASE ans[r] # "cached"
    <3>1. tasks' = tasks
          BY <2>2 DEF Return
    <3> QED  BY <1>1, <3>1 DEF Present, RowsWereSo, TasksWereSo, CachedWithin, store
  <2> QED  BY <2>1, <2>2
<1>5. AnswersWereSo'
  <2>1. CachedWithin(Bound(at[r])) => CachedWithin(Bound(at[r] - 1))
        BY <1>3 DEF CachedWithin, Fact
  <2>2. \A q \in Req : q # r => at'[q] = at[q]
        BY DEF Return
  <2> QED  BY <1>1, <1>2, <2>1, <2>2 DEF AnswersWereSo, CachedWithin, store
<1> QED  BY <1>4, <1>5

\* The store answers what no instance knew.
LEMMA AskStoreStep == ASSUME IInv, TypeOK', NEW r \in Req, AskStore(r) PROVE IInv'
<1> USE FarIsNat DEF IInv, TypeOK
<1>1. at[r] \in Instance /\ UNCHANGED <<store, row, from, at>>
      BY DEF AskStore
<1>2. truth => \A h \in Nat : CachedWithin(h)
      BY DEF CachedWithin, Present, Fact
<1>3. Bound(at[r]) \in Nat /\ Bound(at[r] + 1) \in Nat
      BY <1>1, BoundStep
<1>4. Present' /\ RowsWereSo' /\ TasksWereSo'
  <2>1. CASE truth
    <3>a. PICK u \in Task : u = [at |-> at[r], cached |-> TRUE, spread |-> TRUE]
          BY <1>1 DEF Task
    <3>1. tasks' \subseteq tasks \cup {u} /\ u.cached
          BY <3>a DEF AskStore
    <3>2. CachedWithin(Bound(u.at + 1))' /\ CachedWithin(0)'
          BY <3>a, <1>1, <1>2, <1>3, <2>1 DEF CachedWithin, Bound, store
    <3>3. \A f \in Fact : ago'[f] <= ago[f] /\ ago'[f] \in 0 .. Far
          BY <1>1 DEF store
    <3> QED  BY <1>1, <3>1, <3>2, <3>3, TaskAdded DEF store
  <2>2. CASE ~truth
    <3>1. tasks' = tasks
          BY <2>2 DEF AskStore
    <3> QED  BY <1>1, <3>1 DEF Present, RowsWereSo, TasksWereSo, CachedWithin, store
  <2> QED  BY <2>1, <2>2
<1>5. AnswersWereSo'
  <2>1. ans'[r] = "cached" => CachedWithin(Bound(at[r]))
        BY <1>2, <1>3 DEF AskStore
  <2>2. pc'[r] = "done" /\ \A q \in Req : q # r => ans'[q] = ans[q] /\ pc'[q] = pc[q]
        BY DEF AskStore
  <2> QED  BY <1>1, <2>1, <2>2 DEF AnswersWereSo, CachedWithin, store
<1> QED  BY <1>4, <1>5

-----------------------------------------------------------------------------
LEMMA Inductive == IInv /\ [Next]_vars => IInv'
<1> SUFFICES ASSUME IInv, [Next]_vars PROVE IInv'
    OBVIOUS
<1>1. TypeOK'
      BY TypeNext DEF IInv
<1>2. CASE UNCHANGED vars
      BY <1>1, <1>2, QuietStep DEF vars, req, store, IInv, AnswersWereSo, CachedWithin
<1>3. ASSUME NEW r \in Req, Step(r) PROVE IInv'
      BY <1>1, <1>3, LookStep, ReturnStep, AskStoreStep DEF Step
<1>4. ASSUME NEW r \in Req, NEW i \in Instance, Check(r, i) PROVE IInv'
      BY <1>1, <1>4, LookStep
<1>5. ASSUME NEW r \in Req, NEW i \in Instance, NEW files \in BOOLEAN, Observe(r, i, files) PROVE IInv'
      BY <1>1, <1>5, ObserveStep
<1> QED
    BY <1>1, <1>2, <1>3, <1>4, <1>5, ChangeStep, TickStep, GoroutineStep DEF Next, Goroutine

THEOREM Invariance == Spec => []IInv
<1> QED  BY Start, Inductive, PTL DEF Spec

\* The variables keep their types.
THEOREM TypeCorrect == Spec => []TypeOK
<1>1. IInv => TypeOK
      BY DEF IInv
<1> QED  BY <1>1, Invariance, PTL

\* However long the chain, and whatever its instances tell one another, a
\* torrent that is taken for cached was cached, or was listed with files by a
\* store that had not downloaded it, no longer ago than the sum of the stale
\* times from there to the end of the chain.
THEOREM CachedIsRecent == Spec => []CachedWasSo
<1>1. IInv => CachedWasSo
  <2> SUFFICES ASSUME IInv PROVE CachedWasSo
      OBVIOUS
  <2>1. ASSUME NEW i \in Instance, row[i].cached, row[i].age <= CachedStale
        PROVE  CachedWithin(Bound(i))
    <3>1. CachedWithin(Bound(i + 1) + row[i].age)
          BY <2>1 DEF IInv, RowsWereSo
    <3>2. row[i].age \in Nat /\ ago["cached"] \in Nat /\ ago["listed"] \in Nat
          BY FarIsNat DEF IInv, TypeOK, Fact
    <3> QED  BY <2>1, <3>1, <3>2, BoundStep, StaleAssumption DEF CachedWithin
  <2> QED  BY <2>1 DEF CachedWasSo, IInv, AnswersWereSo
<1> QED  BY <1>1, Invariance, PTL

\* That it is not cached is forgotten in the time of one row, on every
\* instance of the chain.
THEOREM UncachedIsRecent == Spec => []UncachedWasSo
<1>1. IInv => UncachedWasSo
      BY FarIsNat, StaleAssumption DEF IInv, TypeOK, RowsWereSo, UncachedWasSo, Fact
<1> QED  BY <1>1, Invariance, PTL
=============================================================================
