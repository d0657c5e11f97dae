-------------------------- MODULE WorkerGateProofs --------------------------
(***************************************************************************)
(* Proofs about WorkerGate, for any choice of enabled workers.             *)
(***************************************************************************)
EXTENDS WorkerGate, TLAPS

\* A worker's flag is up from the start of an invocation to its end, unless the
\* end of another one lowered it.
FlagUp ==
    \A t \in Task :
        (t.of \in Flagged /\ pc[t] \in {"body", "run"}) => (flag[t.of] \/ t \in hidden)

\* From its look at the flags on, who runs among those it waits for was hidden
\* from it or came later.
Noticed ==
    \A t, u \in Task :
        (u.of \in Waits[t.of] /\ Passed(t) /\ pc[u] \in {"body", "run"})
            => <<t, u>> \in missed

Inv == TypeOK /\ FlagUp /\ Noticed

\* A task is one of an enabled worker, and those that others wait for have a flag.
LEMMA Tasks ==
    \A t \in Task : t.of \in Enabled /\ t.of \in Worker /\ Waits[t.of] \subseteq Flagged
<1>1. \A t \in Task : t.of \in Enabled /\ t.of \in Worker
  BY EnabledAssumption DEF Task
<1>2. \A w \in Worker : Waits[w] \subseteq Flagged
  BY DEF Waits, Flagged, Worker
<1>3. QED BY <1>1, <1>2

\* Types: the initial state.
LEMMA TypeInit == Init => TypeOK
<1> SUFFICES ASSUME Init PROVE TypeOK
  OBVIOUS
<1>1. pc \in [Task -> Pc]
  BY DEF Init, Pc
<1>2. flag \in [Flagged -> BOOLEAN]
  BY DEF Init
<1>3. QED BY <1>1, <1>2 DEF Init, TypeOK

\* Types: every step.
LEMMA TypeNext == TypeOK /\ [Next]_vars => TypeOK'
<1> SUFFICES ASSUME TypeOK, [Next]_vars PROVE TypeOK'
  OBVIOUS
<1>1. ASSUME NEW t \in Task, Fire(t) \/ Skip(t) \/ TurnedAway(t) \/ Execute(t) \/ ExecuteReturns(t)
      PROVE  TypeOK'
  BY <1>1 DEF Fire, Skip, TurnedAway, Execute, ExecuteReturns, goto, TypeOK, Pc
<1>2. ASSUME NEW t \in Task, Check(t) PROVE TypeOK'
  BY <1>2 DEF Check, goto, TypeOK, Pc
<1>3. ASSUME NEW t \in Task, Start(t) PROVE TypeOK'
  <2>1. pc' \in [Task -> Pc] /\ hidden' \subseteq Task
    BY <1>3 DEF Start, goto, TypeOK, Pc
  <2>2. flag' \in [Flagged -> BOOLEAN]
    BY <1>3 DEF Start, SetFlag, TypeOK
  <2>3. missed' \subseteq Task \X Task
    BY <1>3 DEF Start, startsUnseen, TypeOK
  <2>4. QED BY <2>1, <2>2, <2>3 DEF TypeOK
<1>4. ASSUME NEW t \in Task, Return(t) PROVE TypeOK'
  <2>1. pc' \in [Task -> Pc]
    BY <1>4 DEF Return, rest, goto, TypeOK, Pc
  <2>2. flag' \in [Flagged -> BOOLEAN]
    BY <1>4 DEF Return, SetFlag, TypeOK
  <2>3. hidden' \subseteq Task /\ missed' \subseteq Task \X Task
    BY <1>4 DEF Return, rest, Siblings, TypeOK
  <2>4. QED BY <2>1, <2>2, <2>3 DEF TypeOK
<1>5. CASE UNCHANGED vars
  BY <1>5 DEF vars, TypeOK
<1>6. QED BY <1>1, <1>2, <1>3, <1>4, <1>5 DEF Next

\* The steps that neither look at a flag nor set one.
LEMMA QuietStep ==
    ASSUME Inv, NEW t \in Task,
           Fire(t) \/ Skip(t) \/ TurnedAway(t) \/ Execute(t) \/ ExecuteReturns(t)
    PROVE  FlagUp' /\ Noticed'
<1> USE DEF Inv, FlagUp, Noticed, TypeOK, goto, Passed
<1>1. CASE Fire(t) \/ Skip(t) \/ TurnedAway(t)
  BY <1>1 DEF Fire, Skip, TurnedAway
<1>2. CASE Execute(t) \/ ExecuteReturns(t)
  BY <1>2 DEF Execute, ExecuteReturns
<1>3. QED BY <1>1, <1>2

\* Looking at the flags shows whoever runs and is not hidden.
LEMMA CheckStep ==
    ASSUME Inv, NEW t \in Task, Check(t)
    PROVE  FlagUp' /\ Noticed'
<1>1. /\ UNCHANGED <<flag, hidden>> /\ pc' = [pc EXCEPT ![t] = "start"] /\ missed \subseteq missed'
  BY DEF Check, goto
<1>2. ASSUME NEW u \in Task, u.of \in Waits[t.of], pc[u] \in {"body", "run"}
      PROVE  <<t, u>> \in missed'
  <2>1. ~flag[u.of] /\ u.of \in Flagged
    BY <1>2, Tasks DEF Check, MustWait
  <2>2. u \in hidden
    BY <1>2, <2>1 DEF Inv, FlagUp
  <2>3. QED BY <1>2, <2>2 DEF Check
<1>3. FlagUp'
  BY <1>1 DEF Inv, FlagUp, TypeOK
<1>4. Noticed'
  <2>1. SUFFICES ASSUME NEW v \in Task, NEW u \in Task,
                        u.of \in Waits[v.of], Passed(v)', pc'[u] \in {"body", "run"}
                 PROVE  <<v, u>> \in missed'
    BY DEF Noticed
  <2>2. pc[u] \in {"body", "run"}
    BY <1>1, <2>1 DEF Inv, TypeOK
  <2>3. v = t \/ Passed(v)
    BY <1>1, <2>1 DEF Inv, TypeOK, Passed
  <2>4. QED BY <1>1, <1>2, <2>1, <2>2, <2>3 DEF Inv, Noticed
<1>5. QED BY <1>3, <1>4

\* Starting raises the flag for all invocations of the worker, and comes too
\* late for those that have looked before.
LEMMA StartStep ==
    ASSUME Inv, NEW t \in Task, Start(t)
    PROVE  FlagUp' /\ Noticed'
<1>1. /\ pc[t] = "start" /\ pc' = [pc EXCEPT ![t] = "body"] /\ hidden' = hidden \ Siblings(t)
      /\ SetFlag(t.of, TRUE) /\ startsUnseen(t)
  BY DEF Start, goto
<1>2. FlagUp'
  <2>1. SUFFICES ASSUME NEW u \in Task, u.of \in Flagged, pc'[u] \in {"body", "run"}
                 PROVE  flag'[u.of] \/ u \in hidden'
    BY DEF FlagUp
  <2>2. CASE u.of = t.of
    BY <1>1, <2>1, <2>2 DEF SetFlag
  <2>3. CASE u.of # t.of
    BY <1>1, <2>1, <2>3 DEF SetFlag, Siblings, Inv, TypeOK, FlagUp
  <2>4. QED BY <2>2, <2>3
<1>3. Noticed'
  <2>1. SUFFICES ASSUME NEW v \in Task, NEW u \in Task,
                        u.of \in Waits[v.of], Passed(v)', pc'[u] \in {"body", "run"}
                 PROVE  <<v, u>> \in missed'
    BY DEF Noticed
  <2>2. Passed(v)
    BY <1>1, <2>1 DEF Inv, TypeOK, Passed
  <2>3. CASE u = t
    BY <1>1, <2>1, <2>2, <2>3 DEF startsUnseen
  <2>4. CASE u # t
    <3>1. pc[u] \in {"body", "run"}
      BY <1>1, <2>1, <2>4 DEF Inv, TypeOK
    <3>2. <<v, u>> \in missed
      BY <2>1, <2>2, <3>1 DEF Inv, Noticed
    <3>3. QED BY <1>1, <3>2 DEF startsUnseen
  <2>5. QED BY <2>3, <2>4
<1>4. QED BY <1>2, <1>3

\* Returning lowers the flag, which hides the worker's other invocation.
LEMMA ReturnStep ==
    ASSUME Inv, NEW t \in Task, Return(t)
    PROVE  FlagUp' /\ Noticed'
<1>1. /\ pc'[t] \in {"idle", "over"} /\ \A u \in Task : u # t => pc'[u] = pc[u]
      /\ SetFlag(t.of, FALSE)
      /\ hidden' = (hidden \ {t}) \cup {u \in Siblings(t) : pc[u] \in {"body", "run"}}
      /\ missed' = {pair \in missed : t \notin {pair[1], pair[2]}}
  BY DEF Return, rest, goto, Inv, TypeOK
<1>2. FlagUp'
  <2>1. SUFFICES ASSUME NEW u \in Task, u.of \in Flagged, pc'[u] \in {"body", "run"}
                 PROVE  flag'[u.of] \/ u \in hidden'
    BY DEF FlagUp
  <2>2. u # t /\ pc[u] \in {"body", "run"}
    BY <1>1, <2>1
  <2>3. CASE u.of = t.of
    BY <1>1, <2>2, <2>3 DEF Siblings
  <2>4. CASE u.of # t.of
    BY <1>1, <2>1, <2>2, <2>4 DEF SetFlag, Inv, FlagUp
  <2>5. QED BY <2>3, <2>4
<1>3. Noticed'
  BY <1>1 DEF Inv, Noticed, Passed
<1>4. QED BY <1>2, <1>3

\* The invariant holds in every state.
THEOREM Invariant == Spec => []Inv
<1>1. Init => Inv
  BY TypeInit DEF Init, Inv, FlagUp, Noticed, Passed
<1>2. Inv /\ [Next]_vars => Inv'
  <2> SUFFICES ASSUME Inv, [Next]_vars PROVE Inv'
    OBVIOUS
  <2>1. TypeOK'
    BY TypeNext DEF Inv
  <2>2. FlagUp' /\ Noticed'
    <3>1. CASE UNCHANGED vars
      BY <3>1 DEF vars, Inv, FlagUp, Noticed, Passed
    <3>2. QED
      BY <3>1, QuietStep, CheckStep, StartStep, ReturnStep DEF Next
  <2>3. QED
    BY <2>1, <2>2 DEF Inv
<1>3. QED
  BY <1>1, <1>2, PTL DEF Spec

\* Every variable keeps its type.
THEOREM TypeCorrect == Spec => []TypeOK
<1>1. Inv => TypeOK
  BY DEF Inv
<1>2. QED
  BY Invariant, <1>1, PTL

\* Whichever workers are enabled, with both tasks of each, a worker runs
\* together with one it waits for only if that one was started after it had
\* looked at its flag, or its flag had been lowered by its worker's other task.
THEOREM WorkersRunApart == Spec => []RunsApart
<1>1. Inv => RunsApart
  BY DEF Inv, Noticed, Passed, RunsApart
<1>2. QED
  BY Invariant, <1>1, PTL
=============================================================================
