----------------------------- MODULE WorkerGate -----------------------------
(***************************************************************************)
(* How the background workers of one process keep out of each other's way: *)
(* the running_worker flags of internal/worker/worker.go and the           *)
(* shouldWait, onStart and onEnd hooks that InitWorkers gives the workers. *)
(* The workers that InitWorkers has switched off (if false) never set      *)
(* their flags and are left out, and so are those that wait for nobody and *)
(* that nobody waits for.                                                  *)
(*                                                                         *)
(* A worker that raises a flag has two tasks, the periodic one and the one *)
(* that runs once at startup, which share the flag: the end of either      *)
(* lowers it.  What an invocation does between onStart and onEnd is in     *)
(* JobWorker; here it is turned away (it or an instance elsewhere runs or  *)
(* has just run the worker), or its executor runs.                         *)
(***************************************************************************)
EXTENDS Integers

CONSTANT Enabled    \* the workers that the configuration enables

Worker == {"crawl-store", "sync-imdb", "sync-animeapi", "sync-anidb-titles",
           "sync-anidb-tvdb-episode-map", "manami-anime-database"}

ASSUME EnabledAssumption == Enabled \subseteq Worker

\* shouldWait: the workers each one waits for.
Waits == [w \in Worker |->
    CASE w \in {"crawl-store", "sync-animeapi"} -> {"sync-imdb"}
      [] w = "sync-anidb-tvdb-episode-map" -> {"sync-anidb-titles"}
      [] w = "manami-anime-database" -> {"sync-anidb-titles", "sync-animeapi"}
      [] OTHER -> {}]

\* onStart and onEnd of crawl-store do nothing.
Flagged == Worker \ {"crawl-store"}

\* The tasks of the scheduler; crawl-store alone has no RunAtStartupAfter.
Task == [of : Enabled, at : {"interval"}] \cup [of : Enabled \cap Flagged, at : {"startup"}]

VARIABLES
    pc,      \* what each task's invocation does next
    flag,    \* running_worker
    hidden,  \* invocations whose flag another one lowered (history)
    missed   \* pairs: who has looked at the flags, and whom it did not see (history)

vars == <<pc, flag, hidden, missed>>

Init ==
    /\ pc = [t \in Task |-> "idle"]
    /\ flag = [w \in Flagged |-> FALSE]
    /\ hidden = {}
    /\ missed = {}

goto(t, l) == pc' = [pc EXCEPT ![t] = l]

MustWait(w) == \E x \in Waits[w] : flag[x]

Siblings(t) == {u \in Task : u.of = t.of /\ u # t}

\* Has looked, and will run or is running.
Passed(t) == pc[t] \in {"start", "body", "run"}

\* Those that wait for the worker of t and have looked already do not see it.
startsUnseen(t) ==
    missed' = missed \cup {<<u, t>> : u \in {v \in Task : Passed(v) /\ t.of \in Waits[v.of]}}

-----------------------------------------------------------------------------
\* The scheduler fires the periodic task, or the startup task for once.
Fire(t) ==
    /\ pc[t] = "idle"
    /\ goto(t, "gate")
    /\ UNCHANGED <<flag, hidden, missed>>

\* Only crawl-store has a shouldSkip: its queue is empty.
Skip(t) ==
    /\ t.of = "crawl-store"
    /\ pc[t] = "gate"
    /\ goto(t, "return")
    /\ UNCHANGED <<flag, hidden, missed>>

\* shouldWait, once a minute until it answers FALSE.
Check(t) ==
    /\ pc[t] = "gate"
    /\ ~MustWait(t.of)
    /\ missed' = missed \cup {<<t, u>> : u \in {v \in hidden : v.of \in Waits[t.of]}}
    /\ goto(t, "start")
    /\ UNCHANGED <<flag, hidden>>

SetFlag(w, b) == flag' = [x \in Flagged |-> IF x = w THEN b ELSE flag[x]]

\* Mutant: onStart does not raise the flag.
StartQuiet(t) ==
    /\ pc[t] = "start"
    /\ hidden' = hidden \ Siblings(t)
    /\ startsUnseen(t)
    /\ goto(t, "body")
    /\ UNCHANGED flag

\* Mutant: onStart raises a flag of its own for crawl-store.
StartFlagged(t) ==
    /\ pc[t] = "start"
    /\ flag' = [x \in Flagged \cup {t.of} |-> IF x = t.of THEN TRUE ELSE flag[x]]
    /\ hidden' = hidden \ Siblings(t)
    /\ startsUnseen(t)
    /\ goto(t, "body")

\* onStart, under the mutex again but not the same critical section.
Start(t) ==
    /\ pc[t] = "start"
    /\ SetFlag(t.of, TRUE)
    /\ hidden' = hidden \ Siblings(t)
    /\ startsUnseen(t)
    /\ goto(t, "body")

TurnedAway(t) ==
    /\ pc[t] = "body"
    /\ goto(t, "return")
    /\ UNCHANGED <<flag, hidden, missed>>

Execute(t) ==
    /\ pc[t] = "body"
    /\ goto(t, "run")
    /\ UNCHANGED <<flag, hidden, missed>>

ExecuteReturns(t) ==
    /\ pc[t] = "run"
    /\ goto(t, "return")
    /\ UNCHANGED <<flag, hidden, missed>>

rest(t) ==
    /\ goto(t, IF t.at = "startup" THEN "over" ELSE "idle")
    /\ missed' = {pair \in missed : t \notin {pair[1], pair[2]}}

\* Mutant: onEnd does not lower the flag.
ReturnQuiet(t) ==
    /\ pc[t] = "return"
    /\ hidden' = hidden \ {t}
    /\ rest(t)
    /\ UNCHANGED flag

\* onEnd, whose flag is its own as much as that of the worker's other task.
Return(t) ==
    /\ pc[t] = "return"
    /\ SetFlag(t.of, FALSE)
    /\ hidden' = (hidden \ {t}) \cup {u \in Siblings(t) : pc[u] \in {"body", "run"}}
    /\ rest(t)

Next ==
    \E t \in Task :
        \/ Fire(t) \/ Skip(t) \/ Check(t) \/ Start(t)
        \/ TurnedAway(t) \/ Execute(t) \/ ExecuteReturns(t) \/ Return(t)

Spec == Init /\ [][Next]_vars

-----------------------------------------------------------------------------
Pc == {"idle", "gate", "start", "body", "run", "return", "over"}

TypeOK ==
    /\ pc \in [Task -> Pc]
    /\ flag \in [Flagged -> BOOLEAN]
    /\ hidden \subseteq Task
    /\ missed \subseteq Task \X Task

\* While the executor of a worker runs, that of a worker it waits for runs
\* only if that one was started after the first had looked at its flag, or if
\* the flag had fallen at the end of another invocation of that worker.  The
\* gate closes in one direction, and only for those that come later.
RunsApart ==
    \A t, u \in Task :
        (pc[t] = "run" /\ pc[u] = "run" /\ u.of \in Waits[t.of]) => <<t, u>> \in missed

-----------------------------------------------------------------------------
\* Executors return.  A waiting worker looks once a minute and the workers it
\* waits for run once a day, so it looks while they rest: strong fairness.
FairSpec ==
    /\ Spec
    /\ \A t \in Task :
          /\ SF_vars(Check(t))
          /\ WF_vars(Start(t))
          /\ WF_vars(TurnedAway(t) \/ Execute(t))
          /\ WF_vars(ExecuteReturns(t))
          /\ WF_vars(Return(t))

\* No task waits at its gate for ever, and none makes another wait for ever.
GateOpens == \A t \in Task : pc[t] = "gate" ~> pc[t] # "gate"
=============================================================================
