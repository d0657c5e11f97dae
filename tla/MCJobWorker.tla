----------------------------- MODULE MCJobWorker -----------------------------
(* JobWorker for TLC: the tasks of the set Local are those of the process  *)
(* Here, the others those of the process There.                            *)
EXTENDS JobWorker

CONSTANTS Local, Here, There

MCHome == [t \in Task |-> IF t \in Local THEN Here ELSE There]
=============================================================================
