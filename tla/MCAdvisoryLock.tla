--------------------------- MODULE MCAdvisoryLock ---------------------------
(* AdvisoryLock for TLC: two processes; every handle of the set Remote     *)
(* lives in the second, the others in the first.                           *)
EXTENDS AdvisoryLock

CONSTANTS Remote, Local1, Remote1

MCHome == [h \in Handle |-> IF h \in Remote THEN Remote1 ELSE Local1]
=============================================================================
