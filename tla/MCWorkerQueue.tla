---------------------------- MODULE MCWorkerQueue ----------------------------
(* WorkerQueue for TLC: the keys of Shared make one group, every other key *)
(* the other.                                                              *)
EXTENDS WorkerQueue

CONSTANTS Shared, g1, g2

MCGroupOf == [k \in Key |-> IF k \in Shared THEN g1 ELSE g2]
=============================================================================
