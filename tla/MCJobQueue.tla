------------------------------ MODULE MCJobQueue -------------------------------
(* Instances of JobQueue for TLC. *)
EXTENDS JobQueue, TLC

(* Threads are alike, and so are the states of a table. *)
Alike == Permutations(Threads) \cup Permutations(Values)
================================================================================
