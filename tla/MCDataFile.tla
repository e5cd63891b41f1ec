------------------------------ MODULE MCDataFile -------------------------------
(* Instances of DataFile for TLC. *)
EXTENDS DataFile, TLC

(* Threads are alike. *)
Alike == Permutations(Threads)
================================================================================
