---------------------------- MODULE MCUserAccounts ----------------------------
(* Instances of UserAccounts for TLC. *)
EXTENDS UserAccounts, TLC

(* Sessions are alike, and so are worker threads. *)
Alike == Permutations(Sessions) \cup Permutations(Workers)
================================================================================
