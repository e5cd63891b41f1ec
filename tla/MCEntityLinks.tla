---------------------------- MODULE MCEntityLinks ----------------------------
(* Instances of EntityLinks for TLC: up to four handles, two types.         *)
EXTENDS EntityLinks

(* The LINK FINAL commands of an instance: of any two handles, of two       *)
(* different ones, none.                                                    *)
AnyMerge == Handles \X Handles
ProperMerges == {p \in Handles \X Handles : p[1] # p[2]}
NoMerge == {}
================================================================================
