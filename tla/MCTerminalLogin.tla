---------------------------- MODULE MCTerminalLogin ----------------------------
(* Instances of TerminalLogin for TLC. *)
EXTENDS TerminalLogin
================================================================================
