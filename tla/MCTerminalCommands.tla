-------------------------- MODULE MCTerminalCommands --------------------------
(* Instances of TerminalCommands for TLC. *)
EXTENDS TerminalCommands
================================================================================
