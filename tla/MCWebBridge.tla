------------------------------ MODULE MCWebBridge ------------------------------
(* Instances of WebBridge for TLC. *)
EXTENDS WebBridge
================================================================================
