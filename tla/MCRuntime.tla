------------------------------- MODULE MCRuntime -------------------------------
(* The process as it is built, with the descriptor C asks for; see the cfg. *)
EXTENDS Runtime
================================================================================
