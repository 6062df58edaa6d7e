--------------------------- MODULE MCCompletionQueue --------------------------
(* A short ring with more producers than cells. *)
EXTENDS CompletionQueue
===============================================================================
