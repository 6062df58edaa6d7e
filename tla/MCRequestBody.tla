---------------------------- MODULE MCRequestBody -----------------------------
(* A ring of two cells on its own; MCProcess has the larger one. *)
EXTENDS RequestBody
===============================================================================
