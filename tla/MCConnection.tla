----------------------------- MODULE MCConnection -----------------------------
(* Threads race on the lifecycle word of one connection. *)
EXTENDS Connection
===============================================================================
