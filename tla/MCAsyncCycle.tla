----------------------------- MODULE MCAsyncCycle -----------------------------
(* Threads race to start and to end one asynchronous cycle. *)
EXTENDS AsyncCycle
===============================================================================
