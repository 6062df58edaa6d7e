------------------------------ MODULE MCProcess ------------------------------
(***************************************************************************)
(* Three specifications that share no state, checked side by side: a run   *)
(* of the process (Runtime), the state word of one request (Request) and   *)
(* the body queue of one request (RequestBody).  A behaviour is one of     *)
(* the part that is chosen in its first state; the others stand still.     *)
(***************************************************************************)
EXTENDS Runtime, Request, RequestBody

VARIABLE part

processVars == <<part, vars, requestVars, bodyVars>>

Is(p) == part = p

ProcessInit ==
    /\ part \in {"runtime", "request", "body"}
    /\ Init /\ RequestInit /\ BodyInit

ProcessNext ==
    \/ Is("runtime") /\ Next /\ UNCHANGED <<part, requestVars, bodyVars>>
    \/ Is("request") /\ RequestNext /\ UNCHANGED <<part, vars, bodyVars>>
    \/ Is("body") /\ BodyNext /\ UNCHANGED <<part, vars, requestVars>>

(* The fairness of the part that is running. *)
ProcessFairness ==
    \/ Is("runtime") /\ Fairness
    \/ Is("request") /\ RequestFairness
    \/ Is("body") /\ BodyFairness

ProcessSpec == ProcessInit /\ [][ProcessNext]_processVars /\ ProcessFairness

==============================================================================
