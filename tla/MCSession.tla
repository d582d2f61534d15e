------------------------------ MODULE MCSession ------------------------------
(* Session for TLC: a request whose handler may hang, and one for a target *)
(* that is registered for another verb and answered at once.               *)
EXTENDS Session

MCRequests ==
  {[method |-> "POST", target |-> "/users/verify_code"],
   [method |-> "GET", target |-> "/history/like"]}
=============================================================================
