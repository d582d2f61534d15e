-------------------------- MODULE MCVerifyService --------------------------
(* VerifyService for TLC: all arguments of the calls, or all but one pair. *)
EXTENDS VerifyService

AllInputs == Requests
MostInputs == {r \in Requests : r.action = "register" \/ r.code = "111111"}
=============================================================================
