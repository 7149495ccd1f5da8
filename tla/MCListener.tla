----------------------------- MODULE MCListener -----------------------------
(* A small instance of Listener for TLC: the second message does not fit the *)
(* model, the fourth is not JSON.                                            *)
EXTENDS Listener

BodyOf == [m \in Ids |-> CASE m = 2 -> "invalid" [] m = 4 -> "not_json" [] OTHER -> "valid"]
=============================================================================
